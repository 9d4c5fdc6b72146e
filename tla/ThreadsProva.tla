----------------------------- MODULE ThreadsProva -----------------------------
(***************************************************************************)
(* Proofs about the two programs of threads/ that join what they create.   *)
(* SomaMatriz (ex2.c), for every number of threads and of rows: the        *)
(* creation loop covers the rows without overlap, the sums are right, and  *)
(* the rows are freed when nobody reads them.  CopiaArquivo (ex3.c), for   *)
(* any number of threads and of blocks: the copy is whole when main ends,  *)
(* however the threads truncate and write.                                 *)
(***************************************************************************)
EXTENDS SomaMatriz, CopiaArquivo, TLAPS

-----------------------------------------------------------------------------
(* The slices of Particao, for every number of elements and of workers:      *)
(* where they end, that they grow, and that they leave nothing out           *)

LEMMA Divisao == ASSUME NEW n \in Nat, NEW k \in Nat \ {0}
                 PROVE  /\ n \div k \in Nat
                        /\ n % k \in Nat
                        /\ n = k * (n \div k) + (n % k)
  BY SMT

LEMMA Monotona == ASSUME NEW q \in Nat, NEW s \in Nat, NEW t \in Nat, s <= t
                  PROVE  s * q <= t * q
  BY SMT

LEMMA Distribui == ASSUME NEW q \in Nat, NEW t \in Nat
                   PROVE  (t + 1) * q = t * q + q /\ t * q \in Nat
  BY SMT

\* FimDe begins with the first slice, grows by n/k, and ends at n.
LEMMA Fins ==
  ASSUME NEW n \in Nat, NEW k \in Nat \ {0}
  PROVE  /\ FimDe(n, k, 0) = (n \div k) + (n % k)
         /\ FimDe(n, k, k - 1) = n
         /\ \A t \in Nat \ {0} : FimDe(n, k, t) = FimDe(n, k, t - 1) + (n \div k)
         /\ \A t \in Nat : FimDe(n, k, t) \in Nat
         /\ \A s, t \in Nat : s <= t => FimDe(n, k, s) <= FimDe(n, k, t)
<1> DEFINE q == n \div k
           r == n % k
<1>1. q \in Nat /\ r \in Nat /\ n = k * q + r
  BY Divisao
<1> HIDE DEF q, r
<1>2. \A t \in Nat : FimDe(n, k, t) = r + (t * q + q) /\ t * q \in Nat
  BY <1>1, Distribui DEF FimDe, q, r
<1>3. FimDe(n, k, k - 1) = r + (k - 1 + 1) * q
  BY DEF FimDe, q, r
<1>4. k - 1 + 1 = k
  OBVIOUS
<1>5. FimDe(n, k, k - 1) = n
  BY <1>1, <1>3, <1>4
<1>6. FimDe(n, k, 0) = q + r
  BY <1>1, <1>2
<1>7. ASSUME NEW t \in Nat \ {0} PROVE FimDe(n, k, t) = FimDe(n, k, t - 1) + q
  <2>1. t - 1 \in Nat /\ t - 1 + 1 = t
    OBVIOUS
  <2>2. FimDe(n, k, t) = r + (t * q + q) /\ FimDe(n, k, t - 1) = r + ((t - 1) * q + q)
    BY <1>2, <2>1
  <2>3. (t - 1 + 1) * q = (t - 1) * q + q /\ (t - 1) * q \in Nat
    BY <1>1, <2>1, Distribui
  <2>4. t * q = (t - 1) * q + q
    BY <2>1, <2>3
  <2> QED
    BY <1>1, <2>2, <2>3, <2>4
<1>8. \A s, t \in Nat : s <= t => FimDe(n, k, s) <= FimDe(n, k, t)
  BY <1>1, <1>2, Monotona
<1> QED
  BY <1>1, <1>2, <1>5, <1>6, <1>7, <1>8 DEF q, r

\* Every element is before the end of the slices, and after that of the slice
\* before its own.
LEMMA Cobre ==
  ASSUME NEW n \in Nat, NEW k \in Nat \ {0}, NEW e \in 0..(n - 1)
  PROVE  \E t \in 0..(k - 1) : /\ e < FimDe(n, k, t)
                               /\ t # 0 => FimDe(n, k, t - 1) <= e
<1> DEFINE q == n \div k
           r == n % k
<1>1. q \in Nat /\ r \in Nat /\ n = k * q + r
  BY Divisao
<1>0. FimDe(n, k, 0) = q + r
  BY Fins
<1> HIDE DEF q, r
<1>2. CASE e < FimDe(n, k, 0)
  BY <1>2
<1>3. CASE ~(e < FimDe(n, k, 0))
  <2>1. e >= r + q
    BY <1>0, <1>1, <1>3
  <2>2. q # 0
    <3>1. ASSUME q = 0 PROVE FALSE
      <4>1. k * q = 0
        BY <3>1
      <4> QED
        BY <4>1, <2>1, <1>1, <3>1
    <3> QED
      BY <3>1
  <2> DEFINE t == (e - r) \div q
  <2>3. e - r \in Nat /\ q \in Nat \ {0}
    BY <1>1, <2>1, <2>2
  <2>4. t \in Nat /\ (e - r) % q \in 0..(q - 1) /\ e - r = q * t + ((e - r) % q)
    BY <2>3, SMT
  <2> HIDE DEF t
  <2>5. t * q <= e - r /\ e - r < t * q + q
    BY <2>3, <2>4
  <2>6. FimDe(n, k, t) = r + (t * q + q)
    BY <1>1, <2>4, Distribui DEF FimDe, q, r
  <2>7. t # 0 => FimDe(n, k, t - 1) = r + t * q
    BY <1>1, <2>4 DEF FimDe, q, r
  <2>8. t <= k - 1
    <3>1. ASSUME k <= t PROVE FALSE
      <4>1. k * q <= t * q
        BY <1>1, <2>4, <3>1, Monotona
      <4> QED
        BY <4>1, <1>1, <2>5, <2>4
    <3> QED
      BY <3>1, <2>4
  <2> QED
    BY <2>4, <2>5, <2>6, <2>7, <2>8, <1>1
<1> QED
  BY <1>2, <1>3

-----------------------------------------------------------------------------
(* The threads *)

\* The slices that main hands out are within the rows.
LEMMA FimNoLimite ==
  \A t \in Thread : /\ FimDe(M, numThreads, t) \in 0..M
                    /\ t # 0 => FimDe(M, numThreads, t - 1) \in 0..M
<1>1. SUFFICES ASSUME NEW t \in Nat, t <= numThreads - 1
               PROVE  FimDe(M, numThreads, t) \in 0..M
  BY ArgumentosAssumption DEF Thread
<1>2. M \in Nat /\ numThreads \in Nat \ {0} /\ numThreads - 1 \in Nat
  BY ArgumentosAssumption
<1>3. FimDe(M, numThreads, t) <= FimDe(M, numThreads, numThreads - 1)
  BY <1>1, <1>2, Fins
<1> QED
  BY <1>1, <1>2, <1>3, Fins

\* The slice of the next thread to be created is the one the reference gives it.
LEMMA FatiaCerta ==
  ASSUME IInv, main = "cria", i < numThreads
  PROVE  /\ i \in Thread
         /\ Fatia = [inicio |-> IF i = 0 THEN 0 ELSE FimDe(M, numThreads, i - 1),
                     fim |-> FimDe(M, numThreads, i)]
         /\ Fatia.inicio \in 0..M /\ Fatia.fim \in 0..M
         /\ Fatia.inicio <= Fatia.fim
<1>1. i \in Nat /\ i \in Thread /\ M \in Nat /\ numThreads \in Nat \ {0}
  BY ArgumentosAssumption DEF IInv, TypeOK, Thread
<1>2. i # 0 => fimThreadAnterior = FimDe(M, numThreads, i - 1)
  BY DEF IInv, FatiasCertas, Criadas
<1>3. CASE i = 0
  <2>1. FimDe(M, numThreads, 0) = (M \div numThreads) + (M % numThreads)
    BY <1>1, Fins
  <2>2. FimDe(M, numThreads, 0) \in 0..M
    BY <1>1, <1>3, FimNoLimite
  <2> QED
    BY <1>1, <1>3, <2>1, <2>2 DEF Fatia, Primeira
<1>4. CASE i # 0
  <2>1. i \in Nat \ {0}
    BY <1>1, <1>4
  <2>2. FimDe(M, numThreads, i) = FimDe(M, numThreads, i - 1) + (M \div numThreads)
    BY <2>1, <1>1, Fins
  <2>3. M \div numThreads \in Nat
    BY <1>1, Divisao
  <2> QED
    BY <1>1, <1>2, <1>4, <2>2, <2>3, FimNoLimite DEF Fatia, Seguinte
<1> QED
  BY <1>3, <1>4

LEMMA InitIInv == Init => IInv
<1> SUFFICES ASSUME Init PROVE IInv
  OBVIOUS
<1>1. TypeOK
  BY ArgumentosAssumption DEF Init, TypeOK, VAZIA, Thread, Linhas
<1> QED
  BY <1>1, ArgumentosAssumption DEF Init, IInv, FatiasCertas, SomaSoDaLinha, Criadas, Thread, Linhas

LEMMA PassoCria ==
  ASSUME IInv, NEW ok \in BOOLEAN, Cria(ok)
  PROVE  IInv'
<1>1. /\ main = "cria" /\ i < numThreads /\ main' = main /\ i' = i + 1
      /\ soma' = soma /\ somaLinha' = somaLinha
      /\ fimThreadAnterior' = Fatia.fim
      /\ controle' = [controle EXCEPT ![i] = Fatia]
      /\ pc' = [pc EXCEPT ![i] = IF ok THEN "soma" ELSE "nao"]
      /\ linha' = [linha EXCEPT ![i] = Fatia.inicio]
  BY DEF Cria
<1>2. TypeOK
  BY DEF IInv
<1>3. i \in Nat /\ i' <= numThreads /\ i \in Thread
  BY <1>1, <1>2, ArgumentosAssumption DEF TypeOK, Thread
<1> DEFINE F == Fatia
<1>4. /\ F = [inicio |-> IF i = 0 THEN 0 ELSE FimDe(M, numThreads, i - 1),
              fim |-> FimDe(M, numThreads, i)]
      /\ F.inicio \in 0..M /\ F.fim \in 0..M
      /\ F.inicio <= F.fim
  BY <1>1, FatiaCerta
<1>5. fimThreadAnterior' = F.fim /\ controle' = [controle EXCEPT ![i] = F]
      /\ linha' = [linha EXCEPT ![i] = F.inicio]
  BY <1>1
<1> HIDE DEF F
<1>6. TypeOK'
  <2>1. F \in [inicio : 0..M, fim : 0..M]
    BY <1>4
  <2>2. pc' \in [Thread -> {"nao", "soma", "fim"}]
    BY <1>1, <1>2 DEF TypeOK
  <2>3. linha' \in [Thread -> 0..M] /\ controle' \in [Thread -> [inicio : 0..M, fim : 0..M]]
    BY <1>2, <1>4, <1>5, <2>1 DEF TypeOK
  <2> QED
    BY <1>1, <1>2, <1>3, <1>4, <1>5, <2>2, <2>3, ArgumentosAssumption DEF TypeOK
<1>7. FatiasCertas'
  <2>1. Criadas' = i + 1 /\ Criadas = i
    BY <1>1 DEF Criadas
  <2>2. ASSUME NEW t \in Thread, t < i + 1
        PROVE  /\ controle'[t].fim = FimDe(M, numThreads, t)
               /\ controle'[t].inicio = IF t = 0 THEN 0 ELSE FimDe(M, numThreads, t - 1)
    <3>1. CASE t = i
      BY <3>1, <1>2, <1>3, <1>4, <1>5 DEF TypeOK
    <3>2. CASE t # i
      <4>1. t < i /\ controle'[t] = controle[t]
        BY <3>2, <2>2, <1>2, <1>3, <1>5 DEF TypeOK, Thread
      <4> QED
        BY <4>1, <2>1 DEF IInv, FatiasCertas
    <3> QED
      BY <3>1, <3>2
  <2>3. fimThreadAnterior' = FimDe(M, numThreads, (i + 1) - 1) /\ i + 1 # 0
    <3>1. (i + 1) - 1 = i /\ i + 1 # 0
      BY <1>3
    <3> QED
      BY <3>1, <1>4, <1>5
  <2> QED
    BY <2>1, <2>2, <2>3 DEF FatiasCertas
<1>8. SomaSoDaLinha'
  BY <1>1 DEF IInv, SomaSoDaLinha
<1>9. ASSUME NEW t \in Thread
      PROVE  /\ soma'[t] = {}
             /\ pc'[t] # "nao" => ThreadCerta(t)'
             /\ t >= Criadas' => pc'[t] = "nao"
  <2>1. soma'[t] = {} /\ Criadas' = i + 1 /\ Criadas = i
    BY <1>1 DEF IInv, Criadas
  <2>2. CASE t = i
    <3>1. controle'[t] = F /\ linha'[t] = F.inicio /\ pc'[t] # "fim"
      BY <2>2, <1>1, <1>2, <1>5 DEF TypeOK
    <3>2. F.inicio \in F.inicio .. F.fim /\ F.inicio .. (F.inicio - 1) = {}
      BY <1>4
    <3> QED
      BY <3>1, <3>2, <2>1, <2>2, <1>3 DEF ThreadCerta
  <2>3. CASE t # i
    <3>1. controle'[t] = controle[t] /\ linha'[t] = linha[t] /\ pc'[t] = pc[t]
      BY <2>3, <1>1, <1>2, <1>5 DEF TypeOK
    <3>2. pc[t] # "nao" => ThreadCerta(t)
      BY DEF IInv
    <3>3. t >= i + 1 => t >= i
      BY <1>3 DEF Thread
    <3> QED
      BY <3>1, <3>2, <3>3, <2>1, <1>1 DEF ThreadCerta, IInv
  <2> QED
    BY <2>2, <2>3
<1> QED
  BY <1>1, <1>6, <1>7, <1>8, <1>9 DEF IInv

\* The steps of main that leave the threads and the slices alone.
LEMMA PassoMain ==
  ASSUME IInv, FimDaCriacao \/ Junta \/ JuntaSemThread \/ FimDaJuncao \/ Libera
  PROVE  IInv'
<1> USE DEF daThread
<1>1. /\ fimThreadAnterior' = fimThreadAnterior /\ controle' = controle /\ pc' = pc
      /\ linha' = linha /\ soma' = soma /\ somaLinha' = somaLinha
  BY DEF FimDaCriacao, Junta, JuntaSemThread, FimDaJuncao, Libera
<1>2. TypeOK /\ numThreads \in Nat \ {0} /\ M \in Nat /\ numThreads <= M
  BY ArgumentosAssumption DEF IInv
<1>3. main' \in {"cria", "junta", "libera", "fim", "morto"} /\ i' \in 0..M
      /\ (main' \in {"cria", "junta", "morto"} => i' <= numThreads)
      /\ Criadas' = Criadas
  BY <1>2 DEF TypeOK, FimDaCriacao, Junta, JuntaSemThread, FimDaJuncao, Libera, Criadas
<1>4. TypeOK'
  BY <1>1, <1>2, <1>3 DEF TypeOK
<1>5. FatiasCertas' /\ SomaSoDaLinha'
  BY <1>1, <1>3 DEF IInv, FatiasCertas, SomaSoDaLinha
<1>6. ASSUME NEW t \in Thread
      PROVE  /\ soma'[t] = {}
             /\ pc'[t] # "nao" => ThreadCerta(t)'
             /\ t >= Criadas' => pc'[t] = "nao"
  BY <1>1, <1>3 DEF IInv, ThreadCerta
<1>7. ASSUME NEW t \in Thread
      PROVE  /\ main' = "junta" /\ t < i' => pc'[t] # "soma"
             /\ main' \in {"libera", "fim"} => pc'[t] # "soma"
  <2>1. t \in Nat /\ t < numThreads /\ i \in Nat
    BY <1>2 DEF Thread, TypeOK
  <2>2. /\ main = "junta" /\ t < i => pc[t] # "soma"
        /\ main \in {"libera", "fim"} => pc[t] # "soma"
    BY DEF IInv
  <2>3. CASE FimDaCriacao
    BY <2>1, <2>3 DEF FimDaCriacao
  <2>4. CASE Junta
    BY <1>1, <2>1, <2>2, <2>4 DEF Junta
  <2>5. CASE JuntaSemThread
    BY <1>1, <2>1, <2>2, <2>5 DEF JuntaSemThread
  <2>6. CASE FimDaJuncao
    BY <1>1, <2>1, <2>2, <2>6 DEF FimDaJuncao
  <2>7. CASE Libera
    BY <1>1, <2>1, <2>2, <2>7 DEF Libera
  <2> QED
    BY <2>3, <2>4, <2>5, <2>6, <2>7
<1> QED
  BY <1>4, <1>5, <1>6, <1>7 DEF IInv

LEMMA PassoThread ==
  ASSUME IInv, NEW t \in Thread, somaMatriz(t)
  PROVE  IInv'
<1> USE DEF daThread
<1>1. TypeOK /\ numThreads \in Nat \ {0} /\ M \in Nat /\ t \in Nat
  BY ArgumentosAssumption DEF IInv, Thread
<1>2. pc[t] = "soma" /\ ThreadCerta(t) /\ soma[t] = {}
  BY DEF IInv, somaMatriz, SomaUma, Termina
<1>3. /\ main' = main /\ i' = i /\ fimThreadAnterior' = fimThreadAnterior
      /\ controle' = controle
  BY DEF somaMatriz, SomaUma, Termina
<1>4. FatiasCertas' /\ Criadas' = Criadas
  BY <1>3 DEF IInv, FatiasCertas, Criadas
<1>5. /\ linha[t] \in 0..M /\ controle[t].inicio \in 0..M /\ controle[t].fim \in 0..M
      /\ controle[t].inicio <= linha[t] /\ linha[t] <= controle[t].fim
  BY <1>1, <1>2 DEF TypeOK, ThreadCerta
<1>6. CASE SomaUma(t)
  <2>1. /\ linha[t] < controle[t].fim /\ linha[t] \in Linhas
        /\ somaLinha' = [somaLinha EXCEPT ![linha[t]] = {linha[t]}]
        /\ soma' = [soma EXCEPT ![t] = {}]
        /\ linha' = [linha EXCEPT ![t] = linha[t] + 1]
        /\ pc' = pc
    BY <1>1, <1>2, <1>5, <1>6 DEF SomaUma, HaLinha, ProximaSoma, Linhas
  <2>2. linha[t] + 1 \in 0..M /\ {linha[t]} \in SUBSET Linhas /\ {} \in SUBSET Linhas
    BY <1>1, <1>5, <2>1
  <2>3. TypeOK'
    <3>1. linha' \in [Thread -> 0..M]
      BY <1>1, <2>1, <2>2 DEF TypeOK
    <3>2. soma' \in [Thread -> SUBSET Linhas] /\ somaLinha' \in [Linhas -> SUBSET Linhas]
      BY <1>1, <2>1, <2>2 DEF TypeOK
    <3> QED
      BY <1>1, <1>3, <2>1, <3>1, <3>2 DEF TypeOK
  <2>4. SomaSoDaLinha'
    BY <1>1, <2>1 DEF IInv, SomaSoDaLinha, TypeOK
  <2>5. ASSUME NEW r \in Linhas
        PROVE  /\ somaLinha[r] = {r} => somaLinha'[r] = {r}
               /\ r = linha[t] => somaLinha'[r] = {r}
    BY <1>1, <2>1 DEF TypeOK
  <2>6. ASSUME NEW u \in Thread, pc'[u] # "nao"
        PROVE  ThreadCerta(u)'
    <3>1. ThreadCerta(u)
      BY <2>1, <2>6 DEF IInv
    <3>2. /\ controle[u].inicio \in 0..M /\ controle[u].fim \in 0..M
          /\ linha[u] \in controle[u].inicio .. controle[u].fim
      BY <1>1, <3>1 DEF ThreadCerta, TypeOK
    <3>3. CASE u = t
      <4>1. linha'[u] = linha[t] + 1 /\ pc'[u] = "soma"
        BY <1>1, <1>2, <2>1, <3>3 DEF TypeOK
      <4>2. linha[t] + 1 \in controle[t].inicio .. controle[t].fim
        BY <1>5, <2>1
      <4>3. ASSUME NEW r \in controle[t].inicio .. linha[t]
            PROVE  somaLinha'[r] = {r}
        <5>1. /\ r \in Linhas
              /\ r = linha[t] \/ r \in controle[t].inicio .. (linha[t] - 1)
          BY <1>1, <1>5, <2>1 DEF Linhas
        <5>2. \A x \in controle[t].inicio .. (linha[t] - 1) : somaLinha[x] = {x}
          BY <3>1, <3>3 DEF ThreadCerta
        <5>3. r = linha[t] \/ somaLinha[r] = {r}
          BY <5>1, <5>2
        <5> QED
          BY <2>5, <5>1, <5>3
      <4>4. linha'[u] - 1 = linha[t]
        BY <1>5, <4>1
      <4>5. linha'[u] \in controle'[u].inicio .. controle'[u].fim
        BY <1>3, <3>3, <4>1, <4>2
      <4>6. \A r \in controle'[u].inicio .. (linha'[u] - 1) : somaLinha'[r] = {r}
        BY <1>3, <3>3, <4>3, <4>4
      <4>7. pc'[u] # "fim"
        BY <4>1
      <4> QED
        BY <4>5, <4>6, <4>7 DEF ThreadCerta
    <3>4. CASE u # t
      <4>1. linha'[u] = linha[u] /\ pc'[u] = pc[u]
        BY <1>1, <2>1, <3>4 DEF TypeOK
      <4>2. ASSUME NEW r \in controle[u].inicio .. (linha[u] - 1)
            PROVE  somaLinha'[r] = {r}
        <5>1. r \in Linhas
          BY <1>1, <3>2 DEF Linhas
        <5>2. somaLinha[r] = {r}
          BY <3>1 DEF ThreadCerta
        <5> QED
          BY <2>5, <5>1, <5>2
      <4> QED
        BY <1>3, <3>1, <4>1, <4>2 DEF ThreadCerta
    <3> QED
      BY <3>3, <3>4
  <2>7. \A u \in Thread : soma'[u] = {}
    BY <1>1, <2>1 DEF IInv, TypeOK
  <2> QED
    BY <1>3, <1>4, <2>1, <2>3, <2>4, <2>6, <2>7 DEF IInv
<1>7. CASE Termina(t)
  <2>1. /\ linha[t] = controle[t].fim
        /\ pc' = [pc EXCEPT ![t] = "fim"]
        /\ linha' = linha /\ soma' = soma /\ somaLinha' = somaLinha
    BY <1>5, <1>7 DEF Termina, HaLinha
  <2>2. TypeOK' /\ SomaSoDaLinha'
    BY <1>1, <1>3, <2>1 DEF IInv, TypeOK, SomaSoDaLinha
  <2>3. ASSUME NEW u \in Thread
        PROVE  /\ pc'[u] = "nao" <=> pc[u] = "nao"
               /\ pc'[u] = "soma" => pc[u] = "soma"
               /\ u # t => pc'[u] = pc[u]
    BY <1>1, <1>2, <2>1 DEF TypeOK
  <2>4. ASSUME NEW u \in Thread, pc'[u] # "nao"
        PROVE  ThreadCerta(u)'
    <3>1. ThreadCerta(u)
      BY <2>3, <2>4 DEF IInv
    <3> QED
      BY <1>3, <2>1, <2>3, <3>1 DEF ThreadCerta
  <2> QED
    BY <1>3, <1>4, <2>1, <2>2, <2>3, <2>4 DEF IInv
<1> QED
  BY <1>6, <1>7 DEF somaMatriz

LEMMA PassoIInv == IInv /\ [Next]_vars => IInv'
<1> SUFFICES ASSUME IInv, [Next]_vars PROVE IInv'
  OBVIOUS
<1>1. CASE Main
  BY <1>1, PassoCria, PassoMain DEF Main
<1>2. CASE \E t \in Thread : somaMatriz(t)
  BY <1>2, PassoThread
<1>3. CASE UNCHANGED vars
  BY <1>3 DEF IInv, TypeOK, FatiasCertas, SomaSoDaLinha, ThreadCerta, Criadas, vars
<1> QED
  BY <1>1, <1>2, <1>3 DEF Next

\* Lines 59-107: IInv, whatever the number of threads and of rows.
THEOREM SomaIndutivo == Spec => []IInv
  BY InitIInv, PassoIInv, PTL DEF Spec

\* Every variable has a value of its type.
THEOREM SomaTypeCorrect == Spec => []TypeOK
<1>1. IInv => TypeOK
  BY DEF IInv
<1> QED
  BY <1>1, SomaIndutivo, PTL

\* The slices of the creation loop (lines 75-92) are those of the reference.
THEOREM FatiasCertasSempre == Spec => []FatiasCertas
<1>1. IInv => FatiasCertas
  BY DEF IInv
<1> QED
  BY <1>1, SomaIndutivo, PTL

\* No two threads are given the same row.
LEMMA SemSobreposicao == IInv => UmaThreadPorLinha
<1> SUFFICES ASSUME IInv, NEW s \in Thread, NEW t \in Thread,
                    s < Criadas, t < Criadas, s < t
             PROVE  Elementos(controle[s]) \cap Elementos(controle[t]) = {}
  BY DEF UmaThreadPorLinha, Thread
<1>1. /\ M \in Nat /\ numThreads \in Nat \ {0} /\ s \in Nat /\ t \in Nat /\ t # 0
      /\ t - 1 \in Nat /\ s <= t - 1
  BY ArgumentosAssumption DEF Thread
<1>2. controle[s].fim = FimDe(M, numThreads, s)
      /\ controle[t].inicio = FimDe(M, numThreads, t - 1)
  BY <1>1 DEF IInv, FatiasCertas
<1>3. FimDe(M, numThreads, s) <= FimDe(M, numThreads, t - 1)
  BY <1>1, Fins
<1>4. controle[s] \in [inicio : 0..M, fim : 0..M] /\ controle[t] \in [inicio : 0..M, fim : 0..M]
  BY DEF IInv, TypeOK
<1> QED
  BY <1>1, <1>2, <1>3, <1>4 DEF Elementos

\* The slices that main hands out (lines 75-91) share no row, for every number of
\* threads and of rows.
THEOREM UmaThreadPorLinhaSempre == Spec => []UmaThreadPorLinha
  BY SemSobreposicao, SomaIndutivo, PTL

\* Every thread that exists has added up its slice when rows are freed.
LEMMA DepoisDeSomar ==
  ASSUME IInv, main \in {"libera", "fim"}, NEW t \in Thread
  PROVE  /\ pc[t] # "soma"
         /\ pc[t] = "fim" => \A r \in Elementos(controle[t]) : somaLinha[r] = {r}
<1>1. pc[t] # "soma"
  BY DEF IInv
<1>2. pc[t] = "fim" => linha[t] = controle[t].fim /\ ThreadCerta(t)
  BY DEF IInv, ThreadCerta
<1> QED
  BY <1>1, <1>2 DEF ThreadCerta, Elementos

\* When no creation failed, no row is left without its sum.
LEMMA Completo ==
  ASSUME IInv, main \in {"libera", "fim"}, \A t \in Thread : pc[t] # "nao", NEW r \in Linhas
  PROVE  somaLinha[r] = {r}
<1>1. M \in Nat /\ numThreads \in Nat \ {0} /\ r \in 0..(M - 1) /\ Criadas = numThreads
  BY ArgumentosAssumption DEF Linhas, Criadas
<1>2. PICK t \in 0..(numThreads - 1) : /\ r < FimDe(M, numThreads, t)
                                       /\ t # 0 => FimDe(M, numThreads, t - 1) <= r
  BY <1>1, Cobre
<1>3. t \in Thread /\ t < Criadas
  BY <1>1 DEF Thread
<1>4. /\ controle[t].fim = FimDe(M, numThreads, t)
      /\ controle[t].inicio = IF t = 0 THEN 0 ELSE FimDe(M, numThreads, t - 1)
  BY <1>3 DEF IInv, FatiasCertas
<1>5. controle[t].inicio \in 0..M /\ controle[t].fim \in 0..M
  BY <1>3 DEF IInv, TypeOK
<1>6. r \in Elementos(controle[t])
  BY <1>1, <1>2, <1>4, <1>5 DEF Elementos
<1>7. pc[t] = "fim"
  BY <1>3 DEF IInv, TypeOK
<1> QED
  BY <1>3, <1>6, <1>7, DepoisDeSomar

\* main frees the rows (line 104) only when every thread that was created has
\* added up its slice, joins of threads that do not exist included; and if all
\* were created, every row has its sum.
THEOREM LiberaDepoisDeSomarSempre == Spec => []LiberaDepoisDeSomar
<1>1. IInv => LiberaDepoisDeSomar
  BY DepoisDeSomar, Completo DEF LiberaDepoisDeSomar
<1> QED
  BY <1>1, SomaIndutivo, PTL

-----------------------------------------------------------------------------
(* The concurrent copies *)

LEMMA Indices ==
  /\ Tid \subseteq Int /\ Io \subseteq Tid
  /\ Bloco \subseteq Lugar /\ Blocos + 1 \in Lugar
  /\ \A b \in Lugar : b \in Int
  /\ \A b \in Lugar : b \notin Bloco <=> b = Blocos + 1
  /\ \A n \in 0..Blocos : 1..n \subseteq Lugar
BY CopiaAssumption, SMT DEF Tid, Io, Bloco, Lugar

-----------------------------------------------------------------------------
(* Type correctness *)

LEMMA TypeInit ==
  CInit => CTypeOK
<1> SUFFICES ASSUME CInit PROVE CTypeOK
  OBVIOUS
<1>1. 0 \in 0..MAX /\ 0 \in 0..Blocos
  BY CopiaAssumption, SMT
<1>2. arqOut \in [Lugar -> {"certo", "furo", "velho", "nada"}]
  BY SMT DEF CInit
<1> QED
  BY <1>1, <1>2 DEF CInit, CTypeOK

LEMMA TypeStep ==
  CTypeOK /\ [CNext]_Cvars => CTypeOK'
<1> SUFFICES ASSUME CTypeOK, [CNext]_Cvars PROVE CTypeOK'
  OBVIOUS
<1> USE Indices, CopiaAssumption DEF CTypeOK
<1>1. CASE create(TRUE) \/ create(FALSE)
  BY <1>1, SMT DEF create
<1>2. CASE FimDosLacos \/ JoinSemThread \/ join \/ Retorna
  BY <1>2, SMT DEF FimDosLacos, JoinSemThread, join, Retorna
<1>3. ASSUME NEW t \in Tid, cpuBound(t) PROVE CTypeOK'
  BY <1>3 DEF cpuBound
<1>4. ASSUME NEW t \in Tid, Abre(t) PROVE CTypeOK'
  BY <1>4 DEF Abre
<1>5. ASSUME NEW t \in Tid, Copia(t) PROVE CTypeOK'
  <2>1. gravados' \in [Tid -> 0..Blocos]
    BY <1>5, SMT DEF Copia
  <2>2. arqOut' \in [Lugar -> {"certo", "furo", "velho", "nada"}]
    BY <1>5 DEF Copia
  <2> QED
    BY <1>5, <2>1, <2>2 DEF Copia
<1>6. ASSUME NEW t \in Tid, Fecha(t) PROVE CTypeOK'
  BY <1>6 DEF Fecha
<1>7. CASE UNCHANGED Cvars
  BY <1>7 DEF Cvars
<1> QED
  BY <1>1, <1>2, <1>3, <1>4, <1>5, <1>6, <1>7 DEF CNext, CMain, ioBound

-----------------------------------------------------------------------------
(* Who has ended has written everything, and main waits for it *)

LEMMA FimInit ==
  CInit => FimCerto
BY Indices, SMT DEF CInit, FimCerto

LEMMA FimStep ==
  CTypeOK /\ FimCerto /\ [CNext]_Cvars => FimCerto'
<1> SUFFICES ASSUME CTypeOK, FimCerto, [CNext]_Cvars PROVE FimCerto'
  OBVIOUS
<1> USE Indices, CopiaAssumption DEF CTypeOK, FimCerto
<1>1. CASE create(TRUE) \/ create(FALSE)
  <2>1. /\ onde = "cria" /\ onde' = "cria"
        /\ prox' = prox + 1 /\ prox \in Tid /\ prox \in Int
    BY <1>1, SMT DEF create, Tid
  <2>2. passo[prox] = "nao" /\ \A t \in Tid \ {prox} : passo'[t] = passo[t]
    BY <1>1, <2>1, SMT DEF create
  <2>3. /\ passo'[prox] \in {"nao", "calcula", "abre"}
        /\ prox \in Io => passo'[prox] # "calcula"
        /\ prox \notin Io => passo'[prox] # "abre"
    BY <1>1, <2>1, SMT DEF create, Io, Tid
  <2>4. gravados' = gravados /\ existe' = existe
    BY <1>1 DEF create
  <2>5. \A t \in Tid : t >= prox' => passo'[t] = "nao"
    BY <2>1, <2>2, SMT
  <2>6. \A t \in Tid : passo'[t] \notin {"copia", "fim"} => gravados'[t] = 0
    BY <2>1, <2>2, <2>4
  <2>7. /\ \A t \in Io : existe' /\ passo'[t] = "fim" => gravados'[t] = Blocos
        /\ ~existe' => \A t \in Tid : passo'[t] # "copia"
    BY <2>1, <2>2, <2>3, <2>4
  <2>8. /\ \A t \in Io : passo'[t] # "calcula"
        /\ \A t \in Tid \ Io : passo'[t] \notin {"abre", "copia"}
    BY <2>1, <2>2, <2>3
  <2> QED
    BY <2>1, <2>5, <2>6, <2>7, <2>8
<1>2. CASE FimDosLacos \/ JoinSemThread \/ join \/ Retorna
  BY <1>2, SMT DEF FimDosLacos, JoinSemThread, join, Retorna, Tid
<1>3. ASSUME NEW t \in Tid, cpuBound(t) PROVE FimCerto'
  BY <1>3, SMT DEF cpuBound, Corre
<1>4. ASSUME NEW t \in Tid, Abre(t) PROVE FimCerto'
  BY <1>4, SMT DEF Abre, Corre
<1>5. ASSUME NEW t \in Tid, Copia(t) PROVE FimCerto'
  BY <1>5, SMT DEF Copia, Corre
<1>6. ASSUME NEW t \in Tid, Fecha(t) PROVE FimCerto'
  BY <1>6, SMT DEF Fecha, Corre
<1>7. CASE UNCHANGED Cvars
  BY <1>7 DEF Cvars
<1> QED
  BY <1>1, <1>2, <1>3, <1>4, <1>5, <1>6, <1>7 DEF CNext, CMain, ioBound

-----------------------------------------------------------------------------
(* The last one to truncate is whole *)

LEMMA InteiraInit ==
  CInit => UmaInteira
BY Indices DEF CInit, UmaInteira, Abriu

\* Steps that leave the files alone and open none for anybody.
LEMMA InteiraQuieta ==
  ASSUME UmaInteira, existe' = existe, gravados' = gravados, arqOut' = arqOut,
         \A t \in Io : Abriu(t)' <=> Abriu(t)
  PROVE UmaInteira'
BY DEF UmaInteira

\* A truncation makes its thread the whole one.
LEMMA InteiraAbre ==
  ASSUME CTypeOK, FimCerto, UmaInteira, NEW t \in Tid, Abre(t)
  PROVE UmaInteira'
<1>1. SUFFICES ASSUME existe
      PROVE /\ \E u \in Io : Abriu(u)' /\ \A b \in 1..gravados'[u] : arqOut'[b] = "certo"
            /\ arqOut'[Blocos + 1] = "nada"
  BY DEF UmaInteira, Abre
<1>2. t \in Io /\ gravados[t] = 0
  BY DEF FimCerto, Abre
<1>3. Abriu(t)' /\ gravados'[t] = 0
  BY <1>1, <1>2 DEF Abriu, Abre, CTypeOK
<1>4. 1..gravados'[t] = {}
  BY <1>3, SMT
<1>5. arqOut'[Blocos + 1] = "nada"
  BY Indices DEF Abre
<1> QED
  BY <1>2, <1>3, <1>4, <1>5

\* A block that somebody writes spoils none of a whole thread's.
LEMMA InteiraCopia ==
  ASSUME CTypeOK, FimCerto, UmaInteira, NEW t \in Tid, Copia(t)
  PROVE UmaInteira'
<1> DEFINE g == gravados[t]
<1>1. /\ g \in 0..Blocos /\ g < Blocos
      /\ gravados' = [gravados EXCEPT ![t] = g + 1]
      /\ passo' = passo /\ existe' = existe
  BY DEF Copia, CTypeOK
<1>2. \A b \in Lugar :
        arqOut'[b] = IF b = g + 1 THEN "certo"
                     ELSE IF b <= g /\ arqOut[b] = "nada" THEN "furo" ELSE arqOut[b]
  BY DEF Copia
<1>3. ASSUME NEW s \in Io, existe, Abriu(s)
      PROVE /\ \E u \in Io : Abriu(u) /\ \A b \in 1..gravados'[u] : arqOut'[b] = "certo"
            /\ arqOut'[Blocos + 1] = "nada"
  <2>1. PICK u \in Io : Abriu(u) /\ \A b \in 1..gravados[u] : arqOut[b] = "certo"
    BY <1>3 DEF UmaInteira
  <2>2. arqOut[Blocos + 1] = "nada"
    BY <1>3 DEF UmaInteira
  <2>3. ASSUME NEW b \in 1..gravados'[u] PROVE arqOut'[b] = "certo"
    <3>1. u \in Tid /\ gravados[u] \in 0..Blocos
      BY Indices DEF CTypeOK
    <3>2. gravados'[u] = IF u = t THEN g + 1 ELSE gravados[u]
      BY <1>1, <3>1 DEF CTypeOK
    <3>3. b \in Int /\ (b = g + 1 \/ b \in 1..gravados[u])
      BY <1>1, <3>1, <3>2, SMT
    <3>4. b \in Lugar
      BY <1>1, <3>1, <3>3, CopiaAssumption, SMT DEF Lugar
    <3> HIDE DEF g
    <3> QED
      BY <1>2, <2>1, <3>3, <3>4
  <2>4. arqOut'[Blocos + 1] = "nada"
    <3>1. Blocos + 1 # g + 1 /\ ~(Blocos + 1 <= g)
      BY <1>1, CopiaAssumption, SMT
    <3> HIDE DEF g
    <3> QED
      BY <1>2, <2>2, <3>1, Indices
  <2> QED
    BY <2>1, <2>3, <2>4
<1> QED
  BY <1>1, <1>3 DEF UmaInteira, Abriu

LEMMA InteiraStep ==
  CTypeOK /\ FimCerto /\ UmaInteira /\ [CNext]_Cvars => UmaInteira'
<1> SUFFICES ASSUME CTypeOK, FimCerto, UmaInteira, [CNext]_Cvars PROVE UmaInteira'
  OBVIOUS
<1>1. CASE create(TRUE) \/ create(FALSE)
  <2>1. prox \in Tid /\ passo[prox] = "nao"
    BY <1>1, CopiaAssumption, SMT DEF create, CTypeOK, FimCerto, Tid
  <2>2. /\ \A t \in Tid \ {prox} : passo'[t] = passo[t]
        /\ passo'[prox] \in {"nao", "calcula", "abre"}
    BY <1>1, <2>1 DEF create, CTypeOK
  <2>3. \A t \in Io : Abriu(t)' <=> Abriu(t)
    BY <2>1, <2>2, Indices DEF Abriu
  <2> QED
    BY <1>1, <2>3, InteiraQuieta DEF create
<1>2. CASE FimDosLacos \/ JoinSemThread \/ join \/ Retorna
  BY <1>2, InteiraQuieta DEF FimDosLacos, JoinSemThread, join, Retorna, Abriu
<1>3. ASSUME NEW t \in Tid, cpuBound(t) PROVE UmaInteira'
  <2>1. t \notin Io /\ \A s \in Tid \ {t} : passo'[s] = passo[s]
    BY <1>3 DEF cpuBound, FimCerto, CTypeOK
  <2> QED
    BY <1>3, <2>1, Indices, InteiraQuieta DEF cpuBound, Abriu
<1>4. ASSUME NEW t \in Tid, Abre(t) PROVE UmaInteira'
  BY <1>4, InteiraAbre
<1>5. ASSUME NEW t \in Tid, Copia(t) PROVE UmaInteira'
  BY <1>5, InteiraCopia
<1>6. ASSUME NEW t \in Tid, Fecha(t) PROVE UmaInteira'
  <2>1. \A s \in Io : Abriu(s)' <=> Abriu(s)
    BY <1>6, Indices DEF Fecha, Abriu, CTypeOK
  <2> QED
    BY <1>6, <2>1, InteiraQuieta DEF Fecha
<1>7. CASE UNCHANGED Cvars
  BY <1>7, InteiraQuieta DEF Cvars, Abriu
<1> QED
  BY <1>1, <1>2, <1>3, <1>4, <1>5, <1>6, <1>7 DEF CNext, CMain, ioBound

-----------------------------------------------------------------------------
(* The theorems *)

\* The three parts hold in every state: types, the bookkeeping of main and of
\* the threads, and the whole copy of the last one to truncate the output.
THEOREM CopiaIndutivo ==
  CSpec => []CIInv
<1>1. CInit => CIInv
  BY TypeInit, FimInit, InteiraInit DEF CIInv
<1>2. CIInv /\ [CNext]_Cvars => CIInv'
  BY TypeStep, FimStep, InteiraStep DEF CIInv
<1> QED
  BY <1>1, <1>2, PTL DEF CSpec

\* Type correctness of ex3.c's state, for every number of threads and blocks.
THEOREM CopiaTypeCorrect ==
  CSpec => []CTypeOK
BY CopiaIndutivo, PTL DEF CIInv

\* Once any thread has opened the output, one of those that have is whole:
\* nobody's fopen leaves the file with nothing but later blocks for good.
THEOREM UmaInteiraSempre ==
  CSpec => []UmaInteira
BY CopiaIndutivo, PTL DEF CIInv

\* When main of ex3.c has joined its threads, the output is the input.
THEOREM CopiaCertaSempre ==
  CSpec => []CopiaCerta
<1>1. CIInv => CopiaCerta
  <2> SUFFICES ASSUME CIInv, onde = "fim", existe, NEW t \in Io, passo[t] = "fim"
               PROVE arqOut = [b \in Lugar |-> IF b \in Bloco THEN "certo" ELSE "nada"]
    BY DEF CopiaCerta
  <2>1. PICK u \in Io : Abriu(u) /\ \A b \in 1..gravados[u] : arqOut[b] = "certo"
    BY DEF CIInv, UmaInteira, Abriu
  <2>2. arqOut[Blocos + 1] = "nada"
    BY DEF CIInv, UmaInteira, Abriu
  <2>3. gravados[u] = Blocos
    BY <2>1, Indices DEF CIInv, FimCerto, Abriu
  <2>4. \A b \in Lugar : arqOut[b] = IF b \in Bloco THEN "certo" ELSE "nada"
    BY <2>1, <2>2, <2>3, Indices DEF Bloco
  <2> QED
    BY <2>4 DEF CIInv, CTypeOK
<1> QED
  BY <1>1, CopiaIndutivo, PTL
=============================================================================
