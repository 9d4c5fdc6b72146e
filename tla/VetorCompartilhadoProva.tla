------------------------ MODULE VetorCompartilhadoProva ------------------------
(***************************************************************************)
(* Proofs about VetorCompartilhado, for any number of children and of      *)
(* elements and whatever an earlier run left: slices, the one segment, and *)
(* what is in it when the parent prints.                                   *)
(***************************************************************************)
EXTENDS VetorCompartilhado, TLAPS

LEMMA Divisao == ASSUME NEW e \in Nat, NEW k \in Nat \ {0}
                 PROVE  /\ e \div k \in Nat
                        /\ e % k \in Nat
  BY SMT

\* FimDe begins with the first slice and grows by e/k.
LEMMA Fins ==
  ASSUME NEW e \in Nat, NEW k \in Nat \ {0}
  PROVE  /\ FimDe(e, k, 0) = (e \div k) + (e % k)
         /\ \A t \in Nat \ {0} : FimDe(e, k, t) = FimDe(e, k, t - 1) + (e \div k)
<1> DEFINE q == e \div k
           r == e % k
<1>1. q \in Nat /\ r \in Nat
  BY Divisao
<1> HIDE DEF q, r
<1>2. FimDe(e, k, 0) = q + r
  BY <1>1 DEF FimDe, q, r
<1>3. ASSUME NEW t \in Nat \ {0} PROVE FimDe(e, k, t) = FimDe(e, k, t - 1) + q
  <2>1. t - 1 \in Nat /\ t - 1 + 1 = t
    OBVIOUS
  <2>2. FimDe(e, k, t) = r + (t + 1) * q /\ FimDe(e, k, t - 1) = r + t * q
    BY <2>1 DEF FimDe, q, r
  <2>3. (t + 1) * q = t * q + q /\ t * q \in Nat
    BY <1>1, SMT
  <2> QED
    BY <1>1, <2>2, <2>3
<1> QED
  BY <1>2, <1>3 DEF q, r

LEMMA Processos == /\ PAI \in Processo /\ PAI \notin Filho
                   /\ Filho \subseteq Processo /\ Filho \subseteq Nat
BY ArgumentosAssumption, SMT DEF PAI, Processo, Filho

-----------------------------------------------------------------------------
(* Type correctness *)

LEMMA TypeInit == Init => TypeOK
<1> SUFFICES ASSUME Init PROVE TypeOK
  OBVIOUS
<1>1. NADA \in [inicio : Int, fim : Int]
  BY SMT DEF NADA
<1>2. 0 \in 0..n /\ Indices \subseteq Int
  BY ArgumentosAssumption, SMT DEF Indices
<1>3. dados \in [Segmento -> SUBSET Int]
  <2>1. PICK d \in SUBSET Indices : dados = [s \in Segmento |-> IF s = 1 THEN d ELSE {}]
    BY DEF Init
  <2> QED
    BY <1>2, <2>1
<1>4. chave \in 0..2 /\ criados \in 0..2
  BY SMT DEF Init
<1>5. curto \in BOOLEAN
  BY DEF Init
<1>6. /\ pos \in [Filho -> Int]
      /\ shmid \in [Processo -> 0..2] /\ anexo \in [Processo -> 0..2]
      /\ fimThreadAnterior \in Int
  BY SMT DEF Init
<1> QED
  BY <1>1, <1>2, <1>3, <1>4, <1>5, <1>6 DEF Init, TypeOK

LEMMA TipoFatia == TypeOK => Fatia \in [inicio : Int, fim : Int]
BY ArgumentosAssumption, Divisao, SMT DEF TypeOK, Fatia, Primeira, Seguinte

\* shmget and shmat keep the types of the segments.
LEMMA TipoShmget ==
  ASSUME TypeOK, UmSegmento, NEW p \in Processo, shmget(p)
  PROVE  /\ shmid' \in [Processo -> 0..2] /\ chave' \in 0..2 /\ criados' \in 0..2
         /\ curto' = curto /\ removidos' = removidos /\ dados' = dados
<1>1. chave = 0 => criados + 1 \in 0..2
  BY SMT DEF UmSegmento
<1> QED
  BY <1>1 DEF TypeOK, shmget, segmentos

LEMMA TypeStep == TypeOK /\ UmSegmento /\ SomasFeitas /\ [Next]_vars => TypeOK'
<1> SUFFICES ASSUME TypeOK, UmSegmento, SomasFeitas, [Next]_vars PROVE TypeOK'
  OBVIOUS
<1> USE Processos DEF TypeOK, dosFilhos, segmentos
<1>1. CASE Cria
  <2>1. i' \in 0..n
    BY <1>1, ArgumentosAssumption, SMT DEF Cria
  <2>2. fimThreadAnterior' \in Int
    BY <1>1, TipoFatia DEF Cria
  <2>3. cano' \in [Filho -> SUBSET [inicio : Int, fim : Int]]
    <3> DEFINE R == [inicio : Int, fim : Int]
    <3>1. Fatia \in R /\ cano \in [Filho -> SUBSET R]
      BY TipoFatia
    <3>2. cano' = [cano EXCEPT ![i] = {Fatia}]
      BY <1>1 DEF Cria
    <3> HIDE DEF R, TypeOK
    <3>3. cano' \in [Filho -> SUBSET R]
      BY <3>1, <3>2
    <3> QED
      BY <3>3 DEF R
  <2> QED
    BY <1>1, <2>1, <2>2, <2>3 DEF Cria
<1>2. CASE CriaFalha \/ FimDaCriacao \/ Espera \/ Mostra
  BY <1>2 DEF CriaFalha, FimDaCriacao, Espera, Mostra
<1>3. CASE PaiShmget
  BY <1>3, TipoShmget DEF PaiShmget
<1>4. CASE PaiShmat
  BY <1>4 DEF PaiShmat, shmat
<1>5. CASE Solta
  BY <1>5, SMT DEF Solta
<1>6. CASE Destroi
  <2>1. shmid[PAI] \in Segmento
    BY <1>6, SMT DEF Destroi, Segmento, SomasFeitas
  <2> QED
    BY <1>6, <2>1, SMT DEF Destroi
<1>7. ASSUME NEW t \in Filho, Le(t) PROVE TypeOK'
  BY <1>7 DEF Le
<1>8. ASSUME NEW t \in Filho, FilhoShmget(t) PROVE TypeOK'
  BY <1>8, TipoShmget DEF FilhoShmget
<1>9. ASSUME NEW t \in Filho, FilhoShmat(t) PROVE TypeOK'
  BY <1>9 DEF FilhoShmat, shmat
<1>10. ASSUME NEW t \in Filho, Soma(t) PROVE TypeOK'
  <2>1. pos' \in [Filho -> Int]
    BY <1>10, SMT DEF Soma
  <2>2. dados' \in [Segmento -> SUBSET Int]
    <3>1. pos[t] \in Int /\ dados \in [Segmento -> SUBSET Int]
      OBVIOUS
    <3>2. dados' = [dados EXCEPT ![anexo[t]] = dados[anexo[t]] \cup {pos[t]}]
      BY <1>10 DEF Soma
    <3>3. \A s \in Segmento : dados[s] \cup {pos[t]} \in SUBSET Int
      BY <3>1
    <3> HIDE DEF TypeOK
    <3> QED
      BY <3>1, <3>2, <3>3
  <2> QED
    BY <1>10, <2>1, <2>2 DEF Soma
<1>11. ASSUME NEW t \in Filho, FilhoSolta(t) PROVE TypeOK'
  <2>1. anexo' \in [Processo -> 0..2]
    BY <1>11, SMT DEF FilhoSolta
  <2> QED
    BY <1>11, <2>1 DEF FilhoSolta
<1>12. CASE UNCHANGED vars
  BY <1>12 DEF vars
<1> QED
  BY <1>1, <1>2, <1>3, <1>4, <1>5, <1>6, <1>7, <1>8, <1>9, <1>10, <1>11, <1>12
  DEF Next, Pai, UmFilho

-----------------------------------------------------------------------------
(* The slices *)

\* The slice of the next child, from the end of the one before.
LEMMA SuaFatia ==
  ASSUME TypeOK, FatiasCertas, i < n
  PROVE  Sua(i, Fatia) /\ Fatia.fim = FimDe(quantElementos, n, i)
<1>1. i \in Nat /\ quantElementos \in Nat /\ n \in Nat \ {0}
  BY ArgumentosAssumption, SMT DEF TypeOK
<1>2. CASE i = 0
  BY <1>1, <1>2, Fins DEF Fatia, Primeira, Sua
<1>3. CASE i # 0
  <2>1. fimThreadAnterior = FimDe(quantElementos, n, i - 1)
    BY <1>3 DEF FatiasCertas
  <2>2. FimDe(quantElementos, n, i) =
          FimDe(quantElementos, n, i - 1) + (quantElementos \div n)
    BY <1>1, <1>3, Fins
  <2> QED
    BY <1>3, <2>1, <2>2 DEF Fatia, Seguinte, Sua
<1> QED
  BY <1>2, <1>3

LEMMA FatiasInit == Init => FatiasCertas
BY DEF Init, FatiasCertas, RecebeSua

\* Steps that touch no slice.
LEMMA FatiasQuieta ==
  ASSUME FatiasCertas, UNCHANGED <<i, fimThreadAnterior, cano, vet_filho>>,
         \A t \in Filho : filho'[t] \notin {"nao", "le"} => filho[t] \notin {"nao", "le"}
  PROVE  FatiasCertas'
BY DEF FatiasCertas, RecebeSua, Sua

LEMMA FatiasStep == TypeOK /\ FatiasCertas /\ [Next]_vars => FatiasCertas'
<1> SUFFICES ASSUME TypeOK, FatiasCertas, [Next]_vars PROVE FatiasCertas'
  OBVIOUS
<1> USE DEF dosFilhos
<1>1. CASE Cria
  <2>1. i < n /\ i' = i + 1 /\ fimThreadAnterior' = Fatia.fim /\ vet_filho' = vet_filho
    BY <1>1 DEF Cria
  <2>2. fimThreadAnterior' = IF i' = 0 THEN 0 ELSE FimDe(quantElementos, n, i' - 1)
    <3>1. i' # 0 /\ i' - 1 = i
      BY <2>1, SMT DEF TypeOK
    <3> QED
      BY <2>1, <3>1, SuaFatia
  <2>3. \A t \in Filho : \A f \in cano'[t] : Sua(t, f)
    <3>1. ASSUME NEW t \in Filho, NEW f \in cano'[t] PROVE Sua(t, f)
      <4>1. f \in cano[t] \/ (t = i /\ f = Fatia)
        BY <1>1, <3>1 DEF Cria, TypeOK
      <4> QED
        BY <2>1, <4>1, SuaFatia DEF FatiasCertas
    <3> QED
      BY <3>1
  <2>4. \A t \in Filho : filho'[t] \notin {"nao", "le"} => filho[t] \notin {"nao", "le"}
    BY <1>1 DEF Cria, TypeOK
  <2> QED
    BY <2>1, <2>2, <2>3, <2>4 DEF FatiasCertas, RecebeSua, Sua
<1>2. CASE CriaFalha \/ FimDaCriacao \/ Espera \/ Mostra \/ PaiShmget \/ PaiShmat
           \/ Solta \/ Destroi
  BY <1>2, FatiasQuieta
  DEF CriaFalha, FimDaCriacao, Espera, Mostra, PaiShmget, PaiShmat, Solta, Destroi
<1>3. ASSUME NEW t \in Filho, Le(t) PROVE FatiasCertas'
  <2>1. PICK f \in cano[t] : vet_filho' = [vet_filho EXCEPT ![t] = f]
    BY <1>3 DEF Le
  <2>2. Sua(t, f)
    BY DEF FatiasCertas
  <2>3. RecebeSua'
    <3>1. ASSUME NEW u \in Filho, filho'[u] \notin {"nao", "le"} PROVE Sua(u, vet_filho'[u])
      <4>1. CASE u = t
        BY <2>1, <2>2, <4>1 DEF TypeOK
      <4>2. CASE u # t
        <5>1. vet_filho'[u] = vet_filho[u] /\ filho'[u] = filho[u]
          BY <1>3, <2>1, <4>2 DEF Le, TypeOK
        <5> QED
          BY <3>1, <5>1 DEF FatiasCertas, RecebeSua, Sua
      <4> QED
        BY <4>1, <4>2
    <3> QED
      BY <3>1 DEF RecebeSua, Sua
  <2>4. \A u \in Filho : \A g \in cano'[u] : g \in cano[u]
    BY <1>3 DEF Le, TypeOK
  <2> QED
    BY <1>3, <2>3, <2>4 DEF FatiasCertas, Le, Sua
<1>4. ASSUME NEW t \in Filho, FilhoShmget(t) \/ FilhoShmat(t) \/ Soma(t) \/ FilhoSolta(t)
      PROVE  FatiasCertas'
  <2>1. UNCHANGED <<i, fimThreadAnterior, cano, vet_filho>>
    BY <1>4 DEF FilhoShmget, FilhoShmat, Soma, FilhoSolta
  <2>2. \A u \in Filho : filho'[u] \notin {"nao", "le"} => filho[u] \notin {"nao", "le"}
    BY <1>4 DEF FilhoShmget, FilhoShmat, Soma, FilhoSolta, TypeOK
  <2> QED
    BY <2>1, <2>2, FatiasQuieta
<1>5. CASE UNCHANGED vars
  BY <1>5, FatiasQuieta DEF vars
<1> QED
  BY <1>1, <1>2, <1>3, <1>4, <1>5 DEF Next, Pai, UmFilho

-----------------------------------------------------------------------------
(* The segment *)

LEMMA SegmentoInit == Init => UmSegmento
<1> SUFFICES ASSUME Init PROVE UmSegmento
  OBVIOUS
<1>1. removidos = {} /\ chave \in {0, 1} /\ criados = chave
  BY DEF Init
<1>2. curto => chave # 0
  <2>1. PICK r \in Restos : /\ chave = IF r = "nada" THEN 0 ELSE 1
                            /\ curto = (r = "menor")
    BY DEF Init
  <2>2. r = "menor" => chave # 0
    BY <2>1, SMT
  <2> QED
    BY <2>1, <2>2, Zenon
<1>3. \A p \in Processo : shmid[p] = 0
  BY DEF Init
<1> QED
  BY <1>1, <1>2, <1>3 DEF UmSegmento

\* Steps that ask for no segment and remove none.
LEMMA SegmentoQuieto ==
  ASSUME UmSegmento, UNCHANGED <<chave, curto, criados, removidos, shmid>>,
         pai = "fim" => pai' = "fim"
  PROVE  UmSegmento'
BY DEF UmSegmento

\* Who asks for a segment gets the one there is, or makes the first one, or,
\* after the removal, the one that stays.
LEMMA SegmentoShmget ==
  ASSUME TypeOK, UmSegmento, NEW p \in Processo, shmget(p), pai = "fim" => pai' = "fim"
  PROVE  UmSegmento' /\ shmid'[p] # 0 /\ ~curto
<1>1. /\ ~(chave # 0 /\ curto) /\ curto' = curto /\ removidos' = removidos
      /\ shmid' = [shmid EXCEPT ![p] = chave']
      /\ IF chave # 0 THEN chave' = chave /\ criados' = criados
         ELSE chave' = criados + 1 /\ criados' = criados + 1
  BY DEF shmget, segmentos
<1>2. ~curto
  BY <1>1 DEF UmSegmento
<1>3. shmid'[p] = chave' /\ \A q \in Processo \ {p} : shmid'[q] = shmid[q]
  BY <1>1 DEF TypeOK
<1>4. IF removidos = {} THEN chave' = 1 /\ criados' = 1 ELSE chave' = 2 /\ criados' = 2
  <2>1. CASE removidos = {}
    BY <1>1, <2>1, SMT DEF UmSegmento
  <2>2. CASE removidos # {}
    <3>1. \/ chave = 0 /\ criados = 1
          \/ chave = 2 /\ criados = 2
      BY <2>2 DEF UmSegmento
    <3> QED
      BY <1>1, <2>2, <3>1, SMT
  <2> QED
    BY <2>1, <2>2
<1>5. removidos = {} => \A q \in Processo : shmid'[q] \in {0, chave'}
  <2>1. removidos = {} => \A q \in Processo : shmid[q] = 0 \/ (shmid[q] = chave /\ chave # 0)
    BY DEF UmSegmento
  <2> QED
    BY <1>1, <1>3, <2>1
<1>6. removidos # {} => pai' = "fim"
  BY DEF UmSegmento
<1> QED
  BY <1>1, <1>2, <1>3, <1>4, <1>5, <1>6 DEF UmSegmento

LEMMA SegmentoStep == TypeOK /\ UmSegmento /\ SomasFeitas /\ [Next]_vars => UmSegmento'
<1> SUFFICES ASSUME TypeOK, UmSegmento, SomasFeitas, [Next]_vars PROVE UmSegmento'
  OBVIOUS
<1> USE Processos DEF segmentos
<1>1. CASE Cria \/ CriaFalha \/ FimDaCriacao \/ PaiShmat \/ Espera \/ Mostra \/ Solta
  BY <1>1, SegmentoQuieto
  DEF Cria, CriaFalha, FimDaCriacao, PaiShmat, shmat, Espera, Mostra, Solta
<1>2. CASE PaiShmget
  BY <1>2, SegmentoQuieto, SegmentoShmget DEF PaiShmget
<1>3. CASE Destroi
  <2>1. pai # "fim" /\ pai' = "fim" /\ chave' = 0 /\ criados' = criados /\ curto' = curto
        /\ removidos' # {} /\ shmid[PAI] # 0
    BY <1>3 DEF Destroi, SomasFeitas
  <2>2. removidos = {} /\ shmid[PAI] = chave /\ ~curto
    BY <2>1 DEF UmSegmento
  <2>3. criados = 1
    BY <2>1, <2>2 DEF UmSegmento
  <2> QED
    BY <2>1, <2>2, <2>3 DEF UmSegmento
<1>4. ASSUME NEW t \in Filho, FilhoShmget(t) PROVE UmSegmento'
  BY <1>4, SegmentoQuieto, SegmentoShmget DEF FilhoShmget
<1>5. ASSUME NEW t \in Filho, Le(t) \/ FilhoShmat(t) \/ Soma(t) \/ FilhoSolta(t)
      PROVE  UmSegmento'
  BY <1>5, SegmentoQuieto DEF Le, FilhoShmat, shmat, Soma, FilhoSolta
<1>6. CASE UNCHANGED vars
  BY <1>6, SegmentoQuieto DEF vars
<1> QED
  BY <1>1, <1>2, <1>3, <1>4, <1>5, <1>6 DEF Next, Pai, UmFilho

-----------------------------------------------------------------------------
(* The sums *)

\* What SomasFeitas says of one child, and of the parent.
SomaCerta(t) ==
  /\ filho[t] \in {"shmget", "shmat"} => pos[t] = vet_filho[t].inicio
  /\ filho[t] \in {"shmat", "soma"} => shmid[t] # 0
  /\ filho[t] = "soma" => /\ anexo[t] = shmid[t]
                          /\ vet_filho[t].inicio..(pos[t] - 1) \subseteq dados[anexo[t]]
  /\ filho[t] = "fim" /\ removidos = {} /\ ~curto =>
       shmid[t] # 0 /\ Elementos(vet_filho[t]) \subseteq dados[shmid[t]]

PaiCerto ==
  /\ pai \in {"shmat", "espera", "mostra", "solta", "destroi"} => shmid[PAI] # 0
  /\ pai \in {"espera", "mostra", "solta"} => anexo[PAI] = shmid[PAI]
  /\ pai \in {"mostra", "solta"} => \E t \in Filho : filho[t] = "fim"

\* SomasFeitas is the two, and so is its next value.
LEMMA SomasDeTodos == SomasFeitas <=> PaiCerto /\ \A t \in Filho : SomaCerta(t)
BY DEF SomasFeitas, PaiCerto, SomaCerta

LEMMA SomasDepois ==
  ASSUME PaiCerto', \A t \in Filho : SomaCerta(t)' PROVE SomasFeitas'
BY DEF SomasFeitas, PaiCerto, SomaCerta

LEMMA SomasInit == Init => SomasFeitas
BY DEF Init, SomasFeitas

\* No sum is ever taken back; a child whom nobody touches keeps what it has.
LEMMA MantemSoma ==
  ASSUME TypeOK, NEW t \in Filho, SomaCerta(t), filho'[t] = filho[t], pos'[t] = pos[t],
         vet_filho'[t] = vet_filho[t], shmid'[t] = shmid[t], anexo'[t] = anexo[t],
         curto' = curto, removidos \subseteq removidos',
         \A x \in Segmento : dados[x] \subseteq dados'[x]
  PROVE  SomaCerta(t)'
<1>1. shmid[t] # 0 => shmid[t] \in Segmento
  BY Processos DEF TypeOK, Segmento
<1> QED
  BY <1>1 DEF SomaCerta, Elementos

\* The same of all children, and of a parent that does nothing.
LEMMA MantemSomas ==
  ASSUME TypeOK, SomasFeitas,
         UNCHANGED <<filho, pos, vet_filho, curto, dados>>, removidos \subseteq removidos',
         \A t \in Filho : shmid'[t] = shmid[t] /\ anexo'[t] = anexo[t]
  PROVE  \A t \in Filho : SomaCerta(t)'
BY SomasDeTodos, MantemSoma

LEMMA MantemPai ==
  ASSUME SomasFeitas, pai' = pai, shmid'[PAI] = shmid[PAI], anexo'[PAI] = anexo[PAI],
         \A t \in Filho : filho[t] = "fim" => filho'[t] = "fim"
  PROVE  PaiCerto'
BY SomasDeTodos DEF PaiCerto

\* One step of the parent.
LEMMA SomasPai ==
  ASSUME TypeOK, UmSegmento, SomasFeitas, Pai PROVE SomasFeitas'
<1> USE Processos DEF segmentos, dosFilhos
<1>1. CASE Cria
  <2>1. /\ pai = "cria" /\ pai' = pai /\ i < n
        /\ filho' = [filho EXCEPT ![i] = "le"]
        /\ UNCHANGED <<vet_filho, pos, segmentos, shmid, anexo>>
    BY <1>1 DEF Cria
  <2>2. PaiCerto'
    BY <2>1 DEF PaiCerto
  <2>3. ASSUME NEW t \in Filho PROVE SomaCerta(t)'
    <3>1. CASE t = i
      <4>1. filho'[t] = "le"
        BY <2>1, <3>1 DEF TypeOK
      <4> QED
        BY <4>1 DEF SomaCerta
    <3>2. CASE t # i
      <4>1. filho'[t] = filho[t]
        BY <2>1, <3>2 DEF TypeOK
      <4> QED
        BY <2>1, <4>1, SomasDeTodos, MantemSoma
    <3> QED
      BY <3>1, <3>2
  <2> QED
    BY <2>2, <2>3, SomasDepois
<1>2. CASE CriaFalha \/ FimDaCriacao \/ Espera \/ Mostra
  <2>1. UNCHANGED <<filho, pos, vet_filho, segmentos, shmid, anexo>>
    BY <1>2 DEF CriaFalha, FimDaCriacao, Espera, Mostra
  <2>2. PaiCerto'
    BY <1>2, <2>1, SomasDeTodos DEF PaiCerto, CriaFalha, FimDaCriacao, Espera, Mostra
  <2> QED
    BY <2>1, <2>2, MantemSomas, SomasDepois
<1>3. CASE PaiShmget
  <2>1. UNCHANGED <<filho, pos, vet_filho, curto, dados, removidos, anexo>>
    BY <1>3 DEF PaiShmget, shmget
  <2>2. \A t \in Filho : shmid'[t] = shmid[t]
    BY <1>3 DEF PaiShmget, shmget, TypeOK
  <2>3. pai' = "fim" \/ (pai' = "shmat" /\ shmget(PAI))
    BY <1>3 DEF PaiShmget
  <2>4. pai # "fim"
    BY <1>3 DEF PaiShmget
  <2>5. pai' = "shmat" => shmid'[PAI] # 0
    BY <2>3, <2>4, SegmentoShmget
  <2>6. PaiCerto'
    BY <2>3, <2>5 DEF PaiCerto
  <2> QED
    BY <2>1, <2>2, <2>6, MantemSomas, SomasDepois
<1>4. CASE PaiShmat
  <2>1. /\ pai = "shmat" /\ pai' = "espera"
        /\ anexo' = [anexo EXCEPT ![PAI] = shmid[PAI]]
        /\ UNCHANGED <<filho, pos, vet_filho, curto, dados, removidos, shmid>>
    BY <1>4 DEF PaiShmat, shmat
  <2>2. anexo'[PAI] = shmid[PAI] /\ \A t \in Filho : anexo'[t] = anexo[t]
    BY <2>1 DEF TypeOK
  <2>3. PaiCerto'
    BY <2>1, <2>2, SomasDeTodos DEF PaiCerto
  <2> QED
    BY <2>1, <2>2, <2>3, MantemSomas, SomasDepois
<1>5. CASE Solta
  <2>1. /\ pai = "solta" /\ pai' = "destroi" /\ anexo' = [anexo EXCEPT ![PAI] = 0]
        /\ UNCHANGED <<filho, pos, vet_filho, curto, dados, removidos, shmid>>
    BY <1>5 DEF Solta
  <2>2. \A t \in Filho : anexo'[t] = anexo[t]
    BY <2>1 DEF TypeOK
  <2>3. PaiCerto'
    BY <2>1, SomasDeTodos DEF PaiCerto
  <2> QED
    BY <2>1, <2>2, <2>3, MantemSomas, SomasDepois
<1>6. CASE Destroi
  <2>1. /\ pai' = "fim" /\ removidos \subseteq removidos'
        /\ UNCHANGED <<filho, pos, vet_filho, curto, dados, shmid, anexo>>
    BY <1>6 DEF Destroi
  <2>2. PaiCerto'
    BY <2>1 DEF PaiCerto
  <2> QED
    BY <2>1, <2>2, MantemSomas, SomasDepois
<1> QED
  BY <1>1, <1>2, <1>3, <1>4, <1>5, <1>6 DEF Pai

\* One step of a child: the others, and the parent, keep what they have.
LEMMA SomasFilho ==
  ASSUME TypeOK, UmSegmento, SomasFeitas, NEW t \in Filho, UmFilho(t) PROVE SomasFeitas'
<1> USE Processos DEF segmentos, dosFilhos
<1>1. pai' = pai /\ curto' = curto /\ removidos' = removidos
  BY DEF UmFilho, Le, FilhoShmget, shmget, FilhoShmat, shmat, Soma, FilhoSolta
<1>2. \A x \in Segmento : dados[x] \subseteq dados'[x]
  <2>1. CASE dados' = dados
    BY <2>1
  <2>2. CASE Soma(t)
    <3>1. dados' = [dados EXCEPT ![anexo[t]] = @ \cup {pos[t]}]
      BY <2>2 DEF Soma
    <3> QED
      BY <3>1 DEF TypeOK
  <2> QED
    BY <2>1, <2>2 DEF UmFilho, Le, FilhoShmget, shmget, FilhoShmat, shmat, FilhoSolta
<1>3. filho[t] # "fim"
  BY DEF UmFilho, Le, FilhoShmget, FilhoShmat, Soma, FilhoSolta
<1>4. ASSUME NEW p \in Processo, p # t
      PROVE  shmid'[p] = shmid[p] /\ anexo'[p] = anexo[p]
  BY <1>4 DEF UmFilho, Le, FilhoShmget, shmget, FilhoShmat, shmat, Soma, FilhoSolta, TypeOK
<1>5. ASSUME NEW u \in Filho, u # t
      PROVE  filho'[u] = filho[u] /\ pos'[u] = pos[u] /\ vet_filho'[u] = vet_filho[u]
  BY <1>5 DEF UmFilho, Le, FilhoShmget, FilhoShmat, Soma, FilhoSolta, TypeOK
<1>6. PaiCerto'
  BY <1>1, <1>3, <1>4, <1>5, MantemPai
<1>7. ASSUME NEW u \in Filho, u # t PROVE SomaCerta(u)'
  <2>1. shmid'[u] = shmid[u] /\ anexo'[u] = anexo[u]
    BY <1>4, <1>7
  <2> QED
    BY <1>1, <1>2, <1>5, <1>7, <2>1, SomasDeTodos, MantemSoma
<1>8. SomaCerta(t)'
  <2>1. CASE Le(t)
    <3>1. PICK f \in cano[t] : /\ vet_filho' = [vet_filho EXCEPT ![t] = f]
                               /\ pos' = [pos EXCEPT ![t] = f.inicio]
      BY <2>1 DEF Le
    <3>2. filho'[t] = "shmget" /\ pos'[t] = vet_filho'[t].inicio
      BY <2>1, <3>1 DEF Le, TypeOK
    <3> QED
      BY <3>2 DEF SomaCerta
  <2>2. CASE FilhoShmget(t)
    <3>1. filho[t] = "shmget" /\ UNCHANGED <<pos, vet_filho>>
      BY <2>2 DEF FilhoShmget
    <3>2. CASE shmget(t) /\ filho' = [filho EXCEPT ![t] = "shmat"]
      <4>1. shmid'[t] # 0
        BY <1>1, <3>2, SegmentoShmget
      <4>2. filho'[t] = "shmat"
        BY <3>2 DEF TypeOK
      <4> QED
        BY <3>1, <4>1, <4>2, SomasDeTodos DEF SomaCerta
    <3>3. CASE shmgetFalha /\ filho' = [filho EXCEPT ![t] = "fim"]
      <4>1. curto' /\ filho'[t] = "fim"
        BY <1>1, <3>3 DEF shmgetFalha, TypeOK
      <4> QED
        BY <4>1 DEF SomaCerta
    <3> QED
      BY <2>2, <3>2, <3>3 DEF FilhoShmget
  <2>3. CASE FilhoShmat(t)
    <3>1. filho[t] = "shmat" /\ UNCHANGED <<pos, vet_filho, dados, shmid>>
      BY <2>3 DEF FilhoShmat, shmat
    <3>2. CASE shmat(t) /\ filho' = [filho EXCEPT ![t] = "soma"]
      <4>1. filho'[t] = "soma" /\ anexo'[t] = shmid[t]
        BY <3>2 DEF TypeOK, shmat
      <4>2. pos[t] = vet_filho[t].inicio /\ shmid[t] # 0
        BY <3>1, SomasDeTodos DEF SomaCerta
      <4>3. vet_filho[t].inicio..(pos[t] - 1) = {}
        BY <4>2, SMT DEF TypeOK
      <4> QED
        BY <3>1, <4>1, <4>2, <4>3 DEF SomaCerta
    <3>3. CASE ~Existe(shmid[t]) /\ filho' = [filho EXCEPT ![t] = "fim"]
      <4>1. filho'[t] = "fim" /\ removidos' # {}
        BY <1>1, <3>3 DEF TypeOK, Existe
      <4> QED
        BY <4>1 DEF SomaCerta
    <3> QED
      BY <2>3, <3>2, <3>3 DEF FilhoShmat
  <2>4. CASE Soma(t)
    <3>1. /\ filho[t] = "soma" /\ filho' = filho /\ UNCHANGED <<vet_filho, shmid, anexo>>
          /\ dados' = [dados EXCEPT ![anexo[t]] = @ \cup {pos[t]}]
          /\ pos'[t] = pos[t] + 1
      BY <2>4 DEF Soma, TypeOK
    <3>2. /\ shmid[t] # 0 /\ anexo[t] = shmid[t]
          /\ vet_filho[t].inicio..(pos[t] - 1) \subseteq dados[anexo[t]]
      BY <3>1, SomasDeTodos DEF SomaCerta
    <3>3. anexo[t] \in Segmento
      BY <3>2, SMT DEF TypeOK, Segmento
    <3>4. dados'[anexo[t]] = dados[anexo[t]] \cup {pos[t]}
      BY <3>1, <3>3 DEF TypeOK
    <3>5. vet_filho[t].inicio..(pos'[t] - 1)
            \subseteq vet_filho[t].inicio..(pos[t] - 1) \cup {pos[t]}
      BY <3>1, SMT DEF TypeOK
    <3>6. vet_filho[t].inicio..(pos'[t] - 1) \subseteq dados'[anexo[t]]
      BY <3>2, <3>4, <3>5
    <3> QED
      BY <3>1, <3>2, <3>6 DEF SomaCerta
  <2>5. CASE FilhoSolta(t)
    <3>1. /\ filho[t] = "soma" /\ filho'[t] = "fim" /\ ~(pos[t] < vet_filho[t].fim)
          /\ UNCHANGED <<vet_filho, shmid, dados>>
      BY <2>5 DEF FilhoSolta, HaElemento, TypeOK
    <3>2. /\ shmid[t] # 0
          /\ vet_filho[t].inicio..(pos[t] - 1) \subseteq dados[shmid[t]]
      BY <3>1, SomasDeTodos DEF SomaCerta
    <3>3. Elementos(vet_filho[t]) \subseteq vet_filho[t].inicio..(pos[t] - 1)
      BY <3>1, SMT DEF TypeOK, Elementos
    <3>4. Elementos(vet_filho[t]) \subseteq dados[shmid[t]]
      BY <3>2, <3>3
    <3> QED
      BY <3>1, <3>2, <3>4 DEF SomaCerta
  <2> QED
    BY <2>1, <2>2, <2>3, <2>4, <2>5 DEF UmFilho
<1> QED
  BY <1>6, <1>7, <1>8, SomasDepois

LEMMA SomasStep == TypeOK /\ UmSegmento /\ SomasFeitas /\ [Next]_vars => SomasFeitas'
<1> SUFFICES ASSUME TypeOK, UmSegmento, SomasFeitas, [Next]_vars PROVE SomasFeitas'
  OBVIOUS
<1>1. CASE UNCHANGED vars
  BY <1>1 DEF vars, dosFilhos, segmentos, SomasFeitas
<1> QED
  BY <1>1, SomasPai, SomasFilho DEF Next

-----------------------------------------------------------------------------
(* The theorems *)

\* Types, slices, the one segment and the sums hold in every state.
THEOREM Indutivo == Spec => []IInv
<1>1. Init => IInv
  BY TypeInit, FatiasInit, SegmentoInit, SomasInit DEF IInv
<1>2. IInv /\ [Next]_vars => IInv'
  BY TypeStep, FatiasStep, SegmentoStep, SomasStep DEF IInv
<1> QED
  BY <1>1, <1>2, PTL DEF Spec

\* Type correctness of ex4.c's state, the two segments included.
THEOREM TypeCorrect == Spec => []TypeOK
BY Indutivo, PTL DEF IInv

\* Each child reads the slice that is its own by the reference, for every
\* number of children and of elements.
THEOREM RecebeSuaSempre == Spec => []RecebeSua
<1>1. IInv => RecebeSua
  BY DEF IInv, FatiasCertas
<1> QED
  BY <1>1, Indutivo, PTL

\* All processes share one segment until the parent removes it.
THEOREM MesmoSegmentoSempre == Spec => []MesmoSegmento
<1>1. IInv => MesmoSegmento
  <2> SUFFICES ASSUME IInv, removidos = {}, NEW p \in Processo, NEW q \in Processo,
                      shmid[p] # 0, shmid[q] # 0
               PROVE  shmid[p] = shmid[q]
    BY DEF MesmoSegmento
  <2>1. shmid[p] = chave /\ shmid[q] = chave
    BY DEF IInv, UmSegmento
  <2> QED
    BY <2>1
<1> QED
  BY <1>1, Indutivo, PTL

\* When the parent prints, one child at least has left its whole slice in the
\* segment that the parent has attached.
THEOREM UmProntoSempre == Spec => []UmPronto
<1>1. IInv => UmPronto
  <2> SUFFICES ASSUME IInv, pai \in {"mostra", "solta"}
               PROVE  /\ anexo[PAI] # 0
                      /\ \E t \in Filho : /\ filho[t] = "fim"
                                          /\ Elementos(vet_filho[t]) \subseteq dados[anexo[PAI]]
    BY DEF UmPronto
  <2>1. shmid[PAI] # 0 /\ anexo[PAI] = shmid[PAI]
    BY DEF IInv, SomasFeitas
  <2>2. removidos = {} /\ ~curto /\ shmid[PAI] = chave
    BY <2>1, Processos DEF IInv, UmSegmento
  <2>3. PICK t \in Filho : filho[t] = "fim"
    BY DEF IInv, SomasFeitas
  <2>4. shmid[t] # 0 /\ Elementos(vet_filho[t]) \subseteq dados[shmid[t]]
    BY <2>2, <2>3 DEF IInv, SomasFeitas
  <2>5. shmid[t] = shmid[PAI]
    BY <2>2, <2>4, Processos DEF IInv, UmSegmento
  <2> QED
    BY <2>1, <2>3, <2>4, <2>5
<1> QED
  BY <1>1, Indutivo, PTL
=============================================================================
