---------------------------- MODULE ProcessosProva ----------------------------
(***************************************************************************)
(* Proofs about two programs of several processes: RaizQuadrada, for any   *)
(* number of clients, numbers and room in a pipe, and, below it, the       *)
(* shell, for any number of lines.                                         *)
(***************************************************************************)
EXTENDS RaizQuadrada, Shell, FiniteSetTheorems, FunctionTheorems, SequenceTheorems,
        WellFoundedInduction, TLAPS

LEMMA Nomes ==
  /\ SERVIDOR \in Processo /\ SERVIDOR \notin Cliente /\ FILHO \in Cliente
  /\ Cliente \subseteq Processo /\ Cliente \subseteq Nat /\ Processo \subseteq Nat
  /\ \A p \in Processo : p = SERVIDOR \/ p \in Cliente
  /\ \A p \in Processo : p <= Inicios
  /\ A \in Canal /\ B \in Canal /\ A # B
  /\ Canal \subseteq Nat \ {0}
  /\ Canal = 1..(2 * Inicios + 4)
  BY ConstantesAssumption DEF Processo, Cliente, SERVIDOR, FILHO, Canal, A, B

\* The least number of a set of numbers, as mkfifo is modelled.
LEMMA MenorDe ==
  ASSUME NEW S, S \subseteq Nat, S # {}
  PROVE  Menor(S) \in S
  <1>1. IsWellFoundedOn({ss \in Nat \X Nat : ss[1] < ss[2]}, Nat)
    BY NatLessThanWellFounded DEF OpToRel
  <1>2. PICK m \in S : \A y \in S : ~ (<<y, m>> \in {ss \in Nat \X Nat : ss[1] < ss[2]})
    BY <1>1, WFMin, Zenon
  <1>3. \A y \in S : m <= y
    <2> SUFFICES ASSUME NEW y \in S, ~ (m <= y) PROVE FALSE
      OBVIOUS
    <2>1. y < m /\ y \in Nat /\ m \in Nat
      OBVIOUS
    <2>2. <<y, m>> \in Nat \X Nat /\ <<y, m>>[1] < <<y, m>>[2]
      BY <2>1
    <2> QED BY <1>2, <2>2
  <1> QED
    BY <1>2, <1>3 DEF Menor

-----------------------------------------------------------------------------
(* Every process has one end of each kind, so the numbers do not run out *)

LEMMA UmaPonta ==
  ASSUME TypeOK, programa = "fifo", NEW p \in Processo, PontasCertas(p),
         NEW m \in {"r", "w"}, NEW f, NEW g, <<p, m, f>> \in aberto, <<p, m, g>> \in aberto
  PROVE  f = g
  <1>1. <<p, m, f>> \in De(p) /\ <<p, m, g>> \in De(p)
    BY DEF De
  <1>2. pc[p] # "fecha"
    BY Nomes DEF TypeOK, PcDoServidor, PcDoCliente, Conversa, Acabou, NoSinal, Abrindo,
                 Conversando
  <1>3. De(p) # {}
    BY <1>1
  <1>4. /\ pc[p] \in {"espera1", "cria2", "abre2"}
           \/ pc[p] \in {"espera2"} \cup Conversa \cup Conversando
    BY <1>2, <1>3, Nomes DEF PontasCertas, TypeOK, PcDoServidor, PcDoCliente, Conversa,
       Acabou, NoSinal, Abrindo, Conversando
  <1>5. CASE pc[p] \in {"espera1", "cria2", "abre2"}
    BY <1>1, <1>5 DEF PontasCertas
  <1>6. CASE pc[p] \in {"espera2"} \cup Conversa \cup Conversando
    <2>1. Outro(Primeiro(p)) # Primeiro(p)
      BY DEF Outro, Primeiro
    <2> QED
      BY <1>1, <1>6, <2>1 DEF PontasCertas
  <1> QED BY <1>4, <1>5, <1>6

Codigo(p, m) == 1 + 2 * p + (IF m = "w" THEN 1 ELSE 0)

LEMMA CodigoInjetivo ==
  ASSUME NEW p \in Processo, NEW q \in Processo, NEW m \in {"r", "w"}, NEW k \in {"r", "w"}
  PROVE  /\ Codigo(p, m) \in 1..(2 * Inicios + 2)
         /\ Codigo(p, m) = Codigo(q, k) => p = q /\ m = k
  <1>1. p \in 0..Inicios /\ q \in 0..Inicios /\ Inicios \in Nat
    BY Nomes, ConstantesAssumption
  <1>2. CASE m = "w" /\ k = "w"
    BY <1>1, <1>2 DEF Codigo
  <1>3. CASE m = "r" /\ k = "w"
    BY <1>1, <1>3 DEF Codigo
  <1>4. CASE m = "w" /\ k = "r"
    BY <1>1, <1>4 DEF Codigo
  <1>5. CASE m = "r" /\ k = "r"
    BY <1>1, <1>5 DEF Codigo
  <1> QED BY <1>2, <1>3, <1>4, <1>5

LEMMA HaLivre ==
  ASSUME TypeOK, programa = "fifo", \A p \in Processo : PontasCertas(p),
         NEW x \in Nome, nome[x] = 0
  PROVE  Menor(Livres) \in Livres
  <1> DEFINE Casa == 0..(2 * Inicios + 2)
             Usa(f, k) == \E p \in Processo, m \in {"r", "w"} :
                            k = Codigo(p, m) /\ <<p, m, f>> \in aberto
             TemNome(f) == \E y \in Nome : nome[y] = f
             h == [f \in Canal |-> IF TemNome(f) THEN 0 ELSE CHOOSE k \in Casa : Usa(f, k)]
  <1>1. Livres \subseteq Nat
    BY Nomes DEF Livres
  <1>2. SUFFICES ASSUME Livres = {} PROVE FALSE
    BY <1>1, MenorDe
  <1>3. \A f \in Canal : ~TemNome(f) => \E k \in Casa : k # 0 /\ Usa(f, k)
    <2> SUFFICES ASSUME NEW f \in Canal, ~TemNome(f)
                 PROVE  \E k \in Casa : k # 0 /\ Usa(f, k)
      OBVIOUS
    <2>1. PICK y \in aberto : y[3] = f
      BY <1>2 DEF Livres
    <2>2. PICK p \in Processo, m \in {"r", "w"} : y = <<p, m, f>>
      BY <2>1 DEF TypeOK
    <2>3. Codigo(p, m) \in 1..(2 * Inicios + 2)
      BY CodigoInjetivo
    <2>4. Codigo(p, m) \in Casa /\ Codigo(p, m) # 0
      BY <2>3, ConstantesAssumption
    <2> QED BY <2>1, <2>2, <2>4
  <1>4. \A f \in Canal : \A k : Usa(f, k) => k # 0
    <2>1. \A p \in Processo, m \in {"r", "w"} : Codigo(p, m) # 0
      BY CodigoInjetivo, ConstantesAssumption
    <2> QED BY <2>1
  <1>5. \A f, g \in Canal : \A k : Usa(f, k) /\ Usa(g, k) => f = g
    <2> SUFFICES ASSUME NEW f \in Canal, NEW g \in Canal, NEW k, Usa(f, k), Usa(g, k)
                 PROVE  f = g
      OBVIOUS
    <2>1. PICK p \in Processo, m \in {"r", "w"} : k = Codigo(p, m) /\ <<p, m, f>> \in aberto
      OBVIOUS
    <2>2. PICK q \in Processo, j \in {"r", "w"} : k = Codigo(q, j) /\ <<q, j, g>> \in aberto
      OBVIOUS
    <2>3. Codigo(p, m) = Codigo(q, j)
      BY <2>1, <2>2
    <2>4. p = q /\ m = j
      BY <2>3, CodigoInjetivo
    <2> QED BY <2>1, <2>2, <2>4, UmaPonta
  <1>6. \A f, g \in Canal : TemNome(f) /\ TemNome(g) => f = g
    BY Nomes DEF Nome
  <1> HIDE DEF Usa, TemNome
  <1>7. \A f \in Canal : /\ h[f] \in Casa
                         /\ TemNome(f) => h[f] = 0
                         /\ ~TemNome(f) => Usa(f, h[f]) /\ h[f] # 0
    BY <1>3, <1>4, ConstantesAssumption
  <1> HIDE DEF h
  <1>8. \A f, g \in Canal : h[f] = h[g] => f = g
    BY <1>5, <1>6, <1>7
  <1>9. h \in Injection(Canal, Casa)
    <2>1. h \in [Canal -> Casa]
      BY <1>7 DEF h
    <2> QED BY <1>8, <2>1, Fun_IsInj
  <1>10. IsFiniteSet(Casa) /\ Cardinality(Casa) = 2 * Inicios + 3
    <2>1. 0 \in Int /\ 2 * Inicios + 2 \in Int /\ ~(0 > 2 * Inicios + 2)
      BY ConstantesAssumption
    <2> QED BY <2>1, FS_Interval, ConstantesAssumption
  <1>11. Cardinality(Canal) = 2 * Inicios + 4
    <2>1. 1 \in Int /\ 2 * Inicios + 4 \in Int /\ ~(1 > 2 * Inicios + 4)
      BY ConstantesAssumption
    <2> QED BY <2>1, FS_Interval, Nomes, ConstantesAssumption
  <1>12. Cardinality(Canal) <= Cardinality(Casa)
    BY <1>9, <1>10, FS_Injection
  <1> QED BY <1>10, <1>11, <1>12, ConstantesAssumption

-----------------------------------------------------------------------------
(* Statements and ends *)

Base == TypeOK /\ (\A p \in Processo : PontasCertas(p)) /\ NomesDistintos /\ AntesDoFork

LEMMA PontaTem ==
  ASSUME Base, NEW p \in Processo, pc[p] \in Conversa \cup Conversando, NEW m \in {"r", "w"}
  PROVE  /\ Ponta(p, m) \in Canal
         /\ <<p, m, Ponta(p, m)>> \in aberto
         /\ \A f : <<p, m, f>> \in aberto => f = Ponta(p, m)
         /\ programa = "pipe" => Ponta(p, m) = IF m = Primeiro(p) THEN B ELSE A
  <1>1. PICK f \in Canal, g \in Canal :
          /\ De(p) = {<<p, Primeiro(p), f>>, <<p, Outro(Primeiro(p)), g>>}
          /\ programa = "pipe" => f = B /\ g = A
    BY DEF Base, PontasCertas
  <1> DEFINE h == IF m = Primeiro(p) THEN f ELSE g
  <1>2. /\ Primeiro(p) # Outro(Primeiro(p))
        /\ m = Primeiro(p) \/ m = Outro(Primeiro(p))
    BY DEF Primeiro, Outro
  <1>3. h \in Canal /\ <<p, m, h>> \in De(p) /\ \A k : <<p, m, k>> \in De(p) => k = h
    BY <1>1, <1>2
  <1>4. \A k : <<p, m, k>> \in De(p) <=> <<p, m, k>> \in aberto
    BY DEF De
  <1>5. Ponta(p, m) = h
    BY <1>3, <1>4 DEF Ponta
  <1> QED
    BY <1>1, <1>3, <1>4, <1>5

LEMMA FechaEfeito ==
  ASSUME TypeOK, NEW S, Fecha(S)
  PROVE  /\ aberto' = aberto \ S
         /\ aberto' \subseteq Processo \X {"r", "w"} \X Canal
         /\ canal' \in [Canal -> Seq(Mensagem)]
         /\ \A f \in Canal : canal'[f] = <<>> \/ canal'[f] = canal[f]
         /\ \A x \in aberto' : canal'[x[3]] = canal[x[3]]
  BY DEF Fecha, TypeOK

LEMMA SoltaTudo ==
  ASSUME NEW p \in Processo, aberto' = aberto \ De(p)
  PROVE  De(p)' = {} /\ \A q \in Processo \ {p} : De(q)' = De(q)
  BY DEF De

LEMMA PontasMesmas ==
  ASSUME NEW p \in Processo, PontasCertas(p), De(p)' = De(p), pc'[p] = pc[p],
         programa' = programa
  PROVE  PontasCertas(p)'
  BY DEF PontasCertas

LEMMA SemNada ==
  ASSUME NEW p \in Processo, De(p)' = {},
         pc'[p] \in {"fora", "fork", "cria1", "abre1"} \cup NoSinal \cup Acabou
  PROVE  PontasCertas(p)'
  BY DEF PontasCertas, NoSinal, Acabou, Conversa, Conversando

\* What one process does to the statements.
LEMMA UmPasso ==
  ASSUME Base, NEW p \in Processo, NEW para,
         programa' = programa, pc' = [pc EXCEPT ![p] = para], para # "fork",
         p = SERVIDOR => para \in PcDoServidor,
         p \in Cliente => para \in PcDoCliente(p) /\ (pc[p] # "fora" \/ programa = "fifo"),
         \A q \in Processo \ {p} : De(q)' = De(q),
         PontasCertas(p)'
  PROVE  /\ DOMAIN pc' = Processo
         /\ pc'[SERVIDOR] \in PcDoServidor'
         /\ \A c \in Cliente : pc'[c] \in PcDoCliente(c)'
         /\ \A q \in Processo : PontasCertas(q)'
         /\ AntesDoFork'
  <1>1. /\ DOMAIN pc' = Processo /\ pc'[p] = para
        /\ \A q \in Processo \ {p} : pc'[q] = pc[q]
    BY DEF Base, TypeOK
  <1>2. PcDoServidor' = PcDoServidor /\ \A c \in Cliente : PcDoCliente(c)' = PcDoCliente(c)
    BY DEF PcDoServidor, PcDoCliente
  <1>3. pc'[SERVIDOR] \in PcDoServidor' /\ \A c \in Cliente : pc'[c] \in PcDoCliente(c)'
    BY <1>1, <1>2, Nomes DEF Base, TypeOK
  <1>4. \A q \in Processo : PontasCertas(q)'
    BY <1>1, PontasMesmas DEF Base
  <1>5. AntesDoFork'
    <2>1. programa = "fifo" => pc[SERVIDOR] # "fork"
      BY DEF Base, TypeOK, PcDoServidor, Conversa, NoSinal, Acabou
    <2> QED
      BY <1>1, <2>1, Nomes DEF Base, AntesDoFork
  <1> QED BY <1>1, <1>3, <1>4, <1>5

LEMMA MenosPontas ==
  ASSUME NomesDistintos, aberto' \subseteq aberto, UNCHANGED <<programa, nome>>
  PROVE  NomesDistintos'
  BY DEF NomesDistintos, Lado, Primeiro

Conversam == Conversa \cup Conversando

LEMMA EnviaBase ==
  ASSUME Base, NEW p \in Processo, NEW de \in Conversam, NEW m \in Mensagem,
         NEW para \in Conversam, Envia(p, de, m, para),
         p = SERVIDOR => para \in Conversa, p \in Cliente => para \in Conversando,
         num' \in Nat, pedido' \in [Cliente -> Mensagem], mostrado' \in [Cliente -> Mensagem]
  PROVE  Base'
  <1>1. pc[p] = de /\ UNCHANGED <<programa, nome, voltas>>
    BY DEF Envia
  <1>2. /\ "morto" # "fork" /\ para # "fork" /\ de # "fora"
        /\ p = SERVIDOR => "morto" \in PcDoServidor /\ para \in PcDoServidor
        /\ p \in Cliente => "morto" \in PcDoCliente(p) /\ para \in PcDoCliente(p)
    BY <1>1 DEF Base, TypeOK, PcDoServidor, PcDoCliente, Conversam, Conversa, Conversando, Acabou
  <1>3. CASE Fecha(De(p)) /\ Vai(p, "morto")
    <2>1. De(p)' = {} /\ \A q \in Processo \ {p} : De(q)' = De(q)
      BY <1>3, SoltaTudo DEF Fecha
    <2>2. pc' = [pc EXCEPT ![p] = "morto"] /\ pc'[p] = "morto"
      BY <1>3 DEF Vai, Base, TypeOK
    <2>3. PontasCertas(p)'
      BY <2>1, <2>2, SemNada DEF Acabou
    <2>4. NomesDistintos'
      BY <1>1, <1>3, MenosPontas DEF Base, Fecha
    <2>5. TypeOK
      BY DEF Base
    <2> QED
      BY <1>1, <1>2, <1>3, <2>1, <2>2, <2>3, <2>4, <2>5, UmPasso, FechaEfeito DEF Base, TypeOK
  <1>4. CASE /\ canal' = [canal EXCEPT ![Ponta(p, "w")] = Append(@, m)]
             /\ Vai(p, para) /\ UNCHANGED aberto
    <2>1. \A q \in Processo : De(q)' = De(q)
      BY <1>4 DEF De
    <2>2. pc' = [pc EXCEPT ![p] = para] /\ pc'[p] = para
      BY <1>4 DEF Vai, Base, TypeOK
    <2>3. PontasCertas(p)'
      BY <1>1, <2>1, <2>2 DEF Base, PontasCertas, Conversam, Conversa, Conversando, NoSinal, Acabou
    <2>4. NomesDistintos'
      BY <1>1, <1>4, MenosPontas DEF Base
    <2>5. canal' \in [Canal -> Seq(Mensagem)]
      <3>1. Ponta(p, "w") \in Canal
        BY <1>1, PontaTem DEF Conversam
      <3>2. Append(canal[Ponta(p, "w")], m) \in Seq(Mensagem)
        BY <3>1 DEF Base, TypeOK
      <3> QED BY <1>4, <3>1, <3>2 DEF Base, TypeOK
    <2> QED
      BY <1>1, <1>2, <1>4, <2>1, <2>2, <2>3, <2>4, <2>5, UmPasso DEF Base, TypeOK
  <1> QED
    BY <1>3, <1>4 DEF Envia

LEMMA RecebeBase ==
  ASSUME Base, NEW p \in Processo, NEW de \in Conversam,
         NEW para \in Conversam, Recebe(p, de, para),
         p = SERVIDOR => para \in Conversa, p \in Cliente => para \in Conversando,
         num' \in Nat, pedido' \in [Cliente -> Mensagem], mostrado' \in [Cliente -> Mensagem]
  PROVE  Base'
  <1>1. /\ pc[p] = de /\ UNCHANGED <<programa, aberto, nome, voltas>>
        /\ canal' = [canal EXCEPT ![Ponta(p, "r")] = IF @ = <<>> THEN @ ELSE Tail(@)]
        /\ Vai(p, para)
    BY DEF Recebe
  <1>2. /\ para # "fork" /\ de # "fora"
        /\ p = SERVIDOR => para \in PcDoServidor
        /\ p \in Cliente => para \in PcDoCliente(p)
    BY <1>1 DEF Base, TypeOK, PcDoServidor, PcDoCliente, Conversam, Conversa, Conversando, Acabou
  <1>3. \A q \in Processo : De(q)' = De(q)
    BY <1>1 DEF De
  <1>4. pc' = [pc EXCEPT ![p] = para] /\ pc'[p] = para
    BY <1>1 DEF Vai, Base, TypeOK
  <1>5. PontasCertas(p)'
    BY <1>1, <1>3, <1>4 DEF Base, PontasCertas, Conversam, Conversa, Conversando, NoSinal, Acabou
  <1>6. NomesDistintos'
    BY <1>1, MenosPontas DEF Base
  <1>7. canal' \in [Canal -> Seq(Mensagem)]
    <2>1. Ponta(p, "r") \in Canal
      BY <1>1, PontaTem DEF Conversam
    <2>2. canal[Ponta(p, "r")] # <<>> => Tail(canal[Ponta(p, "r")]) \in Seq(Mensagem)
      BY <2>1 DEF Base, TypeOK
    <2> QED BY <1>1, <2>1, <2>2 DEF Base, TypeOK
  <1> QED
    BY <1>1, <1>2, <1>3, <1>4, <1>5, <1>6, <1>7, UmPasso DEF Base, TypeOK

LEMMA mkfifoBase ==
  ASSUME Base, NEW p \in Processo, NEW x \in Nome, NEW de, NEW para,
         (de = "cria1" /\ para = "abre1") \/ (de = "cria2" /\ para = "abre2"),
         mkfifo(p, x, de, para)
  PROVE  Base'
  <1>1. /\ pc[p] = de /\ UNCHANGED <<programa, aberto, canal, num, pedido, mostrado, voltas>>
        /\ nome' = IF nome[x] # 0 THEN nome ELSE [nome EXCEPT ![x] = Menor(Livres)]
        /\ Vai(p, para)
    BY DEF mkfifo, dados
  <1>2. programa = "fifo" /\ programa \in Programas
    BY <1>1, Nomes, ConstantesAssumption
       DEF Base, TypeOK, PcDoServidor, PcDoCliente, Conversa, Conversando, Acabou
  <1>3. /\ para # "fork"
        /\ p = SERVIDOR => para \in PcDoServidor
        /\ p \in Cliente => para \in PcDoCliente(p)
    BY <1>2 DEF PcDoServidor, PcDoCliente, Abrindo
  <1>4. \A q \in Processo : De(q)' = De(q)
    BY <1>1 DEF De
  <1>5. pc' = [pc EXCEPT ![p] = para] /\ pc'[p] = para
    BY <1>1 DEF Vai, Base, TypeOK
  <1>6. PontasCertas(p)'
    BY <1>1, <1>4, <1>5 DEF Base, PontasCertas, Conversa, Conversando, NoSinal, Acabou
  <1>7. CASE nome[x] # 0
    <2>1. NomesDistintos'
      BY <1>1, <1>7, MenosPontas DEF Base
    <2> QED
      BY <1>1, <1>2, <1>3, <1>4, <1>5, <1>6, <1>7, <2>1, UmPasso DEF Base, TypeOK
  <1>8. CASE nome[x] = 0
    <2> DEFINE novo == Menor(Livres)
    <2>1. novo \in Livres
      BY <1>2, <1>8, HaLivre DEF Base
    <2>2. /\ novo \in Canal /\ novo # 0
          /\ \A y \in Nome : nome[y] # novo
          /\ \A y \in aberto : y[3] # novo
      BY <2>1, Nomes DEF Livres
    <2> HIDE DEF novo
    <2>3. nome' = [nome EXCEPT ![x] = novo]
      BY <1>1, <1>8 DEF novo
    <2>4. NomesDistintos'
      BY <1>1, <2>2, <2>3 DEF Base, TypeOK, NomesDistintos, Nome, Lado, Primeiro
    <2>5. nome' \in [Nome -> {0} \cup Canal]
      BY <2>2, <2>3 DEF Base, TypeOK
    <2> QED
      BY <1>1, <1>2, <1>3, <1>4, <1>5, <1>6, <2>4, <2>5, UmPasso DEF Base, TypeOK
  <1> QED BY <1>7, <1>8

\* The two open of each program: x is opened in this mode at de; then p waits
\* at espera or goes on to para.
Abertura(p, x, modo, de, espera, para) ==
  \/ /\ x = "server1" /\ modo = Primeiro(p) /\ de = "abre1"
     /\ espera = "espera1" /\ para = "cria2"
  \/ /\ x = "server2" /\ modo = Outro(Primeiro(p)) /\ de = "abre2"
     /\ espera = "espera2"
     /\ para = IF p = SERVIDOR THEN "pergunta" ELSE "lePergunta"

LEMMA openBase ==
  ASSUME Base, NEW p \in Processo, NEW x, NEW modo, NEW de, NEW espera, NEW para,
         Abertura(p, x, modo, de, espera, para), open(p, x, modo, de, espera, para)
  PROVE  Base'
  <1>1. pc[p] = de /\ UNCHANGED <<programa, nome, num, pedido, mostrado, voltas>>
    BY DEF open, dados
  <1>2. /\ programa = "fifo" /\ x \in Nome /\ modo \in {"r", "w"}
        /\ de \in {"abre1", "abre2"} /\ espera # "fork" /\ para # "fork"
    BY <1>1, Nomes, ConstantesAssumption
       DEF Base, TypeOK, PcDoServidor, PcDoCliente, Conversa, Conversando, Acabou, Abertura,
           Nome, Primeiro, Outro
  <1>3. CASE nome[x] = 0
    <2>1. Fecha(De(p)) /\ Vai(p, "fim")
      BY <1>3 DEF open
    <2>2. De(p)' = {} /\ \A q \in Processo \ {p} : De(q)' = De(q)
      BY <2>1, SoltaTudo DEF Fecha
    <2>3. pc' = [pc EXCEPT ![p] = "fim"] /\ pc'[p] = "fim"
      BY <2>1 DEF Vai, Base, TypeOK
    <2>4. PontasCertas(p)'
      BY <2>2, <2>3, SemNada DEF Acabou
    <2>5. NomesDistintos'
      BY <1>1, <2>1, MenosPontas DEF Base, Fecha
    <2>6. /\ p = SERVIDOR => "fim" \in PcDoServidor
          /\ p \in Cliente => "fim" \in PcDoCliente(p)
      BY <1>2 DEF PcDoServidor, PcDoCliente, Acabou
    <2>7. TypeOK
      BY DEF Base
    <2> QED
      BY <1>1, <1>2, <2>1, <2>2, <2>3, <2>4, <2>5, <2>6, <2>7, UmPasso, FechaEfeito
         DEF Base, TypeOK
  <1>4. CASE nome[x] # 0
    <2> DEFINE f == nome[x]
               par == {q \in Processo : <<q, Outro(modo), f>> \in aberto}
    <2>1. f \in Canal
      BY <1>2, <1>4 DEF Base, TypeOK
    <2>2. aberto' = aberto \cup {<<p, modo, f>>} /\ UNCHANGED canal
      BY <1>4 DEF open
    <2>3. /\ DOMAIN pc' = Processo
          /\ pc'[p] \in {espera, para}
          /\ \A q \in Processo \ {p} :
               \/ pc'[q] = pc[q]
               \/ pc[q] = "espera1" /\ pc'[q] = "cria2"
               \/ /\ pc[q] = "espera2"
                  /\ pc'[q] = IF q = SERVIDOR THEN "pergunta" ELSE "lePergunta"
      BY <1>4 DEF open
    <2>4. \A q \in Processo \ {p} : De(q)' = De(q)
      BY <2>2 DEF De
    <2>5. De(p)' = De(p) \cup {<<p, modo, f>>}
      BY <2>2 DEF De
    <2> HIDE DEF par
    <2>6. \A q \in Processo \ {p} : PontasCertas(q)'
      <3> SUFFICES ASSUME NEW q \in Processo \ {p} PROVE PontasCertas(q)'
        OBVIOUS
      <3>1. De(q)' = De(q)
        BY <2>4
      <3>2. CASE pc'[q] = pc[q]
        BY <1>1, <3>1, <3>2, PontasMesmas DEF Base
      <3>3. CASE pc[q] = "espera1" /\ pc'[q] = "cria2"
        BY <1>1, <3>1, <3>3
           DEF Base, PontasCertas, Conversa, Conversando, NoSinal, Acabou
      <3>4. CASE pc[q] = "espera2" /\ pc'[q] \in {"pergunta", "lePergunta"}
        BY <1>1, <3>1, <3>4
           DEF Base, PontasCertas, Conversa, Conversando, NoSinal, Acabou
      <3> QED BY <2>3, <3>2, <3>3, <3>4
    <2>7. PontasCertas(p)'
      <3>1. CASE de = "abre1"
        <4>1. De(p) = {} /\ modo = Primeiro(p) /\ pc'[p] \in {"espera1", "cria2"}
          BY <1>1, <2>3, <3>1 DEF Base, PontasCertas, Abertura
        <4>2. De(p)' = {<<p, Primeiro(p), f>>}
          BY <2>5, <4>1
        <4> QED
          BY <2>1, <4>1, <4>2 DEF PontasCertas, Conversa, Conversando, NoSinal, Acabou
      <3>2. CASE de = "abre2"
        <4>1. PICK g \in Canal : De(p) = {<<p, Primeiro(p), g>>}
          BY <1>1, <3>2 DEF Base, PontasCertas
        <4>2. /\ modo = Outro(Primeiro(p))
              /\ pc'[p] \in {"espera2", "pergunta", "lePergunta"}
          BY <2>3, <3>2 DEF Abertura
        <4>3. De(p)' = {<<p, Primeiro(p), g>>, <<p, Outro(Primeiro(p)), f>>}
          BY <2>5, <4>1, <4>2
        <4> QED
          BY <1>1, <1>2, <2>1, <4>2, <4>3
             DEF PontasCertas, Conversa, Conversando, NoSinal, Acabou
      <3> QED BY <1>2, <3>1, <3>2
    <2>8. NomesDistintos'
      <3>1. x = Lado(p, modo)
        BY DEF Abertura, Lado, Primeiro, Outro
      <3>2. \A y \in Nome : y # x => nome[y] # f
        BY <1>2, <1>4 DEF Base, NomesDistintos, Nome
      <3>3. \A z \in aberto', y \in Nome : y # Lado(z[1], z[2]) => nome[y] # z[3]
        BY <1>2, <2>2, <3>1, <3>2 DEF Base, NomesDistintos
      <3> QED
        BY <1>1, <3>3 DEF Base, NomesDistintos, Lado, Primeiro
    <2>9. aberto' \subseteq Processo \X {"r", "w"} \X Canal
      BY <1>2, <2>1, <2>2 DEF Base, TypeOK
    <2>10. pc'[SERVIDOR] \in PcDoServidor' /\ \A c \in Cliente : pc'[c] \in PcDoCliente(c)'
      <3>1. PcDoServidor' = PcDoServidor /\ \A c \in Cliente : PcDoCliente(c)' = PcDoCliente(c)
        BY <1>1 DEF PcDoServidor, PcDoCliente
      <3>2. pc'[SERVIDOR] \in PcDoServidor
        BY <1>2, <2>3, Nomes DEF Base, TypeOK, PcDoServidor, Conversa, Abertura
      <3>3. \A c \in Cliente : pc'[c] \in PcDoCliente(c)
        BY <1>2, <2>3, Nomes DEF Base, TypeOK, PcDoCliente, Conversando, Abrindo, Abertura
      <3> QED BY <3>1, <3>2, <3>3
    <2>11. AntesDoFork'
      <3>1. pc'[SERVIDOR] # "fork"
        BY <1>2, <2>3, Nomes DEF Base, TypeOK, PcDoServidor, Conversa, NoSinal, Acabou
      <3> QED BY <3>1 DEF AntesDoFork
    <2>12. \A q \in Processo : PontasCertas(q)'
      BY <2>6, <2>7
    <2> QED
      BY <1>1, <2>2, <2>3, <2>8, <2>9, <2>10, <2>11, <2>12 DEF Base, TypeOK
  <1> QED BY <1>3, <1>4

LEMMA ForkBase ==
  ASSUME Base, Fork
  PROVE  Base'
  <1>1. /\ programa = "pipe" /\ pc[SERVIDOR] = "fork"
        /\ UNCHANGED <<programa, canal, nome, num, pedido, mostrado, voltas>>
    BY DEF Fork, dados
  <1>2. \A p \in Processo : De(p) = {}
    BY <1>1, Nomes DEF Base, PontasCertas, AntesDoFork
  <1>3. aberto = {}
    BY <1>2 DEF De, Base, TypeOK
  <1>4. CASE /\ aberto' = {SERVIDOR, FILHO} \X {"r", "w"} \X {A, B}
             /\ pc' = [pc EXCEPT ![SERVIDOR] = "fecha", ![FILHO] = "fecha"]
    <2>1. /\ DOMAIN pc' = Processo /\ pc'[SERVIDOR] = "fecha" /\ pc'[FILHO] = "fecha"
          /\ \A p \in Processo \ {SERVIDOR, FILHO} : pc'[p] = pc[p]
      BY <1>4, Nomes DEF Base, TypeOK
    <2>2. \A p \in Processo : De(p)' = IF p \in {SERVIDOR, FILHO}
                                       THEN {p} \X {"r", "w"} \X {A, B} ELSE {}
      BY <1>4 DEF De
    <2>3. \A p \in Processo \ {SERVIDOR, FILHO} : PontasCertas(p)'
      BY <1>1, <1>2, <2>1, <2>2, PontasMesmas DEF Base
    <2>4. \A p \in {SERVIDOR, FILHO} : PontasCertas(p)'
      BY <2>1, <2>2, Nomes DEF PontasCertas, Conversa, Conversando, NoSinal, Acabou
    <2>5. aberto' \subseteq Processo \X {"r", "w"} \X Canal
      BY <1>4, Nomes
    <2>6. NomesDistintos'
      BY <1>1 DEF Base, NomesDistintos
    <2>7. pc'[SERVIDOR] \in PcDoServidor' /\ \A c \in Cliente : pc'[c] \in PcDoCliente(c)'
      BY <1>1, <2>1, Nomes DEF Base, TypeOK, PcDoServidor, PcDoCliente
    <2>8. AntesDoFork'
      BY <2>1 DEF AntesDoFork
    <2> QED
      BY <1>1, <2>1, <2>3, <2>4, <2>5, <2>6, <2>7, <2>8 DEF Base, TypeOK
  <1>5. CASE Vai(SERVIDOR, "fim") /\ UNCHANGED aberto
    <2>1. \A p \in Processo : De(p)' = De(p)
      BY <1>5 DEF De
    <2>2. pc' = [pc EXCEPT ![SERVIDOR] = "fim"] /\ pc'[SERVIDOR] = "fim"
      BY <1>5, Nomes DEF Vai, Base, TypeOK
    <2>3. PontasCertas(SERVIDOR)'
      BY <1>2, <2>1, <2>2, SemNada, Nomes DEF Acabou
    <2>4. NomesDistintos'
      BY <1>1, <1>5, MenosPontas DEF Base
    <2>5. "fim" \in PcDoServidor
      BY DEF PcDoServidor, Acabou
    <2> QED
      BY <1>1, <1>5, <2>1, <2>2, <2>3, <2>4, <2>5, UmPasso, Nomes DEF Base, TypeOK
  <1> QED
    BY <1>4, <1>5 DEF Fork

LEMMA FechaBase ==
  ASSUME Base, NEW p \in Processo,
         \/ PaiFecha /\ p = SERVIDOR
         \/ FilhoFecha /\ p = FILHO
  PROVE  Base'
  <1> DEFINE S == {<<p, "w", IF p = SERVIDOR THEN B ELSE A>>,
                   <<p, "r", IF p = SERVIDOR THEN A ELSE B>>}
             para == IF p = SERVIDOR THEN "pergunta" ELSE "lePergunta"
  <1>1. /\ pc[p] = "fecha" /\ Fecha(S) /\ Vai(p, para)
        /\ UNCHANGED <<programa, nome, num, pedido, mostrado, voltas>>
    BY Nomes DEF PaiFecha, FilhoFecha, FechaPontas, dados
  <1>2. aberto' = aberto \ S
    BY <1>1 DEF Fecha
  <1>3. De(p) = {p} \X {"r", "w"} \X {A, B}
    BY <1>1 DEF Base, PontasCertas
  <1>4. \A q \in Processo \ {p} : De(q)' = De(q)
    BY <1>2 DEF De
  <1>5. De(p)' = {<<p, Primeiro(p), B>>, <<p, Outro(Primeiro(p)), A>>}
    <2>1. De(p)' = De(p) \ S
      BY <1>2 DEF De
    <2> QED BY <1>3, <2>1, Nomes DEF Primeiro, Outro
  <1>6. pc' = [pc EXCEPT ![p] = para] /\ pc'[p] = para
    BY <1>1 DEF Vai, Base, TypeOK
  <1>7. PontasCertas(p)'
    BY <1>5, <1>6, Nomes DEF PontasCertas, Conversa, Conversando, NoSinal, Acabou
  <1>8. NomesDistintos'
    BY <1>1, <1>2, MenosPontas DEF Base
  <1>9. /\ para # "fork"
        /\ p = SERVIDOR => para \in PcDoServidor
        /\ p \in Cliente => para \in PcDoCliente(p)
    BY <1>1, Nomes DEF Base, TypeOK, PcDoServidor, PcDoCliente, Conversa, Conversando
  <1>10. TypeOK
    BY DEF Base
  <1> HIDE DEF S, para
  <1> QED
    BY <1>1, <1>4, <1>6, <1>7, <1>8, <1>9, <1>10, UmPasso, FechaEfeito DEF Base, TypeOK

\* p is killed, or interrupted.
LEMMA MorreBase ==
  ASSUME Base, NEW p \in Processo, Mata(p) \/ Sinal(p)
  PROVE  Base'
  <1>1. PICK para \in {"morto", "rm1"} :
        /\ Vivo(p) /\ Fecha(De(p)) /\ Vai(p, para)
        /\ para = "rm1" => programa = "fifo"
        /\ UNCHANGED <<programa, nome, num, pedido, mostrado, voltas>>
    BY DEF Mata, Sinal, dados
  <1>2. De(p)' = {} /\ \A q \in Processo \ {p} : De(q)' = De(q)
    BY <1>1, SoltaTudo DEF Fecha
  <1>3. pc' = [pc EXCEPT ![p] = para] /\ pc'[p] = para
    BY <1>1 DEF Vai, Base, TypeOK
  <1>4. PontasCertas(p)'
    BY <1>1, <1>2, <1>3, SemNada DEF Acabou, NoSinal
  <1>5. NomesDistintos'
    BY <1>1, MenosPontas DEF Base, Fecha
  <1>6. /\ para # "fork" /\ pc[p] # "fora"
        /\ p = SERVIDOR => para \in PcDoServidor
        /\ p \in Cliente => para \in PcDoCliente(p)
    BY <1>1, Nomes DEF Vivo, Base, TypeOK, PcDoServidor, PcDoCliente, Acabou, NoSinal
  <1>7. TypeOK
    BY DEF Base
  <1> QED
    BY <1>1, <1>2, <1>3, <1>4, <1>5, <1>6, <1>7, UmPasso, FechaEfeito DEF Base, TypeOK

LEMMA RemoveBase ==
  ASSUME Base, NEW p \in Processo, NEW x \in Nome, NEW de, NEW para,
         (de = "rm1" /\ para = "rm2") \/ (de = "rm2" /\ para = "fim"),
         Remove(p, x, de, para)
  PROVE  Base'
  <1>1. /\ pc[p] = de /\ nome' = [nome EXCEPT ![x] = 0] /\ Vai(p, para)
        /\ UNCHANGED <<programa, aberto, canal, num, pedido, mostrado, voltas>>
    BY DEF Remove, dados
  <1>2. \A q \in Processo : De(q)' = De(q)
    BY <1>1 DEF De
  <1>3. pc' = [pc EXCEPT ![p] = para] /\ pc'[p] = para
    BY <1>1 DEF Vai, Base, TypeOK
  <1>4. PontasCertas(p)'
    <2>1. De(p) = {}
      BY <1>1 DEF Base, PontasCertas, NoSinal
    <2> QED BY <1>2, <1>3, <2>1, SemNada DEF NoSinal, Acabou
  <1>5. NomesDistintos'
    <2>1. \A y \in aberto : y[3] # 0
      BY Nomes DEF Base, TypeOK
    <2> QED
      BY <1>1, <2>1 DEF Base, TypeOK, NomesDistintos, Nome, Lado, Primeiro
  <1>6. programa = "fifo"
    BY <1>1, Nomes, ConstantesAssumption
       DEF Base, TypeOK, PcDoServidor, PcDoCliente, Conversa, Conversando, Acabou
  <1>7. /\ para # "fork"
        /\ p = SERVIDOR => para \in PcDoServidor
        /\ p \in Cliente => para \in PcDoCliente(p)
    BY <1>6 DEF PcDoServidor, PcDoCliente, Acabou, NoSinal
  <1>8. nome' \in [Nome -> {0} \cup Canal]
    BY <1>1 DEF Base, TypeOK
  <1> QED
    BY <1>1, <1>2, <1>3, <1>4, <1>5, <1>6, <1>7, <1>8, UmPasso DEF Base, TypeOK

LEMMA DigitaBase ==
  ASSUME Base, NEW c \in Cliente, Digita(c)
  PROVE  Base'
  <1>1. PICK m \in {Numero(n) : n \in Numeros} \cup {VAZIO} : pedido' = [pedido EXCEPT ![c] = m]
    BY DEF Digita
  <1>2. m \in Mensagem
    BY ConstantesAssumption DEF Numero, VAZIO, Mensagem
  <1>3. /\ pc[c] = "teclado" /\ Vai(c, "manda")
        /\ UNCHANGED <<programa, aberto, canal, nome, num, mostrado, voltas>>
    BY DEF Digita, canais
  <1>4. \A q \in Processo : De(q)' = De(q)
    BY <1>3 DEF De
  <1>5. pc' = [pc EXCEPT ![c] = "manda"] /\ pc'[c] = "manda"
    BY <1>3, Nomes DEF Vai, Base, TypeOK
  <1>6. PontasCertas(c)'
    BY <1>3, <1>4, <1>5, Nomes
       DEF Base, PontasCertas, Conversa, Conversando, NoSinal, Acabou
  <1>7. NomesDistintos'
    BY <1>3, MenosPontas DEF Base
  <1>8. "manda" \in PcDoCliente(c) /\ c # SERVIDOR /\ c \in Processo
    BY <1>3, Nomes DEF Base, TypeOK, PcDoCliente, Conversando
  <1>9. pedido' \in [Cliente -> Mensagem]
    BY <1>1, <1>2 DEF Base, TypeOK
  <1> QED
    BY <1>3, <1>4, <1>5, <1>6, <1>7, <1>8, <1>9, UmPasso DEF Base, TypeOK

LEMMA Iniciados == Cardinality({c \in Cliente : pc[c] # "fora"}) \in Nat
  <1>1. 1 \in Int /\ Inicios \in Int
    BY ConstantesAssumption
  <1>2. IsFiniteSet(Cliente)
    BY <1>1, FS_Interval DEF Cliente
  <1> QED
    BY <1>2, FS_Subset, FS_CardinalityType

LEMMA ComecaBase ==
  ASSUME Base, NEW p \in Processo,
         \/ p \in Cliente /\ Comeca(p)
         \/ p = SERVIDOR /\ Recomeca
  PROVE  Base'
  <1>1. /\ programa = "fifo" /\ pc[p] \in {"fora"} \cup Acabou /\ Vai(p, "cria1")
        /\ UNCHANGED <<programa, aberto, canal, nome, pedido, mostrado>>
        /\ num' \in {num, 0}
    BY DEF Comeca, Recomeca, PodeIniciar, canais, dados
  <1>2. \A q \in Processo : De(q)' = De(q)
    BY <1>1 DEF De
  <1>3. pc' = [pc EXCEPT ![p] = "cria1"] /\ pc'[p] = "cria1"
    BY <1>1 DEF Vai, Base, TypeOK
  <1>4. PontasCertas(p)'
    <2>1. De(p) = {}
      BY <1>1 DEF Base, PontasCertas
    <2> QED BY <1>2, <1>3, <2>1, SemNada
  <1>5. NomesDistintos'
    BY <1>1, MenosPontas DEF Base
  <1>6. /\ p = SERVIDOR => "cria1" \in PcDoServidor
        /\ p \in Cliente => "cria1" \in PcDoCliente(p)
    BY <1>1 DEF PcDoServidor, PcDoCliente, Abrindo
  <1>7. voltas' \in 0..Inicios
    <2>1. voltas < Inicios
      BY Iniciados, ConstantesAssumption DEF Comeca, Recomeca, PodeIniciar, Base, TypeOK
    <2> QED
      BY <2>1, ConstantesAssumption DEF Comeca, Recomeca, Base, TypeOK
  <1>8. num' \in Nat
    BY <1>1 DEF Base, TypeOK
  <1> QED
    BY <1>1, <1>2, <1>3, <1>4, <1>5, <1>6, <1>7, <1>8, UmPasso DEF Base, TypeOK

LEMMA LidoTipo ==
  ASSUME TypeOK, NEW f \in Canal
  PROVE  Lido(f) \in Mensagem
  <1>1. VAZIO \in Mensagem
    BY DEF VAZIO, Mensagem
  <1>2. canal[f] \in Seq(Mensagem)
    BY DEF TypeOK
  <1>3. canal[f] # <<>> => Head(canal[f]) \in Mensagem
    BY <1>2
  <1> QED BY <1>1, <1>3 DEF Lido

LEMMA ServidorBase ==
  ASSUME Base, Servidor
  PROVE  Base'
  <1> USE Nomes
  <1>1. /\ PERGUNTA \in Mensagem /\ Raiz(num) \in Mensagem
        /\ {"pergunta", "le", "responde"} \subseteq Conversam
        /\ {"pergunta", "le", "responde"} \subseteq Conversa
        /\ "server1" \in Nome /\ "server2" \in Nome
    BY DEF Base, TypeOK, PERGUNTA, Raiz, Mensagem, Conversam, Conversa, Nome
  <1>2. CASE PaiPergunta \/ ServidorPergunta \/ PaiResponde \/ ServidorResponde
    <2>1. /\ \/ Envia(SERVIDOR, "pergunta", PERGUNTA, "le")
             \/ Envia(SERVIDOR, "responde", Raiz(num), "pergunta")
          /\ UNCHANGED <<num, pedido, mostrado>>
      BY <1>2 DEF PaiPergunta, ServidorPergunta, PaiResponde, ServidorResponde, dados
    <2>2. num' \in Nat /\ pedido' \in [Cliente -> Mensagem] /\ mostrado' \in [Cliente -> Mensagem]
      BY <2>1 DEF Base, TypeOK
    <2> QED BY <1>1, <2>1, <2>2, EnviaBase
  <1>3. CASE PaiLe \/ ServidorLe
    <2>1. /\ Recebe(SERVIDOR, "le", "responde")
          /\ num' = Lido(Ponta(SERVIDOR, "r")).n
          /\ UNCHANGED <<pedido, mostrado>>
      BY <1>3 DEF PaiLe, ServidorLe
    <2>2. pc[SERVIDOR] = "le"
      BY <2>1 DEF Recebe
    <2>3. Ponta(SERVIDOR, "r") \in Canal
      BY <2>2, PontaTem DEF Conversa
    <2>4. Lido(Ponta(SERVIDOR, "r")) \in Mensagem
      BY <2>3, LidoTipo DEF Base
    <2>5. num' \in Nat
      BY <2>1, <2>4 DEF Mensagem
    <2>6. pedido' \in [Cliente -> Mensagem] /\ mostrado' \in [Cliente -> Mensagem]
      BY <2>1 DEF Base, TypeOK
    <2> QED BY <1>1, <2>1, <2>5, <2>6, RecebeBase
  <1>4. CASE ServidorCria
    BY <1>1, <1>4, mkfifoBase DEF ServidorCria
  <1>5. CASE ServidorAbre
    <2>1. /\ Abertura(SERVIDOR, "server1", "r", "abre1", "espera1", "cria2")
          /\ Abertura(SERVIDOR, "server2", "w", "abre2", "espera2", "pergunta")
      BY DEF Abertura, Primeiro, Outro
    <2> QED BY <1>5, <2>1, openBase DEF ServidorAbre
  <1>6. CASE ServidorRemove
    BY <1>1, <1>6, RemoveBase DEF ServidorRemove
  <1> QED
    BY <1>2, <1>3, <1>4, <1>5, <1>6, ForkBase, FechaBase DEF Servidor

LEMMA ClienteBase ==
  ASSUME Base, NEW c \in Cliente, UmCliente(c)
  PROVE  Base'
  <1>0. c \in Processo /\ c # SERVIDOR /\ FILHO \in Processo /\ FILHO # SERVIDOR
    BY Nomes
  <1>1. /\ pedido[c] \in Mensagem
        /\ Conversando \subseteq Conversam
        /\ Conversando = {"lePergunta", "teclado", "manda", "leResposta"}
        /\ "server1" \in Nome /\ "server2" \in Nome
    BY DEF Base, TypeOK, Conversam, Conversando, Nome
  <1>2. CASE (FilhoManda /\ c = FILHO) \/ ClienteManda(c)
    <2>1. Envia(c, "manda", pedido[c], "leResposta") /\ UNCHANGED <<num, pedido, mostrado>>
      BY <1>2 DEF FilhoManda, ClienteManda, dados
    <2>2. num' \in Nat /\ pedido' \in [Cliente -> Mensagem] /\ mostrado' \in [Cliente -> Mensagem]
      BY <2>1 DEF Base, TypeOK
    <2> QED BY <1>0, <1>1, <2>1, <2>2, EnviaBase
  <1>3. CASE (FilhoOuve /\ c = FILHO) \/ ClienteOuve(c)
    <2>1. Recebe(c, "lePergunta", "teclado") /\ UNCHANGED <<num, pedido, mostrado>>
      BY <1>3 DEF FilhoOuve, ClienteOuve, dados
    <2>2. num' \in Nat /\ pedido' \in [Cliente -> Mensagem] /\ mostrado' \in [Cliente -> Mensagem]
      BY <2>1 DEF Base, TypeOK
    <2> QED BY <1>0, <1>1, <2>1, <2>2, RecebeBase
  <1>4. CASE (FilhoMostra /\ c = FILHO) \/ ClienteMostra(c)
    <2>1. /\ Recebe(c, "leResposta", "lePergunta")
          /\ mostrado' = [mostrado EXCEPT ![c] = Lido(Ponta(c, "r"))]
          /\ UNCHANGED <<num, pedido>>
      BY <1>4 DEF FilhoMostra, ClienteMostra
    <2>2. pc[c] = "leResposta"
      BY <2>1 DEF Recebe
    <2>3. Ponta(c, "r") \in Canal
      BY <1>0, <2>2, PontaTem DEF Conversando
    <2>4. Lido(Ponta(c, "r")) \in Mensagem
      BY <2>3, LidoTipo DEF Base
    <2>5. num' \in Nat /\ pedido' \in [Cliente -> Mensagem] /\ mostrado' \in [Cliente -> Mensagem]
      BY <2>1, <2>4 DEF Base, TypeOK
    <2> QED BY <1>0, <1>1, <2>1, <2>5, RecebeBase
  <1>5. CASE ClienteCria(c)
    BY <1>0, <1>1, <1>5, mkfifoBase DEF ClienteCria
  <1>6. CASE ClienteAbre(c)
    <2>1. /\ Abertura(c, "server1", "w", "abre1", "espera1", "cria2")
          /\ Abertura(c, "server2", "r", "abre2", "espera2", "lePergunta")
      BY <1>0 DEF Abertura, Primeiro, Outro
    <2> QED BY <1>0, <1>6, <2>1, openBase DEF ClienteAbre
  <1>7. CASE ClienteRemove(c)
    BY <1>0, <1>1, <1>7, RemoveBase DEF ClienteRemove
  <1>8. CASE FilhoFecha
    BY <1>0, <1>8, FechaBase
  <1> QED
    BY <1>2, <1>3, <1>4, <1>5, <1>6, <1>7, <1>8 DEF UmCliente

LEMMA BasePasso ==
  ASSUME Base, [Next]_vars
  PROVE  Base'
  <1>1. CASE UNCHANGED vars
    <2>1. \A p \in Processo : De(p)' = De(p)
      BY <1>1 DEF vars, canais, De
    <2> QED
      BY <1>1, <2>1
         DEF vars, canais, dados, Base, TypeOK, PcDoServidor, PcDoCliente, PontasCertas,
             NomesDistintos, Lado, Primeiro, AntesDoFork
  <1> QED
    BY <1>1, ServidorBase, ClienteBase, DigitaBase, ComecaBase, MorreBase, Nomes DEF Next

LEMMA BaseInit ==
  ASSUME Init
  PROVE  Base
  <1>1. \A p \in Processo : De(p) = {}
    BY DEF Init, De
  <1>2. /\ DOMAIN pc = Processo
        /\ pc[SERVIDOR] = (IF programa = "pipe" THEN "fork" ELSE "cria1")
        /\ \A c \in Cliente : pc[c] = "fora"
    BY Nomes DEF Init
  <1>3. \A p \in Processo : PontasCertas(p)
    BY <1>1, <1>2, Nomes DEF PontasCertas, Conversa, Conversando
  <1>4. nome \in [Nome -> {0} \cup Canal] /\ NomesDistintos
    <2>1. 1 \in Canal /\ 2 \in Canal
      BY Nomes, ConstantesAssumption
    <2>2. CASE programa = "pipe"
      BY <2>2 DEF Init, Nome, NomesDistintos
    <2>3. CASE programa # "pipe"
      <3>1. nome \in [Nome -> 0..2] /\ nome["server1"] \in {0, 1} /\ nome["server2"] \in {0, 2}
        BY <2>3 DEF Init
      <3> QED
        BY <2>1, <3>1 DEF Init, Nome, NomesDistintos
    <2> QED BY <2>2, <2>3
  <1>5. canal \in [Canal -> Seq(Mensagem)]
    BY DEF Init
  <1>6. pedido \in [Cliente -> Mensagem] /\ mostrado \in [Cliente -> Mensagem]
    BY DEF Init, VAZIO, NADA, Mensagem
  <1>7. pc[SERVIDOR] \in PcDoServidor /\ \A c \in Cliente : pc[c] \in PcDoCliente(c)
    BY <1>2 DEF PcDoServidor, PcDoCliente
  <1>8. /\ programa \in Programas /\ aberto \subseteq Processo \X {"r", "w"} \X Canal
        /\ num \in Nat /\ voltas \in 0..Inicios
    BY ConstantesAssumption DEF Init
  <1> QED
    BY <1>2, <1>3, <1>4, <1>5, <1>6, <1>7, <1>8 DEF Base, TypeOK, AntesDoFork

-----------------------------------------------------------------------------
(* The server and its only client *)

\* The statements at which the steps of client c begin.
LEMMA ClienteDentro ==
  ASSUME NEW c \in Cliente, UmCliente(c) \/ Digita(c) \/ Mata(c) \/ Sinal(c)
  PROVE  pc[c] # "fora"
  BY DEF UmCliente, FilhoFecha, FechaPontas, FilhoOuve, FilhoManda, FilhoMostra, ClienteCria,
         ClienteAbre, ClienteOuve, ClienteManda, ClienteMostra, ClienteRemove, Envia, Recebe,
         mkfifo, open, Remove, Digita, Mata, Sinal, Vivo

\* Nobody goes back to where he was before he was started.
LEMMA UmaVez ==
  ASSUME Base, NEW p \in Processo, NEW d \in Processo, d # SERVIDOR, pc'[d] = "fora",
         NEW para, para # "fora", Vai(p, para)
  PROVE  d # p /\ pc[d] = "fora"
  BY DEF Vai, Base, TypeOK

LEMMA AbreUmaVez ==
  ASSUME Base, NEW p \in Processo, NEW d \in Processo, pc'[d] = "fora",
         NEW x, NEW modo, NEW de, NEW espera, NEW para,
         espera # "fora", para # "fora", open(p, x, modo, de, espera, para)
  PROVE  pc[d] = "fora"
  <1>1. CASE nome[x] = 0
    BY <1>1 DEF open, Vai, Base, TypeOK
  <1>2. CASE nome[x] # 0
    BY <1>2 DEF open
  <1> QED BY <1>1, <1>2

LEMMA ForaAntes ==
  ASSUME Base, [Next]_vars, NEW d \in Cliente, pc'[d] = "fora"
  PROVE  pc[d] = "fora"
  <1> USE Nomes
  <1>1. d \in Processo /\ d # SERVIDOR
    OBVIOUS
  <1>2. ASSUME NEW p \in Processo, NEW de, NEW m, NEW para, Envia(p, de, m, para), para # "fora"
        PROVE  pc[d] = "fora"
    BY <1>1, <1>2, UmaVez DEF Envia
  <1>3. ASSUME NEW p \in Processo, NEW de, NEW para, Recebe(p, de, para), para # "fora"
        PROVE  pc[d] = "fora"
    BY <1>1, <1>3, UmaVez DEF Recebe
  <1>4. ASSUME NEW p \in Processo, NEW x, NEW de, NEW para, mkfifo(p, x, de, para), para # "fora"
        PROVE  pc[d] = "fora"
    BY <1>1, <1>4, UmaVez DEF mkfifo
  <1>5. ASSUME NEW p \in Processo, NEW x, NEW de, NEW para, Remove(p, x, de, para), para # "fora"
        PROVE  pc[d] = "fora"
    BY <1>1, <1>5, UmaVez DEF Remove
  <1>6. ASSUME Servidor PROVE pc[d] = "fora"
    <2>1. CASE Fork
      BY <1>1, <2>1, UmaVez DEF Fork, Base, TypeOK
    <2>2. CASE PaiFecha
      BY <1>1, <2>2, UmaVez DEF PaiFecha
    <2>3. CASE PaiPergunta \/ PaiResponde \/ ServidorPergunta \/ ServidorResponde
      BY <1>2, <2>3 DEF PaiPergunta, PaiResponde, ServidorPergunta, ServidorResponde
    <2>4. CASE PaiLe \/ ServidorLe
      BY <1>3, <2>4 DEF PaiLe, ServidorLe
    <2>5. CASE ServidorCria \/ ServidorRemove
      BY <1>4, <1>5, <2>5 DEF ServidorCria, ServidorRemove
    <2>6. CASE ServidorAbre
      BY <1>1, <2>6, AbreUmaVez DEF ServidorAbre
    <2> QED BY <1>6, <2>1, <2>2, <2>3, <2>4, <2>5, <2>6 DEF Servidor
  <1>7. ASSUME NEW c \in Cliente, UmCliente(c) PROVE pc[d] = "fora"
    <2>1. c \in Processo
      OBVIOUS
    <2>2. CASE FilhoFecha
      BY <1>1, <2>2, UmaVez DEF FilhoFecha
    <2>3. CASE FilhoManda \/ ClienteManda(c)
      BY <1>2, <2>1, <2>3 DEF FilhoManda, ClienteManda
    <2>4. CASE FilhoOuve \/ ClienteOuve(c)
      BY <1>3, <2>1, <2>4 DEF FilhoOuve, ClienteOuve
    <2>5. CASE FilhoMostra \/ ClienteMostra(c)
      BY <1>3, <2>1, <2>5 DEF FilhoMostra, ClienteMostra
    <2>6. CASE ClienteCria(c) \/ ClienteRemove(c)
      BY <1>4, <1>5, <2>1, <2>6 DEF ClienteCria, ClienteRemove
    <2>7. CASE ClienteAbre(c)
      BY <1>1, <2>1, <2>7, AbreUmaVez DEF ClienteAbre
    <2> QED BY <1>7, <2>2, <2>3, <2>4, <2>5, <2>6, <2>7 DEF UmCliente
  <1>8. ASSUME NEW p \in Processo, Mata(p) \/ Sinal(p) PROVE pc[d] = "fora"
    BY <1>1, <1>8, UmaVez DEF Mata, Sinal
  <1>9. ASSUME NEW c \in Cliente, Digita(c) \/ Comeca(c) PROVE pc[d] = "fora"
    BY <1>1, <1>9, UmaVez DEF Digita, Comeca
  <1>10. ASSUME Recomeca PROVE pc[d] = "fora"
    BY <1>1, <1>10, UmaVez DEF Recomeca
  <1>11. ASSUME UNCHANGED vars PROVE pc[d] = "fora"
    BY <1>11 DEF vars
  <1> QED
    BY <1>6, <1>7, <1>8, <1>9, <1>10, <1>11 DEF Next

LEMMA VoltasAntes ==
  ASSUME Base, [Next]_vars, voltas' = 0
  PROVE  voltas = 0 /\ ~Recomeca
  <1> USE Nomes, ConstantesAssumption DEF Base, TypeOK
  <1>1. CASE Recomeca
    BY <1>1 DEF Recomeca
  <1>2. ASSUME ~Recomeca PROVE UNCHANGED voltas
    BY <1>2
       DEF Next, Servidor, UmCliente, Fork, PaiFecha, FechaPontas, PaiPergunta, PaiLe,
           PaiResponde, ServidorCria, ServidorAbre, ServidorPergunta, ServidorLe,
           ServidorResponde, ServidorRemove, FilhoFecha, FilhoOuve, FilhoManda, FilhoMostra,
           ClienteCria, ClienteAbre, ClienteOuve, ClienteManda, ClienteMostra, ClienteRemove,
           Envia, Recebe, mkfifo, open, Remove, Digita, Comeca, Mata, Sinal, vars
  <1> QED BY <1>1, <1>2

\* The steps that can be taken while c is the only client.
LEMMA Atores ==
  ASSUME Base, [Next]_vars, NEW c \in Cliente, SoDe(c)'
  PROVE  /\ SoDe(c)
         /\ \/ Servidor \/ Mata(SERVIDOR) \/ Sinal(SERVIDOR)
            \/ UmCliente(c) \/ Digita(c) \/ Comeca(c) \/ Mata(c) \/ Sinal(c)
            \/ UNCHANGED vars
  <1>1. voltas = 0 /\ ~Recomeca
    BY VoltasAntes DEF SoDe
  <1>2. \A d \in Cliente \ {c} : pc[d] = "fora" /\ pc'[d] = "fora"
    BY ForaAntes DEF SoDe
  <1>3. \A d \in Cliente \ {c} : ~UmCliente(d) /\ ~Digita(d) /\ ~Mata(d) /\ ~Sinal(d)
    BY <1>2, ClienteDentro
  <1>4. \A d \in Cliente \ {c} : ~Comeca(d)
    <2> SUFFICES ASSUME NEW d \in Cliente \ {c}, Comeca(d) PROVE FALSE
      OBVIOUS
    <2>1. pc'[d] = "cria1"
      BY Nomes DEF Comeca, Vai, Base, TypeOK
    <2> QED BY <1>2, <2>1
  <1> QED
    BY <1>1, <1>2, <1>3, <1>4, Nomes DEF Next, SoDe

Par(c) == NomesCertos(c) /\ AberturaCerta(c) /\ ConversaCerta(c) /\ RespostaDe(c)

\* Where the server can be, and where its client.
LEMMA Lugares ==
  ASSUME Base, NEW c \in Cliente
  PROVE  /\ pc[SERVIDOR] \in {"fork", "fecha", "cria1", "abre1", "espera1", "cria2", "abre2",
                              "espera2", "pergunta", "le", "responde", "rm1", "rm2", "fim",
                              "morto"}
         /\ pc[c] \in {"fora", "fecha", "cria1", "abre1", "espera1", "cria2", "abre2",
                       "espera2", "lePergunta", "teclado", "manda", "leResposta", "rm1",
                       "rm2", "fim", "morto"}
         /\ programa = "pipe" =>
              /\ pc[SERVIDOR] \in {"fork", "fecha", "pergunta", "le", "responde", "fim", "morto"}
              /\ pc[c] \in {"fora", "fecha", "lePergunta", "teclado", "manda", "leResposta",
                            "morto"}
              /\ c # FILHO => pc[c] = "fora"
         /\ programa # "pipe" => pc[SERVIDOR] \notin {"fork", "fecha"} /\ pc[c] # "fecha"
         /\ programa \in {"pipe", "fifo"}
  BY ConstantesAssumption
     DEF Base, TypeOK, PcDoServidor, PcDoCliente, Conversa, Conversando, Abrindo, NoSinal, Acabou

LEMMA ForaDoPar ==
  ASSUME NEW c \in Cliente, pc'[c] \in NoSinal \cup Acabou
  PROVE  Par(c)'
  BY DEF Par, NomesCertos, AberturaCerta, ConversaCerta, RespostaDe, NoSinal, Acabou, Abrindo,
         Conversando

LEMMA SoOsDois ==
  ASSUME Base, NEW c \in Cliente, SoDe(c)
  PROVE  /\ \A x \in aberto : x \in De(SERVIDOR) \/ x \in De(c)
         /\ \A x \in De(SERVIDOR) : x[1] = SERVIDOR
         /\ \A x \in De(c) : x[1] = c
  <1>1. \A d \in Cliente \ {c} : De(d) = {}
    BY Nomes DEF SoDe, Base, PontasCertas
  <1>2. \A x \in aberto : x[1] \in Processo /\ x \in De(x[1])
    BY DEF Base, TypeOK, De
  <1> QED
    BY <1>1, <1>2, Nomes DEF De

\* What the conversation of c with the server goes over.
LinhaDireta(c, f, g) ==
  /\ f # g
  /\ programa = "pipe" => f = B /\ g = A
  /\ <<c, "w", f>> \in aberto /\ <<c, "r", g>> \in aberto
  /\ Vivo(SERVIDOR) => /\ <<SERVIDOR, "r", f>> \in aberto
                       /\ <<SERVIDOR, "w", g>> \in aberto
                       /\ EmDia(c, canal[f], canal[g])
  /\ ~Vivo(SERVIDOR) => Resto(c, canal[g])

LEMMA LinhaDe ==
  ASSUME Base, NEW c \in Cliente, SoDe(c), Par(c), pc[c] \in {"fecha"} \cup Conversando
  PROVE  \E f \in Canal, g \in Canal : LinhaDireta(c, f, g)
  BY DEF Par, ConversaCerta, LinhaDireta

LEMMA Pontas ==
  ASSUME Base, NEW c \in Cliente, SoDe(c), NEW f \in Canal, NEW g \in Canal, LinhaDireta(c, f, g)
  PROVE  /\ pc[c] \in Conversando => Ponta(c, "w") = f /\ Ponta(c, "r") = g
         /\ Vivo(SERVIDOR) /\ pc[SERVIDOR] \in Conversa =>
              Ponta(SERVIDOR, "r") = f /\ Ponta(SERVIDOR, "w") = g
         /\ c \in Escritores(f) /\ c \in Leitores(g)
         /\ Vivo(SERVIDOR) => SERVIDOR \in Leitores(f) /\ SERVIDOR \in Escritores(g)
         /\ ~Vivo(SERVIDOR) /\ pc[c] \in Conversando => Leitores(f) = {}
  <1>1. pc[c] \in Conversando => Ponta(c, "w") = f /\ Ponta(c, "r") = g
    BY PontaTem, Nomes DEF LinhaDireta
  <1>2. Vivo(SERVIDOR) /\ pc[SERVIDOR] \in Conversa =>
          Ponta(SERVIDOR, "r") = f /\ Ponta(SERVIDOR, "w") = g
    BY PontaTem, Nomes DEF LinhaDireta
  <1>3. /\ c \in Escritores(f) /\ c \in Leitores(g)
        /\ Vivo(SERVIDOR) => SERVIDOR \in Leitores(f) /\ SERVIDOR \in Escritores(g)
    BY Nomes DEF LinhaDireta, Escritores, Leitores
  <1>4. ASSUME ~Vivo(SERVIDOR), pc[c] \in Conversando PROVE Leitores(f) = {}
    <2>1. De(SERVIDOR) = {}
      BY <1>4, Lugares, Nomes DEF Vivo, Base, PontasCertas
    <2>2. \A x \in aberto : x \in De(c) /\ x[1] = c
      BY <2>1, SoOsDois
    <2>3. <<c, "r", f>> \notin aberto
      BY <1>1, <1>4, PontaTem, Nomes DEF LinhaDireta
    <2> QED
      BY <2>2, <2>3 DEF Leitores
  <1> QED BY <1>1, <1>2, <1>3, <1>4

-----------------------------------------------------------------------------
(* The end of the server *)

\* The client keeps its ends and what is on its way to it.
LEMMA ServidorSai ==
  ASSUME Base, NEW c \in Cliente, SoDe(c), Par(c), NEW para \in {"fim", "morto", "rm1"},
         Vivo(SERVIDOR), Fecha(De(SERVIDOR)), Vai(SERVIDOR, para),
         UNCHANGED <<programa, nome, num, pedido, mostrado>>
  PROVE  Par(c)'
  <1>2. pc'[c] = pc[c] /\ pc'[SERVIDOR] = para
    BY Nomes DEF Vai, Base, TypeOK
  <1>3. ~Vivo(SERVIDOR)'
    BY <1>2 DEF Vivo, Acabou, NoSinal
  <1>4. NomesCertos(c)' /\ RespostaDe(c)'
    BY <1>2, <1>3 DEF Par, NomesCertos, RespostaDe
  <1>5. AberturaCerta(c)'
    BY <1>2, <1>3, FechaEfeito DEF Base, Par, AberturaCerta
  <1>6. ConversaCerta(c)'
    <2> SUFFICES ASSUME pc[c] \in {"fecha"} \cup Conversando PROVE ConversaCerta(c)'
      BY <1>2 DEF ConversaCerta
    <2>1. PICK f \in Canal, g \in Canal : LinhaDireta(c, f, g)
      BY LinhaDe
    <2>2. <<c, "w", f>> \in aberto' /\ <<c, "r", g>> \in aberto'
      BY <2>1, Nomes DEF Fecha, De, LinhaDireta
    <2>3. canal'[g] = canal[g]
      <3>1. <<c, "r", g>>[3] = g
        OBVIOUS
      <3> QED BY <2>2, <3>1, FechaEfeito DEF Base
    <2>4. Resto(c, canal[g])
      BY <2>1 DEF LinhaDireta, EmDia, Resto
    <2>5. Resto(c, canal[g])'
      BY <1>2, <2>3, <2>4 DEF Resto
    <2> QED
      BY <1>3, <2>1, <2>2, <2>5 DEF ConversaCerta, LinhaDireta
  <1> QED BY <1>4, <1>5, <1>6 DEF Par

LEMMA MorteDoServidor ==
  ASSUME Base, NEW c \in Cliente, SoDe(c), Par(c), Mata(SERVIDOR) \/ Sinal(SERVIDOR)
  PROVE  Par(c)'
  BY ServidorSai DEF Mata, Sinal, dados

LEMMA NomesDoServidor ==
  ASSUME Base, NEW c \in Cliente, SoDe(c), Par(c), ServidorRemove
  PROVE  Par(c)'
  <1>1. /\ UNCHANGED <<programa, aberto, canal, num, pedido, mostrado>>
        /\ pc[SERVIDOR] \in {"rm1", "rm2"} /\ pc'[SERVIDOR] \in {"rm2", "fim"}
        /\ pc'[c] = pc[c]
    BY Nomes DEF ServidorRemove, Remove, dados, Vai, Base, TypeOK
  <1>2. ~Vivo(SERVIDOR) /\ ~Vivo(SERVIDOR)'
    BY <1>1 DEF Vivo, Acabou, NoSinal
  <1> QED
    BY <1>1, <1>2 DEF Par, NomesCertos, AberturaCerta, ConversaCerta, RespostaDe, Resto

-----------------------------------------------------------------------------
(* The names and the opening *)

\* While the server makes and opens its fifos no conversation goes on.
LEMMA AindaNao ==
  ASSUME Base, NEW c \in Cliente, SoDe(c), Par(c),
         pc[SERVIDOR] \in {"fork", "cria1", "abre1", "espera1", "cria2", "abre2", "espera2"},
         pc[c] \notin NoSinal \cup Acabou
  PROVE  pc[c] \in {"fora"} \cup Abrindo
  <1>1. Vivo(SERVIDOR)
    BY DEF Vivo, NoSinal, Acabou
  <1>2. ~(pc[c] \in {"fecha"} \cup Conversando)
    BY <1>1, LinhaDe DEF LinhaDireta, EmDia
  <1> QED
    BY <1>2, Lugares DEF Conversando, Abrindo, NoSinal, Acabou

LEMMA mkfifoPar ==
  ASSUME Base, NEW c \in Cliente, SoDe(c), Par(c), NEW p \in {SERVIDOR, c}, NEW x \in Nome,
         NEW de, NEW para,
         (de = "cria1" /\ para = "abre1") \/ (de = "cria2" /\ para = "abre2"),
         mkfifo(p, x, de, para)
  PROVE  Par(c)'
  <1>1. /\ pc[p] = de /\ UNCHANGED <<programa, aberto, canal, num, pedido, mostrado, voltas>>
        /\ nome' = IF nome[x] # 0 THEN nome ELSE [nome EXCEPT ![x] = Menor(Livres)]
        /\ pc' = [pc EXCEPT ![p] = para]
    BY DEF mkfifo, dados, Vai
  <1>2. DOMAIN pc = Processo /\ p \in Processo /\ c \in Processo /\ c # SERVIDOR
    BY Nomes DEF Base, TypeOK
  <1>3. CASE pc'[c] \in NoSinal \cup Acabou
    BY <1>3, ForaDoPar
  <1>4. CASE pc'[c] \notin NoSinal \cup Acabou
    <2>1. pc[c] \notin NoSinal \cup Acabou
      BY <1>1, <1>2, <1>4 DEF NoSinal, Acabou
    <2>2. pc[c] \in {"fora"} \cup Abrindo
      BY <1>1, <2>1, AindaNao DEF Abrindo
    <2>3. pc'[c] \in {"fora"} \cup Abrindo /\ pc'[c] \notin {"fecha"} \cup Conversando
          /\ pc'[c] \notin {"fecha", "lePergunta", "teclado"}
      BY <1>1, <1>2, <2>2 DEF Abrindo, Conversando
    <2>4. Vivo(SERVIDOR)' => Vivo(SERVIDOR)
      BY <1>1, <1>2 DEF Vivo, NoSinal, Acabou
    <2>5. AberturaCerta(c)'
      BY <1>1, <1>2, <2>2, <2>4 DEF Par, AberturaCerta, Abrindo
    <2>6. NomesCertos(c)'
      <3> SUFFICES ASSUME Vivo(SERVIDOR), programa = "fifo", NEW y \in aberto
                   PROVE  y[3] = nome'[Lado(y[1], y[2])]
        BY <1>1, <2>4 DEF NomesCertos, Lado, Primeiro
      <3>1. y[3] = nome[Lado(y[1], y[2])]
        BY <2>1 DEF Par, NomesCertos
      <3>2. y[3] # 0
        BY Nomes DEF Base, TypeOK
      <3> QED
        BY <1>1, <3>1, <3>2 DEF Base, TypeOK
    <2> QED
      BY <2>3, <2>5, <2>6 DEF Par, ConversaCerta, RespostaDe
  <1> QED BY <1>3, <1>4

\* What open does to the two, when the name is there.
LEMMA AbreOsDois ==
  ASSUME Base, NEW c \in Cliente, SoDe(c), NEW p \in {SERVIDOR, c},
         NEW x, NEW modo, NEW de, NEW espera, NEW para,
         Abertura(p, x, modo, de, espera, para), open(p, x, modo, de, espera, para),
         nome[x] # 0
  PROVE  LET o == IF p = c THEN SERVIDOR ELSE c
             esta == <<o, Outro(modo), nome[x]>> \in aberto
         IN /\ pc'[p] = IF esta THEN para ELSE espera
            /\ pc'[o] = IF esta /\ pc[o] = "espera1" /\ x = "server1" THEN "cria2"
                        ELSE IF esta /\ pc[o] = "espera2" /\ x = "server2"
                             THEN IF o = SERVIDOR THEN "pergunta" ELSE "lePergunta"
                        ELSE pc[o]
            /\ aberto' = aberto \cup {<<p, modo, nome[x]>>}
            /\ UNCHANGED <<programa, canal, nome, num, pedido, mostrado>>
            /\ pc[p] = de /\ programa = "fifo"
            /\ x = Lado(p, modo) /\ x = Lado(o, Outro(modo))
  <1> DEFINE o == IF p = c THEN SERVIDOR ELSE c
             f == nome[x]
             esta == <<o, Outro(modo), f>> \in aberto
             par == {q \in Processo : <<q, Outro(modo), f>> \in aberto}
  <1>1. p \in Processo /\ o \in Processo /\ o # p /\ {p, o} = {SERVIDOR, c} /\ c # SERVIDOR
    BY Nomes
  <1>2. pc[p] = de /\ de \in {"abre1", "abre2"}
    BY DEF open, Abertura
  <1>3. programa = "fifo"
    BY <1>2, Lugares
  <1>4. x = Lado(p, modo) /\ x = Lado(o, Outro(modo)) /\ x \in Nome
    BY <1>1 DEF Abertura, Lado, Primeiro, Outro, Nome
  <1>5. <<p, Outro(modo), f>> \notin aberto
    <2> SUFFICES ASSUME <<p, Outro(modo), f>> \in aberto PROVE FALSE
      OBVIOUS
    <2>1. Lado(p, Outro(modo)) # x
      BY DEF Abertura, Lado, Primeiro, Outro
    <2>2. <<p, Outro(modo), f>>[3] = f /\ <<p, Outro(modo), f>>[1] = p
          /\ <<p, Outro(modo), f>>[2] = Outro(modo)
      OBVIOUS
    <2> QED
      BY <1>3, <1>4, <2>1, <2>2 DEF Base, NomesDistintos
  <1>6. par = IF esta THEN {o} ELSE {}
    <2>1. \A q \in par : q = p \/ q = o
      <3> SUFFICES ASSUME NEW q \in par PROVE q = p \/ q = o
        OBVIOUS
      <3>1. <<q, Outro(modo), f>> \in aberto /\ <<q, Outro(modo), f>>[1] = q
        OBVIOUS
      <3> QED BY <1>1, <3>1, SoOsDois
    <2> QED BY <1>1, <1>5, <2>1
  <1>7. /\ pc' = [q \in Processo |->
                    IF q = p THEN IF par = {} THEN espera ELSE para
                    ELSE IF q \in par /\ pc[q] = "espera1" /\ x = "server1" THEN "cria2"
                    ELSE IF q \in par /\ pc[q] = "espera2" /\ x = "server2"
                         THEN IF q = SERVIDOR THEN "pergunta" ELSE "lePergunta"
                    ELSE pc[q]]
        /\ aberto' = aberto \cup {<<p, modo, f>>} /\ UNCHANGED canal
        /\ UNCHANGED <<programa, nome, num, pedido, mostrado>>
    BY DEF open, dados
  <1> HIDE DEF par
  <1> QED
    BY <1>1, <1>2, <1>3, <1>4, <1>6, <1>7

\* Either the one that opens finds the other waiting and both go on, or it
\* waits itself; after the second name the conversation begins.
LEMMA AbrePar ==
  ASSUME Base, NEW c \in Cliente, SoDe(c), Par(c), NEW p \in {SERVIDOR, c},
         NEW x, NEW modo, NEW de, NEW espera, NEW para,
         Abertura(p, x, modo, de, espera, para), open(p, x, modo, de, espera, para)
  PROVE  Par(c)'
  <1> DEFINE o == IF p = c THEN SERVIDOR ELSE c
             esta == <<o, Outro(modo), nome[x]>> \in aberto
  <1>0. /\ p \in Processo /\ o \in Processo /\ c \in Processo /\ c # SERVIDOR
        /\ pc[p] = de /\ de \in {"abre1", "abre2"}
        /\ UNCHANGED <<programa, nome, num, pedido, mostrado, voltas>>
    BY Nomes DEF open, Abertura, dados
  <1>1. CASE nome[x] = 0
    <2>1. Fecha(De(p)) /\ Vai(p, "fim")
      BY <1>1 DEF open
    <2>2. CASE p = c
      <3>1. pc'[c] = "fim"
        BY <1>0, <2>1, <2>2 DEF Vai, Base, TypeOK
      <3> QED BY <3>1, ForaDoPar DEF Acabou
    <2>3. CASE p = SERVIDOR
      <3>1. Vivo(SERVIDOR)
        BY <1>0, <2>3 DEF Vivo, Acabou, NoSinal
      <3> QED BY <1>0, <2>1, <2>3, <3>1, ServidorSai
    <2> QED BY <2>2, <2>3
  <1>2. CASE nome[x] # 0
    <2>1. /\ pc'[p] = IF esta THEN para ELSE espera
          /\ pc'[o] = IF esta /\ pc[o] = "espera1" /\ x = "server1" THEN "cria2"
                      ELSE IF esta /\ pc[o] = "espera2" /\ x = "server2"
                           THEN IF o = SERVIDOR THEN "pergunta" ELSE "lePergunta"
                      ELSE pc[o]
          /\ aberto' = aberto \cup {<<p, modo, nome[x]>>}
          /\ UNCHANGED <<programa, canal, nome, num, pedido, mostrado>>
          /\ pc[p] = de /\ programa = "fifo"
          /\ x = Lado(p, modo) /\ x = Lado(o, Outro(modo))
      BY <1>2, AbreOsDois
    <2>2. CASE pc[c] \in NoSinal \cup Acabou
      <3>1. p = SERVIDOR /\ o = c /\ pc'[c] = pc[c]
        BY <1>0, <2>1, <2>2 DEF NoSinal, Acabou
      <3> QED BY <2>2, <3>1, ForaDoPar
    <2>3. CASE pc[c] \notin NoSinal \cup Acabou
      <3>1. pc[c] \in {"fora"} \cup Abrindo
        BY <1>0, <2>3, AindaNao DEF Abrindo
      <3>2. /\ \A f \in Canal : canal[f] = <<>>
            /\ mostrado[c] = NADA
            /\ Vivo(SERVIDOR) => AberturaCerta(c)
        BY <3>1 DEF Par, AberturaCerta
      <3>3. Vivo(SERVIDOR)' => Vivo(SERVIDOR)
        BY <1>0, <2>1 DEF Vivo, NoSinal, Acabou
      <3>4. ASSUME Vivo(SERVIDOR)
            PROVE  \A y \in aberto : y[3] = nome[Lado(y[1], y[2])]
        BY <2>1, <2>3, <3>4 DEF Par, NomesCertos
      <3>5. NomesCertos(c)'
        <4> SUFFICES ASSUME Vivo(SERVIDOR), NEW y \in aberto'
                     PROVE  y[3] = nome[Lado(y[1], y[2])]
          BY <2>1, <3>3 DEF NomesCertos, Lado, Primeiro
        <4>1. CASE y \in aberto
          BY <3>4, <4>1
        <4>2. CASE y = <<p, modo, nome[x]>>
          BY <2>1, <4>2
        <4> QED BY <2>1, <4>1, <4>2
      <3>6. RespostaDe(c)'
        BY <2>1, <3>2 DEF RespostaDe
      <3>7. CASE ~Vivo(SERVIDOR)
        <4>1. p = c /\ o = SERVIDOR
          BY <1>0, <3>7 DEF Vivo, NoSinal, Acabou
        <4>2. De(SERVIDOR) = {}
          BY <3>7, Lugares, Nomes DEF Vivo, Base, PontasCertas
        <4>3. ~esta
          BY <4>1, <4>2 DEF De
        <4>4. pc'[c] = espera /\ pc'[SERVIDOR] = pc[SERVIDOR] /\ espera \in {"espera1", "espera2"}
          BY <2>1, <4>1, <4>3 DEF Abertura
        <4>5. ~Vivo(SERVIDOR)'
          BY <3>7, <4>4 DEF Vivo
        <4>6. AberturaCerta(c)'
          BY <2>1, <3>2, <4>5 DEF AberturaCerta
        <4>7. ConversaCerta(c)'
          BY <4>4 DEF ConversaCerta, Conversando
        <4> QED BY <3>5, <3>6, <4>6, <4>7 DEF Par
      <3>8. CASE Vivo(SERVIDOR) /\ x = "server1"
        <4>1. /\ de = "abre1" /\ espera = "espera1" /\ para = "cria2" /\ modo = Primeiro(p)
              /\ Outro(modo) = Primeiro(o)
          BY <1>0, <3>8 DEF Abertura, Primeiro, Outro
        <4>2. pc[o] \in {"fora", "cria1", "abre1", "espera1"}
          BY <1>0, <2>1, <3>1, <3>8, <4>1, Lugares DEF Par, AberturaCerta
        <4>3. pc[o] = "espera1" => esta
          <5> SUFFICES ASSUME pc[o] = "espera1" PROVE esta
            OBVIOUS
          <5>1. PICK f \in Canal : De(o) = {<<o, Primeiro(o), f>>}
            BY <1>0 DEF Base, PontasCertas
          <5>2. <<o, Primeiro(o), f>> \in aberto
            BY <5>1 DEF De
          <5>3. f = nome[Lado(o, Primeiro(o))]
            BY <3>4, <3>8, <5>2
          <5> QED BY <2>1, <3>8, <4>1, <5>2, <5>3
        <4>4. pc[o] # "espera1" => ~esta
          <5>1. pc[o] # "espera1" => De(o) = {}
            BY <1>0, <4>2 DEF Base, PontasCertas
          <5> QED BY <5>1 DEF De
        <4>5. \/ /\ pc'[SERVIDOR] = "cria2" /\ pc'[c] = "cria2"
              \/ /\ pc'[p] = "espera1" /\ pc'[o] = pc[o] /\ pc[o] \in {"fora", "cria1", "abre1"}
          BY <2>1, <3>8, <4>1, <4>2, <4>3, <4>4
        <4>6. o = SERVIDOR => pc[o] # "fora"
          BY Lugares
        <4>7. AberturaCerta(c)'
          BY <2>1, <3>2, <4>5, <4>6 DEF AberturaCerta
        <4>8. ConversaCerta(c)'
          BY <4>5 DEF ConversaCerta, Conversando
        <4> QED BY <3>5, <3>6, <4>7, <4>8 DEF Par
      <3>9. CASE Vivo(SERVIDOR) /\ x = "server2"
        <4>1. /\ de = "abre2" /\ espera = "espera2" /\ modo = Outro(Primeiro(p))
              /\ para = IF p = SERVIDOR THEN "pergunta" ELSE "lePergunta"
              /\ Outro(modo) = Outro(Primeiro(o)) /\ Primeiro(o) # Outro(Primeiro(o))
          BY <1>0, <3>9 DEF Abertura, Primeiro, Outro
        <4>2. pc[o] \in {"cria2", "abre2", "espera2"}
          BY <1>0, <2>1, <3>1, <3>9, <4>1, Lugares DEF Par, AberturaCerta
        <4>3. pc[o] = "espera2" => esta
          <5> SUFFICES ASSUME pc[o] = "espera2" PROVE esta
            OBVIOUS
          <5>1. PICK f \in Canal : <<o, Outro(Primeiro(o)), f>> \in De(o)
            BY <1>0 DEF Base, PontasCertas
          <5>2. <<o, Outro(Primeiro(o)), f>> \in aberto
            BY <5>1 DEF De
          <5>3. f = nome[Lado(o, Outro(Primeiro(o)))]
            BY <3>4, <3>9, <5>2
          <5> QED BY <2>1, <3>9, <4>1, <5>2, <5>3
        <4>4. pc[o] # "espera2" => ~esta
          <5> SUFFICES ASSUME pc[o] # "espera2", esta PROVE FALSE
            OBVIOUS
          <5>1. PICK f \in Canal : De(o) = {<<o, Primeiro(o), f>>}
            BY <1>0, <4>2 DEF Base, PontasCertas
          <5>2. <<o, Outro(Primeiro(o)), nome[x]>> \in De(o)
            BY <4>1 DEF De
          <5> QED BY <4>1, <5>1, <5>2
        <4>5. CASE pc[o] # "espera2"
          <5>1. pc'[p] = "espera2" /\ pc'[o] = pc[o] /\ pc[o] \in {"cria2", "abre2"}
            BY <2>1, <4>1, <4>2, <4>4, <4>5
          <5>2. AberturaCerta(c)'
            BY <2>1, <3>2, <5>1 DEF AberturaCerta
          <5>3. ConversaCerta(c)'
            BY <5>1 DEF ConversaCerta, Conversando
          <5> QED BY <3>5, <3>6, <5>2, <5>3 DEF Par
        <4>6. CASE pc[o] = "espera2"
          <5> DEFINE f == nome["server1"]
                     g == nome["server2"]
          <5>1. pc'[SERVIDOR] = "pergunta" /\ pc'[c] = "lePergunta"
            BY <1>0, <2>1, <3>9, <4>1, <4>3, <4>6
          <5>2. AberturaCerta(c)'
            BY <5>1 DEF AberturaCerta, Abrindo
          <5>3. \A q \in {SERVIDOR, c} : <<q, Primeiro(q), f>> \in aberto
            <6> SUFFICES ASSUME NEW q \in {SERVIDOR, c} PROVE <<q, Primeiro(q), f>> \in aberto
              OBVIOUS
            <6>1. pc[q] \in {"abre2", "espera2"} /\ q \in Processo
              BY <1>0, <4>1, <4>6
            <6>2. PICK h \in Canal : <<q, Primeiro(q), h>> \in De(q)
              BY <6>1 DEF Base, PontasCertas
            <6>3. <<q, Primeiro(q), h>> \in aberto
              BY <6>2 DEF De
            <6>4. h = nome[Lado(q, Primeiro(q))]
              BY <3>4, <3>9, <6>3
            <6> QED BY <6>3, <6>4 DEF Lado
          <5>4. \A q \in {SERVIDOR, c} : <<q, Outro(Primeiro(q)), g>> \in aberto'
            BY <2>1, <3>9, <4>1, <4>3, <4>6
          <5>5. f \in Canal /\ g \in Canal /\ f # g
            <6>1. f \in Canal /\ g \in Canal
              <7>1. f \in {0} \cup Canal /\ g \in {0} \cup Canal /\ g # 0
                BY <1>2, <3>9 DEF Base, TypeOK, Nome
              <7>2. <<c, Primeiro(c), f>> \in Processo \X {"r", "w"} \X Canal
                BY <5>3 DEF Base, TypeOK
              <7> QED BY <7>1, <7>2
            <6> QED BY <6>1, Nomes DEF Base, NomesDistintos
          <5>6. /\ <<c, "w", f>> \in aberto' /\ <<c, "r", g>> \in aberto'
                /\ <<SERVIDOR, "r", f>> \in aberto' /\ <<SERVIDOR, "w", g>> \in aberto'
            BY <1>0, <2>1, <5>3, <5>4 DEF Primeiro, Outro
          <5>7. EmDia(c, canal[f], canal[g])'
            BY <2>1, <3>2, <5>1, <5>5 DEF EmDia
          <5>8. Vivo(SERVIDOR)' /\ programa' # "pipe"
            BY <2>1, <5>1 DEF Vivo, NoSinal, Acabou
          <5>9. ConversaCerta(c)'
            BY <2>1, <5>5, <5>6, <5>7, <5>8 DEF ConversaCerta
          <5> QED BY <3>5, <3>6, <5>2, <5>9 DEF Par
        <4> QED BY <4>5, <4>6
      <3>10. x \in {"server1", "server2"}
        BY DEF Abertura
      <3> QED BY <3>7, <3>8, <3>9, <3>10
    <2> QED BY <2>2, <2>3
  <1> QED BY <1>1, <1>2

-----------------------------------------------------------------------------
(* The conversation *)

LEMMA AcrescentaUm ==
  ASSUME NEW x, NEW y
  PROVE  Append(<<x>>, y) = <<x, y>>
  <1> DEFINE s == <<x>>
             t == Append(s, y)
             u == <<x, y>>
  <1>1. s \in Seq({x, y}) /\ Len(s) = 1 /\ s[1] = x /\ 1 \in 1..Len(s) /\ y \in {x, y}
    OBVIOUS
  <1>2. u \in Seq({x, y}) /\ Len(u) = 2 /\ u[1] = x /\ u[2] = y
    OBVIOUS
  <1> HIDE DEF s, u
  <1>3. t \in Seq({x, y}) /\ Len(t) = Len(s) + 1
    BY <1>1, AppendProperties
  <1>4. t[1] = s[1]
    <2>1. \A i \in 1..Len(s) : t[i] = s[i]
      BY <1>1, AppendProperties
    <2> QED BY <1>1, <2>1, Zenon
  <1>5. t[Len(s) + 1] = y
    BY <1>1, AppendProperties, Zenon
  <1> HIDE DEF t
  <1>6. t = u
    BY <1>1, <1>2, <1>3, <1>4, <1>5, SeqEqual
  <1> QED BY <1>6 DEF t, s, u

LEMMA Filas ==
  /\ \A x : Append(<<>>, x) = <<x>>
  /\ \A x, y : Append(<<x>>, y) = <<x, y>>
  /\ \A x : Tail(<<x>>) = <<>> /\ Head(<<x>>) = x /\ <<x>> # <<>>
  /\ \A x, y : Tail(<<x, y>>) = <<y>> /\ Head(<<x, y>>) = x /\ <<x, y>> # <<>>
  <1>1. \A x : Append(<<>>, x) = <<x>>
    OBVIOUS
  <1>2. \A x, y : Append(<<x>>, y) = <<x, y>>
    BY AcrescentaUm
  <1>3. \A x : Tail(<<x>>) = <<>> /\ Head(<<x>>) = x /\ <<x>> # <<>>
    OBVIOUS
  <1>4. \A x, y : Tail(<<x, y>>) = <<y>>
    OBVIOUS
  <1>5. \A x, y : Head(<<x, y>>) = x /\ <<x, y>> # <<>>
    OBVIOUS
  <1> QED BY <1>1, <1>2, <1>3, <1>4, <1>5

LEMMA SoConversa ==
  ASSUME Base, NEW c \in Cliente, SoDe(c), Par(c), pc[SERVIDOR] \in {"fecha"} \cup Conversa,
         pc[c] \notin NoSinal \cup Acabou
  PROVE  Vivo(SERVIDOR) /\ pc[c] \in {"fecha"} \cup Conversando
  <1>1. Vivo(SERVIDOR)
    BY DEF Vivo, NoSinal, Acabou, Conversa
  <1>2. ~(pc[c] \in {"fora"} \cup Abrindo)
    BY <1>1 DEF Par, AberturaCerta, Conversa
  <1> QED
    BY <1>1, <1>2, Lugares DEF Conversando, Abrindo, NoSinal, Acabou

\* In the conversation the names and the ends stay as they are.
LEMMA LinhaFica ==
  ASSUME NEW c \in Cliente, Par(c), NEW f \in Canal, NEW g \in Canal, LinhaDireta(c, f, g),
         UNCHANGED <<programa, aberto, nome>>, Vivo(SERVIDOR)' <=> Vivo(SERVIDOR),
         pc[c] \in {"fecha"} \cup Conversando, pc'[c] \in {"fecha"} \cup Conversando,
         Vivo(SERVIDOR) => EmDia(c, canal[f], canal[g])',
         ~Vivo(SERVIDOR) => Resto(c, canal[g])',
         RespostaDe(c)'
  PROVE  Par(c)'
  <1>1. NomesCertos(c)'
    BY DEF Par, NomesCertos, NoSinal, Acabou, Conversando
  <1>2. AberturaCerta(c)'
    BY DEF AberturaCerta, Abrindo, Conversando
  <1>3. ConversaCerta(c)'
    BY DEF ConversaCerta, LinhaDireta
  <1> QED BY <1>1, <1>2, <1>3 DEF Par

LEMMA ServidorEnvia ==
  ASSUME Base, NEW c \in Cliente, SoDe(c), Par(c), NEW de, NEW m, NEW para,
         \/ de = "pergunta" /\ m = PERGUNTA /\ para = "le"
         \/ de = "responde" /\ m = Raiz(num) /\ para = "pergunta",
         Envia(SERVIDOR, de, m, para), UNCHANGED dados
  PROVE  Par(c)'
  <1>1. /\ pc[SERVIDOR] = de /\ UNCHANGED <<programa, nome, num, pedido, mostrado>>
        /\ SERVIDOR \in Processo /\ c \in Processo /\ c # SERVIDOR /\ DOMAIN pc = Processo
    BY Nomes DEF Envia, dados, Base, TypeOK
  <1>2. CASE pc[c] \in NoSinal \cup Acabou
    <2>1. pc'[c] = pc[c]
      BY <1>1 DEF Envia, Vai
    <2> QED BY <1>2, <2>1, ForaDoPar
  <1>3. CASE pc[c] \notin NoSinal \cup Acabou
    <2>1. Vivo(SERVIDOR) /\ pc[c] \in {"fecha"} \cup Conversando
      BY <1>1, <1>3, SoConversa DEF Conversa
    <2>2. PICK f \in Canal, g \in Canal : LinhaDireta(c, f, g)
      BY <2>1, LinhaDe
    <2>3. Ponta(SERVIDOR, "w") = g /\ Leitores(g) # {}
      BY <1>1, <2>1, <2>2, Pontas DEF Conversa
    <2>4. /\ canal' = [canal EXCEPT ![g] = Append(@, m)]
          /\ pc' = [pc EXCEPT ![SERVIDOR] = para] /\ UNCHANGED aberto
      BY <2>3 DEF Envia, Vai
    <2>5. canal'[f] = canal[f] /\ canal'[g] = Append(canal[g], m)
      BY <2>2, <2>4 DEF Base, TypeOK, LinhaDireta
    <2>6. pc'[SERVIDOR] = para /\ pc'[c] = pc[c] /\ Vivo(SERVIDOR)'
      BY <1>1, <2>4 DEF Vivo, NoSinal, Acabou
    <2>7. EmDia(c, canal[f], canal[g])
      BY <2>1, <2>2 DEF LinhaDireta
    <2>8. EmDia(c, canal[f], canal[g])'
      <3>1. CASE de = "pergunta" /\ m = PERGUNTA /\ para = "le"
        BY <1>1, <2>5, <2>6, <2>7, <3>1, Filas DEF EmDia
      <3>2. CASE de = "responde" /\ m = Raiz(num) /\ para = "pergunta"
        BY <1>1, <2>5, <2>6, <2>7, <3>2, Filas DEF EmDia, Raiz
      <3> QED BY <3>1, <3>2
    <2>9. RespostaDe(c)'
      BY <1>1, <2>1, <2>6 DEF Par, RespostaDe
    <2> QED
      BY <1>1, <2>1, <2>2, <2>4, <2>6, <2>8, <2>9, LinhaFica
  <1> QED BY <1>2, <1>3

LEMMA ServidorRecebe ==
  ASSUME Base, NEW c \in Cliente, SoDe(c), Par(c), Recebe(SERVIDOR, "le", "responde"),
         num' = Lido(Ponta(SERVIDOR, "r")).n, UNCHANGED <<pedido, mostrado>>
  PROVE  Par(c)'
  <1>1. /\ pc[SERVIDOR] = "le" /\ UNCHANGED <<programa, aberto, nome>>
        /\ pc' = [pc EXCEPT ![SERVIDOR] = "responde"]
        /\ SERVIDOR \in Processo /\ c \in Processo /\ c # SERVIDOR /\ DOMAIN pc = Processo
    BY Nomes DEF Recebe, Base, TypeOK, Vai
  <1>2. CASE pc[c] \in NoSinal \cup Acabou
    <2>1. pc'[c] = pc[c]
      BY <1>1
    <2> QED BY <1>2, <2>1, ForaDoPar
  <1>3. CASE pc[c] \notin NoSinal \cup Acabou
    <2>1. Vivo(SERVIDOR) /\ pc[c] \in {"fecha"} \cup Conversando
      BY <1>1, <1>3, SoConversa DEF Conversa
    <2>2. PICK f \in Canal, g \in Canal : LinhaDireta(c, f, g)
      BY <2>1, LinhaDe
    <2>3. Ponta(SERVIDOR, "r") = f /\ Escritores(f) # {}
      BY <1>1, <2>1, <2>2, Pontas DEF Conversa
    <2>4. /\ canal[f] # <<>>
          /\ canal' = [canal EXCEPT ![f] = IF @ = <<>> THEN @ ELSE Tail(@)]
          /\ num' = Head(canal[f]).n
      BY <2>3 DEF Recebe, HaOQueLer, Lido
    <2>5. canal'[f] = Tail(canal[f]) /\ canal'[g] = canal[g]
      BY <2>2, <2>4 DEF Base, TypeOK, LinhaDireta
    <2>6. pc'[SERVIDOR] = "responde" /\ pc'[c] = pc[c] /\ Vivo(SERVIDOR)'
      BY <1>1 DEF Vivo, NoSinal, Acabou
    <2>7. EmDia(c, canal[f], canal[g])
      BY <2>1, <2>2 DEF LinhaDireta
    <2>8. pc[c] = "leResposta" /\ canal[f] = <<pedido[c]>> /\ canal[g] = <<>>
      BY <1>1, <2>4, <2>7 DEF EmDia
    <2>9. EmDia(c, canal[f], canal[g])'
      BY <2>4, <2>5, <2>6, <2>8 DEF EmDia
    <2>10. RespostaDe(c)'
      BY <2>6, <2>8 DEF RespostaDe
    <2> QED
      BY <1>1, <2>1, <2>2, <2>6, <2>9, <2>10, LinhaFica
  <1> QED BY <1>2, <1>3

LEMMA ClienteEnvia ==
  ASSUME Base, NEW c \in Cliente, SoDe(c), Par(c),
         Envia(c, "manda", pedido[c], "leResposta"), UNCHANGED dados
  PROVE  Par(c)'
  <1>1. /\ pc[c] = "manda" /\ UNCHANGED <<programa, nome, num, pedido, mostrado>>
        /\ SERVIDOR \in Processo /\ c \in Processo /\ c # SERVIDOR /\ DOMAIN pc = Processo
    BY Nomes DEF Envia, dados, Base, TypeOK
  <1>2. PICK f \in Canal, g \in Canal : LinhaDireta(c, f, g)
    BY <1>1, LinhaDe DEF Conversando
  <1>3. Ponta(c, "w") = f /\ (~Vivo(SERVIDOR) => Leitores(f) = {})
    BY <1>1, <1>2, Pontas DEF Conversando
  <1>4. CASE Leitores(f) = {}
    <2>1. pc'[c] = "morto"
      BY <1>1, <1>3, <1>4 DEF Envia, Vai
    <2> QED BY <2>1, ForaDoPar DEF Acabou
  <1>5. CASE Leitores(f) # {}
    <2>1. /\ canal' = [canal EXCEPT ![f] = Append(@, pedido[c])]
          /\ pc' = [pc EXCEPT ![c] = "leResposta"] /\ UNCHANGED aberto
      BY <1>3, <1>5 DEF Envia, Vai
    <2>2. canal'[f] = Append(canal[f], pedido[c]) /\ canal'[g] = canal[g]
      BY <1>2, <2>1 DEF Base, TypeOK, LinhaDireta
    <2>3. pc'[c] = "leResposta" /\ pc'[SERVIDOR] = pc[SERVIDOR]
      BY <1>1, <2>1
    <2>4. Vivo(SERVIDOR) /\ Vivo(SERVIDOR)'
      BY <1>3, <1>5, <2>3 DEF Vivo
    <2>5. EmDia(c, canal[f], canal[g])
      BY <1>2, <2>4 DEF LinhaDireta
    <2>6. pc[SERVIDOR] = "le" /\ canal[f] = <<>> /\ canal[g] = <<>>
      BY <1>1, <2>5 DEF EmDia
    <2>7. EmDia(c, canal[f], canal[g])'
      BY <1>1, <2>2, <2>3, <2>6 DEF EmDia
    <2>8. RespostaDe(c)'
      BY <2>3 DEF RespostaDe
    <2> QED
      BY <1>1, <1>2, <2>1, <2>3, <2>4, <2>7, <2>8, LinhaFica DEF Conversando
  <1> QED BY <1>4, <1>5

LEMMA ClienteRecebe ==
  ASSUME Base, NEW c \in Cliente, SoDe(c), Par(c), UNCHANGED <<num, pedido>>,
         \/ Recebe(c, "lePergunta", "teclado") /\ UNCHANGED mostrado
         \/ /\ Recebe(c, "leResposta", "lePergunta")
            /\ mostrado' = [mostrado EXCEPT ![c] = Lido(Ponta(c, "r"))]
  PROVE  Par(c)'
  <1>1. /\ \/ pc[c] = "lePergunta" /\ pc'[c] = "teclado" /\ UNCHANGED mostrado
           \/ /\ pc[c] = "leResposta" /\ pc'[c] = "lePergunta"
              /\ mostrado'[c] = Lido(Ponta(c, "r"))
        /\ HaOQueLer(Ponta(c, "r"))
        /\ canal' = [canal EXCEPT ![Ponta(c, "r")] = IF @ = <<>> THEN @ ELSE Tail(@)]
        /\ UNCHANGED <<programa, aberto, nome>>
        /\ pc'[SERVIDOR] = pc[SERVIDOR]
    BY Nomes DEF Recebe, Vai, Base, TypeOK
  <1>2. pc[c] \in Conversando /\ pc'[c] \in Conversando
    BY <1>1 DEF Conversando
  <1>3. PICK f \in Canal, g \in Canal : LinhaDireta(c, f, g)
    BY <1>2, LinhaDe
  <1>4. Ponta(c, "r") = g /\ (Vivo(SERVIDOR) => Escritores(g) # {})
    BY <1>2, <1>3, Pontas
  <1>5. Vivo(SERVIDOR)' <=> Vivo(SERVIDOR)
    BY <1>1 DEF Vivo
  <1>6. /\ canal'[f] = canal[f]
        /\ canal'[g] = IF canal[g] = <<>> THEN <<>> ELSE Tail(canal[g])
    BY <1>1, <1>3, <1>4 DEF Base, TypeOK, LinhaDireta
  <1>7. CASE Vivo(SERVIDOR)
    <2>1. canal[g] # <<>> /\ Lido(g) = Head(canal[g])
      BY <1>1, <1>4, <1>7 DEF HaOQueLer, Lido
    <2>2. EmDia(c, canal[f], canal[g])
      BY <1>3, <1>7 DEF LinhaDireta
    <2>3. CASE pc[c] = "lePergunta"
      <3>1. pc[SERVIDOR] = "le" /\ canal[f] = <<>> /\ canal[g] = <<PERGUNTA>>
        BY <2>1, <2>2, <2>3 DEF EmDia
      <3>2. EmDia(c, canal[f], canal[g])'
        BY <1>1, <1>6, <2>3, <3>1 DEF EmDia
      <3>3. RespostaDe(c)'
        BY <1>1, <1>7, <2>3 DEF Par, RespostaDe
      <3> QED BY <1>1, <1>2, <1>3, <1>5, <1>7, <3>2, <3>3, LinhaFica
    <2>4. CASE pc[c] = "leResposta"
      <3>1. \/ /\ pc[SERVIDOR] = "pergunta" /\ canal[f] = <<>>
               /\ canal[g] = <<Raiz(pedido[c].n)>>
            \/ /\ pc[SERVIDOR] = "le" /\ canal[f] = <<>>
               /\ canal[g] = <<Raiz(pedido[c].n), PERGUNTA>>
        BY <2>1, <2>2, <2>4 DEF EmDia
      <3>2. EmDia(c, canal[f], canal[g])'
        <4>1. CASE /\ pc[SERVIDOR] = "pergunta" /\ canal[f] = <<>>
                   /\ canal[g] = <<Raiz(pedido[c].n)>>
          <5>1. canal'[f] = <<>> /\ canal'[g] = <<>>
            BY <1>6, <4>1, Filas, Zenon
          <5> QED BY <1>1, <2>4, <4>1, <5>1 DEF EmDia
        <4>2. CASE /\ pc[SERVIDOR] = "le" /\ canal[f] = <<>>
                   /\ canal[g] = <<Raiz(pedido[c].n), PERGUNTA>>
          <5>1. canal'[f] = <<>> /\ canal'[g] = <<PERGUNTA>>
            BY <1>6, <4>2, Filas, Zenon
          <5> QED BY <1>1, <2>4, <4>2, <5>1 DEF EmDia
        <4> QED BY <3>1, <4>1, <4>2
      <3>3. mostrado'[c] = Raiz(pedido[c].n)
        BY <1>1, <1>4, <2>1, <2>4, <3>1
      <3>4. RespostaDe(c)'
        <4>1. Raiz(pedido[c].n)' = Raiz(pedido[c].n)
          BY DEF Raiz
        <4> QED BY <3>3, <4>1 DEF RespostaDe
      <3> QED BY <1>1, <1>2, <1>3, <1>5, <1>7, <3>2, <3>4, LinhaFica
    <2> QED BY <1>1, <2>3, <2>4
  <1>8. CASE ~Vivo(SERVIDOR)
    <2>1. Resto(c, canal[g])
      BY <1>3, <1>8 DEF LinhaDireta
    <2>2. CASE pc[c] = "lePergunta"
      <3>1. canal'[g] = <<>>
        BY <1>6, <2>1, <2>2, Filas DEF Resto
      <3>2. Resto(c, canal[g])'
        BY <1>1, <2>2, <3>1 DEF Resto
      <3>3. RespostaDe(c)'
        BY <1>1, <1>5, <2>2 DEF Par, RespostaDe
      <3> QED BY <1>1, <1>2, <1>3, <1>5, <1>8, <3>2, <3>3, LinhaFica
    <2>3. CASE pc[c] = "leResposta"
      <3>1. canal[g] \in {<<>>, <<Raiz(pedido[c].n)>>, <<Raiz(pedido[c].n), PERGUNTA>>}
        BY <2>1, <2>3 DEF Resto
      <3>2. canal'[g] \in {<<>>, <<PERGUNTA>>}
        <4>1. CASE canal[g] = <<>>
          BY <1>6, <4>1
        <4>2. CASE canal[g] = <<Raiz(pedido[c].n)>>
          BY <1>6, <4>2, Filas, Zenon
        <4>3. CASE canal[g] = <<Raiz(pedido[c].n), PERGUNTA>>
          <5>1. canal'[g] = <<PERGUNTA>>
            BY <1>6, <4>3, Filas, Zenon
          <5> QED BY <5>1
        <4> QED BY <3>1, <4>1, <4>2, <4>3
      <3>3. Resto(c, canal[g])'
        BY <1>1, <2>3, <3>2 DEF Resto, PERGUNTA
      <3>4. mostrado'[c] \in {VAZIO, Raiz(pedido[c].n)}
        BY <1>1, <1>4, <2>3, <3>1 DEF Lido
      <3>5. RespostaDe(c)'
        BY <1>5, <1>8, <3>4 DEF RespostaDe, VAZIO, Raiz
      <3> QED BY <1>1, <1>2, <1>3, <1>5, <1>8, <3>3, <3>5, LinhaFica
    <2> QED BY <1>1, <2>2, <2>3
  <1> QED BY <1>7, <1>8

-----------------------------------------------------------------------------
(* The steps of the users, and the fork *)

LEMMA LinhaNova ==
  ASSUME NEW c \in Cliente, NEW f \in Canal, NEW g \in Canal, LinhaDireta(c, f, g)',
         pc'[c] \in {"fecha"} \cup Conversando, NomesCertos(c)', RespostaDe(c)'
  PROVE  Par(c)'
  <1>1. AberturaCerta(c)'
    BY DEF AberturaCerta, Abrindo, Conversando
  <1>2. ConversaCerta(c)'
    BY DEF ConversaCerta, LinhaDireta
  <1> QED BY <1>1, <1>2 DEF Par

LEMMA ComecaPar ==
  ASSUME Base, NEW c \in Cliente, SoDe(c), Par(c), Comeca(c)
  PROVE  Par(c)'
  <1>1. /\ pc[c] = "fora" /\ pc'[c] = "cria1" /\ pc'[SERVIDOR] = pc[SERVIDOR]
        /\ UNCHANGED <<programa, aberto, canal, nome, num, pedido, mostrado>>
    BY Nomes DEF Comeca, Vai, canais, dados, Base, TypeOK
  <1>2. Vivo(SERVIDOR)' <=> Vivo(SERVIDOR)
    BY <1>1 DEF Vivo
  <1>3. AberturaCerta(c)'
    BY <1>1, <1>2 DEF Par, AberturaCerta
  <1>4. NomesCertos(c)'
    BY <1>1, <1>2 DEF Par, NomesCertos, NoSinal, Acabou
  <1> QED
    BY <1>1, <1>3, <1>4 DEF Par, ConversaCerta, RespostaDe, Conversando

LEMMA DigitaPar ==
  ASSUME Base, NEW c \in Cliente, SoDe(c), Par(c), Digita(c)
  PROVE  Par(c)'
  <1>1. /\ pc[c] = "teclado" /\ pc'[c] = "manda" /\ pc'[SERVIDOR] = pc[SERVIDOR]
        /\ UNCHANGED <<programa, aberto, canal, nome>>
    BY Nomes DEF Digita, Vai, canais, Base, TypeOK
  <1>2. Vivo(SERVIDOR)' <=> Vivo(SERVIDOR)
    BY <1>1 DEF Vivo
  <1>3. PICK f \in Canal, g \in Canal : LinhaDireta(c, f, g)
    BY <1>1, LinhaDe DEF Conversando
  <1>4. Vivo(SERVIDOR) => EmDia(c, canal[f], canal[g])'
    BY <1>1, <1>3 DEF LinhaDireta, EmDia
  <1>5. ~Vivo(SERVIDOR) => Resto(c, canal[g])'
    BY <1>1, <1>3 DEF LinhaDireta, Resto
  <1>6. RespostaDe(c)'
    BY <1>1 DEF RespostaDe
  <1> QED
    BY <1>1, <1>2, <1>3, <1>4, <1>5, <1>6, LinhaFica DEF Conversando

LEMMA ForkPar ==
  ASSUME Base, NEW c \in Cliente, SoDe(c), Par(c), Fork, SoDe(c)'
  PROVE  Par(c)'
  <1>1. /\ programa = "pipe" /\ pc[SERVIDOR] = "fork"
        /\ UNCHANGED <<programa, canal, nome, num, pedido, mostrado>>
        /\ SERVIDOR \in Processo /\ c \in Processo /\ c # SERVIDOR /\ DOMAIN pc = Processo
        /\ FILHO \in Processo /\ FILHO # SERVIDOR
    BY Nomes DEF Fork, dados, Base, TypeOK
  <1>2. pc[c] = "fora"
    BY <1>1 DEF Base, AntesDoFork
  <1>3. (\A f \in Canal : canal[f] = <<>>) /\ mostrado[c] = NADA
    BY <1>2 DEF Par, AberturaCerta
  <1>4. NomesCertos(c)' /\ RespostaDe(c)'
    BY <1>1, <1>3 DEF NomesCertos, RespostaDe
  <1>5. CASE /\ aberto' = {SERVIDOR, FILHO} \X {"r", "w"} \X {A, B}
             /\ pc' = [pc EXCEPT ![SERVIDOR] = "fecha", ![FILHO] = "fecha"]
    <2>1. c = FILHO
      BY <1>1, <1>5, Nomes DEF SoDe
    <2>2. pc'[SERVIDOR] = "fecha" /\ pc'[c] = "fecha"
      BY <1>1, <1>5, <2>1
    <2>3. Vivo(SERVIDOR)'
      BY <2>2 DEF Vivo, NoSinal, Acabou
    <2>4. EmDia(c, canal[B], canal[A])'
      BY <1>1, <1>3, <2>2, Nomes DEF EmDia
    <2>5. LinhaDireta(c, B, A)'
      BY <1>5, <2>1, <2>3, <2>4, Nomes DEF LinhaDireta
    <2> QED BY <1>4, <2>2, <2>5, LinhaNova, Nomes
  <1>6. CASE Vai(SERVIDOR, "fim") /\ UNCHANGED aberto
    <2>1. pc'[SERVIDOR] = "fim" /\ pc'[c] = "fora"
      BY <1>1, <1>2, <1>6 DEF Vai
    <2>2. ~Vivo(SERVIDOR)'
      BY <2>1 DEF Vivo, Acabou
    <2>3. AberturaCerta(c)'
      BY <1>1, <1>3, <2>2 DEF AberturaCerta
    <2> QED
      BY <1>4, <2>1, <2>3 DEF Par, ConversaCerta, Conversando
  <1> QED BY <1>5, <1>6 DEF Fork

LEMMA FechaPar ==
  ASSUME Base, NEW c \in Cliente, SoDe(c), Par(c), PaiFecha \/ FilhoFecha
  PROVE  Par(c)'
  <1>1. \E p \in {SERVIDOR, FILHO} :
          LET para == IF p = SERVIDOR THEN "pergunta" ELSE "lePergunta"
          IN  /\ pc[p] = "fecha" /\ Vai(p, para)
              /\ Fecha({<<p, "w", IF p = SERVIDOR THEN B ELSE A>>,
                        <<p, "r", IF p = SERVIDOR THEN A ELSE B>>})
              /\ UNCHANGED <<programa, nome, num, pedido, mostrado>>
    BY Nomes DEF PaiFecha, FilhoFecha, FechaPontas, dados
  <1>2. PICK p \in {SERVIDOR, FILHO} :
          LET para == IF p = SERVIDOR THEN "pergunta" ELSE "lePergunta"
          IN  /\ pc[p] = "fecha" /\ Vai(p, para)
              /\ Fecha({<<p, "w", IF p = SERVIDOR THEN B ELSE A>>,
                        <<p, "r", IF p = SERVIDOR THEN A ELSE B>>})
              /\ UNCHANGED <<programa, nome, num, pedido, mostrado>>
    BY <1>1, Zenon
  <1>3. /\ p \in Processo /\ c \in Processo /\ c # SERVIDOR /\ DOMAIN pc = Processo
        /\ SERVIDOR \in Processo /\ FILHO # SERVIDOR /\ A \in Canal /\ B \in Canal
    BY Nomes DEF Base, TypeOK
  <1>4. programa = "pipe"
    BY <1>2, Lugares, Nomes
  <1>5. p # SERVIDOR => c = p
    BY <1>2, Nomes DEF SoDe
  <1>6. pc'[p] = (IF p = SERVIDOR THEN "pergunta" ELSE "lePergunta")
        /\ (c # p => pc'[c] = pc[c]) /\ (SERVIDOR # p => pc'[SERVIDOR] = pc[SERVIDOR])
    BY <1>2, <1>3 DEF Vai
  <1>7. CASE pc[c] \in NoSinal \cup Acabou
    <2>1. p = SERVIDOR
      BY <1>2, <1>5, <1>7 DEF NoSinal, Acabou
    <2> QED BY <1>3, <1>6, <1>7, <2>1, ForaDoPar
  <1>8. CASE pc[c] \notin NoSinal \cup Acabou
    <2>1. pc[c] \in {"fecha"} \cup Conversando
      BY <1>2, <1>5, <1>8, SoConversa DEF Conversando
    <2>2. PICK f \in Canal, g \in Canal : LinhaDireta(c, f, g)
      BY <2>1, LinhaDe
    <2>3. f = B /\ g = A
      BY <1>4, <2>2 DEF LinhaDireta
    <2>4. /\ <<c, "w", B>> \in aberto' /\ <<c, "r", A>> \in aberto'
          /\ Vivo(SERVIDOR) => /\ <<SERVIDOR, "r", B>> \in aberto'
                               /\ <<SERVIDOR, "w", A>> \in aberto'
      <3>1. aberto' = aberto \ {<<p, "w", IF p = SERVIDOR THEN B ELSE A>>,
                                <<p, "r", IF p = SERVIDOR THEN A ELSE B>>}
        BY <1>2 DEF Fecha
      <3>2. CASE p = SERVIDOR
        BY <1>3, <2>2, <2>3, <3>1, <3>2, Nomes DEF LinhaDireta
      <3>3. CASE p # SERVIDOR
        BY <1>3, <1>5, <2>2, <2>3, <3>1, <3>3, Nomes DEF LinhaDireta
      <3> QED BY <3>2, <3>3
    <2>5. canal'[A] = canal[A] /\ canal'[B] = canal[B]
      <3>1. <<c, "w", B>>[3] = B /\ <<c, "r", A>>[3] = A
        OBVIOUS
      <3> QED BY <1>2, <2>4, <3>1, FechaEfeito DEF Base
    <2>6. Vivo(SERVIDOR)' <=> Vivo(SERVIDOR)
      BY <1>2, <1>6 DEF Vivo, NoSinal, Acabou
    <2>7. pc'[c] \in {"fecha"} \cup Conversando
      BY <1>3, <1>5, <1>6, <2>1 DEF Conversando
    <2>8. Vivo(SERVIDOR) => EmDia(c, canal[B], canal[A])'
      <3>1. Vivo(SERVIDOR) => EmDia(c, canal[B], canal[A])
        BY <2>2, <2>3 DEF LinhaDireta
      <3>2. CASE p = SERVIDOR
        BY <1>2, <1>3, <1>6, <2>5, <3>1, <3>2 DEF EmDia
      <3>3. CASE p # SERVIDOR
        BY <1>2, <1>3, <1>5, <1>6, <2>5, <3>1, <3>3 DEF EmDia
      <3> QED BY <3>2, <3>3
    <2>9. ~Vivo(SERVIDOR) => Resto(c, canal[A])'
      BY <1>2, <1>3, <1>5, <1>6, <2>2, <2>3, <2>5 DEF LinhaDireta, Resto
    <2>10. LinhaDireta(c, B, A)'
      BY <2>4, <2>6, <2>8, <2>9, Nomes DEF LinhaDireta
    <2>11. NomesCertos(c)'
      BY <1>2, <1>4 DEF NomesCertos
    <2>12. RespostaDe(c)'
      BY <1>2, <1>3, <1>5, <1>6, <2>6 DEF Par, RespostaDe
    <2> QED BY <1>3, <2>7, <2>10, <2>11, <2>12, LinhaNova
  <1> QED BY <1>7, <1>8

-----------------------------------------------------------------------------
(* Every step *)

LEMMA ParPasso ==
  ASSUME Base, [Next]_vars, NEW c \in Cliente, SoDe(c)', SoDe(c) => Par(c)
  PROVE  Par(c)'
  <1>0. SoDe(c) /\ Par(c)
    BY Atores
  <1>1. CASE Servidor
    <2>1. CASE PaiPergunta \/ ServidorPergunta \/ PaiResponde \/ ServidorResponde
      BY <1>0, <2>1, ServidorEnvia
         DEF PaiPergunta, ServidorPergunta, PaiResponde, ServidorResponde
    <2>2. CASE PaiLe \/ ServidorLe
      BY <1>0, <2>2, ServidorRecebe DEF PaiLe, ServidorLe
    <2>3. CASE ServidorCria
      <3>1. SERVIDOR \in {SERVIDOR, c} /\ "server1" \in Nome /\ "server2" \in Nome
        BY DEF Nome
      <3> QED BY <1>0, <2>3, <3>1, mkfifoPar DEF ServidorCria
    <2>4. CASE ServidorAbre
      <3>1. /\ SERVIDOR \in {SERVIDOR, c}
            /\ Abertura(SERVIDOR, "server1", "r", "abre1", "espera1", "cria2")
            /\ Abertura(SERVIDOR, "server2", "w", "abre2", "espera2", "pergunta")
        BY DEF Abertura, Primeiro, Outro
      <3> QED BY <1>0, <2>4, <3>1, AbrePar DEF ServidorAbre
    <2> QED
      BY <1>0, <1>1, <2>1, <2>2, <2>3, <2>4, ForkPar, FechaPar, NomesDoServidor DEF Servidor
  <1>2. CASE UmCliente(c)
    <2>0. c \in {SERVIDOR, c} /\ c # SERVIDOR /\ c \in Processo
      BY Nomes
    <2>1. CASE (c = FILHO /\ FilhoManda) \/ ClienteManda(c)
      BY <1>0, <2>1, ClienteEnvia DEF FilhoManda, ClienteManda
    <2>2. CASE (c = FILHO /\ (FilhoOuve \/ FilhoMostra)) \/ ClienteOuve(c) \/ ClienteMostra(c)
      BY <1>0, <2>2, ClienteRecebe DEF FilhoOuve, FilhoMostra, ClienteOuve, ClienteMostra, dados
    <2>3. CASE ClienteCria(c)
      <3>1. "server1" \in Nome /\ "server2" \in Nome
        BY DEF Nome
      <3> QED BY <1>0, <2>0, <2>3, <3>1, mkfifoPar DEF ClienteCria
    <2>4. CASE ClienteAbre(c)
      <3>1. /\ Abertura(c, "server1", "w", "abre1", "espera1", "cria2")
            /\ Abertura(c, "server2", "r", "abre2", "espera2", "lePergunta")
        BY <2>0 DEF Abertura, Primeiro, Outro
      <3> QED BY <1>0, <2>0, <2>4, <3>1, AbrePar DEF ClienteAbre
    <2>5. CASE ClienteRemove(c)
      <3>1. pc'[c] \in {"rm2", "fim"}
        BY <2>0, <2>5 DEF ClienteRemove, Remove, Vai, Base, TypeOK
      <3> QED BY <3>1, ForaDoPar DEF NoSinal, Acabou
    <2> QED
      BY <1>0, <1>2, <2>1, <2>2, <2>3, <2>4, <2>5, FechaPar DEF UmCliente
  <1>3. CASE Mata(c) \/ Sinal(c)
    <2>1. pc'[c] \in {"morto", "rm1"}
      BY <1>3, Nomes DEF Mata, Sinal, Vai, Base, TypeOK
    <2> QED BY <2>1, ForaDoPar DEF NoSinal, Acabou
  <1>4. CASE UNCHANGED vars
    <2>1. UNCHANGED <<programa, pc, aberto, canal, nome, num, pedido, mostrado, voltas>>
      BY <1>4 DEF vars, canais, dados
    <2>2. Vivo(SERVIDOR)' <=> Vivo(SERVIDOR)
      BY <2>1 DEF Vivo
    <2>3. NomesCertos(c)' /\ RespostaDe(c)'
      BY <1>0, <2>1, <2>2 DEF Par, NomesCertos, RespostaDe
    <2>4. AberturaCerta(c)'
      BY <1>0, <2>1, <2>2 DEF Par, AberturaCerta
    <2>5. /\ \A i, v : EmDia(c, i, v)' <=> EmDia(c, i, v)
          /\ \A v : Resto(c, v)' <=> Resto(c, v)
      BY <2>1 DEF EmDia, Resto
    <2>6. ConversaCerta(c)'
      BY <1>0, <2>1, <2>2, <2>5 DEF Par, ConversaCerta
    <2> QED
      BY <2>3, <2>4, <2>6 DEF Par
  <1> QED
    BY <1>0, <1>1, <1>2, <1>3, <1>4, Atores, MorteDoServidor, DigitaPar, ComecaPar

LEMMA ParInit ==
  ASSUME Init, NEW c \in Cliente
  PROVE  Par(c)
  <1>1. /\ aberto = {} /\ \A f \in Canal : canal[f] = <<>>
        /\ mostrado[c] = NADA /\ pc[c] = "fora"
        /\ pc[SERVIDOR] \in {"fork", "cria1"}
    BY Nomes DEF Init
  <1> QED
    BY <1>1 DEF Par, NomesCertos, AberturaCerta, ConversaCerta, RespostaDe, Conversando

\* Every process has the ends that its statement calls for, the numbers of the
\* fifos never run out, and a lone client and the server are always in step.
THEOREM Indutivo == Spec => []IInv
  <1>1. Init => IInv
    BY BaseInit, ParInit DEF IInv, Base, Par
  <1>2. IInv /\ [Next]_vars => IInv'
    <2> SUFFICES ASSUME IInv, [Next]_vars PROVE IInv'
      OBVIOUS
    <2>1. Base /\ \A c \in Cliente : SoDe(c) => Par(c)
      BY DEF IInv, Base, Par
    <2>2. Base'
      BY <2>1, BasePasso
    <2>3. \A c \in Cliente : SoDe(c)' => Par(c)'
      BY <2>1, ParPasso
    <2> QED BY <2>2, <2>3 DEF IInv, Base, Par
  <1> QED BY <1>1, <1>2, PTL DEF Spec

\* Whatever users start, type, interrupt or kill, every process is at a
\* statement of its program and every fifo has a number.
THEOREM TypeCorrect == Spec => []TypeOK
  <1>1. IInv => TypeOK
    BY DEF IInv
  <1> QED BY <1>1, Indutivo, PTL

\* What a lone client shows is the root of the number it sent last, or nothing
\* if the server has ended: its read never takes the server's next question for
\* an answer, nor an answer for a question, however many messages a pipe holds.
THEOREM RespostaCertaSempre == Spec => []RespostaCerta
  <1>1. IInv => RespostaCerta
    BY DEF IInv, RespostaDe, RespostaCerta
  <1> QED BY <1>1, Indutivo, PTL

\* A server and a client that both wait are not in step.
LEMMA NaoTrava ==
  ASSUME IInv, NEW c \in Cliente, SoDe(c), Parado(SERVIDOR), Parado(c)
  PROVE  FALSE
  <1>1. Base /\ Par(c)
    BY DEF IInv, Base, Par
  <1>2. /\ pc[SERVIDOR] \in {"espera1", "espera2", "le", "pergunta", "responde"}
        /\ pc[c] \in {"espera1", "espera2", "lePergunta", "leResposta", "manda"}
    BY <1>1, Lugares DEF Parado
  <1>3. Vivo(SERVIDOR) /\ pc[c] \notin NoSinal \cup Acabou
    BY <1>2 DEF Vivo, NoSinal, Acabou
  <1>4. CASE pc[SERVIDOR] \in {"espera1", "espera2"} \/ pc[c] \in {"espera1", "espera2"}
    <2>1. pc[c] \in {"fora"} \cup Abrindo
      BY <1>1, <1>3, <1>4, AindaNao DEF Abrindo
    <2> QED BY <1>1, <1>2, <1>3, <2>1 DEF Par, AberturaCerta, Abrindo
  <1>5. CASE pc[SERVIDOR] \in Conversa /\ pc[c] \in Conversando
    <2>1. PICK f \in Canal, g \in Canal : LinhaDireta(c, f, g)
      BY <1>1, <1>5, LinhaDe
    <2>2. /\ Ponta(c, "w") = f /\ Ponta(c, "r") = g
          /\ Ponta(SERVIDOR, "r") = f /\ Ponta(SERVIDOR, "w") = g
      BY <1>1, <1>3, <1>5, <2>1, Pontas
    <2>3. EmDia(c, canal[f], canal[g])
      BY <1>3, <2>1 DEF LinhaDireta
    <2>4. /\ pc[SERVIDOR] = "le" => canal[f] = <<>>
          /\ pc[SERVIDOR] \in {"pergunta", "responde"} => Len(canal[g]) = CAPACIDADE
          /\ pc[c] \in {"lePergunta", "leResposta"} => canal[g] = <<>>
          /\ pc[c] = "manda" => Len(canal[f]) = CAPACIDADE
      BY <1>5, <2>2 DEF Parado, HaOQueLer, Conversa, Conversando
    <2>5. Len(<<>>) # CAPACIDADE
      BY ConstantesAssumption
    <2> QED BY <1>2, <1>5, <2>3, <2>4, <2>5 DEF EmDia
  <1> QED BY <1>2, <1>4, <1>5 DEF Conversa, Conversando

\* The server and a lone client never wait for each other, in the four open of
\* the two fifos or in the read and write of the conversation, whichever names
\* an earlier run has left.
THEOREM NinguemTravaSempre == Spec => []NinguemTrava
  <1>1. IInv => NinguemTrava
    BY NaoTrava DEF NinguemTrava
  <1> QED BY <1>1, Indutivo, PTL

-----------------------------------------------------------------------------
(* Any number of clients and servers: one direction for each fifo *)

Vao == Lados /\ Conteudo

LEMMA Sentidos ==
  ASSUME NEW p \in Processo
  PROVE  /\ DoLado(Lado(p, "r")) = IF p = SERVIDOR THEN DosClientes ELSE DoServidor
         /\ DoLado(Lado(p, "w")) = IF p = SERVIDOR THEN DoServidor ELSE DosClientes
  BY DEF DoLado, Lado, Primeiro

LEMMA OQueHa ==
  ASSUME Base, Vao, NEW p \in Processo, pc[p] \in Conversam, NEW m \in {"r", "w"}
  PROVE  canal[Ponta(p, m)] \in Seq(DoLado(Lado(p, m)))
  <1>1. /\ <<p, m, Ponta(p, m)>> \in aberto
        /\ programa = "pipe" => Ponta(p, m) = IF m = Primeiro(p) THEN B ELSE A
    BY PontaTem DEF Conversam
  <1>2. CASE programa = "fifo"
    <2> DEFINE x == <<p, m, Ponta(p, m)>>
    <2>1. x[1] = p /\ x[2] = m /\ x[3] = Ponta(p, m)
      OBVIOUS
    <2>2. canal[x[3]] \in Seq(DoLado(Lado(x[1], x[2])))
      BY <1>1, <1>2 DEF Vao, Conteudo
    <2> QED BY <2>1, <2>2
  <1>3. CASE programa = "pipe"
    BY <1>1, <1>3 DEF Vao, Conteudo, DoLado, Lado
  <1> QED
    BY <1>2, <1>3, ConstantesAssumption DEF Base, TypeOK

LEMMA Quieto ==
  ASSUME Vao, UNCHANGED <<programa, aberto, canal>>
  PROVE  Vao'
  BY DEF Vao, Lados, Conteudo

LEMMA FechaVao ==
  ASSUME Base, Vao, NEW S, Fecha(S), programa' = programa
  PROVE  Vao'
  <1>1. /\ aberto' = aberto \ S
        /\ \A f \in Canal : canal'[f] = <<>> \/ canal'[f] = canal[f]
        /\ \A x \in aberto' : canal'[x[3]] = canal[x[3]]
    BY FechaEfeito DEF Base
  <1>2. Lados'
    BY <1>1 DEF Vao, Lados
  <1>3. programa' = "fifo" =>
          \A x \in aberto' : canal'[x[3]] \in Seq(DoLado(Lado(x[1], x[2])))
    BY <1>1 DEF Vao, Conteudo
  <1>4. programa' = "pipe" => canal'[B] \in Seq(DosClientes) /\ canal'[A] \in Seq(DoServidor)
    <2>1. <<>> \in Seq(DosClientes) /\ <<>> \in Seq(DoServidor)
      OBVIOUS
    <2> QED BY <1>1, <2>1, Nomes DEF Vao, Conteudo
  <1>5. \A f \in Canal : canal'[f] # <<>> => \E x \in aberto' : x[3] = f
    BY <1>1 DEF Fecha
  <1> QED
    BY <1>2, <1>3, <1>4, <1>5 DEF Vao, Conteudo

LEMMA EnviaVao ==
  ASSUME Base, Vao, NEW p \in Processo, NEW de \in Conversam, NEW para,
         NEW m \in DoLado(Lado(p, "w")), Envia(p, de, m, para)
  PROVE  Vao'
  <1>1. pc[p] = de /\ programa' = programa
    BY DEF Envia
  <1>2. CASE Fecha(De(p))
    BY <1>1, <1>2, FechaVao
  <1>3. CASE /\ canal' = [canal EXCEPT ![Ponta(p, "w")] = Append(@, m)]
             /\ UNCHANGED aberto
    <2> DEFINE f == Ponta(p, "w")
    <2>1. /\ f \in Canal /\ <<p, "w", f>> \in aberto
          /\ programa = "pipe" => f = IF p = SERVIDOR THEN A ELSE B
      BY <1>1, PontaTem DEF Conversam, Primeiro
    <2>2. canal[f] \in Seq(DoLado(Lado(p, "w")))
      BY <1>1, OQueHa
    <2> HIDE DEF f
    <2>3. /\ canal'[f] = Append(canal[f], m)
          /\ \A g \in Canal : g # f => canal'[g] = canal[g]
      BY <1>3, <2>1 DEF f, Base, TypeOK
    <2>4. canal'[f] \in Seq(DoLado(Lado(p, "w")))
      BY <2>2, <2>3
    <2>5. Lados'
      BY <1>1, <1>3 DEF Vao, Lados
    <2>6. ASSUME programa = "fifo", NEW x \in aberto
          PROVE  canal'[x[3]] \in Seq(DoLado(Lado(x[1], x[2])))
      <3>1. CASE x[3] = f
        <4> DEFINE y == <<p, "w", f>>
        <4>1. y \in aberto /\ y[3] = f /\ y[1] = p /\ y[2] = "w"
          BY <2>1
        <4>2. Lado(x[1], x[2]) = Lado(y[1], y[2])
          BY <2>6, <3>1, <4>1 DEF Vao, Lados
        <4> QED BY <2>4, <3>1, <4>1, <4>2
      <3>2. CASE x[3] # f
        <4>1. x[3] \in Canal
          BY <2>6 DEF Base, TypeOK
        <4> QED BY <2>3, <2>6, <3>2, <4>1 DEF Vao, Conteudo
      <3> QED BY <3>1, <3>2
    <2>7. ASSUME programa = "pipe"
          PROVE  canal'[B] \in Seq(DosClientes) /\ canal'[A] \in Seq(DoServidor)
      <3>1. canal[B] \in Seq(DosClientes) /\ canal[A] \in Seq(DoServidor)
        BY <2>7 DEF Vao, Conteudo
      <3>2. CASE p = SERVIDOR
        <4>1. f = A /\ DoLado(Lado(p, "w")) = DoServidor
          BY <2>1, <2>7, <3>2, Sentidos
        <4> QED BY <2>3, <2>4, <3>1, <4>1, Nomes
      <3>3. CASE p # SERVIDOR
        <4>1. f = B /\ DoLado(Lado(p, "w")) = DosClientes
          BY <2>1, <2>7, <3>3, Sentidos
        <4> QED BY <2>3, <2>4, <3>1, <4>1, Nomes
      <3> QED BY <3>2, <3>3
    <2>8. \A g \in Canal : canal'[g] # <<>> => \E x \in aberto : x[3] = g
      <3>1. <<p, "w", f>>[3] = f
        OBVIOUS
      <3> QED BY <2>1, <2>3, <3>1 DEF Vao, Conteudo
    <2> QED
      BY <1>1, <1>3, <2>5, <2>6, <2>7, <2>8 DEF Vao, Conteudo
  <1> QED
    BY <1>2, <1>3 DEF Envia

LEMMA RecebeVao ==
  ASSUME Base, Vao, NEW p \in Processo, NEW de \in Conversam, NEW para, Recebe(p, de, para)
  PROVE  Vao' /\ Lido(Ponta(p, "r")) \in DoLado(Lado(p, "r")) \cup {VAZIO}
  <1> DEFINE f == Ponta(p, "r")
  <1>1. /\ pc[p] = de /\ UNCHANGED <<programa, aberto>>
        /\ canal' = [canal EXCEPT ![f] = IF @ = <<>> THEN @ ELSE Tail(@)]
    BY DEF Recebe
  <1>2. f \in Canal
    BY <1>1, PontaTem DEF Conversam
  <1>3. canal[f] \in Seq(DoLado(Lado(p, "r")))
    BY <1>1, OQueHa
  <1> HIDE DEF f
  <1>4. \A T : canal[f] \in Seq(T) => canal'[f] \in Seq(T)
    <2>1. canal'[f] = IF canal[f] = <<>> THEN canal[f] ELSE Tail(canal[f])
      BY <1>1, <1>2 DEF Base, TypeOK
    <2> QED BY <2>1
  <1>5. \A g \in Canal : g # f => canal'[g] = canal[g]
    BY <1>1, <1>2 DEF Base, TypeOK
  <1>6. \A T : \A g \in Canal : canal[g] \in Seq(T) => canal'[g] \in Seq(T)
    BY <1>4, <1>5
  <1>7. Lados'
    BY <1>1 DEF Vao, Lados
  <1>8. programa = "fifo" => \A x \in aberto : canal'[x[3]] \in Seq(DoLado(Lado(x[1], x[2])))
    <2>1. \A x \in aberto : x[3] \in Canal
      BY DEF Base, TypeOK
    <2> QED BY <1>6, <2>1 DEF Vao, Conteudo
  <1>9. programa = "pipe" => canal'[B] \in Seq(DosClientes) /\ canal'[A] \in Seq(DoServidor)
    BY <1>6, Nomes DEF Vao, Conteudo
  <1>10. \A g \in Canal : canal'[g] # <<>> => \E x \in aberto : x[3] = g
    <2>1. \A g \in Canal : canal'[g] # <<>> => canal[g] # <<>>
      BY <1>1, <1>2, <1>5 DEF Base, TypeOK
    <2> QED BY <2>1 DEF Vao, Conteudo
  <1>11. Lido(f) \in DoLado(Lado(p, "r")) \cup {VAZIO}
    <2>1. canal[f] # <<>> => Head(canal[f]) \in DoLado(Lado(p, "r"))
      BY <1>3
    <2> QED BY <2>1 DEF Lido
  <1> QED
    BY <1>1, <1>7, <1>8, <1>9, <1>10, <1>11 DEF Vao, Conteudo, f

\* A fifo that a name stands for is open under no other name, and empty if
\* nobody has it open.
LEMMA openVao ==
  ASSUME Base, Vao, NEW p \in Processo, NEW x, NEW modo, NEW de, NEW espera, NEW para,
         Abertura(p, x, modo, de, espera, para), open(p, x, modo, de, espera, para)
  PROVE  Vao'
  <1>1. pc[p] = de /\ programa' = programa
    BY DEF open
  <1>2. programa = "fifo" /\ x \in Nome /\ x = Lado(p, modo)
    BY <1>1, Nomes, ConstantesAssumption
       DEF Base, TypeOK, PcDoServidor, PcDoCliente, Conversa, Conversando, Acabou, Abertura,
           Nome, Lado, Primeiro, Outro
  <1>3. CASE nome[x] = 0
    BY <1>1, <1>3, FechaVao DEF open
  <1>4. CASE nome[x] # 0
    <2> DEFINE f == nome[x]
               z == <<p, modo, f>>
    <2>1. f \in Canal
      BY <1>2, <1>4 DEF Base, TypeOK
    <2>2. aberto' = aberto \cup {z} /\ canal' = canal
      BY <1>4 DEF open
    <2>3. z[1] = p /\ z[2] = modo /\ z[3] = f
      OBVIOUS
    <2>4. \A y \in aberto : y[3] = f => Lado(y[1], y[2]) = x
      BY <1>2 DEF Base, NomesDistintos
    <2> HIDE DEF z, f
    <2>5. Lados'
      BY <1>2, <2>2, <2>3, <2>4 DEF Vao, Lados
    <2>6. canal[f] \in Seq(DoLado(x))
      <3>1. CASE \E y \in aberto : y[3] = f
        BY <1>2, <2>4, <3>1 DEF Vao, Conteudo
      <3>2. CASE ~\E y \in aberto : y[3] = f
        <4>1. canal[f] = <<>>
          BY <2>1, <3>2 DEF Vao, Conteudo
        <4> QED BY <4>1
      <3> QED BY <3>1, <3>2
    <2>7. \A y \in aberto' : canal'[y[3]] \in Seq(DoLado(Lado(y[1], y[2])))
      BY <1>2, <2>2, <2>3, <2>6 DEF Vao, Conteudo
    <2>8. \A g \in Canal : canal'[g] # <<>> => \E y \in aberto' : y[3] = g
      BY <2>2 DEF Vao, Conteudo
    <2> QED
      BY <1>1, <1>2, <2>5, <2>7, <2>8 DEF Vao, Conteudo
  <1> QED BY <1>3, <1>4

LEMMA ForkVao ==
  ASSUME Base, Vao, Fork
  PROVE  Vao'
  <1>1. programa = "pipe" /\ pc[SERVIDOR] = "fork" /\ UNCHANGED <<programa, canal>>
    BY DEF Fork
  <1>2. \A p \in Processo : De(p) = {}
    BY <1>1, Nomes DEF Base, AntesDoFork, PontasCertas
  <1>3. aberto = {}
    BY <1>2 DEF Base, TypeOK, De
  <1>4. \A f \in Canal : canal[f] = <<>>
    BY <1>3 DEF Vao, Conteudo
  <1> QED
    BY <1>1, <1>4 DEF Vao, Lados, Conteudo

LEMMA ServidorVao ==
  ASSUME Base, Vao, Valores, Servidor
  PROVE  Vao' /\ Valores'
  <1>1. /\ SERVIDOR \in Processo
        /\ Conversa = {"pergunta", "le", "responde"} /\ Conversa \subseteq Conversam
        /\ DoLado(Lado(SERVIDOR, "w")) = DoServidor
        /\ DoLado(Lado(SERVIDOR, "r")) = DosClientes
    BY Nomes, Sentidos DEF Conversa, Conversam
  <1>2. CASE PaiPergunta \/ ServidorPergunta \/ PaiResponde \/ ServidorResponde
    <2>1. /\ \/ Envia(SERVIDOR, "pergunta", PERGUNTA, "le")
             \/ Envia(SERVIDOR, "responde", Raiz(num), "pergunta")
          /\ UNCHANGED <<num, pedido, mostrado>>
      BY <1>2 DEF PaiPergunta, ServidorPergunta, PaiResponde, ServidorResponde, dados
    <2>2. PERGUNTA \in DoServidor /\ Raiz(num) \in DoServidor
      BY DEF Valores, DoServidor
    <2> QED BY <1>1, <2>1, <2>2, EnviaVao DEF Valores
  <1>3. CASE PaiLe \/ ServidorLe
    <2>1. /\ Recebe(SERVIDOR, "le", "responde")
          /\ num' = Lido(Ponta(SERVIDOR, "r")).n
          /\ UNCHANGED <<pedido, mostrado>>
      BY <1>3 DEF PaiLe, ServidorLe
    <2>2. Vao' /\ Lido(Ponta(SERVIDOR, "r")) \in DosClientes \cup {VAZIO}
      BY <1>1, <2>1, RecebeVao
    <2>3. \A m \in DosClientes \cup {VAZIO} : m.n \in Numeros \cup {0}
      BY DEF DosClientes, Numero, VAZIO
    <2> QED BY <2>1, <2>2, <2>3 DEF Valores
  <1>4. CASE ServidorCria \/ ServidorRemove
    BY <1>4, Quieto DEF ServidorCria, ServidorRemove, mkfifo, Remove, dados, Valores
  <1>5. CASE ServidorAbre
    <2>1. /\ Abertura(SERVIDOR, "server1", "r", "abre1", "espera1", "cria2")
          /\ Abertura(SERVIDOR, "server2", "w", "abre2", "espera2", "pergunta")
      BY DEF Abertura, Primeiro, Outro
    <2>2. Vao'
      BY <1>1, <1>5, <2>1, openVao DEF ServidorAbre
    <2> QED BY <1>5, <2>2 DEF ServidorAbre, open, dados, Valores
  <1>6. CASE Fork
    BY <1>6, ForkVao DEF Fork, dados, Valores
  <1>7. CASE PaiFecha
    BY <1>7, FechaVao DEF PaiFecha, FechaPontas, dados, Valores
  <1> QED
    BY <1>2, <1>3, <1>4, <1>5, <1>6, <1>7 DEF Servidor

LEMMA ClienteVao ==
  ASSUME Base, Vao, Valores, NEW c \in Cliente, UmCliente(c)
  PROVE  Vao' /\ Valores'
  <1>1. /\ c \in Processo
        /\ Conversando = {"lePergunta", "teclado", "manda", "leResposta"}
        /\ Conversando \subseteq Conversam
        /\ DoLado(Lado(c, "w")) = DosClientes
        /\ DoLado(Lado(c, "r")) = DoServidor
    BY Nomes, Sentidos DEF Conversando, Conversam
  <1>2. CASE (FilhoManda /\ c = FILHO) \/ ClienteManda(c)
    <2>1. Envia(c, "manda", pedido[c], "leResposta") /\ UNCHANGED <<num, pedido, mostrado>>
      BY <1>2 DEF FilhoManda, ClienteManda, dados
    <2>2. pedido[c] \in DosClientes
      BY DEF Valores
    <2> QED BY <1>1, <2>1, <2>2, EnviaVao DEF Valores
  <1>3. CASE (FilhoOuve /\ c = FILHO) \/ ClienteOuve(c)
    <2>1. Recebe(c, "lePergunta", "teclado") /\ UNCHANGED <<num, pedido, mostrado>>
      BY <1>3 DEF FilhoOuve, ClienteOuve, dados
    <2> QED BY <1>1, <2>1, RecebeVao DEF Valores
  <1>4. CASE (FilhoMostra /\ c = FILHO) \/ ClienteMostra(c)
    <2>1. /\ Recebe(c, "leResposta", "lePergunta")
          /\ mostrado' = [mostrado EXCEPT ![c] = Lido(Ponta(c, "r"))]
          /\ UNCHANGED <<num, pedido>>
      BY <1>4 DEF FilhoMostra, ClienteMostra
    <2>2. Vao' /\ Lido(Ponta(c, "r")) \in DoServidor \cup {VAZIO}
      BY <1>1, <2>1, RecebeVao
    <2>3. \A d \in Cliente : mostrado'[d] = IF d = c THEN Lido(Ponta(c, "r")) ELSE mostrado[d]
      BY <2>1 DEF Base, TypeOK
    <2> QED BY <2>1, <2>2, <2>3 DEF Valores
  <1>5. CASE ClienteCria(c) \/ ClienteRemove(c)
    BY <1>5, Quieto DEF ClienteCria, ClienteRemove, mkfifo, Remove, dados, Valores
  <1>6. CASE ClienteAbre(c)
    <2>1. /\ Abertura(c, "server1", "w", "abre1", "espera1", "cria2")
          /\ Abertura(c, "server2", "r", "abre2", "espera2", "lePergunta")
      BY Nomes DEF Abertura, Primeiro, Outro
    <2>2. Vao'
      BY <1>1, <1>6, <2>1, openVao DEF ClienteAbre
    <2> QED BY <1>6, <2>2 DEF ClienteAbre, open, dados, Valores
  <1>7. CASE FilhoFecha
    BY <1>7, FechaVao DEF FilhoFecha, FechaPontas, dados, Valores
  <1> QED
    BY <1>2, <1>3, <1>4, <1>5, <1>6, <1>7 DEF UmCliente

LEMMA VaoPasso ==
  ASSUME Base, Vao, Valores, [Next]_vars
  PROVE  Vao' /\ Valores'
  <1>1. CASE \E c \in Cliente : Digita(c)
    <2>1. PICK c \in Cliente : Digita(c)
      BY <1>1
    <2>2. PICK m \in {Numero(n) : n \in Numeros} \cup {VAZIO} :
            pedido' = [pedido EXCEPT ![c] = m]
      BY <2>1 DEF Digita
    <2>3. \A d \in Cliente : pedido'[d] \in DosClientes
      BY <2>2 DEF Base, TypeOK, Valores, DosClientes
    <2>4. UNCHANGED <<programa, aberto, canal, num, mostrado>>
      BY <2>1 DEF Digita, canais
    <2> QED BY <2>3, <2>4, Quieto DEF Valores
  <1>2. CASE (\E c \in Cliente : Comeca(c)) \/ UNCHANGED vars
    BY <1>2, Quieto DEF Comeca, canais, dados, vars, Valores
  <1>3. CASE Recomeca
    BY <1>3, Quieto DEF Recomeca, canais, Valores
  <1>4. CASE \E p \in Processo : Mata(p) \/ Sinal(p)
    BY <1>4, FechaVao DEF Mata, Sinal, dados, Valores
  <1> QED
    BY <1>1, <1>2, <1>3, <1>4, ServidorVao, ClienteVao DEF Next

\* Each name is for one direction, whatever fifos it comes to stand for.
THEOREM Direcao == Spec => []Direcoes
  <1>1. Direcoes <=> Vao /\ Valores
    BY DEF Direcoes, Vao
  <1>2. Init => Direcoes
    <2> SUFFICES ASSUME Init PROVE Direcoes
      OBVIOUS
    <2>1. aberto = {} /\ (\A f \in Canal : canal[f] = <<>>) /\ num = 0
          /\ \A c \in Cliente : pedido[c] = VAZIO /\ mostrado[c] = NADA
      BY DEF Init
    <2>2. \A T : <<>> \in Seq(T)
      OBVIOUS
    <2>3. canal[A] = <<>> /\ canal[B] = <<>>
      BY <2>1, Nomes
    <2>4. Vao
      BY <2>1, <2>2, <2>3 DEF Vao, Lados, Conteudo
    <2>5. Valores
      BY <2>1 DEF Valores, DosClientes
    <2> QED BY <1>1, <2>4, <2>5
  <1>3. IInv /\ Direcoes /\ [Next]_vars => Direcoes'
    <2>1. IInv => Base
      BY DEF IInv, Base
    <2>2. Direcoes' <=> Vao' /\ Valores'
      BY DEF Direcoes, Vao
    <2> QED BY <1>1, <2>1, <2>2, VaoPasso
  <1> QED BY <1>2, <1>3, Indutivo, PTL DEF Spec

\* With any number of clients and servers on the same two names, which are
\* removed and made again at any time, nobody ever reads what its own side wrote
\* and no client is shown anything that no server wrote.
THEOREM MaoUnicaSempre == Spec => []MaoUnica
  <1>1. IInv /\ Direcoes => MaoUnica
    <2> SUFFICES ASSUME IInv, Direcoes PROVE MaoUnica
      OBVIOUS
    <2>1. Base /\ Vao
      BY DEF IInv, Base, Direcoes, Vao
    <2>2. pc[SERVIDOR] \in Conversa => canal[Ponta(SERVIDOR, "r")] \in Seq(DosClientes)
      BY <2>1, OQueHa, Sentidos, Nomes DEF Conversam
    <2>3. \A c \in Cliente : pc[c] \in Conversando => canal[Ponta(c, "r")] \in Seq(DoServidor)
      BY <2>1, OQueHa, Sentidos, Nomes DEF Conversam
    <2> QED BY <2>2, <2>3 DEF MaoUnica, Direcoes, Valores
  <1> QED BY <1>1, Indutivo, Direcao, PTL

-----------------------------------------------------------------------------
(* The shell *)

LEMMA ShellProcessos ==
  /\ IsFiniteSet(Pid) /\ Pid \subseteq Nat
  /\ 0 \notin Pid /\ PRIMEIRO \in Pid
<1>1. MaxLinhas + 1 \in Int
  BY ShellAssumption, SMT
<1>2. IsFiniteSet(Pid)
  BY <1>1, FS_Interval DEF Pid
<1>3. Pid \subseteq Nat /\ 0 \notin Pid /\ PRIMEIRO \in Pid
  BY ShellAssumption, SMT DEF Pid, PRIMEIRO
<1> QED
  BY <1>2, <1>3

LEMMA Adiante ==
  ASSUME NEW a \in Int, NEW b \in Int, b >= a
  PROVE  \A p \in Pid : p > b + 1 => p > a + 1
BY ShellProcessos, SMT

LEMMA FilhosFinitos ==
  \A s : IsFiniteSet(Filhos(s)) /\ Cardinality(Filhos(s)) \in Nat
<1>1. \A s : Filhos(s) \in SUBSET Pid
  BY DEF Filhos
<1> QED
  BY <1>1, ShellProcessos, FS_Subset, FS_CardinalityType

\* What Divida says of one shell.
Salda(s) == tipo[s] = "shell" =>
  Cardinality(Filhos(s)) = semEspera[s] + IF estado[s] = "espera" THEN 1 ELSE 0

LEMMA DividaDeTodos ==
  Divida <=> \A s \in Pid : Salda(s)
BY DEF Divida, Salda

\* Who keeps its children, its debt and its pc keeps its balance.
LEMMA Mantem ==
  ASSUME NEW s \in Pid, Salda(s), tipo'[s] = tipo[s],
         Filhos(s)' = Filhos(s),
         semEspera'[s] = semEspera[s], estado'[s] = estado[s]
  PROVE  Salda(s)'
BY DEF Salda

-----------------------------------------------------------------------------
(* A line *)

\* The process that a line makes is new.
LEMMA Novo ==
  ASSUME TipoDosProcessos, Novos, linhas < MaxLinhas
  PROVE  /\ linhas + 2 \in Pid /\ linhas + 2 # PRIMEIRO
         /\ tipo[linhas + 2] = "livre" /\ estado[linhas + 2] = "prompt"
         /\ semEspera[linhas + 2] = 0
<1>1. linhas + 2 \in Pid /\ linhas + 2 # PRIMEIRO /\ linhas + 2 > linhas + 1
  BY ShellAssumption, SMT DEF TipoDosProcessos, Pid, PRIMEIRO
<1>2. tipo[linhas + 2] = "livre"
  BY <1>1 DEF Novos
<1> QED
  BY <1>1, <1>2 DEF Novos

LEMMA PassoComando ==
  ASSUME ShIInv, NEW s \in Pid, NEW l, tipo[s] = "shell",
         estado[s] = "prompt",
         linhas < MaxLinhas, Comando(s, l), linhas' = linhas + 1
  PROVE  ShIInv'
<1> DEFINE h == Guarda(comands[s], l)
<1> USE DEF ShIInv
<1>1. PICK f \in Pid :
        /\ f = linhas + 2 /\ f # PRIMEIRO
        /\ tipo[f] = "livre" /\ estado[f] = "prompt" /\ semEspera[f] = 0
  BY Novo
<1>2. Torna(h, l) \in Vivos
  BY DEF Torna, Vivos
<1>3. f # s /\ f # 0 /\ s # 0
  BY <1>1, ShellProcessos
<1>4. /\ tipo' = [tipo EXCEPT ![f] = Torna(h, l)]
      /\ pai' = [pai EXCEPT ![f] = s]
      /\ estado' = IF ParaEsperar(l) THEN [estado EXCEPT ![s] = "espera"] ELSE estado
      /\ semEspera' = IF ParaEsperar(l) THEN semEspera
                      ELSE [semEspera EXCEPT ![s] = @ + 1]
  BY <1>1 DEF Comando
<1> HIDE DEF h
<1>5. /\ tipo'[f] \in Vivos /\ \A p \in Pid \ {f} : tipo'[p] = tipo[p]
      /\ pai'[f] = s /\ \A p \in Pid \ {f} : pai'[p] = pai[p]
      /\ \A p \in Pid \ {s} : estado'[p] = estado[p] /\ semEspera'[p] = semEspera[p]
  BY <1>1, <1>2, <1>4 DEF TipoDosProcessos
<1>6. /\ ParaEsperar(l) => estado'[s] = "espera" /\ semEspera'[s] = semEspera[s]
      /\ ~ParaEsperar(l) => estado'[s] = "prompt" /\ semEspera'[s] = semEspera[s] + 1
  BY <1>4 DEF TipoDosProcessos
<1>7. TipoDosProcessos'
  <2>1. tipo' \in [Pid -> Vivos \cup {"livre", "fim"}]
    BY <1>2, <1>4 DEF TipoDosProcessos
  <2>2. pai' \in [Pid -> {0} \cup Pid]
    BY <1>4 DEF TipoDosProcessos
  <2>3. estado' \in [Pid -> {"prompt", "espera"}]
    BY <1>4 DEF TipoDosProcessos
  <2>4. semEspera' \in [Pid -> Int]
    BY <1>4, SMT DEF TipoDosProcessos
  <2>5. linhas' \in 0..MaxLinhas
    BY ShellAssumption, SMT DEF TipoDosProcessos
  <2> QED
    BY <2>1, <2>2, <2>3, <2>4, <2>5 DEF TipoDosProcessos
<1>8. Novos'
  <2>1. ASSUME NEW p \in Pid, p > linhas' + 1 PROVE tipo'[p] = "livre"
    <3>1. p # f /\ p > linhas + 1
      BY <1>1, <2>1, ShellProcessos, SMT DEF TipoDosProcessos
    <3> QED
      BY <1>5, <3>1 DEF Novos
  <2>2. ASSUME NEW p \in Pid, tipo'[p] = "livre" PROVE semEspera'[p] = 0
    <3>1. p # f /\ p # s
      BY <1>3, <1>5, <2>2 DEF Vivos
    <3> QED
      BY <1>5, <2>2, <3>1 DEF Novos
  <2>3. ASSUME NEW p \in Pid, tipo'[p] # "shell" PROVE estado'[p] = "prompt"
    <3>1. p # s
      BY <1>3, <1>5, <2>3
    <3> QED
      BY <1>1, <1>5, <2>3, <3>1 DEF Novos
  <2> QED
    BY <2>1, <2>2, <2>3 DEF Novos
<1>9. Familia'
  <2>1. pai'[PRIMEIRO] = 0
    BY <1>1, <1>5, ShellProcessos DEF Familia
  <2>2. tipo'[s] = "shell"
    BY <1>3, <1>5
  <2>3. ASSUME NEW p \in Pid, tipo'[p] \in Vivos, p # f, pai'[p] # 0
        PROVE  tipo'[pai'[p]] = "shell"
    <3>1. tipo[p] \in Vivos /\ pai'[p] = pai[p] /\ pai[p] \in Pid
      BY <1>5, <2>3 DEF TipoDosProcessos
    <3>2. tipo[pai[p]] = "shell"
      BY <2>3, <3>1 DEF Familia
    <3> QED
      BY <1>1, <1>5, <3>1, <3>2
  <2>4. ASSUME NEW p \in Pid, tipo'[p] \in Vivos, p # f, pai'[p] = 0,
     p # PRIMEIRO
        PROVE  \E q \in Pid : tipo'[q] # "shell" /\ semEspera'[q] > 0
    <3>1. PICK q \in Pid : tipo[q] # "shell" /\ semEspera[q] > 0
      BY <1>5, <2>4 DEF Familia
    <3>2. q # f /\ q # s
      <4>1. semEspera[f] = 0 /\ ~(0 > 0)
        BY <1>1, SMT
      <4> QED
        BY <3>1, <4>1
    <3> QED
      BY <1>5, <3>1, <3>2
  <2> QED
    BY <1>3, <1>5, <2>1, <2>2, <2>3, <2>4 DEF Familia
<1>10. ASSUME NEW p \in Pid PROVE Salda(p)'
  <2>1. CASE p = f
    <3>1. ASSUME NEW q \in Pid, pai'[q] = f, tipo'[q] \in Vivos PROVE FALSE
      BY <1>1, <1>3, <1>5, <3>1 DEF Familia
    <3>2. Filhos(f)' = {}
      BY <3>1 DEF Filhos
    <3>3. Cardinality(Filhos(f)') = 0 /\ estado'[f] = "prompt" /\ semEspera'[f] = 0
      BY <1>1, <1>3, <1>5, <3>2, FS_EmptySet
    <3> QED
      BY <2>1, <3>3, SMT DEF Salda
  <2>2. CASE p = s
    <3>1. Filhos(s)' = Filhos(s) \cup {f} /\ f \notin Filhos(s)
      BY <1>1, <1>3, <1>5 DEF Filhos, Vivos
    <3>2. Cardinality(Filhos(s)') = Cardinality(Filhos(s)) + 1
      BY <3>1, FilhosFinitos, FS_AddElement
    <3>3. Cardinality(Filhos(s)) = semEspera[s] /\ semEspera[s] \in Int
      BY DividaDeTodos, SMT DEF Salda, TipoDosProcessos
    <3> QED
      BY <1>6, <2>2, <3>2, <3>3, SMT DEF Salda
  <2>3. CASE p # f /\ p # s
    <3>1. Filhos(p)' = Filhos(p)
      BY <1>1, <1>3, <1>5, <2>3 DEF Filhos, Vivos
    <3> QED
      BY <1>5, <2>3, <3>1, DividaDeTodos, Mantem
  <2> QED
    BY <2>1, <2>2, <2>3
<1> QED
  BY <1>7, <1>8, <1>9, <1>10 DEF Divida, Salda

\* Without a new process a shell waits for whatever child it has.
LEMMA PassoComandoSemFork ==
  ASSUME ShIInv, NEW s \in Pid, NEW l, tipo[s] = "shell",
         estado[s] = "prompt",
         linhas < MaxLinhas, ComandoSemFork(s, l), linhas' = linhas + 1
  PROVE  ShIInv'
<1> USE DEF ShIInv
<1>1. tipo' = tipo /\ pai' = pai /\ linhas' \in 0..MaxLinhas
  BY ShellAssumption, SMT DEF ComandoSemFork, TipoDosProcessos
<1>2. \A p \in Pid : Filhos(p)' = Filhos(p)
  BY <1>1 DEF Filhos
<1>3. /\ estado' \in [Pid -> {"prompt", "espera"}]
      /\ semEspera' \in [Pid -> Int]
      /\ \A p \in Pid \ {s} : estado'[p] = estado[p] /\ semEspera'[p] = semEspera[p]
  BY SMT DEF ComandoSemFork, TipoDosProcessos
<1>4. \/ estado'[s] = estado[s] /\ semEspera'[s] = semEspera[s]
      \/ estado'[s] = "espera" /\ semEspera'[s] = semEspera[s] - 1
  BY DEF ComandoSemFork, TipoDosProcessos
<1>5. TipoDosProcessos'
  BY <1>1, <1>3 DEF TipoDosProcessos
<1>6. Novos'
  <2>1. \A p \in Pid : p > linhas' + 1 => p > linhas + 1
    BY ShellProcessos, SMT DEF TipoDosProcessos
  <2>2. \A p \in Pid : tipo[p] # "shell" => p # s
    OBVIOUS
  <2>3. \A p \in Pid : tipo[p] = "livre" => tipo[p] # "shell"
    OBVIOUS
  <2> QED
    BY <1>1, <1>3, <2>1, <2>2, <2>3 DEF Novos
<1>7. Familia'
  <2>1. \A q \in Pid : tipo[q] # "shell" => semEspera'[q] = semEspera[q]
    BY <1>3
  <2> QED
    BY <1>1, <2>1 DEF Familia
<1>8. ASSUME NEW p \in Pid PROVE Salda(p)'
  <2>1. CASE p # s
    BY <1>1, <1>2, <1>3, <2>1, DividaDeTodos, Mantem
  <2>2. CASE p = s
    <3>1. Cardinality(Filhos(s)) = semEspera[s] /\ semEspera[s] \in Int
      BY DividaDeTodos, SMT DEF Salda, TipoDosProcessos
    <3> QED
      BY <1>2, <1>4, <2>2, <3>1, SMT DEF Salda
  <2> QED
    BY <2>1, <2>2
<1> QED
  BY <1>5, <1>6, <1>7, <1>8 DEF Divida, Salda

-----------------------------------------------------------------------------
(* The end of a process *)

\* Who ends is still a child of its parent, and its own children have none:
\* a shell leaves them with its debt, a program has none.
LEMMA PassoAcaba ==
  ASSUME ShIInv, NEW e \in Pid, tipo[e] \in {"shell", "programa"},
         tipo[e] = "shell" => estado[e] = "prompt",
         Acaba(e), UNCHANGED <<estado, semEspera>>, linhas' \in {linhas, linhas + 1},
         linhas' <= MaxLinhas
  PROVE  ShIInv'
<1> USE DEF ShIInv
<1>1. \A q \in Pid :
        /\ tipo'[q] = IF q = e THEN IF pai[e] = 0 THEN "fim" ELSE "zumbi"
                      ELSE IF pai[q] = e /\ tipo[q] = "zumbi" THEN "fim" ELSE tipo[q]
        /\ pai'[q] = IF pai[q] = e THEN 0 ELSE pai[q]
  BY DEF Acaba
<1>2. tipo' \in [Pid -> Vivos \cup {"livre", "fim"}]
  BY DEF Acaba, TipoDosProcessos, Vivos
<1>3. pai' \in [Pid -> {0} \cup Pid]
  BY DEF Acaba, TipoDosProcessos
<1>4. TipoDosProcessos'
  <2>1. linhas' \in 0..MaxLinhas
    BY SMT DEF TipoDosProcessos
  <2> QED
    BY <1>2, <1>3, <2>1 DEF TipoDosProcessos
<1>5. Novos'
  <2>0. linhas \in Int /\ linhas' \in Int /\ linhas' >= linhas
    BY SMT DEF TipoDosProcessos
  <2>1. \A p \in Pid : p > linhas' + 1 => p > linhas + 1
    BY <2>0, Adiante
  <2>2. \A p \in Pid : tipo[p] = "livre" <=> tipo'[p] = "livre"
    BY <1>1
  <2>3. \A p \in Pid : tipo'[p] # "shell" => tipo[p] # "shell" \/ p = e
    BY <1>1
  <2>4. estado[e] = "prompt"
    BY DEF Novos
  <2> QED
    BY <2>1, <2>2, <2>3, <2>4 DEF Novos
<1>6. Familia'
  <2>1. \A p \in Pid : tipo'[p] \in Vivos => tipo[p] \in Vivos
    BY <1>1 DEF Vivos
  <2>2. ASSUME NEW p \in Pid, tipo'[p] \in Vivos, pai'[p] # 0
        PROVE  tipo'[pai'[p]] = "shell"
    <3>1. pai'[p] = pai[p] /\ pai[p] # e /\ pai[p] \in Pid
      BY <1>1, <2>2 DEF TipoDosProcessos
    <3>2. tipo[pai[p]] = "shell"
      BY <2>1, <2>2, <3>1 DEF Familia
    <3> QED
      BY <1>1, <3>1, <3>2
  <2>3. ASSUME NEW p \in Pid, tipo'[p] \in Vivos, pai'[p] = 0, p # PRIMEIRO
        PROVE  \E q \in Pid : tipo'[q] # "shell" /\ semEspera'[q] > 0
    <3>1. CASE pai[p] = 0
      <4>1. PICK q \in Pid : tipo[q] # "shell" /\ semEspera[q] > 0
        BY <2>1, <2>3, <3>1 DEF Familia
      <4>2. tipo'[q] # "shell"
        BY <1>1, <4>1
      <4> QED
        BY <4>1, <4>2
    <3>2. CASE pai[p] # 0
      <4>1. pai[p] = e /\ tipo[e] = "shell" /\ p \in Filhos(e)
        BY <1>1, <2>1, <2>3, <3>2 DEF Familia, Filhos
      <4>2. Cardinality(Filhos(e)) # 0 /\ Cardinality(Filhos(e)) \in Nat
        BY <4>1, FilhosFinitos, FS_EmptySet
      <4>3. Cardinality(Filhos(e)) = semEspera[e] + 0 /\ semEspera[e] \in Int
        BY <4>1, DividaDeTodos DEF Salda, TipoDosProcessos
      <4>4. semEspera[e] > 0
        BY <4>2, <4>3, SMT
      <4>5. tipo'[e] # "shell"
        BY <1>1
      <4> QED
        BY <4>4, <4>5
    <3> QED
      BY <3>1, <3>2
  <2>4. pai'[PRIMEIRO] = 0
    BY <1>1, ShellProcessos DEF Familia
  <2> QED
    BY <2>2, <2>3, <2>4 DEF Familia
<1>7. ASSUME NEW p \in Pid PROVE Salda(p)'
  <2>1. CASE tipo'[p] = "shell"
    <3>1. p # e /\ tipo[p] = "shell" /\ p # 0
      BY <1>1, <2>1, ShellProcessos
    <3>2. \A q \in Pid : pai[q] = p
       => (tipo'[q] \in Vivos <=> tipo[q] \in Vivos)
      BY <1>1, <3>1 DEF Vivos
    <3>3. \A q \in Pid : pai[q] = p <=> pai'[q] = p
      BY <1>1, <3>1
    <3>4. Filhos(p)' = Filhos(p)
      BY <3>2, <3>3 DEF Filhos
    <3> QED
      BY <2>1, <3>1, <3>4, DividaDeTodos, Mantem
  <2>2. CASE tipo'[p] # "shell"
    BY <2>2 DEF Salda
  <2> QED
    BY <2>1, <2>2
<1> QED
  BY <1>4, <1>5, <1>6, <1>7 DEF Divida, Salda

-----------------------------------------------------------------------------
(* Waiting *)

\* A wait takes one child away and owes one less.
LEMMA PassoEspera ==
  ASSUME ShIInv, NEW s \in Pid, Espera(s) PROVE ShIInv'
<1> USE DEF ShIInv
<1>1. PICK z \in Filhos(s) : tipo[z] = "zumbi" /\ tipo' = [tipo EXCEPT ![z] = "fim"]
  BY DEF Espera
<1>2. /\ tipo[s] = "shell" /\ estado[s] = "espera" /\ estado' = [estado EXCEPT ![s] = "prompt"]
      /\ UNCHANGED <<pai, linhas, semEspera>>
  BY DEF Espera
<1>3. z \in Pid /\ pai[z] = s /\ z # s
  BY <1>1, <1>2 DEF Filhos
<1>4. /\ \A p \in Pid \ {z} : tipo'[p] = tipo[p]
      /\ tipo'[z] = "fim"
      /\ \A p \in Pid \ {s} : estado'[p] = estado[p]
      /\ estado'[s] = "prompt"
  BY <1>1, <1>2, <1>3 DEF TipoDosProcessos
<1>5. TipoDosProcessos'
  BY <1>1, <1>2 DEF TipoDosProcessos
<1>6. Novos'
  <2>1. \A p \in Pid : tipo'[p] = "livre" <=> tipo[p] = "livre"
    BY <1>1, <1>4
  <2>2. linhas' = linhas /\ semEspera' = semEspera
    BY <1>2
  <2>3. \A p \in Pid : tipo'[p] # "shell" => estado'[p] = "prompt"
    BY <1>1, <1>4 DEF Novos
  <2> QED
    BY <2>1, <2>2, <2>3 DEF Novos
<1>7. Familia'
  <2>1. \A p \in Pid : (tipo'[p] \in Vivos => tipo[p] \in Vivos)
                           /\ (tipo'[p] = "shell" <=> tipo[p] = "shell")
    BY <1>1, <1>4 DEF Vivos
  <2>2. \A p \in Pid : pai[p] # 0 => pai[p] \in Pid
    BY DEF TipoDosProcessos
  <2>3. pai' = pai /\ semEspera' = semEspera
    BY <1>2
  <2> QED
    BY <2>1, <2>2, <2>3 DEF Familia
<1>8. ASSUME NEW p \in Pid PROVE Salda(p)'
  <2>1. CASE p = s
    <3>1. Filhos(s)' = Filhos(s) \ {z} /\ z \in Filhos(s)
      BY <1>1, <1>2, <1>3, <1>4 DEF Filhos, Vivos
    <3>2. Cardinality(Filhos(s)') = Cardinality(Filhos(s)) - 1
      BY <3>1, FilhosFinitos, FS_RemoveElement
    <3>3. Cardinality(Filhos(s)) = semEspera[s] + 1 /\ semEspera[s] \in Int
      BY <1>2, DividaDeTodos DEF Salda, TipoDosProcessos
    <3>4. semEspera' = semEspera
      BY <1>2
    <3> QED
      BY <1>4, <2>1, <3>2, <3>3, <3>4, SMT DEF Salda
  <2>2. CASE p = z
    BY <1>4, <2>2 DEF Salda
  <2>3. CASE p # s /\ p # z
    <3>1. Filhos(p)' = Filhos(p)
      BY <1>2, <1>3, <1>4, <2>3 DEF Filhos
    <3>2. semEspera'[p] = semEspera[p] /\ tipo'[p] = tipo[p] /\ estado'[p] = estado[p]
      BY <1>2, <1>4, <2>3
    <3> QED
      BY <3>1, <3>2, DividaDeTodos, Mantem
  <2> QED
    BY <2>1, <2>2, <2>3
<1> QED
  BY <1>5, <1>6, <1>7, <1>8 DEF Divida, Salda

-----------------------------------------------------------------------------
(* The theorems *)

LEMMA ShellInicio ==
  ShInit => ShIInv
<1> SUFFICES ASSUME ShInit PROVE ShIInv
  OBVIOUS
<1>1. TipoDosProcessos
  <2>1. 0 \in 0..MaxLinhas
    BY ShellAssumption, SMT
  <2> QED
    BY <2>1, ShellProcessos DEF ShInit, TipoDosProcessos, Vivos
<1>2. Novos
  <2>1. ~(PRIMEIRO > 0 + 1)
    BY SMT DEF PRIMEIRO
  <2> QED
    BY <2>1 DEF ShInit, Novos
<1>3. Familia
  BY ShellProcessos DEF ShInit, Familia, Vivos
<1>4. Divida
  <2>1. ASSUME NEW s \in Pid PROVE Cardinality(Filhos(s)) = 0
    <3>1. Filhos(s) = {}
      BY ShellProcessos DEF ShInit, Filhos
    <3> QED
      BY <3>1, FS_EmptySet
  <2>2. \A s \in Pid : semEspera[s] = 0 /\ estado[s] = "prompt"
    BY DEF ShInit
  <2> QED
    BY <2>1, <2>2, DividaDeTodos, SMT DEF Salda
<1> QED
  BY <1>1, <1>2, <1>3, <1>4 DEF ShIInv

LEMMA ShellPasso ==
  ShIInv /\ [ShNext]_Shvars => ShIInv'
<1> SUFFICES ASSUME ShIInv, [ShNext]_Shvars PROVE ShIInv'
  OBVIOUS
<1>1. ASSUME NEW s \in Pid, Le(s) PROVE ShIInv'
  <2>1. /\ tipo[s] = "shell" /\ estado[s] = "prompt" /\ linhas < MaxLinhas
        /\ linhas' = linhas + 1
    BY <1>1 DEF Le
  <2>2. PICK l : \/ Comando(s, l) \/ ComandoSemFork(s, l) \/ Sai(s)
    BY <1>1 DEF Le
  <2>3. CASE Comando(s, l)
    BY <2>1, <2>3, PassoComando
  <2>4. CASE ComandoSemFork(s, l)
    BY <2>1, <2>4, PassoComandoSemFork
  <2>5. CASE Sai(s)
    <3>1. linhas' \in {linhas, linhas + 1} /\ linhas' <= MaxLinhas
      BY <2>1, ShellAssumption, SMT DEF ShIInv, TipoDosProcessos
    <3> QED
      BY <2>1, <2>5, <3>1, PassoAcaba DEF Sai
  <2> QED
    BY <2>2, <2>3, <2>4, <2>5
<1>2. ASSUME NEW p \in Pid, Termina(p) PROVE ShIInv'
  <2>1. linhas' \in {linhas, linhas + 1} /\ linhas' <= MaxLinhas
    BY <1>2, ShellAssumption, SMT DEF ShIInv, TipoDosProcessos, Termina
  <2> QED
    BY <1>2, <2>1, PassoAcaba DEF Termina
<1>3. ASSUME NEW s \in Pid, Espera(s) PROVE ShIInv'
  BY <1>3, PassoEspera
<1>4. CASE UNCHANGED (Shvars)
  BY <1>4 DEF Shvars, ShIInv, TipoDosProcessos, Novos, Familia, Divida,
     Filhos
<1> QED
  BY <1>1, <1>2, <1>3, <1>4 DEF ShNext

\* Types, newness, families and balances hold in every state.
THEOREM ShellIndutivo ==
  ShSpec => []ShIInv
BY ShellInicio, ShellPasso, PTL DEF ShSpec

\* The children of every shell are those it waits for and those no wait is
\* for, whatever is typed to whichever shell, and whichever fork fails.
THEOREM DividaSempre ==
  ShSpec => []Divida
BY ShellIndutivo, PTL DEF ShIInv

\* Two shells at the prompt would leave too few waiting shells to be the
\* parents of all the others: one would have two children and one wait.
LEMMA SoUmLeitor ==
  ASSUME ShIInv, \A p \in Pid : semEspera[p] = 0,
         NEW a \in NoPrompt, NEW b \in NoPrompt
  PROVE  a = b
<1> DEFINE V == {p \in Pid : tipo[p] \in Vivos}
           E == {p \in Pid : tipo[p] = "shell" /\ estado[p] = "espera"}
           F == V \ {PRIMEIRO}
<1> SUFFICES ASSUME a # b PROVE FALSE
  OBVIOUS
<1>1. /\ a \in V /\ b \in V /\ IsFiniteSet(V)
      /\ IsFiniteSet(V \ {a}) /\ IsFiniteSet((V \ {a}) \ {b}) /\ IsFiniteSet(F)
  <2>1. a \in V /\ b \in V
    BY DEF NoPrompt, Vivos
  <2>2. V \in SUBSET Pid
    OBVIOUS
  <2>3. IsFiniteSet(V)
    BY <2>2, ShellProcessos, FS_Subset
  <2> HIDE DEF V
  <2> QED
    BY <2>1, <2>3, FS_RemoveElement
<1>2. E \subseteq (V \ {a}) \ {b}
  BY DEF NoPrompt, Vivos
<1>3. \A p \in F : pai[p] \in E /\ p \in Filhos(pai[p])
   /\ Cardinality(Filhos(pai[p])) = 1
  <2> SUFFICES ASSUME NEW p \in F
               PROVE  pai[p] \in E /\ p \in Filhos(pai[p])
                  /\ Cardinality(Filhos(pai[p])) = 1
    OBVIOUS
  <2>1. pai[p] # 0 /\ tipo[pai[p]] = "shell"
    <3>1. ~\E q \in Pid : semEspera[q] > 0
      BY SMT
    <3> QED
      BY <3>1 DEF ShIInv, Familia
  <2>2. pai[p] \in Pid /\ p \in Filhos(pai[p])
    BY <2>1 DEF ShIInv, TipoDosProcessos, Filhos
  <2>3. Cardinality(Filhos(pai[p])) = IF estado[pai[p]] = "espera" THEN 1 ELSE 0
    BY <2>1, <2>2, DividaDeTodos, SMT DEF ShIInv, Salda
  <2>4. Cardinality(Filhos(pai[p])) # 0
    BY <2>2, FilhosFinitos, FS_EmptySet
  <2> QED
    BY <2>1, <2>2, <2>3, <2>4
<1> HIDE DEF V, E
<1>4. Cardinality(E) < Cardinality(F) /\ IsFiniteSet(E)
  <2>1. Cardinality((V \ {a}) \ {b}) = Cardinality(V) - 2
    <3>1. Cardinality(V \ {a}) = Cardinality(V) - 1
      BY <1>1, FS_RemoveElement
    <3>2. b \in V \ {a}
      BY <1>1
    <3>3. Cardinality((V \ {a}) \ {b}) = Cardinality(V \ {a}) - 1
      BY <1>1, <3>2, FS_RemoveElement
    <3>4. Cardinality(V) \in Nat
      BY <1>1, FS_CardinalityType
    <3> QED
      BY <3>1, <3>3, <3>4, SMT
  <2>2. IsFiniteSet(E) /\ Cardinality(E) <= Cardinality((V \ {a}) \ {b})
    BY <1>1, <1>2, FS_Subset
  <2>3. Cardinality(F) \in {Cardinality(V), Cardinality(V) - 1}
    BY <1>1, FS_RemoveElement
  <2>4. Cardinality(V) \in Nat /\ Cardinality(E) \in Nat
    BY <1>1, <2>2, FS_CardinalityType
  <2> QED
    BY <2>1, <2>2, <2>3, <2>4, SMT
<1>5. PICK p \in F, q \in F : p # q /\ pai[p] = pai[q]
  <2> DEFINE g == [p \in F |-> pai[p]]
  <2>1. g \in [F -> E]
    BY <1>3
  <2> HIDE DEF F, g
  <2>2. \E x, y \in F : x # y /\ g[x] = g[y]
    BY <1>1, <1>4, <2>1, FS_PigeonHole
  <2> QED
    BY <2>2 DEF g
<1>6. \E x : Filhos(pai[p]) = {x}
  BY <1>3, FilhosFinitos, FS_Singleton
<1> QED
  BY <1>3, <1>5, <1>6

\* As long as no process has children that no wait is for, one shell at most
\* reads the terminal.
THEOREM UmSoLeitorSempre ==
  ShSpec => []UmSoLeitor
<1>1. ShIInv => UmSoLeitor
  <2> SUFFICES ASSUME ShIInv, \A p \in Pid : semEspera[p] = 0
               PROVE  Cardinality(NoPrompt) <= 1
    BY DEF UmSoLeitor
  <2>1. \/ NoPrompt = {}
        \/ \E x : NoPrompt = {x}
    BY SoUmLeitor
  <2>2. Cardinality(NoPrompt) \in {0, 1}
    BY <2>1, FS_EmptySet, FS_Singleton
  <2> QED
    BY <2>2, SMT
<1> QED
  BY <1>1, ShellIndutivo, PTL
=============================================================================
