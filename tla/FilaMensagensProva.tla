-------------------------- MODULE FilaMensagensProva --------------------------
(***************************************************************************)
(* Proofs about FilaMensagens, for any number of clients, any lines and    *)
(* any number of restarts: no queue holds more than two messages of each   *)
(* client, no queue mixes lines and answers, and a client that no other    *)
(* has joined is shown the translation of its last line, if anything.      *)
(***************************************************************************)
EXTENDS FilaMensagens, FiniteSetTheorems, SequenceTheorems, TLAPS

-----------------------------------------------------------------------------
(* Sequences *)

LEMMA Curtas ==
  ASSUME NEW x, NEW y
  PROVE  /\ <<x>> # <<>> /\ Head(<<x>>) = x /\ Tail(<<x>>) = <<>>
         /\ Append(<<>>, x) = <<x>> /\ Append(<<x>>, y) = <<x, y>>
         /\ <<x, y>> # <<>> /\ Head(<<x, y>>) = x /\ Tail(<<x, y>>) = <<y>>
<1>1. <<x>> # <<>> /\ Head(<<x>>) = x /\ Tail(<<x>>) = <<>> /\ Append(<<>>, x) = <<x>>
  OBVIOUS
<1>2. <<x, y>> # <<>> /\ Head(<<x, y>>) = x
  OBVIOUS
<1>3. Append(<<x>>, y) = <<x, y>>
  <2> DEFINE S == {x, y}
  <2>1. <<x>> \in Seq(S) /\ <<x, y>> \in Seq(S) /\ y \in S /\ Len(<<x>>) = 1 /\ Len(<<x, y>>) = 2
        /\ <<x>>[1] = x /\ <<x, y>>[1] = x /\ <<x, y>>[2] = y
    OBVIOUS
  <2> HIDE DEF S
  <2>2. /\ Append(<<x>>, y) \in Seq(S) /\ Len(Append(<<x>>, y)) = 2
        /\ Append(<<x>>, y)[1] = x /\ Append(<<x>>, y)[2] = y
    BY <2>1, AppendProperties
  <2> DEFINE a == Append(<<x>>, y)
             b == <<x, y>>
  <2>3. /\ a \in Seq(S) /\ b \in Seq(S) /\ Len(a) = Len(b)
        /\ \A i \in 1..Len(a) : a[i] = b[i]
    BY <2>1, <2>2
  <2> HIDE DEF a, b
  <2>4. a = b
    BY <2>3, SeqEqual
  <2> QED
    BY <2>4 DEF a, b
<1>4. Tail(<<x, y>>) = <<y>>
  <2> DEFINE S == {x, y}
  <2>1. <<x, y>> \in Seq(S) /\ <<y>> \in Seq(S) /\ <<x, y>> # <<>>
        /\ Len(<<x, y>>) = 2 /\ Len(<<y>>) = 1
    OBVIOUS
  <2>2. /\ Tail(<<x, y>>) \in Seq(S) /\ Len(Tail(<<x, y>>)) = 1
        /\ \A i \in 1..Len(Tail(<<x, y>>)) : Tail(<<x, y>>)[i] = <<x, y>>[i + 1]
    BY <2>1, HeadTailProperties
  <2> HIDE DEF S
  <2> QED
    BY <2>1, <2>2, SeqEqual
<1> QED
  BY <1>1, <1>2, <1>3, <1>4

LEMMA Entra ==
  ASSUME NEW S, NEW q \in Seq(S), NEW x \in S
  PROVE  Append(q, x) \in Seq(S) /\ Len(q) \in Nat /\ Len(Append(q, x)) = Len(q) + 1
  BY AppendProperties, SMT

LEMMA Sai ==
  ASSUME NEW S, NEW q \in Seq(S), q # <<>>
  PROVE  /\ Head(q) \in S /\ Tail(q) \in Seq(S)
         /\ Len(q) \in Nat \ {0} /\ Len(Tail(q)) = Len(q) - 1
  BY HeadTailProperties, SMT

-----------------------------------------------------------------------------
(* The numbers of the queues, and how many messages there are *)

LEMMA OsNomes == /\ SERVIDOR # CLIENTE
                 /\ TypeOK => nome[SERVIDOR] \in 0..criadas /\ nome[CLIENTE] \in 0..criadas
  BY DEF SERVIDOR, CLIENTE, TypeOK

\* Only so many queues are created, so that the number of one that is in use,
\* or is created now, is in Fila.
LEMMA Numeradas ==
  ASSUME TypeOK, CadaUmUma
  PROVE  /\ Cardinality(Cliente) \in Nat
         /\ criadas <= Cardinality(Cliente) + 1 + Reinicios
         /\ \A f \in 0..criadas : f # 0 => f \in Fila
         /\ 0 \notin Fila
<1> DEFINE C == {c \in Cliente : cliente[c] # "cria"}
<1>1. /\ IsFiniteSet(Cliente) /\ IsFiniteSet(C)
      /\ Cardinality(C) \in Nat /\ Cardinality(Cliente) \in Nat
      /\ Cardinality(C) <= Cardinality(Cliente)
  BY ArgumentosAssumption, FS_Subset, FS_CardinalityType
<1>2. /\ criadas \in Nat /\ quedas \in 0..Reinicios
      /\ criadas <= Cardinality(C) + quedas + (IF servidor = "abre" THEN 0 ELSE 1)
  BY DEF TypeOK, CadaUmUma
<1> HIDE DEF C
<1>3. Reinicios \in Nat
  BY ArgumentosAssumption
<1> QED
  BY <1>1, <1>2, <1>3 DEF Fila

\* The set of pairs that counts the messages is finite; a message that is sent
\* adds one to it, a message that is received takes one away.
LEMMA GuardadasFinitas ==
  ASSUME TypeOK
  PROVE  IsFiniteSet(Guardadas) /\ Cardinality(Guardadas) \in Nat
<1> DEFINE Pares(f) == {f} \X (1..Len(filas[f]))
<1>1. \A f \in Fila : IsFiniteSet(Pares(f))
  <2> SUFFICES ASSUME NEW f \in Fila PROVE IsFiniteSet(Pares(f))
    OBVIOUS
  <2>1. 1 \in Int /\ Len(filas[f]) \in Int
    BY DEF TypeOK
  <2>2. IsFiniteSet({f}) /\ IsFiniteSet(1..Len(filas[f]))
    BY <2>1, FS_Singleton, FS_Interval
  <2> QED
    BY <2>2, FS_Product
<1>2. IsFiniteSet(Fila)
  <2>1. 1 \in Int /\ Cardinality(Cliente) + 1 + Reinicios \in Int
    BY ArgumentosAssumption, FS_CardinalityType
  <2> QED
    BY <2>1, FS_Interval DEF Fila
<1> DEFINE P == [f \in Fila |-> Pares(f)]
<1>3. IsFiniteSet({P[f] : f \in Fila})
  <2> DEFINE Todos == {P[f] : f \in Fila}
  <2>1. P \in [Fila -> Todos] /\ \A T \in Todos : \E f \in Fila : P[f] = T
    OBVIOUS
  <2> HIDE DEF P, Todos
  <2>2. P \in Surjection(Fila, Todos)
    BY <2>1 DEF Surjection
  <2>3. IsFiniteSet(Todos)
    BY <1>2, <2>2, FS_Surjection
  <2> QED
    BY <2>3 DEF Todos
<1>4. Guardadas = UNION {P[f] : f \in Fila} /\ \A T \in {P[f] : f \in Fila} : IsFiniteSet(T)
  BY <1>1 DEF Guardadas
<1> HIDE DEF P
<1> QED
  BY <1>3, <1>4, FS_UNION, FS_CardinalityType
LEMMA Envio ==
  ASSUME TypeOK, NEW S, NEW f \in Fila, filas[f] \in Seq(S), NEW m \in S,
         filas' = [filas EXCEPT ![f] = Append(@, m)]
  PROVE  /\ DOMAIN filas' = Fila /\ \A g \in Fila : Len(filas'[g]) \in Nat
         /\ filas'[f] = Append(filas[f], m) /\ filas'[f] \in Seq(S)
         /\ \A g \in Fila : g # f => filas'[g] = filas[g]
         /\ Cardinality(Guardadas)' = Cardinality(Guardadas) + 1
<1>1. /\ DOMAIN filas = Fila /\ \A g \in Fila : Len(filas[g]) \in Nat
      /\ Append(filas[f], m) \in Seq(S) /\ Len(Append(filas[f], m)) = Len(filas[f]) + 1
  BY Entra DEF TypeOK
<1>2. /\ DOMAIN filas' = Fila
      /\ filas'[f] = Append(filas[f], m)
      /\ \A g \in Fila : g # f => filas'[g] = filas[g]
  BY <1>1
<1>3. \A g \in Fila : Len(filas'[g]) \in Nat
  BY <1>1, <1>2
<1> DEFINE x == <<f, Len(filas[f]) + 1>>
<1>4. x \notin Guardadas
  BY <1>1 DEF Guardadas
<1>5. Guardadas' = Guardadas \cup {x}
  <2>1. 1..(Len(filas[f]) + 1) = 1..Len(filas[f]) \cup {Len(filas[f]) + 1}
    BY <1>1
  <2>2. \A g \in Fila : {g} \X (1..Len(filas'[g])) =
          ({g} \X (1..Len(filas[g]))) \cup (IF g = f THEN {x} ELSE {})
    BY <1>1, <1>2, <2>1
  <2> HIDE DEF x
  <2> QED
    BY <2>2 DEF Guardadas
<1> HIDE DEF x
<1>6. Cardinality(Guardadas') = Cardinality(Guardadas) + 1
  BY <1>4, <1>5, GuardadasFinitas, FS_AddElement
<1> QED
  BY <1>1, <1>2, <1>3, <1>6

LEMMA Retirada ==
  ASSUME TypeOK, NEW S, NEW f \in Fila, filas[f] \in Seq(S), filas[f] # <<>>,
         filas' = [filas EXCEPT ![f] = Tail(@)]
  PROVE  /\ DOMAIN filas' = Fila /\ \A g \in Fila : Len(filas'[g]) \in Nat
         /\ filas'[f] = Tail(filas[f]) /\ filas'[f] \in Seq(S)
         /\ \A g \in Fila : g # f => filas'[g] = filas[g]
         /\ Cardinality(Guardadas)' = Cardinality(Guardadas) - 1
         /\ Head(filas[f]) \in S
<1>1. /\ DOMAIN filas = Fila /\ \A g \in Fila : Len(filas[g]) \in Nat
      /\ Tail(filas[f]) \in Seq(S) /\ Len(Tail(filas[f])) = Len(filas[f]) - 1
      /\ Len(filas[f]) \in Nat \ {0} /\ Head(filas[f]) \in S
  BY Sai DEF TypeOK
<1>2. /\ DOMAIN filas' = Fila
      /\ filas'[f] = Tail(filas[f])
      /\ \A g \in Fila : g # f => filas'[g] = filas[g]
  BY <1>1
<1>3. \A g \in Fila : Len(filas'[g]) \in Nat
  BY <1>1, <1>2
<1> DEFINE x == <<f, Len(filas[f])>>
<1>4. x \in Guardadas
  BY <1>1 DEF Guardadas
<1>5. Guardadas' = Guardadas \ {x}
  <2>1. 1..(Len(filas[f]) - 1) = (1..Len(filas[f])) \ {Len(filas[f])}
    BY <1>1
  <2>2. \A g \in Fila : {g} \X (1..Len(filas'[g])) = ({g} \X (1..Len(filas[g]))) \ {x}
    BY <1>1, <1>2, <2>1
  <2> HIDE DEF x
  <2> QED
    BY <2>2 DEF Guardadas
<1> HIDE DEF x
<1>6. Cardinality(Guardadas') = Cardinality(Guardadas) - 1
  BY <1>4, <1>5, GuardadasFinitas, FS_RemoveElement
<1> QED
  BY <1>1, <1>2, <1>3, <1>6
-----------------------------------------------------------------------------
(* Which queue is used for what *)

\* Nobody gets hold of another queue than those already used for the same.
LEMMA MesmosUsos ==
  ASSUME TypeOK, UmUso, filas' = filas, criadas' = criadas,
         DeLinhas' \subseteq DeLinhas \cup {0}, DeRespostas' \subseteq DeRespostas \cup {0}
  PROVE  UmUso'
<1>1. 0 \notin Fila /\ Fila' = Fila
  BY ArgumentosAssumption, FS_CardinalityType DEF Fila
<1> QED
  BY <1>1 DEF UmUso

\* The queues in use are those that were created.
LEMMA Usadas == ASSUME TypeOK PROVE DeLinhas \subseteq 0..criadas /\ DeRespostas \subseteq 0..criadas
  BY OsNomes DEF TypeOK, DeLinhas, DeRespostas

\* A message goes to a queue of its kind.
LEMMA TipoEnvio ==
  ASSUME TypeOK, UmUso, CadaUmUma, NEW f \in 0..criadas, f # 0, NEW m, mq_send(f, m),
         \/ f \in DeLinhas /\ m \in Linha
         \/ f \in DeRespostas /\ m \in Resposta,
         DeLinhas' = DeLinhas, DeRespostas' = DeRespostas
  PROVE  /\ DOMAIN filas' = Fila /\ \A g \in Fila : Len(filas'[g]) \in Nat
         /\ UmUso'
         /\ Cardinality(Guardadas)' = Cardinality(Guardadas) + 1
<1> DEFINE S == IF f \in DeLinhas THEN Linha ELSE Resposta
<1>1. f \in Fila /\ Fila' = Fila /\ criadas' = criadas
      /\ filas' = [filas EXCEPT ![f] = Append(@, m)]
  BY Numeradas DEF mq_send, Fila
<1>2. /\ f \in DeLinhas => f \notin DeRespostas /\ filas[f] \in Seq(Linha)
      /\ f \in DeRespostas => f \notin DeLinhas /\ filas[f] \in Seq(Resposta)
  BY <1>1 DEF UmUso
<1>3. m \in S /\ filas[f] \in Seq(S)
  BY <1>2
<1> HIDE DEF S
<1>4. /\ DOMAIN filas' = Fila /\ \A g \in Fila : Len(filas'[g]) \in Nat
      /\ filas'[f] \in Seq(S)
      /\ \A g \in Fila : g # f => filas'[g] = filas[g]
      /\ Cardinality(Guardadas)' = Cardinality(Guardadas) + 1
  BY <1>1, <1>3, Envio
<1>5. UmUso'
  <2>1. criadas \in Nat
    BY DEF TypeOK
  <2> QED
    BY <1>1, <1>2, <1>4, <2>1 DEF UmUso, S
<1> QED
  BY <1>4, <1>5

\* What is taken out of a queue is of the queue's kind.
LEMMA TipoRetirada ==
  ASSUME TypeOK, UmUso, CadaUmUma, NEW f \in 0..criadas, f # 0, mq_receive(f),
         f \in DeLinhas \cup DeRespostas,
         DeLinhas' = DeLinhas, DeRespostas' = DeRespostas
  PROVE  /\ DOMAIN filas' = Fila /\ \A g \in Fila : Len(filas'[g]) \in Nat
         /\ f \in DeLinhas => Head(filas[f]) \in Linha
         /\ f \in DeRespostas => Head(filas[f]) \in Resposta
         /\ UmUso'
         /\ Cardinality(Guardadas)' = Cardinality(Guardadas) - 1
<1> DEFINE S == IF f \in DeLinhas THEN Linha ELSE Resposta
<1>1. f \in Fila /\ Fila' = Fila /\ criadas' = criadas /\ filas[f] # <<>>
      /\ filas' = [filas EXCEPT ![f] = Tail(@)]
  BY Numeradas DEF mq_receive, Fila
<1>2. /\ f \in DeLinhas => f \notin DeRespostas /\ filas[f] \in Seq(Linha)
      /\ f \in DeRespostas => f \notin DeLinhas /\ filas[f] \in Seq(Resposta)
  BY <1>1 DEF UmUso
<1>3. filas[f] \in Seq(S)
  BY <1>2
<1> HIDE DEF S
<1>4. /\ DOMAIN filas' = Fila /\ \A g \in Fila : Len(filas'[g]) \in Nat
      /\ filas'[f] \in Seq(S) /\ Head(filas[f]) \in S
      /\ \A g \in Fila : g # f => filas'[g] = filas[g]
      /\ Cardinality(Guardadas)' = Cardinality(Guardadas) - 1
  BY <1>1, <1>3, Retirada
<1>5. UmUso'
  <2>1. criadas \in Nat
    BY DEF TypeOK
  <2> QED
    BY <1>1, <1>2, <1>4, <2>1 DEF UmUso, S
<1> QED
  BY <1>2, <1>4, <1>5 DEF S
\* A new queue is empty and is used by nobody.
LEMMA NovaFila ==
  ASSUME TypeOK, UmUso, filas' = filas, criadas' = criadas + 1,
         \/ /\ DeLinhas' \subseteq DeLinhas \cup {criadas + 1}
            /\ DeRespostas' \subseteq DeRespostas
         \/ /\ DeLinhas' \subseteq DeLinhas
            /\ DeRespostas' \subseteq DeRespostas \cup {criadas + 1}
  PROVE  UmUso'
<1>1. /\ criadas \in Nat /\ criadas + 1 \notin DeLinhas \cup DeRespostas
      /\ criadas + 1 > criadas /\ Fila' = Fila
  BY Usadas DEF TypeOK, Fila
<1>2. /\ <<>> \in Seq(Linha) /\ <<>> \in Seq(Resposta)
  BY EmptySeq
<1>3. \A f \in Fila : f > criadas + 1 => f > criadas
  BY <1>1 DEF Fila
<1> QED
  BY <1>1, <1>2, <1>3 DEF UmUso

-----------------------------------------------------------------------------
(* Counting clients *)

Criadores == {c \in Cliente : cliente[c] # "cria"}

LEMMA Finitos ==
  /\ Cardinality(Cliente) \in Nat
  /\ \A S \in SUBSET Cliente : /\ IsFiniteSet(S) /\ Cardinality(S) \in Nat
                               /\ Cardinality(S) <= Cardinality(Cliente)
  BY ArgumentosAssumption, FS_Subset, FS_CardinalityType

\* What a step of client c does to the sets of clients that are counted.
LEMMA Anda ==
  ASSUME TypeOK, NEW c \in Cliente, NEW para, Vai(c, para)
  PROVE  /\ Criadores' = IF para = "cria" THEN Criadores \ {c} ELSE Criadores \cup {c}
         /\ Apresentados' = IF para \in {"cria", "abre", "nome"} THEN Apresentados \ {c}
                            ELSE Apresentados \cup {c}
         /\ SemResposta' = IF para \in {"espera", "fecha", "fim"} THEN SemResposta \cup {c}
                           ELSE SemResposta \ {c}
         /\ cliente'[c] = para /\ \A d \in Cliente : d # c => cliente'[d] = cliente[d]
<1>1. /\ cliente'[c] = para /\ \A d \in Cliente : d # c => cliente'[d] = cliente[d]
  BY DEF TypeOK, Vai
<1>2. Criadores' = IF para = "cria" THEN Criadores \ {c} ELSE Criadores \cup {c}
  BY <1>1 DEF Criadores
<1>3. Apresentados' = IF para \in {"cria", "abre", "nome"} THEN Apresentados \ {c}
                      ELSE Apresentados \cup {c}
  BY <1>1 DEF Apresentados
<1>4. SemResposta' = IF para \in {"espera", "fecha", "fim"} THEN SemResposta \cup {c}
                     ELSE SemResposta \ {c}
  BY <1>1 DEF SemResposta
<1> QED
  BY <1>1, <1>2, <1>3, <1>4

LEMMA Mais == ASSUME NEW S \in SUBSET Cliente, NEW c \in Cliente
              PROVE  /\ Cardinality(S \cup {c}) = Cardinality(S) + (IF c \in S THEN 0 ELSE 1)
                     /\ Cardinality(S \ {c}) = Cardinality(S) - (IF c \in S THEN 1 ELSE 0)
                     /\ Cardinality(S) \in Nat
<1>1. IsFiniteSet(S) /\ Cardinality(S) \in Nat
  BY Finitos
<1>2. Cardinality(S \cup {c}) = Cardinality(S) + (IF c \in S THEN 0 ELSE 1)
  BY <1>1, FS_AddElement
<1>3. Cardinality(S \ {c}) = Cardinality(S) - (IF c \in S THEN 1 ELSE 0)
  <2>1. Cardinality(S \ {c}) = IF c \in S THEN Cardinality(S) - 1 ELSE Cardinality(S)
    BY <1>1, FS_RemoveElement
  <2> QED
    BY <1>1, <2>1
<1> QED
  BY <1>1, <1>2, <1>3

-----------------------------------------------------------------------------
(* The tables of server.c and the dictionary *)

Entrada(k) == [pt |-> Tabela.pt[k], en |-> Tabela.en[k], jp |-> Tabela.jp[k]]

LEMMA Entradas == /\ Dicionario = {Entrada(k) : k \in 1..3}
                  /\ \A k \in 1..3, l \in Linguas : Entrada(k)[l] = Tabela[l][k]
                  /\ DOMAIN Tabela = Linguas
<1>1. 1..3 = {1, 2, 3}
  OBVIOUS
<1>2. /\ Entrada(1) = [pt |-> "peixe", en |-> "fish", jp |-> "sakana"]
      /\ Entrada(2) = [pt |-> "bola", en |-> "ball", jp |-> "tama"]
      /\ Entrada(3) = [pt |-> "gato", en |-> "cat", jp |-> "neko"]
  BY DEF Entrada, Tabela
<1>3. Dicionario = {Entrada(1), Entrada(2), Entrada(3)}
  BY <1>2 DEF Dicionario
<1>4. \A k \in 1..3, l \in Linguas : Entrada(k)[l] = Tabela[l][k]
  <2>1. \A k : Entrada(k)["pt"] = Tabela["pt"][k] /\ Entrada(k)["en"] = Tabela["en"][k]
               /\ Entrada(k)["jp"] = Tabela["jp"][k]
    BY DEF Entrada
  <2> QED
    BY <2>1 DEF Linguas
<1>5. DOMAIN Tabela = Linguas
  BY DEF Tabela, Linguas
<1> QED
  BY <1>1, <1>3, <1>4, <1>5

\* Lines 53-70: what the server finds for a request is its translation.
LEMMA Tradutor == ASSUME NEW p
                  PROVE  Traduz(p, encontrarPalavra(p)) /\ encontrarPalavra(p) \in Resposta
<1> DEFINE Ha == {p.ori, p.des} \subseteq Linguas /\ \E k \in 1..3 : Tabela[p.ori][k] = p.palavra
<1>1. CASE Ha
  <2> DEFINE k == CHOOSE j \in 1..3 : Tabela[p.ori][j] = p.palavra
  <2>1. k \in 1..3 /\ Tabela[p.ori][k] = p.palavra
    BY <1>1
  <2>2. encontrarPalavra(p) = Tabela[p.des][k]
    BY <1>1, Entradas DEF encontrarPalavra
  <2> HIDE DEF k
  <2>3. Entrada(k) \in Dicionario /\ Entrada(k)[p.ori] = p.palavra
        /\ Entrada(k)[p.des] = encontrarPalavra(p) /\ p.des \in Linguas
    BY <1>1, <2>1, <2>2, Entradas
  <2> QED
    BY <1>1, <2>3 DEF Traduz, Resposta
<1>2. CASE ~Ha
  <2>1. encontrarPalavra(p) = ERRO
    BY <1>2, Entradas DEF encontrarPalavra
  <2>2. ASSUME {p.ori, p.des} \subseteq Linguas, NEW d \in Dicionario PROVE d[p.ori] # p.palavra
    <3>1. PICK k \in 1..3 : d = Entrada(k)
      BY Entradas
    <3> QED
      BY <1>2, <2>2, <3>1, Entradas
  <2>3. Traduz(p, encontrarPalavra(p))
    BY <2>1, <2>2 DEF Traduz
  <2>4. ERRO \in Resposta
    <3> DEFINE Palavras == {d[l] : d \in Dicionario, l \in Linguas}
    <3>1. Resposta = {ERRO} \cup Palavras
      BY DEF Resposta
    <3> HIDE DEF Palavras
    <3> QED
      BY <3>1
  <2> QED
    BY <2>1, <2>3, <2>4
<1> QED
  BY <1>1, <1>2

-----------------------------------------------------------------------------
(* The steps: types, queues and how much there is in them *)

Base == TypeOK /\ UmUso /\ TemFila /\ CadaUmUma /\ Contadas

LEMMA InitBase == Init => Base
<1> SUFFICES ASSUME Init PROVE Base
  OBVIOUS
<1>1. TypeOK
  <2>1. 0 \in 0..criadas /\ 0 \in 0..Reinicios /\ criadas \in Nat
    BY ArgumentosAssumption DEF Init
  <2>2. DOMAIN filas = Fila /\ \A f \in Fila : Len(filas[f]) \in Nat /\ filas[f] = <<>>
    BY DEF Init
  <2>3. NADA \in Resposta \cup {NADA} /\ NO_NO \in Pedidos \cup {NO_NO} /\ NOME \in Linha
    BY DEF Linha
  <2> QED
    BY <2>1, <2>2, <2>3 DEF Init, TypeOK
<1>2. UmUso
  <2>1. DeLinhas \subseteq {0} /\ DeRespostas \subseteq {0}
    BY DEF Init, DeLinhas, DeRespostas
  <2>2. \A f \in Fila : filas[f] = <<>>
    BY DEF Init
  <2> QED
    BY <2>1, <2>2, EmptySeq DEF UmUso
<1>3. TemFila
  BY DEF Init, TemFila
<1>4. CadaUmUma
  BY Finitos DEF Init, CadaUmUma
<1>5. Contadas
  <2>1. \A f \in Fila : 1..Len(filas[f]) = {}
    BY DEF Init
  <2>2. Guardadas = {}
    BY <2>1 DEF Guardadas
  <2>3. Cardinality(Apresentados) \in Nat /\ Cardinality(SemResposta) \in Nat
    BY Finitos DEF Apresentados, SemResposta
  <2> QED
    BY <2>2, <2>3, FS_EmptySet DEF Contadas, Init
<1> QED
  BY <1>1, <1>2, <1>3, <1>4, <1>5 DEF Base

\* What a step of the server keeps of the counts of the clients.
LEMMA ContasDoServidor ==
  ASSUME TypeOK, cliente' = cliente
  PROVE  /\ Criadores' = Criadores /\ Apresentados' = Apresentados /\ SemResposta' = SemResposta
         /\ Cardinality(Criadores) \in Nat /\ Cardinality(Apresentados) \in Nat
         /\ Cardinality(SemResposta) \in Nat
<1>1. /\ Criadores \in SUBSET Cliente /\ Apresentados \in SUBSET Cliente
      /\ SemResposta \in SUBSET Cliente
  BY DEF Criadores, Apresentados, SemResposta
<1> QED
  BY <1>1, Finitos DEF Criadores, Apresentados, SemResposta

LEMMA BaseAbre == ASSUME Base, Abre PROVE Base'
<1> USE DEF Base
<1> DEFINE f == QueFila(SERVIDOR)
<1>1. /\ nome' = [nome EXCEPT ![SERVIDOR] = f] /\ qd_servidor' = f /\ filas' = filas
      /\ criadas' = (IF nome[SERVIDOR] # 0 THEN criadas ELSE criadas + 1)
      /\ servidor = "abre" /\ servidor' = "nome"
      /\ UNCHANGED <<in_buffer, qd_resposta, quedas, cliente, qd_client, qd_server, pedido, mostrada>>
  BY DEF Abre, mq_open, dosClientes
<1>2. /\ criadas \in Nat /\ criadas' \in Nat /\ criadas <= criadas' /\ criadas' <= criadas + 1
      /\ f \in 1..criadas'
      /\ f = (IF nome[SERVIDOR] # 0 THEN nome[SERVIDOR] ELSE criadas + 1)
  BY <1>1, OsNomes DEF TypeOK, QueFila
<1> HIDE DEF f
<1>3. /\ nome'[SERVIDOR] = f /\ nome'[CLIENTE] = nome[CLIENTE]
      /\ nome' \in [{SERVIDOR, CLIENTE} -> 0..criadas']
  BY <1>1, <1>2, OsNomes DEF TypeOK
<1>4. Fila' = Fila
  BY DEF Fila
<1>5. TypeOK'
  BY <1>1, <1>2, <1>3, <1>4 DEF TypeOK
<1>6. UmUso'
  <2>1. /\ DeLinhas' \subseteq DeLinhas \cup {f} /\ DeRespostas' = DeRespostas
    BY <1>1, <1>3 DEF DeLinhas, DeRespostas
  <2>2. CASE nome[SERVIDOR] # 0
    <3>1. f \in DeLinhas
      BY <1>2, <2>2 DEF DeLinhas
    <3> QED
      BY <1>1, <2>1, <2>2, <3>1, MesmosUsos
  <2>3. CASE nome[SERVIDOR] = 0
    BY <1>1, <1>2, <2>1, <2>3, NovaFila
  <2> QED
    BY <2>2, <2>3
<1>7. TemFila'
  BY <1>1, <1>2 DEF TemFila
<1>8. Criadores' = Criadores /\ Cardinality(Criadores) \in Nat
      /\ Apresentados' = Apresentados /\ SemResposta' = SemResposta
  BY <1>1, ContasDoServidor
<1>9. CadaUmUma'
  <2>0. quedas \in Nat /\ criadas <= Cardinality(Criadores) + quedas + 0
    BY <1>1 DEF CadaUmUma, Criadores, TypeOK
  <2>1. criadas <= Cardinality(Criadores) + quedas /\ quedas \in Nat
    BY <1>8, <2>0
  <2>2. criadas' <= Cardinality(Criadores') + quedas' + 1
    BY <1>1, <1>2, <1>8, <2>1
  <2> QED
    BY <1>1, <2>2 DEF CadaUmUma, Criadores
<1>10. Contadas'
  BY <1>1, <1>4, <1>8 DEF Contadas, Guardadas
<1> QED
  BY <1>5, <1>6, <1>7, <1>9, <1>10
\* A step that only moves the server, with queues that it could name already.
LEMMA BaseServidor ==
  ASSUME Base, TypeOK', DeLinhas' \subseteq DeLinhas \cup {0}, DeRespostas' \subseteq DeRespostas \cup {0},
         UNCHANGED <<filas, criadas, cliente, qd_client, qd_server>>,
         servidor' # "abre" => servidor # "abre" /\ qd_servidor' = qd_servidor,
         servidor' = "responde" => servidor = "responde",
         IF servidor' = "abre" /\ servidor # "abre" THEN quedas' = quedas + 1 ELSE quedas' = quedas
  PROVE  Base'
<1> USE DEF Base
<1>1. UmUso'
  BY MesmosUsos
<1>2. TemFila'
  BY DEF TemFila
<1>3. Criadores' = Criadores /\ Cardinality(Criadores) \in Nat
      /\ Apresentados' = Apresentados /\ SemResposta' = SemResposta
      /\ Cardinality(Apresentados) \in Nat /\ Cardinality(SemResposta) \in Nat
  BY ContasDoServidor
<1>4. CadaUmUma'
  <2>1. quedas \in Nat /\ criadas \in Nat
        /\ criadas <= Cardinality(Criadores) + quedas + (IF servidor = "abre" THEN 0 ELSE 1)
    BY DEF CadaUmUma, Criadores, TypeOK
  <2>2. quedas + (IF servidor = "abre" THEN 0 ELSE 1)
          <= quedas' + (IF servidor' = "abre" THEN 0 ELSE 1)
    BY <2>1
  <2>3. criadas' <= Cardinality(Criadores') + quedas' + (IF servidor' = "abre" THEN 0 ELSE 1)
    BY <1>3, <2>1, <2>2
  <2> QED
    BY <2>3 DEF CadaUmUma, Criadores
<1>5. Contadas'
  <2>1. Guardadas' = Guardadas /\ Cardinality(Guardadas) \in Nat
    BY GuardadasFinitas DEF Guardadas, Fila
  <2>2. Cardinality(Guardadas) + (IF servidor = "responde" THEN 1 ELSE 0)
          <= Cardinality(Apresentados) + Cardinality(SemResposta)
    BY DEF Contadas
  <2>3. Cardinality(Guardadas') + (IF servidor' = "responde" THEN 1 ELSE 0)
          <= Cardinality(Apresentados') + Cardinality(SemResposta')
    BY <1>3, <2>1, <2>2
  <2> QED
    BY <2>3 DEF Contadas
<1> QED
  BY <1>1, <1>2, <1>4, <1>5

LEMMA BaseAbreCliente == ASSUME Base, AbreCliente PROVE Base'
<1>1. /\ servidor = "abreCliente" /\ servidor' = "recebe"
      /\ qd_resposta' \in {nome[CLIENTE], 0}
      /\ UNCHANGED <<in_buffer, qd_servidor, quedas, dosClientes, sistema>>
  BY DEF AbreCliente
<1>2. TypeOK'
  BY <1>1, OsNomes DEF TypeOK, Base, dosClientes, sistema
<1>3. DeLinhas' = DeLinhas /\ DeRespostas' \subseteq DeRespostas \cup {0}
  BY <1>1 DEF DeLinhas, DeRespostas, dosClientes, sistema
<1> QED
  BY <1>1, <1>2, <1>3, BaseServidor DEF dosClientes, sistema

LEMMA BaseReinicia == ASSUME Base, Reinicia PROVE Base'
<1>1. /\ quedas < Reinicios /\ servidor # "abre" /\ quedas' = quedas + 1 /\ servidor' = "abre"
      /\ in_buffer' = NOME /\ qd_servidor' = 0 /\ qd_resposta' = 0
      /\ UNCHANGED <<dosClientes, sistema>>
  BY DEF Reinicia
<1>2. TypeOK'
  <2>1. 0 \in 0..criadas /\ quedas + 1 \in 0..Reinicios /\ NOME \in Linha
    BY <1>1, ArgumentosAssumption DEF TypeOK, Base, Linha
  <2> QED
    BY <1>1, <2>1 DEF TypeOK, Base, dosClientes, sistema
<1>3. DeLinhas' \subseteq DeLinhas \cup {0} /\ DeRespostas' \subseteq DeRespostas \cup {0}
  BY <1>1 DEF DeLinhas, DeRespostas, dosClientes, sistema
<1> QED
  BY <1>1, <1>2, <1>3, BaseServidor DEF dosClientes, sistema

LEMMA BaseEncerra == ASSUME Base, Encerra PROVE Base'
<1>1. /\ servidor = "responde" /\ servidor' = "fim" /\ nome' = [nome EXCEPT ![SERVIDOR] = 0]
      /\ UNCHANGED <<in_buffer, qd_servidor, qd_resposta, quedas, dosClientes, filas, criadas>>
  BY DEF Encerra, mq_unlink
<1>2. nome'[SERVIDOR] = 0 /\ nome'[CLIENTE] = nome[CLIENTE]
      /\ nome' \in [{SERVIDOR, CLIENTE} -> 0..criadas]
  BY <1>1, OsNomes DEF TypeOK, Base
<1>3. TypeOK'
  BY <1>1, <1>2 DEF TypeOK, Base, dosClientes
<1>4. DeLinhas' \subseteq DeLinhas \cup {0} /\ DeRespostas' = DeRespostas
  BY <1>1, <1>2 DEF DeLinhas, DeRespostas, dosClientes
<1> QED
  BY <1>1, <1>3, <1>4, BaseServidor DEF dosClientes

LEMMA BaseRecebe ==
  ASSUME Base, NEW de, NEW para, Recebe(de, para),
         \/ de = "nome" /\ para = "abreCliente"
         \/ de = "recebe" /\ para = "responde"
  PROVE  Base'
<1> USE DEF Base
<1>1. /\ servidor = de /\ servidor' = para /\ mq_receive(qd_servidor)
      /\ in_buffer' = Head(filas[qd_servidor])
      /\ UNCHANGED <<qd_servidor, qd_resposta, quedas, dosClientes, nome, criadas>>
  BY DEF Recebe, mq_receive
<1>2. qd_servidor \in 0..criadas /\ qd_servidor # 0 /\ qd_servidor \in DeLinhas
  BY <1>1 DEF TypeOK, TemFila, DeLinhas
<1>3. DeLinhas' = DeLinhas /\ DeRespostas' = DeRespostas
  BY <1>1 DEF DeLinhas, DeRespostas, dosClientes
<1>4. /\ DOMAIN filas' = Fila /\ \A g \in Fila : Len(filas'[g]) \in Nat
      /\ Head(filas[qd_servidor]) \in Linha
      /\ UmUso'
      /\ Cardinality(Guardadas)' = Cardinality(Guardadas) - 1
  BY <1>1, <1>2, <1>3, TipoRetirada
<1>5. TypeOK'
  <2>1. Fila' = Fila
    BY DEF Fila
  <2> QED
    BY <1>1, <1>4, <2>1 DEF TypeOK, dosClientes
<1>6. TemFila'
  BY <1>1 DEF TemFila, dosClientes
<1>7. Criadores' = Criadores
      /\ Apresentados' = Apresentados /\ SemResposta' = SemResposta
      /\ Cardinality(Apresentados) \in Nat /\ Cardinality(SemResposta) \in Nat
  BY <1>1, ContasDoServidor DEF dosClientes
<1>8. CadaUmUma'
  BY <1>1 DEF CadaUmUma, dosClientes
<1>9. Contadas'
  <2>1. Cardinality(Guardadas) \in Nat
    BY GuardadasFinitas
  <2>2. Cardinality(Guardadas) + (IF servidor = "responde" THEN 1 ELSE 0)
          <= Cardinality(Apresentados) + Cardinality(SemResposta)
    BY DEF Contadas
  <2>3. Cardinality(Guardadas') + (IF servidor' = "responde" THEN 1 ELSE 0)
          <= Cardinality(Apresentados') + Cardinality(SemResposta')
    BY <1>1, <1>4, <1>7, <2>1, <2>2
  <2> QED
    BY <2>3 DEF Contadas
<1> QED
  BY <1>4, <1>5, <1>6, <1>8, <1>9

LEMMA BaseResponde == ASSUME Base, Responde PROVE Base'
<1> USE DEF Base
<1>1. /\ servidor = "responde" /\ servidor' = "recebe"
      /\ UNCHANGED <<in_buffer, qd_servidor, qd_resposta, quedas, dosClientes, nome, criadas>>
  BY DEF Responde, mq_send, sistema
<1>2. DeLinhas' = DeLinhas /\ DeRespostas' = DeRespostas
  BY <1>1 DEF DeLinhas, DeRespostas, dosClientes
<1>3. CASE qd_resposta = 0
  <2>1. sistema' = sistema
    BY <1>3 DEF Responde
  <2>2. TypeOK'
    BY <1>1, <2>1 DEF TypeOK, dosClientes, sistema
  <2> QED
    BY <1>1, <1>2, <2>1, <2>2, BaseServidor DEF dosClientes, sistema
<1>4. CASE qd_resposta # 0
  <2>1. mq_send(qd_resposta, encontrarPalavra(in_buffer))
    BY <1>4 DEF Responde
  <2>2. qd_resposta \in 0..criadas /\ qd_resposta \in DeRespostas
    BY DEF TypeOK, DeRespostas
  <2>3. encontrarPalavra(in_buffer) \in Resposta
    BY Tradutor
  <2>4. /\ DOMAIN filas' = Fila /\ \A g \in Fila : Len(filas'[g]) \in Nat
        /\ UmUso'
        /\ Cardinality(Guardadas)' = Cardinality(Guardadas) + 1
    BY <1>2, <1>4, <2>1, <2>2, <2>3, TipoEnvio
  <2>5. TypeOK'
    <3>1. Fila' = Fila
      BY DEF Fila
    <3> QED
      BY <1>1, <2>4, <3>1 DEF TypeOK, dosClientes
  <2>6. TemFila'
    BY <1>1 DEF TemFila, dosClientes
  <2>7. Apresentados' = Apresentados /\ SemResposta' = SemResposta
        /\ Cardinality(Apresentados) \in Nat /\ Cardinality(SemResposta) \in Nat
    BY <1>1, ContasDoServidor DEF dosClientes
  <2>8. CadaUmUma'
    BY <1>1 DEF CadaUmUma, dosClientes
  <2>9. Contadas'
    <3>1. Cardinality(Guardadas) \in Nat
      BY GuardadasFinitas
    <3>2. Cardinality(Guardadas) + 1 <= Cardinality(Apresentados) + Cardinality(SemResposta)
      BY <1>1 DEF Contadas
    <3>3. Cardinality(Guardadas') + 0 <= Cardinality(Apresentados') + Cardinality(SemResposta')
      BY <2>4, <2>7, <3>1, <3>2
    <3> QED
      BY <1>1, <3>3 DEF Contadas
  <2> QED
    BY <2>4, <2>5, <2>6, <2>8, <2>9
<1> QED
  BY <1>3, <1>4
LEMMA Subconjuntos == /\ Criadores \in SUBSET Cliente /\ Apresentados \in SUBSET Cliente
                      /\ SemResposta \in SUBSET Cliente
  BY DEF Criadores, Apresentados, SemResposta

LEMMA BaseCriaFila == ASSUME Base, NEW c \in Cliente, CriaFila(c) PROVE Base'
<1> USE DEF Base
<1> DEFINE f == QueFila(CLIENTE)
<1>1. /\ nome' = [nome EXCEPT ![CLIENTE] = f] /\ qd_client' = [qd_client EXCEPT ![c] = f]
      /\ filas' = filas
      /\ criadas' = (IF nome[CLIENTE] # 0 THEN criadas ELSE criadas + 1)
      /\ cliente[c] = "cria" /\ Vai(c, "abre")
      /\ UNCHANGED <<servidor, in_buffer, qd_servidor, qd_resposta, quedas, qd_server, pedido, mostrada>>
  BY DEF CriaFila, mq_open, doServidor
<1>2. /\ criadas \in Nat /\ criadas' \in Nat /\ criadas <= criadas' /\ criadas' <= criadas + 1
      /\ f \in 1..criadas'
      /\ f = (IF nome[CLIENTE] # 0 THEN nome[CLIENTE] ELSE criadas + 1)
  BY <1>1, OsNomes DEF TypeOK, QueFila
<1> HIDE DEF f
<1>3. /\ nome'[CLIENTE] = f /\ nome'[SERVIDOR] = nome[SERVIDOR]
      /\ nome' \in [{SERVIDOR, CLIENTE} -> 0..criadas']
      /\ qd_client' \in [Cliente -> 0..criadas'] /\ qd_client'[c] = f
      /\ \A d \in Cliente : d # c => qd_client'[d] = qd_client[d]
  BY <1>1, <1>2, OsNomes DEF TypeOK
<1>4. Fila' = Fila
  BY DEF Fila
<1>5. cliente' \in [Cliente -> {"cria", "abre", "nome", "teclado", "manda", "espera",
                                "fecha", "fim"}]
  BY <1>1 DEF Vai, TypeOK
<1>6. TypeOK'
  BY <1>1, <1>2, <1>3, <1>4, <1>5 DEF TypeOK
<1>7. UmUso'
  <2>1. /\ DeLinhas' = DeLinhas /\ DeRespostas' \subseteq DeRespostas \cup {f}
    BY <1>1, <1>3 DEF DeLinhas, DeRespostas
  <2>2. CASE nome[CLIENTE] # 0
    <3>1. f \in DeRespostas
      BY <1>2, <2>2 DEF DeRespostas
    <3> QED
      BY <1>1, <2>1, <2>2, <3>1, MesmosUsos
  <2>3. CASE nome[CLIENTE] = 0
    BY <1>1, <1>2, <2>1, <2>3, NovaFila
  <2> QED
    BY <2>2, <2>3
<1>8. /\ Criadores' = Criadores \cup {c} /\ Apresentados' = Apresentados \ {c}
      /\ SemResposta' = SemResposta \ {c}
      /\ cliente'[c] = "abre" /\ \A d \in Cliente : d # c => cliente'[d] = cliente[d]
  BY <1>1, Anda
<1>9. c \notin Criadores /\ c \notin Apresentados /\ c \notin SemResposta
  BY <1>1 DEF Criadores, Apresentados, SemResposta
<1>10. TemFila'
  BY <1>1, <1>2, <1>3, <1>8 DEF TemFila
<1>11. CadaUmUma'
  <2>1. Cardinality(Criadores') = Cardinality(Criadores) + 1 /\ Cardinality(Criadores) \in Nat
    BY <1>8, <1>9, Mais, Subconjuntos
  <2>2. quedas \in Nat
        /\ criadas <= Cardinality(Criadores) + quedas + (IF servidor = "abre" THEN 0 ELSE 1)
    BY DEF CadaUmUma, Criadores, TypeOK
  <2>3. criadas' <= Cardinality(Criadores') + quedas + (IF servidor = "abre" THEN 0 ELSE 1)
    BY <1>2, <2>1, <2>2
  <2> QED
    BY <1>1, <2>3 DEF CadaUmUma, Criadores
<1>12. Contadas'
  <2>1. Apresentados' = Apresentados /\ SemResposta' = SemResposta
    BY <1>8, <1>9
  <2> QED
    BY <1>1, <1>4, <2>1 DEF Contadas, Guardadas
<1> QED
  BY <1>6, <1>7, <1>10, <1>11, <1>12

\* A step of a client that leaves the queues alone.
LEMMA BaseCliente ==
  ASSUME Base, TypeOK', TemFila', NEW c \in Cliente, NEW para, Vai(c, para),
         cliente[c] # "cria", para # "cria",
         cliente[c] \notin {"abre", "nome"} => para \notin {"abre", "nome"},
         cliente[c] \in {"espera", "fecha", "fim"} => para \in {"espera", "fecha", "fim"},
         DeLinhas' \subseteq DeLinhas \cup {0}, DeRespostas' \subseteq DeRespostas \cup {0},
         UNCHANGED <<filas, criadas, doServidor>>
  PROVE  Base'
<1> USE DEF Base
<1>1. UmUso'
  BY MesmosUsos
<1>2. Criadores' = Criadores
  BY Anda DEF Criadores
<1>3. CadaUmUma'
  BY <1>2 DEF CadaUmUma, Criadores, doServidor
<1>4. Contadas'
  <2>1. Apresentados \subseteq Apresentados' /\ SemResposta \subseteq SemResposta'
    <3>1. /\ Apresentados' = IF para \in {"cria", "abre", "nome"} THEN Apresentados \ {c}
                             ELSE Apresentados \cup {c}
          /\ SemResposta' = IF para \in {"espera", "fecha", "fim"} THEN SemResposta \cup {c}
                            ELSE SemResposta \ {c}
      BY Anda
    <3>2. /\ para \in {"cria", "abre", "nome"} => c \notin Apresentados
          /\ para \notin {"espera", "fecha", "fim"} => c \notin SemResposta
      BY DEF Apresentados, SemResposta
    <3> QED
      BY <3>1, <3>2
  <2>2. Apresentados' \in SUBSET Cliente /\ SemResposta' \in SUBSET Cliente
    BY DEF Apresentados, SemResposta
  <2>3. /\ Cardinality(Apresentados) <= Cardinality(Apresentados')
        /\ Cardinality(SemResposta) <= Cardinality(SemResposta')
        /\ Cardinality(Apresentados) \in Nat /\ Cardinality(Apresentados') \in Nat
        /\ Cardinality(SemResposta) \in Nat /\ Cardinality(SemResposta') \in Nat
    BY <2>1, <2>2, Finitos, Subconjuntos, FS_Subset
  <2>4. Guardadas' = Guardadas /\ Cardinality(Guardadas) \in Nat
    BY GuardadasFinitas DEF Guardadas, Fila
  <2>5. Cardinality(Guardadas) + (IF servidor = "responde" THEN 1 ELSE 0)
          <= Cardinality(Apresentados) + Cardinality(SemResposta)
    BY DEF Contadas
  <2>6. Cardinality(Guardadas) + (IF servidor = "responde" THEN 1 ELSE 0)
          <= Cardinality(Apresentados') + Cardinality(SemResposta')
    BY <2>3, <2>4, <2>5
  <2> QED
    BY <2>4, <2>6 DEF Contadas, doServidor
<1> QED
  BY <1>1, <1>3, <1>4

LEMMA BaseAbreServidor == ASSUME Base, NEW c \in Cliente, AbreServidor(c) PROVE Base'
<1> USE DEF Base
<1> DEFINE para == IF nome[SERVIDOR] = 0 THEN "fim" ELSE "nome"
<1>1. /\ cliente[c] = "abre" /\ Vai(c, para)
      /\ qd_server' = [qd_server EXCEPT ![c] = nome[SERVIDOR]]
      /\ UNCHANGED <<qd_client, pedido, mostrada, doServidor, nome, filas, criadas>>
  BY DEF AbreServidor, sistema
<1>2. /\ para \in {"fim", "nome"} /\ (para = "nome" => nome[SERVIDOR] # 0)
  OBVIOUS
<1> HIDE DEF para
<1>3. /\ qd_server' \in [Cliente -> 0..criadas] /\ qd_server'[c] = nome[SERVIDOR]
      /\ \A d \in Cliente : d # c => qd_server'[d] = qd_server[d]
  BY <1>1, OsNomes DEF TypeOK
<1>4. /\ cliente'[c] = para /\ \A d \in Cliente : d # c => cliente'[d] = cliente[d]
      /\ cliente' \in [Cliente -> {"cria", "abre", "nome", "teclado", "manda", "espera",
                                   "fecha", "fim"}]
  BY <1>1, <1>2 DEF Vai, TypeOK
<1>5. TypeOK'
  <2>1. Fila' = Fila
    BY DEF Fila
  <2> QED
    BY <1>1, <1>3, <1>4, <2>1 DEF TypeOK, doServidor
<1>6. TemFila'
  BY <1>1, <1>2, <1>3, <1>4 DEF TemFila, doServidor
<1>7. DeLinhas' \subseteq DeLinhas /\ DeRespostas' = DeRespostas
  BY <1>1, <1>3 DEF DeLinhas, DeRespostas, doServidor
<1> QED
  BY <1>1, <1>2, <1>5, <1>6, <1>7, BaseCliente

LEMMA BaseDigita == ASSUME Base, NEW c \in Cliente, Digita(c) PROVE Base'
<1> USE DEF Base
<1>1. /\ cliente[c] = "teclado" /\ Vai(c, "manda")
      /\ UNCHANGED <<qd_client, qd_server, mostrada, doServidor, nome, filas, criadas>>
      /\ \E p \in Pedidos \cup {NO_NO} : pedido' = [pedido EXCEPT ![c] = p]
  BY DEF Digita, sistema
<1>2. /\ cliente'[c] = "manda" /\ \A d \in Cliente : d # c => cliente'[d] = cliente[d]
      /\ cliente' \in [Cliente -> {"cria", "abre", "nome", "teclado", "manda", "espera",
                                   "fecha", "fim"}]
  BY <1>1 DEF Vai, TypeOK
<1>3. TypeOK'
  <2>1. Fila' = Fila
    BY DEF Fila
  <2>2. pedido' \in [Cliente -> Pedidos \cup {NO_NO}]
    BY <1>1 DEF TypeOK
  <2> QED
    BY <1>1, <1>2, <2>1, <2>2 DEF TypeOK, doServidor
<1>4. TemFila'
  BY <1>1, <1>2 DEF TemFila, doServidor
<1>5. DeLinhas' = DeLinhas /\ DeRespostas' = DeRespostas
  BY <1>1 DEF DeLinhas, DeRespostas, doServidor
<1> QED
  BY <1>1, <1>3, <1>4, <1>5, BaseCliente

LEMMA BaseFecha == ASSUME Base, NEW c \in Cliente, Fecha(c) PROVE Base'
<1> USE DEF Base
<1>1. /\ cliente[c] = "fecha" /\ Vai(c, "fim") /\ nome' = [nome EXCEPT ![CLIENTE] = 0]
      /\ UNCHANGED <<qd_client, qd_server, pedido, mostrada, doServidor, filas, criadas>>
  BY DEF Fecha, mq_unlink
<1>2. /\ cliente'[c] = "fim" /\ \A d \in Cliente : d # c => cliente'[d] = cliente[d]
      /\ cliente' \in [Cliente -> {"cria", "abre", "nome", "teclado", "manda", "espera",
                                   "fecha", "fim"}]
  BY <1>1 DEF Vai, TypeOK
<1>3. nome'[CLIENTE] = 0 /\ nome'[SERVIDOR] = nome[SERVIDOR]
      /\ nome' \in [{SERVIDOR, CLIENTE} -> 0..criadas]
  BY <1>1, OsNomes DEF TypeOK
<1>4. TypeOK'
  <2>1. Fila' = Fila
    BY DEF Fila
  <2> QED
    BY <1>1, <1>2, <1>3, <2>1 DEF TypeOK, doServidor
<1>5. TemFila'
  BY <1>1, <1>2 DEF TemFila, doServidor
<1>6. DeLinhas' = DeLinhas /\ DeRespostas' \subseteq DeRespostas \cup {0}
  BY <1>1, <1>3 DEF DeLinhas, DeRespostas, doServidor
<1> QED
  BY <1>1, <1>4, <1>5, <1>6, BaseCliente
\* A step of a client that sends: one message more, and one more that is due.
LEMMA BaseEnvio ==
  ASSUME Base, NEW c \in Cliente, NEW para, NEW m \in Linha,
         Vai(c, para), mq_send(qd_server[c], m),
         \/ cliente[c] = "nome" /\ para = "teclado"
         \/ cliente[c] = "manda" /\ para \in {"espera", "fecha"},
         UNCHANGED <<qd_client, qd_server, pedido, mostrada, doServidor>>
  PROVE  Base'
<1> USE DEF Base
<1>1. /\ nome' = nome /\ criadas' = criadas
      /\ qd_server[c] \in 0..criadas /\ qd_server[c] # 0 /\ qd_server[c] \in DeLinhas
  BY DEF mq_send, TypeOK, TemFila, DeLinhas
<1>2. DeLinhas' = DeLinhas /\ DeRespostas' = DeRespostas
  BY <1>1 DEF DeLinhas, DeRespostas, doServidor
<1>3. /\ DOMAIN filas' = Fila /\ \A g \in Fila : Len(filas'[g]) \in Nat
      /\ UmUso'
      /\ Cardinality(Guardadas)' = Cardinality(Guardadas) + 1
  BY <1>1, <1>2, TipoEnvio
<1>4. /\ cliente'[c] = para /\ \A d \in Cliente : d # c => cliente'[d] = cliente[d]
      /\ cliente' \in [Cliente -> {"cria", "abre", "nome", "teclado", "manda", "espera",
                                   "fecha", "fim"}]
  BY DEF Vai, TypeOK
<1>5. TypeOK'
  <2>1. Fila' = Fila
    BY DEF Fila
  <2> QED
    BY <1>1, <1>3, <1>4, <2>1 DEF TypeOK, doServidor
<1>6. TemFila'
  BY <1>1, <1>4 DEF TemFila, doServidor
<1>7. /\ Criadores' = IF para = "cria" THEN Criadores \ {c} ELSE Criadores \cup {c}
      /\ Apresentados' = IF para \in {"cria", "abre", "nome"} THEN Apresentados \ {c}
                         ELSE Apresentados \cup {c}
      /\ SemResposta' = IF para \in {"espera", "fecha", "fim"} THEN SemResposta \cup {c}
                        ELSE SemResposta \ {c}
  BY Anda
<1>8. CadaUmUma'
  <2>1. Criadores' = Criadores
    BY <1>7 DEF Criadores
  <2> QED
    BY <1>1, <2>1 DEF CadaUmUma, Criadores, doServidor
<1>9. Contadas'
  <2>1. /\ Cardinality(Apresentados) \in Nat /\ Cardinality(SemResposta) \in Nat
        /\ Cardinality(Guardadas) \in Nat
    BY Finitos, Subconjuntos, GuardadasFinitas
  <2>2. Cardinality(Apresentados') + Cardinality(SemResposta')
          = Cardinality(Apresentados) + Cardinality(SemResposta) + 1
    <3>1. CASE cliente[c] = "nome" /\ para = "teclado"
      <4>1. c \notin Apresentados /\ c \notin SemResposta
        BY <3>1 DEF Apresentados, SemResposta
      <4>2. Apresentados' = Apresentados \cup {c} /\ SemResposta' = SemResposta
        BY <1>7, <3>1, <4>1
      <4>3. Cardinality(Apresentados') = Cardinality(Apresentados) + 1
        BY <4>1, <4>2, Mais, Subconjuntos
      <4> QED
        BY <2>1, <4>2, <4>3
    <3>2. CASE cliente[c] = "manda" /\ para \in {"espera", "fecha"}
      <4>1. c \in Apresentados /\ c \notin SemResposta
        BY <3>2 DEF Apresentados, SemResposta
      <4>2. Apresentados' = Apresentados /\ SemResposta' = SemResposta \cup {c}
        BY <1>7, <3>2, <4>1
      <4>3. Cardinality(SemResposta') = Cardinality(SemResposta) + 1
        BY <4>1, <4>2, Mais, Subconjuntos
      <4> QED
        BY <2>1, <4>2, <4>3
    <3> QED
      BY <3>1, <3>2
  <2>3. Cardinality(Guardadas) + (IF servidor = "responde" THEN 1 ELSE 0)
          <= Cardinality(Apresentados) + Cardinality(SemResposta)
    BY DEF Contadas
  <2>4. Cardinality(Guardadas') + (IF servidor = "responde" THEN 1 ELSE 0)
          <= Cardinality(Apresentados') + Cardinality(SemResposta')
    BY <1>3, <2>1, <2>2, <2>3
  <2> QED
    BY <2>4 DEF Contadas, doServidor
<1> QED
  BY <1>3, <1>5, <1>6, <1>8, <1>9

LEMMA BaseManda == ASSUME Base, NEW c \in Cliente, MandaNome(c) \/ Manda(c) PROVE Base'
<1>1. CASE MandaNome(c)
  <2>1. NOME \in Linha
    BY DEF Linha
  <2> QED
    BY <1>1, <2>1, BaseEnvio DEF MandaNome
<1>2. CASE Manda(c)
  <2> DEFINE para == IF pedido[c] = NO_NO THEN "fecha" ELSE "espera"
  <2>1. pedido[c] \in Linha
    BY DEF Base, TypeOK, Linha
  <2>2. para \in {"espera", "fecha"}
    OBVIOUS
  <2>3. /\ cliente[c] = "manda" /\ mq_send(qd_server[c], pedido[c]) /\ Vai(c, para)
        /\ UNCHANGED <<qd_client, qd_server, pedido, mostrada, doServidor>>
    BY <1>2 DEF Manda
  <2> HIDE DEF para
  <2> QED
    BY <2>1, <2>2, <2>3, BaseEnvio
<1> QED
  BY <1>1, <1>2

LEMMA BaseEspera == ASSUME Base, NEW c \in Cliente, Espera(c) PROVE Base'
<1> USE DEF Base
<1> DEFINE f == qd_client[c]
<1>1. /\ cliente[c] = "espera" /\ mq_receive(f) /\ Vai(c, "teclado")
      /\ mostrada' = [mostrada EXCEPT ![c] = Head(filas[f])]
      /\ UNCHANGED <<qd_client, qd_server, pedido, doServidor, nome, criadas>>
  BY DEF Espera, mq_receive
<1>2. f \in 0..criadas /\ f # 0 /\ f \in DeRespostas
  BY <1>1 DEF TypeOK, TemFila, DeRespostas
<1> HIDE DEF f
<1>3. DeLinhas' = DeLinhas /\ DeRespostas' = DeRespostas
  BY <1>1 DEF DeLinhas, DeRespostas, doServidor
<1>4. /\ DOMAIN filas' = Fila /\ \A g \in Fila : Len(filas'[g]) \in Nat
      /\ Head(filas[f]) \in Resposta
      /\ UmUso'
      /\ Cardinality(Guardadas)' = Cardinality(Guardadas) - 1
  BY <1>1, <1>2, <1>3, TipoRetirada
<1>5. /\ cliente'[c] = "teclado" /\ \A d \in Cliente : d # c => cliente'[d] = cliente[d]
      /\ cliente' \in [Cliente -> {"cria", "abre", "nome", "teclado", "manda", "espera",
                                   "fecha", "fim"}]
  BY <1>1 DEF Vai, TypeOK
<1>6. TypeOK'
  <2>1. Fila' = Fila
    BY DEF Fila
  <2>2. mostrada' \in [Cliente -> Resposta \cup {NADA}]
    BY <1>1, <1>4 DEF TypeOK
  <2> QED
    BY <1>1, <1>4, <1>5, <2>1, <2>2 DEF TypeOK, doServidor
<1>7. TemFila'
  BY <1>1, <1>5 DEF TemFila, doServidor
<1>8. /\ Criadores' = Criadores \cup {c} /\ Apresentados' = Apresentados \cup {c}
      /\ SemResposta' = SemResposta \ {c}
  BY <1>1, Anda
<1>9. c \in Criadores /\ c \in Apresentados /\ c \in SemResposta
  BY <1>1 DEF Criadores, Apresentados, SemResposta
<1>10. CadaUmUma'
  <2>1. Criadores' = Criadores
    BY <1>8, <1>9
  <2> QED
    BY <1>1, <2>1 DEF CadaUmUma, Criadores, doServidor
<1>11. Contadas'
  <2>1. /\ Cardinality(Apresentados) \in Nat /\ Cardinality(SemResposta) \in Nat
        /\ Cardinality(Guardadas) \in Nat
    BY Finitos, Subconjuntos, GuardadasFinitas
  <2>2. Apresentados' = Apresentados /\ Cardinality(SemResposta') = Cardinality(SemResposta) - 1
    BY <1>8, <1>9, Mais, Subconjuntos
  <2>3. Cardinality(Guardadas) + (IF servidor = "responde" THEN 1 ELSE 0)
          <= Cardinality(Apresentados) + Cardinality(SemResposta)
    BY DEF Contadas
  <2>4. Cardinality(Guardadas') + (IF servidor = "responde" THEN 1 ELSE 0)
          <= Cardinality(Apresentados') + Cardinality(SemResposta')
    BY <1>4, <2>1, <2>2, <2>3
  <2> QED
    BY <1>1, <2>4 DEF Contadas, doServidor
<1> QED
  BY <1>4, <1>6, <1>7, <1>10, <1>11

LEMMA PassoBase == Base /\ [Next]_vars => Base'
<1> SUFFICES ASSUME Base, [Next]_vars PROVE Base'
  OBVIOUS
<1>1. CASE Servidor
  BY <1>1, BaseAbre, BaseAbreCliente, BaseResponde, BaseEncerra, BaseRecebe DEF Servidor
<1>2. CASE Reinicia
  BY <1>2, BaseReinicia
<1>3. ASSUME NEW c \in Cliente, UmCliente(c) \/ Digita(c) PROVE Base'
  BY <1>3, BaseCriaFila, BaseAbreServidor, BaseDigita, BaseManda, BaseEspera, BaseFecha
     DEF UmCliente
<1>4. CASE UNCHANGED vars
  <2>1. Fila' = Fila /\ DeLinhas' = DeLinhas /\ DeRespostas' = DeRespostas
        /\ Guardadas' = Guardadas /\ Apresentados' = Apresentados /\ SemResposta' = SemResposta
    BY <1>4 DEF vars, doServidor, dosClientes, sistema, Fila, DeLinhas, DeRespostas, Guardadas,
                Apresentados, SemResposta
  <2>2. TypeOK'
    BY <1>4, <2>1 DEF Base, TypeOK, vars, doServidor, dosClientes, sistema
  <2>3. UmUso' /\ TemFila' /\ CadaUmUma' /\ Contadas'
    BY <1>4, <2>1 DEF Base, UmUso, TemFila, CadaUmUma, Contadas, vars, doServidor, dosClientes,
                      sistema
  <2> QED
    BY <2>2, <2>3 DEF Base
<1> QED
  BY <1>1, <1>2, <1>3, <1>4 DEF Next
-----------------------------------------------------------------------------
(* The conversation of a client that no other has joined *)

Presente(c) == SoDe(c) /\ cliente[c] \notin {"fecha", "fim"}

\* Who is alone now was alone before.
LEMMA SozinhoAntes == ASSUME Base, [Next]_vars, NEW c \in Cliente, Presente(c)'
                      PROVE  Presente(c)
<1> USE DEF Base
<1>1. \A d \in Cliente : /\ cliente'[d] \in {"cria", "abre", "nome"} =>
                              cliente[d] \in {"cria", "abre", "nome"}
                         /\ cliente'[d] \notin {"fecha", "fim"} =>
                              cliente[d] \notin {"fecha", "fim"}
  <2>1. CASE cliente' = cliente
    BY <2>1
  <2>2. ASSUME NEW d \in Cliente, NEW para, Vai(d, para),
               \/ cliente[d] \in {"cria", "abre", "nome"}
               \/ para \notin {"cria", "abre", "nome"},
               cliente[d] \in {"fecha", "fim"} => para \in {"fecha", "fim"}
        PROVE  <1>1
    BY <2>2, Anda
  <2>3. ASSUME NEW d \in Cliente, UmCliente(d) \/ Digita(d)
        PROVE  \E para : /\ Vai(d, para)
                         /\ \/ cliente[d] \in {"cria", "abre", "nome"}
                            \/ para \notin {"cria", "abre", "nome"}
                         /\ cliente[d] \in {"fecha", "fim"} => para \in {"fecha", "fim"}
    BY <2>3 DEF UmCliente, CriaFila, AbreServidor, MandaNome, Manda, Espera, Fecha, Digita
  <2>4. Servidor \/ Reinicia \/ UNCHANGED vars => cliente' = cliente
    BY DEF Servidor, Abre, AbreCliente, Responde, Encerra, Recebe, Reinicia, vars, dosClientes
  <2> QED
    BY <2>1, <2>2, <2>3, <2>4 DEF Next
<1> QED
  BY <1>1 DEF Presente, SoDe

\* The two queues of the conversation.
LEMMA DuasFilas ==
  ASSUME Base, NEW c \in Cliente, Conversa(c)
  PROVE  /\ nome[SERVIDOR] # 0 => nome[SERVIDOR] \in Fila
         /\ nome[CLIENTE] # 0 => nome[CLIENTE] \in Fila /\ nome[CLIENTE] # nome[SERVIDOR]
         /\ servidor # "abre" => nome[SERVIDOR] # 0
         /\ nome[SERVIDOR] # criadas + 1 /\ nome[CLIENTE] # criadas + 1
<1>1. nome[SERVIDOR] \in 0..criadas /\ nome[CLIENTE] \in 0..criadas /\ criadas \in Nat
  BY OsNomes DEF Base, TypeOK
<1>2. \A f \in 0..criadas : f # 0 => f \in Fila
  BY Numeradas DEF Base
<1>3. servidor # "abre" => nome[SERVIDOR] = qd_servidor /\ qd_servidor # 0
  BY DEF Conversa, Base, TemFila
<1> QED
  BY <1>1, <1>2, <1>3 DEF Conversa

\* Steps of others that touch nothing of it.
LEMMA ConversaFica ==
  ASSUME NEW c \in Cliente, Conversa(c),
         UNCHANGED <<servidor, in_buffer, qd_servidor, qd_resposta, nome, filas>>,
         cliente'[c] = cliente[c], qd_client'[c] = qd_client[c], qd_server'[c] = qd_server[c],
         pedido'[c] = pedido[c], mostrada'[c] = mostrada[c]
  PROVE  Conversa(c)'
<1>1. Vai1' = Vai1 /\ Volta1' = Volta1 /\ Fila' = Fila
  BY DEF Vai1, Volta1, Fila
<1>2. Apresenta' <=> Apresenta
  BY <1>1 DEF Apresenta, Recomeca
<1>3. Pergunta(pedido[c])' <=> Pergunta(pedido[c])
  BY <1>1 DEF Pergunta, Recomeca
<1> QED
  BY <1>1, <1>2, <1>3 DEF Conversa, Recomeca

\* A server that is about to start, or has just started, changes nothing of the
\* conversation: whatever it was in the middle of, its queues stay as they are.
LEMMA ConversaRecomeca ==
  ASSUME Base, NEW c \in Cliente, Presente(c), Conversa(c), Recomeca',
         servidor' # "abre" => qd_servidor' = nome[SERVIDOR],
         UNCHANGED <<dosClientes, nome, filas>>
  PROVE  Conversa(c)'
<1>1. Vai1' = Vai1 /\ Volta1' = Volta1 /\ Fila' = Fila
  BY DEF Vai1, Volta1, Fila
<1>2. cliente[c] \in {"teclado", "manda"} => Apresenta' /\ Volta1' = <<>>
  BY <1>1 DEF Conversa, Apresenta
<1>3. cliente[c] = "espera" => pedido[c] # NO_NO /\ Pergunta(pedido[c])'
  <2> SUFFICES ASSUME cliente[c] = "espera" PROVE pedido[c] # NO_NO /\ Pergunta(pedido[c])'
    OBVIOUS
  <2>1. pedido[c] # NO_NO /\ Pergunta(pedido[c])
    BY DEF Conversa
  <2>2. \/ Volta1 = <<>> /\ Vai1 \in {<<NOME, pedido[c]>>, <<pedido[c]>>, <<>>}
        \/ Volta1 = <<encontrarPalavra(pedido[c])>> /\ Vai1 = <<>>
    BY <2>1 DEF Pergunta
  <2>3. pedido'[c] = pedido[c]
    BY DEF dosClientes
  <2> QED
    BY <1>1, <2>1, <2>2, <2>3 DEF Pergunta
<1> QED
  BY <1>1, <1>2, <1>3 DEF Conversa, dosClientes

LEMMA ConversaReinicia ==
  ASSUME Base, NEW c \in Cliente, Presente(c), Conversa(c), Reinicia
  PROVE  Conversa(c)'
<1>1. servidor' = "abre" /\ UNCHANGED <<dosClientes, nome, filas>>
  BY DEF Reinicia, sistema
<1> QED
  BY <1>1, ConversaRecomeca DEF Recomeca

\* The first server makes the queue; the others find it.
LEMMA ConversaAbre ==
  ASSUME Base, NEW c \in Cliente, Presente(c), Conversa(c), Abre
  PROVE  Conversa(c)'
<1> DEFINE f == QueFila(SERVIDOR)
<1>1. /\ servidor = "abre" /\ servidor' = "nome"
      /\ nome' = [nome EXCEPT ![SERVIDOR] = f] /\ qd_servidor' = f /\ filas' = filas
      /\ UNCHANGED dosClientes
      /\ f = (IF nome[SERVIDOR] # 0 THEN nome[SERVIDOR] ELSE criadas + 1)
  BY DEF Abre, mq_open, QueFila
<1> HIDE DEF f
<1>2. CASE nome[SERVIDOR] # 0
  <2>1. nome' = nome /\ f = nome[SERVIDOR]
    BY <1>1, <1>2 DEF Base, TypeOK
  <2> QED
    BY <1>1, <2>1, ConversaRecomeca DEF Recomeca
<1>3. CASE nome[SERVIDOR] = 0
  <2>1. f # 0 /\ nome[CLIENTE] # f
    BY <1>1, <1>3, DuasFilas DEF Base, TypeOK
  <2>2. nome'[SERVIDOR] = f /\ nome'[CLIENTE] = nome[CLIENTE]
    BY <1>1, OsNomes DEF Base, TypeOK
  <2>3. cliente[c] \in {"cria", "abre"}
    BY <1>3 DEF Base, TypeOK, Presente, Conversa
  <2>4. Fila' = Fila
    BY DEF Fila
  <2> QED
    BY <1>1, <2>1, <2>2, <2>3, <2>4 DEF Conversa, Recomeca, dosClientes
<1> QED
  BY <1>2, <1>3

LEMMA ConversaAbreCliente ==
  ASSUME Base, NEW c \in Cliente, Presente(c), Conversa(c), AbreCliente
  PROVE  Conversa(c)'
<1>1. /\ servidor = "abreCliente" /\ servidor' = "recebe"
      /\ qd_resposta' = IF in_buffer = NOME THEN nome[CLIENTE] ELSE 0
      /\ UNCHANGED <<in_buffer, qd_servidor, dosClientes, nome, filas>>
  BY DEF AbreCliente, sistema
<1>2. Vai1' = Vai1 /\ Volta1' = Volta1
  BY <1>1 DEF Vai1, Volta1
<1>3. cliente[c] \in {"teclado", "manda", "espera"}
  BY <1>1 DEF Base, TypeOK, Presente, Conversa, Recomeca
<1>4. cliente[c] \in {"teclado", "manda"} => Apresenta'
  BY <1>1, <1>2 DEF Conversa, Apresenta, Recomeca
<1>5. cliente[c] = "espera" => Pergunta(pedido[c])'
  BY <1>1, <1>2 DEF Conversa, Pergunta, Recomeca, dosClientes
<1> QED
  BY <1>1, <1>2, <1>3, <1>4, <1>5 DEF Conversa, dosClientes

\* What the server takes out is the first message of the client's.
LEMMA Tira ==
  ASSUME Base, NEW c \in Cliente, Conversa(c), servidor # "abre", mq_receive(qd_servidor)
  PROVE  /\ Vai1 # <<>> /\ Vai1' = Tail(Vai1) /\ Volta1' = Volta1 /\ nome' = nome
         /\ Head(filas[qd_servidor]) = Head(Vai1)
         /\ cliente[c] \notin {"cria", "abre", "nome"}
<1>1. /\ qd_servidor = nome[SERVIDOR] /\ nome[SERVIDOR] \in Fila
      /\ nome[CLIENTE] # nome[SERVIDOR] /\ nome' = nome
  BY DuasFilas DEF Conversa, mq_receive
<1>2. /\ filas[nome[SERVIDOR]] # <<>> /\ filas' = [filas EXCEPT ![nome[SERVIDOR]] = Tail(@)]
      /\ DOMAIN filas = Fila
  BY <1>1 DEF mq_receive, Base, TypeOK
<1>3. filas'[nome[SERVIDOR]] = Tail(filas[nome[SERVIDOR]])
  BY <1>1, <1>2
<1>4. nome[CLIENTE] # 0 => filas'[nome[CLIENTE]] = filas[nome[CLIENTE]]
  BY <1>1, <1>2, DuasFilas
<1>5. cliente[c] \notin {"cria", "abre", "nome"}
  BY <1>1, <1>2 DEF Conversa
<1>6. nome[CLIENTE] # 0
  BY <1>5 DEF Conversa, Base, TypeOK
<1> QED
  BY <1>1, <1>2, <1>3, <1>4, <1>5, <1>6 DEF Vai1, Volta1

LEMMA ConversaRecebeNome ==
  ASSUME Base, NEW c \in Cliente, Presente(c), Conversa(c), Recebe("nome", "abreCliente")
  PROVE  Conversa(c)'
<1>1. /\ servidor = "nome" /\ servidor' = "abreCliente" /\ mq_receive(qd_servidor)
      /\ in_buffer' = Head(filas[qd_servidor])
      /\ UNCHANGED <<qd_servidor, qd_resposta, dosClientes>>
  BY DEF Recebe
<1>2. /\ Vai1 # <<>> /\ Vai1' = Tail(Vai1) /\ Volta1' = Volta1 /\ nome' = nome
      /\ in_buffer' = Head(Vai1)
      /\ cliente[c] \in {"teclado", "manda", "espera"}
  BY <1>1, Tira DEF Base, TypeOK, Presente
<1>3. cliente[c] \in {"teclado", "manda"} => Apresenta'
  <2> SUFFICES ASSUME cliente[c] \in {"teclado", "manda"} PROVE Apresenta'
    OBVIOUS
  <2>1. Vai1 = <<NOME>>
    BY <1>1, <1>2 DEF Conversa, Apresenta
  <2> QED
    BY <1>1, <1>2, <2>1, Curtas DEF Apresenta
<1>4. cliente[c] = "espera" => Pergunta(pedido[c])'
  <2> SUFFICES ASSUME cliente[c] = "espera" PROVE Pergunta(pedido[c])'
    OBVIOUS
  <2>1. Volta1 = <<>> /\ Vai1 \in {<<NOME, pedido[c]>>, <<pedido[c]>>}
    BY <1>1, <1>2 DEF Conversa, Pergunta
  <2>2. /\ Vai1 = <<NOME, pedido[c]>> => Head(Vai1) = NOME /\ Tail(Vai1) = <<pedido[c]>>
        /\ Vai1 = <<pedido[c]>> => Tail(Vai1) = <<>>
    BY Curtas
  <2> QED
    BY <1>1, <1>2, <2>1, <2>2 DEF Pergunta, dosClientes
<1> QED
  BY <1>1, <1>2, <1>3, <1>4 DEF Conversa, dosClientes

LEMMA ConversaRecebePalavra ==
  ASSUME Base, NEW c \in Cliente, Presente(c), Conversa(c), Recebe("recebe", "responde")
  PROVE  Conversa(c)'
<1>1. /\ servidor = "recebe" /\ servidor' = "responde" /\ mq_receive(qd_servidor)
      /\ in_buffer' = Head(filas[qd_servidor])
      /\ UNCHANGED <<qd_servidor, qd_resposta, dosClientes>>
  BY DEF Recebe
<1>2. /\ Vai1 # <<>> /\ Vai1' = Tail(Vai1) /\ Volta1' = Volta1 /\ nome' = nome
      /\ in_buffer' = Head(Vai1)
      /\ cliente[c] \in {"teclado", "manda", "espera"}
  BY <1>1, Tira DEF Base, TypeOK, Presente
<1>3. cliente[c] = "espera"
  BY <1>1, <1>2 DEF Conversa, Apresenta, Recomeca
<1>4. Pergunta(pedido[c])'
  <2>1. Volta1 = <<>> /\ Vai1 = <<pedido[c]>> /\ qd_resposta = nome[CLIENTE]
    BY <1>1, <1>2, <1>3 DEF Conversa, Pergunta, Recomeca
  <2>2. Head(Vai1) = pedido[c] /\ Tail(Vai1) = <<>>
    BY <2>1, Curtas
  <2> QED
    BY <1>1, <1>2, <2>1, <2>2 DEF Pergunta, dosClientes
<1> QED
  BY <1>1, <1>2, <1>3, <1>4 DEF Conversa, dosClientes

\* The server is about to answer only to somebody who waits.
LEMMA RespondeAQuemEspera ==
  ASSUME Base, NEW c \in Cliente, Presente(c), Conversa(c), servidor = "responde"
  PROVE  /\ cliente[c] = "espera" /\ in_buffer = pedido[c] /\ pedido[c] # NO_NO
         /\ qd_resposta = nome[CLIENTE] /\ Vai1 = <<>> /\ Volta1 = <<>>
<1>1. cliente[c] = "espera"
  BY DEF Base, TypeOK, Presente, Conversa, Apresenta, Recomeca
<1> QED
  BY <1>1 DEF Conversa, Pergunta, Recomeca

LEMMA ConversaResponde ==
  ASSUME Base, NEW c \in Cliente, Presente(c), Conversa(c), Responde
  PROVE  Conversa(c)'
<1>1. /\ servidor = "responde" /\ servidor' = "recebe"
      /\ UNCHANGED <<in_buffer, qd_servidor, qd_resposta, dosClientes, nome>>
  BY DEF Responde, mq_send, sistema
<1>2. /\ cliente[c] = "espera" /\ in_buffer = pedido[c] /\ pedido[c] # NO_NO
      /\ qd_resposta = nome[CLIENTE] /\ Vai1 = <<>> /\ Volta1 = <<>>
  BY <1>1, RespondeAQuemEspera
<1>3. nome[CLIENTE] # 0 /\ nome[CLIENTE] \in Fila /\ nome[CLIENTE] # nome[SERVIDOR]
      /\ nome[SERVIDOR] \in Fila
  BY <1>1, <1>2, DuasFilas DEF Conversa
<1>4. filas' = [filas EXCEPT ![nome[CLIENTE]] = Append(@, encontrarPalavra(pedido[c]))]
  BY <1>2, <1>3 DEF Responde, mq_send
<1>5. Volta1' = <<encontrarPalavra(pedido[c])>> /\ Vai1' = <<>>
  <2>1. DOMAIN filas = Fila
    BY DEF Base, TypeOK
  <2>2. filas'[nome[CLIENTE]] = Append(filas[nome[CLIENTE]], encontrarPalavra(pedido[c]))
        /\ filas'[nome[SERVIDOR]] = filas[nome[SERVIDOR]]
    BY <1>3, <1>4, <2>1
  <2> QED
    BY <1>1, <1>2, <2>2, Curtas DEF Vai1, Volta1
<1>6. encontrarPalavra(pedido[c])' = encontrarPalavra(pedido[c])
  BY <1>1 DEF dosClientes
<1>7. Pergunta(pedido[c])'
  BY <1>1, <1>2, <1>5, <1>6 DEF Pergunta, dosClientes
<1> QED
  BY <1>1, <1>2, <1>3, <1>7 DEF Conversa, dosClientes

LEMMA ConversaServidor ==
  ASSUME Base, NEW c \in Cliente, Presente(c), Conversa(c), Servidor
  PROVE  Conversa(c)'
<1>1. ~Encerra
  BY RespondeAQuemEspera DEF Encerra
<1> QED
  BY <1>1, ConversaAbre, ConversaAbreCliente, ConversaRecebeNome, ConversaRecebePalavra,
     ConversaResponde DEF Servidor
\* CriaFila of any client: of c itself, or of another, which finds the queue
\* that c has, or makes the one that c is going to find.
LEMMA ConversaCriaFila ==
  ASSUME Base, NEW c \in Cliente, NEW d \in Cliente, Presente(c), Conversa(c), CriaFila(d)
  PROVE  Conversa(c)'
<1> DEFINE f == QueFila(CLIENTE)
<1>1. /\ cliente[d] = "cria" /\ Vai(d, "abre")
      /\ nome' = [nome EXCEPT ![CLIENTE] = f] /\ qd_client' = [qd_client EXCEPT ![d] = f]
      /\ filas' = filas /\ UNCHANGED <<qd_server, pedido, mostrada, doServidor>>
      /\ f = (IF nome[CLIENTE] # 0 THEN nome[CLIENTE] ELSE criadas + 1)
  BY DEF CriaFila, mq_open, QueFila
<1>2. f # 0 /\ f # nome[SERVIDOR] /\ (nome[CLIENTE] # 0 => f = nome[CLIENTE])
  BY <1>1, DuasFilas DEF Base, TypeOK
<1> HIDE DEF f
<1>3. nome'[CLIENTE] = f /\ nome'[SERVIDOR] = nome[SERVIDOR]
  BY <1>1, OsNomes DEF Base, TypeOK
<1>4. /\ cliente'[d] = "abre" /\ \A e \in Cliente : e # d => cliente'[e] = cliente[e]
      /\ qd_client'[d] = f /\ \A e \in Cliente : e # d => qd_client'[e] = qd_client[e]
  BY <1>1, Anda DEF Base, TypeOK
<1>5. Fila' = Fila
  BY DEF Fila
<1>6. CASE c = d
  BY <1>1, <1>2, <1>3, <1>4, <1>5, <1>6 DEF Conversa, Recomeca, doServidor
<1>7. CASE c # d /\ nome[CLIENTE] # 0
  <2>1. nome' = nome
    BY <1>1, <1>2, <1>7 DEF Base, TypeOK
  <2> QED
    BY <1>1, <1>4, <1>7, <2>1, ConversaFica DEF doServidor
<1>8. CASE c # d /\ nome[CLIENTE] = 0
  <2>1. cliente[c] = "cria"
    BY <1>8 DEF Conversa
  <2> QED
    BY <1>1, <1>2, <1>3, <1>4, <1>5, <1>8, <2>1 DEF Conversa, Recomeca, doServidor
<1> QED
  BY <1>6, <1>7, <1>8

LEMMA ConversaAbreServidor ==
  ASSUME Base, NEW c \in Cliente, Presente(c), Presente(c)', Conversa(c), AbreServidor(c)
  PROVE  Conversa(c)'
<1>1. /\ cliente[c] = "abre"
      /\ qd_server' = [qd_server EXCEPT ![c] = nome[SERVIDOR]]
      /\ Vai(c, IF nome[SERVIDOR] = 0 THEN "fim" ELSE "nome")
      /\ UNCHANGED <<qd_client, pedido, mostrada, doServidor, nome, filas>>
  BY DEF AbreServidor, sistema
<1>2. cliente'[c] = IF nome[SERVIDOR] = 0 THEN "fim" ELSE "nome"
  BY <1>1, Anda DEF Base
<1>3. cliente'[c] = "nome" /\ nome[SERVIDOR] # 0
  BY <1>2 DEF Presente
<1>4. qd_server'[c] = nome[SERVIDOR] /\ Fila' = Fila
  BY <1>1, <1>3 DEF Base, TypeOK, Fila
<1> QED
  BY <1>1, <1>3, <1>4 DEF Conversa, Recomeca, doServidor

\* What the client sends comes after what it sent before.
LEMMA Poe ==
  ASSUME Base, NEW c \in Cliente, Presente(c), Conversa(c), NEW m \in Linha,
         cliente[c] \in {"nome", "manda"}, mq_send(qd_server[c], m)
  PROVE  /\ Vai1' = Append(Vai1, m) /\ Volta1' = Volta1 /\ Volta1 = <<>> /\ nome' = nome
         /\ qd_server[c] = nome[SERVIDOR] /\ nome[SERVIDOR] # 0
         /\ cliente[c] = "nome" => Recomeca /\ Vai1 = <<>>
<1>1. /\ qd_server[c] = nome[SERVIDOR] /\ nome[SERVIDOR] # 0 /\ nome[CLIENTE] # 0 /\ nome' = nome
  BY DEF Conversa, mq_send
<1>2. /\ nome[SERVIDOR] \in Fila /\ nome[CLIENTE] \in Fila /\ nome[CLIENTE] # nome[SERVIDOR]
  BY <1>1, DuasFilas
<1>3. filas' = [filas EXCEPT ![nome[SERVIDOR]] = Append(@, m)] /\ DOMAIN filas = Fila
  BY <1>1 DEF mq_send, Base, TypeOK
<1>4. filas'[nome[SERVIDOR]] = Append(filas[nome[SERVIDOR]], m)
      /\ filas'[nome[CLIENTE]] = filas[nome[CLIENTE]]
  BY <1>2, <1>3
<1>5. cliente[c] = "nome" => Recomeca /\ Vai1 = <<>> /\ Volta1 = <<>>
  BY <1>1, <1>2 DEF Conversa, Vai1, Volta1
<1>6. cliente[c] = "manda" => Volta1 = <<>>
  BY DEF Conversa
<1> QED
  BY <1>1, <1>4, <1>5, <1>6 DEF Vai1, Volta1

LEMMA ConversaMandaNome ==
  ASSUME Base, NEW c \in Cliente, Presente(c), Conversa(c), MandaNome(c)
  PROVE  Conversa(c)'
<1>1. /\ cliente[c] = "nome" /\ mq_send(qd_server[c], NOME) /\ Vai(c, "teclado")
      /\ UNCHANGED <<qd_client, qd_server, pedido, mostrada, doServidor>>
  BY DEF MandaNome
<1>2. cliente'[c] = "teclado"
  BY <1>1, Anda DEF Base
<1>3. /\ Vai1' = <<NOME>> /\ Volta1' = <<>> /\ nome' = nome /\ Recomeca
      /\ qd_server[c] = nome[SERVIDOR] /\ nome[SERVIDOR] # 0
  <2>1. cliente[c] \in {"nome", "manda"} /\ mq_send(qd_server[c], NOME) /\ NOME \in Linha
    BY <1>1 DEF Linha
  <2>2. /\ Vai1' = Append(Vai1, NOME) /\ Volta1' = Volta1 /\ Volta1 = <<>> /\ nome' = nome
        /\ qd_server[c] = nome[SERVIDOR] /\ nome[SERVIDOR] # 0
        /\ cliente[c] = "nome" => Recomeca /\ Vai1 = <<>>
    BY <2>1, Poe
  <2> QED
    BY <1>1, <2>2, Curtas
<1>4. Apresenta'
  BY <1>1, <1>3 DEF Apresenta, Recomeca, doServidor
<1> QED
  BY <1>1, <1>2, <1>3, <1>4 DEF Conversa, doServidor

LEMMA ConversaDigita ==
  ASSUME Base, NEW c \in Cliente, Presente(c), Conversa(c), Digita(c)
  PROVE  Conversa(c)'
<1>1. /\ cliente[c] = "teclado" /\ Vai(c, "manda")
      /\ UNCHANGED <<qd_client, qd_server, mostrada, doServidor, nome, filas>>
  BY DEF Digita, sistema
<1>2. cliente'[c] = "manda"
  BY <1>1, Anda DEF Base
<1>3. Apresenta' /\ Volta1' = <<>>
  BY <1>1 DEF Conversa, Apresenta, Recomeca, Vai1, Volta1, doServidor
<1> QED
  BY <1>1, <1>2, <1>3 DEF Conversa, doServidor

LEMMA ConversaManda ==
  ASSUME Base, NEW c \in Cliente, Presente(c), Presente(c)', Conversa(c), Manda(c)
  PROVE  Conversa(c)'
<1>1. /\ cliente[c] = "manda" /\ mq_send(qd_server[c], pedido[c])
      /\ Vai(c, IF pedido[c] = NO_NO THEN "fecha" ELSE "espera")
      /\ UNCHANGED <<qd_client, qd_server, pedido, mostrada, doServidor>>
  BY DEF Manda
<1>2. cliente'[c] = IF pedido[c] = NO_NO THEN "fecha" ELSE "espera"
  BY <1>1, Anda DEF Base
<1>3. cliente'[c] = "espera" /\ pedido[c] # NO_NO
  BY <1>2 DEF Presente
<1>4. /\ Vai1' = Append(Vai1, pedido[c]) /\ Volta1' = <<>> /\ nome' = nome
      /\ qd_server[c] = nome[SERVIDOR] /\ nome[SERVIDOR] # 0
  <2>1. cliente[c] \in {"nome", "manda"} /\ pedido[c] \in Linha
    BY <1>1 DEF Base, TypeOK, Linha
  <2>2. /\ Vai1' = Append(Vai1, pedido[c]) /\ Volta1' = Volta1 /\ Volta1 = <<>> /\ nome' = nome
        /\ qd_server[c] = nome[SERVIDOR] /\ nome[SERVIDOR] # 0
    BY <1>1, <2>1, Poe
  <2> QED
    BY <2>2
<1>5. Apresenta
  BY <1>1 DEF Conversa
<1>6. /\ Vai1 = <<>> => Vai1' = <<pedido[c]>>
      /\ Vai1 = <<NOME>> => Vai1' = <<NOME, pedido[c]>>
  BY <1>4, Curtas
<1>7. Pergunta(pedido[c])'
  BY <1>1, <1>4, <1>5, <1>6 DEF Apresenta, Pergunta, Recomeca, doServidor
<1> QED
  BY <1>1, <1>3, <1>4, <1>7 DEF Conversa, doServidor

LEMMA ConversaEspera ==
  ASSUME Base, NEW c \in Cliente, Presente(c), Conversa(c), Espera(c)
  PROVE  Conversa(c)'
<1>1. /\ cliente[c] = "espera" /\ mq_receive(qd_client[c]) /\ Vai(c, "teclado")
      /\ mostrada' = [mostrada EXCEPT ![c] = Head(filas[qd_client[c]])]
      /\ UNCHANGED <<qd_client, qd_server, pedido, doServidor, nome>>
  BY DEF Espera, mq_receive
<1>2. cliente'[c] = "teclado"
  BY <1>1, Anda DEF Base
<1>3. /\ qd_client[c] = nome[CLIENTE] /\ nome[CLIENTE] # 0 /\ nome[SERVIDOR] # 0
      /\ Pergunta(pedido[c])
  BY <1>1 DEF Conversa
<1>4. /\ nome[SERVIDOR] \in Fila /\ nome[CLIENTE] \in Fila /\ nome[CLIENTE] # nome[SERVIDOR]
  BY <1>3, DuasFilas
<1>5. Volta1 # <<>> /\ filas' = [filas EXCEPT ![nome[CLIENTE]] = Tail(@)] /\ DOMAIN filas = Fila
  BY <1>1, <1>3 DEF mq_receive, Volta1, Base, TypeOK
<1>6. /\ Volta1 = <<encontrarPalavra(pedido[c])>> /\ Vai1 = <<>>
      /\ Recomeca \/ (servidor = "recebe" /\ qd_resposta = nome[CLIENTE])
  BY <1>3, <1>5 DEF Pergunta
<1>7. filas'[nome[CLIENTE]] = Tail(filas[nome[CLIENTE]])
      /\ filas'[nome[SERVIDOR]] = filas[nome[SERVIDOR]]
  BY <1>4, <1>5
<1>8. Volta1' = <<>> /\ Vai1' = <<>> /\ Head(Volta1) = encontrarPalavra(pedido[c])
  BY <1>1, <1>6, <1>7, Curtas DEF Volta1, Vai1
<1>9. mostrada'[c] = encontrarPalavra(pedido[c])
  BY <1>1, <1>3, <1>8 DEF Volta1, Base, TypeOK
<1>10. Traduz(pedido[c], mostrada[c])'
  BY <1>1, <1>9, Tradutor
<1>11. Apresenta'
  BY <1>1, <1>6, <1>8 DEF Apresenta, Recomeca, doServidor
<1> QED
  BY <1>1, <1>2, <1>8, <1>10, <1>11 DEF Conversa, doServidor

\* The others do no more than open queues.
LEMMA ConversaOutro ==
  ASSUME Base, NEW c \in Cliente, NEW d \in Cliente, d # c, Presente(c), Presente(c)',
         Conversa(c), UmCliente(d) \/ Digita(d)
  PROVE  Conversa(c)'
<1>1. cliente[d] \in {"cria", "abre", "nome"} /\ cliente'[d] \in {"cria", "abre", "nome"}
  BY DEF Presente, SoDe
<1>2. CASE CriaFila(d)
  BY <1>2, ConversaCriaFila
<1>3. CASE AbreServidor(d)
  <2>1. /\ UNCHANGED <<qd_client, pedido, mostrada, doServidor, nome, filas>>
        /\ qd_server' = [qd_server EXCEPT ![d] = nome[SERVIDOR]]
        /\ \E para : Vai(d, para)
    BY <1>3 DEF AbreServidor, sistema
  <2>2. cliente'[c] = cliente[c] /\ qd_server'[c] = qd_server[c]
    BY <2>1, Anda DEF Base, TypeOK
  <2> QED
    BY <2>1, <2>2, ConversaFica DEF doServidor
<1>4. CASE MandaNome(d)
  <2>1. cliente'[d] = "teclado"
    BY <1>4, Anda DEF MandaNome, Base
  <2> QED
    BY <1>1, <2>1
<1> QED
  BY <1>1, <1>2, <1>3, <1>4 DEF UmCliente, Manda, Espera, Fecha, Digita

LEMMA PassoConversa ==
  ASSUME Base, NEW c \in Cliente, Presente(c), Presente(c)', Conversa(c), [Next]_vars
  PROVE  Conversa(c)'
<1>1. CASE Servidor
  BY <1>1, ConversaServidor
<1>2. CASE Reinicia
  BY <1>2, ConversaReinicia
<1>3. ASSUME NEW d \in Cliente, d # c, UmCliente(d) \/ Digita(d) PROVE Conversa(c)'
  BY <1>3, ConversaOutro
<1>4. CASE UmCliente(c) \/ Digita(c)
  <2>1. ~Fecha(c)
    BY DEF Fecha, Presente
  <2> QED
    BY <1>4, <2>1, ConversaCriaFila, ConversaAbreServidor, ConversaMandaNome, ConversaDigita,
       ConversaManda, ConversaEspera DEF UmCliente
<1>5. CASE UNCHANGED vars
  BY <1>5, ConversaFica DEF vars, doServidor, dosClientes, sistema
<1> QED
  BY <1>1, <1>2, <1>3, <1>4, <1>5 DEF Next
-----------------------------------------------------------------------------
(* The theorems *)

LEMMA InitIInv == Init => IInv
<1> SUFFICES ASSUME Init PROVE IInv
  OBVIOUS
<1>1. Base
  BY InitBase
<1>2. Sozinho
  BY DEF Init, Sozinho, Conversa, Recomeca, OsNomes
<1> QED
  BY <1>1, <1>2 DEF IInv, Base

\* The inductive invariant: types and numbers of queues, one use of each queue,
\* the count of the messages, and the conversation of a client that is alone,
\* with whatever a server that was killed left of it.
THEOREM Indutivo == Spec => []IInv
<1>1. IInv /\ [Next]_vars => IInv'
  <2> SUFFICES ASSUME IInv, [Next]_vars PROVE IInv'
    OBVIOUS
  <2>1. Base /\ Base'
    BY PassoBase DEF IInv, Base
  <2>2. ASSUME NEW c \in Cliente, Presente(c)' PROVE Conversa(c)'
    <3>1. Presente(c)
      BY <2>1, <2>2, SozinhoAntes
    <3>2. Conversa(c)
      BY <3>1 DEF IInv, Sozinho, Presente
    <3> QED
      BY <2>1, <2>2, <3>1, <3>2, PassoConversa
  <2>3. Sozinho'
    BY <2>2 DEF Sozinho, Presente
  <2> QED
    BY <2>1, <2>3 DEF IInv, Base
<1> QED
  BY <1>1, InitIInv, PTL DEF Spec

\* The type invariant.
THEOREM TypeCorrect == Spec => []TypeOK
<1>1. IInv => TypeOK
  BY DEF IInv
<1> QED
  BY <1>1, Indutivo, PTL

\* No queue, of whichever name and also after restarts, is used for lines and
\* for answers: what the server reads is a line that some user typed, or a
\* name, and what a client shows is an answer.
THEOREM UmUsoSempre == Spec => []UmUso
<1>1. IInv => UmUso
  BY DEF IInv
<1> QED
  BY <1>1, Indutivo, PTL

\* One more or less on both sides.
LEMMA Somas ==
  ASSUME NEW l \in Nat, NEW a \in Nat, NEW s \in Nat, NEW n \in Nat, NEW u \in {0, 1}
  PROVE  /\ \A g \in Nat : l <= g /\ g + u <= a + s => l + u <= a + s
         /\ l + u <= a + s /\ a <= n /\ s <= n => l <= 2 * n
         /\ l + u <= a + s /\ a <= n /\ s < n /\ n <= 5 => l < 10
         /\ l + 1 <= a + s /\ a <= n /\ s <= n /\ n <= 5 => l < 10
  OBVIOUS

\* One queue holds no more than all of them.
LEMMA UmaFila ==
  ASSUME TypeOK, Contadas, NEW f \in Fila
  PROVE  /\ Len(filas[f]) + (IF servidor = "responde" THEN 1 ELSE 0)
              <= Cardinality(Apresentados) + Cardinality(SemResposta)
         /\ Len(filas[f]) \in Nat
<1>1. Len(filas[f]) \in Nat
  BY DEF TypeOK
<1>2. IsFiniteSet(Guardadas) /\ Cardinality(Guardadas) \in Nat
  BY GuardadasFinitas
<1> DEFINE P == {f} \X (1..Len(filas[f]))
<1>3. P \in SUBSET Guardadas
  BY DEF Guardadas
<1>4. Cardinality(P) = Len(filas[f])
  <2>1. IsFiniteSet({f}) /\ Cardinality({f}) = 1
    BY FS_Singleton
  <2>2. 1 \in Int /\ Len(filas[f]) \in Int
    BY <1>1
  <2>3. IsFiniteSet(1..Len(filas[f])) /\ Cardinality(1..Len(filas[f])) = Len(filas[f])
    BY <1>1, <2>2, FS_Interval
  <2>4. Cardinality(P) = 1 * Len(filas[f])
    BY <2>1, <2>3, FS_Product
  <2> QED
    BY <1>1, <2>4
<1> HIDE DEF P
<1>5. Cardinality(P) <= Cardinality(Guardadas)
  BY <1>2, <1>3, FS_Subset
<1>6. Cardinality(Guardadas) + (IF servidor = "responde" THEN 1 ELSE 0)
        <= Cardinality(Apresentados) + Cardinality(SemResposta)
  BY DEF Contadas
<1>7. Cardinality(Apresentados) \in Nat /\ Cardinality(SemResposta) \in Nat
  BY Finitos, Subconjuntos
<1> DEFINE u == IF servidor = "responde" THEN 1 ELSE 0
<1>8. u \in {0, 1} /\ Len(filas[f]) <= Cardinality(Guardadas)
      /\ Cardinality(Guardadas) + u <= Cardinality(Apresentados) + Cardinality(SemResposta)
  BY <1>4, <1>5, <1>6
<1> HIDE DEF u
<1>9. Len(filas[f]) + u <= Cardinality(Apresentados) + Cardinality(SemResposta)
  BY <1>1, <1>2, <1>7, <1>8, Somas
<1> QED
  BY <1>1, <1>9 DEF u

\* No queue, also after restarts, ever holds more than two messages of each
\* client, the name and one word or its answer.
THEOREM NuncaEncheSempre == Spec => []NuncaEnche
<1>1. IInv => NuncaEnche
  <2> SUFFICES ASSUME IInv, NEW f \in Fila
               PROVE  Len(filas[f]) <= 2 * Cardinality(Cliente)
    BY DEF NuncaEnche
  <2>1. /\ Len(filas[f]) + (IF servidor = "responde" THEN 1 ELSE 0)
             <= Cardinality(Apresentados) + Cardinality(SemResposta)
        /\ Len(filas[f]) \in Nat
    BY UmaFila DEF IInv
  <2>2. /\ Cardinality(Apresentados) <= Cardinality(Cliente)
        /\ Cardinality(SemResposta) <= Cardinality(Cliente)
        /\ Cardinality(Apresentados) \in Nat /\ Cardinality(SemResposta) \in Nat
        /\ Cardinality(Cliente) \in Nat
    BY Finitos, Subconjuntos
  <2> DEFINE u == IF servidor = "responde" THEN 1 ELSE 0
  <2>3. u \in {0, 1} /\ Len(filas[f]) + u <= Cardinality(Apresentados) + Cardinality(SemResposta)
    BY <2>1
  <2> HIDE DEF u
  <2> QED
    BY <2>1, <2>2, <2>3, Somas
<1> QED
  BY <1>1, Indutivo, PTL

\* With five clients or fewer nobody, client or server, ever waits for room in
\* a queue, so that the two sides cannot block each other in mq_send.
THEOREM HaLugarSempre == Spec => []HaLugar
<1>1. IInv => HaLugar
  <2> SUFFICES ASSUME IInv, Cardinality(Cliente) <= 5 PROVE HaLugar
    BY DEF HaLugar
  <2>1. TypeOK /\ UmUso /\ TemFila /\ CadaUmUma /\ Contadas
    BY DEF IInv
  <2>2. /\ Cardinality(Apresentados) <= Cardinality(Cliente)
        /\ Cardinality(SemResposta) <= Cardinality(Cliente)
        /\ Cardinality(Apresentados) \in Nat /\ Cardinality(SemResposta) \in Nat
        /\ Cardinality(Cliente) \in Nat
    BY Finitos, Subconjuntos
  <2>3. ASSUME NEW c \in Cliente, cliente[c] \in {"nome", "manda"}
        PROVE  Len(filas[qd_server[c]]) < MAX_MESSAGES
    <3>1. qd_server[c] \in Fila
      BY <2>1, <2>3, Numeradas DEF TypeOK, TemFila
    <3>2. Cardinality(SemResposta) < Cardinality(Cliente)
      <4>1. c \notin SemResposta /\ SemResposta \in SUBSET Cliente
        BY <2>3, Subconjuntos DEF SemResposta
      <4>2. IsFiniteSet(Cliente) /\ Cardinality(SemResposta) # Cardinality(Cliente)
        BY <4>1, ArgumentosAssumption, FS_Subset
      <4> QED
        BY <2>2, <4>2
    <3>3. /\ Len(filas[qd_server[c]]) + (IF servidor = "responde" THEN 1 ELSE 0)
               <= Cardinality(Apresentados) + Cardinality(SemResposta)
          /\ Len(filas[qd_server[c]]) \in Nat
      BY <2>1, <3>1, UmaFila
    <3> DEFINE u == IF servidor = "responde" THEN 1 ELSE 0
    <3>4. u \in {0, 1}
          /\ Len(filas[qd_server[c]]) + u <= Cardinality(Apresentados) + Cardinality(SemResposta)
      BY <3>3
    <3> HIDE DEF u
    <3> QED
      BY <2>2, <3>2, <3>3, <3>4, Somas DEF MAX_MESSAGES
  <2>4. ASSUME servidor = "responde", qd_resposta # 0
        PROVE  Len(filas[qd_resposta]) < MAX_MESSAGES
    <3>1. qd_resposta \in Fila
      BY <2>1, <2>4, Numeradas DEF TypeOK
    <3>2. /\ Len(filas[qd_resposta]) + 1 <= Cardinality(Apresentados) + Cardinality(SemResposta)
          /\ Len(filas[qd_resposta]) \in Nat
      BY <2>1, <2>4, <3>1, UmaFila
    <3> QED
      BY <2>2, <3>2, Somas DEF MAX_MESSAGES
  <2> QED
    BY <2>3, <2>4 DEF HaLugar
<1> QED
  BY <1>1, Indutivo, PTL

\* A client that no other has joined shows the translation of the line that its
\* user typed last, or still nothing, after any number of restarts of the server.
THEOREM RespostaCertaSempre == Spec => []RespostaCerta
<1>1. IInv => RespostaCerta
  BY DEF IInv, Sozinho, Conversa, RespostaCerta
<1> QED
  BY <1>1, Indutivo, PTL
==============================================================================
