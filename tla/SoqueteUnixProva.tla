--------------------------- MODULE SoqueteUnixProva ---------------------------
(***************************************************************************)
(* Proofs about SoqueteUnix, for any number of clients that the backlog    *)
(* can hold, any lines and any number of restarts: what a client shows is  *)
(* the translation of its last line, and nobody waits without a reason.    *)
(***************************************************************************)
EXTENDS SoqueteUnix, SequenceTheorems, TLAPS

-----------------------------------------------------------------------------
(* Sequences of at most one element, and the backlog *)

LEMMA UmSo ==
  ASSUME NEW x
  PROVE  /\ <<x>> # <<>> /\ Len(<<x>>) = 1 /\ Head(<<x>>) = x /\ Tail(<<x>>) = <<>>
         /\ Append(<<>>, x) = <<x>>
  OBVIOUS

\* Who comes last joins the queue; who is first leaves it.
LEMMA Entra ==
  ASSUME NEW S, NEW q \in Seq(S), NEW x \in S
  PROVE  /\ Append(q, x) \in Seq(S) /\ Len(Append(q, x)) = Len(q) + 1
         /\ \A k \in 1..Len(q) : Append(q, x)[k] = q[k]
         /\ Append(q, x)[Len(q) + 1] = x
  BY AppendProperties, SMT

LEMMA Sai ==
  ASSUME NEW S, NEW q \in Seq(S), q # <<>>
  PROVE  /\ Head(q) \in S /\ Tail(q) \in Seq(S) /\ Len(Tail(q)) = Len(q) - 1
         /\ Len(q) \in Nat \ {0} /\ Head(q) = q[1]
         /\ \A k \in 1..Len(Tail(q)) : Tail(q)[k] = q[k + 1]
  BY HeadTailProperties, SMT

-----------------------------------------------------------------------------
(* The table of server.c and the dictionary *)

Entrada(k) == [pt |-> Tabela.pt[k], en |-> Tabela.en[k], jp |-> Tabela.jp[k]]

LEMMA Entradas == /\ Dicionario = {Entrada(k) : k \in 1..3}
                  /\ \A k \in 1..3, l \in Linguas : Entrada(k)[l] = Tabela[l][k]
                  /\ DOMAIN Tabela = Linguas
<1>1. 1..3 = {1, 2, 3}
  OBVIOUS
<1>2. /\ Entrada(1) = [pt |-> "peixe", en |-> "fish", jp |-> "sakana"]
      /\ Entrada(2) = [pt |-> "bola", en |-> "ball", jp |-> "tama"]
      /\ Entrada(3) = [pt |-> "gato", en |-> "cat", jp |-> "neko"]
  BY DEF Entrada, Tabela
<1>3. Dicionario = {Entrada(1), Entrada(2), Entrada(3)}
  BY <1>2 DEF Dicionario
<1>4. \A k \in 1..3, l \in Linguas : Entrada(k)[l] = Tabela[l][k]
  <2>1. \A k : Entrada(k)["pt"] = Tabela["pt"][k] /\ Entrada(k)["en"] = Tabela["en"][k]
               /\ Entrada(k)["jp"] = Tabela["jp"][k]
    BY DEF Entrada
  <2> QED
    BY <2>1 DEF Linguas
<1>5. DOMAIN Tabela = Linguas
  BY DEF Tabela, Linguas
<1> QED
  BY <1>1, <1>3, <1>4, <1>5

\* Lines 53-70: what the server finds for a request is its translation.
LEMMA Tradutor == ASSUME NEW p
                  PROVE  Traduz(p, encontrarPalavra(p)) /\ encontrarPalavra(p) \in Resposta
<1> DEFINE Ha == {p.ori, p.des} \subseteq Linguas /\ \E k \in 1..3 : Tabela[p.ori][k] = p.palavra
<1>1. CASE Ha
  <2> DEFINE k == CHOOSE j \in 1..3 : Tabela[p.ori][j] = p.palavra
  <2>1. k \in 1..3 /\ Tabela[p.ori][k] = p.palavra
    BY <1>1
  <2>2. encontrarPalavra(p) = Tabela[p.des][k]
    BY <1>1, Entradas DEF encontrarPalavra
  <2> HIDE DEF k
  <2>3. Entrada(k) \in Dicionario /\ Entrada(k)[p.ori] = p.palavra
        /\ Entrada(k)[p.des] = encontrarPalavra(p) /\ p.des \in Linguas
    BY <1>1, <2>1, <2>2, Entradas
  <2> QED
    BY <1>1, <2>3 DEF Traduz, Resposta
<1>2. CASE ~Ha
  <2>1. encontrarPalavra(p) = ERRO
    BY <1>2, Entradas DEF encontrarPalavra
  <2>2. ASSUME {p.ori, p.des} \subseteq Linguas, NEW d \in Dicionario PROVE d[p.ori] # p.palavra
    <3>1. PICK k \in 1..3 : d = Entrada(k)
      BY Entradas
    <3> QED
      BY <1>2, <2>2, <3>1, Entradas
  <2>3. Traduz(p, encontrarPalavra(p))
    BY <2>1, <2>2 DEF Traduz
  <2>4. ERRO \in Resposta
    <3> DEFINE Palavras == {d[l] : d \in Dicionario, l \in Linguas}
    <3>1. Resposta = {ERRO} \cup Palavras
      BY DEF Resposta
    <3> HIDE DEF Palavras
    <3> QED
      BY <3>1
  <2> QED
    BY <2>1, <2>3, <2>4
<1> QED
  BY <1>1, <1>2

-----------------------------------------------------------------------------
(* The initial states and the steps of the server *)

LEMMA InitIInv == Init => IInv
<1> SUFFICES ASSUME Init PROVE IInv
  OBVIOUS
<1>1. TypeOK
  <2>1. /\ ida \in [Cliente -> Seq(Linha)] /\ volta \in [Cliente -> Seq(Resposta)]
        /\ pendentes \in Seq(Cliente) /\ 0 \in 0..Reinicios
    BY ConstantesAssumption, EmptySeq DEF Init
  <2> HIDE DEF Resposta
  <2> QED
    BY <2>1 DEF Init, TypeOK, Linha, EstadoLigacao, Acabou
<1> QED
  BY <1>1, ConstantesAssumption
  DEF Init, IInv, FilaDeConexoes, TrataUltima, RespostaCerta, UmaMensagem, Conexao,
      EsperaATratada, Acabou

\* The end of the server, in whatever way it ends.
LEMMA PassoAcaba ==
  ASSUME IInv, NEW como \in Acabou, ServidorAcaba(como)
  PROVE  IInv'
<1> USE DEF doCliente
<1>1. TypeOK
  BY DEF IInv
<1>2. \A c \in Cliente :
        /\ ligacao'[c] \in {"nao", "encerrada", "perdida"}
        /\ ligacao[c] \in {"nao", "encerrada", "perdida"} => ligacao'[c] = ligacao[c]
        /\ ligacao[c] \in {"pendente", "aceita"} /\ ligacao'[c] = "encerrada" => ida[c] = <<>>
  BY <1>1 DEF ServidorAcaba, TypeOK, EstadoLigacao
<1>3. TypeOK'
  <2>1. ligacao' \in [Cliente -> EstadoLigacao]
    BY <1>2 DEF ServidorAcaba, EstadoLigacao
  <2> QED
    BY <1>1, <2>1, EmptySeq DEF ServidorAcaba, TypeOK
<1>4. FilaDeConexoes' /\ TrataUltima' /\ RespostaCerta'
  <2>1. 1..Len(pendentes') = {}
    BY DEF ServidorAcaba
  <2> QED
    BY <2>1 DEF ServidorAcaba, IInv, FilaDeConexoes, TrataUltima, RespostaCerta
<1>5. ASSUME NEW c \in Cliente PROVE UmaMensagem(c)' /\ Conexao(c)' /\ EsperaATratada(c)'
  <2>1. UmaMensagem(c) /\ Conexao(c) /\ ligacao[c] \in EstadoLigacao
    BY <1>1 DEF IInv, TypeOK
  <2>2. UmaMensagem(c)'
    BY <1>2, <2>1 DEF ServidorAcaba, UmaMensagem, EstadoLigacao
  <2>3. Conexao(c)'
    BY <1>2, <2>1 DEF ServidorAcaba, Conexao, EstadoLigacao
  <2> QED
    BY <1>2, <2>2, <2>3 DEF EsperaATratada
<1> QED
  BY <1>3, <1>4, <1>5 DEF IInv

\* The server opens its socket, or is started again.
LEMMA PassoComeca ==
  ASSUME IInv, Escuta \/ Reinicia
  PROVE  IInv'
<1> USE DEF doCliente, rede
<1>1. TypeOK /\ TrataUltima
  BY DEF IInv
<1>2. servidor' \in {"escuta", "aceita"} /\ clAberto = FALSE /\ clAberto' = FALSE
      /\ servidor \notin {"le", "trata"}
  BY <1>1 DEF Escuta, Reinicia, TypeOK, TrataUltima, Acabou
<1>3. TypeOK'
  BY <1>1, ConstantesAssumption DEF Escuta, Reinicia, TypeOK, Linha
<1>4. FilaDeConexoes' /\ TrataUltima' /\ RespostaCerta'
  BY <1>2 DEF Escuta, Reinicia, IInv, FilaDeConexoes, TrataUltima, RespostaCerta
<1>5. ASSUME NEW c \in Cliente PROVE UmaMensagem(c)' /\ Conexao(c)' /\ EsperaATratada(c)'
  BY <1>2 DEF Escuta, Reinicia, IInv, UmaMensagem, Conexao, EsperaATratada
<1> QED
  BY <1>3, <1>4, <1>5 DEF IInv

\* accept: the first of the backlog.
LEMMA PassoAceita ==
  ASSUME IInv, Aceita
  PROVE  IInv'
<1> USE DEF doCliente
<1> DEFINE h == Head(pendentes)
<1>1. TypeOK /\ TrataUltima /\ FilaDeConexoes
  BY DEF IInv
<1>2. /\ h \in Cliente /\ Tail(pendentes) \in Seq(Cliente) /\ ligacao[h] = "pendente"
      /\ Len(Tail(pendentes)) = Len(pendentes) - 1 /\ Len(pendentes) \in Nat \ {0}
      /\ h = pendentes[1]
      /\ \A k \in 1..Len(Tail(pendentes)) : Tail(pendentes)[k] = pendentes[k + 1]
  <2>1. pendentes \in Seq(Cliente) /\ pendentes # <<>>
    BY <1>1 DEF TypeOK, Aceita
  <2>2. /\ h \in Cliente /\ Tail(pendentes) \in Seq(Cliente)
        /\ Len(Tail(pendentes)) = Len(pendentes) - 1 /\ Len(pendentes) \in Nat \ {0}
        /\ h = pendentes[1]
        /\ \A k \in 1..Len(Tail(pendentes)) : Tail(pendentes)[k] = pendentes[k + 1]
    BY <2>1, Sai
  <2> QED
    BY <1>1, <2>2 DEF FilaDeConexoes
<1>3. servidor = "aceita" /\ clAberto = FALSE
  BY <1>1 DEF Aceita, TypeOK, TrataUltima
<1>4. /\ servidor' = "le" /\ clAberto' = TRUE /\ aceito' = h /\ pendentes' = Tail(pendentes)
      /\ ligacao' = [ligacao EXCEPT ![h] = "aceita"]
      /\ UNCHANGED <<buf, reinicios, ida, volta, cliente, fdAberto, pedido, mostrada>>
  BY DEF Aceita
<1> HIDE DEF h
<1>5. ligacao'[h] = "aceita" /\ \A c \in Cliente \ {h} : ligacao'[c] = ligacao[c]
  BY <1>1, <1>2, <1>4 DEF TypeOK
<1>6. TypeOK'
  <2>1. ligacao' \in [Cliente -> EstadoLigacao]
    BY <1>1, <1>4 DEF TypeOK, EstadoLigacao
  <2> QED
    BY <1>1, <1>2, <1>4, <2>1 DEF TypeOK
<1>7. FilaDeConexoes'
  <2>1. ASSUME NEW k \in 1..Len(Tail(pendentes)) PROVE ligacao'[Tail(pendentes)[k]] = "pendente"
    <3>1. k + 1 \in 1..Len(pendentes) /\ 1 \in 1..Len(pendentes) /\ k + 1 # 1
      BY <1>2
    <3>2. Tail(pendentes)[k] = pendentes[k + 1] /\ pendentes[k + 1] # h
      BY <1>1, <1>2, <3>1 DEF FilaDeConexoes
    <3>3. pendentes[k + 1] \in Cliente /\ ligacao[pendentes[k + 1]] = "pendente"
      BY <1>1, <3>1 DEF TypeOK, FilaDeConexoes
    <3> QED
      BY <1>5, <3>2, <3>3
  <2>2. ASSUME NEW k \in 1..Len(Tail(pendentes)), NEW m \in 1..Len(Tail(pendentes)),
               Tail(pendentes)[k] = Tail(pendentes)[m]
        PROVE  k = m
    <3>1. k + 1 \in 1..Len(pendentes) /\ m + 1 \in 1..Len(pendentes)
      BY <1>2
    <3>2. k + 1 = m + 1
      BY <1>1, <1>2, <2>2, <3>1 DEF FilaDeConexoes
    <3> QED
      BY <3>2
  <2> QED
    BY <1>4, <2>1, <2>2 DEF FilaDeConexoes
<1>8. TrataUltima' /\ RespostaCerta'
  BY <1>2, <1>4 DEF IInv, TrataUltima, RespostaCerta
<1>9. ASSUME NEW c \in Cliente PROVE UmaMensagem(c)' /\ Conexao(c)' /\ EsperaATratada(c)'
  <2>1. UmaMensagem(c) /\ Conexao(c) /\ EsperaATratada(c)
    BY DEF IInv
  <2>2. UmaMensagem(c)'
    BY <1>4, <1>5, <2>1 DEF UmaMensagem
  <2>3. Conexao(c)'
    BY <1>2, <1>3, <1>4, <1>5, <2>1 DEF Conexao
  <2>4. EsperaATratada(c)'
    BY <1>2, <1>3, <1>4, <1>5, <2>1 DEF EsperaATratada
  <2> QED
    BY <2>2, <2>3, <2>4
<1> QED
  BY <1>6, <1>7, <1>8, <1>9 DEF IInv

\* read: a line, or the end of the file.
LEMMA PassoLe ==
  ASSUME IInv, Le
  PROVE  IInv'
<1> USE DEF doCliente
<1> DEFINE a == aceito
<1>1. TypeOK /\ TrataUltima /\ FilaDeConexoes
  BY DEF IInv
<1>2. /\ a \in Cliente /\ servidor = "le" /\ clAberto = TRUE /\ ligacao[a] = "aceita"
      /\ UmaMensagem(a) /\ Conexao(a)
  <2>1. clAberto = TRUE /\ servidor = "le" /\ a \in Cliente
    BY <1>1 DEF Le, TypeOK, TrataUltima
  <2> QED
    BY <2>1 DEF IInv, Conexao
<1>3. /\ servidor' = "trata" /\ aceito' = a
      /\ UNCHANGED <<reinicios, volta, pendentes, cliente, fdAberto, pedido, mostrada>>
  BY DEF Le
<1>4. CASE ida[a] # <<>>
  <2>1. ida[a] = <<pedido[a]>> /\ volta[a] = <<>> /\ cliente[a] \in {"espera"} \cup Acabou
    BY <1>2, <1>4 DEF UmaMensagem
  <2>2. /\ buf' = pedido[a] /\ clAberto' = clAberto /\ ligacao' = ligacao
        /\ ida' = [ida EXCEPT ![a] = <<>>]
    BY <1>4, <2>1, UmSo DEF Le
  <2>3. ida'[a] = <<>> /\ \A c \in Cliente \ {a} : ida'[c] = ida[c]
    BY <1>1, <1>2, <2>2 DEF TypeOK
  <2>4. TypeOK'
    <3>1. ida' \in [Cliente -> Seq(Linha)] /\ pedido[a] \in Linha
      BY <1>1, <1>2, <2>2, EmptySeq DEF TypeOK
    <3> QED
      BY <1>1, <1>3, <2>2, <3>1 DEF TypeOK
  <2>5. FilaDeConexoes' /\ RespostaCerta'
    BY <1>3, <2>2 DEF IInv, FilaDeConexoes, RespostaCerta
  <2>6. TrataUltima'
    BY <1>2, <1>3, <2>1, <2>2, <2>3 DEF TrataUltima
  <2>7. ASSUME NEW c \in Cliente PROVE UmaMensagem(c)' /\ Conexao(c)' /\ EsperaATratada(c)'
    <3>1. UmaMensagem(c) /\ Conexao(c) /\ EsperaATratada(c)
      BY DEF IInv
    <3>2. UmaMensagem(c)'
      BY <1>3, <2>2, <2>3, <3>1 DEF UmaMensagem
    <3>3. Conexao(c)'
      BY <1>3, <2>2, <3>1 DEF Conexao
    <3>4. EsperaATratada(c)'
      BY <1>2, <1>3, <2>2, <2>3, <3>1 DEF EsperaATratada
    <3> QED
      BY <3>2, <3>3, <3>4
  <2> QED
    BY <2>4, <2>5, <2>6, <2>7 DEF IInv
<1>5. CASE ida[a] = <<>>
  <2>1. /\ buf' = FIM /\ clAberto' = FALSE /\ ida' = ida /\ ~fdAberto[a]
        /\ ligacao' = [ligacao EXCEPT ![a] = "encerrada"]
    BY <1>5 DEF Le
  <2>2. ligacao'[a] = "encerrada" /\ \A c \in Cliente \ {a} : ligacao'[c] = ligacao[c]
    BY <1>1, <1>2, <2>1 DEF TypeOK
  <2>3. TypeOK'
    <3>1. ligacao' \in [Cliente -> EstadoLigacao] /\ FIM \in Linha
      BY <1>1, <2>1 DEF TypeOK, EstadoLigacao, Linha
    <3> QED
      BY <1>1, <1>3, <2>1, <3>1 DEF TypeOK
  <2>4. FilaDeConexoes'
    <3>1. \A k \in 1..Len(pendentes) : pendentes[k] \in Cliente /\ ligacao[pendentes[k]] = "pendente"
      BY <1>1 DEF TypeOK, FilaDeConexoes
    <3>2. \A k \in 1..Len(pendentes) : ligacao'[pendentes[k]] = "pendente"
      BY <1>2, <2>2, <3>1
    <3> QED
      BY <1>1, <1>3, <3>2 DEF FilaDeConexoes
  <2>5. TrataUltima' /\ RespostaCerta'
    BY <1>3, <2>1 DEF IInv, TrataUltima, RespostaCerta
  <2>6. ASSUME NEW c \in Cliente PROVE UmaMensagem(c)' /\ Conexao(c)' /\ EsperaATratada(c)'
    <3>1. UmaMensagem(c) /\ Conexao(c) /\ EsperaATratada(c)
      BY DEF IInv
    <3>2. UmaMensagem(c)'
      BY <1>3, <1>5, <2>1, <2>2, <3>1 DEF UmaMensagem
    <3>3. Conexao(c)'
      BY <1>2, <1>3, <2>1, <2>2, <3>1 DEF Conexao
    <3>4. EsperaATratada(c)'
      BY <1>2, <1>3, <2>1, <2>2, <3>1 DEF EsperaATratada
    <3> QED
      BY <3>2, <3>3, <3>4
  <2> QED
    BY <2>3, <2>4, <2>5, <2>6 DEF IInv
<1> QED
  BY <1>4, <1>5

\* The answer is written to the client whose last line it answers.
LEMMA PassoResponde ==
  ASSUME IInv, Responde
  PROVE  IInv'
<1> USE DEF doCliente
<1> DEFINE a == aceito
<1>1. TypeOK /\ TrataUltima
  BY DEF IInv
<1>2. CASE \E como \in Acabou : ServidorAcaba(como)
  BY <1>2, PassoAcaba
<1>3. CASE /\ servidor = "trata" /\ servidor' = "le"
           /\ volta' = IF clAberto THEN [volta EXCEPT ![a] = Append(@, encontrarPalavra(buf))]
                                   ELSE volta
           /\ UNCHANGED <<aceito, clAberto, buf, reinicios, ligacao, ida, pendentes,
                          cliente, fdAberto, pedido, mostrada>>
  <2>1. CASE clAberto
    <3>1. /\ a \in Cliente /\ buf = pedido[a] /\ ida[a] = <<>> /\ volta[a] = <<>>
          /\ cliente[a] \in {"espera"} \cup Acabou
      BY <1>1, <1>3, <2>1 DEF TrataUltima
    <3>2. volta' = [volta EXCEPT ![a] = <<encontrarPalavra(pedido[a])>>]
      BY <1>3, <2>1, <3>1, UmSo
    <3>3. /\ volta'[a] = <<encontrarPalavra(pedido[a])>>
          /\ \A c \in Cliente \ {a} : volta'[c] = volta[c]
      BY <1>1, <3>1, <3>2 DEF TypeOK
    <3>4. TypeOK'
      <4>1. <<encontrarPalavra(pedido[a])>> \in Seq(Resposta)
        BY Tradutor
      <4>2. volta' \in [Cliente -> Seq(Resposta)]
        BY <1>1, <3>1, <3>2, <4>1 DEF TypeOK
      <4> QED
        BY <1>1, <1>3, <4>2 DEF TypeOK
    <3>5. FilaDeConexoes' /\ RespostaCerta' /\ TrataUltima'
      BY <1>3 DEF IInv, FilaDeConexoes, RespostaCerta, TrataUltima
    <3>6. ASSUME NEW c \in Cliente PROVE UmaMensagem(c)' /\ Conexao(c)' /\ EsperaATratada(c)'
      <4>1. UmaMensagem(c) /\ Conexao(c) /\ EsperaATratada(c)
        BY DEF IInv
      <4>2. UmaMensagem(c)'
        BY <1>3, <3>1, <3>3, <4>1 DEF UmaMensagem
      <4>3. Conexao(c)'
        BY <1>3, <4>1 DEF Conexao
      <4>4. EsperaATratada(c)'
        BY <1>3, <3>1, <3>3, <4>1, UmSo DEF EsperaATratada
      <4> QED
        BY <4>2, <4>3, <4>4
    <3> QED
      BY <3>4, <3>5, <3>6 DEF IInv
  <2>2. CASE ~clAberto
    <3>1. volta' = volta
      BY <1>3, <2>2
    <3>2. TypeOK'
      BY <1>1, <1>3, <3>1 DEF TypeOK
    <3>3. FilaDeConexoes' /\ RespostaCerta' /\ TrataUltima'
      BY <1>3, <2>2 DEF IInv, FilaDeConexoes, RespostaCerta, TrataUltima
    <3>4. ASSUME NEW c \in Cliente PROVE UmaMensagem(c)' /\ Conexao(c)' /\ EsperaATratada(c)'
      BY <1>3, <2>2, <3>1 DEF IInv, UmaMensagem, Conexao, EsperaATratada
    <3> QED
      BY <3>2, <3>3, <3>4 DEF IInv
  <2> QED
    BY <2>1, <2>2
<1> QED
  BY <1>2, <1>3 DEF Responde, Acabou
-----------------------------------------------------------------------------
(* The steps of a client *)

\* What a step of client c leaves of the invariant for the other clients.
LEMMA Outros ==
  ASSUME IInv, NEW c \in Cliente, UNCHANGED <<servidor, clAberto, aceito>>,
         NEW d \in Cliente, d # c,
         cliente'[d] = cliente[d], fdAberto'[d] = fdAberto[d], ligacao'[d] = ligacao[d],
         ida'[d] = ida[d], volta'[d] = volta[d], pedido'[d] = pedido[d],
         mostrada'[d] = mostrada[d]
  PROVE  /\ UmaMensagem(d)' /\ Conexao(d)' /\ EsperaATratada(d)'
         /\ cliente'[d] = "teclado" /\ mostrada'[d] # NADA => Traduz(pedido'[d], mostrada'[d])
<1>1. /\ UmaMensagem(d) /\ Conexao(d) /\ EsperaATratada(d)
      /\ cliente[d] = "teclado" /\ mostrada[d] # NADA => Traduz(pedido[d], mostrada[d])
  BY DEF IInv, RespostaCerta
<1>2. UmaMensagem(d)'
  BY <1>1 DEF UmaMensagem
<1>3. Conexao(d)'
  BY <1>1 DEF Conexao
<1>4. EsperaATratada(d)'
  BY <1>1 DEF EsperaATratada
<1> QED
  BY <1>1, <1>2, <1>3, <1>4

\* The backlog and what the server treats, when a client moves on.
LEMMA ServidorQuieto ==
  ASSUME IInv, NEW c \in Cliente,
         UNCHANGED <<servidor, clAberto, aceito, buf, ligacao, pendentes, volta, pedido>>,
         \A d \in Cliente \ {c} : cliente'[d] = cliente[d] /\ ida'[d] = ida[d],
         ida'[c] = ida[c] \/ cliente[c] \notin {"espera"} \cup Acabou,
         cliente[c] \in {"espera"} \cup Acabou => 
           \/ cliente'[c] \in {"espera"} \cup Acabou
           \/ ligacao[c] # "aceita"
  PROVE  FilaDeConexoes' /\ TrataUltima'
<1>1. FilaDeConexoes'
  BY DEF IInv, FilaDeConexoes
<1>2. TrataUltima'
  <2>1. TrataUltima /\ (clAberto /\ aceito = c => ligacao[c] = "aceita")
    BY DEF IInv, Conexao
  <2>2. CASE aceito = c
    BY <2>1, <2>2 DEF TrataUltima
  <2>3. CASE aceito # c
    BY <2>1, <2>3 DEF TrataUltima
  <2> QED
    BY <2>2, <2>3
<1> QED
  BY <1>1, <1>2

LEMMA PassoConecta ==
  ASSUME IInv, NEW c \in Cliente, Conecta(c)
  PROVE  IInv'
<1> USE DEF doServidor, rede, Vai, FechaFd
<1>1. /\ TypeOK /\ UmaMensagem(c) /\ cliente[c] = "conecta"
      /\ ligacao[c] = "nao" /\ fdAberto[c] /\ mostrada[c] = NADA
  BY DEF IInv, Conexao, Conecta
<1>2. ida[c] = <<>> /\ volta[c] = <<>>
  BY <1>1 DEF UmaMensagem, Acabou
<1>3. UNCHANGED <<servidor, aceito, clAberto, buf, reinicios, ida, volta, pedido, mostrada>>
  BY DEF Conecta
<1>4. clAberto => aceito # c
  BY <1>1 DEF IInv, Conexao
<1>5. CASE servidor \in {"escuta"} \cup Acabou
  <2>1. /\ cliente' = [cliente EXCEPT ![c] = "fim"] /\ fdAberto' = [fdAberto EXCEPT ![c] = FALSE]
        /\ ligacao' = ligacao /\ pendentes' = pendentes
    BY <1>5 DEF Conecta
  <2>2. /\ cliente'[c] = "fim"
        /\ \A d \in Cliente \ {c} : cliente'[d] = cliente[d] /\ fdAberto'[d] = fdAberto[d]
    BY <1>1, <2>1 DEF TypeOK
  <2>3. TypeOK'
    BY <1>1, <1>3, <2>1 DEF TypeOK, Acabou
  <2>4. FilaDeConexoes' /\ TrataUltima'
    BY <1>1, <1>3, <2>1, <2>2, ServidorQuieto
  <2>5. UmaMensagem(c)' /\ Conexao(c)' /\ EsperaATratada(c)'
    BY <1>1, <1>2, <1>3, <1>4, <2>1, <2>2 DEF UmaMensagem, Conexao, EsperaATratada
  <2>6. \A d \in Cliente \ {c} :
          /\ UmaMensagem(d)' /\ Conexao(d)' /\ EsperaATratada(d)'
          /\ cliente'[d] = "teclado" /\ mostrada'[d] # NADA => Traduz(pedido'[d], mostrada'[d])
    BY <1>3, <2>1, <2>2, Outros
  <2> QED
    BY <2>2, <2>3, <2>4, <2>5, <2>6 DEF IInv, RespostaCerta
<1>6. CASE servidor \notin {"escuta"} \cup Acabou
  <2>1. /\ cliente' = [cliente EXCEPT ![c] = "teclado"] /\ fdAberto' = fdAberto
        /\ ligacao' = [ligacao EXCEPT ![c] = "pendente"] /\ pendentes' = Append(pendentes, c)
    BY <1>6 DEF Conecta
  <2>2. /\ cliente'[c] = "teclado" /\ ligacao'[c] = "pendente"
        /\ \A d \in Cliente \ {c} : cliente'[d] = cliente[d] /\ ligacao'[d] = ligacao[d]
    BY <1>1, <2>1 DEF TypeOK
  <2>3. /\ Append(pendentes, c) \in Seq(Cliente) /\ pendentes \in Seq(Cliente)
        /\ Len(pendentes) \in Nat
        /\ Len(Append(pendentes, c)) = Len(pendentes) + 1
        /\ \A k \in 1..Len(pendentes) : Append(pendentes, c)[k] = pendentes[k]
        /\ Append(pendentes, c)[Len(pendentes) + 1] = c
    BY <1>1, Entra, LenProperties DEF TypeOK
  <2>4. TypeOK'
    BY <1>1, <1>3, <2>1, <2>3 DEF TypeOK, EstadoLigacao
  <2>5. FilaDeConexoes'
    <3> DEFINE q == Append(pendentes, c)
               n == Len(pendentes)
    <3>1. \A k \in 1..n : pendentes[k] \in Cliente /\ pendentes[k] # c
                          /\ ligacao[pendentes[k]] = "pendente"
      BY <1>1, <2>3 DEF IInv, FilaDeConexoes
    <3>2. \A k, m \in 1..n : pendentes[k] = pendentes[m] => k = m
      BY DEF IInv, FilaDeConexoes
    <3>3. n \in Nat /\ Len(q) = n + 1 /\ q[n + 1] = c /\ \A k \in 1..n : q[k] = pendentes[k]
      BY <2>3
    <3> HIDE DEF q, n
    <3>4. \A k \in 1..(n + 1) : k \in 1..n \/ k = n + 1
      BY <3>3
    <3>5. \A k \in 1..(n + 1) : ligacao'[q[k]] = "pendente"
      BY <2>2, <3>1, <3>3, <3>4
    <3>6. \A k, m \in 1..(n + 1) : q[k] = q[m] => k = m
      BY <3>1, <3>2, <3>3, <3>4
    <3>7. pendentes' = q
      BY <2>1 DEF q
    <3> QED
      BY <3>3, <3>5, <3>6, <3>7 DEF FilaDeConexoes
  <2>6. TrataUltima'
    <3>1. clAberto => aceito \in Cliente \ {c}
      BY <1>4 DEF IInv, TrataUltima
    <3> QED
      BY <1>3, <2>2, <3>1 DEF IInv, TrataUltima
  <2>7. UmaMensagem(c)' /\ Conexao(c)' /\ EsperaATratada(c)'
    BY <1>1, <1>2, <1>3, <1>4, <2>1, <2>2 DEF UmaMensagem, Conexao, EsperaATratada
  <2>8. \A d \in Cliente \ {c} :
          /\ UmaMensagem(d)' /\ Conexao(d)' /\ EsperaATratada(d)'
          /\ cliente'[d] = "teclado" /\ mostrada'[d] # NADA => Traduz(pedido'[d], mostrada'[d])
    BY <1>3, <2>1, <2>2, Outros
  <2> QED
    BY <1>1, <1>3, <2>2, <2>4, <2>5, <2>6, <2>7, <2>8 DEF IInv, RespostaCerta
<1> QED
  BY <1>5, <1>6
\* The user types a line: no answer is on its way.
LEMMA PassoDigita ==
  ASSUME IInv, NEW c \in Cliente, Digita(c)
  PROVE  IInv'
<1> USE DEF doServidor, rede, Vai
<1>1. TypeOK /\ UmaMensagem(c) /\ Conexao(c) /\ cliente[c] = "teclado"
  BY DEF IInv, Digita
<1>2. ida[c] = <<>> /\ volta[c] = <<>>
  BY <1>1 DEF UmaMensagem, Acabou
<1>3. PICK p \in Linha : pedido' = [pedido EXCEPT ![c] = p]
  BY DEF Digita, Linha
<1>4. /\ cliente' = [cliente EXCEPT ![c] = "manda"]
      /\ UNCHANGED <<servidor, aceito, clAberto, buf, reinicios, ligacao, ida, volta,
                     pendentes, fdAberto, mostrada>>
  BY DEF Digita
<1>5. /\ cliente'[c] = "manda"
      /\ \A d \in Cliente \ {c} : cliente'[d] = cliente[d] /\ pedido'[d] = pedido[d]
  BY <1>1, <1>3, <1>4 DEF TypeOK
<1>6. TypeOK'
  BY <1>1, <1>3, <1>4 DEF TypeOK
<1>7. FilaDeConexoes'
  BY <1>4 DEF IInv, FilaDeConexoes
<1>8. TrataUltima'
  <2>1. clAberto /\ servidor = "trata" => aceito \in Cliente \ {c}
    BY <1>1 DEF IInv, TrataUltima, Acabou
  <2> QED
    BY <1>4, <1>5, <2>1 DEF IInv, TrataUltima
<1>9. UmaMensagem(c)' /\ Conexao(c)' /\ EsperaATratada(c)'
  BY <1>1, <1>2, <1>4, <1>5 DEF UmaMensagem, Conexao, EsperaATratada
<1>10. \A d \in Cliente \ {c} :
        /\ UmaMensagem(d)' /\ Conexao(d)' /\ EsperaATratada(d)'
        /\ cliente'[d] = "teclado" /\ mostrada'[d] # NADA => Traduz(pedido'[d], mostrada'[d])
  BY <1>4, <1>5, Outros
<1> QED
  BY <1>5, <1>6, <1>7, <1>8, <1>9, <1>10 DEF IInv, RespostaCerta

\* write: the line goes to the server, or the client ends, or it goes on with a
\* descriptor that it has closed.
LEMMA PassoManda ==
  ASSUME IInv, NEW c \in Cliente, Manda(c)
  PROVE  IInv'
<1> USE DEF doServidor, Vai, FechaFd
<1>1. TypeOK /\ UmaMensagem(c) /\ Conexao(c) /\ EsperaATratada(c) /\ cliente[c] = "manda"
  BY DEF IInv, Manda
<1>2. ida[c] = <<>> /\ volta[c] = <<>> /\ pedido[c] \in Linha
  BY <1>1 DEF UmaMensagem, Acabou, TypeOK
<1>3. UNCHANGED <<servidor, aceito, clAberto, buf, reinicios, ligacao, volta, pendentes,
                  pedido, mostrada>>
  BY DEF Manda
<1>4. PICK para \in {"fim", "espera", "morto"} : cliente' = [cliente EXCEPT ![c] = para]
  BY DEF Manda, Depois
<1>5. /\ fdAberto' = fdAberto \/ (fdAberto' = [fdAberto EXCEPT ![c] = FALSE] /\ para # "espera")
      /\ para = "espera" => ligacao[c] \in {"pendente", "aceita"} \/ ~fdAberto[c]
  <2>1. cliente'[c] = para
    BY <1>1, <1>4 DEF TypeOK
  <2> QED
    BY <1>1, <1>4, <2>1 DEF Manda, Depois, NO_NO, FIM, TypeOK
<1>6. /\ ida' = ida \/ (ida' = [ida EXCEPT ![c] = <<pedido[c]>>] /\ ligacao[c] # "encerrada")
      /\ para = "espera" /\ ligacao[c] \in {"pendente", "aceita"} /\ ida' = ida => pedido[c] = FIM
  <2>1. Append(ida[c], pedido[c]) = <<pedido[c]>>
    BY <1>2, UmSo
  <2>2. CASE fdAberto[c] /\ ligacao[c] \in {"pendente", "aceita"}
    <3>1. CASE pedido[c] = FIM
      <4>1. ida' = [ida EXCEPT ![c] = ida[c]]
        BY <2>2, <3>1 DEF Manda
      <4> QED
        BY <1>1, <3>1, <4>1 DEF TypeOK
    <3>2. CASE pedido[c] # FIM
      <4>1. ida' = [ida EXCEPT ![c] = <<pedido[c]>>]
        BY <2>1, <2>2, <3>2 DEF Manda
      <4>2. ida'[c] # ida[c]
        BY <1>1, <1>2, <4>1, UmSo DEF TypeOK
      <4> QED
        BY <2>2, <4>1, <4>2
    <3> QED
      BY <3>1, <3>2
  <2>3. CASE ~(fdAberto[c] /\ ligacao[c] \in {"pendente", "aceita"})
    <3>1. ida' = ida
      BY <2>3 DEF Manda
    <3>2. ~(para = "espera" /\ ligacao[c] \in {"pendente", "aceita"})
      BY <1>1, <1>5, <2>3 DEF Conexao
    <3> QED
      BY <3>1, <3>2
  <2> QED
    BY <2>2, <2>3
<1>7. /\ cliente'[c] = para
      /\ ida'[c] = ida[c] \/ (ida'[c] = <<pedido[c]>> /\ ligacao[c] # "encerrada")
      /\ para = "espera" => fdAberto'[c] = fdAberto[c]
      /\ para = "espera" /\ ligacao[c] \in {"pendente", "aceita"} /\ ida'[c] = <<>> => pedido[c] = FIM
      /\ \A d \in Cliente \ {c} : /\ cliente'[d] = cliente[d] /\ ida'[d] = ida[d]
                                  /\ fdAberto'[d] = fdAberto[d]
  BY <1>1, <1>2, <1>4, <1>5, <1>6, UmSo DEF TypeOK
<1>8. TypeOK'
  <2>1. ida' \in [Cliente -> Seq(Linha)]
    <3>1. <<pedido[c]>> \in Seq(Linha)
      BY <1>2
    <3> QED
      BY <1>1, <1>6, <3>1 DEF TypeOK
  <2>2. cliente' \in [Cliente -> {"conecta", "teclado", "manda", "espera"} \cup Acabou]
    BY <1>1, <1>4 DEF TypeOK, Acabou
  <2>3. fdAberto' \in [Cliente -> BOOLEAN]
    BY <1>1, <1>5 DEF TypeOK
  <2> QED
    BY <1>1, <1>3, <2>1, <2>2, <2>3 DEF TypeOK
<1>9. FilaDeConexoes' /\ TrataUltima'
  BY <1>1, <1>3, <1>7, ServidorQuieto DEF Acabou
<1>10. UmaMensagem(c)' /\ Conexao(c)' /\ EsperaATratada(c)'
  <2>1. UmaMensagem(c)'
    BY <1>1, <1>2, <1>3, <1>7 DEF UmaMensagem, Acabou
  <2>2. Conexao(c)'
    BY <1>1, <1>3, <1>7 DEF Conexao
  <2>3. EsperaATratada(c)'
    BY <1>3, <1>7 DEF EsperaATratada
  <2> QED
    BY <2>1, <2>2, <2>3
<1>11. \A d \in Cliente \ {c} :
        /\ UmaMensagem(d)' /\ Conexao(d)' /\ EsperaATratada(d)'
        /\ cliente'[d] = "teclado" /\ mostrada'[d] # NADA => Traduz(pedido'[d], mostrada'[d])
  BY <1>3, <1>7, Outros
<1> QED
  BY <1>7, <1>8, <1>9, <1>10, <1>11 DEF IInv, RespostaCerta

\* read: the answer to the line typed last, or the end of the file, or an error.
LEMMA PassoEspera ==
  ASSUME IInv, NEW c \in Cliente, Espera(c)
  PROVE  IInv'
<1> USE DEF doServidor, Vai, FechaFd
<1>1. /\ TypeOK /\ UmaMensagem(c) /\ Conexao(c)
      /\ cliente[c] = "espera" /\ fdAberto[c]
  BY DEF IInv, Espera
<1>2. UNCHANGED <<servidor, aceito, clAberto, buf, reinicios, ligacao, ida, pendentes, pedido>>
  BY DEF Espera
<1>3. CASE volta[c] # <<>>
  <2>1. volta[c] = <<encontrarPalavra(pedido[c])>> /\ ida[c] = <<>>
    BY <1>1, <1>3 DEF UmaMensagem
  <2>2. /\ volta' = [volta EXCEPT ![c] = <<>>] /\ fdAberto' = fdAberto
        /\ mostrada' = [mostrada EXCEPT ![c] = encontrarPalavra(pedido[c])]
        /\ cliente' = [cliente EXCEPT ![c] = "teclado"]
    BY <1>3, <2>1, UmSo DEF Espera
  <2>3. /\ volta'[c] = <<>> /\ cliente'[c] = "teclado"
        /\ mostrada'[c] = encontrarPalavra(pedido[c])
        /\ \A d \in Cliente \ {c} : /\ volta'[d] = volta[d] /\ mostrada'[d] = mostrada[d]
                                    /\ cliente'[d] = cliente[d]
    BY <1>1, <2>2 DEF TypeOK
  <2>4. TypeOK'
    <3>1. volta' \in [Cliente -> Seq(Resposta)] /\ mostrada' \in [Cliente -> Resposta \cup {NADA}]
      BY <1>1, <2>2, Tradutor, EmptySeq DEF TypeOK
    <3> QED
      BY <1>1, <1>2, <2>2, <3>1 DEF TypeOK
  <2>5. FilaDeConexoes'
    BY <1>2 DEF IInv, FilaDeConexoes
  <2>6. TrataUltima'
    <3>1. clAberto /\ servidor = "trata" => aceito \in Cliente \ {c}
      BY <1>3 DEF IInv, TrataUltima
    <3> QED
      BY <1>2, <2>3, <3>1 DEF IInv, TrataUltima
  <2>7. UmaMensagem(c)' /\ Conexao(c)' /\ EsperaATratada(c)'
    BY <1>1, <1>2, <2>1, <2>2, <2>3 DEF UmaMensagem, Conexao, EsperaATratada
  <2>8. Traduz(pedido'[c], mostrada'[c])
    BY <1>2, <2>3, Tradutor
  <2>9. \A d \in Cliente \ {c} :
          /\ UmaMensagem(d)' /\ Conexao(d)' /\ EsperaATratada(d)'
          /\ cliente'[d] = "teclado" /\ mostrada'[d] # NADA => Traduz(pedido'[d], mostrada'[d])
    BY <1>2, <2>2, <2>3, Outros
  <2> QED
    BY <2>4, <2>5, <2>6, <2>7, <2>8, <2>9 DEF IInv, RespostaCerta
<1>4. CASE volta[c] = <<>>
  <2>1. volta' = volta /\ fdAberto' = [fdAberto EXCEPT ![c] = FALSE]
        /\ \/ /\ ligacao[c] = "encerrada"
              /\ mostrada' = [mostrada EXCEPT ![c] = NADA]
              /\ cliente' = [cliente EXCEPT ![c] = "teclado"]
           \/ /\ ligacao[c] = "perdida" /\ mostrada' = mostrada
              /\ cliente' = [cliente EXCEPT ![c] = "fim"]
    BY <1>4 DEF Espera
  <2>2. /\ \/ ligacao[c] = "encerrada" /\ mostrada'[c] = NADA /\ cliente'[c] = "teclado"
           \/ ligacao[c] = "perdida" /\ cliente'[c] = "fim"
        /\ \A d \in Cliente \ {c} : /\ mostrada'[d] = mostrada[d] /\ cliente'[d] = cliente[d]
                                    /\ fdAberto'[d] = fdAberto[d]
    BY <1>1, <2>1 DEF TypeOK
  <2>3. TypeOK'
    <3>1. /\ mostrada' \in [Cliente -> Resposta \cup {NADA}]
          /\ cliente' \in [Cliente -> {"conecta", "teclado", "manda", "espera"} \cup Acabou]
          /\ fdAberto' \in [Cliente -> BOOLEAN]
      BY <1>1, <2>1 DEF TypeOK, Acabou
    <3> QED
      BY <1>1, <1>2, <2>1, <3>1 DEF TypeOK
  <2>4. FilaDeConexoes' /\ TrataUltima'
    BY <1>2, <2>1, <2>2, ServidorQuieto DEF Acabou
  <2>5. UmaMensagem(c)' /\ Conexao(c)' /\ EsperaATratada(c)'
    <3>1. UmaMensagem(c)'
      BY <1>1, <1>2, <1>4, <2>1, <2>2 DEF UmaMensagem, Acabou
    <3>2. Conexao(c)'
      BY <1>1, <1>2, <2>2 DEF Conexao
    <3>3. EsperaATratada(c)'
      BY <2>2 DEF EsperaATratada
    <3> QED
      BY <3>1, <3>2, <3>3
  <2>6. \A d \in Cliente \ {c} :
          /\ UmaMensagem(d)' /\ Conexao(d)' /\ EsperaATratada(d)'
          /\ cliente'[d] = "teclado" /\ mostrada'[d] # NADA => Traduz(pedido'[d], mostrada'[d])
    BY <1>2, <2>1, <2>2, Outros
  <2> QED
    BY <2>2, <2>3, <2>4, <2>5, <2>6 DEF IInv, RespostaCerta
<1> QED
  BY <1>3, <1>4

\* The client ends, by a signal or by a read of the descriptor that it closed.
LEMMA PassoFim ==
  ASSUME IInv, NEW c \in Cliente, EsperaFechado(c) \/ MataCliente(c)
  PROVE  IInv'
<1> USE DEF doServidor, doCliente, rede, Vai, FechaFd
<1>1. TypeOK /\ UmaMensagem(c) /\ Conexao(c)
  BY DEF IInv
<1>2. UNCHANGED <<servidor, aceito, clAberto, buf, reinicios, ligacao, ida, volta, pendentes,
                  pedido, mostrada>>
  BY DEF EsperaFechado, MataCliente
<1>3. \E como \in Acabou : cliente' = [cliente EXCEPT ![c] = como]
  BY DEF EsperaFechado, MataCliente, Acabou
<1>4. fdAberto' = fdAberto \/ fdAberto' = [fdAberto EXCEPT ![c] = FALSE]
  BY DEF EsperaFechado, MataCliente
<1>5. /\ cliente'[c] \in Acabou
      /\ \A d \in Cliente \ {c} : cliente'[d] = cliente[d] /\ fdAberto'[d] = fdAberto[d]
  BY <1>1, <1>3, <1>4 DEF TypeOK
<1>6. TypeOK'
  <2>1. cliente' \in [Cliente -> {"conecta", "teclado", "manda", "espera"} \cup Acabou]
    BY <1>1, <1>3 DEF TypeOK
  <2>2. fdAberto' \in [Cliente -> BOOLEAN]
    BY <1>1, <1>4 DEF TypeOK
  <2> QED
    BY <1>1, <1>2, <2>1, <2>2 DEF TypeOK
<1>7. FilaDeConexoes' /\ TrataUltima'
  BY <1>2, <1>5, ServidorQuieto
<1>8. UmaMensagem(c)' /\ Conexao(c)' /\ EsperaATratada(c)'
  BY <1>1, <1>2, <1>5 DEF UmaMensagem, Conexao, EsperaATratada, Acabou
<1>9. \A d \in Cliente \ {c} :
        /\ UmaMensagem(d)' /\ Conexao(d)' /\ EsperaATratada(d)'
        /\ cliente'[d] = "teclado" /\ mostrada'[d] # NADA => Traduz(pedido'[d], mostrada'[d])
  BY <1>2, <1>5, Outros
<1> QED
  BY <1>5, <1>6, <1>7, <1>8, <1>9 DEF IInv, RespostaCerta, Acabou

-----------------------------------------------------------------------------
(* The theorems *)

LEMMA PassoIInv == IInv /\ [Next]_vars => IInv'
<1> SUFFICES ASSUME IInv, [Next]_vars PROVE IInv'
  OBVIOUS
<1>1. CASE Servidor
  BY <1>1, PassoComeca, PassoAceita, PassoLe, PassoAcaba, PassoResponde
  DEF Servidor, LeFechado, Encerra, Acabou
<1>2. CASE MataServidor \/ Reinicia
  BY <1>2, PassoComeca, PassoAcaba DEF MataServidor, Acabou
<1>3. ASSUME NEW c \in Cliente, UmCliente(c) \/ Digita(c) \/ MataCliente(c) PROVE IInv'
  BY <1>3, PassoConecta, PassoDigita, PassoManda, PassoEspera, PassoFim DEF UmCliente
<1>4. CASE UNCHANGED vars
  <2> USE <1>4 DEF vars, doServidor, doCliente, rede
  <2>1. TypeOK' /\ FilaDeConexoes' /\ TrataUltima' /\ RespostaCerta'
    BY DEF IInv, TypeOK, FilaDeConexoes, TrataUltima, RespostaCerta
  <2>2. ASSUME NEW c \in Cliente PROVE UmaMensagem(c)' /\ Conexao(c)' /\ EsperaATratada(c)'
    BY DEF IInv, UmaMensagem, Conexao, EsperaATratada
  <2> QED
    BY <2>1, <2>2 DEF IInv
<1> QED
  BY <1>1, <1>2, <1>3, <1>4 DEF Next

\* server.c and cliente.c keep the invariant: one line or one answer between a
\* client and the server, one connection open, a backlog without repetition.
THEOREM Indutivo == Spec => []IInv
  BY InitIInv, PassoIInv, PTL DEF Spec

\* Every variable has a value of its type.
THEOREM TypeCorrect == Spec => []TypeOK
<1>1. IInv => TypeOK
  BY DEF IInv
<1> QED
  BY <1>1, Indutivo, PTL

\* What a client shows (cliente.c) before it asks for the next line is the
\* translation of the one it sent last.
THEOREM RespostaCertaSempre == Spec => []RespostaCerta
<1>1. IInv => RespostaCerta
  BY DEF IInv
<1> QED
  BY <1>1, Indutivo, PTL

\* Client and server wait for one another only after an empty line.
THEOREM EsperaJustificadaSempre == Spec => []EsperaJustificada
<1>1. IInv => EsperaJustificada
  BY DEF IInv, EsperaATratada, EsperaJustificada
<1> QED
  BY <1>1, Indutivo, PTL
=============================================================================
