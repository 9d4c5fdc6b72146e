------------------------------ MODULE SoqueteUnix ------------------------------
(***************************************************************************)
(* sockets&mqueue/unixSocket/: a translation server that accepts one       *)
(* connection of a Unix stream socket, and its clients.  A client that     *)
(* connects while another is served waits in the backlog of listen.        *)
(*                                                                         *)
(* A message is what the server makes of the line, two languages and a     *)
(* word.  Users type lines of that form, NO-NO, or end the input.  Both    *)
(* kinds of process may be killed, and the server started again.           *)
(***************************************************************************)
EXTENDS Traducao, Naturals, Sequences, FiniteSets

CONSTANTS Cliente,          \* the processes that run cliente.c, once each
          Pedidos,          \* the lines that users type
          Reinicios,        \* how often the server may be started again
          NINGUEM

ASSUME ConstantesAssumption ==
  /\ IsFiniteSet(Cliente) /\ Cardinality(Cliente) <= 5     \* listen(fd, 5)
  /\ Reinicios \in Nat /\ NINGUEM \notin Cliente

VARIABLES
  servidor,         \* where the server is: "escuta", "aceita", "le", "trata",
                    \* "fim" (it returned or exited), "morto" (a signal)
  aceito,           \* whose connection the descriptor cl is, or NINGUEM
  clAberto,         \* cl has not been closed
  buf,              \* what it read last
  reinicios,
  cliente,          \* where client c is: "conecta", "teclado", "manda",
                    \* "espera", "fim", "morto"
  fdAberto,         \* the client has not closed its end
  ligacao,          \* the other end of the connection of c: "nao", "pendente",
                    \* "aceita", "encerrada", or "perdida" (reset)
  ida, volta,       \* what is on its way to the server and back
  pedido, mostrada, \* the line typed last, the translation shown last
  pendentes         \* the backlog

doServidor == <<servidor, aceito, clAberto, buf, reinicios>>
rede == <<ligacao, ida, volta, pendentes>>
doCliente == <<fdAberto, pedido, mostrada>>
vars == <<doServidor, cliente, doCliente, rede>>

NO_NO == [ori |-> "NO", des |-> "NO", palavra |-> ""]
NADA == "nada"
\* An empty buffer, after an end of file, and two lines in one read.
FIM == [ori |-> "", des |-> "", palavra |-> ""]
JUNTAS == [ori |-> "?", des |-> "?", palavra |-> "?"]

Acabou == {"fim", "morto"}

Tabela == [pt |-> <<"peixe", "bola", "gato">>,
           en |-> <<"fish", "ball", "cat">>,
           jp |-> <<"sakana", "tama", "neko">>]

\* The word at the same place in the array of the other language.
encontrarPalavra(p) ==
  IF {p.ori, p.des} \subseteq DOMAIN Tabela /\ \E i \in 1..3 : Tabela[p.ori][i] = p.palavra
  THEN Tabela[p.des][CHOOSE i \in 1..3 : Tabela[p.ori][i] = p.palavra]
  ELSE ERRO

\* Line 67: of a known language into an unknown one the answer is a literal,
\* which line 163 writes to.
EscreveEmLiteral(p) == p.ori \in DOMAIN Tabela /\ p.des \notin DOMAIN Tabela

Init == /\ servidor = "escuta"
        /\ aceito = NINGUEM
        /\ clAberto = FALSE
        /\ buf = FIM
        /\ reinicios = 0
        /\ cliente = [c \in Cliente |-> "conecta"]
        /\ fdAberto = [c \in Cliente |-> TRUE]
        /\ ligacao = [c \in Cliente |-> "nao"]
        /\ ida = [c \in Cliente |-> <<>>]
        /\ volta = [c \in Cliente |-> <<>>]
        /\ pedido = [c \in Cliente |-> FIM]
        /\ mostrada = [c \in Cliente |-> NADA]
        /\ pendentes = <<>>

-----------------------------------------------------------------------------
(* server.c *)

\* The end of the server closes all it has open: who is in the backlog, or
\* has sent what was not read, finds the connection reset.
ServidorAcaba(como) ==
  /\ servidor' = como
  /\ clAberto' = FALSE
  /\ pendentes' = <<>>
  /\ ligacao' = [c \in Cliente |->
       CASE ligacao[c] = "pendente" -> "perdida"
         [] ligacao[c] = "aceita" -> IF ida[c] = <<>> THEN "encerrada" ELSE "perdida"
         [] OTHER -> ligacao[c]]
  /\ UNCHANGED <<aceito, buf, reinicios, ida, volta, cliente, doCliente>>

\* bind and listen.
Escuta == /\ servidor = "escuta"
          /\ servidor' = "aceita"
          /\ UNCHANGED <<aceito, clAberto, buf, reinicios, rede, cliente, doCliente>>

Aceita == /\ servidor = "aceita" /\ pendentes # <<>>
          /\ aceito' = Head(pendentes)
          /\ clAberto' = TRUE
          /\ ligacao' = [ligacao EXCEPT ![Head(pendentes)] = "aceita"]
          /\ pendentes' = Tail(pendentes)
          /\ servidor' = "le"
          /\ UNCHANGED <<buf, reinicios, ida, volta, cliente, doCliente>>

\* read takes all there is.  At the end of the file cl is closed and the
\* server goes on with an empty buffer.
Le == /\ servidor = "le" /\ clAberto
      /\ \/ /\ ida[aceito] # <<>>
            /\ buf' = IF Len(ida[aceito]) = 1 THEN Head(ida[aceito]) ELSE JUNTAS
            /\ ida' = [ida EXCEPT ![aceito] = <<>>]
            /\ UNCHANGED <<clAberto, ligacao>>
         \/ /\ ida[aceito] = <<>> /\ ~fdAberto[aceito]
            /\ buf' = FIM
            /\ clAberto' = FALSE
            /\ ligacao' = [ligacao EXCEPT ![aceito] = "encerrada"]
            /\ UNCHANGED ida
      /\ servidor' = "trata"
      /\ UNCHANGED <<aceito, reinicios, volta, pendentes, cliente, doCliente>>

\* Mutant: the server waits for another connection when cl is closed.
MutLeFechado == /\ servidor = "le" /\ ~clAberto
                /\ servidor' = "aceita"
                /\ UNCHANGED <<aceito, clAberto, buf, reinicios, rede, cliente, doCliente>>

\* The next read, of a closed descriptor: exit(-1).
LeFechado == servidor = "le" /\ ~clAberto /\ ServidorAcaba("fim")

Encerra == servidor = "trata" /\ buf = NO_NO /\ ServidorAcaba("fim")

\* Mutant: what is not in the table is not answered.
MutResponde == /\ servidor = "trata" /\ buf # NO_NO
               /\ servidor' = "le"
               /\ volta' = IF clAberto /\ encontrarPalavra(buf) # ERRO
                           THEN [volta EXCEPT ![aceito] =
                                   Append(@, encontrarPalavra(buf))]
                           ELSE volta
               /\ UNCHANGED <<aceito, clAberto, buf, reinicios, ligacao, ida,
                              pendentes, cliente, doCliente>>

\* The translation is written: the write to the literal and the one to a client
\* that has gone kill the server, the one to the closed descriptor is a
\* "partial write".
Responde == /\ servidor = "trata" /\ buf # NO_NO
            /\ \/ /\ EscreveEmLiteral(buf) \/ (clAberto /\ ~fdAberto[aceito])
                  /\ ServidorAcaba("morto")
               \/ /\ ~EscreveEmLiteral(buf) /\ (clAberto => fdAberto[aceito])
                  /\ servidor' = "le"
                  /\ volta' = IF clAberto
                              THEN [volta EXCEPT ![aceito] =
                                      Append(@, encontrarPalavra(buf))]
                              ELSE volta
                  /\ UNCHANGED <<aceito, clAberto, buf, reinicios, ligacao, ida,
                                 pendentes, cliente, doCliente>>

MataServidor == servidor \notin Acabou /\ ServidorAcaba("morto")

Reinicia == /\ servidor \in Acabou /\ reinicios < Reinicios
            /\ servidor' = "escuta"
            /\ aceito' = NINGUEM
            /\ buf' = FIM
            /\ reinicios' = reinicios + 1
            /\ UNCHANGED <<clAberto, rede, cliente, doCliente>>

Servidor == Escuta \/ Aceita \/ Le \/ LeFechado \/ Encerra \/ Responde

-----------------------------------------------------------------------------
(* cliente.c *)

Vai(c, para) == cliente' = [cliente EXCEPT ![c] = para]
FechaFd(c) == fdAberto' = [fdAberto EXCEPT ![c] = FALSE]

\* connect succeeds as soon as the server listens, before it accepts.
Conecta(c) == /\ cliente[c] = "conecta"
              /\ IF servidor \in {"escuta"} \cup Acabou
                 THEN Vai(c, "fim") /\ FechaFd(c) /\ UNCHANGED rede
                 ELSE /\ ligacao' = [ligacao EXCEPT ![c] = "pendente"]
                      /\ pendentes' = Append(pendentes, c)
                      /\ Vai(c, "teclado")
                      /\ UNCHANGED <<ida, volta, fdAberto>>
              /\ UNCHANGED <<doServidor, pedido, mostrada>>

\* A line, or nothing at the end of the input.
Digita(c) == /\ cliente[c] = "teclado"
             /\ \E p \in Pedidos \cup {NO_NO, FIM} : pedido' = [pedido EXCEPT ![c] = p]
             /\ Vai(c, "manda")
             /\ UNCHANGED <<doServidor, rede, fdAberto, mostrada>>

Depois(c) == IF pedido[c] = NO_NO THEN "fim" ELSE "espera"

\* write: SIGPIPE if the other end is closed; nothing if the line is empty;
\* to a closed descriptor a "partial write", or exit(-1) for an empty line.
\* NO-NO ends the client.
Manda(c) ==
  /\ cliente[c] = "manda"
  /\ \/ /\ fdAberto[c] /\ ligacao[c] \in {"pendente", "aceita"}
        /\ ida' = [ida EXCEPT ![c] = IF pedido[c] = FIM THEN @ ELSE Append(@, pedido[c])]
        /\ Vai(c, Depois(c))
        /\ IF pedido[c] = NO_NO THEN FechaFd(c) ELSE UNCHANGED fdAberto
     \/ /\ fdAberto[c] /\ ligacao[c] \in {"encerrada", "perdida"}
        /\ Vai(c, "morto")
        /\ FechaFd(c)
        /\ UNCHANGED ida
     \/ /\ ~fdAberto[c]
        /\ Vai(c, IF pedido[c] = FIM THEN "fim" ELSE Depois(c))
        /\ UNCHANGED <<ida, fdAberto>>
  /\ UNCHANGED <<doServidor, ligacao, volta, pendentes, pedido, mostrada>>

\* Mutant: the client does not wait for the answer of the line before.
MutEspera(c) == /\ cliente[c] = "espera" /\ fdAberto[c]
                /\ Vai(c, "teclado")
                /\ IF volta[c] = <<>> THEN UNCHANGED <<volta, mostrada>>
                   ELSE /\ volta' = [volta EXCEPT ![c] = Tail(@)]
                        /\ mostrada' = [mostrada EXCEPT ![c] = Head(volta[c])]
                /\ UNCHANGED <<doServidor, fdAberto, ligacao, ida, pendentes, pedido>>

\* The answer; at the end of the file fd is closed and the loop goes on; -1
\* ends the client.
Espera(c) ==
  /\ cliente[c] = "espera" /\ fdAberto[c]
  /\ \/ /\ volta[c] # <<>>
        /\ volta' = [volta EXCEPT ![c] = Tail(@)]
        /\ mostrada' = [mostrada EXCEPT ![c] = Head(volta[c])]
        /\ Vai(c, "teclado")
        /\ UNCHANGED fdAberto
     \/ /\ volta[c] = <<>> /\ ligacao[c] = "encerrada"
        /\ mostrada' = [mostrada EXCEPT ![c] = NADA]
        /\ Vai(c, "teclado")
        /\ FechaFd(c)
        /\ UNCHANGED volta
     \/ /\ volta[c] = <<>> /\ ligacao[c] = "perdida"
        /\ Vai(c, "fim")
        /\ FechaFd(c)
        /\ UNCHANGED <<volta, mostrada>>
  /\ UNCHANGED <<doServidor, ligacao, ida, pendentes, pedido>>

\* read of the closed descriptor.
EsperaFechado(c) == /\ cliente[c] = "espera" /\ ~fdAberto[c]
                    /\ Vai(c, "fim")
                    /\ UNCHANGED <<doServidor, doCliente, rede>>

MataCliente(c) == /\ cliente[c] \notin Acabou
                  /\ Vai(c, "morto")
                  /\ FechaFd(c)
                  /\ UNCHANGED <<doServidor, pedido, mostrada, rede>>

UmCliente(c) == Conecta(c) \/ Manda(c) \/ Espera(c) \/ EsperaFechado(c)

Next == \/ Servidor \/ MataServidor \/ Reinicia
        \/ \E c \in Cliente : UmCliente(c) \/ Digita(c) \/ MataCliente(c)

Spec == Init /\ [][Next]_vars

\* Every process runs.  Users may stop typing, and need not kill anybody.
FairSpec == Spec /\ WF_vars(Servidor) /\ \A c \in Cliente : WF_vars(UmCliente(c))

-----------------------------------------------------------------------------
(* The inductive invariant that SoqueteUnixProva proves.                     *)

Linha == Pedidos \cup {NO_NO, FIM}
Resposta == {ERRO} \cup {d[l] : d \in Dicionario, l \in Linguas}
EstadoLigacao == {"nao", "pendente", "aceita", "encerrada", "perdida"}

\* Every variable has a value of its type.
TypeOK == /\ servidor \in {"escuta", "aceita", "le", "trata"} \cup Acabou
          /\ aceito \in Cliente \cup {NINGUEM}
          /\ clAberto \in BOOLEAN
          /\ buf \in Linha \cup {JUNTAS}
          /\ reinicios \in 0..Reinicios
          /\ cliente \in [Cliente -> {"conecta", "teclado", "manda", "espera"} \cup Acabou]
          /\ fdAberto \in [Cliente -> BOOLEAN]
          /\ ligacao \in [Cliente -> EstadoLigacao]
          /\ ida \in [Cliente -> Seq(Linha)]
          /\ volta \in [Cliente -> Seq(Resposta)]
          /\ pedido \in [Cliente -> Linha]
          /\ mostrada \in [Cliente -> Resposta \cup {NADA}]
          /\ pendentes \in Seq(Cliente)

\* Between a client and the server there is the last line or its answer, never
\* both and never more, and the client that is to read it waits.
UmaMensagem(c) ==
  /\ ida[c] \in {<<>>, <<pedido[c]>>}
  /\ volta[c] \in {<<>>, <<encontrarPalavra(pedido[c])>>}
  /\ ida[c] # <<>> => volta[c] = <<>>
  /\ ida[c] # <<>> \/ volta[c] # <<>> => cliente[c] \in {"espera"} \cup Acabou
  /\ ligacao[c] = "encerrada" => ida[c] = <<>>

\* The connection of a client: a client that goes on after it closed its end had
\* been told that the server had closed the other.
Conexao(c) ==
  /\ cliente[c] = "conecta" => ligacao[c] = "nao" /\ fdAberto[c] /\ mostrada[c] = NADA
  /\ cliente[c] \in {"teclado", "manda", "espera"} /\ ~fdAberto[c] => ligacao[c] = "encerrada"
  /\ ligacao[c] = "aceita" <=> clAberto /\ aceito = c

\* The backlog holds, once each, the clients that are to be accepted.
FilaDeConexoes ==
  /\ \A k \in 1..Len(pendentes) : ligacao[pendentes[k]] = "pendente"
  /\ \A k, m \in 1..Len(pendentes) : pendentes[k] = pendentes[m] => k = m

\* The server has one connection open, and what it treats is its last line.
TrataUltima ==
  /\ clAberto => servidor \in {"le", "trata"} /\ aceito \in Cliente
  /\ clAberto /\ servidor = "trata" =>
       /\ buf = pedido[aceito] /\ ida[aceito] = <<>> /\ volta[aceito] = <<>>
       /\ cliente[aceito] \in {"espera"} \cup Acabou

\* A client waits with nothing on its way only while the server treats its line,
\* or after an empty one.
EsperaATratada(c) ==
  /\ cliente[c] = "espera" /\ ligacao[c] \in {"pendente", "aceita"}
  /\ ida[c] = <<>> /\ volta[c] = <<>> /\ pedido[c] # FIM
  => servidor = "trata" /\ clAberto /\ aceito = c

-----------------------------------------------------------------------------
(* Properties *)

\* What any client shows before it asks for the next line is the translation of
\* its last one: no answer is for another client, for an earlier line or for two
\* lines that came together, whoever was killed, served before or kept in the
\* backlog.  (A client whose read fails prints its own line again and exits.)
RespostaCerta ==
  \A c \in Cliente : cliente[c] = "teclado" /\ mostrada[c] # NADA =>
    Traduz(pedido[c], mostrada[c])

\* Server and client both wait, and nothing is on its way between them, only if
\* the user has ended the input: that sends nothing, and both wait for ever.
EsperaJustificada ==
  \A c \in Cliente :
    /\ servidor \in {"aceita", "le"} /\ cliente[c] = "espera"
    /\ ligacao[c] \in {"pendente", "aceita"} /\ ida[c] = <<>> /\ volta[c] = <<>>
    => pedido[c] = FIM

\* The client that leaves takes its server with it, one end of file and one
\* failing read later; and no client waits for a server that has ended, the
\* ones in the backlog included.
FimConjunto ==
  \A c \in Cliente :
    /\ (aceito = c /\ ~fdAberto[c]) ~> (servidor \in Acabou \/ aceito # c)
    /\ (servidor \in Acabou /\ cliente[c] = "espera")
         ~> (cliente[c] # "espera" \/ servidor \notin Acabou)
\* The inductive invariant.
IInv == /\ TypeOK /\ FilaDeConexoes /\ TrataUltima /\ RespostaCerta
        /\ \A c \in Cliente : UmaMensagem(c) /\ Conexao(c) /\ EsperaATratada(c)
=============================================================================
