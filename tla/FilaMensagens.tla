---------------------------- MODULE FilaMensagens ----------------------------
(***************************************************************************)
(* sockets&mqueue/mqueue/: a translation server and its clients, who talk  *)
(* through POSIX message queues.  The server reads its queue; the first    *)
(* message is the name of the queue for the answers, each of the others is *)
(* a word to translate.  Every client names its queue /cliente.            *)
(*                                                                         *)
(* Queues are numbered in the order of their creation, and a name stands   *)
(* for one of them or none (0): who has a queue open goes on using it      *)
(* after its name was removed.  A message is what the server makes of its  *)
(* text, two languages and a word.  Users type lines of that form, not     *)
(* shorter ones, for which the server writes before its buffer.            *)
(***************************************************************************)
EXTENDS Traducao, Naturals, Sequences, FiniteSets

CONSTANTS Cliente,          \* the processes that run cliente.c, once each
          Pedidos,          \* the lines that the users type
          Reinicios         \* how often the server may be killed and restarted

ASSUME ArgumentosAssumption == /\ IsFiniteSet(Cliente) /\ Reinicios \in Nat
                               /\ Cliente # {}

VARIABLES
  servidor,             \* where the server is: "abre", "nome", "abreCliente",
                        \* "recebe", "responde", "fim"
  in_buffer,            \* the message it read last
  qd_servidor,          \* the queue it reads, 0 if none
  qd_resposta,          \* the queue it answers to, 0 if mq_open failed
  quedas,               \* how often it was killed
  cliente,              \* where client c is: "cria", "abre", "nome",
                        \* "teclado", "manda", "espera", "fecha", "fim"
  qd_client, qd_server, \* the two queues that client c has open
  pedido,               \* the line its user typed last
  mostrada,             \* the translation it shows, NADA before the first
  nome,                 \* the queue that each of the two names stands for
  filas, criadas        \* the messages in each queue, and how many there are

doServidor == <<servidor, in_buffer, qd_servidor, qd_resposta, quedas>>
dosClientes == <<cliente, qd_client, qd_server, pedido, mostrada>>
sistema == <<nome, filas, criadas>>
vars == <<doServidor, dosClientes, sistema>>

SERVIDOR == "/sp-example-serverr"
CLIENTE == "/cliente"
MAX_MESSAGES == 10
Fila == 1..(Cardinality(Cliente) + 1 + Reinicios)

\* "NO-NO", and what the server makes of the text "/cliente".
NO_NO == [ori |-> "NO", des |-> "NO", palavra |-> ""]
NOME == [ori |-> "/c", des |-> "ie", palavra |-> "t"]
NADA == "nada"

Tabela == [pt |-> <<"peixe", "bola", "gato">>,
           en |-> <<"fish", "ball", "cat">>,
           jp |-> <<"sakana", "tama", "neko">>]

\* The word at the same place in the array of the other language.
encontrarPalavra(p) ==
  IF {p.ori, p.des} \subseteq DOMAIN Tabela /\ \E i \in 1..3 : Tabela[p.ori][i] = p.palavra
  THEN Tabela[p.des][CHOOSE i \in 1..3 : Tabela[p.ori][i] = p.palavra]
  ELSE ERRO

Init == /\ servidor = "abre"
        /\ in_buffer = NOME
        /\ qd_servidor = 0 /\ qd_resposta = 0
        /\ quedas = 0
        /\ cliente = [c \in Cliente |-> "cria"]
        /\ qd_client = [c \in Cliente |-> 0]
        /\ qd_server = [c \in Cliente |-> 0]
        /\ pedido = [c \in Cliente |-> NO_NO]
        /\ mostrada = [c \in Cliente |-> NADA]
        /\ nome = [x \in {SERVIDOR, CLIENTE} |-> 0]
        /\ filas = [f \in Fila |-> <<>>]
        /\ criadas = 0

-----------------------------------------------------------------------------
(* The queues *)

\* mq_open with O_CREAT: the queue of the name, or a new one.
QueFila(x) == IF nome[x] # 0 THEN nome[x] ELSE criadas + 1
mq_open(x) == /\ nome' = [nome EXCEPT ![x] = QueFila(x)]
              /\ criadas' = IF nome[x] # 0 THEN criadas ELSE criadas + 1
              /\ UNCHANGED filas

mq_unlink(x) == nome' = [nome EXCEPT ![x] = 0] /\ UNCHANGED <<filas, criadas>>

mq_send(f, m) == /\ Len(filas[f]) < MAX_MESSAGES
                 /\ filas' = [filas EXCEPT ![f] = Append(@, m)]
                 /\ UNCHANGED <<nome, criadas>>

mq_receive(f) == /\ filas[f] # <<>>
                 /\ filas' = [filas EXCEPT ![f] = Tail(@)]
                 /\ UNCHANGED <<nome, criadas>>

-----------------------------------------------------------------------------
(* server.c *)

Abre == /\ servidor = "abre"
        /\ mq_open(SERVIDOR)
        /\ qd_servidor' = QueFila(SERVIDOR)
        /\ servidor' = "nome"
        /\ UNCHANGED <<in_buffer, qd_resposta, quedas, dosClientes>>

\* Lines 101 and 117.
Recebe(de, para) == /\ servidor = de
                    /\ mq_receive(qd_servidor)
                    /\ in_buffer' = Head(filas[qd_servidor])
                    /\ servidor' = para
                    /\ UNCHANGED <<qd_servidor, qd_resposta, quedas, dosClientes>>

\* Line 108.  What fails gives -1, which the test does not see.
AbreCliente == /\ servidor = "abreCliente"
               /\ qd_resposta' = IF in_buffer = NOME THEN nome[CLIENTE] ELSE 0
               /\ servidor' = "recebe"
               /\ UNCHANGED <<in_buffer, qd_servidor, quedas, dosClientes, sistema>>

\* Mutant: the server answers in its own queue.
MutResponde == /\ servidor = "responde" /\ in_buffer # NO_NO
               /\ mq_send(qd_servidor, NOME)
               /\ servidor' = "recebe"
               /\ UNCHANGED <<in_buffer, qd_servidor, qd_resposta, quedas, dosClientes>>

\* Lines 152-159: the translation is sent, if there is a queue to send it to.
Responde == /\ servidor = "responde" /\ in_buffer # NO_NO
            /\ IF qd_resposta # 0
               THEN mq_send(qd_resposta, encontrarPalavra(in_buffer))
               ELSE UNCHANGED sistema
            /\ servidor' = "recebe"
            /\ UNCHANGED <<in_buffer, qd_servidor, qd_resposta, quedas, dosClientes>>

\* Lines 137-150.
Encerra == /\ servidor = "responde" /\ in_buffer = NO_NO
           /\ mq_unlink(SERVIDOR)
           /\ servidor' = "fim"
           /\ UNCHANGED <<in_buffer, qd_servidor, qd_resposta, quedas, dosClientes>>

\* The server is killed and started again; its queue stays.
Reinicia == /\ quedas < Reinicios
            /\ servidor \notin {"abre", "fim"}
            /\ quedas' = quedas + 1
            /\ servidor' = "abre"
            /\ in_buffer' = NOME
            /\ qd_servidor' = 0 /\ qd_resposta' = 0
            /\ UNCHANGED <<dosClientes, sistema>>

Servidor == \/ Abre \/ AbreCliente \/ Responde \/ Encerra
            \/ Recebe("nome", "abreCliente") \/ Recebe("recebe", "responde")

-----------------------------------------------------------------------------
(* cliente.c *)

Vai(c, para) == cliente' = [cliente EXCEPT ![c] = para]

CriaFila(c) == /\ cliente[c] = "cria"
               /\ mq_open(CLIENTE)
               /\ qd_client' = [qd_client EXCEPT ![c] = QueFila(CLIENTE)]
               /\ Vai(c, "abre")
               /\ UNCHANGED <<qd_server, pedido, mostrada, doServidor>>

\* Line 41: without a server the client exits, its queue stays.
AbreServidor(c) == /\ cliente[c] = "abre"
                   /\ qd_server' = [qd_server EXCEPT ![c] = nome[SERVIDOR]]
                   /\ Vai(c, IF nome[SERVIDOR] = 0 THEN "fim" ELSE "nome")
                   /\ UNCHANGED <<qd_client, pedido, mostrada, doServidor, sistema>>

MandaNome(c) == /\ cliente[c] = "nome"
                /\ mq_send(qd_server[c], NOME)
                /\ Vai(c, "teclado")
                /\ UNCHANGED <<qd_client, qd_server, pedido, mostrada, doServidor>>

Digita(c) == /\ cliente[c] = "teclado"
             /\ \E p \in Pedidos \cup {NO_NO} : pedido' = [pedido EXCEPT ![c] = p]
             /\ Vai(c, "manda")
             /\ UNCHANGED <<qd_client, qd_server, mostrada, doServidor, sistema>>

Manda(c) == /\ cliente[c] = "manda"
            /\ mq_send(qd_server[c], pedido[c])
            /\ Vai(c, IF pedido[c] = NO_NO THEN "fecha" ELSE "espera")
            /\ UNCHANGED <<qd_client, qd_server, pedido, mostrada, doServidor>>

\* Mutant: the client's queue does not block, and the client goes on without
\* an answer.
MutEspera(c) == /\ cliente[c] = "espera"
                /\ IF filas[qd_client[c]] # <<>>
                   THEN /\ mq_receive(qd_client[c])
                        /\ mostrada' = [mostrada EXCEPT ![c] = Head(filas[qd_client[c]])]
                   ELSE UNCHANGED <<mostrada, sistema>>
                /\ Vai(c, "teclado")
                /\ UNCHANGED <<qd_client, qd_server, pedido, doServidor>>

\* Lines 83-89.
Espera(c) == /\ cliente[c] = "espera"
             /\ mq_receive(qd_client[c])
             /\ mostrada' = [mostrada EXCEPT ![c] = Head(filas[qd_client[c]])]
             /\ Vai(c, "teclado")
             /\ UNCHANGED <<qd_client, qd_server, pedido, doServidor>>

\* Lines 66-80.  If the name is gone already, mq_unlink fails and so ends the
\* client too.
Fecha(c) == /\ cliente[c] = "fecha"
            /\ mq_unlink(CLIENTE)
            /\ Vai(c, "fim")
            /\ UNCHANGED <<qd_client, qd_server, pedido, mostrada, doServidor>>

UmCliente(c) == CriaFila(c) \/ AbreServidor(c) \/ MandaNome(c) \/ Manda(c)
                \/ Espera(c) \/ Fecha(c)

Next == \/ Servidor \/ Reinicia
        \/ \E c \in Cliente : UmCliente(c) \/ Digita(c)

Spec == Init /\ [][Next]_vars

\* Every process runs.  Users may stop typing.  Of the clients that wait for
\* an answer mq_receive serves the one that has waited longest.
FairSpec == /\ Spec
            /\ WF_vars(Servidor)
            /\ \A c \in Cliente : WF_vars(UmCliente(c)) /\ SF_vars(Espera(c))

-----------------------------------------------------------------------------
(* Properties *)

\* No other client has sent its name.
SoDe(c) == \A d \in Cliente \ {c} : cliente[d] \in {"cria", "abre", "nome"}

\* What a client shows is the translation of the line its user typed last, so
\* no answer is out of step with the questions, wherever the server is killed
\* and started again: true until a second client sends its name.
RespostaCerta ==
  \A c \in Cliente : SoDe(c) /\ cliente[c] = "teclado" /\ mostrada[c] # NADA =>
    Traduz(pedido[c], mostrada[c])

\* No queue ever holds more than the name and one word of each client, so that
\* no mq_send blocks and the two sides never wait for each other's queue, not
\* even after a restart.
NuncaEnche == \A f \in Fila : Len(filas[f]) <= 2 * Cardinality(Cliente)

\* With five clients or fewer whoever comes to an mq_send finds room.
HaLugar ==
  Cardinality(Cliente) <= 5 =>
    /\ \A c \in Cliente : cliente[c] \in {"nome", "manda"} =>
                            Len(filas[qd_server[c]]) < MAX_MESSAGES
    /\ servidor = "responde" /\ qd_resposta # 0 => Len(filas[qd_resposta]) < MAX_MESSAGES

\* As long as the first server runs a client that waits gets an answer, also
\* when two clients share the queue of the answers.
Respondido ==
  \A c \in Cliente :
    (cliente[c] = "espera") ~> (cliente[c] # "espera" \/ servidor = "fim" \/ quedas > 0)

\* NO-NO of any client ends the server too, and removes its queue.
Despedida == (\E c \in Cliente : cliente[c] = "fecha")
                ~> ((servidor = "fim" /\ nome[SERVIDOR] = 0) \/ quedas > 0)

\* server.c:115, "recebe a palavra a ser traduzida": no queue name is taken
\* for a word.
PalavraEPalavra == servidor = "responde" => in_buffer # NOME

\* server.c:100, "Recebe o nome da fila do cliente": no word is taken for a
\* queue name.
NomeENome == servidor = "abreCliente" => in_buffer = NOME

\* server.c:112 says that the access to the client's queue is established.
AcessoEstabelecido == servidor \in {"recebe", "responde"} => qd_resposta # 0
-----------------------------------------------------------------------------
(* The inductive invariant *)

Linha == Pedidos \cup {NO_NO, NOME}
Resposta == {ERRO} \cup {d[l] : d \in Dicionario, l \in Linguas}


\* Type invariant: a queue in use has a number that was given out.
TypeOK ==
  /\ servidor \in {"abre", "nome", "abreCliente", "recebe", "responde", "fim"}
  /\ in_buffer \in Linha
  /\ qd_servidor \in 0..criadas /\ qd_resposta \in 0..criadas
  /\ quedas \in 0..Reinicios
  /\ cliente \in [Cliente -> {"cria", "abre", "nome", "teclado", "manda", "espera",
                              "fecha", "fim"}]
  /\ qd_client \in [Cliente -> 0..criadas] /\ qd_server \in [Cliente -> 0..criadas]
  /\ pedido \in [Cliente -> Pedidos \cup {NO_NO}]
  /\ mostrada \in [Cliente -> Resposta \cup {NADA}]
  /\ nome \in [{SERVIDOR, CLIENTE} -> 0..criadas]
  /\ criadas \in Nat
  /\ DOMAIN filas = Fila /\ \A f \in Fila : Len(filas[f]) \in Nat

\* No queue is used both for lines and for answers, whichever names it had.
DeLinhas == {nome[SERVIDOR], qd_servidor} \cup {qd_server[c] : c \in Cliente}
DeRespostas == {nome[CLIENTE], qd_resposta} \cup {qd_client[c] : c \in Cliente}
UmUso ==
  /\ DeLinhas \cap DeRespostas \subseteq {0}
  /\ \A f \in Fila : /\ f > criadas => filas[f] = <<>>
                     /\ f \in DeLinhas => filas[f] \in Seq(Linha)
                     /\ f \in DeRespostas => filas[f] \in Seq(Resposta)

\* Who is past an mq_open that succeeded has a queue.
TemFila ==
  /\ servidor # "abre" => qd_servidor # 0
  /\ \A c \in Cliente :
       /\ cliente[c] # "cria" => qd_client[c] # 0
       /\ cliente[c] \in {"nome", "teclado", "manda", "espera", "fecha"} => qd_server[c] # 0

\* Every queue was created by one client or by one start of the server.
CadaUmUma ==
  criadas <= Cardinality({c \in Cliente : cliente[c] # "cria"}) + quedas
               + (IF servidor = "abre" THEN 0 ELSE 1)

\* What is in the queues or in the hands of the server is at most one name of
\* every client that sent it, and one word, or its answer, of every client
\* that has not read the answer.
Guardadas == UNION {{f} \X (1..Len(filas[f])) : f \in Fila}
Apresentados == {c \in Cliente : cliente[c] \notin {"cria", "abre", "nome"}}
SemResposta == {c \in Cliente : cliente[c] \in {"espera", "fecha", "fim"}}
Contadas == Cardinality(Guardadas) + (IF servidor = "responde" THEN 1 ELSE 0)
              <= Cardinality(Apresentados) + Cardinality(SemResposta)

\* The whole conversation of a client that no other has joined: which queues
\* the two sides have, and what is in them at each statement.  A server that is
\* started again, Recomeca, finds the messages that the one before it left.
Vai1 == filas[nome[SERVIDOR]]
Volta1 == filas[nome[CLIENTE]]
Recomeca == servidor \in {"abre", "nome"}

Apresenta == \/ Recomeca /\ Vai1 \in {<<NOME>>, <<>>}
             \/ servidor = "abreCliente" /\ in_buffer = NOME /\ Vai1 = <<>>
             \/ servidor = "recebe" /\ qd_resposta = nome[CLIENTE] /\ Vai1 = <<>>

\* Without its word in the queue, in the hands of the server or answered, the
\* client waits for ever.
Pergunta(m) ==
  \/ /\ Volta1 = <<>>
     /\ \/ Recomeca /\ Vai1 \in {<<NOME, m>>, <<m>>, <<>>}
        \/ servidor = "abreCliente" /\ in_buffer = NOME /\ Vai1 = <<m>>
        \/ servidor = "recebe" /\ qd_resposta = nome[CLIENTE] /\ Vai1 = <<m>>
        \/ /\ servidor = "responde" /\ qd_resposta = nome[CLIENTE]
           /\ in_buffer = m /\ Vai1 = <<>>
        \/ servidor \in {"abreCliente", "recebe"} /\ Vai1 = <<>>
  \/ /\ Volta1 = <<encontrarPalavra(m)>> /\ Vai1 = <<>>
     /\ Recomeca \/ (servidor = "recebe" /\ qd_resposta = nome[CLIENTE])

Conversa(c) ==
  /\ servidor # "abre" => qd_servidor = nome[SERVIDOR]
  /\ nome[CLIENTE] # 0 => nome[CLIENTE] # nome[SERVIDOR]
  /\ cliente[c] # "cria" => nome[CLIENTE] # 0 /\ qd_client[c] = nome[CLIENTE]
  /\ cliente[c] \in {"cria", "abre", "nome"} =>
       /\ Recomeca /\ mostrada[c] = NADA
       /\ \A f \in Fila : filas[f] = <<>>
  /\ cliente[c] \in {"nome", "teclado", "manda", "espera"} =>
       nome[SERVIDOR] # 0 /\ qd_server[c] = nome[SERVIDOR]
  /\ cliente[c] \in {"teclado", "manda"} => Apresenta /\ Volta1 = <<>>
  /\ cliente[c] = "teclado" => mostrada[c] = NADA \/ Traduz(pedido[c], mostrada[c])
  /\ cliente[c] = "espera" => pedido[c] # NO_NO /\ Pergunta(pedido[c])

Sozinho == \A c \in Cliente : SoDe(c) /\ cliente[c] \notin {"fecha", "fim"} => Conversa(c)

IInv == TypeOK /\ UmUso /\ TemFila /\ CadaUmUma /\ Contadas /\ Sozinho
=============================================================================
