----------------------------- MODULE RaizQuadrada -----------------------------
(***************************************************************************)
(* Two programs in which one process asks for numbers and answers with     *)
(* square roots, and another types the numbers: ex1_pipe.c, a parent and   *)
(* its child over two pipes, and ex1_fifoServer.c with ex1_fifoCliente.c,  *)
(* over two fifos.  Both keep the same conversation, question, number,     *)
(* answer, and never look at what read and write return.                   *)
(*                                                                         *)
(* Pipes and fifos are numbered; the name of a fifo stands for one of them *)
(* or none.  A fifo whose name is gone lives on for who has it open; when  *)
(* nobody has, what is in it is lost, and its number is free again.        *)
(* Users of the fifos may start two clients, interrupt either side (its    *)
(* handler removes the names) or kill it, and start the server again.      *)
(***************************************************************************)
EXTENDS Naturals, Sequences, FiniteSets

CONSTANTS Programas,        \* which programs to look at, of {"pipe", "fifo"}
          Inicios,          \* how many programs users start at most after the
                            \* first server: clients, or the server again
          Numeros,          \* the numbers that users type
          CAPACIDADE        \* how many messages fit in a pipe

ASSUME ConstantesAssumption ==
  /\ Programas \subseteq {"pipe", "fifo"} /\ Inicios \in Nat \ {0}
  /\ Numeros \subseteq Nat /\ CAPACIDADE \in Nat \ {0}

VARIABLES
  programa,             \* which program this is
  pc,                   \* where each process is
  aberto,               \* the open ends: <<process, "r" or "w", pipe>>
  canal,                \* canal[f]: the messages in f
  nome,                 \* nome[x]: the fifo that the name x stands for, or 0
  num,                  \* the number the server works on
  pedido, mostrado,     \* of each client: the number typed last, the answer
                        \* shown last
  voltas                \* how often the server was started again

canais == <<aberto, canal, nome>>
dados == <<num, pedido, mostrado>>
vars == <<programa, pc, canais, dados, voltas>>

SERVIDOR == 0
Cliente == 1..Inicios
FILHO == 1                  \* the child of ex1_pipe.c
Processo == {SERVIDOR} \cup Cliente
Nome == {"server1", "server2"}
Canal == 1..(2 * (Inicios + 2))

PERGUNTA == [tipo |-> "pergunta", n |-> 0]
Numero(n) == [tipo |-> "numero", n |-> n]
Raiz(n) == [tipo |-> "raiz", n |-> n]
VAZIO == [tipo |-> "vazio", n |-> 0]      \* an empty buffer; atoi makes it 0
NADA == [tipo |-> "nada", n |-> 0]

Acabou == {"fim", "morto"}
NoSinal == {"rm1", "rm2"}
Vivo(p) == pc[p] \notin Acabou \cup NoSinal \cup {"fora"}

Leitores(f) == {p \in Processo : <<p, "r", f>> \in aberto}
Escritores(f) == {p \in Processo : <<p, "w", f>> \in aberto}
Ponta(p, modo) == CHOOSE f \in Canal : <<p, modo, f>> \in aberto

\* Fifos of earlier runs may be lying about; those pipes are the first two.
Init == /\ programa \in Programas
        /\ pc = [p \in Processo |-> IF p # SERVIDOR THEN "fora"
                                    ELSE IF programa = "pipe" THEN "fork" ELSE "cria1"]
        /\ aberto = {}
        /\ canal = [f \in Canal |-> <<>>]
        /\ nome \in IF programa = "pipe" THEN {[x \in Nome |-> 0]}
                    ELSE {g \in [Nome -> 0..2] : /\ g["server1"] \in {0, 1}
                                                 /\ g["server2"] \in {0, 2}}
        /\ num = 0
        /\ pedido = [c \in Cliente |-> VAZIO]
        /\ mostrado = [c \in Cliente |-> NADA]
        /\ voltas = 0

-----------------------------------------------------------------------------
(* Pipes and fifos *)

Vai(p, para) == pc' = [pc EXCEPT ![p] = para]

\* The ends that are in S are closed.
Fecha(S) ==
  /\ aberto' = aberto \ S
  /\ canal' = [f \in Canal |-> IF \E x \in aberto \ S : x[3] = f THEN canal[f]
                               ELSE <<>>]
De(p) == {x \in aberto : x[1] = p}

\* write: without a reader SIGPIPE kills the writer.
Envia(p, de, m, para) ==
  /\ pc[p] = de
  /\ LET f == Ponta(p, "w") IN
       IF Leitores(f) = {}
       THEN Fecha(De(p)) /\ Vai(p, "morto")
       ELSE /\ Len(canal[f]) < CAPACIDADE
            /\ canal' = [canal EXCEPT ![f] = Append(@, m)]
            /\ Vai(p, para)
            /\ UNCHANGED aberto
  /\ UNCHANGED <<programa, nome, voltas>>

\* read: it waits for a message, and returns nothing if there is no writer.
HaOQueLer(f) == canal[f] # <<>> \/ Escritores(f) = {}
Lido(f) == IF canal[f] = <<>> THEN VAZIO ELSE Head(canal[f])
Recebe(p, de, para) ==
  /\ pc[p] = de
  /\ LET f == Ponta(p, "r") IN
       /\ HaOQueLer(f)
       /\ canal' = [canal EXCEPT ![f] = IF @ = <<>> THEN @ ELSE Tail(@)]
  /\ Vai(p, para)
  /\ UNCHANGED <<programa, aberto, nome, voltas>>

\* The numbers that no name and no process uses.
Livres == {f \in Canal : /\ \A x \in Nome : nome[x] # f
                         /\ \A y \in aberto : y[3] # f}
Menor(S) == CHOOSE f \in S : \A g \in S : f <= g

\* mkfifo fails if the name is there, and the program goes on.
mkfifo(p, x, de, para) ==
  /\ pc[p] = de
  /\ nome' = IF nome[x] # 0 THEN nome ELSE [nome EXCEPT ![x] = Menor(Livres)]
  /\ Vai(p, para)
  /\ UNCHANGED <<programa, aberto, canal, dados, voltas>>

\* open fails if the name is gone; it waits until somebody opens the other
\* end, and who waits for this end goes on.
Outro(modo) == IF modo = "r" THEN "w" ELSE "r"
open(p, x, modo, de, espera, para) ==
  /\ pc[p] = de
  /\ LET f == nome[x]
         par == {q \in Processo : <<q, Outro(modo), f>> \in aberto}
     IN IF f = 0
        THEN Fecha(De(p)) /\ Vai(p, "fim")
        ELSE /\ aberto' = aberto \cup {<<p, modo, f>>}
             /\ pc' = [q \in Processo |->
                         IF q = p THEN IF par = {} THEN espera ELSE para
                         ELSE IF q \in par /\ pc[q] = "espera1" /\ x = "server1" THEN "cria2"
                         ELSE IF q \in par /\ pc[q] = "espera2" /\ x = "server2"
                              THEN IF q = SERVIDOR THEN "pergunta" ELSE "lePergunta"
                         ELSE pc[q]]
             /\ UNCHANGED canal
  /\ UNCHANGED <<programa, nome, dados, voltas>>

-----------------------------------------------------------------------------
(* ex1_pipe.c *)

A == 1                      \* mypipeA and mypipeB
B == 2

\* Both processes have all four ends after fork; if it fails main returns.
Fork == /\ programa = "pipe" /\ pc[SERVIDOR] = "fork"
        /\ \/ /\ aberto' = {SERVIDOR, FILHO} \X {"r", "w"} \X {A, B}
              /\ pc' = [pc EXCEPT ![SERVIDOR] = "fecha", ![FILHO] = "fecha"]
           \/ Vai(SERVIDOR, "fim") /\ UNCHANGED aberto
        /\ UNCHANGED <<programa, canal, nome, dados, voltas>>

FechaPontas(p, S) == /\ pc[p] = "fecha"
                     /\ Fecha(S)
                     /\ UNCHANGED <<programa, nome, dados, voltas>>

\* Mutant: the parent keeps the end of pipe B that only the child needs.
MutPaiFecha == /\ FechaPontas(SERVIDOR, {<<SERVIDOR, "r", A>>})
               /\ Vai(SERVIDOR, "pergunta")

PaiFecha == /\ FechaPontas(SERVIDOR, {<<SERVIDOR, "w", B>>, <<SERVIDOR, "r", A>>})
            /\ Vai(SERVIDOR, "pergunta")

FilhoFecha == /\ FechaPontas(FILHO, {<<FILHO, "w", A>>, <<FILHO, "r", B>>})
              /\ Vai(FILHO, "lePergunta")

PaiPergunta == /\ programa = "pipe"
               /\ Envia(SERVIDOR, "pergunta", PERGUNTA, "le")
               /\ UNCHANGED dados

PaiLe == /\ programa = "pipe"
         /\ Recebe(SERVIDOR, "le", "responde")
         /\ num' = Lido(Ponta(SERVIDOR, "r")).n
         /\ UNCHANGED <<pedido, mostrado>>

PaiResponde == /\ programa = "pipe"
               /\ Envia(SERVIDOR, "responde", Raiz(num), "pergunta")
               /\ UNCHANGED dados

FilhoOuve == /\ programa = "pipe"
             /\ Recebe(FILHO, "lePergunta", "teclado")
             /\ UNCHANGED dados

FilhoManda == /\ programa = "pipe"
              /\ Envia(FILHO, "manda", pedido[FILHO], "leResposta")
              /\ UNCHANGED dados

FilhoMostra == /\ programa = "pipe"
               /\ Recebe(FILHO, "leResposta", "lePergunta")
               /\ mostrado' = [mostrado EXCEPT ![FILHO] = Lido(Ponta(FILHO, "r"))]
               /\ UNCHANGED <<num, pedido>>

-----------------------------------------------------------------------------
(* ex1_fifoServer.c *)

ServidorCria == \/ mkfifo(SERVIDOR, "server1", "cria1", "abre1")
                \/ mkfifo(SERVIDOR, "server2", "cria2", "abre2")

\* Mutant: the name of the second fifo is that of the first.
MutServidorAbre == \/ open(SERVIDOR, "server1", "r", "abre1", "espera1", "cria2")
                   \/ open(SERVIDOR, "server1", "w", "abre2", "espera2", "pergunta")

ServidorAbre == \/ open(SERVIDOR, "server1", "r", "abre1", "espera1", "cria2")
                \/ open(SERVIDOR, "server2", "w", "abre2", "espera2", "pergunta")

ServidorPergunta == /\ programa = "fifo"
                    /\ Envia(SERVIDOR, "pergunta", PERGUNTA, "le")
                    /\ UNCHANGED dados

ServidorLe == /\ programa = "fifo"
              /\ Recebe(SERVIDOR, "le", "responde")
              /\ num' = Lido(Ponta(SERVIDOR, "r")).n
              /\ UNCHANGED <<pedido, mostrado>>

\* Mutant: the question again, the answer never.
MutServidorResponde == /\ programa = "fifo"
                       /\ Envia(SERVIDOR, "responde", PERGUNTA, "pergunta")
                       /\ UNCHANGED dados

ServidorResponde == /\ programa = "fifo"
                    /\ Envia(SERVIDOR, "responde", Raiz(num), "pergunta")
                    /\ UNCHANGED dados

-----------------------------------------------------------------------------
(* ex1_fifoCliente.c *)

ClienteCria(c) == \/ mkfifo(c, "server1", "cria1", "abre1")
                  \/ mkfifo(c, "server2", "cria2", "abre2")

\* Mutant: the client opens server2 first, the server server1.
MutClienteAbre(c) == \/ open(c, "server2", "r", "abre1", "espera2", "cria2")
                     \/ open(c, "server1", "w", "abre2", "espera1", "lePergunta")

ClienteAbre(c) == \/ open(c, "server1", "w", "abre1", "espera1", "cria2")
                  \/ open(c, "server2", "r", "abre2", "espera2", "lePergunta")

ClienteOuve(c) == /\ programa = "fifo"
                  /\ Recebe(c, "lePergunta", "teclado")
                  /\ UNCHANGED dados

ClienteManda(c) == /\ programa = "fifo"
                   /\ Envia(c, "manda", pedido[c], "leResposta")
                   /\ UNCHANGED dados

ClienteMostra(c) == /\ programa = "fifo"
                    /\ Recebe(c, "leResposta", "lePergunta")
                    /\ mostrado' = [mostrado EXCEPT ![c] = Lido(Ponta(c, "r"))]
                    /\ UNCHANGED <<num, pedido>>

-----------------------------------------------------------------------------
(* Users *)

\* scanf: a number, or nothing at the end of the input, at once.
Digita(c) == /\ pc[c] = "teclado"
             /\ \E m \in {Numero(n) : n \in Numeros} \cup {VAZIO} :
                  pedido' = [pedido EXCEPT ![c] = m]
             /\ Vai(c, "manda")
             /\ UNCHANGED <<programa, canais, num, mostrado, voltas>>

PodeIniciar ==
  programa = "fifo" /\ voltas + Cardinality({c \in Cliente : pc[c] # "fora"}) < Inicios

Comeca(c) == /\ PodeIniciar /\ pc[c] = "fora"
             /\ Vai(c, "cria1")
             /\ UNCHANGED <<programa, canais, dados, voltas>>

Recomeca == /\ PodeIniciar /\ pc[SERVIDOR] \in Acabou
            /\ Vai(SERVIDOR, "cria1")
            /\ voltas' = voltas + 1
            /\ num' = 0
            /\ UNCHANGED <<programa, canais, pedido, mostrado>>

\* A process is killed.
Mata(p) == /\ Vivo(p) /\ pc[p] # "fork"
           /\ Fecha(De(p))
           /\ Vai(p, "morto")
           /\ UNCHANGED <<programa, nome, dados, voltas>>

\* SIGINT: sig_handler closes both ends and has both names removed.
Sinal(p) == /\ programa = "fifo" /\ Vivo(p)
            /\ Fecha(De(p))
            /\ Vai(p, "rm1")
            /\ UNCHANGED <<programa, nome, dados, voltas>>

Remove(p, x, de, para) == /\ pc[p] = de
                          /\ nome' = [nome EXCEPT ![x] = 0]
                          /\ Vai(p, para)
                          /\ UNCHANGED <<programa, aberto, canal, dados, voltas>>

ServidorRemove == \/ Remove(SERVIDOR, "server1", "rm1", "rm2")
                  \/ Remove(SERVIDOR, "server2", "rm2", "fim")
ClienteRemove(c) == \/ Remove(c, "server2", "rm1", "rm2")
                    \/ Remove(c, "server1", "rm2", "fim")

Servidor == \/ Fork \/ PaiFecha \/ PaiPergunta \/ PaiLe \/ PaiResponde
            \/ ServidorCria \/ ServidorAbre \/ ServidorPergunta
            \/ ServidorLe \/ ServidorResponde \/ ServidorRemove

UmCliente(c) ==
  \/ c = FILHO /\ (FilhoFecha \/ FilhoOuve \/ FilhoManda \/ FilhoMostra)
  \/ ClienteCria(c) \/ ClienteAbre(c) \/ ClienteOuve(c) \/ ClienteManda(c)
  \/ ClienteMostra(c) \/ ClienteRemove(c)

Next == \/ Servidor \/ Recomeca
        \/ \E c \in Cliente : UmCliente(c) \/ Digita(c) \/ Comeca(c)
        \/ \E p \in Processo : Mata(p) \/ Sinal(p)

Spec == Init /\ [][Next]_vars

\* Every process runs.  Users need neither start clients nor type.
FairSpec == Spec /\ WF_vars(Servidor) /\ \A c \in Cliente : WF_vars(UmCliente(c))

-----------------------------------------------------------------------------
(* Properties *)

Conversa == {"pergunta", "le", "responde"}
Conversando == {"lePergunta", "teclado", "manda", "leResposta"}

\* The server was not started again, and no other client was started.
SoDe(c) == voltas = 0 /\ \A d \in Cliente \ {c} : pc[d] = "fora"

\* What a lone client shows is the root of the number it sent last, or nothing
\* if the server has ended, whatever fifos an earlier run left: question and
\* answer come over one pipe and are never taken for each other.
RespostaCerta ==
  \A c \in Cliente : SoDe(c) /\ pc[c] \in {"lePergunta", "teclado"} =>
    \/ mostrado[c] \in {NADA, Raiz(pedido[c].n)}
    \/ mostrado[c] = VAZIO /\ ~Vivo(SERVIDOR)

\* Whether p waits in open, or in read with nothing to read.
Parado(p) ==
  \/ pc[p] \in {"espera1", "espera2"}
  \/ /\ pc[p] \in {"le", "lePergunta", "leResposta"}
     /\ ~HaOQueLer(Ponta(p, "r"))
  \/ /\ pc[p] \in {"pergunta", "responde", "manda"}
     /\ Len(canal[Ponta(p, "w")]) = CAPACIDADE

\* The server and a lone client never wait for each other: not in the four
\* opens, whatever fifos were there before and whoever comes first, nor in the
\* conversation.
NinguemTrava == \A c \in Cliente : SoDe(c) => ~(Parado(SERVIDOR) /\ Parado(c))

\* Among any number of clients and of servers, one after the other, nobody ever
\* reads what its own side wrote, although the handlers remove the names and
\* mkfifo makes them again while processes still hold the fifos they stood for:
\* on its way to the server there are typed numbers only, and on its way to any
\* client only questions and roots of typed numbers (of 0 for a read of
\* nothing), so that this is all that is ever shown.
DosClientes == {Numero(n) : n \in Numeros} \cup {VAZIO}
DoServidor == {PERGUNTA} \cup {Raiz(n) : n \in Numeros \cup {0}}
MaoUnica ==
  /\ pc[SERVIDOR] \in Conversa => canal[Ponta(SERVIDOR, "r")] \in Seq(DosClientes)
  /\ \A c \in Cliente :
       /\ pc[c] \in Conversando => canal[Ponta(c, "r")] \in Seq(DoServidor)
       /\ mostrado[c] \in DoServidor \cup {VAZIO, NADA}

\* When its clients have ended the server of a conversation ends, although it
\* does not look at what its reads return; and a client does not wait for an
\* answer of a server that has ended.
SemClientes == \A c \in Cliente : pc[c] \in Acabou \cup {"fora"}
OrfaoAcaba ==
  /\ (pc[SERVIDOR] \in Conversa /\ SemClientes)
       ~> (pc[SERVIDOR] \in Acabou \cup NoSinal \/ ~SemClientes)
  /\ \A c \in Cliente :
       (pc[c] \in {"lePergunta", "leResposta"} /\ pc[SERVIDOR] \in Acabou)
         ~> (pc[c] \notin {"lePergunta", "leResposta"} \/ pc[SERVIDOR] \notin Acabou)
-----------------------------------------------------------------------------
(* The inductive invariant *)

Mensagem == [tipo : {"pergunta", "numero", "raiz", "vazio", "nada"}, n : Nat]

PcDoServidor == IF programa = "pipe"
                THEN {"fork", "fecha"} \cup Conversa \cup Acabou
                ELSE {"cria1", "abre1", "espera1", "cria2", "abre2", "espera2"}
                       \cup Conversa \cup NoSinal \cup Acabou

Abrindo == {"cria1", "abre1", "espera1", "cria2", "abre2", "espera2"}

PcDoCliente(c) == IF programa = "pipe"
                  THEN IF c = FILHO THEN {"fora", "fecha", "morto"} \cup Conversando
                       ELSE {"fora"}
                  ELSE {"fora"} \cup Abrindo \cup Conversando \cup NoSinal \cup Acabou

\* Type invariant: every process is at a statement of its program, and every
\* name and every open end belong to one of the numbers, which do not run out.
TypeOK ==
  /\ programa \in Programas
  /\ DOMAIN pc = Processo
  /\ pc[SERVIDOR] \in PcDoServidor
  /\ \A c \in Cliente : pc[c] \in PcDoCliente(c)
  /\ aberto \subseteq Processo \X {"r", "w"} \X Canal
  /\ canal \in [Canal -> Seq(Mensagem)]
  /\ nome \in [Nome -> {0} \cup Canal]
  /\ num \in Nat
  /\ pedido \in [Cliente -> Mensagem]
  /\ mostrado \in [Cliente -> Mensagem]
  /\ voltas \in 0..Inicios

\* What p does with the fifo that it opens first.
Primeiro(p) == IF p = SERVIDOR THEN "r" ELSE "w"

Lado(p, modo) == IF modo = Primeiro(p) THEN "server1" ELSE "server2"

\* The ends that p has are those that its statement calls for.
PontasCertas(p) ==
  /\ pc[p] \in {"fora", "fork", "cria1", "abre1"} \cup NoSinal \cup Acabou => De(p) = {}
  /\ pc[p] \in {"espera1", "cria2", "abre2"} =>
       \E f \in Canal : De(p) = {<<p, Primeiro(p), f>>}
  /\ pc[p] \in {"espera2"} \cup Conversa \cup Conversando =>
       \E f, g \in Canal : /\ De(p) = {<<p, Primeiro(p), f>>, <<p, Outro(Primeiro(p)), g>>}
                           /\ programa = "pipe" => f = B /\ g = A
  /\ pc[p] = "fecha" => De(p) = {p} \X {"r", "w"} \X {A, B}

\* No fifo has both names, and none that is open under one name has the other.
NomesDistintos ==
  /\ nome["server1"] = nome["server2"] => nome["server1"] = 0
  /\ programa = "fifo" => \A x \in aberto, y \in Nome :
                            y # Lado(x[1], x[2]) => nome[y] # x[3]

\* Before the fork there is no child.
AntesDoFork == pc[SERVIDOR] = "fork" => \A c \in Cliente : pc[c] = "fora"

\* As long as neither the server nor its only client c has ended, the ends are
\* those of the names.
NomesCertos(c) ==
  pc[c] \notin NoSinal \cup Acabou /\ Vivo(SERVIDOR) /\ programa = "fifo" =>
    \A x \in aberto : x[3] = nome[Lado(x[1], x[2])]

\* Until both names are open nothing is sent, and the two wait for each other
\* in turn.
AberturaCerta(c) ==
  pc[c] \in {"fora"} \cup Abrindo =>
    /\ \A f \in Canal : canal[f] = <<>>
    /\ mostrado[c] = NADA
    /\ Vivo(SERVIDOR) =>
         \/ /\ pc[SERVIDOR] \in {"fork", "cria1", "abre1"}
            /\ pc[c] \in {"fora", "cria1", "abre1", "espera1"}
         \/ pc[SERVIDOR] = "espera1" /\ pc[c] \in {"fora", "cria1", "abre1"}
         \/ pc[SERVIDOR] \in {"cria2", "abre2"} /\ pc[c] \in {"cria2", "abre2", "espera2"}
         \/ pc[SERVIDOR] = "espera2" /\ pc[c] \in {"cria2", "abre2"}

\* Where a server that lives and client c are in the conversation, with what is
\* on its way to the server and to the client.
EmDia(c, indo, vindo) ==
  \/ /\ pc[SERVIDOR] \in {"fecha", "pergunta"} /\ pc[c] \in {"fecha", "lePergunta"}
     /\ indo = <<>> /\ vindo = <<>>
  \/ /\ pc[SERVIDOR] = "le" /\ pc[c] \in {"fecha", "lePergunta"}
     /\ indo = <<>> /\ vindo = <<PERGUNTA>>
  \/ /\ pc[SERVIDOR] = "le" /\ pc[c] \in {"teclado", "manda"}
     /\ indo = <<>> /\ vindo = <<>>
  \/ /\ pc[SERVIDOR] = "le" /\ pc[c] = "leResposta"
     /\ indo = <<pedido[c]>> /\ vindo = <<>>
  \/ /\ pc[SERVIDOR] = "responde" /\ pc[c] = "leResposta"
     /\ indo = <<>> /\ vindo = <<>> /\ num = pedido[c].n
  \/ /\ pc[SERVIDOR] = "pergunta" /\ pc[c] = "leResposta"
     /\ indo = <<>> /\ vindo = <<Raiz(pedido[c].n)>>
  \/ /\ pc[SERVIDOR] = "le" /\ pc[c] = "leResposta"
     /\ indo = <<>> /\ vindo = <<Raiz(pedido[c].n), PERGUNTA>>

\* What a server that has ended has left.
Resto(c, vindo) ==
  \/ pc[c] \in {"fecha", "lePergunta"} /\ vindo \in {<<>>, <<PERGUNTA>>}
  \/ pc[c] \in {"teclado", "manda"} /\ vindo = <<>>
  \/ /\ pc[c] = "leResposta"
     /\ vindo \in {<<>>, <<Raiz(pedido[c].n)>>, <<Raiz(pedido[c].n), PERGUNTA>>}

\* The conversation goes over one fifo in each direction.
ConversaCerta(c) ==
  pc[c] \in {"fecha"} \cup Conversando =>
    \E f, g \in Canal :
      /\ f # g
      /\ programa = "pipe" => f = B /\ g = A
      /\ <<c, "w", f>> \in aberto /\ <<c, "r", g>> \in aberto
      /\ Vivo(SERVIDOR) => /\ <<SERVIDOR, "r", f>> \in aberto
                           /\ <<SERVIDOR, "w", g>> \in aberto
                           /\ EmDia(c, canal[f], canal[g])
      /\ ~Vivo(SERVIDOR) => Resto(c, canal[g])

\* For MaoUnica, of any number of clients and servers: a fifo is open under one
\* of the two names only, holds what that name is for, and is empty when nobody
\* has it open.
Lados == programa = "fifo" =>
           \A x, y \in aberto : x[3] = y[3] => Lado(x[1], x[2]) = Lado(y[1], y[2])
DoLado(x) == IF x = "server1" THEN DosClientes ELSE DoServidor
Conteudo ==
  /\ programa = "fifo" => \A x \in aberto : canal[x[3]] \in Seq(DoLado(Lado(x[1], x[2])))
  /\ programa = "pipe" => canal[B] \in Seq(DosClientes) /\ canal[A] \in Seq(DoServidor)
  /\ \A f \in Canal : canal[f] # <<>> => \E x \in aberto : x[3] = f
Valores ==
  /\ num \in Numeros \cup {0}
  /\ \A c \in Cliente : /\ pedido[c] \in DosClientes
                        /\ mostrado[c] \in DoServidor \cup {VAZIO, NADA}
Direcoes == Lados /\ Conteudo /\ Valores

RespostaDe(c) ==
  pc[c] \in {"fecha", "lePergunta", "teclado"} =>
    \/ mostrado[c] \in {NADA, Raiz(pedido[c].n)}
    \/ mostrado[c] = VAZIO /\ ~Vivo(SERVIDOR)

IInv ==
  /\ TypeOK
  /\ \A p \in Processo : PontasCertas(p)
  /\ NomesDistintos
  /\ AntesDoFork
  /\ \A c \in Cliente :
       SoDe(c) => NomesCertos(c) /\ AberturaCerta(c) /\ ConversaCerta(c) /\ RespostaDe(c)
=============================================================================
