-------------------------------- MODULE Velha --------------------------------
(***************************************************************************)
(* velha/: a game of noughts and crosses over TCP.  The server forks one   *)
(* child per client; each child keeps a board of its own (velha.c) and the *)
(* two boards are kept in step by sending every move through a pipe.       *)
(*                                                                         *)
(* Process i (1 plays X, 2 plays O) has the copy velha[i] of the board,    *)
(* contador[i] of the move counter, msgPlayer[i] of the read buffer.       *)
(* cano[i] is the pipe i writes to: pipeServidor[1] for child 1,           *)
(* pipeServidor[0] for child 2.  A move is a cell <<l, c>>.                *)
(*                                                                         *)
(* Clients send cells of the board only (the code does not check the       *)
(* range), and the 200 byte read buffer ends its string within itself.  A  *)
(* client in Desiste may go away, the first player only after its first    *)
(* move (before it the buffer is uninitialized).                           *)
(***************************************************************************)
EXTENDS Naturals, Sequences, FiniteSets

CONSTANT Desiste                \* the players that may abandon the game, and
                                \* 0 if an accept or a fork may fail

CONSTANT Abertura               \* the first moves of the game, as the users
                                \* type them; after these they type any cell

ASSUME DesisteAssumption == Desiste \subseteq {0, 1, 2}

VARIABLES
  pai,          \* the parent: "accept1", "accept2", "waitpid", "fim"
  pc,           \* child i: where it is, "nao" before the fork, "fim" dead
  velha, contador, msgPlayer, win,      \* the variables of child i
  cano,         \* cano[i]: the moves in the pipe that child i writes to
  conexao,      \* the socket of client i: "nao", "aberta", "fechada", "rst"
  conversa      \* with client i: SUA_VEZ sent, the cell it answers, NADA

vars == <<pai, pc, velha, contador, msgPlayer, win, cano, conexao, conversa>>
jogo == <<velha, contador, msgPlayer, win>>

Jogador == {1, 2}
Casas == (0..2) \X (0..2)
Outro(i) == 3 - i
Sinal(i) == IF i = 1 THEN "X" ELSE "O"
NENHUMA == <<>>                 \* no move read yet
NADA == <<>>                    \* nothing on the connection
SUA_VEZ == <<"SuaVez">>         \* the client is asked for a move
VAZIA == "_"                    \* the blank of the code, for a cell that is
INDEFINIDO == VAZIA             \* not marked and for no verdict yet
EMPATE == "0"

Vivo(i) == pc[i] \notin {"nao", "fim"}

\* Mutant: the children do not close the ends of the pipes they do not use.
MutHaPar(i) == TRUE

\* Some process other than i holds the far end of the pipes of child i: the
\* other child, or the parent, which never closes its copies.
HaPar(i) == Vivo(Outro(i)) \/ pai # "fim"

-----------------------------------------------------------------------------
(* velha.c *)

Cheias(b) == {c \in Casas : b[c] # VAZIA}

\* The lines in the order of the tests of verifica_ganhador: for each i row i
\* then column i, and the two diagonals.
Linhas == << {<<0,0>>, <<0,1>>, <<0,2>>}, {<<0,0>>, <<1,0>>, <<2,0>>},
             {<<1,0>>, <<1,1>>, <<1,2>>}, {<<0,1>>, <<1,1>>, <<2,1>>},
             {<<2,0>>, <<2,1>>, <<2,2>>}, {<<0,2>>, <<1,2>>, <<2,2>>},
             {<<0,0>>, <<1,1>>, <<2,2>>}, {<<0,2>>, <<1,1>>, <<2,0>>} >>

Iguais(b, k) == \E s \in {"X", "O", VAZIA} : \A c \in Linhas[k] : b[c] = s

\* The mark of the first line of equal cells, or `senao' if there is none.
PrimeiraLinha(b, senao) ==
  IF \E k \in 1..8 : Iguais(b, k)
  THEN LET k == CHOOSE k \in 1..8 : /\ Iguais(b, k)
                                    /\ \A j \in 1..(k - 1) : ~Iguais(b, j)
       IN  CHOOSE s \in {"X", "O", VAZIA} : \A c \in Linhas[k] : b[c] = s
  ELSE senao

\* Mutant: the ninth move is a draw before the lines are looked at.
MutEmpateAntes(b, n) == IF n = 9 THEN EMPATE ELSE PrimeiraLinha(b, INDEFINIDO)

\* The mark of the first line whose three cells are equal, blank ones too;
\* otherwise a draw at the ninth move.  n is contador after its increment.
verifica_ganhador(b, n) ==
  PrimeiraLinha(b, IF n = 9 THEN EMPATE ELSE INDEFINIDO)

\* The board after marca_velha: a cell that is not blank stays as it is.
marca_velha(b, c, s) == IF b[c] = VAZIA THEN [b EXCEPT ![c] = s] ELSE b

-----------------------------------------------------------------------------
Init == /\ pai = "accept1"
        /\ pc = [i \in Jogador |-> "nao"]
        /\ velha = [i \in Jogador |-> [c \in Casas |-> VAZIA]]
        /\ contador = [i \in Jogador |-> 0]
        /\ msgPlayer = [i \in Jogador |-> NENHUMA]
        /\ win = [i \in Jogador |-> INDEFINIDO]
        /\ cano = [i \in Jogador |-> <<>>]
        /\ conexao = [i \in Jogador |-> "nao"]
        /\ conversa = [i \in Jogador |-> NADA]

\* accept, then fork: the child starts at its part of the code.
Aceita(i) == /\ pai = <<"accept1", "accept2">>[i]
             /\ pai' = <<"accept2", "waitpid">>[i]
             /\ conexao' = [conexao EXCEPT ![i] = "aberta"]
             /\ pc' = [pc EXCEPT ![i] = <<"pede", "aguarda">>[i]]
             /\ UNCHANGED <<jogo, cano, conversa>>

\* accept or fork fails: exit(1).
AceitaFalha == /\ 0 \in Desiste
               /\ pai \in {"accept1", "accept2"}
               /\ pai' = "fim"
               /\ UNCHANGED <<pc, jogo, cano, conexao, conversa>>

\* waitpid(-1) returns as soon as one child has ended, and main with it.
Waitpid == /\ pai = "waitpid"
           /\ \E i \in Jogador : pc[i] = "fim"
           /\ pai' = "fim"
           /\ UNCHANGED <<pc, jogo, cano, conexao, conversa>>

-----------------------------------------------------------------------------
(* What a child does.  A write to a connection that was reset kills it with *)
(* SIGPIPE.                                                                 *)

Envia(i, ok) == pc' = [pc EXCEPT ![i] = IF conexao[i] = "rst" THEN "fim" ELSE ok]

\* The board (144-145, 188-189) and "Sua vez!" (149, 191).
Pede(i) == /\ pc[i] = "pede"
           /\ Envia(i, "le")
           /\ conversa' = [conversa EXCEPT ![i] =
                             IF conexao[i] = "aberta" THEN SUA_VEZ ELSE @]
           /\ UNCHANGED <<pai, jogo, cano, conexao>>

\* marca_velha of the move in the buffer, asked for again if it is refused.
Marca(i, m) ==
  /\ velha' = [velha EXCEPT ![i] = marca_velha(@, m, Sinal(i))]
  /\ pc' = [pc EXCEPT ![i] = IF velha[i][m] = VAZIA THEN "manda" ELSE "pede"]

\* Lines 150-154 and 192-195: read the socket, mark.
Le(i) == /\ pc[i] = "le"
         /\ conversa[i] \in Casas
         /\ msgPlayer' = [msgPlayer EXCEPT ![i] = conversa[i]]
         /\ conversa' = [conversa EXCEPT ![i] = NADA]
         /\ Marca(i, conversa[i])
         /\ UNCHANGED <<pai, contador, win, cano, conexao>>

\* The same read when the client has gone: it returns no bytes, rc is not
\* looked at, and the buffer still has its last move.
LeFim(i) == /\ pc[i] = "le"
            /\ conversa[i] \notin Casas
            /\ conexao[i] \in {"fechada", "rst"}
            /\ Marca(i, msgPlayer[i])
            /\ UNCHANGED <<pai, contador, msgPlayer, win, cano, conexao, conversa>>

\* Lines 157 and 197: the move goes to the other child, if the pipe still
\* has a reader.
Manda(i) == /\ pc[i] = "manda"
            /\ IF HaPar(i)
               THEN /\ cano' = [cano EXCEPT ![i] = Append(@, msgPlayer[i])]
                    /\ pc' = [pc EXCEPT ![i] = "verifica"]
               ELSE /\ pc' = [pc EXCEPT ![i] = "fim"]
                    /\ UNCHANGED cano
            /\ UNCHANGED <<pai, jogo, conexao, conversa>>

\* verifica_ganhador on board b: the game goes on at `segue' or is over.
Verifica(i, b, segue) ==
  LET v == verifica_ganhador(b, contador[i] + 1)
  IN  /\ contador' = [contador EXCEPT ![i] = @ + 1]
      /\ win' = [win EXCEPT ![i] = v]
      /\ pc' = [pc EXCEPT ![i] = IF v = INDEFINIDO THEN segue ELSE "veredito"]

\* Mutant: after its move the child asks for the next one without waiting.
MutVerificaMinha(i) ==
  /\ pc[i] = "verifica"
  /\ Verifica(i, velha[i], "pede")
  /\ UNCHANGED <<pai, velha, msgPlayer, cano, conexao, conversa>>

\* Lines 160 and 199.
VerificaMinha(i) == /\ pc[i] = "verifica"
                    /\ Verifica(i, velha[i], "aguarda")
                    /\ UNCHANGED <<pai, velha, msgPlayer, cano, conexao, conversa>>

\* Lines 164 and 177: "Aguarde sua vez...".
Aguarda(i) == /\ pc[i] = "aguarda"
              /\ Envia(i, "escuta")
              /\ UNCHANGED <<pai, jogo, cano, conexao, conversa>>

\* Mutant: the other player's move is marked with this player's sign.
MutAnota(i, m) ==
  LET b == marca_velha(velha[i], m, Sinal(i))
  IN  /\ velha' = [velha EXCEPT ![i] = b]
      /\ msgPlayer' = [msgPlayer EXCEPT ![i] = m]
      /\ Verifica(i, b, "pede")

\* Lines 166-170 and 179-184: the move of the other player is marked (the
\* result of marca_velha is not looked at) and checked.
Anota(i, m) ==
  LET b == marca_velha(velha[i], m, Sinal(Outro(i)))
  IN  /\ velha' = [velha EXCEPT ![i] = b]
      /\ msgPlayer' = [msgPlayer EXCEPT ![i] = m]
      /\ Verifica(i, b, "pede")

\* Lines 165 and 178: one read empties the pipe; of what it held only the
\* first move is used.
Escuta(i) == /\ pc[i] = "escuta"
             /\ cano[Outro(i)] # <<>>
             /\ cano' = [cano EXCEPT ![Outro(i)] = <<>>]
             /\ Anota(i, Head(cano[Outro(i)]))
             /\ UNCHANGED <<pai, conexao, conversa>>

\* The same read at the end of the file, when nobody can write any more: the
\* old move in the buffer is taken for the other player's.
EscutaFim(i) == /\ pc[i] = "escuta"
                /\ cano[Outro(i)] = <<>> /\ ~HaPar(i)
                /\ Anota(i, msgPlayer[i])
                /\ UNCHANGED <<pai, cano, conexao, conversa>>

\* Lines 205-227: the verdict goes to the client and the child ends.
Veredito(i) == /\ pc[i] = "veredito"
               /\ pc' = [pc EXCEPT ![i] = "fim"]
               /\ UNCHANGED <<pai, jogo, cano, conexao, conversa>>

Filho(i) == \/ Pede(i) \/ Le(i) \/ LeFim(i) \/ Manda(i) \/ VerificaMinha(i)
            \/ Aguarda(i) \/ Escuta(i) \/ EscutaFim(i) \/ Veredito(i)

-----------------------------------------------------------------------------
(* cliente.c *)

\* "Sua vez!" arrives and the user answers with cell c.
Responde(i, c) == /\ conexao[i] = "aberta"
                  /\ conversa[i] = SUA_VEZ
                  /\ LET n == Cardinality(Cheias(velha[i])) + 1
                     IN  n \in DOMAIN Abertura => c = Abertura[n]
                  /\ conversa' = [conversa EXCEPT ![i] = c]
                  /\ UNCHANGED <<pai, pc, jogo, cano, conexao>>

\* The client ends when its read returns no bytes.  The parent and the second
\* child keep copies of the first client's socket open.
FimDeConexao(i) == /\ conexao[i] = "aberta"
                   /\ pc[i] = "fim" /\ pai = "fim"
                   /\ i = 1 => ~Vivo(2)
                   /\ conexao' = [conexao EXCEPT ![i] = "fechada"]
                   /\ UNCHANGED <<pai, pc, jogo, cano, conversa>>

\* A client that goes away in the middle of the game.
Abandona(i) == /\ i \in Desiste
               /\ conexao[i] = "aberta"
               /\ i = 1 => msgPlayer[1] # NENHUMA
               /\ conexao' = [conexao EXCEPT ![i] = "fechada"]
               /\ UNCHANGED <<pai, pc, jogo, cano, conversa>>

\* The reset that answers what is sent to a client that has gone.
Reset(i) == /\ conexao[i] = "fechada"
            /\ Vivo(i)
            /\ conexao' = [conexao EXCEPT ![i] = "rst"]
            /\ UNCHANGED <<pai, pc, jogo, cano, conversa>>

Next == \/ AceitaFalha \/ Waitpid
        \/ \E i \in Jogador : \/ Aceita(i) \/ Filho(i)
                              \/ FimDeConexao(i) \/ Abandona(i) \/ Reset(i)
                              \/ \E c \in Casas : Responde(i, c)

Spec == Init /\ [][Next]_vars

\* Every process that can go on does, clients connect, resets arrive, and a
\* user who is asked again and again does not answer with taken cells forever.
FairSpec ==
  /\ Spec
  /\ WF_vars(Waitpid) /\ WF_vars(\E i \in Jogador : Aceita(i))
  /\ \A i \in Jogador :
       /\ WF_vars(Filho(i)) /\ WF_vars(FimDeConexao(i)) /\ WF_vars(Reset(i))
       /\ SF_vars(\E c \in Casas : velha[i][c] = VAZIA /\ Responde(i, c))
       /\ WF_vars(\E c \in Casas : Responde(i, c))

-----------------------------------------------------------------------------
(* Properties *)

\* Type invariant.
TypeOK ==
  /\ pai \in {"accept1", "accept2", "waitpid", "fim"}
  /\ pc \in [Jogador -> {"nao", "pede", "le", "manda", "verifica", "aguarda",
                         "escuta", "veredito", "fim"}]
  /\ velha \in [Jogador -> [Casas -> {"X", "O", VAZIA}]]
  /\ contador \in [Jogador -> Nat]
  /\ msgPlayer \in [Jogador -> Casas \cup {NENHUMA}]
  /\ win \in [Jogador -> {"X", "O", EMPATE, INDEFINIDO}]
  /\ cano \in [Jogador -> Seq(Casas \cup {NENHUMA})]
  /\ conexao \in [Jogador -> {"nao", "aberta", "fechada", "rst"}]
  /\ conversa \in [Jogador -> {NADA, SUA_VEZ} \cup Casas]

\* The counters stay at nine, and each pipe holds one move at most: the read of
\* 200 bytes would take two for one.
Limites == \A i \in Jogador : contador[i] <= 9 /\ Len(cano[i]) <= 1

\* There is still a game: every child that has ended had a verdict to give,
\* and the parent did not end before it forked the second.
Inteira == /\ pai = "fim" => pc[2] # "nao"
           /\ \A i \in Jogador : pc[i] = "fim" => win[i] # INDEFINIDO

\* The move of i that the other board does not have yet, if there is one:
\* marked and not sent, or in the pipe.
Pendente(i) == IF pc[i] = "manda" THEN {msgPlayer[i]}
               ELSE {cano[i][k] : k \in DOMAIN cano[i]}

\* The two boards are equal except for one move on its way, which is marked
\* at its sender and still blank at its receiver (141-202).  Two on their way
\* would lose one, and the boards would differ for good.
Acordo ==
  Inteira =>
    /\ Cardinality(Pendente(1)) + Cardinality(Pendente(2)) <= 1
    /\ \A c \in Casas :
         \/ velha[1][c] = velha[2][c]
         \/ \E i \in Jogador : /\ c \in Pendente(i)
                               /\ velha[i][c] = Sinal(i)
                               /\ velha[Outro(i)][c] = VAZIA

TemLinha(b, s) == \E k \in 1..8 : \A c \in Linhas[k] : b[c] = s

\* What the clients are told: both the same, a winner who has three in line
\* and a draw only on a full board without a line (160-227).
VereditoCerto ==
  \A i \in Jogador : Inteira /\ pc[i] = "veredito" =>
    /\ win[Outro(i)] \in {win[i], INDEFINIDO}
    /\ win[i] \in {"X", "O"} => TemLinha(velha[i], win[i])
    /\ win[i] = EMPATE => /\ Cheias(velha[i]) = Casas
                          /\ \A s \in {"X", "O"} : ~TemLinha(velha[i], s)

\* Nobody is left behind, whichever client goes away and whichever accept or
\* fork fails: parent and children end, no process is blocked for ever in a
\* read, and every client that connected is disconnected.
TodosSaem == <>(/\ pai = "fim"
                /\ \A i \in Jogador : ~Vivo(i) /\ conexao[i] # "aberta")

\* Whose turn it is on a board, and what verifica_ganhador says of it.
VezDe(b) == IF Cardinality(Cheias(b)) \in {0, 2, 4, 6, 8} THEN "X" ELSE "O"
VereditoDe(b) == verifica_ganhador(b, Cardinality(Cheias(b)))
AcabouParaOCodigo(b) == VereditoDe(b) # INDEFINIDO

\* The two boards as one, and whose turn it is on it.
Tabuleiro == [c \in Casas |-> IF velha[1][c] # VAZIA THEN velha[1][c] ELSE velha[2][c]]
Vez == VezDe(Tabuleiro)

Jogo == INSTANCE JogoDaVelha
            WITH tabuleiro <- Tabuleiro, vez <- Vez, Acabou <- AcabouParaOCodigo

\* Two processes with a board each play one game: turns alternate, a cell is
\* marked once, and nobody plays after verifica_ganhador has decided.
UmJogoSo == Jogo!Init /\ [][Inteira' => Jogo!Next]_<<Tabuleiro, Vez>>

\* velha.h:10 says that verifica_ganhador checks whether there is a winner:
\* then no child goes on playing with three in line on its board.
LinhaAcabaOJogo ==
  \A i \in Jogador : pc[i] \in {"pede", "le", "aguarda", "escuta"} =>
    \A s \in {"X", "O"} : ~TemLinha(velha[i], s)

\* velha.c:33: contador counts the moves, so it is never ahead of the marks.
ContaLances == \A i \in Jogador : contador[i] <= Cardinality(Cheias(velha[i]))

\* server.c:229: the parent waits for all its children.
PaiEsperaTodos == pai = "fim" => \A i \in Jogador : ~Vivo(i)

-----------------------------------------------------------------------------
(* The inductive invariant that VelhaProva proves: while there is a game, it *)
(* is in one of four phases.                                                 *)

\* The counter and the verdict of child i are those of its board, but between
\* its move and its test of it.
EmDia(i) ==
  LET testando == pc[i] \in {"manda", "verifica"}
  IN  /\ Cardinality(Cheias(velha[i])) = IF testando THEN contador[i] + 1 ELSE contador[i]
      /\ win[i] = IF testando THEN INDEFINIDO ELSE VereditoDe(velha[i])
      /\ win[i] # INDEFINIDO <=> pc[i] \in {"veredito", "fim"}

\* Child i is to read the next move, on a board that does not end the game.
Espera(i) == /\ pc[i] \in {"nao", "verifica", "aguarda", "escuta"}
             /\ VereditoDe(velha[i]) = INDEFINIDO

\* Board i is the other board and move m of player i, whose turn it was.
UmAMais(i, m) ==
  /\ velha[Outro(i)][m] = VAZIA
  /\ velha[i] = [velha[Outro(i)] EXCEPT ![m] = Sinal(i)]
  /\ VezDe(velha[Outro(i)]) = Sinal(i)

SemRecado == \A i \in Jogador : cano[i] = <<>>

\* Player i is asked for its move, and nothing is on its way.
SuaVez(i) == /\ pc[i] \in {"pede", "le"} \/ (i = 1 /\ pc[i] = "nao")
             /\ Espera(Outro(i)) /\ SemRecado
             /\ velha[1] = velha[2] /\ VezDe(velha[i]) = Sinal(i)

\* Child i has marked a move that it has not sent.
Marcou(i) == /\ pc[i] = "manda" /\ msgPlayer[i] \in Casas
             /\ Espera(Outro(i)) /\ SemRecado
             /\ UmAMais(i, msgPlayer[i])

\* The move of i is in the pipe; child i may know already that it ends the game.
Mandou(i) == /\ pc[i] \in {"verifica", "aguarda", "escuta", "veredito", "fim"}
             /\ Espera(Outro(i))
             /\ cano[Outro(i)] = <<>>
             /\ \E m \in Casas : cano[i] = <<m>> /\ UmAMais(i, m)

\* Both have the last move.
FimDeJogo == /\ \A i \in Jogador : pc[i] \in {"verifica", "veredito", "fim"}
             /\ SemRecado
             /\ velha[1] = velha[2] /\ AcabouParaOCodigo(velha[1])

\* The children that the parent has forked, and what an old buffer holds when a
\* read finds the end of the file.
Processos == /\ pc[1] = "nao" <=> pai = "accept1"
             /\ pc[2] = "nao" <=> pai \in {"accept1", "accept2"}
             /\ conexao[1] \in {"fechada", "rst"} => msgPlayer[1] \in Casas \/ pc[1] = "fim"
             /\ pc[2] \in {"pede", "le"} => msgPlayer[2] \in Casas

Fase == FimDeJogo \/ \E i \in Jogador : SuaVez(i) \/ Marcou(i) \/ Mandou(i)

\* No child runs before the parent has forked it.
AntesDoFork == /\ pai = "accept1" => pc[1] = "nao"
               /\ pai \in {"accept1", "accept2"} => pc[2] = "nao"

Partida == Processos /\ Fase /\ \A i \in Jogador : EmDia(i)

IInv == TypeOK /\ AntesDoFork /\ (Inteira => Partida)
=============================================================================
