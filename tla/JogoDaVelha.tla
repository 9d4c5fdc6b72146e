----------------------------- MODULE JogoDaVelha -----------------------------
(***************************************************************************)
(* The game that the two server processes of velha/server.c play for their *)
(* clients, as if there were one board: the players mark blank cells in    *)
(* turn, X first, and nobody marks a cell once the game is over.  What     *)
(* ends a game is a parameter: it is verifica_ganhador that decides.       *)
(***************************************************************************)
EXTENDS Naturals

CONSTANT Acabou(_)              \* does this board end the game?

VARIABLES tabuleiro, vez        \* the board, and whose turn it is

Casas == (0..2) \X (0..2)
Sinais == {"X", "O"}
VAZIA == "_"

Init == /\ tabuleiro = [c \in Casas |-> VAZIA]
        /\ vez = "X"

Joga(c) == /\ ~Acabou(tabuleiro)
           /\ tabuleiro[c] = VAZIA
           /\ tabuleiro' = [tabuleiro EXCEPT ![c] = vez]
           /\ vez' = CHOOSE s \in Sinais : s # vez

Next == \E c \in Casas : Joga(c)

Spec == Init /\ [][Next]_<<tabuleiro, vez>>
=============================================================================
