------------------------------- MODULE MCVelha -------------------------------
(***************************************************************************)
(* Openings for the runs of Velha.  Canto fixes the first move, a corner.  *)
(* Meio leaves five cells, from which both players can win, the game can   *)
(* be drawn, and a blank column can hide a line from verifica_ganhador.    *)
(***************************************************************************)
EXTENDS Velha

Canto == << <<0, 2>> >>

\*  . O X
\*  . O .
\*  . . X
Meio == << <<0, 2>>, <<0, 1>>, <<2, 2>>, <<1, 1>> >>
=============================================================================
