--------------------------- MODULE MCEscalonador ---------------------------
(***************************************************************************)
(* The files on which TLC runs the schedulers.                             *)
(***************************************************************************)
EXTENDS Escalonador

\* Every line with these attributes.
Linhas(totais, prioridades, chegadas, listasIO) ==
  [tempoTotal : totais, prioridade : prioridades, tempoChegada : chegadas,
   listaIO : listasIO]

\* Two processes of every kind: nothing to execute, an IO that is due before
\* the process arrives, several that are due at once, one that never is.
Pares == LET L == Linhas(0..3, {1, 2}, {0, 2}, {<<>>, <<1>>, <<2, 4>>, <<1, 1>>, <<9>>})
         IN [1..2 -> L]

\* Three processes that can all be blocked at once.
Trios == LET L == Linhas({1, 3}, {1, 2}, {0, 1}, {<<>>, <<1, 3>>, <<1, 1>>})
         IN [1..3 -> L]

\* testeSrj.txt, which is also the example of README.md.
TesteSrj == << [tempoTotal |-> 5, prioridade |-> 2, tempoChegada |-> 1, listaIO |-> <<>>],
               [tempoTotal |-> 2, prioridade |-> 1, tempoChegada |-> 5, listaIO |-> <<1>>],
               [tempoTotal |-> 10, prioridade |-> 4, tempoChegada |-> 11, listaIO |-> <<3, 5, 7>>],
               [tempoTotal |-> 3, prioridade |-> 8, tempoChegada |-> 3, listaIO |-> <<>>],
               [tempoTotal |-> 6, prioridade |-> 1, tempoChegada |-> 4, listaIO |-> <<2, 3, 5>>] >>

MCTabelas == Pares \cup Trios \cup {TesteSrj}
=============================================================================
