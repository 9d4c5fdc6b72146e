--------------------------- MODULE LeituraEscrita ---------------------------
(***************************************************************************)
(* What IPC/leitor_escritor_semaforo.c promises, free of any semaphore:    *)
(* one writer at a time, alone; any number of readers together.            *)
(***************************************************************************)

CONSTANTS Escritor, Leitor

VARIABLES escrevendo, lendo     \* who is writing, who is reading

Init == escrevendo = {} /\ lendo = {}

ComecaEscrita(e) == /\ escrevendo = {} /\ lendo = {}
                    /\ escrevendo' = {e}
                    /\ UNCHANGED lendo

TerminaEscrita(e) == /\ e \in escrevendo
                     /\ escrevendo' = escrevendo \ {e}
                     /\ UNCHANGED lendo

ComecaLeitura(l) == /\ escrevendo = {}
                    /\ l \notin lendo
                    /\ lendo' = lendo \cup {l}
                    /\ UNCHANGED escrevendo

TerminaLeitura(l) == /\ l \in lendo
                     /\ lendo' = lendo \ {l}
                     /\ UNCHANGED escrevendo

Next == \/ \E e \in Escritor : ComecaEscrita(e) \/ TerminaEscrita(e)
        \/ \E l \in Leitor : ComecaLeitura(l) \/ TerminaLeitura(l)

Spec == Init /\ [][Next]_<<escrevendo, lendo>>
=============================================================================
