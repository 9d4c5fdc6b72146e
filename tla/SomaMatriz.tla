------------------------------ MODULE SomaMatriz ------------------------------
(***************************************************************************)
(* threads/ex2.c: numThreads threads add up the rows of a matrix of M      *)
(* rows, a slice of the rows each; main joins them and frees the rows.     *)
(*                                                                         *)
(* A sum is modelled by the set of the rows whose cells it adds up.  The   *)
(* array controle has M entries, one of which each thread uses: more       *)
(* threads than rows write past it, which the assumption excludes.         *)
(***************************************************************************)
EXTENDS Particao

CONSTANTS numThreads, M

ASSUME ArgumentosAssumption == /\ numThreads \in Nat \ {0} /\ M \in Nat \ {0}
                               /\ numThreads <= M

VARIABLES
  main,               \* where main is: "cria", "junta", "libera", "fim", and
                      \* "morto" if the process was killed
  i,                  \* main's loop variable
  fimThreadAnterior,
  controle,           \* controle[t]: the slice of thread t
  pc,                 \* thread t: "nao" (not created), "soma", "fim"
  linha, soma,        \* the variables i and soma of thread t
  somaLinha           \* somaLinha[r]: the rows added up in it

vars == <<main, i, fimThreadAnterior, controle, pc, linha, soma, somaLinha>>
daThread == <<linha, soma, somaLinha>>

Thread == 0..(numThreads - 1)
Linhas == 0..(M - 1)
VAZIA == [inicio |-> 0, fim |-> 0]

\* Lines 59-82, up to the first pthread_create.
Init == /\ main = "cria"
        /\ i = 0
        /\ fimThreadAnterior = 0
        /\ controle = [t \in Thread |-> VAZIA]
        /\ pc = [t \in Thread |-> "nao"]
        /\ linha = [t \in Thread |-> 0]
        /\ soma = [t \in Thread |-> {}]
        /\ somaLinha = [r \in Linhas |-> {}]

\* The slice of the thread main is about to create.
Fatia == IF i = 0 THEN Primeira(M, numThreads)
         ELSE Seguinte(M, numThreads, fimThreadAnterior)

\* Mutant: the end of the slice is not kept for the next one.
MutCria(ok) ==
  /\ main = "cria" /\ i < numThreads
  /\ controle' = [controle EXCEPT ![i] = Fatia]
  /\ fimThreadAnterior' = Primeira(M, numThreads).fim
  /\ pc' = [pc EXCEPT ![i] = IF ok THEN "soma" ELSE "nao"]
  /\ linha' = [linha EXCEPT ![i] = Fatia.inicio]
  /\ i' = i + 1
  /\ UNCHANGED <<main, soma, somaLinha>>

\* One turn of the creation loop; pthread_create may fail, unnoticed, and the
\* loop goes on.
Cria(ok) ==
  /\ main = "cria" /\ i < numThreads
  /\ controle' = [controle EXCEPT ![i] = Fatia]
  /\ fimThreadAnterior' = Fatia.fim
  /\ pc' = [pc EXCEPT ![i] = IF ok THEN "soma" ELSE "nao"]
  /\ linha' = [linha EXCEPT ![i] = Fatia.inicio]
  /\ i' = i + 1
  /\ UNCHANGED <<main, soma, somaLinha>>

FimDaCriacao == /\ main = "cria" /\ i = numThreads
                /\ main' = "junta"
                /\ i' = 0
                /\ UNCHANGED <<fimThreadAnterior, controle, pc, daThread>>

\* Mutant: the join loop leaves the last thread out.
MutJunta == /\ main = "junta" /\ i < numThreads
            /\ pc[i] = "fim" \/ i = numThreads - 1
            /\ i' = i + 1
            /\ UNCHANGED <<main, fimThreadAnterior, controle, pc, daThread>>

\* pthread_join of thread i.
Junta == /\ main = "junta" /\ i < numThreads
         /\ pc[i] = "fim"
         /\ i' = i + 1
         /\ UNCHANGED <<main, fimThreadAnterior, controle, pc, daThread>>

\* tid[i] was never written: the join returns at once or kills the process.
JuntaSemThread == /\ main = "junta" /\ i < numThreads
                  /\ pc[i] = "nao"
                  /\ \/ i' = i + 1 /\ UNCHANGED main
                     \/ main' = "morto" /\ UNCHANGED i
                  /\ UNCHANGED <<fimThreadAnterior, controle, pc, daThread>>

FimDaJuncao == /\ main = "junta" /\ i = numThreads
               /\ main' = "libera"
               /\ i' = 0
               /\ UNCHANGED <<fimThreadAnterior, controle, pc, daThread>>

\* free(matriz[i]), and matriz and the end after the last.
Libera == /\ main = "libera"
          /\ IF i < M THEN i' = i + 1 /\ UNCHANGED main
                      ELSE main' = "fim" /\ UNCHANGED i
          /\ UNCHANGED <<fimThreadAnterior, controle, pc, daThread>>

ProximaSoma(t) == {}

HaLinha(t) == linha[t] < controle[t].fim

\* somaMatriz: the cells of one row into soma, soma into somaLinha, soma = 0.
SomaUma(t) ==
  /\ pc[t] = "soma" /\ HaLinha(t)
  /\ somaLinha' = [somaLinha EXCEPT ![linha[t]] = soma[t] \cup {linha[t]}]
  /\ soma' = [soma EXCEPT ![t] = ProximaSoma(t)]
  /\ linha' = [linha EXCEPT ![t] = @ + 1]
  /\ UNCHANGED <<main, i, fimThreadAnterior, controle, pc>>

Termina(t) == /\ pc[t] = "soma" /\ ~HaLinha(t)
              /\ pc' = [pc EXCEPT ![t] = "fim"]
              /\ UNCHANGED <<main, i, fimThreadAnterior, controle, daThread>>

\* The end of main, or of the process, is the end of the threads.
Vivo == main \notin {"fim", "morto"}
somaMatriz(t) == Vivo /\ (SomaUma(t) \/ Termina(t))

Main == \/ \E ok \in BOOLEAN : Cria(ok)
        \/ FimDaCriacao \/ Junta \/ JuntaSemThread \/ FimDaJuncao \/ Libera

Next == Main \/ \E t \in Thread : somaMatriz(t)

Spec == Init /\ [][Next]_vars

-----------------------------------------------------------------------------
(* Properties *)

\* How many entries of controle are filled in.
Criadas == IF main = "cria" THEN i ELSE numThreads

\* Type invariant.
TypeOK ==
  /\ main \in {"cria", "junta", "libera", "fim", "morto"}
  /\ i \in 0..M
  /\ main \in {"cria", "junta", "morto"} => i <= numThreads
  /\ fimThreadAnterior \in 0..M
  /\ controle \in [Thread -> [inicio : 0..M, fim : 0..M]]
  /\ pc \in [Thread -> {"nao", "soma", "fim"}]
  /\ linha \in [Thread -> 0..M]
  /\ soma \in [Thread -> SUBSET Linhas]
  /\ somaLinha \in [Linhas -> SUBSET Linhas]

\* The loop of lines 85-92 gives thread t the slice that ends at FimDe(t) and
\* begins where the one before it ends; after the last, no row is left over.
FatiasCertas ==
  /\ \A t \in Thread : t < Criadas =>
       /\ controle[t].fim = FimDe(M, numThreads, t)
       /\ controle[t].inicio = IF t = 0 THEN 0 ELSE FimDe(M, numThreads, t - 1)
  /\ fimThreadAnterior =
       IF Criadas = 0 THEN 0 ELSE FimDe(M, numThreads, Criadas - 1)

\* Two threads never work on one row, so that somaLinha needs no lock.
UmaThreadPorLinha ==
  \A s, t \in Thread : s # t /\ s < Criadas /\ t < Criadas =>
    Elementos(controle[s]) \cap Elementos(controle[t]) = {}

\* A sum is that of its row and of no other, whoever adds it up (20-26).
SomaSoDaLinha == \A r \in Linhas : somaLinha[r] \in {{}, {r}}

\* Rows are freed after the last thread has gone through its slice (94-107):
\* every row of a thread that was created has its sum then, and if no creation
\* failed, every row there is.
LiberaDepoisDeSomar ==
  main \in {"libera", "fim"} =>
    /\ \A t \in Thread : /\ pc[t] # "soma"
                         /\ pc[t] = "fim" => \A r \in Elementos(controle[t]) :
                                               somaLinha[r] = {r}
    /\ (\A t \in Thread : pc[t] # "nao") => \A r \in Linhas : somaLinha[r] = {r}

\* What a thread has done: the rows of its slice before linha.
ThreadCerta(t) == /\ linha[t] \in controle[t].inicio .. controle[t].fim
                  /\ \A r \in controle[t].inicio .. (linha[t] - 1) :
                       somaLinha[r] = {r}
                  /\ pc[t] = "fim" => linha[t] = controle[t].fim

\* Inductive invariant: a thread exists only once main has passed it, and is
\* still adding only while main has not joined it.
IInv == /\ TypeOK
        /\ FatiasCertas
        /\ SomaSoDaLinha
        /\ \A t \in Thread : /\ soma[t] = {}
                             /\ pc[t] # "nao" => ThreadCerta(t)
                             /\ t >= Criadas => pc[t] = "nao"
                             /\ main = "junta" /\ t < i => pc[t] # "soma"
                             /\ main \in {"libera", "fim"} => pc[t] # "soma"
=============================================================================
