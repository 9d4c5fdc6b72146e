----------------------------- MODULE CopiaArquivo -----------------------------
(***************************************************************************)
(* threads/ex3.c: threads that compute, and threads that all copy          *)
(* arqIn.txt over the same arqOut.txt, which each of them truncates when   *)
(* it opens it.  main joins them all.                                      *)
(*                                                                         *)
(* A block is what one flush of a FILE writes, a buffer full or the rest   *)
(* at fclose; every thread has an offset of its own, and writes the blocks *)
(* of arqIn in order at the places that they have there.  Blocks of arqOut *)
(* are "certo" (that block of arqIn), "furo" (zeros, because somebody      *)
(* wrote beyond), "velho" (of an earlier file), "nada" (past the end).     *)
(***************************************************************************)
EXTENDS Integers

CONSTANTS Cpu, MAX,         \* threads below Cpu compute, those below MAX copy
          Blocos            \* how many blocks arqIn has

ASSUME CopiaAssumption == /\ Cpu \in Nat /\ MAX \in Nat /\ Cpu < MAX
                          /\ Blocos \in Nat

VARIABLES
  onde,             \* where main is: "cria", "junta", "fim", or "morto"
  prox,             \* its loop variable i
  passo,            \* thread t: "nao" (not created), "calcula", "abre",
                    \* "copia", "fim"
  gravados,         \* how many blocks thread t has written
  existe,           \* there is an arqIn.txt
  arqOut

Cvars == <<onde, prox, passo, gravados, existe, arqOut>>

Tid == 0..(MAX - 1)
Io == Cpu..(MAX - 1)
Bloco == 1..Blocos
Lugar == 1..(Blocos + 1)    \* an earlier file may have been longer

CInit == /\ onde = "cria"
         /\ prox = 0
         /\ passo = [t \in Tid |-> "nao"]
         /\ gravados = [t \in Tid |-> 0]
         /\ existe \in BOOLEAN
         /\ \E n \in 0..(Blocos + 1) :
              arqOut = [b \in Lugar |-> IF b <= n THEN "velho" ELSE "nada"]

-----------------------------------------------------------------------------
(* main *)

\* One turn of either creation loop; a failure goes unnoticed.
create(ok) == /\ onde = "cria" /\ prox < MAX
              /\ passo' = [passo EXCEPT ![prox] =
                             IF ~ok THEN "nao"
                             ELSE IF prox < Cpu THEN "calcula" ELSE "abre"]
              /\ prox' = prox + 1
              /\ UNCHANGED <<onde, gravados, existe, arqOut>>

FimDosLacos == /\ onde = "cria" /\ prox = MAX
               /\ onde' = "junta"
               /\ prox' = 0
               /\ UNCHANGED <<passo, gravados, existe, arqOut>>

join == /\ onde = "junta" /\ prox < MAX
        /\ passo[prox] = "fim"
        /\ prox' = prox + 1
        /\ UNCHANGED <<onde, passo, gravados, existe, arqOut>>

\* tid[i] was never written: the join returns at once or kills the process.
JoinSemThread == /\ onde = "junta" /\ prox < MAX
                 /\ passo[prox] = "nao"
                 /\ \/ prox' = prox + 1 /\ UNCHANGED onde
                    \/ onde' = "morto" /\ UNCHANGED prox
                 /\ UNCHANGED <<passo, gravados, existe, arqOut>>

Retorna == /\ onde = "junta" /\ prox = MAX
           /\ onde' = "fim"
           /\ UNCHANGED <<prox, passo, gravados, existe, arqOut>>

CMain == create(TRUE) \/ create(FALSE) \/ FimDosLacos \/ join \/ JoinSemThread \/ Retorna

-----------------------------------------------------------------------------
(* The threads, until the end of main *)

Corre == onde \in {"cria", "junta"}

cpuBound(t) == /\ Corre /\ passo[t] = "calcula"
               /\ passo' = [passo EXCEPT ![t] = "fim"]
               /\ UNCHANGED <<onde, prox, gravados, existe, arqOut>>

\* Mutant: arqOut is opened for writing without being truncated.
MutAbre(t) == /\ Corre /\ passo[t] = "abre"
              /\ passo' = [passo EXCEPT ![t] = IF existe THEN "copia" ELSE "fim"]
              /\ UNCHANGED <<onde, prox, gravados, existe, arqOut>>

\* Both fopen: arqOut is truncated, whether or not there is an arqIn.
Abre(t) == /\ Corre /\ passo[t] = "abre"
           /\ passo' = [passo EXCEPT ![t] = IF existe THEN "copia" ELSE "fim"]
           /\ arqOut' = [b \in Lugar |-> "nada"]
           /\ UNCHANGED <<onde, prox, gravados, existe>>

\* The next block, at the offset of this thread.
Copia(t) == /\ Corre /\ passo[t] = "copia" /\ gravados[t] < Blocos
            /\ arqOut' = [b \in Lugar |->
                 IF b = gravados[t] + 1 THEN "certo"
                 ELSE IF b <= gravados[t] /\ arqOut[b] = "nada" THEN "furo"
                 ELSE arqOut[b]]
            /\ gravados' = [gravados EXCEPT ![t] = @ + 1]
            /\ UNCHANGED <<onde, prox, passo, existe>>

Fecha(t) == /\ Corre /\ passo[t] = "copia" /\ gravados[t] = Blocos
            /\ passo' = [passo EXCEPT ![t] = "fim"]
            /\ UNCHANGED <<onde, prox, gravados, existe, arqOut>>

ioBound(t) == Abre(t) \/ Copia(t) \/ Fecha(t)

CNext == CMain \/ \E t \in Tid : cpuBound(t) \/ ioBound(t)

CSpec == CInit /\ [][CNext]_Cvars

-----------------------------------------------------------------------------
(* Properties *)

\* Type invariant.
CTypeOK ==
  /\ onde \in {"cria", "junta", "fim", "morto"}
  /\ prox \in 0..MAX
  /\ passo \in [Tid -> {"nao", "calcula", "abre", "copia", "fim"}]
  /\ gravados \in [Tid -> 0..Blocos]
  /\ existe \in BOOLEAN
  /\ arqOut \in [Lugar -> {"certo", "furo", "velho", "nada"}]

\* However the truncations and the writes of the threads mingle, at the end
\* arqOut is arqIn, if one thread at least was created: no hole is left, no
\* block is missing and nothing of an earlier file remains.
CopiaCerta ==
  (onde = "fim" /\ existe /\ \E t \in Io : passo[t] = "fim") =>
    arqOut = [b \in Lugar |-> IF b \in Bloco THEN "certo" ELSE "nada"]

\* Which threads have opened arqOut.
Abriu(t) == t \in Io /\ passo[t] \in {"copia", "fim"}

\* The invariant behind it: once somebody has opened arqOut there is always a
\* thread all of whose blocks are there, the last one to have truncated it; and
\* nothing lies beyond what arqIn has.
UmaInteira ==
  \A t \in Io : existe /\ Abriu(t) =>
    /\ \E u \in Io : Abriu(u) /\ \A b \in 1..gravados[u] : arqOut[b] = "certo"
    /\ arqOut[Blocos + 1] = "nada"

\* Who has ended has written every block, and main only passes who has ended.
FimCerto ==
  /\ \A t \in Io : existe /\ passo[t] = "fim" => gravados[t] = Blocos
  /\ \A t \in Tid : passo[t] # "copia" /\ passo[t] # "fim" => gravados[t] = 0
  /\ \A t \in Tid : onde = "junta" /\ t < prox => passo[t] \in {"fim", "nao"}
  /\ onde = "fim" => \A t \in Tid : passo[t] \in {"fim", "nao"}
  /\ \A t \in Io : passo[t] # "calcula"
  /\ \A t \in Tid \ Io : passo[t] \notin {"abre", "copia"}
  /\ \A t \in Tid : onde = "cria" /\ t >= prox => passo[t] = "nao"
  /\ ~existe => \A t \in Tid : passo[t] # "copia"

\* The inductive invariant.
CIInv == CTypeOK /\ FimCerto /\ UmaInteira
=============================================================================
