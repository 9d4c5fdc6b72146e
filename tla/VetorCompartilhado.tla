--------------------------- MODULE VetorCompartilhado ---------------------------
(***************************************************************************)
(* pipe&fifo&signal/ex4.c: the parent forks n children, sends each its     *)
(* slice through a pipe of its own, and prints the sum of two vectors that *)
(* the children leave in a System V shared memory segment.                 *)
(*                                                                         *)
(* Segments are numbered in the order of their creation.  The key of the   *)
(* program names one of them or none; every process asks for it with       *)
(* IPC_CREAT.  A segment that was removed stays while a process has it     *)
(* attached.  The content of a segment is the set of the elements whose    *)
(* sum is in it.  A run of the program may find the segment that an        *)
(* earlier run left, of the same size, with sums in it, or smaller.        *)
(***************************************************************************)
EXTENDS Particao

CONSTANTS n, quantElementos,
          Restos            \* what earlier runs may have left: a subset of
                            \* {"nada", "igual", "menor"}

ASSUME ArgumentosAssumption ==
  /\ n \in Nat \ {0} /\ quantElementos \in Nat \ {0}
  /\ Restos \subseteq {"nada", "igual", "menor"}

VARIABLES
  pai,                \* where the parent is: "cria", "shmget", "shmat",
                      \* "espera", "mostra", "solta", "destroi", "fim"
  i,                  \* its loop variable
  fimThreadAnterior,
  filho,              \* where child t is: "nao", "le", "shmget", "shmat",
                      \* "soma", "fim"
  cano,               \* cano[t]: the slices in the pipe of child t
  vet_filho, pos,     \* the slice child t has read, and i of its vecAdd
  chave,              \* the segment the key names, 0 if none
  curto,              \* that segment is too small for this run
  criados,            \* how many segments there have been
  removidos,          \* the segments that were removed (IPC_RMID)
  shmid, anexo,       \* of every process: the segment it asked for, and the
                      \* one it has attached, 0 if none
  dados               \* dados[s]: the elements whose sum is in segment s

segmentos == <<chave, curto, criados, removidos, dados>>
dosFilhos == <<filho, cano, vet_filho, pos>>
vars == <<pai, i, fimThreadAnterior, dosFilhos, segmentos, shmid, anexo>>

Filho == 0..(n - 1)
PAI == n
Processo == 0..n
Indices == 0..(quantElementos - 1)
Segmento == 1..2            \* the parent removes one; the first late child
                            \* makes one more, which nobody removes
NADA == [inicio |-> 0, fim |-> 0]

\* Lines 82-102.
Init == /\ pai = "cria"
        /\ i = 0
        /\ fimThreadAnterior = 0
        /\ filho = [t \in Filho |-> "nao"]
        /\ cano = [t \in Filho |-> {}]
        /\ vet_filho = [t \in Filho |-> NADA]
        /\ pos = [t \in Filho |-> 0]
        /\ \E r \in Restos :
             /\ chave = IF r = "nada" THEN 0 ELSE 1
             /\ curto = (r = "menor")
             /\ \E d \in IF r = "igual" THEN SUBSET Indices ELSE {{}} :
                  dados = [s \in Segmento |-> IF s = 1 THEN d ELSE {}]
        /\ criados = chave
        /\ removidos = {}
        /\ shmid = [p \in Processo |-> 0]
        /\ anexo = [p \in Processo |-> 0]

Fatia == IF i = 0 THEN Primeira(quantElementos, n)
         ELSE Seguinte(quantElementos, n, fimThreadAnterior)

-----------------------------------------------------------------------------
(* Shared memory *)

\* Mutant: IPC_PRIVATE, a segment for every process.
MutShmget(p) == /\ shmid' = [shmid EXCEPT ![p] = criados + 1]
                /\ chave' = criados + 1
                /\ criados' = criados + 1
                /\ UNCHANGED <<curto, removidos, dados>>

\* shmget(key, size, IPC_CREAT) of process p: the segment of the key, or a new
\* one of zeros; it fails if the segment is smaller than what is asked for.
shmget(p) == /\ ~(chave # 0 /\ curto)
             /\ IF chave # 0
                THEN /\ shmid' = [shmid EXCEPT ![p] = chave]
                     /\ UNCHANGED segmentos
                ELSE /\ shmid' = [shmid EXCEPT ![p] = criados + 1]
                     /\ chave' = criados + 1
                     /\ criados' = criados + 1
                     /\ UNCHANGED <<curto, removidos, dados>>

shmgetFalha == chave # 0 /\ curto

\* Whether the segment s is still there: it was not removed, or it was while
\* a process had it attached, and one still has.
Existe(s) == s \notin removidos \/ \E p \in Processo : anexo[p] = s

shmat(p) == /\ Existe(shmid[p])
            /\ anexo' = [anexo EXCEPT ![p] = shmid[p]]
            /\ UNCHANGED <<segmentos, shmid>>

-----------------------------------------------------------------------------
(* The parent *)

\* Mutants: the end of the slice is not kept for the next one; the write is
\* inside the "if" of the line before it, which the first child does not enter.
MutCria ==
  /\ pai = "cria" /\ i < n
  /\ fimThreadAnterior' = Primeira(quantElementos, n).fim
  /\ cano' = [cano EXCEPT ![i] = {Fatia}]
  /\ filho' = [filho EXCEPT ![i] = "le"]
  /\ i' = i + 1
  /\ UNCHANGED <<pai, vet_filho, pos, segmentos, shmid, anexo>>

MutCriaDentroDoIf ==
  /\ pai = "cria" /\ i < n
  /\ fimThreadAnterior' = Fatia.fim
  /\ cano' = [cano EXCEPT ![i] = IF i >= 1 THEN {Fatia} ELSE {}]
  /\ filho' = [filho EXCEPT ![i] = "le"]
  /\ i' = i + 1
  /\ UNCHANGED <<pai, vet_filho, pos, segmentos, shmid, anexo>>

\* One turn of the loop: fork, the slice into the pipe of the child.
Cria ==
  /\ pai = "cria" /\ i < n
  /\ fimThreadAnterior' = Fatia.fim
  /\ cano' = [cano EXCEPT ![i] = {Fatia}]
  /\ filho' = [filho EXCEPT ![i] = "le"]
  /\ i' = i + 1
  /\ UNCHANGED <<pai, vet_filho, pos, segmentos, shmid, anexo>>

\* fork fails: exit(1), the children there are go on.
CriaFalha == /\ pai = "cria" /\ i < n
             /\ pai' = "fim"
             /\ UNCHANGED <<i, fimThreadAnterior, dosFilhos, segmentos, shmid, anexo>>

FimDaCriacao == /\ pai = "cria" /\ i = n
                /\ pai' = "shmget"
                /\ UNCHANGED <<i, fimThreadAnterior, dosFilhos, segmentos, shmid, anexo>>

PaiShmget == /\ pai = "shmget"
             /\ \/ shmget(PAI) /\ pai' = "shmat"
                \/ shmgetFalha /\ pai' = "fim" /\ UNCHANGED <<segmentos, shmid>>
             /\ UNCHANGED <<i, fimThreadAnterior, dosFilhos, anexo>>

PaiShmat == /\ pai = "shmat"
            /\ shmat(PAI)
            /\ pai' = "espera"
            /\ UNCHANGED <<i, fimThreadAnterior, dosFilhos>>

\* Mutant: waitpid with WNOHANG, which does not wait.
MutEspera == /\ pai = "espera"
             /\ pai' = "mostra"
             /\ UNCHANGED <<i, fimThreadAnterior, dosFilhos, segmentos, shmid, anexo>>

\* waitpid(-1) returns as soon as one child has ended.
Espera == /\ pai = "espera"
          /\ \E t \in Filho : filho[t] = "fim"
          /\ pai' = "mostra"
          /\ UNCHANGED <<i, fimThreadAnterior, dosFilhos, segmentos, shmid, anexo>>

\* The loop that prints.
Mostra == /\ pai = "mostra"
          /\ pai' = "solta"
          /\ UNCHANGED <<i, fimThreadAnterior, dosFilhos, segmentos, shmid, anexo>>

\* shmdt.
Solta == /\ pai = "solta"
         /\ anexo' = [anexo EXCEPT ![PAI] = 0]
         /\ pai' = "destroi"
         /\ UNCHANGED <<i, fimThreadAnterior, dosFilhos, segmentos, shmid>>

\* IPC_RMID: the key is free again.
Destroi == /\ pai = "destroi"
           /\ removidos' = removidos \cup {shmid[PAI]}
           /\ chave' = 0
           /\ pai' = "fim"
           /\ UNCHANGED <<i, fimThreadAnterior, dosFilhos, curto, criados, dados,
                          shmid, anexo>>

Pai == \/ Cria \/ CriaFalha \/ FimDaCriacao \/ PaiShmget \/ PaiShmat
       \/ Espera \/ Mostra \/ Solta \/ Destroi

-----------------------------------------------------------------------------
(* A child *)

\* Lines 134-136.
Le(t) == /\ filho[t] = "le"
         /\ \E f \in cano[t] :
              /\ vet_filho' = [vet_filho EXCEPT ![t] = f]
              /\ pos' = [pos EXCEPT ![t] = f.inicio]
         /\ cano' = [cano EXCEPT ![t] = {}]
         /\ filho' = [filho EXCEPT ![t] = "shmget"]
         /\ UNCHANGED <<pai, i, fimThreadAnterior, segmentos, shmid, anexo>>

FilhoShmget(t) ==
  /\ filho[t] = "shmget"
  /\ \/ shmget(t) /\ filho' = [filho EXCEPT ![t] = "shmat"]
     \/ /\ shmgetFalha
        /\ filho' = [filho EXCEPT ![t] = "fim"]
        /\ UNCHANGED <<segmentos, shmid>>
  /\ UNCHANGED <<pai, i, fimThreadAnterior, cano, vet_filho, pos, anexo>>

\* shmat, which fails if the segment has been removed meanwhile: exit(1).
FilhoShmat(t) ==
  /\ filho[t] = "shmat"
  /\ \/ shmat(t) /\ filho' = [filho EXCEPT ![t] = "soma"]
     \/ /\ ~Existe(shmid[t])
        /\ filho' = [filho EXCEPT ![t] = "fim"]
        /\ UNCHANGED <<segmentos, shmid, anexo>>
  /\ UNCHANGED <<pai, i, fimThreadAnterior, cano, vet_filho, pos>>

HaElemento(t) == pos[t] < vet_filho[t].fim

\* vecAdd, one element.
Soma(t) == /\ filho[t] = "soma" /\ HaElemento(t)
           /\ dados' = [dados EXCEPT ![anexo[t]] = @ \cup {pos[t]}]
           /\ pos' = [pos EXCEPT ![t] = @ + 1]
           /\ UNCHANGED <<pai, i, fimThreadAnterior, filho, cano, vet_filho,
                          chave, curto, criados, removidos, shmid, anexo>>

\* shmdt and the end of the child.
FilhoSolta(t) == /\ filho[t] = "soma" /\ ~HaElemento(t)
                 /\ filho' = [filho EXCEPT ![t] = "fim"]
                 /\ anexo' = [anexo EXCEPT ![t] = 0]
                 /\ UNCHANGED <<pai, i, fimThreadAnterior, cano, vet_filho, pos,
                                segmentos, shmid>>

UmFilho(t) == Le(t) \/ FilhoShmget(t) \/ FilhoShmat(t) \/ Soma(t) \/ FilhoSolta(t)

Next == Pai \/ \E t \in Filho : UmFilho(t)

\* The scheduler runs every process.
Spec == /\ Init /\ [][Next]_vars
        /\ WF_vars(Pai) /\ \A t \in Filho : WF_vars(UmFilho(t))

-----------------------------------------------------------------------------
(* Properties *)

\* Each child works on the slice that is its own by the reference, although
\* the parent computes the slices one by one while children already run.
RecebeSua ==
  \A t \in Filho : filho[t] \notin {"nao", "le"} =>
    /\ vet_filho[t].fim = FimDe(quantElementos, n, t)
    /\ vet_filho[t].inicio = IF t = 0 THEN 0 ELSE FimDe(quantElementos, n, t - 1)

\* As long as the parent has not removed its segment, all the processes share
\* one, whoever of them created it (139 and 162).
MesmoSegmento ==
  removidos = {} =>
    \A p, q \in Processo : shmid[p] # 0 /\ shmid[q] # 0 => shmid[p] = shmid[q]

\* When the parent prints, at least one child has left the whole of its slice
\* in the segment that the parent has attached: with one child, the result.
UmPronto ==
  pai \in {"mostra", "solta"} =>
    /\ anexo[PAI] # 0
    /\ \E t \in Filho : /\ filho[t] = "fim"
                        /\ Elementos(vet_filho[t]) \subseteq dados[anexo[PAI]]

\* The invariant behind the three.  Types:
TypeOK ==
  /\ pai \in {"cria", "shmget", "shmat", "espera", "mostra", "solta", "destroi", "fim"}
  /\ i \in 0..n /\ fimThreadAnterior \in Int
  /\ filho \in [Filho -> {"nao", "le", "shmget", "shmat", "soma", "fim"}]
  /\ cano \in [Filho -> SUBSET [inicio : Int, fim : Int]]
  /\ vet_filho \in [Filho -> [inicio : Int, fim : Int]]
  /\ pos \in [Filho -> Int]
  /\ chave \in 0..2 /\ curto \in BOOLEAN /\ criados \in 0..2
  /\ removidos \in SUBSET Segmento
  /\ shmid \in [Processo -> 0..2] /\ anexo \in [Processo -> 0..2]
  /\ dados \in [Segmento -> SUBSET Int]

\* every slice on its way to a child is its own;
Sua(t, f) == /\ f.fim = FimDe(quantElementos, n, t)
             /\ f.inicio = IF t = 0 THEN 0 ELSE FimDe(quantElementos, n, t - 1)
FatiasCertas ==
  /\ fimThreadAnterior = IF i = 0 THEN 0 ELSE FimDe(quantElementos, n, i - 1)
  /\ \A t \in Filho : \A f \in cano[t] : Sua(t, f)
  /\ RecebeSua

\* until the parent removes it there is one segment at most, and it is the one
\* of all who have asked; after that there may be one more; and a segment that
\* is too small is nobody's and stays;
UmSegmento ==
  /\ IF removidos = {} THEN chave \in {0, 1} /\ criados = chave
     ELSE <<chave, criados>> \in {<<0, 1>>, <<2, 2>>} /\ pai = "fim"
  /\ removidos = {} => \A p \in Processo : shmid[p] \in {0, chave}
  /\ curto => /\ chave # 0 /\ removidos = {}
              /\ \A p \in Processo : shmid[p] = 0

\* and the sums that a child has done are in the segment it has attached, the
\* whole of its slice when it has ended with a segment.
SomasFeitas ==
  /\ pai \in {"shmat", "espera", "mostra", "solta", "destroi"} => shmid[PAI] # 0
  /\ pai \in {"espera", "mostra", "solta"} => anexo[PAI] = shmid[PAI]
  /\ pai \in {"mostra", "solta"} => \E t \in Filho : filho[t] = "fim"
  /\ \A t \in Filho :
       /\ filho[t] \in {"shmget", "shmat"} => pos[t] = vet_filho[t].inicio
       /\ filho[t] \in {"shmat", "soma"} => shmid[t] # 0
       /\ filho[t] = "soma" => /\ anexo[t] = shmid[t]
                               /\ vet_filho[t].inicio..(pos[t] - 1) \subseteq dados[anexo[t]]
       /\ filho[t] = "fim" /\ removidos = {} /\ ~curto =>
            shmid[t] # 0 /\ Elementos(vet_filho[t]) \subseteq dados[shmid[t]]

IInv == TypeOK /\ FatiasCertas /\ UmSegmento /\ SomasFeitas

\* Parent and children all end, also when fork, shmget or shmat fails.
Acaba == <>(pai = "fim" /\ \A t \in Filho : filho[t] \in {"nao", "fim"})

\* Line 173: the parent waits for all its children ("Espera todos os filhos").
PaiEsperaTodos ==
  pai \in {"mostra", "solta", "destroi"} => \A t \in Filho : filho[t] = "fim"

\* Line 187: the segment is destroyed, after the end of the children.
NadaResta ==
  (pai = "fim" /\ removidos # {} /\ \A t \in Filho : filho[t] = "fim") => chave = 0
=============================================================================
