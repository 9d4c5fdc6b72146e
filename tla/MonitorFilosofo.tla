-------------------------- MODULE MonitorFilosofo --------------------------
(***************************************************************************)
(* IPC/monitor_filosofo.c: n philosopher threads, a fork array guarded by  *)
(* one mutex and one condition variable per philosopher.  Only philosopher *)
(* id waits on cond[id], so a condition variable is no more than the fact  *)
(* that its philosopher sleeps: lugar[id] = "dorme".                       *)
(*                                                                         *)
(* Everything between a lock and the next unlock or wait is seen by nobody *)
(* else, so the assignments of such a stretch that follow each other with  *)
(* no test or signal between them are one action.  print_filosofos writes  *)
(* nothing and is left out.                                                *)
(***************************************************************************)
EXTENDS Integers, IPC

CONSTANT n      \* number of philosophers, argv[1]

ASSUME nAssumption == n \in Nat \ {0}

\* mutex is the thread that holds it, or NINGUEM.
VARIABLES
  philosopher,  \* the array of states
  forks,        \* the array of forks
  lugar         \* lugar[id]: the next statement of thread id

Mvars == <<philosopher, forks, mutex, i, lugar>>

Id == 0..n-1

NINGUEM == -1

left(id) == id

right(id) == (1 + id) % n

MInit == /\ philosopher = [id \in Id |-> "THINKING"]
         /\ forks = [f \in Id |-> "FREE"]
         /\ mutex = NINGUEM
         /\ i = 0
         /\ lugar = [id \in Id |-> "nao_criado"]

-----------------------------------------------------------------------------
(* main: pthread_cond_init and pthread_create for each i in turn.  Nobody   *)
(* can sleep on cond[i] before it is initialised, so the init changes       *)
(* nothing; a creation that fails is not noticed.                           *)

CriaThread == /\ i < n
              /\ lugar' = [lugar EXCEPT ![i] = "pensando"]
              /\ i' = i + 1
              /\ UNCHANGED <<philosopher, forks, mutex>>

NaoCria == /\ i < n
           /\ i' = i + 1
           /\ UNCHANGED <<philosopher, forks, mutex, lugar>>

-----------------------------------------------------------------------------
(* acao_filosofo: thread id goes from the statement named de to para *)

Passa(id, de, para) == /\ lugar[id] = de
                       /\ lugar' = [lugar EXCEPT ![id] = para]

lock(id) == mutex = NINGUEM /\ mutex' = id

unlock == mutex' = NINGUEM

\* pthread_cond_signal(&cond[k]), the rest of the step being s going on to para.
signal(k, s, para) ==
  lugar' = [lugar EXCEPT ![s] = para, ![k] = IF @ = "dorme" THEN "acordado" ELSE @]

-----------------------------------------------------------------------------
(* pegar_garfos; the sleep of pensando() is the time before Tranca *)

Tranca(id) == /\ Passa(id, "pensando", "faminto")
              /\ lock(id)
              /\ UNCHANGED <<philosopher, forks, i>>

\* philosopher[id] = HUNGRY
FicaFaminto(id) == /\ Passa(id, "faminto", "verifica")
                   /\ philosopher' = [philosopher EXCEPT ![id] = "HUNGRY"]
                   /\ UNCHANGED <<forks, mutex, i>>

\* Mutant: only the left fork is looked at.
MutGarfosLivres(id) == forks[left(id)] = "FREE"

\* The condition of the while, negated.
GarfosLivres(id) == forks[left(id)] = "FREE" /\ forks[right(id)] = "FREE"

\* pthread_cond_wait gives the mutex back and sleeps, in one step.
Dorme(id) == /\ Passa(id, "verifica", "dorme")
             /\ ~GarfosLivres(id)
             /\ unlock
             /\ UNCHANGED <<philosopher, forks, i>>

\* A wait may also return without a signal.
Espurio(id) == /\ Passa(id, "dorme", "acordado")
               /\ UNCHANGED <<philosopher, forks, mutex, i>>

\* The woken thread takes the mutex again and goes back to the while.
Retoma(id) == /\ Passa(id, "acordado", "verifica")
              /\ lock(id)
              /\ UNCHANGED <<philosopher, forks, i>>

SaiDoWhile(id) == /\ Passa(id, "verifica", "pega")
                  /\ GarfosLivres(id)
                  /\ UNCHANGED <<philosopher, forks, mutex, i>>

\* philosopher[id] = EATING and the two forks IN_USE
Pega(id) == /\ Passa(id, "pega", "solta")
            /\ philosopher' = [philosopher EXCEPT ![id] = "EATING"]
            /\ forks' = [forks EXCEPT ![left(id)] = "IN_USE", ![right(id)] = "IN_USE"]
            /\ UNCHANGED <<mutex, i>>

Solta(id) == /\ Passa(id, "solta", "comendo")
             /\ unlock
             /\ UNCHANGED <<philosopher, forks, i>>

-----------------------------------------------------------------------------
(* por_garfo; the sleep of comendo() is the time before TrancaPor *)

TrancaPor(id) == /\ Passa(id, "comendo", "devolve")
                 /\ lock(id)
                 /\ UNCHANGED <<philosopher, forks, i>>

\* Mutant: the right fork is not put back.
MutLargaGarfos(id) == /\ Passa(id, "devolve", "sinal_left")
                      /\ forks' = [forks EXCEPT ![left(id)] = "FREE"]
                      /\ philosopher' = [philosopher EXCEPT ![id] = "THINKING"]
                      /\ UNCHANGED <<mutex, i>>

\* The two forks FREE and philosopher[id] = THINKING
LargaGarfos(id) == /\ Passa(id, "devolve", "sinal_left")
                   /\ forks' = [forks EXCEPT ![left(id)] = "FREE", ![right(id)] = "FREE"]
                   /\ philosopher' = [philosopher EXCEPT ![id] = "THINKING"]
                   /\ UNCHANGED <<mutex, i>>

\* pthread_cond_signal(&cond[left])
SinalLeft(id) == /\ lugar[id] = "sinal_left"
                 /\ signal(left(id), id, "sinal_right")
                 /\ UNCHANGED <<philosopher, forks, mutex, i>>

\* pthread_cond_signal(&cond[right])
SinalRight(id) == /\ lugar[id] = "sinal_right"
                  /\ signal(right(id), id, "solta_por")
                  /\ UNCHANGED <<philosopher, forks, mutex, i>>

SoltaPor(id) == /\ Passa(id, "solta_por", "pensando")
                /\ unlock
                /\ UNCHANGED <<philosopher, forks, i>>

-----------------------------------------------------------------------------

MMain == CriaThread \/ NaoCria

acao_filosofo(id) == \/ Tranca(id) \/ FicaFaminto(id) \/ Dorme(id) \/ Retoma(id) \/ SaiDoWhile(id)
                     \/ Pega(id) \/ Solta(id) \/ TrancaPor(id) \/ LargaGarfos(id)
                     \/ SinalLeft(id) \/ SinalRight(id) \/ SoltaPor(id)

MNext == MMain \/ \E id \in Id : acao_filosofo(id) \/ Espurio(id)

MSpec == MInit /\ [][MNext]_Mvars

\* main and every thread keep being scheduled and every sleep() ends.  A wait
\* need not ever end without a signal, and nothing is assumed of the order in
\* which the mutex goes to those who want it.
MFairness == WF_Mvars(MMain) /\ \A id \in Id : WF_Mvars(acao_filosofo(id))

MFairSpec == MSpec /\ MFairness

-----------------------------------------------------------------------------
(* Properties *)

ComOMutex == {"faminto", "verifica", "pega", "solta", "devolve", "sinal_left",
                    "sinal_right", "solta_por"}

\* Type invariant: every fork has one state, and the mutex one owner.
MTypeOK ==
  /\ philosopher \in [Id -> {"THINKING", "HUNGRY", "EATING"}]
  /\ forks \in [Id -> {"FREE", "IN_USE"}]
  /\ mutex \in Id \cup {NINGUEM}
  /\ i \in 0..n
  /\ lugar \in [Id -> ComOMutex \cup
                           {"nao_criado", "pensando", "dorme", "acordado", "comendo"}]

\* A thread is inside a critical section just when it holds the mutex.
MMutexCerto == \A id \in Id : lugar[id] \in ComOMutex <=> mutex = id

\* A fork is IN_USE just when a philosopher beside it is EATING, and of the two
\* beside it never both: no fork is lost or shared, however the waits, wake-ups
\* and failed creations fall (lines 43-49 and 60-63).
GarfosCertos ==
  /\ \A f \in Id :
       forks[f] = "IN_USE" <=>
         \E id \in Id : philosopher[id] = "EATING" /\ f \in {left(id), right(id)}
  /\ \A id, k \in Id :
       /\ id # k
       /\ philosopher[id] = "EATING" /\ philosopher[k] = "EATING"
       => {left(id), right(id)} \cap {left(k), right(k)} = {}

\* The state word says where the thread is.
EstadoCerto ==
  \A id \in Id :
    /\ philosopher[id] = "HUNGRY" <=> lugar[id] \in {"verifica", "dorme", "acordado", "pega"}
    /\ philosopher[id] = "EATING" <=> lugar[id] \in {"solta", "comendo", "devolve"}

\* Between the while and the taking of the forks nobody takes them away.
PegaLivres == \A id \in Id : lugar[id] = "pega" => GarfosLivres(id)

\* main has not yet reached the threads from i on.
MMainCerto == \A id \in Id : id >= i => lugar[id] = "nao_criado"

MIInv == /\ MTypeOK
         /\ MMutexCerto
         /\ GarfosCertos
         /\ EstadoCerto
         /\ PegaLivres
         /\ MMainCerto

\* The comment of por_garfo (line 64): it wakes the philosophers on the left
\* and on the right.  When it is about to unlock the mutex neither sleeps.
AcordaVizinhos ==
  \A id, k \in Id :
    lugar[id] = "solta_por" /\ (k = right(id) \/ id = right(k)) => lugar[k] # "dorme"

\* The wait is never everybody's: as long as some thread was created, one of
\* them is not asleep, although a left neighbour is never woken.
NemTodosDormem ==
  (\E id \in Id : lugar[id] # "nao_criado") =>
    \E id \in Id : lugar[id] \notin {"nao_criado", "dorme"}

\* The dining table of Jantar, read off the state array.
Mesa == INSTANCE Jantar WITH N <- n, estado <- philosopher

\* The state words change only as the abstract table Jantar allows.
EUmJantar == Mesa!Spec

Criados == {id \in Id : lugar[id] # "nao_criado"}

\* Somebody keeps eating: the signals that are sent are enough to keep the
\* table going, as long as a thread was created.
SempreAlguemCome == []<>(Criados = {} \/ \E id \in Id : philosopher[id] = "EATING")
=============================================================================
