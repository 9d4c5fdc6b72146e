-------------------------- MODULE SemaforoFilosofo --------------------------
(***************************************************************************)
(* IPC/semaforo_filosofo.c: N philosopher threads, one state word each,    *)
(* a binary semaphore mutex around the state array and one semaphore per   *)
(* philosopher on which he sleeps until his forks are granted.             *)
(*                                                                         *)
(* main hands every thread the ADDRESS of its own loop variable (line      *)
(* 134), so a thread learns its number by reading main's i at whatever     *)
(* moment it first runs: the number may be the next thread's, may be N     *)
(* (the loop has ended) or 0 (the join loop has begun).  The model keeps   *)
(* that race: ident[t] is what thread t read.                              *)
(*                                                                         *)
(* A thread that reads N works on the words just past the two malloc'ed    *)
(* arrays.  They are in the program's heap, nobody else's LEFT or RIGHT    *)
(* names them and nothing frees them, so they are modelled as one more     *)
(* cell, fresh (zero) like the rest of a new heap; that the process dies   *)
(* of such an access is the other outcome (ForaDosVetores).                *)
(***************************************************************************)
EXTENDS Integers, IPC

CONSTANT N      \* number of philosophers, argv[1]

ASSUME NAssumption == N \in Nat \ {0}

\* mutex is the value of the semaphore; every thread reads main's i.
VARIABLES
  filosofos,    \* the array of states
  sem_fil,      \* value of each philosopher's semaphore
  ident,        \* ident[t]: the local i of thread t
  pc,           \* pc[t]: the next statement of thread t
  main_pc       \* what main is about to do

vars == <<filosofos, mutex, sem_fil, i, ident, pc, main_pc>>

Filosofo == 0..N-1

Celula == 0..N  \* what an index can name: the N cells and the one past them

LEFT(k) == (k + N - 1) % N

RIGHT(k) == (k + 1) % N

Init == /\ filosofos = [k \in Celula |-> "THINKING"]
        /\ mutex = 1
        /\ sem_fil = [k \in Celula |-> 0]
        /\ i = 0
        /\ ident = [t \in Filosofo |-> 0]
        /\ pc = [t \in Filosofo |-> "nao_criado"]
        /\ main_pc = "cria"

-----------------------------------------------------------------------------
(* main *)

\* pthread_create(&thread[i], NULL, acao_filosofo, &i) succeeds.
Cria == /\ main_pc = "cria"
        /\ i < N
        /\ pc' = [pc EXCEPT ![i] = "le_i"]
        /\ main_pc' = "incrementa"
        /\ UNCHANGED <<filosofos, mutex, sem_fil, i, ident>>

\* The i++ of the creation loop.
Incrementa == /\ main_pc = "incrementa"
              /\ i' = i + 1
              /\ main_pc' = "cria"
              /\ UNCHANGED <<filosofos, mutex, sem_fil, ident, pc>>

\* The creation loop is over: the join loop starts again at i = 0 and stays at
\* its first pthread_join for ever, as no philosopher returns.
ComecaJoin == /\ main_pc = "cria"
              /\ i = N
              /\ i' = 0
              /\ main_pc' = "join"
              /\ UNCHANGED <<filosofos, mutex, sem_fil, ident, pc>>

\* pthread_create fails: exit(EXIT_FAILURE) ends main and every thread.
CriaFalha == /\ main_pc = "cria"
             /\ i < N
             /\ main_pc' = "exit"
             /\ UNCHANGED <<filosofos, mutex, sem_fil, i, ident, pc>>

Vivo == main_pc # "exit"

\* A thread whose number is not one of the N kills the process on one of its
\* accesses past the arrays.
ForaDosVetores(t) == /\ Vivo
                     /\ ident[t] \notin Filosofo
                     /\ pc[t] \notin {"nao_criado", "le_i", "pensando", "comendo"}
                     /\ main_pc' = "exit"
                     /\ UNCHANGED <<filosofos, mutex, sem_fil, i, ident, pc>>

-----------------------------------------------------------------------------
(* acao_filosofo: thread t goes from the statement named de to para *)

Vai(t, de, para) == /\ Vivo
                    /\ pc[t] = de
                    /\ pc' = [pc EXCEPT ![t] = para]

\* int i = *(int * )j;
LeI(t) == /\ Vai(t, "le_i", "pensando")
          /\ ident' = [ident EXCEPT ![t] = i]
          /\ UNCHANGED <<filosofos, mutex, sem_fil, i, main_pc>>

\* Mutant: the right neighbour is not looked at.
MutPodeComerSemRight(k) == /\ filosofos[k] = "HUNGRY"
                           /\ filosofos[LEFT(k)] # "EATING"

\* Mutant: a philosopher who is not hungry may be granted his forks.
MutPodeComerSemFome(k) == /\ filosofos[LEFT(k)] # "EATING"
                          /\ filosofos[RIGHT(k)] # "EATING"

\* The guard of test(k).
PodeComer(k) == /\ filosofos[k] = "HUNGRY"
                /\ filosofos[LEFT(k)] # "EATING"
                /\ filosofos[RIGHT(k)] # "EATING"

\* Mutant: test grants the forks but does not post the semaphore.
MutTestSemPost(k) == /\ filosofos' = IF PodeComer(k)
                                       THEN [filosofos EXCEPT ![k] = "EATING"]
                                       ELSE filosofos
                     /\ UNCHANGED sem_fil

test(k) == IF PodeComer(k)
             THEN /\ filosofos' = [filosofos EXCEPT ![k] = "EATING"]
                  /\ sem_fil' = [sem_fil EXCEPT ![k] = @ + 1]
             ELSE UNCHANGED <<filosofos, sem_fil>>

\* sem_wait(&mutex) and sem_post(&mutex), at the two places each is called.
EsperaMutex(t, de, para) == /\ Vai(t, de, para)
                            /\ mutex > 0
                            /\ mutex' = mutex - 1
                            /\ UNCHANGED <<filosofos, sem_fil, i, ident, main_pc>>

SoltaMutex(t, de, para) == /\ Vai(t, de, para)
                           /\ mutex' = mutex + 1
                           /\ UNCHANGED <<filosofos, sem_fil, i, ident, main_pc>>

-----------------------------------------------------------------------------
(* pegar_garfo; the sleep of pensando() is the time before PegaMutex *)

PegaMutex(t) == EsperaMutex(t, "pensando", "faminto")

\* filosofos[i] = HUNGRY
Faminto(t) == /\ Vai(t, "faminto", "testa")
              /\ filosofos' = [filosofos EXCEPT ![ident[t]] = "HUNGRY"]
              /\ UNCHANGED <<mutex, sem_fil, i, ident, main_pc>>

\* test(i)
Testa(t) == /\ Vai(t, "testa", "libera")
            /\ test(ident[t])
            /\ UNCHANGED <<mutex, i, ident, main_pc>>

Libera(t) == SoltaMutex(t, "libera", "espera")

\* sem_wait(&sem_fil[i])
Espera(t) == /\ Vai(t, "espera", "comendo")
             /\ sem_fil[ident[t]] > 0
             /\ sem_fil' = [sem_fil EXCEPT ![ident[t]] = @ - 1]
             /\ UNCHANGED <<filosofos, mutex, i, ident, main_pc>>

-----------------------------------------------------------------------------
(* por_garfo; the sleep of comendo() is the time before PegaMutexPor *)

PegaMutexPor(t) == EsperaMutex(t, "comendo", "devolve")

\* filosofos[i] = THINKING
Devolve(t) == /\ Vai(t, "devolve", "testa_left")
              /\ filosofos' = [filosofos EXCEPT ![ident[t]] = "THINKING"]
              /\ UNCHANGED <<mutex, sem_fil, i, ident, main_pc>>

\* test(LEFT)
TestaLeft(t) == /\ Vai(t, "testa_left", "testa_right")
                /\ test(LEFT(ident[t]))
                /\ UNCHANGED <<mutex, i, ident, main_pc>>

\* Mutant: por_garfo does not test the right neighbour.
MutTestaRight(t) == /\ Vai(t, "testa_right", "libera_por")
                    /\ test(ident[t])
                    /\ UNCHANGED <<mutex, i, ident, main_pc>>

\* test(RIGHT)
TestaRight(t) == /\ Vai(t, "testa_right", "libera_por")
                 /\ test(RIGHT(ident[t]))
                 /\ UNCHANGED <<mutex, i, ident, main_pc>>

LiberaPor(t) == SoltaMutex(t, "libera_por", "pensando")

-----------------------------------------------------------------------------

Main == Cria \/ Incrementa \/ ComecaJoin

Passo(t) == \/ LeI(t) \/ PegaMutex(t) \/ Faminto(t) \/ Testa(t) \/ Libera(t)
            \/ Espera(t) \/ PegaMutexPor(t) \/ Devolve(t) \/ TestaLeft(t)
            \/ TestaRight(t) \/ LiberaPor(t)

Next == \/ Main
        \/ CriaFalha
        \/ \E t \in Filosofo : Passo(t) \/ ForaDosVetores(t)

Spec == Init /\ [][Next]_vars

\* main and every thread keep being scheduled and every sleep() ends.  Nothing
\* is assumed of the order in which a semaphore wakes its sleepers.
Fairness == WF_vars(Main) /\ \A t \in Filosofo : WF_vars(Passo(t))

FairSpec == Spec /\ Fairness

-----------------------------------------------------------------------------

Iniciados == {t \in Filosofo : pc[t] \notin {"nao_criado", "le_i"}}

\* The race on i was harmless so far: no thread works past the arrays and no
\* two threads sit at the same place.
IdentidadesDistintas ==
  /\ \A t \in Iniciados : ident[t] \in Filosofo
  /\ \A s, t \in Iniciados : ident[s] = ident[t] => s = t

-----------------------------------------------------------------------------
(* Properties *)

Estado == {"THINKING", "HUNGRY", "EATING"}

NaRegiaoCritica == {"faminto", "testa", "libera", "devolve", "testa_left",
                    "testa_right", "libera_por"}

\* The states of the program's variables.  The semaphore mutex is binary: no
\* path posts it without having waited on it (lines 47-68).
TypeOK ==
  /\ filosofos \in [Celula -> Estado]
  /\ mutex \in {0, 1}
  /\ sem_fil \in [Celula -> Nat]
  /\ i \in 0..N
  /\ ident \in [Filosofo -> Celula]
  /\ pc \in [Filosofo -> NaRegiaoCritica \cup
                        {"nao_criado", "le_i", "pensando", "espera", "comendo"}]
  /\ main_pc \in {"cria", "incrementa", "join", "exit"}

\* t holds the two forks at its place: it returned from pegar_garfo and has
\* not yet said THINKING again.
Come(t) == pc[t] \in {"comendo", "devolve"}

CompartilhamGarfo(k, l) == k = l \/ l = LEFT(k) \/ l = RIGHT(k)

\* The comment of pegar_garfo (lines 44-46): the mutex and sem_fil keep a
\* philosopher from eating while one he shares a fork with is eating.
NinguemDivideGarfo ==
  \A s, t \in Filosofo :
    s # t /\ Come(s) /\ Come(t) => ~CompartilhamGarfo(ident[s], ident[t])

\* The promise of lines 44-46 as the code keeps it: as long as every thread
\* read a number of its own, no two threads that eat share a fork.
GarfosExclusivos == IdentidadesDistintas => NinguemDivideGarfo

\* The state array never shows two neighbours EATING, whatever numbers the
\* threads read: every EATING is written by test under the mutex (lines 34-42).
VetorExclui ==
  \A k \in Filosofo :
    RIGHT(k) # k => ~(filosofos[k] = "EATING" /\ filosofos[RIGHT(k)] = "EATING")

\* No wake-up is lost: with the mutex free, a philosopher who is still HUNGRY
\* has a neighbour who is eating and who will therefore test him in por_garfo
\* (lines 65-66).
FomeJustificada ==
  mutex = 1 =>
    \A k \in Filosofo :
      filosofos[k] = "HUNGRY" =>
        filosofos[LEFT(k)] = "EATING" \/ filosofos[RIGHT(k)] = "EATING"

\* The two arrays and the semaphores agree with where each thread is: the
\* sem_post of test is consumed by the philosopher it was meant for, once.
LugarDe(t) ==
  LET k == ident[t] IN
  CASE pc[t] \in {"pensando", "faminto", "testa_left", "testa_right", "libera_por"} ->
         filosofos[k] = "THINKING" /\ sem_fil[k] = 0
    [] pc[t] = "testa" ->
         filosofos[k] = "HUNGRY" /\ sem_fil[k] = 0
    [] pc[t] \in {"libera", "espera"} ->
         \/ filosofos[k] = "HUNGRY" /\ sem_fil[k] = 0
         \/ filosofos[k] = "EATING" /\ sem_fil[k] = 1
    [] OTHER ->
         filosofos[k] = "EATING" /\ sem_fil[k] = 0

LugarVazio(k) == filosofos[k] = "THINKING" /\ sem_fil[k] = 0

Lugares ==
  /\ \A t \in Iniciados : LugarDe(t)
  /\ \A k \in Celula : (\A t \in Iniciados : ident[t] # k) => LugarVazio(k)

\* Either everybody knows his own number and the arrays say of each place what
\* its philosopher is doing, or the race on i has been lost.
LugaresCertos == IdentidadesDistintas => Lugares

\* The mutex is held by exactly one thread of the critical sections, or free.
MutexCerto ==
  /\ mutex = 1 <=> \A t \in Filosofo : pc[t] \notin NaRegiaoCritica
  /\ \A s, t \in Filosofo :
       pc[s] \in NaRegiaoCritica /\ pc[t] \in NaRegiaoCritica => s = t

\* main creates its threads in order of their index, once each.
MainCerto ==
  /\ main_pc = "cria" => \A t \in Filosofo : t >= i => pc[t] = "nao_criado"
  /\ main_pc = "incrementa" =>
       i < N /\ \A t \in Filosofo : t > i => pc[t] = "nao_criado"

\* Thread t has still to test place k before it releases the mutex.  A thread
\* that is about to test its own place will, if it may eat, be the eating
\* neighbour of the two places beside it: another thread of the same number may
\* have been eating there when this one wrote HUNGRY over it.
SeraTestado(k, t) ==
  \/ pc[t] = "testa" /\ k = ident[t]
  \/ /\ pc[t] = "testa"
     /\ ident[t] \in Filosofo
     /\ PodeComer(ident[t])
     /\ k = LEFT(ident[t]) \/ k = RIGHT(ident[t])
  \/ pc[t] = "testa_left" /\ (k = LEFT(ident[t]) \/ k = RIGHT(ident[t]))
  \/ pc[t] = "testa_right" /\ k = RIGHT(ident[t])

\* FomeJustificada in the middle of the critical sections too: a hungry
\* philosopher has a neighbour who eats, or somebody will test him.
FomeForte ==
  \A k \in Filosofo :
    filosofos[k] = "HUNGRY" =>
      \/ filosofos[LEFT(k)] = "EATING" \/ filosofos[RIGHT(k)] = "EATING"
      \/ \E t \in Filosofo : SeraTestado(k, t)

\* What is true at the start and kept by every step, and implies the rest.
IInv == /\ TypeOK
        /\ MainCerto
        /\ MutexCerto
        /\ VetorExclui
        /\ FomeForte
        /\ LugaresCertos

\* The dining table of Jantar, read off the state array.
mesa == [k \in Filosofo |-> filosofos[k]]
J == INSTANCE Jantar WITH estado <- mesa

\* As long as the race on i is harmless the program implements Jantar: every
\* change of the state array (lines 34-68) is a step of the table.
ImplementaJantar == J!Init /\ [][IdentidadesDistintas' => J!Next]_mesa

\* Somebody keeps eating, or the process has exited: no set of semaphore
\* operations leaves every philosopher asleep.
AlguemSempreCome == []<>(~Vivo \/ \E t \in Filosofo : Come(t))
=============================================================================
