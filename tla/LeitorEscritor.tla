--------------------------- MODULE LeitorEscritor ---------------------------
(***************************************************************************)
(* IPC/leitor_escritor_semaforo.c: writers and readers with two binary     *)
(* semaphores.  sem_write is held by the writer who writes or, on behalf   *)
(* of all readers, from the first reader in to the last one out; mutex     *)
(* guards quantidade_readers, and the first reader sleeps on sem_write     *)
(* with mutex in his hands.  The address of main's i that each thread gets *)
(* is never read.                                                          *)
(***************************************************************************)
EXTENDS Integers, FiniteSets, IPC

CONSTANTS
  num_escritor,         \* argv[1]
  num_leitores          \* argv[2]

ASSUME LeitorAssumption == num_escritor \in Nat /\ num_leitores \in Nat

\* mutex and sem_write are the values of the two semaphores.
VARIABLES
  sem_write,
  quantidade_readers,
  main,                 \* the loop main is in, or how it ended
  escritor, leitor      \* the next statement of each thread

Lvars == <<mutex, sem_write, quantidade_readers, i, main, escritor, leitor>>

Escritor == 0..num_escritor-1

Leitor == 0..num_leitores-1

LInit == /\ mutex = 1
         /\ sem_write = 1
         /\ quantidade_readers = 0
         /\ i = 0
         /\ main = "cria_escritores"
         /\ escritor = [e \in Escritor |-> "nao_criado"]
         /\ leitor = [l \in Leitor |-> "nao_criado"]

-----------------------------------------------------------------------------
(* main *)

semaforos == <<mutex, sem_write, quantidade_readers>>

CriaEscritor == /\ main = "cria_escritores"
                /\ i < num_escritor
                /\ escritor' = [escritor EXCEPT ![i] = "fora"]
                /\ i' = i + 1
                /\ UNCHANGED <<semaforos, main, leitor>>

PassaALeitores == /\ main = "cria_escritores"
                  /\ i = num_escritor
                  /\ main' = "cria_leitores"
                  /\ i' = 0
                  /\ UNCHANGED <<semaforos, escritor, leitor>>

CriaLeitor == /\ main = "cria_leitores"
              /\ i < num_leitores
              /\ leitor' = [leitor EXCEPT ![i] = "fora"]
              /\ i' = i + 1
              /\ UNCHANGED <<semaforos, main, escritor>>

\* The join loop waits for the readers, who never return; with no reader there
\* is nothing to join and main returns 0, which ends the process.
Join == /\ main = "cria_leitores"
        /\ i = num_leitores
        /\ main' = IF num_leitores = 0 THEN "return_0" ELSE "join"
        /\ UNCHANGED <<semaforos, i, escritor, leitor>>

\* A pthread_create that fails: return -1 ends the process.
FalhaCriacao == /\ \/ main = "cria_escritores" /\ i < num_escritor
                   \/ main = "cria_leitores" /\ i < num_leitores
                /\ main' = "return_-1"
                /\ UNCHANGED <<semaforos, i, escritor, leitor>>

Corre == main \notin {"return_0", "return_-1"}

-----------------------------------------------------------------------------
(* escrever *)

PassaEscritor(e, de, para) == /\ Corre
                              /\ escritor[e] = de
                              /\ escritor' = [escritor EXCEPT ![e] = para]
                              /\ UNCHANGED <<quantidade_readers, mutex, i, main, leitor>>

\* sem_wait(&sem_write)
ComecaEscrita(e) == /\ PassaEscritor(e, "fora", "escrevendo")
                    /\ sem_write > 0
                    /\ sem_write' = sem_write - 1

\* sem_post(&sem_write)
TerminaEscrita(e) == /\ PassaEscritor(e, "escrevendo", "fora")
                     /\ sem_write' = sem_write + 1

-----------------------------------------------------------------------------
(* ler: thread l goes from the statement named de to para *)

PassaLeitor(l, de, para) == /\ Corre
                            /\ leitor[l] = de
                            /\ leitor' = [leitor EXCEPT ![l] = para]
                            /\ UNCHANGED <<i, main, escritor>>

\* The two sem_wait(&mutex) and the two sem_post(&mutex).
wait_mutex(l, de, para) == /\ PassaLeitor(l, de, para)
                           /\ mutex > 0
                           /\ mutex' = mutex - 1
                           /\ UNCHANGED <<sem_write, quantidade_readers>>

post_mutex(l, de, para) == /\ PassaLeitor(l, de, para)
                           /\ mutex' = mutex + 1
                           /\ UNCHANGED <<sem_write, quantidade_readers>>

\* start_read

EntraPeloMutex(l) == wait_mutex(l, "fora", "testa")

Primeiro(l) == /\ PassaLeitor(l, "testa", "espera_write")
               /\ quantidade_readers = 0
               /\ UNCHANGED semaforos

\* Mutant: every reader waits for sem_write, not only the first.
MutNaoPrimeiro(l) == /\ PassaLeitor(l, "testa", "espera_write")
                     /\ quantidade_readers # 0
                     /\ UNCHANGED semaforos

NaoPrimeiro(l) == /\ PassaLeitor(l, "testa", "conta")
                  /\ quantidade_readers # 0
                  /\ UNCHANGED semaforos

\* sem_wait(&sem_write), with mutex held
EsperaWrite(l) == /\ PassaLeitor(l, "espera_write", "conta")
                  /\ sem_write > 0
                  /\ sem_write' = sem_write - 1
                  /\ UNCHANGED <<mutex, quantidade_readers>>

\* quantidade_readers++
Conta(l) == /\ PassaLeitor(l, "conta", "solta")
            /\ quantidade_readers' = quantidade_readers + 1
            /\ UNCHANGED <<mutex, sem_write>>

ComecaLeitura(l) == post_mutex(l, "solta", "lendo")

\* end_read; the wait() of start_read is the time before PegaMutexFim

PegaMutexFim(l) == wait_mutex(l, "lendo", "desconta")

\* quantidade_readers--
Desconta(l) == /\ PassaLeitor(l, "desconta", "testa_fim")
               /\ quantidade_readers' = quantidade_readers - 1
               /\ UNCHANGED <<mutex, sem_write>>

\* Mutant: the last but one reader opens sem_write.
MutUltimo(l) == /\ PassaLeitor(l, "testa_fim", "abre")
                /\ quantidade_readers <= 1
                /\ UNCHANGED semaforos

Ultimo(l) == /\ PassaLeitor(l, "testa_fim", "abre")
             /\ quantidade_readers <= 0
             /\ UNCHANGED semaforos

NaoUltimo(l) == /\ PassaLeitor(l, "testa_fim", "solta_fim")
                /\ quantidade_readers > 0
                /\ UNCHANGED semaforos

\* Mutant: the last reader does not post sem_write.
MutAbre(l) == /\ PassaLeitor(l, "abre", "solta_fim")
              /\ UNCHANGED semaforos

\* sem_post(&sem_write)
Abre(l) == /\ PassaLeitor(l, "abre", "solta_fim")
           /\ sem_write' = sem_write + 1
           /\ UNCHANGED <<mutex, quantidade_readers>>

SoltaMutexFim(l) == post_mutex(l, "solta_fim", "fora")

-----------------------------------------------------------------------------

LMain == CriaEscritor \/ PassaALeitores \/ CriaLeitor \/ Join

PassoEscritor(e) == ComecaEscrita(e) \/ TerminaEscrita(e)

PassoLeitor(l) == \/ EntraPeloMutex(l) \/ Primeiro(l) \/ NaoPrimeiro(l) \/ EsperaWrite(l)
                  \/ Conta(l) \/ ComecaLeitura(l) \/ PegaMutexFim(l) \/ Desconta(l)
                  \/ Ultimo(l) \/ NaoUltimo(l) \/ Abre(l) \/ SoltaMutexFim(l)

LNext == \/ LMain
         \/ FalhaCriacao
         \/ \E e \in Escritor : PassoEscritor(e)
         \/ \E l \in Leitor : PassoLeitor(l)

LSpec == LInit /\ [][LNext]_Lvars

\* main and every thread keep being scheduled and every wait() ends.  Nothing is
\* assumed of the order in which a semaphore lets its waiters in.
LFairness == /\ WF_Lvars(LMain)
             /\ \A e \in Escritor : WF_Lvars(PassoEscritor(e))
             /\ \A l \in Leitor : WF_Lvars(PassoLeitor(l))

LFairSpec == LSpec /\ LFairness

-----------------------------------------------------------------------------
(* Properties *)

EntreMutex == {"testa", "espera_write", "conta", "solta", "desconta", "testa_fim",
                 "abre", "solta_fim"}

\* Both semaphores are binary: nothing posts one that it, or the readers on
\* whose behalf it does so, had not waited on.
LTypeOK ==
  /\ mutex \in {0, 1}
  /\ sem_write \in {0, 1}
  /\ quantidade_readers \in Nat
  /\ i \in Nat
  /\ main \in {"cria_escritores", "cria_leitores", "join", "return_0", "return_-1"}
  /\ escritor \in [Escritor -> {"nao_criado", "fora", "escrevendo"}]
  /\ leitor \in [Leitor -> EntreMutex \cup {"nao_criado", "fora", "lendo"}]

Escrevendo == {e \in Escritor : escritor[e] = "escrevendo"}

\* From "Estou lendo" until end_read takes its count back.
Lendo == {l \in Leitor : leitor[l] \in {"lendo", "desconta"}}

\* One writer at a time (line 19), and none while somebody reads (lines 30-32).
Exclusao == /\ \A d, e \in Escrevendo : d = e
            /\ Escrevendo # {} => Lendo = {}

Contados == {l \in Leitor : leitor[l] \in {"solta", "lendo", "desconta"}}

\* quantidade_readers is the number of readers who are in: no increment or
\* decrement is lost.
ContaCerta == quantidade_readers = Cardinality(Contados)

\* The comment of start_read (line 32): a reader lets more people read.  Who
\* sleeps on sem_write does so on account of a writer, never of a reader, so
\* sleeping with mutex held keeps no reader from leaving.
LeitorNaoBarraLeitor ==
  \A l \in Leitor : leitor[l] = "espera_write" => Contados = {}

\* The mutex is held by exactly one reader of the critical sections, or free.
LMutexCerto ==
  /\ mutex = 1 <=> \A l \in Leitor : leitor[l] \notin EntreMutex
  /\ \A k, l \in Leitor :
       leitor[k] \in EntreMutex /\ leitor[l] \in EntreMutex => k = l

\* The readers hold sem_write: from when the first has taken it to when the
\* last is about to post it.
PosseDosLeitores ==
  \E l \in Leitor :
    leitor[l] \in {"conta", "solta", "lendo", "desconta", "testa_fim", "abre"}

\* sem_write is free just when neither a writer nor the readers hold it, and
\* they never hold it together.
WriteCerto ==
  /\ sem_write = 1 <=> Escrevendo = {} /\ ~PosseDosLeitores
  /\ PosseDosLeitores => Escrevendo = {}
  /\ \A d, e \in Escrevendo : d = e

\* Who is about to wait for sem_write, or to post it, is alone.
SozinhoCerto ==
  \A l \in Leitor : leitor[l] \in {"espera_write", "abre"} => quantidade_readers = 0

LMainCerto ==
  /\ main = "cria_escritores" => \A e \in Escritor : e >= i => escritor[e] = "nao_criado"
  /\ main \in {"cria_escritores", "cria_leitores"} =>
       \A l \in Leitor : main = "cria_escritores" \/ l >= i => leitor[l] = "nao_criado"

LIInv == LTypeOK /\ LMainCerto /\ LMutexCerto /\ ContaCerta /\ WriteCerto /\ SozinhoCerto

A == INSTANCE LeituraEscrita WITH escrevendo <- Escrevendo, lendo <- Lendo

\* The two semaphores implement the readers-writers exclusion.
ImplementaLeituraEscrita == A!Spec

\* The threads never block each other for good: somebody keeps reading or
\* writing as long as the process lives.
AlguemEntra == []<>(~Corre \/ Escrevendo # {} \/ Lendo # {})

\* The comment of the join loop (line 98): it keeps main from ending and
\* closing all the threads.
MainNaoFechaThreads ==
  main = "return_0" =>
    /\ \A e \in Escritor : escritor[e] = "nao_criado"
    /\ \A l \in Leitor : leitor[l] = "nao_criado"
=============================================================================
