# Formal models of exerciciosSO

The repository is a collection of operating-systems exercises in C and one
scheduler simulator in Java. Each program is small; what is hard about it is the
order in which threads, processes, signals and messages meet. This directory
holds TLA+ models of these programs, the TLC configurations that check them on
small instances, and proofs, checked by TLAPS, of what holds for every size.

Names of actions and variables are those of the source wherever TLA+ allows it
(Portuguese). `PROJECT.json` maps every definition to the lines it models.

## 1. Inventory

| Component | State it keeps | Operations | What is hard | What makes it correct |
|---|---|---|---|---|
| `IPC/semaforo_filosofo.c` | `filosofos[]`, `mutex`, `sem_fil[]`, main's `i`, each thread's copy of it | creation loop, `pegar_garfo`, `por_garfo`, `test` | every thread gets `&i`; wake-ups granted by neighbours; a failing creation exits | neighbours never eat together, no wake-up is lost, somebody always eats |
| `IPC/monitor_filosofo.c` | `philosopher[]`, `forks[]`, one mutex, one condition per philosopher | creation loop, `pegar_garfos`, `por_garfo` with two signals | condition queues, spurious wake-ups, a signal that goes to the wrong condition, creations that fail unnoticed | forks agree with eaters, no sleep of all |
| `IPC/leitor_escritor_semaforo.c` | `mutex`, `sem_write`, `quantidade_readers` | `escrever`, `start_read`, `end_read`, two creation loops, a join loop | the first reader waits for one semaphore while it holds the other; only readers are joined | writers alone, readers never in each other's way |
| `Escalonador-SO` (Java) | four lists, a control block per process, `ciclo`, `quantum` | one turn of `processar`: choose, execute or idle, decrement the blocked, block | a list changed while it is iterated; waiting times and blocking depend on the order inside a turn | every process runs exactly its time, waits what is counted, is blocked no longer than the list explains, each algorithm keeps its rule, the loop ends |
| `velha/` (noughts and crosses) | two boards, two counters, a buffer per child, two pipes, two sockets | `accept` and `fork`, move, send, check, receive, verdict, `waitpid` | two copies of one board in two processes; ends of pipes in every process; clients that go away; reads whose result is ignored | one game, one true verdict, nobody left blocked |
| `threads/ex1.c` | slices of two vectors | create, add up, print, free | no join: main prints and frees while threads run | every element added up once |
| `threads/ex2.c` | `controle[]`, `somaLinha[]`, `soma`, `linha` | create, add up, join, free | the slices' arithmetic; creations that fail unnoticed and joins of threads that do not exist | no row shared, every row summed before it is freed |
| `threads/ex3.c` | one output file, an offset per thread | five threads compute, or copy one file over another; two creation loops, joins | every copying thread truncates the output that the others are writing | at the end the output is the input |
| `pipe&fifo&signal/ex4.c` | a pipe per child, one System V segment | fork, send a slice, `shmget`, `shmat`, add up, `waitpid`, print, `IPC_RMID` | who creates the segment; what an earlier run left; one `waitpid` for n children | each child its slice, one segment for all, all end |
| `pipe&fifo&signal/ex1_pipe.c` | two pipes | fork, close the unused ends, question, number, answer | results of reads and writes that nobody looks at; who keeps which end open | the root shown is that of the number sent, no side survives the other |
| `pipe&fifo&signal/ex1_fifoServer.c`, `ex1_fifoCliente.c` | two names, two fifos | `mkfifo`, two opens on each side, the same conversation, a SIGINT handler that removes the names | opens that wait for the other side; names removed and made again between them; fifos left by earlier runs; a second client | the same, and no mutual wait in the opens |
| `pipe&fifo&signal/ex2_signal.c` | - | a handler that prints | - | - |
| `sockets&mqueue/mqueue` | two named queues, the server's descriptor of the answers | name, word, answer, `NO-NO` | names that outlive queues, queues that outlive processes, several clients, a restart, blocking sends | the answer is that of the question, nobody waits for ever |
| `sockets&mqueue/unixSocket` | one connection, a backlog | `accept` once, word, answer, `NO-NO`, close | end of file that is taken for a line, writes to a closed descriptor, a second client in the backlog, kills | the answer is that of the question, nobody is left waiting by the end of another |
| `FORK, EXEC e terminal/shell.c` | history and directory of each shell, the tree of processes | read a line, fork, history, `cd`, `exit`, exec, `wait` | fork before the built-in commands, so that there are several shells; `wait` for any child | children and waits balance, one shell reads the terminal, waits end |

The programs do not call each other. Inside one program the parts interact
through shared memory and semaphores (philosophers, readers and writers,
matrix), files (ex3), pipes, fifos and sockets (velha, ex1, ex4, unixSocket),
message queues (mqueue), signals and `wait` (shell), and shared lists
(scheduler). The hazards of each, with their lines, are listed in
`PROJECT.json`.

## 2. The modules

| Module | Models | Its state and actions |
|---|---|---|
| `IPC` | - | the two variables, `mutex` and main's `i`, that the three programs of `IPC/` name alike |
| `Jantar` | abstract specification of both philosopher programs | one word per philosopher; get hungry, eat if no neighbour eats, think |
| `SemaforoFilosofo` | `semaforo_filosofo.c` | one `pc` per thread, one action per statement that touches shared state; `LeI` reads the present value of main's `i`; `ForaDosVetores` is what a thread with number N may do to the words past the arrays |
| `MonitorFilosofo` | `monitor_filosofo.c` | mutex and one condition per philosopher; `Dorme`, `Espurio`, `Retoma` are the three parts of `pthread_cond_wait`; `SinalLeft` and `SinalRight` wake who sleeps there |
| `LeituraEscrita` | abstract specification of readers and writers | the sets of who writes and who reads |
| `LeitorEscritor` | `leitor_escritor_semaforo.c` | two semaphores, the count, one action per statement of `start_read`, `end_read`, `escrever` |
| `Escalonador`, `MCEscalonador` | the turn of `Processador.processar` with `Escalonador`, the three algorithms and `BCP` | the four lists as sequences; `Escalona`, `Executa`/`Ocioso`, `Decrementa`, `Bloqueia`, `Proximo`, `Fim`; `MCEscalonador` has the input files |
| `JogoDaVelha` | abstract specification of velha | one board, whose turn it is, and a test for the end |
| `Velha`, `MCVelha` | `server.c`, `velha.c`, `cliente.c` | the parent, the two children with a board, counter and buffer each, the pipes, the connections and the users |
| `Particao` | the slices of ex1, ex2 and ex4 | the formulas of the code and a closed form to compare with |
| `SomaMatriz` | `threads/ex2.c` | main's three loops and one action per row of a thread; a sum is the set of the rows that are in it |
| `VetorCompartilhado` | `pipe&fifo&signal/ex4.c` | the parent and one process per child; segments, the key, who has what attached |
| `Traducao` | what both translation servers promise | the dictionary as a relation between a request and its answer |
| `FilaMensagens`, `MCFilaMensagens` | `mqueue/server.c`, `cliente.c` | queues numbered in order of creation and what each of the two names stands for; the steps of server and clients; `Reinicia` kills and restarts the server |
| `SoqueteUnix`, `MCSoqueteUnix` | `unixSocket/server.c`, `cliente.c` | the server's one connection, each client's end of its own, what is on its way in both directions; `Aceita`, `Le`, `LeFechado`, `Responde` and the steps of a client; kills and `Reinicia` |
| `RaizQuadrada` | `ex1_pipe.c`, `ex1_fifoServer.c`, `ex1_fifoCliente.c` | open ends as triples (process, direction, pipe), what each pipe holds, what each name stands for; the two programs share the conversation and differ in how it is set up and left |
| `Shell` | `shell.c` | kind, parent, directory and history of every process; `Le` is a line with all that follows until the processes wait or read again; `Espera` is `wait`, `Termina` the end of a program |
| `CopiaArquivo` | `threads/ex3.c` | main's loops, an offset per thread, the output as a function from blocks; `Abre` truncates, `Copia` writes one block |
| `...Prova` | the theorems about the modules they extend: `IPCProva` about `SemaforoFilosofo`, `MonitorFilosofo` and `LeitorEscritor`, `ThreadsProva` about `SomaMatriz` and `CopiaArquivo`, `ProcessosProva` about `RaizQuadrada` and `Shell`, each other one about the module of its name | see section 5 |

Modules that one module extends together must not share names. So what every
specification has, `Init`, `Next`, `Spec`, `vars`, `TypeOK`, `IInv`, is prefixed
in four of them (`M` in `MonitorFilosofo`, `L` in `LeitorEscritor`, `C` in
`CopiaArquivo`, `Sh` in `Shell`), and what would otherwise be called `pc` or
`main` twice has another word there (`lugar`, `passo`, `estado`, `onde`).

A message, a name, a number of a vector is a model value or a member of a small
set. Printing, sleeping and the values that are added up are left out; the order
of the statements around them is not.

Definitions whose names begin with `Mut` are the code with one plausible mistake
in it. They are not part of the models: each is there to show that a property
notices that mistake.

## 3. Runs

| Run | Instance | Distinct states | What it shows |
|---|---|---|---|
| `semaforo_mesa` | 4 philosophers, any number read | 1,215,596 | neighbours' words exclude each other and hunger is always explained, race or no race; with distinct numbers `sem_fil` and the words agree with every thread and `Jantar` is implemented; somebody eats again and again |
| `monitor_mesa` | 5 philosophers | 19,027 | not all sleep, `Jantar` is implemented (`EUmJantar`), somebody eats again and again |
| `leitor_escritor` | 3 writers, 4 readers | 916 | readers do not bar readers, `LeituraEscrita` is implemented, somebody gets in again and again |
| `escalonador_listas` | all pairs of 80 kinds of process, all triples of 24 kinds, the example file | 1,796,136 | one list per process, exact times, each algorithm's rule (least time left, least number, taking turns), how long IO lasts and in which order it ends, the end |
| `velha_partida` | five free cells, either client may leave, `accept`/`fork` may fail | 316,975 | boards agree, verdicts are one and true, one game, everybody ends |
| `matriz_dez` | 4 threads, 10 rows | 2,769 | no row shared, nothing freed too early, complete result |
| `vetor_filhos` | 3 children, 4 elements, any leftover segment | 12,525 | each child its slice, one segment, at least one slice in what is printed, everybody ends |
| `fila_clientes` | 2 clients, 3 different lines, 1 restart | 332,795 | right answers to a client that no other has joined, before and after the restart; no full queue; answers arrive |
| `raiz_clientes` | both programs, 2 starts after the server's, pipes of 4 messages | 337,624 | a lone client is shown the root of its own number; nobody, among any clients and servers, reads what its own side wrote; neither the opens nor the conversation end in a mutual wait; no process is left behind by the end of its peer |
| `soquete_clientes` | 2 clients, 4 kinds of line, 1 restart | 226,722 | every client that goes on to its next line has seen the right answer to the last one, both sides wait only after the end of the input, the end of one side ends the other |
| `shell_linhas` | 4 lines, 2 directories | 134,364 | children and waits balance, one reader of the terminal, waits end |
| `copia_cinco` | 1 thread that computes, 4 that copy 3 blocks | 83,190 | the output is the input at the end |

The type invariant of every module that models a program is one of its theorems
(of `Shell`, `TipoDosProcessos` as a part of `ShIInv`), and so are
`GarfosExclusivos`, `GarfosCertos`, `Exclusao`, `Limites`, `UmUso` and
`HaLugar`, and `EsperaCerta` of `Escalonador`: the runs spend their time on the
rest. `Despedida` of `FilaMensagens`
can be added to the `PROPERTIES` of its configuration, where it holds; the `IInv`
of every module, which is what its proof is by, and the type invariants can be
added to the `INVARIANTS`.

### Why these bounds

- Four philosophers are the first table with a pair that shares no fork, so that
  two may eat at once; the race on `i` is complete there (numbers repeated,
  skipped, and N). The monitor needs no numbers and is run with five: the
  smallest table with chains of sleepers on both sides of two eaters. Beyond
  that the theorems hold for every N.
- Three writers and four readers have a first, a middle and a last reader
  together with writers that wait behind another.
- The scheduler's files hold, in pairs, every combination of: nothing to do, IO
  due before arrival, two IO entries due at once, an entry that never comes,
  late arrival, equal and different priorities; the triples are what it takes to
  have three processes blocked, which is where the iteration over the list goes
  wrong.
- In velha the first four moves are fixed (`Meio`) so that from the five cells
  left either player wins, the game is drawn, and a blank column hides a line.
  Users also type taken cells. `VelhaCanto.cfg` plays every game that begins in
  a corner, without desertions (917,050 states, one minute or so).
- Ten rows for four threads leave a remainder; four elements for three children
  too.
- Two clients are enough to get the queues out of step; a third would only
  lengthen them. One restart reaches every mix of old and new queues that the
  two names allow. Over the socket the second client is the one in the backlog,
  and the restart leaves it connected to a server that is gone; the four lines
  are a known and an unknown word and an unknown language on either side.
- `Inicios` = 2 programs are started after the first server of `RaizQuadrada`:
  two clients, a client and a server, or two servers, each of which may find
  fifos, names without fifos, or neither. A pipe of four messages
  (`CAPACIDADE`) is more than a conversation by turns can fill: where it is
  full, somebody has lost step. One number is typed, because an answer that
  belongs to another question is told by its kind, not its value
  (`MaoUnica` and its `Direcoes` were also run with two numbers: 1,756,096
  states).
- Four lines (`MaxLinhas`) make five processes, with room for a chain of three
  shells and background children below it; a fifth line takes an hour. The
  module needs `MaxLinhas` <= 60, the size of the history: what the code does
  past it is undefined. Directories are two, so that a `cd` may change one or
  not.
- Four copying threads, three blocks (`Blocos`) and an older file that was
  longer: a truncation can fall before, inside and after the writes of each of
  the others, and leave holes.

`CHECK_DEADLOCK FALSE` is in every configuration because the programs do stop:
after `exit`, at the end of a game, of a sum, of a simulation, or, in the
philosophers, when a creation fails. That nothing else stops them is what the
liveness properties say.

### Fairness

Weak fairness of main and of every thread or process: the scheduler runs
everybody and every `sleep` ends. Nothing is assumed of the order in which a
semaphore or a mutex lets its waiters in, nor that a condition ever wakes
anybody without a signal, nor that a creation fails. `Escalonador` is one thread:
weak fairness of `Next`. In `Velha` a user who is asked again and again does not
answer with taken cells for ever (strong fairness of an answer that is free);
nobody has to leave. In `FilaMensagens` users may stop typing (no fairness of
`Digita`), the server need not be killed, and `mq_receive` serves the process
that has waited longest, which gives strong fairness of `Espera` of each client.
In `SoqueteUnix` and `RaizQuadrada` server and clients run; no user need type,
start, interrupt or kill anything, and an `open` or a read that waits is not
enabled. In `Shell` what is fair is `wait` and the end of every program; nobody
need type a line. `CopiaArquivo` has no liveness property and no fairness.

## 4. Disagreements between the code and its texts

Each has a property beside the others and a configuration to run by hand
(`tlc -config X.cfg M`); TLC finds it violated:

| Configuration, module | Property | What happens |
|---|---|---|
| `SemaforoEnderecoDeI`, `SemaforoFilosofo` | `NinguemDivideGarfo` | threads get `&i` (`semaforo_filosofo.c:134`): two read one number and eat with one pair of forks |
| `MonitorVizinhoEsquerdo`, `MonitorFilosofo` | `AcordaVizinhos` | the left neighbour is not woken: `por_garfo` signals its own condition (`monitor_filosofo.c:44`) |
| `EscalonadorExcecao`, `MCEscalonador` | `SemExcecao` | the removal inside the iteration (`Processador.java:88`) ends the simulation with an exception |
| `VelhaLinha`, `MCVelha` | `LinhaAcabaOJogo` | a blank line, which is tested as three equal cells, hides three in line (`velha.c:37`) |
| `EscritoresSemLeitores`, `LeitorEscritor` | `MainNaoFechaThreads` | the join loop (line 99) waits for readers only: without any, main returns and ends the writers |
| `EscalonadorBloqueio`, `MCEscalonador` | `TodosDecrementam` | the removal at `Processador.java:88` makes the iteration skip the last process: its IO takes longer than 2 |
| `EscalonadorIO`, `MCEscalonador` | `IORelativo` | `BCP.java:66` compares IO entries with the processor's cycle, not with what the process executed |
| `VelhaContador`, `MCVelha` | `ContaLances` | a read at the end of the pipe (`server.c:165`) counts a move that nobody made |
| `VelhaPai`, `MCVelha` | `PaiEsperaTodos` | `waitpid(-1)` (`server.c:230`) waits for one child, not for all |
| `VetorPai`, `VetorCompartilhado` | `PaiEsperaTodos` | the same in `ex4.c:174`: the parent prints while children still add up |
| `VetorResta`, `VetorCompartilhado` | `NadaResta` | a late child makes a segment that nobody removes |
| `FilaNome`, `MCFilaMensagens` | `PalavraEPalavra` | the name a second client sends is translated like a word |
| `FilaReinicio`, `MCFilaMensagens` | `NomeENome` | a restarted server takes a word for the name of a queue |
| `FilaAcesso`, `MCFilaMensagens` | `AcessoEstabelecido` | `mq_open` is compared with 1 instead of -1 (`server.c:108`) |
| `ShellHistorico`, `Shell` | `HistoricoInteiro` | `strtok` takes the entry of the history itself apart: after `!n` of a `cd` the new shell's history has a `cd` without its directory, and `!n` no longer returns that command (comment at `shell.c:99`) |

These limits appear in the properties of the passing runs as what they are
relative to: `LugaresCertos` and `ImplementaJantar` speak of behaviours in
which the numbers are distinct, `Acordo`, `VereditoCerto` and `UmJogoSo` of a
game that nobody has broken off (`Inteira`), `RespostaCerta` of a client (mqueue)
as long as no other client has sent its name, `Respondido` of an answer, not of
whose it is, `Respondido` and `Despedida` of a server that was not killed,
`DuracaoIO` of what a skip costs and `Termina` of the exception as an end,
`UmPronto` of one complete slice and not of all of them,
`RespostaCerta` and `NinguemTrava` of `RaizQuadrada` of a client that has the
server for itself (two clients take each other's answers), `RespostaCerta` of
`SoqueteUnix` of what a client shows before it asks for the next line (one whose
read fails prints its own line once more and exits), `EsperaJustificada`
of a user who has not ended the input, `UmSoLeitor` of shells without children in
the background, `Divida` and `EsperaTermina` of how many children are waited for,
not of which: `wait(NULL)` (`shell.c:127`) may well take the wrong one. In each case the
run reaches states on both sides of the condition.

## 5. Proofs

All theorems are about the specification with its constants unknown, and assume
of them what the `ASSUME` of the module says. A proof module that extends several
programs has the assumptions of all at hand; no proof uses those of another
program than its own. The programs of `IPC/` share two variables in `IPCProva`
(module `IPC`), and no theorem is about two of them.

| Module | Proved | Assumes |
|---|---|---|
| `IPCProva` | of `SemaforoFilosofo`: `SemaforoIndutivo`, type correctness, `VetorExclui`, `FomeJustificada`, `LugaresCertos`, `GarfosExclusivos`, `ImplementaJantar`, `JantarDasDistintas` | N is a positive number |
| | of `MonitorFilosofo`: `MonitorIndutivo`, type correctness, `GarfosCertos`, `NemTodosDormem`, `EUmJantar` | n is a positive number |
| | of `LeitorEscritor`: `LeitorIndutivo`, type correctness, `ContaCerta`, `Exclusao`, `LeitorNaoBarraLeitor`, `ImplementaLeituraEscrita` | both numbers are naturals |
| `EscalonadorProva` | `Indutivo`, type correctness, `ListasCertas`, `ExecutaTudo`, `EsperaCerta`, `EscolheCerto`, `DuracaoIO` | every table is a sequence of lines, whose numbers are naturals |
| `VetorCompartilhadoProva` | `Indutivo`, type correctness, `RecebeSua`, `MesmoSegmento`, `UmPronto` | n and quantElementos are positive |
| `ProcessosProva` | of `RaizQuadrada`: `Indutivo`, type correctness, `RespostaCerta`, `NinguemTrava`, `Direcao`, `MaoUnica` | both programs or one; users start some positive number of programs and type naturals; a pipe holds a message at least |
| | of `Shell`: `ShellIndutivo`, `Divida`, `UmSoLeitor` | MaxLinhas is at most 60, the size of the history |
| `ThreadsProva` | of the slices: `Divisao`, `Monotona`, `Distribui`, `Fins`, `Cobre` (they end where the closed form says, the last at n, and cover every element) | n and k are naturals, k positive |
| | of `SomaMatriz`: `SomaIndutivo`, type correctness, `FatiasCertas`, `UmaThreadPorLinha`, `LiberaDepoisDeSomar` | numThreads and M are positive, numThreads <= M |
| | of `CopiaArquivo`: `CopiaIndutivo`, type correctness, `UmaInteira`, `CopiaCerta` | Cpu < MAX, Blocos is a natural |
| `SoqueteUnixProva` | `Indutivo`, type correctness, `RespostaCerta`, `EsperaJustificada` | at most five clients (the backlog), Reinicios is a natural, NINGUEM is no client |
| `FilaMensagensProva` | `Indutivo`, type correctness, `UmUso`, `NuncaEnche`, `HaLugar`, `RespostaCerta` | a finite, non-empty set of clients, Reinicios is a natural; `HaLugar` speaks of five clients or fewer |
| `VelhaProva` | `Indutivo`, type correctness, `Acordo`, `VereditoCerto`, `Limites` (of a game that is whole), `UmJogoSo` | the cells in `Meio` are on the board |

The assumption numThreads <= M is one the code needs and does not test: `controle` is
allocated with M entries (`ex2.c:73`) and written at numThreads of them.

The arguments:

- **Semaphores.** `FomeJustificada` (a hungry philosopher has an eating
  neighbour) holds only while the mutex is free, so it is not inductive.
  `FomeForte` adds who is still going to be tested by the thread in the critical
  section (`SeraTestado`), also when that thread shares its number with another.
  With `MutexCerto` (one thread in the critical sections), `MainCerto` (the
  creation order), `VetorExclui` and `LugaresCertos` (what every thread's word
  and semaphore are, statement by statement) this makes `IInv`. The exclusion of
  the words needs neither distinct numbers nor `LugaresCertos`; the exclusion of
  the threads needs both.
- **Implementation of `Jantar`.** A step that keeps the numbers distinct started
  with distinct numbers (`DistintasAntes`, a number is read once), and then by
  `IInv` each write of a word is one of the three steps of the table. The
  corollary `JantarDasDistintas` is the usual form of implementation for the
  behaviours in which the race is harmless.
- **Monitor.** `MIInv` ties `forks` to who eats (`GarfosCertos`), the word to the
  statement (`EstadoCerto`), and says that between the test of the forks and
  their taking nobody takes them (`PegaLivres`), which is where the mutex and the
  `while` around the wait are used. `NemTodosDormem` is an invariant of its own:
  who falls asleep saw a fork in use, so somebody is eating.
- **Readers and writers.** `WriteCerto` says who holds `sem_write` on whose
  behalf, `SozinhoCerto` that who waits for it or is about to post it is the only
  reader counted, `ContaCerta` equates the count with the cardinality of the set
  of those who are in.
- **Scheduler.** `listaAptos` after the loop over the processes (`AptosAte`) is
  defined by recursion over its position; that it has nobody twice, and just
  those who were in it or have arrived, is by induction over that position
  (`Inducao`). With that the lists are sequences without repetition that share
  nobody and miss nobody (`ListasCertas`), which the iteration of `Decrementa`
  keeps although a removal makes it skip a process, and `Bloqueia` finds the
  process that it takes out of `listaAptos` because the scheduled one is still
  there (`EmTurno`). `DeveCerto` balances what a process still owes against the
  number of times it ran, which makes `ExecutaTudo`; `EsperaCerta` is inductive
  with it, since the order of execution grows by one process and all others that
  have run count one more. `EscolheCerto` is by the lemma that each algorithm
  takes the first of a least value (`OMenor`), over exactly those who could run;
  its RoundRobin part follows the places of `listaAptos`, which `AptosAte` only
  extends at the end and from which a removal only brings others forward.
  `DuracaoIO` rests on `EmFila`: who blocked first has least time of IO left. So
  the one whose time is up is always the first of the list, the iteration breaks
  off after it, and everybody behind it moves up one place and loses one
  decrement: its IO is as much longer as it has places before it.
- **Vector over processes.** `IInv` adds to the types: every slice in a pipe or
  read from one is its child's (`FatiasCertas`: the parent computes each from the
  end of the one before, and the lemmas of the module say where that is); there is one segment
  until the parent removes it and one more at most after that, and one that is
  too small is nobody's (`UmSegmento`); what a child has added up is in the
  segment it has attached, also after it has ended (`SomasFeitas`).
  `UmPronto` needs all of them: the child that has ended and the parent asked
  the key before the removal, so their segments are the same.
- **Shell.** `Divida` is inductive only with what a process is that was not made
  yet (`Novos`). `UmSoLeitor` also needs `Familia`: a process that lives without
  a parent was left by a shell with children too many. Each action changes the children of
  one or two shells by one element, which the lemmas count. `UmSoLeitor` is then
  a pigeonhole argument: every live process but the first is the child of a
  waiting shell, by `Divida` no two of the same one, so there are as many
  waiting shells as live processes less one.
- **Square roots.** `PontasCertas` says which ends each process has open, by its
  statement; so an end is open once at most, the processes and names use fewer
  fifos than there are numbers (an injection, `HaLivre`), and `mkfifo` finds one
  that nobody uses. `NomesDistintos` keeps the fifo of one name from ever
  getting the other, although names are removed and made again while processes
  hold what they stood for. For a lone client `AberturaCerta` lists how far the
  two may be in the four opens, and `ConversaCerta` (`EmDia`, `Resto`) what is on
  its way in each direction, statement by statement, or what a server that has
  ended left. Two that are in step never both wait, as a pipe holds a message at
  least (`NinguemTrava`), and the answer read is at the head of its pipe, before
  the next question (`RespostaCerta`). `MaoUnica` is about all clients and servers,
  who need not be in step. Its strengthening `Direcoes` says that a fifo is open
  under one of the two names only (`Lados`, by `NomesDistintos`, across the
  removals), that it holds what that name is for, and that it is empty when
  nobody has it open (`Conteudo`), which is why a number that `mkfifo` uses again
  brings no old messages.
- **Copies.** The strengthening is `UmaInteira`: once somebody has opened the
  output there is always a thread all of whose blocks are in it. It is the one
  that truncated last; the others may have left holes before what they write.
  When all have ended, that thread has written everything.
- **Matrix.** `FatiasCertas` is kept by the creation loop through the closed form
  of the slices; that slices are disjoint is then a fact of arithmetic
  (`Monotona`), and a thread only writes rows of its own, so that what it has
  done (`ThreadCerta`) survives the steps of the others; main reaches the freeing
  only past every thread.

- **Velha.** A game is `Inteira` while no child has died without a verdict, and
  one that is broken is never made whole again, so `IInv` speaks of whole games.
  Such a game is in one of four phases (`Fase`): a player is to move and nothing
  is on its way (`SuaVez`); it has marked a move that it has not sent (`Marcou`);
  the move is in the pipe, and the sender may know that it ends the game
  (`Mandou`); both have the last move (`FimDeJogo`). `EmDia` ties each counter
  and verdict to its board but between a move and its test, `Processos` and
  `AntesDoFork` tie the children to the statement of the parent. `Acordo`,
  `VereditoCerto` and `Limites` read off the phase. `UmJogoSo` maps the two
  boards to the one that has the marks of both: in each phase they differ by one
  move at most, so the step that marks it is the move of `JogoDaVelha` and every
  other step is a stutter or the end.
- **Unix socket.** Between a client and the server there is the last line or its
  answer, never both (`UmaMensagem`); the server treats the last line of the
  client it has accepted (`TrataUltima`); a client waits with nothing on its way
  only while the server treats its line, or after an empty one
  (`EsperaATratada`). What kills and restarts leave behind is in `Conexao`: only
  a client that was told of the end of its connection goes on without one.
- **Message queues.** `CadaUmUma` charges every queue to the client or the start
  of the server that created it, so that numbers never run out; `UmUso` keeps
  queues of lines apart from those of answers although both names are removed and
  given to new queues while old ones are in use. `Contadas` is the argument of
  `NuncaEnche`: every message in any queue or in the hands of the server is the
  name of a client that sent it, or the word of a client that has not read an
  answer since. `RespostaCerta` needs the whole conversation of a client that no
  other has joined, statement by statement (`Conversa`), also with servers that
  begin again (`Recomeca`). Such a server may find the name and the word, the word
  alone, or nothing: the one before it may have read what it did not answer. It
  takes what it finds first for the name; a word that is lost that way, or to the
  kill, leaves the client waiting for ever, so that it never has two words on
  their way, and what it shows is the answer to the last one or nothing.

**Only model-checked:** every liveness property (`AlguemSempreCome`,
`SempreAlguemCome`, `AlguemEntra`, `Termina`, `TodosSaem`, `Acaba`, `Respondido`, `OrfaoAcaba`,
`FimConjunto`, `EsperaTermina`): fairness and ENABLED are out of the prover's
reach. Every invariant and action property of the runs is a theorem, and so are
the refinements of `Jantar`, `LeituraEscrita` and `JogoDaVelha`. The library's
induction over the naturals takes a predicate as a parameter, which the provers
in use cannot instantiate; where an induction is needed it is stated of the set
of the numbers that have the property (`Menor`, `Inducao` in `EscalonadorProva`,
`MenorDe` in `ProcessosProva`), from the theorem that < is well-founded.

## 6. What is not modelled, and why

- Failures of `malloc`, `sem_init`, `pipe`, `socket` before the first thread or
  child exists: they end the program at once.
- The parsing of arguments and files, drawing and printing, the clock; the
  averages that the scheduler prints.
- What C leaves undefined and no bound of the program excludes: coordinates that
  are not on the board, a first player that leaves before its first move (its
  buffer is not initialized), lines shorter than the protocol's in mqueue, more
  threads than rows in ex2, the ten bytes for "ERROR:UNKNOW". The race on `i`,
  the joins of threads that were never created, and the words past the arrays of
  the philosophers are modelled, as choices among what can be seen.
- A stream that cuts a message of velha in two: messages are far shorter than a
  segment.
- `threads/ex1.c`: its slices are those of ex2 (`Particao` and its
  theorems), and its threads write elements of their own. What is left is
  that main prints and frees without a join: nothing in the program orders the
  threads before that, and it promises nothing that they could violate.
- The scheduler's averages: `quantProcessos` (`BCP.java:41`) is counted once per
  reading of the file, which is arithmetic on printed values.
- Failures of `shmget` and `shmat` other than for a segment that is too small or
  was removed: a child that such a failure ends (`ex4.c:139-148`) adds nothing up,
  and if it is the one the parent waits for, `UmPronto` need not hold.
- The text of lines and commands, the path of the socket and its removal, and
  failures of `socket`, `bind` and `listen`.
- What the shell does past sixty lines, with `!` and two digits, or with a place
  in the history that is not in use; all are undefined in C.
- `ex2_signal.c` (one handler that prints), the Swing window (empty handlers),
  `ex3_server.c`, which does not compile (line 41), and its client; compiled
  programs and project files.

## 7. Plan

Done, in this order: philosophers with semaphores, with the monitor, readers and
writers (each with its abstract specification and proofs), scheduler, velha,
matrix with its slices, shared vector, message queues, Unix socket, square roots
over pipes and fifos, shell, concurrent copies; proofs of all of them.

Every program of the repository that keeps state is modelled now, but for ex1.c,
and every invariant, action property and refinement that a run checks is a
theorem. What is left is liveness: that fairness leads where the runs show it does
would need a prover for ENABLED.
