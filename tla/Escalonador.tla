---------------------------- MODULE Escalonador ----------------------------
(***************************************************************************)
(* Escalonador-SO: Processador.processar runs three schedulers one after   *)
(* the other over the same process table.  Each scheduler read the table   *)
(* from the file into lists of its own, so only the lists and the process  *)
(* control blocks of the one in turn are kept; they start afresh with the  *)
(* next one.  A process is named by its line in the file, ids being        *)
(* distinct.  The loop of processar is sequential; one turn of it is four  *)
(* actions: Escalona, Executa or Ocioso, Decrementa, Bloqueia.             *)
(***************************************************************************)
EXTENDS Integers, Sequences, FiniteSets, SequencesExt

CONSTANT
  Tabelas       \* the files to try: sequences of lines

Linha == [tempoTotal : Nat, prioridade : Nat, tempoChegada : Nat, listaIO : Seq(Nat)]

ASSUME TabelasAssumption == \A t \in Tabelas : t \in Seq(Linha)

cicloIO == 2

quantum == 1

NULL == 0

listaAlg == <<"Sjf", "Prioridade", "RoundRobin">>

VARIABLES
  tabela,               \* the file
  alg,                  \* the scheduler in turn, an index of listaAlg
  ciclo,
  bcp,                  \* the process control blocks
  listaProcessos, listaAptos, listaBloqueado, listaFinalizados,
  tamanhoMaxFilaAptos, tamanhoMaxFilaBlock,
  p,                    \* the process that was scheduled, or NULL
  tempoExecutado,
  ordemExecutados,      \* of the scheduler in turn
  pc

listas == <<listaProcessos, listaAptos, listaBloqueado, listaFinalizados>>

maximos == <<tamanhoMaxFilaAptos, tamanhoMaxFilaBlock>>

vars == <<tabela, alg, ciclo, bcp, listas, maximos, p, tempoExecutado, ordemExecutados, pc>>

Processos == DOMAIN tabela

\* The block of a line just read.
NovoBCP(linha) == [tempoTotal |-> linha.tempoTotal, listaIO |-> linha.listaIO,
                   tempoIO |-> cicloIO, isBlocked |-> FALSE, jaExecutou |-> FALSE,
                   tempoEsperaTotal |-> 0]

Init == /\ tabela \in Tabelas
        /\ alg = 1
        /\ ciclo = 0
        /\ bcp = [q \in Processos |-> NovoBCP(tabela[q])]
        /\ listaProcessos = [q \in Processos |-> q]
        /\ listaAptos = <<>> /\ listaBloqueado = <<>> /\ listaFinalizados = <<>>
        /\ tamanhoMaxFilaAptos = 0 /\ tamanhoMaxFilaBlock = 0
        /\ p = NULL
        /\ tempoExecutado = 0
        /\ ordemExecutados = <<>>
        /\ pc = "escalonar"

-----------------------------------------------------------------------------
(* Escalonador.retornarProcessosAptos and the escalonar of each algorithm *)

\* Neither blocked nor still to come (lines 52-60).
Chegou(q) == ~bcp[q].isBlocked /\ tabela[q].tempoChegada <= ciclo

\* listaAptos when the loop has come past the first k of listaProcessos: who has
\* arrived and is not in it yet is added.
AptosAte[k \in 0..Len(listaProcessos)] ==
  IF k = 0 THEN listaAptos
  ELSE LET antes == AptosAte[k - 1]
       IN IF Chegou(listaProcessos[k]) /\ ~Contains(antes, listaProcessos[k])
            THEN Append(antes, listaProcessos[k])
            ELSE antes

Aptos == AptosAte[Len(listaProcessos)]

\* The first of the processes of s with the least valor.
PrimeiroMenor(s, valor) ==
  s[CHOOSE j \in DOMAIN s :
      /\ \A k \in DOMAIN s : valor[s[j]] <= valor[s[k]]
      /\ \A k \in 1..j-1 : valor[s[j]] < valor[s[k]]]

Restante == [q \in Processos |-> bcp[q].tempoTotal]
Prioridades == [q \in Processos |-> tabela[q].prioridade]

\* Mutant: SJF compares what the processes needed at first.
MutEscolhido(s) ==
  CASE listaAlg[alg] = "Sjf" -> PrimeiroMenor(s, [q \in Processos |-> tabela[q].tempoTotal])
    [] listaAlg[alg] = "Prioridade" -> PrimeiroMenor(s, Prioridades)
    [] listaAlg[alg] = "RoundRobin" -> Head(s)

\* The process that escalonar of the algorithm in turn returns.
Escolhido(s) ==
  CASE listaAlg[alg] = "Sjf" -> PrimeiroMenor(s, Restante)
    [] listaAlg[alg] = "Prioridade" -> PrimeiroMenor(s, Prioridades)
    [] listaAlg[alg] = "RoundRobin" -> Head(s)

\* RoundRobin sends the one it takes to the tail; the others leave it in place.
AposEscolha(s) ==
  IF listaAlg[alg] = "RoundRobin" THEN Append(Tail(s), Head(s)) ELSE s

Escalona ==
  /\ pc = "escalonar"
  /\ IF Aptos = <<>>
       THEN p' = NULL /\ listaAptos' = <<>>
       ELSE p' = Escolhido(Aptos) /\ listaAptos' = AposEscolha(Aptos)
  /\ pc' = "executar"
  /\ UNCHANGED <<tabela, alg, ciclo, bcp, listaProcessos, listaBloqueado, listaFinalizados,
                 maximos, tempoExecutado, ordemExecutados>>

-----------------------------------------------------------------------------
(* Processador.processar *)

Min2(a, b) == IF a < b THEN a ELSE b

\* Mutant: the process is over one quantum too late.
MutEncerra(q) == bcp[q].tempoTotal - quantum < 0

\* Line 44, after the quantum was taken off.
Encerra(q) == bcp[q].tempoTotal - quantum <= 0

\* Whose wait incrementListaEspera makes longer.
Espera(q) == q # p /\ bcp[q].jaExecutou

\* Lines 32-48 and incrementListaEspera: the scheduled process runs for one
\* quantum or what it has left, and is over when nothing is left.
Executa ==
  LET tempo == Min2(bcp[p].tempoTotal, quantum)
      vivos == IF Encerra(p) THEN RemoveFirst(listaProcessos, p) ELSE listaProcessos
  IN /\ pc = "executar"
     /\ p # NULL
     /\ ordemExecutados' = Append(ordemExecutados, p)
     /\ tempoExecutado' = tempo
     /\ ciclo' = ciclo + tempo
     /\ listaProcessos' = vivos
     /\ IF Encerra(p)
          THEN /\ listaFinalizados' = Append(listaFinalizados, p)
               /\ listaAptos' = RemoveFirst(listaAptos, p)
          ELSE UNCHANGED <<listaFinalizados, listaAptos>>
     /\ bcp' = [q \in Processos |->
                  CASE q = p ->
                         [bcp[q] EXCEPT !.tempoTotal = @ - quantum, !.jaExecutou = TRUE]
                    [] Contains(vivos, q) /\ Espera(q) ->
                         [bcp[q] EXCEPT !.tempoEsperaTotal = @ + tempo]
                    [] OTHER -> bcp[q]]
     /\ pc' = "decrementar"
     /\ UNCHANGED <<tabela, alg, listaBloqueado, maximos, p>>

\* Mutant: an idle turn takes no time.
MutOcioso ==
  /\ pc = "executar"
  /\ p = NULL
  /\ tempoExecutado' = 1
  /\ pc' = "decrementar"
  /\ UNCHANGED <<tabela, alg, ciclo, bcp, listas, maximos, p, ordemExecutados>>

\* Lines 50-53: nobody could be scheduled.
Ocioso ==
  /\ pc = "executar"
  /\ p = NULL
  /\ tempoExecutado' = 1
  /\ ciclo' = ciclo + 1
  /\ pc' = "decrementar"
  /\ UNCHANGED <<tabela, alg, bcp, listas, maximos, p, ordemExecutados>>

\* The places of listaBloqueado whose time is up after this turn.
Vencidos == {k \in DOMAIN listaBloqueado :
               bcp[listaBloqueado[k]].tempoIO - tempoExecutado <= 0}

\* Lines 85-86.
Liberado(b) == [b EXCEPT !.tempoIO = cicloIO, !.isBlocked = FALSE]

\* Mutant: a removal at place k makes the iteration miss only the next place.
MutAlcancados(k) == DOMAIN listaBloqueado \ {k + 1}

\* The places that the iteration reaches if it removes at place k, or ends there.
Alcancados(k) == 1..k

\* decrementarBloqueados removes from the list it is iterating over: the
\* iteration goes no further than the first process k whose time is up.  Only
\* those up to k are decremented; if k was the last or the last but one the
\* iterator sees its end, otherwise its next() throws
\* ConcurrentModificationException, which ends the program.
Decrementa ==
  LET m == Len(listaBloqueado)
      k == IF Vencidos = {} THEN m ELSE CHOOSE j \in Vencidos : \A l \in Vencidos : j <= l
      vencido == IF Vencidos = {} THEN NULL ELSE listaBloqueado[k]
      visitados == {listaBloqueado[j] : j \in Alcancados(k)}
  IN /\ pc = "decrementar"
     /\ bcp' = [q \in Processos |->
                  CASE q = vencido -> Liberado(bcp[q])
                    [] q \in visitados \ {vencido} ->
                         [bcp[q] EXCEPT !.tempoIO = @ - tempoExecutado]
                    [] OTHER -> bcp[q]]
     /\ IF Vencidos = {}
          THEN UNCHANGED <<listaAptos, listaBloqueado>>
          ELSE /\ listaAptos' = Append(listaAptos, vencido)
               /\ listaBloqueado' = RemoveAt(listaBloqueado, k)
     /\ pc' = IF k < m - 1 THEN "excecao" ELSE "bloquear"
     /\ UNCHANGED <<tabela, alg, ciclo, listaProcessos, listaFinalizados, maximos, p,
                    tempoExecutado, ordemExecutados>>

\* The entries of p's listaIO that needBlock takes for due, by their place.
Devidos == IF p = NULL \/ bcp[p].tempoTotal <= 0
             THEN {}
             ELSE {k \in DOMAIN bcp[p].listaIO : bcp[p].listaIO[k] <= ciclo}

Max2(a, b) == IF a > b THEN a ELSE b

\* Mutant: the process that blocks is not taken from listaAptos.
MutBloqueiaSemMover ==
  /\ pc = "bloquear"
  /\ Devidos # {}
  /\ LET k == CHOOSE j \in Devidos : \A l \in Devidos : j <= l
     IN bcp' = [bcp EXCEPT ![p].listaIO = RemoveAt(@, k), ![p].isBlocked = TRUE]
  /\ listaBloqueado' = Append(listaBloqueado, p)
  /\ pc' = IF listaProcessos = <<>> THEN "proximo" ELSE "escalonar"
  /\ UNCHANGED <<tabela, alg, ciclo, listaAptos, listaProcessos, listaFinalizados, maximos,
                 p, tempoExecutado, ordemExecutados>>

\* Lines 59-65: p.needBlock(ciclo) and the sampling of the two maxima, and the
\* condition of the loop.
Bloqueia ==
  /\ pc = "bloquear"
  /\ IF Devidos = {}
       THEN UNCHANGED <<bcp, listaAptos, listaBloqueado>>
       ELSE LET k == CHOOSE j \in Devidos : \A l \in Devidos : j <= l
            IN /\ bcp' = [bcp EXCEPT ![p].listaIO = RemoveAt(@, k), ![p].isBlocked = TRUE]
               /\ listaAptos' = RemoveFirst(listaAptos, p)
               /\ listaBloqueado' = Append(listaBloqueado, p)
  /\ tamanhoMaxFilaAptos' = Max2(tamanhoMaxFilaAptos, Len(listaAptos'))
  /\ tamanhoMaxFilaBlock' = Max2(tamanhoMaxFilaBlock, Len(listaBloqueado'))
  /\ pc' = IF listaProcessos = <<>> THEN "proximo" ELSE "escalonar"
  /\ UNCHANGED <<tabela, alg, ciclo, listaProcessos, listaFinalizados, p, tempoExecutado,
                 ordemExecutados>>

\* Lines 67-68 and the for over listaAlg: ciclo starts again at 0 with the next
\* scheduler, whose table and lists are its own.
Proximo ==
  /\ pc = "proximo"
  /\ alg < Len(listaAlg)
  /\ alg' = alg + 1
  /\ ciclo' = 0
  /\ bcp' = [q \in Processos |-> NovoBCP(tabela[q])]
  /\ listaProcessos' = [q \in Processos |-> q]
  /\ listaAptos' = <<>> /\ listaBloqueado' = <<>> /\ listaFinalizados' = <<>>
  /\ tamanhoMaxFilaAptos' = 0 /\ tamanhoMaxFilaBlock' = 0
  /\ p' = NULL
  /\ tempoExecutado' = 0
  /\ ordemExecutados' = <<>>
  /\ pc' = "escalonar"
  /\ UNCHANGED tabela

Fim == /\ pc = "proximo"
       /\ alg = Len(listaAlg)
       /\ ciclo' = 0
       /\ pc' = "fim"
       /\ UNCHANGED <<tabela, alg, bcp, listas, maximos, p, tempoExecutado, ordemExecutados>>

Next == Escalona \/ Executa \/ Ocioso \/ Decrementa \/ Bloqueia \/ Proximo \/ Fim

Spec == Init /\ [][Next]_vars

\* The program has one thread, which keeps running.
FairSpec == Spec /\ WF_vars(Next)

-----------------------------------------------------------------------------
(* Properties *)

Bloco == [tempoTotal : Int, listaIO : Seq(Nat), tempoIO : 1..cicloIO, isBlocked : BOOLEAN,
          jaExecutou : BOOLEAN, tempoEsperaTotal : Nat]

\* Type invariant: the lists hold processes of the file, and no process owes
\* more than a quantum of time or is blocked with no time of IO left.
TypeOK ==
  /\ tabela \in Tabelas
  /\ alg \in DOMAIN listaAlg
  /\ ciclo \in Nat
  /\ bcp \in [Processos -> Bloco]
  /\ \A q \in Processos : bcp[q].tempoTotal \in -1..tabela[q].tempoTotal
  /\ listaProcessos \in Seq(Processos) /\ listaAptos \in Seq(Processos)
  /\ listaBloqueado \in Seq(Processos) /\ listaFinalizados \in Seq(Processos)
  /\ tamanhoMaxFilaAptos \in Nat /\ tamanhoMaxFilaBlock \in Nat
  /\ p \in Processos \cup {NULL}
  /\ tempoExecutado \in 0..quantum
  /\ ordemExecutados \in Seq(Processos)
  /\ pc \in {"escalonar", "executar", "decrementar", "bloquear", "proximo", "excecao", "fim"}

SemRepeticao(s) == \A j, k \in DOMAIN s : s[j] = s[k] => j = k

\* A process is in one place at a time: it is finished, or blocked, or ready,
\* or has not been noticed yet; the blocked ones are those whose isBlocked is
\* set; and listaProcessos holds just those that are not finished.  So line 60
\* always finds the process in listaAptos.
ListasCertas ==
  /\ \A s \in {listaProcessos, listaAptos, listaBloqueado, listaFinalizados} : SemRepeticao(s)
  /\ ToSet(listaProcessos) = Processos \ ToSet(listaFinalizados)
  /\ ToSet(listaAptos) \cup ToSet(listaBloqueado) \subseteq ToSet(listaProcessos)
  /\ ToSet(listaAptos) \cap ToSet(listaBloqueado) = {}
  /\ \A q \in Processos : bcp[q].isBlocked <=> q \in ToSet(listaBloqueado)
  /\ pc = "bloquear" /\ Devidos # {} => p \in ToSet(listaAptos)

Vezes(q) == Cardinality({j \in DOMAIN ordemExecutados : ordemExecutados[j] = q})

\* A process finishes having been given the processor once per unit of time it
\* needs, no more and no less (once if it needs none), whatever blocked it.
ExecutaTudo ==
  \A q \in ToSet(listaFinalizados) : Vezes(q) = Max2(1, tabela[q].tempoTotal)

\* The time that others ran since q ran first.
Esperou(q) == Cardinality({j \in DOMAIN ordemExecutados :
                             /\ ordemExecutados[j] # q
                             /\ tabela[ordemExecutados[j]].tempoTotal > 0
                             /\ \E k \in 1..j : ordemExecutados[k] = q})

\* tempoEsperaTotal is the time the others ran since the process ran first.
EsperaCerta == \A q \in ToSet(listaProcessos) : bcp[q].tempoEsperaTotal = Esperou(q)

\* Who could run now: arrived, not over, not doing IO.
Prontos == {q \in Processos : /\ tabela[q].tempoChegada <= ciclo
                             /\ q \notin ToSet(listaFinalizados)
                             /\ q \notin ToSet(listaBloqueado)}

\* Each algorithm keeps its rule over everybody who could run, not only over
\* those it had already noticed: SJF takes one with the least time left,
\* Prioridade one with the least number, and the processor is left idle only
\* when nobody could run.  With RoundRobin every turn brings those that are
\* ready, but for the one that runs, one place forward in listaAptos, and
\* nothing that arrives or comes back from IO moves them back: who is at place
\* k has the processor in k turns at the latest.
EscolheCerto ==
  [][/\ pc = "escalonar" =>
          /\ p' = NULL <=> Prontos = {}
          /\ p' # NULL => p' \in Prontos
          /\ p' # NULL /\ listaAlg[alg] = "Sjf" =>
               \A q \in Prontos : bcp[p'].tempoTotal <= bcp[q].tempoTotal
          /\ p' # NULL /\ listaAlg[alg] = "Prioridade" =>
               \A q \in Prontos : tabela[p'].prioridade <= tabela[q].prioridade
     /\ listaAlg[alg] = "RoundRobin" =>
          \A i \in DOMAIN listaAptos, j \in DOMAIN listaAptos' :
            listaAptos[i] = listaAptos'[j] /\ listaAptos[i] # p' =>
              IF pc = "escalonar" THEN j = i - 1 ELSE j <= i]_vars

\* How much longer the IO of the process at place i lasts: its own time, and one
\* unit for each process before it.
FaltaIO(i) == bcp[listaBloqueado[i]].tempoIO + i - 1
Passou == IF pc = "decrementar" THEN tempoExecutado ELSE 0

\* That the list is changed inside the iteration over it costs a process just
\* one unit of IO for each one that was blocked before it and is not back: who
\* comes to place k is back after k + 1 units of time, never sooner or later,
\* and nobody overtakes (unless the iterator throws first).
DuracaoIO ==
  [][/\ \A j \in DOMAIN listaBloqueado' :
          listaBloqueado'[j] \notin ToSet(listaBloqueado) =>
            j = Len(listaBloqueado) + 1 /\ FaltaIO(j)' = cicloIO + j - 1
     /\ \A i \in DOMAIN listaBloqueado, j \in DOMAIN listaBloqueado' :
          listaBloqueado[i] = listaBloqueado'[j] => FaltaIO(j)' = FaltaIO(i) - Passou
     /\ \A i \in DOMAIN listaBloqueado :
          listaBloqueado[i] \notin ToSet(listaBloqueado') => FaltaIO(i) = Passou]_vars

\* Every scheduler comes to its end, or the program dies of the exception.
Termina == <>(pc \in {"fim", "excecao"})

\* The comment of line 26: the loop goes on until the processes are over.
SemExcecao == pc # "excecao"

\* README.md:29: a process does IO for 2 units of time.  Each turn takes its
\* time off everybody who is blocked.
TodosDecrementam ==
  [][pc = "decrementar" =>
       \A q \in ToSet(listaBloqueado) :
         \/ bcp'[q].tempoIO = bcp[q].tempoIO - tempoExecutado
         \/ ~bcp'[q].isBlocked]_vars

\* README.md:15-16: an IO entry t means that the process does IO after it has
\* executed t times.
IORelativo ==
  [][\A q \in Processos :
       ~bcp[q].isBlocked /\ bcp'[q].isBlocked =>
         Contains(bcp[q].listaIO, Vezes(q)) ]_vars
-----------------------------------------------------------------------------
(* The inductive invariant *)

\* Who is or was noticed has arrived.
Chegaram == \A q \in ToSet(listaAptos) \cup ToSet(listaBloqueado) :
              tabela[q].tempoChegada <= ciclo

\* The scheduled process is among those that are ready until it is over, and a
\* scheduler that has come to its end has nobody left.
EmTurno ==
  /\ p # NULL /\ \/ pc = "executar"
                 \/ pc \in {"decrementar", "bloquear"} /\ bcp[p].tempoTotal > 0
       => p \in ToSet(listaAptos)
  /\ pc \in {"proximo", "fim"} => listaProcessos = <<>>

\* What a process still owes is what it needs less the times it ran, and it goes
\* on while it owes something, or has not run at all.
DeveCerto ==
  \A q \in Processos :
    /\ Vezes(q) = tabela[q].tempoTotal - bcp[q].tempoTotal
    /\ bcp[q].jaExecutou <=> q \in ToSet(ordemExecutados)
    /\ q \in ToSet(listaProcessos) => bcp[q].tempoTotal >= 0
                                      /\ (bcp[q].tempoTotal = 0 => tabela[q].tempoTotal = 0)
    /\ q \in ToSet(listaFinalizados) =>
         bcp[q].tempoTotal = IF tabela[q].tempoTotal = 0 THEN -1 ELSE 0

\* The time of IO is whole until a process blocks, and among the blocked least
\* for those that blocked first: it is always the first one that leaves.
EmFila ==
  /\ \A q \in Processos : ~bcp[q].isBlocked => bcp[q].tempoIO = cicloIO
  /\ \A i, j \in DOMAIN listaBloqueado :
       i < j => bcp[listaBloqueado[i]].tempoIO <= bcp[listaBloqueado[j]].tempoIO

IInv == TypeOK /\ ListasCertas /\ Chegaram /\ EmTurno /\ DeveCerto /\ EsperaCerta /\ EmFila
=============================================================================
