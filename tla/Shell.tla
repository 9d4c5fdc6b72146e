--------------------------------- MODULE Shell ---------------------------------
(***************************************************************************)
(* FORK, EXEC e terminal/shell.c: a shell that forks before it looks at    *)
(* the line.  After an empty line and after cd the child returns from      *)
(* executarComando like its parent, and there is one shell more; the       *)
(* history is looked up by the child only; and wait(NULL) takes any child. *)
(*                                                                         *)
(* All shells read one terminal: a line goes to one of those that are at   *)
(* the prompt.  What a child does up to exec or its own prompt touches     *)
(* nothing that another process sees, and is one step with the fork.  A    *)
(* line is its kind and a number: the directory of cd, the place in the    *)
(* history of "!n", which is a place in use.                               *)
(***************************************************************************)
EXTENDS Integers, Sequences, FiniteSets

CONSTANTS MaxLinhas,        \* how many lines the user types, at most 60, the
                            \* size of the history
          Diretorio         \* the directories; the shell starts in 0

ASSUME ShellAssumption == MaxLinhas \in 1..60 /\ Diretorio \subseteq Nat

VARIABLES
  tipo,         \* what process p is: "livre" (there is none), "shell",
                \* "programa", "zumbi" (not waited for yet), "fim"
  pai,          \* its parent, 0 if that has ended
  estado,       \* of a shell: "prompt" or "espera" (in wait)
  cwd,          \* its directory
  comands,      \* its history
  linhas,       \* how many lines were typed
  semEspera     \* how many children of p no wait of p is for; not in the code

Shvars == <<tipo, pai, estado, cwd, comands, linhas, semEspera>>

Pid == 1..(MaxLinhas + 1)
PRIMEIRO == 1

Linha(t, n) == [tipo |-> t, n |-> n]
VAZIA == Linha("vazia", 0)
EXIT == Linha("exit", 0)
CD == Linha("cd", 0)                \* without a directory
REPETE == Linha("!!", 0)
Externos == {Linha("programa", 0), Linha("programa &", 0)}

ShInit == /\ tipo = [p \in Pid |-> IF p = PRIMEIRO THEN "shell" ELSE "livre"]
          /\ pai = [p \in Pid |-> 0]
          /\ estado = [p \in Pid |-> "prompt"]
          /\ cwd = [p \in Pid |-> 0]
          /\ comands = [p \in Pid |-> <<>>]
          /\ linhas = 0
          /\ semEspera = [p \in Pid |-> 0]

Vivos == {"shell", "programa", "zumbi"}
Filhos(s) == {p \in Pid : pai[p] = s /\ tipo[p] \in Vivos}

-----------------------------------------------------------------------------
(* A line *)

\* Line 147: "!!" is not kept.
Guarda(h, l) == IF l = REPETE THEN h ELSE Append(h, l)

\* The place in the history h of what the line l stands for, 0 if l is no "!".
executeHistory(h, l) == CASE l.tipo = "!!" -> Len(h)
                          [] l.tipo = "!n" -> l.n
                          [] OTHER -> 0

\* What the child executes; an entry of the history is not looked up again.
Executa(h, l) == LET k == executeHistory(h, l) IN IF k = 0 THEN l ELSE h[k]

\* What becomes of the child: a shell, if it returns before exec; a program;
\* or it ends, because there is no program of that name, or because it looks
\* at the first word of an empty entry.
Torna(h, l) ==
  LET e == Executa(h, l) IN
  IF e.tipo = "cd" \/ l = VAZIA THEN "shell"
  ELSE IF e.tipo \in {"programa", "programa &"} THEN "programa"
  ELSE "zumbi"

\* strtok cuts the entry that readArgs takes apart, in the memory of the child.
Cortada(h, l) == LET k == executeHistory(h, l) IN
                 IF k # 0 /\ h[k].tipo = "cd" THEN [h EXCEPT ![k] = CD] ELSE h

shell_cd(d, l) == IF l.tipo = "cd" /\ l # CD THEN l.n ELSE d

\* Whether the parent waits: it tests the line typed, never the history.
ParaEsperar(l) == l.tipo \in {"programa", "!!", "!n"}

\* main and executarComando of shell s, up to the next prompt, wait or exec.
Comando(s, l) ==
  LET h == Guarda(comands[s], l)
      f == linhas + 2           \* the process that this line makes
  IN /\ tipo' = [tipo EXCEPT ![f] = Torna(h, l)]
     /\ pai' = [pai EXCEPT ![f] = s]
     /\ cwd' = [cwd EXCEPT ![s] = shell_cd(@, l), ![f] = shell_cd(cwd[s], Executa(h, l))]
     /\ comands' = [comands EXCEPT ![s] = h,
                                   ![f] = IF Torna(h, l) = "shell" THEN Cortada(h, l)
                                          ELSE <<>>]
     /\ estado' = IF ParaEsperar(l) THEN [estado EXCEPT ![s] = "espera"] ELSE estado
     /\ semEspera' = IF ParaEsperar(l) THEN semEspera
                     ELSE [semEspera EXCEPT ![s] = @ + 1]

\* fork gives -1, which passes for the parent's branch: it waits for whatever
\* child there is.
ComandoSemFork(s, l) ==
  /\ comands' = [comands EXCEPT ![s] = Guarda(@, l)]
  /\ cwd' = [cwd EXCEPT ![s] = shell_cd(@, l)]
  /\ IF ParaEsperar(l) /\ Filhos(s) # {}
     THEN /\ estado' = [estado EXCEPT ![s] = "espera"]
          /\ semEspera' = [semEspera EXCEPT ![s] = @ - 1]
     ELSE UNCHANGED <<estado, semEspera>>
  /\ UNCHANGED <<tipo, pai>>

\* The process p ends: its parent may wait for it, its children have none.
Acaba(p) ==
  /\ tipo' = [q \in Pid |->
       IF q = p THEN IF pai[p] = 0 THEN "fim" ELSE "zumbi"
       ELSE IF pai[q] = p /\ tipo[q] = "zumbi" THEN "fim" ELSE tipo[q]]
  /\ pai' = [q \in Pid |-> IF pai[q] = p THEN 0 ELSE pai[q]]

\* exit ends this shell and no other.
Sai(s) == /\ Acaba(s)
          /\ comands' = [comands EXCEPT ![s] = <<>>]
          /\ UNCHANGED <<estado, cwd, semEspera>>

\* What users may type to shell s; of "!n" one digit is read.  The end of the
\* input is read as one empty line after another.
Linhas(s) == {VAZIA, EXIT} \cup Externos \cup {Linha("cd", d) : d \in Diretorio \ {0}}
             \cup {l \in {REPETE} : comands[s] # <<>>}
             \cup {Linha("!n", k) : k \in {n \in 1..Len(comands[s]) : n <= 10}}

Le(s) == /\ tipo[s] = "shell" /\ estado[s] = "prompt" /\ linhas < MaxLinhas
         /\ \E l \in Linhas(s) : \/ l # EXIT /\ Comando(s, l)
                                 \/ l # EXIT /\ ComandoSemFork(s, l)
                                 \/ l = EXIT /\ Sai(s)
         /\ linhas' = linhas + 1

-----------------------------------------------------------------------------
(* Waiting *)

\* Mutants: wait with WNOHANG; waitpid for the child of this line.
MutEspera(s) == /\ tipo[s] = "shell" /\ estado[s] = "espera"
                /\ estado' = [estado EXCEPT ![s] = "prompt"]
                /\ UNCHANGED <<tipo, pai, cwd, comands, linhas, semEspera>>

MutEsperaUltimo(s) ==
  /\ tipo[s] = "shell" /\ estado[s] = "espera"
  /\ \E p \in Filhos(s) : /\ tipo[p] = "zumbi" /\ \A q \in Filhos(s) : q <= p
                          /\ tipo' = [tipo EXCEPT ![p] = "fim"]
  /\ estado' = [estado EXCEPT ![s] = "prompt"]
  /\ UNCHANGED <<pai, cwd, comands, linhas, semEspera>>

\* wait(NULL): any child that has ended will do.
Espera(s) == /\ tipo[s] = "shell" /\ estado[s] = "espera"
             /\ \E p \in Filhos(s) : /\ tipo[p] = "zumbi"
                                     /\ tipo' = [tipo EXCEPT ![p] = "fim"]
             /\ estado' = [estado EXCEPT ![s] = "prompt"]
             /\ UNCHANGED <<pai, cwd, comands, linhas, semEspera>>

\* A program ends.
Termina(p) == /\ tipo[p] = "programa"
              /\ Acaba(p)
              /\ UNCHANGED <<estado, cwd, comands, linhas, semEspera>>

ShNext == \E p \in Pid : Le(p) \/ Espera(p) \/ Termina(p)

ShSpec == ShInit /\ [][ShNext]_Shvars

\* The shells run and every program ends by itself.  Users may stop typing.
ShFairSpec == ShSpec /\ \A p \in Pid : WF_Shvars(Espera(p)) /\ WF_Shvars(Termina(p))

-----------------------------------------------------------------------------
(* Properties *)

\* Every wait takes just one child.  So a shell that has not run a command in
\* the background, nor an empty line or cd, has no child at its prompt: what it
\* ran has ended.  After that it has as many children too many, for good: each
\* later prompt may come back while the command just typed is still running.
Divida == \A s \in Pid : tipo[s] = "shell" =>
  Cardinality(Filhos(s)) = semEspera[s] + IF estado[s] = "espera" THEN 1 ELSE 0

\* As long as no process has such children, one shell at most reads the
\* terminal, however many shells came from a cd of the history: the others wait
\* for them, in a chain.
NoPrompt == {s \in Pid : tipo[s] = "shell" /\ estado[s] = "prompt"}
UmSoLeitor == (\A p \in Pid : semEspera[p] = 0) => Cardinality(NoPrompt) <= 1

\* The invariant behind both.  Types of what tells the processes apart:
TipoDosProcessos ==
  /\ tipo \in [Pid -> Vivos \cup {"livre", "fim"}]
  /\ pai \in [Pid -> {0} \cup Pid]
  /\ estado \in [Pid -> {"prompt", "espera"}]
  /\ semEspera \in [Pid -> Int]
  /\ linhas \in 0..MaxLinhas

\* who was not made yet has no children too many, and only shells wait;
Novos ==
  /\ \A p \in Pid : p > linhas + 1 => tipo[p] = "livre"
  /\ \A p \in Pid : tipo[p] = "livre" => semEspera[p] = 0
  /\ \A p \in Pid : tipo[p] # "shell" => estado[p] = "prompt"

\* and who lives is the child of a shell, or was left by one that has ended
\* with children too many.
Familia ==
  /\ pai[PRIMEIRO] = 0
  /\ \A p \in Pid : tipo[p] \in Vivos =>
       IF pai[p] # 0 THEN tipo[pai[p]] = "shell"
       ELSE p = PRIMEIRO \/ \E q \in Pid : tipo[q] # "shell" /\ semEspera[q] > 0

ShIInv == TipoDosProcessos /\ Novos /\ Familia /\ Divida

\* A shell that waits goes on when any child ends, be its other children shells
\* that run on.
EsperaTermina ==
  \A s \in Pid :
    (tipo[s] = "shell" /\ estado[s] = "espera" /\ \E p \in Filhos(s) : tipo[p] # "shell")
      ~> estado[s] = "prompt"

\* Line 99: "!0" is the first command; no entry of a history is ever cut.
HistoricoInteiro ==
  \A s \in Pid : \A k \in 1..Len(comands[s]) : comands[s][k] # CD
=============================================================================
