------------------------------- MODULE Jantar -------------------------------
(***************************************************************************)
(* What both dining-philosopher programs promise, free of any lock:        *)
(* IPC/semaforo_filosofo.c and IPC/monitor_filosofo.c keep one state word  *)
(* per philosopher (typedef enum philosopher_states) and a philosopher may *)
(* go from HUNGRY to EATING only while neither neighbour is EATING.        *)
(***************************************************************************)
EXTENDS Integers

CONSTANT N      \* number of philosophers, argv[1]

VARIABLE estado

Filosofo == 0..N-1

Estado == {"THINKING", "HUNGRY", "EATING"}

LEFT(i) == (i + N - 1) % N

RIGHT(i) == (i + 1) % N

Init == estado = [i \in Filosofo |-> "THINKING"]

FicaComFome(i) == /\ estado[i] = "THINKING"
                  /\ estado' = [estado EXCEPT ![i] = "HUNGRY"]

Come(i) == /\ estado[i] = "HUNGRY"
           /\ estado[LEFT(i)] # "EATING"
           /\ estado[RIGHT(i)] # "EATING"
           /\ estado' = [estado EXCEPT ![i] = "EATING"]

VoltaAPensar(i) == /\ estado[i] = "EATING"
                   /\ estado' = [estado EXCEPT ![i] = "THINKING"]

Next == \E i \in Filosofo : FicaComFome(i) \/ Come(i) \/ VoltaAPensar(i)

Spec == Init /\ [][Next]_estado
=============================================================================
