------------------------------ MODULE IPCProva ------------------------------
(***************************************************************************)
(* Proofs about the three programs of IPC, for every size: the             *)
(* philosophers with semaphores, those with a monitor, the readers and     *)
(* writers.  The last theorem of each part shows that the program          *)
(* implements Jantar or LeituraEscrita.  The three have a mutex and a loop *)
(* variable each, under the same names; no theorem is about two of them.   *)
(***************************************************************************)
EXTENDS SemaforoFilosofo, MonitorFilosofo, LeitorEscritor, FiniteSetTheorems, TLAPS

LEMMA Anel ==
  ASSUME NEW k \in Filosofo
  PROVE  /\ RIGHT(k) = IF k = N-1 THEN 0 ELSE k+1
         /\ LEFT(k) = IF k = 0 THEN N-1 ELSE k-1
  <1>1. N \in Nat /\ N > 0 /\ k \in Nat /\ k < N
    BY NAssumption DEF Filosofo
  <1>2. RIGHT(k) = IF k = N-1 THEN 0 ELSE k+1
    BY <1>1 DEF RIGHT
  <1>3. LEFT(k) = IF k = 0 THEN N-1 ELSE k-1
    BY <1>1 DEF LEFT
  <1>4. QED BY <1>2, <1>3

LEMMA AnelFecha ==
  ASSUME NEW k \in Celula
  PROVE  /\ LEFT(k) \in Filosofo /\ RIGHT(k) \in Filosofo
         /\ LEFT(k) \in Celula /\ RIGHT(k) \in Celula
  BY NAssumption DEF LEFT, RIGHT, Filosofo, Celula

LEMMA FilosofoCelula == Filosofo \subseteq Celula
  BY NAssumption DEF Filosofo, Celula

LEMMA AnelInverte ==
  ASSUME NEW k \in Filosofo
  PROVE  LEFT(RIGHT(k)) = k /\ RIGHT(LEFT(k)) = k
  <1>1. RIGHT(k) \in Filosofo /\ LEFT(k) \in Filosofo
    BY AnelFecha, NAssumption DEF Filosofo, Celula
  <1>2. QED
    BY <1>1, Anel, NAssumption DEF Filosofo

-----------------------------------------------------------------------------

Base == TypeOK /\ MainCerto /\ MutexCerto

LEMMA TestTipo ==
  ASSUME TypeOK, NEW k \in Celula, test(k)
  PROVE  filosofos' \in [Celula -> Estado] /\ sem_fil' \in [Celula -> Nat]
  BY DEF TypeOK, test, Estado

LEMMA EsperaTipo ==
  ASSUME TypeOK, NEW t \in Filosofo, Espera(t)
  PROVE  sem_fil' \in [Celula -> Nat]
  <1>1. ident[t] \in Celula
    BY DEF TypeOK
  <1>2. sem_fil[ident[t]] - 1 \in Nat
    BY <1>1 DEF TypeOK, Espera
  <1>3. QED
    BY <1>1, <1>2 DEF TypeOK, Espera

LEMMA BasePasso ==
  ASSUME Base, [Next]_vars
  PROVE  Base'
  <1>0. ASSUME NEW t \in Filosofo
        PROVE  /\ ident[t] \in Celula
               /\ LEFT(ident[t]) \in Celula /\ RIGHT(ident[t]) \in Celula
    BY AnelFecha DEF Base, TypeOK
  <1> USE NAssumption DEF Base, TypeOK, MainCerto, MutexCerto, Filosofo, Celula,
                          Estado, NaRegiaoCritica, Vai, Vivo
  <1>1. CASE Cria
    BY <1>1 DEF Cria
  <1>2. CASE Incrementa
    BY <1>2 DEF Incrementa
  <1>3. CASE ComecaJoin
    BY <1>3 DEF ComecaJoin
  <1>4. CASE CriaFalha
    BY <1>4 DEF CriaFalha
  <1>5. ASSUME NEW t \in Filosofo, LeI(t) PROVE Base'
    BY <1>5 DEF LeI
  <1>6. ASSUME NEW t \in Filosofo, PegaMutex(t) PROVE Base'
    BY <1>6 DEF PegaMutex, EsperaMutex
  <1>7. ASSUME NEW t \in Filosofo, Faminto(t) PROVE Base'
    BY <1>7 DEF Faminto
  <1>8. ASSUME NEW t \in Filosofo, Testa(t) PROVE Base'
    <2>1. filosofos' \in [Celula -> Estado] /\ sem_fil' \in [Celula -> Nat]
      BY <1>8, <1>0, TestTipo DEF Testa
    <2>2. QED
      BY <1>8, <2>1 DEF Testa
  <1>9. ASSUME NEW t \in Filosofo, Libera(t) PROVE Base'
    BY <1>9 DEF Libera, SoltaMutex
  <1>10. ASSUME NEW t \in Filosofo, Espera(t) PROVE Base'
    <2>1. sem_fil' \in [Celula -> Nat]
      BY <1>10, EsperaTipo
    <2>2. QED
      BY <1>10, <2>1 DEF Espera
  <1>11. ASSUME NEW t \in Filosofo, PegaMutexPor(t) PROVE Base'
    BY <1>11 DEF PegaMutexPor, EsperaMutex
  <1>12. ASSUME NEW t \in Filosofo, Devolve(t) PROVE Base'
    BY <1>12 DEF Devolve
  <1>13. ASSUME NEW t \in Filosofo, TestaLeft(t) PROVE Base'
    <2>1. filosofos' \in [Celula -> Estado] /\ sem_fil' \in [Celula -> Nat]
      BY <1>13, <1>0, TestTipo DEF TestaLeft
    <2>2. QED
      BY <1>13, <2>1 DEF TestaLeft
  <1>14. ASSUME NEW t \in Filosofo, TestaRight(t) PROVE Base'
    <2>1. filosofos' \in [Celula -> Estado] /\ sem_fil' \in [Celula -> Nat]
      BY <1>14, <1>0, TestTipo DEF TestaRight
    <2>2. QED
      BY <1>14, <2>1 DEF TestaRight
  <1>15. ASSUME NEW t \in Filosofo, LiberaPor(t) PROVE Base'
    BY <1>15 DEF LiberaPor, SoltaMutex
  <1>16. ASSUME NEW t \in Filosofo, ForaDosVetores(t) PROVE Base'
    BY <1>16 DEF ForaDosVetores
  <1>17. CASE UNCHANGED vars
    BY <1>17 DEF vars
  <1>18. QED
    BY <1>1, <1>2, <1>3, <1>4, <1>5, <1>6, <1>7, <1>8, <1>9, <1>10, <1>11, <1>12,
       <1>13, <1>14, <1>15, <1>16, <1>17 DEF Next, Main, Passo

LEMMA BaseInit == Init => Base
  BY NAssumption DEF Init, Base, TypeOK, MainCerto, MutexCerto, Filosofo, Celula,
                     Estado, NaRegiaoCritica

\* The variables keep to their types and the mutex semaphore stays binary, held
\* by the one thread inside a critical section, whatever numbers the threads
\* read.
THEOREM BaseSempre == Spec => []Base
  BY BaseInit, BasePasso, PTL DEF Spec

\* Type correctness.
THEOREM SemaforoTypeCorrect == Spec => []TypeOK
  BY BaseSempre, PTL DEF Base

\* The mutex is held by exactly one thread of the critical sections, or free.
THEOREM MutexCorreto == Spec => []MutexCerto
  BY BaseSempre, PTL DEF Base

-----------------------------------------------------------------------------
(* VetorExclui: every EATING is written by test *)

LEMMA TestExclui ==
  ASSUME TypeOK, VetorExclui, NEW k \in Celula, test(k)
  PROVE  VetorExclui'
  <1>1. CASE ~PodeComer(k)
    BY <1>1 DEF test, VetorExclui
  <1>2. CASE PodeComer(k)
    <2> SUFFICES ASSUME NEW j \in Filosofo, RIGHT(j) # j
                 PROVE  ~(filosofos'[j] = "EATING" /\ filosofos'[RIGHT(j)] = "EATING")
      BY DEF VetorExclui
    <2>1. j \in Celula /\ RIGHT(j) \in Celula /\ LEFT(RIGHT(j)) = j
      BY FilosofoCelula, AnelFecha, AnelInverte
    <2>2. \A c \in Celula : filosofos'[c] = IF c = k THEN "EATING" ELSE filosofos[c]
      BY <1>2 DEF test, TypeOK
    <2>3. CASE k = j
      BY <2>1, <2>2, <2>3, <1>2 DEF PodeComer
    <2>4. CASE k = RIGHT(j)
      BY <2>1, <2>2, <2>4, <1>2 DEF PodeComer
    <2>5. CASE k # j /\ k # RIGHT(j)
      BY <2>1, <2>2, <2>5 DEF VetorExclui
    <2>6. QED BY <2>3, <2>4, <2>5
  <1>3. QED BY <1>1, <1>2

\* Writing a state that is not EATING never makes two neighbours eat.
LEMMA OutroExclui ==
  ASSUME TypeOK, VetorExclui, NEW k \in Celula, NEW e \in Estado, e # "EATING",
         filosofos' = [filosofos EXCEPT ![k] = e]
  PROVE  VetorExclui'
  BY FilosofoCelula, AnelFecha DEF VetorExclui, TypeOK

LEMMA ExcluiPasso ==
  ASSUME Base, VetorExclui, [Next]_vars
  PROVE  VetorExclui'
  <1>0. ASSUME NEW t \in Filosofo
        PROVE  /\ ident[t] \in Celula
               /\ LEFT(ident[t]) \in Celula /\ RIGHT(ident[t]) \in Celula
    BY AnelFecha DEF Base, TypeOK
  <1>1. CASE UNCHANGED filosofos
    BY <1>1 DEF VetorExclui
  <1>2. ASSUME NEW t \in Filosofo, Faminto(t) PROVE VetorExclui'
    BY <1>0, <1>2, OutroExclui DEF Faminto, Base, Estado
  <1>3. ASSUME NEW t \in Filosofo, Devolve(t) PROVE VetorExclui'
    BY <1>0, <1>3, OutroExclui DEF Devolve, Base, Estado
  <1>4. ASSUME NEW t \in Filosofo, Testa(t) \/ TestaLeft(t) \/ TestaRight(t)
        PROVE  VetorExclui'
    BY <1>0, <1>4, TestExclui DEF Testa, TestaLeft, TestaRight, Base
  <1>5. UNCHANGED filosofos
        \/ \E t \in Filosofo : \/ Faminto(t) \/ Devolve(t) \/ Testa(t)
                              \/ TestaLeft(t) \/ TestaRight(t)
    BY DEF Next, Main, Cria, Incrementa, ComecaJoin, CriaFalha, Passo, LeI, PegaMutex,
           EsperaMutex, Libera, SoltaMutex, Espera, PegaMutexPor, LiberaPor,
           ForaDosVetores, vars
  <1>6. QED BY <1>1, <1>2, <1>3, <1>4, <1>5

LEMMA ExcluiInit == Init => VetorExclui
  BY FilosofoCelula, AnelFecha DEF Init, VetorExclui

\* The state array never shows two neighbours EATING, whatever numbers the
\* threads read.
THEOREM VetorExcluiSempre == Spec => []VetorExclui
  <1>1. Init => Base /\ VetorExclui
    BY BaseInit, ExcluiInit
  <1>2. Base /\ VetorExclui /\ [Next]_vars => (Base /\ VetorExclui)'
    BY BasePasso, ExcluiPasso
  <1>3. QED BY <1>1, <1>2, PTL DEF Spec

-----------------------------------------------------------------------------
(* FomeForte: nobody is left hungry between two philosophers who do not eat *)

LEMMA FamintoFome ==
  ASSUME Base, VetorExclui, FomeForte, NEW t \in Filosofo, Faminto(t)
  PROVE  FomeForte'
  <1> DEFINE x == ident[t]
  <1>1. x \in Celula /\ LEFT(x) \in Filosofo /\ RIGHT(x) \in Filosofo
    BY AnelFecha DEF Base, TypeOK
  <1>2. \A c \in Celula : filosofos'[c] = IF c = x THEN "HUNGRY" ELSE filosofos[c]
    BY <1>1 DEF Faminto, Base, TypeOK
  <1>3. pc' = [pc EXCEPT ![t] = "testa"] /\ ident' = ident /\ pc[t] = "faminto"
    BY DEF Faminto, Vai
  <1>4. pc'[t] = "testa"
    BY <1>3 DEF Base, TypeOK
  <1> SUFFICES ASSUME NEW k \in Filosofo, filosofos'[k] = "HUNGRY"
               PROVE  \/ filosofos'[LEFT(k)] = "EATING" \/ filosofos'[RIGHT(k)] = "EATING"
                      \/ \E s \in Filosofo : SeraTestado(k, s)'
    BY DEF FomeForte
  <1>5. /\ k \in Celula /\ LEFT(k) \in Filosofo /\ RIGHT(k) \in Filosofo
        /\ LEFT(k) \in Celula /\ RIGHT(k) \in Celula
        /\ LEFT(RIGHT(k)) = k /\ RIGHT(LEFT(k)) = k
    BY FilosofoCelula, AnelFecha, AnelInverte
  <1>6. CASE k = x
    BY <1>3, <1>4, <1>6 DEF SeraTestado
  <1>7. CASE k # x
    <2>1. filosofos[k] = "HUNGRY"
      BY <1>2, <1>5, <1>7
    <2>2. \A s \in Filosofo : ~SeraTestado(k, s)
      BY <1>3 DEF SeraTestado, Base, MutexCerto, NaRegiaoCritica
    <2>3. filosofos[LEFT(k)] = "EATING" \/ filosofos[RIGHT(k)] = "EATING"
      BY <2>1, <2>2 DEF FomeForte
    <2>4. CASE /\ filosofos'[LEFT(k)] # "EATING"
               /\ filosofos'[RIGHT(k)] # "EATING"
      <3>1. x \in {LEFT(k), RIGHT(k)} /\ filosofos[x] = "EATING" /\ x \in Filosofo
        BY <2>3, <2>4, <1>2, <1>5
      <3>2. k = LEFT(x) \/ k = RIGHT(x)
        BY <3>1, <1>5
      <3>3. LEFT(x) \in Celula /\ RIGHT(x) \in Celula
            /\ LEFT(RIGHT(x)) = x /\ RIGHT(LEFT(x)) = x
        BY <3>1, FilosofoCelula, AnelFecha, AnelInverte
      <3>4. filosofos'[LEFT(x)] # "EATING" /\ filosofos'[RIGHT(x)] # "EATING"
        BY <3>1, <3>3, <1>1, <1>2 DEF VetorExclui
      <3>5. PodeComer(x)'
        BY <3>4, <1>1, <1>2, <1>3 DEF PodeComer
      <3>6. SeraTestado(k, t)'
        BY <3>1, <3>2, <3>5, <1>3, <1>4 DEF SeraTestado
      <3>7. QED BY <3>6
    <2>5. QED BY <2>4
  <1>8. QED BY <1>6, <1>7

\* test(x) never takes a fork away, and leaves x itself eating or with a
\* neighbour who eats.
LEMMA TestJustifica ==
  ASSUME TypeOK, NEW x \in Celula, test(x)
  PROVE  /\ \A c \in Celula : filosofos[c] = "EATING" => filosofos'[c] = "EATING"
         /\ \A c \in Celula : filosofos'[c] = "HUNGRY" => filosofos[c] = "HUNGRY"
         /\ filosofos'[x] = "HUNGRY" =>
              filosofos'[LEFT(x)] = "EATING" \/ filosofos'[RIGHT(x)] = "EATING"
         /\ PodeComer(x) => filosofos'[x] = "EATING"
  <1>1. CASE PodeComer(x)
    <2>1. \A c \in Celula : filosofos'[c] = IF c = x THEN "EATING" ELSE filosofos[c]
      BY <1>1 DEF test, TypeOK
    <2>2. QED BY <2>1
  <1>2. CASE ~PodeComer(x)
    <2>1. filosofos' = filosofos
      BY <1>2 DEF test
    <2>2. QED BY <1>2, <2>1 DEF PodeComer
  <1>3. QED BY <1>1, <1>2

\* The three actions of thread t that test a place.
LEMMA TestaFome ==
  ASSUME Base, FomeForte, NEW t \in Filosofo, Testa(t) \/ TestaLeft(t) \/ TestaRight(t)
  PROVE  FomeForte'
  <1> DEFINE x == ident[t]
  <1>1. x \in Celula /\ LEFT(x) \in Filosofo /\ RIGHT(x) \in Filosofo
        /\ LEFT(x) \in Celula /\ RIGHT(x) \in Celula
    BY AnelFecha DEF Base, TypeOK
  <1>2. TypeOK
    BY DEF Base
  <1> SUFFICES ASSUME NEW k \in Filosofo, filosofos'[k] = "HUNGRY"
               PROVE  \/ filosofos'[LEFT(k)] = "EATING" \/ filosofos'[RIGHT(k)] = "EATING"
                      \/ \E s \in Filosofo : SeraTestado(k, s)'
    BY DEF FomeForte
  <1>3. k \in Celula /\ LEFT(k) \in Celula /\ RIGHT(k) \in Celula
        /\ LEFT(RIGHT(k)) = k /\ RIGHT(LEFT(k)) = k
    BY FilosofoCelula, AnelFecha, AnelInverte
  <1>4. ASSUME NEW s \in Filosofo, SeraTestado(k, s) PROVE s = t
    BY <1>4 DEF SeraTestado, Base, MutexCerto, NaRegiaoCritica, Testa, TestaLeft,
                TestaRight, Vai
  <1>5. CASE Testa(t)
    <2>1. test(x) /\ pc[t] = "testa"
      BY <1>5 DEF Testa, Vai
    <2>2. CASE k = x
      BY <2>1, <2>2, <1>1, <1>2, TestJustifica
    <2>3. CASE k # x /\ SeraTestado(k, t)
      <3>1. PodeComer(x) /\ x \in Filosofo /\ (k = LEFT(x) \/ k = RIGHT(x))
        BY <2>1, <2>3 DEF SeraTestado
      <3>2. filosofos'[x] = "EATING"
        BY <3>1, <2>1, <1>1, <1>2, TestJustifica
      <3>3. x = LEFT(k) \/ x = RIGHT(k)
        BY <3>1, AnelInverte
      <3>4. QED BY <3>2, <3>3
    <2>4. CASE ~SeraTestado(k, t)
      <3>1. filosofos[k] = "HUNGRY"
        BY <2>1, <1>1, <1>2, <1>3, TestJustifica
      <3>2. filosofos[LEFT(k)] = "EATING" \/ filosofos[RIGHT(k)] = "EATING"
        BY <3>1, <2>4, <1>4 DEF FomeForte
      <3>3. QED BY <3>2, <2>1, <1>1, <1>2, <1>3, TestJustifica
    <2>5. QED BY <2>2, <2>3, <2>4
  <1>6. CASE TestaLeft(t)
    <2>1. /\ test(LEFT(x)) /\ pc[t] = "testa_left"
          /\ pc' = [pc EXCEPT ![t] = "testa_right"] /\ ident' = ident
      BY <1>6 DEF TestaLeft, Vai
    <2>2. pc'[t] = "testa_right"
      BY <2>1, <1>2 DEF TypeOK
    <2>3. CASE k = LEFT(x)
      BY <2>1, <2>3, <1>1, <1>2, TestJustifica
    <2>4. CASE k = RIGHT(x)
      BY <2>1, <2>2, <2>4 DEF SeraTestado
    <2>5. CASE k # LEFT(x) /\ k # RIGHT(x)
      <3>1. ~SeraTestado(k, t)
        BY <2>1, <2>5 DEF SeraTestado
      <3>2. filosofos[k] = "HUNGRY"
        BY <2>1, <1>1, <1>2, <1>3, TestJustifica
      <3>3. filosofos[LEFT(k)] = "EATING" \/ filosofos[RIGHT(k)] = "EATING"
        BY <3>1, <3>2, <1>4 DEF FomeForte
      <3>4. QED BY <3>3, <2>1, <1>1, <1>2, <1>3, TestJustifica
    <2>6. QED BY <2>3, <2>4, <2>5
  <1>7. CASE TestaRight(t)
    <2>1. test(RIGHT(x)) /\ pc[t] = "testa_right"
      BY <1>7 DEF TestaRight, Vai
    <2>2. CASE k = RIGHT(x)
      BY <2>1, <2>2, <1>1, <1>2, TestJustifica
    <2>3. CASE k # RIGHT(x)
      <3>1. ~SeraTestado(k, t)
        BY <2>1, <2>3 DEF SeraTestado
      <3>2. filosofos[k] = "HUNGRY"
        BY <2>1, <1>1, <1>2, <1>3, TestJustifica
      <3>3. filosofos[LEFT(k)] = "EATING" \/ filosofos[RIGHT(k)] = "EATING"
        BY <3>1, <3>2, <1>4 DEF FomeForte
      <3>4. QED BY <3>3, <2>1, <1>1, <1>2, <1>3, TestJustifica
    <2>4. QED BY <2>2, <2>3
  <1>8. QED BY <1>5, <1>6, <1>7

\* por_garfo says THINKING and owes both neighbours a test.
LEMMA DevolveFome ==
  ASSUME Base, FomeForte, NEW t \in Filosofo, Devolve(t)
  PROVE  FomeForte'
  <1> DEFINE x == ident[t]
  <1>1. x \in Celula
    BY DEF Base, TypeOK
  <1>2. \A c \in Celula : filosofos'[c] = IF c = x THEN "THINKING" ELSE filosofos[c]
    BY <1>1 DEF Devolve, Base, TypeOK
  <1>3. pc' = [pc EXCEPT ![t] = "testa_left"] /\ ident' = ident /\ pc[t] = "devolve"
    BY DEF Devolve, Vai
  <1>4. pc'[t] = "testa_left"
    BY <1>3 DEF Base, TypeOK
  <1> SUFFICES ASSUME NEW k \in Filosofo, filosofos'[k] = "HUNGRY"
               PROVE  \/ filosofos'[LEFT(k)] = "EATING" \/ filosofos'[RIGHT(k)] = "EATING"
                      \/ \E s \in Filosofo : SeraTestado(k, s)'
    BY DEF FomeForte
  <1>5. /\ k \in Celula /\ LEFT(k) \in Celula /\ RIGHT(k) \in Celula
        /\ LEFT(RIGHT(k)) = k /\ RIGHT(LEFT(k)) = k
    BY FilosofoCelula, AnelFecha, AnelInverte
  <1>6. CASE k = LEFT(x) \/ k = RIGHT(x)
    BY <1>3, <1>4, <1>6 DEF SeraTestado
  <1>7. CASE k # LEFT(x) /\ k # RIGHT(x)
    <2>1. filosofos[k] = "HUNGRY"
      BY <1>2, <1>5
    <2>2. \A s \in Filosofo : ~SeraTestado(k, s)
      BY <1>3 DEF SeraTestado, Base, MutexCerto, NaRegiaoCritica
    <2>3. filosofos[LEFT(k)] = "EATING" \/ filosofos[RIGHT(k)] = "EATING"
      BY <2>1, <2>2 DEF FomeForte
    <2>4. x # LEFT(k) /\ x # RIGHT(k)
      BY <1>5, <1>7
    <2>5. QED BY <2>3, <2>4, <1>2, <1>5
  <1>8. QED BY <1>6, <1>7

\* The steps that neither write the state array nor end a test.
LEMMA RestoFome ==
  ASSUME FomeForte, UNCHANGED filosofos,
         NEW t \in Filosofo, pc[t] \notin {"testa", "testa_left", "testa_right"},
         \A s \in Filosofo : s # t => pc'[s] = pc[s] /\ ident'[s] = ident[s]
  PROVE  FomeForte'
  <1>1. ASSUME NEW k \in Filosofo, NEW s \in Filosofo, SeraTestado(k, s)
        PROVE  SeraTestado(k, s)'
    BY <1>1 DEF SeraTestado, PodeComer
  <1>2. QED BY <1>1 DEF FomeForte

LEMMA FomePasso ==
  ASSUME Base, VetorExclui, FomeForte, [Next]_vars
  PROVE  FomeForte'
  <1> USE DEF Vai
  <1>0. /\ pc = [s \in Filosofo |-> pc[s]]
        /\ ident = [s \in Filosofo |-> ident[s]]
        /\ i \in Celula
    BY DEF Base, TypeOK, Celula
  <1>1. CASE UNCHANGED <<filosofos, pc, ident>>
    <2>1. \A k, s \in Filosofo : SeraTestado(k, s)' = SeraTestado(k, s)
      BY <1>1 DEF SeraTestado, PodeComer
    <2>2. QED BY <1>1, <2>1 DEF FomeForte
  <1>2. CASE Cria
    <2>1. i \in Filosofo /\ pc[i] = "nao_criado"
      BY <1>2, <1>0, NAssumption DEF Cria, Base, MainCerto, Filosofo, Celula
    <2>2. \A s \in Filosofo : s # i => pc'[s] = pc[s] /\ ident'[s] = ident[s]
      BY <1>2, <1>0 DEF Cria
    <2>3. UNCHANGED filosofos
      BY <1>2 DEF Cria
    <2>4. QED BY <2>1, <2>2, <2>3, RestoFome
  <1>3. ASSUME NEW t \in Filosofo,
               \/ LeI(t) \/ PegaMutex(t) \/ Libera(t) \/ Espera(t)
               \/ PegaMutexPor(t) \/ LiberaPor(t)
        PROVE  FomeForte'
    <2>1. /\ UNCHANGED filosofos
          /\ pc[t] \notin {"testa", "testa_left", "testa_right"}
      BY <1>3 DEF LeI, PegaMutex, EsperaMutex, Libera, SoltaMutex, Espera,
                  PegaMutexPor, LiberaPor
    <2>2. \A s \in Filosofo : s # t => pc'[s] = pc[s] /\ ident'[s] = ident[s]
      BY <1>3, <1>0 DEF LeI, PegaMutex, EsperaMutex, Libera, SoltaMutex, Espera,
                  PegaMutexPor, LiberaPor
    <2>3. QED BY <2>1, <2>2, RestoFome
  <1>4. ASSUME NEW t \in Filosofo, Faminto(t) PROVE FomeForte'
    BY <1>4, FamintoFome
  <1>5. ASSUME NEW t \in Filosofo, Testa(t) \/ TestaLeft(t) \/ TestaRight(t)
        PROVE  FomeForte'
    BY <1>5, TestaFome
  <1>6. ASSUME NEW t \in Filosofo, Devolve(t) PROVE FomeForte'
    BY <1>6, DevolveFome
  <1>7. CASE Incrementa \/ ComecaJoin \/ CriaFalha
             \/ (\E t \in Filosofo : ForaDosVetores(t)) \/ UNCHANGED vars
    BY <1>7, <1>1 DEF Incrementa, ComecaJoin, CriaFalha, ForaDosVetores, vars
  <1>8. QED
    BY <1>2, <1>3, <1>4, <1>5, <1>6, <1>7 DEF Next, Main, Passo

LEMMA FomeInit == Init => FomeForte
  <1>1. Filosofo \subseteq Celula
    BY FilosofoCelula
  <1>2. QED BY <1>1 DEF Init, FomeForte

LEMMA FomeLivre ==
  ASSUME Base, FomeForte PROVE FomeJustificada
  <1>1. mutex = 1 => \A k, t \in Filosofo : ~SeraTestado(k, t)
    BY DEF Base, MutexCerto, NaRegiaoCritica, SeraTestado
  <1>2. QED BY <1>1 DEF FomeForte, FomeJustificada

\* No wake-up is lost: with the mutex free, a philosopher who is still HUNGRY
\* has a neighbour who is eating and will test him in por_garfo.
THEOREM FomeJustificadaSempre == Spec => []FomeJustificada
  <1>1. Init => Base /\ VetorExclui /\ FomeForte
    BY BaseInit, ExcluiInit, FomeInit
  <1>2. Base /\ VetorExclui /\ FomeForte /\ [Next]_vars
          => (Base /\ VetorExclui /\ FomeForte)'
    BY BasePasso, ExcluiPasso, FomePasso
  <1>3. Base /\ VetorExclui /\ FomeForte => FomeJustificada
    BY FomeLivre
  <1>4. QED BY <1>1, <1>2, <1>3, PTL DEF Spec

-----------------------------------------------------------------------------
(* LugaresCertos, and with it the exclusion of the threads themselves *)

\* A number once read is kept, so a lost race stays lost.
LEMMA DistintasAntes ==
  ASSUME Base, [Next]_vars, IdentidadesDistintas'
  PROVE  IdentidadesDistintas
  <1>1. \A t \in Iniciados : t \in Iniciados' /\ ident'[t] = ident[t]
    BY DEF Iniciados, Base, TypeOK, MainCerto, Next, Main, Cria, Incrementa, ComecaJoin,
           CriaFalha, Passo, LeI, PegaMutex, EsperaMutex, Libera, SoltaMutex, Espera,
           PegaMutexPor, LiberaPor, Faminto, Testa, Devolve, TestaLeft, TestaRight,
           ForaDosVetores, vars, Vai
  <1>2. QED BY <1>1 DEF IdentidadesDistintas

\* A step of t that writes nothing but t's own place.
LEMMA SoOSeuLugar ==
  ASSUME Base, IdentidadesDistintas, Lugares,
         NEW t \in Iniciados, Iniciados' = Iniciados, ident' = ident,
         \A s \in Iniciados : s # t => pc'[s] = pc[s],
         \A c \in Celula : c # ident[t] =>
            filosofos'[c] = filosofos[c] /\ sem_fil'[c] = sem_fil[c],
         LugarDe(t)'
  PROVE  Lugares'
  <1>1. \A s \in Iniciados : ident[s] \in Celula
    BY DEF Base, TypeOK, Iniciados
  <1>2. ASSUME NEW s \in Iniciados, s # t PROVE LugarDe(s)'
    <2>1. ident[s] # ident[t]
      BY <1>2 DEF IdentidadesDistintas
    <2>2. LugarDe(s)
      BY DEF Lugares
    <2>3. QED BY <2>1, <2>2, <1>1, <1>2 DEF LugarDe
  <1>3. ASSUME NEW k \in Celula, \A s \in Iniciados : ident[s] # k
        PROVE  LugarVazio(k)'
    BY <1>3 DEF Lugares, LugarVazio
  <1>4. QED BY <1>2, <1>3 DEF Lugares

\* The actions of por_garfo that test a neighbour's place: the neighbour, if he
\* may eat, is asleep on his semaphore.
LEMMA TestaVizinho ==
  ASSUME Base, IdentidadesDistintas, Lugares,
         NEW t \in Iniciados, Iniciados' = Iniciados, ident' = ident,
         NEW de \in {"testa_left", "testa_right"},
         NEW para \in {"testa_right", "libera_por"},
         pc[t] = de, pc' = [pc EXCEPT ![t] = para],
         NEW x \in Celula, test(x)
  PROVE  Lugares'
  <1>0. /\ pc = [s \in Filosofo |-> pc[s]] /\ t \in Filosofo
        /\ filosofos = [c \in Celula |-> filosofos[c]]
        /\ sem_fil = [c \in Celula |-> sem_fil[c]]
        /\ \A s \in Iniciados : s \in Filosofo /\ ident[s] \in Celula
    BY DEF Base, TypeOK, Iniciados
  <1>1. CASE ~PodeComer(x)
    <2>1. filosofos' = filosofos /\ sem_fil' = sem_fil
      BY <1>1 DEF test
    <2>2. \A s \in Iniciados : LugarDe(s)'
      BY <1>0, <2>1 DEF Lugares, LugarDe
    <2>3. QED BY <2>1, <2>2 DEF Lugares, LugarVazio
  <1>2. CASE PodeComer(x)
    <2>1. /\ filosofos[x] = "HUNGRY"
          /\ \A c \in Celula : filosofos'[c] = IF c = x THEN "EATING" ELSE filosofos[c]
          /\ \A c \in Celula : sem_fil'[c] = IF c = x THEN sem_fil[c] + 1 ELSE sem_fil[c]
      BY <1>0, <1>2 DEF test, PodeComer
    <2>2. PICK s \in Iniciados : ident[s] = x
      BY <2>1 DEF Lugares, LugarVazio
    <2>3. s # t
      BY <2>1, <2>2 DEF Lugares, LugarDe
    <2>4. pc[s] \notin NaRegiaoCritica
      BY <1>0, <2>3 DEF Base, MutexCerto, NaRegiaoCritica
    <2>5. pc[s] = "espera" /\ sem_fil[x] = 0
      BY <1>0, <2>1, <2>2, <2>4 DEF Lugares, LugarDe, NaRegiaoCritica, Base, TypeOK, Iniciados
    <2>6. LugarDe(s)'
      BY <1>0, <2>1, <2>2, <2>3, <2>5 DEF LugarDe
    <2>7. ASSUME NEW r \in Iniciados, r # s PROVE LugarDe(r)'
      <3>1. ident[r] # x /\ LugarDe(r)
        BY <2>2, <2>7 DEF IdentidadesDistintas, Lugares
      <3>2. filosofos'[ident[r]] = filosofos[ident[r]] /\ sem_fil'[ident[r]] = sem_fil[ident[r]]
        BY <3>1, <1>0, <2>1
      <3>3. pc'[r] = IF r = t THEN para ELSE pc[r]
        BY <1>0
      <3>4. QED BY <3>1, <3>2, <3>3 DEF LugarDe
    <2>8. ASSUME NEW k \in Celula, \A r \in Iniciados : ident[r] # k
          PROVE  LugarVazio(k)'
      <3>1. k # x /\ LugarVazio(k)
        BY <2>2, <2>8 DEF Lugares
      <3>2. QED BY <3>1, <2>1 DEF LugarVazio
    <2>9. QED BY <2>6, <2>7, <2>8 DEF Lugares
  <1>3. QED BY <1>1, <1>2

LEMMA LugaresPasso ==
  ASSUME Base, IdentidadesDistintas, IdentidadesDistintas', Lugares, [Next]_vars
  PROVE  Lugares'
  <1> USE DEF Vai
  <1>0. /\ pc = [s \in Filosofo |-> pc[s]]
        /\ ident = [s \in Filosofo |-> ident[s]]
        /\ filosofos = [c \in Celula |-> filosofos[c]]
        /\ sem_fil = [c \in Celula |-> sem_fil[c]]
        /\ \A s \in Filosofo : ident[s] \in Celula
        /\ \A s \in Iniciados : s \in Filosofo /\ ident[s] \in Celula
        /\ i \in Celula
    BY DEF Base, TypeOK, Iniciados, Celula
  <1>1. ASSUME Iniciados' = Iniciados, UNCHANGED <<filosofos, sem_fil, ident>>,
               \A s \in Iniciados : pc'[s] = pc[s]
        PROVE  Lugares'
    BY <1>1 DEF Lugares, LugarDe, LugarVazio
  <1>2. CASE Incrementa \/ ComecaJoin \/ CriaFalha
             \/ (\E t \in Filosofo : ForaDosVetores(t)) \/ UNCHANGED vars
    <2>1. Iniciados' = Iniciados /\ UNCHANGED <<filosofos, sem_fil, ident, pc>>
      BY <1>2 DEF Incrementa, ComecaJoin, CriaFalha, ForaDosVetores, vars, Iniciados
    <2>2. QED BY <2>1, <1>1
  <1>3. CASE Cria
    <2>1. i \in Filosofo /\ pc[i] = "nao_criado"
      BY <1>3, <1>0, NAssumption DEF Cria, Base, MainCerto, Filosofo, Celula
    <2>2. /\ \A s \in Filosofo : pc'[s] = IF s = i THEN "le_i" ELSE pc[s]
          /\ UNCHANGED <<filosofos, sem_fil, ident>>
      BY <1>3, <1>0 DEF Cria
    <2>3. Iniciados' = Iniciados
      BY <2>1, <2>2 DEF Iniciados
    <2>4. QED BY <2>1, <2>2, <2>3, <1>1 DEF Iniciados
  <1>4. ASSUME NEW t \in Filosofo, LeI(t) PROVE Lugares'
    <2>1. /\ \A s \in Filosofo : pc'[s] = IF s = t THEN "pensando" ELSE pc[s]
          /\ \A s \in Filosofo : ident'[s] = IF s = t THEN i ELSE ident[s]
          /\ UNCHANGED <<filosofos, sem_fil>>
          /\ pc[t] = "le_i"
      BY <1>4, <1>0 DEF LeI
    <2>2. t \notin Iniciados /\ Iniciados' = Iniciados \cup {t}
      BY <2>1 DEF Iniciados
    <2>3. \A s \in Iniciados : ident[s] # i
      BY <2>1, <2>2, <1>0 DEF IdentidadesDistintas
    <2>4. LugarDe(t)'
      BY <2>1, <2>3, <1>0 DEF Lugares, LugarVazio, LugarDe
    <2>5. \A s \in Iniciados : LugarDe(s)'
      BY <2>1, <2>2, <1>0 DEF Lugares, LugarDe
    <2>6. \A k \in Celula : (\A s \in Iniciados' : ident'[s] # k) => LugarVazio(k)'
      BY <2>1, <2>2, <1>0 DEF Lugares, LugarVazio
    <2>7. QED BY <2>2, <2>4, <2>5, <2>6 DEF Lugares
  <1>5. ASSUME NEW t \in Filosofo,
               \/ PegaMutex(t) \/ Faminto(t) \/ Testa(t) \/ Libera(t) \/ Espera(t)
               \/ PegaMutexPor(t) \/ Devolve(t) \/ LiberaPor(t)
        PROVE  Lugares'
    <2>1. t \in Iniciados /\ Iniciados' = Iniciados /\ ident' = ident
      BY <1>5, <1>0 DEF Iniciados, PegaMutex, EsperaMutex, Faminto, Testa, Libera,
                        SoltaMutex, Espera, PegaMutexPor, Devolve, LiberaPor
    <2>2. \A s \in Iniciados : s # t => pc'[s] = pc[s]
      BY <1>5, <1>0 DEF PegaMutex, EsperaMutex, Faminto, Testa, Libera,
                        SoltaMutex, Espera, PegaMutexPor, Devolve, LiberaPor
    <2>3. \A c \in Celula : c # ident[t] =>
             filosofos'[c] = filosofos[c] /\ sem_fil'[c] = sem_fil[c]
      BY <1>5, <1>0 DEF PegaMutex, EsperaMutex, Faminto, Testa, test, Libera,
                        SoltaMutex, Espera, PegaMutexPor, Devolve, LiberaPor
    <2>4. LugarDe(t)
      BY <2>1 DEF Lugares
    <2>5. LugarDe(t)'
      <3>1. CASE PegaMutex(t) \/ Libera(t) \/ PegaMutexPor(t) \/ LiberaPor(t)
        BY <3>1, <2>4, <1>0 DEF PegaMutex, EsperaMutex, Libera, SoltaMutex, PegaMutexPor,
                                LiberaPor, LugarDe
      <3>2. CASE Faminto(t)
        BY <3>2, <2>4, <1>0 DEF Faminto, LugarDe
      <3>3. CASE Testa(t) /\ PodeComer(ident[t])
        BY <3>3, <2>4, <1>0 DEF Testa, test, LugarDe
      <3>4. CASE Testa(t) /\ ~PodeComer(ident[t])
        BY <3>4, <2>4, <1>0 DEF Testa, test, LugarDe
      <3>5. CASE Espera(t)
        <4>1. filosofos[ident[t]] = "EATING" /\ sem_fil[ident[t]] = 1
          BY <3>5, <2>4 DEF Espera, LugarDe
        <4>2. QED BY <4>1, <3>5, <1>0 DEF Espera, LugarDe
      <3>6. CASE Devolve(t)
        BY <3>6, <2>4, <1>0 DEF Devolve, LugarDe
      <3>7. QED BY <1>5, <3>1, <3>2, <3>3, <3>4, <3>5, <3>6
    <2>6. QED BY <2>1, <2>2, <2>3, <2>5, SoOSeuLugar
  <1>6. ASSUME NEW t \in Filosofo, TestaLeft(t) \/ TestaRight(t) PROVE Lugares'
    <2>1. t \in Iniciados /\ Iniciados' = Iniciados /\ ident' = ident
      BY <1>6, <1>0 DEF Iniciados, TestaLeft, TestaRight
    <2>2. LEFT(ident[t]) \in Celula /\ RIGHT(ident[t]) \in Celula
      BY <1>0, AnelFecha
    <2>3. CASE TestaLeft(t)
      BY <2>1, <2>2, <2>3, TestaVizinho DEF TestaLeft
    <2>4. CASE TestaRight(t)
      BY <2>1, <2>2, <2>4, TestaVizinho DEF TestaRight
    <2>5. QED BY <1>6, <2>3, <2>4
  <1>7. QED
    BY <1>2, <1>3, <1>4, <1>5, <1>6 DEF Next, Main, Passo

LEMMA LugaresInit == Init => Lugares
  <1>1. Init => Iniciados = {}
    BY DEF Init, Iniciados
  <1>2. QED BY <1>1 DEF Init, Lugares, LugarVazio

LEMMA IInvInit == Init => IInv
  BY BaseInit, ExcluiInit, FomeInit, LugaresInit DEF IInv, Base, LugaresCertos

LEMMA IInvPasso ==
  ASSUME IInv, [Next]_vars
  PROVE  IInv'
  <1>1. Base /\ VetorExclui /\ FomeForte /\ LugaresCertos
    BY DEF IInv, Base
  <1>2. Base' /\ VetorExclui' /\ FomeForte'
    BY <1>1, BasePasso, ExcluiPasso, FomePasso
  <1>3. ASSUME IdentidadesDistintas' PROVE Lugares'
    <2>1. IdentidadesDistintas
      BY <1>1, <1>3, DistintasAntes
    <2>2. QED BY <1>1, <1>3, <2>1, LugaresPasso DEF LugaresCertos
  <1>4. QED BY <1>2, <1>3 DEF IInv, Base, LugaresCertos

\* The inductive invariant of the program.
THEOREM SemaforoIndutivo == Spec => []IInv
  BY IInvInit, IInvPasso, PTL DEF Spec

\* The state array, the semaphores and the place of every thread agree as long
\* as the race on i is not lost.
THEOREM LugaresCertosSempre == Spec => []LugaresCertos
  BY SemaforoIndutivo, PTL DEF IInv

LEMMA ComendoExclui ==
  ASSUME IInv PROVE GarfosExclusivos
  <1> SUFFICES ASSUME IdentidadesDistintas,
                      NEW s \in Filosofo, NEW t \in Filosofo, s # t, Come(s), Come(t),
                      CompartilhamGarfo(ident[s], ident[t])
               PROVE  FALSE
    BY DEF GarfosExclusivos, NinguemDivideGarfo
  <1>1. s \in Iniciados /\ t \in Iniciados
    BY DEF Come, Iniciados
  <1>2. filosofos[ident[s]] = "EATING" /\ filosofos[ident[t]] = "EATING"
    BY <1>1 DEF IInv, LugaresCertos, Lugares, LugarDe, Come
  <1>3. ident[s] \in Filosofo /\ ident[t] \in Filosofo /\ ident[s] # ident[t]
    BY <1>1 DEF IdentidadesDistintas
  <1>4. RIGHT(ident[s]) = ident[t] \/ RIGHT(ident[t]) = ident[s]
    BY <1>3, AnelInverte DEF CompartilhamGarfo
  <1>5. QED BY <1>2, <1>3, <1>4 DEF IInv, VetorExclui

\* The promise of lines 44-46: as long as every thread read a number of its
\* own, no two threads that eat share a fork.
THEOREM GarfosExclusivosSempre == Spec => []GarfosExclusivos
  BY SemaforoIndutivo, ComendoExclui, PTL

-----------------------------------------------------------------------------
(* The program implements Jantar while the race on i is harmless *)

LEMMA MesaInit == Init => J!Init
  <1>1. Filosofo \subseteq Celula
    BY FilosofoCelula
  <1>2. QED BY <1>1 DEF Init, mesa, J!Init, J!Filosofo, Filosofo

\* What test(k) does to the table.
LEMMA TestMesa ==
  ASSUME TypeOK, NEW k \in Filosofo, test(k)
  PROVE  J!Come(k) \/ mesa' = mesa
  <1>1. CASE ~PodeComer(k)
    BY <1>1 DEF test, mesa
  <1>2. CASE PodeComer(k)
    <2>1. k \in Celula /\ LEFT(k) \in Filosofo /\ RIGHT(k) \in Filosofo
      BY FilosofoCelula, AnelFecha
    <2>2. /\ mesa[k] = "HUNGRY" /\ mesa[LEFT(k)] # "EATING" /\ mesa[RIGHT(k)] # "EATING"
      BY <1>2, <2>1 DEF PodeComer, mesa
    <2>3. mesa' = [mesa EXCEPT ![k] = "EATING"]
      BY <1>2, <2>1, FilosofoCelula DEF test, mesa, TypeOK
    <2>4. QED BY <2>2, <2>3 DEF J!Come, J!LEFT, J!RIGHT, LEFT, RIGHT, mesa
  <1>3. QED BY <1>1, <1>2

LEMMA MesaPasso ==
  ASSUME IInv, IdentidadesDistintas, [Next]_vars
  PROVE  [J!Next]_mesa
  <1> USE DEF Vai
  <1>0. TypeOK /\ Lugares
    BY DEF IInv, LugaresCertos
  <1>1. ASSUME NEW t \in Filosofo,
               Faminto(t) \/ Testa(t) \/ Devolve(t) \/ TestaLeft(t) \/ TestaRight(t)
        PROVE  /\ t \in Iniciados
               /\ ident[t] \in Filosofo /\ ident[t] \in Celula
               /\ LEFT(ident[t]) \in Filosofo /\ RIGHT(ident[t]) \in Filosofo
               /\ LugarDe(t)
    <2>1. t \in Iniciados
      BY <1>1 DEF Iniciados, Faminto, Testa, Devolve, TestaLeft, TestaRight
    <2>2. ident[t] \in Filosofo /\ ident[t] \in Celula
      BY <2>1, FilosofoCelula DEF IdentidadesDistintas
    <2>3. QED BY <2>1, <2>2, AnelFecha, <1>0 DEF Lugares
  <1>2. CASE UNCHANGED filosofos
    BY <1>2 DEF mesa
  <1>3. ASSUME NEW t \in Filosofo, Faminto(t) PROVE [J!Next]_mesa
    <2>1. mesa[ident[t]] = "THINKING"
      BY <1>3, <1>1 DEF LugarDe, Faminto, mesa
    <2>2. mesa' = [mesa EXCEPT ![ident[t]] = "HUNGRY"]
      BY <1>3, <1>1, <1>0, FilosofoCelula DEF Faminto, mesa, TypeOK
    <2>3. PICK k \in Filosofo : k = ident[t]
      BY <1>3, <1>1
    <2>4. J!FicaComFome(k)
      BY <2>1, <2>2, <2>3 DEF J!FicaComFome, mesa
    <2>5. QED BY <2>4 DEF J!Next, J!Filosofo, Filosofo
  <1>4. ASSUME NEW t \in Filosofo, Devolve(t) PROVE [J!Next]_mesa
    <2>1. mesa[ident[t]] = "EATING"
      BY <1>4, <1>1 DEF LugarDe, Devolve, mesa
    <2>2. mesa' = [mesa EXCEPT ![ident[t]] = "THINKING"]
      BY <1>4, <1>1, <1>0, FilosofoCelula DEF Devolve, mesa, TypeOK
    <2>3. PICK k \in Filosofo : k = ident[t]
      BY <1>4, <1>1
    <2>4. J!VoltaAPensar(k)
      BY <2>1, <2>2, <2>3 DEF J!VoltaAPensar, mesa
    <2>5. QED BY <2>4 DEF J!Next, J!Filosofo, Filosofo
  <1>5. ASSUME NEW t \in Filosofo, Testa(t) \/ TestaLeft(t) \/ TestaRight(t)
        PROVE  [J!Next]_mesa
    <2>1. \E k \in Filosofo : test(k)
      BY <1>5, <1>1 DEF Testa, TestaLeft, TestaRight
    <2>2. QED BY <2>1, <1>0, TestMesa DEF J!Next, J!Filosofo, Filosofo
  <1>6. UNCHANGED filosofos
        \/ \E t \in Filosofo : \/ Faminto(t) \/ Devolve(t) \/ Testa(t)
                              \/ TestaLeft(t) \/ TestaRight(t)
    BY DEF Next, Main, Cria, Incrementa, ComecaJoin, CriaFalha, Passo, LeI, PegaMutex,
           EsperaMutex, Libera, SoltaMutex, Espera, PegaMutexPor, LiberaPor,
           ForaDosVetores, vars
  <1>7. QED BY <1>2, <1>3, <1>4, <1>5, <1>6

\* While the threads' numbers are distinct a state word changes only as Jantar
\* allows, whatever N is.
THEOREM SemaforoImplementaJantar == Spec => ImplementaJantar
  <1>1. Init => J!Init
    BY MesaInit
  <1>2. IInv /\ [Next]_vars => [IdentidadesDistintas' => J!Next]_mesa
    <2>1. IInv => Base
      BY DEF IInv, Base
    <2>2. QED BY <2>1, DistintasAntes, MesaPasso
  <1>3. QED BY <1>1, <1>2, SemaforoIndutivo, PTL DEF Spec, ImplementaJantar

\* So the behaviours in which each thread reads a number of its own are those
\* of the table.
COROLLARY JantarDasDistintas == Spec /\ []IdentidadesDistintas => J!Spec
  <1>1. IdentidadesDistintas' /\ [IdentidadesDistintas' => J!Next]_mesa => [J!Next]_mesa
    OBVIOUS
  <1>2. QED BY <1>1, SemaforoImplementaJantar, PTL DEF ImplementaJantar, J!Spec
-----------------------------------------------------------------------------
(* The monitor *)

LEMMA AnelMonitor ==
  ASSUME NEW id \in Id
  PROVE  right(id) \in Id /\ left(id) \in Id
  BY nAssumption DEF Id, right, left

LEMMA MonitorInit == MInit => MIInv
  <1>2. MInit => MTypeOK /\ MMainCerto
    BY nAssumption DEF MInit, MTypeOK, MMainCerto
  <1>3. MInit => MMutexCerto
    BY nAssumption DEF MInit, MMutexCerto, ComOMutex, Id, NINGUEM
  <1>4. MInit => GarfosCertos /\ EstadoCerto /\ PegaLivres
    BY AnelMonitor DEF MInit, GarfosCertos, EstadoCerto, PegaLivres
  <1>5. QED BY <1>2, <1>3, <1>4 DEF MIInv

\* A step of thread id that leaves the forks and the state words alone.
LEMMA GarfosIguais ==
  ASSUME GarfosCertos, UNCHANGED <<philosopher, forks>>
  PROVE  GarfosCertos'
  BY DEF GarfosCertos

\* Philosopher id takes two free forks.
LEMMA PegaGarfos ==
  ASSUME GarfosCertos, NEW id \in Id,
         forks[left(id)] = "FREE", forks[right(id)] = "FREE",
         \A k \in Id : philosopher'[k] = IF k = id THEN "EATING" ELSE philosopher[k],
         \A f \in Id : forks'[f] = IF f \in {left(id), right(id)} THEN "IN_USE"
                                                                  ELSE forks[f]
  PROVE  GarfosCertos'
  <1>0. \A k \in Id : left(k) \in Id /\ right(k) \in Id
    BY AnelMonitor
  <1>1. ASSUME NEW k \in Id, k # id, philosopher[k] = "EATING"
        PROVE  {left(id), right(id)} \cap {left(k), right(k)} = {}
    <2>1. forks[left(k)] = "IN_USE" /\ forks[right(k)] = "IN_USE"
      BY <1>0, <1>1 DEF GarfosCertos
    <2>2. QED BY <2>1
  <1>2. ASSUME NEW f \in Id
        PROVE  forks'[f] = "IN_USE" <=>
                 \E k \in Id : philosopher'[k] = "EATING" /\ f \in {left(k), right(k)}
    <2>1. CASE f \in {left(id), right(id)}
      BY <2>1
    <2>2. CASE f \notin {left(id), right(id)}
      BY <2>2 DEF GarfosCertos
    <2>3. QED BY <2>1, <2>2
  <1>3. ASSUME NEW j \in Id, NEW k \in Id, j # k,
               philosopher'[j] = "EATING", philosopher'[k] = "EATING"
        PROVE  {left(j), right(j)} \cap {left(k), right(k)} = {}
    <2>1. CASE j = id
      BY <1>1, <1>3, <2>1
    <2>2. CASE k = id
      BY <1>1, <1>3, <2>2
    <2>3. CASE j # id /\ k # id
      BY <1>3, <2>3 DEF GarfosCertos
    <2>4. QED BY <2>1, <2>2, <2>3
  <1>4. QED BY <1>2, <1>3 DEF GarfosCertos, left, right

\* Philosopher id puts his two forks back.
LEMMA DevolveGarfos ==
  ASSUME GarfosCertos, NEW id \in Id, philosopher[id] = "EATING",
         \A k \in Id : philosopher'[k] = IF k = id THEN "THINKING" ELSE philosopher[k],
         \A f \in Id : forks'[f] = IF f \in {left(id), right(id)} THEN "FREE"
                                                                  ELSE forks[f]
  PROVE  GarfosCertos'
  <1>1. \A k \in Id : k # id /\ philosopher[k] = "EATING" =>
           {left(id), right(id)} \cap {left(k), right(k)} = {}
    BY DEF GarfosCertos
  <1>2. ASSUME NEW f \in Id
        PROVE  forks'[f] = "IN_USE" <=>
                 \E k \in Id : philosopher'[k] = "EATING" /\ f \in {left(k), right(k)}
    <2>1. CASE f \in {left(id), right(id)}
      BY <1>1, <2>1
    <2>2. CASE f \notin {left(id), right(id)}
      <3>1. forks[f] = "IN_USE" <=>
              \E k \in Id : philosopher[k] = "EATING" /\ f \in {left(k), right(k)}
        BY DEF GarfosCertos
      <3>2. QED BY <3>1, <2>2
    <2>3. QED BY <2>1, <2>2
  <1>3. ASSUME NEW j \in Id, NEW k \in Id, j # k,
               philosopher'[j] = "EATING", philosopher'[k] = "EATING"
        PROVE  {left(j), right(j)} \cap {left(k), right(k)} = {}
    BY <1>3 DEF GarfosCertos
  <1>4. QED BY <1>2, <1>3 DEF GarfosCertos, left, right

LEMMA MonitorTipoPasso ==
  ASSUME MIInv, [MNext]_Mvars
  PROVE  MTypeOK'
  <1>1. /\ \A id \in Id : right(id) \in Id /\ left(id) \in Id
        /\ lugar = [id \in Id |-> lugar[id]]
        /\ forks = [id \in Id |-> forks[id]]
        /\ philosopher = [id \in Id |-> philosopher[id]]
    BY AnelMonitor DEF MIInv, MTypeOK
  <1>2. QED
    BY <1>1, nAssumption
       DEF MIInv, MTypeOK, MMainCerto, ComOMutex, signal, Passa, lock, unlock, MNext, MMain,
           CriaThread, NaoCria, acao_filosofo, Tranca, FicaFaminto, Dorme, Retoma,
           SaiDoWhile, Pega, Solta,
           TrancaPor, LargaGarfos, SinalLeft, SinalRight, SoltaPor, Espurio, Mvars

\* What the invariant says besides the types.
Resto == MMutexCerto /\ EstadoCerto /\ GarfosCertos /\ PegaLivres /\ MMainCerto

LEMMA MonitorPasso ==
  ASSUME MIInv, [MNext]_Mvars
  PROVE  MIInv'
  <1>0. /\ \A id \in Id : right(id) \in Id /\ left(id) \in Id
        /\ NINGUEM \notin Id
        /\ lugar = [id \in Id |-> lugar[id]]
        /\ forks = [id \in Id |-> forks[id]]
        /\ philosopher = [id \in Id |-> philosopher[id]]
        /\ MMutexCerto /\ EstadoCerto /\ GarfosCertos /\ PegaLivres /\ MMainCerto
    BY AnelMonitor, nAssumption DEF MIInv, MTypeOK, Id, NINGUEM
  <1>1. MTypeOK'
    BY MonitorTipoPasso DEF MIInv
  <1> USE <1>0 DEF Resto, Passa, lock, unlock, MMutexCerto, ComOMutex, EstadoCerto,
                   PegaLivres, GarfosLivres, MMainCerto
  <1>2. ASSUME CriaThread PROVE Resto'
    <2>1. i \in Id /\ i \in Int
      BY <1>2, nAssumption DEF CriaThread, Id, MIInv, MTypeOK
    <2>2. lugar[i] = "nao_criado" /\ \A id \in Id : id \in Int
      BY <2>1 DEF Id
    <2>3. QED BY <1>2, <2>1, <2>2, GarfosIguais DEF CriaThread
  <1>3. ASSUME NaoCria PROVE Resto'
    <2>1. i \in Int /\ \A id \in Id : id \in Int
      BY nAssumption DEF Id, MIInv, MTypeOK
    <2>2. QED BY <1>3, <2>1, GarfosIguais DEF NaoCria
  <1>4. ASSUME NEW id \in Id,
               Tranca(id) \/ Retoma(id) \/ TrancaPor(id)
        PROVE  Resto'
    BY <1>4, GarfosIguais DEF Tranca, Retoma, TrancaPor
  <1>5. ASSUME NEW id \in Id,
               Dorme(id) \/ Solta(id) \/ SoltaPor(id)
        PROVE  Resto'
    BY <1>5, GarfosIguais DEF Dorme, Solta, SoltaPor
  <1>6. ASSUME NEW id \in Id, SaiDoWhile(id) \/ Espurio(id)
        PROVE  Resto'
    BY <1>6, GarfosIguais DEF SaiDoWhile, Espurio
  <1>7. ASSUME NEW id \in Id, FicaFaminto(id) PROVE Resto'
    <2>1. GarfosCertos'
      BY <1>7 DEF FicaFaminto, GarfosCertos
    <2>2. QED BY <1>7, <2>1 DEF FicaFaminto
  <1>8. ASSUME NEW id \in Id, Pega(id) PROVE Resto'
    <2>1. /\ \A k \in Id : philosopher'[k] = IF k = id THEN "EATING" ELSE philosopher[k]
          /\ \A f \in Id : forks'[f] = IF f \in {left(id), right(id)} THEN "IN_USE"
                                           ELSE forks[f]
          /\ forks[left(id)] = "FREE" /\ forks[right(id)] = "FREE"
      BY <1>8 DEF Pega
    <2>2. GarfosCertos'
      BY <2>1, PegaGarfos
    <2>3. \A k \in Id : lugar[k] = "pega" => k = id
      BY <1>8 DEF Pega
    <2>4. QED BY <1>8, <2>2, <2>3 DEF Pega
  <1>9. ASSUME NEW id \in Id, LargaGarfos(id) PROVE Resto'
    <2>1. /\ \A k \in Id : philosopher'[k] = IF k = id THEN "THINKING" ELSE philosopher[k]
          /\ \A f \in Id : forks'[f] = IF f \in {left(id), right(id)} THEN "FREE"
                                           ELSE forks[f]
          /\ philosopher[id] = "EATING"
      BY <1>9 DEF LargaGarfos
    <2>2. GarfosCertos'
      BY <2>1, DevolveGarfos
    <2>3. \A k \in Id : lugar[k] # "pega"
      BY <1>9 DEF LargaGarfos
    <2>4. QED BY <1>9, <2>2, <2>3 DEF LargaGarfos
  <1>10. ASSUME NEW id \in Id, SinalLeft(id) \/ SinalRight(id) PROVE Resto'
    BY <1>10, GarfosIguais DEF SinalLeft, SinalRight, signal
  <1>11. ASSUME UNCHANGED Mvars PROVE Resto'
    BY <1>11, GarfosIguais DEF Mvars
  <1>12. Resto'
    BY <1>2, <1>3, <1>4, <1>5, <1>6, <1>7, <1>8, <1>9, <1>10, <1>11 DEF MNext, MMain, acao_filosofo
  <1>13. QED BY <1>1, <1>12 DEF MIInv

\* The inductive invariant of the program.
THEOREM MonitorIndutivo == MSpec => []MIInv
  BY MonitorInit, MonitorPasso, PTL DEF MSpec

\* Type correctness.
THEOREM MonitorTypeCorrect == MSpec => []MTypeOK
  BY MonitorIndutivo, PTL DEF MIInv

\* A fork is IN_USE just when a philosopher beside it is EATING, and two who
\* are EATING have no fork in common.
THEOREM GarfosCertosSempre == MSpec => []GarfosCertos
  BY MonitorIndutivo, PTL DEF MIInv

-----------------------------------------------------------------------------
(* Somebody is always awake *)

\* Who goes to sleep does so because another philosopher has one of his forks,
\* and who eats is not asleep.
LEMMA DormePorAlguem ==
  ASSUME MIInv, NEW id \in Id, Dorme(id)
  PROVE  \E k \in Id : lugar'[k] \in {"solta", "comendo", "devolve"}
  <1>1. \E f \in Id : forks[f] = "IN_USE"
    BY AnelMonitor DEF Dorme, GarfosLivres, MIInv, MTypeOK
  <1>2. PICK k \in Id : philosopher[k] = "EATING"
    BY <1>1 DEF MIInv, GarfosCertos
  <1>3. lugar[k] \in {"solta", "comendo", "devolve"} /\ lugar[id] = "verifica"
    BY <1>2 DEF MIInv, EstadoCerto, Dorme, Passa
  <1>4. lugar'[k] = lugar[k]
    BY <1>3 DEF Dorme, Passa, MIInv, MTypeOK
  <1>5. QED BY <1>3, <1>4

LEMMA AcordadoPasso ==
  ASSUME MIInv, NemTodosDormem, [MNext]_Mvars
  PROVE  NemTodosDormem'
  <1>0. lugar = [id \in Id |-> lugar[id]]
    BY DEF MIInv, MTypeOK
  <1>1. ASSUME NEW id \in Id, Dorme(id) PROVE NemTodosDormem'
    <2>1. PICK k \in Id : lugar'[k] \in {"solta", "comendo", "devolve"}
      BY <1>1, DormePorAlguem
    <2>2. QED BY <2>1 DEF NemTodosDormem
  <1>2. CASE UNCHANGED lugar
    BY <1>2 DEF NemTodosDormem
  <1>3. CASE CriaThread
    <2>1. i \in Id /\ lugar'[i] = "pensando"
      BY <1>0, <1>3, nAssumption DEF CriaThread, Id, MIInv, MTypeOK
    <2>2. QED BY <2>1 DEF NemTodosDormem
  <1>4. ASSUME NEW id \in Id, acao_filosofo(id) \/ Espurio(id), ~Dorme(id)
        PROVE  NemTodosDormem'
    <2>1. lugar'[id] \notin {"nao_criado", "dorme"}
      BY <1>0, <1>4, AnelMonitor
         DEF acao_filosofo, Espurio, Passa, signal, Tranca, FicaFaminto, Retoma,
             SaiDoWhile, Pega, Solta,
             TrancaPor, LargaGarfos, SinalLeft, SinalRight, SoltaPor, left
    <2>2. QED BY <2>1 DEF NemTodosDormem
  <1>5. QED
    BY <1>1, <1>2, <1>3, <1>4 DEF MNext, MMain, NaoCria, Mvars

\* As long as a thread was created, some thread is not asleep, although a left
\* neighbour is never woken.
THEOREM NemTodosDormemSempre == MSpec => []NemTodosDormem
  <1>1. MInit => NemTodosDormem
    BY DEF MInit, NemTodosDormem
  <1>2. MIInv /\ NemTodosDormem /\ [MNext]_Mvars => NemTodosDormem'
    BY AcordadoPasso
  <1>3. QED BY <1>1, <1>2, MonitorIndutivo, PTL DEF MSpec

-----------------------------------------------------------------------------
(* The program implements Jantar *)

LEMMA MonitorMesaPasso ==
  ASSUME MIInv, [MNext]_Mvars
  PROVE  [Mesa!Next]_philosopher
  <1>0. /\ philosopher = [id \in Id |-> philosopher[id]]
        /\ \A id \in Id : left(id) \in Id /\ right(id) \in Id
        /\ Mesa!Filosofo = Id
    BY AnelMonitor DEF MIInv, MTypeOK, Mesa!Filosofo, Id
  <1>1. ASSUME NEW id \in Id, FicaFaminto(id) PROVE Mesa!FicaComFome(id)
    <2>1. lugar[id] = "faminto"
      BY <1>1 DEF FicaFaminto, Passa
    <2>2. philosopher[id] = "THINKING"
      BY <2>1 DEF MIInv, EstadoCerto, MTypeOK
    <2>3. QED BY <1>1, <2>2 DEF FicaFaminto, Mesa!FicaComFome
  <1>2. ASSUME NEW id \in Id, LargaGarfos(id) PROVE Mesa!VoltaAPensar(id)
    <2>1. lugar[id] = "devolve"
      BY <1>2 DEF LargaGarfos, Passa
    <2>2. philosopher[id] = "EATING"
      BY <2>1 DEF MIInv, EstadoCerto, MTypeOK
    <2>3. QED BY <1>2, <2>2 DEF LargaGarfos, Mesa!VoltaAPensar
  <1>3. ASSUME NEW id \in Id, Pega(id) PROVE Mesa!Come(id)
    <2>1. lugar[id] = "pega"
      BY <1>3 DEF Pega, Passa
    <2>2. philosopher[id] = "HUNGRY" /\ forks[left(id)] = "FREE" /\ forks[right(id)] = "FREE"
      BY <2>1 DEF MIInv, EstadoCerto, PegaLivres, GarfosLivres
    <2>3. Mesa!LEFT(id) \in Id /\ right(Mesa!LEFT(id)) = id /\ Mesa!RIGHT(id) = right(id)
      BY nAssumption DEF Mesa!LEFT, Mesa!RIGHT, right, Id
    <2>4. philosopher[Mesa!LEFT(id)] # "EATING"
      BY <2>2, <2>3 DEF MIInv, GarfosCertos, left
    <2>5. philosopher[Mesa!RIGHT(id)] # "EATING"
      BY <2>2, <2>3, <1>0 DEF MIInv, GarfosCertos, left
    <2>6. QED BY <1>3, <2>2, <2>4, <2>5 DEF Pega, Mesa!Come
  <1>4. UNCHANGED philosopher
        \/ \E id \in Id : FicaFaminto(id) \/ LargaGarfos(id) \/ Pega(id)
    BY DEF MNext, MMain, CriaThread, NaoCria, acao_filosofo, Tranca, Dorme, Retoma,
           SaiDoWhile, Solta,
           TrancaPor, SinalLeft, SinalRight, SoltaPor, Espurio, Mvars
  <1>5. QED
    BY <1>0, <1>1, <1>2, <1>3, <1>4 DEF Mesa!Next

\* The state words of the threads change only as the dining table allows.
THEOREM MonitorImplementaJantar == MSpec => EUmJantar
  <1>1. MInit => Mesa!Init
    BY DEF MInit, Mesa!Init, Mesa!Filosofo, Id
  <1>2. QED BY <1>1, MonitorMesaPasso, MonitorIndutivo, PTL DEF MSpec, EUmJantar, Mesa!Spec

-----------------------------------------------------------------------------
(* The readers and writers *)

LEMMA LeitorFinito ==
  IsFiniteSet(Leitor)
  <1>1. num_leitores \in Int
    BY LeitorAssumption
  <1>2. QED BY <1>1, FS_Interval DEF Leitor

LEMMA ContadosFinito ==
  /\ IsFiniteSet(Contados)
  /\ Cardinality(Contados) \in Nat
  /\ Cardinality(Contados) = 0 <=> Contados = {}
  <1>1. Contados \in SUBSET Leitor
    BY DEF Contados
  <1>2. IsFiniteSet(Contados)
    BY <1>1, LeitorFinito, FS_Subset
  <1>3. QED BY <1>2, FS_CardinalityType, FS_EmptySet

LEMMA LeitorInit ==
  LInit => LIInv
  <1> SUFFICES ASSUME LInit PROVE LIInv
    OBVIOUS
  <1>1. LTypeOK /\ LMainCerto
    BY LeitorAssumption DEF LInit, LTypeOK, LMainCerto
  <1>2. LMutexCerto /\ WriteCerto /\ SozinhoCerto
    BY DEF LInit, LMutexCerto, WriteCerto, SozinhoCerto, EntreMutex,
       Escrevendo,
           PosseDosLeitores
  <1>3. Contados = {}
    BY DEF LInit, Contados
  <1>4. ContaCerta
    BY <1>3, FS_EmptySet DEF LInit, ContaCerta
  <1>5. QED BY <1>1, <1>2, <1>4 DEF LIInv

-----------------------------------------------------------------------------

\* A counter that is zero, and only that, means that nobody is counted.
LEMMA ContaZero ==
  ASSUME ContaCerta
  PROVE  quantidade_readers = 0 <=> Contados = {}
  BY ContadosFinito DEF ContaCerta

\* The counter follows the one thread that counts itself in or out.
LEMMA ContaMais ==
  ASSUME ContaCerta, NEW l \in Leitor, l \notin Contados,
         quantidade_readers' = quantidade_readers + 1, Contados' = Contados \cup {l}
  PROVE  ContaCerta'
  <1>1. Cardinality(Contados \cup {l}) = Cardinality(Contados) + 1
    BY ContadosFinito, FS_AddElement
  <1>2. QED BY <1>1 DEF ContaCerta

LEMMA ContaMenos ==
  ASSUME ContaCerta, NEW l \in Leitor, l \in Contados,
         quantidade_readers' = quantidade_readers - 1, Contados' = Contados \ {l}
  PROVE  ContaCerta' /\ quantidade_readers' \in Nat
  <1>1. Cardinality(Contados \ {l}) = Cardinality(Contados) - 1
    BY ContadosFinito, FS_RemoveElement
  <1>2. Cardinality(Contados \ {l}) \in Nat
    BY ContadosFinito, FS_RemoveElement, FS_CardinalityType
  <1>3. QED BY <1>1, <1>2 DEF ContaCerta

LEMMA ContaIgual ==
  ASSUME ContaCerta, UNCHANGED <<quantidade_readers, Contados>>
  PROVE  ContaCerta'
  BY DEF ContaCerta

\* What the invariant says besides the count.
RestoLeitor == LTypeOK /\ LMainCerto /\ LMutexCerto /\ WriteCerto /\ SozinhoCerto

LEMMA LeitorMainPasso ==
  ASSUME LIInv, LMain \/ FalhaCriacao \/ UNCHANGED (Lvars)
  PROVE  LIInv'
  <1>1. /\ escritor = [e \in Escritor |-> escritor[e]]
        /\ leitor = [l \in Leitor |-> leitor[l]]
        /\ \A e \in Escritor : e \in Int
        /\ \A l \in Leitor : l \in Int
    BY DEF LIInv, LTypeOK, Escritor, Leitor
  <1> USE <1>1, LeitorAssumption DEF LIInv, LTypeOK, LMainCerto
  <1>2. ASSUME CriaEscritor PROVE RestoLeitor' /\ UNCHANGED Contados
    <2>1. i \in Escritor /\ escritor[i] = "nao_criado"
      BY <1>2 DEF CriaEscritor, Escritor
    <2>2. LTypeOK' /\ LMainCerto'
      BY <1>2, <2>1 DEF CriaEscritor, semaforos
    <2>3. Escrevendo' = Escrevendo
      BY <1>2, <2>1 DEF CriaEscritor, Escrevendo
    <2>4. QED
      BY <1>2, <2>2, <2>3 DEF CriaEscritor, semaforos, RestoLeitor, LMutexCerto,
         WriteCerto,
         SozinhoCerto, PosseDosLeitores, Contados
  <1>3. ASSUME CriaLeitor PROVE RestoLeitor' /\ UNCHANGED Contados
    <2>1. i \in Leitor /\ leitor[i] = "nao_criado"
      BY <1>3 DEF CriaLeitor, Leitor
    <2>2. LTypeOK' /\ LMainCerto'
      BY <1>3, <2>1 DEF CriaLeitor, semaforos
    <2>3. /\ Contados' = Contados
          /\ PosseDosLeitores' = PosseDosLeitores
          /\ LMutexCerto' /\ SozinhoCerto'
      BY <1>3, <2>1 DEF CriaLeitor, Contados, PosseDosLeitores, LMutexCerto,
         SozinhoCerto,
         EntreMutex, semaforos
    <2>4. QED
      BY <1>3, <2>2, <2>3 DEF CriaLeitor, semaforos, RestoLeitor, WriteCerto,
         Escrevendo
  <1>4. ASSUME PassaALeitores \/ Join \/ FalhaCriacao \/ UNCHANGED (Lvars)
        PROVE  RestoLeitor' /\ UNCHANGED Contados
    BY <1>4 DEF PassaALeitores, Join, FalhaCriacao, Lvars, semaforos, RestoLeitor,
       LMutexCerto,
       WriteCerto, SozinhoCerto, PosseDosLeitores, Contados, Escrevendo
  <1>5. UNCHANGED quantidade_readers
    BY DEF LMain, CriaEscritor, PassaALeitores, CriaLeitor, Join, FalhaCriacao,
       Lvars, semaforos
  <1>6. QED
    BY <1>2, <1>3, <1>4, <1>5, ContaIgual DEF LMain, RestoLeitor

LEMMA EscritorPasso ==
  ASSUME LIInv, NEW e \in Escritor, PassoEscritor(e)
  PROVE  LIInv'
  <1>1. escritor = [d \in Escritor |-> escritor[d]]
    BY DEF LIInv, LTypeOK
  <1> USE <1>1 DEF LIInv, LTypeOK
  <1>2. LMainCerto'
    <2>1. \A d \in Escritor : d \in Int
      BY LeitorAssumption DEF Escritor
    <2>2. QED BY <2>1 DEF PassoEscritor, ComecaEscrita, TerminaEscrita,
       PassaEscritor, LMainCerto
  <1>3. LMutexCerto' /\ SozinhoCerto' /\ Contados' = Contados
        /\ PosseDosLeitores' = PosseDosLeitores
    BY DEF PassoEscritor, ComecaEscrita, TerminaEscrita, PassaEscritor, LMutexCerto,
           SozinhoCerto, Contados, PosseDosLeitores
  <1>4. WriteCerto'
    <2>1. CASE ComecaEscrita(e)
      BY <1>3, <2>1 DEF ComecaEscrita, PassaEscritor, WriteCerto, Escrevendo
    <2>2. CASE TerminaEscrita(e)
      BY <1>3, <2>2 DEF TerminaEscrita, PassaEscritor, WriteCerto, Escrevendo
    <2>3. QED BY <2>1, <2>2 DEF PassoEscritor
  <1>5. ContaCerta'
    BY <1>3, ContaIgual DEF PassoEscritor, ComecaEscrita, TerminaEscrita,
       PassaEscritor
  <1>6. LTypeOK'
    <2>1. CASE ComecaEscrita(e)
      BY <2>1 DEF ComecaEscrita, PassaEscritor
    <2>2. CASE TerminaEscrita(e)
      <3>1. sem_write = 0
        BY <2>2 DEF TerminaEscrita, PassaEscritor, WriteCerto, Escrevendo
      <3>2. QED BY <2>2, <3>1 DEF TerminaEscrita, PassaEscritor
    <2>3. QED BY <2>1, <2>2 DEF PassoEscritor
  <1>7. QED BY <1>2, <1>3, <1>4, <1>5, <1>6

-----------------------------------------------------------------------------
(* The readers *)

\* Facts of a reader who is inside a critical section or is entering one.
LEMMA LeitorPasso ==
  ASSUME LIInv, NEW l \in Leitor, PassoLeitor(l)
  PROVE  LIInv'
  <1>0. /\ leitor = [k \in Leitor |-> leitor[k]]
        /\ \A k \in Leitor : k \in Int
        /\ quantidade_readers = 0 <=> Contados = {}
        /\ UNCHANGED escritor /\ Escrevendo' = Escrevendo
        /\ leitor[l] # "nao_criado"
        /\ UNCHANGED <<i, main>>
    BY ContaZero, LeitorAssumption
       DEF LIInv, LTypeOK, Leitor, PassoLeitor, PassaLeitor,
          wait_mutex, post_mutex, EntraPeloMutex, Primeiro,
           NaoPrimeiro, EsperaWrite, Conta, ComecaLeitura, PegaMutexFim,
              Desconta, Ultimo,
           NaoUltimo, Abre, SoltaMutexFim, Escrevendo
  <1> USE <1>0 DEF LIInv, LTypeOK, RestoLeitor, PassaLeitor, LMutexCerto, EntreMutex,
     WriteCerto,
                   PosseDosLeitores, SozinhoCerto, semaforos
  <1>1. LMainCerto'
    <2>1. \A k \in Leitor : k # l => leitor'[k] = leitor[k]
      BY DEF PassoLeitor, wait_mutex, post_mutex, EntraPeloMutex, Primeiro,
         NaoPrimeiro,
             EsperaWrite, Conta, ComecaLeitura, PegaMutexFim, Desconta,
                Ultimo, NaoUltimo,
             Abre, SoltaMutexFim
    <2>2. QED BY <2>1 DEF LMainCerto
  <1>2. ASSUME EntraPeloMutex(l) PROVE RestoLeitor' /\ ContaCerta'
    <2>1. Contados' = Contados
      BY <1>2 DEF EntraPeloMutex, wait_mutex, Contados
    <2>2. QED BY <1>1, <1>2, <2>1, ContaIgual DEF EntraPeloMutex, wait_mutex
  <1>3. ASSUME Primeiro(l) PROVE RestoLeitor' /\ ContaCerta'
    <2>1. Contados' = Contados
      BY <1>3 DEF Primeiro, Contados
    <2>2. QED BY <1>1, <1>3, <2>1, ContaIgual DEF Primeiro
  <1>4. ASSUME NaoPrimeiro(l) PROVE RestoLeitor' /\ ContaCerta'
    <2>1. Contados' = Contados
      BY <1>4 DEF NaoPrimeiro, Contados
    <2>2. PosseDosLeitores
      BY <1>4 DEF NaoPrimeiro, Contados
    <2>3. QED BY <1>1, <1>4, <2>1, <2>2, ContaIgual DEF NaoPrimeiro
  <1>5. ASSUME EsperaWrite(l) PROVE RestoLeitor' /\ ContaCerta'
    <2>1. Contados' = Contados
      BY <1>5 DEF EsperaWrite, Contados
    <2>2. QED BY <1>1, <1>5, <2>1, ContaIgual DEF EsperaWrite
  <1>6. ASSUME Conta(l) PROVE RestoLeitor' /\ ContaCerta'
    <2>1. Contados' = Contados \cup {l} /\ l \notin Contados
      BY <1>6 DEF Conta, Contados
    <2>2. QED BY <1>1, <1>6, <2>1, ContaMais DEF Conta
  <1>7. ASSUME ComecaLeitura(l) PROVE RestoLeitor' /\ ContaCerta'
    <2>1. Contados' = Contados
      BY <1>7 DEF ComecaLeitura, post_mutex, Contados
    <2>2. QED BY <1>1, <1>7, <2>1, ContaIgual DEF ComecaLeitura, post_mutex
  <1>8. ASSUME PegaMutexFim(l) PROVE RestoLeitor' /\ ContaCerta'
    <2>1. Contados' = Contados
      BY <1>8 DEF PegaMutexFim, wait_mutex, Contados
    <2>2. QED BY <1>1, <1>8, <2>1, ContaIgual DEF PegaMutexFim, wait_mutex
  <1>9. ASSUME Desconta(l) PROVE RestoLeitor' /\ ContaCerta'
    <2>1. Contados' = Contados \ {l} /\ l \in Contados
      BY <1>9 DEF Desconta, Contados
    <2>2. ContaCerta' /\ quantidade_readers' \in Nat
      BY <1>9, <2>1, ContaMenos DEF Desconta
    <2>3. QED BY <1>1, <1>9, <2>1, <2>2 DEF Desconta
  <1>10. ASSUME Ultimo(l) PROVE RestoLeitor' /\ ContaCerta'
    <2>1. Contados' = Contados
      BY <1>10 DEF Ultimo, Contados
    <2>2. QED BY <1>1, <1>10, <2>1, ContaIgual DEF Ultimo
  <1>11. ASSUME NaoUltimo(l) PROVE RestoLeitor' /\ ContaCerta'
    <2>1. Contados' = Contados
      BY <1>11 DEF NaoUltimo, Contados
    <2>2. PICK k \in Leitor : leitor[k] \in {"solta", "lendo", "desconta"}
      BY <1>11 DEF NaoUltimo, Contados
    <2>3. PosseDosLeitores' /\ PosseDosLeitores
      BY <1>11, <2>2 DEF NaoUltimo
    <2>4. QED BY <1>1, <1>11, <2>1, <2>3, ContaIgual DEF NaoUltimo
  <1>12. ASSUME Abre(l) PROVE RestoLeitor' /\ ContaCerta'
    <2>1. Contados' = Contados
      BY <1>12 DEF Abre, Contados
    <2>2. Contados = {} /\ sem_write = 0
      BY <1>12 DEF Abre
    <2>3. ~PosseDosLeitores'
      BY <1>12, <2>2 DEF Abre, Contados
    <2>4. QED BY <1>1, <1>12, <2>1, <2>2, <2>3, ContaIgual DEF Abre
  <1>13. ASSUME SoltaMutexFim(l) PROVE RestoLeitor' /\ ContaCerta'
    <2>1. Contados' = Contados
      BY <1>13 DEF SoltaMutexFim, post_mutex, Contados
    <2>2. QED BY <1>1, <1>13, <2>1, ContaIgual DEF SoltaMutexFim, post_mutex
  <1>14. QED
    BY <1>2, <1>3, <1>4, <1>5, <1>6, <1>7, <1>8, <1>9, <1>10, <1>11, <1>12, <1>13
       DEF PassoLeitor

LEMMA LeitorEscritorPasso ==
  LIInv /\ [LNext]_Lvars => LIInv'
  BY LeitorMainPasso, EscritorPasso, LeitorPasso DEF LNext

\* The inductive invariant of the program.
THEOREM LeitorIndutivo ==
  LSpec => []LIInv
  BY LeitorInit, LeitorEscritorPasso, PTL DEF LSpec

\* Type correctness; both semaphores stay binary.
THEOREM LeitorTypeCorrect ==
  LSpec => []LTypeOK
  BY LeitorIndutivo, PTL DEF LIInv

\* quantidade_readers is the number of readers who are in.
THEOREM ContaCertaSempre ==
  LSpec => []ContaCerta
  BY LeitorIndutivo, PTL DEF LIInv

LEMMA IInvExclui ==
  LIInv => Exclusao
  BY DEF LIInv, WriteCerto, Exclusao, Lendo, PosseDosLeitores

\* One writer at a time, and none while somebody reads.
THEOREM ExclusaoSempre ==
  LSpec => []Exclusao
  BY LeitorIndutivo, IInvExclui, PTL

LEMMA IInvNaoBarra ==
  LIInv => LeitorNaoBarraLeitor
  BY ContaZero DEF LIInv, SozinhoCerto, LeitorNaoBarraLeitor

\* A reader never sleeps on sem_write on account of another reader.
THEOREM LeitorNaoBarraLeitorSempre ==
  LSpec => []LeitorNaoBarraLeitor
  BY LeitorIndutivo, IInvNaoBarra, PTL

-----------------------------------------------------------------------------
(* The two semaphores implement LeituraEscrita *)

LEMMA EscritaPasso ==
  ASSUME LIInv, NEW e \in Escritor, PassoEscritor(e)
  PROVE  A!ComecaEscrita(e) \/ A!TerminaEscrita(e)
  <1>0. /\ escritor = [d \in Escritor |-> escritor[d]]
        /\ Lendo' = Lendo
    BY DEF LIInv, LTypeOK, PassoEscritor, ComecaEscrita, TerminaEscrita,
       PassaEscritor, Lendo
  <1>1. CASE ComecaEscrita(e)
    <2>1. Escrevendo = {} /\ Lendo = {}
      BY <1>1 DEF ComecaEscrita, LIInv, LTypeOK, WriteCerto, PosseDosLeitores,
         Lendo
    <2>2. Escrevendo' = {e}
      BY <1>0, <1>1, <2>1 DEF ComecaEscrita, PassaEscritor, Escrevendo
    <2>3. QED BY <1>0, <2>1, <2>2 DEF A!ComecaEscrita
  <1>2. CASE TerminaEscrita(e)
    BY <1>0, <1>2 DEF TerminaEscrita, PassaEscritor, Escrevendo, A!TerminaEscrita
  <1>3. QED BY <1>1, <1>2 DEF PassoEscritor

LEMMA LeituraPasso ==
  ASSUME LIInv, NEW l \in Leitor, PassoLeitor(l)
  PROVE  \/ A!ComecaLeitura(l) \/ A!TerminaLeitura(l)
         \/ UNCHANGED <<Escrevendo, Lendo>>
  <1>0. /\ leitor = [k \in Leitor |-> leitor[k]]
        /\ Escrevendo' = Escrevendo
    BY DEF LIInv, LTypeOK, PassoLeitor, PassaLeitor, wait_mutex, post_mutex,
       EntraPeloMutex, Primeiro,
           NaoPrimeiro, EsperaWrite, Conta, ComecaLeitura, PegaMutexFim,
              Desconta, Ultimo,
           NaoUltimo, Abre, SoltaMutexFim, Escrevendo
  <1>1. CASE ComecaLeitura(l)
    <2>1. Escrevendo = {}
      BY <1>1 DEF ComecaLeitura, post_mutex, PassaLeitor, LIInv, WriteCerto,
         PosseDosLeitores
    <2>2. Lendo' = Lendo \cup {l} /\ l \notin Lendo
      BY <1>0, <1>1 DEF ComecaLeitura, post_mutex, PassaLeitor, Lendo
    <2>3. QED BY <1>0, <2>1, <2>2 DEF A!ComecaLeitura
  <1>2. CASE Desconta(l)
    BY <1>0, <1>2 DEF Desconta, PassaLeitor, Lendo, A!TerminaLeitura
  <1>3. CASE ~ComecaLeitura(l) /\ ~Desconta(l)
    BY <1>0, <1>3
       DEF PassoLeitor, PassaLeitor, wait_mutex, post_mutex, EntraPeloMutex, Primeiro,
          NaoPrimeiro,
           EsperaWrite, Conta, PegaMutexFim, Ultimo, NaoUltimo, Abre,
              SoltaMutexFim, Lendo
  <1>4. QED BY <1>1, <1>2, <1>3

LEMMA LeituraRefina ==
  ASSUME LIInv, [LNext]_Lvars
  PROVE  [A!Next]_<<Escrevendo, Lendo>>
  <1>1. ASSUME LMain \/ FalhaCriacao \/ UNCHANGED (Lvars)
        PROVE  UNCHANGED <<Escrevendo, Lendo>>
    <2>1. \A e \in Escritor : e \in Int
      BY LeitorAssumption DEF Escritor
    <2>2. CASE CriaEscritor
      <3>1. i \in Escritor /\ escritor[i] = "nao_criado"
        BY <2>1, <2>2, LeitorAssumption DEF CriaEscritor, Escritor, LIInv, LTypeOK,
           LMainCerto
      <3>2. QED BY <2>2, <3>1 DEF CriaEscritor, LIInv, LTypeOK, Escrevendo, Lendo
    <2>3. CASE CriaLeitor
      <3>1. i \in Leitor /\ leitor[i] = "nao_criado"
        BY <2>3, LeitorAssumption DEF CriaLeitor, Leitor, LIInv, LTypeOK, LMainCerto
      <3>2. QED BY <2>3, <3>1 DEF CriaLeitor, LIInv, LTypeOK, Escrevendo, Lendo
    <2>4. QED
      BY <1>1, <2>2, <2>3 DEF LMain, PassaALeitores, Join, FalhaCriacao, Lvars,
         Escrevendo, Lendo
  <1>2. QED BY <1>1, EscritaPasso, LeituraPasso DEF LNext, A!Next

\* Every step of the threads is a step of LeituraEscrita or invisible to it.
THEOREM ImplementaLeituraEscritaSempre ==
  LSpec => ImplementaLeituraEscrita
  <1>1. LInit => A!Init
    BY DEF LInit, A!Init, Escrevendo, Lendo
  <1>2. QED
    BY <1>1, LeituraRefina, LeitorIndutivo, PTL DEF LSpec, ImplementaLeituraEscrita,
       A!Spec
=============================================================================
