-------------------------- MODULE EscalonadorProva --------------------------
(***************************************************************************)
(* Proofs about Escalonador, for every file: the four lists, what every    *)
(* process still owes and has waited for, and the choice of each           *)
(* algorithm.                                                              *)
(***************************************************************************)
EXTENDS Escalonador, FiniteSetTheorems, SequenceTheorems, WellFoundedInduction, TLAPS

-----------------------------------------------------------------------------
(* Induction over the naturals, of sets *)

LEMMA Menor ==
  ASSUME NEW A \in SUBSET Nat, A # {}
  PROVE  \E x \in A : \A y \in A : x <= y
<1>1. IsWellFoundedOn({ss \in Nat \X Nat : ss[1] < ss[2]}, Nat)
  BY NatLessThanWellFounded DEF OpToRel
<1>2. PICK x \in A : \A y \in A : ~ (<<y, x>> \in {ss \in Nat \X Nat : ss[1] < ss[2]})
  BY <1>1, WFMin, Zenon
<1>3. ASSUME NEW y \in A, y < x
      PROVE  FALSE
  <2>1. <<y, x>> \in Nat \X Nat /\ <<y, x>>[1] < <<y, x>>[2]
    BY <1>3
  <2> QED
    BY <1>2, <2>1
<1> QED
  BY <1>3

LEMMA Inducao ==
  ASSUME NEW A \in SUBSET Nat, 0 \in A, \A n \in A : n + 1 \in A
  PROVE  A = Nat
<1> SUFFICES ASSUME Nat \ A # {} PROVE FALSE
  OBVIOUS
<1>1. PICK x \in Nat \ A : \A y \in Nat \ A : x <= y
  BY Menor
<1>2. x # 0 /\ x - 1 \in Nat /\ ~(x <= x - 1) /\ (x - 1) + 1 = x
  BY <1>1
<1>3. x - 1 \in A
  BY <1>1, <1>2
<1> QED
  BY <1>2, <1>3

-----------------------------------------------------------------------------
(* Lists *)

LEMMA Contem ==
  ASSUME NEW S, NEW s \in Seq(S), NEW e
  PROVE  Contains(s, e) <=> e \in ToSet(s)
  BY DEF Contains, ToSet

LEMMA DeSet ==
  ASSUME NEW S, NEW s \in Seq(S)
  PROVE  ToSet(s) \subseteq S /\ (s = <<>> <=> ToSet(s) = {})
<1>1. ToSet(s) \subseteq S
  BY DEF ToSet
<1>2. s # <<>> => s[1] \in ToSet(s)
  BY EmptySeq DEF ToSet
<1>3. s = <<>> => ToSet(s) = {}
  BY DEF ToSet
<1> QED
  BY <1>1, <1>2, <1>3

\* add at the end of a list.
LEMMA Acrescenta ==
  ASSUME NEW S, NEW s \in Seq(S), NEW e \in S
  PROVE  /\ Append(s, e) \in Seq(S)
         /\ ToSet(Append(s, e)) = ToSet(s) \cup {e}
         /\ SemRepeticao(s) /\ e \notin ToSet(s) => SemRepeticao(Append(s, e))
<1>1. /\ Append(s, e) \in Seq(S)
      /\ Len(Append(s, e)) = Len(s) + 1 /\ Len(s) \in Nat
      /\ \A i \in 1..Len(s) : Append(s, e)[i] = s[i]
      /\ Append(s, e)[Len(s) + 1] = e
  BY AppendProperties
<1> DEFINE r == Append(s, e)
<1>2. DOMAIN r = 1..(Len(s) + 1) /\ DOMAIN s = 1..Len(s)
  BY <1>1
<1> HIDE DEF r
<1>3. ToSet(r) = ToSet(s) \cup {e}
  <2>1. ASSUME NEW x \in ToSet(r) PROVE x \in ToSet(s) \cup {e}
    <3>1. PICK i \in 1..(Len(s) + 1) : x = r[i]
      BY <1>2 DEF ToSet
    <3>2. CASE i = Len(s) + 1
      BY <1>1, <3>1, <3>2 DEF r
    <3>3. CASE i # Len(s) + 1
      <4>1. i \in 1..Len(s)
        BY <1>1, <3>3
      <4> QED
        BY <1>1, <1>2, <3>1, <4>1 DEF r, ToSet
    <3> QED
      BY <3>2, <3>3
  <2>2. ASSUME NEW x \in ToSet(s) PROVE x \in ToSet(r)
    <3>1. PICK i \in 1..Len(s) : x = s[i]
      BY <1>2 DEF ToSet
    <3>2. i \in 1..(Len(s) + 1) /\ x = r[i]
      BY <1>1, <3>1 DEF r
    <3> QED
      BY <1>2, <3>2 DEF ToSet
  <2>3. e \in ToSet(r)
    <3>1. Len(s) + 1 \in 1..(Len(s) + 1)
      BY <1>1
    <3> QED
      BY <1>1, <1>2, <3>1 DEF r, ToSet
  <2> QED
    BY <2>1, <2>2, <2>3
<1>4. ASSUME SemRepeticao(s), e \notin ToSet(s) PROVE SemRepeticao(r)
  <2> SUFFICES ASSUME NEW j \in 1..(Len(s) + 1), NEW k \in 1..(Len(s) + 1), r[j] = r[k]
               PROVE  j = k
    BY <1>2 DEF SemRepeticao
  <2>1. \A i \in 1..Len(s) : s[i] # e
    BY <1>2, <1>4 DEF ToSet
  <2>2. CASE j = Len(s) + 1 \/ k = Len(s) + 1
    BY <1>1, <2>1, <2>2 DEF r
  <2>3. CASE j \in 1..Len(s) /\ k \in 1..Len(s)
    BY <1>1, <1>2, <1>4, <2>3 DEF r, SemRepeticao
  <2> QED
    BY <1>1, <2>2, <2>3
<1> QED
  BY <1>1, <1>3, <1>4 DEF r

\* remove of the element at a place.
LEMMA RetiraLugar ==
  ASSUME NEW S, NEW s \in Seq(S), NEW k \in 1..Len(s)
  PROVE  /\ RemoveAt(s, k) \in Seq(S) /\ Len(RemoveAt(s, k)) = Len(s) - 1
         /\ \A i \in 1..(Len(s) - 1) :
              RemoveAt(s, k)[i] = IF i < k THEN s[i] ELSE s[i + 1]
<1> DEFINE a == SubSeq(s, 1, k - 1)
           b == SubSeq(s, k + 1, Len(s))
<1>0. Len(s) \in Nat /\ k \in Nat /\ 1 <= k /\ k <= Len(s)
  OBVIOUS
<1>1. /\ a \in Seq(S) /\ Len(a) = k - 1
      /\ \A i \in 1..(k - 1) : a[i] = s[i]
  <2>1. \A i \in 1..(k - 1) : s[i] \in S
    BY <1>0
  <2> HIDE DEF a
  <2>2. /\ a \in Seq(S)
        /\ Len(a) = IF 1 <= k - 1 THEN (k - 1) - 1 + 1 ELSE 0
        /\ \A i \in 1..((k - 1) - 1 + 1) : a[i] = s[1 + i - 1]
    BY <1>0, <2>1, SubSeqProperties DEF a
  <2> QED
    BY <1>0, <2>2
<1>2. /\ b \in Seq(S) /\ Len(b) = Len(s) - k
      /\ \A i \in 1..(Len(s) - k) : b[i] = s[k + i]
  <2>1. \A i \in (k + 1)..Len(s) : s[i] \in S
    BY <1>0
  <2> HIDE DEF b
  <2>2. /\ b \in Seq(S)
        /\ Len(b) = IF k + 1 <= Len(s) THEN Len(s) - (k + 1) + 1 ELSE 0
        /\ \A i \in 1..(Len(s) - (k + 1) + 1) : b[i] = s[(k + 1) + i - 1]
    BY <1>0, <2>1, SubSeqProperties DEF b
  <2> QED
    BY <1>0, <2>2
<1>3. RemoveAt(s, k) = a \o b
  BY DEF RemoveAt
<1> HIDE DEF a, b
<1>4. /\ a \o b \in Seq(S) /\ Len(a \o b) = Len(a) + Len(b)
      /\ \A i \in 1..(Len(a) + Len(b)) :
           (a \o b)[i] = IF i <= Len(a) THEN a[i] ELSE b[i - Len(a)]
  BY <1>1, <1>2, ConcatProperties
<1>5. ASSUME NEW i \in 1..(Len(s) - 1)
      PROVE  (a \o b)[i] = IF i < k THEN s[i] ELSE s[i + 1]
  <2>1. CASE i < k
    BY <1>0, <1>1, <1>2, <1>4, <2>1
  <2>2. CASE ~(i < k)
    <3>1. i \in 1..(Len(a) + Len(b)) /\ ~(i <= Len(a))
      BY <1>0, <1>1, <1>2, <2>2
    <3>2. i - Len(a) \in 1..(Len(s) - k) /\ k + (i - Len(a)) = i + 1
      BY <1>0, <1>1, <2>2
    <3>3. (a \o b)[i] = b[i - Len(a)]
      BY <1>4, <3>1
    <3> QED
      BY <1>2, <2>2, <3>2, <3>3
  <2> QED
    BY <2>1, <2>2
<1> QED
  BY <1>0, <1>1, <1>2, <1>3, <1>4, <1>5

LEMMA Retira ==
  ASSUME NEW S, NEW s \in Seq(S), NEW k \in 1..Len(s), SemRepeticao(s)
  PROVE  /\ RemoveAt(s, k) \in Seq(S) /\ SemRepeticao(RemoveAt(s, k))
         /\ ToSet(RemoveAt(s, k)) = ToSet(s) \ {s[k]}
<1> DEFINE r == RemoveAt(s, k)
<1>0. Len(s) \in Nat /\ k \in Nat /\ 1 <= k /\ k <= Len(s) /\ DOMAIN s = 1..Len(s)
  OBVIOUS
<1>1. /\ r \in Seq(S) /\ Len(r) = Len(s) - 1
      /\ \A i \in 1..(Len(s) - 1) : r[i] = IF i < k THEN s[i] ELSE s[i + 1]
  BY RetiraLugar
<1> HIDE DEF r
<1>2. DOMAIN r = 1..(Len(s) - 1)
  BY <1>1
<1>3. \A i, j \in 1..Len(s) : s[i] = s[j] => i = j
  BY <1>0 DEF SemRepeticao
<1>4. SemRepeticao(r)
  <2> SUFFICES ASSUME NEW i \in 1..(Len(s) - 1), NEW j \in 1..(Len(s) - 1), r[i] = r[j]
               PROVE  i = j
    BY <1>2 DEF SemRepeticao
  <2> DEFINE a == IF i < k THEN i ELSE i + 1
             b == IF j < k THEN j ELSE j + 1
  <2>1. r[i] = s[a] /\ r[j] = s[b]
    BY <1>1
  <2>2. a \in 1..Len(s) /\ b \in 1..Len(s)
    BY <1>0
  <2>3. a = b
    BY <1>3, <2>1, <2>2
  <2> QED
    BY <1>0, <2>3
<1>5. ASSUME NEW x \in ToSet(r) PROVE x \in ToSet(s) \ {s[k]}
  <2>1. PICK i \in 1..(Len(s) - 1) : x = r[i]
    BY <1>2 DEF ToSet
  <2> DEFINE a == IF i < k THEN i ELSE i + 1
  <2>2. a \in 1..Len(s) /\ a # k /\ x = s[a]
    BY <1>0, <1>1, <2>1
  <2> QED
    BY <1>0, <1>3, <2>2 DEF ToSet
<1>6. ASSUME NEW x \in ToSet(s) \ {s[k]} PROVE x \in ToSet(r)
  <2>1. PICK i \in 1..Len(s) : x = s[i]
    BY <1>0 DEF ToSet
  <2> DEFINE a == IF i < k THEN i ELSE i - 1
  <2>2. i # k
    BY <1>6, <2>1
  <2>3. a \in 1..(Len(s) - 1) /\ (i < k <=> a < k) /\ (~(i < k) => a + 1 = i)
    BY <1>0, <2>2
  <2>4. r[a] = x
    BY <1>1, <2>1, <2>3
  <2> QED
    BY <1>2, <2>3, <2>4 DEF ToSet
<1> QED
  BY <1>1, <1>4, <1>5, <1>6 DEF r

\* remove of an element, which may not be there.
LEMMA RetiraPrimeiro ==
  ASSUME NEW S, NEW s \in Seq(S), NEW e, SemRepeticao(s)
  PROVE  /\ RemoveFirst(s, e) \in Seq(S) /\ SemRepeticao(RemoveFirst(s, e))
         /\ ToSet(RemoveFirst(s, e)) = ToSet(s) \ {e}
         /\ \/ RemoveFirst(s, e) = s
            \/ \E k \in 1..Len(s) : RemoveFirst(s, e) = RemoveAt(s, k)
<1>1. CASE \E i \in 1..Len(s) : s[i] = e
  <2>1. PICK k \in 1..Len(s) : s[k] = e
    BY <1>1
  <2>2. \A i \in 1..Len(s) : s[i] = e => i = k
    BY <2>1 DEF SemRepeticao
  <2> DEFINE I == {i \in 1..Len(s) : s[i] = e}
  <2>3. I = {k}
    BY <2>1, <2>2
  <2>4. SelectInSeq(s, LAMBDA v : v = e) = (IF I # {} THEN Min(I) ELSE 0)
    BY DEF SelectInSeq
  <2> HIDE DEF I
  <2>5. Min(I) = k
    <3>1. k \in I /\ \A y \in I : k <= y
      BY <2>3
    <3> QED
      BY <2>3, <3>1 DEF Min
  <2>6. SelectInSeq(s, LAMBDA v : v = e) = k
    BY <2>3, <2>4, <2>5
  <2>7. RemoveFirst(s, e) = RemoveAt(s, k)
    BY <1>1, <2>6 DEF RemoveFirst
  <2> QED
    BY <2>1, <2>7, Retira
<1>2. CASE ~ \E i \in 1..Len(s) : s[i] = e
  <2>1. RemoveFirst(s, e) = s
    BY <1>2 DEF RemoveFirst
  <2>2. e \notin ToSet(s)
    BY <1>2 DEF ToSet
  <2> QED
    BY <2>1, <2>2
<1> QED
  BY <1>1, <1>2

\* Whoever stays is no further back than before.
LEMMA RetiraAvanca ==
  ASSUME NEW S, NEW s \in Seq(S), NEW e, SemRepeticao(s),
         NEW i \in DOMAIN s, NEW j \in DOMAIN RemoveFirst(s, e), s[i] = RemoveFirst(s, e)[j]
  PROVE  j <= i
<1>1. DOMAIN s = 1..Len(s) /\ Len(s) \in Nat
  OBVIOUS
<1>2. CASE RemoveFirst(s, e) = s
  BY <1>1, <1>2 DEF SemRepeticao
<1>3. CASE \E k \in 1..Len(s) : RemoveFirst(s, e) = RemoveAt(s, k)
  <2>1. PICK k \in 1..Len(s) : RemoveFirst(s, e) = RemoveAt(s, k)
    BY <1>3
  <2> DEFINE r == RemoveAt(s, k)
  <2>2. /\ r \in Seq(S) /\ Len(r) = Len(s) - 1
        /\ \A l \in 1..(Len(s) - 1) : r[l] = IF l < k THEN s[l] ELSE s[l + 1]
    BY RetiraLugar
  <2>3. j \in DOMAIN r /\ s[i] = r[j]
    BY <2>1
  <2> HIDE DEF r
  <2>4. j \in 1..(Len(s) - 1) /\ (s[i] = s[j] \/ s[i] = s[j + 1])
    BY <2>2, <2>3
  <2>5. j \in 1..Len(s) /\ j + 1 \in 1..Len(s)
    BY <1>1, <2>4
  <2> QED
    BY <1>1, <2>4, <2>5 DEF SemRepeticao
<1> QED
  BY <1>2, <1>3, RetiraPrimeiro

\* RoundRobin's remove(0) and add.
LEMMA ParaOFim ==
  ASSUME NEW S, NEW s \in Seq(S), s # <<>>, SemRepeticao(s)
  PROVE  /\ Append(Tail(s), Head(s)) \in Seq(S)
         /\ SemRepeticao(Append(Tail(s), Head(s)))
         /\ ToSet(Append(Tail(s), Head(s))) = ToSet(s)
         /\ Head(s) \in ToSet(s)
<1>1. Len(s) \in Nat /\ Len(s) >= 1 /\ DOMAIN s = 1..Len(s)
  BY EmptySeq
<1>2. RemoveAt(s, 1) = Tail(s)
  <2>1. RemoveAt(s, 1) = SubSeq(s, 1, 0) \o SubSeq(s, 2, Len(s))
    BY DEF RemoveAt
  <2>2. SubSeq(s, 1, 0) = <<>>
    BY SubSeqEmpty
  <2>3. Tail(s) \in Seq(S) /\ Tail(s) = SubSeq(s, 2, Len(s))
    BY TailIsSubSeq, HeadTailProperties
  <2>4. <<>> \o Tail(s) = Tail(s)
    BY <2>3, ConcatEmptySeq
  <2> QED
    BY <2>1, <2>2, <2>3, <2>4
<1>3. Head(s) = s[1] /\ Head(s) \in S
  BY <1>1, HeadTailProperties
<1> DEFINE t == Tail(s)
           h == Head(s)
<1> HIDE DEF t, h
<1>4. t \in Seq(S) /\ SemRepeticao(t) /\ ToSet(t) = ToSet(s) \ {h}
  <2>1. RemoveAt(s, 1) = t /\ s[1] = h /\ 1 \in 1..Len(s)
    BY <1>1, <1>2, <1>3 DEF t, h
  <2> QED
    BY <2>1, Retira
<1>5. Head(s) \in ToSet(s)
  BY <1>1, <1>3 DEF ToSet
<1> QED
  <2>1. h \in S /\ h \notin ToSet(t) /\ h \in ToSet(s)
    BY <1>3, <1>4, <1>5 DEF h
  <2>2. /\ Append(t, h) \in Seq(S) /\ SemRepeticao(Append(t, h))
        /\ ToSet(Append(t, h)) = ToSet(t) \cup {h}
    BY <1>4, <2>1, Acrescenta
  <2> QED
    BY <1>4, <2>1, <2>2 DEF t, h

\* A list of all the numbers up to n.
LEMMA Todos ==
  ASSUME NEW n \in Nat
  PROVE  /\ [q \in 1..n |-> q] \in Seq(1..n)
         /\ SemRepeticao([q \in 1..n |-> q])
         /\ ToSet([q \in 1..n |-> q]) = 1..n
<1>1. [q \in 1..n |-> q] \in Seq(1..n)
  OBVIOUS
<1> QED
  BY <1>1 DEF SemRepeticao, ToSet

LEMMA Vazia ==
  ASSUME NEW S
  PROVE  <<>> \in Seq(S) /\ SemRepeticao(<<>>) /\ ToSet(<<>>) = {}
  BY DEF SemRepeticao, ToSet

-----------------------------------------------------------------------------
(* The loop of retornarProcessosAptos *)

\* What AptosAte does at k, given what it did before.
Passa(f, k) ==
  IF k = 0 THEN listaAptos
  ELSE LET antes == f[k - 1]
       IN IF Chegou(listaProcessos[k]) /\ ~Contains(antes, listaProcessos[k])
            THEN Append(antes, listaProcessos[k])
            ELSE antes

LEMMA ExisteAte == \A n \in Nat : \E f : f = [k \in 0..n |-> Passa(f, k)]
<1> DEFINE A == {n \in Nat : \E f : f = [k \in 0..n |-> Passa(f, k)]}
<1>1. 0 \in A
  <2> DEFINE f == [k \in 0..0 |-> listaAptos]
  <2>1. f = [k \in 0..0 |-> Passa(f, k)]
    BY DEF Passa
  <2> QED
    BY <2>1
<1>2. ASSUME NEW n \in A PROVE n + 1 \in A
  <2>1. PICK f : f = [k \in 0..n |-> Passa(f, k)]
    OBVIOUS
  <2> DEFINE g == [k \in 0..n+1 |-> IF k = n + 1 THEN Passa(f, n + 1) ELSE f[k]]
  <2>2. \A k \in 0..n+1 : Passa(g, k) = Passa(f, k)
    BY DEF Passa
  <2>3. \A k \in 0..n+1 : g[k] = Passa(f, k)
    BY <2>1
  <2>4. g = [k \in 0..n+1 |-> Passa(g, k)]
    BY <2>2, <2>3
  <2> HIDE DEF g
  <2>5. \E h : h = [k \in 0..n+1 |-> Passa(h, k)]
    BY <2>4
  <2> QED
    BY <2>5
<1>3. A = Nat
  <2>1. A \in SUBSET Nat
    OBVIOUS
  <2> HIDE DEF A
  <2> QED
    BY <1>1, <1>2, <2>1, Inducao
<1> QED
  BY <1>3

LEMMA AteDefinida ==
  ASSUME Len(listaProcessos) \in Nat
  PROVE  \A k \in 0..Len(listaProcessos) : AptosAte[k] = Passa(AptosAte, k)
<1>1. \E f : f = [k \in 0..Len(listaProcessos) |-> Passa(f, k)]
  BY ExisteAte
<1>2. AptosAte = [k \in 0..Len(listaProcessos) |-> Passa(AptosAte, k)]
  BY <1>1, Zenon DEF AptosAte, Passa
<1> DEFINE f == AptosAte
<1> HIDE DEF f
<1>3. f = [k \in 0..Len(listaProcessos) |-> Passa(f, k)]
  BY <1>2 DEF f
<1>4. \A k \in 0..Len(listaProcessos) : f[k] = Passa(f, k)
  BY <1>3, Zenon
<1> QED
  BY <1>4 DEF f

\* Aptos is listaAptos and, once each and after it, who has arrived.
LEMMA AptosCertos ==
  ASSUME listaAptos \in Seq(Processos), SemRepeticao(listaAptos),
         listaProcessos \in Seq(Processos)
  PROVE  /\ Aptos \in Seq(Processos) /\ SemRepeticao(Aptos)
         /\ ToSet(Aptos) = ToSet(listaAptos) \cup {q \in ToSet(listaProcessos) : Chegou(q)}
         /\ Len(listaAptos) <= Len(Aptos)
         /\ \A i \in DOMAIN listaAptos : Aptos[i] = listaAptos[i]
<1> DEFINE n == Len(listaProcessos)
           De(k) == {q \in {listaProcessos[i] : i \in 1..k} : Chegou(q)}
           Certo(k) == /\ AptosAte[k] \in Seq(Processos) /\ SemRepeticao(AptosAte[k])
                       /\ ToSet(AptosAte[k]) = ToSet(listaAptos) \cup De(k)
                       /\ Len(listaAptos) <= Len(AptosAte[k])
                       /\ \A i \in 1..Len(listaAptos) : AptosAte[k][i] = listaAptos[i]
           A == {k \in Nat : k <= n => Certo(k)}
<1>0. n \in Nat /\ \A k \in 0..n : AptosAte[k] = Passa(AptosAte, k)
  BY AteDefinida
<1>1. 0 \in A
  <2>1. AptosAte[0] = listaAptos
    BY <1>0 DEF Passa
  <2>2. De(0) = {}
    OBVIOUS
  <2> QED
    BY <2>1, <2>2
<1>2. ASSUME NEW k \in A PROVE k + 1 \in A
  <2> SUFFICES ASSUME k + 1 <= n PROVE Certo(k + 1)
    <3> HIDE DEF Certo, n
    <3> QED
      OBVIOUS
  <2> DEFINE e == listaProcessos[k + 1]
             a == AptosAte[k]
  <2>0. k \in Nat /\ k + 1 \in 1..n /\ k <= n /\ k + 1 # 0 /\ (k + 1) - 1 = k
    BY <1>0
  <2>1. e \in Processos /\ Certo(k)
    BY <2>0
  <2>2. AptosAte[k + 1] = Passa(AptosAte, k + 1)
    BY <1>0, <2>0
  <2>3. AptosAte[k + 1] = IF Chegou(e) /\ ~Contains(a, e) THEN Append(a, e) ELSE a
    BY <2>0, <2>2 DEF Passa
  <2>4. De(k + 1) = IF Chegou(e) THEN De(k) \cup {e} ELSE De(k)
    BY <2>0
  <2>5. Contains(a, e) <=> e \in ToSet(a)
    BY <2>1, Contem
  <2> HIDE DEF De, e
  <2>6. CASE Chegou(e) /\ ~Contains(a, e)
    <3>1. AptosAte[k + 1] = Append(a, e)
      BY <2>3, <2>6
    <3>2. /\ AptosAte[k + 1] \in Seq(Processos) /\ SemRepeticao(AptosAte[k + 1])
          /\ ToSet(AptosAte[k + 1]) = ToSet(listaAptos) \cup De(k + 1)
      BY <2>1, <2>4, <2>5, <2>6, <3>1, Acrescenta
    <3>3. /\ Len(Append(a, e)) = Len(a) + 1 /\ Len(a) \in Nat /\ Len(listaAptos) \in Nat
          /\ \A i \in 1..Len(a) : Append(a, e)[i] = a[i]
      BY <2>1, AppendProperties
    <3> HIDE DEF a
    <3>4. /\ Len(listaAptos) <= Len(AptosAte[k + 1])
          /\ \A i \in 1..Len(listaAptos) : AptosAte[k + 1][i] = listaAptos[i]
      <4>1. /\ Len(listaAptos) <= Len(a)
            /\ \A i \in 1..Len(listaAptos) : a[i] = listaAptos[i]
        BY <2>1 DEF a
      <4>2. \A i \in 1..Len(listaAptos) : i \in 1..Len(a)
        BY <3>3, <4>1
      <4> QED
        BY <3>1, <3>3, <4>1, <4>2
    <3> QED
      BY <3>2, <3>4
  <2>7. CASE ~(Chegou(e) /\ ~Contains(a, e))
    BY <2>1, <2>3, <2>4, <2>5, <2>7
  <2> QED
    BY <2>6, <2>7
<1>3. A = Nat
  <2>1. A \in SUBSET Nat
    OBVIOUS
  <2> HIDE DEF A
  <2> QED
    BY <1>1, <1>2, <2>1, Inducao
<1>4. Certo(n)
  BY <1>0, <1>3
<1>5. De(n) = {q \in ToSet(listaProcessos) : Chegou(q)}
  BY <1>0 DEF ToSet
<1> QED
  BY <1>4, <1>5 DEF Aptos

-----------------------------------------------------------------------------
(* The choice *)

LEMMA Arquivo ==
  ASSUME tabela \in Tabelas
  PROVE  /\ Processos = 1..Len(tabela) /\ Len(tabela) \in Nat /\ NULL \notin Processos
         /\ \A q \in Processos : /\ tabela[q].tempoTotal \in Nat
                                 /\ tabela[q].prioridade \in Nat
                                 /\ tabela[q].tempoChegada \in Nat
                                 /\ tabela[q].listaIO \in Seq(Nat)
<1>1. tabela \in Seq(Linha)
  BY TabelasAssumption
<1>2. Processos = 1..Len(tabela) /\ Len(tabela) \in Nat
  BY <1>1 DEF Processos
<1>3. \A q \in Processos : tabela[q] \in Linha
  BY <1>1, <1>2
<1> QED
  BY <1>2, <1>3 DEF Linha, NULL

LEMMA OMenor ==
  ASSUME NEW S, NEW s \in Seq(S), s # <<>>, NEW v,
         \A q \in S : v[q] \in Int /\ v[q] >= -1
  PROVE  /\ PrimeiroMenor(s, v) \in ToSet(s)
         /\ \A q \in ToSet(s) : v[PrimeiroMenor(s, v)] <= v[q]
<1> DEFINE w(j) == v[s[j]]
           V == {w(j) + 1 : j \in DOMAIN s}
<1>1. DOMAIN s = 1..Len(s) /\ Len(s) \in Nat /\ 1 \in DOMAIN s
  BY EmptySeq
<1>2. \A j \in DOMAIN s : s[j] \in S /\ w(j) \in Int /\ w(j) >= -1
  OBVIOUS
<1>3. V \in SUBSET Nat /\ V # {}
  BY <1>1, <1>2
<1>4. PICK m \in V : \A y \in V : m <= y
  BY <1>3, Menor
<1> DEFINE I == {j \in DOMAIN s : w(j) + 1 = m}
<1>5. I \in SUBSET Nat /\ I # {}
  BY <1>1, <1>4
<1>6. PICK j \in I : \A k \in I : j <= k
  <2> HIDE DEF I
  <2> QED
    BY <1>5, Menor
<1>7. j \in DOMAIN s /\ \A k \in DOMAIN s : w(j) <= w(k)
  <2>1. \A k \in DOMAIN s : m <= w(k) + 1
    BY <1>4
  <2> QED
    BY <1>2, <1>6, <2>1
<1>8. ASSUME NEW k \in 1..j-1 PROVE w(j) < w(k)
  <2>1. k \in DOMAIN s /\ ~(j <= k)
    BY <1>1, <1>7
  <2>2. k \notin I
    BY <1>6, <2>1
  <2>3. w(k) + 1 # w(j) + 1
    BY <1>6, <2>1, <2>2
  <2> QED
    BY <1>2, <1>7, <2>1, <2>3
<1> DEFINE Primeiro(i) == /\ \A k \in DOMAIN s : v[s[i]] <= v[s[k]]
                          /\ \A k \in 1..i-1 : v[s[i]] < v[s[k]]
           i == CHOOSE i \in DOMAIN s : Primeiro(i)
<1>9. \E k \in DOMAIN s : Primeiro(k)
  BY <1>7, <1>8
<1>10. i \in DOMAIN s /\ Primeiro(i)
  <2> HIDE DEF Primeiro
  <2> QED
    BY <1>9
<1>11. PrimeiroMenor(s, v) = s[i]
  BY DEF PrimeiroMenor
<1> HIDE DEF i
<1> QED
  BY <1>10, <1>11 DEF ToSet

LEMMA EscolhidoCerto ==
  ASSUME TypeOK, NEW s \in Seq(Processos), s # <<>>
  PROVE  /\ Escolhido(s) \in ToSet(s)
         /\ listaAlg[alg] = "Sjf" =>
              \A q \in ToSet(s) : bcp[Escolhido(s)].tempoTotal <= bcp[q].tempoTotal
         /\ listaAlg[alg] = "Prioridade" =>
              \A q \in ToSet(s) : tabela[Escolhido(s)].prioridade <= tabela[q].prioridade
<1>1. listaAlg[alg] \in {"Sjf", "Prioridade", "RoundRobin"}
  BY DEF TypeOK, listaAlg
<1>2. ToSet(s) \subseteq Processos
  BY DeSet
<1>3. CASE listaAlg[alg] = "Sjf"
  <2>1. Escolhido(s) = PrimeiroMenor(s, Restante)
    BY <1>3 DEF Escolhido
  <2>2. \A q \in Processos : Restante[q] \in Int /\ Restante[q] >= -1
                             /\ Restante[q] = bcp[q].tempoTotal
    BY Arquivo DEF TypeOK, Restante
  <2>3. /\ Escolhido(s) \in ToSet(s)
        /\ \A q \in ToSet(s) : Restante[Escolhido(s)] <= Restante[q]
    BY <2>1, <2>2, OMenor
  <2> QED
    BY <1>2, <1>3, <2>2, <2>3
<1>4. CASE listaAlg[alg] = "Prioridade"
  <2>1. Escolhido(s) = PrimeiroMenor(s, Prioridades)
    BY <1>4 DEF Escolhido
  <2>2. \A q \in Processos : Prioridades[q] \in Int /\ Prioridades[q] >= -1
                             /\ Prioridades[q] = tabela[q].prioridade
    BY Arquivo DEF TypeOK, Prioridades
  <2>3. /\ Escolhido(s) \in ToSet(s)
        /\ \A q \in ToSet(s) : Prioridades[Escolhido(s)] <= Prioridades[q]
    BY <2>1, <2>2, OMenor
  <2> QED
    BY <1>2, <1>4, <2>2, <2>3
<1>5. CASE listaAlg[alg] = "RoundRobin"
  <2>1. Escolhido(s) = Head(s)
    BY <1>5 DEF Escolhido
  <2>2. Head(s) = s[1] /\ 1 \in DOMAIN s
    BY HeadTailProperties, EmptySeq
  <2> QED
    BY <1>5, <2>1, <2>2 DEF ToSet
<1> QED
  BY <1>1, <1>3, <1>4, <1>5

LEMMA AposEscolhaCerta ==
  ASSUME NEW s \in Seq(Processos), s # <<>>, SemRepeticao(s)
  PROVE  /\ AposEscolha(s) \in Seq(Processos) /\ SemRepeticao(AposEscolha(s))
         /\ ToSet(AposEscolha(s)) = ToSet(s)
  BY ParaOFim DEF AposEscolha

\* Who may be scheduled is who could run: nobody is missed, nobody comes early.
LEMMA AptosProntos ==
  ASSUME IInv
  PROVE  ToSet(Aptos) = Prontos
<1>1. ToSet(Aptos) = ToSet(listaAptos) \cup {q \in ToSet(listaProcessos) : Chegou(q)}
  BY AptosCertos DEF IInv, TypeOK, ListasCertas
<1>2. ToSet(listaProcessos) \subseteq Processos
  BY DeSet DEF IInv, TypeOK
<1> QED
  BY <1>1, <1>2 DEF IInv, ListasCertas, Chegaram, Chegou, Prontos

-----------------------------------------------------------------------------
(* The steps of the loop *)

LEMMA EscalonaListas ==
  ASSUME IInv, Escalona
  PROVE  /\ listaAptos' \in Seq(Processos) /\ SemRepeticao(listaAptos')
         /\ ToSet(listaAptos') = Prontos
         /\ p' # NULL => p' \in Prontos
         /\ p' = NULL <=> Prontos = {}
<1>1. /\ Aptos \in Seq(Processos) /\ SemRepeticao(Aptos) /\ ToSet(Aptos) = Prontos
  BY AptosCertos, AptosProntos DEF IInv, TypeOK, ListasCertas
<1>2. Prontos \subseteq Processos /\ NULL \notin Processos
  BY Arquivo DEF IInv, TypeOK, Prontos
<1>3. CASE Aptos = <<>>
  BY <1>1, <1>3, Vazia DEF Escalona
<1>4. CASE Aptos # <<>>
  <2>1. p' = Escolhido(Aptos) /\ listaAptos' = AposEscolha(Aptos)
    BY <1>4 DEF Escalona
  <2>2. Escolhido(Aptos) \in ToSet(Aptos)
    BY <1>1, <1>4, EscolhidoCerto DEF IInv
  <2>3. /\ AposEscolha(Aptos) \in Seq(Processos) /\ SemRepeticao(AposEscolha(Aptos))
        /\ ToSet(AposEscolha(Aptos)) = ToSet(Aptos)
    BY <1>1, <1>4, AposEscolhaCerta
  <2> QED
    BY <1>1, <1>2, <2>1, <2>2, <2>3
<1> QED
  BY <1>3, <1>4

LEMMA EscalonaPasso ==
  ASSUME IInv, Escalona
  PROVE  IInv'
<1> USE DEF IInv
<1>1. /\ listaAptos' \in Seq(Processos) /\ SemRepeticao(listaAptos')
      /\ ToSet(listaAptos') = Prontos
      /\ p' # NULL => p' \in Prontos
      /\ p' = NULL <=> Prontos = {}
  BY EscalonaListas
<1>2. /\ UNCHANGED <<tabela, alg, ciclo, bcp, listaProcessos, listaBloqueado, listaFinalizados,
                     maximos, tempoExecutado, ordemExecutados>>
      /\ pc = "escalonar" /\ pc' = "executar"
  BY DEF Escalona
<1>3. Prontos \subseteq Processos
  BY DEF Prontos
<1>4. TypeOK'
  BY <1>1, <1>2, <1>3 DEF TypeOK, Processos, maximos
<1>5. ListasCertas'
  BY <1>1, <1>2 DEF ListasCertas, Prontos, Processos
<1>6. Chegaram'
  BY <1>1, <1>2 DEF Chegaram, Prontos
<1>7. EmTurno'
  BY <1>1, <1>2 DEF EmTurno
<1>8. DeveCerto'
  BY <1>2 DEF DeveCerto, Processos, Vezes
<1>9. EsperaCerta'
  BY <1>2 DEF EsperaCerta, Esperou
<1>10. EmFila'
  BY <1>2 DEF EmFila, Processos
<1> QED
  BY <1>4, <1>5, <1>6, <1>7, <1>8, <1>9, <1>10

LEMMA EscalonaEscolhe ==
  ASSUME IInv, Escalona
  PROVE  /\ p' = NULL <=> Prontos = {}
         /\ p' # NULL => p' \in Prontos
         /\ p' # NULL /\ listaAlg[alg] = "Sjf" =>
              \A q \in Prontos : bcp[p'].tempoTotal <= bcp[q].tempoTotal
         /\ p' # NULL /\ listaAlg[alg] = "Prioridade" =>
              \A q \in Prontos : tabela[p'].prioridade <= tabela[q].prioridade
<1>1. /\ Aptos \in Seq(Processos) /\ ToSet(Aptos) = Prontos
  BY AptosCertos, AptosProntos DEF IInv, TypeOK, ListasCertas
<1>2. p' # NULL => Aptos # <<>> /\ p' = Escolhido(Aptos)
  BY DEF Escalona
<1> QED
  BY <1>1, <1>2, EscalonaListas, EscolhidoCerto DEF IInv

-----------------------------------------------------------------------------
(* Counting in ordemExecutados *)

LEMMA MaisUm ==
  ASSUME NEW n \in Nat, NEW A \in SUBSET (1..n)
  PROVE  /\ Cardinality(A) \in Nat
         /\ Cardinality(A \cup {n + 1}) = Cardinality(A) + 1
<1>1. IsFiniteSet(1..n)
  BY FS_Interval
<1>2. IsFiniteSet(A)
  BY <1>1, FS_Subset
<1>3. n + 1 \notin A
  OBVIOUS
<1> QED
  BY <1>2, <1>3, FS_CardinalityType, FS_AddElement

LEMMA VezesApos ==
  ASSUME ordemExecutados \in Seq(Processos), p \in Processos,
         ordemExecutados' = Append(ordemExecutados, p), NEW q
  PROVE  /\ Vezes(q) \in Nat
         /\ Vezes(q)' = IF q = p THEN Vezes(q) + 1 ELSE Vezes(q)
<1> DEFINE o == ordemExecutados
           n == Len(o)
           J == {j \in DOMAIN o : o[j] = q}
<1>1. n \in Nat /\ DOMAIN o = 1..n
  OBVIOUS
<1>2. /\ DOMAIN o' = 1..(n + 1) /\ o'[n + 1] = p
      /\ \A j \in 1..n : o'[j] = o[j]
  BY <1>1, AppendProperties
<1>3. {j \in DOMAIN o' : o'[j] = q} = IF q = p THEN J \cup {n + 1} ELSE J
  <2>1. \A j \in 1..(n + 1) : j \in 1..n \/ j = n + 1
    BY <1>1
  <2>2. 1..n \subseteq 1..(n + 1) /\ n + 1 \in 1..(n + 1) /\ n + 1 \notin 1..n
    BY <1>1
  <2> HIDE DEF o, n
  <2> QED
    BY <1>1, <1>2, <2>1, <2>2
<1>4. Cardinality(J) \in Nat /\ Cardinality(J \cup {n + 1}) = Cardinality(J) + 1
  BY <1>1, MaisUm
<1> QED
  BY <1>3, <1>4 DEF Vezes

LEMMA EsperouApos ==
  ASSUME ordemExecutados \in Seq(Processos), p \in Processos,
         ordemExecutados' = Append(ordemExecutados, p), tabela' = tabela, NEW q
  PROVE  /\ Esperou(q) \in Nat
         /\ Esperou(q)' = IF q # p /\ tabela[p].tempoTotal > 0 /\ q \in ToSet(ordemExecutados)
                            THEN Esperou(q) + 1 ELSE Esperou(q)
<1> DEFINE o == ordemExecutados
           n == Len(o)
           E(s, j) == /\ s[j] # q
                      /\ tabela[s[j]].tempoTotal > 0
                      /\ \E k \in 1..j : s[k] = q
           J == {j \in DOMAIN o : E(o, j)}
           Mais == q # p /\ tabela[p].tempoTotal > 0 /\ q \in ToSet(o)
<1>1. n \in Nat /\ DOMAIN o = 1..n
  OBVIOUS
<1>2. /\ DOMAIN o' = 1..(n + 1) /\ o'[n + 1] = p
      /\ \A j \in 1..n : o'[j] = o[j]
  BY <1>1, AppendProperties
<1>3. \A j \in 1..n : E(o', j) <=> E(o, j)
  <2>1. \A j \in 1..n : 1..j \subseteq 1..n
    BY <1>1
  <2> HIDE DEF o, n
  <2> QED
    BY <1>2, <2>1
<1>4. E(o', n + 1) <=> Mais
  <2>1. (\E k \in 1..(n + 1) : o'[k] = q) <=> (p = q \/ \E k \in 1..n : o[k] = q)
    <3>1. \A j \in 1..(n + 1) : j \in 1..n \/ j = n + 1
      BY <1>1
    <3>2. 1..n \subseteq 1..(n + 1) /\ n + 1 \in 1..(n + 1)
      BY <1>1
    <3> HIDE DEF o, n
    <3> QED
      BY <1>2, <3>1, <3>2
  <2>2. (\E k \in 1..n : o[k] = q) <=> q \in ToSet(o)
    BY <1>1 DEF ToSet
  <2> HIDE DEF o, n
  <2> QED
    BY <1>2, <2>1, <2>2
<1>5. {j \in DOMAIN o' : E(o', j)} = IF Mais THEN J \cup {n + 1} ELSE J
  <2>1. \A j \in 1..(n + 1) : j \in 1..n \/ j = n + 1
    BY <1>1
  <2>2. 1..n \subseteq 1..(n + 1) /\ n + 1 \in 1..(n + 1) /\ n + 1 \notin 1..n
    BY <1>1
  <2> HIDE DEF o, n, E, Mais
  <2> QED
    BY <1>1, <1>2, <1>3, <1>4, <2>1, <2>2
<1>6. Cardinality(J) \in Nat /\ Cardinality(J \cup {n + 1}) = Cardinality(J) + 1
  <2>1. J \in SUBSET (1..n)
    BY <1>1
  <2> HIDE DEF J, n
  <2> QED
    BY <1>1, <2>1, MaisUm
<1>7. Esperou(q) = Cardinality(J) /\ Esperou(q)' = Cardinality({j \in DOMAIN o' : E(o', j)})
  BY DEF Esperou
<1> HIDE DEF J, E
<1> QED
  BY <1>5, <1>6, <1>7

-----------------------------------------------------------------------------
(* The turn of a process *)

LEMMA EmExecucao ==
  ASSUME IInv, Executa
  PROVE  /\ p \in Processos /\ p \in ToSet(listaAptos) /\ p \in ToSet(listaProcessos)
         /\ p \notin ToSet(listaFinalizados) /\ p \notin ToSet(listaBloqueado)
         /\ bcp[p].tempoTotal \in 0..tabela[p].tempoTotal
         /\ tabela[p].tempoTotal \in Nat
         /\ bcp[p].tempoTotal = 0 <=> tabela[p].tempoTotal = 0
         /\ tempoExecutado' = (IF tabela[p].tempoTotal > 0 THEN 1 ELSE 0)
         /\ Encerra(p) <=> bcp[p].tempoTotal <= 1
<1> USE DEF IInv
<1>1. pc = "executar" /\ p # NULL /\ p \in Processos
  BY DEF Executa, TypeOK
<1>2. p \in ToSet(listaAptos) /\ p \in ToSet(listaProcessos)
  BY <1>1 DEF EmTurno, ListasCertas
<1>3. p \notin ToSet(listaFinalizados) /\ p \notin ToSet(listaBloqueado)
  BY <1>2 DEF ListasCertas
<1>4. bcp[p].tempoTotal \in -1..tabela[p].tempoTotal /\ tabela[p].tempoTotal \in Nat
  BY <1>1, Arquivo DEF TypeOK
<1>5. bcp[p].tempoTotal >= 0 /\ (bcp[p].tempoTotal = 0 => tabela[p].tempoTotal = 0)
  BY <1>1, <1>2 DEF DeveCerto
<1>6. tempoExecutado' = Min2(bcp[p].tempoTotal, quantum)
  BY DEF Executa
<1> QED
  BY <1>1, <1>2, <1>3, <1>4, <1>5, <1>6 DEF Min2, quantum, Encerra

LEMMA ExecutaListas ==
  ASSUME IInv, Executa
  PROVE  /\ listaProcessos' \in Seq(Processos) /\ SemRepeticao(listaProcessos')
         /\ ToSet(listaProcessos') =
              IF Encerra(p) THEN ToSet(listaProcessos) \ {p} ELSE ToSet(listaProcessos)
         /\ listaAptos' \in Seq(Processos) /\ SemRepeticao(listaAptos')
         /\ ToSet(listaAptos') =
              IF Encerra(p) THEN ToSet(listaAptos) \ {p} ELSE ToSet(listaAptos)
         /\ listaFinalizados' \in Seq(Processos) /\ SemRepeticao(listaFinalizados')
         /\ ToSet(listaFinalizados') =
              IF Encerra(p) THEN ToSet(listaFinalizados) \cup {p} ELSE ToSet(listaFinalizados)
<1>1. /\ p \in Processos /\ p \notin ToSet(listaFinalizados)
  BY EmExecucao
<1>2. /\ listaProcessos \in Seq(Processos) /\ SemRepeticao(listaProcessos)
      /\ listaAptos \in Seq(Processos) /\ SemRepeticao(listaAptos)
      /\ listaFinalizados \in Seq(Processos) /\ SemRepeticao(listaFinalizados)
  BY DEF IInv, TypeOK, ListasCertas
<1>3. CASE Encerra(p)
  <2>1. /\ listaProcessos' = RemoveFirst(listaProcessos, p)
        /\ listaAptos' = RemoveFirst(listaAptos, p)
        /\ listaFinalizados' = Append(listaFinalizados, p)
    BY <1>3 DEF Executa
  <2> QED
    BY <1>1, <1>2, <1>3, <2>1, RetiraPrimeiro, Acrescenta
<1>4. CASE ~Encerra(p)
  <2>1. UNCHANGED <<listaProcessos, listaAptos, listaFinalizados>>
    BY <1>4 DEF Executa
  <2> QED
    BY <1>2, <1>4, <2>1
<1> QED
  BY <1>3, <1>4

LEMMA ExecutaBlocos ==
  ASSUME IInv, Executa
  PROVE  /\ bcp' \in [Processos -> Bloco]
         /\ \A q \in Processos :
              /\ bcp'[q].isBlocked = bcp[q].isBlocked
              /\ bcp'[q].tempoIO = bcp[q].tempoIO
              /\ bcp'[q].tempoTotal =
                   IF q = p THEN bcp[q].tempoTotal - 1 ELSE bcp[q].tempoTotal
              /\ bcp'[q].jaExecutou <=> q = p \/ bcp[q].jaExecutou
              /\ bcp'[q].tempoEsperaTotal =
                   IF q # p /\ q \in ToSet(listaProcessos') /\ bcp[q].jaExecutou
                     THEN bcp[q].tempoEsperaTotal + tempoExecutado'
                     ELSE bcp[q].tempoEsperaTotal
<1> DEFINE vivos == IF Encerra(p) THEN RemoveFirst(listaProcessos, p) ELSE listaProcessos
           tempo == Min2(bcp[p].tempoTotal, quantum)
           b(q) == CASE q = p ->
                          [bcp[q] EXCEPT !.tempoTotal = @ - quantum, !.jaExecutou = TRUE]
                     [] Contains(vivos, q) /\ Espera(q) ->
                          [bcp[q] EXCEPT !.tempoEsperaTotal = @ + tempo]
                     [] OTHER -> bcp[q]
<1>1. bcp' = [q \in Processos |-> b(q)]
  BY DEF Executa
<1>0. vivos = listaProcessos' /\ tempo = tempoExecutado'
  BY DEF Executa
<1>2. tempo \in 0..1
  BY <1>0, EmExecucao
<1>3. vivos \in Seq(Processos)
  BY <1>0, ExecutaListas
<1> HIDE DEF vivos, tempo
<1>4. ASSUME NEW q \in Processos
      PROVE  /\ b(q) \in Bloco
             /\ b(q).isBlocked = bcp[q].isBlocked
             /\ b(q).tempoIO = bcp[q].tempoIO
             /\ b(q).tempoTotal = IF q = p THEN bcp[q].tempoTotal - 1 ELSE bcp[q].tempoTotal
             /\ b(q).jaExecutou <=> q = p \/ bcp[q].jaExecutou
             /\ b(q).tempoEsperaTotal =
                  IF q # p /\ q \in ToSet(vivos) /\ bcp[q].jaExecutou
                    THEN bcp[q].tempoEsperaTotal + tempo
                    ELSE bcp[q].tempoEsperaTotal
  <2> DEFINE c == bcp[q]
  <2>1. c \in Bloco
    BY DEF IInv, TypeOK
  <2>2. Contains(vivos, q) <=> q \in ToSet(vivos)
    BY <1>3, Contem
  <2>3. CASE q = p
    <3>1. b(q) = [c EXCEPT !.tempoTotal = @ - quantum, !.jaExecutou = TRUE]
      BY <2>3 DEF Espera
    <3> HIDE DEF b, c
    <3>2. /\ b(q).isBlocked = c.isBlocked /\ b(q).tempoTotal = c.tempoTotal - quantum
          /\ b(q).tempoIO = c.tempoIO
          /\ b(q).jaExecutou = TRUE /\ b(q).tempoEsperaTotal = c.tempoEsperaTotal
      BY <2>1, <3>1 DEF Bloco
    <3>3. b(q) \in Bloco
      <4>1. c.tempoTotal - quantum \in Int
        BY <2>1 DEF Bloco, quantum
      <4> DEFINE i == c.tempoTotal - quantum
      <4>2. b(q) = [c EXCEPT !.tempoTotal = i, !.jaExecutou = TRUE]
        BY <3>1
      <4> HIDE DEF i
      <4> QED
        BY <2>1, <4>1, <4>2 DEF Bloco, i
    <3> QED
      BY <2>3, <3>2, <3>3 DEF c, quantum
  <2>4. CASE q # p /\ Contains(vivos, q) /\ Espera(q)
    <3>1. b(q) = [c EXCEPT !.tempoEsperaTotal = @ + tempo]
      BY <2>4
    <3>2. q # p /\ q \in ToSet(vivos) /\ bcp[q].jaExecutou
      BY <2>2, <2>4 DEF Espera
    <3> HIDE DEF b, c
    <3> QED
      BY <1>2, <2>1, <3>1, <3>2 DEF Bloco, c
  <2>5. CASE q # p /\ ~(Contains(vivos, q) /\ Espera(q))
    <3>1. b(q) = c
      BY <2>5
    <3>2. ~(q \in ToSet(vivos) /\ bcp[q].jaExecutou)
      BY <2>2, <2>5 DEF Espera
    <3> HIDE DEF b, c
    <3> QED
      BY <2>1, <2>5, <3>1, <3>2 DEF Bloco, c
  <2> QED
    BY <2>3, <2>4, <2>5
<1> HIDE DEF b
<1>5. bcp' \in [Processos -> Bloco] /\ \A q \in Processos : bcp'[q] = b(q)
  BY <1>1, <1>4
<1> QED
  BY <1>0, <1>4, <1>5

LEMMA ExecutaPasso ==
  ASSUME IInv, Executa
  PROVE  IInv'
<1>1. /\ p \in Processos /\ p \in ToSet(listaAptos) /\ p \in ToSet(listaProcessos)
      /\ p \notin ToSet(listaFinalizados) /\ p \notin ToSet(listaBloqueado)
      /\ bcp[p].tempoTotal \in 0..tabela[p].tempoTotal
      /\ tabela[p].tempoTotal \in Nat
      /\ bcp[p].tempoTotal = 0 <=> tabela[p].tempoTotal = 0
      /\ tempoExecutado' = (IF tabela[p].tempoTotal > 0 THEN 1 ELSE 0)
      /\ Encerra(p) <=> bcp[p].tempoTotal <= 1
  BY EmExecucao
<1>2. /\ listaProcessos' \in Seq(Processos) /\ SemRepeticao(listaProcessos')
      /\ ToSet(listaProcessos') =
           IF Encerra(p) THEN ToSet(listaProcessos) \ {p} ELSE ToSet(listaProcessos)
      /\ listaAptos' \in Seq(Processos) /\ SemRepeticao(listaAptos')
      /\ ToSet(listaAptos') =
           IF Encerra(p) THEN ToSet(listaAptos) \ {p} ELSE ToSet(listaAptos)
      /\ listaFinalizados' \in Seq(Processos) /\ SemRepeticao(listaFinalizados')
      /\ ToSet(listaFinalizados') =
           IF Encerra(p) THEN ToSet(listaFinalizados) \cup {p} ELSE ToSet(listaFinalizados)
  BY ExecutaListas
<1>3. /\ bcp' \in [Processos -> Bloco]
      /\ \A q \in Processos :
           /\ bcp'[q].isBlocked = bcp[q].isBlocked
           /\ bcp'[q].tempoIO = bcp[q].tempoIO
           /\ bcp'[q].tempoTotal = IF q = p THEN bcp[q].tempoTotal - 1 ELSE bcp[q].tempoTotal
           /\ bcp'[q].jaExecutou <=> q = p \/ bcp[q].jaExecutou
           /\ bcp'[q].tempoEsperaTotal =
                IF q # p /\ q \in ToSet(listaProcessos') /\ bcp[q].jaExecutou
                  THEN bcp[q].tempoEsperaTotal + tempoExecutado'
                  ELSE bcp[q].tempoEsperaTotal
  BY ExecutaBlocos
<1>4. /\ UNCHANGED <<tabela, alg, listaBloqueado, maximos, p>>
      /\ pc' = "decrementar" /\ ciclo' = ciclo + tempoExecutado'
      /\ ordemExecutados' = Append(ordemExecutados, p)
  BY DEF Executa
<1>t. tempoExecutado' \in 0..1 /\ ciclo' \in Nat /\ ciclo' >= ciclo
  <2> DEFINE t == tempoExecutado'
  <2>1. t \in 0..1
    BY <1>1
  <2>2. ciclo' = ciclo + t /\ ciclo \in Nat
    BY <1>4 DEF IInv, TypeOK
  <2> HIDE DEF t
  <2>3. ciclo + t \in Nat /\ ciclo + t >= ciclo
    BY <2>1, <2>2
  <2> QED
    BY <2>1, <2>2, <2>3 DEF t
<1> USE DEF IInv
<1>5. /\ ordemExecutados' \in Seq(Processos)
      /\ ToSet(ordemExecutados') = ToSet(ordemExecutados) \cup {p}
  BY <1>1, <1>4, Acrescenta DEF TypeOK
<1>6. ToSet(listaProcessos') \subseteq Processos /\ Processos' = Processos
  BY <1>2, <1>4, DeSet DEF Processos
<1>7. TypeOK'
  <2>1. \A q \in Processos : bcp'[q].tempoTotal \in -1..tabela[q].tempoTotal
    <3> SUFFICES ASSUME NEW q \in Processos
                 PROVE  bcp'[q].tempoTotal \in -1..tabela[q].tempoTotal
      OBVIOUS
    <3>1. bcp[q].tempoTotal \in -1..tabela[q].tempoTotal /\ tabela[q].tempoTotal \in Nat
      BY Arquivo DEF TypeOK
    <3> QED
      BY <1>1, <1>3, <3>1
  <2> QED
    BY <1>1, <1>2, <1>3, <1>4, <1>5, <1>6, <1>t, <2>1 DEF TypeOK, quantum, maximos
<1>8. ListasCertas'
  BY <1>1, <1>2, <1>3, <1>4, <1>6 DEF ListasCertas
<1>9. Chegaram'
  <2>2. \A q \in ToSet(listaAptos) \cup ToSet(listaBloqueado) :
          q \in Processos /\ tabela[q].tempoChegada \in Nat
    BY DeSet, Arquivo DEF TypeOK
  <2> QED
    BY <1>2, <1>4, <1>t, <2>2 DEF Chegaram, TypeOK
<1>10. EmTurno'
  BY <1>1, <1>2, <1>3, <1>4 DEF EmTurno
<1>11. DeveCerto'
  <2> SUFFICES ASSUME NEW q \in Processos
               PROVE  /\ Vezes(q)' = tabela[q].tempoTotal - bcp'[q].tempoTotal
                      /\ bcp'[q].jaExecutou <=> q \in ToSet(ordemExecutados')
                      /\ q \in ToSet(listaProcessos') =>
                           /\ bcp'[q].tempoTotal >= 0
                           /\ bcp'[q].tempoTotal = 0 => tabela[q].tempoTotal = 0
                      /\ q \in ToSet(listaFinalizados') =>
                           bcp'[q].tempoTotal = IF tabela[q].tempoTotal = 0 THEN -1 ELSE 0
    BY <1>4, <1>6 DEF DeveCerto
  <2>1. /\ Vezes(q) \in Nat
        /\ Vezes(q)' = IF q = p THEN Vezes(q) + 1 ELSE Vezes(q)
    BY <1>1, <1>4, VezesApos DEF TypeOK
  <2>2. /\ bcp[q].tempoTotal \in -1..tabela[q].tempoTotal /\ tabela[q].tempoTotal \in Nat
        /\ Vezes(q) = tabela[q].tempoTotal - bcp[q].tempoTotal
        /\ bcp[q].jaExecutou <=> q \in ToSet(ordemExecutados)
        /\ q \in ToSet(listaProcessos) =>
             /\ bcp[q].tempoTotal >= 0
             /\ bcp[q].tempoTotal = 0 => tabela[q].tempoTotal = 0
        /\ q \in ToSet(listaFinalizados) =>
             bcp[q].tempoTotal = IF tabela[q].tempoTotal = 0 THEN -1 ELSE 0
    BY Arquivo DEF DeveCerto, TypeOK
  <2>3. Vezes(q)' = tabela[q].tempoTotal - bcp'[q].tempoTotal
    BY <1>3, <2>1, <2>2
  <2>4. bcp'[q].jaExecutou <=> q \in ToSet(ordemExecutados')
    BY <1>3, <1>5, <2>2
  <2>5. ASSUME q \in ToSet(listaProcessos')
        PROVE  /\ bcp'[q].tempoTotal >= 0
               /\ bcp'[q].tempoTotal = 0 => tabela[q].tempoTotal = 0
    BY <1>1, <1>2, <1>3, <2>2, <2>5
  <2>6. ASSUME q \in ToSet(listaFinalizados')
        PROVE  bcp'[q].tempoTotal = IF tabela[q].tempoTotal = 0 THEN -1 ELSE 0
    BY <1>1, <1>2, <1>3, <2>2, <2>6
  <2> QED
    BY <2>3, <2>4, <2>5, <2>6
<1>12. EsperaCerta'
  <2> SUFFICES ASSUME NEW q \in ToSet(listaProcessos')
               PROVE  bcp'[q].tempoEsperaTotal = Esperou(q)'
    BY DEF EsperaCerta
  <2>1. /\ Esperou(q) \in Nat
        /\ Esperou(q)' = IF q # p /\ tabela[p].tempoTotal > 0 /\ q \in ToSet(ordemExecutados)
                           THEN Esperou(q) + 1 ELSE Esperou(q)
    BY <1>1, <1>4, EsperouApos DEF TypeOK
  <2>2. /\ q \in Processos /\ bcp[q].tempoEsperaTotal = Esperou(q)
        /\ bcp[q].jaExecutou <=> q \in ToSet(ordemExecutados)
    BY <1>2, <1>6 DEF EsperaCerta, DeveCerto
  <2> QED
    BY <1>1, <1>3, <2>1, <2>2
<1>13. EmFila'
  <2>1. listaBloqueado' = listaBloqueado
    BY <1>4
  <2>2. \A i \in DOMAIN listaBloqueado : listaBloqueado[i] \in Processos
    BY DEF TypeOK
  <2> QED
    BY <1>3, <1>6, <2>1, <2>2 DEF EmFila
<1> QED
  BY <1>7, <1>8, <1>9, <1>10, <1>11, <1>12, <1>13

LEMMA OciosoPasso ==
  ASSUME IInv, Ocioso
  PROVE  IInv'
<1>1. /\ UNCHANGED <<tabela, alg, bcp, listaProcessos, listaAptos, listaBloqueado,
                     listaFinalizados, tamanhoMaxFilaAptos, tamanhoMaxFilaBlock, p,
                     ordemExecutados>>
      /\ pc = "executar" /\ p = NULL /\ pc' = "decrementar"
      /\ tempoExecutado' = 1 /\ ciclo' = ciclo + 1
  BY DEF Ocioso, listas, maximos
<1>2. ciclo \in Nat /\ ciclo' \in Nat /\ ciclo' >= ciclo
  BY <1>1 DEF IInv, TypeOK
<1> USE DEF IInv
<1>3. TypeOK'
  BY <1>1, <1>2 DEF TypeOK, Processos, quantum
<1>4. ListasCertas'
  BY <1>1 DEF ListasCertas, Processos
<1>5. Chegaram'
  <2>1. \A q \in ToSet(listaAptos) \cup ToSet(listaBloqueado) :
          q \in Processos /\ tabela[q].tempoChegada \in Nat
    BY DeSet, Arquivo DEF TypeOK
  <2> QED
    BY <1>1, <1>2, <2>1 DEF Chegaram
<1>6. EmTurno'
  BY <1>1 DEF EmTurno
<1>7. DeveCerto'
  BY <1>1 DEF DeveCerto, Processos, Vezes
<1>8. EsperaCerta'
  BY <1>1 DEF EsperaCerta, Esperou
<1>9. EmFila'
  BY <1>1 DEF EmFila, Processos
<1> QED
  BY <1>3, <1>4, <1>5, <1>6, <1>7, <1>8, <1>9

-----------------------------------------------------------------------------
(* The blocked *)

\* What Decrementa does to the blocks and to the two lists, by the process
\* whose time is up: NULL if there is none.
LEMMA DecrementaEfeito ==
  ASSUME IInv, Decrementa
  PROVE  \E v \in Processos \cup {NULL} :
           /\ bcp' \in [Processos -> Bloco]
           /\ \A q \in Processos :
                /\ bcp'[q].tempoTotal = bcp[q].tempoTotal
                /\ bcp'[q].jaExecutou = bcp[q].jaExecutou
                /\ bcp'[q].tempoEsperaTotal = bcp[q].tempoEsperaTotal
                /\ bcp'[q].isBlocked <=> bcp[q].isBlocked /\ q # v
           /\ v = NULL => UNCHANGED <<listaAptos, listaBloqueado>>
           /\ v # NULL =>
                /\ v \in ToSet(listaBloqueado)
                /\ listaAptos' = Append(listaAptos, v)
                /\ listaBloqueado' \in Seq(Processos) /\ SemRepeticao(listaBloqueado')
                /\ ToSet(listaBloqueado') = ToSet(listaBloqueado) \ {v}
<1> DEFINE m == Len(listaBloqueado)
           k == IF Vencidos = {} THEN m ELSE CHOOSE j \in Vencidos : \A l \in Vencidos : j <= l
           vencido == IF Vencidos = {} THEN NULL ELSE listaBloqueado[k]
           visitados == {listaBloqueado[j] : j \in 1..k}
           b(q) == CASE q = vencido -> Liberado(bcp[q])
                     [] q \in visitados \ {vencido} ->
                          [bcp[q] EXCEPT !.tempoIO = @ - tempoExecutado]
                     [] OTHER -> bcp[q]
<1>1. bcp' = [q \in Processos |-> b(q)]
  BY DEF Decrementa, Alcancados
<1>2. IF Vencidos = {}
        THEN UNCHANGED <<listaAptos, listaBloqueado>>
        ELSE /\ listaAptos' = Append(listaAptos, vencido)
             /\ listaBloqueado' = RemoveAt(listaBloqueado, k)
  BY DEF Decrementa
<1>3. /\ listaBloqueado \in Seq(Processos) /\ SemRepeticao(listaBloqueado)
      /\ m \in Nat /\ DOMAIN listaBloqueado = 1..m
      /\ tempoExecutado \in 0..1 /\ bcp \in [Processos -> Bloco]
      /\ NULL \notin Processos
  BY Arquivo DEF IInv, TypeOK, ListasCertas, quantum
<1>4. /\ Vencidos \in SUBSET (1..m)
      /\ Vencidos # {} => k \in Vencidos /\ \A l \in Vencidos : k <= l
  <2>1. Vencidos \in SUBSET (1..m)
    BY <1>3 DEF Vencidos
  <2>2. ASSUME Vencidos # {}
        PROVE  \E j \in Vencidos : \A l \in Vencidos : j <= l
    <3>1. Vencidos \in SUBSET Nat
      BY <2>1
    <3> QED
      BY <2>2, <3>1, Menor
  <2> QED
    BY <2>1, <2>2
<1>5. k \in 0..m /\ \A j \in 1..k : j \in 1..m /\ (j # k \/ Vencidos = {} => j \notin Vencidos)
  <2>1. CASE Vencidos = {}
    BY <1>3, <2>1
  <2>2. CASE Vencidos # {}
    <3>1. k \in 1..m /\ \A l \in Vencidos : k <= l
      BY <1>4, <2>2
    <3> HIDE DEF k
    <3> QED
      BY <1>3, <2>2, <3>1
  <2> QED
    BY <2>1, <2>2
<1>6. /\ Vencidos = {} => vencido = NULL
      /\ Vencidos # {} => vencido = listaBloqueado[k] /\ k \in 1..m
  BY <1>4
<1>7. vencido \in Processos \cup {NULL} /\ (vencido = NULL <=> Vencidos = {})
  BY <1>3, <1>6
<1> HIDE DEF k, m, vencido
<1>8. \A q \in visitados \ {vencido} : bcp[q].tempoIO - tempoExecutado > 0 /\ q \in Processos
  <2> SUFFICES ASSUME NEW j \in 1..k, listaBloqueado[j] # vencido
               PROVE  /\ bcp[listaBloqueado[j]].tempoIO - tempoExecutado > 0
                      /\ listaBloqueado[j] \in Processos
    OBVIOUS
  <2>1. j \in 1..m /\ j \notin Vencidos
    BY <1>5, <1>6
  <2>2. listaBloqueado[j] \in Processos /\ bcp[listaBloqueado[j]] \in Bloco
    BY <1>3, <2>1
  <2>3. bcp[listaBloqueado[j]].tempoIO - tempoExecutado \in Int
    BY <1>3, <2>2 DEF Bloco, cicloIO
  <2>4. ~(bcp[listaBloqueado[j]].tempoIO - tempoExecutado <= 0)
    BY <1>3, <2>1 DEF Vencidos
  <2> QED
    BY <2>2, <2>3, <2>4
<1>9. ASSUME NEW q \in Processos
      PROVE  /\ b(q) \in Bloco
             /\ b(q).tempoTotal = bcp[q].tempoTotal /\ b(q).jaExecutou = bcp[q].jaExecutou
             /\ b(q).tempoEsperaTotal = bcp[q].tempoEsperaTotal
             /\ b(q).isBlocked <=> bcp[q].isBlocked /\ q # vencido
  <2> DEFINE c == bcp[q]
  <2>1. c \in Bloco
    BY <1>3
  <2>2. CASE q = vencido
    <3>1. b(q) = [c EXCEPT !.tempoIO = cicloIO, !.isBlocked = FALSE]
      BY <2>2 DEF Liberado
    <3> HIDE DEF b, c
    <3>2. /\ b(q).tempoTotal = c.tempoTotal /\ b(q).jaExecutou = c.jaExecutou
          /\ b(q).tempoEsperaTotal = c.tempoEsperaTotal /\ b(q).isBlocked = FALSE
      BY <2>1, <3>1 DEF Bloco
    <3>3. b(q) \in Bloco
      <4>1. cicloIO \in 1..cicloIO
        BY DEF cicloIO
      <4> QED
        BY <2>1, <3>1, <4>1 DEF Bloco
    <3> QED
      BY <2>2, <3>2, <3>3 DEF c
  <2>3. CASE q \in visitados \ {vencido}
    <3>1. b(q) = [c EXCEPT !.tempoIO = c.tempoIO - tempoExecutado]
      BY <2>3
    <3> DEFINE i == c.tempoIO - tempoExecutado
    <3>2. i \in 1..cicloIO
      <4>1. c.tempoIO \in 1..2 /\ c.tempoIO - tempoExecutado > 0
        BY <1>8, <2>1, <2>3 DEF Bloco, cicloIO
      <4> QED
        BY <1>3, <4>1 DEF cicloIO
    <3>3. b(q) = [c EXCEPT !.tempoIO = i]
      BY <3>1
    <3> HIDE DEF b, c, i
    <3>4. /\ b(q).tempoTotal = c.tempoTotal /\ b(q).jaExecutou = c.jaExecutou
          /\ b(q).tempoEsperaTotal = c.tempoEsperaTotal /\ b(q).isBlocked = c.isBlocked
      BY <2>1, <3>3 DEF Bloco
    <3>5. b(q) \in Bloco
      BY <2>1, <3>2, <3>3 DEF Bloco
    <3> QED
      BY <2>3, <3>4, <3>5 DEF c
  <2>4. CASE q # vencido /\ q \notin visitados
    <3>1. b(q) = c
      BY <2>4
    <3> HIDE DEF b
    <3> QED
      BY <2>1, <2>4, <3>1
  <2> QED
    BY <2>2, <2>3, <2>4
<1> HIDE DEF b, visitados
<1>10. bcp' \in [Processos -> Bloco] /\ \A q \in Processos : bcp'[q] = b(q)
  BY <1>1, <1>9
<1>11. vencido = NULL => UNCHANGED <<listaAptos, listaBloqueado>>
  BY <1>2, <1>7
<1>12. ASSUME vencido # NULL
       PROVE  /\ vencido \in ToSet(listaBloqueado)
              /\ listaAptos' = Append(listaAptos, vencido)
              /\ listaBloqueado' \in Seq(Processos) /\ SemRepeticao(listaBloqueado')
              /\ ToSet(listaBloqueado') = ToSet(listaBloqueado) \ {vencido}
  <2>1. k \in 1..Len(listaBloqueado) /\ vencido = listaBloqueado[k]
    BY <1>6, <1>7, <1>12 DEF m
  <2>2. vencido \in ToSet(listaBloqueado)
    BY <1>3, <2>1 DEF ToSet, m
  <2>3. listaAptos' = Append(listaAptos, vencido) /\ listaBloqueado' = RemoveAt(listaBloqueado, k)
    BY <1>2, <1>7, <1>12
  <2> QED
    BY <1>3, <2>1, <2>2, <2>3, Retira
<1> QED
  BY <1>7, <1>9, <1>10, <1>11, <1>12

\* The blocked in their order, by the places of the list.
LEMMA FilaCerta ==
  ASSUME IInv
  PROVE  /\ listaBloqueado \in Seq(Processos) /\ SemRepeticao(listaBloqueado)
         /\ DOMAIN listaBloqueado = 1..Len(listaBloqueado) /\ Len(listaBloqueado) \in Nat
         /\ \A i \in 1..Len(listaBloqueado) :
              listaBloqueado[i] \in Processos /\ listaBloqueado[i] \in ToSet(listaBloqueado)
         /\ \A q \in Processos : /\ bcp[q].tempoIO \in 1..2
                                 /\ ~bcp[q].isBlocked => bcp[q].tempoIO = 2
                                 /\ bcp[q].isBlocked <=> q \in ToSet(listaBloqueado)
         /\ \A i, j \in 1..Len(listaBloqueado) :
              i < j => bcp[listaBloqueado[i]].tempoIO <= bcp[listaBloqueado[j]].tempoIO
         /\ tempoExecutado \in 0..1
<1>1. /\ listaBloqueado \in Seq(Processos) /\ SemRepeticao(listaBloqueado)
      /\ DOMAIN listaBloqueado = 1..Len(listaBloqueado) /\ Len(listaBloqueado) \in Nat
  BY DEF IInv, TypeOK, ListasCertas
<1>2. \A i \in 1..Len(listaBloqueado) :
        listaBloqueado[i] \in Processos /\ listaBloqueado[i] \in ToSet(listaBloqueado)
  BY <1>1 DEF ToSet
<1>3. \A q \in Processos : bcp[q].tempoIO \in 1..2
  BY DEF IInv, TypeOK, Bloco, cicloIO
<1>4. \A q \in Processos : bcp[q].isBlocked <=> q \in ToSet(listaBloqueado)
  BY DEF IInv, ListasCertas
<1>5. \A q \in Processos : ~bcp[q].isBlocked => bcp[q].tempoIO = 2
  BY DEF IInv, EmFila, cicloIO
<1>6. \A i, j \in 1..Len(listaBloqueado) :
        i < j => bcp[listaBloqueado[i]].tempoIO <= bcp[listaBloqueado[j]].tempoIO
  BY <1>1 DEF IInv, EmFila
<1>7. tempoExecutado \in 0..1
  BY DEF IInv, TypeOK, quantum
<1> QED
  BY <1>1, <1>2, <1>3, <1>4, <1>5, <1>6, <1>7

\* What Decrementa does to the times of IO: it takes them all down, or lets the
\* first of the list go and leaves the others as they were.
LEMMA DecrementaFila ==
  ASSUME IInv, Decrementa
  PROVE  \/ /\ UNCHANGED listaBloqueado
            /\ \A q \in Processos :
                 bcp'[q].tempoIO = IF q \in ToSet(listaBloqueado)
                                     THEN bcp[q].tempoIO - tempoExecutado
                                     ELSE bcp[q].tempoIO
         \/ /\ listaBloqueado # <<>>
            /\ bcp[listaBloqueado[1]].tempoIO = 1 /\ tempoExecutado = 1
            /\ listaBloqueado' = RemoveAt(listaBloqueado, 1)
            /\ \A q \in Processos :
                 bcp'[q].tempoIO = IF q = listaBloqueado[1] THEN cicloIO ELSE bcp[q].tempoIO
<1> DEFINE m == Len(listaBloqueado)
           k == IF Vencidos = {} THEN m ELSE CHOOSE j \in Vencidos : \A l \in Vencidos : j <= l
           vencido == IF Vencidos = {} THEN NULL ELSE listaBloqueado[k]
           visitados == {listaBloqueado[j] : j \in 1..k}
           b(q) == CASE q = vencido -> Liberado(bcp[q])
                     [] q \in visitados \ {vencido} ->
                          [bcp[q] EXCEPT !.tempoIO = @ - tempoExecutado]
                     [] OTHER -> bcp[q]
<1>1. bcp' = [q \in Processos |-> b(q)]
  BY DEF Decrementa, Alcancados
<1>2. IF Vencidos = {}
        THEN UNCHANGED listaBloqueado
        ELSE listaBloqueado' = RemoveAt(listaBloqueado, k)
  BY DEF Decrementa
<1>3. /\ m \in Nat /\ DOMAIN listaBloqueado = 1..m
      /\ tempoExecutado \in 0..1 /\ NULL \notin Processos
      /\ \A q \in Processos : bcp[q] \in Bloco /\ bcp[q].tempoIO \in 1..2
      /\ \A j \in 1..m : listaBloqueado[j] \in Processos
  BY Arquivo DEF IInv, TypeOK, quantum, Bloco, cicloIO
<1>4. ToSet(listaBloqueado) = {listaBloqueado[j] : j \in 1..m}
  BY <1>3 DEF ToSet
<1>5. CASE Vencidos = {}
  <2>1. k = m /\ vencido = NULL
    BY <1>5
  <2>2. visitados = ToSet(listaBloqueado)
    BY <1>4, <2>1
  <2> HIDE DEF vencido, visitados, k, m
  <2>3. ASSUME NEW q \in Processos
        PROVE  b(q).tempoIO = IF q \in ToSet(listaBloqueado)
                                THEN bcp[q].tempoIO - tempoExecutado
                                ELSE bcp[q].tempoIO
    <3>1. q # vencido
      BY <1>3, <2>1
    <3> QED
      BY <1>3, <2>2, <3>1 DEF Bloco
  <2> QED
    BY <1>1, <1>2, <1>5, <2>3
<1>6. CASE Vencidos # {}
  <2>1. PICK l \in Vencidos : TRUE
    BY <1>6
  <2>2. l \in 1..m /\ bcp[listaBloqueado[l]].tempoIO - tempoExecutado <= 0
    BY <1>3, <2>1 DEF Vencidos
  <2>3. bcp[listaBloqueado[l]].tempoIO = 1 /\ tempoExecutado = 1
    BY <1>3, <2>2
  <2>4. 1 \in 1..m /\ bcp[listaBloqueado[1]].tempoIO <= bcp[listaBloqueado[l]].tempoIO
    <3>1. 1 \in 1..m /\ (l = 1 \/ 1 < l)
      BY <1>3, <2>2
    <3>2. CASE l = 1
      BY <1>3, <2>2, <3>2
    <3>3. CASE 1 < l
      BY <1>3, <2>2, <3>1, <3>3 DEF IInv, EmFila
    <3> QED
      BY <3>1, <3>2, <3>3
  <2>5. bcp[listaBloqueado[1]].tempoIO = 1 /\ 1 \in Vencidos
    BY <1>3, <2>3, <2>4 DEF Vencidos
  <2>6. k = 1
    <3>1. \A j \in Vencidos : j \in Nat /\ 1 <= j
      BY <1>3 DEF Vencidos
    <3>2. \E j \in Vencidos : \A i \in Vencidos : j <= i
      BY <2>5, <3>1
    <3>3. k \in Vencidos /\ \A i \in Vencidos : k <= i
      BY <1>6, <3>2
    <3> HIDE DEF k
    <3> QED
      BY <2>5, <3>1, <3>3
  <2>7. vencido = listaBloqueado[1] /\ visitados = {listaBloqueado[1]}
    <3> HIDE DEF k
    <3> QED
      BY <1>6, <2>6
  <2> HIDE DEF vencido, visitados, k, m
  <2>8. ASSUME NEW q \in Processos
        PROVE  b(q).tempoIO = IF q = listaBloqueado[1] THEN cicloIO ELSE bcp[q].tempoIO
    BY <1>3, <2>7 DEF Liberado, Bloco
  <2>9. listaBloqueado # <<>>
    BY <1>3, <2>4
  <2> QED
    BY <1>1, <1>2, <1>6, <2>3, <2>5, <2>6, <2>8, <2>9
<1> QED
  BY <1>5, <1>6

LEMMA DecrementaPasso ==
  ASSUME IInv, Decrementa
  PROVE  IInv'
<1>1. PICK v \in Processos \cup {NULL} :
        /\ bcp' \in [Processos -> Bloco]
        /\ \A q \in Processos :
             /\ bcp'[q].tempoTotal = bcp[q].tempoTotal
             /\ bcp'[q].jaExecutou = bcp[q].jaExecutou
             /\ bcp'[q].tempoEsperaTotal = bcp[q].tempoEsperaTotal
             /\ bcp'[q].isBlocked <=> bcp[q].isBlocked /\ q # v
        /\ v = NULL => UNCHANGED <<listaAptos, listaBloqueado>>
        /\ v # NULL =>
             /\ v \in ToSet(listaBloqueado)
             /\ listaAptos' = Append(listaAptos, v)
             /\ listaBloqueado' \in Seq(Processos) /\ SemRepeticao(listaBloqueado')
             /\ ToSet(listaBloqueado') = ToSet(listaBloqueado) \ {v}
  BY DecrementaEfeito
<1>2. /\ UNCHANGED <<tabela, alg, ciclo, listaProcessos, listaFinalizados, tamanhoMaxFilaAptos,
                     tamanhoMaxFilaBlock, p, tempoExecutado, ordemExecutados>>
      /\ pc = "decrementar" /\ pc' \in {"excecao", "bloquear"}
  BY DEF Decrementa, maximos
<1> USE DEF IInv
<1>3. /\ listaAptos \in Seq(Processos) /\ SemRepeticao(listaAptos)
      /\ listaBloqueado \in Seq(Processos) /\ SemRepeticao(listaBloqueado)
      /\ ToSet(listaAptos) \cap ToSet(listaBloqueado) = {}
      /\ NULL \notin Processos /\ Processos' = Processos
  BY <1>2, Arquivo DEF TypeOK, ListasCertas, Processos
<1>4. /\ listaAptos' \in Seq(Processos) /\ SemRepeticao(listaAptos')
      /\ ToSet(listaAptos') = ToSet(listaAptos) \cup ({v} \cap Processos)
      /\ listaBloqueado' \in Seq(Processos) /\ SemRepeticao(listaBloqueado')
      /\ ToSet(listaBloqueado') = ToSet(listaBloqueado) \ {v}
      /\ {v} \cap Processos \subseteq ToSet(listaBloqueado)
  <2>1. CASE v = NULL
    <3>1. NULL \notin ToSet(listaBloqueado)
      BY <1>3, DeSet
    <3> QED
      BY <1>1, <1>3, <2>1, <3>1
  <2>2. CASE v # NULL
    <3>1. v \in Processos /\ v \notin ToSet(listaAptos)
      BY <1>1, <1>3, <2>2
    <3>2. /\ listaAptos' \in Seq(Processos) /\ SemRepeticao(listaAptos')
          /\ ToSet(listaAptos') = ToSet(listaAptos) \cup {v}
      <4>1. listaAptos' = Append(listaAptos, v)
        BY <1>1, <2>2
      <4>2. /\ Append(listaAptos, v) \in Seq(Processos) /\ SemRepeticao(Append(listaAptos, v))
            /\ ToSet(Append(listaAptos, v)) = ToSet(listaAptos) \cup {v}
        BY <1>3, <3>1, Acrescenta
      <4> QED
        BY <4>1, <4>2
    <3> QED
      BY <1>1, <2>2, <3>1, <3>2
  <2> QED
    BY <2>1, <2>2
<1>5. TypeOK'
  BY <1>1, <1>2, <1>3, <1>4 DEF TypeOK
<1>6. ListasCertas'
  <2>1. pc' = "bloquear" /\ (Devidos # {})' => p' \in ToSet(listaAptos')
    <3> SUFFICES ASSUME (Devidos # {})' PROVE p \in ToSet(listaAptos')
      BY <1>2
    <3>1. (p # NULL /\ bcp'[p].tempoTotal > 0) \/ (p # NULL /\ ~(bcp'[p].tempoTotal <= 0))
      BY <1>2 DEF Devidos
    <3>2. p \in Processos /\ bcp[p].tempoTotal \in Int /\ bcp'[p].tempoTotal = bcp[p].tempoTotal
      BY <1>1, <3>1, Arquivo DEF TypeOK
    <3>3. p \in ToSet(listaAptos)
      BY <1>2, <3>1, <3>2 DEF EmTurno
    <3> QED
      BY <1>4, <3>3
  <2>2. ToSet(listaAptos') \cup ToSet(listaBloqueado') = ToSet(listaAptos) \cup ToSet(listaBloqueado)
    <3>1. ToSet(listaBloqueado) \subseteq Processos
      BY <1>3, DeSet
    <3> QED
      BY <1>3, <1>4, <3>1
  <2>3. ToSet(listaAptos') \cap ToSet(listaBloqueado') = {}
    BY <1>3, <1>4
  <2>4. \A q \in Processos : bcp'[q].isBlocked <=> q \in ToSet(listaBloqueado')
    BY <1>1, <1>4 DEF ListasCertas
  <2> QED
    BY <1>2, <1>3, <1>4, <2>1, <2>2, <2>3, <2>4 DEF ListasCertas
<1>7. Chegaram'
  BY <1>2, <1>4 DEF Chegaram
<1>8. EmTurno'
  <2>1. p # NULL => bcp'[p].tempoTotal = bcp[p].tempoTotal
    BY <1>1 DEF TypeOK
  <2> QED
    BY <1>2, <1>4, <2>1 DEF EmTurno
<1>9. DeveCerto'
  BY <1>1, <1>2, <1>3 DEF DeveCerto, Vezes
<1>10. EsperaCerta'
  <2>1. ToSet(listaProcessos) \subseteq Processos
    BY DeSet DEF TypeOK
  <2> QED
    <3>1. ASSUME NEW q PROVE Esperou(q)' = Esperou(q)
      BY <1>1, <1>2 DEF Esperou
    <3> QED
      BY <1>1, <1>2, <2>1, <3>1 DEF EsperaCerta
<1>11. EmFila'
  <2> DEFINE t(q) == bcp[q].tempoIO
             u(q) == bcp'[q].tempoIO
             s == listaBloqueado
  <2>1. /\ \A q \in Processos : t(q) \in 1..2 /\ (~bcp[q].isBlocked => t(q) = 2)
        /\ \A i \in 1..Len(s) : s[i] \in Processos /\ s[i] \in ToSet(s)
        /\ \A i, j \in 1..Len(s) : i < j => t(s[i]) <= t(s[j])
        /\ \A q \in Processos : bcp[q].isBlocked <=> q \in ToSet(s)
        /\ DOMAIN s = 1..Len(s) /\ Len(s) \in Nat /\ SemRepeticao(s)
        /\ tempoExecutado \in 0..1
    BY FilaCerta
  <2>2. /\ Processos' = Processos
        /\ \A q \in Processos : bcp'[q].isBlocked <=> q \in ToSet(s')
    BY <1>3, <1>6 DEF ListasCertas
  <2>c. cicloIO = 2
    BY DEF cicloIO
  <2> SUFFICES /\ \A q \in Processos : ~bcp'[q].isBlocked => u(q) = cicloIO
               /\ \A i, j \in DOMAIN s' : i < j => u(s'[i]) <= u(s'[j])
    BY <2>2 DEF EmFila
  <2>3. CASE /\ s' = s
             /\ \A q \in Processos :
                  u(q) = IF q \in ToSet(s) THEN t(q) - tempoExecutado ELSE t(q)
    <3> HIDE DEF s, t, u
    <3>1. \A q \in Processos : ~bcp'[q].isBlocked => u(q) = cicloIO
      BY <2>1, <2>2, <2>3, <2>c
    <3>2. \A i \in 1..Len(s) : u(s[i]) = t(s[i]) - tempoExecutado
      BY <2>1, <2>3
    <3> QED
      BY <2>1, <2>3, <3>1, <3>2
  <2>4. CASE /\ s # <<>>
             /\ s' = RemoveAt(s, 1)
             /\ \A q \in Processos : u(q) = IF q = s[1] THEN cicloIO ELSE t(q)
    <3>1. 1 \in 1..Len(s)
      BY <1>3, <2>4, EmptySeq
    <3>2. /\ Len(s') = Len(s) - 1 /\ s' \in Seq(Processos)
          /\ \A i \in 1..(Len(s) - 1) : s'[i] = s[i + 1]
          /\ ToSet(s') = ToSet(s) \ {s[1]}
      <4> DEFINE r == RemoveAt(s, 1)
      <4>1. /\ r \in Seq(Processos) /\ Len(r) = Len(s) - 1
            /\ \A i \in 1..(Len(s) - 1) : r[i] = IF i < 1 THEN s[i] ELSE s[i + 1]
        BY <1>3, <3>1, RetiraLugar
      <4>2. ToSet(r) = ToSet(s) \ {s[1]}
        BY <1>3, <3>1, Retira
      <4>3. s' = r
        BY <2>4
      <4>4. \A i \in 1..(Len(s) - 1) : ~(i < 1)
        BY <2>1
      <4> HIDE DEF r, s
      <4> QED
        BY <4>1, <4>2, <4>3, <4>4
    <3>3. \A q \in Processos : ~bcp'[q].isBlocked => u(q) = cicloIO
      BY <2>1, <2>2, <2>4, <2>c, <3>2
    <3>4. ASSUME NEW i \in 1..(Len(s) - 1)
          PROVE  u(s'[i]) = t(s[i + 1]) /\ i + 1 \in 1..Len(s)
      <4>1. i + 1 \in 1..Len(s) /\ i + 1 # 1 /\ s'[i] = s[i + 1]
        BY <2>1, <3>2
      <4>2. s[i + 1] # s[1] /\ s[i + 1] \in Processos
        BY <2>1, <3>1, <4>1 DEF SemRepeticao
      <4> QED
        BY <2>4, <4>1, <4>2
    <3>5. ASSUME NEW i \in 1..(Len(s) - 1), NEW j \in 1..(Len(s) - 1), i < j
          PROVE  u(s'[i]) <= u(s'[j])
      BY <2>1, <3>4, <3>5
    <3>6. DOMAIN s' = 1..(Len(s) - 1)
      BY <2>1, <3>2
    <3> QED
      BY <3>3, <3>5, <3>6
  <2> QED
    BY <2>3, <2>4, DecrementaFila
<1> QED
  BY <1>5, <1>6, <1>7, <1>8, <1>9, <1>10, <1>11

\* needBlock puts p behind the others, with its time of IO whole.
LEMMA BloqueiaFila ==
  ASSUME IInv, Bloqueia
  PROVE  /\ \A q \in Processos : bcp'[q].tempoIO = bcp[q].tempoIO
         /\ \/ UNCHANGED listaBloqueado
            \/ /\ listaBloqueado' = Append(listaBloqueado, p)
               /\ p \in Processos /\ p \notin ToSet(listaBloqueado)
               /\ bcp[p].tempoIO = cicloIO
         /\ listaAptos' \in {listaAptos, RemoveFirst(listaAptos, p)}
<1>1. CASE Devidos = {}
  BY <1>1 DEF Bloqueia
<1>2. CASE Devidos # {}
  <2> DEFINE k == CHOOSE j \in Devidos : \A l \in Devidos : j <= l
             c == bcp[p]
             l == RemoveAt(c.listaIO, k)
             d == [c EXCEPT !.listaIO = l, !.isBlocked = TRUE]
  <2>1. /\ bcp' = [bcp EXCEPT ![p].listaIO = RemoveAt(@, k), ![p].isBlocked = TRUE]
        /\ listaAptos' = RemoveFirst(listaAptos, p)
        /\ listaBloqueado' = Append(listaBloqueado, p)
        /\ pc = "bloquear"
    BY <1>2 DEF Bloqueia
  <2>2. /\ p \in ToSet(listaAptos) /\ p \notin ToSet(listaBloqueado) /\ p \in Processos
        /\ bcp \in [Processos -> Bloco]
    BY <1>2, <2>1, DeSet DEF IInv, TypeOK, ListasCertas
  <2>3. bcp[p].tempoIO = cicloIO
    BY <2>2 DEF IInv, EmFila, ListasCertas
  <2>4. bcp' = [bcp EXCEPT ![p] = d]
    <3> HIDE DEF k
    <3> QED
      BY <2>1, <2>2
  <2>5. d.tempoIO = bcp[p].tempoIO
    <3>1. c \in Bloco
      BY <2>2
    <3> HIDE DEF l
    <3> QED
      BY <3>1 DEF Bloco
  <2> HIDE DEF d
  <2> QED
    BY <2>1, <2>2, <2>3, <2>4, <2>5
<1> QED
  BY <1>1, <1>2

LEMMA BloqueiaPasso ==
  ASSUME IInv, Bloqueia
  PROVE  IInv'
<1>1. /\ UNCHANGED <<tabela, alg, ciclo, listaProcessos, listaFinalizados, p, tempoExecutado,
                     ordemExecutados>>
      /\ pc = "bloquear"
      /\ pc' = IF listaProcessos = <<>> THEN "proximo" ELSE "escalonar"
      /\ tamanhoMaxFilaAptos' = Max2(tamanhoMaxFilaAptos, Len(listaAptos'))
      /\ tamanhoMaxFilaBlock' = Max2(tamanhoMaxFilaBlock, Len(listaBloqueado'))
  BY DEF Bloqueia
<1> USE DEF IInv
<1>2. /\ listaAptos \in Seq(Processos) /\ SemRepeticao(listaAptos)
      /\ listaBloqueado \in Seq(Processos) /\ SemRepeticao(listaBloqueado)
      /\ bcp \in [Processos -> Bloco]
      /\ NULL \notin Processos /\ Processos' = Processos
  BY <1>1, Arquivo DEF TypeOK, ListasCertas, Processos
<1>3. /\ bcp' \in [Processos -> Bloco]
      /\ \A q \in Processos :
           /\ bcp'[q].tempoTotal = bcp[q].tempoTotal
           /\ bcp'[q].jaExecutou = bcp[q].jaExecutou
           /\ bcp'[q].tempoEsperaTotal = bcp[q].tempoEsperaTotal
           /\ bcp'[q].isBlocked <=> q \in ToSet(listaBloqueado')
      /\ listaAptos' \in Seq(Processos) /\ SemRepeticao(listaAptos')
      /\ listaBloqueado' \in Seq(Processos) /\ SemRepeticao(listaBloqueado')
      /\ ToSet(listaAptos') \cup ToSet(listaBloqueado') = ToSet(listaAptos) \cup ToSet(listaBloqueado)
      /\ ToSet(listaAptos') \cap ToSet(listaBloqueado') = {}
  <2>1. CASE Devidos = {}
    <3>1. UNCHANGED <<bcp, listaAptos, listaBloqueado>>
      BY <2>1 DEF Bloqueia
    <3> QED
      BY <1>2, <3>1 DEF ListasCertas
  <2>2. CASE Devidos # {}
    <3> DEFINE k == CHOOSE j \in Devidos : \A l \in Devidos : j <= l
               l == RemoveAt(bcp[p].listaIO, k)
    <3>1. /\ bcp' = [bcp EXCEPT ![p].listaIO = RemoveAt(@, k), ![p].isBlocked = TRUE]
          /\ listaAptos' = RemoveFirst(listaAptos, p)
          /\ listaBloqueado' = Append(listaBloqueado, p)
      BY <2>2 DEF Bloqueia
    <3>2. p \in ToSet(listaAptos) /\ p \notin ToSet(listaBloqueado) /\ p \in Processos
      BY <1>1, <1>2, <2>2, DeSet DEF ListasCertas
    <3>3. bcp[p].listaIO \in Seq(Nat)
      BY <1>2, <3>2 DEF Bloco
    <3>4. Devidos \in SUBSET Nat /\ Devidos \in SUBSET (1..Len(bcp[p].listaIO))
      BY <2>2, <3>3 DEF Devidos
    <3>5. k \in 1..Len(bcp[p].listaIO)
      <4>1. \E j \in Devidos : \A i \in Devidos : j <= i
        BY <2>2, <3>4, Menor
      <4> QED
        BY <3>4, <4>1
    <3> HIDE DEF k
    <3>6. l \in Seq(Nat)
      BY <3>3, <3>5, RetiraLugar
    <3>7. bcp' = [bcp EXCEPT ![p] = [bcp[p] EXCEPT !.listaIO = l, !.isBlocked = TRUE]]
      BY <1>2, <3>1, <3>2
    <3> DEFINE c == bcp[p]
               d == [c EXCEPT !.listaIO = l, !.isBlocked = TRUE]
    <3>8. /\ d \in Bloco /\ d.tempoTotal = c.tempoTotal /\ d.jaExecutou = c.jaExecutou
          /\ d.tempoEsperaTotal = c.tempoEsperaTotal /\ d.isBlocked = TRUE
      <4>1. c \in Bloco
        BY <1>2, <3>2
      <4> HIDE DEF c, l
      <4> QED
        BY <3>6, <4>1 DEF Bloco
    <3>9. bcp' = [bcp EXCEPT ![p] = d]
      BY <3>7
    <3> HIDE DEF d
    <3>10. /\ bcp' \in [Processos -> Bloco] /\ bcp'[p] = d
           /\ \A q \in Processos : q # p => bcp'[q] = bcp[q]
      BY <1>2, <3>2, <3>8, <3>9
    <3>11. /\ listaAptos' \in Seq(Processos) /\ SemRepeticao(listaAptos')
           /\ ToSet(listaAptos') = ToSet(listaAptos) \ {p}
      BY <1>2, <3>1, RetiraPrimeiro
    <3>12. /\ listaBloqueado' \in Seq(Processos) /\ SemRepeticao(listaBloqueado')
           /\ ToSet(listaBloqueado') = ToSet(listaBloqueado) \cup {p}
      BY <1>2, <3>1, <3>2, Acrescenta
    <3>13. \A q \in Processos : bcp[q].isBlocked <=> q \in ToSet(listaBloqueado)
      BY DEF ListasCertas
    <3>14. ToSet(listaAptos) \cap ToSet(listaBloqueado) = {}
      BY DEF ListasCertas
    <3> QED
      BY <3>2, <3>8, <3>10, <3>11, <3>12, <3>13, <3>14
  <2> QED
    BY <2>1, <2>2
<1>4. TypeOK'
  <2>1. Len(listaAptos') \in Nat /\ Len(listaBloqueado') \in Nat
    BY <1>3
  <2>2. tamanhoMaxFilaAptos' \in Nat /\ tamanhoMaxFilaBlock' \in Nat
    BY <1>1, <2>1 DEF TypeOK, Max2
  <2> QED
    BY <1>1, <1>2, <1>3, <2>2 DEF TypeOK
<1>5. ListasCertas'
  BY <1>1, <1>2, <1>3 DEF ListasCertas
<1>6. Chegaram'
  BY <1>1, <1>3 DEF Chegaram
<1>7. EmTurno'
  BY <1>1 DEF EmTurno
<1>8. DeveCerto'
  BY <1>1, <1>2, <1>3 DEF DeveCerto, Vezes
<1>9. EsperaCerta'
  <2>1. ToSet(listaProcessos) \subseteq Processos
    BY DeSet DEF TypeOK
  <2> QED
    <3>1. ASSUME NEW q PROVE Esperou(q)' = Esperou(q)
      BY <1>1, <1>2 DEF Esperou
    <3> QED
      BY <1>1, <1>3, <2>1, <3>1 DEF EsperaCerta
<1>10. EmFila'
  <2> DEFINE t(q) == bcp[q].tempoIO
             s == listaBloqueado
  <2>1. \A q \in Processos : bcp'[q].tempoIO = t(q)
    BY BloqueiaFila
  <2>2. /\ \A q \in Processos : t(q) \in 1..2 /\ (~bcp[q].isBlocked => t(q) = 2)
        /\ \A q \in Processos : bcp[q].isBlocked <=> q \in ToSet(s)
        /\ \A i \in 1..Len(s) : s[i] \in Processos
        /\ \A i, j \in 1..Len(s) : i < j => t(s[i]) <= t(s[j])
        /\ DOMAIN s = 1..Len(s) /\ Len(s) \in Nat
    BY FilaCerta
  <2>c. cicloIO = 2
    BY DEF cicloIO
  <2> SUFFICES /\ \A q \in Processos : ~bcp'[q].isBlocked => t(q) = cicloIO
               /\ \A i, j \in DOMAIN s' : i < j => t(s'[i]) <= t(s'[j])
    <3>1. \A i \in DOMAIN s' : s'[i] \in Processos
      BY <1>3
    <3> QED
      BY <1>2, <2>1, <3>1 DEF EmFila
  <2>3. CASE s' = s
    BY <1>3, <2>2, <2>3, <2>c
  <2>4. CASE s' = Append(s, p) /\ p \in Processos /\ t(p) = cicloIO
    <3>1. /\ Len(Append(s, p)) = Len(s) + 1 /\ Append(s, p) \in Seq(Processos)
          /\ \A i \in 1..Len(s) : Append(s, p)[i] = s[i]
          /\ Append(s, p)[Len(s) + 1] = p
          /\ ToSet(Append(s, p)) = ToSet(s) \cup {p}
      BY <1>2, <2>4, AppendProperties, Acrescenta
    <3>2. \A q \in Processos : ~bcp'[q].isBlocked => t(q) = cicloIO
      BY <1>3, <2>2, <2>4, <2>c, <3>1
    <3>3. DOMAIN s' = 1..(Len(s) + 1)
      BY <2>2, <2>4, <3>1
    <3>4. ASSUME NEW i \in 1..(Len(s) + 1), NEW j \in 1..(Len(s) + 1), i < j
          PROVE  t(s'[i]) <= t(s'[j])
      <4>1. i \in 1..Len(s) /\ s'[i] = s[i] /\ t(s[i]) \in 1..2
        BY <2>2, <2>4, <3>1, <3>4
      <4>2. CASE j = Len(s) + 1
        <5>1. t(s'[j]) = cicloIO
          BY <2>4, <3>1, <4>2
        <5> QED
          BY <2>c, <4>1, <5>1
      <4>3. CASE j # Len(s) + 1
        <5>1. j \in 1..Len(s)
          BY <2>2, <4>3
        <5> QED
          BY <2>2, <2>4, <3>1, <3>4, <4>1, <5>1
      <4> QED
        BY <4>2, <4>3
    <3> QED
      BY <3>2, <3>3, <3>4
  <2> QED
    BY <2>3, <2>4, BloqueiaFila
<1> QED
  BY <1>4, <1>5, <1>6, <1>7, <1>8, <1>9, <1>10

-----------------------------------------------------------------------------
(* Beginning and end of a scheduler *)

\* The state in which every scheduler begins.
Comeco == /\ tabela \in Tabelas /\ alg \in DOMAIN listaAlg /\ ciclo = 0
          /\ bcp = [q \in Processos |-> NovoBCP(tabela[q])]
          /\ listaProcessos = [q \in Processos |-> q]
          /\ listaAptos = <<>> /\ listaBloqueado = <<>> /\ listaFinalizados = <<>>
          /\ tamanhoMaxFilaAptos = 0 /\ tamanhoMaxFilaBlock = 0
          /\ p = NULL /\ tempoExecutado = 0 /\ ordemExecutados = <<>>
          /\ pc = "escalonar"

LEMMA ComecoCerto == Comeco => IInv
<1> SUFFICES ASSUME Comeco PROVE IInv
  OBVIOUS
<1> USE DEF Comeco
<1>1. /\ Processos = 1..Len(tabela) /\ Len(tabela) \in Nat /\ NULL \notin Processos
      /\ \A q \in Processos : tabela[q].tempoTotal \in Nat /\ tabela[q].listaIO \in Seq(Nat)
  BY Arquivo
<1>2. /\ listaProcessos \in Seq(Processos) /\ SemRepeticao(listaProcessos)
      /\ ToSet(listaProcessos) = Processos
  <2> DEFINE n == Len(tabela)
  <2>1. listaProcessos = [q \in 1..n |-> q] /\ n \in Nat /\ Processos = 1..n
    BY <1>1
  <2> HIDE DEF n
  <2> QED
    BY <2>1, Todos
<1>3. \A q \in Processos :
        /\ bcp[q] \in Bloco /\ bcp[q].tempoTotal = tabela[q].tempoTotal
        /\ bcp[q].isBlocked = FALSE /\ bcp[q].jaExecutou = FALSE
        /\ bcp[q].tempoEsperaTotal = 0
  BY <1>1 DEF NovoBCP, Bloco, cicloIO
<1>4. bcp \in [Processos -> Bloco]
  BY <1>3
<1>5. <<>> \in Seq(Processos) /\ SemRepeticao(<<>>) /\ ToSet(<<>>) = {}
  BY Vazia
<1>6. \A q : Vezes(q) = 0 /\ Esperou(q) = 0
  BY FS_EmptySet DEF Vezes, Esperou
<1>7. TypeOK
  BY <1>1, <1>2, <1>3, <1>4, <1>5 DEF TypeOK, quantum
<1>8. ListasCertas
  BY <1>2, <1>3, <1>5 DEF ListasCertas
<1>9. Chegaram /\ EmTurno
  BY <1>5 DEF Chegaram, EmTurno
<1>10. DeveCerto
  BY <1>1, <1>2, <1>3, <1>5, <1>6 DEF DeveCerto
<1>11. EsperaCerta
  BY <1>2, <1>3, <1>6 DEF EsperaCerta
<1>12. EmFila
  BY DEF EmFila, NovoBCP
<1> QED
  BY <1>7, <1>8, <1>9, <1>10, <1>11, <1>12 DEF IInv

LEMMA InitPasso == Init => IInv
<1>1. Init => Comeco
  BY DEF Init, Comeco, listaAlg
<1> QED
  BY <1>1, ComecoCerto

LEMMA ProximoPasso ==
  ASSUME IInv, Proximo
  PROVE  IInv'
<1>1. Comeco'
  <2>1. alg' \in DOMAIN listaAlg /\ tabela' \in Tabelas
    BY DEF Proximo, IInv, TypeOK, listaAlg
  <2> QED
    BY <2>1 DEF Proximo, Comeco, Processos
<1>2. Comeco' => IInv'
  BY ComecoCerto, PTL
<1> QED
  BY <1>1, <1>2

LEMMA FimPasso ==
  ASSUME IInv, Fim
  PROVE  IInv'
<1>1. /\ UNCHANGED <<tabela, alg, bcp, listaProcessos, listaAptos, listaBloqueado,
                     listaFinalizados, tamanhoMaxFilaAptos, tamanhoMaxFilaBlock, p,
                     tempoExecutado, ordemExecutados>>
      /\ pc = "proximo" /\ pc' = "fim" /\ ciclo' = 0
  BY DEF Fim, listas, maximos
<1> USE DEF IInv
<1>2. ToSet(listaAptos) = {} /\ ToSet(listaBloqueado) = {} /\ listaProcessos = <<>>
  BY <1>1, Vazia DEF EmTurno, ListasCertas
<1>3. TypeOK' /\ ListasCertas'
  BY <1>1 DEF TypeOK, ListasCertas, Processos
<1>4. Chegaram' /\ EmTurno'
  BY <1>1, <1>2 DEF Chegaram, EmTurno
<1>5. DeveCerto' /\ EsperaCerta' /\ EmFila'
  BY <1>1 DEF DeveCerto, EsperaCerta, EmFila, Processos, Vezes, Esperou
<1> QED
  BY <1>3, <1>4, <1>5

LEMMA ParadoPasso ==
  ASSUME IInv, UNCHANGED vars
  PROVE  IInv'
<1>1. UNCHANGED <<tabela, alg, ciclo, bcp, listaProcessos, listaAptos, listaBloqueado,
                  listaFinalizados, tamanhoMaxFilaAptos, tamanhoMaxFilaBlock, p,
                  tempoExecutado, ordemExecutados, pc>>
  BY DEF vars, listas, maximos
<1> USE DEF IInv
<1>2. TypeOK' /\ ListasCertas'
  BY <1>1 DEF TypeOK, ListasCertas, Processos, Devidos
<1>3. Chegaram' /\ EmTurno'
  BY <1>1 DEF Chegaram, EmTurno
<1>4. DeveCerto' /\ EsperaCerta' /\ EmFila'
  BY <1>1 DEF DeveCerto, EsperaCerta, EmFila, Processos, Vezes, Esperou
<1> QED
  BY <1>2, <1>3, <1>4

-----------------------------------------------------------------------------
(* Theorems *)

\* The inductive invariant: every list, block and count of every scheduler, for
\* every file.
THEOREM Indutivo == Spec => []IInv
<1>1. IInv /\ [Next]_vars => IInv'
  BY EscalonaPasso, ExecutaPasso, OciosoPasso, DecrementaPasso, BloqueiaPasso, ProximoPasso,
     FimPasso, ParadoPasso DEF Next
<1> QED
  BY InitPasso, <1>1, PTL DEF Spec

\* Type correctness: nobody owes less than nothing by more than a quantum, and
\* who is blocked has time of IO left.
THEOREM TypeCorrect == Spec => []TypeOK
<1>1. IInv => TypeOK
  BY DEF IInv
<1> QED
  BY <1>1, Indutivo, PTL

\* A process is finished, or blocked, or ready, or not noticed yet, in one list
\* and once, and the process that blocks is found in listaAptos (line 60).
THEOREM ListasCertasSempre == Spec => []ListasCertas
<1>1. IInv => ListasCertas
  BY DEF IInv
<1> QED
  BY <1>1, Indutivo, PTL

\* A finished process had the processor for just the time that it needs.
THEOREM ExecutaTudoSempre == Spec => []ExecutaTudo
<1>1. IInv => ExecutaTudo
  <2> SUFFICES ASSUME IInv, NEW q \in ToSet(listaFinalizados)
               PROVE  Vezes(q) = Max2(1, tabela[q].tempoTotal)
    BY DEF ExecutaTudo
  <2>1. q \in Processos
    BY DeSet DEF IInv, TypeOK
  <2>2. tabela[q].tempoTotal \in Nat
    BY <2>1, Arquivo DEF IInv, TypeOK
  <2>3. /\ Vezes(q) = tabela[q].tempoTotal - bcp[q].tempoTotal
        /\ bcp[q].tempoTotal = IF tabela[q].tempoTotal = 0 THEN -1 ELSE 0
    BY <2>1 DEF IInv, DeveCerto
  <2> QED
    BY <2>2, <2>3 DEF Max2
<1> QED
  BY <1>1, Indutivo, PTL

\* tempoEsperaTotal is the time that others ran since the process ran first.
THEOREM EsperaCertaSempre == Spec => []EsperaCerta
<1>1. IInv => EsperaCerta
  BY DEF IInv
<1> QED
  BY <1>1, Indutivo, PTL

-----------------------------------------------------------------------------
(* The places of the ready *)

\* RoundRobin's escalonar: those that stay come one place forward.
LEMMA EscalonaAvanca ==
  ASSUME IInv, Escalona, listaAlg[alg] = "RoundRobin",
         NEW i \in DOMAIN listaAptos, NEW j \in DOMAIN listaAptos',
         listaAptos[i] = listaAptos'[j], listaAptos[i] # p'
  PROVE  j = i - 1
<1> DEFINE a == Aptos
           r == Append(Tail(a), Head(a))
<1>1. /\ a \in Seq(Processos) /\ SemRepeticao(a)
      /\ Len(listaAptos) <= Len(a)
      /\ \A l \in DOMAIN listaAptos : a[l] = listaAptos[l]
      /\ DOMAIN listaAptos = 1..Len(listaAptos) /\ Len(listaAptos) \in Nat
  BY AptosCertos DEF IInv, TypeOK, ListasCertas
<1>2. a # <<>> /\ listaAptos' = r /\ p' = Head(a)
  <2>1. CASE a = <<>>
    BY <2>1 DEF Escalona
  <2>2. CASE a # <<>>
    BY <2>2 DEF Escalona, Escolhido, AposEscolha, listaAlg
  <2> QED
    BY <2>1, <2>2
<1> HIDE DEF a
<1>3. /\ Head(a) \in Processos /\ Tail(a) \in Seq(Processos)
      /\ Len(Tail(a)) = Len(a) - 1
      /\ \A l \in 1..(Len(a) - 1) : Tail(a)[l] = a[l + 1]
  <2>1. Len(a) \in Nat /\ Len(a) >= 1 /\ Head(a) = a[1]
    BY <1>1, <1>2, EmptySeq
  <2> QED
    BY <1>1, <1>2, <2>1, HeadTailProperties
<1>4. /\ Len(r) = Len(a) /\ r[Len(a)] = Head(a)
      /\ \A l \in 1..(Len(a) - 1) : r[l] = a[l + 1]
      /\ DOMAIN r = 1..Len(a) /\ Len(a) \in Nat
  <2>1. /\ Len(r) = Len(Tail(a)) + 1 /\ r[Len(Tail(a)) + 1] = Head(a) /\ r \in Seq(Processos)
        /\ \A l \in 1..Len(Tail(a)) : r[l] = Tail(a)[l]
    BY <1>3, AppendProperties
  <2>2. Len(a) \in Nat
    BY <1>1
  <2> HIDE DEF r
  <2> QED
    BY <1>3, <2>1, <2>2
<1> HIDE DEF r
<1>5. j \in 1..Len(a) /\ r[j] = a[i] /\ i \in 1..Len(a) /\ r[j] # Head(a)
  BY <1>1, <1>2, <1>4
<1>6. j \in 1..(Len(a) - 1) /\ j + 1 \in 1..Len(a)
  BY <1>4, <1>5
<1>7. a[i] = a[j + 1]
  BY <1>4, <1>5, <1>6
<1>8. i = j + 1
  BY <1>1, <1>5, <1>6, <1>7 DEF SemRepeticao
<1> QED
  BY <1>6, <1>8

\* In all the other steps nobody falls back in listaAptos.
LEMMA NinguemRecua ==
  ASSUME IInv, [Next]_vars, pc # "escalonar",
         NEW i \in DOMAIN listaAptos, NEW j \in DOMAIN listaAptos',
         listaAptos[i] = listaAptos'[j]
  PROVE  j <= i
<1>1. /\ listaAptos \in Seq(Processos) /\ SemRepeticao(listaAptos)
      /\ DOMAIN listaAptos = 1..Len(listaAptos) /\ Len(listaAptos) \in Nat
  BY DEF IInv, TypeOK, ListasCertas
<1>2. CASE listaAptos' = listaAptos
  BY <1>1, <1>2 DEF SemRepeticao
<1>3. CASE listaAptos' = RemoveFirst(listaAptos, p)
  <2>1. j \in DOMAIN RemoveFirst(listaAptos, p) /\ listaAptos[i] = RemoveFirst(listaAptos, p)[j]
    BY <1>3
  <2> QED
    BY <1>1, <2>1, RetiraAvanca
<1>4. CASE listaAptos' = <<>>
  BY <1>4
<1>5. CASE Decrementa
  <2>1. PICK v \in Processos \cup {NULL} :
          /\ v = NULL => UNCHANGED listaAptos
          /\ v # NULL => v \in ToSet(listaBloqueado) /\ listaAptos' = Append(listaAptos, v)
    BY <1>5, DecrementaEfeito
  <2>2. CASE v # NULL
    <3>1. listaAptos[i] # v
      <4>1. v \notin ToSet(listaAptos)
        BY <2>1, <2>2 DEF IInv, ListasCertas
      <4> QED
        BY <4>1 DEF ToSet
    <3> DEFINE r == Append(listaAptos, v)
    <3>2. /\ Len(r) = Len(listaAptos) + 1 /\ r[Len(listaAptos) + 1] = v
          /\ DOMAIN r = 1..(Len(listaAptos) + 1)
          /\ \A l \in 1..Len(listaAptos) : r[l] = listaAptos[l]
      BY <1>1, <2>2, AppendProperties
    <3>3. j \in DOMAIN r /\ listaAptos[i] = r[j]
      BY <2>1, <2>2
    <3> HIDE DEF r
    <3>4. j \in 1..Len(listaAptos)
      BY <1>1, <3>1, <3>2, <3>3
    <3> QED
      BY <1>1, <3>2, <3>3, <3>4 DEF SemRepeticao
  <2> QED
    BY <1>2, <2>1, <2>2
<1>6. CASE Executa
  BY <1>2, <1>3, <1>6 DEF Executa
<1>7. CASE Bloqueia
  BY <1>2, <1>3, <1>7, BloqueiaFila
<1>8. CASE Ocioso \/ Fim \/ UNCHANGED vars
  BY <1>2, <1>8 DEF Ocioso, Fim, vars, listas
<1>9. CASE Proximo
  BY <1>4, <1>9 DEF Proximo
<1> QED
  BY <1>5, <1>6, <1>7, <1>8, <1>9 DEF Next, Escalona

\* Each algorithm keeps its rule over everybody who could run, the processor is
\* left idle only when nobody could, and RoundRobin lets nobody fall back.
THEOREM EscolheCertoSempre == Spec => EscolheCerto
<1> DEFINE Regra == pc = "escalonar" =>
                      /\ p' = NULL <=> Prontos = {}
                      /\ p' # NULL => p' \in Prontos
                      /\ p' # NULL /\ listaAlg[alg] = "Sjf" =>
                           \A q \in Prontos : bcp[p'].tempoTotal <= bcp[q].tempoTotal
                      /\ p' # NULL /\ listaAlg[alg] = "Prioridade" =>
                           \A q \in Prontos : tabela[p'].prioridade <= tabela[q].prioridade
           Vez == listaAlg[alg] = "RoundRobin" =>
                    \A i \in DOMAIN listaAptos, j \in DOMAIN listaAptos' :
                      listaAptos[i] = listaAptos'[j] /\ listaAptos[i] # p' =>
                        IF pc = "escalonar" THEN j = i - 1 ELSE j <= i
<1>1. ASSUME IInv, [Next]_vars
      PROVE  [Regra /\ Vez]_vars
  <2>1. CASE Escalona
    <3>1. Regra
      BY <1>1, <2>1, EscalonaEscolhe
    <3>2. Vez
      BY <1>1, <2>1, EscalonaAvanca DEF Escalona
    <3> QED
      BY <3>1, <3>2
  <2>2. CASE Executa \/ Ocioso \/ Decrementa \/ Bloqueia \/ Proximo \/ Fim
    <3>1. pc # "escalonar"
      BY <2>2 DEF Executa, Ocioso, Decrementa, Bloqueia, Proximo, Fim
    <3>2. Vez
      BY <1>1, <3>1, NinguemRecua
    <3> QED
      BY <3>1, <3>2
  <2> QED
    BY <1>1, <2>1, <2>2 DEF Next
<1> QED
  BY <1>1, Indutivo, PTL DEF Spec, EscolheCerto

-----------------------------------------------------------------------------
(* How long IO lasts *)

\* What DuracaoIO says of one step.
Dura ==
  /\ \A j \in DOMAIN listaBloqueado' :
       listaBloqueado'[j] \notin ToSet(listaBloqueado) =>
         j = Len(listaBloqueado) + 1 /\ FaltaIO(j)' = cicloIO + j - 1
  /\ \A i \in DOMAIN listaBloqueado, j \in DOMAIN listaBloqueado' :
       listaBloqueado[i] = listaBloqueado'[j] => FaltaIO(j)' = FaltaIO(i) - Passou
  /\ \A i \in DOMAIN listaBloqueado :
       listaBloqueado[i] \notin ToSet(listaBloqueado') => FaltaIO(i) = Passou

LEMMA DuraParada ==
  ASSUME IInv, listaBloqueado' = listaBloqueado,
         \A q \in ToSet(listaBloqueado) : bcp'[q].tempoIO = bcp[q].tempoIO - Passou,
         Passou \in 0..1
  PROVE  Dura
<1> DEFINE s == listaBloqueado
<1>1. /\ DOMAIN s = 1..Len(s) /\ SemRepeticao(s) /\ Len(s) \in Nat
      /\ \A i \in 1..Len(s) : s[i] \in Processos /\ s[i] \in ToSet(s)
      /\ \A q \in Processos : bcp[q].tempoIO \in 1..2
  BY FilaCerta
<1>2. \A i \in 1..Len(s) : FaltaIO(i)' = bcp'[s[i]].tempoIO + i - 1
  BY DEF FaltaIO
<1>3. \A i \in 1..Len(s) : FaltaIO(i)' = FaltaIO(i) - Passou
  <2> SUFFICES ASSUME NEW i \in 1..Len(s) PROVE FaltaIO(i)' = FaltaIO(i) - Passou
    OBVIOUS
  <2>1. bcp'[s[i]].tempoIO = bcp[s[i]].tempoIO - Passou /\ bcp[s[i]].tempoIO \in 1..2
    BY <1>1
  <2> QED
    BY <1>2, <2>1 DEF FaltaIO
<1>4. \A i, j \in 1..Len(s) : s[i] = s[j] => i = j
  BY <1>1 DEF SemRepeticao
<1> QED
  BY <1>1, <1>3, <1>4 DEF Dura

LEMMA DecrementaDura ==
  ASSUME IInv, Decrementa
  PROVE  Dura
<1> DEFINE s == listaBloqueado
           t(q) == bcp[q].tempoIO
<1>1. /\ s \in Seq(Processos) /\ DOMAIN s = 1..Len(s) /\ SemRepeticao(s) /\ Len(s) \in Nat
      /\ \A i \in 1..Len(s) : s[i] \in Processos /\ s[i] \in ToSet(s)
      /\ \A q \in Processos : t(q) \in 1..2
      /\ tempoExecutado \in 0..1
  BY FilaCerta
<1>2. Passou = tempoExecutado
  BY DEF Passou, Decrementa
<1>3. CASE /\ UNCHANGED s
           /\ \A q \in Processos :
                bcp'[q].tempoIO = IF q \in ToSet(s) THEN t(q) - tempoExecutado ELSE t(q)
  <2>1. ToSet(s) \subseteq Processos
    BY <1>1, DeSet
  <2>2. \A q \in ToSet(s) : bcp'[q].tempoIO = bcp[q].tempoIO - Passou
    BY <1>2, <1>3, <2>1
  <2> QED
    BY <1>1, <1>2, <1>3, <2>2, DuraParada
<1>4. CASE /\ s # <<>> /\ t(s[1]) = 1 /\ tempoExecutado = 1 /\ s' = RemoveAt(s, 1)
           /\ \A q \in Processos : bcp'[q].tempoIO = IF q = s[1] THEN cicloIO ELSE t(q)
  <2>1. 1 \in 1..Len(s)
    BY <1>1, <1>4, EmptySeq
  <2>2. /\ Len(s') = Len(s) - 1 /\ DOMAIN s' = 1..(Len(s) - 1)
        /\ \A i \in 1..(Len(s) - 1) : s'[i] = s[i + 1]
    <3> DEFINE r == RemoveAt(s, 1)
    <3>1. /\ r \in Seq(Processos) /\ Len(r) = Len(s) - 1
          /\ \A i \in 1..(Len(s) - 1) : r[i] = IF i < 1 THEN s[i] ELSE s[i + 1]
      BY <1>1, <2>1, RetiraLugar
    <3>2. s' = r
      BY <1>4
    <3>3. \A i \in 1..(Len(s) - 1) : ~(i < 1)
      BY <1>1
    <3> HIDE DEF r, s
    <3> QED
      BY <3>1, <3>2, <3>3
  <2>3. \A i, j \in 1..Len(s) : s[i] = s[j] => i = j
    BY <1>1 DEF SemRepeticao
  <2>4. ASSUME NEW j \in 1..(Len(s) - 1)
        PROVE  /\ j + 1 \in 1..Len(s) /\ s'[j] = s[j + 1]
               /\ FaltaIO(j)' = FaltaIO(j + 1) - Passou
    <3>1. j + 1 \in 1..Len(s) /\ j + 1 # 1 /\ s'[j] = s[j + 1]
      BY <1>1, <2>2
    <3>2. bcp'[s'[j]].tempoIO = t(s[j + 1]) /\ t(s[j + 1]) \in 1..2
      BY <1>1, <1>4, <2>1, <2>3, <3>1
    <3>3. FaltaIO(j)' = bcp'[s'[j]].tempoIO + j - 1
      BY DEF FaltaIO
    <3>4. FaltaIO(j + 1) = t(s[j + 1]) + (j + 1) - 1
      BY DEF FaltaIO
    <3>5. t(s[j + 1]) + j - 1 = t(s[j + 1]) + (j + 1) - 1 - 1
      BY <3>2
    <3> QED
      BY <1>2, <1>4, <3>1, <3>2, <3>3, <3>4, <3>5
  <2>5. \A j \in DOMAIN s' : s'[j] \in ToSet(s)
    BY <1>1, <2>2, <2>4
  <2>6. ASSUME NEW i \in DOMAIN s, NEW j \in DOMAIN s', s[i] = s'[j]
        PROVE  FaltaIO(j)' = FaltaIO(i) - Passou
    <3>1. i = j + 1
      BY <1>1, <2>2, <2>3, <2>4, <2>6
    <3> QED
      BY <2>2, <2>4, <3>1
  <2>7. ASSUME NEW i \in DOMAIN s, s[i] \notin ToSet(s')
        PROVE  FaltaIO(i) = Passou
    <3>1. i = 1
      <4> SUFFICES ASSUME i # 1 PROVE FALSE
        OBVIOUS
      <4>1. i - 1 \in 1..(Len(s) - 1) /\ (i - 1) + 1 = i
        BY <1>1
      <4>2. s'[i - 1] = s[i] /\ i - 1 \in DOMAIN s'
        BY <2>2, <4>1
      <4> QED
        BY <2>7, <4>2 DEF ToSet
    <3> QED
      BY <1>2, <1>4, <3>1 DEF FaltaIO
  <2> QED
    BY <2>5, <2>6, <2>7 DEF Dura
<1> QED
  BY <1>3, <1>4, DecrementaFila

LEMMA BloqueiaDura ==
  ASSUME IInv, Bloqueia
  PROVE  Dura
<1> DEFINE s == listaBloqueado
           t(q) == bcp[q].tempoIO
<1>1. /\ s \in Seq(Processos) /\ DOMAIN s = 1..Len(s) /\ SemRepeticao(s) /\ Len(s) \in Nat
      /\ \A i \in 1..Len(s) : s[i] \in Processos /\ s[i] \in ToSet(s)
      /\ \A q \in Processos : t(q) \in 1..2
  BY FilaCerta
<1>2. Passou = 0
  BY DEF Passou, Bloqueia
<1>3. \A q \in Processos : bcp'[q].tempoIO = t(q)
  BY BloqueiaFila
<1>4. CASE s' = s
  <2>1. \A q \in ToSet(s) : bcp'[q].tempoIO = bcp[q].tempoIO - Passou
    <3>1. ToSet(s) \subseteq Processos
      BY <1>1, DeSet
    <3>2. \A q \in Processos : t(q) = t(q) - 0
      BY <1>1
    <3> QED
      BY <1>2, <1>3, <3>1, <3>2
  <2> QED
    BY <1>2, <1>4, <2>1, DuraParada
<1>5. CASE s' = Append(s, p) /\ p \in Processos /\ p \notin ToSet(s) /\ t(p) = cicloIO
  <2>1. /\ Len(Append(s, p)) = Len(s) + 1 /\ Append(s, p) \in Seq(Processos)
        /\ \A i \in 1..Len(s) : Append(s, p)[i] = s[i]
        /\ Append(s, p)[Len(s) + 1] = p
    BY <1>1, <1>5, AppendProperties
  <2>2. DOMAIN s' = 1..(Len(s) + 1)
    BY <1>1, <1>5, <2>1
  <2>3. \A j \in 1..(Len(s) + 1) : j \in 1..Len(s) \/ j = Len(s) + 1
    BY <1>1
  <2>4. \A i \in 1..Len(s) : s'[i] = s[i] /\ i \in DOMAIN s'
    BY <1>1, <1>5, <2>1, <2>2
  <2>5. s'[Len(s) + 1] = p
    BY <1>5, <2>1
  <2>6. ASSUME NEW j, j = Len(s) + 1
        PROVE  FaltaIO(j)' = cicloIO + j - 1
    <3>1. FaltaIO(j)' = bcp'[s'[j]].tempoIO + j - 1
      BY DEF FaltaIO
    <3> QED
      BY <1>3, <1>5, <2>5, <2>6, <3>1
  <2>7. ASSUME NEW i \in 1..Len(s)
        PROVE  FaltaIO(i)' = FaltaIO(i) - Passou /\ s[i] \in ToSet(s')
    <3>1. FaltaIO(i)' = bcp'[s'[i]].tempoIO + i - 1
      BY DEF FaltaIO
    <3>2. bcp'[s'[i]].tempoIO = t(s[i]) /\ t(s[i]) \in 1..2
      BY <1>1, <1>3, <2>4
    <3>3. t(s[i]) + i - 1 = t(s[i]) + i - 1 - 0
      BY <3>2
    <3> QED
      BY <1>2, <2>4, <3>1, <3>2, <3>3 DEF FaltaIO, ToSet
  <2>8. \A i, j \in 1..Len(s) : s[i] = s[j] => i = j
    BY <1>1 DEF SemRepeticao
  <2>9. ASSUME NEW j \in DOMAIN s', s'[j] \notin ToSet(s)
        PROVE  j = Len(s) + 1 /\ FaltaIO(j)' = cicloIO + j - 1
    <3>1. j = Len(s) + 1
      BY <1>1, <2>2, <2>3, <2>4, <2>9
    <3> QED
      BY <2>6, <3>1
  <2>10. ASSUME NEW i \in DOMAIN s, NEW j \in DOMAIN s', s[i] = s'[j]
         PROVE  FaltaIO(j)' = FaltaIO(i) - Passou
    <3>1. j # Len(s) + 1
      BY <1>1, <1>5, <2>5, <2>10
    <3>2. j \in 1..Len(s) /\ i \in 1..Len(s)
      BY <1>1, <2>2, <2>3, <3>1
    <3>3. i = j
      BY <2>4, <2>8, <2>10, <3>2
    <3> QED
      BY <2>7, <3>2, <3>3
  <2>11. \A i \in DOMAIN s : s[i] \in ToSet(s')
    BY <1>1, <2>7
  <2> QED
    BY <2>9, <2>10, <2>11 DEF Dura
<1> QED
  BY <1>4, <1>5, BloqueiaFila

\* IO lasts for its own two units and one more for each process that was blocked
\* before, however long the list is: what the removal inside the iteration costs.
THEOREM DuracaoIOSempre == Spec => DuracaoIO
<1>1. ASSUME IInv, Next
      PROVE  Dura
  <2>1. CASE Decrementa
    BY <1>1, <2>1, DecrementaDura
  <2>2. CASE Bloqueia
    BY <1>1, <2>2, BloqueiaDura
  <2>3. CASE Escalona \/ Executa \/ Ocioso \/ Fim
    <3>1. listaBloqueado' = listaBloqueado /\ Passou = 0
      BY <2>3 DEF Escalona, Executa, Ocioso, Fim, listas, Passou
    <3>2. \A q \in Processos : bcp'[q].tempoIO = bcp[q].tempoIO
      BY <1>1, <2>3, ExecutaBlocos DEF Escalona, Ocioso, Fim
    <3>3. ToSet(listaBloqueado) \subseteq Processos
      BY <1>1, DeSet, FilaCerta
    <3>4. \A q \in ToSet(listaBloqueado) : bcp'[q].tempoIO = bcp[q].tempoIO - Passou
      <4>1. \A q \in Processos : bcp[q].tempoIO \in 1..2
        BY <1>1, FilaCerta
      <4> QED
        BY <3>1, <3>2, <3>3, <4>1
    <3> QED
      BY <1>1, <3>1, <3>4, DuraParada
  <2>4. CASE Proximo
    <3>1. listaBloqueado' = <<>>
      BY <2>4 DEF Proximo
    <3>2. ToSet(listaBloqueado) = {}
      <4>1. listaProcessos = <<>>
        BY <1>1, <2>4 DEF Proximo, IInv, EmTurno
      <4> QED
        BY <1>1, <4>1, Vazia DEF IInv, ListasCertas
    <3>3. listaBloqueado = <<>>
      BY <1>1, <3>2, DeSet, FilaCerta
    <3> QED
      BY <3>1, <3>3 DEF Dura
  <2> QED
    BY <1>1, <2>1, <2>2, <2>3, <2>4 DEF Next
<1>2. IInv /\ [Next]_vars => [Dura]_vars
  BY <1>1
<1> QED
  BY <1>2, Indutivo, PTL DEF Spec, DuracaoIO, Dura
=============================================================================
