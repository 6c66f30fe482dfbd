------------------------------ MODULE Desk_proofs ------------------------------
(***************************************************************************)
(* Theorems about the desk: Workspaces, with the pointer's grab of Drag.     *)
(* Each operator of Workspaces is shown to keep the records of the desk      *)
(* consistent (Sound); each handler is given an effect, a formula about the  *)
(* desk before and after it; and what the runs check of every step is        *)
(* derived from the effects.  After that, the desk is shown to implement     *)
(* Placement, and the loops of Compaction to compute what Compact says.      *)
(***************************************************************************)
EXTENDS Drag, Compaction, FiniteSetTheorems, SequenceTheorems, TLAPS

-----------------------------------------------------------------------------
(* Numbers and lists. *)

\* Every set of natural numbers that is not empty has a least element.
LEMMA LeastNatural ==
    ASSUME NEW T \in SUBSET Nat, T # {}
    PROVE  \E x \in T : \A y \in T : x <= y
<1> DEFINE R == OpToRel(<, Nat)
<1>1. IsWellFoundedOn(R, Nat)
  BY NatLessThanWellFounded
<1>2. \A x, y \in Nat : y < x => <<y, x>> \in R
  BY DEF OpToRel
<1> HIDE DEF R
<1>3. PICK x \in T : \A y \in T : ~ (<<y, x>> \in R)
  BY <1>1, WFMin
<1>4. ASSUME NEW y \in T PROVE x <= y
  <2>1. x \in Nat /\ y \in Nat /\ ~ (y < x)
    BY <1>2, <1>3
  <2> QED
    BY <2>1
<1> QED
  BY <1>4

\* q lists the windows of C, each once.
Lists(q, C) == q \in Seq(Client) /\ IsInjective(q) /\ ToSet(q) = C

\* What Lists says, place by place.
LEMMA ListsPlaces ==
    ASSUME NEW q, NEW C, Lists(q, C)
    PROVE  /\ q \in Seq(Client) /\ Len(q) \in Nat /\ DOMAIN q = 1..Len(q)
           /\ \A i \in 1..Len(q) : q[i] \in C /\ q[i] \in Client
           /\ \A i, j \in 1..Len(q) : q[i] = q[j] => i = j
           /\ \A c \in C : c \in Client /\ \E i \in 1..Len(q) : q[i] = c
<1>1. q \in Seq(Client) /\ Len(q) \in Nat /\ DOMAIN q = 1..Len(q)
  BY LenProperties DEF Lists
<1>2. \A i \in 1..Len(q) : q[i] \in C /\ q[i] \in Client
  BY <1>1, ElementOfSeq DEF Lists, ToSet
<1>3. \A i, j \in 1..Len(q) : q[i] = q[j] => i = j
  BY <1>1 DEF Lists, IsInjective
<1>4. \A c \in C : \E i \in 1..Len(q) : q[i] = c
  BY <1>1 DEF Lists, ToSet
<1> QED
  BY <1>1, <1>2, <1>3, <1>4

\* And the other way round.
LEMMA PlacesList ==
    ASSUME NEW q \in Seq(Client), NEW C,
           \A i \in 1..Len(q) : q[i] \in C,
           \A i, j \in 1..Len(q) : q[i] = q[j] => i = j,
           \A c \in C : \E i \in 1..Len(q) : q[i] = c
    PROVE  Lists(q, C)
<1>1. DOMAIN q = 1..Len(q)
  BY LenProperties
<1>2. IsInjective(q)
  BY <1>1 DEF IsInjective
<1>3. ToSet(q) = C
  BY <1>1 DEF ToSet
<1> QED
  BY <1>2, <1>3 DEF Lists

\* The place of a window of the list.
LEMMA PosPlace ==
    ASSUME NEW q, NEW C, Lists(q, C), NEW c \in C
    PROVE  Pos(q, c) \in 1..Len(q) /\ q[Pos(q, c)] = c
<1>1. \E i \in DOMAIN q : q[i] = c
  BY ListsPlaces
<1>2. Pos(q, c) \in DOMAIN q /\ q[Pos(q, c)] = c
  BY <1>1 DEF Pos
<1> QED
  BY <1>2, ListsPlaces

\* The empty list.
LEMMA EmptyLists ==
    /\ Lists(<<>>, {})
    /\ \A q, C : Lists(q, C) => (q = <<>> <=> C = {})
<1>1. Lists(<<>>, {})
  <2>1. <<>> \in Seq(Client) /\ Len(<<>>) = 0 /\ 1..Len(<<>>) = {}
    BY EmptySeq
  <2> QED
    BY <2>1, PlacesList
<1>2. ASSUME NEW q, NEW C, Lists(q, C) PROVE q = <<>> <=> C = {}
  <2>1. q \in Seq(Client) /\ (q # <<>> => Len(q) \in Nat \ {0})
    BY <1>2, ListsPlaces, EmptySeq
  <2>2. q # <<>> => 1 \in 1..Len(q)
    BY <2>1
  <2>3. q # <<>> => C # {}
    BY <1>2, <2>2, ListsPlaces
  <2>4. q = <<>> => Len(q) = 0
    BY EmptySeq
  <2>5. q = <<>> => C = {}
    BY <1>2, <2>4, ListsPlaces
  <2> QED
    BY <2>3, <2>5
<1> QED
  BY <1>1, <1>2

\* Its ends, if it is not empty.
LEMMA EndsListed ==
    ASSUME NEW q, NEW C, Lists(q, C), q # <<>>
    PROVE  Head(q) \in C /\ Last(q) \in C /\ Len(q) >= 1
<1>1. q \in Seq(Client) /\ Len(q) \in Nat \ {0}
  BY ListsPlaces, EmptySeq
<1>2. Head(q) = q[1] /\ Last(q) = q[Len(q)]
  BY <1>1 DEF Last
<1>3. 1 \in 1..Len(q) /\ Len(q) \in 1..Len(q)
  BY <1>1
<1> QED
  BY <1>1, <1>2, <1>3, ListsPlaces

\* RemoveAt, place by place.
LEMMA RemovePlaces ==
    ASSUME NEW q \in Seq(Client), NEW k \in 1..Len(q)
    PROVE  /\ RemoveAt(q, k) \in Seq(Client)
           /\ Len(RemoveAt(q, k)) = Len(q) - 1
           /\ \A i \in 1..(Len(q) - 1) :
                RemoveAt(q, k)[i] = IF i < k THEN q[i] ELSE q[i + 1]
<1> DEFINE a == SubSeq(q, 1, k - 1)
           b == SubSeq(q, k + 1, Len(q))
<1>1. Len(q) \in Nat /\ \A i \in 1..Len(q) : q[i] \in Client
  BY LenProperties, ElementOfSeq
<1>2. /\ a \in Seq(Client) /\ Len(a) = k - 1
      /\ \A i \in 1..(k - 1) : a[i] = q[i]
  <2>1. 1 \in Int /\ k - 1 \in Int /\ \A i \in 1..(k - 1) : q[i] \in Client
    BY <1>1
  <2>2. /\ a \in Seq(Client)
        /\ Len(a) = IF 1 <= k - 1 THEN k - 1 - 1 + 1 ELSE 0
        /\ \A i \in 1..(k - 1 - 1 + 1) : a[i] = q[1 + i - 1]
    BY <2>1, SubSeqProperties
  <2> HIDE DEF a
  <2> QED
    BY <1>1, <2>2
<1>3. /\ b \in Seq(Client) /\ Len(b) = Len(q) - k
      /\ \A i \in 1..(Len(q) - k) : b[i] = q[k + i]
  <2>1. k + 1 \in Int /\ Len(q) \in Int /\ \A i \in (k + 1)..Len(q) : q[i] \in Client
    BY <1>1
  <2>2. /\ b \in Seq(Client)
        /\ Len(b) = IF k + 1 <= Len(q) THEN Len(q) - (k + 1) + 1 ELSE 0
        /\ \A i \in 1..(Len(q) - (k + 1) + 1) : b[i] = q[k + 1 + i - 1]
    BY <2>1, SubSeqProperties
  <2> HIDE DEF b
  <2> QED
    BY <1>1, <2>2
<1>4. RemoveAt(q, k) = a \o b
  BY DEF RemoveAt
<1> HIDE DEF a, b
<1>5. /\ a \o b \in Seq(Client) /\ Len(a \o b) = Len(a) + Len(b)
      /\ \A i \in 1..(Len(a) + Len(b)) :
           (a \o b)[i] = IF i <= Len(a) THEN a[i] ELSE b[i - Len(a)]
  BY <1>2, <1>3, ConcatProperties
<1>6. ASSUME NEW i \in 1..(Len(q) - 1)
      PROVE  (a \o b)[i] = IF i < k THEN q[i] ELSE q[i + 1]
  <2>1. (a \o b)[i] = IF i <= k - 1 THEN a[i] ELSE b[i - (k - 1)]
    BY <1>1, <1>2, <1>3, <1>5
  <2>2. CASE i < k
    BY <1>1, <1>2, <2>1, <2>2
  <2>3. CASE ~ (i < k)
    <3>1. i - (k - 1) \in 1..(Len(q) - k) /\ k + (i - (k - 1)) = i + 1
      BY <1>1, <2>3
    <3> QED
      BY <1>3, <2>1, <2>3, <3>1
  <2> QED
    BY <2>2, <2>3
<1> QED
  BY <1>1, <1>2, <1>3, <1>4, <1>5, <1>6

\* InsertAt, place by place.
LEMMA InsertPlaces ==
    ASSUME NEW q \in Seq(Client), NEW k \in 1..(Len(q) + 1), NEW c \in Client
    PROVE  /\ InsertAt(q, k, c) \in Seq(Client)
           /\ Len(InsertAt(q, k, c)) = Len(q) + 1
           /\ \A i \in 1..(Len(q) + 1) :
                InsertAt(q, k, c)[i] = IF i < k THEN q[i] ELSE IF i = k THEN c ELSE q[i - 1]
<1> DEFINE a == SubSeq(q, 1, k - 1)
           b == SubSeq(q, k, Len(q))
           e == a \o <<c>>
<1>1. Len(q) \in Nat /\ \A i \in 1..Len(q) : q[i] \in Client
  BY LenProperties, ElementOfSeq
<1>2. /\ a \in Seq(Client) /\ Len(a) = k - 1
      /\ \A i \in 1..(k - 1) : a[i] = q[i]
  <2>1. 1 \in Int /\ k - 1 \in Int /\ \A i \in 1..(k - 1) : q[i] \in Client
    BY <1>1
  <2>2. /\ a \in Seq(Client)
        /\ Len(a) = IF 1 <= k - 1 THEN k - 1 - 1 + 1 ELSE 0
        /\ \A i \in 1..(k - 1 - 1 + 1) : a[i] = q[1 + i - 1]
    BY <2>1, SubSeqProperties
  <2> HIDE DEF a
  <2> QED
    BY <1>1, <2>2
<1>3. /\ b \in Seq(Client) /\ Len(b) = Len(q) - k + 1
      /\ \A i \in 1..(Len(q) - k + 1) : b[i] = q[k + i - 1]
  <2>1. k \in Int /\ Len(q) \in Int /\ \A i \in k..Len(q) : q[i] \in Client
    BY <1>1
  <2>2. /\ b \in Seq(Client)
        /\ Len(b) = IF k <= Len(q) THEN Len(q) - k + 1 ELSE 0
        /\ \A i \in 1..(Len(q) - k + 1) : b[i] = q[k + i - 1]
    BY <2>1, SubSeqProperties
  <2> HIDE DEF b
  <2> QED
    BY <1>1, <2>2
<1> HIDE DEF a, b
<1>4. /\ e \in Seq(Client) /\ Len(e) = k
      /\ \A i \in 1..(k - 1) : e[i] = q[i]
      /\ e[k] = c
  <2>1. e = Append(a, c)
    BY <1>2, AppendIsConcat
  <2> HIDE DEF e
  <2> QED
    BY <1>2, <2>1, AppendProperties
<1> HIDE DEF e
<1>5. InsertAt(q, k, c) = e \o b
  BY DEF InsertAt, e, a, b
<1>6. /\ e \o b \in Seq(Client) /\ Len(e \o b) = Len(e) + Len(b)
      /\ \A i \in 1..(Len(e) + Len(b)) :
           (e \o b)[i] = IF i <= Len(e) THEN e[i] ELSE b[i - Len(e)]
  <2>1. e \in Seq(Client) /\ b \in Seq(Client)
    BY <1>3, <1>4
  <2> QED
    BY <2>1, ConcatProperties
<1>7. ASSUME NEW i \in 1..(Len(q) + 1)
      PROVE  (e \o b)[i] = IF i < k THEN q[i] ELSE IF i = k THEN c ELSE q[i - 1]
  <2>1. (e \o b)[i] = IF i <= k THEN e[i] ELSE b[i - k]
    BY <1>1, <1>3, <1>4, <1>6
  <2>2. CASE i <= k
    BY <1>1, <1>4, <2>1, <2>2
  <2>3. CASE ~ (i <= k)
    <3>1. i - k \in 1..(Len(q) - k + 1) /\ k + (i - k) - 1 = i - 1
      BY <1>1, <2>3
    <3> QED
      BY <1>1, <1>3, <2>1, <2>3, <3>1
  <2> QED
    BY <2>2, <2>3
<1> QED
  BY <1>1, <1>3, <1>4, <1>5, <1>6, <1>7

\* A window taken out of a list is in it no more, and all others are.
LEMMA RemoveLists ==
    ASSUME NEW q, NEW C, Lists(q, C), NEW c \in C
    PROVE  Lists(RemoveAt(q, Pos(q, c)), C \ {c})
<1> DEFINE k == Pos(q, c)
           r == RemoveAt(q, k)
<1>1. /\ q \in Seq(Client) /\ Len(q) \in Nat
      /\ \A i \in 1..Len(q) : q[i] \in C
      /\ \A i, j \in 1..Len(q) : q[i] = q[j] => i = j
      /\ \A x \in C : \E i \in 1..Len(q) : q[i] = x
  BY ListsPlaces
<1>2. k \in 1..Len(q) /\ q[k] = c
  BY PosPlace
<1>3. /\ r \in Seq(Client) /\ Len(r) = Len(q) - 1
      /\ \A i \in 1..(Len(q) - 1) : r[i] = IF i < k THEN q[i] ELSE q[i + 1]
  BY <1>1, <1>2, RemovePlaces
<1> HIDE DEF r, k
<1>4. \A i \in 1..Len(r) : r[i] \in C \ {c}
  BY <1>1, <1>2, <1>3
<1>5. ASSUME NEW i \in 1..Len(r), NEW j \in 1..Len(r), r[i] = r[j] PROVE i = j
  <2> DEFINE old(n) == IF n < k THEN n ELSE n + 1
  <2>1. /\ i \in Int /\ j \in Int /\ k \in Int
        /\ old(i) \in 1..Len(q) /\ old(j) \in 1..Len(q)
    BY <1>1, <1>2, <1>3
  <2>2. r[i] = q[old(i)] /\ r[j] = q[old(j)]
    BY <1>1, <1>3
  <2>3. old(i) = old(j)
    <3> HIDE DEF old
    <3> QED
      BY <1>1, <1>5, <2>1, <2>2
  <2> QED
    BY <2>1, <2>3
<1>6. ASSUME NEW x \in C \ {c} PROVE \E i \in 1..Len(r) : r[i] = x
  <2>1. PICK i \in 1..Len(q) : q[i] = x
    BY <1>1
  <2>2. i # k
    BY <1>2, <2>1
  <2>3. CASE i < k
    <3>1. i \in 1..Len(r) /\ r[i] = x
      BY <1>1, <1>2, <1>3, <2>1, <2>3
    <3> QED
      BY <3>1
  <2>4. CASE i > k
    <3>1. i - 1 \in 1..Len(r) /\ r[i - 1] = q[i - 1 + 1] /\ i - 1 + 1 = i
      BY <1>1, <1>2, <1>3, <2>4
    <3> QED
      BY <2>1, <3>1
  <2> QED
    BY <1>1, <1>2, <2>2, <2>3, <2>4
<1>7. Lists(r, C \ {c})
  BY <1>3, <1>4, <1>5, <1>6, PlacesList
<1> QED
  BY <1>7 DEF r, k

\* A window put into a list it is not in.
LEMMA InsertLists ==
    ASSUME NEW q, NEW C, Lists(q, C), NEW k \in 1..(Len(q) + 1), NEW c \in Client, c \notin C
    PROVE  Lists(InsertAt(q, k, c), C \cup {c})
<1> DEFINE r == InsertAt(q, k, c)
<1>1. /\ q \in Seq(Client) /\ Len(q) \in Nat
      /\ \A i \in 1..Len(q) : q[i] \in C
      /\ \A i, j \in 1..Len(q) : q[i] = q[j] => i = j
      /\ \A x \in C : \E i \in 1..Len(q) : q[i] = x
  BY ListsPlaces
<1>2. /\ r \in Seq(Client) /\ Len(r) = Len(q) + 1
      /\ \A i \in 1..(Len(q) + 1) :
           r[i] = IF i < k THEN q[i] ELSE IF i = k THEN c ELSE q[i - 1]
  BY <1>1, InsertPlaces
<1> HIDE DEF r
<1>3. \A i \in 1..Len(r) : i # k => r[i] \in C /\ r[i] # c
  BY <1>1, <1>2
<1>4. r[k] = c /\ k \in 1..Len(r)
  BY <1>1, <1>2
<1>5. ASSUME NEW i \in 1..Len(r), NEW j \in 1..Len(r), r[i] = r[j] PROVE i = j
  <2>1. CASE i = k \/ j = k
    BY <1>3, <1>4, <1>5, <2>1
  <2>2. CASE i # k /\ j # k
    <3>1. \A n \in 1..Len(r) : n < k => n \in 1..Len(q) /\ r[n] = q[n]
      BY <1>1, <1>2
    <3>2. \A n \in 1..Len(r) : n > k => n - 1 \in 1..Len(q) /\ r[n] = q[n - 1]
      BY <1>1, <1>2
    <3>3. i \in Int /\ j \in Int /\ k \in Int
      BY <1>1, <1>2
    <3>4. CASE i < k /\ j < k
      BY <1>1, <1>5, <3>1, <3>4
    <3>5. CASE i < k /\ j > k
      <4>1. i = j - 1
        BY <1>1, <1>5, <3>1, <3>2, <3>5
      <4> QED
        BY <3>3, <3>5, <4>1
    <3>6. CASE i > k /\ j < k
      <4>1. i - 1 = j
        BY <1>1, <1>5, <3>1, <3>2, <3>6
      <4> QED
        BY <3>3, <3>6, <4>1
    <3>7. CASE i > k /\ j > k
      <4>1. i - 1 = j - 1
        BY <1>1, <1>5, <3>2, <3>7
      <4> QED
        BY <3>3, <4>1
    <3> QED
      BY <2>2, <3>3, <3>4, <3>5, <3>6, <3>7
  <2> QED
    BY <2>1, <2>2
<1>6. ASSUME NEW x \in C PROVE \E i \in 1..Len(r) : r[i] = x
  <2>1. PICK i \in 1..Len(q) : q[i] = x
    BY <1>1
  <2>2. CASE i < k
    <3>1. i \in 1..Len(r) /\ r[i] = x
      BY <1>1, <1>2, <2>1, <2>2
    <3> QED
      BY <3>1
  <2>3. CASE i >= k
    <3>1. i + 1 \in 1..Len(r) /\ r[i + 1] = q[i + 1 - 1] /\ i + 1 - 1 = i
      BY <1>1, <1>2, <2>3
    <3> QED
      BY <2>1, <3>1
  <2> QED
    BY <1>1, <2>2, <2>3
<1>7. \A x \in C \cup {c} : \E i \in 1..Len(r) : r[i] = x
  BY <1>4, <1>6
<1>8. \A i \in 1..Len(r) : r[i] \in C \cup {c}
  BY <1>3, <1>4
<1>9. Lists(r, C \cup {c})
  BY <1>2, <1>5, <1>7, <1>8, PlacesList
<1> QED
  BY <1>9 DEF r

\* A window of a list is where Pos finds it.
LEMMA PosOf ==
    ASSUME NEW q, NEW C, Lists(q, C), NEW i \in 1..Len(q)
    PROVE  Pos(q, q[i]) = i
<1>1. q[i] \in C
  BY ListsPlaces
<1>2. Pos(q, q[i]) \in 1..Len(q) /\ q[Pos(q, q[i])] = q[i]
  BY <1>1, PosPlace
<1> QED
  BY <1>2, ListsPlaces

\* The windows of C are in the same order in both lists.
SameOrder(q, r, C) == \A a, b \in C : Pos(q, a) < Pos(q, b) <=> Pos(r, a) < Pos(r, b)

\* The others keep their order when a window is taken out of a list.
LEMMA RemoveOrder ==
    ASSUME NEW q, NEW C, Lists(q, C), NEW c \in C
    PROVE  SameOrder(q, RemoveAt(q, Pos(q, c)), C \ {c})
<1> DEFINE k == Pos(q, c)
           r == RemoveAt(q, k)
<1>1. q \in Seq(Client) /\ Len(q) \in Nat /\ k \in 1..Len(q) /\ q[k] = c
  BY PosPlace, ListsPlaces
<1>2. Lists(r, C \ {c})
  BY RemoveLists
<1>3. /\ Len(r) = Len(q) - 1
      /\ \A i \in 1..(Len(q) - 1) : r[i] = IF i < k THEN q[i] ELSE q[i + 1]
  BY <1>1, RemovePlaces
<1> HIDE DEF k, r
<1>4. ASSUME NEW x \in C \ {c}
      PROVE  /\ Pos(q, x) \in Nat /\ Pos(q, x) # k
             /\ Pos(r, x) = IF Pos(q, x) < k THEN Pos(q, x) ELSE Pos(q, x) - 1
  <2> DEFINE p == Pos(q, x)
             n == IF p < k THEN p ELSE p - 1
  <2>1. p \in 1..Len(q) /\ q[p] = x
    BY PosPlace
  <2> HIDE DEF p
  <2>2. p # k
    BY <1>1, <2>1
  <2>3. n \in 1..Len(r) /\ r[n] = x
    BY <1>1, <1>3, <2>1, <2>2
  <2> HIDE DEF n
  <2>4. Pos(r, x) = n
    BY <1>2, <2>3, PosOf
  <2> QED
    BY <2>1, <2>2, <2>4 DEF n, p
<1>5. ASSUME NEW a \in C \ {c}, NEW b \in C \ {c}
      PROVE  Pos(q, a) < Pos(q, b) <=> Pos(r, a) < Pos(r, b)
  <2>1. /\ Pos(q, a) \in Nat /\ Pos(q, a) # k /\ k \in Nat
        /\ Pos(r, a) = IF Pos(q, a) < k THEN Pos(q, a) ELSE Pos(q, a) - 1
    BY <1>1, <1>4
  <2>2. /\ Pos(q, b) \in Nat /\ Pos(q, b) # k
        /\ Pos(r, b) = IF Pos(q, b) < k THEN Pos(q, b) ELSE Pos(q, b) - 1
    BY <1>4
  <2> QED
    BY <2>1, <2>2
<1> QED
  BY <1>5 DEF SameOrder, r, k

\* And when one is put in.
LEMMA InsertOrder ==
    ASSUME NEW q, NEW C, Lists(q, C), NEW k \in 1..(Len(q) + 1), NEW c \in Client, c \notin C
    PROVE  SameOrder(q, InsertAt(q, k, c), C)
<1> DEFINE r == InsertAt(q, k, c)
<1>1. q \in Seq(Client) /\ Len(q) \in Nat
  BY ListsPlaces
<1>2. Lists(r, C \cup {c})
  BY InsertLists
<1>3. /\ Len(r) = Len(q) + 1
      /\ \A i \in 1..(Len(q) + 1) : r[i] = IF i < k THEN q[i] ELSE IF i = k THEN c ELSE q[i - 1]
  BY <1>1, InsertPlaces
<1> HIDE DEF r
<1>4. ASSUME NEW x \in C
      PROVE  /\ Pos(q, x) \in Nat
             /\ Pos(r, x) = IF Pos(q, x) < k THEN Pos(q, x) ELSE Pos(q, x) + 1
  <2> DEFINE p == Pos(q, x)
             n == IF p < k THEN p ELSE p + 1
  <2>1. p \in 1..Len(q) /\ q[p] = x
    BY PosPlace
  <2> HIDE DEF p
  <2>2. n \in 1..Len(r) /\ r[n] = x
    BY <1>1, <1>3, <2>1
  <2> HIDE DEF n
  <2>3. Pos(r, x) = n
    BY <1>2, <2>2, PosOf
  <2> QED
    BY <2>1, <2>3 DEF n, p
<1>5. ASSUME NEW a \in C, NEW b \in C
      PROVE  Pos(q, a) < Pos(q, b) <=> Pos(r, a) < Pos(r, b)
  <2>1. /\ Pos(q, a) \in Nat /\ k \in Nat
        /\ Pos(r, a) = IF Pos(q, a) < k THEN Pos(q, a) ELSE Pos(q, a) + 1
    BY <1>1, <1>4
  <2>2. /\ Pos(q, b) \in Nat
        /\ Pos(r, b) = IF Pos(q, b) < k THEN Pos(q, b) ELSE Pos(q, b) + 1
    BY <1>4
  <2> QED
    BY <2>1, <2>2
<1> QED
  BY <1>5 DEF SameOrder, r

\* A window put in front of a list.
LEMMA PushLists ==
    ASSUME NEW q, NEW C, Lists(q, C), NEW c \in Client, c \notin C
    PROVE  Lists(<<c>> \o q, C \cup {c})
<1>1. q \in Seq(Client) /\ Len(q) \in Nat
  BY ListsPlaces
<1>2. 1 \in 1..(Len(q) + 1)
  BY <1>1
<1>3. SubSeq(q, 1, 0) = <<>> /\ SubSeq(q, 1, Len(q)) = q
  BY <1>1, SubSeqEmpty, SubSeqFull
<1>4. <<c>> \in Seq(Client) /\ <<>> \o <<c>> = <<c>>
  BY ConcatEmptySeq
<1>5. InsertAt(q, 1, c) = <<c>> \o q
  BY <1>3, <1>4 DEF InsertAt
<1>6. Lists(InsertAt(q, 1, c), C \cup {c})
  BY <1>2, InsertLists
<1> QED
  BY <1>5, <1>6

\* A window of the list brought to its front.
LEMMA RaiseLists ==
    ASSUME NEW q, NEW C, Lists(q, C), NEW c \in C
    PROVE  Lists(<<c>> \o RemoveAt(q, Pos(q, c)), C)
<1>1. c \in Client
  BY ListsPlaces
<1>2. Lists(RemoveAt(q, Pos(q, c)), C \ {c})
  BY RemoveLists
<1>3. Lists(<<c>> \o RemoveAt(q, Pos(q, c)), (C \ {c}) \cup {c})
  BY <1>1, <1>2, PushLists
<1>4. (C \ {c}) \cup {c} = C
  OBVIOUS
<1> QED
  BY <1>3, <1>4

\* Two neighbours that change places.
LEMMA SwapLists ==
    ASSUME NEW q, NEW C, Lists(q, C), NEW i \in 1..Len(q), NEW j \in 1..Len(q)
    PROVE  Lists([[q EXCEPT ![i] = q[j]] EXCEPT ![j] = q[i]], C)
<1> DEFINE p == [q EXCEPT ![i] = q[j]]
           r == [p EXCEPT ![j] = q[i]]
<1>1. /\ q \in Seq(Client) /\ Len(q) \in Nat
      /\ \A k \in 1..Len(q) : q[k] \in C /\ q[k] \in Client
      /\ \A k, l \in 1..Len(q) : q[k] = q[l] => k = l
      /\ \A x \in C : \E k \in 1..Len(q) : q[k] = x
  BY ListsPlaces
<1>2. /\ p \in Seq(Client) /\ Len(p) = Len(q)
      /\ \A k \in 1..Len(q) : p[k] = IF k = i THEN q[j] ELSE q[k]
  BY <1>1, ExceptSeq
<1> HIDE DEF p
<1>3. /\ r \in Seq(Client) /\ Len(r) = Len(q)
      /\ \A k \in 1..Len(q) : r[k] = IF k = j THEN q[i] ELSE p[k]
  BY <1>1, <1>2, ExceptSeq
<1> HIDE DEF r
<1>4. \A k \in 1..Len(q) : r[k] = IF k = j THEN q[i] ELSE IF k = i THEN q[j] ELSE q[k]
  BY <1>2, <1>3
<1>5. \A k \in 1..Len(r) : r[k] \in C
  BY <1>1, <1>3, <1>4
<1>6. \A k, l \in 1..Len(r) : r[k] = r[l] => k = l
  BY <1>1, <1>3, <1>4
<1>7. ASSUME NEW x \in C PROVE \E k \in 1..Len(r) : r[k] = x
  <2>1. PICK k \in 1..Len(q) : q[k] = x
    BY <1>1
  <2>2. CASE k = i
    BY <1>3, <1>4, <2>1, <2>2
  <2>3. CASE k = j
    BY <1>3, <1>4, <2>1, <2>3
  <2>4. CASE k # i /\ k # j
    BY <1>3, <1>4, <2>1, <2>4
  <2> QED
    BY <2>2, <2>3, <2>4
<1>8. Lists(r, C)
  BY <1>3, <1>5, <1>6, <1>7, PlacesList
<1> QED
  BY <1>8 DEF r, p

-----------------------------------------------------------------------------
(* What every handler keeps true of a desk, step by step of the handler.      *)

\* The fields of a desk, and the records that have just these.
Fields == {"owner", "idx", "next", "active", "prev", "lit", "row", "focused", "col",
           "fs_ws", "mon", "full", "float", "clients", "fstack", "kb", "selmon"}
Shaped(t) == t = [f \in Fields |-> t[f]]

\* A desk has these fields.
LEMMA DeskShaped ==
    ASSUME NEW s \in Desk
    PROVE  Shaped(s)
BY DEF Desk, Shaped, Fields

\* A desk has the same fields after workspaces are freed.
LEMMA DestroyShaped ==
    ASSUME NEW s, Shaped(s), NEW W
    PROVE  Shaped(Destroy(s, W))
<1> DEFINE owner == [w \in Ws |-> IF w \in W THEN NoMon ELSE s.owner[w]]
           idx == [w \in Ws |-> IF w \in W THEN 0 ELSE s.idx[w]]
           row == [w \in Ws |-> IF w \in W THEN <<>> ELSE s.row[w]]
           focused == [w \in Ws |-> IF w \in W THEN NoClient ELSE s.focused[w]]
           col == [c \in Client |-> IF s.col[c] \in W THEN NoWs ELSE s.col[c]]
           fs == [c \in Client |-> IF s.fs_ws[c] \in W /\ c \in Mapped(s) THEN NoWs
                                   ELSE s.fs_ws[c]]
           active == [m \in Mon |-> IF s.active[m] \in W \cap Own(s, m) THEN NoWs
                                    ELSE s.active[m]]
           prev == [m \in Mon |-> IF s.prev[m] \in W \cap Own(s, m) THEN NoWs ELSE s.prev[m]]
           t == [s EXCEPT !.owner = owner, !.idx = idx, !.row = row, !.focused = focused,
                          !.col = col, !.fs_ws = fs, !.active = active, !.prev = prev]
<1>1. Destroy(s, W) = t
  BY DEF Destroy
<1> HIDE DEF owner, idx, row, focused, col, fs, active, prev
<1>2. Shaped(t)
  BY DEF Shaped, Fields
<1> QED
  BY <1>1, <1>2

\* And each of them its type.
LEMMA DeskTyped ==
    ASSUME NEW s \in Desk
    PROVE  /\ s.owner \in [Ws -> Mon \cup {NoMon}] /\ s.idx \in [Ws -> Int]
           /\ s.next \in [Mon -> Int] /\ s.active \in [Mon -> Ws \cup {NoWs}]
           /\ s.prev \in [Mon -> Ws \cup {NoWs}] /\ s.lit \in [Mon -> BOOLEAN]
           /\ s.row \in [Ws -> Seq(Client)] /\ s.focused \in [Ws -> Client \cup {NoClient}]
           /\ s.col \in [Client -> Ws \cup {NoWs}] /\ s.fs_ws \in [Client -> Ws \cup {NoWs}]
           /\ s.mon \in [Client -> Mon \cup {NoMon}] /\ s.full \in [Client -> BOOLEAN]
           /\ s.float \in [Client -> BOOLEAN] /\ s.clients \in Seq(Client)
           /\ s.fstack \in Seq(Client) /\ s.kb \in Client \cup {NoClient}
           /\ s.selmon \in Mon \cup {NoMon}
BY DEF Desk

\* A record with these fields and types is a desk.
LEMMA ShapedDesk ==
    ASSUME NEW t, Shaped(t),
           t.owner \in [Ws -> Mon \cup {NoMon}], t.idx \in [Ws -> Int],
           t.next \in [Mon -> Int], t.active \in [Mon -> Ws \cup {NoWs}],
           t.prev \in [Mon -> Ws \cup {NoWs}], t.lit \in [Mon -> BOOLEAN],
           t.row \in [Ws -> Seq(Client)], t.focused \in [Ws -> Client \cup {NoClient}],
           t.col \in [Client -> Ws \cup {NoWs}], t.fs_ws \in [Client -> Ws \cup {NoWs}],
           t.mon \in [Client -> Mon \cup {NoMon}], t.full \in [Client -> BOOLEAN],
           t.float \in [Client -> BOOLEAN], t.clients \in Seq(Client),
           t.fstack \in Seq(Client), t.kb \in Client \cup {NoClient},
           t.selmon \in Mon \cup {NoMon}
    PROVE  t \in Desk
<1>1. t = [owner |-> t.owner, idx |-> t.idx, next |-> t.next, active |-> t.active,
           prev |-> t.prev, lit |-> t.lit, row |-> t.row, focused |-> t.focused,
           col |-> t.col, fs_ws |-> t.fs_ws, mon |-> t.mon, full |-> t.full,
           float |-> t.float, clients |-> t.clients, fstack |-> t.fstack,
           kb |-> t.kb, selmon |-> t.selmon]
  BY DEF Shaped, Fields
<1> QED
  BY <1>1 DEF Desk

\* The lists of windows: the same windows in both, each once.
Orders(s) == Lists(s.clients, Mapped(s)) /\ Lists(s.fstack, Mapped(s))

\* The rows: what RowsAgree says of one desk.
InRow(s, w) == {c \in Client : s.col[c] = w}
RowOK(s, w) == /\ Lists(s.row[w], InRow(s, w))
               /\ InRow(s, w) = {} => s.focused[w] = NoClient
               /\ InRow(s, w) # {} => s.focused[w] \in InRow(s, w)
Rows(s) == \A w \in Ws : RowOK(s, w)

\* The monitors: one of them is selected, and what they show and would return
\* to is theirs.
Shows(s) == /\ s.selmon \in Mon
            /\ \A m \in Mon : /\ s.active[m] \in Own(s, m)
                              /\ s.prev[m] \in Own(s, m) \cup {NoWs}

\* What every operator keeps, whatever monitors there are.
Base(s) == s \in Desk /\ Orders(s) /\ Rows(s)

\* t has the workspaces of s, and the windows of s as they are.
SameLists(s, t) == /\ t.owner = s.owner /\ t.idx = s.idx /\ t.next = s.next
                   /\ t.active = s.active /\ t.prev = s.prev /\ t.lit = s.lit
SamePlaces(s, t) == t.mon = s.mon /\ t.col = s.col /\ t.fs_ws = s.fs_ws
SameKinds(s, t) == t.clients = s.clients /\ t.full = s.full /\ t.float = s.float
SameWindows(s, t) == SamePlaces(s, t) /\ SameKinds(s, t)

\* The keyboard is where it was in s, with a window of t or nowhere.
Keyed(t) == t.kb \in Mapped(t) \cup {NoClient}
Keys(s, t) == t.kb = s.kb \/ Keyed(t)

\* No step leaves a desk without a selected monitor.
Selects(s, t) == s.selmon \in Mon => t.selmon \in Mon

\* Nothing but focus and the order of rows changed; nothing but focus.
Shuffled(s, t) == /\ Base(t) /\ SameLists(s, t) /\ SameWindows(s, t)
                  /\ Keys(s, t) /\ Selects(s, t)
Quiet(s, t) == Shuffled(s, t) /\ t.row = s.row

\* A quiet step after another is quiet.
LEMMA QuietTwice ==
    ASSUME NEW s, NEW t, NEW u, Quiet(s, t), Quiet(t, u)
    PROVE  Quiet(s, u)
BY DEF Quiet, Shuffled, SameLists, SameWindows, SamePlaces, SameKinds, Keys, Keyed, Mapped,
       Selects

\* And so is no step.
LEMMA QuietNot ==
    ASSUME NEW s, Base(s)
    PROVE  Quiet(s, s)
BY DEF Quiet, Shuffled, SameLists, SameWindows, SamePlaces, SameKinds, Keys, Selects

\* The window focustop returns.
LEMMA FocusTopOf ==
    ASSUME NEW s, Base(s), NEW m \in Mon \cup {NoMon}, FocusTop(s, m) # NoClient
    PROVE  /\ FocusTop(s, m) \in Mapped(s) /\ FocusTop(s, m) \in Client
           /\ m \in Mon /\ s.mon[FocusTop(s, m)] = m
<1> DEFINE I == {i \in 1..Len(s.fstack) : m # NoMon /\ s.mon[s.fstack[i]] = m}
<1>1. /\ Len(s.fstack) \in Nat
      /\ \A i \in 1..Len(s.fstack) : s.fstack[i] \in Mapped(s) /\ s.fstack[i] \in Client
  BY ListsPlaces DEF Base, Orders
<1>2. FocusTop(s, m) = IF (IF I # {} THEN Min(I) ELSE 0) = 0 THEN NoClient
                       ELSE s.fstack[IF I # {} THEN Min(I) ELSE 0]
  BY DEF FocusTop, First, SelectInSeq
<1>3. I # {}
  BY <1>2
<1>4. Min(I) \in I
  <2>1. I \in SUBSET Nat
    BY <1>1
  <2>2. \E x \in I : \A y \in I : x <= y
    BY <1>3, <2>1, LeastNatural
  <2> QED
    BY <2>2 DEF Min
<1>5. FocusTop(s, m) = s.fstack[Min(I)]
  BY <1>2, <1>3
<1> QED
  BY <1>1, <1>4, <1>5

\* The window fullscreen_visible_on returns.
LEMMA FullscreenIn ==
    ASSUME NEW s, Orders(s), NEW m \in Mon \cup {NoMon}, FullscreenOn(s, m) # NoClient
    PROVE  /\ FullscreenOn(s, m) \in Mapped(s) /\ FullscreenOn(s, m) \in Client
           /\ m \in Mon /\ s.mon[FullscreenOn(s, m)] = m /\ s.full[FullscreenOn(s, m)]
<1> DEFINE T(c) == /\ m # NoMon /\ s.full[c] /\ s.mon[c] = m
                   /\ s.fs_ws[c] \in {NoWs, s.active[m]}
           I == {i \in 1..Len(s.clients) : T(s.clients[i])}
<1>1. /\ Len(s.clients) \in Nat
      /\ \A i \in 1..Len(s.clients) : s.clients[i] \in Mapped(s) /\ s.clients[i] \in Client
  BY ListsPlaces DEF Orders
<1>2. FullscreenOn(s, m) = IF (IF I # {} THEN Min(I) ELSE 0) = 0 THEN NoClient
                           ELSE s.clients[IF I # {} THEN Min(I) ELSE 0]
  BY DEF FullscreenOn, First, SelectInSeq
<1>3. I # {}
  BY <1>2
<1>4. Min(I) \in I
  <2>1. I \in SUBSET Nat
    BY <1>1
  <2>2. \E x \in I : \A y \in I : x <= y
    BY <1>3, <2>1, LeastNatural
  <2> QED
    BY <2>2 DEF Min
<1>5. FullscreenOn(s, m) = s.clients[Min(I)]
  BY <1>2, <1>3
<1> QED
  BY <1>1, <1>4, <1>5

LEMMA FullscreenOf ==
    ASSUME NEW s, Base(s), NEW m \in Mon \cup {NoMon}, FullscreenOn(s, m) # NoClient
    PROVE  /\ FullscreenOn(s, m) \in Mapped(s) /\ FullscreenOn(s, m) \in Client
           /\ m \in Mon /\ s.mon[FullscreenOn(s, m)] = m /\ s.full[FullscreenOn(s, m)]
BY FullscreenIn DEF Base

\* Another focused column, another window in front of the focus stack, another
\* selected monitor and another holder of the keyboard: all a quiet step may do
\* to the desk, given that they are columns, windows and monitors.
LEMMA FocusMoved ==
    ASSUME NEW s, Base(s), NEW t, Shaped(t), SameLists(s, t), SameWindows(s, t), Keys(s, t),
           t.row = s.row, t.focused \in [Ws -> Client \cup {NoClient}],
           \A w \in Ws : t.focused[w] # s.focused[w] => t.focused[w] \in InRow(s, w),
           Lists(t.fstack, Mapped(s)), t.kb \in Client \cup {NoClient},
           t.selmon \in Mon \cup {NoMon}, Selects(s, t)
    PROVE  Quiet(s, t)
<1>1. t \in Desk
  <2>1. t.fstack \in Seq(Client)
    BY DEF Lists
  <2> QED
    BY <2>1, DeskTyped, ShapedDesk DEF Base, SameLists, SameWindows, SamePlaces, SameKinds
<1>2. Orders(t)
  BY DEF Base, Orders, SameWindows, SameKinds, Mapped
<1>3. ASSUME NEW w \in Ws PROVE RowOK(t, w)
  <2>1. InRow(t, w) = InRow(s, w)
    BY DEF InRow, SameWindows, SamePlaces
  <2>2. RowOK(s, w)
    BY DEF Base, Rows
  <2> QED
    BY <2>1, <2>2 DEF RowOK
<1> QED
  BY <1>1, <1>2, <1>3 DEF Quiet, Shuffled, Base, Rows

\* The part of focusclient before its arrange.
LEMMA RaiseQuiet ==
    ASSUME NEW s, Base(s), NEW c \in Mapped(s), s.mon[c] \in Mon
    PROVE  Quiet(s, Raise(s, c)) /\ Raise(s, c).kb = s.kb
<1> DEFINE t == Raise(s, c)
<1>1. s \in Desk /\ Shaped(s)
  BY DeskShaped DEF Base
<1>2. Shaped(t)
  BY <1>1 DEF Raise, Shaped, Fields
<1>3. SameLists(s, t) /\ SameWindows(s, t) /\ t.row = s.row /\ t.kb = s.kb /\ t.selmon = s.mon[c]
  BY <1>1 DEF Raise, Desk, SameLists, SameWindows, SamePlaces, SameKinds
<1>4. /\ t.fstack = <<c>> \o RemoveAt(s.fstack, Pos(s.fstack, c))
      /\ t.focused = IF s.col[c] = NoWs THEN s.focused ELSE [s.focused EXCEPT ![s.col[c]] = c]
  BY <1>1 DEF Raise, Desk
<1> HIDE DEF t
<1>5. Lists(t.fstack, Mapped(s))
  BY <1>4, RaiseLists DEF Base, Orders
<1>6. c \in Client
  BY ListsPlaces DEF Base, Orders
<1>7. /\ t.focused \in [Ws -> Client \cup {NoClient}]
      /\ \A w \in Ws : t.focused[w] # s.focused[w] => t.focused[w] \in InRow(s, w)
  BY <1>1, <1>4, <1>6, DeskTyped DEF InRow
<1>8. Keys(s, t) /\ Selects(s, t)
  BY <1>3 DEF Keys, Selects
<1>9. Quiet(s, t)
  BY <1>1, <1>2, <1>3, <1>5, <1>7, <1>8, FocusMoved, DeskTyped
<1> QED
  BY <1>3, <1>9 DEF t

\* The keyboard given to a window, or to none.
LEMMA KeyboardQuiet ==
    ASSUME NEW s, Base(s), NEW c \in Mapped(s) \cup {NoClient}
    PROVE  Quiet(s, [s EXCEPT !.kb = c]) /\ Keyed([s EXCEPT !.kb = c])
<1> DEFINE t == [s EXCEPT !.kb = c]
<1>1. s \in Desk /\ Shaped(s)
  BY DeskShaped DEF Base
<1>2. Shaped(t)
  BY <1>1 DEF Shaped, Fields
<1>3. /\ SameLists(s, t) /\ SameWindows(s, t) /\ t.row = s.row /\ t.focused = s.focused
      /\ t.fstack = s.fstack /\ t.selmon = s.selmon /\ t.kb = c
  BY <1>1 DEF Desk, SameLists, SameWindows, SamePlaces, SameKinds
<1> HIDE DEF t
<1>4. c \in Client \cup {NoClient}
  BY ListsPlaces DEF Base, Orders
<1>5. Keyed(t)
  BY <1>3 DEF Keyed, SameWindows, SameKinds, Mapped
<1>6. Lists(t.fstack, Mapped(s)) /\ t.selmon \in Mon \cup {NoMon} /\ Selects(s, t)
  BY <1>1, <1>3, DeskTyped DEF Base, Orders, Selects
<1>7. Quiet(s, t)
  BY <1>1, <1>2, <1>3, <1>4, <1>5, <1>6, FocusMoved, DeskTyped DEF Keys
<1> QED
  BY <1>5, <1>7 DEF t

\* The visible fullscreen window takes the keyboard.
LEMMA TakeKeyboardQuiet ==
    ASSUME NEW s, Base(s), NEW f \in Mapped(s) \cup {NoClient},
           f # NoClient => s.mon[f] \in Mon
    PROVE  Quiet(s, TakeKeyboard(s, f))
<1>1. CASE f \in {NoClient, s.kb}
  BY <1>1, QuietNot DEF TakeKeyboard
<1>2. CASE f \notin {NoClient, s.kb}
  <2>1. Quiet(s, Raise(s, f))
    BY <1>2, RaiseQuiet
  <2>2. Base(Raise(s, f)) /\ Mapped(Raise(s, f)) = Mapped(s)
    BY <2>1 DEF Quiet, Shuffled, SameWindows, SameKinds, Mapped
  <2>3. Quiet(Raise(s, f), [Raise(s, f) EXCEPT !.kb = f])
    BY <2>2, KeyboardQuiet
  <2>4. Quiet(s, [Raise(s, f) EXCEPT !.kb = f])
    BY <2>1, <2>3, QuietTwice
  <2> QED
    BY <1>2, <2>4 DEF TakeKeyboard
<1> QED
  BY <1>1, <1>2

\* arrange
LEMMA ArrangeQuiet ==
    ASSUME NEW s, Base(s), NEW m \in Mon \cup {NoMon}
    PROVE  Quiet(s, Arrange(s, m))
<1>1. Quiet(s, TakeKeyboard(s, FullscreenOn(s, m)))
  BY FullscreenOf, TakeKeyboardQuiet
<1> QED
  BY <1>1, QuietNot DEF Arrange

\* A window with a monitor has one of the monitors.
LEMMA MonOf ==
    ASSUME NEW s, Base(s), NEW c \in Client
    PROVE  s.mon[c] \in Mon \cup {NoMon} /\ NoMon \notin Mon
BY DeskTyped DEF Base, Mon, NoMon

\* Listed windows are windows.
LEMMA MappedOf ==
    ASSUME NEW s, Base(s)
    PROVE  \A c \in Mapped(s) : c \in Client
BY ListsPlaces DEF Base, Orders

\* focusclient: the window it is called for has the keyboard afterwards.
LEMMA FocusQuiet ==
    ASSUME NEW s, Base(s), NEW c \in Mapped(s) \cup {NoClient}
    PROVE  /\ Quiet(s, Focus(s, c))
           /\ c = NoClient \/ s.mon[c] # NoMon => Focus(s, c).kb = c
<1>1. CASE c = NoClient
  <2>1. Focus(s, c) = [s EXCEPT !.kb = NoClient]
    BY <1>1 DEF Focus
  <2>2. [s EXCEPT !.kb = NoClient].kb = NoClient
    BY DEF Base, Desk
  <2> QED
    BY <1>1, <2>1, <2>2, KeyboardQuiet
<1>2. CASE c # NoClient /\ (s.mon[c] = NoMon \/ s.kb = c)
  <2>1. Focus(s, c) = s
    BY <1>2 DEF Focus
  <2> QED
    BY <1>2, <2>1, QuietNot
<1>3. CASE c # NoClient /\ s.mon[c] # NoMon /\ s.kb # c
  <2> DEFINE n == IF s.col[c] # NoWs /\ s.focused[s.col[c]] # c THEN s.mon[c] ELSE NoMon
             r == Raise(s, c)
             a == Arrange(r, n)
             t == [a EXCEPT !.kb = c]
  <2>1. c \in Mapped(s) /\ s.mon[c] \in Mon
    BY <1>3, MappedOf, MonOf
  <2>2. n \in Mon \cup {NoMon}
    BY <2>1
  <2>3. Focus(s, c) = t
    BY <1>3 DEF Focus
  <2> HIDE DEF n
  <2>4. Quiet(s, r)
    BY <2>1, RaiseQuiet
  <2> HIDE DEF r
  <2>5. Quiet(r, a)
    BY <2>2, <2>4, ArrangeQuiet DEF Quiet, Shuffled
  <2> HIDE DEF a
  <2>6. Quiet(s, a)
    BY <2>4, <2>5, QuietTwice
  <2>7. Base(a) /\ c \in Mapped(a)
    BY <2>1, <2>6 DEF Quiet, Shuffled, SameWindows, SameKinds, Mapped
  <2>8. Quiet(a, t)
    BY <2>7, KeyboardQuiet
  <2>9. t.kb = c
    BY <2>7 DEF Base, Desk
  <2>10. Quiet(s, t)
    BY <2>6, <2>8, QuietTwice
  <2> QED
    BY <2>3, <2>9, <2>10
<1> QED
  BY <1>1, <1>2, <1>3

\* focusclient(focustop(selmon))
LEMMA FocusMostRecentQuiet ==
    ASSUME NEW s, Base(s)
    PROVE  Quiet(s, FocusMostRecent(s)) /\ Keyed(FocusMostRecent(s))
<1> DEFINE c == FocusTop(s, s.selmon)
<1>1. s.selmon \in Mon \cup {NoMon}
  BY DeskTyped DEF Base
<1>2. c # NoClient => c \in Mapped(s) /\ s.mon[c] = s.selmon /\ s.selmon \in Mon
  BY <1>1, FocusTopOf
<1>3. Quiet(s, Focus(s, c)) /\ Focus(s, c).kb = c
  <2>1. c \in Mapped(s) \cup {NoClient}
    BY <1>2
  <2>2. c = NoClient \/ s.mon[c] # NoMon
    BY <1>1, <1>2 DEF Mon, NoMon
  <2> HIDE DEF c
  <2> QED
    BY <2>1, <2>2, FocusQuiet
<1>4. Mapped(Focus(s, c)) = Mapped(s)
  BY <1>3 DEF Quiet, Shuffled, SameWindows, SameKinds, Mapped
<1> QED
  BY <1>2, <1>3, <1>4 DEF FocusMostRecent, Keyed

\* A window that is raised selects its monitor.
LEMMA RaiseSel ==
    ASSUME NEW s \in Desk, NEW c
    PROVE  Raise(s, c).selmon = s.mon[c]
BY DEF Raise, Desk

\* The keyboard alone selects none.
LEMMA KeyboardSel ==
    ASSUME NEW s \in Desk, NEW c
    PROVE  [s EXCEPT !.kb = c].selmon = s.selmon
BY DEF Desk

\* arrange selects no other monitor.
LEMMA ArrangeSel ==
    ASSUME NEW s, Base(s), NEW m \in Mon \cup {NoMon}
    PROVE  Arrange(s, m).selmon = s.selmon
<1> DEFINE f == FullscreenOn(s, m)
<1>1. CASE m # NoMon /\ s.lit[m] /\ m = s.selmon /\ f \notin {NoClient, s.kb}
  <2>1. f \in Mapped(s) /\ s.mon[f] = m /\ m \in Mon
    BY <1>1, FullscreenOf
  <2>2. Arrange(s, m) = [Raise(s, f) EXCEPT !.kb = f]
    BY <1>1 DEF Arrange, TakeKeyboard
  <2>3. Base(Raise(s, f))
    BY <2>1, RaiseQuiet DEF Quiet, Shuffled
  <2> HIDE DEF f
  <2> QED
    BY <1>1, <2>1, <2>2, <2>3, RaiseSel, KeyboardSel DEF Base
<1>2. CASE ~ (m # NoMon /\ s.lit[m] /\ m = s.selmon /\ f \notin {NoClient, s.kb})
  BY <1>2 DEF Arrange, TakeKeyboard
<1> QED
  BY <1>1, <1>2

\* focusclient selects the monitor of the window or none.
LEMMA FocusSel ==
    ASSUME NEW s, Base(s), NEW c \in Mapped(s) \cup {NoClient}
    PROVE  \/ Focus(s, c).selmon = s.selmon
           \/ /\ c \in Mapped(s) /\ s.mon[c] \in Mon
              /\ Focus(s, c).selmon = s.mon[c]
<1> DEFINE m == IF s.col[c] # NoWs /\ s.focused[s.col[c]] # c THEN s.mon[c] ELSE NoMon
           r == Raise(s, c)
           a == Arrange(r, m)
<1>1. CASE c = NoClient
  BY <1>1, KeyboardSel DEF Focus, Base
<1>2. CASE c # NoClient /\ (s.mon[c] = NoMon \/ s.kb = c)
  BY <1>2 DEF Focus
<1>3. CASE c # NoClient /\ s.mon[c] # NoMon /\ s.kb # c
  <2>1. c \in Mapped(s) /\ c \in Client /\ s.mon[c] \in Mon
    BY <1>3, MappedOf, MonOf
  <2>2. Focus(s, c) = [a EXCEPT !.kb = c]
    BY <1>3 DEF Focus
  <2>3. Base(r) /\ r.selmon = s.mon[c]
    BY <2>1, RaiseQuiet, RaiseSel DEF Quiet, Shuffled, Base
  <2>4. m \in Mon \cup {NoMon}
    BY <2>1
  <2> HIDE DEF m, r
  <2>5. Base(a) /\ a.selmon = r.selmon
    BY <2>3, <2>4, ArrangeQuiet, ArrangeSel DEF Quiet, Shuffled
  <2> HIDE DEF a
  <2>6. Focus(s, c).selmon = a.selmon
    BY <2>2, <2>5, KeyboardSel DEF Base
  <2> QED
    BY <2>1, <2>3, <2>5, <2>6
<1> QED
  BY <1>1, <1>2, <1>3

\* Focusing the most recent window of the selected monitor selects no other.
LEMMA FocusMostRecentSel ==
    ASSUME NEW s, Base(s)
    PROVE  FocusMostRecent(s).selmon = s.selmon
<1> DEFINE c == FocusTop(s, s.selmon)
<1>1. s.selmon \in Mon \cup {NoMon}
  BY DeskTyped DEF Base
<1>2. c # NoClient => c \in Mapped(s) /\ s.mon[c] = s.selmon
  BY <1>1, FocusTopOf
<1>3. NoClient \notin Mapped(s)
  BY MappedOf, NullAssumption
<1>4. FocusMostRecent(s) = Focus(s, c)
  BY DEF FocusMostRecent
<1> HIDE DEF c
<1> QED
  BY <1>2, <1>3, <1>4, FocusSel

\* A change of focus selects the monitor of a window, or none.
Chosen(s, t) == t.selmon \in {s.selmon} \cup {s.mon[c] : c \in Mapped(s)}

\* A monitor shows a workspace, whose columns are windows of the list; of that
\* monitor.
RowSeen(s, m) == /\ s.active[m] \in Ws
                 /\ \A c \in Client : s.col[c] = s.active[m] => c \in Mapped(s)
RowHere(s, m) == /\ RowSeen(s, m)
                 /\ \A c \in Client : s.col[c] = s.active[m] => s.mon[c] = m

\* One of these columns becomes the focused one.
LEMMA ColumnQuiet ==
    ASSUME NEW s, Base(s), NEW w \in Ws, NEW c \in InRow(s, w)
    PROVE  Quiet(s, [s EXCEPT !.focused[w] = c])
<1> DEFINE t == [s EXCEPT !.focused[w] = c]
<1>1. s \in Desk /\ Shaped(s)
  BY DeskShaped DEF Base
<1>2. Shaped(t)
  BY <1>1 DEF Shaped, Fields
<1>3. /\ SameLists(s, t) /\ SameWindows(s, t) /\ t.row = s.row
      /\ t.focused = [s.focused EXCEPT ![w] = c]
      /\ t.fstack = s.fstack /\ t.selmon = s.selmon /\ t.kb = s.kb
  BY <1>1 DEF Desk, SameLists, SameWindows, SamePlaces, SameKinds
<1> HIDE DEF t
<1>4. c \in Client
  BY DEF InRow
<1>5. /\ t.focused \in [Ws -> Client \cup {NoClient}]
      /\ \A v \in Ws : t.focused[v] # s.focused[v] => t.focused[v] \in InRow(s, v)
  BY <1>1, <1>3, <1>4, DeskTyped
<1>6. /\ Lists(t.fstack, Mapped(s)) /\ t.selmon \in Mon \cup {NoMon}
      /\ t.kb \in Client \cup {NoClient} /\ Selects(s, t)
  BY <1>1, <1>3, DeskTyped DEF Base, Orders, Selects
<1>7. Quiet(s, t)
  BY <1>2, <1>3, <1>5, <1>6, FocusMoved DEF Keys
<1> QED
  BY <1>7 DEF t

\* Whoever holds the keyboard after focus_first_in_workspace is on the workspace
\* the monitor shows.
KeyHere(s, m) == s.kb # NoClient => /\ s.kb \in Mapped(s) /\ s.mon[s.kb] = m
                                    /\ \/ s.col[s.kb] = s.active[m]
                                       \/ (s.full[s.kb] /\ s.fs_ws[s.kb] = s.active[m])

\* focus_first_in_workspace
LEMMA FocusFirstQuiet ==
    ASSUME NEW s, Base(s), NEW m \in Mon, RowSeen(s, m)
    PROVE  /\ Quiet(s, FocusFirst(s, m)) /\ Chosen(s, FocusFirst(s, m))
           /\ RowHere(s, m) => KeyHere(FocusFirst(s, m), m)
<1> DEFINE w == s.active[m]
           f == FullscreenOn(s, m)
           tile == IF s.focused[w] # NoClient THEN s.focused[w] ELSE Head(s.row[w])
           tiled == s.row[w] # <<>> /\ (f = NoClient \/ s.fs_ws[f] # w)
           u == [s EXCEPT !.focused[w] = tile]
           c == IF tiled THEN tile ELSE IF f # NoClient /\ s.fs_ws[f] = w THEN f ELSE NoClient
           t == Focus(IF tiled THEN u ELSE s, c)
<1>1. t = FocusFirst(s, m)
  BY DEF FocusFirst
<1>2. w \in Ws /\ RowOK(s, w)
  BY DEF Base, Rows, RowSeen
<1>3. tiled => tile \in InRow(s, w)
  <2>1. s.row[w] # <<>> => InRow(s, w) # {} /\ Head(s.row[w]) \in InRow(s, w)
    BY <1>2, EmptyLists, EndsListed DEF RowOK
  <2> QED
    BY <1>2, <2>1 DEF RowOK
<1>4. f # NoClient => f \in Mapped(s) /\ s.mon[f] = m /\ s.full[f]
  BY FullscreenOf
<1>5. tiled => /\ tile \in Mapped(s) /\ s.col[tile] = w
               /\ RowHere(s, m) => s.mon[tile] = m
  BY <1>3 DEF InRow, RowSeen, RowHere
<1>6. /\ Quiet(s, IF tiled THEN u ELSE s)
  BY <1>2, <1>3, ColumnQuiet, QuietNot
<1>7. c # NoClient => /\ c \in Mapped(s) /\ (RowHere(s, m) => s.mon[c] = m)
                      /\ s.col[c] = w \/ (s.full[c] /\ s.fs_ws[c] = w)
  BY <1>4, <1>5
<1> DEFINE v == IF tiled THEN u ELSE s
<1>8. t = Focus(v, c)
  OBVIOUS
<1>9. Quiet(s, v)
  BY <1>6
<1>9a. v.selmon = s.selmon
  BY DEF Base, Desk
<1> HIDE DEF v, c, t, f, tile, tiled, u
<1>10. /\ c \in Mapped(v) \cup {NoClient}
       /\ RowHere(s, m) /\ c # NoClient => v.mon[c] # NoMon
  BY <1>7, <1>9 DEF Quiet, Shuffled, SameWindows, SameKinds, SamePlaces, Mapped, Mon, NoMon
<1>11. Quiet(v, t) /\ (RowHere(s, m) => t.kb = c)
  BY <1>8, <1>9, <1>10, FocusQuiet DEF Quiet, Shuffled
<1>12. Quiet(s, t)
  BY <1>9, <1>11, QuietTwice
<1>12a. Chosen(s, t)
  <2>1. Mapped(v) = Mapped(s) /\ v.mon = s.mon
    BY <1>9 DEF Quiet, Shuffled, SameWindows, SameKinds, SamePlaces, Mapped
  <2>2. Base(v)
    BY <1>9 DEF Quiet, Shuffled
  <2> QED
    BY <1>8, <1>9a, <1>10, <2>1, <2>2, FocusSel DEF Chosen
<1>13. ASSUME RowHere(s, m) PROVE KeyHere(t, m)
  BY <1>7, <1>11, <1>12, <1>13
     DEF KeyHere, Quiet, Shuffled, SameWindows, SameKinds, SamePlaces, SameLists, Mapped
<1> QED
  BY <1>1, <1>12, <1>12a, <1>13

\* The focus after a window closed.
LEMMA FocusHereQuiet ==
    ASSUME NEW s, Base(s), NEW m \in Mon, RowSeen(s, m)
    PROVE  /\ Quiet(s, FocusHere(s, m)) /\ Chosen(s, FocusHere(s, m))
           /\ RowHere(s, m) => Keyed(FocusHere(s, m))
<1> DEFINE w == s.active[m]
           n == s.focused[w]
           c == IF n # NoClient THEN n ELSE FocusTop(s, s.selmon)
<1>1. w \in Ws /\ RowOK(s, w) /\ s.selmon \in Mon \cup {NoMon}
  BY DeskTyped DEF Base, Rows, RowSeen
<1>2. n # NoClient => n \in Mapped(s) /\ (RowHere(s, m) => s.mon[n] = m)
  BY <1>1 DEF RowOK, InRow, RowSeen, RowHere
<1>3. FocusTop(s, s.selmon) # NoClient =>
        /\ FocusTop(s, s.selmon) \in Mapped(s)
        /\ s.mon[FocusTop(s, s.selmon)] \in Mon
  BY <1>1, FocusTopOf
<1>4. c \in Mapped(s) \cup {NoClient} /\ (RowHere(s, m) /\ c # NoClient => s.mon[c] \in Mon)
  BY <1>1, <1>2, <1>3
<1>5. FocusHere(s, m) = Focus(s, c)
  BY DEF FocusHere
<1> HIDE DEF c
<1>6. RowHere(s, m) => c = NoClient \/ s.mon[c] # NoMon
  BY <1>4 DEF Mon, NoMon
<1>7. Quiet(s, Focus(s, c)) /\ (RowHere(s, m) => Focus(s, c).kb = c)
  BY <1>4, <1>6, FocusQuiet
<1>8. RowHere(s, m) => Keyed(Focus(s, c))
  BY <1>4, <1>7 DEF Quiet, Shuffled, Keyed, SameWindows, SameKinds, Mapped
<1>9. Chosen(s, Focus(s, c))
  BY <1>4, FocusSel DEF Chosen
<1> QED
  BY <1>5, <1>7, <1>8, <1>9

-----------------------------------------------------------------------------
(* Windows that change their row or their flags. *)

\* The tiles of C that stay in their row keep their order in it.
Ordered(s, t, C) ==
    \A a, b \in C : /\ s.col[a] # NoWs /\ s.col[a] = s.col[b]
                    /\ t.col[a] = s.col[a] /\ t.col[b] = s.col[b]
                   => (Before(s, a, b) <=> Before(t, a, b))

\* They do when no row changes.
LEMMA SameRowsOrdered ==
    ASSUME NEW s, NEW t, NEW C, t.row = s.row
    PROVE  Ordered(s, t, C)
BY DEF Ordered, Before

\* The order is kept over two steps if no tile leaves its row and comes back.
LEMMA OrderedTwice ==
    ASSUME NEW s, NEW t, NEW u, NEW C, Ordered(s, t, C), Ordered(t, u, C),
           \A x \in C : u.col[x] = s.col[x] => t.col[x] = s.col[x]
    PROVE  Ordered(s, u, C)
BY DEF Ordered

\* One that leaves its row, or was in none, does not count.
LEMMA OrderedBut ==
    ASSUME NEW s, NEW t, NEW C, NEW c, Ordered(s, t, C \ {c}),
           s.col[c] = NoWs \/ t.col[c] # s.col[c]
    PROVE  Ordered(s, t, C)
BY DEF Ordered

\* From s to t window c moves to workspace w, or out of its row.
Moves(s, t, c, w) ==
    /\ Base(t) /\ SameLists(s, t) /\ SameKinds(s, t) /\ Keys(s, t)
    /\ t.mon = s.mon /\ t.fs_ws = s.fs_ws /\ t.col = [s.col EXCEPT ![c] = w]
    /\ t.selmon = s.selmon
    /\ Ordered(s, t, Client \ {c}) /\ (s.col[c] = w => t.row = s.row)

\* Two desks with the same lists, rows and monitors are as good as each other.
LEMMA BaseKept ==
    ASSUME NEW s, Base(s), NEW t \in Desk, SameLists(s, t), t.clients = s.clients,
           t.fstack = s.fstack, t.row = s.row, t.focused = s.focused, t.col = s.col
    PROVE  Base(t)
<1>1. Orders(t)
  BY DEF Base, Orders, Mapped
<1>2. ASSUME NEW w \in Ws PROVE RowOK(t, w)
  <2>1. InRow(t, w) = InRow(s, w)
    BY DEF InRow
  <2>2. RowOK(s, w)
    BY DEF Base, Rows
  <2> QED
    BY <2>1, <2>2 DEF RowOK
<1> QED
  BY <1>1, <1>2 DEF Base, Rows

\* One row changed, by one window that leaves it or joins it.
LEMMA RowChanged ==
    ASSUME NEW s, Base(s), NEW t, Shaped(t), NEW w \in Ws, NEW c \in Client,
           NEW v \in Ws \cup {NoWs}, NEW r, NEW f,
           v # s.col[c], v # NoWs => v = w, s.col[c] # NoWs => s.col[c] = w,
           SameLists(s, t), SameKinds(s, t), t.fstack = s.fstack, t.kb = s.kb,
           t.selmon = s.selmon, t.mon = s.mon, t.fs_ws = s.fs_ws,
           t.col = [s.col EXCEPT ![c] = v],
           t.row = [s.row EXCEPT ![w] = r], t.focused = [s.focused EXCEPT ![w] = f],
           Lists(r, InRow(t, w)), r = <<>> => f = NoClient, r # <<>> => f \in InRow(t, w),
           SameOrder(s.row[w], r, InRow(s, w) \ {c})
    PROVE  Moves(s, t, c, v)
<1>1. s \in Desk /\ NoWs \notin Ws
  BY NullAssumption DEF Base
<1>2. Ordered(s, t, Client \ {c})
  <2>1. ASSUME NEW a \in Client \ {c}, NEW b \in Client \ {c},
               s.col[a] # NoWs, s.col[a] = s.col[b], t.col[a] = s.col[a]
        PROVE  Before(s, a, b) <=> Before(t, a, b)
    <3>1. s.row \in [Ws -> Seq(Client)] /\ s.col[a] \in Ws
      BY <1>1, <2>1, DeskTyped
    <3>2. CASE s.col[a] = w
      <4>1. t.row[w] = r
        BY <3>1
      <4>2. a \in InRow(s, w) \ {c} /\ b \in InRow(s, w) \ {c}
        BY <2>1, <3>2 DEF InRow
      <4>3. Pos(s.row[w], a) < Pos(s.row[w], b) <=> Pos(r, a) < Pos(r, b)
        BY <4>2 DEF SameOrder
      <4> QED
        BY <2>1, <3>2, <4>1, <4>3 DEF Before
    <3>3. CASE s.col[a] # w
      <4>1. t.row[s.col[a]] = s.row[s.col[a]]
        BY <3>1, <3>3
      <4> QED
        BY <2>1, <4>1 DEF Before
    <3> QED
      BY <3>2, <3>3
  <2> QED
    BY <2>1 DEF Ordered
<1> DEFINE In == InRow(t, w)
<1>3. ASSUME NEW x \in Ws, x # w PROVE InRow(t, x) = InRow(s, x)
  BY <1>1, <1>3, DeskTyped DEF InRow
<1>4. ASSUME NEW x \in Ws PROVE RowOK(t, x)
  <2>1. CASE x = w
    <3>1. t.row[w] = r /\ t.focused[w] = f
      BY <1>1, DeskTyped
    <3>2. r = <<>> <=> In = {}
      BY EmptyLists
    <3> QED
      BY <2>1, <3>1, <3>2 DEF RowOK
  <2>2. CASE x # w
    <3>1. t.row[x] = s.row[x] /\ t.focused[x] = s.focused[x]
      BY <1>1, <2>2, DeskTyped
    <3>2. RowOK(s, x)
      BY DEF Base, Rows
    <3> QED
      BY <1>3, <2>2, <3>1, <3>2 DEF RowOK
  <2> QED
    BY <2>1, <2>2
<1>5. t \in Desk
  <2>1. r \in Seq(Client) /\ f \in Client \cup {NoClient}
    BY DEF Lists, InRow
  <2>2. /\ t.row \in [Ws -> Seq(Client)] /\ t.focused \in [Ws -> Client \cup {NoClient}]
        /\ t.col \in [Client -> Ws \cup {NoWs}]
    BY <1>1, <2>1, DeskTyped
  <2> QED
    BY <1>1, <2>2, DeskTyped, ShapedDesk DEF SameLists, SameKinds
<1>6. Orders(t)
  BY DEF Base, Orders, SameKinds, Mapped
<1> QED
  BY <1>2, <1>4, <1>5, <1>6 DEF Moves, Base, Rows, Keys

\* workspace_detach_client
LEMMA DetachMoves ==
    ASSUME NEW s, Base(s), NEW c \in Client
    PROVE  Moves(s, Detach(s, c), c, NoWs) /\ Detach(s, c).kb = s.kb
<1>1. s \in Desk /\ Shaped(s)
  BY DeskShaped DEF Base
<1>2. CASE s.col[c] = NoWs
  <2>1. Detach(s, c) = s
    BY <1>2 DEF Detach
  <2>2. s.col = [s.col EXCEPT ![c] = NoWs]
    BY <1>1, <1>2, DeskTyped
  <2>3. Ordered(s, s, Client \ {c})
    BY SameRowsOrdered
  <2> QED
    BY <2>1, <2>2, <2>3 DEF Moves, SameLists, SameKinds, Keys
<1>3. CASE s.col[c] # NoWs
  <2> DEFINE w == s.col[c]
             r == s.row[w]
             i == Pos(r, c)
             C == InRow(s, w)
             heir == IF i > 1 THEN r[i - 1] ELSE IF Len(r) > 1 THEN r[2] ELSE NoClient
             left == RemoveAt(r, i)
             f == IF s.focused[w] = c THEN heir ELSE s.focused[w]
             t == Detach(s, c)
  <2>1. w \in Ws /\ c \in C /\ RowOK(s, w)
    BY <1>1, <1>3, DeskTyped DEF InRow, Base, Rows
  <2>2. /\ Lists(r, C) /\ Lists(left, C \ {c}) /\ i \in 1..Len(r) /\ r[i] = c /\ Len(r) \in Nat
        /\ \A j, k \in 1..Len(r) : r[j] = r[k] => j = k
        /\ \A j \in 1..Len(r) : r[j] \in C
    <3>1. Lists(r, C)
      BY <2>1 DEF RowOK
    <3>2. Lists(left, C \ {c})
      BY <2>1, <3>1, RemoveLists
    <3>3. i \in 1..Len(r) /\ r[i] = c
      BY <2>1, <3>1, PosPlace
    <3> HIDE DEF left, i, r, C
    <3> QED
      BY <3>1, <3>2, <3>3, ListsPlaces
  <2>3. left = <<>> <=> C \ {c} = {}
    BY <2>2, EmptyLists
  <2>4. Shaped(t)
    BY <1>1, <1>3 DEF Detach, Shaped, Fields
  <2>5. /\ SameLists(s, t) /\ SameKinds(s, t) /\ t.fstack = s.fstack /\ t.kb = s.kb
        /\ t.selmon = s.selmon /\ t.mon = s.mon /\ t.fs_ws = s.fs_ws
        /\ t.col = [s.col EXCEPT ![c] = NoWs]
    <3> HIDE DEF heir, left
    <3>1. t = [s EXCEPT !.row[w] = left, !.focused[w] = IF @ = c THEN heir ELSE @,
                        !.col[c] = NoWs]
      BY <1>3 DEF Detach, heir, left
    <3> HIDE DEF t
    <3>2. SameLists(s, t) /\ SameKinds(s, t)
      BY <1>1, <3>1 DEF Desk, SameLists, SameKinds
    <3>3. /\ t.fstack = s.fstack /\ t.kb = s.kb
          /\ t.selmon = s.selmon /\ t.mon = s.mon /\ t.fs_ws = s.fs_ws
      BY <1>1, <3>1 DEF Desk
    <3>4. t.col = [s.col EXCEPT ![c] = NoWs]
      BY <1>1, <3>1 DEF Desk
    <3> QED
      BY <3>2, <3>3, <3>4
  <2>6. t.row = [s.row EXCEPT ![w] = left] /\ t.focused = [s.focused EXCEPT ![w] = f]
    BY <1>1, <1>3 DEF Detach, Desk
  <2>7. heir \in (C \ {c}) \cup {NoClient} /\ (heir = NoClient => C \ {c} = {})
    <3> HIDE DEF i, r, C, t, f, left
    <3>0. i \in Nat /\ i >= 1 /\ i <= Len(r) /\ Len(r) \in Nat
      BY <2>2
    <3>1. CASE i > 1
      <4>1. i - 1 \in 1..Len(r) /\ i - 1 # i
        BY <3>0, <3>1
      <4>2. r[i - 1] \in C /\ r[i - 1] # c
        BY <2>2, <4>1
      <4>3. r[i - 1] # NoClient
        BY <4>2, NullAssumption DEF C, InRow
      <4> QED
        BY <3>1, <4>2, <4>3
    <3>2. CASE ~ (i > 1) /\ Len(r) > 1
      <4>1. 2 \in 1..Len(r) /\ 2 # i
        BY <3>0, <3>2
      <4>2. r[2] \in C /\ r[2] # c
        BY <2>2, <4>1
      <4>3. r[2] # NoClient
        BY <4>2, NullAssumption DEF C, InRow
      <4> QED
        BY <3>2, <4>2, <4>3
    <3>3. CASE ~ (i > 1) /\ ~ (Len(r) > 1)
      <4>1. heir = NoClient
        BY <3>3
      <4>2. \A n \in Nat, k \in Nat : k >= 1 /\ k <= n /\ ~ (k > 1) /\ ~ (n > 1) =>
                                     \A j \in 1..n : j = k
        OBVIOUS
      <4>3. ASSUME NEW x \in C PROVE x = c
        <5>1. PICK j \in 1..Len(r) : r[j] = x
          BY <2>2, ListsPlaces
        <5>2. j = i
          BY <3>0, <3>3, <4>2
        <5> QED
          BY <2>2, <5>1, <5>2
      <4> QED
        BY <4>1, <4>3
    <3> QED
      BY <3>1, <3>2, <3>3
  <2>8. s.focused[w] \in C
    BY <2>1 DEF RowOK
  <2> HIDE DEF heir
  <2>9. (left = <<>> => f = NoClient) /\ (left # <<>> => f \in C \ {c})
    BY <2>3, <2>7, <2>8
  <2> HIDE DEF t, left, f, i
  <2>10. InRow(t, w) = C \ {c}
    BY <1>1, <2>1, <2>5, NullAssumption, DeskTyped DEF InRow
  <2>11. Moves(s, t, c, NoWs)
    <3>1. /\ Lists(left, InRow(t, w)) /\ (left = <<>> => f = NoClient)
          /\ left # <<>> => f \in InRow(t, w)
      BY <2>2, <2>9, <2>10
    <3>2. w \in Ws /\ NoWs # s.col[c] /\ s.col[c] = w
      BY <1>3, <2>1
    <3>3. SameOrder(r, left, InRow(s, w) \ {c})
      BY <2>1, <2>2, RemoveOrder DEF left, i
    <3> HIDE DEF C, w
    <3>4. SameOrder(s.row[w], left, InRow(s, w) \ {c})
      BY <3>3
    <3> HIDE DEF r
    <3> QED
      BY <2>4, <2>5, <2>6, <3>1, <3>2, <3>4, RowChanged
  <2> QED
    BY <2>5, <2>11 DEF t
<1> QED
  BY <1>2, <1>3

\* A new column at any place of a row.
LEMMA InsertMoves ==
    ASSUME NEW s, Base(s), NEW c \in Client, s.col[c] = NoWs, NEW w \in Ws,
           NEW i \in 1..(Len(s.row[w]) + 1)
    PROVE  Moves(s, Insert(s, w, i, c), c, w) /\ Insert(s, w, i, c).kb = s.kb
<1> DEFINE t == Insert(s, w, i, c)
           r == InsertAt(s.row[w], i, c)
           In == InRow(s, w) \cup {c}
<1>1. s \in Desk /\ Shaped(s) /\ NoWs # w
  BY DeskShaped, NullAssumption DEF Base
<1>2. Lists(s.row[w], InRow(s, w)) /\ c \notin InRow(s, w)
  BY <1>1 DEF Base, Rows, RowOK, InRow
<1>3. Lists(r, In)
  BY <1>2, InsertLists
<1>4. r # <<>>
  BY <1>3, EmptyLists
<1>5. Shaped(t)
  BY <1>1 DEF Insert, Shaped, Fields
<1>6. /\ SameLists(s, t) /\ SameKinds(s, t) /\ t.fstack = s.fstack /\ t.kb = s.kb
      /\ t.selmon = s.selmon /\ t.mon = s.mon /\ t.fs_ws = s.fs_ws
      /\ t.col = [s.col EXCEPT ![c] = w] /\ t.row = [s.row EXCEPT ![w] = r]
      /\ t.focused = [s.focused EXCEPT ![w] = c]
  BY <1>1 DEF Insert, Desk, SameLists, SameKinds
<1> HIDE DEF t, r
<1>7. Moves(s, t, c, w)
  <2>1. InRow(t, w) = In
    BY <1>1, <1>6, DeskTyped DEF InRow
  <2>2. Lists(r, InRow(t, w)) /\ (r = <<>> => c = NoClient) /\ c \in InRow(t, w)
    BY <1>3, <1>4, <2>1
  <2>3. SameOrder(s.row[w], r, InRow(s, w) \ {c})
    BY <1>2, InsertOrder DEF r, SameOrder
  <2> QED
    BY <1>1, <1>5, <1>6, <2>2, <2>3, RowChanged
<1> QED
  BY <1>6, <1>7 DEF t

\* workspace_attach_client of a window that has no column.
LEMMA InsertRightMoves ==
    ASSUME NEW s, Base(s), NEW c \in Client, s.col[c] = NoWs, NEW w \in Ws
    PROVE  Moves(s, InsertRight(s, w, c), c, w) /\ InsertRight(s, w, c).kb = s.kb
<1> DEFINE f == s.focused[w]
           i == (IF f = NoClient THEN Len(s.row[w]) ELSE Pos(s.row[w], f)) + 1
<1>1. RowOK(s, w) /\ Len(s.row[w]) \in Nat
  BY ListsPlaces DEF Base, Rows, RowOK
<1>2. f # NoClient => f \in InRow(s, w)
  BY <1>1 DEF RowOK
<1>3. f # NoClient => Pos(s.row[w], f) \in 1..Len(s.row[w])
  BY <1>1, <1>2, PosPlace DEF RowOK
<1>4. i \in 1..(Len(s.row[w]) + 1)
  BY <1>1, <1>3
<1>5. InsertRight(s, w, c) = Insert(s, w, i, c)
  BY DEF InsertRight
<1> HIDE DEF i
<1> QED
  BY <1>4, <1>5, InsertMoves

\* workspace_attach_client
LEMMA AttachMoves ==
    ASSUME NEW s, Base(s), NEW c \in Client, NEW w \in Ws
    PROVE  Moves(s, Attach(s, w, c), c, w) /\ Attach(s, w, c).kb = s.kb
<1>1. s \in Desk
  BY DEF Base
<1>2. CASE s.col[c] = w
  <2>1. s.col = [s.col EXCEPT ![c] = w]
    BY <1>1, <1>2, DeskTyped
  <2>2. Ordered(s, s, Client \ {c})
    BY SameRowsOrdered
  <2> QED
    BY <1>2, <2>1, <2>2 DEF Attach, Moves, SameLists, SameKinds, Keys
<1>3. CASE s.col[c] # w
  <2> DEFINE d == Detach(s, c)
             t == InsertRight(d, w, c)
  <2>1. Moves(s, d, c, NoWs) /\ d.kb = s.kb
    BY DetachMoves
  <2> HIDE DEF d
  <2>2. Base(d) /\ d.col[c] = NoWs
    BY <1>1, <2>1, DeskTyped DEF Moves
  <2>3. Moves(d, t, c, w) /\ t.kb = d.kb
    BY <2>2, InsertRightMoves
  <2>4. Attach(s, w, c) = t
    BY <1>3 DEF Attach, d
  <2> HIDE DEF t
  <2>5. t.col = [s.col EXCEPT ![c] = w]
    BY <1>1, <2>1, <2>3, DeskTyped DEF Moves
  <2>6. Ordered(s, t, Client \ {c})
    <3>1. \A a \in Client \ {c} : d.col[a] = s.col[a] /\ t.col[a] = s.col[a]
      BY <1>1, <2>1, <2>5, DeskTyped DEF Moves
    <3> QED
      BY <2>1, <2>3, <3>1 DEF Moves, Ordered
  <2>7. Moves(s, t, c, w) /\ t.kb = s.kb
    BY <1>3, <2>1, <2>3, <2>5, <2>6 DEF Moves, SameLists, SameKinds, Keys
  <2> QED
    BY <2>4, <2>7
<1> QED
  BY <1>2, <1>3

\* Window x is in t what and where it is in s.
Alike(s, t, x) == /\ t.mon[x] = s.mon[x] /\ t.col[x] = s.col[x] /\ t.fs_ws[x] = s.fs_ws[x]
                  /\ t.full[x] = s.full[x] /\ t.float[x] = s.float[x]

\* Nothing but focus, window c and its place in a row changed.
Touches(s, t, c) == /\ Base(t) /\ SameLists(s, t) /\ t.clients = s.clients
                    /\ Keys(s, t) /\ Selects(s, t)
                    /\ \A x \in Client \ {c} : Alike(s, t, x)
                    /\ Ordered(s, t, Client \ {c})

\* One such step after another.
LEMMA TouchesTwice ==
    ASSUME NEW s, NEW t, NEW u, NEW c, Touches(s, t, c), Touches(t, u, c)
    PROVE  Touches(s, u, c)
<1>1. Ordered(s, u, Client \ {c})
  BY DEF Touches, Alike, Ordered
<1> QED
  BY <1>1 DEF Touches, SameLists, Keys, Keyed, Mapped, Alike, Selects

\* A quiet step leaves every window alone.
LEMMA QuietTouches ==
    ASSUME NEW s, NEW t, NEW c, Quiet(s, t)
    PROVE  Touches(s, t, c) /\ \A x : Alike(s, t, x)
<1>1. Ordered(s, t, Client \ {c})
  BY SameRowsOrdered DEF Quiet
<1> QED
  BY <1>1 DEF Quiet, Shuffled, Touches, Alike, SameWindows, SamePlaces, SameKinds

\* A window that changes its row is the only one that does.
LEMMA MovesTouches ==
    ASSUME NEW s, NEW t, NEW c \in Client, NEW w, Base(s), Moves(s, t, c, w)
    PROVE  /\ Touches(s, t, c) /\ t.col[c] = w
           /\ t.mon[c] = s.mon[c] /\ t.fs_ws[c] = s.fs_ws[c]
           /\ t.full[c] = s.full[c] /\ t.float[c] = s.float[c]
           /\ t.col[c] = s.col[c] => t.row = s.row
<1>1. s.col \in [Client -> Ws \cup {NoWs}]
  BY DeskTyped DEF Base
<1> QED
  BY <1>1 DEF Moves, Touches, Alike, SameKinds, Selects

\* Another monitor or other flags of window c, another selected monitor.
LEMMA Reflagged ==
    ASSUME NEW s, Base(s), NEW t, Shaped(t), NEW c, SameLists(s, t),
           t.clients = s.clients, t.fstack = s.fstack, t.row = s.row,
           t.focused = s.focused, t.col = s.col, t.kb = s.kb, t.selmon = s.selmon,
           t.mon \in [Client -> Mon \cup {NoMon}], t.fs_ws \in [Client -> Ws \cup {NoWs}],
           t.full \in [Client -> BOOLEAN], t.float \in [Client -> BOOLEAN],
           \A x \in Client \ {c} : Alike(s, t, x)
    PROVE  Touches(s, t, c)
<1>1. t \in Desk
  BY DeskTyped, ShapedDesk DEF Base, SameLists
<1>2. Base(t)
  BY <1>1, BaseKept
<1> QED
  BY <1>2, SameRowsOrdered DEF Touches, Keys, Selects

\* Another selected monitor.
LEMMA SelectQuiet ==
    ASSUME NEW s, Base(s), NEW m \in Mon
    PROVE  Quiet(s, [s EXCEPT !.selmon = m]) /\ [s EXCEPT !.selmon = m].selmon = m
<1> DEFINE t == [s EXCEPT !.selmon = m]
<1>1. s \in Desk /\ Shaped(s)
  BY DeskShaped DEF Base
<1>2. Shaped(t)
  BY <1>1 DEF Shaped, Fields
<1>3. /\ SameLists(s, t) /\ SameWindows(s, t) /\ t.row = s.row /\ t.focused = s.focused
      /\ t.fstack = s.fstack /\ t.kb = s.kb /\ t.selmon = m
  BY <1>1 DEF Desk, SameLists, SameWindows, SamePlaces, SameKinds
<1> HIDE DEF t
<1>4. /\ Lists(t.fstack, Mapped(s)) /\ t.kb \in Client \cup {NoClient}
      /\ Keys(s, t) /\ Selects(s, t)
  BY <1>1, <1>3, DeskTyped DEF Base, Orders, Keys, Selects
<1>5. Quiet(s, t)
  BY <1>1, <1>2, <1>3, <1>4, FocusMoved, DeskTyped
<1> QED
  BY <1>3, <1>5 DEF t

\* The floating flag.
LEMMA FloatFlag ==
    ASSUME NEW s, Base(s), NEW c \in Client, NEW on \in BOOLEAN
    PROVE  LET t == [s EXCEPT !.float[c] = on] IN
           /\ Touches(s, t, c) /\ t.kb = s.kb /\ t.float[c] = on
           /\ t.mon[c] = s.mon[c] /\ t.col[c] = s.col[c] /\ t.fs_ws[c] = s.fs_ws[c]
           /\ t.full[c] = s.full[c] /\ t.row = s.row
<1> DEFINE t == [s EXCEPT !.float[c] = on]
<1>1. s \in Desk /\ Shaped(s)
  BY DeskShaped DEF Base
<1>2. Shaped(t)
  BY <1>1 DEF Shaped, Fields
<1>3. /\ SameLists(s, t) /\ t.clients = s.clients /\ t.fstack = s.fstack /\ t.row = s.row
      /\ t.focused = s.focused /\ t.col = s.col /\ t.kb = s.kb /\ t.selmon = s.selmon
      /\ t.mon = s.mon /\ t.fs_ws = s.fs_ws /\ t.full = s.full
      /\ t.float = [s.float EXCEPT ![c] = on]
  BY <1>1 DEF Desk, SameLists
<1> HIDE DEF t
<1>4. t.float \in [Client -> BOOLEAN] /\ t.float[c] = on
  BY <1>1, <1>3, DeskTyped
<1>5. \A x \in Client \ {c} : Alike(s, t, x)
  BY <1>1, <1>3, DeskTyped DEF Alike
<1>6. Touches(s, t, c)
  BY <1>1, <1>2, <1>3, <1>4, <1>5, Reflagged, DeskTyped
<1> QED
  BY <1>3, <1>4, <1>6 DEF t

\* The fullscreen flag, with the workspace it goes with.
Flagged(s, c, on, f) == [s EXCEPT !.full[c] = on, !.fs_ws[c] = f]

\* Nothing else changes with it.
LEMMA FullFlag ==
    ASSUME NEW s, Base(s), NEW c \in Client, NEW on \in BOOLEAN, NEW f \in Ws \cup {NoWs}
    PROVE  LET t == Flagged(s, c, on, f) IN
           /\ Touches(s, t, c) /\ t.kb = s.kb /\ t.full[c] = on /\ t.fs_ws[c] = f
           /\ t.mon[c] = s.mon[c] /\ t.col[c] = s.col[c] /\ t.float[c] = s.float[c]
           /\ t.row = s.row
<1> DEFINE t == Flagged(s, c, on, f)
<1>1. s \in Desk /\ Shaped(s)
  BY DeskShaped DEF Base
<1>2. Shaped(t)
  BY <1>1 DEF Flagged, Shaped, Fields
<1>3. /\ SameLists(s, t) /\ t.clients = s.clients /\ t.fstack = s.fstack /\ t.row = s.row
      /\ t.focused = s.focused /\ t.col = s.col /\ t.kb = s.kb /\ t.selmon = s.selmon
      /\ t.mon = s.mon /\ t.float = s.float /\ t.full = [s.full EXCEPT ![c] = on]
      /\ t.fs_ws = [s.fs_ws EXCEPT ![c] = f]
  BY <1>1 DEF Flagged, Desk, SameLists
<1> HIDE DEF t
<1>4. /\ t.full \in [Client -> BOOLEAN] /\ t.full[c] = on
      /\ t.fs_ws \in [Client -> Ws \cup {NoWs}] /\ t.fs_ws[c] = f
  BY <1>1, <1>3, DeskTyped
<1>5. \A x \in Client \ {c} : Alike(s, t, x)
  BY <1>1, <1>3, DeskTyped DEF Alike
<1>6. Touches(s, t, c)
  BY <1>1, <1>2, <1>3, <1>4, <1>5, Reflagged, DeskTyped
<1> QED
  BY <1>3, <1>4, <1>6 DEF t

\* The monitor of a window.
LEMMA MonFlag ==
    ASSUME NEW s, Base(s), NEW c \in Client, NEW m \in Mon \cup {NoMon}
    PROVE  LET t == [s EXCEPT !.mon[c] = m] IN
           /\ Touches(s, t, c) /\ t.kb = s.kb /\ t.mon[c] = m
           /\ t.col[c] = s.col[c] /\ t.fs_ws[c] = s.fs_ws[c]
           /\ t.full[c] = s.full[c] /\ t.float[c] = s.float[c] /\ t.row = s.row
<1> DEFINE t == [s EXCEPT !.mon[c] = m]
<1>1. s \in Desk /\ Shaped(s)
  BY DeskShaped DEF Base
<1>2. Shaped(t)
  BY <1>1 DEF Shaped, Fields
<1>3. /\ SameLists(s, t) /\ t.clients = s.clients /\ t.fstack = s.fstack /\ t.row = s.row
      /\ t.focused = s.focused /\ t.col = s.col /\ t.kb = s.kb /\ t.selmon = s.selmon
      /\ t.fs_ws = s.fs_ws /\ t.full = s.full /\ t.float = s.float
      /\ t.mon = [s.mon EXCEPT ![c] = m]
  BY <1>1 DEF Desk, SameLists
<1> HIDE DEF t
<1>4. t.mon \in [Client -> Mon \cup {NoMon}] /\ t.mon[c] = m
  BY <1>1, <1>3, DeskTyped
<1>5. \A x \in Client \ {c} : Alike(s, t, x)
  BY <1>1, <1>3, DeskTyped DEF Alike
<1>6. Touches(s, t, c)
  BY <1>1, <1>2, <1>3, <1>4, <1>5, Reflagged, DeskTyped
<1> QED
  BY <1>3, <1>4, <1>6 DEF t

\* The column a window has after setfloating.
FloatCol(s, c, on) ==
    IF s.mon[c] = NoMon \/ c \notin Mapped(s) THEN s.col[c]
    ELSE IF ~ s.float[c] /\ on THEN NoWs
    ELSE IF s.float[c] /\ ~ on /\ ~ s.full[c] /\ s.active[s.mon[c]] # NoWs
    THEN s.active[s.mon[c]] ELSE s.col[c]

\* The workspace a monitor shows.
LEMMA ActiveOf ==
    ASSUME NEW s, Shows(s), NEW m \in Mon
    PROVE  s.active[m] \in Ws /\ s.active[m] # NoWs /\ s.owner[s.active[m]] = m
BY NullAssumption DEF Shows, Own

\* setfloating
LEMMA SetFloatingDoes ==
    ASSUME NEW s, Base(s), NEW c \in Client, NEW on \in BOOLEAN
    PROVE  LET t == SetFloating(s, c, on) IN
           /\ Touches(s, t, c) /\ t.float[c] = on /\ t.col[c] = FloatCol(s, c, on)
           /\ t.mon[c] = s.mon[c] /\ t.fs_ws[c] = s.fs_ws[c] /\ t.full[c] = s.full[c]
           /\ t.col[c] = s.col[c] => t.row = s.row
<1> DEFINE m == s.mon[c]
           f == [s EXCEPT !.float[c] = on]
           w == s.active[m]
           u == IF ~ s.float[c] /\ on THEN Detach(f, c)
                ELSE IF s.float[c] /\ ~ on /\ ~ s.full[c] /\ w # NoWs THEN Attach(f, w, c)
                ELSE f
           t == SetFloating(s, c, on)
<1>1. /\ Touches(s, f, c) /\ f.float[c] = on /\ f.mon[c] = s.mon[c] /\ f.col[c] = s.col[c]
      /\ f.fs_ws[c] = s.fs_ws[c] /\ f.full[c] = s.full[c] /\ f.row = s.row
  BY FloatFlag
<1>2. m \in Mon \cup {NoMon}
  BY MonOf
<1>3. CASE m = NoMon \/ c \notin Mapped(s)
  <2>1. t = f
    BY <1>3 DEF SetFloating
  <2> HIDE DEF f, t
  <2> QED
    BY <1>1, <1>3, <2>1 DEF FloatCol, t
<1>4. CASE m # NoMon /\ c \in Mapped(s)
  <2>1. w # NoWs => w \in Ws
    BY <1>2, <1>4, DeskTyped DEF Base
  <2>2. t = Arrange(u, m)
    BY <1>4 DEF SetFloating
  <2>3. Base(f)
    BY <1>1 DEF Touches
  <2> HIDE DEF f, m, w
  <2>4. /\ Touches(f, u, c) /\ u.col[c] = FloatCol(s, c, on)
        /\ u.mon[c] = f.mon[c] /\ u.fs_ws[c] = f.fs_ws[c] /\ u.full[c] = f.full[c]
        /\ u.float[c] = f.float[c] /\ (u.col[c] = f.col[c] => u.row = f.row)
    <3>1. CASE ~ s.float[c] /\ on
      <4>1. Moves(f, Detach(f, c), c, NoWs) /\ u = Detach(f, c)
        BY <2>3, <3>1, DetachMoves
      <4> HIDE DEF u
      <4> QED
        <5>1. FloatCol(s, c, on) = NoWs
          BY <1>4, <3>1 DEF FloatCol, m
        <5> QED
          BY <2>3, <4>1, <5>1, MovesTouches
    <3>2. CASE s.float[c] /\ ~ on /\ ~ s.full[c] /\ w # NoWs
      <4>1. Moves(f, Attach(f, w, c), c, w) /\ u = Attach(f, w, c)
        BY <2>1, <2>3, <3>2, AttachMoves
      <4>2. FloatCol(s, c, on) = w
        BY <1>4, <3>2 DEF FloatCol, m, w
      <4> HIDE DEF u
      <4> QED
        BY <2>3, <4>1, <4>2, MovesTouches
    <3>3. CASE /\ ~ (~ s.float[c] /\ on)
               /\ ~ (s.float[c] /\ ~ on /\ ~ s.full[c] /\ w # NoWs)
      <4>1. u = f
        BY <3>3
      <4>2. FloatCol(s, c, on) = s.col[c]
        BY <1>4, <3>3 DEF FloatCol, m, w
      <4> HIDE DEF u
      <4> QED
        BY <1>1, <2>3, <4>1, <4>2, QuietNot, QuietTouches
    <3> QED
      BY <3>1, <3>2, <3>3
  <2> HIDE DEF u
  <2>5. Quiet(u, t)
    BY <1>2, <2>2, <2>4, ArrangeQuiet DEF Touches
  <2> HIDE DEF t
  <2>6. Touches(s, t, c)
    BY <1>1, <2>4, <2>5, TouchesTwice, QuietTouches
  <2>7. Alike(u, t, c) /\ t.row = u.row
    BY <2>5, QuietTouches DEF Quiet
  <2> QED
    BY <1>1, <2>4, <2>6, <2>7 DEF Alike, t
<1> QED
  BY <1>2, <1>3, <1>4

\* The column a window has after setfullscreen.
FullCol(s, c, on) ==
    LET m == s.mon[c] IN
    IF ~ s.full[c] /\ on THEN NoWs
    ELSE IF s.full[c] /\ ~ on /\ ~ s.float[c] /\ m # NoMon /\ s.active[m] # NoWs
    THEN IF s.fs_ws[c] # NoWs /\ s.owner[s.fs_ws[c]] = m THEN s.fs_ws[c] ELSE s.active[m]
    ELSE s.col[c]
\* The workspace it is fullscreen on.
FullWs(s, c, on) == IF on /\ s.mon[c] # NoMon THEN s.active[s.mon[c]] ELSE NoWs

\* The part of setfullscreen before its arrange.
LEMMA BindDoes ==
    ASSUME NEW s, Base(s), NEW c \in Client, NEW on \in BOOLEAN
    PROVE  LET t == Bind(s, c, on) IN
           /\ Touches(s, t, c) /\ t.kb = s.kb /\ t.full[c] = on /\ t.col[c] = FullCol(s, c, on)
           /\ t.fs_ws[c] = FullWs(s, c, on) /\ t.mon[c] = s.mon[c] /\ t.float[c] = s.float[c]
           /\ t.col[c] = s.col[c] => t.row = s.row
<1> DEFINE m == s.mon[c]
           v == IF on /\ m # NoMon THEN s.active[m] ELSE NoWs
           f == Flagged(s, c, on, v)
           w == IF s.fs_ws[c] # NoWs /\ s.owner[s.fs_ws[c]] = m THEN s.fs_ws[c]
                ELSE s.active[m]
           t == Bind(s, c, on)
<1>1. m \in Mon \cup {NoMon} /\ s.fs_ws[c] \in Ws \cup {NoWs}
  BY MonOf, DeskTyped DEF Base
<1>2. m # NoMon => s.active[m] \in Ws \cup {NoWs}
  BY <1>1, DeskTyped DEF Base
<1>3. v \in Ws \cup {NoWs} /\ v = FullWs(s, c, on)
  BY <1>2 DEF FullWs
<1>4. m # NoMon /\ s.active[m] # NoWs => w \in Ws
  BY <1>1, <1>2
<1> HIDE DEF v
<1>5. /\ Touches(s, f, c) /\ f.kb = s.kb /\ f.full[c] = on /\ f.fs_ws[c] = v
      /\ f.mon[c] = s.mon[c] /\ f.col[c] = s.col[c] /\ f.float[c] = s.float[c]
      /\ f.row = s.row
  <2>1. v \in Ws \cup {NoWs}
    BY <1>3
  <2> QED
    BY <2>1, FullFlag
<1>6. Base(f)
  BY <1>5 DEF Touches
<1>7. CASE ~ s.full[c] /\ on
  <2>1. t = Detach(f, c)
    BY <1>7 DEF Bind, Flagged, v
  <2> HIDE DEF f
  <2>2. Moves(f, t, c, NoWs) /\ t.kb = f.kb
    BY <1>6, <2>1, DetachMoves
  <2>3. FullCol(s, c, on) = NoWs
    BY <1>7 DEF FullCol
  <2> HIDE DEF t
  <2>4. /\ Touches(f, t, c) /\ t.col[c] = NoWs /\ t.mon[c] = f.mon[c] /\ t.fs_ws[c] = f.fs_ws[c]
        /\ t.full[c] = f.full[c] /\ t.float[c] = f.float[c]
        /\ t.col[c] = f.col[c] => t.row = f.row
    BY <1>6, <2>2, MovesTouches
  <2>5. Touches(s, t, c)
    BY <1>5, <2>4, TouchesTwice
  <2> QED
    BY <1>3, <1>5, <2>2, <2>3, <2>4, <2>5 DEF t
<1>8. CASE s.full[c] /\ ~ on /\ ~ s.float[c] /\ m # NoMon /\ s.active[m] # NoWs
  <2>1. t = Attach(f, w, c)
    BY <1>2, <1>8 DEF Bind, Flagged, v
  <2>2. FullCol(s, c, on) = w
    BY <1>8 DEF FullCol
  <2> HIDE DEF f, w
  <2>3. Moves(f, t, c, w) /\ t.kb = f.kb
    BY <1>4, <1>6, <1>8, <2>1, AttachMoves
  <2> HIDE DEF t
  <2>4. /\ Touches(f, t, c) /\ t.col[c] = w /\ t.mon[c] = f.mon[c] /\ t.fs_ws[c] = f.fs_ws[c]
        /\ t.full[c] = f.full[c] /\ t.float[c] = f.float[c]
        /\ t.col[c] = f.col[c] => t.row = f.row
    BY <1>6, <2>3, MovesTouches
  <2>5. Touches(s, t, c)
    BY <1>5, <2>4, TouchesTwice
  <2> QED
    BY <1>3, <1>5, <2>2, <2>3, <2>4, <2>5 DEF t
<1>9. CASE /\ ~ (~ s.full[c] /\ on)
           /\ ~ (s.full[c] /\ ~ on /\ ~ s.float[c] /\ m # NoMon /\ s.active[m] # NoWs)
  <2>1. t = f
    BY <1>9 DEF Bind, Flagged, v
  <2>2. FullCol(s, c, on) = s.col[c]
    BY <1>9 DEF FullCol
  <2> HIDE DEF f, t, w
  <2> QED
    BY <1>3, <1>5, <2>1, <2>2 DEF t
<1> QED
  BY <1>7, <1>8, <1>9

\* setfullscreen
LEMMA SetFullscreenDoes ==
    ASSUME NEW s, Base(s), NEW c \in Client, NEW on \in BOOLEAN
    PROVE  LET t == SetFullscreen(s, c, on) IN
           /\ Touches(s, t, c) /\ t.full[c] = on /\ t.col[c] = FullCol(s, c, on)
           /\ t.fs_ws[c] = FullWs(s, c, on) /\ t.mon[c] = s.mon[c] /\ t.float[c] = s.float[c]
           /\ t.col[c] = s.col[c] => t.row = s.row
<1> DEFINE there == s.mon[c] # NoMon /\ c \in Mapped(s)
           m == IF there THEN s.mon[c] ELSE NoMon
           b == Bind(s, c, on)
           a == Arrange(b, m)
           t == IF there /\ on THEN Focus(a, c) ELSE a
<1>1. t = SetFullscreen(s, c, on)
  BY DEF SetFullscreen, FocusIf
<1>2. m \in Mon \cup {NoMon}
  BY MonOf
<1>3. /\ Touches(s, b, c) /\ b.full[c] = on /\ b.col[c] = FullCol(s, c, on)
      /\ b.fs_ws[c] = FullWs(s, c, on) /\ b.mon[c] = s.mon[c] /\ b.float[c] = s.float[c]
      /\ b.col[c] = s.col[c] => b.row = s.row
  BY BindDoes
<1> HIDE DEF m, b
<1>4. Quiet(b, a)
  BY <1>2, <1>3, ArrangeQuiet DEF Touches
<1> HIDE DEF a
<1>5. Quiet(a, t)
  <2>1. Base(a) /\ Mapped(a) = Mapped(s)
    BY <1>3, <1>4 DEF Quiet, Shuffled, SameWindows, SameKinds, Touches, Mapped
  <2> QED
    BY <2>1, FocusQuiet, QuietNot
<1> HIDE DEF t
<1>6. Quiet(b, t)
  BY <1>4, <1>5, QuietTwice
<1>7. Touches(s, t, c) /\ Alike(b, t, c) /\ t.row = b.row
  BY <1>3, <1>6, TouchesTwice, QuietTouches DEF Quiet
<1> QED
  BY <1>1, <1>3, <1>7 DEF Alike

\* The column and the fullscreen workspace of a window that setmon sends to m.
SentCol(s, c, m) == IF m # NoMon /\ ~ s.float[c] /\ ~ s.full[c] THEN s.active[m] ELSE NoWs
SentWs(s, c, m) == IF m = NoMon THEN s.fs_ws[c]
                   ELSE IF s.full[c] THEN s.active[m] ELSE NoWs

\* setmon, first part: off the old monitor.
LEMMA LeaveDoes ==
    ASSUME NEW s, Base(s), NEW c \in Client, NEW m \in Mon \cup {NoMon}
    PROVE  LET t == Leave(s, c, m) IN
           /\ Touches(s, t, c) /\ t.mon[c] = m /\ t.col[c] = NoWs
           /\ t.fs_ws[c] = s.fs_ws[c] /\ t.full[c] = s.full[c] /\ t.float[c] = s.float[c]
<1> DEFINE f == [s EXCEPT !.mon[c] = m]
           d == Detach(f, c)
           t == Leave(s, c, m)
<1>1. /\ Touches(s, f, c) /\ f.mon[c] = m /\ f.col[c] = s.col[c] /\ f.fs_ws[c] = s.fs_ws[c]
      /\ f.full[c] = s.full[c] /\ f.float[c] = s.float[c]
  BY MonFlag
<1>2. t = Arrange(d, s.mon[c])
  BY DEF Leave
<1> HIDE DEF f
<1>3. Base(f)
  BY <1>1 DEF Touches
<1>4. Moves(f, d, c, NoWs)
  BY <1>3, DetachMoves
<1> HIDE DEF d
<1>5. /\ Touches(f, d, c) /\ d.col[c] = NoWs /\ d.mon[c] = f.mon[c]
      /\ d.fs_ws[c] = f.fs_ws[c] /\ d.full[c] = f.full[c] /\ d.float[c] = f.float[c]
  BY <1>3, <1>4, MovesTouches
<1>6. Quiet(d, t)
  BY <1>2, <1>5, ArrangeQuiet, MonOf DEF Touches
<1> HIDE DEF t
<1>7. Touches(d, t, c) /\ Alike(d, t, c)
  BY <1>6, QuietTouches
<1>8. Touches(s, t, c)
  BY <1>1, <1>5, <1>7, TouchesTwice
<1> QED
  BY <1>1, <1>5, <1>7, <1>8 DEF Alike, t

\* Second part: a tile on to the row its monitor shows.
LEMMA AdoptDoes ==
    ASSUME NEW s, Base(s), NEW c \in Client, s.mon[c] \in Mon, s.col[c] = NoWs
    PROVE  LET t == Adopt(s, c) IN
           /\ Touches(s, t, c) /\ t.col[c] = SentCol(s, c, s.mon[c])
           /\ t.mon[c] = s.mon[c] /\ t.fs_ws[c] = s.fs_ws[c]
           /\ t.full[c] = s.full[c] /\ t.float[c] = s.float[c]
<1> DEFINE w == s.active[s.mon[c]]
           t == Adopt(s, c)
<1>1. w \in Ws \cup {NoWs}
  BY DeskTyped DEF Base
<1>2. CASE ~ s.float[c] /\ ~ s.full[c] /\ w # NoWs
  <2>1. t = Attach(s, w, c) /\ SentCol(s, c, s.mon[c]) = w
    BY <1>2 DEF Adopt, SentCol, Mon, NoMon
  <2> HIDE DEF w, t
  <2>2. Moves(s, t, c, w)
    BY <1>1, <1>2, <2>1, AttachMoves
  <2> QED
    BY <2>1, <2>2, MovesTouches DEF t
<1>3. CASE ~ (~ s.float[c] /\ ~ s.full[c] /\ w # NoWs)
  <2>1. t = s /\ SentCol(s, c, s.mon[c]) = NoWs
    BY <1>3 DEF Adopt, SentCol, Mon, NoMon
  <2>2. Touches(s, s, c)
    BY QuietNot, QuietTouches
  <2> QED
    BY <2>1, <2>2
<1> QED
  BY <1>2, <1>3

\* Last part: fullscreen and floating once more.
LEMMA AgainDoes ==
    ASSUME NEW s, Base(s), NEW c \in Client, s.mon[c] \in Mon
    PROVE  LET t == Again(s, c) IN
           /\ Touches(s, t, c) /\ t.fs_ws[c] = SentWs(s, c, s.mon[c])
           /\ t.mon[c] = s.mon[c] /\ t.col[c] = s.col[c]
           /\ t.full[c] = s.full[c] /\ t.float[c] = s.float[c]
<1> DEFINE f == SetFullscreen(s, c, s.full[c])
           t == SetFloating(f, c, s.float[c])
<1>1. s.mon[c] # NoMon /\ s.full[c] \in BOOLEAN /\ s.float[c] \in BOOLEAN
  BY DeskTyped DEF Base, Mon, NoMon
<1>2. FullCol(s, c, s.full[c]) = s.col[c] /\ FullWs(s, c, s.full[c]) = SentWs(s, c, s.mon[c])
  BY <1>1 DEF FullCol, FullWs, SentWs
<1>3. /\ Touches(s, f, c) /\ f.full[c] = s.full[c] /\ f.col[c] = s.col[c]
      /\ f.fs_ws[c] = SentWs(s, c, s.mon[c]) /\ f.mon[c] = s.mon[c] /\ f.float[c] = s.float[c]
  BY <1>1, <1>2, SetFullscreenDoes
<1> HIDE DEF f
<1>4. FloatCol(f, c, s.float[c]) = f.col[c]
  BY <1>1, <1>3 DEF FloatCol
<1>5. /\ Touches(f, t, c) /\ t.float[c] = s.float[c] /\ t.col[c] = f.col[c]
      /\ t.mon[c] = f.mon[c] /\ t.fs_ws[c] = f.fs_ws[c] /\ t.full[c] = f.full[c]
  <2>1. Base(f)
    BY <1>3 DEF Touches
  <2> QED
    BY <1>1, <1>3, <1>4, <2>1, SetFloatingDoes
<1>6. t = Again(s, c)
  BY DEF Again, f
<1> HIDE DEF t
<1>7. Touches(s, t, c)
  BY <1>3, <1>5, TouchesTwice
<1> QED
  BY <1>3, <1>5, <1>6, <1>7

\* setmon, to another monitor: the window and the focus move, nothing else.
LEMMA SetMonDoes ==
    ASSUME NEW s, Base(s), NEW c \in Client, NEW m \in Mon \cup {NoMon}, s.mon[c] # m
    PROVE  LET t == SetMon(s, c, m) IN
           /\ Touches(s, t, c) /\ t.mon[c] = m /\ t.col[c] = SentCol(s, c, m)
           /\ t.fs_ws[c] = SentWs(s, c, m) /\ t.full[c] = s.full[c]
           /\ t.float[c] = s.float[c] /\ Keyed(t)
<1> DEFINE l == Leave(s, c, m)
           a == Adopt(l, c)
           u == Settle(l, c)
           t == FocusMostRecent(u)
<1>1. t = SetMon(s, c, m)
  BY DEF SetMon
<1>2. /\ Touches(s, l, c) /\ l.mon[c] = m /\ l.col[c] = NoWs
      /\ l.fs_ws[c] = s.fs_ws[c] /\ l.full[c] = s.full[c] /\ l.float[c] = s.float[c]
  BY LeaveDoes
<1> HIDE DEF l
<1>3. Base(l) /\ l.active = s.active
  BY <1>2 DEF Touches, SameLists
<1>4. /\ Touches(l, u, c) /\ u.mon[c] = m /\ u.col[c] = SentCol(s, c, m)
      /\ u.fs_ws[c] = SentWs(s, c, m) /\ u.full[c] = l.full[c] /\ u.float[c] = l.float[c]
  <2>1. CASE m = NoMon
    <3>1. u = l
      BY <1>2, <2>1 DEF Settle
    <3>2. Touches(l, l, c)
      BY <1>3, QuietNot, QuietTouches
    <3> HIDE DEF u
    <3> QED
      BY <1>2, <2>1, <3>1, <3>2 DEF SentCol, SentWs
  <2>2. CASE m # NoMon
    <3>1. m \in Mon /\ u = Again(a, c)
      BY <1>2, <2>2 DEF Settle
    <3>2. /\ Touches(l, a, c) /\ a.col[c] = SentCol(l, c, m) /\ a.mon[c] = m
          /\ a.fs_ws[c] = l.fs_ws[c] /\ a.full[c] = l.full[c] /\ a.float[c] = l.float[c]
      BY <1>2, <1>3, <3>1, AdoptDoes
    <3> HIDE DEF a, u
    <3>3. Base(a) /\ a.active = l.active
      BY <3>2 DEF Touches, SameLists
    <3>4. /\ Touches(a, u, c) /\ u.fs_ws[c] = SentWs(a, c, m) /\ u.mon[c] = m
          /\ u.col[c] = a.col[c] /\ u.full[c] = a.full[c] /\ u.float[c] = a.float[c]
      BY <3>1, <3>2, <3>3, AgainDoes
    <3>5. Touches(l, u, c)
      BY <3>2, <3>4, TouchesTwice
    <3>6. SentCol(l, c, m) = SentCol(s, c, m) /\ SentWs(a, c, m) = SentWs(s, c, m)
      BY <1>2, <1>3, <2>2, <3>2, <3>3 DEF SentCol, SentWs
    <3> QED
      BY <3>2, <3>4, <3>5, <3>6
  <2> QED
    BY <2>1, <2>2
<1> HIDE DEF u
<1>5. Quiet(u, t) /\ Keyed(t)
  BY <1>4, FocusMostRecentQuiet DEF Touches
<1> HIDE DEF t
<1>6. Touches(u, t, c) /\ Alike(u, t, c)
  BY <1>5, QuietTouches
<1>7. Touches(s, t, c)
  BY <1>2, <1>4, <1>6, TouchesTwice
<1> QED
  BY <1>1, <1>2, <1>4, <1>5, <1>6, <1>7 DEF Alike

-----------------------------------------------------------------------------
(* Windows where they belong. *)

\* A window is listed exactly when it has a monitor, its column hangs on a
\* workspace of that monitor, it is bound to one while it is fullscreen and
\* only then, and a tile has a column.
LiveAt(s, c) ==
    /\ c \in Mapped(s) <=> s.mon[c] # NoMon
    /\ s.col[c] # NoWs => s.mon[c] # NoMon /\ s.owner[s.col[c]] = s.mon[c]
    /\ c \in Mapped(s) /\ s.full[c] =>
         s.fs_ws[c] # NoWs /\ s.owner[s.fs_ws[c]] = s.mon[c]
    /\ c \in Mapped(s) /\ ~ s.full[c] => s.fs_ws[c] = NoWs
    /\ c \in Mapped(s) /\ ~ s.full[c] /\ ~ s.float[c] => s.col[c] # NoWs
Live(s) == \A c \in Client : LiveAt(s, c)

\* Workspaces are numbered without a hole, next_ws_id comes next.
InOrder(s, m) == /\ {s.idx[w] : w \in Own(s, m)} = 0..(s.next[m] - 1)
                 /\ Cardinality(Own(s, m)) = s.next[m]
Counted(s) == \A m \in Mon : InOrder(s, m)

\* What every handler leaves behind.
Sound(s) == Base(s) /\ Shows(s) /\ Live(s) /\ Counted(s)

\* What monitors show depends on their lists and on the selected one.
LEMMA ShowsSame ==
    ASSUME NEW s, NEW t, Shows(s), SameLists(s, t), Selects(s, t)
    PROVE  Shows(t)
BY DEF Shows, SameLists, Selects, Own

\* Lists and rows depend on nothing but themselves and the columns of windows.
LEMMA RowsSame ==
    ASSUME NEW s, NEW t, Orders(s), Rows(s), t.clients = s.clients, t.fstack = s.fstack,
           t.row = s.row, t.focused = s.focused, t.col = s.col
    PROVE  Orders(t) /\ Rows(t)
<1>1. Orders(t)
  BY DEF Orders, Mapped
<1>2. ASSUME NEW w \in Ws PROVE RowOK(t, w)
  <2>1. InRow(t, w) = InRow(s, w)
    BY DEF InRow
  <2>2. RowOK(s, w)
    BY DEF Rows
  <2> QED
    BY <2>1, <2>2 DEF RowOK
<1> QED
  BY <1>1, <1>2 DEF Rows

\* The numbering does not depend on windows.
LEMMA CountedSame ==
    ASSUME NEW s, NEW t, Counted(s), SameLists(s, t)
    PROVE  Counted(t)
BY DEF Counted, InOrder, Own, SameLists

\* Neither does it matter which desk a window that stays alike is on.
LEMMA LiveSame ==
    ASSUME NEW s, NEW t, NEW x, LiveAt(s, x), Alike(s, t, x), t.owner = s.owner,
           t.clients = s.clients
    PROVE  LiveAt(t, x)
BY DEF LiveAt, Alike, Mapped

\* If only window c changed, only window c needs a look.
LEMMA LiveTouched ==
    ASSUME NEW s, NEW t, NEW c, \A x \in Client \ {c} : LiveAt(s, x), Touches(s, t, c),
           LiveAt(t, c)
    PROVE  Live(t)
<1>1. ASSUME NEW x \in Client, x # c PROVE LiveAt(t, x)
  BY <1>1, LiveSame DEF Touches, SameLists
<1> QED
  BY <1>1 DEF Live

\* Tiles that change places leave a sound desk sound.
LEMMA SoundShuffled ==
    ASSUME NEW s, NEW t, Sound(s), Shuffled(s, t)
    PROVE  Sound(t)
<1>1. Counted(t) /\ Shows(t)
  BY CountedSame, ShowsSame DEF Sound, Shuffled
<1>2. ASSUME NEW x \in Client PROVE LiveAt(t, x)
  <2>1. Alike(s, t, x)
    BY DEF Shuffled, SameWindows, SamePlaces, SameKinds, Alike
  <2> QED
    BY <2>1, LiveSame DEF Shuffled, SameLists, SameWindows, SameKinds, Sound, Live
<1> QED
  BY <1>1, <1>2 DEF Sound, Live, Shuffled

\* So does a quiet step.
LEMMA SoundQuiet ==
    ASSUME NEW s, NEW t, Sound(s), Quiet(s, t)
    PROVE  Sound(t)
BY SoundShuffled DEF Quiet

\* So does one that leaves its window where it belongs.
LEMMA SoundTouched ==
    ASSUME NEW s, NEW t, NEW c, Sound(s), Touches(s, t, c), LiveAt(t, c)
    PROVE  Sound(t)
<1>1. Counted(t) /\ Shows(t)
  BY CountedSame, ShowsSame DEF Sound, Touches
<1>2. Live(t)
  BY LiveTouched DEF Sound, Live
<1> QED
  BY <1>1, <1>2 DEF Sound, Touches

\* The row a monitor shows is its own.
LEMMA RowHereOf ==
    ASSUME NEW s, Sound(s), NEW m \in Mon
    PROVE  RowHere(s, m)
<1>1. s.active[m] \in Ws /\ s.active[m] # NoWs /\ s.owner[s.active[m]] = m
  BY ActiveOf DEF Sound
<1> QED
  BY <1>1 DEF Sound, Live, LiveAt, RowHere, RowSeen

-----------------------------------------------------------------------------
(* The selected monitor. *)

\* setfloating selects none.
LEMMA SetFloatingSel ==
    ASSUME NEW s, Base(s), NEW c \in Client, NEW on \in BOOLEAN
    PROVE  SetFloating(s, c, on).selmon = s.selmon
<1> DEFINE m == s.mon[c]
           w == s.active[m]
           t == [s EXCEPT !.float[c] = on]
           joins == s.float[c] /\ ~ on /\ ~ s.full[c] /\ w # NoWs
           u == IF ~ s.float[c] /\ on THEN Detach(t, c) ELSE IF joins THEN Attach(t, w, c) ELSE t
<1>1. Base(t) /\ t.selmon = s.selmon /\ m \in Mon \cup {NoMon}
  <2>1. Base(t)
    BY FloatFlag DEF Touches
  <2>2. t.selmon = s.selmon
    BY DEF Base, Desk
  <2> QED
    BY <2>1, <2>2, MonOf
<1>2. CASE m = NoMon \/ c \notin Mapped(s)
  BY <1>1, <1>2 DEF SetFloating
<1>3. CASE m # NoMon /\ c \in Mapped(s)
  <2>1. SetFloating(s, c, on) = Arrange(u, m)
    BY <1>3 DEF SetFloating
  <2>2. joins => w \in Ws
    BY <1>1, <1>3, DeskTyped DEF Base
  <2> HIDE DEF t, joins, w
  <2>3. Base(u) /\ u.selmon = t.selmon
    <3>1. CASE ~ s.float[c] /\ on
      BY <1>1, <3>1, DetachMoves DEF Moves
    <3>2. CASE ~ (~ s.float[c] /\ on) /\ joins
      BY <1>1, <2>2, <3>2, AttachMoves DEF Moves
    <3>3. CASE ~ (~ s.float[c] /\ on) /\ ~ joins
      BY <1>1, <3>3
    <3> QED
      BY <3>1, <3>2, <3>3
  <2> HIDE DEF u
  <2> QED
    BY <1>1, <2>1, <2>3, ArrangeSel
<1> QED
  BY <1>2, <1>3

\* setfullscreen selects the monitor of a window that enters, or none.
LEMMA SetFullscreenSel ==
    ASSUME NEW s, Base(s), NEW c \in Client, NEW on \in BOOLEAN
    PROVE  \/ SetFullscreen(s, c, on).selmon = s.selmon
           \/ /\ on /\ s.mon[c] \in Mon
              /\ SetFullscreen(s, c, on).selmon = s.mon[c]
<1> DEFINE there == s.mon[c] # NoMon /\ c \in Mapped(s)
           m == IF there THEN s.mon[c] ELSE NoMon
           b == Bind(s, c, on)
           a == Arrange(b, m)
<1>1. m \in Mon \cup {NoMon} /\ (there => s.mon[c] \in Mon)
  BY MonOf
<1>2. Base(b) /\ b.mon[c] = s.mon[c] /\ Mapped(b) = Mapped(s)
  <2>1. Touches(s, b, c) /\ b.mon[c] = s.mon[c]
    BY BindDoes
  <2> HIDE DEF b
  <2> QED
    BY <2>1 DEF Touches, Mapped
<1>3. b.selmon = s.selmon
  <2> DEFINE f == IF on /\ s.mon[c] # NoMon THEN s.active[s.mon[c]] ELSE NoWs
             v == [s EXCEPT !.full[c] = on, !.fs_ws[c] = f]
             back == s.fs_ws[c]
             w == IF back # NoWs /\ s.owner[back] = s.mon[c] THEN back ELSE s.active[s.mon[c]]
             returns == /\ s.full[c] /\ ~ on /\ ~ s.float[c]
                        /\ s.mon[c] # NoMon /\ s.active[s.mon[c]] # NoWs
  <2>1. b = IF ~ s.full[c] /\ on THEN Detach(v, c) ELSE IF returns THEN Attach(v, w, c) ELSE v
    BY DEF Bind
  <2>2. f \in Ws \cup {NoWs}
    BY <1>1, MonOf, DeskTyped DEF Base
  <2>3. returns => w \in Ws
    BY MonOf, DeskTyped DEF Base
  <2>4. v = Flagged(s, c, on, f)
    BY DEF Flagged
  <2>5. Base(v)
    <3>1. Touches(s, Flagged(s, c, on, f), c)
      BY <2>2, FullFlag
    <3> QED
      BY <2>4, <3>1 DEF Touches
  <2>6. v.selmon = s.selmon
    BY DEF Base, Desk
  <2> HIDE DEF b, v, returns, w
  <2>7. CASE ~ s.full[c] /\ on
    BY <2>1, <2>5, <2>6, <2>7, DetachMoves DEF Moves
  <2>8. CASE ~ (~ s.full[c] /\ on) /\ returns
    <3>1. b = Attach(v, w, c) /\ w \in Ws
      BY <2>1, <2>3, <2>8
    <3>2. Moves(v, Attach(v, w, c), c, w)
      BY <2>5, <3>1, AttachMoves
    <3> QED
      BY <2>6, <3>1, <3>2 DEF Moves
  <2>9. CASE ~ (~ s.full[c] /\ on) /\ ~ returns
    BY <2>1, <2>6, <2>9
  <2> QED
    BY <2>7, <2>8, <2>9
<1> HIDE DEF b
<1>4. Quiet(b, a) /\ a.selmon = s.selmon
  BY <1>1, <1>2, <1>3, ArrangeQuiet, ArrangeSel
<1>5. Base(a) /\ a.mon[c] = s.mon[c] /\ Mapped(a) = Mapped(s)
  BY <1>2, <1>4 DEF Quiet, Shuffled, SameWindows, SamePlaces, SameKinds, Mapped
<1>6. SetFullscreen(s, c, on) = IF there /\ on THEN Focus(a, c) ELSE a
  BY DEF SetFullscreen, FocusIf, b
<1> HIDE DEF a, m
<1>7. CASE ~ (there /\ on)
  BY <1>4, <1>6, <1>7
<1>8. CASE there /\ on
  BY <1>1, <1>4, <1>5, <1>6, <1>8, FocusSel
<1> QED
  BY <1>7, <1>8

\* setmon selects the monitor the window is sent to, or none.
LEMMA SetMonSel ==
    ASSUME NEW s, Base(s), NEW c \in Client, NEW m \in Mon \cup {NoMon}
    PROVE  SetMon(s, c, m).selmon \in {s.selmon, IF m \in Mon THEN m ELSE s.selmon}
<1> DEFINE f == [s EXCEPT !.mon[c] = m]
           d == Detach(f, c)
           l == Leave(s, c, m)
           a == Adopt(l, c)
           x == SetFullscreen(a, c, a.full[c])
           g == Again(a, c)
           t == Settle(l, c)
<1>1. CASE s.mon[c] = m
  BY <1>1 DEF SetMon
<1>2. CASE s.mon[c] # m
  <2>1. SetMon(s, c, m) = FocusMostRecent(t)
    BY <1>2 DEF SetMon
  <2>2. Base(l) /\ l.mon[c] = m /\ l.col[c] = NoWs
    <3>1. Touches(s, l, c) /\ l.mon[c] = m /\ l.col[c] = NoWs
      BY LeaveDoes
    <3> QED
      BY <3>1 DEF Touches
  <2>3. l.selmon = s.selmon
    <3>1. Base(f) /\ f.selmon = s.selmon
      BY MonFlag DEF Touches, Base, Desk
    <3>2. s.mon[c] \in Mon \cup {NoMon}
      BY MonOf
    <3>3. l = Arrange(d, s.mon[c])
      BY DEF Leave
    <3> HIDE DEF f, l
    <3>4. Base(d) /\ d.selmon = f.selmon
      BY <3>1, DetachMoves DEF Moves
    <3> HIDE DEF d
    <3> QED
      BY <3>1, <3>2, <3>3, <3>4, ArrangeSel
  <2> HIDE DEF l
  <2>4. CASE m = NoMon
    <3>1. t = l
      BY <2>2, <2>4 DEF Settle
    <3> QED
      BY <2>1, <2>2, <2>3, <3>1, FocusMostRecentSel
  <2>5. CASE m # NoMon
    <3>1. t = g /\ m \in Mon
      BY <2>2, <2>5 DEF Settle
    <3>2. Base(a) /\ a.mon[c] = m
      BY <2>2, <3>1, AdoptDoes DEF Touches
    <3>3. a.selmon = l.selmon
      <4>1. CASE ~ l.float[c] /\ ~ l.full[c] /\ l.active[l.mon[c]] # NoWs
        <5> DEFINE w == l.active[l.mon[c]]
        <5>1. a = Attach(l, w, c)
          BY <4>1 DEF Adopt
        <5>2. w \in Ws
          BY <2>2, <3>1, <4>1, DeskTyped DEF Base
        <5> HIDE DEF w, a
        <5> QED
          BY <2>2, <5>1, <5>2, AttachMoves DEF Moves
      <4>2. CASE ~ (~ l.float[c] /\ ~ l.full[c] /\ l.active[l.mon[c]] # NoWs)
        BY <4>2 DEF Adopt
      <4> QED
        BY <4>1, <4>2
    <3> HIDE DEF a
    <3>4. a.full[c] \in BOOLEAN /\ a.float[c] \in BOOLEAN
      BY <3>2, DeskTyped DEF Base
    <3>5. Base(x) /\ x.selmon \in {a.selmon, m}
      <4>1. Touches(a, x, c)
        BY <3>2, <3>4, SetFullscreenDoes
      <4>2. x.selmon \in {a.selmon, m}
        BY <3>2, <3>4, SetFullscreenSel
      <4> QED
        BY <4>1, <4>2 DEF Touches
    <3>6. g = SetFloating(x, c, a.float[c])
      BY DEF Again
    <3>7. Base(g)
      BY <3>1, <3>2, AgainDoes DEF Touches
    <3> HIDE DEF x, g, t
    <3>8. g.selmon = x.selmon
      BY <3>4, <3>5, <3>6, SetFloatingSel
    <3> QED
      BY <2>1, <2>3, <3>1, <3>3, <3>5, <3>7, <3>8, FocusMostRecentSel
  <2> QED
    BY <2>4, <2>5
<1> QED
  BY <1>1, <1>2

-----------------------------------------------------------------------------
(* The unset_fullscreen loop. *)

\* Window x left fullscreen for the new window c, into the row it was
\* fullscreen over.
Lowered(s, t, c, x) ==
    /\ x \in Mapped(s) /\ MakesWay(s, c, x)
    /\ t.mon[x] = s.mon[x] /\ t.float[x] = s.float[x] /\ ~ t.full[x]
    /\ t.fs_ws[x] = NoWs /\ t.col[x] = FullCol(s, x, FALSE)

\* After any number of rounds.
Cleared(s, t, c) == /\ Base(t) /\ SameLists(s, t) /\ t.clients = s.clients
                    /\ Keys(s, t) /\ t.selmon = s.selmon
                    /\ \A x \in Client : Alike(s, t, x) \/ Lowered(s, t, c, x)
                    /\ Ordered(s, t, Client)

\* One more round.
LEMMA OneCleared ==
    ASSUME NEW s, NEW t, NEW c \in Client, Cleared(s, t, c), NEW w \in Mapped(s)
    PROVE  Cleared(s, UnsetOne(t, c, w), c)
<1>1. CASE ~ MakesWay(t, c, w)
  BY <1>1 DEF UnsetOne
<1>2. CASE MakesWay(t, c, w)
  <2> DEFINE u == SetFullscreen(t, w, FALSE)
  <2>1. u = UnsetOne(t, c, w)
    BY <1>2 DEF UnsetOne
  <2>2. Base(t) /\ w \in Mapped(t) /\ w \in Client
    BY MappedOf DEF Cleared, Mapped
  <2>3. Alike(s, t, w)
    BY <1>2, <2>2 DEF Cleared, Lowered, MakesWay
  <2>4. t.mon[c] = s.mon[c]
    BY DEF Cleared, Alike, Lowered
  <2>5. MakesWay(s, c, w)
    BY <1>2, <2>3, <2>4 DEF MakesWay, Alike, Cleared, SameLists
  <2>6. /\ Touches(t, u, w) /\ u.full[w] = FALSE /\ u.col[w] = FullCol(t, w, FALSE)
        /\ u.fs_ws[w] = FullWs(t, w, FALSE) /\ u.mon[w] = t.mon[w] /\ u.float[w] = t.float[w]
        /\ u.col[w] = t.col[w] => u.row = t.row
    <3> DEFINE no == FALSE
    <3>1. no \in BOOLEAN
      OBVIOUS
    <3> HIDE DEF no
    <3>2. LET v == SetFullscreen(t, w, no) IN
          /\ Touches(t, v, w) /\ v.full[w] = no /\ v.col[w] = FullCol(t, w, no)
          /\ v.fs_ws[w] = FullWs(t, w, no) /\ v.mon[w] = t.mon[w] /\ v.float[w] = t.float[w]
          /\ v.col[w] = t.col[w] => v.row = t.row
      BY <2>2, <3>1, SetFullscreenDoes
    <3> QED
      BY <3>2 DEF no
  <2>6a. u.selmon = t.selmon
    <3> DEFINE no == FALSE
    <3>1. no \in BOOLEAN /\ ~ no
      OBVIOUS
    <3> HIDE DEF no
    <3>2. SetFullscreen(t, w, no).selmon = t.selmon
      BY <2>2, <3>1, SetFullscreenSel
    <3> QED
      BY <3>2 DEF no
  <2> HIDE DEF u
  <2>7. FullCol(t, w, FALSE) = FullCol(s, w, FALSE) /\ FullWs(t, w, FALSE) = NoWs
    BY <2>3 DEF FullCol, FullWs, Alike, Cleared, SameLists
  <2>8. Lowered(s, u, c, w)
    BY <2>3, <2>5, <2>6, <2>7 DEF Lowered, Alike
  <2>9. ASSUME NEW x \in Client, x # w PROVE Alike(s, u, x) \/ Lowered(s, u, c, x)
    <3>1. Alike(t, u, x)
      BY <2>6, <2>9 DEF Touches
    <3>2. Alike(s, t, x) \/ Lowered(s, t, c, x)
      BY DEF Cleared
    <3> QED
      BY <3>1, <3>2 DEF Alike, Lowered
  <2>10. /\ Base(u) /\ SameLists(s, u) /\ u.clients = s.clients
         /\ Keys(s, u)
    BY <2>6 DEF Cleared, Touches, SameLists, Keys, Keyed, Mapped
  <2>10a. u.selmon = s.selmon
    BY <2>2, <2>6a DEF Cleared
  <2>11. Ordered(s, u, Client)
    <3>1. Ordered(t, u, Client)
      <4>1. CASE u.col[w] = t.col[w]
        BY <2>6, <4>1, SameRowsOrdered
      <4>2. CASE u.col[w] # t.col[w]
        BY <2>6, <4>2, OrderedBut DEF Touches
      <4> QED
        BY <4>1, <4>2
    <3>2. \A x \in Client : u.col[x] = s.col[x] => t.col[x] = s.col[x]
      BY <2>3, <2>6 DEF Touches, Alike
    <3> QED
      BY <3>1, <3>2, OrderedTwice DEF Cleared
  <2>12. Cleared(s, u, c)
    BY <2>8, <2>9, <2>10, <2>10a, <2>11 DEF Cleared
  <2> QED
    BY <2>1, <2>12
<1> QED
  BY <1>1, <1>2

\* f lists the desks after the first n rounds.
Rounds(f, s, c, n) ==
    f = [i \in 0..n |-> IF i = 0 THEN s ELSE UnsetOne(f[i - 1], c, s.clients[i])]

\* There is such a list for every n.
LEMMA RoundsExist ==
    ASSUME NEW s, NEW c, NEW n \in Nat
    PROVE  \E f : Rounds(f, s, c, n)
<1> DEFINE T == {k \in Nat : ~ \E f : Rounds(f, s, c, k)}
<1>1. SUFFICES T = {}
  OBVIOUS
<1>2. SUFFICES ASSUME T # {} PROVE FALSE
  OBVIOUS
<1>3. PICK k \in T : \A j \in T : k <= j
  <2>1. T \in SUBSET Nat
    OBVIOUS
  <2> HIDE DEF T
  <2> QED
    BY <1>2, <2>1, LeastNatural
<1>4. k \in Nat /\ ~ \E f : Rounds(f, s, c, k)
  BY <1>3
<1>5. k # 0
  <2> DEFINE f == [i \in 0..0 |-> s]
  <2>1. Rounds(f, s, c, 0)
    <3>1. f = [i \in 0..0 |-> IF i = 0 THEN s ELSE UnsetOne(f[i - 1], c, s.clients[i])]
      OBVIOUS
    <3> QED
      BY <3>1 DEF Rounds
  <2> QED
    BY <1>4, <2>1
<1>6. k - 1 \in Nat /\ ~ (k <= k - 1)
  BY <1>4, <1>5
<1>7. PICK f : Rounds(f, s, c, k - 1)
  BY <1>3, <1>6
<1> DEFINE g == [i \in 0..k |-> IF i = k THEN UnsetOne(f[k - 1], c, s.clients[k]) ELSE f[i]]
<1>8. Rounds(g, s, c, k)
  <2>1. f = [i \in 0..(k - 1) |-> IF i = 0 THEN s ELSE UnsetOne(f[i - 1], c, s.clients[i])]
    BY <1>7 DEF Rounds
  <2>2. \A i \in 0..(k - 1) : f[i] = IF i = 0 THEN s ELSE UnsetOne(f[i - 1], c, s.clients[i])
    BY <2>1
  <2>3. \A i \in 0..(k - 1) : g[i] = f[i]
    BY <1>4
  <2>4. ASSUME NEW i \in 0..k
        PROVE  g[i] = IF i = 0 THEN s ELSE UnsetOne(g[i - 1], c, s.clients[i])
    <3>1. CASE i = k
      <4>1. g[k - 1] = f[k - 1] /\ g[i] = UnsetOne(f[k - 1], c, s.clients[k])
        BY <1>6, <2>3, <3>1
      <4> HIDE DEF g
      <4> QED
        BY <1>4, <1>5, <3>1, <4>1
    <3>2. CASE i # k
      <4>1. i \in 0..(k - 1) /\ (i # 0 => i - 1 \in 0..(k - 1))
        BY <1>4, <3>2
      <4> HIDE DEF g
      <4> QED
        BY <2>2, <2>3, <4>1
    <3> QED
      BY <3>1, <3>2
  <2>5. g = [i \in 0..k |-> g[i]]
    OBVIOUS
  <2> HIDE DEF g
  <2>6. g = [i \in 0..k |-> IF i = 0 THEN s ELSE UnsetOne(g[i - 1], c, s.clients[i])]
    BY <2>4, <2>5
  <2> QED
    BY <2>6 DEF Rounds
<1> QED
  BY <1>4, <1>8

\* After every round, only windows that make way have changed.
LEMMA RoundsCleared ==
    ASSUME NEW s, Base(s), NEW c \in Client, NEW f, Rounds(f, s, c, Len(s.clients))
    PROVE  \A i \in 0..Len(s.clients) : Cleared(s, f[i], c)
<1> DEFINE n == Len(s.clients)
           T == {i \in 0..n : ~ Cleared(s, f[i], c)}
<1>1. n \in Nat /\ \A i \in 1..n : s.clients[i] \in Mapped(s)
  BY ListsPlaces DEF Base, Orders
<1>2. \A i \in 0..n : f[i] = IF i = 0 THEN s ELSE UnsetOne(f[i - 1], c, s.clients[i])
  <2>1. f = [i \in 0..n |-> IF i = 0 THEN s ELSE UnsetOne(f[i - 1], c, s.clients[i])]
    BY DEF Rounds
  <2> QED
    BY <2>1
<1> HIDE DEF n
<1>3. SUFFICES ASSUME T # {} PROVE FALSE
  BY DEF n
<1>4. PICK k \in T : \A j \in T : k <= j
  <2>1. T \in SUBSET Nat
    BY <1>1
  <2> HIDE DEF T
  <2> QED
    BY <1>3, <2>1, LeastNatural
<1>5. k \in 0..n /\ ~ Cleared(s, f[k], c)
  BY <1>4
<1>6. Cleared(s, s, c)
  BY SameRowsOrdered DEF Cleared, SameLists, Keys, Alike
<1>7. k # 0
  BY <1>2, <1>5, <1>6
<1>8. k - 1 \in 0..n /\ k \in 1..n /\ ~ (k <= k - 1)
  BY <1>1, <1>5, <1>7
<1>9. Cleared(s, f[k - 1], c)
  BY <1>4, <1>8
<1>10. Cleared(s, UnsetOne(f[k - 1], c, s.clients[k]), c)
  BY <1>1, <1>8, <1>9, OneCleared
<1> QED
  BY <1>2, <1>5, <1>7, <1>10

\* So it is after the last.
LEMMA UnsetFullscreenDoes ==
    ASSUME NEW s, Base(s), NEW c \in Client
    PROVE  Cleared(s, UnsetFullscreen(s, c), c)
<1> DEFINE n == Len(s.clients)
<1>1. n \in Nat
  BY ListsPlaces DEF Base, Orders
<1>2. UnsetRounds(s, c) = CHOOSE f : Rounds(f, s, c, n)
  BY DEF UnsetRounds, Rounds
<1>3. Rounds(UnsetRounds(s, c), s, c, n)
  BY <1>1, <1>2, RoundsExist
<1>4. n \in 0..n
  BY <1>1
<1> QED
  BY <1>3, <1>4, RoundsCleared DEF UnsetFullscreen

\* A sound desk stays sound.
LEMMA SoundCleared ==
    ASSUME NEW s, Sound(s), NEW t, NEW c, Cleared(s, t, c)
    PROVE  Sound(t) /\ \A x \in Client : Lowered(s, t, c, x) =>
                         t.col[x] = IF s.float[x] THEN s.col[x] ELSE s.fs_ws[x]
<1>1. Counted(t) /\ Base(t) /\ Shows(t) /\ t.owner = s.owner /\ Mapped(t) = Mapped(s)
  BY CountedSame, ShowsSame DEF Sound, Cleared, SameLists, Mapped, Selects
<1>2. ASSUME NEW x \in Client, Lowered(s, t, c, x)
      PROVE  /\ LiveAt(t, x)
             /\ t.col[x] = IF s.float[x] THEN s.col[x] ELSE s.fs_ws[x]
  <2>1. LiveAt(s, x) /\ x \in Mapped(s) /\ s.full[x] /\ s.mon[x] # NoMon
    BY <1>2 DEF Sound, Live, LiveAt, Lowered, MakesWay
  <2>2. t.col[x] = IF s.float[x] THEN s.col[x] ELSE s.fs_ws[x]
    <3>1. s.active[s.mon[x]] # NoWs
      BY <2>1, ActiveOf, MonOf DEF Sound
    <3> QED
      BY <1>2, <2>1, <3>1 DEF Lowered, FullCol, LiveAt
  <2> QED
    BY <1>1, <1>2, <2>1, <2>2 DEF Lowered, LiveAt
<1>3. ASSUME NEW x \in Client, Alike(s, t, x) PROVE LiveAt(t, x)
  BY <1>3, LiveSame DEF Sound, Live, Cleared, SameLists
<1> QED
  BY <1>1, <1>2, <1>3 DEF Sound, Live, Cleared

-----------------------------------------------------------------------------
(* Windows that open. *)

\* The fullscreen flag alone.
FullOnly(s, c, on) == [s EXCEPT !.full[c] = on]

\* Nothing else changes with it.
LEMMA FullOnlyFlag ==
    ASSUME NEW s, Base(s), NEW c \in Client, NEW on \in BOOLEAN
    PROVE  LET t == FullOnly(s, c, on) IN
           /\ Touches(s, t, c) /\ t.kb = s.kb /\ t.full[c] = on /\ t.fs_ws[c] = s.fs_ws[c]
           /\ t.mon[c] = s.mon[c] /\ t.col[c] = s.col[c] /\ t.float[c] = s.float[c]
           /\ t.row = s.row
<1> DEFINE t == FullOnly(s, c, on)
<1>1. s \in Desk /\ Shaped(s)
  BY DeskShaped DEF Base
<1>2. Shaped(t)
  BY <1>1 DEF FullOnly, Shaped, Fields
<1>3. /\ SameLists(s, t) /\ t.clients = s.clients /\ t.fstack = s.fstack /\ t.row = s.row
      /\ t.focused = s.focused /\ t.col = s.col /\ t.kb = s.kb /\ t.selmon = s.selmon
      /\ t.mon = s.mon /\ t.float = s.float /\ t.full = [s.full EXCEPT ![c] = on]
      /\ t.fs_ws = s.fs_ws
  BY <1>1 DEF FullOnly, Desk, SameLists
<1> HIDE DEF t
<1>4. t.full \in [Client -> BOOLEAN] /\ t.full[c] = on
  BY <1>1, <1>3, DeskTyped
<1>5. \A x \in Client \ {c} : Alike(s, t, x)
  BY <1>1, <1>3, DeskTyped DEF Alike
<1>6. Touches(s, t, c)
  BY <1>1, <1>2, <1>3, <1>4, <1>5, Reflagged, DeskTyped
<1> QED
  BY <1>3, <1>4, <1>6 DEF t

\* A new window in front of both lists.
LEMMA ListDoes ==
    ASSUME NEW s, Base(s), NEW c \in Client, c \notin Mapped(s)
    PROVE  LET t == List(s, c) IN
           /\ Base(t) /\ SameLists(s, t) /\ Mapped(t) = Mapped(s) \cup {c} /\ t.kb = s.kb
           /\ t.row = s.row /\ t.selmon = s.selmon /\ \A x \in Client : Alike(s, t, x)
<1> DEFINE t == List(s, c)
<1>1. s \in Desk /\ Shaped(s)
  BY DeskShaped DEF Base
<1>2. Shaped(t)
  BY <1>1 DEF List, Shaped, Fields
<1>3. /\ SameLists(s, t) /\ SamePlaces(s, t) /\ t.full = s.full /\ t.float = s.float
      /\ t.row = s.row /\ t.focused = s.focused /\ t.kb = s.kb /\ t.selmon = s.selmon
      /\ t.clients = <<c>> \o s.clients /\ t.fstack = <<c>> \o s.fstack
  BY <1>1 DEF List, Desk, SameLists, SamePlaces
<1> HIDE DEF t
<1>4. Lists(t.clients, Mapped(s) \cup {c}) /\ Lists(t.fstack, Mapped(s) \cup {c})
  <2>1. Lists(s.clients, Mapped(s)) /\ Lists(s.fstack, Mapped(s))
    BY DEF Base, Orders
  <2>2. Lists(<<c>> \o s.clients, Mapped(s) \cup {c})
    BY <2>1, PushLists
  <2>3. Lists(<<c>> \o s.fstack, Mapped(s) \cup {c})
    BY <2>1, PushLists
  <2> QED
    BY <1>3, <2>2, <2>3
<1>5. Mapped(t) = Mapped(s) \cup {c}
  BY <1>4 DEF Lists, Mapped
<1>6. t \in Desk
  <2>1. t.clients \in Seq(Client) /\ t.fstack \in Seq(Client)
    BY <1>4 DEF Lists
  <2> QED
    BY <1>1, <1>2, <1>3, <2>1, DeskTyped, ShapedDesk DEF SameLists, SamePlaces
<1>7. ASSUME NEW w \in Ws PROVE RowOK(t, w)
  <2>1. InRow(t, w) = InRow(s, w)
    BY <1>3 DEF InRow, SamePlaces
  <2>2. RowOK(s, w)
    BY DEF Base, Rows
  <2> QED
    BY <1>3, <2>1, <2>2 DEF RowOK
<1>8. Base(t)
  BY <1>4, <1>5, <1>6, <1>7 DEF Base, Orders, Rows
<1> QED
  BY <1>3, <1>5, <1>8 DEF Alike, SamePlaces, t

\* Window c, new, on the workspace that m shows.
Arrived(s, t, c, m) ==
    /\ Base(t) /\ SameLists(s, t) /\ Mapped(t) = Mapped(s) \cup {c}
    /\ Keys(s, t) /\ Selects(s, t)
    /\ \A x \in Client \ {c} : Alike(s, t, x)
    /\ Ordered(s, t, Client \ {c})
    /\ t.mon[c] = m /\ t.col[c] \in {NoWs, s.active[m]}
    /\ t.full[c] => t.col[c] = NoWs /\ t.fs_ws[c] = s.active[m]
    /\ ~ t.full[c] => t.fs_ws[c] = NoWs
    /\ ~ t.full[c] /\ ~ t.float[c] => t.col[c] = s.active[m]

\* The rows after one more step of that window.
LEMMA ArrivedOrder ==
    ASSUME NEW s, NEW c, NEW m, NEW u, NEW t, Arrived(s, u, c, m), Touches(u, t, c)
    PROVE  Ordered(s, t, Client \ {c})
BY OrderedTwice DEF Arrived, Touches, Alike

\* It is where it belongs.
LEMMA ArrivedSound ==
    ASSUME NEW s, Sound(s), NEW c \in Client, NEW m \in Mon, NEW t, Arrived(s, t, c, m)
    PROVE  Sound(t)
<1>1. s.active[m] # NoWs /\ s.owner[s.active[m]] = m /\ m # NoMon
  BY ActiveOf DEF Sound, Mon, NoMon
<1>2. LiveAt(t, c)
  BY <1>1 DEF Arrived, LiveAt, SameLists
<1>3. ASSUME NEW x \in Client, x # c PROVE LiveAt(t, x)
  BY <1>3 DEF Sound, Live, LiveAt, Arrived, Alike, SameLists
<1>4. Counted(t) /\ Shows(t)
  BY CountedSame, ShowsSame DEF Sound, Arrived
<1> QED
  BY <1>2, <1>3, <1>4 DEF Sound, Live, Arrived

\* Focus may move afterwards.
LEMMA ArrivedQuiet ==
    ASSUME NEW s, NEW c \in Client, NEW m, NEW u, NEW t, Arrived(s, u, c, m), Quiet(u, t)
    PROVE  Arrived(s, t, c, m)
<1>1. Alike(u, t, c) /\ Touches(u, t, c)
  BY QuietTouches
<1>2. Mapped(t) = Mapped(u)
  BY <1>1 DEF Touches, Mapped
<1> QED
  BY <1>1, <1>2, ArrivedOrder
     DEF Arrived, Touches, Alike, SameLists, Keys, Keyed, Selects

\* And the window may be floated where it is.
LEMMA ArrivedFloat ==
    ASSUME NEW s, NEW c \in Client, NEW m, NEW u, Arrived(s, u, c, m), NEW on \in BOOLEAN,
           u.float[c] => on
    PROVE  Arrived(s, [u EXCEPT !.float[c] = on], c, m)
<1> DEFINE t == [u EXCEPT !.float[c] = on]
<1>1. /\ Touches(u, t, c) /\ t.float[c] = on /\ t.mon[c] = u.mon[c] /\ t.col[c] = u.col[c]
      /\ t.fs_ws[c] = u.fs_ws[c] /\ t.full[c] = u.full[c]
  BY FloatFlag DEF Arrived
<1> HIDE DEF t
<1>2. Mapped(t) = Mapped(u)
  BY <1>1 DEF Touches, Mapped
<1>3. Arrived(s, t, c, m)
  BY <1>1, <1>2, ArrivedOrder
     DEF Arrived, Touches, Alike, SameLists, Keys, Keyed, Selects
<1> QED
  BY <1>3 DEF t

\* setmon of a window that was listed just now.
LEMMA SendNew ==
    ASSUME NEW s, Base(s), NEW c \in Client, c \notin Mapped(s), s.mon[c] = NoMon,
           NEW m \in Mon, NEW u, Touches(List(s, c), u, c), u.mon[c] = s.mon[c]
    PROVE  /\ Arrived(s, SetMon(u, c, m), c, m)
           /\ SetMon(u, c, m).full[c] = u.full[c] /\ SetMon(u, c, m).float[c] = u.float[c]
           /\ ~ u.full[c] => SetMon(u, c, m).fs_ws[c] = NoWs
<1> DEFINE l == List(s, c)
           t == SetMon(u, c, m)
<1>1. /\ Base(l) /\ SameLists(s, l) /\ Mapped(l) = Mapped(s) \cup {c} /\ l.kb = s.kb
      /\ l.row = s.row /\ l.selmon = s.selmon /\ \A x \in Client : Alike(s, l, x)
  BY ListDoes
<1> HIDE DEF l
<1>2. Touches(l, u, c) /\ u.mon[c] = NoMon
  BY DEF l
<1>3. m # NoMon /\ Base(u) /\ u.active = s.active
  BY <1>1, <1>2 DEF Mon, NoMon, Touches, SameLists
<1>4. /\ Touches(u, t, c) /\ t.mon[c] = m /\ t.col[c] = SentCol(u, c, m)
      /\ t.fs_ws[c] = SentWs(u, c, m) /\ t.full[c] = u.full[c]
      /\ t.float[c] = u.float[c] /\ Keyed(t)
  BY <1>2, <1>3, SetMonDoes
<1> HIDE DEF t
<1>5. SameLists(s, t) /\ Mapped(t) = Mapped(s) \cup {c}
  BY <1>1, <1>2, <1>4 DEF Touches, SameLists, Mapped
<1>6. \A x \in Client \ {c} : Alike(s, t, x)
  BY <1>1, <1>2, <1>4 DEF Touches, Alike
<1>7. Ordered(s, t, Client \ {c})
  <2>1. Ordered(s, l, Client \ {c})
    BY <1>1, SameRowsOrdered
  <2>2. Touches(l, t, c)
    BY <1>2, <1>4, TouchesTwice
  <2> QED
    BY <1>1, <2>1, <2>2, OrderedTwice DEF Touches, Alike
<1>8. Arrived(s, t, c, m)
  BY <1>1, <1>2, <1>3, <1>4, <1>5, <1>6, <1>7
     DEF Arrived, Touches, SentCol, SentWs, Keys, Selects
<1>9. ~ u.full[c] => t.fs_ws[c] = NoWs
  BY <1>3, <1>4 DEF SentWs
<1> QED
  BY <1>4, <1>8, <1>9 DEF t

\* mapnotify before its game paths.
LEMMA PlacedDoes ==
    ASSUME NEW s, Sound(s), NEW c \in Client, c \notin Mapped(s), NEW m \in Mon,
           NEW float \in BOOLEAN
    PROVE  LET t == Placed(s, c, m, float) IN
           \E n \in Mon : /\ Arrived(s, t, c, n)
                          /\ t.full[c] = s.full[c] /\ t.float[c] = float
<1> DEFINE p == Parent[c]
           n == IF p = NoClient THEN m ELSE IF s.mon[p] # NoMon THEN s.mon[p] ELSE s.selmon
           l == List(s, c)
           u == [l EXCEPT !.float[c] = float]
<1>1. Base(s) /\ s.mon[c] = NoMon /\ s.selmon \in Mon
  BY DEF Sound, Base, Shows, Live, LiveAt
<1>2. n \in Mon
  <2>1. p \in Client \cup {NoClient}
    BY ClientAssumption
  <2> QED
    BY <1>1, <2>1, MonOf
<1>3. Base(l) /\ Alike(s, l, c)
  BY <1>1, ListDoes
<1> HIDE DEF l
<1>4. Touches(l, u, c) /\ u.mon[c] = l.mon[c] /\ u.full[c] = l.full[c] /\ u.float[c] = float
  BY <1>3, FloatFlag
<1>5. Placed(s, c, m, float) = SetMon(u, c, n)
  BY DEF Placed, l
<1> HIDE DEF u, n
<1>6. Touches(List(s, c), u, c) /\ u.mon[c] = s.mon[c]
  BY <1>3, <1>4 DEF l, Alike
<1>7. /\ Arrived(s, SetMon(u, c, n), c, n)
      /\ SetMon(u, c, n).full[c] = u.full[c] /\ SetMon(u, c, n).float[c] = u.float[c]
  BY <1>1, <1>2, <1>6, SendNew
<1> QED
  BY <1>2, <1>3, <1>4, <1>5, <1>7 DEF Alike

\* A window opened: it arrived, and windows fullscreen there made way for it.
OpenedAt(s, t, c, m, u) == m \in Mon /\ Arrived(s, u, c, m) /\ Cleared(u, t, c)
Opened(s, t, c) == c \notin Mapped(s) /\ \E m, u : OpenedAt(s, t, c, m, u)

\* It may be that none had to.
LEMMA OpenedAlone ==
    ASSUME NEW s, NEW t, NEW c \in Client, c \notin Mapped(s), NEW m \in Mon,
           Arrived(s, t, c, m)
    PROVE  Opened(s, t, c)
<1>1. Cleared(t, t, c)
  BY SameRowsOrdered DEF Cleared, Arrived, SameLists, Keys, Alike, Selects
<1>2. OpenedAt(s, t, c, m, t)
  BY <1>1 DEF OpenedAt
<1> QED
  BY <1>2 DEF Opened

\* A sound desk stays sound.
LEMMA OpenedSound ==
    ASSUME NEW s, Sound(s), NEW c \in Client, NEW t, Opened(s, t, c)
    PROVE  Sound(t) /\ Keys(s, t) /\ Mapped(t) = Mapped(s) \cup {c}
<1>1. PICK m, u : OpenedAt(s, t, c, m, u)
  BY DEF Opened
<1>2. Sound(u)
  BY <1>1, ArrivedSound DEF OpenedAt
<1>3. Sound(t)
  BY <1>1, <1>2, SoundCleared DEF OpenedAt
<1>4. Mapped(t) = Mapped(u)
  BY <1>1 DEF OpenedAt, Cleared, Mapped
<1> QED
  BY <1>1, <1>3, <1>4 DEF OpenedAt, Arrived, Cleared, Keys, Keyed

\* The windows of an opened desk that made way.
LEMMA ArrivedCleared ==
    ASSUME NEW s, NEW c \in Client, c \notin Mapped(s), NEW m \in Mon, NEW u,
           Arrived(s, u, c, m)
    PROVE  Opened(s, UnsetFullscreen(u, c), c)
<1>1. Cleared(u, UnsetFullscreen(u, c), c)
  BY UnsetFullscreenDoes DEF Arrived
<1>2. OpenedAt(s, UnsetFullscreen(u, c), c, m, u)
  BY <1>1 DEF OpenedAt
<1> QED
  BY <1>2 DEF Opened

\* mapnotify of an ordinary window
LEMMA MapWindowDoes ==
    ASSUME Sound(desk), NEW c \in Client, NEW m \in Mon, NEW float \in BOOLEAN,
           NEW tray \in BOOLEAN, MapWindow(c, m, float, tray)
    PROVE  Opened(desk, desk', c)
<1> DEFINE p == Placed(desk, c, m, float)
           u == [p EXCEPT !.float[c] = p.float[c] \/ tray]
<1>1. c \notin Mapped(desk)
  BY DEF MapWindow
<1>2. PICK n \in Mon : Arrived(desk, p, c, n) /\ p.float[c] = float
  BY <1>1, PlacedDoes
<1>3. p.mon[c] # NoMon
  BY <1>2 DEF Arrived, Mon, NoMon
<1>4. desk' = UnsetFullscreen(u, c)
  BY <1>3 DEF MapWindow, Open
<1> HIDE DEF p
<1>5. Arrived(desk, u, c, n)
  <2>1. (p.float[c] \/ tray) \in BOOLEAN /\ (p.float[c] => (p.float[c] \/ tray))
    BY <1>2
  <2> QED
    BY <1>2, <2>1, ArrivedFloat
<1> HIDE DEF u
<1> QED
  BY <1>1, <1>4, <1>5, ArrivedCleared

\* Focusing the new window is a quiet step.
LEMMA ArrivedFocus ==
    ASSUME NEW s, NEW c \in Client, NEW m \in Mon, NEW u, Arrived(s, u, c, m)
    PROVE  Arrived(s, Focus(u, c), c, m)
<1>1. Base(u) /\ c \in Mapped(u)
  BY DEF Arrived
<1>2. Quiet(u, Focus(u, c))
  BY <1>1, FocusQuiet
<1> QED
  BY <1>2, ArrivedQuiet

\* mapnotify of the main window of a game
LEMMA MapGameDoes ==
    ASSUME Sound(desk), NEW c \in Client, NEW m \in Mon, MapGame(c, m)
    PROVE  Opened(desk, desk', c)
<1> DEFINE l == List(desk, c)
           u == FullOnly(l, c, TRUE)
           t == SetMon(u, c, m)
<1>1. c \notin Mapped(desk) /\ desk' = UnsetFullscreen(Focus(t, c), c)
  BY DEF MapGame, FullOnly
<1>2. Base(desk) /\ desk.mon[c] = NoMon
  BY <1>1 DEF Sound, Live, LiveAt
<1>3. Base(l) /\ Alike(desk, l, c)
  BY <1>1, <1>2, ListDoes
<1>4. Touches(l, u, c) /\ u.mon[c] = l.mon[c]
  <2> HIDE DEF l
  <2>1. ASSUME NEW on \in BOOLEAN
        PROVE  LET v == FullOnly(l, c, on) IN Touches(l, v, c) /\ v.mon[c] = l.mon[c]
    BY <1>3, FullOnlyFlag
  <2> QED
    BY <2>1
<1> HIDE DEF u
<1>5. Arrived(desk, t, c, m)
  BY <1>1, <1>2, <1>3, <1>4, SendNew DEF Alike
<1> HIDE DEF t
<1>6. Arrived(desk, Focus(t, c), c, m)
  BY <1>5, ArrivedFocus
<1> QED
  BY <1>1, <1>6, ArrivedCleared

\* mapnotify of its splash
LEMMA MapSplashDoes ==
    ASSUME Sound(desk), NEW c \in Client, NEW m \in Mon, MapSplash(c, m)
    PROVE  Opened(desk, desk', c)
<1> DEFINE l == List(desk, c)
           u == [l EXCEPT !.float[c] = TRUE]
           t == SetMon(u, c, m)
<1>1. c \notin Mapped(desk) /\ desk' = Focus(t, c)
  BY DEF MapSplash
<1>2. Base(desk) /\ desk.mon[c] = NoMon
  BY <1>1 DEF Sound, Live, LiveAt
<1>3. Base(l) /\ Alike(desk, l, c)
  BY <1>1, <1>2, ListDoes
<1>4. Touches(l, u, c) /\ u.mon[c] = l.mon[c]
  <2> HIDE DEF l
  <2>1. ASSUME NEW on \in BOOLEAN
        PROVE  LET v == [l EXCEPT !.float[c] = on] IN Touches(l, v, c) /\ v.mon[c] = l.mon[c]
    BY <1>3, FloatFlag
  <2> QED
    BY <2>1
<1> HIDE DEF u
<1>5. Arrived(desk, t, c, m)
  BY <1>1, <1>2, <1>3, <1>4, SendNew DEF Alike
<1> HIDE DEF t
<1>6. Arrived(desk, Focus(t, c), c, m)
  BY <1>5, ArrivedFocus
<1> QED
  BY <1>1, <1>6, OpenedAlone

\* mapnotify of a game that was placed as a tile first
LEMMA MapLateGameDoes ==
    ASSUME Sound(desk), NEW c \in Client, NEW m \in Mon, NEW small \in BOOLEAN,
           MapLateGame(c, m, small)
    PROVE  Opened(desk, desk', c)
<1> DEFINE p == Placed(desk, c, m, FALSE)
           f == [p EXCEPT !.float[c] = TRUE]
           g == SetFullscreen(p, c, TRUE)
           u == IF small THEN f ELSE g
<1>1. c \notin Mapped(desk) /\ ~ desk.full[c] /\ desk' = Focus(u, c)
  BY DEF MapLateGame, OpenLate
<1>2. PICK n \in Mon : Arrived(desk, p, c, n) /\ p.full[c] = desk.full[c]
  <2> DEFINE no == FALSE
  <2>1. no \in BOOLEAN /\ c \notin Mapped(desk) /\ p = Placed(desk, c, m, no)
    BY <1>1
  <2> HIDE DEF no, p
  <2> QED
    BY <2>1, PlacedDoes
<1> HIDE DEF p
<1>3. Base(p) /\ ~ p.full[c] /\ p.mon[c] = n /\ p.mon[c] # NoMon /\ p.active = desk.active
  BY <1>1, <1>2 DEF Arrived, SameLists, Mon, NoMon
<1>4. Arrived(desk, f, c, n)
  BY <1>2, ArrivedFloat
<1>5. /\ Touches(p, g, c) /\ g.full[c] = TRUE /\ g.col[c] = FullCol(p, c, TRUE)
      /\ g.fs_ws[c] = FullWs(p, c, TRUE) /\ g.mon[c] = p.mon[c] /\ g.float[c] = p.float[c]
  <2> DEFINE yes == TRUE
  <2>1. yes \in BOOLEAN
    OBVIOUS
  <2> HIDE DEF yes, p
  <2>2. LET t == SetFullscreen(p, c, yes) IN
        /\ Touches(p, t, c) /\ t.full[c] = yes /\ t.col[c] = FullCol(p, c, yes)
        /\ t.fs_ws[c] = FullWs(p, c, yes) /\ t.mon[c] = p.mon[c] /\ t.float[c] = p.float[c]
    BY <1>3, <2>1, SetFullscreenDoes
  <2> QED
    BY <2>2 DEF yes
<1> HIDE DEF f, g
<1>6. g.col[c] = NoWs /\ g.fs_ws[c] = desk.active[n]
  BY <1>3, <1>5 DEF FullCol, FullWs
<1>7. Mapped(g) = Mapped(p)
  BY <1>5 DEF Touches, Mapped
<1>8. Arrived(desk, g, c, n)
  <2>1. \A x \in Client \ {c} : Alike(desk, g, x)
    BY <1>2, <1>5 DEF Arrived, Touches, Alike
  <2>2. /\ Base(g) /\ SameLists(desk, g) /\ Keys(desk, g) /\ Selects(desk, g)
        /\ g.mon[c] = n /\ g.full[c]
    BY <1>2, <1>3, <1>5, <1>7 DEF Arrived, Touches, SameLists, Keys, Keyed, Selects
  <2> QED
    BY <1>2, <1>5, <1>6, <1>7, <2>1, <2>2, ArrivedOrder DEF Arrived
<1>9. Arrived(desk, u, c, n)
  BY <1>4, <1>8
<1> HIDE DEF u
<1>10. Arrived(desk, Focus(u, c), c, n)
  BY <1>9, ArrivedFocus
<1> QED
  BY <1>1, <1>10, OpenedAlone

\* A window that is not listed changed, and is still not on any workspace.
Prepared(s, t, c) == /\ c \notin Mapped(s) /\ Touches(s, t, c)
                     /\ t.mon[c] = NoMon /\ t.col[c] = NoWs

\* commitnotify
LEMMA InitialCommitDoes ==
    ASSUME Sound(desk), NEW c \in Client, NEW m \in Mon, NEW float \in BOOLEAN,
           InitialCommit(c, m, float)
    PROVE  Prepared(desk, desk', c)
<1> DEFINE u == [desk EXCEPT !.float[c] = float]
           v == SetMon(u, c, m)
           t == SetMon(v, c, NoMon)
<1>1. c \notin Mapped(desk) /\ desk.mon[c] = NoMon /\ desk' = t /\ m # NoMon /\ Base(desk)
  BY DEF InitialCommit, Sound, Mon, NoMon
<1>2. Touches(desk, u, c) /\ u.mon[c] = NoMon
  BY <1>1, FloatFlag
<1> HIDE DEF u
<1>3. Touches(u, v, c) /\ v.mon[c] = m
  <2>1. Base(u) /\ u.mon[c] # m /\ m \in Mon \cup {NoMon}
    BY <1>1, <1>2 DEF Touches
  <2> QED
    BY <2>1, SetMonDoes
<1> HIDE DEF v
<1>4. Touches(v, t, c) /\ t.mon[c] = NoMon /\ t.col[c] = SentCol(v, c, NoMon)
  <2>1. Base(v) /\ v.mon[c] # NoMon /\ NoMon \in Mon \cup {NoMon}
    BY <1>1, <1>3 DEF Touches
  <2> QED
    BY <2>1, SetMonDoes
<1> HIDE DEF t
<1>5. Touches(desk, t, c)
  BY <1>2, <1>3, <1>4, TouchesTwice
<1> QED
  BY <1>1, <1>4, <1>5 DEF Prepared, SentCol

\* The client object is freed.
LEMMA ForgetDoes ==
    ASSUME Sound(desk), NEW c \in Client, Forget(c)
    PROVE  Prepared(desk, desk', c)
<1> DEFINE no == FALSE
           f == FullOnly(desk, c, no)
           t == [f EXCEPT !.float[c] = no]
<1>1. c \notin Mapped(desk) /\ desk' = t /\ Base(desk)
  BY DEF Forget, FullOnly, Sound
<1>2. desk.mon[c] = NoMon /\ desk.col[c] = NoWs /\ no \in BOOLEAN
  BY <1>1 DEF Sound, Live, LiveAt
<1> HIDE DEF no
<1>3. Touches(desk, f, c) /\ f.mon[c] = desk.mon[c] /\ f.col[c] = desk.col[c]
  BY <1>1, <1>2, FullOnlyFlag
<1> HIDE DEF f
<1>4. Touches(f, t, c) /\ t.mon[c] = f.mon[c] /\ t.col[c] = f.col[c]
  <2>1. Base(f)
    BY <1>3 DEF Touches
  <2> QED
    BY <1>2, <2>1, FloatFlag
<1> HIDE DEF t
<1>5. Touches(desk, t, c)
  BY <1>3, <1>4, TouchesTwice
<1> QED
  BY <1>1, <1>2, <1>3, <1>4, <1>5 DEF Prepared

\* A sound desk stays sound.
LEMMA PreparedSound ==
    ASSUME NEW s, Sound(s), NEW c \in Client, NEW t, Prepared(s, t, c)
    PROVE  Sound(t) /\ Keys(s, t) /\ t.clients = s.clients
<1>1. LiveAt(t, c)
  BY DEF Prepared, LiveAt, Touches, Mapped
<1> QED
  BY <1>1, SoundTouched DEF Prepared, Touches

-----------------------------------------------------------------------------
(* Numbering. *)

\* How many elements of K have a smaller number than w.
Below(K, f, w) == {v \in K : f[v] < f[w]}
Rank(K, f, w) == Cardinality(Below(K, f, w))

\* A smaller number has a smaller rank.
LEMMA RankGrows ==
    ASSUME NEW K, IsFiniteSet(K), NEW f, \A x \in K : f[x] \in Int,
           NEW v \in K, NEW w \in K, f[v] < f[w]
    PROVE  /\ Rank(K, f, v) \in Nat /\ Rank(K, f, w) \in Nat
           /\ Rank(K, f, v) < Rank(K, f, w)
<1>1. Below(K, f, v) \in SUBSET Below(K, f, w)
  BY DEF Below
<1>2. v \in Below(K, f, w) /\ v \notin Below(K, f, v)
  BY DEF Below
<1>3. IsFiniteSet(Below(K, f, w)) /\ IsFiniteSet(Below(K, f, v))
  BY FS_Subset DEF Below
<1>4. Rank(K, f, v) \in Nat /\ Rank(K, f, w) \in Nat
  BY <1>3, FS_CardinalityType DEF Rank
<1>5. Rank(K, f, v) <= Rank(K, f, w) /\ Rank(K, f, v) # Rank(K, f, w)
  BY <1>1, <1>2, <1>3, FS_Subset DEF Rank
<1> QED
  BY <1>4, <1>5

\* If numbers are distinct, ranks are 0, 1, 2, ... without a hole.
LEMMA Ranks ==
    ASSUME NEW K, IsFiniteSet(K), NEW f, \A v \in K : f[v] \in Int,
           \A v, w \in K : f[v] = f[w] => v = w
    PROVE  {Rank(K, f, w) : w \in K} = 0..(Cardinality(K) - 1)
<1> DEFINE n == Cardinality(K)
           T == 0..(n - 1)
           r == [w \in K |-> Rank(K, f, w)]
<1>1. n \in Nat
  BY FS_CardinalityType
<1>2. ASSUME NEW w \in K PROVE IsFiniteSet(Below(K, f, w)) /\ Rank(K, f, w) \in T
  <2>1. Below(K, f, w) \in SUBSET (K \ {w})
    BY DEF Below
  <2>2. IsFiniteSet(K \ {w}) /\ Cardinality(K \ {w}) = n - 1
    BY FS_RemoveElement
  <2>3. IsFiniteSet(Below(K, f, w)) /\ Rank(K, f, w) <= n - 1
    BY <2>1, <2>2, FS_Subset DEF Rank
  <2>4. Rank(K, f, w) \in Nat
    BY <2>3, FS_CardinalityType DEF Rank
  <2> QED
    BY <1>1, <2>3, <2>4
<1>3. ASSUME NEW v \in K, NEW w \in K, f[v] < f[w] PROVE Rank(K, f, v) # Rank(K, f, w)
  <2>1. Below(K, f, v) \in SUBSET Below(K, f, w)
    BY <1>3 DEF Below
  <2>2. v \in Below(K, f, w) /\ v \notin Below(K, f, v)
    BY <1>3 DEF Below
  <2> QED
    BY <1>2, <2>1, <2>2, FS_Subset DEF Rank
<1>4. ASSUME NEW v \in K, NEW w \in K, v # w PROVE Rank(K, f, v) # Rank(K, f, w)
  <2>1. f[v] \in Int /\ f[w] \in Int /\ f[v] # f[w]
    BY <1>4
  <2>2. f[v] < f[w] \/ f[w] < f[v]
    BY <2>1
  <2> QED
    BY <1>3, <2>2
<1>5. r \in [K -> T] /\ \A w \in K : r[w] = Rank(K, f, w)
  BY <1>2
<1> HIDE DEF r
<1>6. r \in Injection(K, T)
  BY <1>4, <1>5 DEF Injection, IsInjective
<1>7. IsFiniteSet(T) /\ Cardinality(T) = n
  <2>1. 0 \in Int /\ n - 1 \in Int
    BY <1>1
  <2> QED
    BY <1>1, <2>1, FS_Interval
<1> HIDE DEF T
<1>8. r \in Surjection(K, T)
  BY <1>6, <1>7, FS_Injection
<1>9. {Rank(K, f, w) : w \in K} = T
  BY <1>5, <1>8 DEF Surjection
<1> QED
  BY <1>9 DEF T

\* And the other way round: numbers without a hole are distinct, and ranks.
LEMMA NumbersAreRanks ==
    ASSUME NEW K, IsFiniteSet(K), NEW f, NEW n \in Nat, Cardinality(K) = n,
           {f[w] : w \in K} = 0..(n - 1)
    PROVE  /\ \A w \in K : f[w] \in Nat /\ f[w] = Rank(K, f, w)
           /\ \A v, w \in K : f[v] = f[w] => v = w
<1> DEFINE T == 0..(n - 1)
           g == [w \in K |-> f[w]]
<1>1. \A w \in K : f[w] \in T
  OBVIOUS
<1>2. IsFiniteSet(T) /\ Cardinality(T) = n
  <2>1. 0 \in Int /\ n - 1 \in Int
    OBVIOUS
  <2> QED
    BY <2>1, FS_Interval
<1>3. g \in Surjection(K, T)
  BY <1>1 DEF Surjection
<1> HIDE DEF T
<1>4. g \in Injection(K, T)
  BY <1>2, <1>3, FS_SurjSameCardinalityImpliesInj
<1>5. \A v, w \in K : f[v] = f[w] => v = w
  BY <1>4 DEF Injection, IsInjective
<1>6. ASSUME NEW w \in K PROVE f[w] \in Nat /\ f[w] = Rank(K, f, w)
  <2> DEFINE S == Below(K, f, w)
             U == 0..(f[w] - 1)
             h == [v \in S |-> f[v]]
  <2>1. f[w] \in Nat /\ f[w] <= n - 1
    BY <1>1 DEF T
  <2>2. \A v \in S : f[v] \in U /\ v \in K
    BY <1>1, <2>1 DEF Below, T
  <2>3. ASSUME NEW u \in U PROVE \E v \in S : f[v] = u
    <3>1. u \in 0..(n - 1) /\ u < f[w]
      BY <2>1
    <3>2. PICK v \in K : f[v] = u
      BY <3>1
    <3> QED
      BY <3>1, <3>2 DEF Below
  <2>4. IsFiniteSet(S)
    BY FS_Subset DEF Below
  <2> HIDE DEF S, U
  <2>5. h \in Surjection(S, U) /\ h \in Injection(S, U)
    BY <1>5, <2>2, <2>3 DEF Surjection, Injection, IsInjective
  <2>6. Cardinality(U) = Cardinality(S)
    BY <2>4, <2>5, FS_Surjection
  <2>7. Cardinality(U) = f[w]
    <3>1. 0 \in Int /\ f[w] - 1 \in Int
      BY <2>1
    <3>2. Cardinality(0..(f[w] - 1)) = IF 0 > f[w] - 1 THEN 0 ELSE f[w] - 1 - 0 + 1
      BY <3>1, FS_Interval
    <3> QED
      BY <2>1, <3>2 DEF U
  <2> QED
    BY <2>1, <2>6, <2>7 DEF Rank, S
<1> QED
  BY <1>5, <1>6

\* The workspaces of a monitor are finitely many, and their numbers natural and
\* distinct.
LEMMA OwnNumbered ==
    ASSUME NEW s, Counted(s), NEW m \in Mon
    PROVE  /\ IsFiniteSet(Own(s, m)) /\ s.next[m] \in Nat
           /\ s.next[m] = Cardinality(Own(s, m))
           /\ \A w \in Own(s, m) : s.idx[w] \in Nat /\ s.idx[w] = Rank(Own(s, m), s.idx, w)
           /\ \A v, w \in Own(s, m) : s.idx[v] = s.idx[w] => v = w
<1>1. IsFiniteSet(Own(s, m))
  BY MemoryAssumption, FS_Subset DEF Own
<1>2. s.next[m] \in Nat /\ Cardinality(Own(s, m)) = s.next[m]
  BY <1>1, FS_CardinalityType DEF Counted, InOrder
<1>3. {s.idx[w] : w \in Own(s, m)} = 0..(s.next[m] - 1)
  BY DEF Counted, InOrder
<1> QED
  BY <1>1, <1>2, <1>3, NumbersAreRanks

\* A set of numbered workspaces has a lowest and a highest one.
LEMMA LowestIn ==
    ASSUME NEW s, NEW W, W # {}, \A w \in W : s.idx[w] \in Nat
    PROVE  Lowest(s, W) \in W /\ \A v \in W : s.idx[Lowest(s, W)] <= s.idx[v]
<1> DEFINE T == {s.idx[w] : w \in W}
<1>1. T \in SUBSET Nat /\ T # {}
  OBVIOUS
<1>2. \E x \in T : \A y \in T : x <= y
  BY <1>1, LeastNatural
<1>3. \E w \in W : \A v \in W : s.idx[w] <= s.idx[v]
  BY <1>2
<1> QED
  BY <1>3 DEF Lowest

\* The highest, as long as the numbers have a bound.
LEMMA HighestIn ==
    ASSUME NEW s, NEW W, W # {}, NEW n \in Nat, \A w \in W : s.idx[w] \in 0..n
    PROVE  Highest(s, W) \in W /\ \A v \in W : s.idx[v] <= s.idx[Highest(s, W)]
<1> DEFINE T == {n - s.idx[w] : w \in W}
<1>1. T \in SUBSET Nat /\ T # {}
  OBVIOUS
<1>2. \E x \in T : \A y \in T : x <= y
  BY <1>1, LeastNatural
<1>3. PICK w \in W : \A y \in T : n - s.idx[w] <= y
  BY <1>2
<1>4. ASSUME NEW v \in W PROVE s.idx[w] >= s.idx[v]
  <2>1. n - s.idx[w] <= n - s.idx[v]
    BY <1>3
  <2>2. s.idx[w] \in 0..n /\ s.idx[v] \in 0..n
    OBVIOUS
  <2> QED
    BY <2>1, <2>2
<1>5. Highest(s, W) \in W /\ \A v \in W : s.idx[Highest(s, W)] >= s.idx[v]
  BY <1>4 DEF Highest
<1> QED
  BY <1>5

\* The lowest of some workspaces of a monitor.
LEMMA LowestOf ==
    ASSUME NEW s, Counted(s), NEW m \in Mon, NEW W \in SUBSET Own(s, m), W # {}
    PROVE  Lowest(s, W) \in W /\ \A v \in W : s.idx[Lowest(s, W)] <= s.idx[v]
<1>1. \A w \in W : s.idx[w] \in Nat
  BY OwnNumbered
<1> QED
  BY <1>1, LowestIn

\* The workspace with the highest number of a set of them is one of the set.
LEMMA HighestOf ==
    ASSUME NEW s, Counted(s), NEW m \in Mon, NEW W \in SUBSET Own(s, m), W # {}
    PROVE  Highest(s, W) \in W
<1>1. \A w \in W : s.idx[w] \in 0..s.next[m] /\ s.next[m] \in Nat
  BY OwnNumbered DEF Counted, InOrder
<1> QED
  BY <1>1, HighestIn

-----------------------------------------------------------------------------
(* Workspaces that come and go. *)

\* The row of a workspace that no window of a sound desk is on.
LEMMA EmptyRow ==
    ASSUME NEW s, Base(s), NEW w \in Ws, \A c \in Client : s.col[c] # w
    PROVE  InRow(s, w) = {} /\ s.row[w] = <<>> /\ s.focused[w] = NoClient
<1>1. InRow(s, w) = {}
  BY DEF InRow
<1>2. RowOK(s, w)
  BY DEF Base, Rows
<1> QED
  BY <1>1, <1>2, EmptyLists DEF RowOK

\* From s to t, w became a workspace of m.
Created(s, t, m, w) ==
    /\ Sound(t) /\ SameWindows(s, t) /\ t.owner = [s.owner EXCEPT ![w] = m]
    /\ t.active = s.active /\ t.prev = s.prev /\ t.lit = s.lit /\ t.kb = s.kb
    /\ t.selmon = s.selmon /\ t.row = s.row

\* What workspace_create changes; the block it gets is no column's workspace.
MadeFields(s, t, m, w) ==
    /\ SameWindows(s, t) /\ t.active = s.active /\ t.prev = s.prev /\ t.lit = s.lit
    /\ t.kb = s.kb /\ t.selmon = s.selmon /\ t.row = s.row
    /\ t.owner = [s.owner EXCEPT ![w] = m] /\ t.idx = [s.idx EXCEPT ![w] = s.next[m]]
    /\ t.next = [s.next EXCEPT ![m] = s.next[m] + 1]

\* workspace_create keeps rows and orders.
LEMMA CreateMakes ==
    ASSUME NEW s, Base(s), NEW m \in Mon, NEW w \in Ws, \A c \in Client : s.col[c] # w
    PROVE  Base(Create(s, m, w)) /\ MadeFields(s, Create(s, m, w), m, w)
<1> DEFINE t == Create(s, m, w)
<1>1. s \in Desk /\ Shaped(s)
  BY DeskShaped DEF Base
<1>2. Shaped(t)
  BY <1>1 DEF Create, Shaped, Fields
<1>3. /\ SameWindows(s, t) /\ t.active = s.active /\ t.prev = s.prev /\ t.lit = s.lit
      /\ t.kb = s.kb /\ t.selmon = s.selmon /\ t.fstack = s.fstack
      /\ t.owner = [s.owner EXCEPT ![w] = m] /\ t.idx = [s.idx EXCEPT ![w] = s.next[m]]
      /\ t.next = [s.next EXCEPT ![m] = s.next[m] + 1]
      /\ t.row = [s.row EXCEPT ![w] = <<>>]
      /\ t.focused = [s.focused EXCEPT ![w] = NoClient]
  BY <1>1 DEF Create, Desk, SameWindows, SamePlaces, SameKinds
<1> HIDE DEF t
<1>4. s.row[w] = <<>> /\ s.focused[w] = NoClient
  BY EmptyRow
<1>5. t.row = s.row /\ t.focused = s.focused
  <2> DEFINE e == <<>>
  <2>1. t.row = [s.row EXCEPT ![w] = e] /\ s.row[w] = e
    BY <1>3, <1>4
  <2> HIDE DEF e
  <2>2. s.row \in [Ws -> Seq(Client)] /\ s.focused \in [Ws -> Client \cup {NoClient}]
    BY <1>1, DeskTyped
  <2>3. t.row = s.row
    BY <2>1, <2>2
  <2>4. t.focused = s.focused
    BY <1>3, <1>4, <2>2
  <2> QED
    BY <2>3, <2>4
<1>6. t \in Desk
  <2>1. s.next[m] \in Int /\ s.next[m] + 1 \in Int
    BY <1>1, DeskTyped
  <2>2. /\ t.owner \in [Ws -> Mon \cup {NoMon}] /\ t.idx \in [Ws -> Int]
        /\ t.next \in [Mon -> Int]
    BY <1>1, <1>3, <2>1, DeskTyped
  <2> QED
    BY <1>1, <1>2, <1>3, <1>5, <2>2, DeskTyped, ShapedDesk
       DEF SameWindows, SamePlaces, SameKinds
<1>7. Orders(t)
  BY <1>3 DEF Base, Orders, SameWindows, SameKinds, Mapped
<1>8. ASSUME NEW v \in Ws PROVE RowOK(t, v)
  <2>1. InRow(t, v) = InRow(s, v)
    BY <1>3 DEF InRow, SameWindows, SamePlaces
  <2>2. RowOK(s, v)
    BY DEF Base, Rows
  <2> QED
    BY <1>5, <2>1, <2>2 DEF RowOK
<1> QED
  BY <1>3, <1>5, <1>6, <1>7, <1>8 DEF Base, Rows, MadeFields, t

\* The numbers of a monitor's workspaces once it has a new one.
LEMMA CreateCounted ==
    ASSUME NEW s, Base(s), Counted(s), NEW m \in Mon, NEW w \in Fresh(s), NEW t,
           MadeFields(s, t, m, w)
    PROVE  Counted(t)
<1>1. s \in Desk /\ w \in Ws /\ s.owner[w] = NoMon /\ NoMon \notin Mon
  BY DEF Base, Fresh, Own, Mon, NoMon
<1>2. \A n \in Mon : Own(t, n) = IF n = m THEN Own(s, n) \cup {w} ELSE Own(s, n)
  BY <1>1, DeskTyped DEF Own, MadeFields
<1>3. ASSUME NEW n \in Mon PROVE InOrder(t, n)
  <2>1. /\ IsFiniteSet(Own(s, n)) /\ s.next[n] \in Nat
        /\ s.next[n] = Cardinality(Own(s, n)) /\ w \notin Own(s, n)
        /\ {s.idx[v] : v \in Own(s, n)} = 0..(s.next[n] - 1)
    <3>1. w \notin Own(s, n)
      BY <1>1 DEF Own
    <3>2. /\ IsFiniteSet(Own(s, n)) /\ s.next[n] \in Nat
          /\ s.next[n] = Cardinality(Own(s, n))
          /\ {s.idx[v] : v \in Own(s, n)} = 0..(s.next[n] - 1)
      BY OwnNumbered DEF Counted, InOrder
    <3> QED
      BY <3>1, <3>2
  <2>2. \A v \in Own(s, n) : t.idx[v] = s.idx[v]
    BY <1>1, <2>1, DeskTyped DEF Own, MadeFields
  <2>3. CASE n # m
    <3>1. t.next[n] = s.next[n] /\ Own(t, n) = Own(s, n)
      BY <1>1, <1>2, <2>3, DeskTyped DEF MadeFields
    <3> QED
      BY <2>1, <2>2, <3>1 DEF InOrder
  <2>4. CASE n = m
    <3>1. t.next[m] = s.next[m] + 1 /\ Own(t, m) = Own(s, m) \cup {w} /\ t.idx[w] = s.next[m]
      BY <1>1, <1>2, DeskTyped DEF MadeFields
    <3>2. Cardinality(Own(t, m)) = t.next[m]
      <4>1. IsFiniteSet(Own(s, m)) /\ w \notin Own(s, m) /\ s.next[m] = Cardinality(Own(s, m))
        BY <2>1, <2>4
      <4>2. Cardinality(Own(s, m) \cup {w}) = Cardinality(Own(s, m)) + 1
        BY <4>1, FS_AddElement
      <4> QED
        BY <3>1, <4>1, <4>2
    <3>3. {t.idx[v] : v \in Own(t, m)} = {s.idx[v] : v \in Own(s, m)} \cup {s.next[m]}
      BY <2>2, <2>4, <3>1
    <3>4. 0..(s.next[m] - 1) \cup {s.next[m]} = 0..(s.next[m] + 1 - 1)
      BY <2>1, <2>4
    <3>5. {s.idx[v] : v \in Own(s, m)} = 0..(s.next[m] - 1)
      BY <2>1, <2>4
    <3>6. {t.idx[v] : v \in Own(t, m)} = 0..(s.next[m] + 1 - 1)
      BY <3>3, <3>4, <3>5
    <3>7. {t.idx[v] : v \in Own(t, m)} = 0..(t.next[m] - 1)
      BY <3>1, <3>6
    <3> QED
      BY <2>4, <3>2, <3>7 DEF InOrder
  <2> QED
    BY <2>3, <2>4
<1> QED
  BY <1>3 DEF Counted

\* workspace_create
LEMMA CreateDoes ==
    ASSUME NEW s, Sound(s), NEW m \in Mon, NEW w \in Fresh(s)
    PROVE  Created(s, Create(s, m, w), m, w)
<1> DEFINE t == Create(s, m, w)
<1>1. s \in Desk /\ w \in Ws /\ s.owner[w] = NoMon /\ NoMon \notin Mon
  BY DEF Sound, Base, Fresh, Own, Mon, NoMon
<1>2. \A c \in Client : s.col[c] # w
  <2>1. ASSUME NEW c \in Client, s.col[c] = w PROVE FALSE
    <3>1. w # NoWs
      BY <1>1, NullAssumption
    <3>2. s.mon[c] # NoMon /\ s.owner[w] = s.mon[c]
      BY <2>1, <3>1 DEF Sound, Live, LiveAt
    <3> QED
      BY <1>1, <3>2
  <2> QED
    BY <2>1
<1>3. Base(t) /\ MadeFields(s, t, m, w)
  BY <1>1, <1>2, CreateMakes DEF Sound
<1> HIDE DEF t
<1>4. \A n \in Mon : Own(t, n) = IF n = m THEN Own(s, n) \cup {w} ELSE Own(s, n)
  BY <1>1, <1>3, DeskTyped DEF Own, MadeFields
<1>5. Shows(t)
  BY <1>3, <1>4 DEF Sound, Shows, MadeFields
<1>6. ASSUME NEW c \in Client PROVE LiveAt(t, c)
  <2>1. LiveAt(s, c) /\ s.col[c] \in Ws \cup {NoWs} /\ s.fs_ws[c] \in Ws \cup {NoWs}
    BY <1>1, DeskTyped DEF Sound, Live
  <2>2. \A v \in Ws : v # w => t.owner[v] = s.owner[v]
    BY <1>1, <1>3, DeskTyped DEF MadeFields
  <2>3. s.col[c] # w
    BY <1>2
  <2> QED
    BY <1>1, <1>3, <2>1, <2>2, <2>3
       DEF MadeFields, LiveAt, SameWindows, SamePlaces, SameKinds, Mapped
<1>7. Counted(t)
  BY <1>1, <1>3, CreateCounted DEF Sound
<1>8. Sound(t)
  BY <1>3, <1>5, <1>6, <1>7 DEF Sound, Live
<1> QED
  BY <1>3, <1>8 DEF Created, MadeFields, t

\* From s to t, monitor m came to show w.
Switched(s, t, m, w) ==
    /\ Sound(t) /\ SameWindows(s, t) /\ t.owner = s.owner /\ t.kb = s.kb /\ t.lit = s.lit
    /\ t.selmon = s.selmon /\ t.row = s.row /\ t.active = [s.active EXCEPT ![m] = w]
    /\ t.prev = IF w = s.active[m] THEN s.prev ELSE [s.prev EXCEPT ![m] = s.active[m]]

\* What workspace_switch changes.
ShownFields(s, t, m, w) ==
    /\ SameWindows(s, t) /\ t.owner = s.owner /\ t.idx = s.idx
    /\ t.next = s.next /\ t.kb = s.kb /\ t.selmon = s.selmon /\ t.row = s.row
    /\ t.lit = s.lit
    /\ t.active = IF w = NoWs THEN s.active ELSE [s.active EXCEPT ![m] = w]
    /\ t.prev = IF w \in {NoWs, s.active[m]} THEN s.prev
                ELSE [s.prev EXCEPT ![m] = s.active[m]]

\* workspace_switch keeps rows and orders.
LEMMA SwitchMakes ==
    ASSUME NEW s, Base(s), NEW m \in Mon, NEW w \in Ws \cup {NoWs}
    PROVE  Base(Switch(s, m, w)) /\ ShownFields(s, Switch(s, m, w), m, w)
<1>1. s \in Desk /\ Shaped(s)
  BY DeskShaped DEF Base
<1>2. CASE w \in {NoWs, s.active[m]}
  <2>1. Switch(s, m, w) = s
    BY <1>2 DEF Switch
  <2>2. w # NoWs => s.active = [s.active EXCEPT ![m] = w]
    BY <1>1, <1>2, DeskTyped
  <2> QED
    BY <1>2, <2>1, <2>2 DEF ShownFields, SameWindows, SamePlaces, SameKinds
<1>3. CASE w \notin {NoWs, s.active[m]}
  <2> DEFINE t == [s EXCEPT !.prev[m] = s.active[m], !.active[m] = w]
  <2>1. Switch(s, m, w) = t
    BY <1>1, <1>3 DEF Switch
  <2>2. Shaped(t)
    BY <1>1 DEF Shaped, Fields
  <2>3. /\ SameWindows(s, t) /\ t.owner = s.owner /\ t.kb = s.kb /\ t.selmon = s.selmon
        /\ t.row = s.row /\ t.focused = s.focused /\ t.idx = s.idx /\ t.next = s.next
        /\ t.lit = s.lit /\ t.fstack = s.fstack /\ t.active = [s.active EXCEPT ![m] = w]
        /\ t.prev = [s.prev EXCEPT ![m] = s.active[m]]
    BY <1>1 DEF Desk, SameWindows, SamePlaces, SameKinds
  <2> HIDE DEF t
  <2>4. t \in Desk
    <3>1. t.active \in [Mon -> Ws \cup {NoWs}] /\ t.prev \in [Mon -> Ws \cup {NoWs}]
      BY <1>1, <1>3, <2>3, DeskTyped
    <3> QED
      BY <1>1, <2>2, <2>3, <3>1, DeskTyped, ShapedDesk DEF SameWindows, SamePlaces, SameKinds
  <2>5. Orders(t)
    BY <2>3 DEF Base, Orders, SameWindows, SameKinds, Mapped
  <2>6. ASSUME NEW v \in Ws PROVE RowOK(t, v)
    <3>1. InRow(t, v) = InRow(s, v)
      BY <2>3 DEF InRow, SameWindows, SamePlaces
    <3>2. RowOK(s, v)
      BY DEF Base, Rows
    <3> QED
      BY <2>3, <3>1, <3>2 DEF RowOK
  <2>7. Base(t)
    BY <2>4, <2>5, <2>6 DEF Base, Rows
  <2> QED
    BY <1>3, <2>1, <2>3, <2>7 DEF ShownFields
<1> QED
  BY <1>2, <1>3

\* A sound desk stays sound if m shows one of its own.
LEMMA SwitchDoes ==
    ASSUME NEW s, Sound(s), NEW m \in Mon, NEW w \in Own(s, m)
    PROVE  Switched(s, Switch(s, m, w), m, w)
<1> DEFINE t == Switch(s, m, w)
<1>1. s \in Desk /\ Base(s) /\ w \in Ws /\ w # NoWs /\ s.active[m] \in Own(s, m)
  BY NullAssumption DEF Sound, Base, Shows, Own
<1>a. Base(t) /\ ShownFields(s, t, m, w)
  BY <1>1, SwitchMakes
<1> HIDE DEF t
<1>2. /\ Base(t) /\ SameWindows(s, t) /\ t.owner = s.owner /\ t.idx = s.idx
      /\ t.next = s.next /\ t.kb = s.kb /\ t.selmon = s.selmon /\ t.row = s.row
      /\ t.lit = s.lit /\ t.active = [s.active EXCEPT ![m] = w]
      /\ t.prev = IF w = s.active[m] THEN s.prev ELSE [s.prev EXCEPT ![m] = s.active[m]]
  BY <1>1, <1>a DEF ShownFields
<1>3. Shows(t)
  <2>1. \A n \in Mon : Own(t, n) = Own(s, n)
    BY <1>2 DEF Own
  <2>2. \A n \in Mon : /\ t.active[n] = IF n = m THEN w ELSE s.active[n]
                       /\ t.prev[n] \in {s.prev[n], IF n = m THEN s.active[m] ELSE s.prev[n]}
    BY <1>1, <1>2, DeskTyped
  <2> QED
    BY <1>1, <1>2, <2>1, <2>2 DEF Sound, Shows
<1>4. ASSUME NEW c \in Client PROVE LiveAt(t, c)
  BY <1>2 DEF Sound, Live, LiveAt, SameWindows, SamePlaces, SameKinds, Mapped
<1>5. Counted(t)
  <2>1. \A n \in Mon : Own(t, n) = Own(s, n)
    BY <1>2 DEF Own
  <2>2. ASSUME NEW n \in Mon PROVE InOrder(t, n)
    <3>1. InOrder(s, n)
      BY DEF Sound, Counted
    <3> QED
      BY <1>2, <2>1, <3>1 DEF InOrder
  <2> QED
    BY <2>2 DEF Counted
<1>6. Sound(t)
  BY <1>2, <1>3, <1>4, <1>5 DEF Sound, Live
<1> QED
  BY <1>2, <1>6 DEF Switched, t

\* The workspaces compaction frees, and those it keeps.
Dead(s, m) == Gaps(s, m) \cup Spare(s, m)
Kept(s, m) == Own(s, m) \ Dead(s, m)

\* It frees none that a column is on.
LEMMA DeadEmpty ==
    ASSUME NEW s, Base(s), NEW m \in Mon
    PROVE  /\ Dead(s, m) \in SUBSET Own(s, m)
           /\ \A w \in Dead(s, m) : /\ ~ Occupied(s, w) /\ s.row[w] = <<>>
                                    /\ s.focused[w] = NoClient
                                    /\ \A c \in Client : s.col[c] # w
<1>1. Dead(s, m) \in SUBSET Own(s, m)
  BY DEF Dead, Gaps, Spare
<1>2. ASSUME NEW w \in Dead(s, m)
      PROVE  /\ ~ Occupied(s, w) /\ s.row[w] = <<>> /\ s.focused[w] = NoClient
             /\ \A c \in Client : s.col[c] # w
  <2>1. w \in Ws /\ RowOK(s, w) /\ ~ Occupied(s, w)
    BY <1>1 DEF Dead, Gaps, Spare, Own, Base, Rows
  <2>2. s.row[w] = <<>>
    BY <2>1 DEF Occupied
  <2>3. InRow(s, w) = {} /\ s.focused[w] = NoClient
    BY <2>1, <2>2, EmptyLists DEF RowOK
  <2> QED
    BY <2>1, <2>2, <2>3 DEF InRow
<1> QED
  BY <1>1, <1>2

\* In a sound desk, no fullscreen window is on one of them either.
LEMMA DeadUnused ==
    ASSUME NEW s, Sound(s), NEW m \in Mon
    PROVE  /\ Dead(s, m) \in SUBSET Own(s, m)
           /\ \A w \in Dead(s, m) : /\ ~ Occupied(s, w) /\ s.row[w] = <<>>
                                    /\ s.focused[w] = NoClient
                                    /\ \A c \in Client : s.col[c] # w
                                    /\ \A c \in Mapped(s) : s.fs_ws[c] # w
<1>1. ASSUME NEW w \in Dead(s, m), NEW c \in Mapped(s)
      PROVE  s.fs_ws[c] # w
  <2>1. w \in Ws /\ w # NoWs /\ ~ Occupied(s, w)
    BY DeadEmpty, NullAssumption DEF Sound, Own
  <2>2. c \in Client
    BY MappedOf DEF Sound
  <2>3. s.fs_ws[c] = w => s.full[c]
    BY <2>1, <2>2 DEF Sound, Live, LiveAt
  <2> QED
    BY <2>1, <2>3 DEF Occupied
<1> QED
  BY <1>1, DeadEmpty DEF Sound

\* The workspace that takes over if the one shown is freed.
Heirs(s, m) == IF s.active[m] \in Gaps(s, m)
               THEN {w \in Kept(s, m) : s.idx[w] > s.idx[s.active[m]]}
               ELSE {w \in Kept(s, m) : ~ Occupied(s, w)}

\* There is one.
LEMMA HeirsLeft ==
    ASSUME NEW s, Counted(s), NEW m \in Mon, s.active[m] \in Dead(s, m)
    PROVE  Heirs(s, m) # {} /\ Heirs(s, m) \in SUBSET Kept(s, m)
<1> DEFINE a == s.active[m]
           U == {v \in Own(s, m) : ~ Occupied(s, v) /\ v \notin Gaps(s, m)}
<1>1. Counted(s) /\ a \in Own(s, m)
  BY DEF Dead, Gaps, Spare
<1>2. \A v \in Own(s, m) : s.idx[v] \in Nat
  BY <1>1, OwnNumbered
<1>3. CASE a \in Gaps(s, m)
  <2>1. PICK v \in Own(s, m) : Occupied(s, v) /\ s.idx[v] > s.idx[a]
    BY <1>3 DEF Gaps
  <2>2. v \in Kept(s, m)
    BY <2>1 DEF Kept, Dead, Gaps, Spare
  <2> QED
    BY <1>3, <2>1, <2>2 DEF Heirs
<1>4. CASE a \notin Gaps(s, m)
  <2>1. U # {}
    BY <1>4 DEF Dead, Spare
  <2>2. U \in SUBSET Own(s, m)
    OBVIOUS
  <2> HIDE DEF U
  <2>3. Lowest(s, U) \in U /\ \A v \in U : s.idx[Lowest(s, U)] <= s.idx[v]
    BY <1>1, <2>1, <2>2, LowestOf
  <2> DEFINE x == Lowest(s, U)
  <2> HIDE DEF x
  <2>4. x \in U /\ \A v \in U : s.idx[x] <= s.idx[v]
    BY <2>3 DEF x
  <2>5. \A v \in U : ~ (s.idx[v] < s.idx[x])
    BY <1>2, <2>2, <2>4
  <2>6. x \notin Spare(s, m)
    BY <2>5 DEF Spare, U
  <2>7. x \in Kept(s, m) /\ ~ Occupied(s, x)
    BY <2>4, <2>6 DEF Kept, Dead, U
  <2> QED
    BY <1>4, <2>7 DEF Heirs
<1> QED
  BY <1>3, <1>4 DEF Heirs

\* No spare workspace lies below one that is kept, and an empty one that is kept
\* lies above all others that are.
LEMMA KeptOrder ==
    ASSUME NEW s, Counted(s), NEW m \in Mon
    PROVE  /\ \A w \in Kept(s, m), v \in Dead(s, m) : s.idx[v] < s.idx[w] => v \in Gaps(s, m)
           /\ \A v, w \in Kept(s, m) : v # w /\ ~ Occupied(s, v) =>
                Occupied(s, w) /\ s.idx[w] < s.idx[v]
<1>1. \A v \in Own(s, m) : s.idx[v] \in Nat
  BY OwnNumbered
<1>2. \A v, w \in Own(s, m) : s.idx[v] = s.idx[w] => v = w
  BY OwnNumbered
<1>3. ASSUME NEW w \in Kept(s, m), NEW v \in Dead(s, m), s.idx[v] < s.idx[w]
      PROVE  v \in Gaps(s, m)
  <2>1. v \in Own(s, m) /\ w \in Own(s, m) /\ ~ Occupied(s, v)
    BY DEF Kept, Dead, Gaps, Spare
  <2>2. CASE Occupied(s, w)
    BY <1>1, <1>3, <2>1, <2>2 DEF Gaps
  <2>3. CASE ~ Occupied(s, w)
    BY <1>3, <2>1, <2>3 DEF Kept, Dead, Spare
  <2> QED
    BY <2>2, <2>3
<1>4. ASSUME NEW v \in Kept(s, m), NEW w \in Kept(s, m), v # w, ~ Occupied(s, v)
      PROVE  Occupied(s, w) /\ s.idx[w] < s.idx[v]
  <2>1. v \in Own(s, m) /\ w \in Own(s, m) /\ v \notin Gaps(s, m) /\ w \notin Gaps(s, m)
    BY DEF Kept, Dead
  <2>2. s.idx[v] < s.idx[w] \/ s.idx[w] < s.idx[v]
    BY <1>1, <1>2, <1>4, <2>1
  <2>3. Occupied(s, w)
    <3>1. SUFFICES ASSUME ~ Occupied(s, w) PROVE v \in Spare(s, m) \/ w \in Spare(s, m)
      BY DEF Kept, Dead
    <3> QED
      BY <1>4, <2>1, <2>2, <3>1 DEF Spare
  <2>4. ~ (s.idx[v] < s.idx[w])
    BY <1>1, <1>4, <2>1, <2>3 DEF Gaps
  <2> QED
    BY <2>2, <2>3, <2>4
<1> QED
  BY <1>3, <1>4

\* Closing the gaps below a workspace that is kept makes its number its rank
\* among those that are.
LEMMA KeptRank ==
    ASSUME NEW s, Counted(s), NEW m \in Mon, NEW w \in Kept(s, m)
    PROVE  s.idx[w] - Cardinality({g \in Gaps(s, m) : s.idx[g] < s.idx[w]})
             = Rank(Kept(s, m), s.idx, w)
<1> DEFINE A == {g \in Gaps(s, m) : s.idx[g] < s.idx[w]}
           B == Below(Kept(s, m), s.idx, w)
           C == Below(Own(s, m), s.idx, w)
<1>1. IsFiniteSet(Own(s, m)) /\ w \in Own(s, m) /\ s.idx[w] = Cardinality(C)
  BY OwnNumbered DEF Kept, Rank
<1>2. C = A \cup B
  <2>1. ASSUME NEW v \in C PROVE v \in A \cup B
    <3>1. v \in Own(s, m) /\ s.idx[v] < s.idx[w]
      BY DEF Below
    <3> QED
      BY <3>1, KeptOrder DEF Kept, Below
  <2>2. \A v \in A \cup B : v \in C
    BY DEF Gaps, Kept, Below
  <2> QED
    BY <2>1, <2>2
<1>3. A \cap B = {}
  BY DEF Below, Kept, Dead
<1>4. IsFiniteSet(A) /\ IsFiniteSet(B)
  <2>1. A \in SUBSET Own(s, m) /\ B \in SUBSET Own(s, m)
    BY DEF Gaps, Below, Kept
  <2> QED
    BY <1>1, <2>1, FS_Subset
<1> HIDE DEF A, B, C
<1>5. Cardinality(C) = Cardinality(A) + Cardinality(B) - Cardinality({})
  BY <1>2, <1>3, <1>4, FS_Union
<1>6. Cardinality({}) = 0 /\ Cardinality(A) \in Nat /\ Cardinality(B) \in Nat
  BY <1>4, FS_EmptySet, FS_CardinalityType
<1>7. s.idx[w] - Cardinality(A) = Cardinality(B)
  BY <1>1, <1>5, <1>6
<1> QED
  BY <1>7 DEF A, B, Rank

\* From s to t, m gave up the workspaces D, which no window is on.
Compacts(s, t, m, D) ==
    /\ Sound(t) /\ SameWindows(s, t) /\ t.row = s.row /\ t.kb = s.kb /\ t.selmon = s.selmon
    /\ D \in SUBSET Own(s, m) /\ \A w \in D : /\ \A c \in Client : s.col[c] # w
                                              /\ \A c \in Mapped(s) : s.fs_ws[c] # w
    /\ t.owner = [w \in Ws |-> IF w \in D THEN NoMon ELSE s.owner[w]]
    /\ t.active[m] \in Own(s, m) \ D /\ t.active = [s.active EXCEPT ![m] = t.active[m]]
    /\ s.active[m] \notin D => t.active[m] = s.active[m]
    /\ t.prev = [s.prev EXCEPT ![m] = IF s.prev[m] \in D THEN NoWs ELSE s.prev[m]]

\* The fields monitor_compact_workspaces changes.
CompactedFields(s, t, m, D) ==
    /\ t.lit = s.lit /\ t.kb = s.kb /\ t.selmon = s.selmon /\ t.fstack = s.fstack
    /\ t.row = s.row /\ t.focused = s.focused /\ t.mon = s.mon /\ t.col = s.col
    /\ SameKinds(s, t)
    /\ t.fs_ws = [c \in Client |-> IF s.fs_ws[c] \in D /\ c \in Mapped(s) THEN NoWs
                                  ELSE s.fs_ws[c]]
    /\ t.owner = [w \in Ws |-> IF w \in D THEN NoMon ELSE s.owner[w]]
    /\ t.active = [s.active EXCEPT ![m] =
                     IF s.active[m] \in D THEN Lowest(s, Heirs(s, m)) ELSE s.active[m]]
    /\ t.prev = [s.prev EXCEPT ![m] = IF s.prev[m] \in D THEN NoWs ELSE s.prev[m]]
    /\ t.idx = [w \in Ws |-> IF w \in Kept(s, m) THEN Rank(Kept(s, m), s.idx, w)
                             ELSE IF w \in D THEN 0 ELSE s.idx[w]]
    /\ t.next = [s.next EXCEPT ![m] = IF s.next[m] - Cardinality(D) > 0
                                      THEN s.next[m] - Cardinality(D) ELSE 0]

\* It destroys the dead workspaces and renumbers those it keeps.
LEMMA CompactFields ==
    ASSUME NEW s, Base(s), Counted(s), NEW m \in Mon
    PROVE  Shaped(Compact(s, m)) /\ CompactedFields(s, Compact(s, m), m, Dead(s, m))
<1> DEFINE D == Dead(s, m)
           d == Destroy(s, D)
           a == IF s.active[m] \in D THEN Lowest(s, Heirs(s, m)) ELSE s.active[m]
           i == [w \in Ws |-> IF w \in Kept(s, m)
                              THEN s.idx[w] - Cardinality({g \in Gaps(s, m) : s.idx[g] < s.idx[w]})
                              ELSE d.idx[w]]
           n == IF s.next[m] - Cardinality(D) > 0 THEN s.next[m] - Cardinality(D) ELSE 0
           t == Compact(s, m)
<1>1. s \in Desk /\ Shaped(s)
  BY DeskShaped DEF Base
<1>2. /\ D \in SUBSET Own(s, m)
      /\ \A w \in D : /\ s.row[w] = <<>> /\ s.focused[w] = NoClient
                      /\ \A c \in Client : s.col[c] # w
  BY DeadEmpty
<1>3. t = [d EXCEPT !.active[m] = a, !.idx = i, !.next[m] = n]
  BY DEF Compact, Without, Dead, Kept, Heirs
<1> HIDE DEF D, a, n, t
<1>4. Shaped(d)
  BY <1>1, DestroyShaped
<1>5. /\ d.next = s.next /\ d.lit = s.lit /\ d.mon = s.mon /\ d.full = s.full
      /\ d.float = s.float /\ d.clients = s.clients /\ d.fstack = s.fstack /\ d.kb = s.kb
      /\ d.selmon = s.selmon
      /\ d.owner = [w \in Ws |-> IF w \in D THEN NoMon ELSE s.owner[w]]
      /\ d.idx = [w \in Ws |-> IF w \in D THEN 0 ELSE s.idx[w]]
      /\ d.row = [w \in Ws |-> IF w \in D THEN <<>> ELSE s.row[w]]
      /\ d.focused = [w \in Ws |-> IF w \in D THEN NoClient ELSE s.focused[w]]
      /\ d.col = [c \in Client |-> IF s.col[c] \in D THEN NoWs ELSE s.col[c]]
      /\ d.fs_ws = [c \in Client |-> IF s.fs_ws[c] \in D /\ c \in Mapped(s) THEN NoWs
                                     ELSE s.fs_ws[c]]
      /\ d.active = [p \in Mon |-> IF s.active[p] \in D \cap Own(s, p) THEN NoWs
                                   ELSE s.active[p]]
      /\ d.prev = [p \in Mon |-> IF s.prev[p] \in D \cap Own(s, p) THEN NoWs ELSE s.prev[p]]
  BY <1>1 DEF Destroy, Desk
<1> HIDE DEF d
<1>6. Shaped(t)
  BY <1>3, <1>4 DEF Shaped, Fields
<1>7. /\ t.lit = d.lit /\ t.mon = d.mon /\ t.full = d.full /\ t.prev = d.prev
      /\ t.float = d.float /\ t.clients = d.clients /\ t.fstack = d.fstack /\ t.kb = d.kb
      /\ t.selmon = d.selmon /\ t.owner = d.owner /\ t.row = d.row
      /\ t.focused = d.focused /\ t.col = d.col /\ t.fs_ws = d.fs_ws
      /\ t.active = [d.active EXCEPT ![m] = a] /\ t.idx = i
      /\ t.next = [d.next EXCEPT ![m] = n]
  BY <1>3, <1>4 DEF Shaped, Fields
<1> HIDE DEF t
<1>8. t.row = s.row /\ t.focused = s.focused
  <2>1. s.row \in [Ws -> Seq(Client)] /\ s.focused \in [Ws -> Client \cup {NoClient}]
    BY <1>1, DeskTyped
  <2>2. \A w \in Ws : (IF w \in D THEN <<>> ELSE s.row[w]) = s.row[w]
    BY <1>2
  <2>3. \A w \in Ws : (IF w \in D THEN NoClient ELSE s.focused[w]) = s.focused[w]
    BY <1>2
  <2>4. t.row = [w \in Ws |-> s.row[w]] /\ t.focused = [w \in Ws |-> s.focused[w]]
    BY <1>5, <1>7, <2>2, <2>3
  <2> QED
    BY <2>1, <2>4
<1>9. t.col = s.col
  <2>1. s.col \in [Client -> Ws \cup {NoWs}]
    BY <1>1, DeskTyped
  <2>2. \A c \in Client : s.col[c] \notin D
    BY <1>2
  <2>3. t.col = [c \in Client |-> s.col[c]]
    BY <1>5, <1>7, <2>2
  <2> QED
    BY <2>1, <2>3
<1>10. \A p \in Mon : p # m => D \cap Own(s, p) = {}
  BY <1>2 DEF Own
<1>11. t.active = [s.active EXCEPT ![m] = a]
  <2>1. s.active \in [Mon -> Ws \cup {NoWs}]
    BY <1>1, DeskTyped
  <2> QED
    BY <1>5, <1>7, <1>10, <2>1
<1>12. t.prev = [s.prev EXCEPT ![m] = IF s.prev[m] \in D THEN NoWs ELSE s.prev[m]]
  <2>1. s.prev \in [Mon -> Ws \cup {NoWs}]
    BY <1>1, DeskTyped
  <2>2. D \cap Own(s, m) = D
    BY <1>2
  <2> QED
    BY <1>5, <1>7, <1>10, <2>1, <2>2
<1>13. t.idx = [w \in Ws |-> IF w \in Kept(s, m) THEN Rank(Kept(s, m), s.idx, w)
                             ELSE IF w \in D THEN 0 ELSE s.idx[w]]
  BY <1>5, <1>7, KeptRank
<1>14. t.next = [s.next EXCEPT ![m] = n]
  BY <1>5, <1>7
<1>15. SameKinds(s, t) /\ t.mon = s.mon
  BY <1>5, <1>7 DEF SameKinds
<1>16. CompactedFields(s, t, m, D)
  BY <1>5, <1>7, <1>8, <1>9, <1>11, <1>12, <1>13, <1>14, <1>15
     DEF CompactedFields, D, a, n
<1> QED
  BY <1>6, <1>16 DEF t, D

\* The desk it leaves: what it renumbers is numbered in order again, and a
\* workspace it keeps is shown if a dead one was.
Compacted(s, t, m, D, K) ==
    /\ Base(t) /\ Counted(t) /\ CompactedFields(s, t, m, D)
    /\ Own(t, m) = K /\ \A p \in Mon : p # m => Own(t, p) = Own(s, p)
    /\ t.active[m] \in Ws \cup {NoWs}
    /\ (t.active[m] = s.active[m] /\ s.active[m] \notin D) \/ t.active[m] \in K
    /\ \A p \in Mon : p # m => t.active[p] = s.active[p] /\ t.prev[p] = s.prev[p]
    /\ t.prev[m] = (IF s.prev[m] \in D THEN NoWs ELSE s.prev[m])
    /\ \A w \in K : t.idx[w] = Rank(K, s.idx, w) /\ s.idx[w] \in Int
    /\ IsFiniteSet(K) /\ K = Own(s, m) \ D

\* monitor_compact_workspaces keeps rows, orders and numbers.
LEMMA CompactMakes ==
    ASSUME NEW s, Base(s), Counted(s), NEW m \in Mon
    PROVE  Compacted(s, Compact(s, m), m, Dead(s, m), Kept(s, m))
<1> DEFINE t == Compact(s, m)
           D == Dead(s, m)
           K == Kept(s, m)
           a == IF s.active[m] \in D THEN Lowest(s, Heirs(s, m)) ELSE s.active[m]
           n == IF s.next[m] - Cardinality(D) > 0 THEN s.next[m] - Cardinality(D) ELSE 0
<1>1. s \in Desk /\ NoMon \notin Mon
  BY DEF Base, Mon, NoMon
<1>2. D \in SUBSET Own(s, m) /\ \A w \in D : \A c \in Client : s.col[c] # w
  BY DeadEmpty
<1>3. K = Own(s, m) \ D
  BY DEF Kept
<1>4. a \in K \/ (a = s.active[m] /\ s.active[m] \notin D)
  <2>1. CASE s.active[m] \in D
    <3>1. Heirs(s, m) # {} /\ Heirs(s, m) \in SUBSET K
      BY <2>1, HeirsLeft
    <3>2. Lowest(s, Heirs(s, m)) \in Heirs(s, m)
      <4>1. Heirs(s, m) \in SUBSET Own(s, m)
        BY <1>3, <3>1
      <4> QED
        BY <3>1, <4>1, LowestOf
    <3> QED
      BY <2>1, <3>1, <3>2
  <2>2. CASE s.active[m] \notin D
    BY <2>2
  <2> QED
    BY <2>1, <2>2
<1>5. Shaped(t) /\ CompactedFields(s, t, m, D)
  BY CompactFields
<1>5a. /\ t.owner = [w \in Ws |-> IF w \in D THEN NoMon ELSE s.owner[w]]
       /\ t.active = [s.active EXCEPT ![m] = a]
       /\ t.prev = [s.prev EXCEPT ![m] = IF s.prev[m] \in D THEN NoWs ELSE s.prev[m]]
       /\ t.idx = [w \in Ws |-> IF w \in K THEN Rank(K, s.idx, w)
                                ELSE IF w \in D THEN 0 ELSE s.idx[w]]
       /\ t.next = [s.next EXCEPT ![m] = n]
  BY <1>5 DEF CompactedFields
<1>5b. /\ t.lit = s.lit /\ t.kb = s.kb /\ t.selmon = s.selmon /\ t.fstack = s.fstack
       /\ t.row = s.row /\ t.focused = s.focused /\ t.mon = s.mon /\ t.col = s.col
       /\ SameKinds(s, t)
       /\ t.fs_ws = [c \in Client |-> IF s.fs_ws[c] \in D /\ c \in Mapped(s) THEN NoWs
                                     ELSE s.fs_ws[c]]
  BY <1>5 DEF CompactedFields
<1> HIDE DEF a, t
<1>6. IsFiniteSet(Own(s, m)) /\ s.next[m] = Cardinality(Own(s, m)) /\ s.next[m] \in Nat
  BY OwnNumbered
<1>7. IsFiniteSet(K) /\ Cardinality(K) = s.next[m] - Cardinality(D) /\ Cardinality(K) \in Nat
  <2>1. Own(s, m) \cap D = D
    BY <1>2
  <2> HIDE DEF D, K
  <2>2. /\ IsFiniteSet(Own(s, m) \ D)
        /\ Cardinality(Own(s, m) \ D)
             = Cardinality(Own(s, m)) - Cardinality(Own(s, m) \cap D)
    BY <1>6, FS_Difference
  <2>3. IsFiniteSet(K) /\ Cardinality(K) = Cardinality(Own(s, m)) - Cardinality(D)
    BY <1>3, <2>1, <2>2
  <2> QED
    BY <1>6, <2>3, FS_CardinalityType
<1>8. \A w \in K : s.idx[w] \in Int
  BY <1>3, OwnNumbered
<1>9. \A v, w \in K : s.idx[v] = s.idx[w] => v = w
  BY <1>3, OwnNumbered
<1>10. \A w \in K : IsFiniteSet(Below(K, s.idx, w)) /\ Rank(K, s.idx, w) \in Nat
  <2>1. ASSUME NEW w \in K PROVE IsFiniteSet(Below(K, s.idx, w))
    BY <1>7, FS_Subset DEF Below
  <2> QED
    BY <2>1, FS_CardinalityType DEF Rank
<1>11. Cardinality(D) \in Nat
  BY <1>2, <1>6, FS_Subset, FS_CardinalityType
<1>12. n = Cardinality(K)
  BY <1>6, <1>7, <1>11
<1> HIDE DEF n
<1>13. Own(t, m) = K /\ \A p \in Mon : p # m => Own(t, p) = Own(s, p)
  <2>1. \A w \in Ws : t.owner[w] = IF w \in D THEN NoMon ELSE s.owner[w]
    BY <1>5a
  <2>2. K \in SUBSET Ws /\ \A w \in D : s.owner[w] = m
    BY <1>2, <1>3 DEF Own
  <2> QED
    BY <1>1, <1>3, <2>1, <2>2 DEF Own
<1> HIDE DEF D, K
<1>14. a \in Ws \cup {NoWs}
  BY <1>1, <1>3, <1>4, DeskTyped DEF Own
<1>15. t \in Desk
  <2>1. t.owner \in [Ws -> Mon \cup {NoMon}]
    BY <1>1, <1>5a, DeskTyped
  <2>2. t.idx \in [Ws -> Int]
    <3>1. \A w \in Ws : s.idx[w] \in Int
      BY <1>1, DeskTyped
    <3> QED
      BY <1>5a, <1>10, <3>1
  <2>3. t.next \in [Mon -> Int]
    BY <1>1, <1>5a, <1>7, <1>12, DeskTyped
  <2>4. t.active \in [Mon -> Ws \cup {NoWs}] /\ t.prev \in [Mon -> Ws \cup {NoWs}]
    BY <1>1, <1>5a, <1>14, DeskTyped
  <2>5. t.fs_ws \in [Client -> Ws \cup {NoWs}]
    BY <1>1, <1>5b, DeskTyped
  <2> QED
    BY <1>1, <1>5, <1>5b, <2>1, <2>2, <2>3, <2>4, <2>5, DeskTyped, ShapedDesk
       DEF SameKinds
<1>16. t.active[m] = a /\ \A p \in Mon : p # m => /\ t.active[p] = s.active[p]
                                                 /\ t.prev[p] = s.prev[p]
  BY <1>1, <1>5a, DeskTyped
<1>17. t.prev[m] = IF s.prev[m] \in D THEN NoWs ELSE s.prev[m]
  BY <1>1, <1>5a, DeskTyped
<1>18. Orders(t)
  BY <1>5b DEF Base, Orders, SameKinds, Mapped
<1>19. ASSUME NEW v \in Ws PROVE RowOK(t, v)
  <2>1. InRow(t, v) = InRow(s, v)
    BY <1>5b DEF InRow
  <2>2. RowOK(s, v)
    BY DEF Base, Rows
  <2> QED
    BY <1>5b, <2>1, <2>2 DEF RowOK
<1>20. \A w \in K : t.idx[w] = Rank(K, s.idx, w)
  <2>1. K \in SUBSET Ws
    BY <1>3 DEF Own
  <2> QED
    BY <1>5a, <2>1
<1>21. ASSUME NEW p \in Mon PROVE InOrder(t, p)
  <2>1. CASE p = m
    <3>1. {Rank(K, s.idx, w) : w \in K} = 0..(Cardinality(K) - 1)
      BY <1>7, <1>8, <1>9, Ranks
    <3>2. {t.idx[w] : w \in K} = 0..(Cardinality(K) - 1)
      BY <1>20, <3>1
    <3>3. t.next[m] = Cardinality(K)
      BY <1>1, <1>5a, <1>12, DeskTyped
    <3> QED
      BY <1>13, <2>1, <3>2, <3>3 DEF InOrder
  <2>2. CASE p # m
    <3>1. t.next[p] = s.next[p] /\ Own(t, p) = Own(s, p)
      BY <1>1, <1>5a, <1>13, <2>2, DeskTyped
    <3>2. \A w \in Own(s, p) : t.idx[w] = s.idx[w]
      BY <1>2, <1>3, <1>5a, <2>2 DEF Own
    <3>3. InOrder(s, p)
      BY DEF Counted
    <3> QED
      BY <3>1, <3>2, <3>3 DEF InOrder
  <2> QED
    BY <2>1, <2>2
<1>22. Base(t) /\ Counted(t)
  BY <1>15, <1>18, <1>19, <1>21 DEF Base, Rows, Counted
<1>23. t.active[m] \in Ws \cup {NoWs}
  BY <1>14, <1>16
<1> QED
  BY <1>3, <1>4, <1>5, <1>7, <1>8, <1>13, <1>16, <1>17, <1>20, <1>22, <1>23
     DEF Compacted, t, D, K

\* In a sound desk no window notices.
LEMMA CompactedSame ==
    ASSUME NEW s, Sound(s), NEW m \in Mon, NEW t, CompactedFields(s, t, m, Dead(s, m))
    PROVE  SameWindows(s, t)
<1>1. s.fs_ws \in [Client -> Ws \cup {NoWs}]
  BY DeskTyped DEF Sound, Base
<1>2. \A c \in Client : ~ (s.fs_ws[c] \in Dead(s, m) /\ c \in Mapped(s))
  BY DeadUnused
<1>3. t.fs_ws = [c \in Client |-> s.fs_ws[c]]
  BY <1>2 DEF CompactedFields
<1>4. t.fs_ws = s.fs_ws
  BY <1>1, <1>3
<1> QED
  BY <1>4 DEF CompactedFields, SameWindows, SamePlaces

\* The list it leaves is tidy.
LEMMA CompactDoes ==
    ASSUME NEW s, Sound(s), NEW m \in Mon
    PROVE  Compacts(s, Compact(s, m), m, Dead(s, m)) /\ Tidy(Compact(s, m), m)
<1> DEFINE t == Compact(s, m)
           D == Dead(s, m)
           K == Kept(s, m)
<1>1. s \in Desk /\ NoMon \notin Mon /\ Base(s) /\ Counted(s) /\ s.active[m] \in Own(s, m)
  BY DEF Sound, Base, Shows, Mon, NoMon
<1>2. D \in SUBSET Own(s, m) /\ \A w \in D : /\ \A c \in Client : s.col[c] # w
                                             /\ \A c \in Mapped(s) : s.fs_ws[c] # w
  BY DeadUnused
<1>3. Compacted(s, t, m, D, K)
  BY <1>1, CompactMakes
<1> HIDE DEF t, D, K
<1>4. /\ SameWindows(s, t) /\ t.row = s.row /\ t.kb = s.kb /\ t.selmon = s.selmon
      /\ t.owner = [w \in Ws |-> IF w \in D THEN NoMon ELSE s.owner[w]]
      /\ t.active \in [Mon -> Ws \cup {NoWs}]
      /\ t.active = [s.active EXCEPT ![m] = t.active[m]]
      /\ t.prev = [s.prev EXCEPT ![m] = IF s.prev[m] \in D THEN NoWs ELSE s.prev[m]]
  <2>1. CompactedFields(s, t, m, D) /\ t \in Desk
    BY <1>3 DEF Compacted, Base
  <2>2. SameWindows(s, t)
    BY <2>1, CompactedSame DEF D
  <2>3. t.active \in [Mon -> Ws \cup {NoWs}] /\ s.active \in [Mon -> Ws \cup {NoWs}]
    BY <1>1, <2>1, DeskTyped
  <2> QED
    BY <2>1, <2>2, <2>3 DEF CompactedFields, SameWindows, SamePlaces
<1>5. /\ K = Own(s, m) \ D /\ Own(t, m) = K /\ t.active[m] \in K
      /\ \A p \in Mon : p # m => Own(t, p) = Own(s, p)
      /\ \A p \in Mon : p # m => t.active[p] = s.active[p] /\ t.prev[p] = s.prev[p]
      /\ t.prev[m] = IF s.prev[m] \in D THEN NoWs ELSE s.prev[m]
  BY <1>1, <1>3 DEF Compacted
<1>6. Shows(t)
  <2>1. s.prev[m] \in Own(s, m) \cup {NoWs}
    BY DEF Sound, Shows
  <2>2. t.prev[m] \in Own(t, m) \cup {NoWs} /\ t.active[m] \in Own(t, m)
    BY <1>5, <2>1
  <2>3. \A p \in Mon : p # m => /\ t.active[p] \in Own(t, p)
                                /\ t.prev[p] \in Own(t, p) \cup {NoWs}
    BY <1>5 DEF Sound, Shows
  <2> QED
    BY <1>4, <2>2, <2>3 DEF Sound, Shows
<1>7. ASSUME NEW c \in Client PROVE LiveAt(t, c)
  <2>1. LiveAt(s, c) /\ s.col[c] \in Ws \cup {NoWs} /\ s.fs_ws[c] \in Ws \cup {NoWs}
    BY <1>1, DeskTyped DEF Sound, Live
  <2>2. s.col[c] \notin D /\ (c \in Mapped(s) => s.fs_ws[c] \notin D)
    BY <1>2
  <2>3. \A w \in Ws : w \notin D => t.owner[w] = s.owner[w]
    BY <1>4
  <2> QED
    BY <1>4, <2>1, <2>2, <2>3 DEF LiveAt, SameWindows, SamePlaces, SameKinds, Mapped
<1>8. Sound(t)
  BY <1>3, <1>6, <1>7 DEF Sound, Live, Compacted
<1>9. s.active[m] \notin D => t.active[m] = s.active[m]
  BY <1>3 DEF Compacted, CompactedFields
<1>10. Compacts(s, t, m, D)
  BY <1>2, <1>4, <1>5, <1>8, <1>9 DEF Compacts
<1>11. \A w : Occupied(t, w) <=> Occupied(s, w)
  BY <1>4 DEF Occupied, SameWindows, SamePlaces, SameKinds, Mapped
<1>12. Tidy(t, m)
  <2>1. ASSUME NEW v \in K, NEW w \in K, v # w, ~ Occupied(t, v)
        PROVE  Occupied(t, w) /\ t.idx[w] < t.idx[v]
    <3>1. Occupied(s, w) /\ s.idx[w] < s.idx[v]
      BY <1>1, <1>11, <2>1, KeptOrder DEF K
    <3>2. IsFiniteSet(K) /\ \A x \in K : s.idx[x] \in Int /\ t.idx[x] = Rank(K, s.idx, x)
      BY <1>3 DEF Compacted
    <3>3. Rank(K, s.idx, w) < Rank(K, s.idx, v)
      BY <3>1, <3>2, RankGrows
    <3> QED
      BY <1>11, <3>1, <3>2, <3>3
  <2> QED
    BY <1>5, <2>1 DEF Tidy
<1> QED
  BY <1>10, <1>12 DEF t, D

-----------------------------------------------------------------------------
(* What every handler does to the desk. *)

\* Mapped window c entered or left fullscreen, or was told again.
Fulled(s, t, c, on) ==
    /\ c \in Mapped(s) /\ on \in BOOLEAN /\ Touches(s, t, c) /\ t.full[c] = on
    /\ t.col[c] = FullCol(s, c, on) /\ t.fs_ws[c] = FullWs(s, c, on)
    /\ t.mon[c] = s.mon[c] /\ t.float[c] = s.float[c]
    /\ t.col[c] = s.col[c] => t.row = s.row

\* Mapped window c was floated or tiled.
Floated(s, t, c, on) ==
    /\ c \in Mapped(s) /\ on \in BOOLEAN /\ Touches(s, t, c) /\ t.float[c] = on
    /\ t.col[c] = FloatCol(s, c, on)
    /\ t.mon[c] = s.mon[c] /\ t.fs_ws[c] = s.fs_ws[c] /\ t.full[c] = s.full[c]
    /\ t.col[c] = s.col[c] => t.row = s.row

\* Mapped window c went to another monitor m.
SentTo(s, t, c, m) ==
    /\ c \in Mapped(s) /\ m \in Mon /\ s.mon[c] # m /\ Touches(s, t, c) /\ t.mon[c] = m
    /\ t.col[c] = SentCol(s, c, m) /\ t.fs_ws[c] = SentWs(s, c, m)
    /\ t.full[c] = s.full[c] /\ t.float[c] = s.float[c]

\* From s to a: w is a workspace monitor m has, or got just now.
Got(s, a, m, w) == \/ a = s /\ w \in Own(s, m)
                   \/ w \in Fresh(s) /\ Created(s, a, m, w)

\* The user looks at w on monitor m.
Visited(s, t, m, w) ==
    /\ m \in Mon
    /\ \E a, b : Got(s, a, m, w) /\ Switched(a, b, m, w) /\ Quiet(b, t)

\* Window c moved to workspace w of its monitor, which the user looks at then.
Carried(a, b, c, w) == /\ Touches(a, b, c) /\ b.col[c] = w
                       /\ b.mon[c] = a.mon[c] /\ b.fs_ws[c] = a.fs_ws[c]
                       /\ b.full[c] = a.full[c] /\ b.float[c] = a.float[c]
Sent(s, t, c, w) ==
    LET m == s.mon[c] IN
    /\ c \in Mapped(s) /\ ~ s.float[c] /\ ~ s.full[c]
    /\ \E a, b, v, u, D :
         /\ Got(s, a, m, w)
         /\ Carried(a, b, c, w) /\ Sound(b) /\ Switched(b, v, m, w)
         /\ Compacts(v, u, m, D) /\ Quiet(u, t)

\* Window c is on no list and no workspace any more.
Unlisted(s, u, c) ==
    /\ Sound(u) /\ Mapped(u) = Mapped(s) \ {c} /\ SameLists(s, u) /\ Keyed(u)
    /\ \A x \in Client \ {c} : Alike(s, u, x)
    /\ Ordered(s, u, Client \ {c})
    /\ u.mon[c] = NoMon /\ u.col[c] = NoWs /\ u.fs_ws[c] = NoWs
    /\ u.full[c] = s.full[c] /\ u.float[c] = s.float[c]

\* It closed, and its monitor was compacted.
Closed(s, t, c) ==
    LET m == s.mon[c] IN
    /\ c \in Mapped(s)
    /\ \E u, v, D : /\ Unlisted(s, u, c) /\ Compacts(u, v, m, D) /\ Tidy(v, m)
                    /\ Quiet(v, t) /\ Keyed(t)

\* Every change of a sound desk leaves it sound.
LEMMA FulledSound ==
    ASSUME NEW s, Sound(s), NEW t, NEW c, NEW on, Fulled(s, t, c, on)
    PROVE  Sound(t)
<1>1. Base(s) /\ c \in Client /\ LiveAt(s, c)
  BY MappedOf DEF Sound, Live, Fulled
<1>2. s.mon[c] \in Mon /\ s.mon[c] # NoMon
  BY <1>1, MonOf DEF LiveAt, Fulled
<1>3. s.active[s.mon[c]] # NoWs /\ s.owner[s.active[s.mon[c]]] = s.mon[c]
  BY <1>2, ActiveOf DEF Sound
<1>4. t.owner = s.owner /\ Mapped(t) = Mapped(s)
  BY DEF Fulled, Touches, SameLists, Mapped
<1>5. LiveAt(t, c)
  BY <1>1, <1>2, <1>3, <1>4 DEF LiveAt, FullCol, FullWs, Fulled
<1> QED
  BY <1>5, SoundTouched DEF Fulled

\* And so on: one more of these.
LEMMA FloatedSound ==
    ASSUME NEW s, Sound(s), NEW t, NEW c, NEW on, Floated(s, t, c, on)
    PROVE  Sound(t)
<1>1. Base(s) /\ c \in Client /\ LiveAt(s, c)
  BY MappedOf DEF Sound, Live, Floated
<1>2. s.mon[c] \in Mon /\ s.mon[c] # NoMon
  BY <1>1, MonOf DEF LiveAt, Floated
<1>3. s.active[s.mon[c]] # NoWs /\ s.owner[s.active[s.mon[c]]] = s.mon[c]
  BY <1>2, ActiveOf DEF Sound
<1>4. t.owner = s.owner /\ Mapped(t) = Mapped(s)
  BY DEF Floated, Touches, SameLists, Mapped
<1>5. LiveAt(t, c)
  BY <1>1, <1>2, <1>3, <1>4 DEF LiveAt, FloatCol, Floated
<1> QED
  BY <1>5, SoundTouched DEF Floated

\* A window sent to a monitor is where it belongs.
LEMMA SentToSound ==
    ASSUME NEW s, Sound(s), NEW t, NEW c, NEW m, SentTo(s, t, c, m)
    PROVE  Sound(t)
<1>1. m # NoMon /\ s.active[m] # NoWs /\ s.owner[s.active[m]] = m
  BY ActiveOf DEF Sound, SentTo, Mon, NoMon
<1>2. t.owner = s.owner /\ Mapped(t) = Mapped(s)
  BY DEF SentTo, Touches, SameLists, Mapped
<1>3. LiveAt(t, c)
  BY <1>1, <1>2 DEF LiveAt, SentCol, SentWs, SentTo
<1> QED
  BY <1>3, SoundTouched DEF SentTo

\* The rest is said of the last step of the handler.
LEMMA OthersSound ==
    ASSUME NEW s, NEW t, NEW c, NEW m, NEW w,
           Visited(s, t, m, w) \/ Sent(s, t, c, w) \/ Closed(s, t, c)
    PROVE  Sound(t)
<1>1. ASSUME Visited(s, t, m, w) PROVE Sound(t)
  BY <1>1, SoundQuiet DEF Visited, Switched
<1>2. ASSUME Sent(s, t, c, w) PROVE Sound(t)
  <2>1. PICK v, u, D : Compacts(v, u, s.mon[c], D) /\ Quiet(u, t)
    BY <1>2 DEF Sent
  <2>2. Sound(u)
    BY <2>1 DEF Compacts
  <2> QED
    BY <2>1, <2>2, SoundQuiet
<1>3. ASSUME Closed(s, t, c) PROVE Sound(t)
  <2>1. PICK u, v, D : Compacts(u, v, s.mon[c], D) /\ Quiet(v, t)
    BY <1>3 DEF Closed
  <2>2. Sound(v)
    BY <2>1 DEF Compacts
  <2> QED
    BY <2>1, <2>2, SoundQuiet
<1> QED
  BY <1>1, <1>2, <1>3

\* fullscreennotify and togglefullscreen
LEMMA SetFullscreenOf ==
    ASSUME NEW s, Sound(s), NEW c \in Client, NEW on \in BOOLEAN
    PROVE  LET t == SetFullscreen(s, c, on)
           IN  IF c \in Mapped(s) THEN Fulled(s, t, c, on) ELSE Prepared(s, t, c)
<1> DEFINE t == SetFullscreen(s, c, on)
<1>1. /\ Touches(s, t, c) /\ t.full[c] = on /\ t.col[c] = FullCol(s, c, on)
      /\ t.fs_ws[c] = FullWs(s, c, on) /\ t.mon[c] = s.mon[c] /\ t.float[c] = s.float[c]
      /\ t.col[c] = s.col[c] => t.row = s.row
  BY SetFullscreenDoes DEF Sound
<1> HIDE DEF t
<1>2. CASE c \in Mapped(s)
  BY <1>1, <1>2 DEF Fulled, t
<1>3. CASE c \notin Mapped(s)
  <2>1. s.mon[c] = NoMon /\ s.col[c] = NoWs
    BY <1>3 DEF Sound, Live, LiveAt
  <2>2. FullCol(s, c, on) = NoWs
    BY <2>1 DEF FullCol
  <2> QED
    BY <1>1, <1>3, <2>1, <2>2 DEF Prepared, t
<1> QED
  BY <1>2, <1>3

\* setfloating
LEMMA SetFloatingOf ==
    ASSUME NEW s, Sound(s), NEW c \in Mapped(s), NEW on \in BOOLEAN
    PROVE  Floated(s, SetFloating(s, c, on), c, on)
<1>1. Base(s) /\ c \in Client
  BY MappedOf DEF Sound
<1> QED
  BY <1>1, SetFloatingDoes DEF Floated

\* setmon
LEMMA SetMonOf ==
    ASSUME NEW s, Sound(s), NEW c \in Mapped(s), NEW m \in Mon, s.mon[c] # m
    PROVE  SentTo(s, SetMon(s, c, m), c, m) /\ Keyed(SetMon(s, c, m))
<1>1. Base(s) /\ c \in Client /\ m \in Mon \cup {NoMon}
  BY MappedOf DEF Sound
<1> QED
  BY <1>1, SetMonDoes DEF SentTo

\* The end of a window that has no column any more.
LEMMA UnlistDoes ==
    ASSUME NEW s, Base(s), NEW c \in Mapped(s)
    PROVE  LET t == Unlist(s, c) IN
           /\ Base(t) /\ SameLists(s, t) /\ Mapped(t) = Mapped(s) \ {c}
           /\ t.mon = s.mon /\ t.col = s.col /\ t.full = s.full /\ t.float = s.float
           /\ t.fs_ws = [s.fs_ws EXCEPT ![c] = NoWs] /\ t.row = s.row
           /\ t.selmon = s.selmon
<1> DEFINE t == Unlist(s, c)
<1>1. s \in Desk /\ Shaped(s) /\ c \in Client
  BY DeskShaped, MappedOf DEF Base
<1>2. Shaped(t)
  BY <1>1 DEF Unlist, Shaped, Fields
<1>3. /\ SameLists(s, t) /\ t.mon = s.mon /\ t.col = s.col /\ t.full = s.full
      /\ t.float = s.float /\ t.row = s.row /\ t.focused = s.focused /\ t.kb = s.kb
      /\ t.selmon = s.selmon /\ t.fs_ws = [s.fs_ws EXCEPT ![c] = NoWs]
      /\ t.clients = RemoveAt(s.clients, Pos(s.clients, c))
      /\ t.fstack = RemoveAt(s.fstack, Pos(s.fstack, c))
  BY <1>1 DEF Unlist, Desk, SameLists
<1> HIDE DEF t
<1>4. Lists(s.clients, Mapped(s)) /\ Lists(s.fstack, Mapped(s))
  BY DEF Base, Orders
<1>5. Lists(t.clients, Mapped(s) \ {c})
  BY <1>3, <1>4, RemoveLists
<1>6. Lists(t.fstack, Mapped(s) \ {c})
  BY <1>3, <1>4, RemoveLists
<1>7. Mapped(t) = Mapped(s) \ {c}
  BY <1>5 DEF Lists, Mapped
<1>8. t \in Desk
  <2>1. t.clients \in Seq(Client) /\ t.fstack \in Seq(Client)
    BY <1>5, <1>6 DEF Lists
  <2>2. t.fs_ws \in [Client -> Ws \cup {NoWs}]
    BY <1>1, <1>3, DeskTyped
  <2> QED
    BY <1>1, <1>2, <1>3, <2>1, <2>2, DeskTyped, ShapedDesk DEF SameLists
<1>9. ASSUME NEW w \in Ws PROVE RowOK(t, w)
  <2>1. InRow(t, w) = InRow(s, w)
    BY <1>3 DEF InRow
  <2>2. RowOK(s, w)
    BY DEF Base, Rows
  <2> QED
    BY <1>3, <2>1, <2>2 DEF RowOK
<1>10. Base(t)
  BY <1>5, <1>6, <1>7, <1>8, <1>9 DEF Base, Orders, Rows
<1> QED
  BY <1>3, <1>7, <1>10 DEF t

\* unmapnotify up to its compaction
LEMMA UnlistedOf ==
    ASSUME NEW s, Sound(s), NEW c \in Mapped(s)
    PROVE  Unlisted(s, SetMon(Unlist(Detach(s, c), c), c, NoMon), c)
<1> DEFINE d == Detach(s, c)
           l == Unlist(d, c)
           u == SetMon(l, c, NoMon)
<1>1. Base(s) /\ c \in Client /\ s.mon[c] # NoMon
  BY MappedOf DEF Sound, Live, LiveAt
<1>2. Moves(s, d, c, NoWs)
  BY <1>1, DetachMoves
<1> HIDE DEF d
<1>3. /\ Touches(s, d, c) /\ d.col[c] = NoWs /\ d.mon[c] = s.mon[c]
      /\ d.full[c] = s.full[c] /\ d.float[c] = s.float[c]
  BY <1>1, <1>2, MovesTouches
<1>4. Base(d) /\ Mapped(d) = Mapped(s)
  BY <1>3 DEF Touches, Mapped
<1>5. /\ Base(l) /\ SameLists(d, l) /\ Mapped(l) = Mapped(d) \ {c}
      /\ l.mon = d.mon /\ l.col = d.col /\ l.full = d.full /\ l.float = d.float
      /\ l.fs_ws = [d.fs_ws EXCEPT ![c] = NoWs] /\ l.row = d.row
      /\ l.selmon = d.selmon
  BY <1>4, UnlistDoes
<1> HIDE DEF l
<1>6. d.fs_ws \in [Client -> Ws \cup {NoWs}]
  BY <1>4, DeskTyped DEF Base
<1>7. /\ l.mon[c] = s.mon[c] /\ l.col[c] = NoWs /\ l.fs_ws[c] = NoWs
      /\ l.full[c] = s.full[c] /\ l.float[c] = s.float[c]
  BY <1>1, <1>3, <1>5, <1>6
<1>8. \A x \in Client \ {c} : Alike(s, l, x)
  BY <1>3, <1>5, <1>6 DEF Touches, Alike
<1>9. /\ Touches(l, u, c) /\ u.mon[c] = NoMon /\ u.col[c] = SentCol(l, c, NoMon)
      /\ u.fs_ws[c] = SentWs(l, c, NoMon) /\ u.full[c] = l.full[c]
      /\ u.float[c] = l.float[c] /\ Keyed(u)
  BY <1>1, <1>5, <1>7, SetMonDoes
<1> HIDE DEF u
<1>10. u.col[c] = NoWs /\ u.fs_ws[c] = NoWs
  BY <1>7, <1>9 DEF SentCol, SentWs
<1>11. \A x \in Client \ {c} : Alike(s, u, x)
  BY <1>8, <1>9 DEF Touches, Alike
<1>12. SameLists(s, u) /\ Mapped(u) = Mapped(s) \ {c} /\ Base(u)
  BY <1>3, <1>4, <1>5, <1>9 DEF Touches, SameLists, Mapped
<1>13. LiveAt(u, c)
  BY <1>9, <1>10, <1>12 DEF LiveAt
<1>14. ASSUME NEW x \in Client, x # c PROVE LiveAt(u, x)
  <2>1. LiveAt(s, x) /\ Alike(s, u, x)
    BY <1>11, <1>14 DEF Sound, Live
  <2> QED
    BY <1>12, <1>14, <2>1 DEF LiveAt, Alike, SameLists
<1>15. Sound(u)
  <2>1. Shows(u)
    <3>1. Selects(s, u)
      BY <1>3, <1>5, <1>9 DEF Touches, Selects
    <3> QED
      BY <1>12, <3>1, ShowsSame DEF Sound
  <2> QED
    BY <1>12, <1>13, <1>14, <2>1, CountedSame DEF Sound, Live
<1>16. Ordered(s, u, Client \ {c})
  <2>1. Ordered(s, d, Client \ {c}) /\ Ordered(l, u, Client \ {c})
    BY <1>3, <1>9 DEF Touches
  <2>2. Ordered(d, l, Client \ {c})
    BY <1>5, SameRowsOrdered
  <2>3. \A x \in Client \ {c} : d.col[x] = s.col[x] /\ l.col[x] = s.col[x]
    BY <1>3, <1>8 DEF Touches, Alike
  <2>4. Ordered(s, l, Client \ {c})
    BY <2>1, <2>2, <2>3, OrderedTwice
  <2> QED
    BY <2>1, <2>3, <2>4, OrderedTwice
<1>17. Unlisted(s, u, c)
  BY <1>7, <1>9, <1>10, <1>11, <1>12, <1>15, <1>16 DEF Unlisted
<1> QED
  BY <1>17 DEF u, l, d

\* unmapnotify
LEMMA UnmapDoes ==
    ASSUME Sound(desk), NEW c \in Client, Unmap(c)
    PROVE  Closed(desk, desk', c)
<1> DEFINE m == desk.mon[c]
           u == SetMon(Unlist(Detach(desk, c), c), c, NoMon)
           v == Compact(u, m)
           f == FocusHere(v, m)
           t == Arrange(f, m)
<1>1. c \in Mapped(desk) /\ m \in Mon /\ m # NoMon
  BY MonOf DEF Unmap, Sound, Live, LiveAt
<1>2. desk' = t
  BY <1>1 DEF Unmap
<1>3. Unlisted(desk, u, c)
  BY <1>1, UnlistedOf
<1> HIDE DEF u
<1> DEFINE D == Dead(u, m)
<1>4. Compacts(u, v, m, D) /\ Tidy(v, m)
  BY <1>1, <1>3, CompactDoes DEF Unlisted
<1> HIDE DEF v, D
<1>5. Base(v) /\ RowHere(v, m)
  BY <1>1, <1>4, RowHereOf DEF Compacts, Sound
<1>6. Quiet(v, f) /\ Keyed(f)
  BY <1>1, <1>5, FocusHereQuiet DEF RowHere
<1> HIDE DEF f
<1>7. Quiet(f, t)
  BY <1>1, <1>6, ArrangeQuiet DEF Quiet, Shuffled
<1>8. Quiet(v, t) /\ Keyed(t)
  BY <1>6, <1>7, QuietTwice DEF Quiet, Shuffled, Keys, Keyed, SameWindows, SameKinds, Mapped
<1> HIDE DEF t
<1> QED
  BY <1>1, <1>2, <1>3, <1>4, <1>8 DEF Closed

\* urgent
LEMMA ActivateDoes ==
    ASSUME Sound(desk), NEW c \in Client, Activate(c)
    PROVE  Visited(desk, desk', desk.mon[c], desk.col[c])
<1> DEFINE m == desk.mon[c]
           w == desk.col[c]
           b == Switch(desk, m, w)
           u == [b EXCEPT !.selmon = m]
           t == Focus(u, c)
<1>1. c \in Mapped(desk) /\ m \in Mon /\ w \in Own(desk, m) /\ desk' = t
  <2>1. c \in Mapped(desk) /\ m # NoMon /\ w # NoWs /\ desk' = t
    BY DEF Activate, Activatable
  <2>2. m \in Mon /\ w \in Ws
    BY <2>1, MonOf, DeskTyped DEF Sound, Base
  <2>3. desk.owner[w] = m
    BY <2>1 DEF Sound, Live, LiveAt
  <2> HIDE DEF t, w, m
  <2> QED
    BY <2>1, <2>2, <2>3 DEF Own
<1> HIDE DEF m, w
<1>2. Switched(desk, b, m, w)
  BY <1>1, SwitchDoes
<1> HIDE DEF b
<1>3. Base(b) /\ c \in Mapped(b)
  BY <1>1, <1>2 DEF Switched, Sound, SameWindows, SameKinds, Mapped
<1>4. Quiet(b, u)
  BY <1>1, <1>3, SelectQuiet
<1> HIDE DEF u
<1>5. Base(u) /\ c \in Mapped(u)
  BY <1>3, <1>4 DEF Quiet, Shuffled, SameWindows, SameKinds, Mapped
<1>6. Quiet(b, t)
  BY <1>4, <1>5, FocusQuiet, QuietTwice
<1> HIDE DEF t
<1>7. Visited(desk, desk', m, w)
  <2>1. Got(desk, desk, m, w)
    BY <1>1 DEF Got
  <2> QED
    BY <1>1, <1>2, <1>6, <2>1 DEF Visited
<1> QED
  BY <1>7 DEF m, w

\* motionnotify and pointerfocus
LEMMA PointerToDoes ==
    ASSUME Sound(desk), NEW m \in Mon, NEW c \in Client \cup {NoClient}, PointerTo(m, c)
    PROVE  Quiet(desk, desk')
<1> DEFINE f == FullscreenOn(desk, m)
           s == [desk EXCEPT !.selmon = m]
           x == IF c = NoClient THEN f ELSE c
<1>1. desk' = IF x = NoClient THEN s ELSE Focus(s, x)
  BY DEF PointerTo
<1>2. x = NoClient \/ x \in Mapped(desk)
  <2>1. f = NoClient \/ f \in Mapped(desk)
    BY FullscreenOf DEF Sound
  <2>2. c = NoClient \/ c \in Mapped(desk)
    BY DEF PointerTo, Shown
  <2> QED
    BY <2>1, <2>2
<1> HIDE DEF x, f
<1>3. Quiet(desk, s)
  BY SelectQuiet DEF Sound
<1> HIDE DEF s
<1>4. Base(s) /\ Mapped(s) = Mapped(desk)
  BY <1>3 DEF Quiet, Shuffled, SameWindows, SameKinds, Mapped
<1>5. Quiet(s, Focus(s, x)) \/ x = NoClient
  BY <1>2, <1>4, FocusQuiet
<1> QED
  BY <1>1, <1>3, <1>5, QuietTwice

\* What a workspace that was got is good for.
LEMMA GotOwn ==
    ASSUME NEW s, Sound(s), NEW m \in Mon, NEW w, NEW a, Got(s, a, m, w)
    PROVE  /\ Sound(a) /\ w \in Own(a, m) /\ SameWindows(s, a) /\ a.selmon = s.selmon
           /\ a.active = s.active /\ a.prev = s.prev /\ a.kb = s.kb
<1>1. CASE a = s /\ w \in Own(s, m)
  BY <1>1 DEF SameWindows, SamePlaces, SameKinds
<1>2. CASE w \in Fresh(s) /\ Created(s, a, m, w)
  <2>1. s.owner \in [Ws -> Mon \cup {NoMon}] /\ w \in Ws
    BY <1>2, DeskTyped DEF Sound, Base, Fresh, Own
  <2>2. w \in Own(a, m)
    BY <1>2, <2>1 DEF Created, Own
  <2> QED
    BY <1>2, <2>2 DEF Created
<1> QED
  BY <1>1, <1>2 DEF Got

\* The desk after a workspace key: the keyboard is on the workspace shown.
LEMMA GotoDoes ==
    ASSUME NEW s, Sound(s), NEW m \in Mon, NEW w, NEW a, Got(s, a, m, w)
    PROVE  Visited(s, Goto(a, m, w), m, w) /\ KeyHere(Goto(a, m, w), m)
<1> DEFINE b == Switch(a, m, w)
           u == Arrange(b, m)
           t == FocusFirst(u, m)
<1>1. Sound(a) /\ w \in Own(a, m)
  BY GotOwn
<1>2. Switched(a, b, m, w)
  BY <1>1, SwitchDoes
<1>3. t = Goto(a, m, w)
  BY DEF Goto
<1> HIDE DEF b
<1>4. Quiet(b, u)
  BY <1>2, ArrangeQuiet DEF Switched, Sound
<1> HIDE DEF u
<1>5. Sound(u)
  BY <1>2, <1>4, SoundQuiet DEF Switched
<1>6. Quiet(u, t) /\ KeyHere(t, m)
  BY <1>5, RowHereOf, FocusFirstQuiet DEF Sound, RowHere
<1> HIDE DEF t
<1>7. Quiet(b, t)
  BY <1>4, <1>6, QuietTwice
<1>8. Visited(s, t, m, w)
  BY <1>2, <1>7 DEF Visited
<1> QED
  BY <1>3, <1>6, <1>8

\* A key that leads nowhere only moves the focus.
LEMMA GotoNowhere ==
    ASSUME NEW s, Sound(s), NEW m \in Mon
    PROVE  Quiet(s, Goto(s, m, NoWs)) /\ KeyHere(Goto(s, m, NoWs), m)
<1> DEFINE u == Arrange(s, m)
           t == FocusFirst(u, m)
<1>1. t = Goto(s, m, NoWs)
  BY DEF Goto, Switch
<1>2. Quiet(s, u)
  BY ArrangeQuiet DEF Sound
<1> HIDE DEF u
<1>3. Sound(u)
  BY <1>2, SoundQuiet
<1>4. Quiet(u, t) /\ KeyHere(t, m)
  BY <1>3, RowHereOf, FocusFirstQuiet DEF Sound, RowHere
<1> QED
  BY <1>1, <1>2, <1>4, QuietTwice

\* The list neighbour of a workspace is on the same monitor.
LEMMA BesideOf ==
    ASSUME NEW s, Counted(s), NEW m \in Mon, NEW w \in Own(s, m), NEW d
    PROVE  Beside(s, w, d) \in Own(s, m) \cup {NoWs}
<1> DEFINE W == {v \in Own(s, m) : (s.idx[v] - s.idx[w]) * d > 0}
<1>1. s.owner[w] = m
  BY DEF Own
<1>2. Beside(s, w, d) = IF W = {} THEN NoWs ELSE IF d > 0 THEN Lowest(s, W) ELSE Highest(s, W)
  BY <1>1 DEF Beside
<1>3. W \in SUBSET Own(s, m)
  OBVIOUS
<1> HIDE DEF W
<1>4. W # {} => Lowest(s, W) \in W /\ Highest(s, W) \in W
  BY <1>3, LowestOf, HighestOf
<1> QED
  BY <1>2, <1>3, <1>4

\* The selected monitor of a sound desk and what it shows and showed.
LEMMA SelectedOf ==
    ASSUME NEW s, Sound(s)
    PROVE  /\ s.selmon \in Mon /\ s.selmon # NoMon
           /\ s.active[s.selmon] \in Own(s, s.selmon)
           /\ s.prev[s.selmon] \in Own(s, s.selmon) \cup {NoWs}
BY DEF Sound, Base, Shows, Mon, NoMon

\* What the workspace keys do.
Navigated(s, t) == \E m \in Mon : /\ KeyHere(t, m)
                                  /\ Quiet(s, t) \/ \E w : Visited(s, t, m, w)

\* A workspace that a key leads to, new or not, or none.
LEMMA KeyLeads ==
    ASSUME NEW s, Sound(s), NEW m \in Mon, NEW new \in BOOLEAN, NEW w,
           IF new THEN w \in Fresh(s) ELSE w \in Own(s, m) \cup {NoWs}
    PROVE  Navigated(s, Goto(IF new THEN Create(s, m, w) ELSE s, m, w))
<1>1. CASE new
  <2>1. Got(s, Create(s, m, w), m, w)
    BY <1>1, CreateDoes DEF Got
  <2>2. Visited(s, Goto(Create(s, m, w), m, w), m, w) /\ KeyHere(Goto(Create(s, m, w), m, w), m)
    BY <2>1, GotoDoes
  <2> QED
    BY <1>1, <2>2 DEF Navigated
<1>2. CASE ~ new /\ w \in Own(s, m)
  <2>1. Got(s, s, m, w)
    BY <1>2 DEF Got
  <2>2. Visited(s, Goto(s, m, w), m, w) /\ KeyHere(Goto(s, m, w), m)
    BY <2>1, GotoDoes
  <2> QED
    BY <1>2, <2>2 DEF Navigated
<1>3. CASE ~ new /\ w = NoWs
  <2>1. Quiet(s, Goto(s, m, NoWs)) /\ KeyHere(Goto(s, m, NoWs), m)
    BY GotoNowhere
  <2> QED
    BY <1>3, <2>1 DEF Navigated
<1> QED
  BY <1>1, <1>2, <1>3

\* focus_workspace_dir, focus_workspace_n and focus_last_workspace
LEMMA NavigateDoes ==
    ASSUME Sound(desk), Navigate
    PROVE  Navigated(desk, desk')
<1> DEFINE m == desk.selmon
<1>1. m \in Mon /\ desk.active[m] \in Own(desk, m) /\ desk.prev[m] \in Own(desk, m) \cup {NoWs}
  BY SelectedOf
<1>2. ASSUME NEW d \in Dir, FocusWorkspaceDir(d) PROVE Navigated(desk, desk')
  <2> DEFINE cur == desk.active[m]
             to == Beside(desk, cur, d)
             blocked == /\ d = 1 /\ ~ Occupied(desk, cur)
                        /\ to = NoWs \/ ~ Occupied(desk, to)
             new == to = NoWs /\ d = 1 /\ ~ blocked
  <2>1. PICK w \in IF new THEN Fresh(desk) ELSE {IF blocked THEN NoWs ELSE to} :
          desk' = Goto(IF new THEN Create(desk, m, w) ELSE desk, m, w)
    BY <1>2 DEF FocusWorkspaceDir
  <2>2. to \in Own(desk, m) \cup {NoWs}
    BY <1>1, BesideOf DEF Sound
  <2>3. new \in BOOLEAN
    OBVIOUS
  <2> HIDE DEF to
  <2>4. IF new THEN w \in Fresh(desk) ELSE w \in Own(desk, m) \cup {NoWs}
    BY <2>1, <2>2
  <2> HIDE DEF new, m
  <2> QED
    BY <1>1, <2>1, <2>3, <2>4, KeyLeads
<1>3. ASSUME NEW n \in 0..MaxJump, FocusWorkspaceN(n) PROVE Navigated(desk, desk')
  <2> DEFINE k == Min({n, LastOccupied(desk, m) + 1})
             there == Numbered(desk, m, k)
             new == there = {}
  <2>1. PICK w \in IF there = {} THEN Fresh(desk) ELSE there :
          desk' = Goto(IF there = {} THEN Create(desk, m, w) ELSE desk, m, w)
    BY <1>3 DEF FocusWorkspaceN
  <2>2. there \in SUBSET Own(desk, m)
    BY DEF Numbered
  <2> HIDE DEF there
  <2>3. new \in BOOLEAN /\ (IF new THEN w \in Fresh(desk) ELSE w \in Own(desk, m) \cup {NoWs})
    BY <2>1, <2>2
  <2>4. desk' = Goto(IF new THEN Create(desk, m, w) ELSE desk, m, w)
    BY <2>1
  <2> HIDE DEF new, m
  <2> QED
    BY <1>1, <2>3, <2>4, KeyLeads
<1>4. ASSUME FocusLastWorkspace PROVE Navigated(desk, desk')
  <2> DEFINE w == desk.prev[m]
  <2>1. desk' = Goto(desk, m, w) /\ w \in Own(desk, m)
    BY <1>1, <1>4 DEF FocusLastWorkspace
  <2> HIDE DEF m, w
  <2>2. Got(desk, desk, m, w)
    BY <2>1 DEF Got
  <2>3. Visited(desk, desk', m, w) /\ KeyHere(desk', m)
    BY <1>1, <2>1, <2>2, GotoDoes
  <2> QED
    BY <1>1, <2>3 DEF Navigated
<1> QED
  BY <1>2, <1>3, <1>4 DEF Navigate

\* A tile moved to a workspace takes the view along.
LEMMA FollowDoes ==
    ASSUME NEW s, Sound(s), NEW c \in Mapped(s), ~ s.float[c], ~ s.full[c],
           NEW m \in Mon, s.mon[c] = m, NEW w, NEW a, Got(s, a, m, w)
    PROVE  Sent(s, Follow(a, m, c, w), c, w)
<1> DEFINE d == Detach(a, c)
           b == Attach(d, w, c)
           v == Switch(b, m, w)
           u == Compact(v, m)
           D == Dead(v, m)
           r == Arrange(u, m)
           t == Focus(r, c)
<1>1. Sound(a) /\ w \in Own(a, m) /\ SameWindows(s, a)
  BY GotOwn
<1>2. /\ Base(a) /\ c \in Client /\ w \in Ws /\ w # NoWs /\ a.owner[w] = m /\ m # NoMon
      /\ c \in Mapped(a) /\ a.mon[c] = m /\ ~ a.full[c] /\ ~ a.float[c] /\ a.fs_ws[c] = NoWs
  <2>1. Base(a) /\ c \in Client
    BY <1>1, MappedOf DEF Sound
  <2>2. LiveAt(a, c)
    BY <1>1, <2>1 DEF Sound, Live
  <2> QED
    BY <1>1, <2>1, <2>2, NullAssumption
       DEF LiveAt, Own, SameWindows, SamePlaces, SameKinds, Mapped, Mon, NoMon
<1>3. t = Follow(a, m, c, w)
  BY DEF Follow
<1>4. Moves(a, d, c, NoWs)
  BY <1>2, DetachMoves
<1> HIDE DEF d
<1>5. /\ Touches(a, d, c) /\ d.mon[c] = a.mon[c] /\ d.fs_ws[c] = a.fs_ws[c]
      /\ d.full[c] = a.full[c] /\ d.float[c] = a.float[c]
  BY <1>2, <1>4, MovesTouches
<1>6. Base(d)
  BY <1>5 DEF Touches
<1>7. Moves(d, b, c, w)
  BY <1>2, <1>6, AttachMoves
<1> HIDE DEF b
<1>8. Carried(a, b, c, w)
  <2>1. /\ Touches(d, b, c) /\ b.col[c] = w /\ b.mon[c] = d.mon[c] /\ b.fs_ws[c] = d.fs_ws[c]
        /\ b.full[c] = d.full[c] /\ b.float[c] = d.float[c]
    BY <1>2, <1>6, <1>7, MovesTouches
  <2>2. Touches(a, b, c)
    BY <1>5, <2>1, TouchesTwice
  <2> QED
    BY <1>5, <2>1, <2>2 DEF Carried
<1>9. b.owner = a.owner /\ Mapped(b) = Mapped(a)
  BY <1>8 DEF Carried, Touches, SameLists, Mapped
<1>10. LiveAt(b, c)
  BY <1>2, <1>8, <1>9 DEF Carried, LiveAt
<1>11. Sound(b)
  BY <1>1, <1>8, <1>10, SoundTouched DEF Carried
<1>12. w \in Own(b, m)
  BY <1>1, <1>9 DEF Own
<1>13. Switched(b, v, m, w)
  BY <1>11, <1>12, SwitchDoes
<1> HIDE DEF v
<1>14. Compacts(v, u, m, D)
  BY <1>13, CompactDoes DEF Switched
<1> HIDE DEF u, D
<1>15. Base(u) /\ c \in Mapped(u)
  BY <1>2, <1>9, <1>13, <1>14
     DEF Switched, Compacts, Sound, SameWindows, SameKinds, Mapped
<1>16. Quiet(u, r)
  BY <1>15, ArrangeQuiet
<1> HIDE DEF r
<1>17. Base(r) /\ c \in Mapped(r)
  BY <1>15, <1>16 DEF Quiet, Shuffled, SameWindows, SameKinds, Mapped
<1>18. Quiet(u, t)
  BY <1>16, <1>17, FocusQuiet, QuietTwice
<1> HIDE DEF t
<1> QED
  BY <1>3, <1>8, <1>11, <1>13, <1>14, <1>18 DEF Sent

\* A tile that a key sends to a workspace of the selected monitor, new or not.
LEMMA TileFollows ==
    ASSUME NEW s, Sound(s), NEW m \in Mon, NEW c, c = FocusTop(s, m), Movable(s, c),
           NEW new \in BOOLEAN, NEW w, IF new THEN w \in Fresh(s) ELSE w \in Own(s, m)
    PROVE  Sent(s, Follow(IF new THEN Create(s, m, w) ELSE s, m, c, w), c, w)
<1>1. c \in Mapped(s) /\ s.mon[c] = m /\ ~ s.float[c] /\ ~ s.full[c]
  BY FocusTopOf DEF Movable, Sound
<1>2. CASE new
  <2>1. Got(s, Create(s, m, w), m, w)
    BY <1>2, CreateDoes DEF Got
  <2> QED
    BY <1>1, <1>2, <2>1, FollowDoes
<1>3. CASE ~ new
  <2>1. Got(s, s, m, w)
    BY <1>3 DEF Got
  <2> QED
    BY <1>1, <1>3, <2>1, FollowDoes
<1> QED
  BY <1>2, <1>3

\* move_client_to_ws_n and move_client_to_ws_dir
LEMMA MoveToWsDoes ==
    ASSUME Sound(desk),
           \/ \E n \in 0..MaxJump : MoveClientToWsN(n)
           \/ \E d \in Dir : MoveClientToWsDir(d)
    PROVE  \E c, w : Sent(desk, desk', c, w)
<1> DEFINE m == desk.selmon
           c == FocusTop(desk, m)
<1>1. m \in Mon /\ desk.active[m] \in Own(desk, m)
  BY SelectedOf
<1>2. ASSUME NEW n \in 0..MaxJump, MoveClientToWsN(n) PROVE \E w : Sent(desk, desk', c, w)
  <2> DEFINE there == Numbered(desk, m, n)
             new == there = {}
  <2>1. Movable(desk, c)
    BY <1>2 DEF MoveClientToWsN
  <2>2. PICK w \in IF there = {} THEN Fresh(desk) ELSE there \ {desk.active[m]} :
          desk' = Follow(IF there = {} THEN Create(desk, m, w) ELSE desk, m, c, w)
    BY <1>2 DEF MoveClientToWsN
  <2>3. there \in SUBSET Own(desk, m)
    BY DEF Numbered
  <2> HIDE DEF there
  <2>4. /\ new \in BOOLEAN /\ (IF new THEN w \in Fresh(desk) ELSE w \in Own(desk, m))
        /\ desk' = Follow(IF new THEN Create(desk, m, w) ELSE desk, m, c, w)
    BY <2>2, <2>3
  <2> HIDE DEF new, m
  <2> QED
    BY <1>1, <2>1, <2>4, TileFollows
<1>3. ASSUME NEW d \in Dir, MoveClientToWsDir(d) PROVE \E w : Sent(desk, desk', c, w)
  <2> DEFINE to == Beside(desk, desk.active[m], d)
             new == to = NoWs
  <2>1. Movable(desk, c)
    BY <1>3 DEF MoveClientToWsDir
  <2>2. PICK w \in IF to = NoWs THEN Fresh(desk) ELSE {to} :
          desk' = Follow(IF to = NoWs THEN Create(desk, m, w) ELSE desk, m, c, w)
    BY <1>3 DEF MoveClientToWsDir
  <2>3. to \in Own(desk, m) \cup {NoWs}
    BY <1>1, BesideOf DEF Sound
  <2> HIDE DEF to
  <2>4. /\ new \in BOOLEAN /\ (IF new THEN w \in Fresh(desk) ELSE w \in Own(desk, m))
        /\ desk' = Follow(IF new THEN Create(desk, m, w) ELSE desk, m, c, w)
    BY <2>2, <2>3
  <2> HIDE DEF new, m
  <2> QED
    BY <1>1, <2>1, <2>4, TileFollows
<1> HIDE DEF c
<1> QED
  BY <1>2, <1>3

\* Of some monitors, one comes first in a direction.
LEMMA EndIn ==
    ASSUME NEW L \in SUBSET Mon, L # {}, NEW d \in Dir
    PROVE  EndOf(L, d) \in L
<1>1. NMon \in Nat /\ \A m \in L : m \in Nat /\ NMon - m \in Nat
  BY CountAssumption DEF Mon
<1>2. CASE d = 1
  <2>1. PICK m \in L : \A n \in L : m <= n
    BY <1>1, LeastNatural
  <2>2. \A n \in L : (m - n) * d <= 0
    BY <1>1, <1>2, <2>1
  <2> QED
    BY <2>2 DEF EndOf
<1>3. CASE d = -1
  <2> DEFINE T == {NMon - m : m \in L}
  <2>1. T \in SUBSET Nat /\ T # {}
    BY <1>1
  <2>2. PICK k \in T : \A j \in T : k <= j
    <3> HIDE DEF T
    <3> QED
      BY <2>1, LeastNatural
  <2>3. PICK m \in L : k = NMon - m
    BY <2>2
  <2>4. ASSUME NEW n \in L PROVE (m - n) * d <= 0
    <3>1. NMon - m <= NMon - n
      BY <2>2, <2>3
    <3>2. m \in Nat /\ n \in Nat
      BY <1>1
    <3> QED
      BY <1>1, <1>3, <3>1, <3>2
  <2> QED
    BY <2>4 DEF EndOf
<1> QED
  BY <1>2, <1>3 DEF Dir

\* The monitors that a direction leads to.
LEMMA NextToOf ==
    ASSUME NEW L \in SUBSET Mon, NEW m \in Mon, NEW d \in Dir
    PROVE  /\ NextTo(L, m, d) # NoMon => NextTo(L, m, d) \in L /\ NextTo(L, m, d) # m
           /\ L # {} => Around(L, m, d) \in L
           /\ DirToMon(L, m, d) \in L \cup {m}
<1> DEFINE B == Beyond(L, m, d)
<1>1. B \in SUBSET L /\ m \notin B
  <2>1. (m - m) * d = 0
    BY CountAssumption DEF Mon, Dir
  <2> QED
    BY <2>1 DEF Beyond
<1>2. NextTo(L, m, d) = IF B = {} THEN NoMon ELSE EndOf(B, d)
  BY DEF NextTo
<1>3. Around(L, m, d) = IF B = {} THEN EndOf(L, d) ELSE NextTo(L, m, d)
  BY DEF Around
<1> HIDE DEF B
<1>4. B # {} => NextTo(L, m, d) \in B
  BY <1>1, <1>2, EndIn
<1>5. NextTo(L, m, d) # NoMon => NextTo(L, m, d) \in L /\ NextTo(L, m, d) # m
  BY <1>1, <1>2, <1>4
<1>6. L # {} => Around(L, m, d) \in L
  BY <1>1, <1>3, <1>4, EndIn
<1> QED
  BY <1>5, <1>6 DEF DirToMon

\* focus_column_dir
LEMMA FocusColumnDirDoes ==
    ASSUME Sound(desk), NEW L \in SUBSET Mon, NEW d \in Dir, FocusColumnDir(L, d)
    PROVE  Quiet(desk, desk')
<1> DEFINE m == desk.selmon
           w == desk.active[m]
           r == desk.row[w]
           i == IF desk.focused[w] = NoClient THEN 1 ELSE Pos(r, desk.focused[w]) + d
           n == NextTo(L, m, d)
           v == desk.active[n]
           far == desk.row[v]
           edge == IF d = 1 THEN Head(far) ELSE Last(far)
           over == [desk EXCEPT !.selmon = n]
<1>1. m \in Mon /\ w \in Ws /\ Base(desk)
  BY SelectedOf DEF Own, Sound
<1>2. ASSUME NEW s, Sound(s), NEW x \in Mon, NEW u, u = s.active[x], NEW c \in InRow(s, u)
      PROVE  Quiet(s, Focus(Arrange([s EXCEPT !.focused[u] = c], x), c))
  <2> DEFINE a == [s EXCEPT !.focused[u] = c]
             b == Arrange(a, x)
  <2>1. u \in Ws /\ Base(s)
    BY <1>2, ActiveOf DEF Sound
  <2>2. Quiet(s, a)
    BY <1>2, <2>1, ColumnQuiet
  <2>3. c \in Mapped(s)
    BY <1>2, RowHereOf DEF RowHere, RowSeen, InRow
  <2> HIDE DEF a
  <2>4. Quiet(a, b)
    BY <1>2, <2>2, ArrangeQuiet DEF Quiet, Shuffled
  <2> HIDE DEF b
  <2>5. Quiet(s, b)
    BY <2>2, <2>4, QuietTwice
  <2>6. Base(b) /\ c \in Mapped(b)
    BY <2>3, <2>5 DEF Quiet, Shuffled, SameWindows, SameKinds, Mapped
  <2>7. Quiet(b, Focus(b, c))
    BY <2>6, FocusQuiet
  <2> QED
    BY <2>5, <2>7, QuietTwice DEF b, a
<1>3. CASE i \in DOMAIN r /\ desk' = Focus(Arrange([desk EXCEPT !.focused[w] = r[i]], m), r[i])
  <2>1. Lists(r, InRow(desk, w))
    BY <1>1 DEF Base, Rows, RowOK
  <2>2. r[i] \in InRow(desk, w)
    <3>1. i \in DOMAIN r
      BY <1>3
    <3> HIDE DEF i, r
    <3> QED
      BY <2>1, <3>1, ListsPlaces
  <2> HIDE DEF i
  <2> DEFINE c == r[i]
  <2>3. w = desk.active[m] /\ c \in InRow(desk, w)
    BY <2>2
  <2>4. desk' = Focus(Arrange([desk EXCEPT !.focused[w] = c], m), c)
    BY <1>3
  <2> HIDE DEF c, w, m
  <2> QED
    BY <1>1, <1>2, <2>3, <2>4
<1>4. CASE /\ n # NoMon
           /\ desk' = IF far = <<>> THEN Focus(over, NoClient)
                      ELSE Focus(Arrange([over EXCEPT !.focused[v] = edge], n), edge)
  <2>1. n \in Mon
    BY <1>1, <1>4, NextToOf
  <2> HIDE DEF n
  <2>2. Quiet(desk, over)
    BY <1>1, <2>1, SelectQuiet
  <2>3. Sound(over)
    BY <2>2, SoundQuiet
  <2>4. CASE far = <<>>
    <3> HIDE DEF over
    <3>1. Quiet(over, Focus(over, NoClient))
      BY <2>3, FocusQuiet DEF Sound
    <3> QED
      BY <1>4, <2>2, <2>4, <3>1, QuietTwice
  <2>5. CASE far # <<>>
    <3>1. v \in Ws /\ v = over.active[n] /\ InRow(over, v) = InRow(desk, v)
      BY <1>1, <2>1, <2>2, ActiveOf DEF Sound, Quiet, Shuffled, SameLists, SameWindows, SamePlaces, InRow
    <3>2. Lists(far, InRow(desk, v))
      BY <1>1, <3>1 DEF Base, Rows, RowOK
    <3> HIDE DEF far
    <3>3. edge \in InRow(over, v)
      BY <2>5, <3>1, <3>2, EndsListed
    <3> HIDE DEF over, edge, v
    <3>4. Quiet(over, Focus(Arrange([over EXCEPT !.focused[v] = edge], n), edge))
      BY <1>2, <2>1, <2>3, <3>1, <3>3
    <3> QED
      BY <1>4, <2>2, <2>5, <3>4, QuietTwice
  <2> QED
    BY <2>4, <2>5
<1> QED
  BY <1>3, <1>4 DEF FocusColumnDir

\* focusmon
LEMMA FocusMonDoes ==
    ASSUME Sound(desk), NEW L \in SUBSET Mon, NEW d \in Dir, FocusMon(L, d)
    PROVE  Quiet(desk, desk')
<1> DEFINE lit == {m \in L : desk.lit[m]}
           N == IF desk.selmon \notin L THEN {desk.selmon}
                ELSE IF lit = {} THEN L ELSE {Around(lit, desk.selmon, d)}
<1>1. desk.selmon \in Mon /\ Base(desk)
  BY SelectedOf DEF Sound
<1>2. N \in SUBSET Mon
  <2>1. lit \in SUBSET Mon
    OBVIOUS
  <2> HIDE DEF lit
  <2>2. lit # {} => Around(lit, desk.selmon, d) \in Mon
    BY <1>1, <2>1, NextToOf
  <2> QED
    BY <1>1, <2>2
<1>3. PICK n \in N : desk' = FocusMostRecent([desk EXCEPT !.selmon = n])
  BY DEF FocusMon
<1> HIDE DEF N
<1> DEFINE s == [desk EXCEPT !.selmon = n]
<1>4. Quiet(desk, s)
  BY <1>1, <1>2, SelectQuiet
<1> HIDE DEF s
<1>5. Quiet(s, FocusMostRecent(s))
  BY <1>4, FocusMostRecentQuiet DEF Quiet, Shuffled
<1>6. Quiet(desk, FocusMostRecent(s))
  BY <1>4, <1>5, QuietTwice
<1> QED
  BY <1>3, <1>6 DEF s

\* tagmon
LEMMA TagMonDoes ==
    ASSUME Sound(desk), NEW L \in SUBSET Mon, NEW d \in Dir, TagMon(L, d)
    PROVE  Quiet(desk, desk') \/ \E c, m : SentTo(desk, desk', c, m)
<1> DEFINE c == FocusTop(desk, desk.selmon)
           m == DirToMon(L, desk.selmon, d)
<1>1. desk' = SetMon(desk, c, m) /\ c # NoClient
  BY DEF TagMon
<1>2. m \in Mon /\ desk.selmon \in Mon
  BY NextToOf, SelectedOf
<1>3. c \in Mapped(desk)
  BY <1>1, <1>2, FocusTopOf DEF Sound
<1> HIDE DEF c, m
<1>4. CASE desk.mon[c] = m
  <2>1. desk' = desk
    BY <1>1, <1>4 DEF SetMon
  <2>2. Quiet(desk, desk)
    BY QuietNot DEF Sound
  <2> QED
    BY <2>1, <2>2
<1>5. CASE desk.mon[c] # m
  BY <1>1, <1>2, <1>3, <1>5, SetMonOf
<1> QED
  BY <1>4, <1>5

\* togglefloating
LEMMA ToggleFloatingDoes ==
    ASSUME Sound(desk), ToggleFloating
    PROVE  \E c, on : Floated(desk, desk', c, on) /\ ~ desk.full[c]
<1> DEFINE c == FocusTop(desk, desk.selmon)
           on == ~ desk.float[c]
<1>1. desk' = SetFloating(desk, c, on) /\ c # NoClient /\ ~ desk.full[c]
  BY DEF ToggleFloating
<1>2. c \in Mapped(desk)
  BY <1>1, SelectedOf, FocusTopOf DEF Sound
<1>3. on \in BOOLEAN
  OBVIOUS
<1> HIDE DEF c, on
<1>4. Floated(desk, SetFloating(desk, c, on), c, on)
  BY <1>2, <1>3, SetFloatingOf
<1> QED
  BY <1>1, <1>4

\* togglefullscreen
LEMMA ToggleFullscreenDoes ==
    ASSUME Sound(desk), ToggleFullscreen
    PROVE  \E c, on : Fulled(desk, desk', c, on)
<1> DEFINE c == FocusTop(desk, desk.selmon)
           on == ~ desk.full[c]
<1>1. desk' = SetFullscreen(desk, c, on) /\ c # NoClient
  BY DEF ToggleFullscreen
<1>2. c \in Mapped(desk) /\ c \in Client
  BY <1>1, SelectedOf, FocusTopOf DEF Sound
<1>3. on \in BOOLEAN
  OBVIOUS
<1> HIDE DEF c, on
<1>4. Fulled(desk, SetFullscreen(desk, c, on), c, on)
  BY <1>2, <1>3, SetFullscreenOf
<1> QED
  BY <1>1, <1>4

\* fullscreennotify
LEMMA FullscreenNotifyDoes ==
    ASSUME Sound(desk), NEW c \in Client, NEW want \in BOOLEAN, FullscreenNotify(c, want)
    PROVE  Fulled(desk, desk', c, want) \/ Prepared(desk, desk', c)
<1>1. desk' = SetFullscreen(desk, c, want)
  BY DEF FullscreenNotify
<1>2. LET t == SetFullscreen(desk, c, want)
      IN  IF c \in Mapped(desk) THEN Fulled(desk, t, c, want) ELSE Prepared(desk, t, c)
  BY SetFullscreenOf
<1> QED
  BY <1>1, <1>2

\* Two tiles of a row that change places.
LEMMA SwapShuffled ==
    ASSUME NEW s, Base(s), NEW w \in Ws, NEW i \in DOMAIN s.row[w], NEW j \in DOMAIN s.row[w]
    PROVE  Shuffled(s, [s EXCEPT !.row[w][i] = s.row[w][j], !.row[w][j] = s.row[w][i]])
<1> DEFINE r == s.row[w]
           q == [[r EXCEPT ![i] = r[j]] EXCEPT ![j] = r[i]]
           t == [s EXCEPT !.row[w][i] = r[j], !.row[w][j] = r[i]]
<1>1. Shaped(s) /\ s \in Desk
  BY DeskShaped DEF Base
<1>2. Lists(r, InRow(s, w)) /\ RowOK(s, w)
  BY DEF Base, Rows, RowOK
<1>3. i \in 1..Len(r) /\ j \in 1..Len(r)
  BY <1>2, ListsPlaces
<1>4. s.row \in [Ws -> Seq(Client)]
  BY <1>1, DeskTyped
<1>5. t.row = [s.row EXCEPT ![w] = q]
  BY <1>1, <1>4 DEF Shaped, Fields
<1>6. /\ Shaped(t) /\ t.owner = s.owner /\ t.idx = s.idx /\ t.next = s.next
      /\ t.active = s.active /\ t.prev = s.prev /\ t.lit = s.lit /\ t.focused = s.focused
      /\ t.col = s.col /\ t.fs_ws = s.fs_ws /\ t.mon = s.mon /\ t.full = s.full
      /\ t.float = s.float /\ t.clients = s.clients /\ t.fstack = s.fstack
      /\ t.kb = s.kb /\ t.selmon = s.selmon
  BY <1>1 DEF Shaped, Fields
<1> HIDE DEF t, r
<1>7. Lists(q, InRow(s, w))
  BY <1>2, <1>3, SwapLists
<1> HIDE DEF q
<1>8. q \in Seq(Client)
  BY <1>7 DEF Lists
<1>9. t.row \in [Ws -> Seq(Client)] /\ \A v \in Ws : t.row[v] = IF v = w THEN q ELSE s.row[v]
  BY <1>4, <1>5, <1>8
<1>10. t \in Desk
  BY <1>1, <1>6, <1>9, DeskTyped, ShapedDesk
<1>11. Rows(t)
  <2>1. ASSUME NEW v \in Ws PROVE RowOK(t, v)
    <3>1. InRow(t, v) = InRow(s, v) /\ t.focused[v] = s.focused[v]
      BY <1>6 DEF InRow
    <3>2. RowOK(s, v)
      BY DEF Base, Rows
    <3> QED
      BY <1>7, <1>9, <3>1, <3>2 DEF RowOK
  <2> QED
    BY <2>1 DEF Rows
<1>12. Orders(t)
  BY <1>6 DEF Base, Orders, Mapped
<1>13. Base(t)
  BY <1>10, <1>11, <1>12 DEF Base
<1>14. Shuffled(s, t)
  BY <1>6, <1>13 DEF Shuffled, SameLists, SameWindows, SamePlaces, SameKinds, Keys, Selects
<1> QED
  BY <1>14 DEF t, r

\* Tiles that changed places are where they are after a change of focus.
LEMMA ShuffledQuiet ==
    ASSUME NEW s, NEW t, NEW u, Shuffled(s, t), Quiet(t, u)
    PROVE  Shuffled(s, u)
BY DEF Quiet, Shuffled, SameLists, SameWindows, SamePlaces, SameKinds, Keys, Keyed, Mapped, Selects

\* A window sent to a monitor is still sent there after a change of focus.
LEMMA SentToQuiet ==
    ASSUME NEW s, NEW u, NEW t, NEW c \in Client, NEW m, SentTo(s, u, c, m), Quiet(u, t)
    PROVE  SentTo(s, t, c, m)
<1>1. Touches(u, t, c) /\ Alike(u, t, c)
  BY QuietTouches
<1>2. Touches(s, t, c)
  BY <1>1, TouchesTwice DEF SentTo
<1> QED
  BY <1>1, <1>2 DEF SentTo, Alike

\* Records with the same fields are the same.
LEMMA SameRecord ==
    ASSUME NEW s, NEW t, Shaped(s), Shaped(t), \A f \in Fields : t[f] = s[f]
    PROVE  t = s
BY DEF Shaped

\* Where the column already belongs to the row it hops to, moving its link does
\* what taking it out and putting it in again does.
LEMMA RelinkSame ==
    ASSUME NEW s, Base(s), NEW c \in Client, NEW w \in Ws, s.col[c] = w, NEW d
    PROVE  LET u == Detach(s, c)
           IN  Relink(s, c, w, d) = Insert(u, w, IF d = 1 THEN 1 ELSE Len(u.row[w]) + 1, c)
<1> DEFINE r == RemoveAt(s.row[w], Pos(s.row[w], c))
           u == Detach(s, c)
           k == IF d = 1 THEN 1 ELSE Len(u.row[w]) + 1
           t == Insert(u, w, k, c)
           e == [s EXCEPT !.row[s.col[c]] = RemoveAt(@, Pos(@, c))]
           v == Relink(s, c, w, d)
<1>1. s \in Desk /\ Shaped(s) /\ w # NoWs
  BY DeskShaped, NullAssumption DEF Base
<1>2. /\ s.row \in [Ws -> Seq(Client)] /\ s.focused \in [Ws -> Client \cup {NoClient}]
      /\ s.col \in [Client -> Ws \cup {NoWs}]
  BY <1>1, DeskTyped
<1>3. Shaped(u) /\ Shaped(e)
  BY <1>1 DEF Detach, Shaped, Fields
<1>4. /\ u.col = [s.col EXCEPT ![c] = NoWs] /\ u.row = [s.row EXCEPT ![w] = r]
      /\ \E h : u.focused = [s.focused EXCEPT ![w] = h]
      /\ e.col = s.col /\ e.row = [s.row EXCEPT ![w] = r] /\ e.focused = s.focused
  BY <1>1 DEF Detach, Shaped, Fields
<1>5. \A f \in Fields \ {"col", "row", "focused"} : u[f] = s[f] /\ e[f] = s[f]
  BY <1>1 DEF Detach, Shaped, Fields
<1>6. v = [e EXCEPT !.row[w] = InsertAt(@, k, c), !.focused[w] = c]
  BY <1>2, <1>4 DEF Relink
<1>7. t = [u EXCEPT !.col[c] = w, !.row[w] = InsertAt(@, k, c), !.focused[w] = c]
  BY DEF Insert
<1> HIDE DEF u, e, k, r, t, v
<1>8. Shaped(t) /\ Shaped(v)
  BY <1>3, <1>6, <1>7 DEF Shaped, Fields
<1>9. \A f \in Fields \ {"col", "row", "focused"} : t[f] = u[f] /\ v[f] = e[f]
  BY <1>3, <1>6, <1>7 DEF Shaped, Fields
<1>10. /\ t.col = [u.col EXCEPT ![c] = w] /\ t.row = [u.row EXCEPT ![w] = InsertAt(@, k, c)]
       /\ t.focused = [u.focused EXCEPT ![w] = c]
       /\ v.col = e.col /\ v.row = [e.row EXCEPT ![w] = InsertAt(@, k, c)]
       /\ v.focused = [e.focused EXCEPT ![w] = c]
  BY <1>3, <1>6, <1>7 DEF Shaped, Fields
<1>11. t.col = v.col
  BY <1>2, <1>4, <1>10
<1>12. t.row = v.row
  BY <1>4, <1>10
<1>13. t.focused = v.focused
  BY <1>2, <1>4, <1>10
<1>14. \A f \in Fields : t[f] = v[f]
  BY <1>5, <1>9, <1>11, <1>12, <1>13
<1>15. t = v
  BY <1>8, <1>14, SameRecord
<1> QED
  BY <1>15 DEF t, v, u, k

\* A column setmon has sent hangs in the row it then hops to.
LEMMA HopSame ==
    ASSUME NEW s, Base(s), NEW c \in Client, NEW n \in Mon, s.mon[c] # n,
           s.active[n] \in Ws, NEW d
    PROVE  LET to == s.active[n]
               a == SetMon(s, c, n)
               u == Detach(a, c)
           IN  a.col[c] # NoWs =>
                 Relink(a, c, to, d) = Insert(u, to, IF d = 1 THEN 1 ELSE Len(u.row[to]) + 1, c)
<1> DEFINE a == SetMon(s, c, n)
           to == s.active[n]
<1>1. n \in Mon \cup {NoMon}
  OBVIOUS
<1>2. Touches(s, a, c) /\ a.col[c] = SentCol(s, c, n)
  BY <1>1, SetMonDoes
<1> HIDE DEF a
<1>3. /\ Base(a) /\ to \in Ws
      /\ a.col[c] # NoWs => a.col[c] = to
  BY <1>2 DEF SentCol, Touches
<1> HIDE DEF to
<1> QED
  BY <1>3, RelinkSame DEF a, to

\* A column that hops to the next monitor: a window sent there, to a place of its choice.
LEMMA HopDoes ==
    ASSUME NEW s, Sound(s), NEW c \in Mapped(s), NEW n \in Mon, s.mon[c] # n, NEW d
    PROVE  LET a == SetMon(s, c, n)
           IN  SentTo(s, IF a.col[c] = NoWs THEN a ELSE Relink(a, c, s.active[n], d), c, n)
<1> DEFINE to == s.active[n]
           a == SetMon(s, c, n)
           u == Detach(a, c)
           i == IF d = 1 THEN 1 ELSE Len(u.row[to]) + 1
           t == Insert(u, to, i, c)
<1>1. SentTo(s, a, c, n) /\ c \in Client
  BY SetMonOf, MappedOf DEF Sound
<1>2. to \in Ws /\ to # NoWs
  BY ActiveOf DEF Sound
<1>3. a.col[c] # NoWs => Relink(a, c, to, d) = t
  BY <1>1, <1>2, HopSame DEF Sound
<1> HIDE DEF a, to
<1>4. Base(a)
  BY <1>1 DEF SentTo, Touches
<1>5. Moves(a, u, c, NoWs)
  BY <1>1, <1>4, DetachMoves
<1> HIDE DEF u
<1>6. /\ Touches(a, u, c) /\ u.col[c] = NoWs /\ u.mon[c] = a.mon[c]
      /\ u.fs_ws[c] = a.fs_ws[c] /\ u.full[c] = a.full[c] /\ u.float[c] = a.float[c]
  BY <1>1, <1>4, <1>5, MovesTouches
<1>7. Base(u)
  BY <1>6 DEF Touches
<1>8. Lists(u.row[to], InRow(u, to))
  BY <1>2, <1>7 DEF Base, Rows, RowOK
<1>9. Len(u.row[to]) \in Nat
  BY <1>8, ListsPlaces
<1>10. i \in 1..(Len(u.row[to]) + 1)
  BY <1>9
<1> HIDE DEF i
<1>11. Moves(u, t, c, to)
  BY <1>1, <1>2, <1>6, <1>7, <1>10, InsertMoves
<1> HIDE DEF t
<1>12. /\ Touches(u, t, c) /\ t.col[c] = to /\ t.mon[c] = u.mon[c]
       /\ t.fs_ws[c] = u.fs_ws[c] /\ t.full[c] = u.full[c] /\ t.float[c] = u.float[c]
  BY <1>1, <1>7, <1>11, MovesTouches
<1>13. Touches(s, t, c)
  BY <1>1, <1>6, <1>12, TouchesTwice DEF SentTo
<1>14. a.col[c] # NoWs => SentTo(s, t, c, n)
  BY <1>1, <1>6, <1>12, <1>13 DEF SentTo, SentCol, to
<1> QED
  BY <1>1, <1>14, <1>3 DEF t, i, u, a, to

\* move_column_dir
LEMMA MoveColumnDirDoes ==
    ASSUME Sound(desk), NEW L \in SUBSET Mon, NEW d \in Dir, MoveColumnDir(L, d)
    PROVE  Shuffled(desk, desk') \/ \E c, m : SentTo(desk, desk', c, m)
<1> DEFINE m == desk.selmon
           w == desk.active[m]
           r == desk.row[w]
           c == desk.focused[w]
           i == Pos(r, c)
           n == NextTo(L, m, d)
           to == desk.active[n]
           a == SetMon(desk, c, n)
           put == IF a.col[c] = NoWs THEN a ELSE Relink(a, c, to, d)
           over == [put EXCEPT !.selmon = n]
           b == Arrange(over, m)
           e == Arrange(b, n)
<1>1. m \in Mon /\ w \in Ws /\ w = desk.active[m] /\ Base(desk)
  BY SelectedOf DEF Own, Sound
<1>2. c # NoClient
  BY DEF MoveColumnDir
<1>3. c \in InRow(desk, w) /\ Lists(r, InRow(desk, w))
  BY <1>1, <1>2 DEF Base, Rows, RowOK
<1>4. c \in Mapped(desk) /\ desk.mon[c] = m /\ c \in Client
  BY <1>1, <1>3, RowHereOf DEF RowHere, RowSeen, InRow
<1>5. i \in DOMAIN r /\ r[i] = c
  <2>1. DOMAIN r = 1..Len(r)
    BY <1>3, ListsPlaces
  <2>2. i \in 1..Len(r) /\ r[i] = c
    <3> HIDE DEF r, c
    <3> QED
      BY <1>3, PosPlace DEF i
  <2> QED
    BY <2>1, <2>2
<1>6. CASE /\ i + d \in DOMAIN r
           /\ desk' = Arrange([desk EXCEPT !.row[w][i] = r[i + d], !.row[w][i + d] = c], m)
  <2> DEFINE j == i + d
             v == [desk EXCEPT !.row[w][i] = r[j], !.row[w][j] = r[i]]
  <2>1. desk' = Arrange(v, m)
    BY <1>5, <1>6
  <2>2. j \in DOMAIN r
    BY <1>6
  <2> HIDE DEF i, j
  <2>3. Shuffled(desk, v)
    BY <1>1, <1>5, <2>2, SwapShuffled
  <2> HIDE DEF v
  <2>4. Quiet(v, Arrange(v, m))
    BY <1>1, <2>3, ArrangeQuiet DEF Shuffled
  <2> QED
    BY <2>1, <2>3, <2>4, ShuffledQuiet
<1>7. CASE n # NoMon /\ desk' = Focus(e, c)
  <2>1. n \in Mon /\ n # m
    BY <1>1, <1>7, NextToOf
  <2> HIDE DEF n, c, m
  <2>2. SentTo(desk, put, c, n)
    BY <1>4, <2>1, HopDoes
  <2> HIDE DEF put
  <2>3. Base(put) /\ put.clients = desk.clients
    BY <2>2 DEF SentTo, Touches
  <2>4. Quiet(put, over)
    BY <2>1, <2>3, SelectQuiet
  <2> HIDE DEF over
  <2>5. Quiet(over, b)
    BY <1>1, <2>4, ArrangeQuiet DEF Quiet, Shuffled
  <2> HIDE DEF b
  <2>6. Quiet(b, e)
    BY <2>1, <2>5, ArrangeQuiet DEF Quiet, Shuffled
  <2> HIDE DEF e
  <2>7. Quiet(put, e)
    BY <2>4, <2>5, <2>6, QuietTwice
  <2>8. Base(e) /\ c \in Mapped(e)
    BY <1>4, <2>3, <2>7 DEF Quiet, Shuffled, SameWindows, SameKinds, Mapped
  <2>9. Quiet(e, Focus(e, c))
    BY <2>8, FocusQuiet
  <2>10. Quiet(put, desk')
    BY <1>7, <2>7, <2>9, QuietTwice
  <2> QED
    BY <1>4, <2>2, <2>10, SentToQuiet
<1>8. \/ i + d \in DOMAIN r
         /\ desk' = Arrange([desk EXCEPT !.row[w][i] = r[i + d], !.row[w][i + d] = c], m)
      \/ n # NoMon /\ desk' = Focus(e, c)
  BY DEF MoveColumnDir
<1> QED
  BY <1>6, <1>7, <1>8

\* Places of a list are never left by counting around it, and a whole round leads back.
LEMMA AroundList ==
    ASSUME NEW p, NEW l \in Nat, p \in 1..l, NEW d \in Dir
    PROVE  /\ \A k \in Int : ((p - 1 + k * d) % l) + 1 \in 1..l
           /\ ((p - 1 + l * d) % l) + 1 = p
<1>1. l > 0 /\ p \in Int /\ d \in Int /\ (d = 1 \/ d = -1)
  BY DEF Dir
<1>2. ASSUME NEW k \in Int PROVE ((p - 1 + k * d) % l) + 1 \in 1..l
  <2>1. p - 1 + k * d \in Int
    BY <1>1
  <2> DEFINE x == p - 1 + k * d
  <2> HIDE DEF x
  <2>2. x % l \in 0..(l - 1)
    BY <1>1, <2>1 DEF x
  <2> QED
    BY <2>2 DEF x
<1>3. ((p - 1 + l * d) % l) + 1 = p
  <2>1. CASE d = 1
    BY <1>1, <2>1
  <2>2. CASE d = -1
    BY <1>1, <2>2
  <2> QED
    BY <1>1, <2>1, <2>2
<1> QED
  BY <1>2, <1>3

\* focusstack
LEMMA FocusStackDoes ==
    ASSUME Sound(desk), NEW d \in Dir, FocusStack(d)
    PROVE  Quiet(desk, desk')
<1> DEFINE c == FocusTop(desk, desk.selmon)
           q == desk.clients
           p == Pos(q, c)
           at(k) == q[((p - 1 + k * d) % Len(q)) + 1]
           turns == {k \in 1..Len(q) : desk.mon[at(k)] = desk.selmon}
           k0 == Min(turns)
<1>1. desk' = Focus(desk, at(k0)) /\ c # NoClient
  BY DEF FocusStack
<1>2. c \in Mapped(desk) /\ desk.mon[c] = desk.selmon
  BY <1>1, SelectedOf, FocusTopOf DEF Sound
<1>3. Lists(q, Mapped(desk))
  BY DEF Sound, Base, Orders
<1>4. p \in 1..Len(q) /\ q[p] = c /\ Len(q) \in Nat
  BY <1>2, <1>3, PosPlace, ListsPlaces
<1> HIDE DEF p
<1>5. /\ \A k \in Int : ((p - 1 + k * d) % Len(q)) + 1 \in 1..Len(q)
      /\ ((p - 1 + Len(q) * d) % Len(q)) + 1 = p
  BY <1>4, AroundList
<1>6. at(Len(q)) = c
  BY <1>4, <1>5
<1>7. Len(q) \in turns
  BY <1>2, <1>4, <1>6
<1>8. turns \in SUBSET Nat
  BY <1>4
<1>9. k0 \in turns
  <2> HIDE DEF turns
  <2>1. \E x \in turns : \A y \in turns : x <= y
    BY <1>7, <1>8, LeastNatural
  <2> QED
    BY <2>1 DEF Min
<1> HIDE DEF turns, k0
<1>10. k0 \in Int
  BY <1>8, <1>9
<1>11. at(k0) \in Mapped(desk)
  BY <1>3, <1>5, <1>10, ListsPlaces
<1> QED
  BY <1>1, <1>11, FocusQuiet DEF Sound

\* A handler of Workspaces, but for the end of a window and the keys that move tiles,
\* does one of these to a sound desk.
Unmoved(s, t) ==
    \/ Quiet(s, t)
    \/ \E c \in Client : Prepared(s, t, c) \/ Opened(s, t, c)
    \/ \E c, on : Fulled(s, t, c, on) \/ (Floated(s, t, c, on) /\ ~ s.full[c])
    \/ \E c, m : SentTo(s, t, c, m)
    \/ \E m, w : Visited(s, t, m, w)

\* Those keys move a tile within its row or to another.
Effect(s, t) == Unmoved(s, t) \/ Shuffled(s, t) \/ \E c, w : Sent(s, t, c, w)

\* The handlers of a window while it lives.
LEMMA AliveDoes ==
    ASSUME Sound(desk), NEW c \in Client, Alive(c)
    PROVE  \/ Prepared(desk, desk', c) \/ Opened(desk, desk', c)
           \/ Activate(c) /\ Visited(desk, desk', desk.mon[c], desk.col[c])
           \/ \E want \in BOOLEAN : /\ FullscreenNotify(c, want)
                                    /\ Fulled(desk, desk', c, want)
<1>1. desk.selmon \in Mon
  BY SelectedOf
<1>2. Present(desk) \cup {desk.selmon} \in SUBSET Mon
  BY <1>1 DEF Present
<1>3. ASSUME NEW m \in Present(desk) \cup {desk.selmon}, NEW float \in BOOLEAN,
             InitialCommit(c, m, float)
      PROVE  Prepared(desk, desk', c)
  BY <1>2, <1>3, InitialCommitDoes
<1>4. ASSUME NEW m \in Present(desk) \cup {desk.selmon}, NEW float \in BOOLEAN,
             NEW tray \in BOOLEAN, MapWindow(c, m, float, tray)
      PROVE  Opened(desk, desk', c)
  BY <1>2, <1>4, MapWindowDoes
<1>5. ASSUME NEW m \in Present(desk) \cup {desk.selmon}, NEW float \in BOOLEAN,
             MapLateGame(c, m, float)
      PROVE  Opened(desk, desk', c)
  BY <1>2, <1>5, MapLateGameDoes
<1>6. ASSUME NEW m \in Present(desk), MapGame(c, m) \/ MapSplash(c, m)
      PROVE  Opened(desk, desk', c)
  BY <1>2, <1>6, MapGameDoes, MapSplashDoes
<1>7. Forget(c) => Prepared(desk, desk', c)
  BY ForgetDoes
<1>8. Activate(c) => Visited(desk, desk', desk.mon[c], desk.col[c])
  BY ActivateDoes
<1>9. ASSUME NEW want \in BOOLEAN, FullscreenNotify(c, want)
      PROVE  Fulled(desk, desk', c, want) \/ Prepared(desk, desk', c)
  BY <1>9, FullscreenNotifyDoes
<1> QED
  BY <1>3, <1>4, <1>5, <1>6, <1>7, <1>8, <1>9 DEF Alive

\* What the other keys and the pointer do.
LEMMA RefocusDoes ==
    ASSUME Sound(desk), NEW L \in SUBSET Mon, Refocus(L)
    PROVE  Quiet(desk, desk')
BY FocusColumnDirDoes, FocusMonDoes, FocusStackDoes, PointerToDoes DEF Refocus

\* Every handler but the end of a window has one of the effects.
LEMMA UndisturbedDoes ==
    ASSUME Sound(desk), Undisturbed
    PROVE  Effect(desk, desk') /\ (Unmoved(desk, desk') \/ MoveKey)
<1>1. ASSUME NEW c \in Client, Alive(c) PROVE Unmoved(desk, desk')
  BY <1>1, AliveDoes DEF Unmoved
<1>2. ASSUME Navigate PROVE Unmoved(desk, desk')
  BY <1>2, NavigateDoes DEF Unmoved, Navigated
<1>3. ASSUME Rearrange(Mon) PROVE Effect(desk, desk') /\ (Unmoved(desk, desk') \/ MoveKey)
  <2>1. ASSUME \/ \E n \in 0..MaxJump : MoveClientToWsN(n)
               \/ \E d \in Dir : MoveClientToWsDir(d)
        PROVE  Effect(desk, desk') /\ MoveKey
    BY <2>1, MoveToWsDoes DEF Effect, MoveKey
  <2>2. ASSUME NEW d \in Dir, MoveColumnDir(Mon, d) PROVE Effect(desk, desk') /\ MoveKey
    BY <2>2, MoveColumnDirDoes DEF Effect, Unmoved, MoveKey
  <2>3. ASSUME ToggleFloating PROVE Unmoved(desk, desk')
    BY <2>3, ToggleFloatingDoes DEF Unmoved
  <2>4. ASSUME ToggleFullscreen PROVE Unmoved(desk, desk')
    BY <2>4, ToggleFullscreenDoes DEF Unmoved
  <2> QED
    BY <1>3, <2>1, <2>2, <2>3, <2>4 DEF Rearrange, Effect
<1>4. ASSUME Refocus(Mon) PROVE Unmoved(desk, desk')
  BY <1>4, RefocusDoes DEF Unmoved
<1>5. ASSUME NEW d \in Dir, TagMon(Mon, d) PROVE Unmoved(desk, desk')
  BY <1>5, TagMonDoes DEF Unmoved
<1> QED
  BY <1>1, <1>2, <1>3, <1>4, <1>5 DEF Undisturbed, Effect

\* The keyboard and the windows after a workspace was visited.
LEMMA VisitedWindows ==
    ASSUME NEW s, NEW t, NEW m, NEW w, Visited(s, t, m, w)
    PROVE  SameWindows(s, t) /\ Keys(s, t) /\ t.row = s.row
<1>1. PICK a, b : Got(s, a, m, w) /\ Switched(a, b, m, w) /\ Quiet(b, t)
  BY DEF Visited
<1>2. SameWindows(s, a) /\ a.kb = s.kb /\ a.row = s.row
  BY <1>1 DEF Got, Created, SameWindows, SamePlaces, SameKinds
<1>3. SameWindows(a, b) /\ b.kb = a.kb /\ SameWindows(b, t) /\ Keys(b, t)
      /\ b.row = a.row /\ t.row = b.row
  BY <1>1 DEF Switched, Quiet, Shuffled
<1> QED
  BY <1>2, <1>3 DEF SameWindows, SamePlaces, SameKinds, Keys

\* The keyboard and the windows after a tile was sent to a workspace.
LEMMA SentWindows ==
    ASSUME NEW s, NEW t, NEW c, NEW w, Sent(s, t, c, w)
    PROVE  /\ t.clients = s.clients /\ Keys(s, t) /\ ~ t.full[c] /\ c \in Mapped(s)
           /\ t.col[c] = w /\ t.mon[c] = s.mon[c] /\ t.fs_ws[c] = s.fs_ws[c]
           /\ t.full[c] = s.full[c] /\ t.float[c] = s.float[c]
           /\ \A x \in Client \ {c} : Alike(s, t, x)
<1> DEFINE m == s.mon[c]
<1>1. PICK a, b, v, u, D : /\ Got(s, a, m, w) /\ Carried(a, b, c, w) /\ Sound(b)
                           /\ Switched(b, v, m, w) /\ Compacts(v, u, m, D) /\ Quiet(u, t)
  BY DEF Sent
<1>2. SameWindows(s, a) /\ a.kb = s.kb
  BY <1>1 DEF Got, Created, SameWindows, SamePlaces, SameKinds
<1>3. /\ b.clients = a.clients /\ Keys(a, b) /\ \A x \in Client \ {c} : Alike(a, b, x)
      /\ b.col[c] = w /\ b.mon[c] = a.mon[c] /\ b.fs_ws[c] = a.fs_ws[c]
      /\ b.full[c] = a.full[c] /\ b.float[c] = a.float[c]
  BY <1>1 DEF Carried, Touches
<1>4. SameWindows(b, v) /\ v.kb = b.kb
  BY <1>1 DEF Switched
<1>5. SameWindows(v, u) /\ u.kb = v.kb
  BY <1>1 DEF Compacts
<1>6. SameWindows(u, t) /\ Keys(u, t)
  BY <1>1 DEF Quiet, Shuffled
<1>7. SameWindows(b, t)
  BY <1>4, <1>5, <1>6 DEF SameWindows, SamePlaces, SameKinds
<1>8. Keys(s, t)
  <2>1. t.kb = u.kb \/ Keyed(t)
    BY <1>6 DEF Keys
  <2>2. u.kb = b.kb
    BY <1>4, <1>5
  <2>3. b.kb = s.kb \/ b.kb \in Mapped(b) \cup {NoClient}
    BY <1>2, <1>3 DEF Keys, Keyed
  <2>4. Mapped(b) = Mapped(t)
    BY <1>7 DEF SameWindows, SameKinds, Mapped
  <2> QED
    BY <2>1, <2>2, <2>3, <2>4 DEF Keys, Keyed
<1>9. c \in Mapped(s) /\ ~ s.full[c]
  BY DEF Sent
<1> QED
  BY <1>2, <1>3, <1>7, <1>8, <1>9 DEF SameWindows, SamePlaces, SameKinds, Alike

\* Every effect leaves a sound desk, with the keyboard where it was or on a window.
LEMMA EffectSound ==
    ASSUME NEW s, NEW t, Sound(s), Effect(s, t)
    PROVE  Sound(t) /\ Keys(s, t) /\ Mapped(s) \in SUBSET Mapped(t)
<1>1. ASSUME Shuffled(s, t) PROVE Sound(t) /\ Keys(s, t) /\ t.clients = s.clients
  BY <1>1, SoundShuffled DEF Shuffled, SameWindows, SameKinds
<1>2. ASSUME NEW c \in Client, Prepared(s, t, c) PROVE Sound(t) /\ Keys(s, t) /\ t.clients = s.clients
  BY <1>2, PreparedSound
<1>3. ASSUME NEW c \in Client, Opened(s, t, c)
      PROVE  Sound(t) /\ Keys(s, t) /\ Mapped(t) = Mapped(s) \cup {c}
  BY <1>3, OpenedSound
<1>4. ASSUME NEW c, NEW on, Fulled(s, t, c, on) PROVE Sound(t) /\ Keys(s, t) /\ t.clients = s.clients
  BY <1>4, FulledSound DEF Fulled, Touches
<1>5. ASSUME NEW c, NEW on, Floated(s, t, c, on) PROVE Sound(t) /\ Keys(s, t) /\ t.clients = s.clients
  BY <1>5, FloatedSound DEF Floated, Touches
<1>6. ASSUME NEW c, NEW m, SentTo(s, t, c, m) PROVE Sound(t) /\ Keys(s, t) /\ t.clients = s.clients
  BY <1>6, SentToSound DEF SentTo, Touches
<1>7. ASSUME NEW m, NEW w, Visited(s, t, m, w) PROVE Sound(t) /\ Keys(s, t) /\ t.clients = s.clients
  BY <1>7, OthersSound, VisitedWindows DEF SameWindows, SameKinds
<1>8. ASSUME NEW c, NEW w, Sent(s, t, c, w) PROVE Sound(t) /\ Keys(s, t) /\ t.clients = s.clients
  BY <1>8, OthersSound, SentWindows
<1>9. t.clients = s.clients => Mapped(s) \in SUBSET Mapped(t)
  BY DEF Mapped
<1> QED
  BY <1>1, <1>2, <1>3, <1>4, <1>5, <1>6, <1>7, <1>8, <1>9 DEF Effect, Unmoved, Quiet

\* No fullscreen window is in a row.
Uncol(s) == \A c \in Client : s.full[c] => s.col[c] = NoWs

\* Windows that stay alike stay out of the rows.
LEMMA UncolAlike ==
    ASSUME NEW s, NEW t, NEW c, Uncol(s), t.full[c] => t.col[c] = NoWs,
           \A x \in Client \ {c} : Alike(s, t, x)
    PROVE  Uncol(t)
BY DEF Uncol, Alike

\* No effect leaves a fullscreen window in a row.
LEMMA EffectUncol ==
    ASSUME NEW s, NEW t, Sound(s), Effect(s, t), Uncol(s)
    PROVE  Uncol(t)
<1>1. ASSUME Shuffled(s, t) PROVE Uncol(t)
  BY <1>1 DEF Uncol, Shuffled, SameWindows, SamePlaces, SameKinds
<1>2. ASSUME NEW c \in Client, Prepared(s, t, c) PROVE Uncol(t)
  BY <1>2, UncolAlike DEF Prepared, Touches
<1>3. ASSUME NEW c \in Client, Opened(s, t, c) PROVE Uncol(t)
  <2>1. PICK m, u : OpenedAt(s, t, c, m, u)
    BY <1>3 DEF Opened
  <2>2. Uncol(u)
    BY <2>1, UncolAlike DEF OpenedAt, Arrived
  <2>3. ASSUME NEW x \in Client PROVE t.full[x] => t.col[x] = NoWs
    BY <2>1, <2>2 DEF OpenedAt, Cleared, Lowered, Alike, Uncol
  <2> QED
    BY <2>3 DEF Uncol
<1>4. ASSUME NEW c, NEW on, Fulled(s, t, c, on) PROVE Uncol(t)
  <2>1. c \in Client
    BY <1>4, MappedOf DEF Fulled, Sound
  <2>2. t.full[c] => t.col[c] = NoWs
    BY <1>4, <2>1 DEF Fulled, FullCol, Uncol
  <2> QED
    BY <1>4, <2>2, UncolAlike DEF Fulled, Touches
<1>5. ASSUME NEW c, NEW on, Floated(s, t, c, on), ~ s.full[c] PROVE Uncol(t)
  BY <1>5, UncolAlike DEF Floated, Touches
<1>6. ASSUME NEW c, NEW m, SentTo(s, t, c, m) PROVE Uncol(t)
  BY <1>6, UncolAlike DEF SentTo, Touches, SentCol
<1>7. ASSUME NEW m, NEW w, Visited(s, t, m, w) PROVE Uncol(t)
  BY <1>7, VisitedWindows DEF Uncol, SameWindows, SamePlaces, SameKinds
<1>8. ASSUME NEW c, NEW w, Sent(s, t, c, w) PROVE Uncol(t)
  BY <1>8, SentWindows, UncolAlike
<1> QED
  BY <1>1, <1>2, <1>3, <1>4, <1>5, <1>6, <1>7, <1>8 DEF Effect, Unmoved, Quiet

\* The desk after a window has gone.
LEMMA ClosedDoes ==
    ASSUME NEW s, NEW t, Sound(s), NEW c, Closed(s, t, c)
    PROVE  /\ Sound(t) /\ Keyed(t) /\ Mapped(t) = Mapped(s) \ {c}
           /\ t.mon[c] = NoMon /\ t.col[c] = NoWs /\ t.fs_ws[c] = NoWs
           /\ t.full[c] = s.full[c] /\ t.float[c] = s.float[c]
           /\ \A x \in Client \ {c} : Alike(s, t, x)
           /\ Uncol(s) => Uncol(t)
<1>1. PICK u, v, D : /\ Unlisted(s, u, c) /\ Compacts(u, v, s.mon[c], D)
                     /\ Quiet(v, t) /\ Keyed(t)
  BY DEF Closed
<1>2. SameWindows(u, v) /\ SameWindows(v, t)
  BY <1>1 DEF Compacts, Quiet, Shuffled
<1>3. SameWindows(u, t)
  BY <1>2 DEF SameWindows, SamePlaces, SameKinds
<1>4. Mapped(t) = Mapped(s) \ {c} /\ Keyed(t)
  BY <1>1, <1>3 DEF Unlisted, SameWindows, SameKinds, Mapped
<1>5. /\ t.mon[c] = NoMon /\ t.col[c] = NoWs /\ t.fs_ws[c] = NoWs
      /\ t.full[c] = s.full[c] /\ t.float[c] = s.float[c]
      /\ \A x \in Client \ {c} : Alike(s, t, x)
  BY <1>1, <1>3 DEF Unlisted, SameWindows, SamePlaces, SameKinds, Alike
<1>6. Sound(t)
  BY OthersSound
<1> QED
  BY <1>4, <1>5, <1>6, UncolAlike

\* Closing a window leaves the others in their order.
LEMMA ClosedOrdered ==
    ASSUME NEW s, NEW t, Sound(s), NEW c, Closed(s, t, c)
    PROVE  Ordered(s, t, Client \ {c})
<1>1. PICK u, v, D : /\ Unlisted(s, u, c) /\ Compacts(u, v, s.mon[c], D)
                     /\ Quiet(v, t) /\ Keyed(t)
  BY DEF Closed
<1>2. SameWindows(u, v) /\ SameWindows(v, t)
  BY <1>1 DEF Compacts, Quiet, Shuffled
<1>3. SameWindows(u, t)
  BY <1>2 DEF SameWindows, SamePlaces, SameKinds
<1>4. t.row = u.row /\ t.col = u.col
  BY <1>1, <1>3 DEF Compacts, Quiet, SameWindows, SamePlaces
<1>5. Ordered(u, t, Client \ {c})
  BY <1>4, SameRowsOrdered
<1> QED
  BY <1>1, <1>4, <1>5, OrderedTwice DEF Unlisted

\* The invariant of Spec: a sound desk, the keyboard with a mapped window or none, no
\* fullscreen window in a row.
DeskInv(s) == Sound(s) /\ Keyed(s) /\ Uncol(s)

\* The keyboard stays with a mapped window as long as windows only come.
LEMMA KeyedKept ==
    ASSUME NEW s, NEW t, Keyed(s), Keys(s, t), Mapped(s) \in SUBSET Mapped(t)
    PROVE  Keyed(t)
BY DEF Keyed, Keys

\* The desk at the start: every monitor shows its only workspace.
InitialDesk(first) ==
    /\ first \in [Mon -> Ws] /\ \A m, n \in Mon : first[m] = first[n] => m = n
    /\ desk.owner \in [Ws -> Mon \cup {NoMon}]
    /\ \A m \in Mon, w \in Ws : desk.owner[w] = m <=> first[m] = w
    /\ desk.idx = [w \in Ws |-> 0] /\ desk.next = [m \in Mon |-> 1]
    /\ desk.active = first /\ desk.prev = [m \in Mon |-> NoWs]
    /\ desk.lit = [m \in Mon |-> TRUE]
    /\ desk.row = [w \in Ws |-> <<>>] /\ desk.focused = [w \in Ws |-> NoClient]
    /\ desk.col = [c \in Client |-> NoWs] /\ desk.fs_ws = [c \in Client |-> NoWs]
    /\ desk.mon = [c \in Client |-> NoMon] /\ desk.full = [c \in Client |-> FALSE]
    /\ desk.float = [c \in Client |-> FALSE] /\ desk.clients = <<>>
    /\ desk.fstack = <<>> /\ desk.kb = NoClient /\ desk.selmon = 1

\* monitor_init_workspaces on every monitor
LEMMA InitDoes ==
    ASSUME Init
    PROVE  Shaped(desk) /\ \E first : InitialDesk(first)
<1>1. PICK first \in {f \in [Mon -> Ws] : \A m, n \in Mon : f[m] = f[n] => m = n} :
        desk = [owner |-> [w \in Ws |-> IF \E m \in Mon : first[m] = w
                                        THEN CHOOSE m \in Mon : first[m] = w
                                        ELSE NoMon],
                idx |-> [w \in Ws |-> 0], next |-> [m \in Mon |-> 1],
                active |-> first, prev |-> [m \in Mon |-> NoWs],
                lit |-> [m \in Mon |-> TRUE],
                row |-> [w \in Ws |-> <<>>], focused |-> [w \in Ws |-> NoClient],
                col |-> [c \in Client |-> NoWs], fs_ws |-> [c \in Client |-> NoWs],
                mon |-> [c \in Client |-> NoMon],
                full |-> [c \in Client |-> FALSE], float |-> [c \in Client |-> FALSE],
                clients |-> <<>>, fstack |-> <<>>, kb |-> NoClient, selmon |-> 1]
  BY DEF Init
<1>2. first \in [Mon -> Ws] /\ \A m, n \in Mon : first[m] = first[n] => m = n
  OBVIOUS
<1>3. /\ desk.owner = [w \in Ws |-> IF \E m \in Mon : first[m] = w
                                    THEN CHOOSE m \in Mon : first[m] = w ELSE NoMon]
      /\ desk.idx = [w \in Ws |-> 0] /\ desk.next = [m \in Mon |-> 1]
      /\ desk.active = first /\ desk.prev = [m \in Mon |-> NoWs]
      /\ desk.lit = [m \in Mon |-> TRUE]
      /\ desk.row = [w \in Ws |-> <<>>] /\ desk.focused = [w \in Ws |-> NoClient]
      /\ desk.col = [c \in Client |-> NoWs] /\ desk.fs_ws = [c \in Client |-> NoWs]
      /\ desk.mon = [c \in Client |-> NoMon] /\ desk.full = [c \in Client |-> FALSE]
      /\ desk.float = [c \in Client |-> FALSE] /\ desk.clients = <<>>
      /\ desk.fstack = <<>> /\ desk.kb = NoClient /\ desk.selmon = 1
  BY <1>1
<1>4. Shaped(desk)
  BY <1>1 DEF Shaped, Fields
<1> HIDE <1>1
<1>5. ASSUME NEW m \in Mon, NEW w \in Ws PROVE desk.owner[w] = m <=> first[m] = w
  <2>1. m # NoMon
    BY DEF Mon, NoMon
  <2>2. CASE \E n \in Mon : first[n] = w
    <3>1. PICK n \in Mon : n = desk.owner[w] /\ first[n] = w
      BY <1>3, <2>2
    <3> QED
      BY <1>2, <3>1
  <2>3. CASE ~ \E n \in Mon : first[n] = w
    BY <1>3, <2>1, <2>3
  <2> QED
    BY <2>2, <2>3
<1>6. desk.owner \in [Ws -> Mon \cup {NoMon}]
  <2>1. ASSUME NEW w \in Ws PROVE desk.owner[w] \in Mon \cup {NoMon}
    BY <1>3
  <2> QED
    BY <1>3, <2>1
<1> QED
  BY <1>2, <1>3, <1>4, <1>5, <1>6 DEF InitialDesk

\* The first workspaces of the monitors and no windows.
LEMMA InitInv ==
    ASSUME Init
    PROVE  DeskInv(desk)
<1>1. PICK first : InitialDesk(first)
  BY InitDoes
<1>2. first \in [Mon -> Ws] /\ \A m, n \in Mon : first[m] = first[n] => m = n
  BY <1>1 DEF InitialDesk
<1>3. /\ desk.idx = [w \in Ws |-> 0] /\ desk.next = [m \in Mon |-> 1]
      /\ desk.active = first /\ desk.prev = [m \in Mon |-> NoWs]
      /\ desk.lit = [m \in Mon |-> TRUE]
      /\ desk.row = [w \in Ws |-> <<>>] /\ desk.focused = [w \in Ws |-> NoClient]
      /\ desk.col = [c \in Client |-> NoWs] /\ desk.fs_ws = [c \in Client |-> NoWs]
      /\ desk.mon = [c \in Client |-> NoMon] /\ desk.full = [c \in Client |-> FALSE]
      /\ desk.float = [c \in Client |-> FALSE] /\ desk.clients = <<>>
      /\ desk.fstack = <<>> /\ desk.kb = NoClient /\ desk.selmon = 1
  BY <1>1 DEF InitialDesk
<1>4. Shaped(desk)
  BY InitDoes
<1>5. ASSUME NEW m \in Mon PROVE Own(desk, m) = {first[m]}
  <2>1. \A w \in Ws : desk.owner[w] = m <=> first[m] = w
    BY <1>1 DEF InitialDesk
  <2> QED
    BY <1>2, <2>1 DEF Own
<1>6. desk.owner \in [Ws -> Mon \cup {NoMon}]
  BY <1>1 DEF InitialDesk
<1>7. 1 \in Mon
  BY CountAssumption DEF Mon
<1>8. desk \in Desk
  <2>1. <<>> \in Seq(Client)
    OBVIOUS
  <2>2. /\ desk.idx \in [Ws -> Int] /\ desk.next \in [Mon -> Int]
        /\ desk.active \in [Mon -> Ws \cup {NoWs}] /\ desk.prev \in [Mon -> Ws \cup {NoWs}]
        /\ desk.lit \in [Mon -> BOOLEAN]
    BY <1>2, <1>3
  <2>3. /\ desk.row \in [Ws -> Seq(Client)] /\ desk.focused \in [Ws -> Client \cup {NoClient}]
        /\ desk.col \in [Client -> Ws \cup {NoWs}] /\ desk.fs_ws \in [Client -> Ws \cup {NoWs}]
    BY <1>3, <2>1
  <2>4. /\ desk.mon \in [Client -> Mon \cup {NoMon}] /\ desk.full \in [Client -> BOOLEAN]
        /\ desk.float \in [Client -> BOOLEAN] /\ desk.clients \in Seq(Client)
        /\ desk.fstack \in Seq(Client) /\ desk.kb \in Client \cup {NoClient}
        /\ desk.selmon \in Mon \cup {NoMon}
    BY <1>3, <1>7, <2>1
  <2> QED
    BY <1>4, <1>6, <2>2, <2>3, <2>4, ShapedDesk
<1>9. Mapped(desk) = {}
  BY <1>3, EmptyLists DEF Mapped, Lists
<1>10. Orders(desk)
  BY <1>3, <1>9, EmptyLists DEF Orders
<1>11. Rows(desk)
  <2>1. ASSUME NEW w \in Ws PROVE RowOK(desk, w)
    <3>1. InRow(desk, w) = {} /\ desk.row[w] = <<>> /\ desk.focused[w] = NoClient
      BY <1>3, NullAssumption DEF InRow
    <3> QED
      BY <3>1, EmptyLists DEF RowOK
  <2> QED
    BY <2>1 DEF Rows
<1>12. Shows(desk)
  BY <1>3, <1>5, <1>7 DEF Shows
<1>13. Live(desk)
  <2>1. ASSUME NEW c \in Client PROVE LiveAt(desk, c)
    BY <1>3, <1>9 DEF LiveAt
  <2> QED
    BY <2>1 DEF Live
<1>14. Counted(desk)
  <2>1. ASSUME NEW m \in Mon PROVE InOrder(desk, m)
    <3>1. first[m] \in Ws /\ Own(desk, m) = {first[m]} /\ desk.next[m] = 1
      BY <1>2, <1>3, <1>5
    <3>2. Cardinality(Own(desk, m)) = desk.next[m]
      BY <3>1, FS_Singleton
    <3>3. {desk.idx[w] : w \in Own(desk, m)} = {0}
      BY <1>3, <3>1
    <3>4. 0..(desk.next[m] - 1) = {0}
      BY <3>1
    <3> QED
      BY <3>2, <3>3, <3>4 DEF InOrder
  <2> QED
    BY <2>1 DEF Counted
<1>15. Keyed(desk) /\ Uncol(desk)
  BY <1>3 DEF Keyed, Uncol
<1> QED
  BY <1>8, <1>10, <1>11, <1>12, <1>13, <1>14, <1>15 DEF DeskInv, Sound, Base

\* Every handler keeps the invariant.
LEMMA NextInv ==
    ASSUME DeskInv(desk), [Next]_vars
    PROVE  DeskInv(desk')
<1>1. CASE UNCHANGED vars
  BY <1>1 DEF vars
<1>2. CASE Undisturbed
  <2>1. Effect(desk, desk')
    BY <1>2, UndisturbedDoes DEF DeskInv
  <2> QED
    BY <2>1, EffectSound, EffectUncol, KeyedKept DEF DeskInv
<1>3. ASSUME NEW c \in Client, Unmap(c) PROVE DeskInv(desk')
  <2>1. Closed(desk, desk', c)
    BY <1>3, UnmapDoes DEF DeskInv
  <2> QED
    BY <2>1, ClosedDoes DEF DeskInv
<1> QED
  BY <1>1, <1>2, <1>3 DEF Next

\* A sound desk is what the invariants of the runs ask for.
LEMMA SoundMeans ==
    ASSUME Sound(desk)
    PROVE  NoDangling /\ RowsAgree /\ NumberedInOrder
<1>1. Base(desk) /\ Shows(desk) /\ Live(desk) /\ Counted(desk)
  BY DEF Sound
<1>2. NoDangling
  <2>1. ASSUME NEW m \in Mon
        PROVE  desk.active[m] \in Own(desk, m) /\ desk.prev[m] \in Own(desk, m) \cup {NoWs}
    BY <1>1 DEF Base, Shows
  <2>2. ASSUME NEW c \in Client
        PROVE  /\ desk.col[c] # NoWs => desk.col[c] \in Own(desk, desk.mon[c])
               /\ c \in Mapped(desk) /\ desk.fs_ws[c] # NoWs =>
                    desk.fs_ws[c] \in Own(desk, desk.mon[c])
    <3>1. LiveAt(desk, c)
      BY <1>1 DEF Live
    <3>2. desk.col[c] \in Ws \cup {NoWs} /\ desk.fs_ws[c] \in Ws \cup {NoWs}
          /\ desk.full[c] \in BOOLEAN
      BY <1>1, DeskTyped DEF Base
    <3> QED
      BY <3>1, <3>2 DEF LiveAt, Own
  <2> QED
    BY <2>1, <2>2 DEF NoDangling
<1>3. RowsAgree
  <2>1. ASSUME NEW w \in Ws
        PROVE  /\ ToSet(desk.row[w]) = {c \in Client : desk.col[c] = w}
               /\ IsInjective(desk.row[w])
               /\ desk.focused[w] \in (IF desk.row[w] = <<>> THEN {NoClient}
                                       ELSE ToSet(desk.row[w]))
    <3>1. RowOK(desk, w)
      BY <1>1 DEF Base, Rows
    <3>2. desk.row[w] = <<>> <=> InRow(desk, w) = {}
      BY <3>1, EmptyLists DEF RowOK
    <3>3. ToSet(desk.row[w]) = InRow(desk, w) /\ IsInjective(desk.row[w])
      BY <3>1 DEF RowOK, Lists
    <3> QED
      BY <3>1, <3>2, <3>3 DEF RowOK, InRow
  <2> QED
    BY <2>1 DEF RowsAgree
<1>4. NumberedInOrder
  BY <1>1 DEF Counted, InOrder, NumberedInOrder
<1> QED
  BY <1>2, <1>3, <1>4

\* With no fullscreen window in a row, every window is in its one place.
LEMMA InvPlaces ==
    ASSUME DeskInv(desk)
    PROVE  EveryWindowPlaced
<1>1. ASSUME NEW c \in Mapped(desk)
      PROVE  /\ desk.mon[c] # NoMon
             /\ desk.full[c] => desk.col[c] = NoWs /\ desk.fs_ws[c] # NoWs
             /\ ~ desk.full[c] => desk.fs_ws[c] = NoWs
             /\ ~ desk.full[c] /\ ~ desk.float[c] => desk.col[c] # NoWs
  <2>1. c \in Client
    BY MappedOf DEF DeskInv, Sound
  <2>2. LiveAt(desk, c) /\ (desk.full[c] => desk.col[c] = NoWs)
    BY <2>1 DEF DeskInv, Sound, Live, Uncol
  <2> QED
    BY <2>2 DEF LiveAt
<1> QED
  BY <1>1 DEF EveryWindowPlaced

\* The invariant holds whatever the windows, the workspaces, the monitors, the apps and
\* the parents are.
LEMMA DeskSafe == Spec => []DeskInv(desk)
<1>1. Init => DeskInv(desk)
  BY InitInv
<1>2. DeskInv(desk) /\ [Next]_vars => DeskInv(desk)'
  BY NextInv
<1> QED
  BY <1>1, <1>2, PTL DEF Spec

\* The structures the handlers share are well typed after every one of them, and the
\* keyboard is with a mapped window or with none.
THEOREM DeskWellTyped == Spec => [](desk \in Desk /\ desk.kb \in Mapped(desk) \cup {NoClient})
<1>1. DeskInv(desk) => desk \in Desk /\ desk.kb \in Mapped(desk) \cup {NoClient}
  BY DEF DeskInv, Sound, Base, Keyed
<1> QED
  BY <1>1, DeskSafe, PTL

\* No pointer to a workspace - shown, shown before, of a column, of a fullscreen window -
\* outlives the workspace, and all point to one of the right monitor (workspace_destroy,
\* monitor_compact_workspaces).
THEOREM PointersToLive == Spec => []NoDangling
<1>1. DeskInv(desk) => NoDangling
  BY SoundMeans DEF DeskInv
<1> QED
  BY <1>1, DeskSafe, PTL

\* A row lists the windows that point to it, once each, and its focused column is one of
\* them (workspace_attach_client, workspace_detach_client).
THEOREM RowsConsistent == Spec => []RowsAgree
<1>1. DeskInv(desk) => RowsAgree
  BY SoundMeans DEF DeskInv
<1> QED
  BY <1>1, DeskSafe, PTL

\* Every mapped window can be reached: in a column, floating, or fullscreen on a
\* workspace of its monitor (setmon, setfullscreen, setfloating).
THEOREM WindowsReachable == Spec => []EveryWindowPlaced
<1>1. DeskInv(desk) => EveryWindowPlaced
  BY InvPlaces
<1> QED
  BY <1>1, DeskSafe, PTL

\* The workspaces of a monitor are numbered from 0 without holes, whichever of them
\* compaction frees (workspace_create, monitor_compact_workspaces).
THEOREM NumbersContiguous == Spec => []NumberedInOrder
<1>1. DeskInv(desk) => NumberedInOrder
  BY SoundMeans DEF DeskInv
<1> QED
  BY <1>1, DeskSafe, PTL

\* A window that is floated after a change of focus.
LEMMA QuietFloated ==
    ASSUME NEW s, NEW u, NEW t, NEW c \in Client, NEW on, Quiet(s, u), Floated(u, t, c, on)
    PROVE  Floated(s, t, c, on)
<1>1. Touches(s, u, c) /\ Alike(s, u, c)
  BY QuietTouches
<1>2. Touches(s, t, c)
  BY <1>1, TouchesTwice DEF Floated
<1>3. Mapped(u) = Mapped(s) /\ FloatCol(u, c, on) = FloatCol(s, c, on)
  BY <1>1 DEF Touches, Alike, SameLists, Mapped, FloatCol
<1>4. t.col[c] = s.col[c] => t.row = s.row
  BY <1>1 DEF Quiet, Floated, Alike
<1> QED
  BY <1>1, <1>2, <1>3, <1>4 DEF Floated, Alike

\* moveresize
LEMMA PressDoes ==
    ASSUME Sound(desk), NEW c \in Client, NEW mode, Press(c, mode)
    PROVE  /\ Unmoved(desk, desk')
           /\ c \in Mapped(desk) /\ grab'.win = c
<1> DEFINE a == [desk EXCEPT !.selmon = desk.mon[c]]
           s == Focus(a, c)
<1>1. Shown(desk, c) /\ ~ desk.full[c] /\ desk.mon[c] # NoMon /\ c \in Mapped(desk)
  BY DEF Press, Shown
<1>2. desk' = (IF ~ s.float[c] /\ mode = "resize" THEN s ELSE SetFloating(s, c, TRUE))
      /\ grab'.win = c
  BY DEF Press
<1>3. desk.mon[c] \in Mon
  BY <1>1, MonOf DEF Sound
<1>4. Quiet(desk, a)
  BY <1>3, SelectQuiet DEF Sound
<1> HIDE DEF a
<1>5. Base(a) /\ c \in Mapped(a)
  BY <1>1, <1>4 DEF Quiet, Shuffled, SameWindows, SameKinds, Mapped
<1>6. Quiet(a, s)
  BY <1>5, FocusQuiet
<1>7. Quiet(desk, s)
  BY <1>4, <1>6, QuietTwice
<1> HIDE DEF s
<1>8. Sound(s) /\ c \in Mapped(s)
  BY <1>1, <1>7, SoundQuiet DEF Quiet, Shuffled, SameWindows, SameKinds, Mapped
<1> DEFINE yes == TRUE
<1>9. yes \in BOOLEAN
  OBVIOUS
<1> HIDE DEF yes
<1>10. Floated(s, SetFloating(s, c, yes), c, yes)
  BY <1>8, <1>9, SetFloatingOf
<1>11. Floated(desk, SetFloating(s, c, yes), c, yes)
  BY <1>7, <1>10, QuietFloated
<1>12. desk' = s \/ desk' = SetFloating(s, c, yes)
  BY <1>2 DEF yes
<1> QED
  BY <1>1, <1>2, <1>7, <1>11, <1>12 DEF Unmoved

\* A window dropped over monitor m: a tile of the row it shows, or what it was fullscreen
\* or floating in between.
Dropped(s, t, c, m) ==
    /\ c \in Mapped(s) /\ m \in Mon /\ Touches(s, t, c)
    /\ t.mon[c] = m /\ t.col[c] = s.active[m] /\ ~ t.float[c] /\ t.full[c] = s.full[c]
    /\ t.fs_ws[c] = IF s.mon[c] = m THEN s.fs_ws[c] ELSE SentWs(s, c, m)

\* A window that is dropped has a place.
LEMMA DroppedSound ==
    ASSUME NEW s, Sound(s), NEW t, NEW c, NEW m, Dropped(s, t, c, m)
    PROVE  Sound(t) /\ Keys(s, t) /\ Mapped(t) = Mapped(s)
<1>1. c \in Client
  BY MappedOf DEF Dropped, Sound
<1>2. LiveAt(s, c) /\ s.active[m] # NoWs /\ s.owner[s.active[m]] = m /\ m # NoMon
  BY <1>1, ActiveOf DEF Sound, Live, Dropped, Mon, NoMon
<1>3. t.owner = s.owner /\ t.clients = s.clients /\ Keys(s, t)
  BY DEF Dropped, Touches, SameLists
<1>4. LiveAt(t, c)
  BY <1>2, <1>3 DEF Dropped, LiveAt, SentWs, Mapped
<1>5. Sound(t)
  BY <1>4, SoundTouched DEF Dropped
<1> QED
  BY <1>3, <1>5 DEF Mapped

\* The length of the row that a window leaves does not depend on whether it floats.
LEMMA DetachRow ==
    ASSUME NEW s, Base(s), NEW c \in Client, NEW on \in BOOLEAN, NEW w \in Ws
    PROVE  Detach([s EXCEPT !.float[c] = on], c).row[w] = Detach(s, c).row[w]
<1> DEFINE t == [s EXCEPT !.float[c] = on]
<1>1. Shaped(s)
  BY DeskShaped DEF Base
<1>2. /\ t.row = s.row /\ t.col = s.col /\ "row" \in DOMAIN t /\ "row" \in DOMAIN s
  BY <1>1 DEF Shaped, Fields
<1>3. Shaped(t)
  BY <1>1 DEF Shaped, Fields
<1> HIDE DEF t
<1>4. ASSUME NEW u, Shaped(u)
      PROVE  Detach(u, c).row = IF u.col[c] = NoWs THEN u.row
                                ELSE [u.row EXCEPT ![u.col[c]] = RemoveAt(u.row[u.col[c]], Pos(u.row[u.col[c]], c))]
  BY <1>4 DEF Detach, Shaped, Fields
<1>5. Detach(t, c).row = Detach(s, c).row
  <2>1. Detach(t, c).row = IF t.col[c] = NoWs THEN t.row
                           ELSE [t.row EXCEPT ![t.col[c]] = RemoveAt(t.row[t.col[c]], Pos(t.row[t.col[c]], c))]
    BY <1>3, <1>4
  <2>2. Detach(s, c).row = IF s.col[c] = NoWs THEN s.row
                           ELSE [s.row EXCEPT ![s.col[c]] = RemoveAt(s.row[s.col[c]], Pos(s.row[s.col[c]], c))]
    BY <1>1, <1>4
  <2> QED
    BY <1>2, <2>1, <2>2
<1> QED
  BY <1>5 DEF t

\* buttonpress, released: workspace_drop_tile puts the window at a place of the row shown.
LEMMA ReleaseDoes ==
    ASSUME Sound(desk), NEW m \in Mon, NEW i, Release(m, i), grab.win \in Mapped(desk)
    PROVE  Unmoved(desk, desk') \/ Dropped(desk, desk', grab.win, m)
<1> DEFINE c == grab.win
           a == [desk EXCEPT !.selmon = m]
           s == SetMon(a, c, m)
           w == desk.active[m]
           drops == grab.mode = "move" /\ grab.tiled /\ w # NoWs
           f == [s EXCEPT !.float[c] = FALSE]
           d == Detach(f, c)
           t == Insert(d, w, i, c)
           places == Len(Detach(s, c).row[w]) + 1
<1>1. /\ i \in 1..(IF drops THEN places ELSE 1)
      /\ desk' = IF drops THEN Arrange(t, m) ELSE s
  BY DEF Release, DropTile
<1>2. c \in Client /\ w \in Ws /\ w # NoWs /\ c \in Mapped(desk)
  BY MappedOf, ActiveOf DEF Sound
<1>3. Quiet(desk, a)
  BY SelectQuiet DEF Sound
<1> HIDE DEF c, a
<1>4. Sound(a) /\ c \in Mapped(a) /\ Touches(desk, a, c) /\ Alike(desk, a, c)
  BY <1>2, <1>3, SoundQuiet, QuietTouches DEF Quiet, Shuffled, SameWindows, SameKinds, Mapped
<1>5. a.mon[c] # m => SentTo(a, s, c, m)
  BY <1>4, SetMonOf
<1>6. /\ Touches(desk, s, c) /\ s.mon[c] = m /\ s.full[c] = desk.full[c]
      /\ s.fs_ws[c] = IF desk.mon[c] = m THEN desk.fs_ws[c] ELSE SentWs(desk, c, m)
      /\ Unmoved(desk, s)
  <2>1. CASE a.mon[c] = m
    <3>1. s = a
      BY <2>1 DEF SetMon
    <3> QED
      BY <1>3, <1>4, <2>1, <3>1 DEF Alike, Unmoved
  <2>2. CASE a.mon[c] # m
    <3> HIDE DEF s
    <3>1. SentTo(a, s, c, m)
      BY <1>5, <2>2
    <3>2. Touches(desk, s, c)
      BY <1>4, <3>1, TouchesTwice DEF SentTo
    <3>3. SentTo(desk, s, c, m)
      BY <1>2, <1>4, <3>1, <3>2
         DEF SentTo, SentCol, SentWs, Alike, Touches, SameLists
    <3> QED
      BY <3>2, <3>3 DEF SentTo, Unmoved
  <2> QED
    BY <2>1, <2>2
<1> HIDE DEF s
<1>7. CASE ~ drops
  BY <1>1, <1>6, <1>7
<1>8. CASE drops
  <2> DEFINE no == FALSE
             g == [s EXCEPT !.float[c] = no]
  <2>1. no \in BOOLEAN /\ g = f /\ ~ no
    OBVIOUS
  <2>2. desk' = Arrange(t, m) /\ i \in 1..(Len(Detach(s, c).row[w]) + 1)
    BY <1>1, <1>8
  <2> HIDE DEF no
  <2>3. Base(s)
    BY <1>6 DEF Touches
  <2>4. /\ Touches(s, g, c) /\ g.float[c] = no /\ g.mon[c] = s.mon[c]
        /\ g.fs_ws[c] = s.fs_ws[c] /\ g.full[c] = s.full[c]
    BY <1>2, <2>1, <2>3, FloatFlag
  <2>5. Detach(g, c).row[w] = Detach(s, c).row[w]
    BY <1>2, <2>1, <2>3, DetachRow
  <2>6. g = f
    BY <2>1
  <2> HIDE DEF g, f
  <2>7. Base(f)
    BY <2>4, <2>6 DEF Touches
  <2>8. Moves(f, d, c, NoWs)
    BY <1>2, <2>7, DetachMoves
  <2>9. i \in 1..(Len(d.row[w]) + 1)
    BY <2>2, <2>5, <2>6
  <2> HIDE DEF d
  <2>10. /\ Touches(f, d, c) /\ d.col[c] = NoWs /\ d.mon[c] = f.mon[c]
         /\ d.fs_ws[c] = f.fs_ws[c] /\ d.full[c] = f.full[c] /\ d.float[c] = f.float[c]
    BY <1>2, <2>7, <2>8, MovesTouches
  <2>11. Base(d)
    BY <2>10 DEF Touches
  <2>12. Moves(d, t, c, w)
    BY <1>2, <2>9, <2>10, <2>11, InsertMoves
  <2> HIDE DEF t
  <2>13. /\ Touches(d, t, c) /\ t.col[c] = w /\ t.mon[c] = d.mon[c]
         /\ t.fs_ws[c] = d.fs_ws[c] /\ t.full[c] = d.full[c] /\ t.float[c] = d.float[c]
    BY <1>2, <2>11, <2>12, MovesTouches
  <2>14. Base(t)
    BY <2>13 DEF Touches
  <2>15. Quiet(t, desk')
    BY <2>2, <2>14, ArrangeQuiet
  <2>16. Touches(t, desk', c) /\ Alike(t, desk', c)
    BY <2>15, QuietTouches
  <2>17. Touches(desk, desk', c)
    <3>1. Touches(desk, f, c)
      BY <1>6, <2>4, <2>6, TouchesTwice
    <3>2. Touches(desk, t, c)
      BY <3>1, <2>10, <2>13, TouchesTwice
    <3> QED
      BY <3>2, <2>16, TouchesTwice
  <2>18. Dropped(desk, desk', c, m)
    BY <1>2, <1>6, <2>1, <2>4, <2>6, <2>10, <2>13, <2>16, <2>17 DEF Dropped, Alike
  <2> QED
    BY <2>18 DEF c
<1> QED
  BY <1>7, <1>8

\* The invariant of DragSpec.  A tile may be made fullscreen while it is dragged, and is
\* then dropped into a row: Uncol does not hold here.
DragInv(s, g) == /\ Sound(s) /\ Keyed(s)
                 /\ g.win \in Mapped(s) \cup {NoClient}
                 /\ g.mode # "none" => g.win # NoClient

\* Every handler keeps it, with a window held or not.
LEMMA DragNextInv ==
    ASSUME DragInv(desk, grab), [DragNext]_dragvars
    PROVE  DragInv(desk', grab')
<1>1. Sound(desk) /\ Keyed(desk)
  BY DEF DragInv
<1>2. NoGrab.mode = "none" /\ NoGrab.win = NoClient
  BY DEF NoGrab
<1>3. CASE UNCHANGED dragvars
  BY <1>3 DEF dragvars
<1>4. ASSUME NEW c \in Client, Close(c) PROVE DragInv(desk', grab')
  <2>1. Closed(desk, desk', c)
    BY <1>1, <1>4, UnmapDoes DEF Close
  <2>2. Sound(desk') /\ Keyed(desk') /\ Mapped(desk') = Mapped(desk) \ {c}
    BY <1>1, <2>1, ClosedDoes
  <2>3. grab' = IF grab.win = c THEN NoGrab ELSE grab
    BY <1>4 DEF Close, Ungrab
  <2> QED
    BY <1>2, <2>2, <2>3 DEF DragInv
<1>5. ASSUME Effect(desk, desk') PROVE Sound(desk') /\ Keyed(desk') /\ Mapped(desk) \in SUBSET Mapped(desk')
  BY <1>1, <1>5, EffectSound, KeyedKept
<1>6. CASE Undisturbed /\ UNCHANGED grab
  BY <1>1, <1>5, <1>6, UndisturbedDoes DEF DragInv
<1>7. ASSUME NEW c \in Client, NEW mode \in {"move", "resize"}, Press(c, mode)
      PROVE  DragInv(desk', grab')
  <2>1. Effect(desk, desk') /\ c \in Mapped(desk) /\ grab'.win = c
    BY <1>1, <1>7, PressDoes DEF Effect
  <2> QED
    BY <1>5, <2>1, NullAssumption DEF DragInv
<1>8. ASSUME NEW m \in Mon, NEW c \in Client \cup {NoClient}, PressOther(m, c)
      PROVE  DragInv(desk', grab')
  <2>1. Quiet(desk, desk') /\ grab' = NoGrab
    BY <1>1, <1>8, PointerToDoes DEF PressOther
  <2>2. Effect(desk, desk')
    BY <2>1 DEF Effect, Unmoved
  <2> QED
    BY <1>2, <1>5, <2>1, <2>2 DEF DragInv
<1>9. ASSUME NEW m \in Mon, NEW i \in 1..(Cardinality(Client) + 1), Release(m, i)
      PROVE  DragInv(desk', grab')
  <2>1. grab' = NoGrab /\ grab.win \in Mapped(desk)
    BY <1>9 DEF Release, DragInv
  <2>2. Effect(desk, desk') \/ \E c : Dropped(desk, desk', c, m)
    BY <1>1, <1>9, <2>1, ReleaseDoes DEF Effect
  <2>3. ASSUME NEW c, Dropped(desk, desk', c, m)
        PROVE  Sound(desk') /\ Keyed(desk') /\ Mapped(desk') = Mapped(desk)
    BY <1>1, <2>3, DroppedSound, KeyedKept
  <2> QED
    BY <1>2, <1>5, <2>1, <2>2, <2>3 DEF DragInv
<1>10. CASE ReleaseLocked
  BY <1>2, <1>10 DEF ReleaseLocked, DragInv
<1> QED
  BY <1>3, <1>4, <1>6, <1>7, <1>8, <1>9, <1>10 DEF DragNext, Pointer

\* The pointer and the windows from the start on.
LEMMA DragSafe == DragSpec => []DragInv(desk, grab)
<1>1. DragInit => DragInv(desk, grab)
  BY InitInv DEF DragInit, DragInv, DeskInv, NoGrab
<1>2. DragInv(desk, grab) /\ [DragNext]_dragvars => DragInv(desk, grab)'
  BY DragNextInv
<1> QED
  BY <1>1, <1>2, PTL DEF DragSpec

\* The pointer never holds a window that is gone, however it was closed, made fullscreen,
\* sent away or tiled in between (grabc, which a release puts into a row).
THEOREM HeldIsMapped == DragSpec => []GrabMapped
<1>1. DragInv(desk, grab) => GrabMapped
  BY DEF DragInv, GrabMapped
<1> QED
  BY <1>1, DragSafe, PTL

\* Drags and drops leave the rows and the numbering as consistent as the keys do.
THEOREM DragConsistent == DragSpec => [](NoDangling /\ RowsAgree /\ NumberedInOrder)
<1>1. DragInv(desk, grab) => NoDangling /\ RowsAgree /\ NumberedInOrder
  BY SoundMeans DEF DragInv
<1> QED
  BY <1>1, DragSafe, PTL

-----------------------------------------------------------------------------
(* What a step may never do. *)

\* After a workspace key the keyboard is with a window of the workspace shown, or with
\* none.
LEMMA KeySeen ==
    ASSUME DeskInv(desk), Navigate, desk'.kb # NoClient
    PROVE  Home(desk', desk'.kb) \in {NoWs, desk'.active[desk'.mon[desk'.kb]]}
<1> DEFINE c == desk'.kb
<1>1. Navigated(desk, desk')
  BY NavigateDoes DEF DeskInv
<1>2. PICK m \in Mon : KeyHere(desk', m)
  BY <1>1 DEF Navigated
<1>3. Effect(desk, desk')
  BY <1>1 DEF Navigated, Effect, Unmoved
<1>4. Sound(desk') /\ Uncol(desk')
  BY <1>3, EffectSound, EffectUncol DEF DeskInv
<1>5. /\ c \in Mapped(desk') /\ desk'.mon[c] = m
      /\ \/ desk'.col[c] = desk'.active[m]
         \/ desk'.full[c] /\ desk'.fs_ws[c] = desk'.active[m]
  BY <1>2 DEF KeyHere
<1>6. c \in Client
  BY <1>4, <1>5, MappedOf DEF Sound
<1>7. desk'.full[c] => desk'.col[c] = NoWs
  BY <1>4, <1>6 DEF Uncol
<1>8. desk'.active[m] # NoWs
  BY <1>4, ActiveOf DEF Sound
<1> QED
  BY <1>5, <1>7, <1>8 DEF Home

\* A workspace key never leaves the keyboard with a window of a workspace that is not
\* shown (focus_workspace_dir, focus_workspace_n, focus_last_workspace).
THEOREM KeysFocusVisible == Spec => NavigationFocusesVisible
<1>1. DeskInv(desk) /\ [Next]_vars =>
        [Navigate /\ desk'.kb # NoClient =>
           Home(desk', desk'.kb) \in {NoWs, desk'.active[desk'.mon[desk'.kb]]}]_vars
  BY KeySeen
<1> QED
  BY <1>1, DeskSafe, PTL DEF Spec, NavigationFocusesVisible

\* Only these handlers change what monitors show, but for the end of a window.
LEMMA ListsStay ==
    ASSUME Sound(desk), Undisturbed
    PROVE  \/ SameLists(desk, desk')
           \/ Navigate \/ \E c \in Client : Activate(c)
           \/ \E n \in 0..MaxJump : MoveClientToWsN(n)
           \/ \E d \in Dir : MoveClientToWsDir(d)
<1>1. ASSUME NEW c \in Client, Prepared(desk, desk', c) \/ Opened(desk, desk', c)
      PROVE  SameLists(desk, desk')
  BY <1>1 DEF Prepared, Touches, Opened, OpenedAt, Arrived, Cleared, SameLists
<1>2. ASSUME NEW c, NEW on, Fulled(desk, desk', c, on) \/ Floated(desk, desk', c, on)
      PROVE  SameLists(desk, desk')
  BY <1>2 DEF Fulled, Floated, Touches
<1>3. ASSUME NEW c, NEW m, SentTo(desk, desk', c, m) PROVE SameLists(desk, desk')
  BY <1>3 DEF SentTo, Touches
<1>4. Quiet(desk, desk') \/ Shuffled(desk, desk') => SameLists(desk, desk')
  BY DEF Quiet, Shuffled
<1>5. ASSUME NEW c \in Client, Alive(c) PROVE SameLists(desk, desk') \/ Activate(c)
  BY <1>1, <1>2, <1>5, AliveDoes
<1>6. ASSUME NEW d \in Dir, MoveColumnDir(Mon, d) PROVE SameLists(desk, desk')
  BY <1>3, <1>4, <1>6, MoveColumnDirDoes
<1>7. ASSUME ToggleFloating PROVE SameLists(desk, desk')
  BY <1>2, <1>7, ToggleFloatingDoes
<1>8. ASSUME ToggleFullscreen PROVE SameLists(desk, desk')
  BY <1>2, <1>8, ToggleFullscreenDoes
<1>9. ASSUME NEW d \in Dir, TagMon(Mon, d) PROVE SameLists(desk, desk')
  BY <1>3, <1>4, <1>9, TagMonDoes
<1>10. ASSUME Refocus(Mon) PROVE SameLists(desk, desk')
  BY <1>4, <1>10, RefocusDoes
<1>11. Rearrange(Mon) => \/ SameLists(desk, desk')
                         \/ \E n \in 0..MaxJump : MoveClientToWsN(n)
                         \/ \E d \in Dir : MoveClientToWsDir(d)
  BY <1>6, <1>7, <1>8 DEF Rearrange
<1> QED
  BY <1>5, <1>9, <1>10, <1>11 DEF Undisturbed

\* The end of a window changes the view only if the workspace shown goes.
LEMMA ClosedView ==
    ASSUME NEW s, NEW t, NEW c, Sound(s), Closed(s, t, c), NEW m \in Mon
    PROVE  t.active[m] = s.active[m] \/ s.active[m] \notin Own(t, m)
<1> DEFINE n == s.mon[c]
<1>1. PICK u, v, D : Unlisted(s, u, c) /\ Compacts(u, v, n, D) /\ Quiet(v, t)
  BY DEF Closed
<1>2. u.active = s.active /\ u.owner = s.owner /\ t.active = v.active /\ t.owner = v.owner
  BY <1>1 DEF Unlisted, Quiet, Shuffled, SameLists
<1>3. /\ v.active = [u.active EXCEPT ![n] = v.active[n]]
      /\ u.active[n] \notin D => v.active[n] = u.active[n]
      /\ v.owner = [w \in Ws |-> IF w \in D THEN NoMon ELSE u.owner[w]]
  BY <1>1 DEF Compacts
<1>4. u.active \in [Mon -> Ws \cup {NoWs}]
  BY <1>1, DeskTyped DEF Unlisted, Sound, Base
<1>5. CASE m # n
  BY <1>2, <1>3, <1>4, <1>5
<1>6. CASE m = n /\ u.active[n] \notin D
  BY <1>2, <1>3, <1>6
<1>7. CASE m = n /\ u.active[n] \in D
  <2>1. ASSUME u.active[n] \in Ws PROVE v.owner[u.active[n]] = NoMon
    BY <1>3, <1>7, <2>1
  <2>2. m # NoMon
    BY DEF Mon, NoMon
  <2> QED
    BY <1>2, <1>7, <2>1, <2>2 DEF Own
<1> QED
  BY <1>5, <1>6, <1>7

\* The view of a monitor is the user's: only keys, an activation or the end of the
\* workspace shown change it (workspace_switch and its callers).
THEOREM ViewKept == Spec => ViewIsTheUsers
<1> DEFINE Goal == \A m \in Mon :
                     \/ desk'.active[m] = desk.active[m]
                     \/ desk.active[m] \notin Own(desk', m)
                     \/ Navigate \/ \E c \in Client : Activate(c)
                     \/ \E n \in 0..MaxJump : MoveClientToWsN(n)
                     \/ \E d \in Dir : MoveClientToWsDir(d)
<1>1. ASSUME DeskInv(desk), [Next]_vars PROVE [Goal]_vars
  <2>1. CASE Undisturbed
    BY <1>1, <2>1, ListsStay DEF DeskInv, SameLists
  <2>2. ASSUME NEW c \in Client, Unmap(c) PROVE Goal
    <3>1. Closed(desk, desk', c)
      BY <1>1, <2>2, UnmapDoes DEF DeskInv
    <3> QED
      BY <1>1, <3>1, ClosedView DEF DeskInv
  <2> QED
    BY <1>1, <2>1, <2>2 DEF Next
<1> QED
  BY <1>1, DeskSafe, PTL DEF Spec, ViewIsTheUsers

\* What is on a workspace does not depend on focus.
LEMMA OccupiedSame ==
    ASSUME NEW s, NEW t, Base(s), Base(t), SameWindows(s, t), NEW w \in Ws
    PROVE  Occupied(s, w) <=> Occupied(t, w)
<1>1. InRow(s, w) = InRow(t, w) /\ Mapped(s) = Mapped(t)
  BY DEF SameWindows, SamePlaces, SameKinds, InRow, Mapped
<1>2. (s.row[w] = <<>> <=> InRow(s, w) = {}) /\ (t.row[w] = <<>> <=> InRow(t, w) = {})
  BY EmptyLists DEF Base, Rows, RowOK
<1> QED
  BY <1>1, <1>2 DEF Occupied, SameWindows, SamePlaces, SameKinds

\* Nor does the shape of a list of workspaces.
LEMMA TidySame ==
    ASSUME NEW s, NEW t, Base(s), Quiet(s, t), NEW m \in Mon, Tidy(s, m)
    PROVE  Tidy(t, m)
<1>1. Own(t, m) = Own(s, m) /\ t.idx = s.idx
  BY DEF Quiet, Shuffled, SameLists, Own
<1>2. \A w \in Ws : Occupied(s, w) <=> Occupied(t, w)
  BY OccupiedSame DEF Quiet, Shuffled
<1> QED
  BY <1>1, <1>2 DEF Tidy, Own

\* Closing a window leaves the list of its monitor tidy.
LEMMA ClosedTidy ==
    ASSUME NEW s, NEW t, NEW c, Sound(s), Closed(s, t, c)
    PROVE  Tidy(t, s.mon[c])
<1>1. PICK u, v, D : /\ Unlisted(s, u, c) /\ Compacts(u, v, s.mon[c], D) /\ Tidy(v, s.mon[c])
                     /\ Quiet(v, t)
  BY DEF Closed
<1>2. c \in Mapped(s) /\ c \in Client
  BY MappedOf DEF Closed, Sound
<1>3. s.mon[c] \in Mon
  BY <1>2, MonOf DEF Sound, Live, LiveAt
<1>4. Base(v)
  BY <1>1 DEF Compacts, Sound
<1> QED
  BY <1>1, <1>3, <1>4, TidySame

\* Whatever its monitor's list looked like, closing a window leaves it without an empty
\* workspace below an occupied one and with one empty workspace at most, dragged or not
\* (unmapnotify, monitor_compact_workspaces).
THEOREM ClosingTidies == DragSpec => CloseTidies
<1> DEFINE Goal == \A c \in Mapped(desk) \ Mapped(desk') : Tidy(desk', desk.mon[c])
<1>1. ASSUME DragInv(desk, grab), [DragNext]_dragvars PROVE [Goal]_vars
  <2>1. Sound(desk)
    BY <1>1 DEF DragInv
  <2>2. ASSUME NEW c \in Client, Close(c) PROVE Goal
    <3>1. Closed(desk, desk', c)
      BY <2>1, <2>2, UnmapDoes DEF Close
    <3> QED
      BY <2>1, <3>1, ClosedDoes, ClosedTidy
  <2>3. ASSUME Effect(desk, desk') PROVE Goal
    BY <2>1, <2>3, EffectSound
  <2>4. CASE Undisturbed
    BY <2>1, <2>3, <2>4, UndisturbedDoes
  <2>5. ASSUME NEW c \in Client, NEW mode, Press(c, mode) PROVE Goal
    BY <2>1, <2>3, <2>5, PressDoes DEF Effect
  <2>6. ASSUME NEW m \in Mon, NEW c \in Client \cup {NoClient}, PressOther(m, c) PROVE Goal
    BY <2>1, <2>3, <2>6, PointerToDoes DEF PressOther, Effect, Unmoved
  <2>7. ASSUME NEW m \in Mon, NEW i, Release(m, i) PROVE Goal
    <3>1. grab.win \in Mapped(desk)
      BY <1>1, <2>7 DEF Release, DragInv
    <3>2. ASSUME NEW c, Dropped(desk, desk', c, m) PROVE Goal
      BY <2>1, <3>2, DroppedSound
    <3> QED
      BY <2>1, <2>3, <2>7, <3>1, <3>2, ReleaseDoes DEF Effect
  <2>8. UNCHANGED vars \/ Pointer \/ (\E c \in Client : Close(c)) \/ Undisturbed
    BY <1>1 DEF DragNext, dragvars, vars
  <2>9. CASE Pointer
    <3>1. ReleaseLocked => UNCHANGED vars
      BY DEF ReleaseLocked, vars
    <3> QED
      BY <2>5, <2>6, <2>7, <2>9, <3>1 DEF Pointer
  <2> QED
    BY <2>2, <2>4, <2>8, <2>9
<1> QED
  BY <1>1, DragSafe, PTL DEF DragSpec, CloseTidies

\* A window that opens, and those that make way for it, disturb no row.
LEMMA OpenedOrdered ==
    ASSUME NEW s, NEW t, NEW c \in Client, Sound(s), Opened(s, t, c)
    PROVE  Ordered(s, t, Client)
<1>1. PICK m, u : OpenedAt(s, t, c, m, u) /\ c \notin Mapped(s)
  BY DEF Opened
<1>2. s.col[c] = NoWs
  BY <1>1 DEF Sound, Live, LiveAt
<1>3. Ordered(s, u, Client \ {c}) /\ \A x \in Client \ {c} : u.col[x] = s.col[x]
  BY <1>1 DEF OpenedAt, Arrived, Alike
<1>4. Ordered(u, t, Client \ {c})
  BY <1>1 DEF OpenedAt, Cleared, Ordered
<1>5. Ordered(s, t, Client \ {c})
  BY <1>3, <1>4, OrderedTwice
<1> QED
  BY <1>2, <1>5, OrderedBut

\* A tile that goes to another monitor leaves its row.
LEMMA SentToOrdered ==
    ASSUME NEW s, NEW t, NEW c, NEW m, Sound(s), SentTo(s, t, c, m)
    PROVE  Ordered(s, t, Client)
<1>1. c \in Client /\ LiveAt(s, c)
  BY MappedOf DEF SentTo, Sound, Live
<1>2. s.owner[s.active[m]] = m /\ s.mon[c] # m
  BY ActiveOf DEF SentTo, Sound
<1>3. t.col[c] \in {NoWs, s.active[m]}
  BY DEF SentTo, SentCol
<1>4. s.col[c] = NoWs \/ t.col[c] # s.col[c]
  BY <1>1, <1>2, <1>3 DEF LiveAt
<1> QED
  BY <1>4, OrderedBut DEF SentTo, Touches

\* Nothing but the keys that move tiles changes the order of those that stay in a row.
LEMMA UnmovedOrdered ==
    ASSUME NEW s, NEW t, Sound(s), Unmoved(s, t)
    PROVE  Ordered(s, t, Client)
<1>1. Quiet(s, t) => Ordered(s, t, Client)
  BY SameRowsOrdered DEF Quiet
<1>2. ASSUME NEW c \in Client, Prepared(s, t, c) PROVE Ordered(s, t, Client)
  <2>1. s.col[c] = NoWs
    BY <1>2 DEF Prepared, Sound, Live, LiveAt
  <2> QED
    BY <1>2, <2>1, OrderedBut DEF Prepared, Touches
<1>3. ASSUME NEW c \in Client, Opened(s, t, c) PROVE Ordered(s, t, Client)
  BY <1>3, OpenedOrdered
<1>4. ASSUME NEW c, NEW on, Fulled(s, t, c, on) \/ Floated(s, t, c, on)
      PROVE  Ordered(s, t, Client)
  <2>1. Touches(s, t, c) /\ (t.col[c] = s.col[c] => t.row = s.row)
    BY <1>4 DEF Fulled, Floated
  <2> QED
    BY <2>1, SameRowsOrdered, OrderedBut DEF Touches
<1>5. ASSUME NEW c, NEW m, SentTo(s, t, c, m) PROVE Ordered(s, t, Client)
  BY <1>5, SentToOrdered
<1>6. ASSUME NEW m, NEW w, Visited(s, t, m, w) PROVE Ordered(s, t, Client)
  BY <1>6, VisitedWindows, SameRowsOrdered
<1> QED
  BY <1>1, <1>2, <1>3, <1>4, <1>5, <1>6 DEF Unmoved

\* Tiles that are ordered are not swapped.
LEMMA OrderedMeans ==
    ASSUME NEW C, Ordered(desk, desk', C)
    PROVE  ~ Swapped(C)
<1> SUFFICES ASSUME NEW c \in C, NEW d \in C,
                    desk.col[c] # NoWs, desk.col[c] = desk.col[d],
                    desk'.col[c] = desk.col[c], desk'.col[d] = desk.col[d]
             PROVE  Before(desk, c, d) = Before(desk', c, d)
  BY DEF Swapped
<1>1. Before(desk, c, d) <=> Before(desk', c, d)
  BY DEF Ordered
<1> QED
  BY <1>1 DEF Before

\* Tiles that stay in their row keep their left-to-right order, but for the keys that
\* move them and the one that is dropped: not when windows open, close, go fullscreen or
\* back, float, are sent away or dropped between them (workspace_attach_client,
\* workspace_detach_client, workspace_drop_tile).
THEOREM RowOrderPreserved == DragSpec => RowOrderKept
<1> DEFINE C == Client \ (IF grab' = NoGrab THEN {grab.win} ELSE {})
           Goal == Swapped(C) => MoveKey
<1>1. ASSUME DragInv(desk, grab), [DragNext]_dragvars PROVE [Goal]_dragvars
  <2>1. Sound(desk) /\ C \in SUBSET Client
    BY <1>1 DEF DragInv
  <2>2. ASSUME Ordered(desk, desk', Client) PROVE Goal
    <3>1. Ordered(desk, desk', C)
      BY <2>1, <2>2 DEF Ordered
    <3> QED
      BY <3>1, OrderedMeans
  <2>3. ASSUME NEW c \in Client, Close(c) PROVE Goal
    <3>1. Closed(desk, desk', c)
      BY <2>1, <2>3, UnmapDoes DEF Close
    <3>2. Ordered(desk, desk', Client \ {c}) /\ desk'.col[c] = NoWs
      BY <2>1, <3>1, ClosedDoes, ClosedOrdered
    <3>3. Ordered(desk, desk', Client)
      BY <3>2, OrderedBut
    <3> QED
      BY <2>2, <3>3
  <2>4. CASE Undisturbed
    BY <2>1, <2>2, <2>4, UndisturbedDoes, UnmovedOrdered
  <2>5. ASSUME NEW c \in Client, NEW mode, Press(c, mode) PROVE Goal
    BY <2>1, <2>2, <2>5, PressDoes, UnmovedOrdered
  <2>6. ASSUME NEW m \in Mon, NEW c \in Client \cup {NoClient}, PressOther(m, c) PROVE Goal
    BY <2>1, <2>2, <2>6, PointerToDoes, UnmovedOrdered DEF PressOther, Unmoved
  <2>7. ASSUME NEW m \in Mon, NEW i, Release(m, i) PROVE Goal
    <3>1. grab.win \in Mapped(desk) /\ grab' = NoGrab
      BY <1>1, <2>7 DEF Release, DragInv
    <3>2. ASSUME Dropped(desk, desk', grab.win, m) PROVE Goal
      <4>1. Ordered(desk, desk', C)
        BY <3>1, <3>2 DEF Dropped, Touches
      <4> QED
        BY <4>1, OrderedMeans
    <3> QED
      BY <2>1, <2>2, <2>7, <3>1, <3>2, ReleaseDoes, UnmovedOrdered
  <2>8. CASE UNCHANGED desk
    BY <2>2, <2>8, SameRowsOrdered
  <2>9. CASE Pointer
    BY <2>5, <2>6, <2>7, <2>8, <2>9 DEF Pointer, ReleaseLocked
  <2>10. UNCHANGED desk \/ Pointer \/ (\E c \in Client : Close(c)) \/ Undisturbed
    BY <1>1 DEF DragNext, dragvars
  <2> QED
    BY <2>3, <2>4, <2>8, <2>9, <2>10
<1> QED
  BY <1>1, DragSafe, PTL DEF DragSpec, RowOrderKept

\* Windows that are alike are at home where they were.
LEMMA AlikeHome ==
    ASSUME NEW s, NEW t, NEW c, Alike(s, t, c)
    PROVE  Home(t, c) = Home(s, c)
BY DEF Alike, Home

\* If only one window is touched, no other strays.
LEMMA OneStrays ==
    ASSUME NEW s, NEW t, NEW c, Sound(s), \A x \in Client \ {c} : Alike(s, t, x)
    PROVE  Strays(s, t) \in SUBSET {c}
<1>1. ASSUME NEW x \in Strays(s, t), x # c PROVE FALSE
  <2>1. x \in Client /\ Home(s, x) # Home(t, x)
    BY <1>1, MappedOf DEF Strays, Sound
  <2> QED
    BY <1>1, <2>1, AlikeHome
<1> QED
  BY <1>1

\* Nothing that only moves focus or shows another workspace makes a window stray.
LEMMA NoneStrays ==
    ASSUME NEW s, NEW t, Sound(s), SameWindows(s, t)
    PROVE  Strays(s, t) = {}
<1>1. \A x : Home(t, x) = Home(s, x)
  BY DEF SameWindows, SamePlaces, Home
<1> QED
  BY <1>1 DEF Strays

\* A fullscreen window that makes way for a new one goes back to where it was fullscreen.
LEMMA OpenedStrays ==
    ASSUME NEW s, NEW t, NEW c \in Client, Sound(s), Uncol(s), Opened(s, t, c)
    PROVE  Strays(s, t) = {}
<1>1. PICK m, u : OpenedAt(s, t, c, m, u) /\ c \notin Mapped(s)
  BY DEF Opened
<1>2. /\ m \in Mon /\ Arrived(s, u, c, m) /\ Cleared(u, t, c)
      /\ Sound(u) /\ Mapped(u) = Mapped(s) \cup {c}
      /\ \A x \in Client \ {c} : Alike(s, u, x)
  BY <1>1, ArrivedSound DEF OpenedAt, Arrived
<1>3. ASSUME NEW x \in Mapped(s), Home(s, x) # Home(t, x), ~ Released(s, t, x) PROVE FALSE
  <2>1. x \in Client /\ x # c
    BY <1>1, MappedOf DEF Sound
  <2>2. Alike(s, u, x)
    BY <1>2, <2>1
  <2>3. CASE Alike(u, t, x)
    BY <1>3, <2>2, <2>3, AlikeHome
  <2>4. CASE Lowered(u, t, c, x)
    <3>1. t.col[x] = IF u.float[x] THEN u.col[x] ELSE u.fs_ws[x]
      BY <1>2, <2>1, <2>4, SoundCleared
    <3>2. u.full[x] /\ ~ t.full[x] /\ t.fs_ws[x] = NoWs
      BY <2>4 DEF Lowered, MakesWay
    <3>3. s.full[x] /\ ~ s.float[x] /\ ~ u.float[x]
      BY <1>3, <2>2, <3>2 DEF Released, Alike
    <3>4. s.col[x] = NoWs /\ s.fs_ws[x] = u.fs_ws[x]
      BY <2>1, <2>2, <3>3 DEF Uncol, Alike
    <3>5. u.fs_ws[x] # NoWs
      BY <1>2, <2>1, <3>2 DEF Sound, Live, LiveAt
    <3> QED
      BY <1>3, <3>1, <3>3, <3>4, <3>5 DEF Home
  <2> QED
    BY <1>2, <2>1, <2>3, <2>4 DEF Cleared
<1> QED
  BY <1>3 DEF Strays

\* A set within one element counts one at most.
LEMMA AtMostOne ==
    ASSUME NEW S, NEW c, S \in SUBSET {c}
    PROVE  Cardinality(S) <= 1
<1>1. S = {} \/ S = {c}
  OBVIOUS
<1>2. Cardinality({}) = 0 /\ Cardinality({c}) = 1
  BY FS_EmptySet, FS_Singleton
<1> QED
  BY <1>1, <1>2

\* Whatever the effect, one window strays at most.
LEMMA EffectStrays ==
    ASSUME NEW s, NEW t, Sound(s), Uncol(s), Effect(s, t)
    PROVE  Cardinality(Strays(s, t)) <= 1
<1>1. ASSUME NEW c, \A x \in Client \ {c} : Alike(s, t, x) PROVE Cardinality(Strays(s, t)) <= 1
  BY <1>1, OneStrays, AtMostOne
<1>2. ASSUME Strays(s, t) = {} PROVE Cardinality(Strays(s, t)) <= 1
  BY <1>2, FS_EmptySet
<1>3. Shuffled(s, t) => Strays(s, t) = {}
  BY NoneStrays DEF Shuffled
<1>4. ASSUME NEW m, NEW w, Visited(s, t, m, w) PROVE Strays(s, t) = {}
  BY <1>4, VisitedWindows, NoneStrays
<1>5. ASSUME NEW c \in Client, Opened(s, t, c) PROVE Strays(s, t) = {}
  BY <1>5, OpenedStrays
<1>6. ASSUME NEW c, NEW w, Sent(s, t, c, w) PROVE \A x \in Client \ {c} : Alike(s, t, x)
  BY <1>6, SentWindows
<1>7. ASSUME NEW c, NEW on, NEW m, \/ Prepared(s, t, c) \/ Fulled(s, t, c, on)
                                   \/ Floated(s, t, c, on) \/ SentTo(s, t, c, m)
      PROVE  \A x \in Client \ {c} : Alike(s, t, x)
  BY <1>7 DEF Prepared, Fulled, Floated, SentTo, Touches
<1> QED
  BY <1>1, <1>2, <1>3, <1>4, <1>5, <1>6, <1>7 DEF Effect, Unmoved, Quiet

\* Whatever a handler does, at most one of the windows that stay changes workspace: that
\* of the key or the pointer, but never another (setmon, setfullscreen, workspace_attach_client,
\* monitor_compact_workspaces, which all work on shared rows and lists).
THEOREM OthersLeftAlone == Spec => OthersStay
<1>1. ASSUME DeskInv(desk), [Next]_vars PROVE [Cardinality(Strays(desk, desk')) <= 1]_vars
  <2>1. CASE Undisturbed
    BY <1>1, <2>1, UndisturbedDoes, EffectStrays DEF DeskInv
  <2>2. ASSUME NEW c \in Client, Unmap(c) PROVE Cardinality(Strays(desk, desk')) <= 1
    <3>1. Closed(desk, desk', c)
      BY <1>1, <2>2, UnmapDoes DEF DeskInv
    <3>2. \A x \in Client \ {c} : Alike(desk, desk', x)
      BY <1>1, <3>1, ClosedDoes DEF DeskInv
    <3> QED
      BY <1>1, <3>2, OneStrays, AtMostOne DEF DeskInv
  <2> QED
    BY <1>1, <2>1, <2>2 DEF Next
<1> QED
  BY <1>1, DeskSafe, PTL DEF Spec, OthersStay

\* The windows of s that t lowered from fullscreen.
Unfulled(s, t) == {c \in Mapped(s) \cap Mapped(t) : s.full[c] /\ ~ t.full[c]}

\* Only these handlers lower a window.
LEMMA LoweredBy ==
    ASSUME Sound(desk), Undisturbed, NEW x \in Unfulled(desk, desk')
    PROVE  \/ ToggleFullscreen
           \/ \E c \in Client, want \in BOOLEAN :
                FullscreenNotify(c, want) /\ Fulled(desk, desk', c, want)
           \/ \E c \in Client : Opened(desk, desk', c)
<1>1. x \in Client /\ x \in Mapped(desk) /\ desk.full[x] /\ ~ desk'.full[x]
  BY MappedOf DEF Unfulled, Sound
<1>2. ~ Shuffled(desk, desk') /\ ~ Quiet(desk, desk')
  BY <1>1 DEF Quiet, Shuffled, SameWindows, SameKinds
<1>3. ASSUME NEW c, NEW w, Visited(desk, desk', c, w) \/ Sent(desk, desk', c, w) PROVE FALSE
  <2>1. ~ Visited(desk, desk', c, w)
    BY <1>1, VisitedWindows DEF SameWindows, SameKinds
  <2>2. Sent(desk, desk', c, w) => \A y \in Client : desk'.full[y] = desk.full[y]
    BY SentWindows DEF Alike
  <2> QED
    BY <1>1, <1>3, <2>1, <2>2
<1>4. ASSUME NEW c, NEW on, Floated(desk, desk', c, on) \/ SentTo(desk, desk', c, on) PROVE FALSE
  <2>1. \A y \in Client : desk'.full[y] = desk.full[y]
    BY <1>4 DEF Floated, SentTo, Touches, Alike
  <2> QED
    BY <1>1, <2>1
<1>5. ASSUME NEW c \in Client, Prepared(desk, desk', c) PROVE FALSE
  <2>1. x # c
    BY <1>1, <1>5 DEF Prepared
  <2> QED
    BY <1>1, <1>5, <2>1 DEF Prepared, Touches, Alike
<1>6. ASSUME NEW c \in Client, Alive(c)
      PROVE  \/ \E want \in BOOLEAN : FullscreenNotify(c, want) /\ Fulled(desk, desk', c, want)
             \/ Opened(desk, desk', c)
  BY <1>3, <1>5, <1>6, AliveDoes
<1>7. ~ Navigate
  BY <1>2, <1>3, NavigateDoes DEF Navigated
<1>8. ASSUME Rearrange(Mon) PROVE ToggleFullscreen
  <2>1. ASSUME \/ \E n \in 0..MaxJump : MoveClientToWsN(n)
               \/ \E d \in Dir : MoveClientToWsDir(d)
        PROVE  FALSE
    BY <1>3, <2>1, MoveToWsDoes
  <2>2. ASSUME NEW d \in Dir, MoveColumnDir(Mon, d) PROVE FALSE
    BY <1>2, <1>4, <2>2, MoveColumnDirDoes
  <2>3. ASSUME ToggleFloating PROVE FALSE
    BY <1>4, <2>3, ToggleFloatingDoes
  <2> QED
    BY <1>8, <2>1, <2>2, <2>3 DEF Rearrange
<1>9. ~ Refocus(Mon)
  BY <1>2, RefocusDoes
<1>10. ASSUME NEW d \in Dir, TagMon(Mon, d) PROVE FALSE
  BY <1>2, <1>4, <1>10, TagMonDoes
<1> QED
  BY <1>6, <1>7, <1>8, <1>9, <1>10 DEF Undisturbed

\* What lowers a fullscreen window.
LEMMA UnfulledWhy ==
    ASSUME DeskInv(desk), Undisturbed, NEW x \in Unfulled(desk, desk')
    PROVE  \/ ToggleFullscreen
           \/ x \notin Game /\ FullscreenNotify(x, FALSE)
           \/ /\ Home(desk, x) \in {NoWs, desk.active[desk.mon[x]]}
              /\ \E y \in Mapped(desk') \ Mapped(desk) : App[y] # App[x]
<1>1. Sound(desk) /\ Uncol(desk)
  BY DEF DeskInv
<1>2. x \in Client /\ x \in Mapped(desk) /\ desk.full[x] /\ ~ desk'.full[x]
  BY <1>1, MappedOf DEF Unfulled, Sound
<1>3. ASSUME NEW c \in Client, NEW want \in BOOLEAN,
             FullscreenNotify(c, want), Fulled(desk, desk', c, want)
      PROVE  x \notin Game /\ FullscreenNotify(x, FALSE)
  <2>1. c = x
    BY <1>2, <1>3 DEF Fulled, Touches, Alike
  <2>2. want = FALSE
    BY <1>2, <1>3, <2>1 DEF Fulled
  <2>3. FullscreenNotify(x, FALSE)
    BY <1>3, <2>1, <2>2
  <2>4. x \notin Game
    BY <1>2, <2>3 DEF FullscreenNotify
  <2> QED
    BY <2>3, <2>4
<1>4. ASSUME NEW c \in Client, Opened(desk, desk', c)
      PROVE  /\ Home(desk, x) \in {NoWs, desk.active[desk.mon[x]]}
             /\ \E y \in Mapped(desk') \ Mapped(desk) : App[y] # App[x]
  <2>1. PICK m, u : OpenedAt(desk, desk', c, m, u) /\ c \notin Mapped(desk)
    BY <1>4 DEF Opened
  <2>2. /\ Cleared(u, desk', c) /\ SameLists(desk, u)
        /\ Mapped(desk') = Mapped(desk) \cup {c}
        /\ \A y \in Client \ {c} : Alike(desk, u, y)
    BY <1>1, <1>4, <2>1, OpenedSound DEF OpenedAt, Arrived
  <2>3. x # c /\ Alike(desk, u, x)
    BY <1>2, <2>1, <2>2
  <2>4. ~ Alike(u, desk', x)
    BY <1>2, <2>3 DEF Alike
  <2>5. MakesWay(u, c, x)
    BY <1>2, <2>2, <2>4 DEF Cleared, Lowered
  <2>6. App[c] # App[x] /\ desk.fs_ws[x] \in {NoWs, desk.active[desk.mon[x]]}
    BY <2>2, <2>3, <2>5 DEF MakesWay, Alike, SameLists
  <2>7. Home(desk, x) = desk.fs_ws[x]
    BY <1>1, <1>2 DEF Uncol, Home
  <2>8. c \in Mapped(desk') \ Mapped(desk)
    BY <2>1, <2>2
  <2> QED
    BY <2>6, <2>7, <2>8
<1> QED
  BY <1>1, <1>3, <1>4, LoweredBy

\* A fullscreen window is left alone: the user lowers it, it asks for it itself and is no
\* game, or a window of another program opens over it while it is in view
\* (fullscreennotify, togglefullscreen, the unset_fullscreen loop of mapnotify).
THEOREM FullscreenLeftAlone == Spec => FullscreenKept
<1> DEFINE Goal ==
      \A c \in Mapped(desk) \cap Mapped(desk') : desk.full[c] /\ ~ desk'.full[c] =>
         \/ ToggleFullscreen
         \/ c \notin Game /\ FullscreenNotify(c, FALSE)
         \/ /\ Home(desk, c) \in {NoWs, desk.active[desk.mon[c]]}
            /\ \E x \in Mapped(desk') \ Mapped(desk) : App[x] # App[c]
<1>1. ASSUME DeskInv(desk), [Next]_vars PROVE [Goal]_vars
  <2>1. CASE Undisturbed
    <3>1. ASSUME NEW x \in Unfulled(desk, desk')
          PROVE  \/ ToggleFullscreen
                 \/ x \notin Game /\ FullscreenNotify(x, FALSE)
                 \/ /\ Home(desk, x) \in {NoWs, desk.active[desk.mon[x]]}
                    /\ \E y \in Mapped(desk') \ Mapped(desk) : App[y] # App[x]
      BY <1>1, <2>1, UnfulledWhy
    <3> QED
      BY <3>1 DEF Unfulled
  <2>2. ASSUME NEW c \in Client, Unmap(c) PROVE Goal
    <3>1. Closed(desk, desk', c)
      BY <1>1, <2>2, UnmapDoes DEF DeskInv
    <3>2. /\ \A x \in Client \ {c} : Alike(desk, desk', x)
          /\ Mapped(desk') = Mapped(desk) \ {c}
      BY <1>1, <3>1, ClosedDoes DEF DeskInv
    <3>3. \A x \in Mapped(desk) \cap Mapped(desk') : desk'.full[x] = desk.full[x]
      BY <1>1, <3>2, MappedOf DEF Alike, DeskInv, Sound
    <3> QED
      BY <3>3
  <2> QED
    BY <1>1, <2>1, <2>2 DEF Next
<1> QED
  BY <1>1, DeskSafe, PTL DEF Spec, FullscreenKept

-----------------------------------------------------------------------------
(* The promise of Placement is kept. *)

\* The workspaces that mapped windows are fullscreen on.
Bound(s) == [c \in Client |-> IF c \in Mapped(s) THEN s.fs_ws[c] ELSE NoWs]

\* Only window c is not as it was.
OnlyAt(s, t, c) ==
    /\ t.mon = [s.mon EXCEPT ![c] = t.mon[c]]
    /\ t.col = [s.col EXCEPT ![c] = t.col[c]]
    /\ t.full = [s.full EXCEPT ![c] = t.full[c]]
    /\ t.float = [s.float EXCEPT ![c] = t.float[c]]
    /\ Bound(t) = [Bound(s) EXCEPT ![c] = IF c \in Mapped(t) THEN t.fs_ws[c] ELSE NoWs]

\* Where only one window is touched, the others are as they were.
LEMMA ChangedAt ==
    ASSUME NEW s \in Desk, NEW t \in Desk, NEW c \in Client,
           \A x \in Client \ {c} : Alike(s, t, x) /\ (x \in Mapped(s) <=> x \in Mapped(t))
    PROVE  OnlyAt(s, t, c)
<1>1. ASSUME NEW x \in Client \ {c}
      PROVE  /\ t.mon[x] = s.mon[x] /\ t.col[x] = s.col[x] /\ t.full[x] = s.full[x]
             /\ t.float[x] = s.float[x] /\ Bound(t)[x] = Bound(s)[x]
  BY DEF Alike, Bound
<1>2. s.mon \in [Client -> Mon \cup {NoMon}] /\ t.mon \in [Client -> Mon \cup {NoMon}]
  BY DeskTyped
<1>3. s.col \in [Client -> Ws \cup {NoWs}] /\ t.col \in [Client -> Ws \cup {NoWs}]
  BY DeskTyped
<1>4. s.full \in [Client -> BOOLEAN] /\ t.full \in [Client -> BOOLEAN]
  BY DeskTyped
<1>5. s.float \in [Client -> BOOLEAN] /\ t.float \in [Client -> BOOLEAN]
  BY DeskTyped
<1>6. t.mon = [s.mon EXCEPT ![c] = t.mon[c]]
  BY <1>1, <1>2
<1>7. t.col = [s.col EXCEPT ![c] = t.col[c]]
  BY <1>1, <1>3
<1>8. t.full = [s.full EXCEPT ![c] = t.full[c]]
  BY <1>1, <1>4
<1>9. t.float = [s.float EXCEPT ![c] = t.float[c]]
  BY <1>1, <1>5
<1>10. Bound(t) = [Bound(s) EXCEPT ![c] = IF c \in Mapped(t) THEN t.fs_ws[c] ELSE NoWs]
  <2>1. Bound(t)[c] = IF c \in Mapped(t) THEN t.fs_ws[c] ELSE NoWs
    BY DEF Bound
  <2>2. Bound(t) = [x \in Client |-> Bound(t)[x]] /\ Bound(s) = [x \in Client |-> Bound(s)[x]]
    BY DEF Bound
  <2> HIDE DEF Bound
  <2> QED
    BY <1>1, <2>1, <2>2
<1> QED
  BY <1>6, <1>7, <1>8, <1>9, <1>10 DEF OnlyAt

\* A step of the desk that Placement does not see.
Unseen(s, t) == /\ t.owner = s.owner /\ t.active = s.active /\ t.prev = s.prev
                /\ Mapped(t) = Mapped(s) /\ t.mon = s.mon /\ t.col = s.col
                /\ t.full = s.full /\ t.float = s.float /\ Bound(t) = Bound(s)

\* Such a step stutters.
LEMMA UnseenStutters ==
    ASSUME Unseen(desk, desk')
    PROVE  UNCHANGED Abstract!vars
BY DEF Unseen, Bound, Abstract!vars, Abstract!lists, Abstract!windows

\* Where windows are as they were and so are lists, Placement sees nothing.
LEMMA QuietUnseen ==
    ASSUME NEW s, NEW t, SameLists(s, t), SameWindows(s, t)
    PROVE  Unseen(s, t)
<1>1. Mapped(t) = Mapped(s) /\ t.fs_ws = s.fs_ws
  BY DEF SameWindows, SamePlaces, SameKinds, Mapped
<1>2. Bound(t) = Bound(s)
  BY <1>1 DEF Bound
<1> QED
  BY <1>1, <1>2 DEF Unseen, SameLists, SameWindows, SamePlaces, SameKinds

\* The one window that a step touches, and what it is after it.
LEMMA TouchedAt ==
    ASSUME NEW s, NEW t, NEW c \in Client, Base(s), Touches(s, t, c)
    PROVE  /\ Mapped(t) = Mapped(s) /\ t.owner = s.owner /\ t.active = s.active
           /\ t.prev = s.prev /\ OnlyAt(s, t, c)
<1>1. Mapped(t) = Mapped(s) /\ t.owner = s.owner /\ t.active = s.active /\ t.prev = s.prev
  BY DEF Touches, SameLists, Mapped
<1>2. s \in Desk /\ t \in Desk
  BY DEF Touches, Base
<1>3. \A x \in Client \ {c} : Alike(s, t, x) /\ (x \in Mapped(s) <=> x \in Mapped(t))
  BY <1>1 DEF Touches
<1> QED
  BY <1>1, <1>2, <1>3, ChangedAt

\* A touched window that is as it was: nothing to see.
LEMMA TouchedUnseen ==
    ASSUME NEW s, NEW t, NEW c \in Client, Base(s), Touches(s, t, c), t.mon[c] = s.mon[c],
           t.col[c] = s.col[c], t.full[c] = s.full[c], t.float[c] = s.float[c],
           c \in Mapped(s) => t.fs_ws[c] = s.fs_ws[c]
    PROVE  Unseen(s, t)
<1>1. /\ Mapped(t) = Mapped(s) /\ t.owner = s.owner /\ t.active = s.active
      /\ t.prev = s.prev /\ OnlyAt(s, t, c)
  BY TouchedAt
<1>1a. /\ t.mon = [s.mon EXCEPT ![c] = t.mon[c]]
       /\ t.col = [s.col EXCEPT ![c] = t.col[c]]
       /\ t.full = [s.full EXCEPT ![c] = t.full[c]]
       /\ t.float = [s.float EXCEPT ![c] = t.float[c]]
       /\ Bound(t) = [Bound(s) EXCEPT ![c] = IF c \in Mapped(t) THEN t.fs_ws[c] ELSE NoWs]
  BY <1>1 DEF OnlyAt
<1>2. s \in Desk
  BY DEF Base
<1>3. t.mon = s.mon /\ t.col = s.col /\ t.full = s.full /\ t.float = s.float
  BY <1>1, <1>1a, <1>2, DeskTyped
<1>4. Bound(t) = Bound(s)
  BY <1>1, <1>1a DEF Bound
<1> QED
  BY <1>1, <1>1a, <1>3, <1>4 DEF Unseen

\* What the refinement asks of the window a step touches.
LEMMA WindowOf ==
    ASSUME NEW s, Sound(s), NEW c \in Client
    PROVE  /\ Base(s) /\ s.full[c] \in BOOLEAN /\ s.float[c] \in BOOLEAN
           /\ c \notin Mapped(s) => s.mon[c] = NoMon /\ s.col[c] = NoWs
           /\ c \in Mapped(s) => /\ s.mon[c] \in Mon /\ s.mon[c] # NoMon
                                 /\ s.active[s.mon[c]] # NoWs
                                 /\ ~ s.full[c] => s.fs_ws[c] = NoWs
                                 /\ s.full[c] => /\ s.fs_ws[c] # NoWs
                                                 /\ s.owner[s.fs_ws[c]] = s.mon[c]
<1>1. Base(s) /\ LiveAt(s, c)
  BY DEF Sound, Live
<1>2. s.full[c] \in BOOLEAN /\ s.float[c] \in BOOLEAN /\ s.mon[c] \in Mon \cup {NoMon}
  BY <1>1, DeskTyped DEF Base
<1>3. c \in Mapped(s) => s.mon[c] \in Mon /\ s.active[s.mon[c]] # NoWs
  BY <1>1, <1>2, ActiveOf DEF Sound, LiveAt
<1> QED
  BY <1>1, <1>2, <1>3 DEF LiveAt

\* The flags of a window that is not mapped.
LEMMA PreparedRefines ==
    ASSUME Sound(desk), NEW c \in Client, Prepared(desk, desk', c)
    PROVE  Abstract!Prepare(c)
<1>1. /\ Base(desk) /\ c \notin Mapped(desk) /\ desk.mon[c] = NoMon /\ desk.col[c] = NoWs
      /\ Touches(desk, desk', c) /\ desk'.mon[c] = NoMon /\ desk'.col[c] = NoWs
  BY WindowOf DEF Prepared
<1>2. /\ Mapped(desk') = Mapped(desk) /\ desk'.owner = desk.owner /\ desk'.active = desk.active
      /\ desk'.prev = desk.prev /\ OnlyAt(desk, desk', c)
  BY <1>1, TouchedAt
<1>2a. /\ desk'.mon = [desk.mon EXCEPT ![c] = desk'.mon[c]]
       /\ desk'.col = [desk.col EXCEPT ![c] = desk'.col[c]]
       /\ desk'.full = [desk.full EXCEPT ![c] = desk'.full[c]]
       /\ desk'.float = [desk.float EXCEPT ![c] = desk'.float[c]]
       /\ Bound(desk') = [Bound(desk) EXCEPT ![c] = IF c \in Mapped(desk') THEN desk'.fs_ws[c] ELSE NoWs]
  BY <1>2 DEF OnlyAt
<1>3. desk'.full[c] \in BOOLEAN /\ desk'.float[c] \in BOOLEAN
  BY <1>1, DeskTyped DEF Touches, Base
<1>4. desk'.mon = desk.mon /\ desk'.col = desk.col
  BY <1>1, <1>2, <1>2a, DeskTyped DEF Base
<1>5. Bound(desk') = Bound(desk)
  BY <1>1, <1>2, <1>2a DEF Bound
<1> QED
  BY <1>1, <1>2, <1>2a, <1>3, <1>4, <1>5 DEF Abstract!Prepare, Abstract!lists, Bound

\* Entering and leaving fullscreen.
LEMMA FulledRefines ==
    ASSUME Sound(desk), Uncol(desk), NEW c, NEW on, Fulled(desk, desk', c, on)
    PROVE  \/ Unseen(desk, desk')
           \/ c \in Client /\ (Abstract!EnterFullscreen(c) \/ Abstract!LeaveFullscreen(c))
<1>1. c \in Client /\ c \in Mapped(desk) /\ on \in BOOLEAN /\ Touches(desk, desk', c)
  BY MappedOf DEF Fulled, Sound
<1>2. /\ Base(desk) /\ desk.full[c] \in BOOLEAN /\ desk.mon[c] \in Mon /\ desk.mon[c] # NoMon
      /\ ~ desk.full[c] => desk.fs_ws[c] = NoWs
      /\ desk.full[c] => desk.fs_ws[c] # NoWs /\ desk.owner[desk.fs_ws[c]] = desk.mon[c]
      /\ desk.full[c] => desk.col[c] = NoWs
      /\ desk.active[desk.mon[c]] # NoWs
  BY <1>1, WindowOf DEF Uncol
<1>3. /\ Mapped(desk') = Mapped(desk) /\ desk'.owner = desk.owner /\ desk'.active = desk.active
      /\ desk'.prev = desk.prev /\ OnlyAt(desk, desk', c)
  BY <1>1, <1>2, TouchedAt
<1>3a. /\ desk'.mon = [desk.mon EXCEPT ![c] = desk'.mon[c]]
       /\ desk'.col = [desk.col EXCEPT ![c] = desk'.col[c]]
       /\ desk'.full = [desk.full EXCEPT ![c] = desk'.full[c]]
       /\ desk'.float = [desk.float EXCEPT ![c] = desk'.float[c]]
       /\ Bound(desk') = [Bound(desk) EXCEPT ![c] = IF c \in Mapped(desk') THEN desk'.fs_ws[c] ELSE NoWs]
  BY <1>3 DEF OnlyAt
<1>4. /\ desk'.mon[c] = desk.mon[c] /\ desk'.float[c] = desk.float[c] /\ desk'.full[c] = on
      /\ desk'.col[c] = FullCol(desk, c, on) /\ desk'.fs_ws[c] = FullWs(desk, c, on)
  BY DEF Fulled
<1>5. desk'.mon = desk.mon /\ desk'.float = desk.float
  BY <1>2, <1>3, <1>3a, <1>4, DeskTyped DEF Base
<1>6. CASE on
  <2>1. desk'.col[c] = NoWs /\ desk'.fs_ws[c] = desk.active[desk.mon[c]]
    BY <1>2, <1>4, <1>6 DEF FullCol, FullWs
  <2>2. desk'.full = [desk.full EXCEPT ![c] = TRUE]
    BY <1>1, <1>3, <1>3a, <1>4, <1>6
  <2>3. /\ desk'.col = [desk.col EXCEPT ![c] = NoWs]
        /\ Bound(desk') = [Bound(desk) EXCEPT ![c] = desk.active[desk.mon[c]]]
    BY <1>1, <1>3, <1>3a, <2>1
  <2>4. Abstract!EnterFullscreen(c)
    BY <1>1, <1>3, <1>3a, <1>5, <2>2, <2>3 DEF Abstract!EnterFullscreen, Abstract!lists, Bound
  <2> QED
    BY <1>1, <2>4
<1>7. CASE ~ on /\ desk.full[c]
  <2>1. /\ desk'.col[c] = IF desk.float[c] THEN NoWs ELSE desk.fs_ws[c]
        /\ desk'.fs_ws[c] = NoWs
    BY <1>2, <1>4, <1>7 DEF FullCol, FullWs
  <2>2. desk'.full = [desk.full EXCEPT ![c] = FALSE]
    BY <1>1, <1>3, <1>3a, <1>4, <1>7
  <2>3. Bound(desk)[c] = desk.fs_ws[c]
    BY <1>1 DEF Bound
  <2>4. /\ desk'.col = [desk.col EXCEPT ![c] = IF desk.float[c] THEN NoWs ELSE Bound(desk)[c]]
        /\ Bound(desk') = [Bound(desk) EXCEPT ![c] = NoWs]
    BY <1>1, <1>3, <1>3a, <2>1, <2>3
  <2>5. Abstract!LeaveFullscreen(c)
    BY <1>1, <1>3, <1>3a, <1>5, <1>7, <2>2, <2>4 DEF Abstract!LeaveFullscreen, Abstract!lists, Bound
  <2> QED
    BY <1>1, <2>5
<1>8. CASE ~ on /\ ~ desk.full[c]
  <2>1. desk'.col[c] = desk.col[c] /\ desk'.fs_ws[c] = desk.fs_ws[c] /\ desk'.full[c] = desk.full[c]
    BY <1>1, <1>2, <1>4, <1>8 DEF FullCol, FullWs
  <2> QED
    BY <1>1, <1>2, <1>4, <2>1, TouchedUnseen
<1> QED
  BY <1>1, <1>6, <1>7, <1>8

\* Floating a tile and tiling it again.
LEMMA FloatedRefines ==
    ASSUME Sound(desk), NEW c, NEW on, Floated(desk, desk', c, on), ~ desk.full[c]
    PROVE  Unseen(desk, desk') \/ (c \in Client /\ Abstract!ToggleFloating(c))
<1>1. c \in Client /\ c \in Mapped(desk) /\ on \in BOOLEAN /\ Touches(desk, desk', c)
  BY MappedOf DEF Floated, Sound
<1>2. Base(desk) /\ desk.float[c] \in BOOLEAN /\ desk.mon[c] # NoMon
  BY <1>1, WindowOf
<1>3. /\ Mapped(desk') = Mapped(desk) /\ desk'.owner = desk.owner /\ desk'.active = desk.active
      /\ desk'.prev = desk.prev /\ OnlyAt(desk, desk', c)
  BY <1>1, <1>2, TouchedAt
<1>3a. /\ desk'.mon = [desk.mon EXCEPT ![c] = desk'.mon[c]]
       /\ desk'.col = [desk.col EXCEPT ![c] = desk'.col[c]]
       /\ desk'.full = [desk.full EXCEPT ![c] = desk'.full[c]]
       /\ desk'.float = [desk.float EXCEPT ![c] = desk'.float[c]]
       /\ Bound(desk') = [Bound(desk) EXCEPT ![c] = IF c \in Mapped(desk') THEN desk'.fs_ws[c] ELSE NoWs]
  BY <1>3 DEF OnlyAt
<1>4. /\ desk'.mon[c] = desk.mon[c] /\ desk'.float[c] = on /\ desk'.full[c] = desk.full[c]
      /\ desk'.col[c] = FloatCol(desk, c, on) /\ desk'.fs_ws[c] = desk.fs_ws[c]
  BY DEF Floated
<1>5. CASE on = desk.float[c]
  <2>1. desk'.col[c] = desk.col[c]
    BY <1>1, <1>2, <1>4, <1>5 DEF FloatCol
  <2> QED
    BY <1>1, <1>2, <1>4, <1>5, <2>1, TouchedUnseen
<1>6. CASE on # desk.float[c]
  <2>1. on <=> ~ desk.float[c]
    BY <1>1, <1>2, <1>6
  <2>2. desk'.col[c] = IF desk.float[c] THEN desk.active[desk.mon[c]] ELSE NoWs
    BY <1>1, <1>2, <1>4, <2>1, WindowOf DEF FloatCol
  <2>3. desk'.mon = desk.mon /\ desk'.full = desk.full
    BY <1>2, <1>3, <1>3a, <1>4, DeskTyped DEF Base
  <2>4. Bound(desk') = Bound(desk)
    BY <1>1, <1>3, <1>3a, <1>4 DEF Bound
  <2>5. on = ~ desk.float[c]
    BY <1>1, <1>2, <2>1
  <2>6. /\ desk'.float = [desk.float EXCEPT ![c] = ~ @]
        /\ desk'.col = [desk.col EXCEPT ![c] = IF desk.float[c] THEN desk.active[desk.mon[c]]
                                               ELSE NoWs]
    BY <1>2, <1>3, <1>3a, <1>4, <2>2, <2>5, DeskTyped DEF Base
  <2>7. Abstract!ToggleFloating(c)
    BY <1>1, <1>3, <1>3a, <2>3, <2>4, <2>6 DEF Abstract!ToggleFloating, Abstract!lists, Bound
  <2> QED
    BY <1>1, <2>7
<1> QED
  BY <1>5, <1>6

\* A window sent to another monitor.
LEMMA SentToRefines ==
    ASSUME Sound(desk), NEW c, NEW m, SentTo(desk, desk', c, m)
    PROVE  c \in Client /\ m \in Mon /\ Abstract!SendToMon(c, m)
<1>1. /\ c \in Client /\ c \in Mapped(desk) /\ m \in Mon /\ m # desk.mon[c]
      /\ Touches(desk, desk', c) /\ m # NoMon
  BY MappedOf DEF SentTo, Sound, Mon, NoMon
<1>2. Base(desk) /\ desk.float[c] \in BOOLEAN /\ desk.full[c] \in BOOLEAN
  BY <1>1, WindowOf
<1>3. /\ Mapped(desk') = Mapped(desk) /\ desk'.owner = desk.owner /\ desk'.active = desk.active
      /\ desk'.prev = desk.prev /\ OnlyAt(desk, desk', c)
  BY <1>1, <1>2, TouchedAt
<1>3a. /\ desk'.mon = [desk.mon EXCEPT ![c] = desk'.mon[c]]
       /\ desk'.col = [desk.col EXCEPT ![c] = desk'.col[c]]
       /\ desk'.full = [desk.full EXCEPT ![c] = desk'.full[c]]
       /\ desk'.float = [desk.float EXCEPT ![c] = desk'.float[c]]
       /\ Bound(desk') = [Bound(desk) EXCEPT ![c] = IF c \in Mapped(desk') THEN desk'.fs_ws[c] ELSE NoWs]
  BY <1>3 DEF OnlyAt
<1>4. /\ desk'.mon[c] = m /\ desk'.float[c] = desk.float[c] /\ desk'.full[c] = desk.full[c]
      /\ desk'.col[c] = IF desk.full[c] \/ desk.float[c] THEN NoWs ELSE desk.active[m]
      /\ desk'.fs_ws[c] = IF desk.full[c] THEN desk.active[m] ELSE NoWs
  BY <1>1, <1>2 DEF SentTo, SentCol, SentWs
<1>5. desk'.float = desk.float /\ desk'.full = desk.full
  BY <1>2, <1>3, <1>3a, <1>4, DeskTyped DEF Base
<1>6. /\ desk'.mon = [desk.mon EXCEPT ![c] = m]
      /\ desk'.col = [desk.col EXCEPT ![c] = IF desk.full[c] \/ desk.float[c] THEN NoWs
                                             ELSE desk.active[m]]
      /\ Bound(desk') = [Bound(desk) EXCEPT ![c] = IF desk.full[c] THEN desk.active[m] ELSE NoWs]
  BY <1>1, <1>3, <1>3a, <1>4
<1>7. Abstract!SendToMon(c, m)
  BY <1>1, <1>3, <1>3a, <1>5, <1>6 DEF Abstract!SendToMon, Abstract!lists, Bound
<1> QED
  BY <1>1, <1>7

\* Another workspace of a monitor in view.
LEMMA VisitedRefines ==
    ASSUME Sound(desk), NEW m, NEW w, Visited(desk, desk', m, w)
    PROVE  Unseen(desk, desk') \/ (m \in Mon /\ w \in Ws /\ Abstract!Visit(m, w))
<1>1. PICK a, b : /\ m \in Mon /\ Got(desk, a, m, w) /\ Switched(a, b, m, w)
                  /\ Quiet(b, desk')
  BY DEF Visited
<1>2. SameWindows(desk, desk')
  BY VisitedWindows
<1>3. /\ Mapped(desk') = Mapped(desk) /\ desk'.mon = desk.mon /\ desk'.col = desk.col
      /\ desk'.full = desk.full /\ desk'.float = desk.float /\ Bound(desk') = Bound(desk)
  BY <1>2 DEF SameWindows, SamePlaces, SameKinds, Mapped, Bound
<1>4. a.active = desk.active /\ a.prev = desk.prev
  BY <1>1, GotOwn
<1>5. /\ desk'.owner = a.owner /\ desk'.active = [desk.active EXCEPT ![m] = w]
      /\ desk'.prev = IF w = desk.active[m] THEN desk.prev
                      ELSE [desk.prev EXCEPT ![m] = desk.active[m]]
  BY <1>1, <1>4 DEF Switched, Quiet, Shuffled, SameLists
<1>6. /\ desk.owner \in [Ws -> Mon \cup {NoMon}] /\ desk.active \in [Mon -> Ws \cup {NoWs}]
      /\ desk.active[m] \in Own(desk, m) /\ m # NoMon
  BY <1>1, DeskTyped DEF Sound, Base, Shows, Mon, NoMon
<1>7. /\ w \in Ws /\ w \in Own(desk, m) \cup Fresh(desk)
      /\ a.owner = [desk.owner EXCEPT ![w] = m]
  <2>1. CASE a = desk /\ w \in Own(desk, m)
    <3>1. w \in Ws /\ desk.owner[w] = m
      BY <2>1 DEF Own
    <3> QED
      BY <1>6, <2>1, <3>1
  <2>2. CASE w \in Fresh(desk) /\ Created(desk, a, m, w)
    BY <2>2 DEF Created, Fresh, Own
  <2> QED
    BY <1>1, <2>1, <2>2 DEF Got
<1>8. CASE w = desk.active[m]
  <2>1. w \in Own(desk, m)
    BY <1>6, <1>8
  <2>2. desk'.owner = desk.owner /\ desk'.active = desk.active
    BY <1>5, <1>6, <1>7, <1>8, <2>1 DEF Own
  <2> QED
    BY <1>3, <1>5, <1>8, <2>2 DEF Unseen
<1>9. CASE w # desk.active[m]
  <2>1. Abstract!Visit(m, w)
    BY <1>3, <1>5, <1>7, <1>9
       DEF Abstract!Visit, Abstract!Own, Abstract!Fresh, Abstract!windows, Own, Fresh, Bound
  <2> QED
    BY <1>1, <1>7, <2>1
<1> QED
  BY <1>8, <1>9

\* What compaction frees and shows, as Placement puts it.
LEMMA CompactedRefines ==
    ASSUME NEW v, NEW u, NEW m \in Mon, NEW D, Compacts(v, u, m, D), Quiet(u, desk'),
           NEW shown, NEW last,
           \A x \in Ws : x \notin Own(v, m) => v.owner[x] = desk.owner[x],
           v.active = [desk.active EXCEPT ![m] = shown], shown = v.active[m],
           v.prev = [desk.prev EXCEPT ![m] = last], last = v.prev[m],
           desk.active \in [Mon -> Ws \cup {NoWs}], desk.prev \in [Mon -> Ws \cup {NoWs}]
    PROVE  Abstract!Compacted(m, Own(v, m), shown, last)
<1> DEFINE own == Own(v, m)
           a == u.active[m]
<1>1. /\ desk'.owner = u.owner /\ desk'.active = u.active /\ desk'.prev = u.prev
      /\ desk'.col = u.col /\ desk'.fs_ws = u.fs_ws /\ Mapped(desk') = Mapped(u)
  BY DEF Quiet, Shuffled, SameLists, SameWindows, SamePlaces, SameKinds, Mapped
<1>2. u.col = v.col /\ u.fs_ws = v.fs_ws /\ Mapped(u) = Mapped(v) /\ Base(u)
  BY DEF Compacts, SameWindows, SamePlaces, SameKinds, Mapped, Sound
<1>3. /\ D \in SUBSET own
      /\ \A w \in D : (\A c \in Client : v.col[c] # w) /\ (\A c \in Mapped(v) : v.fs_ws[c] # w)
      /\ u.owner = [w \in Ws |-> IF w \in D THEN NoMon ELSE v.owner[w]]
      /\ a \in own \ D /\ u.active = [v.active EXCEPT ![m] = a]
      /\ v.active[m] \notin D => a = v.active[m]
      /\ u.prev = [v.prev EXCEPT ![m] = IF v.prev[m] \in D THEN NoWs ELSE v.prev[m]]
  BY DEF Compacts
<1> HIDE DEF a
<1>4. \A c \in Mapped(desk') : c \in Client /\ Bound(desk')[c] = v.fs_ws[c] /\ desk'.col[c] = v.col[c]
  BY <1>1, <1>2, MappedOf DEF Bound
<1>5. D \in SUBSET {w \in own : \A c \in Mapped(desk') :
                      ~ (desk'.col[c] = w \/ Bound(desk')[c] = w)}
  BY <1>1, <1>2, <1>3, <1>4
<1>6. desk'.owner = [w \in Ws |-> IF w \in D THEN NoMon
                                  ELSE IF w \in own THEN m ELSE desk.owner[w]]
  <2>1. \A w \in own : v.owner[w] = m
    BY DEF Own
  <2>2. ASSUME NEW w \in Ws
        PROVE  (IF w \in D THEN NoMon ELSE v.owner[w])
                 = IF w \in D THEN NoMon ELSE IF w \in own THEN m ELSE desk.owner[w]
    BY <2>1
  <2> HIDE DEF own
  <2> QED
    BY <1>1, <1>3, <2>2
<1>7. desk'.active = [desk.active EXCEPT ![m] = a]
  BY <1>1, <1>3
<1>8. desk'.prev = [desk.prev EXCEPT ![m] = IF last \in D THEN NoWs ELSE last]
  BY <1>1, <1>3
<1>9. own \ D # {} /\ a \in own \ D /\ (shown \notin D => a = shown)
  BY <1>3
<1>10. own = Own(v, m)
  OBVIOUS
<1> HIDE DEF own
<1> QED
  BY <1>5, <1>6, <1>7, <1>8, <1>9, <1>10 DEF Abstract!Compacted, Abstract!Uses, Bound

\* The end of a window.
LEMMA ClosedRefines ==
    ASSUME Sound(desk), NEW c \in Client, Closed(desk, desk', c)
    PROVE  Abstract!Close(c)
<1>0. /\ Mapped(desk') = Mapped(desk) \ {c}
      /\ desk'.mon[c] = NoMon /\ desk'.col[c] = NoWs
      /\ desk'.full[c] = desk.full[c] /\ desk'.float[c] = desk.float[c]
      /\ \A x \in Client \ {c} : Alike(desk, desk', x)
  <2>1. ASSUME NEW t, Closed(desk, t, c)
        PROVE  /\ Mapped(t) = Mapped(desk) \ {c}
               /\ t.mon[c] = NoMon /\ t.col[c] = NoWs
               /\ t.full[c] = desk.full[c] /\ t.float[c] = desk.float[c]
               /\ \A x \in Client \ {c} : Alike(desk, t, x)
    BY <2>1, ClosedDoes
  <2> QED
    BY <2>1
<1> DEFINE m == desk.mon[c]
<1>1. PICK u, v, D : /\ Unlisted(desk, u, c) /\ Compacts(u, v, m, D) /\ Quiet(v, desk')
  BY DEF Closed
<1>2. c \in Mapped(desk) /\ m \in Mon
  BY WindowOf DEF Closed
<1>3. desk \in Desk /\ desk' \in Desk
  BY <1>1 DEF Sound, Base, Quiet, Shuffled
<1>4. /\ Mapped(desk') = Mapped(desk) \ {c}
      /\ desk'.mon[c] = NoMon /\ desk'.col[c] = NoWs
      /\ desk'.full[c] = desk.full[c] /\ desk'.float[c] = desk.float[c]
      /\ \A x \in Client \ {c} : Alike(desk, desk', x)
  BY <1>0
<1>5. OnlyAt(desk, desk', c)
  BY <1>3, <1>4, ChangedAt
<1>6. /\ desk'.mon = [desk.mon EXCEPT ![c] = NoMon]
      /\ desk'.col = [desk.col EXCEPT ![c] = NoWs]
      /\ Bound(desk') = [Bound(desk) EXCEPT ![c] = NoWs]
  BY <1>4, <1>5 DEF OnlyAt
<1>7. desk'.full = desk.full /\ desk'.float = desk.float
  BY <1>3, <1>4, <1>5, DeskTyped DEF OnlyAt
<1>8. u.owner = desk.owner /\ u.active = desk.active /\ u.prev = desk.prev
  BY <1>1 DEF Unlisted, SameLists
<1>9. Own(u, m) = Own(desk, m)
  BY <1>8 DEF Own
<1>10. Abstract!Compacted(m, Own(u, m), desk.active[m], desk.prev[m])
  <2>1. desk.active \in [Mon -> Ws \cup {NoWs}] /\ desk.prev \in [Mon -> Ws \cup {NoWs}]
    BY <1>3, DeskTyped
  <2>2. /\ u.active = [desk.active EXCEPT ![m] = desk.active[m]]
        /\ u.prev = [desk.prev EXCEPT ![m] = desk.prev[m]]
    BY <1>8, <2>1
  <2> HIDE DEF m
  <2> QED
    BY <1>1, <1>2, <1>8, <2>1, <2>2, CompactedRefines
<1> QED
  BY <1>2, <1>4, <1>6, <1>7, <1>9, <1>10 DEF Abstract!Close, Abstract!Own, Own, Bound

\* A tile sent to another workspace of its monitor.
LEMMA SentRefines ==
    ASSUME Sound(desk), NEW c, NEW w, Sent(desk, desk', c, w)
    PROVE  c \in Client /\ w \in Ws /\ Abstract!Send(c, w)
<1> DEFINE m == desk.mon[c]
           own == Own(desk, m) \cup {w}
           last == IF w = desk.active[m] THEN desk.prev[m] ELSE desk.active[m]
<1>1. PICK a, b, v, u, D : /\ Got(desk, a, m, w) /\ Carried(a, b, c, w) /\ Sound(b)
                           /\ Switched(b, v, m, w) /\ Compacts(v, u, m, D) /\ Quiet(u, desk')
  BY DEF Sent
<1>2. c \in Mapped(desk) /\ c \in Client /\ ~ desk.float[c] /\ ~ desk.full[c]
  BY MappedOf DEF Sent, Sound
<1>3. m \in Mon /\ m # NoMon
  BY <1>2, WindowOf
<1>4. desk \in Desk /\ desk' \in Desk
  BY <1>1 DEF Sound, Base, Quiet, Shuffled
<1>5. /\ desk'.clients = desk.clients /\ desk'.col[c] = w /\ desk'.mon[c] = desk.mon[c]
      /\ desk'.fs_ws[c] = desk.fs_ws[c]
      /\ desk'.full[c] = desk.full[c] /\ desk'.float[c] = desk.float[c]
      /\ \A x \in Client \ {c} : Alike(desk, desk', x)
  BY SentWindows
<1>6. Mapped(desk') = Mapped(desk)
  BY <1>5 DEF Mapped
<1>7. OnlyAt(desk, desk', c)
  BY <1>2, <1>4, <1>5, <1>6, ChangedAt
<1>8. desk'.col = [desk.col EXCEPT ![c] = w]
  BY <1>5, <1>7 DEF OnlyAt
<1>9. desk'.mon = desk.mon /\ desk'.full = desk.full /\ desk'.float = desk.float
  BY <1>4, <1>5, <1>7, DeskTyped DEF OnlyAt
<1>10. Bound(desk') = Bound(desk)
  BY <1>2, <1>5, <1>6, <1>7 DEF OnlyAt, Bound
<1>11. a.active = desk.active /\ a.prev = desk.prev
  BY <1>1, <1>3, GotOwn
<1>12. desk.owner \in [Ws -> Mon \cup {NoMon}]
  BY <1>4, DeskTyped
<1>13. /\ w \in Ws /\ w \in Own(desk, m) \cup Fresh(desk)
       /\ a.owner = [desk.owner EXCEPT ![w] = m]
  <2>1. CASE a = desk /\ w \in Own(desk, m)
    <3>1. w \in Ws /\ desk.owner[w] = m
      BY <2>1 DEF Own
    <3> QED
      BY <1>12, <2>1, <3>1
  <2>2. CASE w \in Fresh(desk) /\ Created(desk, a, m, w)
    BY <2>2 DEF Created, Fresh, Own
  <2> QED
    BY <1>1, <2>1, <2>2 DEF Got
<1>14. b.owner = a.owner /\ b.active = a.active /\ b.prev = a.prev
  BY <1>1 DEF Carried, Touches, SameLists
<1>15. /\ v.owner = b.owner /\ v.active = [b.active EXCEPT ![m] = w]
       /\ v.prev = IF w = b.active[m] THEN b.prev ELSE [b.prev EXCEPT ![m] = b.active[m]]
  BY <1>1 DEF Switched
<1>16. v.owner = [desk.owner EXCEPT ![w] = m] /\ v.active = [desk.active EXCEPT ![m] = w]
  BY <1>11, <1>13, <1>14, <1>15
<1>17. Own(v, m) = own /\ \A x \in Ws : x \notin own => v.owner[x] = desk.owner[x]
  BY <1>12, <1>13, <1>16 DEF Own
<1>18. desk.active \in [Mon -> Ws \cup {NoWs}] /\ desk.prev \in [Mon -> Ws \cup {NoWs}]
  BY <1>4, DeskTyped
<1>19. v.prev = [desk.prev EXCEPT ![m] = last]
  <2>1. v.prev = IF w = desk.active[m] THEN desk.prev
                 ELSE [desk.prev EXCEPT ![m] = desk.active[m]]
    BY <1>11, <1>14, <1>15
  <2> QED
    BY <1>18, <2>1
<1>20. w = v.active[m] /\ last = v.prev[m]
  BY <1>3, <1>16, <1>18, <1>19
<1>21. Abstract!Compacted(m, own, w, last)
  <2> HIDE DEF m, own, last
  <2> QED
    BY <1>1, <1>3, <1>16, <1>17, <1>18, <1>19, <1>20, CompactedRefines
<1>22. Abstract!Send(c, w)
  BY <1>2, <1>6, <1>8, <1>9, <1>10, <1>13, <1>21
     DEF Abstract!Send, Abstract!Own, Abstract!Fresh, Own, Fresh, Bound
<1> QED
  BY <1>2, <1>13, <1>22

\* A window that opens is a step of Placement.
LEMMA OpenIsNext ==
    ASSUME NEW c \in Client, NEW m \in Mon, NEW X \in SUBSET Mapped(desk), Abstract!Open(c, m, X)
    PROVE  Abstract!Next
  BY DEF Abstract!Next

\* A new window, and the fullscreen windows that make way for it.
LEMMA OpenedRefines ==
    ASSUME Sound(desk), Uncol(desk), NEW c \in Client, Opened(desk, desk', c)
    PROVE  Abstract!Next
<1>1. PICK m, u : OpenedAt(desk, desk', c, m, u) /\ c \notin Mapped(desk)
  BY DEF Opened
<1>2. /\ m \in Mon /\ Arrived(desk, u, c, m) /\ Cleared(u, desk', c)
      /\ Sound(u) /\ Mapped(u) = Mapped(desk) \cup {c}
      /\ \A x \in Client \ {c} : Alike(desk, u, x)
      /\ SameLists(desk, u)
  BY <1>1, ArrivedSound DEF OpenedAt, Arrived
<1>3. /\ SameLists(u, desk') /\ Mapped(desk') = Mapped(desk) \cup {c} /\ desk' \in Desk
      /\ \A x \in Client : Alike(u, desk', x) \/ Lowered(u, desk', c, x)
  BY <1>2 DEF Cleared, Mapped, Base
<1>20. PICK X : X = {x \in Mapped(desk) : x # c /\ Lowered(u, desk', c, x)}
  OBVIOUS
<1> DEFINE f == desk'.full[c]
           g == desk'.float[c]
           tile == desk'.col[c] # NoWs
           w == desk.active[m]
<1>4. desk.active[m] = u.active[m] /\ w # NoWs
  BY <1>2, ActiveOf DEF SameLists, Sound
<1>5. Alike(u, desk', c)
  BY <1>3 DEF Lowered, MakesWay
<1>6. ASSUME NEW x \in X
      PROVE  /\ x \in Client /\ x # c /\ desk.full[x] /\ ~ desk'.full[x] /\ desk.mon[x] = m
             /\ desk.fs_ws[x] = w /\ desk.col[x] = NoWs /\ desk'.mon[x] = desk.mon[x]
             /\ desk'.float[x] = desk.float[x] /\ desk'.fs_ws[x] = NoWs
             /\ desk'.col[x] = IF desk.float[x] THEN desk.col[x] ELSE w
  <2>1. x \in Client /\ x # c /\ x \in Mapped(desk) /\ Lowered(u, desk', c, x)
    BY <1>6, <1>20, MappedOf DEF Sound
  <2>2. Alike(desk, u, x)
    BY <1>2, <2>1
  <2>3. /\ u.full[x] /\ u.mon[x] = u.mon[c] /\ u.fs_ws[x] \in {NoWs, u.active[u.mon[x]]}
        /\ desk'.mon[x] = u.mon[x] /\ desk'.float[x] = u.float[x] /\ ~ desk'.full[x]
        /\ desk'.fs_ws[x] = NoWs
    BY <2>1 DEF Lowered, MakesWay
  <2>4. u.mon[c] = m
    BY <1>2 DEF Arrived
  <2>5. u.fs_ws[x] # NoWs
    BY <1>2, <2>1, <2>3, WindowOf
  <2>6. desk'.col[x] = IF u.float[x] THEN u.col[x] ELSE u.fs_ws[x]
    BY <1>2, <2>1, SoundCleared
  <2>7. desk.col[x] = NoWs
    BY <2>1, <2>2, <2>3 DEF Uncol, Alike
  <2> QED
    BY <1>4, <2>1, <2>2, <2>3, <2>4, <2>5, <2>6, <2>7 DEF Alike
<1>7. ASSUME NEW x \in Client, x # c, x \notin X PROVE Alike(desk, desk', x)
  <2>1. Alike(desk, u, x)
    BY <1>2, <1>7
  <2>2. Alike(u, desk', x)
    BY <1>2, <1>3, <1>7, <1>20 DEF Lowered
  <2> QED
    BY <2>1, <2>2 DEF Alike
<1>8. /\ desk'.mon[c] = m /\ desk'.col[c] = IF tile THEN w ELSE NoWs
      /\ f => ~ tile /\ desk'.fs_ws[c] = w
      /\ ~ f => desk'.fs_ws[c] = NoWs
      /\ ~ f /\ ~ g => tile
      /\ f \in BOOLEAN /\ g \in BOOLEAN /\ tile \in BOOLEAN
  <2>1. /\ desk'.mon[c] = m /\ desk'.col[c] \in {NoWs, w}
        /\ f => desk'.col[c] = NoWs /\ desk'.fs_ws[c] = w
        /\ ~ f => desk'.fs_ws[c] = NoWs
        /\ ~ f /\ ~ g => desk'.col[c] = w
    BY <1>2, <1>5 DEF Arrived, Alike
  <2>2. f \in BOOLEAN /\ g \in BOOLEAN
    BY <1>3, DeskTyped
  <2> QED
    BY <1>4, <2>1, <2>2
<1>9. X \in SUBSET Mapped(desk)
  BY <1>20
<1>10. /\ desk'.full \in [Client -> BOOLEAN] /\ desk'.float \in [Client -> BOOLEAN]
       /\ desk.full \in [Client -> BOOLEAN] /\ desk.float \in [Client -> BOOLEAN]
  BY <1>3, DeskTyped DEF Sound, Base
<1>11. desk'.full = [x \in Client |-> IF x = c THEN f ELSE desk.full[x] /\ x \notin X]
  <2>1. ASSUME NEW x \in Client
        PROVE  desk'.full[x] = IF x = c THEN f ELSE desk.full[x] /\ x \notin X
    <3>1. x # c /\ x \in X => ~ desk'.full[x]
      BY <1>6
    <3>2. x # c /\ x \notin X => desk'.full[x] = desk.full[x]
      BY <1>7 DEF Alike
    <3> QED
      BY <1>10, <3>1, <3>2
  <2> QED
    BY <1>10, <2>1
<1>12. desk'.float = [desk.float EXCEPT ![c] = g]
  <2>1. ASSUME NEW x \in Client, x # c PROVE desk'.float[x] = desk.float[x]
    BY <1>6, <1>7, <2>1 DEF Alike
  <2> QED
    BY <1>10, <2>1
<1>13. desk'.mon = [desk.mon EXCEPT ![c] = m]
  <2>1. ASSUME NEW x \in Client, x # c PROVE desk'.mon[x] = desk.mon[x]
    BY <1>6, <1>7, <2>1 DEF Alike
  <2>2. desk'.mon \in [Client -> Mon \cup {NoMon}] /\ desk.mon \in [Client -> Mon \cup {NoMon}]
    BY <1>3, DeskTyped DEF Sound, Base
  <2> QED
    BY <1>8, <2>1, <2>2
<1>14. desk'.col = [x \in Client |->
                      IF x = c THEN IF tile THEN w ELSE NoWs
                      ELSE IF x \in X /\ ~ desk.float[x] THEN w ELSE desk.col[x]]
  <2>1. ASSUME NEW x \in Client
        PROVE  desk'.col[x] = IF x = c THEN IF tile THEN w ELSE NoWs
                              ELSE IF x \in X /\ ~ desk.float[x] THEN w ELSE desk.col[x]
    <3>1. x # c /\ x \in X => desk'.col[x] = IF desk.float[x] THEN desk.col[x] ELSE w
      BY <1>6
    <3>2. x # c /\ x \notin X => desk'.col[x] = desk.col[x]
      BY <1>7 DEF Alike
    <3> QED
      BY <1>8, <3>1, <3>2
  <2>2. desk'.col \in [Client -> Ws \cup {NoWs}]
    BY <1>3, DeskTyped
  <2> HIDE DEF tile, w
  <2> QED
    BY <2>1, <2>2
<1>15. Bound(desk') = [x \in Client |->
                         IF x = c THEN IF f THEN w ELSE NoWs
                         ELSE IF x \in X THEN NoWs ELSE Bound(desk)[x]]
  <2>1. ASSUME NEW x \in Client
        PROVE  (IF x \in Mapped(desk') THEN desk'.fs_ws[x] ELSE NoWs) =
                  IF x = c THEN IF f THEN w ELSE NoWs
                  ELSE IF x \in X THEN NoWs ELSE Bound(desk)[x]
    <3>1. x = c => x \in Mapped(desk') /\ desk'.fs_ws[x] = IF f THEN w ELSE NoWs
      BY <1>3, <1>8
    <3>2. x # c /\ x \in X => desk'.fs_ws[x] = NoWs
      BY <1>6
    <3>3. x # c /\ x \notin X => desk'.fs_ws[x] = desk.fs_ws[x]
      BY <1>7 DEF Alike
    <3>4. x # c => (x \in Mapped(desk') <=> x \in Mapped(desk))
      BY <1>3
    <3>5. Bound(desk)[x] = IF x \in Mapped(desk) THEN desk.fs_ws[x] ELSE NoWs
      BY DEF Bound
    <3> QED
      BY <3>1, <3>2, <3>3, <3>4, <3>5
  <2> HIDE DEF f, w
  <2> QED
    BY <2>1 DEF Bound
<1>16. X \subseteq {x \in Mapped(desk) : desk.full[x] /\ desk.mon[x] = m /\ Bound(desk)[x] = w}
  <2>1. ASSUME NEW x \in X
        PROVE  x \in Mapped(desk) /\ desk.full[x] /\ desk.mon[x] = m /\ Bound(desk)[x] = w
    BY <1>6, <1>9 DEF Bound
  <2> QED
    BY <2>1
<1>17. desk'.owner = desk.owner /\ desk'.active = desk.active /\ desk'.prev = desk.prev
  BY <1>2, <1>3 DEF SameLists
<1>18. Abstract!Open(c, m, X)
  <2>1. /\ f \in BOOLEAN /\ g \in BOOLEAN /\ tile \in BOOLEAN
        /\ f => ~ tile
        /\ ~ f /\ ~ g => tile
    BY <1>8
  <2>2. w = desk.active[m]
    OBVIOUS
  <2> HIDE DEF f, g, tile, w
  <2> QED
    BY <1>1, <1>3, <1>11, <1>12, <1>13, <1>14, <1>15, <1>16, <1>17, <2>1, <2>2
       DEF Abstract!Open, Abstract!lists, Bound
<1>19. m \in Mon
  BY <1>2
<1> HIDE DEF f, g, tile, w
<1> QED
  BY <1>9, <1>18, <1>19, OpenIsNext

\* The start of the desk is a start of Placement.
LEMMA InitRefines ==
    ASSUME Init
    PROVE  Abstract!Init
<1>1. PICK first : InitialDesk(first)
  BY InitDoes
<1>2. Mapped(desk) = {}
  BY <1>1, EmptyLists DEF InitialDesk, Mapped, Lists
<1>3. /\ first \in [Mon -> Ws] /\ \A m, n \in Mon : first[m] = first[n] => m = n
      /\ desk.active = first /\ desk.owner \in [Ws -> Mon \cup {NoMon}]
      /\ \A w \in Ws, m \in Mon : desk.owner[w] = m <=> first[m] = w
  BY <1>1 DEF InitialDesk
<1>4. /\ desk.prev = [m \in Mon |-> NoWs] /\ desk.mon = [c \in Client |-> NoMon]
      /\ desk.col = [c \in Client |-> NoWs] /\ desk.full = [c \in Client |-> FALSE]
      /\ desk.float = [c \in Client |-> FALSE]
  BY <1>1 DEF InitialDesk
<1>5. Bound(desk) = [c \in Client |-> NoWs]
  BY <1>2 DEF Bound
<1> QED
  BY <1>2, <1>3, <1>4, <1>5 DEF Abstract!Init, Bound

\* Every handler is a step of Placement, or one it does not see.
LEMMA NextRefines ==
    ASSUME DeskInv(desk), [Next]_vars
    PROVE  [Abstract!Next]_(Abstract!vars)
<1>1. Sound(desk) /\ Uncol(desk)
  BY DEF DeskInv
<1>2. ASSUME Unseen(desk, desk') PROVE UNCHANGED Abstract!vars
  BY <1>2, UnseenStutters
<1>3. ASSUME NEW c \in Client, NEW w \in Ws,
             \/ Abstract!Prepare(c) \/ Abstract!Close(c) \/ Abstract!EnterFullscreen(c)
             \/ Abstract!LeaveFullscreen(c) \/ Abstract!ToggleFloating(c) \/ Abstract!Send(c, w)
      PROVE  Abstract!Next
  BY <1>3 DEF Abstract!Next
<1>4. ASSUME NEW c \in Client, NEW m \in Mon, Abstract!SendToMon(c, m)
      PROVE  Abstract!Next
  BY <1>4 DEF Abstract!Next
<1>6. ASSUME NEW m \in Mon, NEW w \in Ws, Abstract!Visit(m, w) PROVE Abstract!Next
  BY <1>6 DEF Abstract!Next
<1>7. \E w : w \in Ws
  BY <1>1, CountAssumption, ActiveOf DEF Mon, Sound
<1>8. CASE UNCHANGED vars
  <2>1. desk' = desk
    BY <1>8 DEF vars
  <2>2. Unseen(desk, desk')
    BY <2>1 DEF Unseen
  <2> QED
    BY <1>2, <2>2
<1>9. CASE Undisturbed
  <2>1. Effect(desk, desk')
    BY <1>1, <1>9, UndisturbedDoes
  <2>2. Shuffled(desk, desk') => Unseen(desk, desk')
    BY QuietUnseen DEF Shuffled
  <2>3. ASSUME NEW c \in Client, Prepared(desk, desk', c) PROVE Abstract!Next
    BY <1>1, <1>3, <1>7, <2>3, PreparedRefines
  <2>4. ASSUME NEW c \in Client, Opened(desk, desk', c) PROVE Abstract!Next
    BY <1>1, <2>4, OpenedRefines
  <2>5. ASSUME NEW c, NEW on, Fulled(desk, desk', c, on)
        PROVE  Unseen(desk, desk') \/ Abstract!Next
    BY <1>1, <1>3, <1>7, <2>5, FulledRefines
  <2>6. ASSUME NEW c, NEW on, Floated(desk, desk', c, on), ~ desk.full[c]
        PROVE  Unseen(desk, desk') \/ Abstract!Next
    BY <1>1, <1>3, <1>7, <2>6, FloatedRefines
  <2>7. ASSUME NEW c, NEW m, SentTo(desk, desk', c, m) PROVE Abstract!Next
    BY <1>1, <1>4, <2>7, SentToRefines
  <2>8. ASSUME NEW m, NEW w, Visited(desk, desk', m, w)
        PROVE  Unseen(desk, desk') \/ Abstract!Next
    BY <1>1, <1>6, <2>8, VisitedRefines
  <2>9. ASSUME NEW c, NEW w, Sent(desk, desk', c, w) PROVE Abstract!Next
    BY <1>1, <1>3, <2>9, SentRefines
  <2>10. Unseen(desk, desk') \/ Abstract!Next
    BY <2>1, <2>2, <2>3, <2>4, <2>5, <2>6, <2>7, <2>8, <2>9 DEF Effect, Unmoved, Quiet
  <2> QED
    BY <1>2, <2>10
<1>10. ASSUME NEW c \in Client, Unmap(c) PROVE Abstract!Next
  BY <1>1, <1>3, <1>7, <1>10, UnmapDoes, ClosedRefines
<1> QED
  BY <1>8, <1>9, <1>10 DEF Next

\* Whatever the handlers do to rows, numbers and focus, where windows are and which
\* workspaces exist changes as Placement says.
THEOREM DeskIsPlacement == Spec => ImplementsPlacement
<1>1. Init => Abstract!Init
  BY InitRefines
<1>2. DeskInv(desk) /\ [Next]_vars => [Abstract!Next]_(Abstract!vars)
  BY NextRefines
<1> QED
  BY <1>1, <1>2, DeskSafe, PTL DEF Spec, ImplementsPlacement, Abstract!Spec

-----------------------------------------------------------------------------
(* The two loops of monitor_compact_workspaces. *)

\* Ranks are ordered like the numbers they come from.
LEMMA RankOrder ==
    ASSUME NEW K, IsFiniteSet(K), NEW f, \A x \in K : f[x] \in Int,
           \A x, y \in K : f[x] = f[y] => x = y, NEW v \in K, NEW w \in K
    PROVE  /\ Rank(K, f, v) \in 0..Cardinality(K)
           /\ Rank(K, f, v) < Rank(K, f, w) <=> f[v] < f[w]
           /\ Rank(K, f, v) <= Rank(K, f, w) <=> f[v] <= f[w]
<1>1. Rank(K, f, v) \in 0..Cardinality(K)
  <2>1. Below(K, f, v) \in SUBSET K
    BY DEF Below
  <2>2. IsFiniteSet(Below(K, f, v)) /\ Cardinality(Below(K, f, v)) <= Cardinality(K)
    BY <2>1, FS_Subset
  <2> QED
    BY <2>2, FS_CardinalityType DEF Rank
<1>2. f[v] \in Int /\ f[w] \in Int /\ (f[v] = f[w] => v = w)
  OBVIOUS
<1>3. CASE f[v] < f[w]
  <2>1. /\ Rank(K, f, v) \in Nat /\ Rank(K, f, w) \in Nat
        /\ Rank(K, f, v) < Rank(K, f, w)
    BY <1>3, RankGrows
  <2> QED
    BY <1>1, <1>2, <1>3, <2>1
<1>4. CASE f[w] < f[v]
  <2>1. /\ Rank(K, f, w) \in Nat /\ Rank(K, f, v) \in Nat
        /\ Rank(K, f, w) < Rank(K, f, v)
    BY <1>4, RankGrows
  <2> QED
    BY <1>1, <1>2, <1>4, <2>1
<1>5. CASE v = w
  BY <1>1, <1>2, <1>5
<1> QED
  BY <1>1, <1>2, <1>3, <1>4, <1>5

\* Taking w out lowers the ranks above it by one.
LEMMA RankWithout ==
    ASSUME NEW K, IsFiniteSet(K), NEW f, NEW w \in K, NEW v \in K \ {w}
    PROVE  /\ Rank(K, f, v) \in Nat
           /\ Rank(K \ {w}, f, v) = IF f[w] < f[v] THEN Rank(K, f, v) - 1 ELSE Rank(K, f, v)
<1> DEFINE B == Below(K, f, v)
<1>1. Below(K \ {w}, f, v) = B \ {w} /\ B \in SUBSET K
  BY DEF Below
<1>2. IsFiniteSet(B) /\ Cardinality(B) \in Nat
  BY <1>1, FS_Subset, FS_CardinalityType
<1>3. w \in B <=> f[w] < f[v]
  BY DEF Below
<1> HIDE DEF B
<1>4. CASE w \in B
  <2>1. Cardinality(B \ {w}) = Cardinality(B) - 1
    BY <1>2, <1>4, FS_RemoveElement
  <2> QED
    BY <1>1, <1>2, <1>3, <1>4, <2>1 DEF Rank, B
<1>5. CASE w \notin B
  <2>1. B \ {w} = B
    BY <1>5
  <2> QED
    BY <1>1, <1>2, <1>3, <1>5, <2>1 DEF Rank, B
<1> QED
  BY <1>4, <1>5

\* t is s once its monitor has freed the workspaces D and renumbered the others.
Freed(s, t, D) ==
    /\ Shaped(t) /\ SameWindows(s, t) /\ t.lit = s.lit /\ t.kb = s.kb
    /\ t.selmon = s.selmon /\ t.fstack = s.fstack
    /\ t.row = s.row /\ t.focused = s.focused
    /\ t.owner = [w \in Ws |-> IF w \in D THEN NoMon ELSE s.owner[w]]
    /\ t.active = [s.active EXCEPT ![M] = t.active[M]]
    /\ t.prev = [s.prev EXCEPT ![M] = IF s.prev[M] \in D THEN NoWs ELSE s.prev[M]]
    /\ t.idx = [w \in Ws |-> IF w \in Own(s, M) \ D THEN Rank(Own(s, M) \ D, s.idx, w)
                             ELSE IF w \in D THEN 0 ELSE s.idx[w]]
    /\ t.next = [s.next EXCEPT ![M] = Cardinality(Own(s, M) \ D)]

\* What it shows then: what it did, or what came next above a gap, or the last.
Views(s, D, a) ==
    LET was == s.active[M]
        kept == Own(s, M) \ D IN
    /\ a \in kept
    /\ was \notin D => a = was
    /\ was \in D \cap Gaps(s, M) =>
         /\ s.idx[was] < s.idx[a]
         /\ \A v \in kept : s.idx[was] < s.idx[v] => s.idx[a] <= s.idx[v]
    /\ was \in D \ Gaps(s, M) => \A v \in kept : s.idx[v] <= s.idx[a]

\* How far the second loop has come: the gaps are gone, and what else is comes from the
\* end of the list.
Trimmed(s, D) ==
    /\ Gaps(s, M) \in SUBSET D /\ D \in SUBSET Dead(s, M)
    /\ \A v \in Own(s, M) \ D, w \in D \ Gaps(s, M) : s.idx[v] < s.idx[w]

\* The same for both.
Reached(s, D, at) ==
    \/ at = "gaps" /\ D \in SUBSET Gaps(s, M)
    \/ at = "trim" /\ Trimmed(s, D)
    \/ at = "done" /\ D = Dead(s, M)

\* The list of a sound desk.
LEMMA ListRead ==
    ASSUME NEW s, Sound(s)
    PROVE  /\ M \in Mon /\ M # NoMon /\ IsFiniteSet(Own(s, M))
           /\ s.next[M] = Cardinality(Own(s, M))
           /\ s.active[M] \in Own(s, M) /\ s.prev[M] \in Own(s, M) \cup {NoWs}
           /\ \A w \in Own(s, M) : w \in Ws /\ w # NoWs /\ s.idx[w] \in Nat
           /\ \A w \in Own(s, M) : s.idx[w] = Rank(Own(s, M), s.idx, w)
           /\ \A v, w \in Own(s, M) : s.idx[v] = s.idx[w] => v = w
<1>1. M \in Mon /\ M # NoMon
  BY CountAssumption DEF M, Mon, NoMon
<1>2. Counted(s) /\ s.active[M] \in Own(s, M) /\ s.prev[M] \in Own(s, M) \cup {NoWs}
  BY <1>1 DEF Sound, Base, Shows
<1>3. \A w \in Own(s, M) : w \in Ws /\ w # NoWs
  BY NullAssumption DEF Own
<1> QED
  BY <1>1, <1>2, <1>3, OwnNumbered

\* What the loops read of a desk that has given up D is as it was in s.
LEMMA FreedRead ==
    ASSUME NEW s, Sound(s), NEW D \in SUBSET Dead(s, M), NEW t, Freed(s, t, D)
    PROVE  /\ Own(t, M) = Own(s, M) \ D
           /\ \A w \in Own(s, M) : Occupied(t, w) <=> Occupied(s, w)
           /\ \A w \in Own(t, M) : t.idx[w] \in 0..Cardinality(Own(t, M))
           /\ \A v, w \in Own(t, M) : /\ t.idx[v] < t.idx[w] <=> s.idx[v] < s.idx[w]
                                      /\ t.idx[v] <= t.idx[w] <=> s.idx[v] <= s.idx[w]
<1> DEFINE K == Own(s, M) \ D
<1>1. Own(t, M) = K
  <2>1. t.owner = [w \in Ws |-> IF w \in D THEN NoMon ELSE s.owner[w]] /\ M # NoMon
    BY ListRead DEF Freed
  <2> QED
    BY <2>1 DEF Own
<1>2. \A w \in Own(s, M) : Occupied(t, w) <=> Occupied(s, w)
  BY DEF Freed, SameWindows, SamePlaces, SameKinds, Occupied, Mapped
<1>3. /\ IsFiniteSet(K) /\ \A w \in K : w \in Ws /\ s.idx[w] \in Int
      /\ \A v, w \in K : s.idx[v] = s.idx[w] => v = w
  BY ListRead, FS_Subset
<1>4. \A w \in K : t.idx[w] = Rank(K, s.idx, w)
  BY <1>3 DEF Freed
<1> HIDE DEF K
<1>5. ASSUME NEW v \in K, NEW w \in K
      PROVE  /\ t.idx[v] \in 0..Cardinality(K)
             /\ t.idx[v] < t.idx[w] <=> s.idx[v] < s.idx[w]
             /\ t.idx[v] <= t.idx[w] <=> s.idx[v] <= s.idx[w]
  BY <1>3, <1>4, RankOrder
<1> QED
  BY <1>1, <1>2, <1>5 DEF K

\* t with w freed, the workspaces above it renumbered and a shown.
Freeing(t, w, a, above) ==
    [Destroy([t EXCEPT !.active[M] = a], {w}) EXCEPT
       !.idx = [v \in Ws |-> IF v \in above THEN t.idx[v] - 1 ELSE @[v]],
       !.next[M] = IF @ > 0 THEN @ - 1 ELSE @]

\* One more workspace is freed: w, of those no window is on, while the monitor shows
\* another one.
LEMMA FreeOne ==
    ASSUME NEW s, Sound(s), NEW D \in SUBSET Dead(s, M), NEW t, Freed(s, t, D),
           NEW w \in Dead(s, M) \ D, NEW a \in Own(s, M) \ (D \cup {w}),
           NEW above, above = {v \in Own(t, M) : t.idx[v] > t.idx[w]},
           NEW x, x = Freeing(t, w, a, above)
    PROVE  Freed(s, x, D \cup {w}) /\ x.active[M] = a
<1> DEFINE O == Own(s, M)
           K == O \ D
           E == D \cup {w}
           u == [t EXCEPT !.active[M] = a]
           e == Destroy(u, {w})
<1>1. /\ M \in Mon /\ M # NoMon /\ IsFiniteSet(O) /\ w \in O /\ D \in SUBSET O /\ w \in Ws
      /\ s.prev[M] \in O \cup {NoWs} /\ w # NoWs
      /\ s \in Desk
  BY ListRead, DeadUnused DEF Sound, Base, Shows
<1>2. /\ s.row[w] = <<>> /\ s.focused[w] = NoClient
      /\ \A c \in Client : s.col[c] # w
      /\ \A c \in Mapped(s) : s.fs_ws[c] # w
  BY <1>1, DeadUnused
<1>3. Own(t, M) = K /\ IsFiniteSet(K) /\ Cardinality(K) \in Nat /\ w \in K
      /\ K \ {w} = O \ E
  BY <1>1, FreedRead, FS_Subset, FS_CardinalityType
<1>4. /\ Shaped(t) /\ t.lit = s.lit /\ t.kb = s.kb /\ t.selmon = s.selmon
      /\ t.fstack = s.fstack /\ t.row = s.row /\ t.focused = s.focused
      /\ t.mon = s.mon /\ t.col = s.col /\ t.fs_ws = s.fs_ws
      /\ t.clients = s.clients /\ t.full = s.full /\ t.float = s.float
      /\ t.owner = [v \in Ws |-> IF v \in D THEN NoMon ELSE s.owner[v]]
      /\ t.active = [s.active EXCEPT ![M] = t.active[M]]
      /\ t.prev = [s.prev EXCEPT ![M] = IF s.prev[M] \in D THEN NoWs ELSE s.prev[M]]
      /\ t.idx = [v \in Ws |-> IF v \in K THEN Rank(K, s.idx, v)
                               ELSE IF v \in D THEN 0 ELSE s.idx[v]]
      /\ t.next = [s.next EXCEPT ![M] = Cardinality(K)]
  BY DEF Freed, SameWindows, SamePlaces, SameKinds
<1>5. /\ s.row \in [Ws -> Seq(Client)] /\ s.focused \in [Ws -> Client \cup {NoClient}]
      /\ s.col \in [Client -> Ws \cup {NoWs}] /\ s.fs_ws \in [Client -> Ws \cup {NoWs}]
      /\ s.active \in [Mon -> Ws \cup {NoWs}] /\ s.prev \in [Mon -> Ws \cup {NoWs}]
      /\ s.next \in [Mon -> Int] /\ s.idx \in [Ws -> Int]
      /\ s.owner \in [Ws -> Mon \cup {NoMon}]
  BY <1>1, DeskTyped
<1> DEFINE r == [e EXCEPT !.idx = [v \in Ws |-> IF v \in above THEN t.idx[v] - 1 ELSE @[v]],
                          !.next[M] = IF @ > 0 THEN @ - 1 ELSE @]
<1>0. x = r
  BY DEF Freeing
<1> HIDE DEF K, E, O, u, e
<1>6. /\ Shaped(u) /\ u.active = [s.active EXCEPT ![M] = a]
      /\ u.owner = t.owner /\ u.idx = t.idx /\ u.next = t.next /\ u.prev = t.prev
      /\ u.lit = s.lit /\ u.row = s.row /\ u.focused = s.focused /\ u.col = s.col
      /\ u.fs_ws = s.fs_ws /\ u.mon = s.mon /\ u.full = s.full /\ u.float = s.float
      /\ u.clients = s.clients /\ u.fstack = s.fstack /\ u.kb = s.kb /\ u.selmon = s.selmon
  <2>1. /\ u.owner = t.owner /\ u.idx = t.idx /\ u.next = t.next /\ u.prev = t.prev
        /\ u.lit = t.lit /\ u.row = t.row /\ u.focused = t.focused /\ u.col = t.col
        /\ u.fs_ws = t.fs_ws /\ u.mon = t.mon /\ u.full = t.full /\ u.float = t.float
        /\ u.clients = t.clients /\ u.fstack = t.fstack /\ u.kb = t.kb /\ u.selmon = t.selmon
        /\ u.active = [t.active EXCEPT ![M] = a] /\ Shaped(u)
    BY <1>4 DEF u, Shaped, Fields
  <2>2. [t.active EXCEPT ![M] = a] = [s.active EXCEPT ![M] = a]
    BY <1>1, <1>4, <1>5
  <2> QED
    BY <1>4, <2>1, <2>2
<1>u. Shaped(u)
  BY <1>6
<1>e. Shaped(e)
  BY <1>u, DestroyShaped DEF e
<1>7. /\ e.next = u.next /\ e.lit = u.lit /\ e.mon = u.mon /\ e.full = u.full
      /\ e.float = u.float /\ e.clients = u.clients /\ e.fstack = u.fstack /\ e.kb = u.kb
      /\ e.selmon = u.selmon
  BY <1>u DEF e, Destroy, Shaped, Fields
<1>7a. /\ e.owner = [v \in Ws |-> IF v \in {w} THEN NoMon ELSE u.owner[v]]
       /\ e.idx = [v \in Ws |-> IF v \in {w} THEN 0 ELSE u.idx[v]]
  BY <1>u DEF e, Destroy, Shaped, Fields
<1>7b. /\ e.row = [v \in Ws |-> IF v \in {w} THEN <<>> ELSE u.row[v]]
       /\ e.focused = [v \in Ws |-> IF v \in {w} THEN NoClient ELSE u.focused[v]]
  BY <1>u DEF e, Destroy, Shaped, Fields
<1>7c. /\ e.col = [c \in Client |-> IF u.col[c] \in {w} THEN NoWs ELSE u.col[c]]
       /\ e.fs_ws = [c \in Client |-> IF u.fs_ws[c] \in {w} /\ c \in Mapped(u) THEN NoWs
                                      ELSE u.fs_ws[c]]
  BY <1>u DEF e, Destroy, Shaped, Fields
<1>7d. /\ e.active = [p \in Mon |-> IF u.active[p] \in {w} \cap Own(u, p) THEN NoWs
                                    ELSE u.active[p]]
       /\ e.prev = [p \in Mon |-> IF u.prev[p] \in {w} \cap Own(u, p) THEN NoWs ELSE u.prev[p]]
  BY <1>u DEF e, Destroy, Shaped, Fields
<1>8. /\ Shaped(x) /\ x.lit = e.lit /\ x.mon = e.mon /\ x.full = e.full /\ x.prev = e.prev
      /\ x.float = e.float /\ x.clients = e.clients /\ x.fstack = e.fstack /\ x.kb = e.kb
      /\ x.selmon = e.selmon /\ x.owner = e.owner /\ x.row = e.row
      /\ x.focused = e.focused /\ x.col = e.col /\ x.fs_ws = e.fs_ws
      /\ x.active = e.active
  BY <1>0, <1>e DEF Shaped, Fields
<1>8a. /\ x.idx = [v \in Ws |-> IF v \in above THEN t.idx[v] - 1 ELSE e.idx[v]]
       /\ x.next = [e.next EXCEPT ![M] = IF @ > 0 THEN @ - 1 ELSE @]
  BY <1>0, <1>e DEF Shaped, Fields
<1>9. x.row = s.row /\ x.focused = s.focused
  <2>1. u.row = s.row /\ u.focused = s.focused
    BY <1>6
  <2>2. x.row = [v \in Ws |-> IF v \in {w} THEN <<>> ELSE s.row[v]]
    BY <1>7b, <1>8, <2>1
  <2>3. x.focused = [v \in Ws |-> IF v \in {w} THEN NoClient ELSE s.focused[v]]
    BY <1>7b, <1>8, <2>1
  <2>4. x.row = s.row
    BY <1>2, <1>5, <2>2
  <2>5. x.focused = s.focused
    BY <1>2, <1>5, <2>3
  <2> QED
    BY <2>4, <2>5
<1>10. x.col = s.col /\ x.fs_ws = s.fs_ws
  <2>1. Mapped(u) = Mapped(s)
    BY <1>6 DEF Mapped
  <2>2. \A c \in Client : (IF u.col[c] \in {w} THEN NoWs ELSE u.col[c]) = s.col[c]
    BY <1>2, <1>6
  <2>3. \A c \in Client : (IF u.fs_ws[c] \in {w} /\ c \in Mapped(u) THEN NoWs
                          ELSE u.fs_ws[c]) = s.fs_ws[c]
    BY <1>2, <1>6, <2>1
  <2>4. /\ x.col = [c \in Client |-> IF u.col[c] \in {w} THEN NoWs ELSE u.col[c]]
        /\ x.fs_ws = [c \in Client |-> IF u.fs_ws[c] \in {w} /\ c \in Mapped(u) THEN NoWs
                                       ELSE u.fs_ws[c]]
    BY <1>7c, <1>8
  <2>5. x.col = [c \in Client |-> s.col[c]]
    BY <2>2, <2>4
  <2>6. x.fs_ws = [c \in Client |-> s.fs_ws[c]]
    BY <2>3, <2>4
  <2> QED
    BY <1>5, <2>5, <2>6
<1>11. x.owner = [v \in Ws |-> IF v \in E THEN NoMon ELSE s.owner[v]]
  <2>1. \A v \in Ws : (IF v \in {w} THEN NoMon ELSE t.owner[v])
                      = IF v \in E THEN NoMon ELSE s.owner[v]
    BY <1>4 DEF E
  <2>2. x.owner = [v \in Ws |-> IF v \in {w} THEN NoMon ELSE t.owner[v]]
    BY <1>6, <1>7a, <1>8
  <2> QED
    BY <2>1, <2>2
<1>12. ASSUME NEW p \in Mon PROVE w \in Own(u, p) <=> p = M
  <2>1. u.owner[w] = s.owner[w] /\ s.owner[w] = M
    BY <1>1, <1>3, <1>4, <1>6 DEF K, O, Own
  <2> QED
    BY <1>1, <2>1 DEF Own
<1>13. a # w /\ \A p \in Mon \ {M} : s.active[p] # w /\ s.prev[p] # w
  <2>1. \A p \in Mon \ {M} : s.active[p] \in Own(s, p) /\ s.prev[p] \in Own(s, p) \cup {NoWs}
    BY DEF Sound, Base, Shows
  <2>2. s.owner[w] = M
    BY <1>1 DEF O, Own
  <2> QED
    BY <1>1, <2>1, <2>2 DEF Own
<1>14. x.active = [s.active EXCEPT ![M] = a] /\ x.active[M] = a
  <2>1. u.active = [s.active EXCEPT ![M] = a]
    BY <1>6
  <2>2. \A p \in Mon : u.active[p] # w
    BY <1>1, <1>5, <1>13, <2>1
  <2>3. x.active = [p \in Mon |-> u.active[p]]
    <3>1. x.active = [p \in Mon |-> IF u.active[p] \in {w} \cap Own(u, p) THEN NoWs
                                    ELSE u.active[p]]
      BY <1>7d, <1>8
    <3> QED
      BY <2>2, <3>1
  <2>4. M \in Mon /\ DOMAIN s.active = Mon
    BY <1>1, <1>5
  <2> QED
    BY <2>1, <2>3, <2>4
<1>15. x.prev = [s.prev EXCEPT ![M] = IF s.prev[M] \in E THEN NoWs ELSE s.prev[M]]
  <2>1. \A p \in Mon : u.prev[p] = IF p = M /\ s.prev[M] \in D THEN NoWs ELSE s.prev[p]
    BY <1>1, <1>4, <1>5, <1>6
  <2>2. \A p \in Mon : x.prev[p] = IF p = M /\ s.prev[M] \in E THEN NoWs ELSE s.prev[p]
    <3> TAKE p \in Mon
    <3>1. x.prev[p] = IF p = M /\ u.prev[p] = w THEN NoWs ELSE u.prev[p]
      <4>1. x.prev = [q \in Mon |-> IF u.prev[q] \in {w} \cap Own(u, q) THEN NoWs
                                    ELSE u.prev[q]]
        BY <1>7d, <1>8
      <4>2. u.prev[p] \in {w} \cap Own(u, p) <=> p = M /\ u.prev[p] = w
        BY <1>12
      <4> QED
        BY <4>1, <4>2
    <3> QED
      BY <1>1, <2>1, <3>1 DEF E
  <2>3. x.prev = [p \in Mon |-> IF u.prev[p] \in {w} \cap Own(u, p) THEN NoWs ELSE u.prev[p]]
    BY <1>7d, <1>8
  <2>4. x.prev = [p \in Mon |-> IF p = M /\ s.prev[M] \in E THEN NoWs ELSE s.prev[p]]
    BY <2>2, <2>3
  <2> QED
    BY <1>1, <1>5, <2>4
<1>16. ASSUME NEW v \in Ws
       PROVE  x.idx[v] = IF v \in O \ E THEN Rank(O \ E, s.idx, v)
                         ELSE IF v \in E THEN 0 ELSE s.idx[v]
  <2>1. \A y \in K : s.idx[y] \in Int /\ t.idx[y] = Rank(K, s.idx, y) /\ y \in O
    BY <1>4, <1>5, ListRead DEF K, O
  <2>2. \A y \in K : y \in above <=> s.idx[w] < s.idx[y]
    <3>1. \A y \in K : t.idx[y] \in 0..Cardinality(K)
      BY <1>3, FreedRead
    <3>2. \A y \in K : t.idx[w] < t.idx[y] <=> s.idx[w] < s.idx[y]
      BY <1>3, FreedRead
    <3>3. \A y \in K : y \in above <=> t.idx[y] > t.idx[w]
      BY <1>3
    <3> QED
      BY <1>3, <3>1, <3>2, <3>3
  <2>3. CASE v \in K \ {w}
    <3>1. /\ Rank(K, s.idx, v) \in Nat
          /\ Rank(K \ {w}, s.idx, v) = IF s.idx[w] < s.idx[v] THEN Rank(K, s.idx, v) - 1
                                       ELSE Rank(K, s.idx, v)
      <4>1. IsFiniteSet(K) /\ w \in K /\ v \in K \ {w}
        BY <1>3, <2>3
      <4> QED
        BY <4>1, RankWithout
    <3>2. x.idx[v] = IF s.idx[w] < s.idx[v] THEN t.idx[v] - 1 ELSE t.idx[v]
      BY <1>3, <1>6, <1>7a, <1>8a, <2>2, <2>3
    <3> QED
      BY <1>3, <2>1, <2>3, <3>1, <3>2
  <2>4. CASE v = w
    <3>1. w \notin above
      BY <1>3, <2>1, <2>2
    <3>2. x.idx[v] = 0
      BY <1>7a, <1>8a, <2>4, <3>1
    <3> QED
      BY <1>3, <2>4, <3>2 DEF E
  <2>5. CASE v \notin K
    <3>1. x.idx[v] = t.idx[v]
      BY <1>3, <1>6, <1>7a, <1>8a, <2>5
    <3>2. v \notin O \ E /\ (v \in E <=> v \in D)
      BY <1>3, <2>5 DEF E, K
    <3> QED
      BY <1>4, <2>5, <3>1, <3>2
  <2> QED
    BY <2>3, <2>4, <2>5
<1>17. x.next = [s.next EXCEPT ![M] = Cardinality(O \ E)]
  <2>1. Cardinality(K \ {w}) = Cardinality(K) - 1 /\ Cardinality(K) > 0
    <3>1. Cardinality(K \ {w}) = Cardinality(K) - 1 /\ IsFiniteSet(K \ {w})
      BY <1>3, FS_RemoveElement
    <3> QED
      BY <1>3, <3>1, FS_CardinalityType
  <2>2. e.next = [s.next EXCEPT ![M] = Cardinality(K)]
    BY <1>4, <1>6, <1>7
  <2>3. e.next[M] = Cardinality(K)
    BY <1>1, <1>5, <2>2
  <2>4. x.next = [e.next EXCEPT ![M] = Cardinality(K) - 1]
    BY <1>8a, <2>1, <2>3
  <2>5. x.next = [s.next EXCEPT ![M] = Cardinality(K) - 1]
    BY <1>5, <2>2, <2>4
  <2> QED
    BY <1>3, <2>1, <2>5
<1>18. x.idx = [v \in Ws |-> IF v \in O \ E THEN Rank(O \ E, s.idx, v)
                             ELSE IF v \in E THEN 0 ELSE s.idx[v]]
  <2> DEFINE f(v) == IF v \in O \ E THEN Rank(O \ E, s.idx, v)
                     ELSE IF v \in E THEN 0 ELSE s.idx[v]
  <2>1. \A v \in Ws : x.idx[v] = f(v)
    BY <1>16
  <2> HIDE DEF f
  <2>2. x.idx = [v \in Ws |-> f(v)]
    BY <1>8a, <2>1
  <2> QED
    BY <2>2 DEF f
<1> QED
  BY <1>6, <1>7, <1>8, <1>9, <1>10, <1>11, <1>14, <1>15, <1>17, <1>18
     DEF Freed, E, O, SameWindows, SamePlaces, SameKinds

\* The gaps that are left are those of the list before the loops.
LEMMA GapsLeft ==
    ASSUME NEW s, Sound(s), NEW D \in SUBSET Gaps(s, M), NEW t, Freed(s, t, D),
           NEW w \in Own(t, M)
    PROVE  IsGap(t, w) <=> w \in Gaps(s, M)
<1>1. D \in SUBSET Dead(s, M) /\ \A v \in D : ~ Occupied(s, v)
  BY DEF Dead, Gaps
<1>2. /\ Own(t, M) = Own(s, M) \ D
      /\ \A v \in Own(s, M) : Occupied(t, v) <=> Occupied(s, v)
      /\ \A v \in Own(t, M) : t.idx[v] \in 0..Cardinality(Own(t, M))
      /\ \A v, x \in Own(t, M) : t.idx[v] < t.idx[x] <=> s.idx[v] < s.idx[x]
  BY <1>1, FreedRead
<1>3. IsFiniteSet(Own(t, M)) /\ Cardinality(Own(t, M)) \in Nat
  BY <1>2, ListRead, FS_Subset, FS_CardinalityType
<1>4. \A v \in Own(s, M) : s.idx[v] \in Nat
  BY ListRead
<1>5. \A v \in Own(t, M) : t.idx[v] > t.idx[w] <=> s.idx[v] > s.idx[w]
  BY <1>2, <1>3, <1>4
<1>6. HigherOccupied(t, w) = {v \in Own(s, M) : Occupied(s, v) /\ s.idx[v] > s.idx[w]}
  BY <1>1, <1>2, <1>5 DEF HigherOccupied
<1> QED
  BY <1>2, <1>6 DEF IsGap, Gaps

\* Closing a gap goes on with the others.
LEMMA GapClosed ==
    ASSUME Sound(before), NEW D \in SUBSET Gaps(before, M), Freed(before, desk, D),
           Views(before, D, desk.active[M]), CloseGap
    PROVE  \E w \in Gaps(before, M) : /\ Freed(before, desk', D \cup {w})
                                      /\ Views(before, D \cup {w}, desk'.active[M])
<1> DEFINE O == Own(before, M)
           K == O \ D
           b == desk.active[M]
           was == before.active[M]
<1>1. PICK w \in Own(desk, M) :
        /\ IsGap(desk, w)
        /\ LET above == {v \in Own(desk, M) : desk.idx[v] > desk.idx[w]}
               s == [desk EXCEPT !.active[M] = IF @ = w THEN Lowest(desk, above) ELSE @]
           IN  desk' = [Destroy(s, {w}) EXCEPT
                          !.idx = [v \in Ws |-> IF v \in above THEN desk.idx[v] - 1
                                                ELSE @[v]],
                          !.next[M] = IF @ > 0 THEN @ - 1 ELSE @]
  BY DEF CloseGap
<1> DEFINE above == {v \in Own(desk, M) : desk.idx[v] > desk.idx[w]}
           a == IF b = w THEN Lowest(desk, above) ELSE b
<1>2. /\ D \in SUBSET Dead(before, M) /\ w \in Gaps(before, M)
      /\ w \in Dead(before, M) \ D
  <2>1. D \in SUBSET Dead(before, M)
    BY DEF Dead
  <2>2. w \in Gaps(before, M)
    BY <1>1, GapsLeft
  <2>3. w \notin D
    BY <2>1, FreedRead
  <2> QED
    BY <2>1, <2>2, <2>3 DEF Dead
<1>3. /\ Own(desk, M) = K
      /\ \A v \in K : desk.idx[v] \in 0..Cardinality(K)
      /\ \A v, x \in K : /\ desk.idx[v] < desk.idx[x] <=> before.idx[v] < before.idx[x]
                         /\ desk.idx[v] <= desk.idx[x] <=> before.idx[v] <= before.idx[x]
  BY <1>2, FreedRead
<1>4. IsFiniteSet(K) /\ Cardinality(K) \in Nat
  BY ListRead, FS_Subset, FS_CardinalityType
<1>5. /\ \A v \in O : before.idx[v] \in Nat
      /\ \A v, x \in O : before.idx[v] = before.idx[x] => v = x
      /\ was \in O
  BY ListRead
<1>6. above = {v \in K : before.idx[w] < before.idx[v]}
  <2>1. \A v \in K : desk.idx[v] > desk.idx[w] <=> before.idx[w] < before.idx[v]
    BY <1>1, <1>3, <1>4
  <2> QED
    BY <1>3, <2>1
<1>7. above # {}
  <2>1. PICK v \in O : Occupied(before, v) /\ before.idx[v] > before.idx[w]
    BY <1>2 DEF Gaps
  <2>2. v \notin D
    BY <2>1 DEF Gaps
  <2>3. w \in O
    BY <1>1, <1>3
  <2> QED
    BY <1>5, <1>6, <2>1, <2>2, <2>3
<1>8. /\ Lowest(desk, above) \in above
      /\ \A v \in above : before.idx[Lowest(desk, above)] <= before.idx[v]
  <2>1. \A v \in above : v \in K /\ desk.idx[v] \in Nat
    BY <1>3, <1>4, <1>6
  <2> HIDE DEF above
  <2>2. /\ Lowest(desk, above) \in above
        /\ \A v \in above : desk.idx[Lowest(desk, above)] <= desk.idx[v]
    BY <1>7, <2>1, LowestIn
  <2> QED
    BY <1>3, <2>1, <2>2
<1>9. a \in O \ (D \cup {w})
  <2>1. Lowest(desk, above) \in K /\ Lowest(desk, above) # w
    <3> DEFINE l == Lowest(desk, above)
    <3>1. l \in {v \in K : before.idx[w] < before.idx[v]}
      BY <1>6, <1>8
    <3> HIDE DEF l
    <3>2. l \in K /\ before.idx[w] < before.idx[l] /\ w \in O
      BY <1>1, <1>3, <3>1
    <3>3. l \in K /\ l # w
      BY <1>5, <3>2
    <3> QED
      BY <3>3 DEF l
  <2>2. b \in K
    BY DEF Views
  <2> QED
    BY <2>1, <2>2
<1>10. Freed(before, desk', D \cup {w}) /\ desk'.active[M] = a
  <2>1. desk' = Freeing(desk, w, a, above)
    BY <1>1 DEF Freeing
  <2>2. above = {v \in Own(desk, M) : desk.idx[v] > desk.idx[w]}
    OBVIOUS
  <2> HIDE DEF above, a
  <2> QED
    BY <1>2, <1>9, <2>1, <2>2, FreeOne
<1>11. /\ b \in K /\ (was \notin D => b = was)
       /\ was \in D \cap Gaps(before, M) =>
            /\ before.idx[was] < before.idx[b]
            /\ \A v \in K : before.idx[was] < before.idx[v] => before.idx[b] <= before.idx[v]
  BY DEF Views
<1> DEFINE l == Lowest(desk, above)
<1>12. /\ l \in K /\ before.idx[w] < before.idx[l] /\ w \in K
       /\ \A v \in K : before.idx[w] < before.idx[v] => before.idx[l] <= before.idx[v]
  BY <1>1, <1>3, <1>6, <1>8
<1>13. a = IF b = w THEN l ELSE b
  OBVIOUS
<1> HIDE DEF a, l, above
<1>14. Views(before, D \cup {w}, a)
  <2>1. was \notin D \cup {w} => a = was
    BY <1>11, <1>13
  <2>2. ASSUME was \in D \cup {w}
        PROVE  /\ before.idx[was] < before.idx[a]
               /\ \A v \in O \ (D \cup {w}) :
                    before.idx[was] < before.idx[v] => before.idx[a] <= before.idx[v]
    <3>1. CASE was = w
      <4>1. b = w /\ a = l
        BY <1>11, <1>12, <1>13, <3>1
      <4> QED
        BY <1>12, <3>1, <4>1
    <3>2. CASE was \in D /\ b # w
      BY <1>11, <1>13, <3>2
    <3>3. CASE was \in D /\ b = w
      <4>1. a = l /\ before.idx[was] < before.idx[w]
        BY <1>11, <1>13, <3>3
      <4>2. before.idx[was] < before.idx[l]
        BY <1>5, <1>12, <4>1
      <4>3. ASSUME NEW v \in K \ {w}, before.idx[was] < before.idx[v]
            PROVE  before.idx[l] <= before.idx[v]
        <5>1. before.idx[w] <= before.idx[v] /\ before.idx[w] # before.idx[v]
          BY <1>5, <1>11, <1>12, <3>3, <4>3
        <5> QED
          BY <1>5, <1>12, <5>1
      <4> QED
        BY <4>1, <4>2, <4>3
    <3> QED
      BY <2>2, <3>1, <3>2, <3>3
  <2>3. (D \cup {w}) \ Gaps(before, M) = {}
    BY <1>2
  <2> QED
    BY <1>9, <2>1, <2>2, <2>3 DEF Views
<1> QED
  BY <1>2, <1>10, <1>14

\* A pass that finds no gap has closed them all.
LEMMA GapsClosed ==
    ASSUME Sound(before), NEW D \in SUBSET Gaps(before, M), Freed(before, desk, D), GapsDone
    PROVE  D = Gaps(before, M)
<1>1. ASSUME NEW w \in Gaps(before, M), w \notin D PROVE FALSE
  <2>1. D \in SUBSET Dead(before, M) /\ w \in Own(before, M)
    BY DEF Dead, Gaps
  <2>2. Own(desk, M) = Own(before, M) \ D
    BY <2>1, FreedRead
  <2>3. w \in Own(desk, M)
    BY <1>1, <2>1, <2>2
  <2> QED
    BY <2>3, GapsLeft DEF GapsDone
<1> QED
  BY <1>1

\* The two workspaces at the end of the list that is left.
LEMMA LastTwoRead ==
    ASSUME NEW s, Sound(s), NEW D \in SUBSET Dead(s, M), NEW t, Freed(s, t, D),
           Cardinality(Own(t, M)) >= 2
    PROVE  LET K == Own(s, M) \ D
               p == LastTwo(t)[1]
               q == LastTwo(t)[2] IN
           /\ q \in K /\ p \in K \ {q}
           /\ \A v \in K \ {q} : /\ t.idx[v] < t.idx[q] /\ s.idx[v] < s.idx[q]
                                 /\ s.idx[v] <= s.idx[p]
<1> DEFINE K == Own(s, M) \ D
           n == Cardinality(K)
           q == Highest(t, K)
           p == Highest(t, K \ {q})
<1>1. /\ Own(t, M) = K
      /\ \A v \in K : t.idx[v] \in 0..n
      /\ \A v, w \in K : /\ t.idx[v] < t.idx[w] <=> s.idx[v] < s.idx[w]
                         /\ t.idx[v] <= t.idx[w] <=> s.idx[v] <= s.idx[w]
  BY FreedRead
<1>2. /\ \A v \in K : s.idx[v] \in Nat
      /\ \A v, w \in K : s.idx[v] = s.idx[w] => v = w
      /\ IsFiniteSet(K)
  BY ListRead, FS_Subset
<1>3. n \in Nat /\ n >= 2
  BY <1>1, <1>2, FS_CardinalityType
<1>4. LastTwo(t)[1] = p /\ LastTwo(t)[2] = q
  BY <1>1 DEF LastTwo
<1>5. K # {}
  BY <1>3, FS_EmptySet
<1> HIDE DEF K, n
<1>6. q \in K /\ \A v \in K : t.idx[v] <= t.idx[q]
  BY <1>1, <1>3, <1>5, HighestIn
<1> HIDE DEF q
<1>7. K \ {q} # {}
  <2>1. Cardinality(K \ {q}) = n - 1
    BY <1>2, <1>6, FS_RemoveElement DEF n
  <2> QED
    BY <1>3, <2>1, FS_EmptySet
<1>8. p \in K \ {q} /\ \A v \in K \ {q} : t.idx[v] <= t.idx[p]
  <2>1. \A v \in K \ {q} : t.idx[v] \in 0..n
    BY <1>1
  <2> QED
    BY <1>3, <1>7, <2>1, HighestIn
<1> HIDE DEF p
<1>9. ASSUME NEW v \in K \ {q}
      PROVE  t.idx[v] < t.idx[q] /\ s.idx[v] < s.idx[q] /\ s.idx[v] <= s.idx[p]
  <2>1. s.idx[v] <= s.idx[q] /\ s.idx[v] # s.idx[q]
    BY <1>1, <1>2, <1>6
  <2>2. s.idx[v] < s.idx[q]
    BY <1>2, <1>6, <2>1
  <2> QED
    BY <1>1, <1>6, <1>8, <2>2
<1> QED
  BY <1>4, <1>6, <1>8, <1>9 DEF K

\* A monitor that showed a gap shows an occupied workspace once the gaps are gone.
LEMMA ViewOccupied ==
    ASSUME NEW s, Sound(s), NEW D, Trimmed(s, D), NEW a, Views(s, D, a),
           s.active[M] \in Gaps(s, M)
    PROVE  Occupied(s, a)
<1> DEFINE O == Own(s, M)
<1>1. PICK v \in O : Occupied(s, v) /\ s.idx[v] > s.idx[s.active[M]]
  BY DEF Gaps
<1>2. \A w \in O : s.idx[w] \in Nat
  BY ListRead
<1>3. \A w, x \in O : s.idx[w] = s.idx[x] => w = x
  BY ListRead
<1>4. v \notin D /\ s.active[M] \in D /\ s.active[M] \in O
  BY <1>1, ListRead DEF Trimmed, Dead, Gaps, Spare
<1>5. a \in O \ D /\ s.idx[a] <= s.idx[v]
  <2>1. s.idx[s.active[M]] < s.idx[v]
    BY <1>1, <1>2, <1>4
  <2> QED
    BY <1>1, <1>4, <2>1 DEF Views
<1>6. SUFFICES ASSUME ~ Occupied(s, a) PROVE FALSE
  OBVIOUS
<1>7. s.idx[v] > s.idx[a]
  <2>1. s.idx[a] # s.idx[v]
    BY <1>1, <1>3, <1>5, <1>6
  <2> QED
    BY <1>1, <1>2, <1>5, <2>1
<1>8. a \in Gaps(s, M)
  BY <1>1, <1>5, <1>6, <1>7 DEF Gaps
<1> QED
  BY <1>5, <1>8 DEF Trimmed

\* One turn of the second loop.
LEMMA TrimTurn ==
    ASSUME Sound(before), NEW D, Trimmed(before, D), Freed(before, desk, D),
           Views(before, D, desk.active[M]), Trim
    PROVE  \E E : /\ Trimmed(before, E) /\ Freed(before, desk', E)
                  /\ Views(before, E, desk'.active[M])
<1> DEFINE O == Own(before, M)
           K == O \ D
           b == desk.active[M]
           was == before.active[M]
           p == LastTwo(desk)[1]
           q == LastTwo(desk)[2]
           a == IF b = q THEN p ELSE b
           E == D \cup {q}
<1>1. /\ ~ Occupied(desk, p) /\ ~ Occupied(desk, q) /\ Cardinality(Own(desk, M)) >= 2
  <2>1. Trimmable(desk) /\ 1 \in 1..2 /\ 2 \in 1..2
    BY DEF Trim
  <2> QED
    BY <2>1 DEF Trimmable
<1>2. D \in SUBSET Dead(before, M) /\ Gaps(before, M) \in SUBSET D
  BY DEF Trimmed
<1>3. /\ q \in K /\ p \in K \ {q}
      /\ \A v \in K \ {q} : /\ desk.idx[v] < desk.idx[q] /\ before.idx[v] < before.idx[q]
                            /\ before.idx[v] <= before.idx[p]
  BY <1>1, <1>2, LastTwoRead
<1>4. /\ Own(desk, M) = K
      /\ \A v \in K : desk.idx[v] \in 0..Cardinality(K)
      /\ \A v \in O : Occupied(desk, v) <=> Occupied(before, v)
  BY <1>2, FreedRead
<1>5. \A v \in O : before.idx[v] \in Nat
  BY ListRead
<1>6. desk' = Freeing(desk, q, a, {})
  <2> DEFINE u == [desk EXCEPT !.active[M] = a]
             e == Destroy(u, {q})
             y == [e EXCEPT !.next[M] = IF @ > 0 THEN @ - 1 ELSE @]
  <2>1. desk' = y
    BY DEF Trim
  <2>2. Shaped(u) /\ u.idx = desk.idx
    BY DEF Freed, Shaped, Fields
  <2> HIDE DEF u
  <2>3. Shaped(e) /\ e.idx = [v \in Ws |-> IF v \in {q} THEN 0 ELSE u.idx[v]]
    <3>1. Shaped(u)
      BY <2>2
    <3>2. Shaped(e)
      BY <3>1, DestroyShaped
    <3>3. e.idx = [v \in Ws |-> IF v \in {q} THEN 0 ELSE u.idx[v]]
      BY <3>1 DEF Destroy, Shaped, Fields
    <3> QED
      BY <3>2, <3>3
  <2> HIDE DEF e
  <2>4. [v \in Ws |-> IF v \in {} THEN desk.idx[v] - 1 ELSE e.idx[v]] = e.idx
    BY <2>3
  <2>5. y = [e EXCEPT !.idx = e.idx, !.next[M] = IF @ > 0 THEN @ - 1 ELSE @]
    BY <2>3 DEF Shaped, Fields
  <2>6. y = [e EXCEPT !.idx = [v \in Ws |-> IF v \in {} THEN desk.idx[v] - 1 ELSE @[v]],
                      !.next[M] = IF @ > 0 THEN @ - 1 ELSE @]
    BY <2>4, <2>5
  <2> QED
    BY <2>1, <2>6 DEF Freeing, e, u
<1> HIDE DEF p, q
<1>7. {v \in Own(desk, M) : desk.idx[v] > desk.idx[q]} = {}
  <2>1. IsFiniteSet(K) /\ Cardinality(K) \in Nat
    BY ListRead, FS_Subset, FS_CardinalityType
  <2> QED
    BY <1>3, <1>4, <2>1
<1>8. /\ ~ Occupied(before, q) /\ q \notin Gaps(before, M)
      /\ q \in Dead(before, M)
  <2>1. ~ Occupied(before, q) /\ q \in O \ Gaps(before, M)
    BY <1>1, <1>2, <1>3, <1>4
  <2>2. ~ Occupied(before, p) /\ p \in O \ Gaps(before, M) /\ before.idx[p] < before.idx[q]
    BY <1>1, <1>2, <1>3, <1>4
  <2>3. q \in Spare(before, M)
    BY <2>1, <2>2 DEF Spare
  <2> QED
    BY <2>1, <2>3 DEF Dead
<1>9. b \in K /\ (was \notin D => b = was)
  BY DEF Views
<1>10. a \in O \ E
  BY <1>3, <1>9
<1>11. Freed(before, desk', E) /\ desk'.active[M] = a
  <2> HIDE DEF a
  <2> QED
    BY <1>2, <1>3, <1>6, <1>7, <1>8, <1>10, FreeOne
<1>12. Trimmed(before, E)
  <2>1. \A v \in O \ E, w \in E \ Gaps(before, M) : before.idx[v] < before.idx[w]
    BY <1>3 DEF Trimmed
  <2> QED
    BY <1>2, <1>8, <2>1 DEF Trimmed
<1>13. Views(before, E, a)
  <2>1. was \notin E => a = was
    BY <1>9
  <2>2. ASSUME was \in E \cap Gaps(before, M)
        PROVE  /\ before.idx[was] < before.idx[a]
               /\ \A v \in O \ E : before.idx[was] < before.idx[v] => before.idx[a] <= before.idx[v]
    <3>1. Occupied(before, b) /\ was \in D
      BY <1>2, <2>2, ViewOccupied
    <3>2. a = b
      BY <1>8, <3>1
    <3> QED
      BY <2>2, <3>1, <3>2 DEF Views
  <2>3. ASSUME was \in E \ Gaps(before, M)
        PROVE  \A v \in O \ E : before.idx[v] <= before.idx[a]
    <3>1. b = q
      <4>1. CASE was = q
        BY <1>3, <1>9, <4>1
      <4>2. CASE was \in D
        <5>1. \A v \in K : before.idx[v] <= before.idx[b]
          BY <2>3, <4>2 DEF Views
        <5>2. b # q => before.idx[b] < before.idx[q]
          BY <1>3, <1>9
        <5> QED
          BY <1>3, <1>5, <1>9, <5>1, <5>2
      <4> QED
        BY <2>3, <4>1, <4>2
    <3> QED
      BY <1>3, <3>1
  <2> QED
    BY <1>10, <2>1, <2>2, <2>3 DEF Views
<1> QED
  BY <1>11, <1>12, <1>13

\* When the second loop ends only the workspaces that Compact keeps are left.
LEMMA TrimEnds ==
    ASSUME Sound(before), NEW D, Trimmed(before, D), Freed(before, desk, D),
           ~ Trimmable(desk)
    PROVE  D = Dead(before, M)
<1> DEFINE O == Own(before, M)
           K == O \ D
<1>1. D \in SUBSET Dead(before, M) /\ Gaps(before, M) \in SUBSET D
  BY DEF Trimmed
<1>2. SUFFICES ASSUME NEW w \in Dead(before, M), w \notin D PROVE FALSE
  BY <1>1
<1>3. /\ w \in O /\ ~ Occupied(before, w)
      /\ \E u \in O : /\ ~ Occupied(before, u) /\ u \notin Gaps(before, M)
                      /\ before.idx[u] < before.idx[w]
  BY <1>1, <1>2 DEF Dead, Spare
<1>4. PICK u \in O : /\ ~ Occupied(before, u) /\ u \notin Gaps(before, M)
                     /\ before.idx[u] < before.idx[w]
  BY <1>3
<1>5. /\ \A v \in O : before.idx[v] \in Nat
      /\ \A v, x \in O : before.idx[v] = before.idx[x] => v = x
      /\ IsFiniteSet(K)
  BY ListRead, FS_Subset
<1>6. u \in K /\ w \in K /\ u # w
  <2>1. ASSUME u \in D PROVE FALSE
    <3>1. before.idx[w] < before.idx[u]
      BY <1>2, <1>3, <1>4, <2>1 DEF Trimmed
    <3> QED
      BY <1>3, <1>4, <1>5, <3>1
  <2> QED
    BY <1>2, <1>3, <1>4, <1>5, <2>1
<1>7. /\ Own(desk, M) = K /\ \A v \in O : Occupied(desk, v) <=> Occupied(before, v)
  BY <1>1, FreedRead
<1>8. Cardinality(Own(desk, M)) >= 2
  <2>1. {u, w} \in SUBSET K /\ Cardinality({u, w}) = 2
    <3>1. IsFiniteSet({u}) /\ Cardinality({u}) = 1 /\ w \notin {u}
      BY <1>6, FS_Singleton
    <3>2. Cardinality({u} \cup {w}) = Cardinality({u}) + 1
      BY <3>1, FS_AddElement
    <3>3. {u} \cup {w} = {u, w}
      OBVIOUS
    <3> QED
      BY <1>6, <3>1, <3>2, <3>3
  <2> QED
    BY <1>5, <1>7, <2>1, FS_Subset
<1> DEFINE p == LastTwo(desk)[1]
           q == LastTwo(desk)[2]
<1>9. /\ q \in K /\ p \in K \ {q}
      /\ \A v \in K \ {q} : /\ before.idx[v] < before.idx[q] /\ before.idx[v] <= before.idx[p]
  BY <1>1, <1>8, LastTwoRead
<1>10. PICK i \in 1..2 : Occupied(desk, LastTwo(desk)[i])
  BY <1>8 DEF Trimmable
<1> HIDE DEF p, q
<1>11. u # q
  BY <1>4, <1>5, <1>6, <1>9
<1>12. CASE Occupied(before, q)
  <2>1. before.idx[w] < before.idx[q]
    BY <1>3, <1>6, <1>9, <1>12
  <2>2. w \in Gaps(before, M)
    BY <1>3, <1>5, <1>9, <1>12, <2>1 DEF Gaps
  <2> QED
    BY <1>1, <1>2, <2>2
<1>13. CASE Occupied(before, p)
  <2>1. before.idx[u] <= before.idx[p] /\ u # p
    BY <1>4, <1>6, <1>9, <1>11, <1>13
  <2>2. before.idx[p] > before.idx[u]
    BY <1>4, <1>5, <1>9, <2>1
  <2>3. u \in Gaps(before, M)
    BY <1>4, <1>9, <1>13, <2>2 DEF Gaps
  <2> QED
    BY <1>4, <2>3
<1>14. Occupied(desk, p) \/ Occupied(desk, q)
  <2>1. i = 1 \/ i = 2
    BY <1>10
  <2> QED
    BY <1>10, <2>1 DEF p, q
<1> QED
  BY <1>7, <1>9, <1>12, <1>13, <1>14

\* What the loops end with is what Compact says.
LEMMA LoopsEnd ==
    ASSUME NEW s, Sound(s), NEW t, Freed(s, t, Dead(s, M)), Views(s, Dead(s, M), t.active[M])
    PROVE  t = Compact(s, M)
<1> DEFINE O == Own(s, M)
           D == Dead(s, M)
           was == s.active[M]
           H == Heirs(s, M)
           x == Compact(s, M)
           n == IF s.next[M] - Cardinality(D) > 0 THEN s.next[M] - Cardinality(D) ELSE 0
           a == IF was \in D THEN Lowest(s, H) ELSE was
           b == t.active[M]
<1>1. /\ M \in Mon /\ IsFiniteSet(O) /\ s.next[M] = Cardinality(O)
      /\ \A w \in O : s.idx[w] \in Nat
      /\ \A v, w \in O : s.idx[v] = s.idx[w] => v = w
      /\ was \in O
  BY ListRead
<1>2. D \in SUBSET O /\ Kept(s, M) = O \ D
  BY <1>1, DeadUnused DEF Kept
<1>3. /\ Shaped(x) /\ SameWindows(s, x) /\ x.lit = s.lit /\ x.kb = s.kb
      /\ x.selmon = s.selmon /\ x.fstack = s.fstack /\ x.row = s.row
      /\ x.focused = s.focused
      /\ x.owner = [w \in Ws |-> IF w \in D THEN NoMon ELSE s.owner[w]]
      /\ x.active = [s.active EXCEPT ![M] = a]
      /\ x.prev = [s.prev EXCEPT ![M] = IF s.prev[M] \in D THEN NoWs ELSE s.prev[M]]
      /\ x.idx = [w \in Ws |-> IF w \in O \ D THEN Rank(O \ D, s.idx, w)
                               ELSE IF w \in D THEN 0 ELSE s.idx[w]]
      /\ x.next = [s.next EXCEPT ![M] = n]
  <2>a. Base(s) /\ Counted(s)
    BY DEF Sound
  <2>b. Shaped(x) /\ CompactedFields(s, x, M, D)
    BY <1>1, <2>a, CompactFields
  <2>c. SameWindows(s, x)
    BY <1>1, <2>b, CompactedSame
  <2>1. /\ Shaped(x) /\ SameWindows(s, x) /\ x.lit = s.lit /\ x.kb = s.kb
        /\ x.selmon = s.selmon /\ x.fstack = s.fstack
        /\ x.row = s.row /\ x.focused = s.focused
        /\ x.owner = [w \in Ws |-> IF w \in D THEN NoMon ELSE s.owner[w]]
        /\ x.active = [s.active EXCEPT ![M] = a]
        /\ x.prev = [s.prev EXCEPT ![M] = IF s.prev[M] \in D THEN NoWs ELSE s.prev[M]]
        /\ x.idx = [w \in Ws |-> IF w \in Kept(s, M) THEN Rank(Kept(s, M), s.idx, w)
                                 ELSE IF w \in D THEN 0 ELSE s.idx[w]]
        /\ x.next = [s.next EXCEPT ![M] = n]
    BY <2>b, <2>c DEF CompactedFields
  <2>2. x.idx = [w \in Ws |-> IF w \in O \ D THEN Rank(O \ D, s.idx, w)
                              ELSE IF w \in D THEN 0 ELSE s.idx[w]]
    BY <1>2, <2>1
  <2> QED
    BY <2>1, <2>2
<1>4. n = Cardinality(O \ D)
  <2>1. /\ IsFiniteSet(O \ D) /\ O \cap D = D
        /\ Cardinality(O \ D) = Cardinality(O) - Cardinality(O \cap D)
    BY <1>1, <1>2, FS_Difference
  <2>2. Cardinality(O \ D) \in Nat
    BY <2>1, FS_CardinalityType
  <2> HIDE DEF O, D
  <2> QED
    BY <1>1, <2>1, <2>2
<1>5. b = a
  <2>1. CASE was \notin D
    BY <2>1 DEF Views
  <2>2. ASSUME was \in D PROVE b = Lowest(s, H)
    <3>1. H # {} /\ H \in SUBSET (O \ D)
      BY <1>1, <1>2, <2>2, HeirsLeft DEF Sound
    <3>2. /\ Lowest(s, H) \in H /\ \A v \in H : s.idx[Lowest(s, H)] <= s.idx[v]
      <4>1. H \in SUBSET O /\ Counted(s)
        BY <3>1 DEF Sound
      <4> HIDE DEF H, O
      <4> QED
        BY <1>1, <3>1, <4>1, LowestOf DEF O
    <3> DEFINE l == Lowest(s, H)
    <3> HIDE DEF l
    <3>3. l \in H /\ l \in O \ D /\ \A v \in H : s.idx[l] <= s.idx[v]
      BY <3>1, <3>2 DEF l
    <3>4. b \in O \ D
      BY DEF Views
    <3>5. CASE was \in Gaps(s, M)
      <4>1. H = {w \in O \ D : s.idx[w] > s.idx[was]}
        BY <1>2, <3>5 DEF Heirs
      <4>2. s.idx[was] < s.idx[b] /\ (s.idx[was] < s.idx[l] => s.idx[b] <= s.idx[l])
        BY <2>2, <3>3, <3>5 DEF Views
      <4>3. s.idx[l] > s.idx[was]
        BY <3>3, <4>1
      <4>4. b \in H
        BY <1>1, <3>4, <4>1, <4>2
      <4>5. s.idx[l] <= s.idx[b] /\ s.idx[b] <= s.idx[l]
        BY <1>1, <3>3, <4>2, <4>3, <4>4
      <4>6. s.idx[l] = s.idx[b]
        BY <1>1, <3>3, <3>4, <4>5
      <4> QED
        BY <1>1, <3>3, <3>4, <4>6 DEF l
    <3>6. CASE was \notin Gaps(s, M)
      <4>1. ~ Occupied(s, l)
        BY <3>3, <3>6 DEF Heirs
      <4>2. s.idx[l] <= s.idx[b]
        BY <2>2, <3>3, <3>6 DEF Views
      <4>3. b # l => s.idx[b] < s.idx[l]
        BY <1>1, <1>2, <3>3, <3>4, <4>1, KeptOrder DEF Sound
      <4>4. b = l
        BY <1>1, <3>3, <3>4, <4>2, <4>3
      <4> QED
        BY <4>4 DEF l
    <3> QED
      BY <3>5, <3>6
  <2> QED
    BY <2>1, <2>2
<1> HIDE DEF O, D, n, a, b, x
<1>6. /\ t.owner = x.owner /\ t.idx = x.idx /\ t.next = x.next /\ t.active = x.active
      /\ t.prev = x.prev /\ t.lit = x.lit /\ t.row = x.row /\ t.focused = x.focused
      /\ t.col = x.col /\ t.fs_ws = x.fs_ws /\ t.mon = x.mon /\ t.full = x.full
      /\ t.float = x.float /\ t.clients = x.clients /\ t.fstack = x.fstack /\ t.kb = x.kb
      /\ t.selmon = x.selmon /\ Shaped(t) /\ Shaped(x)
  BY <1>3, <1>4, <1>5 DEF Freed, SameWindows, SamePlaces, SameKinds, O, D, b
<1>7. \A f \in Fields : t[f] = x[f]
  BY <1>6 DEF Fields
<1>8. t = x
  BY <1>6, <1>7 DEF Shaped
<1> QED
  BY <1>8 DEF x

\* The invariant of the loops.
LoopInv ==
    /\ Sound(before)
    /\ \E D : /\ Freed(before, desk, D) /\ Views(before, D, desk.active[M])
              /\ Reached(before, D, pc)

\* The loops begin on any sound desk.
LoopsInit == Sound(desk) /\ before = desk /\ pc = "gaps"

\* With nothing freed it holds.
LEMMA LoopsBegin ==
    ASSUME LoopsInit
    PROVE  LoopInv
<1>1. /\ M \in Mon /\ desk.next[M] = Cardinality(Own(desk, M))
      /\ desk.active[M] \in Own(desk, M)
      /\ \A w \in Own(desk, M) : desk.idx[w] = Rank(Own(desk, M), desk.idx, w)
  BY ListRead DEF LoopsInit
<1>2. Own(desk, M) \ {} = Own(desk, M)
  OBVIOUS
<1>3. desk \in Desk /\ Shaped(desk)
  BY DeskShaped DEF LoopsInit, Sound, Base
<1>4. /\ desk.owner \in [Ws -> Mon \cup {NoMon}] /\ desk.idx \in [Ws -> Int]
      /\ desk.next \in [Mon -> Int] /\ desk.active \in [Mon -> Ws \cup {NoWs}]
      /\ desk.prev \in [Mon -> Ws \cup {NoWs}]
  BY <1>3, DeskTyped
<1>5. /\ desk.owner = [w \in Ws |-> IF w \in {} THEN NoMon ELSE desk.owner[w]]
      /\ desk.active = [desk.active EXCEPT ![M] = desk.active[M]]
      /\ desk.prev = [desk.prev EXCEPT ![M] = IF desk.prev[M] \in {} THEN NoWs
                                              ELSE desk.prev[M]]
      /\ desk.next = [desk.next EXCEPT ![M] = Cardinality(Own(desk, M) \ {})]
  BY <1>1, <1>2, <1>4
<1>6. desk.idx = [w \in Ws |-> IF w \in Own(desk, M) \ {}
                               THEN Rank(Own(desk, M) \ {}, desk.idx, w)
                               ELSE IF w \in {} THEN 0 ELSE desk.idx[w]]
  BY <1>1, <1>2, <1>4
<1>7. Freed(desk, desk, {})
  BY <1>3, <1>5, <1>6 DEF Freed, SameWindows, SamePlaces, SameKinds
<1>8. Views(desk, {}, desk.active[M])
  BY <1>1 DEF Views
<1>9. Reached(desk, {}, "gaps")
  BY DEF Reached
<1> QED
  BY <1>7, <1>8, <1>9 DEF LoopsInit, LoopInv

\* monitor_compact_workspaces: called on any sound desk, its two loops compute what
\* Compact says in one step, whatever the number of workspaces and their windows.
THEOREM LoopsCompact == LoopsInit /\ [][CompactNext]_cvars => []LoopsMeanCompact
<1>1. LoopsInit => LoopInv
  BY LoopsBegin
<1>2. LoopInv /\ [CompactNext]_cvars => LoopInv'
  <2> SUFFICES ASSUME LoopInv, [CompactNext]_cvars PROVE LoopInv'
    OBVIOUS
  <2>1. Sound(before)
    BY DEF LoopInv
  <2>2. PICK D : /\ Freed(before, desk, D) /\ Views(before, D, desk.active[M])
                 /\ Reached(before, D, pc)
    BY DEF LoopInv
  <2>3. CASE CloseGap
    <3>1. pc = "gaps" /\ pc' = pc /\ before' = before /\ D \in SUBSET Gaps(before, M)
      BY <2>2, <2>3 DEF CloseGap, Reached
    <3>2. PICK w \in Gaps(before, M) : /\ Freed(before, desk', D \cup {w})
                                       /\ Views(before, D \cup {w}, desk'.active[M])
      BY <2>1, <2>2, <2>3, <3>1, GapClosed
    <3>3. Reached(before, D \cup {w}, "gaps")
      BY <3>1 DEF Reached
    <3> QED
      BY <2>1, <3>1, <3>2, <3>3 DEF LoopInv
  <2>4. CASE GapsDone
    <3>1. pc = "gaps" /\ pc' = "trim" /\ desk' = desk /\ before' = before
      BY <2>4 DEF GapsDone
    <3>2. D \in SUBSET Gaps(before, M)
      BY <2>2, <3>1 DEF Reached
    <3>3. D = Gaps(before, M)
      BY <2>1, <2>2, <2>4, <3>2, GapsClosed
    <3>4. Reached(before, D, "trim")
      BY <3>3 DEF Reached, Trimmed, Dead
    <3> QED
      BY <2>1, <2>2, <3>1, <3>4 DEF LoopInv
  <2>5. CASE Trim
    <3>1. pc = "trim" /\ pc' = pc /\ before' = before
      BY <2>5 DEF Trim
    <3>2. Trimmed(before, D)
      BY <2>2, <3>1 DEF Reached
    <3>3. PICK E : /\ Trimmed(before, E) /\ Freed(before, desk', E)
                   /\ Views(before, E, desk'.active[M])
      BY <2>1, <2>2, <2>5, <3>2, TrimTurn
    <3>4. Reached(before, E, "trim")
      BY <3>3 DEF Reached
    <3> QED
      BY <2>1, <3>1, <3>3, <3>4 DEF LoopInv
  <2>6. CASE TrimDone
    <3>1. /\ pc = "trim" /\ ~ Trimmable(desk) /\ pc' = "done" /\ desk' = desk
          /\ before' = before
      BY <2>6 DEF TrimDone
    <3>2. Trimmed(before, D)
      BY <2>2, <3>1 DEF Reached
    <3>3. D = Dead(before, M)
      BY <2>1, <2>2, <3>1, <3>2, TrimEnds
    <3>4. Reached(before, D, "done")
      BY <3>3 DEF Reached
    <3> QED
      BY <2>1, <2>2, <3>1, <3>4 DEF LoopInv
  <2>7. CASE UNCHANGED cvars
    BY <2>7 DEF LoopInv, cvars
  <2> QED
    BY <2>3, <2>4, <2>5, <2>6, <2>7 DEF CompactNext
<1>3. LoopInv => LoopsMeanCompact
  <2> SUFFICES ASSUME LoopInv, pc = "done" PROVE desk = Compact(before, M)
    BY DEF LoopsMeanCompact
  <2>1. PICK D : /\ Freed(before, desk, D) /\ Views(before, D, desk.active[M])
                 /\ Reached(before, D, pc)
    BY DEF LoopInv
  <2>2. D = Dead(before, M)
    BY <2>1 DEF Reached
  <2> QED
    BY <2>1, <2>2, LoopsEnd DEF LoopInv
<1> QED
  BY <1>1, <1>2, <1>3, PTL

=============================================================================
