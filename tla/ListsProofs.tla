---------------------------- MODULE ListsProofs ----------------------------
(***************************************************************************)
(* What the operators over lists return, for lists of any length.          *)
(*                                                                         *)
(* A fold over a sequence is a function over the sets of its places.  It   *)
(* exists (FoldExists), and along the places 1 .. k it is the run of the   *)
(* loop that the fold stands for; so a lemma about a fold speaks of the    *)
(* results after 0, 1, 2, ... items, and induction over the naturals does  *)
(* the rest.                                                               *)
(***************************************************************************)
EXTENDS Lists, SequenceTheorems, FiniteSetTheorems, WellFoundedInduction, TLAPS

\* A nonempty set of naturals has a least element.
LEMMA LeastNatural ==
    ASSUME NEW T \in SUBSET Nat, T # {}
    PROVE  \E i \in T : \A j \in T : i <= j
<1>1. IsWellFoundedOn(OpToRel(<, Nat), Nat)
  BY NatLessThanWellFounded
<1>2. PICK i \in T : \A j \in T : ~(<<j, i>> \in OpToRel(<, Nat))
  BY <1>1, WFMin
<1>3. \A j \in T : ~(j < i)
  BY <1>2 DEF OpToRel
<1> QED BY <1>3

\* Induction up to n, for a property given as the set of its numbers.
LEMMA CountUp ==
    ASSUME NEW n \in Nat, NEW S, 0 \in S, \A k \in 1 .. n : k - 1 \in S => k \in S
    PROVE  0 .. n \subseteq S
<1> DEFINE T == {k \in 0 .. n : k \notin S}
<1>1. SUFFICES ASSUME T # {} PROVE FALSE
  OBVIOUS
<1>2. PICK i \in T : \A j \in T : i <= j
  <2>1. T \in SUBSET Nat
    OBVIOUS
  <2> HIDE DEF T
  <2> QED BY <1>1, <2>1, LeastNatural
<1>3. i \in 1 .. n /\ i - 1 \in 0 .. n /\ ~(i <= i - 1)
  BY <1>2
<1>4. i - 1 \in S
  BY <1>2, <1>3
<1> QED BY <1>2, <1>3, <1>4

LEMMA EmptyList == (\A S : <<>> \in Seq(S)) /\ Len(<<>>) = 0 /\ DOMAIN <<>> = {}
OBVIOUS

----------------------------------------------------------------------------
(* folds *)

\* The largest of some numbers up to n.
LEMMA MaxIs ==
    ASSUME NEW n \in Nat, NEW t \in SUBSET (1 .. n), t # {}
    PROVE  Max(t) \in t /\ \A i \in t : i <= Max(t)
<1> DEFINE T == {n - i : i \in t}
<1>1. T \in SUBSET Nat /\ T # {}
  <2>1. \A i \in t : i \in Int /\ n - i \in Nat
    OBVIOUS
  <2> QED BY <2>1
<1>2. PICK m \in T : \A j \in T : m <= j
  <2> HIDE DEF T
  <2> QED BY <1>1, LeastNatural
<1>3. PICK k \in t : m = n - k
  BY <1>2
<1>4. \A i \in t : k >= i
  <2> SUFFICES ASSUME NEW i \in t PROVE k >= i
    OBVIOUS
  <2>1. i \in Int /\ k \in Int /\ n - i \in T
    OBVIOUS
  <2>2. n - k <= n - i
    BY <1>2, <1>3, <2>1
  <2> QED BY <2>1, <2>2
<1>5. \E x \in t : \A y \in t : x >= y
  BY <1>4
<1>6. Max(t) \in t /\ \A y \in t : Max(t) >= y
  BY <1>5 DEF Max
<1> QED BY <1>6

LEMMA MaxIsLast ==
    ASSUME NEW k \in Nat, NEW t \in SUBSET (1 .. k), k \in t
    PROVE  Max(t) = k
<1>1. t # {}
  OBVIOUS
<1>2. Max(t) \in t /\ \A i \in t : i <= Max(t)
  BY <1>1, MaxIs
<1>3. Max(t) \in 1 .. k /\ k <= Max(t)
  BY <1>2
<1> QED BY <1>3

\* A function over the sets of places follows a rule of recursion: it is
\* given for no place, and for others by their last and what it is for the
\* rest.
FoldRule(f, n, base, step) ==
    /\ f[{}] = base
    /\ \A t \in SUBSET (1 .. n) : t # {} => f[t] = step[Max(t)][f[t \ {Max(t)}]]

\* There is such a function, whatever a step does with a result.
LEMMA FoldExists ==
    ASSUME NEW n \in Nat, NEW T, NEW base \in T, NEW step \in [1 .. n -> [T -> T]]
    PROVE  \E f \in [SUBSET (1 .. n) -> T] : FoldRule(f, n, base, step)
<1> DEFINE S == {k \in 0 .. n : \E f \in [SUBSET (1 .. k) -> T] : FoldRule(f, k, base, step)}
<1>1. 0 \in S
  <2> DEFINE f == [t \in SUBSET (1 .. 0) |-> base]
  <2>1. f \in [SUBSET (1 .. 0) -> T] /\ f[{}] = base
    OBVIOUS
  <2>2. \A t \in SUBSET (1 .. 0) : t = {}
    OBVIOUS
  <2>3. FoldRule(f, 0, base, step)
    BY <2>1, <2>2 DEF FoldRule
  <2> QED BY <2>1, <2>3
<1>2. ASSUME NEW k \in 1 .. n, k - 1 \in S PROVE k \in S
  <2>1. PICK g \in [SUBSET (1 .. k - 1) -> T] : FoldRule(g, k - 1, base, step)
    BY <1>2
  <2> DEFINE f == [t \in SUBSET (1 .. k) |-> IF k \in t THEN step[k][g[t \ {k}]] ELSE g[t]]
  <2>2. \A t \in SUBSET (1 .. k) : /\ t \ {k} \in SUBSET (1 .. k - 1)
                                   /\ k \notin t => t \in SUBSET (1 .. k - 1)
    OBVIOUS
  <2>3. f \in [SUBSET (1 .. k) -> T]
    BY <2>1, <2>2
  <2>4. f[{}] = base
    BY <2>1 DEF FoldRule
  <2>5. ASSUME NEW t \in SUBSET (1 .. k), t # {}
        PROVE  f[t] = step[Max(t)][f[t \ {Max(t)}]]
    <3>1. CASE k \in t
      <4>1. Max(t) = k
        BY <3>1, MaxIsLast
      <4>2. f[t] = step[k][g[t \ {k}]]
        BY <3>1
      <4>3. t \ {k} \in SUBSET (1 .. k) /\ k \notin t \ {k}
        OBVIOUS
      <4>4. f[t \ {k}] = g[t \ {k}]
        BY <4>3
      <4> HIDE DEF f
      <4> QED BY <4>1, <4>2, <4>4
    <3>2. CASE k \notin t
      <4>1. t \in SUBSET (1 .. k - 1)
        BY <2>2, <3>2
      <4>2. Max(t) \in t
        BY <2>5, MaxIs, k \in Nat
      <4>3. t \ {Max(t)} \in SUBSET (1 .. k) /\ k \notin t \ {Max(t)}
        BY <3>2
      <4>4. f[t] = g[t] /\ f[t \ {Max(t)}] = g[t \ {Max(t)}]
        BY <3>2, <4>3
      <4>5. g[t] = step[Max(t)][g[t \ {Max(t)}]]
        BY <2>1, <2>5, <4>1 DEF FoldRule
      <4> HIDE DEF f
      <4> QED BY <4>4, <4>5
    <3> QED BY <3>1, <3>2
  <2> HIDE DEF f
  <2>6. FoldRule(f, k, base, step)
    BY <2>4, <2>5 DEF FoldRule
  <2> QED BY <2>3, <2>6
<1>3. 0 .. n \subseteq S
  <2> HIDE DEF S
  <2> QED BY <1>1, <1>2, CountUp
<1> QED BY <1>3, n \in 0 .. n

\* Along the places 1 .. k a fold does what a loop does.
LEMMA PlacesUpTo ==
    ASSUME NEW n \in Nat, NEW k \in 1 .. n
    PROVE  /\ 1 .. k \in SUBSET (1 .. n) /\ 1 .. k # {}
           /\ Max(1 .. k) = k
           /\ (1 .. k) \ {Max(1 .. k)} = 1 .. k - 1
<1>1. 1 .. k \in SUBSET (1 .. n) /\ k \in 1 .. k /\ k \in Nat
  OBVIOUS
<1>2. Max(1 .. k) = k
  BY <1>1, MaxIsLast
<1>3. (1 .. k) \ {k} = 1 .. k - 1
  OBVIOUS
<1> QED BY <1>1, <1>2, <1>3

----------------------------------------------------------------------------
(* [x for x in items if ...] *)

\* The list is built up item by item.
SelectedUpTo(r, items, passing) ==
    /\ r[0] = <<>>
    /\ \A k \in 1 .. Len(items) :
           r[k] = IF items[k] \in passing THEN Append(r[k - 1], items[k]) ELSE r[k - 1]

LEMMA SelectedRuns ==
    ASSUME NEW A, NEW items \in Seq(A), NEW passing
    PROVE  \E r \in [0 .. Len(items) -> Seq(A)] :
               SelectedUpTo(r, items, passing) /\ Selected(items, passing) = r[Len(items)]
<1> DEFINE n == Len(items)
           T == Seq(A)
           Rule(f) == f = [t \in SUBSET DOMAIN items |->
                              IF t = {} THEN <<>>
                              ELSE IF items[Max(t)] \in passing
                                   THEN Append(f[t \ {Max(t)}], items[Max(t)])
                                   ELSE f[t \ {Max(t)}]]
           g == CHOOSE f : Rule(f)
           r == [k \in 0 .. n |-> g[1 .. k]]
<1>1. n \in Nat /\ DOMAIN items = 1 .. n /\ \A i \in 1 .. n : items[i] \in A
  OBVIOUS
<1>2. \E f : Rule(f)
  <2> DEFINE step == [i \in 1 .. n |-> [out \in T |->
                         IF items[i] \in passing THEN Append(out, items[i]) ELSE out]]
  <2>1. step \in [1 .. n -> [T -> T]] /\ <<>> \in T
    BY <1>1
  <2> HIDE DEF n
  <2>2. PICK f \in [SUBSET (1 .. n) -> T] : FoldRule(f, n, <<>>, step)
    <3> HIDE DEF step, T
    <3> QED BY <1>1, <2>1, FoldExists
  <2>3. ASSUME NEW t \in SUBSET (1 .. n), t # {}
        PROVE  f[t] = IF items[Max(t)] \in passing
                      THEN Append(f[t \ {Max(t)}], items[Max(t)])
                      ELSE f[t \ {Max(t)}]
    <3>1. Max(t) \in 1 .. n
      BY <1>1, <2>3, MaxIs
    <3>2. f[t \ {Max(t)}] \in T
      BY <2>2
    <3>3. f[t] = step[Max(t)][f[t \ {Max(t)}]]
      BY <2>2, <2>3 DEF FoldRule
    <3> HIDE DEF T
    <3> QED BY <3>1, <3>2, <3>3
  <2>4. f[{}] = <<>>
    BY <2>2 DEF FoldRule
  <2> QED BY <1>1, <2>2, <2>3, <2>4
<1>3. Rule(g)
  <2> HIDE DEF Rule
  <2> QED BY <1>2
<1>4. Selected(items, passing) = g[1 .. n]
  BY <1>1 DEF Selected, FoldLeft, MapThenFoldSet
<1> HIDE DEF g
<1>5. g[{}] = <<>>
  BY <1>3
<1>6. \A k \in 1 .. n :
         g[1 .. k] = IF items[k] \in passing
                     THEN Append(g[1 .. k - 1], items[k]) ELSE g[1 .. k - 1]
  <2> HIDE DEF n
  <2> TAKE k \in 1 .. n
  <2>1. /\ 1 .. k \in SUBSET (1 .. n) /\ 1 .. k # {}
        /\ Max(1 .. k) = k
        /\ (1 .. k) \ {Max(1 .. k)} = 1 .. k - 1
    BY <1>1, PlacesUpTo
  <2> QED BY <1>1, <1>3, <2>1
<1>7. SelectedUpTo(r, items, passing)
  <2>1. 1 .. 0 = {} /\ 0 \in 0 .. n
    OBVIOUS
  <2>2. \A k \in 1 .. n : k \in 0 .. n /\ k - 1 \in 0 .. n
    OBVIOUS
  <2> QED BY <1>5, <1>6, <2>1, <2>2 DEF SelectedUpTo
<1>8. r \in [0 .. n -> T]
  <2> DEFINE S == {k \in 0 .. n : r[k] \in T}
  <2> HIDE DEF r, n
  <2>1. 0 \in S
    <3>1. r[0] = <<>> /\ <<>> \in T
      BY <1>7 DEF SelectedUpTo
    <3> HIDE DEF T
    <3> QED BY <1>1, <3>1
  <2>2. ASSUME NEW k \in 1 .. n, k - 1 \in S PROVE k \in S
    <3>1. r[k] = IF items[k] \in passing THEN Append(r[k - 1], items[k]) ELSE r[k - 1]
      BY <1>7 DEF SelectedUpTo, n
    <3>2. r[k - 1] \in T /\ items[k] \in A /\ k \in 0 .. n
      BY <1>1, <2>2
    <3>3. Append(r[k - 1], items[k]) \in T
      BY <3>2
    <3> HIDE DEF T
    <3> QED BY <3>1, <3>2, <3>3
  <2>3. 0 .. n \subseteq S
    <3> HIDE DEF S
    <3> QED BY <1>1, <2>1, <2>2, CountUp
  <2> QED BY <2>3 DEF r
<1>9. Selected(items, passing) = r[n]
  BY <1>1, <1>4
<1> QED BY <1>7, <1>8, <1>9

\* out holds the passing items of the first k places, each once and in the
\* order of the places.
InOrder(order, out, items, passing, k) ==
    /\ order \in [1 .. Len(out) -> 1 .. k]
    /\ \A i, j \in 1 .. Len(out) : i < j => order[i] < order[j]
    /\ \A i \in 1 .. Len(out) : out[i] = items[order[i]] /\ items[order[i]] \in passing
    /\ \A p \in 1 .. k : items[p] \in passing => \E i \in 1 .. Len(out) : order[i] = p

\* One more item.
LEMMA NextInOrder ==
    ASSUME NEW A, NEW items \in Seq(A), NEW passing, NEW k \in 1 .. Len(items),
           NEW out \in Seq(A), NEW order, InOrder(order, out, items, passing, k - 1)
    PROVE  \E more : InOrder(more, IF items[k] \in passing THEN Append(out, items[k]) ELSE out,
                             items, passing, k)
<1>1. /\ order \in [1 .. Len(out) -> 1 .. k - 1]
      /\ \A i, j \in 1 .. Len(out) : i < j => order[i] < order[j]
      /\ \A i \in 1 .. Len(out) : out[i] = items[order[i]] /\ items[order[i]] \in passing
      /\ \A p \in 1 .. k - 1 : items[p] \in passing => \E i \in 1 .. Len(out) : order[i] = p
  BY DEF InOrder
<1>2. Len(out) \in Nat /\ k \in Nat \ {0} /\ items[k] \in A
  OBVIOUS
<1>3. CASE items[k] \notin passing
  <2>1. order \in [1 .. Len(out) -> 1 .. k]
    BY <1>1, <1>2
  <2>2. ASSUME NEW p \in 1 .. k, items[p] \in passing
        PROVE  \E i \in 1 .. Len(out) : order[i] = p
    <3>1. p \in 1 .. k - 1
      BY <1>2, <1>3, <2>2
    <3> QED BY <1>1, <2>2, <3>1
  <2>3. InOrder(order, out, items, passing, k)
    BY <1>1, <2>1, <2>2 DEF InOrder
  <2> QED BY <1>3, <2>3
<1>4. CASE items[k] \in passing
  <2> DEFINE m == Len(out) + 1
             longer == Append(out, items[k])
             more == [i \in 1 .. m |-> IF i = m THEN k ELSE order[i]]
  <2>1. Len(longer) = m /\ longer[m] = items[k] /\ \A i \in 1 .. Len(out) : longer[i] = out[i]
    BY <1>2
  <2>2. \A i \in 1 .. m : i = m \/ i \in 1 .. Len(out)
    BY <1>2
  <2>3. /\ m \in 1 .. m /\ more[m] = k
        /\ \A i \in 1 .. Len(out) : i \in 1 .. m /\ i # m /\ i < m /\ more[i] = order[i]
    BY <1>2
  <2>4. more \in [1 .. m -> 1 .. k]
    BY <1>1, <1>2, <2>2
  <2> HIDE DEF longer, more, m
  <2>5. ASSUME NEW i \in 1 .. m, NEW j \in 1 .. m, i < j
        PROVE  more[i] < more[j]
    <3>1. i \in 1 .. Len(out)
      BY <1>2, <2>2, <2>5 DEF m
    <3>2. CASE j = m
      BY <1>1, <1>2, <2>3, <3>1, <3>2
    <3>3. CASE j \in 1 .. Len(out)
      BY <1>1, <2>3, <2>5, <3>1, <3>3
    <3> QED BY <2>2, <3>2, <3>3
  <2>6. ASSUME NEW i \in 1 .. m
        PROVE  longer[i] = items[more[i]] /\ items[more[i]] \in passing
    BY <1>1, <1>4, <2>1, <2>2, <2>3
  <2>7. ASSUME NEW p \in 1 .. k, items[p] \in passing
        PROVE  \E i \in 1 .. m : more[i] = p
    <3>1. p = k \/ p \in 1 .. k - 1
      BY <1>2
    <3> QED BY <1>1, <2>3, <2>7, <3>1
  <2>8. InOrder(more, longer, items, passing, k)
    BY <2>1, <2>4, <2>5, <2>6, <2>7 DEF InOrder
  <2> QED BY <1>4, <2>8 DEF longer
<1> QED BY <1>3, <1>4

\* What passes, once each and in order.
LEMMA SelectedInOrder ==
    ASSUME NEW A, NEW items \in Seq(A), NEW passing
    PROVE  /\ Selected(items, passing) \in Seq(A)
           /\ \E order : InOrder(order, Selected(items, passing), items, passing, Len(items))
<1>1. PICK r \in [0 .. Len(items) -> Seq(A)] :
          SelectedUpTo(r, items, passing) /\ Selected(items, passing) = r[Len(items)]
  BY SelectedRuns
<1> DEFINE S == {k \in 0 .. Len(items) : \E order : InOrder(order, r[k], items, passing, k)}
<1>2. Len(items) \in Nat
  OBVIOUS
<1>3. 0 \in S
  <2>1. r[0] = <<>>
    BY <1>1 DEF SelectedUpTo
  <2>2. InOrder([i \in 1 .. 0 |-> i], <<>>, items, passing, 0)
    BY DEF InOrder
  <2> QED BY <1>2, <2>1, <2>2
<1>4. ASSUME NEW k \in 1 .. Len(items), k - 1 \in S PROVE k \in S
  <2>1. PICK order : InOrder(order, r[k - 1], items, passing, k - 1)
    BY <1>4
  <2>2. r[k - 1] \in Seq(A) /\ k \in 0 .. Len(items)
    BY <1>1, <1>2
  <2>3. r[k] = IF items[k] \in passing THEN Append(r[k - 1], items[k]) ELSE r[k - 1]
    BY <1>1 DEF SelectedUpTo
  <2>4. \E more : InOrder(more, r[k], items, passing, k)
    BY <2>1, <2>2, <2>3, NextInOrder
  <2> QED BY <2>2, <2>4
<1>5. 0 .. Len(items) \subseteq S
  <2> HIDE DEF S
  <2> QED BY <1>2, <1>3, <1>4, CountUp
<1> QED BY <1>1, <1>2, <1>5

\* A set is as large as a list of its elements, each once.
LEMMA DistinctCount ==
    ASSUME NEW m \in Nat, NEW S, NEW f,
           \A j, k \in 1 .. m : f[j] = f[k] => j = k,
           \A j \in 1 .. m : f[j] \in S,
           \A x \in S : \E j \in 1 .. m : f[j] = x
    PROVE  IsFiniteSet(S) /\ Cardinality(S) = m
<1> DEFINE g == [j \in 1 .. m |-> f[j]]
<1>1. g \in [1 .. m -> S] /\ DOMAIN g = 1 .. m /\ \A x \in S : \E j \in 1 .. m : g[j] = x
  OBVIOUS
<1>2. \A j, k \in 1 .. m : g[j] = g[k] => j = k
  OBVIOUS
<1>3. g \in Bijection(1 .. m, S)
  <2> HIDE DEF g
  <2> QED BY <1>1, <1>2 DEF Bijection, Injection, Surjection, IsInjective
<1>4. ExistsBijection(1 .. m, S)
  BY <1>3 DEF ExistsBijection
<1> QED BY <1>4, FS_CountingElements, FS_NatBijection

UpTo(M, n) == {p \in 1 .. n : p \in M}

\* order lists the numbers of M up to n as they come.
Enumerates(order, m, M, n) ==
    /\ order \in [1 .. m -> 1 .. n]
    /\ \A i, j \in 1 .. m : i < j => order[i] < order[j]
    /\ \A i \in 1 .. m : order[i] \in M
    /\ \A p \in 1 .. n : p \in M => \E i \in 1 .. m : order[i] = p

\* The k-th number of a set is the one up to which there are k.
LEMMA PlaceIsCount ==
    ASSUME NEW M, NEW n \in Nat, NEW m \in Nat, NEW order, Enumerates(order, m, M, n)
    PROVE  /\ Cardinality(UpTo(M, n)) = m
           /\ \A k \in 1 .. m : Cardinality(UpTo(M, order[k])) = k
<1> USE DEF Enumerates
<1>1. \A i, j \in 1 .. m : order[i] = order[j] => i = j
  <2> SUFFICES ASSUME NEW i \in 1 .. m, NEW j \in 1 .. m, order[i] = order[j], i # j
               PROVE  FALSE
    OBVIOUS
  <2>1. i < j \/ j < i
    OBVIOUS
  <2> QED BY <2>1
<1>2. Cardinality(UpTo(M, n)) = m
  <2> DEFINE S == UpTo(M, n)
  <2>1. (\A i \in 1 .. m : order[i] \in S) /\ \A p \in S : \E i \in 1 .. m : order[i] = p
    BY DEF UpTo
  <2> HIDE DEF S
  <2>2. Cardinality(S) = m
    BY <1>1, <2>1, DistinctCount
  <2> QED BY <2>2 DEF S
<1>3. ASSUME NEW k \in 1 .. m PROVE Cardinality(UpTo(M, order[k])) = k
  <2> DEFINE S == UpTo(M, order[k])
  <2>1. ASSUME NEW i \in 1 .. k PROVE order[i] \in S
    <3>1. i \in 1 .. m /\ (i < k \/ i = k)
      OBVIOUS
    <3>2. order[i] <= order[k]
      BY <3>1
    <3> QED BY <3>1, <3>2 DEF UpTo
  <2>2. ASSUME NEW p \in S PROVE \E i \in 1 .. k : order[i] = p
    <3>1. p \in 1 .. n /\ p \in M /\ p <= order[k]
      BY DEF UpTo
    <3>2. PICK i \in 1 .. m : order[i] = p
      BY <3>1
    <3>3. ~(order[k] < order[i])
      BY <3>1, <3>2
    <3>4. ~(k < i)
      BY <3>3
    <3> QED BY <3>2, <3>4
  <2>3. \A i, j \in 1 .. k : order[i] = order[j] => i = j
    BY <1>1
  <2> HIDE DEF S
  <2>4. Cardinality(S) = k
    BY <2>1, <2>2, <2>3, DistinctCount, k \in Nat
  <2> QED BY <2>4 DEF S
<1> QED BY <1>2, <1>3

============================================================================
