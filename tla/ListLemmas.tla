------------------------------ MODULE ListLemmas ------------------------------
(***************************************************************************)
(* What the operations on a list without repetition do to its elements:    *)
(* the channels of a client, the ready list of epoll, the elements of a    *)
(* hash table and of its buckets.  And what makes it possible to reason    *)
(* about a recursive function: induction, and that such a function exists. *)
(***************************************************************************)
EXTENDS Integers, Sequences, SequencesExt, SequenceTheorems,
        FiniteSetTheorems, WellFoundedInduction, TLAPS

-----------------------------------------------------------------------------
(* Induction over data, as facts about sets *)

\* Every set of natural numbers has a smallest element.
LEMMA NatMin ==
    ASSUME NEW T \in SUBSET Nat, T # {}
    PROVE  \E x \in T : \A y \in T : x <= y
<1> DEFINE R == {p \in Nat \X Nat : p[1] < p[2]}
<1>1. IsWellFoundedOn(R, Nat)
  BY NatLessThanWellFounded DEF OpToRel
<1>2. \A x, y \in Nat : <<y, x>> \in R <=> y < x
  OBVIOUS
<1> HIDE DEF R
<1>3. PICK x \in T : \A y \in T : ~(<<y, x>> \in R)
  BY <1>1, WFMin
<1>4. ASSUME NEW y \in T PROVE x <= y
  <2>1. ~(y < x) /\ x \in Nat /\ y \in Nat
    BY <1>2, <1>3
  <2> QED
    BY <2>1
<1> QED
  BY <1>4

\* What holds of 0, and of a number when it holds of the one before, holds up
\* to n.  T is the set of numbers of which it holds.
LEMMA Induction ==
    ASSUME NEW T, NEW n \in Nat,
           0 \in T, \A i \in 1 .. n : i - 1 \in T => i \in T
    PROVE  \A i \in 0 .. n : i \in T
<1> SUFFICES ASSUME (0 .. n) \ T # {}
             PROVE  FALSE
  OBVIOUS
<1>1. PICK x \in (0 .. n) \ T : \A y \in (0 .. n) \ T : x <= y
  <2>1. (0 .. n) \ T \in SUBSET Nat
    OBVIOUS
  <2> QED
    BY <2>1, NatMin
<1>2. x \in 1 .. n /\ x - 1 \in 0 .. n /\ ~(x <= x - 1)
  BY <1>1
<1>3. x - 1 \in T
  BY <1>1, <1>2
<1> QED
  BY <1>1, <1>2, <1>3

\* A value for every number up to n, each computed from the one before.
Computed(f, S, first, n, Step) ==
    /\ f \in [0 .. n -> S]
    /\ f[0] = first
    /\ \A i \in 1 .. n : f[i] = Step[i][f[i - 1]]

\* The function that a recursive definition chooses does exist.
LEMMA Recursion ==
    ASSUME NEW S, NEW first \in S, NEW n \in Nat,
           NEW Step \in [1 .. n -> [S -> S]]
    PROVE  \E f : Computed(f, S, first, n, Step)
<1> DEFINE Is(f, m) == Computed(f, S, first, m, Step)
           T == {m \in 0 .. n : \E f : Is(f, m)}
<1>1. 0 \in T
  <2>1. Is([i \in 0 .. 0 |-> first], 0)
    BY DEF Computed
  <2> HIDE DEF Is
  <2> QED
    BY <2>1
<1>2. ASSUME NEW k \in 1 .. n, k - 1 \in T PROVE k \in T
  <2>1. PICK f : Is(f, k - 1)
    BY <1>2
  <2> DEFINE g == [i \in 0 .. k |-> IF i = k THEN Step[k][f[k - 1]] ELSE f[i]]
  <2>2. Step[k][f[k - 1]] \in S
    BY <2>1 DEF Computed
  <2>3. g \in [0 .. k -> S] /\ g[0] = first
    BY <2>1, <2>2 DEF Computed
  <2>4. ASSUME NEW i \in 1 .. k PROVE g[i] = Step[i][g[i - 1]]
    <3>1. CASE i = k
      BY <3>1
    <3>2. CASE i # k
      <4>1. i \in 1 .. k - 1 /\ i - 1 \in 0 .. k /\ i - 1 # k
        BY <3>2
      <4> QED
        BY <2>1, <3>2, <4>1 DEF Computed
    <3> QED
      BY <3>1, <3>2
  <2>5. Is(g, k)
    BY <2>3, <2>4 DEF Computed
  <2> HIDE DEF Is, g
  <2> QED
    BY <2>5
<1>3. n \in T
  <2> HIDE DEF T
  <2>1. \A i \in 0 .. n : i \in T
    BY <1>1, <1>2, Induction
  <2> QED
    BY <2>1
<1> QED
  BY <1>3

-----------------------------------------------------------------------------
(* Lists *)

\* What is left of a list behind its i-th element.
LEMMA Behind ==
    ASSUME NEW S, NEW q \in Seq(S), NEW i \in 1 .. Len(q)
    PROVE  /\ SubSeq(q, i + 1, Len(q)) \in Seq(S)
           /\ Len(SubSeq(q, i + 1, Len(q))) = Len(q) - i
           /\ \A j \in 1 .. Len(q) - i : SubSeq(q, i + 1, Len(q))[j] = q[i + j]
OBVIOUS

\* The element is added, and stays listed once if it was absent.
LEMMA AppendOnce ==
    ASSUME NEW S, NEW q \in Seq(S), NEW c \in S
    PROVE  /\ Append(q, c) \in Seq(S)
           /\ Range(Append(q, c)) = Range(q) \cup {c}
           /\ IsInjective(q) /\ c \notin Range(q) => IsInjective(Append(q, c))
<1> DEFINE r == Append(q, c)
<1>1. /\ r \in Seq(S)
      /\ Len(r) = Len(q) + 1
      /\ \A i \in 1..Len(q) : r[i] = q[i]
      /\ r[Len(q) + 1] = c
  OBVIOUS
<1>2. DOMAIN q = 1..Len(q) /\ DOMAIN r = 1..(Len(q) + 1) /\ Len(q) \in Nat
  BY <1>1
<1> HIDE DEF r
<1>3. Range(r) = Range(q) \cup {c}
  <2>1. ASSUME NEW x \in Range(r) PROVE x \in Range(q) \cup {c}
    BY <1>1, <1>2, <2>1 DEF Range
  <2>2. ASSUME NEW x \in Range(q) \cup {c} PROVE x \in Range(r)
    BY <1>1, <1>2, <2>2 DEF Range
  <2> QED
    BY <2>1, <2>2
<1>4. ASSUME IsInjective(q), c \notin Range(q) PROVE IsInjective(r)
  BY <1>1, <1>2, <1>4 DEF IsInjective, Range
<1> QED
  BY <1>1, <1>3, <1>4 DEF r

\* The entries behind the one that goes move up.
LEMMA RemoveAtEntries ==
    ASSUME NEW S, NEW q \in Seq(S), NEW i \in 1 .. Len(q)
    PROVE  /\ RemoveAt(q, i) \in Seq(S)
           /\ Len(RemoveAt(q, i)) = Len(q) - 1
           /\ \A j \in 1 .. Len(q) - 1 :
                  RemoveAt(q, i)[j] = IF j < i THEN q[j] ELSE q[j + 1]
<1> DEFINE r == RemoveAt(q, i)
<1>0. Len(q) \in Nat /\ DOMAIN q = 1..Len(q)
  OBVIOUS
<1> DEFINE before == SubSeq(q, 1, i - 1)
           after == SubSeq(q, i + 1, Len(q))
<1>1. /\ before \in Seq(S)
      /\ Len(before) = i - 1
      /\ \A j \in 1..(i - 1) : before[j] = q[j]
  BY <1>0
<1>2. /\ after \in Seq(S)
      /\ Len(after) = Len(q) - i
      /\ \A j \in 1..(Len(q) - i) : after[j] = q[i + j]
  BY <1>0, Behind
<1>3. r = before \o after
  BY DEF RemoveAt
<1> HIDE DEF before, after, r
<1>4. /\ r \in Seq(S)
      /\ Len(r) = Len(before) + Len(after)
      /\ \A j \in 1..(Len(before) + Len(after)) :
             r[j] = IF j <= Len(before) THEN before[j]
                                        ELSE after[j - Len(before)]
  BY <1>1, <1>2, <1>3, ConcatProperties
<1>5. Len(r) = Len(q) - 1
  BY <1>0, <1>1, <1>2, <1>4
<1>6. ASSUME NEW j \in 1..(Len(q) - 1)
      PROVE  r[j] = IF j < i THEN q[j] ELSE q[j + 1]
  <2>1. CASE j < i
    <3>1. /\ j \in 1 .. Len(before) + Len(after) /\ j <= Len(before)
          /\ j \in 1 .. (i - 1)
      BY <1>0, <1>1, <1>2, <2>1
    <3> QED
      BY <1>1, <1>4, <2>1, <3>1
  <2>2. CASE ~(j < i)
    <3>1. j - Len(before) \in 1..(Len(q) - i)
      <4>1. Len(before) = i - 1 /\ i \in 1..Len(q) /\ Len(q) \in Nat
        BY <1>0, <1>1
      <4> QED
        BY <2>2, <4>1
    <3>2. r[j] = after[j - Len(before)]
      <4>1. j \in 1 .. Len(before) + Len(after) /\ ~(j <= Len(before))
        BY <1>0, <1>1, <1>2, <2>2
      <4> QED
        BY <1>4, <4>1
    <3>3. r[j] = q[i + (j - (i - 1))]
      BY <1>1, <1>2, <3>1, <3>2
    <3>4. i + (j - (i - 1)) = j + 1
      BY <1>0
    <3> QED
      BY <2>2, <3>3, <3>4
  <2> QED
    BY <2>1, <2>2
<1> QED
  BY <1>4, <1>5, <1>6 DEF r

\* Exactly one entry goes.
LEMMA RemoveAtOnce ==
    ASSUME NEW S, NEW q \in Seq(S), NEW i \in DOMAIN q, IsInjective(q)
    PROVE  /\ RemoveAt(q, i) \in Seq(S)
           /\ Range(RemoveAt(q, i)) = Range(q) \ {q[i]}
           /\ IsInjective(RemoveAt(q, i))
<1> DEFINE r == RemoveAt(q, i)
<1>1. Len(q) \in Nat /\ DOMAIN q = 1..Len(q) /\ i \in 1..Len(q)
  OBVIOUS
<1>2. /\ r \in Seq(S)
      /\ Len(r) = Len(q) - 1
      /\ \A j \in 1..(Len(q) - 1) : r[j] = IF j < i THEN q[j] ELSE q[j + 1]
  BY <1>1, RemoveAtEntries
<1>3. DOMAIN r = 1..(Len(q) - 1)
  BY <1>1, <1>2
<1> HIDE DEF r
<1>4. ASSUME NEW x \in Range(r) PROVE x \in Range(q) \ {q[i]}
  <2>1. PICK j \in 1..(Len(q) - 1) : r[j] = x
    BY <1>3 DEF Range
  <2>2. PICK k \in DOMAIN q : k # i /\ q[k] = x
    <3>1. CASE j < i
      BY <1>1, <1>2, <2>1, <3>1
    <3>2. CASE ~(j < i)
      <4>1. j + 1 \in DOMAIN q /\ j + 1 # i /\ q[j + 1] = x
        BY <1>1, <1>2, <2>1, <3>2
      <4> QED
        BY <4>1
    <3> QED
      BY <3>1, <3>2
  <2> QED
    BY <1>1, <2>2 DEF Range, IsInjective
<1>5. ASSUME NEW x \in Range(q) \ {q[i]} PROVE x \in Range(r)
  <2>1. PICK k \in 1..Len(q) : q[k] = x /\ k # i
    BY <1>1 DEF Range
  <2>2. CASE k < i
    BY <1>1, <1>2, <1>3, <2>1, <2>2 DEF Range
  <2>3. CASE k > i
    <3>1. k - 1 \in 1..(Len(q) - 1) /\ r[k - 1] = x
      BY <1>1, <1>2, <2>1, <2>3
    <3> QED
      BY <1>3, <3>1 DEF Range
  <2> QED
    BY <1>1, <2>1, <2>2, <2>3
<1>6. IsInjective(r)
  <2> SUFFICES ASSUME NEW j \in 1..(Len(q) - 1), NEW k \in 1..(Len(q) - 1),
                      r[j] = r[k]
               PROVE  j = k
    BY <1>3 DEF IsInjective
  <2> DEFINE old(l) == IF l < i THEN l ELSE l + 1
  <2>1. old(j) \in DOMAIN q /\ old(k) \in DOMAIN q
    BY <1>1
  <2>2. r[j] = q[old(j)] /\ r[k] = q[old(k)]
    BY <1>1, <1>2
  <2>3. old(j) = old(k)
    <3> HIDE DEF old
    <3> QED
      BY <2>1, <2>2 DEF IsInjective
  <2> QED
    BY <1>1, <2>3
<1> QED
  BY <1>2, <1>4, <1>5, <1>6 DEF r

\* The element that is removed is at its only place.
LEMMA RemoveFirstAt ==
    ASSUME NEW S, NEW q \in Seq(S), NEW i \in 1 .. Len(q), IsInjective(q)
    PROVE  RemoveFirst(q, q[i]) = RemoveAt(q, i)
<1>1. DOMAIN q = 1 .. Len(q) /\ i \in Int
  OBVIOUS
<1>2. {j \in 1 .. Len(q) : q[j] = q[i]} = {i}
  BY <1>1 DEF IsInjective
<1>3. Min({i}) = i
  BY <1>1 DEF Min
<1>4. SelectInSeq(q, LAMBDA v : v = q[i]) = i
  BY <1>2, <1>3 DEF SelectInSeq
<1> QED
  BY <1>4 DEF RemoveFirst

\* The element is gone, if it was there.
LEMMA RemoveFirstOnce ==
    ASSUME NEW S, NEW q \in Seq(S), NEW e, IsInjective(q)
    PROVE  /\ RemoveFirst(q, e) \in Seq(S \ {e})
           /\ IsInjective(RemoveFirst(q, e))
           /\ Range(RemoveFirst(q, e)) = Range(q) \ {e}
<1>0. Len(q) \in Nat /\ DOMAIN q = 1 .. Len(q)
  OBVIOUS
<1>1. CASE \E i \in 1 .. Len(q) : q[i] = e
  <2>1. PICK i \in 1 .. Len(q) : q[i] = e
    BY <1>1
  <2>2. RemoveFirst(q, e) = RemoveAt(q, i)
    BY <2>1, RemoveFirstAt
  <2> DEFINE r == RemoveAt(q, i)
  <2>3. /\ r \in Seq(S) /\ Range(r) = Range(q) \ {e} /\ IsInjective(r)
    BY <1>0, <2>1, RemoveAtOnce
  <2> HIDE DEF r
  <2>4. r \in Seq(S \ {e})
    <3>1. Len(r) \in Nat /\ DOMAIN r = 1 .. Len(r) /\ r \in Seq(S)
      BY <2>3
    <3>2. \A j \in 1 .. Len(r) : r[j] \in S \ {e}
      BY <2>3, <3>1 DEF Range
    <3> QED
      BY <3>1, <3>2
  <2> QED
    BY <2>2, <2>3, <2>4 DEF r
<1>2. CASE ~ \E i \in 1 .. Len(q) : q[i] = e
  <2>1. q \in Seq(S \ {e})
    BY <1>0, <1>2
  <2>2. Range(q) = Range(q) \ {e}
    BY <1>0, <1>2 DEF Range
  <2> QED
    BY <1>2, <2>1, <2>2 DEF RemoveFirst
<1> QED
  BY <1>1, <1>2

\* Two lists of different elements, one behind the other.
LEMMA ConcatOnce ==
    ASSUME NEW S, NEW p \in Seq(S), NEW q \in Seq(S),
           IsInjective(p), IsInjective(q),
           \A i \in 1 .. Len(p), j \in 1 .. Len(q) : p[i] # q[j]
    PROVE  p \o q \in Seq(S) /\ IsInjective(p \o q)
<1> DEFINE r == p \o q
<1>1. /\ r \in Seq(S)
      /\ Len(r) = Len(p) + Len(q)
      /\ \A i \in 1 .. Len(p) + Len(q) :
             r[i] = IF i <= Len(p) THEN p[i] ELSE q[i - Len(p)]
  BY ConcatProperties
<1>2. /\ Len(p) \in Nat /\ Len(q) \in Nat
      /\ DOMAIN p = 1 .. Len(p) /\ DOMAIN q = 1 .. Len(q)
      /\ DOMAIN r = 1 .. Len(p) + Len(q)
  BY <1>1
<1> HIDE DEF r
<1>3. \A i \in DOMAIN r :
          /\ i <= Len(p) => i \in DOMAIN p /\ r[i] = p[i]
          /\ i > Len(p) => i - Len(p) \in DOMAIN q /\ r[i] = q[i - Len(p)]
  BY <1>1, <1>2
<1>4. ASSUME NEW i \in DOMAIN r, NEW j \in DOMAIN r, r[i] = r[j]
      PROVE  i = j
  <2>1. CASE i <= Len(p) /\ j <= Len(p)
    BY <1>3, <1>4, <2>1 DEF IsInjective
  <2>2. CASE i > Len(p) /\ j > Len(p)
    <3>1. i - Len(p) = j - Len(p)
      BY <1>3, <1>4, <2>2 DEF IsInjective
    <3> QED
      BY <1>2, <3>1
  <2>3. CASE i <= Len(p) /\ j > Len(p)
    BY <1>2, <1>3, <1>4, <2>3
  <2>4. CASE i > Len(p) /\ j <= Len(p)
    BY <1>2, <1>3, <1>4, <2>4
  <2> QED
    BY <1>2, <2>1, <2>2, <2>3, <2>4
<1> QED
  BY <1>1, <1>4 DEF IsInjective, r

\* A list of different elements is as long as it has elements.
LEMMA ListCardinality ==
    ASSUME NEW S, IsFiniteSet(S), NEW q \in Seq(S), IsInjective(q)
    PROVE  /\ IsFiniteSet(Range(q))
           /\ Cardinality(Range(q)) = Len(q)
           /\ Len(q) <= Cardinality(S)
<1>1. Len(q) \in Nat /\ DOMAIN q = 1 .. Len(q) /\ Range(q) \subseteq S
  BY DEF Range
<1>2. IsFiniteSet(Range(q)) /\ Cardinality(Range(q)) <= Cardinality(S)
  BY <1>1, FS_Subset
<1>3. q \in Bijection(1 .. Len(q), Range(q))
  BY <1>1 DEF Bijection, Injection, Surjection, IsInjective, Range
<1>4. Cardinality(Range(q)) = Len(q)
  BY <1>1, <1>3, FS_CountingElements DEF ExistsBijection
<1> QED
  BY <1>2, <1>4

-----------------------------------------------------------------------------
(* A list of lists in one *)

\* FlattenSeq computes the concatenation from the left: any function that does
\* so step by step gives its value.
LEMMA FlattenIs ==
    ASSUME NEW S, NEW qs \in Seq(Seq(S)), NEW g,
           g[0] = <<>>,
           \A i \in 1 .. Len(qs) : g[i] = g[i - 1] \o qs[i]
    PROVE  FlattenSeq(qs) = g[Len(qs)]
<1> DEFINE n == Len(qs)
           flatten[i \in 1 .. n] ==
               IF i = 1 THEN qs[i] ELSE flatten[i - 1] \o qs[i]
           f == [i \in 1 .. n |-> g[i]]
<1>1. n \in Nat /\ \A i \in 1 .. n : qs[i] \in Seq(S)
  OBVIOUS
<1>2. CASE n = 0
  <2>1. qs = <<>>
    BY <1>2
  <2> QED
    BY <1>2, <2>1 DEF FlattenSeq
<1>3. CASE n # 0
  <2>1. g[1] = qs[1]
    <3>1. 1 \in 1 .. Len(qs) /\ 1 - 1 = 0
      BY <1>1, <1>3
    <3>2. qs[1] \in Seq(S)
      BY <1>1, <3>1
    <3>3. g[1] = g[1 - 1] \o qs[1]
      BY <3>1
    <3>4. <<>> \o qs[1] = qs[1]
      BY <3>2
    <3> QED
      BY <3>1, <3>3, <3>4
  <2>2. ASSUME NEW i \in 1 .. n
        PROVE  f[i] = IF i = 1 THEN qs[i] ELSE f[i - 1] \o qs[i]
    <3>1. CASE i = 1
      BY <2>1, <3>1
    <3>2. CASE i # 1
      <4>1. i - 1 \in 1 .. n /\ f[i] = g[i] /\ f[i - 1] = g[i - 1]
        BY <1>1, <3>2
      <4> QED
        BY <3>2, <4>1
    <3> QED
      BY <3>1, <3>2
  <2>3. f = [i \in 1 .. n |-> IF i = 1 THEN qs[i] ELSE f[i - 1] \o qs[i]]
    <3>1. f = [i \in 1 .. n |-> f[i]]
      OBVIOUS
    <3> HIDE DEF f, n
    <3> QED
      BY <2>2, <3>1
  <2>4. flatten = [i \in 1 .. n |-> IF i = 1 THEN qs[i]
                                    ELSE flatten[i - 1] \o qs[i]]
    <3>1. \E h : h = [i \in 1 .. n |-> IF i = 1 THEN qs[i]
                                      ELSE h[i - 1] \o qs[i]]
      <4> HIDE DEF f, n
      <4> QED
        BY <2>3
    <3> HIDE DEF f, n
    <3> QED
      BY <3>1
  <2>5. FlattenSeq(qs) = flatten[n]
    BY <1>3 DEF FlattenSeq
  <2> HIDE DEF flatten, f, n
  <2>6. \A i \in 1 .. n :
           flatten[i] = IF i = 1 THEN qs[i] ELSE flatten[i - 1] \o qs[i]
    BY <2>4
  <2> DEFINE T == {i \in 0 .. n : i # 0 => flatten[i] = g[i]}
  <2>7. 0 \in T
    BY <1>1
  <2>8. ASSUME NEW i \in 1 .. n, i - 1 \in T PROVE i \in T
    <3>1. CASE i = 1
      BY <1>1, <2>1, <2>6, <3>1
    <3>2. CASE i # 1
      <4>1. i - 1 # 0 /\ i - 1 \in 1 .. n /\ i \in 0 .. n
        BY <1>1, <3>2
      <4>2. flatten[i] = flatten[i - 1] \o qs[i]
        BY <2>6, <3>2
      <4>3. g[i] = g[i - 1] \o qs[i]
        BY DEF n
      <4> QED
        BY <2>8, <4>1, <4>2, <4>3
    <3> QED
      BY <3>1, <3>2
  <2>9. n \in T
    <3> HIDE DEF T
    <3>1. \A i \in 0 .. n : i \in T
      BY <1>1, <2>7, <2>8, Induction
    <3> QED
      BY <1>1, <3>1
  <2> QED
    BY <1>3, <2>5, <2>9 DEF n
<1> QED
  BY <1>2, <1>3

\* One list more is concatenated to what there was.
LEMMA FlattenAppend ==
    ASSUME NEW S, NEW qs \in Seq(Seq(S)), NEW q \in Seq(S)
    PROVE  /\ FlattenSeq(Append(qs, q)) = FlattenSeq(qs) \o q
           /\ FlattenSeq(qs) \in Seq(S)
<1> DEFINE n == Len(qs)
           rs == Append(qs, q)
           Step == [i \in 1 .. n + 1 |-> [p \in Seq(S) |-> p \o rs[i]]]
<1>1. /\ n \in Nat /\ rs \in Seq(Seq(S)) /\ Len(rs) = n + 1
      /\ \A i \in 1 .. n : rs[i] = qs[i]
      /\ rs[n + 1] = q
  OBVIOUS
<1>2. \A i \in 1 .. n + 1 : rs[i] \in Seq(S)
  <2> HIDE DEF rs
  <2> QED
    BY <1>1
<1> HIDE DEF rs
<1>3. Step \in [1 .. n + 1 -> [Seq(S) -> Seq(S)]]
  BY <1>2
<1>4. PICK g : Computed(g, Seq(S), <<>>, n + 1, Step)
  <2>1. <<>> \in Seq(S) /\ n + 1 \in Nat
    BY <1>1
  <2> HIDE DEF Step, n
  <2> QED
    BY <1>3, <2>1, Recursion
<1>5. /\ g \in [0 .. n + 1 -> Seq(S)] /\ g[0] = <<>>
      /\ \A i \in 1 .. n + 1 : g[i] = g[i - 1] \o rs[i]
  <2>1. /\ g \in [0 .. n + 1 -> Seq(S)] /\ g[0] = <<>>
        /\ \A i \in 1 .. n + 1 : g[i] = Step[i][g[i - 1]]
    BY <1>4 DEF Computed
  <2>2. ASSUME NEW i \in 1 .. n + 1 PROVE g[i] = g[i - 1] \o rs[i]
    <3>1. i - 1 \in 0 .. n + 1
      BY <1>1
    <3>2. g[i - 1] \in Seq(S)
      BY <2>1, <3>1
    <3>3. g[i] = Step[i][g[i - 1]]
      BY <2>1
    <3> QED
      BY <3>2, <3>3
  <2> QED
    BY <2>1, <2>2
<1> HIDE DEF Step
<1>6. FlattenSeq(rs) = g[n + 1]
  <2>1. \A i \in 1 .. Len(rs) : g[i] = g[i - 1] \o rs[i]
    BY <1>1, <1>5
  <2> HIDE DEF n
  <2> QED
    BY <1>1, <1>5, <2>1, FlattenIs
<1>7. FlattenSeq(qs) = g[n]
  <2>1. ASSUME NEW i \in 1 .. Len(qs) PROVE g[i] = g[i - 1] \o qs[i]
    <3>1. i \in 1 .. n + 1 /\ rs[i] = qs[i]
      BY <1>1
    <3> HIDE DEF n
    <3> QED
      BY <1>5, <3>1
  <2> QED
    BY <1>5, <2>1, FlattenIs
<1>8. g[n + 1] = g[n] \o q /\ g[n] \in Seq(S)
  <2> HIDE DEF n
  <2>1. n + 1 \in 1 .. n + 1 /\ n \in 0 .. n + 1 /\ (n + 1) - 1 = n
    BY <1>1
  <2>2. g[n + 1] = g[(n + 1) - 1] \o rs[n + 1]
    BY <1>5, <2>1
  <2> QED
    BY <1>1, <1>5, <2>1, <2>2
<1> QED
  BY <1>6, <1>7, <1>8 DEF rs
=============================================================================
