--------------------------- MODULE HashTableProofs ---------------------------
(***************************************************************************)
(* The hash table keeps, for every set of keys, every hash function and    *)
(* every size: its two kinds of list, the agreement between them, and what *)
(* the rest of the server expects of it, an ordered map.                   *)
(***************************************************************************)
EXTENDS HashTable, ListLemmas

-----------------------------------------------------------------------------
(* A linked list *)

Nth(q, i) == IF i \in 1 .. Len(q) THEN q[i] ELSE NULL

\* From first on, the pointers are those of the list q.
IsList(q, first, nxt, prv) ==
    /\ q \in Seq(Key)
    /\ IsInjective(q)
    /\ first = Nth(q, 1)
    /\ \A i \in 1 .. Len(q) : /\ nxt[q[i]] = Nth(q, i + 1)
                              /\ prv[q[i]] = Nth(q, i - 1)

\* The list that Follow reads, as long as it is, is cut off nowhere.
LEMMA FollowReads ==
    ASSUME NEW nxt \in [Key -> Pointer], NEW q \in Seq(Key), IsInjective(q),
           \A i \in 1 .. Len(q) : nxt[q[i]] = Nth(q, i + 1)
    PROVE  Follow(nxt, Nth(q, 1)) = q
<1> DEFINE N == Cardinality(Key)
           Read == [Pointer -> Seq(Key)]
           first == [p \in Pointer |-> <<>>]
           more(f) == [p \in Pointer |-> IF p = NULL THEN <<>>
                                         ELSE <<p>> \o f[nxt[p]]]
           Step == [n \in 1 .. N |-> [f \in Read |-> more(f)]]
           from == CHOOSE from : from = [n \in 0 .. N |->
                       [p \in Pointer |-> IF n = 0 \/ p = NULL THEN <<>>
                                          ELSE <<p>> \o from[n - 1][nxt[p]]]]
<1>1. N \in Nat /\ Len(q) \in Nat /\ Len(q) <= N
  BY KeyAssumption, ListCardinality, FS_CardinalityType
<1>2. NULL \notin Key /\ Pointer = Key \cup {NULL}
  BY KeyAssumption DEF Pointer
<1>3. ASSUME NEW f \in Read PROVE more(f) \in Read
  <2> SUFFICES ASSUME NEW p \in Pointer, p # NULL
               PROVE  <<p>> \o f[nxt[p]] \in Seq(Key)
    OBVIOUS
  <2>1. <<p>> \in Seq(Key) /\ f[nxt[p]] \in Seq(Key)
    BY <1>2
  <2> QED
    BY <2>1
<1>4. first \in Read /\ Step \in [1 .. N -> [Read -> Read]]
  <2>1. first \in Read
    OBVIOUS
  <2> HIDE DEF more, first, Read, N
  <2> QED
    BY <1>3, <2>1
<1>5. \E f : f = [n \in 0 .. N |->
                    [p \in Pointer |-> IF n = 0 \/ p = NULL THEN <<>>
                                       ELSE <<p>> \o f[n - 1][nxt[p]]]]
  <2>1. PICK f : Computed(f, Read, first, N, Step)
    <3> HIDE DEF Step, first, Read, N
    <3> QED
      BY <1>1, <1>4, Recursion
  <2>2. ASSUME NEW n \in 1 .. N
        PROVE  f[n] = [p \in Pointer |-> IF p = NULL THEN <<>>
                                         ELSE <<p>> \o f[n - 1][nxt[p]]]
    <3>1. f[n] = Step[n][f[n - 1]] /\ f[n - 1] \in Read
      <4> HIDE DEF Step, Read
      <4> QED
        BY <1>1, <2>1 DEF Computed
    <3> QED
      BY <3>1
  <2>3. ASSUME NEW n \in 0 .. N
        PROVE  f[n] = [p \in Pointer |-> IF n = 0 \/ p = NULL THEN <<>>
                                         ELSE <<p>> \o f[n - 1][nxt[p]]]
    <3>1. CASE n = 0
      BY <2>1, <3>1 DEF Computed
    <3>2. CASE n \in 1 .. N
      BY <2>2, <3>2
    <3> QED
      BY <1>1, <3>1, <3>2
  <2> DEFINE g == [n \in 0 .. N |->
                    [p \in Pointer |-> IF n = 0 \/ p = NULL THEN <<>>
                                       ELSE <<p>> \o f[n - 1][nxt[p]]]]
  <2>4. f = g
    <3> HIDE DEF N, Read
    <3> QED
      BY <2>1, <2>3 DEF Computed
  <2> QED
    BY <2>4
<1>6. from = [n \in 0 .. N |->
                [p \in Pointer |-> IF n = 0 \/ p = NULL THEN <<>>
                                   ELSE <<p>> \o from[n - 1][nxt[p]]]]
  BY <1>5
<1>7. Follow(nxt, Nth(q, 1)) = from[N][Nth(q, 1)]
  BY DEF Follow
<1> HIDE DEF from, N
<1>8. /\ \A p \in Pointer : from[0][p] = <<>>
      /\ \A n \in 1 .. N, p \in Pointer :
            from[n][p] = IF p = NULL THEN <<>> ELSE <<p>> \o from[n - 1][nxt[p]]
  <2>1. ASSUME NEW n \in 0 .. N, NEW p \in Pointer
        PROVE  from[n][p] = IF n = 0 \/ p = NULL THEN <<>>
                            ELSE <<p>> \o from[n - 1][nxt[p]]
    <3>1. from[n] = [r \in Pointer |-> IF n = 0 \/ r = NULL THEN <<>>
                                       ELSE <<r>> \o from[n - 1][nxt[r]]]
      BY <1>6
    <3> QED
      BY <3>1
  <2>2. 0 \in 0 .. N /\ \A n \in 1 .. N : n \in 0 .. N /\ n # 0
    BY <1>1
  <2> QED
    BY <2>1, <2>2
<1> DEFINE Rest(i) == SubSeq(q, i, Len(q))
           T == {n \in 0 .. N : \A i \in 1 .. Len(q) + 1 :
                    Len(q) + 1 - i <= n => from[n][Nth(q, i)] = Rest(i)}
<1>9. /\ Rest(Len(q) + 1) = <<>>
      /\ \A i \in 1 .. Len(q) : Rest(i) = <<q[i]>> \o Rest(i + 1)
  OBVIOUS
<1>10. /\ Nth(q, Len(q) + 1) = NULL
       /\ \A i \in 1 .. Len(q) : Nth(q, i) = q[i] /\ q[i] \in Key
  BY <1>1 DEF Nth
<1> HIDE DEF Rest
<1>11. 0 \in T
  BY <1>1, <1>2, <1>8, <1>9, <1>10
<1>12. ASSUME NEW n \in 1 .. N, n - 1 \in T PROVE n \in T
  <2> SUFFICES ASSUME NEW i \in 1 .. Len(q) + 1, Len(q) + 1 - i <= n
               PROVE  from[n][Nth(q, i)] = Rest(i)
    BY <1>1
  <2>1. CASE i = Len(q) + 1
    BY <1>2, <1>8, <1>9, <1>10, <2>1
  <2>2. CASE i \in 1 .. Len(q)
    <3>1. from[n][q[i]] = <<q[i]>> \o from[n - 1][nxt[q[i]]]
      <4>1. q[i] \in Pointer /\ q[i] # NULL
        BY <1>2, <1>10, <2>2
      <4> QED
        BY <1>8, <4>1
    <3>2. i + 1 \in 1 .. Len(q) + 1 /\ Len(q) + 1 - (i + 1) <= n - 1
      BY <1>1, <2>2
    <3>3. from[n - 1][Nth(q, i + 1)] = Rest(i + 1)
      BY <1>12, <3>2
    <3> QED
      BY <1>9, <1>10, <2>2, <3>1, <3>3
  <2> QED
    BY <1>1, <2>1, <2>2
<1>13. N \in T
  <2> HIDE DEF T
  <2>1. \A n \in 0 .. N : n \in T
    BY <1>1, <1>11, <1>12, Induction
  <2> QED
    BY <1>1, <2>1
<1>14. from[N][Nth(q, 1)] = Rest(1)
  BY <1>1, <1>13
<1>15. Rest(1) = q
  BY DEF Rest
<1> QED
  BY <1>7, <1>14, <1>15

\* A list depends on the handles of its elements only.
LEMMA ListFrame ==
    ASSUME NEW q, NEW first, NEW nxt, NEW prv, NEW nxt2, NEW prv2,
           IsList(q, first, nxt, prv),
           \A k \in Range(q) : nxt2[k] = nxt[k] /\ prv2[k] = prv[k]
    PROVE  IsList(q, first, nxt2, prv2)
<1>1. \A i \in 1 .. Len(q) : q[i] \in Range(q)
  BY DEF IsList, Range
<1> QED
  BY <1>1 DEF IsList

\* The pointer to the first element is NULL, or an element.
LEMMA ListEntries ==
    ASSUME NEW q, NEW first, NEW nxt, NEW prv, IsList(q, first, nxt, prv)
    PROVE  /\ Len(q) \in Nat /\ DOMAIN q = 1 .. Len(q)
           /\ \A i \in 1 .. Len(q) : q[i] \in Key /\ q[i] \in Range(q)
           /\ \A k \in Range(q) : k \in Key /\ \E i \in 1 .. Len(q) : q[i] = k
           /\ Range(q) \subseteq Key
           /\ first \in Range(q) \cup {NULL}
           /\ q = <<>> <=> first = NULL
           /\ ToSet(q) = Range(q)
<1>1. q \in Seq(Key) /\ first = Nth(q, 1)
  BY DEF IsList
<1>2. Len(q) \in Nat /\ DOMAIN q = 1 .. Len(q)
  BY <1>1
<1>3. \A i \in 1 .. Len(q) : q[i] \in Key /\ q[i] \in Range(q)
  BY <1>1 DEF Range
<1>4. \A k \in Range(q) : k \in Key /\ \E i \in 1 .. Len(q) : q[i] = k
  BY <1>2, <1>3 DEF Range
<1>5. first \in Range(q) \cup {NULL}
  BY <1>1, <1>2, <1>3 DEF Nth
<1>6. q = <<>> <=> first = NULL
  BY <1>1, <1>3, KeyAssumption DEF Nth
<1>7. ToSet(q) = Range(q)
  BY DEF ToSet, Range
<1> QED
  BY <1>2, <1>3, <1>4, <1>5, <1>6, <1>7

\* An assignment changes the field of one element.
LEMMA SetElsewhere ==
    ASSUME NEW field, NEW p, NEW v, NEW p2 \in DOMAIN field, p2 # p
    PROVE  Set(field, p, v)[p2] = field[p2]
BY DEF Set

LEMMA PushFront ==
    ASSUME NEW nxt \in [Key -> Pointer], NEW prv \in [Key -> Pointer],
           NEW q, NEW first, IsList(q, first, nxt, prv),
           NEW k \in Key, k \notin Range(q)
    PROVE  /\ IsList(Cons(k, q), k,
                     Set(nxt, k, first), Set(Set(prv, k, NULL), first, k))
           /\ Range(Cons(k, q)) = Range(q) \cup {k}
           /\ Len(Cons(k, q)) = Len(q) + 1
           /\ Cons(k, q)[1] = k
           /\ \A i \in 1 .. Len(q) : Cons(k, q)[i + 1] = q[i]
<1> DEFINE r == Cons(k, q)
           nxt2 == Set(nxt, k, first)
           prv2 == Set(Set(prv, k, NULL), first, k)
<1>1. /\ q \in Seq(Key) /\ Len(q) \in Nat /\ first = Nth(q, 1)
      /\ IsInjective(q) /\ NULL \notin Key
      /\ \A i \in 1 .. Len(q) : q[i] \in Key /\ q[i] # k
  <2>1. /\ Len(q) \in Nat
        /\ \A i \in 1 .. Len(q) : q[i] \in Key /\ q[i] \in Range(q)
    BY ListEntries
  <2> QED
    BY <2>1, KeyAssumption DEF IsList
<1>2. /\ r \in Seq(Key) /\ Len(r) = Len(q) + 1 /\ r[1] = k
      /\ \A i \in 1 .. Len(q) : r[i + 1] = q[i]
  BY <1>1 DEF Cons
<1>3. IsInjective(r)
  <2>1. <<k>> \in Seq(Key) /\ Len(<<k>>) = 1 /\ <<k>>[1] = k
        /\ IsInjective(<<k>>)
    BY DEF IsInjective
  <2>2. \A i \in 1 .. Len(<<k>>), j \in 1 .. Len(q) : <<k>>[i] # q[j]
    BY <1>1, <2>1
  <2> QED
    BY <1>1, <2>1, <2>2, ConcatOnce DEF Cons
<1> HIDE DEF r
<1>4. ASSUME NEW i \in 1 .. Len(q) + 1 PROVE Nth(r, i + 1) = Nth(q, i)
  <2>1. CASE i = Len(q) + 1
    <3>1. i \notin 1 .. Len(q) /\ i + 1 \notin 1 .. Len(r)
      BY <1>1, <1>2, <2>1
    <3> QED
      BY <3>1 DEF Nth
  <2>2. CASE i \in 1 .. Len(q)
    <3>1. i + 1 \in 1 .. Len(r)
      BY <1>1, <1>2, <2>2
    <3> QED
      BY <1>2, <2>2, <3>1 DEF Nth
  <2> QED
    BY <1>1, <2>1, <2>2
<1>5. Nth(r, 1) = k /\ Nth(r, 0) = NULL
  BY <1>1, <1>2 DEF Nth
<1>6. nxt2[k] = first /\ \A p \in Key : p # k => nxt2[p] = nxt[p]
  BY <1>1 DEF Set
<1>7. /\ first # k
      /\ prv2[k] = NULL
      /\ \A p \in Key : p # k => prv2[p] = IF p = first THEN k ELSE prv[p]
  <2>1. first # k
    BY <1>1 DEF Nth
  <2> QED
    BY <1>1, <2>1 DEF Set
<1> HIDE DEF nxt2, prv2
<1>8. ASSUME NEW i \in 1 .. Len(r)
      PROVE  nxt2[r[i]] = Nth(r, i + 1) /\ prv2[r[i]] = Nth(r, i - 1)
  <2>1. CASE i = 1
    <3>1. nxt2[r[1]] = Nth(q, 1) /\ prv2[r[1]] = NULL
      BY <1>1, <1>2, <1>6, <1>7
    <3> QED
      BY <1>1, <1>4, <1>5, <2>1, <3>1
  <2>2. CASE i # 1
    <3>1. PICK j \in 1 .. Len(q) : i = j + 1
      <4>1. i - 1 \in 1 .. Len(q) /\ i = (i - 1) + 1
        BY <1>1, <1>2, <2>2
      <4> QED
        BY <4>1
    <3>2. r[i] = q[j] /\ q[j] \in Key /\ q[j] # k
      BY <1>1, <1>2, <3>1
    <3>3. nxt2[r[i]] = Nth(q, j + 1)
      BY <1>6, <3>2 DEF IsList
    <3>4. Nth(q, j + 1) = Nth(r, i + 1)
      BY <1>1, <1>4, <3>1
    <3>5. CASE j = 1
      <4>1. q[j] = first
        BY <1>1, <3>5 DEF Nth
      <4> QED
        BY <1>5, <1>7, <3>1, <3>2, <3>3, <3>4, <3>5, <4>1
    <3>6. CASE j # 1
      <4>1. q[j] # first
        BY <1>1, <3>2, <3>6 DEF Nth, IsInjective
      <4>2. prv2[q[j]] = Nth(q, j - 1)
        BY <1>7, <3>2, <4>1 DEF IsList
      <4>3. j - 1 \in 1 .. Len(q) + 1 /\ (j - 1) + 1 = i - 1
        BY <1>1, <3>1, <3>6
      <4>4. Nth(q, j - 1) = Nth(r, i - 1)
        BY <1>4, <4>3
      <4> QED
        BY <3>2, <3>3, <3>4, <4>2, <4>4
    <3> QED
      BY <3>5, <3>6
  <2> QED
    BY <2>1, <2>2
<1>9. Range(r) = Range(q) \cup {k}
  <2>1. DOMAIN r = 1 .. Len(q) + 1 /\ DOMAIN q = 1 .. Len(q)
    BY <1>1, <1>2
  <2>2. \A x \in Range(r) : x \in Range(q) \cup {k}
    <3> SUFFICES ASSUME NEW i \in 1 .. Len(q) + 1
                 PROVE  r[i] \in Range(q) \cup {k}
      BY <2>1 DEF Range
    <3>1. i = 1 \/ (i - 1 \in 1 .. Len(q) /\ (i - 1) + 1 = i)
      BY <1>1
    <3>2. ASSUME i - 1 \in 1 .. Len(q), (i - 1) + 1 = i
          PROVE  r[i] = q[i - 1] /\ q[i - 1] \in Range(q)
      BY <1>2, <2>1, <3>2 DEF Range
    <3> QED
      BY <1>2, <3>1, <3>2
  <2>3. \A j \in 1 .. Len(q) : q[j] \in Range(r)
    <3>1. \A j \in 1 .. Len(q) : j + 1 \in DOMAIN r /\ r[j + 1] = q[j]
      BY <1>1, <1>2, <2>1
    <3> QED
      BY <3>1 DEF Range
  <2>4. k \in Range(r)
    BY <1>1, <1>2, <2>1 DEF Range
  <2>5. \A x \in Range(q) : \E j \in 1 .. Len(q) : q[j] = x
    BY <2>1 DEF Range
  <2> QED
    BY <2>2, <2>3, <2>4, <2>5
<1>10. IsList(r, k, nxt2, prv2)
  BY <1>2, <1>3, <1>5, <1>8 DEF IsList
<1> QED
  BY <1>2, <1>9, <1>10 DEF r, nxt2, prv2

LEMMA PushBack ==
    ASSUME NEW nxt \in [Key -> Pointer], NEW prv \in [Key -> Pointer],
           NEW q, NEW first, IsList(q, first, nxt, prv), q # <<>>,
           NEW k \in Key, k \notin Range(q)
    PROVE  /\ IsList(Append(q, k), first,
                     Set(Set(nxt, k, NULL), Last(q), k), Set(prv, k, Last(q)))
           /\ Range(Append(q, k)) = Range(q) \cup {k}
           /\ Last(q) \in Range(q)
<1> DEFINE r == Append(q, k)
           nxt2 == Set(Set(nxt, k, NULL), Last(q), k)
           prv2 == Set(prv, k, Last(q))
<1>0. Len(q) \in Nat /\ Len(q) >= 1 /\ Len(q) \in 1 .. Len(q)
  <2>1. q \in Seq(Key) /\ Len(q) \in Nat
    BY DEF IsList
  <2>2. Len(q) # 0
    BY <2>1
  <2> QED
    BY <2>1, <2>2
<1>1. /\ q \in Seq(Key) /\ first = Nth(q, 1)
      /\ IsInjective(q) /\ NULL \notin Key /\ DOMAIN q = 1 .. Len(q)
      /\ \A i \in 1 .. Len(q) : q[i] \in Key /\ q[i] # k
  <2>1. /\ Len(q) \in Nat
        /\ \A i \in 1 .. Len(q) : q[i] \in Key /\ q[i] \in Range(q)
    BY ListEntries
  <2> QED
    BY <2>1, KeyAssumption DEF IsList
<1>2. /\ r \in Seq(Key) /\ Len(r) = Len(q) + 1 /\ r[Len(q) + 1] = k
      /\ \A i \in 1 .. Len(q) : r[i] = q[i]
  BY <1>0, <1>1
<1>3. IsInjective(r) /\ Range(r) = Range(q) \cup {k}
  BY <1>1, AppendOnce
<1>4. Last(q) = q[Len(q)] /\ Last(q) \in Key /\ Last(q) # k
      /\ Last(q) \in Range(q)
  BY <1>0, <1>1 DEF Last, Range
<1> HIDE DEF r
<1>5. \A i \in 0 .. Len(q) : Nth(r, i) = Nth(q, i)
  BY <1>0, <1>2 DEF Nth
<1>6. Nth(r, Len(q) + 1) = k /\ Nth(r, Len(q) + 2) = NULL
  BY <1>0, <1>2 DEF Nth
<1>7. /\ nxt2[k] = NULL /\ nxt2[Last(q)] = k /\ prv2[k] = Last(q)
      /\ \A p \in Key : p # k => prv2[p] = prv[p]
      /\ \A p \in Key : p # k /\ p # Last(q) => nxt2[p] = nxt[p]
  BY <1>1, <1>4 DEF Set
<1> HIDE DEF nxt2, prv2
<1>8. ASSUME NEW i \in 1 .. Len(q) + 1
      PROVE  nxt2[r[i]] = Nth(r, i + 1) /\ prv2[r[i]] = Nth(r, i - 1)
  <2>1. CASE i = Len(q) + 1
    <3>1. Nth(r, Len(q)) = Last(q) /\ i - 1 = Len(q) /\ i + 1 = Len(q) + 2
      <4>1. Len(q) \in 0 .. Len(q) /\ i - 1 = Len(q) /\ i + 1 = Len(q) + 2
        BY <1>0, <2>1
      <4>2. Nth(q, Len(q)) = Last(q)
        BY <1>0, <1>4 DEF Nth
      <4> QED
        BY <1>5, <4>1, <4>2
    <3> QED
      BY <1>2, <1>6, <1>7, <2>1, <3>1
  <2>2. CASE i = Len(q)
    <3>1. r[i] = Last(q) /\ i \in 1 .. Len(q)
      BY <1>1, <1>2, <1>4, <2>2
    <3>2. prv2[q[i]] = Nth(q, i - 1)
      BY <1>1, <1>7, <3>1 DEF IsList
    <3>3. Nth(q, i - 1) = Nth(r, i - 1)
      BY <1>0, <1>5, <3>1
    <3> QED
      BY <1>2, <1>6, <1>7, <2>2, <3>1, <3>2, <3>3
  <2>3. CASE i \in 1 .. Len(q) - 1
    <3>1. i \in 1 .. Len(q) /\ i # Len(q) /\ i + 1 \in 0 .. Len(q)
          /\ i - 1 \in 0 .. Len(q)
      BY <1>0, <2>3
    <3>2. r[i] = q[i] /\ q[i] \in Key /\ q[i] # k /\ q[i] # Last(q)
      BY <1>0, <1>1, <1>2, <1>4, <3>1 DEF IsInjective
    <3>3. nxt2[q[i]] = Nth(q, i + 1) /\ prv2[q[i]] = Nth(q, i - 1)
      BY <1>7, <3>1, <3>2 DEF IsList
    <3> QED
      BY <1>5, <3>1, <3>2, <3>3
  <2> QED
    BY <1>0, <1>2, <2>1, <2>2, <2>3
<1>9. first = Nth(r, 1)
  BY <1>0, <1>1, <1>5
<1>10. IsList(r, first, nxt2, prv2)
  BY <1>2, <1>3, <1>8, <1>9 DEF IsList
<1> QED
  BY <1>3, <1>4, <1>10 DEF r, nxt2, prv2

\* An element is taken out: its neighbours point at each other, and what
\* pointed at the first element moves on when it is the first.
LEMMA Unlink ==
    ASSUME NEW nxt \in [Key -> Pointer], NEW prv \in [Key -> Pointer],
           NEW q, NEW first, IsList(q, first, nxt, prv),
           NEW n \in 1 .. Len(q)
    PROVE  /\ IsList(RemoveAt(q, n),
                     IF first = q[n] THEN nxt[q[n]] ELSE first,
                     Forget(Set(nxt, prv[q[n]], nxt[q[n]]), q[n]),
                     Forget(Set(prv, nxt[q[n]], prv[q[n]]), q[n]))
           /\ Range(RemoveAt(q, n)) = Range(q) \ {q[n]}
           /\ first = q[n] <=> prv[q[n]] = NULL
           /\ first = q[n] <=> n = 1
           /\ nxt[q[n]] = NULL <=> n = Len(q)
           /\ prv[q[n]] \in Range(q) \cup {NULL}
           /\ nxt[q[n]] \in Range(q) \cup {NULL}
<1> DEFINE r == RemoveAt(q, n)
           k == q[n]
           first2 == IF first = k THEN nxt[k] ELSE first
           nxt2 == Forget(Set(nxt, prv[k], nxt[k]), k)
           prv2 == Forget(Set(prv, nxt[k], prv[k]), k)
<1>0. Len(q) \in Nat /\ n \in Nat /\ 1 <= n /\ n <= Len(q)
      /\ 1 \in 1 .. Len(q)
  <2>1. q \in Seq(Key) /\ Len(q) \in Nat
    BY DEF IsList
  <2> QED
    BY <2>1
<1>1. /\ q \in Seq(Key) /\ first = q[1]
      /\ IsInjective(q) /\ NULL \notin Key /\ DOMAIN q = 1 .. Len(q)
      /\ \A i \in 1 .. Len(q) : q[i] \in Key /\ q[i] \in Range(q)
      /\ \A i, j \in 1 .. Len(q) : q[i] = q[j] => i = j
  <2>1. /\ Len(q) \in Nat /\ DOMAIN q = 1 .. Len(q)
        /\ \A i \in 1 .. Len(q) : q[i] \in Key /\ q[i] \in Range(q)
    BY ListEntries
  <2> QED
    BY <1>0, <2>1, KeyAssumption DEF IsList, IsInjective, Nth
<1>2. k \in Key /\ nxt[k] = Nth(q, n + 1) /\ prv[k] = Nth(q, n - 1)
  BY <1>1 DEF IsList
<1>3. /\ r \in Seq(Key) /\ Len(r) = Len(q) - 1
      /\ \A j \in 1 .. Len(q) - 1 : r[j] = IF j < n THEN q[j] ELSE q[j + 1]
  <2>1. q \in Seq(Key)
    BY <1>1
  <2> QED
    BY <2>1, RemoveAtEntries, Zenon
<1>4. IsInjective(r) /\ Range(r) = Range(q) \ {k}
  BY <1>1, RemoveAtOnce
<1>5. /\ n > 1 => n - 1 \in 1 .. Len(q) /\ prv[k] = q[n - 1]
      /\ n = 1 => prv[k] = NULL
      /\ n < Len(q) => n + 1 \in 1 .. Len(q) /\ nxt[k] = q[n + 1]
      /\ n = Len(q) => nxt[k] = NULL
  BY <1>0, <1>2 DEF Nth
<1>6. /\ first = k <=> n = 1
      /\ prv[k] = NULL <=> n = 1
      /\ nxt[k] = NULL <=> n = Len(q)
      /\ prv[k] \in Range(q) \cup {NULL}
      /\ nxt[k] \in Range(q) \cup {NULL}
  <2>1. n = 1 \/ n > 1
    BY <1>0
  <2>2. n = Len(q) \/ n < Len(q)
    BY <1>0
  <2>3. first = k <=> n = 1
    BY <1>0, <1>1
  <2>4. prv[k] \in Range(q) \cup {NULL} /\ (prv[k] = NULL <=> n = 1)
    <3>1. n > 1 => n # 1
      BY <1>0
    <3>2. \A i \in 1 .. Len(q) : q[i] \in Range(q) /\ q[i] # NULL
      BY <1>1
    <3> QED
      BY <1>5, <2>1, <3>1, <3>2
  <2>5. nxt[k] \in Range(q) \cup {NULL} /\ (nxt[k] = NULL <=> n = Len(q))
    <3>1. n < Len(q) => n # Len(q)
      BY <1>0
    <3>2. \A i \in 1 .. Len(q) : q[i] \in Range(q) /\ q[i] # NULL
      BY <1>1
    <3> QED
      BY <1>5, <2>2, <3>1, <3>2
  <2> QED
    BY <2>3, <2>4, <2>5
<1>7. ASSUME NEW p \in Key, p # k
      PROVE  /\ nxt2[p] = IF p = prv[k] THEN nxt[k] ELSE nxt[p]
             /\ prv2[p] = IF p = nxt[k] THEN prv[k] ELSE prv[p]
  BY <1>1, <1>2, <1>7 DEF Forget, Set
<1> HIDE DEF r, nxt2, prv2
<1>8. ASSUME NEW i \in 1 .. Len(q), i # n
      PROVE  /\ nxt2[q[i]] = IF i = n - 1 THEN Nth(q, i + 2) ELSE Nth(q, i + 1)
             /\ prv2[q[i]] = IF i = n + 1 THEN Nth(q, i - 2) ELSE Nth(q, i - 1)
  <2>1. q[i] \in Key /\ q[i] # k
    BY <1>1, <1>8
  <2>2. q[i] = prv[k] <=> i = n - 1
    <3>1. CASE n > 1
      BY <1>1, <1>5, <1>8, <3>1
    <3>2. CASE n = 1
      <4>1. i # n - 1 /\ q[i] # NULL
        BY <1>1, <3>2
      <4> QED
        BY <1>5, <3>2, <4>1
    <3> QED
      BY <1>0, <3>1, <3>2
  <2>3. q[i] = nxt[k] <=> i = n + 1
    <3>1. CASE n < Len(q)
      BY <1>1, <1>5, <1>8, <3>1
    <3>2. CASE n = Len(q)
      <4>1. i # n + 1 /\ q[i] # NULL
        BY <1>0, <1>1, <3>2
      <4> QED
        BY <1>5, <3>2, <4>1
    <3> QED
      BY <1>0, <3>1, <3>2
  <2>4. i = n - 1 => n + 1 = i + 2
    OBVIOUS
  <2>5. i = n + 1 => n - 1 = i - 2
    OBVIOUS
  <2>6. nxt[q[i]] = Nth(q, i + 1) /\ prv[q[i]] = Nth(q, i - 1)
    BY <1>8 DEF IsList
  <2> QED
    BY <1>2, <1>7, <2>1, <2>2, <2>3, <2>4, <2>5, <2>6
<1>9. /\ \A j \in 0 .. n - 1 : Nth(r, j) = Nth(q, j)
      /\ \A j \in n .. Len(q) : Nth(r, j) = Nth(q, j + 1)
  <2>1. \A j \in 0 .. n - 1 : Nth(r, j) = Nth(q, j)
    BY <1>0, <1>3 DEF Nth
  <2>2. \A j \in n .. Len(q) : Nth(r, j) = Nth(q, j + 1)
    BY <1>0, <1>3 DEF Nth
  <2> QED
    BY <2>1, <2>2
<1>10. ASSUME NEW i \in 1 .. Len(r)
       PROVE  nxt2[r[i]] = Nth(r, i + 1) /\ prv2[r[i]] = Nth(r, i - 1)
  <2>1. CASE i < n
    <3>1. i \in 1 .. Len(q) /\ i # n /\ i # n + 1 /\ r[i] = q[i]
      BY <1>0, <1>3, <2>1
    <3>2. prv2[r[i]] = Nth(q, i - 1)
      BY <1>8, <3>1
    <3>3. i - 1 \in 0 .. n - 1
      BY <2>1, <3>1
    <3>4. CASE i = n - 1
      <4>1. nxt2[r[i]] = Nth(q, i + 2)
        BY <1>8, <3>1, <3>4
      <4>2. i + 1 \in n .. Len(q) /\ (i + 1) + 1 = i + 2
        BY <3>1, <3>4
      <4> QED
        BY <1>9, <3>2, <3>3, <4>1, <4>2
    <3>5. CASE i # n - 1
      <4>1. nxt2[r[i]] = Nth(q, i + 1)
        BY <1>8, <3>1, <3>5
      <4>2. i + 1 \in 0 .. n - 1
        BY <2>1, <3>1, <3>5
      <4> QED
        BY <1>9, <3>2, <3>3, <4>1, <4>2
    <3> QED
      BY <3>4, <3>5
  <2>2. CASE ~(i < n)
    <3>1. /\ i + 1 \in 1 .. Len(q) /\ i + 1 # n /\ i + 1 # n - 1
          /\ i \in 1 .. Len(q) - 1
      BY <1>0, <1>3, <2>2
    <3>2. r[i] = q[i + 1]
      BY <1>3, <2>2, <3>1
    <3>3. nxt2[r[i]] = Nth(q, (i + 1) + 1)
      BY <1>8, <3>1, <3>2
    <3>4. i + 1 \in n .. Len(q)
      BY <2>2, <3>1
    <3>5. CASE i = n
      <4>1. i + 1 = n + 1 /\ (i + 1) - 2 = i - 1
        BY <3>5
      <4>2. prv2[r[i]] = Nth(q, i - 1)
        BY <1>8, <3>1, <3>2, <4>1
      <4>3. i - 1 \in 0 .. n - 1
        BY <3>5
      <4> QED
        BY <1>9, <3>3, <3>4, <4>2, <4>3
    <3>6. CASE i # n
      <4>1. i + 1 # n + 1 /\ (i + 1) - 1 = i /\ (i - 1) + 1 = i
        BY <3>6
      <4>2. prv2[r[i]] = Nth(q, i)
        BY <1>8, <3>1, <3>2, <4>1
      <4>3. i - 1 \in n .. Len(q)
        BY <2>2, <3>1, <3>6
      <4>4. Nth(r, i - 1) = Nth(q, i)
        BY <1>9, <4>1, <4>3
      <4> QED
        BY <1>9, <3>3, <3>4, <4>2, <4>4
    <3> QED
      BY <3>5, <3>6
  <2> QED
    BY <2>1, <2>2
<1>11. first2 = Nth(r, 1)
  <2>1. CASE n = 1
    <3>1. 1 \in n .. Len(q) /\ Nth(r, 1) = Nth(q, 2)
      BY <1>0, <1>9, <2>1
    <3> QED
      BY <1>2, <1>6, <2>1, <3>1
  <2>2. CASE n # 1
    <3>1. 1 \in 0 .. n - 1 /\ 1 \in 1 .. Len(q)
      BY <1>0, <2>2
    <3> QED
      BY <1>1, <1>6, <1>9, <2>2, <3>1 DEF Nth
  <2> QED
    BY <2>1, <2>2
<1>12. IsList(r, first2, nxt2, prv2)
  <2> HIDE DEF first2
  <2> QED
    BY <1>3, <1>4, <1>10, <1>11 DEF IsList
<1> QED
  BY <1>4, <1>6, <1>12 DEF r, nxt2, prv2

-----------------------------------------------------------------------------
(* The buckets *)

ChainsOf(num) ==
    [hh_next : [Key -> Pointer], hh_prev : [Key -> Pointer],
     buckets : [0 .. num - 1 -> UT_hash_bucket]]

BucketList(c, b) == Follow(c.hh_next, c.buckets[b].hh_head)

\* The list of a bucket is the elements of D that belong there, as many as
\* its count says.
BucketHolds(c, h, num, D, b) ==
    /\ IsList(BucketList(c, b), c.buckets[b].hh_head, c.hh_next, c.hh_prev)
    /\ Range(BucketList(c, b)) = {k \in D : h[k] % num = b}
    /\ c.buckets[b].count = Len(BucketList(c, b))

BucketsHold(c, h, num, D) == \A b \in 0 .. num - 1 : BucketHolds(c, h, num, D, b)

LEMMA BucketOf ==
    ASSUME NEW h \in [Key -> Nat], NEW k \in Key, NEW num \in Nat \ {0}
    PROVE  h[k] % num \in 0 .. num - 1
<1>1. h[k] \in Nat
  OBVIOUS
<1> QED
  BY <1>1

\* A list that fits is the one that Follow reads.
LEMMA BucketHoldsIf ==
    ASSUME NEW num \in Nat, NEW c \in ChainsOf(num), NEW h, NEW D, NEW b, NEW q,
           IsList(q, c.buckets[b].hh_head, c.hh_next, c.hh_prev),
           Range(q) = {k \in D : h[k] % num = b},
           c.buckets[b].count = Len(q)
    PROVE  BucketList(c, b) = q /\ BucketHolds(c, h, num, D, b)
<1>1. c.hh_next \in [Key -> Pointer]
  BY DEF ChainsOf
<1>2. Follow(c.hh_next, Nth(q, 1)) = q
  BY <1>1, FollowReads DEF IsList
<1>3. BucketList(c, b) = q
  BY <1>2 DEF BucketList, IsList
<1> QED
  BY <1>3 DEF BucketHolds

\* The record of a bucket, its first element and its count.
IsBucket(bkt, first, n) ==
    bkt \in UT_hash_bucket /\ bkt.hh_head = first /\ bkt.count = n

LEMMA BucketFields ==
    ASSUME NEW bkt \in UT_hash_bucket, NEW p \in Pointer, NEW n \in Nat
    PROVE  /\ IsBucket(Relinked(bkt, p, n), p, n)
           /\ Relinked(bkt, p, n).expand_mult = bkt.expand_mult
BY DEF UT_hash_bucket, Relinked, IsBucket

\* The pointers and the bucket b are new, the other buckets are as they were.
Changed(c, num, c2, nxt2, prv2, b, bkt2) ==
    /\ c2 \in ChainsOf(num)
    /\ c2.hh_next = nxt2
    /\ c2.hh_prev = prv2
    /\ c2.buckets[b] = bkt2
    /\ \A b2 \in 0 .. num - 1 : b2 # b => c2.buckets[b2] = c.buckets[b2]

LEMMA ChangedIf ==
    ASSUME NEW num \in Nat, NEW c \in ChainsOf(num), NEW b \in 0 .. num - 1,
           NEW nxt2 \in [Key -> Pointer], NEW prv2 \in [Key -> Pointer],
           NEW bkt2 \in UT_hash_bucket, NEW c2,
           c2 = [hh_next |-> nxt2, hh_prev |-> prv2,
                 buckets |-> [c.buckets EXCEPT ![b] = bkt2]]
    PROVE  Changed(c, num, c2, nxt2, prv2, b, bkt2)
<1> DEFINE bks2 == [c.buckets EXCEPT ![b] = bkt2]
<1>1. c.buckets \in [0 .. num - 1 -> UT_hash_bucket]
  BY DEF ChainsOf
<1>2. /\ bks2 \in [0 .. num - 1 -> UT_hash_bucket]
      /\ bks2[b] = bkt2
      /\ \A b2 \in 0 .. num - 1 : b2 # b => bks2[b2] = c.buckets[b2]
  BY <1>1
<1> HIDE DEF bks2
<1>3. c2 \in ChainsOf(num)
  BY <1>2 DEF ChainsOf, bks2
<1>4. c2.hh_next = nxt2 /\ c2.hh_prev = prv2 /\ c2.buckets = bks2
  BY DEF bks2
<1> QED
  BY <1>2, <1>3, <1>4 DEF Changed

LEMMA LinkFields ==
    ASSUME NEW num \in Nat, NEW c \in ChainsOf(num),
           NEW b \in 0 .. num - 1, NEW k \in Key
    PROVE  \E bkt2 :
              /\ IsBucket(bkt2, k, c.buckets[b].count + 1)
              /\ bkt2.expand_mult = c.buckets[b].expand_mult
              /\ Changed(c, num, LinkIntoBucket(c, b, k),
                         Set(c.hh_next, k, c.buckets[b].hh_head),
                         Set(Set(c.hh_prev, k, NULL), c.buckets[b].hh_head, k),
                         b, bkt2)
<1> DEFINE bkt == c.buckets[b]
           n == bkt.count + 1
           nxt2 == Set(c.hh_next, k, bkt.hh_head)
           prv2 == Set(Set(c.hh_prev, k, NULL), bkt.hh_head, k)
           bkt2 == Relinked(bkt, k, n)
           c2 == LinkIntoBucket(c, b, k)
<1>1. /\ c.hh_next \in [Key -> Pointer] /\ c.hh_prev \in [Key -> Pointer]
      /\ c.buckets \in [0 .. num - 1 -> UT_hash_bucket]
      /\ k \in Pointer
  BY DEF ChainsOf, Pointer
<1>2. bkt \in UT_hash_bucket
  BY <1>1
<1>3. c2 = [hh_next |-> nxt2, hh_prev |-> prv2,
            buckets |-> [c.buckets EXCEPT ![b] = bkt2]]
  BY DEF LinkIntoBucket
<1> HIDE DEF bkt, c2
<1>4. n \in Nat /\ bkt.hh_head \in Pointer
  BY <1>2 DEF UT_hash_bucket
<1>5. nxt2 \in [Key -> Pointer] /\ prv2 \in [Key -> Pointer]
  BY <1>1, <1>4 DEF Set, Pointer
<1> HIDE DEF n, nxt2, prv2
<1>6. IsBucket(bkt2, k, n) /\ bkt2.expand_mult = bkt.expand_mult
  BY <1>1, <1>2, <1>4, BucketFields
<1> HIDE DEF bkt2
<1>7. Changed(c, num, c2, nxt2, prv2, b, bkt2)
  BY <1>3, <1>5, <1>6, ChangedIf DEF IsBucket
<1> QED
  BY <1>6, <1>7 DEF bkt, n, nxt2, prv2, c2

\* The element is the first of its bucket, which is the only one that changed.
LinkedIn(c, c2, num, b, k) ==
    /\ BucketList(c2, b) = Cons(k, BucketList(c, b))
    /\ \A b2 \in 0 .. num - 1 :
          b2 # b => BucketList(c2, b2) = BucketList(c, b2)

LEMMA LinkKeepsBuckets ==
    ASSUME NEW num \in Nat \ {0}, NEW c \in ChainsOf(num),
           NEW h \in [Key -> Nat], NEW D \in SUBSET Key, NEW k \in Key \ D,
           BucketsHold(c, h, num, D)
    PROVE  LET b == h[k] % num
               c2 == LinkIntoBucket(c, b, k)
           IN  /\ c2 \in ChainsOf(num)
               /\ BucketsHold(c2, h, num, D \cup {k})
               /\ LinkedIn(c, c2, num, b, k)
<1> DEFINE b == h[k] % num
           first == c.buckets[b].hh_head
           nxt2 == Set(c.hh_next, k, first)
           prv2 == Set(Set(c.hh_prev, k, NULL), first, k)
           c2 == LinkIntoBucket(c, b, k)
           q == BucketList(c, b)
<1>1. /\ c.hh_next \in [Key -> Pointer] /\ c.hh_prev \in [Key -> Pointer]
      /\ b \in 0 .. num - 1 /\ k \in Key /\ h[k] % num = b
  BY BucketOf DEF ChainsOf
<1> HIDE DEF b, c2
<1>2. PICK bkt2 : /\ IsBucket(bkt2, k, c.buckets[b].count + 1)
                  /\ Changed(c, num, c2, nxt2, prv2, b, bkt2)
  BY <1>1, LinkFields DEF c2
<1>5. /\ c2.hh_next = nxt2 /\ c2.hh_prev = prv2
      /\ c2.buckets[b].hh_head = k
      /\ c2.buckets[b].count = c.buckets[b].count + 1
      /\ \A b2 \in 0 .. num - 1 : b2 # b => c2.buckets[b2] = c.buckets[b2]
      /\ c2 \in ChainsOf(num)
  BY <1>2 DEF Changed, IsBucket
<1>6. /\ IsList(q, first, c.hh_next, c.hh_prev)
      /\ Range(q) = {p \in D : h[p] % num = b}
      /\ c.buckets[b].count = Len(q)
  BY <1>1 DEF BucketsHold, BucketHolds
<1>7. /\ IsList(Cons(k, q), k, nxt2, prv2)
      /\ Range(Cons(k, q)) = Range(q) \cup {k}
      /\ Len(Cons(k, q)) = Len(q) + 1
  <2> HIDE DEF q, first
  <2>1. k \notin Range(q)
    BY <1>6
  <2> DEFINE nxt == c.hh_next
             prv == c.hh_prev
  <2>2. IsList(q, first, nxt, prv)
    BY <1>6
  <2>3. nxt \in [Key -> Pointer] /\ prv \in [Key -> Pointer] /\ k \in Key
    BY <1>1
  <2> HIDE DEF nxt, prv
  <2>4. /\ IsList(Cons(k, q), k,
                  Set(nxt, k, first), Set(Set(prv, k, NULL), first, k))
        /\ Range(Cons(k, q)) = Range(q) \cup {k}
        /\ Len(Cons(k, q)) = Len(q) + 1
    BY <2>1, <2>2, <2>3, PushFront
  <2> QED
    BY <2>4 DEF nxt, prv
<1>8. /\ first # NULL => first \in D /\ h[first] % num = b
      /\ first \in Key \cup {NULL}
  <2> HIDE DEF q, first
  <2>1. first \in Range(q) \cup {NULL} /\ Range(q) \subseteq Key
    BY <1>6, ListEntries
  <2> QED
    BY <1>6, <2>1
<1> HIDE DEF q
<1>9. BucketList(c2, b) = Cons(k, q) /\ BucketHolds(c2, h, num, D \cup {k}, b)
  <2>1. Range(Cons(k, q)) = {p \in D \cup {k} : h[p] % num = b}
    BY <1>1, <1>6, <1>7
  <2>2. c2.buckets[b].count = Len(Cons(k, q))
    BY <1>5, <1>6, <1>7
  <2>3. IsList(Cons(k, q), c2.buckets[b].hh_head, c2.hh_next, c2.hh_prev)
    BY <1>5, <1>7
  <2> HIDE DEF c2
  <2> QED
    BY <1>5, <2>1, <2>2, <2>3, BucketHoldsIf
<1>10. ASSUME NEW b2 \in 0 .. num - 1, b2 # b
       PROVE  /\ BucketList(c2, b2) = BucketList(c, b2)
              /\ BucketHolds(c2, h, num, D \cup {k}, b2)
  <2> DEFINE q2 == BucketList(c, b2)
  <2>1. /\ IsList(q2, c.buckets[b2].hh_head, c.hh_next, c.hh_prev)
        /\ Range(q2) = {p \in D : h[p] % num = b2}
        /\ c.buckets[b2].count = Len(q2)
    BY DEF BucketsHold, BucketHolds
  <2> HIDE DEF q2
  <2>2. \A p \in Range(q2) : nxt2[p] = c.hh_next[p] /\ prv2[p] = c.hh_prev[p]
    <3> SUFFICES ASSUME NEW p \in Range(q2)
                 PROVE  nxt2[p] = c.hh_next[p] /\ prv2[p] = c.hh_prev[p]
      OBVIOUS
    <3>1. p \in Key /\ p # k /\ p # first
      BY <1>8, <1>10, <2>1, KeyAssumption
    <3> HIDE DEF first
    <3> QED
      BY <1>1, <1>8, <3>1 DEF Set
  <2>3. IsList(q2, c2.buckets[b2].hh_head, c2.hh_next, c2.hh_prev)
    <3> HIDE DEF nxt2, prv2, c2
    <3> QED
      BY <1>5, <1>10, <2>1, <2>2, ListFrame
  <2>4. Range(q2) = {p \in D \cup {k} : h[p] % num = b2}
    BY <1>1, <1>10, <2>1
  <2>5. c2.buckets[b2].count = Len(q2)
    BY <1>5, <1>10, <2>1
  <2> HIDE DEF c2
  <2>6. BucketList(c2, b2) = q2 /\ BucketHolds(c2, h, num, D \cup {k}, b2)
    BY <1>5, <2>3, <2>4, <2>5, BucketHoldsIf
  <2> QED
    BY <2>6 DEF q2
<1>11. BucketsHold(c2, h, num, D \cup {k})
  BY <1>9, <1>10 DEF BucketsHold
<1>12. LinkedIn(c, c2, num, b, k)
  BY <1>9, <1>10 DEF LinkedIn, q
<1> QED
  BY <1>5, <1>11, <1>12 DEF b, c2

\* The pointers after HASH_DELETE has taken an element out of its bucket.
Taken(c, b, k) ==
    LET left == HASH_DEL_IN_BKT(c, b, k)
    IN  [hh_next |-> Forget(left.hh_next, k), hh_prev |-> Forget(left.hh_prev, k),
         buckets |-> left.buckets]

LEMMA UnlinkFields ==
    ASSUME NEW num \in Nat, NEW c \in ChainsOf(num),
           NEW b \in 0 .. num - 1, NEW k \in Key, c.buckets[b].count # 0
    PROVE  \E bkt2 :
              /\ IsBucket(bkt2,
                          IF c.buckets[b].hh_head = k THEN c.hh_next[k]
                          ELSE c.buckets[b].hh_head,
                          c.buckets[b].count - 1)
              /\ bkt2.expand_mult = c.buckets[b].expand_mult
              /\ Changed(c, num, Taken(c, b, k),
                         Forget(Set(c.hh_next, c.hh_prev[k], c.hh_next[k]), k),
                         Forget(Set(c.hh_prev, c.hh_next[k], c.hh_prev[k]), k),
                         b, bkt2)
<1> DEFINE bkt == c.buckets[b]
           n == bkt.count - 1
           first == IF bkt.hh_head = k THEN c.hh_next[k] ELSE bkt.hh_head
           nxt2 == Forget(Set(c.hh_next, c.hh_prev[k], c.hh_next[k]), k)
           prv2 == Forget(Set(c.hh_prev, c.hh_next[k], c.hh_prev[k]), k)
           bkt2 == Relinked(bkt, first, n)
           c2 == Taken(c, b, k)
<1>1. /\ c.hh_next \in [Key -> Pointer] /\ c.hh_prev \in [Key -> Pointer]
      /\ c.buckets \in [0 .. num - 1 -> UT_hash_bucket]
  BY DEF ChainsOf
<1>2. bkt \in UT_hash_bucket
  BY <1>1
<1>3. c2 = [hh_next |-> nxt2, hh_prev |-> prv2,
            buckets |-> [c.buckets EXCEPT ![b] = bkt2]]
  BY DEF Taken, HASH_DEL_IN_BKT
<1> HIDE DEF bkt, c2
<1>4. n \in Nat /\ first \in Pointer
  BY <1>1, <1>2 DEF UT_hash_bucket, bkt
<1>5. nxt2 \in [Key -> Pointer] /\ prv2 \in [Key -> Pointer]
  BY <1>1 DEF Forget, Set, Pointer
<1> HIDE DEF n, nxt2, prv2, first
<1>6. IsBucket(bkt2, first, n) /\ bkt2.expand_mult = bkt.expand_mult
  BY <1>2, <1>4, BucketFields
<1> HIDE DEF bkt2
<1>7. Changed(c, num, c2, nxt2, prv2, b, bkt2)
  BY <1>3, <1>5, <1>6, ChangedIf DEF IsBucket
<1> QED
  BY <1>6, <1>7 DEF bkt, n, nxt2, prv2, first, c2

\* The element is gone from its bucket, which is the only one that changed.
TakenOut(c, c2, num, b, k) ==
    /\ \E n \in 1 .. Len(BucketList(c, b)) :
          /\ BucketList(c, b)[n] = k
          /\ BucketList(c2, b) = RemoveAt(BucketList(c, b), n)
    /\ \A b2 \in 0 .. num - 1 :
          b2 # b => BucketList(c2, b2) = BucketList(c, b2)

LEMMA UnlinkKeepsBuckets ==
    ASSUME NEW num \in Nat \ {0}, NEW c \in ChainsOf(num),
           NEW h \in [Key -> Nat], NEW D \in SUBSET Key, NEW k \in D,
           BucketsHold(c, h, num, D)
    PROVE  LET b == h[k] % num
               c2 == Taken(c, b, k)
           IN  /\ c2 \in ChainsOf(num)
               /\ BucketsHold(c2, h, num, D \ {k})
               /\ TakenOut(c, c2, num, b, k)
<1> DEFINE b == h[k] % num
           bkt == c.buckets[b]
           nxt2 == Forget(Set(c.hh_next, c.hh_prev[k], c.hh_next[k]), k)
           prv2 == Forget(Set(c.hh_prev, c.hh_next[k], c.hh_prev[k]), k)
           first == IF bkt.hh_head = k THEN c.hh_next[k] ELSE bkt.hh_head
           c2 == Taken(c, b, k)
           q == BucketList(c, b)
<1>1. /\ c.hh_next \in [Key -> Pointer] /\ c.hh_prev \in [Key -> Pointer]
      /\ b \in 0 .. num - 1 /\ k \in Key /\ h[k] % num = b
  BY BucketOf DEF ChainsOf
<1> HIDE DEF b, c2, q
<1>2. /\ IsList(q, bkt.hh_head, c.hh_next, c.hh_prev)
      /\ Range(q) = {p \in D : h[p] % num = b}
      /\ bkt.count = Len(q)
  BY <1>1 DEF BucketsHold, BucketHolds, q
<1>3. /\ Len(q) \in Nat /\ Range(q) \subseteq Key
      /\ \A p \in Range(q) : \E i \in 1 .. Len(q) : q[i] = p
  BY <1>2, ListEntries
<1>4. PICK n \in 1 .. Len(q) : q[n] = k
  BY <1>1, <1>2, <1>3
<1> DEFINE r == RemoveAt(q, n)
<1>5. /\ IsList(r, first, nxt2, prv2)
      /\ Range(r) = Range(q) \ {k}
      /\ c.hh_prev[k] \in Range(q) \cup {NULL}
      /\ c.hh_next[k] \in Range(q) \cup {NULL}
  <2> DEFINE nxt == c.hh_next
             prv == c.hh_prev
             hd == bkt.hh_head
  <2>1. IsList(q, hd, nxt, prv) /\ nxt \in [Key -> Pointer]
        /\ prv \in [Key -> Pointer]
    BY <1>1, <1>2
  <2> HIDE DEF nxt, prv, hd
  <2>2. /\ IsList(r, IF hd = q[n] THEN nxt[q[n]] ELSE hd,
                  Forget(Set(nxt, prv[q[n]], nxt[q[n]]), q[n]),
                  Forget(Set(prv, nxt[q[n]], prv[q[n]]), q[n]))
        /\ Range(r) = Range(q) \ {q[n]}
        /\ prv[q[n]] \in Range(q) \cup {NULL}
        /\ nxt[q[n]] \in Range(q) \cup {NULL}
    BY <2>1, Unlink, SMTT(20)
  <2> QED
    BY <1>4, <2>2 DEF nxt, prv, hd
<1>6. Len(r) = Len(q) - 1
  <2>1. q \in Seq(Key)
    BY <1>2 DEF IsList
  <2> QED
    BY <2>1, RemoveAtEntries
<1> HIDE DEF first, nxt2, prv2, r
<1>7. PICK bkt2 : /\ IsBucket(bkt2, first, bkt.count - 1)
                  /\ Changed(c, num, c2, nxt2, prv2, b, bkt2)
  <2>1. bkt.count # 0
    BY <1>2, <1>3, <1>4
  <2> QED
    BY <1>1, <2>1, UnlinkFields DEF c2, first, nxt2, prv2
<1>8. /\ c2.hh_next = nxt2 /\ c2.hh_prev = prv2
      /\ c2.buckets[b].hh_head = first
      /\ c2.buckets[b].count = bkt.count - 1
      /\ \A b2 \in 0 .. num - 1 : b2 # b => c2.buckets[b2] = c.buckets[b2]
      /\ c2 \in ChainsOf(num)
  BY <1>7 DEF Changed, IsBucket
<1>9. BucketList(c2, b) = r /\ BucketHolds(c2, h, num, D \ {k}, b)
  <2>1. Range(r) = {p \in D \ {k} : h[p] % num = b}
    BY <1>2, <1>5
  <2>2. c2.buckets[b].count = Len(r)
    BY <1>2, <1>6, <1>8
  <2>3. IsList(r, c2.buckets[b].hh_head, c2.hh_next, c2.hh_prev)
    BY <1>5, <1>8
  <2> QED
    BY <1>8, <2>1, <2>2, <2>3, BucketHoldsIf
<1>10. ASSUME NEW b2 \in 0 .. num - 1, b2 # b
       PROVE  /\ BucketList(c2, b2) = BucketList(c, b2)
              /\ BucketHolds(c2, h, num, D \ {k}, b2)
  <2> DEFINE q2 == BucketList(c, b2)
  <2>1. /\ IsList(q2, c.buckets[b2].hh_head, c.hh_next, c.hh_prev)
        /\ Range(q2) = {p \in D : h[p] % num = b2}
        /\ c.buckets[b2].count = Len(q2)
    BY DEF BucketsHold, BucketHolds
  <2> HIDE DEF q2
  <2>2. \A p \in Range(q2) : nxt2[p] = c.hh_next[p] /\ prv2[p] = c.hh_prev[p]
    <3> SUFFICES ASSUME NEW p \in Range(q2)
                 PROVE  nxt2[p] = c.hh_next[p] /\ prv2[p] = c.hh_prev[p]
      OBVIOUS
    <3>1. p \in Key /\ p # k /\ p \notin Range(q) /\ p # NULL
      BY <1>1, <1>2, <1>10, <2>1, KeyAssumption
    <3>2. p # c.hh_prev[k] /\ p # c.hh_next[k]
      BY <1>5, <3>1
    <3> DEFINE n2 == Set(c.hh_next, c.hh_prev[k], c.hh_next[k])
               p2 == Set(c.hh_prev, c.hh_next[k], c.hh_prev[k])
    <3>3. n2[p] = c.hh_next[p] /\ p2[p] = c.hh_prev[p]
      BY <1>1, <3>1, <3>2, SetElsewhere
    <3>4. DOMAIN n2 = Key /\ DOMAIN p2 = Key
      BY <1>1 DEF Set
    <3>5. nxt2 = Set(n2, k, NULL) /\ prv2 = Set(p2, k, NULL)
      BY DEF Forget, nxt2, prv2
    <3> HIDE DEF n2, p2
    <3>6. Set(n2, k, NULL)[p] = n2[p] /\ Set(p2, k, NULL)[p] = p2[p]
      BY <3>1, <3>4, SetElsewhere
    <3> QED
      BY <3>3, <3>5, <3>6
  <2>3. IsList(q2, c2.buckets[b2].hh_head, c2.hh_next, c2.hh_prev)
    <3>1. IsList(q2, c.buckets[b2].hh_head, nxt2, prv2)
      BY <2>1, <2>2, ListFrame
    <3> QED
      BY <1>8, <1>10, <3>1
  <2>4. Range(q2) = {p \in D \ {k} : h[p] % num = b2}
    BY <1>1, <1>10, <2>1
  <2>5. c2.buckets[b2].count = Len(q2)
    BY <1>8, <1>10, <2>1
  <2>6. BucketList(c2, b2) = q2 /\ BucketHolds(c2, h, num, D \ {k}, b2)
    BY <1>8, <2>3, <2>4, <2>5, BucketHoldsIf
  <2> QED
    BY <2>6 DEF q2
<1>11. BucketsHold(c2, h, num, D \ {k})
  BY <1>9, <1>10 DEF BucketsHold
<1>12. TakenOut(c, c2, num, b, k)
  BY <1>4, <1>9, <1>10 DEF TakenOut, q, r
<1> QED
  BY <1>8, <1>11, <1>12 DEF b, c2

-----------------------------------------------------------------------------
(* The expansion of the table *)

\* An element moved, or allowed longer buckets: the pointers are as before.
LEMMA AllowLonger ==
    ASSUME NEW num \in Nat, NEW c \in ChainsOf(num), NEW b \in 0 .. num - 1,
           NEW ideal \in Nat, NEW c2,
           c2 = WithBuckets(c, [c.buckets EXCEPT ![b] = LongerAllowed(@, ideal)])
    PROVE  /\ c2 \in ChainsOf(num)
           /\ \A h, D : BucketsHold(c, h, num, D) => BucketsHold(c2, h, num, D)
           /\ c2.buckets[b] = LongerAllowed(c.buckets[b], ideal)
           /\ \A b2 \in 0 .. num - 1 : b2 # b => c2.buckets[b2] = c.buckets[b2]
<1> DEFINE bkt == c.buckets[b]
           bkt2 == LongerAllowed(bkt, ideal)
           nxt == c.hh_next
           prv == c.hh_prev
<1>1. /\ nxt \in [Key -> Pointer] /\ prv \in [Key -> Pointer]
      /\ bkt \in UT_hash_bucket
  BY DEF ChainsOf
<1>2. c2 = [hh_next |-> nxt, hh_prev |-> prv,
            buckets |-> [c.buckets EXCEPT ![b] = bkt2]]
  BY DEF WithBuckets
<1> HIDE DEF bkt
<1>3. /\ bkt2 \in UT_hash_bucket
      /\ bkt2.hh_head = bkt.hh_head /\ bkt2.count = bkt.count
  BY <1>1 DEF LongerAllowed, UT_hash_bucket
<1> HIDE DEF bkt2, nxt, prv
<1>4. Changed(c, num, c2, nxt, prv, b, bkt2)
  BY <1>1, <1>2, <1>3, ChangedIf
<1>5. c2 \in ChainsOf(num) /\ c2.hh_next = c.hh_next /\ c2.hh_prev = c.hh_prev
  BY <1>4 DEF Changed, nxt, prv
<1>6. ASSUME NEW b2 \in 0 .. num - 1
      PROVE  /\ c2.buckets[b2].hh_head = c.buckets[b2].hh_head
             /\ c2.buckets[b2].count = c.buckets[b2].count
  BY <1>3, <1>4 DEF Changed, bkt
<1>7. ASSUME NEW h, NEW D, BucketsHold(c, h, num, D)
      PROVE  BucketsHold(c2, h, num, D)
  <2> SUFFICES ASSUME NEW b2 \in 0 .. num - 1 PROVE BucketHolds(c2, h, num, D, b2)
    BY DEF BucketsHold
  <2>1. BucketHolds(c, h, num, D, b2)
    BY <1>7 DEF BucketsHold
  <2>2. BucketList(c2, b2) = BucketList(c, b2)
    BY <1>5, <1>6 DEF BucketList
  <2> QED
    BY <1>5, <1>6, <2>1, <2>2 DEF BucketHolds
<1>8. /\ c2.buckets[b] = LongerAllowed(c.buckets[b], ideal)
      /\ \A b2 \in 0 .. num - 1 : b2 # b => c2.buckets[b2] = c.buckets[b2]
  BY <1>4 DEF Changed, bkt, bkt2
<1> QED
  BY <1>5, <1>7, <1>8

\* A bucket that grows in an expansion beyond the ideal length is allowed more
\* with every ideal length that it grows by.
Fits(bkt, ideal) ==
    \/ bkt.count <= ideal
    \/ bkt.count <= bkt.expand_mult * ideal + 1

AllFit(c, num, ideal) == \A b \in 0 .. num - 1 : Fits(c.buckets[b], ideal)

LEMMA OneMoreFits ==
    ASSUME NEW bkt \in UT_hash_bucket, NEW bkt2 \in UT_hash_bucket,
           NEW ideal \in Nat \ {0}, Fits(bkt, ideal),
           bkt2.count = bkt.count + 1, bkt2.expand_mult = bkt.expand_mult
    PROVE  Fits(LongerAllowed(bkt2, ideal), ideal)
<1> DEFINE n == bkt.count
           mult == bkt.expand_mult
           allowed == mult * ideal
           bkt3 == LongerAllowed(bkt2, ideal)
<1>1. n \in Nat /\ mult \in Nat /\ allowed \in Nat
  <2>1. n \in Nat /\ mult \in Nat
    BY DEF UT_hash_bucket
  <2> HIDE DEF n, mult
  <2> QED
    BY <2>1
<1>2. n <= ideal \/ n <= allowed + 1
  BY DEF Fits
<1>3. CASE n + 1 > ideal /\ n + 1 > allowed
  <2>1. bkt3 = [bkt2 EXCEPT !.expand_mult = mult + 1]
    BY <1>3 DEF LongerAllowed
  <2>2. bkt3.count = n + 1 /\ bkt3.expand_mult = mult + 1
    BY <2>1 DEF UT_hash_bucket
  <2> HIDE DEF n, mult, bkt3
  <2>3. (mult + 1) * ideal = allowed + ideal
    BY <1>1
  <2> HIDE DEF allowed
  <2>4. n + 1 <= allowed + ideal + 1
    BY <1>1, <1>2
  <2> QED
    BY <2>2, <2>3, <2>4 DEF Fits, bkt3
<1>4. CASE n + 1 <= ideal \/ n + 1 <= allowed
  <2>1. bkt3 = bkt2
    <3> HIDE DEF n, allowed
    <3>1. ~(n + 1 > ideal /\ n + 1 > allowed)
      BY <1>1, <1>4
    <3> QED
      BY <3>1 DEF LongerAllowed, n, allowed, mult
  <2>2. bkt3.count = n + 1 /\ bkt3.expand_mult = mult
    BY <2>1
  <2> HIDE DEF n, mult, bkt3
  <2>3. n + 1 <= ideal \/ n + 1 <= mult * ideal + 1
    <3> HIDE DEF allowed
    <3>1. n + 1 <= ideal \/ n + 1 <= allowed + 1
      BY <1>1, <1>4
    <3> QED
      BY <3>1 DEF allowed
  <2> QED
    BY <2>2, <2>3 DEF Fits, bkt3
<1> HIDE DEF n, allowed
<1> QED
  BY <1>1, <1>3, <1>4

\* What the expansion computes: the chains, and a count.
MoveState(num, ideal) ==
    {m \in [chains : ChainsOf(num), nonideal : Nat] : AllFit(m.chains, num, ideal)}

LEMMA MoveKeeps ==
    ASSUME hashv \in [Key -> Nat], NEW num \in Nat \ {0},
           NEW ideal \in Nat \ {0}, NEW m \in MoveState(num, ideal),
           NEW k \in Key
    PROVE  /\ Move(m, k, num, ideal) \in MoveState(num, ideal)
           /\ \A D \in SUBSET Key :
                 k \notin D /\ BucketsHold(m.chains, hashv, num, D)
                 => BucketsHold(Move(m, k, num, ideal).chains, hashv, num,
                                D \cup {k})
<1> DEFINE b == HASH_TO_BKT(k, num)
           c == m.chains
           linked == LinkIntoBucket(c, b, k)
           c2 == WithBuckets(linked,
                     [linked.buckets EXCEPT ![b] = LongerAllowed(@, ideal)])
           n2 == m.nonideal + (IF linked.buckets[b].count > ideal THEN 1 ELSE 0)
<1>1. /\ c \in ChainsOf(num) /\ m.nonideal \in Nat
      /\ AllFit(c, num, ideal)
  BY DEF MoveState
<1>2. b = hashv[k] % num /\ b \in 0 .. num - 1
  BY BucketOf DEF HASH_TO_BKT
<1>3. /\ Move(m, k, num, ideal) = [chains |-> c2, nonideal |-> n2]
      /\ n2 \in Nat
  BY <1>1 DEF Move
<1> HIDE DEF c, b, n2
<1>4. /\ linked \in ChainsOf(num)
      /\ Fits(LongerAllowed(linked.buckets[b], ideal), ideal)
      /\ \A b2 \in 0 .. num - 1 : b2 # b => Fits(linked.buckets[b2], ideal)
  <2>1. PICK bkt2 :
           /\ IsBucket(bkt2, k, c.buckets[b].count + 1)
           /\ bkt2.expand_mult = c.buckets[b].expand_mult
           /\ Changed(c, num, linked, Set(c.hh_next, k, c.buckets[b].hh_head),
                      Set(Set(c.hh_prev, k, NULL), c.buckets[b].hh_head, k),
                      b, bkt2)
    BY <1>1, <1>2, LinkFields
  <2> HIDE DEF linked
  <2>2. /\ linked \in ChainsOf(num) /\ linked.buckets[b] = bkt2
        /\ \A b2 \in 0 .. num - 1 : b2 # b => linked.buckets[b2] = c.buckets[b2]
    BY <2>1 DEF Changed
  <2>3. /\ c.buckets[b] \in UT_hash_bucket /\ bkt2 \in UT_hash_bucket
        /\ bkt2.count = c.buckets[b].count + 1
    BY <1>1, <1>2, <2>1 DEF ChainsOf, IsBucket
  <2>4. Fits(LongerAllowed(bkt2, ideal), ideal)
    BY <1>1, <1>2, <2>1, <2>3, OneMoreFits DEF AllFit
  <2> QED
    BY <1>1, <2>2, <2>4 DEF AllFit
<1>5. ASSUME NEW D \in SUBSET Key, k \notin D, BucketsHold(c, hashv, num, D)
      PROVE  BucketsHold(linked, hashv, num, D \cup {k})
  BY <1>1, <1>2, <1>5, LinkKeepsBuckets
<1> HIDE DEF linked
<1> DEFINE d == c2
<1>6. d = WithBuckets(linked,
             [linked.buckets EXCEPT ![b] = LongerAllowed(@, ideal)])
  OBVIOUS
<1> HIDE DEF d
<1>7. /\ d \in ChainsOf(num)
      /\ \A h, D : BucketsHold(linked, h, num, D) => BucketsHold(d, h, num, D)
      /\ AllFit(d, num, ideal)
  <2>1. /\ d \in ChainsOf(num)
        /\ \A h, D : BucketsHold(linked, h, num, D) => BucketsHold(d, h, num, D)
        /\ d.buckets[b] = LongerAllowed(linked.buckets[b], ideal)
        /\ \A b2 \in 0 .. num - 1 : b2 # b => d.buckets[b2] = linked.buckets[b2]
    <3>1. linked \in ChainsOf(num) /\ num \in Nat /\ ideal \in Nat
      BY <1>4
    <3> HIDE DEF b
    <3> QED
      BY <1>2, <1>6, <3>1, AllowLonger
  <2>2. AllFit(d, num, ideal)
    BY <1>4, <2>1 DEF AllFit
  <2> QED
    BY <2>1, <2>2
<1>8. Move(m, k, num, ideal) = [chains |-> d, nonideal |-> n2]
  BY <1>3 DEF d
<1>9. Move(m, k, num, ideal) \in MoveState(num, ideal)
      /\ Move(m, k, num, ideal).chains = d
  BY <1>3, <1>7, <1>8 DEF MoveState
<1> QED
  BY <1>5, <1>7, <1>9 DEF c

\* The elements of a chain move: the buckets hold them and no other.
LEMMA MoveBucketKeeps ==
    ASSUME hashv \in [Key -> Nat], NEW num \in Nat \ {0},
           NEW ideal \in Nat \ {0}, NEW m \in MoveState(num, ideal),
           NEW q \in Seq(Key)
    PROVE  /\ MoveBucket(m, q, num, ideal) \in MoveState(num, ideal)
           /\ \A D \in SUBSET Key :
                 /\ IsInjective(q) /\ Range(q) \cap D = {}
                 /\ BucketsHold(m.chains, hashv, num, D)
                 => BucketsHold(MoveBucket(m, q, num, ideal).chains, hashv, num,
                                D \cup Range(q))
<1> DEFINE N == Len(q)
           S == MoveState(num, ideal)
           Step == [i \in 1 .. N |-> [s \in S |-> Move(s, q[i], num, ideal)]]
           moved == CHOOSE moved : moved = [i \in 0 .. N |->
                       IF i = 0 THEN m ELSE Move(moved[i - 1], q[i], num, ideal)]
<1>1. N \in Nat /\ DOMAIN q = 1 .. N /\ \A i \in 1 .. N : q[i] \in Key
  OBVIOUS
<1>2. Step \in [1 .. N -> [S -> S]]
  <2>1. ASSUME NEW i \in 1 .. N, NEW s \in S
        PROVE  Move(s, q[i], num, ideal) \in S
    BY <1>1, MoveKeeps
  <2> HIDE DEF S, N
  <2> QED
    BY <2>1
<1>3. \E f : f = [i \in 0 .. N |-> IF i = 0 THEN m
                                   ELSE Move(f[i - 1], q[i], num, ideal)]
  <2>1. PICK f : Computed(f, S, m, N, Step)
    <3> HIDE DEF Step, S, N
    <3>1. m \in S
      BY DEF S
    <3> QED
      BY <1>1, <1>2, <3>1, Recursion
  <2>2. ASSUME NEW i \in 1 .. N
        PROVE  f[i] = Move(f[i - 1], q[i], num, ideal)
    <3>1. f[i] = Step[i][f[i - 1]] /\ f[i - 1] \in S
      <4> HIDE DEF Step, S, N
      <4>1. i - 1 \in 0 .. N
        BY <1>1
      <4> QED
        BY <2>1, <4>1 DEF Computed
    <3> HIDE DEF S, N
    <3> QED
      BY <3>1
  <2>3. ASSUME NEW i \in 0 .. N
        PROVE  f[i] = IF i = 0 THEN m ELSE Move(f[i - 1], q[i], num, ideal)
    <3> HIDE DEF N, Step
    <3>1. i = 0 \/ i \in 1 .. N
      BY <1>1
    <3>2. f[0] = m
      BY <2>1 DEF Computed
    <3> QED
      BY <2>2, <3>1, <3>2
  <2> DEFINE g == [i \in 0 .. N |-> IF i = 0 THEN m
                                    ELSE Move(f[i - 1], q[i], num, ideal)]
  <2>4. f = g
    <3> HIDE DEF N, S, Step
    <3> QED
      BY <2>1, <2>3 DEF Computed
  <2> QED
    BY <2>4
<1>4. moved = [i \in 0 .. N |-> IF i = 0 THEN m
                                ELSE Move(moved[i - 1], q[i], num, ideal)]
  BY <1>3
<1>5. MoveBucket(m, q, num, ideal) = moved[N]
  BY DEF MoveBucket
<1> HIDE DEF moved, S, Step
<1>6. /\ moved[0] = m
      /\ \A i \in 1 .. N : moved[i] = Move(moved[i - 1], q[i], num, ideal)
  <2> HIDE DEF N
  <2>1. \A i \in 0 .. N : moved[i] = IF i = 0 THEN m
                                ELSE Move(moved[i - 1], q[i], num, ideal)
    BY <1>4
  <2>2. 0 \in 0 .. N /\ \A i \in 1 .. N : i \in 0 .. N /\ i # 0
    BY <1>1
  <2> QED
    BY <2>1, <2>2
<1> HIDE DEF N
<1>7. \A i \in 0 .. N : moved[i] \in S
  <2> DEFINE T == {i \in 0 .. N : moved[i] \in S}
  <2>1. 0 \in T
    BY <1>1, <1>6 DEF S
  <2>2. ASSUME NEW i \in 1 .. N, i - 1 \in T PROVE i \in T
    <3>1. moved[i - 1] \in S /\ q[i] \in Key /\ i \in 0 .. N
      BY <1>1, <2>2
    <3>2. Move(moved[i - 1], q[i], num, ideal) \in S
      BY <3>1, MoveKeeps DEF S
    <3> QED
      BY <1>6, <3>1, <3>2
  <2> HIDE DEF T
  <2>3. \A i \in 0 .. N : i \in T
    BY <1>1, <2>1, <2>2, Induction
  <2> QED
    BY <2>3 DEF T
<1>8. ASSUME NEW D \in SUBSET Key, IsInjective(q), Range(q) \cap D = {},
             BucketsHold(m.chains, hashv, num, D)
      PROVE  BucketsHold(moved[N].chains, hashv, num, D \cup Range(q))
  <2> DEFINE Seen(i) == D \cup {q[j] : j \in 1 .. i}
             T == {i \in 0 .. N :
                     BucketsHold(moved[i].chains, hashv, num, Seen(i))}
  <2>1. 0 \in T
    <3>1. Seen(0) = D
      OBVIOUS
    <3> HIDE DEF Seen
    <3>2. 0 \in 0 .. N
      BY <1>1
    <3> QED
      BY <1>6, <1>8, <3>1, <3>2
  <2>2. ASSUME NEW i \in 1 .. N, i - 1 \in T PROVE i \in T
    <3>1. /\ i - 1 \in 0 .. N /\ i \in 0 .. N
          /\ moved[i - 1] \in S
          /\ BucketsHold(moved[i - 1].chains, hashv, num, Seen(i - 1))
      <4>1. i - 1 \in 0 .. N /\ i \in 0 .. N
        BY <1>1
      <4> HIDE DEF Seen
      <4> QED
        BY <1>7, <2>2, <4>1
    <3>2. q[i] \notin Seen(i - 1)
      <4>1. q[i] \in Range(q)
        BY <1>1 DEF Range
      <4>2. \A j \in 1 .. i - 1 : j \in 1 .. N /\ j # i
        BY <1>1
      <4>3. \A j \in 1 .. i - 1 : q[j] # q[i]
        BY <1>1, <1>8, <4>2 DEF IsInjective
      <4> QED
        BY <1>8, <4>1, <4>3
    <3>3. Seen(i) = Seen(i - 1) \cup {q[i]}
      <4>1. 1 .. i = (1 .. i - 1) \cup {i}
        BY <1>1
      <4> QED
        BY <4>1
    <3>4. Seen(i - 1) \in SUBSET Key
      <4>1. \A j \in 1 .. i - 1 : j \in 1 .. N
        BY <1>1
      <4> QED
        BY <1>1, <4>1
    <3> HIDE DEF Seen
    <3>5. BucketsHold(Move(moved[i - 1], q[i], num, ideal).chains, hashv, num,
                      Seen(i - 1) \cup {q[i]})
      BY <1>1, <3>1, <3>2, <3>4, MoveKeeps DEF S
    <3> QED
      BY <1>6, <3>1, <3>3, <3>5
  <2>3. N \in T
    <3> HIDE DEF T
    <3>1. \A i \in 0 .. N : i \in T
      BY <1>1, <2>1, <2>2, Induction
    <3> QED
      BY <1>1, <3>1
  <2>4. Seen(N) = D \cup Range(q)
    BY <1>1 DEF Range
  <2> HIDE DEF Seen
  <2> QED
    BY <2>3, <2>4
<1>9. moved[N] \in S
  BY <1>1, <1>7
<1> QED
  BY <1>5, <1>8, <1>9 DEF S

\* Buckets with no element in them hold no element.
LEMMA EmptyBucketsHold ==
    ASSUME NEW num \in Nat, NEW nxt \in [Key -> Pointer],
           NEW prv \in [Key -> Pointer], NEW c, NEW h,
           c = [hh_next |-> nxt, hh_prev |-> prv, buckets |-> EmptyBuckets(num)]
    PROVE  /\ c \in ChainsOf(num)
           /\ BucketsHold(c, h, num, {})
           /\ \A b \in 0 .. num - 1 :
                 BucketList(c, b) = <<>> /\ c.buckets[b] = EmptyBucket
<1> DEFINE none == EmptyBuckets(num)
<1>1. none \in [0 .. num - 1 -> UT_hash_bucket]
  <2>1. EmptyBucket \in UT_hash_bucket
    BY DEF EmptyBucket, UT_hash_bucket, Pointer
  <2> QED
    BY <2>1 DEF EmptyBuckets
<1>2. \A b \in 0 .. num - 1 : none[b] = EmptyBucket
  BY DEF EmptyBuckets
<1> HIDE DEF none
<1>3. c = [hh_next |-> nxt, hh_prev |-> prv, buckets |-> none]
  BY DEF none
<1>4. c \in ChainsOf(num) /\ c.buckets = none
  BY <1>1, <1>3 DEF ChainsOf
<1>5. \A b \in 0 .. num - 1 : c.buckets[b] = EmptyBucket
  BY <1>2, <1>4
<1>6. ASSUME NEW b \in 0 .. num - 1
      PROVE  BucketList(c, b) = <<>> /\ BucketHolds(c, h, num, {}, b)
  <2>1. c.buckets[b].hh_head = NULL /\ c.buckets[b].count = 0
    BY <1>5 DEF EmptyBucket
  <2>2. IsList(<<>>, NULL, c.hh_next, c.hh_prev)
    BY DEF IsList, IsInjective, Nth
  <2>3. Range(<<>>) = {k \in {} : h[k] % num = b} /\ Len(<<>>) = 0
    BY DEF Range
  <2> QED
    BY <1>4, <2>1, <2>2, <2>3, BucketHoldsIf
<1> QED
  BY <1>4, <1>5, <1>6 DEF BucketsHold

\* Every element goes from its old bucket to its new one.
LEMMA MoveAllKeeps ==
    ASSUME hashv \in [Key -> Nat], NEW num \in Nat \ {0},
           NEW c \in ChainsOf(num), NEW D \in SUBSET Key,
           NEW ideal \in Nat \ {0}, BucketsHold(c, hashv, num, D)
    PROVE  /\ MoveAll(c, num, ideal) \in MoveState(num * 2, ideal)
           /\ BucketsHold(MoveAll(c, num, ideal).chains, hashv, num * 2, D)
<1> DEFINE S == MoveState(num * 2, ideal)
           m == [chains |-> WithBuckets(c, EmptyBuckets(num * 2)), nonideal |-> 0]
           list(b) == BucketList(c, b)
           Step == [b \in 1 .. num |->
                      [s \in S |-> MoveBucket(s, list(b - 1), num * 2, ideal)]]
           moved == CHOOSE moved : moved = [b \in 0 .. num |->
                       IF b = 0 THEN m
                       ELSE MoveBucket(moved[b - 1],
                               Follow(c.hh_next, c.buckets[b - 1].hh_head),
                               SplitBuckets(num), ideal)]
<1>1. num * 2 \in Nat \ {0} /\ SplitBuckets(num) = num * 2
  BY DEF SplitBuckets
<1>2. ASSUME NEW b \in 1 .. num
      PROVE  /\ b - 1 \in 0 .. num - 1 /\ b - 1 \in 0 .. num /\ b \in 0 .. num
             /\ list(b - 1) \in Seq(Key) /\ IsInjective(list(b - 1))
             /\ Range(list(b - 1)) = {k \in D : hashv[k] % num = b - 1}
  <2>1. b - 1 \in 0 .. num - 1 /\ b - 1 \in 0 .. num /\ b \in 0 .. num
    OBVIOUS
  <2> QED
    BY <2>1 DEF BucketsHold, BucketHolds, IsList
<1>3. m \in S /\ BucketsHold(m.chains, hashv, num * 2, {})
  <2> DEFINE c2 == WithBuckets(c, EmptyBuckets(num * 2))
             nxt == c.hh_next
             prv == c.hh_prev
  <2>1. nxt \in [Key -> Pointer] /\ prv \in [Key -> Pointer]
    BY DEF ChainsOf
  <2>2. c2 = [hh_next |-> nxt, hh_prev |-> prv,
              buckets |-> EmptyBuckets(num * 2)]
    BY DEF WithBuckets
  <2>3. m.chains = c2 /\ m = [chains |-> c2, nonideal |-> 0]
    OBVIOUS
  <2> HIDE DEF c2, nxt, prv, m
  <2>4. /\ c2 \in ChainsOf(num * 2) /\ BucketsHold(c2, hashv, num * 2, {})
        /\ \A b \in 0 .. num * 2 - 1 : c2.buckets[b] = EmptyBucket
    <3>1. num * 2 \in Nat
      BY <1>1
    <3> QED
      BY <2>1, <2>2, <3>1, EmptyBucketsHold
  <2>5. AllFit(c2, num * 2, ideal)
    BY <2>4 DEF AllFit, Fits, EmptyBucket
  <2> QED
    BY <2>3, <2>4, <2>5 DEF MoveState
<1> HIDE DEF m, S, list
<1>4. Step \in [1 .. num -> [S -> S]]
  <2>1. ASSUME NEW b \in 1 .. num, NEW s \in S
        PROVE  MoveBucket(s, list(b - 1), num * 2, ideal) \in S
    BY <1>1, <1>2, MoveBucketKeeps DEF S
  <2> QED
    BY <2>1
<1>5. \E f : f = [b \in 0 .. num |-> IF b = 0 THEN m
                    ELSE MoveBucket(f[b - 1], list(b - 1), num * 2, ideal)]
  <2>1. PICK f : Computed(f, S, m, num, Step)
    <3> HIDE DEF Step
    <3> QED
      BY <1>3, <1>4, Recursion
  <2>2. ASSUME NEW b \in 1 .. num
        PROVE  f[b] = MoveBucket(f[b - 1], list(b - 1), num * 2, ideal)
    <3>1. f[b] = Step[b][f[b - 1]] /\ f[b - 1] \in S
      <4> HIDE DEF Step
      <4> QED
        BY <1>2, <2>1 DEF Computed
    <3> QED
      BY <3>1
  <2>3. ASSUME NEW b \in 0 .. num
        PROVE  f[b] = IF b = 0 THEN m
                      ELSE MoveBucket(f[b - 1], list(b - 1), num * 2, ideal)
    <3> HIDE DEF Step
    <3>1. b = 0 \/ b \in 1 .. num
      OBVIOUS
    <3>2. f[0] = m
      BY <2>1 DEF Computed
    <3> QED
      BY <2>2, <3>1, <3>2
  <2> DEFINE g == [b \in 0 .. num |-> IF b = 0 THEN m
                    ELSE MoveBucket(f[b - 1], list(b - 1), num * 2, ideal)]
  <2>4. f = g
    <3> HIDE DEF Step
    <3> QED
      BY <2>1, <2>3 DEF Computed
  <2> QED
    BY <2>4
<1>6. moved = [b \in 0 .. num |-> IF b = 0 THEN m
                    ELSE MoveBucket(moved[b - 1], list(b - 1), num * 2, ideal)]
  BY <1>1, <1>5 DEF list, BucketList
<1>7. MoveAll(c, num, ideal) = moved[num]
  BY DEF MoveAll, m
<1> HIDE DEF moved, Step
<1>8. /\ moved[0] = m
      /\ \A b \in 1 .. num :
            moved[b] = MoveBucket(moved[b - 1], list(b - 1), num * 2, ideal)
  <2>1. \A b \in 0 .. num : moved[b] = IF b = 0 THEN m
                    ELSE MoveBucket(moved[b - 1], list(b - 1), num * 2, ideal)
    BY <1>6
  <2>2. 0 \in 0 .. num /\ \A b \in 1 .. num : b \in 0 .. num /\ b # 0
    OBVIOUS
  <2> QED
    BY <2>1, <2>2
<1> DEFINE Seen(b) == {k \in D : hashv[k] % num < b}
           T == {b \in 0 .. num :
                   /\ moved[b] \in S
                   /\ BucketsHold(moved[b].chains, hashv, num * 2, Seen(b))}
<1>9. \A k \in D : hashv[k] % num \in 0 .. num - 1
  BY BucketOf
<1>10. 0 \in T
  <2>1. Seen(0) = {} /\ 0 \in 0 .. num
    BY <1>9
  <2> HIDE DEF Seen
  <2>2. /\ moved[0] \in S
        /\ BucketsHold(moved[0].chains, hashv, num * 2, Seen(0))
    BY <1>3, <1>8, <2>1
  <2> QED
    BY <2>1, <2>2
<1>11. ASSUME NEW b \in 1 .. num, b - 1 \in T PROVE b \in T
  <2> DEFINE q == list(b - 1)
             s == moved[b - 1]
  <2>1. q \in Seq(Key) /\ IsInjective(q)
        /\ Range(q) = {k \in D : hashv[k] % num = b - 1}
    BY <1>2
  <2>2. Range(q) \cap Seen(b - 1) = {}
    BY <1>9, <2>1
  <2>3. Seen(b) = Seen(b - 1) \cup Range(q)
    <3>1. \A k \in D : hashv[k] % num < b
                         <=> hashv[k] % num < b - 1 \/ hashv[k] % num = b - 1
      BY <1>9
    <3> QED
      BY <2>1, <3>1
  <2>4. Seen(b - 1) \in SUBSET Key
    OBVIOUS
  <2>5. s \in S /\ BucketsHold(s.chains, hashv, num * 2, Seen(b - 1))
    BY <1>11
  <2>6. moved[b] = MoveBucket(s, q, num * 2, ideal)
    BY <1>8
  <2> DEFINE before == Seen(b - 1)
             num2 == num * 2
  <2> HIDE DEF q, s, before, num2
  <2>7. num2 \in Nat \ {0} /\ s \in MoveState(num2, ideal) /\ before \in SUBSET Key
        /\ Range(q) \cap before = {} /\ BucketsHold(s.chains, hashv, num2, before)
    BY <1>1, <2>2, <2>4, <2>5 DEF S, num2, before
  <2>8. /\ MoveBucket(s, q, num2, ideal) \in MoveState(num2, ideal)
        /\ BucketsHold(MoveBucket(s, q, num2, ideal).chains, hashv, num2,
                       before \cup Range(q))
    BY <2>1, <2>7, MoveBucketKeeps
  <2>9. /\ moved[b] \in S
        /\ BucketsHold(moved[b].chains, hashv, num * 2, Seen(b - 1) \cup Range(q))
    BY <2>6, <2>8 DEF S, num2, before
  <2> HIDE DEF Seen
  <2> QED
    BY <1>2, <2>3, <2>9
<1>12. num \in T
  <2> HIDE DEF T
  <2>1. \A b \in 0 .. num : b \in T
    BY <1>10, <1>11, Induction
  <2> QED
    BY <2>1
<1>13. Seen(num) = D
  BY <1>9
<1> HIDE DEF Seen
<1> QED
  BY <1>7, <1>12, <1>13 DEF S

\* The ceiling of a quotient.
LEMMA IdealPositive ==
    ASSUME NEW n \in Nat \ {0}, NEW d \in Nat \ {0}
    PROVE  IdealChain(n, d) \in Nat \ {0}
<1>1. n \div d \in Nat /\ n % d \in 0 .. d - 1
  OBVIOUS
<1>2. ~(n \div d = 0 /\ n % d = 0)
  OBVIOUS
<1> QED
  BY <1>1, <1>2 DEF IdealChain

LEMMA IdealAtMost ==
    ASSUME NEW n \in Nat, NEW d \in Nat \ {0}, NEW m \in Nat, n <= d * m
    PROVE  IdealChain(n, d) <= m
<1> DEFINE q == n \div d
           r == n % d
<1>1. q \in Nat /\ r \in 0 .. d - 1 /\ n = d * q + r
  OBVIOUS
<1> HIDE DEF q, r
<1>2. q <= m
  <2> SUFFICES ASSUME q > m PROVE FALSE
    BY <1>1
  <2>1. PICK e \in Nat : q = m + 1 + e
    <3>1. q - m - 1 \in Nat /\ q = m + 1 + (q - m - 1)
      BY <1>1
    <3> QED
      BY <3>1
  <2>2. d * q = d * m + d + d * e /\ d * e \in Nat /\ d * m \in Nat
    BY <2>1
  <2> QED
    BY <1>1, <2>2
<1>3. r # 0 => q + 1 <= m
  <2> SUFFICES ASSUME r # 0, q = m PROVE FALSE
    BY <1>1, <1>2
  <2> QED
    BY <1>1
<1> QED
  BY <1>1, <1>2, <1>3 DEF IdealChain, q, r

\* What HASH_ADD_TO_BKT makes of a table: it is the same, or has twice as many
\* buckets.
Grown(t, t2) ==
    /\ t2 \in UT_hash_table
    /\ t2.tail = t.tail
    /\ t2.num_items = t.num_items
    /\ t2.num_buckets \in {t.num_buckets, t.num_buckets * 2}

LEMMA ExpandKeeps ==
    ASSUME hashv \in [Key -> Nat], NEW t \in UT_hash_table,
           NEW c \in ChainsOf(t.num_buckets), NEW D \in SUBSET Key,
           BucketsHold(c, hashv, t.num_buckets, D)
    PROVE  LET r == HASH_EXPAND_BUCKETS(c, t)
           IN  /\ r.chains \in ChainsOf(r.tbl.num_buckets)
               /\ BucketsHold(r.chains, hashv, r.tbl.num_buckets, D)
               /\ Grown(t, r.tbl)
               /\ r.tbl.num_buckets = t.num_buckets * 2
               /\ AllFit(r.chains, r.tbl.num_buckets,
                         IdealChain(t.num_items, t.num_buckets * 2))
<1> DEFINE num == t.num_buckets
           ideal == IdealChain(t.num_items, num * 2)
           all == MoveAll(c, num, ideal)
           ineff == IF all.nonideal > t.num_items \div 2
                    THEN t.ineff_expands + 1 ELSE 0
           t2 == [t EXCEPT !.num_buckets = num * 2, !.ineff_expands = ineff,
                           !.noexpand = t.noexpand \/ ineff > 1]
<1>0. Cardinality(Key) \in Nat
  BY KeyAssumption, FS_CardinalityType
<1>1. /\ num \in Nat \ {0} /\ t.num_items \in Nat \ {0}
      /\ t.ineff_expands \in Nat
      /\ num * 2 \in Nat \ {0}
  BY <1>0 DEF UT_hash_table
<1>2. ideal \in Nat \ {0}
  BY <1>1, IdealPositive
<1>3. HASH_EXPAND_BUCKETS(c, t) = [chains |-> all.chains, tbl |-> t2]
  BY DEF HASH_EXPAND_BUCKETS
<1> HIDE DEF ideal, all
<1>4. /\ all \in MoveState(num * 2, ideal)
      /\ BucketsHold(all.chains, hashv, num * 2, D)
  BY <1>1, <1>2, MoveAllKeeps DEF all
<1>5. /\ all.chains \in ChainsOf(num * 2) /\ all.nonideal \in Nat
      /\ AllFit(all.chains, num * 2, ideal)
  BY <1>4 DEF MoveState
<1>6. ineff \in Nat
  BY <1>1
<1> HIDE DEF ineff
<1>7. /\ t2 \in UT_hash_table /\ t2.tail = t.tail /\ t2.num_items = t.num_items
      /\ t2.num_buckets = num * 2
  BY <1>1, <1>6 DEF UT_hash_table
<1> HIDE DEF t2
<1> QED
  BY <1>3, <1>4, <1>5, <1>7 DEF Grown, num, ideal

LEMMA AddToBucketKeeps ==
    ASSUME hashv \in [Key -> Nat], NEW t \in UT_hash_table,
           NEW c \in ChainsOf(t.num_buckets), NEW D \in SUBSET Key,
           NEW k \in Key \ D, BucketsHold(c, hashv, t.num_buckets, D)
    PROVE  LET r == HASH_ADD_TO_BKT(c, t, k)
           IN  /\ r.chains \in ChainsOf(r.tbl.num_buckets)
               /\ BucketsHold(r.chains, hashv, r.tbl.num_buckets, D \cup {k})
               /\ Grown(t, r.tbl)
               /\ r.tbl.num_buckets # t.num_buckets * 2
                  => r.chains = LinkIntoBucket(c, hashv[k] % t.num_buckets, k)
<1> DEFINE num == t.num_buckets
           b == HASH_TO_BKT(k, num)
           linked == LinkIntoBucket(c, b, k)
           r == HASH_ADD_TO_BKT(c, t, k)
<1>1. num \in Nat \ {0} /\ b = hashv[k] % num
  BY DEF UT_hash_table, HASH_TO_BKT
<1>2. \/ r = HASH_EXPAND_BUCKETS(linked, t)
      \/ r = [chains |-> linked, tbl |-> t]
  BY DEF HASH_ADD_TO_BKT
<1>3. /\ linked \in ChainsOf(num)
      /\ BucketsHold(linked, hashv, num, D \cup {k})
  <2> HIDE DEF num
  <2>1. c \in ChainsOf(num) /\ BucketsHold(c, hashv, num, D)
    BY DEF num
  <2> QED
    BY <1>1, <2>1, LinkKeepsBuckets
<1> HIDE DEF linked, r, num
<1>4. CASE r = [chains |-> linked, tbl |-> t]
  <2>1. r.chains = linked /\ r.tbl = t
    BY <1>4
  <2>2. Grown(t, r.tbl)
    BY <2>1 DEF Grown
  <2> QED
    BY <1>1, <1>3, <2>1, <2>2 DEF r, linked, num
<1>5. CASE r = HASH_EXPAND_BUCKETS(linked, t)
  <2>1. /\ r.chains \in ChainsOf(r.tbl.num_buckets)
        /\ BucketsHold(r.chains, hashv, r.tbl.num_buckets, D \cup {k})
        /\ Grown(t, r.tbl)
        /\ r.tbl.num_buckets = t.num_buckets * 2
    <3>1. /\ linked \in ChainsOf(t.num_buckets)
          /\ BucketsHold(linked, hashv, t.num_buckets, D \cup {k})
          /\ D \cup {k} \in SUBSET Key
      BY <1>3 DEF num
    <3> DEFINE Elements == D \cup {k}
    <3> HIDE DEF Elements
    <3> QED
      BY <1>5, <3>1, ExpandKeeps DEF Elements
  <2> QED
    BY <2>1 DEF r
<1> QED
  BY <1>2, <1>4, <1>5

-----------------------------------------------------------------------------
(* The lengths of the buckets *)

\* No bucket is so long that it is to be split.
Short(bkt) == bkt.count < (bkt.expand_mult + 1) * HASH_BKT_CAPACITY_THRESH

AllShort(c, t) ==
    ~t.noexpand => \A b \in 0 .. t.num_buckets - 1 : Short(c.buckets[b])

\* Twice the first buckets, each with one element less than makes it split, have
\* room for them.
Few(n) == n <= (HASH_INITIAL_NUM_BUCKETS * 2) * (HASH_BKT_CAPACITY_THRESH - 1)

\* The expansion leaves no bucket to be split when the ideal chain is shorter
\* than the threshold.
LEMMA FittingIsShort ==
    ASSUME NEW bkt \in UT_hash_bucket, NEW ideal \in Nat \ {0},
           ideal <= HASH_BKT_CAPACITY_THRESH - 1, Fits(bkt, ideal)
    PROVE  Short(bkt)
<1> DEFINE n == bkt.count
           mult == bkt.expand_mult
           T == HASH_BKT_CAPACITY_THRESH
           rest == T - 1 - ideal
<1>1. n \in Nat /\ mult \in Nat /\ T \in Nat \ {0} /\ ideal <= T - 1
  BY BucketsAssumption DEF UT_hash_bucket
<1>2. n <= ideal \/ n <= mult * ideal + 1
  BY DEF Fits
<1> HIDE DEF n, mult, T
<1>3. rest \in Nat /\ T = ideal + 1 + rest
  BY <1>1
<1> HIDE DEF rest
<1>4. (mult + 1) * T = mult * ideal + mult + mult * rest + T
  BY <1>1, <1>3
<1>5. mult * rest \in Nat /\ mult * ideal \in Nat
  BY <1>1, <1>3
<1>6. n < (mult + 1) * T
  BY <1>1, <1>2, <1>4, <1>5
<1> QED
  BY <1>6 DEF Short, n, mult, T

\* HASH_ADD_TO_BKT expands the table as soon as a bucket is to be split.
LEMMA AddToBucketShort ==
    ASSUME hashv \in [Key -> Nat], NEW t \in UT_hash_table,
           NEW c \in ChainsOf(t.num_buckets), NEW D \in SUBSET Key,
           NEW k \in Key \ D, BucketsHold(c, hashv, t.num_buckets, D),
           t.num_buckets >= HASH_INITIAL_NUM_BUCKETS,
           Few(t.num_items), AllShort(c, t)
    PROVE  LET r == HASH_ADD_TO_BKT(c, t, k) IN AllShort(r.chains, r.tbl)
<1> DEFINE num == t.num_buckets
           b == HASH_TO_BKT(k, num)
           linked == LinkIntoBucket(c, b, k)
           limit == (c.buckets[b].expand_mult + 1) * HASH_BKT_CAPACITY_THRESH
           full == linked.buckets[b].count >= limit
           r == HASH_ADD_TO_BKT(c, t, k)
<1>1. /\ num \in Nat \ {0} /\ b = hashv[k] % num /\ b \in 0 .. num - 1
      /\ num >= HASH_INITIAL_NUM_BUCKETS
  <2>1. num \in Nat \ {0}
    BY DEF UT_hash_table
  <2> QED
    BY <2>1, BucketOf DEF HASH_TO_BKT
<1>2. /\ full /\ ~t.noexpand => r = HASH_EXPAND_BUCKETS(linked, t)
      /\ ~full \/ t.noexpand => r = [chains |-> linked, tbl |-> t]
  BY DEF HASH_ADD_TO_BKT
<1>3. c \in ChainsOf(num) /\ BucketsHold(c, hashv, num, D)
  OBVIOUS
<1> DEFINE Elements == D \cup {k}
<1> HIDE DEF num, r, full
<1>4. /\ linked \in ChainsOf(num)
      /\ BucketsHold(linked, hashv, num, Elements)
      /\ Elements \in SUBSET Key
  <2>1. /\ LinkIntoBucket(c, hashv[k] % num, k) \in ChainsOf(num)
        /\ BucketsHold(LinkIntoBucket(c, hashv[k] % num, k), hashv, num,
                       D \cup {k})
    BY <1>1, <1>3, LinkKeepsBuckets
  <2> QED
    BY <1>1, <2>1
<1>5. /\ linked.buckets[b].count \in Nat
      /\ linked.buckets[b].expand_mult = c.buckets[b].expand_mult
      /\ \A b2 \in 0 .. num - 1 : b2 # b => linked.buckets[b2] = c.buckets[b2]
  <2> HIDE DEF b
  <2>1. PICK bkt2 :
           /\ bkt2.expand_mult = c.buckets[b].expand_mult
           /\ Changed(c, num, linked, Set(c.hh_next, k, c.buckets[b].hh_head),
                      Set(Set(c.hh_prev, k, NULL), c.buckets[b].hh_head, k),
                      b, bkt2)
    BY <1>1, <1>3, LinkFields
  <2> HIDE DEF linked
  <2>2. linked.buckets[b] \in UT_hash_bucket
    BY <1>1, <1>4 DEF ChainsOf
  <2>3. linked.buckets[b].count \in Nat
    BY <2>2 DEF UT_hash_bucket
  <2> QED
    BY <2>1, <2>3 DEF Changed
<1> HIDE DEF linked, b, Elements
<1>6. CASE ~full \/ t.noexpand
  <2>1. r.chains = linked /\ r.tbl = t
    BY <1>2, <1>6
  <2> SUFFICES ASSUME ~t.noexpand, NEW b2 \in 0 .. num - 1
               PROVE  Short(linked.buckets[b2])
    BY <2>1 DEF AllShort, num, r
  <2>2. Short(c.buckets[b2])
    BY DEF AllShort, num
  <2>3. CASE b2 # b
    BY <1>5, <2>2, <2>3
  <2>4. CASE b2 = b
    <3>1. ~(linked.buckets[b].count >= limit)
      BY <1>6 DEF full
    <3>2. limit \in Int
      <4>1. c.buckets[b].expand_mult \in Nat
        BY <1>1, <1>3 DEF ChainsOf, UT_hash_bucket
      <4> QED
        BY <4>1, BucketsAssumption
    <3> HIDE DEF limit
    <3>3. linked.buckets[b].count < limit
      BY <1>5, <3>1, <3>2
    <3> QED
      BY <1>5, <2>4, <3>3 DEF Short, limit
  <2> QED
    BY <2>3, <2>4
<1>7. CASE full /\ ~t.noexpand
  <2> DEFINE ideal == IdealChain(t.num_items, num * 2)
             num2 == r.tbl.num_buckets
  <2>1. /\ r.chains \in ChainsOf(num2)
        /\ num2 = num * 2
        /\ AllFit(r.chains, num2, ideal)
    <3>1. /\ linked \in ChainsOf(t.num_buckets)
          /\ BucketsHold(linked, hashv, t.num_buckets, Elements)
      BY <1>4 DEF num
    <3>2. r = HASH_EXPAND_BUCKETS(linked, t)
      BY <1>2, <1>7
    <3> QED
      BY <1>4, <3>1, <3>2, ExpandKeeps DEF num
  <2>2. ideal \in Nat \ {0} /\ ideal <= HASH_BKT_CAPACITY_THRESH - 1
    <3> DEFINE m == HASH_BKT_CAPACITY_THRESH - 1
               first == HASH_INITIAL_NUM_BUCKETS
               n == t.num_items
    <3>1. n \in Nat \ {0}
      <4>1. Cardinality(Key) \in Nat
        BY KeyAssumption, FS_CardinalityType
      <4> QED
        BY <4>1 DEF UT_hash_table
    <3>2. m \in Nat /\ first \in Nat /\ n <= (first * 2) * m /\ num >= first
      BY <1>1, BucketsAssumption DEF Few
    <3> HIDE DEF m, first, n
    <3>3. PICK e \in Nat : num = first + e
      <4>1. num - first \in Nat /\ num = first + (num - first)
        BY <1>1, <3>2
      <4> QED
        BY <4>1
    <3>4. (num * 2) * m = (first * 2) * m + (e * 2) * m /\ (e * 2) * m \in Nat
          /\ (first * 2) * m \in Nat
      BY <3>2, <3>3
    <3>5. n <= (num * 2) * m
      BY <3>1, <3>2, <3>4
    <3>6. num * 2 \in Nat \ {0}
      BY <1>1
    <3>7. IdealChain(n, num * 2) \in Nat \ {0} /\ IdealChain(n, num * 2) <= m
      BY <3>1, <3>2, <3>5, <3>6, IdealPositive, IdealAtMost
    <3> QED
      BY <3>7 DEF n, m
  <2> HIDE DEF ideal, num2
  <2> SUFFICES ASSUME NEW b2 \in 0 .. num2 - 1 PROVE Short(r.chains.buckets[b2])
    BY DEF AllShort, num2, r
  <2>3. r.chains.buckets[b2] \in UT_hash_bucket
    BY <2>1 DEF ChainsOf
  <2>4. Fits(r.chains.buckets[b2], ideal)
    BY <2>1 DEF AllFit
  <2> QED
    BY <2>2, <2>3, <2>4, FittingIsShort
<1> QED
  BY <1>6, <1>7

\* No bucket is as long as the threshold when there are fewer elements.
LEMMA AddToBucketStays ==
    ASSUME hashv \in [Key -> Nat], NEW t \in UT_hash_table,
           NEW c \in ChainsOf(t.num_buckets), NEW D \in SUBSET Key,
           NEW k \in Key \ D, BucketsHold(c, hashv, t.num_buckets, D),
           Cardinality(D \cup {k}) < HASH_BKT_CAPACITY_THRESH
    PROVE  LET r == HASH_ADD_TO_BKT(c, t, k) IN r.tbl = t
<1> DEFINE num == t.num_buckets
           b == HASH_TO_BKT(k, num)
           linked == LinkIntoBucket(c, b, k)
           bkt == linked.buckets[b]
           mult == c.buckets[b].expand_mult
           T == HASH_BKT_CAPACITY_THRESH
           limit == (mult + 1) * T
           Elements == D \cup {k}
           list == BucketList(linked, b)
           r == HASH_ADD_TO_BKT(c, t, k)
<1>1. /\ num \in Nat \ {0} /\ b = hashv[k] % num /\ b \in 0 .. num - 1
      /\ c \in ChainsOf(num) /\ BucketsHold(c, hashv, num, D)
  <2>1. num \in Nat \ {0}
    BY DEF UT_hash_table
  <2> QED
    BY <2>1, BucketOf DEF HASH_TO_BKT
<1>2. IsFiniteSet(Elements) /\ Cardinality(Elements) \in Nat
  BY KeyAssumption, FS_Subset, FS_CardinalityType
<1>3. Cardinality(Elements) < T
  OBVIOUS
<1> HIDE DEF num
<1>4. bkt.count = Len(list) /\ Range(list) \subseteq Elements
      /\ list \in Seq(Key) /\ IsInjective(list)
  <2>1. /\ LinkIntoBucket(c, hashv[k] % num, k) \in ChainsOf(num)
        /\ BucketsHold(LinkIntoBucket(c, hashv[k] % num, k), hashv, num,
                       D \cup {k})
    BY <1>1, LinkKeepsBuckets
  <2>2. BucketsHold(linked, hashv, num, Elements)
    BY <1>1, <2>1
  <2> HIDE DEF linked, Elements, b
  <2> QED
    BY <1>1, <2>2 DEF BucketsHold, BucketHolds, IsList
<1> HIDE DEF Elements, list
<1>5. Len(list) <= Cardinality(Elements) /\ Len(list) \in Nat
  <2>1. Len(list) \in Nat /\ DOMAIN list = 1 .. Len(list)
    BY <1>4
  <2>2. \A i \in 1 .. Len(list) : list[i] \in Elements
    BY <1>4, <2>1 DEF Range
  <2>3. list \in Seq(Elements)
    BY <1>4, <2>1, <2>2
  <2> QED
    BY <1>2, <1>4, <2>1, <2>3, ListCardinality
<1>6. mult \in Nat /\ T \in Nat
  <2>1. c.buckets[b] \in UT_hash_bucket
    BY <1>1 DEF ChainsOf
  <2> QED
    BY <2>1, BucketsAssumption DEF UT_hash_bucket
<1> HIDE DEF mult, T, bkt
<1>7. ~(bkt.count >= limit)
  <2>1. limit = mult * T + T /\ mult * T \in Nat
    BY <1>6
  <2> QED
    BY <1>2, <1>3, <1>4, <1>5, <1>6, <2>1
<1>8. r = [chains |-> linked, tbl |-> t]
  BY <1>7 DEF HASH_ADD_TO_BKT, bkt, mult, T, num
<1> QED
  BY <1>8

\* HASH_DEL only makes a bucket shorter.
LEMMA TakenShort ==
    ASSUME NEW num \in Nat \ {0}, NEW c \in ChainsOf(num),
           NEW h \in [Key -> Nat], NEW D \in SUBSET Key, NEW k \in D,
           BucketsHold(c, h, num, D), NEW b2 \in 0 .. num - 1,
           Short(c.buckets[b2])
    PROVE  Short(Taken(c, h[k] % num, k).buckets[b2])
<1> DEFINE b == h[k] % num
           c2 == Taken(c, b, k)
           q == BucketList(c, b)
<1>1. b \in 0 .. num - 1 /\ k \in Key
  BY BucketOf
<1>2. c.buckets[b] \in UT_hash_bucket /\ c.buckets[b2] \in UT_hash_bucket
  BY <1>1 DEF ChainsOf
<1>3. c.buckets[b].count # 0
  <2>1. /\ Range(q) = {p \in D : h[p] % num = b} /\ c.buckets[b].count = Len(q)
        /\ q \in Seq(Key)
    BY <1>1 DEF BucketsHold, BucketHolds, IsList
  <2> HIDE DEF q
  <2>2. k \in Range(q)
    BY <2>1
  <2>3. q # <<>>
    BY <2>2 DEF Range
  <2> QED
    BY <2>1, <2>3
<1> HIDE DEF b
<1>4. PICK bkt2 :
         /\ bkt2.count = c.buckets[b].count - 1
         /\ bkt2.expand_mult = c.buckets[b].expand_mult
         /\ c2.buckets[b] = bkt2
         /\ \A b3 \in 0 .. num - 1 : b3 # b => c2.buckets[b3] = c.buckets[b3]
  BY <1>1, <1>3, UnlinkFields DEF IsBucket, Changed
<1> HIDE DEF c2
<1>5. CASE b2 # b
  BY <1>4, <1>5 DEF c2, b
<1>6. CASE b2 = b
  <2> DEFINE limit == (c.buckets[b].expand_mult + 1) * HASH_BKT_CAPACITY_THRESH
             n == c.buckets[b].count
  <2>1. n \in Nat /\ c.buckets[b].expand_mult \in Nat
    BY <1>2 DEF UT_hash_bucket
  <2>2. limit \in Int
    BY <2>1, BucketsAssumption
  <2>3. n < limit
    BY <1>6 DEF Short
  <2> HIDE DEF limit, n
  <2>4. n - 1 < limit
    BY <2>1, <2>2, <2>3
  <2> QED
    BY <1>4, <1>6, <2>4 DEF Short, limit, n, c2, b
<1> QED
  BY <1>5, <1>6

-----------------------------------------------------------------------------
(* The order within a bucket that was never split *)

Before(q, x, y) ==
    \E m, n \in 1 .. Len(q) : m < n /\ q[m] = x /\ q[n] = y

\* The list of a bucket has the youngest element first.
Reversed(l, q) ==
    \A i, j \in 1 .. Len(l) : i < j => Before(q, l[j], l[i])

LEMMA ReversedAppend ==
    ASSUME NEW l \in Seq(Key), NEW q \in Seq(Key), Reversed(l, q),
           Range(l) \subseteq Range(q), NEW k \in Key
    PROVE  /\ Reversed(l, Append(q, k))
           /\ Reversed(Cons(k, l), Append(q, k))
<1> DEFINE r == Append(q, k)
           l2 == Cons(k, l)
<1>1. /\ Len(q) \in Nat /\ Len(r) = Len(q) + 1 /\ r[Len(q) + 1] = k
      /\ \A i \in 1 .. Len(q) : r[i] = q[i]
  OBVIOUS
<1>2. /\ Len(l) \in Nat /\ Len(l2) = Len(l) + 1 /\ l2[1] = k
      /\ \A i \in 1 .. Len(l) : l2[i + 1] = l[i]
  BY DEF Cons
<1> HIDE DEF r, l2
<1>3. \A i \in 1 .. Len(q) : i \in 1 .. Len(r) /\ i < Len(q) + 1
      /\ Len(q) + 1 \in 1 .. Len(r)
  BY <1>1
<1>4. ASSUME NEW x, NEW y, Before(q, x, y) PROVE Before(r, x, y)
  BY <1>1, <1>3, <1>4 DEF Before
<1>5. ASSUME NEW i \in 1 .. Len(l) PROVE Before(r, l[i], k)
  <2>1. l[i] \in Range(q)
    <3>1. i \in DOMAIN l
      OBVIOUS
    <3>2. l[i] \in Range(l)
      BY <3>1 DEF Range
    <3> QED
      BY <3>2
  <2>2. PICK m \in 1 .. Len(q) : q[m] = l[i]
    BY <2>1 DEF Range
  <2> DEFINE n == Len(q) + 1
  <2>3. m \in 1 .. Len(r) /\ n \in 1 .. Len(r) /\ m < n
    BY <1>3
  <2>4. r[m] = l[i] /\ r[n] = k
    BY <1>1, <2>2
  <2> HIDE DEF n
  <2> QED
    BY <2>3, <2>4 DEF Before
<1>6. Reversed(l, r)
  BY <1>4 DEF Reversed
<1>7. Reversed(l2, r)
  <2> SUFFICES ASSUME NEW i \in 1 .. Len(l2), NEW j \in 1 .. Len(l2), i < j
               PROVE  Before(r, l2[j], l2[i])
    BY DEF Reversed
  <2>1. j - 1 \in 1 .. Len(l) /\ j = (j - 1) + 1
    BY <1>2
  <2>2. l2[j] = l[j - 1]
    BY <1>2, <2>1
  <2>3. CASE i = 1
    <3>1. Before(r, l[j - 1], k)
      BY <1>5, <2>1
    <3> QED
      BY <1>2, <2>2, <2>3, <3>1
  <2>4. CASE i # 1
    <3>1. i - 1 \in 1 .. Len(l) /\ i = (i - 1) + 1 /\ i - 1 < j - 1
      BY <1>2, <2>4
    <3>2. l2[i] = l[i - 1]
      BY <1>2, <3>1
    <3> QED
      BY <1>6, <2>1, <2>2, <3>1, <3>2 DEF Reversed
  <2> QED
    BY <2>3, <2>4
<1> QED
  BY <1>6, <1>7 DEF r, l2

LEMMA ReversedRemove ==
    ASSUME NEW l \in Seq(Key), NEW q \in Seq(Key), Reversed(l, q),
           IsInjective(l), NEW n \in 1 .. Len(q)
    PROVE  /\ q[n] \notin Range(l) => Reversed(l, RemoveAt(q, n))
           /\ \A m \in 1 .. Len(l) :
                 l[m] = q[n] => Reversed(RemoveAt(l, m), RemoveAt(q, n))
<1> DEFINE r == RemoveAt(q, n)
<1>1. /\ Len(q) \in Nat /\ n \in Nat /\ Len(r) = Len(q) - 1
      /\ \A j \in 1 .. Len(q) - 1 : r[j] = IF j < n THEN q[j] ELSE q[j + 1]
  <2>1. Len(q) \in Nat /\ n \in Nat
    OBVIOUS
  <2> QED
    BY <2>1, RemoveAtEntries, Zenon
<1> HIDE DEF r
<1>2. ASSUME NEW i \in 1 .. Len(q), i # n
      PROVE  LET i2 == IF i < n THEN i ELSE i - 1
             IN  i2 \in 1 .. Len(r) /\ r[i2] = q[i]
  <2>1. CASE i < n
    <3>1. i \in 1 .. Len(q) - 1 /\ i \in 1 .. Len(r)
      BY <1>1, <2>1
    <3> QED
      BY <1>1, <2>1, <3>1
  <2>2. CASE ~(i < n)
    <3>1. /\ i - 1 \in 1 .. Len(q) - 1 /\ i - 1 \in 1 .. Len(r)
          /\ ~(i - 1 < n) /\ (i - 1) + 1 = i
      BY <1>1, <1>2, <2>2
    <3> QED
      BY <1>1, <2>2, <3>1
  <2> QED
    BY <2>1, <2>2
<1>3. ASSUME NEW x, NEW y, Before(q, x, y), x # q[n], y # q[n]
      PROVE  Before(r, x, y)
  <2>1. PICK i \in 1 .. Len(q), j \in 1 .. Len(q) : i < j /\ q[i] = x /\ q[j] = y
    BY <1>3 DEF Before
  <2> DEFINE i2 == IF i < n THEN i ELSE i - 1
             j2 == IF j < n THEN j ELSE j - 1
  <2>2. i # n /\ j # n
    BY <1>3, <2>1
  <2>3. i2 < j2
    BY <1>1, <2>1, <2>2
  <2>4. i2 \in 1 .. Len(r) /\ j2 \in 1 .. Len(r) /\ r[i2] = x /\ r[j2] = y
    BY <1>2, <2>1, <2>2
  <2> HIDE DEF i2, j2
  <2> QED
    BY <2>3, <2>4 DEF Before
<1>4. ASSUME q[n] \notin Range(l) PROVE Reversed(l, r)
  <2>1. \A i \in 1 .. Len(l) : l[i] # q[n]
    BY <1>4 DEF Range
  <2> QED
    BY <1>3, <2>1 DEF Reversed
<1>5. ASSUME NEW m \in 1 .. Len(l), l[m] = q[n]
      PROVE  Reversed(RemoveAt(l, m), r)
  <2> DEFINE l2 == RemoveAt(l, m)
  <2>1. /\ Len(l) \in Nat /\ m \in Nat /\ Len(l2) = Len(l) - 1
        /\ \A j \in 1 .. Len(l) - 1 : l2[j] = IF j < m THEN l[j] ELSE l[j + 1]
    <3>1. Len(l) \in Nat /\ m \in Nat
      OBVIOUS
    <3> QED
      BY <3>1, RemoveAtEntries, Zenon
  <2> HIDE DEF l2
  <2> DEFINE at(j) == IF j < m THEN j ELSE j + 1
  <2>2. ASSUME NEW j \in 1 .. Len(l2)
        PROVE  /\ at(j) \in 1 .. Len(l) /\ l2[j] = l[at(j)] /\ l[at(j)] # q[n]
    <3>1. at(j) \in 1 .. Len(l) /\ at(j) # m /\ j \in 1 .. Len(l) - 1
      BY <2>1
    <3>2. l2[j] = l[at(j)]
      BY <2>1, <3>1
    <3> HIDE DEF at
    <3>3. l[at(j)] # l[m]
      BY <3>1 DEF IsInjective
    <3> QED
      BY <1>5, <3>1, <3>2, <3>3
  <2>3. ASSUME NEW i \in 1 .. Len(l2), NEW j \in 1 .. Len(l2), i < j
        PROVE  at(i) < at(j)
    BY <2>1, <2>3
  <2> HIDE DEF at
  <2>4. Reversed(l2, r)
    BY <1>3, <2>2, <2>3 DEF Reversed
  <2> QED
    BY <2>4 DEF l2
<1> QED
  BY <1>4, <1>5 DEF r

-----------------------------------------------------------------------------
(* The table *)

\* The buckets of a table with the elements q hold them, and those of a table
\* that was not expanded in the reverse order.
ArrayHolds(q, h, c, num) ==
    /\ c \in ChainsOf(num)
    /\ BucketsHold(c, h, num, Range(q))
    /\ num = HASH_INITIAL_NUM_BUCKETS
          => \A b \in 0 .. num - 1 : Reversed(BucketList(c, b), q)

\* The table knows its last element and how many there are, and never has fewer
\* buckets than at first.
TableCounts(q, t) ==
    /\ t \in UT_hash_table
    /\ t.tail = Last(q)
    /\ t.num_items = Len(q)
    /\ t.num_buckets >= HASH_INITIAL_NUM_BUCKETS

TableHolds(q, h, first, nxt, prv, c, t) ==
    /\ nxt \in [Key -> Pointer]
    /\ prv \in [Key -> Pointer]
    /\ IsList(q, first, nxt, prv)
    /\ ArrayHolds(q, h, c, t.num_buckets)
    /\ IF first = NULL THEN t = NoTable ELSE TableCounts(q, t)

TableInv == TableHolds(AppOrder, hashv, head, next, prev, Chains, tbl)

\* While HASH_ITER runs, el is the first element and temp the second.
Iterating ==
    /\ el \in Pointer
    /\ temp \in Pointer
    /\ el # NULL => el = head /\ temp = next[head]

ShortInv == head # NULL => AllShort(Chains, tbl)

\* The table was not expanded since its first element.
FirstBuckets == head # NULL => tbl.num_buckets = HASH_INITIAL_NUM_BUCKETS

\* The inductive invariant.
IInv == hashv \in HashFunctions /\ TableInv /\ Iterating

LEMMA HashValues == ASSUME hashv \in HashFunctions PROVE hashv \in [Key -> Nat]
BY HashAssumption

\* The pointers decide what the elements are.
LEMMA ListRead ==
    ASSUME NEW q, NEW h, NEW c, NEW t,
           TableHolds(q, h, head', next', prev', c, t)
    PROVE  AppOrder' = q
<1>1. /\ next' \in [Key -> Pointer] /\ q \in Seq(Key) /\ IsInjective(q)
      /\ head' = Nth(q, 1)
      /\ \A i \in 1 .. Len(q) : next'[q[i]] = Nth(q, i + 1)
  BY DEF TableHolds, IsList
<1> DEFINE nxt == next'
<1> HIDE DEF nxt
<1>2. Follow(nxt, Nth(q, 1)) = q
  BY <1>1, FollowReads DEF nxt
<1> QED
  BY <1>1, <1>2 DEF AppOrder, nxt

\* Two records of chains with the same fields are the same.
LEMMA ChainsEqual ==
    ASSUME NEW num, NEW c \in ChainsOf(num)
    PROVE  c = [hh_next |-> c.hh_next, hh_prev |-> c.hh_prev,
                buckets |-> c.buckets]
BY DEF ChainsOf

LEMMA EmptyArrayHolds ==
    ASSUME NEW num \in Nat, NEW nxt \in [Key -> Pointer],
           NEW prv \in [Key -> Pointer], NEW c, NEW h,
           c = [hh_next |-> nxt, hh_prev |-> prv, buckets |-> EmptyBuckets(num)]
    PROVE  ArrayHolds(<<>>, h, c, num)
<1>1. /\ c \in ChainsOf(num)
      /\ BucketsHold(c, h, num, {})
      /\ \A b \in 0 .. num - 1 : BucketList(c, b) = <<>>
  BY EmptyBucketsHold
<1>2. Range(<<>>) = {} /\ Reversed(<<>>, <<>>)
  BY DEF Range, Reversed
<1> QED
  BY <1>1, <1>2 DEF ArrayHolds

\* One more element in the buckets.
LEMMA ArrayAdd ==
    ASSUME hashv \in [Key -> Nat], NEW q \in Seq(Key), NEW t \in UT_hash_table,
           NEW c, ArrayHolds(q, hashv, c, t.num_buckets),
           Range(q) \subseteq Key,
           t.num_buckets >= HASH_INITIAL_NUM_BUCKETS,
           NEW k \in Key, k \notin Range(q)
    PROVE  LET r == HASH_ADD_TO_BKT(c, t, k)
           IN  /\ ArrayHolds(Append(q, k), hashv, r.chains, r.tbl.num_buckets)
               /\ Grown(t, r.tbl)
               /\ r.tbl.num_buckets >= HASH_INITIAL_NUM_BUCKETS
<1> DEFINE r == HASH_ADD_TO_BKT(c, t, k)
           D == Range(q)
           num == t.num_buckets
           num2 == r.tbl.num_buckets
           q2 == Append(q, k)
           b == hashv[k] % num
<1>1. /\ num \in Nat \ {0}
      /\ HASH_INITIAL_NUM_BUCKETS \in Nat \ {0}
      /\ num >= HASH_INITIAL_NUM_BUCKETS
  BY BucketsAssumption DEF UT_hash_table
<1>2. /\ c \in ChainsOf(num)
      /\ BucketsHold(c, hashv, num, D)
      /\ num = HASH_INITIAL_NUM_BUCKETS
            => \A b2 \in 0 .. num - 1 : Reversed(BucketList(c, b2), q)
  BY DEF ArrayHolds
<1>3. /\ r.chains \in ChainsOf(num2)
      /\ BucketsHold(r.chains, hashv, num2, D \cup {k})
      /\ Grown(t, r.tbl)
      /\ num2 # num * 2 => r.chains = LinkIntoBucket(c, b, k)
  <2> DEFINE R(x) == /\ x.chains \in ChainsOf(x.tbl.num_buckets)
                     /\ BucketsHold(x.chains, hashv, x.tbl.num_buckets, D \cup {k})
                     /\ Grown(t, x.tbl)
                     /\ x.tbl.num_buckets # t.num_buckets * 2
                        => x.chains = LinkIntoBucket(c, b, k)
  <2>1. k \in Key \ D /\ D \in SUBSET Key
    OBVIOUS
  <2> HIDE DEF D
  <2>2. R(HASH_ADD_TO_BKT(c, t, k))
    BY <1>2, <2>1, AddToBucketKeeps
  <2> QED
    BY <2>2
<1>4. Range(q2) = D \cup {k}
  BY AppendOnce
<1>5. num2 \in {num, num * 2}
  BY <1>3 DEF Grown
<1> HIDE DEF r, num, num2, b
<1>6. num2 >= HASH_INITIAL_NUM_BUCKETS
  BY <1>1, <1>5
<1>7. ASSUME num2 = HASH_INITIAL_NUM_BUCKETS, NEW b2 \in 0 .. num2 - 1
      PROVE  Reversed(BucketList(r.chains, b2), q2)
  <2>1. num2 = num /\ num2 # num * 2
    BY <1>1, <1>5, <1>7
  <2>2. b2 \in 0 .. num - 1 /\ Reversed(BucketList(c, b2), q)
    BY <1>2, <1>7, <2>1
  <2>3. \/ BucketList(r.chains, b2) = BucketList(c, b2)
        \/ BucketList(r.chains, b2) = Cons(k, BucketList(c, b2))
    <3>1. /\ num \in Nat \ {0} /\ c \in ChainsOf(num) /\ hashv \in [Key -> Nat]
          /\ D \in SUBSET Key /\ k \in Key \ D
          /\ BucketsHold(c, hashv, num, D)
      BY <1>1, <1>2
    <3> HIDE DEF D
    <3>2. LinkedIn(c, LinkIntoBucket(c, hashv[k] % num, k), num,
                   hashv[k] % num, k)
      BY <3>1, LinkKeepsBuckets
    <3>3. LinkedIn(c, r.chains, num, b, k)
      BY <1>3, <2>1, <3>2 DEF b
    <3> QED
      BY <2>2, <3>3 DEF LinkedIn
  <2>4. /\ BucketList(c, b2) \in Seq(Key)
        /\ Range(BucketList(c, b2)) \subseteq Range(q)
    BY <1>2, <2>2 DEF BucketsHold, BucketHolds, IsList
  <2> DEFINE l == BucketList(c, b2)
  <2> HIDE DEF l
  <2>5. Reversed(l, q2) /\ Reversed(Cons(k, l), q2)
    BY <2>2, <2>4, ReversedAppend DEF l
  <2> QED
    BY <2>3, <2>5 DEF l
<1> HIDE DEF q2, D
<1>8. ArrayHolds(q2, hashv, r.chains, num2)
  BY <1>3, <1>4, <1>7 DEF ArrayHolds
<1> QED
  BY <1>3, <1>6, <1>8 DEF r, num2, q2

\* One element less in the buckets.
LEMMA ArrayRemove ==
    ASSUME hashv \in [Key -> Nat], NEW q \in Seq(Key), IsInjective(q),
           NEW num \in Nat \ {0}, NEW c, ArrayHolds(q, hashv, c, num),
           NEW n \in 1 .. Len(q)
    PROVE  ArrayHolds(RemoveAt(q, n), hashv,
                      Taken(c, HASH_TO_BKT(q[n], num), q[n]), num)
<1> DEFINE k == q[n]
           D == Range(q)
           b == hashv[k] % num
           c2 == Taken(c, b, k)
           q2 == RemoveAt(q, n)
<1>1. D \in SUBSET Key /\ k \in D /\ k \in Key
  <2>1. DOMAIN q = 1 .. Len(q) /\ \A i \in 1 .. Len(q) : q[i] \in Key
    OBVIOUS
  <2> QED
    BY <2>1 DEF Range
<1>2. /\ c \in ChainsOf(num)
      /\ BucketsHold(c, hashv, num, D)
      /\ num = HASH_INITIAL_NUM_BUCKETS
            => \A b2 \in 0 .. num - 1 : Reversed(BucketList(c, b2), q)
  BY DEF ArrayHolds
<1>3. /\ c2 \in ChainsOf(num)
      /\ BucketsHold(c2, hashv, num, D \ {k})
      /\ TakenOut(c, c2, num, b, k)
  <2> HIDE DEF D, k
  <2> QED
    BY <1>1, <1>2, UnlinkKeepsBuckets
<1> HIDE DEF c2
<1>4. Range(q2) = D \ {k}
  <2>1. n \in DOMAIN q
    OBVIOUS
  <2> QED
    BY <2>1, RemoveAtOnce
<1>5. ASSUME num = HASH_INITIAL_NUM_BUCKETS, NEW b2 \in 0 .. num - 1
      PROVE  Reversed(BucketList(c2, b2), q2)
  <2> DEFINE l == BucketList(c, b2)
  <2>1. /\ Reversed(l, q) /\ l \in Seq(Key) /\ IsInjective(l)
        /\ Range(l) = {p \in D : hashv[p] % num = b2}
    BY <1>2, <1>5 DEF BucketsHold, BucketHolds, IsList
  <2> HIDE DEF l
  <2>2. /\ q[n] \notin Range(l) => Reversed(l, q2)
        /\ \A m \in 1 .. Len(l) :
              l[m] = q[n] => Reversed(RemoveAt(l, m), q2)
    BY <2>1, ReversedRemove
  <2>3. CASE b2 = b
    BY <1>3, <2>2, <2>3 DEF l, TakenOut
  <2>4. CASE b2 # b
    <3>1. k \notin Range(l)
      BY <2>1, <2>4
    <3> QED
      BY <1>3, <2>2, <2>4, <3>1 DEF l, TakenOut
  <2> QED
    BY <2>3, <2>4
<1>6. ArrayHolds(q2, hashv, c2, num)
  <2> HIDE DEF q2, D, k
  <2> QED
    BY <1>3, <1>4, <1>5 DEF ArrayHolds
<1> QED
  BY <1>6 DEF c2, HASH_TO_BKT

\* HASH_ADD puts an element that was not there behind the others.
LEMMA AddKeeps ==
    ASSUME hashv \in [Key -> Nat], TableInv,
           NEW k \in Key, k \notin Range(AppOrder), HASH_ADD(k)
    PROVE  /\ TableHolds(Append(AppOrder, k), hashv, head', next', prev',
                         Chains', tbl')
           /\ Few(Len(Append(AppOrder, k))) /\ ShortInv => AllShort(Chains', tbl')
           /\ Len(Append(AppOrder, k)) < HASH_BKT_CAPACITY_THRESH
              => tbl'.num_buckets = IF head = NULL THEN HASH_INITIAL_NUM_BUCKETS
                                    ELSE tbl.num_buckets
<1> DEFINE q == AppOrder
           q2 == Append(q, k)
           n0 == IF head = NULL THEN HASH_INITIAL_NUM_BUCKETS
                 ELSE tbl.num_buckets
           made == HASH_MAKE_TABLE(k)
           t == IF head = NULL THEN made ELSE [tbl EXCEPT !.tail = k]
           t2 == [t EXCEPT !.num_items = t.num_items + 1]
           c == IF head = NULL
                THEN WithBuckets(Chains, EmptyBuckets(made.num_buckets))
                ELSE Chains
           r == HASH_ADD_TO_BKT(c, t2, k)
<1>1. /\ next \in [Key -> Pointer] /\ prev \in [Key -> Pointer]
      /\ IsList(q, head, next, prev)
      /\ ArrayHolds(q, hashv, Chains, tbl.num_buckets)
      /\ IF head = NULL THEN tbl = NoTable ELSE TableCounts(q, tbl)
  BY DEF TableInv, TableHolds
<1>2. hh_next \in [Key -> Pointer] /\ hh_prev \in [Key -> Pointer]
  BY <1>1 DEF ArrayHolds, ChainsOf, Chains
<1>3. /\ hh_next' = r.chains.hh_next /\ hh_prev' = r.chains.hh_prev
      /\ buckets' = r.chains.buckets /\ tbl' = r.tbl
      /\ IF head = NULL
         THEN /\ head' = k
              /\ next' = Set(next, k, NULL)
              /\ prev' = Set(prev, k, NULL)
         ELSE /\ head' = head
              /\ next' = Set(Set(next, k, NULL), tbl.tail, k)
              /\ prev' = Set(prev, k, tbl.tail)
  BY DEF HASH_ADD, HASH_APPEND_LIST
<1> HIDE DEF q, made, t, t2, c, r
<1>4. /\ q \in Seq(Key) /\ IsInjective(q) /\ Range(q) \subseteq Key
      /\ Len(q) \in Nat /\ k \notin Range(q)
      /\ q = <<>> <=> head = NULL
  <2>1. Range(q) \subseteq Key /\ Len(q) \in Nat /\ (q = <<>> <=> head = NULL)
    BY <1>1, ListEntries
  <2> QED
    BY <1>1, <2>1 DEF IsList, q
<1>5. /\ q2 \in Seq(Key) /\ IsInjective(q2) /\ Len(q2) = Len(q) + 1
      /\ Last(q2) = k /\ q2 # <<>>
      /\ Len(q2) \in 1 .. Cardinality(Key)
  <2>1. q2 \in Seq(Key) /\ Len(q2) = Len(q) + 1 /\ Last(q2) = k /\ q2 # <<>>
    BY <1>4 DEF Last
  <2>2. IsInjective(q2)
    BY <1>4, AppendOnce
  <2> HIDE DEF q2
  <2>3. Len(q2) <= Cardinality(Key)
    BY <2>1, <2>2, KeyAssumption, ListCardinality
  <2>4. Cardinality(Key) \in Nat
    BY KeyAssumption, FS_CardinalityType
  <2> QED
    BY <1>4, <2>1, <2>2, <2>3, <2>4
<1>6. /\ t2 \in UT_hash_table /\ t2.tail = k /\ t2.num_items = Len(q2)
      /\ t2.num_buckets >= HASH_INITIAL_NUM_BUCKETS /\ t2.num_buckets = n0
      /\ ArrayHolds(q, hashv, c, t2.num_buckets)
      /\ ShortInv => AllShort(c, t2)
  <2>1. CASE head = NULL
    <3> DEFINE num == HASH_INITIAL_NUM_BUCKETS
    <3>1. num \in Nat \ {0} /\ num >= num
      BY BucketsAssumption
    <3>2. /\ t2 = [num_buckets |-> num, num_items |-> 1, tail |-> k,
                   ineff_expands |-> 0, noexpand |-> FALSE]
          /\ made.num_buckets = num
      <4>1. made = [num_buckets |-> num, num_items |-> 0, tail |-> k,
                    ineff_expands |-> 0, noexpand |-> FALSE]
        BY DEF made, HASH_MAKE_TABLE
      <4>2. t2 = [made EXCEPT !.num_items = made.num_items + 1]
        BY <2>1 DEF t2, t
      <4>3. made.num_items + 1 = 1 /\ made.num_buckets = num
        BY <4>1
      <4>4. t2 = [made EXCEPT !.num_items = 1]
        BY <4>2, <4>3
      <4> QED
        BY <4>1, <4>3, <4>4
    <3>3. q = <<>> /\ Len(q) = 0
      BY <1>4, <2>1
    <3>4. c = [hh_next |-> hh_next, hh_prev |-> hh_prev,
               buckets |-> EmptyBuckets(num)]
      BY <2>1, <3>2 DEF c, WithBuckets, Chains
    <3> HIDE DEF num, q2
    <3>5. ArrayHolds(q, hashv, c, num)
      BY <1>2, <3>1, <3>3, <3>4, EmptyArrayHolds
    <3>6. 1 \in 1 .. Cardinality(Key) /\ Len(q2) = 1
      BY <1>5, <3>3
    <3>7. t2 \in UT_hash_table /\ t2.tail = k /\ t2.num_items = 1
          /\ t2.num_buckets = num
      BY <3>1, <3>2, <3>6 DEF UT_hash_table
    <3>8. AllShort(c, t2)
      <4> SUFFICES ASSUME NEW b \in 0 .. num - 1 PROVE Short(c.buckets[b])
        BY <3>7 DEF AllShort
      <4>1. c.buckets[b] = EmptyBucket
        BY <1>2, <3>1, <3>4, EmptyBucketsHold
      <4>2. HASH_BKT_CAPACITY_THRESH \in Nat \ {0}
        BY BucketsAssumption
      <4> QED
        BY <4>1, <4>2 DEF Short, EmptyBucket
    <3> QED
      BY <2>1, <3>1, <3>5, <3>6, <3>7, <3>8 DEF num
  <2>2. CASE head # NULL
    <3>1. /\ tbl \in UT_hash_table /\ tbl.num_items = Len(q)
          /\ tbl.num_buckets >= HASH_INITIAL_NUM_BUCKETS
      BY <1>1, <2>2 DEF TableCounts
    <3>2. t = [tbl EXCEPT !.tail = k]
      BY <2>2 DEF t
    <3>3. /\ t \in UT_hash_table /\ t.num_items = Len(q) /\ t.tail = k
          /\ t.num_buckets = tbl.num_buckets /\ t.noexpand = tbl.noexpand
      BY <3>1, <3>2 DEF UT_hash_table
    <3> DEFINE n == t.num_items + 1
    <3>4. n = Len(q2) /\ n \in 1 .. Cardinality(Key)
      BY <1>5, <3>3
    <3>5. t2 = [t EXCEPT !.num_items = n]
      BY DEF t2
    <3> HIDE DEF n, q2
    <3>6. /\ t2 \in UT_hash_table /\ t2.num_items = n /\ t2.tail = k
          /\ t2.num_buckets = t.num_buckets /\ t2.noexpand = t.noexpand
      BY <3>3, <3>4, <3>5 DEF UT_hash_table
    <3>7. c = Chains
      BY <2>2 DEF c
    <3>8. ShortInv => AllShort(c, t2)
      BY <2>2, <3>3, <3>6, <3>7 DEF ShortInv, AllShort
    <3> QED
      BY <1>1, <2>2, <3>1, <3>3, <3>4, <3>6, <3>7, <3>8
  <2> QED
    BY <2>1, <2>2
<1>7. /\ ArrayHolds(q2, hashv, r.chains, r.tbl.num_buckets)
      /\ Grown(t2, r.tbl)
      /\ r.tbl.num_buckets >= HASH_INITIAL_NUM_BUCKETS
      /\ Few(Len(q2)) /\ ShortInv => AllShort(r.chains, r.tbl)
      /\ Len(q2) < HASH_BKT_CAPACITY_THRESH => r.tbl.num_buckets = n0
  <2> DEFINE D == Range(q)
  <2>1. /\ D \in SUBSET Key /\ k \in Key \ D
        /\ c \in ChainsOf(t2.num_buckets)
        /\ BucketsHold(c, hashv, t2.num_buckets, D)
    BY <1>4, <1>6 DEF ArrayHolds
  <2>2. D \cup {k} = Range(q2) /\ Cardinality(Range(q2)) = Len(q2)
    <3>1. Range(q2) = D \cup {k}
      BY <1>4, AppendOnce
    <3> HIDE DEF q2
    <3> QED
      BY <1>5, <3>1, KeyAssumption, ListCardinality
  <2>3. /\ ArrayHolds(q2, hashv, r.chains, r.tbl.num_buckets)
        /\ Grown(t2, r.tbl)
        /\ r.tbl.num_buckets >= HASH_INITIAL_NUM_BUCKETS
    BY <1>4, <1>6, ArrayAdd DEF r
  <2> HIDE DEF D, q2
  <2>4. Few(Len(q2)) /\ ShortInv => AllShort(r.chains, r.tbl)
    BY <1>6, <2>1, AddToBucketShort DEF r
  <2>5. Len(q2) < HASH_BKT_CAPACITY_THRESH => r.tbl.num_buckets = n0
    BY <1>6, <2>1, <2>2, AddToBucketStays DEF r
  <2> QED
    BY <2>3, <2>4, <2>5
<1>8. Chains' = r.chains /\ ArrayHolds(q2, hashv, Chains', tbl'.num_buckets)
  <2> HIDE DEF q2
  <2>1. r.chains = [hh_next |-> r.chains.hh_next, hh_prev |-> r.chains.hh_prev,
                    buckets |-> r.chains.buckets]
    BY <1>7, ChainsEqual DEF ArrayHolds
  <2>2. Chains' = r.chains
    BY <1>3, <2>1 DEF Chains
  <2> QED
    BY <1>3, <1>7, <2>2
<1>9. TableCounts(q2, tbl')
  <2> HIDE DEF q2
  <2> QED
    BY <1>3, <1>5, <1>6, <1>7 DEF Grown, TableCounts
<1>10. /\ IsList(q2, head', next', prev') /\ head' # NULL
       /\ next' \in [Key -> Pointer] /\ prev' \in [Key -> Pointer]
  <2>1. CASE head = NULL
    <3>1. q = <<>>
      BY <1>4, <2>1
    <3>2. Cons(k, q) = q2
      BY <3>1 DEF Cons
    <3>3. IsList(Cons(k, q), k, Set(next, k, NULL),
                 Set(Set(prev, k, NULL), NULL, k))
      BY <1>1, <1>4, <2>1, PushFront
    <3>4. Set(Set(prev, k, NULL), NULL, k) = Set(prev, k, NULL)
      BY DEF Set
    <3> HIDE DEF q2
    <3>5. IsList(q2, head', next', prev')
      BY <1>3, <2>1, <3>2, <3>3, <3>4
    <3>6. /\ Set(next, k, NULL) \in [Key -> Pointer]
          /\ Set(prev, k, NULL) \in [Key -> Pointer]
      BY <1>1 DEF Set, Pointer
    <3>7. k # NULL
      BY KeyAssumption
    <3> QED
      BY <1>3, <2>1, <3>5, <3>6, <3>7
  <2>2. CASE head # NULL
    <3>1. tbl.tail = Last(q) /\ q # <<>>
      BY <1>1, <1>4, <2>2 DEF TableCounts
    <3>2. /\ IsList(q2, head, Set(Set(next, k, NULL), Last(q), k),
                    Set(prev, k, Last(q)))
          /\ Last(q) \in Range(q)
      BY <1>1, <1>4, <3>1, PushBack
    <3> HIDE DEF q2
    <3>3. IsList(q2, head', next', prev')
      BY <1>3, <2>2, <3>1, <3>2
    <3>4. Last(q) \in Key
      BY <1>4, <3>2
    <3>5. /\ Set(Set(next, k, NULL), Last(q), k) \in [Key -> Pointer]
          /\ Set(prev, k, Last(q)) \in [Key -> Pointer]
      BY <1>1, <3>4 DEF Set, Pointer
    <3> QED
      BY <1>3, <2>2, <3>1, <3>3, <3>5
  <2> QED
    BY <2>1, <2>2
<1> HIDE DEF q2
<1>11. TableHolds(q2, hashv, head', next', prev', Chains', tbl')
  BY <1>8, <1>9, <1>10 DEF TableHolds
<1>12. /\ Few(Len(q2)) /\ ShortInv => AllShort(Chains', tbl')
       /\ Len(q2) < HASH_BKT_CAPACITY_THRESH => tbl'.num_buckets = n0
  BY <1>3, <1>7, <1>8
<1> QED
  BY <1>11, <1>12 DEF q2, q

\* HASH_DEL takes an element out, and the table away with the last one.
LEMMA DeleteKeeps ==
    ASSUME hashv \in [Key -> Nat], TableInv,
           NEW k \in Range(AppOrder), HASH_DELETE(k)
    PROVE  /\ TableHolds(RemoveFirst(AppOrder, k), hashv, head', next', prev',
                         Chains', tbl')
           /\ k = head => head' = next[k]
           /\ head' # NULL => /\ tbl'.num_buckets = tbl.num_buckets
                              /\ ShortInv => AllShort(Chains', tbl')
<1> DEFINE q == AppOrder
           alone == prev[k] = NULL /\ next[k] = NULL
           num == tbl.num_buckets
           left == IF alone THEN WithBuckets(Chains, EmptyBuckets(0))
                   ELSE HASH_DEL_IN_BKT(Chains, HASH_TO_BKT(k, num), k)
<1>1. /\ next \in [Key -> Pointer] /\ prev \in [Key -> Pointer]
      /\ IsList(q, head, next, prev)
      /\ ArrayHolds(q, hashv, Chains, num)
      /\ IF head = NULL THEN tbl = NoTable ELSE TableCounts(q, tbl)
  BY DEF TableInv, TableHolds
<1>2. /\ hh_next \in [Key -> Pointer] /\ hh_prev \in [Key -> Pointer]
  BY <1>1 DEF ArrayHolds, ChainsOf, Chains
<1>3. /\ head' = IF prev[k] = NULL THEN next[k] ELSE head
      /\ next' = Forget(Set(next, prev[k], next[k]), k)
      /\ prev' = Forget(Set(prev, next[k], prev[k]), k)
      /\ hh_next' = Forget(left.hh_next, k)
      /\ hh_prev' = Forget(left.hh_prev, k)
      /\ buckets' = left.buckets
      /\ tbl' = IF alone THEN NoTable
                ELSE [tbl EXCEPT !.tail = NewTail(k),
                                 !.num_items = tbl.num_items - 1]
  BY DEF HASH_DELETE
<1>4. /\ q \in Seq(Key) /\ IsInjective(q) /\ k \in Range(q) /\ k \in Key
      /\ Len(q) \in Nat /\ \E n \in 1 .. Len(q) : q[n] = k
      /\ q = <<>> <=> head = NULL
  <2>1. k \in Range(q)
    OBVIOUS
  <2> HIDE DEF q
  <2>2. /\ k \in Key /\ Len(q) \in Nat /\ \E n \in 1 .. Len(q) : q[n] = k
        /\ q = <<>> <=> head = NULL
    BY <1>1, <2>1, ListEntries
  <2> QED
    BY <1>1, <2>1, <2>2 DEF IsList
<1> HIDE DEF q, left, num
<1>5. PICK n \in 1 .. Len(q) : q[n] = k
  BY <1>4
<1> DEFINE q2 == RemoveAt(q, n)
<1>6. RemoveFirst(q, k) = q2
  BY <1>4, <1>5, RemoveFirstAt
<1>7. /\ IsList(q2, IF head = k THEN next[k] ELSE head, next', prev')
      /\ head = k <=> prev[k] = NULL
      /\ head = k <=> n = 1
      /\ next[k] = NULL <=> n = Len(q)
      /\ prev[k] \in Range(q) \cup {NULL}
      /\ next[k] \in Range(q) \cup {NULL}
  <2>1. /\ IsList(RemoveAt(q, n), IF head = q[n] THEN next[q[n]] ELSE head,
                  Forget(Set(next, prev[q[n]], next[q[n]]), q[n]),
                  Forget(Set(prev, next[q[n]], prev[q[n]]), q[n]))
        /\ head = q[n] <=> prev[q[n]] = NULL
        /\ head = q[n] <=> n = 1
        /\ next[q[n]] = NULL <=> n = Len(q)
        /\ prev[q[n]] \in Range(q) \cup {NULL}
        /\ next[q[n]] \in Range(q) \cup {NULL}
    BY <1>1, Unlink
  <2> HIDE DEF q2
  <2> QED
    BY <1>3, <1>5, <2>1 DEF q2
<1>8. /\ IsList(q2, head', next', prev')
      /\ k = head => head' = next[k]
  <2> HIDE DEF q2
  <2> QED
    BY <1>3, <1>7
<1>9. next' \in [Key -> Pointer] /\ prev' \in [Key -> Pointer]
  <2>1. prev[k] \in Pointer /\ next[k] \in Pointer
    BY <1>1, <1>4
  <2> QED
    BY <1>1, <1>3, <1>4, <2>1 DEF Forget, Set, Pointer
<1>10. /\ Len(q2) = Len(q) - 1 /\ q2 \in Seq(Key)
       /\ \A j \in 1 .. Len(q) - 1 : q2[j] = IF j < n THEN q[j] ELSE q[j + 1]
  BY <1>4, RemoveAtEntries, Zenon
<1>11. CASE alone
  <2>1. n = 1 /\ Len(q) = 1
    BY <1>7, <1>11
  <2>2. q2 = <<>>
    BY <1>10, <2>1
  <2> HIDE DEF q2
  <2>3. head' = NULL
    BY <1>3, <1>11
  <2>4. tbl' = NoTable /\ tbl'.num_buckets = 0
    BY <1>3, <1>11 DEF NoTable
  <2>5. /\ left.hh_next = hh_next /\ left.hh_prev = hh_prev
        /\ left.buckets = EmptyBuckets(0)
    BY <1>11 DEF left, WithBuckets, Chains
  <2> DEFINE nxt2 == Forget(hh_next, k)
             prv2 == Forget(hh_prev, k)
  <2>6. nxt2 \in [Key -> Pointer] /\ prv2 \in [Key -> Pointer]
    BY <1>2 DEF Forget, Set, Pointer
  <2>7. Chains' = [hh_next |-> nxt2, hh_prev |-> prv2,
                   buckets |-> EmptyBuckets(0)]
    BY <1>3, <2>5 DEF Chains
  <2> DEFINE c2 == Chains'
  <2> HIDE DEF nxt2, prv2, c2
  <2>8. ArrayHolds(<<>>, hashv, c2, 0)
    BY <2>6, <2>7, EmptyArrayHolds DEF c2
  <2>9. TableHolds(q2, hashv, head', next', prev', Chains', tbl')
    BY <1>8, <1>9, <2>2, <2>3, <2>4, <2>8 DEF TableHolds, c2
  <2> QED
    BY <1>6, <1>8, <2>3, <2>9 DEF q
<1>12. CASE ~alone
  <2>1. head # NULL
    BY <1>4, <1>5
  <2>2. /\ tbl \in UT_hash_table /\ tbl.tail = Last(q) /\ tbl.num_items = Len(q)
        /\ num >= HASH_INITIAL_NUM_BUCKETS /\ num \in Nat \ {0}
    BY <1>1, <2>1 DEF TableCounts, num, UT_hash_table
  <2>3. Chains' = Taken(Chains, HASH_TO_BKT(k, num), k)
    BY <1>3, <1>12 DEF left, Taken, Chains
  <2>4. ArrayHolds(q2, hashv, Chains', num)
    <3> DEFINE c == Chains
    <3> HIDE DEF c
    <3>1. ArrayHolds(q2, hashv, Taken(c, HASH_TO_BKT(q[n], num), q[n]), num)
      BY <1>1, <1>4, <2>2, ArrayRemove DEF c
    <3> HIDE DEF q2
    <3> QED
      BY <1>5, <2>3, <3>1 DEF c
  <2>5. ~(n = 1 /\ n = Len(q)) /\ Len(q) \in Nat /\ n \in 1 .. Len(q)
    BY <1>4, <1>7, <1>12
  <2>6. Len(q) > 1
    BY <2>5
  <2>7. Last(q) = q[Len(q)] /\ Last(q2) = q2[Len(q) - 1]
    BY <1>4, <1>10 DEF Last
  <2>8. tbl.tail = k <=> n = Len(q)
    <3>1. Len(q) \in 1 .. Len(q) /\ n \in 1 .. Len(q) /\ DOMAIN q = 1 .. Len(q)
      BY <1>4, <2>5
    <3>2. tbl.tail = q[Len(q)]
      BY <2>2, <2>7
    <3>3. q[n] = q[Len(q)] => n = Len(q)
      BY <1>4, <3>1 DEF IsInjective
    <3> QED
      BY <1>5, <3>2, <3>3
  <2>9. NewTail(k) = Last(q2)
    <3>1. CASE n = Len(q)
      <4>1. /\ n - 1 \in 1 .. Len(q) - 1 /\ n - 1 \in 1 .. Len(q) /\ n - 1 < n
            /\ n - 1 = Len(q) - 1
        BY <2>6, <3>1
      <4>2. q2[Len(q) - 1] = q[n - 1]
        BY <1>10, <4>1
      <4>3. prev[k] = q[n - 1]
        BY <1>1, <1>5, <4>1 DEF IsList, Nth
      <4> HIDE DEF q2
      <4> QED
        BY <2>7, <2>8, <3>1, <4>2, <4>3 DEF NewTail
    <3>2. CASE n # Len(q)
      <4>1. /\ Len(q) - 1 \in 1 .. Len(q) - 1 /\ ~(Len(q) - 1 < n)
            /\ (Len(q) - 1) + 1 = Len(q)
        BY <2>5, <2>6, <3>2
      <4>2. q2[Len(q) - 1] = q[Len(q)]
        BY <1>10, <4>1
      <4> HIDE DEF q2
      <4> QED
        BY <2>2, <2>7, <2>8, <3>2, <4>2 DEF NewTail
    <3> QED
      BY <3>1, <3>2
  <2> HIDE DEF q2
  <2>10. Last(q2) \in Key
    <3>1. Len(q) - 1 \in 1 .. Len(q) - 1
      BY <2>5, <2>6
    <3> QED
      BY <1>10, <2>7, <3>1
  <2> DEFINE n2 == tbl.num_items - 1
  <2>11. n2 = Len(q2) /\ n2 \in 1 .. Cardinality(Key)
    <3>1. Cardinality(Key) \in Nat
      BY KeyAssumption, FS_CardinalityType
    <3>2. tbl.num_items \in 1 .. Cardinality(Key)
      BY <2>2 DEF UT_hash_table
    <3> QED
      BY <1>10, <2>2, <2>6, <3>1, <3>2
  <2>12. tbl' = [tbl EXCEPT !.tail = Last(q2), !.num_items = n2]
    BY <1>3, <1>12, <2>9
  <2> HIDE DEF n2
  <2>13. /\ tbl' \in UT_hash_table /\ tbl'.tail = Last(q2)
         /\ tbl'.num_items = n2 /\ tbl'.num_buckets = num
         /\ tbl'.noexpand = tbl.noexpand
    BY <2>2, <2>10, <2>11, <2>12 DEF UT_hash_table, num
  <2>14. TableCounts(q2, tbl')
    BY <2>2, <2>11, <2>13 DEF TableCounts
  <2>15. q2 # <<>>
    BY <1>10, <2>6
  <2>16. head' # NULL
    BY <1>8, <2>15, ListEntries
  <2>17. TableHolds(q2, hashv, head', next', prev', Chains', tbl')
    BY <1>8, <1>9, <2>4, <2>13, <2>14, <2>16 DEF TableHolds
  <2>18. ShortInv => AllShort(Chains', tbl')
    <3> SUFFICES ASSUME ShortInv, ~tbl'.noexpand, NEW b \in 0 .. num - 1
                 PROVE  Short(Chains'.buckets[b])
      BY <2>13 DEF AllShort
    <3> DEFINE c == Chains
               D == Range(q)
    <3>1. Short(c.buckets[b])
      BY <2>1, <2>13 DEF ShortInv, AllShort, num
    <3>2. /\ c \in ChainsOf(num) /\ BucketsHold(c, hashv, num, D)
          /\ D \in SUBSET Key /\ k \in D
      <4>1. D \subseteq Key
        BY <1>1, ListEntries
      <4> QED
        BY <1>1, <1>4, <4>1 DEF ArrayHolds
    <3>3. Chains' = Taken(c, hashv[k] % num, k)
      BY <2>3 DEF HASH_TO_BKT
    <3> HIDE DEF c, D
    <3>4. Short(Taken(c, hashv[k] % num, k).buckets[b])
      BY <2>2, <3>1, <3>2, TakenShort
    <3> QED
      BY <3>3, <3>4
  <2> QED
    BY <1>6, <1>8, <2>13, <2>17, <2>18 DEF q, num
<1> QED
  BY <1>11, <1>12

-----------------------------------------------------------------------------
(* The steps *)

LEMMA InitHolds == Init => IInv
<1> SUFFICES ASSUME Init PROVE IInv
  OBVIOUS
<1> DEFINE nowhere == [k \in Key |-> NULL]
<1>1. /\ hashv \in HashFunctions /\ head = NULL
      /\ prev = nowhere /\ next = nowhere
      /\ hh_prev = nowhere /\ hh_next = nowhere
      /\ buckets = EmptyBuckets(0) /\ tbl = NoTable
      /\ el = NULL /\ temp = NULL
  BY DEF Init
<1>2. nowhere \in [Key -> Pointer] /\ NULL \in Pointer
  BY DEF Pointer
<1> HIDE DEF nowhere
<1>3. IsList(<<>>, NULL, next, prev) /\ <<>> \in Seq(Key) /\ IsInjective(<<>>)
      /\ Nth(<<>>, 1) = NULL
  BY DEF IsList, IsInjective, Nth
<1>4. AppOrder = <<>>
  <2> DEFINE none == <<>>
  <2>1. /\ none \in Seq(Key) /\ IsInjective(none) /\ Nth(none, 1) = NULL
        /\ \A i \in 1 .. Len(none) : nowhere[none[i]] = Nth(none, i + 1)
    BY <1>3
  <2> HIDE DEF none
  <2>2. Follow(nowhere, Nth(none, 1)) = none
    BY <1>2, <2>1, FollowReads
  <2> QED
    BY <1>1, <2>1, <2>2 DEF AppOrder, none
<1>5. Chains = [hh_next |-> nowhere, hh_prev |-> nowhere,
                buckets |-> EmptyBuckets(0)]
  BY <1>1 DEF Chains
<1>6. ArrayHolds(<<>>, hashv, Chains, tbl.num_buckets)
  <2> DEFINE c == Chains
  <2> HIDE DEF c
  <2>1. ArrayHolds(<<>>, hashv, c, 0)
    BY <1>2, <1>5, EmptyArrayHolds DEF c
  <2>2. tbl.num_buckets = 0
    BY <1>1 DEF NoTable
  <2> QED
    BY <2>1, <2>2 DEF c
<1>7. TableInv
  BY <1>1, <1>2, <1>3, <1>4, <1>6 DEF TableInv, TableHolds
<1>8. Iterating
  BY <1>1, <1>2 DEF Iterating
<1> QED
  BY <1>1, <1>7, <1>8 DEF IInv

\* The invariant says what is in the list, and HASH_FIND what is in the bucket:
\* it is the same.
LEMMA FindReads ==
    ASSUME hashv \in HashFunctions, TableInv, NEW k \in Key
    PROVE  HASH_FIND(k) = IF k \in Range(AppOrder) THEN k ELSE NULL
<1> DEFINE q == AppOrder
           num == tbl.num_buckets
           b == hashv[k] % num
           l == Chain(b)
<1>1. /\ hashv \in [Key -> Nat]
      /\ IsList(q, head, next, prev)
      /\ BucketsHold(Chains, hashv, num, Range(q))
      /\ head # NULL => tbl \in UT_hash_table
  BY HashValues DEF TableInv, TableHolds, ArrayHolds, TableCounts
<1> HIDE DEF q
<1>2. CASE head = NULL
  <2>1. q = <<>>
    BY <1>1, <1>2, ListEntries
  <2>2. k \notin Range(q)
    BY <2>1 DEF Range
  <2> QED
    BY <1>2, <2>2 DEF HASH_FIND, q
<1>3. CASE head # NULL
  <2>1. num \in Nat \ {0} /\ b \in 0 .. num - 1
    <3>1. num \in Nat \ {0}
      BY <1>1, <1>3 DEF UT_hash_table
    <3> QED
      BY <1>1, <3>1, BucketOf
  <2>2. l = BucketList(Chains, b)
    BY DEF Chain, BucketList, Chains
  <2> HIDE DEF l, b, num
  <2>3. /\ IsList(l, Chains.buckets[b].hh_head, Chains.hh_next, Chains.hh_prev)
        /\ Range(l) = {p \in Range(q) : hashv[p] % num = b}
    BY <1>1, <2>1, <2>2 DEF BucketsHold, BucketHolds
  <2>4. ToSet(l) = Range(l)
    BY DEF ToSet, Range
  <2>5. HASH_FIND(k) = IF k \in ToSet(l) THEN k ELSE NULL
    BY <1>3 DEF HASH_FIND, HASH_TO_BKT, l, b, num
  <2>6. k \in Range(l) <=> k \in Range(q)
    BY <2>3 DEF b
  <2> QED
    BY <2>4, <2>5, <2>6 DEF q
<1> QED
  BY <1>2, <1>3

LEMMA AddStep ==
    ASSUME IInv, NEW k \in Key, Add(k)
    PROVE  /\ IInv' /\ k \notin Range(AppOrder)
           /\ AppOrder' = Append(AppOrder, k)
           /\ Few(Len(AppOrder')) /\ ShortInv => ShortInv'
           /\ Len(AppOrder') < HASH_BKT_CAPACITY_THRESH /\ FirstBuckets
              => FirstBuckets'
<1>1. /\ hashv \in HashFunctions /\ TableInv /\ Iterating
      /\ el = NULL /\ HASH_FIND(k) = NULL /\ HASH_ADD(k)
      /\ hashv' = hashv /\ el' = el /\ temp' = temp
  BY DEF IInv, Add
<1>2. k \notin Range(AppOrder)
  BY <1>1, FindReads, KeyAssumption
<1> DEFINE q2 == Append(AppOrder, k)
<1>3. /\ TableHolds(q2, hashv, head', next', prev', Chains', tbl')
      /\ Few(Len(q2)) /\ ShortInv => AllShort(Chains', tbl')
      /\ Len(q2) < HASH_BKT_CAPACITY_THRESH
         => tbl'.num_buckets = IF head = NULL THEN HASH_INITIAL_NUM_BUCKETS
                               ELSE tbl.num_buckets
  BY <1>1, <1>2, HashValues, AddKeeps
<1> HIDE DEF q2
<1>4. AppOrder' = q2
  BY <1>3, ListRead
<1>5. TableInv'
  BY <1>1, <1>3, <1>4 DEF TableInv
<1>6. Iterating'
  BY <1>1 DEF Iterating
<1>7. /\ Few(Len(q2)) /\ ShortInv => ShortInv'
      /\ Len(q2) < HASH_BKT_CAPACITY_THRESH /\ FirstBuckets => FirstBuckets'
  BY <1>3 DEF ShortInv, FirstBuckets
<1> QED
  BY <1>1, <1>2, <1>4, <1>5, <1>6, <1>7 DEF IInv, q2

LEMMA DeleteStep ==
    ASSUME IInv, NEW k \in Key, Delete(k)
    PROVE  /\ IInv' /\ k \in Range(AppOrder)
           /\ AppOrder' = RemoveFirst(AppOrder, k)
           /\ ShortInv => ShortInv'
           /\ FirstBuckets => FirstBuckets'
<1>1. /\ hashv \in HashFunctions /\ TableInv /\ Iterating
      /\ el = NULL /\ HASH_FIND(k) # NULL /\ HASH_DELETE(k)
      /\ hashv' = hashv /\ el' = el /\ temp' = temp
  BY DEF IInv, Delete
<1>2. k \in Range(AppOrder)
  BY <1>1, FindReads
<1> DEFINE q2 == RemoveFirst(AppOrder, k)
<1>3. /\ TableHolds(q2, hashv, head', next', prev', Chains', tbl')
      /\ head' # NULL => /\ tbl'.num_buckets = tbl.num_buckets
                         /\ ShortInv => AllShort(Chains', tbl')
  BY <1>1, <1>2, HashValues, DeleteKeeps
<1> HIDE DEF q2
<1>4. AppOrder' = q2
  BY <1>3, ListRead
<1>5. TableInv'
  BY <1>1, <1>3, <1>4 DEF TableInv
<1>6. Iterating'
  BY <1>1 DEF Iterating
<1>7. head # NULL
  <2>1. IsList(AppOrder, head, next, prev)
    BY <1>1 DEF TableInv, TableHolds
  <2>2. AppOrder # <<>>
    BY <1>2 DEF Range
  <2> QED
    BY <2>1, <2>2, ListEntries
<1>8. (ShortInv => ShortInv') /\ (FirstBuckets => FirstBuckets')
  BY <1>3, <1>7 DEF ShortInv, FirstBuckets
<1> QED
  BY <1>1, <1>2, <1>4, <1>5, <1>6, <1>8 DEF IInv, q2

\* The element that was deleted was the first, and el the one behind it.
LEMMA RemoveNextStep ==
    ASSUME IInv, RemoveNext
    PROVE  /\ IInv' /\ el = head /\ el' = head' /\ el \in Range(AppOrder)
           /\ AppOrder' = RemoveFirst(AppOrder, el)
           /\ ShortInv => ShortInv'
           /\ FirstBuckets => FirstBuckets'
<1>1. /\ hashv \in HashFunctions /\ TableInv
      /\ el # NULL /\ HASH_DELETE(el) /\ hashv' = hashv
      /\ el = head /\ temp = next[head] /\ el \in Pointer /\ temp \in Pointer
      /\ el' = temp /\ temp' = IF temp = NULL THEN NULL ELSE next'[temp]
  BY DEF IInv, RemoveNext, StepOn, Iterating, Get
<1>2. el \in Range(AppOrder)
  <2>1. IsList(AppOrder, head, next, prev)
    BY <1>1 DEF TableInv, TableHolds
  <2> QED
    BY <1>1, <2>1, ListEntries
<1> DEFINE q2 == RemoveFirst(AppOrder, el)
<1>3. /\ TableHolds(q2, hashv, head', next', prev', Chains', tbl')
      /\ el = head => head' = next[el]
      /\ head' # NULL => /\ tbl'.num_buckets = tbl.num_buckets
                         /\ ShortInv => AllShort(Chains', tbl')
  BY <1>1, <1>2, HashValues, DeleteKeeps
<1> HIDE DEF q2
<1>4. AppOrder' = q2
  BY <1>3, ListRead
<1>5. TableInv'
  BY <1>1, <1>3, <1>4 DEF TableInv
<1>6. el' = head'
  BY <1>1, <1>3
<1>7. Iterating'
  <2>1. temp' \in Pointer
    <3>1. next' \in [Key -> Pointer]
      BY <1>3 DEF TableHolds
    <3> QED
      BY <1>1, <3>1 DEF Pointer
  <2> QED
    BY <1>1, <1>6, <2>1 DEF Iterating
<1>8. (ShortInv => ShortInv') /\ (FirstBuckets => FirstBuckets')
  BY <1>1, <1>3 DEF ShortInv, FirstBuckets
<1> QED
  BY <1>1, <1>2, <1>4, <1>5, <1>6, <1>7, <1>8 DEF IInv, q2

LEMMA BeginStep ==
    ASSUME IInv, BeginRemoveAll
    PROVE  /\ IInv' /\ AppOrder' = AppOrder
           /\ ShortInv => ShortInv'
           /\ FirstBuckets => FirstBuckets'
<1>1. /\ hashv' = hashv /\ AppOrder' = AppOrder
      /\ head' = head /\ next' = next /\ prev' = prev
      /\ Chains' = Chains /\ tbl' = tbl
      /\ head # NULL /\ el' = head /\ temp' = next[head]
  BY DEF BeginRemoveAll, AppOrder, Chains
<1>2. hashv \in HashFunctions /\ TableInv
  BY DEF IInv
<1>3. TableInv'
  BY <1>1, <1>2 DEF TableInv
<1>4. head \in Key /\ next \in [Key -> Pointer]
  <2>1. IsList(AppOrder, head, next, prev) /\ next \in [Key -> Pointer]
    BY <1>2 DEF TableInv, TableHolds
  <2>2. head \in Range(AppOrder) \cup {NULL} /\ Range(AppOrder) \subseteq Key
    BY <2>1, ListEntries
  <2> QED
    BY <1>1, <2>1, <2>2
<1>5. Iterating'
  BY <1>1, <1>4 DEF Iterating, Pointer
<1>6. (ShortInv => ShortInv') /\ (FirstBuckets => FirstBuckets')
  BY <1>1 DEF ShortInv, FirstBuckets
<1> QED
  BY <1>1, <1>2, <1>3, <1>5, <1>6 DEF IInv

LEMMA StutterStep ==
    ASSUME IInv, UNCHANGED vars
    PROVE  /\ IInv' /\ AppOrder' = AppOrder
           /\ ShortInv => ShortInv'
           /\ FirstBuckets => FirstBuckets'
<1>1. /\ hashv' = hashv /\ AppOrder' = AppOrder
      /\ head' = head /\ next' = next /\ prev' = prev
      /\ Chains' = Chains /\ tbl' = tbl /\ el' = el /\ temp' = temp
  BY DEF vars, AppOrder, Chains
<1>2. hashv \in HashFunctions /\ TableInv /\ Iterating
  BY DEF IInv
<1>3. TableInv' /\ Iterating'
  BY <1>1, <1>2 DEF TableInv, Iterating
<1>4. (ShortInv => ShortInv') /\ (FirstBuckets => FirstBuckets')
  BY <1>1 DEF ShortInv, FirstBuckets
<1> QED
  BY <1>1, <1>2, <1>3, <1>4 DEF IInv

LEMMA NextHolds == IInv /\ [Next]_vars => IInv'
<1> SUFFICES ASSUME IInv, [Next]_vars PROVE IInv'
  OBVIOUS
<1>1. ASSUME NEW k \in Key, Add(k) PROVE IInv'
  BY <1>1, AddStep
<1>2. ASSUME NEW k \in Key, Delete(k) PROVE IInv'
  BY <1>2, DeleteStep
<1>3. CASE BeginRemoveAll
  BY <1>3, BeginStep
<1>4. CASE RemoveNext
  BY <1>4, RemoveNextStep
<1>5. CASE UNCHANGED vars
  BY <1>5, StutterStep
<1> QED
  BY <1>1, <1>2, <1>3, <1>4, <1>5 DEF Next

\* The inductive invariant: the two kinds of list are well linked, each bucket
\* holds the elements of the list that hash to it, and the counters agree.
THEOREM Invariant == Spec => []IInv
<1> QED
  BY InitHolds, NextHolds, PTL DEF Spec

-----------------------------------------------------------------------------
(* What follows for the properties *)

LEMMA TypeHolds == IInv => TypeOK
<1> SUFFICES ASSUME IInv PROVE TypeOK
  OBVIOUS
<1>1. /\ hashv \in HashFunctions /\ el \in Pointer /\ temp \in Pointer
      /\ next \in [Key -> Pointer] /\ prev \in [Key -> Pointer]
      /\ IsList(AppOrder, head, next, prev)
      /\ Chains \in ChainsOf(tbl.num_buckets)
      /\ IF head = NULL THEN tbl = NoTable ELSE tbl \in UT_hash_table
  BY DEF IInv, Iterating, TableInv, TableHolds, ArrayHolds, TableCounts
<1>2. /\ hh_next \in [Key -> Pointer] /\ hh_prev \in [Key -> Pointer]
      /\ buckets \in [0 .. tbl.num_buckets - 1 -> UT_hash_bucket]
  BY <1>1 DEF Chains, ChainsOf
<1>3. head \in Pointer
  <2>1. head \in Range(AppOrder) \cup {NULL} /\ Range(AppOrder) \subseteq Key
    BY <1>1, ListEntries
  <2> QED
    BY <2>1 DEF Pointer
<1> QED
  BY <1>1, <1>2, <1>3 DEF TypeOK

\* Every variable has the type its declaration in hashmap.h gives it.
THEOREM TypeCorrect == Spec => []TypeOK
<1> QED
  BY Invariant, TypeHolds, PTL

\* The elements of the first buckets, counted one bucket after the other.
LEMMA CountElements ==
    ASSUME hashv \in [Key -> Nat], NEW num \in Nat \ {0}, NEW D \in SUBSET Key,
           BucketsHold(Chains, hashv, num, D)
    PROVE  CountBuckets(num) = Cardinality(D)
<1> DEFINE list(b) == Chain(b)
           Step == [b \in 1 .. num |-> [n \in Nat |-> n + Len(list(b - 1))]]
           count == CHOOSE count : count = [b \in 0 .. num |->
                       IF b = 0 THEN 0 ELSE count[b - 1] + Len(Chain(b - 1))]
           Seen(b) == {k \in D : hashv[k] % num < b}
<1>1. ASSUME NEW b \in 1 .. num
      PROVE  /\ b - 1 \in 0 .. num - 1 /\ b - 1 \in 0 .. num /\ b \in 0 .. num
             /\ list(b - 1) \in Seq(Key) /\ IsInjective(list(b - 1))
             /\ Range(list(b - 1)) = {k \in D : hashv[k] % num = b - 1}
             /\ Len(list(b - 1)) \in Nat
  <2>1. b - 1 \in 0 .. num - 1 /\ b - 1 \in 0 .. num /\ b \in 0 .. num
    OBVIOUS
  <2>2. list(b - 1) = BucketList(Chains, b - 1)
    BY DEF Chain, BucketList, Chains
  <2> DEFINE l == list(b - 1)
  <2> HIDE DEF list
  <2>3. /\ l \in Seq(Key) /\ IsInjective(l)
        /\ Range(l) = {k \in D : hashv[k] % num = b - 1}
    BY <2>1, <2>2 DEF BucketsHold, BucketHolds, IsList
  <2> HIDE DEF l
  <2>4. Len(l) \in Nat
    BY <2>3
  <2> QED
    BY <2>1, <2>3, <2>4 DEF l
<1> HIDE DEF list
<1>2. Step \in [1 .. num -> [Nat -> Nat]]
  <2>1. ASSUME NEW b \in 1 .. num, NEW n \in Nat
        PROVE  n + Len(list(b - 1)) \in Nat
    BY <1>1
  <2> QED
    BY <2>1
<1>3. \E f : f = [b \in 0 .. num |->
                    IF b = 0 THEN 0 ELSE f[b - 1] + Len(list(b - 1))]
  <2>1. PICK f : Computed(f, Nat, 0, num, Step)
    <3> HIDE DEF Step
    <3> QED
      BY <1>2, Recursion
  <2>2. ASSUME NEW b \in 1 .. num
        PROVE  f[b] = f[b - 1] + Len(list(b - 1))
    <3>1. f[b] = Step[b][f[b - 1]] /\ f[b - 1] \in Nat
      <4> HIDE DEF Step
      <4> QED
        BY <1>1, <2>1 DEF Computed
    <3> QED
      BY <3>1
  <2> DEFINE g == [b \in 0 .. num |->
                    IF b = 0 THEN 0 ELSE f[b - 1] + Len(list(b - 1))]
  <2>3. ASSUME NEW b \in 0 .. num
        PROVE  f[b] = IF b = 0 THEN 0 ELSE f[b - 1] + Len(list(b - 1))
    <3> HIDE DEF Step
    <3>1. b = 0 \/ b \in 1 .. num
      OBVIOUS
    <3>2. f[0] = 0
      BY <2>1 DEF Computed
    <3> QED
      BY <2>2, <3>1, <3>2
  <2>4. f = g
    <3> HIDE DEF Step
    <3> QED
      BY <2>1, <2>3 DEF Computed
  <2> QED
    BY <2>4
<1>4. count = [b \in 0 .. num |->
                 IF b = 0 THEN 0 ELSE count[b - 1] + Len(list(b - 1))]
  BY <1>3 DEF list
<1>5. CountBuckets(num) = count[num]
  BY DEF CountBuckets
<1> HIDE DEF count, Step
<1>6. count[0] = 0
  BY <1>4
<1>7. ASSUME NEW b \in 1 .. num
      PROVE  count[b] = count[b - 1] + Len(list(b - 1))
  <2>1. b \in 0 .. num /\ b # 0
    OBVIOUS
  <2> QED
    BY <1>4, <2>1
<1>8. \A k \in D : hashv[k] % num \in 0 .. num - 1
  BY BucketOf
<1> DEFINE T == {b \in 0 .. num : /\ IsFiniteSet(Seen(b))
                                  /\ count[b] = Cardinality(Seen(b))}
<1>9. 0 \in T
  <2>1. Seen(0) = {} /\ 0 \in 0 .. num
    BY <1>8
  <2> HIDE DEF Seen
  <2> QED
    BY <1>6, <2>1, FS_EmptySet
<1>10. ASSUME NEW b \in 1 .. num, b - 1 \in T PROVE b \in T
  <2> DEFINE l == list(b - 1)
  <2>1. /\ l \in Seq(Key) /\ IsInjective(l) /\ Len(l) \in Nat
        /\ Range(l) = {k \in D : hashv[k] % num = b - 1}
    BY <1>1
  <2>2. count[b] = count[b - 1] + Len(l)
    BY <1>7
  <2> HIDE DEF l
  <2>3. IsFiniteSet(Range(l)) /\ Cardinality(Range(l)) = Len(l)
    BY <2>1, KeyAssumption, ListCardinality
  <2>4. Range(l) \cap Seen(b - 1) = {}
    BY <1>8, <2>1
  <2>5. Seen(b) = Seen(b - 1) \cup Range(l)
    <3>1. \A k \in D : hashv[k] % num < b
                         <=> hashv[k] % num < b - 1 \/ hashv[k] % num = b - 1
      BY <1>8
    <3> QED
      BY <2>1, <3>1
  <2>6. IsFiniteSet(Seen(b - 1)) /\ count[b - 1] = Cardinality(Seen(b - 1))
    BY <1>10
  <2> DEFINE before == Seen(b - 1)
  <2> HIDE DEF before
  <2>7. before \cap Range(l) = {} /\ IsFiniteSet(before)
    BY <2>4, <2>6 DEF before
  <2>8. /\ IsFiniteSet(before \cup Range(l))
        /\ Cardinality(before \cup Range(l))
             = Cardinality(before) + Cardinality(Range(l))
               - Cardinality(before \cap Range(l))
    BY <2>3, <2>7, FS_Union
  <2>9. Cardinality(before \cap Range(l)) = 0 /\ Cardinality(before) \in Nat
    BY <2>7, FS_EmptySet, FS_CardinalityType
  <2>10. Cardinality(before \cup Range(l)) = Cardinality(before) + Len(l)
    BY <2>1, <2>3, <2>8, <2>9
  <2>11. b \in 0 .. num
    OBVIOUS
  <2> QED
    BY <2>2, <2>5, <2>6, <2>8, <2>10, <2>11 DEF before
<1>11. num \in T
  <2> HIDE DEF T
  <2>1. \A b \in 0 .. num : b \in T
    BY <1>9, <1>10, Induction
  <2> QED
    BY <2>1
<1>12. Seen(num) = D
  BY <1>8
<1> QED
  BY <1>5, <1>11, <1>12

LEMMA BackPointers ==
    ASSUME NEW q, NEW first, NEW nxt, NEW prv, IsList(q, first, nxt, prv)
    PROVE  LinkedBack(q, prv)
<1>1. Len(q) \in Nat /\ DOMAIN q = 1 .. Len(q)
  BY ListEntries
<1> SUFFICES ASSUME NEW i \in 1 .. Len(q)
             PROVE  prv[q[i]] = IF i = 1 THEN NULL ELSE q[i - 1]
  BY <1>1 DEF LinkedBack
<1>2. prv[q[i]] = Nth(q, i - 1)
  BY DEF IsList
<1> QED
  BY <1>1, <1>2 DEF Nth

\* The checks that HASH_FSCK makes after every operation, when it is compiled
\* in, succeed: back pointers, counts of the buckets, and both totals.
THEOREM FsckHolds == Spec => []HASH_FSCK
<1>1. IInv => HASH_FSCK
  <2> SUFFICES ASSUME IInv, head # NULL
               PROVE  /\ \A b \in 0 .. tbl.num_buckets - 1 :
                            /\ LinkedBack(Chain(b), hh_prev)
                            /\ buckets[b].count = Len(Chain(b))
                      /\ tbl.num_items = CountBuckets(tbl.num_buckets)
                      /\ LinkedBack(AppOrder, prev)
                      /\ tbl.num_items = Len(AppOrder)
    BY DEF HASH_FSCK
  <2> DEFINE num == tbl.num_buckets
             D == Range(AppOrder)
  <2>1. /\ hashv \in [Key -> Nat]
        /\ IsList(AppOrder, head, next, prev)
        /\ BucketsHold(Chains, hashv, num, D)
        /\ tbl.num_items = Len(AppOrder)
        /\ num \in Nat \ {0}
    BY HashValues DEF IInv, TableInv, TableHolds, ArrayHolds, TableCounts,
                      UT_hash_table
  <2>2. /\ D \subseteq Key /\ AppOrder \in Seq(Key) /\ IsInjective(AppOrder)
    <3>1. D \subseteq Key
      BY <2>1, ListEntries
    <3> QED
      BY <2>1, <3>1 DEF IsList
  <2>3. LinkedBack(AppOrder, prev)
    BY <2>1, BackPointers
  <2>4. Cardinality(D) = Len(AppOrder)
    BY <2>2, KeyAssumption, ListCardinality
  <2> HIDE DEF D, num
  <2>5. CountBuckets(num) = Cardinality(D)
    BY <2>1, <2>2, CountElements
  <2>6. ASSUME NEW b \in 0 .. num - 1
        PROVE  /\ LinkedBack(Chain(b), hh_prev)
               /\ buckets[b].count = Len(Chain(b))
    <3>1. /\ Chains.hh_prev = hh_prev /\ Chains.buckets = buckets
          /\ Chain(b) = BucketList(Chains, b)
      BY DEF Chains, Chain, BucketList
    <3>2. /\ IsList(Chain(b), Chains.buckets[b].hh_head, Chains.hh_next, hh_prev)
          /\ buckets[b].count = Len(Chain(b))
      BY <2>1, <3>1 DEF BucketsHold, BucketHolds
    <3> QED
      BY <3>2, BackPointers
  <2> QED
    BY <2>1, <2>3, <2>4, <2>5, <2>6 DEF num
<1> QED
  BY <1>1, Invariant, PTL

\* Whatever the hash function and however often the buckets were split,
\* HASH_FIND finds the elements that are in the table, and no other.
THEOREM FindsExactlyHolds == Spec => []FindsExactly
<1>1. IInv => FindsExactly
  <2> SUFFICES ASSUME IInv, NEW k \in Key
               PROVE  HASH_FIND(k) = IF k \in ToSet(AppOrder) THEN k ELSE NULL
    BY DEF FindsExactly
  <2>1. ToSet(AppOrder) = Range(AppOrder)
    BY DEF ToSet, Range
  <2> QED
    BY <2>1, FindReads DEF IInv
<1> QED
  BY <1>1, Invariant, PTL

\* While the table has its first buckets, the oldest element is the last of its
\* chain, which is what users_share_channel and relay_nick_change walk.
THEOREM OldestEndsChainHolds == Spec => []OldestEndsChain
<1>1. IInv => OldestEndsChain
  <2> SUFFICES ASSUME IInv, head # NULL,
                      tbl.num_buckets = HASH_INITIAL_NUM_BUCKETS
               PROVE  hh_next[head] = NULL
    BY DEF OldestEndsChain
  <2> DEFINE q == AppOrder
             num == tbl.num_buckets
             b == hashv[head] % num
             l == BucketList(Chains, b)
  <2>1. /\ hashv \in [Key -> Nat]
        /\ IsList(q, head, next, prev)
        /\ BucketsHold(Chains, hashv, num, Range(q))
        /\ \A b2 \in 0 .. num - 1 : Reversed(BucketList(Chains, b2), q)
        /\ num \in Nat \ {0}
    BY HashValues DEF IInv, TableInv, TableHolds, ArrayHolds, TableCounts,
                      UT_hash_table
  <2> HIDE DEF q, num
  <2>2. /\ head \in Range(q) /\ Range(q) \subseteq Key /\ Len(q) \in Nat
        /\ q \in Seq(Key) /\ IsInjective(q) /\ head = Nth(q, 1)
    <3>1. head \in Range(q) \cup {NULL} /\ Range(q) \subseteq Key
          /\ Len(q) \in Nat
      BY <2>1, ListEntries
    <3> QED
      BY <2>1, <3>1 DEF IsList
  <2>3. b \in 0 .. num - 1
    BY <2>1, <2>2, BucketOf
  <2> HIDE DEF b
  <2>4. /\ IsList(l, Chains.buckets[b].hh_head, Chains.hh_next, Chains.hh_prev)
        /\ Range(l) = {p \in Range(q) : hashv[p] % num = b}
        /\ Reversed(l, q)
    BY <2>1, <2>3 DEF BucketsHold, BucketHolds
  <2>5. head \in Range(l)
    BY <2>2, <2>4 DEF b
  <2> HIDE DEF l
  <2>6. Len(l) \in Nat /\ \E i \in 1 .. Len(l) : l[i] = head
    BY <2>4, <2>5, ListEntries
  <2>7. PICK i \in 1 .. Len(l) : l[i] = head
    BY <2>6
  <2>8. i = Len(l)
    <3> SUFFICES ASSUME i # Len(l) PROVE FALSE
      OBVIOUS
    <3>1. i + 1 \in 1 .. Len(l) /\ i < i + 1
      BY <2>6
    <3>2. Before(q, l[i + 1], head)
      BY <2>4, <2>7, <3>1 DEF Reversed
    <3>3. PICK m \in 1 .. Len(q), n \in 1 .. Len(q) : m < n /\ q[n] = head
      BY <3>2 DEF Before
    <3>4. 1 \in 1 .. Len(q) /\ n # 1 /\ DOMAIN q = 1 .. Len(q)
      BY <2>2, <3>3
    <3>5. q[1] = head
      BY <2>2, <3>4 DEF Nth
    <3> QED
      BY <2>2, <3>3, <3>4, <3>5 DEF IsInjective
  <2>9. Chains.hh_next[l[i]] = Nth(l, i + 1)
    BY <2>4 DEF IsList
  <2>10. Nth(l, i + 1) = NULL
    BY <2>6, <2>8 DEF Nth
  <2>11. Chains.hh_next = hh_next
    BY DEF Chains
  <2> QED
    BY <2>7, <2>9, <2>10, <2>11
<1> QED
  BY <1>1, Invariant, PTL

\* No bucket is left so long that it is to be split, at least as long as there
\* are never more elements than twice the first buckets take, each with one
\* element less than the threshold: 576 with the 32 buckets and the threshold of
\* 10 of hashmap.h.  The expansion that puts too many in one bucket of its new
\* array lets that bucket grow longer instead.
THEOREM ChainsBoundedHolds ==
    Spec /\ []Few(Len(AppOrder)) => []ChainsBounded
<1> DEFINE FewNow == Few(Len(AppOrder))
<1>1. Init => ShortInv
  BY DEF Init, ShortInv
<1>2. ASSUME IInv, ShortInv, [Next]_vars, Few(Len(AppOrder))'
      PROVE  ShortInv'
  <2>1. Few(Len(AppOrder'))
    BY <1>2 DEF Few
  <2>2. ASSUME NEW k \in Key, Add(k) PROVE ShortInv'
    BY <1>2, <2>1, <2>2, AddStep
  <2>3. ASSUME NEW k \in Key, Delete(k) PROVE ShortInv'
    BY <1>2, <2>3, DeleteStep
  <2>4. CASE BeginRemoveAll
    BY <1>2, <2>4, BeginStep
  <2>5. CASE RemoveNext
    BY <1>2, <2>5, RemoveNextStep
  <2>6. CASE UNCHANGED vars
    BY <1>2, <2>6, StutterStep
  <2> QED
    BY <1>2, <2>2, <2>3, <2>4, <2>5, <2>6 DEF Next
<1>3. ShortInv => ChainsBounded
  BY DEF ShortInv, AllShort, Short, ChainsBounded, Chains
<1>4. Spec => []IInv
  BY Invariant
<1> HIDE DEF FewNow
<1>5. ASSUME IInv, ShortInv, [Next]_vars, FewNow' PROVE ShortInv'
  BY <1>2, <1>5 DEF FewNow
<1>6. Spec /\ []FewNow => []ChainsBounded
  BY <1>1, <1>3, <1>4, <1>5, PTL DEF Spec
<1> QED
  BY <1>6 DEF FewNow

\* A table that never has as many elements as make a bucket split keeps its first
\* buckets for good, so that the chain of its oldest element ends at once: what
\* UserTable takes for granted of the channels of a client.
THEOREM FewElementsNeverSplit ==
    Spec /\ [](Len(AppOrder) < HASH_BKT_CAPACITY_THRESH)
        => [](head # NULL => /\ tbl.num_buckets = HASH_INITIAL_NUM_BUCKETS
                             /\ hh_next[head] = NULL)
<1> DEFINE FewNow == Len(AppOrder) < HASH_BKT_CAPACITY_THRESH
           Ends == head # NULL => /\ tbl.num_buckets = HASH_INITIAL_NUM_BUCKETS
                                  /\ hh_next[head] = NULL
<1>1. Init => FirstBuckets
  BY DEF Init, FirstBuckets
<1>2. ASSUME IInv, FirstBuckets, [Next]_vars, FewNow'
      PROVE  FirstBuckets'
  <2>1. Len(AppOrder') < HASH_BKT_CAPACITY_THRESH
    BY <1>2
  <2>2. ASSUME NEW k \in Key, Add(k) PROVE FirstBuckets'
    BY <1>2, <2>1, <2>2, AddStep
  <2>3. ASSUME NEW k \in Key, Delete(k) PROVE FirstBuckets'
    BY <1>2, <2>3, DeleteStep
  <2>4. CASE BeginRemoveAll
    BY <1>2, <2>4, BeginStep
  <2>5. CASE RemoveNext
    BY <1>2, <2>5, RemoveNextStep
  <2>6. CASE UNCHANGED vars
    BY <1>2, <2>6, StutterStep
  <2> QED
    BY <1>2, <2>2, <2>3, <2>4, <2>5, <2>6 DEF Next
<1>3. FirstBuckets /\ OldestEndsChain => Ends
  BY DEF FirstBuckets, OldestEndsChain
<1>4. (Spec => []IInv) /\ (Spec => []OldestEndsChain)
  BY Invariant, OldestEndsChainHolds
<1> HIDE DEF FewNow, Ends
<1>5. Spec /\ []FewNow => []Ends
  BY <1>1, <1>2, <1>3, <1>4, PTL DEF Spec
<1> QED
  BY <1>5 DEF FewNow, Ends

\* Nothing is left behind when the loop of user_remove_all ends: it deletes the
\* first element each time, and goes on to the one that is then the first.
THEOREM RemoveAllHolds == Spec => RemoveAllRemovesAll
<1>1. ASSUME IInv, [Next]_vars
      PROVE  [el # NULL => /\ el = head
                           /\ el' = NULL => head' = NULL]_vars
  <2>1. ASSUME NEW k \in Key, Add(k) \/ Delete(k) PROVE el = NULL
    BY <2>1 DEF Add, Delete
  <2>2. CASE BeginRemoveAll
    BY <2>2 DEF BeginRemoveAll
  <2>3. CASE RemoveNext
    BY <1>1, <2>3, RemoveNextStep
  <2> QED
    BY <1>1, <2>1, <2>2, <2>3 DEF Next
<1> QED
  BY <1>1, Invariant, PTL DEF Spec, RemoveAllRemovesAll

LEMMA MapInit == IInv /\ head = NULL => AppOrder = <<>>
<1> SUFFICES ASSUME IInv, head = NULL PROVE AppOrder = <<>>
  OBVIOUS
<1>1. IsList(AppOrder, head, next, prev)
  BY DEF IInv, TableInv, TableHolds
<1> QED
  BY <1>1, ListEntries

\* The table with its pointers is an ordered map: every HASH_ADD and HASH_DEL is
\* a step of it.
THEOREM Refinement == Spec => ImplementsOrderedMap
<1>1. Init => Map!MapInit
  <2> SUFFICES ASSUME Init PROVE AppOrder = <<>>
    BY DEF Map!MapInit
  <2>1. head = NULL
    BY DEF Init
  <2> QED
    BY <2>1, InitHolds, MapInit
<1>2. ASSUME IInv, [Next]_vars PROVE [Map!MapNext]_AppOrder
  <2>0. /\ Map!ToSet(AppOrder) = Range(AppOrder)
        /\ \A k : Map!RemoveFirst(AppOrder, k) = RemoveFirst(AppOrder, k)
    <3>1. Map!ToSet(AppOrder) = Range(AppOrder)
      BY DEF Map!ToSet, Range
    <3>2. ASSUME NEW k
          PROVE  Map!RemoveFirst(AppOrder, k) = RemoveFirst(AppOrder, k)
      BY DEF Map!RemoveFirst, RemoveFirst, Map!SelectInSeq, SelectInSeq,
             Map!RemoveAt, RemoveAt, Map!Min, Min
    <3> QED
      BY <3>1, <3>2
  <2>1. ASSUME NEW k \in Key, Add(k) PROVE Map!Insert(k)
    BY <1>2, <2>0, <2>1, AddStep DEF Map!Insert
  <2>2. ASSUME NEW k \in Key, Delete(k) PROVE Map!Erase(k)
    BY <1>2, <2>0, <2>2, DeleteStep DEF Map!Erase
  <2>3. CASE BeginRemoveAll
    BY <1>2, <2>3, BeginStep
  <2>4. CASE RemoveNext
    <3>1. el \in Range(AppOrder) /\ AppOrder' = RemoveFirst(AppOrder, el)
      BY <1>2, <2>4, RemoveNextStep
    <3>2. el \in Key
      <4>1. IsList(AppOrder, head, next, prev)
        BY <1>2 DEF IInv, TableInv, TableHolds
      <4>2. Range(AppOrder) \subseteq Key
        BY <4>1, ListEntries
      <4> QED
        BY <3>1, <4>2
    <3> QED
      BY <2>0, <3>1, <3>2 DEF Map!MapNext, Map!Erase
  <2>5. CASE UNCHANGED vars
    BY <1>2, <2>5, StutterStep
  <2> QED
    BY <1>2, <2>1, <2>2, <2>3, <2>4, <2>5 DEF Next, Map!MapNext
<1> QED
  BY <1>1, <1>2, Invariant, PTL DEF Spec, ImplementsOrderedMap, Map!MapSpec
=============================================================================
