------------------------------ MODULE HashTable ------------------------------
(***************************************************************************)
(* One hash table of lib/hashmap.h (uthash), as the server uses it for     *)
(* clients, nicknames, channels and the channels of a client: HASH_ADD of  *)
(* an element whose key is not there, HASH_FIND, HASH_DEL, and the loop    *)
(* HASH_ITER that deletes every element, in user_remove_all.               *)
(*                                                                         *)
(* An element is in two linked lists at once: all elements in the order of *)
(* addition (next), and those of its bucket (hh_next).  It is named by its *)
(* key.  The hash function is arbitrary: hashv is one of HashFunctions and *)
(* never changes.  A failing malloc ends the process, and is left out.     *)
(***************************************************************************)
EXTENDS Integers, FiniteSets, Sequences, SequencesExt

CONSTANTS
    Key, NULL,
    HashFunctions,
    HASH_INITIAL_NUM_BUCKETS,
    HASH_BKT_CAPACITY_THRESH,   \* a bucket of so many elements is split
    MaxBuckets                  \* bounds num_buckets, which only grows

ASSUME KeyAssumption == NULL \notin Key /\ IsFiniteSet(Key)
ASSUME HashAssumption == HashFunctions \subseteq [Key -> Nat]
ASSUME BucketsAssumption ==
    /\ \E n \in 0 .. HASH_INITIAL_NUM_BUCKETS :
          HASH_INITIAL_NUM_BUCKETS = 2 ^ n
    /\ HASH_INITIAL_NUM_BUCKETS \in Nat \ {0}
    /\ HASH_BKT_CAPACITY_THRESH \in Nat \ {0}
    /\ MaxBuckets \in Nat

VARIABLES
    hashv,              \* the hash function
    head,               \* the first element: the pointer the program keeps
    prev, next,         \* of the UT_hash_handle of each element: its place
    hh_prev, hh_next,   \* among all elements, and in its bucket
    buckets,            \* the array of the table
    tbl,                \* UT_hash_table, once there is an element
    el, temp            \* the variables of HASH_ITER, while it runs

vars == <<hashv, head, prev, next, hh_prev, hh_next, buckets, tbl, el, temp>>

Pointer == Key \cup {NULL}

UT_hash_bucket == [hh_head : Pointer, count : Nat, expand_mult : Nat]

UT_hash_table ==
    [num_buckets : Nat \ {0}, num_items : 1 .. Cardinality(Key), tail : Key,
     ineff_expands : Nat, noexpand : BOOLEAN]

EmptyBucket == [hh_head |-> NULL, count |-> 0, expand_mult |-> 0]

EmptyBuckets(num) == [b \in 0 .. num - 1 |-> EmptyBucket]

NoTable == [num_buckets |-> 0]

HASH_MAKE_TABLE(k) ==
    [num_buckets |-> HASH_INITIAL_NUM_BUCKETS, num_items |-> 0, tail |-> k,
     ineff_expands |-> 0, noexpand |-> FALSE]

TypeOK ==
    /\ hashv \in HashFunctions
    /\ {head, el, temp} \subseteq Pointer
    /\ {prev, next, hh_prev, hh_next} \subseteq [Key -> Pointer]
    /\ IF head = NULL THEN tbl = NoTable ELSE tbl \in UT_hash_table
    /\ buckets \in [0 .. tbl.num_buckets - 1 -> UT_hash_bucket]

Init ==
    /\ hashv \in HashFunctions
    /\ head = NULL
    /\ prev = [k \in Key |-> NULL] /\ next = prev
    /\ hh_prev = prev /\ hh_next = prev
    /\ buckets = EmptyBuckets(0)
    /\ tbl = NoTable
    /\ el = NULL
    /\ temp = NULL

-----------------------------------------------------------------------------
(* Pointers *)

\* p->field = v, where there is a p.
Set(field, p, v) == IF p = NULL THEN field ELSE [field EXCEPT ![p] = v]

\* p->field, where there is a p.
Get(field, p) == IF p = NULL THEN NULL ELSE field[p]

\* The elements from p on along a field, cut off should they never end.
Follow(field, p) ==
    LET from[n \in 0 .. Cardinality(Key)] ==
            [q \in Pointer |-> IF n = 0 \/ q = NULL THEN <<>>
                              ELSE <<q>> \o from[n - 1][field[q]]]
    IN  from[Cardinality(Key)][p]

-----------------------------------------------------------------------------
(* The buckets: a record of the array and of the two fields of the handles. *)

\* The handles with another array.
WithBuckets(c, bks) ==
    [hh_next |-> c.hh_next, hh_prev |-> c.hh_prev, buckets |-> bks]

\* The bits of the hash value that choose one of num_bkts = 2^n buckets.
HASH_TO_BKT(k, num_bkts) == hashv[k] % num_bkts

\* A bucket with another first element and another count.
Relinked(bucket, first, count) ==
    [bucket EXCEPT !.hh_head = first, !.count = count]

\* Slip: the new element goes behind the others of its bucket.
LinkIntoBucketLast(c, b, k) ==
    LET chain == Follow(c.hh_next, c.buckets[b].hh_head)
        last == IF chain = <<>> THEN NULL ELSE Last(chain)
    IN  [hh_next |-> Set(Set(c.hh_next, k, NULL), last, k),
         hh_prev |-> Set(c.hh_prev, k, last),
         buckets |-> [c.buckets EXCEPT
                        ![b] = Relinked(@, IF last = NULL THEN k ELSE @.hh_head,
                                        @.count + 1)]]

\* One more element in a bucket: it becomes the first.
LinkIntoBucket(c, b, k) ==
    LET first == c.buckets[b].hh_head
    IN  [hh_next |-> Set(c.hh_next, k, first),
         hh_prev |-> Set(Set(c.hh_prev, k, NULL), first, k),
         buckets |-> [c.buckets EXCEPT ![b] = Relinked(@, k, @.count + 1)]]

\* Slip: the elements are distributed over as many buckets as there were.
SplitBucketsOld(num_buckets) == num_buckets

SplitBuckets(num_buckets) == num_buckets * 2

\* The ceiling of num_items / num_bkts.
IdealChain(num_items, num_bkts) ==
    num_items \div num_bkts + (IF num_items % num_bkts # 0 THEN 1 ELSE 0)

\* Slip: a bucket that stays long is split again by the next element.
LongerAllowedNot(bucket, ideal) == bucket

\* A bucket longer than the ideal may grow longer before it is split again.
LongerAllowed(bucket, ideal) ==
    IF bucket.count > ideal /\ bucket.count > bucket.expand_mult * ideal
    THEN [bucket EXCEPT !.expand_mult = @ + 1] ELSE bucket

\* An element moves to the head of its new bucket.
Move(m, k, num_bkts, ideal) ==
    LET b == HASH_TO_BKT(k, num_bkts)
        linked == LinkIntoBucket(m.chains, b, k)
    IN  [chains |-> WithBuckets(linked, [linked.buckets EXCEPT
                                            ![b] = LongerAllowed(@, ideal)]),
         nonideal |-> m.nonideal
                        + (IF linked.buckets[b].count > ideal THEN 1 ELSE 0)]

\* The elements of a bucket move one by one, along its chain.
MoveBucket(m, chain, num_bkts, ideal) ==
    LET moved[i \in 0 .. Len(chain)] ==
            IF i = 0 THEN m ELSE Move(moved[i - 1], chain[i], num_bkts, ideal)
    IN  moved[Len(chain)]

\* And so do those of one bucket after the other.  An element is not touched
\* before it moves: where its old chain goes on is read from the old handles.
MoveAll(c, num_buckets, ideal) ==
    LET moved[b \in 0 .. num_buckets] ==
            IF b = 0
            THEN [chains |-> WithBuckets(c, EmptyBuckets(num_buckets * 2)),
                  nonideal |-> 0]
            ELSE MoveBucket(moved[b - 1],
                            Follow(c.hh_next, c.buckets[b - 1].hh_head),
                            SplitBuckets(num_buckets), ideal)
    IN  moved[num_buckets]

\* Twice as many buckets, unless that is of no use for the next time.
HASH_EXPAND_BUCKETS(c, t) ==
    LET ideal == IdealChain(t.num_items, t.num_buckets * 2)
        all == MoveAll(c, t.num_buckets, ideal)
        ineff == IF all.nonideal > t.num_items \div 2
                 THEN t.ineff_expands + 1 ELSE 0
    IN  [chains |-> all.chains,
         tbl |-> [t EXCEPT !.num_buckets = t.num_buckets * 2,
                           !.ineff_expands = ineff,
                           !.noexpand = t.noexpand \/ ineff > 1]]

\* A full bucket makes the table expand, unless that has been of no use.
HASH_ADD_TO_BKT(c, t, k) ==
    LET b == HASH_TO_BKT(k, t.num_buckets)
        linked == LinkIntoBucket(c, b, k)
        limit == (c.buckets[b].expand_mult + 1) * HASH_BKT_CAPACITY_THRESH
    IN  IF linked.buckets[b].count >= limit /\ ~t.noexpand
        THEN HASH_EXPAND_BUCKETS(linked, t)
        ELSE [chains |-> linked, tbl |-> t]

\* Slip: the head of the bucket is not moved on.
HASH_DEL_IN_BKTKeepsHead(c, b, k) ==
    [hh_next |-> Set(c.hh_next, c.hh_prev[k], c.hh_next[k]),
     hh_prev |-> Set(c.hh_prev, c.hh_next[k], c.hh_prev[k]),
     buckets |-> [c.buckets EXCEPT ![b] = Relinked(@, @.hh_head, @.count - 1)]]

HASH_DEL_IN_BKT(c, b, k) ==
    [hh_next |-> Set(c.hh_next, c.hh_prev[k], c.hh_next[k]),
     hh_prev |-> Set(c.hh_prev, c.hh_next[k], c.hh_prev[k]),
     buckets |-> [c.buckets EXCEPT
                    ![b] = Relinked(@, IF @.hh_head = k THEN c.hh_next[k]
                                       ELSE @.hh_head,
                                    @.count - 1)]]

Chain(b) == Follow(hh_next, buckets[b].hh_head)

AppOrder == Follow(next, head)

\* Walk along the bucket of k.
HASH_FIND(k) ==
    IF head # NULL /\ k \in ToSet(Chain(HASH_TO_BKT(k, tbl.num_buckets)))
    THEN k ELSE NULL

-----------------------------------------------------------------------------
(* Operations *)

Chains == [hh_next |-> hh_next, hh_prev |-> hh_prev, buckets |-> buckets]

\* The element goes behind the tail.
HASH_APPEND_LIST(k) ==
    /\ next' = Set(Set(next, k, NULL), tbl.tail, k)
    /\ prev' = Set(prev, k, tbl.tail)

HASH_ADD(k) ==
    LET made == HASH_MAKE_TABLE(k)
        t == IF head = NULL THEN made ELSE [tbl EXCEPT !.tail = k]
        c == IF head = NULL
             THEN WithBuckets(Chains, EmptyBuckets(made.num_buckets)) ELSE Chains
        added == HASH_ADD_TO_BKT(c, [t EXCEPT !.num_items = t.num_items + 1], k)
    IN  /\ IF head = NULL
           THEN /\ head' = k
                /\ next' = Set(next, k, NULL)
                /\ prev' = Set(prev, k, NULL)
           ELSE HASH_APPEND_LIST(k) /\ UNCHANGED head
        /\ hh_next' = added.chains.hh_next
        /\ hh_prev' = added.chains.hh_prev
        /\ buckets' = added.chains.buckets
        /\ tbl' = added.tbl

\* Slip: whether the element is the tail is not asked.
NewTailUnasked(k) == prev[k]

NewTail(k) == IF tbl.tail = k THEN prev[k] ELSE tbl.tail

\* The handle of the element that was deleted is of no more interest.
Forget(field, k) == Set(field, k, NULL)

\* What is left is freed with the last element.
HASH_DELETE(k) ==
    LET left == IF prev[k] = NULL /\ next[k] = NULL
                THEN WithBuckets(Chains, EmptyBuckets(0))
                ELSE HASH_DEL_IN_BKT(Chains, HASH_TO_BKT(k, tbl.num_buckets), k)
    IN  /\ head' = IF prev[k] = NULL THEN next[k] ELSE head
        /\ next' = Forget(Set(next, prev[k], next[k]), k)
        /\ prev' = Forget(Set(prev, next[k], prev[k]), k)
        /\ hh_next' = Forget(left.hh_next, k)
        /\ hh_prev' = Forget(left.hh_prev, k)
        /\ buckets' = left.buckets
        /\ tbl' = IF prev[k] = NULL /\ next[k] = NULL THEN NoTable
                  ELSE [tbl EXCEPT !.tail = NewTail(k),
                                   !.num_items = tbl.num_items - 1]

\* The callers look for the key first.
Add(k) ==
    /\ el = NULL
    /\ HASH_FIND(k) = NULL
    /\ HASH_ADD(k)
    /\ tbl'.num_buckets <= MaxBuckets
    /\ UNCHANGED <<hashv, el, temp>>

Delete(k) ==
    /\ el = NULL
    /\ HASH_FIND(k) # NULL
    /\ HASH_DELETE(k)
    /\ UNCHANGED <<hashv, el, temp>>

\* HASH_ITER (hh, head, el, temp)
BeginRemoveAll ==
    /\ el = NULL /\ head # NULL
    /\ el' = head
    /\ temp' = next[head]
    /\ UNCHANGED <<hashv, head, prev, next, hh_prev, hh_next, buckets, tbl>>

\* Slip: the two assignments are swapped.
StepOnSwapped ==
    /\ temp' = Get(next', temp)
    /\ el' = Get(next', temp)

\* The successor was read before the element was deleted.
StepOn ==
    /\ el' = temp
    /\ temp' = Get(next', temp)

\* HASH_DEL (head, el), and the step to the next element.
RemoveNext ==
    /\ el # NULL
    /\ HASH_DELETE(el)
    /\ StepOn
    /\ UNCHANGED hashv

Next ==
    \/ \E k \in Key : Add(k) \/ Delete(k)
    \/ BeginRemoveAll
    \/ RemoveNext

Spec == Init /\ [][Next]_vars

-----------------------------------------------------------------------------
(* Properties *)

\* The back pointers of a list are those of its forward pointers.
LinkedBack(list, field) ==
    \A i \in DOMAIN list :
        field[list[i]] = IF i = 1 THEN NULL ELSE list[i - 1]

\* The number of elements in the first n buckets.
CountBuckets(n) ==
    LET count[b \in 0 .. n] ==
            IF b = 0 THEN 0 ELSE count[b - 1] + Len(Chain(b - 1))
    IN  count[n]

\* HASH_FSCK, compiled in with HASH_DEBUG, would not find anything.
HASH_FSCK ==
    head # NULL =>
        /\ \A b \in 0 .. tbl.num_buckets - 1 :
              /\ LinkedBack(Chain(b), hh_prev)
              /\ buckets[b].count = Len(Chain(b))
        /\ tbl.num_items = CountBuckets(tbl.num_buckets)
        /\ LinkedBack(AppOrder, prev)
        /\ tbl.num_items = Len(AppOrder)

\* An element is found if and only if it is in the table, also when its bucket
\* was split since it was added.
FindsExactly ==
    \A k \in Key : HASH_FIND(k) = IF k \in ToSet(AppOrder) THEN k ELSE NULL

\* users_share_channel and relay_nick_change start at the head and go on along
\* hh_next, taking a handle for an element.  As long as the table was not
\* expanded they stop at once: the oldest element is the last of its bucket.
OldestEndsChain ==
    head # NULL /\ tbl.num_buckets = HASH_INITIAL_NUM_BUCKETS
        => hh_next[head] = NULL

\* No bucket grows beyond the length at which it is to be split, though a
\* split may leave all its elements together.
ChainsBounded ==
    head # NULL /\ ~tbl.noexpand =>
        \A b \in 0 .. tbl.num_buckets - 1 :
            buckets[b].count
                < (buckets[b].expand_mult + 1) * HASH_BKT_CAPACITY_THRESH

\* The loop of user_remove_all deletes every element, in order: the element it
\* deletes next is the first that is left, and at its end none is.
RemoveAllRemovesAll ==
    [][el # NULL => /\ el = head
                    /\ el' = NULL => head' = NULL]_vars

\* The table with its pointers is an ordered map.
Map == INSTANCE OrderedMap WITH items <- AppOrder

ImplementsOrderedMap == Map!MapSpec
=============================================================================
