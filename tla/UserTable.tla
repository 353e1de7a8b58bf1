------------------------------ MODULE UserTable ------------------------------
(***************************************************************************)
(* The user table of the server: src/src/user.c over struct User of        *)
(* src/include/structs.h.  A connected client is named by its descriptor,  *)
(* the key of users_fd_map.  A struct that also has a nickname is linked   *)
(* into users_nick_map under that nickname, and every struct owns the hash *)
(* table joined_channels, which uthash walks in insertion order: it is the *)
(* sequence of the channels joined, oldest first.                          *)
(*                                                                         *)
(* Abstractions: the user, real and host names and the text of the away    *)
(* message are left out, has_username and is_away standing for whether     *)
(* they are set; the input buffer belongs to the framing of lines and is   *)
(* not part of this module.  The struct of a descriptor that is not        *)
(* connected is NewUser, whatever the freed memory held.                   *)
(***************************************************************************)
EXTENDS Integers, FiniteSets, Sequences, Functions, SequencesExt

CONSTANTS
    Fd,         \* descriptors accept() can return
    Nick,       \* nicknames is_valid_nick accepts (none starts with '#')
    Channel,    \* channel names ('#' and what follows)
    NULL,       \* the null pointer, an absent parameter, no descriptor
    HASH_BKT_CAPACITY_THRESH    \* 10 in src/lib/hashmap.h: a bucket of that
                                \* many channels makes uthash expand the table

ASSUME NamesAssumption ==
    /\ IsFiniteSet(Fd)
    /\ IsFiniteSet(Channel)
    /\ NULL \notin Fd \cup Nick \cup Channel
    /\ Nick \cap Channel = {}

ASSUME ThresholdAssumption == HASH_BKT_CAPACITY_THRESH \in Nat \ {0}

VARIABLES
    users_fd_map,           \* descriptors of the connected clients
    users_nick_map,         \* nickname -> descriptor of its owner, or NULL
    user,                   \* descriptor -> struct User
    joined_channels,        \* descriptor -> channels joined, oldest first
    expanded,               \* descriptors whose joined_channels was expanded
    unknown_user_count,
    registered_user_count,
    operator_user_count

userCounts == <<unknown_user_count, registered_user_count, operator_user_count>>
userTable == <<users_fd_map, users_nick_map, user, joined_channels, expanded,
               userCounts>>

User ==
    [nick : Nick \cup {NULL}, has_nick : BOOLEAN, has_username : BOOLEAN,
     is_registered : BOOLEAN, is_oper : BOOLEAN, is_away : BOOLEAN,
     is_dead : BOOLEAN]

NewUser ==
    [nick |-> NULL, has_nick |-> FALSE, has_username |-> FALSE,
     is_registered |-> FALSE, is_oper |-> FALSE, is_away |-> FALSE,
     is_dead |-> FALSE]

UserTypeOK ==
    /\ users_fd_map \subseteq Fd
    /\ users_nick_map \in [Nick -> Fd \cup {NULL}]
    /\ user \in [Fd -> User]
    /\ joined_channels \in [Fd -> Seq(Channel)]
    /\ expanded \subseteq Fd
    /\ unknown_user_count \in Int
    /\ registered_user_count \in Int
    /\ operator_user_count \in Int

UserInit ==
    /\ users_fd_map = {}
    /\ users_nick_map = [n \in Nick |-> NULL]
    /\ user = [u \in Fd |-> NewUser]
    /\ joined_channels = [u \in Fd |-> <<>>]
    /\ expanded = {}
    /\ unknown_user_count = 0
    /\ registered_user_count = 0
    /\ operator_user_count = 0

-----------------------------------------------------------------------------
(* Lookups. *)

get_user_by_nick(n) == users_nick_map[n]

\* The walk user_get_head, user_get_next, ...: every user with a nickname.
UsersWithNick == {get_user_by_nick(n) : n \in Nick} \ {NULL}

Joined(u) == Range(joined_channels[u])

(* users_share_channel and relay_nick_change follow hh.hh_next, the bucket  *)
(* chain, and not hh.next, the insertion order.  They start at the head of  *)
(* the table, its oldest channel, which is the last of its chain as long as *)
(* the table was not expanded (OldestEndsChain of HashTable): they see that *)
(* channel and stop.  Expanding reverses chains, and then the oldest channel *)
(* may have a successor.                                                    *)
HhNextWalk(u) ==
    IF joined_channels[u] = <<>> THEN {} ELSE {Head(joined_channels[u])}

(* hh_next points to a handle inside an element and is cast to the element: *)
(* what is read as its channel_info is the table itself, whose words are no *)
(* pointers, and the server dies of it.  Whether there is a successor is up *)
(* to the hash values of the names.                                         *)
WalkMayRunOff(u) == u \in expanded /\ Len(joined_channels[u]) > 1

users_share_channel(requester, candidate) ==
    \E c \in HhNextWalk(requester) : c \in Joined(candidate)

-----------------------------------------------------------------------------
(* What the setters make of one struct. *)

set_user_nick(rec, n) == [rec EXCEPT !.nick = n, !.has_nick = TRUE]

set_user_username(rec) == [rec EXCEPT !.has_username = TRUE]

\* user_set_away_status returns whether the user is away now.
user_set_away_status(rec, away_msg) == [rec EXCEPT !.is_away = away_msg # NULL]

NickTableDelete(u) ==
    [n \in Nick |-> IF users_nick_map[n] = u THEN NULL ELSE users_nick_map[n]]

\* Slip: the struct is added under its new key and not deleted from the old.
NickTableRekeyKeepsOld(u, new) == [users_nick_map EXCEPT ![new] = u]

NickTableRekey(u, new) == [NickTableDelete(u) EXCEPT ![new] = u]

\* Expanding takes that many channels, with hash values of one bucket.
user_add_channel(u, c) ==
    /\ joined_channels' = [joined_channels EXCEPT ![u] = Append(@, c)]
    /\ \/ UNCHANGED expanded
       \/ /\ Len(joined_channels[u]) + 1 >= HASH_BKT_CAPACITY_THRESH
          /\ expanded' = expanded \cup {u}

\* HASH_DEL of the last channel frees the table.
user_remove_channel(u, c) ==
    /\ joined_channels' = [joined_channels EXCEPT
           ![u] = RemoveAt(@, CHOOSE i \in DOMAIN @ : @[i] = c)]
    /\ expanded' = IF Len(joined_channels[u]) = 1 THEN expanded \ {u}
                                                  ELSE expanded

user_set_operator_status(u, status) ==
    /\ user' = [user EXCEPT ![u].is_oper = status]
    /\ operator_user_count' =
           IF status THEN operator_user_count + 1 ELSE operator_user_count - 1

-----------------------------------------------------------------------------
(* Connection and disconnection. *)

add_to_users(u) ==
    /\ users_fd_map' = users_fd_map \cup {u}
    /\ user' = [user EXCEPT ![u] = NewUser]
    /\ joined_channels' = [joined_channels EXCEPT ![u] = <<>>]
    /\ expanded' = expanded \ {u}
    /\ unknown_user_count' = unknown_user_count + 1
    /\ UNCHANGED <<users_nick_map, registered_user_count, operator_user_count>>

\* Slip: every leaver is counted as registered.
del_user_countsRegistered(u) ==
    /\ operator_user_count' =
           operator_user_count - (IF user[u].is_oper THEN 1 ELSE 0)
    /\ registered_user_count' = registered_user_count - 1
    /\ UNCHANGED unknown_user_count

\* Slip: every registered leaver is counted as an operator.
del_user_countsAllOperators(u) ==
    /\ operator_user_count' =
           operator_user_count - (IF user[u].is_registered THEN 1 ELSE 0)
    /\ registered_user_count' =
           registered_user_count - (IF user[u].is_registered THEN 1 ELSE 0)
    /\ unknown_user_count' =
           unknown_user_count - (IF user[u].is_registered THEN 0 ELSE 1)

\* The counters as del_from_users leaves them.
del_user_counts(u) ==
    /\ operator_user_count' =
           operator_user_count - (IF user[u].is_oper THEN 1 ELSE 0)
    /\ registered_user_count' =
           registered_user_count - (IF user[u].is_registered THEN 1 ELSE 0)
    /\ unknown_user_count' =
           unknown_user_count - (IF user[u].is_registered THEN 0 ELSE 1)

\* Slip: the struct is freed while users_nick_map still holds it.
del_user_structKeepsNick(u) ==
    /\ users_fd_map' = users_fd_map \ {u}
    /\ user' = [user EXCEPT ![u] = NewUser]
    /\ joined_channels' = [joined_channels EXCEPT ![u] = <<>>]
    /\ expanded' = expanded \ {u}
    /\ del_user_counts(u)
    /\ UNCHANGED users_nick_map

\* The part of del_from_users about this table; user_remove_all, which it
\* calls, also changes the channels and is in module ChannelTable.
del_user_struct(u) ==
    /\ users_fd_map' = users_fd_map \ {u}
    /\ users_nick_map' = NickTableDelete(u)
    /\ user' = [user EXCEPT ![u] = NewUser]
    /\ joined_channels' = [joined_channels EXCEPT ![u] = <<>>]
    /\ expanded' = expanded \ {u}
    /\ del_user_counts(u)
=============================================================================
