----------------------------- MODULE ChatService -----------------------------
(***************************************************************************)
(* What the server promises its clients, whatever tables it keeps: each    *)
(* client that is online has at most one nickname, which nobody else has,  *)
(* and takes part in rooms; it changes only its own names and rooms, one   *)
(* at a time, needs both names to enter a room, and loses all of them at   *)
(* once when it goes.                                                      *)
(***************************************************************************)
CONSTANTS Client, Name, Room, Nobody

VARIABLES
    online,     \* clients connected
    owner,      \* name -> the client that has it, or Nobody
    admitted,   \* clients that have given all their names
    present     \* pairs of a client and a room it takes part in

service == <<online, owner, admitted, present>>

ServiceInit ==
    /\ online = {}
    /\ owner = [n \in Name |-> Nobody]
    /\ admitted = {}
    /\ present = {}

Released(a) == [n \in Name |-> IF owner[n] = a THEN Nobody ELSE owner[n]]

Arrive(a) ==
    /\ a \notin online
    /\ online' = online \cup {a}
    /\ UNCHANGED <<owner, admitted, present>>

\* The name must be free; the name the client had before becomes free.
TakeName(a, n) ==
    /\ owner[n] = Nobody
    /\ owner' = [Released(a) EXCEPT ![n] = a]
    /\ admitted' \in {admitted, admitted \cup {a}}
    /\ UNCHANGED <<online, present>>

\* USER completes the names of a client that has a nickname.
Introduce(a) ==
    /\ \E n \in Name : owner[n] = a
    /\ admitted' = admitted \cup {a}
    /\ UNCHANGED <<online, owner, present>>

Enter(a, r) ==
    /\ a \in admitted
    /\ present' = present \cup {<<a, r>>}
    /\ UNCHANGED <<online, owner, admitted>>

Exit(a, r) ==
    /\ present' = present \ {<<a, r>>}
    /\ UNCHANGED <<online, owner, admitted>>

Depart(a) ==
    /\ online' = online \ {a}
    /\ owner' = Released(a)
    /\ admitted' = admitted \ {a}
    /\ present' = {p \in present : p[1] # a}

ServiceNext ==
    \/ \E a \in Client : Arrive(a)
    \/ \E a \in online :
           \/ \E n \in Name : TakeName(a, n)
           \/ Introduce(a)
           \/ \E r \in Room : Enter(a, r) \/ Exit(a, r)
           \/ Depart(a)

ServiceSpec == ServiceInit /\ [][ServiceNext]_service
=============================================================================
