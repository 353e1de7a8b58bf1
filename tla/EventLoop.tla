----------------------------- MODULE EventLoop -----------------------------
(***************************************************************************)
(* The loop of main.c and process_connections: wait for events, look at    *)
(* the first of them, wait again.  The result of epoll_wait is not tested, *)
(* so that an interrupted wait is followed by the handling of whatever     *)
(* events[0] held before.  Sockets are blocking: accept and recv on a      *)
(* descriptor that is not ready wait until it is.                          *)
(*                                                                         *)
(* External: the level-triggered ready list of epoll.  A descriptor that   *)
(* becomes ready is appended.  A wait reports the first MAX_EVENTS ready   *)
(* descriptors of the list and moves them behind the others; those found   *)
(* not ready are taken off.  This is how successive waits "round robin     *)
(* through the set of ready file descriptors" (epoll_wait(2)).             *)
(*                                                                         *)
(* Data count in buffersful, what one recv takes; how the bytes become     *)
(* lines is LineFraming.  Bounds: MaxPending buffersful per client,        *)
(* MaxBacklog connections to accept, and Client, the descriptors the       *)
(* process may have open.                                                  *)
(***************************************************************************)
EXTENDS Integers, Sequences, SequencesExt

CONSTANTS Client, listener, NoFd, MAX_EVENTS, MaxPending, MaxBacklog,
          Interruptible     \* a signal may interrupt epoll_wait

ASSUME EventsAssumption == MAX_EVENTS \in Nat \ {0}
ASSUME DescriptorAssumption ==
    listener \notin Client /\ NoFd \notin Client /\ NoFd # listener

ASSUME BoundsAssumption == MaxPending \in Nat /\ MaxBacklog \in Nat

VARIABLES
    users_fd_map,   \* connected clients
    epfd,           \* those in the interest set, the listener left out
    pending,        \* data in the socket of a client
    gone,           \* clients that have closed their end
    backlog,        \* connections that wait for accept
    rdllist,        \* the ready list of epoll
    events,         \* what the array of main holds, as far as it was filled
    nfds,           \* what epoll_wait returned: nobody looks at it
    pc              \* "epoll_wait", "process_connections" or "crashed"

kernel == <<pending, gone, backlog, rdllist>>
loop == <<events, nfds, pc>>
vars == <<users_fd_map, epfd, kernel, loop>>

TypeOK ==
    /\ users_fd_map \subseteq Client
    /\ epfd \subseteq users_fd_map
    /\ pending \in [Client -> 0 .. MaxPending]
    /\ gone \subseteq users_fd_map
    /\ backlog \in 0 .. MaxBacklog
    /\ rdllist \in Seq(epfd \cup {listener}) /\ IsInjective(rdllist)
    /\ events \in Seq(Client \cup {listener, NoFd})
    /\ Len(events) \in 1 .. MAX_EVENTS
    /\ nfds \in -1 .. MAX_EVENTS
    /\ pc \in {"epoll_wait", "process_connections", "crashed"}

(* The array is not initialised: the descriptor in it may be the listener,  *)
(* but no client's.                                                         *)
Init ==
    /\ users_fd_map = {}
    /\ epfd = {}
    /\ pending = [c \in Client |-> 0]
    /\ gone = {}
    /\ backlog = 0
    /\ rdllist = <<>>
    /\ events \in {<<listener>>, <<NoFd>>}
    /\ nfds = 0
    /\ pc = "epoll_wait"

-----------------------------------------------------------------------------
(* The network *)

\* accept or recv on d would not block.
Ready(d) ==
    IF d = listener THEN backlog > 0 ELSE pending[d] > 0 \/ d \in gone

\* d becomes ready: it is put on the list unless it is there or not watched.
Listed(d) ==
    IF d \in (epfd \cup {listener}) \ ToSet(rdllist)
    THEN Append(rdllist, d) ELSE rdllist

Connect ==
    /\ backlog < MaxBacklog
    /\ backlog' = backlog + 1
    /\ rdllist' = Listed(listener)
    /\ UNCHANGED <<users_fd_map, epfd, pending, gone, loop>>

Send(c) ==
    /\ c \in users_fd_map \ gone
    /\ pending[c] < MaxPending
    /\ pending' = [pending EXCEPT ![c] = @ + 1]
    /\ rdllist' = Listed(c)
    /\ UNCHANGED <<users_fd_map, epfd, gone, backlog, loop>>

Leave(c) ==
    /\ c \in users_fd_map \ gone
    /\ gone' = gone \cup {c}
    /\ rdllist' = Listed(c)
    /\ UNCHANGED <<users_fd_map, epfd, pending, backlog, loop>>

-----------------------------------------------------------------------------
(* The wait *)

\* Slip: EPOLLIN | EPOLLET.  What is reported once is not kept on the list.
RelistedEdgeTriggered(reported) == <<>>

\* EPOLLIN alone: what is reported stays on the list, at its end.
Relisted(reported) == reported

\* n events are reported: those of the first n ready descriptors of the list,
\* found at the given places, or of all if they are fewer than MAX_EVENTS.
epoll_wait ==
    /\ pc = "epoll_wait"
    /\ \E n \in 1 .. MAX_EVENTS : \E place \in [1 .. n -> DOMAIN rdllist] :
          LET last == IF n = MAX_EVENTS THEN place[n] ELSE Len(rdllist)
              reported == [i \in 1 .. n |-> rdllist[place[i]]]
          IN  /\ \A i, j \in 1 .. n : i < j => place[i] < place[j]
              /\ Range(place) = {p \in 1 .. last : Ready(rdllist[p])}
              /\ events' = reported
              /\ nfds' = n
              /\ rdllist' = SubSeq(rdllist, last + 1, Len(rdllist))
                                \o Relisted(reported)
    /\ pc' = "process_connections"
    /\ UNCHANGED <<users_fd_map, epfd, pending, gone, backlog>>

\* EINTR: the array keeps what it holds.
Interrupted ==
    /\ Interruptible
    /\ pc = "epoll_wait"
    /\ nfds' = -1
    /\ pc' = "process_connections"
    /\ UNCHANGED <<users_fd_map, epfd, kernel, events>>

-----------------------------------------------------------------------------
(* process_connections *)

\* add_to_users fails and the connection is closed.
RejectConnection ==
    /\ backlog' = backlog - 1
    /\ UNCHANGED <<users_fd_map, epfd, pending, gone, rdllist>>

(* A client that was accepted may have sent data before; epoll_ctl reports  *)
(* them, if it does not fail.                                               *)
AcceptClient(c) ==
    /\ backlog' = backlog - 1
    /\ users_fd_map' = users_fd_map \cup {c}
    /\ \E n \in 0 .. MaxPending :
          /\ pending' = [pending EXCEPT ![c] = n]
          /\ \/ /\ epfd' = epfd \cup {c}
                /\ rdllist' = IF n > 0 THEN Append(rdllist, c) ELSE rdllist
             \/ UNCHANGED <<epfd, rdllist>>
    /\ UNCHANGED gone

\* No descriptor is left: accept fails, and the connection stays where it is.
AcceptFails ==
    /\ users_fd_map = Client
    /\ UNCHANGED <<users_fd_map, epfd, kernel>>

handle_new_connection ==
    /\ backlog > 0
    /\ \/ \E c \in Client \ users_fd_map : AcceptClient(c)
       \/ users_fd_map # Client /\ RejectConnection
       \/ AcceptFails

\* Slip: the client leaves the table, but its descriptor is not closed.
DisconnectLeaksFd(c) ==
    /\ users_fd_map' = users_fd_map \ {c}
    /\ UNCHANGED <<epfd, kernel>>

\* close, del_from_users, del_from_epfd.
Disconnect(c) ==
    /\ users_fd_map' = users_fd_map \ {c}
    /\ epfd' = epfd \ {c}
    /\ pending' = [pending EXCEPT ![c] = 0]
    /\ gone' = gone \ {c}
    /\ rdllist' = RemoveFirst(rdllist, c)
    /\ UNCHANGED backlog

\* recv takes a bufferful, or reports the end.  The lines may hold a QUIT.
handle_client_data(c) ==
    \/ /\ pending[c] > 0
       /\ \/ /\ pending' = [pending EXCEPT ![c] = @ - 1]
             /\ UNCHANGED <<users_fd_map, epfd, gone, backlog, rdllist>>
          \/ Disconnect(c)
    \/ /\ pending[c] = 0 /\ c \in gone
       /\ Disconnect(c)

\* event->data.fd of the array: its first element.
HandledEvent == Head(events)

(* For a descriptor that is no client's, get_user_by_fd returns NULL and    *)
(* user_get_buf_len dereferences it.                                        *)
process_connections ==
    /\ pc = "process_connections"
    /\ \/ /\ HandledEvent = listener
          /\ handle_new_connection
          /\ pc' = "epoll_wait"
       \/ /\ HandledEvent \in users_fd_map
          /\ handle_client_data(HandledEvent)
          /\ pc' = "epoll_wait"
       \/ /\ HandledEvent \notin users_fd_map \cup {listener}
          /\ pc' = "crashed"
          /\ UNCHANGED <<users_fd_map, epfd, kernel>>
    /\ UNCHANGED <<events, nfds>>

Next ==
    \/ Connect
    \/ \E c \in Client : Send(c) \/ Leave(c)
    \/ epoll_wait
    \/ Interrupted
    \/ process_connections

Spec == Init /\ [][Next]_vars

(* The loop runs whenever it can; clients, and signals, as they please.     *)
FairSpec == Spec /\ WF_vars(epoll_wait) /\ WF_vars(process_connections)

-----------------------------------------------------------------------------
(* Properties *)

\* After a wait that was not interrupted the descriptor that is handled is the
\* listener or a connected client, and it is ready: there is a struct to find,
\* and accept or recv does not block, though what is reported may have been on
\* the ready list since before other clients were disconnected.  After a wait
\* that was interrupted none of this is so, and only then can the process find
\* no struct for the descriptor and crash.
HandledEventIsReady ==
    /\ pc = "process_connections" /\ nfds > 0 =>
           /\ HandledEvent \in users_fd_map \cup {listener}
           /\ Ready(HandledEvent)
    /\ pc = "crashed" => nfds = -1

\* No wakeup is lost: what is ready and watched is on the ready list, so that
\* the next wait does not sleep, also when a wait reported it and the loop has
\* looked at another event since, or at one bufferful of several.
NoWakeupLost ==
    \A d \in epfd \cup {listener} : Ready(d) => d \in ToSet(rdllist)

Waiting(c) == c \in epfd /\ Ready(c)

Handled(c) == pc = "process_connections" /\ HandledEvent = c

\* Nothing arrives for others than c.
OthersSilent(c) ==
    /\ backlog' <= backlog
    /\ \A d \in Client \ {c} : pending'[d] <= pending[d]

(* What a client depends on: the others fall silent; the process does not   *)
(* stay out of descriptors while a connection waits; and the loop comes     *)
(* back, that is, it is not left waiting for the stale descriptor of an     *)
(* interrupted wait.                                                        *)
Undisturbed(c) ==
    /\ <>[][OthersSilent(c)]_vars
    /\ <>[](backlog > 0 => users_fd_map # Client)
    /\ []<>(pc = "epoll_wait")

\* A client with data or a hang-up is handled, whatever the list holds before it.
ClientsServed ==
    \A c \in Client : Undisturbed(c) => (Waiting(c) ~> Handled(c) \/ ~Waiting(c))

\* main.c:71: "Iterate through connections within the set of poll fds looking
\* for data to read": a client in the set is looked at.
ReportedClientsHandled ==
    \A c \in Client :
        (pc = "process_connections" /\ c \in ToSet(events) /\ c \in epfd)
            ~> (Handled(c) \/ ~Waiting(c))
=============================================================================
