--------------------------- MODULE EventLoopProofs ---------------------------
(***************************************************************************)
(* Theorems about EventLoop, for any number of clients and any length of   *)
(* the array of events.                                                    *)
(***************************************************************************)
EXTENDS EventLoop, ListLemmas

\* The descriptors epoll may report.
Watched == epfd \cup {listener}

\* What the ready list is said to be in TypeOK.
ListOK == rdllist \in Seq(Watched) /\ IsInjective(rdllist)

LEMMA ListedOK ==
    ASSUME ListOK, NEW d
    PROVE  Listed(d) \in Seq(Watched) /\ IsInjective(Listed(d))
<1>1. CASE d \in Watched \ ToSet(rdllist)
  <2>1. d \in Watched /\ d \notin Range(rdllist)
    BY <1>1 DEF ToSet, Range
  <2>2. Listed(d) = Append(rdllist, d)
    BY <1>1 DEF Listed, Watched
  <2> QED
    BY <2>1, <2>2, AppendOnce DEF ListOK
<1>2. CASE ~(d \in Watched \ ToSet(rdllist))
  BY <1>2 DEF Listed, Watched, ListOK
<1> QED
  BY <1>1, <1>2

\* What a wait does to the list: the reported go behind the others.
WaitTakes(n, place) ==
    LET last == IF n = MAX_EVENTS THEN place[n] ELSE Len(rdllist)
    IN  /\ \A i, j \in 1 .. n : i < j => place[i] < place[j]
        /\ Range(place) = {p \in 1 .. last : Ready(rdllist[p])}
        /\ events' = [i \in 1 .. n |-> rdllist[place[i]]]
        /\ rdllist' = SubSeq(rdllist, last + 1, Len(rdllist)) \o events'

LEMMA WaitStep ==
    ASSUME ListOK, NEW n \in Nat \ {0}, MAX_EVENTS \in Nat,
           NEW place \in [1 .. n -> DOMAIN rdllist], WaitTakes(n, place)
    PROVE  /\ events' \in Seq(Watched) /\ Len(events') = n
           /\ Head(events') \in ToSet(rdllist) /\ Ready(Head(events'))
           /\ rdllist' \in Seq(Watched) /\ IsInjective(rdllist')
<1> DEFINE list == rdllist
           last == IF n = MAX_EVENTS THEN place[n] ELSE Len(list)
           rest == SubSeq(list, last + 1, Len(list))
           reported == [i \in 1 .. n |-> list[place[i]]]
<1>0. /\ list \in Seq(Watched) /\ IsInjective(list)
      /\ Len(list) \in Nat /\ DOMAIN list = 1 .. Len(list)
      /\ \A i \in 1 .. n : place[i] \in 1 .. Len(list)
  BY DEF ListOK
<1>1. /\ \A i, j \in 1 .. n : i < j => place[i] < place[j]
      /\ \A i \in 1 .. n : place[i] \in 1 .. last /\ Ready(list[place[i]])
      /\ events' = reported
      /\ rdllist' = rest \o reported
  BY DEF WaitTakes, Range
<1> HIDE DEF list
<1>2. last \in 1 .. Len(list)
  <2>1. 1 \in 1 .. n /\ n \in 1 .. n
    OBVIOUS
  <2> QED
    BY <1>0, <2>1
<1> HIDE DEF last
<1>3. /\ reported \in Seq(Watched) /\ Len(reported) = n
      /\ \A i \in 1 .. n : reported[i] = list[place[i]]
  BY <1>0
<1>4. /\ rest \in Seq(Watched) /\ Len(rest) = Len(list) - last
      /\ \A i \in 1 .. Len(list) - last : rest[i] = list[last + i]
  BY <1>0, <1>2, Behind
<1> HIDE DEF rest, reported
<1>5. IsInjective(reported)
  <2> SUFFICES ASSUME NEW i \in 1 .. n, NEW j \in 1 .. n, reported[i] = reported[j]
               PROVE  i = j
    BY <1>3 DEF IsInjective
  <2>1. place[i] = place[j]
    BY <1>0, <1>3 DEF IsInjective
  <2> QED
    BY <1>0, <1>1, <2>1
<1>6. IsInjective(rest)
  <2> SUFFICES ASSUME NEW i \in 1 .. Len(list) - last,
                      NEW j \in 1 .. Len(list) - last, rest[i] = rest[j]
               PROVE  i = j
    BY <1>4 DEF IsInjective
  <2>1. last + i \in DOMAIN list /\ last + j \in DOMAIN list
    BY <1>0, <1>2
  <2>2. last + i = last + j
    BY <1>0, <1>4, <2>1 DEF IsInjective
  <2> QED
    BY <1>2, <2>2
<1>7. ASSUME NEW i \in 1 .. Len(rest), NEW j \in 1 .. Len(reported)
      PROVE  rest[i] # reported[j]
  <2>1. /\ last + i \in DOMAIN list /\ rest[i] = list[last + i]
        /\ place[j] \in DOMAIN list /\ reported[j] = list[place[j]]
        /\ place[j] \in 1 .. last
    BY <1>0, <1>1, <1>2, <1>3, <1>4
  <2>2. last + i # place[j]
    BY <1>2, <2>1
  <2> QED
    BY <1>0, <2>1, <2>2 DEF IsInjective
<1>8. rdllist' \in Seq(Watched) /\ IsInjective(rdllist')
  BY <1>1, <1>3, <1>4, <1>5, <1>6, <1>7, ConcatOnce
<1>9. /\ Head(events') = list[place[1]]
      /\ list[place[1]] \in ToSet(list) /\ Ready(list[place[1]])
  <2>1. 1 \in 1 .. n /\ Head(reported) = reported[1]
    BY <1>3
  <2> QED
    BY <1>0, <1>1, <1>3, <2>1 DEF ToSet
<1> QED
  BY <1>1, <1>3, <1>8, <1>9 DEF list
-----------------------------------------------------------------------------
(* Type correctness. *)

LEMMA TypeOKInit == Init => TypeOK
<1> SUFFICES ASSUME Init
             PROVE  TypeOK
  OBVIOUS
<1>1. rdllist \in Seq(epfd \cup {listener}) /\ IsInjective(rdllist)
  BY DEF Init, IsInjective
<1>2. /\ events \in Seq(Client \cup {listener, NoFd})
      /\ Len(events) \in 1 .. MAX_EVENTS
  <2>1. PICK d \in {listener, NoFd} : events = <<d>>
    BY DEF Init
  <2>2. <<d>> \in Seq(Client \cup {listener, NoFd}) /\ Len(<<d>>) = 1
    OBVIOUS
  <2> QED
    BY <2>1, <2>2, EventsAssumption
<1>3. /\ pending \in [Client -> 0 .. MaxPending]
      /\ backlog \in 0 .. MaxBacklog /\ nfds \in -1 .. MAX_EVENTS
  BY EventsAssumption, BoundsAssumption DEF Init
<1> QED
  BY <1>1, <1>2, <1>3 DEF Init, TypeOK

LEMMA NetworkType ==
    ASSUME TypeOK, Connect \/ \E c \in Client : Send(c) \/ Leave(c)
    PROVE  TypeOK'
<1>0. ListOK
  BY DEF TypeOK, ListOK, Watched
<1>1. CASE Connect
  BY <1>0, <1>1, ListedOK, BoundsAssumption DEF Connect, TypeOK, loop, Watched
<1>2. ASSUME NEW c \in Client, Send(c)
      PROVE  TypeOK'
  BY <1>0, <1>2, ListedOK, BoundsAssumption DEF Send, TypeOK, loop, Watched
<1>3. ASSUME NEW c \in Client, Leave(c)
      PROVE  TypeOK'
  BY <1>0, <1>3, ListedOK DEF Leave, TypeOK, loop, Watched
<1> QED
  BY <1>1, <1>2, <1>3

\* A wait leaves the list and the array well formed, and reports first a
\* descriptor that is ready.
LEMMA WaitReports ==
    ASSUME TypeOK, epoll_wait
    PROVE  TypeOK' /\ HandledEventIsReady'
<1>1. PICK n \in 1 .. MAX_EVENTS : \E place \in [1 .. n -> DOMAIN rdllist] :
          WaitTakes(n, place) /\ nfds' = n
  BY DEF epoll_wait, WaitTakes, Relisted
<1>2. /\ MAX_EVENTS \in Nat \ {0} /\ n \in Nat \ {0} /\ ListOK
      /\ UNCHANGED <<users_fd_map, epfd, pending, gone, backlog>>
      /\ pc' = "process_connections"
  BY <1>1, EventsAssumption DEF epoll_wait, TypeOK, ListOK, Watched
<1>3. /\ events' \in Seq(Watched) /\ Len(events') = n
      /\ Head(events') \in ToSet(rdllist) /\ Ready(Head(events'))
      /\ rdllist' \in Seq(Watched) /\ IsInjective(rdllist')
  BY <1>1, <1>2, WaitStep
<1>4. /\ Watched \subseteq Client \cup {listener, NoFd}
      /\ ToSet(rdllist) \subseteq users_fd_map \cup {listener}
  BY <1>2 DEF TypeOK, ListOK, Watched, ToSet
<1>5. events' \in Seq(Client \cup {listener, NoFd})
  BY <1>3, <1>4
<1>6. TypeOK'
  BY <1>1, <1>2, <1>3, <1>5 DEF TypeOK, Watched
<1>7. HandledEventIsReady'
  BY <1>2, <1>3, <1>4 DEF HandledEventIsReady, HandledEvent, Ready
<1> QED
  BY <1>6, <1>7

LEMMA AcceptType ==
    ASSUME TypeOK, handle_new_connection
    PROVE  /\ users_fd_map' \subseteq Client /\ epfd' \subseteq users_fd_map'
           /\ pending' \in [Client -> 0 .. MaxPending] /\ gone' \subseteq users_fd_map'
           /\ backlog' \in 0 .. MaxBacklog
           /\ rdllist' \in Seq(epfd' \cup {listener}) /\ IsInjective(rdllist')
<1>0. backlog - 1 \in 0 .. MaxBacklog /\ ListOK
  BY BoundsAssumption DEF handle_new_connection, TypeOK, ListOK, Watched
<1>1. ASSUME NEW c \in Client \ users_fd_map, AcceptClient(c)
      PROVE  /\ users_fd_map' \subseteq Client /\ epfd' \subseteq users_fd_map'
             /\ pending' \in [Client -> 0 .. MaxPending]
             /\ gone' \subseteq users_fd_map'
             /\ backlog' \in 0 .. MaxBacklog
             /\ rdllist' \in Seq(epfd' \cup {listener}) /\ IsInjective(rdllist')
  <2>1. /\ users_fd_map' = users_fd_map \cup {c} /\ gone' = gone
        /\ backlog' = backlog - 1
        /\ pending' \in [Client -> 0 .. MaxPending]
    BY <1>1 DEF AcceptClient, TypeOK
  <2>2. c \notin Range(rdllist)
    BY <1>1, DescriptorAssumption DEF TypeOK, Range
  <2>3. CASE epfd' = epfd /\ rdllist' = rdllist
    BY <1>0, <1>1, <2>1, <2>3 DEF TypeOK
  <2>4. CASE /\ epfd' = epfd \cup {c}
             /\ rdllist' = rdllist \/ rdllist' = Append(rdllist, c)
    <3>1. rdllist \in Seq(epfd' \cup {listener}) /\ IsInjective(rdllist)
      BY <2>4 DEF TypeOK
    <3>2. /\ Append(rdllist, c) \in Seq(epfd' \cup {listener})
          /\ IsInjective(Append(rdllist, c))
      BY <2>2, <2>4, <3>1, AppendOnce
    <3> QED
      BY <1>0, <1>1, <2>1, <2>4, <3>1, <3>2 DEF TypeOK
  <2> QED
    BY <1>1, <2>3, <2>4 DEF AcceptClient
<1>2. CASE RejectConnection \/ AcceptFails
  BY <1>0, <1>2 DEF RejectConnection, AcceptFails, kernel, TypeOK
<1> QED
  BY <1>1, <1>2 DEF handle_new_connection

LEMMA ClientDataType ==
    ASSUME TypeOK, NEW c \in users_fd_map, handle_client_data(c)
    PROVE  /\ users_fd_map' \subseteq Client /\ epfd' \subseteq users_fd_map'
           /\ pending' \in [Client -> 0 .. MaxPending] /\ gone' \subseteq users_fd_map'
           /\ backlog' \in 0 .. MaxBacklog
           /\ rdllist' \in Seq(epfd' \cup {listener}) /\ IsInjective(rdllist')
<1>0. c \in Client /\ c # listener /\ 0 \in 0 .. MaxPending
  BY DescriptorAssumption, BoundsAssumption DEF TypeOK
<1>1. CASE Disconnect(c)
  <2>1. /\ rdllist' \in Seq((epfd \cup {listener}) \ {c})
        /\ IsInjective(rdllist')
    BY <1>1, RemoveFirstOnce DEF Disconnect, TypeOK
  <2>2. epfd' = epfd \ {c} /\ (epfd \cup {listener}) \ {c} = epfd' \cup {listener}
    BY <1>0, <1>1 DEF Disconnect
  <2>3. rdllist' \in Seq(epfd' \cup {listener})
    BY <2>1, <2>2, Zenon
  <2> QED
    BY <1>0, <1>1, <2>1, <2>2, <2>3 DEF Disconnect, TypeOK
<1>2. CASE /\ pending[c] > 0 /\ pending' = [pending EXCEPT ![c] = @ - 1]
           /\ UNCHANGED <<users_fd_map, epfd, gone, backlog, rdllist>>
  BY <1>0, <1>2, BoundsAssumption DEF TypeOK
<1> QED
  BY <1>1, <1>2 DEF handle_client_data

LEMMA ProcessType ==
    ASSUME TypeOK, process_connections
    PROVE  TypeOK'
<1>1. pc' \in {"epoll_wait", "crashed"} /\ UNCHANGED <<events, nfds>>
  BY DEF process_connections
<1>2. CASE HandledEvent = listener /\ handle_new_connection
  BY <1>1, <1>2, AcceptType DEF TypeOK
<1>3. CASE HandledEvent \in users_fd_map /\ handle_client_data(HandledEvent)
  BY <1>1, <1>3, ClientDataType DEF TypeOK
<1>4. CASE UNCHANGED <<users_fd_map, epfd, kernel>>
  BY <1>1, <1>4 DEF TypeOK, kernel
<1> QED
  BY <1>2, <1>3, <1>4 DEF process_connections

LEMMA TypeOKStep == TypeOK /\ [Next]_vars => TypeOK'
<1> SUFFICES ASSUME TypeOK, [Next]_vars
             PROVE  TypeOK'
  OBVIOUS
<1>1. CASE UNCHANGED vars
  BY <1>1 DEF vars, kernel, loop, TypeOK
<1>2. CASE Interrupted
  BY <1>2, EventsAssumption DEF Interrupted, kernel, TypeOK
<1> QED
  BY <1>1, <1>2, NetworkType, WaitReports, ProcessType DEF Next

\* The ready list holds watched descriptors, each once, whatever was closed
\* while it was on it; the array never holds more than it has room for.
THEOREM LoopTypeCorrect == Spec => []TypeOK
<1> QED
  BY TypeOKInit, TypeOKStep, PTL DEF Spec
-----------------------------------------------------------------------------
(* Between a wait and the handling of its event. *)

LEMMA ReadyKept ==
    ASSUME TypeOK, HandledEventIsReady,
           Connect \/ \E c \in Client : Send(c) \/ Leave(c)
    PROVE  HandledEventIsReady'
<1>1. UNCHANGED <<users_fd_map, events, nfds, pc>>
  BY DEF Connect, Send, Leave, loop
<1>2. \A d \in users_fd_map \cup {listener} : Ready(d) => Ready(d)'
  <2> SUFFICES ASSUME NEW d \in users_fd_map \cup {listener}, Ready(d)
               PROVE  Ready(d)'
    OBVIOUS
  <2>1. CASE Connect
    BY <2>1 DEF Connect, Ready, TypeOK
  <2>2. ASSUME NEW c \in Client, Send(c)
        PROVE  Ready(d)'
    BY <2>2 DEF Send, Ready, TypeOK
  <2>3. ASSUME NEW c \in Client, Leave(c)
        PROVE  Ready(d)'
    BY <2>3 DEF Leave, Ready, TypeOK
  <2> QED
    BY <2>1, <2>2, <2>3
<1> QED
  BY <1>1, <1>2 DEF HandledEventIsReady, HandledEvent

\* A wait returns events or fails; the crash is one of its outcomes later.
WaitReturned == pc = "process_connections" => nfds > 0 \/ nfds = -1

LEMMA ReturnedStep == WaitReturned /\ [Next]_vars => WaitReturned'
<1> SUFFICES ASSUME WaitReturned, [Next]_vars
             PROVE  WaitReturned'
  OBVIOUS
<1>1. CASE UNCHANGED vars
  BY <1>1 DEF vars, loop, WaitReturned
<1>2. CASE Connect \/ \E c \in Client : Send(c) \/ Leave(c)
  BY <1>2 DEF Connect, Send, Leave, loop, WaitReturned
<1>3. CASE epoll_wait
  <2>1. \E n \in 1 .. MAX_EVENTS : nfds' = n
    BY <1>3 DEF epoll_wait
  <2> QED
    BY <2>1, EventsAssumption DEF WaitReturned
<1>4. CASE Interrupted
  BY <1>4 DEF Interrupted, WaitReturned
<1>5. CASE process_connections
  BY <1>5 DEF process_connections, WaitReturned
<1> QED
  BY <1>1, <1>2, <1>3, <1>4, <1>5 DEF Next

LEMMA ReadyStep ==
    TypeOK /\ WaitReturned /\ HandledEventIsReady /\ [Next]_vars
        => HandledEventIsReady'
<1> SUFFICES ASSUME TypeOK, WaitReturned, HandledEventIsReady, [Next]_vars
             PROVE  HandledEventIsReady'
  OBVIOUS
<1>1. CASE UNCHANGED vars
  BY <1>1 DEF vars, kernel, loop, HandledEventIsReady, HandledEvent, Ready
<1>2. CASE Interrupted
  BY <1>2 DEF Interrupted, HandledEventIsReady
<1>3. CASE process_connections
  BY <1>3 DEF process_connections, HandledEventIsReady, WaitReturned
<1> QED
  BY <1>1, <1>2, <1>3, ReadyKept, WaitReports DEF Next

\* What is handled after a wait that returned events is the listener or a
\* connected client, and neither accept nor recv blocks; where the process crashed,
\* the wait before had been interrupted.
THEOREM EventsAreReady == Spec => []HandledEventIsReady
<1>1. Init => HandledEventIsReady /\ WaitReturned
  BY DEF Init, HandledEventIsReady, WaitReturned
<1> QED
  BY <1>1, LoopTypeCorrect, ReturnedStep, ReadyStep, PTL DEF Spec
-----------------------------------------------------------------------------
(* The ready list *)

LEMMA ListedKeeps ==
    ASSUME ListOK, NEW d
    PROVE  /\ ToSet(rdllist) \subseteq ToSet(Listed(d))
           /\ d \in Watched => d \in ToSet(Listed(d))
<1>1. CASE d \in Watched \ ToSet(rdllist)
  <2>1. Listed(d) = Append(rdllist, d) /\ d \notin Range(rdllist)
    BY <1>1 DEF Listed, Watched, ToSet, Range
  <2>2. rdllist \in Seq(Watched) /\ IsInjective(rdllist) /\ d \in Watched
    BY <1>1 DEF ListOK
  <2>3. Range(Append(rdllist, d)) = Range(rdllist) \cup {d}
    BY <2>1, <2>2, AppendOnce
  <2> QED
    BY <2>1, <2>3 DEF ToSet, Range
<1>2. CASE ~(d \in Watched \ ToSet(rdllist))
  BY <1>2 DEF Listed, Watched
<1> QED
  BY <1>1, <1>2

\* A wait takes nothing off the list but what is not ready.
LEMMA WaitKeepsReady ==
    ASSUME ListOK, NEW n \in Nat \ {0},
           NEW place \in [1 .. n -> DOMAIN rdllist], WaitTakes(n, place),
           NEW d \in ToSet(rdllist), Ready(d)
    PROVE  d \in ToSet(rdllist')
<1> DEFINE list == rdllist
           last == IF n = MAX_EVENTS THEN place[n] ELSE Len(list)
           rest == SubSeq(list, last + 1, Len(list))
           reported == [i \in 1 .. n |-> list[place[i]]]
<1>0. /\ list \in Seq(Watched) /\ Len(list) \in Nat /\ DOMAIN list = 1 .. Len(list)
      /\ \A i \in 1 .. n : place[i] \in 1 .. Len(list)
  BY DEF ListOK
<1>1. /\ Range(place) = {p \in 1 .. last : Ready(list[p])}
      /\ rdllist' = rest \o reported
  BY DEF WaitTakes
<1>2. PICK p \in 1 .. Len(list) : list[p] = d
  BY <1>0 DEF ToSet
<1> HIDE DEF list
<1>3. last \in 1 .. Len(list)
  <2>1. n \in 1 .. n
    OBVIOUS
  <2> QED
    BY <1>0, <1>2, <2>1
<1> HIDE DEF last
<1>4. /\ reported \in Seq(Watched) /\ Len(reported) = n
      /\ \A i \in 1 .. n : reported[i] = list[place[i]]
  BY <1>0
<1>5. /\ rest \in Seq(Watched) /\ Len(rest) = Len(list) - last
      /\ \A i \in 1 .. Len(list) - last : rest[i] = list[last + i]
  BY <1>0, <1>3, Behind
<1> HIDE DEF rest, reported
<1> DEFINE r == rest \o reported
<1>6. /\ Len(r) = Len(rest) + n /\ DOMAIN r = 1 .. Len(rest) + n
      /\ \A i \in 1 .. Len(rest) : r[i] = rest[i]
      /\ \A i \in 1 .. n : r[Len(rest) + i] = reported[i]
  <2>1. /\ r \in Seq(Watched) /\ Len(r) = Len(rest) + Len(reported)
        /\ \A i \in 1 .. Len(rest) + Len(reported) :
               r[i] = IF i <= Len(rest) THEN rest[i]
                      ELSE reported[i - Len(rest)]
    <3>1. rest \in Seq(Watched) /\ reported \in Seq(Watched)
      BY <1>4, <1>5
    <3> QED
      BY <3>1, ConcatProperties, Zenon
  <2>2. Len(rest) \in Nat /\ Len(reported) = n
    BY <1>4, <1>5
  <2> HIDE DEF r
  <2>3. /\ \A i \in 1 .. Len(rest) :
               i \in 1 .. Len(rest) + n /\ i <= Len(rest)
        /\ \A i \in 1 .. n : /\ Len(rest) + i \in 1 .. Len(rest) + n
                             /\ ~(Len(rest) + i <= Len(rest))
                             /\ (Len(rest) + i) - Len(rest) = i
    BY <2>2
  <2> QED
    BY <2>1, <2>2, <2>3
<1> HIDE DEF r
<1>7. \E i \in DOMAIN r : r[i] = d
  <2>1. CASE p <= last
    <3>1. p \in Range(place)
      BY <1>1, <1>2, <1>3, <2>1
    <3>2. PICK i \in 1 .. n : place[i] = p
      BY <3>1 DEF Range
    <3>3. r[Len(rest) + i] = d /\ Len(rest) + i \in DOMAIN r
      BY <1>0, <1>2, <1>3, <1>4, <1>5, <1>6, <3>2
    <3> QED
      BY <3>3
  <2>2. CASE p > last
    <3>1. /\ p - last \in 1 .. Len(list) - last /\ last + (p - last) = p
          /\ p - last \in 1 .. Len(rest)
      BY <1>0, <1>3, <1>5, <2>2
    <3>2. r[p - last] = d /\ p - last \in DOMAIN r
      BY <1>2, <1>3, <1>5, <1>6, <3>1
    <3> QED
      BY <3>2
  <2> QED
    BY <1>0, <1>3, <2>1, <2>2
<1> QED
  BY <1>1, <1>7 DEF r, ToSet

LEMMA NetworkWakes ==
    ASSUME TypeOK, NoWakeupLost,
           Connect \/ \E c \in Client : Send(c) \/ Leave(c)
    PROVE  NoWakeupLost'
<1>0. ListOK /\ epfd' = epfd
  BY DEF TypeOK, ListOK, Watched, Connect, Send, Leave
<1> SUFFICES ASSUME NEW d \in Watched, Ready(d)'
             PROVE  d \in ToSet(rdllist')
  BY <1>0 DEF NoWakeupLost, Watched, Ready
<1>1. Ready(d) => d \in ToSet(rdllist)
  BY DEF NoWakeupLost, Watched
<1>2. CASE Connect
  <2>1. d # listener => Ready(d)
    BY <1>2 DEF Connect, Ready
  <2> QED
    BY <1>0, <1>1, <1>2, <2>1, ListedKeeps DEF Connect
<1>3. ASSUME NEW c \in Client, Send(c)
      PROVE  d \in ToSet(rdllist')
  <2>1. d # c => Ready(d)
    BY <1>3 DEF Send, Ready, TypeOK
  <2> QED
    BY <1>0, <1>1, <1>3, <2>1, ListedKeeps DEF Send
<1>4. ASSUME NEW c \in Client, Leave(c)
      PROVE  d \in ToSet(rdllist')
  <2>1. d # c => Ready(d)
    BY <1>4 DEF Leave, Ready
  <2> QED
    BY <1>0, <1>1, <1>4, <2>1, ListedKeeps DEF Leave
<1> QED
  BY <1>2, <1>3, <1>4

LEMMA WaitWakes ==
    ASSUME TypeOK, NoWakeupLost, epoll_wait
    PROVE  NoWakeupLost'
<1>1. PICK n \in 1 .. MAX_EVENTS : \E place \in [1 .. n -> DOMAIN rdllist] :
          WaitTakes(n, place)
  BY DEF epoll_wait, WaitTakes, Relisted
<1>2. /\ n \in Nat \ {0} /\ ListOK
      /\ UNCHANGED <<epfd, pending, gone, backlog>>
  BY <1>1, EventsAssumption DEF epoll_wait, TypeOK, ListOK, Watched
<1> SUFFICES ASSUME NEW d \in Watched, Ready(d)
             PROVE  d \in ToSet(rdllist')
  BY <1>2 DEF NoWakeupLost, Watched, Ready
<1>3. d \in ToSet(rdllist)
  BY DEF NoWakeupLost, Watched
<1> QED
  BY <1>1, <1>2, <1>3, WaitKeepsReady

LEMMA AcceptWakes ==
    ASSUME TypeOK, NoWakeupLost, handle_new_connection
    PROVE  NoWakeupLost'
<1>1. backlog \in Nat /\ ListOK
  BY BoundsAssumption DEF TypeOK, ListOK, Watched
<1>2. ASSUME NEW c \in Client \ users_fd_map, AcceptClient(c)
      PROVE  NoWakeupLost'
  <2>1. PICK n \in 0 .. MaxPending :
           /\ pending' = [pending EXCEPT ![c] = n]
           /\ \/ /\ epfd' = epfd \cup {c}
                 /\ rdllist' = IF n > 0 THEN Append(rdllist, c) ELSE rdllist
              \/ UNCHANGED <<epfd, rdllist>>
    BY <1>2 DEF AcceptClient
  <2>2. /\ backlog' = backlog - 1 /\ gone' = gone
        /\ c \notin epfd /\ c \notin gone /\ c # listener /\ c \in Client
    BY <1>2, DescriptorAssumption DEF AcceptClient, TypeOK
  <2>3. Range(Append(rdllist, c)) = Range(rdllist) \cup {c}
    <3>1. rdllist \in Seq(Watched \cup {c}) /\ c \in Watched \cup {c}
      BY <1>1 DEF ListOK
    <3> QED
      BY <3>1, AppendOnce
  <2>4. /\ ToSet(rdllist) \subseteq ToSet(rdllist')
        /\ epfd' # epfd /\ n > 0 => c \in ToSet(rdllist')
    BY <2>1, <2>3 DEF ToSet, Range
  <2> SUFFICES ASSUME NEW d \in epfd' \cup {listener}, Ready(d)'
               PROVE  d \in ToSet(rdllist')
    BY DEF NoWakeupLost
  <2>5. CASE d = c
    <3>1. pending'[c] = n
      BY <2>1, <2>2 DEF TypeOK
    <3>2. n > 0
      BY <2>2, <2>5, <3>1 DEF Ready
    <3> QED
      BY <2>1, <2>2, <2>4, <2>5, <3>2
  <2>6. CASE d # c
    <3>1. Ready(d) /\ d \in epfd \cup {listener}
      BY <1>1, <2>1, <2>2, <2>6 DEF Ready, TypeOK
    <3> QED
      BY <2>4, <3>1 DEF NoWakeupLost
  <2> QED
    BY <2>5, <2>6
<1>3. CASE RejectConnection \/ AcceptFails
  BY <1>1, <1>3 DEF RejectConnection, AcceptFails, kernel, NoWakeupLost, Ready
<1> QED
  BY <1>2, <1>3 DEF handle_new_connection

LEMMA ClientDataWakes ==
    ASSUME TypeOK, NoWakeupLost, NEW c \in users_fd_map, handle_client_data(c)
    PROVE  NoWakeupLost'
<1>0. c \in Client /\ c # listener /\ ListOK
  BY DescriptorAssumption DEF TypeOK, ListOK, Watched
<1>1. CASE Disconnect(c)
  <2>1. Range(rdllist') = Range(rdllist) \ {c}
    BY <1>0, <1>1, RemoveFirstOnce DEF Disconnect, ListOK
  <2> SUFFICES ASSUME NEW d \in epfd' \cup {listener}, Ready(d)'
               PROVE  d \in ToSet(rdllist')
    BY DEF NoWakeupLost
  <2>2. d # c /\ d \in epfd \cup {listener}
    BY <1>0, <1>1 DEF Disconnect
  <2>3. Ready(d)
    BY <1>1, <2>2 DEF Disconnect, Ready, TypeOK
  <2>4. d \in ToSet(rdllist)
    BY <2>2, <2>3 DEF NoWakeupLost
  <2> QED
    BY <2>1, <2>2, <2>4 DEF ToSet, Range
<1>2. CASE /\ pending[c] > 0 /\ pending' = [pending EXCEPT ![c] = @ - 1]
           /\ UNCHANGED <<users_fd_map, epfd, gone, backlog, rdllist>>
  BY <1>0, <1>2 DEF NoWakeupLost, Ready, TypeOK
<1> QED
  BY <1>1, <1>2 DEF handle_client_data

LEMMA WakeStep == TypeOK /\ NoWakeupLost /\ [Next]_vars => NoWakeupLost'
<1> SUFFICES ASSUME TypeOK, NoWakeupLost, [Next]_vars
             PROVE  NoWakeupLost'
  OBVIOUS
<1>1. CASE UNCHANGED vars
  BY <1>1 DEF vars, kernel, NoWakeupLost, Ready
<1>2. CASE Interrupted
  BY <1>2 DEF Interrupted, kernel, NoWakeupLost, Ready
<1>3. CASE process_connections
  <2>1. CASE HandledEvent = listener /\ handle_new_connection
    BY <2>1, AcceptWakes
  <2>2. CASE HandledEvent \in users_fd_map /\ handle_client_data(HandledEvent)
    BY <2>2, ClientDataWakes
  <2>3. CASE UNCHANGED <<users_fd_map, epfd, kernel>>
    BY <2>3 DEF kernel, NoWakeupLost, Ready
  <2> QED
    BY <1>3, <2>1, <2>2, <2>3 DEF process_connections
<1> QED
  BY <1>1, <1>2, <1>3, NetworkWakes, WaitWakes DEF Next

\* What is ready stays on the ready list, whatever the loop does with the one
\* event that it handles: no client and no connection is forgotten.
THEOREM WakeupsKept == Spec => []NoWakeupLost
<1>1. Init => NoWakeupLost
  BY DEF Init, NoWakeupLost, Ready
<1> QED
  BY <1>1, LoopTypeCorrect, WakeStep, PTL DEF Spec
-----------------------------------------------------------------------------
(* The crash *)

\* An event is handled after a wait that returned it.
WaitedFor == pc # "crashed" /\ (pc = "process_connections" => nfds > 0)

\* process_connections finds a client for the descriptor it handles, unless a
\* signal interrupts the wait: that one way to the crash is the only one.
THEOREM NoCrashUninterrupted == ~Interruptible => (Spec => [](pc # "crashed"))
<1> SUFFICES ASSUME ~Interruptible
             PROVE  Spec => [](pc # "crashed")
  OBVIOUS
<1>1. Init => WaitedFor
  BY DEF Init, WaitedFor
<1>2. WaitedFor /\ HandledEventIsReady /\ [Next]_vars => WaitedFor'
  <2> SUFFICES ASSUME WaitedFor, HandledEventIsReady, [Next]_vars
               PROVE  WaitedFor'
    OBVIOUS
  <2>1. CASE UNCHANGED vars
    BY <2>1 DEF vars, loop, WaitedFor
  <2>2. CASE Connect \/ \E c \in Client : Send(c) \/ Leave(c)
    BY <2>2 DEF Connect, Send, Leave, loop, WaitedFor
  <2>3. CASE epoll_wait
    <3>1. \E n \in 1 .. MAX_EVENTS : nfds' = n
      BY <2>3 DEF epoll_wait
    <3>2. nfds' > 0 /\ pc' = "process_connections"
      BY <2>3, <3>1, EventsAssumption DEF epoll_wait
    <3> QED
      BY <3>2 DEF WaitedFor
  <2>4. CASE Interrupted
    BY <2>4 DEF Interrupted
  <2>5. CASE process_connections
    BY <2>5 DEF process_connections, WaitedFor, HandledEventIsReady
  <2> QED
    BY <2>1, <2>2, <2>3, <2>4, <2>5 DEF Next
<1>3. WaitedFor => pc # "crashed"
  BY DEF WaitedFor
<1>4. Spec => []HandledEventIsReady
  BY EventsAreReady
<1> QED
  BY <1>1, <1>2, <1>3, <1>4, PTL DEF Spec
=============================================================================
