# c-irc-server in TLA+

A verification project for the IRC server in `src/`: TLA+ modules translated from
the C source, TLC runs over small instances, and TLAPS proofs that hold for any
number of clients, nicknames and channels, for any size of the receive buffer, any
number of events per wait and any hash function.

The server is one thread. `main` waits on epoll and handles one ready descriptor at
a time, to its end: it accepts a client, or receives what a client sent and handles
the complete lines in it one after the other. There are no locks and no threads;
what is hard is the *bookkeeping*. Every fact is stored two or three times, in hash
tables and linked lists of C pointers, and each of some twenty handlers, in any order
the clients choose, has to leave them in agreement, through renames, quits, hang-ups,
descriptors that are closed and handed out again, and allocations that fail.

## 1. Inventory

| Component | State | Operations | What makes it correct |
|---|---|---|---|
| User table, `user.c` | `users_fd_map`, `users_nick_map`, `struct User` with its `joined_channels`, three counters | add, delete, rename, set username, away, operator; add and remove a channel; `users_share_channel` | a nickname finds its present owner and nobody else; no freed struct in a table; counters equal what they count |
| Channel table, `channel.c` | `channels_map`, `struct Channel` with `user_list` (member, op flag, voice flag), topic, modes `m` and `t`, two counters | create, delete, join, part, add and remove a member, send to all members | `user_list` and `joined_channels` agree; a channel vanishes with its last member |
| Command handlers, `command.c` | none | NICK, USER, PRIVMSG, NOTICE, JOIN, PART, TOPIC, OPER, AWAY, MODE, QUIT, WHOIS, WHO, NAMES, LIST, LUSERS, MOTD, PING, unknown | registration gates them; modes, flags and protected topics change only by authority; `+m` is enforced; members are told; no PRIVMSG is swallowed |
| Connections, `network.c` | epoll interest set, `is_dead` | accept, receive, hang up, disconnect after QUIT | nothing is sent to a closed descriptor; the next owner of a descriptor inherits nothing; QUIT disconnects |
| Line framing, `network.c`, `handle_user_msg` | `user_buf`, `buf_len` | receive, find the last newline, move the rest, split into lines, hang up | the lines handled do not depend on how the bytes were split into reads; no complete line is lost or waits |
| Event loop, `main.c` | `events[10]` | `epoll_wait`, `process_connections` | what is handled is ready; a client is served though only the first event of a wait is looked at |
| Replies, `messages.h`, `utils.c` | none | `format_reply`, `send_string` | the right reply to the right client |
| Hash tables, `lib/hashmap.h` (uthash) | handles with two linked lists, buckets, tail, expansion | `HASH_ADD`, `HASH_FIND`, `HASH_DEL`, `HASH_ITER` | an ordered map: what was added and not deleted is found, in the order of addition |

How they interact: the event loop calls `handle_new_connection` (adds to the user
table and the interest set) or `handle_client_data`, which passes complete lines to
`handle_user_msg`; that dispatches to the handlers, which change the two tables and
send at once. The tables point into each other: a `UserNode` of a channel points to a
`struct User`, a `ChannelNode` of a user to a `struct Channel`, and `users_nick_map`
shares its structs with `users_fd_map`. `del_from_users` calls back into `channel.c`
for each channel, which may delete it.

What is hard to test, with the line where it bites, is the list `hazards` of
`PROJECT.json`. The main groups:

- **Interleaving and order of commands** of several clients: a nickname released by a
  rename, a quit or a hang-up and taken by another client; operator flags that come
  and go between a member's lines; lines that follow QUIT in the same batch and are
  still handled by a client marked dead.
- **Stale state**: a freed struct left in a table, and `close` before
  `del_from_users`, with `accept` free to return the same descriptor next.
- **Partial failure**: `join_channel` makes the channel before the member; `malloc`
  fails between the two. `epoll_ctl` fails after the client is in the tables.
- **Counters kept by hand** in six places.
- **A stream in pieces**: TCP delivers any part of what was written; the buffer is a
  fixed array in which older bytes stay behind the newer ones.
- **Waiting**: one event of ten is handled per wait, and the result of the wait is not
  tested.
- **Progress**: QUIT only sets a flag; another function has to act on it, in two
  copies of the same code.

## 2. Modules

Four specifications, each of them composed or checked against an abstract one.

The server proper. Each module EXTENDS the one above it.

| Module | Models |
|---|---|
| `UserTable` | `user.c` over `struct User` |
| `ChannelTable` | `channel.c` over `struct Channel`, and `del_from_users`, which needs both tables |
| `Replies` | what is sent: message records, `channel_message_users`, the shapes of an early return |
| `UserCommands` | NICK, USER, OPER, AWAY, MODE on a nickname, QUIT |
| `ChannelCommands` | JOIN, PART, TOPIC, MODE on a channel |
| `MessageCommands` | PRIVMSG, NOTICE, WHOIS, WHO, NAMES, LIST: the handlers that only send |
| `IrcServer` | connections, the batch, the dispatch: `Init`, `Next`, `Spec`, `FairSpec` |
| `ChatService` | the abstract specification: who is online, who owns a name, who is admitted, who is in which room |
| `IrcServerProperties` | every property, and the refinement mapping to `ChatService` |
| `MCIrcServer` | the instance TLC checks (adds the symmetry set) |
| `IrcServerProofs` | what a line does to the tables, the inductive invariant, the theorems about the tables |
| `ServiceProofs` | registration, the ends of a connection, the refinement of `ChatService` |
| `RepliesProofs` | who is sent what, who may change a channel, and who is told |
| `CountersProofs` | the counters |

What it stands on. `IrcServer` takes three things for granted that these show: that the
batches it handles are the lines a client wrote, that ready descriptors get their turn,
and that tables find what was put into them.

| Module | Models |
|---|---|
| `LineFraming` | `handle_client_data` and the splitting of `handle_user_msg`, for one connection: the bytes and the buffer |
| `LineStream` | the abstract specification: a stream handed over line by line, with no buffer |
| `MCLineFraming`, `LineFramingProofs` | its instance for TLC; its theorems |
| `EventLoop` | `main` and `process_connections` over the ready list of epoll |
| `MCEventLoop`, `EventLoopProofs` | its instance; its theorems |
| `HashTable` | `lib/hashmap.h`: the operations the server uses, pointer by pointer |
| `OrderedMap` | the abstract specification: the elements in the order of addition |
| `MCHashTable`, `HashTableProofs` | its instance; its theorems |
| `ListLemmas` | lemmas for all proofs: lists without repetition (`joined_channels`, the ready list, a chain of a bucket), concatenation, induction and recursive functions |

How the state corresponds to the code:

- A client is its descriptor, the key of `users_fd_map`. `user[u]` is its struct,
  `joined_channels[u]` the sequence of its channels in insertion order, which is how
  uthash keeps them. `users_nick_map` maps a nickname to its owner or to `NULL`.
- `channel[c]` is `struct Channel`; `user_list` is a set, since only the order of
  lines in NAMES and WHO depends on the list order, and the flags `channel_op` and
  `channel_voice` of the `UserNode`s are subsets of the clients. The structs of
  descriptors and names that are not in the tables have their initial value.
- `users_share_channel` and `relay_nick_change` step along `hh.hh_next`, the chain of
  a hash bucket, and not `hh.next`, the insertion order. Items are put at the front of
  a chain and `joined_channels` points to the oldest item, so the walk sees that item
  and ends: `HhNextWalk`. That this is so until uthash expands the table (a bucket of
  `HASH_BKT_CAPACITY_THRESH` = 10 items), whatever was deleted in between, is
  `OldestEndsChain` of `HashTable`. `expanded` is the set of clients whose table was
  expanded: a join that makes ten channels or more may expand it or not, as the hash
  values of the names decide, and the deletion of the last channel frees it. In an
  expanded table the oldest item may have a successor (`WalkMayRunOff`). `hh_next` points
  to a handle inside an element and is read as a pointer to the element, and the word
  found there as its `channel_info` is no pointer to a channel: the process ends. These
  are `CrashInNick`, `CrashInQuit` and `CrashInWho`, the three commands that walk, with
  what was sent before; `crashed` is then true and the tables stay, in the model, as the
  line before left them. Whether the walk ends well or badly is a choice, so that both
  outcomes are in every behaviour.
- One line is one step, `handle_user_msg`: a handler runs to its end before anything
  else happens. `active` is the client whose batch is being handled; between
  `BeginBatch` and `EndBatch` no other client acts, as in `handle_client_data`.
- What follows the batch exists twice in `network.c`, for a buffer that ends with its
  newline (lines 207-216, `EndWholeBatch`) and for one that also holds the start of a
  line (lines 227-240, `EndFragmentedBatch`). `EndBatch` may take either, and each has a
  mutant in which it alone forgets `is_dead`. `EndWhole` and `EndFragmented` are the same
  two places in `LineFraming`, where the bytes decide between them.
- `sent` holds the messages of the last step: recipient, command or numeric, the user
  it is about, its target.
- `AllocMayFail` lets `malloc` and `strdup` in `create_channel`, `malloc` in
  `channel_add_user`, `strdup` in `channel_set_topic` and `epoll_ctl` fail at any time;
  a failure in `add_to_users` closes the new connection and changes nothing. Where the
  code dereferences the null pointer (`user_add_channel`, the nickname in
  `set_user_nick`) the process ends, and so does the model. Left out are the failures
  of `strdup` for the user and real name and the away message: they lose a text that is
  not modelled (and a user whose two names were both lost may send USER again).
- MODE compares a nickname with the sender's by `strcasecmp`, the nickname table
  compares bytes. `SameNick` is the set of pairs of nicknames that differ in case at
  most; the runs take no two nicknames, or (in `modes`) all, for spellings of one.

In the other modules:

- `LineFraming` keeps all bytes a client has written (`sent`), how many `recv` has
  returned (`nread`), the array `user_buf` with its last cell, and the strings
  `handle_user_msg` was called with (`handed`). `recv` returns any number of bytes that
  have arrived and fit. The array is kept whole, stale bytes included: it starts with an
  arbitrary byte in the cell `add_to_users` does not clear. `handle_client_data` is one
  action with its branches: a failing `recv` (`HangUp`), no newline (`KeepAll`), a batch
  that ends with its newline, or with a NUL (`EndWhole`), a batch with a rest
  (`EndFragmented`). After a QUIT both free the client (`Disconnect`), each by a test of
  its own; else the first clears the buffer (`ClearBuffer`) and the second moves the rest
  to its front (`KeepRest`). `Lines` is `strtok_r`.
- `LineStream` has no buffer and no reads. A step hands over the bytes up to some
  newline; a connection is closed for a reset, for a client that has closed and has no
  complete line left, for a line longer than `Limit`, or for a QUIT.
- `EventLoop` abstracts data to buffersful, what one `recv` takes. `rdllist` is epoll's
  ready list (external, after `epoll_wait(2)`: level-triggered, taken from the front and
  put back at the end). `events` is the array of `main`, which keeps its contents when a
  wait is interrupted (`Interrupted`; EINTR needs no handler, SIGSTOP and SIGCONT will
  do). Only `HandledEvent`, its first element, is handled. A blocking `recv` or `accept`
  on a descriptor that is not ready is an action that is not enabled. The array is
  declared in the loop and never initialised; it is one place on the stack of `main`,
  so that it holds what the last wait wrote, and before the first wait anything that is
  not the descriptor of a client.
- `HashTable` names elements by their keys. The four pointers of the handles are the
  functions `prev`, `next`, `hh_prev` and `hh_next`; `tbl` is the table, `buckets` its
  array, `head` the pointer the program keeps. What the macros of `hashmap.h` do to a
  bucket takes and returns the part they write, the array with `hh_prev` and `hh_next`
  (`Chains`). The hash function is a parameter: `hashv` is one of `HashFunctions`.
  `el` and `temp` are the variables of `HASH_ITER` in `user_remove_all`, whose body runs
  between two steps of the loop.

Abstracted: the wording of replies and their truncation to 512 bytes, user, host and
real names and the text of messages, away messages and comments of PART and QUIT
(whether they are set, or given, is kept), and how many names fit in one line of NAMES.

Operators whose comment begins with `Slip:` are variants of the operator below them
with a plausible mistake in it. Nothing uses them in the specification. Each is paired
in `PROJECT.json` (`mutants`) with a property that fails when it takes the place of
the original, which shows that the property constrains that code.

## 3. Runs

The runs over `MCIrcServer` have a constant `Commands`, which chooses the commands the
clients of an instance send, so that each run can afford more clients or more channels
on the commands its question is about; all other steps (connecting, batches, hang-ups)
are in every run.

| Run | Instance | Shows |
|---|---|---|
| `channels` | 3 descriptors, 3 nicknames, 2 channels, NICK USER JOIN PART WHO QUIT, a table of two channels may be expanded | the nickname table finds exactly the present owner; both sides of a membership agree; no channel without members; the counters are exact; a new nickname and a QUIT are told to clients of a common channel only, also by a walk that ends in a crash; a client that quit is gone before another is served; nothing is sent to a closed descriptor; every client is watched; a reused descriptor starts clean; joins and parts are announced to every member; `ImplementsService` |
| `modes` | 2 descriptors, 1 channel, NICK USER JOIN PART TOPIC OPER MODE AWAY and PRIVMSG with NOTICE, `MaxOperCount` = 2 | modes, flags and a protected topic change only by somebody with authority; in a `+m` channel only operators and voiced members are heard; nobody is registered, operator or in a channel without both names; a PRIVMSG is delivered or answered; the operator count does not fall below the operators when OPER is repeated, taken back by MODE -o and ended by a hang-up |
| `failures` | 2 descriptors, 2 channels, NICK USER JOIN PART TOPIC QUIT and the queries, `AllocMayFail`, `FairSpec` | after any failed allocation both sides of a membership agree and the counters are exact; the empty channel that a failed JOIN leaves behind is as it was created, and only such a channel is empty; a channel that loses its last member is deleted by that step all the same; a client that `epoll_ctl` failed to watch has nothing but its descriptor, for ever; a client that quit is disconnected |
| `framing` | a buffer of 3 bytes, 5 bytes written over LF, CR, NUL and a letter | the buffer holds the bytes behind the lines handled, and no complete line; the lines handled are those of the stream; `ImplementsLineStream`; a complete line is handled as long as the event loop comes back to the descriptor |
| `event_loop` | 3 clients and the listener, 2 events per wait, interrupted waits, failing accepts | what is handled after a wait that returned events is ready and has a struct, and only an interrupted wait leads to a crash; what is ready is on the ready list; a client with data or a hang-up is handled once the others are silent |
| `hash_table` | 6 elements, 2 buckets at first, 3 elements fill one, 3 hash functions | the checks of `HASH_FSCK`; lookups after expansions; the oldest element ends its chain; chains are bounded; `HASH_ITER` with deletion; `ImplementsOrderedMap` |

Bounds of the server, and why they are enough. Three clients are what a conflict
between two and a witness needs (a nickname released by one, taken by a second and asked
for by a third; a member that is told while two come and go). Three nicknames let each
client have one, and a client rename itself while the others keep theirs. Two channels
are needed for anything that depends on which channel was joined first.
`HASH_BKT_CAPACITY_THRESH` is 2 in `channels`, so that two channels expand a table and
the crashes are reached; in the other runs it is 10, as in `hashmap.h`, and no table is
expanded. Descriptors are reused at once, as the kernel reuses them, so that a second
life of a descriptor is reached by every run. `MaxOperCount` is a bound in the guard of OPER: it bounds
`operator_user_count`, which repeated OPER commands otherwise increase for ever; with 2,
in `modes`, two clients can be counted, or one of them twice, with MODE -o and hang-ups
in between; no other passing run has OPER. No other quantity is cut off: the number of
commands in a batch, and of batches, is unbounded. Symmetry of clients and
nicknames is used where no fairness is involved (`channels`, `modes` and the findings
over `MCIrcServer`).

Bounds of the others. A buffer of three bytes holds a line with its end, is filled
by three letters, and with five bytes is filled a second time after a rest was moved;
`MaxSent` bounds what a client writes, and the theorems need no bound. Three clients and
a listener are more than two events per wait can hold, so that the ready list turns;
`MaxPending` and `MaxBacklog` are 1, as more data only keep a client ready longer, which
it can also be by sending again. Six elements fill two buckets that were split at
three, so that a table is expanded twice; one of the hash functions makes both
expansions useless (`noexpand`). `MaxBuckets` bounds the buckets, which grow with every
expansion until the table is empty.

Deadlock is checked except where the instance really ends (the end of the process by a
crash is the stuttering `Terminated` of `IrcServer`): in `failures` every
descriptor may be that of a client that epoll does not watch; in `framing` the
client writes a bounded number of bytes; in `event_loop` the process may have crashed or
wait for a stale descriptor, and in its finding its client may fall silent.

Fairness. `FairSpec` of `IrcServer` adds weak fairness of `EndBatch`. It is justified by
the code: a batch is at most `BUF_SIZE` = 512 bytes, so `strtok_r` finds finitely many
lines in it, no handler waits, and every loop in a handler walks a finite list. The
assumption this makes on the outside is that `send` returns; it is a blocking call
(section 6). No fairness is assumed of clients.

`FairSpec` of `EventLoop` says that the loop runs whenever it can: one thread, with
nothing else to do. `ClientsServed` holds under three conditions that it names
(`Undisturbed`), and TLC finds a counterexample without any one of them: the others fall
silent, the process does not stay without a descriptor while a connection waits, and the loop does
not stay in a blocking `recv` for the stale descriptor of an interrupted wait.

No fairness is assumed in `LineFraming`. `main.c:73` promises no client that it is looked
at while it is readable, as the finding on `events[0]` shows, and a fair
`handle_client_data` would assume just that. `LinesHandledIfLookedAt` therefore carries
the condition in itself, `LookedAtWhileReadable`, and says what the framing owes in
return: a descriptor that is looked at again and again gets each of its complete lines
handled, and none is left waiting in the buffer for bytes that need not come.
`ClientsServed` says when the event loop keeps its side.

`QuitCompletes` is fulfilled by a crash, too: a line behind QUIT in the same batch may be
one that walks.

`ImplementsService` is the refinement. `ChatService` knows no tables, structs or
counters: a client that is online owns names and is in rooms, and each step is one
client taking a free name (and so releasing its old one), completing its names,
entering a room once it has them, leaving one, or departing, which takes all that it
has at once. That each step of the server changes only what belongs to the one client
whose line is being handled, or is no step at all for an observer of the service, is
what the mapping of the tables shows.

`ImplementsLineStream` is the second refinement. What `LineStream` says of a step (which
bytes were handed over, and why the connection was closed) is free of reads and of the
buffer, so each read the network may produce has to be one of its steps, or none. Its
`upto`, the part of the stream that is dealt with, is what was read less what is in the
buffer. The specification is exact about the two places where bytes are lost: a line
longer than the buffer, and everything in the buffer behind a NUL.

`ImplementsOrderedMap` is the third; `items` is the walk along `next` from `head`.

## 4. Disagreements between the code and what it says

Six runs (`Finding*.cfg`) check sentences of the sources that the code does not keep.
TLC finds a counterexample for each.

| Run | The source says | The code does |
|---|---|---|
| `finding_hh_next` | `user.h:38`: true if the two share a common channel. `user.c:229`: NICK is relayed to all channels joined | only the first channel joined is looked at (`hh_next`, `user.c:151` and `user.c:248`): QUIT is not sent to users of the others, WHO lists them, and they do not learn the new nickname |
| `finding_server_operator` | `structs.h:66`: while `+m` is set only users with voice mode may send. `structs.h:67`: while `+t` is set only a channel operator sets the topic | a server operator without any flag in the channel does both (`command.c:76`, `command.c:746`). Channel operators speak as well, which `structs.h:66` does not say but `messages.h:382` does |
| `finding_oper_count` | `user.h:79`: the number of operators currently active | OPER sent again is counted again (`command.c:816`) |
| `finding_part_silent` | `channel.h:18`: ERR_NOSUCHCHANNEL if the channel is not found | an early return for NULL (`channel.c:266`) makes that branch unreachable: no answer |
| `finding_notice_answered` | `command.c:151`: NOTICE suppresses any replies | ERR_CANNOTSENDTOCHAN to a non-member does not test `is_notice` (`command.c:68`) |
| `finding_reported_clients` | `main.c:71`: iterate through connections within the set of poll fds looking for data to read | only `events[0]` is handled (`main.c:73`), and while at most ten descriptors are ready the order of the next wait is the same. In the run a client holds the only descriptor the process may have and another connection waits: `accept` fails with EMFILE for ever (`AcceptFails`), every wait reports the listener first and the client second, and the client, which has hung up or sent data, is never looked at and so never frees its descriptor |

All of this is in the model as the code has it, so the passing runs and
the proofs are about the program as it is: `OperCountCovers`, for instance, is what
remains true of the operator count, and `ModeratedSpeech` and `ChannelAuthority` count
server operators among those with authority, because the code does.

## 5. Proofs

Four modules prove, for every value of the constants that satisfies the named
assumptions (`NamesAssumption`, `ThresholdAssumption`, `TopicAssumption`,
`UserCommandsAssumption`, `AllocAssumption`), that `Spec` of `IrcServer` implies the
following at all times, or at every step:

| Module | Theorem | Property |
|---|---|---|
| `IrcServerProofs` | `TypeCorrect` | `TypeOK` |
| | `NicknamesConsistent` | `NickTableConsistent` |
| | `MembershipConsistent` | `MembershipAgrees` |
| | `EmptyChannelsDeleted` | `NoEmptyChannel` |
| | `EmptiedAreDeleted` | `EmptiedChannelsDeleted` |
| | `ConnectionsConsistent` | `ConnectionsWatched` |
| | `UnwatchedStayNew` | `UnwatchedAreNew` |
| `ServiceProofs` | `QuittersActive` | `QuittersAreActive` |
| | `QuitIsFinal` | after QUIT a client stays marked, and its batch the one handled, until the step that disconnects it |
| | `ClientsStartFresh` | `FreshStart` |
| | `RegistrationGuards` | `RegistrationGate` |
| | `TablesImplementService` | `ImplementsService` |
| | `JoinedChannelsAreAMap` | every step adds to the channels of a client one that is not there, deletes one that is, or frees the client |
| | `FewChannelsNeverCrash` | the server does not crash as long as every client is in fewer channels than make uthash expand a table |
| | `NicknamesAreNotTakenOver` | in one step a nickname in the table keeps its owner or is released |
| `RepliesProofs` | `OnlyClientsAreSentTo` | `NoSendToClosedFd` |
| | `ModerationHolds` | `ModeratedSpeech` |
| | `OnlyCompanionsAreTold` | `RelaysReachCompanions` |
| | `OnlyChannelSharedRightly` | `users_share_channel` and `relay_nick_change` are right about a client in one channel at most |
| | `NoPrivmsgIsSwallowed` | `PrivmsgAccounted` |
| | `AuthorityRequired` | `ChannelAuthority` |
| | `ChangesOfMembersTold` | `MembershipAnnounced` |
| `CountersProofs` | `CountersCorrect` | `CountersExact` |
| | `OperatorsCovered` | `OperCountCovers` |
| | `OperatorsExactUnlessGrantedAgain` | the operator count is exact if no operator sends OPER again |

These include all the safety properties, and the refinement, that the runs over
`MCIrcServer` check. Four theorems say how far a finding of section 4 reaches:
`OnlyChannelSharedRightly` that the one about `hh_next` takes a client with a second
channel, `OperatorsExactUnlessGrantedAgain` that the operator count goes wrong by a
repeated OPER and by nothing else, not by MODE -o, a QUIT or a hang-up in any order
(its hypothesis, that no step is `GrantedAgain`, is kept by every client that sends OPER
once, and a client may become an operator again after MODE -o), and
`FewChannelsNeverCrash` that the walk runs off its chain for nobody until somebody is in
that many channels. `NoCrashUninterrupted`, below, is the fourth.

The argument. Some forty branches of handlers can follow one another, but they change
the tables in few ways. `LineEffects` classifies them: a line leaves the tables alone,
changes one struct without touching its nickname, renames, joins, abandons a join,
parts, or replaces one channel by one with the same members and flags of members.
Each way comes with the guard under which it happens, and each later lemma goes
through these ways instead of through the handlers. `TableStep` adds connection and
disconnection. A line that crashes changes no table (`CrashFrame`); of it only what it
sent, and what it needs in order to happen, is left to show. Then

    IInv == TypeOK /\ ConnectionsWatched /\ ChannelInv /\ NickTableConsistent

is inductive (`IInvInit`, `IInvStep`), `ChannelInv` being `MembershipAgrees`,
`NoEmptyChannel` and `FlagsOfMembers`, which says that operator and voice flags are
those of members; it is of use to the proofs only, since in C the flags are fields of
the member's node. Why each part is needed: `ConnectionsWatched`
gives that the client whose line is handled is connected, without which a join would
put a stranger on a member list and a rename one in the nickname table.
`MembershipAgrees` needs its three parts together: disconnection cleans the channels
of `joined_channels` only, so that a member that is not in that sequence would stay,
and PART removes one occurrence, so that the sequence must have no second.
`NickTableConsistent` carries the direction from the struct to the table, because
disconnection deletes by struct and a lookup is by nickname; with it, MODE on a member
and a PRIVMSG have a recipient that exists, which the type of `sent` needs.
`FlagsOfMembers` needs the guard of `+o` and `+v`, that the member is on the list.

`EmptiedChannelsDeleted` is a property of steps, shown of each way a channel changes
(`ChannelEffectLeavesNoneEmpty`): together with `NoEmptyChannel` it says that the empty
channel a failed JOIN leaves is the only one there is. `UnwatchedAreNew` holds since only
the client whose line is handled gets another struct or another channel, and that one is
watched (`UnwatchedStep`).

What the other modules add to `IInv`:

- `ServiceProofs`. `QuittersAreActive` needs nothing but the frame of each way
  (`UserEffectOnStructs`): only the client whose line is handled gets another struct.
  `QuitIsFinal` follows from it: while a client is marked, the only steps are lines of
  its own batch, which leave the mark, and the end of the batch. It is the part of
  `QuitCompletes` that needs no fairness.
  `RegistrationGate` is inductive together with `IInv`; `Gated` is what it says of one
  struct, `UpdateIsGated` that `UpdateAndRegister` keeps it, in whichever order the two
  names come. The refinement needs it in turn: `Introduce`, the step that admits
  a client to the service, requires that it owns a name, which
  `RegisteredAfterUserEffect` gets from the gate and `NickTableConsistent`. For the
  memberships there are three ways, no change (`ListsKept`), one channel more or one
  less (`ListsJoined`, `ListsLeft`), and a disconnection is `Depart`, which takes name
  and memberships in one step because `MembershipAgrees` makes the channels of
  `joined_channels` all there are.
- `RepliesProofs`. Every recipient a handler can name comes from a member list or from
  the nickname table, and both hold connected clients only (`TablesFindConnected`).
  `Plain` sets of messages go to connected clients and are no speech, no NICK and no
  QUIT; every handler but those of PRIVMSG, NOTICE, NICK and QUIT sends only these
  (`OtherLinesPlain`). NICK and QUIT go where the walk along `hh_next` leads, which is to
  a channel of the sender, though not to each, and `MembershipAgrees` makes the members
  of it companions (`CompanionsTold`, from `NickRelayTold` and `QuitRelayTold`). What a
  line has sent before it crashes is a part of that (`CrashSendsAllowed`), so that the
  theorem also covers tables with ten channels and more. The
  recipients are compared with the user table after the step, which a line does not
  change (`LineFrame`). As to authority, a step that adds or removes a member leaves
  modes, topic and the flags of those that stay (`Untouched`), by `FlagsOfMembers`; the
  first member's operator flag is allowed because the list was empty. The other ways
  carry their guards. Every change of a member list with the client still connected is
  `JoinChannel` or `PartChannel`, and both send to the whole list.
- `CountersProofs`. Each way changes a counter and the set it counts together, by one
  element that was not there, or that was: the lemmas of the library on finite sets
  then give the cardinality. The operator count is only a bound from above,
  since OPER sent twice is counted twice, and what is shown of a step is that it grows
  whenever the set does and falls only with it (`OperCounted`); a step that counts a
  client that is an operator is `GrantedAgain`, and without such steps the count is exact.

`LineFramingProofs` proves, for every alphabet, every buffer size, every bound on what is
written, and every QUIT line (`BufferAssumption`, `BytesAssumption`, `BoundAssumption`):

| Theorem | Property |
|---|---|
| `FramingTypeCorrect` | `TypeOK`: no index into `user_buf` is out of its bounds |
| `BufferCorrect` | `BufferHoldsOpenLine` |
| `FramingImplementsStream` | `ImplementsLineStream` |
| `LinesIndependent` | `LinesIndependentOfReads` |

`FramingInv == TypeOK /\ BufferHoldsOpenLine` is inductive. That the buffer is a piece of
the stream is what makes the string given to `handle_user_msg` a piece of it
(`BatchIsStream`), and that no complete line waits in the buffer is what makes a full
buffer, or a client that has closed, a reason to hang up that `LineStream` allows: there
is no line end among the bytes that are left. Both are needed to show that every action
is a step of `LineStream` or leaves its variables alone.

`LinesIndependentOfReads` says that the lines handled are *the* lines of the stream: its
stretches without a delimiter that cannot be longer (`LineSpans`), each once and in
order (`AreTexts`), whatever strings they were cut from. `LinesAreTexts` shows that
`strtok_r`, the recursive function of `Lines`, finds those of one string, by induction
from its end. `LinesOfConcat` shows that the lines of two strings are those of their
concatenation if the first one is `Closed`, ends with a delimiter or is empty; without
that, a line across the cut would be handled as two. So the invariant needs the conjunct
`CutAtLineEnd`, that the part of the stream that is dealt with is closed, and

    LinesInv == FramingInv /\ CutAtLineEnd /\ LinesIndependentOfReads

is inductive. Its steps are argued on those of `LineStream` (`StreamStep`), as it
speaks of the stream only; the buffer plays no part in it any more.

`EventLoopProofs` proves, for any number of clients, any `MAX_EVENTS`, `MaxPending` and
`MaxBacklog`, with and without interrupted waits (`EventsAssumption`,
`DescriptorAssumption`, `BoundsAssumption`):

| Theorem | Property |
|---|---|
| `LoopTypeCorrect` | `TypeOK`: the ready list holds watched descriptors, each once |
| `EventsAreReady` | `HandledEventIsReady` |
| `WakeupsKept` | `NoWakeupLost` |
| `NoCrashUninterrupted` | if no wait is interrupted, the loop always finds a client for the descriptor it handles |

There `TypeOK` is inductive. That no descriptor is listed twice is what makes `Disconnect` clear
the list of it (`RemoveFirstOnce`), so that no later wait reports a client that is gone;
that a wait puts what it reports behind the rest, each once again, is `WaitStep`. Between
the wait and the handling data only arrive (`ReadyKept`): this is where the proof uses
that nothing but the loop itself takes data or closes descriptors.

`NoWakeupLost` is inductive with `TypeOK`: data put their descriptor on the list, a wait
that reports a descriptor puts it back behind the others (`Relisted`, level-triggered),
and only what is no longer ready, or closed, stays off it. With an edge-triggered
interest the nine events that the loop drops would never be reported again.
`HandledEventIsReady` also says that the loop has crashed only where the wait before it
was interrupted; that a wait which returned events filled the first cell with a ready
descriptor is `WaitReturned`. `NoCrashUninterrupted` adds that an event is only handled after
a wait that returned one (`WaitedFor`), which holds if waits are not interrupted: the
untested result of `epoll_wait` is the only way to a descriptor without a struct.

`HashTableProofs` proves, for any finite set of keys, any hash functions, any number of
buckets at first and any threshold (`KeyAssumption`, `HashAssumption`,
`BucketsAssumption`), through any number of expansions:

| Theorem | Property |
|---|---|
| `TypeCorrect` | `TypeOK` |
| `FsckHolds` | `HASH_FSCK` |
| `FindsExactlyHolds` | `FindsExactly` |
| `OldestEndsChainHolds` | `OldestEndsChain` |
| `ChainsBoundedHolds` | `ChainsBounded`, if there are never more than `Few` elements |
| `FewElementsNeverSplit` | with fewer elements than the threshold, the first buckets stay and the chain of the oldest element ends with it |
| `RemoveAllHolds` | `RemoveAllRemovesAll` |
| `Refinement` | `ImplementsOrderedMap` |

The inductive invariant (`Invariant`) is

    IInv == hashv \in HashFunctions /\ TableInv /\ Iterating

`TableInv` says of the list `AppOrder` of all elements: `next` and `prev` are its
pointers (`IsList`); the elements of each bucket are those whose hash value belongs there,
they are a list along `hh_next` and `hh_prev`, and the bucket counts them
(`BucketsHold`); `tbl` knows its last element and its length (`TableCounts`). Why each
part is needed: an element is deleted by its pointers alone, so that both directions of
both lists have to be right for the other elements to stay; the tail is where the next
element is put; the lookup walks one bucket, so that the membership of each bucket is
exact. `OldestEndsChain` needs more, since deletions may leave any element as the oldest
of its bucket: in a table that was not expanded every chain is in the reverse order of
addition (`Reversed`, in `ArrayHolds`). `Iterating` says that `el` is the first element
and `temp` the second.

The lemmas follow the macros. `PushFront`, `PushBack` and `Unlink` are what happens to a
doubly linked list; `LinkKeepsBuckets` and `UnlinkKeepsBuckets` what happens to an array
of buckets of which one changes. In an expansion (`MoveKeeps`, `MoveBucketKeeps`,
`MoveAllKeeps`) the new buckets hold the elements that were moved, and the old pointers of
those that were not are as they were: this is why the loop may read where an old chain
goes on while it builds the new ones from the same handles. That the buckets together
count all elements is `CountElements`.

`ChainsBounded` says that after every step, unless the table has given up expanding, no
bucket is so long that it is to be split. It is not true for every number of elements: `LongerAllowed`
raises the limit of a bucket in the expansion that overfills it, but only if the bucket
is longer than the ideal length, and once there are so many elements that the ideal
length reaches the threshold, a bucket whose elements stayed together can be full again
right after the expansion that was to split it. `hashmap.h` does not promise otherwise:
it gives up expanding (`noexpand`) when this has happened twice in a row. The first
expansion leaves twice `HASH_INITIAL_NUM_BUCKETS` buckets, so the ideal length stays
below the threshold up to

    Few(n) == n <= (HASH_INITIAL_NUM_BUCKETS * 2) * (HASH_BKT_CAPACITY_THRESH - 1)

elements: 576 with the 32 buckets and the threshold of 10 of `hashmap.h`, 8 in the run,
which has 6. `ChainsBoundedHolds` is for tables that never hold more. Its invariant
`ShortInv` is `ChainsBounded` itself, stated of an array of buckets (`AllShort`), so that
the lemmas can follow it through an expansion: an addition that reaches the limit of a
bucket expands, and in the new array a bucket is either no longer than the ideal length,
which is below the threshold (`IdealAtMost`), or has had its limit raised with every
element that was too many (`Fits`, `FittingIsShort`).

`FewElementsNeverSplit` is what joins `HashTable` to the server. In `UserTable` a walk
along `hh_next` sees the oldest channel and ends there (`HhNextWalk`) unless the table
was expanded, and a table is expanded by a join that makes as many channels as the
threshold, or more; the theorem says that this is so for a `joined_channels` of fewer
than ten elements, after any additions and deletions. With more elements it depends on
the hash values, and `IrcServer` has both outcomes. `HashTable` and the `OrderedMap` it implements add a key only when it is not
there and delete one only when it is, conditions the code of `user_add_channel` and
`user_remove_channel` does not test: it links a node without looking for another of its
name, and unlinks what `HASH_FIND` returned, found or not. The last section of
`ServiceProofs` discharges them for the server. `ChannelInserted` and `ChannelErased` are
`Insert` and `Erase` of `OrderedMap` with `joined_channels[v]` as its items, and
`JoinedChannelsAreAMap` shows that a step of the server is one of them or leaves the
table alone, except that the table ends with its client. They are spelt out because a
refinement mapping with the parameter `v` is more than `tlapm` 1.4.5 can read. JOIN tests the member list and not the
table, so `MembershipAgrees` is what makes the addition safe. `FewChannelsNeverCrash` draws the conclusion
for the server: in a behaviour in which no client is ever in as many channels as the
threshold, no table is expanded (`NeverRanOff`), so no walk runs off and `crashed` stays
false. It bounds what each client has joined, not the channels of the server, and no
other theorem needs it. `NicknamesAreNotTakenOver` is the same condition for
`users_nick_map`, where `NickAvailable` is the test; the key of `users_fd_map` is new
because `accept` returns a descriptor that is not open (`handle_new_connection`).

What these proofs say of recursive definitions (`Follow`, `MoveAll`, `CountBuckets`,
`Lines`, `FlattenSeq`) rests on two lemmas of `ListLemmas`. `Induction` speaks of the
*set* of numbers for which something holds, and comes from the well-foundedness of the
natural numbers; `Recursion` shows that the function exists that such a definition
chooses, for a computation that is a function from states to states.

Only model-checked: the liveness properties `QuitCompletes`, `LinesHandledIfLookedAt` and
`ClientsServed`, as liveness is out of the prover's reach; the safety
parts of their arguments are proved (`QuitIsFinal`, `BufferCorrect`, `WakeupsKept`).
Every safety property that a passing run checks is stated by a theorem, without
hypotheses but for `ChainsBounded`. The findings of section 4 are counterexamples and
need no proof.

## 6. Not modelled

- `send` blocks when the socket buffer of the recipient is full; the model takes it to
  return. Its errors are ignored by every handler, and are therefore no part of it.
- `get_listener_socket`, `init_epfd` and the arguments of `main` run once, before the
  loop: they are the initial state. `inet_ntop2` only formats an address.
- Leaks, which have no effect on the behaviour modelled: the old topic
  (`channel.c:131`), the topic of a deleted channel, `away_msg` of a client that
  leaves, and the `ChannelNode`s of `user_remove_all`. Nor are null dereferences
  after an unchecked `malloc` or `strdup`, at which the process ends, and the
  uninitialised byte of the status in WHO (`command.c:943`), which is wording.
- `is_valid_nick`, `format_reply` and the text of `motd.txt`: `Nick` is the set of
  names the first accepts, and `MotdReadable` says whether the file can be opened.
- Of `lib/hashmap.h`, what the server does not call: sorting, selecting, replacing, Bloom
  filters; and the hash function, which `HashTable` takes to be any. A `malloc` that
  fails there ends the process.
- What a walk along `hh_next` does after an expansion is in the model the end of the
  process (section 2), the outcome of 64-bit builds: the `UT_hash_table` is then read as a
  `Channel`, its numbers of buckets as `channel_name` and its offset `hho` as `user_list`.
  It is undefined behaviour, and a build in which the walk goes on is not modelled.
- Of a table that has given up expanding (`noexpand`) no property is stated: lookups are
  still right (`FindsExactly`), they only take longer.
- The Makefile and the stress test in `tests/`.

The specifications are not composed into one. What one takes from another is named: the
batches of `IrcServer` are sequences of lines as `LineFraming` hands them over, a
`Hangup` may happen at any time, as it does there for a full buffer, and any ready
client may be next, as `EventLoop` allows. One specification of all would multiply
their states and show no more, since they share no state but the descriptor.

## 7. Plan

Every safety property that the passing runs check is proved, and so are the three
refinements; and the server keeps to what `HashTable` takes for granted of its use, and
is modelled where it leaves what `HashTable` grants. What
could still be added: `ChainsBounded` for larger tables, under a condition on the hash
function.
