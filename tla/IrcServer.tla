------------------------------ MODULE IrcServer ------------------------------
(***************************************************************************)
(* The server of src/src: one thread that takes one ready descriptor at a  *)
(* time (process_connections), accepts a client, notices that one is gone, *)
(* or receives a batch of lines and handles them one after the other       *)
(* (handle_client_data, handle_user_msg).  A step is the handling of one   *)
(* line; active is the client whose batch is being handled.  A client that *)
(* sends QUIT is only marked: the lines behind QUIT in the same batch are  *)
(* still handled, and the struct is freed at the end of the batch.  A line  *)
(* whose walk over the channels runs off the chain ends the process.        *)
(*                                                                         *)
(* Abstractions: which bytes make a batch and the order in which epoll     *)
(* reports descriptors are other components.  Any client that is watched   *)
(* may be the next.  Descriptors are reused: accept() may return any that  *)
(* is not open.                                                            *)
(***************************************************************************)
EXTENDS MessageCommands

CONSTANT Commands   \* the commands the clients of this instance send

VARIABLES
    epfd,       \* descriptors in the epoll interest set, the listener left out
    active,     \* client whose batch is being handled, or NULL
    crashed     \* whether the process is gone

vars == <<userTable, channelTable, sent, epfd, active, crashed>>

TypeOK ==
    /\ UserTypeOK
    /\ ChannelTypeOK
    /\ sent \subseteq Message
    /\ epfd \subseteq Fd
    /\ active \in Fd \cup {NULL}
    /\ crashed \in BOOLEAN

Init ==
    /\ UserInit
    /\ ChannelInit
    /\ sent = {}
    /\ epfd = {}
    /\ active = NULL
    /\ crashed = FALSE

-----------------------------------------------------------------------------
(* handle_new_connection.  A client whose epoll_ctl fails stays in the      *)
(* tables without being watched; one whose malloc fails is closed at once,  *)
(* which changes nothing.                                                   *)
handle_new_connection(u) ==
    /\ ~crashed
    /\ active = NULL
    /\ u \notin users_fd_map
    /\ add_to_users(u)
    /\ epfd' \in {epfd \cup {u}} \cup (IF AllocMayFail THEN {epfd} ELSE {})
    /\ sent' = {}
    /\ UNCHANGED <<channelTable, active, crashed>>

\* recv returned complete lines: their handling starts.
BeginBatch(u) ==
    /\ ~crashed
    /\ active = NULL
    /\ u \in epfd
    /\ active' = u
    /\ sent' = {}
    /\ UNCHANGED <<userTable, channelTable, epfd, crashed>>

\* Slip: the descriptor stays in the interest set.
DisconnectKeepsEpfd(u) ==
    /\ del_from_users(u)
    /\ UNCHANGED epfd

\* Slip: the struct stays in the tables.
DisconnectKeepsStruct(u) ==
    /\ epfd' = epfd \ {u}
    /\ UNCHANGED <<userTable, channelTable>>

\* close, del_from_users, del_from_epfd.
Disconnect(u) ==
    /\ del_from_users(u)
    /\ epfd' = epfd \ {u}

KeepConnection == UNCHANGED <<userTable, channelTable, epfd>>

\* Slips: is_dead is not looked at after a batch of the one or the other kind.
EndWholeBatchKeepsDead(u) == KeepConnection
EndFragmentedBatchKeepsDead(u) == KeepConnection

\* Back from handle_user_msg on a buffer that ends with a newline: free the
\* client if it has sent QUIT.
EndWholeBatch(u) == IF user[u].is_dead THEN Disconnect(u) ELSE KeepConnection

\* The copy of that code for a buffer that also holds the start of a line.
EndFragmentedBatch(u) ==
    IF user[u].is_dead THEN Disconnect(u) ELSE KeepConnection

EndBatch(u) ==
    /\ ~crashed
    /\ active = u
    /\ active' = NULL
    /\ sent' = {}
    /\ EndWholeBatch(u) \/ EndFragmentedBatch(u)
    /\ UNCHANGED crashed

\* recv returned 0 or an error.  Nobody is told.
Hangup(u) ==
    /\ ~crashed
    /\ active = NULL
    /\ u \in epfd
    /\ Disconnect(u)
    /\ sent' = {}
    /\ UNCHANGED <<active, crashed>>

-----------------------------------------------------------------------------
\* One line of the batch: the dispatch on its first word.
HandleLine(u) ==
    \/ /\ "NICK" \in Commands
       /\ \E n \in Nick \cup {NULL} : handle_nick_cmd(u, n)
    \/ /\ "USER" \in Commands
       /\ \E complete \in BOOLEAN : handle_user_cmd(u, complete)
    \/ /\ "PRIVMSG" \in Commands
       /\ \E target \in Names, has_text \in BOOLEAN, is_notice \in BOOLEAN :
              Answer(handle_msg_cmd(u, target, has_text, is_notice))
    \/ /\ "JOIN" \in Commands
       /\ \E name \in Names : handle_join_cmd(u, name)
    \/ /\ "PART" \in Commands
       /\ \E name \in Names : handle_part_cmd(u, name)
    \/ /\ "TOPIC" \in Commands
       /\ \E name \in Names, topic \in TopicParams :
              handle_topic_cmd(u, name, topic)
    \/ /\ "OPER" \in Commands
       /\ \E pass \in OperParams : handle_oper_cmd(u, pass)
    \/ /\ "AWAY" \in Commands
       /\ \E away_msg \in AwayParams : handle_away_cmd(u, away_msg)
    \/ /\ "MODE" \in Commands
       /\ \/ \E target \in Channel, mode \in ModeParams,
                member \in Nick \cup {NULL} :
                 handle_mode_cmd(u, target, mode, member)
          \/ \E target \in Nick \cup {NULL}, mode \in UserModes :
                 handle_mode_cmd(u, target, mode, NULL)
    \/ /\ "WHO" \in Commands
       /\ \E mask \in Names : Answer(handle_who_cmd(u, mask))
    \/ /\ "QUERY" \in Commands
       /\ \/ \E n \in Nick \cup {NULL} : Answer(handle_whois_cmd(u, n))
          \/ \E name \in Names : Answer(handle_names_cmd(u, name))
          \/ \E name \in Names : Answer(handle_list_cmd(u, name))
          \/ Answer(LusersReplies(u))
          \/ Answer(MotdReplies(u))
          \/ Answer({Numeric(u, "PONG")})
          \/ Answer({Numeric(u, "ERR_UNKNOWNCOMMAND")})
          \/ Silent     \* PONG, or a line of blanks
    \/ /\ "QUIT" \in Commands
       /\ handle_quit_cmd(u)

handle_user_msg(u) ==
    /\ ~crashed
    /\ active = u
    /\ HandleLine(u)
    /\ UNCHANGED <<epfd, active, crashed>>

(* The walk of u over its channels runs off the chain (WalkMayRunOff) with  *)
(* messages already sent.  The tables are gone with the process: here they  *)
(* stay as the line before left them.                                       *)
Crash(u, messages) ==
    /\ ~crashed
    /\ active = u
    /\ WalkMayRunOff(u)
    /\ sent' = messages
    /\ crashed' = TRUE
    /\ UNCHANGED <<userTable, channelTable, epfd, active>>

\* relay_nick_change has told the sender and the members of its first channel.
CrashInNick(u) ==
    /\ "NICK" \in Commands
    /\ \E n \in Nick : NickAvailable(n)
    /\ Crash(u, relay_nick_change(u))

\* The users for which users_share_channel goes on behind the first channel.
NotInFirstChannel(u) == {v \in UsersWithNick : ~users_share_channel(u, v)}

\* The users looked at before one of those were told if they are others.
CrashInQuit(u) ==
    /\ "QUIT" \in Commands
    /\ NotInFirstChannel(u) # {}
    /\ \E told \in SUBSET (UsersWithNick \ (NotInFirstChannel(u) \cup {u})) :
           Crash(u, {Event(v, "QUIT", u, NULL) : v \in told})

\* WHO has nothing to say of the users before.
CrashInWho(u) ==
    /\ "WHO" \in Commands
    /\ NotInFirstChannel(u) # {}
    /\ Crash(u, {})

Terminated == crashed /\ UNCHANGED vars

Next ==
    \/ \E u \in Fd :
           \/ handle_new_connection(u)
           \/ BeginBatch(u)
           \/ handle_user_msg(u)
           \/ EndBatch(u)
           \/ Hangup(u)
           \/ CrashInNick(u)
           \/ CrashInQuit(u)
           \/ CrashInWho(u)
    \/ Terminated

Spec == Init /\ [][Next]_vars

(* A batch is at most BUF_SIZE bytes, so at most that many lines: the loop  *)
(* of handle_user_msg ends.                                                 *)
FairSpec == Spec /\ \A u \in Fd : WF_vars(EndBatch(u))
=============================================================================
