---------------------------- MODULE UserCommands ----------------------------
(***************************************************************************)
(* The handlers of src/src/command.c that change the sender's own struct:  *)
(* NICK, USER, OPER, AWAY, MODE on a nickname, QUIT.  u is the descriptor  *)
(* of the sender.  A parameter is NULL when strtok_r found none.           *)
(***************************************************************************)
EXTENDS Replies

CONSTANTS
    SameNick,       \* pairs of nicknames that differ in case at most
    MotdReadable,   \* whether fopen("motd.txt") succeeds
    MaxOperCount    \* bound on operator_user_count, in the guard of OPER

ASSUME UserCommandsAssumption ==
    /\ SameNick \subseteq Nick \X Nick
    /\ \A n \in Nick : <<n, n>> \in SameNick
    /\ MotdReadable \in BOOLEAN
    /\ MaxOperCount \in Nat

OperParams == {NULL, "oper_password", "mismatch"}
AwayParams == {NULL, "text"}
UserModes == {NULL, "+o", "-o", "+a", "-a", "unknown"}

-----------------------------------------------------------------------------
LusersReplies(u) ==
    {Numeric(u, r) : r \in {"RPL_LUSERCLIENT", "RPL_LUSEROP", "RPL_LUSERUNKNOWN",
                            "RPL_LUSERCHANNELS", "RPL_LUSERME"}}

MotdReplies(u) ==
    IF MotdReadable
    THEN {Numeric(u, r) : r \in {"RPL_MOTDSTART", "RPL_MOTD", "RPL_ENDOFMOTD"}}
    ELSE {}

WelcomeReplies(u) ==
    {Numeric(u, "RPL_WELCOME")} \cup LusersReplies(u) \cup MotdReplies(u)

\* Slip: NICK alone registers.
NewlyRegisteredByNick(rec) == rec.has_nick /\ ~rec.is_registered

NewlyRegistered(rec) ==
    rec.has_nick /\ rec.has_username /\ ~rec.is_registered

(* The common end of handle_nick_cmd and handle_user_cmd: rec is the struct *)
(* of u with its new nick or username, and register_new_user is called when *)
(* it now has both for the first time.                                      *)
UpdateAndRegister(u, rec, messages) ==
    IF NewlyRegistered(rec)
    THEN /\ user' = [user EXCEPT ![u] = [rec EXCEPT !.is_registered = TRUE]]
         /\ registered_user_count' = registered_user_count + 1
         /\ unknown_user_count' = unknown_user_count - 1
         /\ sent' = messages \cup WelcomeReplies(u)
    ELSE /\ user' = [user EXCEPT ![u] = rec]
         /\ UNCHANGED <<registered_user_count, unknown_user_count>>
         /\ sent' = messages

\* The sender is told, then the members of the channels the walk reaches.
relay_nick_change(u) ==
    {Event(u, "NICK", u, NULL)} \cup
    {Event(v, "NICK", u, NULL) :
        v \in (UNION {channel[c].user_list : c \in HhNextWalk(u)}) \ {u}}

\* Slip: only the nicknames of registered users are in use.
NickAvailableUnlessRegistered(n) ==
    get_user_by_nick(n) # NULL => ~user[get_user_by_nick(n)].is_registered

NickAvailable(n) == get_user_by_nick(n) = NULL

ChangeNick(u, n) ==
    /\ users_nick_map' = NickTableRekey(u, n)
    /\ UpdateAndRegister(u, set_user_nick(user[u], n),
           IF user[u].nick = NULL THEN {} ELSE relay_nick_change(u))
    /\ UNCHANGED <<users_fd_map, joined_channels, expanded,
                   operator_user_count, channelTable>>

handle_nick_cmd(u, n) ==
    \/ /\ n \notin Nick
       /\ Refuse(u, "ERR_ERRONEOUSNICKNAME")
    \/ /\ n \in Nick
       /\ ~NickAvailable(n)
       /\ Refuse(u, "ERR_NICKNAMEINUSE")
    \/ /\ n \in Nick
       /\ NickAvailable(n)
       /\ ChangeNick(u, n)

SetUsername(u) ==
    /\ UpdateAndRegister(u, set_user_username(user[u]), {})
    /\ UNCHANGED <<users_fd_map, users_nick_map, joined_channels, expanded,
                   operator_user_count, channelTable>>

\* complete says whether the user, mode and realname parameters are all there.
handle_user_cmd(u, complete) ==
    \/ /\ ~complete
       /\ Silent
    \/ /\ complete
       /\ user[u].has_username
       /\ Refuse(u, "ERR_ALREADYREGISTERED")
    \/ /\ complete
       /\ ~user[u].has_username
       /\ SetUsername(u)

-----------------------------------------------------------------------------
SetOperator(u, status, message) ==
    /\ user_set_operator_status(u, status)
    /\ sent' = {message}
    /\ UNCHANGED <<users_fd_map, users_nick_map, joined_channels, expanded,
                   unknown_user_count, registered_user_count, channelTable>>

\* An operator that sends OPER again is counted again.
handle_oper_cmd(u, pass) ==
    \/ /\ ~user[u].is_registered
       /\ Refuse(u, "ERR_NOTREGISTERED")
    \/ /\ user[u].is_registered
       /\ pass = NULL
       /\ Refuse(u, "ERR_NEEDMOREPARAMS")
    \/ /\ user[u].is_registered
       /\ pass = "mismatch"
       /\ Refuse(u, "ERR_PASSWDMISMATCH")
    \/ /\ user[u].is_registered
       /\ pass = "oper_password"
       /\ operator_user_count < MaxOperCount
       /\ SetOperator(u, TRUE, Numeric(u, "RPL_YOUREOP"))

SetAway(u, away_msg) ==
    /\ user' = [user EXCEPT ![u] = user_set_away_status(@, away_msg)]
    /\ sent' = {Numeric(u, IF away_msg # NULL THEN "RPL_NOWAWAY"
                                              ELSE "RPL_UNAWAY")}
    /\ UNCHANGED <<users_fd_map, users_nick_map, joined_channels, expanded,
                   userCounts, channelTable>>

handle_away_cmd(u, away_msg) ==
    \/ /\ ~user[u].is_registered
       /\ Refuse(u, "ERR_NOTREGISTERED")
    \/ /\ user[u].is_registered
       /\ SetAway(u, away_msg)

(* strcasecmp with the sender's own nickname: MODE ignores case where the  *)
(* nickname table does not.                                                 *)
IsOwnNick(u, n) == <<n, user[u].nick>> \in SameNick

\* MODE on a nickname, for a registered sender.
handle_user_mode(u, n, mode) ==
    \/ /\ ~IsOwnNick(u, n)
       /\ Refuse(u, "ERR_USERSDONTMATCH")
    \/ /\ IsOwnNick(u, n)
       /\ mode = NULL
       /\ Refuse(u, "RPL_UMODEIS")
    \/ /\ IsOwnNick(u, n)
       /\ \/ mode \in {"+o", "+a", "-a"}
          \/ mode = "-o" /\ ~user[u].is_oper
       /\ Silent
    \/ /\ IsOwnNick(u, n)
       /\ mode = "-o"
       /\ user[u].is_oper
       /\ SetOperator(u, FALSE, Event(u, "MODE", u, NULL))
    \/ /\ IsOwnNick(u, n)
       /\ mode \notin {NULL, "+o", "-o", "+a", "-a"}
       /\ Refuse(u, "ERR_UNKNOWNMODE")

\* Slip: every client with a nickname is told.
handle_quit_cmdToEveryone(u) ==
    /\ user' = [user EXCEPT ![u].is_dead = TRUE]
    /\ sent' = {Event(v, "QUIT", u, NULL) : v \in UsersWithNick \ {u}}
    /\ UNCHANGED <<users_fd_map, users_nick_map, joined_channels, expanded,
                   userCounts, channelTable>>

\* The struct is only marked: handle_client_data frees it after the batch.
handle_quit_cmd(u) ==
    /\ user' = [user EXCEPT ![u].is_dead = TRUE]
    /\ sent' = {Event(v, "QUIT", u, NULL) :
                   v \in {w \in UsersWithNick \ {u} : users_share_channel(u, w)}}
    /\ UNCHANGED <<users_fd_map, users_nick_map, joined_channels, expanded,
                   userCounts, channelTable>>
=============================================================================
