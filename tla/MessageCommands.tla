--------------------------- MODULE MessageCommands ---------------------------
(***************************************************************************)
(* The handlers of src/src/command.c that leave the tables alone: PRIVMSG  *)
(* and NOTICE, the queries WHOIS, WHO, NAMES, LIST, LUSERS and MOTD, PING  *)
(* and the unknown commands.  Each is the set of messages it sends.        *)
(***************************************************************************)
EXTENDS ChannelCommands

\* Slip: the flag is tested the wrong way round.
UnlessNoticeInverted(is_notice, u, numeric) ==
    IF is_notice THEN {Numeric(u, numeric)} ELSE {}

\* A numeric that a NOTICE does not send.
UnlessNotice(is_notice, u, numeric) ==
    IF is_notice THEN {} ELSE {Numeric(u, numeric)}

MsgCmd(is_notice) == IF is_notice THEN "NOTICE" ELSE "PRIVMSG"

\* Slip: every member is heard in a moderated channel.
MaySpeakAnyMember(u, c) ==
    \/ ~channel[c].moderated_mode
    \/ channel_has_user(c, u)

MaySpeak(u, c) ==
    \/ ~channel[c].moderated_mode
    \/ user[u].is_oper
    \/ u \in channel[c].channel_op
    \/ u \in channel[c].channel_voice

handle_privmsg_channel(u, c, is_notice) ==
    CASE c \notin channels_map ->
             UnlessNotice(is_notice, u, "ERR_NOSUCHNICK")
      [] c \in channels_map /\ ~channel_has_user(c, u) ->
             {Numeric(u, "ERR_CANNOTSENDTOCHAN")}
      [] IsMember(u, c) /\ ~MaySpeak(u, c) ->
             UnlessNotice(is_notice, u, "ERR_CANNOTSENDTOCHAN")
      [] IsMember(u, c) /\ MaySpeak(u, c) ->
             channel_message_users(c, channel[c].user_list, MsgCmd(is_notice),
                                   u, u)

\* A message to a user that is away is dropped: the sender gets RPL_AWAY.
handle_privmsg_user(u, n, is_notice) ==
    LET target == get_user_by_nick(n)
    IN  CASE target = NULL ->
                 UnlessNotice(is_notice, u, "ERR_NOSUCHNICK")
          [] target # NULL /\ user[target].is_away ->
                 UnlessNotice(is_notice, u, "RPL_AWAY")
          [] target # NULL /\ ~user[target].is_away ->
                 {Event(target, MsgCmd(is_notice), u, NULL)}

\* has_text says whether the message parameter is there.
handle_msg_cmd(u, target, has_text, is_notice) ==
    CASE target = NULL ->
             UnlessNotice(is_notice, u, "ERR_NORECIPIENT")
      [] target # NULL /\ ~has_text ->
             UnlessNotice(is_notice, u, "ERR_NOTEXTTOSEND")
      [] target # NULL /\ has_text /\ ~user[u].is_registered ->
             UnlessNotice(is_notice, u, "ERR_NOTREGISTERED")
      [] target \in Channel /\ has_text /\ user[u].is_registered ->
             handle_privmsg_channel(u, target, is_notice)
      [] target \in Nick /\ has_text /\ user[u].is_registered ->
             handle_privmsg_user(u, target, is_notice)

-----------------------------------------------------------------------------
\* RPL_WHOISCHANNELS: one message stands for the channels of the user v.
WhoisReplies(u, v) ==
    {Numeric(u, r) : r \in {"RPL_WHOISUSER", "RPL_WHOISSERVER", "RPL_ENDOFWHOIS"}}
    \cup {Event(u, "RPL_WHOISCHANNELS", v, c) : c \in Joined(v)}
    \cup (IF user[v].is_away THEN {Numeric(u, "RPL_AWAY")} ELSE {})
    \cup (IF user[v].is_oper THEN {Numeric(u, "RPL_WHOISOPERATOR")} ELSE {})

handle_whois_cmd(u, n) ==
    LET query_user == get_user_by_nick(n)
    IN  CASE ~user[u].is_registered -> {Numeric(u, "ERR_NOTREGISTERED")}
          [] user[u].is_registered /\ n = NULL -> {}
          [] user[u].is_registered /\ n # NULL ->
                 IF query_user # NULL /\ user[query_user].is_registered
                 THEN WhoisReplies(u, query_user)
                 ELSE {Numeric(u, "ERR_NOSUCHNICK")}

\* The members listed for a name: none if it is no channel.
MembersOf(name) == IF name \in channels_map THEN channel[name].user_list ELSE {}

handle_names_cmd(u, name) ==
    IF user[u].is_registered THEN NamesReplies(u, name, MembersOf(name))
                             ELSE {Numeric(u, "ERR_NOTREGISTERED")}

\* Without a name, every channel is listed.
handle_list_cmd(u, name) ==
    IF user[u].is_registered
    THEN {Event(u, "RPL_LIST", NULL, c) :
              c \in IF name = NULL THEN channels_map ELSE channels_map \cap {name}}
         \cup {Numeric(u, "RPL_LISTEND")}
    ELSE {Numeric(u, "ERR_NOTREGISTERED")}

(* WHO does not ask whether its sender is registered.  A channel lists its  *)
(* members; no mask, or "*", lists the users that share no channel with the *)
(* sender; any other mask lists nobody.                                     *)
handle_who_cmd(u, mask) ==
    LET listed == CASE mask \in Channel -> MembersOf(mask)
                    [] mask = NULL ->
                           {v \in UsersWithNick : ~users_share_channel(u, v)}
                    [] mask \in Nick -> {}
    IN  {Event(u, "RPL_WHOREPLY", v, NULL) : v \in listed}
        \cup {Numeric(u, "RPL_ENDOFWHO")}
=============================================================================
