--------------------------- MODULE ChannelCommands ---------------------------
(***************************************************************************)
(* The handlers of src/src/command.c that change a channel: JOIN, PART,    *)
(* TOPIC and MODE.  u is the descriptor of the sender; a name is a channel *)
(* name, a nickname (any word without '#') or NULL when it is missing.     *)
(***************************************************************************)
EXTENDS UserCommands

(* Whether malloc and strdup in create_channel, malloc in channel_add_user, *)
(* strdup in channel_set_topic and epoll_ctl in add_to_epfd may fail.       *)
CONSTANT AllocMayFail

ASSUME AllocAssumption == AllocMayFail \in BOOLEAN

Names == Channel \cup Nick \cup {NULL}
TopicParams == Topic \cup {"", NULL}
ChannelModes == {"+m", "-m", "+t", "-t"}
MemberModes == {"+o", "-o", "+v", "-v"}
ModeParams == ChannelModes \cup MemberModes \cup {NULL, "+", "unknown"}

-----------------------------------------------------------------------------
(* The end of handle_names_cmd.  A member is one line RPL_NAMREPLY about    *)
(* it: how many names the server packs in a line is left out.               *)
NamesReplies(u, c, list) ==
    {Event(u, "RPL_NAMREPLY", v, c) : v \in list} \cup
    {Numeric(u, "RPL_ENDOFNAMES")}

\* Slip: the sender is excluded, as it is from PRIVMSG.
JoinRepliesToOthers(u, c, rec) ==
    channel_message_users(c, rec.user_list, "JOIN", u, u)
    \cup NamesReplies(u, c, rec.user_list)

JoinReplies(u, c, rec) ==
    channel_message_users(c, rec.user_list, "JOIN", u, NULL)
    \cup (IF rec.topic # NULL THEN {Numeric(u, "RPL_TOPIC")} ELSE {})
    \cup NamesReplies(u, c, rec.user_list)

JoinChannel(u, c) ==
    /\ join_channel(u, c, TRUE)
    /\ user_add_channel(u, c)
    /\ sent' = JoinReplies(u, c, channel_add_user(FoundOrCreated(c), u))
    /\ UNCHANGED <<users_fd_map, users_nick_map, user, userCounts>>

\* Slip: the channel is added to the user in spite of the failure.
AbandonJoinButListed(u, c) ==
    /\ join_channel(u, c, FALSE)
    /\ user_add_channel(u, c)
    /\ sent' = {}
    /\ UNCHANGED <<users_fd_map, users_nick_map, user, userCounts>>

\* The malloc of channel_add_user fails.
AbandonJoin(u, c) ==
    /\ join_channel(u, c, FALSE)
    /\ sent' = {}
    /\ UNCHANGED userTable

handle_join_cmd(u, name) ==
    \/ /\ name = NULL
       /\ Refuse(u, "ERR_NEEDMOREPARAMS")
    \/ /\ name \in Nick
       /\ Refuse(u, "ERR_NOSUCHCHANNEL")
    \/ /\ name \in Channel
       /\ ~user[u].is_registered
       /\ Refuse(u, "ERR_NOTREGISTERED")
    \/ /\ name \in Channel
       /\ user[u].is_registered
       /\ channel_has_user(name, u)
       /\ Silent
    \/ /\ name \in Channel
       /\ user[u].is_registered
       /\ ~channel_has_user(name, u)
       /\ JoinChannel(u, name)
    \/ /\ AllocMayFail       \* create_channel fails
       /\ name \in Channel \ channels_map
       /\ user[u].is_registered
       /\ Silent
    \/ /\ AllocMayFail
       /\ name \in Channel
       /\ user[u].is_registered
       /\ ~channel_has_user(name, u)
       /\ AbandonJoin(u, name)

-----------------------------------------------------------------------------
\* What PART answers when the sender is no member of the channel it names.
PartRefusal(u, name) ==
    IF name \notin channels_map THEN {}
                                ELSE {Numeric(u, "ERR_NOTONCHANNEL")}

IsMember(u, name) == name \in channels_map /\ channel_has_user(name, u)

PartChannel(u, c) ==
    /\ sent' = channel_message_users(c, channel[c].user_list, "PART", u, NULL)
    /\ user_remove_channel(u, c)
    /\ LeaveChannels(u, {c})
    /\ UNCHANGED <<users_fd_map, users_nick_map, user, userCounts>>

handle_part_cmd(u, name) ==
    \/ /\ name = NULL
       /\ Refuse(u, "ERR_NEEDMOREPARAMS")
    \/ /\ name # NULL
       /\ ~user[u].is_registered
       /\ Refuse(u, "ERR_NOTREGISTERED")
    \/ /\ name # NULL
       /\ user[u].is_registered
       /\ ~IsMember(u, name)
       /\ Answer(PartRefusal(u, name))
    \/ /\ user[u].is_registered
       /\ IsMember(u, name)
       /\ PartChannel(u, name)

-----------------------------------------------------------------------------
MayChangeTopic(u, c) ==
    \/ ~channel[c].topic_mode
    \/ u \in channel[c].channel_op
    \/ user[u].is_oper

\* channel_remove_topic, or channel_set_topic, whose strdup is not tested.
StoredTopic(topic) ==
    (IF topic = "" THEN {NULL} ELSE {topic})
    \cup (IF AllocMayFail THEN {NULL} ELSE {})

\* Slip: an empty topic is stored like another.
SetTopicEmpty(u, c, topic) ==
    /\ channel' = [channel EXCEPT ![c].topic = topic]
    /\ sent' = channel_message_users(c, channel[c].user_list, "TOPIC", u, NULL)
    /\ UNCHANGED <<userTable, channels_map, channel_count>>

SetTopic(u, c, topic) ==
    /\ \E stored \in StoredTopic(topic) :
           channel' = [channel EXCEPT ![c].topic = stored]
    /\ sent' = channel_message_users(c, channel[c].user_list, "TOPIC", u, NULL)
    /\ UNCHANGED <<userTable, channels_map, channel_count>>

handle_topic_cmd(u, name, topic) ==
    \/ /\ ~user[u].is_registered
       /\ Refuse(u, "ERR_NOTREGISTERED")
    \/ /\ user[u].is_registered
       /\ name = NULL
       /\ Refuse(u, "ERR_NEEDMOREPARAMS")
    \/ /\ user[u].is_registered
       /\ name \in Names \ (channels_map \cup {NULL})
       /\ Refuse(u, "ERR_NOSUCHCHANNEL")
    \/ /\ user[u].is_registered
       /\ name \in channels_map
       /\ ~channel_has_user(name, u)
       /\ Refuse(u, "ERR_NOTONCHANNEL")
    \/ /\ user[u].is_registered
       /\ IsMember(u, name)
       /\ ~MayChangeTopic(u, name)
       /\ Refuse(u, "ERR_CHANOPRIVSNEEDED")
    \/ /\ user[u].is_registered
       /\ IsMember(u, name)
       /\ MayChangeTopic(u, name)
       /\ topic = NULL
       /\ Refuse(u, IF channel[name].topic = NULL THEN "RPL_NOTOPIC"
                                                  ELSE "RPL_TOPIC")
    \/ /\ user[u].is_registered
       /\ IsMember(u, name)
       /\ MayChangeTopic(u, name)
       /\ topic # NULL
       /\ SetTopic(u, name, topic)

-----------------------------------------------------------------------------
set_channel_mode(rec, mode) ==
    [rec EXCEPT
        !.moderated_mode = (mode = "+m") \/ (@ /\ mode # "-m"),
        !.topic_mode = (mode = "+t") \/ (@ /\ mode # "-t")]

set_member_mode(rec, mode, v) ==
    [rec EXCEPT
        !.channel_op = CASE mode = "+o" -> @ \cup {v}
                         [] mode = "-o" -> @ \ {v}
                         [] OTHER -> @,
        !.channel_voice = CASE mode = "+v" -> @ \cup {v}
                            [] mode = "-v" -> @ \ {v}
                            [] OTHER -> @]

\* Slip: +v is enough.
HasChannelAuthorityByVoice(u, c) ==
    u \in channel[c].channel_op \cup channel[c].channel_voice \/ user[u].is_oper

HasChannelAuthority(u, c) == u \in channel[c].channel_op \/ user[u].is_oper

(* The struct with its new mode.  The members are told if it changed, and,  *)
(* for -m alone, also if it did not.                                        *)
ChangeChannel(u, c, rec, mode) ==
    /\ channel' = [channel EXCEPT ![c] = rec]
    /\ sent' = IF rec # channel[c] \/ mode = "-m"
               THEN channel_message_users(c, rec.user_list, "MODE", u, NULL)
               ELSE {}
    /\ UNCHANGED <<userTable, channels_map, channel_count>>

\* The part of handle_channel_mode after its checks on the sender.
ApplyChannelMode(u, c, mode, member) ==
    \/ /\ mode \in ChannelModes
       /\ ChangeChannel(u, c, set_channel_mode(channel[c], mode), mode)
    \/ /\ mode \notin ChannelModes
       /\ member = NULL
       /\ Refuse(u, "ERR_UNKNOWNMODE")
    \/ /\ mode \notin ChannelModes
       /\ member \in Nick
       /\ get_user_by_nick(member) \notin channel[c].user_list
       /\ Refuse(u, "ERR_USERNOTINCHANNEL")
    \/ /\ mode \in MemberModes
       /\ member \in Nick
       /\ get_user_by_nick(member) \in channel[c].user_list
       /\ ChangeChannel(u, c,
              set_member_mode(channel[c], mode, get_user_by_nick(member)), mode)
    \/ /\ mode \notin ChannelModes \cup MemberModes
       /\ member \in Nick
       /\ get_user_by_nick(member) \in channel[c].user_list
       /\ Refuse(u, "ERR_UNKNOWNMODE")

handle_channel_mode(u, c, mode, member) ==
    \/ /\ c \notin channels_map
       /\ Refuse(u, "ERR_NOSUCHCHANNEL")
    \/ /\ c \in channels_map
       /\ mode = NULL
       /\ Refuse(u, "RPL_CHANNELMODEIS")
    \/ /\ c \in channels_map
       /\ mode # NULL
       /\ mode = "+" \/ ~channel_has_user(c, u)
       /\ Silent
    \/ /\ IsMember(u, c)
       /\ mode \notin {NULL, "+"}
       /\ ~HasChannelAuthority(u, c)
       /\ Refuse(u, "ERR_CHANOPRIVSNEEDED")
    \/ /\ IsMember(u, c)
       /\ mode \notin {NULL, "+"}
       /\ HasChannelAuthority(u, c)
       /\ ApplyChannelMode(u, c, mode, member)

handle_mode_cmd(u, target, mode, member) ==
    \/ /\ ~user[u].is_registered
       /\ Refuse(u, "ERR_NOTREGISTERED")
    \/ /\ user[u].is_registered
       /\ target = NULL
       /\ Refuse(u, "ERR_NEEDMOREPARAMS")
    \/ /\ user[u].is_registered
       /\ target \in Channel
       /\ handle_channel_mode(u, target, mode, member)
    \/ /\ user[u].is_registered
       /\ target \in Nick
       /\ handle_user_mode(u, target, mode)
=============================================================================
