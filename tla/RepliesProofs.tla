---------------------------- MODULE RepliesProofs ----------------------------
(***************************************************************************)
(* Who is sent what, proved for every value of the constants: a message    *)
(* only ever goes to a client of the user table, and a channel message     *)
(* only from somebody who may speak, to members.  And what a step may do   *)
(* to a channel: who may change its modes and its topic, and that its      *)
(* members are told of those that come and go.                             *)
(***************************************************************************)
EXTENDS ServiceProofs

Spoken == {"PRIVMSG", "NOTICE"}

\* The commands that not everybody may receive.
Confined == Spoken \cup {"NICK", "QUIT"}

\* The messages go to connected clients and are of other commands.
Plain(messages) ==
    \A m \in messages : m.to \in users_fd_map /\ m.cmd \notin Confined

\* What the handlers read of the tables: they find connected clients only.
TablesAgree ==
    /\ \A c \in Channel : channel[c].user_list \subseteq users_fd_map
    /\ UsersWithNick \subseteq users_fd_map

LEMMA TablesFindConnected == IInv => TablesAgree
<1> SUFFICES ASSUME IInv
             PROVE  TablesAgree
  OBVIOUS
<1>0. /\ channel \in [Channel -> ChannelStruct]
      /\ users_nick_map \in [Nick -> Fd \cup {NULL}]
      /\ MembershipAgrees /\ NickTableConsistent
  BY DEF IInv, TypeOK, UserTypeOK, ChannelTypeOK, ChannelInv
<1>1. ASSUME NEW c \in Channel, NEW v \in channel[c].user_list
      PROVE  v \in users_fd_map
  <2>1. v \in Fd
    BY <1>0 DEF ChannelStruct
  <2>2. c \in Joined(v)
    BY <1>0, <2>1 DEF MembershipAgrees
  <2> QED
    BY <1>0, <2>1, <2>2 DEF MembershipAgrees
<1>2. ASSUME NEW v \in UsersWithNick
      PROVE  v \in users_fd_map
  <2>1. PICK n \in Nick : users_nick_map[n] = v /\ v # NULL
    BY DEF UsersWithNick, get_user_by_nick
  <2> QED
    BY <1>0, <2>1 DEF NickTableConsistent
<1> QED
  BY <1>1, <1>2 DEF TablesAgree

LEMMA PlainEvent ==
    ASSUME NEW v \in users_fd_map, NEW cmd, cmd \notin Confined, NEW src, NEW about
    PROVE  Plain({Event(v, cmd, src, about)})
BY DEF Plain, Event

LEMMA PlainUnion ==
    ASSUME NEW A, NEW B, Plain(A), Plain(B)
    PROVE  Plain(A \cup B)
BY DEF Plain

LEMMA PlainNumeric ==
    ASSUME NEW u \in users_fd_map, NEW r \in Numerics
    PROVE  Plain({Numeric(u, r)})
BY DEF Plain, Numeric, Event, Numerics, Confined, Spoken

LEMMA PlainRelay ==
    ASSUME NEW list \in SUBSET users_fd_map, NEW cmd, cmd \notin Confined,
           NEW c, NEW src, NEW exclude
    PROVE  Plain(channel_message_users(c, list, cmd, src, exclude))
BY DEF Plain, channel_message_users, Event

LEMMA PlainNames ==
    ASSUME NEW u \in users_fd_map, NEW c, NEW list
    PROVE  Plain(NamesReplies(u, c, list))
BY DEF Plain, NamesReplies, Numeric, Event, Confined, Spoken

LEMMA PlainWelcome ==
    ASSUME NEW u \in users_fd_map
    PROVE  /\ Plain(LusersReplies(u))
           /\ Plain(MotdReplies(u))
           /\ Plain(WelcomeReplies(u))
<1>1. Plain(LusersReplies(u))
  BY DEF Plain, LusersReplies, Numeric, Event, Confined, Spoken
<1>2. Plain(MotdReplies(u))
  BY DEF Plain, MotdReplies, Numeric, Event, Confined, Spoken
<1>3. Plain({Numeric(u, "RPL_WELCOME")})
  BY PlainNumeric DEF Numerics
<1> QED
  BY <1>1, <1>2, <1>3, PlainUnion DEF WelcomeReplies
-----------------------------------------------------------------------------
(* The handlers that change a table. *)

LEMMA PlainUserLine ==
    ASSUME TablesTypeOK, TablesAgree, NEW u \in users_fd_map,
           \/ \E complete \in BOOLEAN : handle_user_cmd(u, complete)
           \/ \E pass \in OperParams : handle_oper_cmd(u, pass)
           \/ \E away_msg \in AwayParams : handle_away_cmd(u, away_msg)
    PROVE  Plain(sent')
<1>0. u \in Fd /\ Plain({})
  BY DEF TablesTypeOK, UserTypeOK, Plain
<1>2. ASSUME NEW complete, handle_user_cmd(u, complete)
      PROVE  Plain(sent')
  <2>1. \/ sent' = {} \/ sent' = WelcomeReplies(u)
        \/ sent' = {Numeric(u, "ERR_ALREADYREGISTERED")}
    BY <1>2 DEF handle_user_cmd, Refuse, Silent, SetUsername, UpdateAndRegister
  <2>2. Plain({Numeric(u, "ERR_ALREADYREGISTERED")})
    BY PlainNumeric DEF Numerics
  <2> QED
    BY <1>0, <2>1, <2>2, PlainWelcome
<1>3. ASSUME NEW pass, handle_oper_cmd(u, pass)
      PROVE  Plain(sent')
  <2>1. \E r \in {"ERR_NOTREGISTERED", "ERR_NEEDMOREPARAMS",
                  "ERR_PASSWDMISMATCH", "RPL_YOUREOP"} : sent' = {Numeric(u, r)}
    BY <1>3 DEF handle_oper_cmd, Refuse, SetOperator
  <2>2. \E r \in Numerics : sent' = {Numeric(u, r)}
    BY <2>1 DEF Numerics
  <2> QED
    BY <2>2, PlainNumeric
<1>4. ASSUME NEW away_msg, handle_away_cmd(u, away_msg)
      PROVE  Plain(sent')
  <2>1. \E r \in {"ERR_NOTREGISTERED", "RPL_NOWAWAY", "RPL_UNAWAY"} :
            sent' = {Numeric(u, r)}
    <3>1. CASE away_msg # NULL
      BY <1>4, <3>1 DEF handle_away_cmd, Refuse, SetAway
    <3>2. CASE away_msg = NULL
      BY <1>4, <3>2 DEF handle_away_cmd, Refuse, SetAway
    <3> QED
      BY <3>1, <3>2
  <2>2. \E r \in Numerics : sent' = {Numeric(u, r)}
    BY <2>1 DEF Numerics
  <2> QED
    BY <2>2, PlainNumeric
<1> QED
  BY <1>2, <1>3, <1>4

LEMMA PlainChannelLine ==
    ASSUME TablesTypeOK, TablesAgree, NEW u \in users_fd_map,
           \/ \E name \in Names : handle_join_cmd(u, name)
           \/ \E name \in Names : handle_part_cmd(u, name)
           \/ \E name \in Names, topic \in TopicParams :
                  handle_topic_cmd(u, name, topic)
    PROVE  Plain(sent')
<1>0. /\ u \in Fd /\ Plain({}) /\ channels_map \subseteq Channel
      /\ \A c \in Channel : channel[c] \in ChannelStruct
      /\ "JOIN" \notin Confined /\ "PART" \notin Confined
      /\ "TOPIC" \notin Confined
  BY DEF TablesTypeOK, UserTypeOK, ChannelTypeOK, Plain, Confined, Spoken
<1>1. ASSUME NEW name \in Names, handle_join_cmd(u, name)
      PROVE  Plain(sent')
  <2>1. ASSUME name \in Channel
        PROVE  Plain(JoinReplies(u, name,
                                 channel_add_user(FoundOrCreated(name), u)))
    <3> DEFINE rec == channel_add_user(FoundOrCreated(name), u)
    <3>1. /\ FoundOrCreated(name) \in ChannelStruct
          /\ FoundOrCreated(name).user_list \subseteq users_fd_map
      BY <1>0, <2>1, NewChannelType DEF FoundOrCreated, NewChannel, TablesAgree
    <3>2. rec.user_list \in SUBSET users_fd_map
      BY <3>1 DEF channel_add_user, ChannelStruct
    <3> HIDE DEF rec
    <3>3. Plain(channel_message_users(name, rec.user_list, "JOIN", u, NULL))
      BY <1>0, <3>2, PlainRelay
    <3>4. Plain(NamesReplies(u, name, rec.user_list))
      BY PlainNames
    <3>5. Plain({Numeric(u, "RPL_TOPIC")})
      BY PlainNumeric DEF Numerics
    <3>6. Plain(JoinReplies(u, name, rec))
      BY <1>0, <3>3, <3>4, <3>5, PlainUnion DEF JoinReplies
    <3> QED
      BY <3>6 DEF rec
  <2>2. \/ sent' = {}
        \/ name \in Channel /\ sent' =
               JoinReplies(u, name, channel_add_user(FoundOrCreated(name), u))
        \/ \E r \in {"ERR_NEEDMOREPARAMS", "ERR_NOSUCHCHANNEL",
                     "ERR_NOTREGISTERED"} : sent' = {Numeric(u, r)}
    BY <1>1 DEF handle_join_cmd, Refuse, Silent, JoinChannel, AbandonJoin
  <2>3. ASSUME NEW r \in {"ERR_NEEDMOREPARAMS", "ERR_NOSUCHCHANNEL",
                          "ERR_NOTREGISTERED"}
        PROVE  Plain({Numeric(u, r)})
    BY PlainNumeric DEF Numerics
  <2> QED
    BY <1>0, <2>1, <2>2, <2>3
<1>2. ASSUME NEW name \in Names, handle_part_cmd(u, name)
      PROVE  Plain(sent')
  <2>1. Plain(PartRefusal(u, name))
    BY <1>0, PlainNumeric DEF PartRefusal, Numerics
  <2>2. ASSUME IsMember(u, name)
        PROVE  Plain(channel_message_users(name, channel[name].user_list,
                                           "PART", u, NULL))
    <3>1. channel[name].user_list \in SUBSET users_fd_map
      BY <1>0, <2>2 DEF IsMember, TablesAgree
    <3> QED
      BY <1>0, <3>1, PlainRelay
  <2>3. /\ Plain({Numeric(u, "ERR_NEEDMOREPARAMS")})
        /\ Plain({Numeric(u, "ERR_NOTREGISTERED")})
    BY PlainNumeric DEF Numerics
  <2> QED
    BY <1>2, <2>1, <2>2, <2>3 DEF handle_part_cmd, Refuse, Answer, PartChannel
<1>3. ASSUME NEW name \in Names, NEW topic \in TopicParams,
             handle_topic_cmd(u, name, topic)
      PROVE  Plain(sent')
  <2>1. ASSUME IsMember(u, name)
        PROVE  Plain(channel_message_users(name, channel[name].user_list,
                                           "TOPIC", u, NULL))
    <3>1. channel[name].user_list \in SUBSET users_fd_map
      BY <1>0, <2>1 DEF IsMember, TablesAgree
    <3> QED
      BY <1>0, <3>1, PlainRelay
  <2>2. \/ IsMember(u, name) /\ sent' = channel_message_users(
               name, channel[name].user_list, "TOPIC", u, NULL)
        \/ \E r \in {"ERR_NOTREGISTERED", "ERR_NEEDMOREPARAMS",
                     "ERR_NOSUCHCHANNEL", "ERR_NOTONCHANNEL",
                     "ERR_CHANOPRIVSNEEDED", "RPL_NOTOPIC", "RPL_TOPIC"} :
               sent' = {Numeric(u, r)}
    <3>1. CASE channel[name].topic = NULL
      BY <1>3, <3>1 DEF handle_topic_cmd, Refuse, SetTopic
    <3>2. CASE channel[name].topic # NULL
      BY <1>3, <3>2 DEF handle_topic_cmd, Refuse, SetTopic
    <3> QED
      BY <3>1, <3>2
  <2>3. ASSUME NEW r \in {"ERR_NOTREGISTERED", "ERR_NEEDMOREPARAMS",
                         "ERR_NOSUCHCHANNEL", "ERR_NOTONCHANNEL",
                         "ERR_CHANOPRIVSNEEDED", "RPL_NOTOPIC", "RPL_TOPIC"}
        PROVE  Plain({Numeric(u, r)})
    <3>1. r \in Numerics
      BY DEF Numerics
    <3> QED
      BY <3>1, PlainNumeric
  <2> QED
    BY <2>1, <2>2, <2>3
<1> QED
  BY <1>1, <1>2, <1>3

LEMMA PlainModeLine ==
    ASSUME TablesTypeOK, TablesAgree, NEW u \in users_fd_map, NEW target,
           NEW mode, NEW member \in Nick \cup {NULL},
           handle_mode_cmd(u, target, mode, member)
    PROVE  Plain(sent')
<1> DEFINE Refusals == {"ERR_NOTREGISTERED", "ERR_NEEDMOREPARAMS",
               "ERR_NOSUCHCHANNEL", "RPL_CHANNELMODEIS", "ERR_CHANOPRIVSNEEDED",
               "ERR_UNKNOWNMODE", "ERR_USERNOTINCHANNEL", "ERR_USERSDONTMATCH",
               "RPL_UMODEIS"}
<1>0. /\ Plain({}) /\ "MODE" \notin Confined
      /\ \A c \in channels_map : c \in Channel /\ channel[c] \in ChannelStruct
  BY DEF TablesTypeOK, ChannelTypeOK, Plain, Confined, Spoken
<1>1. ASSUME NEW r \in Refusals, Refuse(u, r)
      PROVE  Plain(sent')
  <2>1. r \in Numerics
    BY DEF Numerics
  <2> QED
    BY <1>1, <2>1, PlainNumeric DEF Refuse
<1>2. ASSUME NEW c \in channels_map, ApplyChannelMode(u, c, mode, member)
      PROVE  Plain(sent')
  <2>1. /\ channel[c].user_list \in SUBSET users_fd_map
        /\ set_channel_mode(channel[c], mode).user_list = channel[c].user_list
        /\ \A v : set_member_mode(channel[c], mode, v).user_list
                      = channel[c].user_list
    BY <1>0 DEF set_channel_mode, set_member_mode, ChannelStruct, TablesAgree
  <2>2. ASSUME NEW rec, rec.user_list = channel[c].user_list,
               ChangeChannel(u, c, rec, mode)
        PROVE  Plain(sent')
    <3>1. Plain(channel_message_users(c, rec.user_list, "MODE", u, NULL))
      BY <1>0, <2>1, <2>2, PlainRelay
    <3> QED
      BY <1>0, <2>2, <3>1 DEF ChangeChannel
  <2>3. \/ ChangeChannel(u, c, set_channel_mode(channel[c], mode), mode)
        \/ \E v : ChangeChannel(u, c, set_member_mode(channel[c], mode, v), mode)
        \/ Refuse(u, "ERR_UNKNOWNMODE")
        \/ Refuse(u, "ERR_USERNOTINCHANNEL")
    BY <1>2 DEF ApplyChannelMode
  <2> QED
    BY <1>1, <2>1, <2>2, <2>3
<1>3. ASSUME NEW c, handle_channel_mode(u, c, mode, member)
      PROVE  Plain(sent')
  <2>1. \/ c \in channels_map /\ ApplyChannelMode(u, c, mode, member)
        \/ sent' = {}
        \/ Refuse(u, "ERR_NOSUCHCHANNEL")
        \/ Refuse(u, "RPL_CHANNELMODEIS")
        \/ Refuse(u, "ERR_CHANOPRIVSNEEDED")
    BY <1>3 DEF handle_channel_mode, Silent, IsMember
  <2> QED
    BY <1>0, <1>1, <1>2, <2>1
<1>4. ASSUME NEW n, handle_user_mode(u, n, mode)
      PROVE  Plain(sent')
  <2>1. \/ sent' = {} \/ sent' = {Event(u, "MODE", u, NULL)}
        \/ Refuse(u, "ERR_USERSDONTMATCH")
        \/ Refuse(u, "RPL_UMODEIS")
        \/ Refuse(u, "ERR_UNKNOWNMODE")
    BY <1>4 DEF handle_user_mode, Silent, SetOperator
  <2> QED
    BY <1>0, <1>1, <2>1, PlainEvent
<1>5. \/ handle_channel_mode(u, target, mode, member)
      \/ handle_user_mode(u, target, mode)
      \/ Refuse(u, "ERR_NOTREGISTERED")
      \/ Refuse(u, "ERR_NEEDMOREPARAMS")
  BY DEF handle_mode_cmd
<1> QED
  BY <1>1, <1>3, <1>4, <1>5
-----------------------------------------------------------------------------
(* The handlers that only read the tables. *)

LEMMA PlainQueries ==
    ASSUME TablesTypeOK, TablesAgree, NEW u \in users_fd_map, NEW name \in Names
    PROVE  /\ name \notin Channel => Plain(handle_whois_cmd(u, name))
           /\ Plain(handle_who_cmd(u, name))
           /\ Plain(handle_names_cmd(u, name))
           /\ Plain(handle_list_cmd(u, name))
<1>0. /\ u \in Fd /\ Plain({})
      /\ Plain({Numeric(u, "ERR_NOTREGISTERED")})
      /\ Plain({Numeric(u, "ERR_NOSUCHNICK")})
      /\ user[u].is_registered \in BOOLEAN
  <2>1. u \in Fd /\ Plain({}) /\ user[u].is_registered \in BOOLEAN
    BY DEF TablesTypeOK, UserTypeOK, User, Plain
  <2> QED
    BY <2>1, PlainNumeric DEF Numerics
<1>1. ASSUME name \notin Channel
      PROVE  Plain(handle_whois_cmd(u, name))
  <2>1. \A v : Plain(WhoisReplies(u, v))
    BY DEF WhoisReplies, Plain, Numeric, Event, Confined, Spoken
  <2>2. \/ handle_whois_cmd(u, name) = {}
        \/ handle_whois_cmd(u, name) = {Numeric(u, "ERR_NOTREGISTERED")}
        \/ handle_whois_cmd(u, name) = {Numeric(u, "ERR_NOSUCHNICK")}
        \/ handle_whois_cmd(u, name) = WhoisReplies(u, get_user_by_nick(name))
    <3> DEFINE v == get_user_by_nick(name)
    <3>1. CASE v # NULL /\ user[v].is_registered
      BY <1>0, <3>1 DEF handle_whois_cmd
    <3>2. CASE ~(v # NULL /\ user[v].is_registered)
      BY <1>0, <3>2 DEF handle_whois_cmd
    <3> QED
      BY <3>1, <3>2
  <2> QED
    BY <1>0, <2>1, <2>2
<1>2. Plain(handle_who_cmd(u, name))
  BY DEF handle_who_cmd, Plain, Numeric, Event, Confined, Spoken
<1>3. Plain(handle_names_cmd(u, name))
  BY <1>0, PlainNames DEF handle_names_cmd
<1>4. Plain(handle_list_cmd(u, name))
  <2>1. \A cs : Plain({Event(u, "RPL_LIST", NULL, c) : c \in cs}
                          \cup {Numeric(u, "RPL_LISTEND")})
    BY DEF Plain, Numeric, Event, Confined, Spoken
  <2> QED
    BY <1>0, <2>1 DEF handle_list_cmd
<1> QED
  BY <1>1, <1>2, <1>3, <1>4

\* Told of a new nickname or of the end of a client, as the tables are.
MayLearn(m) ==
    m.cmd \in {"NICK", "QUIT"} =>
        /\ m.src = active
        /\ \/ m.cmd = "NICK" /\ m.to = m.src
           \/ /\ m.to # m.src
              /\ Joined(m.to) \cap Joined(m.src) # {}

\* What may be told: to connected clients, and of NICK and QUIT what they may learn.
Told(messages) ==
    \A m \in messages : m.to \in users_fd_map /\ m.cmd \notin Spoken /\ MayLearn(m)

\* The walk over the channels of u keeps to them.
LEMMA WalkInJoined ==
    ASSUME TablesTypeOK, NEW u \in Fd
    PROVE  HhNextWalk(u) \subseteq Joined(u) /\ HhNextWalk(u) \subseteq Channel
<1>0. joined_channels[u] \in Seq(Channel)
  BY DEF TablesTypeOK, UserTypeOK
<1>1. CASE joined_channels[u] = <<>>
  BY <1>1 DEF HhNextWalk
<1>2. CASE joined_channels[u] # <<>>
  <2>1. 1 \in DOMAIN joined_channels[u]
    BY <1>0, <1>2
  <2>2. Head(joined_channels[u]) = joined_channels[u][1]
    BY <1>0, <1>2
  <2> QED
    BY <1>0, <1>2, <2>1, <2>2 DEF HhNextWalk, Joined, Range
<1> QED
  BY <1>1, <1>2

\* The sender of NICK, and clients in the channel where the walk over its channels
\* stops.
LEMMA NickRelayTold ==
    ASSUME TablesTypeOK, TablesAgree, MembershipAgrees, NEW u \in users_fd_map,
           active = u
    PROVE  Told(relay_nick_change(u))
<1>0. u \in Fd /\ HhNextWalk(u) \subseteq Joined(u) /\ HhNextWalk(u) \subseteq Channel
  BY WalkInJoined DEF TablesTypeOK, UserTypeOK
<1>1. ASSUME NEW c \in HhNextWalk(u), NEW v \in channel[c].user_list, v # u
      PROVE  v \in users_fd_map /\ Joined(v) \cap Joined(u) # {}
  <2>1. v \in users_fd_map /\ v \in Fd
    BY <1>0, <1>1 DEF TablesAgree, TablesTypeOK, UserTypeOK
  <2>2. c \in Joined(v)
    BY <1>0, <2>1 DEF MembershipAgrees
  <2> QED
    BY <1>0, <2>1, <2>2
<1> DEFINE Companions ==
        (UNION {channel[c].user_list : c \in HhNextWalk(u)}) \ {u}
<1>2. ASSUME NEW m \in relay_nick_change(u)
      PROVE  /\ m.cmd = "NICK" /\ m.src = u
             /\ \/ m.to = u
                \/ /\ m.to # u /\ m.to \in users_fd_map
                   /\ Joined(m.to) \cap Joined(u) # {}
  <2>1. CASE m = Event(u, "NICK", u, NULL)
    BY <2>1 DEF Event
  <2>2. CASE \E v \in Companions : m = Event(v, "NICK", u, NULL)
    <3>1. PICK v \in Companions : m = Event(v, "NICK", u, NULL)
      BY <2>2
    <3>2. v \in users_fd_map /\ Joined(v) \cap Joined(u) # {} /\ v # u
      <4>1. PICK c \in HhNextWalk(u) : v \in channel[c].user_list
        BY <3>1
      <4> QED
        BY <1>1, <3>1, <4>1
    <3> HIDE DEF Companions
    <3> QED
      BY <3>1, <3>2 DEF Event
  <2>3. relay_nick_change(u) =
            {Event(u, "NICK", u, NULL)}
                \cup {Event(v, "NICK", u, NULL) : v \in Companions}
    BY Zenon DEF relay_nick_change
  <2> HIDE DEF Companions
  <2> QED
    BY <1>2, <2>1, <2>2, <2>3
<1> QED
  BY <1>2 DEF Told, MayLearn, Spoken

\* The clients users_share_channel finds for QUIT.
LEMMA QuitRelayTold ==
    ASSUME TablesTypeOK, TablesAgree, NEW u \in users_fd_map, active = u,
           NEW told \in SUBSET {w \in UsersWithNick \ {u} : users_share_channel(u, w)}
    PROVE  Told({Event(v, "QUIT", u, NULL) : v \in told})
<1>0. HhNextWalk(u) \subseteq Joined(u)
  BY WalkInJoined DEF TablesTypeOK, UserTypeOK
<1> SUFFICES ASSUME NEW v \in told
             PROVE  LET m == Event(v, "QUIT", u, NULL)
                    IN  m.to \in users_fd_map /\ m.cmd \notin Spoken /\ MayLearn(m)
  BY DEF Told
<1>1. /\ v # u /\ v \in users_fd_map
      /\ Joined(v) \cap Joined(u) # {}
  BY <1>0 DEF TablesAgree, users_share_channel
<1> QED
  BY <1>1 DEF Event, MayLearn, Spoken

LEMMA CompanionsTold ==
    ASSUME TablesTypeOK, TablesAgree, MembershipAgrees, NEW u \in users_fd_map,
           active = u,
           (\E n \in Nick \cup {NULL} : handle_nick_cmd(u, n)) \/ handle_quit_cmd(u)
    PROVE  UNCHANGED <<users_fd_map, joined_channels>> /\ Told(sent')
<1>0. u \in Fd /\ Plain({})
  BY DEF TablesTypeOK, UserTypeOK, Plain
<1>1. ASSUME NEW messages, Plain(messages)
      PROVE  Told(messages)
  BY <1>1 DEF Plain, Confined, MayLearn, Told
<1>2. ASSUME NEW n, handle_nick_cmd(u, n)
      PROVE  UNCHANGED <<users_fd_map, joined_channels>> /\ Told(sent')
  <2>1. Told(relay_nick_change(u))
    BY NickRelayTold
  <2>2. /\ Told({Numeric(u, "ERR_ERRONEOUSNICKNAME")})
        /\ Told({Numeric(u, "ERR_NICKNAMEINUSE")})
    <3>1. /\ Plain({Numeric(u, "ERR_ERRONEOUSNICKNAME")})
          /\ Plain({Numeric(u, "ERR_NICKNAMEINUSE")})
      BY PlainNumeric DEF Numerics
    <3> QED
      BY <1>1, <3>1
  <2>3. Told({}) /\ Told(WelcomeReplies(u))
    BY <1>0, <1>1, PlainWelcome
  <2>4. \/ sent' = {} \/ sent' = WelcomeReplies(u)
        \/ sent' = {} \cup WelcomeReplies(u)
        \/ sent' = relay_nick_change(u)
        \/ sent' = relay_nick_change(u) \cup WelcomeReplies(u)
        \/ sent' = {Numeric(u, "ERR_ERRONEOUSNICKNAME")}
        \/ sent' = {Numeric(u, "ERR_NICKNAMEINUSE")}
    BY <1>2 DEF handle_nick_cmd, Refuse, ChangeNick, UpdateAndRegister
  <2>5. UNCHANGED <<users_fd_map, joined_channels>>
    BY <1>2 DEF handle_nick_cmd, Refuse, ChangeNick, userTable
  <2>6. ASSUME NEW A, NEW B, Told(A), Told(B)
        PROVE  Told(A \cup B)
    BY <2>6 DEF Told
  <2> QED
    BY <2>1, <2>2, <2>3, <2>4, <2>5, <2>6
<1>3. ASSUME handle_quit_cmd(u)
      PROVE  UNCHANGED <<users_fd_map, joined_channels>> /\ Told(sent')
  BY <1>3, QuitRelayTold DEF handle_quit_cmd
<1> QED
  BY <1>2, <1>3

\* What is required of a message, as the tables are.
MayBeSent(m) ==
    /\ m.to \in users_fd_map
    /\ MayLearn(m)
    /\ m.cmd \in Spoken /\ m.about # NULL =>
           /\ {m.to, m.src} \subseteq channel[m.about].user_list
           /\ channel[m.about].moderated_mode =>
                  \/ user[m.src].is_oper
                  \/ m.src \in channel[m.about].channel_op
                  \/ m.src \in channel[m.about].channel_voice

LEMMA PlainMayBeSent ==
    ASSUME NEW messages, Plain(messages), NEW m \in messages
    PROVE  MayBeSent(m)
BY DEF Plain, MayBeSent, MayLearn, Confined

LEMMA SpeechMayBeSent ==
    ASSUME TablesTypeOK, TablesAgree, NEW u \in users_fd_map, NEW target \in Names,
           NEW has_text \in BOOLEAN, NEW is_notice \in BOOLEAN,
           NEW m \in handle_msg_cmd(u, target, has_text, is_notice)
    PROVE  MayBeSent(m)
<1>0. /\ u \in Fd /\ Plain({})
      /\ user[u].is_registered \in BOOLEAN
      /\ \A v \in Fd : user[v].is_away \in BOOLEAN
      /\ \A c \in Channel : channel[c].moderated_mode \in BOOLEAN
      /\ channels_map \subseteq Channel
  BY DEF TablesTypeOK, UserTypeOK, User, ChannelTypeOK, ChannelStruct, Plain
<1>1. ASSUME NEW r \in Numerics
      PROVE  Plain(UnlessNotice(is_notice, u, r)) /\ Plain({Numeric(u, r)})
  BY <1>0, <1>1, PlainNumeric DEF UnlessNotice
<1>2. /\ "ERR_NOSUCHNICK" \in Numerics /\ "ERR_CANNOTSENDTOCHAN" \in Numerics
      /\ "RPL_AWAY" \in Numerics /\ "ERR_NORECIPIENT" \in Numerics
      /\ "ERR_NOTEXTTOSEND" \in Numerics /\ "ERR_NOTREGISTERED" \in Numerics
  BY DEF Numerics
<1>3. ASSUME NEW c \in Channel, m \in handle_privmsg_channel(u, c, is_notice)
      PROVE  MayBeSent(m)
  <2>1. CASE IsMember(u, c) /\ MaySpeak(u, c)
    <3>1. m \in channel_message_users(c, channel[c].user_list,
                                      MsgCmd(is_notice), u, u)
      BY <1>3, <2>1 DEF handle_privmsg_channel, IsMember
    <3>2. PICK v \in channel[c].user_list : m = Event(v, MsgCmd(is_notice), u, c)
      BY <3>1 DEF channel_message_users
    <3>3. m.to = v /\ m.src = u /\ m.about = c
      BY <3>2 DEF Event
    <3>4. v \in users_fd_map /\ u \in channel[c].user_list
      BY <2>1 DEF TablesAgree, IsMember, channel_has_user
    <3>5. channel[c].moderated_mode =>
              \/ user[u].is_oper
              \/ u \in channel[c].channel_op
              \/ u \in channel[c].channel_voice
      BY <2>1 DEF MaySpeak
    <3>6. m.cmd \notin {"NICK", "QUIT"}
      BY <3>2 DEF Event, MsgCmd
    <3> QED
      BY <3>3, <3>4, <3>5, <3>6 DEF MayBeSent, MayLearn
  <2>2. CASE ~(IsMember(u, c) /\ MaySpeak(u, c))
    <3>1. \/ m \in UnlessNotice(is_notice, u, "ERR_NOSUCHNICK")
          \/ m \in UnlessNotice(is_notice, u, "ERR_CANNOTSENDTOCHAN")
          \/ m \in {Numeric(u, "ERR_CANNOTSENDTOCHAN")}
      <4>1. CASE c \notin channels_map
        BY <1>3, <4>1 DEF handle_privmsg_channel, IsMember
      <4>2. CASE c \in channels_map /\ ~channel_has_user(c, u)
        BY <1>3, <4>2 DEF handle_privmsg_channel, IsMember
      <4>3. CASE IsMember(u, c) /\ ~MaySpeak(u, c)
        BY <1>3, <4>3 DEF handle_privmsg_channel, IsMember
      <4> QED
        BY <2>2, <4>1, <4>2, <4>3 DEF IsMember
    <3> QED
      BY <1>1, <1>2, <3>1, PlainMayBeSent
  <2> QED
    BY <2>1, <2>2
<1>4. ASSUME NEW n \in Nick, m \in handle_privmsg_user(u, n, is_notice)
      PROVE  MayBeSent(m)
  <2> DEFINE target_user == get_user_by_nick(n)
  <2>1. target_user # NULL => target_user \in users_fd_map /\ target_user \in Fd
    BY DEF TablesAgree, UsersWithNick, get_user_by_nick, TablesTypeOK, UserTypeOK
  <2>2. \/ m \in UnlessNotice(is_notice, u, "ERR_NOSUCHNICK")
        \/ m \in UnlessNotice(is_notice, u, "RPL_AWAY")
        \/ target_user # NULL /\ m = Event(target_user, MsgCmd(is_notice), u, NULL)
    <3>1. CASE target_user = NULL
      BY <1>4, <3>1 DEF handle_privmsg_user
    <3>2. CASE target_user # NULL /\ user[target_user].is_away
      BY <1>4, <3>2 DEF handle_privmsg_user
    <3>3. CASE target_user # NULL /\ ~user[target_user].is_away
      BY <1>4, <3>3 DEF handle_privmsg_user
    <3> QED
      BY <3>1, <3>2, <3>3
  <2> HIDE DEF target_user
  <2>3. target_user # NULL /\ m = Event(target_user, MsgCmd(is_notice), u, NULL)
            => MayBeSent(m)
    BY <2>1 DEF Event, MsgCmd, MayBeSent, MayLearn
  <2> QED
    BY <1>1, <1>2, <2>2, <2>3, PlainMayBeSent
<1>5. \/ m \in UnlessNotice(is_notice, u, "ERR_NORECIPIENT")
      \/ m \in UnlessNotice(is_notice, u, "ERR_NOTEXTTOSEND")
      \/ m \in UnlessNotice(is_notice, u, "ERR_NOTREGISTERED")
      \/ target \in Channel /\ m \in handle_privmsg_channel(u, target, is_notice)
      \/ target \in Nick /\ m \in handle_privmsg_user(u, target, is_notice)
  BY <1>0, NamesAssumption DEF handle_msg_cmd, Names
<1> QED
  BY <1>1, <1>2, <1>3, <1>4, <1>5, PlainMayBeSent
-----------------------------------------------------------------------------
(* Every line, every step. *)

SpeechLine(u) ==
    \E target \in Names, has_text \in BOOLEAN, is_notice \in BOOLEAN :
        Answer(handle_msg_cmd(u, target, has_text, is_notice))

NickOrQuitLine(u) ==
    (\E n \in Nick \cup {NULL} : handle_nick_cmd(u, n)) \/ handle_quit_cmd(u)

LEMMA OtherLinesPlain ==
    ASSUME TablesTypeOK, TablesAgree, NEW u \in users_fd_map, HandleLine(u)
    PROVE  NickOrQuitLine(u) \/ SpeechLine(u) \/ Plain(sent')
<1>1. CASE \/ \E complete \in BOOLEAN : handle_user_cmd(u, complete)
           \/ \E pass \in OperParams : handle_oper_cmd(u, pass)
           \/ \E away_msg \in AwayParams : handle_away_cmd(u, away_msg)
  BY <1>1, PlainUserLine
<1>2. CASE \/ \E name \in Names : handle_join_cmd(u, name)
           \/ \E name \in Names : handle_part_cmd(u, name)
           \/ \E name \in Names, topic \in TopicParams :
                  handle_topic_cmd(u, name, topic)
  BY <1>2, PlainChannelLine
<1>3. CASE SpeechLine(u)
  BY <1>3
<1>4. CASE \/ \E n \in Nick \cup {NULL} : Answer(handle_whois_cmd(u, n))
           \/ \E mask \in Names : Answer(handle_who_cmd(u, mask))
           \/ \E name \in Names : Answer(handle_names_cmd(u, name))
           \/ \E name \in Names : Answer(handle_list_cmd(u, name))
  <2>1. \A n \in Nick \cup {NULL} : n \in Names /\ n \notin Channel
    BY NamesAssumption DEF Names
  <2> QED
    BY <1>4, <2>1, PlainQueries DEF Answer
<1>5. CASE \/ Answer(LusersReplies(u))
           \/ Answer(MotdReplies(u))
           \/ Answer({Numeric(u, "PONG")})
           \/ Answer({Numeric(u, "ERR_UNKNOWNCOMMAND")})
           \/ Silent
  <2>1. Plain({Numeric(u, "PONG")}) /\ Plain({Numeric(u, "ERR_UNKNOWNCOMMAND")})
    BY PlainNumeric DEF Numerics
  <2>2. Plain({})
    BY DEF Plain
  <2> QED
    BY <1>5, <2>1, <2>2, PlainWelcome DEF Answer, Silent
<1>6. CASE \/ \E target \in Channel, mode \in ModeParams,
                 member \in Nick \cup {NULL} :
                  handle_mode_cmd(u, target, mode, member)
           \/ \E target \in Nick \cup {NULL}, mode \in UserModes :
                  handle_mode_cmd(u, target, mode, NULL)
  BY <1>6, PlainModeLine
<1> QED
  BY <1>1, <1>2, <1>3, <1>4, <1>5, <1>6 DEF HandleLine, SpeechLine, NickOrQuitLine

\* What was just sent was allowed, as the tables are after the step.
SentAllowed == NoSendToClosedFd /\ ModeratedSpeech /\ RelaysReachCompanions

LEMMA LineSendsAllowed ==
    ASSUME IInv, NEW u \in Fd, handle_user_msg(u)
    PROVE  SentAllowed'
<1>0. /\ TypeOK /\ TablesTypeOK /\ TablesAgree /\ u \in users_fd_map
      /\ HandleLine(u) /\ MembershipAgrees /\ active = u /\ active' = active
  BY TablesFindConnected, NamesAssumption
     DEF IInv, TypeOK, TablesTypeOK, handle_user_msg, ConnectionsWatched, ChannelInv
<1>1. users_fd_map' = users_fd_map
  BY <1>0, LineEffects, LineFrame DEF ReadOnly, userTable
<1>2. CASE Plain(sent')
  BY <1>1, <1>2 DEF Plain, Confined, Spoken, SentAllowed, NoSendToClosedFd,
                    ModeratedSpeech, RelaysReachCompanions
<1>3. CASE SpeechLine(u)
  <2>1. UNCHANGED <<userTable, channelTable>>
    BY <1>3 DEF SpeechLine, Answer
  <2>2. \A m \in sent' : MayBeSent(m)
    BY <1>0, <1>3, SpeechMayBeSent DEF SpeechLine, Answer
  <2>3. \A m \in sent' : MayBeSent(m)'
    BY <1>0, <2>1, <2>2 DEF MayBeSent, MayLearn, Joined, userTable, channelTable
  <2> QED
    BY <2>3 DEF MayBeSent, MayLearn, Spoken, SentAllowed, NoSendToClosedFd,
                ModeratedSpeech, RelaysReachCompanions
<1>4. CASE NickOrQuitLine(u)
  <2>1. /\ UNCHANGED <<users_fd_map, joined_channels>>
        /\ \A m \in sent' : /\ m.to \in users_fd_map
                            /\ m.cmd \notin Spoken
                            /\ MayLearn(m)
    BY <1>0, <1>4, CompanionsTold DEF NickOrQuitLine, Told
  <2>2. \A m \in sent' : MayLearn(m)'
    BY <1>0, <2>1 DEF MayLearn, Joined
  <2> QED
    BY <2>1, <2>2 DEF MayLearn, Spoken, SentAllowed, NoSendToClosedFd,
                      ModeratedSpeech, RelaysReachCompanions
<1> QED
  BY <1>0, <1>2, <1>3, <1>4, OtherLinesPlain

\* What a crash leaves behind was allowed too: the walk is over channels of the
\* client, and those told before it runs off share one with it.
LEMMA CrashSendsAllowed ==
    ASSUME IInv, NEW u \in Fd, CrashStep(u)
    PROVE  SentAllowed'
<1>0. /\ TablesTypeOK /\ TablesAgree /\ MembershipAgrees /\ u \in users_fd_map
      /\ active = u
      /\ UNCHANGED <<users_fd_map, joined_channels, active>>
  BY CrashFrame, TablesFindConnected, NamesAssumption
     DEF IInv, TypeOK, TablesTypeOK, ConnectionsWatched, ChannelInv, userTable
<1>1. Told(sent')
  <2>1. CASE CrashInNick(u)
    BY <1>0, <2>1, NickRelayTold DEF CrashInNick, Crash
  <2>2. CASE CrashInQuit(u)
    <3>1. PICK told \in SUBSET (UsersWithNick \ (NotInFirstChannel(u) \cup {u})) :
              sent' = {Event(v, "QUIT", u, NULL) : v \in told}
      BY <2>2 DEF CrashInQuit, Crash
    <3>2. told \in SUBSET {w \in UsersWithNick \ {u} : users_share_channel(u, w)}
      BY DEF NotInFirstChannel
    <3> QED
      BY <1>0, <3>1, <3>2, QuitRelayTold
  <2>3. CASE CrashInWho(u)
    BY <2>3 DEF CrashInWho, Crash, Told
  <2> QED
    BY <2>1, <2>2, <2>3 DEF CrashStep
<1> QED
  BY <1>0, <1>1 DEF Told, MayLearn, Joined, Spoken, SentAllowed, NoSendToClosedFd,
                    ModeratedSpeech, RelaysReachCompanions

LEMMA SentAllowedStep == IInv /\ SentAllowed /\ [Next]_vars => SentAllowed'
<1> SUFFICES ASSUME IInv, SentAllowed, [Next]_vars
             PROVE  SentAllowed'
  OBVIOUS
<1>1. CASE UNCHANGED vars
  BY <1>1 DEF vars, userTable, channelTable, SentAllowed, NoSendToClosedFd,
              ModeratedSpeech, RelaysReachCompanions, Joined
<1>2. ASSUME NEW u \in Fd, handle_user_msg(u)
      PROVE  SentAllowed'
  BY <1>2, LineSendsAllowed
<1>3. sent' = {} => SentAllowed'
  BY DEF SentAllowed, NoSendToClosedFd, ModeratedSpeech, RelaysReachCompanions
<1>4. ASSUME NEW u \in Fd, CrashStep(u)
      PROVE  SentAllowed'
  BY <1>4, CrashSendsAllowed
<1> QED
  BY <1>1, <1>2, <1>3, <1>4, NextCases
     DEF handle_new_connection, BeginBatch, EndBatch, Hangup

LEMMA SentAllowedAlways == Spec => []SentAllowed
<1>1. Init => SentAllowed
  BY DEF Init, SentAllowed, NoSendToClosedFd, ModeratedSpeech,
         RelaysReachCompanions
<1> QED
  BY <1>1, SentAllowedStep, IInvAlways, PTL DEF Spec

\* Nothing is ever sent to a descriptor that is closed, or that is open for
\* somebody who came later: whoever a handler finds is connected.
THEOREM OnlyClientsAreSentTo == Spec => []NoSendToClosedFd
<1>1. SentAllowed => NoSendToClosedFd
  BY DEF SentAllowed
<1> QED
  BY <1>1, SentAllowedAlways, PTL

\* A channel message is from a member to members and, while the channel is
\* moderated, from one who may speak.
THEOREM ModerationHolds == Spec => []ModeratedSpeech
<1>1. SentAllowed => ModeratedSpeech
  BY DEF SentAllowed
<1> QED
  BY <1>1, SentAllowedAlways, PTL

\* Who is told of a new nickname, or of a QUIT, is in a channel of the sender,
\* or is the sender.
THEOREM OnlyCompanionsAreTold == Spec => []RelaysReachCompanions
<1>1. SentAllowed => RelaysReachCompanions
  BY DEF SentAllowed
<1> QED
  BY <1>1, SentAllowedAlways, PTL

\* A client in one channel at most: the walk along the wrong links sees all of
\* its channels.
LEMMA WalkSeesOnlyChannel ==
    ASSUME NEW u \in Fd, joined_channels \in [Fd -> Seq(Channel)],
           Len(joined_channels[u]) <= 1
    PROVE  HhNextWalk(u) = Joined(u)
<1> DEFINE s == joined_channels[u]
<1>1. s \in Seq(Channel) /\ Len(s) <= 1
  OBVIOUS
<1>2. CASE s = <<>>
  BY <1>2 DEF HhNextWalk, Joined, Range
<1>3. CASE s # <<>>
  <2>1. Len(s) = 1 /\ DOMAIN s = {1} /\ Head(s) = s[1]
    <3> HIDE DEF s
    <3>1. Len(s) = 1
      <4>1. 1 \in DOMAIN s
        BY <1>1, <1>3
      <4>2. DOMAIN s = 1 .. Len(s) /\ Len(s) \in Nat
        BY <1>1
      <4> QED
        BY <1>1, <4>1, <4>2
    <3>2. DOMAIN s = 1 .. 1 /\ Head(s) = s[1]
      BY <1>1, <1>3, <3>1
    <3> QED
      BY <3>1, <3>2
  <2>2. Joined(u) = {s[1]}
    <3>1. Joined(u) = {s[i] : i \in DOMAIN s}
      BY Zenon DEF Joined, Range
    <3> HIDE DEF s
    <3> QED
      BY <2>1, <3>1
  <2> QED
    BY <1>3, <2>1, <2>2 DEF HhNextWalk
<1> QED
  BY <1>2, <1>3

\* What user.h:38 and user.c:229 say is true of a client in one channel at
\* most: users_share_channel answers rightly whom it shares a channel with, and
\* everybody who does is told its new nickname.  Both fail for its second
\* channel (SharesChannelIffCommon, NickChangeReachesAllChannels).
THEOREM OnlyChannelSharedRightly ==
    Spec => [](\A u, v \in users_fd_map :
                   Len(joined_channels[u]) <= 1 =>
                       /\ users_share_channel(u, v)
                              <=> Joined(u) \cap Joined(v) # {}
                       /\ Joined(u) \cap Joined(v) # {} =>
                              Event(v, "NICK", u, NULL) \in relay_nick_change(u))
<1>1. IInv => \A u, v \in users_fd_map :
                  Len(joined_channels[u]) <= 1 =>
                      /\ users_share_channel(u, v)
                             <=> Joined(u) \cap Joined(v) # {}
                      /\ Joined(u) \cap Joined(v) # {} =>
                             Event(v, "NICK", u, NULL) \in relay_nick_change(u)
  <2> SUFFICES ASSUME IInv, NEW u \in users_fd_map, NEW v \in users_fd_map,
                      Len(joined_channels[u]) <= 1
               PROVE  /\ users_share_channel(u, v)
                             <=> Joined(u) \cap Joined(v) # {}
                      /\ Joined(u) \cap Joined(v) # {} =>
                             Event(v, "NICK", u, NULL) \in relay_nick_change(u)
    OBVIOUS
  <2>0. /\ u \in Fd /\ v \in Fd /\ MembershipAgrees
        /\ joined_channels \in [Fd -> Seq(Channel)]
        /\ channels_map \subseteq Channel
    BY DEF IInv, TypeOK, UserTypeOK, ChannelTypeOK, ChannelInv
  <2>1. HhNextWalk(u) = Joined(u)
    BY <2>0, WalkSeesOnlyChannel
  <2>2. ASSUME NEW c \in Joined(u) \cap Joined(v)
        PROVE  Event(v, "NICK", u, NULL) \in relay_nick_change(u)
    <3>1. c \in Channel /\ v \in channel[c].user_list /\ c \in HhNextWalk(u)
      BY <2>0, <2>1, <2>2 DEF MembershipAgrees
    <3>2. CASE v = u
      BY <3>2 DEF relay_nick_change
    <3>3. CASE v # u
      <4>1. v \in (UNION {channel[d].user_list : d \in HhNextWalk(u)}) \ {u}
        BY <3>1, <3>3
      <4> QED
        BY <4>1, Zenon DEF relay_nick_change
    <3> QED
      BY <3>2, <3>3
  <2>3. users_share_channel(u, v) <=> Joined(u) \cap Joined(v) # {}
    BY <2>1 DEF users_share_channel
  <2> QED
    BY <2>2, <2>3
<1> QED
  BY <1>1, IInvAlways, PTL
-----------------------------------------------------------------------------
(* No PRIVMSG is swallowed.                                                 *)

LEMMA ChannelMessageAccounted ==
    ASSUME TablesTypeOK, NEW u \in users_fd_map, NEW c \in Channel,
           handle_privmsg_channel(u, c, FALSE) = {}
    PROVE  channel[c].user_list = {u}
<1>0. /\ u \in Fd /\ channel[c].moderated_mode \in BOOLEAN
      /\ user[u].is_oper \in BOOLEAN
  BY DEF TablesTypeOK, UserTypeOK, User, ChannelTypeOK, ChannelStruct
<1>1. \A r \in Numerics : UnlessNotice(FALSE, u, r) # {} /\ {Numeric(u, r)} # {}
  BY DEF UnlessNotice
<1>2. "ERR_NOSUCHNICK" \in Numerics /\ "ERR_CANNOTSENDTOCHAN" \in Numerics
  BY DEF Numerics
<1>3. c \in channels_map
  BY <1>1, <1>2 DEF handle_privmsg_channel, IsMember
<1>4. channel_has_user(c, u)
  BY <1>1, <1>2, <1>3 DEF handle_privmsg_channel, IsMember
<1>5. MaySpeak(u, c)
  BY <1>1, <1>2, <1>3, <1>4 DEF handle_privmsg_channel, IsMember
<1>6. channel_message_users(c, channel[c].user_list, MsgCmd(FALSE), u, u) = {}
  BY <1>3, <1>4, <1>5 DEF handle_privmsg_channel, IsMember
<1>7. \A v \in channel[c].user_list : v = u
  BY <1>6 DEF channel_message_users
<1> QED
  BY <1>4, <1>7 DEF channel_has_user

LEMMA UserMessageAccounted ==
    ASSUME TablesTypeOK, TablesAgree, NEW u \in Fd, NEW n \in Nick
    PROVE  handle_privmsg_user(u, n, FALSE) # {}
<1> DEFINE target_user == get_user_by_nick(n)
<1>1. CASE target_user = NULL
  BY <1>1 DEF handle_privmsg_user, UnlessNotice
<1>2. CASE target_user # NULL /\ user[target_user].is_away
  BY <1>2 DEF handle_privmsg_user, UnlessNotice
<1>3. CASE target_user # NULL /\ ~user[target_user].is_away
  BY <1>3 DEF handle_privmsg_user
<1> QED
  BY <1>1, <1>2, <1>3

\* Whatever the tables hold, a complete PRIVMSG of a registered client is
\* delivered or answered, unless its sender is alone in the channel.
THEOREM NoPrivmsgIsSwallowed == Spec => []PrivmsgAccounted
<1>1. IInv => PrivmsgAccounted
  <2> SUFFICES ASSUME IInv, NEW u \in RegisteredUsers
               PROVE  \A target \in Channel \cup Nick :
                          \/ handle_msg_cmd(u, target, TRUE, FALSE) # {}
                          \/ target \in Channel /\ channel[target].user_list = {u}
    BY DEF PrivmsgAccounted
  <2>0. /\ TablesTypeOK /\ TablesAgree
        /\ u \in users_fd_map /\ u \in Fd /\ user[u].is_registered
    BY TablesFindConnected DEF IInv, TypeOK, TablesTypeOK, UserTypeOK, RegisteredUsers
  <2>1. ASSUME NEW c \in Channel
        PROVE  \/ handle_msg_cmd(u, c, TRUE, FALSE) # {}
               \/ channel[c].user_list = {u}
    <3>1. handle_msg_cmd(u, c, TRUE, FALSE) = handle_privmsg_channel(u, c, FALSE)
      BY <2>0, NamesAssumption DEF handle_msg_cmd
    <3> QED
      BY <2>0, <3>1, ChannelMessageAccounted
  <2>2. ASSUME NEW n \in Nick
        PROVE  handle_msg_cmd(u, n, TRUE, FALSE) # {}
    <3>1. handle_msg_cmd(u, n, TRUE, FALSE) = handle_privmsg_user(u, n, FALSE)
      BY <2>0, NamesAssumption DEF handle_msg_cmd
    <3> QED
      BY <2>0, <3>1, UserMessageAccounted
  <2> QED
    BY <2>1, <2>2
<1> QED
  BY <1>1, IInvAlways, PTL

-----------------------------------------------------------------------------
(* Channels *)

\* The step leaves the modes, the topic and the flags of those that stay.
Untouched(old, new) == ~ModesChanged(old, new) /\ new.topic = old.topic

LEMMA UntouchedByAnybody ==
    ASSUME NEW c, Untouched(channel[c], channel'[c])
    PROVE  ChangedByAuthority(c)
BY DEF Untouched, ChangedByAuthority

LEMMA SameIsUntouched ==
    ASSUME FlagsOfMembers, NEW c \in Channel
    PROVE  Untouched(channel[c], channel[c])
BY DEF FlagsOfMembers, Untouched, ModesChanged

LEMMA LeaveIsUntouched ==
    ASSUME ChannelTypeOK, FlagsOfMembers, NEW u \in Fd,
           NEW cs \in SUBSET Channel, LeaveChannels(u, cs),
           NEW c \in channels_map'
    PROVE  Untouched(channel[c], channel'[c])
<1>0. /\ c \in Channel /\ channel[c] \in ChannelStruct
      /\ c \notin EmptiedBy(u, cs)
  BY DEF LeaveChannels, ChannelTypeOK
<1>1. channel'[c] = channel[c] \/ channel'[c] = channel_remove_user(channel[c], u)
  BY <1>0 DEF LeaveChannels
<1>2. Untouched(channel[c], channel_remove_user(channel[c], u))
  <2> DEFINE rec == channel[c]
             left == channel_remove_user(rec, u)
  <2>1. CASE u \notin rec.user_list
    BY <1>0, <2>1, SameIsUntouched DEF channel_remove_user
  <2>2. CASE u \in rec.user_list
    <3>1. /\ rec.channel_op \cup rec.channel_voice \subseteq rec.user_list
          /\ rec \in ChannelStruct
      BY <1>0 DEF FlagsOfMembers
    <3> HIDE DEF rec
    <3>2. /\ left.user_list = rec.user_list \ {u}
          /\ left.channel_op = rec.channel_op \ {u}
          /\ left.channel_voice = rec.channel_voice \ {u}
          /\ left.moderated_mode = rec.moderated_mode
          /\ left.topic_mode = rec.topic_mode
          /\ left.topic = rec.topic
      BY <2>2, <3>1 DEF channel_remove_user, ChannelStruct
    <3> HIDE DEF left
    <3>3. Untouched(rec, left)
      BY <3>1, <3>2 DEF Untouched, ModesChanged, ModesOf
    <3> QED
      BY <3>3 DEF rec, left
  <2> QED
    BY <2>1, <2>2
<1> QED
  BY <1>0, <1>1, <1>2, SameIsUntouched

LEMMA JoinByAuthority ==
    ASSUME ChannelTypeOK, FlagsOfMembers, NEW u \in Fd, NEW c \in Channel,
           NEW added \in BOOLEAN, join_channel(u, c, added),
           NEW d \in channels_map
    PROVE  ChangedByAuthority(d)
<1>0. /\ channel \in [Channel -> ChannelStruct] /\ d \in Channel
      /\ Untouched(channel[d], channel[d])
  BY SameIsUntouched DEF ChannelTypeOK
<1>1. \/ channel'[d] = channel[d]
      \/ channel'[d] = channel_add_user(channel[d], u)
  BY <1>0 DEF join_channel, FoundOrCreated
<1>2. CASE channel'[d] = channel_add_user(channel[d], u)
  <2> DEFINE rec == channel[d]
             full == channel_add_user(rec, u)
  <2>1. /\ rec.channel_op \cup rec.channel_voice \subseteq rec.user_list
        /\ rec \in ChannelStruct
    BY <1>0 DEF FlagsOfMembers
  <2> HIDE DEF rec
  <2>2. /\ full.user_list = rec.user_list \cup {u}
        /\ full.channel_op = IF rec.user_list = {} THEN rec.channel_op \cup {u}
                                                   ELSE rec.channel_op
        /\ full.channel_voice = rec.channel_voice
        /\ full.moderated_mode = rec.moderated_mode
        /\ full.topic_mode = rec.topic_mode
        /\ full.topic = rec.topic
    BY <2>1 DEF channel_add_user, ChannelStruct
  <2> HIDE DEF full
  <2>3. rec.user_list # {} => ~ModesChanged(rec, full)
    BY <2>1, <2>2 DEF ModesChanged, ModesOf
  <2> QED
    BY <1>2, <2>2, <2>3 DEF rec, full, ChangedByAuthority
<1> QED
  BY <1>0, <1>1, <1>2, UntouchedByAnybody

LEMMA ChangeByAuthority ==
    ASSUME ChannelTypeOK, FlagsOfMembers, NEW c \in channels_map, NEW rec,
           channel' = [channel EXCEPT ![c] = rec],
           active \in channel[c].user_list,
           \/ active \in channel[c].channel_op \/ user[active].is_oper
           \/ /\ ~ModesChanged(channel[c], rec)
              /\ ~channel[c].topic_mode,
           NEW d \in channels_map
    PROVE  ChangedByAuthority(d)
<1>0. c \in Channel /\ d \in Channel /\ channel'[c] = rec
  BY DEF ChannelTypeOK
<1>1. CASE d = c
  BY <1>0, <1>1 DEF ChangedByAuthority
<1>2. CASE d # c
  <2>1. channel'[d] = channel[d]
    BY <1>0, <1>2 DEF ChannelTypeOK
  <2> QED
    BY <1>0, <2>1, SameIsUntouched, UntouchedByAnybody
<1> QED
  BY <1>1, <1>2

LEMMA LineByAuthority ==
    ASSUME TablesTypeOK, ChannelInv, NEW u \in Fd, active = u, ChannelEffect(u)
    PROVE  ChangesByAuthority
<1>0. /\ ChannelTypeOK /\ FlagsOfMembers
      /\ \A c \in channels_map : c \in Channel /\ channel[c] \in ChannelStruct
  BY DEF TablesTypeOK, ChannelTypeOK, ChannelInv
<1>1. ASSUME NEW c \in Channel, JoinChannel(u, c) \/ AbandonJoin(u, c)
      PROVE  ChangesByAuthority
  BY <1>0, <1>1, JoinByAuthority DEF JoinChannel, AbandonJoin, ChangesByAuthority
<1>2. ASSUME NEW c \in Channel, PartChannel(u, c)
      PROVE  ChangesByAuthority
  <2>1. LeaveChannels(u, {c}) /\ {c} \in SUBSET Channel
    BY <1>2 DEF PartChannel
  <2> QED
    BY <1>0, <2>1, LeaveIsUntouched, UntouchedByAnybody DEF ChangesByAuthority
<1>3. ASSUME NEW c \in Channel, NEW topic, IsMember(u, c), MayChangeTopic(u, c),
             SetTopic(u, c, topic)
      PROVE  ChangesByAuthority
  <2>1. PICK stored : channel' = [channel EXCEPT ![c].topic = stored]
    BY <1>3 DEF SetTopic
  <2> DEFINE rec == [channel[c] EXCEPT !.topic = stored]
  <2>2. channel' = [channel EXCEPT ![c] = rec]
    BY <2>1
  <2>3. c \in channels_map /\ u \in channel[c].user_list
    BY <1>3 DEF IsMember, channel_has_user
  <2>4. /\ rec.user_list = channel[c].user_list
        /\ rec.channel_op = channel[c].channel_op
        /\ rec.channel_voice = channel[c].channel_voice
        /\ rec.moderated_mode = channel[c].moderated_mode
        /\ rec.topic_mode = channel[c].topic_mode
    BY <1>0, <2>3 DEF ChannelStruct
  <2> HIDE DEF rec
  <2>5. ~ModesChanged(channel[c], rec)
    BY <1>0, <2>4 DEF ModesChanged, ModesOf, FlagsOfMembers
  <2>6. \/ u \in channel[c].channel_op \/ user[u].is_oper
        \/ ~channel[c].topic_mode
    BY <1>3 DEF MayChangeTopic
  <2> QED
    BY <1>0, <2>2, <2>3, <2>5, <2>6, ChangeByAuthority DEF ChangesByAuthority
<1>4. ASSUME NEW c \in channels_map, NEW mode, NEW v,
             HasChannelAuthority(u, c), channel_has_user(c, u),
             \/ ChangeChannel(u, c, set_channel_mode(channel[c], mode), mode)
             \/ ChangeChannel(u, c, set_member_mode(channel[c], mode, v), mode)
      PROVE  ChangesByAuthority
  <2>1. PICK rec : channel' = [channel EXCEPT ![c] = rec]
    BY <1>4 DEF ChangeChannel
  <2>2. /\ active \in channel[c].user_list
        /\ active \in channel[c].channel_op \/ user[active].is_oper
    BY <1>4 DEF HasChannelAuthority, channel_has_user
  <2> QED
    BY <1>0, <2>1, <2>2, ChangeByAuthority DEF ChangesByAuthority
<1>5. ModeEffect(u) => ChangesByAuthority
  BY <1>4 DEF ModeEffect
<1>6. ASSUME NEW T,
             \E c \in Channel, topic \in T :
                 IsMember(u, c) /\ MayChangeTopic(u, c) /\ SetTopic(u, c, topic)
      PROVE  ChangesByAuthority
  BY <1>3, <1>6
<1> QED
  BY <1>1, <1>2, <1>5, <1>6, Zenon DEF ChannelEffect

LEMMA StepByAuthority ==
    ASSUME IInv, [Next]_vars
    PROVE  ChangesByAuthority
<1>0. /\ TypeOK /\ TablesTypeOK /\ ChannelInv /\ ChannelTypeOK
      /\ FlagsOfMembers /\ ConnectionsWatched
  BY DEF IInv, TypeOK, TablesTypeOK, ChannelInv
<1>1. UNCHANGED channelTable => ChangesByAuthority
  BY <1>0, SameIsUntouched, UntouchedByAnybody
     DEF channelTable, ChangesByAuthority, ChannelTypeOK
<1>2. ASSUME NEW u \in Fd, handle_user_msg(u)
      PROVE  ChangesByAuthority
  <2>1. active = u /\ HandleLine(u)
    BY <1>2 DEF handle_user_msg
  <2> QED
    BY <1>0, <1>1, <2>1, LineEffects, LineByAuthority, UserEffectFrame DEF ReadOnly
<1>3. ASSUME NEW u \in Fd, Disconnect(u)
      PROVE  ChangesByAuthority
  <2>1. Joined(u) \in SUBSET Channel /\ LeaveChannels(u, Joined(u))
    BY <1>0, <1>3 DEF Disconnect, del_from_users, Joined, Range, TablesTypeOK,
                      UserTypeOK
  <2> QED
    BY <1>0, <2>1, LeaveIsUntouched, UntouchedByAnybody DEF ChangesByAuthority
<1> QED
  BY <1>1, <1>2, <1>3, NextCases, EndBatchCases, CrashFrame
     DEF vars, handle_new_connection, BeginBatch, Hangup

\* Whoever changes the modes of a channel, gives or takes a flag of somebody
\* who stays, or changes a protected topic, is a member with the authority.
THEOREM AuthorityRequired == Spec => ChannelAuthority
<1>1. IInv /\ [Next]_vars => [ChangesByAuthority]_vars
  BY StepByAuthority
<1> QED
  BY <1>1, IInvAlways, PTL DEF Spec, ChannelAuthority
-----------------------------------------------------------------------------
(* Announcements. *)

LEMMA RelayedToAll ==
    ASSUME NEW list \in SUBSET Fd, NEW v \in list, NEW c, NEW cmd, NEW src
    PROVE  Event(v, cmd, src, c) \in channel_message_users(c, list, cmd, src, NULL)
BY NamesAssumption DEF channel_message_users

LEMMA KeptNeedsNoNews ==
    ASSUME ListsKept
    PROVE  ChangesAnnounced
BY DEF ListsKept, ChangesAnnounced, Announced

LEMMA JoinAnnounced ==
    ASSUME TablesTypeOK, ChannelInv, NEW u \in Fd, NEW c \in Channel,
           JoinChannel(u, c)
    PROVE  ChangesAnnounced
<1>0. channel \in [Channel -> ChannelStruct]
  BY DEF TablesTypeOK, ChannelTypeOK
<1> DEFINE rec == channel_add_user(FoundOrCreated(c), u)
<1>1. /\ FoundOrCreated(c) \in ChannelStruct
      /\ FoundOrCreated(c).user_list = channel[c].user_list
  BY FoundOrCreatedLists
<1>2. /\ rec.user_list = channel[c].user_list \cup {u}
      /\ rec.user_list \in SUBSET Fd
  BY <1>1 DEF channel_add_user, ChannelStruct
<1>3. channel' = [channel EXCEPT ![c] = rec] /\ sent' = JoinReplies(u, c, rec)
  BY DEF JoinChannel, join_channel
<1> HIDE DEF rec
<1>4. \A v \in rec.user_list : Event(v, "JOIN", u, c) \in sent'
  BY <1>2, <1>3, RelayedToAll DEF JoinReplies
<1>5. \A d \in Channel : channel'[d].user_list =
          IF d = c THEN channel[c].user_list \cup {u} ELSE channel[d].user_list
  BY <1>0, <1>2, <1>3
<1>6. ASSUME NEW d \in Channel, NEW w \in Fd
      PROVE  Announced(d, w)
  <2>1. CASE d = c
    <3>1. channel'[d].user_list = rec.user_list
      BY <1>2, <1>5, <2>1
    <3>2. w \in channel'[d].user_list \ channel[d].user_list => w = u
      BY <1>2, <2>1, <3>1
    <3>3. channel[d].user_list \ channel'[d].user_list = {}
      BY <1>2, <2>1, <3>1
    <3> QED
      BY <1>4, <2>1, <3>1, <3>2, <3>3 DEF Announced
  <2>2. CASE d # c
    BY <1>5, <2>2 DEF Announced
  <2> QED
    BY <2>1, <2>2
<1> QED
  BY <1>6 DEF ChangesAnnounced

LEMMA PartAnnounced ==
    ASSUME TablesTypeOK, ChannelInv, NEW u \in Fd, NEW c \in Channel,
           PartChannel(u, c)
    PROVE  ChangesAnnounced
<1>1. /\ LeaveChannels(u, {c}) /\ {c} \in SUBSET Channel
      /\ sent' = channel_message_users(c, channel[c].user_list, "PART", u, NULL)
      /\ channel[c].user_list \in SUBSET Fd
  BY DEF PartChannel, TablesTypeOK, ChannelTypeOK, ChannelStruct
<1>2. ListsLeft(u, {c})
  BY <1>1, LeaveChannelsLeft DEF TablesTypeOK, ChannelInv
<1>3. \A v \in channel[c].user_list : Event(v, "PART", u, c) \in sent'
  BY <1>1, RelayedToAll
<1>4. ASSUME NEW d \in Channel, NEW w \in Fd
      PROVE  Announced(d, w)
  <2>1. CASE d = c
    <3>1. channel'[d].user_list = channel[d].user_list \ {u}
      BY <1>2, <2>1 DEF ListsLeft
    <3> QED
      BY <1>3, <2>1, <3>1 DEF Announced
  <2>2. CASE d # c
    <3>1. channel'[d].user_list = channel[d].user_list
      BY <1>2, <2>2 DEF ListsLeft
    <3> QED
      BY <3>1 DEF Announced
  <2> QED
    BY <2>1, <2>2
<1> QED
  BY <1>4 DEF ChangesAnnounced

LEMMA DisconnectNeedsNoNews ==
    ASSUME TablesTypeOK, ChannelInv, NEW u \in Fd, del_from_users(u)
    PROVE  ChangesAnnounced
<1>1. /\ users_fd_map' = users_fd_map \ {u}
      /\ Joined(u) \in SUBSET Channel /\ LeaveChannels(u, Joined(u))
  BY DEF del_from_users, del_user_struct, Joined, Range, TablesTypeOK, UserTypeOK
<1>2. ListsLeft(u, Joined(u))
  BY <1>1, LeaveChannelsLeft DEF TablesTypeOK, ChannelInv
<1>3. \A d \in Channel : /\ channel'[d].user_list \subseteq channel[d].user_list
                         /\ channel[d].user_list \ channel'[d].user_list
                                \subseteq {u}
  BY <1>2 DEF ListsLeft
<1> QED
  BY <1>1, <1>3 DEF ChangesAnnounced, Announced

\* LineEffects and the frames, as far as the member lists are concerned.
LEMMA ChannelEffectAnnounced ==
    ASSUME TablesTypeOK, ChannelInv, NEW u \in Fd, ChannelEffect(u)
    PROVE  ChangesAnnounced
<1>1. \/ \E c \in Channel : JoinChannel(u, c)
      \/ \E c \in Channel : PartChannel(u, c)
      \/ ListsKept
  BY ChannelEffectLists
<1> QED
  BY <1>1, JoinAnnounced, PartAnnounced, KeptNeedsNoNews

LEMMA StepAnnounced ==
    ASSUME IInv, [Next]_vars
    PROVE  ChangesAnnounced
<1>0. TypeOK /\ TablesTypeOK /\ ChannelInv /\ ConnectionsWatched
  BY DEF IInv, TypeOK, TablesTypeOK
<1>1. UNCHANGED channelTable => ChangesAnnounced
  BY KeptNeedsNoNews DEF channelTable, ListsKept
<1>2. ASSUME NEW u \in Fd, TableStep(u)
      PROVE  ChangesAnnounced
  BY <1>0, <1>1, <1>2, ChannelEffectAnnounced, DisconnectNeedsNoNews,
     UserEffectFrame DEF TableStep
<1> QED
  BY <1>0, <1>1, <1>2, StepCases DEF ReadOnly

\* Nobody comes to a channel, or leaves it and stays connected, without every
\* member being told.
THEOREM ChangesOfMembersTold == Spec => MembershipAnnounced
<1>1. IInv /\ [Next]_vars => [ChangesAnnounced]_vars
  BY StepAnnounced
<1> QED
  BY <1>1, IInvAlways, PTL DEF Spec, MembershipAnnounced
=============================================================================
