--------------------------- MODULE IrcServerProofs ---------------------------
(***************************************************************************)
(* Theorems about IrcServer, for every value of its constants.             *)
(*                                                                         *)
(* Most disjuncts of the handlers answer and change no table.  The lemma   *)
(* LineEffects reduces a line to the eleven ways it can change the tables, *)
(* and the invariants are proved for those and for the four steps of a     *)
(* connection.                                                             *)
(***************************************************************************)
EXTENDS IrcServerProperties, ListLemmas, FiniteSetTheorems, TLAPS

ReadOnly == UNCHANGED <<userTable, channelTable>>

\* MODE of a channel or of a member by somebody with authority.
ModeEffect(u) ==
    \E c \in channels_map, mode \in ModeParams, v \in Fd :
        /\ HasChannelAuthority(u, c)
        /\ channel_has_user(c, u)
        /\ \/ ChangeChannel(u, c, set_channel_mode(channel[c], mode), mode)
           \/ /\ v \in channel[c].user_list
              /\ ChangeChannel(u, c, set_member_mode(channel[c], mode, v), mode)

UserEffect(u) ==
    \/ \E n \in Nick : NickAvailable(n) /\ ChangeNick(u, n)
    \/ ~user[u].has_username /\ SetUsername(u)
    \/ /\ user[u].is_registered
       /\ \/ SetOperator(u, TRUE, Numeric(u, "RPL_YOUREOP"))
          \/ /\ user[u].is_oper
             /\ SetOperator(u, FALSE, Event(u, "MODE", u, NULL))
          \/ \E away_msg \in AwayParams : SetAway(u, away_msg)
    \/ handle_quit_cmd(u)

ChannelEffect(u) ==
    \/ \E c \in Channel :
           /\ user[u].is_registered
           /\ ~channel_has_user(c, u)
           /\ JoinChannel(u, c) \/ (AllocMayFail /\ AbandonJoin(u, c))
    \/ \E c \in Channel : IsMember(u, c) /\ PartChannel(u, c)
    \/ \E c \in Channel, topic \in Topic \cup {""} :
           IsMember(u, c) /\ MayChangeTopic(u, c) /\ SetTopic(u, c, topic)
    \/ ModeEffect(u)

LEMMA LineEffects ==
    ASSUME TypeOK, NEW u \in Fd, HandleLine(u)
    PROVE  ReadOnly \/ UserEffect(u) \/ ChannelEffect(u)
<1> USE DEF ReadOnly
<1>1. CASE \E n \in Nick \cup {NULL} : handle_nick_cmd(u, n)
  BY <1>1 DEF handle_nick_cmd, Refuse, UserEffect
<1>2. CASE \E complete \in BOOLEAN : handle_user_cmd(u, complete)
  BY <1>2 DEF handle_user_cmd, Refuse, Silent, UserEffect
<1>3. CASE \E target \in Names, has_text \in BOOLEAN, is_notice \in BOOLEAN :
              Answer(handle_msg_cmd(u, target, has_text, is_notice))
  BY <1>3 DEF Answer
<1>4. CASE \E name \in Names : handle_join_cmd(u, name)
  BY <1>4 DEF handle_join_cmd, Refuse, Silent, ChannelEffect
<1>5. CASE \E name \in Names : handle_part_cmd(u, name)
  BY <1>5 DEF handle_part_cmd, Refuse, Answer, ChannelEffect, IsMember, TypeOK,
              ChannelTypeOK
<1>6. CASE \E name \in Names, topic \in TopicParams :
              handle_topic_cmd(u, name, topic)
  BY <1>6 DEF handle_topic_cmd, Refuse, ChannelEffect, IsMember, TypeOK,
              ChannelTypeOK, TopicParams
<1>7. CASE \E pass \in OperParams : handle_oper_cmd(u, pass)
  BY <1>7 DEF handle_oper_cmd, Refuse, UserEffect
<1>8. CASE \E away_msg \in AwayParams : handle_away_cmd(u, away_msg)
  BY <1>8 DEF handle_away_cmd, Refuse, UserEffect
<1>9. CASE \E target \in Channel, mode \in ModeParams,
              member \in Nick \cup {NULL} :
                 handle_mode_cmd(u, target, mode, member)
  <2> SUFFICES ASSUME NEW c \in Channel, NEW mode \in ModeParams,
                      NEW member \in Nick \cup {NULL},
                      handle_channel_mode(u, c, mode, member)
               PROVE  ReadOnly \/ ModeEffect(u)
    BY <1>9, NamesAssumption DEF handle_mode_cmd, Refuse, ChannelEffect
  <2>1. CASE /\ IsMember(u, c)
             /\ HasChannelAuthority(u, c)
             /\ ApplyChannelMode(u, c, mode, member)
    <3>1. channel[c].user_list \subseteq Fd
      BY DEF TypeOK, ChannelTypeOK, ChannelStruct
    <3>2. CASE /\ mode \in ChannelModes
               /\ ChangeChannel(u, c, set_channel_mode(channel[c], mode), mode)
      BY <2>1, <3>2 DEF ModeEffect, IsMember
    <3>3. CASE /\ get_user_by_nick(member) \in channel[c].user_list
               /\ ChangeChannel(u, c,
                    set_member_mode(channel[c], mode, get_user_by_nick(member)),
                    mode)
      BY <2>1, <3>1, <3>3 DEF ModeEffect, IsMember
    <3> QED
      BY <2>1, <3>2, <3>3 DEF ApplyChannelMode, Refuse
  <2> QED
    BY <2>1 DEF handle_channel_mode, Refuse, Silent
<1>10. CASE \E target \in Nick \cup {NULL}, mode \in UserModes :
                 handle_mode_cmd(u, target, mode, NULL)
  <2> SUFFICES ASSUME NEW n \in Nick, NEW mode \in UserModes,
                      user[u].is_registered, handle_user_mode(u, n, mode)
               PROVE  ReadOnly \/ UserEffect(u)
    BY <1>10, NamesAssumption DEF handle_mode_cmd, Refuse
  <2> QED
    BY DEF handle_user_mode, Refuse, Silent, UserEffect
<1>11. CASE handle_quit_cmd(u)
  BY <1>11 DEF UserEffect
<1> QED
  BY <1>1, <1>2, <1>3, <1>4, <1>5, <1>6, <1>7, <1>8, <1>9, <1>10, <1>11
     DEF HandleLine, Answer, Silent
-----------------------------------------------------------------------------
(* Type correctness. *)

TablesTypeOK == UserTypeOK /\ ChannelTypeOK

\* What set_user_nick makes of users_nick_map.
LEMMA NickTableType ==
    ASSUME UserTypeOK, NEW u \in Fd
    PROVE  /\ NickTableDelete(u) \in [Nick -> Fd \cup {NULL}]
           /\ \A n \in Nick : NickTableRekey(u, n) \in [Nick -> Fd \cup {NULL}]
BY DEF UserTypeOK, NickTableDelete, NickTableRekey

\* The setters of a user return a user.
LEMMA UserSetterType ==
    ASSUME NEW rec \in User
    PROVE  /\ \A n \in Nick : set_user_nick(rec, n) \in User
           /\ set_user_username(rec) \in User
           /\ \A away_msg : user_set_away_status(rec, away_msg) \in User
           /\ \A b \in BOOLEAN : [rec EXCEPT !.is_oper = b] \in User
           /\ [rec EXCEPT !.is_registered = TRUE] \in User
           /\ [rec EXCEPT !.is_dead = TRUE] \in User
<1>1. \A n \in Nick : set_user_nick(rec, n) \in User
  BY DEF set_user_nick, User
<1>2. set_user_username(rec) \in User
  BY DEF set_user_username, User
<1>3. \A away_msg : user_set_away_status(rec, away_msg) \in User
  BY DEF user_set_away_status, User
<1> QED
  BY <1>1, <1>2, <1>3 DEF User

LEMMA UserEffectType ==
    ASSUME TablesTypeOK, NEW u \in Fd, UserEffect(u)
    PROVE  TablesTypeOK'
<1> USE DEF TablesTypeOK, channelTable
<1>0. ASSUME NEW rec \in User, NEW messages, UpdateAndRegister(u, rec, messages)
      PROVE  /\ user' \in [Fd -> User]
             /\ registered_user_count' \in Int
             /\ unknown_user_count' \in Int
  <2>1. [rec EXCEPT !.is_registered = TRUE] \in User
    BY UserSetterType
  <2>2. user' = [user EXCEPT ![u] = rec] \/
        user' = [user EXCEPT ![u] = [rec EXCEPT !.is_registered = TRUE]]
    BY <1>0 DEF UpdateAndRegister
  <2>3. user' \in [Fd -> User]
    BY <2>1, <2>2 DEF UserTypeOK
  <2>4. registered_user_count' \in Int /\ unknown_user_count' \in Int
    BY <1>0 DEF UpdateAndRegister, UserTypeOK
  <2> QED
    BY <2>3, <2>4
<1>1. CASE \E n \in Nick : ChangeNick(u, n)
  <2> PICK n \in Nick : ChangeNick(u, n)
    BY <1>1
  <2>1. users_nick_map' \in [Nick -> Fd \cup {NULL}]
    BY NickTableType DEF ChangeNick
  <2>2. set_user_nick(user[u], n) \in User
    BY UserSetterType DEF UserTypeOK
  <2> QED
    BY <1>0, <2>1, <2>2 DEF ChangeNick, UserTypeOK, ChannelTypeOK
<1>2. CASE SetUsername(u)
  <2>1. set_user_username(user[u]) \in User
    BY UserSetterType DEF UserTypeOK
  <2> QED
    BY <1>0, <1>2, <2>1 DEF SetUsername, UserTypeOK, ChannelTypeOK
<1>3. ASSUME NEW status \in BOOLEAN, NEW m, SetOperator(u, status, m)
      PROVE  TablesTypeOK'
  <2>1. [user[u] EXCEPT !.is_oper = status] \in User
    BY UserSetterType DEF UserTypeOK
  <2>2. user' = [user EXCEPT ![u] = [user[u] EXCEPT !.is_oper = status]]
    BY <1>3 DEF SetOperator, user_set_operator_status
  <2>3. operator_user_count' \in Int
    BY <1>3 DEF SetOperator, user_set_operator_status, UserTypeOK
  <2> QED
    BY <1>3, <2>1, <2>2, <2>3 DEF SetOperator, UserTypeOK, ChannelTypeOK
<1>4. ASSUME NEW away_msg, SetAway(u, away_msg)
      PROVE  TablesTypeOK'
  <2>1. user_set_away_status(user[u], away_msg) \in User
    BY UserSetterType DEF UserTypeOK
  <2> QED
    BY <1>4, <2>1 DEF SetAway, UserTypeOK, userCounts, ChannelTypeOK
<1>5. CASE handle_quit_cmd(u)
  <2>1. [user[u] EXCEPT !.is_dead = TRUE] \in User
    BY UserSetterType DEF UserTypeOK
  <2>2. user' = [user EXCEPT ![u] = [user[u] EXCEPT !.is_dead = TRUE]]
    BY <1>5 DEF handle_quit_cmd
  <2> QED
    BY <1>5, <2>1, <2>2 DEF handle_quit_cmd, UserTypeOK, userCounts, ChannelTypeOK
<1> QED
  BY <1>1, <1>2, <1>3, <1>4, <1>5 DEF UserEffect

\* Which tables were expanded stays a set of descriptors.
LEMMA ExpandedType ==
    ASSUME UserTypeOK, NEW u \in Fd, NEW c,
           user_add_channel(u, c) \/ user_remove_channel(u, c)
    PROVE  expanded' \subseteq Fd
BY DEF user_add_channel, user_remove_channel, UserTypeOK

\* The setters of a channel return a channel.
LEMMA ChannelSetterType ==
    ASSUME NEW rec \in ChannelStruct, NEW v \in Fd, NEW mode
    PROVE  /\ channel_add_user(rec, v) \in ChannelStruct
           /\ channel_remove_user(rec, v) \in ChannelStruct
           /\ set_channel_mode(rec, mode) \in ChannelStruct
           /\ set_member_mode(rec, mode, v) \in ChannelStruct
           /\ \A t \in Topic \cup {NULL} : [rec EXCEPT !.topic = t] \in ChannelStruct
<1> DEFINE added == [rec EXCEPT !.user_list = rec.user_list \cup {v},
                                !.total_users = rec.total_users + 1]
           removed == [rec EXCEPT !.user_list = rec.user_list \ {v},
                                  !.total_users = rec.total_users - 1]
<1>a. added \in ChannelStruct /\ removed \in ChannelStruct
  <2>1. rec.total_users + 1 \in Int /\ rec.total_users - 1 \in Int
    BY DEF ChannelStruct
  <2>2. rec.user_list \cup {v} \in SUBSET Fd /\ rec.user_list \ {v} \in SUBSET Fd
    BY DEF ChannelStruct
  <2>3. \A n \in Int, l \in SUBSET Fd :
            [rec EXCEPT !.user_list = l, !.total_users = n] \in ChannelStruct
    BY DEF ChannelStruct
  <2> QED
    BY <2>1, <2>2, <2>3
<1>1. channel_add_user(rec, v) \in ChannelStruct
  <2>1. channel_add_user(rec, v) =
            [added EXCEPT !.channel_op = IF rec.user_list = {}
                                         THEN rec.channel_op \cup {v}
                                         ELSE rec.channel_op]
    BY DEF channel_add_user, ChannelStruct
  <2> HIDE DEF added
  <2> QED
    BY <1>a, <2>1 DEF ChannelStruct
<1>2. channel_remove_user(rec, v) \in ChannelStruct
  <2>1. CASE v \notin rec.user_list
    BY <2>1 DEF channel_remove_user
  <2>2. CASE v \in rec.user_list
    <3>1. channel_remove_user(rec, v) =
              [removed EXCEPT !.channel_op = rec.channel_op \ {v},
                              !.channel_voice = rec.channel_voice \ {v}]
      BY <2>2 DEF channel_remove_user, ChannelStruct
    <3> HIDE DEF removed
    <3> QED
      BY <1>a, <3>1, ZenonT(60) DEF ChannelStruct
  <2> QED
    BY <2>1, <2>2
<1>3. set_channel_mode(rec, mode) \in ChannelStruct
  BY DEF set_channel_mode, ChannelStruct
<1>4. set_member_mode(rec, mode, v) \in ChannelStruct
  BY DEF set_member_mode, ChannelStruct
<1> QED
  BY <1>1, <1>2, <1>3, <1>4 DEF ChannelStruct

LEMMA NewChannelType == NewChannel \in ChannelStruct
BY DEF NewChannel, ChannelStruct

\* EmptiedBy is a finite set, so the channel count stays an integer.
LEMMA EmptiedByType ==
    ASSUME NEW u, NEW cs \in SUBSET Channel
    PROVE  /\ EmptiedBy(u, cs) \subseteq cs
           /\ IsFiniteSet(EmptiedBy(u, cs))
           /\ Cardinality(EmptiedBy(u, cs)) \in Nat
BY FS_Subset, FS_CardinalityType, NamesAssumption DEF EmptiedBy

LEMMA LeaveChannelsType ==
    ASSUME ChannelTypeOK, NEW u \in Fd, NEW cs \in SUBSET Channel,
           LeaveChannels(u, cs)
    PROVE  ChannelTypeOK'
<1>1. channel_count' \in Int
  BY EmptiedByType DEF LeaveChannels, ChannelTypeOK
<1>2. channel' \in [Channel -> ChannelStruct]
  BY ChannelSetterType, NewChannelType DEF LeaveChannels, ChannelTypeOK
<1> QED
  BY <1>1, <1>2 DEF LeaveChannels, ChannelTypeOK

LEMMA ChannelEffectType ==
    ASSUME TablesTypeOK, NEW u \in Fd, ChannelEffect(u),
           \A v \in Fd : IsInjective(joined_channels[v]),
           \A c \in Channel : IsMember(u, c) => c \in Joined(u)
    PROVE  TablesTypeOK'
<1> USE DEF TablesTypeOK
<1>1. ASSUME NEW c \in Channel, JoinChannel(u, c) \/ AbandonJoin(u, c)
      PROVE  TablesTypeOK'
  <2>1. FoundOrCreated(c) \in ChannelStruct
    BY NewChannelType DEF FoundOrCreated, ChannelTypeOK
  <2>2. ChannelTypeOK'
    BY <1>1, <2>1, ChannelSetterType
       DEF JoinChannel, AbandonJoin, join_channel, ChannelTypeOK
  <2>3. joined_channels' \in [Fd -> Seq(Channel)]
    <3>1. Append(joined_channels[u], c) \in Seq(Channel)
      BY AppendOnce DEF UserTypeOK
    <3> QED
      BY <1>1, <3>1 DEF JoinChannel, AbandonJoin, user_add_channel, UserTypeOK,
                        userTable
  <2>4. expanded' \subseteq Fd
    BY <1>1, ExpandedType DEF JoinChannel, AbandonJoin, UserTypeOK, userTable
  <2> QED
    BY <1>1, <2>2, <2>3, <2>4 DEF JoinChannel, AbandonJoin, UserTypeOK, userTable,
                                  userCounts
<1>2. ASSUME NEW c \in Channel, IsMember(u, c), PartChannel(u, c)
      PROVE  TablesTypeOK'
  <2>1. ChannelTypeOK'
    BY <1>2, LeaveChannelsType DEF PartChannel
  <2>2. c \in Joined(u)
    BY <1>2
  <2>3. PICK i \in DOMAIN joined_channels[u] : joined_channels[u][i] = c
    BY <2>2 DEF Joined, Range
  <2> DEFINE j == CHOOSE j \in DOMAIN joined_channels[u] :
                      joined_channels[u][j] = c
  <2>4. j \in DOMAIN joined_channels[u]
    BY <2>3
  <2>5. RemoveAt(joined_channels[u], j) \in Seq(Channel)
    BY <2>4, RemoveAtOnce DEF UserTypeOK
  <2>6. joined_channels' \in [Fd -> Seq(Channel)]
    BY <1>2, <2>5 DEF PartChannel, user_remove_channel, UserTypeOK
  <2>7. expanded' \subseteq Fd
    BY <1>2, ExpandedType DEF PartChannel
  <2> QED
    BY <1>2, <2>1, <2>6, <2>7 DEF PartChannel, UserTypeOK, userCounts
<1>3. ASSUME NEW c \in Channel, NEW topic \in Topic \cup {""},
             SetTopic(u, c, topic)
      PROVE  TablesTypeOK'
  <2>1. PICK stored \in Topic \cup {NULL} :
            channel' = [channel EXCEPT ![c].topic = stored]
    BY <1>3 DEF SetTopic, StoredTopic
  <2>2. channel' = [channel EXCEPT ![c] = [channel[c] EXCEPT !.topic = stored]]
    BY <2>1
  <2>3. [channel[c] EXCEPT !.topic = stored] \in ChannelStruct
    BY ChannelSetterType DEF ChannelTypeOK
  <2> QED
    BY <1>3, <2>2, <2>3
       DEF SetTopic, ChannelTypeOK, UserTypeOK, userTable, userCounts
<1>4. CASE ModeEffect(u)
  <2> PICK c \in channels_map, mode \in ModeParams, v \in Fd :
           \/ ChangeChannel(u, c, set_channel_mode(channel[c], mode), mode)
           \/ ChangeChannel(u, c, set_member_mode(channel[c], mode, v), mode)
    BY <1>4 DEF ModeEffect
  <2>1. c \in Channel /\ channel[c] \in ChannelStruct
    BY DEF ChannelTypeOK
  <2>2. PICK rec \in ChannelStruct : ChangeChannel(u, c, rec, mode)
    BY <2>1, ChannelSetterType
  <2> QED
    BY <2>1, <2>2 DEF ChangeChannel, ChannelTypeOK, UserTypeOK, userTable, userCounts
<1> QED
  BY <1>1, <1>2, <1>3, <1>4 DEF ChannelEffect
-----------------------------------------------------------------------------
(* The steps of the server, as the tables see them. *)

\* The four ways a step changes the tables.
TableStep(u) ==
    \/ u \notin users_fd_map /\ add_to_users(u) /\ UNCHANGED channelTable
    \/ u \in users_fd_map /\ UserEffect(u)
    \/ u \in users_fd_map /\ ChannelEffect(u)
    \/ u \in users_fd_map /\ del_from_users(u)

CrashStep(u) == CrashInNick(u) \/ CrashInQuit(u) \/ CrashInWho(u)

\* The steps of the server; the stop after a crash is no step.
LEMMA NextCases ==
    ASSUME [Next]_vars
    PROVE  \/ \E u \in Fd : \/ handle_new_connection(u)
                           \/ BeginBatch(u)
                           \/ handle_user_msg(u)
                           \/ EndBatch(u)
                           \/ Hangup(u)
                           \/ CrashStep(u)
           \/ UNCHANGED vars
BY DEF Next, CrashStep, Terminated

\* A crash changes nothing the clients could still see.
LEMMA CrashFrame ==
    ASSUME NEW u \in Fd, CrashStep(u)
    PROVE  /\ active = u
           /\ WalkMayRunOff(u)
           /\ UNCHANGED <<userTable, channelTable, epfd, active>>
BY DEF CrashStep, CrashInNick, CrashInQuit, CrashInWho, Crash

\* What the end of a batch comes to, by either copy of the code.
LEMMA EndBatchCases ==
    ASSUME NEW u \in Fd, EndBatch(u)
    PROVE  /\ active = u
           /\ active' = NULL
           /\ \/ user[u].is_dead /\ Disconnect(u)
              \/ ~user[u].is_dead /\ UNCHANGED <<userTable, channelTable, epfd>>
BY DEF EndBatch, EndWholeBatch, EndFragmentedBatch, KeepConnection

LEMMA StepCases ==
    ASSUME TypeOK, ConnectionsWatched, [Next]_vars
    PROVE  ReadOnly \/ \E u \in Fd : TableStep(u)
<1>1. CASE UNCHANGED vars
  BY <1>1 DEF vars, ReadOnly
<1>2. ASSUME NEW u \in Fd, handle_new_connection(u)
      PROVE  TableStep(u)
  BY <1>2 DEF handle_new_connection, TableStep
<1>3. ASSUME NEW u \in Fd, BeginBatch(u)
      PROVE  ReadOnly
  BY <1>3 DEF BeginBatch, ReadOnly
<1>4. ASSUME NEW u \in Fd, handle_user_msg(u)
      PROVE  ReadOnly \/ TableStep(u)
  <2>1. u \in users_fd_map
    BY <1>4, NamesAssumption DEF handle_user_msg, ConnectionsWatched
  <2> QED
    BY <1>4, <2>1, LineEffects DEF handle_user_msg, TableStep
<1>5. ASSUME NEW u \in Fd, EndBatch(u) \/ Hangup(u)
      PROVE  ReadOnly \/ TableStep(u)
  <2>1. u \in users_fd_map
    BY <1>5, NamesAssumption DEF EndBatch, Hangup, ConnectionsWatched
  <2> QED
    BY <1>5, <2>1, EndBatchCases DEF Hangup, Disconnect, TableStep, ReadOnly
<1>6. ASSUME NEW u \in Fd, CrashStep(u)
      PROVE  ReadOnly
  BY <1>6, CrashFrame DEF ReadOnly
<1> QED
  BY <1>1, <1>2, <1>3, <1>4, <1>5, <1>6, NextCases

\* A line leaves the table of descriptors alone.
LEMMA LineFrame ==
    ASSUME NEW u \in Fd, UserEffect(u) \/ ChannelEffect(u)
    PROVE  UNCHANGED users_fd_map
<1>1. CASE UserEffect(u)
  BY <1>1 DEF UserEffect, ChangeNick, SetUsername, SetOperator, SetAway,
              handle_quit_cmd
<1>2. CASE ChannelEffect(u)
  BY <1>2 DEF ChannelEffect, JoinChannel, AbandonJoin, PartChannel, SetTopic,
              ModeEffect, ChangeChannel, userTable
<1> QED
  BY <1>1, <1>2

LEMMA UserEffectFrame ==
    ASSUME NEW u \in Fd, UserEffect(u)
    PROVE  UNCHANGED <<users_fd_map, joined_channels, channelTable>>
BY DEF UserEffect, ChangeNick, SetUsername, SetOperator, SetAway, handle_quit_cmd

\* ConnectionsWatched is inductive, given the types.
LEMMA ConnectionsStep ==
    ASSUME TypeOK, ConnectionsWatched, [Next]_vars
    PROVE  ConnectionsWatched'
<1>1. CASE UNCHANGED vars
  BY <1>1 DEF vars, userTable, ConnectionsWatched
<1>2. ASSUME NEW u \in Fd, handle_new_connection(u)
      PROVE  ConnectionsWatched'
  BY <1>2 DEF handle_new_connection, add_to_users, ConnectionsWatched
<1>3. ASSUME NEW u \in Fd, BeginBatch(u)
      PROVE  ConnectionsWatched'
  BY <1>3 DEF BeginBatch, userTable, ConnectionsWatched
<1>4. ASSUME NEW u \in Fd, handle_user_msg(u)
      PROVE  ConnectionsWatched'
  BY <1>4, LineEffects, LineFrame
     DEF handle_user_msg, ReadOnly, userTable, ConnectionsWatched
<1>5. ASSUME NEW u \in Fd, EndBatch(u)
      PROVE  ConnectionsWatched'
  BY <1>5, EndBatchCases
     DEF Disconnect, del_from_users, del_user_struct, userTable, ConnectionsWatched
<1>6. ASSUME NEW u \in Fd, Hangup(u)
      PROVE  ConnectionsWatched'
  BY <1>6, NamesAssumption
     DEF Hangup, Disconnect, del_from_users, del_user_struct, ConnectionsWatched
<1>7. ASSUME NEW u \in Fd, CrashStep(u)
      PROVE  ConnectionsWatched'
  BY <1>7, CrashFrame DEF userTable, ConnectionsWatched
<1> QED
  BY <1>1, <1>2, <1>3, <1>4, <1>5, <1>6, <1>7, NextCases
-----------------------------------------------------------------------------
(* The two sides of a membership. *)

(* The flags of a UserNode are freed with it: what justifies that the model *)
(* has a set of flagged members, and a fact the steps below rely on.        *)
FlagsOfMembers ==
    \A c \in Channel :
        channel[c].channel_op \cup channel[c].channel_voice
            \subseteq channel[c].user_list

ChannelInv == MembershipAgrees /\ FlagsOfMembers /\ NoEmptyChannel

\* What LeaveChannels does to each list.
LEMMA LeaveChannelsLists ==
    ASSUME ChannelTypeOK, FlagsOfMembers, NEW u \in Fd,
           NEW cs \in SUBSET Channel, LeaveChannels(u, cs)
    PROVE  \A c \in Channel :
               /\ channel'[c].user_list =
                      IF c \in cs THEN channel[c].user_list \ {u}
                                  ELSE channel[c].user_list
               /\ channel'[c].channel_op \cup channel'[c].channel_voice
                      \subseteq channel'[c].user_list
               /\ c \notin cs => channel'[c] = channel[c]
               /\ c \in channels_map' <=>
                      /\ c \in channels_map
                      /\ c \in cs => channel'[c].user_list # {}
<1> TAKE c \in Channel
<1> DEFINE rec == channel[c]
           left == channel_remove_user(rec, u)
<1>1. /\ rec \in ChannelStruct
      /\ rec.channel_op \cup rec.channel_voice \subseteq rec.user_list
  BY DEF ChannelTypeOK, FlagsOfMembers
<1>2. /\ left.user_list = rec.user_list \ {u}
      /\ left.channel_op \cup left.channel_voice \subseteq left.user_list
  <2> HIDE DEF rec
  <2> QED
    BY <1>1 DEF channel_remove_user, ChannelStruct
<1>3. c \in EmptiedBy(u, cs) <=> c \in cs /\ left.user_list = {}
  BY DEF EmptiedBy
<1>4. channel'[c] = IF c \in EmptiedBy(u, cs) THEN NewChannel
                    ELSE IF c \in cs THEN left ELSE rec
  BY DEF LeaveChannels
<1>5. c \in channels_map' <=> c \in channels_map /\ c \notin EmptiedBy(u, cs)
  BY DEF LeaveChannels
<1> HIDE DEF left, rec
<1>6. /\ NewChannel.user_list = {}
      /\ NewChannel.channel_op = {}
      /\ NewChannel.channel_voice = {}
  BY DEF NewChannel
<1> QED
  BY <1>1, <1>2, <1>3, <1>4, <1>5, <1>6 DEF rec

LEMMA JoinKeepsChannelInv ==
    ASSUME TablesTypeOK, ChannelInv, NEW u \in users_fd_map, NEW c \in Channel,
           ~channel_has_user(c, u), JoinChannel(u, c)
    PROVE  ChannelInv'
<1> DEFINE rec == channel_add_user(FoundOrCreated(c), u)
<1>0. u \in Fd /\ joined_channels[u] \in Seq(Channel)
  BY DEF TablesTypeOK, UserTypeOK
<1>1. channel' = [channel EXCEPT ![c] = rec] /\ channels_map' = channels_map \cup {c}
  BY DEF JoinChannel, join_channel
<1>2. /\ joined_channels' =
             [joined_channels EXCEPT ![u] = Append(joined_channels[u], c)]
      /\ UNCHANGED users_fd_map
  BY DEF JoinChannel, user_add_channel
<1>3. /\ FoundOrCreated(c) \in ChannelStruct
      /\ FoundOrCreated(c).user_list = channel[c].user_list
      /\ FoundOrCreated(c).channel_op \cup FoundOrCreated(c).channel_voice
             \subseteq channel[c].user_list
  <2>1. c \notin channels_map => channel[c].user_list = {}
    BY DEF ChannelInv, MembershipAgrees, TablesTypeOK, ChannelTypeOK,
           ChannelStruct
  <2>2. channel[c] \in ChannelStruct
    BY DEF TablesTypeOK, ChannelTypeOK
  <2> QED
    BY <2>1, <2>2, NewChannelType
       DEF FoundOrCreated, NewChannel, ChannelInv, FlagsOfMembers
<1>4. /\ rec.user_list = channel[c].user_list \cup {u}
      /\ rec.channel_op \cup rec.channel_voice \subseteq rec.user_list
  BY <1>3 DEF channel_add_user, ChannelStruct
<1>5. c \notin Range(joined_channels[u])
  BY <1>0 DEF channel_has_user, ChannelInv, MembershipAgrees, Joined
<1>6. /\ Range(Append(joined_channels[u], c)) = Range(joined_channels[u]) \cup {c}
      /\ IsInjective(Append(joined_channels[u], c))
  BY <1>0, <1>5, AppendOnce DEF ChannelInv, MembershipAgrees
<1> HIDE DEF rec
<1>7. \A v \in Fd : Joined(v)' = IF v = u THEN Joined(v) \cup {c} ELSE Joined(v)
  BY <1>0, <1>2, <1>6 DEF Joined, TablesTypeOK, UserTypeOK
<1>8. \A d \in Channel : channel'[d] = IF d = c THEN rec ELSE channel[d]
  BY <1>1 DEF TablesTypeOK, ChannelTypeOK
<1>9. \A v \in Fd : IsInjective(joined_channels'[v])
  BY <1>0, <1>2, <1>6 DEF ChannelInv, MembershipAgrees, TablesTypeOK, UserTypeOK
<1>10. MembershipAgrees'
  BY <1>0, <1>1, <1>2, <1>4, <1>7, <1>8, <1>9 DEF ChannelInv, MembershipAgrees
<1>11. FlagsOfMembers'
  BY <1>4, <1>8 DEF ChannelInv, FlagsOfMembers
<1>12. NoEmptyChannel'
  BY <1>1, <1>4, <1>8 DEF ChannelInv, NoEmptyChannel, TablesTypeOK, ChannelTypeOK
<1> QED
  BY <1>10, <1>11, <1>12 DEF ChannelInv

LEMMA PartKeepsChannelInv ==
    ASSUME TablesTypeOK, ChannelInv, NEW u \in Fd, NEW c \in Channel,
           IsMember(u, c), PartChannel(u, c)
    PROVE  ChannelInv'
<1> DEFINE q == joined_channels[u]
           j == CHOOSE j \in DOMAIN q : q[j] = c
<1>1. q \in Seq(Channel) /\ IsInjective(q)
  BY DEF TablesTypeOK, UserTypeOK, ChannelInv, MembershipAgrees
<1>2. j \in DOMAIN q /\ q[j] = c
  <2>1. c \in Range(q)
    BY DEF IsMember, channel_has_user, ChannelInv, MembershipAgrees, Joined
  <2> QED
    BY <2>1 DEF Range
<1>3. /\ joined_channels' = [joined_channels EXCEPT ![u] = RemoveAt(q, j)]
      /\ UNCHANGED users_fd_map
      /\ LeaveChannels(u, {c})
  BY DEF PartChannel, user_remove_channel
<1>4. Range(RemoveAt(q, j)) = Range(q) \ {c} /\ IsInjective(RemoveAt(q, j))
  <2> HIDE DEF q, j
  <2> QED
    BY <1>1, <1>2, RemoveAtOnce
<1> HIDE DEF j
<1>5. /\ \A v \in Fd : Joined(v)' = IF v = u THEN Joined(v) \ {c} ELSE Joined(v)
      /\ \A v \in Fd : IsInjective(joined_channels'[v])
  BY <1>3, <1>4 DEF Joined, TablesTypeOK, UserTypeOK, ChannelInv, MembershipAgrees
<1>6. \A d \in Channel :
          /\ channel'[d].user_list =
                 IF d \in {c} THEN channel[d].user_list \ {u}
                              ELSE channel[d].user_list
          /\ channel'[d].channel_op \cup channel'[d].channel_voice
                 \subseteq channel'[d].user_list
          /\ d \notin {c} => channel'[d] = channel[d]
          /\ d \in channels_map' <=>
                 /\ d \in channels_map
                 /\ d \in {c} => channel'[d].user_list # {}
  <2>1. ChannelTypeOK /\ FlagsOfMembers /\ {c} \in SUBSET Channel
    BY DEF TablesTypeOK, ChannelInv
  <2> QED
    BY <1>3, <2>1, LeaveChannelsLists
<1>7. MembershipAgrees'
  <2>1. \A v \in Fd, d \in Channel :
            v \in channel'[d].user_list <=> d \in Joined(v)'
    <3>1. \A v \in Fd, d \in Channel :
              d \in Joined(v) <=> v \in channel[d].user_list
      BY DEF ChannelInv, MembershipAgrees
    <3>2. \A v \in Fd, d \in Channel :
              d \in Joined(v)' <=> d \in Joined(v) /\ ~(v = u /\ d = c)
      BY <1>5
    <3>3. \A v \in Fd, d \in Channel :
              v \in channel'[d].user_list <=>
                  v \in channel[d].user_list /\ ~(v = u /\ d = c)
      BY <1>6
    <3> QED
      BY <3>1, <3>2, <3>3
  <2>2. \A v \in Fd : Joined(v)' # {} => v \in users_fd_map'
    BY <1>3, <1>5 DEF ChannelInv, MembershipAgrees
  <2>3. \A v \in Fd : Joined(v)' \subseteq channels_map'
    <3> SUFFICES ASSUME NEW v \in Fd, NEW d \in Joined(v)'
                 PROVE  d \in channels_map'
      OBVIOUS
    <3>1. d \in Joined(v) /\ d \in channels_map /\ d \in Channel
      BY <1>5 DEF ChannelInv, MembershipAgrees, TablesTypeOK, ChannelTypeOK
    <3>2. v \in channel'[d].user_list
      BY <2>1, <3>1
    <3> QED
      BY <1>6, <3>1, <3>2
  <2> QED
    BY <1>5, <2>1, <2>2, <2>3 DEF MembershipAgrees
<1>8. FlagsOfMembers'
  BY <1>6 DEF FlagsOfMembers
<1>9. channels_map' \subseteq channels_map
  BY <1>3 DEF LeaveChannels
<1>10. NoEmptyChannel'
  BY <1>6, <1>9 DEF ChannelInv, NoEmptyChannel, TablesTypeOK, ChannelTypeOK
<1> QED
  BY <1>7, <1>8, <1>10 DEF ChannelInv

LEMMA DisconnectKeepsChannelInv ==
    ASSUME TablesTypeOK, ChannelInv, NEW u \in Fd, del_from_users(u)
    PROVE  ChannelInv'
<1>1. /\ joined_channels' = [joined_channels EXCEPT ![u] = <<>>]
      /\ users_fd_map' = users_fd_map \ {u}
      /\ LeaveChannels(u, Joined(u))
  BY DEF del_from_users, del_user_struct
<1>2. Joined(u) \in SUBSET Channel
  BY DEF Joined, Range, TablesTypeOK, UserTypeOK
<1>3. \A c \in Channel :
          /\ channel'[c].user_list =
                 IF c \in Joined(u) THEN channel[c].user_list \ {u}
                                    ELSE channel[c].user_list
          /\ channel'[c].channel_op \cup channel'[c].channel_voice
                 \subseteq channel'[c].user_list
          /\ c \notin Joined(u) => channel'[c] = channel[c]
          /\ c \in channels_map' <=>
                 /\ c \in channels_map
                 /\ c \in Joined(u) => channel'[c].user_list # {}
  BY <1>1, <1>2, LeaveChannelsLists DEF TablesTypeOK, ChannelInv
<1>4. \A v \in Fd : Joined(v)' = IF v = u THEN {} ELSE Joined(v)
  BY <1>1 DEF Joined, Range, TablesTypeOK, UserTypeOK
<1>5. \A v \in Fd : IsInjective(joined_channels'[v])
  BY <1>1 DEF IsInjective, TablesTypeOK, UserTypeOK, ChannelInv, MembershipAgrees
<1>6. \A v \in Fd, c \in Channel : c \in Joined(v) <=> v \in channel[c].user_list
  BY DEF ChannelInv, MembershipAgrees
<1>7. MembershipAgrees'
  <2>1. \A v \in Fd, c \in Channel :
            v \in channel'[c].user_list <=> c \in Joined(v)'
    <3> SUFFICES ASSUME NEW v \in Fd, NEW c \in Channel
                 PROVE  v \in channel'[c].user_list <=> c \in Joined(v)'
      OBVIOUS
    <3>1. channel'[c].user_list = IF c \in Joined(u)
                                  THEN channel[c].user_list \ {u}
                                  ELSE channel[c].user_list
      BY <1>3
    <3>2. Joined(v)' = IF v = u THEN {} ELSE Joined(v)
      BY <1>4
    <3>3. /\ c \in Joined(u) <=> u \in channel[c].user_list
          /\ c \in Joined(v) <=> v \in channel[c].user_list
      BY <1>6
    <3> QED
      BY <3>1, <3>2, <3>3
  <2>2. \A v \in Fd : Joined(v)' # {} => v \in users_fd_map'
    BY <1>1, <1>4 DEF ChannelInv, MembershipAgrees
  <2>3. \A v \in Fd : Joined(v)' \subseteq channels_map'
    <3> SUFFICES ASSUME NEW v \in Fd, NEW c \in Joined(v)'
                 PROVE  c \in channels_map'
      OBVIOUS
    <3>1. c \in Joined(v) /\ c \in channels_map /\ c \in Channel
      BY <1>4 DEF ChannelInv, MembershipAgrees, TablesTypeOK, ChannelTypeOK
    <3>2. v \in channel'[c].user_list
      BY <2>1, <3>1
    <3> QED
      BY <1>3, <3>1, <3>2
  <2> QED
    BY <1>5, <2>1, <2>2, <2>3 DEF MembershipAgrees
<1>8. FlagsOfMembers'
  BY <1>3 DEF FlagsOfMembers
<1>9. channels_map' \subseteq channels_map
  BY <1>1 DEF LeaveChannels
<1>10. NoEmptyChannel'
  BY <1>3, <1>9 DEF ChannelInv, NoEmptyChannel, TablesTypeOK, ChannelTypeOK
<1> QED
  BY <1>7, <1>8, <1>10 DEF ChannelInv

LEMMA AbandonJoinKeepsChannelInv ==
    ASSUME TablesTypeOK, ChannelInv, NEW u \in Fd, NEW c \in Channel,
           AllocMayFail, AbandonJoin(u, c)
    PROVE  ChannelInv'
<1>1. /\ channel' = [channel EXCEPT ![c] = FoundOrCreated(c)]
      /\ channels_map' = channels_map \cup {c}
      /\ UNCHANGED <<joined_channels, users_fd_map>>
  BY DEF AbandonJoin, join_channel, userTable
<1>2. c \notin channels_map => channel[c].user_list = {}
  BY DEF ChannelInv, MembershipAgrees, TablesTypeOK, ChannelTypeOK, ChannelStruct
<1>3. \A d \in Channel :
          /\ channel'[d].user_list = channel[d].user_list
          /\ channel'[d].channel_op \cup channel'[d].channel_voice
                 \subseteq channel'[d].user_list
          /\ \/ d \in channels_map /\ channel'[d] = channel[d]
             \/ d # c /\ channel'[d] = channel[d]
             \/ channel'[d] = NewChannel
  BY <1>1, <1>2 DEF FoundOrCreated, NewChannel, TablesTypeOK, ChannelTypeOK,
                    ChannelInv, FlagsOfMembers
<1> QED
  BY <1>1, <1>3 DEF ChannelInv, MembershipAgrees, FlagsOfMembers, NoEmptyChannel,
                    Joined

\* TOPIC and MODE change a channel but not who is in it.
LEMMA SettersKeepChannelInv ==
    ASSUME TablesTypeOK, ChannelInv, NEW c \in Channel, NEW rec,
           channel' = [channel EXCEPT ![c] = rec],
           rec.user_list = channel[c].user_list, rec.user_list # {},
           rec.channel_op \cup rec.channel_voice \subseteq rec.user_list,
           UNCHANGED <<users_fd_map, joined_channels, channels_map>>
    PROVE  ChannelInv'
<1>1. \A d \in Channel :
          /\ channel'[d].user_list = channel[d].user_list
          /\ channel'[d].channel_op \cup channel'[d].channel_voice
                 \subseteq channel'[d].user_list
          /\ d # c => channel'[d] = channel[d]
  BY DEF TablesTypeOK, ChannelTypeOK, ChannelInv, FlagsOfMembers
<1> QED
  BY <1>1 DEF ChannelInv, MembershipAgrees, FlagsOfMembers, NoEmptyChannel, Joined,
              TablesTypeOK, ChannelTypeOK

LEMMA ChannelEffectKeepsChannelInv ==
    ASSUME TablesTypeOK, ChannelInv, NEW u \in users_fd_map, ChannelEffect(u)
    PROVE  ChannelInv'
<1>0. u \in Fd
  BY DEF TablesTypeOK, UserTypeOK
<1>1. ASSUME NEW c \in Channel, ~channel_has_user(c, u),
             JoinChannel(u, c) \/ (AllocMayFail /\ AbandonJoin(u, c))
      PROVE  ChannelInv'
  BY <1>0, <1>1, JoinKeepsChannelInv, AbandonJoinKeepsChannelInv
<1>2. ASSUME NEW c \in Channel, IsMember(u, c), PartChannel(u, c)
      PROVE  ChannelInv'
  BY <1>0, <1>2, PartKeepsChannelInv
<1>3. ASSUME NEW c \in Channel, NEW topic, IsMember(u, c), SetTopic(u, c, topic)
      PROVE  ChannelInv'
  <2> PICK stored \in StoredTopic(topic) :
           channel' = [channel EXCEPT ![c].topic = stored]
    BY <1>3 DEF SetTopic
  <2> DEFINE rec == [channel[c] EXCEPT !.topic = stored]
  <2>1. channel[c] \in ChannelStruct
    BY DEF TablesTypeOK, ChannelTypeOK
  <2>2. /\ rec.user_list = channel[c].user_list
        /\ rec.user_list # {}
        /\ rec.channel_op \cup rec.channel_voice \subseteq rec.user_list
    BY <1>3, <2>1 DEF ChannelStruct, ChannelInv, FlagsOfMembers, IsMember,
                      channel_has_user
  <2>3. /\ channel' = [channel EXCEPT ![c] = rec]
        /\ UNCHANGED <<users_fd_map, joined_channels, channels_map>>
    BY <1>3 DEF SetTopic, userTable
  <2> QED
    BY <2>2, <2>3, SettersKeepChannelInv
<1>4. CASE ModeEffect(u)
  <2> PICK c \in channels_map, mode \in ModeParams, v \in Fd :
           /\ channel[c].user_list # {}
           /\ \/ ChangeChannel(u, c, set_channel_mode(channel[c], mode), mode)
              \/ /\ v \in channel[c].user_list
                 /\ ChangeChannel(u, c, set_member_mode(channel[c], mode, v), mode)
    BY <1>4 DEF ModeEffect, channel_has_user
  <2>1. /\ c \in Channel
        /\ channel[c] \in ChannelStruct
        /\ channel[c].channel_op \cup channel[c].channel_voice
               \subseteq channel[c].user_list
    BY DEF TablesTypeOK, ChannelTypeOK, ChannelInv, FlagsOfMembers
  <2>2. CASE ChangeChannel(u, c, set_channel_mode(channel[c], mode), mode)
    <3> DEFINE rec == set_channel_mode(channel[c], mode)
    <3>1. /\ rec.user_list = channel[c].user_list
          /\ rec.channel_op \cup rec.channel_voice \subseteq rec.user_list
      BY <2>1 DEF set_channel_mode, ChannelStruct
    <3>2. /\ channel' = [channel EXCEPT ![c] = rec]
          /\ UNCHANGED <<users_fd_map, joined_channels, channels_map>>
      BY <2>2 DEF ChangeChannel, userTable
    <3> QED
      BY <2>1, <3>1, <3>2, SettersKeepChannelInv
  <2>3. CASE /\ v \in channel[c].user_list
             /\ ChangeChannel(u, c, set_member_mode(channel[c], mode, v), mode)
    <3> DEFINE rec == set_member_mode(channel[c], mode, v)
    <3>1. /\ rec.user_list = channel[c].user_list
          /\ rec.channel_op \cup rec.channel_voice \subseteq rec.user_list
      BY <2>1, <2>3 DEF set_member_mode, ChannelStruct
    <3>2. /\ channel' = [channel EXCEPT ![c] = rec]
          /\ UNCHANGED <<users_fd_map, joined_channels, channels_map>>
      BY <2>3 DEF ChangeChannel, userTable
    <3> QED
      BY <2>1, <3>1, <3>2, SettersKeepChannelInv
  <2> QED
    BY <2>2, <2>3
<1> QED
  BY <1>1, <1>2, <1>3, <1>4 DEF ChannelEffect
-----------------------------------------------------------------------------
(* The nickname table. *)

\* set_user_nick unlinks the old entry of u before it links the new one.
LEMMA RekeyKeepsNicks ==
    ASSUME TablesTypeOK, NickTableConsistent, NEW u \in users_fd_map,
           NEW n \in Nick, NickAvailable(n),
           users_nick_map' = NickTableRekey(u, n), UNCHANGED users_fd_map,
           \A v \in Fd : user'[v].nick = IF v = u THEN n ELSE user[v].nick
    PROVE  NickTableConsistent'
<1> SUFFICES ASSUME NEW v \in Fd, NEW m \in Nick
             PROVE  users_nick_map'[m] = v <=>
                        v \in users_fd_map /\ user'[v].nick = m
  BY DEF NickTableConsistent
<1>1. u \in Fd /\ users_nick_map \in [Nick -> Fd \cup {NULL}]
  BY DEF TablesTypeOK, UserTypeOK
<1>2. users_nick_map'[m] = IF m = n THEN u
                           ELSE IF users_nick_map[m] = u THEN NULL
                           ELSE users_nick_map[m]
  BY DEF NickTableRekey, NickTableDelete
<1>3. users_nick_map[n] = NULL
  BY DEF NickAvailable, get_user_by_nick
<1>4. /\ users_nick_map[m] = v <=> v \in users_fd_map /\ user[v].nick = m
      /\ users_nick_map[n] = v <=> v \in users_fd_map /\ user[v].nick = n
  BY DEF NickTableConsistent
<1> QED
  BY <1>1, <1>2, <1>3, <1>4, NamesAssumption

\* Nobody's nickname changes, and nobody enters or leaves.
LEMMA SameNicksKeepNicks ==
    ASSUME NickTableConsistent, UNCHANGED <<users_nick_map, users_fd_map>>,
           \A v \in Fd : user'[v].nick = user[v].nick
    PROVE  NickTableConsistent'
BY DEF NickTableConsistent

LEMMA UserEffectKeepsNicks ==
    ASSUME TablesTypeOK, NickTableConsistent, NEW u \in users_fd_map,
           UserEffect(u)
    PROVE  NickTableConsistent'
<1>0. u \in Fd /\ user \in [Fd -> User] /\ user[u] \in User
  BY DEF TablesTypeOK, UserTypeOK
<1>1. ASSUME NEW n \in Nick, NickAvailable(n), ChangeNick(u, n)
      PROVE  NickTableConsistent'
  <2> DEFINE rec == set_user_nick(user[u], n)
  <2>1. rec \in User /\ rec.nick = n
    BY <1>0, UserSetterType DEF set_user_nick, User
  <2>2. user' = [user EXCEPT ![u] = rec] \/
        user' = [user EXCEPT ![u] = [rec EXCEPT !.is_registered = TRUE]]
    BY <1>1 DEF ChangeNick, UpdateAndRegister
  <2> HIDE DEF rec
  <2>3. [rec EXCEPT !.is_registered = TRUE].nick = n
    BY <2>1 DEF User
  <2>4. \A v \in Fd : user'[v].nick = IF v = u THEN n ELSE user[v].nick
    BY <1>0, <2>1, <2>2, <2>3
  <2> QED
    BY <1>1, <2>4, RekeyKeepsNicks DEF ChangeNick
<1>2. CASE SetUsername(u)
  <2> DEFINE rec == set_user_username(user[u])
  <2>1. rec \in User /\ rec.nick = user[u].nick
    BY <1>0, UserSetterType DEF set_user_username, User
  <2>2. user' = [user EXCEPT ![u] = rec] \/
        user' = [user EXCEPT ![u] = [rec EXCEPT !.is_registered = TRUE]]
    BY <1>2 DEF SetUsername, UpdateAndRegister
  <2> HIDE DEF rec
  <2>3. [rec EXCEPT !.is_registered = TRUE].nick = user[u].nick
    BY <2>1 DEF User
  <2>4. \A v \in Fd : user'[v].nick = user[v].nick
    BY <1>0, <2>1, <2>2, <2>3
  <2> QED
    BY <1>2, <2>4, SameNicksKeepNicks DEF SetUsername
<1>3. ASSUME NEW status, NEW m, SetOperator(u, status, m)
      PROVE  NickTableConsistent'
  <2>1. \A v \in Fd : user'[v].nick = user[v].nick
    BY <1>0, <1>3 DEF SetOperator, user_set_operator_status, User
  <2> QED
    BY <1>3, <2>1, SameNicksKeepNicks DEF SetOperator
<1>4. ASSUME NEW away_msg, SetAway(u, away_msg)
      PROVE  NickTableConsistent'
  <2>1. \A v \in Fd : user'[v].nick = user[v].nick
    BY <1>0, <1>4 DEF SetAway, user_set_away_status, User
  <2> QED
    BY <1>4, <2>1, SameNicksKeepNicks DEF SetAway
<1>5. CASE handle_quit_cmd(u)
  <2>1. \A v \in Fd : user'[v].nick = user[v].nick
    BY <1>0, <1>5 DEF handle_quit_cmd, User
  <2> QED
    BY <1>5, <2>1, SameNicksKeepNicks DEF handle_quit_cmd
<1> QED
  BY <1>1, <1>2, <1>3, <1>4, <1>5 DEF UserEffect

LEMMA TableStepKeepsNicks ==
    ASSUME TablesTypeOK, NickTableConsistent, NEW u \in Fd, TableStep(u)
    PROVE  NickTableConsistent'
<1>0. user \in [Fd -> User] /\ users_nick_map \in [Nick -> Fd \cup {NULL}]
  BY DEF TablesTypeOK, UserTypeOK
<1>1. CASE u \notin users_fd_map /\ add_to_users(u)
  <2>1. \A v \in Fd : user'[v] = IF v = u THEN NewUser ELSE user[v]
    BY <1>0, <1>1 DEF add_to_users
  <2>2. \A n \in Nick : NewUser.nick # n
    BY NamesAssumption DEF NewUser
  <2> QED
    BY <1>1, <2>1, <2>2 DEF add_to_users, NickTableConsistent
<1>2. CASE u \in users_fd_map /\ UserEffect(u)
  BY <1>2, UserEffectKeepsNicks
<1>3. CASE ChannelEffect(u)
  <2>1. UNCHANGED <<users_fd_map, users_nick_map, user>>
    BY <1>3 DEF ChannelEffect, JoinChannel, AbandonJoin, PartChannel, SetTopic,
                ModeEffect, ChangeChannel, userTable
  <2> QED
    BY <2>1, SameNicksKeepNicks
<1>4. CASE del_from_users(u)
  <2>1. /\ users_fd_map' = users_fd_map \ {u}
        /\ \A v \in Fd : user'[v] = IF v = u THEN NewUser ELSE user[v]
        /\ \A n \in Nick : users_nick_map'[n] =
               IF users_nick_map[n] = u THEN NULL ELSE users_nick_map[n]
    BY <1>0, <1>4 DEF del_from_users, del_user_struct, NickTableDelete
  <2> QED
    BY <1>0, <2>1, NamesAssumption DEF NickTableConsistent
<1> QED
  BY <1>1, <1>2, <1>3, <1>4 DEF TableStep
-----------------------------------------------------------------------------
(* Everything sent is a message. *)

LEMMA EventType ==
    ASSUME NEW to \in Fd, NEW cmd \in Relayed \cup Numerics,
           NEW src \in Fd \cup {NULL}, NEW about \in Channel \cup {NULL}
    PROVE  Event(to, cmd, src, about) \in Message
BY DEF Event, Message

LEMMA NumericType ==
    ASSUME NEW u \in Fd, NEW name \in Numerics
    PROVE  Numeric(u, name) \in Message
BY EventType DEF Numeric

LEMMA RelayType ==
    ASSUME NEW c \in Channel, NEW list \in SUBSET Fd,
           NEW cmd \in Relayed \cup Numerics, NEW src \in Fd, NEW exclude
    PROVE  channel_message_users(c, list, cmd, src, exclude) \subseteq Message
BY EventType DEF channel_message_users

LEMMA NamesRepliesType ==
    ASSUME NEW u \in Fd, NEW c \in Names, NEW list \in SUBSET Fd,
           c \in Channel \/ list = {}
    PROVE  NamesReplies(u, c, list) \subseteq Message
<1>1. ASSUME NEW v \in list
      PROVE  Event(u, "RPL_NAMREPLY", v, c) \in Message
  BY <1>1, EventType DEF Numerics
<1>2. Numeric(u, "RPL_ENDOFNAMES") \in Message
  BY NumericType DEF Numerics
<1> QED
  BY <1>1, <1>2 DEF NamesReplies

LEMMA WelcomeType ==
    ASSUME NEW u \in Fd
    PROVE  /\ LusersReplies(u) \subseteq Message
           /\ MotdReplies(u) \subseteq Message
           /\ WelcomeReplies(u) \subseteq Message
<1>1. LusersReplies(u) \subseteq Message
  BY NumericType DEF LusersReplies, Numerics
<1>2. MotdReplies(u) \subseteq Message
  BY NumericType DEF MotdReplies, Numerics
<1> QED
  BY <1>1, <1>2, NumericType DEF WelcomeReplies, Numerics

LEMMA NickRelayType ==
    ASSUME TablesTypeOK, NEW u \in Fd
    PROVE  relay_nick_change(u) \subseteq Message
<1>1. HhNextWalk(u) \subseteq Channel
  BY DEF HhNextWalk, TablesTypeOK, UserTypeOK
<1>2. UNION {channel[c].user_list : c \in HhNextWalk(u)} \subseteq Fd
  BY <1>1 DEF TablesTypeOK, ChannelTypeOK, ChannelStruct
<1>3. \A v \in Fd : Event(v, "NICK", u, NULL) \in Message
  BY EventType DEF Relayed
<1> QED
  BY <1>2, <1>3 DEF relay_nick_change

LEMMA QuitRelayType ==
    ASSUME TablesTypeOK, NEW u \in Fd, NEW told \in SUBSET UsersWithNick
    PROVE  {Event(v, "QUIT", u, NULL) : v \in told} \subseteq Message
<1>1. UsersWithNick \subseteq Fd
  BY DEF UsersWithNick, get_user_by_nick, TablesTypeOK, UserTypeOK
<1> QED
  BY <1>1, EventType DEF Relayed

LEMMA UserHandlersSend ==
    ASSUME TablesTypeOK, NEW u \in Fd,
           \/ \E n \in Nick \cup {NULL} : handle_nick_cmd(u, n)
           \/ \E complete \in BOOLEAN : handle_user_cmd(u, complete)
           \/ \E pass \in OperParams : handle_oper_cmd(u, pass)
           \/ \E away_msg \in AwayParams : handle_away_cmd(u, away_msg)
           \/ handle_quit_cmd(u)
    PROVE  sent' \subseteq Message
<1>1. ASSUME NEW n \in Nick \cup {NULL}, handle_nick_cmd(u, n)
      PROVE  sent' \subseteq Message
  BY <1>1, NickRelayType, NumericType, WelcomeType
     DEF Numerics, handle_nick_cmd, Refuse, ChangeNick, UpdateAndRegister
<1>2. ASSUME NEW complete \in BOOLEAN, handle_user_cmd(u, complete)
      PROVE  sent' \subseteq Message
  BY <1>2, NumericType, WelcomeType
     DEF Numerics, handle_user_cmd, Refuse, Silent, SetUsername, UpdateAndRegister
<1>3. ASSUME NEW pass \in OperParams, handle_oper_cmd(u, pass)
      PROVE  sent' \subseteq Message
  <2>1. \E r \in {"ERR_NOTREGISTERED", "ERR_NEEDMOREPARAMS",
                  "ERR_PASSWDMISMATCH", "RPL_YOUREOP"} : sent' = {Numeric(u, r)}
    BY <1>3 DEF handle_oper_cmd, Refuse, SetOperator
  <2>2. \E r \in Numerics : sent' = {Numeric(u, r)}
    BY <2>1 DEF Numerics
  <2> QED
    BY <2>2, NumericType
<1>4. ASSUME NEW away_msg \in AwayParams, handle_away_cmd(u, away_msg)
      PROVE  sent' \subseteq Message
  BY <1>4, NumericType DEF Numerics, handle_away_cmd, Refuse, SetAway
<1>5. CASE handle_quit_cmd(u)
  BY <1>5, QuitRelayType DEF handle_quit_cmd
<1> QED
  BY <1>1, <1>2, <1>3, <1>4, <1>5

LEMMA ChannelHandlersSend ==
    ASSUME TablesTypeOK, NEW u \in Fd,
           \/ \E name \in Names : handle_join_cmd(u, name)
           \/ \E name \in Names : handle_part_cmd(u, name)
           \/ \E name \in Names, topic \in TopicParams :
                  handle_topic_cmd(u, name, topic)
    PROVE  sent' \subseteq Message
<1>0. \A c \in Channel : channel[c] \in ChannelStruct
  BY DEF TablesTypeOK, ChannelTypeOK
<1>1. ASSUME NEW name \in Names, handle_join_cmd(u, name)
      PROVE  sent' \subseteq Message
  <2>1. ASSUME name \in Channel
        PROVE  JoinReplies(u, name, channel_add_user(FoundOrCreated(name), u))
                   \subseteq Message
    <3> DEFINE rec == channel_add_user(FoundOrCreated(name), u)
    <3>1. rec \in ChannelStruct
      BY <1>0, <2>1, NewChannelType, ChannelSetterType DEF FoundOrCreated
    <3> HIDE DEF rec
    <3>2. rec.user_list \in SUBSET Fd
      BY <3>1 DEF ChannelStruct
    <3>3. JoinReplies(u, name, rec) \subseteq Message
      BY <2>1, <3>2, RelayType, NumericType, NamesRepliesType DEF JoinReplies, Numerics, Relayed
    <3> QED
      BY <3>3 DEF rec
  <2>2. \/ sent' = {}
        \/ name \in Channel /\ sent' =
               JoinReplies(u, name, channel_add_user(FoundOrCreated(name), u))
        \/ \E r \in {"ERR_NEEDMOREPARAMS", "ERR_NOSUCHCHANNEL",
                     "ERR_NOTREGISTERED"} : sent' = {Numeric(u, r)}
    BY <1>1 DEF handle_join_cmd, Refuse, Silent, JoinChannel, AbandonJoin
  <2>3. ASSUME NEW r \in {"ERR_NEEDMOREPARAMS", "ERR_NOSUCHCHANNEL",
                         "ERR_NOTREGISTERED"}
        PROVE  Numeric(u, r) \in Message
    BY NumericType DEF Numerics
  <2> QED
    BY <2>1, <2>2, <2>3
<1>2. ASSUME NEW name \in Names, handle_part_cmd(u, name)
      PROVE  sent' \subseteq Message
  <2>1. PartRefusal(u, name) \subseteq Message
    BY NumericType DEF PartRefusal, Numerics
  <2>2. ASSUME IsMember(u, name)
        PROVE  channel_message_users(name, channel[name].user_list, "PART", u, NULL)
                   \subseteq Message
    <3>1. name \in Channel /\ channel[name].user_list \in SUBSET Fd
      BY <1>0, <2>2 DEF IsMember, TablesTypeOK, ChannelTypeOK, ChannelStruct
    <3> QED
      BY <3>1, RelayType DEF Relayed
  <2> QED
    BY <1>2, <2>1, <2>2, NumericType DEF Numerics, handle_part_cmd, Refuse, Answer,
                                         PartChannel
<1>3. ASSUME NEW name \in Names, NEW topic \in TopicParams,
             handle_topic_cmd(u, name, topic)
      PROVE  sent' \subseteq Message
  <2>1. ASSUME IsMember(u, name)
        PROVE  channel_message_users(name, channel[name].user_list, "TOPIC", u, NULL)
                   \subseteq Message
    <3>1. name \in Channel /\ channel[name].user_list \in SUBSET Fd
      BY <1>0, <2>1 DEF IsMember, TablesTypeOK, ChannelTypeOK, ChannelStruct
    <3> QED
      BY <3>1, RelayType DEF Relayed
  <2>2. \/ IsMember(u, name) /\ sent' = channel_message_users(
               name, channel[name].user_list, "TOPIC", u, NULL)
        \/ \E r \in {"ERR_NOTREGISTERED", "ERR_NEEDMOREPARAMS",
                     "ERR_NOSUCHCHANNEL", "ERR_NOTONCHANNEL",
                     "ERR_CHANOPRIVSNEEDED", "RPL_NOTOPIC", "RPL_TOPIC"} :
               sent' = {Numeric(u, r)}
    <3>1. CASE channel[name].topic = NULL
      BY <1>3, <3>1 DEF handle_topic_cmd, Refuse, SetTopic
    <3>2. CASE channel[name].topic # NULL
      BY <1>3, <3>2 DEF handle_topic_cmd, Refuse, SetTopic
    <3> QED
      BY <3>1, <3>2
  <2>3. ASSUME NEW r \in {"ERR_NOTREGISTERED", "ERR_NEEDMOREPARAMS",
                         "ERR_NOSUCHCHANNEL", "ERR_NOTONCHANNEL",
                         "ERR_CHANOPRIVSNEEDED", "RPL_NOTOPIC", "RPL_TOPIC"}
        PROVE  Numeric(u, r) \in Message
    BY NumericType DEF Numerics
  <2> QED
    BY <2>1, <2>2, <2>3
<1> QED
  BY <1>1, <1>2, <1>3

LEMMA ChannelRelayType ==
    ASSUME TablesTypeOK, NEW u \in Fd, NEW c \in Channel,
           NEW cmd \in Relayed, NEW exclude
    PROVE  channel_message_users(c, channel[c].user_list, cmd, u, exclude)
               \subseteq Message
BY RelayType DEF TablesTypeOK, ChannelTypeOK, ChannelStruct

LEMMA ModeSends ==
    ASSUME TablesTypeOK, NEW u \in Fd, NEW target \in Names, NEW mode,
           NEW member \in Nick \cup {NULL}, handle_mode_cmd(u, target, mode, member)
    PROVE  sent' \subseteq Message
<1> DEFINE Refusals == {"ERR_NOTREGISTERED", "ERR_NEEDMOREPARAMS",
               "ERR_NOSUCHCHANNEL", "RPL_CHANNELMODEIS", "ERR_CHANOPRIVSNEEDED",
               "ERR_UNKNOWNMODE", "ERR_USERNOTINCHANNEL", "ERR_USERSDONTMATCH",
               "RPL_UMODEIS"}
<1>1. ASSUME NEW r \in Refusals, Refuse(u, r)
      PROVE  sent' \subseteq Message
  <2>1. r \in Numerics
    BY DEF Numerics
  <2> QED
    BY <1>1, <2>1, NumericType DEF Refuse
<1>2. ASSUME NEW c \in channels_map, ApplyChannelMode(u, c, mode, member)
      PROVE  sent' \subseteq Message
  <2>1. c \in Channel /\ channel[c] \in ChannelStruct
    BY DEF TablesTypeOK, ChannelTypeOK
  <2>2. ASSUME NEW rec \in ChannelStruct, ChangeChannel(u, c, rec, mode)
        PROVE  sent' \subseteq Message
    <3>1. rec.user_list \in SUBSET Fd
      BY DEF ChannelStruct
    <3>2. channel_message_users(c, rec.user_list, "MODE", u, NULL) \subseteq Message
      BY <2>1, <3>1, RelayType DEF Relayed
    <3> QED
      BY <2>2, <3>2 DEF ChangeChannel
  <2>3. CASE ChangeChannel(u, c, set_channel_mode(channel[c], mode), mode)
    BY <2>1, <2>2, <2>3, ChannelSetterType
  <2>4. ASSUME NEW v \in channel[c].user_list,
               ChangeChannel(u, c, set_member_mode(channel[c], mode, v), mode)
        PROVE  sent' \subseteq Message
    <3>1. v \in Fd
      BY <2>1 DEF ChannelStruct
    <3> QED
      BY <2>1, <2>2, <2>4, <3>1, ChannelSetterType
  <2>5. \/ ChangeChannel(u, c, set_channel_mode(channel[c], mode), mode)
        \/ \E v \in channel[c].user_list :
               ChangeChannel(u, c, set_member_mode(channel[c], mode, v), mode)
        \/ Refuse(u, "ERR_UNKNOWNMODE")
        \/ Refuse(u, "ERR_USERNOTINCHANNEL")
    BY <1>2 DEF ApplyChannelMode
  <2> QED
    BY <1>1, <2>3, <2>4, <2>5
<1>3. ASSUME NEW c \in Channel, handle_channel_mode(u, c, mode, member)
      PROVE  sent' \subseteq Message
  <2>1. \/ c \in channels_map /\ ApplyChannelMode(u, c, mode, member)
        \/ sent' = {}
        \/ Refuse(u, "ERR_NOSUCHCHANNEL")
        \/ Refuse(u, "RPL_CHANNELMODEIS")
        \/ Refuse(u, "ERR_CHANOPRIVSNEEDED")
    BY <1>3 DEF handle_channel_mode, Silent, IsMember
  <2> QED
    BY <1>1, <1>2, <2>1
<1>4. ASSUME NEW n \in Nick, handle_user_mode(u, n, mode)
      PROVE  sent' \subseteq Message
  <2>1. \/ sent' = {} \/ sent' = {Event(u, "MODE", u, NULL)}
        \/ Refuse(u, "ERR_USERSDONTMATCH")
        \/ Refuse(u, "RPL_UMODEIS")
        \/ Refuse(u, "ERR_UNKNOWNMODE")
    BY <1>4 DEF handle_user_mode, Silent, SetOperator
  <2>2. Event(u, "MODE", u, NULL) \in Message
    BY EventType DEF Relayed
  <2> QED
    BY <1>1, <2>1, <2>2
<1>5. \/ target \in Channel /\ handle_channel_mode(u, target, mode, member)
      \/ target \in Nick /\ handle_user_mode(u, target, mode)
      \/ Refuse(u, "ERR_NOTREGISTERED")
      \/ Refuse(u, "ERR_NEEDMOREPARAMS")
  BY DEF handle_mode_cmd
<1> QED
  BY <1>1, <1>3, <1>4, <1>5

LEMMA UnlessNoticeType ==
    ASSUME NEW u \in Fd, NEW is_notice \in BOOLEAN, NEW r \in Numerics
    PROVE  UnlessNotice(is_notice, u, r) \subseteq Message
BY NumericType DEF UnlessNotice

LEMMA PrivmsgSends ==
    ASSUME TablesTypeOK, NEW u \in Fd, NEW target \in Names,
           NEW has_text \in BOOLEAN, NEW is_notice \in BOOLEAN
    PROVE  handle_msg_cmd(u, target, has_text, is_notice) \subseteq Message
<1> DEFINE Quiet(r) == UnlessNotice(is_notice, u, r)
<1>1. MsgCmd(is_notice) \in Relayed
  BY DEF MsgCmd, Relayed
<1>2. /\ Quiet("ERR_NOSUCHNICK") \subseteq Message
      /\ Quiet("ERR_CANNOTSENDTOCHAN") \subseteq Message
      /\ Quiet("RPL_AWAY") \subseteq Message
      /\ Quiet("ERR_NORECIPIENT") \subseteq Message
      /\ Quiet("ERR_NOTEXTTOSEND") \subseteq Message
      /\ Quiet("ERR_NOTREGISTERED") \subseteq Message
  BY UnlessNoticeType DEF Numerics
<1>3. Numeric(u, "ERR_CANNOTSENDTOCHAN") \in Message
  BY NumericType DEF Numerics
<1>4. ASSUME NEW c \in Channel
      PROVE  handle_privmsg_channel(u, c, is_notice) \subseteq Message
  <2>1. channel_message_users(c, channel[c].user_list, MsgCmd(is_notice), u, u)
            \subseteq Message
    BY <1>1, ChannelRelayType
  <2> QED
    BY <1>2, <1>3, <2>1 DEF handle_privmsg_channel, IsMember
<1>5. ASSUME NEW n \in Nick
      PROVE  handle_privmsg_user(u, n, is_notice) \subseteq Message
  <2>1. get_user_by_nick(n) \in Fd \cup {NULL}
    BY DEF get_user_by_nick, TablesTypeOK, UserTypeOK
  <2>2. ASSUME get_user_by_nick(n) # NULL
        PROVE  Event(get_user_by_nick(n), MsgCmd(is_notice), u, NULL) \in Message
    BY <1>1, <2>1, <2>2, EventType
  <2>3. \A v \in Fd : user[v].is_away \in BOOLEAN
    BY DEF TablesTypeOK, UserTypeOK, User
  <2> QED
    BY <1>2, <2>1, <2>2, <2>3 DEF handle_privmsg_user
<1>6. user[u].is_registered \in BOOLEAN
  BY DEF TablesTypeOK, UserTypeOK, User
<1> QED
  BY <1>2, <1>4, <1>5, <1>6, NamesAssumption DEF handle_msg_cmd, Names

LEMMA QuerySends ==
    ASSUME TablesTypeOK, NEW u \in Fd, NEW name \in Names
    PROVE  /\ name \notin Channel => handle_whois_cmd(u, name) \subseteq Message
           /\ handle_who_cmd(u, name) \subseteq Message
           /\ handle_names_cmd(u, name) \subseteq Message
           /\ handle_list_cmd(u, name) \subseteq Message
<1>0. /\ user[u].is_registered \in BOOLEAN
      /\ \A v \in Fd : Joined(v) \subseteq Channel
      /\ \A c \in channels_map : c \in Channel /\ channel[c].user_list \in SUBSET Fd
      /\ UsersWithNick \subseteq Fd
  <2>1. user[u].is_registered \in BOOLEAN
    BY DEF TablesTypeOK, UserTypeOK, User
  <2>2. \A v \in Fd : Joined(v) \subseteq Channel
    BY DEF TablesTypeOK, UserTypeOK, Joined, Range
  <2>3. \A c \in channels_map : c \in Channel /\ channel[c].user_list \in SUBSET Fd
    BY DEF TablesTypeOK, ChannelTypeOK, ChannelStruct
  <2>4. UsersWithNick \subseteq Fd
    BY DEF UsersWithNick, get_user_by_nick, TablesTypeOK, UserTypeOK
  <2> QED
    BY <2>1, <2>2, <2>3, <2>4
<1>1. /\ Numeric(u, "ERR_NOTREGISTERED") \in Message
      /\ Numeric(u, "ERR_NOSUCHNICK") \in Message
      /\ Numeric(u, "RPL_AWAY") \in Message
      /\ Numeric(u, "RPL_WHOISOPERATOR") \in Message
      /\ Numeric(u, "RPL_WHOISUSER") \in Message
      /\ Numeric(u, "RPL_WHOISSERVER") \in Message
      /\ Numeric(u, "RPL_ENDOFWHOIS") \in Message
      /\ Numeric(u, "RPL_ENDOFWHO") \in Message
      /\ Numeric(u, "RPL_LISTEND") \in Message
  BY NumericType DEF Numerics
<1>2. ASSUME name \in Nick \cup {NULL}
      PROVE  handle_whois_cmd(u, name) \subseteq Message
  <2>1. ASSUME NEW v \in Fd
        PROVE  WhoisReplies(u, v) \subseteq Message
    <3>1. \A c \in Joined(v) : Event(u, "RPL_WHOISCHANNELS", v, c) \in Message
      BY <1>0, EventType DEF Numerics
    <3> QED
      BY <1>1, <3>1 DEF WhoisReplies
  <2>2. name \in Nick => get_user_by_nick(name) \in Fd \cup {NULL}
    BY DEF get_user_by_nick, TablesTypeOK, UserTypeOK
  <2> QED
    BY <1>0, <1>1, <1>2, <2>1, <2>2 DEF handle_whois_cmd
<1>3. handle_who_cmd(u, name) \subseteq Message
  <2>1. \A v \in Fd : Event(u, "RPL_WHOREPLY", v, NULL) \in Message
    BY EventType DEF Numerics
  <2>2. MembersOf(name) \subseteq Fd
    BY <1>0 DEF MembersOf
  <2> QED
    <3>1. ASSUME NEW listed \in SUBSET Fd
          PROVE  {Event(u, "RPL_WHOREPLY", v, NULL) : v \in listed}
                     \cup {Numeric(u, "RPL_ENDOFWHO")} \subseteq Message
      BY <1>1, <2>1
    <3>2. {v \in UsersWithNick : ~users_share_channel(u, v)} \in SUBSET Fd
      BY <1>0
    <3>3. CASE name \in Channel
      BY <2>2, <3>1, <3>3, NamesAssumption DEF handle_who_cmd
    <3>4. CASE name = NULL
      BY <3>1, <3>2, <3>4, NamesAssumption DEF handle_who_cmd
    <3>5. CASE name \in Nick
      BY <3>1, <3>5, NamesAssumption DEF handle_who_cmd
    <3> QED
      BY <3>3, <3>4, <3>5 DEF Names
<1>4. handle_names_cmd(u, name) \subseteq Message
  <2>1. /\ MembersOf(name) \in SUBSET Fd
        /\ name \in Channel \/ MembersOf(name) = {}
    BY <1>0 DEF MembersOf
  <2> QED
    BY <1>1, <2>1, NamesRepliesType DEF handle_names_cmd
<1>5. handle_list_cmd(u, name) \subseteq Message
  <2>1. \A c \in Channel : Event(u, "RPL_LIST", NULL, c) \in Message
    BY EventType DEF Numerics
  <2> QED
    BY <1>0, <1>1, <2>1 DEF handle_list_cmd
<1> QED
  BY <1>2, <1>3, <1>4, <1>5 DEF Names

LEMMA LineSends ==
    ASSUME TablesTypeOK, NEW u \in Fd, HandleLine(u)
    PROVE  sent' \subseteq Message
<1>1. CASE \/ \E n \in Nick \cup {NULL} : handle_nick_cmd(u, n)
           \/ \E complete \in BOOLEAN : handle_user_cmd(u, complete)
           \/ \E pass \in OperParams : handle_oper_cmd(u, pass)
           \/ \E away_msg \in AwayParams : handle_away_cmd(u, away_msg)
           \/ handle_quit_cmd(u)
  BY <1>1, UserHandlersSend
<1>2. CASE \/ \E name \in Names : handle_join_cmd(u, name)
           \/ \E name \in Names : handle_part_cmd(u, name)
           \/ \E name \in Names, topic \in TopicParams :
                  handle_topic_cmd(u, name, topic)
  BY <1>2, ChannelHandlersSend
<1>3. ASSUME NEW target \in Names, NEW mode, NEW member \in Nick \cup {NULL},
             handle_mode_cmd(u, target, mode, member)
      PROVE  sent' \subseteq Message
  BY <1>3, ModeSends
<1>4. CASE \E target \in Names, has_text \in BOOLEAN, is_notice \in BOOLEAN :
               Answer(handle_msg_cmd(u, target, has_text, is_notice))
  BY <1>4, PrivmsgSends DEF Answer
<1>5. CASE \/ \E n \in Nick \cup {NULL} : Answer(handle_whois_cmd(u, n))
           \/ \E mask \in Names : Answer(handle_who_cmd(u, mask))
           \/ \E name \in Names : Answer(handle_names_cmd(u, name))
           \/ \E name \in Names : Answer(handle_list_cmd(u, name))
  <2>1. \A n \in Nick \cup {NULL} : n \in Names /\ n \notin Channel
    BY NamesAssumption DEF Names
  <2> QED
    BY <1>5, <2>1, QuerySends DEF Answer
<1>6. CASE \/ Answer(LusersReplies(u))
           \/ Answer(MotdReplies(u))
           \/ Answer({Numeric(u, "PONG")})
           \/ Answer({Numeric(u, "ERR_UNKNOWNCOMMAND")})
           \/ Silent
  <2>1. Numeric(u, "PONG") \in Message /\ Numeric(u, "ERR_UNKNOWNCOMMAND") \in Message
    BY NumericType DEF Numerics
  <2> QED
    BY <1>6, <2>1, WelcomeType DEF Answer, Silent
<1>7. CASE \/ \E target \in Channel, mode \in ModeParams,
                 member \in Nick \cup {NULL} :
                  handle_mode_cmd(u, target, mode, member)
           \/ \E target \in Nick \cup {NULL}, mode \in UserModes :
                  handle_mode_cmd(u, target, mode, NULL)
  <2>1. Channel \subseteq Names /\ Nick \cup {NULL} \subseteq Names
    BY DEF Names
  <2> QED
    BY <1>3, <1>7, <2>1, Zenon
<1> QED
  BY <1>1, <1>2, <1>4, <1>5, <1>6, <1>7 DEF HandleLine

LEMMA CrashSends ==
    ASSUME TablesTypeOK, NEW u \in Fd, CrashStep(u)
    PROVE  sent' \subseteq Message
BY NickRelayType, QuitRelayType
   DEF CrashStep, CrashInNick, CrashInQuit, CrashInWho, Crash
-----------------------------------------------------------------------------
(* The inductive invariant.  Each conjunct needs others: the type of        *)
(* joined_channels after PART needs MembershipAgrees, whose step at a line  *)
(* needs ConnectionsWatched (the sender is in the table, or a join would    *)
(* make a member of somebody who is not).                                   *)

IInv == TypeOK /\ ConnectionsWatched /\ ChannelInv /\ NickTableConsistent

LEMMA TableStepType ==
    ASSUME TablesTypeOK, ChannelInv, NEW u \in Fd, TableStep(u)
    PROVE  TablesTypeOK'
<1>1. CASE add_to_users(u) /\ UNCHANGED channelTable
  <2>1. NewUser \in User
    BY DEF NewUser, User
  <2>2. <<>> \in Seq(Channel)
    OBVIOUS
  <2> QED
    BY <1>1, <2>1, <2>2 DEF add_to_users, TablesTypeOK, UserTypeOK, ChannelTypeOK,
                            channelTable
<1>2. CASE UserEffect(u)
  BY <1>2, UserEffectType
<1>3. CASE ChannelEffect(u)
  <2>1. /\ \A v \in Fd : IsInjective(joined_channels[v])
        /\ \A c \in Channel : IsMember(u, c) => c \in Joined(u)
    BY DEF ChannelInv, MembershipAgrees, IsMember, channel_has_user
  <2> QED
    BY <1>3, <2>1, ChannelEffectType
<1>4. CASE del_from_users(u)
  <2>1. Joined(u) \in SUBSET Channel
    BY DEF Joined, Range, TablesTypeOK, UserTypeOK
  <2>2. ChannelTypeOK'
    BY <1>4, <2>1, LeaveChannelsType DEF del_from_users, TablesTypeOK
  <2>3. /\ operator_user_count' \in Int
        /\ registered_user_count' \in Int
        /\ unknown_user_count' \in Int
    BY <1>4 DEF del_from_users, del_user_struct, del_user_counts, TablesTypeOK,
                UserTypeOK
  <2>4. /\ NickTableDelete(u) \in [Nick -> Fd \cup {NULL}]
        /\ NewUser \in User
        /\ <<>> \in Seq(Channel)
    BY NickTableType DEF NewUser, User, TablesTypeOK
  <2> QED
    BY <1>4, <2>2, <2>3, <2>4 DEF del_from_users, del_user_struct, TablesTypeOK,
                                  UserTypeOK
<1> QED
  BY <1>1, <1>2, <1>3, <1>4 DEF TableStep

LEMMA TableStepKeepsChannelInv ==
    ASSUME TablesTypeOK, ChannelInv, NEW u \in Fd, TableStep(u)
    PROVE  ChannelInv'
<1>1. CASE u \notin users_fd_map /\ add_to_users(u) /\ UNCHANGED channelTable
  <2>1. Joined(u) = {} /\ users_fd_map' = users_fd_map \cup {u}
    BY <1>1 DEF ChannelInv, MembershipAgrees, add_to_users
  <2>2. /\ joined_channels' = [joined_channels EXCEPT ![u] = <<>>]
        /\ Range(<<>>) = {} /\ IsInjective(<<>>)
    BY <1>1 DEF add_to_users, Range, IsInjective
  <2>3. /\ \A v \in Fd : Joined(v)' = Joined(v)
        /\ \A v \in Fd : IsInjective(joined_channels'[v])
    BY <2>1, <2>2 DEF Joined, TablesTypeOK, UserTypeOK, ChannelInv,
                      MembershipAgrees
  <2> QED
    BY <1>1, <2>1, <2>3 DEF ChannelInv, MembershipAgrees, FlagsOfMembers,
                            NoEmptyChannel, channelTable
<1>2. CASE UserEffect(u)
  BY <1>2, UserEffectFrame DEF ChannelInv, MembershipAgrees, FlagsOfMembers,
                               NoEmptyChannel, channelTable, Joined
<1>3. CASE u \in users_fd_map /\ ChannelEffect(u)
  BY <1>3, ChannelEffectKeepsChannelInv
<1>4. CASE del_from_users(u)
  BY <1>4, DisconnectKeepsChannelInv
<1> QED
  BY <1>1, <1>2, <1>3, <1>4 DEF TableStep

LEMMA IInvInit == Init => IInv
<1> SUFFICES ASSUME Init
             PROVE  IInv
  OBVIOUS
<1> USE DEF Init, UserInit, ChannelInit
<1>1. TypeOK
  <2>1. NewUser \in User /\ <<>> \in Seq(Channel)
    BY DEF NewUser, User
  <2>2. UserTypeOK /\ ChannelTypeOK
    BY <2>1, NewChannelType DEF UserTypeOK, ChannelTypeOK
  <2> QED
    BY <2>2 DEF TypeOK
<1>2. ConnectionsWatched
  BY DEF ConnectionsWatched
<1>3. ChannelInv
  <2>1. \A v \in Fd : Joined(v) = {} /\ IsInjective(joined_channels[v])
    BY DEF Joined, Range, IsInjective
  <2>2. \A c \in Channel : /\ channel[c].user_list = {}
                           /\ channel[c].channel_op = {}
                           /\ channel[c].channel_voice = {}
    BY DEF NewChannel
  <2> QED
    BY <2>1, <2>2 DEF ChannelInv, MembershipAgrees, FlagsOfMembers, NoEmptyChannel
<1>4. NickTableConsistent
  BY NamesAssumption DEF NickTableConsistent
<1> QED
  BY <1>1, <1>2, <1>3, <1>4 DEF IInv

LEMMA IInvStep == IInv /\ [Next]_vars => IInv'
<1> SUFFICES ASSUME IInv, [Next]_vars
             PROVE  IInv'
  OBVIOUS
<1>0. TypeOK /\ ConnectionsWatched /\ ChannelInv /\ NickTableConsistent /\ TablesTypeOK
  BY DEF IInv, TypeOK, TablesTypeOK
<1>1. ConnectionsWatched'
  BY <1>0, ConnectionsStep
<1>2. TablesTypeOK' /\ ChannelInv' /\ NickTableConsistent'
  <2>1. CASE ReadOnly
    BY <1>0, <2>1
       DEF ReadOnly, userTable, channelTable, userCounts, TablesTypeOK, UserTypeOK,
           ChannelTypeOK, ChannelInv, MembershipAgrees, FlagsOfMembers,
           NoEmptyChannel, NickTableConsistent, Joined
  <2>2. ASSUME NEW u \in Fd, TableStep(u)
        PROVE  TablesTypeOK' /\ ChannelInv' /\ NickTableConsistent'
    BY <1>0, <2>2, TableStepType, TableStepKeepsChannelInv, TableStepKeepsNicks
  <2> QED
    BY <1>0, <2>1, <2>2, StepCases
<1>3. sent' \subseteq Message
  <2>1. ASSUME NEW u \in Fd, handle_user_msg(u)
        PROVE  sent' \subseteq Message
    BY <1>0, <2>1, LineSends DEF handle_user_msg
  <2>2. CASE UNCHANGED vars
    BY <1>0, <2>2 DEF vars, TypeOK
  <2>3. ASSUME NEW u \in Fd, CrashStep(u)
        PROVE  sent' \subseteq Message
    BY <1>0, <2>3, CrashSends
  <2> QED
    BY <2>1, <2>2, <2>3, NextCases
       DEF handle_new_connection, BeginBatch, EndBatch, Hangup
<1>4. /\ epfd' \subseteq Fd
      /\ active' \in Fd \cup {NULL}
      /\ crashed' \in BOOLEAN
  <2>1. crashed' \in BOOLEAN
    BY <1>0, NextCases
       DEF TypeOK, vars, handle_new_connection, BeginBatch, handle_user_msg,
           EndBatch, Hangup, CrashStep, CrashInNick, CrashInQuit, CrashInWho, Crash
  <2> QED
    BY <1>1, <1>2, <2>1 DEF ConnectionsWatched, TablesTypeOK, UserTypeOK
<1> QED
  BY <1>1, <1>2, <1>3, <1>4 DEF IInv, TypeOK, TablesTypeOK

LEMMA IInvAlways == Spec => []IInv
BY IInvInit, IInvStep, PTL DEF Spec
-----------------------------------------------------------------------------
(* The theorems. *)

\* Every reachable state has the types of the structs and tables, and every
\* message sent is one of the messages of messages.h or a relayed command.
THEOREM TypeCorrect == Spec => []TypeOK
<1>1. IInv => TypeOK
  BY DEF IInv
<1> QED
  BY <1>1, IInvAlways, PTL

\* However clients rename themselves, connect, quit and reuse descriptors,
\* users_nick_map finds exactly the clients that have the nickname now.
THEOREM NicknamesConsistent == Spec => []NickTableConsistent
<1>1. IInv => NickTableConsistent
  BY DEF IInv
<1> QED
  BY <1>1, IInvAlways, PTL

\* user_list of the channels and joined_channels of the users say the same in
\* every reachable state, and mention no freed channel and no freed user.
THEOREM MembershipConsistent == Spec => []MembershipAgrees
<1>1. IInv => MembershipAgrees
  BY DEF IInv, ChannelInv
<1> QED
  BY <1>1, IInvAlways, PTL

\* An empty channel of the table is a new one whose first JOIN failed.
THEOREM EmptyChannelsDeleted == Spec => []NoEmptyChannel
<1>1. IInv => NoEmptyChannel
  BY DEF IInv, ChannelInv
<1> QED
  BY <1>1, IInvAlways, PTL

\* A list that loses its last member goes with its channel.
LEMMA ChannelEffectLeavesNoneEmpty ==
    ASSUME TablesTypeOK, ChannelInv, NEW u \in Fd, ChannelEffect(u)
    PROVE  NotLeftEmpty
<1> SUFFICES ASSUME NEW d \in channels_map \cap channels_map',
                    channel[d].user_list # {}
             PROVE  channel'[d].user_list # {}
  BY DEF NotLeftEmpty
<1>0. /\ d \in Channel
      /\ channel \in [Channel -> ChannelStruct]
      /\ channel[d] \in ChannelStruct
      /\ FlagsOfMembers
  BY DEF TablesTypeOK, ChannelTypeOK, ChannelInv
<1>1. ASSUME NEW c \in Channel, JoinChannel(u, c) \/ AbandonJoin(u, c)
      PROVE  channel'[d].user_list # {}
  <2>1. channel'[d] \in {channel[d], channel_add_user(channel[d], u)}
    BY <1>0, <1>1 DEF JoinChannel, AbandonJoin, join_channel, FoundOrCreated
  <2> QED
    BY <1>0, <2>1 DEF channel_add_user, ChannelStruct
<1>2. ASSUME NEW c \in Channel, PartChannel(u, c)
      PROVE  channel'[d].user_list # {}
  <2>1. {c} \in SUBSET Channel /\ LeaveChannels(u, {c}) /\ ChannelTypeOK
    BY <1>2 DEF PartChannel, TablesTypeOK
  <2> QED
    BY <1>0, <2>1, LeaveChannelsLists
<1>3. ASSUME NEW c \in Channel, NEW topic, SetTopic(u, c, topic)
      PROVE  channel'[d].user_list # {}
  <2> PICK stored : channel' = [channel EXCEPT ![c].topic = stored]
    BY <1>3 DEF SetTopic
  <2> QED
    BY <1>0 DEF ChannelStruct
<1>4. CASE ModeEffect(u)
  <2>1. \E c \in Channel : \E rec : /\ channel' = [channel EXCEPT ![c] = rec]
                                   /\ rec.user_list = channel[c].user_list
    <3> PICK c \in channels_map, mode \in ModeParams, v \in Fd :
             \/ ChangeChannel(u, c, set_channel_mode(channel[c], mode), mode)
             \/ ChangeChannel(u, c, set_member_mode(channel[c], mode, v), mode)
      BY <1>4 DEF ModeEffect
    <3>1. c \in Channel /\ channel[c] \in ChannelStruct
      BY <1>0 DEF TablesTypeOK, ChannelTypeOK
    <3>2. /\ set_channel_mode(channel[c], mode).user_list = channel[c].user_list
          /\ set_member_mode(channel[c], mode, v).user_list = channel[c].user_list
      BY <3>1 DEF set_channel_mode, set_member_mode, ChannelStruct
    <3> QED
      BY <3>1, <3>2 DEF ChangeChannel
  <2> QED
    BY <1>0, <2>1
<1> QED
  BY <1>1, <1>2, <1>3, <1>4 DEF ChannelEffect

\* PART, MODE, QUIT and disconnections in any order leave no channel behind when
\* they take its last member, and no step makes a channel empty otherwise.
THEOREM EmptiedAreDeleted == Spec => EmptiedChannelsDeleted
<1>1. ASSUME IInv, [Next]_vars
      PROVE  [NotLeftEmpty]_vars
  <2>0. TypeOK /\ TablesTypeOK /\ ChannelInv /\ ConnectionsWatched
    BY <1>1 DEF IInv, TypeOK, TablesTypeOK
  <2>1. CASE channel' = channel
    BY <2>1 DEF NotLeftEmpty
  <2>2. ASSUME NEW u \in Fd, ChannelEffect(u)
        PROVE  NotLeftEmpty
    BY <2>0, <2>2, ChannelEffectLeavesNoneEmpty
  <2>3. ASSUME NEW u \in Fd, del_from_users(u)
        PROVE  NotLeftEmpty
    <3>1. /\ ChannelTypeOK /\ FlagsOfMembers
          /\ Joined(u) \in SUBSET Channel
          /\ LeaveChannels(u, Joined(u))
      BY <2>0, <2>3 DEF TablesTypeOK, UserTypeOK, ChannelInv, Joined, Range,
                        del_from_users
    <3> QED
      BY <3>1, LeaveChannelsLists DEF NotLeftEmpty, ChannelTypeOK
  <2> QED
    BY <1>1, <2>0, <2>1, <2>2, <2>3, StepCases, UserEffectFrame
       DEF TableStep, ReadOnly, channelTable
<1>2. IInv /\ [Next]_vars => [NotLeftEmpty]_vars
  BY <1>1
<1> QED
  BY <1>2, IInvAlways, PTL DEF Spec, EmptiedChannelsDeleted

\* Only the client that is handled gets a nickname or joins a channel, and it is
\* a watched one.
LEMMA UnwatchedStep ==
    ASSUME IInv, UnwatchedAreNew, [Next]_vars
    PROVE  UnwatchedAreNew'
<1>0. TypeOK /\ ConnectionsWatched /\ user \in [Fd -> User]
      /\ joined_channels \in [Fd -> Seq(Channel)] /\ users_fd_map \subseteq Fd
  BY DEF IInv, TypeOK, UserTypeOK
<1>1. CASE UNCHANGED <<userTable, epfd>>
  BY <1>1 DEF userTable, UnwatchedAreNew, Joined
<1>2. ASSUME NEW u \in Fd, handle_new_connection(u)
      PROVE  UnwatchedAreNew'
  <2>1. /\ users_fd_map' = users_fd_map \cup {u}
        /\ epfd \subseteq epfd'
        /\ user'[u] = NewUser
        /\ joined_channels'[u] = <<>>
        /\ \A v \in Fd \ {u} : /\ user'[v] = user[v]
                               /\ joined_channels'[v] = joined_channels[v]
    BY <1>0, <1>2 DEF handle_new_connection, add_to_users
  <2>2. Joined(u)' = {}
    BY <2>1 DEF Joined, Range
  <2> QED
    BY <1>0, <2>1, <2>2 DEF UnwatchedAreNew, Joined
<1>3. ASSUME NEW u \in Fd, handle_user_msg(u)
      PROVE  UnwatchedAreNew'
  <2>1. u \in epfd /\ epfd' = epfd
    BY <1>0, <1>3, NamesAssumption DEF handle_user_msg, ConnectionsWatched
  <2>2. CASE ReadOnly
    BY <1>1, <2>1, <2>2 DEF ReadOnly
  <2>3. CASE UserEffect(u) \/ ChannelEffect(u)
    <3>1. users_fd_map' = users_fd_map
      BY <2>3, LineFrame
    <3>2. \A v \in Fd \ {u} : user'[v] = user[v]
      BY <1>0, <2>3
         DEF UserEffect, ChangeNick, SetUsername, UpdateAndRegister, SetOperator,
             user_set_operator_status, SetAway, handle_quit_cmd,
             ChannelEffect, JoinChannel, AbandonJoin, PartChannel, SetTopic,
             ModeEffect, ChangeChannel, userTable
    <3>3. \A v \in Fd \ {u} : joined_channels'[v] = joined_channels[v]
      BY <1>0, <2>3, UserEffectFrame
         DEF ChannelEffect, JoinChannel, AbandonJoin, PartChannel, SetTopic,
             ModeEffect, ChangeChannel, userTable, user_add_channel,
             user_remove_channel
    <3> QED
      BY <1>0, <2>1, <3>1, <3>2, <3>3 DEF UnwatchedAreNew, Joined
  <2> QED
    BY <1>0, <1>3, <2>2, <2>3, LineEffects DEF handle_user_msg
<1>4. ASSUME NEW u \in Fd, Disconnect(u)
      PROVE  UnwatchedAreNew'
  <2>1. /\ users_fd_map' = users_fd_map \ {u}
        /\ epfd' = epfd \ {u}
        /\ \A v \in Fd \ {u} : /\ user'[v] = user[v]
                               /\ joined_channels'[v] = joined_channels[v]
    BY <1>0, <1>4 DEF Disconnect, del_from_users, del_user_struct
  <2> QED
    BY <1>0, <2>1 DEF UnwatchedAreNew, Joined
<1> QED
  BY <1>1, <1>2, <1>3, <1>4, NextCases, EndBatchCases, CrashFrame
     DEF vars, BeginBatch, Hangup

\* A client epoll_ctl failed for stays as it was accepted, whatever the others do.
THEOREM UnwatchedStayNew == Spec => []UnwatchedAreNew
<1>1. Init => UnwatchedAreNew
  BY DEF Init, UserInit, UnwatchedAreNew
<1>2. IInv /\ UnwatchedAreNew /\ [Next]_vars => UnwatchedAreNew'
  BY UnwatchedStep
<1> QED
  BY <1>1, <1>2, IInvAlways, PTL DEF Spec

\* epoll watches clients of the user table and nobody else, and a batch is that
\* of a watched client: no event names a freed struct.
THEOREM ConnectionsConsistent == Spec => []ConnectionsWatched
<1>1. IInv => ConnectionsWatched
  BY DEF IInv
<1> QED
  BY <1>1, IInvAlways, PTL
=============================================================================
