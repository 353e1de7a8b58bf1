---------------------------- MODULE CountersProofs ----------------------------
(***************************************************************************)
(* The counters of user.c and channel.c, which LUSERS and LIST report, are *)
(* the cardinalities of what they count, for every value of the constants. *)
(***************************************************************************)
EXTENDS ServiceProofs

\* CountersExact in three parts.
UsersCounted ==
    /\ registered_user_count = Cardinality(RegisteredUsers)
    /\ unknown_user_count = Cardinality(users_fd_map \ RegisteredUsers)

ChannelsCounted == channel_count = Cardinality(channels_map)

MembersCounted ==
    \A c \in Channel : channel[c].total_users = Cardinality(channel[c].user_list)

LEMMA FiniteTables ==
    ASSUME TablesTypeOK
    PROVE  /\ IsFiniteSet(users_fd_map) /\ IsFiniteSet(RegisteredUsers)
           /\ IsFiniteSet(users_fd_map \ RegisteredUsers)
           /\ IsFiniteSet(Operators) /\ IsFiniteSet(channels_map)
           /\ \A c \in Channel : IsFiniteSet(channel[c].user_list)
<1>1. /\ users_fd_map \in SUBSET Fd /\ RegisteredUsers \in SUBSET Fd
      /\ users_fd_map \ RegisteredUsers \in SUBSET Fd
      /\ Operators \in SUBSET Fd /\ channels_map \in SUBSET Channel
      /\ \A c \in Channel : channel[c].user_list \in SUBSET Fd
  BY DEF TablesTypeOK, UserTypeOK, ChannelTypeOK, ChannelStruct, RegisteredUsers,
         Operators
<1> QED
  BY <1>1, NamesAssumption, FS_Subset
-----------------------------------------------------------------------------
(* Clients. *)

\* u does not change sides between the two counters, or it is registered now.
Counted(u) ==
    \/ /\ RegisteredUsers' = RegisteredUsers
       /\ UNCHANGED <<registered_user_count, unknown_user_count>>
    \/ /\ u \in users_fd_map \ RegisteredUsers
       /\ RegisteredUsers' = RegisteredUsers \cup {u}
       /\ registered_user_count' = registered_user_count + 1
       /\ unknown_user_count' = unknown_user_count - 1

LEMMA SameRegistered ==
    ASSUME TablesTypeOK, NEW u \in users_fd_map, UNCHANGED users_fd_map,
           \A v \in Fd : user'[v].is_registered = user[v].is_registered
    PROVE  RegisteredUsers' = RegisteredUsers
BY DEF TablesTypeOK, UserTypeOK, RegisteredUsers

LEMMA UpdateCounts ==
    ASSUME TablesTypeOK, NEW u \in users_fd_map, UNCHANGED users_fd_map,
           NEW rec \in User, rec.is_registered = user[u].is_registered,
           NEW messages, UpdateAndRegister(u, rec, messages)
    PROVE  Counted(u)
<1>0. user \in [Fd -> User] /\ u \in Fd /\ users_fd_map \subseteq Fd
  BY DEF TablesTypeOK, UserTypeOK
<1>1. CASE NewlyRegistered(rec)
  <2>1. /\ ~user[u].is_registered
        /\ [rec EXCEPT !.is_registered = TRUE].is_registered
    BY <1>1 DEF NewlyRegistered, User
  <2>2. user' = [user EXCEPT ![u] = [rec EXCEPT !.is_registered = TRUE]]
    BY <1>1 DEF UpdateAndRegister
  <2>3. user'[u].is_registered /\ \A v \in Fd \ {u} : user'[v] = user[v]
    BY <1>0, <2>1, <2>2
  <2>4. /\ u \in users_fd_map \ RegisteredUsers
        /\ RegisteredUsers' = RegisteredUsers \cup {u}
    BY <1>0, <2>1, <2>3 DEF RegisteredUsers
  <2> QED
    BY <1>1, <2>4 DEF UpdateAndRegister, Counted
<1>2. CASE ~NewlyRegistered(rec)
  <2>1. \A v \in Fd : user'[v].is_registered = user[v].is_registered
    BY <1>0, <1>2 DEF UpdateAndRegister
  <2> QED
    BY <1>2, <2>1, SameRegistered DEF UpdateAndRegister, Counted
<1> QED
  BY <1>1, <1>2

LEMMA UserEffectCounts ==
    ASSUME TablesTypeOK, NEW u \in users_fd_map, UserEffect(u)
    PROVE  Counted(u)
<1>0. /\ user \in [Fd -> User] /\ u \in Fd /\ user[u] \in User
      /\ UNCHANGED users_fd_map
  BY UserEffectFrame DEF TablesTypeOK, UserTypeOK
<1>1. ASSUME NEW n \in Nick, ChangeNick(u, n)
      PROVE  Counted(u)
  <2>1. /\ set_user_nick(user[u], n) \in User
        /\ set_user_nick(user[u], n).is_registered = user[u].is_registered
    BY <1>0 DEF set_user_nick, User
  <2> QED
    BY <1>0, <1>1, <2>1, UpdateCounts DEF ChangeNick
<1>2. ASSUME SetUsername(u)
      PROVE  Counted(u)
  <2>1. /\ set_user_username(user[u]) \in User
        /\ set_user_username(user[u]).is_registered = user[u].is_registered
    BY <1>0 DEF set_user_username, User
  <2> QED
    BY <1>0, <1>2, <2>1, UpdateCounts DEF SetUsername
<1>3. ASSUME NEW status, NEW m, SetOperator(u, status, m)
      PROVE  Counted(u)
  <2>1. \A v \in Fd : user'[v].is_registered = user[v].is_registered
    BY <1>0, <1>3 DEF SetOperator, user_set_operator_status, User
  <2> QED
    BY <1>0, <1>3, <2>1, SameRegistered DEF SetOperator, Counted
<1>4. ASSUME NEW away_msg, SetAway(u, away_msg)
      PROVE  Counted(u)
  <2>1. \A v \in Fd : user'[v].is_registered = user[v].is_registered
    BY <1>0, <1>4 DEF SetAway, user_set_away_status, User
  <2> QED
    BY <1>0, <1>4, <2>1, SameRegistered DEF SetAway, userCounts, Counted
<1>5. ASSUME handle_quit_cmd(u)
      PROVE  Counted(u)
  <2>1. \A v \in Fd : user'[v].is_registered = user[v].is_registered
    BY <1>0, <1>5 DEF handle_quit_cmd, User
  <2> QED
    BY <1>0, <1>5, <2>1, SameRegistered DEF handle_quit_cmd, userCounts, Counted
<1> QED
  BY <1>1, <1>2, <1>3, <1>4, <1>5 DEF UserEffect

LEMMA UsersCountedStep ==
    ASSUME TablesTypeOK, UsersCounted, NEW u \in Fd, TableStep(u)
    PROVE  UsersCounted'
<1>0. /\ user \in [Fd -> User] /\ users_fd_map \subseteq Fd
      /\ IsFiniteSet(RegisteredUsers)
      /\ IsFiniteSet(users_fd_map \ RegisteredUsers)
      /\ Cardinality(RegisteredUsers) \in Nat
      /\ Cardinality(users_fd_map \ RegisteredUsers) \in Nat
      /\ RegisteredUsers \subseteq users_fd_map
  BY FiniteTables, FS_CardinalityType
     DEF TablesTypeOK, UserTypeOK, RegisteredUsers
<1>1. CASE u \notin users_fd_map /\ add_to_users(u)
  <2>1. RegisteredUsers' = RegisteredUsers
    BY <1>0, <1>1 DEF add_to_users, NewUser, RegisteredUsers
  <2>2. users_fd_map' \ RegisteredUsers'
            = (users_fd_map \ RegisteredUsers) \cup {u}
    BY <1>0, <1>1, <2>1 DEF add_to_users
  <2>3. Cardinality((users_fd_map \ RegisteredUsers) \cup {u})
            = Cardinality(users_fd_map \ RegisteredUsers) + 1
    BY <1>0, <1>1, FS_AddElement
  <2> QED
    BY <1>1, <2>1, <2>2, <2>3 DEF add_to_users, UsersCounted
<1>2. CASE u \in users_fd_map /\ UserEffect(u)
  <2>1. UNCHANGED users_fd_map /\ Counted(u)
    BY <1>2, UserEffectFrame, UserEffectCounts
  <2>2. CASE /\ RegisteredUsers' = RegisteredUsers
             /\ UNCHANGED <<registered_user_count, unknown_user_count>>
    BY <2>1, <2>2 DEF UsersCounted
  <2>3. CASE /\ u \in users_fd_map \ RegisteredUsers
             /\ RegisteredUsers' = RegisteredUsers \cup {u}
             /\ registered_user_count' = registered_user_count + 1
             /\ unknown_user_count' = unknown_user_count - 1
    <3>1. users_fd_map' \ RegisteredUsers'
              = (users_fd_map \ RegisteredUsers) \ {u}
      BY <2>1, <2>3
    <3>2. /\ Cardinality(RegisteredUsers \cup {u}) = Cardinality(RegisteredUsers) + 1
          /\ Cardinality((users_fd_map \ RegisteredUsers) \ {u})
                 = Cardinality(users_fd_map \ RegisteredUsers) - 1
      BY <1>0, <2>3, FS_AddElement, FS_RemoveElement
    <3> QED
      BY <2>3, <3>1, <3>2 DEF UsersCounted
  <2> QED
    BY <2>1, <2>2, <2>3 DEF Counted
<1>3. CASE ChannelEffect(u)
  <2>1. UNCHANGED <<users_fd_map, user, userCounts>>
    BY <1>3 DEF ChannelEffect, JoinChannel, AbandonJoin, PartChannel, SetTopic,
                ModeEffect, ChangeChannel, userTable
  <2> QED
    BY <2>1 DEF UsersCounted, RegisteredUsers, userCounts
<1>4. registered_user_count \in Int /\ unknown_user_count \in Int
  BY DEF TablesTypeOK, UserTypeOK
<1>5. CASE u \in users_fd_map /\ del_from_users(u)
  <2>1. /\ users_fd_map' = users_fd_map \ {u}
        /\ \A v \in Fd \ {u} : user'[v] = user[v]
        /\ del_user_counts(u)
    BY <1>0, <1>5 DEF del_from_users, del_user_struct
  <2>2. CASE user[u].is_registered
    <3>1. /\ u \in RegisteredUsers
          /\ RegisteredUsers' = RegisteredUsers \ {u}
          /\ users_fd_map' \ RegisteredUsers' = users_fd_map \ RegisteredUsers
      BY <1>0, <1>5, <2>1, <2>2 DEF RegisteredUsers
    <3>2. Cardinality(RegisteredUsers \ {u}) = Cardinality(RegisteredUsers) - 1
      BY <1>0, <3>1, FS_RemoveElement
    <3>3. /\ registered_user_count' = registered_user_count - 1
          /\ unknown_user_count' = unknown_user_count
      BY <1>4, <2>1, <2>2 DEF del_user_counts
    <3> QED
      BY <1>0, <3>1, <3>2, <3>3 DEF UsersCounted
  <2>3. CASE ~user[u].is_registered
    <3>1. /\ u \in users_fd_map \ RegisteredUsers
          /\ RegisteredUsers' = RegisteredUsers
          /\ users_fd_map' \ RegisteredUsers'
                 = (users_fd_map \ RegisteredUsers) \ {u}
      BY <1>0, <1>5, <2>1, <2>3 DEF RegisteredUsers
    <3>2. Cardinality((users_fd_map \ RegisteredUsers) \ {u})
              = Cardinality(users_fd_map \ RegisteredUsers) - 1
      BY <1>0, <3>1, FS_RemoveElement
    <3>3. /\ registered_user_count' = registered_user_count
          /\ unknown_user_count' = unknown_user_count - 1
      BY <1>4, <2>1, <2>3 DEF del_user_counts
    <3> QED
      BY <1>0, <3>1, <3>2, <3>3 DEF UsersCounted
  <2> QED
    BY <2>2, <2>3
<1> QED
  BY <1>1, <1>2, <1>3, <1>5 DEF TableStep
-----------------------------------------------------------------------------
(* Channels and their members. *)

ChannelsAndMembersCounted == ChannelsCounted /\ MembersCounted

LEMMA LeaveCounts ==
    ASSUME TablesTypeOK, ChannelsAndMembersCounted, NEW u \in Fd,
           NEW cs \in SUBSET channels_map, LeaveChannels(u, cs)
    PROVE  ChannelsAndMembersCounted'
<1>0. /\ channel \in [Channel -> ChannelStruct] /\ channels_map \subseteq Channel
      /\ IsFiniteSet(channels_map)
      /\ \A c \in Channel : IsFiniteSet(channel[c].user_list)
  BY FiniteTables DEF TablesTypeOK, ChannelTypeOK
<1>1. ChannelsCounted'
  <2> DEFINE emptied == EmptiedBy(u, cs)
  <2>1. emptied \subseteq channels_map
    BY DEF EmptiedBy
  <2>2. /\ channels_map' = channels_map \ emptied
        /\ channel_count' = channel_count - Cardinality(emptied)
    BY DEF LeaveChannels
  <2> HIDE DEF emptied
  <2>3. channels_map \cap emptied = emptied
    BY <2>1
  <2>4. Cardinality(channels_map \ emptied)
            = Cardinality(channels_map) - Cardinality(emptied)
    BY <1>0, <2>3, FS_Difference
  <2> QED
    BY <2>2, <2>4 DEF ChannelsAndMembersCounted, ChannelsCounted
<1>2. ASSUME NEW c \in Channel
      PROVE  channel'[c].total_users = Cardinality(channel'[c].user_list)
  <2> DEFINE rec == channel[c]
             left == channel_remove_user(rec, u)
  <2>1. /\ rec \in ChannelStruct /\ IsFiniteSet(rec.user_list)
        /\ rec.total_users = Cardinality(rec.user_list)
    BY <1>0 DEF ChannelsAndMembersCounted, MembersCounted
  <2>2. \/ channel'[c] = NewChannel \/ channel'[c] = left \/ channel'[c] = rec
    BY DEF LeaveChannels
  <2> HIDE DEF rec
  <2>3. left.total_users = Cardinality(left.user_list)
    <3>1. CASE u \in rec.user_list
      <4>1. /\ left.user_list = rec.user_list \ {u}
            /\ left.total_users = rec.total_users - 1
        BY <2>1, <3>1 DEF channel_remove_user, ChannelStruct
      <4>2. Cardinality(rec.user_list \ {u}) = Cardinality(rec.user_list) - 1
        BY <2>1, <3>1, FS_RemoveElement
      <4> QED
        BY <2>1, <4>1, <4>2
    <3>2. CASE u \notin rec.user_list
      BY <2>1, <3>2 DEF channel_remove_user
    <3> QED
      BY <3>1, <3>2
  <2>4. NewChannel.total_users = Cardinality(NewChannel.user_list)
    BY FS_EmptySet DEF NewChannel
  <2> HIDE DEF left
  <2> QED
    BY <2>1, <2>2, <2>3, <2>4
<1> QED
  BY <1>1, <1>2 DEF ChannelsAndMembersCounted, MembersCounted

LEMMA JoinCounts ==
    ASSUME TablesTypeOK, ChannelInv, ChannelsAndMembersCounted, NEW u \in Fd,
           NEW c \in Channel, NEW added \in BOOLEAN, ~channel_has_user(c, u),
           join_channel(u, c, added)
    PROVE  ChannelsAndMembersCounted'
<1>0. /\ channel \in [Channel -> ChannelStruct]
      /\ IsFiniteSet(channels_map)
      /\ IsFiniteSet(channel[c].user_list)
  BY FiniteTables DEF TablesTypeOK, ChannelTypeOK
<1>1. ChannelsCounted'
  <2>1. Cardinality(channels_map \cup {c}) =
            IF c \in channels_map THEN Cardinality(channels_map)
                                  ELSE Cardinality(channels_map) + 1
    BY <1>0, FS_AddElement
  <2> QED
    BY <2>1 DEF join_channel, ChannelsAndMembersCounted, ChannelsCounted
<1>2. MembersCounted'
  <2> DEFINE rec == FoundOrCreated(c)
             full == channel_add_user(rec, u)
  <2>1. /\ rec \in ChannelStruct /\ IsFiniteSet(rec.user_list)
        /\ rec.total_users = Cardinality(rec.user_list)
        /\ u \notin rec.user_list
    BY <1>0, NewChannelType, FS_EmptySet
       DEF FoundOrCreated, NewChannel, channel_has_user, ChannelsAndMembersCounted,
           MembersCounted
  <2>2. channel' = [channel EXCEPT ![c] = IF added THEN full ELSE rec]
    BY DEF join_channel
  <2> HIDE DEF rec
  <2>3. full.user_list = rec.user_list \cup {u}
        /\ full.total_users = rec.total_users + 1
    BY <2>1 DEF channel_add_user, ChannelStruct
  <2>4. Cardinality(rec.user_list \cup {u}) = Cardinality(rec.user_list) + 1
    BY <2>1, FS_AddElement
  <2> HIDE DEF full
  <2> QED
    BY <1>0, <2>1, <2>2, <2>3, <2>4 DEF ChannelsAndMembersCounted, MembersCounted
<1> QED
  BY <1>1, <1>2 DEF ChannelsAndMembersCounted

LEMMA ChangeCounts ==
    ASSUME TablesTypeOK, ChannelsAndMembersCounted, NEW c \in Channel, NEW rec,
           channel' = [channel EXCEPT ![c] = rec],
           rec.user_list = channel[c].user_list,
           rec.total_users = channel[c].total_users,
           UNCHANGED <<channels_map, channel_count>>
    PROVE  ChannelsAndMembersCounted'
<1>1. \A d \in Channel : /\ channel'[d].user_list = channel[d].user_list
                         /\ channel'[d].total_users = channel[d].total_users
  BY DEF TablesTypeOK, ChannelTypeOK
<1> QED
  BY <1>1 DEF ChannelsAndMembersCounted, ChannelsCounted, MembersCounted

LEMMA ChannelEffectCounts ==
    ASSUME TablesTypeOK, ChannelInv, ChannelsAndMembersCounted,
           NEW u \in users_fd_map, ChannelEffect(u)
    PROVE  ChannelsAndMembersCounted'
<1>0. u \in Fd /\ \A c \in channels_map : c \in Channel
  BY DEF TablesTypeOK, UserTypeOK, ChannelTypeOK
<1>1. ASSUME NEW c \in Channel, ~channel_has_user(c, u),
             JoinChannel(u, c) \/ AbandonJoin(u, c)
      PROVE  ChannelsAndMembersCounted'
  BY <1>0, <1>1, JoinCounts DEF JoinChannel, AbandonJoin
<1>2. ASSUME NEW c \in Channel, IsMember(u, c), PartChannel(u, c)
      PROVE  ChannelsAndMembersCounted'
  <2>1. {c} \in SUBSET channels_map /\ LeaveChannels(u, {c})
    BY <1>2 DEF IsMember, PartChannel
  <2> QED
    BY <1>0, <2>1, LeaveCounts
<1>3. ASSUME NEW c \in Channel, NEW topic, SetTopic(u, c, topic)
      PROVE  ChannelsAndMembersCounted'
  <2>1. PICK stored : channel' = [channel EXCEPT ![c].topic = stored]
    BY <1>3 DEF SetTopic
  <2>2. channel' = [channel EXCEPT ![c] = [channel[c] EXCEPT !.topic = stored]]
    BY <2>1
  <2>3. /\ [channel[c] EXCEPT !.topic = stored].user_list = channel[c].user_list
        /\ [channel[c] EXCEPT !.topic = stored].total_users
               = channel[c].total_users
    BY DEF TablesTypeOK, ChannelTypeOK, ChannelStruct
  <2> QED
    BY <1>3, <2>2, <2>3, ChangeCounts DEF SetTopic
<1>4. ASSUME NEW c \in channels_map, NEW mode, NEW v,
             \/ ChangeChannel(u, c, set_channel_mode(channel[c], mode), mode)
             \/ ChangeChannel(u, c, set_member_mode(channel[c], mode, v), mode)
      PROVE  ChannelsAndMembersCounted'
  <2>1. /\ c \in Channel
        /\ set_channel_mode(channel[c], mode).user_list = channel[c].user_list
        /\ set_channel_mode(channel[c], mode).total_users = channel[c].total_users
        /\ set_member_mode(channel[c], mode, v).user_list = channel[c].user_list
        /\ set_member_mode(channel[c], mode, v).total_users
               = channel[c].total_users
    BY <1>0 DEF set_channel_mode, set_member_mode, ChannelStruct, TablesTypeOK,
                ChannelTypeOK
  <2> QED
    BY <1>4, <2>1, ChangeCounts DEF ChangeChannel
<1>5. ModeEffect(u) => ChannelsAndMembersCounted'
  BY <1>4 DEF ModeEffect
<1>6. ASSUME NEW T,
             \E c \in Channel, topic \in T :
                 IsMember(u, c) /\ MayChangeTopic(u, c) /\ SetTopic(u, c, topic)
      PROVE  ChannelsAndMembersCounted'
  BY <1>3, <1>6
<1> QED
  BY <1>1, <1>2, <1>5, <1>6, Zenon DEF ChannelEffect

LEMMA ChannelsCountedStep ==
    ASSUME TablesTypeOK, ChannelInv, ChannelsAndMembersCounted, NEW u \in Fd,
           TableStep(u)
    PROVE  ChannelsAndMembersCounted'
<1>1. CASE UNCHANGED channelTable
  BY <1>1 DEF channelTable, ChannelsAndMembersCounted, ChannelsCounted,
              MembersCounted
<1>2. CASE u \in users_fd_map /\ ChannelEffect(u)
  BY <1>2, ChannelEffectCounts
<1>3. CASE del_from_users(u)
  <2>1. Joined(u) \in SUBSET channels_map /\ LeaveChannels(u, Joined(u))
    BY <1>3 DEF del_from_users, ChannelInv, MembershipAgrees
  <2> QED
    BY <2>1, LeaveCounts
<1> QED
  BY <1>1, <1>2, <1>3, UserEffectFrame DEF TableStep

LEMMA CountersExactStep ==
    ASSUME IInv, CountersExact, [Next]_vars
    PROVE  CountersExact'
<1>0. /\ TypeOK /\ ConnectionsWatched /\ TablesTypeOK /\ ChannelInv
      /\ UsersCounted /\ ChannelsAndMembersCounted
  BY DEF IInv, TypeOK, TablesTypeOK, CountersExact, UsersCounted, ChannelsCounted,
         MembersCounted, ChannelsAndMembersCounted
<1>1. CASE ReadOnly
  BY <1>1 DEF ReadOnly, userTable, channelTable, userCounts, CountersExact,
              RegisteredUsers
<1>2. ASSUME NEW u \in Fd, TableStep(u)
      PROVE  UsersCounted' /\ ChannelsAndMembersCounted'
  BY <1>0, <1>2, UsersCountedStep, ChannelsCountedStep
<1>3. CASE UsersCounted' /\ ChannelsAndMembersCounted'
  BY <1>3 DEF CountersExact, UsersCounted, ChannelsCounted, MembersCounted,
              ChannelsAndMembersCounted
<1> QED
  BY <1>0, <1>1, <1>2, <1>3, StepCases

\* LUSERS and LIST report how many clients are registered and how many are not,
\* how many channels there are and how many members each has: the increments
\* and decrements spread over the handlers never drift from the tables.
THEOREM CountersCorrect == Spec => []CountersExact
<1>1. Init => CountersExact
  <2> SUFFICES ASSUME Init
               PROVE  CountersExact
    OBVIOUS
  <2>1. /\ RegisteredUsers = {} /\ users_fd_map \ RegisteredUsers = {}
        /\ channels_map = {}
        /\ \A c \in Channel : channel[c] = NewChannel
    BY DEF Init, UserInit, ChannelInit, RegisteredUsers
  <2>2. NewChannel.user_list = {} /\ NewChannel.total_users = 0
    BY DEF NewChannel
  <2>3. /\ registered_user_count = 0 /\ unknown_user_count = 0
        /\ channel_count = 0
    BY DEF Init, UserInit, ChannelInit
  <2> QED
    BY <2>1, <2>2, <2>3, FS_EmptySet DEF CountersExact
<1>2. IInv /\ CountersExact /\ [Next]_vars => CountersExact'
  BY CountersExactStep
<1> QED
  BY <1>1, <1>2, IInvAlways, PTL DEF Spec
-----------------------------------------------------------------------------
(* Operators. *)

\* An operator sends OPER with the right password: the struct does not change
\* and the client is counted once more.
GrantedAgain(u) ==
    u \in Operators /\ SetOperator(u, TRUE, Numeric(u, "RPL_YOUREOP"))

\* The count goes up with a grant and down with a flag that was set.
OperCounted(u) ==
    \/ Operators' = Operators /\ UNCHANGED operator_user_count
    \/ /\ u \in Operators => GrantedAgain(u)
       /\ Operators' = Operators \cup {u}
       /\ operator_user_count' = operator_user_count + 1
    \/ /\ u \in Operators
       /\ Operators' = Operators \ {u}
       /\ operator_user_count' = operator_user_count - 1

LEMMA SameOperators ==
    ASSUME TablesTypeOK, UNCHANGED users_fd_map,
           \A v \in Fd : user'[v].is_oper = user[v].is_oper
    PROVE  Operators' = Operators
BY DEF TablesTypeOK, UserTypeOK, Operators

LEMMA UpdateKeepsOperators ==
    ASSUME TablesTypeOK, NEW u \in Fd, NEW rec \in User,
           rec.is_oper = user[u].is_oper, NEW messages,
           UpdateAndRegister(u, rec, messages)
    PROVE  \A v \in Fd : user'[v].is_oper = user[v].is_oper
<1>1. user \in [Fd -> User]
  BY DEF TablesTypeOK, UserTypeOK
<1>2. [rec EXCEPT !.is_registered = TRUE].is_oper = rec.is_oper
  BY DEF User
<1>3. \/ user' = [user EXCEPT ![u] = [rec EXCEPT !.is_registered = TRUE]]
      \/ user' = [user EXCEPT ![u] = rec]
  BY DEF UpdateAndRegister
<1> QED
  BY <1>1, <1>2, <1>3

LEMMA UserEffectOperators ==
    ASSUME TablesTypeOK, NEW u \in users_fd_map, UserEffect(u)
    PROVE  OperCounted(u)
<1>0. /\ user \in [Fd -> User] /\ u \in Fd /\ user[u] \in User
      /\ UNCHANGED users_fd_map /\ users_fd_map \subseteq Fd
  BY UserEffectFrame DEF TablesTypeOK, UserTypeOK
<1>1. ASSUME NEW n \in Nick, ChangeNick(u, n)
      PROVE  OperCounted(u)
  <2>1. \A v \in Fd : user'[v].is_oper = user[v].is_oper
    <3>1. /\ set_user_nick(user[u], n) \in User
          /\ set_user_nick(user[u], n).is_oper = user[u].is_oper
      BY <1>0 DEF set_user_nick, User
    <3> QED
      BY <1>0, <1>1, <3>1, UpdateKeepsOperators DEF ChangeNick
  <2>2. UNCHANGED operator_user_count
    BY <1>1 DEF ChangeNick
  <2> QED
    BY <1>0, <2>1, <2>2, SameOperators DEF OperCounted
<1>2. ASSUME SetUsername(u)
      PROVE  OperCounted(u)
  <2>1. \A v \in Fd : user'[v].is_oper = user[v].is_oper
    <3>1. /\ set_user_username(user[u]) \in User
          /\ set_user_username(user[u]).is_oper = user[u].is_oper
      BY <1>0 DEF set_user_username, User
    <3> QED
      BY <1>0, <1>2, <3>1, UpdateKeepsOperators DEF SetUsername
  <2>2. UNCHANGED operator_user_count
    BY <1>2 DEF SetUsername
  <2> QED
    BY <1>0, <2>1, <2>2, SameOperators DEF OperCounted
<1>3. ASSUME SetOperator(u, TRUE, Numeric(u, "RPL_YOUREOP"))
      PROVE  OperCounted(u)
  <2>1. /\ user'[u].is_oper /\ \A v \in Fd \ {u} : user'[v] = user[v]
        /\ operator_user_count' = operator_user_count + 1
    BY <1>0, <1>3 DEF SetOperator, user_set_operator_status, User
  <2>2. Operators' = Operators \cup {u}
    BY <1>0, <2>1 DEF Operators
  <2> QED
    BY <1>3, <2>1, <2>2 DEF OperCounted, GrantedAgain
<1>4. ASSUME NEW m, user[u].is_oper, SetOperator(u, FALSE, m)
      PROVE  OperCounted(u)
  <2>1. /\ ~user'[u].is_oper /\ \A v \in Fd \ {u} : user'[v] = user[v]
        /\ operator_user_count' = operator_user_count - 1
    BY <1>0, <1>4 DEF SetOperator, user_set_operator_status, User
  <2>2. u \in Operators /\ Operators' = Operators \ {u}
    BY <1>0, <1>4, <2>1 DEF Operators
  <2> QED
    BY <2>1, <2>2 DEF OperCounted
<1>5. ASSUME NEW away_msg, SetAway(u, away_msg)
      PROVE  OperCounted(u)
  <2>1. \A v \in Fd : user'[v].is_oper = user[v].is_oper
    BY <1>0, <1>5 DEF SetAway, user_set_away_status, User
  <2> QED
    BY <1>0, <1>5, <2>1, SameOperators DEF SetAway, userCounts, OperCounted
<1>6. ASSUME handle_quit_cmd(u)
      PROVE  OperCounted(u)
  <2>1. \A v \in Fd : user'[v].is_oper = user[v].is_oper
    BY <1>0, <1>6 DEF handle_quit_cmd, User
  <2> QED
    BY <1>0, <1>6, <2>1, SameOperators DEF handle_quit_cmd, userCounts, OperCounted
<1> QED
  BY <1>1, <1>2, <1>3, <1>4, <1>5, <1>6 DEF UserEffect

LEMMA TableStepOperators ==
    ASSUME TablesTypeOK, NEW u \in Fd, TableStep(u)
    PROVE  OperCounted(u)
<1>0. user \in [Fd -> User] /\ users_fd_map \subseteq Fd
  BY DEF TablesTypeOK, UserTypeOK
<1>1. CASE u \notin users_fd_map /\ add_to_users(u)
  BY <1>0, <1>1 DEF add_to_users, NewUser, Operators, OperCounted
<1>2. CASE u \in users_fd_map /\ UserEffect(u)
  BY <1>2, UserEffectOperators
<1>3. CASE ChannelEffect(u)
  <2>1. UNCHANGED <<users_fd_map, user, userCounts>>
    BY <1>3 DEF ChannelEffect, JoinChannel, AbandonJoin, PartChannel, SetTopic,
                ModeEffect, ChangeChannel, userTable
  <2> QED
    BY <2>1 DEF userCounts, Operators, OperCounted
<1>4. CASE u \in users_fd_map /\ del_from_users(u)
  <2>1. /\ users_fd_map' = users_fd_map \ {u}
        /\ \A v \in Fd \ {u} : user'[v] = user[v]
        /\ operator_user_count'
               = operator_user_count - (IF user[u].is_oper THEN 1 ELSE 0)
        /\ operator_user_count \in Int
    BY <1>0, <1>4 DEF del_from_users, del_user_struct, del_user_counts,
                      TablesTypeOK, UserTypeOK
  <2>2. Operators' = Operators \ {u}
    BY <1>0, <2>1 DEF Operators
  <2>3. u \in Operators <=> user[u].is_oper
    BY <1>4 DEF Operators
  <2> HIDE DEF Operators
  <2>4. CASE user[u].is_oper
    BY <2>1, <2>2, <2>3, <2>4 DEF OperCounted
  <2>5. CASE ~user[u].is_oper
    <3>1. operator_user_count' = operator_user_count
      BY <2>1, <2>5
    <3>2. Operators' = Operators
      BY <2>2, <2>3, <2>5
    <3> QED
      BY <3>1, <3>2 DEF OperCounted
  <2> QED
    BY <2>4, <2>5
<1> QED
  BY <1>1, <1>2, <1>3, <1>4 DEF TableStep

LEMMA OperCountStep ==
    ASSUME IInv, OperCountCovers, [Next]_vars
    PROVE  OperCountCovers'
<1>0. /\ TypeOK /\ ConnectionsWatched /\ TablesTypeOK
      /\ operator_user_count \in Int
      /\ IsFiniteSet(Operators) /\ Cardinality(Operators) \in Nat
  BY FiniteTables, FS_CardinalityType
     DEF IInv, TypeOK, TablesTypeOK, UserTypeOK
<1>1. CASE ReadOnly
  BY <1>1 DEF ReadOnly, userTable, userCounts, OperCountCovers, Operators
<1>2. ASSUME NEW u \in Fd, OperCounted(u)
      PROVE  OperCountCovers'
  <2> DEFINE opers == Operators
  <2>0. IsFiniteSet(opers) /\ Cardinality(opers) \in Nat
    BY <1>0
  <2> HIDE DEF opers
  <2>1. /\ Cardinality(opers \cup {u}) <= Cardinality(opers) + 1
        /\ Cardinality(opers \cup {u}) \in Nat
    <3>1. Cardinality(opers \cup {u}) =
              IF u \in opers THEN Cardinality(opers) ELSE Cardinality(opers) + 1
      BY <2>0, FS_AddElement, Zenon
    <3>2. ASSUME NEW n \in Nat, NEW m, m = n \/ m = n + 1
          PROVE  m <= n + 1 /\ m \in Nat
      BY <3>2
    <3> QED
      BY <2>0, <3>1, <3>2, Zenon
  <2>2. u \in opers => Cardinality(opers \ {u}) = Cardinality(opers) - 1
    BY <2>0, FS_RemoveElement
  <2>3. CASE Operators' = Operators /\ UNCHANGED operator_user_count
    BY <2>3 DEF OperCountCovers
  <2>4. CASE /\ Operators' = Operators \cup {u}
             /\ operator_user_count' = operator_user_count + 1
    BY <1>0, <2>1, <2>4 DEF OperCountCovers, opers
  <2>5. CASE /\ u \in Operators
             /\ Operators' = Operators \ {u}
             /\ operator_user_count' = operator_user_count - 1
    BY <1>0, <2>2, <2>5 DEF OperCountCovers, opers
  <2> QED
    BY <1>2, <2>3, <2>4, <2>5 DEF OperCounted
<1> QED
  BY <1>0, <1>1, <1>2, StepCases, TableStepOperators

\* operator_user_count never falls below the number of operators, although an
\* operator that sends OPER again is counted again.
THEOREM OperatorsCovered == Spec => []OperCountCovers
<1>1. Init => OperCountCovers
  BY FS_EmptySet DEF Init, UserInit, Operators, OperCountCovers
<1>2. IInv /\ OperCountCovers /\ [Next]_vars => OperCountCovers'
  BY OperCountStep
<1> QED
  BY <1>1, <1>2, IInvAlways, PTL DEF Spec

LEMMA OperExactStep ==
    ASSUME IInv, OperCountExact, [Next]_vars,
           [\A u \in Fd : ~GrantedAgain(u)]_vars
    PROVE  OperCountExact'
<1>0. /\ TypeOK /\ ConnectionsWatched /\ TablesTypeOK
      /\ IsFiniteSet(Operators) /\ Cardinality(Operators) \in Nat
  BY FiniteTables, FS_CardinalityType DEF IInv, TypeOK, TablesTypeOK
<1>1. CASE UNCHANGED vars
  BY <1>1 DEF vars, userTable, userCounts, OperCountExact, Operators
<1>2. CASE ReadOnly
  BY <1>2 DEF ReadOnly, userTable, userCounts, OperCountExact, Operators
<1>3. ASSUME NEW u \in Fd, OperCounted(u), ~GrantedAgain(u)
      PROVE  OperCountExact'
  <2>1. u \notin Operators =>
            Cardinality(Operators \cup {u}) = Cardinality(Operators) + 1
    BY <1>0, FS_AddElement
  <2>2. u \in Operators =>
            Cardinality(Operators \ {u}) = Cardinality(Operators) - 1
    BY <1>0, FS_RemoveElement
  <2> QED
    BY <1>3, <2>1, <2>2 DEF OperCounted, OperCountExact
<1> QED
  BY <1>0, <1>1, <1>2, <1>3, StepCases, TableStepOperators

\* The count of operators is exact as long as no operator sends OPER again:
\* that is the only way to OperCountExact's counterexample.  MODE -o, QUIT and
\* hanging up take back what OPER counted.
THEOREM OperatorsExactUnlessGrantedAgain ==
    Spec /\ [][\A u \in Fd : ~GrantedAgain(u)]_vars => []OperCountExact
<1>1. Init => OperCountExact
  BY FS_EmptySet DEF Init, UserInit, Operators, OperCountExact
<1>2. IInv /\ OperCountExact /\ [Next]_vars
         /\ [\A u \in Fd : ~GrantedAgain(u)]_vars => OperCountExact'
  BY OperExactStep
<1> QED
  BY <1>1, <1>2, IInvAlways, PTL DEF Spec
=============================================================================
