---------------------------- MODULE ServiceProofs ----------------------------
(***************************************************************************)
(* What a client gets from the server, proved for every value of the       *)
(* constants: registration, the end of a connection and the start of the   *)
(* next, and the refinement of ChatService.                                *)
(***************************************************************************)
EXTENDS IrcServerProofs

\* A step that leaves the struct of every user alone.
LEMMA ChannelEffectFrame ==
    ASSUME NEW u \in Fd, ChannelEffect(u)
    PROVE  UNCHANGED <<users_fd_map, users_nick_map, user>>
BY DEF ChannelEffect, JoinChannel, AbandonJoin, PartChannel, SetTopic, ModeEffect,
       ChangeChannel, userTable

\* The struct of u after each effect on it, and those of the others.
LEMMA UserEffectOnStructs ==
    ASSUME TablesTypeOK, NEW u \in Fd, UserEffect(u)
    PROVE  /\ \A v \in Fd \ {u} : user'[v] = user[v]
           /\ ~handle_quit_cmd(u) => user'[u].is_dead = user[u].is_dead
           /\ handle_quit_cmd(u) =>
                  user'[u] = [user[u] EXCEPT !.is_dead = TRUE]
<1>0. user \in [Fd -> User] /\ user[u] \in User
  BY DEF TablesTypeOK, UserTypeOK
<1>1. ASSUME NEW n \in Nick, ChangeNick(u, n)
      PROVE  /\ \A v \in Fd \ {u} : user'[v] = user[v]
             /\ user'[u].is_dead = user[u].is_dead
  BY <1>0, <1>1 DEF ChangeNick, UpdateAndRegister, set_user_nick, User
<1>2. ASSUME SetUsername(u)
      PROVE  /\ \A v \in Fd \ {u} : user'[v] = user[v]
             /\ user'[u].is_dead = user[u].is_dead
  BY <1>0, <1>2 DEF SetUsername, UpdateAndRegister, set_user_username, User
<1>3. ASSUME NEW status, NEW m, SetOperator(u, status, m)
      PROVE  /\ \A v \in Fd \ {u} : user'[v] = user[v]
             /\ user'[u].is_dead = user[u].is_dead
  BY <1>0, <1>3 DEF SetOperator, user_set_operator_status, User
<1>4. ASSUME NEW away_msg, SetAway(u, away_msg)
      PROVE  /\ \A v \in Fd \ {u} : user'[v] = user[v]
             /\ user'[u].is_dead = user[u].is_dead
  BY <1>0, <1>4 DEF SetAway, user_set_away_status, User
<1>5. ASSUME handle_quit_cmd(u)
      PROVE  /\ \A v \in Fd \ {u} : user'[v] = user[v]
             /\ user'[u] = [user[u] EXCEPT !.is_dead = TRUE]
  BY <1>0, <1>5 DEF handle_quit_cmd
<1> QED
  BY <1>1, <1>2, <1>3, <1>4, <1>5 DEF UserEffect
-----------------------------------------------------------------------------
(* Disconnection. *)

LEMMA QuittersStep ==
    ASSUME IInv, QuittersAreActive, [Next]_vars
    PROVE  QuittersAreActive'
<1>0. TablesTypeOK /\ TypeOK /\ ConnectionsWatched /\ user \in [Fd -> User]
  BY DEF IInv, TypeOK, TablesTypeOK, UserTypeOK
<1>1. CASE UNCHANGED vars
  BY <1>1 DEF vars, userTable, QuittersAreActive
<1>2. ASSUME NEW u \in Fd, handle_new_connection(u)
      PROVE  QuittersAreActive'
  BY <1>0, <1>2 DEF handle_new_connection, add_to_users, NewUser, QuittersAreActive
<1>3. ASSUME NEW u \in Fd, BeginBatch(u)
      PROVE  QuittersAreActive'
  BY <1>3, NamesAssumption DEF BeginBatch, userTable, QuittersAreActive
<1>4. ASSUME NEW u \in Fd, handle_user_msg(u)
      PROVE  QuittersAreActive'
  <2>1. active = u /\ active' = u /\ HandleLine(u)
    BY <1>4 DEF handle_user_msg
  <2>2. \A v \in Fd \ {u} : user'[v].is_dead = user[v].is_dead
    <3>1. CASE UserEffect(u)
      BY <1>0, <3>1, UserEffectOnStructs
    <3>2. CASE ChannelEffect(u)
      BY <3>2, ChannelEffectFrame
    <3>3. CASE ReadOnly
      BY <3>3 DEF ReadOnly, userTable
    <3> QED
      BY <1>0, <2>1, <3>1, <3>2, <3>3, LineEffects
  <2> QED
    BY <2>1, <2>2 DEF QuittersAreActive
<1>5. ASSUME NEW u \in Fd, EndBatch(u)
      PROVE  QuittersAreActive'
  <2>1. active = u /\ active' = NULL
    BY <1>5, EndBatchCases
  <2>2. CASE user[u].is_dead
    <3>1. user' = [user EXCEPT ![u] = NewUser]
      BY <1>5, <2>2, EndBatchCases
         DEF Disconnect, del_from_users, del_user_struct
    <3> QED
      BY <1>0, <2>1, <3>1 DEF QuittersAreActive, NewUser
  <2>3. CASE ~user[u].is_dead
    BY <1>5, <2>1, <2>3, EndBatchCases DEF userTable, QuittersAreActive
  <2> QED
    BY <2>2, <2>3
<1>6. ASSUME NEW u \in Fd, Hangup(u)
      PROVE  QuittersAreActive'
  BY <1>0, <1>6 DEF Hangup, Disconnect, del_from_users, del_user_struct, NewUser,
                    QuittersAreActive
<1>7. ASSUME NEW u \in Fd, CrashStep(u)
      PROVE  QuittersAreActive'
  BY <1>7, CrashFrame DEF userTable, QuittersAreActive
<1> QED
  BY <1>1, <1>2, <1>3, <1>4, <1>5, <1>6, <1>7, NextCases

\* However batches, hang-ups and new connections alternate, a client marked by
\* QUIT is gone before another client's data are looked at.
THEOREM QuittersActive == Spec => []QuittersAreActive
<1>1. Init => QuittersAreActive
  BY DEF Init, UserInit, NewUser, QuittersAreActive
<1>2. IInv /\ QuittersAreActive /\ [Next]_vars => QuittersAreActive'
  BY QuittersStep
<1> QED
  BY <1>1, <1>2, IInvAlways, PTL DEF Spec

\* Nothing takes QUIT back: whatever lines follow it in the batch, the client
\* stays marked and its batch the one being handled until the step that
\* disconnects it.  It is the part of QuitCompletes that needs no fairness.
THEOREM QuitIsFinal ==
    Spec => [][\A u \in Fd : user[u].is_dead =>
                   \/ user'[u].is_dead /\ active' = u
                   \/ u \notin users_fd_map']_vars
<1>1. ASSUME IInv, QuittersAreActive, [Next]_vars, NEW u \in Fd, user[u].is_dead
      PROVE  \/ user'[u].is_dead /\ active' = u
             \/ u \notin users_fd_map'
  <2>0. /\ TablesTypeOK /\ TypeOK /\ user \in [Fd -> User]
        /\ active = u /\ active # NULL
    BY <1>1, NamesAssumption
       DEF IInv, TypeOK, TablesTypeOK, UserTypeOK, QuittersAreActive
  <2>1. \/ \E w \in Fd : handle_user_msg(w) \/ EndBatch(w)
        \/ UNCHANGED <<user, active>>
    BY <1>1, <2>0, NextCases, CrashFrame
       DEF handle_new_connection, BeginBatch, Hangup, vars, userTable
  <2>2. ASSUME NEW w \in Fd, handle_user_msg(w)
        PROVE  user'[u].is_dead /\ active' = u
    <3>1. active = w /\ active' = active /\ HandleLine(w)
      BY <2>2 DEF handle_user_msg
    <3>2. user'[u].is_dead
      <4>1. CASE UserEffect(u)
        <5>1. user[u] \in User
          BY <2>0
        <5> QED
          BY <1>1, <2>0, <4>1, <5>1, UserEffectOnStructs DEF User
      <4>2. CASE ChannelEffect(u)
        BY <1>1, <4>2, ChannelEffectFrame
      <4>3. CASE ReadOnly
        BY <1>1, <4>3 DEF ReadOnly, userTable
      <4> QED
        BY <2>0, <3>1, <4>1, <4>2, <4>3, LineEffects
    <3> QED
      BY <2>0, <3>1, <3>2
  <2>3. ASSUME NEW w \in Fd, EndBatch(w)
        PROVE  u \notin users_fd_map'
    <3>1. w = u
      BY <2>0, <2>3, EndBatchCases
    <3> QED
      BY <1>1, <2>3, <3>1, EndBatchCases
         DEF Disconnect, del_from_users, del_user_struct
  <2>4. CASE UNCHANGED <<user, active>>
    BY <1>1, <2>0, <2>4
  <2> QED
    BY <2>1, <2>2, <2>3, <2>4
<1>2. IInv /\ QuittersAreActive /\ [Next]_vars =>
          [\A u \in Fd : user[u].is_dead =>
               \/ user'[u].is_dead /\ active' = u
               \/ u \notin users_fd_map']_vars
  BY <1>1
<1> QED
  BY <1>2, IInvAlways, QuittersActive, PTL DEF Spec

\* A client gets the struct of a new user, with no nickname, membership or flag
\* left by whoever had its descriptor before.
THEOREM ClientsStartFresh == Spec => FreshStart
<1>1. ASSUME IInv, [Next]_vars,
             NEW u \in users_fd_map' \ users_fd_map
      PROVE  StartsFresh(u)
  <2>0. /\ TypeOK /\ ConnectionsWatched /\ ChannelInv /\ NickTableConsistent
        /\ IInv' /\ u \in Fd
    BY <1>1, IInvStep DEF IInv, TypeOK, UserTypeOK
  <2>1. PICK v \in Fd : TableStep(v)
    BY <1>1, <2>0, StepCases DEF ReadOnly, userTable
  <2>2. add_to_users(v) /\ UNCHANGED channelTable /\ u = v
    BY <1>1, <2>1, LineFrame
       DEF TableStep, add_to_users, del_from_users, del_user_struct
  <2>3. user'[u] = NewUser /\ joined_channels'[u] = <<>> /\ u \notin expanded'
    BY <2>0, <2>2 DEF add_to_users, TypeOK, UserTypeOK
  <2>4. \A n \in Nick : users_nick_map'[n] # u
    BY <1>1, <2>0, <2>2 DEF add_to_users, NickTableConsistent
  <2>5. \A c \in Channel : u \notin channel[c].user_list
    BY <1>1, <2>0 DEF ChannelInv, MembershipAgrees
  <2>6. \A c \in Channel : u \notin channel[c].channel_op
                               \cup channel[c].channel_voice
    BY <2>0, <2>5 DEF ChannelInv, FlagsOfMembers
  <2> QED
    BY <2>2, <2>3, <2>4, <2>5, <2>6 DEF channelTable, StartsFresh
<1>2. IInv /\ [Next]_vars => [NewClientsStartFresh]_vars
  BY <1>1 DEF NewClientsStartFresh
<1> QED
  BY <1>2, IInvAlways, PTL DEF Spec, FreshStart
-----------------------------------------------------------------------------
(* Registration. *)

\* RegistrationGate as far as it is about one struct.
Gated(rec) ==
    /\ rec.is_registered <=> rec.nick # NULL /\ rec.has_username
    /\ rec.has_nick <=> rec.nick # NULL
    /\ ~rec.is_registered => ~rec.is_oper /\ ~rec.is_away

LEMMA UpdateIsGated ==
    ASSUME TablesTypeOK, NEW u \in Fd, NEW rec \in User, NEW messages,
           rec.is_registered => rec.nick # NULL /\ rec.has_username,
           rec.has_nick <=> rec.nick # NULL,
           ~rec.is_registered => ~rec.is_oper /\ ~rec.is_away,
           UpdateAndRegister(u, rec, messages)
    PROVE  Gated(user'[u]) /\ (rec.is_registered => user'[u].is_registered)
<1>0. user \in [Fd -> User]
  BY DEF TablesTypeOK, UserTypeOK
<1>1. CASE NewlyRegistered(rec)
  <2>1. user'[u] = [rec EXCEPT !.is_registered = TRUE]
    BY <1>0, <1>1 DEF UpdateAndRegister
  <2> QED
    BY <1>1, <2>1 DEF NewlyRegistered, Gated, User
<1>2. CASE ~NewlyRegistered(rec)
  <2>1. user'[u] = rec
    BY <1>0, <1>2 DEF UpdateAndRegister
  <2> QED
    BY <1>2, <2>1 DEF NewlyRegistered, Gated, User
<1> QED
  BY <1>1, <1>2

LEMMA UserEffectIsGated ==
    ASSUME TablesTypeOK, NEW u \in Fd, Gated(user[u]), UserEffect(u)
    PROVE  Gated(user'[u]) /\ (user[u].is_registered => user'[u].is_registered)
<1>0. user \in [Fd -> User] /\ user[u] \in User
  BY DEF TablesTypeOK, UserTypeOK
<1>1. ASSUME NEW n \in Nick, ChangeNick(u, n)
      PROVE  Gated(user'[u]) /\ (user[u].is_registered => user'[u].is_registered)
  <2> DEFINE rec == set_user_nick(user[u], n)
  <2>1. /\ rec \in User /\ rec.nick = n /\ rec.has_nick
        /\ rec.has_username = user[u].has_username
        /\ rec.is_registered = user[u].is_registered
        /\ rec.is_oper = user[u].is_oper /\ rec.is_away = user[u].is_away
    BY <1>0 DEF set_user_nick, User
  <2>2. PICK messages : UpdateAndRegister(u, rec, messages)
    BY <1>1 DEF ChangeNick
  <2>3. n # NULL
    BY NamesAssumption
  <2> HIDE DEF rec
  <2>4. /\ rec.is_registered => rec.nick # NULL /\ rec.has_username
        /\ rec.has_nick <=> rec.nick # NULL
        /\ ~rec.is_registered => ~rec.is_oper /\ ~rec.is_away
    BY <2>1, <2>3, Zenon DEF Gated
  <2> QED
    BY <2>1, <2>2, <2>4, UpdateIsGated
<1>2. ASSUME SetUsername(u)
      PROVE  Gated(user'[u]) /\ (user[u].is_registered => user'[u].is_registered)
  <2> DEFINE rec == set_user_username(user[u])
  <2>1. /\ rec \in User /\ rec.nick = user[u].nick /\ rec.has_username
        /\ rec.has_nick = user[u].has_nick
        /\ rec.is_registered = user[u].is_registered
        /\ rec.is_oper = user[u].is_oper /\ rec.is_away = user[u].is_away
    BY <1>0 DEF set_user_username, User
  <2>2. PICK messages : UpdateAndRegister(u, rec, messages)
    BY <1>2 DEF SetUsername
  <2> HIDE DEF rec
  <2>3. /\ rec.is_registered => rec.nick # NULL /\ rec.has_username
        /\ rec.has_nick <=> rec.nick # NULL
        /\ ~rec.is_registered => ~rec.is_oper /\ ~rec.is_away
    BY <2>1, Zenon DEF Gated
  <2> QED
    BY <2>1, <2>2, <2>3, UpdateIsGated
<1>3. ASSUME NEW status, NEW m, SetOperator(u, status, m), user[u].is_registered
      PROVE  Gated(user'[u]) /\ user'[u].is_registered
  BY <1>0, <1>3 DEF SetOperator, user_set_operator_status, User, Gated
<1>4. ASSUME NEW away_msg, SetAway(u, away_msg), user[u].is_registered
      PROVE  Gated(user'[u]) /\ user'[u].is_registered
  BY <1>0, <1>4 DEF SetAway, user_set_away_status, User, Gated
<1>5. ASSUME handle_quit_cmd(u)
      PROVE  Gated(user'[u]) /\ (user[u].is_registered => user'[u].is_registered)
  BY <1>0, <1>5 DEF handle_quit_cmd, User, Gated
<1> QED
  BY <1>1, <1>2, <1>3, <1>4, <1>5 DEF UserEffect

\* A channel line adds channels to those of a registered client only.
LEMMA ChannelEffectJoined ==
    ASSUME TablesTypeOK, ChannelInv, NEW u \in Fd, ChannelEffect(u)
    PROVE  /\ \A v \in Fd \ {u} : Joined(v)' = Joined(v)
           /\ user[u].is_registered \/ Joined(u) # {}
              \/ UNCHANGED joined_channels
<1>0. joined_channels \in [Fd -> Seq(Channel)]
  BY DEF TablesTypeOK, UserTypeOK
<1>1. ASSUME NEW c \in Channel, user[u].is_registered,
             JoinChannel(u, c) \/ AbandonJoin(u, c)
      PROVE  \A v \in Fd \ {u} : Joined(v)' = Joined(v)
  BY <1>0, <1>1 DEF JoinChannel, AbandonJoin, user_add_channel, userTable, Joined
<1>2. ASSUME NEW c \in Channel, IsMember(u, c), PartChannel(u, c)
      PROVE  /\ \A v \in Fd \ {u} : Joined(v)' = Joined(v)
             /\ Joined(u) # {}
  BY <1>0, <1>2 DEF PartChannel, user_remove_channel, Joined, IsMember,
                    channel_has_user, ChannelInv, MembershipAgrees
<1>3. ASSUME NEW c \in Channel, NEW topic \in Topic \cup {""}, SetTopic(u, c, topic)
      PROVE  UNCHANGED joined_channels
  BY <1>3 DEF SetTopic, userTable
<1>4. ASSUME ModeEffect(u)
      PROVE  UNCHANGED joined_channels
  BY <1>4 DEF ModeEffect, ChangeChannel, userTable
<1> QED
  BY <1>1, <1>2, <1>3, <1>4 DEF ChannelEffect, Joined

LEMMA RegistrationStep ==
    ASSUME IInv, RegistrationGate, [Next]_vars
    PROVE  RegistrationGate'
<1>0. /\ TypeOK /\ TablesTypeOK /\ ConnectionsWatched /\ ChannelInv
      /\ user \in [Fd -> User] /\ users_fd_map \subseteq Fd
  BY DEF IInv, TypeOK, TablesTypeOK, UserTypeOK
<1>1. \A v \in users_fd_map :
          Gated(user[v]) /\ (~user[v].is_registered => Joined(v) = {})
  BY DEF RegistrationGate, Gated
<1>2. CASE ReadOnly
  BY <1>2 DEF ReadOnly, userTable, RegistrationGate, Joined
<1>3. ASSUME NEW u \in Fd, TableStep(u)
      PROVE  \A v \in users_fd_map' :
                 Gated(user'[v]) /\ (~user'[v].is_registered => Joined(v)' = {})
  <2>1. CASE u \notin users_fd_map /\ add_to_users(u)
    <3>1. /\ users_fd_map' = users_fd_map \cup {u}
          /\ \A v \in Fd \ {u} : user'[v] = user[v] /\ Joined(v)' = Joined(v)
          /\ user'[u] = NewUser /\ joined_channels'[u] = <<>>
      BY <1>0, <2>1 DEF add_to_users, Joined, TablesTypeOK, UserTypeOK
    <3>2. Gated(NewUser)
      BY DEF NewUser, Gated
    <3>3. Joined(u)' = {}
      BY <3>1 DEF Joined, Range
    <3> QED
      BY <1>0, <1>1, <3>1, <3>2, <3>3
  <2>2. CASE u \in users_fd_map /\ UserEffect(u)
    <3>1. /\ \A v \in Fd \ {u} : user'[v] = user[v]
          /\ UNCHANGED <<users_fd_map, joined_channels>>
      BY <1>0, <2>2, UserEffectOnStructs, UserEffectFrame
    <3>2. /\ Gated(user'[u])
          /\ user[u].is_registered => user'[u].is_registered
      BY <1>0, <1>1, <2>2, UserEffectIsGated
    <3>3. \A v \in Fd : Joined(v)' = Joined(v)
      BY <3>1 DEF Joined
    <3> QED
      BY <1>0, <1>1, <2>2, <3>1, <3>2, <3>3
  <2>3. CASE u \in users_fd_map /\ ChannelEffect(u)
    <3>1. UNCHANGED <<users_fd_map, user>>
      BY <2>3, ChannelEffectFrame
    <3>2. /\ \A v \in Fd \ {u} : Joined(v)' = Joined(v)
          /\ user[u].is_registered \/ Joined(u) # {}
             \/ UNCHANGED joined_channels
      BY <1>0, <2>3, ChannelEffectJoined
    <3>3. ~user[u].is_registered => Joined(u)' = {}
      BY <1>1, <2>3, <3>2 DEF Joined
    <3> QED
      BY <1>0, <1>1, <2>3, <3>1, <3>2, <3>3
  <2>4. CASE del_from_users(u)
    <3>1. /\ users_fd_map' = users_fd_map \ {u}
          /\ \A v \in Fd \ {u} : user'[v] = user[v] /\ Joined(v)' = Joined(v)
      BY <1>0, <2>4 DEF del_from_users, del_user_struct, Joined, TablesTypeOK,
                        UserTypeOK
    <3> QED
      BY <1>0, <1>1, <3>1
  <2> QED
    BY <1>3, <2>1, <2>2, <2>3, <2>4 DEF TableStep
<1> QED
  BY <1>0, <1>2, <1>3, StepCases DEF RegistrationGate, Gated

\* Whatever the order of NICK, USER and the other commands, a client is
\* registered from the moment it has sent both, and only then an operator,
\* away or in a channel.
THEOREM RegistrationGuards == Spec => []RegistrationGate
<1>1. Init => RegistrationGate
  BY DEF Init, UserInit, RegistrationGate
<1>2. IInv /\ RegistrationGate /\ [Next]_vars => RegistrationGate'
  BY RegistrationStep
<1> QED
  BY <1>1, <1>2, IInvAlways, PTL DEF Spec
-----------------------------------------------------------------------------
(* The refinement: every step of the server is a step of the service, or    *)
(* none.                                                                    *)

\* The member lists keep their members; u joins, or leaves, those of cs.
ListsKept == \A c \in Channel : channel'[c].user_list = channel[c].user_list

ListsJoined(u, cs) ==
    \A c \in Channel :
        channel'[c].user_list = IF c \in cs THEN channel[c].user_list \cup {u}
                                            ELSE channel[c].user_list

ListsLeft(u, cs) ==
    \A c \in Channel :
        channel'[c].user_list = IF c \in cs THEN channel[c].user_list \ {u}
                                            ELSE channel[c].user_list

\* What these are for the service.
LEMMA MembershipsChange ==
    ASSUME NEW u \in Fd, NEW cs \in SUBSET Channel
    PROVE  /\ ListsKept => Memberships' = Memberships
           /\ ListsJoined(u, cs) => Memberships' = Memberships \cup ({u} \X cs)
           /\ ListsLeft(u, cs) => Memberships' = Memberships \ ({u} \X cs)
<1>0. /\ Memberships = {p \in Fd \X Channel : p[1] \in channel[p[2]].user_list}
      /\ Memberships' = {p \in Fd \X Channel : p[1] \in channel'[p[2]].user_list}
  BY DEF Memberships, channel_has_user
<1>1. ASSUME ListsKept
      PROVE  Memberships' = Memberships
  BY <1>0, <1>1 DEF ListsKept
<1>2. ASSUME ListsJoined(u, cs)
      PROVE  Memberships' = Memberships \cup ({u} \X cs)
  <2>1. \A v \in Fd, c \in Channel :
            v \in channel'[c].user_list
                <=> v \in channel[c].user_list \/ (v = u /\ c \in cs)
    BY <1>2 DEF ListsJoined
  <2> QED
    BY <1>0, <2>1
<1>3. ASSUME ListsLeft(u, cs)
      PROVE  Memberships' = Memberships \ ({u} \X cs)
  <2>1. \A v \in Fd, c \in Channel :
            v \in channel'[c].user_list
                <=> v \in channel[c].user_list /\ ~(v = u /\ c \in cs)
    BY <1>3 DEF ListsLeft
  <2> QED
    BY <1>0, <2>1
<1> QED
  BY <1>1, <1>2, <1>3

LEMMA LeaveChannelsLeft ==
    ASSUME ChannelTypeOK, FlagsOfMembers, NEW u \in Fd,
           NEW cs \in SUBSET Channel, LeaveChannels(u, cs)
    PROVE  ListsLeft(u, cs)
BY LeaveChannelsLists DEF ListsLeft

LEMMA RegisteredAfterUserEffect ==
    ASSUME IInv, RegistrationGate, NEW u \in users_fd_map, UserEffect(u)
    PROVE  \/ RegisteredUsers' = RegisteredUsers
           \/ /\ RegisteredUsers' = RegisteredUsers \cup {u}
              /\ user'[u].nick # NULL
<1>0. TablesTypeOK /\ u \in Fd /\ users_fd_map \subseteq Fd /\ Gated(user[u])
  BY DEF IInv, TypeOK, TablesTypeOK, UserTypeOK, RegistrationGate, Gated
<1>1. /\ \A v \in Fd \ {u} : user'[v] = user[v]
      /\ UNCHANGED users_fd_map
  BY <1>0, UserEffectOnStructs, LineFrame
<1>2. Gated(user'[u]) /\ (user[u].is_registered => user'[u].is_registered)
  BY <1>0, UserEffectIsGated
<1>3. CASE user[u].is_registered \/ ~user'[u].is_registered
  BY <1>0, <1>1, <1>2, <1>3 DEF RegisteredUsers
<1>4. CASE ~user[u].is_registered /\ user'[u].is_registered
  <2>1. RegisteredUsers' = RegisteredUsers \cup {u}
    BY <1>0, <1>1, <1>4 DEF RegisteredUsers
  <2> QED
    BY <1>2, <1>4, <2>1 DEF Gated
<1> QED
  BY <1>3, <1>4

LEMMA UserEffectIsServiceStep ==
    ASSUME IInv, RegistrationGate, NEW u \in users_fd_map, UserEffect(u)
    PROVE  Service!ServiceNext \/ UNCHANGED Service!service
<1>0. /\ TablesTypeOK /\ u \in Fd /\ NickTableConsistent
      /\ user \in [Fd -> User] /\ user[u] \in User
  BY DEF IInv, TypeOK, TablesTypeOK, UserTypeOK
<1>1. UNCHANGED users_fd_map /\ Memberships' = Memberships
  BY UserEffectFrame, <1>0 DEF channelTable, Memberships, channel_has_user
<1>2. \/ RegisteredUsers' = RegisteredUsers
      \/ /\ RegisteredUsers' = RegisteredUsers \cup {u}
         /\ user'[u].nick # NULL
  BY RegisteredAfterUserEffect
<1>3. ASSUME NEW n \in Nick, NickAvailable(n), ChangeNick(u, n)
      PROVE  Service!TakeName(u, n)
  BY <1>1, <1>2, <1>3
     DEF NickAvailable, get_user_by_nick, ChangeNick, NickTableRekey,
         NickTableDelete, Service!TakeName, Service!Released
<1>4. ASSUME UNCHANGED users_nick_map, user'[u].nick = user[u].nick
      PROVE  Service!Introduce(u) \/ UNCHANGED Service!service
  <2>1. CASE RegisteredUsers' = RegisteredUsers
    BY <1>1, <1>4, <2>1 DEF Service!service
  <2>2. CASE RegisteredUsers' = RegisteredUsers \cup {u} /\ user'[u].nick # NULL
    <3>1. user[u].nick \in Nick
      BY <1>0, <1>4, <2>2 DEF User
    <3>2. users_nick_map[user[u].nick] = u
      BY <1>0, <3>1 DEF NickTableConsistent
    <3> QED
      BY <1>1, <1>4, <2>2, <3>1, <3>2 DEF Service!Introduce
  <2> QED
    BY <1>2, <2>1, <2>2
<1>5. ASSUME SetUsername(u)
      PROVE  UNCHANGED users_nick_map /\ user'[u].nick = user[u].nick
  BY <1>0, <1>5 DEF SetUsername, UpdateAndRegister, set_user_username, User
<1>6. ASSUME NEW status, NEW m, SetOperator(u, status, m)
      PROVE  UNCHANGED users_nick_map /\ user'[u].nick = user[u].nick
  BY <1>0, <1>6 DEF SetOperator, user_set_operator_status, User
<1>7. ASSUME NEW away_msg, SetAway(u, away_msg)
      PROVE  UNCHANGED users_nick_map /\ user'[u].nick = user[u].nick
  BY <1>0, <1>7 DEF SetAway, user_set_away_status, User
<1>8. ASSUME handle_quit_cmd(u)
      PROVE  UNCHANGED users_nick_map /\ user'[u].nick = user[u].nick
  BY <1>0, <1>8 DEF handle_quit_cmd, User
<1>9. \/ \E n \in Nick : Service!TakeName(u, n)
      \/ Service!Introduce(u)
      \/ UNCHANGED Service!service
  BY <1>3, <1>4, <1>5, <1>6, <1>7, <1>8 DEF UserEffect
<1> QED
  BY <1>0, <1>9 DEF Service!ServiceNext

\* The list of a channel that may have to be created.
LEMMA FoundOrCreatedLists ==
    ASSUME TablesTypeOK, ChannelInv, NEW c \in Channel
    PROVE  /\ FoundOrCreated(c) \in ChannelStruct
           /\ FoundOrCreated(c).user_list = channel[c].user_list
<1>0. channel \in [Channel -> ChannelStruct]
  BY DEF TablesTypeOK, ChannelTypeOK
<1>1. c \notin channels_map => channel[c].user_list = {}
  BY <1>0 DEF ChannelInv, MembershipAgrees, ChannelStruct
<1> QED
  BY <1>0, <1>1, NewChannelType DEF FoundOrCreated, NewChannel

\* Only a JOIN and a PART change the member lists.
LEMMA ChannelEffectLists ==
    ASSUME TablesTypeOK, ChannelInv, NEW u \in Fd, ChannelEffect(u)
    PROVE  \/ \E c \in Channel : user[u].is_registered /\ JoinChannel(u, c)
           \/ \E c \in Channel : PartChannel(u, c)
           \/ ListsKept
<1>0. /\ channel \in [Channel -> ChannelStruct]
      /\ channels_map \subseteq Channel
  BY DEF TablesTypeOK, ChannelTypeOK
<1>1. ASSUME NEW c \in Channel, AbandonJoin(u, c)
      PROVE  ListsKept
  BY <1>0, <1>1, FoundOrCreatedLists DEF AbandonJoin, join_channel, ListsKept
<1>2. ASSUME NEW c \in Channel, NEW topic, SetTopic(u, c, topic)
      PROVE  ListsKept
  BY <1>0, <1>2 DEF SetTopic, ChannelStruct, ListsKept
<1>3. ASSUME NEW c \in channels_map, NEW mode, NEW v,
             \/ ChangeChannel(u, c, set_channel_mode(channel[c], mode), mode)
             \/ ChangeChannel(u, c, set_member_mode(channel[c], mode, v), mode)
      PROVE  ListsKept
  <2>1. /\ set_channel_mode(channel[c], mode).user_list = channel[c].user_list
        /\ set_member_mode(channel[c], mode, v).user_list = channel[c].user_list
    BY <1>0 DEF set_channel_mode, set_member_mode, ChannelStruct
  <2>2. PICK rec : /\ channel' = [channel EXCEPT ![c] = rec]
                   /\ rec.user_list = channel[c].user_list
    BY <1>3, <2>1 DEF ChangeChannel
  <2> QED
    BY <1>0, <2>2 DEF ListsKept
<1>4. ModeEffect(u) => ListsKept
  BY <1>3 DEF ModeEffect
<1>5. ASSUME NEW T,
             \E c \in Channel, topic \in T :
                 IsMember(u, c) /\ MayChangeTopic(u, c) /\ SetTopic(u, c, topic)
      PROVE  ListsKept
  BY <1>2, <1>5
<1> QED
  BY <1>1, <1>4, <1>5, Zenon DEF ChannelEffect

\* The member lists after a line about a channel.
LEMMA ChannelEffectOnLists ==
    ASSUME TablesTypeOK, ChannelInv, NEW u \in Fd, ChannelEffect(u)
    PROVE  \/ ListsKept
           \/ \E c \in Channel : user[u].is_registered /\ ListsJoined(u, {c})
           \/ \E c \in Channel : ListsLeft(u, {c})
<1>0. ChannelTypeOK /\ channel \in [Channel -> ChannelStruct]
  BY DEF TablesTypeOK, ChannelTypeOK
<1>1. ASSUME NEW c \in Channel, JoinChannel(u, c)
      PROVE  ListsJoined(u, {c})
  <2>1. channel' = [channel EXCEPT ![c] = channel_add_user(FoundOrCreated(c), u)]
    BY <1>1 DEF JoinChannel, join_channel
  <2>2. channel_add_user(FoundOrCreated(c), u).user_list
            = channel[c].user_list \cup {u}
    BY FoundOrCreatedLists DEF channel_add_user, ChannelStruct
  <2> QED
    BY <1>0, <2>1, <2>2 DEF ListsJoined
<1>2. ASSUME NEW c \in Channel, PartChannel(u, c)
      PROVE  ListsLeft(u, {c})
  <2>1. LeaveChannels(u, {c}) /\ {c} \in SUBSET Channel
    BY <1>2 DEF PartChannel
  <2> QED
    BY <1>0, <2>1, LeaveChannelsLeft DEF ChannelInv
<1> QED
  BY <1>1, <1>2, ChannelEffectLists

LEMMA ChannelEffectIsServiceStep ==
    ASSUME IInv, NEW u \in users_fd_map, ChannelEffect(u)
    PROVE  Service!ServiceNext \/ UNCHANGED Service!service
<1>0. TablesTypeOK /\ ChannelInv /\ u \in Fd
  BY DEF IInv, TypeOK, TablesTypeOK, UserTypeOK
<1>1. UNCHANGED <<users_fd_map, users_nick_map>> /\ RegisteredUsers' = RegisteredUsers
  BY <1>0, ChannelEffectFrame DEF RegisteredUsers
<1>2. ASSUME NEW c \in Channel, user[u].is_registered, ListsJoined(u, {c})
      PROVE  Service!Enter(u, c)
  <2>1. Memberships' = Memberships \cup ({u} \X {c})
    BY <1>0, <1>2, MembershipsChange
  <2>2. u \in RegisteredUsers
    BY <1>2 DEF RegisteredUsers
  <2> QED
    BY <1>1, <2>1, <2>2 DEF Service!Enter
<1>3. ASSUME NEW c \in Channel, ListsLeft(u, {c})
      PROVE  Service!Exit(u, c)
  <2>1. Memberships' = Memberships \ ({u} \X {c})
    BY <1>0, <1>3, MembershipsChange
  <2> QED
    BY <1>1, <2>1 DEF Service!Exit
<1>4. CASE ListsKept
  <2>1. Memberships' = Memberships
    BY <1>0, <1>4, MembershipsChange
  <2> QED
    BY <1>1, <2>1 DEF Service!service
<1>5. \/ \E c \in Channel : Service!Enter(u, c) \/ Service!Exit(u, c)
      \/ Service!ServiceNext \/ UNCHANGED Service!service
  BY <1>0, <1>2, <1>3, <1>4, ChannelEffectOnLists
<1> QED
  BY <1>5 DEF Service!ServiceNext

LEMMA DisconnectIsServiceStep ==
    ASSUME IInv, NEW u \in users_fd_map, del_from_users(u)
    PROVE  Service!ServiceNext
<1>0. /\ TablesTypeOK /\ ChannelInv /\ u \in Fd /\ user \in [Fd -> User]
      /\ users_fd_map \subseteq Fd
  BY DEF IInv, TypeOK, TablesTypeOK, UserTypeOK
<1>1. /\ users_fd_map' = users_fd_map \ {u}
      /\ users_nick_map' = NickTableDelete(u)
      /\ \A v \in Fd \ {u} : user'[v] = user[v]
      /\ LeaveChannels(u, Joined(u))
  BY <1>0 DEF del_from_users, del_user_struct
<1>2. RegisteredUsers' = RegisteredUsers \ {u}
  BY <1>0, <1>1 DEF RegisteredUsers
<1>3. Joined(u) \in SUBSET Channel
  BY <1>0 DEF Joined, Range, TablesTypeOK, UserTypeOK
<1>4. ListsLeft(u, Joined(u))
  BY <1>0, <1>1, <1>3, LeaveChannelsLeft DEF TablesTypeOK, ChannelInv
<1>5. Memberships' = Memberships \ ({u} \X Joined(u))
  BY <1>0, <1>3, <1>4, MembershipsChange
<1>6. \A p \in Memberships : p[1] = u => p \in {u} \X Joined(u)
  BY <1>0 DEF Memberships, channel_has_user, ChannelInv, MembershipAgrees
<1>7. Memberships' = {p \in Memberships : p[1] # u}
  BY <1>5, <1>6
<1>8. Service!Depart(u)
  BY <1>1, <1>2, <1>7 DEF Service!Depart, Service!Released, NickTableDelete
<1> QED
  BY <1>8 DEF Service!ServiceNext

LEMMA ServiceStep ==
    ASSUME IInv, RegistrationGate, [Next]_vars
    PROVE  [Service!ServiceNext]_(Service!service)
<1>0. /\ TypeOK /\ ConnectionsWatched /\ users_fd_map \subseteq Fd
      /\ user \in [Fd -> User]
  BY DEF IInv, TypeOK, UserTypeOK
<1>1. CASE ReadOnly
  BY <1>1 DEF ReadOnly, userTable, channelTable, RegisteredUsers, Memberships,
              channel_has_user, Service!service
<1>2. ASSUME NEW u \in Fd, u \notin users_fd_map, add_to_users(u),
             UNCHANGED channelTable
      PROVE  Service!ServiceNext
  <2>1. RegisteredUsers' = RegisteredUsers
    BY <1>0, <1>2 DEF add_to_users, NewUser, RegisteredUsers
  <2>2. Memberships' = Memberships
    BY <1>2 DEF channelTable, Memberships, channel_has_user
  <2>3. Service!Arrive(u)
    BY <1>2, <2>1, <2>2 DEF add_to_users, Service!Arrive
  <2> QED
    BY <2>3 DEF Service!ServiceNext
<1>3. ASSUME NEW u \in Fd, TableStep(u)
      PROVE  Service!ServiceNext \/ UNCHANGED Service!service
  BY <1>2, <1>3, UserEffectIsServiceStep, ChannelEffectIsServiceStep,
     DisconnectIsServiceStep DEF TableStep
<1> QED
  BY <1>0, <1>1, <1>3, StepCases

\* The hash tables, lists, flags and counters of the server implement the
\* service: whatever clients do, a step changes the names and the rooms of one
\* client, and as the service allows.
THEOREM TablesImplementService == Spec => ImplementsService
<1>1. Init => Service!ServiceInit
  BY DEF Init, UserInit, ChannelInit, NewChannel, RegisteredUsers, Memberships,
         channel_has_user, Service!ServiceInit
<1>2. IInv /\ RegistrationGate /\ [Next]_vars
          => [Service!ServiceNext]_(Service!service)
  BY ServiceStep
<1> QED
  BY <1>1, <1>2, IInvAlways, RegistrationGuards, PTL
     DEF Spec, ImplementsService, Service!ServiceSpec
-----------------------------------------------------------------------------
(* How the server uses its hash tables: within what HashTable, which        *)
(* implements OrderedMap, takes for granted.                                *)

\* Insert of OrderedMap, of the channel c into the channels of v.
ChannelInserted(v, c) ==
    /\ c \notin Joined(v)
    /\ joined_channels'[v] = Append(joined_channels[v], c)

\* Erase of OrderedMap, likewise.
ChannelErased(v, c) ==
    /\ c \in Joined(v)
    /\ joined_channels'[v] = RemoveFirst(joined_channels[v], c)

\* What a step does to the channels of v.
JoinedMapStep(v) ==
    \/ joined_channels'[v] = joined_channels[v]
    \/ \E c \in Channel : ChannelInserted(v, c) \/ ChannelErased(v, c)
    \/ v \notin users_fd_map' /\ joined_channels'[v] = <<>>

\* A line about a channel: JOIN adds what was not there, PART deletes what was.
LEMMA ChannelEffectOnJoinedMap ==
    ASSUME TablesTypeOK, ChannelInv, NEW u \in Fd, ChannelEffect(u)
    PROVE  \A v \in Fd : JoinedMapStep(v)
<1>0. joined_channels \in [Fd -> Seq(Channel)]
  BY DEF TablesTypeOK, UserTypeOK
<1>1. ASSUME NEW c \in Channel, ~channel_has_user(c, u), JoinChannel(u, c)
      PROVE  \A v \in Fd : JoinedMapStep(v)
  <2>1. c \notin Joined(u)
    BY <1>1 DEF channel_has_user, ChannelInv, MembershipAgrees
  <2>2. joined_channels' =
            [joined_channels EXCEPT ![u] = Append(joined_channels[u], c)]
    BY <1>1 DEF JoinChannel, user_add_channel
  <2>3. ChannelInserted(u, c)
    BY <1>0, <2>1, <2>2 DEF ChannelInserted
  <2> QED
    BY <1>0, <2>2, <2>3 DEF JoinedMapStep
<1>2. ASSUME NEW c \in Channel, IsMember(u, c), PartChannel(u, c)
      PROVE  \A v \in Fd : JoinedMapStep(v)
  <2> DEFINE q == joined_channels[u]
             j == CHOOSE j \in DOMAIN q : q[j] = c
  <2>1. c \in Joined(u)
    BY <1>2 DEF IsMember, channel_has_user, ChannelInv, MembershipAgrees
  <2>2. j \in DOMAIN q /\ q[j] = c
    BY <2>1 DEF Joined, Range
  <2>3. q \in Seq(Channel) /\ IsInjective(q)
    BY <1>0 DEF ChannelInv, MembershipAgrees
  <2>4. joined_channels' = [joined_channels EXCEPT ![u] = RemoveAt(q, j)]
    BY <1>2 DEF PartChannel, user_remove_channel
  <2>5. RemoveAt(q, j) = RemoveFirst(q, c)
    <3> HIDE DEF q, j
    <3> QED
      BY <2>2, <2>3, RemoveFirstAt
  <2>6. ChannelErased(u, c)
    BY <1>0, <2>1, <2>4, <2>5 DEF ChannelErased
  <2> QED
    BY <1>0, <2>4, <2>6 DEF JoinedMapStep
<1>3. ASSUME UNCHANGED joined_channels
      PROVE  \A v \in Fd : JoinedMapStep(v)
  BY <1>3 DEF JoinedMapStep
<1>4. ASSUME NEW c, AbandonJoin(u, c)
      PROVE  UNCHANGED joined_channels
  BY <1>4 DEF AbandonJoin, userTable
<1>5. ASSUME NEW T,
             \E c \in Channel, topic \in T :
                 IsMember(u, c) /\ MayChangeTopic(u, c) /\ SetTopic(u, c, topic)
      PROVE  UNCHANGED joined_channels
  BY <1>5 DEF SetTopic, userTable
<1>6. ModeEffect(u) => UNCHANGED joined_channels
  BY DEF ModeEffect, ChangeChannel, userTable
<1>7. \/ \E c \in Channel : ~channel_has_user(c, u) /\ JoinChannel(u, c)
      \/ \E c \in Channel : IsMember(u, c) /\ PartChannel(u, c)
      \/ UNCHANGED joined_channels
  BY <1>4, <1>5, <1>6, Zenon DEF ChannelEffect
<1> QED
  BY <1>1, <1>2, <1>3, <1>7

LEMMA JoinedMapSteps ==
    ASSUME IInv, [Next]_vars
    PROVE  \A v \in Fd : JoinedMapStep(v)
<1>0. /\ TypeOK /\ ConnectionsWatched /\ TablesTypeOK /\ ChannelInv
      /\ joined_channels \in [Fd -> Seq(Channel)]
  BY DEF IInv, TypeOK, TablesTypeOK, UserTypeOK
<1>1. ASSUME UNCHANGED joined_channels
      PROVE  \A v \in Fd : JoinedMapStep(v)
  BY <1>1 DEF JoinedMapStep
<1>2. CASE ReadOnly
  BY <1>1, <1>2 DEF ReadOnly, userTable
<1>3. ASSUME NEW u \in Fd, TableStep(u)
      PROVE  \A v \in Fd : JoinedMapStep(v)
  <2>1. CASE u \notin users_fd_map /\ add_to_users(u)
    <3>1. Joined(u) = {}
      BY <1>0, <2>1 DEF ChannelInv, MembershipAgrees
    <3>2. joined_channels[u] = <<>>
      <4> DEFINE q == joined_channels[u]
      <4>1. DOMAIN q = {}
        BY <3>1 DEF Joined, Range
      <4>2. q \in Seq(Channel) /\ Len(q) \in Nat /\ DOMAIN q = 1 .. Len(q)
        BY <1>0
      <4>3. ~(Len(q) \in Nat \ {0})
        <5> SUFFICES ASSUME Len(q) \in Nat \ {0} PROVE FALSE
          OBVIOUS
        <5> DEFINE n == Len(q)
        <5>1. n \in Nat \ {0} /\ 1 .. n = {}
          BY <4>1, <4>2
        <5> HIDE DEF n
        <5>2. 1 \in 1 .. n
          BY <5>1
        <5> QED
          BY <5>1, <5>2
      <4> HIDE DEF q
      <4>4. q = <<>>
        BY <4>2, <4>3, EmptySeq
      <4> QED
        BY <4>4 DEF q
    <3>3. joined_channels' = [joined_channels EXCEPT ![u] = <<>>]
      BY <2>1 DEF add_to_users
    <3>4. UNCHANGED joined_channels
      BY <1>0, <3>2, <3>3
    <3> QED
      BY <1>1, <3>4
  <2>2. CASE UserEffect(u)
    BY <1>1, <2>2, UserEffectFrame
  <2>3. CASE ChannelEffect(u)
    BY <1>0, <2>3, ChannelEffectOnJoinedMap
  <2>4. CASE del_from_users(u)
    BY <1>0, <2>4 DEF del_from_users, del_user_struct, JoinedMapStep
  <2> QED
    BY <1>3, <2>1, <2>2, <2>3, <2>4 DEF TableStep
<1> QED
  BY <1>0, <1>2, <1>3, StepCases

\* The channels of a client are used as a map: JOIN only adds a channel that the
\* table does not have, since uthash would link a second element under the same
\* key, and PART only deletes one it has, since user_remove_channel hands HASH_DEL
\* what HASH_FIND returned without testing it.  All else that happens to the table
\* is to be emptied with its client.
THEOREM JoinedChannelsAreAMap == Spec => [][\A u \in Fd : JoinedMapStep(u)]_vars
<1>1. IInv /\ [Next]_vars => [\A u \in Fd : JoinedMapStep(u)]_vars
  BY JoinedMapSteps
<1> QED
  BY <1>1, IInvAlways, PTL DEF Spec

\* No table was expanded, and the walks along hh_next have kept to their chains.
NeverRanOff == expanded = {} /\ ~crashed

FewChannels == \A u \in Fd : Len(joined_channels[u]) < HASH_BKT_CAPACITY_THRESH

LEMMA NeverRanOffStep ==
    ASSUME IInv, NeverRanOff, [Next]_vars, FewChannels'
    PROVE  NeverRanOff'
<1>0. /\ TypeOK /\ ConnectionsWatched
      /\ joined_channels \in [Fd -> Seq(Channel)]
      /\ HASH_BKT_CAPACITY_THRESH \in Nat
  BY ThresholdAssumption DEF IInv, TypeOK, UserTypeOK
<1>1. ASSUME NEW u \in Fd, NEW c \in Channel, user_add_channel(u, c)
      PROVE  expanded' = {}
  <2>1. joined_channels'[u] = Append(joined_channels[u], c)
    BY <1>0, <1>1 DEF user_add_channel
  <2>2. Len(joined_channels'[u]) = Len(joined_channels[u]) + 1
    BY <1>0, <2>1
  <2>3. ~(Len(joined_channels[u]) + 1 >= HASH_BKT_CAPACITY_THRESH)
    BY <1>0, <2>2 DEF FewChannels
  <2> QED
    BY <1>1, <2>3 DEF user_add_channel, NeverRanOff
<1>2. ASSUME NEW u \in Fd, TableStep(u)
      PROVE  expanded' = {}
  <2>1. CASE UserEffect(u)
    BY <2>1 DEF UserEffect, ChangeNick, SetUsername, SetOperator, SetAway,
                handle_quit_cmd, NeverRanOff
  <2>2. CASE ChannelEffect(u)
    BY <1>1, <2>2
       DEF ChannelEffect, JoinChannel, AbandonJoin, PartChannel,
           user_remove_channel, SetTopic, ModeEffect, ChangeChannel, userTable,
           NeverRanOff
  <2>3. CASE add_to_users(u) \/ del_from_users(u)
    BY <2>3 DEF add_to_users, del_from_users, del_user_struct, NeverRanOff
  <2> QED
    BY <1>2, <2>1, <2>2, <2>3 DEF TableStep
<1>3. ~crashed'
  <2>1. \A u \in Fd : ~CrashStep(u)
    BY CrashFrame DEF WalkMayRunOff, NeverRanOff
  <2> QED
    BY <2>1, NextCases
       DEF NeverRanOff, vars, handle_new_connection, BeginBatch, handle_user_msg,
           EndBatch, Hangup
<1>4. expanded' = {}
  <2>1. CASE ReadOnly
    BY <2>1 DEF ReadOnly, userTable, NeverRanOff
  <2> QED
    BY <1>0, <1>2, <2>1, StepCases
<1> QED
  BY <1>3, <1>4 DEF NeverRanOff

\* The server dies of its walks along hh_next only where some client has joined
\* as many channels as make uthash expand a table: as long as every client keeps
\* below, no command, in whatever order, ends the process.  A client that leaves
\* and joins again, or takes over a descriptor, starts with a new table.
THEOREM FewChannelsNeverCrash ==
    Spec /\ [](\A u \in Fd : Len(joined_channels[u]) < HASH_BKT_CAPACITY_THRESH)
        => []~crashed
<1>1. Init => NeverRanOff
  BY DEF Init, UserInit, NeverRanOff
<1>2. IInv /\ NeverRanOff /\ [Next]_vars /\ FewChannels' => NeverRanOff'
  BY NeverRanOffStep
<1>3. NeverRanOff => ~crashed
  BY DEF NeverRanOff
<1>4. Spec /\ []FewChannels => []~crashed
  BY <1>1, <1>2, <1>3, IInvAlways, PTL DEF Spec
<1> QED
  BY <1>4 DEF FewChannels

\* The owner of a nickname before and after a step.
NickKept == \A n \in Nick :
    users_nick_map[n] # NULL => users_nick_map'[n] \in {users_nick_map[n], NULL}

LEMMA NickKeptStep ==
    ASSUME IInv, [Next]_vars
    PROVE  NickKept
<1>0. TypeOK /\ ConnectionsWatched
  BY DEF IInv
<1>1. UNCHANGED users_nick_map => NickKept
  BY DEF NickKept
<1>2. CASE ReadOnly
  BY <1>1, <1>2 DEF ReadOnly, userTable
<1>3. ASSUME NEW u \in Fd, TableStep(u)
      PROVE  NickKept
  <2>1. CASE add_to_users(u)
    BY <1>1, <2>1 DEF add_to_users
  <2>2. CASE UserEffect(u)
    <3>1. ASSUME NEW n \in Nick, NickAvailable(n), ChangeNick(u, n)
          PROVE  NickKept
      <4>1. /\ users_nick_map[n] = NULL
            /\ users_nick_map' = NickTableRekey(u, n)
        BY <3>1 DEF NickAvailable, get_user_by_nick, ChangeNick
      <4> QED
        BY <4>1 DEF NickTableRekey, NickTableDelete, NickKept
    <3>2. \/ \E n \in Nick : NickAvailable(n) /\ ChangeNick(u, n)
          \/ UNCHANGED users_nick_map
      BY <2>2 DEF UserEffect, SetUsername, SetOperator, SetAway, handle_quit_cmd
    <3> QED
      BY <1>1, <3>1, <3>2
  <2>3. CASE ChannelEffect(u)
    BY <1>1, <2>3, ChannelEffectFrame
  <2>4. CASE del_from_users(u)
    BY <2>4 DEF del_from_users, del_user_struct, NickTableDelete, NickKept
  <2> QED
    BY <1>3, <2>1, <2>2, <2>3, <2>4 DEF TableStep
<1> QED
  BY <1>0, <1>2, <1>3, StepCases

\* No nickname passes from one client to another in a step: set_user_nick never
\* adds a struct to users_nick_map under a nickname that is there, which would
\* hide the older struct from every lookup of get_user_by_nick.
THEOREM NicknamesAreNotTakenOver == Spec => [][NickKept]_vars
<1>1. IInv /\ [Next]_vars => [NickKept]_vars
  BY NickKeptStep
<1> QED
  BY <1>1, IInvAlways, PTL DEF Spec
=============================================================================
