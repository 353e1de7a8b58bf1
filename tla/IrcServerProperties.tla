------------------------- MODULE IrcServerProperties -------------------------
(* The correctness properties of the server. *)
EXTENDS IrcServer

(***************************************************************************)
(* Agreement of the tables                                                 *)
(***************************************************************************)

\* The nickname table finds a client exactly under its present nickname:
\* set_user_nick removes the old entry before it adds the new one,
\* handle_nick_cmd refuses a nickname in use, and del_from_users leaves no
\* entry for a freed struct.  So no two clients have the same nickname.
NickTableConsistent ==
    \A u \in Fd, n \in Nick :
        users_nick_map[n] = u <=> u \in users_fd_map /\ user[u].nick = n

\* A client is in the member list of a channel exactly when the channel is,
\* once, among the channels it joined.  Members are connected and the
\* channels joined exist, so neither list holds a pointer to a freed struct.
MembershipAgrees ==
    /\ \A u \in Fd, c \in Channel :
           u \in channel[c].user_list <=> c \in Joined(u)
    /\ \A u \in Fd : IsInjective(joined_channels[u])
    /\ \A u \in Fd : Joined(u) # {} => u \in users_fd_map
    /\ \A u \in Fd : Joined(u) \subseteq channels_map

\* delete_channel is called with the last member: an empty channel is one
\* whose first JOIN failed in the malloc of channel_add_user, and it is as
\* create_channel made it, without a topic, a mode or a member to come.
NoEmptyChannel ==
    \A c \in channels_map :
        \/ channel[c].user_list # {}
        \/ AllocMayFail /\ channel[c] = NewChannel

\* A channel that had members is deleted by the step that takes the last one,
\* whatever failed before: it never becomes an empty channel, which would stay,
\* be listed, and make an operator of whoever joins it next.
NotLeftEmpty ==
    \A c \in channels_map \cap channels_map' :
        channel[c].user_list # {} => channel'[c].user_list # {}

EmptiedChannelsDeleted == [][NotLeftEmpty]_vars

RegisteredUsers == {u \in users_fd_map : user[u].is_registered}

\* The counters LUSERS and LIST report are the sizes of what they count,
\* whatever the order of registrations, joins, parts and disconnections.
CountersExact ==
    /\ registered_user_count = Cardinality(RegisteredUsers)
    /\ unknown_user_count = Cardinality(users_fd_map \ RegisteredUsers)
    /\ channel_count = Cardinality(channels_map)
    /\ \A c \in Channel :
           channel[c].total_users = Cardinality(channel[c].user_list)

Operators == {u \in users_fd_map : user[u].is_oper}

\* The count of operators is never below their number: every decrement
\* belongs to an increment.
OperCountCovers == operator_user_count >= Cardinality(Operators)

\* A client is registered exactly when it has sent both NICK and USER, and
\* until then it is no operator, not away and in no channel.
RegistrationGate ==
    \A u \in users_fd_map :
        /\ user[u].is_registered <=>
               user[u].nick # NULL /\ user[u].has_username
        /\ user[u].has_nick <=> user[u].nick # NULL
        /\ ~user[u].is_registered =>
               ~user[u].is_oper /\ ~user[u].is_away /\ Joined(u) = {}

(***************************************************************************)
(* Connections                                                             *)
(***************************************************************************)

\* A client marked by QUIT is the one whose batch is being handled: it is
\* gone before the data of another client, or of a new client with its
\* descriptor, are looked at.
QuittersAreActive == \A u \in Fd : user[u].is_dead => active = u

\* Nothing is sent to a descriptor that is closed, or that a later client
\* might have received: every recipient is in the user table.
NoSendToClosedFd == \A m \in sent : m.to \in users_fd_map

\* Every watched descriptor belongs to a client, a batch is that of a watched
\* client, and every client is watched unless epoll_ctl failed.
ConnectionsWatched ==
    /\ epfd \subseteq users_fd_map
    /\ active \in epfd \cup {NULL}
    /\ AllocMayFail \/ users_fd_map \subseteq epfd

\* A client whose epoll_ctl failed is counted as unknown and holds a descriptor,
\* but nothing else: it has no nickname, is in no channel, and never comes to
\* have what another client with its descriptor had.
UnwatchedAreNew ==
    \A u \in users_fd_map \ epfd : user[u] = NewUser /\ Joined(u) = {}

\* A new client gets nothing of what an earlier one left under its descriptor:
\* no nickname, registration, membership or flag.
StartsFresh(u) ==
    /\ user'[u] = NewUser
    /\ joined_channels'[u] = <<>>
    /\ u \notin expanded'
    /\ \A n \in Nick : users_nick_map'[n] # u
    /\ \A c \in Channel : u \notin channel'[c].user_list
                              \cup channel'[c].channel_op
                              \cup channel'[c].channel_voice

NewClientsStartFresh == \A u \in users_fd_map' \ users_fd_map : StartsFresh(u)

FreshStart == [][NewClientsStartFresh]_vars

(***************************************************************************)
(* Channels                                                                *)
(***************************************************************************)

ModesOf(rec) == <<rec.moderated_mode, rec.topic_mode>>

\* The modes of a channel, and the flags of those that stay, or come, differ.
ModesChanged(old, new) ==
    LET stay == old.user_list \cap new.user_list
    IN  \/ ModesOf(new) # ModesOf(old)
        \/ new.channel_op \cap stay # old.channel_op \cap stay
        \/ new.channel_voice \cap stay # old.channel_voice \cap stay
        \/ (new.channel_op \cup new.channel_voice) \ old.user_list # {}

\* Only a member that is channel operator, or server operator, changes the
\* modes of a channel that has members, gives a flag or takes one from a
\* client that stays; and, while +t is set, its topic.  The topic is changed
\* by a member in any case.  Server operators are let in by command.c:746 and
\* command.c:1087, where structs.h:67 speaks of channel operators only: that
\* difference is the subject of UnflaggedMembersRefused.
ChangedByAuthority(c) ==
    LET old == channel[c]
        new == channel'[c]
        member == active \in old.user_list
        privileged == member /\ (active \in old.channel_op
                                     \/ user[active].is_oper)
    IN  /\ ModesChanged(old, new) /\ old.user_list # {} => privileged
        /\ new.topic # old.topic => member /\ (old.topic_mode => privileged)

ChangesByAuthority ==
    \A c \in channels_map \cap channels_map' : ChangedByAuthority(c)

ChannelAuthority == [][ChangesByAuthority]_vars

\* Whoever is heard in a moderated channel has a voice, is channel operator or
\* server operator at that moment, whatever flag or status was given or taken in
\* between, and a channel message goes to members, from a member.  The code lets
\* in two kinds of speakers structs.h:66 does not name: channel operators, as
\* messages.h:382 does, and server operators (UnflaggedMembersRefused).
ModeratedSpeech ==
    \A m \in sent :
        m.cmd \in {"PRIVMSG", "NOTICE"} /\ m.about # NULL =>
            /\ {m.to, m.src} \subseteq channel[m.about].user_list
            /\ channel[m.about].moderated_mode =>
                   \/ user[m.src].is_oper
                   \/ m.src \in channel[m.about].channel_op
                   \/ m.src \in channel[m.about].channel_voice

\* Every member of a channel, the new one too, is told of a JOIN, and every
\* member, the leaving one too, of a PART.
Announced(c, u) ==
    LET old == channel[c].user_list
        new == channel'[c].user_list
    IN  /\ u \in new \ old => \A v \in new : Event(v, "JOIN", u, c) \in sent'
        /\ u \in (old \ new) \cap users_fd_map' =>
               \A v \in old : Event(v, "PART", u, c) \in sent'

ChangesAnnounced == \A c \in Channel, u \in Fd : Announced(c, u)

MembershipAnnounced == [][ChangesAnnounced]_vars

\* A change of nickname and the end of a client are told in the name of the
\* client whose line is handled, to itself (not the end) or to clients that
\* are in one of its channels: nobody learns of a client it shares none with,
\* though users_share_channel and relay_nick_change follow the wrong links.
RelaysReachCompanions ==
    \A m \in sent :
        m.cmd \in {"NICK", "QUIT"} =>
            /\ m.src = active
            /\ \/ m.cmd = "NICK" /\ m.to = m.src
               \/ /\ m.to # m.src
                  /\ Joined(m.to) \cap Joined(m.src) # {}

\* A PRIVMSG with a target and a text from a registered client is never
\* swallowed: it is delivered, or the sender gets a numeric; a channel of one
\* member has nobody to deliver to.
PrivmsgAccounted ==
    \A u \in RegisteredUsers, target \in Channel \cup Nick :
        \/ handle_msg_cmd(u, target, TRUE, FALSE) # {}
        \/ target \in Channel /\ channel[target].user_list = {u}

(***************************************************************************)
(* The service the tables implement                                        *)
(***************************************************************************)

Memberships == {p \in Fd \X Channel : channel_has_user(p[2], p[1])}

\* The server implements ChatService: a step of one client never changes the
\* nickname, registration or memberships of another, and the tables of a client
\* that goes change in one step as far as others can see.
Service == INSTANCE ChatService WITH
    Client <- Fd, Name <- Nick, Room <- Channel, Nobody <- NULL,
    online <- users_fd_map,
    owner <- users_nick_map,
    admitted <- RegisteredUsers,
    present <- Memberships

ImplementsService == Service!ServiceSpec

(***************************************************************************)
(* Progress                                                                *)
(***************************************************************************)

\* A client that has sent QUIT is disconnected, by whichever copy of the code
\* behind handle_user_msg, unless a line behind QUIT ends the process.
QuitCompletes ==
    \A u \in Fd : user[u].is_dead ~> u \notin users_fd_map \/ crashed

(***************************************************************************)
(* What the comments of the source say and the code does not do            *)
(***************************************************************************)

\* user.h:38 on users_share_channel: "If the two users share a common channel,
\* returns true. Otherwise, returns false."  user.c:229 on relay_nick_change:
\* "relays the change to all channels joined by the sender."
CompanionsAreFound ==
    \A u, v \in users_fd_map :
        Joined(u) \cap Joined(v) # {} =>
            /\ users_share_channel(u, v)
            /\ Event(v, "NICK", u, NULL) \in relay_nick_change(u)

\* structs.h:66 on moderated_mode: "When true, only users with voice mode may send
\* msgs"; structs.h:67 on topic_mode: "When true, only a channel operator can set
\* the topic".  With both modes set, a member without a flag does neither.
UnflaggedMembersRefused ==
    \A u \in RegisteredUsers, c \in channels_map :
        /\ channel[c].moderated_mode /\ channel[c].topic_mode
        /\ u \in channel[c].user_list
                 \ (channel[c].channel_op \cup channel[c].channel_voice)
        => /\ handle_msg_cmd(u, c, TRUE, FALSE)
                  = {Numeric(u, "ERR_CANNOTSENDTOCHAN")}
           /\ ~MayChangeTopic(u, c)

\* user.h:79 on user_get_oper_count: "Returns the total number of operators
\* currently active on the server."
OperCountExact == operator_user_count = Cardinality(Operators)

\* channel.h:18 on PART: "If channel is not found, or user is not active within
\* the channel format and send ERR_NOSUCHCHANNEL or ERR_NOTONCHANNEL."
PartAnswersNonMember ==
    \A u \in RegisteredUsers, c \in Channel :
        ~IsMember(u, c) =>
            PartRefusal(u, c) \cap {Numeric(u, "ERR_NOSUCHCHANNEL"),
                                    Numeric(u, "ERR_NOTONCHANNEL")} # {}

\* command.c:151 on handle_msg_cmd: "If the is_notice flag is set to true,
\* suppresses any replies that the sender may receive."
NoticeNeverAnswered ==
    \A u \in users_fd_map, target \in Names, has_text \in BOOLEAN :
        \A m \in handle_msg_cmd(u, target, has_text, TRUE) : m.src # NULL
=============================================================================
