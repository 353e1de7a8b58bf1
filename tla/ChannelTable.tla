---------------------------- MODULE ChannelTable ----------------------------
(***************************************************************************)
(* The channels of the server: src/src/channel.c over struct Channel and   *)
(* struct UserNode of src/include/structs.h.  user_list is the set of the  *)
(* members' descriptors (the order of the linked list shows only in the    *)
(* order of NAMES and WHO lines); the flags channel_op and channel_voice   *)
(* of a UserNode are membership in the sets of that name, and go with it.  *)
(* The struct of a name that is not in channels_map is NewChannel,         *)
(* whatever the freed memory held.                                         *)
(***************************************************************************)
EXTENDS UserTable

CONSTANT Topic      \* the non-empty topics

ASSUME TopicAssumption == NULL \notin Topic

VARIABLES
    channels_map,       \* names of the channels that exist
    channel,            \* name -> struct Channel
    channel_count

channelTable == <<channels_map, channel, channel_count>>

ChannelStruct ==
    [total_users : Int, topic : Topic \cup {NULL},
     moderated_mode : BOOLEAN, topic_mode : BOOLEAN,
     user_list : SUBSET Fd, channel_op : SUBSET Fd, channel_voice : SUBSET Fd]

NewChannel ==
    [total_users |-> 0, topic |-> NULL,
     moderated_mode |-> FALSE, topic_mode |-> FALSE,
     user_list |-> {}, channel_op |-> {}, channel_voice |-> {}]

ChannelTypeOK ==
    /\ channels_map \subseteq Channel
    /\ channel \in [Channel -> ChannelStruct]
    /\ channel_count \in Int

ChannelInit ==
    /\ channels_map = {}
    /\ channel = [c \in Channel |-> NewChannel]
    /\ channel_count = 0

-----------------------------------------------------------------------------
channel_has_user(c, u) == u \in channel[c].user_list

\* channel_add_user: the first member becomes channel operator.
channel_add_user(rec, u) ==
    [rec EXCEPT
        !.user_list = @ \cup {u},
        !.total_users = @ + 1,
        !.channel_op = IF rec.user_list = {} THEN @ \cup {u} ELSE @]

\* Slip: total_users is not decremented.
channel_remove_userUncounted(rec, u) ==
    [rec EXCEPT
        !.user_list = @ \ {u},
        !.channel_op = @ \ {u},
        !.channel_voice = @ \ {u}]

channel_remove_user(rec, u) ==
    IF u \notin rec.user_list
    THEN rec
    ELSE [rec EXCEPT
             !.user_list = @ \ {u},
             !.total_users = @ - 1,
             !.channel_op = @ \ {u},
             !.channel_voice = @ \ {u}]

\* The struct as create_channel or get_channel hands it to join_channel.
FoundOrCreated(c) == IF c \in channels_map THEN channel[c] ELSE NewChannel

\* Slip: total_users is incremented before the malloc that may fail.
join_channelCountsFirst(u, c, added) ==
    /\ channels_map' = channels_map \cup {c}
    /\ channel_count' = IF c \in channels_map THEN channel_count
                                              ELSE channel_count + 1
    /\ channel' = [channel EXCEPT
           ![c] = IF added THEN channel_add_user(FoundOrCreated(c), u)
                  ELSE [FoundOrCreated(c) EXCEPT !.total_users = @ + 1]]

(* join_channel for a user that is not a member yet: create the channel if  *)
(* need be, then add the user.  added is FALSE when the malloc of           *)
(* channel_add_user fails: a channel just created then stays in the table.  *)
join_channel(u, c, added) ==
    /\ channels_map' = channels_map \cup {c}
    /\ channel_count' = IF c \in channels_map THEN channel_count
                                              ELSE channel_count + 1
    /\ channel' = [channel EXCEPT
           ![c] = IF added THEN channel_add_user(FoundOrCreated(c), u)
                           ELSE FoundOrCreated(c)]

\* Slip: the list is tested before the member is removed.
EmptiedByTooEarly(u, cs) == {c \in cs : channel[c].user_list = {}}

\* The channels among cs that lose their last member when u leaves.
EmptiedBy(u, cs) ==
    {c \in cs : channel_remove_user(channel[c], u).user_list = {}}

(* u leaves each channel of cs, and delete_channel frees those it leaves    *)
(* empty: the end of handle_part_channel_logic, and the loop of             *)
(* user_remove_all.                                                         *)
LeaveChannels(u, cs) ==
    /\ channels_map' = channels_map \ EmptiedBy(u, cs)
    /\ channel_count' = channel_count - Cardinality(EmptiedBy(u, cs))
    /\ channel' = [c \in Channel |->
           IF c \in EmptiedBy(u, cs) THEN NewChannel
           ELSE IF c \in cs THEN channel_remove_user(channel[c], u)
           ELSE channel[c]]

\* Slip: the struct is freed without user_remove_all.
del_from_usersKeepsChannels(u) ==
    /\ del_user_struct(u)
    /\ UNCHANGED channelTable

\* Slip: u leaves the channels it is alone in and no others.
del_from_usersAloneOnly(u) ==
    /\ del_user_struct(u)
    /\ LeaveChannels(u, EmptiedBy(u, Joined(u)))

del_from_users(u) ==
    /\ del_user_struct(u)
    /\ LeaveChannels(u, Joined(u))
=============================================================================
