------------------------------- MODULE Replies -------------------------------
(***************************************************************************)
(* What the server sends: send_string of src/src/network.c and the formats *)
(* of src/include/messages.h.  sent holds the messages of the last step.   *)
(* A message keeps its recipient, its command or numeric, the user it is   *)
(* about (the prefix of a relayed command, the user a line of a list       *)
(* describes) and its target; the wording is left out, and so is the       *)
(* failure of send(), which the handlers ignore.                           *)
(***************************************************************************)
EXTENDS ChannelTable

VARIABLE sent

Relayed == {"NICK", "JOIN", "PART", "QUIT", "TOPIC", "MODE", "PRIVMSG", "NOTICE"}

Numerics ==
    {"RPL_WELCOME", "RPL_LUSERCLIENT", "RPL_LUSEROP", "RPL_LUSERUNKNOWN",
     "RPL_LUSERCHANNELS", "RPL_LUSERME", "RPL_MOTDSTART", "RPL_MOTD",
     "RPL_ENDOFMOTD", "RPL_UMODEIS", "RPL_AWAY", "RPL_UNAWAY", "RPL_NOWAWAY",
     "RPL_YOUREOP", "RPL_WHOISUSER", "RPL_WHOISSERVER", "RPL_WHOISOPERATOR",
     "RPL_WHOISCHANNELS", "RPL_ENDOFWHOIS", "RPL_WHOREPLY", "RPL_ENDOFWHO",
     "RPL_LIST", "RPL_LISTEND", "RPL_CHANNELMODEIS", "RPL_NOTOPIC", "RPL_TOPIC",
     "RPL_NAMREPLY", "RPL_ENDOFNAMES", "ERR_NOSUCHNICK", "ERR_NOSUCHCHANNEL",
     "ERR_CANNOTSENDTOCHAN", "ERR_NORECIPIENT", "ERR_NOTEXTTOSEND",
     "ERR_UNKNOWNCOMMAND", "ERR_ERRONEOUSNICKNAME", "ERR_NICKNAMEINUSE",
     "ERR_USERNOTINCHANNEL", "ERR_NOTONCHANNEL", "ERR_NOTREGISTERED",
     "ERR_NEEDMOREPARAMS", "ERR_ALREADYREGISTERED", "ERR_PASSWDMISMATCH",
     "ERR_UNKNOWNMODE", "ERR_CHANOPRIVSNEEDED", "ERR_USERSDONTMATCH", "PONG"}

Message == [to : Fd, cmd : Relayed \cup Numerics, src : Fd \cup {NULL},
            about : Channel \cup {NULL}]

Event(to, cmd, src, about) ==
    [to |-> to, cmd |-> cmd, src |-> src, about |-> about]

Numeric(to, name) == Event(to, name, NULL, NULL)

\* channel_message_users over a member list; exclude is NULL for -1.
channel_message_users(c, list, cmd, src, exclude) ==
    {Event(u, cmd, src, c) : u \in list \ {exclude}}

\* The early returns: a numeric and nothing else, or nothing at all.
Refuse(u, numeric) ==
    /\ sent' = {Numeric(u, numeric)}
    /\ UNCHANGED <<userTable, channelTable>>

Silent ==
    /\ sent' = {}
    /\ UNCHANGED <<userTable, channelTable>>

\* A handler that only reads the tables.
Answer(messages) ==
    /\ sent' = messages
    /\ UNCHANGED <<userTable, channelTable>>
=============================================================================
