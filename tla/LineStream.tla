----------------------------- MODULE LineStream -----------------------------
(***************************************************************************)
(* What a client may expect of its connection, with no buffer in sight.    *)
(* The bytes it writes are one stream.  The server disposes of it in       *)
(* order: a step hands over the next bytes up to a newline, however the    *)
(* network cut the stream.  It closes the connection early only for a line *)
(* longer than Limit bytes or for something in the lines.  No line holds a *)
(* NUL (RFC 1459, 2.3.1): from a NUL on, nothing is promised but that the  *)
(* lines before it were handed over.                                       *)
(***************************************************************************)
EXTENDS Integers, Sequences

CONSTANTS Byte, LF, NUL, Limit

VARIABLES
    sent,       \* what the client has written
    peer,       \* "writing", "closed" or "reset": the client's end
    open,       \* the server has not closed its end
    upto,       \* number of bytes of sent that are disposed of
    handed      \* the batches of lines handed over so far

streamVars == <<sent, peer, open, upto, handed>>

StreamInit ==
    /\ sent = <<>>
    /\ peer = "writing"
    /\ open = TRUE
    /\ upto = 0
    /\ handed = <<>>

\* The newlines that end a line the server can see.
LineEnds ==
    {j \in upto + 1 .. Len(sent) :
        sent[j] = LF /\ \A i \in upto + 1 .. j : sent[i] # NUL}

Write ==
    /\ open /\ peer = "writing"
    /\ \E b \in Byte : sent' = Append(sent, b)
    /\ UNCHANGED <<peer, open, upto, handed>>

Leave ==
    /\ peer = "writing"
    /\ peer' \in {"closed", "reset"}
    /\ UNCHANGED <<sent, open, upto, handed>>

(* The next lines, to the newline at j.  What is disposed of with them, up  *)
(* to k, begins with a NUL.                                                 *)
HandOver(j, k) ==
    /\ open
    /\ j \in LineEnds
    /\ j <= upto + Limit
    /\ k \in j .. Len(sent)
    /\ k = j \/ sent[j + 1] = NUL
    /\ handed' = Append(handed, SubSeq(sent, upto + 1, j))
    /\ \/ upto' = k /\ UNCHANGED open
       \/ open' = FALSE /\ UNCHANGED upto      \* one of the lines was QUIT
    /\ UNCHANGED <<sent, peer>>

LineTooLong ==
    /\ Len(sent) >= upto + Limit
    /\ \A j \in LineEnds : j > upto + Limit

\* A client that closes its end loses none of the lines it had completed.
Close ==
    /\ open
    /\ \/ peer = "reset"
       \/ peer = "closed" /\ LineEnds = {}
       \/ LineTooLong
    /\ open' = FALSE
    /\ UNCHANGED <<sent, peer, upto, handed>>

StreamNext ==
    \/ Write
    \/ Leave
    \/ \E j \in 1 .. Len(sent) : \E k \in j .. Len(sent) : HandOver(j, k)
    \/ Close

StreamSpec == StreamInit /\ [][StreamNext]_streamVars
=============================================================================
