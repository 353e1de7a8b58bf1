----------------------------- MODULE LineFraming -----------------------------
(***************************************************************************)
(* One connection of network.c: handle_client_data receives bytes behind   *)
(* those already in user_buf, looks for the last newline, gives the string *)
(* up to it to handle_user_msg, and moves the rest to the front.           *)
(*                                                                         *)
(* The socket is external: an ordered stream, of which recv returns any    *)
(* part that has arrived.  It is kept as all bytes the client has written  *)
(* and the number received.  user_buf is the whole array, so that what an  *)
(* earlier message left behind the terminator is there to be misread.      *)
(* MaxSent bounds the number of bytes a client writes.                     *)
(***************************************************************************)
EXTENDS Integers, Sequences, SequencesExt

CONSTANTS
    Byte,           \* the bytes a client may write
    LF, CR, NUL,    \* newline, carriage return and the string terminator
    BUF_SIZE,       \* size of user_buf, the cell for a terminator left out
    QuitLine,       \* the line that is a QUIT command
    MaxSent

ASSUME BufferAssumption == BUF_SIZE \in Nat \ {0}
ASSUME BytesAssumption == {LF, NUL} \subseteq Byte /\ LF # NUL
ASSUME BoundAssumption == MaxSent \in Nat

VARIABLES
    sent,       \* what the client has written
    peer,       \* the client's end: "writing", "closed" or "reset"
    nread,      \* number of bytes of sent that recv has returned
    user_buf, buf_len,
    open,       \* the descriptor is open and its struct in the user table
    handed      \* the strings handle_user_msg was called with

vars == <<sent, peer, nread, user_buf, buf_len, open, handed>>

TypeOK ==
    /\ sent \in Seq(Byte)
    /\ peer \in {"writing", "closed", "reset"}
    /\ nread \in 0 .. Len(sent)
    /\ user_buf \in [0 .. BUF_SIZE -> Byte]
    /\ buf_len \in 0 .. BUF_SIZE
    /\ open \in BOOLEAN
    /\ handed \in Seq(Seq(Byte))

(* add_to_users clears BUF_SIZE bytes; the last cell holds what malloc      *)
(* found there.                                                             *)
Init ==
    /\ sent = <<>>
    /\ peer = "writing"
    /\ nread = 0
    /\ \E b \in Byte : user_buf = [i \in 0 .. BUF_SIZE |->
                                      IF i = BUF_SIZE THEN b ELSE NUL]
    /\ buf_len = 0
    /\ open = TRUE
    /\ handed = <<>>

-----------------------------------------------------------------------------
(* The client. *)

Write ==
    /\ open /\ peer = "writing" /\ Len(sent) < MaxSent
    /\ \E b \in Byte : sent' = Append(sent, b)
    /\ UNCHANGED <<peer, nread, user_buf, buf_len, open, handed>>

Leave ==
    /\ peer = "writing"
    /\ peer' \in {"closed", "reset"}
    /\ UNCHANGED <<sent, nread, user_buf, buf_len, open, handed>>

-----------------------------------------------------------------------------
(* The server. *)

\* Slip: a carriage return does not separate lines.
IsDelimiterLFOnly(b) == b = LF

\* The characters strtok_r splits at.
IsDelimiter(b) == b \in {CR, LF}

\* strtok_r over the string s: skip delimiters, take a line, go on behind it.
Lines(s) ==
    LET EndOf(i) == CHOOSE e \in i .. Len(s) + 1 :
                        /\ e = Len(s) + 1 \/ IsDelimiter(s[e])
                        /\ \A k \in i .. e - 1 : ~IsDelimiter(s[k])
        from[i \in 1 .. Len(s) + 1] ==
            IF i = Len(s) + 1 THEN <<>>
            ELSE IF IsDelimiter(s[i]) THEN from[i + 1]
            ELSE <<SubSeq(s, i, EndOf(i) - 1)>> \o from[EndOf(i)]
    IN  from[1]

\* handle_user_msg leaves the client marked dead.
IsDead(msg) == Contains(Lines(msg), QuitLine)

\* recv, asked for the room that is left, returns n bytes; -1 and 0 are below.
Room == BUF_SIZE - buf_len
RecvResults == {n \in 1 .. Room : n <= Len(sent) - nread}

\* recv returns 0, when it is asked for no bytes too, or an error.
RecvFails ==
    \/ Room = 0
    \/ nread = Len(sent) /\ peer # "writing"
    \/ peer = "reset"

\* close, and the struct is freed.
HangUp ==
    /\ RecvFails
    /\ open' = FALSE
    /\ UNCHANGED <<sent, peer, nread, user_buf, buf_len, handed>>

\* user_buf after recv and the terminator behind its last byte.
Received(n) ==
    [i \in 0 .. BUF_SIZE |->
        IF i \in buf_len .. buf_len + n - 1
        THEN sent[nread + 1 + i - buf_len]
        ELSE IF i = buf_len + n THEN NUL ELSE user_buf[i]]

\* Slip: only a newline behind a carriage return ends a line.
NewlinesCrLf(buf) ==
    {i \in 1 .. BUF_SIZE :
        /\ buf[i] = LF /\ buf[i - 1] = CR
        /\ \A k \in 0 .. i : buf[k] # NUL}

\* The newlines of a C string: strrchr returns the last.
Newlines(buf) ==
    {i \in 0 .. BUF_SIZE :
        buf[i] = LF /\ \A k \in 0 .. i : buf[k] # NUL}

\* Slip: strchr, the first newline.
IsFirstNewline(i, buf) ==
    i \in Newlines(buf) /\ \A k \in Newlines(buf) : i <= k

IsLastNewline(i, buf) ==
    i \in Newlines(buf) /\ \A k \in Newlines(buf) : k <= i

\* The string made of the first len characters of buf.
Prefix(buf, len) == [i \in 1 .. len |-> buf[i - 1]]

\* Slip: the rest is not moved, only its length is kept.
KeepRestUnmoved(buf, processed, total_len) ==
    /\ user_buf' = buf
    /\ buf_len' = total_len - processed
    /\ UNCHANGED open

\* memmove of the bytes behind the last newline.
KeepRest(buf, processed, total_len) ==
    LET remaining == total_len - processed
    IN  /\ user_buf' = [i \in 0 .. BUF_SIZE |->
                           IF i < remaining THEN buf[i + processed] ELSE buf[i]]
        /\ buf_len' = remaining
        /\ UNCHANGED open

\* memset; the last cell keeps its value.
ClearBuffer(buf) ==
    /\ user_buf' = [i \in 0 .. BUF_SIZE |->
                       IF i < BUF_SIZE THEN NUL ELSE buf[i]]
    /\ buf_len' = 0
    /\ UNCHANGED open

\* The client has sent QUIT: its struct is freed as it is.
Disconnect(buf, total_len) ==
    /\ user_buf' = buf
    /\ buf_len' = total_len
    /\ open' = FALSE

\* After the lines of a buffer without a rest.
EndWhole(buf, msg, total_len) ==
    IF IsDead(msg) THEN Disconnect(buf, total_len) ELSE ClearBuffer(buf)

\* After the lines in front of a rest: a copy, with a test of its own.
EndFragmented(buf, msg, total_len) ==
    IF IsDead(msg) THEN Disconnect(buf, total_len)
                   ELSE KeepRest(buf, Len(msg), total_len)

(* The lines up to the last newline are handled.  The character behind it   *)
(* tells whether there is a rest; it is the terminator, or a NUL that the   *)
(* client sent, with what follows.                                          *)
HandleLines(buf, last, total_len) ==
    LET msg == Prefix(buf, last + 1)
    IN  /\ handed' = Append(handed, msg)
        /\ IF buf[last + 1] = NUL THEN EndWhole(buf, msg, total_len)
                                  ELSE EndFragmented(buf, msg, total_len)

\* Slip: the terminator is counted.
KeepAllAndTerminator(buf, total_len) ==
    /\ user_buf' = buf
    /\ buf_len' = total_len + 1
    /\ UNCHANGED <<open, handed>>

\* No newline yet: wait for more.
KeepAll(buf, total_len) ==
    /\ user_buf' = buf
    /\ buf_len' = total_len
    /\ UNCHANGED <<open, handed>>

Receive(n) ==
    LET buf == Received(n)
        total_len == buf_len + n
    IN  /\ nread' = nread + n
        /\ \/ Newlines(buf) = {} /\ KeepAll(buf, total_len)
           \/ \E last \in Newlines(buf) :
                  IsLastNewline(last, buf) /\ HandleLines(buf, last, total_len)
        /\ UNCHANGED <<sent, peer>>

\* epoll reports the descriptor.
Readable == nread < Len(sent) \/ peer # "writing"

handle_client_data ==
    /\ open
    /\ Readable
    /\ \/ HangUp
       \/ \E n \in RecvResults : Receive(n)

Next == Write \/ Leave \/ handle_client_data

Spec == Init /\ [][Next]_vars

-----------------------------------------------------------------------------
(* Properties *)

\* The number of bytes of the stream that handle_client_data is done with.
Upto == nread - buf_len

\* user_buf holds the bytes behind those, in order, whatever the reads were and
\* whatever was in it before; and no line that is complete waits in it.
BufferHoldsOpenLine ==
    open => /\ Upto >= 0
            /\ \A i \in 0 .. buf_len - 1 : user_buf[i] = sent[Upto + 1 + i]
            /\ \A j \in 0 .. buf_len - 1 :
                   user_buf[j] = LF => \E i \in 0 .. j : user_buf[i] = NUL

HasNul(s) == NUL \in ToSet(s)

\* The maximal stretches of s without a delimiter, as pairs of positions.
LineSpans(s) ==
    {p \in (1 .. Len(s)) \X (1 .. Len(s)) :
        /\ p[1] <= p[2]
        /\ \A i \in p[1] .. p[2] : s[i] \notin {CR, LF}
        /\ p[1] = 1 \/ s[p[1] - 1] \in {CR, LF}
        /\ p[2] = Len(s) \/ s[p[2] + 1] \in {CR, LF}}

\* lines are the texts of all these spans of s, in their order.
AreTexts(lines, s, spans) ==
    \E at \in [DOMAIN lines -> spans] :
        /\ Range(at) = spans
        /\ \A k, l \in DOMAIN lines : k < l => at[k][1] < at[l][1]
        /\ \A k \in DOMAIN lines : lines[k] = SubSeq(s, at[k][1], at[k][2])

\* All lines handled so far.
LinesHandled == FlattenSeq([k \in DOMAIN handed |-> Lines(handed[k])])

\* The lines handled are the lines of the stream, each once and in order: where
\* the network cut it, and how reads met the size of the buffer, cannot be seen.
LinesIndependentOfReads ==
    open /\ ~HasNul(sent) =>
        LET stream == SubSeq(sent, 1, Upto)
        IN  AreTexts(LinesHandled, stream, LineSpans(stream))

\* The connection is the stream of lines LineStream describes: it hands over
\* what was written, and closes for the reasons given there only.
Stream == INSTANCE LineStream WITH Limit <- BUF_SIZE, upto <- Upto

ImplementsLineStream == Stream!StreamSpec

\* What the event loop owes this connection: as long as the descriptor is open
\* and readable, it is looked at again.  main.c does not promise that of every
\* descriptor; ClientsServed of EventLoop says when it does.
LookedAtWhileReadable ==
    \/ []<>(~open \/ ~Readable)
    \/ []<><<handle_client_data>>_vars

\* Then every line a client completes, without a NUL on the way, is handled, or
\* the connection is closed: no read waits for bytes the buffer already holds,
\* and no line is forgotten behind an earlier one.
LinesHandledIfLookedAt ==
    LookedAtWhileReadable =>
        \A k \in 1 .. MaxSent :
            (k <= Len(sent) /\ sent[k] = LF /\ ~HasNul(SubSeq(sent, 1, k)))
                ~> (Upto >= k \/ ~open)
=============================================================================
