-------------------------- MODULE LineFramingProofs --------------------------
(***************************************************************************)
(* Proofs about LineFraming, for every size of the buffer, every alphabet   *)
(* and every bound on the stream.  FramingInv is the inductive invariant:   *)
(* with it each call of handle_client_data is a step of LineStream.         *)
(***************************************************************************)
EXTENDS LineFraming, ListLemmas

FramingInv == TypeOK /\ BufferHoldsOpenLine

\* What recv leaves in the buffer is the next part of the stream.
LEMMA ReceivedIsStream ==
    ASSUME FramingInv, open, NEW n \in RecvResults
    PROVE  /\ n \in Nat \ {0}
           /\ buf_len + n \in 1 .. BUF_SIZE
           /\ nread + n \in 0 .. Len(sent)
           /\ Received(n) \in [0 .. BUF_SIZE -> Byte]
           /\ \A i \in 0 .. buf_len + n - 1 :
                  Received(n)[i] = sent[Upto + 1 + i]
           /\ Received(n)[buf_len + n] = NUL
<1> USE BufferAssumption, BytesAssumption DEF FramingInv, TypeOK
<1>1. /\ n \in Nat \ {0}
      /\ buf_len + n \in 1 .. BUF_SIZE
      /\ nread + n \in 0 .. Len(sent)
  BY DEF RecvResults, Room
<1>2. Received(n) \in [0 .. BUF_SIZE -> Byte]
  <2> SUFFICES ASSUME NEW i \in 0 .. BUF_SIZE,
                      i \in buf_len .. buf_len + n - 1
               PROVE  sent[nread + 1 + i - buf_len] \in Byte
    BY DEF Received
  <2>1. nread + 1 + i - buf_len \in 1 .. Len(sent)
    BY <1>1
  <2> QED BY <2>1, ElementOfSeq
<1>3. ASSUME NEW i \in 0 .. buf_len + n - 1
      PROVE  Received(n)[i] = sent[Upto + 1 + i]
  <2>1. i \in 0 .. BUF_SIZE
    BY <1>1
  <2>2. CASE i < buf_len
    <3>1. Received(n)[i] = user_buf[i]
      BY <1>1, <2>1, <2>2 DEF Received
    <3> QED BY <1>1, <2>2, <3>1 DEF BufferHoldsOpenLine
  <2>3. CASE i >= buf_len
    <3>1. Received(n)[i] = sent[nread + 1 + i - buf_len]
      BY <1>1, <2>1, <2>3 DEF Received
    <3>2. nread + 1 + i - buf_len = Upto + 1 + i
      BY <1>1 DEF Upto
    <3> QED BY <3>1, <3>2
  <2> QED BY <2>2, <2>3, <1>1
<1>4. Received(n)[buf_len + n] = NUL
  BY <1>1 DEF Received
<1> QED BY <1>1, <1>2, <1>3, <1>4

\* The newlines found lie among the bytes received.
LEMMA NewlineWithin ==
    ASSUME FramingInv, open, NEW n \in RecvResults,
           NEW last \in Newlines(Received(n))
    PROVE  /\ last \in 0 .. buf_len + n - 1
           /\ Received(n)[last] = LF
           /\ \A k \in 0 .. last : Received(n)[k] # NUL
<1>1. /\ last \in 0 .. BUF_SIZE
      /\ Received(n)[last] = LF
      /\ \A k \in 0 .. last : Received(n)[k] # NUL
  BY DEF Newlines
<1>2. last < buf_len + n
  BY <1>1, ReceivedIsStream, BufferAssumption DEF FramingInv, TypeOK
<1> QED BY <1>1, <1>2, ReceivedIsStream DEF FramingInv, TypeOK

\* The string given to handle_user_msg is the stream up to a newline.
LEMMA BatchIsStream ==
    ASSUME FramingInv, open, NEW n \in RecvResults,
           NEW last \in Newlines(Received(n))
    PROVE  /\ Upto + last + 1 \in Upto + 1 .. nread + n
           /\ Prefix(Received(n), last + 1)
                  = SubSeq(sent, Upto + 1, Upto + last + 1)
<1> DEFINE msg == Prefix(Received(n), last + 1)
           part == SubSeq(sent, Upto + 1, Upto + last + 1)
<1>1. /\ last \in 0 .. buf_len + n - 1
      /\ buf_len \in Nat /\ nread \in Nat /\ n \in Nat
      /\ nread + n \in 0 .. Len(sent)
      /\ Upto \in Nat /\ Upto = nread - buf_len
      /\ Len(sent) \in Nat
  BY NewlineWithin, ReceivedIsStream, BufferAssumption
     DEF FramingInv, TypeOK, BufferHoldsOpenLine, Upto
<1>2. Upto + last + 1 \in Upto + 1 .. nread + n
  BY <1>1
<1>3. part = [i \in 1 .. last + 1 |-> sent[Upto + i]]
  <2>1. \A i \in Upto + 1 .. Upto + last + 1 : sent[i] \in Byte
    BY <1>1, <1>2, ElementOfSeq DEF FramingInv, TypeOK
  <2>2. /\ part \in Seq(Byte)
        /\ Len(part) = last + 1
        /\ \A i \in 1 .. last + 1 : part[i] = sent[Upto + i]
    BY <1>1, <2>1, SubSeqProperties
  <2> HIDE DEF part
  <2> QED BY <2>2
<1>4. \A i \in 1 .. last + 1 : Received(n)[i - 1] = sent[Upto + i]
  <2>1. \A k \in 0 .. buf_len + n - 1 : Received(n)[k] = sent[Upto + 1 + k]
    BY ReceivedIsStream
  <2> QED BY <1>1, <2>1
<1> HIDE DEF part
<1> QED BY <1>2, <1>3, <1>4 DEF Prefix, part

-----------------------------------------------------------------------------
(* The invariant *)

LEMMA FramingInvInit == Init => FramingInv
BY BufferAssumption, BytesAssumption
   DEF Init, FramingInv, TypeOK, BufferHoldsOpenLine, Upto

LEMMA WriteStep == FramingInv /\ Write => FramingInv'
<1> SUFFICES ASSUME FramingInv, Write PROVE FramingInv'
  OBVIOUS
<1> USE DEF FramingInv, TypeOK, Write
<1> PICK b \in Byte : sent' = Append(sent, b)
  OBVIOUS
<1>1. /\ sent' \in Seq(Byte)
      /\ Len(sent') = Len(sent) + 1
      /\ \A i \in 1 .. Len(sent) : sent'[i] = sent[i]
  BY AppendProperties
<1>2. TypeOK'
  BY <1>1, LenProperties
<1>3. BufferHoldsOpenLine'
  <2> SUFFICES ASSUME open
               PROVE  \A i \in 0 .. buf_len - 1 :
                          user_buf[i] = sent'[Upto + 1 + i]
    BY DEF BufferHoldsOpenLine, Upto
  <2> TAKE i \in 0 .. buf_len - 1
  <2>1. user_buf[i] = sent[Upto + 1 + i]
    BY DEF BufferHoldsOpenLine
  <2>2. Upto + 1 + i \in 1 .. Len(sent)
    BY LenProperties DEF BufferHoldsOpenLine, Upto
  <2> QED BY <1>1, <2>1, <2>2
<1> QED BY <1>2, <1>3

\* The string passed on is a string of bytes.
LEMMA BatchType ==
    ASSUME FramingInv, open, NEW n \in RecvResults,
           NEW last \in Newlines(Received(n))
    PROVE  Append(handed, Prefix(Received(n), last + 1)) \in Seq(Seq(Byte))
<1> DEFINE msg == Prefix(Received(n), last + 1)
<1>1. /\ last \in 0 .. BUF_SIZE - 1
      /\ Received(n) \in [0 .. BUF_SIZE -> Byte]
  <2> DEFINE total_len == buf_len + n
  <2>1. last \in 0 .. total_len - 1
    <3>1. n \in Nat /\ buf_len \in Nat
      BY ReceivedIsStream, BufferAssumption DEF FramingInv, TypeOK
    <3>2. last \in 0 .. buf_len + n - 1
      BY NewlineWithin
    <3>3. buf_len + n - 1 = total_len - 1
      BY <3>1
    <3> QED BY <3>2, <3>3
  <2>2. total_len \in 1 .. BUF_SIZE
    BY ReceivedIsStream
  <2>3. Received(n) \in [0 .. BUF_SIZE -> Byte]
    BY ReceivedIsStream
  <2> HIDE DEF total_len
  <2> QED BY <2>1, <2>2, <2>3, BufferAssumption
<1>2. msg = [i \in 1 .. last + 1 |-> Received(n)[i - 1]]
  BY DEF Prefix
<1>3. \A i \in 1 .. last + 1 : Received(n)[i - 1] \in Byte
  BY <1>1, BufferAssumption
<1>4. msg \in Seq(Byte)
  BY <1>1, <1>2, <1>3, IsASeq
<1> HIDE DEF msg
<1> QED BY <1>4, AppendProperties DEF FramingInv, TypeOK, msg

\* One lemma for each way in which a batch ends.
LEMMA KeepAllStep ==
    ASSUME FramingInv, open, NEW n \in RecvResults,
           Newlines(Received(n)) = {},
           KeepAll(Received(n), buf_len + n),
           nread' = nread + n, UNCHANGED <<sent, peer>>
    PROVE  FramingInv'
<1> DEFINE buf == Received(n)
<1>1. /\ user_buf' = buf /\ buf_len' = buf_len + n
      /\ UNCHANGED <<open, handed>>
  BY DEF KeepAll
<1>2. /\ n \in Nat \ {0} /\ buf_len \in Nat
      /\ buf_len + n \in 1 .. BUF_SIZE
      /\ nread + n \in 0 .. Len(sent)
      /\ buf \in [0 .. BUF_SIZE -> Byte]
      /\ \A i \in 0 .. buf_len + n - 1 : buf[i] = sent[Upto + 1 + i]
  BY ReceivedIsStream, BufferAssumption DEF FramingInv, TypeOK
<1>3. \A j \in 0 .. BUF_SIZE : buf[j] = LF => \E i \in 0 .. j : buf[i] = NUL
  BY DEF Newlines
<1> HIDE DEF buf
<1>4. TypeOK'
  BY <1>1, <1>2, BufferAssumption DEF FramingInv, TypeOK
<1>5. Upto' = Upto /\ Upto \in Nat
  BY <1>1, <1>2, BufferAssumption
     DEF Upto, FramingInv, TypeOK, BufferHoldsOpenLine
<1>6. \A i \in 0 .. buf_len' - 1 : user_buf'[i] = sent'[Upto' + 1 + i]
  BY <1>1, <1>2, <1>5
<1>7. \A j \in 0 .. buf_len' - 1 :
         user_buf'[j] = LF => \E i \in 0 .. j : user_buf'[i] = NUL
  <2>1. \A j \in 0 .. buf_len' - 1 : j \in 0 .. BUF_SIZE
    BY <1>1, <1>2, BufferAssumption
  <2> QED BY <1>1, <1>3, <2>1
<1>8. BufferHoldsOpenLine'
  BY <1>5, <1>6, <1>7 DEF BufferHoldsOpenLine
<1> QED BY <1>4, <1>8 DEF FramingInv

\* The three things that can be done with a buffer once its lines are handled:
\* both copies of the test come to them.
LEMMA LinesEnd ==
    ASSUME NEW buf, NEW total_len, NEW last \in Nat,
           HandleLines(buf, last, total_len)
    PROVE  \/ Disconnect(buf, total_len)
           \/ buf[last + 1] = NUL /\ ClearBuffer(buf)
           \/ KeepRest(buf, last + 1, total_len)
<1>1. Len(Prefix(buf, last + 1)) = last + 1
  BY DEF Prefix
<1> QED
  BY <1>1 DEF HandleLines, EndWhole, EndFragmented

LEMMA HandleLinesStep ==
    ASSUME FramingInv, open, NEW n \in RecvResults,
           NEW last \in Newlines(Received(n)),
           IsLastNewline(last, Received(n)),
           HandleLines(Received(n), last, buf_len + n),
           nread' = nread + n, UNCHANGED <<sent, peer>>
    PROVE  FramingInv'
<1> DEFINE buf == Received(n)
           total_len == buf_len + n
           msg == Prefix(buf, last + 1)
<1>1. handed' \in Seq(Seq(Byte))
  BY BatchType DEF HandleLines
<1>2. /\ n \in Nat \ {0} /\ buf_len \in Nat /\ nread \in Nat
      /\ Upto = nread - buf_len /\ Upto \in Nat
      /\ total_len \in 1 .. BUF_SIZE
      /\ nread + n \in 0 .. Len(sent)
      /\ buf \in [0 .. BUF_SIZE -> Byte]
      /\ \A i \in 0 .. total_len - 1 : buf[i] = sent[Upto + 1 + i]
  BY ReceivedIsStream, BufferAssumption
     DEF FramingInv, TypeOK, BufferHoldsOpenLine, Upto
<1>3. last \in 0 .. total_len - 1
  <2>1. /\ last \in 0 .. BUF_SIZE
        /\ Upto + last + 1 <= nread + n
    BY BatchIsStream, BufferAssumption DEF Newlines
  <2> QED BY <1>2, <2>1, BufferAssumption
<1>4. \A j \in last + 1 .. BUF_SIZE :
         buf[j] = LF => \E i \in last + 1 .. j : buf[i] = NUL
  <2> TAKE j \in last + 1 .. BUF_SIZE
  <2> HAVE buf[j] = LF
  <2>1. j \notin Newlines(buf)
    BY <1>2, <1>3 DEF IsLastNewline
  <2>2. PICK i \in 0 .. j : buf[i] = NUL
    BY <1>2, <1>3, <2>1, BufferAssumption DEF Newlines
  <2>3. \A k \in 0 .. last : buf[k] # NUL
    BY NewlineWithin
  <2> QED BY <1>2, <1>3, <2>2, <2>3
<1>5. \/ Disconnect(buf, total_len)
      \/ ClearBuffer(buf)
      \/ KeepRest(buf, last + 1, total_len)
  BY <1>3, LinesEnd
<1> HIDE DEF buf, total_len, msg
<1> USE BufferAssumption, BytesAssumption DEF FramingInv, TypeOK
<1>6. CASE Disconnect(buf, total_len)
  <2>1. user_buf' = buf /\ buf_len' = total_len /\ open' = FALSE
    BY <1>6 DEF Disconnect
  <2>2. open' \in BOOLEAN
    BY <2>1, Zenon
  <2>3. TypeOK'
    BY <1>1, <1>2, <2>1, <2>2
  <2> QED BY <2>1, <2>3 DEF BufferHoldsOpenLine
<1>7. CASE ClearBuffer(buf)
  <2>1. /\ buf_len' = 0 /\ open' = open
        /\ user_buf' \in [0 .. BUF_SIZE -> Byte]
    BY <1>2, <1>7 DEF ClearBuffer
  <2> QED BY <1>1, <1>2, <2>1 DEF BufferHoldsOpenLine, Upto
<1>8. CASE KeepRest(buf, last + 1, total_len)
  <2> DEFINE remaining == total_len - (last + 1)
  <2>1. /\ buf_len' = remaining /\ open' = open
        /\ user_buf' = [i \in 0 .. BUF_SIZE |->
                           IF i < remaining THEN buf[i + last + 1] ELSE buf[i]]
    BY <1>2, <1>3, <1>8 DEF KeepRest
  <2>2. remaining \in 0 .. BUF_SIZE
    BY <1>2, <1>3
  <2>3. user_buf' \in [0 .. BUF_SIZE -> Byte]
    BY <1>2, <1>3, <2>1, <2>2
  <2>4. Upto' = Upto + last + 1
    BY <1>2, <1>3, <2>1 DEF Upto, total_len
  <2>5. \A i \in 0 .. remaining - 1 :
           /\ user_buf'[i] = buf[i + last + 1]
           /\ i + last + 1 \in last + 1 .. total_len - 1
    BY <1>2, <1>3, <2>1, <2>2
  <2> HIDE DEF remaining
  <2>6. \A i \in 0 .. remaining - 1 : user_buf'[i] = sent'[Upto' + 1 + i]
    <3> TAKE i \in 0 .. remaining - 1
    <3> HIDE DEF FramingInv, TypeOK
    <3>0. last \in Nat /\ total_len \in Nat
      BY <1>2, <1>3
    <3>1. i + last + 1 \in 0 .. total_len - 1
      BY <2>5, <3>0
    <3>2. \A k \in 0 .. total_len - 1 : buf[k] = sent[Upto + 1 + k]
      BY <1>2
    <3>3. Upto + 1 + (i + last + 1) = Upto' + 1 + i
      BY <1>2, <1>3, <2>2, <2>4
    <3> QED BY <2>5, <3>1, <3>2, <3>3
  <2>7. ASSUME NEW j \in 0 .. remaining - 1, user_buf'[j] = LF
        PROVE  \E i \in 0 .. j : user_buf'[i] = NUL
    <3>1. /\ buf[j + last + 1] = LF
          /\ j + last + 1 \in last + 1 .. BUF_SIZE
      <4> HIDE DEF FramingInv, TypeOK
      <4>1. last \in Nat /\ total_len \in 0 .. BUF_SIZE
        BY <1>2, <1>3
      <4>2. buf[j + last + 1] = LF /\ j + last + 1 \in last + 1 .. total_len - 1
        BY <2>5, <2>7
      <4> QED BY <4>1, <4>2
    <3>2. PICK k \in last + 1 .. j + last + 1 : buf[k] = NUL
      BY <1>4, <3>1
    <3>3. /\ k - (last + 1) \in 0 .. j
          /\ user_buf'[k - (last + 1)] = buf[k]
      <4> DEFINE i == k - (last + 1)
      <4> HIDE DEF FramingInv, TypeOK
      <4>1. last \in Nat /\ remaining \in Nat
        BY <1>2, <1>3, <2>2
      <4>2. i \in 0 .. j /\ i \in 0 .. remaining - 1 /\ i + last + 1 = k
        BY <3>2, <4>1
      <4> HIDE DEF i
      <4>3. user_buf'[i] = buf[k]
        BY <2>5, <4>2
      <4> QED BY <4>2, <4>3 DEF i
    <3> QED BY <3>2, <3>3
  <2>8. TypeOK'
    BY <1>1, <1>2, <2>1, <2>2, <2>3
  <2>9. BufferHoldsOpenLine'
    <3>1. buf_len' = remaining /\ Upto' >= 0
      BY <1>2, <1>3, <2>1, <2>4
    <3> HIDE DEF FramingInv, TypeOK
    <3> QED BY <2>6, <2>7, <3>1 DEF BufferHoldsOpenLine
  <2> QED BY <2>8, <2>9
<1> QED BY <1>5, <1>6, <1>7, <1>8

LEMMA FramingInvStep == FramingInv /\ [Next]_vars => FramingInv'
<1> SUFFICES ASSUME FramingInv, [Next]_vars PROVE FramingInv'
  OBVIOUS
<1>1. CASE Write
  BY <1>1, WriteStep
<1>2. CASE Leave
  BY <1>2 DEF Leave, FramingInv, TypeOK, BufferHoldsOpenLine, Upto
<1>3. CASE handle_client_data /\ HangUp
  BY <1>3 DEF HangUp, FramingInv, TypeOK, BufferHoldsOpenLine
<1>4. CASE handle_client_data /\ \E n \in RecvResults : Receive(n)
  <2>1. open
    BY <1>4 DEF handle_client_data
  <2>2. PICK n \in RecvResults : Receive(n)
    BY <1>4
  <2>3. nread' = nread + n /\ UNCHANGED <<sent, peer>>
    BY <2>2 DEF Receive
  <2>4. CASE Newlines(Received(n)) = {} /\ KeepAll(Received(n), buf_len + n)
    BY <2>1, <2>3, <2>4, KeepAllStep
  <2>5. CASE \E last \in Newlines(Received(n)) :
                /\ IsLastNewline(last, Received(n))
                /\ HandleLines(Received(n), last, buf_len + n)
    BY <2>1, <2>3, <2>5, HandleLinesStep
  <2> QED BY <2>2, <2>4, <2>5 DEF Receive
<1>5. CASE UNCHANGED vars
  BY <1>5 DEF vars, FramingInv, TypeOK, BufferHoldsOpenLine, Upto
<1> QED BY <1>1, <1>2, <1>3, <1>4, <1>5 DEF Next, handle_client_data

\* The buffer is never overrun and the counters stay in their ranges, whatever
\* handle_client_data receives.
THEOREM FramingTypeCorrect == Spec => []TypeOK
<1>1. FramingInv => TypeOK
  BY DEF FramingInv
<1> QED BY <1>1, FramingInvInit, FramingInvStep, PTL DEF Spec

\* user_buf holds the stream from the first byte not handled on, without a
\* complete line in it.
THEOREM BufferCorrect == Spec => []BufferHoldsOpenLine
<1>1. FramingInv => BufferHoldsOpenLine
  BY DEF FramingInv
<1> QED BY <1>1, FramingInvInit, FramingInvStep, PTL DEF Spec

-----------------------------------------------------------------------------
(* Each step of the connection is a step of the stream of lines.            *)

\* A newline that ends a visible line beyond the bytes handled is not among
\* those in user_buf: it has not been received, or a NUL precedes it.
LEMMA NoLineEndInBuffer ==
    ASSUME FramingInv, open, NEW j \in Stream!LineEnds
    PROVE  j \in nread + 1 .. Len(sent)
<1>1. /\ buf_len \in Nat /\ nread \in Nat /\ Len(sent) \in Nat
      /\ nread <= Len(sent)
      /\ Upto = nread - buf_len /\ Upto \in Nat
  BY BufferAssumption DEF FramingInv, TypeOK, BufferHoldsOpenLine, Upto
<1>2. /\ j \in Upto + 1 .. Len(sent)
      /\ sent[j] = LF
      /\ \A i \in Upto + 1 .. j : sent[i] # NUL
  BY DEF Stream!LineEnds
<1>3. ASSUME j <= nread
      PROVE  FALSE
  <2> DEFINE k == j - Upto - 1
  <2>1. k \in 0 .. buf_len - 1 /\ Upto + 1 + k = j
    BY <1>1, <1>2, <1>3
  <2>2. \A i \in 0 .. buf_len - 1 : user_buf[i] = sent[Upto + 1 + i]
    BY DEF FramingInv, BufferHoldsOpenLine
  <2>3. user_buf[k] = LF
    BY <1>2, <2>1, <2>2
  <2>4. PICK i \in 0 .. k : user_buf[i] = NUL
    BY <2>1, <2>3 DEF FramingInv, BufferHoldsOpenLine
  <2> HIDE DEF k
  <2>5. Upto + 1 + i \in Upto + 1 .. j /\ i \in 0 .. buf_len - 1
    BY <1>1, <1>2, <2>1
  <2> QED BY <1>2, <2>2, <2>4, <2>5
<1> QED BY <1>1, <1>2, <1>3

LEMMA HangUpCloses == FramingInv /\ handle_client_data /\ HangUp => Stream!Close
<1> SUFFICES ASSUME FramingInv, handle_client_data, HangUp
             PROVE  Stream!Close
  OBVIOUS
<1>1. open /\ open' = FALSE /\ UNCHANGED <<sent, peer, handed>> /\ Upto' = Upto
  BY DEF handle_client_data, HangUp, Upto
<1>2. /\ buf_len \in Nat /\ nread \in Nat /\ Len(sent) \in Nat
      /\ nread <= Len(sent) /\ Upto = nread - buf_len /\ Upto \in Nat
      /\ peer \in {"writing", "closed", "reset"}
  BY <1>1, BufferAssumption DEF FramingInv, TypeOK, BufferHoldsOpenLine, Upto
<1>3. \A j \in Stream!LineEnds : j \in nread + 1 .. Len(sent)
  BY <1>1, NoLineEndInBuffer
<1>4. CASE Room = 0
  <2>1. buf_len = BUF_SIZE
    BY <1>2, <1>4, BufferAssumption DEF Room
  <2>2. Stream!LineTooLong
    BY <1>2, <1>3, <2>1, BufferAssumption DEF Stream!LineTooLong
  <2> QED BY <1>1, <2>2 DEF Stream!Close
<1>5. CASE nread = Len(sent) /\ peer # "writing"
  <2>1. Stream!LineEnds = {}
    BY <1>2, <1>3, <1>5
  <2> QED BY <1>1, <1>2, <1>5, <2>1 DEF Stream!Close
<1>6. CASE peer = "reset"
  BY <1>1, <1>6 DEF Stream!Close
<1> QED BY <1>4, <1>5, <1>6 DEF HangUp, RecvFails

LEMMA HandleLinesHandsOver ==
    ASSUME FramingInv, open, NEW n \in RecvResults,
           NEW last \in Newlines(Received(n)),
           HandleLines(Received(n), last, buf_len + n),
           nread' = nread + n, UNCHANGED <<sent, peer>>
    PROVE  \E j \in 1 .. Len(sent) : \E k \in j .. Len(sent) :
               Stream!HandOver(j, k)
<1> DEFINE buf == Received(n)
           total_len == buf_len + n
           j == Upto + last + 1
<1>1. /\ n \in Nat \ {0} /\ buf_len \in Nat /\ nread \in Nat
      /\ Upto = nread - buf_len /\ Upto \in Nat
      /\ nread + n \in 0 .. Len(sent) /\ Len(sent) \in Nat
      /\ last \in 0 .. BUF_SIZE /\ BUF_SIZE \in Nat
      /\ total_len \in 1 .. BUF_SIZE
      /\ buf[total_len] = NUL
  BY ReceivedIsStream, BufferAssumption
     DEF FramingInv, TypeOK, BufferHoldsOpenLine, Upto, Newlines
<1>2. \A i \in 0 .. total_len - 1 : buf[i] = sent[Upto + 1 + i]
  BY ReceivedIsStream, BufferAssumption DEF FramingInv, TypeOK
<1>3. buf[last] = LF /\ \A k \in 0 .. last : buf[k] # NUL
  BY DEF Newlines
<1>4. /\ j \in Upto + 1 .. nread + n
      /\ Prefix(buf, last + 1) = SubSeq(sent, Upto + 1, j)
  BY BatchIsStream
<1>5. last \in 0 .. total_len - 1
  BY <1>1, <1>4
<1>6. handed' = Append(handed, SubSeq(sent, Upto + 1, j))
  BY <1>4 DEF HandleLines
<1>7. \/ Disconnect(buf, total_len)
      \/ buf[last + 1] = NUL /\ ClearBuffer(buf)
      \/ KeepRest(buf, last + 1, total_len)
  <2>1. last \in Nat
    BY <1>1
  <2>2. HandleLines(buf, last, total_len)
    OBVIOUS
  <2> HIDE DEF buf, total_len
  <2> QED
    BY <2>1, <2>2, LinesEnd
<1> HIDE DEF buf, total_len
<1>8. j \in Stream!LineEnds
  <2>1. j \in Upto + 1 .. Len(sent)
    BY <1>1, <1>4
  <2>2. sent[j] = LF
    <3>1. Upto + 1 + last = j
      BY <1>1
    <3> QED BY <1>2, <1>3, <1>5, <3>1
  <2>3. ASSUME NEW i \in Upto + 1 .. j
        PROVE  sent[i] # NUL
    <3>1. /\ i - Upto - 1 \in 0 .. last
          /\ i - Upto - 1 \in 0 .. total_len - 1
          /\ Upto + 1 + (i - Upto - 1) = i
      BY <1>1, <1>5
    <3> QED BY <1>2, <1>3, <3>1
  <2> HIDE DEF j
  <2> QED BY <2>1, <2>2, <2>3 DEF Stream!LineEnds
<1>9. j \in 1 .. Len(sent) /\ j <= Upto + BUF_SIZE
  BY <1>1, <1>4, <1>5
<1>10. SUFFICES ASSUME NEW k \in j .. Len(sent),
                       k = j \/ sent[j + 1] = NUL,
                       \/ Upto' = k /\ UNCHANGED open
                       \/ open' = FALSE /\ UNCHANGED Upto
                PROVE  Stream!HandOver(j, k)
  <2>1. CASE Disconnect(buf, total_len)
    <3>1. open' = FALSE /\ Upto' = Upto
      BY <1>1, <2>1 DEF Disconnect, Upto, total_len
    <3>2. j \in j .. Len(sent)
      BY <1>9
    <3> HIDE DEF j
    <3> QED BY <1>9, <3>1, <3>2
  <2>2. CASE buf[last + 1] = NUL /\ ClearBuffer(buf)
    <3> DEFINE k == nread + n
    <3>1. Upto' = k /\ UNCHANGED open
      BY <1>1, <2>2 DEF ClearBuffer, Upto
    <3>2. k \in j .. Len(sent)
      BY <1>1, <1>4
    <3>3. k = j \/ sent[j + 1] = NUL
      <4>1. CASE last + 1 = total_len
        BY <1>1, <4>1 DEF total_len
      <4>2. CASE last + 1 # total_len
        <5>1. last + 1 \in 0 .. total_len - 1 /\ Upto + 1 + (last + 1) = j + 1
          BY <1>1, <1>5, <4>2
        <5> QED BY <1>2, <2>2, <5>1
      <4> QED BY <4>1, <4>2
    <3> HIDE DEF k, j
    <3> QED BY <1>9, <3>1, <3>2, <3>3
  <2>3. CASE KeepRest(buf, last + 1, total_len)
    <3>1. Upto' = j /\ UNCHANGED open
      BY <1>1, <2>3 DEF KeepRest, Upto, total_len
    <3>2. j \in j .. Len(sent)
      BY <1>9
    <3> HIDE DEF j
    <3> QED BY <1>9, <3>1, <3>2
  <2> QED BY <1>7, <2>1, <2>2, <2>3
<1> HIDE DEF j
<1> QED BY <1>6, <1>8, <1>9, <1>10 DEF Stream!HandOver

LEMMA StreamStep ==
    FramingInv /\ [Next]_vars => [Stream!StreamNext]_(Stream!streamVars)
<1> SUFFICES ASSUME FramingInv, [Next]_vars
             PROVE  [Stream!StreamNext]_(Stream!streamVars)
  OBVIOUS
<1>1. CASE Write
  BY <1>1 DEF Write, Upto, Stream!StreamNext, Stream!Write
<1>2. CASE Leave
  BY <1>2 DEF Leave, Upto, Stream!StreamNext, Stream!Leave
<1>3. CASE handle_client_data /\ HangUp
  BY <1>3, HangUpCloses DEF Stream!StreamNext
<1>4. CASE handle_client_data /\ \E n \in RecvResults : Receive(n)
  <2>1. open
    BY <1>4 DEF handle_client_data
  <2>2. PICK n \in RecvResults : Receive(n)
    BY <1>4
  <2>3. nread' = nread + n /\ UNCHANGED <<sent, peer>>
    BY <2>2 DEF Receive
  <2>4. CASE KeepAll(Received(n), buf_len + n)
    <3>1. n \in Nat /\ buf_len \in Nat /\ nread \in Nat
      BY <2>1, ReceivedIsStream, BufferAssumption DEF FramingInv, TypeOK
    <3>2. buf_len' = buf_len + n
      BY <2>4 DEF KeepAll
    <3>3. Upto' = Upto
      BY <2>3, <3>1, <3>2 DEF Upto
    <3> QED BY <2>3, <2>4, <3>3 DEF KeepAll, Stream!streamVars
  <2>5. CASE \E last \in Newlines(Received(n)) :
                /\ IsLastNewline(last, Received(n))
                /\ HandleLines(Received(n), last, buf_len + n)
    BY <2>1, <2>3, <2>5, HandleLinesHandsOver DEF Stream!StreamNext
  <2> QED BY <2>2, <2>4, <2>5 DEF Receive
<1>5. CASE UNCHANGED vars
  BY <1>5 DEF vars, Upto, Stream!streamVars
<1> QED BY <1>1, <1>2, <1>3, <1>4, <1>5 DEF Next, handle_client_data

\* handle_client_data implements the stream of lines: what it hands over is what
\* the client wrote, in order and without a gap, whatever the sizes of the reads;
\* and it closes the connection only for the reasons LineStream gives.
THEOREM FramingImplementsStream == Spec => ImplementsLineStream
<1>1. Init => Stream!StreamInit
  BY DEF Init, Stream!StreamInit, Upto
<1> QED BY <1>1, FramingInvInit, FramingInvStep, StreamStep, PTL
        DEF Spec, ImplementsLineStream, Stream!StreamSpec


-----------------------------------------------------------------------------
(* What strtok_r does to a string, and to two strings one behind the other. *)

\* A line of s lies from i to j.
Span(s, i, j) ==
    /\ i \in 1 .. Len(s) /\ j \in i .. Len(s)
    /\ \A k \in i .. j : ~IsDelimiter(s[k])
    /\ i = 1 \/ IsDelimiter(s[i - 1])
    /\ j = Len(s) \/ IsDelimiter(s[j + 1])

LEMMA SpanMembers ==
    ASSUME NEW s \in Seq(Byte)
    PROVE  /\ LineSpans(s) \in SUBSET (Nat \X Nat)
           /\ \A i, j \in Nat : <<i, j>> \in LineSpans(s) <=> Span(s, i, j)
<1> DEFINE N == 1 .. Len(s)
           Line(i, j) == /\ i <= j
                         /\ \A k \in i .. j : s[k] \notin {CR, LF}
                         /\ i = 1 \/ s[i - 1] \in {CR, LF}
                         /\ j = Len(s) \/ s[j + 1] \in {CR, LF}
<1>1. Len(s) \in Nat
  OBVIOUS
<1>2. LineSpans(s) = {p \in N \X N : Line(p[1], p[2])}
  BY DEF LineSpans
<1>3. ASSUME NEW i \in Nat, NEW j \in Nat
      PROVE  Span(s, i, j) <=> i \in N /\ j \in N /\ Line(i, j)
  BY <1>1 DEF Span, IsDelimiter
<1>4. N \in SUBSET Nat
  BY <1>1
<1> HIDE DEF N, Line
<1>5. ASSUME NEW i \in Nat, NEW j \in Nat
      PROVE  <<i, j>> \in LineSpans(s) <=> Span(s, i, j)
  BY <1>2, <1>3
<1> QED
  BY <1>2, <1>4, <1>5

\* at says where in s the lines are.
Places(at, lines, s, spans) ==
    /\ at \in [DOMAIN lines -> spans]
    /\ \A p \in spans : \E k \in DOMAIN lines : at[k] = p
    /\ \A k, l \in DOMAIN lines : k < l => at[k][1] < at[l][1]
    /\ \A k \in DOMAIN lines : lines[k] = SubSeq(s, at[k][1], at[k][2])

LEMMA TextsPlaced ==
    ASSUME NEW lines, NEW s, NEW spans
    PROVE  AreTexts(lines, s, spans) <=> \E at : Places(at, lines, s, spans)
<1>1. ASSUME NEW at \in [DOMAIN lines -> spans]
      PROVE  Range(at) = spans
                <=> \A p \in spans : \E k \in DOMAIN lines : at[k] = p
  BY DEF Range
<1> QED
  BY <1>1 DEF AreTexts, Places

\* The lines of two parts of s, the second behind the first.
LEMMA Joined ==
    ASSUME NEW s, NEW S1 \in SUBSET (Nat \X Nat), NEW S2 \in SUBSET (Nat \X Nat),
           NEW l1 \in Seq(Seq(Byte)), NEW l2 \in Seq(Seq(Byte)),
           AreTexts(l1, s, S1), AreTexts(l2, s, S2),
           \A p \in S1, q \in S2 : p[1] < q[1]
    PROVE  AreTexts(l1 \o l2, s, S1 \cup S2)
<1>1. PICK at1 : Places(at1, l1, s, S1)
  BY TextsPlaced
<1>2. PICK at2 : Places(at2, l2, s, S2)
  BY TextsPlaced
<1> DEFINE n == Len(l1)
           m == Len(l2)
           lines == l1 \o l2
           at == [k \in 1 .. n + m |-> IF k <= n THEN at1[k] ELSE at2[k - n]]
<1>3. /\ n \in Nat /\ m \in Nat
      /\ DOMAIN l1 = 1 .. n /\ DOMAIN l2 = 1 .. m /\ DOMAIN lines = 1 .. n + m
      /\ \A k \in 1 .. n : lines[k] = l1[k]
      /\ \A k \in 1 .. m : lines[n + k] = l2[k]
  OBVIOUS
<1>4. /\ \A k \in 1 .. n : k \in 1 .. n + m /\ at[k] = at1[k]
      /\ \A k \in 1 .. m : n + k \in 1 .. n + m /\ at[n + k] = at2[k]
      /\ \A k \in 1 .. n + m :
            k \in 1 .. n \/ (k - n \in 1 .. m /\ k = n + (k - n))
  BY <1>3
<1>5. DOMAIN at = 1 .. n + m /\ at = [k \in 1 .. n + m |-> at[k]]
  OBVIOUS
<1>6. /\ \A k \in 1 .. n : at1[k] \in S1
      /\ \A k \in 1 .. m : at2[k] \in S2
  BY <1>1, <1>2, <1>3 DEF Places
<1> HIDE DEF n, m, lines, at
<1>7. at \in [DOMAIN lines -> S1 \cup S2]
  <2>1. \A k \in 1 .. n + m : at[k] \in S1 \cup S2
    BY <1>4, <1>6
  <2> QED
    BY <1>3, <1>5, <2>1
<1>8. \A p \in S1 \cup S2 : \E k \in DOMAIN lines : at[k] = p
  <2>1. ASSUME NEW p \in S1 PROVE \E k \in DOMAIN lines : at[k] = p
    <3>1. PICK k \in 1 .. n : at1[k] = p
      BY <1>1, <1>3 DEF Places
    <3> QED
      BY <1>3, <1>4, <3>1
  <2>2. ASSUME NEW p \in S2 PROVE \E k \in DOMAIN lines : at[k] = p
    <3>1. PICK k \in 1 .. m : at2[k] = p
      BY <1>2, <1>3 DEF Places
    <3> QED
      BY <1>3, <1>4, <3>1
  <2> QED
    BY <2>1, <2>2
<1>9. ASSUME NEW k \in 1 .. n + m, NEW l \in 1 .. n + m, k < l
      PROVE  at[k][1] < at[l][1]
  <2>1. CASE k \in 1 .. n /\ l \in 1 .. n
    <3>1. at[k] = at1[k] /\ at[l] = at1[l]
      BY <1>4, <2>1
    <3>2. at1[k][1] < at1[l][1]
      BY <1>1, <1>3, <1>9, <2>1 DEF Places
    <3> QED
      BY <3>1, <3>2
  <2>2. CASE k \in 1 .. n /\ l - n \in 1 .. m
    <3>1. at[k] = at1[k] /\ at[l] = at2[l - n]
      BY <1>3, <1>4, <2>2
    <3>2. at1[k] \in S1 /\ at2[l - n] \in S2
      BY <1>6, <2>2
    <3> QED
      BY <3>1, <3>2
  <2>3. CASE k - n \in 1 .. m /\ l - n \in 1 .. m
    <3>1. at[k] = at2[k - n] /\ at[l] = at2[l - n] /\ k - n < l - n
      BY <1>3, <1>4, <1>9, <2>3
    <3>2. at2[k - n][1] < at2[l - n][1]
      BY <1>2, <1>3, <2>3, <3>1 DEF Places
    <3> QED
      BY <3>1, <3>2
  <2>4. ~(k - n \in 1 .. m /\ l \in 1 .. n)
    BY <1>3, <1>9
  <2> QED
    BY <1>4, <2>1, <2>2, <2>3, <2>4
<1>10. ASSUME NEW k \in 1 .. n + m
       PROVE  lines[k] = SubSeq(s, at[k][1], at[k][2])
  <2>1. CASE k \in 1 .. n
    BY <1>1, <1>3, <1>4, <2>1 DEF Places
  <2>2. CASE k - n \in 1 .. m
    <3>1. at[k] = at2[k - n] /\ lines[k] = l2[k - n]
      BY <1>3, <1>4, <2>2
    <3> QED
      BY <1>2, <1>3, <2>2, <3>1 DEF Places
  <2> QED
    BY <1>4, <2>1, <2>2
<1>11. Places(at, lines, s, S1 \cup S2)
  BY <1>3, <1>7, <1>8, <1>9, <1>10 DEF Places
<1>12. \E a : Places(a, lines, s, S1 \cup S2)
  BY <1>11
<1> QED
  BY <1>12, TextsPlaced DEF lines

Shift(S, n) == {<<p[1] + n, p[2] + n>> : p \in S}

\* The lines found at these places of s are found n places further on in t.
LEMMA Shifted ==
    ASSUME NEW s, NEW t, NEW n \in Nat, NEW S \in SUBSET (Nat \X Nat),
           NEW lines \in Seq(Seq(Byte)), AreTexts(lines, s, S),
           \A p \in S :
               SubSeq(s, p[1], p[2]) = SubSeq(t, p[1] + n, p[2] + n)
    PROVE  AreTexts(lines, t, Shift(S, n))
<1>1. PICK at1 : Places(at1, lines, s, S)
  BY TextsPlaced
<1> DEFINE at == [k \in DOMAIN lines |-> <<at1[k][1] + n, at1[k][2] + n>>]
<1>2. ASSUME NEW k \in DOMAIN lines
      PROVE  /\ at1[k] \in S
             /\ at[k] \in Shift(S, n)
             /\ at[k][1] = at1[k][1] + n /\ at[k][2] = at1[k][2] + n
             /\ at1[k][1] \in Nat
  BY <1>1 DEF Places, Shift
<1>3. at \in [DOMAIN lines -> Shift(S, n)]
  BY <1>2
<1>4. ASSUME NEW p \in Shift(S, n) PROVE \E k \in DOMAIN lines : at[k] = p
  <2>1. PICK q \in S : p = <<q[1] + n, q[2] + n>>
    BY DEF Shift
  <2>2. PICK k \in DOMAIN lines : at1[k] = q
    BY <1>1 DEF Places
  <2> QED
    BY <2>1, <2>2
<1> HIDE DEF at
<1>5. ASSUME NEW k \in DOMAIN lines, NEW l \in DOMAIN lines, k < l
      PROVE  at[k][1] < at[l][1]
  <2>1. at1[k][1] < at1[l][1]
    BY <1>1, <1>5 DEF Places
  <2>2. at[k][1] = at1[k][1] + n /\ at[l][1] = at1[l][1] + n
    BY <1>2
  <2>3. at1[k][1] \in Nat /\ at1[l][1] \in Nat
    BY <1>2
  <2>4. \A a, b \in Nat : a < b => a + n < b + n
    OBVIOUS
  <2>5. at1[k][1] + n < at1[l][1] + n
    BY <2>1, <2>3, <2>4
  <2> QED
    BY <2>2, <2>5
<1>6. ASSUME NEW k \in DOMAIN lines
      PROVE  lines[k] = SubSeq(t, at[k][1], at[k][2])
  <2>1. lines[k] = SubSeq(s, at1[k][1], at1[k][2])
    BY <1>1 DEF Places
  <2> QED
    BY <1>2, <2>1
<1>7. Places(at, lines, t, Shift(S, n))
  BY <1>3, <1>4, <1>5, <1>6 DEF Places
<1> QED
  BY <1>7, TextsPlaced

\* A string that ends where a line ends is cut there, whatever follows.
Closed(s) == s = <<>> \/ IsDelimiter(s[Len(s)])

LEMMA SpansOfConcat ==
    ASSUME NEW s1 \in Seq(Byte), NEW s2 \in Seq(Byte), Closed(s1)
    PROVE  LineSpans(s1 \o s2) = LineSpans(s1) \cup Shift(LineSpans(s2), Len(s1))
<1> DEFINE n == Len(s1)
           m == Len(s2)
           t == s1 \o s2
<1>1. /\ n \in Nat /\ m \in Nat /\ t \in Seq(Byte) /\ Len(t) = n + m
      /\ \A i \in 1 .. n : t[i] = s1[i]
      /\ \A i \in 1 .. m : t[n + i] = s2[i]
      /\ n = 0 \/ IsDelimiter(s1[n])
  BY DEF Closed
<1> HIDE DEF n, m, t
<1>2. ASSUME NEW i \in Nat, NEW j \in Nat, Span(s1, i, j)
      PROVE  Span(t, i, j)
  <2>1. /\ i \in 1 .. n /\ j \in i .. n
        /\ \A k \in i .. j : ~IsDelimiter(s1[k])
        /\ i = 1 \/ IsDelimiter(s1[i - 1])
        /\ j = n \/ IsDelimiter(s1[j + 1])
    BY <1>2 DEF Span, n
  <2>2. j # n
    BY <1>1, <2>1
  <2>3. \A k \in i .. j : k \in 1 .. n
    BY <1>1, <2>1
  <2>4. i = 1 \/ i - 1 \in 1 .. n
    BY <1>1, <2>1
  <2>5. j + 1 \in 1 .. n
    BY <1>1, <2>1, <2>2
  <2>6. /\ i \in 1 .. Len(t) /\ j \in i .. Len(t)
    BY <1>1, <2>1
  <2> QED
    BY <1>1, <2>1, <2>2, <2>3, <2>4, <2>5, <2>6 DEF Span
<1>3. ASSUME NEW i \in Nat, NEW j \in Nat, Span(s2, i, j)
      PROVE  Span(t, i + n, j + n)
  <2>1. /\ i \in 1 .. m /\ j \in i .. m
        /\ \A k \in i .. j : ~IsDelimiter(s2[k])
        /\ i = 1 \/ IsDelimiter(s2[i - 1])
        /\ j = m \/ IsDelimiter(s2[j + 1])
    BY <1>3 DEF Span, m
  <2>2. ASSUME NEW k \in i + n .. j + n PROVE ~IsDelimiter(t[k])
    <3>1. k - n \in i .. j /\ k - n \in 1 .. m /\ k = n + (k - n)
      <4>1. i \in 1 .. m /\ j \in i .. m
        BY <2>1
      <4> QED
        BY <1>1, <4>1
    <3>2. t[k] = s2[k - n]
      BY <1>1, <3>1
    <3> QED
      BY <2>1, <3>1, <3>2
  <2>3. i + n = 1 \/ IsDelimiter(t[i + n - 1])
    <3>1. CASE i = 1
      <4>1. i + n - 1 = n /\ (n # 0 => n \in 1 .. n)
        BY <1>1, <3>1
      <4> QED
        BY <1>1, <3>1, <4>1
    <3>2. CASE i # 1
      <4>1. i - 1 \in 1 .. m /\ i + n - 1 = n + (i - 1)
        BY <1>1, <2>1, <3>2
      <4>2. t[i + n - 1] = s2[i - 1]
        BY <1>1, <4>1
      <4> QED
        BY <2>1, <3>2, <4>2
    <3> QED
      BY <3>1, <3>2
  <2>4. j + n = Len(t) \/ IsDelimiter(t[j + n + 1])
    <3>1. CASE j = m
      BY <1>1, <3>1
    <3>2. CASE j # m
      <4>1. j + 1 \in 1 .. m /\ j + n + 1 = n + (j + 1)
        BY <1>1, <2>1, <3>2
      <4>2. t[j + n + 1] = s2[j + 1]
        BY <1>1, <4>1
      <4> QED
        BY <2>1, <3>2, <4>2
    <3> QED
      BY <3>1, <3>2
  <2>5. i + n \in 1 .. Len(t) /\ j + n \in i + n .. Len(t)
    BY <1>1, <2>1
  <2> DEFINE a == i + n
             b == j + n
  <2>6. ASSUME NEW k \in a .. b PROVE ~IsDelimiter(t[k])
    BY <2>2
  <2>7. a = 1 \/ IsDelimiter(t[a - 1])
    <3>1. i + n - 1 = a - 1
      BY <1>1
    <3> QED
      BY <2>3, <3>1
  <2>8. b = Len(t) \/ IsDelimiter(t[b + 1])
    BY <2>4
  <2>9. a \in 1 .. Len(t) /\ b \in a .. Len(t)
    BY <2>5
  <2> HIDE DEF a, b
  <2>10. Span(t, a, b)
    BY <2>6, <2>7, <2>8, <2>9 DEF Span
  <2> QED
    BY <2>10 DEF a, b
<1>4. ASSUME NEW i \in Nat, NEW j \in Nat, Span(t, i, j)
      PROVE  \/ Span(s1, i, j)
             \/ /\ i - n \in Nat /\ j - n \in Nat
                /\ Span(s2, i - n, j - n)
  <2>1. /\ i \in 1 .. n + m /\ j \in i .. n + m
        /\ \A k \in i .. j : ~IsDelimiter(t[k])
        /\ i = 1 \/ IsDelimiter(t[i - 1])
        /\ j = n + m \/ IsDelimiter(t[j + 1])
    BY <1>1, <1>4 DEF Span
  <2>2. ~(i <= n /\ n <= j)
    <3> SUFFICES ASSUME i <= n, n <= j PROVE FALSE
      OBVIOUS
    <3>1. n \in i .. j /\ n \in 1 .. n
      BY <1>1, <2>1
    <3> QED
      BY <1>1, <2>1, <3>1
  <2>3. CASE j < n
    <3>1. /\ \A k \in i .. j : k \in 1 .. n
          /\ i = 1 \/ i - 1 \in 1 .. n
          /\ j + 1 \in 1 .. n /\ j # n + m
          /\ i \in 1 .. n /\ j \in i .. n
      BY <1>1, <2>1, <2>3
    <3>2. Span(s1, i, j)
      BY <1>1, <2>1, <3>1 DEF Span, n
    <3> QED
      BY <3>2
  <2>4. CASE i > n
    <3> DEFINE a == i - n
               b == j - n
    <3>1. /\ a \in 1 .. m /\ b \in a .. m /\ a \in Nat /\ b \in Nat
          /\ n + a = i /\ n + b = j
      <4>1. i \in 1 .. n + m /\ j \in i .. n + m
        BY <2>1
      <4> QED
        BY <1>1, <2>4, <4>1
    <3> HIDE DEF a, b
    <3>2. ASSUME NEW k \in a .. b PROVE ~IsDelimiter(s2[k])
      <4>1. n + k \in i .. j /\ k \in 1 .. m
        BY <1>1, <3>1
      <4> QED
        BY <1>1, <2>1, <4>1
    <3>3. a = 1 \/ IsDelimiter(s2[a - 1])
      <4> SUFFICES ASSUME a # 1 PROVE IsDelimiter(s2[a - 1])
        OBVIOUS
      <4>1. a - 1 \in 1 .. m /\ n + (a - 1) = i - 1 /\ i # 1
        BY <1>1, <3>1
      <4> QED
        BY <1>1, <2>1, <4>1
    <3>4. b = m \/ IsDelimiter(s2[b + 1])
      <4> SUFFICES ASSUME b # m PROVE IsDelimiter(s2[b + 1])
        OBVIOUS
      <4>1. b + 1 \in 1 .. m /\ n + (b + 1) = j + 1 /\ j # n + m
        BY <1>1, <3>1
      <4> QED
        BY <1>1, <2>1, <4>1
    <3>5. Span(s2, a, b)
      BY <3>1, <3>2, <3>3, <3>4 DEF Span, m
    <3> QED
      BY <3>1, <3>5 DEF a, b
  <2> QED
    BY <1>1, <2>1, <2>2, <2>3, <2>4
<1>5. LineSpans(t) \subseteq LineSpans(s1) \cup Shift(LineSpans(s2), n)
  <2> SUFFICES ASSUME NEW p \in LineSpans(t)
               PROVE  p \in LineSpans(s1) \cup Shift(LineSpans(s2), n)
    OBVIOUS
  <2>1. PICK i \in Nat, j \in Nat : p = <<i, j>>
    BY <1>1, SpanMembers
  <2>2. Span(t, i, j)
    BY <1>1, <2>1, SpanMembers
  <2>3. CASE Span(s1, i, j)
    BY <2>1, <2>3, SpanMembers
  <2>4. CASE i - n \in Nat /\ j - n \in Nat /\ Span(s2, i - n, j - n)
    <3> DEFINE q == <<i - n, j - n>>
    <3>1. q \in LineSpans(s2)
      BY <2>4, SpanMembers
    <3>2. p = <<q[1] + n, q[2] + n>>
      BY <1>1, <2>1
    <3> HIDE DEF q
    <3> QED
      BY <3>1, <3>2 DEF Shift
  <2> QED
    BY <1>4, <2>2, <2>3, <2>4
<1>6. LineSpans(s1) \subseteq LineSpans(t)
  <2> SUFFICES ASSUME NEW p \in LineSpans(s1) PROVE p \in LineSpans(t)
    OBVIOUS
  <2>1. PICK i \in Nat, j \in Nat : p = <<i, j>>
    BY SpanMembers
  <2>2. Span(s1, i, j)
    BY <2>1, SpanMembers
  <2> QED
    BY <1>1, <1>2, <2>1, <2>2, SpanMembers
<1>7. Shift(LineSpans(s2), n) \subseteq LineSpans(t)
  <2> SUFFICES ASSUME NEW q \in LineSpans(s2)
               PROVE  <<q[1] + n, q[2] + n>> \in LineSpans(t)
    BY DEF Shift
  <2>1. PICK i \in Nat, j \in Nat : q = <<i, j>>
    BY SpanMembers
  <2>2. Span(s2, i, j)
    BY <2>1, SpanMembers
  <2>3. i + n \in Nat /\ j + n \in Nat /\ Span(t, i + n, j + n)
    BY <1>1, <1>3, <2>2
  <2>4. <<i + n, j + n>> \in LineSpans(t)
    BY <1>1, <2>3, SpanMembers
  <2> QED
    BY <2>1, <2>4
<1> QED
  BY <1>5, <1>6, <1>7 DEF n, t

\* The lines of the two parts are those of the whole.
LEMMA LinesOfConcat ==
    ASSUME NEW s1 \in Seq(Byte), NEW s2 \in Seq(Byte), Closed(s1),
           NEW l1 \in Seq(Seq(Byte)), AreTexts(l1, s1, LineSpans(s1)),
           NEW l2 \in Seq(Seq(Byte)), AreTexts(l2, s2, LineSpans(s2))
    PROVE  AreTexts(l1 \o l2, s1 \o s2, LineSpans(s1 \o s2))
<1> DEFINE n == Len(s1)
           m == Len(s2)
           t == s1 \o s2
<1>1. /\ n \in Nat /\ m \in Nat /\ t \in Seq(Byte) /\ Len(t) = n + m
      /\ \A i \in 1 .. n : t[i] = s1[i]
      /\ \A i \in 1 .. m : t[n + i] = s2[i]
  OBVIOUS
<1> HIDE DEF n, m, t
<1>2. ASSUME NEW p \in LineSpans(s1)
      PROVE  /\ p[1] \in 1 .. n /\ p[2] \in p[1] .. n
             /\ p = <<p[1] + 0, p[2] + 0>>
             /\ SubSeq(s1, p[1], p[2]) = SubSeq(t, p[1] + 0, p[2] + 0)
  <2>1. PICK i \in Nat, j \in Nat : p = <<i, j>>
    BY SpanMembers
  <2>2. i \in 1 .. n /\ j \in i .. n
    BY <2>1, SpanMembers DEF Span, n
  <2>3. SubSeq(s1, i, j) = SubSeq(t, i, j)
    BY <1>1, <2>2 DEF n
  <2> QED
    BY <2>1, <2>2, <2>3
<1>3. ASSUME NEW p \in LineSpans(s2)
      PROVE  /\ p[1] \in 1 .. m /\ p[2] \in p[1] .. m
             /\ SubSeq(s2, p[1], p[2]) = SubSeq(t, p[1] + n, p[2] + n)
  <2>1. PICK i \in Nat, j \in Nat : p = <<i, j>>
    BY SpanMembers
  <2>2. i \in 1 .. m /\ j \in i .. m
    BY <2>1, SpanMembers DEF Span, m
  <2>3. SubSeq(s2, i, j) = SubSeq(t, i + n, j + n)
    <3>1. /\ SubSeq(s2, i, j) = [k \in 1 .. j - i + 1 |-> s2[i + k - 1]]
          /\ SubSeq(t, i + n, j + n)
                = [k \in 1 .. j - i + 1 |-> t[i + n + k - 1]]
      BY <1>1, <2>2 DEF m
    <3>2. ASSUME NEW k \in 1 .. j - i + 1
          PROVE  s2[i + k - 1] = t[i + n + k - 1]
      <4>1. i + k - 1 \in 1 .. m /\ i + n + k - 1 = n + (i + k - 1)
        BY <1>1, <2>2
      <4> QED
        BY <1>1, <4>1
    <3> QED
      BY <3>1, <3>2
  <2> QED
    BY <2>1, <2>2, <2>3
<1> DEFINE S1 == Shift(LineSpans(s1), 0)
           S2 == Shift(LineSpans(s2), n)
<1>4. AreTexts(l1, t, S1)
  BY <1>2, Shifted, SpanMembers
<1>5. AreTexts(l2, t, S2)
  BY <1>1, <1>3, Shifted, SpanMembers
<1>6. S1 = LineSpans(s1)
  BY <1>2 DEF Shift
<1>7. ASSUME NEW q \in S2
      PROVE  q \in Nat \X Nat /\ q[1] > n
  <2>1. PICK p \in LineSpans(s2) : q = <<p[1] + n, p[2] + n>>
    BY DEF Shift
  <2>2. PICK i \in Nat, j \in Nat : p = <<i, j>>
    BY SpanMembers
  <2>3. i \in 1 .. m
    BY <1>3, <2>2
  <2>4. i + n \in Nat /\ j + n \in Nat /\ i + n > n
    BY <1>1, <2>3
  <2> QED
    BY <2>1, <2>2, <2>4
<1> HIDE DEF S1, S2
<1>8. S1 \in SUBSET (Nat \X Nat) /\ S2 \in SUBSET (Nat \X Nat)
  BY <1>6, <1>7, SpanMembers
<1>9. \A p \in S1, q \in S2 : p[1] < q[1]
  BY <1>1, <1>2, <1>6, <1>7
<1>10. AreTexts(l1 \o l2, t, S1 \cup S2)
  BY <1>4, <1>5, <1>8, <1>9, Joined
<1> QED
  BY <1>6, <1>10, SpansOfConcat DEF S2, n, t

-----------------------------------------------------------------------------
(* strtok_r finds the lines of a string. *)

\* Where the line that begins at i ends: the next delimiter or the end.
IsEnd(s, i, e) ==
    /\ e = Len(s) + 1 \/ IsDelimiter(s[e])
    /\ \A k \in i .. e - 1 : ~IsDelimiter(s[k])

EndOf(s, i) == CHOOSE e \in i .. Len(s) + 1 : IsEnd(s, i, e)

\* The lines from i on, when f gives those from later positions on.
Rest(f, s, i) ==
    IF i = Len(s) + 1 THEN <<>>
    ELSE IF IsDelimiter(s[i]) THEN f[i + 1]
    ELSE <<SubSeq(s, i, EndOf(s, i) - 1)>> \o f[EndOf(s, i)]

LEMMA EndExists ==
    ASSUME NEW s \in Seq(Byte), NEW i \in 1 .. Len(s), ~IsDelimiter(s[i])
    PROVE  EndOf(s, i) \in i + 1 .. Len(s) + 1 /\ IsEnd(s, i, EndOf(s, i))
<1> DEFINE T == {k \in i .. Len(s) + 1 : k = Len(s) + 1 \/ IsDelimiter(s[k])}
<1>1. Len(s) \in Nat
  OBVIOUS
<1>2. T \in SUBSET Nat /\ Len(s) + 1 \in T
  BY <1>1
<1>3. PICK e \in T : \A k \in T : e <= k
  <2> HIDE DEF T
  <2> QED
    BY <1>2, NatMin
<1>4. ASSUME NEW k \in i .. e - 1 PROVE ~IsDelimiter(s[k])
  <2>1. k \in i .. Len(s) + 1 /\ ~(e <= k)
    BY <1>1, <1>3
  <2> QED
    BY <1>3, <2>1
<1>5. e \in i .. Len(s) + 1 /\ IsEnd(s, i, e)
  BY <1>3, <1>4 DEF IsEnd
<1>6. EndOf(s, i) \in i .. Len(s) + 1 /\ IsEnd(s, i, EndOf(s, i))
  <2>1. \E x \in i .. Len(s) + 1 : IsEnd(s, i, x)
    BY <1>5
  <2> QED
    BY <2>1, Zenon DEF EndOf
<1>7. EndOf(s, i) # i
  <2> SUFFICES ASSUME EndOf(s, i) = i PROVE FALSE
    OBVIOUS
  <2>1. i = Len(s) + 1 \/ IsDelimiter(s[i])
    BY <1>6 DEF IsEnd
  <2> QED
    BY <1>1, <2>1
<1> QED
  BY <1>1, <1>6, <1>7

\* The recursion of Lines is well defined: it goes on behind where it is.
LEMMA ScanExists ==
    ASSUME NEW s \in Seq(Byte)
    PROVE  \E f : f = [i \in 1 .. Len(s) + 1 |-> Rest(f, s, i)]
<1> DEFINE L == Len(s) + 1
           Scan(f, m) == f = [i \in m .. L |-> Rest(f, s, i)]
           T == {d \in 0 .. Len(s) : \E f : Scan(f, L - d)}
<1>1. Len(s) \in Nat /\ L \in Nat /\ L = Len(s) + 1
  OBVIOUS
<1>2. 0 \in T
  <2> DEFINE f == [i \in L .. L |-> <<>>]
  <2>1. \A g : \A i \in L .. L : Rest(g, s, i) = <<>>
    BY <1>1 DEF Rest
  <2>2. f = [i \in L .. L |-> Rest(f, s, i)]
    BY <2>1
  <2>3. L - 0 = L /\ 0 \in 0 .. Len(s)
    BY <1>1
  <2> HIDE DEF f, L
  <2> QED
    BY <2>2, <2>3
<1>3. ASSUME NEW d \in 1 .. Len(s), d - 1 \in T PROVE d \in T
  <2> DEFINE m == L - d
  <2>1. m \in 1 .. Len(s) /\ L - (d - 1) = m + 1
    BY <1>1
  <2>2. PICK f : Scan(f, m + 1)
    BY <1>3, <2>1
  <2> DEFINE g == [i \in m .. L |-> IF i = m THEN Rest(f, s, m) ELSE f[i]]
  <2>3. \A i \in m + 1 .. L : i \in m .. L /\ i # m /\ g[i] = f[i]
    BY <1>1, <2>1
  <2>4. ASSUME NEW i \in m .. L PROVE Rest(g, s, i) = Rest(f, s, i)
    <3>1. CASE i = L
      BY <1>1, <3>1 DEF Rest
    <3>2. CASE i # L /\ IsDelimiter(s[i])
      <4>1. i + 1 \in m + 1 .. L
        BY <1>1, <2>1, <3>2
      <4>2. g[i + 1] = f[i + 1]
        BY <2>3, <4>1
      <4> HIDE DEF g
      <4> QED
        BY <3>2, <4>2 DEF Rest
    <3>3. CASE i # L /\ ~IsDelimiter(s[i])
      <4>1. i \in 1 .. Len(s)
        BY <1>1, <2>1, <3>3
      <4>2. EndOf(s, i) \in i + 1 .. L
        BY <1>1, <3>3, <4>1, EndExists
      <4>3. EndOf(s, i) \in m + 1 .. L
        BY <1>1, <2>1, <4>1, <4>2
      <4>4. g[EndOf(s, i)] = f[EndOf(s, i)]
        BY <2>3, <4>3
      <4> HIDE DEF g
      <4> QED
        BY <3>3, <4>4 DEF Rest
    <3> QED
      BY <3>1, <3>2, <3>3
  <2>5. ASSUME NEW i \in m .. L PROVE g[i] = Rest(f, s, i)
    <3>1. CASE i = m
      BY <3>1
    <3>2. CASE i # m
      <4>1. i \in m + 1 .. L
        BY <1>1, <2>1, <3>2
      <4>2. f[i] = Rest(f, s, i)
        <5> HIDE DEF L, m
        <5> QED
          BY <2>2, <4>1
      <4> QED
        BY <2>3, <4>1, <4>2
    <3> QED
      BY <3>1, <3>2
  <2>6. g = [i \in m .. L |-> Rest(g, s, i)]
    <3>1. g = [i \in m .. L |-> g[i]]
      OBVIOUS
    <3> HIDE DEF g, m, L
    <3> QED
      BY <2>4, <2>5, <3>1
  <2> HIDE DEF g
  <2>7. Scan(g, m) /\ d \in 0 .. Len(s)
    BY <1>1, <2>6
  <2> QED
    BY <2>7
<1>4. Len(s) \in T
  <2> HIDE DEF T
  <2>1. \A d \in 0 .. Len(s) : d \in T
    BY <1>1, <1>2, <1>3, Induction
  <2> QED
    BY <1>1, <2>1
<1>5. PICK f : Scan(f, L - Len(s))
  BY <1>4
<1>6. L - Len(s) = 1
  BY <1>1
<1>7. Scan(f, 1)
  <2> HIDE DEF Scan
  <2> QED
    BY <1>5, <1>6
<1> QED
  BY <1>7

\* The lines of s that begin at i or later.
SpansFrom(s, i) == {p \in LineSpans(s) : p[1] >= i}

\* No line lies across the position i.
Boundary(s, i) ==
    \/ i = 1 \/ i = Len(s) + 1
    \/ IsDelimiter(s[i - 1]) \/ IsDelimiter(s[i])

LEMMA NoLinesBehindEnd ==
    ASSUME NEW s \in Seq(Byte)
    PROVE  SpansFrom(s, Len(s) + 1) = {}
<1> SUFFICES ASSUME NEW p \in LineSpans(s), p[1] >= Len(s) + 1
             PROVE  FALSE
  BY DEF SpansFrom
<1>1. PICK i \in Nat, j \in Nat : p = <<i, j>>
  BY SpanMembers
<1>2. i \in 1 .. Len(s) /\ Len(s) \in Nat
  BY <1>1, SpanMembers DEF Span
<1> QED
  BY <1>1, <1>2

LEMMA NoLineAtDelimiter ==
    ASSUME NEW s \in Seq(Byte), NEW i \in 1 .. Len(s), IsDelimiter(s[i])
    PROVE  SpansFrom(s, i) = SpansFrom(s, i + 1)
<1>1. Len(s) \in Nat
  OBVIOUS
<1>2. ASSUME NEW p \in LineSpans(s)
      PROVE  p[1] >= i <=> p[1] >= i + 1
  <2>1. PICK a \in Nat, b \in Nat : p = <<a, b>>
    BY SpanMembers
  <2>2. b \in a .. Len(s) /\ \A k \in a .. b : ~IsDelimiter(s[k])
    BY <2>1, SpanMembers DEF Span
  <2>3. a # i
    <3>1. a \in a .. b
      BY <1>1, <2>2
    <3> QED
      BY <2>2, <3>1
  <2>4. a >= i <=> a >= i + 1
    BY <1>1, <2>3
  <2> QED
    BY <2>1, <2>4
<1> QED
  BY <1>2 DEF SpansFrom

\* The first line from i on is the one strtok_r takes.
LEMMA FirstLine ==
    ASSUME NEW s \in Seq(Byte), NEW i \in 1 .. Len(s), Boundary(s, i),
           ~IsDelimiter(s[i]),
           NEW e \in i + 1 .. Len(s) + 1, IsEnd(s, i, e)
    PROVE  SpansFrom(s, i) = {<<i, e - 1>>} \cup SpansFrom(s, e)
<1>1. Len(s) \in Nat /\ i \in Nat /\ e \in Nat /\ e - 1 \in i .. Len(s)
  OBVIOUS
<1>2. i = 1 \/ IsDelimiter(s[i - 1])
  BY <1>1 DEF Boundary
<1>3. /\ e = Len(s) + 1 \/ IsDelimiter(s[e])
      /\ \A k \in i .. e - 1 : ~IsDelimiter(s[k])
  BY DEF IsEnd
<1>4. Span(s, i, e - 1)
  <2>1. e - 1 = Len(s) \/ IsDelimiter(s[e - 1 + 1])
    BY <1>1, <1>3
  <2> QED
    BY <1>1, <1>2, <1>3, <2>1 DEF Span
<1>5. ASSUME NEW a \in Nat, NEW b \in Nat, Span(s, a, b), a >= i, ~(a >= e)
      PROVE  a = i /\ b = e - 1
  <2>1. /\ a \in 1 .. Len(s) /\ b \in a .. Len(s)
        /\ \A k \in a .. b : ~IsDelimiter(s[k])
        /\ a = 1 \/ IsDelimiter(s[a - 1])
        /\ b = Len(s) \/ IsDelimiter(s[b + 1])
    BY <1>5 DEF Span
  <2>2. a = i
    <3> SUFFICES ASSUME a # i PROVE FALSE
      OBVIOUS
    <3>1. a - 1 \in i .. e - 1 /\ a # 1
      BY <1>1, <1>5
    <3> QED
      BY <1>3, <2>1, <3>1
  <2>3. ~(b >= e)
    <3> SUFFICES ASSUME b >= e PROVE FALSE
      OBVIOUS
    <3>1. e \in a .. b /\ e # Len(s) + 1
      BY <1>1, <1>5, <2>1
    <3> QED
      BY <1>3, <2>1, <3>1
  <2>4. ~(b < e - 1)
    <3> SUFFICES ASSUME b < e - 1 PROVE FALSE
      OBVIOUS
    <3>1. b + 1 \in i .. e - 1 /\ b # Len(s)
      BY <1>1, <1>5, <2>1
    <3> QED
      BY <1>3, <2>1, <3>1
  <2> QED
    BY <1>1, <2>1, <2>2, <2>3, <2>4
<1>6. <<i, e - 1>> \in SpansFrom(s, i)
  <2>1. <<i, e - 1>> \in LineSpans(s)
    BY <1>1, <1>4, SpanMembers
  <2> QED
    BY <1>1, <2>1 DEF SpansFrom
<1>7. SpansFrom(s, e) \subseteq SpansFrom(s, i)
  <2> SUFFICES ASSUME NEW p \in LineSpans(s), p[1] >= e PROVE p[1] >= i
    BY DEF SpansFrom
  <2>1. p[1] \in Nat
    BY SpanMembers
  <2> QED
    BY <1>1, <2>1
<1>8. ASSUME NEW p \in LineSpans(s), p[1] >= i, ~(p[1] >= e)
      PROVE  p = <<i, e - 1>>
  <2>1. PICK a \in Nat, b \in Nat : p = <<a, b>>
    BY SpanMembers
  <2>2. Span(s, a, b)
    BY <2>1, SpanMembers
  <2> QED
    BY <1>5, <1>8, <2>1, <2>2
<1>9. SpansFrom(s, i) \subseteq {<<i, e - 1>>} \cup SpansFrom(s, e)
  BY <1>8 DEF SpansFrom
<1> QED
  BY <1>6, <1>7, <1>9

\* One line.
LEMMA OneText ==
    ASSUME NEW s \in Seq(Byte), NEW i \in Nat, NEW j \in Nat
    PROVE  AreTexts(<<SubSeq(s, i, j)>>, s, {<<i, j>>})
<1> DEFINE lines == <<SubSeq(s, i, j)>>
           at == [k \in {1} |-> <<i, j>>]
<1>1. DOMAIN lines = {1} /\ lines[1] = SubSeq(s, i, j)
  OBVIOUS
<1> HIDE DEF lines
<1>2. Places(at, lines, s, {<<i, j>>})
  BY <1>1 DEF Places
<1> HIDE DEF at
<1>3. \E x : Places(x, lines, s, {<<i, j>>})
  BY <1>2
<1> QED
  BY <1>3, TextsPlaced DEF lines

LEMMA NoText ==
    ASSUME NEW s
    PROVE  AreTexts(<<>>, s, {})
<1> DEFINE at == [k \in {} |-> k]
<1>1. Places(at, <<>>, s, {})
  BY DEF Places
<1> HIDE DEF at
<1>2. \E x : Places(x, <<>>, s, {})
  BY <1>1
<1> QED
  BY <1>2, TextsPlaced

\* Lines, that is strtok_r, finds the lines of a string: those stretches without
\* a delimiter that cannot be longer, each once and in order.
LEMMA LinesAreTexts ==
    ASSUME NEW s \in Seq(Byte)
    PROVE  /\ Lines(s) \in Seq(Seq(Byte))
           /\ AreTexts(Lines(s), s, LineSpans(s))
<1> DEFINE L == Len(s) + 1
           from == CHOOSE f : f = [i \in 1 .. L |-> Rest(f, s, i)]
           Good(i) == /\ from[i] \in Seq(Seq(Byte))
                      /\ Boundary(s, i) => AreTexts(from[i], s, SpansFrom(s, i))
           T == {d \in 0 .. Len(s) : \A i \in L - d .. L : Good(i)}
<1>1. Len(s) \in Nat /\ L \in Nat /\ L = Len(s) + 1
  OBVIOUS
<1>2. Lines(s) = from[1]
  BY DEF Lines, Rest, EndOf, IsEnd
<1>3. from = [i \in 1 .. L |-> Rest(from, s, i)]
  BY ScanExists
<1> HIDE DEF from, Good
<1>4. ASSUME NEW i \in 1 .. L PROVE from[i] = Rest(from, s, i)
  <2> HIDE DEF L
  <2> QED
    BY <1>3
<1>5. Good(L)
  <2>1. L \in 1 .. L
    BY <1>1
  <2>2. from[L] = Rest(from, s, L)
    BY <1>4, <2>1
  <2>3. from[L] = <<>>
    BY <2>2 DEF Rest
  <2>4. SpansFrom(s, L) = {}
    BY NoLinesBehindEnd
  <2>5. <<>> \in Seq(Seq(Byte)) /\ AreTexts(<<>>, s, {})
    BY NoText
  <2> HIDE DEF L
  <2> QED
    BY <2>3, <2>4, <2>5 DEF Good
<1>6. ASSUME NEW i \in 1 .. Len(s), \A k \in i + 1 .. L : Good(k)
      PROVE  Good(i)
  <2>0. from[i] = Rest(from, s, i) /\ i # Len(s) + 1
    <3>1. i \in 1 .. L /\ i # Len(s) + 1
      BY <1>1
    <3> QED
      BY <1>4, <3>1
  <2>1. CASE IsDelimiter(s[i])
    <3>1. Good(i + 1)
      BY <1>1, <1>6
    <3>2. from[i] = from[i + 1]
      BY <2>0, <2>1 DEF Rest
    <3>3. Boundary(s, i + 1)
      BY <1>1, <2>1 DEF Boundary
    <3> QED
      BY <2>1, <3>1, <3>2, <3>3, NoLineAtDelimiter DEF Good
  <2>2. CASE ~IsDelimiter(s[i])
    <3> DEFINE e == EndOf(s, i)
               t == SubSeq(s, i, e - 1)
    <3>1. e \in i + 1 .. L /\ IsEnd(s, i, e)
      BY <2>2, EndExists
    <3>2. from[i] = <<t>> \o from[e]
      BY <2>0, <2>2 DEF Rest
    <3>3. Good(e)
      BY <1>6, <3>1
    <3> HIDE DEF e
    <3>4. t \in Seq(Byte) /\ <<t>> \in Seq(Seq(Byte))
      BY <1>1, <3>1
    <3> HIDE DEF t
    <3>5. from[i] \in Seq(Seq(Byte))
      BY <3>2, <3>3, <3>4 DEF Good
    <3>6. ASSUME Boundary(s, i)
          PROVE  AreTexts(from[i], s, SpansFrom(s, i))
      <4>1. Boundary(s, e)
        BY <3>1 DEF Boundary, IsEnd
      <4>2. AreTexts(from[e], s, SpansFrom(s, e))
        BY <3>3, <4>1 DEF Good
      <4>3. AreTexts(<<t>>, s, {<<i, e - 1>>})
        <5>1. i \in Nat /\ e - 1 \in Nat
          BY <1>1, <3>1
        <5> QED
          BY <5>1, OneText DEF t
      <4>4. /\ {<<i, e - 1>>} \in SUBSET (Nat \X Nat)
            /\ SpansFrom(s, e) \in SUBSET (Nat \X Nat)
        BY <1>1, <3>1, SpanMembers DEF SpansFrom
      <4>5. \A p \in {<<i, e - 1>>}, q \in SpansFrom(s, e) : p[1] < q[1]
        <5> SUFFICES ASSUME NEW q \in SpansFrom(s, e) PROVE i < q[1]
          OBVIOUS
        <5>1. q[1] \in Nat /\ q[1] >= e
          BY <4>4 DEF SpansFrom
        <5> QED
          BY <1>1, <3>1, <5>1
      <4>6. SpansFrom(s, i) = {<<i, e - 1>>} \cup SpansFrom(s, e)
        BY <2>2, <3>1, <3>6, FirstLine
      <4>7. from[e] \in Seq(Seq(Byte))
        BY <3>3 DEF Good
      <4> DEFINE first == <<t>>
                 S1 == {<<i, e - 1>>}
                 S2 == SpansFrom(s, e)
      <4>8. first \in Seq(Seq(Byte)) /\ AreTexts(first, s, S1)
        BY <3>4, <4>3
      <4>9. /\ S1 \in SUBSET (Nat \X Nat) /\ S2 \in SUBSET (Nat \X Nat)
            /\ AreTexts(from[e], s, S2)
            /\ \A p \in S1, q \in S2 : p[1] < q[1]
        BY <4>2, <4>4, <4>5
      <4>10. from[i] = first \o from[e] /\ SpansFrom(s, i) = S1 \cup S2
        BY <3>2, <4>6
      <4> HIDE DEF first, S1, S2
      <4>11. AreTexts(first \o from[e], s, S1 \cup S2)
        BY <4>7, <4>8, <4>9, Joined
      <4> QED
        BY <4>10, <4>11
    <3> QED
      BY <3>5, <3>6 DEF Good
  <2> QED
    BY <2>1, <2>2
<1>7. 0 \in T
  <2>1. \A i \in L - 0 .. L : i = L
    BY <1>1
  <2> HIDE DEF L
  <2> QED
    BY <1>1, <1>5, <2>1
<1>8. ASSUME NEW d \in 1 .. Len(s), d - 1 \in T PROVE d \in T
  <2>1. L - d \in 1 .. Len(s) /\ L - (d - 1) = L - d + 1
    BY <1>1
  <2>2. \A k \in L - d + 1 .. L : Good(k)
    BY <1>8, <2>1
  <2>3. Good(L - d)
    BY <1>6, <2>1, <2>2
  <2>4. \A k \in L - d .. L : k = L - d \/ k \in L - d + 1 .. L
    BY <1>1
  <2> HIDE DEF L
  <2> QED
    BY <1>1, <2>2, <2>3, <2>4
<1>9. Len(s) \in T
  <2> HIDE DEF T
  <2>1. \A d \in 0 .. Len(s) : d \in T
    BY <1>1, <1>7, <1>8, Induction
  <2> QED
    BY <1>1, <2>1
<1>10. Good(1)
  <2>1. 1 \in L - Len(s) .. L
    BY <1>1
  <2> HIDE DEF L
  <2> QED
    BY <1>9, <2>1
<1>11. SpansFrom(s, 1) = LineSpans(s)
  <2>1. \A p \in LineSpans(s) : p[1] >= 1
    <3> SUFFICES ASSUME NEW p \in LineSpans(s) PROVE p[1] >= 1
      OBVIOUS
    <3>1. PICK i \in Nat, j \in Nat : p = <<i, j>>
      BY SpanMembers
    <3>2. i \in 1 .. Len(s)
      BY <3>1, SpanMembers DEF Span
    <3> QED
      BY <1>1, <3>1, <3>2
  <2> QED
    BY <2>1 DEF SpansFrom
<1> QED
  BY <1>2, <1>10, <1>11 DEF Good, Boundary

-----------------------------------------------------------------------------
(* The lines handled, however the stream was read. *)

\* A stream without NULs is cut where a line ends.
CutAtLineEnd == open /\ ~HasNul(sent) => Closed(SubSeq(sent, 1, Upto))

LinesInv == FramingInv /\ CutAtLineEnd /\ LinesIndependentOfReads

LEMMA UptoInRange ==
    ASSUME FramingInv, open
    PROVE  Upto \in 0 .. Len(sent) /\ Len(sent) \in Nat
BY BufferAssumption, LenProperties
   DEF FramingInv, TypeOK, BufferHoldsOpenLine, Upto

\* One more string is handled: its lines are handled behind the others.
LEMMA MoreHandled ==
    ASSUME FramingInv, NEW msg \in Seq(Byte), handed' = Append(handed, msg)
    PROVE  /\ LinesHandled \in Seq(Seq(Byte))
           /\ LinesHandled' = LinesHandled \o Lines(msg)
<1> DEFINE qs == [k \in DOMAIN handed |-> Lines(handed[k])]
           qs2 == [k \in DOMAIN handed' |-> Lines(handed'[k])]
           n == Len(handed)
<1>1. /\ handed \in Seq(Seq(Byte)) /\ n \in Nat /\ DOMAIN handed = 1 .. n
      /\ DOMAIN handed' = 1 .. n + 1
      /\ \A k \in 1 .. n : handed'[k] = handed[k] /\ handed[k] \in Seq(Byte)
      /\ handed'[n + 1] = msg
  BY DEF FramingInv, TypeOK
<1> HIDE DEF n
<1>2. qs \in Seq(Seq(Seq(Byte))) /\ Len(qs) = n
  <2>1. \A k \in 1 .. n : Lines(handed[k]) \in Seq(Seq(Byte))
    BY <1>1, LinesAreTexts
  <2>2. qs \in [1 .. n -> Seq(Seq(Byte))]
    BY <1>1, <2>1
  <2> HIDE DEF qs
  <2> QED
    BY <1>1, <2>2
<1>3. qs2 = Append(qs, Lines(msg))
  <2>1. /\ DOMAIN qs2 = 1 .. n + 1 /\ qs2 = [k \in 1 .. n + 1 |-> qs2[k]]
        /\ \A k \in 1 .. n : qs2[k] = qs[k]
        /\ qs2[n + 1] = Lines(msg)
    BY <1>1
  <2> HIDE DEF qs, qs2
  <2> DEFINE new == Lines(msg)
             r == Append(qs, new)
  <2>2. /\ r = [k \in 1 .. n + 1 |-> r[k]]
        /\ \A k \in 1 .. n : r[k] = qs[k]
        /\ r[n + 1] = new
    <3>1. new \in Seq(Seq(Byte))
      BY LinesAreTexts
    <3> HIDE DEF new
    <3>2. /\ r \in Seq(Seq(Seq(Byte))) /\ Len(r) = n + 1
          /\ \A k \in 1 .. n : r[k] = qs[k]
          /\ r[n + 1] = new
      BY <1>1, <1>2, <3>1, AppendProperties
    <3> HIDE DEF r
    <3>3. r = [k \in 1 .. n + 1 |-> r[k]]
      BY <1>1, <3>2
    <3> QED
      BY <3>2, <3>3
  <2>3. \A k \in 1 .. n + 1 : qs2[k] = r[k]
    <3> HIDE DEF r
    <3>1. \A k \in 1 .. n + 1 : k \in 1 .. n \/ k = n + 1
      BY <1>1
    <3> QED
      BY <2>1, <2>2, <3>1 DEF r
  <2> HIDE DEF r
  <2> QED
    BY <2>1, <2>2, <2>3 DEF r
<1>4. /\ FlattenSeq(Append(qs, Lines(msg))) = FlattenSeq(qs) \o Lines(msg)
      /\ FlattenSeq(qs) \in Seq(Seq(Byte))
  <2> HIDE DEF qs
  <2>1. Lines(msg) \in Seq(Seq(Byte))
    BY LinesAreTexts
  <2> QED
    BY <1>2, <2>1, FlattenAppend
<1>5. LinesHandled = FlattenSeq(qs) /\ LinesHandled' = FlattenSeq(qs2)
  BY DEF LinesHandled
<1> QED
  BY <1>3, <1>4, <1>5

\* Nothing is handled: the stream dealt with and its lines are as they were.
LEMMA NothingHandled ==
    ASSUME CutAtLineEnd, LinesIndependentOfReads,
           UNCHANGED handed,
           open' /\ ~HasNul(sent') => open /\ ~HasNul(sent),
           open => SubSeq(sent', 1, Upto') = SubSeq(sent, 1, Upto)
    PROVE  CutAtLineEnd' /\ LinesIndependentOfReads'
<1>1. LinesHandled' = LinesHandled
  BY DEF LinesHandled
<1> SUFFICES ASSUME open', ~HasNul(sent')
             PROVE  LET stream == SubSeq(sent', 1, Upto')
                    IN  /\ Closed(stream)
                        /\ AreTexts(LinesHandled', stream, LineSpans(stream))
  BY DEF CutAtLineEnd, LinesIndependentOfReads
<1> QED
  BY <1>1 DEF CutAtLineEnd, LinesIndependentOfReads

LEMMA HandOverKeepsLines ==
    ASSUME LinesInv, NEW j \in 1 .. Len(sent), NEW k \in j .. Len(sent),
           Stream!HandOver(j, k)
    PROVE  CutAtLineEnd' /\ LinesIndependentOfReads'
<1> DEFINE before == SubSeq(sent, 1, Upto)
           msg == SubSeq(sent, Upto + 1, j)
           now == SubSeq(sent, 1, j)
<1>1. SUFFICES ASSUME open', ~HasNul(sent')
               PROVE  LET stream == SubSeq(sent', 1, Upto')
                      IN  /\ Closed(stream)
                          /\ AreTexts(LinesHandled', stream, LineSpans(stream))
  BY DEF CutAtLineEnd, LinesIndependentOfReads
<1>2. /\ open /\ j \in Upto + 1 .. Len(sent) /\ sent[j] = LF
      /\ k = j \/ sent[j + 1] = NUL
      /\ handed' = Append(handed, msg)
      /\ sent' = sent /\ Upto' = k
  BY <1>1 DEF Stream!HandOver, Stream!LineEnds
<1>3. /\ Upto \in 0 .. Len(sent) /\ Len(sent) \in Nat /\ sent \in Seq(Byte)
      /\ ~HasNul(sent)
  BY <1>1, <1>2, UptoInRange DEF LinesInv, FramingInv, TypeOK
<1>4. Upto' = j
  <2> SUFFICES ASSUME k # j PROVE FALSE
    BY <1>2
  <2>1. j + 1 \in 1 .. Len(sent) /\ sent[j + 1] = NUL
    BY <1>2, <1>3
  <2> QED
    BY <1>3, <2>1 DEF HasNul, ToSet
<1>5. /\ before \in Seq(Byte) /\ msg \in Seq(Byte) /\ now \in Seq(Byte)
      /\ now = before \o msg
  <2>1. before \in Seq(Byte) /\ msg \in Seq(Byte) /\ now \in Seq(Byte)
    BY <1>2, <1>3
  <2>2. now = before \o msg
    <3>1. /\ Len(now) = j /\ Len(before) = Upto /\ Len(msg) = j - Upto
          /\ \A i \in 1 .. j : now[i] = sent[i]
          /\ \A i \in 1 .. Upto : before[i] = sent[i]
          /\ \A i \in 1 .. j - Upto : msg[i] = sent[Upto + i]
      BY <1>2, <1>3
    <3>2. /\ Len(before \o msg) = j /\ before \o msg \in Seq(Byte)
          /\ \A i \in 1 .. j : (before \o msg)[i]
                = IF i <= Upto THEN before[i] ELSE msg[i - Upto]
      <4>1. /\ Len(before) = Upto /\ Len(msg) = j - Upto
            /\ Upto \in Nat /\ j \in Nat /\ Upto + (j - Upto) = j
        BY <1>2, <1>3, <3>1
      <4> HIDE DEF before, msg
      <4> QED
        BY <2>1, <4>1, ConcatProperties
    <3>3. ASSUME NEW i \in 1 .. j PROVE now[i] = (before \o msg)[i]
      <4>1. CASE i <= Upto
        <5>1. i \in 1 .. Upto
          BY <1>3, <4>1
        <5> HIDE DEF before, msg, now
        <5> QED
          BY <3>1, <3>2, <4>1, <5>1
      <4>2. CASE ~(i <= Upto)
        <5>1. i - Upto \in 1 .. j - Upto /\ Upto + (i - Upto) = i
          BY <1>2, <1>3, <4>2
        <5> HIDE DEF before, msg, now
        <5> QED
          BY <3>1, <3>2, <4>2, <5>1
      <4> QED
        BY <4>1, <4>2
    <3> DEFINE both == before \o msg
    <3> HIDE DEF before, msg, now, both
    <3>4. now \in Seq(Byte) /\ both \in Seq(Byte) /\ Len(now) = Len(both)
      BY <2>1, <3>1, <3>2 DEF both
    <3>5. \A i \in 1 .. Len(now) : now[i] = both[i]
      BY <3>1, <3>3 DEF both
    <3> QED
      BY <3>4, <3>5, SeqEqual DEF both
  <2> QED
    BY <2>1, <2>2
<1>6. Closed(now)
  <2>1. Len(now) = j /\ now[j] = sent[j]
    BY <1>2, <1>3
  <2> HIDE DEF now
  <2> QED
    BY <1>2, <2>1 DEF Closed, IsDelimiter
<1>7. Closed(before) /\ AreTexts(LinesHandled, before, LineSpans(before))
  BY <1>2, <1>3 DEF LinesInv, CutAtLineEnd, LinesIndependentOfReads
<1>8. /\ LinesHandled \in Seq(Seq(Byte))
      /\ LinesHandled' = LinesHandled \o Lines(msg)
  BY <1>2, <1>5, MoreHandled DEF LinesInv
<1> HIDE DEF before, msg, now
<1>9. Lines(msg) \in Seq(Seq(Byte)) /\ AreTexts(Lines(msg), msg, LineSpans(msg))
  BY <1>5, LinesAreTexts
<1>10. AreTexts(LinesHandled', now, LineSpans(now))
  BY <1>5, <1>7, <1>8, <1>9, LinesOfConcat
<1>11. SubSeq(sent', 1, Upto') = now
  BY <1>2, <1>4 DEF now
<1> QED
  BY <1>6, <1>10, <1>11

LEMMA LinesInvInit == Init => LinesInv
<1> SUFFICES ASSUME Init PROVE LinesInv
  OBVIOUS
<1>1. FramingInv
  BY FramingInvInit
<1>2. sent = <<>> /\ handed = <<>> /\ Upto = 0
  BY DEF Init, Upto
<1>3. SubSeq(sent, 1, Upto) = <<>>
  BY <1>2
<1>4. LinesHandled = <<>>
  <2>1. [k \in DOMAIN handed |-> Lines(handed[k])] = <<>>
    BY <1>2
  <2> QED
    BY <2>1 DEF LinesHandled, FlattenSeq
<1>5. LineSpans(<<>>) = {}
  BY DEF LineSpans
<1> QED
  BY <1>1, <1>3, <1>4, <1>5, NoText
     DEF LinesInv, CutAtLineEnd, LinesIndependentOfReads, Closed

LEMMA LinesInvStep == LinesInv /\ [Next]_vars => LinesInv'
<1> SUFFICES ASSUME LinesInv, [Next]_vars PROVE LinesInv'
  OBVIOUS
<1>1. FramingInv /\ CutAtLineEnd /\ LinesIndependentOfReads
  BY DEF LinesInv
<1>2. FramingInv'
  BY <1>1, FramingInvStep
<1>3. [Stream!StreamNext]_(Stream!streamVars)
  BY <1>1, StreamStep
<1> SUFFICES CutAtLineEnd' /\ LinesIndependentOfReads'
  BY <1>2 DEF LinesInv
<1>4. CASE Stream!Write
  <2>1. PICK b \in Byte : sent' = Append(sent, b)
    BY <1>4 DEF Stream!Write
  <2>2. UNCHANGED <<handed, open>> /\ Upto' = Upto /\ open
    BY <1>4 DEF Stream!Write
  <2>3. /\ Upto \in 0 .. Len(sent) /\ Len(sent) \in Nat /\ sent \in Seq(Byte)
    BY <1>1, <2>2, UptoInRange DEF FramingInv, TypeOK
  <2>4. /\ sent' \in Seq(Byte) /\ Len(sent') = Len(sent) + 1
        /\ \A i \in 1 .. Len(sent) : sent'[i] = sent[i]
    BY <2>1, <2>3
  <2>5. HasNul(sent) => HasNul(sent')
    BY <2>3, <2>4 DEF HasNul, ToSet
  <2>6. SubSeq(sent', 1, Upto) = SubSeq(sent, 1, Upto)
    <3>1. /\ SubSeq(sent', 1, Upto) = [i \in 1 .. Upto |-> sent'[i]]
          /\ SubSeq(sent, 1, Upto) = [i \in 1 .. Upto |-> sent[i]]
      BY <2>3, <2>4
    <3>2. \A i \in 1 .. Upto : i \in 1 .. Len(sent)
      BY <2>3
    <3> QED
      BY <2>4, <3>1, <3>2
  <2> QED
    BY <1>1, <2>2, <2>5, <2>6, NothingHandled
<1>5. CASE Stream!Leave
  BY <1>1, <1>5, NothingHandled DEF Stream!Leave
<1>6. CASE Stream!Close
  BY <1>1, <1>6, NothingHandled DEF Stream!Close
<1>7. CASE \E j \in 1 .. Len(sent) : \E k \in j .. Len(sent) :
               Stream!HandOver(j, k)
  BY <1>7, HandOverKeepsLines
<1>8. CASE UNCHANGED Stream!streamVars
  BY <1>1, <1>8, NothingHandled DEF Stream!streamVars
<1> QED
  BY <1>3, <1>4, <1>5, <1>6, <1>7, <1>8 DEF Stream!StreamNext

\* The lines handled are those of the stream, each once and in order, for every
\* way in which the network cuts it and however reads and buffer fall together.
THEOREM LinesIndependent == Spec => []LinesIndependentOfReads
<1>1. LinesInv => LinesIndependentOfReads
  BY DEF LinesInv
<1> QED
  BY <1>1, LinesInvInit, LinesInvStep, PTL DEF Spec
=============================================================================
