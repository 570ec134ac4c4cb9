-------------------------- MODULE ConnectionProofs --------------------------
(***************************************************************************)
(* Proofs about what a connection does with its peer.  The first part is   *)
(* about RecvBuffer, for buffers, heads and streams of every size; the     *)
(* second about TimeoutWheel, for wheels, heartbeats and limits of every   *)
(* size.  The two parts share no lemma.                                    *)
(***************************************************************************)
EXTENDS RecvBuffer, TimeoutWheel, SequenceTheorems, TLAPS

-----------------------------------------------------------------------------
(* RecvBuffer: streams and bytes                                           *)

\* The types of the parts of a stream.
LEMMA StreamTypes ==
    ASSUME NEW s, IsStream(s)
    PROVE  /\ s.last \in Nat
           /\ \A i \in 1 .. s.last + 1 : s.start[i] \in Nat
           /\ \A i \in 1 .. s.last : /\ i \in Nat /\ i + 1 \in 1 .. s.last + 1
                                     /\ s.start[i] \in Nat
                                     /\ s.start[i + 1] \in Nat
                                     /\ s.field[i] \in Nat
           /\ s.start[s.last + 1] \in Nat
<1>1. s.last \in Nat
  BY DEF IsStream
<1>2. \A i \in 1 .. s.last + 1 : s.start[i] \in Nat
  BY DEF IsStream
<1>3. \A i \in 1 .. s.last : i \in 1 .. s.last + 1 /\ i + 1 \in 1 .. s.last + 1
  BY <1>1
<1>4. s.last + 1 \in 1 .. s.last + 1
  BY <1>1
<1>5. \A i \in 1 .. s.last : s.field[i] \in Nat
  BY DEF IsStream
<1> QED
  BY <1>1, <1>2, <1>3, <1>4, <1>5

\* Messages lie behind each other.
LEMMA StartsIncrease ==
    ASSUME NEW s, IsStream(s),
           NEW j \in 1 .. s.last + 1, NEW k \in 1 .. s.last + 1, j < k
    PROVE  s.start[j] < s.start[k]
<1>1. s.start[j] \in Nat /\ s.start[k] \in Nat
  BY DEF IsStream
<1>2. s.start[j] + MinLen =< s.start[k]
  BY DEF IsStream
<1>3. MinLen \in Nat /\ MinLen > 0
  BY SizesAssumption
<1> QED
  BY <1>1, <1>2, <1>3

\* The position of byte o of message i belongs to message i and to no other.
LEMMA MsgOfPosition ==
    ASSUME NEW s, IsStream(s), NEW i \in 1 .. s.last, NEW o \in Nat,
           s.start[i] + o < s.start[i + 1]
    PROVE  MsgOf(s, s.start[i] + o) = i
<1> DEFINE p == s.start[i] + o
           m == MsgOf(s, p)
<1>1. s.start[i] \in Nat /\ s.start[i + 1] \in Nat /\ i \in Nat
  BY StreamTypes
<1>2. p \in Nat /\ s.start[i] =< p /\ p < s.start[i + 1]
  BY <1>1
<1>3. m \in 1 .. s.last /\ s.start[m] =< p /\ p < s.start[m + 1]
  BY <1>2 DEF MsgOf
<1>4. s.start[m] \in Nat /\ s.start[m + 1] \in Nat /\ m \in Nat
  BY <1>3, StreamTypes
<1> HIDE DEF p, m
<1>5. ~(m < i)
  <2>1. SUFFICES ASSUME m < i PROVE FALSE
    OBVIOUS
  <2>2. m + 1 \in 1 .. s.last + 1 /\ i \in 1 .. s.last + 1
    BY <1>3, StreamTypes
  <2>3. m + 1 = i \/ m + 1 < i
    BY <1>1, <1>4, <2>1
  <2>4. m + 1 = i \/ s.start[m + 1] < s.start[i]
    BY <2>2, <2>3, StartsIncrease
  <2> QED
    BY <1>1, <1>2, <1>3, <1>4, <2>4
<1>6. ~(i < m)
  <2>1. SUFFICES ASSUME i < m PROVE FALSE
    OBVIOUS
  <2>2. i + 1 \in 1 .. s.last + 1 /\ m \in 1 .. s.last + 1
    BY <1>3, StreamTypes
  <2>3. i + 1 = m \/ i + 1 < m
    BY <1>1, <1>4, <2>1
  <2>4. i + 1 = m \/ s.start[i + 1] < s.start[m]
    BY <2>2, <2>3, StartsIncrease
  <2> QED
    BY <1>1, <1>2, <1>3, <1>4, <2>4
<1>7. m = i
  BY <1>1, <1>4, <1>5, <1>6
<1> QED
  BY <1>7 DEF m, p

\* What byte o of message i is.
LEMMA ByteOfMessage ==
    ASSUME NEW s, IsStream(s), NEW i \in 1 .. s.last, NEW o \in Nat,
           s.start[i] + o < s.start[i + 1]
    PROVE  /\ o < ConstLen => Byte(s, s.start[i] + o) = <<"name", o>>
           /\ o = ConstLen => Byte(s, s.start[i] + o) = <<"length", s.field[i]>>
           /\ o > ConstLen => Byte(s, s.start[i] + o) = <<"body", s.start[i] + o>>
<1> DEFINE p == s.start[i] + o
<1>1. MsgOf(s, p) = i
  BY MsgOfPosition
<1>2. s.start[i] \in Nat
  BY StreamTypes
<1>3. p - s.start[i] = o
  BY <1>2
<1>4. ConstLen \in Nat
  BY SizesAssumption
<1> HIDE DEF p
<1>5. Byte(s, p) = IF o < ConstLen THEN <<"name", o>>
                   ELSE IF o = ConstLen THEN <<"length", s.field[i]>>
                   ELSE <<"body", p>>
  BY <1>1, <1>3 DEF Byte
<1>6. /\ o < ConstLen => Byte(s, p) = <<"name", o>>
      /\ o = ConstLen => Byte(s, p) = <<"length", s.field[i]>>
      /\ o > ConstLen => Byte(s, p) = <<"body", p>>
  BY <1>4, <1>5
<1> QED
  BY <1>6 DEF p

\* A "body" byte names its own position.
LEMMA BodyByte ==
    ASSUME NEW s, NEW p \in Nat, NEW q \in Nat, Byte(s, p) = <<"body", q>>
    PROVE  p = q
BY DEF Byte

\* Every position of a stream holds a byte.
LEMMA ByteType ==
    ASSUME NEW s, IsStream(s), NEW p \in 0 .. s.start[s.last + 1] - 1
    PROVE  Byte(s, p) \in Bytes
<1> DEFINE i == MsgOf(s, p)
<1>1. i \in 1 .. s.last /\ s.start[i] =< p /\ p < s.start[i + 1]
  BY DEF IsStream, MsgOf
<1>2. s.start[i] \in Nat /\ s.field[i] \in Nat
  BY <1>1, StreamTypes
<1>3. p \in Nat
  BY StreamTypes
<1>4. p - s.start[i] \in Nat
  BY <1>1, <1>2, <1>3
<1> QED
  BY <1>2, <1>3, <1>4 DEF Byte, Bytes

-----------------------------------------------------------------------------
(* RecvBuffer: what the invariant says of the message at head              *)

\* Types that every step below uses.
LEMMA StateTypes ==
    ASSUME TypeOK
    PROVE  /\ IsStream(stream)
           /\ BufSize \in Nat /\ MinLen \in Nat /\ ConstLen \in Nat
           /\ ConstLen + 2 =< MinLen /\ MinLen =< BufSize
           /\ rcvd \in Nat /\ recvSize \in Nat /\ head \in Nat
           /\ Len(delivered) \in Nat
           /\ stream.last \in Nat
           /\ Total \in Nat
<1>1. IsStream(stream)
  BY DEF TypeOK
<1>2. Total \in Nat /\ stream.last \in Nat
  BY <1>1, StreamTypes DEF Total
<1>3. recvSize \in Nat /\ head \in Nat
  BY SizesAssumption DEF TypeOK
<1> QED
  BY <1>1, <1>2, <1>3, SizesAssumption DEF TypeOK

\* The length field at head is a number.
LEMMA FieldType ==
    ASSUME IInv, InLoop
    PROVE  Field \in Nat
<1>1. head + ConstLen \in 0 .. BufSize - 1
  <2>1. head + recvSize =< BufSize /\ recvSize >= MinLen
    BY DEF IInv, InLoop, UnreadInBuffer
  <2>2. TypeOK
    BY DEF IInv
  <2> QED
    BY <2>1, <2>2, StateTypes
<1>2. buf[head + ConstLen] \in Bytes
  BY <1>1 DEF IInv, TypeOK
<1> QED
  BY <1>2 DEF Bytes, Field

\* A good message in front of an unspoilt buffer shows its own length.
LEMMA FieldOfNext ==
    ASSUME IInv, InLoop, ~lost, NEW i, i = Len(delivered) + 1, i \in stream.good
    PROVE  /\ i \in 1 .. stream.last
           /\ Consumed = stream.start[i]
           /\ Field = stream.field[i]
           /\ Consumed + Field = stream.start[i + 1]
           /\ MinLen =< Field /\ Field =< BufSize
<1>1. IsStream(stream)
  BY StateTypes DEF IInv
<1>2. i \in 1 .. stream.last
  BY <1>1 DEF IsStream
<1>3. stream.start[i] \in Nat /\ stream.start[i + 1] \in Nat /\ i + 1 \in 1 .. stream.last + 1
      /\ i \in Nat /\ stream.field[i] \in Nat /\ stream.last \in Nat
  BY <1>1, <1>2, StreamTypes
<1>4. Consumed = stream.start[i]
  BY DEF IInv, AtBoundary, InLoop
<1>5. stream.start[i] + MinLen =< stream.start[i + 1]
  <2>1. i \in 1 .. stream.last + 1 /\ i < i + 1
    BY <1>2, <1>3
  <2>2. \A j, k \in 1 .. stream.last + 1 :
            j < k => stream.start[j] + MinLen =< stream.start[k]
    BY <1>1 DEF IsStream
  <2> QED
    BY <1>3, <2>1, <2>2
<1>6. /\ stream.start[i] + stream.field[i] = stream.start[i + 1]
      /\ stream.field[i] =< BufSize
  BY <1>1 DEF IsStream
<1>7. ConstLen \in 0 .. recvSize - 1
  BY StateTypes DEF IInv, InLoop
<1>8. buf[head + ConstLen] = Byte(stream, Consumed + ConstLen)
  BY <1>7 DEF IInv, UnreadIsStream, InLoop
<1>9. stream.start[i] + ConstLen < stream.start[i + 1] /\ ConstLen \in Nat
  BY <1>3, <1>5, SizesAssumption
<1>10. Byte(stream, Consumed + ConstLen) = <<"length", stream.field[i]>>
  BY <1>1, <1>2, <1>4, <1>9, ByteOfMessage
<1>11. Field = stream.field[i]
  BY <1>8, <1>10 DEF Field
<1> QED
  BY <1>2, <1>3, <1>4, <1>5, <1>6, <1>11, SizesAssumption

\* Such a message is accepted once it is there in full.
LEMMA NextAccepted ==
    ASSUME IInv, WholeMessage, ~lost, Len(delivered) + 1 \in stream.good
    PROVE  Len(delivered) + 1 \in Accepted(Field)
<1> DEFINE i == Len(delivered) + 1
<1>1. InLoop
  BY DEF WholeMessage
<1>2. Consumed = stream.start[i] /\ Field = stream.field[i]
  BY <1>1, FieldOfNext
<1>3. Field \in Nat /\ recvSize \in Nat /\ MinLen \in Nat
  BY <1>1, FieldType, StateTypes DEF IInv
<1>4. ASSUME NEW o \in 0 .. Field - 1
      PROVE  buf[head + o] = Byte(stream, stream.start[i] + o)
  <2>1. o \in 0 .. recvSize - 1
    BY <1>3 DEF WholeMessage, HaveWhole
  <2> QED
    BY <1>1, <1>2, <2>1 DEF IInv, UnreadIsStream, InLoop
<1> QED
  BY <1>2, <1>4 DEF Accepted, Intact

\* Whatever verify() accepts is the next message of the stream: its last byte
\* lies behind any stale bytes and names its position.
LEMMA AcceptedIsNext ==
    ASSUME IInv, WholeMessage, NEW i \in Accepted(Field)
    PROVE  /\ i = Len(delivered) + 1
           /\ i \in 1 .. stream.last
           /\ i \in stream.good
           /\ Consumed = stream.start[i]
           /\ Consumed + Field = stream.start[i + 1]
<1> DEFINE o == Field - 1
           k == Len(delivered) + 1
<1>1. IsStream(stream) /\ InLoop
  BY StateTypes DEF IInv, WholeMessage
<1>2. i \in stream.good /\ i \in 1 .. stream.last /\ stream.field[i] = Field
  BY <1>1 DEF Accepted, IsStream
<1>3. stream.start[i] \in Nat /\ stream.start[i + 1] \in Nat /\ i \in Nat
  BY <1>1, <1>2, StreamTypes
<1>4. stream.start[i] + Field = stream.start[i + 1]
  BY <1>1, <1>2 DEF IsStream
<1>5. Field \in Nat
  BY <1>1, FieldType
<1>6. /\ o \in 0 .. Field - 1 /\ o \in 0 .. recvSize - 1 /\ o \in Nat
      /\ o + 1 >= MinLen /\ o > ConstLen
  BY <1>5, StateTypes DEF IInv, WholeMessage, LengthOk, HaveWhole
<1>7. buf[head + o] = Byte(stream, stream.start[i] + o)
  BY <1>6 DEF Accepted, Intact
<1>8. buf[head + o] = Byte(stream, Consumed + o)
  BY <1>1, <1>6 DEF IInv, UnreadIsStream, InLoop
<1>9. stream.start[i] + o < stream.start[i + 1]
  BY <1>3, <1>4, <1>5
<1>10. Byte(stream, stream.start[i] + o) = <<"body", stream.start[i] + o>>
  BY <1>1, <1>2, <1>6, <1>9, ByteOfMessage
<1>11. Consumed \in Nat
  BY StateTypes DEF IInv, UnreadInBuffer, Consumed
<1>12. Consumed + o = stream.start[i] + o
  <2>1. Consumed + o \in Nat /\ stream.start[i] + o \in Nat
    BY <1>3, <1>6, <1>11
  <2> HIDE DEF o
  <2> QED
    BY <1>7, <1>8, <1>10, <2>1, BodyByte
<1>13. Consumed = stream.start[i]
  BY <1>3, <1>6, <1>11, <1>12
<1>14. /\ k \in 1 .. stream.last + 1 /\ k \in Nat
       /\ stream.start[k] = stream.start[i]
  BY <1>1, <1>13, StateTypes DEF IInv, AtBoundary, InLoop
<1>15. i \in 1 .. stream.last + 1
  BY <1>1, <1>2, StreamTypes
<1> HIDE DEF k
<1>16. ~(k < i) /\ ~(i < k)
  BY <1>1, <1>3, <1>14, <1>15, StartsIncrease
<1>17. k = i
  BY <1>3, <1>14, <1>16
<1> QED
  BY <1>2, <1>4, <1>13, <1>17 DEF k

-----------------------------------------------------------------------------
(* RecvBuffer: each step preserves the invariant                           *)

LEMMA InitStep == Init => IInv
<1> SUFFICES ASSUME Init PROVE IInv
  OBVIOUS
<1>1. stream \in Streams /\ IsStream(stream)
  BY StreamsAssumption DEF Init
<1>2. stream.last \in Nat /\ Total \in Nat /\ stream.start[1] = 0
  BY <1>1, StreamTypes DEF Total, IsStream
<1>3. TypeOK
  <2>1. buf \in [0 .. BufSize - 1 -> Bytes]
    BY DEF Init, Bytes
  <2>2. delivered \in Seq(Nat)
    BY DEF Init
  <2>3. recvSize \in 0 .. BufSize /\ head \in 0 .. BufSize /\ rcvd \in Nat
    BY SizesAssumption DEF Init
  <2> QED
    BY <1>1, <2>1, <2>2, <2>3 DEF Init, TypeOK
<1>4. rcvd =< Total /\ UnreadInBuffer /\ ReadHasRoom /\ HeadReset
  BY <1>2, SizesAssumption DEF Init, UnreadInBuffer, ReadHasRoom, HeadReset
<1>5. AtBoundary
  BY <1>2 DEF Init, AtBoundary, Consumed
<1>6. UnreadIsStream /\ NameInFront /\ DeliveredInOrder /\ RefusedOnlyAfterLoss
  BY DEF Init, UnreadIsStream, NameInFront, DeliveredInOrder, RefusedOnlyAfterLoss
<1>7. NoMessageHeldBack
  <2>1. SUFFICES ASSUME 1 \in stream.good PROVE 0 < stream.start[2]
    BY DEF Init, NoMessageHeldBack
  <2>2. 1 \in 1 .. stream.last + 1 /\ 2 \in 1 .. stream.last + 1
    BY <1>1, <1>2, <2>1 DEF IsStream
  <2>3. stream.start[1] < stream.start[2]
    BY <1>1, <2>2, StartsIncrease
  <2> QED
    BY <1>2, <2>3
<1> QED
  BY <1>3, <1>4, <1>5, <1>6, <1>7 DEF IInv

LEMMA ReceiveStep ==
    ASSUME IInv, NEW n \in 1 .. BufSize, Receive(n)
    PROVE  IInv'
<1>1. /\ IsStream(stream) /\ BufSize \in Nat /\ MinLen \in Nat
      /\ rcvd \in Nat /\ recvSize \in Nat /\ Total \in Nat /\ n \in Nat
      /\ recvSize =< rcvd /\ recvSize + n =< BufSize /\ head = 0
  BY StateTypes DEF IInv, Receive, HeadReset, UnreadInBuffer
<1>2. TypeOK'
  <2>1. ASSUME NEW j \in 0 .. BufSize - 1, recvSize =< j, j < recvSize + n
        PROVE  Byte(stream, rcvd + (j - recvSize)) \in Bytes
    <3>1. rcvd + (j - recvSize) \in 0 .. Total - 1
      BY <1>1, <2>1 DEF Receive
    <3> QED
      BY <1>1, <3>1, ByteType DEF Total
  <2>2. buf' \in [0 .. BufSize - 1 -> Bytes]
    BY <2>1 DEF Receive, IInv, TypeOK
  <2>3. recvSize' \in 0 .. BufSize /\ head' \in 0 .. BufSize /\ rcvd' \in Nat
    BY <1>1 DEF Receive
  <2> QED
    BY <2>2, <2>3 DEF Receive, IInv, TypeOK
<1>3. (rcvd =< Total)' /\ UnreadInBuffer'
  BY <1>1 DEF Receive, Total, UnreadInBuffer
<1>4. ReadHasRoom' /\ HeadReset' /\ NameInFront' /\ NoMessageHeldBack'
  BY DEF Receive, ReadHasRoom, HeadReset, NameInFront, NoMessageHeldBack
<1>5. Consumed' = Consumed
  BY <1>1 DEF Receive, Consumed
<1>6. AtBoundary' /\ DeliveredInOrder' /\ RefusedOnlyAfterLoss'
  BY <1>5 DEF Receive, IInv, AtBoundary, DeliveredInOrder, RefusedOnlyAfterLoss
<1>7. UnreadIsStream'
  <2>0. SUFFICES ASSUME NEW j \in 0 .. recvSize' - 1, ~lost' \/ j + 1 >= MinLen
                 PROVE  buf'[head' + j] = Byte(stream', Consumed' + j)
    BY DEF UnreadIsStream
  <2>1. recvSize' = recvSize + n /\ head' = 0 /\ stream' = stream /\ lost' = lost
    BY DEF Receive
  <2>2. j \in 0 .. recvSize + n - 1 /\ j \in Nat /\ (~lost \/ j + 1 >= MinLen)
    BY <1>1, <2>0, <2>1
  <2>3. j \in 0 .. BufSize - 1 /\ head' + j = j /\ head + j = j
    BY <1>1, <2>1, <2>2
  <2>4. buf'[j] = IF recvSize =< j /\ j < recvSize + n
                  THEN Byte(stream, rcvd + (j - recvSize)) ELSE buf[j]
    BY <2>3 DEF Receive
  <2>5. CASE j < recvSize
    <3>1. j \in 0 .. recvSize - 1 /\ ~(recvSize =< j)
      BY <1>1, <2>2, <2>5
    <3>2. buf[head + j] = Byte(stream, Consumed + j)
      BY <2>2, <3>1 DEF IInv, UnreadIsStream, Receive
    <3> QED
      BY <1>5, <2>1, <2>3, <2>4, <3>1, <3>2
  <2>6. CASE j >= recvSize
    <3>1. rcvd + (j - recvSize) = Consumed + j
      BY <1>1, <2>2, <2>6 DEF Consumed
    <3>2. j < recvSize + n
      BY <1>1, <2>2
    <3> QED
      BY <1>5, <2>1, <2>3, <2>4, <2>6, <3>1, <3>2
  <2> QED
    BY <1>1, <2>2, <2>5, <2>6
<1> QED
  BY <1>2, <1>3, <1>4, <1>6, <1>7 DEF IInv

\* Steps that stop the connection without a verdict, or only invalidate it.
LEMMA CloseStep ==
    ASSUME IInv, ReadFails \/ ClosedElsewhere
    PROVE  IInv'
<1>1. /\ UNCHANGED <<stream, rcvd, buf, recvSize, head, delivered, why, lost>>
      /\ pc' = pc \/ pc' = "stopped"
      /\ valid' = FALSE
  BY DEF ReadFails, ClosedElsewhere
<1>2. TypeOK' /\ (rcvd =< Total)' /\ UnreadInBuffer'
  BY <1>1 DEF IInv, TypeOK, Total, UnreadInBuffer
<1>3. ReadHasRoom' /\ HeadReset' /\ NameInFront' /\ NoMessageHeldBack'
  BY <1>1 DEF IInv, ReadHasRoom, HeadReset, NameInFront, NoMessageHeldBack
<1>4. AtBoundary' /\ UnreadIsStream' /\ DeliveredInOrder' /\ RefusedOnlyAfterLoss'
  BY <1>1 DEF IInv, AtBoundary, UnreadIsStream, DeliveredInOrder, RefusedOnlyAfterLoss,
              Consumed
<1> QED
  BY <1>2, <1>3, <1>4 DEF IInv

LEMMA LengthErrorStep ==
    ASSUME IInv, LengthError
    PROVE  IInv'
<1>1. TypeOK' /\ (rcvd =< Total)' /\ UnreadInBuffer'
  BY DEF LengthError, Refuse, IInv, TypeOK, Total, UnreadInBuffer
<1>2. ReadHasRoom' /\ HeadReset' /\ NameInFront' /\ NoMessageHeldBack'
  BY DEF LengthError, Refuse, ReadHasRoom, HeadReset, NameInFront, NoMessageHeldBack
<1>3. AtBoundary' /\ UnreadIsStream' /\ DeliveredInOrder'
  BY DEF LengthError, Refuse, IInv, AtBoundary, UnreadIsStream, DeliveredInOrder
<1>4. RefusedOnlyAfterLoss'
  <2>1. SUFFICES ASSUME Len(delivered) + 1 \in stream.good, ~lost PROVE FALSE
    BY DEF LengthError, RefusedOnlyAfterLoss
  <2>2. MinLen =< Field /\ Field =< BufSize
    BY <2>1, FieldOfNext DEF LengthError
  <2>3. Field \in Nat
    BY FieldType DEF LengthError
  <2> QED
    BY <2>2 DEF LengthError, LengthOk
<1> QED
  BY <1>1, <1>2, <1>3, <1>4 DEF IInv

\* Consuming a message keeps the indices in range.
LEMMA AdvanceStep ==
    ASSUME IInv, WholeMessage, Advance
    PROVE  /\ recvSize' \in 0 .. BufSize /\ head' \in 0 .. BufSize
           /\ (rcvd =< Total)' /\ UnreadInBuffer'
           /\ Consumed' = Consumed + Field
           /\ head' > 0
<1>1. Field \in Nat
  BY FieldType DEF WholeMessage
<1>2. /\ BufSize \in Nat /\ MinLen \in Nat /\ MinLen > 0
      /\ rcvd \in Nat /\ recvSize \in Nat /\ head \in Nat
      /\ recvSize =< rcvd /\ head + recvSize =< BufSize
  BY StateTypes DEF IInv, UnreadInBuffer
<1>3. recvSize' = recvSize - Field /\ head' = head + Field /\ rcvd' = rcvd
  BY DEF Advance
<1>4. MinLen =< Field /\ recvSize >= Field
  BY DEF WholeMessage, LengthOk, HaveWhole
<1>5. (rcvd =< Total)'
  BY DEF Advance, IInv, Total
<1>6. recvSize' \in 0 .. BufSize /\ head' \in 0 .. BufSize /\ head' > 0
  BY <1>1, <1>2, <1>3, <1>4
<1>7. UnreadInBuffer' /\ Consumed' = Consumed + Field
  <2> HIDE DEF Field
  <2> QED
    BY <1>1, <1>2, <1>3, <1>4 DEF UnreadInBuffer, Consumed
<1> QED
  BY <1>5, <1>6, <1>7

LEMMA VerifyFailsStep ==
    ASSUME IInv, VerifyFails
    PROVE  IInv'
<1>1. /\ WholeMessage /\ Advance /\ pc' = "stopped" /\ valid' = FALSE /\ why' = "verify"
      /\ UNCHANGED <<stream, rcvd, buf, lost, delivered>>
  BY DEF VerifyFails, Refuse, Advance
<1>2. TypeOK' /\ (rcvd =< Total)' /\ UnreadInBuffer'
  BY <1>1, AdvanceStep DEF IInv, TypeOK
<1>3. ReadHasRoom' /\ HeadReset' /\ NameInFront' /\ NoMessageHeldBack'
  BY <1>1 DEF ReadHasRoom, HeadReset, NameInFront, NoMessageHeldBack
<1>4. AtBoundary' /\ UnreadIsStream' /\ DeliveredInOrder'
  BY <1>1 DEF IInv, AtBoundary, UnreadIsStream, DeliveredInOrder
<1>5. RefusedOnlyAfterLoss'
  BY <1>1, NextAccepted DEF RefusedOnlyAfterLoss, VerifyFails
<1> QED
  BY <1>2, <1>3, <1>4, <1>5 DEF IInv

\* Handing over the accepted message extends the delivered sequence by one.
LEMMA DeliverStep ==
    ASSUME IInv, WholeMessage, \E i \in Accepted(Field) : delivered' = Append(delivered, i)
    PROVE  /\ delivered' \in Seq(Nat)
           /\ Len(delivered') = Len(delivered) + 1
           /\ DeliveredInOrder'
<1>1. PICK i \in Accepted(Field) : delivered' = Append(delivered, i)
  OBVIOUS
<1>2. i = Len(delivered) + 1
  BY AcceptedIsNext
<1>3. delivered \in Seq(Nat) /\ Len(delivered) \in Nat /\ i \in Nat
  BY <1>2 DEF IInv, TypeOK
<1>4. delivered' \in Seq(Nat) /\ Len(delivered') = Len(delivered) + 1
  BY <1>1, <1>3
<1>5. ASSUME NEW k \in 1 .. Len(delivered') PROVE delivered'[k] = k
  <2>1. CASE k = i
    BY <1>1, <1>2, <1>3, <2>1
  <2>2. CASE k # i
    <3>1. k \in 1 .. Len(delivered)
      BY <1>2, <1>3, <1>4, <2>2
    <3>2. delivered'[k] = delivered[k]
      BY <1>1, <1>3, <3>1
    <3> QED
      BY <3>1, <3>2 DEF IInv, DeliveredInOrder
  <2> QED
    BY <2>1, <2>2
<1> QED
  BY <1>4, <1>5 DEF DeliveredInOrder

LEMMA HandleThrowsStep ==
    ASSUME IInv, HandleThrows
    PROVE  IInv'
<1>1. /\ WholeMessage /\ Advance /\ pc' = "stopped" /\ valid' = FALSE /\ why' = "handler"
      /\ UNCHANGED <<stream, rcvd, buf, lost>>
      /\ \E i \in Accepted(Field) : delivered' = Append(delivered, i)
  BY DEF HandleThrows, Refuse, Advance
<1>2. TypeOK' /\ (rcvd =< Total)' /\ UnreadInBuffer' /\ DeliveredInOrder'
  BY <1>1, AdvanceStep, DeliverStep DEF IInv, TypeOK
<1>3. ReadHasRoom' /\ HeadReset' /\ NameInFront' /\ NoMessageHeldBack'
  BY <1>1 DEF ReadHasRoom, HeadReset, NameInFront, NoMessageHeldBack
<1>4. AtBoundary' /\ UnreadIsStream' /\ RefusedOnlyAfterLoss'
  BY <1>1 DEF IInv, AtBoundary, UnreadIsStream, RefusedOnlyAfterLoss
<1> QED
  BY <1>2, <1>3, <1>4 DEF IInv

LEMMA HandleReturnsStep ==
    ASSUME IInv, HandleReturns
    PROVE  IInv'
<1>1. /\ WholeMessage /\ Advance /\ UNCHANGED <<pc, valid, why>> /\ InLoop
      /\ UNCHANGED <<stream, rcvd, buf, lost>>
      /\ pc = "parsing"
  BY DEF HandleReturns, Advance, WholeMessage, InLoop
<1>2. PICK i \in Accepted(Field) : delivered' = Append(delivered, i)
  BY DEF HandleReturns
<1>3. /\ i = Len(delivered) + 1 /\ i \in 1 .. stream.last /\ i \in stream.good
      /\ Consumed = stream.start[i] /\ Consumed + Field = stream.start[i + 1]
  BY <1>1, <1>2, AcceptedIsNext
<1>4. Len(delivered') = Len(delivered) + 1
  BY <1>1, <1>2, DeliverStep
<1>5. /\ Field \in Nat /\ recvSize \in Nat /\ head \in Nat /\ MinLen \in Nat /\ ConstLen \in Nat
      /\ Consumed \in Nat /\ MinLen =< Field /\ ConstLen + 2 =< MinLen
      /\ recvSize' = recvSize - Field /\ head' = head + Field /\ IsStream(stream)
  <2>1. Field \in Nat
    BY <1>1, FieldType
  <2>2. Consumed \in Nat
    BY StateTypes DEF IInv, UnreadInBuffer, Consumed
  <2> QED
    BY <1>1, <2>1, <2>2, StateTypes DEF IInv, WholeMessage, LengthOk, Advance
<1>6. Consumed' = Consumed + Field
  BY <1>1, AdvanceStep
<1>7. TypeOK' /\ (rcvd =< Total)' /\ UnreadInBuffer' /\ DeliveredInOrder'
  BY <1>1, <1>2, AdvanceStep, DeliverStep DEF IInv, TypeOK
<1>8. ReadHasRoom' /\ HeadReset' /\ NoMessageHeldBack'
  BY <1>1 DEF ReadHasRoom, HeadReset, NoMessageHeldBack
<1>9. AtBoundary'
  <2>1. i \in Nat /\ stream.last \in Nat /\ i =< stream.last /\ why = "none"
    BY <1>1, <1>3, <1>5, StreamTypes DEF IInv, AtBoundary
  <2>2. Len(delivered') = i /\ Consumed' = stream.start[i + 1] /\ stream' = stream
    BY <1>1, <1>3, <1>4, <1>6
  <2> QED
    BY <1>1, <2>1, <2>2 DEF AtBoundary
<1>10. UnreadIsStream'
  <2>1. SUFFICES ASSUME NEW j \in 0 .. recvSize' - 1
                 PROVE  buf'[head' + j] = Byte(stream', Consumed' + j)
    BY DEF UnreadIsStream
  <2> DEFINE k == Field + j
  <2>2. k \in 0 .. recvSize - 1 /\ k + 1 >= MinLen
    BY <1>5, <2>1
  <2>3. head' + j = head + k /\ Consumed' + j = Consumed + k
    BY <1>5, <1>6, <2>1
  <2> HIDE DEF k
  <2>4. buf[head + k] = Byte(stream, Consumed + k)
    BY <1>1, <2>2 DEF IInv, UnreadIsStream
  <2> QED
    BY <1>1, <2>3, <2>4
<1>11. NameInFront'
  <2>1. SUFFICES ASSUME NEW j \in 0 .. ConstLen - 1 PROVE buf[j] = <<"name", j>>
    BY <1>1 DEF NameInFront
  <2>2. CASE head > 0
    BY <1>1, <2>1, <2>2 DEF IInv, NameInFront
  <2>3. CASE head = 0
    <3>1. j \in 0 .. Field - 1 /\ j \in Nat /\ head + j = j /\ j < ConstLen /\ j < Field
      BY <1>5, <2>1, <2>3
    <3>2. buf[head + j] = Byte(stream, stream.start[i] + j)
      BY <1>2, <3>1 DEF Accepted, Intact
    <3>3. stream.start[i] + j < stream.start[i + 1]
      BY <1>3, <1>5, <3>1
    <3>4. Byte(stream, stream.start[i] + j) = <<"name", j>>
      BY <1>3, <1>5, <3>1, <3>3, ByteOfMessage
    <3> QED
      BY <3>1, <3>2, <3>4
  <2> QED
    BY <1>5, <2>2, <2>3
<1>12. RefusedOnlyAfterLoss'
  BY <1>1 DEF IInv, AtBoundary, RefusedOnlyAfterLoss
<1> QED
  BY <1>7, <1>8, <1>9, <1>10, <1>11, <1>12 DEF IInv

LEMMA PartialMessageStep ==
    ASSUME IInv, PartialMessage
    PROVE  IInv'
<1>1. /\ InLoop /\ pc = "parsing" /\ pc' = "reading" /\ head' = 0
      /\ MinLen =< Field /\ Field =< BufSize /\ ~(recvSize >= Field)
      /\ UNCHANGED <<stream, rcvd, recvSize, valid, delivered, why, lost>>
  BY DEF PartialMessage, InLoop, LengthOk, HaveWhole
<1>2. /\ recvSize \in Nat /\ head \in Nat /\ BufSize \in Nat /\ Field \in Nat
      /\ rcvd \in Nat /\ recvSize =< rcvd /\ Consumed \in Nat
      /\ head + recvSize =< BufSize /\ recvSize < BufSize
  <2>1. Field \in Nat
    BY <1>1, FieldType
  <2>2. recvSize \in Nat /\ BufSize \in Nat /\ recvSize =< rcvd /\ rcvd \in Nat
    BY StateTypes DEF IInv, UnreadInBuffer
  <2>3. recvSize < BufSize
    <3> HIDE DEF Field
    <3> QED
      BY <1>1, <2>1, <2>2
  <2> QED
    BY <2>1, <2>2, <2>3, StateTypes DEF IInv, UnreadInBuffer, Consumed
<1>3. \A j \in 0 .. BufSize - 1 : buf'[j] = IF j < recvSize THEN buf[head + j] ELSE buf[j]
  BY DEF PartialMessage
<1>4. TypeOK'
  <2>1. ASSUME NEW j \in 0 .. BufSize - 1, j < recvSize
        PROVE  buf[head + j] \in Bytes
    <3>1. head + j \in 0 .. BufSize - 1
      BY <1>2, <2>1
    <3> QED
      BY <3>1 DEF IInv, TypeOK
  <2>2. buf' \in [0 .. BufSize - 1 -> Bytes]
    BY <2>1 DEF PartialMessage, IInv, TypeOK
  <2> QED
    BY <1>1, <1>2, <2>2 DEF IInv, TypeOK
<1>5. (rcvd =< Total)' /\ UnreadInBuffer' /\ ReadHasRoom' /\ HeadReset' /\ NameInFront'
  BY <1>1, <1>2 DEF IInv, Total, UnreadInBuffer, ReadHasRoom, HeadReset, NameInFront
<1>6. AtBoundary' /\ DeliveredInOrder' /\ RefusedOnlyAfterLoss'
  BY <1>1 DEF IInv, AtBoundary, DeliveredInOrder, RefusedOnlyAfterLoss, Consumed
<1>7. UnreadIsStream'
  <2>1. SUFFICES ASSUME NEW j \in 0 .. recvSize' - 1, ~lost' \/ j + 1 >= MinLen
                 PROVE  buf'[head' + j] = Byte(stream', Consumed' + j)
    BY DEF UnreadIsStream
  <2>2. /\ j \in 0 .. recvSize - 1 /\ j \in 0 .. BufSize - 1 /\ j < recvSize
        /\ head' + j = j /\ Consumed' = Consumed /\ (~lost \/ j + 1 >= MinLen)
    BY <1>1, <1>2, <2>1 DEF Consumed
  <2>3. buf'[j] = buf[head + j]
    BY <1>3, <2>2
  <2>4. buf[head + j] = Byte(stream, Consumed + j)
    BY <1>1, <2>2 DEF IInv, UnreadIsStream
  <2> QED
    BY <1>1, <2>2, <2>3, <2>4
<1>8. NoMessageHeldBack'
  <2>1. SUFFICES ASSUME ~lost, Len(delivered) + 1 \in stream.good
                 PROVE  rcvd < stream.start[Len(delivered) + 2]
    BY <1>1 DEF NoMessageHeldBack
  <2>2. Consumed + Field = stream.start[Len(delivered) + 2]
    <3>1. Consumed + Field = stream.start[(Len(delivered) + 1) + 1]
      BY <1>1, <2>1, FieldOfNext
    <3>2. (Len(delivered) + 1) + 1 = Len(delivered) + 2
      BY StateTypes DEF IInv
    <3> QED
      BY <3>1, <3>2
  <2>3. rcvd < Consumed + Field
    <3> HIDE DEF Field
    <3> QED
      BY <1>1, <1>2 DEF Consumed
  <2> QED
    BY <2>2, <2>3
<1> QED
  BY <1>4, <1>5, <1>6, <1>7, <1>8 DEF IInv

LEMMA LoopEndsStep ==
    ASSUME IInv, LoopEnds
    PROVE  IInv'
<1>1. /\ pc = "parsing" /\ pc' = "reading" /\ head' = 0 /\ ~(recvSize >= MinLen)
      /\ lost' = (lost \/ (head > 0 /\ recvSize > ConstLen))
      /\ UNCHANGED <<stream, rcvd, buf, recvSize, valid, delivered, why>>
  BY DEF LoopEnds, InLoop
<1>2. /\ recvSize \in Nat /\ head \in Nat /\ BufSize \in Nat /\ MinLen \in Nat
      /\ rcvd \in Nat /\ recvSize =< rcvd /\ Consumed \in Nat /\ ConstLen \in Nat
      /\ MinLen =< BufSize /\ IsStream(stream) /\ rcvd =< Total /\ Total \in Nat
      /\ ConstLen + 2 =< MinLen /\ Len(delivered) \in Nat /\ stream.last \in Nat
  BY StateTypes DEF IInv, UnreadInBuffer, Consumed
<1>3. TypeOK'
  BY <1>1, <1>2 DEF IInv, TypeOK
<1>4. (rcvd =< Total)' /\ UnreadInBuffer' /\ ReadHasRoom' /\ HeadReset' /\ NameInFront'
  BY <1>1, <1>2 DEF IInv, Total, UnreadInBuffer, ReadHasRoom, HeadReset, NameInFront
<1>5. AtBoundary' /\ DeliveredInOrder' /\ RefusedOnlyAfterLoss'
  BY <1>1 DEF IInv, AtBoundary, DeliveredInOrder, RefusedOnlyAfterLoss, Consumed
<1>6. UnreadIsStream'
  <2>1. SUFFICES ASSUME NEW j \in 0 .. recvSize' - 1, ~lost' \/ j + 1 >= MinLen
                 PROVE  buf'[head' + j] = Byte(stream', Consumed' + j)
    BY DEF UnreadIsStream
  <2>2. /\ j \in 0 .. recvSize - 1 /\ j \in Nat /\ head' + j = j /\ Consumed' = Consumed
        /\ ~lost /\ (head > 0 => recvSize =< ConstLen)
    <3>1. j \in 0 .. recvSize - 1 /\ j \in Nat /\ head' + j = j /\ ~(j + 1 >= MinLen)
      BY <1>1, <1>2, <2>1
    <3>2. ~lost'
      BY <2>1, <3>1
    <3>3. ~lost /\ ~(head > 0 /\ recvSize > ConstLen)
      BY <1>1, <3>2
    <3>4. Consumed' = Consumed
      BY <1>1 DEF Consumed
    <3> QED
      BY <1>2, <3>1, <3>3, <3>4
  <2>3. buf[head + j] = Byte(stream, Consumed + j)
    BY <1>1, <2>2 DEF IInv, UnreadIsStream
  <2>4. CASE head = 0
    <3>1. head + j = j
      BY <2>2, <2>4
    <3> QED
      BY <1>1, <2>2, <2>3, <3>1
  <2>5. CASE head > 0
    <3> DEFINE i == Len(delivered) + 1
    <3>1. j \in 0 .. ConstLen - 1 /\ j < ConstLen
      BY <1>2, <2>2, <2>5
    <3>2. buf[j] = <<"name", j>>
      BY <1>1, <2>5, <3>1 DEF IInv, NameInFront
    <3>3. Consumed = stream.start[i] /\ i \in 1 .. stream.last + 1
      BY <1>1, <1>2 DEF IInv, AtBoundary
    <3>4. Consumed < Total
      BY <1>2, <2>2 DEF Consumed
    <3>5. i \in 1 .. stream.last
      BY <1>2, <3>3, <3>4 DEF Total
    <3>6. stream.start[i] + j < stream.start[i + 1]
      <4>1. i \in 1 .. stream.last + 1 /\ i + 1 \in 1 .. stream.last + 1 /\ i < i + 1
        BY <1>2, <3>5
      <4>2. \A k, m \in 1 .. stream.last + 1 :
                k < m => stream.start[k] + MinLen =< stream.start[m]
        BY <1>2 DEF IsStream
      <4>3. stream.start[i] + MinLen =< stream.start[i + 1]
        BY <4>1, <4>2
      <4>4. stream.start[i] \in Nat /\ stream.start[i + 1] \in Nat
        BY <1>2, <3>5, StreamTypes
      <4> HIDE DEF i
      <4> QED
        BY <1>2, <3>1, <4>3, <4>4, <2>2
    <3>7. Byte(stream, stream.start[i] + j) = <<"name", j>>
      BY <1>2, <2>2, <3>1, <3>5, <3>6, ByteOfMessage
    <3> QED
      BY <1>1, <2>2, <3>2, <3>3, <3>7
  <2> QED
    BY <1>2, <2>4, <2>5
<1>7. NoMessageHeldBack'
  <2> DEFINE i == Len(delivered) + 1
  <2>1. SUFFICES ASSUME i \in stream.good PROVE rcvd < stream.start[Len(delivered) + 2]
    BY <1>1 DEF NoMessageHeldBack
  <2>2. /\ i \in 1 .. stream.last + 1 /\ i + 1 \in 1 .. stream.last + 1 /\ i < i + 1
        /\ i \in 1 .. stream.last /\ i + 1 = Len(delivered) + 2
    BY <1>2, <2>1 DEF IsStream
  <2>3. Consumed = stream.start[i]
    BY <1>1 DEF IInv, AtBoundary
  <2>4. stream.start[i] + MinLen =< stream.start[i + 1]
    <3>1. \A k, m \in 1 .. stream.last + 1 :
              k < m => stream.start[k] + MinLen =< stream.start[m]
      BY <1>2 DEF IsStream
    <3> QED
      BY <2>2, <3>1
  <2>5. stream.start[i] \in Nat /\ stream.start[i + 1] \in Nat
    BY <1>2, <2>2, StreamTypes
  <2>6. rcvd < Consumed + MinLen
    BY <1>1, <1>2 DEF Consumed
  <2> QED
    BY <1>2, <2>2, <2>3, <2>4, <2>5, <2>6
<1> QED
  BY <1>3, <1>4, <1>5, <1>6, <1>7 DEF IInv

-----------------------------------------------------------------------------
(* RecvBuffer: theorems                                                    *)

\* The invariant holds in every reachable state, one step of the proof per
\* action of Next.
THEOREM Invariance == Spec => []IInv
<1>1. IInv /\ [Next]_vars => IInv'
  <2> SUFFICES ASSUME IInv, [Next]_vars PROVE IInv'
    OBVIOUS
  <2>1. ASSUME NEW n \in 1 .. BufSize, Receive(n) PROVE IInv'
    BY <2>1, ReceiveStep
  <2>2. CASE ReadFails
    BY <2>2, CloseStep
  <2>3. CASE ClosedElsewhere
    BY <2>3, CloseStep
  <2>4. CASE LengthError
    BY <2>4, LengthErrorStep
  <2>5. CASE VerifyFails
    BY <2>5, VerifyFailsStep
  <2>6. CASE HandleReturns
    BY <2>6, HandleReturnsStep
  <2>7. CASE HandleThrows
    BY <2>7, HandleThrowsStep
  <2>8. CASE PartialMessage
    BY <2>8, PartialMessageStep
  <2>9. CASE LoopEnds
    BY <2>9, LoopEndsStep
  <2>10. CASE UNCHANGED vars
    BY <2>10 DEF vars, IInv, TypeOK, Total, UnreadInBuffer, ReadHasRoom, HeadReset,
                 AtBoundary, UnreadIsStream, NameInFront, DeliveredInOrder,
                 RefusedOnlyAfterLoss, NoMessageHeldBack, Consumed
  <2> QED
    BY <2>1, <2>2, <2>3, <2>4, <2>5, <2>6, <2>7, <2>8, <2>9, <2>10 DEF Next, Parse
<1> QED
  BY InitStep, <1>1, PTL DEF Spec

\* Every variable keeps its shape; above all the counters of do_read stay within
\* m_recvBuff, whatever lengths the peer claims.
THEOREM TypeCorrect == Spec => []TypeOK
BY Invariance, PTL DEF IInv

\* What is left to handle is inside m_recvBuff, for every size of buffer.
THEOREM LeftoverInside == Spec => []UnreadInBuffer
BY Invariance, PTL DEF IInv

\* A posted receive always has room.
THEOREM AlwaysRoom == Spec => []ReadHasRoom
BY Invariance, PTL DEF IInv

\* Messages are handed over in stream order, whatever was left behind.
THEOREM InOrder == Spec => []DeliveredInOrder
BY Invariance, PTL DEF IInv

\* Without a leftover that was not moved, a good message is never refused ...
THEOREM GoodUnlessLost == Spec => []RefusedOnlyAfterLoss
BY Invariance, PTL DEF IInv

\* ... and never kept waiting after its last byte came in.
THEOREM NothingHeldBack == Spec => []NoMessageHeldBack
BY Invariance, PTL DEF IInv

-----------------------------------------------------------------------------
(* TimeoutWheel: remainders, lists and a wheel that gains or loses a task  *)

\* A remainder is determined by any quotient that leaves one.
LEMMA ModUnique ==
    ASSUME NEW a \in Nat, NEW n \in Nat \ {0}, NEW q \in Nat, NEW r \in 0 .. n - 1,
           a = n * q + r
    PROVE  a % n = r
<1> DEFINE d == a \div n
           m == a % n
<1>1. d \in Nat /\ m \in 0 .. n - 1 /\ a = n * d + m
  BY SMT
<1> HIDE DEF d, m
<1>2. n * (q - d) = m - r
  BY <1>1
<1>3. ASSUME q - d >= 1 PROVE FALSE
  <2>1. n * (q - d) >= n
    BY <1>3, <1>1
  <2>2. QED
    BY <2>1, <1>2, <1>1
<1>4. ASSUME q - d =< -1 PROVE FALSE
  <2>1. n * (q - d) =< -n
    BY <1>4, <1>1
  <2>2. QED
    BY <2>1, <1>2, <1>1
<1>5. q = d
  BY <1>3, <1>4, <1>1
<1>6. QED
  BY <1>5, <1>2, <1>1 DEF m

\* What a remainder and a quotient are.
LEMMA DivFacts ==
    ASSUME NEW a \in Nat, NEW n \in Nat \ {0}
    PROVE  a % n \in 0 .. n - 1 /\ a \div n \in Nat /\ a = n * (a \div n) + (a % n)
  BY SMT

\* A quotient is zero exactly for a number below the divisor.
LEMMA DivZero ==
    ASSUME NEW a \in Nat, NEW n \in Nat \ {0}
    PROVE  a >= n <=> a \div n >= 1
<1> DEFINE d == a \div n
           m == a % n
<1>1. d \in Nat /\ m \in 0 .. n - 1 /\ a = n * d + m
  BY DivFacts
<1> HIDE DEF d, m
<1>2. CASE d = 0
  BY <1>1, <1>2
<1>3. CASE d >= 1
  <2>1. n * d >= n
    BY <1>1, <1>3
  <2>2. QED
    BY <1>1, <1>3, <2>1
<1>4. QED
  BY <1>1, <1>2, <1>3 DEF d

\* A number of less than one lap, and of less than two.
LEMMA ModSmall ==
    ASSUME NEW n \in Nat \ {0}, NEW a \in 0 .. n - 1
    PROVE  a % n = a /\ (a + n) % n = a
<1>1. a = n * 0 + a /\ a + n = n * 1 + a /\ a \in Nat /\ a + n \in Nat
  OBVIOUS
<1>2. a % n = a
  BY ONLY n \in Nat \ {0}, a \in 0 .. n - 1, <1>1, ModUnique
<1>3. (a + n) % n = a
  BY ONLY n \in Nat \ {0}, a \in 0 .. n - 1, <1>1, ModUnique
<1>4. QED
  BY <1>2, <1>3

\* Adding to a slot goes round the wheel at most once.
LEMMA ModAdd ==
    ASSUME NEW n \in Nat \ {0}, NEW h \in Nat, NEW p \in 0 .. n - 1
    PROVE  (h + p) % n = IF (h % n) + p < n THEN (h % n) + p ELSE (h % n) + p - n
<1> DEFINE d == h \div n
           m == h % n
<1>1. d \in Nat /\ m \in 0 .. n - 1 /\ h = n * d + m
  BY DivFacts
<1> HIDE DEF d, m
<1>2. h + p \in Nat
  OBVIOUS
<1>3. CASE m + p < n
  <2>1. h + p = n * d + (m + p) /\ m + p \in 0 .. n - 1
    BY <1>1, <1>3
  <2>2. (h + p) % n = m + p
    BY ONLY <1>1, <1>2, <2>1, ModUnique, n \in Nat \ {0}
  <2>3. QED
    BY <1>3, <2>2 DEF m
<1>4. CASE ~(m + p < n)
  <2>1. h + p = n * (d + 1) + (m + p - n) /\ d + 1 \in Nat /\ m + p - n \in 0 .. n - 1
    BY <1>1, <1>4
  <2>2. (h + p) % n = m + p - n
    BY ONLY <1>2, <2>1, ModUnique, n \in Nat \ {0}
  <2>3. QED
    BY <1>4, <2>2 DEF m
<1>5. QED
  BY <1>3, <1>4

\* What erasing the element at p leaves of a list.
LEMMA RemoveAtFacts ==
    ASSUME NEW T, NEW q \in Seq(T), NEW p \in 1 .. Len(q)
    PROVE  /\ RemoveAt(q, p) \in Seq(T)
           /\ Len(RemoveAt(q, p)) = Len(q) - 1
           /\ \A i \in 1 .. Len(q) - 1 :
                  RemoveAt(q, p)[i] = q[IF i < p THEN i ELSE i + 1]
<1> DEFINE f == SubSeq(q, 1, p - 1)
           g == SubSeq(q, p + 1, Len(q))
<1>1. f \in Seq(T) /\ Len(f) = p - 1 /\ \A i \in 1 .. p - 1 : f[i] = q[i]
  <2>1. /\ f \in Seq(T)
        /\ Len(f) = IF 1 =< p - 1 THEN p - 1 - 1 + 1 ELSE 0
        /\ \A i \in 1 .. p - 1 - 1 + 1 : f[i] = q[1 + i - 1]
    <3>1. \A i \in 1 .. p - 1 : q[i] \in T
      OBVIOUS
    <3>2. QED
      BY <3>1, SubSeqProperties
  <2>2. QED
    BY <2>1
<1>2. g \in Seq(T) /\ Len(g) = Len(q) - p /\ \A i \in 1 .. Len(q) - p : g[i] = q[i + p]
  <2>1. /\ g \in Seq(T)
        /\ Len(g) = IF p + 1 =< Len(q) THEN Len(q) - (p + 1) + 1 ELSE 0
        /\ \A i \in 1 .. Len(q) - (p + 1) + 1 : g[i] = q[p + 1 + i - 1]
    <3>1. \A i \in p + 1 .. Len(q) : q[i] \in T
      OBVIOUS
    <3>2. QED
      BY <3>1, SubSeqProperties
  <2>2. QED
    BY <2>1
<1>3. RemoveAt(q, p) = f \o g
  BY DEF RemoveAt
<1> HIDE DEF f, g
<1>4. /\ f \o g \in Seq(T)
      /\ Len(f \o g) = Len(f) + Len(g)
      /\ \A i \in 1 .. Len(f) + Len(g) :
             (f \o g)[i] = IF i =< Len(f) THEN f[i] ELSE g[i - Len(f)]
  BY <1>1, <1>2, ConcatProperties
<1>5. ASSUME NEW i \in 1 .. Len(q) - 1
      PROVE  (f \o g)[i] = q[IF i < p THEN i ELSE i + 1]
  <2>1. (f \o g)[i] = IF i =< p - 1 THEN f[i] ELSE g[i - (p - 1)]
    BY <1>1, <1>2, <1>4
  <2>2. CASE i < p
    <3>1. i \in 1 .. p - 1
      BY <2>2
    <3>2. QED
      BY <1>1, <2>1, <2>2, <3>1
  <2>3. CASE ~(i < p)
    <3>1. i - (p - 1) \in 1 .. Len(q) - p /\ i - (p - 1) + p = i + 1
      BY <2>3
    <3>2. QED
      BY <1>2, <2>1, <2>3, <3>1
  <2>4. QED
    BY <2>2, <2>3
<1>6. Len(f \o g) = Len(q) - 1
  BY <1>1, <1>2, <1>4
<1>7. QED
  BY <1>3, <1>4, <1>5, <1>6

\* What pushing e to the front makes of a list.
LEMMA PushFacts ==
    ASSUME NEW T, NEW q \in Seq(T), NEW e \in T
    PROVE  /\ <<e>> \o q \in Seq(T)
           /\ Len(<<e>> \o q) = Len(q) + 1
           /\ (<<e>> \o q)[1] = e
           /\ \A i \in 2 .. Len(q) + 1 : (<<e>> \o q)[i] = q[i - 1]
  OBVIOUS

\* A task of the wheel, and the wheel.
TaskType == [conn : Conns, laps : Nat]
WheelType == [Slots -> Seq(TaskType)]

\* Where the task that is at i in slot t, once the one at p in slot s is gone,
\* was before.
Before(s, p, t, i) == IF t = s /\ i >= p THEN i + 1 ELSE i

\* Where the task that is at i in slot t, once one is in front in slot s, was before.
Under(s, t, i) == IF t = s THEN i - 1 ELSE i

\* r is w without the task at p in slot s, every other task kept.
Loses(w, s, p, r) ==
    /\ r \in WheelType
    /\ \A t \in Slots : \A i \in 1 .. Len(r[t]) :
           /\ Before(s, p, t, i) \in 1 .. Len(w[t])
           /\ r[t][i] = w[t][Before(s, p, t, i)]
    /\ \A t \in Slots : \A i \in 1 .. Len(w[t]) :
           t # s \/ i # p => \E j \in 1 .. Len(r[t]) : r[t][j] = w[t][i]

\* r is w with e in front in slot s, every other task kept.
Gains(w, s, e, r) ==
    /\ r \in WheelType
    /\ 1 \in 1 .. Len(r[s]) /\ r[s][1] = e
    /\ \A t \in Slots : \A i \in 1 .. Len(r[t]) :
           t # s \/ i # 1 =>
               /\ Under(s, t, i) \in 1 .. Len(w[t])
               /\ r[t][i] = w[t][Under(s, t, i)]
    /\ \A t \in Slots : \A i \in 1 .. Len(w[t]) :
           \E j \in 1 .. Len(r[t]) : r[t][j] = w[t][i]

\* Erasing a task takes it away and keeps every other.
LEMMA Removed ==
    ASSUME NEW w \in WheelType, NEW s \in Slots, NEW p \in 1 .. Len(w[s])
    PROVE  Loses(w, s, p, [w EXCEPT ![s] = RemoveAt(@, p)])
<1> DEFINE r == [w EXCEPT ![s] = RemoveAt(@, p)]
<1>1. /\ RemoveAt(w[s], p) \in Seq(TaskType)
      /\ Len(RemoveAt(w[s], p)) = Len(w[s]) - 1
      /\ \A i \in 1 .. Len(w[s]) - 1 :
             RemoveAt(w[s], p)[i] = w[s][IF i < p THEN i ELSE i + 1]
  BY RemoveAtFacts DEF WheelType
<1>2. r \in WheelType /\ r[s] = RemoveAt(w[s], p) /\ \A t \in Slots \ {s} : r[t] = w[t]
  BY <1>1 DEF WheelType
<1> HIDE DEF r
<1>3. \A t \in Slots : Len(w[t]) \in Nat
  BY DEF WheelType
<1>4. ASSUME NEW t \in Slots, NEW i \in 1 .. Len(r[t])
      PROVE  Before(s, p, t, i) \in 1 .. Len(w[t]) /\ r[t][i] = w[t][Before(s, p, t, i)]
  BY <1>1, <1>2, <1>3 DEF Before
<1>5. ASSUME NEW t \in Slots, NEW i \in 1 .. Len(w[t]), t # s \/ i # p
      PROVE  \E j \in 1 .. Len(r[t]) : r[t][j] = w[t][i]
  <2>1. CASE t # s
    BY <1>2, <2>1
  <2>2. CASE t = s /\ i < p
    <3>1. i \in 1 .. Len(w[s]) - 1
      BY <1>3, <2>2
    <3>2. QED
      BY <1>1, <1>2, <2>2, <3>1
  <2>3. CASE t = s /\ ~(i < p)
    <3>1. i - 1 \in 1 .. Len(w[s]) - 1 /\ ~(i - 1 < p) /\ i - 1 + 1 = i
      BY <1>3, <1>5, <2>3
    <3>2. r[t][i - 1] = w[t][i] /\ i - 1 \in 1 .. Len(r[t])
      BY <1>1, <1>2, <2>3, <3>1
    <3>3. QED
      BY <3>2
  <2>4. QED
    BY <2>1, <2>2, <2>3
<1>6. QED
  BY <1>2, <1>4, <1>5 DEF Loses, r

\* Pushing a task to the front of a slot adds it and keeps every other.
LEMMA Pushed ==
    ASSUME NEW w \in WheelType, NEW s \in Slots, NEW e \in TaskType
    PROVE  Gains(w, s, e, [w EXCEPT ![s] = <<e>> \o @])
<1> DEFINE r == [w EXCEPT ![s] = <<e>> \o @]
<1>1. /\ <<e>> \o w[s] \in Seq(TaskType)
      /\ Len(<<e>> \o w[s]) = Len(w[s]) + 1
      /\ (<<e>> \o w[s])[1] = e
      /\ \A i \in 2 .. Len(w[s]) + 1 : (<<e>> \o w[s])[i] = w[s][i - 1]
  BY PushFacts DEF WheelType
<1>2. r \in WheelType /\ r[s] = <<e>> \o w[s] /\ \A t \in Slots \ {s} : r[t] = w[t]
  BY <1>1 DEF WheelType
<1> HIDE DEF r
<1>3. \A t \in Slots : Len(w[t]) \in Nat
  BY DEF WheelType
<1>4. ASSUME NEW t \in Slots, NEW i \in 1 .. Len(r[t]), t # s \/ i # 1
      PROVE  Under(s, t, i) \in 1 .. Len(w[t]) /\ r[t][i] = w[t][Under(s, t, i)]
  BY <1>1, <1>2, <1>3, <1>4 DEF Under
<1>5. ASSUME NEW t \in Slots, NEW i \in 1 .. Len(w[t])
      PROVE  \E j \in 1 .. Len(r[t]) : r[t][j] = w[t][i]
  <2>1. CASE t # s
    BY <1>2, <2>1
  <2>2. CASE t = s
    <3>1. i + 1 \in 2 .. Len(w[s]) + 1 /\ i + 1 - 1 = i /\ i + 1 \in 1 .. Len(r[s])
      BY <1>1, <1>2, <1>3, <2>2
    <3>2. r[t][i + 1] = w[t][i] /\ i + 1 \in 1 .. Len(r[t])
      BY <1>1, <1>2, <2>2, <3>1
    <3>3. QED
      BY <3>2
  <2>3. QED
    BY <2>1, <2>2
<1>6. 1 \in 1 .. Len(r[s]) /\ r[s][1] = e
  BY <1>1, <1>2, <1>3
<1>7. QED
  BY <1>2, <1>4, <1>5, <1>6 DEF Gains, r

-----------------------------------------------------------------------------
(* TimeoutWheel: the inductive invariant                                   *)

\* Ticks until the loop comes to slot s, the next tick not counted.
Dist(s) == IF s >= point THEN s - point ELSE s + WheelCount - point

\* Ticks that a task lets pass after its slot's next turn.
Extra(laps) == IF laps =< 1 THEN 0 ELSE (laps - 1) * WheelCount

\* The loop is in slot s and has yet to come to, or is at, its task number i.
Waiting(s, i) == pos > 0 /\ s = Current /\ i >= pos

\* Ticks until the task at i in slot s fires.
Remaining(s, i) ==
    Extra(wheel[s][i].laps) + (IF Waiting(s, i) THEN 0 ELSE Dist(s) + 1)

\* The task of c is on its way into the wheel.
OnItsWay(c) == \E n \in adding : n.conn = c

\* Ticks since the last expiration of c was counted.
Elapsed(c) == IF step \in {"close", "return"} /\ Task.conn = c THEN 0 ELSE age[c]

\* No connection has two tasks in the wheel.
Unique ==
    \A s, t \in Slots : \A i \in 1 .. Len(wheel[s]), j \in 1 .. Len(wheel[t]) :
        wheel[s][i].conn = wheel[t][j].conn => s = t /\ i = j

\* At most one task is on its way, of an open connection with none in the wheel.
OneAdded ==
    /\ \A m, n \in adding : m = n
    /\ \A n \in adding :
           /\ conn[n.conn] = "open"
           /\ \A s \in Slots : \A i \in 1 .. Len(wheel[s]) : wheel[s][i].conn # n.conn

\* Every open connection has a task.
Watched ==
    \A c \in Conns :
        conn[c] = "open" =>
            \/ OnItsWay(c)
            \/ \E s \in Slots : \E i \in 1 .. Len(wheel[s]) : wheel[s][i].conn = c

\* Every task is of a connection that was accepted.
Started == \A s \in Slots : \A i \in 1 .. Len(wheel[s]) : conn[wheel[s][i].conn] # "new"

\* The age of a task and the ticks it has left make up the whole interval.
OnTime ==
    \A s \in Slots : \A i \in 1 .. Len(wheel[s]) :
        ~late[wheel[s][i].conn] =>
            age[wheel[s][i].conn] + Remaining(s, i) = TicksToFire

\* So they do for a task on its way, as long as it is not late.
AddedOnTime ==
    \A n \in adding :
        /\ n.laps = heartbeat \div WheelCount
        /\ age[n.conn] =< heartbeat % WheelCount
               => age[n.conn] + Dist(n.slot) = heartbeat % WheelCount

\* A handler that runs is of a task whose lap it is.
DueNow == step \in {"write", "close", "return"} => Due(Task.laps)

\* A counter is beyond its maximum only on the way to do_error, and zero before
\* the first expiration.
Counted ==
    /\ \A c \in Conns :
           /\ conn[c] = "open" /\ ~(step = "close" /\ Task.conn = c)
                  => count[c] =< TimeoutMax
           /\ conn[c] = "new" \/ OnItsWay(c) => count[c] = 0
    /\ tmp =< TimeoutMax

\* The silence is at most what the expirations counted and the age say.
NotLonger ==
    /\ \A c \in Conns :
           /\ OnItsWay(c) /\ age[c] =< TicksToFire => silence[c] =< age[c]
           /\ conn[c] = "open" /\ ~OnItsWay(c) /\ ~late[c]
                  => silence[c] =< count[c] * TicksToFire + Elapsed(c)
    /\ step = "write" /\ conn[Task.conn] = "open" /\ ~late[Task.conn]
           => silence[Task.conn] =< tmp * TicksToFire + TicksToFire

\* It is at least that less the one interval in which the last message came.
NotShorter ==
    /\ \A c \in Conns :
           conn[c] = "open" /\ ~OnItsWay(c) /\ ~late[c] /\ ~resetLost[c]
               => silence[c] + TicksToFire >= count[c] * TicksToFire + Elapsed(c)
    /\ step = "write" /\ ~late[Task.conn] /\ ~resetLost[Task.conn]
           => silence[Task.conn] >= tmp * TicksToFire

\* Which tasks there are, and when they fire.
Placed == Unique /\ OneAdded /\ Watched /\ Started

Timed == OnTime /\ DueNow /\ AddedOnTime

\* The inductive invariant.
WheelInv ==
    /\ WheelTypeOK
    /\ Placed
    /\ Timed
    /\ Counted
    /\ NotLonger
    /\ NotShorter

-----------------------------------------------------------------------------
(* TimeoutWheel: the arithmetic of slots and laps                          *)

\* The ranges of what the wheel computes with.
LEMMA WheelFacts ==
    ASSUME WheelTypeOK
    PROVE  /\ WheelCount \in Nat \ {0} /\ TimeoutMax \in Nat /\ heartbeat \in Nat
           /\ Slots = 0 .. WheelCount - 1 /\ point \in Slots
           /\ heartbeat % WheelCount \in 0 .. WheelCount - 1
           /\ heartbeat \div WheelCount \in Nat
           /\ wheel \in WheelType
<1>1. WheelCount \in Nat \ {0} /\ TimeoutMax \in Nat /\ heartbeat \in Nat
  BY WheelAssumption DEF WheelTypeOK
<1>2. wheel \in WheelType
  BY DEF WheelTypeOK, WheelType, TaskType
<1>3. QED
  BY <1>1, <1>2, DivFacts DEF WheelTypeOK, Slots

\* The slot that the loop works on is the one before m_currentPoint, and the
\* farthest from it.
LEMMA CurrentFacts ==
    ASSUME WheelTypeOK
    PROVE  /\ Current = IF point = 0 THEN WheelCount - 1 ELSE point - 1
           /\ Current \in Slots
           /\ Dist(Current) = WheelCount - 1
<1> USE WheelFacts
<1>1. CASE point = 0
  <2>1. Current = WheelCount - 1
    BY <1>1, ModSmall DEF Current
  <2>2. QED
    BY <1>1, <2>1 DEF Dist, Slots
<1>2. CASE point # 0
  <2>1. point + WheelCount - 1 = (point - 1) + WheelCount /\ point - 1 \in 0 .. WheelCount - 1
    BY <1>2 DEF Slots
  <2>2. Current = point - 1
    BY <2>1, ModSmall DEF Current
  <2>3. QED
    BY <1>2, <2>2 DEF Dist, Slots
<1>3. QED
  BY <1>1, <1>2

\* m_currentPoint goes round the wheel.
LEMMA PointFacts ==
    ASSUME WheelTypeOK
    PROVE  (point + 1) % WheelCount = IF point = WheelCount - 1 THEN 0 ELSE point + 1
<1> USE WheelFacts
<1>1. CASE point = WheelCount - 1
  <2>1. point + 1 = 0 + WheelCount /\ 0 \in 0 .. WheelCount - 1
    BY <1>1
  <2>2. (0 + WheelCount) % WheelCount = 0
    BY <2>1, ModSmall
  <2>3. QED
    BY <1>1, <2>1, <2>2
<1>2. CASE point # WheelCount - 1
  <2>1. point + 1 \in 0 .. WheelCount - 1
    BY <1>2 DEF Slots
  <2>2. QED
    BY <1>2, <2>1, ModSmall
<1>3. QED
  BY <1>1, <1>2

\* The slot of a new task is its heartbeat's remainder away.
LEMMA NewTaskFacts ==
    ASSUME WheelTypeOK, NEW c \in Conns
    PROVE  /\ NewTask(c) \in [conn : Conns, slot : Slots, laps : Nat]
           /\ NewTask(c).conn = c
           /\ NewTask(c).laps = heartbeat \div WheelCount
           /\ Dist(NewTask(c).slot) = heartbeat % WheelCount
<1> USE WheelFacts
<1> DEFINE m == heartbeat % WheelCount
           slot == (heartbeat + point) % WheelCount
<1>1. slot = IF m + point < WheelCount THEN m + point ELSE m + point - WheelCount
  BY ModAdd DEF Slots
<1>2. m \in 0 .. WheelCount - 1
  OBVIOUS
<1> HIDE DEF m
<1>3. slot \in Slots /\ Dist(slot) = m
  BY <1>1, <1>2 DEF Slots, Dist
<1>4. QED
  BY <1>3 DEF NewTask, m

\* What Extra and TicksToFire are.
LEMMA TicksFacts ==
    ASSUME WheelTypeOK
    PROVE  /\ TicksToFire = (heartbeat % WheelCount) + 1 + Extra(heartbeat \div WheelCount)
           /\ \A laps \in Nat : Extra(laps) \in Nat
           /\ \A laps \in Nat : laps > 1 => Extra(laps) = Extra(laps - 1) + WheelCount
           /\ TicksToFire \in Nat \ {0}
           /\ heartbeat % WheelCount < TicksToFire
           /\ TimeoutMax * TicksToFire \in Nat
           /\ MaxSilence = TimeoutMax * TicksToFire + TicksToFire
           /\ MaxSilence \in Nat
<1> USE WheelFacts
<1>1. ASSUME NEW laps \in Nat
      PROVE  Extra(laps) \in Nat
  <2>1. CASE laps =< 1
    BY <2>1 DEF Extra
  <2>2. CASE laps > 1
    <3>1. laps - 1 \in Nat
      BY <2>2
    <3>2. (laps - 1) * WheelCount \in Nat
      BY <3>1
    <3>3. QED
      BY <2>2, <3>2 DEF Extra
  <2>3. QED
    BY <2>1, <2>2
<1>2. ASSUME NEW laps \in Nat, laps > 1
      PROVE  Extra(laps) = Extra(laps - 1) + WheelCount
  BY <1>2, SMT DEF Extra
<1>3. TicksToFire = (heartbeat % WheelCount) + 1 + Extra(heartbeat \div WheelCount)
  <2> DEFINE m == heartbeat % WheelCount
             d == heartbeat \div WheelCount
  <2>1. d \in Nat
    OBVIOUS
  <2>2. heartbeat >= WheelCount <=> d >= 1
    BY DivZero
  <2>3. TicksToFire = m + 1 + (IF heartbeat >= WheelCount THEN (d - 1) * WheelCount ELSE 0)
    BY DEF TicksToFire
  <2> HIDE DEF m, d
  <2>4. TicksToFire = m + 1 + (IF d =< 1 THEN 0 ELSE (d - 1) * WheelCount)
    <3>1. CASE d = 1
      BY <2>2, <2>3, <3>1
    <3>2. CASE d # 1
      BY <2>1, <2>2, <2>3, <3>2
    <3>3. QED
      BY <3>1, <3>2
  <2>5. QED
    BY <2>4 DEF Extra, m, d
<1>4. TicksToFire \in Nat \ {0} /\ heartbeat % WheelCount < TicksToFire
  <2>1. Extra(heartbeat \div WheelCount) \in Nat
    BY <1>1
  <2>2. QED
    BY <2>1, <1>3
<1>5. TimeoutMax * TicksToFire \in Nat
  BY <1>4
<1>6. MaxSilence = TimeoutMax * TicksToFire + TicksToFire
  BY <1>4 DEF MaxSilence
<1>7. MaxSilence \in Nat
  BY <1>4, <1>5, <1>6
<1>8. QED
  BY ONLY <1>1, <1>2, <1>3, <1>4, <1>5, <1>6, <1>7

-----------------------------------------------------------------------------
(* TimeoutWheel: the invariant at the start and in each action             *)

\* The values of the history variables and the counters.
LEMMA CounterFacts ==
    ASSUME WheelTypeOK
    PROVE  /\ TicksToFire \in Nat \ {0} /\ MaxSilence \in Nat /\ TimeoutMax \in Nat
           /\ tmp \in Nat
           /\ \A c \in Conns : age[c] \in Nat /\ silence[c] \in Nat /\ count[c] \in Nat
<1>1. TicksToFire \in Nat \ {0} /\ MaxSilence \in Nat /\ TimeoutMax \in Nat
  BY TicksFacts, WheelFacts
<1>2. QED
  BY <1>1 DEF WheelTypeOK

\* Multiples of the interval.
LEMMA MultipleFacts ==
    ASSUME WheelTypeOK, NEW k \in Nat
    PROVE  /\ k * TicksToFire \in Nat
           /\ (k + 1) * TicksToFire = k * TicksToFire + TicksToFire
           /\ k =< TimeoutMax => k * TicksToFire =< TimeoutMax * TicksToFire
<1>1. TicksToFire \in Nat \ {0} /\ TimeoutMax \in Nat
  BY CounterFacts
<1>2. /\ k * TicksToFire \in Nat
      /\ (k + 1) * TicksToFire = k * TicksToFire + TicksToFire
  BY <1>1
<1>3. ASSUME k =< TimeoutMax
      PROVE  k * TicksToFire =< TimeoutMax * TicksToFire
  <2>1. (TimeoutMax - k) * TicksToFire \in Nat
    BY <1>1, <1>3
  <2>2. TimeoutMax * TicksToFire = (TimeoutMax - k) * TicksToFire + k * TicksToFire
    BY <1>1
  <2>3. QED
    BY <1>1, <1>2, <2>1, <2>2
<1>4. QED
  BY <1>2, <1>3

\* The tasks in the wheel, and where the loop is.
LEMMA PlaceFacts ==
    ASSUME WheelTypeOK
    PROVE  /\ \A s \in Slots : Len(wheel[s]) \in Nat
           /\ \A s \in Slots : \A i \in 1 .. Len(wheel[s]) :
                  /\ wheel[s][i] \in TaskType
                  /\ wheel[s][i].conn \in Conns /\ wheel[s][i].laps \in Nat
           /\ pos \in 0 .. Len(wheel[Current]) /\ pos \in Nat
           /\ pos = 0 <=> step = "sleep"
           /\ \A s \in Slots : Dist(s) \in 0 .. WheelCount - 1
           /\ \A s \in Slots : \A i \in 1 .. Len(wheel[s]) : Remaining(s, i) \in Nat
<1>1. /\ \A s \in Slots : Len(wheel[s]) \in Nat
      /\ \A s \in Slots : \A i \in 1 .. Len(wheel[s]) :
             /\ wheel[s][i] \in TaskType
             /\ wheel[s][i].conn \in Conns /\ wheel[s][i].laps \in Nat
  <2>1. ASSUME NEW s \in Slots
        PROVE  /\ Len(wheel[s]) \in Nat
               /\ \A i \in 1 .. Len(wheel[s]) : wheel[s][i] \in TaskType
    <3>1. wheel[s] \in Seq(TaskType)
      BY WheelFacts DEF WheelType
    <3>2. QED
      BY <3>1, ElementOfSeq, LenProperties
  <2>2. \A t \in TaskType : t.conn \in Conns /\ t.laps \in Nat
    BY DEF TaskType
  <2>3. QED
    BY <2>1, <2>2
<1>2. pos \in 0 .. Len(wheel[Current]) /\ (pos = 0 <=> step = "sleep")
  BY DEF WheelTypeOK
<1>3. pos \in Nat
  BY <1>1, <1>2, CurrentFacts
<1>4. \A s \in Slots : Dist(s) \in 0 .. WheelCount - 1
  BY WheelFacts DEF Dist
<1>5. ASSUME NEW s \in Slots, NEW i \in 1 .. Len(wheel[s])
      PROVE  Remaining(s, i) \in Nat
  <2>1. Extra(wheel[s][i].laps) \in Nat
    BY <1>1, TicksFacts
  <2>2. Dist(s) + 1 \in Nat
    BY <1>4, WheelFacts
  <2>3. QED
    BY <2>1, <2>2 DEF Remaining
<1>6. QED
  BY <1>1, <1>2, <1>3, <1>4, <1>5

\* The task that the loop is at is in the wheel, and is of no connection that is
\* new or whose task is on its way.
LEMMA TaskFacts ==
    ASSUME WheelTypeOK, Placed, step # "sleep"
    PROVE  /\ pos \in 1 .. Len(wheel[Current])
           /\ Task = wheel[Current][pos]
           /\ Task.conn \in Conns /\ Task.laps \in Nat
           /\ Task \in TaskType
           /\ conn[Task.conn] # "new"
           /\ ~OnItsWay(Task.conn)
<1>1. pos \in 1 .. Len(wheel[Current]) /\ Current \in Slots
  BY CurrentFacts, PlaceFacts
<1>2. Task = wheel[Current][pos] /\ Task \in TaskType /\ Task.conn \in Conns /\ Task.laps \in Nat
  BY <1>1, PlaceFacts DEF Task
<1>3. conn[Task.conn] # "new"
  BY <1>1, <1>2 DEF Placed, Started
<1>4. ~OnItsWay(Task.conn)
  BY <1>1, <1>2 DEF Placed, OneAdded, OnItsWay
<1>5. QED
  BY <1>1, <1>2, <1>3, <1>4

\* When the running handler's task is on time, its age is the whole interval.
LEMMA TaskOnTime ==
    ASSUME WheelTypeOK, Placed, OnTime, step # "sleep", Due(Task.laps), ~late[Task.conn]
    PROVE  age[Task.conn] = TicksToFire
<1>1. Waiting(Current, pos) /\ Remaining(Current, pos) = 0
  BY TaskFacts DEF Waiting, Remaining, Extra, Due
<1>2. age[Task.conn] + Remaining(Current, pos) = TicksToFire
  BY TaskFacts, CurrentFacts DEF OnTime
<1>3. age[Task.conn] \in Nat
  BY TaskFacts, CounterFacts
<1>4. TicksToFire \in Nat
  BY CounterFacts
<1>5. QED
  BY <1>1, <1>2, <1>3, <1>4

\* The age of a task in the wheel that is on time is within the interval.
LEMMA AgeBound ==
    ASSUME WheelTypeOK, Placed, OnTime, NEW c \in Conns,
           conn[c] = "open", ~OnItsWay(c), ~late[c]
    PROVE  age[c] =< TicksToFire
<1>1. PICK s \in Slots : \E i \in 1 .. Len(wheel[s]) : wheel[s][i].conn = c
  BY DEF Placed, Watched
<1> PICK i \in 1 .. Len(wheel[s]) : wheel[s][i].conn = c
  BY <1>1
<1>2. Remaining(s, i) \in Nat /\ age[c] + Remaining(s, i) = TicksToFire
  BY PlaceFacts DEF OnTime
<1>3. QED
  BY <1>2, CounterFacts

\* The invariant holds at the start.
LEMMA WheelInvInit == WheelInit => WheelInv
<1> SUFFICES ASSUME WheelInit PROVE WheelInv
  OBVIOUS
<1>1. WheelCount \in Nat \ {0} /\ TimeoutMax \in Nat /\ heartbeat \in Nat /\ 0 \in Slots
  BY WheelAssumption DEF WheelInit, Slots
<1>2. \A s \in Slots : wheel[s] = <<>> /\ Len(wheel[s]) = 0
  BY DEF WheelInit
<1>3. WheelTypeOK
  <2>1. Current \in Slots
    <3>1. Current = (WheelCount - 1) % WheelCount /\ WheelCount - 1 \in 0 .. WheelCount - 1
      BY <1>1 DEF Current, WheelInit
    <3>2. QED
      BY <1>1, <3>1, ModSmall DEF Slots
  <2>2. TicksToFire \in Nat /\ MaxSilence \in Nat
    <3>1. heartbeat % WheelCount \in Nat /\ heartbeat \div WheelCount \in Nat
      BY <1>1, DivFacts
    <3>2. heartbeat >= WheelCount => (heartbeat \div WheelCount) - 1 \in Nat
      BY <1>1, <3>1, DivZero
    <3>3. TicksToFire \in Nat
      BY <1>1, <3>1, <3>2 DEF TicksToFire
    <3>4. QED
      BY <1>1, <3>3 DEF MaxSilence
  <2>3. QED
    BY <1>1, <1>2, <2>1, <2>2 DEF WheelInit, WheelTypeOK
<1>4. Placed
  BY <1>2 DEF WheelInit, Placed, Unique, OneAdded, Watched, Started
<1>5. Timed
  BY <1>2 DEF WheelInit, Timed, OnTime, DueNow, AddedOnTime
<1>6. Counted /\ NotLonger /\ NotShorter
  BY <1>1 DEF WheelInit, Counted, NotLonger, NotShorter, OnItsWay
<1>7. QED
  BY <1>3, <1>4, <1>5, <1>6 DEF WheelInv

\* What depends on the interval and on the place of the loop only.
LEMMA SameTurn ==
    ASSUME UNCHANGED <<heartbeat, point>>
    PROVE  /\ TicksToFire' = TicksToFire /\ MaxSilence' = MaxSilence
           /\ Current' = Current
           /\ \A s : Dist(s)' = Dist(s)
  BY DEF TicksToFire, MaxSilence, Current, Dist

\* The same tasks of the same connections are still in their places.
LEMMA SamePlaced ==
    ASSUME Placed, UNCHANGED <<wheel, adding, conn>>
    PROVE  Placed'
  BY DEF Placed, Unique, OneAdded, Watched, Started, OnItsWay

\* The same tasks at the same time are still on time.
LEMMA SameTimed ==
    ASSUME OnTime, AddedOnTime, UNCHANGED <<heartbeat, wheel, point, pos, adding, age, late>>
    PROVE  OnTime' /\ AddedOnTime'
<1>1. /\ TicksToFire' = TicksToFire
      /\ \A s : Dist(s)' = Dist(s)
      /\ \A s, i : Remaining(s, i)' = Remaining(s, i)
  BY SameTurn DEF Remaining, Waiting, Current, Dist
<1>2. OnTime'
  BY <1>1 DEF OnTime
<1>3. AddedOnTime'
  BY <1>1 DEF AddedOnTime
<1>4. QED
  BY <1>2, <1>3

\* Reading m_timeoutCount keeps the invariant.
LEMMA TimeoutReadKeeps == ASSUME WheelInv, TimeoutRead PROVE WheelInv'
<1> USE DEF WheelInv
<1>1. /\ UNCHANGED <<heartbeat, wheel, point, pos, adding, count, conn, age, late, silence, resetLost>>
      /\ step = "visit" /\ step' = "write" /\ Due(Task.laps)
      /\ conn[Task.conn] = "open" /\ tmp' = count[Task.conn]
  BY DEF TimeoutRead
<1>2. /\ TicksToFire' = TicksToFire /\ MaxSilence' = MaxSilence /\ Current' = Current
      /\ Task' = Task
      /\ \A c : OnItsWay(c)' = OnItsWay(c)
      /\ \A c : Elapsed(c) = age[c] /\ Elapsed(c)' = age[c]
  BY <1>1, SameTurn DEF Task, OnItsWay, Elapsed
<1>3. Task.conn \in Conns /\ ~OnItsWay(Task.conn) /\ pos # 0 /\ count[Task.conn] \in Nat
  BY <1>1, TaskFacts, CounterFacts
<1>4. WheelTypeOK'
  BY <1>1, <1>2, <1>3 DEF WheelTypeOK
<1>5. Placed'
  BY <1>1, SamePlaced
<1>6. Timed'
  BY <1>1, <1>2, SameTimed DEF Timed, DueNow
<1>7. Counted'
  BY <1>1, <1>2, <1>3 DEF Counted
<1>8. ~late[Task.conn] => age[Task.conn] = TicksToFire
  BY <1>1, TaskOnTime DEF Timed
<1>9. NotLonger'
  BY <1>1, <1>2, <1>3, <1>8 DEF NotLonger
<1>10. NotShorter'
  <2>1. ~late[Task.conn] /\ ~resetLost[Task.conn]
            => silence[Task.conn] >= count[Task.conn] * TicksToFire
    <3>1. ~late[Task.conn] /\ ~resetLost[Task.conn]
              => silence[Task.conn] + TicksToFire
                     >= count[Task.conn] * TicksToFire + TicksToFire
      BY <1>1, <1>2, <1>3, <1>8 DEF NotShorter
    <3>2. count[Task.conn] * TicksToFire \in Nat
      BY <1>3, MultipleFacts
    <3>3. silence[Task.conn] \in Nat /\ TicksToFire \in Nat
      BY <1>3, CounterFacts
    <3>4. QED
      BY <3>1, <3>2, <3>3
  <2>2. QED
    BY <1>1, <1>2, <2>1 DEF NotShorter
<1>11. QED
  BY <1>4, <1>5, <1>6, <1>7, <1>9, <1>10

\* Writing it keeps the invariant.
LEMMA TimeoutWriteKeeps == ASSUME WheelInv, TimeoutWrite PROVE WheelInv'
<1> USE DEF WheelInv
<1>1. /\ UNCHANGED <<heartbeat, wheel, point, pos, adding, conn, age, late, silence, resetLost>>
      /\ step = "write" /\ count' = [count EXCEPT ![Task.conn] = tmp + 1] /\ tmp' = 0
      /\ step' = IF tmp + 1 > TimeoutMax THEN "close" ELSE "return"
  BY DEF TimeoutWrite
<1>2. /\ TicksToFire' = TicksToFire /\ MaxSilence' = MaxSilence /\ Current' = Current
      /\ Task' = Task
      /\ \A c : OnItsWay(c)' = OnItsWay(c)
      /\ \A c : Elapsed(c) = age[c]
      /\ \A c : Elapsed(c)' = IF Task.conn = c THEN 0 ELSE age[c]
  BY <1>1, SameTurn DEF Task, OnItsWay, Elapsed
<1>3. /\ Task.conn \in Conns /\ ~OnItsWay(Task.conn) /\ conn[Task.conn] # "new"
      /\ pos # 0 /\ tmp \in Nat /\ tmp =< TimeoutMax /\ TimeoutMax \in Nat
  BY <1>1, TaskFacts, PlaceFacts, CounterFacts DEF Counted
<1>4. /\ count'[Task.conn] = tmp + 1
      /\ \A c \in Conns : c # Task.conn => count'[c] = count[c]
  BY <1>1, <1>3 DEF WheelTypeOK
<1>5. WheelTypeOK'
  <2>1. count' \in [Conns -> 0 .. TimeoutMax + 1]
    <3>1. tmp + 1 \in 0 .. TimeoutMax + 1
      BY <1>3
    <3>2. QED
      BY <1>1, <3>1 DEF WheelTypeOK
  <2>2. step' \in {"close", "return"} /\ tmp' \in Nat
    BY <1>1
  <2>3. QED
    BY <1>1, <1>2, <1>3, <2>1, <2>2 DEF WheelTypeOK
<1>6. Placed'
  BY <1>1, SamePlaced
<1>7. Timed'
  BY <1>1, <1>2, SameTimed DEF Timed, DueNow
<1>8. Counted'
  BY <1>1, <1>2, <1>3, <1>4 DEF Counted
<1>9. (tmp + 1) * TicksToFire = tmp * TicksToFire + TicksToFire /\ tmp * TicksToFire \in Nat
  BY <1>3, MultipleFacts
<1>10. \A c \in Conns : silence[c] \in Nat /\ age[c] \in Nat /\ TicksToFire \in Nat
  BY CounterFacts
<1>11. NotLonger'
  BY <1>1, <1>2, <1>3, <1>4, <1>9, <1>10 DEF NotLonger
<1>12. NotShorter'
  <2>1. ASSUME NEW c \in Conns,
               conn[c] = "open", ~OnItsWay(c), ~late[c], ~resetLost[c]
        PROVE  silence[c] + TicksToFire >= count'[c] * TicksToFire + Elapsed(c)'
    <3>1. CASE c = Task.conn
      <4>1. silence[c] >= tmp * TicksToFire
        BY <1>1, <2>1, <3>1 DEF NotShorter
      <4>2. count'[c] * TicksToFire = tmp * TicksToFire + TicksToFire /\ Elapsed(c)' = 0
        BY <1>2, <1>4, <1>9, <3>1
      <4>3. QED
        BY <1>9, <1>10, <4>1, <4>2
    <3>2. CASE c # Task.conn
      BY <1>2, <1>4, <2>1, <3>2 DEF NotShorter
    <3>3. QED
      BY <3>1, <3>2
  <2>2. step' # "write"
    BY <1>1
  <2>3. QED
    BY <1>1, <1>2, <2>1, <2>2 DEF NotShorter
<1>13. QED
  BY <1>5, <1>6, <1>7, <1>8, <1>11, <1>12

\* do_error after too many expirations keeps the invariant.
LEMMA TimeoutCloseKeeps == ASSUME WheelInv, TimeoutClose PROVE WheelInv'
<1> USE DEF WheelInv
<1>1. /\ UNCHANGED <<heartbeat, wheel, point, pos, tmp, adding, count, age, late, silence, resetLost>>
      /\ step = "close" /\ conn' = [conn EXCEPT ![Task.conn] = "closed"] /\ step' = "return"
  BY DEF TimeoutClose
<1>2. /\ TicksToFire' = TicksToFire /\ MaxSilence' = MaxSilence /\ Current' = Current
      /\ Task' = Task
      /\ \A c : OnItsWay(c)' = OnItsWay(c)
      /\ \A c : Elapsed(c)' = Elapsed(c)
  BY <1>1, SameTurn DEF Task, OnItsWay, Elapsed
<1>3. Task.conn \in Conns /\ ~OnItsWay(Task.conn) /\ pos # 0
  BY <1>1, TaskFacts, PlaceFacts
<1>4. /\ conn'[Task.conn] = "closed"
      /\ \A c \in Conns : c # Task.conn => conn'[c] = conn[c]
  BY <1>1, <1>3 DEF WheelTypeOK
<1>5. WheelTypeOK'
  BY <1>1, <1>2, <1>3 DEF WheelTypeOK
<1>6. Placed'
  <2>1. Unique'
    BY <1>1 DEF Placed, Unique
  <2>2. OneAdded'
    <3>1. \A n \in adding : n.conn \in Conns /\ n.conn # Task.conn
      BY <1>3 DEF OnItsWay, WheelTypeOK
    <3>2. QED
      BY <1>1, <1>4, <3>1 DEF Placed, OneAdded
  <2>3. Watched'
    BY <1>1, <1>2, <1>4 DEF Placed, Watched
  <2>4. Started'
    BY <1>1, <1>4, PlaceFacts DEF Placed, Started
  <2>5. QED
    BY <2>1, <2>2, <2>3, <2>4 DEF Placed
<1>7. Timed'
  BY <1>1, <1>2, SameTimed DEF Timed, DueNow
<1>8. Counted'
  BY <1>1, <1>2, <1>3, <1>4 DEF Counted
<1>9. NotLonger'
  BY <1>1, <1>2, <1>4 DEF NotLonger
<1>10. NotShorter'
  BY <1>1, <1>2, <1>4 DEF NotShorter
<1>11. QED
  BY <1>5, <1>6, <1>7, <1>8, <1>9, <1>10

\* The failure of a connection keeps the invariant.
LEMMA FailKeeps == ASSUME WheelInv, NEW c \in Conns, Fail(c) PROVE WheelInv'
<1> USE DEF WheelInv
<1>1. /\ UNCHANGED <<heartbeat, wheel, point, pos, step, tmp, adding, count, age, late,
                     silence, resetLost>>
      /\ adding = {} /\ conn[c] = "open" /\ conn' = [conn EXCEPT ![c] = "closed"]
  BY DEF Fail
<1>2. /\ TicksToFire' = TicksToFire /\ MaxSilence' = MaxSilence /\ Current' = Current
      /\ Task' = Task
      /\ \A d : ~OnItsWay(d) /\ ~OnItsWay(d)'
      /\ \A d : Elapsed(d)' = Elapsed(d)
  BY <1>1, SameTurn DEF Task, OnItsWay, Elapsed
<1>3. /\ conn'[c] = "closed"
      /\ \A d \in Conns : d # c => conn'[d] = conn[d]
  BY <1>1 DEF WheelTypeOK
<1>4. WheelTypeOK'
  BY <1>1, <1>2 DEF WheelTypeOK
<1>5. Placed'
  <2>1. Unique' /\ OneAdded'
    BY <1>1 DEF Placed, Unique, OneAdded
  <2>2. Watched'
    BY <1>1, <1>2, <1>3 DEF Placed, Watched
  <2>3. Started'
    BY <1>1, <1>3, PlaceFacts DEF Placed, Started
  <2>4. QED
    BY <2>1, <2>2, <2>3 DEF Placed
<1>6. Timed'
  BY <1>1, <1>2, SameTimed DEF Timed, DueNow
<1>7. Counted'
  BY <1>1, <1>2, <1>3 DEF Counted
<1>8. step = "write" => Task.conn \in Conns
  BY TaskFacts
<1>9. NotLonger'
  BY <1>1, <1>2, <1>3, <1>8 DEF NotLonger
<1>10. NotShorter'
  BY <1>1, <1>2, <1>3, <1>8 DEF NotShorter
<1>11. QED
  BY <1>4, <1>5, <1>6, <1>7, <1>9, <1>10

\* A message keeps the invariant.
LEMMA MessageKeeps == ASSUME WheelInv, NEW c \in Conns, Message(c) PROVE WheelInv'
<1> USE DEF WheelInv
<1>1. /\ UNCHANGED <<heartbeat, wheel, point, pos, step, tmp, adding, conn, age, late>>
      /\ adding = {} /\ conn[c] = "open"
      /\ count' = [count EXCEPT ![c] = 0]
      /\ silence' = [silence EXCEPT ![c] = 0]
      /\ resetLost' = [resetLost EXCEPT ![c] = step = "write" /\ Task.conn = c]
  BY DEF Message
<1>2. /\ TicksToFire' = TicksToFire /\ MaxSilence' = MaxSilence /\ Current' = Current
      /\ Task' = Task
      /\ \A d : ~OnItsWay(d) /\ ~OnItsWay(d)'
      /\ \A d : Elapsed(d)' = Elapsed(d)
  BY <1>1, SameTurn DEF Task, OnItsWay, Elapsed
<1>3. /\ count'[c] = 0 /\ silence'[c] = 0
      /\ resetLost'[c] = (step = "write" /\ Task.conn = c)
      /\ \A d \in Conns : d # c => /\ count'[d] = count[d] /\ silence'[d] = silence[d]
                                   /\ resetLost'[d] = resetLost[d]
  BY <1>1 DEF WheelTypeOK
<1>4. WheelTypeOK'
  <2>1. 0 \in 0 .. TimeoutMax + 1 /\ 0 \in 0 .. MaxSilence + 1
    BY CounterFacts
  <2>2. /\ count' \in [Conns -> 0 .. TimeoutMax + 1]
        /\ silence' \in [Conns -> 0 .. MaxSilence + 1]
    BY <1>1, <2>1 DEF WheelTypeOK
  <2>3. resetLost' \in [Conns -> BOOLEAN]
    BY <1>1 DEF WheelTypeOK
  <2>4. QED
    BY <1>1, <1>2, <2>2, <2>3 DEF WheelTypeOK
<1>5. Placed'
  BY <1>1, SamePlaced
<1>6. Timed'
  BY <1>1, <1>2, SameTimed DEF Timed, DueNow
<1>7. TimeoutMax \in Nat /\ TicksToFire \in Nat
  BY CounterFacts
<1>8. Counted'
  BY <1>1, <1>2, <1>3, <1>7 DEF Counted
<1>9. step = "write" => Task.conn \in Conns /\ tmp * TicksToFire \in Nat
  BY TaskFacts, CounterFacts, MultipleFacts
<1>10. Elapsed(c) \in Nat /\ (~late[c] => Elapsed(c) =< TicksToFire)
  BY <1>1, <1>2, <1>7, AgeBound, CounterFacts DEF Elapsed, Timed
<1>11. 0 * TicksToFire = 0
  BY <1>7
<1>12. NotLonger'
  <2>1. ASSUME NEW d \in Conns, conn[d] = "open", ~late[d]
        PROVE  silence'[d] =< count'[d] * TicksToFire + Elapsed(d)
    <3>1. CASE d = c
      BY <1>3, <1>10, <1>11, <3>1
    <3>2. CASE d # c
      BY <1>2, <1>3, <2>1, <3>2 DEF NotLonger
    <3>3. QED
      BY <3>1, <3>2
  <2>2. ASSUME step = "write", conn[Task.conn] = "open", ~late[Task.conn]
        PROVE  silence'[Task.conn] =< tmp * TicksToFire + TicksToFire
    <3>1. CASE Task.conn = c
      BY <1>3, <1>7, <1>9, <2>2, <3>1
    <3>2. CASE Task.conn # c
      BY <1>3, <1>9, <2>2, <3>2 DEF NotLonger
    <3>3. QED
      BY <3>1, <3>2
  <2>3. QED
    BY <1>1, <1>2, <2>1, <2>2 DEF NotLonger
<1>13. NotShorter'
  <2>1. ASSUME NEW d \in Conns, conn[d] = "open", ~late[d], ~resetLost'[d]
        PROVE  silence'[d] + TicksToFire >= count'[d] * TicksToFire + Elapsed(d)
    <3>1. CASE d = c
      BY <1>3, <1>7, <1>10, <1>11, <2>1, <3>1
    <3>2. CASE d # c
      BY <1>2, <1>3, <2>1, <3>2 DEF NotShorter
    <3>3. QED
      BY <3>1, <3>2
  <2>2. ASSUME step = "write", ~late[Task.conn], ~resetLost'[Task.conn]
        PROVE  silence'[Task.conn] >= tmp * TicksToFire
    <3>1. Task.conn # c
      BY <1>3, <2>2
    <3>2. QED
      BY <1>3, <1>9, <2>2, <3>1 DEF NotShorter
  <2>3. QED
    BY <1>1, <1>2, <2>1, <2>2 DEF NotShorter
<1>14. QED
  BY <1>4, <1>5, <1>6, <1>8, <1>12, <1>13

\* Accepting a connection keeps the invariant.
LEMMA AcceptKeeps == ASSUME WheelInv, NEW c \in Conns, Accept(c) PROVE WheelInv'
<1> USE DEF WheelInv
<1> DEFINE new == NewTask(c)
<1>1. /\ UNCHANGED <<heartbeat, wheel, point, pos, step, tmp, count, late, resetLost>>
      /\ adding = {} /\ adding' = {new}
      /\ conn[c] = "new" /\ conn' = [conn EXCEPT ![c] = "open"]
      /\ age' = [age EXCEPT ![c] = 0] /\ silence' = [silence EXCEPT ![c] = 0]
  BY DEF Accept
<1>2. /\ new \in [conn : Conns, slot : Slots, laps : Nat]
      /\ new.conn = c /\ new.laps = heartbeat \div WheelCount
      /\ Dist(new.slot) = heartbeat % WheelCount
  BY NewTaskFacts
<1> HIDE DEF new
<1>3. /\ TicksToFire' = TicksToFire /\ MaxSilence' = MaxSilence /\ Current' = Current
      /\ Task' = Task
      /\ \A s : Dist(s)' = Dist(s)
      /\ \A d : ~OnItsWay(d)
      /\ \A d : OnItsWay(d)' <=> d = c
  BY <1>1, <1>2, SameTurn DEF Task, OnItsWay
<1>4. /\ conn'[c] = "open" /\ age'[c] = 0 /\ silence'[c] = 0
      /\ \A d \in Conns : d # c => /\ conn'[d] = conn[d] /\ age'[d] = age[d]
                                   /\ silence'[d] = silence[d]
  BY <1>1 DEF WheelTypeOK
<1>5. step # "sleep" => Task.conn \in Conns /\ Task.conn # c
  BY <1>1, TaskFacts
<1>6. \A s \in Slots : \A i \in 1 .. Len(wheel[s]) :
          wheel[s][i].conn \in Conns /\ wheel[s][i].conn # c
  BY <1>1, PlaceFacts DEF Placed, Started
<1>7. WheelTypeOK'
  <2>1. 0 \in 0 .. TicksToFire + 1 /\ 0 \in 0 .. MaxSilence + 1
    BY CounterFacts
  <2>2. /\ age' \in [Conns -> 0 .. TicksToFire + 1]
        /\ silence' \in [Conns -> 0 .. MaxSilence + 1]
    BY <1>1, <2>1 DEF WheelTypeOK
  <2>3. QED
    BY <1>1, <1>2, <1>3, <2>2 DEF WheelTypeOK
<1>8. Placed'
  <2>1. Unique'
    BY <1>1 DEF Placed, Unique
  <2>2. OneAdded'
    BY <1>1, <1>2, <1>4, <1>6 DEF OneAdded
  <2>3. Watched'
    BY <1>1, <1>3, <1>4 DEF Placed, Watched
  <2>4. Started'
    BY <1>1, <1>4, <1>6 DEF Placed, Started
  <2>5. QED
    BY <2>1, <2>2, <2>3, <2>4 DEF Placed
<1>9. Timed'
  <2>1. \A s, i : Remaining(s, i)' = Remaining(s, i)
    BY <1>1, <1>3 DEF Remaining, Waiting
  <2>2. OnTime'
    BY <1>1, <1>3, <1>4, <1>6, <2>1 DEF Timed, OnTime
  <2>3. DueNow'
    BY <1>1, <1>3 DEF Timed, DueNow
  <2>4. AddedOnTime'
    <3>1. 0 + (heartbeat % WheelCount) = heartbeat % WheelCount
      BY WheelFacts
    <3>2. QED
      BY <1>1, <1>2, <1>3, <1>4, <3>1 DEF AddedOnTime
  <2>5. QED
    BY <2>2, <2>3, <2>4 DEF Timed
<1>10. count[c] = 0 /\ TimeoutMax \in Nat
  BY <1>1, CounterFacts DEF Counted
<1>11. Counted'
  BY <1>1, <1>3, <1>4, <1>10 DEF Counted
<1>12. \A d \in Conns : d # c => Elapsed(d)' = Elapsed(d)
  BY <1>1, <1>3, <1>4 DEF Elapsed
<1>13. NotLonger'
  BY <1>1, <1>3, <1>4, <1>5, <1>12 DEF NotLonger
<1>14. NotShorter'
  BY <1>1, <1>3, <1>4, <1>5, <1>12 DEF NotShorter
<1>15. QED
  BY <1>7, <1>8, <1>9, <1>11, <1>13, <1>14

\* A connection with a task in the wheel, or with one on its way, has a task.
LEMMA HasTask ==
    ASSUME WheelTypeOK
    PROVE  /\ \A s \in Slots : \A i \in 1 .. Len(wheel[s]) : TasksOf(wheel[s][i].conn) # {}
           /\ \A c : OnItsWay(c) => TasksOf(c) # {}
<1>1. ASSUME NEW s \in Slots, NEW i \in 1 .. Len(wheel[s])
      PROVE  <<s, i>> \in TasksOf(wheel[s][i].conn)
  <2>1. <<s, i>> \in {s} \X (1 .. Len(wheel[s]))
    OBVIOUS
  <2>2. <<s, i>> \in Places
    BY <2>1 DEF Places
  <2>3. QED
    BY <2>2 DEF TasksOf
<1>2. ASSUME NEW c, OnItsWay(c)
      PROVE  TasksOf(c) # {}
  <2>1. PICK n \in adding : n.conn = c
    BY <1>2 DEF OnItsWay
  <2>2. <<n.slot, 0>> \in TasksOf(c)
    BY <2>1 DEF TasksOf
  <2>3. QED
    BY <2>2
<1>3. QED
  BY <1>1, <1>2

\* A tick keeps the invariant.
LEMMA TickKeeps == ASSUME WheelInv, Tick PROVE WheelInv'
<1> USE DEF WheelInv
<1>1. /\ UNCHANGED <<heartbeat, wheel, tmp, adding, count, conn, late, resetLost>>
      /\ step = "sleep" /\ point' = (point + 1) % WheelCount
      /\ age' = [c \in Conns |-> IF TasksOf(c) # {} THEN Later(age[c], TicksToFire) ELSE 0]
      /\ silence' = [c \in Conns |-> IF conn[c] = "open" THEN Later(silence[c], MaxSilence) ELSE 0]
      /\ IF wheel[point] # <<>> THEN pos' = 1 /\ step' = "visit" ELSE UNCHANGED <<pos, step>>
  BY DEF Tick
<1>2. /\ WheelCount \in Nat \ {0} /\ Slots = 0 .. WheelCount - 1 /\ point \in Slots
      /\ heartbeat % WheelCount \in Nat /\ heartbeat % WheelCount < TicksToFire
  BY WheelFacts, TicksFacts
<1>3. point' = IF point = WheelCount - 1 THEN 0 ELSE point + 1
  BY <1>1, PointFacts
<1>4. point' \in Slots
  BY <1>2, <1>3
<1>5. Current' = point
  <2>1. CASE point = WheelCount - 1
    <3>1. Current' = (WheelCount - 1) % WheelCount
      BY <1>2, <1>3, <2>1 DEF Current
    <3>2. QED
      BY <1>2, <2>1, <3>1, ModSmall
  <2>2. CASE point # WheelCount - 1
    <3>1. Current' = (point + WheelCount) % WheelCount
      BY <1>2, <1>3, <2>2 DEF Current
    <3>2. QED
      BY <1>2, <3>1, ModSmall
  <2>3. QED
    BY <2>1, <2>2
<1>6. \A s \in Slots : /\ s # point => Dist(s) > 0 /\ Dist(s)' = Dist(s) - 1
                       /\ Dist(s) \in Nat
                       /\ s = point => Dist(s) = 0
  BY <1>2, <1>3 DEF Dist
<1>7. TicksToFire' = TicksToFire /\ MaxSilence' = MaxSilence
  BY <1>1 DEF TicksToFire, MaxSilence
<1>8. /\ pos = 0 /\ pos' \in {0, 1} /\ step' \in {"sleep", "visit"}
      /\ pos' = 0 <=> step' = "sleep"
      /\ pos' = 1 <=> Len(wheel[point]) > 0
  <2>1. pos = 0
    BY <1>1, PlaceFacts
  <2>2. wheel[point] # <<>> <=> Len(wheel[point]) > 0
    <3>1. wheel[point] \in Seq(TaskType)
      BY <1>2, WheelFacts DEF WheelType
    <3>2. QED
      BY <3>1, EmptySeq
  <2>3. QED
    BY <1>1, <2>1, <2>2
<1>9. \A c \in Conns : /\ age[c] \in Nat /\ silence[c] \in Nat /\ count[c] \in Nat
                       /\ age[c] \in 0 .. TicksToFire + 1 /\ silence[c] \in 0 .. MaxSilence + 1
                       /\ TicksToFire \in Nat /\ MaxSilence \in Nat /\ TimeoutMax \in Nat
  BY CounterFacts DEF WheelTypeOK
<1>10. ASSUME NEW c \in Conns
       PROVE  /\ TasksOf(c) # {} =>
                     /\ age[c] =< TicksToFire => age'[c] = age[c] + 1
                     /\ age'[c] =< TicksToFire => age[c] =< TicksToFire
              /\ conn[c] = "open" =>
                     /\ silence'[c] =< silence[c] + 1
                     /\ silence[c] =< MaxSilence => silence'[c] = silence[c] + 1
              /\ age'[c] \in 0 .. TicksToFire + 1 /\ silence'[c] \in 0 .. MaxSilence + 1
              /\ age'[c] \in Nat /\ silence'[c] \in Nat
  <2>1. age'[c] = IF TasksOf(c) # {} THEN Later(age[c], TicksToFire) ELSE 0
    BY <1>1
  <2>2. silence'[c] = IF conn[c] = "open" THEN Later(silence[c], MaxSilence) ELSE 0
    BY <1>1
  <2>3. /\ age[c] \in Nat /\ age[c] \in 0 .. TicksToFire + 1 /\ TicksToFire \in Nat
        /\ silence[c] \in Nat /\ silence[c] \in 0 .. MaxSilence + 1 /\ MaxSilence \in Nat
    BY <1>9
  <2>4. QED
    BY ONLY <2>1, <2>2, <2>3 DEF Later
<1>11. WheelTypeOK'
  <2>1. age' \in [Conns -> 0 .. TicksToFire + 1] /\ silence' \in [Conns -> 0 .. MaxSilence + 1]
    BY <1>1, <1>10
  <2>2. pos' \in 0 .. Len(wheel[point])
    BY <1>2, <1>8, PlaceFacts
  <2>3. QED
    BY <1>1, <1>4, <1>5, <1>7, <1>8, <2>1, <2>2 DEF WheelTypeOK
<1>12. Placed'
  BY <1>1, SamePlaced
<1>13. \A c \in Conns : OnItsWay(c)' = OnItsWay(c)
  BY <1>1 DEF OnItsWay
<1>14. OnTime'
  <2>1. ASSUME NEW s \in Slots, NEW i \in 1 .. Len(wheel[s]), ~late[wheel[s][i].conn]
        PROVE  age'[wheel[s][i].conn] + Remaining(s, i)' = TicksToFire
    <3> DEFINE c == wheel[s][i].conn
    <3>1. c \in Conns /\ TasksOf(c) # {} /\ wheel[s][i].laps \in Nat
      BY HasTask, PlaceFacts
    <3>2. age[c] + Remaining(s, i) = TicksToFire
      BY <2>1 DEF Timed, OnTime
    <3>3. Remaining(s, i) = Extra(wheel[s][i].laps) + Dist(s) + 1
          /\ Extra(wheel[s][i].laps) \in Nat
      <4>1. Extra(wheel[s][i].laps) \in Nat /\ Dist(s) \in Nat
        BY <1>6, <3>1, TicksFacts
      <4>2. Remaining(s, i) = Extra(wheel[s][i].laps) + (Dist(s) + 1)
        BY <1>8 DEF Remaining, Waiting
      <4>3. QED
        BY <4>1, <4>2
    <3>4. Remaining(s, i)' = Extra(wheel[s][i].laps) + Dist(s)
      <4>1. CASE s = point
        <5>1. Waiting(s, i)'
          BY <1>5, <1>8, <4>1, PlaceFacts DEF Waiting
        <5>2. QED
          BY <1>1, <1>6, <3>3, <4>1, <5>1 DEF Remaining
      <4>2. CASE s # point
        <5>1. ~Waiting(s, i)'
          BY <1>5, <4>2 DEF Waiting
        <5>2. QED
          BY <1>1, <1>6, <3>3, <4>2, <5>1 DEF Remaining
      <4>3. QED
        BY <4>1, <4>2
    <3>5. age'[c] = age[c] + 1
      <4>1. age[c] \in Nat /\ TicksToFire \in Nat /\ Dist(s) \in Nat
        BY <1>6, <1>9, <3>1
      <4>2. age[c] =< TicksToFire
        BY <3>2, <3>3, <4>1
      <4>3. QED
        BY <1>10, <3>1, <4>2
    <3>6. QED
      BY <1>6, <1>9, <3>1, <3>2, <3>3, <3>4, <3>5
  <2>2. QED
    BY <1>1, <1>7, <2>1 DEF OnTime
<1>15. AddedOnTime'
  <2>1. ASSUME NEW n \in adding, age'[n.conn] =< heartbeat % WheelCount
        PROVE  age'[n.conn] + Dist(n.slot)' = heartbeat % WheelCount
    <3>1. n.conn \in Conns /\ n.slot \in Slots /\ TasksOf(n.conn) # {}
      BY HasTask DEF WheelTypeOK, OnItsWay
    <3>2. age'[n.conn] = age[n.conn] + 1
      BY <1>2, <1>9, <1>10, <2>1, <3>1
    <3>3. age[n.conn] + Dist(n.slot) = heartbeat % WheelCount
      BY <1>2, <1>9, <2>1, <3>1, <3>2 DEF Timed, AddedOnTime
    <3>4. n.slot # point
      BY <1>2, <1>6, <1>9, <2>1, <3>1, <3>2, <3>3
    <3>5. QED
      <4>1. Dist(n.slot)' = Dist(n.slot) - 1 /\ Dist(n.slot) \in Nat /\ age[n.conn] \in Nat
        BY <1>6, <1>9, <3>1, <3>4
      <4>2. QED
        BY <3>2, <3>3, <4>1
  <2>2. QED
    BY <1>1, <2>1 DEF Timed, AddedOnTime
<1>16. Timed'
  BY <1>8, <1>14, <1>15 DEF Timed, DueNow
<1>17. Counted'
  BY <1>1, <1>8, <1>13 DEF Counted
<1>18. \A c : Elapsed(c) = age[c] /\ Elapsed(c)' = age'[c]
  BY <1>1, <1>8 DEF Elapsed
<1>19. ASSUME NEW c \in Conns, conn[c] = "open", ~OnItsWay(c), ~late[c]
       PROVE  age'[c] = age[c] + 1
  <2>1. TasksOf(c) # {}
    BY <1>19, HasTask DEF Placed, Watched
  <2>2. age[c] =< TicksToFire
    BY <1>19, AgeBound DEF Timed
  <2>3. QED
    BY <1>9, <1>10, <2>1, <2>2
<1>20. NotLonger'
  <2>1. ASSUME NEW c \in Conns, OnItsWay(c), age'[c] =< TicksToFire
        PROVE  silence'[c] =< age'[c]
    <3>1. TasksOf(c) # {} /\ conn[c] = "open"
      BY <2>1, HasTask DEF Placed, OneAdded, OnItsWay
    <3>2. age[c] =< TicksToFire /\ age'[c] = age[c] + 1
      BY <1>9, <1>10, <2>1, <3>1
    <3>3. silence'[c] =< silence[c] + 1 /\ silence'[c] \in Nat
      BY <1>9, <1>10, <3>1
    <3>4. QED
      BY <1>9, <2>1, <3>2, <3>3 DEF NotLonger
  <2>2. ASSUME NEW c \in Conns, conn[c] = "open", ~OnItsWay(c), ~late[c]
        PROVE  silence'[c] =< count[c] * TicksToFire + age'[c]
    <3>1. silence'[c] =< silence[c] + 1 /\ silence'[c] \in Nat
      BY <1>9, <1>10, <2>2
    <3>2. silence[c] =< count[c] * TicksToFire + age[c]
      BY <1>18, <2>2 DEF NotLonger
    <3>3. count[c] * TicksToFire \in Nat
      BY <1>9, MultipleFacts
    <3>4. QED
      BY <1>9, <1>19, <2>2, <3>1, <3>2, <3>3
  <2>3. QED
    BY <1>1, <1>7, <1>8, <1>13, <1>18, <2>1, <2>2 DEF NotLonger
<1>21. NotShorter'
  <2>1. ASSUME NEW c \in Conns, conn[c] = "open", ~OnItsWay(c), ~late[c], ~resetLost[c]
        PROVE  silence'[c] + TicksToFire >= count[c] * TicksToFire + age'[c]
    <3>1. count[c] =< TimeoutMax
      BY <1>1, <2>1 DEF Counted
    <3>2. /\ count[c] * TicksToFire \in Nat
          /\ count[c] * TicksToFire =< TimeoutMax * TicksToFire
          /\ TimeoutMax * TicksToFire \in Nat
          /\ MaxSilence = TimeoutMax * TicksToFire + TicksToFire
      BY <1>9, <3>1, MultipleFacts, TicksFacts
    <3>3. silence[c] =< count[c] * TicksToFire + age[c] /\ age[c] =< TicksToFire
      BY <1>18, <2>1, AgeBound DEF NotLonger, Timed
    <3>4. silence'[c] = silence[c] + 1
      BY <1>9, <1>10, <2>1, <3>2, <3>3
    <3>5. silence[c] + TicksToFire >= count[c] * TicksToFire + age[c]
      BY <1>18, <2>1 DEF NotShorter
    <3>6. QED
      BY <1>9, <1>19, <2>1, <3>2, <3>4, <3>5
  <2>2. QED
    BY <1>1, <1>7, <1>8, <1>13, <1>18, <2>1 DEF NotShorter
<1>22. QED
  BY <1>11, <1>12, <1>16, <1>17, <1>20, <1>21

\* Where the loop is once it has gone on with the slot's task number p.
LEMMA ProceedFacts ==
    ASSUME WheelTypeOK, point' = point, wheel' \in WheelType, NEW p \in Nat \ {0}, Proceed(p)
    PROVE  /\ step' \in {"visit", "sleep"} /\ (pos' = 0) = (step' = "sleep")
           /\ pos' \in 0 .. Len(wheel'[Current])
           /\ \A s \in Slots : \A i \in 1 .. Len(wheel'[s]) :
                  Waiting(s, i)' <=> s = Current /\ i >= p
           /\ \A c : Elapsed(c)' = age'[c]
<1>1. Current' = Current /\ Current \in Slots
  BY CurrentFacts DEF Current
<1>2. Len(wheel'[Current]) \in Nat
  BY <1>1 DEF WheelType
<1>3. step' \in {"visit", "sleep"} /\ (pos' = 0) = (step' = "sleep")
  BY DEF Proceed
<1>4. pos' \in 0 .. Len(wheel'[Current])
  BY <1>2 DEF Proceed
<1>5. ASSUME NEW s \in Slots, NEW i \in 1 .. Len(wheel'[s])
      PROVE  Waiting(s, i)' <=> s = Current /\ i >= p
  BY <1>1, <1>2 DEF Waiting, Proceed
<1>6. \A c : Elapsed(c)' = age'[c]
  BY <1>3 DEF Elapsed
<1>7. QED
  BY <1>3, <1>4, <1>5, <1>6

\* Letting a task's lap pass keeps the invariant.
LEMMA SkipKeeps == ASSUME WheelInv, Skip PROVE WheelInv'
<1> USE DEF WheelInv
<1>1. /\ UNCHANGED <<heartbeat, point, tmp, adding, count, conn, age, late, silence, resetLost>>
      /\ step = "visit" /\ Task.laps > 1
      /\ wheel' = [wheel EXCEPT ![Current][pos].laps = @ - 1]
      /\ Proceed(pos + 1)
  <2>1. Task.laps \in Nat
    BY TaskFacts DEF Skip
  <2>2. QED
    BY <2>1 DEF Skip, Due
<1>2. /\ TicksToFire' = TicksToFire /\ MaxSilence' = MaxSilence /\ Current' = Current
      /\ \A s : Dist(s)' = Dist(s)
      /\ \A c : OnItsWay(c)' = OnItsWay(c)
  BY <1>1, SameTurn DEF OnItsWay
<1>3. /\ pos \in 1 .. Len(wheel[Current]) /\ Task = wheel[Current][pos] /\ Current \in Slots
      /\ Task \in TaskType /\ Task.laps \in Nat /\ Task.laps - 1 \in Nat
      /\ wheel \in WheelType
  BY <1>1, TaskFacts, CurrentFacts, WheelFacts
<1>4. /\ \A s \in Slots : Len(wheel'[s]) = Len(wheel[s])
      /\ \A s \in Slots : \A i \in 1 .. Len(wheel[s]) :
             /\ wheel'[s][i].conn = wheel[s][i].conn
             /\ wheel'[s][i].laps =
                    IF s = Current /\ i = pos THEN Task.laps - 1 ELSE wheel[s][i].laps
      /\ wheel' \in WheelType
  <2> DEFINE shorter == [Task EXCEPT !.laps = Task.laps - 1]
             slot == [wheel[Current] EXCEPT ![pos] = shorter]
  <2>1. /\ shorter \in TaskType /\ shorter.conn = Task.conn /\ shorter.laps = Task.laps - 1
    BY <1>3 DEF TaskType
  <2>2. wheel' = [wheel EXCEPT ![Current] = slot]
    BY <1>1, <1>3
  <2> HIDE DEF shorter
  <2>3. wheel[Current] \in Seq(TaskType)
    BY <1>3 DEF WheelType
  <2>4. /\ slot \in Seq(TaskType) /\ Len(slot) = Len(wheel[Current])
        /\ \A i \in 1 .. Len(wheel[Current]) :
               slot[i] = IF i = pos THEN shorter ELSE wheel[Current][i]
    BY <1>3, <2>1, <2>3, ExceptSeq
  <2> HIDE DEF slot
  <2>5. wheel' \in WheelType
    BY <1>3, <2>2, <2>4 DEF WheelType
  <2>6. \A s \in Slots : wheel'[s] = IF s = Current THEN slot ELSE wheel[s]
    BY <1>3, <2>2 DEF WheelType
  <2>7. QED
    BY <1>3, <2>1, <2>4, <2>5, <2>6
<1>5. /\ step' \in {"visit", "sleep"} /\ (pos' = 0) = (step' = "sleep")
      /\ pos' \in 0 .. Len(wheel'[Current])
      /\ \A s \in Slots : \A i \in 1 .. Len(wheel'[s]) :
             Waiting(s, i)' <=> s = Current /\ i >= pos + 1
      /\ \A c : Elapsed(c)' = age[c] /\ Elapsed(c) = age[c]
  BY <1>1, <1>3, <1>4, ProceedFacts, PlaceFacts DEF Elapsed
<1>6. WheelTypeOK'
  BY <1>1, <1>2, <1>4, <1>5 DEF WheelTypeOK, WheelType, TaskType
<1>7. Placed'
  <2>1. Unique'
    BY <1>4 DEF Placed, Unique
  <2>2. OneAdded'
    BY <1>1, <1>4 DEF Placed, OneAdded
  <2>3. Watched'
    BY <1>1, <1>2, <1>4 DEF Placed, Watched
  <2>4. Started'
    BY <1>1, <1>4 DEF Placed, Started
  <2>5. QED
    BY <2>1, <2>2, <2>3, <2>4 DEF Placed
<1>8. OnTime'
  <2>1. ASSUME NEW s \in Slots, NEW i \in 1 .. Len(wheel[s])
        PROVE  Remaining(s, i)' = Remaining(s, i)
    <3>1. Waiting(s, i) <=> s = Current /\ i >= pos
      BY <1>3, PlaceFacts DEF Waiting
    <3>2. Waiting(s, i)' <=> s = Current /\ i >= pos + 1
      BY <1>4, <1>5
    <3>3. i \in Nat /\ pos \in Nat
      BY <1>3
    <3>4. CASE s = Current /\ i = pos
      <4>1. Remaining(s, i)' = Extra(Task.laps - 1) + (Dist(s) + 1)
        BY <1>2, <1>4, <3>2, <3>3, <3>4 DEF Remaining
      <4>2. Remaining(s, i) = Extra(Task.laps) + 0
        BY <1>3, <3>1, <3>3, <3>4 DEF Remaining
      <4>3. Extra(Task.laps) = Extra(Task.laps - 1) + WheelCount
        BY <1>1, <1>3, TicksFacts
      <4>4. Dist(s) + 1 = WheelCount /\ WheelCount \in Nat
        BY <3>4, CurrentFacts, WheelFacts
      <4>5. Extra(Task.laps - 1) \in Nat
        BY <1>3, TicksFacts
      <4>6. QED
        BY <4>1, <4>2, <4>3, <4>4, <4>5
    <3>5. CASE ~(s = Current /\ i = pos)
      <4>1. Waiting(s, i)' <=> Waiting(s, i)
        BY <3>1, <3>2, <3>3, <3>5
      <4>2. QED
        BY <1>2, <1>4, <3>5, <4>1 DEF Remaining
    <3>6. QED
      BY <3>4, <3>5
  <2>2. QED
    BY <1>1, <1>2, <1>4, <2>1 DEF Timed, OnTime
<1>9. Timed'
  BY <1>1, <1>2, <1>5, <1>8 DEF Timed, DueNow, AddedOnTime
<1>10. Counted'
  BY <1>1, <1>2, <1>5 DEF Counted
<1>11. NotLonger'
  BY <1>1, <1>2, <1>5 DEF NotLonger
<1>12. NotShorter'
  BY <1>1, <1>2, <1>5 DEF NotShorter
<1>13. QED
  BY <1>6, <1>7, <1>9, <1>10, <1>11, <1>12

\* Erasing the task of a closed connection keeps the invariant.
LEMMA ForgetKeeps == ASSUME WheelInv, Forget PROVE WheelInv'
<1> USE DEF WheelInv
<1> DEFINE was(s, i) == Before(Current, pos, s, i)
<1>1. /\ UNCHANGED <<heartbeat, point, tmp, adding, conn, age, silence>>
      /\ step \in {"visit", "return"}
      /\ conn[Task.conn] = "closed"
      /\ wheel' = [wheel EXCEPT ![Current] = RemoveAt(@, pos)]
      /\ Proceed(pos)
      /\ count' = [count EXCEPT ![Task.conn] = 0]
      /\ late' = [late EXCEPT ![Task.conn] = FALSE]
      /\ resetLost' = [resetLost EXCEPT ![Task.conn] = FALSE]
  BY DEF Forget
<1>2. /\ TicksToFire' = TicksToFire /\ MaxSilence' = MaxSilence /\ Current' = Current
      /\ \A s : Dist(s)' = Dist(s)
      /\ \A c : OnItsWay(c)' = OnItsWay(c)
  BY <1>1, SameTurn DEF OnItsWay
<1>3. /\ pos \in 1 .. Len(wheel[Current]) /\ Task = wheel[Current][pos] /\ Current \in Slots
      /\ Task.conn \in Conns /\ wheel \in WheelType /\ pos \in Nat
  BY <1>1, TaskFacts, CurrentFacts, WheelFacts
<1>4. /\ wheel' \in WheelType
      /\ \A s \in Slots : \A i \in 1 .. Len(wheel'[s]) :
             was(s, i) \in 1 .. Len(wheel[s]) /\ wheel'[s][i] = wheel[s][was(s, i)]
      /\ \A s \in Slots : \A i \in 1 .. Len(wheel[s]) :
             s # Current \/ i # pos => \E j \in 1 .. Len(wheel'[s]) : wheel'[s][j] = wheel[s][i]
  <2>1. Loses(wheel, Current, pos, wheel')
    BY <1>1, <1>3, Removed
  <2>2. QED
    BY <2>1 DEF Loses
<1>5. /\ step' \in {"visit", "sleep"} /\ (pos' = 0) = (step' = "sleep")
      /\ pos' \in 0 .. Len(wheel'[Current])
      /\ \A s \in Slots : \A i \in 1 .. Len(wheel'[s]) :
             Waiting(s, i)' <=> s = Current /\ i >= pos
      /\ \A c : Elapsed(c)' = age[c]
  BY <1>1, <1>3, <1>4, ProceedFacts
<1>6. \A s \in Slots : Len(wheel'[s]) \in Nat
  BY <1>4 DEF WheelType
<1>7. ASSUME NEW s \in Slots, NEW i \in 1 .. Len(wheel'[s])
      PROVE  /\ s # Current \/ was(s, i) # pos
             /\ Waiting(s, was(s, i)) <=> s = Current /\ i >= pos
             /\ \A j \in 1 .. Len(wheel'[s]) : was(s, i) = was(s, j) => i = j
  BY <1>3, <1>6 DEF Before, Waiting
<1> HIDE DEF was
<1>8. ASSUME NEW s \in Slots, NEW i \in 1 .. Len(wheel'[s])
      PROVE  wheel'[s][i].conn # Task.conn
  <2>1. was(s, i) \in 1 .. Len(wheel[s]) /\ wheel'[s][i] = wheel[s][was(s, i)]
    BY <1>4
  <2>2. s # Current \/ was(s, i) # pos
    BY <1>7
  <2>3. QED
    BY <1>3, <2>1, <2>2 DEF Placed, Unique
<1>9. \A c \in Conns : c # Task.conn => /\ count'[c] = count[c] /\ late'[c] = late[c]
                                        /\ resetLost'[c] = resetLost[c]
  BY <1>1, <1>3 DEF WheelTypeOK
<1>10. WheelTypeOK'
  <2>1. 0 \in 0 .. TimeoutMax + 1
    BY CounterFacts
  <2>2. /\ count' \in [Conns -> 0 .. TimeoutMax + 1]
        /\ late' \in [Conns -> BOOLEAN] /\ resetLost' \in [Conns -> BOOLEAN]
    BY <1>1, <2>1 DEF WheelTypeOK
  <2>3. QED
    BY <1>1, <1>2, <1>4, <1>5, <2>2 DEF WheelTypeOK, WheelType, TaskType
<1>11. Placed'
  <2>1. Unique'
    <3>1. ASSUME NEW s \in Slots, NEW t \in Slots,
                 NEW i \in 1 .. Len(wheel'[s]), NEW j \in 1 .. Len(wheel'[t]),
                 wheel'[s][i].conn = wheel'[t][j].conn
          PROVE  s = t /\ i = j
      <4>1. /\ was(s, i) \in 1 .. Len(wheel[s]) /\ wheel'[s][i] = wheel[s][was(s, i)]
            /\ was(t, j) \in 1 .. Len(wheel[t]) /\ wheel'[t][j] = wheel[t][was(t, j)]
        BY <1>4
      <4>2. s = t /\ was(s, i) = was(t, j)
        BY <3>1, <4>1 DEF Placed, Unique
      <4>3. QED
        BY <1>7, <4>2
    <3>2. QED
      BY <3>1 DEF Unique
  <2>2. OneAdded'
    BY <1>1, <1>4 DEF Placed, OneAdded
  <2>3. Watched'
    <3>1. ASSUME NEW c \in Conns, conn[c] = "open", ~OnItsWay(c)
          PROVE  \E s \in Slots : \E i \in 1 .. Len(wheel'[s]) : wheel'[s][i].conn = c
      <4>1. PICK s \in Slots : \E i \in 1 .. Len(wheel[s]) : wheel[s][i].conn = c
        BY <3>1 DEF Placed, Watched
      <4>2. PICK i \in 1 .. Len(wheel[s]) : wheel[s][i].conn = c
        BY <4>1
      <4>3. s # Current \/ i # pos
        BY <1>1, <1>3, <3>1, <4>2
      <4>4. QED
        BY <1>4, <4>2, <4>3
    <3>2. QED
      BY <1>1, <1>2, <3>1 DEF Watched
  <2>4. Started'
    <3>1. ASSUME NEW s \in Slots, NEW i \in 1 .. Len(wheel'[s])
          PROVE  conn[wheel'[s][i].conn] # "new"
      <4>1. was(s, i) \in 1 .. Len(wheel[s]) /\ wheel'[s][i] = wheel[s][was(s, i)]
        BY <1>4
      <4>2. QED
        BY <4>1 DEF Placed, Started
    <3>2. QED
      BY <1>1, <3>1 DEF Started
  <2>5. QED
    BY <2>1, <2>2, <2>3, <2>4 DEF Placed
<1>12. OnTime'
  <2>1. ASSUME NEW s \in Slots, NEW i \in 1 .. Len(wheel'[s])
        PROVE  Remaining(s, i)' = Remaining(s, was(s, i))
    BY <1>2, <1>4, <1>5, <1>7 DEF Remaining
  <2>2. ASSUME NEW s \in Slots, NEW i \in 1 .. Len(wheel'[s])
        PROVE  late'[wheel'[s][i].conn] = late[wheel[s][was(s, i)].conn]
    <3>1. wheel'[s][i].conn = wheel[s][was(s, i)].conn /\ wheel'[s][i].conn \in Conns
      BY <1>4, PlaceFacts
    <3>2. QED
      BY <1>8, <1>9, <3>1
  <2>3. ASSUME NEW s \in Slots, NEW i \in 1 .. Len(wheel'[s]), ~late'[wheel'[s][i].conn]
        PROVE  age[wheel'[s][i].conn] + Remaining(s, i)' = TicksToFire
    <3>1. was(s, i) \in 1 .. Len(wheel[s]) /\ wheel'[s][i] = wheel[s][was(s, i)]
      BY <1>4
    <3>2. ~late[wheel[s][was(s, i)].conn] /\ Remaining(s, i)' = Remaining(s, was(s, i))
      BY <2>1, <2>2, <2>3
    <3>3. QED
      BY <3>1, <3>2 DEF Timed, OnTime
  <2>4. QED
    BY <1>1, <1>2, <2>3 DEF OnTime
<1>13. Timed'
  BY <1>1, <1>2, <1>5, <1>12 DEF Timed, DueNow, AddedOnTime
<1>14. \A c \in Conns : conn[c] = "open" => c # Task.conn /\ Elapsed(c) = age[c]
  BY <1>1 DEF Elapsed
<1>15. \A c \in Conns : conn[c] = "new" \/ OnItsWay(c) => c # Task.conn
  BY <1>1, TaskFacts
<1>16. Counted'
  BY <1>1, <1>2, <1>5, <1>9, <1>15 DEF Counted
<1>17. NotLonger'
  BY <1>1, <1>2, <1>5, <1>9, <1>14 DEF NotLonger
<1>18. NotShorter'
  BY <1>1, <1>2, <1>5, <1>9, <1>14 DEF NotShorter
<1>19. QED
  BY <1>10, <1>11, <1>13, <1>16, <1>17, <1>18

\* Registering the timeout again keeps the invariant.
LEMMA AgainKeeps == ASSUME WheelInv, Again PROVE WheelInv'
<1> USE DEF WheelInv
<1> DEFINE new == NewTask(Task.conn)
           rest == [wheel EXCEPT ![Current] = RemoveAt(@, pos)]
           task == [conn |-> new.conn, laps |-> new.laps]
           p == IF new.slot = Current THEN pos + 1 ELSE pos
           was(s, i) == Before(Current, pos, s, Under(new.slot, s, i))
<1>1. /\ UNCHANGED <<heartbeat, point, tmp, adding, count, conn, late, silence, resetLost>>
      /\ step = "return" /\ conn[Task.conn] = "open"
      /\ wheel' = [rest EXCEPT ![new.slot] = <<task>> \o @]
      /\ Proceed(p)
      /\ age' = [age EXCEPT ![Task.conn] = 0]
  BY DEF Again
<1>2. /\ TicksToFire' = TicksToFire /\ MaxSilence' = MaxSilence /\ Current' = Current
      /\ \A s : Dist(s)' = Dist(s)
      /\ \A c : OnItsWay(c)' = OnItsWay(c)
  BY <1>1, SameTurn DEF OnItsWay
<1>3. /\ pos \in 1 .. Len(wheel[Current]) /\ Task = wheel[Current][pos] /\ Current \in Slots
      /\ Task.conn \in Conns /\ wheel \in WheelType /\ pos \in Nat /\ ~OnItsWay(Task.conn)
  BY <1>1, TaskFacts, CurrentFacts, WheelFacts
<1>4. /\ new.slot \in Slots /\ Dist(new.slot) = heartbeat % WheelCount
      /\ task \in TaskType /\ task.conn = Task.conn /\ task.laps = heartbeat \div WheelCount
  BY <1>3, NewTaskFacts DEF TaskType
<1> HIDE DEF new
<1>5. /\ rest \in WheelType
      /\ \A s \in Slots : \A i \in 1 .. Len(rest[s]) :
             /\ Before(Current, pos, s, i) \in 1 .. Len(wheel[s])
             /\ rest[s][i] = wheel[s][Before(Current, pos, s, i)]
      /\ \A s \in Slots : \A i \in 1 .. Len(wheel[s]) :
             s # Current \/ i # pos => \E j \in 1 .. Len(rest[s]) : rest[s][j] = wheel[s][i]
  <2>1. Loses(wheel, Current, pos, rest)
    BY <1>3, Removed
  <2> HIDE DEF rest
  <2>2. QED
    BY <2>1 DEF Loses
<1> HIDE DEF rest, task
<1>6. /\ wheel' \in WheelType
      /\ 1 \in 1 .. Len(wheel'[new.slot]) /\ wheel'[new.slot][1] = task
      /\ \A s \in Slots : \A i \in 1 .. Len(wheel'[s]) :
             s # new.slot \/ i # 1 =>
                 /\ Under(new.slot, s, i) \in 1 .. Len(rest[s])
                 /\ wheel'[s][i] = rest[s][Under(new.slot, s, i)]
      /\ \A s \in Slots : \A i \in 1 .. Len(rest[s]) :
             \E j \in 1 .. Len(wheel'[s]) : wheel'[s][j] = rest[s][i]
  <2>1. Gains(rest, new.slot, task, wheel')
    BY <1>1, <1>4, <1>5, Pushed
  <2>2. QED
    BY <2>1 DEF Gains
<1>7. \A s \in Slots : Len(wheel'[s]) \in Nat /\ Len(rest[s]) \in Nat
  BY <1>5, <1>6 DEF WheelType
<1>8. ASSUME NEW s \in Slots, NEW i \in 1 .. Len(wheel'[s]), s # new.slot \/ i # 1
      PROVE  /\ was(s, i) \in 1 .. Len(wheel[s]) /\ wheel'[s][i] = wheel[s][was(s, i)]
             /\ s # Current \/ was(s, i) # pos
             /\ Waiting(s, was(s, i)) <=> s = Current /\ i >= p
             /\ \A j \in 1 .. Len(wheel'[s]) :
                    (s # new.slot \/ j # 1) /\ was(s, i) = was(s, j) => i = j
  <2>1. was(s, i) \in 1 .. Len(wheel[s]) /\ wheel'[s][i] = wheel[s][was(s, i)]
    <3> DEFINE u == Under(new.slot, s, i)
    <3>1. u \in 1 .. Len(rest[s]) /\ wheel'[s][i] = rest[s][u]
      BY <1>6, <1>8
    <3> HIDE DEF u
    <3>2. Before(Current, pos, s, u) \in 1 .. Len(wheel[s])
          /\ rest[s][u] = wheel[s][Before(Current, pos, s, u)]
      BY <1>5, <3>1
    <3>3. QED
      BY <3>1, <3>2 DEF u
  <2>2. /\ s # Current \/ was(s, i) # pos
        /\ Waiting(s, was(s, i)) <=> s = Current /\ i >= p
    BY <1>3, <1>7 DEF Before, Under, Waiting
  <2>3. \A j \in 1 .. Len(wheel'[s]) :
            (s # new.slot \/ j # 1) /\ was(s, i) = was(s, j) => i = j
    BY <1>3, <1>7 DEF Before, Under
  <2>4. QED
    BY <2>1, <2>2, <2>3
<1> HIDE DEF was
<1>9. /\ step' \in {"visit", "sleep"} /\ (pos' = 0) = (step' = "sleep")
      /\ pos' \in 0 .. Len(wheel'[Current])
      /\ \A s \in Slots : \A i \in 1 .. Len(wheel'[s]) :
             Waiting(s, i)' <=> s = Current /\ i >= p
      /\ \A c : Elapsed(c)' = age'[c]
  BY <1>1, <1>3, <1>6, ProceedFacts
<1>10. ~(new.slot = Current /\ 1 >= p)
  BY <1>3
<1> HIDE DEF p
<1>11. ASSUME NEW s \in Slots, NEW i \in 1 .. Len(wheel'[s]), s # new.slot \/ i # 1
       PROVE  wheel'[s][i].conn \in Conns \ {Task.conn}
  <2>1. /\ was(s, i) \in 1 .. Len(wheel[s]) /\ wheel'[s][i] = wheel[s][was(s, i)]
        /\ s # Current \/ was(s, i) # pos
    BY <1>8, <1>11
  <2>2. wheel[s][was(s, i)].conn # Task.conn
    BY <1>3, <2>1 DEF Placed, Unique
  <2>3. QED
    BY <2>1, <2>2, PlaceFacts
<1>12. /\ age'[Task.conn] = 0
       /\ \A c \in Conns : c # Task.conn => age'[c] = age[c]
  BY <1>1, <1>3 DEF WheelTypeOK
<1>13. WheelTypeOK'
  <2>1. 0 \in 0 .. TicksToFire + 1
    BY CounterFacts
  <2>2. age' \in [Conns -> 0 .. TicksToFire + 1]
    BY <1>1, <2>1 DEF WheelTypeOK
  <2>3. QED
    BY <1>1, <1>2, <1>6, <1>9, <2>2 DEF WheelTypeOK, WheelType, TaskType
<1>14. Placed'
  <2>1. Unique'
    <3>1. ASSUME NEW s \in Slots, NEW t \in Slots,
                 NEW i \in 1 .. Len(wheel'[s]), NEW j \in 1 .. Len(wheel'[t]),
                 wheel'[s][i].conn = wheel'[t][j].conn
          PROVE  s = t /\ i = j
      <4>1. CASE s = new.slot /\ i = 1
        BY <1>4, <1>6, <1>11, <3>1, <4>1
      <4>2. CASE t = new.slot /\ j = 1
        BY <1>4, <1>6, <1>11, <3>1, <4>2
      <4>3. CASE ~(s = new.slot /\ i = 1) /\ ~(t = new.slot /\ j = 1)
        <5>1. /\ was(s, i) \in 1 .. Len(wheel[s]) /\ wheel'[s][i] = wheel[s][was(s, i)]
              /\ was(t, j) \in 1 .. Len(wheel[t]) /\ wheel'[t][j] = wheel[t][was(t, j)]
          BY <1>8, <4>3
        <5>2. s = t /\ was(s, i) = was(t, j)
          BY <3>1, <5>1 DEF Placed, Unique
        <5>3. QED
          BY <1>8, <4>3, <5>2
      <4>4. QED
        BY <4>1, <4>2, <4>3
    <3>2. QED
      BY <3>1 DEF Unique
  <2>2. OneAdded'
    <3>1. ASSUME NEW n \in adding, NEW s \in Slots, NEW i \in 1 .. Len(wheel'[s])
          PROVE  wheel'[s][i].conn # n.conn
      <4>1. CASE s = new.slot /\ i = 1
        BY <1>3, <1>4, <1>6, <4>1 DEF OnItsWay
      <4>2. CASE ~(s = new.slot /\ i = 1)
        BY <1>8, <4>2 DEF Placed, OneAdded
      <4>3. QED
        BY <4>1, <4>2
    <3>2. QED
      BY <1>1, <3>1 DEF Placed, OneAdded
  <2>3. Watched'
    <3>1. ASSUME NEW c \in Conns, conn[c] = "open", ~OnItsWay(c)
          PROVE  \E s \in Slots : \E i \in 1 .. Len(wheel'[s]) : wheel'[s][i].conn = c
      <4>1. CASE c = Task.conn
        BY <1>4, <1>6, <4>1
      <4>2. CASE c # Task.conn
        <5>1. PICK s \in Slots : \E i \in 1 .. Len(wheel[s]) : wheel[s][i].conn = c
          BY <3>1 DEF Placed, Watched
        <5>2. PICK i \in 1 .. Len(wheel[s]) : wheel[s][i].conn = c
          BY <5>1
        <5>3. s # Current \/ i # pos
          BY <1>3, <4>2, <5>2
        <5>4. PICK j \in 1 .. Len(rest[s]) : rest[s][j] = wheel[s][i]
          BY <1>5, <5>3
        <5>5. \E k \in 1 .. Len(wheel'[s]) : wheel'[s][k] = rest[s][j]
          BY <1>6
        <5>6. QED
          BY <5>2, <5>4, <5>5
      <4>3. QED
        BY <4>1, <4>2
    <3>2. QED
      BY <1>1, <1>2, <3>1 DEF Watched
  <2>4. Started'
    <3>1. ASSUME NEW s \in Slots, NEW i \in 1 .. Len(wheel'[s])
          PROVE  conn[wheel'[s][i].conn] # "new"
      <4>1. CASE s = new.slot /\ i = 1
        BY <1>1, <1>4, <1>6, <4>1
      <4>2. CASE ~(s = new.slot /\ i = 1)
        BY <1>8, <4>2 DEF Placed, Started
      <4>3. QED
        BY <4>1, <4>2
    <3>2. QED
      BY <1>1, <3>1 DEF Started
  <2>5. QED
    BY <2>1, <2>2, <2>3, <2>4 DEF Placed
<1>15. OnTime'
  <2>1. ASSUME NEW s \in Slots, NEW i \in 1 .. Len(wheel'[s]), ~late[wheel'[s][i].conn]
        PROVE  age'[wheel'[s][i].conn] + Remaining(s, i)' = TicksToFire
    <3>1. CASE s = new.slot /\ i = 1
      <4>1. Remaining(s, i)' = Extra(heartbeat \div WheelCount) + ((heartbeat % WheelCount) + 1)
        BY <1>2, <1>4, <1>6, <1>9, <1>10, <3>1 DEF Remaining
      <4>2. /\ Extra(heartbeat \div WheelCount) \in Nat /\ heartbeat % WheelCount \in Nat
            /\ TicksToFire = (heartbeat % WheelCount) + 1 + Extra(heartbeat \div WheelCount)
        BY TicksFacts, WheelFacts
      <4>3. age'[wheel'[s][i].conn] = 0
        BY <1>4, <1>6, <1>12, <3>1
      <4>4. QED
        BY <4>1, <4>2, <4>3
    <3>2. CASE ~(s = new.slot /\ i = 1)
      <4>1. Remaining(s, i)' = Remaining(s, was(s, i))
        BY <1>2, <1>8, <1>9, <3>2 DEF Remaining
      <4>2. age'[wheel'[s][i].conn] = age[wheel[s][was(s, i)].conn]
        BY <1>8, <1>11, <1>12, <3>2
      <4>3. QED
        <5>1. was(s, i) \in 1 .. Len(wheel[s]) /\ wheel'[s][i] = wheel[s][was(s, i)]
          BY <1>8, <3>2
        <5>2. QED
          BY <2>1, <4>1, <4>2, <5>1 DEF Timed, OnTime
    <3>3. QED
      BY <3>1, <3>2
  <2>2. QED
    BY <1>1, <1>2, <2>1 DEF OnTime
<1>16. AddedOnTime'
  <2>1. \A n \in adding : age'[n.conn] = age[n.conn]
    BY <1>3, <1>12 DEF OnItsWay, WheelTypeOK
  <2>2. QED
    BY <1>1, <1>2, <2>1 DEF Timed, AddedOnTime
<1>17. Timed'
  BY <1>9, <1>15, <1>16 DEF Timed, DueNow
<1>18. Counted'
  BY <1>1, <1>2, <1>9 DEF Counted
<1>19. \A c \in Conns : Elapsed(c) = age'[c] /\ (c # Task.conn => age'[c] = age[c])
  BY <1>1, <1>12 DEF Elapsed
<1>20. NotLonger'
  BY <1>1, <1>2, <1>3, <1>9, <1>19 DEF NotLonger
<1>21. NotShorter'
  BY <1>1, <1>2, <1>9, <1>19 DEF NotShorter
<1>22. QED
  BY <1>13, <1>14, <1>17, <1>18, <1>20, <1>21

\* Inserting a task keeps the invariant, whether it comes in time or late.
LEMMA InsertKeeps == ASSUME WheelInv, Insert PROVE WheelInv'
<1> USE DEF WheelInv
<1>1. PICK new \in adding :
        /\ ~(pos > 0 /\ Current = new.slot)
        /\ wheel' = [wheel EXCEPT ![new.slot] = <<[conn |-> new.conn, laps |-> new.laps]>> \o @]
        /\ adding' = {}
        /\ late' = [late EXCEPT ![new.conn] = age[new.conn] > heartbeat % WheelCount]
        /\ UNCHANGED <<heartbeat, point, pos, step, tmp, count, conn, age, silence, resetLost>>
  BY DEF Insert
<1> DEFINE task == [conn |-> new.conn, laps |-> new.laps]
           was(s, i) == Under(new.slot, s, i)
           c == new.conn
<1>2. /\ new.slot \in Slots /\ c \in Conns /\ new.laps = heartbeat \div WheelCount
      /\ task \in TaskType /\ task.conn = c /\ task.laps = heartbeat \div WheelCount
      /\ wheel \in WheelType /\ Current \in Slots
      /\ OnItsWay(c) /\ conn[c] = "open"
      /\ \A d : OnItsWay(d) => d = c
  BY WheelFacts, CurrentFacts
     DEF WheelTypeOK, TaskType, Timed, AddedOnTime, Placed, OneAdded, OnItsWay
<1>3. Gains(wheel, new.slot, task, wheel')
  BY <1>1, <1>2, Pushed
<1> HIDE DEF task
<1>4. /\ wheel' \in WheelType /\ 1 \in 1 .. Len(wheel'[new.slot]) /\ wheel'[new.slot][1] = task
      /\ \A s \in Slots : \A i \in 1 .. Len(wheel'[s]) :
             s # new.slot \/ i # 1 =>
                 was(s, i) \in 1 .. Len(wheel[s]) /\ wheel'[s][i] = wheel[s][was(s, i)]
      /\ \A s \in Slots : \A i \in 1 .. Len(wheel[s]) :
             \E j \in 1 .. Len(wheel'[s]) : wheel'[s][j] = wheel[s][i]
  BY <1>3 DEF Gains
<1>5. pos > 0 => wheel'[Current] = wheel[Current]
  BY <1>1, <1>2 DEF WheelType
<1>6. /\ TicksToFire' = TicksToFire /\ MaxSilence' = MaxSilence /\ Current' = Current
      /\ \A s : Dist(s)' = Dist(s)
      /\ \A d : ~OnItsWay(d)'
  BY <1>1, SameTurn DEF OnItsWay
<1>7. pos \in Nat /\ (pos = 0 <=> step = "sleep") /\ pos \in 0 .. Len(wheel[Current])
  BY PlaceFacts
<1>8. step # "sleep" => Task' = Task /\ Task.conn # c /\ Task.conn \in Conns
  <2>1. ASSUME step # "sleep" PROVE Task' = Task
    <3>1. pos > 0
      BY <1>7, <2>1
    <3>2. QED
      BY <1>1, <1>5, <1>6, <3>1 DEF Task
  <2>2. step # "sleep" => Task.conn # c /\ Task.conn \in Conns
    BY <1>2, TaskFacts
  <2>3. QED
    BY <2>1, <2>2
<1>9. \A s \in Slots : Len(wheel'[s]) \in Nat
  BY <1>4 DEF WheelType
<1>10. ASSUME NEW s \in Slots, NEW i \in 1 .. Len(wheel'[s]), s # new.slot \/ i # 1
       PROVE  /\ Waiting(s, i)' <=> Waiting(s, was(s, i))
              /\ \A j \in 1 .. Len(wheel'[s]) :
                     (s # new.slot \/ j # 1) /\ was(s, i) = was(s, j) => i = j
  BY <1>1, <1>6, <1>7, <1>9 DEF Waiting, Under
<1>11. ~Waiting(new.slot, 1)'
  BY <1>1, <1>6 DEF Waiting
<1> HIDE DEF was
<1>12. ASSUME NEW s \in Slots, NEW i \in 1 .. Len(wheel'[s]), s # new.slot \/ i # 1
       PROVE  wheel'[s][i].conn \in Conns \ {c}
  <2>1. was(s, i) \in 1 .. Len(wheel[s]) /\ wheel'[s][i] = wheel[s][was(s, i)]
    BY <1>4, <1>12
  <2>2. QED
    BY <2>1, PlaceFacts DEF Placed, OneAdded
<1>13. /\ ~late'[c] => age[c] =< heartbeat % WheelCount
       /\ \A d \in Conns : d # c => late'[d] = late[d]
  <2>1. /\ late'[c] = (age[c] > heartbeat % WheelCount)
        /\ \A d \in Conns : d # c => late'[d] = late[d]
    BY <1>1, <1>2 DEF WheelTypeOK
  <2>2. age[c] \in Nat /\ heartbeat % WheelCount \in Nat
    BY <1>2, CounterFacts, WheelFacts
  <2>3. age[c] > heartbeat % WheelCount \/ age[c] =< heartbeat % WheelCount
    BY <2>2
  <2>4. QED
    BY <2>1, <2>3
<1>14. WheelTypeOK'
  <2>1. late' \in [Conns -> BOOLEAN]
    BY <1>1 DEF WheelTypeOK
  <2>2. pos \in 0 .. Len(wheel'[Current])
    BY <1>2, <1>5, <1>7, <1>9
  <2>3. QED
    BY <1>1, <1>4, <1>6, <2>1, <2>2 DEF WheelTypeOK, WheelType, TaskType
<1>15. Placed'
  <2>1. Unique'
    <3>1. ASSUME NEW s \in Slots, NEW t \in Slots,
                 NEW i \in 1 .. Len(wheel'[s]), NEW j \in 1 .. Len(wheel'[t]),
                 wheel'[s][i].conn = wheel'[t][j].conn
          PROVE  s = t /\ i = j
      <4>1. CASE s = new.slot /\ i = 1
        BY <1>2, <1>4, <1>12, <3>1, <4>1
      <4>2. CASE t = new.slot /\ j = 1
        BY <1>2, <1>4, <1>12, <3>1, <4>2
      <4>3. CASE ~(s = new.slot /\ i = 1) /\ ~(t = new.slot /\ j = 1)
        <5>1. /\ was(s, i) \in 1 .. Len(wheel[s]) /\ wheel'[s][i] = wheel[s][was(s, i)]
              /\ was(t, j) \in 1 .. Len(wheel[t]) /\ wheel'[t][j] = wheel[t][was(t, j)]
          BY <1>4, <4>3
        <5>2. s = t /\ was(s, i) = was(t, j)
          BY <3>1, <5>1 DEF Placed, Unique
        <5>3. QED
          BY <1>10, <4>3, <5>2
      <4>4. QED
        BY <4>1, <4>2, <4>3
    <3>2. QED
      BY <3>1 DEF Unique
  <2>2. OneAdded'
    BY <1>1 DEF OneAdded
  <2>3. Watched'
    <3>1. ASSUME NEW d \in Conns, conn[d] = "open"
          PROVE  \E s \in Slots : \E i \in 1 .. Len(wheel'[s]) : wheel'[s][i].conn = d
      <4>1. CASE d = c
        BY <1>2, <1>4, <4>1
      <4>2. CASE d # c
        <5>1. PICK s \in Slots : \E i \in 1 .. Len(wheel[s]) : wheel[s][i].conn = d
          BY <1>2, <3>1, <4>2 DEF Placed, Watched
        <5>2. PICK i \in 1 .. Len(wheel[s]) : wheel[s][i].conn = d
          BY <5>1
        <5>3. QED
          BY <1>4, <5>2
      <4>3. QED
        BY <4>1, <4>2
    <3>2. QED
      BY <1>1, <3>1 DEF Watched
  <2>4. Started'
    <3>1. ASSUME NEW s \in Slots, NEW i \in 1 .. Len(wheel'[s])
          PROVE  conn[wheel'[s][i].conn] # "new"
      <4>1. CASE s = new.slot /\ i = 1
        BY <1>2, <1>4, <4>1
      <4>2. CASE ~(s = new.slot /\ i = 1)
        <5>1. was(s, i) \in 1 .. Len(wheel[s]) /\ wheel'[s][i] = wheel[s][was(s, i)]
          BY <1>4, <4>2
        <5>2. QED
          BY <5>1 DEF Placed, Started
      <4>3. QED
        BY <4>1, <4>2
    <3>2. QED
      BY <1>1, <3>1 DEF Started
  <2>5. QED
    BY <2>1, <2>2, <2>3, <2>4 DEF Placed
<1>16. /\ age[c] \in Nat /\ heartbeat % WheelCount \in Nat
       /\ heartbeat % WheelCount < TicksToFire /\ TicksToFire \in Nat
  <2>1. age[c] \in Nat /\ TicksToFire \in Nat
    BY <1>2, CounterFacts
  <2>2. heartbeat % WheelCount \in Nat
    BY WheelFacts
  <2>3. heartbeat % WheelCount < TicksToFire
    BY TicksFacts
  <2>4. QED
    BY <2>1, <2>2, <2>3
<1>17. OnTime'
  <2>1. ASSUME NEW s \in Slots, NEW i \in 1 .. Len(wheel'[s]), ~late'[wheel'[s][i].conn]
        PROVE  age[wheel'[s][i].conn] + Remaining(s, i)' = TicksToFire
    <3>1. CASE s = new.slot /\ i = 1
      <4>1. wheel'[s][i] = task /\ wheel'[s][i].conn = c
        BY <1>2, <1>4, <3>1
      <4>2. age[c] =< heartbeat % WheelCount
        BY <1>13, <1>16, <2>1, <4>1
      <4>3. age[c] + Dist(new.slot) = heartbeat % WheelCount
        BY <4>2 DEF Timed, AddedOnTime
      <4>4. Remaining(s, i)' = Extra(heartbeat \div WheelCount) + (Dist(new.slot) + 1)
        BY <1>2, <1>6, <1>11, <3>1, <4>1 DEF Remaining
      <4>5. /\ Extra(heartbeat \div WheelCount) \in Nat /\ Dist(new.slot) \in Nat
            /\ TicksToFire = (heartbeat % WheelCount) + 1 + Extra(heartbeat \div WheelCount)
        <5>1. Dist(new.slot) \in 0 .. WheelCount - 1 /\ WheelCount \in Nat
          BY <1>2, PlaceFacts, WheelFacts
        <5>2. heartbeat \div WheelCount \in Nat
          BY WheelFacts
        <5>3. Extra(heartbeat \div WheelCount) \in Nat
          BY <5>2, TicksFacts
        <5>4. TicksToFire = (heartbeat % WheelCount) + 1 + Extra(heartbeat \div WheelCount)
          BY TicksFacts
        <5>5. QED
          BY <5>1, <5>3, <5>4
      <4>6. QED
        BY <1>16, <4>1, <4>3, <4>4, <4>5
    <3>2. CASE ~(s = new.slot /\ i = 1)
      <4>1. was(s, i) \in 1 .. Len(wheel[s]) /\ wheel'[s][i] = wheel[s][was(s, i)]
        BY <1>4, <3>2
      <4>2. Remaining(s, i)' = Remaining(s, was(s, i))
        BY <1>6, <1>10, <3>2, <4>1 DEF Remaining
      <4>3. ~late[wheel[s][was(s, i)].conn]
        BY <1>12, <1>13, <2>1, <3>2, <4>1
      <4>4. QED
        BY <4>1, <4>2, <4>3 DEF Timed, OnTime
    <3>3. QED
      BY <3>1, <3>2
  <2>2. QED
    BY <1>1, <1>6, <2>1 DEF OnTime
<1>18. Timed'
  BY <1>1, <1>8, <1>17 DEF Timed, DueNow, AddedOnTime
<1>19. Counted'
  BY <1>1, <1>6, <1>8 DEF Counted
<1>20. \A d : Elapsed(d)' = Elapsed(d)
  BY <1>1, <1>8 DEF Elapsed
<1>21. Elapsed(c) = age[c] /\ count[c] * TicksToFire = 0 /\ silence[c] \in Nat
  BY <1>2, <1>8, <1>16, CounterFacts DEF Elapsed, Counted
<1>22. NotLonger'
  <2>1. ASSUME NEW d \in Conns, conn[d] = "open", ~late'[d]
        PROVE  silence[d] =< count[d] * TicksToFire + Elapsed(d)
    <3>1. CASE d = c
      <4>1. age[c] =< TicksToFire
        BY <1>13, <1>16, <2>1, <3>1
      <4>2. silence[c] =< age[c]
        BY <1>2, <4>1 DEF NotLonger
      <4>3. QED
        BY <1>16, <1>21, <3>1, <4>2
    <3>2. CASE d # c
      BY <1>2, <1>13, <2>1, <3>2 DEF NotLonger
    <3>3. QED
      BY <3>1, <3>2
  <2>2. QED
    BY <1>1, <1>6, <1>8, <1>13, <1>20, <2>1 DEF NotLonger
<1>23. NotShorter'
  <2>1. ASSUME NEW d \in Conns, conn[d] = "open", ~late'[d], ~resetLost[d]
        PROVE  silence[d] + TicksToFire >= count[d] * TicksToFire + Elapsed(d)
    <3>1. CASE d = c
      <4>1. age[c] =< TicksToFire
        BY <1>13, <1>16, <2>1, <3>1
      <4>2. QED
        BY <1>16, <1>21, <3>1, <4>1
    <3>2. CASE d # c
      BY <1>2, <1>13, <2>1, <3>2 DEF NotShorter
    <3>3. QED
      BY <3>1, <3>2
  <2>2. QED
    BY <1>1, <1>6, <1>8, <1>13, <1>20, <2>1 DEF NotShorter
<1>24. QED
  BY <1>14, <1>15, <1>18, <1>19, <1>22, <1>23

-----------------------------------------------------------------------------
(* TimeoutWheel: theorems                                                  *)

\* The inductive invariant holds in every reachable state.
THEOREM WheelInvariant == WheelSpec => []WheelInv
<1>1. WheelInv /\ [WheelNext]_wheelVars => WheelInv'
  <2> SUFFICES ASSUME WheelInv, [WheelNext]_wheelVars
               PROVE  WheelInv'
    OBVIOUS
  <2>1. ASSUME Loop PROVE WheelInv'
    BY <2>1, TickKeeps, SkipKeeps, TimeoutReadKeeps, TimeoutWriteKeeps, TimeoutCloseKeeps,
       AgainKeeps, ForgetKeeps DEF Loop
  <2>2. ASSUME Insert PROVE WheelInv'
    BY <2>2, InsertKeeps
  <2>3. ASSUME NEW c \in Conns, Accept(c) \/ Message(c) \/ Fail(c) PROVE WheelInv'
    BY <2>3, AcceptKeeps, MessageKeeps, FailKeeps
  <2>4. ASSUME UNCHANGED wheelVars PROVE WheelInv'
    <3>1. UNCHANGED <<heartbeat, wheel, point, pos, step, tmp, adding, count, conn, age, late,
                      silence, resetLost>>
      BY <2>4 DEF wheelVars
    <3>2. /\ TicksToFire' = TicksToFire /\ MaxSilence' = MaxSilence /\ Current' = Current
          /\ Task' = Task
          /\ \A c : OnItsWay(c)' = OnItsWay(c)
          /\ \A c : Elapsed(c)' = Elapsed(c)
      BY <3>1, SameTurn DEF Task, OnItsWay, Elapsed
    <3>3. WheelTypeOK'
      BY <3>1, <3>2 DEF WheelInv, WheelTypeOK
    <3>4. Placed'
      BY <3>1, SamePlaced DEF WheelInv
    <3>5. Timed'
      BY <3>1, <3>2, SameTimed DEF WheelInv, Timed, DueNow
    <3>6. Counted' /\ NotLonger' /\ NotShorter'
      BY <3>1, <3>2 DEF WheelInv, Counted, NotLonger, NotShorter
    <3>7. QED
      BY <3>3, <3>4, <3>5, <3>6 DEF WheelInv
  <2>5. QED
    BY <2>1, <2>2, <2>3, <2>4 DEF WheelNext
<1>2. QED
  BY <1>1, WheelInvInit, PTL DEF WheelSpec

\* The state of the wheel and of its connections keeps its shape.
THEOREM WheelTypeCorrect == WheelSpec => []WheelTypeOK
<1>1. WheelInv => WheelTypeOK
  BY DEF WheelInv
<1>2. QED
  BY <1>1, WheelInvariant, PTL

\* Exactly one task watches an open connection, and at most one holds a closed one:
\* add(), the erasure in timeWork and the registration again keep the account,
\* wherever the IO thread's add() falls between them.
THEOREM OneTaskHolds == WheelSpec => []OneTask
<1>1. WheelInv => OneTask
  <2> SUFFICES ASSUME WheelInv, NEW c \in Conns
               PROVE  /\ conn[c] = "open" => \E t \in TasksOf(c) : TasksOf(c) = {t}
                      /\ conn[c] = "closed" => \A t, u \in TasksOf(c) : t = u
    BY DEF OneTask
  <2> USE DEF WheelInv
  <2>1. ASSUME NEW t \in TasksOf(c), ~OnItsWay(c)
        PROVE  \E s \in Slots : \E i \in 1 .. Len(wheel[s]) :
                   t = <<s, i>> /\ wheel[s][i].conn = c
    <3>1. t \in Places /\ wheel[t[1]][t[2]].conn = c
      BY <2>1 DEF TasksOf, OnItsWay
    <3>2. PICK s \in Slots : t \in {s} \X (1 .. Len(wheel[s]))
      BY <3>1 DEF Places
    <3>3. PICK i \in 1 .. Len(wheel[s]) : t = <<s, i>>
      BY <3>2
    <3>4. t[1] = s /\ t[2] = i
      BY <3>3
    <3>5. QED
      BY <3>1, <3>3, <3>4
  <2>2. ASSUME OnItsWay(c)
        PROVE  \E new \in adding : TasksOf(c) = {<<new.slot, 0>>}
    <3>1. PICK new \in adding : new.conn = c
      BY <2>2 DEF OnItsWay
    <3>2. {n \in adding : n.conn = c} = {new}
      BY <3>1 DEF Placed, OneAdded
    <3>3. \A s \in Slots : \A i \in 1 .. Len(wheel[s]) : wheel[s][i].conn # c
      BY <3>1 DEF Placed, OneAdded
    <3>4. ASSUME NEW p \in Places
          PROVE  wheel[p[1]][p[2]].conn # c
      <4>1. PICK s \in Slots : p \in {s} \X (1 .. Len(wheel[s]))
        BY DEF Places
      <4>2. PICK i \in 1 .. Len(wheel[s]) : p = <<s, i>>
        BY <4>1
      <4>3. p[1] = s /\ p[2] = i
        BY <4>2
      <4>4. QED
        BY <3>3, <4>3
    <3>5. TasksOf(c) = {<<n.slot, 0>> : n \in {n \in adding : n.conn = c}}
      BY <3>4 DEF TasksOf
    <3>6. QED
      BY <3>2, <3>5
  <2>3. \A t, u \in TasksOf(c) : t = u
    <3>1. CASE OnItsWay(c)
      BY <2>2, <3>1
    <3>2. CASE ~OnItsWay(c)
      BY <2>1, <3>2 DEF Placed, Unique
    <3>3. QED
      BY <3>1, <3>2
  <2>4. conn[c] = "open" => TasksOf(c) # {}
    BY HasTask DEF Placed, Watched
  <2>5. QED
    BY <2>3, <2>4
<1>2. QED
  BY <1>1, WheelInvariant, PTL

\* What the slot and the laps of add() make of the interval.
LEMMA TicksOfInterval ==
    ASSUME WheelTypeOK
    PROVE  TicksToFire \in Nat /\ EarlyBy \in Nat /\ TicksToFire + EarlyBy = heartbeat + 1
<1> DEFINE m == heartbeat % WheelCount
           d == heartbeat \div WheelCount
<1>1. heartbeat \in Nat /\ WheelCount \in Nat \ {0} /\ TicksToFire \in Nat
  BY WheelFacts, TicksFacts
<1>2. d \in Nat /\ m \in Nat /\ heartbeat = d * WheelCount + m
  BY <1>1
<1>3. heartbeat >= WheelCount <=> d >= 1
  BY WheelFacts, DivZero
<1>4. TicksToFire = m + 1 + (IF heartbeat >= WheelCount THEN (d - 1) * WheelCount ELSE 0)
  BY DEF TicksToFire
<1> HIDE DEF m, d
<1>5. CASE d = 0
  BY <1>1, <1>2, <1>3, <1>4, <1>5 DEF EarlyBy
<1>6. CASE d >= 1
  <2>1. (d - 1) * WheelCount = d * WheelCount - WheelCount
    BY <1>1, <1>2
  <2>2. d * WheelCount \in Nat
    BY <1>1, <1>2
  <2> QED
    BY <1>1, <1>2, <1>3, <1>4, <1>6, <2>1, <2>2 DEF EarlyBy
<1> QED
  BY <1>2, <1>5, <1>6

\* A handler runs interval ticks after it was added, neither before nor after, and an
\* interval of a lap or more exactly one lap early, whatever the interval and the size
\* of the wheel: the slot and the laps of add(), the laps that timeWork lets pass and
\* the tasks pushed into the slot that is being worked on agree but for that lap.
THEOREM FiresOnTimeHolds == WheelSpec => []FiresOnTime
<1>1. WheelInv => FiresOnTime
  <2> SUFFICES ASSUME WheelInv PROVE FiresOnTime
    OBVIOUS
  <2>1. TicksToFire \in Nat /\ EarlyBy \in Nat /\ TicksToFire + EarlyBy = heartbeat + 1
    BY TicksOfInterval DEF WheelInv
  <2>2. ASSUME step \in {"write", "close", "return"}, ~late[Task.conn]
        PROVE  age[Task.conn] + EarlyBy = heartbeat + 1
    <3>1. age[Task.conn] = TicksToFire
      BY <2>2, TaskOnTime DEF WheelInv, Timed, DueNow
    <3> QED
      BY <2>1, <3>1
  <2>3. ASSUME NEW s \in Slots, NEW i \in 1 .. Len(wheel[s]), ~late[wheel[s][i].conn]
        PROVE  age[wheel[s][i].conn] + EarlyBy =< heartbeat + 1
    <3>1. Remaining(s, i) \in Nat /\ age[wheel[s][i].conn] \in Nat /\ heartbeat \in Nat
      BY PlaceFacts, CounterFacts, WheelFacts DEF WheelInv
    <3>2. age[wheel[s][i].conn] + Remaining(s, i) = TicksToFire
      BY <2>3 DEF WheelInv, Timed, OnTime
    <3> QED
      BY <2>1, <3>1, <3>2
  <2> QED
    BY <2>2, <2>3 DEF FiresOnTime
<1>2. QED
  BY <1>1, WheelInvariant, PTL

\* An open connection is never silent for longer than TimeoutMax + 1 expirations.
THEOREM SilentIsClosedHolds == WheelSpec => []SilentIsClosed
<1>1. WheelInv => SilentIsClosed
  <2> SUFFICES ASSUME WheelInv, NEW c \in Conns, conn[c] = "open", ~late[c],
                      \A n \in adding : n.conn # c
               PROVE  silence[c] =< MaxSilence
    BY DEF SilentIsClosed
  <2> USE DEF WheelInv
  <2>1. ~OnItsWay(c)
    BY DEF OnItsWay
  <2>2. silence[c] =< count[c] * TicksToFire + Elapsed(c)
    BY <2>1 DEF NotLonger
  <2>3. /\ TicksToFire \in Nat /\ silence[c] \in Nat /\ count[c] \in Nat /\ age[c] \in Nat
        /\ TimeoutMax \in Nat
    BY CounterFacts
  <2>4. MaxSilence = TimeoutMax * TicksToFire + TicksToFire /\ TimeoutMax * TicksToFire \in Nat
    BY TicksFacts
  <2>5. CASE count[c] =< TimeoutMax
    <3>1. /\ count[c] * TicksToFire \in Nat
          /\ count[c] * TicksToFire =< TimeoutMax * TicksToFire
      BY <2>3, <2>5, MultipleFacts
    <3>2. Elapsed(c) \in Nat /\ Elapsed(c) =< TicksToFire
      BY <2>1, <2>3, AgeBound DEF Elapsed, Timed
    <3>3. QED
      BY <2>2, <2>3, <2>4, <3>1, <3>2
  <2>6. CASE ~(count[c] =< TimeoutMax)
    <3>1. Elapsed(c) = 0
      BY <2>6 DEF Counted, Elapsed
    <3>2. count[c] = TimeoutMax + 1
      BY <2>3, <2>6 DEF WheelTypeOK
    <3>3. (TimeoutMax + 1) * TicksToFire = TimeoutMax * TicksToFire + TicksToFire
      BY <2>3, MultipleFacts
    <3>4. QED
      BY <2>2, <2>3, <2>4, <3>1, <3>2, <3>3
  <2>7. QED
    BY <2>5, <2>6
<1>2. QED
  BY <1>1, WheelInvariant, PTL

\* A connection is not given up for its silence before TimeoutMax expirations have
\* passed without a message, unless a message's reset was lost to the ++ or
\* the task was late.
THEOREM HeardIsKeptHolds == WheelSpec => HeardIsKept
<1>1. WheelInv /\ [WheelNext]_wheelVars =>
          [step = "write" /\ step' = "close" /\ ~resetLost[Task.conn] /\ ~late[Task.conn]
               => silence[Task.conn] >= TimeoutMax * TicksToFire]_wheelVars
  <2> SUFFICES ASSUME WheelInv, [WheelNext]_wheelVars, step = "write", step' = "close",
                      ~resetLost[Task.conn], ~late[Task.conn]
               PROVE  silence[Task.conn] >= TimeoutMax * TicksToFire
    OBVIOUS
  <2> USE DEF WheelInv
  <2>1. tmp + 1 > TimeoutMax
    BY PlaceFacts DEF WheelNext, wheelVars, Loop, Tick, Skip, TimeoutRead, TimeoutWrite, TimeoutClose,
          Again, Forget, Insert, Accept, Message, Fail
  <2>2. tmp = TimeoutMax
    BY <2>1, CounterFacts DEF Counted
  <2>3. silence[Task.conn] >= tmp * TicksToFire
    BY DEF NotShorter
  <2>4. QED
    BY <2>2, <2>3
<1>2. QED
  BY <1>1, WheelInvariant, PTL DEF WheelSpec, HeardIsKept

=============================================================================
