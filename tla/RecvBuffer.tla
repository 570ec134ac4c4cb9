----------------------------- MODULE RecvBuffer -----------------------------
(***************************************************************************)
(* How a connection cuts the byte stream of its socket into messages:      *)
(* IcsConnection::do_read, handleData and handleMessage                    *)
(* (src/src/module/icsconnection.hpp), with IcsMsgHead::verify             *)
(* (src/src/module/icsprotocol.cpp) as the judge of one message.           *)
(*                                                                         *)
(* Data is kept to what the cutting can tell apart.  A byte is one of      *)
(*   <<"name", o>>   byte o of the name and version every head starts with *)
(*   <<"length", n>> the length field, one cell here, with value n         *)
(*   <<"body", p>>   any later byte; p, its position in the stream, stands *)
(*                   for its value, so a CRC accepts a message only when   *)
(*                   every byte is the byte that the peer put there.       *)
(***************************************************************************)
EXTENDS Naturals, Sequences

CONSTANTS
    BufSize,    \* sizeof(m_recvBuff)
    MinLen,     \* sizeof(IcsMsgHead) + CrcCodeSize
    ConstLen,   \* bytes of name and version, in front of the length field
    Streams     \* the byte streams a peer may send, see IsStream

\* A stream of s.last messages: message i takes the positions
\* s.start[i] .. s.start[i+1]-1 and its length field holds s.field[i];
\* s.good are the messages that verify() accepts when they are read whole.
IsStream(s) ==
    /\ s.last \in Nat
    /\ s.start \in [1 .. s.last + 1 -> Nat]
    /\ s.field \in [1 .. s.last -> Nat]
    /\ s.good \subseteq 1 .. s.last
    /\ s.start[1] = 0
    /\ \A i, j \in 1 .. s.last + 1 : i < j => s.start[i] + MinLen =< s.start[j]
    /\ \A p \in 0 .. s.start[s.last + 1] - 1 :
           \E i \in 1 .. s.last : s.start[i] =< p /\ p < s.start[i + 1]
    /\ \A i \in s.good : /\ s.start[i] + s.field[i] = s.start[i + 1]
                         /\ s.field[i] =< BufSize

ASSUME SizesAssumption ==
    /\ BufSize \in Nat /\ MinLen \in Nat /\ ConstLen \in Nat
    /\ ConstLen + 2 =< MinLen
    /\ MinLen =< BufSize

ASSUME StreamsAssumption == \A s \in Streams : IsStream(s)

VARIABLES
    stream,     \* what the peer of this connection sends
    rcvd,       \* bytes of it that the kernel has put into m_recvBuff so far
    buf,        \* m_recvBuff
    recvSize,   \* m_recvSize
    head,       \* index of `head` in m_recvBuff, 0 between two handleData calls
    pc,         \* "reading" (async_receive posted), "parsing" (in handleData), "stopped"
    valid,      \* m_valid; the socket is open as long as it is TRUE
    delivered,  \* messages handed to handle(), in order
    why,        \* what made handleData return false
    lost        \* history: unread bytes that are not moved were left behind

vars == <<stream, rcvd, buf, recvSize, head, pc, valid, delivered, why, lost>>

-----------------------------------------------------------------------------
(* Bytes                                                                   *)

MsgOf(s, p) == CHOOSE i \in 1 .. s.last : s.start[i] =< p /\ p < s.start[i + 1]

\* The byte at position p of stream s: where it lies in its message decides.
Byte(s, p) ==
    LET i == MsgOf(s, p)
        o == p - s.start[i]
    IN  IF o < ConstLen THEN <<"name", o>>
        ELSE IF o = ConstLen THEN <<"length", s.field[i]>>
        ELSE <<"body", p>>

Bytes == {"name", "length", "body"} \X Nat

Total == stream.start[stream.last + 1]

\* Position in the stream of the first byte that handleData has not consumed.
Consumed == rcvd - recvSize

\* head->getLength()
Field == buf[head + ConstLen][2]

\* The n bytes at head are exactly those of message i.
Intact(i, n) ==
    \A o \in 0 .. n - 1 : buf[head + o] = Byte(stream, stream.start[i] + o)

\* The message that verify() sees in the n bytes at head, if it accepts them.
Accepted(n) == {i \in stream.good : stream.field[i] = n /\ Intact(i, n)}

-----------------------------------------------------------------------------
(* Actions                                                                 *)

Init ==
    /\ stream \in Streams
    /\ rcvd = 0
    /\ buf = [j \in 0 .. BufSize - 1 |-> <<"body", 0>>]
    /\ recvSize = 0
    /\ head = 0
    /\ pc = "reading"
    /\ valid = TRUE
    /\ delivered = <<>>
    /\ why = "none"
    /\ lost = FALSE

\* (mutant) The read is posted with the size of the whole buffer.
ReceiveMutant(n) ==
    /\ pc = "reading"
    /\ n =< BufSize
    /\ rcvd + n =< Total
    /\ rcvd' = rcvd + n
    /\ recvSize' = recvSize + n
    /\ head' = 0
    /\ pc' = "parsing"
    /\ UNCHANGED <<stream, buf, valid, delivered, why, lost>>

\* The receive completes with n bytes, as many as the socket had and the room
\* behind m_recvSize holds, and handleData starts at the front of the buffer; also
\* if do_error has run since, as it clears m_valid before it closes the socket.
Receive(n) ==
    /\ pc = "reading"
    /\ n =< BufSize - recvSize
    /\ rcvd + n =< Total
    /\ buf' = [j \in 0 .. BufSize - 1 |->
                 IF recvSize =< j /\ j < recvSize + n
                 THEN Byte(stream, rcvd + (j - recvSize)) ELSE buf[j]]
    /\ rcvd' = rcvd + n
    /\ recvSize' = recvSize + n
    /\ head' = 0
    /\ pc' = "parsing"
    /\ UNCHANGED <<stream, valid, delivered, why, lost>>

\* The receive completes with an error: the peer went, or do_error closed the
\* socket.  The handler calls do_error and posts no further read.
ReadFails ==
    /\ pc = "reading"
    /\ pc' = "stopped"
    /\ valid' = FALSE
    /\ UNCHANGED <<stream, rcvd, buf, recvSize, head, delivered, why, lost>>

\* Another thread runs do_error on the connection at any moment: its timeout
\* expired, or it was replaced.  handleData does not look at m_valid.
ClosedElsewhere ==
    /\ valid
    /\ valid' = FALSE
    /\ UNCHANGED <<stream, rcvd, buf, recvSize, head, pc, delivered, why, lost>>

\* handleData returns false for reason r: the read handler calls do_error.
Refuse(r) ==
    /\ why' = r
    /\ pc' = "stopped"
    /\ valid' = FALSE

\* (mutant) The loop asks for more than a head and a checksum.
InLoopMutant == pc = "parsing" /\ recvSize > MinLen

\* The condition of the while loop of handleData.
InLoop == pc = "parsing" /\ recvSize >= MinLen

\* (mutant) The length check admits one byte more than the buffer has.
LengthOkMutant == MinLen =< Field /\ Field =< BufSize + 1

\* The length check of handleData.
LengthOk == MinLen =< Field /\ Field =< BufSize

\* (mutant) A message that ends with the received bytes is not yet complete.
HaveWholeMutant == recvSize > Field

\* The message at head is there in full.
HaveWhole == recvSize >= Field

LengthError ==
    /\ InLoop
    /\ ~LengthOk
    /\ Refuse("length")
    /\ UNCHANGED <<stream, rcvd, buf, recvSize, head, delivered, lost>>

WholeMessage ==
    /\ InLoop
    /\ LengthOk
    /\ HaveWhole

\* (mutant) head stays where it is.
AdvanceMutantHead ==
    /\ recvSize' = recvSize - Field
    /\ UNCHANGED <<stream, rcvd, buf, head, lost>>

\* (mutant) m_recvSize is not reduced.
AdvanceMutantSize ==
    /\ head' = head + Field
    /\ UNCHANGED <<stream, rcvd, buf, recvSize, lost>>

\* m_recvSize -= msgLen; head += msgLen, whatever handleMessage returned
Advance ==
    /\ recvSize' = recvSize - Field
    /\ head' = head + Field
    /\ UNCHANGED <<stream, rcvd, buf, lost>>

\* verify() throws in the constructor of the request stream.
VerifyFails ==
    /\ WholeMessage
    /\ Accepted(Field) = {}
    /\ Refuse("verify")
    /\ UNCHANGED delivered
    /\ Advance

\* The message is handed to handle(), which returns, or it is a response,
\* which is ignored.
HandleReturns ==
    /\ WholeMessage
    /\ \E i \in Accepted(Field) : delivered' = Append(delivered, i)
    /\ Advance
    /\ UNCHANGED <<pc, valid, why>>

\* handle() throws, or the pool has no chunk for the response.
HandleThrows ==
    /\ WholeMessage
    /\ \E i \in Accepted(Field) : delivered' = Append(delivered, i)
    /\ Refuse("handler")
    /\ Advance

\* (mutant) The rest of the bytes is not moved to the front.
PartialMessageMutant ==
    /\ InLoop
    /\ LengthOk
    /\ ~HaveWhole
    /\ head' = 0
    /\ pc' = "reading"
    /\ UNCHANGED <<stream, rcvd, buf, recvSize, valid, delivered, why, lost>>

\* Part of a message is left: it is moved to the front and the read goes on.
PartialMessage ==
    /\ InLoop
    /\ LengthOk
    /\ ~HaveWhole
    /\ buf' = [j \in 0 .. BufSize - 1 |->
                 IF j < recvSize THEN buf[head + j] ELSE buf[j]]
    /\ head' = 0
    /\ pc' = "reading"
    /\ UNCHANGED <<stream, rcvd, recvSize, valid, delivered, why, lost>>

\* Too little is left for a head and a checksum: the loop ends and nothing is
\* moved, although the next handleData starts at the front of the buffer.
LoopEnds ==
    /\ pc = "parsing"
    /\ ~InLoop
    /\ head' = 0
    /\ pc' = "reading"
    /\ lost' = (lost \/ (head > 0 /\ recvSize > ConstLen))
    /\ UNCHANGED <<stream, rcvd, buf, recvSize, valid, delivered, why>>

Parse ==
    \/ LengthError
    \/ VerifyFails
    \/ HandleReturns
    \/ HandleThrows
    \/ PartialMessage
    \/ LoopEnds

Next ==
    \/ \E n \in 1 .. BufSize : Receive(n)
    \/ ReadFails
    \/ ClosedElsewhere
    \/ Parse

Spec == Init /\ [][Next]_vars

\* The IO thread goes on: it finishes handleData, and a posted read completes
\* once there are bytes or the socket is closed.
Fairness ==
    /\ WF_vars(Parse)
    /\ WF_vars(valid /\ \E n \in 1 .. BufSize : Receive(n))
    /\ WF_vars(~valid /\ ReadFails)

FairSpec == Spec /\ Fairness

-----------------------------------------------------------------------------
(* Properties                                                              *)

\* The shape of the state; an index into m_recvBuff is never beyond its end.
TypeOK ==
    /\ IsStream(stream)
    /\ rcvd \in Nat
    /\ buf \in [0 .. BufSize - 1 -> Bytes]
    /\ recvSize \in 0 .. BufSize
    /\ head \in 0 .. BufSize
    /\ pc \in {"reading", "parsing", "stopped"}
    /\ valid \in BOOLEAN
    /\ delivered \in Seq(Nat)
    /\ why \in {"none", "length", "verify", "handler"}
    /\ lost \in BOOLEAN

\* A posted async_receive always has room for a byte.  With none it would
\* complete at once with length 0, again and again, and the connection would
\* spin without reading what its peer sent.
ReadHasRoom == pc = "reading" => recvSize < BufSize

\* What handleData may still look at, m_recvSize bytes from head, lies inside
\* m_recvBuff, and all of it was received.
UnreadInBuffer == head + recvSize =< BufSize /\ recvSize =< rcvd

\* Messages reach handle() in the order they were sent, none skipped and none
\* twice, also when stale bytes were left in the buffer and after a close.
DeliveredInOrder == \A k \in 1 .. Len(delivered) : delivered[k] = k

\* A message that verify() accepts when it is read whole makes the connection
\* fail, as too long or as damaged, only if bytes were left behind before.
RefusedOnlyAfterLoss ==
    why \in {"length", "verify"} /\ Len(delivered) + 1 \in stream.good => lost

\* A connection that waits for more bytes holds no good message that has
\* arrived in full: the next one's last byte is still missing.
NoMessageHeldBack ==
    pc = "reading" /\ ~lost /\ Len(delivered) + 1 \in stream.good
        => rcvd < stream.start[Len(delivered) + 2]

\* Every good stream is delivered to its end unless the connection fails or
\* bytes are left behind.
EventuallyDelivered ==
    []<>(stream.good = 1 .. stream.last
            => lost \/ ~valid \/ Len(delivered) = stream.last)

\* What the comment on the branch says (icsconnection.hpp:256, "there is a
\* complete message"): for a good stream, the bytes handed on as a complete
\* message are the next message of the stream.
CompleteMeansComplete ==
    WholeMessage /\ stream.good = 1 .. stream.last
        => Len(delivered) + 1 \in Accepted(Field)

-----------------------------------------------------------------------------
(* The inductive invariant                                                 *)

\* Between two handleData calls `head` is the front of the buffer.
HeadReset == pc = "reading" => head = 0

\* As long as the connection reads, nothing was refused and everything consumed
\* is whole messages, those that were delivered.
AtBoundary ==
    pc # "stopped" =>
        /\ why = "none"
        /\ Len(delivered) =< stream.last
        /\ Consumed = stream.start[Len(delivered) + 1]

\* The unread bytes are those of the stream, but for the fewer than MinLen
\* stale ones at the front that were not moved.
UnreadIsStream ==
    pc # "stopped" =>
        \A j \in 0 .. recvSize - 1 :
            ~lost \/ j + 1 >= MinLen => buf[head + j] = Byte(stream, Consumed + j)

\* Once a message is consumed, the buffer still starts with its name: a stale
\* leftover no longer than that is as good as the bytes it stands for.
NameInFront ==
    pc = "parsing" /\ head > 0 =>
        \A j \in 0 .. ConstLen - 1 : buf[j] = <<"name", j>>

IInv ==
    /\ TypeOK
    /\ rcvd =< Total
    /\ UnreadInBuffer
    /\ ReadHasRoom
    /\ HeadReset
    /\ AtBoundary
    /\ UnreadIsStream
    /\ NameInFront
    /\ DeliveredInOrder
    /\ RefusedOnlyAfterLoss
    /\ NoMessageHeldBack

=============================================================================
