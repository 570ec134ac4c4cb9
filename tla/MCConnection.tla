---------------------------- MODULE MCConnection ----------------------------
(***************************************************************************)
(* The receiving half of a connection (RecvBuffer, with the streams of     *)
(* MCRecvBuffer) and the wheel that watches connections (TimeoutWheel), in *)
(* one run.  They have no variable in common, so that each behaviour is of *)
(* one of them, while the other rests: the states are the sum of the two   *)
(* state spaces and not their product.                                     *)
(*                                                                         *)
(* The wheel has two slots.  The heartbeats give a task that comes again in*)
(* the slot that the loop has locked (1), in the next slot although a whole*)
(* lap was asked for (2), and one that lets a lap pass (4).                *)
(***************************************************************************)
EXTENDS MCRecvBuffer, TimeoutWheel

VARIABLE part       \* the part that this behaviour is of

MCHeartbeats == {1, 2, 4}

\* No connection receives.
NoStream ==
    /\ stream = CHOOSE s \in Streams : TRUE
    /\ rcvd = 0
    /\ buf = [j \in 0 .. BufSize - 1 |-> <<"body", 0>>]
    /\ recvSize = 0
    /\ head = 0
    /\ pc = "stopped"
    /\ valid = FALSE
    /\ delivered = <<>>
    /\ why = "none"
    /\ lost = FALSE

\* No connection is watched.
NoWheel == WheelInit /\ heartbeat = CHOOSE h \in Heartbeats : TRUE

MCInit ==
    \/ part = "stream" /\ Init /\ NoWheel
    \/ part = "wheel" /\ WheelInit /\ NoStream

Receives == part = "stream" /\ UNCHANGED <<part, wheelVars>>
Watches == part = "wheel" /\ UNCHANGED <<part, vars>>

\* Next or WheelNext, with the disjuncts apart so that TLC counts each.
MCNext ==
    \/ \E n \in 1 .. BufSize : Receives /\ Receive(n)
    \/ Receives /\ ReadFails
    \/ Receives /\ ClosedElsewhere
    \/ Receives /\ LengthError
    \/ Receives /\ VerifyFails
    \/ Receives /\ HandleReturns
    \/ Receives /\ HandleThrows
    \/ Receives /\ PartialMessage
    \/ Receives /\ LoopEnds
    \/ Watches /\ Tick
    \/ Watches /\ Skip
    \/ Watches /\ TimeoutRead
    \/ Watches /\ TimeoutWrite
    \/ Watches /\ TimeoutClose
    \/ Watches /\ Again
    \/ Watches /\ Forget
    \/ Watches /\ Insert
    \/ \E c \in Conns : Watches /\ Accept(c)
    \/ \E c \in Conns : Watches /\ Message(c)
    \/ \E c \in Conns : Watches /\ Fail(c)

\* Nothing that RecvBuffer's fairness is about is enabled without a stream.
MCSpec ==
    /\ MCInit /\ [][MCNext]_<<part, vars, wheelVars>>
    /\ Fairness
    /\ WF_wheelVars(part = "wheel" /\ Loop) /\ SF_wheelVars(part = "wheel" /\ Insert)

=============================================================================
