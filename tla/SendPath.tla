------------------------------ MODULE SendPath ------------------------------
(***************************************************************************)
(* How the proxy's two threads turn work into bytes on a socket: the chunks*)
(* of g_memoryPool (src/src/module/mempool.cpp), the streams that own them *)
(* (ProtocolStream, src/src/module/icsprotocol.cpp), the send list of each *)
(* connection (src/src/module/icsconnection.hpp) and the callers that put  *)
(* messages on it (src/src/proxy/icsproxyserver.cpp).                      *)
(*                                                                         *)
(* "io" runs every asio handler: reads, message handling, send completions.*)
(* "timer" runs the timeouts, and through them do_error and error().  An   *)
(* exception unwinds the streams on the stack, whose destructors return    *)
(* their chunks.  Message contents are left out: a message is the chunk    *)
(* that carries it and the serial number that serialize() wrote into it.   *)
(***************************************************************************)
EXTENDS Naturals, Sequences, FiniteSets

CONSTANTS
    Terminals,  \* connections of terminals
    Center,     \* the connection of the one center server
    Chunks,     \* the chunks of g_memoryPool
    None,       \* no chunk, no thread, no connection
    SerialMod   \* 2^16, the width of m_serialNum

ASSUME NamesAssumption ==
    /\ Center \notin Terminals
    /\ None \notin Chunks \cup Terminals \cup {Center} \cup {"io", "timer"}
    /\ SerialMod \in Nat \ {0}

Conns == Terminals \cup {Center}
Threads == {"io", "timer"}
Places == {"idle", "handle", "reply", "notice", "forward", "forwarded", "remove",
           "count", "number", "push", "kick"}
Slots == {"resp", "fwd", "msg"}

VARIABLES
    free,       \* chunks in the pool's list
    queue,      \* m_sendList of each connection
    sending,    \* m_isSending of each connection
    op,         \* the async_send of each connection, or "none"
    serial,     \* m_serialNum of each connection
    valid,      \* m_valid of each connection
    alive,      \* the connection object has not been destroyed
    inMap,      \* the center connection is in m_icsCenterConnMap
    mapLock,    \* holder of m_icsCenterConnMapLock
    pc,         \* where each thread is
    slot,       \* chunks owned by the streams on each thread's stack
    job,        \* the connection whose message a thread handles, else None
    dest,       \* the connection a thread is in trySend() of
    num,        \* the serial number that trySend() read
    sent,       \* history: how many messages the kernel has taken, % SerialMod
    leaked,     \* history: chunks in the lists of destroyed connections
    aborted     \* std::terminate has been called

\* What is in a send list: a chunk, and the number serialize() wrote into it.
Messages == [chunk : Chunks, num : 0 .. SerialMod - 1]

connVars == <<queue, sending, op, serial, valid, alive, sent>>
vars == <<free, queue, sending, op, serial, valid, alive, inMap, mapLock,
          pc, slot, job, dest, num, sent, leaked, aborted>>

-----------------------------------------------------------------------------
(* Helpers                                                                 *)

Queued(c) == {queue[c][i].chunk : i \in 1 .. Len(queue[c])}

Held(t) == {slot[t][f] : f \in Slots} \ {None}

NoSlots == [f \in Slots |-> None]

Goto(t, l) == pc' = [pc EXCEPT ![t] = l]

\* t takes a chunk for the stream f
Take(t, f) ==
    \E k \in free : /\ free' = free \ {k}
                    /\ slot' = [slot EXCEPT ![t][f] = k]

\* the destructor of the stream f returns its chunk
Return(t, f) ==
    /\ free' = free \cup ({slot[t][f]} \ {None})
    /\ slot' = [slot EXCEPT ![t][f] = None]

\* (mutant) The chunks of the streams on the stack are not put back.
UnwindMutant(t) ==
    /\ UNCHANGED free
    /\ slot' = [slot EXCEPT ![t] = NoSlots]

\* an exception leaves every stream of t behind
Unwind(t) ==
    /\ free' = free \cup Held(t)
    /\ slot' = [slot EXCEPT ![t] = NoSlots]

Idle(t) == ~aborted /\ pc[t] = "idle"
At(t, l) == ~aborted /\ pc[t] = l

\* do_error on c by t, which then runs error(): a center connection leaves the
\* map, a terminal's tells the center that the terminal is offline, or does not
\* if it has not authenticated or was replaced.
DoError(t, c) ==
    IF valid[c]
    THEN /\ valid' = [valid EXCEPT ![c] = FALSE]
         /\ \E l \in IF c = Center THEN {"remove"} ELSE {"notice", "idle"} : Goto(t, l)
    ELSE /\ UNCHANGED valid
         /\ Goto(t, "idle")

Init ==
    /\ free = Chunks
    /\ queue = [c \in Conns |-> <<>>]
    /\ sending = [c \in Conns |-> FALSE]
    /\ op = [c \in Conns |-> "none"]
    /\ serial = [c \in Conns |-> 0]
    /\ valid = [c \in Conns |-> TRUE]
    /\ alive = [c \in Conns |-> TRUE]
    /\ inMap = TRUE
    /\ mapLock = None
    /\ pc = [t \in Threads |-> "idle"]
    /\ slot = [t \in Threads |-> NoSlots]
    /\ job = [t \in Threads |-> None]
    /\ dest = [t \in Threads |-> None]
    /\ num = [t \in Threads |-> 0]
    /\ sent = [c \in Conns |-> 0]
    /\ leaked = {}
    /\ aborted = FALSE

-----------------------------------------------------------------------------
(* Handling a message (handleMessage, handle)                              *)

\* handle() of c's message threw: its connection fails.
Throw(t) ==
    /\ Unwind(t)
    /\ DoError(t, job[t])
    /\ job' = [job EXCEPT ![t] = None]

\* A message of c is complete, and c may have been closed by the timer meanwhile:
\* the response stream takes a chunk.
BeginHandle(c) ==
    /\ Idle("io") /\ alive[c]
    /\ Take("io", "resp")
    /\ Goto("io", "handle")
    /\ job' = [job EXCEPT !["io"] = c]
    /\ UNCHANGED <<connVars, inMap, mapLock, dest, num, leaked, aborted>>

\* No chunk for the response: handleMessage returns false.
BeginFails(c) ==
    /\ Idle("io") /\ alive[c] /\ free = {}
    /\ DoError("io", c)
    /\ UNCHANGED <<free, queue, sending, op, serial, alive, inMap, mapLock, slot,
                   job, dest, num, sent, leaked, aborted>>

\* A terminal's message is passed on to the center (forwardToIcsCenter,
\* onoffLineToIcsCenter).
HandleReport ==
    /\ At("io", "handle") /\ job["io"] \in Terminals
    /\ Take("io", "fwd")
    /\ Goto("io", "forward")
    /\ UNCHANGED <<connVars, inMap, mapLock, job, dest, num, leaked, aborted>>

\* The center's message is passed on to terminal c (handleForwardToTermianl,
\* dispatch).
HandleForward(c) ==
    /\ At("io", "handle") /\ job["io"] = Center
    /\ c \in Terminals /\ alive[c]
    /\ Take("io", "msg")
    /\ Goto("io", "count")
    /\ dest' = [dest EXCEPT !["io"] = c]
    /\ UNCHANGED <<connVars, inMap, mapLock, job, num, leaked, aborted>>

\* A message that needs nothing passed on, or one for a terminal that cannot be
\* reached: dispatch's exception is caught and the response says so.
HandleLocally ==
    /\ At("io", "handle")
    /\ Goto("io", "reply")
    /\ UNCHANGED <<free, connVars, inMap, mapLock, slot, job, dest, num, leaked, aborted>>

\* handle() throws before it sends: the message is malformed or not allowed, or
\* there is no chunk for the stream to the center.
HandleFails ==
    /\ At("io", "handle")
    /\ Throw("io")
    /\ UNCHANGED <<queue, sending, op, serial, alive, inMap, mapLock, dest, num,
                   sent, leaked, aborted>>

\* ... or with that chunk in hand: with the gateway's id in front, the message
\* does not fit in it (operator<<).
HandleOverflows ==
    /\ At("io", "forward") /\ job["io"] # None
    /\ Throw("io")
    /\ UNCHANGED <<queue, sending, op, serial, alive, inMap, mapLock, dest, num,
                   sent, leaked, aborted>>

\* The handler filled the response, or the request wants an acknowledgement.
Reply ==
    /\ At("io", "reply")
    /\ slot' = [slot EXCEPT !["io"] = [NoSlots EXCEPT !["msg"] = slot["io"]["resp"]]]
    /\ dest' = [dest EXCEPT !["io"] = job["io"]]
    /\ job' = [job EXCEPT !["io"] = None]
    /\ Goto("io", "count")
    /\ UNCHANGED <<free, connVars, inMap, mapLock, num, leaked, aborted>>

\* Nothing is to be answered.
NoReply ==
    /\ At("io", "reply")
    /\ Return("io", "resp")
    /\ job' = [job EXCEPT !["io"] = None]
    /\ Goto("io", "idle")
    /\ UNCHANGED <<connVars, inMap, mapLock, dest, num, leaked, aborted>>

-----------------------------------------------------------------------------
(* Telling the center (sendToIcsCenter, onoffLineToIcsCenter)              *)

\* error() of a terminal's connection: the offline message takes a chunk.
Notice(t) ==
    /\ At(t, "notice")
    /\ Take(t, "fwd")
    /\ Goto(t, "forward")
    /\ UNCHANGED <<connVars, inMap, mapLock, job, dest, num, leaked, aborted>>

\* An exception cannot leave error(), which is declared throw().
NoticeFails(t) ==
    /\ At(t, "notice") /\ free = {}
    /\ aborted' = TRUE
    /\ UNCHANGED <<free, connVars, inMap, mapLock, pc, slot, job, dest, num, leaked>>

\* sendToIcsCenter locks the map; the copy for its connection takes a chunk.
Copy(t) ==
    /\ At(t, "forward") /\ mapLock = None /\ inMap
    /\ mapLock' = t
    /\ Take(t, "msg")
    /\ dest' = [dest EXCEPT ![t] = Center]
    /\ Goto(t, "count")
    /\ UNCHANGED <<connVars, inMap, job, num, leaked, aborted>>

\* No center is connected: the message goes nowhere.
CopyNone(t) ==
    /\ At(t, "forward") /\ mapLock = None /\ ~inMap
    /\ Goto(t, "forwarded")
    /\ UNCHANGED <<free, connVars, inMap, mapLock, slot, job, dest, num, leaked, aborted>>

\* No chunk for the copy: the exception ends the handler, or the process.
CopyFails(t) ==
    /\ At(t, "forward") /\ mapLock = None /\ inMap /\ free = {}
    /\ IF job[t] # None
       THEN Throw(t) /\ UNCHANGED aborted
       ELSE aborted' = TRUE /\ UNCHANGED <<free, slot, valid, pc, job>>
    /\ UNCHANGED <<queue, sending, op, serial, alive, inMap, mapLock, dest, num,
                   sent, leaked>>

\* The stream that was copied goes; the handler has its response left to send.
Forwarded(t) ==
    /\ At(t, "forwarded")
    /\ Return(t, "fwd")
    /\ Goto(t, IF job[t] # None THEN "reply" ELSE "idle")
    /\ UNCHANGED <<connVars, inMap, mapLock, job, dest, num, leaked, aborted>>

\* error() of the center connection
Remove(t) ==
    /\ At(t, "remove") /\ mapLock = None
    /\ inMap' = FALSE
    /\ Goto(t, "idle")
    /\ UNCHANGED <<free, connVars, mapLock, slot, job, dest, num, leaked, aborted>>

-----------------------------------------------------------------------------
(* trySend                                                                 *)

\* m_serialNum++ reads ...
Count(t) ==
    /\ At(t, "count")
    /\ num' = [num EXCEPT ![t] = serial[dest[t]]]
    /\ Goto(t, "number")
    /\ UNCHANGED <<free, connVars, inMap, mapLock, slot, job, dest, leaked, aborted>>

\* (mutant) m_serialNum is an int.
NumberMutantWide(t) ==
    /\ At(t, "number")
    /\ serial' = [serial EXCEPT ![dest[t]] = num[t] + 1]
    /\ Goto(t, "push")
    /\ UNCHANGED <<free, queue, sending, op, valid, alive, sent, inMap, mapLock, slot,
                   job, dest, num, leaked, aborted>>

\* (mutant) m_serialNum is passed without the increment.
NumberMutantSame(t) ==
    /\ At(t, "number")
    /\ UNCHANGED serial
    /\ Goto(t, "push")
    /\ UNCHANGED <<free, queue, sending, op, valid, alive, sent, inMap, mapLock, slot,
                   job, dest, num, leaked, aborted>>

\* ... and writes, with no lock held; serialize() puts the old value in the head.
Number(t) ==
    /\ At(t, "number")
    /\ serial' = [serial EXCEPT ![dest[t]] = (num[t] + 1) % SerialMod]
    /\ Goto(t, "push")
    /\ UNCHANGED <<free, queue, sending, op, valid, alive, sent, inMap, mapLock, slot,
                   job, dest, num, leaked, aborted>>

\* ... unless the copy for the center has no room left for the checksum:
\* serialize() throws, the number is used up and the lock of the map released.
SerializeFails(t) ==
    /\ At(t, "number") /\ job[t] # None /\ slot[t]["fwd"] # None
    /\ serial' = [serial EXCEPT ![dest[t]] = (num[t] + 1) % SerialMod]
    /\ Throw(t)
    /\ mapLock' = None
    /\ dest' = [dest EXCEPT ![t] = None]
    /\ UNCHANGED <<queue, sending, op, alive, sent, inMap, num, leaked, aborted>>

\* (mutant) The stream keeps the chunk that it gave away, and returns it later.
PushMutant(t) ==
    /\ At(t, "push")
    /\ queue' = [queue EXCEPT ![dest[t]] =
                   Append(@, [chunk |-> slot[t]["msg"], num |-> num[t]])]
    /\ free' = free \cup {slot[t]["msg"]}
    /\ slot' = [slot EXCEPT ![t]["msg"] = None]
    /\ Goto(t, "kick")
    /\ UNCHANGED <<sending, op, serial, valid, alive, sent, inMap, mapLock,
                   job, dest, num, leaked, aborted>>

\* The chunk moves into m_sendList, under m_sendLock.
Push(t) ==
    /\ At(t, "push")
    /\ queue' = [queue EXCEPT ![dest[t]] =
                   Append(@, [chunk |-> slot[t]["msg"], num |-> num[t]])]
    /\ slot' = [slot EXCEPT ![t]["msg"] = None]
    /\ Goto(t, "kick")
    /\ UNCHANGED <<free, sending, op, serial, valid, alive, sent, inMap, mapLock,
                   job, dest, num, leaked, aborted>>

\* Post the front of the list if nothing is being sent.
Post(c) ==
    IF ~sending[c] /\ queue[c] # <<>>
    THEN /\ sending' = [sending EXCEPT ![c] = TRUE]
         /\ op' = [op EXCEPT ![c] = "posted"]
    ELSE UNCHANGED <<sending, op>>

\* trySend(), under m_sendLock, and the return to where trySend(msg) was called.
Kick(t) ==
    /\ At(t, "kick")
    /\ Post(dest[t])
    /\ Goto(t, IF slot[t]["fwd"] # None THEN "forwarded"
               ELSE IF job[t] # None THEN "reply" ELSE "idle")
    /\ mapLock' = IF mapLock = t THEN None ELSE mapLock
    /\ dest' = [dest EXCEPT ![t] = None]
    /\ UNCHANGED <<free, queue, serial, valid, alive, sent, inMap, slot, job, num,
                   leaked, aborted>>

-----------------------------------------------------------------------------
(* The socket and the end of a connection                                  *)

\* The kernel takes the message.
Transmit(c) ==
    /\ ~aborted /\ op[c] = "posted" /\ valid[c]
    /\ op' = [op EXCEPT ![c] = "done"]
    /\ sent' = [sent EXCEPT ![c] = (@ + 1) % SerialMod]
    /\ UNCHANGED <<free, queue, sending, serial, valid, alive, inMap, mapLock, pc, slot,
                   job, dest, num, leaked, aborted>>

\* The peer is gone, or the socket was closed.
TransmitFails(c) ==
    /\ ~aborted /\ op[c] = "posted"
    /\ op' = [op EXCEPT ![c] = "failed"]
    /\ UNCHANGED <<free, queue, sending, serial, valid, alive, sent, inMap, mapLock, pc,
                   slot, job, dest, num, leaked, aborted>>

\* (mutant) The completion handler does not call trySend() again.
SendDoneMutant(c) ==
    /\ Idle("io") /\ op[c] = "done"
    /\ free' = free \cup {Head(queue[c]).chunk}
    /\ queue' = [queue EXCEPT ![c] = Tail(@)]
    /\ sending' = [sending EXCEPT ![c] = FALSE]
    /\ op' = [op EXCEPT ![c] = "none"]
    /\ UNCHANGED <<pc, dest, serial, valid, alive, sent, inMap, mapLock, slot, job, num,
                   leaked, aborted>>

\* Completion without error: the chunk goes back, then trySend() again.
SendDone(c) ==
    /\ Idle("io") /\ op[c] = "done"
    /\ free' = free \cup {Head(queue[c]).chunk}
    /\ queue' = [queue EXCEPT ![c] = Tail(@)]
    /\ sending' = [sending EXCEPT ![c] = FALSE]
    /\ op' = [op EXCEPT ![c] = "none"]
    /\ dest' = [dest EXCEPT !["io"] = c]
    /\ Goto("io", "kick")
    /\ UNCHANGED <<serial, valid, alive, sent, inMap, mapLock, slot, job, num, leaked,
                   aborted>>

\* Completion with an error: do_error; m_isSending stays set.
SendFailed(c) ==
    /\ Idle("io") /\ op[c] = "failed"
    /\ op' = [op EXCEPT ![c] = "none"]
    /\ DoError("io", c)
    /\ UNCHANGED <<free, queue, sending, serial, alive, sent, inMap, mapLock, slot,
                   job, dest, num, leaked, aborted>>

\* A read of c fails (io), or a terminal's timeout expires (timer; the proxy
\* registers none for the center).
Close(t, c) ==
    /\ Idle(t) /\ valid[c]
    /\ t = "timer" => c \in Terminals
    /\ DoError(t, c)
    /\ UNCHANGED <<free, queue, sending, op, serial, alive, sent, inMap, mapLock, slot,
                   job, dest, num, leaked, aborted>>

\* (mutant) The completion handler of a send holds no reference to c.
DestroyMutant(c) ==
    /\ ~aborted /\ alive[c] /\ ~valid[c]
    /\ \A t \in Threads : c # job[t] /\ c # dest[t]
    /\ c = Center => ~inMap
    /\ leaked' = leaked \cup Queued(c)
    /\ queue' = [queue EXCEPT ![c] = <<>>]
    /\ alive' = [alive EXCEPT ![c] = FALSE]
    /\ UNCHANGED <<free, sending, op, serial, valid, sent, inMap, mapLock, pc, slot, job,
                   dest, num, aborted>>

\* The last reference to c goes; what its list still holds is not put back.
Destroy(c) ==
    /\ ~aborted /\ alive[c] /\ ~valid[c] /\ op[c] = "none"
    /\ \A t \in Threads : c # job[t] /\ c # dest[t]
    /\ c = Center => ~inMap
    /\ leaked' = leaked \cup Queued(c)
    /\ queue' = [queue EXCEPT ![c] = <<>>]
    /\ alive' = [alive EXCEPT ![c] = FALSE]
    /\ UNCHANGED <<free, sending, op, serial, valid, sent, inMap, mapLock, pc, slot, job,
                   dest, num, aborted>>

\* The same peer connects anew and, as a center, has authenticated.
Reconnect(c) ==
    /\ Idle("io") /\ ~alive[c]
    /\ c = Center => mapLock = None
    /\ alive' = [alive EXCEPT ![c] = TRUE]
    /\ valid' = [valid EXCEPT ![c] = TRUE]
    /\ sending' = [sending EXCEPT ![c] = FALSE]
    /\ serial' = [serial EXCEPT ![c] = 0]
    /\ sent' = [sent EXCEPT ![c] = 0]
    /\ inMap' = (inMap \/ c = Center)
    /\ UNCHANGED <<free, queue, op, mapLock, pc, slot, job, dest, num, leaked, aborted>>

ThreadStep(t) ==
    \/ Notice(t) \/ NoticeFails(t)
    \/ Copy(t) \/ CopyNone(t) \/ CopyFails(t) \/ Forwarded(t) \/ Remove(t)
    \/ Count(t) \/ Number(t) \/ SerializeFails(t) \/ Push(t) \/ Kick(t)

HandleStep ==
    \/ HandleReport \/ HandleFails \/ HandleOverflows \/ HandleLocally \/ Reply \/ NoReply
    \/ \E c \in Terminals : HandleForward(c)

Completion(c) == SendDone(c) \/ SendFailed(c)

Next ==
    \/ \E t \in Threads : ThreadStep(t)
    \/ HandleStep
    \/ \E c \in Conns :
          \/ BeginHandle(c) \/ BeginFails(c)
          \/ Transmit(c) \/ TransmitFails(c) \/ Completion(c)
          \/ Destroy(c) \/ Reconnect(c)
    \/ \E t \in Threads, c \in Conns : Close(t, c)

Spec == Init /\ [][Next]_vars

-----------------------------------------------------------------------------
(* Properties                                                              *)

\* The shape of the state.
TypeOK ==
    /\ free \subseteq Chunks
    /\ queue \in [Conns -> Seq(Messages)]
    /\ sending \in [Conns -> BOOLEAN]
    /\ op \in [Conns -> {"none", "posted", "done", "failed"}]
    /\ serial \in [Conns -> 0 .. SerialMod - 1]
    /\ valid \in [Conns -> BOOLEAN]
    /\ alive \in [Conns -> BOOLEAN]
    /\ inMap \in BOOLEAN
    /\ mapLock \in Threads \cup {None}
    /\ pc \in [Threads -> Places]
    /\ slot \in [Threads -> [Slots -> Chunks \cup {None}]]
    /\ job \in [Threads -> Conns \cup {None}]
    /\ dest \in [Threads -> Conns \cup {None}]
    /\ num \in [Threads -> 0 .. SerialMod - 1]
    /\ sent \in [Conns -> 0 .. SerialMod - 1]
    /\ leaked \subseteq Chunks
    /\ aborted \in BOOLEAN

\* A chunk has one owner: the pool, one stream of one thread, one entry of one
\* send list, or a destroyed list.  Two owners would write one message over
\* another, or give the pool the memory of a message that is being sent.
OneOwner ==
    /\ \A t \in Threads : Held(t) \cap (free \cup leaked) = {}
    /\ Held("io") \cap Held("timer") = {}
    /\ \A t \in Threads : \A f, g \in Slots :
          f # g /\ slot[t][f] # None => slot[t][f] # slot[t][g]
    /\ \A c \in Conns :
          /\ Queued(c) \cap (free \cup leaked) = {}
          /\ \A t \in Threads : Queued(c) \cap Held(t) = {}
          /\ \A d \in Conns \ {c} : Queued(c) \cap Queued(d) = {}
          /\ \A i, j \in 1 .. Len(queue[c]) :
                i # j => queue[c][i].chunk # queue[c][j].chunk
    /\ free \cap leaked = {}

\* No chunk gets lost but in the list of a destroyed connection: every
\* exception and every early end of a handler gives its chunks back.
AllAccounted ==
    \A k \in Chunks : \/ k \in free \cup leaked
                      \/ \E t \in Threads : k \in Held(t)
                      \/ \E c \in Conns : k \in Queued(c)

\* The memory of an async_send under way is the front of the list, and only one
\* is under way: it is posted while m_isSending is set and the list not empty.
FrontInFlight ==
    \A c \in Conns : op[c] # "none" => sending[c] /\ queue[c] # <<>>

\* A message on the list of a valid connection is never forgotten: a send is
\* under way, or a thread is about to look at the list.
NoLostWakeup ==
    \A c \in Conns :
        valid[c] /\ queue[c] # <<>> /\ ~aborted =>
            \/ op[c] # "none"
            \/ \E t \in Threads : pc[t] = "kick" /\ dest[t] = c

\* Only the IO thread sends to terminals, so the message that goes out as the
\* n-th carries serial number n - 1 (mod SerialMod), although m_serialNum has no lock.
TerminalSerials ==
    \A c \in Terminals :
        op[c] = "posted" => Head(queue[c]).num = sent[c]

\* The declaration of error() says that it does not throw
\* (icsproxyserver.cpp:138).  When the pool is empty it does, which ends the
\* process.
ErrorDoesNotThrow == ~aborted

-----------------------------------------------------------------------------
(* The inductive invariant                                                 *)

Sending == {"count", "number", "push", "kick"}

\* Where a thread is says what is on its stack.
OnStack(t) ==
    /\ (dest[t] # None) = (pc[t] \in Sending)
    /\ pc[t] \in {"handle", "reply"} => job[t] # None
    /\ pc[t] \in {"idle", "notice", "remove"} => job[t] = None
    /\ (slot[t]["resp"] # None) = (job[t] # None)
    /\ (slot[t]["msg"] # None) = (pc[t] \in Sending \ {"kick"})
    /\ slot[t]["fwd"] # None => pc[t] \in Sending \cup {"forward", "forwarded"}

\* Only io handles messages.
StackOK ==
    /\ pc["timer"] \notin {"handle", "reply"}
    /\ job["timer"] = None
    /\ \A t \in Threads : OnStack(t)

\* A connection that somebody can reach has not been destroyed.
ReachableIsAlive ==
    /\ \A c \in Conns : valid[c] \/ op[c] # "none" \/ queue[c] # <<>> => alive[c]
    /\ \A t \in Threads : /\ job[t] # None => alive[job[t]]
                          /\ dest[t] # None => alive[dest[t]]
    /\ inMap => alive[Center]

\* m_isSending without a send under way is what an error left behind.
SendingOK == \A c \in Conns : sending[c] /\ op[c] = "none" => ~valid[c]

IInv ==
    /\ TypeOK
    /\ StackOK
    /\ ReachableIsAlive
    /\ SendingOK
    /\ FrontInFlight
    /\ NoLostWakeup
    /\ OneOwner
    /\ AllAccounted

=============================================================================
