---------------------------- MODULE TimeoutWheel ----------------------------
(***************************************************************************)
(* The timing wheel (TimingWheel, src/src/module/timer.hpp) and the job it *)
(* is there for: IcsConnection::timeout (src/src/module/icsconnection.hpp),*)
(* registered again and again by connectionTimeoutHandler                  *)
(* (src/src/proxy/icsproxyserver.cpp; the center's is the same).           *)
(*                                                                         *)
(* The loop thread sleeps, makes a tick, and sleeps again; the IO thread   *)
(* accepts connections and receives their messages.  Time is counted in    *)
(* ticks, at the moment when the loop leaves its sleep.  The definitions   *)
(* that every specification has are named for the wheel, as a module about *)
(* both halves of a connection extends RecvBuffer too.                     *)
(***************************************************************************)
EXTENDS Naturals, Sequences, SequencesExt

CONSTANTS
    Conns,      \* connections, each accepted once
    WheelCount, \* slots of the wheel, 64
    Heartbeats, \* the values that m_heartbeatTime may have
    TimeoutMax  \* m_timeoutMax, 2

ASSUME WheelAssumption ==
    /\ WheelCount \in Nat \ {0}
    /\ Heartbeats \subseteq Nat
    /\ TimeoutMax \in Nat

VARIABLES
    heartbeat,  \* m_heartbeatTime, from the configuration
    wheel,      \* m_wheel: per slot its list of tasks, front first
    point,      \* m_currentPoint, modulo WheelCount
    pos,        \* the task that the loop is at in the slot it has locked, else 0
    step,       \* where the loop is with that task, or "sleep"
    tmp,        \* the value of m_timeoutCount that ++ has read
    adding,     \* tasks (at most one) that the IO thread's add() has yet to insert
    count,      \* m_timeoutCount
    conn,       \* "new", "open" (m_valid) or "closed"
    age,        \* history: ticks since add() computed the slot of the task
    late,       \* history: the task went into its slot after the slot's turn
    silence,    \* history: ticks since the last complete message
    resetLost   \* history: the last message came between the read and the write of ++

wheelVars == <<heartbeat, wheel, point, pos, step, tmp, adding, count, conn,
               age, late, silence, resetLost>>

-----------------------------------------------------------------------------
(* Helpers                                                                 *)

Slots == 0 .. WheelCount - 1

\* The slot that the loop works on: m_currentPoint is already one further.
Current == (point + WheelCount - 1) % WheelCount

\* (mutant) m_currentPoint++ takes effect only after timeWork.
NewTaskMutant(c) == [conn |-> c, slot |-> (heartbeat + Current) % WheelCount,
                     laps |-> heartbeat \div WheelCount]

\* What add() computes for a task of c: the slot, and the laps to let pass.
NewTask(c) == [conn |-> c, slot |-> (heartbeat + point) % WheelCount,
               laps |-> heartbeat \div WheelCount]

Task == wheel[Current][pos]

\* Where a task is in the wheel: its slot and its number there.
Places == UNION {{s} \X (1 .. Len(wheel[s])) : s \in Slots}

\* The tasks of c, those in the wheel and the one on its way there.
TasksOf(c) ==
    {p \in Places : wheel[p[1]][p[2]].conn = c}
        \cup {<<new.slot, 0>> : new \in {n \in adding : n.conn = c}}

\* The loop goes on with the slot's task number p, or sleeps.
Proceed(p) ==
    IF p =< Len(wheel'[Current])
    THEN pos' = p /\ step' = "visit"
    ELSE pos' = 0 /\ step' = "sleep"

\* Ticks from add() to the handler, as the slot and --count <= 0 make them: one more
\* than the rest of the interval, and every lap but the first.  What they should be
\* is in FiresOnTime and FiresAfterInterval.
TicksToFire ==
    (heartbeat % WheelCount) + 1
        + (IF heartbeat >= WheelCount
           THEN ((heartbeat \div WheelCount) - 1) * WheelCount ELSE 0)

\* The longest that a peer may be silent.
MaxSilence == (TimeoutMax + 1) * TicksToFire

\* One tick more, up to one beyond the bound b: more the properties cannot tell.
Later(n, b) == IF n =< b THEN n + 1 ELSE n

WheelInit ==
    /\ heartbeat \in Heartbeats
    /\ wheel = [s \in Slots |-> <<>>]
    /\ point = 0
    /\ pos = 0
    /\ step = "sleep"
    /\ tmp = 0
    /\ adding = {}
    /\ count = [c \in Conns |-> 0]
    /\ conn = [c \in Conns |-> "new"]
    /\ age = [c \in Conns |-> 0]
    /\ late = [c \in Conns |-> FALSE]
    /\ silence = [c \in Conns |-> 0]
    /\ resetLost = [c \in Conns |-> FALSE]

-----------------------------------------------------------------------------
(* The loop thread                                                         *)

\* m_wheel[m_currentPoint++ % size].timeWork() begins, and locks the slot.
Tick ==
    /\ step = "sleep"
    /\ point' = (point + 1) % WheelCount
    /\ age' = [c \in Conns |-> IF TasksOf(c) # {} THEN Later(age[c], TicksToFire) ELSE 0]
    /\ silence' = [c \in Conns |-> IF conn[c] = "open" THEN Later(silence[c], MaxSilence) ELSE 0]
    /\ IF wheel[point] # <<>> THEN pos' = 1 /\ step' = "visit" ELSE UNCHANGED <<pos, step>>
    /\ UNCHANGED <<heartbeat, wheel, tmp, adding, count, conn, late, resetLost>>

\* --count <= 0 decides whether this is the task's lap.
Due(laps) == laps =< 1

\* Not this lap: the task stays, one lap shorter.
Skip ==
    /\ step = "visit" /\ ~Due(Task.laps)
    /\ wheel' = [wheel EXCEPT ![Current][pos].laps = @ - 1]
    /\ Proceed(pos + 1)
    /\ UNCHANGED <<heartbeat, point, tmp, adding, count, conn, age, late, silence, resetLost>>

\* The handler runs; timeout() finds m_valid set and ++ reads m_timeoutCount ...
TimeoutRead ==
    /\ step = "visit" /\ Due(Task.laps)
    /\ conn[Task.conn] = "open"
    /\ tmp' = count[Task.conn]
    /\ step' = "write"
    /\ UNCHANGED <<heartbeat, wheel, point, pos, adding, count, conn, age, late, silence,
                   resetLost>>

\* (mutant) The old value of the counter is compared.
TimeoutWriteMutant ==
    /\ step = "write"
    /\ count' = [count EXCEPT ![Task.conn] = tmp + 1]
    /\ tmp' = 0
    /\ step' = IF tmp > TimeoutMax THEN "close" ELSE "return"
    /\ UNCHANGED <<heartbeat, wheel, point, pos, adding, conn, age, late, silence,
                   resetLost>>

\* ... and writes it, which a message in between does not see.
TimeoutWrite ==
    /\ step = "write"
    /\ count' = [count EXCEPT ![Task.conn] = tmp + 1]
    /\ tmp' = 0
    /\ step' = IF tmp + 1 > TimeoutMax THEN "close" ELSE "return"
    /\ UNCHANGED <<heartbeat, wheel, point, pos, adding, conn, age, late, silence,
                   resetLost>>

\* Too many: do_error.
TimeoutClose ==
    /\ step = "close"
    /\ conn' = [conn EXCEPT ![Task.conn] = "closed"]
    /\ step' = "return"
    /\ UNCHANGED <<heartbeat, wheel, point, pos, tmp, adding, count, age, late, silence,
                   resetLost>>

\* (mutant) The task that ran is not erased.
AgainMutantTwice ==
    /\ step = "return" /\ conn[Task.conn] = "open"
    /\ LET new == NewTask(Task.conn)
       IN  /\ wheel' = [wheel EXCEPT ![new.slot] =
                          <<[conn |-> new.conn, laps |-> new.laps]>> \o @]
           /\ Proceed(IF new.slot = Current THEN pos + 2 ELSE pos + 1)
    /\ age' = [age EXCEPT ![Task.conn] = 0]
    /\ UNCHANGED <<heartbeat, point, tmp, adding, count, conn, late, silence, resetLost>>

\* (mutant) The timeout is not registered again.
AgainMutantOnce ==
    /\ step = "return" /\ conn[Task.conn] = "open"
    /\ wheel' = [wheel EXCEPT ![Current] = RemoveAt(@, pos)]
    /\ Proceed(pos)
    /\ age' = [age EXCEPT ![Task.conn] = 0]
    /\ UNCHANGED <<heartbeat, point, tmp, adding, count, conn, late, silence, resetLost>>

\* timeout() returns TRUE: a new task goes to the front of its slot's list, and
\* the one that ran is erased.
Again ==
    /\ step = "return" /\ conn[Task.conn] = "open"
    /\ LET new == NewTask(Task.conn)
           rest == [wheel EXCEPT ![Current] = RemoveAt(@, pos)]
       IN  /\ wheel' = [rest EXCEPT ![new.slot] = <<[conn |-> new.conn, laps |-> new.laps]>> \o @]
           /\ Proceed(IF new.slot = Current THEN pos + 1 ELSE pos)
    /\ age' = [age EXCEPT ![Task.conn] = 0]
    /\ UNCHANGED <<heartbeat, point, tmp, adding, count, conn, late, silence, resetLost>>

\* timeout() returns FALSE, at once or at the end: the task is only erased, and
\* with it goes the timer's hold on the connection object.
Forget ==
    /\ \/ step = "visit" /\ Due(Task.laps)
       \/ step = "return"
    /\ conn[Task.conn] = "closed"
    /\ wheel' = [wheel EXCEPT ![Current] = RemoveAt(@, pos)]
    /\ Proceed(pos)
    /\ count' = [count EXCEPT ![Task.conn] = 0]
    /\ late' = [late EXCEPT ![Task.conn] = FALSE]
    /\ resetLost' = [resetLost EXCEPT ![Task.conn] = FALSE]
    /\ UNCHANGED <<heartbeat, point, tmp, adding, conn, age, silence>>

Loop == Tick \/ Skip \/ TimeoutRead \/ TimeoutWrite \/ TimeoutClose \/ Again \/ Forget

-----------------------------------------------------------------------------
(* The IO thread                                                           *)

\* A connection is accepted and starts to read; add() computes its slot.
Accept(c) ==
    /\ adding = {} /\ conn[c] = "new"
    /\ conn' = [conn EXCEPT ![c] = "open"]
    /\ adding' = {NewTask(c)}
    /\ age' = [age EXCEPT ![c] = 0]
    /\ silence' = [silence EXCEPT ![c] = 0]
    /\ UNCHANGED <<heartbeat, wheel, point, pos, step, tmp, count, late, resetLost>>

\* add() gets the lock of the slot and inserts, however many ticks went by.
Insert ==
    \E new \in adding :
        /\ ~(pos > 0 /\ Current = new.slot)
        /\ wheel' = [wheel EXCEPT ![new.slot] =
                       <<[conn |-> new.conn, laps |-> new.laps]>> \o @]
        /\ adding' = {}
        /\ late' = [late EXCEPT ![new.conn] = age[new.conn] > heartbeat % WheelCount]
        /\ UNCHANGED <<heartbeat, point, pos, step, tmp, count, conn, age, silence, resetLost>>

\* (mutant) The counter is not cleared.
MessageMutant(c) ==
    /\ adding = {} /\ conn[c] = "open"
    /\ silence' = [silence EXCEPT ![c] = 0]
    /\ resetLost' = [resetLost EXCEPT ![c] = step = "write" /\ Task.conn = c]
    /\ UNCHANGED <<heartbeat, wheel, point, pos, step, tmp, adding, count, conn, age, late>>

\* A complete message of c: handleMessage clears m_timeoutCount.
Message(c) ==
    /\ adding = {} /\ conn[c] = "open"
    /\ count' = [count EXCEPT ![c] = 0]
    /\ silence' = [silence EXCEPT ![c] = 0]
    /\ resetLost' = [resetLost EXCEPT ![c] = step = "write" /\ Task.conn = c]
    /\ UNCHANGED <<heartbeat, wheel, point, pos, step, tmp, adding, conn, age, late>>

\* A read or a send of c fails: do_error.
Fail(c) ==
    /\ adding = {} /\ conn[c] = "open"
    /\ conn' = [conn EXCEPT ![c] = "closed"]
    /\ UNCHANGED <<heartbeat, wheel, point, pos, step, tmp, adding, count, age, late,
                   silence, resetLost>>

WheelNext ==
    \/ Loop
    \/ Insert
    \/ \E c \in Conns : Accept(c) \/ Message(c) \/ Fail(c)

WheelSpec == WheelInit /\ [][WheelNext]_wheelVars

\* The loop never stops, and the IO thread gets the lock it waits for.
WheelFairSpec == WheelSpec /\ WF_wheelVars(Loop) /\ SF_wheelVars(Insert)

-----------------------------------------------------------------------------
(* Properties                                                              *)

\* The shape of the state.
WheelTypeOK ==
    /\ heartbeat \in Heartbeats
    /\ wheel \in [Slots -> Seq([conn : Conns, laps : Nat])]
    /\ point \in Slots
    /\ pos \in 0 .. Len(wheel[Current])
    /\ step \in {"sleep", "visit", "write", "close", "return"}
    /\ (pos = 0) = (step = "sleep")
    /\ tmp \in Nat
    /\ adding \subseteq [conn : Conns, slot : Slots, laps : Nat]
    /\ count \in [Conns -> 0 .. TimeoutMax + 1]
    /\ conn \in [Conns -> {"new", "open", "closed"}]
    /\ age \in [Conns -> 0 .. TicksToFire + 1]
    /\ late \in [Conns -> BOOLEAN]
    /\ silence \in [Conns -> 0 .. MaxSilence + 1]
    /\ resetLost \in [Conns -> BOOLEAN]

\* An open connection is watched by exactly one task.  With none it would stay
\* open for ever when its peer falls silent, with two its time would run twice
\* as fast.  A closed one is held by at most one.
OneTask ==
    \A c \in Conns :
        /\ conn[c] = "open" => \E t \in TasksOf(c) : TasksOf(c) = {t}
        /\ conn[c] = "closed" => \A t, u \in TasksOf(c) : t = u

\* The lap that an interval of a lap or more loses.
EarlyBy == IF heartbeat < WheelCount THEN 0 ELSE WheelCount

\* A handler runs interval ticks after add(), as the comment there says (timer.hpp:78),
\* the tick under way not counted, neither before nor after; a whole lap before if the
\* interval is of a lap or more (see FiresAfterInterval); and no task waits longer.
\* It is so however tasks are pushed into the slot that is being walked, unless add()
\* was so slow that its slot's turn had passed.
FiresOnTime ==
    /\ step \in {"write", "close", "return"} /\ ~late[Task.conn]
           => age[Task.conn] + EarlyBy = heartbeat + 1
    /\ \A s \in Slots : \A i \in 1 .. Len(wheel[s]) :
           ~late[wheel[s][i].conn] => age[wheel[s][i].conn] + EarlyBy =< heartbeat + 1

\* What that comment says of every interval: no handler runs before it is over.
FiresAfterInterval ==
    step \in {"write", "close", "return"} /\ ~late[Task.conn]
        => age[Task.conn] >= heartbeat

\* A connection whose peer says nothing is closed after TimeoutMax + 1
\* expirations, unless its task came late or has yet to be inserted.
SilentIsClosed ==
    \A c \in Conns :
        conn[c] = "open" /\ ~late[c] /\ (\A n \in adding : n.conn # c)
            => silence[c] =< MaxSilence

\* A connection whose peer was heard of in the last TimeoutMax expirations is
\* not given up for its silence, unless the reset of the counter was lost to ++
\* or its task went into the wheel after its slot's turn.
HeardIsKept ==
    [][step = "write" /\ step' = "close" /\ ~resetLost[Task.conn] /\ ~late[Task.conn]
           => silence[Task.conn] >= TimeoutMax * TicksToFire]_wheelVars

\* No connection is silent for ever: it is heard of again or closed.
SilenceEnds == \A c \in Conns : []<>(conn[c] = "open" => silence[c] = 0)

=============================================================================
