--------------------------- MODULE CenterReports ---------------------------
(***************************************************************************)
(* How the center writes a terminal's reports to the database:             *)
(* handleBusinessReport, handleEventsReport and their like of              *)
(* IcsTerminalClient (src/src/center/icslocalserver.cpp), and the          *)
(* acknowledgement that handleMessage (src/src/module/icsconnection.hpp)   *)
(* sends when a handler returns.                                           *)
(*                                                                         *)
(* A report has a number and so many rows, each of which is committed by   *)
(* itself; between two rows the handler may throw, which closes the        *)
(* connection.  A business report whose number is that of the one before   *)
(* on the same connection is acknowledged and not stored.  The terminal,   *)
(* whose side is not part of the repository, sends a report until it is    *)
(* acknowledged, on as many connections as that takes; the center may      *)
(* still handle what came on a connection that the terminal has left.      *)
(***************************************************************************)
EXTENDS Naturals, Sequences

CONSTANTS
    Reports,        \* numbers of reports
    Business,       \* the business reports among them
    Rows,           \* of each report
    Initial,        \* what m_lastBusSerialNum begins with, 0xFFFFFFFF
    MaxConns,       \* bound: connections, the last of which does not fail
    MaxResends,     \* bound: reports sent again on the same connection
    None            \* no report is being handled

ConnIds == 1..MaxConns

ASSUME ConstantsAssumption ==
    /\ Business \subseteq Reports
    /\ Rows \in [Reports -> Nat \ {0}]
    /\ MaxConns \in Nat \ {0} /\ MaxResends \in Nat
    /\ None \notin [conn : ConnIds, report : Reports, done : Nat]

VARIABLES
    todo,       \* reports of the terminal that are not acknowledged to it
    conn,       \* the terminal's connection; those before it are left
    sent,       \* reports sent on it
    resends,
    wire,       \* reports on the way, on each connection
    last,       \* m_lastBusSerialNum of each connection
    closed,     \* the center has closed the connection
    handling,   \* None, or the connection, its report and the rows stored of it
    acks,       \* acknowledgements on the way, on the terminal's connection
    stored,     \* how often each row of a report is in the database
    acked,      \* history: reports that the center has acknowledged
    before,     \* history: reports that were sent on connections before
    again       \* history: reports sent on two connections, or on one with another
                \* business report in between

terminal == <<todo, conn, sent, resends>>
center == <<last, closed, handling, stored>>
history == <<acked, before, again>>
vars == <<terminal, wire, center, acks, history>>

Init ==
    /\ todo = Reports
    /\ conn = 1
    /\ sent = <<>>
    /\ resends = 0
    /\ wire = [k \in ConnIds |-> <<>>]
    /\ last = [k \in ConnIds |-> Initial]
    /\ closed = [k \in ConnIds |-> FALSE]
    /\ handling = None
    /\ acks = <<>>
    /\ stored = [n \in Reports |-> [i \in 1..Rows[n] |-> 0]]
    /\ acked = {}
    /\ before = {}
    /\ again = {}

-----------------------------------------------------------------------------
(* The terminal                                                            *)

SentHere == {sent[i] : i \in DOMAIN sent}

\* The business report sent last on this connection, which is the one that the
\* center will compare the next with.
IsLastSent(n) ==
    \E i \in DOMAIN sent : sent[i] = n /\ \A j \in i + 1..Len(sent) : sent[j] \notin Business

Write(n) ==
    /\ wire' = [wire EXCEPT ![conn] = Append(@, n)]
    /\ sent' = Append(sent, n)

\* A report is sent, for the first time on this connection ...
Send(n) ==
    /\ n \in todo /\ n \notin SentHere
    /\ Write(n)
    /\ again' = IF n \in before THEN again \cup {n} ELSE again
    /\ UNCHANGED <<todo, conn, resends, center, acks, acked, before>>

\* ... or once more, as its acknowledgement is late.
Resend(n) ==
    /\ n \in todo /\ n \in SentHere
    /\ resends < MaxResends
    /\ resends' = resends + 1
    /\ Write(n)
    /\ again' = IF IsLastSent(n) THEN again ELSE again \cup {n}
    /\ UNCHANGED <<todo, conn, center, acks, acked, before>>

\* An acknowledgement comes.
ReceiveAck ==
    /\ acks # <<>>
    /\ todo' = todo \ {Head(acks)}
    /\ acks' = Tail(acks)
    /\ UNCHANGED <<conn, sent, resends, wire, center, history>>

\* The terminal connects again: what it has sent arrives up to some point.
Reconnect ==
    /\ conn < MaxConns
    /\ conn' = conn + 1
    /\ \E n \in 0..Len(wire[conn]) : wire' = [wire EXCEPT ![conn] = SubSeq(@, 1, n)]
    /\ sent' = <<>>
    /\ acks' = <<>>
    /\ before' = before \cup SentHere
    /\ UNCHANGED <<todo, resends, center, acked, again>>

-----------------------------------------------------------------------------
(* The center                                                              *)

\* The handler knows the report for a repetition.
Duplicate(k, n) == n \in Business /\ n = last[k]

\* handleMessage acknowledges a report whose handler has returned, on a connection
\* that the terminal has not left.
Acknowledge(k, n) ==
    /\ acks' = IF k = conn THEN Append(acks, n) ELSE acks
    /\ acked' = acked \cup {n}

\* The next report of connection k.
TakeNext(k) ==
    /\ handling = None
    /\ ~closed[k] /\ wire[k] # <<>>
    /\ wire' = [wire EXCEPT ![k] = Tail(@)]

\* Mutant: the handler returns without asking for the acknowledgement.
IgnoreMutant(k) ==
    /\ TakeNext(k)
    /\ Duplicate(k, Head(wire[k]))
    /\ UNCHANGED <<terminal, center, acks, acked, before, again>>

\* It is a repetition ...
Ignore(k) ==
    /\ TakeNext(k)
    /\ Duplicate(k, Head(wire[k]))
    /\ Acknowledge(k, Head(wire[k]))
    /\ UNCHANGED <<terminal, center, before, again>>

\* ... or not: the number of a business report is remembered before it is stored.
Begin(k) ==
    /\ TakeNext(k)
    /\ LET n == Head(wire[k])
       IN  /\ ~Duplicate(k, n)
           /\ last' = IF n \in Business THEN [last EXCEPT ![k] = n] ELSE last
           /\ handling' = [conn |-> k, report |-> n, done |-> 0]
    /\ UNCHANGED <<terminal, closed, stored, acks, history>>

\* Its next row is stored.
Store ==
    /\ handling # None
    /\ handling.done < Rows[handling.report]
    /\ stored' = [stored EXCEPT ![handling.report][handling.done + 1] = @ + 1]
    /\ handling' = [handling EXCEPT !.done = @ + 1]
    /\ UNCHANGED <<terminal, wire, last, closed, acks, history>>

\* All of it is stored.
Return ==
    /\ handling # None
    /\ handling.done = Rows[handling.report]
    /\ Acknowledge(handling.conn, handling.report)
    /\ handling' = None
    /\ UNCHANGED <<terminal, wire, last, closed, stored, before, again>>

\* Mutant: an exception is logged, and the connection stays.
ThrowMutant ==
    /\ handling # None
    /\ handling.conn < MaxConns
    /\ handling' = None
    /\ UNCHANGED <<terminal, wire, last, closed, stored, acks, history>>

\* The handler throws, before, between or after the rows: the database fails, the
\* report is longer or shorter than it says, or an event cannot be pushed.  The
\* connection is closed, with what was read of it.
Throw ==
    /\ handling # None
    /\ handling.conn < MaxConns
    /\ handling' = None
    /\ closed' = [closed EXCEPT ![handling.conn] = TRUE]
    /\ UNCHANGED <<terminal, wire, last, stored, acks, history>>

-----------------------------------------------------------------------------
CenterGoesOn == (\E k \in ConnIds : Ignore(k) \/ Begin(k)) \/ Store \/ Return \/ Throw

Next ==
    \/ \E n \in Reports : Send(n) \/ Resend(n)
    \/ ReceiveAck \/ Reconnect
    \/ CenterGoesOn

\* The center handles what has come, and the terminal goes on sending, on another
\* connection once the center has closed the one it has.
Fairness ==
    /\ WF_vars(CenterGoesOn)
    /\ \A n \in Reports : WF_vars(Send(n))
    /\ WF_vars(ReceiveAck)
    /\ WF_vars(closed[conn] /\ Reconnect)

Spec == Init /\ [][Next]_vars /\ Fairness

-----------------------------------------------------------------------------
(* Properties                                                              *)

\* A report that was acknowledged is in the database with all its rows, though
\* its number is remembered before it is stored and its handler may have thrown;
\* only the number that the comparison begins with is not.  And a business
\* report is there once, unless the terminal has sent it on two connections or
\* another one in between.  (Of event reports nothing is remembered: one that is
\* sent again is stored again.)
StoredRight ==
    \A n \in Reports : \A i \in 1..Rows[n] :
        /\ n \in acked /\ n # Initial => stored[n][i] >= 1
        /\ n \in Business \ again => stored[n][i] <= 1

\* Every report comes to the database in the end, and the terminal knows, whatever
\* connections are lost on the way.
Drained ==
    <>(/\ todo = {}
       /\ \A n \in Reports \ {Initial} : \A i \in 1..Rows[n] : stored[n][i] >= 1)

=============================================================================
