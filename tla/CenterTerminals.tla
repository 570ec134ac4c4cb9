-------------------------- MODULE CenterTerminals --------------------------
(***************************************************************************)
(* Who is online at the center, and what the database shows of it:         *)
(* IcsTerminalClient (its destructor, error, handleAuthRequest), the       *)
(* registry m_terminalConnMap, and the calls sp_authroize, sp_online,      *)
(* sp_offline and sp_clear_connection_info, all in                         *)
(* src/src/center/icslocalserver.cpp.                                      *)
(*                                                                         *)
(* "io" handles messages and read errors, "timer" runs the timeouts.  A    *)
(* step reads or writes one member that the other thread may change, or is *)
(* one call of the database, which may fail (an otl_exception).            *)
(* addTerminalClient and removeTerminalClient are a step each: they hold   *)
(* the lock of the map throughout, and a replaced connection takes nothing *)
(* back (m_replaced is set before do_error), so nothing waits inside.      *)
(* The process may be killed and started again; the database stays.        *)
(***************************************************************************)
EXTENDS Naturals, FiniteSets

CONSTANTS
    Conns,      \* connection objects; an object that is gone may be used again
    Gateways,   \* the ids that terminals authenticate with
    None        \* no connection, no id (the empty string), no address

ASSUME NoneAssumption == None \notin Conns \cup Gateways

Threads == {"io", "timer"}

\* A key of the registry: an id, or the empty one of a connection that has lost
\* its own to the other thread.
Keys == Gateways \cup {None}

\* Why the registry or the database may be wrong about a gateway:
\*   raced   the two threads were at the same gateway or connection
\*   failed  an authentication ended in an exception after m_gwid was stored
\*   missed  sp_offline failed in error()
\*   late    a destructor called sp_offline for a gateway that had come back
\*   crash   the process ended without sp_clear_connection_info
Reasons == {"raced", "failed", "missed", "late", "crash"}

VARIABLES
    used,       \* the connection object exists
    valid,      \* m_valid
    replaced,   \* m_replaced
    gwid,       \* m_gwid
    monitor,    \* m_monitorID, named by the gateway that it belongs to
    registry,   \* m_terminalConnMap
    pc,         \* where each thread is
    cur,        \* the connection whose handler or do_error a thread runs, or None
    auth,       \* the id in the authentication message that io handles
    address,    \* m_onlineIP and m_onlinePort, None before they are read
    online,     \* what the database shows of each gateway
    byMonitor,  \* sp_offline knows a terminal by the id of its monitoring point too
    why         \* history: reasons

memory == <<used, valid, replaced, gwid, monitor, registry, pc, cur, auth>>
vars == <<memory, address, online, byMonitor, why>>

-----------------------------------------------------------------------------
(* Helpers                                                                 *)

\* Thread t does something about gateway g.
At(t, g) == pc[t] # "idle" /\ (gwid[cur[t]] = g \/ (t = "io" /\ auth = g))

Quiet(g) == \A t \in Threads : ~At(t, g)

\* The connections that serve g.
Serving(g) == {c \in Conns : valid[c] /\ gwid[c] = g}

\* Both threads are at g, or at a connection that io authenticates for g, or io
\* authenticates a closed connection for g.
Meeting(g) ==
    \/ At("io", g) /\ At("timer", g)
    \/ At("io", g) /\ pc["timer"] # "idle" /\ cur["io"] = cur["timer"]
    \/ auth = g /\ ~valid[cur["io"]]

\* The history after a step that removes the reasons gone and adds the reasons
\* new for gateway k (if it is one); meetings are noted by every step.
Note(k, gone, new) ==
    why' = [g \in Gateways |->
        (IF g = k THEN (why[g] \ gone) \cup new ELSE why[g])
            \cup (IF Meeting(g)' THEN {"raced"} ELSE {})]

NoteMeetings == Note(None, {}, {})

Goto(t, l) == pc' = [pc EXCEPT ![t] = l] /\ UNCHANGED cur

\* Thread t begins at l with connection c ...
Begin(t, l, c) == pc' = [pc EXCEPT ![t] = l] /\ cur' = [cur EXCEPT ![t] = c]

\* ... and is back in its loop.
Done(t) == Begin(t, "idle", None)

\* error() and the destructor have something to take back only if the
\* connection was not replaced.
TakesBack(c) == ~replaced[c] /\ gwid[c] # None

\* sp_clear_connection_info(ip, port): the terminals of the server with that
\* address are shown offline.  Before the configuration is read the address is
\* an empty string and an uninitialised number, which are no server's.
Cleared == [g \in Gateways |-> IF address = None THEN online[g] ELSE FALSE]

\* The memory of the process is gone.
EndProcess ==
    /\ used' = [c \in Conns |-> FALSE]
    /\ valid' = [c \in Conns |-> FALSE]
    /\ replaced' = [c \in Conns |-> FALSE]
    /\ gwid' = [c \in Conns |-> None]
    /\ monitor' = [c \in Conns |-> None]
    /\ registry' = [k \in Keys |-> None]
    /\ pc' = [t \in Threads |-> "idle"]
    /\ cur' = [t \in Threads |-> None]
    /\ auth' = None

Init ==
    /\ used = [c \in Conns |-> FALSE]
    /\ valid = [c \in Conns |-> FALSE]
    /\ replaced = [c \in Conns |-> FALSE]
    /\ gwid = [c \in Conns |-> None]
    /\ monitor = [c \in Conns |-> None]
    /\ registry = [k \in Keys |-> None]
    /\ pc = [t \in Threads |-> "idle"]
    /\ cur = [t \in Threads |-> None]
    /\ auth = None
    /\ address = None
    /\ online = [g \in Gateways |-> FALSE]
    /\ byMonitor \in BOOLEAN
    /\ why = [g \in Gateways |-> {}]

-----------------------------------------------------------------------------
(* The process                                                             *)

\* The constructor of IcsLocalServer: clearConnectionInfo() comes before
\* m_onlineIP and m_onlinePort are set.
Start ==
    /\ address = None
    /\ online' = Cleared
    /\ address' = "here"
    /\ UNCHANGED <<memory, byMonitor, why>>

\* The destructor of IcsLocalServer, after io_service.run() has returned.  The timer
\* thread may be anywhere: it is not stopped before.
Stop ==
    /\ address # None
    /\ pc["io"] = "idle"
    /\ online' = Cleared
    /\ address' = None
    /\ why' = [g \in Gateways |-> {}]
    /\ EndProcess
    /\ UNCHANGED byMonitor

\* The process is killed, or an exception leaves a destructor.
Crash ==
    /\ address # None
    /\ address' = None
    /\ why' = [g \in Gateways |-> IF online[g] THEN {"crash"} ELSE {}]
    /\ EndProcess
    /\ UNCHANGED <<online, byMonitor>>

-----------------------------------------------------------------------------
(* Authentication (io)                                                     *)

\* A terminal connects.
Accept(c) ==
    /\ address # None /\ pc["io"] = "idle" /\ ~used[c]
    /\ used' = [used EXCEPT ![c] = TRUE]
    /\ valid' = [valid EXCEPT ![c] = TRUE]
    /\ UNCHANGED <<replaced, gwid, monitor, registry, pc, cur, auth>>
    /\ UNCHANGED <<address, online, byMonitor, why>>

\* An authentication message of c for g is handled, m_gwid being empty.  Its
\* bytes may have been read before the connection was closed: m_valid is not
\* looked at.
AuthBegin(c, g) ==
    /\ pc["io"] = "idle" /\ used[c] /\ gwid[c] = None
    /\ auth' = g
    /\ Begin("io", "setGwid", c)
    /\ UNCHANGED <<used, valid, replaced, gwid, monitor, registry>>
    /\ UNCHANGED <<address, online, byMonitor>>
    /\ NoteMeetings

\* request >> m_gwid
AuthSetGwid ==
    /\ pc["io"] = "setGwid"
    /\ gwid' = [gwid EXCEPT ![cur["io"]] = auth]
    /\ Goto("io", "authorize")
    /\ UNCHANGED <<used, valid, replaced, monitor, registry, auth>>
    /\ UNCHANGED <<address, online, byMonitor>>
    /\ NoteMeetings

\* sp_authroize says yes, and the monitoring point is remembered ...
AuthAccepted ==
    /\ pc["io"] = "authorize"
    /\ monitor' = [monitor EXCEPT ![cur["io"]] = gwid[cur["io"]]]
    /\ Goto("io", "online")
    /\ UNCHANGED <<used, valid, replaced, gwid, registry, auth>>
    /\ UNCHANGED <<address, online, byMonitor>>
    /\ NoteMeetings

\* ... or no: the connection stays, without an id.
AuthRefused ==
    /\ pc["io"] = "authorize"
    /\ gwid' = [gwid EXCEPT ![cur["io"]] = None]
    /\ Done("io")
    /\ auth' = None
    /\ UNCHANGED <<used, valid, replaced, monitor, registry>>
    /\ UNCHANGED <<address, online, byMonitor>>
    /\ NoteMeetings

\* sp_online
AuthOnline ==
    /\ pc["io"] = "online"
    /\ online' = [g \in Gateways |-> g = gwid[cur["io"]] \/ online[g]]
    /\ Goto("io", "add")
    /\ UNCHANGED <<used, valid, replaced, gwid, monitor, registry, auth>>
    /\ UNCHANGED <<address, byMonitor>>
    /\ Note(gwid[cur["io"]], {"missed", "late", "crash"}, {})

\* The message is too long or too short, or a call of the database fails: the
\* exception ends in handleMessage, and do_error follows if m_valid is set.
AuthFails ==
    /\ pc["io"] \in {"authorize", "online"}
    /\ auth' = None
    /\ IF valid[cur["io"]] THEN Begin("io", "invalidate", cur["io"]) ELSE Done("io")
    /\ UNCHANGED <<used, valid, replaced, gwid, monitor, registry>>
    /\ UNCHANGED <<address, online, byMonitor>>
    /\ Note(auth, {}, {"failed"})

\* Mutant: the entry is left as it is (the map's emplace for operator[]).
AddMutant ==
    /\ pc["io"] = "add"
    /\ LET key == gwid[cur["io"]]
           old == {c \in Conns : c = registry[key]}
       IN  /\ replaced' = [c \in Conns |-> replaced[c] \/ c \in old]
           /\ valid' = [c \in Conns |-> valid[c] /\ c \notin old]
           /\ registry' = IF old = {} THEN [registry EXCEPT ![key] = cur["io"]] ELSE registry
    /\ Done("io")
    /\ auth' = None
    /\ UNCHANGED <<used, gwid, monitor>>
    /\ UNCHANGED <<address, online, byMonitor>>
    /\ NoteMeetings

\* addTerminalClient(m_gwid, ...): a connection that has the entry is marked,
\* closed and replaced.
Add ==
    /\ pc["io"] = "add"
    /\ LET key == gwid[cur["io"]]
           old == {c \in Conns : c = registry[key]}
       IN  /\ replaced' = [c \in Conns |-> replaced[c] \/ c \in old]
           /\ valid' = [c \in Conns |-> valid[c] /\ c \notin old]
           /\ registry' = [registry EXCEPT ![key] = cur["io"]]
    /\ Done("io")
    /\ auth' = None
    /\ UNCHANGED <<used, gwid, monitor>>
    /\ UNCHANGED <<address, online, byMonitor>>
    /\ NoteMeetings

-----------------------------------------------------------------------------
(* do_error, error() and the destructor                                    *)

\* A read or handler error (io) or a timeout (timer): m_valid is found set ...
ErrorBegin(t, c) ==
    /\ pc[t] = "idle" /\ used[c] /\ valid[c]
    /\ Begin(t, "invalidate", c)
    /\ UNCHANGED <<used, valid, replaced, gwid, monitor, registry, auth>>
    /\ UNCHANGED <<address, online, byMonitor>>
    /\ NoteMeetings

\* ... and cleared.
Invalidate(t) ==
    /\ pc[t] = "invalidate"
    /\ valid' = [valid EXCEPT ![cur[t]] = FALSE]
    /\ Goto(t, "error")
    /\ UNCHANGED <<used, replaced, gwid, monitor, registry, auth>>
    /\ UNCHANGED <<address, online, byMonitor>>
    /\ NoteMeetings

\* error() begins.
Error(t) ==
    /\ pc[t] = "error"
    /\ IF TakesBack(cur[t]) THEN Goto(t, "remove") ELSE Done(t)
    /\ UNCHANGED <<used, valid, replaced, gwid, monitor, registry, auth>>
    /\ UNCHANGED <<address, online, byMonitor>>
    /\ NoteMeetings

\* removeTerminalClient(m_gwid): whatever the entry is
Remove(t) ==
    /\ pc[t] = "remove"
    /\ registry' = [registry EXCEPT ![gwid[cur[t]]] = None]
    /\ Goto(t, "offline")
    /\ UNCHANGED <<used, valid, replaced, gwid, monitor, auth>>
    /\ UNCHANGED <<address, online, byMonitor>>
    /\ NoteMeetings

\* Mutant: the id is cleared before it is sent to the database.
OfflineMutant(t) ==
    /\ pc[t] = "offline"
    /\ Goto(t, "clear")
    /\ UNCHANGED <<used, valid, replaced, gwid, monitor, registry, auth>>
    /\ UNCHANGED <<address, online, byMonitor>>
    /\ NoteMeetings

\* sp_offline(m_gwid) ...
Offline(t) ==
    /\ pc[t] = "offline"
    /\ online' = [g \in Gateways |-> online[g] /\ g # gwid[cur[t]]]
    /\ Goto(t, "clear")
    /\ UNCHANGED <<used, valid, replaced, gwid, monitor, registry, auth>>
    /\ UNCHANGED <<address, byMonitor>>
    /\ NoteMeetings

\* ... whose failure is logged
OfflineFails(t) ==
    /\ pc[t] = "offline"
    /\ Goto(t, "clear")
    /\ UNCHANGED <<used, valid, replaced, gwid, monitor, registry, auth>>
    /\ UNCHANGED <<address, online, byMonitor>>
    /\ Note(gwid[cur[t]], {}, {"missed"})

\* Mutant: the thread keeps its reference to the connection.
ClearMutant(t) ==
    /\ pc[t] = "clear"
    /\ gwid' = [gwid EXCEPT ![cur[t]] = None]
    /\ Goto(t, "idle")
    /\ UNCHANGED <<used, valid, replaced, monitor, registry, auth>>
    /\ UNCHANGED <<address, online, byMonitor>>
    /\ NoteMeetings

\* m_gwid.clear()
Clear(t) ==
    /\ pc[t] = "clear"
    /\ gwid' = [gwid EXCEPT ![cur[t]] = None]
    /\ Done(t)
    /\ UNCHANGED <<used, valid, replaced, monitor, registry, auth>>
    /\ UNCHANGED <<address, online, byMonitor>>
    /\ NoteMeetings

\* Nobody refers to c any more: not the registry, not a task of the timing
\* wheel, not a handler.
Unreferenced(c) ==
    /\ used[c] /\ ~valid[c]
    /\ \A t \in Threads : cur[t] # c
    /\ \A k \in Keys : registry[k] # c

\* The object goes.
Forget(c) ==
    /\ used' = [used EXCEPT ![c] = FALSE]
    /\ replaced' = [replaced EXCEPT ![c] = FALSE]
    /\ gwid' = [gwid EXCEPT ![c] = None]
    /\ monitor' = [monitor EXCEPT ![c] = None]
    /\ UNCHANGED <<valid, registry, pc, cur, auth, address, byMonitor>>

\* Mutant: m_replaced is not looked at.
LastCallMutant(c) == monitor[c] # None

\* The destructor calls sp_offline once more, for a connection that was
\* authenticated and not replaced.
LastCall(c) == ~replaced[c] /\ monitor[c] # None

\* The gateway of c has come back on another connection.
CameBack(c) ==
    ~replaced[c] /\ \E d \in Conns \ {c} : used[d] /\ gwid[d] = monitor[c]

\* The destructor of a connection without that call ...
Destroy(c) ==
    /\ Unreferenced(c) /\ ~LastCall(c)
    /\ Forget(c)
    /\ UNCHANGED online
    /\ NoteMeetings

\* ... and with it.  If it fails the exception leaves a destructor, which is
\* Crash.
DestroyOffline(c) ==
    /\ Unreferenced(c) /\ LastCall(c)
    /\ Forget(c)
    /\ online' = [g \in Gateways |-> online[g] /\ (byMonitor => g # monitor[c])]
    /\ Note(monitor[c], {}, IF byMonitor /\ CameBack(c) THEN {"late"} ELSE {})

-----------------------------------------------------------------------------
AuthStep ==
    \/ AuthSetGwid \/ AuthAccepted \/ AuthRefused \/ AuthOnline \/ AuthFails \/ Add

ErrorStep(t) ==
    \/ Invalidate(t) \/ Error(t) \/ Remove(t)
    \/ Offline(t) \/ OfflineFails(t) \/ Clear(t)

Next ==
    \/ Start \/ Stop \/ Crash
    \/ AuthStep
    \/ \E c \in Conns : Accept(c) \/ Destroy(c) \/ DestroyOffline(c)
    \/ \E c \in Conns, g \in Gateways : AuthBegin(c, g)
    \/ \E t \in Threads : ErrorStep(t)
    \/ \E t \in Threads, c \in Conns : ErrorBegin(t, c)

Spec == Init /\ [][Next]_vars

-----------------------------------------------------------------------------
(* Properties                                                              *)

Labels == {"idle", "setGwid", "authorize", "online", "add",
           "invalidate", "error", "remove", "offline", "clear"}

\* The shape of the state; a thread that is back in its loop has let go of the
\* connection it worked on.
TypeOK ==
    /\ used \in [Conns -> BOOLEAN]
    /\ valid \in [Conns -> BOOLEAN]
    /\ replaced \in [Conns -> BOOLEAN]
    /\ gwid \in [Conns -> Keys]
    /\ monitor \in [Conns -> Keys]
    /\ registry \in [Keys -> Conns \cup {None}]
    /\ pc \in [Threads -> Labels]
    /\ cur \in [Threads -> Conns \cup {None}]
    /\ auth \in Keys
    /\ address \in {"here", None}
    /\ online \in [Gateways -> BOOLEAN]
    /\ byMonitor \in BOOLEAN
    /\ why \in [Gateways -> SUBSET Reasons]
    /\ \A t \in Threads : pc[t] = "idle" <=> cur[t] = None
    /\ pc["io"] \in {"setGwid", "authorize", "online", "add"} <=> auth # None
    /\ pc["timer"] \notin {"setGwid", "authorize", "online", "add"}

\* While nothing is done about a gateway, its entry in the registry is the one
\* valid connection with its id, so that findTerminalClient finds the terminal
\* that is there: unless the threads met, or an authentication for the gateway
\* failed half way, whose error() removes the entry of whoever has it.
EntryRight ==
    \A g \in Gateways :
        Quiet(g) /\ why[g] \cap {"raced", "failed"} = {} =>
            Serving(g) = IF registry[g] = None THEN {} ELSE {registry[g]}

\* While nothing is done about it, a gateway that is served is shown online:
\* however often its connection was replaced, and whatever became of the
\* connections before; but for a destructor that comes late, a race of the
\* threads, and an authentication that failed half way.
ServedIsShown ==
    \A g \in Gateways :
        Quiet(g) /\ Serving(g) # {} /\ why[g] \cap {"raced", "failed", "late"} = {} =>
            online[g]

\* While nothing is done about it, a gateway that is not served is shown
\* offline, even after a failed authentication and after a restart; but for an
\* sp_offline that failed, a race of the threads, and a crash of the process: the
\* next one calls clearConnectionInfo, which is to clear what the crash has left
\* (icslocalserver.cpp:1345), before it has the address to clear.
GoneIsShown ==
    \A g \in Gateways :
        Quiet(g) /\ Serving(g) = {} /\ why[g] \cap {"raced", "missed", "crash"} = {} =>
            ~online[g]

=============================================================================
