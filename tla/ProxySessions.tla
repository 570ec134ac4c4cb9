--------------------------- MODULE ProxySessions ---------------------------
(***************************************************************************)
(* Who is online at the proxy: the registry of authenticated terminals     *)
(* (IcsPorxyServer::m_terminalConnMap), the connections that enter and     *)
(* leave it (IcsProxyTerminalClient::handleAuthRequest, error), and what   *)
(* the centers are told of it (onoffLineToIcsCenter), all in               *)
(* src/src/proxy/icsproxyserver.cpp, over IcsConnection::do_error and      *)
(* replaced in src/src/module/icsconnection.hpp.                           *)
(*                                                                         *)
(* "io" handles messages and read errors, "timer" runs the timeouts; both  *)
(* come to do_error, which takes no lock.  m_valid, m_replaced and m_gwid  *)
(* are read and written without one; a step here reads or writes one of    *)
(* them, and a racing read sees the value before or after the write.       *)
(* Messages to a center are applied in the order they are sent.            *)
(***************************************************************************)
EXTENDS Naturals, FiniteSets

CONSTANTS
    Conns,      \* connection objects; an object that is gone may be used again
    Gateways,   \* the ids that terminals authenticate with
    Centers,    \* connections of centers; as with Conns, one that is gone may be used again
    None        \* no connection, no gateway, no thread

ASSUME NoneAssumption == None \notin Conns \cup Gateways \cup {"io", "timer"}

Threads == {"io", "timer"}

VARIABLES
    used,       \* the connection object exists
    valid,      \* m_valid
    replaced,   \* m_replaced
    gwid,       \* m_gwid, None when empty
    registry,   \* m_terminalConnMap
    lock,       \* holder of m_terminalConnMapLock
    pc,         \* where each thread is
    cur,        \* the connection whose handler or do_error a thread runs, or None
    auth,       \* the id in the authentication message that io handles
    linked,     \* m_icsCenterConnMap: the centers that are authenticated
    view,       \* the gateways that a center was last told are online
    untold,     \* history: those online when a center came, of which it was told nothing since
    raced       \* history: the two threads were at the same gateway or connection

vars == <<used, valid, replaced, gwid, registry, lock, pc, cur, auth,
          linked, view, untold, raced>>

-----------------------------------------------------------------------------
(* Helpers                                                                 *)

\* Thread t does something about gateway g.
At(t, g) == pc[t] # "idle" /\ (gwid[cur[t]] = g \/ (t = "io" /\ auth = g))

Quiet(g) == \A t \in Threads : ~At(t, g)

\* The connections that serve g.
Serving(g) == {c \in Conns : valid[c] /\ gwid[c] = g}

\* Kept by every step: once both threads are at work on one connection or one
\* gateway, the gateways concerned are marked.
NoteRaces ==
    raced' = [g \in Gateways |->
        \/ raced[g]
        \/ At("io", g)' /\ At("timer", g)'
        \/ At("io", g)' /\ pc'["timer"] # "idle" /\ cur'["io"] = cur'["timer"]
        \/ auth' = g /\ ~valid'[cur'["io"]]]

Goto(t, l) == pc' = [pc EXCEPT ![t] = l] /\ UNCHANGED cur

\* Thread t begins at l with connection c ...
Begin(t, l, c) == pc' = [pc EXCEPT ![t] = l] /\ cur' = [cur EXCEPT ![t] = c]

\* ... and is back in its loop.
Done(t) == Begin(t, "idle", None)

\* The centers in told are sent the notice that g is online or offline; one with
\* an empty id tells them nothing.
Tell(told, g, online) ==
    /\ view' = [k \in Centers |->
                  IF k \notin told \/ g = None THEN view[k]
                  ELSE IF online THEN view[k] \cup {g} ELSE view[k] \ {g}]
    /\ untold' = [k \in Centers |-> IF k \in told THEN untold[k] \ {g} ELSE untold[k]]

\* Mutant: m_replaced is not looked at.
TakesBackMutant(c) == gwid[c] # None

\* error() has something to take back: not for a replaced or an unauthenticated
\* connection.
TakesBack(c) == ~replaced[c] /\ gwid[c] # None

Init ==
    /\ used = [c \in Conns |-> FALSE]
    /\ valid = [c \in Conns |-> FALSE]
    /\ replaced = [c \in Conns |-> FALSE]
    /\ gwid = [c \in Conns |-> None]
    /\ registry = [g \in Gateways |-> None]
    /\ lock = None
    /\ pc = [t \in Threads |-> "idle"]
    /\ cur = [t \in Threads |-> None]
    /\ auth = None
    /\ linked = {}
    /\ view = [k \in Centers |-> {}]
    /\ untold = [k \in Centers |-> {}]
    /\ raced = [g \in Gateways |-> FALSE]

-----------------------------------------------------------------------------
(* Authentication (io)                                                     *)

\* A terminal connects.
Accept(c) ==
    /\ pc["io"] = "idle" /\ ~used[c]
    /\ used' = [used EXCEPT ![c] = TRUE]
    /\ valid' = [valid EXCEPT ![c] = TRUE]
    /\ UNCHANGED <<replaced, gwid, registry, lock, pc, cur, auth, linked, view, untold, raced>>

\* An authentication message of c for g is handled.  The bytes may have been
\* read before another thread closed the connection: m_valid is not looked at.
AuthBegin(c, g) ==
    /\ pc["io"] = "idle" /\ used[c] /\ gwid[c] = None
    /\ auth' = g
    /\ Begin("io", "setGwid", c)
    /\ UNCHANGED <<used, valid, replaced, gwid, registry, lock, linked, view, untold>>
    /\ NoteRaces

\* m_gwid = std::move(gwId)
AuthSetGwid ==
    /\ pc["io"] = "setGwid"
    /\ gwid' = [gwid EXCEPT ![cur["io"]] = auth]
    /\ Goto("io", "add")
    /\ UNCHANGED <<used, valid, replaced, registry, lock, auth, linked, view, untold>>
    /\ NoteRaces

\* addTerminalClient(m_gwid, ...) with no connection to replace
Add ==
    /\ pc["io"] = "add" /\ lock = None
    /\ gwid[cur["io"]] # None => registry[gwid[cur["io"]]] = None
    /\ registry' = [g \in Gateways |-> IF g = gwid[cur["io"]] THEN cur["io"] ELSE registry[g]]
    /\ Goto("io", "online")
    /\ UNCHANGED <<used, valid, replaced, gwid, lock, auth, linked, view, untold>>
    /\ NoteRaces

\* ... with one: it is marked, under the lock, before do_error is called on it.
AddReplace ==
    /\ pc["io"] = "add" /\ lock = None
    /\ gwid[cur["io"]] # None
    /\ registry[gwid[cur["io"]]] # None
    /\ lock' = "io"
    /\ replaced' = [replaced EXCEPT ![registry[gwid[cur["io"]]]] = TRUE]
    /\ Goto("io", "replace")
    /\ UNCHANGED <<used, valid, gwid, registry, auth, linked, view, untold>>
    /\ NoteRaces

\* Mutant: the entry is left as it is (the map's emplace for operator[]).
ReplaceMutant ==
    /\ pc["io"] = "replace"
    /\ valid' = [valid EXCEPT ![registry[auth]] = FALSE]
    /\ lock' = None
    /\ Goto("io", "online")
    /\ UNCHANGED <<used, replaced, gwid, registry, auth, linked, view, untold>>
    /\ NoteRaces

\* The rest of replaced() and of addTerminalClient: do_error on the old
\* connection, which would need the lock again if it had something to take back,
\* and its entry is overwritten.
Replace ==
    /\ pc["io"] = "replace"
    /\ valid' = [valid EXCEPT ![registry[auth]] = FALSE]
    /\ IF valid[registry[auth]] /\ TakesBack(registry[auth])
       THEN Goto("io", "remove") /\ UNCHANGED <<registry, lock>>
       ELSE /\ registry' = [registry EXCEPT ![auth] = cur["io"]]
            /\ lock' = None
            /\ Goto("io", "online")
    /\ UNCHANGED <<used, replaced, gwid, auth, linked, view, untold>>
    /\ NoteRaces

\* onoffLineToIcsCenter(0)
TellOnline ==
    /\ pc["io"] = "online"
    /\ Tell(linked, gwid[cur["io"]], TRUE)
    /\ Done("io")
    /\ auth' = None
    /\ UNCHANGED <<used, valid, replaced, gwid, registry, lock, linked>>
    /\ NoteRaces

\* ... that finds the pool of chunks empty, when it builds the notice or copies it
\* for the next center: the exception ends the handler and comes to do_error.
TellOnlineFails(told) ==
    /\ pc["io"] = "online"
    /\ told \subseteq linked /\ (told = linked => linked = {})
    /\ Tell(told, gwid[cur["io"]], TRUE)
    /\ IF valid[cur["io"]] THEN Goto("io", "invalidate") ELSE Done("io")
    /\ auth' = None
    /\ UNCHANGED <<used, valid, replaced, gwid, registry, lock, linked>>
    /\ NoteRaces

-----------------------------------------------------------------------------
(* do_error and error()                                                    *)

\* A read or handler error (io) or a timeout (timer): m_valid is found set ...
ErrorBegin(t, c) ==
    /\ pc[t] = "idle" /\ used[c] /\ valid[c]
    /\ Begin(t, "invalidate", c)
    /\ UNCHANGED <<used, valid, replaced, gwid, registry, lock, auth, linked, view, untold>>
    /\ NoteRaces

\* Mutant: it stays set.
InvalidateMutant(t) ==
    /\ pc[t] = "invalidate"
    /\ Goto(t, "error")
    /\ UNCHANGED <<used, valid, replaced, gwid, registry, lock, auth, linked, view, untold>>
    /\ NoteRaces

\* ... and cleared.
Invalidate(t) ==
    /\ pc[t] = "invalidate"
    /\ valid' = [valid EXCEPT ![cur[t]] = FALSE]
    /\ Goto(t, "error")
    /\ UNCHANGED <<used, replaced, gwid, registry, lock, auth, linked, view, untold>>
    /\ NoteRaces

\* error() begins.
Error(t) ==
    /\ pc[t] = "error"
    /\ IF TakesBack(cur[t]) THEN Goto(t, "remove") ELSE Done(t)
    /\ UNCHANGED <<used, valid, replaced, gwid, registry, lock, auth, linked, view, untold>>
    /\ NoteRaces

\* Mutant: the lock is not given back.
RemoveMutantHeld(t) ==
    /\ pc[t] = "remove" /\ lock = None
    /\ lock' = t
    /\ registry' = [g \in Gateways |-> IF g = gwid[cur[t]] THEN None ELSE registry[g]]
    /\ Goto(t, "offline")
    /\ UNCHANGED <<used, valid, replaced, gwid, auth, linked, view, untold>>
    /\ NoteRaces

\* Mutant: the entry stays.
RemoveMutantKept(t) ==
    /\ pc[t] = "remove" /\ lock = None
    /\ Goto(t, "offline")
    /\ UNCHANGED <<used, valid, replaced, gwid, registry, lock, auth, linked, view, untold>>
    /\ NoteRaces

\* removeTerminalClient(m_gwid): whatever the entry is
Remove(t) ==
    /\ pc[t] = "remove" /\ lock = None
    /\ registry' = [g \in Gateways |-> IF g = gwid[cur[t]] THEN None ELSE registry[g]]
    /\ Goto(t, "offline")
    /\ UNCHANGED <<used, valid, replaced, gwid, lock, auth, linked, view, untold>>
    /\ NoteRaces

\* Mutant: the id is cleared before it is sent, and the centers are told of none.
TellOfflineMutant(t) ==
    /\ pc[t] = "offline"
    /\ Tell(linked, None, FALSE)
    /\ Goto(t, "clear")
    /\ UNCHANGED <<used, valid, replaced, gwid, registry, lock, auth, linked>>
    /\ NoteRaces

\* onoffLineToIcsCenter(1).  An exception of it ends the process, error() being
\* declared throw(): that is in SendPath.
TellOffline(t) ==
    /\ pc[t] = "offline"
    /\ Tell(linked, gwid[cur[t]], FALSE)
    /\ Goto(t, "clear")
    /\ UNCHANGED <<used, valid, replaced, gwid, registry, lock, auth, linked>>
    /\ NoteRaces

\* m_gwid.clear()
Clear(t) ==
    /\ pc[t] = "clear"
    /\ gwid' = [gwid EXCEPT ![cur[t]] = None]
    /\ Done(t)
    /\ UNCHANGED <<used, valid, replaced, registry, lock, auth, linked, view, untold>>
    /\ NoteRaces

-----------------------------------------------------------------------------
(* The rest of the world                                                   *)

\* The last reference to a closed connection goes.
Destroy(c) ==
    /\ used[c] /\ ~valid[c]
    /\ \A t \in Threads : pc[t] # "idle" => cur[t] # c
    /\ \A g \in Gateways : registry[g] # c
    /\ used' = [used EXCEPT ![c] = FALSE]
    /\ replaced' = [replaced EXCEPT ![c] = FALSE]
    /\ gwid' = [gwid EXCEPT ![c] = None]
    /\ UNCHANGED <<valid, registry, lock, pc, cur, auth, linked, view, untold, raced>>

\* A center authenticates (handleAuthrize2).  The message that would tell it of the
\* terminals that are there is built and never sent.
CenterAuth(k) ==
    /\ pc["io"] = "idle" /\ k \notin linked
    /\ linked' = linked \cup {k}
    /\ untold' = [untold EXCEPT ![k] = {g \in Gateways : registry[g] # None}]
    /\ UNCHANGED <<used, valid, replaced, gwid, registry, lock, pc, cur, auth, view, raced>>

\* The connection of a center fails (IcsCenter::error); what its object was told
\* ends with it.
CenterFails(k) ==
    /\ pc["io"] = "idle" /\ k \in linked
    /\ linked' = linked \ {k}
    /\ view' = [view EXCEPT ![k] = {}]
    /\ untold' = [untold EXCEPT ![k] = {}]
    /\ UNCHANGED <<used, valid, replaced, gwid, registry, lock, pc, cur, auth, raced>>

AuthStep ==
    \/ AuthSetGwid \/ Add \/ AddReplace \/ Replace \/ TellOnline
    \/ \E told \in SUBSET Centers : TellOnlineFails(told)

ErrorStep(t) == Invalidate(t) \/ Error(t) \/ Remove(t) \/ TellOffline(t) \/ Clear(t)

Next ==
    \/ AuthStep
    \/ \E k \in Centers : CenterAuth(k) \/ CenterFails(k)
    \/ \E c \in Conns : Accept(c) \/ Destroy(c)
    \/ \E c \in Conns, g \in Gateways : AuthBegin(c, g)
    \/ \E t \in Threads : ErrorStep(t)
    \/ \E t \in Threads, c \in Conns : ErrorBegin(t, c)

Spec == Init /\ [][Next]_vars

\* Each thread goes on with what it has begun; a thread that waits for the lock
\* gets it, the holder keeps it for one step.
FairSpec == Spec /\ WF_vars(AuthStep) /\ \A t \in Threads : SF_vars(ErrorStep(t))

-----------------------------------------------------------------------------
(* Properties                                                              *)

\* The shape of the state.
TypeOK ==
    /\ used \in [Conns -> BOOLEAN]
    /\ valid \in [Conns -> BOOLEAN]
    /\ replaced \in [Conns -> BOOLEAN]
    /\ gwid \in [Conns -> Gateways \cup {None}]
    /\ registry \in [Gateways -> Conns \cup {None}]
    /\ lock \in {"io", None}
    /\ pc \in [Threads -> {"idle", "setGwid", "add", "replace", "online",
                           "invalidate", "error", "remove", "offline", "clear"}]
    /\ cur \in [Threads -> Conns \cup {None}]
    /\ auth \in Gateways \cup {None}
    /\ linked \subseteq Centers
    /\ view \in [Centers -> SUBSET Gateways]
    /\ untold \in [Centers -> SUBSET Gateways]
    /\ raced \in [Gateways -> BOOLEAN]

\* While nothing is done about a gateway, its entry in the registry is the one
\* valid connection that authenticated with its id: commands for the gateway
\* reach its terminal, and there are no two.  Only a race of the two threads
\* over the gateway can undo this.
RegistryRight ==
    \A g \in Gateways :
        Quiet(g) /\ ~raced[g] =>
            Serving(g) = IF registry[g] = None THEN {} ELSE {registry[g]}

\* While nothing is done about a gateway, every center that is connected knows
\* whether it is online, even after an announcement that failed half way, unless
\* the threads raced; except that a center that came when the gateway was online
\* knows nothing of it before its next change (see CentersToldAll).
ViewRight ==
    \A k \in linked, g \in Gateways :
        Quiet(g) /\ ~raced[g] /\ g \notin untold[k]
            => (g \in view[k]) = (registry[g] # None)

\* A replaced connection takes nothing back: the entry that is removed is that
\* of the connection in error, or none, unless the threads raced.
RemovesOwn ==
    \A t \in Threads :
        pc[t] = "remove" /\ gwid[cur[t]] # None /\ ~raced[gwid[cur[t]]]
            => registry[gwid[cur[t]]] = cur[t]

\* The IO thread never needs the registry's lock while it holds it: the
\* connection that addTerminalClient closes is not removed from the registry.
NoSelfLock == lock = "io" => pc["io"] = "replace"

\* Whatever the threads do to each other, the entry of a gateway is its own valid
\* connection or a closed one: no command for it (findTerminalClient) is ever
\* written to a live connection that has lost or changed its id.
EntryIsOwn ==
    \A g \in Gateways :
        registry[g] # None /\ valid[registry[g]] => gwid[registry[g]] = g

\* Neither thread waits for ever: what it has begun it ends.
ThreadsEnd == \A t \in Threads : pc[t] # "idle" ~> pc[t] = "idle"

\* What the comment in handleAuthrize2 says (icsproxyserver.cpp:730, all terminals
\* of the moment are reported to the center): a center knows of every gateway
\* where nothing is going on and the threads did not race.
CentersToldAll ==
    \A k \in linked, g \in Gateways :
        Quiet(g) /\ ~raced[g] => (g \in view[k]) = (registry[g] # None)

\* What the notices are for (icsproxyserver.hpp:42, "on and off line notice: status
\* 0-online, 1-offline"): when both threads are back in their loops, no gateway of
\* which the last notice said that it is offline has a connection that serves it.
OfflineIsOffline ==
    (\A t \in Threads : pc[t] = "idle") =>
        \A k \in linked, g \in Gateways :
            g \notin view[k] /\ g \notin untold[k] => Serving(g) = {}

-----------------------------------------------------------------------------
(* The inductive invariant                                                 *)

Authenticating == {"setGwid", "add", "replace", "online"}

\* Where the threads are says what they hold: a connection, an id, the lock.
ThreadsOK ==
    /\ \A t \in Threads : (pc[t] = "idle") = (cur[t] = None)
    /\ pc["timer"] \notin Authenticating
    /\ (pc["io"] \in Authenticating) = (auth # None)
    /\ (lock = "io") = (pc["io"] = "replace")
    /\ \A t \in Threads :
          pc[t] \in {"error", "remove", "offline", "clear"} => ~valid[cur[t]]

\* An object that does not exist has no state, and nobody refers to it.
UnusedOK ==
    \A c \in Conns : ~used[c] =>
        /\ ~valid[c] /\ ~replaced[c] /\ gwid[c] = None
        /\ \A t \in Threads : cur[t] # c
        /\ \A g \in Gateways : registry[g] # c

\* A replaced connection is closed, or about to be.
ReplacedIsClosed ==
    /\ \A c \in Conns : replaced[c] /\ valid[c] => pc["io"] = "replace" /\ registry[auth] = c
    /\ pc["io"] = "replace" => registry[auth] # None /\ replaced[registry[auth]]

\* NoteRaces has marked every gateway that both threads are at.
RacesNoted ==
    \A g \in Gateways :
        \/ raced[g]
        \/ /\ ~(At("io", g) /\ At("timer", g))
           /\ ~(At("io", g) /\ pc["timer"] # "idle" /\ cur["io"] = cur["timer"])
           /\ ~(auth = g /\ ~valid[cur["io"]])

\* A connection under authentication has the id it authenticates with, or was
\* closed and has lost it to the other thread.
AuthOK ==
    /\ pc["io"] = "setGwid" => gwid[cur["io"]] = None
    /\ pc["io"] \in {"add", "replace", "online"} =>
          /\ gwid[cur["io"]] = auth \/ (gwid[cur["io"]] = None /\ ~valid[cur["io"]])
          /\ ~raced[auth] => gwid[cur["io"]] = auth
    /\ pc["io"] \in {"add", "replace"} /\ ~raced[auth] => registry[auth] # cur["io"]

\* An entry is that of a connection with its id; one that had another id before
\* was closed in between, which is a race.
EntryOK ==
    \A g \in Gateways : registry[g] # None =>
        /\ gwid[registry[g]] = g \/ ~valid[registry[g]]
        /\ \A h \in Gateways \ {g} : gwid[registry[g]] = h => raced[h]
        /\ ~raced[g] =>
              /\ gwid[registry[g]] = g
              /\ \/ valid[registry[g]]
                 \/ \E t \in Threads : cur[t] = registry[g] /\ pc[t] \in {"error", "remove"}
              /\ replaced[registry[g]] => pc["io"] = "replace" /\ auth = g

\* A connection with an id that was not replaced has the entry, or is on its way
\* in or out.
HolderOK ==
    \A c \in Conns, g \in Gateways :
        gwid[c] = g /\ ~replaced[c] /\ ~raced[g] =>
            \/ registry[g] = c
            \/ \E t \in Threads : cur[t] = c /\ pc[t] \in {"offline", "clear"}
            \/ cur["io"] = c /\ pc["io"] \in {"add", "replace"}

\* From the removal to the end of error() there is no entry.
GoneOK ==
    \A t \in Threads, g \in Gateways :
        pc[t] \in {"offline", "clear"} /\ gwid[cur[t]] = g /\ ~raced[g] => registry[g] = None

\* A thread is at, or on its way to, the notice that g is offline.
GoingOffline(g) ==
    \E t \in Threads :
        /\ pc[t] \in {"invalidate", "error", "remove", "offline"}
        /\ gwid[cur[t]] = g /\ ~replaced[cur[t]]

\* The centers know what the registry says, but for news on its way.
ToldOK ==
    \A k \in linked, g \in Gateways :
        \/ raced[g] \/ g \in untold[k]
        \/ pc["io"] = "online" /\ auth = g
        \/ GoingOffline(g)
        \/ (g \in view[k]) = (registry[g] # None)

\* What is announced online is in the registry, unless a race was noted.
OnlineIsRegistered ==
    pc["io"] = "online" /\ auth # None /\ ~raced[auth] => registry[auth] = cur["io"]

\* What a center knows ends with its connection.
UnlinkedOK == \A k \in Centers \ linked : view[k] = {} /\ untold[k] = {}

IInv ==
    /\ TypeOK
    /\ ThreadsOK
    /\ UnusedOK
    /\ ReplacedIsClosed
    /\ RacesNoted
    /\ AuthOK
    /\ EntryOK
    /\ HolderOK
    /\ GoneOK
    /\ ToldOK
    /\ RemovesOwn
    /\ OnlineIsRegistered
    /\ UnlinkedOK

=============================================================================
