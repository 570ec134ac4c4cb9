---------------------------- MODULE RemoteLinks ----------------------------
(***************************************************************************)
(* The center's links to the proxies of enterprises: how the web asks for  *)
(* a link (IcsWebClient::handleConnectRemote, handleDisconnectRemote), how *)
(* center and proxy authenticate each other (IcsRemoteProxyClient in       *)
(* src/src/center/icslocalserver.cpp, IcsCenter in                         *)
(* src/src/proxy/icsproxyserver.cpp), and how a link ends.                 *)
(*                                                                         *)
(* The center opens a connection and sends request1 with its time; the     *)
(* proxy echoes it in a response with its own time; the center registers   *)
(* the link and echoes the proxy's time in request2; the proxy then counts *)
(* the connection among its centers.  Each side refuses an echo that took  *)
(* five seconds or more.  So one message of a link is under way at a time. *)
(*                                                                         *)
(* A handler is one step: each program runs them in one thread, and no     *)
(* timeout is registered for these connections, at either end.             *)
(***************************************************************************)
EXTENDS Naturals, FiniteSets

CONSTANTS
    Links,          \* connections; one whose both ends are gone may be used again
    Enterprises,    \* each has one proxy
    None            \* no link, no enterprise (the empty m_enterpriseID), no message

ASSUME NoneAssumption ==
    None \notin Links \cup Enterprises \cup {"request1", "response", "request2"}

\* A key of the registry: an enterprise or the empty id of a link that has failed.
Keys == Enterprises \cup {None}

VARIABLES
    stage,      \* the center's end of a link: "none", "open" (m_valid) or "closed"
    ent,        \* m_enterpriseID
    legal,      \* m_isLegal
    registry,   \* m_proxyConnMap
    shown,      \* what sp_remote_proxy_onoff_line has last recorded of an enterprise
    side,       \* the proxy's end: "none", "open", "center" (among its centers), "closed"
    message,    \* the message of the link that is under way
    stuck,      \* history: request1 was not sent, or nothing comes of what is sent
    doubled,    \* history: the enterprise had two links, and has had one ever since
    crashed     \* history: the enterprise was shown linked when the center crashed

center == <<stage, ent, legal, registry, shown>>
proxy == <<side, message>>
history == <<stuck, doubled, crashed>>
vars == <<center, proxy, history>>

-----------------------------------------------------------------------------
(* Helpers                                                                 *)

\* The links of e that are open at the center.
OpenLinks(e) == {l \in Links : stage[l] = "open" /\ ent[l] = e}

\* The enterprises of which link l is not the only open link.
Other(l) == {e \in Enterprises : OpenLinks(e) \ {l} # {}}

\* Mutant: the registry is not told.
CloseMutant(l) ==
    /\ stage' = [stage EXCEPT ![l] = "closed"]
    /\ ent' = [ent EXCEPT ![l] = None]
    /\ shown' = [k \in Keys |-> shown[k] /\ ~(k = ent[l] /\ legal[l])]
    /\ UNCHANGED <<registry, legal>>
    /\ doubled' = [e \in Enterprises |-> doubled[e] /\ e \in Other(l)]

\* Mutant: m_enterpriseID is not cleared.
CloseMutantId(l) ==
    /\ stage' = [stage EXCEPT ![l] = "closed"]
    /\ registry' = [k \in Keys |-> IF k = ent[l] THEN None ELSE registry[k]]
    /\ shown' = [k \in Keys |-> shown[k] /\ ~(k = ent[l] /\ legal[l])]
    /\ UNCHANGED <<ent, legal>>
    /\ doubled' = [e \in Enterprises |-> doubled[e] /\ e \in Other(l)]

\* Mutant: the database is not told.
CloseMutantShown(l) ==
    /\ stage' = [stage EXCEPT ![l] = "closed"]
    /\ ent' = [ent EXCEPT ![l] = None]
    /\ registry' = [k \in Keys |-> IF k = ent[l] THEN None ELSE registry[k]]
    /\ UNCHANGED <<shown, legal>>
    /\ doubled' = [e \in Enterprises |-> doubled[e] /\ e \in Other(l)]

\* do_error on a valid link and its error(): the entry of its enterprise is
\* removed, whichever link has it; the database is told if the link is legal.
Close(l) ==
    /\ stage' = [stage EXCEPT ![l] = "closed"]
    /\ ent' = [ent EXCEPT ![l] = None]
    /\ registry' = [k \in Keys |-> IF k = ent[l] THEN None ELSE registry[k]]
    /\ shown' = [k \in Keys |-> shown[k] /\ ~(k = ent[l] /\ legal[l])]
    /\ UNCHANGED legal
    /\ doubled' = [e \in Enterprises |-> doubled[e] /\ e \in Other(l)]

Init ==
    /\ stage = [l \in Links |-> "none"]
    /\ ent = [l \in Links |-> None]
    /\ legal = [l \in Links |-> FALSE]
    /\ registry = [k \in Keys |-> None]
    /\ shown = [k \in Keys |-> FALSE]
    /\ side = [l \in Links |-> "none"]
    /\ message = [l \in Links |-> None]
    /\ stuck = [l \in Links |-> FALSE]
    /\ doubled = [e \in Enterprises |-> FALSE]
    /\ crashed = [e \in Enterprises |-> FALSE]

-----------------------------------------------------------------------------
(* The web's requests                                                      *)

\* handleConnectRemote: nothing if the enterprise has an entry, and nothing if
\* the connection is not made.  If the address is not known, the test of the port,
\* which is uninitialized then, may let it through: see Crash.  Otherwise a link is
\* opened, whether or not another is waiting for its proxy's response; if
\* requestAuthrize() gets no memory, it is left without a request.
Connect(e, l) ==
    /\ registry[e] = None /\ stage[l] = "none"
    /\ stage' = [stage EXCEPT ![l] = "open"]
    /\ ent' = [ent EXCEPT ![l] = e]
    /\ side' = [side EXCEPT ![l] = "open"]
    /\ \E sent \in BOOLEAN :
        /\ message' = [message EXCEPT ![l] = IF sent THEN "request1" ELSE None]
        /\ stuck' = [stuck EXCEPT ![l] = ~sent]
    /\ doubled' = [doubled EXCEPT ![e] = @ \/ OpenLinks(e) # {}]
    /\ UNCHANGED <<legal, registry, shown, crashed>>

\* handleDisconnectRemote
Disconnect(e) ==
    /\ registry[e] # None
    /\ stage[registry[e]] = "open"
    /\ Close(registry[e])
    /\ UNCHANGED <<proxy, stuck, crashed>>

-----------------------------------------------------------------------------
(* The proxy                                                               *)

ProxyClose(l) == side' = [side EXCEPT ![l] = "closed"]

\* handleAuthrize1
Authrize1(l) ==
    /\ message[l] = "request1" /\ side[l] = "open" /\ ~stuck[l]
    /\ message' = [message EXCEPT ![l] = "response"]
    /\ UNCHANGED <<center, side, history>>

\* handleAuthrize2, for an echo in time ...
Authrize2(l) ==
    /\ message[l] = "request2" /\ side[l] = "open" /\ ~stuck[l]
    /\ message' = [message EXCEPT ![l] = None]
    /\ side' = [side EXCEPT ![l] = "center"]
    /\ UNCHANGED <<center, history>>

\* ... and for one that took too long: it throws.
Authrize2Late(l) ==
    /\ message[l] = "request2" /\ side[l] = "open" /\ ~stuck[l]
    /\ message' = [message EXCEPT ![l] = None]
    /\ ProxyClose(l)
    /\ UNCHANGED <<center, history>>

\* The proxy reads the end of a link that the center has closed.
ProxyReadsEnd(l) ==
    /\ stage[l] = "closed" /\ side[l] \in {"open", "center"} /\ ~stuck[l]
    /\ ProxyClose(l)
    /\ message' = [message EXCEPT ![l] = None]
    /\ UNCHANGED <<center, history>>

\* The link fails at the proxy: it ends, the network fails, or it has no memory
\* for a stream.  What it has sent may arrive or not.
ProxyFails(l) ==
    /\ side[l] \in {"open", "center"}
    /\ ProxyClose(l)
    /\ message' \in {message, [message EXCEPT ![l] = None]}
    /\ UNCHANGED <<center, history>>

\* The proxy stops handling the link, or the network fails without telling: then
\* the center may not even hear of the link's end, and no heartbeat reveals it.
ProxyHangs(l) ==
    /\ side[l] \in {"open", "center"} \/ (side[l] = "closed" /\ stage[l] = "open")
    /\ ~stuck[l]
    /\ stuck' = [stuck EXCEPT ![l] = TRUE]
    /\ UNCHANGED <<center, proxy, doubled, crashed>>

-----------------------------------------------------------------------------
(* The center                                                              *)

\* handleAuthResponse, for an echo in time: addRemotePorxy replaces an entry
\* without marking the link that has it.  m_valid is not looked at.
AuthResponse(l) ==
    /\ message[l] = "response"
    /\ shown' = [shown EXCEPT ![ent[l]] = TRUE]
    /\ legal' = [legal EXCEPT ![l] = TRUE]
    /\ message' = [message EXCEPT ![l] = "request2"]
    /\ registry' = [registry EXCEPT ![ent[l]] = l]
    /\ crashed' = [e \in Enterprises |-> crashed[e] /\ e # ent[l]]
    /\ UNCHANGED <<stage, ent, side, stuck, doubled>>

\* Mutant: a late echo is logged.
AuthResponseLateMutant(l) ==
    /\ message[l] = "response"
    /\ message' = [message EXCEPT ![l] = None]
    /\ UNCHANGED <<center, side, history>>

\* ... for one that took too long, or with the database failing: it throws.
AuthResponseLate(l) ==
    /\ message[l] = "response"
    /\ message' = [message EXCEPT ![l] = None]
    /\ IF stage[l] = "open" THEN Close(l) ELSE UNCHANGED <<center, doubled>>
    /\ UNCHANGED <<side, stuck, crashed>>

\* The center reads the end of the link, after what the proxy has sent.
ReadsEnd(l) ==
    /\ stage[l] = "open" /\ side[l] = "closed" /\ message[l] # "response"
    /\ Close(l)
    /\ message' = [message EXCEPT ![l] = None]
    /\ UNCHANGED <<side, stuck, crashed>>

\* The link fails at the center: the network or the memory for a stream fails.
Fails(l) ==
    /\ stage[l] = "open"
    /\ Close(l)
    /\ message' = [message EXCEPT ![l] = None]
    /\ UNCHANGED <<side, stuck, crashed>>

\* Both ends are gone.
Forget(l) ==
    /\ stage[l] = "closed" /\ side[l] = "closed"
    /\ message[l] = None
    /\ \A k \in Keys : registry[k] # l
    /\ stage' = [stage EXCEPT ![l] = "none"]
    /\ side' = [side EXCEPT ![l] = "none"]
    /\ legal' = [legal EXCEPT ![l] = FALSE]
    /\ stuck' = [stuck EXCEPT ![l] = FALSE]
    /\ UNCHANGED <<ent, registry, shown, message, doubled, crashed>>

\* The center's process ends and starts again: it is killed, or the database
\* fails in error(), which must not throw, or the web asks for an enterprise that
\* has no address: from_string("") throws what handleConnectRemote must not throw.
\* Nothing is taken back in the database.
Crash ==
    /\ stage' = [l \in Links |-> IF stage[l] = "open" THEN "closed" ELSE stage[l]]
    /\ ent' = [l \in Links |-> None]
    /\ registry' = [k \in Keys |-> None]
    /\ message' = [l \in Links |-> None]
    /\ doubled' = [e \in Enterprises |-> FALSE]
    /\ crashed' = [e \in Enterprises |-> shown[e]]
    /\ UNCHANGED <<legal, shown, side, stuck>>

-----------------------------------------------------------------------------
ProxyHandles(l) == Authrize1(l) \/ Authrize2(l) \/ Authrize2Late(l) \/ ProxyReadsEnd(l)

CenterHandles(l) == AuthResponse(l) \/ AuthResponseLate(l) \/ ReadsEnd(l)

Next ==
    \/ \E l \in Links, e \in Enterprises : Connect(e, l)
    \/ \E e \in Enterprises : Disconnect(e)
    \/ \E l \in Links :
        \/ ProxyHandles(l) \/ ProxyFails(l) \/ ProxyHangs(l)
        \/ CenterHandles(l) \/ Fails(l) \/ Forget(l)
    \/ Crash

\* Both programs handle what arrives; over a link that is stuck nothing need arrive.
Fairness ==
    \A l \in Links : WF_vars(ProxyHandles(l)) /\ WF_vars(~stuck[l] /\ CenterHandles(l))

Spec == Init /\ [][Next]_vars /\ Fairness

-----------------------------------------------------------------------------
(* Properties                                                              *)

\* The shape of the state: a link that is open at the center has the id of its
\* enterprise, and no other has one.
TypeOK ==
    /\ stage \in [Links -> {"none", "open", "closed"}]
    /\ ent \in [Links -> Keys]
    /\ legal \in [Links -> BOOLEAN]
    /\ registry \in [Keys -> Links \cup {None}]
    /\ shown \in [Keys -> BOOLEAN]
    /\ side \in [Links -> {"none", "open", "center", "closed"}]
    /\ message \in [Links -> {None, "request1", "response", "request2"}]
    /\ stuck \in [Links -> BOOLEAN]
    /\ doubled \in [Enterprises -> BOOLEAN]
    /\ crashed \in [Enterprises -> BOOLEAN]
    /\ \A l \in Links : stage[l] = "open" <=> ent[l] # None

\* Whatever links an enterprise has at once, its entry is an open link of that
\* enterprise which has been authenticated: commands never go to a closed link
\* or to another enterprise's proxy.
RegisteredIsLive ==
    \A e \in Enterprises : registry[e] # None =>
        /\ stage[registry[e]] = "open"
        /\ ent[registry[e]] = e
        /\ legal[registry[e]]

\* As long as an enterprise has not had two links at once, every open link that
\* is authenticated has the entry, a proxy counts at most that one among its
\* centers, and the database shows the enterprise linked exactly while it has an
\* entry, but for what a crash of the center has left.
LinkRight ==
    \A e \in Enterprises : ~doubled[e] =>
        /\ \A l \in OpenLinks(e) : legal[l] \/ side[l] = "center" => registry[e] = l
        /\ shown[e] <=> registry[e] # None \/ crashed[e]

\* No link stays open for ever that is not authenticated, or whose proxy is gone,
\* unless its request was not sent, or the proxy hangs, or the network fails without
\* telling: then nothing ends it.
Settles ==
    \A l \in Links :
        []<>(stage[l] = "open" => (legal[l] /\ side[l] # "closed") \/ stuck[l])

=============================================================================
