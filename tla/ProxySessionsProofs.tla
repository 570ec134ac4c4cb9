------------------------- MODULE ProxySessionsProofs -------------------------
(***************************************************************************)
(* Proofs about ProxySessions for any number of connections and gateways.  *)
(*                                                                         *)
(* The races of the two threads cannot be ruled out, so nothing holds of a *)
(* gateway without the condition ~raced; what the proofs rest on is that   *)
(* NoteRaces misses none (RacesNoted).  Where no race was noted, a thread  *)
(* at a gateway is alone there, and the invariant follows the connection   *)
(* that has its id from addTerminalClient to the end of error().           *)
(***************************************************************************)
EXTENDS ProxySessions, TLAPS

-----------------------------------------------------------------------------
(* Helpers                                                                 *)

\* NoteRaces marks whatever RacesNoted speaks of.
LEMMA RacesAreNoted ==
    ASSUME NoteRaces
    PROVE  RacesNoted'
  BY DEF NoteRaces, RacesNoted

\* A center that is told of h knows it.
LEMMA TellOnlineEffect ==
    ASSUME TypeOK, NEW told \in SUBSET Centers, NEW h \in Gateways,
           Tell(told, h, TRUE), NEW k \in told
    PROVE  h \notin untold'[k] /\ h \in view'[k]
  BY NoneAssumption DEF TypeOK, Tell

\* The same for the news that h is offline.
LEMMA TellOfflineEffect ==
    ASSUME TypeOK, NEW told \in SUBSET Centers, NEW h \in Gateways,
           Tell(told, h, FALSE), NEW k \in told
    PROVE  h \notin untold'[k] /\ h \notin view'[k]
  BY NoneAssumption DEF TypeOK, Tell

\* Of the others nothing changes.
LEMMA TellOthers ==
    ASSUME TypeOK, NEW told, NEW h, NEW online, Tell(told, h, online),
           NEW k \in Centers, NEW g, g # h
    PROVE  /\ (g \in view'[k]) <=> (g \in view[k])
           /\ (g \in untold'[k]) <=> (g \in untold[k])
  BY DEF TypeOK, Tell

\* Telling keeps the shape, and a center that is not connected has nothing.
LEMMA TellShape ==
    ASSUME TypeOK, UnlinkedOK, NEW told \in SUBSET linked, NEW h \in Gateways \cup {None},
           NEW online \in BOOLEAN, Tell(told, h, online), linked' = linked
    PROVE  /\ view' \in [Centers -> SUBSET Gateways]
           /\ untold' \in [Centers -> SUBSET Gateways]
           /\ UnlinkedOK'
<1>1. view' \in [Centers -> SUBSET Gateways]
  BY DEF TypeOK, Tell
<1>2. untold' \in [Centers -> SUBSET Gateways]
  BY DEF TypeOK, Tell
<1>3. UnlinkedOK'
  BY DEF TypeOK, UnlinkedOK, Tell
<1> QED
  BY <1>1, <1>2, <1>3

-----------------------------------------------------------------------------
(* The invariant holds at first                                            *)

\* Nothing has happened, and nobody is anywhere.
LEMMA InitInv ==
    ASSUME Init
    PROVE  IInv
<1>1. TypeOK
  BY NoneAssumption DEF Init, TypeOK, Threads
<1>2. ThreadsOK
  BY NoneAssumption DEF Init, ThreadsOK, Threads, Authenticating
<1>3. UnusedOK
  BY NoneAssumption DEF Init, UnusedOK, Threads
<1>4. ReplacedIsClosed
  BY NoneAssumption DEF Init, ReplacedIsClosed, Threads
<1>5. RacesNoted
  BY NoneAssumption DEF Init, RacesNoted, At, Threads
<1>6. AuthOK
  BY NoneAssumption DEF Init, AuthOK, Threads
<1>7. EntryOK
  BY NoneAssumption DEF Init, EntryOK
<1>8. HolderOK
  BY NoneAssumption DEF Init, HolderOK
<1>9. GoneOK
  BY NoneAssumption DEF Init, GoneOK, Threads
<1>10. ToldOK
  BY NoneAssumption DEF Init, ToldOK, GoingOffline, Threads
<1>11. RemovesOwn
  BY NoneAssumption DEF Init, RemovesOwn, Threads
<1>12. OnlineIsRegistered
  BY NoneAssumption DEF Init, OnlineIsRegistered, Threads
<1>13. UnlinkedOK
  BY DEF Init, UnlinkedOK
<1> QED
  BY <1>1, <1>2, <1>3, <1>4, <1>5, <1>6, <1>7, <1>8, <1>9, <1>10, <1>11, <1>12, <1>13 DEF IInv

-----------------------------------------------------------------------------
(* Every step keeps it                                                     *)

\* A new connection has no id and is in no place: nothing is said of it.
LEMMA AcceptKeeps ==
    ASSUME IInv, NEW c \in Conns, Accept(c)
    PROVE  IInv'
<1>1. TypeOK'
  BY DEF IInv, TypeOK, Accept
<1>2. ThreadsOK'
  BY DEF IInv, ThreadsOK, UnusedOK, Accept
<1>3. UnusedOK'
  BY DEF IInv, UnusedOK, TypeOK, Accept
<1>4. ReplacedIsClosed'
  BY DEF IInv, ReplacedIsClosed, UnusedOK, Accept
<1>5. RacesNoted'
  BY DEF IInv, RacesNoted, Accept, At
<1>6. AuthOK'
  BY DEF IInv, AuthOK, Accept
<1>7. EntryOK'
  BY DEF IInv, EntryOK, UnusedOK, Accept
<1>8. HolderOK'
  BY DEF IInv, HolderOK, Accept
<1>9. GoneOK'
  BY DEF IInv, GoneOK, Accept
<1>10. ToldOK'
  BY DEF IInv, ToldOK, GoingOffline, Accept
<1>11. RemovesOwn'
  BY DEF IInv, RemovesOwn, Accept
<1>12. OnlineIsRegistered'
  BY DEF IInv, OnlineIsRegistered, Accept
<1>13. UnlinkedOK'
  BY DEF IInv, UnlinkedOK, Accept
<1> QED
  BY <1>1, <1>2, <1>3, <1>4, <1>5, <1>6, <1>7, <1>8, <1>9, <1>10, <1>11, <1>12, <1>13 DEF IInv

\* The handler begins: what was true of the gateway stays true, or its race is noted.
LEMMA AuthBeginKeeps ==
    ASSUME IInv, NEW c \in Conns, NEW g \in Gateways, AuthBegin(c, g)
    PROVE  IInv'
<1>1. TypeOK'
  BY DEF IInv, TypeOK, AuthBegin, Begin, NoteRaces, Threads
<1>2. ThreadsOK'
  BY NoneAssumption DEF IInv, ThreadsOK, TypeOK, AuthBegin, Begin, Authenticating,
     Threads
<1>3. UnusedOK'
  BY DEF IInv, UnusedOK, AuthBegin, Begin
<1>4. ReplacedIsClosed'
  BY DEF IInv, ReplacedIsClosed, AuthBegin, Begin
<1>5. RacesNoted'
  BY RacesAreNoted DEF AuthBegin
<1>6. AuthOK'
  BY DEF IInv, AuthOK, TypeOK, AuthBegin, Begin
<1>7. EntryOK'
  BY DEF IInv, EntryOK, AuthBegin, Begin, NoteRaces
<1>8. HolderOK'
  BY DEF IInv, HolderOK, AuthBegin, Begin, NoteRaces
<1>9. GoneOK'
  BY DEF IInv, GoneOK, AuthBegin, Begin, NoteRaces
<1>10. ToldOK'
  BY DEF IInv, ToldOK, GoingOffline, AuthBegin, Begin, NoteRaces
<1>11. RemovesOwn'
  BY DEF IInv, RemovesOwn, TypeOK, ThreadsOK, AuthBegin, Begin, NoteRaces
<1>12. OnlineIsRegistered'
  BY DEF IInv, OnlineIsRegistered, AuthBegin, Begin
<1>13. UnlinkedOK'
  BY DEF IInv, UnlinkedOK, AuthBegin
<1> QED
  BY <1>1, <1>2, <1>3, <1>4, <1>5, <1>6, <1>7, <1>8, <1>9, <1>10, <1>11, <1>12, <1>13 DEF IInv

\* The connection gets its id.  No entry is its own yet: an entry of it under
\* another id is of a closed connection (EntryOK), which makes this a race.
LEMMA AuthSetGwidKeeps ==
    ASSUME IInv, AuthSetGwid
    PROVE  IInv'
<1>1. TypeOK'
  BY DEF IInv, TypeOK, ThreadsOK, AuthSetGwid, Goto, NoteRaces, Threads
<1>2. ThreadsOK'
  BY DEF IInv, ThreadsOK, AuthSetGwid, Goto, Authenticating
<1>3. UnusedOK'
  BY DEF IInv, UnusedOK, AuthSetGwid, Goto, Threads
<1>4. ReplacedIsClosed'
  BY DEF IInv, ReplacedIsClosed, AuthSetGwid, Goto
<1>5. RacesNoted'
  BY RacesAreNoted DEF AuthSetGwid
<1>6. AuthOK'
  BY DEF IInv, AuthOK, TypeOK, ThreadsOK, EntryOK, AuthSetGwid, Goto, NoteRaces,
     Authenticating, Threads
<1>7. EntryOK'
  BY NoneAssumption DEF IInv, EntryOK, AuthOK, AuthSetGwid, Goto, NoteRaces
<1>8. HolderOK'
  BY DEF IInv, HolderOK, TypeOK, AuthSetGwid, Goto, NoteRaces, Threads
<1>9. GoneOK'
  BY DEF IInv, GoneOK, AuthSetGwid, Goto, NoteRaces, At, Threads
<1>10. ToldOK'
  BY NoneAssumption DEF IInv, ToldOK, GoingOffline, AuthOK, AuthSetGwid, Goto, NoteRaces
<1>11. RemovesOwn'
  BY DEF IInv, RemovesOwn, TypeOK, ThreadsOK, AuthSetGwid, Goto, NoteRaces
<1>12. OnlineIsRegistered'
  BY DEF IInv, OnlineIsRegistered, AuthSetGwid, Goto
<1>13. UnlinkedOK'
  BY DEF IInv, UnlinkedOK, AuthSetGwid
<1> QED
  BY <1>1, <1>2, <1>3, <1>4, <1>5, <1>6, <1>7, <1>8, <1>9, <1>10, <1>11, <1>12, <1>13 DEF IInv

\* No entry was there, and the connection takes it.
LEMMA AddKeeps ==
    ASSUME IInv, Add
    PROVE  IInv'
<1>1. TypeOK'
  BY DEF IInv, TypeOK, Add, Goto, NoteRaces, Threads
<1>2. ThreadsOK'
  BY DEF IInv, ThreadsOK, Add, Goto, Authenticating
<1>3. UnusedOK'
  BY DEF IInv, UnusedOK, Add, Goto, Threads
<1>4. ReplacedIsClosed'
  BY DEF IInv, ReplacedIsClosed, Add, Goto
<1>5. RacesNoted'
  BY RacesAreNoted DEF Add
<1>6. AuthOK'
  BY DEF IInv, AuthOK, TypeOK, Add, Goto, NoteRaces, Threads
<1>7. EntryOK'
  BY NoneAssumption DEF IInv, EntryOK, TypeOK, ReplacedIsClosed, AuthOK, Add, Goto,
     NoteRaces, Threads
<1>8. HolderOK'
  BY NoneAssumption DEF IInv, HolderOK, Add, Goto, NoteRaces
<1>9. GoneOK'
  BY DEF IInv, GoneOK, Add, Goto, NoteRaces, At, Threads
<1>10. ToldOK'
  BY NoneAssumption DEF IInv, ToldOK, GoingOffline, TypeOK, AuthOK, Add, Goto, NoteRaces, Threads
<1>11. RemovesOwn'
  BY DEF IInv, RemovesOwn, TypeOK, ThreadsOK, Add, Goto, NoteRaces
<1>12. OnlineIsRegistered'
  BY DEF IInv, OnlineIsRegistered, TypeOK, AuthOK, Add, Goto, NoteRaces
<1>13. UnlinkedOK'
  BY DEF IInv, UnlinkedOK, Add
<1> QED
  BY <1>1, <1>2, <1>3, <1>4, <1>5, <1>6, <1>7, <1>8, <1>9, <1>10, <1>11, <1>12, <1>13 DEF IInv

\* The connection that is marked has the entry, so it is none of those that
\* HolderOK and EntryOK speak of, but while the handler is between mark and close.
LEMMA AddReplaceKeeps ==
    ASSUME IInv, AddReplace
    PROVE  IInv'
<1>1. TypeOK'
  BY DEF IInv, TypeOK, AuthOK, AddReplace, Goto, NoteRaces, Threads
<1>2. ThreadsOK'
  BY DEF IInv, ThreadsOK, TypeOK, AddReplace, Goto, Authenticating, Threads
<1>3. UnusedOK'
  BY DEF IInv, UnusedOK, TypeOK, AuthOK, AddReplace, Goto
<1>4. ReplacedIsClosed'
  BY DEF IInv, ReplacedIsClosed, TypeOK, AuthOK, AddReplace, Goto, Threads
<1>5. RacesNoted'
  BY RacesAreNoted DEF AddReplace
<1>6. AuthOK'
  BY DEF IInv, AuthOK, TypeOK, AddReplace, Goto, NoteRaces
<1>7. EntryOK'
  BY DEF IInv, EntryOK, TypeOK, AuthOK, AddReplace, Goto, NoteRaces, Threads
<1>8. HolderOK'
  BY DEF IInv, HolderOK, AddReplace, Goto, NoteRaces
<1>9. GoneOK'
  BY DEF IInv, GoneOK, AddReplace, Goto, NoteRaces
<1>10. ToldOK'
  <2>1. SUFFICES ASSUME NEW k \in linked, NEW g \in Gateways, ~raced'[g], g \notin untold[k],
                        ~(pc["io"] = "online" /\ auth = g)
                 PROVE  GoingOffline(g)' \/ (g \in view[k]) = (registry[g] # None)
    BY DEF IInv, TypeOK, ToldOK, AddReplace, Goto, Threads
  <2>2. ~raced[g]
    BY <2>1 DEF AddReplace, NoteRaces
  <2>3. GoingOffline(g) \/ (g \in view[k]) = (registry[g] # None)
    BY <2>1, <2>2 DEF IInv, ToldOK
  <2>4. ASSUME GoingOffline(g) PROVE GoingOffline(g)'
    <3>1. PICK t \in Threads : /\ pc[t] \in {"invalidate", "error", "remove", "offline"}
                               /\ gwid[cur[t]] = g /\ ~replaced[cur[t]]
      BY <2>4 DEF GoingOffline
    <3>2. t # "io" /\ pc'[t] = pc[t] /\ cur' = cur /\ gwid' = gwid
      BY <3>1 DEF IInv, TypeOK, AddReplace, Goto, Threads
    <3>3. cur[t] # registry[auth]
      <4>1. SUFFICES ASSUME cur[t] = registry[auth] PROVE FALSE
        OBVIOUS
      <4>2. auth # g
        BY <2>1, <3>1, <3>2, <4>1 DEF AddReplace, NoteRaces, At, Goto, Threads, IInv, TypeOK
      <4>3. auth \in Gateways /\ registry[auth] # None
        BY <4>1, <3>1, NoneAssumption
           DEF IInv, AuthOK, ThreadsOK, TypeOK, AddReplace, Threads, Authenticating
      <4> QED
        BY <2>2, <3>1, <4>1, <4>2, <4>3 DEF IInv, EntryOK
    <3>4. ~replaced'[cur[t]]
      BY <3>1, <3>3 DEF IInv, TypeOK, AuthOK, AddReplace, Threads
    <3> QED
      BY <3>1, <3>2, <3>4 DEF GoingOffline
  <2> QED
    BY <2>1, <2>3, <2>4
<1>11. RemovesOwn'
  BY DEF IInv, RemovesOwn, TypeOK, ThreadsOK, AddReplace, Goto, NoteRaces
<1>12. OnlineIsRegistered'
  BY DEF IInv, OnlineIsRegistered, AddReplace, Goto
<1>13. UnlinkedOK'
  BY DEF IInv, UnlinkedOK, AddReplace
<1> QED
  BY <1>1, <1>2, <1>3, <1>4, <1>5, <1>6, <1>7, <1>8, <1>9, <1>10, <1>11, <1>12, <1>13 DEF IInv

\* The marked connection has nothing to take back (ReplacedIsClosed), so only the
\* second branch is taken and the entry changes hands.
LEMMA ReplaceKeeps ==
    ASSUME IInv, Replace
    PROVE  IInv'
<1>1. TypeOK'
  BY DEF IInv, TypeOK, ThreadsOK, ReplacedIsClosed, Replace, Goto, NoteRaces,
     Authenticating, Threads
<1>2. ThreadsOK'
  BY NoneAssumption DEF IInv, ThreadsOK, TypeOK, ReplacedIsClosed, Replace, Goto,
     TakesBack, Authenticating, Threads
<1>3. UnusedOK'
  BY DEF IInv, UnusedOK, TypeOK, Replace, Goto, Threads
<1>4. ReplacedIsClosed'
  BY DEF IInv, ReplacedIsClosed, TypeOK, Replace, Goto, Threads
<1>5. RacesNoted'
  BY RacesAreNoted DEF Replace
<1>6. AuthOK'
  BY DEF IInv, AuthOK, TypeOK, Replace, Goto, NoteRaces, Threads
<1>7. EntryOK'
  BY NoneAssumption DEF IInv, EntryOK, TypeOK, ReplacedIsClosed, AuthOK, Replace,
     Goto, TakesBack, NoteRaces
<1>8. HolderOK'
  BY NoneAssumption DEF IInv, HolderOK, TypeOK, ReplacedIsClosed, AuthOK, Replace,
     Goto, TakesBack, NoteRaces
<1>9. GoneOK'
  BY DEF IInv, GoneOK, TypeOK, Replace, Goto, NoteRaces, At, Threads
<1>10. ToldOK'
  BY DEF IInv, ToldOK, GoingOffline, TypeOK, Replace, Goto, NoteRaces, Threads
<1>11. RemovesOwn'
  BY DEF IInv, RemovesOwn, TypeOK, ThreadsOK, ReplacedIsClosed, Replace, Goto,
     TakesBack, NoteRaces, At, Threads
<1>12. OnlineIsRegistered'
  BY DEF IInv, OnlineIsRegistered, TypeOK, Replace, Goto
<1>13. UnlinkedOK'
  BY DEF IInv, UnlinkedOK, Replace
<1> QED
  BY <1>1, <1>2, <1>3, <1>4, <1>5, <1>6, <1>7, <1>8, <1>9, <1>10, <1>11, <1>12, <1>13 DEF IInv

\* The news that ToldOK waits for is told; the registry has held the connection
\* since Add or Replace (OnlineIsRegistered).
LEMMA TellOnlineKeeps ==
    ASSUME IInv, TellOnline
    PROVE  IInv'
<1>h. PICK h \in Gateways \cup {None} : h = gwid[cur["io"]] /\ Tell(linked, h, TRUE)
  BY DEF IInv, TypeOK, ThreadsOK, TellOnline, Threads
<1>t. /\ view' \in [Centers -> SUBSET Gateways] /\ untold' \in [Centers -> SUBSET Gateways]
      /\ UnlinkedOK'
  BY <1>h, TellShape DEF IInv, TellOnline
<1>1. TypeOK'
  BY <1>t DEF IInv, TypeOK, AuthOK, TellOnline, Done, Begin, NoteRaces, Threads
<1>2. ThreadsOK'
  BY DEF IInv, ThreadsOK, TypeOK, TellOnline, Done, Begin, Authenticating, Threads
<1>3. UnusedOK'
  BY NoneAssumption DEF IInv, UnusedOK, TellOnline, Done, Begin
<1>4. ReplacedIsClosed'
  BY DEF IInv, ReplacedIsClosed, TellOnline, Done, Begin
<1>5. RacesNoted'
  BY RacesAreNoted DEF TellOnline
<1>6. AuthOK'
  BY DEF IInv, AuthOK, TypeOK, TellOnline, Done, Begin, Threads
<1>7. EntryOK'
  BY DEF IInv, EntryOK, TellOnline, Done, Begin, NoteRaces
<1>8. HolderOK'
  BY DEF IInv, HolderOK, TellOnline, Done, Begin, NoteRaces
<1>9. GoneOK'
  BY DEF IInv, GoneOK, TellOnline, Done, Begin, NoteRaces
<1>10. ToldOK'
  <2>1. SUFFICES ASSUME NEW k \in linked, NEW g \in Gateways, ~raced'[g], g \notin untold'[k]
                 PROVE  GoingOffline(g)' \/ (g \in view'[k]) = (registry'[g] # None)
    BY DEF ToldOK, TellOnline
  <2>2. k \in Centers /\ linked \in SUBSET Centers
    BY DEF IInv, TypeOK
  <2>3. ~raced[g] /\ registry' = registry /\ gwid' = gwid /\ replaced' = replaced
    BY <2>1 DEF TellOnline, NoteRaces
  <2>4. CASE g = auth
    <3>1. h = g /\ registry[g] # None
      BY <1>h, <2>3, <2>4, NoneAssumption
         DEF IInv, TypeOK, ThreadsOK, AuthOK, OnlineIsRegistered, TellOnline, Threads
    <3>2. g \in view'[k]
      BY <1>h, <2>2, <3>1, TellOnlineEffect DEF IInv
    <3> QED
      BY <2>3, <3>1, <3>2
  <2>5. CASE g # auth
    <3>1. h # g
      BY <1>h, <2>5, NoneAssumption DEF IInv, AuthOK, TellOnline
    <3>2. /\ (g \in view'[k]) <=> (g \in view[k])
          /\ (g \in untold'[k]) <=> (g \in untold[k])
      BY <1>h, <2>2, <3>1, TellOthers DEF IInv
    <3>3. GoingOffline(g) \/ (g \in view[k]) = (registry[g] # None)
      BY <2>1, <2>3, <2>5, <3>2 DEF IInv, ToldOK
    <3>4. GoingOffline(g) => GoingOffline(g)'
      BY <2>3 DEF IInv, TypeOK, GoingOffline, TellOnline, Done, Begin, Threads
    <3> QED
      BY <2>3, <3>2, <3>3, <3>4
  <2> QED
    BY <2>4, <2>5
<1>11. RemovesOwn'
  BY DEF IInv, RemovesOwn, TypeOK, ThreadsOK, TellOnline, Done, Begin, NoteRaces
<1>12. OnlineIsRegistered'
  BY DEF IInv, OnlineIsRegistered, TellOnline
<1>13. UnlinkedOK'
  BY <1>t
<1> QED
  BY <1>1, <1>2, <1>3, <1>4, <1>5, <1>6, <1>7, <1>8, <1>9, <1>10, <1>11, <1>12, <1>13 DEF IInv

\* The connection goes to do_error, so the news that it is offline is on its way;
\* if it is closed already, that was a race.
LEMMA TellOnlineFailsKeeps ==
    ASSUME IInv, NEW told \in SUBSET Centers, TellOnlineFails(told)
    PROVE  IInv'
<1>h. PICK h \in Gateways \cup {None} : h = gwid[cur["io"]] /\ Tell(told, h, TRUE)
  BY DEF IInv, TypeOK, ThreadsOK, TellOnlineFails, Threads
<1>t. /\ view' \in [Centers -> SUBSET Gateways] /\ untold' \in [Centers -> SUBSET Gateways]
      /\ UnlinkedOK'
  BY <1>h, TellShape DEF IInv, TellOnlineFails
<1>g. Done("io") \/ (Goto("io", "invalidate") /\ valid[cur["io"]])
  BY DEF TellOnlineFails
<1>1. TypeOK'
  BY <1>t, <1>g DEF IInv, TypeOK, AuthOK, TellOnlineFails, Goto, Done, Begin, NoteRaces, Threads
<1>2. ThreadsOK'
  BY <1>g, NoneAssumption
     DEF IInv, ThreadsOK, TypeOK, TellOnlineFails, Goto, Done, Begin, Authenticating, Threads
<1>3. UnusedOK'
  <2>1. CASE Done("io")
    BY <2>1, NoneAssumption DEF IInv, UnusedOK, TellOnlineFails, Done, Begin
  <2>2. CASE Goto("io", "invalidate")
    BY <2>2 DEF IInv, UnusedOK, TellOnlineFails, Goto
  <2> QED
    BY <1>g, <2>1, <2>2
<1>4. ReplacedIsClosed'
  BY <1>g DEF IInv, ReplacedIsClosed, TypeOK, TellOnlineFails, Goto, Done, Begin, Threads
<1>5. RacesNoted'
  BY RacesAreNoted DEF TellOnlineFails
<1>6. AuthOK'
  BY <1>g DEF IInv, AuthOK, TypeOK, TellOnlineFails, Goto, Done, Begin, Threads
<1>7. EntryOK'
  BY <1>g DEF IInv, EntryOK, TypeOK, TellOnlineFails, Goto, Done, Begin, NoteRaces, Threads
<1>8. HolderOK'
  BY <1>g DEF IInv, HolderOK, TypeOK, TellOnlineFails, Goto, Done, Begin, NoteRaces, Threads
<1>9. GoneOK'
  BY <1>g DEF IInv, GoneOK, TypeOK, TellOnlineFails, Goto, Done, Begin, NoteRaces, Threads
<1>10. ToldOK'
  <2>1. SUFFICES ASSUME NEW k \in linked, NEW g \in Gateways, ~raced'[g], g \notin untold'[k]
                 PROVE  GoingOffline(g)' \/ (g \in view'[k]) = (registry'[g] # None)
    BY DEF ToldOK, TellOnlineFails
  <2>2. k \in Centers
    BY DEF IInv, TypeOK
  <2>3. ~raced[g] /\ registry' = registry /\ gwid' = gwid /\ replaced' = replaced
    BY <2>1 DEF TellOnlineFails, NoteRaces
  <2>4. CASE g = auth
    <3>1. gwid[cur["io"]] = g /\ valid[cur["io"]]
      BY <2>3, <2>4 DEF IInv, AuthOK, RacesNoted, TellOnlineFails
    <3>2. registry[g] = cur["io"] /\ ~replaced[cur["io"]]
      BY <2>3, <2>4, <3>1, NoneAssumption
         DEF IInv, TypeOK, ThreadsOK, EntryOK, OnlineIsRegistered, TellOnlineFails, Threads
    <3>3. Goto("io", "invalidate")
      BY <3>1 DEF TellOnlineFails
    <3> QED
      BY <2>3, <3>1, <3>2, <3>3 DEF IInv, TypeOK, GoingOffline, Goto, Threads
  <2>5. CASE g # auth
    <3>1. h # g
      BY <1>h, <2>5, NoneAssumption DEF IInv, AuthOK, TellOnlineFails
    <3>2. /\ (g \in view'[k]) <=> (g \in view[k])
          /\ (g \in untold'[k]) <=> (g \in untold[k])
      BY <1>h, <2>2, <3>1, TellOthers DEF IInv
    <3>3. GoingOffline(g) \/ (g \in view[k]) = (registry[g] # None)
      BY <2>1, <2>3, <2>5, <3>2 DEF IInv, ToldOK
    <3>4. GoingOffline(g) => GoingOffline(g)'
      BY <1>g, <2>3
         DEF IInv, TypeOK, GoingOffline, TellOnlineFails, Goto, Done, Begin, Threads
    <3> QED
      BY <2>3, <3>2, <3>3, <3>4
  <2> QED
    BY <2>4, <2>5
<1>11. RemovesOwn'
  BY <1>g DEF IInv, RemovesOwn, TypeOK, ThreadsOK, TellOnlineFails, Goto, Done, Begin, NoteRaces
<1>12. OnlineIsRegistered'
  BY DEF IInv, OnlineIsRegistered, TellOnlineFails
<1>13. UnlinkedOK'
  BY <1>t
<1> QED
  BY <1>1, <1>2, <1>3, <1>4, <1>5, <1>6, <1>7, <1>8, <1>9, <1>10, <1>11, <1>12, <1>13 DEF IInv

\* A thread begins do_error: it is at the connection, and a race is noted.
LEMMA ErrorBeginKeeps ==
    ASSUME IInv, NEW t \in Threads, NEW c \in Conns, ErrorBegin(t, c)
    PROVE  IInv'
<1>1. TypeOK'
  BY DEF IInv, TypeOK, ErrorBegin, Begin, NoteRaces
<1>2. ThreadsOK'
  BY NoneAssumption DEF IInv, ThreadsOK, TypeOK, ErrorBegin, Begin, Authenticating
<1>3. UnusedOK'
  BY DEF IInv, UnusedOK, ErrorBegin, Begin
<1>4. ReplacedIsClosed'
  BY DEF IInv, ReplacedIsClosed, ErrorBegin, Begin
<1>5. RacesNoted'
  BY RacesAreNoted DEF ErrorBegin
<1>6. AuthOK'
  BY DEF IInv, AuthOK, TypeOK, ThreadsOK, ErrorBegin, Begin, NoteRaces,
     Authenticating
<1>7. EntryOK'
  BY DEF IInv, EntryOK, ErrorBegin, Begin, NoteRaces
<1>8. HolderOK'
  BY DEF IInv, HolderOK, ErrorBegin, Begin, NoteRaces
<1>9. GoneOK'
  BY DEF IInv, GoneOK, ErrorBegin, Begin, NoteRaces
<1>10. ToldOK'
  BY DEF IInv, ToldOK, GoingOffline, ErrorBegin, Begin, NoteRaces
<1>11. RemovesOwn'
  BY DEF IInv, RemovesOwn, TypeOK, ThreadsOK, ErrorBegin, Begin, NoteRaces
<1>12. OnlineIsRegistered'
  BY DEF IInv, OnlineIsRegistered, TypeOK, ErrorBegin, Begin, NoteRaces
<1>13. UnlinkedOK'
  BY DEF IInv, UnlinkedOK, ErrorBegin
<1> QED
  BY <1>1, <1>2, <1>3, <1>4, <1>5, <1>6, <1>7, <1>8, <1>9, <1>10, <1>11, <1>12, <1>13 DEF IInv

\* A closed connection with an entry has the thread that closed it on its way.
LEMMA InvalidateKeeps ==
    ASSUME IInv, NEW t \in Threads, Invalidate(t)
    PROVE  IInv'
<1>1. TypeOK'
  BY DEF IInv, TypeOK, ThreadsOK, Invalidate, Goto, NoteRaces
<1>2. ThreadsOK'
  BY DEF IInv, ThreadsOK, TypeOK, Invalidate, Goto, Authenticating
<1>3. UnusedOK'
  BY DEF IInv, UnusedOK, Invalidate, Goto
<1>4. ReplacedIsClosed'
  BY DEF IInv, ReplacedIsClosed, Invalidate, Goto
<1>5. RacesNoted'
  BY RacesAreNoted DEF Invalidate
<1>6. AuthOK'
  BY DEF IInv, AuthOK, TypeOK, ThreadsOK, Invalidate, Goto, NoteRaces,
     Authenticating
<1>7. EntryOK'
  BY DEF IInv, EntryOK, TypeOK, Invalidate, Goto, NoteRaces
<1>8. HolderOK'
  BY DEF IInv, HolderOK, Invalidate, Goto, NoteRaces
<1>9. GoneOK'
  BY DEF IInv, GoneOK, Invalidate, Goto, NoteRaces
<1>10. ToldOK'
  BY DEF IInv, ToldOK, GoingOffline, Invalidate, Goto, NoteRaces
<1>11. RemovesOwn'
  BY DEF IInv, RemovesOwn, TypeOK, ThreadsOK, Invalidate, Goto, NoteRaces
<1>12. OnlineIsRegistered'
  BY DEF IInv, OnlineIsRegistered, TypeOK, Invalidate, Goto, NoteRaces
<1>13. UnlinkedOK'
  BY DEF IInv, UnlinkedOK, Invalidate
<1> QED
  BY <1>1, <1>2, <1>3, <1>4, <1>5, <1>6, <1>7, <1>8, <1>9, <1>10, <1>11, <1>12, <1>13 DEF IInv

\* A connection that was not replaced and has an id has the entry (HolderOK), or
\* is being authenticated, which is a race; so RemovesOwn holds at once.
LEMMA ErrorKeeps ==
    ASSUME IInv, NEW t \in Threads, Error(t)
    PROVE  IInv'
<1>1. TypeOK'
  BY DEF IInv, TypeOK, Error, Goto, Done, Begin, NoteRaces
<1>2. ThreadsOK'
  BY DEF IInv, ThreadsOK, TypeOK, Error, Goto, Done, Begin, Authenticating, Threads
<1>3. UnusedOK'
  BY NoneAssumption DEF IInv, UnusedOK, TypeOK, Error, Goto, Done, Begin
<1>4. ReplacedIsClosed'
  BY DEF IInv, ReplacedIsClosed, TypeOK, Error, Goto, Done, Begin, Threads
<1>5. RacesNoted'
  BY RacesAreNoted DEF Error
<1>6. AuthOK'
  BY DEF IInv, AuthOK, TypeOK, ThreadsOK, Error, Goto, Done, Begin, NoteRaces,
     Authenticating, Threads
<1>7. EntryOK'
  BY NoneAssumption DEF IInv, EntryOK, TypeOK, RacesNoted, Error, Goto, Done, Begin,
     TakesBack, NoteRaces, At, Threads
<1>8. HolderOK'
  BY DEF IInv, HolderOK, TypeOK, Error, Goto, Done, Begin, NoteRaces, Threads
<1>9. GoneOK'
  BY DEF IInv, GoneOK, TypeOK, Error, Goto, Done, Begin, NoteRaces
<1>10. ToldOK'
  <2>1. SUFFICES ASSUME NEW k \in linked, NEW g \in Gateways, ~raced'[g], g \notin untold[k],
                        ~(pc["io"] = "online" /\ auth = g)
                 PROVE  GoingOffline(g)' \/ (g \in view[k]) = (registry'[g] # None)
    BY DEF IInv, TypeOK, ToldOK, Error, Goto, Done, Begin, Threads
  <2>2. ~raced[g]
    BY <2>1 DEF Error, NoteRaces
  <2>3. GoingOffline(g) \/ (g \in view[k]) = (registry[g] # None)
    BY <2>1, <2>2 DEF IInv, ToldOK
  <2>4. ASSUME GoingOffline(g) PROVE GoingOffline(g)'
    <3>1. PICK u \in Threads : /\ pc[u] \in {"invalidate", "error", "remove", "offline"}
                               /\ gwid[cur[u]] = g /\ ~replaced[cur[u]]
      BY <2>4 DEF GoingOffline
    <3>2. u = t => TakesBack(cur[t])
      BY <3>1, NoneAssumption DEF TakesBack
    <3>3. /\ pc'[u] \in {"invalidate", "error", "remove", "offline"} /\ cur'[u] = cur[u]
          /\ gwid' = gwid /\ replaced' = replaced
      BY <3>1, <3>2 DEF IInv, TypeOK, Error, Goto, Done, Begin
    <3> QED
      BY <3>1, <3>3 DEF GoingOffline
  <2> QED
    BY <2>3, <2>4 DEF Error
<1>11. RemovesOwn'
  BY DEF IInv, RemovesOwn, TypeOK, ThreadsOK, HolderOK, Error, Goto, Done, Begin,
     TakesBack, NoteRaces, At, Threads
<1>12. OnlineIsRegistered'
  BY DEF IInv, OnlineIsRegistered, TypeOK, Error, Goto, Done, Begin, NoteRaces,
     Threads
<1>13. UnlinkedOK'
  BY DEF IInv, UnlinkedOK, Error
<1> QED
  BY <1>1, <1>2, <1>3, <1>4, <1>5, <1>6, <1>7, <1>8, <1>9, <1>10, <1>11, <1>12, <1>13 DEF IInv

\* The entry that goes is the own one (RemovesOwn), so HolderOK loses nothing.
LEMMA RemoveKeeps ==
    ASSUME IInv, NEW t \in Threads, Remove(t)
    PROVE  IInv'
<1>1. TypeOK'
  BY DEF IInv, TypeOK, Remove, Goto, NoteRaces
<1>2. ThreadsOK'
  BY DEF IInv, ThreadsOK, Remove, Goto, Authenticating
<1>3. UnusedOK'
  BY NoneAssumption DEF IInv, UnusedOK, Remove, Goto
<1>4. ReplacedIsClosed'
  BY NoneAssumption DEF IInv, ReplacedIsClosed, ThreadsOK, Remove, Goto
<1>5. RacesNoted'
  BY RacesAreNoted DEF Remove
<1>6. AuthOK'
  BY DEF IInv, AuthOK, TypeOK, ThreadsOK, Remove, Goto, NoteRaces, Authenticating,
     Threads
<1>7. EntryOK'
  BY DEF IInv, EntryOK, Remove, Goto, NoteRaces
<1>8. HolderOK'
  BY NoneAssumption DEF IInv, HolderOK, TypeOK, RemovesOwn, Remove, Goto, NoteRaces
<1>9. GoneOK'
  BY DEF IInv, GoneOK, Remove, Goto, NoteRaces
<1>10. ToldOK'
  <2>1. SUFFICES ASSUME NEW k \in linked, NEW g \in Gateways, ~raced'[g], g \notin untold[k],
                        ~(pc["io"] = "online" /\ auth = g)
                 PROVE  GoingOffline(g)' \/ (g \in view[k]) = (registry'[g] # None)
    BY DEF IInv, TypeOK, ToldOK, Remove, Goto, Done, Begin, Threads
  <2>2. ~raced[g]
    BY <2>1 DEF Remove, NoteRaces
  <2>3. GoingOffline(g) \/ (g \in view[k]) = (registry[g] # None)
    BY <2>1, <2>2 DEF IInv, ToldOK
  <2>4. GoingOffline(g) => GoingOffline(g)'
    BY DEF IInv, TypeOK, GoingOffline, Remove, Goto
  <2>5. registry'[g] # registry[g] => GoingOffline(g)'
    <3>1. SUFFICES ASSUME registry'[g] # registry[g] PROVE GoingOffline(g)'
      OBVIOUS
    <3>2. gwid[cur[t]] = g
      BY <3>1 DEF IInv, TypeOK, Remove
    <3>3. registry[g] = cur[t]
      BY <2>2, <3>2, NoneAssumption DEF IInv, RemovesOwn, Remove
    <3>4. ~replaced[cur[t]]
      BY <2>2, <3>3, NoneAssumption, <2>1, <3>2
         DEF IInv, TypeOK, ThreadsOK, EntryOK, RacesNoted, At, Remove, Authenticating, Threads
    <3> QED
      BY <3>2, <3>4 DEF IInv, TypeOK, GoingOffline, Remove, Goto
  <2> QED
    BY <2>3, <2>4, <2>5
<1>11. RemovesOwn'
  BY DEF IInv, RemovesOwn, TypeOK, ThreadsOK, Remove, Goto, NoteRaces, At, Threads
<1>12. OnlineIsRegistered'
  BY DEF IInv, OnlineIsRegistered, TypeOK, Remove, Goto, NoteRaces, At, Threads
<1>13. UnlinkedOK'
  BY DEF IInv, UnlinkedOK, Remove
<1> QED
  BY <1>1, <1>2, <1>3, <1>4, <1>5, <1>6, <1>7, <1>8, <1>9, <1>10, <1>11, <1>12, <1>13 DEF IInv

\* As for TellOnline; there is no entry since Remove (GoneOK).
LEMMA TellOfflineKeeps ==
    ASSUME IInv, NEW t \in Threads, TellOffline(t)
    PROVE  IInv'
<1>h. PICK h \in Gateways \cup {None} : h = gwid[cur[t]] /\ Tell(linked, h, FALSE)
  BY DEF IInv, TypeOK, ThreadsOK, TellOffline, Threads
<1>t. /\ view' \in [Centers -> SUBSET Gateways] /\ untold' \in [Centers -> SUBSET Gateways]
      /\ UnlinkedOK'
  BY <1>h, TellShape DEF IInv, TellOffline
<1>1. TypeOK'
  BY <1>t DEF IInv, TypeOK, ThreadsOK, TellOffline, Goto, NoteRaces
<1>2. ThreadsOK'
  BY DEF IInv, ThreadsOK, TellOffline, Goto, Authenticating
<1>3. UnusedOK'
  BY DEF IInv, UnusedOK, TellOffline, Goto
<1>4. ReplacedIsClosed'
  BY DEF IInv, ReplacedIsClosed, TellOffline, Goto
<1>5. RacesNoted'
  BY RacesAreNoted DEF TellOffline
<1>6. AuthOK'
  BY DEF IInv, AuthOK, TypeOK, ThreadsOK, TellOffline, Goto, NoteRaces,
     Authenticating
<1>7. EntryOK'
  BY DEF IInv, EntryOK, TellOffline, Goto, NoteRaces
<1>8. HolderOK'
  BY DEF IInv, HolderOK, TellOffline, Goto, NoteRaces
<1>9. GoneOK'
  BY DEF IInv, GoneOK, TellOffline, Goto, NoteRaces
<1>10. ToldOK'
  <2>1. SUFFICES ASSUME NEW k \in linked, NEW g \in Gateways, ~raced'[g], g \notin untold'[k],
                        ~(pc'["io"] = "online" /\ auth' = g)
                 PROVE  GoingOffline(g)' \/ (g \in view'[k]) = (registry'[g] # None)
    BY DEF ToldOK, TellOffline
  <2>2. k \in Centers /\ linked \in SUBSET Centers
    BY DEF IInv, TypeOK
  <2>3. /\ ~raced[g] /\ registry' = registry /\ gwid' = gwid /\ cur' = cur
        /\ replaced' = replaced
    BY <2>1 DEF TellOffline, NoteRaces, Goto
  <2>4. CASE h = g
    <3>1. registry[g] = None
      BY <1>h, <2>3, <2>4 DEF IInv, GoneOK, TellOffline
    <3>2. g \notin view'[k]
      BY <1>h, <2>2, <2>4, TellOfflineEffect DEF IInv
    <3> QED
      BY <2>3, <3>1, <3>2
  <2>5. CASE h # g
    <3>1. /\ (g \in view'[k]) <=> (g \in view[k])
          /\ (g \in untold'[k]) <=> (g \in untold[k])
      BY <1>h, <2>2, <2>5, TellOthers DEF IInv
    <3>2. ~(pc["io"] = "online" /\ auth = g)
      BY <2>1 DEF IInv, TypeOK, TellOffline, Goto, Threads
    <3>3. GoingOffline(g) \/ (g \in view[k]) = (registry[g] # None)
      BY <2>1, <2>3, <3>1, <3>2 DEF IInv, ToldOK
    <3>4. GoingOffline(g) => GoingOffline(g)'
      BY <1>h, <2>3, <2>5 DEF IInv, TypeOK, GoingOffline, TellOffline, Goto, Threads
    <3> QED
      BY <2>3, <3>1, <3>3, <3>4
  <2> QED
    BY <2>4, <2>5
<1>11. RemovesOwn'
  BY DEF IInv, RemovesOwn, TypeOK, ThreadsOK, TellOffline, Goto, NoteRaces
<1>12. OnlineIsRegistered'
  BY DEF IInv, OnlineIsRegistered, TypeOK, TellOffline, Goto, NoteRaces
<1>13. UnlinkedOK'
  BY <1>t
<1> QED
  BY <1>1, <1>2, <1>3, <1>4, <1>5, <1>6, <1>7, <1>8, <1>9, <1>10, <1>11, <1>12, <1>13 DEF IInv

\* No entry names the connection (GoneOK), so no entry loses its id.
LEMMA ClearKeeps ==
    ASSUME IInv, NEW t \in Threads, Clear(t)
    PROVE  IInv'
<1>1. TypeOK'
  BY DEF IInv, TypeOK, ThreadsOK, Clear, Done, Begin, NoteRaces
<1>2. ThreadsOK'
  BY DEF IInv, ThreadsOK, TypeOK, Clear, Done, Begin, Authenticating
<1>3. UnusedOK'
  BY NoneAssumption DEF IInv, UnusedOK, Clear, Done, Begin
<1>4. ReplacedIsClosed'
  BY DEF IInv, ReplacedIsClosed, Clear, Done, Begin
<1>5. RacesNoted'
  BY RacesAreNoted DEF Clear
<1>6. AuthOK'
  BY DEF IInv, AuthOK, TypeOK, ThreadsOK, Clear, Done, Begin, NoteRaces,
     Authenticating
<1>7. EntryOK'
  BY NoneAssumption DEF IInv, EntryOK, ThreadsOK, GoneOK, Clear, Done, Begin,
     NoteRaces
<1>8. HolderOK'
  BY NoneAssumption DEF IInv, HolderOK, TypeOK, Clear, Done, Begin, NoteRaces
<1>9. GoneOK'
  BY NoneAssumption DEF IInv, GoneOK, TypeOK, Clear, Done, Begin, NoteRaces
<1>10. ToldOK'
  BY DEF IInv, ToldOK, GoingOffline, RacesNoted, Clear, Done, Begin, NoteRaces, At, Threads
<1>11. RemovesOwn'
  BY DEF IInv, RemovesOwn, TypeOK, ThreadsOK, Clear, Done, Begin, NoteRaces
<1>12. OnlineIsRegistered'
  BY DEF IInv, OnlineIsRegistered, TypeOK, Clear, Done, Begin, NoteRaces
<1>13. UnlinkedOK'
  BY DEF IInv, UnlinkedOK, Clear
<1> QED
  BY <1>1, <1>2, <1>3, <1>4, <1>5, <1>6, <1>7, <1>8, <1>9, <1>10, <1>11, <1>12, <1>13 DEF IInv

\* Nobody refers to the connection.
LEMMA DestroyKeeps ==
    ASSUME IInv, NEW c \in Conns, Destroy(c)
    PROVE  IInv'
<1>1. TypeOK'
  BY DEF IInv, TypeOK, Destroy
<1>2. ThreadsOK'
  BY DEF IInv, ThreadsOK, Destroy
<1>3. UnusedOK'
  BY NoneAssumption DEF IInv, UnusedOK, TypeOK, ThreadsOK, Destroy
<1>4. ReplacedIsClosed'
  BY DEF IInv, ReplacedIsClosed, TypeOK, ThreadsOK, Destroy, Authenticating
<1>5. RacesNoted'
  BY DEF IInv, RacesNoted, Destroy, At, Threads
<1>6. AuthOK'
  BY DEF IInv, AuthOK, Destroy, Threads
<1>7. EntryOK'
  BY DEF IInv, EntryOK, Destroy
<1>8. HolderOK'
  BY NoneAssumption DEF IInv, HolderOK, TypeOK, Destroy
<1>9. GoneOK'
  BY DEF IInv, GoneOK, Destroy
<1>10. ToldOK'
  BY DEF IInv, ToldOK, GoingOffline, Destroy
<1>11. RemovesOwn'
  BY DEF IInv, RemovesOwn, Destroy
<1>12. OnlineIsRegistered'
  BY DEF IInv, OnlineIsRegistered, Destroy
<1>13. UnlinkedOK'
  BY DEF IInv, UnlinkedOK, Destroy
<1> QED
  BY <1>1, <1>2, <1>3, <1>4, <1>5, <1>6, <1>7, <1>8, <1>9, <1>10, <1>11, <1>12, <1>13 DEF IInv

\* What was online before is untold to the new center, and of the rest it rightly
\* knows nothing (UnlinkedOK).
LEMMA CenterAuthKeeps ==
    ASSUME IInv, NEW k \in Centers, CenterAuth(k)
    PROVE  IInv'
<1>1. TypeOK'
  BY DEF IInv, TypeOK, CenterAuth
<1>2. ThreadsOK'
  BY DEF IInv, ThreadsOK, CenterAuth
<1>3. UnusedOK'
  BY DEF IInv, UnusedOK, CenterAuth
<1>4. ReplacedIsClosed'
  BY DEF IInv, ReplacedIsClosed, CenterAuth
<1>5. RacesNoted'
  BY DEF IInv, RacesNoted, CenterAuth, At
<1>6. AuthOK'
  BY DEF IInv, AuthOK, CenterAuth
<1>7. EntryOK'
  BY DEF IInv, EntryOK, CenterAuth
<1>8. HolderOK'
  BY DEF IInv, HolderOK, CenterAuth
<1>9. GoneOK'
  BY DEF IInv, GoneOK, CenterAuth
<1>10. ToldOK'
  BY DEF IInv, ToldOK, UnlinkedOK, TypeOK, GoingOffline, CenterAuth
<1>11. RemovesOwn'
  BY DEF IInv, RemovesOwn, CenterAuth
<1>12. OnlineIsRegistered'
  BY DEF IInv, OnlineIsRegistered, CenterAuth
<1>13. UnlinkedOK'
  BY DEF IInv, UnlinkedOK, TypeOK, CenterAuth
<1> QED
  BY <1>1, <1>2, <1>3, <1>4, <1>5, <1>6, <1>7, <1>8, <1>9, <1>10, <1>11, <1>12, <1>13 DEF IInv

\* The other centers know what they knew.
LEMMA CenterFailsKeeps ==
    ASSUME IInv, NEW k \in Centers, CenterFails(k)
    PROVE  IInv'
<1>1. TypeOK'
  BY DEF IInv, TypeOK, CenterFails
<1>2. ThreadsOK'
  BY DEF IInv, ThreadsOK, CenterFails
<1>3. UnusedOK'
  BY DEF IInv, UnusedOK, CenterFails
<1>4. ReplacedIsClosed'
  BY DEF IInv, ReplacedIsClosed, CenterFails
<1>5. RacesNoted'
  BY DEF IInv, RacesNoted, CenterFails, At
<1>6. AuthOK'
  BY DEF IInv, AuthOK, CenterFails
<1>7. EntryOK'
  BY DEF IInv, EntryOK, CenterFails
<1>8. HolderOK'
  BY DEF IInv, HolderOK, CenterFails
<1>9. GoneOK'
  BY DEF IInv, GoneOK, CenterFails
<1>10. ToldOK'
  BY DEF IInv, ToldOK, TypeOK, GoingOffline, CenterFails
<1>11. RemovesOwn'
  BY DEF IInv, RemovesOwn, CenterFails
<1>12. OnlineIsRegistered'
  BY DEF IInv, OnlineIsRegistered, CenterFails
<1>13. UnlinkedOK'
  BY DEF IInv, UnlinkedOK, TypeOK, CenterFails
<1> QED
  BY <1>1, <1>2, <1>3, <1>4, <1>5, <1>6, <1>7, <1>8, <1>9, <1>10, <1>11, <1>12, <1>13 DEF IInv

\* No step at all keeps it too.
LEMMA StutterKeeps ==
    ASSUME IInv, UNCHANGED vars
    PROVE  IInv'
<1>1. /\ TypeOK' /\ ThreadsOK' /\ UnusedOK' /\ ReplacedIsClosed'
      /\ AuthOK' /\ EntryOK' /\ HolderOK' /\ GoneOK' /\ ToldOK'
      /\ RemovesOwn' /\ OnlineIsRegistered' /\ UnlinkedOK'
  BY DEF vars, IInv, TypeOK, ThreadsOK, UnusedOK, ReplacedIsClosed, AuthOK, EntryOK,
     HolderOK, GoneOK, ToldOK, GoingOffline, RemovesOwn, OnlineIsRegistered, UnlinkedOK
<1>2. RacesNoted'
  BY DEF vars, IInv, RacesNoted, At
<1> QED
  BY <1>1, <1>2 DEF IInv

\* One case for each action of Next.
LEMMA StepKeeps ==
    ASSUME IInv, [Next]_vars
    PROVE  IInv'
<1>1. ASSUME AuthStep PROVE IInv'
  BY <1>1, AuthSetGwidKeeps, AddKeeps, AddReplaceKeeps, ReplaceKeeps, TellOnlineKeeps,
     TellOnlineFailsKeeps DEF AuthStep
<1>2. ASSUME NEW t \in Threads, ErrorStep(t) PROVE IInv'
  BY <1>2, InvalidateKeeps, ErrorKeeps, RemoveKeeps, TellOfflineKeeps, ClearKeeps
     DEF ErrorStep
<1>3. ASSUME NEW c \in Conns, Accept(c) \/ Destroy(c) PROVE IInv'
  BY <1>3, AcceptKeeps, DestroyKeeps
<1>4. ASSUME NEW c \in Conns, NEW g \in Gateways, AuthBegin(c, g) PROVE IInv'
  BY <1>4, AuthBeginKeeps
<1>5. ASSUME NEW t \in Threads, NEW c \in Conns, ErrorBegin(t, c) PROVE IInv'
  BY <1>5, ErrorBeginKeeps
<1>6. ASSUME NEW k \in Centers, CenterAuth(k) \/ CenterFails(k) PROVE IInv'
  BY <1>6, CenterAuthKeeps, CenterFailsKeeps
<1>7. ASSUME UNCHANGED vars PROVE IInv'
  BY <1>7, StutterKeeps
<1> QED
  BY <1>1, <1>2, <1>3, <1>4, <1>5, <1>6, <1>7 DEF Next

-----------------------------------------------------------------------------
(* What follows from it                                                    *)

\* A valid connection with the id has the entry, since nobody is on the way to
\* or from it, and an entry is of such a connection.
LEMMA InvRegistry ==
    ASSUME IInv
    PROVE  RegistryRight
<1>1. SUFFICES ASSUME NEW g \in Gateways, Quiet(g), ~raced[g]
               PROVE  Serving(g) = IF registry[g] = None THEN {} ELSE {registry[g]}
  BY DEF RegistryRight
<1>2. ASSUME NEW c \in Conns, valid[c], gwid[c] = g, registry[g] # c
      PROVE  FALSE
  <2>1. ~replaced[c]
    BY <1>1, <1>2, NoneAssumption
       DEF IInv, TypeOK, ThreadsOK, ReplacedIsClosed, EntryOK, Quiet, At, Threads,
           Authenticating
  <2> QED
    BY <1>1, <1>2, <2>1 DEF IInv, ThreadsOK, HolderOK, Quiet, At, Threads
<1>3. registry[g] # None
         => registry[g] \in Conns /\ valid[registry[g]] /\ gwid[registry[g]] = g
  BY <1>1, NoneAssumption DEF IInv, TypeOK, EntryOK, Quiet, At, Threads
<1> QED
  BY <1>2, <1>3, NoneAssumption DEF Serving

\* Nobody is at the gateway, so no news of it is on its way (ToldOK).
LEMMA InvView ==
    ASSUME IInv
    PROVE  ViewRight
  BY NoneAssumption DEF IInv, TypeOK, ThreadsOK, ToldOK, GoingOffline, ViewRight, Quiet, At,
                         Threads

\* The inductive invariant is one.
THEOREM Invariance == Spec => []IInv
<1>1. Init => IInv
  BY InitInv
<1>2. IInv /\ [Next]_vars => IInv'
  BY StepKeeps
<1> QED
  BY <1>1, <1>2, PTL DEF Spec

\* Every variable keeps its shape.
THEOREM TypeCorrect == Spec => []TypeOK
<1>1. IInv => TypeOK
  BY DEF IInv
<1> QED
  BY <1>1, Invariance, PTL

\* At a gateway where nothing is going on and no race was noted, the registry
\* holds the one connection that serves it (addTerminalClient, replaced, error).
THEOREM RegistryIsRight == Spec => []RegistryRight
<1>1. IInv => RegistryRight
  BY InvRegistry
<1> QED
  BY <1>1, Invariance, PTL

\* ... and every connected center knows whether there is one, but for gateways
\* that were online when it came (onoffLineToIcsCenter, handleAuthrize2).
THEOREM CenterKnows == Spec => []ViewRight
<1>1. IInv => ViewRight
  BY InvView
<1> QED
  BY <1>1, Invariance, PTL

\* The entry that error() removes is that of the connection in error
\* (removeTerminalClient looks only at the id), unless a race was noted.
THEOREM OwnEntryRemoved == Spec => []RemovesOwn
<1>1. IInv => RemovesOwn
  BY DEF IInv
<1> QED
  BY <1>1, Invariance, PTL

\* An entry is of the gateway's own connection or of a closed one, after every
\* race (findTerminalClient, addTerminalClient, error).
THEOREM EntriesAreOwn == Spec => []EntryIsOwn
<1>1. IInv => EntryIsOwn
  BY DEF IInv, EntryOK, EntryIsOwn
<1> QED
  BY <1>1, Invariance, PTL

\* addTerminalClient, which closes a connection under the registry's lock,
\* never comes to removeTerminalClient, which would wait for that lock.
THEOREM NeverWaitsForItself == Spec => []NoSelfLock
<1>1. IInv => NoSelfLock
  BY DEF IInv, ThreadsOK, NoSelfLock
<1> QED
  BY <1>1, Invariance, PTL

=============================================================================
