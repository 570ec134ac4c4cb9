----------------------- MODULE CenterTerminalsProofs -----------------------
(***************************************************************************)
(* Proofs about CenterTerminals, for any number of connections and         *)
(* gateways, crashes and failures of the database.                         *)
(*                                                                         *)
(* The properties speak of gateways where nothing is going on.  The        *)
(* invariant IInv says for each gateway what holds in between: who is      *)
(* about to take back which entry (Going, Entry), which connection is      *)
(* about to get it (Holder), and that a gateway that is shown online has   *)
(* a connection that counts or a thread on its way to sp_offline           *)
(* (ShownHas).  It promises nothing to a gateway where the threads met;    *)
(* that every meeting is noted is part of it (MeetingsNoted).              *)
(***************************************************************************)
EXTENDS CenterTerminals, TLAPS

\* Where a thread is in do_error once m_valid is cleared.
Closing == {"error", "remove", "offline", "clear"}

\* What holds whatever the threads do to each other.
Objects ==
    /\ \A c \in Conns : ~used[c] => ~valid[c] /\ ~replaced[c] /\ gwid[c] = None
    /\ \A t \in Threads : cur[t] # None => used[cur[t]]
    /\ \A k \in Keys : registry[k] # None => used[registry[k]]
    /\ \A c \in Conns : replaced[c] => ~valid[c]
    /\ \A t \in Threads : pc[t] \in Closing => ~valid[cur[t]]

\* The id that io is about to store, or has stored; a valid connection in the
\* registry has its entry under its own id.
Ids ==
    /\ pc["io"] = "setGwid" => gwid[cur["io"]] = None
    /\ pc["io"] \in {"authorize", "online", "add"} =>
        gwid[cur["io"]] = auth \/ (gwid[cur["io"]] = None /\ ~valid[cur["io"]])
    /\ auth # None /\ valid[cur["io"]] => \A k \in Keys : registry[k] # cur["io"]
    /\ \A k \in Keys : registry[k] # None /\ valid[registry[k]] =>
        k # None /\ gwid[registry[k]] = k

\* Whoever meets is noted.
MeetingsNoted == \A g \in Gateways : Meeting(g) => "raced" \in why[g]

\* What holds of gateway g while no meeting was noted.
OneThread(g) ==
    /\ \A t \in Threads : pc[t] = "invalidate" /\ gwid[cur[t]] = g => valid[cur[t]]
    /\ \A k \in Keys : registry[k] # None /\ gwid[registry[k]] = g => k = g

\* c serves g, and its authentication has come as far as sp_online.
Counts(c, g) ==
    /\ valid[c] /\ gwid[c] = g
    /\ ~(pc["io"] \in {"authorize", "online"} /\ cur["io"] = c)

\* t is on its way to sp_offline for g.
Leaving(t, g) ==
    /\ pc[t] \in {"error", "remove", "offline"}
    /\ gwid[cur[t]] = g
    /\ pc[t] = "error" => ~replaced[cur[t]]

\* Shown online is who is there, or about to be shown offline.
ShownHas(g) ==
    online[g] /\ why[g] \cap {"missed", "crash"} = {} =>
        (\E c \in Conns : Counts(c, g)) \/ (\E t \in Threads : Leaving(t, g))

\* A valid connection has the entry, or is being authenticated.
Holder(g) ==
    \A c \in Conns : valid[c] /\ gwid[c] = g =>
        registry[g] = c \/ (auth = g /\ cur["io"] = c)

\* The entry is a valid connection, or one that a thread is about to remove.
Entry(g) ==
    registry[g] # None =>
        /\ gwid[registry[g]] = g /\ ~replaced[registry[g]]
        /\ \/ valid[registry[g]]
           \/ \E t \in Threads : cur[t] = registry[g] /\ pc[t] \in {"error", "remove"}

\* A thread removes the entry of its own connection, and nobody takes it between.
Going(g) == \A t \in Threads :
    /\ pc[t] \in {"error", "remove"} /\ gwid[cur[t]] = g => registry[g] = cur[t]
    /\ pc[t] \in {"offline", "clear"} /\ gwid[cur[t]] = g => registry[g] = None

\* Who has the entry, or is about to get it, is shown online.
EntryShown(g) ==
    "late" \notin why[g] /\ (registry[g] # None \/ (pc["io"] = "add" /\ auth = g)) => online[g]

\* What holds of g, with what it takes.
GInv(g) ==
    "raced" \notin why[g] =>
        /\ OneThread(g)
        /\ ShownHas(g)
        /\ "failed" \notin why[g] => Holder(g) /\ Entry(g) /\ Going(g) /\ EntryShown(g)

IInv == TypeOK /\ Objects /\ Ids /\ MeetingsNoted /\ \A g \in Gateways : GInv(g)

USE NoneAssumption

\* A step notes the meetings it leads to, and removes no note of one.
LEMMA NoteKeeps ==
    ASSUME TypeOK, NEW k, NEW gone, NEW new, Note(k, gone, new), gone \cap {"raced", "failed"} = {}
    PROVE  \A h \in Gateways :
               /\ Meeting(h)' => "raced" \in why'[h]
               /\ why[h] \cap {"raced", "failed"} \subseteq why'[h]
  BY DEF Note

\* Nobody is anywhere at first.
LEMMA InitIInv == Init => IInv
  BY DEF Init, IInv, TypeOK, Objects, Ids, MeetingsNoted, Meeting, At, GInv, OneThread,
     ShownHas, Holder, Entry, Going, EntryShown, Threads, Keys, Labels, Closing

\* A process that ends leaves nothing but the database.
LEMMA ProcessEnds ==
    ASSUME IInv, EndProcess, address' = None, byMonitor' = byMonitor,
           online' \in [Gateways -> BOOLEAN],
           \/ online' = [g \in Gateways |-> FALSE] /\ why' = [g \in Gateways |-> {}]
           \/ online' = online /\ why' = [g \in Gateways |-> IF online[g] THEN {"crash"} ELSE {}]
    PROVE  IInv'
<1>1. TypeOK'
  BY DEF IInv, TypeOK, EndProcess, Threads, Keys, Labels, Reasons
<1>2. Objects' /\ Ids' /\ MeetingsNoted'
  BY DEF Objects, Ids, MeetingsNoted, Meeting, At, EndProcess, Threads, Closing
<1>3. ASSUME NEW g \in Gateways PROVE GInv(g)'
  <2>1. OneThread(g)' /\ Holder(g)' /\ Entry(g)' /\ Going(g)' /\ EntryShown(g)'
    BY DEF OneThread, Holder, Entry, Going, EntryShown, EndProcess, Keys
  <2>2. online'[g] => "crash" \in why'[g]
    OBVIOUS
  <2>3. ShownHas(g)'
    BY DEF ShownHas
  <2> QED
    BY <2>1, <2>3 DEF GInv
<1> QED
  BY <1>1, <1>2, <1>3 DEF IInv

\* The address is the only thing that a start changes in memory.
LEMMA StartKeeps ==
    ASSUME IInv, Start
    PROVE  IInv'
<1>1. TypeOK'
  BY DEF IInv, TypeOK, Start, Cleared, memory
<1>2. Objects'
  BY DEF IInv, Objects, Start, memory
<1>3. Ids'
  BY DEF IInv, Ids, Start, memory
<1>4. \A h \in Gateways :
        /\ Meeting(h)' => "raced" \in why'[h]
        /\ why[h] \cap {"raced", "failed"} \subseteq why'[h]
  <2>1. why' = why /\ \A h \in Gateways : Meeting(h)' => Meeting(h)
    BY DEF Meeting, At, Start, memory
  <2> QED
    BY <2>1 DEF IInv, MeetingsNoted
<1>5. ASSUME NEW h \in Gateways, "raced" \notin why'[h] PROVE OneThread(h)' /\ ShownHas(h)'
  <2>1. OneThread(h) /\ ShownHas(h) /\ ~Meeting(h) /\ ~Meeting(h)'
    BY <1>4, <1>5 DEF IInv, GInv, MeetingsNoted
  <2>2. OneThread(h)'
    BY <2>1 DEF OneThread, Start, memory
  <2>3. ShownHas(h)'
    BY <2>1 DEF ShownHas, Counts, Leaving, Start, Cleared, memory
  <2> QED
    BY <2>2, <2>3
<1>6. ASSUME NEW h \in Gateways, why'[h] \cap {"raced", "failed"} = {}
      PROVE  Holder(h)' /\ Entry(h)' /\ Going(h)' /\ EntryShown(h)'
  <2>1. /\ Holder(h) /\ Entry(h) /\ Going(h) /\ EntryShown(h) /\ OneThread(h)
        /\ ~Meeting(h) /\ ~Meeting(h)'
    BY <1>4, <1>6 DEF IInv, GInv, MeetingsNoted
  <2>2. Holder(h)'
    BY <2>1 DEF Holder, Start, memory
  <2>3. Entry(h)'
    BY <2>1 DEF Entry, Start, memory
  <2>4. Going(h)'
    BY <2>1 DEF Going, Start, memory
  <2>5. EntryShown(h)'
    BY <2>1 DEF EntryShown, Start, Cleared, memory
  <2> QED
    BY <2>2, <2>3, <2>4, <2>5
<1> QED
  BY <1>1, <1>2, <1>3, <1>4, <1>5, <1>6 DEF IInv, MeetingsNoted, GInv

\* A new connection has no id.
LEMMA AcceptKeeps ==
    ASSUME IInv, NEW c \in Conns, Accept(c)
    PROVE  IInv'
<1>1. TypeOK'
  BY DEF IInv, TypeOK, Accept
<1>2. Objects'
  <2>1. \A t \in Threads : pc[t] \in Closing => cur[t] # c
    BY DEF IInv, Objects, Accept
  <2>2. \A d \in Conns : replaced[d] => d # c
    BY DEF IInv, Objects, Accept
  <2> QED
    BY DEF IInv, Objects, TypeOK, Accept
<1>3. Ids'
  BY DEF IInv, Ids, Objects, Accept
<1>4. \A h \in Gateways :
        /\ Meeting(h)' => "raced" \in why'[h]
        /\ why[h] \cap {"raced", "failed"} \subseteq why'[h]
  <2>1. why' = why /\ \A h \in Gateways : Meeting(h)' => Meeting(h)
    BY DEF Meeting, At, Accept
  <2> QED
    BY <2>1 DEF IInv, MeetingsNoted
<1>5. ASSUME NEW h \in Gateways, "raced" \notin why'[h] PROVE OneThread(h)' /\ ShownHas(h)'
  <2>1. OneThread(h) /\ ShownHas(h) /\ ~Meeting(h) /\ ~Meeting(h)'
    BY <1>4, <1>5 DEF IInv, GInv, MeetingsNoted
  <2>2. OneThread(h)'
    BY <2>1 DEF OneThread, Accept
  <2>3. ShownHas(h)'
    BY <2>1 DEF ShownHas, Counts, Leaving, Accept
  <2> QED
    BY <2>2, <2>3
<1>6. ASSUME NEW h \in Gateways, why'[h] \cap {"raced", "failed"} = {}
      PROVE  Holder(h)' /\ Entry(h)' /\ Going(h)' /\ EntryShown(h)'
  <2>1. /\ Holder(h) /\ Entry(h) /\ Going(h) /\ EntryShown(h) /\ OneThread(h)
        /\ ~Meeting(h) /\ ~Meeting(h)'
    BY <1>4, <1>6 DEF IInv, GInv, MeetingsNoted
  <2>2. Holder(h)'
    BY <2>1 DEF IInv, Objects, Holder, Accept
  <2>3. Entry(h)'
    BY <2>1 DEF Entry, Accept
  <2>4. Going(h)'
    BY <2>1 DEF Going, Accept
  <2>5. EntryShown(h)'
    BY <2>1 DEF EntryShown, Accept
  <2> QED
    BY <2>2, <2>3, <2>4, <2>5
<1> QED
  BY <1>1, <1>2, <1>3, <1>4, <1>5, <1>6 DEF IInv, MeetingsNoted, GInv

\* An authentication begins; on a closed connection that is noted.
LEMMA AuthBeginKeeps ==
    ASSUME IInv, NEW c \in Conns, NEW g \in Gateways, AuthBegin(c, g)
    PROVE  IInv'
<1>1. TypeOK'
  BY DEF IInv, TypeOK, Threads, Keys, Reasons, Labels, NoteMeetings, Note, AuthBegin,
     Begin
<1>2. Objects'
  BY DEF IInv, Objects, Closing, AuthBegin, Begin
<1>3. Ids'
  BY <1>1 DEF IInv, Ids, TypeOK, AuthBegin, Begin
<1>4. \A h \in Gateways :
        /\ Meeting(h)' => "raced" \in why'[h]
        /\ why[h] \cap {"raced", "failed"} \subseteq why'[h]
  BY NoteKeeps DEF IInv, NoteMeetings, AuthBegin
<1>5. ASSUME NEW h \in Gateways, "raced" \notin why'[h] PROVE OneThread(h)' /\ ShownHas(h)'
  <2>1. OneThread(h) /\ ShownHas(h) /\ ~Meeting(h) /\ ~Meeting(h)'
    BY <1>4, <1>5 DEF IInv, GInv, MeetingsNoted
  <2>2. OneThread(h)'
    BY <2>1 DEF OneThread, AuthBegin, Begin
  <2>3. ShownHas(h)'
    BY <2>1 DEF ShownHas, Counts, Leaving, NoteMeetings, Note, AuthBegin, Begin
  <2> QED
    BY <2>2, <2>3
<1>6. ASSUME NEW h \in Gateways, why'[h] \cap {"raced", "failed"} = {}
      PROVE  Holder(h)' /\ Entry(h)' /\ Going(h)' /\ EntryShown(h)'
  <2>1. /\ Holder(h) /\ Entry(h) /\ Going(h) /\ EntryShown(h) /\ OneThread(h)
        /\ ~Meeting(h) /\ ~Meeting(h)'
    BY <1>4, <1>6 DEF IInv, GInv, MeetingsNoted
  <2>2. Holder(h)'
    BY <2>1 DEF IInv, TypeOK, Holder, AuthBegin
  <2>3. Entry(h)'
    BY <2>1 DEF Entry, AuthBegin, Begin
  <2>4. Going(h)'
    BY <2>1 DEF Going, AuthBegin, Begin
  <2>5. EntryShown(h)'
    BY <2>1 DEF EntryShown, NoteMeetings, Note, AuthBegin, Begin
  <2> QED
    BY <2>2, <2>3, <2>4, <2>5
<1> QED
  BY <1>1, <1>2, <1>3, <1>4, <1>5, <1>6 DEF IInv, MeetingsNoted, GInv

\* From here on the connection has the id, and io is at its gateway.
LEMMA AuthSetGwidKeeps ==
    ASSUME IInv, AuthSetGwid
    PROVE  IInv'
<1>1. TypeOK'
  BY DEF IInv, TypeOK, Threads, Reasons, Labels, NoteMeetings, Note, AuthSetGwid, Goto
<1>2. Objects'
  BY DEF IInv, Objects, Threads, Closing, AuthSetGwid, Goto
<1>3. Ids'
  BY <1>1 DEF IInv, Ids, TypeOK, AuthSetGwid, Goto
<1>4. \A h \in Gateways :
        /\ Meeting(h)' => "raced" \in why'[h]
        /\ why[h] \cap {"raced", "failed"} \subseteq why'[h]
  BY NoteKeeps DEF IInv, NoteMeetings, AuthSetGwid
<1>5. ASSUME NEW h \in Gateways, "raced" \notin why'[h] PROVE OneThread(h)' /\ ShownHas(h)'
  <2>1. OneThread(h) /\ ShownHas(h) /\ ~Meeting(h) /\ ~Meeting(h)'
    BY <1>4, <1>5 DEF IInv, GInv, MeetingsNoted
  <2>2. OneThread(h)'
    BY <2>1 DEF IInv, Ids, OneThread, Meeting, AuthSetGwid, Goto
  <2>3. ShownHas(h)'
    BY <2>1 DEF IInv, Ids, ShownHas, Counts, Leaving, NoteMeetings, Note, AuthSetGwid,
       Goto
  <2> QED
    BY <2>2, <2>3
<1>6. ASSUME NEW h \in Gateways, why'[h] \cap {"raced", "failed"} = {}
      PROVE  Holder(h)' /\ Entry(h)' /\ Going(h)' /\ EntryShown(h)'
  <2>1. /\ Holder(h) /\ Entry(h) /\ Going(h) /\ EntryShown(h) /\ OneThread(h)
        /\ ~Meeting(h) /\ ~Meeting(h)'
    BY <1>4, <1>6 DEF IInv, GInv, MeetingsNoted
  <2>2. Holder(h)'
    BY <2>1 DEF Holder, AuthSetGwid, Goto
  <2>3. Entry(h)'
    BY <2>1 DEF IInv, Ids, Entry, AuthSetGwid, Goto
  <2>4. Going(h)'
    BY <2>1 DEF Meeting, At, Threads, Going, AuthSetGwid, Goto
  <2>5. EntryShown(h)'
    BY <2>1 DEF EntryShown, NoteMeetings, Note, AuthSetGwid, Goto
  <2> QED
    BY <2>2, <2>3, <2>4, <2>5
<1> QED
  BY <1>1, <1>2, <1>3, <1>4, <1>5, <1>6 DEF IInv, MeetingsNoted, GInv

\* Nothing but the monitoring point is remembered.
LEMMA AuthAcceptedKeeps ==
    ASSUME IInv, AuthAccepted
    PROVE  IInv'
<1>1. TypeOK'
  BY DEF IInv, TypeOK, Threads, Reasons, Labels, NoteMeetings, Note, AuthAccepted, Goto
<1>2. Objects'
  BY DEF IInv, Objects, Closing, AuthAccepted, Goto
<1>3. Ids'
  BY DEF IInv, Ids, AuthAccepted, Goto
<1>4. \A h \in Gateways :
        /\ Meeting(h)' => "raced" \in why'[h]
        /\ why[h] \cap {"raced", "failed"} \subseteq why'[h]
  BY NoteKeeps DEF IInv, NoteMeetings, AuthAccepted
<1>5. ASSUME NEW h \in Gateways, "raced" \notin why'[h] PROVE OneThread(h)' /\ ShownHas(h)'
  <2>1. OneThread(h) /\ ShownHas(h) /\ ~Meeting(h) /\ ~Meeting(h)'
    BY <1>4, <1>5 DEF IInv, GInv, MeetingsNoted
  <2>2. OneThread(h)'
    BY <2>1 DEF OneThread, AuthAccepted, Goto
  <2>3. ShownHas(h)'
    BY <2>1 DEF ShownHas, Counts, Leaving, NoteMeetings, Note, AuthAccepted, Goto
  <2> QED
    BY <2>2, <2>3
<1>6. ASSUME NEW h \in Gateways, why'[h] \cap {"raced", "failed"} = {}
      PROVE  Holder(h)' /\ Entry(h)' /\ Going(h)' /\ EntryShown(h)'
  <2>1. /\ Holder(h) /\ Entry(h) /\ Going(h) /\ EntryShown(h) /\ OneThread(h)
        /\ ~Meeting(h) /\ ~Meeting(h)'
    BY <1>4, <1>6 DEF IInv, GInv, MeetingsNoted
  <2>2. Holder(h)'
    BY <2>1 DEF Holder, AuthAccepted, Goto
  <2>3. Entry(h)'
    BY <2>1 DEF Entry, AuthAccepted, Goto
  <2>4. Going(h)'
    BY <2>1 DEF Going, AuthAccepted, Goto
  <2>5. EntryShown(h)'
    BY <2>1 DEF EntryShown, NoteMeetings, Note, AuthAccepted, Goto
  <2> QED
    BY <2>2, <2>3, <2>4, <2>5
<1> QED
  BY <1>1, <1>2, <1>3, <1>4, <1>5, <1>6 DEF IInv, MeetingsNoted, GInv

\* The connection has no id again.
LEMMA AuthRefusedKeeps ==
    ASSUME IInv, AuthRefused
    PROVE  IInv'
<1>1. TypeOK'
  BY DEF IInv, TypeOK, Threads, Keys, Reasons, Labels, NoteMeetings, Note, AuthRefused,
     Done, Begin
<1>2. Objects'
  BY DEF IInv, Objects, Closing, AuthRefused, Done, Begin
<1>3. Ids'
  BY <1>1 DEF IInv, Ids, TypeOK, AuthRefused
<1>4. \A h \in Gateways :
        /\ Meeting(h)' => "raced" \in why'[h]
        /\ why[h] \cap {"raced", "failed"} \subseteq why'[h]
  BY NoteKeeps DEF IInv, NoteMeetings, AuthRefused
<1>5. ASSUME NEW h \in Gateways, "raced" \notin why'[h] PROVE OneThread(h)' /\ ShownHas(h)'
  <2>1. OneThread(h) /\ ShownHas(h) /\ ~Meeting(h) /\ ~Meeting(h)'
    BY <1>4, <1>5 DEF IInv, GInv, MeetingsNoted
  <2>2. OneThread(h)'
    BY <2>1 DEF OneThread, AuthRefused, Done, Begin
  <2>3. ShownHas(h)'
    BY <2>1 DEF Meeting, At, Threads, ShownHas, Counts, Leaving, NoteMeetings, Note,
       AuthRefused, Done, Begin
  <2> QED
    BY <2>2, <2>3
<1>6. ASSUME NEW h \in Gateways, why'[h] \cap {"raced", "failed"} = {}
      PROVE  Holder(h)' /\ Entry(h)' /\ Going(h)' /\ EntryShown(h)'
  <2>1. /\ Holder(h) /\ Entry(h) /\ Going(h) /\ EntryShown(h) /\ OneThread(h)
        /\ ~Meeting(h) /\ ~Meeting(h)'
    BY <1>4, <1>6 DEF IInv, GInv, MeetingsNoted
  <2>2. Holder(h)'
    BY <1>1, <2>1 DEF TypeOK, Holder, AuthRefused
  <2>3. Entry(h)'
    BY <2>1 DEF IInv, Ids, Meeting, Keys, Entry, AuthRefused, Done, Begin
  <2>4. Going(h)'
    BY <2>1 DEF Going, AuthRefused, Done, Begin
  <2>5. EntryShown(h)'
    BY <2>1 DEF EntryShown, NoteMeetings, Note, AuthRefused
  <2> QED
    BY <2>2, <2>3, <2>4, <2>5
<1> QED
  BY <1>1, <1>2, <1>3, <1>4, <1>5, <1>6 DEF IInv, MeetingsNoted, GInv

\* The gateway is shown online, and the connection counts.
LEMMA AuthOnlineKeeps ==
    ASSUME IInv, AuthOnline
    PROVE  IInv'
<1>1. TypeOK'
  BY DEF IInv, TypeOK, Threads, Reasons, Labels, Note, AuthOnline, Goto
<1>2. Objects'
  BY DEF IInv, Objects, Closing, AuthOnline, Goto
<1>3. Ids'
  BY DEF IInv, Ids, AuthOnline, Goto
<1>4. \A h \in Gateways :
        /\ Meeting(h)' => "raced" \in why'[h]
        /\ why[h] \cap {"raced", "failed"} \subseteq why'[h]
  BY NoteKeeps DEF IInv, AuthOnline
<1>5. ASSUME NEW h \in Gateways, "raced" \notin why'[h] PROVE OneThread(h)' /\ ShownHas(h)'
  <2>1. OneThread(h) /\ ShownHas(h) /\ ~Meeting(h) /\ ~Meeting(h)'
    BY <1>4, <1>5 DEF IInv, GInv, MeetingsNoted
  <2>2. OneThread(h)'
    BY <2>1 DEF OneThread, AuthOnline, Goto
  <2>3. ShownHas(h)'
    BY <1>1, <2>1 DEF IInv, TypeOK, Ids, Meeting, ShownHas, Counts, Leaving, Note,
       AuthOnline, Goto
  <2> QED
    BY <2>2, <2>3
<1>6. ASSUME NEW h \in Gateways, why'[h] \cap {"raced", "failed"} = {}
      PROVE  Holder(h)' /\ Entry(h)' /\ Going(h)' /\ EntryShown(h)'
  <2>1. /\ Holder(h) /\ Entry(h) /\ Going(h) /\ EntryShown(h) /\ OneThread(h)
        /\ ~Meeting(h) /\ ~Meeting(h)'
    BY <1>4, <1>6 DEF IInv, GInv, MeetingsNoted
  <2>2. Holder(h)'
    BY <2>1 DEF Holder, AuthOnline, Goto
  <2>3. Entry(h)'
    BY <2>1 DEF Entry, AuthOnline, Goto
  <2>4. Going(h)'
    BY <2>1 DEF Going, AuthOnline, Goto
  <2>5. EntryShown(h)'
    BY <1>1, <2>1 DEF IInv, TypeOK, Ids, Meeting, EntryShown, Note, AuthOnline, Goto
  <2> QED
    BY <2>2, <2>3, <2>4, <2>5
<1> QED
  BY <1>1, <1>2, <1>3, <1>4, <1>5, <1>6 DEF IInv, MeetingsNoted, GInv

\* The connection keeps the id; that is noted.
LEMMA AuthFailsKeeps ==
    ASSUME IInv, AuthFails
    PROVE  IInv'
<1>1. TypeOK'
  BY DEF IInv, TypeOK, Threads, Keys, Reasons, Labels, Note, AuthFails, Done, Begin
<1>2. Objects'
  BY DEF IInv, Objects, TypeOK, Closing, AuthFails, Done, Begin
<1>3. Ids'
  BY <1>1 DEF IInv, Ids, TypeOK, AuthFails
<1>4. \A h \in Gateways :
        /\ Meeting(h)' => "raced" \in why'[h]
        /\ why[h] \cap {"raced", "failed"} \subseteq why'[h]
  BY NoteKeeps DEF IInv, AuthFails
<1>5. ASSUME NEW h \in Gateways, "raced" \notin why'[h] PROVE OneThread(h)' /\ ShownHas(h)'
  <2>1. OneThread(h) /\ ShownHas(h) /\ ~Meeting(h) /\ ~Meeting(h)'
    BY <1>4, <1>5 DEF IInv, GInv, MeetingsNoted
  <2>2. OneThread(h)'
    BY <1>1, <2>1 DEF TypeOK, OneThread, AuthFails, Done, Begin
  <2>3. ShownHas(h)'
    BY <1>1, <2>1 DEF TypeOK, ShownHas, Counts, Leaving, Note, AuthFails, Done, Begin
  <2> QED
    BY <2>2, <2>3
<1>6. ASSUME NEW h \in Gateways, why'[h] \cap {"raced", "failed"} = {}
      PROVE  Holder(h)' /\ Entry(h)' /\ Going(h)' /\ EntryShown(h)'
  <2>1. /\ Holder(h) /\ Entry(h) /\ Going(h) /\ EntryShown(h) /\ OneThread(h)
        /\ ~Meeting(h) /\ ~Meeting(h)'
    BY <1>4, <1>6 DEF IInv, GInv, MeetingsNoted
  <2>2. Holder(h)'
    BY <1>6, <2>1 DEF IInv, Holder, Note, AuthFails
  <2>3. Entry(h)'
    BY <1>1, <2>1 DEF TypeOK, Entry, AuthFails, Done, Begin
  <2>4. Going(h)'
    BY <1>1, <2>1 DEF TypeOK, Going, AuthFails, Done, Begin
  <2>5. EntryShown(h)'
    BY <2>1 DEF EntryShown, Note, AuthFails
  <2> QED
    BY <2>2, <2>3, <2>4, <2>5
<1> QED
  BY <1>1, <1>2, <1>3, <1>4, <1>5, <1>6 DEF IInv, MeetingsNoted, GInv

\* The connection gets the entry; the one that had it is closed and takes nothing back.
LEMMA AddKeeps ==
    ASSUME IInv, Add
    PROVE  IInv'
<1>1. TypeOK'
  BY DEF IInv, TypeOK, Threads, Keys, Reasons, Labels, NoteMeetings, Note, Add, Done,
     Begin
<1>2. Objects'
  BY <1>1 DEF IInv, Objects, TypeOK, Closing, Add, Done, Begin
<1>3. Ids'
  BY <1>1 DEF IInv, Ids, TypeOK, Add
<1>4. \A h \in Gateways :
        /\ Meeting(h)' => "raced" \in why'[h]
        /\ why[h] \cap {"raced", "failed"} \subseteq why'[h]
  BY NoteKeeps DEF IInv, NoteMeetings, Add
<1>5. ASSUME NEW h \in Gateways, "raced" \notin why'[h] PROVE OneThread(h)' /\ ShownHas(h)'
  <2>1. OneThread(h) /\ ShownHas(h) /\ ~Meeting(h) /\ ~Meeting(h)'
    BY <1>4, <1>5 DEF IInv, GInv, MeetingsNoted
  <2>2. OneThread(h)'
    BY <2>1 DEF IInv, TypeOK, OneThread, Meeting, At, Threads, Add, Done, Begin
  <2>3. ShownHas(h)'
    BY <2>1 DEF IInv, TypeOK, Objects, Ids, OneThread, Meeting, At, Threads, Closing,
       ShownHas, Counts, Leaving, NoteMeetings, Note, Add, Done, Begin
  <2> QED
    BY <2>2, <2>3
<1>6. ASSUME NEW h \in Gateways, why'[h] \cap {"raced", "failed"} = {}
      PROVE  Holder(h)' /\ Entry(h)' /\ Going(h)' /\ EntryShown(h)'
  <2>1. /\ Holder(h) /\ Entry(h) /\ Going(h) /\ EntryShown(h) /\ OneThread(h)
        /\ ~Meeting(h) /\ ~Meeting(h)'
    BY <1>4, <1>6 DEF IInv, GInv, MeetingsNoted
  <2>2. Holder(h)'
    BY <2>1 DEF IInv, TypeOK, Holder, Entry, Add
  <2>3. Entry(h)'
    BY <1>1, <2>1 DEF IInv, TypeOK, Objects, Ids, OneThread, Meeting, Keys, Entry, Add,
       Done, Begin
  <2>4. Going(h)'
    BY <2>1 DEF Meeting, At, Threads, Going, Add, Done, Begin
  <2>5. EntryShown(h)'
    BY <2>1 DEF IInv, Ids, EntryShown, NoteMeetings, Note, Add
  <2> QED
    BY <2>2, <2>3, <2>4, <2>5
<1> QED
  BY <1>1, <1>2, <1>3, <1>4, <1>5, <1>6 DEF IInv, MeetingsNoted, GInv

\* m_valid is still set.
LEMMA ErrorBeginKeeps ==
    ASSUME IInv, NEW t \in Threads, NEW c \in Conns, ErrorBegin(t, c)
    PROVE  IInv'
<1>1. TypeOK'
  BY DEF IInv, TypeOK, Reasons, Labels, NoteMeetings, Note, ErrorBegin, Begin
<1>2. Objects'
  BY DEF IInv, Objects, Closing, ErrorBegin, Begin
<1>3. Ids'
  BY DEF IInv, Ids, TypeOK, ErrorBegin, Begin
<1>4. \A h \in Gateways :
        /\ Meeting(h)' => "raced" \in why'[h]
        /\ why[h] \cap {"raced", "failed"} \subseteq why'[h]
  BY NoteKeeps DEF IInv, NoteMeetings, ErrorBegin
<1>5. ASSUME NEW h \in Gateways, "raced" \notin why'[h] PROVE OneThread(h)' /\ ShownHas(h)'
  <2>1. OneThread(h) /\ ShownHas(h) /\ ~Meeting(h) /\ ~Meeting(h)'
    BY <1>4, <1>5 DEF IInv, GInv, MeetingsNoted
  <2>2. OneThread(h)'
    BY <1>1, <2>1 DEF TypeOK, OneThread, ErrorBegin, Begin
  <2>3. ShownHas(h)'
    BY <2>1 DEF ShownHas, Counts, Leaving, NoteMeetings, Note, ErrorBegin, Begin
  <2> QED
    BY <2>2, <2>3
<1>6. ASSUME NEW h \in Gateways, why'[h] \cap {"raced", "failed"} = {}
      PROVE  Holder(h)' /\ Entry(h)' /\ Going(h)' /\ EntryShown(h)'
  <2>1. /\ Holder(h) /\ Entry(h) /\ Going(h) /\ EntryShown(h) /\ OneThread(h)
        /\ ~Meeting(h) /\ ~Meeting(h)'
    BY <1>4, <1>6 DEF IInv, GInv, MeetingsNoted
  <2>2. Holder(h)'
    BY <1>1, <2>1 DEF TypeOK, Holder, ErrorBegin, Begin
  <2>3. Entry(h)'
    BY <2>1 DEF Entry, ErrorBegin, Begin
  <2>4. Going(h)'
    BY <2>1 DEF Going, ErrorBegin, Begin
  <2>5. EntryShown(h)'
    BY <2>1 DEF EntryShown, NoteMeetings, Note, ErrorBegin, Begin
  <2> QED
    BY <2>2, <2>3, <2>4, <2>5
<1> QED
  BY <1>1, <1>2, <1>3, <1>4, <1>5, <1>6 DEF IInv, MeetingsNoted, GInv

\* The connection stops counting; its thread is leaving.
LEMMA InvalidateKeeps ==
    ASSUME IInv, NEW t \in Threads, Invalidate(t)
    PROVE  IInv'
<1>1. TypeOK'
  BY DEF IInv, TypeOK, Reasons, Labels, NoteMeetings, Note, Invalidate, Goto
<1>2. Objects'
  BY DEF IInv, Objects, TypeOK, Invalidate, Goto
<1>3. Ids'
  BY DEF IInv, Ids, Invalidate, Goto
<1>4. \A h \in Gateways :
        /\ Meeting(h)' => "raced" \in why'[h]
        /\ why[h] \cap {"raced", "failed"} \subseteq why'[h]
  BY NoteKeeps DEF IInv, NoteMeetings, Invalidate
<1>5. ASSUME NEW h \in Gateways, "raced" \notin why'[h] PROVE OneThread(h)' /\ ShownHas(h)'
  <2>1. OneThread(h) /\ ShownHas(h) /\ ~Meeting(h) /\ ~Meeting(h)'
    BY <1>4, <1>5 DEF IInv, GInv, MeetingsNoted
  <2>2. OneThread(h)'
    BY <1>1, <2>1 DEF TypeOK, OneThread, Meeting, At, Threads, Invalidate, Goto
  <2>3. ShownHas(h)'
    BY <2>1 DEF IInv, TypeOK, Objects, ShownHas, Counts, Leaving, NoteMeetings, Note,
       Invalidate, Goto
  <2> QED
    BY <2>2, <2>3
<1>6. ASSUME NEW h \in Gateways, why'[h] \cap {"raced", "failed"} = {}
      PROVE  Holder(h)' /\ Entry(h)' /\ Going(h)' /\ EntryShown(h)'
  <2>1. /\ Holder(h) /\ Entry(h) /\ Going(h) /\ EntryShown(h) /\ OneThread(h)
        /\ ~Meeting(h) /\ ~Meeting(h)'
    BY <1>4, <1>6 DEF IInv, GInv, MeetingsNoted
  <2>2. Holder(h)'
    BY <2>1 DEF Holder, Invalidate, Goto
  <2>3. Entry(h)'
    BY <1>1, <2>1 DEF TypeOK, Entry, Invalidate, Goto
  <2>4. Going(h)'
    BY <1>1, <2>1 DEF TypeOK, OneThread, Meeting, Holder, Going, Invalidate, Goto
  <2>5. EntryShown(h)'
    BY <2>1 DEF EntryShown, NoteMeetings, Note, Invalidate, Goto
  <2> QED
    BY <2>2, <2>3, <2>4, <2>5
<1> QED
  BY <1>1, <1>2, <1>3, <1>4, <1>5, <1>6 DEF IInv, MeetingsNoted, GInv

\* A connection that was replaced, or has no id, has nothing to take back.
LEMMA ErrorKeeps ==
    ASSUME IInv, NEW t \in Threads, Error(t)
    PROVE  IInv'
<1>1. TypeOK'
  BY DEF IInv, TypeOK, Threads, Reasons, Labels, NoteMeetings, Note, Error, Goto, Done,
     Begin
<1>2. Objects'
  BY DEF IInv, Objects, TypeOK, Closing, Error, Goto, Done, Begin
<1>3. Ids'
  BY DEF IInv, Ids, TypeOK, Threads, Error, Goto, Done, Begin
<1>4. \A h \in Gateways :
        /\ Meeting(h)' => "raced" \in why'[h]
        /\ why[h] \cap {"raced", "failed"} \subseteq why'[h]
  BY NoteKeeps DEF IInv, NoteMeetings, Error
<1>5. ASSUME NEW h \in Gateways, "raced" \notin why'[h] PROVE OneThread(h)' /\ ShownHas(h)'
  <2>1. OneThread(h) /\ ShownHas(h) /\ ~Meeting(h) /\ ~Meeting(h)'
    BY <1>4, <1>5 DEF IInv, GInv, MeetingsNoted
  <2>2. OneThread(h)'
    BY <1>1, <2>1 DEF TypeOK, OneThread, Error, Goto, Done, Begin
  <2>3. ShownHas(h)'
    BY <1>1, <2>1 DEF TypeOK, Threads, ShownHas, Counts, Leaving, NoteMeetings, Note,
       Error, Goto, Done, Begin, TakesBack
  <2> QED
    BY <2>2, <2>3
<1>6. ASSUME NEW h \in Gateways, why'[h] \cap {"raced", "failed"} = {}
      PROVE  Holder(h)' /\ Entry(h)' /\ Going(h)' /\ EntryShown(h)'
  <2>1. /\ Holder(h) /\ Entry(h) /\ Going(h) /\ EntryShown(h) /\ OneThread(h)
        /\ ~Meeting(h) /\ ~Meeting(h)'
    BY <1>4, <1>6 DEF IInv, GInv, MeetingsNoted
  <2>2. Holder(h)'
    BY <1>1, <2>1 DEF TypeOK, Threads, Holder, Error, Goto, Done, Begin
  <2>3. Entry(h)'
    BY <1>1, <2>1 DEF TypeOK, Entry, Error, Goto, Done, Begin, TakesBack
  <2>4. Going(h)'
    BY <1>1, <2>1 DEF TypeOK, Going, Error, Goto, Done, Begin
  <2>5. EntryShown(h)'
    BY <1>1, <2>1 DEF TypeOK, Threads, EntryShown, NoteMeetings, Note, Error, Goto, Done,
       Begin
  <2> QED
    BY <2>2, <2>3, <2>4, <2>5
<1> QED
  BY <1>1, <1>2, <1>3, <1>4, <1>5, <1>6 DEF IInv, MeetingsNoted, GInv

\* The entry that is removed is that of the connection.
LEMMA RemoveKeeps ==
    ASSUME IInv, NEW t \in Threads, Remove(t)
    PROVE  IInv'
<1>1. TypeOK'
  BY DEF IInv, TypeOK, Reasons, Labels, NoteMeetings, Note, Remove, Goto
<1>2. Objects'
  BY DEF IInv, Objects, Closing, Remove, Goto
<1>3. Ids'
  BY DEF IInv, Ids, TypeOK, Threads, Remove, Goto
<1>4. \A h \in Gateways :
        /\ Meeting(h)' => "raced" \in why'[h]
        /\ why[h] \cap {"raced", "failed"} \subseteq why'[h]
  BY NoteKeeps DEF IInv, NoteMeetings, Remove
<1>5. ASSUME NEW h \in Gateways, "raced" \notin why'[h] PROVE OneThread(h)' /\ ShownHas(h)'
  <2>1. OneThread(h) /\ ShownHas(h) /\ ~Meeting(h) /\ ~Meeting(h)'
    BY <1>4, <1>5 DEF IInv, GInv, MeetingsNoted
  <2>2. OneThread(h)'
    BY <2>1 DEF OneThread, Remove, Goto
  <2>3. ShownHas(h)'
    BY <2>1 DEF ShownHas, Counts, Leaving, NoteMeetings, Note, Remove, Goto
  <2> QED
    BY <2>2, <2>3
<1>6. ASSUME NEW h \in Gateways, why'[h] \cap {"raced", "failed"} = {}
      PROVE  Holder(h)' /\ Entry(h)' /\ Going(h)' /\ EntryShown(h)'
  <2>1. /\ Holder(h) /\ Entry(h) /\ Going(h) /\ EntryShown(h) /\ OneThread(h)
        /\ ~Meeting(h) /\ ~Meeting(h)'
    BY <1>4, <1>6 DEF IInv, GInv, MeetingsNoted
  <2>2. Holder(h)'
    BY <2>1 DEF IInv, Objects, Closing, Holder, Going, Remove, Goto
  <2>3. Entry(h)'
    BY <1>1, <2>1 DEF TypeOK, Entry, Remove, Goto
  <2>4. Going(h)'
    BY <1>1, <2>1 DEF TypeOK, Meeting, At, Threads, Going, Remove, Goto
  <2>5. EntryShown(h)'
    BY <2>1 DEF EntryShown, NoteMeetings, Note, Remove, Goto
  <2> QED
    BY <2>2, <2>3, <2>4, <2>5
<1> QED
  BY <1>1, <1>2, <1>3, <1>4, <1>5, <1>6 DEF IInv, MeetingsNoted, GInv

\* Who has left is shown offline.
LEMMA OfflineKeeps ==
    ASSUME IInv, NEW t \in Threads, Offline(t)
    PROVE  IInv'
<1>1. TypeOK'
  BY DEF IInv, TypeOK, Reasons, Labels, NoteMeetings, Note, Offline, Goto
<1>2. Objects'
  BY DEF IInv, Objects, Closing, Offline, Goto
<1>3. Ids'
  BY DEF IInv, Ids, Offline, Goto
<1>4. \A h \in Gateways :
        /\ Meeting(h)' => "raced" \in why'[h]
        /\ why[h] \cap {"raced", "failed"} \subseteq why'[h]
  BY NoteKeeps DEF IInv, NoteMeetings, Offline
<1>5. ASSUME NEW h \in Gateways, "raced" \notin why'[h] PROVE OneThread(h)' /\ ShownHas(h)'
  <2>1. OneThread(h) /\ ShownHas(h) /\ ~Meeting(h) /\ ~Meeting(h)'
    BY <1>4, <1>5 DEF IInv, GInv, MeetingsNoted
  <2>2. OneThread(h)'
    BY <2>1 DEF OneThread, Offline, Goto
  <2>3. ShownHas(h)'
    BY <2>1 DEF IInv, TypeOK, Meeting, At, Threads, ShownHas, Counts, Leaving,
       NoteMeetings, Note, Offline, Goto
  <2> QED
    BY <2>2, <2>3
<1>6. ASSUME NEW h \in Gateways, why'[h] \cap {"raced", "failed"} = {}
      PROVE  Holder(h)' /\ Entry(h)' /\ Going(h)' /\ EntryShown(h)'
  <2>1. /\ Holder(h) /\ Entry(h) /\ Going(h) /\ EntryShown(h) /\ OneThread(h)
        /\ ~Meeting(h) /\ ~Meeting(h)'
    BY <1>4, <1>6 DEF IInv, GInv, MeetingsNoted
  <2>2. Holder(h)'
    BY <2>1 DEF Holder, Offline, Goto
  <2>3. Entry(h)'
    BY <2>1 DEF Entry, Offline, Goto
  <2>4. Going(h)'
    BY <2>1 DEF Going, Offline, Goto
  <2>5. EntryShown(h)'
    BY <2>1 DEF IInv, TypeOK, Meeting, At, Threads, Going, EntryShown, NoteMeetings, Note,
       Offline, Goto
  <2> QED
    BY <2>2, <2>3, <2>4, <2>5
<1> QED
  BY <1>1, <1>2, <1>3, <1>4, <1>5, <1>6 DEF IInv, MeetingsNoted, GInv

\* ... or is noted as missed.
LEMMA OfflineFailsKeeps ==
    ASSUME IInv, NEW t \in Threads, OfflineFails(t)
    PROVE  IInv'
<1>1. TypeOK'
  BY DEF IInv, TypeOK, Reasons, Labels, Note, OfflineFails, Goto
<1>2. Objects'
  BY DEF IInv, Objects, Closing, OfflineFails, Goto
<1>3. Ids'
  BY DEF IInv, Ids, OfflineFails, Goto
<1>4. \A h \in Gateways :
        /\ Meeting(h)' => "raced" \in why'[h]
        /\ why[h] \cap {"raced", "failed"} \subseteq why'[h]
  BY NoteKeeps DEF IInv, OfflineFails
<1>5. ASSUME NEW h \in Gateways, "raced" \notin why'[h] PROVE OneThread(h)' /\ ShownHas(h)'
  <2>1. OneThread(h) /\ ShownHas(h) /\ ~Meeting(h) /\ ~Meeting(h)'
    BY <1>4, <1>5 DEF IInv, GInv, MeetingsNoted
  <2>2. OneThread(h)'
    BY <2>1 DEF OneThread, OfflineFails, Goto
  <2>3. ShownHas(h)'
    <3>1. /\ valid' = valid /\ gwid' = gwid /\ online' = online /\ replaced' = replaced /\ cur' = cur
          /\ pc' = [pc EXCEPT ![t] = "clear"] /\ pc[t] = "offline"
          /\ why[h] \subseteq why'[h]
          /\ gwid[cur[t]] = h => "missed" \in why'[h]
      BY DEF OfflineFails, Goto, Note
    <3>2. \A c \in Conns : Counts(c, h) => Counts(c, h)'
      BY <3>1 DEF Counts
    <3>3. \A u \in Threads : Leaving(u, h) /\ u # t => Leaving(u, h)'
      BY <3>1 DEF Leaving
    <3>4. Leaving(t, h) => "missed" \in why'[h]
      BY <3>1 DEF Leaving
    <3> QED
      BY <2>1, <3>1, <3>2, <3>3, <3>4 DEF ShownHas
  <2> QED
    BY <2>2, <2>3
<1>6. ASSUME NEW h \in Gateways, why'[h] \cap {"raced", "failed"} = {}
      PROVE  Holder(h)' /\ Entry(h)' /\ Going(h)' /\ EntryShown(h)'
  <2>1. /\ Holder(h) /\ Entry(h) /\ Going(h) /\ EntryShown(h) /\ OneThread(h)
        /\ ~Meeting(h) /\ ~Meeting(h)'
    BY <1>4, <1>6 DEF IInv, GInv, MeetingsNoted
  <2>2. Holder(h)'
    BY <2>1 DEF Holder, OfflineFails, Goto
  <2>3. Entry(h)'
    BY <2>1 DEF Entry, OfflineFails, Goto
  <2>4. Going(h)'
    BY <2>1 DEF Going, OfflineFails, Goto
  <2>5. EntryShown(h)'
    BY <2>1 DEF EntryShown, Note, OfflineFails, Goto
  <2> QED
    BY <2>2, <2>3, <2>4, <2>5
<1> QED
  BY <1>1, <1>2, <1>3, <1>4, <1>5, <1>6 DEF IInv, MeetingsNoted, GInv

\* The connection has no id any more.
LEMMA ClearKeeps ==
    ASSUME IInv, NEW t \in Threads, Clear(t)
    PROVE  IInv'
<1>1. TypeOK'
  BY DEF IInv, TypeOK, Keys, Reasons, Labels, NoteMeetings, Note, Clear, Done, Begin
<1>2. Objects'
  BY DEF IInv, Objects, TypeOK, Closing, Clear, Done, Begin
<1>3. Ids'
  BY DEF IInv, Ids, Objects, TypeOK, Closing, Clear, Done, Begin
<1>4. \A h \in Gateways :
        /\ Meeting(h)' => "raced" \in why'[h]
        /\ why[h] \cap {"raced", "failed"} \subseteq why'[h]
  BY NoteKeeps DEF IInv, NoteMeetings, Clear
<1>5. ASSUME NEW h \in Gateways, "raced" \notin why'[h] PROVE OneThread(h)' /\ ShownHas(h)'
  <2>1. OneThread(h) /\ ShownHas(h) /\ ~Meeting(h) /\ ~Meeting(h)'
    BY <1>4, <1>5 DEF IInv, GInv, MeetingsNoted
  <2>2. OneThread(h)'
    BY <2>1 DEF OneThread, Clear, Done, Begin
  <2>3. ShownHas(h)'
    BY <2>1 DEF IInv, Objects, Meeting, At, Threads, Closing, ShownHas, Counts, Leaving,
       NoteMeetings, Note, Clear, Done, Begin
  <2> QED
    BY <2>2, <2>3
<1>6. ASSUME NEW h \in Gateways, why'[h] \cap {"raced", "failed"} = {}
      PROVE  Holder(h)' /\ Entry(h)' /\ Going(h)' /\ EntryShown(h)'
  <2>1. /\ Holder(h) /\ Entry(h) /\ Going(h) /\ EntryShown(h) /\ OneThread(h)
        /\ ~Meeting(h) /\ ~Meeting(h)'
    BY <1>4, <1>6 DEF IInv, GInv, MeetingsNoted
  <2>2. Holder(h)'
    BY <1>1, <2>1 DEF TypeOK, Holder, Clear, Done, Begin
  <2>3. Entry(h)'
    BY <2>1 DEF Entry, Going, Clear, Done, Begin
  <2>4. Going(h)'
    BY <1>1, <2>1 DEF TypeOK, Going, Clear, Done, Begin
  <2>5. EntryShown(h)'
    BY <2>1 DEF EntryShown, NoteMeetings, Note, Clear, Done, Begin
  <2> QED
    BY <2>2, <2>3, <2>4, <2>5
<1> QED
  BY <1>1, <1>2, <1>3, <1>4, <1>5, <1>6 DEF IInv, MeetingsNoted, GInv

\* A closed connection that nobody refers to goes.
LEMMA DestroyKeeps ==
    ASSUME IInv, NEW c \in Conns, Destroy(c)
    PROVE  IInv'
<1>1. TypeOK'
  BY DEF IInv, TypeOK, Keys, Reasons, NoteMeetings, Note, Destroy, Forget
<1>2. Objects'
  BY DEF IInv, Objects, TypeOK, Destroy, Unreferenced, Forget
<1>3. Ids'
  BY DEF IInv, Ids, Destroy, Unreferenced, Forget
<1>4. \A h \in Gateways :
        /\ Meeting(h)' => "raced" \in why'[h]
        /\ why[h] \cap {"raced", "failed"} \subseteq why'[h]
  BY NoteKeeps DEF IInv, NoteMeetings, Destroy
<1>5. ASSUME NEW h \in Gateways, "raced" \notin why'[h] PROVE OneThread(h)' /\ ShownHas(h)'
  <2>1. OneThread(h) /\ ShownHas(h) /\ ~Meeting(h) /\ ~Meeting(h)'
    BY <1>4, <1>5 DEF IInv, GInv, MeetingsNoted
  <2>2. OneThread(h)'
    BY <2>1 DEF OneThread, Destroy, Forget
  <2>3. ShownHas(h)'
    BY <2>1 DEF ShownHas, Counts, Leaving, NoteMeetings, Note, Destroy, Unreferenced,
       Forget
  <2> QED
    BY <2>2, <2>3
<1>6. ASSUME NEW h \in Gateways, why'[h] \cap {"raced", "failed"} = {}
      PROVE  Holder(h)' /\ Entry(h)' /\ Going(h)' /\ EntryShown(h)'
  <2>1. /\ Holder(h) /\ Entry(h) /\ Going(h) /\ EntryShown(h) /\ OneThread(h)
        /\ ~Meeting(h) /\ ~Meeting(h)'
    BY <1>4, <1>6 DEF IInv, GInv, MeetingsNoted
  <2>2. Holder(h)'
    BY <2>1 DEF Holder, Destroy, Forget
  <2>3. Entry(h)'
    BY <2>1 DEF Entry, Destroy, Unreferenced, Forget
  <2>4. Going(h)'
    BY <2>1 DEF Going, Destroy, Forget
  <2>5. EntryShown(h)'
    BY <2>1 DEF EntryShown, NoteMeetings, Note, Destroy, Forget
  <2> QED
    BY <2>2, <2>3, <2>4, <2>5
<1> QED
  BY <1>1, <1>2, <1>3, <1>4, <1>5, <1>6 DEF IInv, MeetingsNoted, GInv

\* ... and shows its gateway offline: that is noted where it has come back.
LEMMA DestroyOfflineKeeps ==
    ASSUME IInv, NEW c \in Conns, DestroyOffline(c)
    PROVE  IInv'
<1>1. TypeOK'
  BY DEF IInv, TypeOK, Keys, Reasons, Note, DestroyOffline, Forget
<1>2. Objects'
  BY DEF IInv, Objects, TypeOK, DestroyOffline, Unreferenced, Forget
<1>3. Ids'
  BY DEF IInv, Ids, DestroyOffline, Unreferenced, Forget
<1>4. \A h \in Gateways :
        /\ Meeting(h)' => "raced" \in why'[h]
        /\ why[h] \cap {"raced", "failed"} \subseteq why'[h]
  BY NoteKeeps DEF IInv, DestroyOffline
<1>5. ASSUME NEW h \in Gateways, "raced" \notin why'[h] PROVE OneThread(h)' /\ ShownHas(h)'
  <2>1. OneThread(h) /\ ShownHas(h) /\ ~Meeting(h) /\ ~Meeting(h)'
    BY <1>4, <1>5 DEF IInv, GInv, MeetingsNoted
  <2>2. OneThread(h)'
    BY <2>1 DEF OneThread, DestroyOffline, Forget
  <2>3. ShownHas(h)'
    BY <1>1, <2>1 DEF TypeOK, ShownHas, Counts, Leaving, Note, DestroyOffline,
       Unreferenced, Forget
  <2> QED
    BY <2>2, <2>3
<1>6. ASSUME NEW h \in Gateways, why'[h] \cap {"raced", "failed"} = {}
      PROVE  Holder(h)' /\ Entry(h)' /\ Going(h)' /\ EntryShown(h)'
  <2>1. /\ Holder(h) /\ Entry(h) /\ Going(h) /\ EntryShown(h) /\ OneThread(h)
        /\ ~Meeting(h) /\ ~Meeting(h)'
    BY <1>4, <1>6 DEF IInv, GInv, MeetingsNoted
  <2>2. Holder(h)'
    BY <2>1 DEF Holder, DestroyOffline, Forget
  <2>3. Entry(h)'
    BY <2>1 DEF Entry, DestroyOffline, Unreferenced, Forget
  <2>4. Going(h)'
    BY <2>1 DEF Going, DestroyOffline, Forget
  <2>5. EntryShown(h)'
    BY <2>1 DEF IInv, TypeOK, Objects, Ids, Meeting, Threads, Entry, EntryShown, Note,
       DestroyOffline, Unreferenced, LastCall, Forget, CameBack
  <2> QED
    BY <2>2, <2>3, <2>4, <2>5
<1> QED
  BY <1>1, <1>2, <1>3, <1>4, <1>5, <1>6 DEF IInv, MeetingsNoted, GInv

\* One case for each action of Next.
LEMMA StepIInv == IInv /\ [Next]_vars => IInv'
<1> SUFFICES ASSUME IInv, [Next]_vars PROVE IInv'
  OBVIOUS
<1>1. CASE Start
  BY <1>1, StartKeeps
<1>2. CASE Stop
  <2>1. online' = [g \in Gateways |-> FALSE] /\ why' = [g \in Gateways |-> {}]
    BY <1>2 DEF Stop, Cleared
  <2> QED
    BY <1>2, <2>1, ProcessEnds DEF Stop
<1>3. CASE Crash
  BY <1>3, ProcessEnds DEF Crash, IInv, TypeOK
<1>4. CASE AuthStep
  BY <1>4, AuthSetGwidKeeps, AuthAcceptedKeeps, AuthRefusedKeeps, AuthOnlineKeeps,
     AuthFailsKeeps, AddKeeps DEF AuthStep
<1>5. CASE \E c \in Conns : Accept(c) \/ Destroy(c) \/ DestroyOffline(c)
  BY <1>5, AcceptKeeps, DestroyKeeps, DestroyOfflineKeeps
<1>6. CASE \E c \in Conns, g \in Gateways : AuthBegin(c, g)
  BY <1>6, AuthBeginKeeps
<1>7. CASE \E t \in Threads : ErrorStep(t)
  BY <1>7, InvalidateKeeps, ErrorKeeps, RemoveKeeps, OfflineKeeps, OfflineFailsKeeps,
     ClearKeeps DEF ErrorStep
<1>8. CASE \E t \in Threads, c \in Conns : ErrorBegin(t, c)
  BY <1>8, ErrorBeginKeeps
<1>9. CASE UNCHANGED vars
  <2>1. /\ TypeOK' /\ Objects' /\ Ids' /\ MeetingsNoted'
    BY <1>9 DEF IInv, TypeOK, Objects, Ids, MeetingsNoted, Meeting, At, vars, memory
  <2>2. ASSUME NEW g \in Gateways PROVE GInv(g)'
    BY <1>9 DEF IInv, GInv, OneThread, ShownHas, Counts, Leaving, Holder, Entry, Going,
       EntryShown, vars, memory
  <2> QED
    BY <2>1, <2>2 DEF IInv
<1> QED
  BY <1>1, <1>2, <1>3, <1>4, <1>5, <1>6, <1>7, <1>8, <1>9 DEF Next

\* The invariant holds in every reachable state.
THEOREM InvariantHolds == Spec => []IInv
<1> QED
  BY InitIInv, StepIInv, PTL DEF Spec

\* The state keeps its shape; a thread back in its loop holds no connection.
THEOREM TypeCorrect == Spec => []TypeOK
<1>1. IInv => TypeOK
  BY DEF IInv
<1> QED
  BY <1>1, InvariantHolds, PTL

\* The entry of a gateway that nothing is done about is its one valid
\* connection, unless the threads met or an authentication failed half way.
THEOREM RegistryIsRight == Spec => []EntryRight
<1>1. ASSUME IInv, NEW g \in Gateways, Quiet(g), why[g] \cap {"raced", "failed"} = {}
      PROVE  Serving(g) = IF registry[g] = None THEN {} ELSE {registry[g]}
  <2>1. Holder(g) /\ Entry(g)
    BY <1>1 DEF IInv, GInv
  <2>2. auth # g
    BY <1>1 DEF IInv, TypeOK, Quiet, At, Threads
  <2>3. \A c \in Conns : valid[c] /\ gwid[c] = g => registry[g] = c
    BY <2>1, <2>2 DEF Holder
  <2>4. registry[g] # None => valid[registry[g]] /\ gwid[registry[g]] = g
    BY <1>1, <2>1 DEF Entry, Quiet, At
  <2> QED
    BY <1>1, <2>3, <2>4 DEF IInv, TypeOK, Keys, Serving
<1>2. IInv => EntryRight
  BY <1>1 DEF EntryRight
<1> QED
  BY <1>2, InvariantHolds, PTL

\* A gateway that is served is shown online, but for a late destructor, a race and
\* a half failed authentication.
THEOREM ServedAreShown == Spec => []ServedIsShown
<1>1. ASSUME IInv, NEW g \in Gateways, Quiet(g), Serving(g) # {},
             why[g] \cap {"raced", "failed", "late"} = {}
      PROVE  online[g]
  <2>1. Holder(g) /\ EntryShown(g)
    BY <1>1 DEF IInv, GInv
  <2>2. auth # g
    BY <1>1 DEF IInv, TypeOK, Quiet, At, Threads
  <2>3. registry[g] # None
    BY <1>1, <2>1, <2>2 DEF Serving, Holder
  <2> QED
    BY <1>1, <2>1, <2>3 DEF EntryShown
<1>2. IInv => ServedIsShown
  BY <1>1 DEF ServedIsShown
<1> QED
  BY <1>2, InvariantHolds, PTL

\* A gateway that is not served is shown offline, even after a failed
\* authentication; but for a failed sp_offline, a race and a crash.
THEOREM GoneAreShown == Spec => []GoneIsShown
<1>1. ASSUME IInv, NEW g \in Gateways, Quiet(g), Serving(g) = {},
             why[g] \cap {"raced", "missed", "crash"} = {}
      PROVE  ~online[g]
  <2>1. ShownHas(g)
    BY <1>1 DEF IInv, GInv
  <2>2. \A c \in Conns : ~Counts(c, g)
    BY <1>1 DEF Serving, Counts
  <2>3. \A t \in Threads : ~Leaving(t, g)
    BY <1>1 DEF Quiet, At, Leaving
  <2> QED
    BY <1>1, <2>1, <2>2, <2>3 DEF ShownHas
<1>2. IInv => GoneIsShown
  BY <1>1 DEF GoneIsShown
<1> QED
  BY <1>2, InvariantHolds, PTL
=============================================================================
