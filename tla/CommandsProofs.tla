--------------------------- MODULE CommandsProofs ---------------------------
(***************************************************************************)
(* Proofs about Commands, for any number of commands of both routes and    *)
(* terminals that come and go: the routes implement CommandSpec.           *)
(*                                                                         *)
(* Two facts carry the refinement: a command without a status is at one    *)
(* place at most (OnePlace), so that its status is recorded once and it is *)
(* queued once; and the place tells whether it was queued (QueuedWhere),   *)
(* so that the result recorded is true.                                    *)
(***************************************************************************)
EXTENDS Commands, TLAPS

\* A list without repetitions, longer by a command that was not on it.
LEMMA RangeAppend ==
    ASSUME NEW T, NEW s \in Seq(T), NEW x \in T, IsInjective(s), x \notin Range(s)
    PROVE  /\ Append(s, x) \in Seq(T)
           /\ IsInjective(Append(s, x))
           /\ Range(Append(s, x)) = Range(s) \cup {x}
<1> DEFINE t == Append(s, x)
<1>1. /\ t \in Seq(T)
      /\ DOMAIN s = 1 .. Len(s) /\ DOMAIN t = 1 .. Len(s) + 1 /\ Len(s) \in Nat
      /\ \A i \in 1 .. Len(s) : t[i] = s[i]
      /\ t[Len(s) + 1] = x
  OBVIOUS
<1>2. IsInjective(t)
  BY DEF IsInjective, Range
<1>3. Range(t) = Range(s) \cup {x}
  BY DEF Range
<1> QED
  BY <1>2, <1>3

\* ... and without its first one.
LEMMA RangeTail ==
    ASSUME NEW T, NEW s \in Seq(T), s # <<>>, IsInjective(s)
    PROVE  /\ Head(s) \in T /\ Head(s) \in Range(s)
           /\ Tail(s) \in Seq(T)
           /\ IsInjective(Tail(s))
           /\ Range(Tail(s)) = Range(s) \ {Head(s)}
<1> DEFINE t == Tail(s)
<1>1. /\ t \in Seq(T)
      /\ DOMAIN s = 1 .. Len(s) /\ DOMAIN t = 1 .. Len(s) - 1 /\ Len(s) \in Nat \ {0}
      /\ \A i \in 1 .. Len(s) - 1 : t[i] = s[i + 1]
      /\ Head(s) = s[1]
  OBVIOUS
<1>2. IsInjective(t)
  BY DEF IsInjective
<1>3. Range(t) = Range(s) \ {Head(s)}
  <2>1. ASSUME NEW y \in Range(t) PROVE y \in Range(s) \ {Head(s)}
    BY DEF Range, IsInjective
  <2>2. ASSUME NEW y \in Range(s) \ {Head(s)} PROVE y \in Range(t)
    <3>1. PICK i \in 1 .. Len(s) : y = s[i]
      BY DEF Range
    <3>2. i - 1 \in 1 .. Len(s) - 1 /\ t[i - 1] = y
      BY <3>1
    <3> QED
      BY <1>1, <3>2 DEF Range
  <2> QED
    BY <2>1, <2>2
<1>4. Head(s) \in T /\ Head(s) \in Range(s)
  BY DEF Range
<1> QED
  BY <1>2, <1>3, <1>4

\* ... and with none.
LEMMA RangeEmpty ==
    ASSUME NEW T
    PROVE  <<>> \in Seq(T) /\ IsInjective(<<>>) /\ Range(<<>>) = {}
  BY DEF IsInjective, Range

-----------------------------------------------------------------------------
(* The invariant                                                           *)

\* What may be on the link to the center.
RemoteResults == [cmd : RemoteCommands, result : {"ok", "failed"}]

\* The shape of the state.
TypeInv ==
    /\ asked \subseteq Commands
    /\ ending \in Results \cup {NoResult}
    /\ toProxy \in Seq(RemoteCommands)
    /\ toCenter \in Seq(RemoteResults)
    /\ sendList \in [Servers -> Seq(Commands)]
    /\ status \in [Commands -> {NoResult, "ok", "failed"}]

\* No list has a command twice.
Distinct ==
    /\ IsInjective(toProxy)
    /\ IsInjective(toCenter)
    /\ \A x, y \in Range(toCenter) : x.cmd = y.cmd => x = y
    /\ \A s \in Servers : IsInjective(sendList[s])
    /\ Range(sendList["center"]) \cap Range(sendList["proxy"]) = {}

\* The commands whose results are on the link, and the one whose result is known
\* to the handler that goes on.
Answering == {x.cmd : x \in Range(toCenter)}
Ending == {r \in Commands : ending # NoResult /\ ending.cmd = r}

\* A command without a status is at one place at most ...
OnePlace ==
    /\ Range(toProxy) \cap Answering = {}
    /\ astray \cap (Range(toProxy) \cup Answering) = {}
    /\ Ending \cap (Range(toProxy) \cup Answering \cup astray) = {}
    /\ Range(toProxy) \cup Answering \cup astray \cup Ending \cup queued \cup excused \subseteq asked
    /\ \A r \in Commands : status[r] # NoResult =>
           r \in asked \ (Range(toProxy) \cup Answering \cup astray \cup Ending)

\* ... and whether it has been queued is known from there.
QueuedWhere ==
    /\ excused \cap (Range(toProxy) \cup Answering \cup Ending) = {}
    /\ astray \subseteq excused \ queued
    /\ Range(toProxy) \cap queued = {}
    /\ \A x \in Range(toCenter) : x.result = "ok" <=> x.cmd \in queued
    /\ ending # NoResult =>
        IF ending.cmd \in RemoteCommands THEN ending.result = "ok" /\ ending.cmd \notin queued
        ELSE ending.result = "ok" <=> ending.cmd \in queued
    /\ received \subseteq queued
    /\ \A s \in Servers : Range(sendList[s]) \subseteq queued \ received

\* A command that found no link is nowhere, was not queued, and never counts as
\* failed; and it is the only remote one that the handler still has to record.
NoLink ==
    /\ unlinked \subseteq asked \cap RemoteCommands
    /\ unlinked \cap (Range(toProxy) \cup Answering \cup astray \cup queued) = {}
    /\ ending # NoResult => (ending.cmd \in unlinked <=> ending.cmd \in RemoteCommands)
    /\ \A r \in unlinked : status[r] \in {NoResult, "ok"}

\* The inductive invariant.
IInv == TypeInv /\ Distinct /\ OnePlace /\ QueuedWhere /\ NoLink

\* A step of CommandSpec, or none.
Abstract == [Promised!Next]_<<fate, stated>>

USE CommandsAssumption

\* Nothing has been asked at first, and every fate is open.
LEMMA InitIInv == CommandsInit => IInv /\ Promised!Init
<1> SUFFICES ASSUME CommandsInit PROVE IInv /\ Promised!Init
  OBVIOUS
<1>1. /\ Range(toProxy) = {} /\ Range(toCenter) = {} /\ Answering = {} /\ Ending = {}
      /\ \A s \in Servers : Range(sendList[s]) = {}
      /\ "center" \in Servers /\ "proxy" \in Servers
  BY RangeEmpty DEF CommandsInit, Answering, Ending, Servers
<1>2. TypeInv
  BY DEF CommandsInit, TypeInv
<1>3. Distinct
  BY <1>1, RangeEmpty DEF CommandsInit, Distinct
<1>4. OnePlace
  BY <1>1 DEF CommandsInit, OnePlace
<1>5. QueuedWhere
  BY <1>1 DEF CommandsInit, QueuedWhere
<1>6. Promised!Init
  BY <1>1 DEF CommandsInit, Promised!Init, fate, OnSendList, stated
<1>7. NoLink
  BY <1>1 DEF CommandsInit, NoLink
<1> QED
  BY <1>2, <1>3, <1>4, <1>5, <1>6, <1>7 DEF IInv

\* fate is a function, so it can be compared command by command.
LEMMA FateFunction ==
    /\ fate = [q \in Commands |-> fate[q]]
    /\ fate' = [q \in Commands |-> fate'[q]]
  BY DEF fate

\* A step that changes no fate and no status is a stutter of CommandSpec.
LEMMA SameFates ==
    ASSUME \A q \in Commands : fate'[q] = fate[q], stated' = stated
    PROVE  Abstract
  BY FateFunction, Zenon DEF Abstract

\* A command that comes to a send list is Queue.
LEMMA QueueMaps ==
    ASSUME NEW r \in Commands, fate[r] = "open", stated[r] = NoResult,
           \A q \in Commands \ {r} : fate'[q] = fate[q], fate'[r] = "queued", stated' = stated
    PROVE  Abstract
<1>1. fate' = [fate EXCEPT ![r] = fate'[r]]
  BY FateFunction
<1> QED
  BY <1>1 DEF Abstract, Promised!Next, Promised!Queue

\* A command that comes to its terminal is Receive.
LEMMA ReceiveMaps ==
    ASSUME NEW r \in Commands, fate[r] = "queued",
           \A q \in Commands \ {r} : fate'[q] = fate[q], fate'[r] = "received", stated' = stated
    PROVE  Abstract
<1>1. fate' = [fate EXCEPT ![r] = fate'[r]]
  BY FateFunction
<1> QED
  BY <1>1 DEF Abstract, Promised!Next, Promised!Receive

\* Commands that are lost with a connection are Lose.
LEMMA LoseMaps ==
    ASSUME \A q \in Commands :
               \/ fate'[q] = fate[q]
               \/ fate[q] = "queued" /\ fate'[q] = "dropped"
               \/ fate[q] = "open" /\ fate'[q] = "given up",
           stated' = stated
    PROVE  Abstract
<1> DEFINE D == {q \in Commands : fate[q] = "queued" /\ fate'[q] = "dropped"}
           G == {q \in Commands : fate[q] = "open" /\ fate'[q] = "given up"}
<1>1. fate' = [q \in Commands |->
          IF q \in D THEN "dropped" ELSE IF q \in G THEN "given up" ELSE fate[q]]
  BY FateFunction
<1>2. Promised!Lose(D, G)
  BY <1>1 DEF Promised!Lose
<1>3. D \in SUBSET Commands /\ G \in SUBSET Commands
  OBVIOUS
<1> QED
  BY <1>2, <1>3 DEF Abstract, Promised!Next

\* A 0 recorded for a command that was queued is RecordOk.
LEMMA RecordOkMaps ==
    ASSUME NEW r \in Commands, fate[r] \in {"queued", "received", "dropped"},
           stated[r] = NoResult, stated' = [stated EXCEPT ![r] = "ok"],
           \A q \in Commands : fate'[q] = fate[q]
    PROVE  Abstract
<1>1. fate' = fate
  BY FateFunction, Zenon
<1> QED
  BY <1>1 DEF Abstract, Promised!Next, Promised!RecordOk

\* A 1 recorded for one that is given up is RecordFailed.
LEMMA RecordFailedMaps ==
    ASSUME NEW r \in Commands, fate[r] = "open", fate'[r] = "given up",
           stated[r] = NoResult, stated' = [stated EXCEPT ![r] = "failed"],
           \A q \in Commands \ {r} : fate'[q] = fate[q]
    PROVE  Abstract
<1>1. fate' = [fate EXCEPT ![r] = "given up"]
  BY FateFunction
<1> QED
  BY <1>1 DEF Abstract, Promised!Next, Promised!RecordFailed

\* Of a command that had a link, what counts is what is recorded ...
LEMMA RecordedCounts ==
    ASSUME TypeInv, unlinked' = unlinked, NEW r \in Commands \ unlinked, NEW v,
           status' = [status EXCEPT ![r] = v]
    PROVE  stated[r] = status[r] /\ stated' = [stated EXCEPT ![r] = v]
  BY DEF TypeInv, stated

\* ... of one that had none, nothing.
LEMMA UnlinkedCountsNot ==
    ASSUME TypeInv, unlinked' = unlinked, NEW r \in Commands \cap unlinked, NEW v,
           status' = [status EXCEPT ![r] = v]
    PROVE  stated' = stated
  BY DEF TypeInv, stated

\* The command goes nowhere; its result is to be recorded.
LEMMA ForwardLocalFailsStep ==
    ASSUME IInv, NEW r \in Commands, ForwardLocalFails(r)
    PROVE  IInv' /\ Abstract
<1> USE DEF IInv
<1>1. TypeInv'
  BY DEF TypeInv, Ask, NotDispatched, link, terminals, Result, Results, ForwardLocalFails
<1>2. Distinct'
  BY DEF Distinct, NotDispatched, link, terminals, ForwardLocalFails
<1>3. OnePlace'
  BY DEF OnePlace, Answering, Ending, Ask, NotDispatched, link, Result, ForwardLocalFails
<1>4. QueuedWhere'
  BY DEF OnePlace, QueuedWhere, Answering, Ending, Ask, NotDispatched, link, terminals,
     Result, ForwardLocalFails
<1>5. Abstract
  <2>1. \A q \in Commands : fate'[q] = fate[q]
    BY DEF NotDispatched, link, terminals, ForwardLocalFails, fate, OnSendList
  <2>2. stated' = stated
    BY DEF stated, commandsHistory, ForwardLocalFails
  <2> QED
    BY <2>1, <2>2, SameFates
<1>6. NoLink'
  BY DEF OnePlace, QueuedWhere, NoLink, commandsHistory, Answering, Ending, Ask,
     NotDispatched, link, terminals, Result, ForwardLocalFails
<1> QED
  BY <1>1, <1>2, <1>3, <1>4, <1>5, <1>6

\* The same for a command whose enterprise is not linked.
LEMMA ForwardUnlinkedStep ==
    ASSUME IInv, NEW r \in Commands, ForwardUnlinked(r)
    PROVE  IInv' /\ Abstract
<1> USE DEF IInv
<1>1. TypeInv'
  BY DEF TypeInv, Ask, link, terminals, Result, Results, ForwardUnlinked
<1>2. Distinct'
  BY DEF Distinct, link, terminals, ForwardUnlinked
<1>3. OnePlace'
  BY DEF OnePlace, Answering, Ending, Ask, link, Result, ForwardUnlinked
<1>4. QueuedWhere'
  BY DEF OnePlace, QueuedWhere, Answering, Ending, Ask, link, terminals, Result,
     ForwardUnlinked
<1>5. Abstract
  <2>1. \A q \in Commands : fate'[q] = fate[q]
    BY DEF link, terminals, ForwardUnlinked, fate, OnSendList
  <2>2. stated' = stated
    <3>1. /\ status' = status /\ unlinked' = unlinked \cup {r}
          /\ status[r] = NoResult
      BY DEF ForwardUnlinked, OnePlace, Ask
    <3> QED
      BY <3>1 DEF stated
  <2> QED
    BY <2>1, <2>2, SameFates
<1>6. NoLink'
  BY DEF OnePlace, QueuedWhere, NoLink, commandsHistory, Answering, Ending, Ask, link,
     terminals, Result, ForwardUnlinked
<1> QED
  BY <1>1, <1>2, <1>3, <1>4, <1>5, <1>6

\* A new link carries nothing.
LEMMA LinkUpStep ==
    ASSUME IInv, LinkUp
    PROVE  IInv' /\ Abstract
<1> USE DEF IInv
<1>1. TypeInv'
  BY DEF TypeInv, terminals, LinkUp
<1>2. Distinct'
  BY DEF Distinct, terminals, LinkUp
<1>3. OnePlace'
  BY DEF commandsHistory, OnePlace, Answering, Ending, LinkUp
<1>4. QueuedWhere'
  BY DEF commandsHistory, QueuedWhere, Answering, Ending, terminals, LinkUp
<1>5. Abstract
  <2>1. \A q \in Commands : fate'[q] = fate[q]
    BY DEF commandsHistory, terminals, LinkUp, fate, OnSendList
  <2>2. stated' = stated
    BY DEF stated, commandsHistory, LinkUp
  <2> QED
    BY <2>1, <2>2, SameFates
<1>6. NoLink'
  BY DEF OnePlace, QueuedWhere, NoLink, commandsHistory, Answering, Ending, terminals,
     LinkUp
<1> QED
  BY <1>1, <1>2, <1>3, <1>4, <1>5, <1>6

\* A terminal's new connection has an empty list.
LEMMA TerminalOnlineStep ==
    ASSUME IInv, NEW s \in Servers, TerminalOnline(s)
    PROVE  IInv' /\ Abstract
<1> USE DEF IInv
<1>1. TypeInv'
  BY DEF TypeInv, link, TerminalOnline
<1>2. Distinct'
  BY DEF Distinct, link, TerminalOnline
<1>3. OnePlace'
  BY DEF commandsHistory, OnePlace, Answering, Ending, link, TerminalOnline
<1>4. QueuedWhere'
  BY DEF commandsHistory, QueuedWhere, Answering, Ending, link, TerminalOnline
<1>5. Abstract
  <2>1. \A q \in Commands : fate'[q] = fate[q]
    BY DEF commandsHistory, link, TerminalOnline, fate, OnSendList
  <2>2. stated' = stated
    BY DEF stated, commandsHistory, TerminalOnline
  <2> QED
    BY <2>1, <2>2, SameFates
<1>6. NoLink'
  BY DEF OnePlace, QueuedWhere, NoLink, commandsHistory, Answering, Ending, link,
     TerminalOnline
<1> QED
  BY <1>1, <1>2, <1>3, <1>4, <1>5, <1>6

\* Queued at the center, with the result to be recorded: Queue.
LEMMA ForwardLocalStep ==
    ASSUME IInv, NEW r \in Commands, ForwardLocal(r)
    PROVE  IInv' /\ Abstract
<1> USE DEF IInv
<1>a. Range(sendList["center"]) \subseteq queued /\ IsInjective(sendList["center"]) /\ sendList["center"] \in Seq(Commands)
  BY DEF TypeInv, Distinct, QueuedWhere, Servers
<1>b. /\ sendList'["center"] \in Seq(Commands)
      /\ IsInjective(sendList'["center"])
      /\ Range(sendList'["center"]) = Range(sendList["center"]) \cup {r}
      /\ sendList' = [sendList EXCEPT !["center"] = sendList'["center"]]
  <2>1. sendList' = [sendList EXCEPT !["center"] = Append(@, r)] /\ r \notin queued
    BY DEF ForwardLocal, Dispatch, Ask, OnePlace
  <2> QED
    BY <1>a, <2>1, RangeAppend DEF TypeInv, Servers
<1>1. TypeInv'
  BY DEF TypeInv, Ask, link, Result, Results, ForwardLocal, Dispatch, Servers
<1>2. Distinct'
  BY <1>b DEF Distinct, OnePlace, QueuedWhere, Ask, link, ForwardLocal, Dispatch, Servers
<1>3. OnePlace'
  BY DEF OnePlace, Answering, Ending, Ask, link, Result, ForwardLocal, Dispatch
<1>4. QueuedWhere'
  BY <1>b DEF OnePlace, QueuedWhere, Answering, Ending, Ask, link, Result, ForwardLocal,
     Dispatch
<1>5. Abstract
  <2>1. fate[r] = "open" /\ stated[r] = NoResult
    BY DEF OnePlace, QueuedWhere, Ask, ForwardLocal, fate, stated, OnSendList, Servers
  <2>2. fate'[r] = "queued"
    BY <1>b DEF OnePlace, QueuedWhere, Ask, ForwardLocal, fate, OnSendList, Dispatch
  <2>3. \A q \in Commands \ {r} : fate'[q] = fate[q]
    BY <1>a, <1>b DEF TypeInv, Distinct, OnePlace, QueuedWhere, Answering, Ending, Ask,
       NotDispatched, link, terminals, Result, Results, ForwardLocal, fate, OnSendList,
       Servers, Dispatch
  <2>4. stated' = stated
    BY DEF stated, commandsHistory, ForwardLocal
  <2> QED
    BY <2>1, <2>2, <2>3, <2>4, QueueMaps
<1>6. NoLink'
  BY <1>b DEF OnePlace, QueuedWhere, NoLink, commandsHistory, Answering, Ending, Ask, link,
     Result, ForwardLocal, Dispatch
<1> QED
  BY <1>1, <1>2, <1>3, <1>4, <1>5, <1>6

\* Queued at the proxy, with a result that nobody reads: Queue.
LEMMA ForwardAstrayStep ==
    ASSUME IInv, NEW r \in Commands, ForwardAstray(r)
    PROVE  IInv' /\ Abstract
<1> USE DEF IInv
<1>a. Range(sendList["proxy"]) \subseteq queued /\ IsInjective(sendList["proxy"]) /\ sendList["proxy"] \in Seq(Commands)
  BY DEF TypeInv, Distinct, QueuedWhere, Servers
<1>b. /\ sendList'["proxy"] \in Seq(Commands)
      /\ IsInjective(sendList'["proxy"])
      /\ Range(sendList'["proxy"]) = Range(sendList["proxy"]) \cup {r}
      /\ sendList' = [sendList EXCEPT !["proxy"] = sendList'["proxy"]]
  <2>1. sendList' = [sendList EXCEPT !["proxy"] = Append(@, r)] /\ r \notin queued
    BY DEF ForwardAstray, Dispatch, QueuedWhere
  <2> QED
    BY <1>a, <2>1, RangeAppend DEF TypeInv, Servers
<1>1. TypeInv'
  BY <1>b DEF TypeInv, ForwardAstray, Servers
<1>2. Distinct'
  BY <1>b DEF Distinct, QueuedWhere, ForwardAstray, Dispatch, Servers
<1>3. OnePlace'
  BY DEF OnePlace, Answering, Ending, ForwardAstray, Dispatch
<1>4. QueuedWhere'
  BY <1>b DEF QueuedWhere, Answering, Ending, ForwardAstray, Dispatch
<1>5. Abstract
  <2>1. fate[r] = "open" /\ stated[r] = NoResult
    BY DEF OnePlace, QueuedWhere, ForwardAstray, fate, stated, OnSendList, Servers
  <2>2. fate'[r] = "queued"
    BY <1>b DEF QueuedWhere, ForwardAstray, fate, OnSendList, Dispatch
  <2>3. \A q \in Commands \ {r} : fate'[q] = fate[q]
    BY <1>a, <1>b DEF TypeInv, Distinct, OnePlace, QueuedWhere, Answering, Ending, Ask,
       NotDispatched, link, terminals, Result, Results, ForwardAstray, fate, OnSendList,
       Servers, Dispatch
  <2>4. stated' = stated
    BY DEF stated, commandsHistory, ForwardAstray
  <2> QED
    BY <2>1, <2>2, <2>3, <2>4, QueueMaps
<1>6. NoLink'
  BY <1>b DEF OnePlace, QueuedWhere, NoLink, commandsHistory, Answering, Ending,
     ForwardAstray, Dispatch
<1> QED
  BY <1>1, <1>2, <1>3, <1>4, <1>5, <1>6

\* A command that went astray is given up: Lose.
LEMMA ForwardAstrayFailsStep ==
    ASSUME IInv, NEW r \in Commands, ForwardAstrayFails(r)
    PROVE  IInv' /\ Abstract
<1> USE DEF IInv
<1>1. TypeInv'
  BY DEF TypeInv, NotDispatched, terminals, ForwardAstrayFails
<1>2. Distinct'
  BY DEF Distinct, NotDispatched, terminals, ForwardAstrayFails
<1>3. OnePlace'
  BY DEF OnePlace, Answering, Ending, NotDispatched, ForwardAstrayFails
<1>4. QueuedWhere'
  BY DEF QueuedWhere, Answering, Ending, NotDispatched, terminals, ForwardAstrayFails
<1>5. Abstract
  <2>1. \A q \in Commands :
        \/ fate'[q] = fate[q]
        \/ fate[q] = "queued" /\ fate'[q] = "dropped"
        \/ fate[q] = "open" /\ fate'[q] = "given up"
    BY DEF TypeInv, Distinct, OnePlace, QueuedWhere, Answering, Ending, Ask,
       NotDispatched, link, terminals, Result, Results, ForwardAstrayFails, fate,
       OnSendList, Servers
  <2>2. stated' = stated
    BY DEF stated, commandsHistory, ForwardAstrayFails
  <2> QED
    BY <2>1, <2>2, LoseMaps
<1>6. NoLink'
  BY DEF OnePlace, QueuedWhere, NoLink, commandsHistory, Answering, Ending, NotDispatched,
     terminals, ForwardAstrayFails
<1> QED
  BY <1>1, <1>2, <1>3, <1>4, <1>5, <1>6

\* A command that does not get on the link is given up: Lose.
LEMMA ForwardRemoteFailsStep ==
    ASSUME IInv, NEW r \in Commands, ForwardRemoteFails(r)
    PROVE  IInv' /\ Abstract
<1> USE DEF IInv
<1>1. TypeInv'
  BY DEF TypeInv, Ask, link, terminals, ForwardRemoteFails
<1>2. Distinct'
  BY DEF Distinct, link, terminals, ForwardRemoteFails
<1>3. OnePlace'
  BY DEF OnePlace, Answering, Ending, Ask, link, ForwardRemoteFails
<1>4. QueuedWhere'
  BY DEF OnePlace, QueuedWhere, Answering, Ending, Ask, link, terminals,
     ForwardRemoteFails
<1>5. Abstract
  <2>1. \A q \in Commands :
        \/ fate'[q] = fate[q]
        \/ fate[q] = "queued" /\ fate'[q] = "dropped"
        \/ fate[q] = "open" /\ fate'[q] = "given up"
    BY DEF TypeInv, Distinct, OnePlace, QueuedWhere, Answering, Ending, Ask,
       NotDispatched, link, terminals, Result, Results, ForwardRemoteFails, fate,
       OnSendList, Servers
  <2>2. stated' = stated
    BY DEF stated, commandsHistory, ForwardRemoteFails
  <2> QED
    BY <2>1, <2>2, LoseMaps
<1>6. NoLink'
  BY DEF OnePlace, QueuedWhere, NoLink, commandsHistory, Answering, Ending, Ask, link,
     terminals, ForwardRemoteFails
<1> QED
  BY <1>1, <1>2, <1>3, <1>4, <1>5, <1>6

\* A result that is not recorded leaves the fate as it is, or given up.
LEMMA RecordEndingFailsStep ==
    ASSUME IInv, RecordEndingFails
    PROVE  IInv' /\ Abstract
<1> USE DEF IInv
<1>1. TypeInv'
  BY DEF TypeInv, link, terminals, RecordEndingFails
<1>2. Distinct'
  BY DEF Distinct, link, terminals, RecordEndingFails
<1>3. OnePlace'
  BY DEF TypeInv, OnePlace, Answering, Ending, link, Results, RecordEndingFails
<1>4. QueuedWhere'
  BY DEF TypeInv, OnePlace, QueuedWhere, Answering, Ending, link, terminals,
     RecordEndingFails
<1>5. Abstract
  <2>1. \A q \in Commands :
        \/ fate'[q] = fate[q]
        \/ fate[q] = "queued" /\ fate'[q] = "dropped"
        \/ fate[q] = "open" /\ fate'[q] = "given up"
    BY DEF TypeInv, Distinct, OnePlace, QueuedWhere, Answering, Ending, Ask,
       NotDispatched, link, terminals, Result, Results, RecordEndingFails, fate,
       OnSendList, Servers
  <2>2. stated' = stated
    BY DEF stated, commandsHistory, RecordEndingFails
  <2> QED
    BY <2>1, <2>2, LoseMaps
<1>6. NoLink'
  BY DEF TypeInv, OnePlace, QueuedWhere, NoLink, commandsHistory, Answering, Ending, link,
     terminals, RecordEndingFails
<1> QED
  BY <1>1, <1>2, <1>3, <1>4, <1>5, <1>6

\* What the proxy will not get is given up, what it has is astray.
LEMMA LoseLinkStep ==
    ASSUME IInv, LoseLink, excused' = excused \cup OnLink,
           UNCHANGED <<asked, ending, terminals, status, queued, unlinked>>
    PROVE  IInv' /\ Abstract
<1> USE DEF IInv
<1>a. /\ toProxy' = <<>> /\ toProxy' \in Seq(RemoteCommands) /\ Range(toProxy') = {}
      /\ toCenter' = <<>> /\ toCenter' \in Seq(RemoteResults) /\ Range(toCenter') = {}
      /\ IsInjective(toProxy') /\ IsInjective(toCenter')
  BY RangeEmpty DEF LoseLink
<1>b. /\ Answering' = {}
      /\ Ending' = Ending
  BY <1>a DEF Answering, Ending
<1>c. /\ astray' = astray \cup Range(toProxy)
      /\ excused' = excused \cup Range(toProxy) \cup Answering
  BY DEF LoseLink, OnLink, Answering, Range
<1>d. UNCHANGED <<asked, ending, online, sendList, received, status, queued, unlinked>>
  BY DEF terminals
<1>e. Range(toProxy) \subseteq Commands
  BY DEF TypeInv, OnePlace
<1>1. TypeInv'
  BY <1>a, <1>d DEF TypeInv
<1>2. Distinct'
  BY <1>a, <1>d DEF Distinct
<1>3. OnePlace'
  BY <1>a, <1>b, <1>c DEF OnePlace
<1>4. QueuedWhere'
  BY <1>a, <1>b, <1>c, <1>d DEF QueuedWhere, OnePlace
<1>5. Abstract
  <2>1. \A q \in Commands :
        \/ fate'[q] = fate[q]
        \/ fate[q] = "open" /\ fate'[q] = "given up"
    BY <1>c, <1>d, <1>e DEF OnePlace, QueuedWhere, fate, OnSendList
  <2>2. stated' = stated
    BY <1>d DEF stated
  <2> QED
    BY <2>1, <2>2, LoseMaps
<1>6. NoLink'
  BY <1>a, <1>b, <1>c, <1>d DEF QueuedWhere, NoLink, commandsHistory, OnePlace
<1> QED
  BY <1>1, <1>2, <1>3, <1>4, <1>5, <1>6

\* The result that the handler has is recorded.
LEMMA RecordEndingStep ==
    ASSUME IInv, RecordEnding
    PROVE  IInv' /\ Abstract
<1> USE DEF IInv
<1> DEFINE r == ending.cmd
<1>a. /\ ending # NoResult /\ r \in Commands /\ ending.result \in {"ok", "failed"}
      /\ status' = [status EXCEPT ![r] = ending.result]
      /\ ending' = NoResult
      /\ UNCHANGED <<asked, toProxy, toCenter, astray, sendList, received, commandsHistory>>
  BY DEF TypeInv, Results, RecordEnding, link, terminals
<1>b. Ending = {r} /\ Ending' = {} /\ Answering' = Answering
  BY <1>a DEF Ending, Answering
<1>1. TypeInv'
  BY <1>a DEF TypeInv
<1>2. Distinct'
  BY <1>a DEF Distinct
<1>3. OnePlace'
  BY <1>a, <1>b DEF commandsHistory, OnePlace
<1>4. QueuedWhere'
  BY <1>a, <1>b DEF commandsHistory, QueuedWhere
<1>5. Abstract
  <2>1. status[r] = NoResult /\ r \notin astray /\ r \notin excused
    BY <1>a, <1>b DEF OnePlace, QueuedWhere
  <2>2. \A q \in Commands \ {r} : fate'[q] = fate[q]
    BY <1>a DEF TypeInv, fate, OnSendList, commandsHistory
  <2>3. unlinked' = unlinked /\ r \in Commands
    BY <1>a DEF commandsHistory
  <2>4. CASE r \in queued
    <3>1. fate[r] \in {"queued", "received", "dropped"} /\ fate'[r] = fate[r]
      BY <1>a, <2>4 DEF QueuedWhere, fate, OnSendList, Servers, commandsHistory
    <3>2. r \notin unlinked /\ ending.result = "ok"
      BY <1>a, <2>4 DEF QueuedWhere, NoLink
    <3>3. stated[r] = NoResult /\ stated' = [stated EXCEPT ![r] = "ok"]
      BY <1>a, <2>1, <2>3, <3>2, RecordedCounts
    <3> QED
      BY <2>2, <2>3, <3>1, <3>3, RecordOkMaps
  <2>5. CASE r \notin queued
    <3>1. fate[r] = "open" /\ fate'[r] = "given up"
      BY <1>a, <2>1, <2>5 DEF TypeInv, QueuedWhere, fate, OnSendList, Servers, commandsHistory
    <3>2. CASE r \in RemoteCommands
      <4>1. stated' = stated
        BY <1>a, <2>3, <3>2, UnlinkedCountsNot DEF NoLink
      <4> QED
        BY <2>2, <3>1, <4>1, LoseMaps
    <3>3. CASE r \notin RemoteCommands
      <4>1. r \notin unlinked /\ ending.result = "failed"
        BY <1>a, <2>5, <3>3 DEF QueuedWhere, NoLink
      <4>2. stated[r] = NoResult /\ stated' = [stated EXCEPT ![r] = "failed"]
        BY <1>a, <2>1, <2>3, <4>1, RecordedCounts
      <4> QED
        BY <2>2, <2>3, <3>1, <4>2, RecordFailedMaps
    <3> QED
      BY <3>2, <3>3
  <2> QED
    BY <2>4, <2>5
<1>6. NoLink'
  BY <1>a, <1>b DEF OnePlace, QueuedWhere, NoLink, commandsHistory
<1> QED
  BY <1>1, <1>2, <1>3, <1>4, <1>5, <1>6

\* The result that the proxy has sent is recorded.
LEMMA HandleResponseStep ==
    ASSUME IInv, HandleResponse
    PROVE  IInv' /\ Abstract
<1> USE DEF IInv
<1> DEFINE x == Head(toCenter)
<1>a. /\ x \in RemoteResults /\ x \in Range(toCenter)
      /\ toCenter' \in Seq(RemoteResults)
      /\ IsInjective(toCenter')
      /\ Range(toCenter') = Range(toCenter) \ {x}
  BY RangeTail DEF TypeInv, Distinct, HandleResponse
<1>b. /\ status' = [status EXCEPT ![x.cmd] = x.result]
      /\ UNCHANGED <<asked, ending, toProxy, astray, sendList, received, commandsHistory>>
  BY DEF HandleResponse, terminals
<1>c. x.cmd \in Commands /\ x.result \in {"ok", "failed"}
  BY <1>a DEF RemoteResults, Commands
<1>d. Answering' = Answering \ {x.cmd} /\ x.cmd \in Answering /\ Ending' = Ending
  BY <1>a, <1>b DEF Distinct, Answering, Ending
<1> HIDE DEF x
<1>1. TypeInv'
  BY <1>a, <1>b, <1>c DEF TypeInv
<1>2. Distinct'
  BY <1>a, <1>b DEF Distinct
<1>3. OnePlace'
  BY <1>b, <1>d DEF commandsHistory, OnePlace
<1>4. QueuedWhere'
  BY <1>a, <1>b, <1>d DEF commandsHistory, QueuedWhere
<1>5. Abstract
  <2>1. /\ status[x.cmd] = NoResult /\ x.cmd \notin astray /\ x.cmd \notin excused
        /\ x.cmd \notin unlinked /\ unlinked' = unlinked
    BY <1>b, <1>c, <1>d DEF OnePlace, QueuedWhere, NoLink, commandsHistory
  <2>2. \A q \in Commands \ {x.cmd} : fate'[q] = fate[q]
    BY <1>b, <1>c DEF TypeInv, fate, OnSendList, commandsHistory
  <2>3. x.result = "ok" <=> x.cmd \in queued
    BY <1>a DEF QueuedWhere
  <2>4. stated[x.cmd] = NoResult /\ stated' = [stated EXCEPT ![x.cmd] = x.result]
    BY <1>b, <1>c, <2>1, RecordedCounts
  <2>5. CASE x.cmd \in queued
    <3>1. fate[x.cmd] \in {"queued", "received", "dropped"} /\ fate'[x.cmd] = fate[x.cmd]
      BY <1>b, <1>c, <2>5 DEF QueuedWhere, fate, OnSendList, Servers, commandsHistory
    <3> QED
      BY <1>c, <2>2, <2>3, <2>4, <2>5, <3>1, RecordOkMaps
  <2>6. CASE x.cmd \notin queued
    <3>1. fate[x.cmd] = "open" /\ fate'[x.cmd] = "given up"
      BY <1>b, <1>c, <2>1, <2>6 DEF TypeInv, QueuedWhere, fate, OnSendList, Servers, commandsHistory
    <3> QED
      BY <1>c, <2>2, <2>3, <2>4, <2>6, <3>1, RecordFailedMaps
  <2> QED
    BY <2>5, <2>6
<1>6. NoLink'
  BY <1>a, <1>b, <1>d DEF OnePlace, QueuedWhere, NoLink, commandsHistory
<1> QED
  BY <1>1, <1>2, <1>3, <1>4, <1>5, <1>6

\* The command is on the link, its fate open.
LEMMA ForwardRemoteStep ==
    ASSUME IInv, NEW r \in Commands, ForwardRemote(r)
    PROVE  IInv' /\ Abstract
<1> USE DEF IInv
<1>a. r \in RemoteCommands /\ r \notin asked /\ r \notin Range(toProxy)
  BY DEF ForwardRemote, Ask, OnePlace
<1>b. /\ toProxy' \in Seq(RemoteCommands)
      /\ IsInjective(toProxy')
      /\ Range(toProxy') = Range(toProxy) \cup {r}
  BY <1>a, RangeAppend DEF TypeInv, Distinct, ForwardRemote
<1>c. /\ ending = NoResult /\ asked' = asked \cup {r}
      /\ UNCHANGED <<ending, toCenter, astray, sendList, received, status, commandsHistory>>
  BY DEF ForwardRemote, Ask, terminals
<1>d. Ending' = Ending /\ Answering' = Answering
  BY <1>c DEF Ending, Answering
<1>1. TypeInv'
  BY <1>b, <1>c DEF TypeInv
<1>2. Distinct'
  BY <1>b, <1>c DEF Distinct
<1>3. OnePlace'
  BY <1>a, <1>b, <1>c, <1>d DEF commandsHistory, OnePlace
<1>4. QueuedWhere'
  BY <1>a, <1>b, <1>c, <1>d DEF commandsHistory, OnePlace, QueuedWhere
<1>5. Abstract
  <2>1. \A q \in Commands : fate'[q] = fate[q]
    BY <1>c DEF fate, OnSendList, commandsHistory
  <2>2. stated' = stated
    BY <1>c DEF stated, commandsHistory
  <2> QED
    BY <2>1, <2>2, SameFates
<1>6. NoLink'
  BY <1>a, <1>b, <1>c, <1>d DEF OnePlace, QueuedWhere, NoLink, commandsHistory
<1> QED
  BY <1>1, <1>2, <1>3, <1>4, <1>5, <1>6

\* The command leaves the link in one direction, and its result comes in the other.
LEMMA ProxyAnswers ==
    ASSUME IInv, toProxy # <<>>, NEW res \in {"ok", "failed"},
           toCenter' = Append(toCenter, Result(Head(toProxy), res)),
           toProxy' = Tail(toProxy),
           UNCHANGED <<ending>>
    PROVE  /\ Head(toProxy) \in RemoteCommands /\ Head(toProxy) \in Range(toProxy)
           /\ toProxy' \in Seq(RemoteCommands) /\ IsInjective(toProxy')
           /\ Range(toProxy') = Range(toProxy) \ {Head(toProxy)}
           /\ toCenter' \in Seq(RemoteResults) /\ IsInjective(toCenter')
           /\ Range(toCenter') = Range(toCenter) \cup {Result(Head(toProxy), res)}
           /\ Answering' = Answering \cup {Head(toProxy)}
           /\ Ending' = Ending
           /\ \A x, y \in Range(toCenter') : x.cmd = y.cmd => x = y
<1> USE DEF IInv
<1> DEFINE r == Head(toProxy)
           x == Result(r, res)
<1>1. /\ r \in RemoteCommands /\ r \in Range(toProxy)
      /\ toProxy' \in Seq(RemoteCommands) /\ IsInjective(toProxy')
      /\ Range(toProxy') = Range(toProxy) \ {r}
  BY RangeTail DEF TypeInv, Distinct
<1>2. x \in RemoteResults /\ x.cmd = r /\ x.result = res
  BY <1>1 DEF Result, RemoteResults
<1>3. x \notin Range(toCenter)
  BY <1>1, <1>2 DEF OnePlace, Answering
<1>4. /\ toCenter' \in Seq(RemoteResults) /\ IsInjective(toCenter')
      /\ Range(toCenter') = Range(toCenter) \cup {x}
  BY <1>2, <1>3, RangeAppend DEF TypeInv, Distinct
<1>5. Answering' = Answering \cup {r} /\ Ending' = Ending
  BY <1>2, <1>4 DEF Answering, Ending
<1>6. \A y, z \in Range(toCenter') : y.cmd = z.cmd => y = z
  BY <1>1, <1>2, <1>4 DEF Distinct, OnePlace, Answering
<1> QED
  BY <1>1, <1>4, <1>5, <1>6

\* The result says that the command was not queued.
LEMMA ForwardToTerminalFailsStep ==
    ASSUME IInv, ForwardToTerminalFails
    PROVE  IInv' /\ Abstract
<1> USE DEF IInv
<1> DEFINE r == Head(toProxy)
           x == Result(r, "failed")
<1>a. /\ r \in RemoteCommands /\ r \in Range(toProxy)
      /\ toProxy' \in Seq(RemoteCommands) /\ IsInjective(toProxy')
      /\ Range(toProxy') = Range(toProxy) \ {r}
      /\ toCenter' \in Seq(RemoteResults) /\ IsInjective(toCenter')
      /\ Range(toCenter') = Range(toCenter) \cup {x}
      /\ Answering' = Answering \cup {r}
      /\ Ending' = Ending
      /\ \A y, z \in Range(toCenter') : y.cmd = z.cmd => y = z
  BY ProxyAnswers DEF ForwardToTerminalFails
<1>b. UNCHANGED <<asked, ending, astray, sendList, received, status, queued, excused, unlinked>>
  BY DEF ForwardToTerminalFails, NotDispatched, terminals
<1>c. x.cmd = r /\ x.result = "failed"
  BY DEF Result
<1> HIDE DEF r, x
<1>1. TypeInv'
  BY <1>a, <1>b DEF TypeInv
<1>2. Distinct'
  BY <1>a, <1>b DEF Distinct
<1>3. OnePlace'
  BY <1>a, <1>b DEF OnePlace
<1>4. QueuedWhere'
  BY <1>a, <1>b, <1>c DEF QueuedWhere
<1>5. Abstract
  <2>1. \A q \in Commands : fate'[q] = fate[q]
    BY <1>b DEF fate, OnSendList
  <2>2. stated' = stated
    BY <1>b DEF stated
  <2> QED
    BY <2>1, <2>2, SameFates
<1>6. NoLink'
  BY <1>a, <1>b, <1>c DEF OnePlace, QueuedWhere, NoLink, commandsHistory
<1> QED
  BY <1>1, <1>2, <1>3, <1>4, <1>5, <1>6

\* Queued at the proxy, with the result on the link: Queue.
LEMMA ForwardToTerminalStep ==
    ASSUME IInv, ForwardToTerminal
    PROVE  IInv' /\ Abstract
<1> USE DEF IInv
<1> DEFINE r == Head(toProxy)
           x == Result(r, "ok")
<1>a. /\ r \in RemoteCommands /\ r \in Range(toProxy)
      /\ toProxy' \in Seq(RemoteCommands) /\ IsInjective(toProxy')
      /\ Range(toProxy') = Range(toProxy) \ {r}
      /\ toCenter' \in Seq(RemoteResults) /\ IsInjective(toCenter')
      /\ Range(toCenter') = Range(toCenter) \cup {x}
      /\ Answering' = Answering \cup {r}
      /\ Ending' = Ending
      /\ \A y, z \in Range(toCenter') : y.cmd = z.cmd => y = z
  BY ProxyAnswers DEF ForwardToTerminal
<1>b. /\ UNCHANGED <<asked, ending, astray, received, status, excused, unlinked>>
      /\ queued' = queued \cup {r}
  BY DEF ForwardToTerminal, Dispatch
<1>c. x.cmd = r /\ x.result = "ok" /\ r \in Commands
  BY <1>a DEF Result, Commands
<1>d. /\ sendList["proxy"] \in Seq(Commands) /\ IsInjective(sendList["proxy"])
      /\ r \notin queued /\ Range(sendList["proxy"]) \subseteq queued
  BY <1>a DEF TypeInv, Distinct, QueuedWhere, Servers
<1>e. /\ sendList' = [sendList EXCEPT !["proxy"] = sendList'["proxy"]]
      /\ sendList'["proxy"] = Append(sendList["proxy"], r)
  BY DEF TypeInv, ForwardToTerminal, Dispatch, Servers
<1> HIDE DEF r, x
<1>f. /\ sendList'["proxy"] \in Seq(Commands)
      /\ IsInjective(sendList'["proxy"])
      /\ Range(sendList'["proxy"]) = Range(sendList["proxy"]) \cup {r}
  BY <1>c, <1>d, <1>e, RangeAppend
<1>g. \A s \in Servers \ {"proxy"} : sendList'[s] = sendList[s]
  BY <1>e DEF TypeInv
<1>h. "center" \in Servers /\ Range(sendList["center"]) \subseteq queued \ received
  BY DEF QueuedWhere, Servers
<1>1. TypeInv'
  BY <1>a, <1>b, <1>e, <1>f DEF TypeInv
<1>2. Distinct'
  BY <1>a, <1>d, <1>f, <1>g, <1>h DEF Distinct, Servers
<1>3. OnePlace'
  BY <1>a, <1>b DEF OnePlace
<1>4. QueuedWhere'
  <2>1. r \notin queued /\ r \notin astray /\ r \notin excused /\ r \notin received
    BY <1>a DEF QueuedWhere
  <2>2. \A y \in Range(toCenter') : y.result = "ok" <=> y.cmd \in queued'
    <3> SUFFICES ASSUME NEW y \in Range(toCenter')
                 PROVE  y.result = "ok" <=> y.cmd \in queued'
      OBVIOUS
    <3>1. CASE y = x
      BY <1>b, <1>c, <3>1
    <3>2. CASE y \in Range(toCenter)
      BY <1>a, <1>b, <3>2 DEF QueuedWhere, OnePlace, Answering
    <3> QED
      BY <1>a, <3>1, <3>2
  <2>3. \A s \in Servers : Range(sendList'[s]) \subseteq queued' \ received'
    BY <1>b, <1>f, <1>g, <2>1 DEF QueuedWhere
  <2>4. ending' # NoResult => ending'.cmd # r
    BY <1>a, <1>c DEF OnePlace, Ending
  <2> QED
    BY <1>a, <1>b, <2>2, <2>3, <2>4 DEF QueuedWhere
<1>5. Abstract
  <2>1. fate[r] = "open" /\ stated[r] = NoResult
    BY <1>a, <1>c DEF OnePlace, QueuedWhere, fate, stated, OnSendList, Servers
  <2>2. fate'[r] = "queued"
    BY <1>b, <1>c, <1>d, <1>f DEF QueuedWhere, fate, OnSendList
  <2>3. \A q \in Commands \ {r} : fate'[q] = fate[q]
    BY <1>b, <1>e, <1>f DEF TypeInv, fate, OnSendList, Servers
  <2>4. stated' = stated
    BY <1>b DEF stated
  <2> QED
    BY <1>c, <2>1, <2>2, <2>3, <2>4, QueueMaps
<1>6. NoLink'
  BY <1>a, <1>b DEF OnePlace, QueuedWhere, NoLink, commandsHistory
<1> QED
  BY <1>1, <1>2, <1>3, <1>4, <1>5, <1>6

\* The commands on the list are dropped: Lose.
LEMMA TerminalOfflineStep ==
    ASSUME IInv, NEW s \in Servers, TerminalOffline(s)
    PROVE  IInv' /\ Abstract
<1> USE DEF IInv
<1>a. <<>> \in Seq(Commands) /\ IsInjective(<<>>) /\ Range(<<>>) = {}
  BY RangeEmpty
<1>b. sendList'[s] = <<>> /\ \A t \in Servers \ {s} : sendList'[t] = sendList[t]
  BY DEF TypeInv, TerminalOffline
<1>1. TypeInv'
  BY DEF TypeInv, link, TerminalOffline
<1>2. Distinct'
  BY <1>a DEF Distinct, link, TerminalOffline
<1>3. OnePlace'
  BY DEF commandsHistory, OnePlace, Answering, Ending, link, TerminalOffline
<1>4. QueuedWhere'
  BY <1>a DEF commandsHistory, QueuedWhere, Answering, Ending, link, TerminalOffline
<1>5. Abstract
  <2>1. \A q \in Commands :
        \/ fate'[q] = fate[q]
        \/ fate[q] = "queued" /\ fate'[q] = "dropped"
        \/ fate[q] = "open" /\ fate'[q] = "given up"
    BY <1>a, <1>b DEF commandsHistory, TypeInv, Distinct, OnePlace, QueuedWhere, Answering, Ending, Ask,
       NotDispatched, link, terminals, Result, Results, TerminalOffline, fate, OnSendList,
       Servers
  <2>2. stated' = stated
    BY DEF stated, commandsHistory, TerminalOffline
  <2> QED
    BY <2>1, <2>2, LoseMaps
<1>6. NoLink'
  BY <1>a DEF OnePlace, QueuedWhere, NoLink, commandsHistory, Answering, Ending, link,
     TerminalOffline
<1> QED
  BY <1>1, <1>2, <1>3, <1>4, <1>5, <1>6

\* The first command of the list is received: Receive.
LEMMA TransmitStep ==
    ASSUME IInv, NEW s \in Servers, Transmit(s)
    PROVE  IInv' /\ Abstract
<1> USE DEF IInv
<1> DEFINE r == Head(sendList[s])
<1>a. /\ r \in Commands /\ r \in Range(sendList[s])
      /\ sendList'[s] \in Seq(Commands)
      /\ IsInjective(sendList'[s])
      /\ Range(sendList'[s]) = Range(sendList[s]) \ {r}
  BY RangeTail DEF TypeInv, Distinct, Transmit
<1>b. /\ sendList' = [sendList EXCEPT ![s] = sendList'[s]]
      /\ received' = received \cup {r}
  BY DEF TypeInv, Transmit
<1>c. UNCHANGED <<asked, ending, link, online, status, commandsHistory>>
  BY DEF Transmit
<1> HIDE DEF r
<1>1. TypeInv'
  BY <1>a, <1>b, <1>c DEF TypeInv, link
<1>2. Distinct'
  BY <1>a, <1>b, <1>c DEF TypeInv, Distinct, link, Servers
<1>3. OnePlace'
  BY <1>c DEF commandsHistory, OnePlace, link, Answering, Ending
<1>4. QueuedWhere'
  BY <1>a, <1>b, <1>c DEF commandsHistory, TypeInv, Distinct, QueuedWhere, link, Answering, Ending, Servers
<1>5. Abstract
  <2>1. fate[r] = "queued"
    BY <1>a DEF QueuedWhere, fate, OnSendList, Servers
  <2>2. fate'[r] = "received"
    BY <1>a, <1>b, <1>c DEF TypeInv, Distinct, commandsHistory, fate, OnSendList, Servers
  <2>3. \A q \in Commands \ {r} : fate'[q] = fate[q]
    BY <1>a, <1>b, <1>c DEF TypeInv, fate, OnSendList, Servers, link, commandsHistory
  <2>4. stated' = stated
    BY <1>c DEF stated, commandsHistory
  <2> QED
    BY <1>a, <2>1, <2>2, <2>3, <2>4, ReceiveMaps
<1>6. NoLink'
  BY <1>a, <1>b, <1>c DEF TypeInv, Distinct, OnePlace, QueuedWhere, NoLink,
     commandsHistory, link, Answering, Ending, Servers
<1> QED
  BY <1>1, <1>2, <1>3, <1>4, <1>5, <1>6

\* One case for each action of CommandsNext.
LEMMA StepIInv == IInv /\ [CommandsNext]_commandsVars => IInv' /\ Abstract
<1> SUFFICES ASSUME IInv, [CommandsNext]_commandsVars PROVE IInv' /\ Abstract
  OBVIOUS
<1>1. ASSUME NEW r \in Commands,
             \/ ForwardLocal(r) \/ ForwardLocalFails(r)
             \/ ForwardRemote(r) \/ ForwardRemoteFails(r) \/ ForwardUnlinked(r)
             \/ ForwardAstray(r) \/ ForwardAstrayFails(r)
      PROVE  IInv' /\ Abstract
  BY <1>1, ForwardLocalStep, ForwardLocalFailsStep, ForwardRemoteStep,
     ForwardRemoteFailsStep, ForwardUnlinkedStep, ForwardAstrayStep,
     ForwardAstrayFailsStep
<1>2. CASE CenterGoesOn
  <2>1. CASE HandleResponseFails
    BY <2>1, LoseLinkStep DEF HandleResponseFails
  <2> QED
    BY <1>2, <2>1, RecordEndingStep, RecordEndingFailsStep, HandleResponseStep DEF
       CenterGoesOn
<1>3. CASE ProxyGoesOn
  BY <1>3, ForwardToTerminalStep, ForwardToTerminalFailsStep DEF ProxyGoesOn
<1>4. CASE LinkUp
  BY <1>4, LinkUpStep
<1>5. CASE LinkDown
  BY <1>5, LoseLinkStep DEF LinkDown
<1>6. ASSUME NEW s \in Servers, TerminalOnline(s) \/ Transmit(s) \/ TerminalOffline(s)
      PROVE  IInv' /\ Abstract
  BY <1>6, TerminalOnlineStep, TransmitStep, TerminalOfflineStep
<1>7. CASE UNCHANGED commandsVars
  <2>1. IInv'
    BY <1>7 DEF IInv, TypeInv, Distinct, OnePlace, QueuedWhere, NoLink, Answering, Ending,
       commandsVars, link, terminals, commandsHistory
  <2>2. Abstract
    BY <1>7, SameFates DEF commandsVars, link, terminals, commandsHistory, fate, stated, OnSendList
  <2> QED
    BY <2>1, <2>2
<1> QED
  BY <1>1, <1>2, <1>3, <1>4, <1>5, <1>6, <1>7 DEF CommandsNext

\* The invariant holds in every reachable state.
THEOREM InvariantHolds == CommandsSpec => []IInv
  BY InitIInv, StepIInv, PTL DEF CommandsSpec

\* The two routes of a command implement CommandSpec: whatever fails on the way, a
\* status that is recorded for a command that had a route is true, and no command
\* comes to its terminal twice.
THEOREM StatusesAreTrue == CommandsSpec => Refines
<1>1. CommandsInit => IInv /\ Promised!Init
  BY InitIInv
<1>2. IInv /\ [CommandsNext]_commandsVars => IInv' /\ [Promised!Next]_<<fate, stated>>
  BY StepIInv DEF Abstract
<1> QED
  BY <1>1, <1>2, PTL DEF CommandsSpec, Refines, Promised!Spec

-----------------------------------------------------------------------------
(* What the refinement says of the program                                 *)

\* What a status says of its command, in the terms of CommandSpec.
Kept ==
    \A r \in Commands :
        /\ stated[r] \in {NoResult, "ok", "failed"}
        /\ stated[r] = "failed" => fate[r] = "given up"
        /\ stated[r] = "ok" => fate[r] \in {"queued", "received", "dropped"}

\* A status that counts stays, and so does the end of a command.
Final ==
    \A r \in Commands :
        /\ stated[r] # NoResult => stated'[r] = stated[r]
        /\ fate[r] \in {"received", "dropped", "given up"} => fate'[r] = fate[r]

\* CommandSpec keeps its word in each of its steps.
LEMMA PromiseKept ==
    ASSUME Kept, [Promised!Next]_<<fate, stated>>,
           stated \in [Commands -> {NoResult, "ok", "failed"}], DOMAIN fate = Commands
    PROVE  Kept' /\ Final
<1>1. CASE UNCHANGED <<fate, stated>>
  BY <1>1 DEF Kept, Final
<1>2. ASSUME NEW r \in Commands, Promised!Queue(r)
      PROVE  Kept' /\ Final
  BY <1>2 DEF Promised!Queue, Kept, Final
<1>3. ASSUME NEW r \in Commands, Promised!Receive(r)
      PROVE  Kept' /\ Final
  BY <1>3 DEF Promised!Receive, Kept, Final
<1>4. ASSUME NEW r \in Commands, Promised!RecordOk(r)
      PROVE  Kept' /\ Final
  BY <1>4 DEF Promised!RecordOk, Kept, Final
<1>5. ASSUME NEW r \in Commands, Promised!RecordFailed(r)
      PROVE  Kept' /\ Final
  BY <1>5 DEF Promised!RecordFailed, Kept, Final
<1>6. ASSUME NEW D \in SUBSET Commands, NEW G \in SUBSET Commands, Promised!Lose(D, G)
      PROVE  Kept' /\ Final
  BY <1>6 DEF Promised!Lose, Kept, Final
<1> QED
  BY <1>1, <1>2, <1>3, <1>4, <1>5, <1>6 DEF Promised!Next

\* What counts of the statuses is a status, too.
LEMMA StatedType ==
    ASSUME IInv
    PROVE  stated \in [Commands -> {NoResult, "ok", "failed"}] /\ DOMAIN fate = Commands
  BY DEF IInv, TypeInv, stated, fate

\* It keeps its word in every reachable state.
LEMMA KeptHolds == CommandsSpec => []Kept
<1>1. CommandsInit => Kept
  BY DEF CommandsInit, Kept, stated
<1>2. IInv /\ Kept /\ [CommandsNext]_commandsVars => Kept'
  BY StepIInv, StatedType, PromiseKept DEF Abstract
<1> QED
  BY <1>1, <1>2, InvariantHolds, PTL DEF CommandsSpec

\* What the web reads is so: a command recorded with 1 is on no send list and was
\* never received, one recorded with 0 was queued exactly if it found a route.
Truthful ==
    \A r \in Commands :
        /\ status[r] = "failed" => r \notin received /\ r \notin OnSendList
        /\ status[r] = "ok" => (r \in queued <=> r \notin unlinked)

\* Every status the database holds is true, at any time after it was recorded; but
\* for the commands that found no link, which are the only ones recorded with 0 that
\* were not queued (the comment at icslocalserver.cpp:1027 wants a failure there).
THEOREM StatusesStayTrue == CommandsSpec => []Truthful
<1>1. ASSUME IInv, Kept PROVE Truthful
  <2> SUFFICES ASSUME NEW r \in Commands
               PROVE  /\ status[r] = "failed" => r \notin received /\ r \notin OnSendList
                      /\ status[r] = "ok" => (r \in queued <=> r \notin unlinked)
    BY DEF Truthful
  <2>1. CASE r \in unlinked
    BY <1>1, <2>1 DEF IInv, NoLink
  <2>2. CASE r \notin unlinked
    <3>1. stated[r] = status[r]
      BY <2>2 DEF stated
    <3> QED
      BY <1>1, <2>2, <3>1
         DEF IInv, QueuedWhere, Kept, fate, OnSendList, Servers
  <2> QED
    BY <2>1, <2>2
<1>2. IInv /\ Kept => Truthful
  BY <1>1
<1> QED
  BY <1>2, KeptHolds, InvariantHolds, PTL

\* A status is recorded for a command that has none.
LEMMA StatusKept ==
    ASSUME IInv, [CommandsNext]_commandsVars, NEW r \in Commands, status[r] # NoResult
    PROVE  status'[r] = status[r]
<1>1. CASE RecordEnding
  <2>1. ending # NoResult /\ ending.cmd # r
    BY <1>1 DEF IInv, OnePlace, Ending, RecordEnding
  <2> QED
    BY <1>1, <2>1 DEF IInv, TypeInv, RecordEnding
<1>2. CASE HandleResponse
  <2>1. Head(toCenter) \in Range(toCenter)
    BY <1>2, RangeTail DEF IInv, TypeInv, Distinct, HandleResponse
  <2>2. Head(toCenter).cmd # r
    BY <2>1 DEF IInv, OnePlace, Answering
  <2> QED
    BY <1>2, <2>2 DEF IInv, TypeInv, HandleResponse
<1>3. ASSUME NEW q \in Commands,
             \/ ForwardLocal(q) \/ ForwardLocalFails(q)
             \/ ForwardRemote(q) \/ ForwardRemoteFails(q) \/ ForwardUnlinked(q)
             \/ ForwardAstray(q) \/ ForwardAstrayFails(q)
      PROVE  status' = status
  BY <1>3 DEF ForwardLocal, ForwardLocalFails, ForwardRemote, ForwardRemoteFails,
     ForwardUnlinked, ForwardAstray, ForwardAstrayFails
<1>4. CASE RecordEndingFails \/ HandleResponseFails \/ ProxyGoesOn \/ LinkUp \/ LinkDown
  BY <1>4 DEF RecordEndingFails, HandleResponseFails, ProxyGoesOn, ForwardToTerminal,
     ForwardToTerminalFails, LinkUp, LinkDown
<1>5. ASSUME NEW s \in Servers, TerminalOnline(s) \/ Transmit(s) \/ TerminalOffline(s)
      PROVE  status' = status
  BY <1>5 DEF TerminalOnline, Transmit, TerminalOffline
<1>6. CASE UNCHANGED commandsVars
  BY <1>6 DEF commandsVars
<1> QED
  BY <1>1, <1>2, <1>3, <1>4, <1>5, <1>6 DEF CommandsNext, CenterGoesOn

\* A status is never overwritten, not even by a result that comes late or over a
\* second link; a command that was given up is not received after all, and one that
\* was received does not come on a send list again.
THEOREM StatusesAreFinal ==
    CommandsSpec => [][\A r \in Commands :
                  /\ status[r] # NoResult => status'[r] = status[r]
                  /\ r \in received => r \in received' /\ r \notin OnSendList'
                  /\ status[r] = "failed" => r \notin received']_commandsVars
<1>1. ASSUME IInv, IInv', Kept, [CommandsNext]_commandsVars, NEW r \in Commands
      PROVE  /\ status[r] # NoResult => status'[r] = status[r]
             /\ r \in received => r \in received' /\ r \notin OnSendList'
             /\ status[r] = "failed" => r \notin received'
  <2>1. Final
    BY <1>1, StepIInv, StatedType, PromiseKept DEF Abstract
  <2>2. ASSUME r \in received PROVE r \in received' /\ r \notin OnSendList'
    <3>1. fate[r] = "received"
      BY <1>1, <2>2 DEF IInv, QueuedWhere, fate, OnSendList, Servers
    <3>2. fate'[r] = "received"
      BY <2>1, <3>1 DEF Final
    <3> QED
      BY <3>2 DEF fate
  <2>3. ASSUME status[r] = "failed" PROVE r \notin received'
    <3>1. stated[r] = "failed"
      BY <1>1, <2>3 DEF IInv, NoLink, stated
    <3>2. fate[r] = "given up"
      BY <1>1, <3>1 DEF Kept
    <3>3. fate'[r] = "given up"
      BY <2>1, <3>2 DEF Final
    <3> QED
      BY <3>3 DEF fate
  <2> QED
    BY <1>1, <2>2, <2>3, StatusKept
<1>2. IInv /\ IInv' /\ Kept /\ [CommandsNext]_commandsVars =>
          [\A r \in Commands :
              /\ status[r] # NoResult => status'[r] = status[r]
              /\ r \in received => r \in received' /\ r \notin OnSendList'
              /\ status[r] = "failed" => r \notin received']_commandsVars
  BY <1>1
<1> QED
  BY <1>2, KeptHolds, InvariantHolds, PTL DEF CommandsSpec

=============================================================================
