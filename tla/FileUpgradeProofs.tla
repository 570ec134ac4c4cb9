------------------------- MODULE FileUpgradeProofs -------------------------
(***************************************************************************)
(* Proofs about FileUpgrade, for any number of terminals, versions of the  *)
(* file, lengths and faults: what a terminal has is the beginning of one   *)
(* version, and the whole of it when the terminal takes it for complete.   *)
(*                                                                         *)
(* The invariant says of a terminal that has some of the file, and whose   *)
(* download nothing has spoiled, that the proxy's mapping still shows the  *)
(* version it has begun with, in its full length (Follows); and of a piece *)
(* under way that it is the next part of that version, and empty only at   *)
(* the end of the file (NextPiece).                                        *)
(***************************************************************************)
EXTENDS FileUpgrade, TLAPS

Files == [size : Nat, version : Versions, linked : BOOLEAN]
Stages == {"idle", "told", "waiting", "asked", "answered", "done"}

TypeInv ==
    /\ disk \in Versions \cup {None}
    /\ file \in Files \cup {None}
    /\ stage \in [Terminals -> Stages]
    /\ length \in [Terminals -> Nat]
    /\ answer \in [Terminals -> Seq(Versions)]
    /\ data \in [Terminals -> Seq(Versions)]
    /\ spoiled \in [Terminals -> BOOLEAN]
    /\ \A t \in Terminals : stage[t] = "asked" => length[t] # 0

\* What terminal t has.
Whole(t) ==
    /\ \A i \in 1..Len(data[t]) : data[t][i] = data[t][1]
    /\ Len(data[t]) <= Length[data[t][1]]
    /\ stage[t] = "done" /\ Length[data[t][1]] < Word => Len(data[t]) = Length[data[t][1]]

Follows(t) ==
    /\ file # None
    /\ file.size = Length[file.version] % Word
    /\ data[t] # <<>> => data[t][1] = file.version

NextPiece(t) ==
    /\ \A i \in 1..Len(answer[t]) : answer[t][i] = file.version
    /\ Len(data[t]) + Len(answer[t]) <= Length[file.version]
    /\ answer[t] = <<>> => Len(data[t]) = file.size

Inv(t) == ~spoiled[t] =>
    /\ data[t] # <<>> => Whole(t)
    /\ t \in Downloading => Follows(t)
    /\ stage[t] = "answered" => NextPiece(t)

IInv == TypeInv /\ \A t \in Terminals : Inv(t)

USE ConstantsAssumption

\* No terminal has anything at first.
LEMMA InitIInv == Init => IInv
  BY DEF Init, IInv, TypeInv, Inv, Stages, Downloading

\* A request beyond the end closes the connection, and changes no data.
LEMMA RequestBeyondStep ==
    ASSUME IInv, NEW t \in Terminals, RequestBeyond(t)
    PROVE  IInv'
<1>1. TypeInv'
  BY DEF IInv, TypeInv, Stages, server, RequestBeyond
<1>2. ASSUME NEW u \in Terminals PROVE Inv(u)'
  BY DEF IInv, TypeInv, Inv, Whole, Follows, NextPiece, Downloading, Files, Stages,
     server, terminal, Fault, Torn, NewProcess, Loaded, Loadable, RequestBeyond
<1> QED
  BY <1>1, <1>2 DEF IInv

\* A request for a file that the proxy does not have changes no data.
LEMMA RequestNotFoundStep ==
    ASSUME IInv, NEW t \in Terminals, RequestNotFound(t)
    PROVE  IInv'
<1>1. TypeInv'
  BY DEF IInv, TypeInv, Stages, server, RequestNotFound
<1>2. ASSUME NEW u \in Terminals PROVE Inv(u)'
  BY DEF IInv, TypeInv, Inv, Whole, Follows, Downloading, RequestNotFound
<1> QED
  BY <1>1, <1>2 DEF IInv

\* The process ends in a page that is gone; what terminals have stays.
LEMMA RequestKillsStep ==
    ASSUME IInv, NEW t \in Terminals, RequestKills(t)
    PROVE  IInv'
<1>1. TypeInv'
  BY DEF IInv, TypeInv, Stages, NewProcess, RequestKills
<1>2. ASSUME NEW u \in Terminals PROVE Inv(u)'
  BY DEF IInv, TypeInv, Inv, Whole, Follows, NextPiece, Downloading, Files, Stages,
     server, terminal, Fault, Torn, NewProcess, Loaded, Loadable, RequestKills
<1> QED
  BY <1>1, <1>2 DEF IInv

\* A terminal that agrees begins with nothing.
LEMMA AgreeStep ==
    ASSUME IInv, NEW t \in Terminals, Agree(t)
    PROVE  IInv'
<1>1. TypeInv'
  BY DEF IInv, TypeInv, Stages, server, Agree
<1>2. ASSUME NEW u \in Terminals PROVE Inv(u)'
  BY DEF IInv, TypeInv, Inv, Whole, Follows, NextPiece, Downloading, server, Agree
<1> QED
  BY <1>1, <1>2 DEF IInv

\* A terminal asks for what follows what it has.
LEMMA AskStep ==
    ASSUME IInv, NEW t \in Terminals, Ask(t)
    PROVE  IInv'
<1>1. TypeInv'
  BY DEF IInv, TypeInv, Stages, server, Ask
<1>2. ASSUME NEW u \in Terminals PROVE Inv(u)'
  BY DEF IInv, TypeInv, Inv, Whole, Follows, NextPiece, Downloading, server, Ask
<1> QED
  BY <1>1, <1>2 DEF IInv

\* A piece that was on its way is lost.
LEMMA ReconnectStep ==
    ASSUME IInv, NEW t \in Terminals, Reconnect(t)
    PROVE  IInv'
<1>1. TypeInv'
  BY DEF IInv, TypeInv, Stages, server, Reconnect
<1>2. ASSUME NEW u \in Terminals PROVE Inv(u)'
  BY DEF IInv, TypeInv, Inv, Whole, Follows, NextPiece, Downloading, server, Reconnect
<1> QED
  BY <1>1, <1>2 DEF IInv

\* The mapping is gone; what terminals have stays.
LEMMA RestartStep ==
    ASSUME IInv, Restart
    PROVE  IInv'
<1>1. TypeInv'
  BY DEF IInv, TypeInv, Stages, NewProcess, Restart
<1>2. ASSUME NEW u \in Terminals PROVE Inv(u)'
  BY DEF IInv, TypeInv, Inv, Whole, Follows, NextPiece, Downloading, Files, Stages,
     server, terminal, Fault, Torn, NewProcess, Loaded, Loadable, Restart
<1> QED
  BY <1>1, <1>2 DEF IInv

\* Another file under the name leaves the mapping as it is.
LEMMA ReplaceStep ==
    ASSUME IInv, NEW v \in Versions \cup {None}, Replace(v)
    PROVE  IInv'
<1>1. file # None => /\ file' # None
                     /\ file'.size = file.size /\ file'.version = file.version
                     /\ file' \in Files
  BY DEF IInv, TypeInv, Files, Replace
<1>2. file = None => file' = None
  BY DEF Replace
<1>3. UNCHANGED <<stage, length, answer, data, spoiled>> /\ disk' = v
  BY DEF Replace, terminal
<1>4. TypeInv'
  BY <1>1, <1>2, <1>3 DEF IInv, TypeInv
<1>5. ASSUME NEW u \in Terminals PROVE Inv(u)'
  BY <1>1, <1>3 DEF IInv, TypeInv, Inv, Whole, Follows, NextPiece, Downloading
<1> QED
  BY <1>4, <1>5 DEF IInv

\* Writing over a file that is mapped spoils the downloads in progress.
LEMMA OverwriteStep ==
    ASSUME IInv, NEW v \in Versions, Overwrite(v)
    PROVE  IInv'
<1>1. file # None => file' # None /\ file' \in Files /\ file'.size = file.size
  <2>1. ASSUME file \in Files
        PROVE  /\ [file EXCEPT !.version = v] \in Files
               /\ [file EXCEPT !.version = v].size = file.size
    BY <2>1 DEF Files
  <2> QED
    BY <2>1 DEF IInv, TypeInv, Files, Overwrite
<1>2. file = None => file' = None
  BY DEF Overwrite
<1>3. UNCHANGED <<stage, length, answer, data>> /\ disk' = v
  BY DEF Overwrite, terminal
<1>4. \/ file' = file /\ spoiled' = spoiled
      \/ spoiled' = [t \in Terminals |-> spoiled[t] \/ t \in Downloading]
  BY DEF Overwrite
<1>5. TypeInv'
  BY <1>1, <1>2, <1>3, <1>4 DEF IInv, TypeInv
<1>6. ASSUME NEW u \in Terminals PROVE Inv(u)'
  <2>1. Downloading' = Downloading
    BY <1>3 DEF Downloading
  <2>2. Whole(u) => Whole(u)'
    BY <1>3 DEF Whole
  <2>3. u \in Downloading \/ stage[u] # "answered"
    BY DEF Downloading
  <2>4. CASE file' = file /\ spoiled' = spoiled
    <3>1. Follows(u) = Follows(u)' /\ NextPiece(u) = NextPiece(u)'
      BY <1>3, <2>4 DEF Follows, NextPiece
    <3> QED
      BY <1>3, <2>1, <2>2, <2>4, <3>1 DEF IInv, Inv
  <2>5. CASE spoiled' = [t \in Terminals |-> spoiled[t] \/ t \in Downloading]
    <3>1. ~spoiled'[u] => ~spoiled[u] /\ u \notin Downloading
      BY <2>5
    <3> QED
      BY <1>3, <2>1, <2>2, <2>3, <3>1 DEF IInv, Inv
  <2> QED
    BY <1>4, <2>4, <2>5
<1> QED
  BY <1>5, <1>6 DEF IInv

\* A file is loaded only where no mapping shows another version.
LEMMA UpgradeStep ==
    ASSUME IInv, NEW t \in Terminals, Upgrade(t)
    PROVE  IInv'
<1>1. file = None => file' \in Files
  <2>1. disk \in Versions /\ Length[disk] \in Nat /\ Word \in Nat \ {0} => Loaded \in Files
    <3>1. Word \in Nat \ {0} => \A m \in Nat : m % Word \in Nat
      OBVIOUS
    <3> QED
      BY DEF Loaded, Files
  <2>2. Word \in Nat \ {0}
    OBVIOUS
  <2> QED
    BY <2>1 DEF IInv, TypeInv, Upgrade, Loadable
<1>2. file # None => file' = file
  BY DEF Upgrade
<1>3. /\ stage' = [stage EXCEPT ![t] = "told"] /\ stage[t] \in {"idle", "done"}
      /\ UNCHANGED <<disk, length, answer, data, spoiled>>
  BY DEF Upgrade
<1>4. TypeInv'
  BY <1>1, <1>2, <1>3 DEF IInv, TypeInv, Stages
<1>5. ASSUME NEW u \in Terminals PROVE Inv(u)'
  <2>1. CASE u = t
    BY <1>3, <2>1 DEF IInv, Inv, Whole, Downloading
  <2>2. CASE u # t
    <3>1. u \in Downloading' => u \in Downloading
      BY <1>3 DEF Downloading
    <3>2. Whole(u) => Whole(u)'
      BY <1>3 DEF Whole
    <3>3. file # None /\ Follows(u) => Follows(u)'
      BY <1>2, <1>3 DEF Follows
    <3>4. file # None /\ NextPiece(u) => NextPiece(u)'
      BY <1>2, <1>3 DEF NextPiece
    <3>5. stage'[u] = "answered" => stage[u] = "answered" /\ u \in Downloading
      BY <1>3 DEF Downloading
    <3>6. u \in Downloading => spoiled[u] \/ file # None
      BY DEF IInv, Inv, Follows
    <3> QED
      BY <1>3, <3>1, <3>2, <3>3, <3>4, <3>5, <3>6 DEF IInv, Inv
  <2> QED
    BY <2>1, <2>2
<1> QED
  BY <1>4, <1>5 DEF IInv

\* A piece is part of the file, and empty only at its end.
LEMMA PieceLength ==
    ASSUME NEW offset \in Nat, NEW n \in Nat \ {0}, file \in Files, offset <= file.size
    PROVE  /\ Piece(offset, n) \in Nat
           /\ offset + Piece(offset, n) <= file.size
           /\ Piece(offset, n) = 0 => offset = file.size
  BY DEF Piece, Files

\* The piece sent is the next part of what the terminal has.
LEMMA RequestFileStep ==
    ASSUME IInv, NEW t \in Terminals, RequestFile(t)
    PROVE  IInv'
<1> DEFINE off == Len(data[t])
           n == Piece(off, length[t])
<1>1. file \in Files /\ off \in Nat /\ off <= file.size /\ length[t] \in Nat \ {0}
  BY DEF IInv, TypeInv, RequestFile
<1>2. n \in Nat /\ off + n <= file.size /\ (n = 0 => off = file.size)
  BY <1>1, PieceLength
<1>3. /\ off + n <= Length[file.version]
      /\ answer' = [answer EXCEPT ![t] = [i \in 1..n |-> file.version]]
      /\ stage' = [stage EXCEPT ![t] = "answered"]
      /\ length' = [length EXCEPT ![t] = 0]
      /\ spoiled' = [spoiled EXCEPT ![t] = @ \/ Torn]
      /\ stage[t] = "asked" /\ file # None
      /\ UNCHANGED <<disk, file, data>>
  BY DEF RequestFile, server
<1> HIDE DEF off, n
<1>4. [i \in 1..n |-> file.version] \in Seq(Versions)
  BY <1>1, <1>2 DEF Files
<1>5. TypeInv'
  BY <1>3, <1>4 DEF IInv, TypeInv, Stages
<1>6. ASSUME NEW u \in Terminals \ {t} PROVE Inv(u)'
  BY <1>3 DEF IInv, TypeInv, Inv, Whole, Follows, NextPiece, Downloading
<1>7. Inv(t)'
  <2>1. /\ answer'[t] = [i \in 1..n |-> file.version]
        /\ stage'[t] = "answered" /\ data'[t] = data[t] /\ file' = file
        /\ ~spoiled'[t] => ~spoiled[t] /\ ~Torn
    BY <1>3 DEF IInv, TypeInv
  <2>2. Len(answer'[t]) = n /\ (answer'[t] = <<>> => n = 0)
    BY <1>2, <2>1
  <2>3. ~spoiled'[t] /\ data[t] # <<>> => Whole(t)' /\ data[t][1] = file.version
    BY <1>3, <2>1 DEF IInv, Inv, Whole, Follows, Downloading
  <2>4. ~spoiled'[t] => Follows(t)'
    BY <1>3, <2>1, <2>3 DEF Follows, Torn
  <2>5. NextPiece(t)'
    BY <1>2, <1>3, <2>1 DEF NextPiece, off
  <2> QED
    BY <2>1, <2>3, <2>4, <2>5 DEF Inv
<1> QED
  BY <1>5, <1>6, <1>7 DEF IInv

\* What the terminal has grows by the next part, or is complete.
LEMMA ReceiveStep ==
    ASSUME IInv, NEW t \in Terminals, Receive(t)
    PROVE  IInv'
<1> DEFINE d == data[t]
           a == answer[t]
<1>1. /\ stage[t] = "answered"
      /\ data' = [data EXCEPT ![t] = d \o a]
      /\ stage' = [stage EXCEPT ![t] = IF a = <<>> THEN "done" ELSE "waiting"]
      /\ answer' = [answer EXCEPT ![t] = <<>>]
      /\ UNCHANGED <<disk, file, length, spoiled>>
      /\ d \in Seq(Versions) /\ a \in Seq(Versions)
  BY DEF IInv, TypeInv, Receive, server
<1> HIDE DEF d, a
<1>2. /\ d \o a \in Seq(Versions)
      /\ Len(d \o a) = Len(d) + Len(a)
      /\ \A i \in 1..Len(d) : (d \o a)[i] = d[i]
      /\ \A i \in Len(d) + 1..Len(d) + Len(a) : (d \o a)[i] = a[i - Len(d)]
      /\ Len(d) \in Nat /\ Len(a) \in Nat
      /\ (Len(d) = 0 <=> d = <<>>) /\ (Len(a) = 0 <=> a = <<>>)
  BY <1>1
<1>3. TypeInv'
  BY <1>1 DEF IInv, TypeInv, Stages
<1>4. ASSUME NEW u \in Terminals \ {t} PROVE Inv(u)'
  BY <1>1 DEF IInv, TypeInv, Inv, Whole, Follows, NextPiece, Downloading
<1>5. Inv(t)'
  <2> SUFFICES ASSUME ~spoiled[t] PROVE Inv(t)'
    BY <1>1 DEF Inv
  <2>1. /\ data'[t] = d \o a /\ stage'[t] = IF a = <<>> THEN "done" ELSE "waiting"
        /\ file' = file
    BY <1>1 DEF IInv, TypeInv
  <2>2. /\ d # <<>> => Whole(t)
        /\ Follows(t) /\ NextPiece(t)
    BY <1>1 DEF IInv, Inv, Downloading, d
  <2>3. d \o a # <<>> =>
            /\ \A i \in 1..Len(d \o a) : (d \o a)[i] = file.version
            /\ Len(d \o a) <= Length[file.version]
    <3>1. \A i \in 1..Len(d) : d[i] = file.version
      BY <2>2 DEF Whole, Follows, d
    <3>2. \A i \in 1..Len(a) : a[i] = file.version
      BY <2>2 DEF NextPiece, a
    <3>3. Len(d) + Len(a) <= Length[file.version]
      BY <2>2 DEF NextPiece, d, a
    <3>4. ASSUME NEW i \in 1..Len(d \o a) PROVE (d \o a)[i] = file.version
      <4>1. CASE i \in 1..Len(d)
        BY <3>1, <4>1
      <4>2. CASE i \in Len(d) + 1..Len(d) + Len(a)
        <5>1. i - Len(d) \in 1..Len(a)
          BY <4>2
        <5> QED
          BY <3>2, <5>1
      <4> QED
        BY <4>1, <4>2
    <3> QED
      BY <3>3, <3>4
  <2>4. a = <<>> => Len(d \o a) = Length[file.version] % Word
    BY <2>2 DEF Follows, NextPiece, d, a
  <2>5. d \o a # <<>> => /\ (d \o a)[1] = file.version
                         /\ file.version \in Versions
    <3>1. d \o a # <<>> => 1 \in 1..Len(d \o a)
      BY <1>2
    <3>2. d \o a # <<>> => (d \o a)[1] \in Versions
      BY <1>2
    <3> QED
      BY <2>3, <3>2
  <2>6. \A m \in Nat : m < Word => m % Word = m
    OBVIOUS
  <2>7. d \o a # <<>> => Whole(t)'
    <3> SUFFICES ASSUME d \o a # <<>> PROVE Whole(t)'
      OBVIOUS
    <3>1. a = <<>> /\ Length[file.version] < Word => Len(d \o a) = Length[file.version]
      BY <2>4, <2>5, <2>6
    <3> QED
      BY <2>1, <2>3, <2>5, <3>1 DEF Whole
  <2>8. t \in Downloading' => Follows(t)'
    BY <2>1, <2>2, <2>5 DEF Follows
  <2>9. stage'[t] # "answered"
    BY <2>1
  <2> QED
    BY <2>1, <2>7, <2>8 DEF Inv
<1> QED
  BY <1>3, <1>4, <1>5 DEF IInv

\* One case for each action of Next.
LEMMA StepIInv == IInv /\ [Next]_vars => IInv'
<1> SUFFICES ASSUME IInv, [Next]_vars PROVE IInv'
  OBVIOUS
<1>1. ASSUME NEW t \in Terminals,
             Upgrade(t) \/ Handle(t) \/ Agree(t) \/ Ask(t) \/ Receive(t) \/ Reconnect(t)
      PROVE  IInv'
  BY <1>1, UpgradeStep, RequestFileStep, RequestBeyondStep, RequestNotFoundStep,
     RequestKillsStep, AgreeStep, AskStep, ReceiveStep, ReconnectStep DEF Handle
<1>2. CASE Restart
  BY <1>2, RestartStep
<1>3. ASSUME NEW v \in Versions \cup {None}, Replace(v) PROVE IInv'
  BY <1>3, ReplaceStep
<1>4. ASSUME NEW v \in Versions, Overwrite(v) PROVE IInv'
  BY <1>4, OverwriteStep
<1>5. CASE UNCHANGED vars
  BY <1>5 DEF IInv, TypeInv, Inv, Whole, Follows, NextPiece, Downloading, vars, server,
     terminal
<1> QED
  BY <1>1, <1>2, <1>3, <1>4, <1>5 DEF Next

\* However files, requests, faults and terminals interleave, a download that is
\* not spoiled is the beginning of one version, and the whole when it is done.
THEOREM OneVersionHolds == Spec => []OneVersion
<1>1. IInv => OneVersion
  BY DEF IInv, Inv, Whole, OneVersion
<1> QED
  BY <1>1, InitIInv, StepIInv, PTL DEF Spec

=============================================================================
