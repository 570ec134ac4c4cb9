---------------------------- MODULE FileUpgrade ----------------------------
(***************************************************************************)
(* How terminals fetch an upgrade file piece by piece: FileUpgradeManager  *)
(* (src/src/module/downloadfile.cpp), dispatch() and handleRequestFile of  *)
(* IcsProxyTerminalClient (src/src/proxy/icsproxyserver.cpp).  The center  *)
(* has the same code, but as built (without ICS_CENTER_MODE) it loads no   *)
(* file, so that its terminals are always told that there is none.         *)
(*                                                                         *)
(* One file id is modelled, as ids do not touch each other.  The file is   *)
(* loaded when a terminal of the proxy is told to upgrade, stays mapped    *)
(* and is never loaded again under its id while the program runs.  On disk *)
(* it may be replaced (the mapping keeps the old file), overwritten in     *)
(* place (the mapping shows it) or removed.  A version of the file is its  *)
(* name; a byte is the version that it comes from, its place in the data   *)
(* being its offset.  A terminal starts from nothing when it is told to    *)
(* upgrade, asks again when its connection was lost, and has the file when *)
(* an empty piece comes: its side is not part of the repository.           *)
(***************************************************************************)
EXTENDS Naturals, Sequences

CONSTANTS
    Terminals,
    Versions,       \* the contents that the file may have
    Length,         \* of each version
    AskLengths,     \* the fragment lengths that terminals ask for
    Segment,        \* UPGRADE_FILE_SEGMENG_SIZE, 512
    MaxSize,        \* UPGRADEFILE_MAXSIZE, 50 MB
    Word,           \* 2^32, the width of file_length
    MaxFaults,      \* bound: lost connections, restarts and changes of the file
    None            \* no file

ASSUME ConstantsAssumption ==
    /\ Length \in [Versions -> Nat]
    /\ AskLengths \subseteq Nat \ {0}
    /\ Segment \in Nat \ {0}
    /\ MaxSize \in Nat /\ Word \in Nat /\ MaxSize < Word
    /\ None \notin Versions \cup [size : Nat, version : Versions, linked : BOOLEAN]

VARIABLES
    disk,       \* the version on disk, or None
    file,       \* the proxy's entry in m_fileMap: None, or its length, the version that
                \* the mapping shows, and whether the file on disk is the one mapped
    stage,      \* of a terminal: "idle", "told" (the upgrade message is under way),
                \* "waiting", "asked", "answered", "done"
    length,     \* the fragment length of the request that is under way
    answer,     \* the piece that is under way
    data,       \* what the terminal has
    spoiled,    \* history: the mapping has changed under the terminal's download
    faults

server == <<disk, file>>
terminal == <<stage, length, answer, data>>
vars == <<server, terminal, spoiled, faults>>

-----------------------------------------------------------------------------
(* Helpers                                                                 *)

\* FileInfo's constructor: lseek gives the length, cut to 32 bits; too long a
\* file is refused, and mmap refuses one of no length.
Loadable == disk # None /\ Length[disk] % Word \in 1..MaxSize

Loaded == [size |-> Length[disk] % Word, version |-> disk, linked |-> TRUE]

\* Mutant: the last byte is not served.
PieceMutant(offset, n) ==
    LET rest == IF offset + n >= file.size THEN file.size - offset - 1 ELSE n
    IN  IF rest > Segment THEN Segment ELSE rest

\* The length of the piece at offset when n bytes are asked for.
Piece(offset, n) ==
    LET rest == IF offset + n > file.size THEN file.size - offset ELSE n
    IN  IF rest > Segment THEN Segment ELSE rest

\* The terminals that are fetching the file and have some of it, or soon will.
Downloading == {t \in Terminals :
    \/ stage[t] = "answered"
    \/ stage[t] \in {"waiting", "asked"} /\ data[t] # <<>>}

\* The mapping has the length of another version than it shows.
Torn == file.size # Length[file.version] % Word

\* The process ends and starts again: nothing is loaded, all connections end.
NewProcess ==
    /\ file' = None
    /\ stage' = [t \in Terminals |->
            IF stage[t] = "told" THEN "idle"
            ELSE IF stage[t] \in {"asked", "answered"} THEN "waiting" ELSE stage[t]]
    /\ spoiled' = [t \in Terminals |-> spoiled[t] \/ t \in Downloading]
    /\ length' = [t \in Terminals |-> 0]
    /\ answer' = [t \in Terminals |-> <<>>]
    /\ UNCHANGED <<disk, data>>

Fault == faults < MaxFaults /\ faults' = faults + 1

Init ==
    /\ disk \in Versions \cup {None}
    /\ file = None
    /\ stage = [t \in Terminals |-> "idle"]
    /\ length = [t \in Terminals |-> 0]
    /\ answer = [t \in Terminals |-> <<>>]
    /\ data = [t \in Terminals |-> <<>>]
    /\ spoiled = [t \in Terminals |-> FALSE]
    /\ faults = 0

-----------------------------------------------------------------------------
(* The server                                                              *)

\* dispatch() of an upgrade request at the proxy: the file is loaded unless it
\* is; if that fails nothing is sent, and the entry stays empty, so that the
\* next request tries again.
Upgrade(t) ==
    /\ stage[t] \in {"idle", "done"}
    /\ IF file # None
       THEN UNCHANGED file
       ELSE Loadable /\ file' = Loaded
    /\ stage' = [stage EXCEPT ![t] = "told"]
    /\ UNCHANGED <<disk, length, answer, data, spoiled, faults>>

\* handleRequestFile: a piece of the file ...
RequestFile(t) ==
    /\ stage[t] = "asked" /\ file # None
    /\ Len(data[t]) <= file.size
    /\ LET n == Piece(Len(data[t]), length[t])
       IN  /\ Len(data[t]) + n <= Length[file.version]
           /\ answer' = [answer EXCEPT ![t] = [i \in 1..n |-> file.version]]
    /\ stage' = [stage EXCEPT ![t] = "answered"]
    /\ length' = [length EXCEPT ![t] = 0]
    /\ spoiled' = [spoiled EXCEPT ![t] = @ \/ Torn]
    /\ UNCHANGED <<server, data, faults>>

\* Mutant: an offset at the end of the file is refused.
RequestBeyondMutant(t) ==
    /\ stage[t] = "asked" /\ file # None
    /\ Len(data[t]) >= file.size
    /\ stage' = [stage EXCEPT ![t] = "waiting"]
    /\ length' = [length EXCEPT ![t] = 0]
    /\ UNCHANGED <<server, answer, data, spoiled, faults>>

\* ... an offset beyond its end: the exception closes the connection ...
RequestBeyond(t) ==
    /\ stage[t] = "asked" /\ file # None
    /\ Len(data[t]) > file.size
    /\ stage' = [stage EXCEPT ![t] = "waiting"]
    /\ length' = [length EXCEPT ![t] = 0]
    /\ UNCHANGED <<server, answer, data, spoiled, faults>>

\* ... no file: upgrade_not_found, with which the terminal gives up.
RequestNotFound(t) ==
    /\ stage[t] = "asked" /\ file = None
    /\ stage' = [stage EXCEPT ![t] = "idle"]
    /\ length' = [length EXCEPT ![t] = 0]
    /\ UNCHANGED <<server, answer, data, spoiled, faults>>

\* ... a piece of which a page is not there any more, as the file was written over
\* by a shorter one: the process is killed by a signal.  Pages are of one byte here;
\* the rest of a longer last one reads as zeros, in a download that is spoiled anyway.
RequestKills(t) ==
    /\ stage[t] = "asked" /\ file # None
    /\ Len(data[t]) <= file.size
    /\ Len(data[t]) + Piece(Len(data[t]), length[t]) > Length[file.version]
    /\ NewProcess
    /\ UNCHANGED faults

Restart == Fault /\ NewProcess

-----------------------------------------------------------------------------
(* The file on disk                                                        *)

\* Another file is put in its place, or it is removed.
Replace(v) ==
    /\ Fault
    /\ disk' = v
    /\ file' = IF file = None THEN None ELSE [file EXCEPT !.linked = FALSE]
    /\ UNCHANGED <<terminal, spoiled>>

\* It is written over.
Overwrite(v) ==
    /\ Fault
    /\ disk # None
    /\ disk' = v
    /\ IF file # None /\ file.linked
       THEN /\ file' = [file EXCEPT !.version = v]
            /\ spoiled' = [t \in Terminals |-> spoiled[t] \/ t \in Downloading]
       ELSE UNCHANGED <<file, spoiled>>
    /\ UNCHANGED terminal

-----------------------------------------------------------------------------
(* The terminal                                                            *)

\* It agrees to upgrade.
Agree(t) ==
    /\ stage[t] = "told"
    /\ stage' = [stage EXCEPT ![t] = "waiting"]
    /\ data' = [data EXCEPT ![t] = <<>>]
    /\ spoiled' = [spoiled EXCEPT ![t] = FALSE]
    /\ UNCHANGED <<server, length, answer, faults>>

\* It asks for what comes after the bytes it has.
Ask(t) ==
    /\ stage[t] = "waiting"
    /\ stage' = [stage EXCEPT ![t] = "asked"]
    /\ \E n \in AskLengths : length' = [length EXCEPT ![t] = n]
    /\ UNCHANGED <<server, answer, data, spoiled, faults>>

\* It gets a piece.
Receive(t) ==
    /\ stage[t] = "answered"
    /\ data' = [data EXCEPT ![t] = @ \o answer[t]]
    /\ stage' = [stage EXCEPT ![t] = IF answer[t] = <<>> THEN "done" ELSE "waiting"]
    /\ answer' = [answer EXCEPT ![t] = <<>>]
    /\ UNCHANGED <<server, length, spoiled, faults>>

\* Its connection ends with what is under way, and it connects again.
Reconnect(t) ==
    /\ Fault
    /\ stage[t] \in {"told", "asked", "answered"}
    /\ stage' = [stage EXCEPT ![t] = IF @ = "told" THEN "idle" ELSE "waiting"]
    /\ length' = [length EXCEPT ![t] = 0]
    /\ answer' = [answer EXCEPT ![t] = <<>>]
    /\ UNCHANGED <<server, data, spoiled>>

-----------------------------------------------------------------------------
Handle(t) == RequestFile(t) \/ RequestBeyond(t) \/ RequestNotFound(t) \/ RequestKills(t)

Next ==
    \/ \E t \in Terminals :
        Upgrade(t) \/ Handle(t) \/ Agree(t) \/ Ask(t) \/ Receive(t) \/ Reconnect(t)
    \/ Restart
    \/ \E v \in Versions \cup {None} : Replace(v)
    \/ \E v \in Versions : Overwrite(v)

\* The server handles requests; a terminal that was told goes on asking.
Fairness == \A t \in Terminals :
    WF_vars(Handle(t)) /\ WF_vars(Agree(t)) /\ WF_vars(Ask(t)) /\ WF_vars(Receive(t))

Spec == Init /\ [][Next]_vars /\ Fairness

-----------------------------------------------------------------------------
(* Properties                                                              *)

\* However the pieces are cut, whichever connections are lost, whatever takes the
\* file's place on disk and whoever else fetches it: what a terminal has is the
\* beginning of one version, and the whole of it when the terminal takes it for
\* complete.  But not if the mapped file was written over or the program started
\* again under the download, nor for a file whose length does not fit in 32 bits.
OneVersion ==
    \A t \in Terminals : ~spoiled[t] /\ data[t] # <<>> =>
        LET v == Head(data[t])
        IN  /\ \A i \in 1..Len(data[t]) : data[t][i] = v
            /\ Len(data[t]) <= Length[v]
            /\ stage[t] = "done" /\ Length[v] < Word => Len(data[t]) = Length[v]

\* A download that was agreed to comes to its end: the file is complete, or the
\* terminal is told that there is none; unless its offset has come to lie beyond
\* the end of another version, where every request closes the connection.
Completes ==
    \A t \in Terminals :
        stage[t] = "waiting" ~> stage[t] \in {"done", "idle"} \/ spoiled[t]

=============================================================================
