---------------------------- MODULE CommandSpec ----------------------------
(***************************************************************************)
(* What the web may conclude from the status that the database holds for a *)
(* command it has sent: "ok" (0) means that the command was queued on the  *)
(* terminal's connection, "failed" (1) that the terminal has not had the   *)
(* command and will not have it, and no status that it may have had it.    *)
(* A terminal gets a command at most once.                                 *)
(***************************************************************************)
CONSTANTS
    Commands,
    None        \* no status

VARIABLES
    fate,       \* of a command: "open", "queued", "received", or it will not be
                \* received because the terminal's connection ended ("dropped")
                \* or because it did not get that far ("given up")
    status      \* None, "ok" or "failed"

Init ==
    /\ fate = [r \in Commands |-> "open"]
    /\ status = [r \in Commands |-> None]

\* The command comes to the terminal's connection ...
Queue(r) ==
    /\ fate[r] = "open" /\ status[r] = None
    /\ fate' = [fate EXCEPT ![r] = "queued"]
    /\ UNCHANGED status

\* ... and from there to the terminal.
Receive(r) ==
    /\ fate[r] = "queued"
    /\ fate' = [fate EXCEPT ![r] = "received"]
    /\ UNCHANGED status

\* Connections end: the terminal's for the commands D, one on the way to it for G.
Lose(D, G) ==
    /\ \A r \in D : fate[r] = "queued"
    /\ \A r \in G : fate[r] = "open"
    /\ fate' = [r \in Commands |->
            IF r \in D THEN "dropped" ELSE IF r \in G THEN "given up" ELSE fate[r]]
    /\ UNCHANGED status

RecordOk(r) ==
    /\ fate[r] \in {"queued", "received", "dropped"} /\ status[r] = None
    /\ status' = [status EXCEPT ![r] = "ok"]
    /\ UNCHANGED fate

RecordFailed(r) ==
    /\ fate[r] = "open" /\ status[r] = None
    /\ status' = [status EXCEPT ![r] = "failed"]
    /\ fate' = [fate EXCEPT ![r] = "given up"]

Next ==
    \/ \E r \in Commands :
        \/ Queue(r) \/ Receive(r)
        \/ RecordOk(r) \/ RecordFailed(r)
    \/ \E D, G \in SUBSET Commands : Lose(D, G)

Spec == Init /\ [][Next]_<<fate, status>>
=============================================================================
