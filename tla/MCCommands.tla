----------------------------- MODULE MCCommands -----------------------------
(***************************************************************************)
(* Commands with two commands for a terminal of an enterprise, which may   *)
(* be on the link at once, and one for a terminal of the center.           *)
(***************************************************************************)
EXTENDS Commands
=============================================================================
