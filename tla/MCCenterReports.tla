-------------------------- MODULE MCCenterReports --------------------------
(***************************************************************************)
(* CenterReports with a business report and an event report of two rows    *)
(* each, and a business report that has the initial number; on up to two   *)
(* connections.                                                            *)
(***************************************************************************)
EXTENDS CenterReports

MCRows == [n \in Reports |-> IF n = Initial THEN 1 ELSE 2]
=============================================================================
