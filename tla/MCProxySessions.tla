-------------------------- MODULE MCProxySessions --------------------------
(***************************************************************************)
(* ProxySessions with three connections that compete for one gateway: one  *)
(* that is closed, its successor, and the successor's successor.           *)
(***************************************************************************)
EXTENDS ProxySessions
=============================================================================
