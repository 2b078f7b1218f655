------------------------------- MODULE MCHive -------------------------------
(* One release with two tables, registered again after a session was lost. *)
EXTENDS Hive

MCExpiry == "r" :> 2
=============================================================================
