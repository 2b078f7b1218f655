------------------------------ MODULE MCRemote ------------------------------
(* A small instance of Remote: one run with a raw and an aggregate output,   *)
(* beside the reservation of another; the bounds are in the configuration.   *)
EXTENDS Remote

MCOthers == (<<"r2", "aggregate">> :> 0)
MCRetention == [raw |-> 2, aggregate |-> 3]
=============================================================================
