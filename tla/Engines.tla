------------------------------ MODULE Engines ------------------------------
(* What an epoch promises to the programs that use its engines: data exists  *)
(* from the first start of its stage to the deadline, whatever is stopped,   *)
(* dies or fails, and is never disposed of under a running engine.           *)
EXTENDS Naturals

CONSTANTS Deadline, MaxNow

Stages == {"storage", "realtime"}

VARIABLES
    now,
    up,    \* stages whose engines run
    data   \* stages whose volumes exist

engines == <<now, up, data>>

Init == now = 0 /\ up = {} /\ data = {}

Run(s) == up' = up \union {s} /\ data' = data \union {s} /\ UNCHANGED now
Halt == up' \in (SUBSET up) \ {up} /\ UNCHANGED <<now, data>>
Dispose(s) ==
    /\ now >= Deadline /\ s \in data \ up
    /\ data' = data \ {s} /\ UNCHANGED <<now, up>>
Pass == now < MaxNow /\ now' = now + 1 /\ UNCHANGED <<up, data>>

Next == Halt \/ Pass \/ \E s \in Stages : Run(s) \/ Dispose(s)
Spec == Init /\ [][Next]_engines
=============================================================================
