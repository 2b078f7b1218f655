----------------------------- MODULE Collector -----------------------------
(***************************************************************************)
(* What the collector promises to everything downstream of it, with the    *)
(* tables, the clock and the worker hidden.  Accepted events get the       *)
(* positions 1, 2, 3, ...; everything after floor can still be read, so a   *)
(* reader at a position below floor is told that it has lost data instead   *)
(* of being given a later position; cursor is the prefix that the totals    *)
(* count.  Once floor has passed cursor some event expired uncounted: the   *)
(* gap is declared and nothing is counted any more.                        *)
(***************************************************************************)
EXTENDS Naturals

VARIABLES
    last,     \* latest accepted position
    floor,    \* nothing at or below this position may be read
    cursor    \* the totals count exactly the events up to this position

collectorVars == <<last, floor, cursor>>

Gap == floor > cursor

CollectorTypeOK ==
    /\ last \in Nat
    /\ floor \in 0..last
    /\ cursor \in 0..last

CollectorInit == last = 0 /\ floor = 0 /\ cursor = 0

\* A batch is accepted; its oldest events may be about to expire.
Accept ==
    /\ last' > last /\ last' \in Nat
    /\ floor' >= floor /\ floor' \in 0..last'
    /\ UNCHANGED cursor

\* Time passes and raw events reach the end of their retention.
Expire ==
    /\ floor' > floor /\ floor' \in 0..last
    /\ UNCHANGED <<last, cursor>>

\* A prefix is counted; never past a gap.
Count ==
    /\ ~Gap
    /\ cursor' > cursor /\ cursor' \in 0..last
    /\ UNCHANGED <<last, floor>>

CollectorNext == Accept \/ Expire \/ Count

CollectorSpec == CollectorInit /\ [][CollectorNext]_collectorVars
=============================================================================
