------------------------------- MODULE Relay -------------------------------
(***************************************************************************)
(* What a synchronised lane promises to the readers of its topic.  The     *)
(* positions after start arrive in order, a position may be repeated until *)
(* it is acknowledged, never afterwards, and none is skipped: when the     *)
(* next position cannot be had the lane is closed for good.                *)
(***************************************************************************)
EXTENDS Integers, SequencesExt

VARIABLES
    start,        \* the lane covers the positions after this one
    delivered,    \* the positions in the topic, in order of arrival
    acked,        \* nothing up to this position will be sent again
    closed        \* a gap is recorded

relayVars == <<start, delivered, acked, closed>>

High == Max({start} \union Range(delivered))

RelayInit ==
    /\ start \in Nat /\ acked = start
    /\ delivered = << >> /\ closed = FALSE

\* An operator opens the lane at a later position.
Open ==
    /\ delivered = << >> /\ acked = 0
    /\ start' \in Nat /\ acked' = start'
    /\ UNCHANGED <<delivered, closed>>

\* The next position, or a repetition of one that is not acknowledged.
Deliver ==
    /\ ~closed
    /\ \E n \in acked + 1 .. High + 1 : delivered' = Append(delivered, n)
    /\ UNCHANGED <<start, acked, closed>>

Acknowledge ==
    /\ ~closed
    /\ acked' \in acked + 1 .. High
    /\ UNCHANGED <<start, delivered, closed>>

Close ==
    /\ closed' = TRUE
    /\ UNCHANGED <<start, delivered, acked>>

RelayNext == Open \/ Deliver \/ Acknowledge \/ Close

RelaySpec == RelayInit /\ [][RelayNext]_relayVars
=============================================================================
