------------------------------ MODULE Calendar ------------------------------
(***************************************************************************)
(* The time arithmetic of the collector.  A tick is the model's unit of    *)
(* time; a business day (Asia/Hong_Kong) has DayLen ticks.  The TTLs are    *)
(* the collector's retention periods: seven days of raw events, thirty     *)
(* days of deduplication keys, twenty-nine days of visitor sets, eighty-   *)
(* nine days of totals, all scaled down in a model.                        *)
(***************************************************************************)
EXTENDS Naturals

CONSTANTS
    DayLen,        \* ticks in a business day
    CutoffDays,    \* a day is frozen this many days later (3 in the code) ...
    CutoffOffset,  \* ... at this tick of the day (00:15 in the code)
    Window,        \* how far in the past an event may have occurred (7 days)
    Skew,          \* how far in the future it may claim to be (5 minutes)
    RawTTL,        \* lifetime of a raw event, counted from acceptance (7 days)
    SeenTTL,       \* lifetime of a deduplication key (30 days)
    VisitorDays,   \* business days for which visitor sets are kept (29)
    KeepDays       \* business days for which totals are kept (89)

ASSUME CalendarAssumption ==
    /\ DayLen \in Nat \ {0}
    /\ CutoffOffset \in 0..(DayLen - 1)
    /\ CutoffDays \in Nat
    /\ Window \in Nat
    /\ Skew \in Nat
    /\ RawTTL \in Nat \ {0}
    /\ SeenTTL \in Nat
    /\ VisitorDays \in Nat
    /\ KeepDays \in Nat

Day(t) == t \div DayLen

\* The first day still inside a retention of k days, as of time t.
FirstKept(t, k) == IF Day(t) >= k THEN Day(t) - k ELSE 0

\* public_projection.cutoff: when the totals of a day are fixed.
Cutoff(d) == (d + CutoffDays) * DayLen + CutoffOffset

\* public_projection.publication_slot: the latest daily publication time <= t.
\* (Time starts late enough for the subtraction to stay in Nat.)
Slot(t) ==
    LET today == Day(t) * DayLen + CutoffOffset
    IN  IF t >= today THEN today ELSE today - DayLen

AnyPast(occurred, at) == occurred <= at + Skew             \* mutant: no lower bound

Timely(occurred, at) == occurred + Window >= at /\ occurred <= at + Skew
=============================================================================
