------------------------------ MODULE Packages ------------------------------
(***************************************************************************)
(* Publication packages (publication.validate): the result of every day of *)
(* a window of consecutive days, at one cutoff.                            *)
(***************************************************************************)
EXTENDS Integers

CONSTANTS
    Days,           \* business dates
    Versions,       \* cutoffs
    Values,         \* results a day can have
    Empty,          \* the result of a day without rows
    None            \* a day that was never published

Windows == {a..b : a, b \in Days} \cap SUBSET Days
Packages == [version : Versions, rows : UNION {[w -> Values] : w \in Windows}]
Cells == [version : Versions, value : Values]

ASSUME PackageAssumption ==
    /\ Days \subseteq Int /\ Versions \subseteq Nat /\ Empty \in Values
    /\ None \notin Packages /\ None \notin Cells
=============================================================================
