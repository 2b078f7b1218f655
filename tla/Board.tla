------------------------------- MODULE Board -------------------------------
(***************************************************************************)
(* What the published report promises to its readers: one result per day,  *)
(* replaced by whole packages, never by an older cutoff.                   *)
(***************************************************************************)
EXTENDS Packages

VARIABLE board

BoardInit == board = [d \in Days |-> None]

\* A day takes the result of the package unless it has one of a newer cutoff.
Announced(p, b) ==
    [d \in Days |-> IF d \in DOMAIN p.rows /\ (b[d] = None \/ b[d].version <= p.version)
                    THEN [version |-> p.version, value |-> p.rows[d]] ELSE b[d]]

Announce == \E p \in Packages : board' = Announced(p, board)

BoardSpec == BoardInit /\ [][Announce]_board
=============================================================================
