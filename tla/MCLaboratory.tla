---------------------------- MODULE MCLaboratory ----------------------------
(* The programs of the laboratory, each in a small instance.  They share no  *)
(* state in these modules, so a behaviour is one of a single program: part   *)
(* says which, while the others stay in their initial states.                *)
EXTENDS Laboratory

CONSTANTS Contents   \* of the releases on offer

VARIABLES part   \* the program under check

programs == <<part, writer, releases, attempts, lake>>

Init ==
    /\ part \in {"writer", "releases", "attempts", "lake"}
    /\ Wr!Init /\ Re!Init /\ At!Init /\ La!Init

Next ==
    /\ UNCHANGED part
    /\ \/ part = "writer" /\ Wr!Next /\ UNCHANGED <<releases, attempts, lake>>
       \/ part = "releases" /\ Re!Next /\ UNCHANGED <<writer, attempts, lake>>
       \/ part = "attempts" /\ At!Next /\ UNCHANGED <<writer, releases, lake>>
       \/ part = "lake" /\ La!Next /\ UNCHANGED <<writer, releases, attempts>>

Spec == Init /\ [][Next]_programs

-----------------------------------------------------------------------------
(* The instances.                                                            *)

\* A release, two contents for a newer cutoff, and a pair whose packages do not match.
Pack(snapshot, cutoff, from, lost) ==
    [snapshot |-> snapshot, cutoff |-> cutoff, from |-> from, raw |-> 1, valid |-> 1 - lost,
     duplicates |-> 0, late |-> 0, quarantined |-> lost]
Offer(snapshot, cutoff, from, content) ==
    [run |-> "r1", daily |-> Pack(snapshot, cutoff, from, 0),
     behavior |-> Pack(snapshot, cutoff, from, 0), content |-> content]
SomeOffers ==
    {Offer(1, 0, 0, None), [Offer(2, 1, 1, None) EXCEPT !.behavior = Pack(1, 0, 1, 0)]}
        \union {Offer(2, 1, 1, content) : content \in Contents}

\* Neither Lake nor Attempts tells two attempts apart, nor two cancellations, nor Releases the
\* two contents.  The cfg gives all of them the same two names, so that one exchange does.
Alike == Permutations(Attempts)
=============================================================================
