----------------------------- MODULE MCPrograms -----------------------------
(* More programs, each in a small instance, as in MCLaboratory: what is shown *)
(* of the results (Publication), and those of Programs.                       *)
EXTENDS Publication, Programs, TLC

VARIABLE
    part    \* the program under check

others == <<realtime, hive, dimensions, backends, machines, behavior>>
allVars == <<part, vars, others>>

\* A program that does not run has one initial state.
ProgramsInit ==
    /\ part \in {"publication", "realtime", "hive", "dimensions", "backends", "machines", "behavior"}
    /\ Init /\ Rt!Init /\ Hi!Init /\ Di!Init /\ Ba!Init /\ Ma!Init /\ Be!Init
    /\ part # "machines" => \A n \in DOMAIN vm : vm[n] = "off"
    /\ part # "realtime" => ~ real
    /\ part # "dimensions" => world = Unset

OneOfThem ==
    \/ part = "realtime" /\ Rt!Next /\ UNCHANGED <<hive, dimensions, backends, machines, behavior>>
    \/ part = "hive" /\ Hi!Next /\ UNCHANGED <<realtime, dimensions, backends, machines, behavior>>
    \/ part = "dimensions" /\ Di!Next /\ UNCHANGED <<realtime, hive, backends, machines, behavior>>
    \/ part = "backends" /\ Ba!Next /\ UNCHANGED <<realtime, hive, dimensions, machines, behavior>>
    \/ part = "machines" /\ Ma!Next /\ UNCHANGED <<realtime, hive, dimensions, backends, behavior>>
    \/ part = "behavior" /\ Be!Next /\ UNCHANGED <<realtime, hive, dimensions, backends, machines>>

ProgramsNext ==
    /\ UNCHANGED part
    /\ \/ part = "publication" /\ Next /\ UNCHANGED others
       \/ OneOfThem /\ UNCHANGED vars

ProgramsSpec == ProgramsInit /\ [][ProgramsNext]_allVars

-----------------------------------------------------------------------------
(* The instances.                                                            *)

\* No module chooses a result by name: they are interchangeable.
Alike == Permutations(Values \ {Empty})

FewDays == 1..2
TwoCutoffs == 1..2

\* Two jumps, two requests, two people; a second click, arrival, observation and completion
\* of what is already there, events at both ends of the window, one too late.
Event(id, kind, of, who, at) == [id |-> id, kind |-> kind, of |-> of, who |-> who, at |-> at]
SomeEvents ==
    {Event(1, "click", 1, Unset, 0), Event(2, "click", 2, Unset, 1), Event(3, "click", 1, Unset, 1),
     Event(4, "arrival", 1, "ada", 0), Event(5, "arrival", 2, "ada", 2), Event(6, "arrival", 1, "bob", 1),
     Event(7, "observed", 1, "ada", 2), Event(8, "observed", 2, "ada", 1), Event(9, "observed", 1, "bob", 1),
     Event(10, "complete", 1, Unset, 2), Event(11, "complete", 2, Unset, 2),
     Event(12, "complete", 2, Unset, 3), Event(13, "select", 0, "ada", 3), Event(14, "observed", 2, "bob", 4)}

\* Their roots, expiries and catalogues.
SomeRoots == "old" :> 0
SomeExpiry == "r" :> 1
SomeDeclared == (1 :> 0) @@ (2 :> 1) @@ (3 :> 3)
SomeCatalogue == (1 :> {"p"}) @@ (2 :> {"q"}) @@ (3 :> {"p", "q"})
=============================================================================
