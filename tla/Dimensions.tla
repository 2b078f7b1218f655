----------------------------- MODULE Dimensions -----------------------------
(***************************************************************************)
(* Versioned catalogues of what a site offers: which release was live at a *)
(* moment, from receipts of two kinds.  A set of receipts is refused as a  *)
(* whole when they contradict each other; otherwise they are an artifact,  *)
(* which answers "unknown" wherever no receipt reaches.  One application.  *)
(***************************************************************************)
EXTENDS Integers, FiniteSets, FiniteSetsExt

CONSTANTS
    Releases,
    Declared,       \* per release: release_at, which its snapshot claims
    Catalogue,      \* per release: the keys it offers
    None,
    Cutoff,         \* knowledge_cutoff; times are 0..Cutoff
    MaxAttested, MaxCovered     \* bounds: receipts of a kind

DimensionsAssumption == Cutoff \in Nat /\ \A r \in Releases : Declared[r] \in 0..Cutoff

Times == 0..Cutoff
Keys == UNION {Catalogue[r] : r \in Releases}

VARIABLES
    world,      \* what really was deployed, and whose time is verified; None if receipts may be wrong
    attested,   \* attestations: an observation of a release, with its effective time or None
    covered     \* coverage: a release was live from .. to, without the end

vars == <<world, attested, covered>>

\* Deployments at different moments, each live until the next.
Worlds ==
    {w \in [deployed : SUBSET Releases, verified : SUBSET Releases] :
        /\ w.verified \subseteq w.deployed
        /\ \A r, s \in w.deployed : r # s => Declared[r] # Declared[s]}
LiveIn(w, t) ==
    {r \in w.deployed : Declared[r] <= t /\ \A s \in w.deployed : Declared[s] <= t => Declared[s] <= Declared[r]}

Init == world \in Worlds \union {None} /\ attested = {} /\ covered = {}

-----------------------------------------------------------------------------
(* build_bundle: what is refused. *)

Verified == {a.release : a \in {b \in attested : b.effective # None}}
Meet(from1, to1, from2, to2) == from1 <= to2 /\ from2 <= to1

\* A release is verified in all of its attestations or in none.
Inconsistent == \E a, b \in attested : a.release = b.release /\ a.effective # b.effective

\* Two releases are observed at one moment; the end of an observation belongs to it.
Disputed ==
    \E a, b \in attested : a.release # b.release /\ Meet(a.observed, a.checked, b.observed, b.checked)

SameInstant == \E r, s \in Verified : r # s /\ Declared[r] = Declared[s]

\* An observation goes on when another release is known to have taken over.
Overtaken ==
    \E a \in attested, r \in Verified :
        r # a.release /\ Declared[a.release] <= Declared[r] /\ Declared[r] <= a.checked

Unbased(c) == c.release \notin Verified \/ c.from < Declared[c.release]
Crossing(c) == \E r \in Verified \ {c.release} : Declared[c.release] <= Declared[r] /\ Declared[r] < c.to

OpenContradicted(c) ==   \* mutant: the end of an observation does not belong to it
    \E a \in attested : a.release # c.release /\ c.from < a.checked /\ a.observed < c.to
Contradicted(c) ==
    \E a \in attested : a.release # c.release /\ c.from <= a.checked /\ a.observed < c.to

Overlapping ==
    \E c, d \in covered : c.release # d.release /\ c.from < d.to /\ d.from < c.to

Refused ==
    \/ Inconsistent \/ Disputed \/ SameInstant \/ Overtaken \/ Overlapping
    \/ \E c \in covered : Unbased(c) \/ Crossing(c) \/ Contradicted(c)

-----------------------------------------------------------------------------
(* The artifact, and what may be asked of it. *)

\* A later release closes an earlier one only where history reaches it.
ValidTo(r) ==
    LET ends == {c.to : c \in {d \in covered : d.release = r}}
        successors == {Declared[s] : s \in {q \in Verified : Declared[q] > Declared[r]}} \cap ends
    IN IF r \notin Verified \/ successors = {} THEN None ELSE Min(successors)

AtEvent(t) == {c.release : c \in {d \in covered : d.from <= t /\ t < d.to}}
Current(t) == {a.release : a \in {b \in attested : b.observed <= t /\ t <= b.checked}}

\* What a release dropped stays among its rows as absent, and is answered like a missing row.
Status(r, key) == IF key \in Catalogue[r] THEN "present" ELSE "not_present"
Resolve(matches, key) ==
    IF Cardinality(matches) # 1 THEN "unknown" ELSE Status(CHOOSE r \in matches : TRUE, key)

\* The join of the warehouse has a row for each release that matches.
Joined(t, key) == IF AtEvent(t) = {} THEN {"unknown"} ELSE {Status(r, key) : r \in AtEvent(t)}

-----------------------------------------------------------------------------
(* An operator adds receipts; a refused set is not added to. *)

Happened(r, from, to) == world # None => \A t \in from..to : LiveIn(world, t) = {r}

Attest(r, effective, observed, checked) ==
    /\ Cardinality(attested) < MaxAttested
    /\ effective # None => effective <= observed
    /\ Happened(r, observed, checked)
    /\ world # None => ((effective # None) <=> r \in world.verified)
    /\ attested' = attested \union
         {[release |-> r, effective |-> effective, observed |-> observed, checked |-> checked]}
    /\ UNCHANGED <<world, covered>>

Cover(r, from, to) ==
    /\ Cardinality(covered) < MaxCovered
    /\ \E a \in attested : a.release = r
    /\ Happened(r, from, to - 1)
    /\ world # None => r \in Verified
    /\ covered' = covered \union {[release |-> r, from |-> from, to |-> to]}
    /\ UNCHANGED <<world, attested>>

Next ==
    /\ ~ Refused
    /\ \E r \in Releases, from \in Times :
         \/ \E effective \in {None, Declared[r]}, checked \in from..Cutoff : Attest(r, effective, from, checked)
         \/ \E to \in (from + 1)..Cutoff : Cover(r, from, to)

Spec == Init /\ [][Next]_vars

-----------------------------------------------------------------------------
(* Correctness. *)

\* Whatever was admitted, an artifact knows at most one release for a moment, by history and
\* by observation together; and none but the one that is verified to have begun then, unless
\* it is observed before its own declared time, which nothing compares (build_bundle).
Premature(r, t) == r \notin Verified /\ \E a \in attested : a.release = r /\ a.observed <= t /\ t < Declared[r]
OneAnswer ==
    ~ Refused => \A t \in Times :
        /\ Cardinality(AtEvent(t) \union Current(t)) <= 1
        /\ \A r \in Verified : Declared[r] = t =>
             \A s \in AtEvent(t) \union Current(t) : s = r \/ Premature(s, t)
        /\ \A key \in Keys : Joined(t, key) = {Resolve(AtEvent(t), key)}

\* An interval that is closed holds no other verified release, and nothing seen of one.
ClosedIsWhole ==
    ~ Refused => \A r \in {q \in Releases : ValidTo(q) # None} : \A t \in Declared[r]..(ValidTo(r) - 1) :
        (AtEvent(t) \union Current(t) \union {q \in Verified : Declared[q] = t}) \cap Verified \subseteq {r}

\* Receipts of what really happened are never refused, whichever of them are at hand, and what
\* the artifact then says is so.
TruthIsTold ==
    world # None =>
        /\ ~ Refused
        /\ \A t \in Times : AtEvent(t) \union Current(t) \subseteq LiveIn(world, t)
        /\ \A r \in {q \in Verified : ValidTo(q) # None} :
             /\ LiveIn(world, ValidTo(r)) # {r}
             /\ \A t \in Declared[r]..(ValidTo(r) - 1) : LiveIn(world, t) = {r}

DimensionsSound == OneAnswer /\ ClosedIsWhole /\ TruthIsTold
=============================================================================
