---------------------------- MODULE Publication ----------------------------
(***************************************************************************)
(* Publication of daily results in Doris (publication.publish) and what a  *)
(* reader gets (read_published).  A publisher holds the lock from its      *)
(* first query to its last; but a statement whose client timed out, or     *)
(* died, is still the server's to execute, when the lock is long free.     *)
(* A snapshot is addressed by its content, so it is its package here.      *)
(***************************************************************************)
EXTENDS Packages

CONSTANTS
    MaxRuns,        \* bound: publications that are begun
    MaxFaults       \* bound: publishers that die or time out

VARIABLES
    snapshots,      \* daily_snapshots: the rows, by package and day
    releases,       \* offline_releases: the package of each day
    inflight,       \* statements nobody waits for
    proc,           \* the publisher that holds the lock
    committed,      \* history: packages whose release was executed, in order
    runs, faults    \* bookkeeping for MaxRuns and MaxFaults

vars == <<snapshots, releases, inflight, proc, committed, runs, faults>>

Idle == [pc |-> "idle"]

Init ==
    /\ snapshots = {} /\ releases = [d \in Days |-> None]
    /\ inflight = {} /\ proc = Idle /\ committed = {}
    /\ runs = 0 /\ faults = 0

-----------------------------------------------------------------------------
(* The two tables. *)


RowsOf(p) == {<<p, d>> : d \in {e \in DOMAIN p.rows : p.rows[e] # Empty}}

UnsequencedUpsert(p, r) ==      \* mutant: no sequence column
    [d \in Days |-> IF d \in DOMAIN p.rows THEN p ELSE r[d]]

FilledUpsert(p, r) ==           \* mutant: days without rows get no pointer
    [d \in Days |-> IF /\ d \in DOMAIN p.rows /\ p.rows[d] # Empty
                       /\ r[d] = None \/ r[d].version <= p.version THEN p ELSE r[d]]

\* Unique key on the day, and business_version is the sequence column: a row
\* replaces one of the same or of a smaller version.
Upsert(p, r) ==
    [d \in Days |-> IF d \in DOMAIN p.rows /\ (r[d] = None \/ r[d].version <= p.version)
                    THEN p ELSE r[d]]

\* What the server does with a statement, at once or later.
Run(kind, p) ==
    \/ kind = "load" /\ snapshots' = snapshots \union RowsOf(p) /\ UNCHANGED <<releases, committed>>
    \/ kind = "commit" /\ releases' = Upsert(p, releases) /\ committed' = committed \union {p} /\ UNCHANGED snapshots

-----------------------------------------------------------------------------
(* The publisher. *)

Begin ==
    /\ proc.pc = "idle" /\ runs < MaxRuns
    /\ \E p \in Packages : proc' = [pc |-> "check", package |-> p]
    /\ runs' = runs + 1
    /\ UNCHANGED <<snapshots, releases, inflight, committed, faults>>

\* A day may be replaced by a newer cutoff, or by the same result again.
Replaceable(p, d) ==
    releases[d] # None =>
        \/ releases[d].version < p.version
        \/ releases[d].version = p.version /\ releases[d].rows[d] = p.rows[d]

SkippingCheck ==        \* mutant: days that have a pointer need no rows
    /\ proc.pc = "check"
    /\ proc' = IF \A d \in DOMAIN proc.package.rows : Replaceable(proc.package, d)
               THEN [proc EXCEPT !.pc = IF \A d \in DOMAIN proc.package.rows : releases[d] # None
                                        THEN "commit" ELSE "load"] ELSE Idle
    /\ UNCHANGED <<snapshots, releases, inflight, committed, runs, faults>>

Check ==
    /\ proc.pc = "check"
    /\ proc' = IF \A d \in DOMAIN proc.package.rows : Replaceable(proc.package, d)
               THEN [proc EXCEPT !.pc = "load"] ELSE Idle
    /\ UNCHANGED <<snapshots, releases, inflight, committed, runs, faults>>

Load ==
    /\ proc.pc = "load"
    /\ Run("load", proc.package)
    /\ proc' = [proc EXCEPT !.pc = "readback"]
    /\ UNCHANGED <<inflight, runs, faults>>

Loaded(p) == {r \in snapshots : r[1] = p} = RowsOf(p)

Readback ==
    /\ proc.pc = "readback"
    /\ proc' = IF Loaded(proc.package) THEN [proc EXCEPT !.pc = "commit"] ELSE Idle
    /\ UNCHANGED <<snapshots, releases, inflight, committed, runs, faults>>

\* One INSERT for the whole window, days without rows included.
Commit ==
    /\ proc.pc = "commit"
    /\ Run("commit", proc.package)
    /\ proc' = Idle
    /\ UNCHANGED <<inflight, runs, faults>>

-----------------------------------------------------------------------------
(* Faults. *)

Die ==
    /\ proc.pc # "idle" /\ faults < MaxFaults
    /\ proc' = Idle /\ faults' = faults + 1
    /\ UNCHANGED <<snapshots, releases, inflight, committed, runs>>

\* The client gives up on a statement (read_timeout, or it dies) that the
\* server has received.
Abandon ==
    /\ proc.pc \in {"load", "commit"} /\ faults < MaxFaults
    /\ inflight' = inflight \union {[kind |-> proc.pc, package |-> proc.package]}
    /\ proc' = Idle /\ faults' = faults + 1
    /\ UNCHANGED <<snapshots, releases, committed, runs>>

Late ==
    /\ \E s \in inflight : Run(s.kind, s.package) /\ inflight' = inflight \ {s}
    /\ UNCHANGED <<proc, runs, faults>>

Publish == Begin \/ Check \/ Load \/ Readback \/ Commit

Next == Publish \/ Die \/ Abandon \/ Late

Spec == Init /\ [][Next]_vars

-----------------------------------------------------------------------------
(* Correctness. *)

Statements == [kind : {"load", "commit"}, package : Packages]
Steps == [pc : {"check", "load", "readback", "commit"}, package : Packages]

TypeOK ==
    /\ snapshots \subseteq Packages \X Days
    /\ releases \in [Days -> Packages \union {None}]
    /\ inflight \subseteq Statements
    /\ proc \in Steps \union {Idle}
    /\ committed \subseteq Packages

\* What one query of the view report_published shows for a day: the cutoff of
\* the pointer with the rows that are in the snapshot.
Shown(d) ==
    IF releases[d] = None THEN None
    ELSE [version |-> releases[d].version,
          value |-> IF <<releases[d], d>> \in snapshots THEN releases[d].rows[d] ELSE Empty]

\* A pointer belongs to its day and never precedes the rows it points to, be
\* it in the table, in flight or about to be sent: a correction is not shown
\* as a day without visits (publication.publish, the readback).
PointersHaveRows ==
    /\ \A d \in Days : releases[d] # None =>
         d \in DOMAIN releases[d].rows /\ RowsOf(releases[d]) \subseteq snapshots
    /\ \A s \in inflight : s.kind = "commit" => RowsOf(s.package) \subseteq snapshots
    /\ proc.pc = "commit" => RowsOf(proc.package) \subseteq snapshots

\* A day shows a package that was published, and every day of every published
\* package, those it leaves empty included, shows its cutoff or a later one: no
\* publisher, however late its statement, brings back an older result or
\* replaces half of a window.
DaysAreNewest ==
    /\ \A d \in Days : releases[d] # None => releases[d] \in committed
    /\ \A p \in committed : \A d \in DOMAIN p.rows :
         releases[d] # None /\ releases[d].version >= p.version

\* Readers see whole packages, in the order of their cutoffs (module Board).
AsBoard == INSTANCE Board WITH board <- [d \in Days |-> Shown(d)]
RefinesBoard == AsBoard!BoardSpec
=============================================================================
