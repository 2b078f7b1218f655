------------------------------- MODULE Remote -------------------------------
(***************************************************************************)
(* Remote copies of real data and what may be read from them: the registry *)
(* and cleanup journal of RealRemoteLifecycle, the permit of a compute run *)
(* (real_lab, the gateway, the Spark drivers) and the leases of the        *)
(* private view on its release (real_aggregate_read).                      *)
(* Cleanup holds the publication lock and never waits for it; everything   *)
(* that writes payload works without the lock.  The dozen outputs of a run *)
(* are one artifact per retention class.                                   *)
(***************************************************************************)
EXTENDS Integers, SequencesExt

CONSTANTS
    Runs,           \* compute runs, each with a fresh run ID
    Others,         \* outputs of runs that are not followed further, with their original time
    Kinds,          \* retention classes of their outputs
    Retention,      \* lifetime per class
    Grant,          \* longest permit (fifteen minutes)
    Lease,          \* longest lease of the view (sixty seconds)
    Fresh,          \* oldest cleanup a read may rest on (ten minutes)
    None,
    MaxNow,         \* bound: the clock
    MaxBatches,     \* bound: batches in the landed window
    MaxFaults       \* bound: processes that die

Keepers == {"operator", "viewer"}       \* the processes that call cleanup

ASSUME RemoteAssumption ==
    /\ {"raw", "aggregate"} \subseteq Kinds
    /\ Retention \in [Kinds -> Nat \ {0}]
    /\ Grant \in Nat \ {0} /\ Lease \in Nat \ {0} /\ Fresh \in Nat
    /\ None \notin Runs \union Keepers \union Nat
    /\ \A a \in DOMAIN Others : a \notin Runs \X Kinds /\ a[2] \in Kinds /\ Others[a] \in Nat

Artifacts == Runs \X Kinds \union DOMAIN Others
OutputsOf(r) == {r} \X Kinds

VARIABLES
    now,
    registry,   \* registry.json: original time and expiry by artifact
    journal,    \* cleanup.json: the registry it is bound to and what is done, or None
    payloads,   \* artifacts whose payload is in HDFS
    window,     \* the committed ODS snapshot: original times of its batches
    run,        \* per run: phase, frozen input, first day, the permit staged for it
    permit,     \* the permit file of each run
    archive,    \* the runs whose release is registered on the analysis node
    lease,      \* the admission the view holds
    lock,       \* holder of publisher.lock
    keeper,     \* per process: position in cleanup and what it knows
    belated,    \* history: outputs written when the permit had expired
    faults

vars == <<now, registry, journal, payloads, window, run, permit, archive, lease,
          lock, keeper, belated, faults>>

Idle == [pc |-> "idle"]
Unplanned == [phase |-> "none", input |-> {}, from |-> 0, staged |-> None]

Init ==
    /\ now = 0
    /\ registry = << >> /\ journal = None /\ payloads = {}
    /\ window = {}
    /\ run = [r \in Runs |-> Unplanned] /\ permit = [r \in Runs |-> None]
    /\ archive = {} /\ lease = None
    /\ lock = None /\ keeper = [k \in Keepers |-> Idle]
    /\ belated = {} /\ faults = 0

RawEnd(o) == o + Retention["raw"]
ReleaseEnd(r) == run[r].from + Retention["aggregate"]      \* date_from plus ninety days
Dead(a) == registry[a].expires <= now
Earliest(ends) == IF ends = {} THEN None ELSE Min(ends)

-----------------------------------------------------------------------------
(* A batch is committed to the window (see Landing). *)

Land ==
    /\ Cardinality(window) < MaxBatches
    /\ \E o \in 0..now \ window : RawEnd(o) > now /\ window' = window \union {o}
    /\ UNCHANGED <<now, registry, journal, payloads, run, permit, archive, lease,
                   lock, keeper, belated, faults>>

-----------------------------------------------------------------------------
(* Preparation of a run: its job file names the snapshot, its outputs are reserved. *)

Plan(r) ==
    /\ run[r].phase = "none" /\ window # {}
    /\ \E day \in 0..now :
         run' = [run EXCEPT ![r] = [phase |-> "planned", input |-> window, from |-> day, staged |-> None]]
    /\ UNCHANGED <<now, registry, journal, payloads, window, permit, archive, lease,
                   lock, keeper, belated, faults>>

OriginOf(r, k) == IF k = "aggregate" THEN run[r].from ELSE Min(run[r].input)

With(f, a, entry) == [x \in DOMAIN f \union {a} |-> IF x = a THEN entry ELSE f[x]]

\* Another run reserves an output.
ReserveOther(a) ==
    LET entry == [original |-> Others[a], expires |-> Others[a] + Retention[a[2]]]
    IN  /\ lock = None /\ journal = None
        /\ a \notin DOMAIN registry
        /\ Others[a] <= now /\ entry.expires > now
        /\ registry' = With(registry, a, entry)
        /\ UNCHANGED <<now, journal, payloads, window, run, permit, archive, lease,
                       lock, keeper, belated, faults>>

\* register: refused for payload that is already due and while a cleanup is unfinished.
Reserve(r, k) ==
    LET origin == OriginOf(r, k)
    IN  /\ run[r].phase = "planned" /\ run[r].input = window
        /\ lock = None /\ journal = None
        /\ <<r, k>> \notin DOMAIN registry
        /\ origin + Retention[k] > now
        /\ registry' = With(registry, <<r, k>>, [original |-> origin, expires |-> origin + Retention[k]])
        /\ UNCHANGED <<now, journal, payloads, window, run, permit, archive, lease,
                       lock, keeper, belated, faults>>

-----------------------------------------------------------------------------
(* cleanup, up to its receipt. *)

At(k, pc) == keeper[k].pc = pc
Step(k, pc) == keeper' = [keeper EXCEPT ![k].pc = pc]

\* Any refusal leaves the journal as it is and lets the lock go.
Refuse(k) ==
    /\ keeper' = [keeper EXCEPT ![k] = Idle]
    /\ lock' = None
    /\ UNCHANGED <<registry, journal, payloads, window, permit, lease>>

FreshScope(j) == j.scope = registry /\ j.done = {}    \* mutant: only a journal without progress is continued
SameScope(j) == j.scope = registry

\* issue_permit starts by blocking the permit of the same run.  The journal is written,
\* then the window is expired: the receipt will name the snapshot that is left.
Begin(k, why, r) ==
    /\ At(k, "idle") /\ lock = None
    /\ why = "permit" => run[r].phase = "planned" /\ OutputsOf(r) \subseteq DOMAIN registry
    /\ why = "read" => r \in archive
    /\ permit' = IF why = "permit" THEN [permit EXCEPT ![r] = None] ELSE permit
    /\ lease' = IF why = "read" THEN None ELSE lease
    /\ IF journal = None \/ SameScope(journal)
       THEN /\ journal' = IF journal = None THEN [scope |-> registry, done |-> {}] ELSE journal
            /\ window' = {o \in window : RawEnd(o) > now}
            /\ keeper' = [keeper EXCEPT ![k] =
                    [pc |-> "remove", why |-> why, run |-> r, at |-> now, input |-> window']]
            /\ lock' = k
       ELSE UNCHANGED <<journal, window, keeper, lock>>
    /\ UNCHANGED <<now, registry, payloads, run, archive, belated, faults>>

DueAt(t) == {a \in DOMAIN registry : registry[a].expires <= t}

\* The inventory, then one artifact after the other; what the journal says was
\* deleted must still be gone.
Delete(k) ==
    /\ At(k, "remove")
    /\ LET due == DueAt(keeper[k].at)
       IN  IF ~ payloads \subseteq DOMAIN registry \/ journal.done \cap due \cap payloads # {}
           THEN Refuse(k)
           ELSE /\ IF due \subseteq journal.done
                   THEN Step(k, "backends") /\ UNCHANGED payloads
                   ELSE \E a \in due \ journal.done :
                          /\ payloads' = payloads \ {a}
                          /\ keeper' = [keeper EXCEPT ![k] =
                                [pc |-> "mark", why |-> @.why, run |-> @.run, at |-> @.at,
                                 input |-> @.input, victim |-> a]]
                /\ UNCHANGED <<registry, journal, window, permit, lease, lock>>
    /\ UNCHANGED <<now, run, archive, belated, faults>>

Mark(k) ==
    /\ At(k, "mark")
    /\ journal' = [journal EXCEPT !.done = @ \union {keeper[k].victim}]
    /\ keeper' = [keeper EXCEPT ![k] = [pc |-> "remove", why |-> @.why, run |-> @.run, at |-> @.at,
                                        input |-> @.input]]
    /\ UNCHANGED <<now, registry, payloads, window, run, permit, archive, lease,
                   lock, belated, faults>>

AggregateExpiries(ends) ==      \* mutant: raw outputs do not bound what is granted
    ends \union {registry'[a].expires : a \in {b \in DOMAIN registry' : b[2] = "aggregate"}}
NextExpiries(ends) == ends \union {registry'[a].expires : a \in DOMAIN registry'}

\* The initialized engines: each refuses, or proves that nothing expired is left in it
\* and names the next expiry of what is live (see Backends).  Then the registry is written.
WriteRegistry(k) ==
    /\ At(k, "backends")
    /\ \/ Refuse(k)
       \/ \E ends \in {{}, {keeper[k].at + 1}} :
            /\ registry' = [a \in DOMAIN registry \ DueAt(keeper[k].at) |-> registry[a]]
            /\ keeper' = [keeper EXCEPT ![k] =
                    [pc |-> "unlink", why |-> @.why, run |-> @.run, at |-> @.at, input |-> @.input,
                     scope |-> registry', next |-> Earliest(NextExpiries(ends))]]
            /\ UNCHANGED <<journal, payloads, window, permit, lease, lock>>
    /\ UNCHANGED <<now, run, archive, belated, faults>>

\* The journal goes, then the lock; the receipt is used without it.
Unlink(k) ==
    /\ At(k, "unlink")
    /\ journal' = None /\ lock' = None
    /\ keeper' = [keeper EXCEPT ![k] = IF @.why = "cleanup" THEN Idle ELSE [@ EXCEPT !.pc = "grant"]]
    /\ UNCHANGED <<now, registry, payloads, window, run, permit, archive, lease,
                   belated, faults>>

Die(k) ==
    /\ ~ At(k, "idle") /\ faults < MaxFaults
    /\ faults' = faults + 1
    /\ keeper' = [keeper EXCEPT ![k] = Idle]
    /\ lock' = IF lock = k THEN None ELSE lock
    /\ UNCHANGED <<now, registry, journal, payloads, window, run, permit, archive, lease, belated>>

-----------------------------------------------------------------------------
(* Permits and the computation they allow. *)

SameInput(k, r) == keeper[k].input = run[r].input

\* The rest of issue_permit, without the lock.
IssuePermit(k) ==
    /\ At(k, "grant") /\ keeper[k].why = "permit"
    /\ LET r == keeper[k].run
           end == Min({keeper[k].at + Grant, keeper[k].next})
       IN  permit' = IF /\ SameInput(k, r) /\ journal = None /\ OutputsOf(r) \subseteq DOMAIN registry
                        /\ end > keeper[k].at
                     THEN [permit EXCEPT ![r] = [input |-> run[r].input, expires |-> end]]
                     ELSE permit
    /\ keeper' = [keeper EXCEPT ![k] = Idle]
    /\ UNCHANGED <<now, registry, journal, payloads, window, run, archive, lease,
                   lock, belated, faults>>

\* stage_compute: the compute node works with a copy of permit and snapshot.
Stage(r) ==
    /\ run[r].phase = "planned" /\ permit[r] # None /\ run[r].staged # permit[r]
    /\ now < permit[r].expires /\ window = run[r].input
    /\ run' = [run EXCEPT ![r].staged = permit[r]]
    /\ UNCHANGED <<now, registry, journal, payloads, window, permit, archive, lease,
                   lock, keeper, belated, faults>>

\* The gateway admits a command only while the staged permit is valid, the
\* driver only a snapshot none of whose batches has expired.
Compute(r) ==
    /\ \/ /\ run[r].phase = "planned"
          /\ run[r].staged # None /\ now < run[r].staged.expires
          /\ \A o \in run[r].input : RawEnd(o) > now
          /\ run' = [run EXCEPT ![r].phase = "writing"]
       \/ /\ run[r].phase = "writing" /\ OutputsOf(r) \subseteq payloads
          /\ run' = [run EXCEPT ![r].phase = "done"]
    /\ UNCHANGED <<now, registry, journal, payloads, window, permit, archive, lease,
                   lock, keeper, belated, faults>>

\* The driver does not look at the permit again: 1100 seconds are more than fifteen minutes.
WriteOutput(r, k) ==
    /\ run[r].phase = "writing" /\ <<r, k>> \notin payloads
    /\ payloads' = payloads \union {<<r, k>>}
    /\ belated' = IF now < run[r].staged.expires THEN belated ELSE belated \union {<<r, k>>}
    /\ UNCHANGED <<now, registry, journal, window, run, permit, archive, lease,
                   lock, keeper, faults>>

-----------------------------------------------------------------------------
(* The copy of the release the view reads (see Releases for how it gets there). *)

LiveCopies == {r \in archive : ReleaseEnd(r) > now}

\* release_real on the analysis node: the copy is registered, expired ones are removed.
Release(r) ==
    /\ run[r].phase = "done" /\ ReleaseEnd(r) > now /\ r \notin archive
    /\ archive' = LiveCopies \union {r}
    /\ UNCHANGED <<now, registry, journal, payloads, window, run, permit, lease,
                   lock, keeper, belated, faults>>

-----------------------------------------------------------------------------
(* The private view. *)

Limits(k, r) == {now + Lease, ReleaseEnd(r)} \union ({keeper[k].next} \ {None})

\* read_checked: what cleanup returned is compared with what holds now.
Admit(k) ==
    /\ At(k, "grant") /\ keeper[k].why = "read"
    /\ LET r == keeper[k].run
           end == Min(Limits(k, r))
       IN  /\ archive' = LiveCopies
           /\ lease' = IF /\ journal = None /\ keeper[k].at + Fresh >= now
                          /\ r \in LiveCopies
                          /\ registry = keeper[k].scope
                          /\ <<r, "aggregate">> \in DOMAIN registry \cap payloads
                          /\ end > now
                       THEN [run |-> r, expires |-> end, scope |-> registry]
                       ELSE None
    /\ keeper' = [keeper EXCEPT ![k] = Idle]
    /\ UNCHANGED <<now, registry, journal, payloads, window, run, permit,
                   lock, belated, faults>>

\* cached_readable, on every rendering.
Readable(l) ==
    now < l.expires /\ l.run \in archive /\ journal = None /\ registry = l.scope

Tick ==
    /\ now < MaxNow
    /\ now' = now + 1
    /\ UNCHANGED <<registry, journal, payloads, window, run, permit, archive, lease,
                   lock, keeper, belated, faults>>

-----------------------------------------------------------------------------
Cleanup == Begin("operator", "cleanup", None)
Proceed(k) ==
    \/ Delete(k) \/ Mark(k)
    \/ WriteRegistry(k) \/ Unlink(k) \/ IssuePermit(k) \/ Admit(k)

Next ==
    \/ Land \/ Cleanup \/ Tick
    \/ \E r \in Runs : Plan(r) \/ Stage(r) \/ Compute(r) \/ Release(r)
    \/ \E r \in Runs, c \in Kinds : Reserve(r, c) \/ WriteOutput(r, c)
    \/ \E a \in DOMAIN Others : ReserveOther(a)
    \/ \E r \in Runs : Begin("operator", "permit", r) \/ Begin("viewer", "read", r)
    \/ \E k \in Keepers : Proceed(k) \/ Die(k)

Spec == Init /\ [][Next]_vars
FairSpec == Spec /\ SF_vars(Cleanup) /\ WF_vars(\E k \in Keepers : Proceed(k))

-----------------------------------------------------------------------------
(* Correctness. *)

Phases == {"none", "planned", "writing", "done"}
Entries == [original : Nat, expires : Nat]

\* Entries name artifacts of known runs, the journal its registry, and a process
\* is inside cleanup's locked part only if it holds the lock.
TypeOK ==
    /\ now \in Nat /\ faults \in Nat
    /\ DOMAIN registry \subseteq Artifacts /\ \A a \in DOMAIN registry : registry[a] \in Entries
    /\ journal # None => journal.done \subseteq DOMAIN journal.scope
    /\ payloads \union belated \subseteq Artifacts
    /\ window \subseteq Nat
    /\ \A r \in Runs : run[r].phase \in Phases
    /\ archive \subseteq Runs
    /\ \A k \in Keepers : keeper[k].pc \notin {"idle", "grant"} <=> lock = k

\* As long as a permit, or the copy the compute node works with, is valid, its
\* outputs are reserved and neither they nor a batch of its input has expired,
\* whatever was landed, cleaned or reserved since it was issued (issue_permit).
GrantsCoverLive ==
    \A r \in Runs : \A g \in {permit[r], run[r].staged} \ {None} :
        now < g.expires =>
            /\ \A a \in OutputsOf(r) : a \in DOMAIN registry /\ ~ Dead(a)
            /\ \A o \in g.input : RawEnd(o) > now

\* What the view renders on a lease: the release has not expired, its original is
\* still there, and nothing registered for reading has expired, whatever other
\* processes cleaned or reserved since (read_checked, cached_readable).
ShownIsLive ==
    lease # None /\ Readable(lease) =>
        /\ ReleaseEnd(lease.run) > now
        /\ <<lease.run, "aggregate">> \in payloads
        /\ \A a \in DOMAIN registry : ~ Dead(a)

\* Payload that no registry entry accounts for, which blocks every cleanup, comes only
\* from a computation that outlived its permit: deletion precedes the new registry.
OnlyLateWritesEscape == payloads \ DOMAIN registry \subseteq belated

\* Whoever reads, reads what may still be read.
ReadsCovered == TypeOK /\ GrantsCoverLive /\ ShownIsLive /\ OnlyLateWritesEscape

\* No later cleanup can pass: it died between the new registry and the end of the
\* journal, or something was written that the journal or the registry excludes.
Stuck ==
    lock = None /\ \/ journal # None /\ (journal.scope # registry \/ journal.done \cap payloads # {})
                   \/ ~ payloads \subseteq DOMAIN registry

\* An expired artifact is deleted if cleanup keeps being called, whatever process
\* died in it before, except in the cases of Stuck.
Overstays(a) == a \in payloads /\ a \in DueAt(now)
Settled(a) == a \notin payloads \/ Stuck
EventuallyRemoved == \A a \in Runs \X Kinds : Overstays(a) ~> Settled(a)
=============================================================================
