---------------------------- MODULE RemoteProofs ----------------------------
(***************************************************************************)
(* Whoever reads, reads what may still be read: the permits of the runs    *)
(* and the leases of the view, for any runs, outputs, lifetimes and clock, *)
(* with two processes in cleanup that may die at any step.  Then about     *)
(* Behavior, a program of Programs, whose names are other ones.            *)
(***************************************************************************)
EXTENDS Remote, Programs, FiniteSetTheorems, SequenceTheorems, WellFoundedInduction, TLAPS

Registries == UNION {[D -> Entries] : D \in SUBSET Artifacts}
Permits == [input : SUBSET Nat, expires : Nat]
Journals == [scope : Registries, done : SUBSET Artifacts]
Plans == [phase : Phases, input : SUBSET Nat, from : Nat, staged : Permits \union {None}]
Whys == {"cleanup", "permit", "read"}

\* What a process knows inside cleanup, and after it.
Removing == [pc : {"remove", "backends"}, why : Whys, run : Runs \union {None}, at : Nat, input : SUBSET Nat]
Marking == [pc : {"mark"}, why : Whys, run : Runs \union {None}, at : Nat, input : SUBSET Nat,
            victim : Artifacts]
Granting == [pc : {"unlink", "grant"}, why : Whys, run : Runs \union {None}, at : Nat, input : SUBSET Nat,
             scope : Registries, next : Nat \union {None}]

StateOK ==
    /\ now \in Nat /\ faults \in Nat
    /\ registry \in Registries
    /\ journal \in Journals \union {None}
    /\ journal # None => journal.done \subseteq DOMAIN journal.scope
    /\ payloads \subseteq Artifacts /\ belated \subseteq Artifacts /\ window \subseteq Nat
    /\ run \in [Runs -> Plans]
    /\ permit \in [Runs -> Permits \union {None}]
    /\ archive \subseteq Runs
    /\ lease \in [run : Runs, expires : Nat, scope : Registries] \union {None}
    /\ keeper \in [Keepers -> {Idle} \union Removing \union Marking \union Granting]

End(r, k) == OriginOf(r, k) + Retention[k]

\* A run has its input from its plan on, and a permit only after it.
PlanRight(r) ==
    /\ run[r].phase = "none" => permit[r] = None /\ run[r].staged = None
    /\ run[r].phase # "none" => run[r].input # {}
    /\ run[r].phase = "writing" => run[r].staged # None
    /\ r \in archive => run[r].phase = "done"
    /\ \A k \in Kinds : <<r, k>> \in DOMAIN registry =>
         run[r].phase # "none" /\ registry[<<r, k>>].expires = End(r, k)

\* A permit lasts no longer than any output of its run, which stay reserved as long as it lasts.
GrantRight(r, g) ==
    /\ g.input = run[r].input
    /\ \A k \in Kinds : /\ g.expires <= End(r, k)
                        /\ now < g.expires => <<r, k>> \in DOMAIN registry
GrantsRight == \A r \in Runs : \A g \in {permit[r], run[r].staged} \ {None} : GrantRight(r, g)

\* Inside the lock the journal is bound to the registry; when the engines are asked nothing
\* that is due is left but what came late.
LockedRight(s) ==
    /\ s.pc \in {"remove", "mark", "backends"} =>
         /\ journal \in Journals /\ journal.scope = registry /\ journal.done \subseteq DOMAIN registry
         /\ s.why = "permit" => OutputsOf(s.run) \subseteq DOMAIN registry
    /\ s.pc = "mark" => s.victim \in DOMAIN registry
    /\ s.pc = "backends" => DueAt(s.at) \cap payloads \subseteq belated

\* The next expiry of a receipt bounds what was registered then, and what a run still has.
ReceiptRight(s) ==
    s.pc \in {"unlink", "grant"} =>
         /\ \A a \in DOMAIN s.scope : s.next # None /\ s.next <= s.scope[a].expires
         /\ s.why = "permit" => \A k \in Kinds :
              /\ End(s.run, k) > s.at => s.next # None /\ s.next <= End(s.run, k)
              /\ <<s.run, k>> \in DOMAIN registry => End(s.run, k) > s.at

KeeperRight(k) ==
    LET s == keeper[k]
    IN  /\ s.pc \notin {"idle", "grant"} <=> lock = k
        /\ s.pc # "idle" =>
             /\ s.at <= now
             /\ s.why = "permit" => s.run \in Runs /\ run[s.run].phase # "none"
             /\ s.why = "read" => s.run \in Runs
        /\ s.pc = "grant" => s.why # "cleanup"
        /\ LockedRight(s) /\ ReceiptRight(s)

LeaseRight ==
    lease # None =>
        /\ run[lease.run].phase # "none"
        /\ lease.expires <= End(lease.run, "aggregate")
        /\ \A a \in DOMAIN lease.scope : lease.expires <= lease.scope[a].expires
        /\ now < lease.expires => <<lease.run, "aggregate">> \in payloads

IInv ==
    /\ StateOK
    /\ \A r \in Runs : PlanRight(r)
    /\ GrantsRight
    /\ \A k \in Keepers : KeeperRight(k)
    /\ LeaseRight
    /\ OnlyLateWritesEscape

-----------------------------------------------------------------------------
(* Facts about the registry and the ends of a run's outputs. *)

LEMMA Smaller ==
    ASSUME NEW x \in Nat, NEW y \in Nat, x < y
    PROVE  <<x, y>> \in OpToRel(<, Nat)
  BY Zenon DEF OpToRel

LEMMA MinProperty ==
    ASSUME NEW S, S \subseteq Nat, S # {}
    PROVE  Min(S) \in S /\ \A y \in S : Min(S) <= y
<1>1. PICK x \in S : \A y \in S : ~ (<<y, x>> \in OpToRel(<, Nat))
  BY WFMin, NatLessThanWellFounded
<1>2. \A y \in S : ~ (y < x)
  BY <1>1, Smaller, Zenon
<1>3. \A y \in S : x <= y
  BY <1>2
<1> QED
  BY <1>3 DEF Min

LEMMA ConstantFacts ==
    /\ "raw" \in Kinds /\ "aggregate" \in Kinds
    /\ \A k \in Kinds : Retention[k] \in Nat
    /\ None \notin Runs /\ None \notin Keepers /\ None \notin Nat
    /\ \A a \in DOMAIN Others : /\ a \notin Runs \X Kinds /\ a[2] \in Kinds /\ Others[a] \in Nat
                                /\ a \in Artifacts
    /\ \A r \in Runs, k \in Kinds : <<r, k>> \in Artifacts /\ <<r, k>> \in OutputsOf(r)
<1>1. \A r \in Runs, k \in Kinds : <<r, k>> \in Artifacts /\ <<r, k>> \in OutputsOf(r)
  BY DEF Artifacts, OutputsOf
<1> QED
  BY <1>1, RemoteAssumption DEF Artifacts

LEMMA RegistryFacts ==
    ASSUME NEW f \in Registries
    PROVE  /\ DOMAIN f \subseteq Artifacts
           /\ \A a \in DOMAIN f : f[a] \in Entries /\ f[a].expires \in Nat
BY DEF Registries, Entries

\* A function with such entries is a registry.
LEMMA RegistryMade ==
    ASSUME NEW D \in SUBSET Artifacts, NEW f \in [D -> Entries]
    PROVE  f \in Registries
BY DEF Registries

\* A reservation adds its entry.
Adds(f, a, e, g) ==
    /\ g \in Registries /\ DOMAIN g = DOMAIN f \union {a}
    /\ g[a] = e /\ \A b \in DOMAIN f : b # a => g[b] = f[b]

LEMMA WithEntry ==
    ASSUME NEW f \in Registries, NEW a \in Artifacts, NEW e \in Entries
    PROVE  Adds(f, a, e, With(f, a, e))
<1>1. DOMAIN f \subseteq Artifacts /\ \A b \in DOMAIN f : f[b] \in Entries
  BY RegistryFacts
<1>2. With(f, a, e) \in [DOMAIN f \union {a} -> Entries]
  BY <1>1 DEF With
<1>3. With(f, a, e) \in Registries
  BY <1>1, <1>2, RegistryMade
<1> QED
  BY <1>2, <1>3 DEF With, Adds

\* The ends of a planned run: the raw outputs go before any batch of the input does.
LEMMA EndFacts ==
    ASSUME StateOK, NEW r \in Runs, run[r].input # {}
    PROVE  /\ \A k \in Kinds : OriginOf(r, k) \in Nat /\ End(r, k) \in Nat
           /\ End(r, "aggregate") = ReleaseEnd(r)
           /\ \A o \in run[r].input : End(r, "raw") <= RawEnd(o)
<1>1. run[r].input \subseteq Nat /\ run[r].from \in Nat
  BY DEF StateOK, Plans
<1>2. /\ Min(run[r].input) \in run[r].input
      /\ \A o \in run[r].input : Min(run[r].input) <= o
  BY <1>1, MinProperty
<1>3. \A k \in Kinds : OriginOf(r, k) \in Nat
  BY <1>1, <1>2 DEF OriginOf
<1>4. Min(run[r].input) \in Nat
  BY <1>1, <1>2
<1>5. OriginOf(r, "raw") = Min(run[r].input)
  BY DEF OriginOf
<1>6. \A o \in run[r].input : End(r, "raw") <= RawEnd(o)
  <2>1. ASSUME NEW o \in run[r].input PROVE Min(run[r].input) <= o /\ o \in Nat
    BY <1>1, <1>2
  <2> QED
    BY <2>1, <1>4, <1>5, ConstantFacts DEF End, RawEnd
<1> QED
  BY <1>1, <1>3, <1>6, ConstantFacts DEF End, OriginOf, ReleaseEnd

\* A permit that is there is a permit.
LEMMA GrantTyped ==
    ASSUME StateOK, NEW r \in Runs, NEW g \in {permit[r], run[r].staged} \ {None}
    PROVE  g \in Permits /\ g.input \subseteq Nat /\ g.expires \in Nat
<1>1. run[r] \in Plans /\ permit[r] \in Permits \union {None}
  BY DEF StateOK
<1> QED
  BY <1>1 DEF Plans, Permits

-----------------------------------------------------------------------------
(* What a step leaves alone. *)

\* A planned run keeps its input.
RunsStable ==
    \A r \in Runs : run[r].phase # "none" =>
        run'[r].phase # "none" /\ run'[r].input = run[r].input /\ run'[r].from = run[r].from

LEMMA EndKept ==
    ASSUME NEW r \in Runs, run'[r].input = run[r].input, run'[r].from = run[r].from, NEW k
    PROVE  End(r, k)' = End(r, k)
BY DEF End, OriginOf

\* What is known of a process that does not move.
LEMMA KeeperFrame ==
    ASSUME StateOK, \A r \in Runs : PlanRight(r), NEW k \in Keepers, KeeperRight(k),
           keeper'[k] = keeper[k], RunsStable,
           now' \in Nat, now <= now',
           (lock' = k) <=> (lock = k),
           lock = k => registry' = registry /\ journal' = journal,
           keeper[k].pc = "backends" => DueAt(keeper[k].at) \cap payloads' \subseteq belated',
           \A r \in Runs, c \in Kinds :
              <<r, c>> \in DOMAIN registry' => <<r, c>> \in DOMAIN registry \/ End(r, c) > now
    PROVE  KeeperRight(k)'
<1> DEFINE s == keeper[k]
<1>1. s.pc # "idle" => s.at \in Nat /\ s.at <= now'
  BY DEF StateOK, KeeperRight, Idle, Removing, Marking, Granting
<1>2. s.pc # "idle" /\ s.why = "permit" =>
        /\ s.run \in Runs /\ run'[s.run].phase # "none"
        /\ \A c \in Kinds : End(s.run, c)' = End(s.run, c)
  BY EndKept DEF KeeperRight, RunsStable
<1>3. s.pc \in {"remove", "mark", "backends"} => registry' = registry /\ journal' = journal
  BY DEF KeeperRight
<1>4. LockedRight(s)'
  BY <1>3 DEF KeeperRight, LockedRight, DueAt
<1>5. ReceiptRight(s)'
  <2>1. SUFFICES ASSUME s.pc \in {"unlink", "grant"} PROVE ReceiptRight(s)'
    BY DEF ReceiptRight
  <2>2. s.at \in Nat /\ now \in Nat /\ s.at <= now
    BY <2>1 DEF StateOK, KeeperRight, Idle, Removing, Marking, Granting
  <2>3. ASSUME s.why = "permit", NEW c \in Kinds
        PROVE  /\ End(s.run, c)' > s.at => s.next # None /\ s.next <= End(s.run, c)'
               /\ <<s.run, c>> \in DOMAIN registry' => End(s.run, c)' > s.at
    <3>1. End(s.run, c)' = End(s.run, c) /\ s.run \in Runs
      BY <1>2, <2>1, <2>3
    <3>2. End(s.run, c) \in Int
      BY <2>1, <2>3, <3>1, EndFacts DEF KeeperRight, PlanRight
    <3> QED
      BY <2>1, <2>2, <2>3, <3>1, <3>2 DEF KeeperRight, ReceiptRight
  <2> QED
    BY <2>1, <2>3 DEF KeeperRight, ReceiptRight
<1> QED
  BY <1>1, <1>2, <1>4, <1>5 DEF KeeperRight

\* Nothing that the argument follows moves but the clock.
LEMMA StillRight ==
    ASSUME IInv, UNCHANGED <<registry, journal, payloads, run, permit, lease, lock, keeper, belated>>,
           window' \subseteq Nat, now' \in Nat, now <= now', faults' \in Nat,
           archive' \subseteq Runs, \A r \in archive' : run[r].phase = "done"
    PROVE  IInv'
<1>1. StateOK'
  BY DEF IInv, StateOK
<1>2. ASSUME NEW r \in Runs PROVE PlanRight(r)'
  BY <1>2 DEF IInv, PlanRight, End, OriginOf
<1>3. GrantsRight'
  <2>1. SUFFICES ASSUME NEW r \in Runs, NEW g \in {permit[r], run[r].staged} \ {None}
                 PROVE  GrantRight(r, g)'
    BY DEF GrantsRight
  <2>2. GrantRight(r, g) /\ g.expires \in Nat /\ now \in Nat
    BY <2>1, GrantTyped DEF IInv, GrantsRight, StateOK
  <2> QED
    BY <2>2 DEF GrantRight, End, OriginOf
<1>4. ASSUME NEW k \in Keepers PROVE KeeperRight(k)'
  BY <1>4, KeeperFrame DEF IInv, RunsStable, KeeperRight, LockedRight
<1>5. LeaseRight'
  BY DEF IInv, StateOK, LeaseRight, End, OriginOf
<1> QED
  BY <1>1, <1>2, <1>3, <1>4, <1>5 DEF IInv, OnlyLateWritesEscape

\* A run changes its phase or takes over its permit; its input stays.
LEMMA RunMoves ==
    ASSUME IInv, UNCHANGED <<now, registry, journal, payloads, window, permit, archive, lease, lock, keeper, belated, faults>>,
           NEW r \in Runs, NEW p \in Plans, run' = [run EXCEPT ![r] = p],
           p.phase # "none", p.input # {},
           run[r].phase # "none" => p.input = run[r].input /\ p.from = run[r].from,
           run[r].phase = "none" => p.staged = None,
           p.staged = run[r].staged \/ p.staged = permit[r],
           p.phase = "writing" => p.staged # None,
           run[r].phase = "done" => p.phase = "done"
    PROVE  IInv'
<1>1. StateOK'
  BY DEF IInv, StateOK
<1>2. RunsStable /\ run'[r] = p /\ \A q \in Runs : q # r => run'[q] = run[q]
  BY DEF IInv, StateOK, RunsStable
<1>3. ASSUME NEW q \in Runs, run[q].phase # "none", NEW k PROVE End(q, k)' = End(q, k)
  BY <1>2, <1>3, EndKept DEF RunsStable
<1>4. ASSUME NEW q \in Runs PROVE PlanRight(q)'
  <2>1. PlanRight(q)
    BY DEF IInv
  <2>2. CASE run[q].phase # "none"
    <3>1. \A k \in Kinds : End(q, k)' = End(q, k)
      BY <1>3, <2>2
    <3> QED
      BY <1>2, <2>1, <2>2, <3>1 DEF PlanRight
  <2>3. CASE run[q].phase = "none"
    BY <1>2, <2>1, <2>3 DEF PlanRight
  <2> QED
    BY <2>2, <2>3
<1>5. GrantsRight'
  <2>1. SUFFICES ASSUME NEW q \in Runs, NEW g \in ({permit[q], run[q].staged} \ {None})'
                 PROVE  GrantRight(q, g)'
    BY DEF GrantsRight
  <2>2. g \in {permit[q], run[q].staged} \ {None}
    BY <1>2, <2>1
  <2>3. GrantRight(q, g) /\ run[q].phase # "none"
    BY <2>1, <2>2 DEF IInv, GrantsRight, PlanRight
  <2>4. \A k \in Kinds : End(q, k)' = End(q, k)
    BY <1>3, <2>3
  <2> QED
    BY <1>2, <2>3, <2>4 DEF GrantRight, RunsStable
<1>6. ASSUME NEW k \in Keepers PROVE KeeperRight(k)'
  BY <1>2, <1>6, KeeperFrame DEF IInv, StateOK, KeeperRight, LockedRight
<1>7. LeaseRight'
  <2>1. lease # None => lease.run \in Runs
    BY DEF IInv, StateOK
  <2>2. lease # None => /\ run'[lease.run].phase # "none"
                        /\ End(lease.run, "aggregate")' = End(lease.run, "aggregate")
    BY <1>2, <1>3, <2>1 DEF IInv, LeaseRight, RunsStable
  <2> QED
    BY <2>2 DEF IInv, LeaseRight
<1> QED
  BY <1>1, <1>4, <1>5, <1>6, <1>7 DEF IInv, OnlyLateWritesEscape

\* A reservation of what is not due, outside any cleanup (register).
LEMMA ReservationKept ==
    ASSUME IInv, UNCHANGED <<now, journal, payloads, window, run, permit, archive, lease, lock, keeper, belated, faults>>,
           NEW a \in Artifacts, NEW e \in Entries,
           registry' = With(registry, a, e), a \notin DOMAIN registry, lock = None, e.expires > now,
           \A r \in Runs, k \in Kinds : a = <<r, k>> => run[r].phase # "none" /\ e.expires = End(r, k)
    PROVE  IInv'
<1>1. /\ registry \in Registries /\ registry' \in Registries /\ DOMAIN registry' = DOMAIN registry \union {a}
      /\ registry'[a] = e /\ \A b \in DOMAIN registry : registry'[b] = registry[b]
  <2>1. registry \in Registries
    BY DEF IInv, StateOK
  <2>2. Adds(registry, a, e, registry')
    BY <2>1, WithEntry
  <2> QED
    BY <2>1, <2>2 DEF Adds
<1>2. StateOK'
  BY <1>1 DEF IInv, StateOK
<1>3. \A q \in Runs : \A k : End(q, k)' = End(q, k)
  BY EndKept
<1>4. ASSUME NEW q \in Runs PROVE PlanRight(q)'
  BY <1>1, <1>3, <1>4 DEF IInv, PlanRight
<1>5. GrantsRight'
  BY <1>1, <1>3 DEF IInv, GrantsRight, GrantRight
<1>6. ASSUME NEW k \in Keepers PROVE KeeperRight(k)'
  <2>1. lock # k
    BY <1>6, ConstantFacts
  <2>2. keeper[k].pc # "backends"
    BY <1>6, <2>1 DEF IInv, KeeperRight
  <2> QED
    BY <1>1, <1>6, <2>1, <2>2, KeeperFrame DEF IInv, RunsStable, StateOK
<1>7. LeaseRight'
  BY DEF IInv, LeaseRight, End, OriginOf
<1> QED
  BY <1>1, <1>2, <1>4, <1>5, <1>6, <1>7 DEF IInv, OnlyLateWritesEscape

-----------------------------------------------------------------------------
(* The steps, one lemma for each. *)

LEMMA LandKept == ASSUME IInv, Land PROVE IInv'
<1>1. /\ UNCHANGED <<now, registry, journal, payloads, run, permit, archive, lease, lock, keeper, belated, faults>>
      /\ \E o \in 0..now : window' = window \union {o}
  BY DEF Land
<1>2. window' \subseteq Nat /\ now' \in Nat /\ now <= now' /\ faults' \in Nat
  <2>1. window \subseteq Nat /\ now \in Nat /\ faults \in Nat
    BY DEF IInv, StateOK
  <2>2. now' = now /\ faults' = faults /\ \E o \in 0..now : window' = window \union {o}
    BY <1>1
  <2> QED
    BY <2>1, <2>2
<1> QED
  BY <1>1, <1>2, StillRight DEF IInv, StateOK, PlanRight

LEMMA TickKept == ASSUME IInv, Tick PROVE IInv'
<1>1. /\ UNCHANGED <<registry, journal, payloads, window, run, permit, archive, lease, lock, keeper, belated, faults>>
      /\ now' = now + 1
  BY DEF Tick
<1> QED
  BY <1>1, StillRight DEF IInv, StateOK, PlanRight

LEMMA ReleaseKept == ASSUME IInv, NEW r \in Runs, Release(r) PROVE IInv'
<1>1. /\ UNCHANGED <<now, registry, journal, payloads, window, run, permit, lease, lock, keeper, belated, faults>>
      /\ run[r].phase = "done" /\ archive' = LiveCopies \union {r}
  BY DEF Release
<1>2. archive' \subseteq Runs /\ \A q \in archive' : run[q].phase = "done"
  BY <1>1 DEF IInv, StateOK, PlanRight, LiveCopies
<1> QED
  BY <1>1, <1>2, StillRight DEF IInv, StateOK

LEMMA PlanKept == ASSUME IInv, NEW r \in Runs, Plan(r) PROVE IInv'
<1>1. PICK day \in 0..now :
        run' = [run EXCEPT ![r] = [phase |-> "planned", input |-> window, from |-> day, staged |-> None]]
  BY DEF Plan
<1> DEFINE p == [phase |-> "planned", input |-> window, from |-> day, staged |-> None]
<1>2. p \in Plans
  BY DEF IInv, StateOK, Plans, Phases
<1>3. run[r].phase = "none" /\ window # {} /\ run[r].staged = None
  BY DEF Plan, IInv, PlanRight
<1> QED
  BY <1>1, <1>2, <1>3, RunMoves DEF Plan

LEMMA StageKept == ASSUME IInv, NEW r \in Runs, Stage(r) PROVE IInv'
<1> DEFINE p == [run[r] EXCEPT !.staged = permit[r]]
<1>1. run[r] \in Plans /\ permit[r] \in Permits \union {None} /\ run[r].phase = "planned" /\ run[r].input # {}
  BY DEF Stage, IInv, StateOK, PlanRight
<1>2. /\ p \in Plans /\ p.phase = "planned" /\ p.input = run[r].input /\ p.from = run[r].from
      /\ p.staged = permit[r]
  BY <1>1 DEF Plans
<1>3. run' = [run EXCEPT ![r] = p]
  BY DEF Stage
<1> HIDE DEF p
<1> QED
  BY <1>1, <1>2, <1>3, RunMoves DEF Stage

LEMMA ComputeKept == ASSUME IInv, NEW r \in Runs, Compute(r) PROVE IInv'
<1>1. PICK next \in {"writing", "done"} :
        /\ run' = [run EXCEPT ![r].phase = next]
        /\ next = "writing" => run[r].phase = "planned" /\ run[r].staged # None
        /\ next = "done" => run[r].phase = "writing"
  BY DEF Compute
<1> DEFINE p == [run[r] EXCEPT !.phase = next]
<1>2. run[r] \in Plans /\ run[r].phase # "none" /\ run[r].phase # "done" /\ run[r].input # {}
  BY <1>1 DEF IInv, StateOK, PlanRight
<1>3. /\ p \in Plans /\ p.phase = next /\ p.input = run[r].input /\ p.from = run[r].from
      /\ p.staged = run[r].staged
  BY <1>2 DEF Plans, Phases
<1>4. run' = [run EXCEPT ![r] = p]
  BY <1>1
<1>5. next # "none" /\ (next = "writing" => p.staged # None)
  BY <1>1, <1>3
<1> HIDE DEF p
<1> QED
  BY <1>2, <1>3, <1>4, <1>5, RunMoves DEF Compute

LEMMA ReserveKept == ASSUME IInv, NEW r \in Runs, NEW k \in Kinds, Reserve(r, k) PROVE IInv'
<1> DEFINE e == [original |-> OriginOf(r, k), expires |-> OriginOf(r, k) + Retention[k]]
<1>1. run[r].phase = "planned" /\ run[r].input # {}
  BY DEF Reserve, IInv, PlanRight
<1>2. OriginOf(r, k) \in Nat /\ Retention[k] \in Nat /\ <<r, k>> \in Artifacts
  BY <1>1, EndFacts, ConstantFacts DEF IInv
<1>3. e \in Entries /\ e.expires = End(r, k)
  BY <1>2 DEF Entries, End
<1>4. /\ UNCHANGED <<now, journal, payloads, window, run, permit, archive, lease, lock, keeper, belated, faults>>
      /\ registry' = With(registry, <<r, k>>, e) /\ <<r, k>> \notin DOMAIN registry /\ lock = None
      /\ e.expires > now
  BY DEF Reserve
<1>5. \A q \in Runs, c \in Kinds : <<r, k>> = <<q, c>> => run[q].phase # "none" /\ e.expires = End(q, c)
  BY <1>1, <1>3
<1> HIDE DEF e
<1> QED
  BY <1>2, <1>3, <1>4, <1>5, ReservationKept

LEMMA ReserveOtherKept == ASSUME IInv, NEW a \in DOMAIN Others, ReserveOther(a) PROVE IInv'
<1> DEFINE e == [original |-> Others[a], expires |-> Others[a] + Retention[a[2]]]
<1>1. a \in Artifacts /\ a \notin Runs \X Kinds /\ e \in Entries
  BY ConstantFacts DEF Entries
<1>2. /\ UNCHANGED <<now, journal, payloads, window, run, permit, archive, lease, lock, keeper, belated, faults>>
      /\ registry' = With(registry, a, e) /\ a \notin DOMAIN registry /\ lock = None
      /\ e.expires > now
  BY DEF ReserveOther
<1>3. \A q \in Runs, c \in Kinds : a # <<q, c>>
  BY <1>1
<1> HIDE DEF e
<1> QED
  BY <1>1, <1>2, <1>3, ReservationKept

\* What is written while the permit holds is reserved and not due; anything else is late.
LEMMA WriteOutputKept == ASSUME IInv, NEW r \in Runs, NEW c \in Kinds, WriteOutput(r, c) PROVE IInv'
<1>1. /\ UNCHANGED <<now, registry, journal, window, run, permit, archive, lease, lock, keeper, faults>>
      /\ payloads' = payloads \union {<<r, c>>} /\ <<r, c>> \in Artifacts
      /\ belated \subseteq belated' /\ belated' \subseteq belated \union {<<r, c>>}
  BY ConstantFacts DEF WriteOutput
<1>2. <<r, c>> \notin belated' => <<r, c>> \in DOMAIN registry /\ registry[<<r, c>>].expires > now
  <2>1. SUFFICES ASSUME <<r, c>> \notin belated'
                 PROVE  <<r, c>> \in DOMAIN registry /\ registry[<<r, c>>].expires > now
    OBVIOUS
  <2>2. now < run[r].staged.expires /\ run[r].phase = "writing"
    BY <2>1 DEF WriteOutput
  <2>3. run[r].staged # None /\ run[r].input # {}
    BY <2>2 DEF IInv, PlanRight
  <2>4. GrantRight(r, run[r].staged) /\ run[r].staged.expires \in Nat
    BY <2>3, GrantTyped DEF IInv, GrantsRight
  <2>5. <<r, c>> \in DOMAIN registry /\ run[r].staged.expires <= End(r, c)
    BY <2>2, <2>4 DEF GrantRight
  <2>6. registry[<<r, c>>].expires = End(r, c) /\ End(r, c) \in Nat
    BY <2>3, <2>5, EndFacts DEF IInv, PlanRight
  <2> QED
    BY <2>2, <2>4, <2>5, <2>6 DEF IInv, StateOK
<1>3. StateOK'
  BY <1>1 DEF IInv, StateOK
<1>4. ASSUME NEW q \in Runs PROVE PlanRight(q)'
  BY <1>1 DEF IInv, PlanRight, End, OriginOf
<1>5. GrantsRight'
  BY <1>1 DEF IInv, GrantsRight, GrantRight, End, OriginOf
<1>6. ASSUME NEW k \in Keepers PROVE KeeperRight(k)'
  <2>1. ASSUME keeper[k].pc = "backends" PROVE DueAt(keeper[k].at) \cap payloads' \subseteq belated'
    <3>1. DueAt(keeper[k].at) \cap payloads \subseteq belated /\ keeper[k].at <= now /\ keeper[k].at \in Nat
      BY <2>1, <1>6 DEF IInv, StateOK, KeeperRight, LockedRight, Idle, Removing, Marking, Granting
    <3>2. <<r, c>> \in DueAt(keeper[k].at) => <<r, c>> \in belated'
      <4>1. <<r, c>> \in DOMAIN registry => registry[<<r, c>>].expires \in Nat
        BY RegistryFacts DEF IInv, StateOK
      <4> QED
        BY <1>2, <3>1, <4>1 DEF DueAt, IInv, StateOK
    <3> QED
      BY <1>1, <3>1, <3>2
  <2> QED
    BY <1>1, <1>6, <2>1, KeeperFrame DEF IInv, StateOK, RunsStable
<1>7. LeaseRight'
  BY <1>1 DEF IInv, LeaseRight, End, OriginOf
<1>8. OnlyLateWritesEscape'
  BY <1>1, <1>2 DEF IInv, OnlyLateWritesEscape
<1> QED
  BY <1>3, <1>4, <1>5, <1>6, <1>7, <1>8 DEF IInv

\* The processes that are in the same place as before, while one moves.
LEMMA OthersStay ==
    ASSUME IInv, NEW k \in Keepers, NEW d \in Keepers, d # k,
           UNCHANGED <<now, run, belated>>, keeper'[d] = keeper[d],
           lock' \in {lock, None, k}, lock \in {None, k} \/ lock' = lock,
           lock = k \/ lock' = k \/ UNCHANGED <<registry, journal>>,
           lock = k \/ payloads' \subseteq payloads,
           DOMAIN registry' \subseteq DOMAIN registry
    PROVE  KeeperRight(d)'
<1>1. KeeperRight(d) /\ StateOK /\ None # d /\ (\A r \in Runs : PlanRight(r))
  BY ConstantFacts DEF IInv
<1>2. (lock' = d) <=> (lock = d)
  BY <1>1
<1>3. lock = d => registry' = registry /\ journal' = journal
  BY <1>2
<1>4. keeper[d].pc = "backends" => DueAt(keeper[d].at) \cap payloads' \subseteq belated'
  <2>1. SUFFICES ASSUME keeper[d].pc = "backends"
                 PROVE  DueAt(keeper[d].at) \cap payloads' \subseteq belated'
    OBVIOUS
  <2>2. lock = d /\ DueAt(keeper[d].at) \cap payloads \subseteq belated
    BY <1>1, <2>1 DEF KeeperRight, LockedRight
  <2> QED
    BY <2>2
<1>5. RunsStable /\ now' \in Nat /\ now <= now'
  BY <1>1 DEF StateOK, RunsStable
<1>6. \A r \in Runs, c \in Kinds :
         <<r, c>> \in DOMAIN registry' => <<r, c>> \in DOMAIN registry \/ End(r, c) > now
  OBVIOUS
<1> QED
  BY <1>1, <1>2, <1>3, <1>4, <1>5, <1>6, KeeperFrame

\* A process that leaves cleanup, whatever becomes of what it was about to grant.
LEMMA GoesIdle ==
    ASSUME IInv, NEW k \in Keepers, UNCHANGED <<now, registry, journal, payloads, run, belated>>,
           keeper' = [keeper EXCEPT ![k] = Idle], lock' = IF lock = k THEN None ELSE lock
    PROVE  /\ keeper' \in [Keepers -> {Idle} \union Removing \union Marking \union Granting]
           /\ \A d \in Keepers : KeeperRight(d)'
<1>1. /\ keeper' \in [Keepers -> {Idle} \union Removing \union Marking \union Granting]
      /\ keeper'[k] = Idle /\ \A d \in Keepers : d # k => keeper'[d] = keeper[d]
  BY DEF IInv, StateOK
<1>2. KeeperRight(k)'
  <2>1. lock' # k
    BY ConstantFacts
  <2> QED
    BY <1>1, <2>1 DEF KeeperRight, LockedRight, ReceiptRight, Idle
<1>3. ASSUME NEW d \in Keepers, d # k PROVE KeeperRight(d)'
  BY <1>1, <1>3, OthersStay
<1> QED
  BY <1>1, <1>2, <1>3

LEMMA LeavesKept ==
    ASSUME IInv, NEW k \in Keepers, UNCHANGED <<now, registry, journal, payloads, window, run, permit, archive, lease, belated>>,
           faults' \in Nat, keeper' = [keeper EXCEPT ![k] = Idle], lock' = IF lock = k THEN None ELSE lock
    PROVE  IInv'
<1>1. StateOK'
  BY GoesIdle DEF IInv, StateOK
<1>2. ASSUME NEW r \in Runs PROVE PlanRight(r)'
  BY <1>2 DEF IInv, PlanRight, End, OriginOf
<1>3. GrantsRight'
  BY DEF IInv, GrantsRight, GrantRight, End, OriginOf
<1>4. LeaseRight'
  BY DEF IInv, LeaseRight, End, OriginOf
<1> QED
  BY <1>1, <1>2, <1>3, <1>4, GoesIdle DEF IInv, OnlyLateWritesEscape

LEMMA DieKept == ASSUME IInv, NEW k \in Keepers, Die(k) PROVE IInv'
<1>1. faults' \in Nat
  BY DEF Die, IInv, StateOK
<1> QED
  BY <1>1, LeavesKept DEF Die

LEMMA RefuseKept ==
    ASSUME IInv, NEW k \in Keepers, lock = k, Refuse(k), UNCHANGED <<now, run, archive, belated, faults>>
    PROVE  IInv'
  BY LeavesKept DEF Refuse, IInv, StateOK

\* Where a process stands, by its position.
LEMMA KeeperForm ==
    ASSUME IInv, NEW k \in Keepers
    PROVE  /\ keeper[k].pc \in {"remove", "backends"} => keeper[k] \in Removing
           /\ keeper[k].pc = "mark" => keeper[k] \in Marking
           /\ keeper[k].pc \in {"unlink", "grant"} => keeper[k] \in Granting
<1>1. keeper[k] \in {Idle} \union Removing \union Marking \union Granting
  BY DEF IInv, StateOK
<1> QED
  BY <1>1 DEF Idle, Removing, Marking, Granting

\* A step of cleanup before the registry is written.
LEMMA SameElsewhere ==
    ASSUME IInv, UNCHANGED <<now, registry, run, permit, archive, lease, belated, faults, window>>,
           payloads' \subseteq payloads,
           journal' = journal \/ (journal' \in Journals /\ journal'.done \subseteq DOMAIN journal'.scope),
           keeper' \in [Keepers -> {Idle} \union Removing \union Marking \union Granting],
           \A k \in Keepers : KeeperRight(k)', payloads' = payloads \/ LeaseRight'
    PROVE  IInv'
<1>1. StateOK'
  BY DEF IInv, StateOK
<1>2. ASSUME NEW r \in Runs PROVE PlanRight(r)'
  BY <1>2 DEF IInv, PlanRight, End, OriginOf
<1>3. GrantsRight'
  BY DEF IInv, GrantsRight, GrantRight, End, OriginOf
<1>4. LeaseRight'
  BY DEF IInv, LeaseRight, End, OriginOf
<1> QED
  BY <1>1, <1>2, <1>3, <1>4 DEF IInv, OnlyLateWritesEscape

LEMMA BeginKept ==
    ASSUME IInv, NEW k \in Keepers, NEW why \in Whys, NEW r \in Runs \union {None},
           why # "cleanup" => r \in Runs, Begin(k, why, r)
    PROVE  IInv'
<1>1. /\ At(k, "idle") /\ lock = None /\ UNCHANGED <<now, registry, payloads, run, archive, belated, faults>>
      /\ why = "permit" => /\ run[r].phase = "planned" /\ OutputsOf(r) \subseteq DOMAIN registry
                           /\ permit' = [permit EXCEPT ![r] = None]
      /\ why # "permit" => permit' = permit
      /\ lease' \in {lease, None}
      /\ why = "read" => r \in archive
  BY DEF Begin
<1>2. permit' \in [Runs -> Permits \union {None}] /\ \A q \in Runs : permit'[q] \in {permit[q], None}
  BY <1>1 DEF IInv, StateOK, Whys
<1>3. ASSUME NEW q \in Runs PROVE PlanRight(q)'
  BY <1>1, <1>2, <1>3 DEF IInv, PlanRight, End, OriginOf
<1>4. GrantsRight'
  <2>1. SUFFICES ASSUME NEW q \in Runs, NEW g \in ({permit[q], run[q].staged} \ {None})' PROVE GrantRight(q, g)'
    BY DEF GrantsRight
  <2>2. g \in {permit[q], run[q].staged} \ {None}
    BY <1>1, <1>2, <2>1
  <2> QED
    BY <1>1, <2>2 DEF IInv, GrantsRight, GrantRight, End, OriginOf
<1>5. LeaseRight'
  BY <1>1 DEF IInv, LeaseRight, End, OriginOf
<1>6. lease' \in [run : Runs, expires : Nat, scope : Registries] \union {None}
  BY <1>1 DEF IInv, StateOK
<1>7. CASE journal = None \/ SameScope(journal)
  <2> DEFINE j == IF journal = None THEN [scope |-> registry, done |-> {}] ELSE journal
             s == [pc |-> "remove", why |-> why, run |-> r, at |-> now, input |-> window']
  <2>1. /\ journal' = j /\ window' = {o \in window : RawEnd(o) > now}
        /\ keeper' = [keeper EXCEPT ![k] = s] /\ lock' = k
    BY <1>7 DEF Begin
  <2>2. j \in Journals /\ j.scope = registry /\ j.done \subseteq DOMAIN registry
    <3>1. CASE journal = None
      BY <3>1 DEF IInv, StateOK, Journals
    <3>2. CASE journal # None
      BY <1>7, <3>2 DEF IInv, StateOK, SameScope
    <3> QED
      BY <3>1, <3>2
  <2>3. window' \subseteq Nat /\ now \in Nat
    BY <2>1 DEF IInv, StateOK
  <2>4. s \in Removing /\ s.pc = "remove" /\ s.why = why /\ s.run = r /\ s.at = now
    BY <2>3 DEF Removing
  <2> HIDE DEF j, s
  <2>5. /\ keeper' \in [Keepers -> {Idle} \union Removing \union Marking \union Granting]
        /\ keeper'[k] = s /\ \A d \in Keepers : d # k => keeper'[d] = keeper[d]
    BY <2>1, <2>4 DEF IInv, StateOK
  <2>6. StateOK'
    BY <1>1, <1>2, <1>6, <2>1, <2>2, <2>3, <2>5 DEF IInv, StateOK
  <2>7. KeeperRight(k)'
    <3>1. LockedRight(keeper[k])' /\ ReceiptRight(keeper[k])'
      BY <1>1, <2>1, <2>2, <2>4, <2>5 DEF LockedRight, ReceiptRight
    <3>2. why = "permit" => r \in Runs /\ run'[r].phase # "none"
      BY <1>1
    <3> QED
      BY <1>1, <2>1, <2>3, <2>4, <2>5, <3>1, <3>2 DEF KeeperRight, Whys
  <2>8. ASSUME NEW d \in Keepers, d # k PROVE KeeperRight(d)'
    BY <1>1, <2>1, <2>5, <2>8, OthersStay
  <2> QED
    BY <1>1, <1>3, <1>4, <1>5, <2>6, <2>7, <2>8 DEF IInv, OnlyLateWritesEscape
<1>8. CASE ~ (journal = None \/ SameScope(journal))
  <2>1. UNCHANGED <<journal, window, keeper, lock>>
    BY <1>8 DEF Begin
  <2>2. StateOK'
    BY <1>1, <1>2, <1>6, <2>1 DEF IInv, StateOK
  <2>3. ASSUME NEW d \in Keepers PROVE KeeperRight(d)'
    BY <1>1, <2>1, <2>3, KeeperFrame DEF IInv, StateOK, RunsStable, KeeperRight, LockedRight
  <2> QED
    BY <1>1, <1>3, <1>4, <1>5, <2>2, <2>3 DEF IInv, OnlyLateWritesEscape
<1> QED
  BY <1>7, <1>8

\* One artifact goes, or the engines are asked: what was due and stayed came late.
LEMMA DeleteKept == ASSUME IInv, NEW k \in Keepers, Delete(k) PROVE IInv'
<1> DEFINE s == keeper[k]
           due == DueAt(s.at)
<1>1. /\ s.pc = "remove" /\ s \in Removing /\ lock = k /\ UNCHANGED <<now, run, archive, belated, faults>>
      /\ KeeperRight(k) /\ k # None
  BY KeeperForm, ConstantFacts DEF Delete, At, IInv, KeeperRight
<1>2. /\ journal \in Journals /\ journal.scope = registry /\ journal.done \subseteq DOMAIN registry
      /\ s.why = "permit" => OutputsOf(s.run) \subseteq DOMAIN registry
      /\ s.at \in Nat /\ s.at <= now
  BY <1>1 DEF KeeperRight, LockedRight, Removing
<1>3. CASE Refuse(k)
  BY <1>1, <1>3, RefuseKept
<1>4. ASSUME payloads \subseteq DOMAIN registry, journal.done \cap due \cap payloads = {}, due \subseteq journal.done,
             Step(k, "backends"), UNCHANGED <<registry, journal, payloads, window, permit, lease, lock>>
      PROVE  IInv'
  <2> DEFINE t == [s EXCEPT !.pc = "backends"]
  <2>1. t \in Removing /\ t.pc = "backends" /\ t.why = s.why /\ t.run = s.run /\ t.at = s.at
    BY <1>1 DEF Removing
  <2>2. keeper' = [keeper EXCEPT ![k] = t]
    BY <1>4 DEF Step
  <2> HIDE DEF t
  <2>3. /\ keeper' \in [Keepers -> {Idle} \union Removing \union Marking \union Granting]
        /\ keeper'[k] = t /\ \A d \in Keepers : d # k => keeper'[d] = keeper[d]
    BY <2>1, <2>2 DEF IInv, StateOK
  <2>4. KeeperRight(k)'
    <3>1. LockedRight(keeper[k])' /\ ReceiptRight(keeper[k])'
      BY <1>1, <1>2, <1>4, <2>1, <2>3 DEF LockedRight, ReceiptRight, DueAt
    <3> QED
      BY <1>1, <1>4, <2>1, <2>3, <3>1 DEF KeeperRight
  <2>5. ASSUME NEW d \in Keepers, d # k PROVE KeeperRight(d)'
    BY <1>1, <1>4, <2>3, <2>5, OthersStay
  <2> QED
    BY <1>1, <1>4, <2>3, <2>4, <2>5, SameElsewhere
<1>5. ASSUME NEW a \in due \ journal.done, payloads' = payloads \ {a},
             keeper' = [keeper EXCEPT ![k] = [pc |-> "mark", why |-> s.why, run |-> s.run, at |-> s.at,
                                              input |-> s.input, victim |-> a]],
             UNCHANGED <<registry, journal, window, permit, lease, lock>>
      PROVE  IInv'
  <2> DEFINE t == [pc |-> "mark", why |-> s.why, run |-> s.run, at |-> s.at, input |-> s.input, victim |-> a]
  <2>1. a \in DOMAIN registry /\ registry[a].expires <= now /\ a \in Artifacts
    <3>1. a \in DOMAIN registry /\ registry[a].expires <= s.at
      BY <1>5 DEF DueAt
    <3>2. registry[a].expires \in Nat /\ a \in Artifacts
      BY <3>1, RegistryFacts DEF IInv, StateOK
    <3> QED
      BY <1>2, <3>1, <3>2 DEF IInv, StateOK
  <2>2. t \in Marking /\ t.pc = "mark" /\ t.why = s.why /\ t.run = s.run /\ t.at = s.at /\ t.victim = a
    BY <1>1, <2>1 DEF Removing, Marking
  <2>3. keeper' = [keeper EXCEPT ![k] = t]
    BY <1>5
  <2> HIDE DEF t
  <2>4. /\ keeper' \in [Keepers -> {Idle} \union Removing \union Marking \union Granting]
        /\ keeper'[k] = t /\ \A d \in Keepers : d # k => keeper'[d] = keeper[d]
    BY <2>2, <2>3 DEF IInv, StateOK
  <2>5. KeeperRight(k)'
    <3>1. LockedRight(keeper[k])' /\ ReceiptRight(keeper[k])'
      BY <1>2, <1>5, <2>1, <2>2, <2>4 DEF LockedRight, ReceiptRight
    <3> QED
      BY <1>1, <1>5, <2>2, <2>4, <3>1 DEF KeeperRight
  <2>6. ASSUME NEW d \in Keepers, d # k PROVE KeeperRight(d)'
    BY <1>1, <1>5, <2>4, <2>6, OthersStay
  <2>7. LeaseRight'
    <3>1. SUFFICES ASSUME lease # None, now < lease.expires
                   PROVE  a # <<lease.run, "aggregate">>
      BY <1>1, <1>5 DEF IInv, LeaseRight, End, OriginOf
    <3>2. /\ lease.run \in Runs /\ lease.expires \in Nat /\ run[lease.run].phase # "none"
          /\ lease.expires <= End(lease.run, "aggregate")
      BY <3>1 DEF IInv, StateOK, LeaseRight
    <3>3. SUFFICES ASSUME a = <<lease.run, "aggregate">> PROVE FALSE
      OBVIOUS
    <3>4. registry[a].expires = End(lease.run, "aggregate") /\ End(lease.run, "aggregate") \in Nat
      BY <2>1, <3>2, <3>3, ConstantFacts, EndFacts DEF IInv, PlanRight
    <3> QED
      BY <2>1, <3>1, <3>2, <3>4 DEF IInv, StateOK
  <2> QED
    BY <1>1, <1>5, <2>4, <2>5, <2>6, <2>7, SameElsewhere
<1> QED
  BY <1>1, <1>3, <1>4, <1>5 DEF Delete

LEMMA MarkKept == ASSUME IInv, NEW k \in Keepers, Mark(k) PROVE IInv'
<1> DEFINE s == keeper[k]
           t == [pc |-> "remove", why |-> s.why, run |-> s.run, at |-> s.at, input |-> s.input]
<1>1. /\ s.pc = "mark" /\ s \in Marking /\ lock = k /\ KeeperRight(k)
      /\ UNCHANGED <<now, registry, payloads, window, run, permit, archive, lease, lock, belated, faults>>
  BY KeeperForm DEF Mark, At, IInv, KeeperRight
<1>2. /\ journal \in Journals /\ journal.scope = registry /\ journal.done \subseteq DOMAIN registry
      /\ s.why = "permit" => OutputsOf(s.run) \subseteq DOMAIN registry
      /\ s.victim \in DOMAIN registry /\ s.victim \in Artifacts
  BY <1>1 DEF KeeperRight, LockedRight, Marking
<1>3. journal' = [journal EXCEPT !.done = @ \union {s.victim}] /\ keeper' = [keeper EXCEPT ![k] = t]
  BY DEF Mark
<1>4. journal' \in Journals /\ journal'.scope = registry /\ journal'.done \subseteq DOMAIN registry
  BY <1>2, <1>3 DEF Journals
<1>5. t \in Removing /\ t.pc = "remove" /\ t.why = s.why /\ t.run = s.run /\ t.at = s.at
  BY <1>1 DEF Marking, Removing
<1> HIDE DEF t
<1>6. /\ keeper' \in [Keepers -> {Idle} \union Removing \union Marking \union Granting]
      /\ keeper'[k] = t /\ \A d \in Keepers : d # k => keeper'[d] = keeper[d]
  BY <1>3, <1>5 DEF IInv, StateOK
<1>7. KeeperRight(k)'
  <2>1. LockedRight(keeper[k])' /\ ReceiptRight(keeper[k])'
    BY <1>1, <1>2, <1>4, <1>5, <1>6 DEF LockedRight, ReceiptRight
  <2> QED
    BY <1>1, <1>5, <1>6, <2>1 DEF KeeperRight
<1>8. ASSUME NEW d \in Keepers, d # k PROVE KeeperRight(d)'
  BY <1>1, <1>6, <1>8, OthersStay
<1> QED
  BY <1>1, <1>4, <1>6, <1>7, <1>8, SameElsewhere

\* The next expiry of a receipt comes no later than that of anything still registered.
LEMMA NextBounds ==
    ASSUME NEW f \in Registries, NEW ends \in SUBSET Nat, NEW next,
           next = Earliest(ends \union {f[a].expires : a \in DOMAIN f})
    PROVE  /\ next \in Nat \union {None}
           /\ \A a \in DOMAIN f : next # None /\ next <= f[a].expires
<1> DEFINE S == ends \union {f[a].expires : a \in DOMAIN f}
<1>1. S \subseteq Nat
  BY RegistryFacts
<1>2. CASE S = {}
  BY <1>2 DEF Earliest
<1>3. CASE S # {}
  <2>1. next = Min(S) /\ Min(S) \in S /\ \A y \in S : Min(S) <= y
    BY <1>1, <1>3, MinProperty DEF Earliest
  <2>2. next \in Nat /\ \A y \in S : next <= y
    BY <1>1, <2>1
  <2>3. next # None
    BY <2>2, ConstantFacts
  <2> QED
    BY <2>2, <2>3
<1> QED
  BY <1>2, <1>3

\* What leaves the registry was due; it was deleted, or came late.
LEMMA WriteRegistryKept == ASSUME IInv, NEW k \in Keepers, WriteRegistry(k) PROVE IInv'
<1> DEFINE s == keeper[k]
           due == DueAt(s.at)
<1>1. /\ s.pc = "backends" /\ s \in Removing /\ lock = k /\ KeeperRight(k)
      /\ UNCHANGED <<now, run, archive, belated, faults>>
  BY KeeperForm DEF WriteRegistry, At, IInv, KeeperRight
<1>2. /\ s.why = "permit" => OutputsOf(s.run) \subseteq DOMAIN registry /\ s.run \in Runs /\ run[s.run].phase # "none"
      /\ due \cap payloads \subseteq belated /\ s.at \in Nat /\ s.at <= now /\ now \in Nat
      /\ s.why = "read" => s.run \in Runs
  BY <1>1 DEF KeeperRight, LockedRight, Removing, IInv, StateOK
<1>3. CASE Refuse(k)
  BY <1>1, <1>3, RefuseKept
<1>4. ASSUME NEW ends \in {{}, {s.at + 1}},
             registry' = [a \in DOMAIN registry \ due |-> registry[a]],
             keeper' = [keeper EXCEPT ![k] =
                [pc |-> "unlink", why |-> s.why, run |-> s.run, at |-> s.at, input |-> s.input,
                 scope |-> registry', next |-> Earliest(NextExpiries(ends))]],
             UNCHANGED <<journal, payloads, window, permit, lease, lock>>
      PROVE  IInv'
  <2> DEFINE next == Earliest(NextExpiries(ends))
             t == [pc |-> "unlink", why |-> s.why, run |-> s.run, at |-> s.at, input |-> s.input,
                   scope |-> registry', next |-> next]
  <2>1. /\ registry \in Registries /\ DOMAIN registry' = DOMAIN registry \ due
        /\ \A a \in DOMAIN registry' : registry'[a] = registry[a]
    BY <1>4 DEF IInv, StateOK
  <2>2. registry' \in Registries
    <3>1. DOMAIN registry \ due \in SUBSET Artifacts /\ \A a \in DOMAIN registry : registry[a] \in Entries
      BY <2>1, RegistryFacts
    <3>2. registry' \in [DOMAIN registry \ due -> Entries]
      BY <1>4, <3>1
    <3> QED
      BY <3>1, <3>2, RegistryMade
  <2>3. /\ \A a \in DOMAIN registry : registry[a].expires \in Nat
        /\ \A a \in DOMAIN registry : a \in DOMAIN registry' <=> registry[a].expires > s.at
    <3>1. \A a \in DOMAIN registry : registry[a].expires \in Nat
      BY <2>1, RegistryFacts
    <3> QED
      BY <1>2, <2>1, <3>1 DEF DueAt
  <2>4. next \in Nat \union {None} /\ \A a \in DOMAIN registry' : next # None /\ next <= registry'[a].expires
    <3>1. ends \in SUBSET Nat
      BY <1>2
    <3> QED
      BY <2>2, <3>1, NextBounds DEF NextExpiries
  <2> HIDE DEF next
  <2>5. /\ t \in Granting /\ t.pc = "unlink" /\ t.why = s.why /\ t.run = s.run /\ t.at = s.at
        /\ t.scope = registry' /\ t.next = next
    BY <1>1, <2>2, <2>4 DEF Removing, Granting
  <2>6. keeper' = [keeper EXCEPT ![k] = t]
    BY <1>4 DEF next
  <2> HIDE DEF t
  <2>7. /\ keeper' \in [Keepers -> {Idle} \union Removing \union Marking \union Granting]
        /\ keeper'[k] = t /\ \A d \in Keepers : d # k => keeper'[d] = keeper[d]
    BY <2>5, <2>6 DEF IInv, StateOK
  <2>8. StateOK'
    BY <1>1, <1>4, <2>2, <2>7 DEF IInv, StateOK
  <2>9. ASSUME NEW r \in Runs PROVE PlanRight(r)'
    BY <1>1, <1>4, <2>1, <2>9 DEF IInv, PlanRight, End, OriginOf
  <2>10. GrantsRight'
    <3>1. SUFFICES ASSUME NEW r \in Runs, NEW g \in {permit[r], run[r].staged} \ {None}
                   PROVE  GrantRight(r, g)'
      BY <1>1, <1>4 DEF GrantsRight
    <3>2. GrantRight(r, g) /\ g.expires \in Nat /\ run[r].phase # "none" /\ run[r].input # {}
      BY <3>1, GrantTyped DEF IInv, GrantsRight, PlanRight
    <3>3. ASSUME NEW c \in Kinds, now < g.expires PROVE <<r, c>> \in DOMAIN registry'
      <4>1. <<r, c>> \in DOMAIN registry /\ g.expires <= End(r, c)
        BY <3>2, <3>3 DEF GrantRight
      <4>2. registry[<<r, c>>].expires = End(r, c)
        BY <3>1, <4>1 DEF IInv, PlanRight
      <4> QED
        BY <1>2, <2>3, <3>2, <3>3, <4>1, <4>2
    <3> QED
      BY <1>1, <3>2, <3>3 DEF GrantRight, End, OriginOf
  <2>11. KeeperRight(k)'
    <3>1. LockedRight(keeper[k])'
      BY <2>5, <2>7 DEF LockedRight
    <3>2. ASSUME s.why = "permit", NEW c \in Kinds
          PROVE  /\ End(s.run, c) > s.at => next # None /\ next <= End(s.run, c)
                 /\ <<s.run, c>> \in DOMAIN registry' => End(s.run, c) > s.at
      <4>1. <<s.run, c>> \in DOMAIN registry
        BY <1>2, <3>2, ConstantFacts
      <4>2. registry[<<s.run, c>>].expires = End(s.run, c)
        BY <1>2, <3>2, <4>1 DEF IInv, PlanRight
      <4> QED
        BY <2>1, <2>3, <2>4, <4>1, <4>2
    <3>3. \A c : End(keeper[k].run, c)' = End(s.run, c)
      BY <1>1, <2>5, <2>7 DEF End, OriginOf
    <3>4. ReceiptRight(keeper[k])'
      BY <2>4, <2>5, <2>7, <3>2, <3>3 DEF ReceiptRight
    <3> QED
      BY <1>1, <1>2, <1>4, <2>5, <2>7, <3>1, <3>4 DEF KeeperRight
  <2>12. ASSUME NEW d \in Keepers, d # k PROVE KeeperRight(d)'
    BY <1>1, <1>4, <2>1, <2>7, <2>12, OthersStay
  <2>13. LeaseRight'
    BY <1>1, <1>4 DEF IInv, LeaseRight, End, OriginOf
  <2>14. OnlyLateWritesEscape'
    BY <1>1, <1>2, <1>4, <2>1 DEF IInv, OnlyLateWritesEscape
  <2> QED
    BY <2>8, <2>9, <2>10, <2>11, <2>12, <2>13, <2>14 DEF IInv
<1> QED
  BY <1>3, <1>4 DEF WriteRegistry

LEMMA UnlinkKept == ASSUME IInv, NEW k \in Keepers, Unlink(k) PROVE IInv'
<1> DEFINE s == keeper[k]
           t == IF s.why = "cleanup" THEN Idle ELSE [s EXCEPT !.pc = "grant"]
<1>1. /\ s.pc = "unlink" /\ s \in Granting /\ lock = k /\ KeeperRight(k) /\ k # None
      /\ UNCHANGED <<now, registry, payloads, window, run, permit, archive, lease, belated, faults>>
      /\ journal' = None /\ lock' = None /\ keeper' = [keeper EXCEPT ![k] = t]
  BY KeeperForm, ConstantFacts DEF Unlink, At, IInv, KeeperRight
<1>2. t = Idle \/ /\ t \in Granting /\ t.pc = "grant" /\ t.why = s.why /\ t.run = s.run /\ t.at = s.at
                  /\ t.scope = s.scope /\ t.next = s.next /\ t.why # "cleanup"
  BY <1>1 DEF Granting
<1> HIDE DEF t
<1>3. /\ keeper' \in [Keepers -> {Idle} \union Removing \union Marking \union Granting]
      /\ keeper'[k] = t /\ \A d \in Keepers : d # k => keeper'[d] = keeper[d]
  BY <1>1, <1>2 DEF IInv, StateOK
<1>4. KeeperRight(k)'
  <2>1. CASE t = Idle
    BY <1>1, <1>3, <2>1 DEF KeeperRight, LockedRight, ReceiptRight, Idle
  <2>2. CASE t # Idle
    <3>1. LockedRight(keeper[k])'
      BY <1>2, <1>3, <2>2 DEF LockedRight
    <3>2. ReceiptRight(keeper[k])'
      BY <1>1, <1>2, <1>3, <2>2 DEF KeeperRight, ReceiptRight, End, OriginOf
    <3> QED
      BY <1>1, <1>2, <1>3, <2>2, <3>1, <3>2 DEF KeeperRight
  <2> QED
    BY <2>1, <2>2
<1>5. ASSUME NEW d \in Keepers, d # k PROVE KeeperRight(d)'
  BY <1>1, <1>3, <1>5, OthersStay
<1>6. StateOK'
  BY <1>1, <1>3 DEF IInv, StateOK
<1>7. ASSUME NEW r \in Runs PROVE PlanRight(r)'
  BY <1>1, <1>7 DEF IInv, PlanRight, End, OriginOf
<1>8. GrantsRight'
  BY <1>1 DEF IInv, GrantsRight, GrantRight, End, OriginOf
<1>9. LeaseRight'
  BY <1>1 DEF IInv, LeaseRight, End, OriginOf
<1> QED
  BY <1>1, <1>4, <1>5, <1>6, <1>7, <1>8, <1>9 DEF IInv, OnlyLateWritesEscape

\* The permit ends with the receipt it rests on, so with every output that is reserved.
LEMMA IssuePermitKept == ASSUME IInv, NEW k \in Keepers, IssuePermit(k) PROVE IInv'
<1> DEFINE s == keeper[k]
           r == s.run
           end == Min({s.at + Grant, s.next})
           g == [input |-> run[r].input, expires |-> end]
<1>1. /\ s.pc = "grant" /\ s.why = "permit" /\ s \in Granting /\ KeeperRight(k) /\ lock # k
      /\ UNCHANGED <<now, registry, journal, payloads, window, run, archive, lease, lock, belated, faults>>
      /\ keeper' = [keeper EXCEPT ![k] = Idle]
  BY KeeperForm DEF IssuePermit, At, IInv, KeeperRight
<1>2. r \in Runs /\ run[r].phase # "none" /\ run[r].input # {} /\ s.at \in Nat /\ s.next \in Nat \union {None}
  BY <1>1 DEF KeeperRight, Granting, IInv, PlanRight
<1>3. CASE permit' = permit
  <2>1. lock' = IF lock = k THEN None ELSE lock
    BY <1>1
  <2> QED
    BY <1>1, <1>3, <2>1, LeavesKept DEF IInv, StateOK
<1>4. ASSUME permit' = [permit EXCEPT ![r] = g], OutputsOf(r) \subseteq DOMAIN registry PROVE IInv'
  <2>1. \A c \in Kinds : /\ <<r, c>> \in DOMAIN registry
                         /\ s.next # None /\ s.next <= End(r, c) /\ End(r, c) \in Nat
    <3>1. ASSUME NEW c \in Kinds PROVE <<r, c>> \in DOMAIN registry
      BY <1>2, <1>4, ConstantFacts
    <3> QED
      BY <1>1, <1>2, <3>1, EndFacts DEF KeeperRight, ReceiptRight, IInv
  <2>2. s.next \in Nat
    BY <1>2, <2>1, ConstantFacts
  <2>3. end \in Nat /\ end <= s.next
    <3> DEFINE S == {s.at + Grant, s.next}
    <3>1. S \subseteq Nat /\ S # {} /\ s.next \in S
      BY <1>2, <2>2, RemoteAssumption
    <3> HIDE DEF S
    <3>2. Min(S) \in S /\ Min(S) <= s.next
      BY <3>1, MinProperty
    <3> QED
      BY <3>1, <3>2 DEF S
  <2> HIDE DEF end
  <2>4. g \in Permits /\ g.input = run[r].input /\ g.expires = end
    BY <1>2, <2>3 DEF Permits, IInv, StateOK, Plans
  <2>5. GrantRight(r, g)
    <3>1. ASSUME NEW c \in Kinds PROVE end <= End(r, c) /\ <<r, c>> \in DOMAIN registry
      BY <2>1, <2>2, <2>3
    <3> QED
      BY <2>4, <3>1 DEF GrantRight
  <2> HIDE DEF g
  <2>6. /\ permit' \in [Runs -> Permits \union {None}] /\ permit'[r] = g
        /\ \A q \in Runs : q # r => permit'[q] = permit[q]
    BY <1>2, <1>4, <2>4 DEF IInv, StateOK
  <2>7. GrantsRight'
    <3>1. SUFFICES ASSUME NEW q \in Runs, NEW h \in ({permit[q], run[q].staged} \ {None})' PROVE GrantRight(q, h)'
      BY DEF GrantsRight
    <3>2. GrantRight(q, h)
      BY <1>1, <2>5, <2>6, <3>1 DEF IInv, GrantsRight
    <3> QED
      BY <1>1, <3>2 DEF GrantRight, End, OriginOf
  <2>8. ASSUME NEW q \in Runs PROVE PlanRight(q)'
    BY <1>1, <1>2, <2>6, <2>8 DEF IInv, PlanRight, End, OriginOf
  <2>9. /\ keeper' \in [Keepers -> {Idle} \union Removing \union Marking \union Granting]
        /\ \A d \in Keepers : KeeperRight(d)'
    <3>1. lock' = IF lock = k THEN None ELSE lock
      BY <1>1
    <3> QED
      BY <1>1, <3>1, GoesIdle
  <2>10. StateOK'
    BY <1>1, <2>6, <2>9 DEF IInv, StateOK
  <2>11. LeaseRight'
    BY <1>1 DEF IInv, LeaseRight, End, OriginOf
  <2> QED
    BY <1>1, <2>7, <2>8, <2>9, <2>10, <2>11 DEF IInv, OnlyLateWritesEscape
<1> QED
  BY <1>3, <1>4 DEF IssuePermit

\* The lease ends with the release and with anything that was registered when it was granted.
LEMMA AdmitKept == ASSUME IInv, NEW k \in Keepers, Admit(k) PROVE IInv'
<1> DEFINE s == keeper[k]
           r == s.run
           L == Limits(k, r)
           end == Min(L)
<1>1. /\ s.pc = "grant" /\ s.why = "read" /\ s \in Granting /\ KeeperRight(k) /\ lock # k /\ r \in Runs
      /\ UNCHANGED <<now, registry, journal, payloads, window, run, permit, lock, belated, faults>>
      /\ keeper' = [keeper EXCEPT ![k] = Idle] /\ archive' = LiveCopies
  BY KeeperForm DEF Admit, At, IInv, KeeperRight
<1>2. archive' \subseteq archive
  BY <1>1 DEF LiveCopies
<1>3. lease' \in [run : Runs, expires : Nat, scope : Registries] \union {None} /\ LeaseRight'
  <2>1. CASE lease' = None
    BY <2>1 DEF LeaseRight
  <2>2. ASSUME r \in LiveCopies, registry = s.scope, <<r, "aggregate">> \in payloads,
               lease' = [run |-> r, expires |-> end, scope |-> registry]
        PROVE  lease' \in [run : Runs, expires : Nat, scope : Registries] \union {None} /\ LeaseRight'
    <3>1. run[r].phase # "none" /\ run[r].input # {}
      BY <1>1, <2>2 DEF LiveCopies, IInv, PlanRight
    <3>2. ReleaseEnd(r) \in Nat /\ ReleaseEnd(r) = End(r, "aggregate")
      BY <1>1, <3>1, EndFacts, ConstantFacts DEF IInv
    <3>3. L \subseteq Nat /\ ReleaseEnd(r) \in L /\ (s.next # None => s.next \in L)
      <4>1. now + Lease \in Nat /\ s.next \in Nat \union {None}
        BY <1>1, RemoteAssumption DEF IInv, StateOK, Granting
      <4> QED
        BY <3>2, <4>1 DEF Limits
    <3> HIDE DEF L
    <3>4. end \in Nat /\ \A y \in L : end <= y
      BY <3>3, MinProperty
    <3> HIDE DEF end
    <3>5. \A a \in DOMAIN registry : end <= registry[a].expires
      <4>1. ASSUME NEW a \in DOMAIN registry PROVE end <= registry[a].expires
        <5>1. s.next # None /\ s.next <= registry[a].expires
          BY <1>1, <2>2, <4>1 DEF KeeperRight, ReceiptRight
        <5>2. registry[a].expires \in Nat
          BY <4>1, RegistryFacts DEF IInv, StateOK
        <5>3. s.next \in Nat /\ end <= s.next
          BY <3>3, <3>4, <5>1
        <5> QED
          BY <3>4, <5>1, <5>2, <5>3
      <4> QED
        BY <4>1
    <3>6. lease'.run = r /\ lease'.expires = end /\ lease'.scope = registry
      BY <2>2
    <3>7. lease' \in [run : Runs, expires : Nat, scope : Registries]
      BY <1>1, <2>2, <3>4 DEF IInv, StateOK
    <3>8. End(lease.run, "aggregate")' = End(r, "aggregate")
      BY <1>1, <3>6 DEF End, OriginOf
    <3> QED
      BY <1>1, <2>2, <3>1, <3>2, <3>3, <3>4, <3>5, <3>6, <3>7, <3>8 DEF LeaseRight
  <2> QED
    BY <2>1, <2>2 DEF Admit
<1>4. /\ keeper' \in [Keepers -> {Idle} \union Removing \union Marking \union Granting]
      /\ \A d \in Keepers : KeeperRight(d)'
  <2>1. lock' = IF lock = k THEN None ELSE lock
    BY <1>1
  <2> QED
    BY <1>1, <2>1, GoesIdle
<1>5. StateOK'
  BY <1>1, <1>2, <1>3, <1>4 DEF IInv, StateOK
<1>6. ASSUME NEW q \in Runs PROVE PlanRight(q)'
  BY <1>1, <1>2, <1>6 DEF IInv, PlanRight, End, OriginOf
<1>7. GrantsRight'
  BY <1>1 DEF IInv, GrantsRight, GrantRight, End, OriginOf
<1> QED
  BY <1>1, <1>3, <1>4, <1>5, <1>6, <1>7 DEF IInv, OnlyLateWritesEscape

-----------------------------------------------------------------------------
(* The theorem. *)

LEMMA InitInvariant == ASSUME Init PROVE IInv
<1>1. registry \in Registries /\ DOMAIN registry = {}
  <2>1. registry \in [{} -> Entries]
    BY DEF Init
  <2>2. {} \in SUBSET Artifacts
    OBVIOUS
  <2> QED
    BY <2>1, <2>2, RegistryMade
<1>2. Unplanned \in Plans /\ Unplanned.phase = "none" /\ Unplanned.staged = None
  BY DEF Unplanned, Plans, Phases
<1>3. StateOK
  BY <1>1, <1>2 DEF Init, StateOK
<1>4. \A r \in Runs : PlanRight(r) /\ permit[r] = None /\ run[r].staged = None
  BY <1>1, <1>2 DEF Init, PlanRight
<1>5. GrantsRight
  BY <1>4 DEF GrantsRight
<1>6. \A k \in Keepers : KeeperRight(k)
  BY ConstantFacts DEF Init, KeeperRight, LockedRight, ReceiptRight, Idle
<1> QED
  BY <1>3, <1>4, <1>5, <1>6 DEF Init, IInv, LeaseRight, OnlyLateWritesEscape

LEMMA Inductive == IInv /\ [Next]_vars => IInv'
<1> SUFFICES ASSUME IInv, [Next]_vars PROVE IInv'
  OBVIOUS
<1>1. CASE UNCHANGED vars
  BY <1>1, StillRight DEF vars, IInv, StateOK, PlanRight
<1>2. CASE Land \/ Tick
  BY <1>2, LandKept, TickKept
<1>3. ASSUME NEW r \in Runs, Plan(r) \/ Stage(r) \/ Compute(r) \/ Release(r) PROVE IInv'
  BY <1>3, PlanKept, StageKept, ComputeKept, ReleaseKept
<1>4. ASSUME NEW r \in Runs, NEW c \in Kinds, Reserve(r, c) \/ WriteOutput(r, c) PROVE IInv'
  BY <1>4, ReserveKept, WriteOutputKept
<1>5. ASSUME NEW a \in DOMAIN Others, ReserveOther(a) PROVE IInv'
  BY <1>5, ReserveOtherKept
<1>6. CASE Cleanup
  BY <1>6, BeginKept DEF Cleanup, Keepers, Whys
<1>7. ASSUME NEW r \in Runs, Begin("operator", "permit", r) \/ Begin("viewer", "read", r) PROVE IInv'
  BY <1>7, BeginKept DEF Keepers, Whys
<1>8. ASSUME NEW k \in Keepers, Proceed(k) \/ Die(k) PROVE IInv'
  BY <1>8, DeleteKept, MarkKept, WriteRegistryKept, UnlinkKept, IssuePermitKept, AdmitKept, DieKept DEF Proceed
<1> QED
  BY <1>1, <1>2, <1>3, <1>4, <1>5, <1>6, <1>7, <1>8 DEF Next

LEMMA Covered == ASSUME IInv PROVE ReadsCovered
<1>1. TypeOK
  BY RegistryFacts DEF IInv, StateOK, TypeOK, KeeperRight, Plans
<1>2. GrantsCoverLive
  <2>1. SUFFICES ASSUME NEW r \in Runs, NEW g \in {permit[r], run[r].staged} \ {None}, now < g.expires
                 PROVE  /\ \A a \in OutputsOf(r) : a \in DOMAIN registry /\ ~ Dead(a)
                        /\ \A o \in g.input : RawEnd(o) > now
    BY DEF GrantsCoverLive
  <2>2. /\ GrantRight(r, g) /\ g.expires \in Nat /\ now \in Nat /\ run[r].phase # "none" /\ run[r].input # {}
        /\ run[r].input \subseteq Nat
    BY <2>1, GrantTyped DEF IInv, StateOK, GrantsRight, PlanRight, Plans
  <2>3. ASSUME NEW c \in Kinds
        PROVE  /\ <<r, c>> \in DOMAIN registry /\ ~ Dead(<<r, c>>) /\ End(r, c) > now
    <3>1. <<r, c>> \in DOMAIN registry /\ g.expires <= End(r, c) /\ End(r, c) \in Nat
      BY <2>1, <2>2, EndFacts DEF GrantRight, IInv
    <3>2. registry[<<r, c>>].expires = End(r, c)
      BY <3>1 DEF IInv, PlanRight
    <3> QED
      BY <2>1, <2>2, <3>1, <3>2 DEF Dead
  <2>4. \A a \in OutputsOf(r) : a \in DOMAIN registry /\ ~ Dead(a)
    BY <2>3 DEF OutputsOf
  <2>5. ASSUME NEW o \in g.input PROVE RawEnd(o) > now
    <3>1. o \in run[r].input /\ o \in Nat /\ End(r, "raw") > now /\ End(r, "raw") \in Nat
      BY <2>2, <2>3, <2>5, EndFacts, ConstantFacts DEF GrantRight, IInv
    <3>2. End(r, "raw") <= RawEnd(o) /\ RawEnd(o) \in Nat
      BY <2>2, <3>1, EndFacts, ConstantFacts DEF IInv, RawEnd
    <3> QED
      BY <2>2, <3>1, <3>2
  <2> QED
    BY <2>4, <2>5
<1>3. ShownIsLive
  <2>1. SUFFICES ASSUME lease # None, Readable(lease)
                 PROVE  /\ ReleaseEnd(lease.run) > now /\ <<lease.run, "aggregate">> \in payloads
                        /\ \A a \in DOMAIN registry : ~ Dead(a)
    BY DEF ShownIsLive
  <2>2. /\ now < lease.expires /\ registry = lease.scope /\ lease.run \in Runs /\ lease.expires \in Nat
        /\ now \in Nat /\ run[lease.run].input # {}
    BY <2>1 DEF Readable, IInv, StateOK, LeaseRight, PlanRight
  <2>3. lease.expires <= ReleaseEnd(lease.run) /\ ReleaseEnd(lease.run) \in Nat
    BY <2>1, <2>2, EndFacts, ConstantFacts DEF IInv, LeaseRight
  <2>4. ASSUME NEW a \in DOMAIN registry PROVE ~ Dead(a)
    <3>1. lease.expires <= registry[a].expires /\ registry[a].expires \in Nat
      BY <2>1, <2>2, <2>4, RegistryFacts DEF IInv, StateOK, LeaseRight
    <3> QED
      BY <2>2, <3>1 DEF Dead
  <2> QED
    BY <2>1, <2>2, <2>3, <2>4 DEF IInv, LeaseRight
<1> QED
  BY <1>1, <1>2, <1>3 DEF ReadsCovered, IInv

\* A valid permit covers outputs and input that are live, a readable lease shows only what has not
\* expired, and only late writes escape the registry, whoever cleans, reserves or dies meanwhile
\* (RealRemoteLifecycle.issue_permit, cleanup, read_checked).
THEOREM ReadsAreCovered == Spec => []ReadsCovered
<1>1. Init => IInv
  BY InitInvariant
<1>2. IInv => ReadsCovered
  BY Covered
<1> QED
  BY <1>1, <1>2, Inductive, PTL DEF Spec

-----------------------------------------------------------------------------
(* Behavior, a program of Programs.  Induction over the positions of a list,  *)
(* and loops over it: the least position that is not in the set would have a  *)
(* predecessor that is.                                                       *)

LEMMA SmallerPair ==
    ASSUME NEW x \in Nat, NEW y \in Nat, x < y
    PROVE  <<x, y>> \in OpToRel(<, Nat)
  BY Zenon DEF OpToRel

LEMMA SmallestIs ==
    ASSUME NEW S, S \subseteq Nat, S # {}
    PROVE  LET m == CHOOSE i \in S : \A j \in S : i <= j IN m \in S /\ \A j \in S : m <= j
<1>1. PICK x \in S : \A y \in S : ~ (<<y, x>> \in OpToRel(<, Nat))
  BY WFMin, NatLessThanWellFounded
<1>2. \A y \in S : ~ (y < x)
  BY <1>1, SmallerPair, Zenon
<1>3. \A y \in S : x <= y
  BY <1>2
<1> QED
  BY <1>3

LEMMA UpTo ==
    ASSUME NEW N \in Nat, NEW G, 0 \in G, \A n \in 0..N : n \in G /\ n < N => n + 1 \in G
    PROVE  0..N \subseteq G
<1>. DEFINE Bad == {n \in 0..N : n \notin G}
            m == CHOOSE i \in Bad : \A j \in Bad : i <= j
<1>1. SUFFICES ASSUME Bad # {} PROVE FALSE
    OBVIOUS
<1>2. Bad \subseteq Nat
    OBVIOUS
<1>3. m \in Bad /\ \A j \in Bad : m <= j
    <2>. HIDE DEF Bad
    <2>. QED  BY <1>1, <1>2, SmallestIs
<1>. HIDE DEF m
<1>4. m \in 0..N /\ m \notin G /\ m # 0
    BY <1>3
<1>5. m - 1 \in 0..N /\ m - 1 < N /\ ~ (m <= m - 1) /\ (m - 1) + 1 = m
    BY <1>4
<1>6. m - 1 \in G
    BY <1>3, <1>5
<1>. QED  BY <1>4, <1>5, <1>6

\* What the variable of a loop is after each round: it starts with init, and the n-th round
\* makes step[<<v, n>>] of v.
Rounds(f, N, T, init, step) ==
    /\ f \in [0..N -> T] /\ f[0] = init
    /\ \A n \in 1..N : f[n] = step[<<f[n - 1], n>>]

LEMMA LoopExists ==
    ASSUME NEW N \in Nat, NEW T, NEW init \in T, NEW step \in [T \X (1..N) -> T]
    PROVE  \E f : Rounds(f, N, T, init, step)
<1>. DEFINE Partly(f, m) == Rounds(f, m, T, init, step)
            G == {m \in 0..N : \E f : Partly(f, m)}
<1>1. 0 \in G
    <2>1. Partly([n \in 0..0 |-> init], 0)
        BY DEF Rounds
    <2>. HIDE DEF Partly
    <2>. QED  BY <2>1
<1>2. ASSUME NEW m \in 0..N, m \in G, m < N PROVE m + 1 \in G
    <2>1. PICK f : Partly(f, m)
        BY <1>2
    <2>2. m \in 0..m /\ m + 1 \in 1..N /\ m + 1 \in 0..N /\ 0 \in 0..m
        BY <1>2
    <2>. DEFINE v == step[<<f[m], m + 1>>]
                g == [n \in 0..(m + 1) |-> IF n = m + 1 THEN v ELSE f[n]]
    <2>3. f[m] \in T /\ <<f[m], m + 1>> \in T \X (1..N)
        BY <2>1, <2>2 DEF Rounds
    <2>4. v \in T
        BY <2>3
    <2>. HIDE DEF v
    <2>5. \A n \in 0..(m + 1) : n = m + 1 \/ n \in 0..m
        BY <2>2
    <2>6. \A n \in 0..m : n \in 0..(m + 1) /\ n # m + 1
        BY <2>2
    <2>7. g \in [0..(m + 1) -> T]
        BY <2>1, <2>4, <2>5 DEF Rounds
    <2>8. (\A n \in 0..m : g[n] = f[n]) /\ g[m + 1] = v
        BY <2>2, <2>6
    <2>. HIDE DEF g
    <2>9. ASSUME NEW n \in 1..(m + 1) PROVE g[n] = step[<<g[n - 1], n>>]
        <3>1. CASE n = m + 1
            <4>1. n - 1 = m
                BY <3>1, <2>2
            <4>2. g[n - 1] = f[m]
                BY <4>1, <2>2, <2>8
            <4>. QED  BY <3>1, <2>8, <4>2 DEF v
        <3>2. CASE n # m + 1
            <4>1. n \in 1..m /\ n \in 0..m /\ n - 1 \in 0..m
                BY <3>2, <2>2
            <4>. QED  BY <4>1, <2>1, <2>8 DEF Rounds
        <3>. QED  BY <3>1, <3>2
    <2>10. g[0] = init
        BY <2>1, <2>2, <2>8 DEF Rounds
    <2>11. Partly(g, m + 1)
        BY <2>7, <2>9, <2>10 DEF Rounds
    <2>. HIDE DEF Partly
    <2>. QED  BY <2>2, <2>11
<1>3. N \in G
    <2>. HIDE DEF G
    <2>. QED  BY <1>1, <1>2, UpTo
<1>. QED  BY <1>3

-----------------------------------------------------------------------------
(* Sorted lists. *)

\* What can be sorted: times and numbers, and no two alike.
Sortable(by, S) ==
    /\ \A e \in S : e.at \in Nat /\ e[by] \in Nat
    /\ \A e, f \in S : e.at = f.at /\ e[by] = f[by] => e = f

LEMMA FirstIs ==
    ASSUME NEW by, NEW S, S # {}, Sortable(by, S)
    PROVE  /\ Be!First(by, S) \in S
           /\ \A f \in S : f = Be!First(by, S) \/ Be!Before(by, Be!First(by, S), f)
<1>. DEFINE Times == {e.at : e \in S}
            t == CHOOSE i \in Times : \A j \in Times : i <= j
            Keys == {e[by] : e \in {g \in S : g.at = t}}
            k == CHOOSE i \in Keys : \A j \in Keys : i <= j
<1>1. Times \subseteq Nat /\ Times # {}
    BY DEF Sortable
<1>2. t \in Times /\ \A j \in Times : t <= j
    <2>. HIDE DEF Times
    <2>. QED  BY <1>1, SmallestIs
<1>. HIDE DEF t
<1>3. Keys \subseteq Nat /\ Keys # {}
    BY <1>2 DEF Sortable
<1>4. k \in Keys /\ \A j \in Keys : k <= j
    <2>. HIDE DEF Keys
    <2>. QED  BY <1>3, SmallestIs
<1>. HIDE DEF k
<1>5. PICK e \in S : e.at = t /\ e[by] = k
    BY <1>4
<1>6. ASSUME NEW f \in S PROVE f = e \/ Be!Before(by, e, f)
    <2>1. t <= f.at /\ f.at \in Nat /\ f[by] \in Nat /\ t \in Nat /\ k \in Nat
        BY <1>1, <1>2, <1>3, <1>4 DEF Sortable
    <2>2. CASE f.at = t
        <3>1. k <= f[by]
            BY <1>4, <2>2
        <3>. QED  BY <1>5, <2>1, <2>2, <3>1 DEF Be!Before, Sortable
    <2>3. CASE f.at # t
        BY <1>5, <2>1, <2>3 DEF Be!Before
    <2>. QED  BY <2>2, <2>3
<1>7. \E x \in S : \A f \in S : f = x \/ Be!Before(by, x, f)
    BY <1>6
<1>. QED  BY <1>7 DEF Be!First

LEMMA NeverBoth ==
    ASSUME NEW by, NEW S, Sortable(by, S), NEW e \in S, NEW f \in S, Be!Before(by, e, f)
    PROVE  ~ Be!Before(by, f, e) /\ e # f
BY DEF Sortable, Be!Before

LEMMA InTurn ==
    ASSUME NEW by, NEW S, Sortable(by, S), NEW e \in S, NEW f \in S
    PROVE  e = f \/ Be!Before(by, e, f) \/ Be!Before(by, f, e)
BY DEF Sortable, Be!Before

\* The first of a set is the only one that comes before the others.
LEMMA FirstOnly ==
    ASSUME NEW by, NEW S, Sortable(by, S), NEW e \in S, \A f \in S : f = e \/ Be!Before(by, e, f)
    PROVE  Be!First(by, S) = e
<1>0. S # {}
    OBVIOUS
<1>1. /\ Be!First(by, S) \in S
      /\ \A f \in S : f = Be!First(by, S) \/ Be!Before(by, Be!First(by, S), f)
    BY <1>0, FirstIs, Zenon
<1>2. Be!First(by, S) = e \/ Be!Before(by, e, Be!First(by, S))
    BY <1>1
<1>. QED  BY <1>1, <1>2, NeverBoth

LEMMA SortableSubset ==
    ASSUME NEW by, NEW S, Sortable(by, S), NEW T, T \subseteq S
    PROVE  Sortable(by, T)
BY DEF Sortable

\* What is left of S when the first ones were taken out.
Left(by, S, f) ==
    f = [n \in 0..Cardinality(S) |->
           IF n = 0 THEN S ELSE LET r == f[n - 1] IN r \ {Be!First(by, r)}]

LEMMA LeftExists ==
    ASSUME NEW by, NEW S, IsFiniteSet(S)
    PROVE  \E f : Left(by, S, f)
<1>. DEFINE N == Cardinality(S)
            T == SUBSET S
            step == [p \in T \X (1..N) |-> p[1] \ {Be!First(by, p[1])}]
<1>1. N \in Nat
    BY FS_CardinalityType
<1>2. step \in [T \X (1..N) -> T] /\ S \in T
    OBVIOUS
<1>2a. PICK f : Rounds(f, N, T, S, step)
    <2>. HIDE DEF N, T, step
    <2>. QED  BY <1>1, <1>2, LoopExists
<1>3. f \in [0..N -> T] /\ f[0] = S /\ \A n \in 1..N : f[n] = step[<<f[n - 1], n>>]
    BY <1>2a DEF Rounds
<1>. DEFINE g == [n \in 0..N |-> IF n = 0 THEN S ELSE LET r == f[n - 1] IN r \ {Be!First(by, r)}]
<1>4. ASSUME NEW n \in 0..N PROVE f[n] = g[n]
    <2>1. CASE n = 0
        BY <1>3, <2>1
    <2>2. CASE n # 0
        <3>1. n \in 1..N /\ n - 1 \in 0..N
            BY <1>1, <2>2
        <3>2. <<f[n - 1], n>> \in T \X (1..N)
            BY <1>3, <3>1
        <3>3. step[<<f[n - 1], n>>] = f[n - 1] \ {Be!First(by, f[n - 1])}
            BY <3>2
        <3>. QED  BY <1>3, <2>2, <3>1, <3>3
    <2>. QED  BY <2>1, <2>2
<1>5. f = g
    <2>. HIDE DEF N
    <2>. QED  BY <1>3, <1>4
<1>6. Left(by, S, f)
    BY <1>5 DEF Left
<1>. QED  BY <1>6

SortedBy(by, S, f) ==
    /\ Left(by, S, f)
    /\ Be!Sorted(by, S) = [n \in 1..Cardinality(S) |-> Be!First(by, f[n - 1])]

LEMMA SortedByLeft == ASSUME NEW by, NEW S, IsFiniteSet(S) PROVE \E f : SortedBy(by, S, f)
<1>. DEFINE f == CHOOSE f : Left(by, S, f)
<1>1. Left(by, S, f)
    BY LeftExists
<1>2. Be!Sorted(by, S) = [n \in 1..Cardinality(S) |-> Be!First(by, f[n - 1])]
    BY DEF Be!Sorted, Left, Be!Cardinality, Cardinality
<1>. HIDE DEF f
<1>. QED  BY <1>1, <1>2 DEF SortedBy

LEMMA LeftIs ==
    ASSUME NEW by, NEW S, IsFiniteSet(S), Sortable(by, S), NEW f, Left(by, S, f)
    PROVE  LET N == Cardinality(S) IN
           /\ N \in Nat /\ f[0] = S
           /\ \A n \in 0..N : f[n] \subseteq S /\ IsFiniteSet(f[n]) /\ Cardinality(f[n]) = N - n
           /\ \A n \in 1..N : /\ Be!First(by, f[n - 1]) \in f[n - 1]
                              /\ f[n] = f[n - 1] \ {Be!First(by, f[n - 1])}
                              /\ \A e \in f[n] : Be!Before(by, Be!First(by, f[n - 1]), e)
<1>. DEFINE N == Cardinality(S)
            G == {n \in 0..N : f[n] \subseteq S /\ IsFiniteSet(f[n]) /\ Cardinality(f[n]) = N - n}
<1>1. N \in Nat
    BY FS_CardinalityType
<1>2. \A n \in 0..N : f[n] = IF n = 0 THEN S ELSE f[n - 1] \ {Be!First(by, f[n - 1])}
    BY DEF Left
<1>3. f[0] = S
    <2>1. 0 \in 0..N
        BY <1>1
    <2>. HIDE DEF N
    <2>. QED  BY <1>2, <2>1
<1>4. 0 \in G
    BY <1>1, <1>3
<1>5. ASSUME NEW n \in 0..N, n \in G, n < N
      PROVE  /\ Be!First(by, f[n]) \in f[n]
             /\ f[n + 1] = f[n] \ {Be!First(by, f[n])}
             /\ \A e \in f[n + 1] : Be!Before(by, Be!First(by, f[n]), e)
             /\ n + 1 \in G
    <2>1. n + 1 \in 0..N /\ n + 1 # 0 /\ (n + 1) - 1 = n /\ N - n # 0 /\ N - (n + 1) = (N - n) - 1
        BY <1>1, <1>5
    <2>2. f[n] \subseteq S /\ IsFiniteSet(f[n]) /\ Cardinality(f[n]) = N - n
        BY <1>5
    <2>3. f[n] # {}
        BY <2>1, <2>2, FS_EmptySet
    <2>4. Sortable(by, f[n])
        BY <2>2, SortableSubset
    <2>5. /\ Be!First(by, f[n]) \in f[n]
          /\ \A e \in f[n] : e = Be!First(by, f[n]) \/ Be!Before(by, Be!First(by, f[n]), e)
        BY <2>3, <2>4, FirstIs
    <2>6. f[n + 1] = f[n] \ {Be!First(by, f[n])}
        BY <1>2, <2>1
    <2>7. IsFiniteSet(f[n + 1]) /\ Cardinality(f[n + 1]) = Cardinality(f[n]) - 1
        BY <2>2, <2>5, <2>6, FS_RemoveElement
    <2>8. n + 1 \in G
        BY <2>1, <2>2, <2>6, <2>7
    <2>. QED  BY <2>5, <2>6, <2>8
<1>6. 0..N \subseteq G
    <2>. HIDE DEF G, N
    <2>. QED  BY <1>1, <1>4, <1>5, UpTo
<1>7. ASSUME NEW n \in 1..N
      PROVE  /\ Be!First(by, f[n - 1]) \in f[n - 1]
             /\ f[n] = f[n - 1] \ {Be!First(by, f[n - 1])}
             /\ \A e \in f[n] : Be!Before(by, Be!First(by, f[n - 1]), e)
    <2>1. n - 1 \in 0..N /\ n - 1 < N /\ (n - 1) + 1 = n
        BY <1>1
    <2>2. n - 1 \in G
        BY <1>6, <2>1
    <2>. HIDE DEF G, N
    <2>. QED  BY <1>5, <2>1, <2>2
<1>. QED  BY <1>1, <1>3, <1>6, <1>7

\* A sorted list has every element once, in order.
LEMMA SortedIs ==
    ASSUME NEW by, NEW S, IsFiniteSet(S), Sortable(by, S)
    PROVE  LET N == Cardinality(S)
               s == Be!Sorted(by, S)
           IN /\ N \in Nat /\ s \in [1..N -> S]
              /\ \A i, j \in 1..N : i < j => Be!Before(by, s[i], s[j])
              /\ \A e \in S : \E i \in 1..N : s[i] = e
<1>0. PICK f : SortedBy(by, S, f)
    BY SortedByLeft
<1>. DEFINE N == Cardinality(S)
            s == Be!Sorted(by, S)
<1>1. Left(by, S, f) /\ s = [n \in 1..N |-> Be!First(by, f[n - 1])]
    BY <1>0 DEF SortedBy
<1>2. /\ N \in Nat /\ f[0] = S
      /\ \A n \in 0..N : f[n] \subseteq S /\ IsFiniteSet(f[n]) /\ Cardinality(f[n]) = N - n
      /\ \A n \in 1..N : /\ Be!First(by, f[n - 1]) \in f[n - 1]
                         /\ f[n] = f[n - 1] \ {Be!First(by, f[n - 1])}
                         /\ \A e \in f[n] : Be!Before(by, Be!First(by, f[n - 1]), e)
    BY <1>1, LeftIs
<1>. HIDE DEF N, s
<1>3. \A n \in 1..N : s[n] = Be!First(by, f[n - 1])
    BY <1>1
<1>4. \A n \in 1..N : /\ s[n] \in f[n - 1] /\ f[n] = f[n - 1] \ {s[n]}
                      /\ \A e \in f[n] : Be!Before(by, s[n], e)
    BY <1>2, <1>3
<1>5. \A n \in 1..N : n - 1 \in 0..N /\ n \in 0..N /\ (n - 1) + 1 = n
    BY <1>2
<1>6. s \in [1..N -> S]
    <2>1. \A n \in 1..N : s[n] \in S
        BY <1>2, <1>4, <1>5
    <2>2. DOMAIN s = 1..N /\ s = [n \in 1..N |-> s[n]]
        BY <1>1, <1>3
    <2>. QED  BY <2>1, <2>2
<1>7. ASSUME NEW i \in 1..N, NEW j \in 1..N, i < j PROVE Be!Before(by, s[i], s[j])
    <2>. DEFINE G == {n \in 0..N : n >= i => f[n] \subseteq f[i]}
    <2>1. 0 \in G
        BY <1>2
    <2>2. ASSUME NEW n \in 0..N, n \in G, n < N PROVE n + 1 \in G
        <3>1. n + 1 \in 1..N /\ (n + 1) - 1 = n /\ n + 1 \in 0..N
            BY <1>2, <2>2
        <3>2. f[n + 1] \subseteq f[n]
            BY <1>4, <3>1
        <3>3. CASE n >= i
            BY <2>2, <3>1, <3>2, <3>3
        <3>4. CASE ~ (n >= i)
            <4>1. n + 1 >= i => n + 1 = i
                BY <3>4
            <4>. QED  BY <3>1, <4>1
        <3>. QED  BY <3>3, <3>4
    <2>3. 0..N \subseteq G
        <3>. HIDE DEF G
        <3>. QED  BY <1>2, <2>1, <2>2, UpTo
    <2>4. j - 1 \in G /\ j - 1 >= i
        BY <1>5, <1>7, <2>3
    <2>5. s[j] \in f[i]
        BY <1>4, <2>4
    <2>. QED  BY <1>4, <2>5
<1>8. ASSUME NEW e \in S PROVE \E i \in 1..N : s[i] = e
    <2>. DEFINE G == {n \in 0..N : e \in f[n] \/ \E i \in 1..N : s[i] = e}
    <2>1. 0 \in G
        BY <1>2
    <2>2. ASSUME NEW n \in 0..N, n \in G, n < N PROVE n + 1 \in G
        <3>1. n + 1 \in 1..N /\ (n + 1) - 1 = n /\ n + 1 \in 0..N
            BY <1>2, <2>2
        <3>2. f[n + 1] = f[n] \ {s[n + 1]}
            BY <1>4, <3>1
        <3>. QED  BY <2>2, <3>1, <3>2
    <2>3. 0..N \subseteq G
        <3>. HIDE DEF G
        <3>. QED  BY <1>2, <2>1, <2>2, UpTo
    <2>4. N \in 0..N /\ N - N = 0
        BY <1>2
    <2>5. f[N] = {}
        BY <1>2, <2>4, FS_EmptySet
    <2>. QED  BY <2>3, <2>4, <2>5
<1>. QED  BY <1>2, <1>6, <1>7, <1>8 DEF N, s

-----------------------------------------------------------------------------
(* Events, clicks and arrivals. *)

\* What Accept keeps: an event is accepted once, a request completes once.
BehaviorInv ==
    /\ accepted \subseteq Possible /\ IsFiniteSet(accepted)
    /\ \A e, f \in accepted : e.kind = "complete" /\ f.kind = "complete" /\ e.of = f.of => e = f

LEMMA BehaviorConstants ==
    /\ BehaviorWindow \in Nat /\ IsFiniteSet(Possible)
    /\ \A e, f \in Possible : e.id \in Nat /\ e.of \in Nat /\ e.at \in Nat /\ (e.id = f.id => e = f)
<1>1. Be!BehaviorAssumption
    BY ProgramsAssumption
<1>2. IsFiniteSet(Possible)
    BY <1>1 DEF Be!BehaviorAssumption, Be!IsFiniteSet, IsFiniteSet
<1>. QED  BY <1>1, <1>2 DEF Be!BehaviorAssumption

LEMMA BehaviorInvInit == ASSUME Be!Init PROVE BehaviorInv
BY FS_EmptySet DEF Be!Init, BehaviorInv

LEMMA BehaviorInvStep == ASSUME BehaviorInv, [Be!Next]_(Be!vars) PROVE BehaviorInv'
<1>1. CASE Be!Next
    <2>1. PICK e \in Possible : Be!Accept(e)
        BY <1>1 DEF Be!Next
    <2>2. accepted' = accepted \union {e} /\ accepted' \subseteq Possible
        BY <2>1 DEF Be!Accept, BehaviorInv
    <2>3. IsFiniteSet(accepted')
        BY <2>2, BehaviorConstants, FS_Subset
    <2>4. ASSUME NEW f \in accepted', NEW g \in accepted', f.kind = "complete", g.kind = "complete", f.of = g.of
          PROVE  f = g
        BY <2>1, <2>2, <2>4 DEF Be!Accept, BehaviorInv
    <2>. QED  BY <2>2, <2>3, <2>4 DEF BehaviorInv
<1>2. CASE UNCHANGED Be!vars
    BY <1>2 DEF Be!vars, BehaviorInv
<1>. QED  BY <1>1, <1>2

LEMMA EventsAre ==
    ASSUME BehaviorInv
    PROVE  /\ Be!Events \subseteq accepted /\ Be!Events \subseteq Possible /\ IsFiniteSet(Be!Events)
           /\ \A e \in Be!Events : e.id \in Nat /\ e.of \in Nat /\ e.at \in Nat
           /\ Sortable("id", Be!Events)
<1>1. Be!Events \subseteq accepted /\ Be!Events \subseteq Possible
    BY DEF Be!Events, BehaviorInv
<1>2. IsFiniteSet(Be!Events)
    BY <1>1, FS_Subset DEF BehaviorInv
<1>3. Sortable("id", Be!Events)
    BY <1>1, BehaviorConstants DEF Sortable
<1>. QED  BY <1>1, <1>2, <1>3, BehaviorConstants

LEMMA KindsAre ==
    ASSUME BehaviorInv, NEW kind
    PROVE  /\ Be!Known(kind) \subseteq Be!Of(kind) /\ Be!Of(kind) \subseteq Be!Events
           /\ IsFiniteSet(Be!Of(kind)) /\ IsFiniteSet(Be!Known(kind))
           /\ Sortable("id", Be!Of(kind)) /\ Sortable("id", Be!Known(kind))
<1>1. Be!Known(kind) \subseteq Be!Of(kind) /\ Be!Of(kind) \subseteq Be!Events
    BY DEF Be!Known, Be!Of
<1>2. IsFiniteSet(Be!Of(kind)) /\ IsFiniteSet(Be!Known(kind))
    BY <1>1, EventsAre, FS_Subset
<1>3. Sortable("id", Be!Of(kind)) /\ Sortable("id", Be!Known(kind))
    BY <1>1, EventsAre, SortableSubset
<1>. QED  BY <1>1, <1>2, <1>3

LEMMA CompletionsAre ==
    ASSUME BehaviorInv
    PROVE  /\ Sortable("of", Be!Of("complete"))
           /\ \A d, e \in Be!Of("complete") : d.of = e.of => d = e
<1>1. \A d, e \in Be!Of("complete") : d.of = e.of => d = e
    <2>1. \A d \in Be!Of("complete") : d \in accepted /\ d.kind = "complete"
        BY DEF Be!Of, Be!Events
    <2>. QED  BY <2>1 DEF BehaviorInv
<1>2. \A d \in Be!Of("complete") : d.of \in Nat /\ d.at \in Nat
    BY KindsAre, EventsAre
<1>. QED  BY <1>1, <1>2 DEF Sortable

\* row_number = 1 leaves one event of each jump, or request.
LEMMA OnePer ==
    ASSUME NEW S, Sortable("id", S)
    PROVE  /\ Be!FirstPer(S) \subseteq S
           /\ \A e, f \in Be!FirstPer(S) : e.of = f.of => e = f
<1>1. ASSUME NEW e \in Be!FirstPer(S)
      PROVE  e \in S /\ e = Be!First("id", {f \in S : f.of = e.of})
    <2>1. PICK n \in {f.of : f \in S} : e = Be!First("id", {f \in S : f.of = n})
        BY <1>1 DEF Be!FirstPer
    <2>. DEFINE T == {f \in S : f.of = n}
    <2>2. T # {} /\ Sortable("id", T)
        <3>1. T # {} /\ T \subseteq S
            BY <2>1
        <3>2. Sortable("id", T)
            BY <3>1 DEF Sortable
        <3>. QED  BY <3>1, <3>2
    <2>3. e \in T
        <3>. HIDE DEF T
        <3>1. Be!First("id", T) \in T
            BY <2>2, FirstIs
        <3>. QED  BY <2>1, <3>1 DEF T
    <2>. QED  BY <2>1, <2>3
<1>. QED  BY <1>1

LEMMA ClicksAre ==
    ASSUME BehaviorInv
    PROVE  /\ Be!Clicks \subseteq Be!Of("click") /\ Be!Clicks \subseteq Be!Events /\ IsFiniteSet(Be!Clicks)
           /\ \A c, d \in Be!Clicks : c.of = d.of => c = d
           /\ \A c \in Be!Clicks : c.of \in Nat /\ c.at \in Nat
           /\ Sortable("of", Be!Clicks)
<1>1. /\ Be!Clicks \subseteq Be!Of("click")
      /\ \A c, d \in Be!Clicks : c.of = d.of => c = d
    BY KindsAre, OnePer DEF Be!Clicks
<1>2. Be!Clicks \subseteq Be!Events /\ IsFiniteSet(Be!Clicks)
    BY <1>1, KindsAre, FS_Subset
<1>3. \A c \in Be!Clicks : c.of \in Nat /\ c.at \in Nat
    BY <1>2, EventsAre
<1>. QED  BY <1>1, <1>2, <1>3 DEF Sortable

LEMMA ObservedAre ==
    ASSUME BehaviorInv
    PROVE  /\ Be!Observed \subseteq Be!Known("observed") /\ Be!Observed \subseteq Be!Events
           /\ \A o, p \in Be!Observed : o.of = p.of => o = p
BY KindsAre, OnePer DEF Be!Observed

\* The arrivals that may belong to a click.
Hits(c) ==
    {a \in Be!Known("arrival") : a.of = c.of /\ c.at <= a.at /\ a.at <= c.at + BehaviorWindow}

LEMMA HitsAre ==
    ASSUME BehaviorInv, NEW c \in Be!Clicks
    PROVE  /\ Hits(c) \subseteq Be!Known("arrival") /\ Hits(c) \subseteq Be!Events /\ Sortable("id", Hits(c))
           /\ Hits(c) # {} => Be!First("id", Hits(c)) \in Hits(c)
<1>1. Hits(c) \subseteq Be!Known("arrival")
    BY DEF Hits
<1>2. Sortable("id", Hits(c))
    BY <1>1, KindsAre, SortableSubset
<1>. QED  BY <1>1, <1>2, KindsAre, FirstIs

\* The window over the joined rows, and the oracle's next(), find the first of them.
LEMMA ArrivalsAre ==
    ASSUME BehaviorInv, NEW c, NEW a
    PROVE  [click |-> c, arrival |-> a] \in Be!Arrivals
             <=> c \in Be!Clicks /\ Hits(c) # {} /\ a = Be!First("id", Hits(c))
<1>1. \A row : row \in Be!Landings <=>
         /\ row \in [click : Be!Clicks, arrival : Be!Known("arrival")]
         /\ row.arrival \in Hits(row.click)
    <2>1. \A row \in [click : Be!Clicks, arrival : Be!Known("arrival")] :
             row.arrival.at \in Nat /\ row.click.at \in Nat
        BY ClicksAre, KindsAre, EventsAre
    <2>. QED  BY <2>1, BehaviorConstants DEF Be!Landings, Be!WithinClick, Hits
<1>2. ASSUME c \in Be!Clicks
      PROVE  {o.arrival : o \in {p \in Be!Landings : p.click = c}} = Hits(c)
    <2>1. ASSUME NEW h \in Hits(c) PROVE [click |-> c, arrival |-> h] \in Be!Landings
        BY <1>1, <1>2, HitsAre
    <2>2. ASSUME NEW h \in Hits(c) PROVE \E p \in Be!Landings : p.click = c /\ p.arrival = h
        BY <2>1
    <2>3. ASSUME NEW p \in Be!Landings, p.click = c PROVE p.arrival \in Hits(c)
        BY <1>1, <2>3
    <2>. QED  BY <2>2, <2>3
<1>3. CASE c \in Be!Clicks
    <2>1. [click |-> c, arrival |-> a] \in Be!Arrivals
             <=> [click |-> c, arrival |-> a] \in Be!Landings /\ a = Be!First("id", Hits(c))
        BY <1>2, <1>3 DEF Be!Arrivals
    <2>2. [click |-> c, arrival |-> a] \in Be!Landings <=> a \in Hits(c)
        BY <1>1, <1>3, HitsAre
    <2>. QED  BY <1>3, <2>1, <2>2, HitsAre
<1>4. CASE c \notin Be!Clicks
    BY <1>1, <1>4 DEF Be!Arrivals
<1>. QED  BY <1>3, <1>4

LEMMA JourneyIs ==
    ASSUME BehaviorInv, NEW c \in Be!Clicks
    PROVE  Be!Journeys[c] = IF Hits(c) = {} THEN [arrived |-> FALSE]
                            ELSE [arrived |-> TRUE, by |-> Be!First("id", Hits(c))]
<1>. DEFINE s == Be!Sorted("id", Be!Known("arrival"))
            N == Cardinality(Be!Known("arrival"))
            H == {i \in DOMAIN s : /\ s[i].of = c.of
                                   /\ c.at <= s[i].at /\ s[i].at <= c.at + BehaviorWindow}
            m == CHOOSE i \in H : \A j \in H : i <= j
<1>1. Be!Journeys[c] = IF H = {} THEN [arrived |-> FALSE] ELSE [arrived |-> TRUE, by |-> s[m]]
    BY DEF Be!Journeys, Be!Min
<1>2. /\ N \in Nat /\ s \in [1..N -> Be!Known("arrival")]
      /\ \A i, j \in 1..N : i < j => Be!Before("id", s[i], s[j])
      /\ \A e \in Be!Known("arrival") : \E i \in 1..N : s[i] = e
    BY KindsAre, SortedIs
<1>. HIDE DEF s, N
<1>3. \A i \in H : i \in 1..N /\ s[i] \in Hits(c)
    BY <1>2 DEF Hits
<1>4. \A h \in Hits(c) : \E i \in H : s[i] = h
    BY <1>2 DEF Hits
<1>5. CASE Hits(c) = {}
    <2>1. H = {}
        BY <1>3, <1>5
    <2>. QED  BY <1>1, <1>5, <2>1
<1>6. CASE Hits(c) # {}
    <2>1. H # {} /\ H \subseteq Nat
        BY <1>2, <1>3, <1>4, <1>6
    <2>2. m \in H /\ \A j \in H : m <= j
        <3>. HIDE DEF H
        <3>. QED  BY <2>1, SmallestIs
    <2>. HIDE DEF m, H
    <2>3. s[m] \in Hits(c)
        BY <1>3, <2>2
    <2>4. ASSUME NEW h \in Hits(c) PROVE h = s[m] \/ Be!Before("id", s[m], h)
        <3>1. PICK i \in H : s[i] = h
            BY <1>4
        <3>2. m \in 1..N /\ i \in 1..N /\ m <= i
            BY <1>3, <2>2
        <3>3. m = i \/ m < i
            BY <3>2
        <3>. QED  BY <1>2, <3>1, <3>2, <3>3
    <2>5. Be!First("id", Hits(c)) = s[m]
        BY <2>3, <2>4, HitsAre, FirstOnly
    <2>. QED  BY <1>1, <1>6, <2>1, <2>5
<1>. QED  BY <1>5, <1>6

\* What follows a click: an event of who arrived, from the arrival to the end of the window.
Follows(c, t) ==
    /\ Hits(c) # {}
    /\ t.who = Be!First("id", Hits(c)).who /\ t.at >= Be!First("id", Hits(c)).at
    /\ t.at <= c.at + BehaviorWindow

Joins(S, c, t) == \E r \in Be!FollowedBy(S) : r.click = c /\ r.then = t

LEMMA FollowedAre ==
    ASSUME BehaviorInv, NEW S, NEW c, NEW t
    PROVE  Joins(S, c, t) <=> c \in Be!Clicks /\ t \in S /\ Follows(c, t)
<1>1. ASSUME NEW r \in Be!FollowedBy(S), r.click = c, r.then = t
      PROVE  c \in Be!Clicks /\ t \in S /\ Follows(c, t)
    BY <1>1, ArrivalsAre DEF Be!FollowedBy, Follows, Be!WithinClick
<1>2. ASSUME c \in Be!Clicks, t \in S, Follows(c, t)
      PROVE  \E r \in Be!FollowedBy(S) : r.click = c /\ r.then = t
    <2>. DEFINE a == Be!First("id", Hits(c))
                r == [click |-> c, arrival |-> a, then |-> t]
    <2>1. a \in Be!Known("arrival") /\ [click |-> c, arrival |-> a] \in Be!Arrivals
        BY <1>2, HitsAre, ArrivalsAre DEF Follows
    <2>. HIDE DEF a
    <2>2. r \in [click : Be!Clicks, arrival : Be!Known("arrival"), then : S]
        BY <1>2, <2>1
    <2>3. t.who = a.who /\ t.at >= a.at /\ Be!WithinClick(r, t.at)
        BY <1>2 DEF Follows, Be!WithinClick, a
    <2>4. r \in Be!FollowedBy(S)
        BY <2>1, <2>2, <2>3 DEF Be!FollowedBy
    <2>. QED  BY <2>4
<1>. QED  BY <1>1, <1>2 DEF Joins

LEMMA FollowedClick ==
    ASSUME BehaviorInv, NEW S, NEW c \in Be!Clicks
    PROVE  (\E r \in Be!FollowedBy(S) : r.click = c) <=> \E e \in S : Follows(c, e)
<1>1. ASSUME NEW r \in Be!FollowedBy(S), r.click = c PROVE \E e \in S : Follows(c, e)
    <2>1. Joins(S, c, r.then)
        BY <1>1 DEF Joins
    <2>2. r.then \in S /\ Follows(c, r.then)
        BY <2>1, FollowedAre
    <2>. QED  BY <2>2
<1>2. ASSUME NEW e \in S, Follows(c, e) PROVE \E r \in Be!FollowedBy(S) : r.click = c
    <2>1. Joins(S, c, e)
        BY <1>2, FollowedAre
    <2>. QED  BY <2>1 DEF Joins
<1>. QED  BY <1>1, <1>2

\* The rows of the model are the pairs that the oracle considers.
LEMMA CandidatesAre ==
    ASSUME BehaviorInv
    PROVE  /\ \A row \in Be!Candidates :
                /\ row = [click |-> row.click, then |-> row.then, done |-> row.done]
                /\ row.done \in Be!Of("complete") /\ row.click \in Be!OracleCandidates(row.done)
                /\ row.then \in Be!Observed /\ row.then.of = row.done.of
                /\ \E r \in Be!Requested : r.click = row.click
           /\ \A d \in Be!Of("complete") : \A c \in Be!OracleCandidates(d) :
                \E row \in Be!Candidates : row.click = c /\ row.done = d
<1>1. \A c \in Be!Clicks : c.at \in Nat
    BY ClicksAre
<1>2. \A o \in Be!Observed : o.at \in Nat
    BY ObservedAre, EventsAre
<1>3. \A d \in Be!Of("complete") : d.at \in Nat
    BY KindsAre, EventsAre
<1>4. \A c \in Be!Clicks : Hits(c) # {} => Be!First("id", Hits(c)).at \in Nat
    BY HitsAre, EventsAre
<1>5. ASSUME NEW d \in Be!Of("complete"), NEW c
      PROVE  c \in Be!OracleCandidates(d) <=>
               /\ c \in Be!Clicks
               /\ \E o \in Be!Observed : /\ o.of = d.of /\ Follows(c, o)
                                         /\ o.at <= d.at /\ d.at <= c.at + BehaviorWindow
    <2>1. CASE c \notin Be!Clicks
        BY <2>1 DEF Be!OracleCandidates
    <2>2. CASE c \in Be!Clicks /\ Hits(c) = {}
        <3>0. Be!Journeys[c] = [arrived |-> FALSE]
            BY <2>2, JourneyIs
        <3>1. ~ Be!Journeys[c].arrived
            BY <3>0
        <3>. QED  BY <2>2, <3>1 DEF Be!OracleCandidates, Follows
    <2>3. CASE c \in Be!Clicks /\ Hits(c) # {}
        <3>. DEFINE a == Be!First("id", Hits(c))
        <3>0. Be!Journeys[c] = [arrived |-> TRUE, by |-> a]
            BY <2>3, JourneyIs
        <3>1. Be!Journeys[c].arrived /\ Be!Journeys[c].by = a
            BY <3>0
        <3>2. c \in Be!OracleCandidates(d) <=>
                /\ \E o \in Be!Observed : o.of = d.of /\ o.who = a.who /\ a.at <= o.at /\ o.at <= d.at
                /\ d.at <= c.at + BehaviorWindow
            BY <2>3, <3>1 DEF Be!OracleCandidates
        <3>3. \A o \in Be!Observed : Follows(c, o) <=>
                o.who = a.who /\ o.at >= a.at /\ o.at <= c.at + BehaviorWindow
            BY <2>3 DEF Follows
        <3>4. a.at \in Nat /\ c.at \in Nat
            BY <1>1, <1>4, <2>3
        <3>. HIDE DEF a
        <3>. QED  BY <1>2, <1>3, <2>3, <3>2, <3>3, <3>4, BehaviorConstants
    <2>. QED  BY <2>1, <2>2, <2>3
<1>6. \A c, t : (\E r \in Be!Requested : r.click = c /\ r.then = t)
                  <=> c \in Be!Clicks /\ t \in Be!Observed /\ Follows(c, t)
    BY FollowedAre DEF Be!Requested, Joins
<1>7. ASSUME NEW row \in Be!Candidates
      PROVE  /\ row = [click |-> row.click, then |-> row.then, done |-> row.done]
             /\ row.done \in Be!Of("complete") /\ row.click \in Be!OracleCandidates(row.done)
             /\ row.then \in Be!Observed /\ row.then.of = row.done.of
             /\ \E r \in Be!Requested : r.click = row.click
    <2>1. /\ row \in [click : Be!Clicks, then : Be!Observed, done : Be!Of("complete")]
          /\ \E r \in Be!Requested : r.click = row.click /\ r.then = row.then
          /\ row.done.of = row.then.of
          /\ row.done.at >= row.then.at /\ row.done.at <= row.click.at + BehaviorWindow
        BY <1>7 DEF Be!Candidates, Be!WithinClick
    <2>2. Follows(row.click, row.then)
        BY <1>6, <2>1
    <2>3. row.then.at <= row.done.at
        BY <1>2, <1>3, <2>1
    <2>4. row.click \in Be!OracleCandidates(row.done)
        BY <1>5, <2>1, <2>2, <2>3
    <2>. QED  BY <2>1, <2>4
<1>8. ASSUME NEW d \in Be!Of("complete"), NEW c \in Be!OracleCandidates(d)
      PROVE  \E row \in Be!Candidates : row.click = c /\ row.done = d
    <2>1. c \in Be!Clicks
        BY <1>5
    <2>2. PICK o \in Be!Observed : /\ o.of = d.of /\ Follows(c, o)
                                   /\ o.at <= d.at /\ d.at <= c.at + BehaviorWindow
        BY <1>5
    <2>. DEFINE row == [click |-> c, then |-> o, done |-> d]
    <2>3. \E r \in Be!Requested : r.click = row.click /\ r.then = row.then
        BY <1>6, <2>1, <2>2
    <2>4. row.done.at >= row.then.at /\ Be!WithinClick(row, row.done.at)
        BY <1>2, <1>3, <2>2 DEF Be!WithinClick
    <2>5. row \in Be!Candidates
        BY <2>1, <2>2, <2>3, <2>4 DEF Be!Candidates
    <2>. QED  BY <2>5
<1>. QED  BY <1>7, <1>8

-----------------------------------------------------------------------------
(* Conversions. *)

LEMMA LatestExists ==
    ASSUME BehaviorInv, NEW C, C \subseteq Be!Clicks, C # {}
    PROVE  \E c \in C : \A d \in C : Be!LaterClick(c, d)
<1>. DEFINE s == Be!Sorted("of", C)
            N == Cardinality(C)
<1>1. IsFiniteSet(C) /\ Sortable("of", C)
    BY ClicksAre, FS_Subset, SortableSubset
<1>2. /\ N \in Nat /\ s \in [1..N -> C]
      /\ \A i, j \in 1..N : i < j => Be!Before("of", s[i], s[j])
      /\ \A e \in C : \E i \in 1..N : s[i] = e
    BY <1>1, SortedIs
<1>. HIDE DEF s, N
<1>3. N \in 1..N
    BY <1>2
<1>4. ASSUME NEW d \in C PROVE Be!LaterClick(s[N], d)
    <2>1. PICK i \in 1..N : s[i] = d
        BY <1>2
    <2>2. i = N \/ i < N
        BY <1>2
    <2>3. d.at \in Nat /\ d.of \in Nat /\ s[N].at \in Nat /\ s[N].of \in Nat
        BY <1>2, <1>3, ClicksAre
    <2>4. d = s[N] \/ Be!Before("of", d, s[N])
        BY <1>2, <1>3, <2>1, <2>2
    <2>. QED  BY <2>3, <2>4 DEF Be!Before, Be!LaterClick
<1>. QED  BY <1>2, <1>3, <1>4

\* The completions that have a click, and the click each goes to.
Won(d) == d \in Be!Of("complete") /\ Be!OracleCandidates(d) # {}
Latest(d) == CHOOSE c \in Be!OracleCandidates(d) : \A e \in Be!OracleCandidates(d) : Be!LaterClick(c, e)

LEMMA LatestIs ==
    ASSUME BehaviorInv, NEW d, Won(d)
    PROVE  /\ Latest(d) \in Be!OracleCandidates(d) /\ Latest(d) \in Be!Clicks
           /\ \A e \in Be!OracleCandidates(d) : Be!LaterClick(Latest(d), e)
           /\ \A c \in Be!OracleCandidates(d) :
                (\A e \in Be!OracleCandidates(d) : Be!LaterClick(c, e)) => c = Latest(d)
<1>1. Be!OracleCandidates(d) \subseteq Be!Clicks /\ Be!OracleCandidates(d) # {}
    BY DEF Be!OracleCandidates, Won
<1>2. \E c \in Be!OracleCandidates(d) : \A e \in Be!OracleCandidates(d) : Be!LaterClick(c, e)
    BY <1>1, LatestExists
<1>3. /\ Latest(d) \in Be!OracleCandidates(d)
      /\ \A e \in Be!OracleCandidates(d) : Be!LaterClick(Latest(d), e)
    BY <1>2 DEF Latest
<1>4. ASSUME NEW c \in Be!OracleCandidates(d), \A e \in Be!OracleCandidates(d) : Be!LaterClick(c, e)
      PROVE  c = Latest(d)
    <2>1. Be!LaterClick(c, Latest(d)) /\ Be!LaterClick(Latest(d), c)
        BY <1>3, <1>4
    <2>2. c \in Be!Clicks /\ Latest(d) \in Be!Clicks
        BY <1>1, <1>3
    <2>3. c.at \in Nat /\ c.of \in Nat /\ Latest(d).at \in Nat /\ Latest(d).of \in Nat
        BY <2>2, ClicksAre
    <2>4. c.of = Latest(d).of
        BY <2>1, <2>3 DEF Be!LaterClick
    <2>. QED  BY <2>2, <2>4, ClicksAre
<1>. QED  BY <1>1, <1>3, <1>4

LEMMA LastClicksAre ==
    ASSUME BehaviorInv, NEW row \in Be!Candidates
    PROVE  Won(row.done) /\ (row \in Be!LastClicks <=> row.click = Latest(row.done))
<1>1. row.done \in Be!Of("complete") /\ row.click \in Be!OracleCandidates(row.done)
    BY CandidatesAre
<1>2. Won(row.done)
    BY <1>1 DEF Won
<1>3. ASSUME row \in Be!LastClicks PROVE row.click = Latest(row.done)
    <2>1. ASSUME NEW c \in Be!OracleCandidates(row.done) PROVE Be!LaterClick(row.click, c)
        <3>1. PICK o \in Be!Candidates : o.click = c /\ o.done = row.done
            BY <1>1, CandidatesAre
        <3>. QED  BY <1>3, <3>1 DEF Be!LastClicks
    <2>. QED  BY <1>1, <1>2, <2>1, LatestIs
<1>4. ASSUME row.click = Latest(row.done) PROVE row \in Be!LastClicks
    <2>1. ASSUME NEW o \in Be!Candidates, o.done = row.done PROVE Be!LaterClick(row.click, o.click)
        <3>1. o.click \in Be!OracleCandidates(row.done)
            BY <2>1, CandidatesAre
        <3>. QED  BY <1>2, <1>4, <3>1, LatestIs
    <2>. QED  BY <2>1 DEF Be!LastClicks
<1>. QED  BY <1>2, <1>3, <1>4

\* The first completion that goes to its click keeps it.
Keeps(d) == Won(d) /\ \A e : Won(e) /\ Latest(e) = Latest(d) => Be!EarlierDone(d, e)
Converted(d) == [click |-> Latest(d), done |-> d]

LEMMA ConversionsAre ==
    ASSUME BehaviorInv
    PROVE  {[click |-> r.click, done |-> r.done] : r \in Be!Conversions}
             = {Converted(d) : d \in {e \in Be!Of("complete") : Keeps(e)}}
<1>1. ASSUME NEW d, Won(d)
      PROVE  \E row \in Be!LastClicks : row.click = Latest(d) /\ row.done = d
    <2>1. PICK row \in Be!Candidates : row.click = Latest(d) /\ row.done = d
        BY <1>1, LatestIs, CandidatesAre DEF Won
    <2>. QED  BY <2>1, LastClicksAre
<1>2. \A row \in Be!LastClicks : Won(row.done) /\ row.click = Latest(row.done)
    BY LastClicksAre DEF Be!LastClicks
<1>3. \A row \in Be!LastClicks : row \in Be!Conversions <=> Keeps(row.done)
    <2>. TAKE row \in Be!LastClicks
    <2>1. ASSUME row \in Be!Conversions PROVE Keeps(row.done)
        <3>1. ASSUME NEW e, Won(e), Latest(e) = Latest(row.done) PROVE Be!EarlierDone(row.done, e)
            <4>1. PICK o \in Be!LastClicks : o.click = Latest(e) /\ o.done = e
                BY <1>1, <3>1
            <4>. QED  BY <1>2, <2>1, <3>1, <4>1 DEF Be!Conversions, Be!FirstSuccess
        <3>. QED  BY <1>2, <3>1 DEF Keeps
    <2>2. ASSUME Keeps(row.done) PROVE row \in Be!Conversions
        <3>1. ASSUME NEW o \in Be!LastClicks, o.click = row.click PROVE Be!EarlierDone(row.done, o.done)
            BY <1>2, <2>2, <3>1 DEF Keeps
        <3>. QED  BY <3>1 DEF Be!Conversions, Be!FirstSuccess
    <2>. QED  BY <2>1, <2>2
<1>4. ASSUME NEW r \in Be!Conversions
      PROVE  /\ r.done \in {e \in Be!Of("complete") : Keeps(e)}
             /\ [click |-> r.click, done |-> r.done] = Converted(r.done)
    <2>1. r \in Be!LastClicks
        BY <1>4 DEF Be!Conversions, Be!FirstSuccess
    <2>2. Keeps(r.done) /\ r.click = Latest(r.done) /\ Won(r.done)
        BY <1>2, <1>3, <1>4, <2>1
    <2>. QED  BY <2>2 DEF Converted, Won
<1>5. ASSUME NEW d \in Be!Of("complete"), Keeps(d)
      PROVE  \E r \in Be!Conversions : [click |-> r.click, done |-> r.done] = Converted(d)
    <2>1. PICK r \in Be!LastClicks : r.click = Latest(d) /\ r.done = d
        BY <1>1, <1>5 DEF Keeps
    <2>2. r \in Be!Conversions
        BY <1>3, <1>5, <2>1
    <2>. QED  BY <2>1, <2>2 DEF Converted
<1>. QED  BY <1>4, <1>5

LEMMA ConsumeIs ==
    ASSUME BehaviorInv, NEW v, NEW d \in Be!Of("complete")
    PROVE  Be!Consume(v, d) = IF Won(d) /\ ~ (\E r \in v : r.click = Latest(d))
                              THEN v \union {Converted(d)} ELSE v
BY DEF Be!Consume, Won, Latest, Converted

\* The oracle's loop over the completions, unrolled.
OracleRuns(f, s) ==
    f = [n \in 0..Len(s) |-> IF n = 0 THEN {} ELSE Be!Consume(f[n - 1], s[n])]

LEMMA OracleLoop ==
    ASSUME BehaviorInv
    PROVE  LET s == Be!Sorted("of", Be!Of("complete"))
               N == Cardinality(Be!Of("complete"))
           IN \E f : /\ f[0] = {} /\ \A n \in 1..N : f[n] = Be!Consume(f[n - 1], s[n])
                     /\ Be!OracleConversions = f[N]
<1>. DEFINE S == Be!Of("complete")
            s == Be!Sorted("of", S)
            N == Cardinality(S)
            T == SUBSET {Converted(d) : d \in S}
            step == [p \in T \X (1..N) |-> Be!Consume(p[1], s[p[2]])]
<1>1. N \in Nat /\ s \in [1..N -> S]
    BY KindsAre, CompletionsAre, SortedIs
<1>2. ASSUME NEW v \in T, NEW n \in 1..N PROVE Be!Consume(v, s[n]) \in T
    <2>1. s[n] \in S
        BY <1>1
    <2>. HIDE DEF s, N
    <2>. QED  BY <2>1, ConsumeIs
<1>3. step \in [T \X (1..N) -> T] /\ {} \in T
    <2>. HIDE DEF s, N
    <2>1. {} \in T
        OBVIOUS
    <2>. HIDE DEF T
    <2>. QED  BY <1>2, <2>1
<1>4. PICK f : Rounds(f, N, T, {}, step)
    <2>. HIDE DEF N, T, step
    <2>. QED  BY <1>1, <1>3, LoopExists
<1>5. /\ f \in [0..N -> T] /\ f[0] = {}
      /\ \A n \in 1..N : n - 1 \in 0..N /\ f[n] = Be!Consume(f[n - 1], s[n])
    <2>1. /\ f \in [0..N -> T] /\ f[0] = {}
          /\ \A n \in 1..N : f[n] = step[<<f[n - 1], n>>]
        BY <1>4 DEF Rounds
    <2>2. \A n \in 1..N : n - 1 \in 0..N
        BY <1>1
    <2>. HIDE DEF s, N, T
    <2>3. \A n \in 1..N : <<f[n - 1], n>> \in T \X (1..N)
        BY <2>1, <2>2
    <2>. QED  BY <2>1, <2>2, <2>3
<1>6. Len(s) = N
    <2>. HIDE DEF s, N
    <2>. QED  BY <1>1
<1>7. OracleRuns(f, s)
    <2>. DEFINE g == [n \in 0..N |-> IF n = 0 THEN {} ELSE Be!Consume(f[n - 1], s[n])]
    <2>. HIDE DEF s, N, T
    <2>1. \A n \in 0..N : n # 0 => n \in 1..N
        BY <1>1
    <2>2. \A n \in 0..N : f[n] = g[n]
        BY <1>5, <2>1
    <2>3. f = g
        BY <1>5, <2>2
    <2>. QED  BY <1>6, <2>3 DEF OracleRuns
<1>. DEFINE h == CHOOSE f2 : OracleRuns(f2, s)
<1>8. OracleRuns(h, s)
    <2>. HIDE DEF s
    <2>. QED  BY <1>7
<1>9. Be!OracleConversions = h[Len(s)]
    BY DEF Be!OracleConversions, OracleRuns
<1>10. /\ h[0] = {} /\ \A n \in 1..N : h[n] = Be!Consume(h[n - 1], s[n])
    <2>. HIDE DEF s, N, h
    <2>1. \A n \in 1..N : n \in 0..N /\ n # 0
        BY <1>1
    <2>2. 0 \in 0..N
        BY <1>1
    <2>3. \A n \in 0..N : h[n] = IF n = 0 THEN {} ELSE Be!Consume(h[n - 1], s[n])
        BY <1>6, <1>8 DEF OracleRuns
    <2>. QED  BY <2>1, <2>2, <2>3
<1>. QED  BY <1>6, <1>9, <1>10

LEMMA ConversionsAgree ==
    ASSUME BehaviorInv
    PROVE  {[click |-> r.click, done |-> r.done] : r \in Be!Conversions} = Be!OracleConversions
<1>. DEFINE S == Be!Of("complete")
            s == Be!Sorted("of", S)
            N == Cardinality(S)
            Wins(i) == Won(s[i]) /\ \A j \in 1..(i - 1) : Won(s[j]) => Latest(s[j]) # Latest(s[i])
            Taken(n) == {Converted(s[i]) : i \in {k \in 1..n : Wins(k)}}
<1>1. PICK f : /\ f[0] = {} /\ \A n \in 1..N : f[n] = Be!Consume(f[n - 1], s[n])
               /\ Be!OracleConversions = f[N]
    BY OracleLoop
<1>2. /\ N \in Nat /\ s \in [1..N -> S]
      /\ \A i, j \in 1..N : i < j => Be!Before("of", s[i], s[j])
      /\ \A e \in S : \E i \in 1..N : s[i] = e
    BY KindsAre, CompletionsAre, SortedIs
<1>. HIDE DEF s, N
<1>. DEFINE G == {n \in 0..N : /\ f[n] = Taken(n)
                               /\ \A j \in 1..n : Won(s[j]) => \E r \in f[n] : r.click = Latest(s[j])}
<1>3. 0 \in G
    BY <1>1, <1>2
<1>4. ASSUME NEW n \in 0..N, n \in G, n < N PROVE n + 1 \in G
    <2>1. n + 1 \in 1..N /\ (n + 1) - 1 = n /\ n + 1 \in 0..N /\ 1..(n + 1) = 1..n \union {n + 1}
        BY <1>2, <1>4
    <2>. DEFINE d == s[n + 1]
    <2>2. d \in S
        BY <1>2, <2>1
    <2>3. /\ f[n] = Taken(n)
          /\ \A j \in 1..n : Won(s[j]) => \E r \in f[n] : r.click = Latest(s[j])
        BY <1>4
    <2>4. f[n + 1] = IF Won(d) /\ ~ (\E r \in f[n] : r.click = Latest(d))
                     THEN f[n] \union {Converted(d)} ELSE f[n]
        <3>1. f[n + 1] = Be!Consume(f[n], d)
            BY <1>1, <2>1
        <3>. HIDE DEF Taken, Wins, d, S
        <3>. QED  BY <2>2, <3>1, ConsumeIs DEF S
    <2>5. \A r \in Taken(n) : \E j \in 1..n : Won(s[j]) /\ r.click = Latest(s[j])
        BY DEF Converted
    <2>6. Wins(n + 1) <=> Won(d) /\ ~ \E r \in f[n] : r.click = Latest(d)
        <3>. HIDE DEF Taken
        <3>. QED  BY <2>1, <2>3, <2>5
    <2>7. Taken(n + 1) = IF Wins(n + 1) THEN Taken(n) \union {Converted(d)} ELSE Taken(n)
        <3>. HIDE DEF Wins
        <3>. QED  BY <2>1
    <2>8. f[n + 1] = Taken(n + 1)
        <3>. HIDE DEF Wins, Taken
        <3>. QED  BY <2>3, <2>4, <2>6, <2>7
    <2>9. ASSUME NEW j \in 1..(n + 1), Won(s[j]) PROVE \E r \in f[n + 1] : r.click = Latest(s[j])
        <3>1. CASE j = n + 1
            <4>1. Converted(d).click = Latest(d)
                BY DEF Converted
            <4>. QED  BY <2>4, <2>9, <3>1, <4>1
        <3>2. CASE j # n + 1
            <4>1. j \in 1..n
                BY <2>1, <3>2
            <4>. QED  BY <2>3, <2>4, <2>9, <4>1
        <3>. QED  BY <3>1, <3>2
    <2>. HIDE DEF Taken
    <2>. QED  BY <2>1, <2>8, <2>9
<1>5. 0..N \subseteq G
    <2>. HIDE DEF G
    <2>. QED  BY <1>2, <1>3, <1>4, UpTo
<1>6. Be!OracleConversions = Taken(N)
    <2>1. N \in 0..N
        BY <1>2
    <2>. HIDE DEF Taken
    <2>. QED  BY <1>1, <1>5, <2>1
<1>7. ASSUME NEW i \in 1..N PROVE Wins(i) <=> Keeps(s[i])
    <2>0. \A j \in 1..N : s[j] \in S /\ s[j].at \in Nat /\ s[j].of \in Nat
        BY <1>2, KindsAre, EventsAre
    <2>1. ASSUME NEW j \in 1..N PROVE Be!EarlierDone(s[i], s[j]) <=> ~ (j < i)
        <3>1. CASE j < i
            <4>1. Be!Before("of", s[j], s[i])
                BY <1>2, <3>1
            <4>. QED  BY <2>0, <3>1, <4>1 DEF Be!Before, Be!EarlierDone
        <3>2. CASE j = i
            BY <2>0, <3>2 DEF Be!EarlierDone
        <3>3. CASE i < j
            <4>1. Be!Before("of", s[i], s[j])
                BY <1>2, <3>3
            <4>. QED  BY <2>0, <3>3, <4>1 DEF Be!Before, Be!EarlierDone
        <3>. QED  BY <3>1, <3>2, <3>3
    <2>2. ASSUME Wins(i) PROVE Keeps(s[i])
        <3>1. ASSUME NEW e, Won(e), Latest(e) = Latest(s[i]) PROVE Be!EarlierDone(s[i], e)
            <4>1. PICK j \in 1..N : s[j] = e
                BY <1>2, <3>1 DEF Won
            <4>2. ~ (j < i)
                <5>1. j < i => j \in 1..(i - 1)
                    OBVIOUS
                <5>. QED  BY <2>2, <3>1, <4>1, <5>1
            <4>. QED  BY <2>1, <4>1, <4>2
        <3>. QED  BY <2>2, <3>1 DEF Keeps
    <2>3. ASSUME Keeps(s[i]) PROVE Wins(i)
        <3>1. ASSUME NEW j \in 1..(i - 1), Won(s[j]) PROVE Latest(s[j]) # Latest(s[i])
            <4>1. j \in 1..N /\ j < i
                BY <1>2
            <4>2. ~ Be!EarlierDone(s[i], s[j])
                BY <2>1, <4>1
            <4>. QED  BY <2>3, <3>1, <4>2 DEF Keeps
        <3>. QED  BY <2>3, <3>1 DEF Keeps
    <2>. QED  BY <2>2, <2>3
<1>8. Taken(N) = {Converted(d) : d \in {e \in S : Keeps(e)}}
    <2>. HIDE DEF Wins
    <2>1. \A i \in 1..N : Wins(i) => s[i] \in {e \in S : Keeps(e)}
        BY <1>2, <1>7
    <2>2. \A d \in S : Keeps(d) => \E i \in {k \in 1..N : Wins(k)} : s[i] = d
        BY <1>2, <1>7
    <2>3. Taken(N) \subseteq {Converted(d) : d \in {e \in S : Keeps(e)}}
        BY <2>1
    <2>4. {Converted(d) : d \in {e \in S : Keeps(e)}} \subseteq Taken(N)
        BY <2>2
    <2>. QED  BY <2>3, <2>4
<1>. QED  BY <1>6, <1>8, ConversionsAre

-----------------------------------------------------------------------------
(* The funnel. *)

LEMMA WithoutHits ==
    ASSUME BehaviorInv, NEW c \in Be!Clicks
    PROVE  (\E r \in Be!Arrivals : r.click = c) <=> Hits(c) # {}
<1>1. \A r \in Be!Arrivals : r = [click |-> r.click, arrival |-> r.arrival]
    BY DEF Be!Arrivals, Be!Landings
<1>2. ASSUME NEW r \in Be!Arrivals, r.click = c PROVE Hits(c) # {}
    BY <1>1, <1>2, ArrivalsAre
<1>3. ASSUME Hits(c) # {} PROVE \E r \in Be!Arrivals : r.click = c
    <2>. DEFINE r == [click |-> c, arrival |-> Be!First("id", Hits(c))]
    <2>1. r \in Be!Arrivals
        BY <1>3, ArrivalsAre
    <2>. QED  BY <2>1
<1>. QED  BY <1>2, <1>3

LEMMA FunnelsAgree == ASSUME BehaviorInv PROVE Be!Funnel = Be!OracleFunnel
<1>1. ASSUME NEW c \in Be!Clicks PROVE Be!Funnel[c] = Be!OracleFunnel[c]
    <2>. DEFINE j == Be!Journeys[c]
                Within(S) == \E e \in S : e.who = j.by.who /\ j.by.at <= e.at /\ e.at <= c.at + BehaviorWindow
    <2>1. j.arrived <=> Hits(c) # {}
        <3>1. CASE Hits(c) = {}
            <4>1. j = [arrived |-> FALSE]
                BY <3>1, JourneyIs
            <4>2. ~ j.arrived
                BY <4>1
            <4>. QED  BY <3>1, <4>2
        <3>2. CASE Hits(c) # {}
            <4>1. j = [arrived |-> TRUE, by |-> Be!First("id", Hits(c))]
                BY <3>2, JourneyIs
            <4>2. j.arrived
                BY <4>1
            <4>. QED  BY <3>2, <4>2
        <3>. QED  BY <3>1, <3>2
    <2>2. j.arrived \in BOOLEAN
        <3>1. CASE Hits(c) = {}
            <4>1. j = [arrived |-> FALSE]
                BY <3>1, JourneyIs
            <4>. QED  BY <4>1
        <3>2. CASE Hits(c) # {}
            <4>1. j = [arrived |-> TRUE, by |-> Be!First("id", Hits(c))]
                BY <3>2, JourneyIs
            <4>. QED  BY <4>1
        <3>. QED  BY <3>1, <3>2
    <2>3. ASSUME NEW S, \A e \in S : e.at \in Nat
          PROVE  (\E r \in Be!FollowedBy(S) : r.click = c) <=> (j.arrived /\ Within(S))
        <3>1. CASE Hits(c) = {}
            <4>1. ~ \E r \in Be!FollowedBy(S) : r.click = c
                BY <3>1, FollowedClick DEF Follows
            <4>. QED  BY <2>1, <3>1, <4>1
        <3>2. CASE Hits(c) # {}
            <4>. DEFINE a == Be!First("id", Hits(c))
            <4>1. j = [arrived |-> TRUE, by |-> a]
                BY <3>2, JourneyIs
            <4>2. j.by = a
                BY <4>1
            <4>3. a.at \in Nat
                BY <3>2, HitsAre, EventsAre
            <4>4. \A e \in S : Follows(c, e) <=>
                    e.who = j.by.who /\ j.by.at <= e.at /\ e.at <= c.at + BehaviorWindow
                <5>. HIDE DEF a, j
                <5>1. \A e \in S : Follows(c, e) <=> e.who = a.who /\ e.at >= a.at /\ e.at <= c.at + BehaviorWindow
                    BY <3>2 DEF Follows, a
                <5>2. \A e \in S : e.at >= a.at <=> a.at <= e.at
                    BY <2>3, <4>3
                <5>. QED  BY <4>2, <5>1, <5>2
            <4>5. (\E r \in Be!FollowedBy(S) : r.click = c) <=> \E e \in S : Follows(c, e)
                BY FollowedClick
            <4>. HIDE DEF j, a
            <4>. QED  BY <2>1, <3>2, <4>4, <4>5
        <3>. QED  BY <3>1, <3>2
    <2>4. (\E r \in Be!Arrivals : r.click = c) <=> j.arrived
        BY <2>1, WithoutHits
    <2>5. (\E r \in Be!Selected : r.click = c) <=> (j.arrived /\ Within(Be!Known("select")))
        <3>1. \A e \in Be!Known("select") : e.at \in Nat
            BY KindsAre, EventsAre
        <3>. HIDE DEF Within, j
        <3>. QED  BY <2>3, <3>1 DEF Be!Selected
    <2>6. (\E r \in Be!Requested : r.click = c) <=> (j.arrived /\ Within(Be!Observed))
        <3>1. \A e \in Be!Observed : e.at \in Nat
            BY ObservedAre, EventsAre
        <3>. HIDE DEF Within, j
        <3>. QED  BY <2>3, <3>1 DEF Be!Requested
    <2>7. (\E r \in Be!Conversions : r.click = c) <=> (\E r \in Be!OracleConversions : r.click = c)
        <3>1. \A r \in Be!Conversions : [click |-> r.click, done |-> r.done] \in Be!OracleConversions
            BY ConversionsAgree
        <3>2. \A q \in Be!OracleConversions : \E r \in Be!Conversions : q = [click |-> r.click, done |-> r.done]
            BY ConversionsAgree
        <3>3. ASSUME NEW r \in Be!Conversions, r.click = c PROVE \E q \in Be!OracleConversions : q.click = c
            <4>1. [click |-> r.click, done |-> r.done].click = c
                BY <3>3
            <4>. QED  BY <3>1, <4>1
        <3>4. ASSUME NEW q \in Be!OracleConversions, q.click = c PROVE \E r \in Be!Conversions : r.click = c
            <4>1. PICK r \in Be!Conversions : q = [click |-> r.click, done |-> r.done]
                BY <3>2
            <4>2. r.click = c
                BY <3>4, <4>1
            <4>. QED  BY <4>2
        <3>. QED  BY <3>3, <3>4
    <2>8. Be!Funnel[c] =
            [arrived |-> \E r \in Be!Arrivals : r.click = c, selected |-> \E r \in Be!Selected : r.click = c,
             requested |-> \E r \in Be!Requested : r.click = c, converted |-> \E r \in Be!Conversions : r.click = c]
        BY DEF Be!Funnel
    <2>9. Be!OracleFunnel[c] =
            [arrived |-> j.arrived, selected |-> j.arrived /\ Within(Be!Known("select")),
             requested |-> j.arrived /\ Within(Be!Observed), converted |-> \E r \in Be!OracleConversions : r.click = c]
        BY DEF Be!OracleFunnel
    <2>. HIDE DEF Within, j
    <2>10. (\E r \in Be!Arrivals : r.click = c) = j.arrived
        BY <2>2, <2>4
    <2>11. /\ (\E r \in Be!Selected : r.click = c) = (j.arrived /\ Within(Be!Known("select")))
           /\ (\E r \in Be!Requested : r.click = c) = (j.arrived /\ Within(Be!Observed))
           /\ (\E r \in Be!Conversions : r.click = c) = (\E r \in Be!OracleConversions : r.click = c)
        BY <2>5, <2>6, <2>7
    <2>. QED  BY <2>8, <2>9, <2>10, <2>11, Zenon
<1>2. DOMAIN Be!Funnel = Be!Clicks /\ DOMAIN Be!OracleFunnel = Be!Clicks
    BY DEF Be!Funnel, Be!OracleFunnel
<1>3. Be!Funnel = [c \in Be!Clicks |-> Be!Funnel[c]] /\ Be!OracleFunnel = [c \in Be!Clicks |-> Be!OracleFunnel[c]]
    BY DEF Be!Funnel, Be!OracleFunnel
<1>. QED  BY <1>1, <1>3

\* What the model tests before it writes.
LEMMA FunnelNarrows ==
    ASSUME BehaviorInv, NEW c \in Be!Clicks
    PROVE  LET f == Be!Funnel[c]
           IN (f.converted => f.requested) /\ (f.requested => f.arrived) /\ (f.selected => f.arrived)
<1>1. (\E r \in Be!Conversions : r.click = c) => (\E r \in Be!Requested : r.click = c)
    <2>1. Be!Conversions \subseteq Be!Candidates
        BY DEF Be!Conversions, Be!FirstSuccess, Be!LastClicks
    <2>. QED  BY <2>1, CandidatesAre
<1>2. ASSUME NEW S PROVE (\E r \in Be!FollowedBy(S) : r.click = c) => (\E r \in Be!Arrivals : r.click = c)
    BY FollowedClick, WithoutHits DEF Follows
<1>3. (\E r \in Be!Requested : r.click = c) => (\E r \in Be!Arrivals : r.click = c)
    BY <1>2 DEF Be!Requested
<1>4. (\E r \in Be!Selected : r.click = c) => (\E r \in Be!Arrivals : r.click = c)
    BY <1>2 DEF Be!Selected
<1>5. Be!Funnel[c] =
        [arrived |-> \E r \in Be!Arrivals : r.click = c, selected |-> \E r \in Be!Selected : r.click = c,
         requested |-> \E r \in Be!Requested : r.click = c, converted |-> \E r \in Be!Conversions : r.click = c]
    BY DEF Be!Funnel
<1>. QED  BY <1>1, <1>3, <1>4, <1>5

-----------------------------------------------------------------------------
(* Sessions. *)

\* The activity of one identity, in order; where a session opens in it, and which positions
\* it holds.
Times(who) == Be!Sorted("id", Be!Activity(who))
Count(who) == Cardinality(Be!Activity(who))
Opens(s, i) == i = 1 \/ s[i].at >= s[i - 1].at + BehaviorWindow
Spanned(s, n, i) == {k \in 1..n : i <= k /\ \A t \in 1..n : Opens(s, t) /\ i < t => k < t}
Session(s, n, i) == {s[k] : k \in Spanned(s, n, i)}

LEMMA TimesAre ==
    ASSUME BehaviorInv, NEW who
    PROVE  LET A == Be!Activity(who)
               s == Times(who)
               N == Count(who)
           IN /\ N \in Nat /\ s \in [1..N -> A] /\ s \in Seq(A) /\ Len(s) = N
              /\ \A i, j \in 1..N : Be!Before("id", s[i], s[j]) <=> i < j
              /\ \A i, j \in 1..N : s[i] = s[j] => i = j
              /\ \A e \in A : e.at \in Nat /\ \E i \in 1..N : s[i] = e
<1>. DEFINE A == Be!Activity(who)
            s == Times(who)
            N == Count(who)
<1>1. A \subseteq Be!Events
    BY DEF Be!Activity
<1>2. IsFiniteSet(A) /\ Sortable("id", A)
    BY <1>1, EventsAre, FS_Subset, SortableSubset
<1>3. /\ N \in Nat /\ s \in [1..N -> A]
      /\ \A i, j \in 1..N : i < j => Be!Before("id", s[i], s[j])
      /\ \A e \in A : \E i \in 1..N : s[i] = e
    BY <1>2, SortedIs DEF Times, Count
<1>. HIDE DEF A, s, N
<1>4. s \in Seq(A) /\ Len(s) = N
    BY <1>3
<1>5. ASSUME NEW i \in 1..N, NEW j \in 1..N
      PROVE  (Be!Before("id", s[i], s[j]) <=> i < j) /\ (s[i] = s[j] => i = j)
    <2>0. s[i] \in A /\ s[j] \in A
        BY <1>3
    <2>1. CASE i < j
        BY <1>2, <1>3, <2>0, <2>1, NeverBoth
    <2>2. CASE j < i
        BY <1>2, <1>3, <2>0, <2>2, NeverBoth
    <2>3. CASE i = j
        <3>1. ~ Be!Before("id", s[i], s[i])
            BY <1>2, <2>0, NeverBoth
        <3>. QED  BY <2>3, <3>1
    <2>. QED  BY <2>1, <2>2, <2>3
<1>6. \A e \in A : e.at \in Nat
    BY <1>1, EventsAre
<1>. QED  BY <1>3, <1>4, <1>5, <1>6 DEF A, s, N

LEMMA StartsAre ==
    ASSUME BehaviorInv, NEW who, NEW i \in 1..Count(who)
    PROVE  Times(who)[i] \in Be!Starts(who) <=> Opens(Times(who), i)
<1>. DEFINE A == Be!Activity(who)
            s == Times(who)
            N == Count(who)
            earlier == {f \in A : Be!Before("id", f, s[i])}
<1>1. /\ N \in Nat /\ s \in [1..N -> A]
      /\ \A j, k \in 1..N : Be!Before("id", s[j], s[k]) <=> j < k
      /\ \A j, k \in 1..N : s[j] = s[k] => j = k
      /\ \A e \in A : e.at \in Nat /\ \E j \in 1..N : s[j] = e
    BY TimesAre
<1>2. s[i] \in Be!Starts(who) <=>
        \A f \in earlier : (\A g \in earlier : g = f \/ Be!Before("id", g, f)) => s[i].at >= f.at + BehaviorWindow
    BY <1>1 DEF Be!Starts
<1>. HIDE DEF A, s, N
<1>3. \A f \in earlier : \E j \in 1..(i - 1) : s[j] = f
    <2>1. \A f \in earlier : \E j \in 1..N : s[j] = f /\ j < i
        BY <1>1 DEF N
    <2>. QED  BY <1>1, <2>1 DEF N
<1>4. \A j \in 1..(i - 1) : s[j] \in earlier /\ j \in 1..N
    BY <1>1 DEF N
<1>. HIDE DEF earlier
<1>5. ASSUME s[i] \in Be!Starts(who), i # 1 PROVE s[i].at >= s[i - 1].at + BehaviorWindow
    <2>1. i - 1 \in 1..(i - 1)
        BY <1>5
    <2>2. \A g \in earlier : g = s[i - 1] \/ Be!Before("id", g, s[i - 1])
        <3>. TAKE g \in earlier
        <3>1. PICK j \in 1..(i - 1) : s[j] = g
            BY <1>3
        <3>2. j = i - 1 \/ j < i - 1
            BY <3>1
        <3>3. j \in 1..N /\ i - 1 \in 1..N
            BY <1>4, <2>1
        <3>. QED  BY <1>1, <3>1, <3>2, <3>3
    <2>. QED  BY <1>2, <1>4, <1>5, <2>1, <2>2
<1>6. ASSUME Opens(s, i) PROVE s[i] \in Be!Starts(who)
    <2>1. ASSUME NEW f \in earlier, \A g \in earlier : g = f \/ Be!Before("id", g, f)
          PROVE  s[i].at >= f.at + BehaviorWindow
        <3>1. PICK j \in 1..(i - 1) : s[j] = f
            BY <1>3
        <3>2. i - 1 \in 1..(i - 1) /\ i # 1
            BY <3>1 DEF N
        <3>3. s[i - 1] = f \/ Be!Before("id", s[i - 1], f)
            BY <1>4, <2>1, <3>2
        <3>4. i - 1 \in 1..N /\ j \in 1..N
            BY <1>4, <3>2
        <3>5. ~ (i - 1 < j)
            BY <3>1
        <3>6. s[i - 1] = f
            BY <1>1, <3>1, <3>3, <3>4, <3>5
        <3>. QED  BY <1>6, <3>2, <3>6 DEF Opens
    <2>. QED  BY <1>2, <2>1
<1>. QED  BY <1>5, <1>6 DEF Opens, s

LEMMA SessionsAre ==
    ASSUME BehaviorInv, NEW who
    PROVE  Be!Sessions(who) =
             {Session(Times(who), Count(who), i) : i \in {k \in 1..Count(who) : Opens(Times(who), k)}}
<1>. DEFINE A == Be!Activity(who)
            s == Times(who)
            N == Count(who)
            Block(e) == {f \in A : /\ ~ Be!Before("id", f, e)
                                  /\ \A t \in Be!Starts(who) : Be!Before("id", e, t) => Be!Before("id", f, t)}
<1>1. /\ N \in Nat /\ s \in [1..N -> A]
      /\ \A j, k \in 1..N : Be!Before("id", s[j], s[k]) <=> j < k
      /\ \A e \in A : \E j \in 1..N : s[j] = e
    BY TimesAre
<1>2. Be!Sessions(who) = {Block(e) : e \in Be!Starts(who)}
    BY DEF Be!Sessions
<1>3. /\ Be!Starts(who) \subseteq A
      /\ \A i \in 1..N : s[i] \in Be!Starts(who) <=> Opens(s, i)
    BY StartsAre DEF Be!Starts
<1>. HIDE DEF A, s, N
<1>4. ASSUME NEW i \in 1..N PROVE Block(s[i]) = Session(s, N, i)
    <2>1. ASSUME NEW k \in 1..N PROVE s[k] \in Block(s[i]) <=> k \in Spanned(s, N, i)
        <3>1. ~ Be!Before("id", s[k], s[i]) <=> i <= k
            BY <1>1
        <3>2. (\A t \in Be!Starts(who) : Be!Before("id", s[i], t) => Be!Before("id", s[k], t))
                <=> (\A t \in 1..N : Opens(s, t) /\ i < t => k < t)
            BY <1>1, <1>3
        <3>3. s[k] \in A
            BY <1>1
        <3>. QED  BY <3>1, <3>2, <3>3 DEF Spanned
    <2>2. \A f \in Block(s[i]) : \E k \in 1..N : s[k] = f
        BY <1>1
    <2>3. Spanned(s, N, i) \subseteq 1..N
        BY DEF Spanned
    <2>. HIDE DEF Block
    <2>. QED  BY <2>1, <2>2, <2>3 DEF Session
<1>. HIDE DEF Block
<1>5. {Block(e) : e \in Be!Starts(who)} = {Session(s, N, i) : i \in {k \in 1..N : Opens(s, k)}}
    <2>1. \A e \in Be!Starts(who) : \E i \in {k \in 1..N : Opens(s, k)} : s[i] = e
        BY <1>1, <1>3
    <2>2. \A i \in {k \in 1..N : Opens(s, k)} : s[i] \in Be!Starts(who) /\ Block(s[i]) = Session(s, N, i)
        BY <1>3, <1>4
    <2>3. \A e \in Be!Starts(who) : \E i \in {k \in 1..N : Opens(s, k)} : Block(e) = Session(s, N, i)
        BY <2>1, <2>2
    <2>. QED  BY <2>2, <2>3
<1>. QED  BY <1>2, <1>5 DEF s, N

\* One round of the oracle's loop: a group of its own, or one more in the last group.
LEMMA ExtendIs ==
    ASSUME NEW A, NEW g \in Seq(Seq(A)), NEW e \in A
    PROVE  LET r == Be!Extend(g, e)
               opens == Len(g) = 0 \/ e.at - g[Len(g)][Len(g[Len(g)])].at >= BehaviorWindow
           IN /\ r \in Seq(Seq(A))
              /\ opens => /\ Len(r) = Len(g) + 1 /\ r[Len(r)] = <<e>>
                          /\ \A m \in 1..Len(g) : r[m] = g[m]
              /\ ~ opens => /\ Len(r) = Len(g) /\ r[Len(r)] = Append(g[Len(g)], e)
                            /\ \A m \in 1..(Len(g) - 1) : r[m] = g[m]
<1>. DEFINE r == Be!Extend(g, e)
            l == Len(g)
            wide == e.at - g[l][Len(g[l])].at >= BehaviorWindow
<1>0. l \in Nat /\ <<e>> \in Seq(A)
    OBVIOUS
<1>1. CASE l = 0
    <2>1. g = << >>
        BY <1>1
    <2>2. r = <<<<e>>>>
        BY <2>1 DEF Be!Extend
    <2>3. <<<<e>>>> \in Seq(Seq(A)) /\ Len(<<<<e>>>>) = 1 /\ <<<<e>>>>[1] = <<e>>
        BY <1>0
    <2>. QED  BY <1>1, <2>2, <2>3
<1>2. CASE l # 0 /\ wide
    <2>1. g # << >>
        BY <1>2
    <2>2. r = Append(g, <<e>>)
        BY <1>2, <2>1 DEF Be!Extend, Be!Last
    <2>. HIDE DEF r
    <2>3. /\ Append(g, <<e>>) \in Seq(Seq(A)) /\ Len(Append(g, <<e>>)) = l + 1
          /\ Append(g, <<e>>)[l + 1] = <<e>> /\ \A m \in 1..l : Append(g, <<e>>)[m] = g[m]
        BY <1>0
    <2>. QED  BY <1>2, <2>2, <2>3 DEF r
<1>3. CASE l # 0 /\ ~ wide
    <2>1. g # << >> /\ l \in 1..l /\ l - 1 \in Nat
        BY <1>0, <1>3
    <2>. DEFINE h == Append(g[l], e)
                b == SubSeq(g, 1, l - 1)
    <2>2. r = b \o <<h>>
        BY <1>3, <2>1 DEF Be!Extend, Be!Last, Be!Front
    <2>3. g[l] \in Seq(A) /\ h \in Seq(A)
        BY <2>1
    <2>4. b \in Seq(Seq(A)) /\ Len(b) = l - 1 /\ \A m \in 1..(l - 1) : b[m] = g[m]
        <3>. DEFINE T == Seq(A)
        <3>1. \A m \in 1..(l - 1) : g[m] \in T
            BY <2>1
        <3>2. 1 \in Int /\ l - 1 \in Int /\ (l - 1) - 1 + 1 = l - 1 /\ \A m \in 1..(l - 1) : 1 + m - 1 = m
            BY <2>1
        <3>. HIDE DEF T, l
        <3>3. /\ b \in Seq(T) /\ Len(b) = IF 1 <= l - 1 THEN (l - 1) - 1 + 1 ELSE 0
              /\ \A m \in 1..((l - 1) - 1 + 1) : b[m] = g[1 + m - 1]
            BY <3>1, <3>2, SubSeqProperties
        <3>4. Len(b) = l - 1
            BY <2>1, <3>2, <3>3
        <3>. QED  BY <3>2, <3>3, <3>4 DEF T
    <2>. HIDE DEF r, h, b
    <2>5. <<h>> \in Seq(Seq(A)) /\ Len(<<h>>) = 1 /\ <<h>>[1] = h
        BY <2>3
    <2>6. /\ b \o <<h>> \in Seq(Seq(A)) /\ Len(b \o <<h>>) = l
          /\ (b \o <<h>>)[l] = h /\ \A m \in 1..(l - 1) : (b \o <<h>>)[m] = b[m]
        <3>. DEFINE o == <<h>>
                    T == Seq(A)
        <3>1. b \in Seq(T) /\ o \in Seq(T) /\ Len(b) = l - 1 /\ Len(o) = 1 /\ o[1] = h
            BY <2>4, <2>5
        <3>. HIDE DEF o, T, l
        <3>2. /\ b \o o \in Seq(T) /\ Len(b \o o) = Len(b) + Len(o)
              /\ \A i \in 1..(Len(b) + Len(o)) : (b \o o)[i] = IF i <= Len(b) THEN b[i] ELSE o[i - Len(b)]
            BY <3>1, ConcatProperties
        <3>. QED  BY <1>0, <2>1, <3>1, <3>2 DEF o, T
    <2>. QED  BY <1>3, <2>2, <2>4, <2>6 DEF r, h
<1>. QED  BY <1>1, <1>2, <1>3

Elements(q) == {q[i] : i \in 1..Len(q)}

LEMMA ElementsOfOne == ASSUME NEW e PROVE Elements(<<e>>) = {e}
BY DEF Elements

LEMMA ElementsOfAppend ==
    ASSUME NEW A, NEW q \in Seq(A), NEW e \in A
    PROVE  Elements(Append(q, e)) = Elements(q) \union {e}
<1>. DEFINE r == Append(q, e)
<1>1. /\ Len(r) = Len(q) + 1 /\ r[Len(q) + 1] = e /\ \A i \in 1..Len(q) : r[i] = q[i]
      /\ 1..Len(r) = 1..Len(q) \union {Len(q) + 1}
    OBVIOUS
<1>. HIDE DEF r
<1>. QED  BY <1>1 DEF Elements, r

\* The loop over the activity of one identity, unrolled.
GroupRuns(f, s) ==
    f = [n \in 0..Len(s) |-> IF n = 0 THEN << >> ELSE Be!Extend(f[n - 1], s[n])]

LEMMA GroupLoop ==
    ASSUME BehaviorInv, NEW who
    PROVE  \E f : /\ f[0] = << >>
                  /\ \A n \in 1..Count(who) : f[n] = Be!Extend(f[n - 1], Times(who)[n])
                  /\ Be!OracleSessions(who) = f[Count(who)]
<1>. DEFINE A == Be!Activity(who)
            s == Times(who)
            N == Count(who)
            T == Seq(Seq(A))
            step == [p \in T \X (1..N) |-> Be!Extend(p[1], s[p[2]])]
<1>1. N \in Nat /\ s \in [1..N -> A] /\ Len(s) = N
    BY TimesAre
<1>2. ASSUME NEW v \in T, NEW n \in 1..N PROVE Be!Extend(v, s[n]) \in T
    <2>1. s[n] \in A
        BY <1>1
    <2>. HIDE DEF s, N, A
    <2>. QED  BY <2>1, ExtendIs
<1>3. step \in [T \X (1..N) -> T] /\ << >> \in T
    <2>. HIDE DEF s, N, A
    <2>1. << >> \in T
        OBVIOUS
    <2>. HIDE DEF T
    <2>. QED  BY <1>2, <2>1
<1>4. PICK f : Rounds(f, N, T, << >>, step)
    <2>. HIDE DEF N, T, step
    <2>. QED  BY <1>1, <1>3, LoopExists
<1>5. /\ f \in [0..N -> T] /\ f[0] = << >>
      /\ \A n \in 1..N : n - 1 \in 0..N /\ f[n] = Be!Extend(f[n - 1], s[n])
    <2>1. /\ f \in [0..N -> T] /\ f[0] = << >>
          /\ \A n \in 1..N : f[n] = step[<<f[n - 1], n>>]
        BY <1>4 DEF Rounds
    <2>2. \A n \in 1..N : n - 1 \in 0..N
        BY <1>1
    <2>. HIDE DEF s, N, T
    <2>3. \A n \in 1..N : <<f[n - 1], n>> \in T \X (1..N)
        BY <2>1, <2>2
    <2>. QED  BY <2>1, <2>2, <2>3
<1>6. GroupRuns(f, s)
    <2>. DEFINE g == [n \in 0..N |-> IF n = 0 THEN << >> ELSE Be!Extend(f[n - 1], s[n])]
    <2>. HIDE DEF s, N, T
    <2>1. \A n \in 0..N : n # 0 => n \in 1..N
        BY <1>1
    <2>2. \A n \in 0..N : f[n] = g[n]
        BY <1>5, <2>1
    <2>3. f = g
        BY <1>5, <2>2
    <2>. QED  BY <1>1, <2>3 DEF GroupRuns
<1>. DEFINE h == CHOOSE f2 : GroupRuns(f2, s)
<1>7. GroupRuns(h, s)
    <2>. HIDE DEF s
    <2>. QED  BY <1>6
<1>8. Be!OracleSessions(who) = h[Len(s)]
    BY DEF Be!OracleSessions, GroupRuns, Times
<1>9. /\ h[0] = << >> /\ \A n \in 1..N : h[n] = Be!Extend(h[n - 1], s[n])
    <2>. HIDE DEF s, N, h
    <2>1. \A n \in 1..N : n \in 0..N /\ n # 0
        BY <1>1
    <2>2. 0 \in 0..N
        BY <1>1
    <2>3. \A n \in 0..N : h[n] = IF n = 0 THEN << >> ELSE Be!Extend(h[n - 1], s[n])
        BY <1>1, <1>7 DEF GroupRuns
    <2>. QED  BY <2>1, <2>2, <2>3
<1>. QED  BY <1>1, <1>8, <1>9

\* The loop after n events: the last group holds what came since the last opening, the groups
\* before it are the sessions which opened before that.
Stretch(s, from, upto) == {s[j] : j \in from..upto}
OpenSince(s, N, g, n, first) ==
    LET q == g[Len(g)]
    IN /\ Opens(s, first) /\ \A t \in (first + 1)..n : ~ Opens(s, t)
       /\ Len(g) > 0 /\ Len(q) > 0 /\ q[Len(q)] = s[n]
       /\ Elements(q) = {s[j] : j \in first..n}
       /\ {Elements(g[m]) : m \in 1..(Len(g) - 1)}
            = {Session(s, N, i) : i \in {k \in 1..(first - 1) : Opens(s, k)}}
Grouped(s, N, A, g, n) ==
    /\ g \in Seq(Seq(A))
    /\ n = 0 => g = << >>
    /\ n > 0 => \E first \in 1..n : OpenSince(s, N, g, n, first)

\* A session holds the positions up to the next opening, or to the end.
LEMMA SessionEnds ==
    ASSUME NEW s, NEW N \in Nat, NEW n \in 1..N, NEW first \in 1..n,
           \A t \in (first + 1)..n : ~ Opens(s, t),
           n = N \/ Opens(s, n + 1)
    PROVE  Session(s, N, first) = Stretch(s, first, n)
<1>1. ASSUME NEW k \in Spanned(s, N, first) PROVE k \in first..n
    <2>1. k \in 1..N /\ first <= k /\ \A t \in 1..N : Opens(s, t) /\ first < t => k < t
        BY DEF Spanned
    <2>2. CASE n = N
        BY <2>1, <2>2
    <2>3. CASE n # N
        <3>1. n + 1 \in 1..N /\ first < n + 1 /\ Opens(s, n + 1)
            BY <2>3
        <3>2. k < n + 1
            BY <2>1, <3>1
        <3>. QED  BY <2>1, <3>2
    <2>. QED  BY <2>2, <2>3
<1>2. ASSUME NEW k \in first..n PROVE k \in Spanned(s, N, first)
    <2>1. ASSUME NEW t \in 1..N, Opens(s, t), first < t PROVE k < t
        <3>1. ~ (t \in (first + 1)..n)
            BY <2>1
        <3>. QED  BY <2>1, <3>1
    <2>. QED  BY <2>1 DEF Spanned
<1>3. Spanned(s, N, first) = first..n
    BY <1>1, <1>2
<1>. QED  BY <1>3 DEF Session, Stretch

LEMMA GroupStep ==
    ASSUME NEW N \in Nat, NEW A, NEW s \in [1..N -> A], \A e \in A : e.at \in Nat, BehaviorWindow \in Nat,
           NEW n \in 0..N, n < N, NEW g, Grouped(s, N, A, g, n)
    PROVE  Grouped(s, N, A, Be!Extend(g, s[n + 1]), n + 1)
<1>. DEFINE e == s[n + 1]
            r == Be!Extend(g, e)
            l == Len(g)
            opens == l = 0 \/ e.at - g[l][Len(g[l])].at >= BehaviorWindow
<1>1. g \in Seq(Seq(A)) /\ e \in A /\ l \in Nat /\ n + 1 \in 1..N /\ n + 1 > 0
    BY DEF Grouped
<1>2. /\ r \in Seq(Seq(A))
      /\ opens => /\ Len(r) = l + 1 /\ r[Len(r)] = <<e>> /\ \A m \in 1..l : r[m] = g[m]
      /\ ~ opens => /\ Len(r) = l /\ r[Len(r)] = Append(g[l], e) /\ \A m \in 1..(l - 1) : r[m] = g[m]
    <2>. HIDE DEF e
    <2>. QED  BY <1>1, ExtendIs
<1>3. CASE n = 0
    <2>1. g = << >> /\ l = 0
        BY <1>3 DEF Grouped
    <2>2. Len(r) = 1 /\ r[Len(r)] = <<e>> /\ Opens(s, 1)
        BY <1>2, <2>1 DEF Opens
    <2>. HIDE DEF r, e
    <2>. DEFINE q == r[Len(r)]
    <2>3. Len(q) = 1 /\ q[Len(q)] = e /\ Elements(q) = {e}
        BY <2>2, ElementsOfOne
    <2>. HIDE DEF q
    <2>4. {s[j] : j \in 1..1} = {e}
        BY <1>3 DEF e
    <2>5. 1..(Len(r) - 1) = {} /\ 1..(1 - 1) = {}
        BY <2>2
    <2>6. {Elements(r[m]) : m \in 1..(Len(r) - 1)} = {Session(s, N, i) : i \in {k \in 1..(1 - 1) : Opens(s, k)}}
        BY <2>5
    <2>7. \A t \in (1 + 1)..(n + 1) : ~ Opens(s, t)
        BY <1>3
    <2>8. OpenSince(s, N, r, n + 1, 1)
        BY <1>3, <2>2, <2>3, <2>4, <2>6, <2>7 DEF OpenSince, q, e
    <2>. QED  BY <1>2, <1>3, <2>8 DEF Grouped, e, r
<1>4. CASE n # 0
    <2>. DEFINE q == g[l]
    <2>1. n > 0 /\ n \in 1..N
        BY <1>4
    <2>2. PICK first \in 1..n :
            /\ Opens(s, first) /\ \A t \in (first + 1)..n : ~ Opens(s, t)
            /\ l > 0 /\ Len(q) > 0 /\ q[Len(q)] = s[n]
            /\ Elements(q) = {s[j] : j \in first..n}
            /\ {Elements(g[m]) : m \in 1..(l - 1)} = {Session(s, N, i) : i \in {k \in 1..(first - 1) : Opens(s, k)}}
        BY <2>1 DEF Grouped, OpenSince
    <2>3. opens <=> Opens(s, n + 1)
        <3>1. s[n].at \in Nat /\ e.at \in Nat /\ (n + 1) - 1 = n /\ n + 1 # 1
            BY <1>1, <2>1
        <3>. QED  BY <2>2, <3>1 DEF Opens
    <2>4. q \in Seq(A)
        BY <1>1, <2>2
    <2>. HIDE DEF opens, r, q, e
    <2>7. ASSUME NEW i \in 1..(n + 1), OpenSince(s, N, r, n + 1, i) PROVE Grouped(s, N, A, Be!Extend(g, s[n + 1]), n + 1)
        BY <1>1, <1>2, <2>1, <2>7 DEF Grouped, r, e
    <2>5. CASE opens
        <3>. DEFINE p == r[Len(r)]
        <3>1. Len(r) = l + 1 /\ p = <<e>> /\ \A m \in 1..l : r[m] = g[m]
            BY <1>2, <2>5
        <3>. HIDE DEF p
        <3>2. Len(p) = 1 /\ p[Len(p)] = s[n + 1] /\ Elements(p) = {e}
            BY <3>1, ElementsOfOne DEF e
        <3>3. {s[j] : j \in (n + 1)..(n + 1)} = {e}
            BY <2>1 DEF e
        <3>4. Elements(q) = Session(s, N, first)
            <4>1. Session(s, N, first) = Stretch(s, first, n)
                <5>1. \A t \in (first + 1)..n : ~ Opens(s, t)
                    BY <2>2
                <5>2. n = N \/ Opens(s, n + 1)
                    BY <2>3, <2>5
                <5>. QED  BY <2>1, <5>1, <5>2, SessionEnds
            <4>. QED  BY <2>2, <4>1 DEF Stretch
        <3>5. {Elements(r[m]) : m \in 1..(Len(r) - 1)}
                = {Elements(g[m]) : m \in 1..(l - 1)} \union {Elements(q)}
            <4>1. 1..(Len(r) - 1) = 1..(l - 1) \union {l} /\ \A m \in 1..(Len(r) - 1) : r[m] = g[m]
                BY <1>1, <2>2, <3>1
            <4>. QED  BY <4>1 DEF q
        <3>6. {k \in 1..((n + 1) - 1) : Opens(s, k)} = {k \in 1..(first - 1) : Opens(s, k)} \union {first}
            BY <2>1, <2>2
        <3>7. {Elements(r[m]) : m \in 1..(Len(r) - 1)}
                = {Session(s, N, i) : i \in {k \in 1..((n + 1) - 1) : Opens(s, k)}}
            BY <2>2, <3>4, <3>5, <3>6
        <3>8. \A t \in ((n + 1) + 1)..(n + 1) : ~ Opens(s, t)
            BY <2>1
        <3>9. Opens(s, n + 1) /\ n + 1 \in 1..(n + 1) /\ Len(r) > 0 /\ Len(p) > 0 /\ Elements(p) = {s[j] : j \in (n + 1)..(n + 1)}
            BY <1>1, <2>1, <2>3, <2>5, <3>1, <3>2, <3>3
        <3>10. OpenSince(s, N, r, n + 1, n + 1)
            BY <3>2, <3>7, <3>8, <3>9 DEF OpenSince, p
        <3>. QED  BY <1>1, <1>2, <3>9, <3>10, <2>7
    <2>6. CASE ~ opens
        <3>. DEFINE p == r[Len(r)]
        <3>1. Len(r) = l /\ p = Append(q, e) /\ \A m \in 1..(l - 1) : r[m] = g[m]
            BY <1>2, <2>6 DEF q
        <3>. HIDE DEF p
        <3>2. Len(p) = Len(q) + 1 /\ p[Len(p)] = s[n + 1] /\ Elements(p) = Elements(q) \union {e}
            BY <1>1, <2>4, <3>1, ElementsOfAppend DEF e
        <3>3. {s[j] : j \in first..(n + 1)} = {s[j] : j \in first..n} \union {e}
            <4>1. first..(n + 1) = first..n \union {n + 1}
                BY <2>1
            <4>. QED  BY <4>1 DEF e
        <3>4. {Elements(r[m]) : m \in 1..(Len(r) - 1)} = {Elements(g[m]) : m \in 1..(l - 1)}
            BY <3>1
        <3>5. \A t \in (first + 1)..(n + 1) : ~ Opens(s, t)
            BY <2>1, <2>2, <2>3, <2>6
        <3>6. first \in 1..(n + 1) /\ Len(r) > 0 /\ Len(p) > 0 /\ Elements(p) = {s[j] : j \in first..(n + 1)}
            BY <2>1, <2>2, <2>4, <3>1, <3>2, <3>3
        <3>7. OpenSince(s, N, r, n + 1, first)
            BY <2>2, <3>2, <3>4, <3>5, <3>6 DEF OpenSince, p
        <3>. QED  BY <3>6, <3>7, <2>7
    <2>. QED  BY <2>5, <2>6
<1>. QED  BY <1>3, <1>4

LEMMA SessionsAgree ==
    ASSUME BehaviorInv, NEW who, Be!Activity(who) # {}
    PROVE  Be!Sessions(who) = {Be!ToSet(g) : g \in Be!ToSet(Be!OracleSessions(who))}
<1>. DEFINE A == Be!Activity(who)
            s == Times(who)
            N == Count(who)
<1>1. /\ N \in Nat /\ s \in [1..N -> A] /\ \A e \in A : e.at \in Nat /\ \E i \in 1..N : s[i] = e
    BY TimesAre
<1>2. N > 0 /\ BehaviorWindow \in Nat
    BY <1>1, BehaviorConstants
<1>3. PICK f : /\ f[0] = << >> /\ \A n \in 1..N : f[n] = Be!Extend(f[n - 1], s[n])
               /\ Be!OracleSessions(who) = f[N]
    BY GroupLoop
<1>. HIDE DEF A, s, N
<1>4. Grouped(s, N, A, f[N], N)
    <2>. DEFINE G == {n \in 0..N : Grouped(s, N, A, f[n], n)}
    <2>1. 0 \in G
        <3>1. << >> \in Seq(Seq(A)) /\ ~ (0 > 0) /\ 0 \in 0..N
            BY <1>1
        <3>2. Grouped(s, N, A, << >>, 0)
            BY <3>1 DEF Grouped
        <3>. QED  BY <1>3, <3>1, <3>2
    <2>2. \A n \in 0..N : n \in G /\ n < N => n + 1 \in G
        <3>1. SUFFICES ASSUME NEW n \in 0..N, n \in G, n < N PROVE n + 1 \in G
            OBVIOUS
        <3>2. Grouped(s, N, A, f[n], n)
            BY <3>1
        <3>3. n + 1 \in 1..N /\ (n + 1) - 1 = n /\ n + 1 \in 0..N
            BY <1>1, <3>1
        <3>4. f[n + 1] = Be!Extend(f[n], s[n + 1])
            BY <1>3, <3>3
        <3>5. Grouped(s, N, A, f[n + 1], n + 1)
            BY <1>1, <1>2, <3>1, <3>2, <3>4, GroupStep
        <3>. QED  BY <3>3, <3>5
    <2>. HIDE DEF G
    <2>3. 0..N \subseteq G
        BY <1>1, <2>1, <2>2, UpTo
    <2>. QED  BY <1>1, <2>3 DEF G
<1>. DEFINE g == f[N]
            l == Len(g)
            q == g[l]
<1>5. PICK first \in 1..N :
        /\ Opens(s, first) /\ \A t \in (first + 1)..N : ~ Opens(s, t)
        /\ l > 0 /\ Elements(q) = {s[j] : j \in first..N}
        /\ {Elements(g[m]) : m \in 1..(l - 1)} = {Session(s, N, i) : i \in {k \in 1..(first - 1) : Opens(s, k)}}
    BY <1>2, <1>4 DEF Grouped, OpenSince
<1>6. g \in Seq(Seq(A)) /\ l \in Nat
    BY <1>4 DEF Grouped
<1>. HIDE DEF g, l
<1>7. Elements(q) = Session(s, N, first)
    <2>1. Session(s, N, first) = Stretch(s, first, N)
        BY <1>1, <1>2, <1>5, SessionEnds
    <2>. QED  BY <1>5, <2>1 DEF Stretch
<1>8. {Elements(g[m]) : m \in 1..l} = {Elements(g[m]) : m \in 1..(l - 1)} \union {Elements(q)}
    <2>1. 1..l = 1..(l - 1) \union {l}
        BY <1>5, <1>6
    <2>. QED  BY <2>1
<1>9. {k \in 1..N : Opens(s, k)} = {k \in 1..(first - 1) : Opens(s, k)} \union {first}
    BY <1>1, <1>5
<1>10. {Elements(g[m]) : m \in 1..l} = {Session(s, N, i) : i \in {k \in 1..N : Opens(s, k)}}
    BY <1>5, <1>7, <1>8, <1>9
<1>11. {Be!ToSet(h) : h \in Be!ToSet(g)} = {Elements(g[m]) : m \in 1..l}
    <2>1. Be!ToSet(g) = {g[m] : m \in 1..l}
        <3>1. DOMAIN g = 1..l
            BY <1>6 DEF l
        <3>. QED  BY <3>1 DEF Be!ToSet
    <2>2. \A m \in 1..l : Be!ToSet(g[m]) = Elements(g[m])
        <3>1. \A m \in 1..l : g[m] \in Seq(A)
            BY <1>6 DEF l
        <3>. QED  BY <3>1 DEF Be!ToSet, Elements
    <2>. QED  BY <2>1, <2>2
<1>. QED  BY <1>3, <1>10, <1>11, SessionsAre DEF s, N, g

LEMMA BehaviorHolds == BehaviorInv => BehaviorAgrees
<1>. SUFFICES ASSUME BehaviorInv PROVE Be!BehaviorAgrees
    BY DEF BehaviorAgrees
<1>1. ASSUME NEW who \in {e.who : e \in Be!Events} \ {Unset}
      PROVE  Be!Sessions(who) = {Be!ToSet(g) : g \in Be!ToSet(Be!OracleSessions(who))}
    <2>1. Be!Activity(who) # {}
        BY DEF Be!Activity
    <2>. QED  BY <2>1, SessionsAgree
<1>. QED  BY <1>1, ConversionsAgree, FunnelsAgree, FunnelNarrows DEF Be!BehaviorAgrees

\* For every set of events, however many and in whatever order they come: the joins and windows
\* of the distributed model and the loops of the oracle give the same conversions, the same
\* funnel and the same sessions, and the funnel narrows (behavior.py, warehouse/spark/behavior.py).
THEOREM ModelAgrees == Be!Spec => []BehaviorAgrees
<1>1. Be!Init => BehaviorInv
    BY BehaviorInvInit
<1>2. BehaviorInv /\ [Be!Next]_(Be!vars) => BehaviorInv'
    BY BehaviorInvStep
<1>. QED  BY <1>1, <1>2, BehaviorHolds, PTL DEF Be!Spec
=============================================================================
