------------------------- MODULE PublicationProofs -------------------------
(***************************************************************************)
(* Proofs about module Publication, for any days, cutoffs and results and  *)
(* any number of publications and faults.  Two inductive invariants: the   *)
(* types with the order of rows and pointers, and, on top of them, the     *)
(* history of the table of pointers.  The refinement of Board rests on the *)
(* first: what a reader is shown of a day depends on its pointer alone.    *)
(* Then about three programs of Programs, whose names are other ones.       *)
(***************************************************************************)
EXTENDS Publication, Programs, FiniteSetTheorems, SequenceTheorems, WellFoundedInduction, TLAPS

IInv == TypeOK /\ PointersHaveRows

\* A package is a cutoff and a result for each day of some of the days.
LEMMA PackageShape ==
    ASSUME NEW p \in Packages
    PROVE  /\ p.version \in Versions /\ p.version \in Nat
           /\ DOMAIN p.rows \subseteq Days
           /\ \A d \in DOMAIN p.rows : p.rows[d] \in Values
           /\ p # None
  <1>1. p.version \in Versions /\ p.rows \in UNION {[w -> Values] : w \in Windows}
    BY DEF Packages
  <1>2. PICK w \in Windows : p.rows \in [w -> Values]
    BY <1>1
  <1>3. w \subseteq Days
    BY <1>2 DEF Windows
  <1> QED
    BY <1>1, <1>2, <1>3, PackageAssumption

\* The rows of a package are rows of the table of snapshots.
LEMMA RowsShape ==
    ASSUME NEW p \in Packages
    PROVE  RowsOf(p) \subseteq Packages \X Days
  BY PackageShape DEF RowsOf

\* The table of pointers stays a table of pointers.
LEMMA UpsertShape ==
    ASSUME NEW p \in Packages, NEW r \in [Days -> Packages \union {None}]
    PROVE  Upsert(p, r) \in [Days -> Packages \union {None}]
  BY DEF Upsert

\* Executing a statement keeps the tables well formed, and rows never go.
LEMMA RunKeeps ==
    ASSUME IInv, NEW k \in {"load", "commit"}, NEW p \in Packages, Run(k, p),
           k = "commit" => RowsOf(p) \subseteq snapshots
    PROVE  /\ snapshots' \subseteq Packages \X Days
           /\ releases' \in [Days -> Packages \union {None}]
           /\ committed' \subseteq Packages
           /\ snapshots \subseteq snapshots'
           /\ \A d \in Days : releases'[d] # None =>
                d \in DOMAIN releases'[d].rows /\ RowsOf(releases'[d]) \subseteq snapshots'
           /\ k = "load" => RowsOf(p) \subseteq snapshots'
  <1> USE DEF IInv, TypeOK, PointersHaveRows
  <1>1. CASE k = "load"
    <2>1. snapshots' = snapshots \union RowsOf(p) /\ releases' = releases /\ committed' = committed
      BY <1>1 DEF Run
    <2> QED
      BY <1>1, <2>1, RowsShape
  <1>2. CASE k = "commit"
    <2>1. snapshots' = snapshots /\ releases' = Upsert(p, releases) /\ committed' = committed \union {p}
      BY <1>2 DEF Run
    <2>2. releases' \in [Days -> Packages \union {None}]
      BY <2>1, UpsertShape
    <2>3. ASSUME NEW d \in Days, releases'[d] # None
          PROVE  d \in DOMAIN releases'[d].rows /\ RowsOf(releases'[d]) \subseteq snapshots'
      <3>1. CASE releases'[d] = p /\ d \in DOMAIN p.rows
        BY <3>1, <2>1, <1>2
      <3>2. CASE releases'[d] = releases[d]
        BY <3>2, <2>1, <2>3
      <3> QED
        BY <3>1, <3>2, <2>1 DEF Upsert
    <2> QED
      BY <1>2, <2>1, <2>2, <2>3
  <1> QED
    BY <1>1, <1>2

LEMMA InitIInv == Init => IInv
  BY DEF Init, IInv, TypeOK, PointersHaveRows, Idle

\* One step per action; only those that end with a statement move the tables.
LEMMA NextIInv == IInv /\ [Next]_vars => IInv'
  <1> SUFFICES ASSUME IInv, [Next]_vars PROVE IInv'
    OBVIOUS
  <1> USE DEF IInv, TypeOK, PointersHaveRows
  <1>1. CASE Begin
    BY <1>1 DEF Begin, Steps, Idle
  <1>2. CASE Check
    <2>1. proc \in Steps
      BY <1>2 DEF Check, Idle
    <2> QED
      BY <1>2, <2>1 DEF Check, Steps, Idle
  <1>3. CASE Load
    <2>1. proc \in Steps /\ proc.package \in Packages
      BY <1>3 DEF Load, Idle, Steps
    <2>2. Run("load", proc.package) /\ UNCHANGED inflight
      BY <1>3 DEF Load
    <2>3. proc' = [pc |-> "readback", package |-> proc.package]
      BY <1>3, <2>1 DEF Load, Steps
    <2> QED
      BY <2>1, <2>2, <2>3, RunKeeps DEF Steps
  <1>4. CASE Readback
    <2>1. proc \in Steps
      BY <1>4 DEF Readback, Idle
    <2>2. CASE Loaded(proc.package)
      <3>1. RowsOf(proc.package) \subseteq snapshots
        BY <2>2 DEF Loaded
      <3>2. proc' = [pc |-> "commit", package |-> proc.package]
        BY <1>4, <2>1, <2>2 DEF Readback, Steps
      <3> QED
        BY <1>4, <2>1, <3>1, <3>2 DEF Readback, Steps
    <2>3. CASE ~Loaded(proc.package)
      BY <1>4, <2>3 DEF Readback, Idle
    <2> QED
      BY <2>2, <2>3
  <1>5. CASE Commit
    <2>1. proc.package \in Packages /\ proc.pc = "commit"
      BY <1>5 DEF Commit, Idle, Steps
    <2>2. Run("commit", proc.package) /\ UNCHANGED inflight /\ proc' = Idle
      BY <1>5 DEF Commit
    <2> QED
      BY <2>1, <2>2, RunKeeps DEF Idle
  <1>6. CASE Die
    BY <1>6 DEF Die, Idle
  <1>7. CASE Abandon
    <2>1. proc.package \in Packages /\ proc.pc \in {"load", "commit"}
      BY <1>7 DEF Abandon, Idle, Steps
    <2> QED
      BY <1>7, <2>1 DEF Abandon, Idle, Statements
  <1>8. CASE Late
    <2>1. PICK s \in inflight : Run(s.kind, s.package) /\ inflight' = inflight \ {s} /\ proc' = proc
      BY <1>8 DEF Late
    <2>2. s.kind \in {"load", "commit"} /\ s.package \in Packages
      BY <2>1 DEF Statements
    <2> QED
      BY <2>1, <2>2, RunKeeps
  <1>9. CASE UNCHANGED vars
    BY <1>9 DEF vars
  <1> QED
    BY <1>1, <1>2, <1>3, <1>4, <1>5, <1>6, <1>7, <1>8, <1>9 DEF Next, Publish

\* The variables keep their types.
THEOREM TypeCorrect == Spec => []TypeOK
  BY InitIInv, NextIInv, PTL DEF Spec, IInv

\* Rows come before pointers, in the tables, in flight and in the publisher.
THEOREM RowsComeFirst == Spec => []PointersHaveRows
  BY InitIInv, NextIInv, PTL DEF Spec, IInv

-----------------------------------------------------------------------------
(* The history of the pointers. *)

\* A pointer only gives way to the same or a later cutoff.
LEMMA UpsertAdvances ==
    ASSUME NEW p \in Packages, NEW r \in [Days -> Packages \union {None}], NEW d \in Days
    PROVE  /\ Upsert(p, r)[d] \in {r[d], p}
           /\ r[d] # None => Upsert(p, r)[d] # None /\ Upsert(p, r)[d].version >= r[d].version
           /\ d \in DOMAIN p.rows => Upsert(p, r)[d] # None /\ Upsert(p, r)[d].version >= p.version
  <1>1. p.version \in Nat /\ p # None
    BY PackageShape
  <1>2. r[d] # None => r[d].version \in Nat
    BY PackageShape
  <1> QED
    BY <1>1, <1>2 DEF Upsert

LEMMA RunAdvances ==
    ASSUME TypeOK, DaysAreNewest, NEW k, NEW p \in Packages, Run(k, p)
    PROVE  DaysAreNewest'
  <1>1. CASE committed' = committed /\ releases' = releases
    BY <1>1 DEF DaysAreNewest
  <1>2. CASE releases' = Upsert(p, releases) /\ committed' = committed \union {p}
    <2> DEFINE Newer(d, v) == releases'[d] # None /\ releases'[d].version >= v
    <2>1. releases \in [Days -> Packages \union {None}]
      BY DEF TypeOK
    <2>2. ASSUME NEW d \in Days, releases'[d] # None
          PROVE  releases'[d] \in committed'
      <3>1. releases'[d] \in {releases[d], p}
        BY <1>2, <2>1, UpsertAdvances
      <3> QED
        BY <1>2, <2>2, <3>1 DEF DaysAreNewest
    <2>3. ASSUME NEW q \in committed, NEW d \in DOMAIN q.rows
          PROVE  Newer(d, q.version)
      <3>1. d \in Days /\ q.version \in Nat
        BY PackageShape DEF TypeOK
      <3>2. releases[d] # None /\ releases[d].version >= q.version
        BY DEF DaysAreNewest
      <3>3. releases'[d] # None /\ releases'[d].version >= releases[d].version
        BY <1>2, <2>1, <3>1, <3>2, UpsertAdvances
      <3>4. releases[d].version \in Nat /\ releases'[d].version \in Nat
        <4>1. releases[d] \in Packages /\ releases'[d] \in {releases[d], p}
          BY <1>2, <2>1, <3>1, <3>2, UpsertAdvances
        <4> QED
          BY <4>1, PackageShape
      <3> QED
        BY <3>1, <3>2, <3>3, <3>4
    <2>4. ASSUME NEW d \in DOMAIN p.rows
          PROVE  Newer(d, p.version)
      <3>1. d \in Days
        BY PackageShape
      <3> QED
        BY <1>2, <2>1, <3>1, UpsertAdvances
    <2> QED
      BY <1>2, <2>2, <2>3, <2>4 DEF DaysAreNewest
  <1> QED
    BY <1>1, <1>2 DEF Run

LEMMA NextNewest == IInv /\ DaysAreNewest /\ [Next]_vars => DaysAreNewest'
  <1> SUFFICES ASSUME IInv, DaysAreNewest, [Next]_vars PROVE DaysAreNewest'
    OBVIOUS
  <1>1. TypeOK
    BY DEF IInv
  <1>2. CASE UNCHANGED <<releases, committed>>
    BY <1>2 DEF DaysAreNewest
  <1>3. CASE Load
    <2>1. Run("load", proc.package) /\ proc.package \in Packages
      BY <1>1, <1>3 DEF Load, TypeOK, Steps, Idle
    <2> QED
      BY <1>1, <2>1, RunAdvances
  <1>4. CASE Commit
    <2>1. Run("commit", proc.package) /\ proc.package \in Packages
      BY <1>1, <1>4 DEF Commit, TypeOK, Steps, Idle
    <2> QED
      BY <1>1, <2>1, RunAdvances
  <1>5. CASE Late
    <2>1. PICK s \in inflight : Run(s.kind, s.package)
      BY <1>5 DEF Late
    <2>2. s.package \in Packages
      BY <1>1 DEF TypeOK, Statements
    <2> QED
      BY <1>1, <2>1, <2>2, RunAdvances
  <1> QED
    BY <1>2, <1>3, <1>4, <1>5
       DEF Next, Publish, Begin, Check, Readback, Die, Abandon, vars

\* No publisher replaces a result by an older one or half of a window, however
\* late its statement is executed.
THEOREM NewestStays == Spec => []DaysAreNewest
  <1>1. Init => DaysAreNewest
    BY DEF Init, DaysAreNewest
  <1> QED
    BY <1>1, InitIInv, NextIInv, NextNewest, PTL DEF Spec

-----------------------------------------------------------------------------
(* The refinement of Board. *)

LEMMA SamePackages == AsBoard!Packages = Packages
  BY DEF AsBoard!Packages, Packages, AsBoard!Windows, Windows

\* What a pointer to a package shows: its cutoff and its result of the day.
Cell(p, d) == IF p = None THEN None ELSE [version |-> p.version, value |-> p.rows[d]]

\* Every pointer has its rows, so what is shown is what the package says.
LEMMA ShownByPointer ==
    ASSUME IInv, NEW d \in Days
    PROVE  Shown(d) = Cell(releases[d], d)
  <1>1. CASE releases[d] = None
    BY <1>1 DEF Shown, Cell
  <1>2. CASE releases[d] # None
    <2>1. d \in DOMAIN releases[d].rows /\ RowsOf(releases[d]) \subseteq snapshots
      BY <1>2 DEF IInv, PointersHaveRows
    <2>2. releases[d].rows[d] # Empty => <<releases[d], d>> \in snapshots
      BY <2>1 DEF RowsOf
    <2> QED
      BY <1>2, <2>2 DEF Shown, Cell
  <1> QED
    BY <1>1, <1>2

LEMMA AllShownByPointer == IInv => \A d \in Days : Shown(d) = Cell(releases[d], d)
  BY ShownByPointer

LEMMA ShownByPointerAfter == IInv' => (\A d \in Days : Shown(d) = Cell(releases[d], d))'
  BY AllShownByPointer, PTL

\* Replacing pointers is what announcing the package is.
LEMMA UpsertIsAnnounced ==
    ASSUME NEW p \in Packages, NEW r \in [Days -> Packages \union {None}],
           \A d \in Days : r[d] # None => d \in DOMAIN r[d].rows
    PROVE  [d \in Days |-> Cell(Upsert(p, r)[d], d)]
             = AsBoard!Announced(p, [d \in Days |-> Cell(r[d], d)])
  <1> DEFINE b == [d \in Days |-> Cell(r[d], d)]
  <1>1. ASSUME NEW d \in Days
        PROVE  /\ (b[d] = None) <=> (r[d] = None)
               /\ r[d] # None => b[d].version = r[d].version
    <2>1. CASE r[d] = None
      BY <2>1 DEF Cell
    <2>2. CASE r[d] # None
      <3>1. b[d] = [version |-> r[d].version, value |-> r[d].rows[d]]
        BY <2>2 DEF Cell
      <3>2. r[d].version \in Versions /\ r[d].rows[d] \in Values
        BY <2>2, PackageShape
      <3>3. b[d] \in Cells
        BY <3>1, <3>2 DEF Cells
      <3> QED
        BY <2>2, <3>1, <3>3, PackageAssumption
    <2> QED
      BY <2>1, <2>2
  <1> QED
    BY <1>1, PackageShape DEF Upsert, Cell, AsBoard!Announced

\* A step of the implementation announces one package or changes nothing.
LEMMA StepAnnounces ==
    ASSUME IInv, IInv', [Next]_vars
    PROVE  [AsBoard!Announce]_([d \in Days |-> Shown(d)])
  <1> DEFINE shown == [d \in Days |-> Shown(d)]
  <1>1. shown = [d \in Days |-> Cell(releases[d], d)]
    BY ShownByPointer
  <1>2. shown' = [d \in Days |-> Cell(releases'[d], d)]
    <2>1. \A d \in Days : Shown(d)' = Cell(releases'[d], d)
      BY ShownByPointerAfter
    <2> QED
      BY <2>1
  <1>3. CASE releases' = releases
    BY <1>1, <1>2, <1>3
  <1>4. ASSUME NEW p \in Packages, releases' = Upsert(p, releases)
        PROVE  AsBoard!Announce
    <2>1. releases \in [Days -> Packages \union {None}]
      BY DEF IInv, TypeOK
    <2>2. \A d \in Days : releases[d] # None => d \in DOMAIN releases[d].rows
      BY DEF IInv, PointersHaveRows
    <2>3. shown' = AsBoard!Announced(p, shown)
      BY <1>1, <1>2, <1>4, <2>1, <2>2, UpsertIsAnnounced
    <2> QED
      BY <2>3, SamePackages DEF AsBoard!Announce
  <1>5. releases' = releases \/ \E p \in Packages : releases' = Upsert(p, releases)
    <2>1. CASE Load
      BY <2>1 DEF Load, Run
    <2>2. CASE Commit
      BY <2>2 DEF Commit, Run, IInv, TypeOK, Steps, Idle
    <2>3. CASE Late
      BY <2>3 DEF Late, Run, IInv, TypeOK, Statements
    <2> QED
      BY <2>1, <2>2, <2>3 DEF Next, Publish, Begin, Check, Readback, Die, Abandon, vars
  <1> QED
    BY <1>3, <1>4, <1>5

\* Readers see whole packages in the order of their cutoffs, whatever dies,
\* times out or arrives late.
THEOREM BoardImplemented == Spec => RefinesBoard
  <1>1. Init => AsBoard!BoardInit
    BY DEF Init, AsBoard!BoardInit, Shown
  <1>2. IInv /\ IInv' /\ [Next]_vars => [AsBoard!Announce]_([d \in Days |-> Shown(d)])
    BY StepAnnounces
  <1> QED
    BY <1>1, <1>2, InitIInv, NextIInv, PTL DEF Spec, RefinesBoard, AsBoard!BoardSpec

-----------------------------------------------------------------------------
(* The streaming job.  What a checkpoint saves and the rows that go with it  *)
(* are looked at twice, as the job has them and as the last checkpoint has   *)
(* them, so the invariant is about any such pair: st and the rows W.         *)

Topics == Rt!Records \union {Rt!Alien}
Saved == [pos : Nat, seen : [Ids -> Rt!Records \union {Unset}], asked : SUBSET Rt!Keys]

\* The first copy of an event, and what counts of the first n records.
FirstCopy(L, i) == \A j \in 1..(i - 1) : L[j].id # L[i].id
Counts(L, i) ==
    /\ L[i] # Rt!Alien /\ FirstCopy(L, i)
    /\ \A j \in 1..(i - 1) : L[j] # Rt!Alien /\ FirstCopy(L, j) => L[j].key # L[i].key
Counted(L, n) == {i \in 1..n : Counts(L, i)}

\* Each record that was read has left a row of its key, no later than itself, or is in A; and
\* what the state remembers has a row.
Held(L, A, i, W) ==
    i \in A \/ (L[i] # Rt!Alien /\ \E w \in W : w <= i /\ L[w].key = L[i].key)
Backed(L, k, W) == \E w \in W : L[w].key = k
Upheld(L, A, st, W) ==
    /\ st \in Saved /\ st.pos <= Len(L)
    /\ W \subseteq 1..st.pos /\ \A w \in W : L[w] \in Rt!Records
    /\ \A i \in 1..st.pos : Held(L, A, i, W)
    /\ \A i \in Ids : st.seen[i] # Unset => Backed(L, st.seen[i].key, W)
    /\ \A k \in st.asked : Backed(L, k, W)

\* As long as nothing is forgotten or late, the state is what it remembers of all records.
Exact(L, st, W) ==
    /\ \A i \in Ids : st.seen[i] = Unset <=> \A j \in 1..st.pos : L[j].id # i
    /\ \A i \in 1..st.pos : L[i] # Rt!Alien /\ FirstCopy(L, i) => L[i].key \in st.asked
    /\ W = Counted(L, st.pos)

Facts == {facts[k] : k \in Rt!Keys} \ {Unset}
Written == pending \union Facts

RealtimeTypes ==
    /\ records \in Seq(Topics) /\ stream \in {"runs", "failed"} /\ forgot \in BOOLEAN
    /\ taken.pos <= state.pos
    /\ \A i \in pending : i > taken.pos
    /\ facts \in [Rt!Keys -> Nat \union {Unset}]
    /\ \A k \in Rt!Keys : facts[k] # Unset => records[facts[k]].key = k
    /\ side = [late |-> side.late, quarantine |-> side.quarantine, duplicates |-> side.duplicates]
    /\ side.late \subseteq 1..state.pos

RealtimeInv ==
    /\ RealtimeTypes
    /\ stream = "failed" => state = taken /\ pending = {}
    /\ Upheld(records, Rt!Accounted, state, Written)
    /\ Upheld(records, Rt!Accounted, taken, Facts)
    /\ ~ forgot /\ side.late = {} => Exact(records, state, Written)
    /\ ~ forgot /\ side.late \cap 1..taken.pos = {} => Exact(records, taken, Facts)

-----------------------------------------------------------------------------
(* What is kept, as records are appended and read.                           *)

LEMMA RecordShape ==
    ASSUME NEW r \in Rt!Records
    PROVE  r # Unset /\ r # Rt!Alien /\ r.id \in Ids /\ r.key \in Rt!Keys /\ r.id # Unset
  BY ProgramsAssumption DEF ProgramsAssumption, Rt!RealtimeAssumption, Rt!Records, Rt!Alien

LEMMA PrefixesAgree ==
    ASSUME NEW L \in Seq(Topics), NEW M \in Seq(Topics), Len(L) <= Len(M),
           \A i \in 1..Len(L) : M[i] = L[i],
           NEW n \in Nat, n <= Len(L)
    PROVE  /\ \A i \in 1..n : FirstCopy(M, i) <=> FirstCopy(L, i)
           /\ Counted(M, n) = Counted(L, n)
<1>0. Len(L) \in Nat
  OBVIOUS
<1>1. \A i \in 1..n : FirstCopy(M, i) <=> FirstCopy(L, i)
  BY <1>0 DEF FirstCopy
<1>2. ASSUME NEW i \in 1..n PROVE Counts(M, i) <=> Counts(L, i)
  <2>1. \A j \in 1..(i - 1) : j \in 1..n /\ M[j] = L[j]
    BY <1>0
  <2>2. M[i] = L[i]
    BY <1>0
  <2> QED
    BY <2>1, <2>2, <1>1 DEF Counts
<1> QED
  BY <1>1, <1>2 DEF Counted

\* Nothing that was published changes.
LEMMA UpheldPublished ==
    ASSUME NEW L \in Seq(Topics), NEW M \in Seq(Topics), Len(L) <= Len(M),
           \A i \in 1..Len(L) : M[i] = L[i],
           NEW A, NEW st, NEW W, Upheld(L, A, st, W)
    PROVE  Upheld(M, A, st, W) /\ (Exact(L, st, W) => Exact(M, st, W))
<1>0. Len(L) \in Nat /\ Len(M) \in Nat /\ st.pos \in Nat /\ st.pos <= Len(L)
  BY DEF Upheld, Saved
<1>1. \A i \in 1..st.pos : M[i] = L[i]
  BY <1>0
<1>2. \A w \in W : M[w] = L[w]
  BY <1>1 DEF Upheld
<1>3. Upheld(M, A, st, W)
  <2>1. \A i \in 1..st.pos : Held(M, A, i, W)
    BY <1>1, <1>2 DEF Upheld, Held
  <2>2. \A k : Backed(L, k, W) => Backed(M, k, W)
    BY <1>2 DEF Backed
  <2> QED
    BY <2>1, <2>2, <1>0, <1>2 DEF Upheld
<1>4. ASSUME Exact(L, st, W) PROVE Exact(M, st, W)
  BY <1>0, <1>1, <1>4, PrefixesAgree DEF Exact
<1> QED
  BY <1>3, <1>4

\* More is accounted for.
LEMMA UpheldAccounted ==
    ASSUME NEW L, NEW A, NEW B, NEW st, NEW W, Upheld(L, A, st, W), A \cap 1..st.pos \subseteq B
    PROVE  Upheld(L, B, st, W)
  BY DEF Upheld, Held

\* State lapses.
LEMMA UpheldLapsed ==
    ASSUME NEW L, NEW A, NEW st, NEW to \in Saved, NEW W, Upheld(L, A, st, W), to.pos = st.pos,
           \A i \in Ids : to.seen[i] \in {st.seen[i], Unset}, to.asked \subseteq st.asked
    PROVE  Upheld(L, A, to, W)
  BY DEF Upheld

\* The rows of a checkpoint: of each key the first.
LEMMA UpheldMerged ==
    ASSUME NEW L \in Seq(Topics), NEW A, NEW st, NEW W, Upheld(L, A, st, W),
           NEW T, T \subseteq W, \A w \in W : \E t \in T : t <= w /\ L[t].key = L[w].key
    PROVE  Upheld(L, A, st, T) /\ (Exact(L, st, W) => Exact(L, st, T))
<1>0. st.pos \in Nat /\ W \subseteq 1..st.pos /\ \A w \in W : L[w] \in Rt!Records
  BY DEF Upheld, Saved
<1>1. \A k : Backed(L, k, W) => Backed(L, k, T)
  BY DEF Backed
<1>2. ASSUME NEW i \in 1..st.pos PROVE Held(L, A, i, T)
  <2>1. Held(L, A, i, W)
    BY DEF Upheld
  <2>2. CASE i \in A
    BY <2>2 DEF Held
  <2>3. CASE i \notin A
    <3>1. L[i] # Rt!Alien
      BY <2>1, <2>3 DEF Held
    <3>2. PICK w \in W : w <= i /\ L[w].key = L[i].key
      BY <2>1, <2>3 DEF Held
    <3>3. PICK t \in T : t <= w /\ L[t].key = L[w].key
      OBVIOUS
    <3>4. t <= i
      BY <3>2, <3>3, <1>0
    <3> QED
      BY <3>1, <3>2, <3>3, <3>4 DEF Held
  <2> QED
    BY <2>2, <2>3
<1>3. Upheld(L, A, st, T)
  <2>1. T \subseteq 1..st.pos /\ \A w \in T : L[w] \in Rt!Records
    BY <1>0
  <2> QED
    BY <1>1, <1>2, <2>1 DEF Upheld
<1>4. ASSUME Exact(L, st, W) PROVE W = T
  <2>1. W = Counted(L, st.pos)
    BY <1>4 DEF Exact
  <2>2. ASSUME NEW w \in W PROVE w \in T
    <3>1. PICK t \in T : t <= w /\ L[t].key = L[w].key
      OBVIOUS
    <3>2. t \in W /\ Counts(L, t) /\ Counts(L, w) /\ w \in 1..st.pos /\ t \in 1..st.pos
      BY <2>1 DEF Counted
    <3>3. ~ (t < w)
      <4>1. SUFFICES ASSUME t \in 1..(w - 1) PROVE FALSE
        BY <3>2
      <4> QED
        BY <3>1, <3>2, <4>1 DEF Counts
    <3>4. t = w
      BY <3>1, <3>2, <3>3
    <3> QED
      BY <3>4
  <2> QED
    BY <2>2
<1> QED
  BY <1>3, <1>4

-----------------------------------------------------------------------------
(* One record is read.                                                       *)

\* It is accounted for, or has the key of a row: nothing new is remembered of it.
LEMMA UpheldRead ==
    ASSUME NEW L \in Seq(Topics), NEW A, NEW B, NEW st, NEW W, Upheld(L, A, st, W),
           A \subseteq B, st.pos + 1 <= Len(L), NEW to \in Saved, to.pos = st.pos + 1,
           NEW V, W \subseteq V, V \subseteq W \union {to.pos},
           \A v \in V : L[v] \in Rt!Records,
           to.pos \in B \/ (L[to.pos] # Rt!Alien /\ Backed(L, L[to.pos].key, V)),
           \A i \in Ids : to.seen[i] \in {st.seen[i], Unset} \/ Backed(L, to.seen[i].key, V),
           \A k \in to.asked : k \in st.asked \/ Backed(L, k, V)
    PROVE  Upheld(L, B, to, V)
<1>0. st.pos \in Nat /\ W \subseteq 1..st.pos /\ to.pos = st.pos + 1 /\ V \subseteq 1..to.pos
  BY DEF Upheld, Saved
<1>1. \A k : Backed(L, k, W) => Backed(L, k, V)
  BY DEF Backed
<1>2. ASSUME NEW i \in 1..to.pos PROVE Held(L, B, i, V)
  <2>1. CASE i = to.pos
    <3>1. \A v \in V : v <= i
      BY <1>0, <2>1
    <3> QED
      BY <2>1, <3>1 DEF Held, Backed
  <2>2. CASE i # to.pos
    <3>1. i \in 1..st.pos
      BY <1>0, <2>2
    <3>2. Held(L, A, i, W)
      BY <3>1 DEF Upheld
    <3> QED
      BY <3>2 DEF Held
  <2> QED
    BY <2>1, <2>2
<1>3. \A i \in Ids : to.seen[i] # Unset => Backed(L, to.seen[i].key, V)
  BY <1>1 DEF Upheld
<1>4. \A k \in to.asked : Backed(L, k, V)
  BY <1>1 DEF Upheld
<1> QED
  BY <1>0, <1>2, <1>3, <1>4 DEF Upheld

\* What it adds to the exact picture.
LEMMA ExactRead ==
    ASSUME NEW L \in Seq(Topics), NEW A, NEW st, NEW W, Upheld(L, A, st, W), Exact(L, st, W),
           st.pos + 1 <= Len(L), NEW r, r = L[st.pos + 1]
    PROVE  /\ r = Rt!Alien => Exact(L, [st EXCEPT !.pos = st.pos + 1], W)
           /\ r \in Rt!Records /\ st.seen[r.id] # Unset =>
                Exact(L, [st EXCEPT !.pos = st.pos + 1], W)
           /\ r \in Rt!Records /\ st.seen[r.id] = Unset /\ r.key \in st.asked =>
                Exact(L, [st EXCEPT !.pos = st.pos + 1, !.seen = [st.seen EXCEPT ![r.id] = r]], W)
           /\ r \in Rt!Records /\ st.seen[r.id] = Unset /\ r.key \notin st.asked =>
                Exact(L, [pos |-> st.pos + 1, seen |-> [st.seen EXCEPT ![r.id] = r],
                          asked |-> st.asked \union {r.key}], W \union {st.pos + 1})
<1>. DEFINE n == st.pos
            h == st.pos + 1
<1>0. n \in Nat /\ st \in Saved /\ h \in 1..Len(L) /\ h \notin 1..n /\ 1..h = (1..n) \union {h} /\ h - 1 = n
  BY DEF Upheld, Saved
<1>a. st.seen \in [Ids -> Rt!Records \union {Unset}] /\ st.asked \in SUBSET Rt!Keys /\ n = st.pos
  BY <1>0 DEF Saved
<1>1. Counted(L, h) = Counted(L, n) \union {i \in {h} : Counts(L, i)}
  BY <1>0 DEF Counted
<1>2. FirstCopy(L, h) <=> \A j \in 1..n : L[j].id # L[h].id
  BY <1>0 DEF FirstCopy
<1>3. Counts(L, h) <=>
        /\ L[h] # Rt!Alien /\ FirstCopy(L, h)
        /\ \A j \in 1..n : L[j] # Rt!Alien /\ FirstCopy(L, j) => L[j].key # L[h].key
  BY <1>0 DEF Counts
<1>4. W = Counted(L, n)
  BY DEF Exact
<1>5. \A i \in Ids : st.seen[i] = Unset <=> \A j \in 1..n : L[j].id # i
  BY DEF Exact
<1>6. \A i \in 1..n : L[i] # Rt!Alien /\ FirstCopy(L, i) => L[i].key \in st.asked
  BY DEF Exact
<1>. HIDE DEF n, h
<1>7. ASSUME r = Rt!Alien PROVE Exact(L, [st EXCEPT !.pos = h], W)
  <2>. DEFINE to == [st EXCEPT !.pos = h]
  <2>1. to.pos = h /\ to.seen = st.seen /\ to.asked = st.asked
    BY <1>0 DEF Saved
  <2>2. L[h] = Rt!Alien
    BY <1>7 DEF h
  <2>3. L[h].id \notin Ids
    BY <2>2, ProgramsAssumption DEF ProgramsAssumption, Rt!RealtimeAssumption, Rt!Alien
  <2>4. Counted(L, h) = W
    BY <1>1, <1>3, <1>4, <2>2
  <2>. HIDE DEF to
  <2>5. Exact(L, to, W)
    BY <2>1, <2>2, <2>3, <2>4, <1>0, <1>5, <1>6 DEF Exact
  <2> QED
    BY <2>5 DEF to
<1>8. ASSUME r \in Rt!Records PROVE L[h] = r /\ r # Unset /\ r # Rt!Alien /\ r.id \in Ids /\ r.key \in Rt!Keys
  BY <1>8, RecordShape DEF h
<1>9. ASSUME r \in Rt!Records, st.seen[r.id] # Unset PROVE Exact(L, [st EXCEPT !.pos = h], W)
  <2>. DEFINE to == [st EXCEPT !.pos = h]
  <2>1. to.pos = h /\ to.seen = st.seen /\ to.asked = st.asked
    BY <1>0 DEF Saved
  <2>2. ~ FirstCopy(L, h)
    BY <1>2, <1>5, <1>8, <1>9
  <2>3. Counted(L, h) = W
    BY <1>1, <1>3, <1>4, <2>2
  <2>4. \A i \in Ids : st.seen[i] = Unset <=> \A j \in 1..h : L[j].id # i
    BY <1>0, <1>5, <1>8, <1>9
  <2>5. \A i \in 1..h : L[i] # Rt!Alien /\ FirstCopy(L, i) => L[i].key \in st.asked
    BY <1>0, <1>6, <2>2
  <2>. HIDE DEF to
  <2>6. Exact(L, to, W)
    BY <2>1, <2>3, <2>4, <2>5 DEF Exact
  <2> QED
    BY <2>6 DEF to
<1>10. ASSUME r \in Rt!Records, st.seen[r.id] = Unset, r.key \in st.asked
       PROVE  Exact(L, [st EXCEPT !.pos = h, !.seen = [st.seen EXCEPT ![r.id] = r]], W)
  <2>. DEFINE seen == [st.seen EXCEPT ![r.id] = r]
              to == [st EXCEPT !.pos = h, !.seen = seen]
  <2>1. to.pos = h /\ to.seen = seen /\ to.asked = st.asked
    BY <1>0 DEF Saved
  <2>2. PICK w \in W : L[w].key = r.key
    BY <1>10 DEF Upheld, Backed
  <2>3. w \in 1..n /\ Counts(L, w)
    BY <1>4, <2>2 DEF Counted
  <2>4. ~ Counts(L, h)
    BY <1>3, <1>8, <1>10, <2>2, <2>3 DEF Counts
  <2>5. Counted(L, h) = W
    BY <1>1, <1>4, <2>4
  <2>6. \A i \in Ids : seen[i] = IF i = r.id THEN r ELSE st.seen[i]
    BY <1>a, <1>8, <1>10
  <2>7. \A i \in Ids : seen[i] = Unset <=> \A j \in 1..h : L[j].id # i
    BY <1>0, <1>5, <1>8, <1>10, <2>6
  <2>8. \A i \in 1..h : L[i] # Rt!Alien /\ FirstCopy(L, i) => L[i].key \in st.asked
    BY <1>0, <1>6, <1>8, <1>10
  <2>. HIDE DEF to, seen
  <2>9. Exact(L, to, W)
    BY <2>1, <2>5, <2>7, <2>8 DEF Exact
  <2> QED
    BY <2>9 DEF to, seen
<1>11. ASSUME r \in Rt!Records, st.seen[r.id] = Unset, r.key \notin st.asked
       PROVE  Exact(L, [pos |-> h, seen |-> [st.seen EXCEPT ![r.id] = r],
                        asked |-> st.asked \union {r.key}], W \union {h})
  <2>. DEFINE seen == [st.seen EXCEPT ![r.id] = r]
              to == [pos |-> h, seen |-> seen, asked |-> st.asked \union {r.key}]
  <2>1. to.pos = h /\ to.seen = seen /\ to.asked = st.asked \union {r.key}
    OBVIOUS
  <2>2. FirstCopy(L, h)
    BY <1>2, <1>5, <1>8, <1>11
  <2>3. Counts(L, h)
    BY <1>3, <1>6, <1>8, <1>11, <2>2
  <2>4. Counted(L, h) = W \union {h}
    BY <1>1, <1>4, <2>3
  <2>6. \A i \in Ids : seen[i] = IF i = r.id THEN r ELSE st.seen[i]
    BY <1>a, <1>8, <1>11
  <2>7. \A i \in Ids : seen[i] = Unset <=> \A j \in 1..h : L[j].id # i
    BY <1>0, <1>5, <1>8, <1>11, <2>6
  <2>8. \A i \in 1..h : L[i] # Rt!Alien /\ FirstCopy(L, i) => L[i].key \in st.asked \union {r.key}
    BY <1>0, <1>6, <1>8, <1>11
  <2>. HIDE DEF to, seen
  <2>9. Exact(L, to, W \union {h})
    BY <2>1, <2>4, <2>7, <2>8 DEF Exact
  <2> QED
    BY <2>9 DEF to, seen
<1> QED
  BY <1>7, <1>9, <1>10, <1>11 DEF h

-----------------------------------------------------------------------------
(* The steps.                                                                *)

LEMMA RealtimeStarts == ASSUME Rt!Init PROVE RealtimeInv
<1>1. Facts = {} /\ Written = {}
  BY DEF Rt!Init, Facts, Written
<1>2. Rt!Initially(0) \in Saved /\ Rt!Initially(0).pos = 0 /\ \A i \in Ids : Rt!Initially(0).seen[i] = Unset
  BY DEF Rt!Initially, Saved
<1>3. Rt!Initially(0).asked = {}
  BY DEF Rt!Initially
<1>4. records \in Seq(Topics) /\ Len(records) = 0 /\ state = Rt!Initially(0) /\ taken = Rt!Initially(0)
  BY DEF Rt!Init
<1>5. ASSUME NEW A PROVE Upheld(records, A, state, {})
  BY <1>2, <1>3, <1>4 DEF Upheld
<1>6. Exact(records, state, {})
  <2>1. 1..0 = {}
    OBVIOUS
  <2> QED
    BY <1>2, <1>4, <2>1 DEF Exact, Counted
<1>7. RealtimeTypes
  <2>1. facts = [k \in Rt!Keys |-> Unset] /\ pending = {} /\ stream = "runs" /\ forgot = FALSE
    BY DEF Rt!Init
  <2>2. side = [late |-> {}, quarantine |-> {}, duplicates |-> {}]
    BY DEF Rt!Init
  <2>3. taken.pos <= state.pos
    BY <1>2, <1>4
  <2> QED
    BY <1>4, <2>1, <2>2, <2>3 DEF RealtimeTypes
<1> QED
  BY <1>1, <1>4, <1>5, <1>6, <1>7 DEF RealtimeInv, Rt!Init

\* What the invariant says of the numbers.
LEMMA RealtimeShape ==
    ASSUME RealtimeInv
    PROVE  /\ state \in Saved /\ taken \in Saved /\ state.pos \in Nat /\ taken.pos \in Nat
           /\ taken.pos <= state.pos /\ state.pos <= Len(records) /\ Len(records) \in Nat
           /\ Written \subseteq 1..state.pos /\ Facts \subseteq 1..taken.pos
           /\ \A k \in Rt!Keys : facts[k] = Unset \/ facts[k] \in 1..taken.pos
<1>1. state \in Saved /\ taken \in Saved /\ state.pos <= Len(records) /\ taken.pos <= state.pos
  BY DEF RealtimeInv, RealtimeTypes, Upheld
<1>2. Written \subseteq 1..state.pos /\ Facts \subseteq 1..taken.pos
  BY DEF RealtimeInv, Upheld
<1>3. Len(records) \in Nat
  BY DEF RealtimeInv, RealtimeTypes
<1> QED
  BY <1>1, <1>2, <1>3 DEF Saved, Facts

LEMMA PublishRight == ASSUME RealtimeInv, Rt!Publish PROVE RealtimeInv'
<1>1. PICK r \in Topics : records' = Append(records, r)
  BY DEF Rt!Publish, Topics
<1>2. UNCHANGED <<stream, state, pending, taken, facts, side, forgot>>
  BY DEF Rt!Publish
<1>3. /\ records \in Seq(Topics) /\ records' \in Seq(Topics) /\ Len(records) <= Len(records')
      /\ \A i \in 1..Len(records) : records'[i] = records[i]
  BY <1>1 DEF RealtimeInv, RealtimeTypes
<1>4. ASSUME NEW A, NEW st, NEW W, Upheld(records, A, st, W)
      PROVE  Upheld(records', A, st, W) /\ (Exact(records, st, W) => Exact(records', st, W))
  BY <1>3, <1>4, UpheldPublished
<1>5. Facts' = Facts /\ Written' = Written /\ Rt!Accounted' = Rt!Accounted
  BY <1>2 DEF Facts, Written, Rt!Accounted
<1>6. \A k \in Rt!Keys : facts[k] # Unset => records'[facts[k]] = records[facts[k]]
  BY <1>3, RealtimeShape
<1>7. RealtimeTypes'
  BY <1>2, <1>3, <1>6 DEF RealtimeInv, RealtimeTypes
<1> QED
  BY <1>2, <1>4, <1>5, <1>7 DEF RealtimeInv

\* A record is read: what the job has grows, and the checkpoint's view does not change.
LEMMA ReadRight ==
    ASSUME RealtimeInv, Rt!Parsing,
           UNCHANGED <<records, stream, taken, facts, forgot>>,
           state' \in Saved, state'.pos = Rt!Here,
           pending' = pending \/ (pending' = pending \union {Rt!Here} /\ Rt!Read \in Rt!Records),
           side' = [late |-> side'.late, quarantine |-> side'.quarantine, duplicates |-> side'.duplicates],
           side.late \subseteq side'.late, side'.late \subseteq side.late \union {Rt!Here},
           side.quarantine \subseteq side'.quarantine,
           Rt!Here \in side'.late \union side'.quarantine
             \/ (Rt!Read # Rt!Alien /\ Backed(records, Rt!Read.key, Written')),
           \A i \in Ids : state'.seen[i] \in {state.seen[i], Unset} \/ Backed(records, state'.seen[i].key, Written'),
           \A k \in state'.asked : k \in state.asked \/ Backed(records, k, Written'),
           ~ forgot /\ side'.late = {} => Exact(records, state', Written')
    PROVE  RealtimeInv'
<1>0. Rt!Here = state.pos + 1 /\ Rt!Here <= Len(records) /\ stream = "runs" /\ Rt!Read = records[Rt!Here]
  BY DEF Rt!Parsing, Rt!Here, Rt!Read
<1>1. /\ state.pos \in Nat /\ taken.pos \in Nat /\ taken.pos <= state.pos
      /\ Written \subseteq 1..state.pos /\ Facts \subseteq 1..taken.pos
  BY RealtimeShape
<1>2. Facts' = Facts /\ Written \subseteq Written' /\ Written' \subseteq Written \union {Rt!Here}
  BY DEF Facts, Written
<1>3. Rt!Accounted \subseteq Rt!Accounted' /\ Rt!Accounted' = side'.late \union side'.quarantine
  BY DEF Rt!Accounted
<1>4. \A v \in Written' : records[v] \in Rt!Records
  <2>1. \A v \in Written : records[v] \in Rt!Records
    BY DEF RealtimeInv, Upheld
  <2>2. Written' = Written \/ (Written' = Written \union {Rt!Here} /\ records[Rt!Here] \in Rt!Records)
    BY <1>0, <1>2 DEF Written
  <2> QED
    BY <2>1, <2>2
<1>5. Upheld(records, Rt!Accounted', state', Written')
  <2>1. records \in Seq(Topics) /\ Upheld(records, Rt!Accounted, state, Written)
    BY DEF RealtimeInv, RealtimeTypes
  <2>2. Rt!Here \in Rt!Accounted'
          \/ (records[Rt!Here] # Rt!Alien /\ Backed(records, records[Rt!Here].key, Written'))
    BY <1>0, <1>3
  <2>3. state.pos + 1 <= Len(records) /\ state'.pos = state.pos + 1
    BY <1>0
  <2> QED
    BY <1>0, <1>2, <1>3, <1>4, <2>1, <2>2, <2>3, UpheldRead
<1>6. Upheld(records, Rt!Accounted', taken, Facts)
  <2>1. Upheld(records, Rt!Accounted, taken, Facts)
    BY DEF RealtimeInv
  <2> QED
    BY <1>3, <2>1, UpheldAccounted
<1>7. side'.late \cap 1..taken.pos = side.late \cap 1..taken.pos
  BY <1>0, <1>1
<1>8. RealtimeTypes'
  <2>1. taken.pos <= state'.pos /\ side'.late \subseteq 1..state'.pos
    BY <1>0, <1>1 DEF RealtimeInv, RealtimeTypes
  <2>2. \A i \in pending' : i > taken.pos
    BY <1>0, <1>1 DEF RealtimeInv, RealtimeTypes
  <2> QED
    BY <2>1, <2>2 DEF RealtimeInv, RealtimeTypes
<1> QED
  BY <1>0, <1>2, <1>5, <1>6, <1>7, <1>8 DEF RealtimeInv

\* The side topics after a record was diverted to one of them.
LEMMA DivertRight ==
    ASSUME RealtimeInv, NEW t \in {"late", "quarantine", "duplicates"}, Rt!Diverted(t)
    PROVE  /\ side' = [late |-> side'.late, quarantine |-> side'.quarantine, duplicates |-> side'.duplicates]
           /\ side.late \subseteq side'.late /\ side.quarantine \subseteq side'.quarantine
           /\ t = "late" => side'.late = side.late \union {Rt!Here}
           /\ t # "late" => side'.late = side.late
           /\ t = "quarantine" => Rt!Here \in side'.quarantine
<1>1. side = [late |-> side.late, quarantine |-> side.quarantine, duplicates |-> side.duplicates]
  BY DEF RealtimeInv, RealtimeTypes
<1>2. side' = [side EXCEPT ![t] = @ \union {Rt!Here}]
  BY DEF Rt!Diverted
<1>3. CASE t = "late"
  <2>1. side' = [late |-> side.late \union {Rt!Here}, quarantine |-> side.quarantine, duplicates |-> side.duplicates]
    BY <1>1, <1>2, <1>3
  <2> QED
    BY <1>3, <2>1
<1>4. CASE t = "quarantine"
  <2>1. side' = [late |-> side.late, quarantine |-> side.quarantine \union {Rt!Here}, duplicates |-> side.duplicates]
    BY <1>1, <1>2, <1>4
  <2> QED
    BY <1>4, <2>1
<1>5. CASE t = "duplicates"
  <2>1. side' = [late |-> side.late, quarantine |-> side.quarantine, duplicates |-> side.duplicates \union {Rt!Here}]
    BY <1>1, <1>2, <1>5
  <2> QED
    BY <1>5, <2>1
<1> QED
  BY <1>3, <1>4, <1>5

\* What ExactRead says, of the job.
LEMMA ExactHere ==
    ASSUME RealtimeInv, Rt!Parsing, ~ forgot, side.late = {}
    PROVE  Exact(records, state, Written)
  BY DEF RealtimeInv

LEMMA RejectRight == ASSUME RealtimeInv, Rt!Reject PROVE RealtimeInv'
<1>0. Rt!Parsing /\ Rt!Read = Rt!Alien /\ Rt!Diverted("quarantine") /\ state' = [state EXCEPT !.pos = Rt!Here]
      /\ UNCHANGED <<records, stream, taken, facts, forgot, pending>>
  BY DEF Rt!Reject
<1>1. state \in Saved /\ state.pos \in Nat /\ Rt!Here = state.pos + 1 /\ Rt!Here <= Len(records)
      /\ Rt!Read = records[state.pos + 1]
  BY <1>0, RealtimeShape DEF Rt!Parsing, Rt!Here, Rt!Read
<1>2. state' \in Saved /\ state'.pos = Rt!Here /\ state'.seen = state.seen /\ state'.asked = state.asked
  BY <1>0, <1>1 DEF Saved
<1>3. Written' = Written
  BY <1>0 DEF Written, Facts
<1>4. ASSUME ~ forgot, side'.late = {} PROVE Exact(records, state', Written')
  <2>1. Exact(records, state, Written) /\ Upheld(records, Rt!Accounted, state, Written) /\ records \in Seq(Topics)
    BY <1>0, <1>4, DivertRight DEF RealtimeInv, RealtimeTypes
  <2>2. Exact(records, [state EXCEPT !.pos = state.pos + 1], Written)
    BY <1>0, <1>1, <2>1, ExactRead
  <2> QED
    BY <1>0, <1>1, <1>3, <2>2
<1>5. /\ side' = [late |-> side'.late, quarantine |-> side'.quarantine, duplicates |-> side'.duplicates]
      /\ side'.late = side.late /\ side.quarantine \subseteq side'.quarantine /\ Rt!Here \in side'.quarantine
  BY <1>0, DivertRight
<1> QED
  BY <1>0, <1>2, <1>4, <1>5, ReadRight

LEMMA ProcessRight == ASSUME RealtimeInv, Rt!Process PROVE RealtimeInv'
<1>. DEFINE r == Rt!Read
<1>0. Rt!Parsing /\ UNCHANGED <<records, stream, taken, facts, forgot>>
  BY DEF Rt!Process
<1>1. state \in Saved /\ state.pos \in Nat /\ Rt!Here = state.pos + 1 /\ Rt!Here <= Len(records)
      /\ Rt!Read = records[state.pos + 1] /\ Len(records) \in Nat
  BY <1>0, RealtimeShape DEF Rt!Parsing, Rt!Here, Rt!Read
<1>2. records \in Seq(Topics) /\ Upheld(records, Rt!Accounted, state, Written)
  BY DEF RealtimeInv, RealtimeTypes
<1>3. r \in Rt!Records
  <2>1. r \in Topics
    BY <1>1, <1>2
  <2>2. r # Rt!Alien
    BY DEF Rt!Process
  <2> QED
    BY <2>1, <2>2 DEF Topics
<1>4. r # Unset /\ r # Rt!Alien /\ r.id \in Ids /\ r.key \in Rt!Keys
  BY <1>3, RecordShape
<1>5. state.seen \in [Ids -> Rt!Records \union {Unset}] /\ state.asked \in SUBSET Rt!Keys
  BY <1>1 DEF Saved
<1>6. ASSUME ~ forgot, side.late = {} PROVE Exact(records, state, Written)
  BY <1>6 DEF RealtimeInv
<1>7. \A i \in Ids : state.seen[i] # Unset => Backed(records, state.seen[i].key, Written)
  BY <1>2 DEF Upheld
<1>8. \A k \in state.asked : Backed(records, k, Written)
  BY <1>2 DEF Upheld
<1>. HIDE DEF r
<1>9. CASE state.seen[r.id] # Unset /\ Rt!Diverted(IF Rt!Known = Rt!Read THEN "duplicates" ELSE "quarantine")
           /\ state' = [state EXCEPT !.pos = Rt!Here] /\ UNCHANGED pending
  <2>1. state' \in Saved /\ state'.pos = Rt!Here /\ state'.seen = state.seen /\ state'.asked = state.asked
    BY <1>1, <1>9 DEF Saved
  <2>2. Written' = Written
    BY <1>0, <1>9 DEF Written, Facts
  <2>3. /\ side' = [late |-> side'.late, quarantine |-> side'.quarantine, duplicates |-> side'.duplicates]
        /\ side'.late = side.late /\ side.quarantine \subseteq side'.quarantine
        /\ Rt!Known # Rt!Read => Rt!Here \in side'.quarantine
    BY <1>9, DivertRight
  <2>4. Rt!Known = Rt!Read => Backed(records, r.key, Written)
    BY <1>4, <1>7 DEF Rt!Known, r
  <2>5. ASSUME ~ forgot, side'.late = {} PROVE Exact(records, state', Written')
    <3>1. Exact(records, [state EXCEPT !.pos = state.pos + 1], Written)
      BY <1>1, <1>2, <1>3, <1>6, <1>9, <2>3, <2>5, ExactRead DEF r
    <3> QED
      BY <1>1, <1>9, <2>2, <3>1
  <2> QED
    BY <1>0, <1>4, <1>9, <2>1, <2>2, <2>3, <2>4, <2>5, ReadRight DEF r
<1>10. CASE Rt!Diverted("late") /\ state' = [state EXCEPT !.pos = Rt!Here, !.seen = Rt!SeenAfterLate] /\ UNCHANGED pending
  <2>0. state' = [state EXCEPT !.pos = Rt!Here, !.seen = state.seen]
    BY <1>10 DEF Rt!SeenAfterLate
  <2>a. state' = [pos |-> Rt!Here, seen |-> state.seen, asked |-> state.asked]
    BY <1>1, <2>0 DEF Saved
  <2>1. state' \in Saved /\ state'.pos = Rt!Here /\ state'.seen = state.seen /\ state'.asked = state.asked
    BY <1>1, <1>5, <2>a DEF Saved
  <2>2. Written' = Written
    BY <1>0, <1>10 DEF Written, Facts
  <2>3. /\ side' = [late |-> side'.late, quarantine |-> side'.quarantine, duplicates |-> side'.duplicates]
        /\ side'.late = side.late \union {Rt!Here} /\ side.quarantine \subseteq side'.quarantine
    BY <1>10, DivertRight
  <2> QED
    BY <1>0, <1>10, <2>1, <2>2, <2>3, ReadRight
<1>11. CASE state.seen[r.id] = Unset /\ r.key \in state.asked /\ Rt!Diverted("duplicates")
            /\ state' = [state EXCEPT !.pos = Rt!Here, !.seen = Rt!Remembered] /\ UNCHANGED pending
  <2>0. state' = [state EXCEPT !.pos = Rt!Here, !.seen = [state.seen EXCEPT ![r.id] = r]]
    BY <1>11 DEF Rt!Remembered, r
  <2>1. /\ state' \in Saved /\ state'.pos = Rt!Here /\ state'.asked = state.asked
        /\ state'.seen = [state.seen EXCEPT ![r.id] = r]
    <3>1. [state.seen EXCEPT ![r.id] = r] \in [Ids -> Rt!Records \union {Unset}]
      BY <1>3, <1>5
    <3>2. state' = [pos |-> Rt!Here, seen |-> [state.seen EXCEPT ![r.id] = r], asked |-> state.asked]
      BY <1>1, <2>0 DEF Saved
    <3> QED
      BY <1>1, <1>5, <3>1, <3>2 DEF Saved
  <2>2. Written' = Written
    BY <1>0, <1>11 DEF Written, Facts
  <2>3. /\ side' = [late |-> side'.late, quarantine |-> side'.quarantine, duplicates |-> side'.duplicates]
        /\ side'.late = side.late /\ side.quarantine \subseteq side'.quarantine
    BY <1>11, DivertRight
  <2>4. Backed(records, r.key, Written)
    BY <1>8, <1>11
  <2>5. ASSUME ~ forgot, side'.late = {} PROVE Exact(records, state', Written')
    <3>1. Exact(records, [state EXCEPT !.pos = state.pos + 1, !.seen = [state.seen EXCEPT ![r.id] = r]], Written)
      BY <1>1, <1>2, <1>3, <1>6, <1>11, <2>3, <2>5, ExactRead DEF r
    <3> QED
      BY <1>1, <2>0, <2>2, <3>1
  <2>6. \A i \in Ids : state'.seen[i] = state.seen[i] \/ state'.seen[i] = r
    BY <1>5, <2>1
  <2> QED
    BY <1>0, <1>4, <1>11, <2>1, <2>2, <2>3, <2>4, <2>5, <2>6, ReadRight DEF r
<1>12. CASE state.seen[r.id] = Unset /\ r.key \notin state.asked /\ pending' = pending \union {Rt!Here}
            /\ state' = [pos |-> Rt!Here, seen |-> Rt!Remembered, asked |-> state.asked \union {Rt!Read.key}]
            /\ UNCHANGED side
  <2>0. state' = [pos |-> Rt!Here, seen |-> [state.seen EXCEPT ![r.id] = r], asked |-> state.asked \union {r.key}]
    BY <1>12 DEF Rt!Remembered, r
  <2>1. /\ state' \in Saved /\ state'.pos = Rt!Here /\ state'.asked = state.asked \union {r.key}
        /\ state'.seen = [state.seen EXCEPT ![r.id] = r]
    <3>1. [state.seen EXCEPT ![r.id] = r] \in [Ids -> Rt!Records \union {Unset}]
      BY <1>3, <1>5
    <3> QED
      BY <1>1, <1>4, <1>5, <2>0, <3>1 DEF Saved
  <2>2. Written' = Written \union {Rt!Here}
    BY <1>0, <1>12 DEF Written, Facts
  <2>3. side = [late |-> side.late, quarantine |-> side.quarantine, duplicates |-> side.duplicates]
    BY DEF RealtimeInv, RealtimeTypes
  <2>4. Backed(records, r.key, Written')
    BY <1>1, <2>2 DEF Backed, r
  <2>5. ASSUME ~ forgot, side'.late = {} PROVE Exact(records, state', Written')
    <3>1. Exact(records, [pos |-> state.pos + 1, seen |-> [state.seen EXCEPT ![r.id] = r],
                          asked |-> state.asked \union {r.key}], Written \union {state.pos + 1})
      BY <1>1, <1>2, <1>3, <1>6, <1>12, <2>5, ExactRead DEF r
    <3> QED
      BY <1>1, <2>0, <2>2, <3>1
  <2>6. \A i \in Ids : state'.seen[i] = state.seen[i] \/ state'.seen[i] = r
    BY <1>5, <2>1
  <2>7. \A k \in state'.asked : k \in state.asked \/ k = r.key
    BY <2>1
  <2> QED
    BY <1>0, <1>3, <1>4, <1>12, <2>1, <2>3, <2>4, <2>5, <2>6, <2>7, ReadRight DEF r
<1> QED
  BY <1>9, <1>10, <1>11, <1>12 DEF Rt!Process, Rt!Known, r

\* Back to the last checkpoint.
LEMMA FallenRight ==
    ASSUME RealtimeInv, Rt!Fallen, UNCHANGED <<records, taken, facts, forgot>>, stream' \in {"runs", "failed"}
    PROVE  RealtimeInv'
<1>0. state' = taken /\ pending' = {} /\ side' = [t \in DOMAIN side |-> side[t] \cap 1..taken.pos]
  BY DEF Rt!Fallen
<1>1. side = [late |-> side.late, quarantine |-> side.quarantine, duplicates |-> side.duplicates]
  BY DEF RealtimeInv, RealtimeTypes
<1>2. side' = [late |-> side.late \cap 1..taken.pos, quarantine |-> side.quarantine \cap 1..taken.pos,
               duplicates |-> side.duplicates \cap 1..taken.pos]
  BY <1>0, <1>1
<1>3. Facts' = Facts /\ Written' = Facts
  BY <1>0 DEF Facts, Written
<1>4. Rt!Accounted \cap 1..taken.pos \subseteq Rt!Accounted'
  BY <1>2 DEF Rt!Accounted
<1>5. Upheld(records, Rt!Accounted', taken, Facts)
  <2>1. Upheld(records, Rt!Accounted, taken, Facts)
    BY DEF RealtimeInv
  <2> QED
    BY <1>4, <2>1, UpheldAccounted
<1>6. side'.late = side.late \cap 1..taken.pos /\ side'.late \cap 1..taken.pos = side.late \cap 1..taken.pos
  BY <1>2
<1>7. RealtimeTypes'
  <2>1. taken.pos \in Nat
    BY RealtimeShape
  <2>2. side' = [late |-> side'.late, quarantine |-> side'.quarantine, duplicates |-> side'.duplicates]
    BY <1>2
  <2> QED
    BY <1>0, <1>6, <2>1, <2>2 DEF RealtimeInv, RealtimeTypes
<1> QED
  BY <1>0, <1>3, <1>5, <1>6, <1>7 DEF RealtimeInv

LEMMA SmallerPair ==
    ASSUME NEW x \in Nat, NEW y \in Nat, x < y
    PROVE  <<x, y>> \in OpToRel(<, Nat)
  BY Zenon DEF OpToRel

LEMMA SmallestIs ==
    ASSUME NEW S, S \subseteq Nat, S # {}
    PROVE  LET m == CHOOSE i \in S : \A j \in S : i <= j IN m \in S /\ \A j \in S : m <= j
<1>1. PICK x \in S : \A y \in S : ~ (<<y, x>> \in OpToRel(<, Nat))
  BY WFMin, NatLessThanWellFounded
<1>2. \A y \in S : ~ (y < x)
  BY <1>1, SmallerPair, Zenon
<1>3. \A y \in S : x <= y
  BY <1>2
<1> QED
  BY <1>3

LEMMA CheckpointRight == ASSUME RealtimeInv, Rt!Checkpoint PROVE RealtimeInv'
<1>0. /\ stream = "runs" /\ taken' = state /\ facts' = Rt!Upserted /\ pending' = {}
      /\ UNCHANGED <<records, stream, state, side, forgot>>
  BY DEF Rt!Checkpoint
<1>1. /\ state \in Saved /\ state.pos \in Nat /\ Written \subseteq 1..state.pos
      /\ records \in Seq(Topics) /\ Upheld(records, Rt!Accounted, state, Written)
  BY RealtimeShape DEF RealtimeInv, RealtimeTypes
<1>a. Written \subseteq Nat
  BY <1>1
<1>2. ASSUME NEW k \in Rt!Keys
      PROVE  /\ Rt!Rows(k) = {w \in Written : records[w].key = k}
             /\ Rt!Rows(k) = {} => facts'[k] = Unset
             /\ Rt!Rows(k) # {} => facts'[k] \in Rt!Rows(k) /\ \A j \in Rt!Rows(k) : facts'[k] <= j
             /\ facts'[k] \in Nat \union {Unset}
  <2>1. \A c \in Rt!Keys : facts[c] # Unset => records[facts[c]].key = c
    BY DEF RealtimeInv, RealtimeTypes
  <2>2. Rt!Rows(k) = {w \in Written : records[w].key = k}
    <3>1. Rt!Rows(k) \subseteq {w \in Written : records[w].key = k}
      BY <2>1 DEF Rt!Rows, Written, Facts
    <3>2. ASSUME NEW w \in Written, records[w].key = k PROVE w \in Rt!Rows(k)
      <4>1. CASE w \in pending
        BY <3>2, <4>1 DEF Rt!Rows
      <4>2. CASE w \notin pending
        <5>1. PICK c \in Rt!Keys : w = facts[c] /\ w # Unset
          BY <3>2, <4>2 DEF Written, Facts
        <5>2. c = k
          BY <2>1, <3>2, <5>1
        <5> QED
          BY <5>1, <5>2 DEF Rt!Rows
      <4> QED
        BY <4>1, <4>2
    <3> QED
      BY <3>1, <3>2
  <2>3. Rt!Rows(k) \subseteq Nat
    BY <1>a, <2>2
  <2>4. facts'[k] = IF Rt!Rows(k) = {} THEN Unset ELSE CHOOSE i \in Rt!Rows(k) : \A j \in Rt!Rows(k) : i <= j
    BY <1>0 DEF Rt!Upserted
  <2>5. CASE Rt!Rows(k) = {}
    BY <2>2, <2>4, <2>5
  <2>6. CASE Rt!Rows(k) # {}
    BY <2>2, <2>3, <2>4, <2>6, SmallestIs
  <2> QED
    BY <2>5, <2>6
<1>3. facts' \in [Rt!Keys -> Nat \union {Unset}]
  <2>1. facts' = [k \in Rt!Keys |-> facts'[k]]
    BY <1>0 DEF Rt!Upserted
  <2>2. \A k \in Rt!Keys : facts'[k] \in Nat \union {Unset}
    BY <1>1, <1>2
  <2> QED
    BY <2>1, <2>2
<1>4. \A k \in Rt!Keys : facts'[k] # Unset => records[facts'[k]].key = k
  BY <1>2
<1>5. Facts' \subseteq Written
  BY <1>2 DEF Facts
<1>6. \A w \in Written : \E t \in Facts' : t <= w /\ records[t].key = records[w].key
  <2>1. SUFFICES ASSUME NEW w \in Written PROVE \E t \in Facts' : t <= w /\ records[t].key = records[w].key
    OBVIOUS
  <2>2. records[w] \in Rt!Records
    BY <1>1 DEF Upheld
  <2>. DEFINE k == records[w].key
  <2>3. k \in Rt!Keys
    BY <2>2, RecordShape
  <2>4. w \in Rt!Rows(k)
    BY <1>2, <2>3
  <2>5. facts'[k] \in Written /\ records[facts'[k]].key = k /\ facts'[k] <= w
    BY <1>2, <2>3, <2>4
  <2>6. facts'[k] # Unset
    BY <1>a, <2>5, ProgramsAssumption DEF ProgramsAssumption, Rt!RealtimeAssumption
  <2>. HIDE DEF k
  <2>7. facts'[k] \in Facts'
    BY <2>3, <2>6 DEF Facts
  <2>8. \E t \in Facts' : t <= w /\ records[t].key = k
    BY <2>5, <2>7
  <2> QED
    BY <2>8 DEF k
<1>7. Upheld(records, Rt!Accounted, state, Facts') /\ (Exact(records, state, Written) => Exact(records, state, Facts'))
  BY <1>1, <1>5, <1>6, UpheldMerged
<1>8. Written' = Facts' /\ Rt!Accounted' = Rt!Accounted
  BY <1>0 DEF Written, Facts, Rt!Accounted
<1>9. side.late \subseteq 1..state.pos
  BY DEF RealtimeInv, RealtimeTypes
<1>10. ASSUME ~ forgot, side.late = {} PROVE Exact(records, state, Facts')
  BY <1>7, <1>10 DEF RealtimeInv
<1>11. RealtimeTypes'
  BY <1>0, <1>1, <1>3, <1>4 DEF RealtimeInv, RealtimeTypes
<1>12. side.late \cap 1..state.pos = side.late
  BY <1>9
<1>13. Upheld(records, Rt!Accounted, state, Facts)' /\ Upheld(records, Rt!Accounted, taken, Facts)'
  BY <1>0, <1>7, <1>8
<1>14. (~ forgot /\ side.late = {} => Exact(records, state, Facts))'
  BY <1>0, <1>10
<1> QED
  BY <1>0, <1>8, <1>10, <1>11, <1>12, <1>13, <1>14 DEF RealtimeInv

\* From the checkpoint, or from its position alone.
LEMMA ResumeRight == ASSUME RealtimeInv, Rt!Restart \/ Rt!Resubmit PROVE RealtimeInv'
<1>0. /\ stream = "failed" /\ stream' = "runs" /\ taken' = state' /\ pending = {} /\ state = taken
      /\ UNCHANGED <<records, pending, facts, side>>
  BY DEF RealtimeInv, Rt!Restart, Rt!Resubmit, Rt!Resumed
<1>1. Written = Facts /\ Written' = Facts /\ Facts' = Facts /\ Rt!Accounted' = Rt!Accounted
  BY <1>0 DEF Written, Facts, Rt!Accounted
<1>2. taken \in Saved /\ Upheld(records, Rt!Accounted, taken, Facts)
  BY RealtimeShape DEF RealtimeInv
<1>3. CASE Rt!Restart
  <2>1. state' = taken /\ forgot' = forgot
    BY <1>3 DEF Rt!Restart, Rt!Resumed
  <2>2. RealtimeTypes'
    BY <1>0, <2>1 DEF RealtimeInv, RealtimeTypes
  <2> QED
    BY <1>0, <1>1, <1>2, <2>1, <2>2 DEF RealtimeInv
<1>4. CASE Rt!Resubmit
  <2>0. state' = Rt!Initially(taken.pos) /\ forgot' = TRUE
    BY <1>4 DEF Rt!Resubmit, Rt!Resumed
  <2>1. state' \in Saved /\ state'.pos = taken.pos /\ state'.asked = {} /\ \A i \in Ids : state'.seen[i] = Unset
    BY <1>2, <2>0 DEF Rt!Initially, Saved
  <2>2. Upheld(records, Rt!Accounted, state', Facts)
    BY <1>2, <2>1, UpheldLapsed
  <2>3. RealtimeTypes'
    BY <1>0, <2>0, <2>1 DEF RealtimeInv, RealtimeTypes, Saved
  <2> QED
    BY <1>0, <1>1, <2>0, <2>2, <2>3 DEF RealtimeInv
<1> QED
  BY <1>3, <1>4

LEMMA LapseRight == ASSUME RealtimeInv, Rt!Lapse PROVE RealtimeInv'
<1>0. /\ stream = "runs" /\ forgot' = TRUE /\ UNCHANGED <<records, stream, pending, taken, facts, side>>
  BY DEF Rt!Lapse
<1>1. state \in Saved /\ Upheld(records, Rt!Accounted, state, Written)
  BY RealtimeShape DEF RealtimeInv
<1>2. Written' = Written /\ Facts' = Facts /\ Rt!Accounted' = Rt!Accounted
  BY <1>0 DEF Written, Facts, Rt!Accounted
<1>3. /\ state' \in Saved /\ state'.pos = state.pos /\ state'.asked \subseteq state.asked
      /\ \A i \in Ids : state'.seen[i] \in {state.seen[i], Unset}
  <2>1. CASE \E i \in Ids : state.seen[i] # Unset /\ state' = [state EXCEPT !.seen[i] = Unset]
    BY <1>1, <2>1 DEF Saved
  <2>2. CASE \E k \in state.asked : state' = [state EXCEPT !.asked = @ \ {k}]
    BY <1>1, <2>2 DEF Saved
  <2> QED
    BY <2>1, <2>2 DEF Rt!Lapse
<1>4. Upheld(records, Rt!Accounted, state', Written)
  BY <1>1, <1>3, UpheldLapsed
<1>5. RealtimeTypes'
  BY <1>0, <1>3 DEF RealtimeInv, RealtimeTypes
<1> QED
  BY <1>0, <1>2, <1>4, <1>5 DEF RealtimeInv

LEMMA RealtimeStep == ASSUME RealtimeInv, [Rt!Next]_(Rt!vars) PROVE RealtimeInv'
<1>1. CASE UNCHANGED Rt!vars
  BY <1>1 DEF Rt!vars, RealtimeInv, RealtimeTypes, Written, Facts, Rt!Accounted
<1>2. CASE Rt!Publish
  BY <1>2, PublishRight
<1>3. CASE Rt!Reject
  BY <1>3, RejectRight
<1>4. CASE Rt!Refuse \/ Rt!Crash
  BY <1>4, FallenRight DEF Rt!Refuse, Rt!Crash
<1>5. CASE Rt!Process
  BY <1>5, ProcessRight
<1>6. CASE Rt!Checkpoint
  BY <1>6, CheckpointRight
<1>7. CASE Rt!Restart \/ Rt!Resubmit
  BY <1>7, ResumeRight
<1>8. CASE Rt!Lapse
  BY <1>8, LapseRight
<1> QED
  BY <1>1, <1>2, <1>3, <1>4, <1>5, <1>6, <1>7, <1>8 DEF Rt!Next

\* What the invariant is for.
LEMMA RealtimeImplies == ASSUME RealtimeInv PROVE RealtimeSound
<1>0. /\ taken.pos \in Nat /\ Facts \subseteq 1..taken.pos
      /\ \A k \in Rt!Keys : facts[k] = Unset \/ facts[k] \in 1..taken.pos
      /\ \A k \in Rt!Keys : facts[k] # Unset => records[facts[k]].key = k
  BY RealtimeShape DEF RealtimeInv, RealtimeTypes
<1>1. /\ \A i \in 1..taken.pos : Held(records, Rt!Accounted, i, Facts)
      /\ \A w \in Facts : records[w] \in Rt!Records
  BY DEF RealtimeInv, Upheld
<1>2. ASSUME NEW i \in 1..taken.pos
      PROVE  \/ i \in Rt!Accounted
             \/ records[i] # Rt!Alien /\ facts[records[i].key] # Unset /\ facts[records[i].key] <= i
  <2>1. CASE i \in Rt!Accounted
    BY <2>1
  <2>2. CASE i \notin Rt!Accounted
    <3>1. records[i] # Rt!Alien
      BY <1>1, <2>2 DEF Held
    <3>2. PICK w \in Facts : w <= i /\ records[w].key = records[i].key
      BY <1>1, <2>2 DEF Held
    <3>3. PICK k \in Rt!Keys : facts[k] = w /\ w # Unset
      BY DEF Facts
    <3>4. k = records[i].key
      BY <1>0, <3>2, <3>3
    <3> QED
      BY <3>1, <3>2, <3>3, <3>4
  <2> QED
    BY <2>1, <2>2
<1>3. Rt!NothingDropped
  BY <1>2 DEF Rt!NothingDropped
<1>4. Rt!FirstWins
  <2>1. SUFFICES ASSUME NEW i \in 1..taken.pos, records[i] # Rt!Alien, facts[records[i].key] # Unset,
                        i < facts[records[i].key], i \notin Rt!Accounted
                 PROVE  FALSE
    BY DEF Rt!FirstWins
  <2>2. facts[records[i].key] <= i
    BY <1>2, <2>1
  <2>3. records[i] \in Rt!Records
    <3>1. records \in Seq(Topics) /\ taken.pos <= Len(records) /\ Len(records) \in Nat
      BY RealtimeShape DEF RealtimeInv, RealtimeTypes
    <3>2. records[i] \in Topics
      BY <1>0, <3>1
    <3> QED
      BY <2>1, <3>2 DEF Topics
  <2>4. records[i].key \in Rt!Keys
    BY <2>3, RecordShape
  <2>5. facts[records[i].key] \in Nat
    BY <1>0, <2>1, <2>4
  <2> QED
    BY <2>1, <2>2, <2>5
<1>5. Rt!AgreesWithOffline
  <2>1. SUFFICES ASSUME ~ forgot, side.late = {} PROVE Facts = Rt!Deduplicated(taken.pos)
    BY DEF Rt!AgreesWithOffline, Facts
  <2>2. Facts = Counted(records, taken.pos)
    BY <2>1 DEF RealtimeInv, Exact
  <2>3. Counted(records, taken.pos) = Rt!Deduplicated(taken.pos)
    <3>. DEFINE n == taken.pos
                Copies(i) == {j \in 1..i-1 : records[j].id = records[i].id}
                Events == {i \in 1..n : records[i] # Rt!Alien /\ Copies(i) = {}}
                Earlier(i) == {j \in Events : j < i /\ records[j].key = records[i].key}
    <3>1. \A i \in 1..n : Copies(i) = {} <=> FirstCopy(records, i)
      BY <1>0 DEF FirstCopy
    <3>2. ASSUME NEW i \in 1..n
          PROVE  (i \in Events /\ Earlier(i) = {}) <=> Counts(records, i)
      <4>1. \A j : j \in 1..(i - 1) <=> j \in 1..n /\ j < i
        BY <1>0
      <4>2. i \in Events <=> records[i] # Rt!Alien /\ FirstCopy(records, i)
        BY <3>1
      <4>3. Earlier(i) = {} <=> \A j \in 1..(i - 1) : records[j] # Rt!Alien /\ FirstCopy(records, j)
                                                         => records[j].key # records[i].key
        BY <3>1, <4>1
      <4> QED
        BY <4>2, <4>3 DEF Counts
    <3>3. Rt!Deduplicated(n) = {i \in Events : Earlier(i) = {}}
      BY DEF Rt!Deduplicated
    <3>4. {i \in Events : Earlier(i) = {}} = Counted(records, n)
      BY <3>2 DEF Counted
    <3> QED
      BY <3>3, <3>4
  <2> QED
    BY <2>2, <2>3
<1> QED
  BY <1>3, <1>4, <1>5 DEF RealtimeSound, Rt!RealtimeSound

\* RealtimeSound, for the streaming job: nothing that was accepted gets lost between the
\* topic and the table, the first record of a key is the one that counts, and without
\* lateness or loss of state the table is the offline model's.
THEOREM NothingGetsLost == Rt!Spec => []RealtimeSound
<1>1. Rt!Init => RealtimeInv
  BY RealtimeStarts
<1>2. RealtimeInv /\ [Rt!Next]_(Rt!vars) => RealtimeInv'
  BY RealtimeStep
<1>3. RealtimeInv => RealtimeSound
  BY RealtimeImplies
<1> QED
  BY <1>1, <1>2, <1>3, PTL DEF Rt!Spec

-----------------------------------------------------------------------------
(* The registration in Hive.                                                 *)

Intents == [Hi!Tables -> {"reserved", "verified", Unset}]
Requested == {"cleanup", "register", "verify"}
Phases == {"cleanup", "reserve", "backend", "register", "planned", "verify", "verified"}
Items == [table : Hi!Tables, expired : BOOLEAN]
Drivers ==
    [id : 1..MaxDrivers, action : Requested, tables : SUBSET Hi!Tables, known : SUBSET Hi!Tables,
     verified : SUBSET Hi!Tables, at : Nat, scope : Intents \X (SUBSET Hi!Tables) \X Nat,
     pc : {"inspect", "next", "act", "done"}, item : Items \union {Unset},
     seen : SUBSET Hi!Tables, done : SUBSET Hi!Tables]
Operations == {"register", "verify", "cleanup"}
Sessions == [op : Operations, r : Hi!Releases, todo : Seq(Phases), wait : 0..MaxDrivers, until : Int]

HiveTypes ==
    /\ hour \in Nat /\ intent \in Intents /\ backend \subseteq Hi!Tables /\ other \in Nat
    /\ IsFiniteSet(drivers) /\ drivers \subseteq Drivers
    /\ purged \in Nat \union {Unset} /\ acknowledged \subseteq Hi!Releases

\* What the steps of a registration have achieved when it stands before the i-th.
Delivered(r) == \A t \in Hi!Of(r) : t \in catalog \/ Hi!ExpiredAt(t, hour)
Confirmed(r) == \A t \in Hi!Of(r) : intent[t] = "verified"
Progress(o, r, i) ==
    o = "register" =>
        /\ i > 2 => Hi!Of(r) \subseteq Hi!Intended
        /\ i > 3 => Hi!Of(r) \subseteq backend
        /\ i > 5 => Delivered(r)
        /\ i > 6 => Confirmed(r)
From(o, i) == SubSeq(Hi!Program(o), i, Len(Hi!Program(o)))
Before(o, r, i) ==
    /\ Progress(o, r, i)
    /\ \A d \in drivers : d.id = session.wait => Hi!Program(o)[i] = d.action
SessionSound ==
    session # Hi!Idle =>
        /\ session \in Sessions
        /\ \E i \in 1..Len(Hi!Program(session.op)) :
              session.todo = From(session.op, i) /\ Before(session.op, session.r, i)

\* A driver, whether somebody waits for it or not: what it acts on was looked at after the
\* request was made, and what it has read is there.
DriverSound(d) ==
    /\ d.at <= hour
    /\ d.action = "register" =>
          /\ d.tables \subseteq Hi!Intended \intersect backend
          /\ \A t \in d.done : t \in catalog \/ Hi!ExpiredAt(t, hour)
    /\ d.done \subseteq d.tables
    /\ d.pc = "inspect" => d.done = {}
    /\ d.pc = "done" => d.done = d.tables
    /\ d.pc = "act" =>
          /\ d.item \in Items /\ d.item.table \in d.tables /\ d.item.table \notin d.done
          /\ d.item.expired => Hi!ExpiredAt(d.item.table, hour)
          /\ d.action = "cleanup" /\ Hi!ExpiredAt(d.item.table, d.at) => d.item.expired
          /\ d.action = "register" => ~ Hi!ExpiredAt(d.item.table, d.at)

\* The driver that is waited for: the receipt is older, and of what a cleanup finds expired it
\* has either not yet looked, or not yet dropped it, or it was made behind its back.
Outstanding(d) ==
    \A t \in catalog : Hi!ExpiredAt(t, d.at) => t \in late \/ (t \in d.seen /\ t \notin d.done)
WaitedSound(d) ==
    session # Hi!Idle /\ session.wait = d.id =>
        /\ purged # Unset => purged <= d.at
        /\ d.action = "register" => d.tables = Hi!Of(session.r)
        /\ d.action = "cleanup" => d.tables = Hi!Intended /\ (d.pc # "inspect" => Outstanding(d))

ReceiptSound == purged # Unset => purged <= hour /\ \A t \in catalog : ~ Hi!ExpiredAt(t, purged) \/ t \in late

HiveInv ==
    /\ HiveTypes
    /\ \A d, e \in drivers : d.id = e.id => d = e
    /\ catalog \subseteq Hi!Intended \intersect backend
    /\ ReceiptSound
    /\ \A r \in acknowledged : Confirmed(r) /\ Delivered(r)
    /\ SessionSound
    /\ \A d \in drivers : DriverSound(d) /\ WaitedSound(d)

-----------------------------------------------------------------------------
(* Time passes, and more is written down.                                    *)

LEMMA HiveConstants ==
    /\ Window \in Nat \ {0} /\ Expiry \in [Hi!Releases -> Int] /\ MaxDrivers \in Nat
    /\ Unset \notin Nat /\ Unset # "reserved" /\ Unset # "verified"
  BY ProgramsAssumption DEF ProgramsAssumption, Hi!HiveAssumption, Hi!Releases

LEMMA Overdue ==
    ASSUME NEW t \in Hi!Tables, NEW m \in Int, NEW n \in Int, m <= n, Hi!ExpiredAt(t, m)
    PROVE  Hi!ExpiredAt(t, n)
<1>1. Expiry[t[1]] \in Int
  BY HiveConstants DEF Hi!Tables
<1> QED
  BY <1>1 DEF Hi!ExpiredAt

LEMMA Tabled == ASSUME NEW r \in Hi!Releases PROVE Hi!Of(r) \subseteq Hi!Tables
  BY DEF Hi!Of, Hi!Tables

\* The authority writes down more, the clock goes on, and nothing is dropped that lives.
Evolves ==
    /\ hour \in Nat /\ hour' \in Nat /\ hour <= hour'
    /\ Hi!Intended \subseteq Hi!Intended' /\ backend \subseteq backend'
    /\ \A t \in Hi!Tables : intent[t] = "verified" => intent'[t] = "verified"
    /\ \A t \in catalog : t \in catalog' \/ Hi!ExpiredAt(t, hour')

LEMMA DeliveredKept ==
    ASSUME Evolves, NEW t \in Hi!Tables, t \in catalog \/ Hi!ExpiredAt(t, hour)
    PROVE  t \in catalog' \/ Hi!ExpiredAt(t, hour')
  BY Overdue DEF Evolves

LEMMA ProgressKept ==
    ASSUME Evolves, NEW o, NEW r \in Hi!Releases, NEW i, Progress(o, r, i)
    PROVE  Progress(o, r, i)'
<1>1. \A t \in Hi!Of(r) : t \in Hi!Tables
  BY Tabled
<1>2. Delivered(r) => Delivered(r)'
  BY <1>1, DeliveredKept DEF Delivered
<1>3. Confirmed(r) => Confirmed(r)'
  BY <1>1 DEF Confirmed, Evolves
<1> QED
  BY <1>2, <1>3 DEF Progress, Evolves

LEMMA DriverKept ==
    ASSUME Evolves, NEW d \in Drivers, DriverSound(d)
    PROVE  DriverSound(d)'
<1>1. d.at \in Nat /\ d.tables \subseteq Hi!Tables /\ d.done \subseteq Hi!Tables
  BY DEF Drivers
<1>2. d.at <= hour'
  BY <1>1 DEF Evolves, DriverSound
<1>3. d.action = "register" => \A t \in d.done : t \in catalog' \/ Hi!ExpiredAt(t, hour')
  BY <1>1, DeliveredKept DEF DriverSound
<1>4. d.pc = "act" /\ d.item.expired => Hi!ExpiredAt(d.item.table, hour')
  <2>1. SUFFICES ASSUME d.pc = "act", d.item.expired PROVE Hi!ExpiredAt(d.item.table, hour')
    OBVIOUS
  <2>2. d.item.table \in Hi!Tables /\ Hi!ExpiredAt(d.item.table, hour)
    BY <1>1, <2>1 DEF DriverSound
  <2> QED
    BY <2>2, Overdue DEF Evolves
<1> QED
  BY <1>2, <1>3, <1>4 DEF DriverSound, Evolves

LEMMA AcknowledgedKept ==
    ASSUME HiveInv, Evolves
    PROVE  \A r \in acknowledged : Confirmed(r)' /\ Delivered(r)'
<1>1. SUFFICES ASSUME NEW r \in acknowledged PROVE Confirmed(r)' /\ Delivered(r)'
  OBVIOUS
<1>2. r \in Hi!Releases /\ Confirmed(r) /\ Delivered(r)
  BY DEF HiveInv, HiveTypes
<1>3. \A t \in Hi!Of(r) : t \in Hi!Tables
  BY <1>2, Tabled
<1>4. Delivered(r)'
  BY <1>2, <1>3, DeliveredKept DEF Delivered
<1>5. Confirmed(r)'
  BY <1>2, <1>3 DEF Confirmed, Evolves
<1> QED
  BY <1>4, <1>5

-----------------------------------------------------------------------------
(* The programs of the operations.                                           *)

LEMMA ProgramsAre ==
    /\ Hi!Program("register") =
          <<"cleanup", "reserve", "backend", "cleanup", "register", "verified", "cleanup">>
    /\ Hi!Program("verify") = <<"cleanup", "planned", "cleanup", "verify", "verified", "cleanup">>
    /\ Hi!Program("cleanup") = <<"cleanup">>
  BY DEF Hi!Program

LEMMA ProgramShape ==
    ASSUME NEW o \in Operations
    PROVE  /\ Hi!Program(o) \in Seq(Phases) /\ Len(Hi!Program(o)) \in Nat \ {0}
           /\ \A i \in 1..Len(Hi!Program(o)) :
                /\ Hi!Program(o)[i] = "reserve" => o = "register" /\ i = 2
                /\ Hi!Program(o)[i] = "backend" => o = "register" /\ i = 3
                /\ Hi!Program(o)[i] = "register" => o = "register" /\ i = 5
                /\ o = "register" /\ i = 5 => Hi!Program(o)[i] = "register"
                /\ Hi!Program(o)[i] = "planned" => o # "register"
                /\ Hi!Program(o)[i] = "verified" /\ o = "register" => i = 6
                /\ o = "register" /\ i = 2 => Hi!Program(o)[i] = "reserve"
                /\ o = "register" /\ i = 3 => Hi!Program(o)[i] = "backend"
                /\ o = "register" /\ i = 6 => Hi!Program(o)[i] = "verified"
           /\ o = "register" => Len(Hi!Program(o)) = 7
<1>1. CASE o = "register"
  <2>. DEFINE p == <<"cleanup", "reserve", "backend", "cleanup", "register", "verified", "cleanup">>
  <2>1. p \in Seq(Phases) /\ Len(p) = 7
    BY DEF Phases
  <2>2. /\ p[1] = "cleanup" /\ p[2] = "reserve" /\ p[3] = "backend" /\ p[4] = "cleanup"
        /\ p[5] = "register" /\ p[6] = "verified" /\ p[7] = "cleanup"
    OBVIOUS
  <2>3. \A i \in 1..7 : i = 1 \/ i = 2 \/ i = 3 \/ i = 4 \/ i = 5 \/ i = 6 \/ i = 7
    OBVIOUS
  <2>4. Hi!Program(o) = p
    BY <1>1, ProgramsAre
  <2>. HIDE DEF p
  <2>5. ASSUME NEW i \in 1..7
        PROVE  /\ p[i] = "reserve" => o = "register" /\ i = 2
               /\ p[i] = "backend" => o = "register" /\ i = 3
               /\ p[i] = "register" => o = "register" /\ i = 5
               /\ p[i] = "verified" /\ o = "register" => i = 6
               /\ p[i] = "planned" => o # "register"
    BY <1>1, <2>2, <2>3
  <2>6. Len(p) \in Nat \ {0} /\ 1..Len(p) = 1..7
    BY <2>1
  <2>7. o = "register" => /\ p[2] = "reserve" /\ p[3] = "backend" /\ p[5] = "register" /\ p[6] = "verified"
                          /\ Len(p) = 7
    BY <1>1, <2>1, <2>2
  <2>8. p \in Seq(Phases)
    BY <2>1
  <2> QED
    BY <2>4, <2>5, <2>6, <2>7, <2>8
<1>2. CASE o = "verify"
  <2>. DEFINE p == <<"cleanup", "planned", "cleanup", "verify", "verified", "cleanup">>
  <2>1. p \in Seq(Phases) /\ Len(p) = 6
    BY DEF Phases
  <2>2. /\ p[1] = "cleanup" /\ p[2] = "planned" /\ p[3] = "cleanup" /\ p[4] = "verify"
        /\ p[5] = "verified" /\ p[6] = "cleanup"
    OBVIOUS
  <2>3. \A i \in 1..6 : i = 1 \/ i = 2 \/ i = 3 \/ i = 4 \/ i = 5 \/ i = 6
    OBVIOUS
  <2>4. Hi!Program(o) = p
    BY <1>2, ProgramsAre
  <2>. HIDE DEF p
  <2>5. ASSUME NEW i \in 1..6
        PROVE  /\ p[i] = "reserve" => o = "register" /\ i = 2
               /\ p[i] = "backend" => o = "register" /\ i = 3
               /\ p[i] = "register" => o = "register" /\ i = 5
               /\ p[i] = "verified" /\ o = "register" => i = 6
               /\ p[i] = "planned" => o # "register"
    BY <1>2, <2>2, <2>3
  <2>6. Len(p) \in Nat \ {0} /\ 1..Len(p) = 1..6
    BY <2>1
  <2>7. o = "register" => /\ p[2] = "reserve" /\ p[3] = "backend" /\ p[5] = "register" /\ p[6] = "verified"
                          /\ Len(p) = 7
    BY <1>2, <2>1, <2>2
  <2>8. p \in Seq(Phases)
    BY <2>1
  <2> QED
    BY <2>4, <2>5, <2>6, <2>7, <2>8
<1>3. CASE o = "cleanup"
  <2>. DEFINE p == <<"cleanup">>
  <2>1. p \in Seq(Phases) /\ Len(p) = 1 /\ p[1] = "cleanup"
    BY DEF Phases
  <2>2. Hi!Program(o) = p
    BY <1>3, ProgramsAre
  <2>. HIDE DEF p
  <2> QED
    BY <1>3, <2>1, <2>2
<1> QED
  BY <1>1, <1>2, <1>3 DEF Operations

LEMMA FromShape ==
    ASSUME NEW o \in Operations, NEW i \in 1..Len(Hi!Program(o))
    PROVE  /\ From(o, i) \in Seq(Phases) /\ Len(From(o, i)) = Len(Hi!Program(o)) - i + 1
           /\ Head(From(o, i)) = Hi!Program(o)[i] /\ Tail(From(o, i)) = From(o, i + 1)
           /\ Len(From(o, i)) = 1 <=> i = Len(Hi!Program(o))
<1>1. Hi!Program(o) \in Seq(Phases) /\ Len(Hi!Program(o)) \in Nat
  BY ProgramShape
<1>2. From(o, i) \in Seq(Phases) /\ Len(From(o, i)) = Len(Hi!Program(o)) - i + 1
  BY <1>1, SubSeqProperties DEF From
<1>3. Head(From(o, i)) = Hi!Program(o)[i] /\ Tail(From(o, i)) = From(o, i + 1)
  BY <1>1, HeadTailOfSubSeq DEF From
<1> QED
  BY <1>1, <1>2, <1>3

-----------------------------------------------------------------------------
(* The steps of the operation.                                               *)

LEMMA HiveStarts == ASSUME Hi!Init PROVE HiveInv
<1>1. HiveTypes
  <2>1. IsFiniteSet({})
    BY FS_EmptySet
  <2> QED
    BY <2>1 DEF Hi!Init, HiveTypes, Intents
<1>2. SessionSound /\ ReceiptSound
  BY DEF Hi!Init, SessionSound, ReceiptSound
<1> QED
  BY <1>1, <1>2 DEF Hi!Init, HiveInv

\* The step before which an operation stands.
LEMMA StandsAt ==
    ASSUME HiveInv, session # Hi!Idle
    PROVE  \E o \in Operations, r \in Hi!Releases : \E i \in 1..Len(Hi!Program(o)) :
             /\ session \in Sessions /\ session.op = o /\ session.r = r
             /\ session.todo = From(o, i) /\ Before(o, r, i)
             /\ Head(session.todo) = Hi!Program(o)[i] /\ Hi!Of(r) \subseteq Hi!Tables
<1>1. session \in Sessions /\ session.op \in Operations /\ session.r \in Hi!Releases
  BY DEF HiveInv, SessionSound, Sessions
<1>2. PICK i \in 1..Len(Hi!Program(session.op)) :
         session.todo = From(session.op, i) /\ Before(session.op, session.r, i)
  BY DEF HiveInv, SessionSound
<1>3. Head(session.todo) = Hi!Program(session.op)[i]
  BY <1>1, <1>2, FromShape
<1>4. Hi!Of(session.r) \subseteq Hi!Tables
  BY <1>1, Tabled
<1> QED
  BY <1>1, <1>2, <1>3, <1>4

\* The next step of a program: what it needs is there, and nobody is waited for.
LEMMA Advances ==
    ASSUME session \in Sessions, session' = Hi!Onward, drivers' \subseteq Drivers,
           NEW o \in Operations, o = session.op, NEW r \in Hi!Releases, r = session.r,
           NEW i \in 1..Len(Hi!Program(o)), session.todo = From(o, i), Progress(o, r, i + 1)'
    PROVE  SessionSound' /\ \A d \in Drivers : WaitedSound(d)'
<1>2. Len(Hi!Program(o)) \in Nat /\ i \in Nat
  BY ProgramShape
<1>3. Tail(session.todo) = From(o, i + 1) /\ (Len(session.todo) = 1 <=> i = Len(Hi!Program(o)))
  BY FromShape
<1>4. CASE Len(session.todo) = 1
  <2>1. session' = Hi!Idle
    BY <1>4 DEF Hi!Onward
  <2> QED
    BY <2>1 DEF SessionSound, WaitedSound, Hi!Idle
<1>5. CASE Len(session.todo) # 1
  <2>0. PICK j : j = i + 1
    OBVIOUS
  <2>1. session' = [session EXCEPT !.todo = From(o, j), !.wait = 0]
    BY <1>3, <1>5, <2>0 DEF Hi!Onward
  <2>2. j \in 1..Len(Hi!Program(o))
    BY <1>2, <1>3, <1>5, <2>0
  <2>3. From(o, j) \in Seq(Phases)
    BY <2>2, FromShape
  <2>a. session' = [op |-> o, r |-> r, todo |-> From(o, j), wait |-> 0, until |-> session.until]
    BY <2>1 DEF Sessions
  <2>4. /\ session' \in Sessions /\ session'.op = o /\ session'.r = r
        /\ session'.todo = From(o, j) /\ session'.wait = 0
    BY <2>a, <2>3, HiveConstants DEF Sessions
  <2>5. \A d \in Drivers : d.id # 0
    BY HiveConstants DEF Drivers
  <2>7. Before(o, r, j)'
    BY <2>0, <2>4, <2>5 DEF Before
  <2>8. SessionSound'
    BY <2>2, <2>4, <2>7 DEF SessionSound, From
  <2> QED
    BY <2>4, <2>5, <2>8 DEF WaitedSound
<1> QED
  BY <1>4, <1>5

\* A step of the operation that writes to the authority at most.
LEMMA OperationRight ==
    ASSUME HiveInv, session # Hi!Idle, session.wait = 0,
           UNCHANGED <<hour, catalog, drivers, purged, acknowledged, late>>,
           intent' \in Intents, backend' \subseteq Hi!Tables, other' \in Nat,
           Hi!Intended \subseteq Hi!Intended', backend \subseteq backend',
           \A t \in Hi!Tables : intent[t] = "verified" => intent'[t] = "verified",
           SessionSound', \A d \in Drivers : WaitedSound(d)'
    PROVE  HiveInv'
<1>1. HiveTypes'
  BY DEF HiveInv, HiveTypes
<1>2. Evolves
  BY <1>1 DEF HiveInv, HiveTypes, Evolves
<1>3. \A r \in acknowledged : Confirmed(r)' /\ Delivered(r)'
  BY <1>2, AcknowledgedKept
<1>4. \A d \in drivers : d \in Drivers
  BY DEF HiveInv, HiveTypes
<1>5. \A d \in drivers : DriverSound(d)'
  BY <1>2, <1>4, DriverKept DEF HiveInv
<1>6. ReceiptSound'
  BY DEF HiveInv, ReceiptSound
<1>7. (catalog \subseteq Hi!Intended \intersect backend)'
  BY DEF HiveInv
<1> QED
  BY <1>1, <1>3, <1>4, <1>5, <1>6, <1>7 DEF HiveInv

LEMMA ReserveRight == ASSUME HiveInv, Hi!Reserve PROVE HiveInv'
<1>0. /\ session # Hi!Idle /\ session.wait = 0 /\ Head(session.todo) = "reserve" /\ session' = Hi!Onward
      /\ UNCHANGED <<hour, backend, other, catalog, drivers, purged, acknowledged, late>>
  BY DEF Hi!Reserve, Hi!At
<1>a. PICK o \in Operations, r \in Hi!Releases : \E i \in 1..Len(Hi!Program(o)) :
          /\ session \in Sessions /\ session.op = o /\ session.r = r /\ session.todo = From(o, i)
          /\ Hi!Program(o)[i] = "reserve" /\ Hi!Of(r) \subseteq Hi!Tables
  BY <1>0, StandsAt
<1>1. PICK i \in 1..Len(Hi!Program(o)) :
        /\ session \in Sessions /\ session.op = o /\ session.r = r /\ session.todo = From(o, i)
        /\ Hi!Program(o)[i] = "reserve" /\ Hi!Of(r) \subseteq Hi!Tables
  BY <1>a
<1>2. intent \in Intents /\ drivers \subseteq Drivers /\ backend \subseteq Hi!Tables /\ other \in Nat
  BY DEF HiveInv, HiveTypes
<1>3. intent' = [t \in Hi!Tables |-> IF t \in Hi!Of(r) /\ intent[t] = Unset THEN "reserved" ELSE intent[t]]
  BY <1>1 DEF Hi!Reserve
<1>4. intent' \in Intents /\ \A t \in Hi!Tables : intent[t] = "verified" => intent'[t] = "verified"
  BY <1>2, <1>3, HiveConstants DEF Intents
<1>5. Hi!Intended \subseteq Hi!Intended' /\ Hi!Of(r) \subseteq Hi!Intended'
  BY <1>1, <1>2, <1>3, HiveConstants DEF Intents, Hi!Intended
<1>6. o = "register" /\ i = 2
  BY <1>1, ProgramShape
<1>7. Progress(o, r, i + 1)'
  BY <1>5, <1>6 DEF Progress
<1>8. SessionSound' /\ \A d \in Drivers : WaitedSound(d)'
  BY <1>0, <1>1, <1>2, <1>7, Advances
<1> QED
  BY <1>0, <1>2, <1>4, <1>5, <1>8, OperationRight

LEMMA BackendRight == ASSUME HiveInv, Hi!RegisterBackend PROVE HiveInv'
<1>0. /\ session # Hi!Idle /\ session.wait = 0 /\ Head(session.todo) = "backend"
      /\ UNCHANGED <<hour, intent, other, catalog, drivers, purged, acknowledged, late>>
  BY DEF Hi!RegisterBackend, Hi!At
<1>a. PICK o \in Operations, r \in Hi!Releases : \E i \in 1..Len(Hi!Program(o)) :
          /\ session \in Sessions /\ session.op = o /\ session.r = r /\ session.todo = From(o, i)
          /\ Before(o, r, i) /\ Hi!Program(o)[i] = "backend" /\ Hi!Of(r) \subseteq Hi!Tables
  BY <1>0, StandsAt
<1>1. PICK i \in 1..Len(Hi!Program(o)) :
        /\ session \in Sessions /\ session.op = o /\ session.r = r /\ session.todo = From(o, i)
        /\ Before(o, r, i) /\ Hi!Program(o)[i] = "backend" /\ Hi!Of(r) \subseteq Hi!Tables
  BY <1>a
<1>2. intent \in Intents /\ drivers \subseteq Drivers /\ backend \subseteq Hi!Tables /\ other \in Nat
  BY DEF HiveInv, HiveTypes
<1>4. Hi!Intended' = Hi!Intended
  BY <1>0 DEF Hi!Intended
<1>6. o = "register" /\ i = 3 /\ Hi!Of(r) \subseteq Hi!Intended
  BY <1>1, ProgramShape DEF Before, Progress
<1>7. CASE Hi!Of(r) \subseteq backend /\ session' = Hi!Onward /\ UNCHANGED backend
  <2>1. Progress(o, r, i + 1)'
    BY <1>4, <1>6, <1>7 DEF Progress
  <2>2. SessionSound' /\ \A d \in Drivers : WaitedSound(d)'
    BY <1>0, <1>1, <1>2, <1>7, <2>1, Advances
  <2> QED
    BY <1>0, <1>2, <1>4, <1>7, <2>2, OperationRight
<1>8. CASE (\E t \in Hi!Of(r) \ backend : backend' = backend \union {t}) /\ UNCHANGED session
  <2>1. backend \subseteq backend' /\ backend' \subseteq Hi!Tables
    BY <1>1, <1>2, <1>8
  <2>2. Progress(o, r, i)'
    BY <1>4, <1>6 DEF Progress
  <2>3. Before(o, r, i)'
    BY <1>0, <1>1, <1>8, <2>2 DEF Before
  <2>4. SessionSound'
    BY <1>1, <1>8, <2>3 DEF SessionSound, From
  <2>5. \A d \in Drivers : d.id # 0
    BY HiveConstants DEF Drivers
  <2>6. \A d \in Drivers : WaitedSound(d)'
    BY <1>0, <1>8, <2>5 DEF WaitedSound
  <2> QED
    BY <1>0, <1>2, <1>4, <2>1, <2>4, <2>6, OperationRight
<1> QED
  BY <1>1, <1>7, <1>8 DEF Hi!RegisterBackend

LEMMA PlannedRight == ASSUME HiveInv, Hi!Planned PROVE HiveInv'
<1>0. /\ session # Hi!Idle /\ session.wait = 0 /\ Head(session.todo) = "planned" /\ session' = Hi!Onward
      /\ UNCHANGED <<hour, intent, backend, other, catalog, drivers, purged, acknowledged, late>>
  BY DEF Hi!Planned, Hi!At, Hi!authority
<1>a. PICK o \in Operations, r \in Hi!Releases : \E i \in 1..Len(Hi!Program(o)) :
          /\ session \in Sessions /\ session.op = o /\ session.r = r /\ session.todo = From(o, i)
          /\ Hi!Program(o)[i] = "planned"
  BY <1>0, StandsAt
<1>1. PICK i \in 1..Len(Hi!Program(o)) :
        /\ session \in Sessions /\ session.op = o /\ session.r = r /\ session.todo = From(o, i)
        /\ Hi!Program(o)[i] = "planned"
  BY <1>a
<1>2. intent \in Intents /\ drivers \subseteq Drivers /\ backend \subseteq Hi!Tables /\ other \in Nat
  BY DEF HiveInv, HiveTypes
<1>4. Hi!Intended' = Hi!Intended
  BY <1>0 DEF Hi!Intended
<1>6. o # "register"
  BY <1>1, ProgramShape
<1>7. Progress(o, r, i + 1)'
  BY <1>6 DEF Progress
<1>8. SessionSound' /\ \A d \in Drivers : WaitedSound(d)'
  BY <1>0, <1>1, <1>2, <1>7, Advances
<1> QED
  BY <1>0, <1>2, <1>4, <1>8, OperationRight

LEMMA VerifiedRight == ASSUME HiveInv, Hi!Verified PROVE HiveInv'
<1>0. /\ session # Hi!Idle /\ session.wait = 0 /\ Head(session.todo) = "verified" /\ session' = Hi!Onward
      /\ UNCHANGED <<hour, backend, other, catalog, drivers, purged, acknowledged, late>>
  BY DEF Hi!Verified, Hi!At
<1>a. PICK o \in Operations, r \in Hi!Releases : \E i \in 1..Len(Hi!Program(o)) :
          /\ session \in Sessions /\ session.op = o /\ session.r = r /\ session.todo = From(o, i)
          /\ Before(o, r, i) /\ Hi!Program(o)[i] = "verified" /\ Hi!Of(r) \subseteq Hi!Tables
  BY <1>0, StandsAt
<1>1. PICK i \in 1..Len(Hi!Program(o)) :
        /\ session \in Sessions /\ session.op = o /\ session.r = r /\ session.todo = From(o, i)
        /\ Before(o, r, i) /\ Hi!Program(o)[i] = "verified" /\ Hi!Of(r) \subseteq Hi!Tables
  BY <1>a
<1>2. intent \in Intents /\ drivers \subseteq Drivers /\ backend \subseteq Hi!Tables /\ other \in Nat
  BY DEF HiveInv, HiveTypes
<1>3. intent' = [t \in Hi!Tables |-> IF t \in Hi!Of(r) THEN "verified" ELSE intent[t]]
  BY <1>1 DEF Hi!Verified
<1>4. /\ intent' \in Intents /\ \A t \in Hi!Tables : intent[t] = "verified" => intent'[t] = "verified"
      /\ \A t \in Hi!Of(r) : intent'[t] = "verified"
  BY <1>1, <1>2, <1>3 DEF Intents
<1>5. Hi!Intended \subseteq Hi!Intended'
  BY <1>2, <1>3, HiveConstants DEF Hi!Intended
<1>6. Evolves
  BY <1>0, <1>4, <1>5 DEF Evolves, HiveInv, HiveTypes
<1>7. Progress(o, r, i + 1)'
  <2>2. Progress(o, r, i)'
    BY <1>1, <1>6, ProgressKept DEF Before
  <2>4. o = "register" => i = 6
    BY <1>1, ProgramShape
  <2> QED
    BY <1>4, <2>2, <2>4 DEF Progress, Confirmed
<1>8. SessionSound' /\ \A d \in Drivers : WaitedSound(d)'
  BY <1>0, <1>1, <1>2, <1>7, Advances
<1> QED
  BY <1>0, <1>2, <1>4, <1>5, <1>8, OperationRight

\* A session that ends, a driver that goes, a clock that ticks, an entry from elsewhere.
LEMMA NothingMade ==
    ASSUME HiveInv, UNCHANGED <<intent, backend, catalog, purged, acknowledged, late>>,
           session' \in {session, Hi!Idle}, drivers' \subseteq drivers,
           other' \in Nat, hour' \in Nat, hour <= hour'
    PROVE  HiveInv'
<1>1. HiveTypes'
  <2>1. IsFiniteSet(drivers')
    BY FS_Subset DEF HiveInv, HiveTypes
  <2> QED
    BY <2>1 DEF HiveInv, HiveTypes
<1>2. Evolves
  BY DEF HiveInv, HiveTypes, Evolves, Hi!Intended
<1>3. \A r \in acknowledged : Confirmed(r)' /\ Delivered(r)'
  BY <1>2, AcknowledgedKept
<1>4. ASSUME NEW d \in drivers' PROVE DriverSound(d)' /\ WaitedSound(d)'
  <2>1. d \in Drivers /\ DriverSound(d) /\ WaitedSound(d)
    BY <1>4 DEF HiveInv, HiveTypes
  <2>2. DriverSound(d)'
    BY <1>2, <2>1, DriverKept
  <2>3. WaitedSound(d)'
    BY <2>1 DEF WaitedSound, Outstanding, Hi!Intended, Hi!Idle
  <2> QED
    BY <2>2, <2>3
<1>5. ReceiptSound'
  BY DEF HiveInv, HiveTypes, ReceiptSound
<1>6. SessionSound'
  <2>1. CASE session = Hi!Idle
    BY <2>1 DEF SessionSound
  <2>2. CASE session' = Hi!Idle
    BY <2>2 DEF SessionSound
  <2>3. CASE session # Hi!Idle /\ session' = session
    <3>a. PICK o \in Operations, r \in Hi!Releases : \E i \in 1..Len(Hi!Program(o)) :
             /\ session \in Sessions /\ session.op = o /\ session.r = r
             /\ session.todo = From(o, i) /\ Before(o, r, i)
      BY <2>3, StandsAt
    <3>1. PICK i \in 1..Len(Hi!Program(o)) :
             /\ session \in Sessions /\ session.op = o /\ session.r = r
             /\ session.todo = From(o, i) /\ Before(o, r, i)
      BY <3>a
    <3>2. Progress(o, r, i)'
      BY <1>2, <3>1, ProgressKept DEF Before
    <3>3. Before(o, r, i)'
      BY <2>3, <3>1, <3>2 DEF Before
    <3> QED
      BY <2>3, <3>1, <3>3 DEF SessionSound, From
  <2> QED
    BY <2>1, <2>2, <2>3
<1>7. (catalog \subseteq Hi!Intended \intersect backend)'
  BY DEF HiveInv, Hi!Intended
<1> QED
  BY <1>1, <1>3, <1>4, <1>5, <1>6, <1>7 DEF HiveInv

LEMMA BeginRight ==
    ASSUME HiveInv, NEW o \in Operations, NEW r \in Hi!Releases, Hi!Begin(o, r)
    PROVE  HiveInv'
<1>1. /\ session' = [op |-> o, r |-> r, todo |-> Hi!Program(o), wait |-> 0, until |-> hour + 2 * Window]
      /\ UNCHANGED <<hour, intent, backend, other, catalog, drivers, purged, acknowledged, late>>
  BY DEF Hi!Begin, Hi!authority
<1>2. Hi!Program(o) \in Seq(Phases) /\ Len(Hi!Program(o)) \in Nat \ {0}
  BY ProgramShape
<1>3. From(o, 1) = Hi!Program(o) /\ 1 \in 1..Len(Hi!Program(o))
  BY <1>2, SubSeqFull DEF From
<1>4. hour + 2 * Window \in Int
  BY HiveConstants DEF HiveInv, HiveTypes
<1>5. session' \in Sessions
  BY <1>1, <1>2, <1>4, HiveConstants DEF Sessions
<1>6. \A d \in drivers : d.id # 0 /\ d \in Drivers
  BY HiveConstants DEF HiveInv, HiveTypes, Drivers
<1>7. PICK j : j = 1
  OBVIOUS
<1>8. Before(o, r, j)'
  BY <1>1, <1>6, <1>7 DEF Before, Progress
<1>9. SessionSound'
  BY <1>1, <1>3, <1>5, <1>7, <1>8 DEF SessionSound, From
<1>10. HiveTypes'
  BY <1>1 DEF HiveInv, HiveTypes
<1>11. Evolves
  BY <1>1 DEF HiveInv, HiveTypes, Evolves, Hi!Intended
<1>12. \A d \in drivers : DriverSound(d)' /\ WaitedSound(d)'
  BY <1>1, <1>6, <1>11, DriverKept DEF HiveInv, WaitedSound
<1>13. \A q \in acknowledged : Confirmed(q)' /\ Delivered(q)'
  BY <1>11, AcknowledgedKept
<1> QED
  BY <1>1, <1>9, <1>10, <1>12, <1>13 DEF HiveInv, ReceiptSound, Hi!Intended

-----------------------------------------------------------------------------
(* The requests.                                                             *)

\* There are as many names as drivers at a time.
LEMMA FreshName ==
    ASSUME HiveInv, Cardinality(drivers) < MaxDrivers
    PROVE  \E i \in 1..MaxDrivers : \A d \in drivers : d.id # i
<1>1. SUFFICES ASSUME \A i \in 1..MaxDrivers : \E d \in drivers : d.id = i PROVE FALSE
  OBVIOUS
<1>2. MaxDrivers \in Nat
  BY HiveConstants
<1>3. IsFiniteSet(drivers) /\ drivers \subseteq Drivers
  BY DEF HiveInv, HiveTypes
<1>4. DEFINE name == [d \in drivers |-> d.id]
<1>5. name \in [drivers -> 1..MaxDrivers]
  BY <1>3 DEF Drivers
<1>6. name \in Surjection(drivers, 1..MaxDrivers)
  BY <1>1, <1>5 DEF Surjection
<1>7. Cardinality(1..MaxDrivers) <= Cardinality(drivers)
  BY <1>3, <1>6, FS_Surjection
<1>8. Cardinality(1..MaxDrivers) = MaxDrivers /\ Cardinality(drivers) \in Nat
  BY <1>2, <1>3, FS_Interval, FS_CardinalityType
<1> QED
  BY <1>2, <1>7, <1>8

LEMMA AskRight ==
    ASSUME HiveInv, NEW action \in Requested, Hi!Ask(action)
    PROVE  HiveInv'
<1>0. /\ session # Hi!Idle /\ session.wait = 0 /\ Head(session.todo) = action
      /\ Cardinality(drivers) < MaxDrivers /\ drivers' = drivers \union {Hi!Request(action)}
      /\ session' = [session EXCEPT !.wait = Hi!Request(action).id]
      /\ UNCHANGED <<hour, intent, backend, other, catalog, purged, acknowledged, late>>
  BY DEF Hi!Ask, Hi!At, Hi!authority, Hi!Cardinality, Cardinality
<1>a. PICK o \in Operations, r \in Hi!Releases : \E i \in 1..Len(Hi!Program(o)) :
        /\ session \in Sessions /\ session.op = o /\ session.r = r /\ session.todo = From(o, i)
        /\ Before(o, r, i) /\ Hi!Program(o)[i] = action /\ Hi!Of(r) \subseteq Hi!Tables
  BY <1>0, StandsAt
<1>1. PICK i \in 1..Len(Hi!Program(o)) :
        /\ session \in Sessions /\ session.op = o /\ session.r = r /\ session.todo = From(o, i)
        /\ Before(o, r, i) /\ Hi!Program(o)[i] = action /\ Hi!Of(r) \subseteq Hi!Tables
  BY <1>a
<1>2. /\ intent \in Intents /\ drivers \subseteq Drivers /\ backend \subseteq Hi!Tables /\ other \in Nat
      /\ hour \in Nat /\ IsFiniteSet(drivers)
  BY DEF HiveInv, HiveTypes
<1>3. PICK q : q = Hi!Request(action)
  OBVIOUS
<1>4. /\ q.id \in 1..MaxDrivers /\ \A d \in drivers : d.id # q.id
  <2>1. \E k \in 1..MaxDrivers : \A d \in drivers : d.id # k
    BY <1>0, FreshName
  <2>2. q.id = CHOOSE k \in 1..MaxDrivers : \A d \in drivers : d.id # k
    BY <1>3 DEF Hi!Request
  <2> QED
    BY <2>1, <2>2
<1>5. /\ q.action = action /\ q.tables = IF action = "cleanup" THEN Hi!Intended ELSE Hi!Of(r)
      /\ q.at = hour /\ q.pc = "inspect" /\ q.done = {}
  BY <1>1, <1>3 DEF Hi!Request
<1>6. q \in Drivers
  <2>1. q.id \in 1..MaxDrivers
    BY <1>4
  <2>2. q.tables \subseteq Hi!Tables
    BY <1>1, <1>5 DEF Hi!Intended
  <2>3. <<intent, backend, other>> \in Intents \X (SUBSET Hi!Tables) \X Nat
    BY <1>2
  <2>4. q = [id |-> q.id, action |-> action, tables |-> q.tables, known |-> Hi!Intended,
             verified |-> {t \in Hi!Tables : intent[t] = "verified"}, at |-> hour,
             scope |-> <<intent, backend, other>>, pc |-> "inspect", item |-> Unset, seen |-> {}, done |-> {}]
    BY <1>3 DEF Hi!Request, Hi!authority
  <2>5. Hi!Intended \subseteq Hi!Tables
    BY DEF Hi!Intended
  <2> QED
    BY <1>2, <2>1, <2>2, <2>3, <2>4, <2>5 DEF Drivers
<1>7. session' = [op |-> o, r |-> r, todo |-> From(o, i), wait |-> q.id, until |-> session.until]
  BY <1>0, <1>1, <1>3 DEF Sessions
<1>8. session' \in Sessions
  BY <1>1, <1>4, <1>7, FromShape DEF Sessions
<1>9. Progress(o, r, i)'
  BY <1>0, <1>1 DEF Before, Progress, Delivered, Confirmed, Hi!Intended
<1>10. Before(o, r, i)'
  BY <1>0, <1>1, <1>3, <1>4, <1>5, <1>7, <1>9 DEF Before
<1>11. SessionSound'
  BY <1>7, <1>8, <1>10 DEF SessionSound, From
<1>12. DriverSound(q)'
  <2>1. action = "register" => Hi!Of(r) \subseteq Hi!Intended \intersect backend
    BY <1>1, ProgramShape DEF Before, Progress
  <2> QED
    BY <1>0, <1>2, <1>5, <2>1 DEF DriverSound, Hi!Intended
<1>13. WaitedSound(q)'
  <2>1. purged # Unset => purged <= hour
    BY DEF HiveInv, ReceiptSound
  <2> QED
    BY <1>0, <1>5, <1>7, <2>1 DEF WaitedSound, Hi!Intended
<1>14. Evolves
  BY <1>0 DEF HiveInv, HiveTypes, Evolves, Hi!Intended
<1>15. \A d \in drivers : DriverSound(d)' /\ WaitedSound(d)'
  BY <1>2, <1>4, <1>7, <1>14, DriverKept DEF HiveInv, WaitedSound
<1>16. HiveTypes'
  <2>1. IsFiniteSet(drivers \union {q})
    BY <1>2, FS_AddElement
  <2> QED
    BY <1>0, <1>3, <1>6, <2>1 DEF HiveInv, HiveTypes
<1>17. \A p \in acknowledged : Confirmed(p)' /\ Delivered(p)'
  BY <1>14, AcknowledgedKept
<1>18. \A d, e \in drivers' : d.id = e.id => d = e
  BY <1>0, <1>3, <1>4 DEF HiveInv
<1>19. \A d \in drivers' : DriverSound(d)' /\ WaitedSound(d)'
  BY <1>0, <1>3, <1>12, <1>13, <1>15
<1> QED
  BY <1>0, <1>11, <1>16, <1>17, <1>18, <1>19 DEF HiveInv, ReceiptSound, Hi!Intended

LEMMA ReplyRight ==
    ASSUME HiveInv, NEW d \in drivers, Hi!Reply(d)
    PROVE  HiveInv'
<1>0. /\ session # Hi!Idle /\ session.wait = d.id /\ d.pc = "done" /\ session' = Hi!Onward
      /\ purged' = IF d.action = "cleanup" THEN d.at ELSE purged
      /\ acknowledged' = IF session.op = "register" /\ Len(session.todo) = 1
                         THEN acknowledged \union {session.r} ELSE acknowledged
      /\ drivers' = drivers \ {d}
      /\ UNCHANGED <<hour, intent, backend, other, catalog, late>>
  BY DEF Hi!Reply, Hi!authority
<1>a. PICK o \in Operations, r \in Hi!Releases : \E i \in 1..Len(Hi!Program(o)) :
        /\ session \in Sessions /\ session.op = o /\ session.r = r /\ session.todo = From(o, i)
        /\ Before(o, r, i)
  BY <1>0, StandsAt
<1>1. PICK i \in 1..Len(Hi!Program(o)) :
        /\ session \in Sessions /\ session.op = o /\ session.r = r /\ session.todo = From(o, i)
        /\ Before(o, r, i)
  BY <1>a
<1>2. d \in Drivers /\ DriverSound(d) /\ WaitedSound(d) /\ d.action \in Requested /\ d.at \in Nat
  BY DEF HiveInv, HiveTypes, Drivers
<1>3. Hi!Program(o)[i] = d.action
  BY <1>0, <1>1 DEF Before
<1>4. d.action = "register" => Delivered(r)
  BY <1>0, <1>1, <1>2 DEF DriverSound, WaitedSound, Delivered
<1>5. Progress(o, r, i + 1)
  <2>1. o = "register" => i # 2 /\ i # 3 /\ i # 6 /\ (i = 5 => d.action = "register")
    BY <1>2, <1>3, ProgramShape DEF Requested
  <2> QED
    BY <1>1, <1>4, <2>1 DEF Before, Progress
<1>6. Progress(o, r, i + 1)'
  BY <1>0, <1>5 DEF Progress, Delivered, Confirmed, Hi!Intended
<1>7. drivers' \subseteq Drivers /\ IsFiniteSet(drivers')
  BY <1>0, FS_Subset DEF HiveInv, HiveTypes
<1>8. SessionSound' /\ \A e \in Drivers : WaitedSound(e)'
  BY <1>0, <1>1, <1>6, <1>7, Advances
<1>9. HiveTypes'
  BY <1>0, <1>1, <1>2, <1>7 DEF HiveInv, HiveTypes
<1>10. ReceiptSound'
  <2>1. CASE d.action = "cleanup"
    <3>1. d.tables = Hi!Intended /\ Outstanding(d) /\ d.done = d.tables /\ catalog \subseteq Hi!Intended
      BY <1>0, <1>2, <2>1 DEF WaitedSound, DriverSound, HiveInv
    <3>2. \A t \in catalog : ~ Hi!ExpiredAt(t, d.at) \/ t \in late
      BY <3>1 DEF Outstanding
    <3> QED
      BY <1>0, <1>2, <2>1, <3>2 DEF ReceiptSound, DriverSound
  <2>2. CASE d.action # "cleanup"
    BY <1>0, <2>2 DEF HiveInv, ReceiptSound
  <2> QED
    BY <2>1, <2>2
<1>11. \A p \in acknowledged' : Confirmed(p)' /\ Delivered(p)'
  <2>1. ASSUME o = "register", Len(session.todo) = 1 PROVE Confirmed(r) /\ Delivered(r)
    <3>1. i = Len(Hi!Program(o)) /\ Len(Hi!Program(o)) = 7
      BY <1>1, <2>1, FromShape, ProgramShape
    <3>2. i = 7 /\ Progress(o, r, i)
      BY <1>1, <3>1 DEF Before
    <3> QED
      BY <2>1, <3>2 DEF Progress
  <2>2. \A p \in acknowledged' : Confirmed(p) /\ Delivered(p)
    BY <1>0, <1>1, <2>1 DEF HiveInv
  <2> QED
    BY <1>0, <2>2 DEF Confirmed, Delivered
<1>12. Evolves
  BY <1>0 DEF HiveInv, HiveTypes, Evolves, Hi!Intended
<1>13. \A e \in drivers' : DriverSound(e)' /\ WaitedSound(e)'
  BY <1>0, <1>7, <1>8, <1>12, DriverKept DEF HiveInv
<1> QED
  BY <1>0, <1>8, <1>9, <1>10, <1>11, <1>13 DEF HiveInv, Hi!Intended

-----------------------------------------------------------------------------
(* The drivers.                                                              *)

\* A driver goes on, and what it makes is found by nobody's cleanup but is there for its own.
LEMMA DriverGoesOn ==
    ASSUME HiveInv, NEW d \in drivers, NEW e \in Drivers,
           e.id = d.id, e.action = d.action, e.tables = d.tables, e.at = d.at,
           drivers' = (drivers \ {d}) \union {e},
           UNCHANGED <<hour, intent, backend, other, session, purged, acknowledged>>,
           catalog' \subseteq Hi!Intended \intersect backend, late \subseteq late',
           \A t \in catalog : t \in catalog' \/ Hi!ExpiredAt(t, hour),
           \A t \in catalog' \ catalog : t \in late' \/ (Hi!waiting(d) /\ ~ Hi!ExpiredAt(t, d.at)),
           DriverSound(e)', WaitedSound(e)'
    PROVE  HiveInv'
<1>1. d \in Drivers /\ \A f \in drivers : f \in Drivers
  BY DEF HiveInv, HiveTypes
<1>2. HiveTypes'
  <2>1. IsFiniteSet(drivers \ {d})
    BY FS_Subset DEF HiveInv, HiveTypes
  <2>2. IsFiniteSet(drivers')
    BY <2>1, FS_AddElement
  <2> QED
    BY <2>2 DEF HiveInv, HiveTypes
<1>3. Evolves
  BY DEF HiveInv, HiveTypes, Evolves, Hi!Intended, Hi!ExpiredAt
<1>4. \A r \in acknowledged : Confirmed(r)' /\ Delivered(r)'
  BY <1>3, AcknowledgedKept
<1>5. \A f, g \in drivers' : f.id = g.id => f = g
  BY DEF HiveInv
<1>6. ASSUME NEW f \in drivers, f # d PROVE DriverSound(f)' /\ WaitedSound(f)'
  <2>1. DriverSound(f)'
    BY <1>1, <1>3, <1>6, DriverKept DEF HiveInv
  <2>2. WaitedSound(f)'
    <3>1. CASE session = Hi!Idle \/ session.wait # f.id
      BY <3>1 DEF WaitedSound, Hi!Idle
    <3>2. CASE session # Hi!Idle /\ session.wait = f.id
      <4>1. ~ Hi!waiting(d)
        BY <1>6, <3>2 DEF Hi!waiting, HiveInv
      <4>2. Outstanding(f) => Outstanding(f)'
        BY <4>1 DEF Outstanding, Hi!ExpiredAt
      <4>3. WaitedSound(f)
        BY DEF HiveInv
      <4> QED
        BY <3>2, <4>2, <4>3 DEF WaitedSound, Hi!Intended
    <3> QED
      BY <3>1, <3>2
  <2> QED
    BY <2>1, <2>2
<1>7. \A f \in drivers' : DriverSound(f)' /\ WaitedSound(f)'
  BY <1>6
<1>8. ReceiptSound'
  <2>1. SUFFICES ASSUME purged # Unset, NEW t \in catalog', Hi!ExpiredAt(t, purged) PROVE t \in late'
    BY DEF HiveInv, ReceiptSound, Hi!ExpiredAt
  <2>2. CASE t \in catalog
    BY <2>1, <2>2 DEF HiveInv, ReceiptSound
  <2>3. CASE Hi!waiting(d) /\ ~ Hi!ExpiredAt(t, d.at)
    <3>1. purged \in Nat /\ d.at \in Nat /\ purged <= d.at
      BY <1>1, <2>1, <2>3 DEF HiveInv, HiveTypes, WaitedSound, Hi!waiting, Drivers
    <3>2. t \in Hi!Tables
      BY DEF Hi!Intended
    <3> QED
      BY <2>1, <2>3, <3>1, <3>2, Overdue
  <2> QED
    BY <2>1, <2>2, <2>3
<1>9. SessionSound'
  <2>1. CASE session = Hi!Idle
    BY <2>1 DEF SessionSound, Hi!Idle
  <2>2. CASE session # Hi!Idle
    <3>a. PICK o \in Operations, r \in Hi!Releases : \E i \in 1..Len(Hi!Program(o)) :
             /\ session \in Sessions /\ session.op = o /\ session.r = r
             /\ session.todo = From(o, i) /\ Before(o, r, i)
      BY <2>2, StandsAt
    <3>1. PICK i \in 1..Len(Hi!Program(o)) :
             /\ session \in Sessions /\ session.op = o /\ session.r = r
             /\ session.todo = From(o, i) /\ Before(o, r, i)
      BY <3>a
    <3>2. Progress(o, r, i)'
      BY <1>3, <3>1, ProgressKept DEF Before
    <3>3. Before(o, r, i)'
      BY <3>1, <3>2 DEF Before
    <3> QED
      BY <3>1, <3>3 DEF SessionSound, From
  <2> QED
    BY <2>1, <2>2
<1>10. (catalog \subseteq Hi!Intended \intersect backend)'
  BY DEF Hi!Intended
<1> QED
  BY <1>2, <1>4, <1>5, <1>7, <1>8, <1>9, <1>10 DEF HiveInv

\* A driver with another place, item, view and result, and what is known of both.
With(d, pc, item, seen, done) ==
    [d EXCEPT !.pc = pc, !.item = item, !.seen = seen, !.done = done]

LEMMA DriverOther ==
    ASSUME HiveInv, NEW d \in drivers, NEW pc, pc \in {"inspect", "next", "act", "done"},
           NEW item, item \in Items \union {Unset}, NEW seen, seen \subseteq Hi!Tables,
           NEW done, done \subseteq Hi!Tables,
           NEW e, e = With(d, pc, item, seen, done)
    PROVE  /\ e \in Drivers /\ e.id = d.id /\ e.action = d.action /\ e.tables = d.tables /\ e.at = d.at
           /\ e.pc = pc /\ e.item = item /\ e.seen = seen /\ e.done = done
           /\ d \in Drivers /\ d.tables \subseteq Hi!Tables /\ d.at \in Nat /\ d.at <= hour
           /\ hour \in Nat /\ DriverSound(d) /\ WaitedSound(d)
<1>1. d \in Drivers /\ DriverSound(d) /\ WaitedSound(d) /\ hour \in Nat
  BY DEF HiveInv, HiveTypes
<1>2. e = [id |-> d.id, action |-> d.action, tables |-> d.tables, known |-> d.known,
           verified |-> d.verified, at |-> d.at, scope |-> d.scope, pc |-> pc, item |-> item,
           seen |-> seen, done |-> done]
  BY <1>1 DEF Drivers, With
<1> QED
  BY <1>1, <1>2 DEF Drivers, DriverSound

LEMMA InspectRight == ASSUME HiveInv, NEW d \in drivers, Hi!Inspect(d) PROVE HiveInv'
<1>1. PICK e : e = With(d, "next", d.item, catalog \intersect d.tables, d.done)
  OBVIOUS
<1>2. d \in Drivers
  BY DEF HiveInv, HiveTypes
<1>3. e = [d EXCEPT !.pc = "next", !.seen = catalog \intersect d.tables]
  BY <1>1, <1>2 DEF Drivers, With
<1>4. /\ e \in Drivers /\ e.id = d.id /\ e.action = d.action /\ e.tables = d.tables /\ e.at = d.at
      /\ e.pc = "next" /\ e.seen = catalog \intersect d.tables /\ e.done = d.done
      /\ DriverSound(d) /\ WaitedSound(d)
  <2>1. d.item \in Items \union {Unset} /\ catalog \intersect d.tables \subseteq Hi!Tables /\ d.done \subseteq Hi!Tables
    BY <1>2 DEF Drivers
  <2> QED
    BY <1>1, <2>1, DriverOther
<1>5. /\ drivers' = (drivers \ {d}) \union {e} /\ d.pc = "inspect"
      /\ UNCHANGED <<hour, intent, backend, other, catalog, session, purged, acknowledged, late>>
  BY <1>3 DEF Hi!Inspect, Hi!Becomes, Hi!authority
<1>6. DriverSound(e)'
  BY <1>4, <1>5 DEF DriverSound, Hi!Intended, Hi!ExpiredAt
<1>7. WaitedSound(e)'
  <2>1. d.done = {}
    BY <1>4, <1>5 DEF DriverSound
  <2>2. d.tables = Hi!Intended => \A t \in catalog : t \in e.seen /\ t \notin e.done
    BY <1>4, <2>1 DEF HiveInv
  <2> QED
    BY <1>4, <1>5, <2>2 DEF WaitedSound, Outstanding, Hi!Intended
<1> QED
  BY <1>4, <1>5, <1>6, <1>7, DriverGoesOn DEF HiveInv

LEMMA CheckRight == ASSUME HiveInv, NEW d \in drivers, Hi!Check(d) PROVE HiveInv'
<1>1. /\ d \in Drivers /\ d.item \in Items \union {Unset} /\ d.seen \subseteq Hi!Tables /\ d.done \subseteq Hi!Tables
      /\ d.pc = "next"
  BY DEF HiveInv, HiveTypes, Drivers, Hi!Check
<1>2. UNCHANGED <<hour, intent, backend, other, catalog, session, purged, acknowledged, late>>
  BY DEF Hi!Check, Hi!authority
<1>3. CASE d.done = d.tables
  <2>1. PICK e : e = With(d, "done", d.item, d.seen, d.done)
    OBVIOUS
  <2>2. e = [d EXCEPT !.pc = "done"]
    BY <1>1, <2>1 DEF Drivers, With
  <2>3. /\ e \in Drivers /\ e.id = d.id /\ e.action = d.action /\ e.tables = d.tables /\ e.at = d.at
        /\ e.pc = "done" /\ e.seen = d.seen /\ e.done = d.done /\ DriverSound(d) /\ WaitedSound(d)
    BY <1>1, <2>1, DriverOther
  <2>4. drivers' = (drivers \ {d}) \union {e}
    BY <1>3, <2>2 DEF Hi!Check, Hi!Becomes
  <2>5. DriverSound(e)'
    BY <1>1, <1>2, <1>3, <2>3 DEF DriverSound, Hi!Intended, Hi!ExpiredAt
  <2>6. WaitedSound(e)'
    BY <1>1, <1>2, <2>3 DEF WaitedSound, Outstanding, Hi!Intended, Hi!ExpiredAt
  <2> QED
    BY <1>2, <2>3, <2>4, <2>5, <2>6, DriverGoesOn DEF HiveInv
<1>4. CASE d.done # d.tables
  <2>0. PICK t : t = CHOOSE u \in d.tables : u \notin d.done
    OBVIOUS
  <2>1. t \in d.tables /\ t \notin d.done
    BY <1>4, <2>0 DEF HiveInv, DriverSound
  <2>a. PICK x : x = [table |-> t, expired |-> Hi!ExpiredAt(t, hour)]
    OBVIOUS
  <2>b. t \in Hi!Tables /\ d.at \in Int /\ hour \in Int /\ d.at <= hour
    BY <1>1, <2>1 DEF Drivers, HiveInv, HiveTypes, DriverSound
  <2>c. x \in Items /\ x.table = t /\ (x.expired <=> Hi!ExpiredAt(t, hour))
    <3>1. Hi!ExpiredAt(t, hour) \in BOOLEAN
      BY <2>b DEF Hi!ExpiredAt
    <3> QED
      BY <2>a, <2>b, <3>1 DEF Items
  <2>2. PICK e : e = With(d, "act", x, d.seen, d.done)
    OBVIOUS
  <2>3. e = [d EXCEPT !.pc = "act", !.item = x]
    BY <1>1, <2>2 DEF Drivers, With
  <2>4. /\ e \in Drivers /\ e.id = d.id /\ e.action = d.action /\ e.tables = d.tables /\ e.at = d.at
        /\ e.pc = "act" /\ e.item = x /\ e.seen = d.seen /\ e.done = d.done /\ DriverSound(d) /\ WaitedSound(d)
    BY <1>1, <2>2, <2>c, DriverOther
  <2>5. drivers' = (drivers \ {d}) \union {e} /\ Hi!Valid(d)
    BY <1>4, <2>0, <2>3, <2>a DEF Hi!Check, Hi!Becomes
  <2>6. Hi!ExpiredAt(t, d.at) => Hi!ExpiredAt(t, hour)
    BY <2>b, Overdue
  <2>7. d.action = "register" => ~ Hi!ExpiredAt(t, hour)
    BY <2>1, <2>5 DEF Hi!Valid
  <2>8. DriverSound(e)'
    BY <1>2, <2>1, <2>4, <2>6, <2>7, <2>c DEF DriverSound, Hi!Intended, Hi!ExpiredAt
  <2>9. WaitedSound(e)'
    BY <1>1, <1>2, <2>4 DEF WaitedSound, Outstanding, Hi!Intended, Hi!ExpiredAt
  <2> QED
    BY <1>2, <2>4, <2>5, <2>8, <2>9, DriverGoesOn DEF HiveInv
<1> QED
  BY <1>3, <1>4

\* The table acted on is done with.
LEMMA Done ==
    ASSUME HiveInv, NEW d \in drivers, d.pc = "act", Hi!Did(d)
    PROVE  \E e \in Drivers :
             /\ e.id = d.id /\ e.action = d.action /\ e.tables = d.tables /\ e.at = d.at
             /\ e.pc = "next" /\ e.seen = d.seen /\ e.done = d.done \union {d.item.table}
             /\ DriverSound(d) /\ WaitedSound(d) /\ drivers' = (drivers \ {d}) \union {e}
             /\ d.item.table \in d.tables /\ d.item.table \in Hi!Tables
<1>1. d \in Drivers /\ d.seen \subseteq Hi!Tables /\ d.done \subseteq Hi!Tables /\ d.tables \subseteq Hi!Tables
  BY DEF HiveInv, HiveTypes, Drivers
<1>2. d.item.table \in d.tables
  BY DEF HiveInv, DriverSound
<1>3. PICK e : e = With(d, "next", Unset, d.seen, d.done \union {d.item.table})
  OBVIOUS
<1>4. e = [d EXCEPT !.pc = "next", !.item = Unset, !.done = @ \union {d.item.table}]
  BY <1>1, <1>3 DEF Drivers, With
<1>5. d.done \union {d.item.table} \subseteq Hi!Tables
  BY <1>1, <1>2
<1>6. /\ e \in Drivers /\ e.id = d.id /\ e.action = d.action /\ e.tables = d.tables /\ e.at = d.at
      /\ e.pc = "next" /\ e.seen = d.seen /\ e.done = d.done \union {d.item.table}
      /\ DriverSound(d) /\ WaitedSound(d)
  BY <1>1, <1>3, <1>5, DriverOther
<1> QED
  BY <1>1, <1>2, <1>4, <1>6 DEF Hi!Did, Hi!Becomes

LEMMA CleanRight == ASSUME HiveInv, NEW d \in drivers, Hi!Clean(d) PROVE HiveInv'
<1>0. /\ d.pc = "act" /\ d.action = "cleanup" /\ Hi!Did(d)
      /\ UNCHANGED <<hour, intent, backend, other, session, purged, acknowledged, late>>
      /\ catalog' \subseteq catalog
      /\ \A t \in catalog \ catalog' : t = d.item.table /\ d.item.expired
      /\ d.item.expired /\ d.item.table \in d.seen => d.item.table \notin catalog'
  BY DEF Hi!Clean, Hi!Droppable, Hi!authority
<1>1. PICK e \in Drivers :
        /\ e.id = d.id /\ e.action = d.action /\ e.tables = d.tables /\ e.at = d.at
        /\ e.pc = "next" /\ e.seen = d.seen /\ e.done = d.done \union {d.item.table}
        /\ DriverSound(d) /\ WaitedSound(d) /\ drivers' = (drivers \ {d}) \union {e}
        /\ d.item.table \in d.tables /\ d.item.table \in Hi!Tables
  BY <1>0, Done
<1>2. /\ d.item.expired => Hi!ExpiredAt(d.item.table, hour)
      /\ Hi!ExpiredAt(d.item.table, d.at) => d.item.expired
  BY <1>0, <1>1 DEF DriverSound
<1>3. DriverSound(e)'
  BY <1>0, <1>1 DEF DriverSound
<1>4. WaitedSound(e)'
  <2>1. Outstanding(d) => Outstanding(e)'
    BY <1>0, <1>1, <1>2 DEF Outstanding, Hi!ExpiredAt
  <2> QED
    BY <1>0, <1>1, <2>1 DEF WaitedSound, Hi!Intended
<1>5. /\ catalog' \subseteq Hi!Intended \intersect backend
      /\ \A t \in catalog : t \in catalog' \/ Hi!ExpiredAt(t, hour)
      /\ catalog' \ catalog = {}
  BY <1>0, <1>2 DEF HiveInv
<1> QED
  BY <1>0, <1>1, <1>3, <1>4, <1>5, DriverGoesOn

LEMMA CreateRight == ASSUME HiveInv, NEW d \in drivers, Hi!Create(d) PROVE HiveInv'
<1>0. /\ d.pc = "act" /\ d.action = "register" /\ catalog' = catalog \union {d.item.table}
      /\ late' = IF Hi!waiting(d) THEN late ELSE late \union {d.item.table}
      /\ UNCHANGED <<hour, intent, backend, other, session, purged, acknowledged>>
  BY DEF Hi!Create, Hi!authority
<1>1. d \in Drivers /\ d.item \in Items \union {Unset} /\ d.seen \subseteq Hi!Tables /\ d.done \subseteq Hi!Tables
  BY DEF HiveInv, HiveTypes, Drivers
<1>2. /\ d.item.table \in d.tables /\ d.item.table \in Hi!Tables /\ d.tables \subseteq Hi!Intended \intersect backend
      /\ ~ Hi!ExpiredAt(d.item.table, d.at)
  BY <1>0 DEF HiveInv, DriverSound, Hi!Intended
<1>3. PICK e : e = With(d, "act", d.item, d.seen \union {d.item.table}, d.done)
  OBVIOUS
<1>4. e = [d EXCEPT !.seen = @ \union {d.item.table}]
  BY <1>0, <1>1, <1>3 DEF Drivers, With
<1>5. d.seen \union {d.item.table} \subseteq Hi!Tables
  BY <1>1, <1>2
<1>6. /\ e \in Drivers /\ e.id = d.id /\ e.action = d.action /\ e.tables = d.tables /\ e.at = d.at
      /\ e.pc = "act" /\ e.item = d.item /\ e.done = d.done /\ DriverSound(d) /\ WaitedSound(d)
  BY <1>1, <1>3, <1>5, DriverOther
<1>7. drivers' = (drivers \ {d}) \union {e}
  BY <1>4 DEF Hi!Create, Hi!Becomes
<1>8. DriverSound(e)'
  BY <1>0, <1>6 DEF DriverSound, Hi!Intended, Hi!ExpiredAt
<1>9. WaitedSound(e)'
  BY <1>0, <1>6 DEF WaitedSound
<1>10. catalog' \subseteq Hi!Intended \intersect backend
  BY <1>0, <1>2 DEF HiveInv
<1>11. \A t \in catalog' \ catalog : t \in late' \/ (Hi!waiting(d) /\ ~ Hi!ExpiredAt(t, d.at))
  BY <1>0, <1>2
<1> QED
  BY <1>0, <1>6, <1>7, <1>8, <1>9, <1>10, <1>11, DriverGoesOn

LEMMA CatalogRead == ASSUME HiveInv, NEW d \in drivers, Hi!Read(d) PROVE HiveInv'
<1>0. /\ d.pc = "act" /\ d.action # "cleanup" /\ d.item.table \in catalog /\ Hi!Did(d)
      /\ UNCHANGED <<hour, intent, backend, other, catalog, session, purged, acknowledged, late>>
  BY DEF Hi!Read, Hi!authority
<1>1. PICK e \in Drivers :
        /\ e.id = d.id /\ e.action = d.action /\ e.tables = d.tables /\ e.at = d.at
        /\ e.pc = "next" /\ e.seen = d.seen /\ e.done = d.done \union {d.item.table}
        /\ DriverSound(d) /\ WaitedSound(d) /\ drivers' = (drivers \ {d}) \union {e}
        /\ d.item.table \in d.tables /\ d.item.table \in Hi!Tables
  BY <1>0, Done
<1>2. DriverSound(e)'
  BY <1>0, <1>1 DEF DriverSound, Hi!Intended, Hi!ExpiredAt
<1>3. WaitedSound(e)'
  BY <1>0, <1>1 DEF WaitedSound
<1> QED
  BY <1>0, <1>1, <1>2, <1>3, DriverGoesOn DEF HiveInv

-----------------------------------------------------------------------------
LEMMA HiveStep == ASSUME HiveInv, [Hi!Next]_(Hi!vars) PROVE HiveInv'
<1>0. hour \in Nat /\ other \in Nat
  BY DEF HiveInv, HiveTypes
<1>1. CASE Hi!Reserve \/ Hi!RegisterBackend \/ Hi!Planned \/ Hi!Verified
  BY <1>1, ReserveRight, BackendRight, PlannedRight, VerifiedRight
<1>2. CASE \E action \in {"cleanup", "register", "verify"} : Hi!Ask(action)
  BY <1>2, AskRight DEF Requested
<1>3. CASE \E d \in drivers : Hi!Reply(d) \/ Hi!Inspect(d) \/ Hi!Check(d) \/ Hi!Clean(d) \/ Hi!Create(d) \/ Hi!Read(d)
  BY <1>3, ReplyRight, InspectRight, CheckRight, CleanRight, CreateRight, CatalogRead
<1>4. CASE Hi!Fail \/ Hi!SessionDies
  BY <1>0, <1>4, NothingMade DEF Hi!Fail, Hi!SessionDies, Hi!authority
<1>5. CASE Hi!Elsewhere \/ Hi!Tick
  BY <1>0, <1>5, NothingMade DEF Hi!Elsewhere, Hi!Tick, Hi!authority
<1>6. CASE \E d \in drivers : Hi!DriverEnds(d)
  BY <1>0, <1>6, NothingMade DEF Hi!DriverEnds, Hi!authority
<1>7. CASE \E o \in Operations, r \in Hi!Releases : Hi!Begin(o, r)
  BY <1>7, BeginRight
<1>8. CASE UNCHANGED Hi!vars
  BY <1>0, <1>8, NothingMade DEF Hi!vars, Hi!authority
<1> QED
  BY <1>1, <1>2, <1>3, <1>4, <1>5, <1>6, <1>7, <1>8 DEF Hi!Next, Hi!Steps, Operations

\* No table exists that was not written down and registered for expiry before, a cleanup's
\* word holds but for what a driver made that nobody waited for, and what was reported as
\* registered is there, verified, until it expires.
THEOREM CatalogIsSound == Hi!Spec => []CatalogSound
<1>1. Hi!Init => HiveInv
  BY HiveStarts
<1>2. HiveInv /\ [Hi!Next]_(Hi!vars) => HiveInv'
  BY HiveStep
<1>3. HiveInv => CatalogSound
  BY DEF HiveInv, ReceiptSound, Confirmed, Delivered, CatalogSound, Hi!CatalogSound
<1> QED
  BY <1>1, <1>2, <1>3, PTL DEF Hi!Spec

-----------------------------------------------------------------------------
(* Dimensions. What is admitted is well formed; and receipts of what really  *)
(* happened say what happened.                                               *)

Attested(a) ==
    /\ a.release \in Editions /\ a.effective \in {Unset, Declared[a.release]}
    /\ a.observed \in Di!Times /\ a.checked \in a.observed..Cutoff
    /\ a.effective # Unset => a.effective <= a.observed
    /\ world # Unset =>
        /\ \A t \in a.observed..a.checked : Di!LiveIn(world, t) = {a.release}
        /\ (a.effective # Unset) <=> a.release \in world.verified
Recounted(c) ==
    /\ c.release \in Editions /\ c.from \in Di!Times /\ c.to \in (c.from + 1)..Cutoff
    /\ world # Unset =>
        /\ \A t \in c.from..(c.to - 1) : Di!LiveIn(world, t) = {c.release}
        /\ c.release \in Di!Verified
DimensionsInv ==
    /\ world \in Di!Worlds \union {Unset}
    /\ \A a \in attested : Attested(a)
    /\ \A c \in covered : Recounted(c)

LEMMA DimensionsConstants ==
    Cutoff \in Nat /\ \A r \in Editions : Declared[r] \in Int /\ 0 <= Declared[r] /\ Declared[r] <= Cutoff
BY ProgramsAssumption DEF ProgramsAssumption, Di!DimensionsAssumption

LEMMA VerifiedIs == \A r : r \in Di!Verified <=> \E a \in attested : a.release = r /\ a.effective # Unset
BY DEF Di!Verified

LEMMA AtEventIs == \A t, r : r \in Di!AtEvent(t) <=> \E c \in covered : c.release = r /\ c.from <= t /\ t < c.to
BY DEF Di!AtEvent

LEMMA CurrentIs == \A t, r : r \in Di!Current(t) <=> \E a \in attested : a.release = r /\ a.observed <= t /\ t <= a.checked
BY DEF Di!Current

\* The receipts as numbers.
LEMMA ReceiptShape ==
    ASSUME DimensionsInv
    PROVE  /\ \A a \in attested : /\ a.release \in Editions /\ a.observed \in Int /\ a.checked \in Int
                                  /\ 0 <= a.observed /\ a.observed <= a.checked /\ a.checked <= Cutoff
                                  /\ a.effective # Unset => a.effective = Declared[a.release] /\ Declared[a.release] <= a.observed
           /\ \A c \in covered : /\ c.release \in Editions /\ c.from \in Int /\ c.to \in Int
                                 /\ 0 <= c.from /\ c.from < c.to /\ c.to <= Cutoff
           /\ Di!Verified \subseteq Editions
BY DimensionsConstants, VerifiedIs DEF DimensionsInv, Attested, Recounted, Di!Times

LEMMA DimensionsStarts == ASSUME Di!Init PROVE DimensionsInv
BY DEF Di!Init, DimensionsInv

LEMMA DimensionsStep == ASSUME DimensionsInv, [Di!Next]_(Di!vars) PROVE DimensionsInv'
<1>1. CASE UNCHANGED Di!vars
    BY <1>1 DEF Di!vars, DimensionsInv, Attested, Recounted, Di!Verified
<1>2. ASSUME NEW r \in Editions, NEW from \in Di!Times, NEW effective \in {Unset, Declared[r]},
             NEW checked \in from..Cutoff, Di!Attest(r, effective, from, checked)
      PROVE  DimensionsInv'
    <2>. DEFINE a == [release |-> r, effective |-> effective, observed |-> from, checked |-> checked]
    <2>1. attested' = attested \union {a} /\ world' = world /\ covered' = covered
        BY <1>2 DEF Di!Attest
    <2>2. Attested(a)
        BY <1>2 DEF Attested, Di!Attest, Di!Happened
    <2>3. \A b : Attested(b) => Attested(b)'
        BY <2>1 DEF Attested
    <2>4. Di!Verified \subseteq Di!Verified'
        BY <2>1 DEF Di!Verified
    <2>5. \A c : Recounted(c) => Recounted(c)'
        BY <2>1, <2>4 DEF Recounted
    <2>. HIDE DEF a
    <2>. QED  BY <2>1, <2>2, <2>3, <2>5 DEF DimensionsInv
<1>3. ASSUME NEW r \in Editions, NEW from \in Di!Times, NEW to \in (from + 1)..Cutoff, Di!Cover(r, from, to)
      PROVE  DimensionsInv'
    <2>. DEFINE c == [release |-> r, from |-> from, to |-> to]
    <2>1. covered' = covered \union {c} /\ world' = world /\ attested' = attested
        BY <1>3 DEF Di!Cover
    <2>2. Recounted(c)
        BY <1>3 DEF Recounted, Di!Cover, Di!Happened
    <2>3. \A b : Attested(b) => Attested(b)'
        BY <2>1 DEF Attested
    <2>4. Di!Verified' = Di!Verified
        BY <2>1 DEF Di!Verified
    <2>5. \A d : Recounted(d) => Recounted(d)'
        BY <2>1, <2>4 DEF Recounted
    <2>. HIDE DEF c
    <2>. QED  BY <2>1, <2>2, <2>3, <2>5 DEF DimensionsInv
<1>. QED  BY <1>1, <1>2, <1>3 DEF Di!Next

\* Of a set of receipts that is not refused: no two answers for a moment.
LEMMA NoTwoAnswers ==
    ASSUME DimensionsInv, ~ Di!Refused, NEW t \in Di!Times,
           NEW r \in Di!AtEvent(t) \union Di!Current(t), NEW s \in Di!AtEvent(t) \union Di!Current(t)
    PROVE  r = s
<1>0. t \in Int
    BY DimensionsConstants DEF Di!Times
<1>1. ~ Di!Overlapping /\ ~ Di!Disputed /\ \A c \in covered : ~ Di!Contradicted(c)
    BY DEF Di!Refused
<1>2. CASE r \in Di!AtEvent(t) /\ s \in Di!AtEvent(t)
    <2>1. PICK c \in covered : c.release = r /\ c.from <= t /\ t < c.to
        BY <1>2, AtEventIs
    <2>2. PICK d \in covered : d.release = s /\ d.from <= t /\ t < d.to
        BY <1>2, AtEventIs
    <2>. QED  BY <1>0, <1>1, <2>1, <2>2, ReceiptShape DEF Di!Overlapping
<1>3. CASE r \in Di!Current(t) /\ s \in Di!Current(t)
    <2>1. PICK a \in attested : a.release = r /\ a.observed <= t /\ t <= a.checked
        BY <1>3, CurrentIs
    <2>2. PICK b \in attested : b.release = s /\ b.observed <= t /\ t <= b.checked
        BY <1>3, CurrentIs
    <2>. QED  BY <1>0, <1>1, <2>1, <2>2, ReceiptShape DEF Di!Disputed, Di!Meet
<1>4. ASSUME NEW q \in Di!AtEvent(t), NEW p \in Di!Current(t)
      PROVE  q = p
    <2>1. PICK c \in covered : c.release = q /\ c.from <= t /\ t < c.to
        BY AtEventIs
    <2>2. PICK a \in attested : a.release = p /\ a.observed <= t /\ t <= a.checked
        BY CurrentIs
    <2>. QED  BY <1>0, <1>1, <2>1, <2>2, ReceiptShape DEF Di!Contradicted
<1>. QED  BY <1>2, <1>3, <1>4

\* Nor does another release begin where one is answered.
LEMMA NoneBegins ==
    ASSUME DimensionsInv, ~ Di!Refused, NEW r \in Di!Verified,
           NEW s \in Di!AtEvent(Declared[r]) \union Di!Current(Declared[r])
    PROVE  s = r \/ Di!Premature(s, Declared[r])
<1>. DEFINE t == Declared[r]
<1>0. r \in Editions /\ t \in Int
    BY ReceiptShape, DimensionsConstants
<1>1. CASE s \in Di!AtEvent(t)
    <2>1. PICK c \in covered : c.release = s /\ c.from <= t /\ t < c.to
        BY <1>1, AtEventIs
    <2>2. ~ Di!Unbased(c) /\ ~ Di!Crossing(c)
        BY DEF Di!Refused
    <2>. QED  BY <1>0, <2>1, <2>2, ReceiptShape, DimensionsConstants DEF Di!Unbased, Di!Crossing
<1>2. CASE s \in Di!Current(t) /\ s # r
    <2>1. PICK a \in attested : a.release = s /\ a.observed <= t /\ t <= a.checked
        BY <1>2, CurrentIs
    <2>2. ~ Di!Overtaken /\ ~ Di!Inconsistent
        BY DEF Di!Refused
    <2>3. t < Declared[s]
        BY <1>0, <1>2, <2>1, <2>2, ReceiptShape, DimensionsConstants DEF Di!Overtaken
    <2>4. s \notin Di!Verified
        <3>1. SUFFICES ASSUME s \in Di!Verified PROVE FALSE
            OBVIOUS
        <3>2. PICK b \in attested : b.release = s /\ b.effective # Unset
            BY <3>1, VerifiedIs
        <3>3. a.effective # Unset
            BY <2>1, <2>2, <3>2 DEF Di!Inconsistent
        <3>. QED  BY <1>0, <2>1, <2>3, <3>3, ReceiptShape, DimensionsConstants
    <2>. QED  BY <2>1, <2>3, <2>4 DEF Di!Premature
<1>. QED  BY <1>1, <1>2

\* At most one, as cardinality.
LEMMA AtMostOne ==
    ASSUME NEW S, \A x, y \in S : x = y
    PROVE  Cardinality(S) <= 1 /\ (S # {} => Cardinality(S) = 1)
<1>1. CASE S = {}
    BY <1>1, FS_EmptySet
<1>2. CASE S # {}
    <2>1. PICK x \in S : TRUE
        BY <1>2
    <2>2. S = {x}
        BY <2>1
    <2>. QED  BY <1>2, <2>2, FS_Singleton
<1>. QED  BY <1>1, <1>2

LEMMA AnswersAgree == ASSUME DimensionsInv PROVE Di!OneAnswer
<1>1. SUFFICES ASSUME ~ Di!Refused, NEW t \in Di!Times
               PROVE  /\ Cardinality(Di!AtEvent(t) \union Di!Current(t)) <= 1
                      /\ \A r \in Di!Verified : Declared[r] = t =>
                           \A s \in Di!AtEvent(t) \union Di!Current(t) : s = r \/ Di!Premature(s, t)
                      /\ \A key \in Di!Keys : Di!Joined(t, key) = {Di!Resolve(Di!AtEvent(t), key)}
    BY DEF Di!OneAnswer, Di!Cardinality, Cardinality
<1>2. \A r, s \in Di!AtEvent(t) \union Di!Current(t) : r = s
    BY <1>1, NoTwoAnswers
<1>3. Cardinality(Di!AtEvent(t) \union Di!Current(t)) <= 1
    BY <1>2, AtMostOne
<1>4. \A r \in Di!Verified : Declared[r] = t =>
        \A s \in Di!AtEvent(t) \union Di!Current(t) : s = r \/ Di!Premature(s, t)
    BY <1>1, NoneBegins
<1>5. ASSUME NEW key \in Di!Keys
      PROVE  Di!Joined(t, key) = {Di!Resolve(Di!AtEvent(t), key)}
    <2>1. CASE Di!AtEvent(t) = {}
        <3>1. Cardinality(Di!AtEvent(t)) # 1
            BY <2>1, FS_EmptySet
        <3>. QED  BY <2>1, <3>1 DEF Di!Joined, Di!Resolve, Di!Cardinality, Cardinality
    <2>2. CASE Di!AtEvent(t) # {}
        <3>1. PICK r \in Di!AtEvent(t) : TRUE
            BY <2>2
        <3>2. Di!AtEvent(t) = {r}
            BY <1>2, <3>1
        <3>3. Cardinality(Di!AtEvent(t)) = 1
            BY <3>2, FS_Singleton
        <3>4. Di!Resolve(Di!AtEvent(t), key) = Di!Status(r, key)
            BY <3>2, <3>3 DEF Di!Resolve, Di!Cardinality, Cardinality
        <3>. QED  BY <2>2, <3>2, <3>4 DEF Di!Joined
    <2>. QED  BY <2>1, <2>2
<1>. QED  BY <1>3, <1>4, <1>5

\* Where an interval ends: history of its release reaches a later verified one.
LEMMA ClosedBy ==
    ASSUME DimensionsInv, NEW r \in Editions, Di!ValidTo(r) # Unset
    PROVE  /\ r \in Di!Verified
           /\ \E c \in covered : c.release = r /\ c.to = Di!ValidTo(r)
           /\ \E q \in Di!Verified : Declared[q] > Declared[r] /\ Declared[q] = Di!ValidTo(r)
<1>. DEFINE ends == {c.to : c \in {d \in covered : d.release = r}}
            S == {Declared[s] : s \in {q \in Di!Verified : Declared[q] > Declared[r]}} \cap ends
<1>1. Di!ValidTo(r) = IF r \notin Di!Verified \/ S = {} THEN Unset ELSE Di!Min(S)
    BY DEF Di!ValidTo
<1>2. r \in Di!Verified /\ S # {} /\ Di!ValidTo(r) = Di!Min(S)
    BY <1>1
<1>3. S \subseteq Nat
    BY ReceiptShape, DimensionsConstants
<1>4. Di!ValidTo(r) \in S
    <2>. HIDE DEF S
    <2>. QED  BY <1>2, <1>3, SmallestIs DEF Di!Min
<1>. QED  BY <1>2, <1>4

LEMMA ClosedWhole == ASSUME DimensionsInv PROVE Di!ClosedIsWhole
<1>1. SUFFICES ASSUME ~ Di!Refused, NEW r \in Editions, Di!ValidTo(r) # Unset,
                      NEW t \in Declared[r]..(Di!ValidTo(r) - 1), NEW s \in Di!Verified,
                      s \in Di!AtEvent(t) \union Di!Current(t) \/ Declared[s] = t, s # r
               PROVE  FALSE
    BY DEF Di!ClosedIsWhole
<1>. DEFINE m == Di!ValidTo(r)
<1>2. PICK c \in covered : c.release = r /\ c.to = m
    BY <1>1, ClosedBy
<1>3. r \in Di!Verified
    BY <1>1, ClosedBy
<1>4. /\ s \in Editions /\ Declared[r] \in Int /\ Declared[s] \in Int /\ m \in Int /\ t \in Int
      /\ Declared[r] <= t /\ t < m
    BY <1>1, <1>2, ReceiptShape, DimensionsConstants
<1>. HIDE DEF m
<1>5. Declared[s] # Declared[r]
    BY <1>1, <1>3 DEF Di!Refused, Di!SameInstant
<1>6. ~ (Declared[r] < Declared[s] /\ Declared[s] <= t)
    <2>1. ~ Di!Crossing(c)
        BY <1>1 DEF Di!Refused
    <2>. QED  BY <1>1, <1>2, <1>4, <2>1 DEF Di!Crossing
<1>7. CASE Declared[s] = t
    BY <1>4, <1>5, <1>6, <1>7
<1>8. CASE s \in Di!AtEvent(t)
    <2>1. PICK d \in covered : d.release = s /\ d.from <= t /\ t < d.to
        BY <1>8, AtEventIs
    <2>2. ~ Di!Unbased(d) /\ ~ Di!Crossing(d)
        BY <1>1 DEF Di!Refused
    <2>3. Declared[s] <= t
        BY <1>4, <2>1, <2>2, ReceiptShape DEF Di!Unbased
    <2>4. Declared[s] < Declared[r] /\ Declared[r] < d.to
        BY <1>4, <1>5, <1>6, <2>1, <2>3, ReceiptShape
    <2>. QED  BY <1>1, <1>3, <1>4, <2>1, <2>2, <2>4 DEF Di!Crossing
<1>9. CASE s \in Di!Current(t)
    <2>1. PICK a \in attested : a.release = s /\ a.observed <= t /\ t <= a.checked
        BY <1>9, CurrentIs
    <2>2. PICK b \in attested : b.release = s /\ b.effective # Unset
        BY VerifiedIs
    <2>3. a.effective # Unset
        BY <1>1, <2>1, <2>2 DEF Di!Refused, Di!Inconsistent
    <2>4. Declared[s] <= t
        BY <1>4, <2>1, <2>3, ReceiptShape
    <2>5. Declared[s] < Declared[r] /\ Declared[r] <= a.checked
        BY <1>4, <1>5, <1>6, <2>1, <2>4, ReceiptShape
    <2>6. ~ Di!Overtaken
        BY <1>1 DEF Di!Refused
    <2>. QED  BY <1>1, <1>3, <1>4, <2>1, <2>5, <2>6 DEF Di!Overtaken
<1>. QED  BY <1>1, <1>7, <1>8, <1>9

\* What it is to be live at a moment of a world.
LEMMA Live ==
    ASSUME world \in Di!Worlds, NEW t \in Int
    PROVE  /\ world.deployed \subseteq Editions /\ world.verified \subseteq world.deployed
           /\ \A r \in Di!LiveIn(world, t) :
                /\ r \in world.deployed /\ Declared[r] <= t
                /\ \A s \in world.deployed : Declared[s] <= t => Declared[s] <= Declared[r] /\ (s # r => Declared[s] < Declared[r])
<1>1. /\ world.deployed \subseteq Editions /\ world.verified \subseteq world.deployed
      /\ \A r, s \in world.deployed : r # s => Declared[r] # Declared[s]
    BY DEF Di!Worlds
<1>2. \A r \in world.deployed : Declared[r] \in Int
    BY <1>1, DimensionsConstants
<1>. QED  BY <1>1, <1>2 DEF Di!LiveIn

LEMMA TruthAdmitted == ASSUME DimensionsInv, world # Unset PROVE ~ Di!Refused
<1>0. world \in Di!Worlds
    BY DEF DimensionsInv
<1>a. \A a \in attested : \A t \in a.observed..a.checked : Di!LiveIn(world, t) = {a.release}
    BY DEF DimensionsInv, Attested
<1>c. \A c \in covered : \A t \in c.from..(c.to - 1) : Di!LiveIn(world, t) = {c.release}
    BY DEF DimensionsInv, Recounted
<1>w. world.deployed \subseteq Editions /\ world.verified \subseteq world.deployed
    BY <1>0 DEF Di!Worlds
<1>v. Di!Verified \subseteq world.verified /\ Di!Verified \subseteq world.deployed
    BY <1>w, VerifiedIs DEF DimensionsInv, Attested
<1>1. ~ Di!Inconsistent
    BY DEF DimensionsInv, Attested, Di!Inconsistent
<1>2. ~ Di!Disputed
    <2>1. SUFFICES ASSUME NEW a \in attested, NEW b \in attested, a.release # b.release,
                          a.observed <= b.checked, b.observed <= a.checked
                   PROVE  FALSE
        BY DEF Di!Disputed, Di!Meet
    <2>2. \E t \in Int : t \in a.observed..a.checked /\ t \in b.observed..b.checked
        <3>1. CASE a.observed <= b.observed
            BY <2>1, <3>1, ReceiptShape
        <3>2. CASE b.observed <= a.observed
            BY <2>1, <3>2, ReceiptShape
        <3>. QED  BY <3>1, <3>2, ReceiptShape
    <2>. QED  BY <1>a, <2>1, <2>2
<1>3. ~ Di!SameInstant
    BY <1>0, <1>v DEF Di!SameInstant, Di!Worlds
<1>4. ~ Di!Overtaken
    <2>1. SUFFICES ASSUME NEW a \in attested, NEW r \in Di!Verified, r # a.release,
                          Declared[a.release] <= Declared[r], Declared[r] <= a.checked
                   PROVE  FALSE
        BY DEF Di!Overtaken
    <2>2. a.checked \in Int /\ a.release \in Di!LiveIn(world, a.checked)
        BY <1>a, ReceiptShape
    <2>3. a.release \in Editions /\ r \in Editions /\ Declared[a.release] \in Int /\ Declared[r] \in Int
        BY ReceiptShape, DimensionsConstants
    <2>. QED  BY <1>0, <1>v, <2>1, <2>2, <2>3, Live
<1>5. ~ Di!Overlapping
    <2>1. SUFFICES ASSUME NEW c \in covered, NEW d \in covered, c.release # d.release,
                          c.from < d.to, d.from < c.to
                   PROVE  FALSE
        BY DEF Di!Overlapping
    <2>2. \E t \in Int : t \in c.from..(c.to - 1) /\ t \in d.from..(d.to - 1)
        <3>1. CASE c.from <= d.from
            BY <2>1, <3>1, ReceiptShape
        <3>2. CASE d.from <= c.from
            BY <2>1, <3>2, ReceiptShape
        <3>. QED  BY <3>1, <3>2, ReceiptShape
    <2>. QED  BY <1>c, <2>1, <2>2
<1>6. ASSUME NEW c \in covered
      PROVE  ~ Di!Unbased(c) /\ ~ Di!Crossing(c) /\ ~ Di!Contradicted(c)
    <2>1. /\ c.from \in Int /\ c.to \in Int /\ c.from < c.to /\ c.release \in Editions
          /\ Declared[c.release] \in Int
        BY ReceiptShape, DimensionsConstants
    <2>2. ~ Di!Unbased(c)
        <3>1. c.release \in Di!Verified
            BY DEF DimensionsInv, Recounted
        <3>2. c.release \in Di!LiveIn(world, c.from)
            BY <1>c, <2>1
        <3>3. Declared[c.release] <= c.from
            BY <1>0, <2>1, <3>2, Live
        <3>. QED  BY <2>1, <3>1, <3>3 DEF Di!Unbased
    <2>3. ~ Di!Crossing(c)
        <3>1. SUFFICES ASSUME NEW r \in Di!Verified, r # c.release,
                              Declared[c.release] <= Declared[r], Declared[r] < c.to
                       PROVE  FALSE
            BY DEF Di!Crossing
        <3>2. c.to - 1 \in Int /\ c.release \in Di!LiveIn(world, c.to - 1)
            BY <1>c, <2>1
        <3>3. Declared[r] \in Int /\ Declared[r] <= c.to - 1
            BY <2>1, <3>1, ReceiptShape, DimensionsConstants
        <3>. QED  BY <1>0, <1>v, <2>1, <3>1, <3>2, <3>3, Live
    <2>4. ~ Di!Contradicted(c)
        <3>1. SUFFICES ASSUME NEW a \in attested, a.release # c.release,
                              c.from <= a.checked, a.observed < c.to
                       PROVE  FALSE
            BY DEF Di!Contradicted
        <3>2. \E t \in Int : t \in c.from..(c.to - 1) /\ t \in a.observed..a.checked
            <4>1. CASE c.from <= a.observed
                BY <2>1, <3>1, <4>1, ReceiptShape
            <4>2. CASE a.observed <= c.from
                BY <2>1, <3>1, <4>2, ReceiptShape
            <4>. QED  BY <2>1, <4>1, <4>2, ReceiptShape
        <3>. QED  BY <1>a, <1>c, <3>1, <3>2
    <2>. QED  BY <2>2, <2>3, <2>4
<1>. QED  BY <1>1, <1>2, <1>3, <1>4, <1>5, <1>6 DEF Di!Refused

LEMMA TruthTold == ASSUME DimensionsInv PROVE Di!TruthIsTold
<1>1. SUFFICES ASSUME world # Unset
               PROVE  /\ \A t \in Di!Times : Di!AtEvent(t) \union Di!Current(t) \subseteq Di!LiveIn(world, t)
                      /\ \A r \in {q \in Di!Verified : Di!ValidTo(q) # Unset} :
                            /\ Di!LiveIn(world, Di!ValidTo(r)) # {r}
                            /\ \A t \in Declared[r]..(Di!ValidTo(r) - 1) : Di!LiveIn(world, t) = {r}
    BY TruthAdmitted DEF Di!TruthIsTold
<1>0. world \in Di!Worlds
    BY <1>1 DEF DimensionsInv
<1>w. world.deployed \subseteq Editions /\ world.verified \subseteq world.deployed
    BY <1>0 DEF Di!Worlds
<1>v. Di!Verified \subseteq world.deployed
    BY <1>1, <1>w, VerifiedIs DEF DimensionsInv, Attested
<1>2. ASSUME NEW t \in Di!Times
      PROVE  Di!AtEvent(t) \union Di!Current(t) \subseteq Di!LiveIn(world, t)
    <2>0. t \in Int
        BY DimensionsConstants DEF Di!Times
    <2>1. ASSUME NEW r \in Di!AtEvent(t)
          PROVE  r \in Di!LiveIn(world, t)
        <3>1. PICK c \in covered : c.release = r /\ c.from <= t /\ t < c.to
            BY AtEventIs
        <3>2. t \in c.from..(c.to - 1)
            BY <2>0, <3>1, ReceiptShape
        <3>. QED  BY <1>1, <3>1, <3>2 DEF DimensionsInv, Recounted
    <2>2. ASSUME NEW r \in Di!Current(t)
          PROVE  r \in Di!LiveIn(world, t)
        <3>1. PICK a \in attested : a.release = r /\ a.observed <= t /\ t <= a.checked
            BY CurrentIs
        <3>2. t \in a.observed..a.checked
            BY <2>0, <3>1, ReceiptShape
        <3>. QED  BY <1>1, <3>1, <3>2 DEF DimensionsInv, Attested
    <2>. QED  BY <2>1, <2>2
<1>3. ASSUME NEW r \in Di!Verified, Di!ValidTo(r) # Unset
      PROVE  /\ Di!LiveIn(world, Di!ValidTo(r)) # {r}
             /\ \A t \in Declared[r]..(Di!ValidTo(r) - 1) : Di!LiveIn(world, t) = {r}
    <2>. DEFINE m == Di!ValidTo(r)
    <2>0. r \in Editions
        BY ReceiptShape
    <2>1. PICK c \in covered : c.release = r /\ c.to = m
        BY <1>3, <2>0, ClosedBy
    <2>2. PICK q \in Di!Verified : Declared[q] > Declared[r] /\ Declared[q] = m
        BY <1>3, <2>0, ClosedBy
    <2>3. /\ m \in Int /\ c.from \in Int /\ c.from < m /\ Declared[r] \in Int /\ q \in Editions
          /\ r \in world.deployed /\ q \in world.deployed
        BY <1>v, <2>0, <2>1, ReceiptShape, DimensionsConstants
    <2>. HIDE DEF m
    <2>4. Di!LiveIn(world, m) # {r}
        BY <1>0, <2>2, <2>3, Live
    <2>5. \A t \in c.from..(m - 1) : Di!LiveIn(world, t) = {r}
        BY <1>1, <2>1 DEF DimensionsInv, Recounted
    <2>6. ASSUME NEW t \in Declared[r]..(m - 1), t < c.from
          PROVE  Di!LiveIn(world, t) = {r}
        <3>1. r \in Di!LiveIn(world, c.from)
            BY <2>3, <2>5
        <3>2. \A s \in world.deployed : Declared[s] \in Int
            BY <1>w, DimensionsConstants
        <3>3. t \in Int /\ Declared[r] <= t
            BY <2>3
        <3>4. \A s \in world.deployed :
                Declared[s] <= t => Declared[s] <= Declared[r] /\ (s # r => Declared[s] < Declared[r])
            BY <1>0, <2>3, <2>6, <3>1, <3>2, <3>3, Live
        <3>. QED  BY <2>3, <3>2, <3>3, <3>4 DEF Di!LiveIn
    <2>. QED  BY <2>3, <2>4, <2>5, <2>6 DEF m
<1>. QED  BY <1>2, <1>3

\* Dimensions: an artifact answers a moment with one release at most; an interval that is
\* closed holds no other; receipts of what really happened are never refused, and it says
\* what happened (build_bundle and the index of an artifact).
THEOREM AnswersAreSound == Di!Spec => []DimensionsSound
<1>1. Di!Init => DimensionsInv
    BY DimensionsStarts
<1>2. DimensionsInv /\ [Di!Next]_(Di!vars) => DimensionsInv'
    BY DimensionsStep
<1>3. DimensionsInv => DimensionsSound
    BY AnswersAgree, ClosedWhole, TruthTold DEF DimensionsSound, Di!DimensionsSound
<1>. QED  BY <1>1, <1>2, <1>3, PTL DEF Di!Spec
=============================================================================
