---------------------------- MODULE StoreProofs ----------------------------
(***************************************************************************)
(* What holds of the collector for every set of clients and batches, every  *)
(* retention and every number of crashes: nothing expires silently, readers *)
(* are never given a hole, and the collector keeps its abstract promise.   *)
(***************************************************************************)
EXTENDS Store, FiniteSetTheorems, SequenceTheorems, WellFoundedInduction, TLAPS

-----------------------------------------------------------------------------
(* Largest and smallest elements of bounded sets of numbers. *)

LEMMA Below ==
    ASSUME NEW x \in Nat, NEW y \in Nat, x < y
    PROVE  <<x, y>> \in OpToRel(<, Nat)
BY Zenon DEF OpToRel

LEMMA MinProperty ==
    ASSUME NEW S, S \subseteq Nat, S # {}
    PROVE  Min(S) \in S /\ \A y \in S : Min(S) <= y
<1>1. PICK x \in S : \A y \in S : ~(<<y, x>> \in OpToRel(<, Nat))
    BY WFMin, NatLessThanWellFounded
<1>2. \A y \in S : ~(y < x)
    BY <1>1, Below, Zenon
<1>3. \A y \in S : x <= y
    BY <1>2
<1>. QED  BY <1>3 DEF Min

LEMMA MaxProperty ==
    ASSUME NEW n \in Nat, NEW S, S \subseteq 0..n, S # {}
    PROVE  Max(S) \in S /\ \A y \in S : y <= Max(S)
<1>. DEFINE T == {n - s : s \in S}
<1>1. \A s \in S : s \in 0..n /\ n - s \in Nat
    OBVIOUS
<1>2. T \subseteq Nat /\ T # {}
    BY <1>1
<1>3. PICK x \in T : \A y \in T : x <= y
    <2>. HIDE DEF T
    <2>. QED  BY <1>2, MinProperty
<1>4. PICK s \in S : x = n - s
    BY <1>3
<1>5. \A y \in S : s >= y
    <2>. TAKE y \in S
    <2>1. n - s <= n - y
        BY <1>3, <1>4
    <2>. QED  BY <1>1, <2>1
<1>. QED  BY <1>4, <1>5 DEF Max

-----------------------------------------------------------------------------
(* Derived state in a state of the right type. *)

LEMMA LapsedType ==
    ASSUME LogTypeOK, NEW t
    PROVE  Lapsed(t) \subseteq Positions /\ Uncounted \subseteq Positions
BY DEF LogTypeOK, Lapsed, Uncounted

LEMMA LogLength ==
    ASSUME LogTypeOK
    PROVE  Len(log) \in Nat /\ Positions \subseteq 0..Len(log) /\ Positions \subseteq Nat
BY DEF LogTypeOK, Positions

LEMMA BoundaryProperty ==
    ASSUME LogTypeOK
    PROVE  /\ ReadBoundary \in 0..Len(log)
           /\ expired <= ReadBoundary
           /\ \A s \in Lapsed(now) : s <= ReadBoundary
           /\ ReadBoundary \in {expired} \union Lapsed(now)
<1>. DEFINE S == {expired} \union Lapsed(now)
<1>1. S \subseteq 0..Len(log) /\ S # {}
    BY LapsedType, LogLength DEF LogTypeOK
<1>2. Max(S) \in S /\ \A y \in S : y <= Max(S)
    <2>. HIDE DEF S
    <2>. QED  BY <1>1, LogLength, MaxProperty
<1>. QED  BY <1>1, <1>2 DEF ReadBoundary

LEMMA GapProperty ==
    ASSUME LogTypeOK
    PROVE  /\ AggregateGap = None \/ AggregateGap \in [first : Positions, last : Positions, count : Nat]
           /\ AggregateGap = None <=> (gap = None /\ Uncounted = {})
           /\ \A s \in Uncounted : AggregateGap.first <= s /\ s <= AggregateGap.last
           /\ gap # None => AggregateGap.first <= gap.first /\ gap.last <= AggregateGap.last
<1>1. Uncounted \subseteq Positions /\ Positions \subseteq Nat /\ IsFiniteSet(Uncounted)
    <2>1. IsFiniteSet(Positions)
        BY LogLength, FS_Interval DEF Positions
    <2>. QED  BY <2>1, LapsedType, LogLength, FS_Subset
<1>2. Cardinality(Uncounted) \in Nat
    BY <1>1, FS_CardinalityType
<1>3. CASE Uncounted = {}
    <2>1. AggregateGap = gap
        BY <1>3 DEF AggregateGap
    <2>2. gap = None \/ gap \in [first : Positions, last : Positions, count : Nat]
        BY DEF LogTypeOK
    <2>3. gap # None => gap.first <= gap.first /\ gap.last <= gap.last
        <3>1. gap # None => gap.first \in Nat /\ gap.last \in Nat
            BY <1>1, <2>2
        <3>. QED  BY <3>1
    <2>. QED  BY <1>3, <2>1, <2>2, <2>3
<1>4. CASE Uncounted # {} /\ gap = None
    <2>1. AggregateGap = [first |-> Min(Uncounted), last |-> Max(Uncounted),
                          count |-> Cardinality(Uncounted)]
        BY <1>4 DEF AggregateGap
    <2>2. Min(Uncounted) \in Uncounted /\ \A s \in Uncounted : Min(Uncounted) <= s
        BY <1>1, <1>4, MinProperty
    <2>3. Max(Uncounted) \in Uncounted /\ \A s \in Uncounted : s <= Max(Uncounted)
        BY <1>1, <1>4, LogLength, MaxProperty
    <2>4. AggregateGap \in [first : Positions, last : Positions, count : Nat]
        BY <1>1, <1>2, <2>1, <2>2, <2>3
    <2>5. AggregateGap # None
        BY <1>1, <2>4, StoreAssumption
    <2>. QED  BY <1>4, <2>1, <2>2, <2>3, <2>4, <2>5
<1>5. CASE Uncounted # {} /\ gap # None
    <2>. DEFINE L == Uncounted \union {gap.first}
                H == Uncounted \union {gap.last}
    <2>0. gap \in [first : Positions, last : Positions, count : Nat]
        BY <1>5 DEF LogTypeOK
    <2>1. AggregateGap = [first |-> Min(L), last |-> Max(H),
                          count |-> Cardinality(Uncounted) + gap.count]
        BY <1>5 DEF AggregateGap
    <2>2. Min(L) \in L /\ \A s \in L : Min(L) <= s
        <3>1. L \subseteq Nat /\ L # {}
            BY <1>1, <2>0
        <3>. HIDE DEF L
        <3>. QED  BY <3>1, MinProperty
    <2>3. Max(H) \in H /\ \A s \in H : s <= Max(H)
        <3>1. H \subseteq 0..Len(log) /\ H # {}
            BY <1>1, <2>0, LogLength
        <3>. HIDE DEF H
        <3>. QED  BY <3>1, LogLength, MaxProperty
    <2>4. AggregateGap \in [first : Positions, last : Positions, count : Nat]
        <3>1. Min(L) \in Positions /\ Max(H) \in Positions
            BY <1>1, <2>0, <2>2, <2>3
        <3>2. Cardinality(Uncounted) + gap.count \in Nat
            BY <1>2, <2>0
        <3>. HIDE DEF L, H
        <3>. QED  BY <2>1, <3>1, <3>2
    <2>5. AggregateGap # None
        BY <1>1, <2>4, StoreAssumption
    <2>6. AggregateGap.first = Min(L) /\ AggregateGap.last = Max(H)
        BY <2>1
    <2>7. /\ \A s \in Uncounted : Min(L) <= s /\ s <= Max(H)
          /\ Min(L) <= gap.first /\ gap.last <= Max(H)
        BY <2>2, <2>3
    <2>. HIDE DEF L, H
    <2>. QED  BY <1>5, <2>4, <2>5, <2>6, <2>7
<1>. QED  BY <1>3, <1>4, <1>5

LEMMA NextRowsProperty ==
    ASSUME LogTypeOK, NextRows # {}
    PROVE  Max(NextRows) \in Positions /\ Max(NextRows) > cursor
<1>1. NextRows \subseteq Backlog
    BY DEF NextRows
<1>2. NextRows \subseteq Positions
    BY <1>1 DEF Backlog, LogTypeOK
<1>3. Max(NextRows) \in NextRows
    BY <1>2, LogLength, MaxProperty
<1>. QED  BY <1>1, <1>2, <1>3 DEF Backlog
-----------------------------------------------------------------------------
(* Type correctness. *)

LEMMA Extending ==
    ASSUME NEW S, NEW s \in Seq(S), NEW t \in Seq(S)
    PROVE  /\ s \o t \in Seq(S)
           /\ Len(s \o t) = Len(s) + Len(t)
           /\ \A i \in 1..Len(s) : (s \o t)[i] = s[i]
           /\ Len(t) = 0 => s \o t = s
<1>1. Len(s) \in Nat /\ Len(t) \in Nat
    OBVIOUS
<1>2. Len(t) = 0 => t = << >>
    BY EmptySeq
<1>. QED  BY <1>1, <1>2, ConcatProperties, ConcatEmptySeq

LEMMA FunctionIsSeq ==
    ASSUME NEW n \in Nat, NEW S, NEW f \in [1..n -> S]
    PROVE  f \in Seq(S) /\ Len(f) = n
OBVIOUS

LEMMA CommitType ==
    ASSUME LogTypeOK, NEW c \in Clients, CommitIngest(c)
    PROVE  /\ LogTypeOK'
           /\ Len(log) <= Len(log') /\ Len(log') \in Nat
           /\ \A s \in Positions : log'[s] = log[s] /\ s \in Positions'
           /\ live' = live \union (Positions' \ Positions)
           /\ Len(log') = Len(log) => log' = log
<1>. DEFINE b == inflight[c].batch
            at == inflight[c].at
<1>1. b \in Batches /\ at \in Nat /\ b \in Seq(Accepted)
    BY StoreAssumption DEF CommitIngest, LogTypeOK
<1>2a. PICK n \in 0..Len(b) : \E f \in InOrder(Fresh(b), n) :
        LET rows == [i \in 1..n |-> [p |-> b[f[i]], at |-> at]]
        IN  /\ log' = log \o rows
            /\ live' = live \union {Len(log) + i : i \in 1..n}
            /\ seen' = seen \union {rows[i] : i \in 1..n}
    BY DEF CommitIngest
<1>2. PICK f \in InOrder(Fresh(b), n) :
        LET rows == [i \in 1..n |-> [p |-> b[f[i]], at |-> at]]
        IN  /\ log' = log \o rows
            /\ live' = live \union {Len(log) + i : i \in 1..n}
            /\ seen' = seen \union {rows[i] : i \in 1..n}
    BY <1>2a
<1>. DEFINE rows == [i \in 1..n |-> [p |-> b[f[i]], at |-> at]]
<1>3. n \in Nat
    BY <1>1
<1>4. \A i \in 1..n : b[f[i]] \in Accepted
    BY <1>1 DEF InOrder, Fresh
<1>5. rows \in Seq(Rows) /\ Len(rows) = n /\ \A i \in 1..n : rows[i] \in Rows
    <2>1. \A i \in 1..n : rows[i] \in Rows
        BY <1>1, <1>4 DEF Rows
    <2>2. rows \in [1..n -> Rows]
        BY <2>1
    <2>. HIDE DEF rows
    <2>. QED  BY <1>3, <2>1, <2>2, FunctionIsSeq
<1>6. log' = log \o rows /\ seen' = seen \union {rows[i] : i \in 1..n}
    BY <1>2
<1>. HIDE DEF rows, b, at
<1>7. /\ log' \in Seq(Rows) /\ Len(log') = Len(log) + n
      /\ \A s \in Positions : log'[s] = log[s] /\ s \in Positions'
      /\ n = 0 => log' = log
    <2>1. log \in Seq(Rows) /\ Len(log) \in Nat
        BY LogLength DEF LogTypeOK
    <2>2. log' \in Seq(Rows) /\ Len(log') = Len(log) + n /\ \A s \in 1..Len(log) : log'[s] = log[s]
        BY <1>5, <1>6, <2>1, Extending
    <2>3. n = 0 => log' = log
        BY <1>5, <1>6, <2>1, Extending
    <2>. QED  BY <1>3, <2>1, <2>2, <2>3 DEF Positions
<1>8. {Len(log) + i : i \in 1..n} = Positions' \ Positions
    <2>1. \A s \in (Len(log) + 1)..(Len(log) + n) : s - Len(log) \in 1..n /\ s = Len(log) + (s - Len(log))
        BY <1>3, LogLength
    <2>. QED  BY <1>3, <1>7, <2>1, LogLength DEF Positions
<1>9. live' = live \union (Positions' \ Positions)
    BY <1>2, <1>8
<1>10. inflight' \in [Clients -> {None} \union [batch : Batches, at : Nat]]
    BY DEF CommitIngest, LogTypeOK
<1>11. cursor \in 0..Len(log') /\ expired \in 0..Len(log') /\ Positions \subseteq Positions'
    BY <1>3, <1>7, LogLength DEF LogTypeOK
<1>12. gap = None \/ gap \in [first : Positions', last : Positions', count : Nat]
    BY <1>11 DEF LogTypeOK
<1>13. seen' \subseteq Rows /\ live' \subseteq Positions'
    BY <1>5, <1>6, <1>9, <1>11 DEF LogTypeOK
<1>14. LogTypeOK'
    BY <1>7, <1>10, <1>11, <1>12, <1>13 DEF LogTypeOK, CommitIngest
<1>. QED  BY <1>3, <1>7, <1>9, <1>14, LogLength

\* The type part of the state is preserved by every step.
LEMMA TypeStep ==
    ASSUME LogTypeOK, [Next]_storeVars
    PROVE  LogTypeOK'
<1>. USE DEF LogTypeOK, Positions
<1>1. ASSUME NEW c \in Clients, StartIngest(c)
      PROVE  LogTypeOK'
    BY <1>1 DEF StartIngest, database
<1>2. ASSUME NEW c \in Clients, CommitIngest(c)
      PROVE  LogTypeOK'
    BY <1>2, CommitType
<1>3. ASSUME NEW c \in Clients, RefuseIngest(c)
      PROVE  LogTypeOK'
    BY <1>3 DEF RefuseIngest, database
<1>4. CASE Wake
    BY <1>4 DEF Wake, database
<1>5. CASE Maintain
    <2>1. worker' \in [phase : {"sleep", "maintain", "aggregate", "publish"}, at : Nat,
                       more : BOOLEAN, failed : BOOLEAN]
        <3>1. Failed \/ Phase("aggregate")
            BY <1>5 DEF Maintain
        <3>2. CASE Failed
            BY <3>2 DEF Failed, Idle
        <3>3. CASE Phase("aggregate")
            BY <3>3 DEF Phase
        <3>. QED  BY <3>1, <3>2, <3>3
    <2>2. gap' = None \/ gap' \in [first : Positions, last : Positions, count : Nat]
        BY <1>5, GapProperty DEF Maintain
    <2>3. expired' \in 0..Len(log)
        BY <1>5, BoundaryProperty DEF Maintain
    <2>. QED  BY <1>5, <2>1, <2>2, <2>3 DEF Maintain
<1>6. CASE Aggregate
    <2>1. worker' \in [phase : {"sleep", "maintain", "aggregate", "publish"}, at : Nat,
                       more : BOOLEAN, failed : BOOLEAN]
        BY <1>6 DEF Aggregate, Phase
    <2>2. cursor' \in 0..Len(log)
        <3>1. cursor' = IF NextRows = {} THEN cursor ELSE Max(NextRows)
            BY <1>6 DEF Aggregate
        <3>2. CASE NextRows = {}
            BY <3>1, <3>2
        <3>3. CASE NextRows # {}
            BY <3>1, <3>3, NextRowsProperty, LogLength
        <3>. QED  BY <3>2, <3>3
    <2>. QED  BY <1>6, <2>1, <2>2 DEF Aggregate
<1>7. CASE Publish
    BY <1>7 DEF Publish, Idle
<1>8. CASE Blocked
    BY <1>8 DEF Blocked, Failed, Idle, database
<1>9. CASE WorkerError
    BY <1>9 DEF WorkerError, Failed, Idle, database
<1>10. CASE Crash
    BY <1>10 DEF Crash, Idle, database
<1>11. CASE Tick
    BY <1>11 DEF Tick, database
<1>12. CASE UNCHANGED storeVars
    BY <1>12 DEF storeVars, database
<1>. QED  BY <1>1, <1>2, <1>3, <1>4, <1>5, <1>6, <1>7, <1>8, <1>9, <1>10, <1>11, <1>12
          DEF Next, WorkerStep

\* The rows, the cursor, the receipt and the request table always have their
\* shape, whatever clients send and whenever the worker fails (Store).
THEOREM TypeCorrect == Spec => []LogTypeOK
<1>1. Init => LogTypeOK
    BY CalendarAssumption, StoreAssumption DEF Init, LogTypeOK, Positions, Idle
<1>2. LogTypeOK /\ [Next]_storeVars => LogTypeOK'
    BY TypeStep
<1>. QED  BY <1>1, <1>2, PTL DEF Spec

-----------------------------------------------------------------------------
(* Safety.  Nothing is deleted past the stored boundary, everything deleted *)
(* uncounted is in the stored receipt, and the receipt exists exactly when  *)
(* the boundary has overtaken the cursor.  maintain reads the clock once    *)
(* before the lock and once inside it, so it matters that the first reading *)
(* is never the later one.                                                 *)

DeletedBelowBoundary == \A s \in Positions : s \in live \/ s <= expired
ReceiptIffOvertaken == gap # None <=> expired > cursor

IInv ==
    /\ LogTypeOK
    /\ worker.at <= now
    /\ DeletedBelowBoundary
    /\ NoSilentLoss
    /\ ReceiptIffOvertaken

LEMMA EarlierLapsed ==
    ASSUME LogTypeOK, NEW t \in Nat, NEW u \in Nat, t <= u
    PROVE  Lapsed(t) \subseteq Lapsed(u)
<1>1. \A s \in live : log[s] \in Rows
    BY DEF LogTypeOK, Positions
<1>2. \A s \in live : log[s].at \in Nat
    BY <1>1 DEF Rows
<1>3. RawTTL \in Nat
    BY CalendarAssumption
<1>. QED  BY <1>2, <1>3 DEF Lapsed

LEMMA GapIff ==
    ASSUME LogTypeOK, ReceiptIffOvertaken
    PROVE  GapIffUncountedExpired
<1>1. Uncounted = {s \in Lapsed(now) : s > cursor}
    BY DEF Uncounted
<1>2. ReadBoundary > cursor <=> (expired > cursor \/ Uncounted # {})
    BY <1>1, BoundaryProperty, LapsedType, LogLength DEF LogTypeOK
<1>. QED  BY <1>2, GapProperty DEF GapIffUncountedExpired, ReceiptIffOvertaken

LEMMA MaintainSafe ==
    ASSUME IInv, Maintain
    PROVE  IInv'
<1>. USE DEF IInv
<1>1. LogTypeOK'
    BY TypeStep DEF Next, WorkerStep
<1>2. /\ gap' = AggregateGap /\ expired' = ReadBoundary
      /\ live' = live \ Lapsed(worker.at)
      /\ UNCHANGED <<now, log, cursor>>
    BY DEF Maintain
<1>3. Lapsed(worker.at) \subseteq Lapsed(now)
    BY EarlierLapsed DEF LogTypeOK
<1>4. worker'.at <= now'
    BY <1>2 DEF Maintain, Failed, Phase, Idle, LogTypeOK
<1>5. DeletedBelowBoundary'
    <2>. SUFFICES ASSUME NEW s \in Positions, s \notin live'
                  PROVE  s <= ReadBoundary
        BY <1>2 DEF DeletedBelowBoundary, Positions
    <2>1. CASE s \in live
        BY <1>2, <1>3, <2>1, BoundaryProperty
    <2>2. CASE s \notin live
        BY <2>2, BoundaryProperty, LogLength DEF DeletedBelowBoundary, LogTypeOK
    <2>. QED  BY <2>1, <2>2
<1>6. NoSilentLoss'
    <2>. SUFFICES ASSUME NEW s \in Positions, s \notin live', s > cursor
                  PROVE  AggregateGap # None /\ AggregateGap.first <= s /\ s <= AggregateGap.last
        BY <1>2, LogLength DEF NoSilentLoss, Positions, LogTypeOK
    <2>1. CASE s \in live
        <3>1. s \in Uncounted
            BY <1>2, <1>3, <2>1 DEF Uncounted
        <3>. QED  BY <3>1, GapProperty
    <2>2. CASE s \notin live
        <3>1. gap # None /\ gap.first <= s /\ s <= gap.last
            BY <2>2, LogLength DEF NoSilentLoss, LogTypeOK
        <3>2. AggregateGap # None /\ AggregateGap \in [first : Positions, last : Positions, count : Nat]
            BY <3>1, GapProperty
        <3>3. gap \in [first : Positions, last : Positions, count : Nat]
            BY <3>1 DEF LogTypeOK
        <3>4. AggregateGap.first <= gap.first /\ gap.last <= AggregateGap.last
            BY <3>1, GapProperty
        <3>5. /\ AggregateGap.first \in Nat /\ AggregateGap.last \in Nat
              /\ gap.first \in Nat /\ gap.last \in Nat /\ s \in Nat
            BY <3>2, <3>3, LogLength
        <3>. QED  BY <3>1, <3>2, <3>4, <3>5
    <2>. QED  BY <2>1, <2>2
<1>7. ReceiptIffOvertaken'
    BY <1>2, GapIff DEF ReceiptIffOvertaken, GapIffUncountedExpired
<1>. QED  BY <1>1, <1>4, <1>5, <1>6, <1>7

LEMMA CommitSafe ==
    ASSUME IInv, NEW c \in Clients, CommitIngest(c)
    PROVE  IInv'
<1>. USE DEF IInv
<1>1. UNCHANGED <<now, cursor, expired, gap, worker>>
    BY DEF CommitIngest
<1>2. LogTypeOK' /\ live' = live \union (Positions' \ Positions)
    BY CommitType
<1>3. DeletedBelowBoundary'
    BY <1>1, <1>2 DEF DeletedBelowBoundary
<1>4. NoSilentLoss'
    BY <1>1, <1>2 DEF NoSilentLoss
<1>. QED  BY <1>1, <1>2, <1>3, <1>4 DEF ReceiptIffOvertaken

LEMMA AggregateSafe ==
    ASSUME IInv, Aggregate
    PROVE  IInv' /\ ReadBoundary <= cursor /\ cursor <= cursor'
<1>. USE DEF IInv
<1>1. UNCHANGED <<now, log, live, expired, gap>> /\ worker'.at = worker.at
    BY DEF Aggregate, Phase, LogTypeOK
<1>2. LogTypeOK'
    BY TypeStep DEF Next, WorkerStep
<1>a. AggregateGap = None /\ cursor' = IF NextRows = {} THEN cursor ELSE Max(NextRows)
    BY DEF Aggregate
<1>b. /\ ReadBoundary \in Nat /\ cursor \in Nat /\ expired \in Nat /\ Positions \subseteq Nat
      /\ expired <= ReadBoundary
    BY BoundaryProperty, LogLength DEF LogTypeOK
<1>c. AggregateGap # None <=> ReadBoundary > cursor
    BY GapIff DEF GapIffUncountedExpired
<1>3. ReadBoundary <= cursor
    BY <1>a, <1>b, <1>c
<1>4. cursor' >= cursor
    <2>1. CASE NextRows = {}
        BY <1>a, <1>b, <2>1
    <2>2. CASE NextRows # {}
        BY <1>a, <1>b, <2>2, NextRowsProperty
    <2>. QED  BY <2>1, <2>2
<1>5. DeletedBelowBoundary'
    BY <1>1 DEF DeletedBelowBoundary, Positions
<1>6. NoSilentLoss'
    BY <1>1, <1>2, <1>4, LogLength DEF NoSilentLoss, Positions, LogTypeOK
<1>7. gap = None /\ expired <= cursor
    BY <1>a, <1>b, <1>3, GapProperty
<1>8. ReceiptIffOvertaken'
    BY <1>1, <1>2, <1>4, <1>7 DEF ReceiptIffOvertaken, LogTypeOK
<1>. QED  BY <1>1, <1>2, <1>3, <1>4, <1>5, <1>6, <1>8

\* Every other step leaves the rows, the cursor, the boundary and the receipt alone.
LEMMA OtherSteps ==
    ASSUME LogTypeOK, [Next]_storeVars,
           ~Maintain, ~Aggregate, \A c \in Clients : ~CommitIngest(c)
    PROVE  /\ UNCHANGED <<log, live, cursor, expired, gap>>
           /\ now' \in {now, now + 1}
           /\ worker'.at \in {worker.at, now, 0}
<1>. USE DEF LogTypeOK, database
<1>1. ASSUME NEW c \in Clients, StartIngest(c) \/ RefuseIngest(c)
      PROVE  UNCHANGED <<now, log, live, cursor, expired, gap, worker>>
    BY <1>1 DEF StartIngest, RefuseIngest
<1>2. CASE Wake
    BY <1>2 DEF Wake
<1>3. CASE Publish
    BY <1>3 DEF Publish, Idle
<1>4. CASE Blocked \/ WorkerError \/ Crash
    BY <1>4 DEF Blocked, WorkerError, Crash, Failed, Idle
<1>5. CASE Tick
    BY <1>5 DEF Tick
<1>6. CASE UNCHANGED storeVars
    BY <1>6 DEF storeVars
<1>. QED  BY <1>1, <1>2, <1>3, <1>4, <1>5, <1>6 DEF Next, WorkerStep

LEMMA SafetyStep ==
    ASSUME IInv, [Next]_storeVars
    PROVE  IInv'
<1>1. CASE Maintain
    BY <1>1, MaintainSafe
<1>2. CASE Aggregate
    BY <1>2, AggregateSafe
<1>3. CASE \E c \in Clients : CommitIngest(c)
    BY <1>3, CommitSafe
<1>4. CASE ~Maintain /\ ~Aggregate /\ \A c \in Clients : ~CommitIngest(c)
    <2>1. /\ UNCHANGED <<log, live, cursor, expired, gap>>
          /\ now' \in {now, now + 1} /\ worker'.at \in {worker.at, now, 0}
        BY <1>4, OtherSteps DEF IInv
    <2>2. LogTypeOK'
        BY TypeStep DEF IInv
    <2>3. worker'.at <= now'
        <3>1. now \in Nat /\ worker.at \in Nat /\ worker.at <= now
            BY DEF IInv, LogTypeOK
        <3>. QED  BY <2>1, <3>1
    <2>. QED  BY <2>1, <2>2, <2>3
              DEF IInv, DeletedBelowBoundary, NoSilentLoss, ReceiptIffOvertaken, Positions
<1>. QED  BY <1>1, <1>2, <1>3, <1>4

LEMMA SafetyInit == Init => IInv
<1>. SUFFICES ASSUME Init PROVE IInv
    OBVIOUS
<1>1. LogTypeOK
    BY CalendarAssumption, StoreAssumption DEF Init, LogTypeOK, Positions, Idle
<1>2. Positions = {} /\ gap = None /\ expired = 0 /\ cursor = 0 /\ worker.at = 0 /\ now \in Nat
    BY StoreAssumption DEF Init, Positions, Idle
<1>. QED  BY <1>1, <1>2 DEF IInv, DeletedBelowBoundary, NoSilentLoss, ReceiptIffOvertaken

LEMMA Safety == Spec => []IInv
    BY SafetyInit, SafetyStep, PTL DEF Spec

\* Raw events are deleted seven days after acceptance even when they were
\* never aggregated (Store.maintain); none of them disappears without being
\* counted or covered by the durable gap receipt.
THEOREM NothingLostSilently == Spec => []NoSilentLoss
<1>1. IInv => NoSilentLoss
    BY DEF IInv
<1>. QED  BY <1>1, Safety, PTL

\* Store.read answers 410 below the boundary and otherwise serves every
\* position above the reader's, although acceptance times are not in the order
\* of the positions and deletion uses an older clock reading.
THEOREM ReadersSeeNoHole == Spec => []ReadableSuffixComplete
<1>1. IInv => ReadableSuffixComplete
    <2>. SUFFICES ASSUME IInv, NEW s \in Positions, s > ReadBoundary
                  PROVE  s \in live
        BY DEF ReadableSuffixComplete
    <2>1. s \in Nat /\ expired \in Nat /\ ReadBoundary \in Nat /\ expired <= ReadBoundary
        BY BoundaryProperty, LogLength DEF IInv, LogTypeOK
    <2>. QED  BY <2>1 DEF IInv, DeletedBelowBoundary
<1>. QED  BY <1>1, Safety, PTL

\* sync_status: the aggregate gap and the read boundary never contradict one
\* another, before and after maintain has made them durable.
THEOREM GapAgreesWithBoundary == Spec => []GapIffUncountedExpired
<1>1. IInv => GapIffUncountedExpired
    BY GapIff DEF IInv
<1>. QED  BY <1>1, Safety, PTL

\* Both together, which is what a client of the read interface relies on.
THEOREM ReadersAreToldTruth == Spec => []ReadersToldTruth
<1>. QED  BY ReadersSeeNoHole, GapAgreesWithBoundary, PTL DEF ReadersToldTruth

-----------------------------------------------------------------------------
(* The collector keeps its promise. *)

BoundaryOK ==
    /\ ReadBoundary \in 0..Len(log) /\ expired <= ReadBoundary
    /\ \A s \in Lapsed(now) : s <= ReadBoundary

LEMMA BoundaryFact == LogTypeOK => BoundaryOK
    BY BoundaryProperty DEF BoundaryOK

\* Whatever has lapsed stays below the boundary, deleted or not.
LEMMA BoundaryGrows ==
    ASSUME LogTypeOK, LogTypeOK', expired <= expired',
           \A s \in Lapsed(now) : s \in Lapsed(now)' \/ s <= expired'
    PROVE  ReadBoundary <= ReadBoundary'
<1>1. /\ ReadBoundary \in {expired} \union Lapsed(now) /\ ReadBoundary \in Nat /\ expired \in Nat
    BY BoundaryProperty, LogLength DEF LogTypeOK
<1>2. BoundaryOK'
    BY BoundaryFact, PTL
<1>3. /\ expired' \in Nat /\ ReadBoundary' \in Nat /\ expired' <= ReadBoundary'
      /\ \A s \in Lapsed(now)' : s <= ReadBoundary'
    BY <1>2 DEF BoundaryOK, LogTypeOK
<1>4. CASE ReadBoundary = expired
    BY <1>1, <1>3, <1>4
<1>5. CASE ReadBoundary \in Lapsed(now)
    BY <1>1, <1>3, <1>5
<1>. QED  BY <1>1, <1>4, <1>5

\* Every step accepts, expires, counts, or is invisible to the readers.
LEMMA PromiseStep ==
    ASSUME IInv, IInv', [Next]_storeVars
    PROVE  [Promise!CollectorNext]_(Promise!collectorVars)
<1>. USE DEF Promise!CollectorNext, Promise!collectorVars
<1>1. /\ ReadBoundary \in 0..Len(log) /\ Len(log) \in Nat /\ cursor \in 0..Len(log)
      /\ \A s \in Lapsed(now) : s <= ReadBoundary
    BY BoundaryProperty, LogLength DEF IInv, LogTypeOK
<1>2. /\ ReadBoundary' \in 0..Len(log') /\ cursor' \in 0..Len(log')
    <2>1. LogTypeOK'
        BY DEF IInv
    <2>2. BoundaryOK'
        BY <2>1, BoundaryFact, PTL
    <2>. QED  BY <2>1, <2>2 DEF BoundaryOK, LogTypeOK
<1>3. CASE Maintain
    <2>1. expired' = ReadBoundary /\ UNCHANGED <<now, log, cursor>>
        BY <1>3 DEF Maintain
    <2>2. expired <= expired'
        BY <2>1, BoundaryProperty DEF IInv
    <2>3. \A s \in Lapsed(now) : s <= expired'
        BY <1>1, <2>1
    <2>4. ReadBoundary <= ReadBoundary'
        BY <2>2, <2>3, BoundaryGrows DEF IInv
    <2>. QED  BY <1>1, <1>2, <2>1, <2>4 DEF Promise!Expire
<1>4. CASE Aggregate
    <2>1. UNCHANGED <<now, log, live, expired>>
        BY <1>4 DEF Aggregate
    <2>2. ReadBoundary' = ReadBoundary
        BY <2>1 DEF ReadBoundary, Lapsed
    <2>3. ReadBoundary <= cursor /\ cursor <= cursor'
        BY <1>4, AggregateSafe
    <2>. QED  BY <1>1, <1>2, <2>1, <2>2, <2>3 DEF Promise!Count, Promise!Gap
<1>5. ASSUME NEW c \in Clients, CommitIngest(c)
      PROVE  [Promise!CollectorNext]_(Promise!collectorVars)
    <2>1. /\ Len(log) <= Len(log') /\ Len(log') \in Nat /\ live \subseteq live'
          /\ \A s \in Positions : log'[s] = log[s]
          /\ Len(log') = Len(log) => log' = log
          /\ live' = live \union (Positions' \ Positions)
        BY <1>5, CommitType DEF IInv
    <2>2. UNCHANGED <<now, cursor, expired>>
        BY <1>5 DEF CommitIngest
    <2>3. CASE Len(log') = Len(log)
        <3>1. live' = live /\ log' = log
            BY <2>1, <2>3 DEF Positions
        <3>2. ReadBoundary' = ReadBoundary
            BY <2>2, <3>1 DEF ReadBoundary, Lapsed
        <3>. QED  BY <2>2, <3>1, <3>2
    <2>4. CASE Len(log') # Len(log)
        <3>1. \A s \in Lapsed(now) : s \in Lapsed(now)'
            BY <2>1, <2>2 DEF Lapsed, IInv, LogTypeOK
        <3>2. ReadBoundary <= ReadBoundary'
            BY <2>2, <3>1, BoundaryGrows DEF IInv, LogTypeOK
        <3>. QED  BY <1>1, <1>2, <2>1, <2>2, <2>4, <3>2 DEF Promise!Accept
    <2>. QED  BY <2>3, <2>4
<1>6. CASE ~Maintain /\ ~Aggregate /\ \A c \in Clients : ~CommitIngest(c)
    <2>1. UNCHANGED <<log, live, cursor, expired>> /\ now' \in {now, now + 1}
        BY <1>6, OtherSteps DEF IInv
    <2>2. now \in Nat /\ now' \in Nat /\ now <= now'
        BY <2>1 DEF IInv, LogTypeOK
    <2>3. \A s \in Lapsed(now) : s \in Lapsed(now)'
        <3>1. Lapsed(now) \subseteq Lapsed(now')
            BY <2>2, EarlierLapsed DEF IInv
        <3>. QED  BY <2>1, <3>1 DEF Lapsed
    <2>4. ReadBoundary <= ReadBoundary'
        BY <2>1, <2>3, BoundaryGrows DEF IInv, LogTypeOK
    <2>. QED  BY <1>1, <1>2, <2>1, <2>4 DEF Promise!Expire
<1>. QED  BY <1>3, <1>4, <1>5, <1>6

\* The detailed collector, with its clock, tables, worker and crashes,
\* implements the accept/expire/count promise made to the readers (Collector).
THEOREM CollectorImplemented == Spec => RefinesCollector
<1>1. Init => Promise!CollectorInit
    <2>. SUFFICES ASSUME Init PROVE Promise!CollectorInit
        OBVIOUS
    <2>1. LogTypeOK
        BY SafetyInit DEF IInv
    <2>2. Len(log) = 0 /\ cursor = 0
        BY DEF Init
    <2>. QED  BY <2>1, <2>2, BoundaryProperty DEF Promise!CollectorInit
<1>2. IInv /\ IInv' /\ [Next]_storeVars => [Promise!CollectorNext]_(Promise!collectorVars)
    BY PromiseStep
<1>. QED  BY <1>1, <1>2, Safety, PTL DEF Spec, RefinesCollector, Promise!CollectorSpec

-----------------------------------------------------------------------------
(* No event is stored twice.  A key leaves the request table only when the  *)
(* acceptance window of its event has closed for every request that could   *)
(* still be waiting for the lock.                                          *)

Remembered == \A s \in Positions : log[s] \in seen \/ log[s].at + SeenTTL < now
Plausible == \A s \in Positions : Timely(log[s].p.occurred, log[s].at)
FreshRequests ==
    \A c \in Clients : inflight[c] # None =>
        /\ now <= inflight[c].at + MaxWait
        /\ \A i \in DOMAIN inflight[c].batch :
            Timely(inflight[c].batch[i].occurred, inflight[c].at)

OnceInv ==
    /\ LogTypeOK
    /\ worker.at <= now
    /\ Remembered /\ Plausible /\ FreshRequests
    /\ AcceptedOnce

LEMMA RowType ==
    ASSUME LogTypeOK, NEW s \in Positions
    PROVE  log[s] \in Rows /\ log[s].at \in Nat /\ log[s].p.occurred \in Nat
<1>1. log[s] \in Rows
    BY DEF LogTypeOK, Positions
<1>2. log[s].at \in Nat /\ log[s].p \in Accepted
    BY <1>1 DEF Rows
<1>. QED  BY <1>1, <1>2, StoreAssumption

LEMMA CommitOnce ==
    ASSUME OnceInv, NEW c \in Clients, CommitIngest(c)
    PROVE  Remembered' /\ Plausible' /\ AcceptedOnce'
<1>. USE DEF OnceInv
<1>. DEFINE b == inflight[c].batch
            at == inflight[c].at
<1>1. /\ b \in Batches /\ at \in Nat /\ b \in Seq(Accepted) /\ inflight[c] # None
      /\ UNCHANGED now
    BY StoreAssumption DEF CommitIngest, LogTypeOK
<1>2a. PICK n \in 0..Len(b) : \E f \in InOrder(Fresh(b), n) :
        LET rows == [i \in 1..n |-> [p |-> b[f[i]], at |-> at]]
        IN  /\ log' = log \o rows
            /\ live' = live \union {Len(log) + i : i \in 1..n}
            /\ seen' = seen \union {rows[i] : i \in 1..n}
    BY DEF CommitIngest
<1>2. PICK f \in InOrder(Fresh(b), n) :
        LET rows == [i \in 1..n |-> [p |-> b[f[i]], at |-> at]]
        IN  /\ log' = log \o rows
            /\ live' = live \union {Len(log) + i : i \in 1..n}
            /\ seen' = seen \union {rows[i] : i \in 1..n}
    BY <1>2a
<1>. DEFINE rows == [i \in 1..n |-> [p |-> b[f[i]], at |-> at]]
<1>3. n \in Nat /\ Len(log) \in Nat /\ log \in Seq(Rows)
    BY <1>1, LogLength DEF LogTypeOK
<1>4. \A i \in 1..n : f[i] \in Fresh(b) /\ f[i] \in DOMAIN b /\ f[i] \in Nat /\ b[f[i]] \in Accepted
    BY <1>1 DEF InOrder, Fresh
<1>5. \A i, j \in 1..n : i < j => f[i] < f[j]
    BY DEF InOrder
<1>6. rows \in Seq(Rows) /\ Len(rows) = n
    <2>1. \A i \in 1..n : rows[i] \in Rows
        BY <1>1, <1>4 DEF Rows
    <2>2. rows \in [1..n -> Rows]
        BY <2>1
    <2>. HIDE DEF rows
    <2>. QED  BY <1>3, <2>2, FunctionIsSeq
<1>7. log' = log \o rows /\ seen' = seen \union {rows[i] : i \in 1..n}
    BY <1>2
<1>8. /\ \A i \in 1..n : rows[i].p = b[f[i]] /\ rows[i].at = at
      /\ Len(log') = Len(log) + n
    <2>1. Len(log \o rows) = Len(log) + Len(rows)
        <3>. HIDE DEF rows
        <3>. QED  BY <1>3, <1>6, Extending
    <2>. QED  BY <1>6, <1>7, <2>1
<1>9. \A s \in Positions' :
        \/ s \in Positions /\ log'[s] = log[s]
        \/ s - Len(log) \in 1..n /\ log'[s] = rows[s - Len(log)]
    <2>. HIDE DEF rows
    <2>1. \A s \in 1..(Len(log) + Len(rows)) :
            (log \o rows)[s] = IF s <= Len(log) THEN log[s] ELSE rows[s - Len(log)]
        BY <1>3, <1>6, ConcatProperties
    <2>2. SUFFICES ASSUME NEW s \in 1..(Len(log) + n)
                   PROVE  \/ s \in Positions /\ log'[s] = log[s]
                          \/ s - Len(log) \in 1..n /\ log'[s] = rows[s - Len(log)]
        BY <1>8 DEF Positions
    <2>3. CASE s <= Len(log)
        BY <1>3, <1>6, <1>7, <2>1, <2>3 DEF Positions
    <2>4. CASE ~(s <= Len(log))
        <3>1. s - Len(log) \in 1..n
            BY <1>3, <2>4
        <3>. QED  BY <1>3, <1>6, <1>7, <2>1, <2>4, <3>1
    <2>. QED  BY <2>3, <2>4
<1>10. /\ now <= at + MaxWait
       /\ \A i \in 1..n : rows[i].p.occurred + Window >= at /\ rows[i].p.occurred <= at + Skew
    BY <1>1, <1>4, <1>8 DEF FreshRequests, Timely
<1>11. Remembered'
    BY <1>1, <1>7, <1>9 DEF Remembered
<1>12. Plausible'
    <2>1. \A i \in 1..n : Timely(rows[i].p.occurred, rows[i].at)
        BY <1>8, <1>10 DEF Timely
    <2>. HIDE DEF rows, b, at
    <2>. QED  BY <1>9, <2>1 DEF Plausible
<1>13. \A s \in Positions, i \in 1..n : log[s].p # rows[i].p
    <2>. SUFFICES ASSUME NEW s \in Positions, NEW i \in 1..n, log[s].p = rows[i].p
                  PROVE  FALSE
        OBVIOUS
    <2>1. CASE log[s] \in seen
        BY <1>4, <1>8, <2>1 DEF Fresh
    <2>2. CASE log[s].at + SeenTTL < now
        <3>1. log[s].p.occurred <= log[s].at + Skew /\ log[s].p.occurred + Window >= at
            BY <1>10 DEF Plausible, Timely
        <3>2. /\ log[s].at \in Nat /\ log[s].p.occurred \in Nat /\ now \in Nat
              /\ SeenTTL \in Nat /\ Window \in Nat /\ Skew \in Nat /\ MaxWait \in Nat
              /\ SeenTTL >= Window + Skew + MaxWait
            BY RowType, CalendarAssumption, StoreAssumption DEF LogTypeOK
        <3>3. now <= at + MaxWait /\ at \in Nat
            BY <1>1, <1>10
        <3>. HIDE DEF rows, b, at
        <3>. DEFINE a == log[s].at
                    o == log[s].p.occurred
        <3>4. /\ a \in Nat /\ o \in Nat /\ now \in Nat /\ at \in Nat
              /\ o <= a + Skew /\ o + Window >= at /\ now <= at + MaxWait /\ a + SeenTTL < now
            BY <2>2, <3>1, <3>2, <3>3
        <3>. HIDE DEF a, o
        <3>. QED  BY <3>2, <3>4
    <2>. QED  BY <2>1, <2>2 DEF Remembered
<1>14. \A i, j \in 1..n : rows[i].p = rows[j].p => i = j
    <2>. SUFFICES ASSUME NEW i \in 1..n, NEW j \in 1..n, rows[i].p = rows[j].p, i < j
                  PROVE  FALSE
        OBVIOUS
    <2>1. b[f[i]] = b[f[j]] /\ f[i] < f[j] /\ f[i] \in DOMAIN b /\ f[j] \in Fresh(b)
        BY <1>4, <1>5, <1>8
    <2>. QED  BY <2>1 DEF Fresh
<1>15. AcceptedOnce'
    <2>. HIDE DEF rows, b, at
    <2>. SUFFICES ASSUME NEW i \in Positions', NEW j \in Positions', log'[i].p = log'[j].p
                  PROVE  i = j
        BY DEF AcceptedOnce
    <2>1. CASE i \in Positions /\ log'[i] = log[i] /\ j \in Positions /\ log'[j] = log[j]
        BY <2>1 DEF AcceptedOnce
    <2>2. CASE i - Len(log) \in 1..n /\ log'[i] = rows[i - Len(log)]
               /\ j - Len(log) \in 1..n /\ log'[j] = rows[j - Len(log)]
        <3>1. i - Len(log) = j - Len(log)
            BY <1>14, <2>2
        <3>2. i \in Int /\ j \in Int
            BY DEF Positions
        <3>. QED  BY <1>3, <3>1, <3>2
    <2>. QED  BY <1>9, <1>13, <2>1, <2>2
<1>. QED  BY <1>11, <1>12, <1>15

LEMMA OnceStep ==
    ASSUME OnceInv, [Next]_storeVars
    PROVE  OnceInv'
<1>. USE DEF OnceInv
<1>1. LogTypeOK'
    BY TypeStep
<1>2. CASE \E c \in Clients : CommitIngest(c)
    <2>1. PICK c \in Clients : CommitIngest(c)
        BY <1>2
    <2>2. Remembered' /\ Plausible' /\ AcceptedOnce'
        BY <2>1, CommitOnce
    <2>3. UNCHANGED <<now, worker>> /\ inflight' = [inflight EXCEPT ![c] = None]
        BY <2>1 DEF CommitIngest
    <2>4. FreshRequests'
        BY <2>3 DEF FreshRequests, LogTypeOK
    <2>. QED  BY <1>1, <2>2, <2>3, <2>4
<1>3. ASSUME NEW c \in Clients, StartIngest(c)
      PROVE  OnceInv'
    <2>1. UNCHANGED <<now, log, seen, worker>>
        BY <1>3 DEF StartIngest, database
    <2>2. PICK b \in Batches : /\ \A i \in DOMAIN b : Timely(b[i].occurred, now)
                              /\ inflight' = [inflight EXCEPT ![c] = [batch |-> b, at |-> now]]
        BY <1>3 DEF StartIngest
    <2>3. now \in Nat /\ MaxWait \in Nat /\ now <= now + MaxWait
        BY StoreAssumption DEF LogTypeOK
    <2>4. FreshRequests'
        BY <2>1, <2>2, <2>3 DEF FreshRequests, LogTypeOK
    <2>. QED  BY <1>1, <2>1, <2>4 DEF Remembered, Plausible, AcceptedOnce, Positions
<1>4. ASSUME NEW c \in Clients, RefuseIngest(c)
      PROVE  OnceInv'
    <2>1. UNCHANGED <<now, log, seen, worker>> /\ inflight' = [inflight EXCEPT ![c] = None]
        BY <1>4 DEF RefuseIngest, database
    <2>2. FreshRequests'
        BY <2>1 DEF FreshRequests, LogTypeOK
    <2>. QED  BY <1>1, <2>1, <2>2 DEF Remembered, Plausible, AcceptedOnce, Positions
<1>5. CASE Maintain
    <2>1. /\ UNCHANGED <<now, log, inflight>> /\ worker'.at \in {worker.at, 0}
          /\ seen' = {k \in seen : k.at + SeenTTL >= worker.at}
        BY <1>5 DEF Maintain, Failed, Phase, Idle, LogTypeOK
    <2>2. Remembered'
        <3>. SUFFICES ASSUME NEW s \in Positions, log[s] \in seen, log[s] \notin seen'
                      PROVE  log[s].at + SeenTTL < now
            BY <2>1 DEF Remembered, Positions
        <3>1. ~(log[s].at + SeenTTL >= worker.at)
            BY <2>1
        <3>2. log[s].at \in Nat /\ worker.at \in Nat /\ now \in Nat /\ SeenTTL \in Nat
            BY RowType, CalendarAssumption DEF LogTypeOK
        <3>. DEFINE a == log[s].at
                    w == worker.at
        <3>3. a \in Nat /\ w \in Nat /\ w <= now /\ ~(a + SeenTTL >= w)
            BY <3>1, <3>2
        <3>4. a + SeenTTL < now
            <4>. HIDE DEF a, w
            <4>. QED  BY <3>2, <3>3
        <3>. QED  BY <3>4
    <2>3. worker'.at <= now'
        BY <2>1 DEF LogTypeOK
    <2>. QED  BY <1>1, <2>1, <2>2, <2>3 DEF Plausible, FreshRequests, AcceptedOnce, Positions
<1>6. CASE Tick
    <2>1. /\ UNCHANGED <<log, seen, worker, inflight>> /\ now' = now + 1 /\ now \in Nat
          /\ \A c \in Clients : inflight[c] # None => now < inflight[c].at + MaxWait
        BY <1>6 DEF Tick, database, LogTypeOK
    <2>2. Remembered'
        <3>1. \A s \in Positions : log[s].at \in Nat
            BY RowType
        <3>2. SeenTTL \in Nat
            BY CalendarAssumption
        <3>. QED  BY <2>1, <3>1, <3>2 DEF Remembered, Positions
    <2>3. FreshRequests'
        <3>1. \A c \in Clients : inflight[c] # None => inflight[c].at \in Nat
            BY DEF LogTypeOK
        <3>. QED  BY <2>1, <3>1, StoreAssumption DEF FreshRequests
    <2>4. worker'.at <= now'
        BY <2>1 DEF LogTypeOK
    <2>. QED  BY <1>1, <2>1, <2>2, <2>3, <2>4 DEF Plausible, AcceptedOnce, Positions
<1>7. CASE Crash
    <2>1. UNCHANGED <<now, log, seen>> /\ inflight' = [c \in Clients |-> None] /\ worker' = Idle
        BY <1>7 DEF Crash, database
    <2>2. FreshRequests'
        BY <2>1 DEF FreshRequests
    <2>3. worker'.at <= now'
        BY <2>1 DEF Idle, LogTypeOK
    <2>. QED  BY <1>1, <2>1, <2>2, <2>3 DEF Remembered, Plausible, AcceptedOnce, Positions
<1>8. CASE Wake \/ Aggregate \/ Publish \/ Blocked \/ WorkerError \/ UNCHANGED storeVars
    <2>1. UNCHANGED <<now, log, seen, inflight>> /\ worker'.at \in {worker.at, now, 0}
        <3>1. CASE Wake
            BY <3>1 DEF Wake, database, LogTypeOK
        <3>2. CASE Aggregate
            BY <3>2 DEF Aggregate, Phase, LogTypeOK
        <3>3. CASE Publish
            BY <3>3 DEF Publish, Idle, LogTypeOK
        <3>4. CASE Blocked \/ WorkerError
            BY <3>4 DEF Blocked, WorkerError, Failed, Idle, database
        <3>5. CASE UNCHANGED storeVars
            BY <3>5 DEF storeVars, database
        <3>. QED  BY <1>8, <3>1, <3>2, <3>3, <3>4, <3>5
    <2>2. worker'.at <= now'
        BY <2>1 DEF LogTypeOK
    <2>. QED  BY <1>1, <2>1, <2>2 DEF Remembered, Plausible, FreshRequests, AcceptedOnce, Positions
<1>. QED  BY <1>2, <1>3, <1>4, <1>5, <1>6, <1>7, <1>8 DEF Next, WorkerStep

LEMMA OnceInit == Init => OnceInv
<1>. SUFFICES ASSUME Init PROVE OnceInv
    OBVIOUS
<1>1. LogTypeOK /\ worker.at <= now
    BY SafetyInit DEF IInv
<1>2. Positions = {} /\ \A c \in Clients : inflight[c] = None
    BY DEF Init, Positions
<1>. QED  BY <1>1, <1>2 DEF OnceInv, Remembered, Plausible, FreshRequests, AcceptedOnce

LEMMA OnceSafe == Spec => []OnceInv
<1>1. OnceInv /\ [Next]_storeVars => OnceInv'
    BY OnceStep
<1>. QED  BY <1>1, OnceInit, PTL DEF Spec

\* A retried or resubmitted event keeps its first position for ever
\* (Store.ingest against the retention of table seen in Store.maintain).
THEOREM NeverAcceptedTwice == Spec => []AcceptedOnce
<1>1. OnceInv => AcceptedOnce
    BY DEF OnceInv
<1>. QED  BY <1>1, OnceSafe, PTL

-----------------------------------------------------------------------------
(* What a recount of a set of rows gives, one row at a time. *)

\* The visitors of a set of rows.
Seen(S) == UNION {Visitor(log[s].p) : s \in S}

\* Any set of rows is finite, so what is counted has a cardinality.
LEMMA FiniteRows ==
    ASSUME LogTypeOK, NEW S \in SUBSET Positions
    PROVE  IsFiniteSet(S)
<1>1. IsFiniteSet(Positions)
    BY LogLength, FS_Interval DEF Positions
<1>. QED  BY <1>1, FS_Subset

\* So is the set of its visitors.
LEMMA FiniteSeen ==
    ASSUME LogTypeOK, NEW S \in SUBSET Positions
    PROVE  IsFiniteSet(Seen(S))
<1>. DEFINE Who(s) == <<Cell(log[s].p), log[s].p.anon>>
            W == {s \in S : Visitor(log[s].p) # {}}
            f == [s \in W |-> Who(s)]
<1>1. \A s \in W : Visitor(log[s].p) = {Who(s)}
    BY DEF Visitor
<1>2. Seen(S) = {Who(s) : s \in W}
    <2>1. ASSUME NEW v \in Seen(S)
          PROVE  \E s \in W : v = Who(s)
        <3>1. PICK s \in S : v \in Visitor(log[s].p)
            BY DEF Seen
        <3>. QED  BY <1>1, <3>1
    <2>2. ASSUME NEW s \in W
          PROVE  Who(s) \in Seen(S)
        BY <1>1 DEF Seen
    <2>. HIDE DEF Who, W
    <2>. QED  BY <2>1, <2>2
<1>3. f \in Surjection(W, Seen(S))
    <2>. HIDE DEF Who
    <2>. QED  BY <1>2 DEF Surjection
<1>4. IsFiniteSet(W)
    BY FiniteRows
<1>. QED  BY <1>3, <1>4, FS_Surjection

\* A cardinality grows by one with a new member.
LEMMA OneMember ==
    ASSUME NEW A, IsFiniteSet(A)
    PROVE  /\ Cardinality(A) \in Nat /\ Cardinality(A) + 0 = Cardinality(A)
           /\ \A x : x \notin A => Cardinality(A \union {x}) = Cardinality(A) + 1
<1>1. Cardinality(A) \in Nat
    BY FS_CardinalityType
<1>. QED  BY <1>1, FS_AddElement

\* What a recount of one row more gives.
LEMMA RecountOneMore ==
    ASSUME LogTypeOK, NEW S \in SUBSET Positions, NEW s \in Positions, s \notin S, NEW c
    PROVE  Recount(c, S \union {s}) =
             IF c = Cell(log[s].p)
             THEN Added(Recount(c, S), log[s].p, ~(Visitor(log[s].p) \subseteq Seen(S)))
             ELSE Recount(c, S)
<1>. DEFINE p == log[s].p
            T == S \union {s}
            Mine(A) == {r \in A : Cell(log[r].p) = c}
            Views(A) == {r \in Mine(A) : log[r].p.kind = "page_view"}
            Calls(A) == {r \in Mine(A) : IsCompletion(log[r].p)}
            Good(A) == {r \in Mine(A) : IsCompletion(log[r].p) /\ log[r].p.ok}
            Who(A) == UNION {Visitor(log[r].p) : r \in Mine(A)}
<1>1. \A A : Recount(c, A) = [pv |-> Cardinality(Views(A)), uv |-> Cardinality(Who(A)),
                              requests |-> Cardinality(Calls(A)), successes |-> Cardinality(Good(A))]
    BY DEF Recount
<1>2. CASE c # Cell(p)
    <2>1. Mine(T) = Mine(S)
        BY <1>2
    <2>. HIDE DEF Mine
    <2>. QED  BY <1>1, <1>2, <2>1
<1>3. CASE c = Cell(p)
    <2>1. Mine(T) = Mine(S) \union {s}
        BY <1>3
    <2>2. Mine(S) \subseteq Positions /\ s \notin Mine(S)
        OBVIOUS
    <2>3. /\ IsFiniteSet(Views(S)) /\ IsFiniteSet(Calls(S)) /\ IsFiniteSet(Good(S)) /\ IsFiniteSet(Who(S))
          /\ s \notin Views(S) /\ s \notin Calls(S) /\ s \notin Good(S)
        <3>1. IsFiniteSet(Who(S))
            BY <2>2, FiniteSeen DEF Seen
        <3>. QED  BY <2>2, <3>1, FiniteRows
    <2>4. Cardinality(Views(T)) = Cardinality(Views(S)) + Bit(p.kind = "page_view")
        <3>1. CASE p.kind = "page_view"
            <4>1. Views(T) = Views(S) \union {s}
                BY <2>1, <3>1
            <4>. QED  BY <2>3, <3>1, <4>1, OneMember DEF Bit
        <3>2. CASE p.kind # "page_view"
            <4>1. Views(T) = Views(S)
                BY <2>1, <3>2
            <4>. QED  BY <2>3, <3>2, <4>1, OneMember DEF Bit
        <3>. QED  BY <3>1, <3>2
    <2>5. Cardinality(Calls(T)) = Cardinality(Calls(S)) + Bit(IsCompletion(p))
        <3>1. CASE IsCompletion(p)
            <4>1. Calls(T) = Calls(S) \union {s}
                BY <2>1, <3>1
            <4>. QED  BY <2>3, <3>1, <4>1, OneMember DEF Bit
        <3>2. CASE ~IsCompletion(p)
            <4>1. Calls(T) = Calls(S)
                BY <2>1, <3>2
            <4>. QED  BY <2>3, <3>2, <4>1, OneMember DEF Bit
        <3>. QED  BY <3>1, <3>2
    <2>6. Cardinality(Good(T)) = Cardinality(Good(S)) + Bit(IsCompletion(p) /\ p.ok)
        <3>1. CASE IsCompletion(p) /\ p.ok
            <4>1. Good(T) = Good(S) \union {s}
                BY <2>1, <3>1
            <4>. QED  BY <2>3, <3>1, <4>1, OneMember DEF Bit
        <3>2. CASE ~(IsCompletion(p) /\ p.ok)
            <4>1. Good(T) = Good(S)
                BY <2>1, <3>2
            <4>. QED  BY <2>3, <3>2, <4>1, OneMember DEF Bit
        <3>. QED  BY <3>1, <3>2
    <2>7. Who(T) = Who(S) \union Visitor(p)
        BY <2>1
    <2>8. Visitor(p) \subseteq Seen(S) <=> Visitor(p) \subseteq Who(S)
        <3>1. Who(S) \subseteq Seen(S)
            BY DEF Seen
        <3>2. ASSUME NEW v \in Visitor(p), v \in Seen(S) PROVE v \in Who(S)
            <4>1. PICK r \in S : v \in Visitor(log[r].p)
                BY <3>2 DEF Seen
            <4>2. v = <<Cell(p), p.anon>> /\ v = <<Cell(log[r].p), log[r].p.anon>>
                BY <4>1 DEF Visitor
            <4>3. r \in Mine(S)
                BY <1>3, <4>2
            <4>. QED  BY <4>1, <4>3
        <3>. QED  BY <3>1, <3>2
    <2>9. Cardinality(Who(T)) = Cardinality(Who(S)) + Bit(~(Visitor(p) \subseteq Seen(S)))
        <3>1. CASE Visitor(p) \subseteq Who(S)
            <4>1. Who(T) = Who(S)
                BY <2>7, <3>1
            <4>. QED  BY <2>3, <2>8, <3>1, <4>1, OneMember DEF Bit
        <3>2. CASE ~(Visitor(p) \subseteq Who(S))
            <4>1. Visitor(p) = {<<Cell(p), p.anon>>} /\ <<Cell(p), p.anon>> \notin Who(S)
                BY <3>2 DEF Visitor
            <4>. QED  BY <2>3, <2>7, <2>8, <3>2, <4>1, OneMember, ZenonT(60) DEF Bit
        <3>. QED  BY <3>1, <3>2
    <2>. HIDE DEF Views, Calls, Good, Who, Mine, T, p
    <2>10. Recount(c, S).pv = Cardinality(Views(S)) /\ Recount(c, S).uv = Cardinality(Who(S))
           /\ Recount(c, S).requests = Cardinality(Calls(S)) /\ Recount(c, S).successes = Cardinality(Good(S))
        BY <1>1
    <2>11. Recount(c, T) = Added(Recount(c, S), p, ~(Visitor(p) \subseteq Seen(S)))
        BY <1>1, <2>4, <2>5, <2>6, <2>9, <2>10 DEF Added
    <2>. QED  BY <1>3, <2>11 DEF T, p
<1>. QED  BY <1>2, <1>3

-----------------------------------------------------------------------------
(* Days and retention; the tables of a set of rows. *)

\* Multiplication by a natural number preserves order, so it can be cancelled.
LEMMA CancelFactor ==
    ASSUME NEW d \in Nat, NEW x \in Int, NEW y \in Int, d * x < d * y
    PROVE  x < y
<1>. SUFFICES ASSUME x >= y PROVE FALSE
    OBVIOUS
<1>1. PICK k \in Nat : x = y + k
    <2>1. x - y \in Nat /\ x = y + (x - y)
        OBVIOUS
    <2>. QED  BY <2>1
<1>2. d * x = d * y + d * k /\ d * k >= 0
    BY <1>1
<1>. QED  BY <1>2

\* A time lies within its business day.
LEMMA DayBounds ==
    ASSUME NEW t \in Nat
    PROVE  Day(t) \in Nat /\ DayLen * Day(t) <= t /\ t < DayLen * (Day(t) + 1)
<1>1. DayLen \in Nat /\ DayLen > 0
    BY CalendarAssumption
<1>2. t \div DayLen \in Nat /\ DayLen * (t \div DayLen) <= t /\ t < DayLen * ((t \div DayLen) + 1)
    BY <1>1
<1>. QED  BY <1>2 DEF Day

\* Later times are on later days.
LEMMA DayGrows ==
    ASSUME NEW t \in Nat, NEW u \in Nat, t <= u
    PROVE  Day(t) <= Day(u)
<1>. DEFINE a == Day(t)
            b == Day(u)
<1>1. a \in Nat /\ b \in Nat /\ DayLen * a <= t /\ u < DayLen * (b + 1) /\ DayLen \in Nat
    BY DayBounds, CalendarAssumption
<1>. HIDE DEF a, b
<1>2. DayLen * a < DayLen * (b + 1)
    BY <1>1
<1>3. a < b + 1
    BY <1>1, <1>2, CancelFactor
<1>. QED  BY <1>1, <1>3 DEF a, b

\* The first day of a retention is a day.
LEMMA FirstKeptType ==
    ASSUME NEW t \in Nat, NEW k \in Nat
    PROVE  FirstKept(t, k) \in Nat
BY DayBounds DEF FirstKept

\* A retention never reaches back to a day it has given up.
LEMMA FirstKeptGrows ==
    ASSUME NEW t \in Nat, NEW u \in Nat, t <= u, NEW k \in Nat
    PROVE  FirstKept(t, k) <= FirstKept(u, k)
BY DayBounds, DayGrows DEF FirstKept

\* Visitors of an event that can still be read are still remembered: the event was
\* accepted at most RawTTL ago and had occurred at most Window before that.
LEMMA FreshDay ==
    ASSUME NEW o \in Nat, NEW a \in Nat, NEW t \in Nat, Timely(o, a), t < a + RawTTL
    PROVE  Day(o) >= FirstKept(t, VisitorDays)
<1>. DEFINE x == Day(t)
            y == Day(o)
<1>1. /\ x \in Nat /\ y \in Nat /\ DayLen * x <= t /\ o < DayLen * (y + 1)
      /\ DayLen \in Nat /\ VisitorDays \in Nat /\ RawTTL \in Nat /\ Window \in Nat
      /\ VisitorDays * DayLen >= RawTTL + Window
    BY DayBounds, CalendarAssumption, RetentionAssumption
<1>2. o + Window >= a
    BY DEF Timely
<1>3. DayLen * (y + 1) + VisitorDays * DayLen = DayLen * (y + 1 + VisitorDays)
    BY <1>1
<1>4. DayLen * x < DayLen * (y + 1 + VisitorDays)
    <2>. DEFINE A == DayLen * x
                B == DayLen * (y + 1)
                C == VisitorDays * DayLen
    <2>1. A \in Nat /\ B \in Nat /\ C \in Nat
        BY <1>1
    <2>2. A <= t /\ o < B /\ C >= RawTTL + Window
        BY <1>1
    <2>3. A < B + C
        <3>. HIDE DEF A, B, C
        <3>. QED  BY <1>1, <1>2, <2>1, <2>2
    <2>. QED  BY <1>3, <2>3
<1>5. x < y + 1 + VisitorDays
    <2>. HIDE DEF x, y
    <2>. QED  BY <1>1, <1>4, CancelFactor
<1>. QED  BY <1>1, <1>5 DEF FirstKept

-----------------------------------------------------------------------------
\* The part of a recount that belongs to the public tables.
Candidates(n) == {s \in Contributing(1..n) : Eligible(log[s], startDay)}

\* A table of totals and its visitors are those of a set of rows, as far as they are kept.
Tally(S, daily, visitors) ==
    /\ DOMAIN daily \subseteq Apps \X Nat
    /\ \A c \in Apps \X Nat : c[2] >= FirstKept(now, KeepDays) => Row(daily, c, Zero) = Recount(c, S)
    /\ visitors \subseteq Seen(S)
    /\ \A v \in Seen(S) : v[1][2] >= FirstKept(now, VisitorDays) => v \in visitors

\* An upsert changes one row.
LEMMA RowUpserted ==
    ASSUME NEW f, NEW k, NEW v, NEW c, NEW d
    PROVE  Row(Upsert(f, k, v), c, d) = IF c = k THEN v ELSE Row(f, c, d)
BY DEF Row, Upsert

\* Every event belongs to a day of a known application.
LEMMA CellType ==
    ASSUME LogTypeOK, NEW s \in Positions
    PROVE  /\ Cell(log[s].p) \in Apps \X Nat /\ Cell(log[s].p)[2] = Day(log[s].p.occurred)
           /\ log[s].p \in Accepted
<1>1. log[s].p \in Accepted /\ log[s].p.occurred \in Nat
    BY RowType DEF Rows
<1>. QED  BY <1>1, DayBounds, RetentionAssumption DEF Cell

\* Counting one more row turns the tables of a set of rows into those of the larger set:
\* the visitor is new to the table if and only if it is new to the set.
LEMMA TallyOneMore ==
    ASSUME LogTypeOK, NEW S \in SUBSET Positions, NEW s \in Positions, s \notin S,
           NEW daily, NEW visitors, Tally(S, daily, visitors),
           Timely(log[s].p.occurred, log[s].at), now < log[s].at + RawTTL
    PROVE  LET p == log[s].p
               c == Cell(p)
           IN  Tally(S \union {s},
                     Upsert(daily, c, Added(Row(daily, c, Zero), p, ~(Visitor(p) \subseteq visitors))),
                     visitors \union Visitor(p))
<1>. DEFINE p == log[s].p
            c == Cell(p)
            row == Added(Row(daily, c, Zero), p, ~(Visitor(p) \subseteq visitors))
            D == Upsert(daily, c, row)
<1>1. c \in Apps \X Nat /\ c[2] >= FirstKept(now, VisitorDays)
    BY CellType, RowType, FreshDay DEF LogTypeOK
<1>2. Visitor(p) \subseteq visitors <=> Visitor(p) \subseteq Seen(S)
    <2>1. \A v \in Visitor(p) : v[1] = c
        BY DEF Visitor
    <2>. QED  BY <1>1, <2>1 DEF Tally
<1>3. Seen(S \union {s}) = Seen(S) \union Visitor(p)
    BY DEF Seen
<1>4. DOMAIN D \subseteq Apps \X Nat
    BY <1>1 DEF Tally, Upsert
<1>5. ASSUME NEW k \in Apps \X Nat, k[2] >= FirstKept(now, KeepDays)
      PROVE  Row(D, k, Zero) = Recount(k, S \union {s})
    <2>1. Row(D, k, Zero) = IF k = c THEN row ELSE Row(daily, k, Zero)
        BY RowUpserted
    <2>2. Row(daily, k, Zero) = Recount(k, S)
        BY <1>5 DEF Tally
    <2>3. k = c => row = Added(Recount(k, S), p, ~(Visitor(p) \subseteq Seen(S)))
        BY <1>2, <2>2
    <2>. HIDE DEF D, row
    <2>. QED  BY <2>1, <2>2, <2>3, RecountOneMore
<1>6. \A v \in Visitor(p) : v[1] = c
    BY DEF Visitor
<1>. QED  BY <1>3, <1>4, <1>5 DEF Tally

-----------------------------------------------------------------------------
(* One row more, with the completions of a request counted once. *)

\* Two completions of one request.
SameRequest(p, q) == IsCompletion(p) /\ IsCompletion(q) /\ p.app = q.app /\ p.request = q.request

\* Table requests_seen knows what was counted, and forgets it only with age.
CompletedRight(T, n) ==
    /\ \A c \in T : \E s \in 1..n :
         IsCompletion(log[s].p) /\ c.app = log[s].p.app /\ c.request = log[s].p.request
    /\ \A s \in Contributing(1..n) : IsCompletion(log[s].p) =>
         \/ [app |-> log[s].p.app, request |-> log[s].p.request, at |-> log[s].at] \in T
         \/ log[s].at + SeenTTL < now

\* The tables are those of the first n rows.
Tallied(t, n) ==
    /\ CompletedRight(t.exact.completed, n)
    /\ Tally(Contributing(1..n), t.exact.daily, t.exact.visitors)
    /\ Tally(Candidates(n), t.public.daily, t.public.visitors)

\* The rows that contribute are those that repeat no earlier completion.
LEMMA ContributingIs ==
    ASSUME NEW n \in Nat
    PROVE  Contributing(1..n) = {s \in 1..n : \A r \in 1..n : r < s => ~SameRequest(log[s].p, log[r].p)}
BY DEF Contributing, SameRequest

\* A row contributes unless an earlier one completed its request.
LEMMA ContributingOneMore ==
    ASSUME NEW n \in Nat
    PROVE  Contributing(1..(n + 1)) =
             IF \E r \in 1..n : SameRequest(log[n + 1].p, log[r].p)
             THEN Contributing(1..n) ELSE Contributing(1..n) \union {n + 1}
<1>. DEFINE m == n + 1
<1>1. m \in Nat /\ 1..m = 1..n \union {m} /\ m \notin 1..n /\ \A s \in 1..n : s < m
    OBVIOUS
<1>. HIDE DEF m
<1>2. Contributing(1..m) = {s \in 1..m : \A r \in 1..m : r < s => ~SameRequest(log[s].p, log[r].p)}
    BY <1>1, ContributingIs
<1>3. \A s \in 1..n : ~(m < s)
    BY <1>1
<1>4. ~(m < m)
    BY <1>1
<1>5. \A s \in 1..n : s \in Contributing(1..m) <=> s \in Contributing(1..n)
    BY <1>1, <1>2, <1>3, ContributingIs
<1>6. m \in Contributing(1..m) <=> ~ \E r \in 1..n : SameRequest(log[m].p, log[r].p)
    BY <1>1, <1>2, <1>4
<1>7. Contributing(1..m) \subseteq 1..m /\ Contributing(1..n) \subseteq 1..n
    BY <1>2, ContributingIs
<1>8. Contributing(1..m) = IF \E r \in 1..n : SameRequest(log[m].p, log[r].p)
                           THEN Contributing(1..n) ELSE Contributing(1..n) \union {m}
    <2>. DEFINE A == Contributing(1..m)
                B == Contributing(1..n)
    <2>1. (\A s \in 1..n : s \in A <=> s \in B) /\ A \subseteq 1..n \union {m} /\ B \subseteq 1..n
        BY <1>1, <1>5, <1>7
    <2>2. CASE m \in A
        <3>1. A = B \union {m}
            <4>. HIDE DEF A, B
            <4>. QED  BY <2>1, <2>2
        <3>. QED  BY <1>6, <2>2, <3>1
    <2>3. CASE m \notin A
        <3>1. A = B
            <4>. HIDE DEF A, B
            <4>. QED  BY <2>1, <2>3
        <3>. QED  BY <1>6, <2>3, <3>1
    <2>. QED  BY <2>2, <2>3
<1>. QED  BY <1>8 DEF m

\* A row that is still readable repeats a request exactly when an earlier row is about it:
\* what has been forgotten is too old.
LEMMA RepeatedIs ==
    ASSUME LogTypeOK, NEW n \in Nat, n + 1 \in Positions, NEW t, CompletedRight(t.completed, n),
           \A s \in Positions : Timely(log[s].p.occurred, log[s].at), now < log[n + 1].at + RawTTL
    PROVE  Repeated(t, log[n + 1].p) <=> \E r \in 1..n : SameRequest(log[n + 1].p, log[r].p)
<1>. DEFINE p == log[n + 1].p
<1>0. 1..n \subseteq Positions /\ 1..n \subseteq Nat
    BY LogLength DEF Positions
<1>1. ASSUME Repeated(t, p)
      PROVE  \E r \in 1..n : SameRequest(p, log[r].p)
    BY <1>1 DEF Repeated, CompletedRight, SameRequest
<1>2. ASSUME \E r \in 1..n : SameRequest(p, log[r].p)
      PROVE  Repeated(t, p)
    <2>. DEFINE R == {r \in 1..n : SameRequest(p, log[r].p)}
                q == Min(R)
    <2>1. q \in R /\ \A r \in R : q <= r
        <3>1. R \subseteq Nat /\ R # {}
            BY <1>0, <1>2
        <3>. HIDE DEF R
        <3>. QED  BY <3>1, MinProperty
    <2>2. q \in Contributing(1..n)
        <3>1. \A r \in 1..n : SameRequest(log[q].p, log[r].p) => r \in R
            BY <2>1 DEF SameRequest
        <3>2. \A r \in 1..n : SameRequest(log[q].p, log[r].p) => ~(r < q)
            BY <1>0, <2>1, <3>1
        <3>. HIDE DEF q
        <3>. QED  BY <2>1, <3>2, ContributingIs
    <2>3. ~(log[q].at + SeenTTL < now)
        <3>. DEFINE a == log[q].at
                    o == log[q].p.occurred
                    b == log[n + 1].at
                    u == p.occurred
        <3>1. /\ a \in Nat /\ o \in Nat /\ b \in Nat /\ u \in Nat /\ now \in Nat
              /\ SeenTTL \in Nat /\ RawTTL \in Nat /\ Window \in Nat /\ Skew \in Nat
            BY <1>0, <2>1, RowType, CalendarAssumption DEF LogTypeOK
        <3>2. o <= a + Skew /\ u + Window >= b /\ now < b + RawTTL
            BY <1>0, <2>1 DEF Timely
        <3>3. log[q].p \in Accepted /\ p \in Accepted
            BY <1>0, <2>1, CellType
        <3>4. o + SeenTTL >= u + RawTTL + Window + Skew
            BY <2>1, <3>3, RetentionAssumption DEF SameRequest
        <3>. HIDE DEF a, o, b, u
        <3>5. ~(a + SeenTTL < now)
            BY <3>1, <3>2, <3>4
        <3>. QED  BY <3>5 DEF a
    <2>4. [app |-> log[q].p.app, request |-> log[q].p.request, at |-> log[q].at] \in t.completed
        BY <2>1, <2>2, <2>3 DEF CompletedRight, SameRequest
    <2>. QED  BY <2>1, <2>4 DEF Repeated, SameRequest
<1>. QED  BY <1>1, <1>2

\* The loop body of Store.aggregate extends the tables of the first n rows by one row.
LEMMA CountKeeps ==
    ASSUME LogTypeOK, NEW n \in Nat, n + 1 \in Positions, NEW t, Tallied(t, n),
           \A s \in Positions : Timely(log[s].p.occurred, log[s].at), now < log[n + 1].at + RawTTL
    PROVE  Tallied(CountRow(t, log[n + 1], startDay), n + 1)
<1>. DEFINE s == n + 1
            p == log[s].p
            new == CountRow(t, log[s], startDay)
            again == \E r \in 1..n : SameRequest(p, log[r].p)
            C == Contributing(1..n)
<1>0. /\ s \in Nat /\ s \in Positions /\ 1..n \subseteq Positions /\ s \notin 1..n /\ 1..n \subseteq 1..s
      /\ s \in 1..s
    BY LogLength DEF Positions
<1>1. Repeated(t.exact, p) <=> again
    BY RepeatedIs DEF Tallied
<1>2. Contributing(1..s) = IF again THEN C ELSE C \union {s}
    BY ContributingOneMore
<1>3. C \subseteq 1..n
    BY ContributingIs
<1>4. Candidates(s) = IF again \/ ~Eligible(log[s], startDay) THEN Candidates(n) ELSE Candidates(n) \union {s}
    BY <1>2 DEF Candidates
<1>5. CASE again
    <2>1. new = t
        BY <1>1, <1>5 DEF CountRow
    <2>2. CompletedRight(t.exact.completed, s)
        <3>1. Contributing(1..s) = C
            BY <1>2, <1>5
        <3>. HIDE DEF C, s
        <3>. QED  BY <1>0, <3>1 DEF Tallied, CompletedRight, C
    <2>. QED  BY <1>2, <1>4, <1>5, <2>1, <2>2 DEF Tallied
<1>6. CASE ~again
    <2>1. new = [exact |-> CountExact(t.exact, log[s]), public |-> CountPublic(t.public, log[s], startDay)]
        BY <1>1, <1>6 DEF CountRow
    <2>2. CompletedRight(new.exact.completed, s)
        <3>. DEFINE mark == [app |-> p.app, request |-> p.request, at |-> log[s].at]
                    T == t.exact.completed
                    U == new.exact.completed
        <3>0. new.exact = CountExact(t.exact, log[s])
            BY <2>1
        <3>1. U = IF IsCompletion(p) THEN T \union {mark} ELSE T
            <4>1. CountExact(t.exact, log[s]).completed = IF IsCompletion(p) THEN T \union {mark} ELSE T
                BY DEF CountExact
            <4>. QED  BY <3>0, <4>1
        <3>2. Contributing(1..s) = C \union {s}
            BY <1>2, <1>6
        <3>3. CompletedRight(T, n)
            BY DEF Tallied
        <3>. HIDE DEF T, U, C, s
        <3>4. \A c \in U : \E r \in 1..s :
                IsCompletion(log[r].p) /\ c.app = log[r].p.app /\ c.request = log[r].p.request
            BY <1>0, <3>1, <3>3 DEF CompletedRight
        <3>5. ASSUME NEW r \in C \union {s}, IsCompletion(log[r].p)
              PROVE  \/ [app |-> log[r].p.app, request |-> log[r].p.request, at |-> log[r].at] \in U
                     \/ log[r].at + SeenTTL < now
            BY <3>1, <3>3, <3>5 DEF CompletedRight, C
        <3>6. CompletedRight(U, s)
            BY <3>2, <3>4, <3>5 DEF CompletedRight
        <3>. QED  BY <3>6 DEF U, s
    <2>3. Tally(C \union {s}, new.exact.daily, new.exact.visitors)
        <3>1. /\ new.exact.daily = Upsert(t.exact.daily, Cell(p),
                                     Added(Row(t.exact.daily, Cell(p), Zero), p, ~(Visitor(p) \subseteq t.exact.visitors)))
              /\ new.exact.visitors = t.exact.visitors \union Visitor(p)
            BY <2>1 DEF CountExact
        <3>2. C \in SUBSET Positions /\ s \notin C
            BY <1>0, <1>3
        <3>3. Tally(C, t.exact.daily, t.exact.visitors)
            BY DEF Tallied
        <3>4. Tally(C \union {s}, Upsert(t.exact.daily, Cell(p),
                    Added(Row(t.exact.daily, Cell(p), Zero), p, ~(Visitor(p) \subseteq t.exact.visitors))),
                    t.exact.visitors \union Visitor(p))
            <4>. HIDE DEF C, new
            <4>. QED  BY <1>0, <3>2, <3>3, TallyOneMore
        <3>. QED  BY <3>1, <3>4
    <2>4. Tally(Candidates(s), new.public.daily, new.public.visitors)
        <3>1. CASE ~Eligible(log[s], startDay)
            <4>1. new.public = t.public
                BY <2>1, <3>1 DEF CountPublic
            <4>. QED  BY <1>4, <3>1, <4>1 DEF Tallied
        <3>2. CASE Eligible(log[s], startDay)
            <4>1. /\ new.public.daily = Upsert(t.public.daily, Cell(p),
                                         Added(Row(t.public.daily, Cell(p), Zero), p, ~(Visitor(p) \subseteq t.public.visitors)))
                  /\ new.public.visitors = t.public.visitors \union Visitor(p)
                <5>1. LET counted == CountPublic(t.public, log[s], startDay)
                      IN  /\ counted.daily = Upsert(t.public.daily, Cell(p),
                                               Added(Row(t.public.daily, Cell(p), Zero), p,
                                                     ~(Visitor(p) \subseteq t.public.visitors)))
                          /\ counted.visitors = t.public.visitors \union Visitor(p)
                    <6>. HIDE DEF C, new
                    <6>. QED  BY <3>2, SMTT(40) DEF CountPublic
                <5>2. new.public = CountPublic(t.public, log[s], startDay)
                    BY <2>1
                <5>. HIDE DEF C, new
                <5>. QED  BY <5>1, <5>2
            <4>2. Candidates(n) \in SUBSET Positions /\ s \notin Candidates(n)
                BY <1>0, <1>3 DEF Candidates
            <4>3. Tally(Candidates(n), t.public.daily, t.public.visitors)
                BY DEF Tallied
            <4>4. Candidates(s) = Candidates(n) \union {s}
                BY <1>4, <1>6, <3>2
            <4>5. Tally(Candidates(n) \union {s}, Upsert(t.public.daily, Cell(p),
                        Added(Row(t.public.daily, Cell(p), Zero), p, ~(Visitor(p) \subseteq t.public.visitors))),
                        t.public.visitors \union Visitor(p))
                <5>. HIDE DEF C, new
                <5>. QED  BY <1>0, <4>2, <4>3, TallyOneMore
            <4>. QED  BY <4>1, <4>4, <4>5
        <3>. QED  BY <3>1, <3>2
    <2>5. Contributing(1..s) = C \union {s}
        BY <1>2, <1>6
    <2>. HIDE DEF C, s, new
    <2>. QED  BY <2>2, <2>3, <2>4, <2>5 DEF Tallied, s, new
<1>. QED  BY <1>5, <1>6

-----------------------------------------------------------------------------
(* The recursive function of the model, unrolled: it exists because a least *)
(* position for which it did not would have a predecessor for which it does. *)

\* One step of the loop of Store.aggregate, and functions that are right up to a position.
WithRow(t, s) == IF s \in NextRows THEN CountRow(t, log[s], startDay) ELSE t

\* f follows the definition of Counting up to position n.
CountsUpTo(f, n) ==
    f = [s \in cursor..n |->
           IF s = cursor THEN [exact |-> exact, public |-> public]
           ELSE IF s \in NextRows THEN CountRow(f[s - 1], log[s], startDay) ELSE f[s - 1]]

\* The recursive function is some function that follows its definition.
LEMMA CountingChosen == Counting = CHOOSE f : CountsUpTo(f, Len(log))
BY DEF Counting, CountsUpTo

\* There is one, up to every position.
LEMMA CountsExist ==
    ASSUME LogTypeOK, NEW n \in Nat, n >= cursor
    PROVE  \E f : CountsUpTo(f, n)
<1>. DEFINE Bad == {m \in Nat : m >= cursor /\ ~ \E f : CountsUpTo(f, m)}
            m == Min(Bad)
<1>. SUFFICES ASSUME n \in Bad PROVE FALSE
    OBVIOUS
<1>0. cursor \in Nat
    BY LogLength DEF LogTypeOK
<1>1. m \in Bad /\ \A k \in Bad : m <= k
    <2>1. Bad \subseteq Nat /\ Bad # {}
        OBVIOUS
    <2>. HIDE DEF Bad
    <2>. QED  BY <2>1, MinProperty
<1>2. m \in Nat /\ m >= cursor /\ ~ \E f : CountsUpTo(f, m)
    BY <1>1
<1>. HIDE DEF m
<1>3. CASE m = cursor
    <2>. DEFINE f == [s \in cursor..m |-> [exact |-> exact, public |-> public]]
    <2>1. \A s \in cursor..m : s = cursor
        BY <1>0, <1>3
    <2>2. CountsUpTo(f, m)
        BY <2>1 DEF CountsUpTo
    <2>. QED  BY <1>2, <2>2
<1>4. CASE m > cursor
    <2>. DEFINE k == m - 1
    <2>1. k \in Nat /\ k >= cursor /\ ~(m <= k) /\ cursor..m = cursor..k \union {m} /\ m \notin cursor..k
          /\ k \in cursor..k /\ m # cursor
        BY <1>0, <1>2, <1>4
    <2>2. k \notin Bad
        BY <1>1, <2>1
    <2>3. PICK g : CountsUpTo(g, k)
        BY <2>1, <2>2
    <2>. DEFINE f == [s \in cursor..m |-> IF s = m THEN WithRow(g[k], m) ELSE g[s]]
    <2>4. \A s \in cursor..k : f[s] = g[s] /\ (s # cursor => s - 1 \in cursor..k)
        BY <1>0, <2>1
    <2>5. f[m] = IF m \in NextRows THEN CountRow(f[m - 1], log[m], startDay) ELSE f[m - 1]
        BY <2>1, <2>4 DEF WithRow
    <2>6. \A s \in cursor..k : g[s] = IF s = cursor THEN [exact |-> exact, public |-> public]
                                       ELSE IF s \in NextRows THEN CountRow(g[s - 1], log[s], startDay) ELSE g[s - 1]
        BY <2>3 DEF CountsUpTo
    <2>. DEFINE h == [s \in cursor..m |->
                   IF s = cursor THEN [exact |-> exact, public |-> public]
                   ELSE IF s \in NextRows THEN CountRow(f[s - 1], log[s], startDay) ELSE f[s - 1]]
    <2>7. \A s \in cursor..m : f[s] = h[s]
        <3>1. ASSUME NEW s \in cursor..k PROVE f[s] = h[s]
            <4>1. s \in cursor..m
                BY <2>1
            <4>2. f[s] = g[s] /\ (s # cursor => f[s - 1] = g[s - 1])
                BY <2>4
            <4>. HIDE DEF f
            <4>. QED  BY <2>6, <4>1, <4>2
        <3>2. f[m] = h[m]
            <4>1. m \in cursor..m
                BY <2>1
            <4>. HIDE DEF f
            <4>. QED  BY <2>1, <2>5, <4>1
        <3>. HIDE DEF f, h
        <3>. QED  BY <2>1, <3>1, <3>2
    <2>8. f = h
        BY <2>7
    <2>9. CountsUpTo(f, m)
        <3>. HIDE DEF f
        <3>. QED  BY <2>8 DEF CountsUpTo
    <2>. QED  BY <1>2, <2>9
<1>. QED  BY <1>0, <1>2, <1>3, <1>4

\* What the recursive definition computes.
LEMMA CountingIs ==
    ASSUME LogTypeOK
    PROVE  /\ Counting[cursor] = [exact |-> exact, public |-> public]
           /\ \A s \in (cursor + 1)..Len(log) : Counting[s] = WithRow(Counting[s - 1], s)
<1>0. cursor \in Nat /\ Len(log) \in Nat /\ Len(log) >= cursor
    BY LogLength DEF LogTypeOK
<1>1. CountsUpTo(Counting, Len(log))
    BY <1>0, CountingChosen, CountsExist
<1>2. \A s \in cursor..Len(log) : Counting[s] =
         IF s = cursor THEN [exact |-> exact, public |-> public]
         ELSE IF s \in NextRows THEN CountRow(Counting[s - 1], log[s], startDay) ELSE Counting[s - 1]
    BY <1>1 DEF CountsUpTo
<1>3. cursor \in cursor..Len(log)
    BY <1>0
<1>4. \A s \in (cursor + 1)..Len(log) : s \in cursor..Len(log) /\ s # cursor
    BY <1>0
<1>. QED  BY <1>2, <1>3, <1>4 DEF WithRow

-----------------------------------------------------------------------------
(* A run of aggregate over any number of rows, and the retention. *)

\* Everything that is not counted yet can still be read.
AllReadable == \A s \in Positions : s > cursor => s \in live /\ now < log[s].at + RawTTL

\* Without a gap all that is not counted can still be read.
LEMMA NoGap ==
    ASSUME IInv, AggregateGap = None
    PROVE  AllReadable
<1>1. gap = None /\ Uncounted = {}
    BY GapProperty DEF IInv
<1>. SUFFICES ASSUME NEW s \in Positions, s > cursor
              PROVE  s \in live /\ now < log[s].at + RawTTL
    BY DEF AllReadable
<1>2. s \in Nat /\ cursor \in Nat
    BY LogLength DEF IInv, LogTypeOK
<1>3. s \in live
    BY <1>1, <1>2 DEF IInv, NoSilentLoss
<1>4. ~(log[s].at + RawTTL <= now)
    BY <1>1, <1>3 DEF Uncounted, Lapsed
<1>5. log[s].at \in Nat /\ RawTTL \in Nat /\ now \in Nat
    BY RowType, CalendarAssumption DEF IInv, LogTypeOK
<1>. QED  BY <1>3, <1>4, <1>5

\* Then the next rows are the next positions.
LEMMA NextRowsAre ==
    ASSUME LogTypeOK, AllReadable
    PROVE  \A s \in NextRows, r \in Positions : cursor < r /\ r <= s => r \in NextRows
<1>. SUFFICES ASSUME NEW s \in NextRows, NEW r \in Positions, cursor < r, r <= s
              PROVE  r \in NextRows
    OBVIOUS
<1>. DEFINE Upto(x) == {q \in Backlog : q <= x}
<1>1. Backlog \subseteq Positions /\ Positions \subseteq Nat /\ cursor \in Nat
    BY LogLength DEF Backlog, LogTypeOK
<1>2. r \in Backlog
    BY <1>1 DEF AllReadable, Backlog
<1>3. s \in Backlog /\ Cardinality(Upto(s)) <= Limit
    BY DEF NextRows
<1>4. Upto(r) \subseteq Upto(s)
    <2>1. Backlog \subseteq Nat /\ r \in Nat /\ s \in Nat
        BY <1>1, <1>3
    <2>2. \A q \in Backlog : q <= r => q <= s
        BY <2>1
    <2>. QED  BY <2>2
<1>5. IsFiniteSet(Upto(s))
    <2>1. Upto(s) \in SUBSET Positions
        BY <1>1
    <2>. HIDE DEF Upto
    <2>. QED  BY <2>1, FiniteRows
<1>6. Cardinality(Upto(r)) <= Cardinality(Upto(s)) /\ Cardinality(Upto(r)) \in Nat /\ Cardinality(Upto(s)) \in Nat
    <2>1. IsFiniteSet(Upto(r))
        BY <1>4, <1>5, FS_Subset
    <2>. HIDE DEF Upto
    <2>. QED  BY <1>4, <1>5, <2>1, FS_Subset, FS_CardinalityType
<1>7. Cardinality(Upto(r)) <= Limit
    <2>. HIDE DEF Upto
    <2>. QED  BY <1>3, <1>6, StoreAssumption
<1>. QED  BY <1>2, <1>7 DEF NextRows

\* The cursor after the next rows.
Reached == IF NextRows = {} THEN cursor ELSE Max(NextRows)

\* The tables that count.
Totals == [exact |-> exact, public |-> public]

\* A run of aggregate over any number of rows.
LEMMA AggregateTallies ==
    ASSUME LogTypeOK, AllReadable, Plausible, Tallied(Totals, cursor)
    PROVE  LET t == Counting[Len(log)]
           IN  /\ Tallied(t, Reached)
               /\ t.public.frozen = public.frozen /\ t.public.snapshot = public.snapshot
<1>. DEFINE k == Reached
            Right(s) == /\ Tallied(Counting[s], s)
                        /\ Counting[s].public.frozen = public.frozen
                        /\ Counting[s].public.snapshot = public.snapshot
            Same(s) == Counting[s] = Counting[k]
<1>1. /\ cursor \in Nat /\ Len(log) \in Nat /\ Positions = 1..Len(log)
      /\ k \in Nat /\ cursor <= k /\ k <= Len(log)
      /\ \A s \in (cursor + 1)..Len(log) : s <= k <=> s \in NextRows
    <2>1. cursor \in Nat /\ Len(log) \in Nat /\ cursor <= Len(log) /\ Positions = 1..Len(log)
        BY LogLength DEF LogTypeOK, Positions
    <2>2. CASE NextRows = {}
        <3>1. k = cursor
            BY <2>2 DEF Reached
        <3>. HIDE DEF k
        <3>. QED  BY <2>1, <2>2, <3>1
    <2>3. CASE NextRows # {}
        <3>1. k = Max(NextRows)
            BY <2>3 DEF Reached
        <3>2. k \in NextRows /\ \A s \in NextRows : s <= k
            <4>1. NextRows \subseteq 0..Len(log)
                BY LogLength DEF NextRows, Backlog, LogTypeOK
            <4>. QED  BY <2>1, <2>3, <3>1, <4>1, MaxProperty
        <3>3. k \in Positions /\ k > cursor
            BY <2>3, <3>1, NextRowsProperty
        <3>4. \A s \in (cursor + 1)..Len(log) : s \in Positions /\ cursor < s
            BY <2>1
        <3>. HIDE DEF k
        <3>. QED  BY <2>1, <3>2, <3>3, <3>4, NextRowsAre
    <2>. QED  BY <2>2, <2>3
<1>. HIDE DEF k
<1>2. \A s \in cursor..k : Right(s)
    <2>. DEFINE Bad == {s \in cursor..k : ~Right(s)}
                m == Min(Bad)
    <2>. SUFFICES ASSUME Bad # {} PROVE FALSE
        OBVIOUS
    <2>1. m \in Bad /\ \A s \in Bad : m <= s
        <3>1. Bad \subseteq Nat
            BY <1>1
        <3>. HIDE DEF Bad
        <3>. QED  BY <3>1, MinProperty
    <2>2. m \in cursor..k /\ ~Right(m)
        BY <2>1
    <2>. HIDE DEF m
    <2>3. CASE m = cursor
        BY <2>2, <2>3, CountingIs DEF Totals
    <2>4. CASE m # cursor
        <3>. DEFINE n == m - 1
        <3>1. /\ n \in Nat /\ n \in cursor..k /\ ~(m <= n) /\ m = n + 1 /\ m \in Positions
              /\ m \in (cursor + 1)..Len(log) /\ m \in NextRows /\ m > cursor
            BY <1>1, <2>2, <2>4
        <3>2. Right(n)
            BY <2>1, <3>1
        <3>3. Counting[m] = CountRow(Counting[n], log[m], startDay)
            BY <3>1, CountingIs DEF WithRow
        <3>4. now < log[m].at + RawTTL
            BY <3>1 DEF AllReadable
        <3>5. Tallied(CountRow(Counting[n], log[m], startDay), m)
            <4>. HIDE DEF n
            <4>. QED  BY <3>1, <3>2, <3>4, CountKeeps DEF Plausible
        <3>6. /\ CountRow(Counting[n], log[m], startDay).public.frozen = Counting[n].public.frozen
              /\ CountRow(Counting[n], log[m], startDay).public.snapshot = Counting[n].public.snapshot
            BY DEF CountRow, CountPublic
        <3>7. Right(m)
            BY <3>2, <3>3, <3>5, <3>6
        <3>. QED  BY <2>2, <3>7
    <2>. QED  BY <2>3, <2>4
<1>3. \A s \in k..Len(log) : Same(s)
    <2>. DEFINE Bad == {s \in k..Len(log) : ~Same(s)}
                m == Min(Bad)
    <2>. SUFFICES ASSUME Bad # {} PROVE FALSE
        OBVIOUS
    <2>1. m \in Bad /\ \A s \in Bad : m <= s
        <3>1. Bad \subseteq Nat
            BY <1>1
        <3>. HIDE DEF Bad
        <3>. QED  BY <3>1, MinProperty
    <2>2. m \in k..Len(log) /\ ~Same(m)
        BY <2>1
    <2>. HIDE DEF m
    <2>3. CASE m = k
        BY <2>2, <2>3
    <2>4. CASE m # k
        <3>. DEFINE n == m - 1
        <3>1. /\ n \in k..Len(log) /\ ~(m <= n) /\ m \in (cursor + 1)..Len(log) /\ ~(m <= k)
            BY <1>1, <2>2, <2>4
        <3>2. Same(n)
            BY <2>1, <3>1
        <3>3. m \notin NextRows
            BY <1>1, <3>1
        <3>4. Counting[m] = Counting[n]
            BY <3>1, <3>3, CountingIs DEF WithRow
        <3>. QED  BY <2>2, <3>2, <3>4
    <2>. QED  BY <2>3, <2>4
<1>4. k \in cursor..k /\ Len(log) \in k..Len(log)
    BY <1>1
<1>5. Right(k) /\ Same(Len(log))
    BY <1>2, <1>3, <1>4
<1>. QED  BY <1>5 DEF k

\* Visitors belong to a day of a known application.
LEMMA SeenDays ==
    ASSUME LogTypeOK, NEW S \in SUBSET Positions, NEW v \in Seen(S)
    PROVE  v[1] \in Apps \X Nat /\ v[1][2] \in Nat
<1>1. PICK s \in S : v \in Visitor(log[s].p)
    BY DEF Seen
<1>2. v[1] = Cell(log[s].p)
    BY <1>1 DEF Visitor
<1>. QED  BY <1>2, CellType

\* Retention leaves what is kept as it was (Store.maintain, public_projection.maintain).
LEMMA TallyTrimmed ==
    ASSUME LogTypeOK, NEW w \in Nat, w <= now, NEW S \in SUBSET Positions, NEW daily, NEW visitors,
           Tally(S, daily, visitors)
    PROVE  Tally(S, [x \in {y \in DOMAIN daily : y[2] >= FirstKept(w, KeepDays)} |-> daily[x]],
                 {v \in visitors : v[1][2] >= FirstKept(w, VisitorDays)})
<1>. DEFINE D == [x \in {y \in DOMAIN daily : y[2] >= FirstKept(w, KeepDays)} |-> daily[x]]
<1>1. /\ FirstKept(w, KeepDays) <= FirstKept(now, KeepDays) /\ FirstKept(w, VisitorDays) <= FirstKept(now, VisitorDays)
      /\ FirstKept(w, KeepDays) \in Nat /\ FirstKept(w, VisitorDays) \in Nat
      /\ FirstKept(now, KeepDays) \in Nat /\ FirstKept(now, VisitorDays) \in Nat
    BY FirstKeptGrows, FirstKeptType, CalendarAssumption DEF LogTypeOK
<1>2. DOMAIN D \subseteq Apps \X Nat
    BY DEF Tally
<1>3. ASSUME NEW c \in Apps \X Nat, c[2] >= FirstKept(now, KeepDays)
      PROVE  Row(D, c, Zero) = Row(daily, c, Zero)
    <2>1. c[2] >= FirstKept(w, KeepDays)
        <3>1. c[2] \in Nat
            OBVIOUS
        <3>. QED  BY <1>1, <1>3, <3>1
    <2>. QED  BY <2>1 DEF Row
<1>4. \A v \in Seen(S) : v[1][2] >= FirstKept(now, VisitorDays) => v[1][2] >= FirstKept(w, VisitorDays)
    BY <1>1, SeenDays
<1>. QED  BY <1>2, <1>3, <1>4 DEF Tally

\* Retention forgets of all tables only what no row still to be counted can need.
LEMMA TalliedTrimmed ==
    ASSUME LogTypeOK, NEW w \in Nat, w <= now, NEW n \in Nat, 1..n \subseteq Positions, NEW t, Tallied(t, n)
    PROVE  Tallied([exact |-> TrimExact(t.exact, w), public |-> TrimPublic(t.public, w)], n)
<1>. DEFINE e == TrimExact(t.exact, w)
            u == TrimPublic(t.public, w)
<1>1. /\ e.daily = [x \in {y \in DOMAIN t.exact.daily : y[2] >= FirstKept(w, KeepDays)} |-> t.exact.daily[x]]
      /\ e.visitors = {v \in t.exact.visitors : v[1][2] >= FirstKept(w, VisitorDays)}
      /\ e.completed = {c \in t.exact.completed : c.at + SeenTTL >= w}
    BY DEF TrimExact, Keeping
<1>2. /\ u.daily = [x \in {y \in DOMAIN t.public.daily : y[2] >= FirstKept(w, KeepDays)} |-> t.public.daily[x]]
      /\ u.visitors = {v \in t.public.visitors : v[1][2] >= FirstKept(w, VisitorDays)}
    BY DEF TrimPublic, Keeping
<1>3. Contributing(1..n) \in SUBSET Positions /\ Candidates(n) \in SUBSET Positions
    BY ContributingIs DEF Candidates
<1>4. Tally(Contributing(1..n), e.daily, e.visitors)
    <2>1. Tally(Contributing(1..n), t.exact.daily, t.exact.visitors)
        BY DEF Tallied
    <2>. HIDE DEF e
    <2>. QED  BY <1>1, <1>3, <2>1, TallyTrimmed
<1>5. Tally(Candidates(n), u.daily, u.visitors)
    <2>1. Tally(Candidates(n), t.public.daily, t.public.visitors)
        BY DEF Tallied
    <2>. HIDE DEF u
    <2>. QED  BY <1>2, <1>3, <2>1, TallyTrimmed
<1>6. CompletedRight(e.completed, n)
    <2>. HIDE DEF e
    <2>1. CompletedRight(t.exact.completed, n)
        BY DEF Tallied
    <2>2. ASSUME NEW s \in Contributing(1..n), IsCompletion(log[s].p),
                 [app |-> log[s].p.app, request |-> log[s].p.request, at |-> log[s].at] \in t.exact.completed
          PROVE  \/ [app |-> log[s].p.app, request |-> log[s].p.request, at |-> log[s].at] \in e.completed
                 \/ log[s].at + SeenTTL < now
        <3>1. log[s].at \in Nat /\ SeenTTL \in Nat /\ now \in Nat
            BY <1>3, RowType, CalendarAssumption DEF LogTypeOK
        <3>2. CASE log[s].at + SeenTTL >= w
            BY <1>1, <2>2, <3>2
        <3>3. CASE ~(log[s].at + SeenTTL >= w)
            <4>. DEFINE a == log[s].at
            <4>1. a \in Nat /\ ~(a + SeenTTL >= w)
                BY <3>1, <3>3
            <4>2. a + SeenTTL < now
                <5>. HIDE DEF a
                <5>. QED  BY <3>1, <4>1
            <4>. QED  BY <4>2
        <3>. QED  BY <3>2, <3>3
    <2>. QED  BY <1>1, <2>1, <2>2 DEF CompletedRight
<1>. HIDE DEF e, u
<1>. QED  BY <1>4, <1>5, <1>6 DEF Tallied, e, u

-----------------------------------------------------------------------------
(* What is right of the tables stays right as the log and the clock grow. *)

-----------------------------------------------------------------------------
(* Later acceptances and the passing of time change no tally. *)

\* What a prefix of the log contributes does not change as the log grows.
LEMMA ContributingStands ==
    ASSUME NEW n \in Nat, \A s \in 1..n : log'[s] = log[s]
    PROVE  Contributing(1..n)' = Contributing(1..n) /\ Candidates(n)' = Candidates(n)
<1>1. Contributing(1..n)' = Contributing(1..n)
    BY DEF Contributing
<1>2. Contributing(1..n) \subseteq 1..n
    BY ContributingIs
<1>. QED  BY <1>1, <1>2 DEF Candidates

\* Tables stay right while the clock advances: ever fewer cells have to be kept.
LEMMA TallyStands ==
    ASSUME LogTypeOK, now' \in Nat, now <= now', NEW S \in SUBSET Positions, \A s \in S : log'[s] = log[s],
           NEW daily, NEW visitors, Tally(S, daily, visitors)
    PROVE  Tally(S, daily, visitors)'
<1>1. /\ FirstKept(now, KeepDays) <= FirstKept(now', KeepDays)
      /\ FirstKept(now, VisitorDays) <= FirstKept(now', VisitorDays)
      /\ FirstKept(now, KeepDays) \in Nat /\ FirstKept(now, VisitorDays) \in Nat
      /\ FirstKept(now', KeepDays) \in Nat /\ FirstKept(now', VisitorDays) \in Nat
    BY FirstKeptGrows, FirstKeptType, CalendarAssumption DEF LogTypeOK
<1>2. Seen(S)' = Seen(S)
    BY DEF Seen
<1>3. ASSUME NEW c
      PROVE  Recount(c, S)' = Recount(c, S)
    <2>. DEFINE Mine == {s \in S : Cell(log[s].p) = c}
    <2>1. Mine' = Mine /\ \A s \in Mine : log'[s] = log[s]
        OBVIOUS
    <2>2. /\ {s \in Mine : log[s].p.kind = "page_view"}' = {s \in Mine : log[s].p.kind = "page_view"}
          /\ (UNION {Visitor(log[s].p) : s \in Mine})' = UNION {Visitor(log[s].p) : s \in Mine}
          /\ {s \in Mine : IsCompletion(log[s].p)}' = {s \in Mine : IsCompletion(log[s].p)}
          /\ {s \in Mine : IsCompletion(log[s].p) /\ log[s].p.ok}' = {s \in Mine : IsCompletion(log[s].p) /\ log[s].p.ok}
        <3>. HIDE DEF Mine
        <3>. QED  BY <2>1
    <2>. QED  BY <2>2 DEF Recount
<1>4. DOMAIN daily \subseteq Apps \X Nat /\ visitors \subseteq Seen(S)
    BY DEF Tally
<1>5. \A c \in Apps \X Nat : c[2] >= FirstKept(now', KeepDays) => c[2] >= FirstKept(now, KeepDays)
    BY <1>1
<1>6. \A c \in Apps \X Nat : c[2] >= FirstKept(now', KeepDays) => Row(daily, c, Zero) = Recount(c, S)'
    BY <1>3, <1>5 DEF Tally
<1>7. \A v \in Seen(S) : v[1][2] >= FirstKept(now', VisitorDays) => v \in visitors
    <2>1. \A v \in Seen(S) : v[1][2] >= FirstKept(now', VisitorDays) => v[1][2] >= FirstKept(now, VisitorDays)
        BY <1>1, SeenDays
    <2>. QED  BY <2>1 DEF Tally
<1>. QED  BY <1>2, <1>4, <1>6, <1>7 DEF Tally

\* All tables together.
LEMMA TalliedStands ==
    ASSUME LogTypeOK, now' \in Nat, now <= now', NEW n \in Nat, 1..n \subseteq Positions,
           \A s \in 1..n : log'[s] = log[s], NEW t, Tallied(t, n)
    PROVE  Tallied(t, n)'
<1>1. Contributing(1..n)' = Contributing(1..n) /\ Candidates(n)' = Candidates(n)
    BY ContributingStands
<1>2. Contributing(1..n) \subseteq 1..n /\ Candidates(n) \subseteq 1..n
    BY ContributingIs DEF Candidates
<1>3. CompletedRight(t.exact.completed, n)'
    <2>1. ASSUME NEW s \in Contributing(1..n), log[s].at + SeenTTL < now
          PROVE  log[s].at + SeenTTL < now'
        <3>1. log[s].at \in Nat /\ SeenTTL \in Nat /\ now \in Nat
            BY <1>2, RowType, CalendarAssumption DEF LogTypeOK
        <3>. DEFINE a == log[s].at
        <3>2. a \in Nat /\ a + SeenTTL < now
            BY <2>1, <3>1
        <3>3. a + SeenTTL < now'
            <4>. HIDE DEF a
            <4>. QED  BY <3>1, <3>2
        <3>. QED  BY <3>3
    <2>. QED  BY <1>1, <1>2, <2>1 DEF Tallied, CompletedRight
<1>4. PICK C \in SUBSET Positions : C = Contributing(1..n)
    BY <1>2
<1>5. PICK E \in SUBSET Positions : E = Candidates(n)
    BY <1>2
<1>6. (\A s \in C : log'[s] = log[s]) /\ (\A s \in E : log'[s] = log[s])
    BY <1>2, <1>4, <1>5
<1>7. PICK ed, ev, pd, pv : ed = t.exact.daily /\ ev = t.exact.visitors /\ pd = t.public.daily /\ pv = t.public.visitors
    OBVIOUS
<1>8. Tally(C, ed, ev) /\ Tally(E, pd, pv)
    BY <1>4, <1>5, <1>7 DEF Tallied
<1>9. Tally(C, ed, ev)' /\ Tally(E, pd, pv)'
    BY <1>6, <1>8, TallyStands
<1>. QED  BY <1>1, <1>3, <1>4, <1>5, <1>7, <1>9 DEF Tallied

-----------------------------------------------------------------------------
(* The totals are true in every state. *)

\* The publication slot of a time is not after it.
LEMMA SlotBounds ==
    ASSUME NEW t \in Nat
    PROVE  Slot(t) \in Int /\ Slot(t) <= t
<1>. DEFINE D == DayLen * Day(t)
<1>1. DayLen \in Nat /\ Day(t) \in Nat /\ CutoffOffset \in Nat /\ CutoffOffset < DayLen /\ D \in Nat /\ D <= t
      /\ Day(t) * DayLen = D
    BY DayBounds, CalendarAssumption
<1>2. Slot(t) = IF t >= D + CutoffOffset THEN D + CutoffOffset ELSE D + CutoffOffset - DayLen
    BY <1>1 DEF Slot
<1>. HIDE DEF D
<1>. QED  BY <1>1, <1>2

\* Slots follow the order of time.
LEMMA SlotGrows ==
    ASSUME NEW t \in Nat, NEW u \in Nat, t <= u
    PROVE  Slot(t) <= Slot(u)
<1>. DEFINE D == DayLen * Day(t)
            E == DayLen * Day(u)
<1>1. /\ DayLen \in Nat /\ CutoffOffset \in Nat /\ CutoffOffset < DayLen /\ D \in Nat /\ E \in Nat
      /\ Day(t) * DayLen = D /\ Day(u) * DayLen = E /\ Day(t) \in Nat /\ Day(u) \in Nat
    BY DayBounds, CalendarAssumption
<1>2. E = D \/ E >= D + DayLen
    <2>1. Day(t) <= Day(u)
        BY DayGrows
    <2>2. CASE Day(t) = Day(u)
        BY <2>2
    <2>3. CASE Day(t) + 1 <= Day(u)
        <3>1. PICK k \in Nat : Day(u) = Day(t) + 1 + k
            <4>1. Day(u) - (Day(t) + 1) \in Nat /\ Day(u) = Day(t) + 1 + (Day(u) - (Day(t) + 1))
                BY <1>1, <2>3
            <4>. QED  BY <4>1
        <3>2. DayLen * Day(u) = DayLen * Day(t) + DayLen + DayLen * k /\ DayLen * k >= 0
            BY <1>1, <3>1
        <3>. QED  BY <1>1, <3>2
    <2>. QED  BY <1>1, <2>1, <2>2, <2>3
<1>3. Slot(t) = IF t >= D + CutoffOffset THEN D + CutoffOffset ELSE D + CutoffOffset - DayLen
    BY <1>1 DEF Slot
<1>4. Slot(u) = IF u >= E + CutoffOffset THEN E + CutoffOffset ELSE E + CutoffOffset - DayLen
    BY <1>1 DEF Slot
<1>. HIDE DEF D, E
<1>. QED  BY <1>1, <1>2, <1>3, <1>4

\* What is shown of a day is pending, or fixed for good.
SnapshotRight ==
    /\ DOMAIN public.frozen \subseteq Apps \X Nat
    /\ \A c \in DOMAIN public.snapshot.days :
         \/ public.snapshot.days[c] = Pending
         \/ /\ c \in DOMAIN public.frozen /\ public.snapshot.days[c] = public.frozen[c]
            /\ public.snapshot.slot \in Int /\ public.snapshot.slot <= Slot(now)
            /\ Cutoff(c[2]) <= public.snapshot.slot

\* The inductive invariant of the totals.
TotalsInv ==
    /\ faults \in 0..MaxFaults
    /\ summary.at \in {None} \union 0..now
    /\ Tallied(Totals, cursor)
    /\ GapNeverUndercounts
    /\ SnapshotRight

\* What is counted has been accepted.
LEMMA CursorBelow ==
    ASSUME LogTypeOK
    PROVE  cursor \in Nat /\ 1..cursor \subseteq Positions
BY LogLength DEF LogTypeOK, Positions

\* The rows lost so far can be counted.
LEMMA LostFinite ==
    ASSUME LogTypeOK
    PROVE  Lost \in SUBSET Positions /\ IsFiniteSet(Lost) /\ Cardinality(Lost) \in Nat
<1>1. Lost \in SUBSET Positions
    BY DEF Lost
<1>. QED  BY <1>1, FiniteRows, FS_CardinalityType

\* Steps that leave the tables and the cursor alone, whatever else happens to the log or the clock.
LEMMA TalliedKept ==
    ASSUME LogTypeOK, LogTypeOK', Tallied(Totals, cursor), now <= now',
           \A s \in Positions : log'[s] = log[s],
           UNCHANGED cursor,
           exact'.daily = exact.daily, exact'.visitors = exact.visitors, exact'.completed = exact.completed,
           public'.daily = public.daily, public'.visitors = public.visitors
    PROVE  Tallied(Totals, cursor)'
<1>1. PICK n \in Nat : n = cursor
    BY CursorBelow
<1>2. PICK t : t = Totals
    OBVIOUS
<1>3. Tallied(t, n)
    BY <1>1, <1>2
<1>4. 1..n \subseteq Positions /\ \A s \in 1..n : log'[s] = log[s]
    BY <1>1, CursorBelow
<1>5. now' \in Nat
    BY DEF LogTypeOK
<1>6. Tallied(t, n)'
    BY <1>3, <1>4, <1>5, TalliedStands
<1>7. n = cursor'
    BY <1>1
<1>8. /\ Totals'.exact.daily = t.exact.daily /\ Totals'.exact.visitors = t.exact.visitors
      /\ Totals'.exact.completed = t.exact.completed
      /\ Totals'.public.daily = t.public.daily /\ Totals'.public.visitors = t.public.visitors
    BY <1>2 DEF Totals
<1>. QED  BY <1>6, <1>7, <1>8 DEF Tallied

\* Accepting a batch loses nothing and counts nothing.
LEMMA CommitTallies ==
    ASSUME IInv, IInv', TotalsInv, NEW c \in Clients, CommitIngest(c)
    PROVE  TotalsInv'
<1>1. UNCHANGED <<now, cursor, gap, exact, summary, public, faults>>
    BY DEF CommitIngest
<1>2. /\ \A s \in Positions : log'[s] = log[s] /\ s \in Positions'
      /\ live' = live \union (Positions' \ Positions)
    BY CommitType DEF IInv
<1>3. Tallied(Totals, cursor)'
    <2>1. now <= now'
        BY <1>1 DEF IInv, LogTypeOK
    <2>. QED  BY <1>1, <1>2, <2>1, TalliedKept DEF IInv, TotalsInv
<1>4. Lost' = Lost
    BY <1>1, <1>2 DEF Lost
<1>. QED  BY <1>1, <1>3, <1>4 DEF TotalsInv, GapNeverUndercounts, SnapshotRight

\* Retention: the receipt covers every row deleted uncounted, the tables lose only what is not kept.
LEMMA MaintainTallies ==
    ASSUME IInv, IInv', TotalsInv, Maintain
    PROVE  TotalsInv'
<1>1. /\ gap' = AggregateGap /\ live' = live \ Lapsed(worker.at)
      /\ exact' = TrimExact(exact, worker.at) /\ public' = TrimPublic(public, worker.at)
      /\ summary' = TrimSummary(summary, worker.at)
      /\ UNCHANGED <<now, log, cursor, faults>>
    BY DEF Maintain
<1>2. worker.at \in Nat /\ now \in Nat /\ worker.at <= now /\ LogTypeOK
    BY DEF IInv, LogTypeOK
<1>3. Tallied(Totals, cursor)'
    <2>1. PICK n \in Nat : n = cursor
        BY <1>2, CursorBelow
    <2>2. PICK t : t = Totals
        OBVIOUS
    <2>3. PICK w \in Nat : w = worker.at
        BY <1>2
    <2>. DEFINE u == [exact |-> TrimExact(t.exact, w), public |-> TrimPublic(t.public, w)]
    <2>4. Tallied(u, n)
        <3>1. 1..n \subseteq Positions /\ Tallied(t, n) /\ w <= now
            BY <1>2, <2>1, <2>2, <2>3, CursorBelow DEF TotalsInv
        <3>. QED  BY <1>2, <3>1, TalliedTrimmed
    <2>5. PICK v : v = u
        OBVIOUS
    <2>6. Tallied(v, n)'
        <3>1. 1..n \subseteq Positions /\ \A s \in 1..n : log'[s] = log[s]
            BY <1>1, <1>2, <2>1, CursorBelow
        <3>. HIDE DEF u
        <3>. QED  BY <1>1, <1>2, <2>4, <2>5, <3>1, TalliedStands
    <2>7. Totals' = v /\ n = cursor'
        BY <1>1, <2>1, <2>2, <2>3, <2>5 DEF Totals
    <2>. QED  BY <2>6, <2>7
<1>4. GapNeverUndercounts'
    <2>1. Lost' \subseteq Lost \union Uncounted
        <3>1. Lapsed(worker.at) \subseteq Lapsed(now)
            BY <1>2, EarlierLapsed
        <3>. QED  BY <1>1, <3>1 DEF Lost, Uncounted, Positions
    <2>0. Uncounted \in SUBSET Positions
        BY <1>2, LapsedType, Zenon
    <2>2. /\ IsFiniteSet(Lost) /\ IsFiniteSet(Uncounted) /\ Cardinality(Lost) \in Nat /\ Cardinality(Uncounted) \in Nat
        <3>1. IsFiniteSet(Uncounted)
            BY <1>2, <2>0, FiniteRows
        <3>2. Cardinality(Uncounted) \in Nat
            BY <3>1, FS_CardinalityType
        <3>. QED  BY <1>2, <3>1, <3>2, LostFinite
    <2>3. Lost \intersect Uncounted = {}
        BY DEF Lost, Uncounted, Lapsed
    <2>4. /\ IsFiniteSet(Lost \union Uncounted)
          /\ Cardinality(Lost \union Uncounted) = Cardinality(Lost) + Cardinality(Uncounted)
        <3>1. PICK A : A = Lost
            OBVIOUS
        <3>2. PICK B : B = Uncounted
            OBVIOUS
        <3>3. IsFiniteSet(A) /\ IsFiniteSet(B) /\ A \intersect B = {}
            BY <2>2, <2>3, <3>1, <3>2
        <3>4. IsFiniteSet(A \union B)
              /\ Cardinality(A \union B) = Cardinality(A) + Cardinality(B) - Cardinality(A \intersect B)
            BY <3>3, FS_Union
        <3>5. Cardinality(A \intersect B) = 0 /\ Cardinality(A) \in Nat /\ Cardinality(B) \in Nat
            BY <3>3, FS_EmptySet, FS_CardinalityType
        <3>. QED  BY <3>1, <3>2, <3>4, <3>5
    <2>5. Cardinality(Lost') <= Cardinality(Lost) + Cardinality(Uncounted) /\ Cardinality(Lost') \in Nat
        <3>1. PICK A : A = Lost'
            OBVIOUS
        <3>2. PICK B : B = Lost \union Uncounted
            OBVIOUS
        <3>3. A \subseteq B /\ IsFiniteSet(B)
            BY <2>1, <2>4, <3>1, <3>2
        <3>4. IsFiniteSet(A) /\ Cardinality(A) <= Cardinality(B)
            BY <3>3, FS_Subset
        <3>5. Cardinality(A) \in Nat
            BY <3>4, FS_CardinalityType
        <3>. QED  BY <2>4, <3>1, <3>2, <3>4, <3>5
    <2>6. Cardinality(Lost) <= IF gap = None THEN 0 ELSE gap.count
        BY DEF TotalsInv, GapNeverUndercounts
    <2>7. gap # None => gap.count \in Nat
        BY <1>2 DEF LogTypeOK
    <2>8. AggregateGap # None \/ (Uncounted = {} /\ gap = None)
        <3>1. AggregateGap = None <=> (gap = None /\ Uncounted = {})
            BY <1>2, GapProperty, Zenon
        <3>. QED  BY <3>1, Zenon
    <2>9. AggregateGap # None => AggregateGap.count = Cardinality(Uncounted) + IF gap = None THEN 0 ELSE gap.count
        <3>1. CASE Uncounted = {}
            BY <2>7, <3>1, FS_EmptySet DEF AggregateGap
        <3>2. CASE Uncounted # {}
            BY <2>2, <2>7, <3>2 DEF AggregateGap
        <3>. QED  BY <3>1, <3>2
    <2>10. Uncounted = {} => Cardinality(Uncounted) = 0
        BY FS_EmptySet
    <2>11. Cardinality(Lost') <= IF AggregateGap = None THEN 0 ELSE AggregateGap.count
        <3>. DEFINE x == Cardinality(Lost)
                    y == Cardinality(Uncounted)
                    z == Cardinality(Lost')
                    g == IF gap = None THEN 0 ELSE gap.count
        <3>1. x \in Nat /\ y \in Nat /\ z \in Nat /\ g \in Nat /\ z <= x + y /\ x <= g
            BY <2>2, <2>5, <2>6, <2>7
        <3>2. AggregateGap # None => AggregateGap.count = y + g
            BY <2>9
        <3>3. AggregateGap = None => y = 0 /\ g = 0
            BY <2>8, <2>10
        <3>4. z <= IF AggregateGap = None THEN 0 ELSE AggregateGap.count
            <4>. HIDE DEF x, y, z, g
            <4>. QED  BY <3>1, <3>2, <3>3
        <3>. QED  BY <3>4
    <2>. QED  BY <1>1, <2>11 DEF GapNeverUndercounts
<1>5. SnapshotRight'
    <2>. DEFINE Kept(c) == c[2] >= FirstKept(worker.at, KeepDays)
    <2>1. /\ public'.frozen = [x \in {y \in DOMAIN public.frozen : Kept(y)} |-> public.frozen[x]]
          /\ public'.snapshot.days = [x \in {y \in DOMAIN public.snapshot.days : Kept(y)} |-> public.snapshot.days[x]]
          /\ public'.snapshot.slot = public.snapshot.slot
        BY <1>1 DEF TrimPublic, Keeping
    <2>. HIDE DEF Kept
    <2>. QED  BY <1>1, <2>1 DEF TotalsInv, SnapshotRight
<1>6. summary'.at = summary.at
    BY <1>1 DEF TrimSummary
<1>. QED  BY <1>1, <1>3, <1>4, <1>5, <1>6 DEF TotalsInv

\* Aggregation counts exactly the rows it moves the cursor over.
LEMMA AggregateTotals ==
    ASSUME IInv, IInv', Plausible, TotalsInv, Aggregate
    PROVE  TotalsInv'
<1>1. /\ AggregateGap = None
      /\ exact' = Counting[Len(log)].exact /\ public' = Counting[Len(log)].public
      /\ cursor' = Reached
      /\ UNCHANGED <<now, log, live, gap, faults>>
    BY DEF Aggregate, Reached
<1>2. LogTypeOK /\ LogTypeOK' /\ now \in Nat /\ now' \in Nat /\ now <= now'
    BY <1>1 DEF IInv, LogTypeOK
<1>3. AllReadable
    BY <1>1, NoGap
<1>4. PICK t : t = Counting[Len(log)]
    OBVIOUS
<1>5. PICK n \in Nat : n = Reached
    <2>1. cursor' \in Nat
        BY LogLength DEF IInv, LogTypeOK
    <2>. QED  BY <1>1, <2>1
<1>6. Tallied(t, n) /\ t.public.frozen = public.frozen /\ t.public.snapshot = public.snapshot
    BY <1>2, <1>3, <1>4, <1>5, AggregateTallies DEF TotalsInv
<1>7. Tallied(Totals, cursor)'
    <2>1. 1..n \subseteq Positions
        BY <1>1, <1>2, <1>5, LogLength DEF LogTypeOK, Positions
    <2>2. Tallied(t, n)'
        BY <1>1, <1>2, <1>6, <2>1, TalliedStands
    <2>3. n = cursor' /\ Totals' = [exact |-> t.exact, public |-> t.public]
        BY <1>1, <1>4, <1>5 DEF Totals
    <2>. QED  BY <2>2, <2>3 DEF Tallied
<1>8. GapNeverUndercounts'
    <2>1. cursor <= cursor' /\ cursor \in Nat /\ cursor' \in Nat /\ Positions' \subseteq Nat /\ Positions' = Positions
        <3>1. cursor <= cursor'
            BY AggregateSafe
        <3>2. Positions' = Positions /\ Positions \subseteq Nat
            BY <1>1, <1>2, LogLength DEF Positions
        <3>3. cursor \in Nat /\ cursor' \in Nat
            <4>1. Len(log) \in Nat /\ Len(log)' = Len(log)
                BY <1>1, <1>2, LogLength
            <4>. QED  BY <1>2, <4>1 DEF LogTypeOK
        <3>. QED  BY <3>1, <3>2, <3>3
    <2>2. Lost' = {}
        <3>1. \A s \in Positions : s > cursor' => s > cursor
            BY <2>1
        <3>2. \A s \in Positions : s > cursor' => s \in live
            BY <1>3, <3>1 DEF AllReadable
        <3>3. Lost' = {s \in Positions' : s > cursor' /\ s \notin live'}
            BY DEF Lost
        <3>. QED  BY <1>1, <2>1, <3>2, <3>3
    <2>3. Cardinality(Lost') = 0
        <3>1. Cardinality({}) = 0
            BY FS_EmptySet
        <3>. QED  BY <2>2, <3>1
    <2>4. gap = None
        BY <1>1, <1>2, GapProperty, Zenon
    <2>. QED  BY <1>1, <2>3, <2>4 DEF GapNeverUndercounts
<1>9. SnapshotRight'
    <2>1. public'.frozen = public.frozen /\ public'.snapshot = public.snapshot
        BY <1>1, <1>4, <1>6
    <2>. QED  BY <1>1, <2>1 DEF TotalsInv, SnapshotRight
<1>10. summary'.at \in {None} \union 0..now'
    BY <1>1, <1>2 DEF Aggregate, TotalsInv
<1>. QED  BY <1>1, <1>7, <1>8, <1>9, <1>10 DEF TotalsInv

\* What publish_public does to the snapshot and to the frozen days.
LEMMA Published ==
    ASSUME LogTypeOK, SnapshotRight, NEW u, u = PublishPublic(public, now, startDay)
    PROVE  /\ u.daily = public.daily /\ u.visitors = public.visitors
           /\ DOMAIN public.frozen \subseteq DOMAIN u.frozen
           /\ \A c \in DOMAIN public.frozen : u.frozen[c] = public.frozen[c]
           /\ DOMAIN u.frozen \subseteq Apps \X Nat
           /\ \A c \in DOMAIN u.frozen \ DOMAIN public.frozen :
                c[2] >= FirstKept(now, KeepDays) /\ Cutoff(c[2]) <= Slot(now)
           /\ \/ u.snapshot = public.snapshot /\ u.frozen = public.frozen
              \/ /\ u.snapshot.slot = Slot(now)
                 /\ \A c \in DOMAIN u.snapshot.days :
                      \/ u.snapshot.days[c] = Pending /\ ~(Cutoff(c[2]) <= Slot(now))
                      \/ /\ c \in DOMAIN u.frozen /\ u.snapshot.days[c] = u.frozen[c]
                         /\ Cutoff(c[2]) <= Slot(now)
<1>. DEFINE slot == Slot(now)
            first == IF startDay >= FirstKept(now, KeepDays) THEN startDay ELSE FirstKept(now, KeepDays)
            cells == Apps \X (first..Day(now))
            due == {c \in cells : Cutoff(c[2]) <= slot}
<1>1. /\ startDay \in Nat /\ FirstKept(now, KeepDays) \in Nat /\ Day(now) \in Nat
    BY DayBounds, FirstKeptType, StoreAssumption, CalendarAssumption DEF startDay, LogTypeOK
<1>2. cells \subseteq Apps \X Nat /\ \A c \in cells : c[2] >= FirstKept(now, KeepDays)
    BY <1>1
<1>3. CASE public.snapshot.slot = slot
    <2>1. u = public
        BY <1>3 DEF PublishPublic
    <2>. QED  BY <2>1 DEF SnapshotRight
<1>4. CASE public.snapshot.slot # slot
    <2>1. u = [daily |-> public.daily, visitors |-> public.visitors, heat |-> public.heat,
               heatVisitors |-> public.heatVisitors,
               frozen |-> [c \in DOMAIN public.frozen \union due |-> ShownDay(public, c)],
               snapshot |-> [slot |-> slot, at |-> now,
                             days |-> [c \in cells |-> IF c \in due THEN ShownDay(public, c) ELSE Pending]]]
        BY <1>4 DEF PublishPublic
    <2>. HIDE DEF cells
    <2>2. /\ u.daily = public.daily /\ u.visitors = public.visitors
          /\ u.frozen = [c \in DOMAIN public.frozen \union due |-> ShownDay(public, c)]
          /\ u.snapshot.slot = slot
          /\ u.snapshot.days = [c \in cells |-> IF c \in due THEN ShownDay(public, c) ELSE Pending]
        BY <2>1
    <2>3. \A c \in due : c \in cells /\ Cutoff(c[2]) <= slot
        OBVIOUS
    <2>4. \A c \in cells : c \notin due => ~(Cutoff(c[2]) <= slot)
        OBVIOUS
    <2>. HIDE DEF due, slot
    <2>5. /\ DOMAIN u.frozen = DOMAIN public.frozen \union due
          /\ \A c \in DOMAIN u.frozen : u.frozen[c] = ShownDay(public, c)
          /\ DOMAIN u.snapshot.days = cells
          /\ \A c \in cells : u.snapshot.days[c] = IF c \in due THEN ShownDay(public, c) ELSE Pending
        BY <2>2
    <2>6. \A c \in DOMAIN public.frozen : u.frozen[c] = public.frozen[c]
        BY <2>5 DEF ShownDay
    <2>7. DOMAIN u.frozen \subseteq Apps \X Nat
        BY <1>2, <2>3, <2>5 DEF SnapshotRight
    <2>8. \A c \in DOMAIN u.frozen \ DOMAIN public.frozen :
            c[2] >= FirstKept(now, KeepDays) /\ Cutoff(c[2]) <= slot
        BY <1>2, <2>3, <2>5
    <2>9. \A c \in cells :
            \/ u.snapshot.days[c] = Pending /\ ~(Cutoff(c[2]) <= slot)
            \/ /\ c \in DOMAIN u.frozen /\ u.snapshot.days[c] = u.frozen[c]
               /\ Cutoff(c[2]) <= slot
        BY <2>3, <2>4, <2>5
    <2>. QED  BY <2>2, <2>5, <2>6, <2>7, <2>8, <2>9 DEF slot
<1>. QED  BY <1>3, <1>4

\* Publication freezes days and leaves the tables alone.
LEMMA PublishTotals ==
    ASSUME IInv, IInv', TotalsInv, Publish
    PROVE  TotalsInv'
<1>1. /\ UNCHANGED <<now, log, live, cursor, gap, exact, summary, faults>>
      /\ public' = public \/ public' = PublishPublic(public, now, startDay)
    BY DEF Publish
<1>2. LogTypeOK /\ LogTypeOK' /\ now \in Nat /\ now <= now' /\ SnapshotRight
    BY <1>1 DEF IInv, LogTypeOK, TotalsInv
<1>3. CASE public' = public
    <2>1. Tallied(Totals, cursor)'
        BY <1>1, <1>2, <1>3, TalliedKept DEF TotalsInv
    <2>. QED  BY <1>1, <1>3, <2>1 DEF TotalsInv, GapNeverUndercounts, Lost, Positions, SnapshotRight
<1>4. CASE public' = PublishPublic(public, now, startDay)
    <2>1. PICK u : u = PublishPublic(public, now, startDay)
        OBVIOUS
    <2>2. /\ u.daily = public.daily /\ u.visitors = public.visitors
          /\ DOMAIN u.frozen \subseteq Apps \X Nat
          /\ \/ u.snapshot = public.snapshot /\ u.frozen = public.frozen
             \/ /\ u.snapshot.slot = Slot(now)
                /\ \A c \in DOMAIN u.snapshot.days :
                     \/ u.snapshot.days[c] = Pending
                     \/ /\ c \in DOMAIN u.frozen /\ u.snapshot.days[c] = u.frozen[c]
                        /\ Cutoff(c[2]) <= Slot(now)
        BY <1>2, <2>1, Published
    <2>3. public' = u
        BY <1>4, <2>1
    <2>4. Tallied(Totals, cursor)'
        BY <1>1, <1>2, <2>2, <2>3, TalliedKept DEF TotalsInv
    <2>5. Slot(now) \in Int /\ Slot(now) <= Slot(now)
        BY <1>2, SlotBounds
    <2>6. SnapshotRight'
        BY <1>1, <1>2, <2>2, <2>3, <2>5 DEF SnapshotRight
    <2>. QED  BY <1>1, <2>4, <2>6 DEF TotalsInv, GapNeverUndercounts, Lost, Positions
<1>. QED  BY <1>1, <1>3, <1>4

\* Steps that leave the database alone.
LEMMA TotalsOtherSteps ==
    ASSUME IInv, IInv', TotalsInv, UNCHANGED database, now' \in {now, now + 1}, faults' \in 0..MaxFaults
    PROVE  TotalsInv'
<1>1. /\ LogTypeOK /\ LogTypeOK' /\ now \in Nat /\ now' \in Nat /\ now <= now'
      /\ UNCHANGED <<log, live, cursor, gap, exact, summary, public>>
    BY DEF IInv, LogTypeOK, database
<1>2. Tallied(Totals, cursor)'
    BY <1>1, TalliedKept DEF TotalsInv
<1>3. SnapshotRight'
    <2>1. PICK t \in Nat : t = now
        BY <1>1
    <2>2. PICK v \in Nat : v = now'
        BY <1>1
    <2>3. Slot(t) \in Int /\ Slot(v) \in Int /\ Slot(t) <= Slot(v)
        BY <1>1, <2>1, <2>2, SlotBounds, SlotGrows
    <2>4. \A x \in Int : x <= Slot(t) => x <= Slot(v)
        BY <2>3
    <2>5. Slot(now) = Slot(t) /\ Slot(now)' = Slot(v)
        BY <2>1, <2>2
    <2>. QED  BY <1>1, <2>4, <2>5 DEF TotalsInv, SnapshotRight
<1>4. summary'.at \in {None} \union 0..now'
    BY <1>1 DEF TotalsInv
<1>. QED  BY <1>1, <1>2, <1>3, <1>4 DEF TotalsInv, GapNeverUndercounts, Lost, Positions

\* Every step keeps the invariant of the totals.
LEMMA TotalsStep ==
    ASSUME IInv, IInv', Plausible, TotalsInv, [Next]_storeVars
    PROVE  TotalsInv'
<1>1. CASE Maintain
    BY <1>1, MaintainTallies
<1>2. CASE Aggregate
    BY <1>2, AggregateTotals
<1>3. CASE Publish
    BY <1>3, PublishTotals
<1>4. CASE \E c \in Clients : CommitIngest(c)
    BY <1>4, CommitTallies
<1>5. CASE (\E c \in Clients : StartIngest(c) \/ RefuseIngest(c)) \/ Wake \/ Blocked \/ Tick \/ UNCHANGED storeVars
    <2>1. UNCHANGED database /\ now' \in {now, now + 1} /\ faults' = faults
        BY <1>5 DEF StartIngest, RefuseIngest, Wake, Blocked, Tick, storeVars
    <2>. QED  BY <2>1, TotalsOtherSteps DEF TotalsInv
<1>6. CASE WorkerError \/ Crash
    <2>1. UNCHANGED database /\ now' = now /\ faults < MaxFaults /\ faults' = faults + 1
        BY <1>6 DEF WorkerError, Crash
    <2>2. faults' \in 0..MaxFaults
        BY <2>1, RetentionAssumption DEF TotalsInv
    <2>. QED  BY <2>1, <2>2, TotalsOtherSteps
<1>. QED  BY <1>1, <1>2, <1>3, <1>4, <1>5, <1>6 DEF Next, WorkerStep

\* An empty database is right about an empty log.
LEMMA TotalsInit == Init => TotalsInv
<1>. SUFFICES ASSUME Init PROVE TotalsInv
    OBVIOUS
<1>1. /\ now = StartTime /\ log = << >> /\ live = {} /\ cursor = 0 /\ gap = None /\ faults = 0
      /\ exact = EmptyExact /\ summary = NoSummary /\ public = EmptyPublic
    BY DEF Init
<1>2. 1..cursor = {} /\ Positions = {}
    BY <1>1 DEF Positions
<1>3. Contributing(1..cursor) = {} /\ Candidates(cursor) = {}
    BY <1>2 DEF Contributing, Candidates
<1>4. Tally({}, << >>, {})
    <2>1. Seen({}) = {}
        BY DEF Seen
    <2>2. \A c : Row(<< >>, c, Zero) = Zero
        BY DEF Row
    <2>3. \A c : Recount(c, {}) = Zero
        <3>1. Cardinality({}) = 0
            BY FS_EmptySet
        <3>. TAKE c
        <3>2. /\ {s \in {} : Cell(log[s].p) = c} = {}
              /\ {s \in {} : log[s].p.kind = "page_view"} = {}
              /\ UNION {Visitor(log[s].p) : s \in {}} = {}
              /\ {s \in {} : IsCompletion(log[s].p)} = {}
              /\ {s \in {} : IsCompletion(log[s].p) /\ log[s].p.ok} = {}
            OBVIOUS
        <3>. QED  BY <3>1, <3>2, Zenon DEF Recount, Zero
    <2>. QED  BY <2>1, <2>2, <2>3 DEF Tally
<1>5. CompletedRight({}, cursor)
    BY <1>3 DEF CompletedRight
<1>6. Tallied(Totals, cursor)
    BY <1>1, <1>3, <1>4, <1>5 DEF Tallied, Totals, EmptyExact, EmptyPublic
<1>7. GapNeverUndercounts
    <2>1. Lost = {} /\ Cardinality({}) = 0
        BY <1>2, FS_EmptySet DEF Lost
    <2>. QED  BY <1>1, <2>1 DEF GapNeverUndercounts
<1>8. SnapshotRight
    BY <1>1 DEF SnapshotRight, EmptyPublic, NoSnapshot
<1>. QED  BY <1>1, <1>6, <1>7, <1>8, RetentionAssumption DEF TotalsInv, NoSummary

\* The invariant is more than the property.
LEMMA TotalsHold ==
    ASSUME IInv, TotalsInv
    PROVE  TotalsTrue
<1>. DEFINE S == Contributing(1..cursor)
<1>1. LogTypeOK /\ 1..cursor \subseteq Positions
    BY CursorBelow DEF IInv
<1>2. /\ Tally(S, exact.daily, exact.visitors)
      /\ Tally(Candidates(cursor), public.daily, public.visitors)
    BY DEF TotalsInv, Tallied, Totals
<1>3. EligibleRows = Candidates(cursor)
    BY DEF EligibleRows, Candidates, Eligible
<1>4. S \subseteq Positions /\ Candidates(cursor) \subseteq Positions
    BY <1>1 DEF Contributing, Candidates
<1>5. \A s \in Positions : Cell(log[s].p) \in Apps \X Nat
    BY <1>1, CellType
<1>6. ExactTotals
    <2>. SUFFICES ASSUME NEW c \in KeptCells(S)
                  PROVE  Row(exact.daily, c, Zero) = Recount(c, S)
        BY DEF ExactTotals
    <2>1. c \in Apps \X Nat /\ c[2] >= FirstKept(now, KeepDays)
        BY <1>4, <1>5 DEF KeptCells
    <2>. HIDE DEF S
    <2>. QED  BY <1>2, <2>1 DEF Tally
<1>7. PublicTotals
    <2>. SUFFICES ASSUME NEW c \in KeptCells(Candidates(cursor))
                  PROVE  Row(public.daily, c, Zero) = Recount(c, Candidates(cursor))
        BY <1>3 DEF PublicTotals
    <2>1. c \in Apps \X Nat /\ c[2] >= FirstKept(now, KeepDays)
        BY <1>4, <1>5 DEF KeptCells
    <2>. QED  BY <1>2, <2>1 DEF Tally
<1>8. TypeOK
    BY <1>1, <1>2 DEF TypeOK, TotalsInv, SnapshotRight, Tally
<1>. QED  BY <1>6, <1>7, <1>8 DEF TotalsTrue, TotalsInv

\* The invariant holds in every state.
LEMMA TotalsSafe == Spec => []TotalsInv
<1>1. IInv /\ IInv' /\ Plausible /\ TotalsInv /\ [Next]_storeVars => TotalsInv'
    BY TotalsStep
<1>2. OnceInv => Plausible
    BY DEF OnceInv
<1>. QED  BY <1>1, <1>2, TotalsInit, Safety, OnceSafe, PTL DEF Spec

\* Exact and public totals are those of a recount of the accepted events, through crashes,
\* rollbacks and the retention of visitors, requests and days, and the receipt of a gap
\* never reports fewer events than were lost (Store.aggregate, Store.maintain).
THEOREM TotalsAreTrue == Spec => []TotalsTrue
<1>1. IInv /\ TotalsInv => TotalsTrue
    BY TotalsHold
<1>. QED  BY <1>1, Safety, TotalsSafe, PTL

-----------------------------------------------------------------------------
(* What is published is complete and stays. *)

\* What is on the page is what was frozen.
LEMMA ShownAgain ==
    ASSUME LogTypeOK, SnapshotRight, NEW u, u = PublishPublic(public, now, startDay),
           NEW c \in DOMAIN public.snapshot.days \intersect DOMAIN u.snapshot.days
    PROVE  public.snapshot.days[c] \in {Pending, u.snapshot.days[c]}
<1>1. CASE public.snapshot.days[c] = Pending
    BY <1>1
<1>2. CASE u.snapshot = public.snapshot
    BY <1>2
<1>3. CASE public.snapshot.days[c] # Pending /\ u.snapshot # public.snapshot
    <2>1. /\ c \in DOMAIN public.frozen /\ public.snapshot.days[c] = public.frozen[c]
          /\ public.snapshot.slot \in Int /\ public.snapshot.slot <= Slot(now)
          /\ Cutoff(c[2]) <= public.snapshot.slot /\ c \in Apps \X Nat
        BY <1>3 DEF SnapshotRight
    <2>2. Cutoff(c[2]) <= Slot(now)
        <3>1. Cutoff(c[2]) \in Int
            BY <2>1, CalendarAssumption DEF Cutoff
        <3>2. Slot(now) \in Int
            BY SlotBounds DEF LogTypeOK
        <3>3. \A x, y, z \in Int : x <= y /\ y <= z => x <= z
            OBVIOUS
        <3>. QED  BY <2>1, <3>1, <3>2, <3>3
    <2>3. u.frozen[c] = public.frozen[c] /\ u.snapshot.days[c] = u.frozen[c]
        BY <1>3, <2>1, <2>2, Published
    <2>. QED  BY <2>1, <2>3
<1>. QED  BY <1>1, <1>2, <1>3

\* Once no row beyond position n is stored, and all could be read, n is the last position.
LEMMA CompletePrefix ==
    ASSUME LogTypeOK, AllReadable, NEW n \in cursor..Len(log), \A s \in live : ~(s > n)
    PROVE  n = Len(log)
<1>1. cursor \in Nat /\ Len(log) \in Nat /\ Positions = 1..Len(log)
    BY LogLength DEF LogTypeOK, Positions
<1>. SUFFICES ASSUME n # Len(log) PROVE FALSE
    OBVIOUS
<1>2. Len(log) \in Positions /\ Len(log) > cursor /\ Len(log) > n
    BY <1>1
<1>. QED  BY <1>2 DEF AllReadable

\* What a step does to the page, the frozen days, the summary and the cursor.
LEMMA PageSteps ==
    ASSUME IInv, Plausible, TotalsInv, [Next]_storeVars
    PROVE  /\ ~Publish => \/ public'.frozen = public.frozen /\ public'.snapshot = public.snapshot
                          \/ Maintain
           /\ ~Aggregate => cursor' = cursor /\ summary'.at = summary.at
<1>1. CASE Maintain
    BY <1>1 DEF Maintain, TrimSummary
<1>2. CASE Aggregate
    <2>1. AllReadable /\ public' = Counting[Len(log)].public
        BY <1>2, NoGap DEF Aggregate
    <2>. QED  BY <1>2, <2>1, AggregateTallies DEF IInv, TotalsInv
<1>3. CASE Publish
    BY <1>3 DEF Publish
<1>4. ASSUME NEW c \in Clients, CommitIngest(c)
      PROVE  UNCHANGED <<public, summary, cursor>>
    BY <1>4 DEF CommitIngest
<1>5. CASE (\E c \in Clients : StartIngest(c) \/ RefuseIngest(c)) \/ Wake \/ Blocked \/ Tick
           \/ WorkerError \/ Crash \/ UNCHANGED storeVars
    <2>1. UNCHANGED database
        BY <1>5 DEF StartIngest, RefuseIngest, Wake, Blocked, Tick, WorkerError, Crash, storeVars
    <2>. QED  BY <2>1 DEF database
<1>. QED  BY <1>1, <1>2, <1>3, <1>4, <1>5 DEF Next, WorkerStep

\* No step changes a day that is shown.
LEMMA ShownStep ==
    ASSUME IInv, Plausible, TotalsInv, [Next]_storeVars
    PROVE  ShownOnce
<1>1. CASE Publish
    <2>1. public' = public \/ public' = PublishPublic(public, now, startDay)
        BY <1>1 DEF Publish
    <2>2. CASE public' = public
        BY <2>2 DEF ShownOnce
    <2>3. CASE public' = PublishPublic(public, now, startDay)
        BY <2>3, ShownAgain DEF ShownOnce, IInv, TotalsInv
    <2>. QED  BY <2>1, <2>2, <2>3
<1>2. CASE Maintain
    <2>. DEFINE Kept(c) == c[2] >= FirstKept(worker.at, KeepDays)
    <2>1. public'.snapshot.days = [x \in {y \in DOMAIN public.snapshot.days : Kept(y)} |-> public.snapshot.days[x]]
        BY <1>2 DEF Maintain, TrimPublic, Keeping
    <2>. HIDE DEF Kept
    <2>. QED  BY <2>1 DEF ShownOnce
<1>3. CASE ~Publish /\ ~Maintain
    <2>1. public'.snapshot = public.snapshot
        BY <1>3, PageSteps
    <2>. QED  BY <2>1 DEF ShownOnce
<1>. QED  BY <1>1, <1>2, <1>3

\* A day is frozen with all of its events counted, and only after its cutoff.
LEMMA FrozenStep ==
    ASSUME IInv, Plausible, TotalsInv, [Next]_storeVars
    PROVE  FrozenComplete
<1>. SUFFICES ASSUME NEW c \in DOMAIN public'.frozen \ DOMAIN public.frozen
              PROVE  /\ cursor = Len(log)
                     /\ Row(public.daily, c, Zero) = Recount(c, EligibleRows)
                     /\ Cutoff(c[2]) <= now
    BY DEF FrozenComplete
<1>1. Publish
    <2>1. ~Maintain
        <3>1. Maintain => DOMAIN public'.frozen \subseteq DOMAIN public.frozen
            BY DEF Maintain, TrimPublic, Keeping
        <3>. QED  BY <3>1
    <2>. QED  BY <2>1, PageSteps
<1>2. AggregateGap = None /\ CaughtUp /\ public' = PublishPublic(public, now, startDay)
    BY <1>1 DEF Publish
<1>3. LogTypeOK /\ SnapshotRight /\ AllReadable
    BY <1>2, NoGap DEF IInv, TotalsInv
<1>4. cursor = Len(log)
    <2>1. cursor \in cursor..Len(log) /\ \A s \in live : ~(s > cursor)
        BY <1>2, <1>3, LogLength DEF LogTypeOK, CaughtUp, Backlog
    <2>. QED  BY <1>3, <2>1, CompletePrefix
<1>5. c[2] >= FirstKept(now, KeepDays) /\ Cutoff(c[2]) <= Slot(now) /\ c \in Apps \X Nat
    BY <1>2, <1>3, Published
<1>6. Row(public.daily, c, Zero) = Recount(c, EligibleRows)
    <2>1. Tally(Candidates(cursor), public.daily, public.visitors)
        BY DEF TotalsInv, Tallied, Totals
    <2>2. EligibleRows = Candidates(cursor)
        BY DEF EligibleRows, Candidates, Eligible
    <2>. QED  BY <1>5, <2>1, <2>2 DEF Tally
<1>7. Cutoff(c[2]) <= now
    <2>1. Cutoff(c[2]) \in Int
        BY <1>5, CalendarAssumption DEF Cutoff
    <2>2. Slot(now) \in Int /\ Slot(now) <= now /\ now \in Int
        BY <1>3, SlotBounds DEF LogTypeOK
    <2>3. \A x, y, z \in Int : x <= y /\ y <= z => x <= z
        OBVIOUS
    <2>. QED  BY <1>5, <2>1, <2>2, <2>3
<1>. QED  BY <1>4, <1>6, <1>7

\* The receipt and the boundary agree after a step, too.
LEMMA GapIffPrimed == IInv' => GapIffUncountedExpired'
<1>1. IInv => GapIffUncountedExpired
    BY GapIff DEF IInv
<1>. QED  BY <1>1, PTL

\* A summary is of everything accepted; a gap stops counting and publishing.
LEMMA PrefixStep ==
    ASSUME IInv, IInv', Plausible, TotalsInv, [Next]_storeVars
    PROVE  PublishesCompletePrefix
<1>1. ASSUME summary'.at # summary.at
      PROVE  cursor' = Len(log)
    <2>1. Aggregate
        BY <1>1, PageSteps
    <2>2. AggregateGap = None /\ AllReadable /\ \A s \in live : ~(s > cursor')
        BY <1>1, <2>1, NoGap DEF Aggregate
    <2>3. cursor' \in cursor..Len(log)
        <3>1. cursor <= cursor' /\ log' = log
            BY <2>1, AggregateSafe DEF Aggregate
        <3>2. cursor' \in 0..Len(log') /\ cursor \in 0..Len(log) /\ Len(log) \in Nat
            BY LogLength DEF IInv, LogTypeOK
        <3>. QED  BY <3>1, <3>2
    <2>. QED  BY <2>2, <2>3, CompletePrefix DEF IInv
<1>2. ASSUME AggregateGap # None
      PROVE  /\ AggregateGap' # None /\ cursor' = cursor /\ summary'.at = summary.at
             /\ public'.snapshot.slot = public.snapshot.slot
    <2>1. ~Aggregate /\ ~Publish
        BY <1>2 DEF Aggregate, Publish
    <2>2. cursor' = cursor /\ summary'.at = summary.at
        BY <2>1, PageSteps
    <2>3. public'.snapshot.slot = public.snapshot.slot
        <3>1. Maintain => public'.snapshot.slot = public.snapshot.slot
            BY DEF Maintain, TrimPublic
        <3>. QED  BY <2>1, <3>1, PageSteps
    <2>4. AggregateGap' # None
        <3>1. ReadBoundary > cursor
            BY <1>2, GapIff DEF IInv, GapIffUncountedExpired
        <3>2. ReadBoundary \in Nat /\ ReadBoundary' \in Nat /\ cursor \in Nat
            <4>1. ReadBoundary \in 0..Len(log) /\ Len(log) \in Nat
                BY BoundaryProperty, LogLength DEF IInv
            <4>2. LogTypeOK'
                BY DEF IInv
            <4>3. BoundaryOK'
                BY <4>2, BoundaryFact, PTL
            <4>. QED  BY <4>1, <4>2, <4>3 DEF BoundaryOK, IInv, LogTypeOK
        <3>3. ReadBoundary <= ReadBoundary'
            <4>1. [Promise!CollectorNext]_(Promise!collectorVars)
                BY PromiseStep
            <4>. QED  BY <3>2, <4>1 DEF Promise!CollectorNext, Promise!collectorVars,
                                       Promise!Accept, Promise!Expire, Promise!Count
        <3>4. ReadBoundary' > cursor'
            BY <2>2, <3>1, <3>2, <3>3
        <3>. QED  BY <3>4, GapIffPrimed DEF GapIffUncountedExpired
    <2>. QED  BY <2>2, <2>3, <2>4
<1>. QED  BY <1>1, <1>2 DEF PublishesCompletePrefix

\* The three parts of the action property together.
LEMMA WholeStep == IInv /\ IInv' /\ Plausible /\ TotalsInv /\ [Next]_storeVars
                     => ShownOnce /\ FrozenComplete /\ PublishesCompletePrefix
BY ShownStep, FrozenStep, PrefixStep

\* A day on the statistics page never changes, it was complete when it was frozen, and a
\* summary is of all that was accepted (public_projection.publish, Store.aggregate).
THEOREM ShownForGood == Spec => PublishedWhole
<1>1. OnceInv => Plausible
    BY DEF OnceInv
<1>2. IInv /\ IInv' /\ Plausible /\ TotalsInv /\ [Next]_storeVars
        => [ShownOnce /\ FrozenComplete /\ PublishesCompletePrefix]_storeVars
    BY WholeStep
<1>. QED  BY <1>1, <1>2, Safety, OnceSafe, TotalsSafe, PTL DEF Spec, PublishedWhole
=============================================================================
