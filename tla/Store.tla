------------------------------- MODULE Store -------------------------------
(***************************************************************************)
(* The lightweight collector: one SQLite database behind one process lock, *)
(* HTTP handlers that validate a batch before they take the lock, and one   *)
(* background worker that maintains, aggregates and publishes.  Every      *)
(* action that touches the database is one BEGIN IMMEDIATE .. COMMIT of     *)
(* the code, so a crash leaves the database as one of these states and      *)
(* loses only what is in memory.                                           *)
(***************************************************************************)
EXTENDS Tables, FiniteSetsExt

CONSTANTS
    Clients,     \* concurrent HTTP requests
    Batches,     \* the batches a client may post: non-empty sequences of events
    Limit,       \* rows aggregated per transaction (2000 in the code)
    StartTime,   \* the time the database was created
    MaxWait,     \* the longest wait, in ticks, between reading the clock and the lock
    MaxNow,      \* bound: last tick of the model
    MaxLog,      \* bound: accepted events
    MaxFaults    \* bound: crashes and failed transactions

Accepted == UNION {{b[i] : i \in DOMAIN b} : b \in Batches}

ASSUME StoreAssumption ==
    /\ \A b \in Batches : b \in Seq(Accepted)
    /\ Limit \in Nat \ {0}
    /\ StartTime \in Nat
    /\ StartTime >= DayLen      \* Slot(StartTime) is a natural number
    /\ MaxWait \in Nat
    /\ \A e \in Accepted : e.occurred \in Nat
    /\ SeenTTL >= Window + Skew + MaxWait      \* thirty days against a little over seven
    /\ None \notin [first : Nat, last : Nat, count : Nat]

\* What the totals need of the retention periods: visitors and completed requests are
\* remembered until nothing that could repeat them can still be counted.
ASSUME RetentionAssumption ==
    /\ None \notin Nat /\ MaxFaults \in Nat
    /\ \A e \in Accepted : e.app \in Apps
    /\ VisitorDays * DayLen >= RawTTL + Window     \* 29 days against fourteen
    /\ \A e, f \in Accepted :                      \* a request is over within sixteen days
         IsCompletion(e) /\ IsCompletion(f) /\ e.app = f.app /\ e.request = f.request =>
           e.occurred + SeenTTL >= f.occurred + RawTTL + Window + Skew

VARIABLES
    now,        \* the clock
    log,        \* history: every row ever accepted, in order; its length is sqlite_sequence
    live,       \* positions of the rows still in table events
    seen,       \* deduplication keys with digest (here: the event) and time
    cursor,     \* meta.cursor
    expired,    \* meta.expired_through
    gap,        \* meta.aggregate_gap
    exact,      \* tables daily, popularity, visitors, requests_seen
    summary,    \* table snapshots: the private summary
    public,     \* the public_* tables
    inflight,   \* per request: its batch and the time it was validated at
    worker,     \* the background task of api.create_app
    faults      \* bookkeeping for MaxFaults

database == <<log, live, seen, cursor, expired, gap, exact, summary, public>>
storeVars == <<now, database, inflight, worker, faults>>

startDay == Day(StartTime)

Key(p) == <<p.app, p.id>>
Idle == [phase |-> "sleep", at |-> 0, more |-> FALSE, failed |-> FALSE]

Init ==
    /\ now = StartTime
    /\ log = << >> /\ live = {} /\ seen = {}
    /\ cursor = 0 /\ expired = 0 /\ gap = None
    /\ exact = EmptyExact /\ summary = NoSummary /\ public = EmptyPublic
    /\ inflight = [c \in Clients |-> None]
    /\ worker = Idle
    /\ faults = 0

-----------------------------------------------------------------------------
(* Derived state: what the queries of the code return. *)

\* Rows past the raw retention, whether or not maintain has deleted them yet.
Lapsed(t) == {s \in live : log[s].at + RawTTL <= t}
Uncounted == {s \in Lapsed(now) : s > cursor}

LapsedPrefix ==         \* mutant: stops at the first row that is still readable
    Max({expired} \union {s \in live : \A r \in live : r <= s => log[r].at + RawTTL <= now})

\* Store._read_boundary
ReadBoundary == Max({expired} \union Lapsed(now))

StoredGap == gap                           \* mutant: the clock is not consulted
OverwrittenGap ==                          \* mutant: a new receipt forgets the old
    IF Uncounted = {} THEN gap
    ELSE [first |-> Min(Uncounted), last |-> Max(Uncounted), count |-> Cardinality(Uncounted)]

\* Store._aggregate_gap: the stored receipt extended by what has lapsed since.
AggregateGap ==
    LET lost == Uncounted
        count == Cardinality(lost)
    IN  IF lost = {} THEN gap
        ELSE IF gap = None THEN [first |-> Min(lost), last |-> Max(lost), count |-> count]
        ELSE [first |-> Min(lost \union {gap.first}), last |-> Max(lost \union {gap.last}),
              count |-> count + gap.count]

Backlog == {s \in live : s > cursor}

AlwaysCaughtUp == TRUE                     \* mutant: never looks
CaughtUp == Backlog = {}

-----------------------------------------------------------------------------
(* HTTP ingestion. *)

\* The handler reads the clock and checks the acceptance window before it has
\* the lock; a batch with an event outside the window is refused without trace.
StartIngest(c) ==
    /\ inflight[c] = None
    /\ Len(log) < MaxLog
    /\ \E b \in Batches :
        /\ \A i \in DOMAIN b : Timely(b[i].occurred, now)
        /\ inflight' = [inflight EXCEPT ![c] = [batch |-> b, at |-> now]]
    /\ UNCHANGED <<now, database, worker, faults>>

\* Same key, other content: against the table or against the batch itself.
Conflicts(b) ==
    \/ \E i \in DOMAIN b, k \in seen : Key(k.p) = Key(b[i]) /\ k.p # b[i]
    \/ \E i, j \in DOMAIN b : Key(b[j]) = Key(b[i]) /\ b[j] # b[i]

\* The events of the batch that are not duplicates, by index.
Fresh(b) ==
    {i \in DOMAIN b : /\ \A k \in seen : Key(k.p) # Key(b[i])
                      /\ \A j \in DOMAIN b : j < i => b[j] # b[i]}

\* The ways to list a set of indices in increasing order (there is one).
InOrder(S, n) ==
    {f \in [1..n -> S] : /\ \A i, j \in 1..n : i < j => f[i] < f[j]
                         /\ \A s \in S : \E i \in 1..n : f[i] = s}

\* The whole batch is accepted in one transaction, with consecutive positions.
CommitIngest(c) ==
    /\ inflight[c] # None
    /\ LET b == inflight[c].batch
           at == inflight[c].at
       IN  /\ ~Conflicts(b)
           /\ \E n \in 0..Len(b) : \E f \in InOrder(Fresh(b), n) :
                LET rows == [i \in 1..n |-> [p |-> b[f[i]], at |-> at]]
                IN  /\ log' = log \o rows
                    /\ live' = live \union {Len(log) + i : i \in 1..n}
                    /\ seen' = seen \union {rows[i] : i \in 1..n}
    /\ inflight' = [inflight EXCEPT ![c] = None]
    /\ UNCHANGED <<now, cursor, expired, gap, exact, summary, public, worker, faults>>

\* 409 after a conflict, 503 when the storage preflight finds no room.
RefuseIngest(c) ==
    /\ inflight[c] # None
    /\ inflight' = [inflight EXCEPT ![c] = None]
    /\ UNCHANGED <<now, database, worker, faults>>

-----------------------------------------------------------------------------
(* The worker: maintain; aggregate until nothing is left; sleep. *)

Phase(p) == worker' = [worker EXCEPT !.phase = p]
Failed == worker' = [Idle EXCEPT !.failed = TRUE]

\* maintain reads the clock before it waits for the lock.
Wake ==
    /\ worker.phase = "sleep"
    /\ worker' = [worker EXCEPT !.phase = "maintain", !.at = now]
    /\ UNCHANGED <<now, database, inflight, faults>>

\* The gap receipt and the read boundary use the clock inside the lock, the
\* deletions the earlier reading.
Maintain ==
    /\ worker.phase = "maintain"
    /\ gap' = AggregateGap
    /\ expired' = ReadBoundary
    /\ live' = live \ Lapsed(worker.at)
    /\ seen' = {k \in seen : k.at + SeenTTL >= worker.at}
    /\ exact' = TrimExact(exact, worker.at)
    /\ summary' = TrimSummary(summary, worker.at)
    /\ public' = TrimPublic(public, worker.at)
    /\ IF gap' # None THEN Failed ELSE Phase("aggregate")
    /\ UNCHANGED <<now, log, cursor, inflight, faults>>

BelowLimit == {s \in Backlog : Cardinality({r \in Backlog : r <= s}) < Limit}    \* mutant
OldestRows ==                              \* mutant: in order of acceptance
    {s \in Backlog : Cardinality({r \in Backlog : \/ log[r].at < log[s].at
                                              \/ (log[r].at = log[s].at /\ r <= s)}) <= Limit}

\* The next Limit rows in order of position.
NextRows == {s \in Backlog : Cardinality({r \in Backlog : r <= s}) <= Limit}

\* The tables after each position, when the rows up to it have been counted.
Counting[s \in cursor..Len(log)] ==
    IF s = cursor THEN [exact |-> exact, public |-> public]
    ELSE IF s \in NextRows THEN CountRow(Counting[s - 1], log[s], startDay) ELSE Counting[s - 1]

Aggregate ==
    /\ worker.phase = "aggregate"
    /\ AggregateGap = None
    /\ exact' = Counting[Len(log)].exact /\ public' = Counting[Len(log)].public
    /\ cursor' = IF NextRows = {} THEN cursor ELSE Max(NextRows)
    /\ IF \E s \in live : s > cursor'
       THEN /\ UNCHANGED summary
            /\ Phase("aggregate")
       ELSE /\ summary' = [at |-> now, daily |-> exact'.daily, heat |-> exact'.heat]
            /\ worker' = [worker EXCEPT !.phase = "publish", !.more = NextRows # {}]
    /\ UNCHANGED <<now, log, live, seen, expired, gap, inflight, faults>>

\* publish_public runs in a transaction of its own; events may have arrived.
Publish ==
    /\ worker.phase = "publish"
    /\ AggregateGap = None
    /\ public' = IF CaughtUp THEN PublishPublic(public, now, startDay) ELSE public
    /\ worker' = IF worker.more THEN [worker EXCEPT !.phase = "aggregate"] ELSE Idle
    /\ UNCHANGED <<now, log, live, seen, cursor, expired, gap, exact, summary, inflight, faults>>

\* An aggregation or a publication that finds a gap raises.
Blocked ==
    /\ worker.phase \in {"aggregate", "publish"}
    /\ AggregateGap # None
    /\ Failed
    /\ UNCHANGED <<now, database, inflight, faults>>

\* A transaction of the worker fails (disk full, I/O error) and rolls back.
WorkerError ==
    /\ worker.phase # "sleep"
    /\ faults < MaxFaults
    /\ faults' = faults + 1
    /\ Failed
    /\ UNCHANGED <<now, database, inflight>>

\* The process dies and restarts; requests in flight get no answer.
Crash ==
    /\ faults < MaxFaults
    /\ faults' = faults + 1
    /\ inflight' = [c \in Clients |-> None]
    /\ worker' = Idle
    /\ UNCHANGED <<now, database>>

-----------------------------------------------------------------------------
\* Time passes, but nothing waits for the lock longer than MaxWait.
Tick ==
    /\ now < MaxNow
    /\ \A c \in Clients : inflight[c] # None => now < inflight[c].at + MaxWait
    /\ worker.phase = "maintain" => now < worker.at + MaxWait
    /\ now' = now + 1
    /\ UNCHANGED <<database, inflight, worker, faults>>

WorkerStep == Wake \/ Maintain \/ Aggregate \/ Publish \/ Blocked

Next ==
    \/ \E c \in Clients : StartIngest(c) \/ CommitIngest(c) \/ RefuseIngest(c)
    \/ WorkerStep
    \/ WorkerError
    \/ Crash
    \/ Tick

Spec == Init /\ [][Next]_storeVars

\* The event loop keeps scheduling the background task.
FairSpec == Spec /\ WF_storeVars(WorkerStep)

-----------------------------------------------------------------------------
(* Properties. *)

Positions == 1..Len(log)
Rows == [p : Accepted, at : Nat]

LogTypeOK ==
    /\ now \in Nat
    /\ log \in Seq(Rows)
    /\ live \subseteq Positions
    /\ seen \subseteq Rows
    /\ cursor \in 0..Len(log)
    /\ expired \in 0..Len(log)
    /\ gap = None \/ gap \in [first : Positions, last : Positions, count : Nat]
    /\ inflight \in [Clients -> {None} \union [batch : Batches, at : Nat]]
    /\ worker \in [phase : {"sleep", "maintain", "aggregate", "publish"}, at : Nat,
                   more : BOOLEAN, failed : BOOLEAN]

\* The shape of the whole state of the collector (Store, api.create_app).
TypeOK ==
    /\ LogTypeOK
    /\ faults \in 0..MaxFaults
    /\ \A c \in DOMAIN exact.daily \union DOMAIN public.daily : c \in Apps \X Nat
    /\ \A c \in DOMAIN public.frozen : c \in Apps \X Nat
    /\ summary.at \in {None} \union 0..now

\* Every accepted event is counted, still stored, or inside a declared gap:
\* maintain deletes raw events whether or not they were aggregated, and only
\* the durable receipt keeps the loss from being silent.
NoSilentLoss ==
    \A s \in Positions :
        \/ s <= cursor
        \/ s \in live
        \/ gap # None /\ gap.first <= s /\ s <= gap.last

\* A reader that is not answered 410 finds every position after its own, even
\* though acceptance times need not be in the order of the positions.
ReadableSuffixComplete ==
    \A s \in Positions : s > ReadBoundary => s \in live

\* The gap shown by status and the read boundary agree: an event is past
\* reading and uncounted exactly when the collector admits a gap.
GapIffUncountedExpired == AggregateGap # None <=> ReadBoundary > cursor

\* What a reader is told is so: no hole above the boundary, and a gap where one is.
ReadersToldTruth == ReadableSuffixComplete /\ GapIffUncountedExpired

Lost == {s \in Positions : s > cursor /\ s \notin live}

\* The receipt never reports fewer events than were deleted uncounted.
GapNeverUndercounts == Cardinality(Lost) <= IF gap = None THEN 0 ELSE gap.count

\* Retries after a lost answer, and resubmissions after the deduplication keys
\* have expired, never store the same event twice: the acceptance window of
\* ingest has closed before maintain forgets the key.
AcceptedOnce == \A i, j \in Positions : log[i].p = log[j].p => i = j

\* The contribution of a set of positions to a cell, from the definition of
\* the metrics: the first completion of a request counts, the others do not.
Contributing(S) ==
    {s \in S : ~\E r \in S :
        /\ r < s /\ IsCompletion(log[s].p) /\ IsCompletion(log[r].p)
        /\ log[r].p.app = log[s].p.app /\ log[r].p.request = log[s].p.request}

Recount(c, S) ==
    LET mine == {s \in S : Cell(log[s].p) = c}
    IN  [pv        |-> Cardinality({s \in mine : log[s].p.kind = "page_view"}),
         uv        |-> Cardinality(UNION {Visitor(log[s].p) : s \in mine}),
         requests  |-> Cardinality({s \in mine : IsCompletion(log[s].p)}),
         successes |-> Cardinality({s \in mine : IsCompletion(log[s].p) /\ log[s].p.ok})]

KeptCells(S) == {c \in {Cell(log[s].p) : s \in S} : c[2] >= FirstKept(now, KeepDays)}

\* The internal totals count every event up to the cursor once, through
\* crashes, rolled back transactions and the retention of visitors and keys.
ExactTotals ==
    LET S == Contributing(1..cursor)
    IN  \A c \in KeptCells(S) : Row(exact.daily, c, Zero) = Recount(c, S)

EligibleRows ==
    {s \in Contributing(1..cursor) :
        log[s].at < Cutoff(Day(log[s].p.occurred)) /\ Day(log[s].p.occurred) >= startDay}

\* The public candidates count exactly the events accepted before the cutoff.
PublicTotals ==
    \A c \in KeptCells(EligibleRows) : Row(public.daily, c, Zero) = Recount(c, EligibleRows)

\* What is shown to anybody adds up: the totals of both databases, and the receipt of a gap.
TotalsTrue == TypeOK /\ ExactTotals /\ PublicTotals /\ GapNeverUndercounts

\* What the statistics page shows for a day never changes once it is shown.
ShownOnce ==
    \A c \in DOMAIN public.snapshot.days \intersect DOMAIN public'.snapshot.days :
        public.snapshot.days[c] \in {Pending, public'.snapshot.days[c]}

\* A day is frozen only when every event accepted so far has been counted, and
\* with all of those that were accepted before its cutoff.
FrozenComplete ==
    \A c \in DOMAIN public'.frozen \ DOMAIN public.frozen :
        /\ cursor = Len(log)
        /\ Row(public.daily, c, Zero) = Recount(c, EligibleRows)
        /\ Cutoff(c[2]) <= now

\* A private summary is published for a complete accepted prefix only; a
\* declared gap stops the cursor and both publications for good.
PublishesCompletePrefix ==
    /\ summary'.at # summary.at => cursor' = Len(log)
    /\ AggregateGap # None =>
         /\ AggregateGap' # None /\ cursor' = cursor
         /\ summary'.at = summary.at
         /\ public'.snapshot.slot = public.snapshot.slot

\* A day or a summary appears once, for all of what it is about, and stays.
PublishedWhole == [][ShownOnce /\ FrozenComplete /\ PublishesCompletePrefix]_storeVars

\* Every accepted event is eventually counted unless a gap is declared.
EventuallyCounted ==
    \A s \in 1..MaxLog : (s <= Len(log)) ~> (s <= cursor \/ AggregateGap # None)

\* A declared gap eventually shows as a failing health check.
EventuallyDegraded == (gap # None) ~> worker.failed

\* The background task gets everywhere: all is counted, or known to be lost.
EventuallyKnown == EventuallyCounted /\ EventuallyDegraded

\* The collector as seen by its readers.
Promise == INSTANCE Collector WITH last <- Len(log), floor <- ReadBoundary, cursor <- cursor
RefinesCollector == Promise!CollectorSpec
=============================================================================
