---------------------------- MODULE SourceSync -----------------------------
(***************************************************************************)
(* One synchronisation directory: sync.sync_once repeated by kafka_sync,   *)
(* the generation binding of source_cursor.check_source, and the operator  *)
(* command source_cursor.rebase.  The publication lock of the directory    *)
(* admits one process, so its steps interleave only with the collector,    *)
(* the clock and crashes.  Files are replaced atomically; every action     *)
(* ends with at most one file replaced, so that a crash may come between   *)
(* any two.  Retention of the local archives is RealLifecycle's, whose own *)
(* steps are in module Lifecycle: here register, cleanup and readable are  *)
(* single steps.  Real sources only; they have a status, archives expire.  *)
(***************************************************************************)
EXTENDS Integers, SequencesExt

CONSTANTS
    RawTTL,         \* lifetime of a raw event and of its archive (7 days)
    PageSize,       \* events per response (500)
    MaxWait,        \* the oldest acceptance time a commit may carry, in ticks
    None,           \* absent file or value
    MaxNow,         \* bound: last tick of the model
    MaxPos,         \* bound: events per generation
    MaxGen,         \* bound: generations of the collector
    MaxFaults       \* bound: crashes and failed calls

Rows == [gen : Nat, seq : Nat, at : Nat]
Batches == [key : Nat \X Nat, rows : Seq(Rows)]       \* what pending.json holds

\* The reasons that gap.json records.
Reasons == {"upstream_aggregate_gap", "source_generation_changed", "legacy_unbound_source",
            "retention_gap", "cursor_regression", "expired_pending_batch", "http_410"}

ASSUME SyncAssumption ==
    /\ RawTTL \in Nat \ {0}
    /\ PageSize \in Nat \ {0}
    /\ MaxWait \in Nat
    /\ None \notin Nat /\ None \notin Batches /\ None \notin Reasons

VARIABLES
    now,        \* the clock
    source,     \* the collector: its generation, acceptance times, lost totals
    binding,    \* source.json: the generation this directory follows
    cursor,     \* cursor.json
    pending,    \* pending.json: the batch that is being sent
    archives,   \* data/batches and its registry: original time and content by range
    gap,        \* gap.json: the reason
    topic,      \* the lane's Kafka topic
    start,      \* history: the lane covers the positions after this one
    receipt,    \* rebase.json exists
    fresh,      \* nobody has used the directory
    proc,       \* the process that holds the lock, and its memory
    faults      \* bookkeeping for MaxFaults

files == <<binding, cursor, pending, archives, gap, start, receipt, fresh>>
vars == <<now, source, files, topic, proc, faults>>

Idle == [pc |-> "idle"]

Init ==
    /\ now = 0
    /\ source = [gen |-> 1, at |-> << >>, lossy |-> FALSE]
    /\ binding = None /\ cursor = None /\ pending = None
    /\ archives = << >> /\ gap = None
    /\ topic = << >> /\ start = 0 /\ receipt = FALSE /\ fresh = TRUE
    /\ proc = Idle /\ faults = 0

-----------------------------------------------------------------------------
(* The collector, as its reader sees it. *)

Row(s) == [gen |-> source.gen, seq |-> s, at |-> source.at[s]]
Latest == Len(source.at)
Lapsed(at) == at + RawTTL <= now
Floor == IF \E s \in 1..Latest : Lapsed(source.at[s])
         THEN Max({s \in 1..Latest : Lapsed(source.at[s])}) ELSE 0

Accept ==
    /\ Latest < MaxPos
    /\ \E t \in (now - MaxWait) .. now :
         /\ t >= 0
         /\ source' = [source EXCEPT !.at = Append(@, t)]
    /\ UNCHANGED <<now, files, topic, proc, faults>>

\* An event expired before the totals counted it.
LoseTotals ==
    /\ ~source.lossy /\ Floor > 0
    /\ source' = [source EXCEPT !.lossy = TRUE]
    /\ UNCHANGED <<now, files, topic, proc, faults>>

\* A new database behind the same address.
Rebuild ==
    /\ source.gen < MaxGen
    /\ source' = [gen |-> source.gen + 1, at |-> << >>, lossy |-> FALSE]
    /\ UNCHANGED <<now, files, topic, proc, faults>>

Tick ==
    /\ now < MaxNow
    /\ now' = now + 1
    /\ UNCHANGED <<source, files, topic, proc, faults>>

-----------------------------------------------------------------------------
(* Archives and their retention. *)

Earliest(rows) == Min({rows[i].at : i \in DOMAIN rows})
Kept(a) == {k \in DOMAIN a : ~Lapsed(a[k].original)}
Cleaned(a) == [k \in Kept(a) |-> a[k]]
Key(after, rows) == <<after, after + Len(rows)>>

\* RealLifecycle.readable: registered, and no artifact at all is overdue.
Readable(k) == k \in DOMAIN archives /\ Kept(archives) = DOMAIN archives

-----------------------------------------------------------------------------
(* The steps of a synchronisation. *)

Stop == proc' = Idle
ForgetGap(reason) == UNCHANGED gap      \* mutant: stops without a record
RecordGap(reason) == gap' = reason
After == IF cursor = None THEN 0 ELSE cursor

\* The lock is taken and expired archives are removed.
Begin ==
    /\ proc.pc = "idle"
    /\ archives' = Cleaned(archives)
    /\ fresh' = FALSE
    /\ proc' = [pc |-> "status", after |-> After]
    /\ UNCHANGED <<now, source, binding, cursor, pending, gap, start, receipt, topic, faults>>

Unblocked == FALSE          \* mutant: gap.json is not looked at
Blocked == gap # None
Follows == binding \in {None, source.gen}

\* Why check_source refuses the status it was given.  A directory without a
\* binding but with progress is a relic of earlier versions: not reached here.
Refusal ==
    IF source.lossy THEN "upstream_aggregate_gap"
    ELSE IF ~Follows THEN "source_generation_changed"
    ELSE IF binding = None /\ (proc.after > 0 \/ pending # None) THEN "legacy_unbound_source"
    ELSE None

\* check_source up to the binding: the status is read once and kept.
Bind ==
    /\ proc.pc = "status"
    /\ \/ Blocked /\ Stop /\ UNCHANGED <<gap, binding>>
       \/ ~Blocked /\ Refusal # None /\ RecordGap(Refusal) /\ Stop /\ UNCHANGED binding
       \/ /\ ~Blocked /\ Refusal = None
          /\ binding' = source.gen
          /\ proc' = [pc |-> "bounds", after |-> proc.after, floor |-> Floor, last |-> Latest]
          /\ UNCHANGED gap
    /\ UNCHANGED <<now, source, cursor, pending, archives, start, receipt, fresh, topic, faults>>

\* check_source, the bounds.  Positions above the floor have no hole (module
\* Store), so an incomplete readable range is one of the two; a cursor beyond
\* the latest position needs a restored backup, which is not modelled.
CheckBounds ==
    /\ proc.pc = "bounds"
    /\ IF proc.after \in proc.floor .. proc.last
       THEN /\ proc' = [pc |-> IF pending = None THEN "fetch" ELSE "load", after |-> proc.after]
            /\ UNCHANGED gap
       ELSE /\ RecordGap(IF proc.after < proc.floor THEN "retention_gap" ELSE "cursor_regression")
            /\ Stop
    /\ UNCHANGED <<now, source, binding, cursor, pending, archives, start, receipt, fresh, topic, faults>>

Send(after, rows) == proc' = [pc |-> "send", after |-> after, rows |-> rows, sent |-> 0]

\* A batch left by an earlier process: recovered, already done, or refused.
LoadPending ==
    /\ proc.pc = "load"
    /\ \/ /\ ~Readable(pending.key)
          /\ RecordGap("expired_pending_batch") /\ Stop /\ UNCHANGED pending
       \/ /\ Readable(pending.key)
          /\ proc.after = pending.key[2]
          /\ pending' = None /\ Stop /\ UNCHANGED gap
       \/ /\ Readable(pending.key)
          /\ proc.after # pending.key[2]
          /\ IF archives[pending.key].rows = pending.rows /\ proc.after = pending.key[1]
             THEN Send(proc.after, pending.rows) ELSE Stop
          /\ UNCHANGED <<pending, gap>>
    /\ UNCHANGED <<now, source, binding, cursor, archives, start, receipt, fresh, topic, faults>>

ResettingFetch ==        \* mutant: an expired position is replaced by the first readable one
    /\ proc.pc = "fetch"
    /\ LET from == Max({proc.after, Floor})
       IN  IF from >= Latest THEN Stop
           ELSE proc' = [pc |-> "register", after |-> from,
                         rows |-> [i \in 1 .. Min({PageSize, Latest - from}) |-> Row(from + i)]]
    /\ UNCHANGED <<now, source, files, topic, faults>>

\* A second call of the collector; it answers 410 below the readable boundary.
Fetch ==
    /\ proc.pc = "fetch"
    /\ \/ proc.after < Floor /\ RecordGap("http_410") /\ Stop
       \/ proc.after >= Floor /\ proc.after >= Latest /\ Stop /\ UNCHANGED gap
       \/ /\ proc.after \in Floor .. Latest - 1
          /\ LET count == Min({PageSize, Latest - proc.after})
             IN  proc' = [pc |-> "register", after |-> proc.after,
                          rows |-> [i \in 1..count |-> Row(proc.after + i)]]
          /\ UNCHANGED gap
    /\ UNCHANGED <<now, source, binding, cursor, pending, archives, start, receipt, fresh, topic, faults>>

\* RealLifecycle.register: never an expired artifact, never another original
\* time for a path that is taken.
Register ==
    /\ proc.pc = "register"
    /\ LET k == Key(proc.after, proc.rows)
           original == Earliest(proc.rows)
       IN  IF Lapsed(original) \/ (k \in DOMAIN archives /\ archives[k].original # original)
           THEN Stop /\ UNCHANGED archives
           ELSE /\ archives' = [x \in DOMAIN archives \union {k} |->
                                  IF x \in DOMAIN archives THEN archives[x]
                                  ELSE [original |-> original, rows |-> None]]
                /\ proc' = [proc EXCEPT !.pc = "archive"]
    /\ UNCHANGED <<now, source, binding, cursor, pending, gap, start, receipt, fresh, topic, faults>>


WriteArchive ==
    /\ proc.pc = "archive"
    /\ archives' = [archives EXCEPT ![Key(proc.after, proc.rows)].rows = proc.rows]
    /\ proc' = [proc EXCEPT !.pc = "pending"]
    /\ UNCHANGED <<now, source, binding, cursor, pending, gap, start, receipt, fresh, topic, faults>>

\* The batch becomes the one to send; cleanup reopens the gate.
WritePending ==
    /\ proc.pc = "pending"
    /\ pending' = [key |-> Key(proc.after, proc.rows), rows |-> proc.rows]
    /\ archives' = Cleaned(archives)
    /\ Send(proc.after, proc.rows)
    /\ UNCHANGED <<now, source, binding, cursor, gap, start, receipt, fresh, topic, faults>>

Sending == proc.pc = "send" /\ proc.sent < Len(proc.rows)
Current == proc.rows[proc.sent + 1]

LatePublish ==           \* mutant: the deadline is not checked again
    /\ Sending
    /\ topic' = Append(topic, Current)
    /\ proc' = [proc EXCEPT !.sent = @ + 1]
    /\ UNCHANGED <<now, source, files, faults>>


Publish ==
    /\ Sending /\ ~Lapsed(Current.at)
    /\ topic' = Append(topic, Current)
    /\ proc' = [proc EXCEPT !.sent = @ + 1]
    /\ UNCHANGED <<now, source, files, faults>>

\* The deadline of each row is checked again just before it is sent.
RefuseExpired ==
    /\ Sending /\ Lapsed(Current.at)
    /\ RecordGap("expired_pending_batch") /\ Stop
    /\ UNCHANGED <<now, source, binding, cursor, pending, archives, start, receipt, fresh, topic, faults>>

EarlyCursor ==          \* mutant: the cursor is advanced with the last row in flight
    /\ proc.pc = "send" /\ proc.sent >= Len(proc.rows) - 1
    /\ cursor' = proc.after + Len(proc.rows)
    /\ proc' = [pc |-> "unlink"]
    /\ UNCHANGED <<now, source, binding, pending, archives, gap, start, receipt, fresh, topic, faults>>

WriteCursor ==
    /\ proc.pc = "send" /\ proc.sent = Len(proc.rows)
    /\ cursor' = proc.after + Len(proc.rows)
    /\ proc' = [pc |-> "unlink"]
    /\ UNCHANGED <<now, source, binding, pending, archives, gap, start, receipt, fresh, topic, faults>>

UnlinkPending ==
    /\ proc.pc = "unlink"
    /\ pending' = None /\ Stop
    /\ UNCHANGED <<now, source, binding, cursor, archives, gap, start, receipt, fresh, topic, faults>>

-----------------------------------------------------------------------------
(* Opening a lane at a chosen position. *)

BeginRebase ==
    /\ proc.pc = "idle" /\ fresh /\ ~source.lossy
    /\ fresh' = FALSE
    /\ \E s \in Floor..Latest : proc' = [pc |-> "rebase", gen |-> source.gen, after |-> s]
    /\ UNCHANGED <<now, source, binding, cursor, pending, archives, gap, start, receipt, topic, faults>>

RebaseBinding ==
    /\ proc.pc = "rebase" /\ binding = None
    /\ binding' = proc.gen
    /\ UNCHANGED <<now, source, cursor, pending, archives, gap, start, receipt, fresh, topic, proc, faults>>

RebaseCursor ==
    /\ proc.pc = "rebase" /\ binding # None
    /\ cursor' = proc.after /\ start' = proc.after
    /\ proc' = [pc |-> "receipt"]
    /\ UNCHANGED <<now, source, binding, pending, archives, gap, receipt, fresh, topic, faults>>

RebaseReceipt ==
    /\ proc.pc = "receipt"
    /\ receipt' = TRUE /\ Stop
    /\ UNCHANGED <<now, source, binding, cursor, pending, archives, gap, start, fresh, topic, faults>>

-----------------------------------------------------------------------------
(* The process dies, or a call raises: the lock and the memory are gone. *)

Fail ==
    /\ proc.pc # "idle" /\ faults < MaxFaults
    /\ faults' = faults + 1 /\ Stop
    /\ UNCHANGED <<now, source, files, topic>>

\* The producer retries without idempotence: the topic gets a copy.
Resend ==
    /\ Sending /\ ~Lapsed(Current.at) /\ faults < MaxFaults
    /\ topic' = Append(topic, Current)
    /\ faults' = faults + 1
    /\ UNCHANGED <<now, source, files, proc>>

\* Delivered, but the acknowledgement did not arrive in time.
LoseAck ==
    /\ Sending /\ ~Lapsed(Current.at) /\ faults < MaxFaults
    /\ topic' = Append(topic, Current)
    /\ faults' = faults + 1 /\ Stop
    /\ UNCHANGED <<now, source, files>>

Collecting == Accept \/ LoseTotals \/ Rebuild

SyncStep ==
    \/ Begin \/ Bind \/ CheckBounds \/ LoadPending \/ Fetch
    \/ Register \/ WriteArchive \/ WritePending
    \/ Publish \/ RefuseExpired \/ WriteCursor \/ UnlinkPending
    \/ RebaseBinding \/ RebaseCursor \/ RebaseReceipt

Next == Collecting \/ Tick \/ BeginRebase \/ SyncStep \/ Fail \/ Resend \/ LoseAck

Spec == Init /\ [][Next]_vars
FairSpec == Spec /\ WF_vars(SyncStep)

-----------------------------------------------------------------------------
(* Correctness. *)

\* What a process knows at its step.
Memory ==
    [pc : {"idle", "unlink", "receipt"}]
        \union [pc : {"status", "load", "fetch"}, after : Nat]
        \union [pc : {"bounds"}, after : Nat, floor : Nat, last : Nat]
        \union [pc : {"rebase"}, after : Nat, gen : Nat]
        \union [pc : {"register", "archive", "pending"}, after : Nat, rows : Seq(Rows)]
        \union [pc : {"send"}, after : Nat, rows : Seq(Rows), sent : Nat]

\* Every file holds what its writer puts there, and the memory of the
\* process has the shape of its step.
TypeOK ==
    /\ now \in Nat /\ faults \in Nat /\ start \in Nat /\ {receipt, fresh} \subseteq BOOLEAN
    /\ source \in [gen : Nat, at : Seq(Nat), lossy : BOOLEAN]
    /\ binding \in Nat \union {None} /\ cursor \in Nat \union {None}
    /\ gap \in Reasons \union {None}
    /\ topic \in Seq(Rows)
    /\ pending \in Batches \union {None}
    /\ archives \in [DOMAIN archives -> [original : Nat, rows : Seq(Rows) \union {None}]]
    /\ proc \in Memory /\ (proc.pc = "send" => proc.sent <= Len(proc.rows))

\* What cursor.json acknowledges is in the topic, every position of it: no
\* crash, lost acknowledgement or replay skips a row (sync_once publishes
\* before it replaces the cursor).
CursorIsDelivered ==
    \A s \in start + 1 .. After : \E i \in DOMAIN topic : topic[i].seq = s

\* A row that was sent but is not acknowledged belongs to the pending batch,
\* and as long as its retention allows the archive can replay it: at most one
\* batch is ever repeated.
UnacknowledgedIsPending ==
    \A i \in DOMAIN topic :
        topic[i].seq > After =>
            /\ pending # None
            /\ \E j \in DOMAIN pending.rows : pending.rows[j] = topic[i]
            /\ pending.key \in DOMAIN archives => archives[pending.key].rows = pending.rows
            /\ pending.key \notin DOMAIN archives => Lapsed(Earliest(pending.rows))

\* Rows of another generation than the bound one can enter a lane only through
\* one batch, fetched after its status was checked: the next check stops the
\* lane before anything later is sent.
OneForeignBatchAtMost ==
    LET foreign == {topic[i].seq : i \in {j \in DOMAIN topic : topic[j].gen # binding}}
    IN  foreign # {} =>
            /\ Max(foreign) - Min(foreign) < PageSize
            /\ \A i \in DOMAIN topic : topic[i].seq <= Max(foreign)

\* The lane is in order between any two steps of a synchronisation.
LaneSound == TypeOK /\ CursorIsDelivered /\ UnacknowledgedIsPending /\ OneForeignBatchAtMost

\* A recorded gap stops the lane for good: nothing more is sent and the cursor
\* stays (check_source refuses while gap.json exists).
GapStops == gap # None => UNCHANGED <<topic, cursor>>

\* Nothing is sent after the end of its retention, not even in a replay long
\* after a crash.
NeverSendsExpired == topic' # topic => ~Lapsed(topic'[Len(topic')].at)

\* What is sent at all is live, and belongs to a lane without a gap.
SendsInTime == [][GapStops /\ NeverSendsExpired]_vars

\* While the bound database lives, a row that expires there before it was sent
\* closes the lane before anything later is sent: the sequence of the topic never
\* hides a hole.
Delivered == [i \in DOMAIN topic |-> topic[i].seq]
R == INSTANCE Relay WITH delivered <- Delivered, acked <- After, closed <- gap # None
RefinesRelay == R!RelaySpec

\* With a supervisor that restarts the process every accepted row is delivered
\* or the lane records a gap, unless the database is rebuilt first.
EventuallyRelayed ==
    \A g \in 1..MaxGen, s \in 1..MaxPos :
        source.gen = g /\ s <= Latest ~>
            \/ \E i \in DOMAIN topic : topic[i].seq = s /\ topic[i].gen = g
            \/ gap # None \/ source.gen # g \/ s <= start

\* sync.py: "Pending payload expired".  The gap of a pending batch is recorded
\* only when some row of it has expired.
ExpiredMeansExpired ==
    [][gap' # gap /\ gap' = "expired_pending_batch" =>
         Lapsed(Earliest(pending.rows))]_vars
=============================================================================
