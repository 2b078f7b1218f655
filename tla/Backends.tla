------------------------------ MODULE Backends ------------------------------
(***************************************************************************)
(* The retention adapters a cleanup asks for receipts: a Kafka topic, a    *)
(* Doris table and the checkpoints of the Flink jobs, cleaned one after    *)
(* the other for one moment in time.  None of them is locked: a producer,  *)
(* a job and the broker's own retention go on between any two requests.    *)
(***************************************************************************)
EXTENDS Integers, SequencesExt

CONSTANTS
    Partitions,     \* of the registered topic
    Retention,      \* seven days
    Roots,          \* registered checkpoint roots, with their original time
    Stray,          \* a checkpoint root nobody registered
    None,
    MaxNow,         \* bound: the clock
    MaxRecords,     \* bound: records produced
    MaxStarts       \* bound: starts of a job

BackendsAssumption ==
    /\ Retention \in Nat \ {0} /\ None \notin Nat
    /\ \A r \in DOMAIN Roots : Roots[r] \in Nat

VARIABLES
    now,
    identity,   \* of the cluster and topic
    log,        \* per partition: its start offset and the acceptance times from there on
    table,      \* rows: acceptance times, numbered
    buffer,     \* rows a job has read and not yet written
    job,        \* the root the running job writes its checkpoints to, or None
    present,    \* checkpoint roots with files
    clean,      \* the cleanup: step, moment, what it has read
    receipt,    \* per backend
    after,      \* history: rows written since the table's receipt
    made, starts

vars == <<now, identity, log, table, buffer, job, present, clean, receipt, after, made, starts>>
Idle == [pc |-> "idle"]
NoReceipts == [b \in {"kafka", "doris", "checkpoint"} |-> None]

Init ==
    /\ now = 0 /\ identity = 0
    /\ log = [p \in Partitions |-> [start |-> 0, rows |-> << >>]]
    /\ table = {} /\ buffer = {} /\ job = None /\ present = {}
    /\ clean = Idle /\ receipt = NoReceipts /\ after = {} /\ made = 0 /\ starts = 0

End(p) == log[p].start + Len(log[p].rows)
Bounds == [p \in Partitions |-> [first |-> log[p].start, end |-> End(p)]]
ExpiredAt(row, t) == row.at + Retention <= t
Offset(p, o) == log[p].rows[o - log[p].start + 1]

-----------------------------------------------------------------------------
(* What goes on meanwhile. *)

\* The producer: a new event, or the replay of one that is still live.
Produce(p) ==
    /\ made < MaxRecords
    /\ \E t \in 0..now :
         /\ ~ ExpiredAt([at |-> t], now)
         /\ log' = [log EXCEPT ![p].rows = @ \o <<[at |-> t, id |-> made]>>]
    /\ made' = made + 1
    /\ UNCHANGED <<now, identity, table, buffer, job, present, clean, receipt, after, starts>>

\* The broker drops old segments by itself.
BrokerRetention(p) ==
    /\ log[p].rows # << >> /\ ExpiredAt(Head(log[p].rows), now)
    /\ log' = [log EXCEPT ![p] = [start |-> @.start + 1, rows |-> Tail(@.rows)]]
    /\ UNCHANGED <<now, identity, table, buffer, job, present, clean, receipt, after, made, starts>>

\* The topic is made anew under its name.
Recreate ==
    /\ identity = 0 /\ \E p \in Partitions : log[p].rows # << >>
    /\ identity' = 1
    /\ log' = [p \in Partitions |-> [start |-> 0, rows |-> << >>]]
    /\ UNCHANGED <<now, table, buffer, job, present, clean, receipt, after, made, starts>>

StartJob ==
    /\ job = None /\ starts < MaxStarts
    /\ job' \in DOMAIN Roots \union {Stray}
    /\ starts' = starts + 1
    /\ UNCHANGED <<now, identity, log, table, buffer, present, clean, receipt, after, made>>
StopJob ==
    /\ job # None /\ job' = None /\ buffer' = {}
    /\ UNCHANGED <<now, identity, log, table, present, clean, receipt, after, made, starts>>
Consume ==
    /\ job # None
    /\ \E p \in Partitions : \E row \in ToSet(log[p].rows) \ (buffer \union table) :
         buffer' = buffer \union {row}
    /\ UNCHANGED <<now, identity, log, table, job, present, clean, receipt, after, made, starts>>
\* A checkpoint commits what was read.
Checkpoint ==
    /\ job # None /\ (buffer # {} \/ job \notin present)
    /\ table' = table \union buffer /\ after' = after \union (buffer \ table) /\ buffer' = {}
    /\ present' = present \union {job}
    /\ UNCHANGED <<now, identity, log, job, clean, receipt, made, starts>>

Tick ==
    /\ now < MaxNow /\ now' = now + 1
    /\ UNCHANGED <<identity, log, table, buffer, job, present, clean, receipt, after, made, starts>>

-----------------------------------------------------------------------------
(* The cleanup. *)

elsewhere == <<now, identity, job, buffer, made, starts>>

Refuse ==
    /\ clean' = Idle
    /\ UNCHANGED <<elsewhere, log, table, present, receipt, after>>

Begin ==
    /\ clean = Idle
    /\ clean' = [pc |-> "scan", round |-> 1, at |-> now, id |-> identity, bounds |-> Bounds,
                 todo |-> Partitions, cut |-> << >>, live |-> {}, first |-> Bounds, wanted |-> << >>]
    /\ receipt' = NoReceipts
    /\ UNCHANGED <<elsewhere, log, table, present, after>>

\* A scan reads a partition up to the end it started from.
Seen(p) == {o \in clean.bounds[p].first..(clean.bounds[p].end - 1) : o \in log[p].start..(End(p) - 1)}
Old(p) == {o \in Seen(p) : ExpiredAt(Offset(p, o), clean.at)}

Prefix(p) == \A o \in Old(p), n \in Seen(p) : n < o => n \in Old(p)
ScanPartition(p) ==
    /\ clean.pc = "scan" /\ p \in clean.todo
    /\ IF Prefix(p)
       THEN /\ clean' = [clean EXCEPT !.todo = @ \ {p},
                             !.cut = IF Old(p) = {} THEN @ ELSE [q \in DOMAIN @ \union {p} |-> IF q = p THEN Max(Old(p)) + 1 ELSE @[q]],
                             !.live = @ \union {Offset(p, o).at + Retention : o \in Seen(p) \ Old(p)}]
            /\ UNCHANGED <<elsewhere, log, table, present, receipt, after>>
       ELSE Refuse

\* Nothing may have been written, dropped or made anew since the scan began.
Undisturbed == clean.bounds = Bounds /\ clean.id = identity

NextExpiry(ends) == IF ends = {} THEN None ELSE Min(ends)
Issue(b, r) == receipt' = [receipt EXCEPT ![b] = r]

\* After the first scan the prefixes go; the second has to find nothing to delete.
ScanEnd ==
    /\ clean.pc = "scan" /\ clean.todo = {} /\ Undisturbed
    /\ IF clean.round = 1
       THEN clean' = [clean EXCEPT !.pc = "delete", !.wanted = clean.cut] /\ UNCHANGED receipt
       ELSE /\ clean.cut = << >>
            /\ \A p \in Partitions : /\ Bounds[p].end = clean.first[p].end
                                     /\ p \in DOMAIN clean.wanted => Bounds[p].first >= clean.wanted[p]
            /\ Issue("kafka", [at |-> clean.at, next |-> NextExpiry(clean.live), ends |-> Bounds, id |-> identity])
            /\ clean' = [pc |-> "count", at |-> clean.at]
    /\ UNCHANGED <<elsewhere, log, table, present, after>>

\* delete_records, which acts on whatever the name now stands for.
DeleteTo(p, o) ==
    LET n == Min({Max({o - log[p].start, 0}), Len(log[p].rows)})
    IN  [start |-> log[p].start + n, rows |-> SubSeq(log[p].rows, n + 1, Len(log[p].rows))]
DeletePrefixes ==
    /\ clean.pc = "delete"
    /\ log' = [p \in Partitions |-> IF p \in DOMAIN clean.cut THEN DeleteTo(p, clean.cut[p]) ELSE log[p]]
    /\ clean' = [clean EXCEPT !.pc = "rescan"]
    /\ UNCHANGED <<elsewhere, table, present, receipt, after>>
Rescan ==
    /\ clean.pc = "rescan" /\ clean.id = identity
    /\ clean' = [clean EXCEPT !.pc = "scan", !.round = 2, !.bounds = Bounds, !.todo = Partitions,
                              !.cut = << >>, !.live = {}]
    /\ UNCHANGED <<elsewhere, log, table, present, receipt, after>>

Overdue == {row \in table : ExpiredAt(row, clean.at)}
CountRows ==
    /\ clean.pc = "count"
    /\ clean' = [clean EXCEPT !.pc = IF Overdue = {} THEN "verify" ELSE "purge"]
    /\ UNCHANGED <<elsewhere, log, table, present, receipt, after>>
DeleteRows ==
    /\ clean.pc = "purge"
    /\ table' = table \ Overdue
    /\ clean' = [clean EXCEPT !.pc = "verify"]
    /\ UNCHANGED <<elsewhere, log, present, receipt, after>>

NoReadback == TRUE                      \* mutant: what is left is not read
Verified == Overdue = {}
VerifyRows ==
    /\ clean.pc = "verify" /\ Verified
    /\ Issue("doris", [at |-> clean.at, next |-> NextExpiry({row.at + Retention : row \in table})])
    /\ after' = {}
    /\ clean' = [clean EXCEPT !.pc = "quiet"]
    /\ UNCHANGED <<elsewhere, log, table, present>>

\* CheckpointRetention: no job runs and every file belongs to a registered root.
Settled == job = None /\ present \subseteq DOMAIN Roots
Aged == {r \in DOMAIN Roots : Roots[r] + Retention <= clean.at}
Quiet ==
    /\ clean.pc = "quiet" /\ Settled
    /\ clean' = [pc |-> "roots", at |-> clean.at, starts |-> starts]
    /\ UNCHANGED <<elsewhere, log, table, present, receipt, after>>
DeleteRoots ==
    /\ clean.pc = "roots"
    /\ present' = present \ Aged
    /\ clean' = [pc |-> "quiet again", at |-> clean.at, left |-> present \ Aged, starts |-> clean.starts]
    /\ UNCHANGED <<elsewhere, log, table, receipt, after>>

\* The second look at Flink, the second inventory and the receipt are one step: the receipt
\* says nothing that was read after the look, so a job that starts between them might as well
\* have started after it; at most the inventory refuses what it wrote.
StillSettled == Settled
QuietAgain ==
    /\ clean.pc = "quiet again" /\ StillSettled
    /\ Issue("checkpoint", [at |-> clean.at, next |-> NextExpiry({Roots[r] + Retention : r \in clean.left}),
                            from |-> clean.starts, to |-> starts])
    /\ clean' = Idle
    /\ UNCHANGED <<elsewhere, log, table, present, after>>

Clean ==
    \/ Begin \/ ScanEnd \/ DeletePrefixes \/ Rescan \/ CountRows \/ DeleteRows \/ VerifyRows
    \/ Quiet \/ DeleteRoots \/ QuietAgain
    \/ \E p \in Partitions : ScanPartition(p)
Next ==
    \/ Clean \/ (clean # Idle /\ Refuse)
    \/ \E p \in Partitions : Produce(p) \/ BrokerRetention(p)
    \/ Recreate \/ StartJob \/ StopJob \/ Consume \/ Checkpoint \/ Tick

Spec == Init /\ [][Next]_vars

-----------------------------------------------------------------------------
(* Correctness. *)

Covered(end, r) == end > r.at /\ r.next # None /\ r.next <= end

\* A receipt is true of everything that was there when it was issued: nothing of it had
\* expired at the moment of the cleanup, and the next expiry it names comes before that of
\* all of it, although the backends are written between its requests.  Checkpoint files
\* belong to registered roots; of those the receipt may miss only what a job wrote that
\* began and ended between the two looks (_scan, purge_and_verify of the three adapters).
ReceiptCovers ==
    /\ receipt["kafka"] # None /\ receipt["kafka"].id = identity =>
         \A p \in Partitions : \A o \in log[p].start..(receipt["kafka"].ends[p].end - 1) :
             Covered(Offset(p, o).at + Retention, receipt["kafka"])
    /\ receipt["doris"] # None =>
         \A row \in table \ after : Covered(row.at + Retention, receipt["doris"])
    /\ LET r == receipt["checkpoint"]
       IN  r # None /\ starts = r.to =>
             /\ job = None
             /\ \A d \in present : d \in DOMAIN Roots /\ (r.from = r.to => Covered(Roots[d] + Retention, r))

\* Cleanup deletes no live record of the topic it has scanned: not behind a replayed old
\* one, nor one that was written meanwhile (_scan's prefix rule).
DeleteStep ==
    DeletePrefixes /\ clean.id = identity =>
        \A p \in Partitions : \A row \in ToSet(log[p].rows) :
            ExpiredAt(row, clean.at) \/ row \in ToSet(log'[p].rows)
LiveKept == [][DeleteStep]_vars
=============================================================================
