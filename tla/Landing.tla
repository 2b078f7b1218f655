------------------------------ MODULE Landing ------------------------------
(***************************************************************************)
(* One real input lane of the warehouse: bounded Kafka archives            *)
(* (landing.capture), immutable HDFS inputs (landing.land), the Kafka      *)
(* acknowledgement (landing.acknowledge) and the expiry of the window      *)
(* (real_ods.expire_window).  All four hold the lock of the directory, so  *)
(* one of them runs at a time; each is a sequence of steps that ends with  *)
(* one durable effect, and it may die after any of them and be followed by *)
(* any other.  Batches and snapshots are content-addressed: here they are  *)
(* their content.  A command that refuses changes nothing and is a guard.  *)
(***************************************************************************)
EXTENDS Integers, SequencesExt

CONSTANTS
    Partitions,     \* number of Kafka partitions
    MaxRecords,     \* records per capture (10000)
    RawTTL,         \* lifetime of a raw batch (7 days)
    None,           \* no committed offset
    MaxNow,         \* bound: last tick of the model
    MaxLog,         \* bound: records per partition
    MaxTopic,       \* bound: incarnations of the topic
    MaxFaults       \* bound: crashes, failed calls and truncations

P == 1..Partitions

ASSUME LandingAssumption ==
    /\ Partitions \in Nat \ {0} /\ MaxRecords \in Nat \ {0} /\ RawTTL \in Nat \ {0}
    /\ None \notin Nat

VARIABLES
    now,        \* the clock
    kafka,      \* the topic: incarnation, acceptance times, earliest and committed offsets
    folders,    \* batches/ on the local disk
    pending,    \* pending.json
    landed,     \* landed.json
    state,      \* state.json: the checkpoint
    receipts,   \* receipts/
    journal,    \* cleanup.json
    hdfs,       \* batches and snapshots visible in HDFS
    purged,     \* history: batches that left the window by expiry
    proc,       \* the running command
    faults      \* bookkeeping for MaxFaults

\* A file that is not there, and no snapshot.
Absent == [absent |-> TRUE]

local == <<folders, pending, landed, state, receipts, journal>>
vars == <<now, kafka, local, hdfs, purged, proc, faults>>

Idle == [pc |-> "idle"]
NewTopic(id) ==
    [id |-> id, at |-> [p \in P |-> << >>], earliest |-> [p \in P |-> 0], committed |-> [p \in P |-> None]]

Init ==
    /\ now = 0 /\ kafka = NewTopic(1)
    /\ folders = {} /\ pending = Absent /\ landed = Absent /\ state = Absent
    /\ receipts = {} /\ journal = Absent
    /\ hdfs = [batches |-> {}, snapshots |-> {}]
    /\ purged = {} /\ proc = Idle /\ faults = 0

Lapsed(b) == b.at + RawTTL <= now
Stop == proc' = Idle

-----------------------------------------------------------------------------
(* capture *)

Offsets == IF state = Absent THEN [p \in P |-> 0] ELSE state.offsets

\* The identity of the checkpoint: its snapshot is addressed by its content,
\* and a batch names the one it follows.
Parent ==
    IF state = Absent THEN Absent
    ELSE [topic |-> state.topic, offsets |-> state.offsets, batches |-> state.batches]

\* The quota of each partition: an equal share of what is left, at least one.
Share(left, p, waiting) == IF left = 0 THEN 0 ELSE Min({waiting, Max({1, left \div (Partitions - p + 1)})})

\* What the partitions up to each one take of the records of a capture.
Spending(waiting) ==
    {spent \in [0..Partitions -> 0..MaxRecords] :
        /\ spent[0] = 0
        /\ \A p \in P : spent[p] = spent[p - 1] + Share(MaxRecords - spent[p - 1], p, waiting[p])}

\* The identity of the topic is read first and compared with the checkpoint.
BeginCapture ==
    /\ proc.pc = "idle" /\ journal = Absent /\ pending = Absent
    /\ state # Absent => state.topic = kafka.id
    /\ proc' = [pc |-> "bounds", topic |-> kafka.id]
    /\ UNCHANGED <<now, kafka, local, hdfs, purged, faults>>

\* No gap below the checkpoint, and the group holds exactly what the
\* checkpoint says; otherwise the capture refuses to reset anything.
Bounded ==
    \A p \in P :
        /\ Offsets[p] \in kafka.earliest[p] .. Len(kafka.at[p])
        /\ kafka.committed[p] = IF state = Absent THEN None ELSE Offsets[p]

ReadBounds ==
    /\ proc.pc = "bounds"
    /\ \/ ~Bounded /\ Stop
       \/ /\ Bounded
          /\ \E spent \in Spending([p \in P |-> Len(kafka.at[p]) - Offsets[p]]) :
               LET ends == [p \in P |-> Offsets[p] + spent[p] - spent[p - 1]]
               IN  proc' = IF ends = Offsets THEN Idle
                           ELSE [pc |-> "records", topic |-> proc.topic, starts |-> Offsets, ends |-> ends]
    /\ UNCHANGED <<now, kafka, local, hdfs, purged, faults>>

\* Every record of the range is read, the identity is compared again, and
\* nothing that has expired is archived.
ReadRecords ==
    /\ proc.pc = "records"
    /\ LET taken(p) == proc.starts[p] + 1 .. proc.ends[p]
           readable == \A p \in P : proc.starts[p] >= kafka.earliest[p] /\ proc.ends[p] <= Len(kafka.at[p])
           times == UNION {{kafka.at[p][o] : o \in taken(p)} : p \in P}
           b == [topic |-> proc.topic, starts |-> proc.starts, ends |-> proc.ends,
                 parent |-> Parent, at |-> Min(times)]
       IN  proc' = IF readable /\ kafka.id = proc.topic /\ ~Lapsed(b)
                   THEN [pc |-> "folder", batch |-> b] ELSE Idle
    /\ UNCHANGED <<now, kafka, local, hdfs, purged, faults>>

WriteFolder ==
    /\ proc.pc = "folder"
    /\ folders' = folders \union {proc.batch}
    /\ proc' = [proc EXCEPT !.pc = "pending"]
    /\ UNCHANGED <<now, kafka, pending, landed, state, receipts, journal, hdfs, purged, faults>>

WritePending ==
    /\ proc.pc = "pending"
    /\ pending' = proc.batch /\ Stop
    /\ UNCHANGED <<now, kafka, folders, landed, state, receipts, journal, hdfs, purged, faults>>

Capture == BeginCapture \/ ReadBounds \/ ReadRecords \/ WriteFolder \/ WritePending

-----------------------------------------------------------------------------
(* land *)

Checkpointed == state # Absent /\ state.head = pending

Snapshot ==
    [topic |-> pending.topic, offsets |-> pending.ends, head |-> pending,
     batches |-> IF Checkpointed THEN state.batches
                 ELSE (IF state = Absent THEN {} ELSE state.batches) \union {pending}]

BeginLand ==
    /\ proc.pc = "idle" /\ pending # Absent /\ pending \in folders
    /\ ~Lapsed(pending)
    /\ Checkpointed \/ pending.parent = Parent
    /\ proc' = [pc |-> "batch"]
    /\ UNCHANGED <<now, kafka, local, hdfs, purged, faults>>

\* The directory appears with one rename after all of it was read back.
PutBatch ==
    /\ proc.pc = "batch"
    /\ hdfs' = [hdfs EXCEPT !.batches = @ \union {pending}]
    /\ proc' = [pc |-> "snapshot"]
    /\ UNCHANGED <<now, kafka, local, purged, faults>>

PutSnapshot ==
    /\ proc.pc = "snapshot"
    /\ hdfs' = [hdfs EXCEPT !.snapshots = @ \union {Snapshot}]
    /\ proc' = [pc |-> "landed"]
    /\ UNCHANGED <<now, kafka, local, purged, faults>>

WriteLanded ==
    /\ proc.pc = "landed"
    /\ landed' = Snapshot
    /\ proc' = [pc |-> "receipt"]
    /\ UNCHANGED <<now, kafka, folders, pending, state, receipts, journal, hdfs, purged, faults>>

WriteReceipt ==
    /\ proc.pc = "receipt"
    /\ receipts' = receipts \union {landed} /\ Stop
    /\ UNCHANGED <<now, kafka, folders, pending, landed, state, journal, hdfs, purged, faults>>

Land == BeginLand \/ PutBatch \/ PutSnapshot \/ WriteLanded \/ WriteReceipt

-----------------------------------------------------------------------------
(* acknowledge *)

\* The group may hold what it held before the batch, or the end of it after a
\* commit that was not recorded, partition by partition.
InitialAck == state = Absent \/ (state = landed /\ pending.parent = Absent)

StartsOnly ==            \* mutant: a commit that was not recorded is not expected
    \A p \in P : kafka.committed[p] = IF InitialAck THEN None ELSE pending.starts[p]

Allowed ==
    \A p \in P :
        kafka.committed[p] \in {IF InitialAck THEN None ELSE pending.starts[p], pending.ends[p]}

BeginAck ==
    /\ proc.pc = "idle" /\ pending # Absent /\ pending \in folders
    /\ landed # Absent /\ landed.head = pending /\ landed.offsets = pending.ends
    /\ kafka.id = pending.topic
    /\ Allowed
    /\ proc' = [pc |-> "commit"]
    /\ UNCHANGED <<now, kafka, local, hdfs, purged, faults>>

Commit ==
    /\ proc.pc = "commit"
    /\ kafka' = [kafka EXCEPT !.committed = pending.ends]
    /\ proc' = [pc |-> "state"]
    /\ UNCHANGED <<now, local, hdfs, purged, faults>>

\* The call fails after some partitions were committed.
PartialCommit ==
    /\ proc.pc = "commit" /\ faults < MaxFaults
    /\ \E done \in SUBSET P :
         kafka' = [kafka EXCEPT !.committed = [p \in P |-> IF p \in done THEN pending.ends[p] ELSE @[p]]]
    /\ faults' = faults + 1 /\ Stop
    /\ UNCHANGED <<now, local, hdfs, purged>>

WriteState ==
    /\ proc.pc = "state"
    /\ state' = landed
    /\ proc' = [pc |-> "unlink"]
    /\ UNCHANGED <<now, kafka, folders, pending, landed, receipts, journal, hdfs, purged, faults>>

UnlinkPending ==
    /\ proc.pc = "unlink"
    /\ pending' = Absent /\ Stop
    /\ UNCHANGED <<now, kafka, folders, landed, state, receipts, journal, hdfs, purged, faults>>

Acknowledge == BeginAck \/ Commit \/ WriteState \/ UnlinkPending

-----------------------------------------------------------------------------
(* real_ods.expire_window *)

Expired == IF state = Absent THEN {} ELSE {b \in state.batches : Lapsed(b)}
Refers(s, batches) == s.batches \cap batches # {}

\* Either the state is already replaced and the rest of the work is to be
\* repeated, or the deletions of a frozen plan are (re)started.
BeginExpire ==
    /\ proc.pc = "idle" /\ state # Absent /\ pending = Absent
    /\ \/ journal # Absent /\ state = journal.new /\ proc' = [pc |-> "landed2"]
       \/ journal = Absent /\ Expired # {} /\ proc' = [pc |-> "journal"]
       \/ journal # Absent /\ state = journal.old /\ Expired # {} /\ proc' = [pc |-> "replacement"]
    /\ UNCHANGED <<now, kafka, local, hdfs, purged, faults>>

WindowOffsets ==        \* mutant: an empty window loses the offsets of its head
    /\ proc.pc = "journal"
    /\ journal' = [expired |-> Expired, old |-> state,
                   new |-> [state EXCEPT !.batches = @ \ Expired,
                                         !.offsets = IF state.batches = Expired THEN state.head.starts ELSE @]]
    /\ proc' = [pc |-> "replacement"]
    /\ UNCHANGED <<now, kafka, folders, pending, landed, state, receipts, hdfs, purged, faults>>

WriteJournal ==
    /\ proc.pc = "journal"
    /\ journal' = [expired |-> Expired, old |-> state,
                   new |-> [state EXCEPT !.batches = @ \ Expired]]
    /\ proc' = [pc |-> "replacement"]
    /\ UNCHANGED <<now, kafka, folders, pending, landed, state, receipts, hdfs, purged, faults>>


PutReplacement ==
    /\ proc.pc = "replacement"
    /\ hdfs' = [hdfs EXCEPT !.snapshots = @ \union {journal.new}]
    /\ proc' = [pc |-> "purge",
                snapshots |-> {r \in receipts : Refers(r, journal.expired)} \union {state},
                batches |-> journal.expired, copies |-> journal.expired]
    /\ UNCHANGED <<now, kafka, local, purged, faults>>

PurgeSnapshot ==
    /\ proc.pc = "purge"
    /\ \E s \in proc.snapshots :
         /\ hdfs' = [hdfs EXCEPT !.snapshots = @ \ {s}]
         /\ proc' = [proc EXCEPT !.snapshots = @ \ {s}]
    /\ UNCHANGED <<now, kafka, local, purged, faults>>

PurgeBatch ==
    /\ proc.pc = "purge" /\ proc.snapshots = {} /\ proc.batches = proc.copies
    /\ \E b \in proc.batches :
         /\ hdfs' = [hdfs EXCEPT !.batches = @ \ {b}]
         /\ proc' = [proc EXCEPT !.batches = @ \ {b}]
    /\ UNCHANGED <<now, kafka, local, purged, faults>>

PurgeFolder ==
    /\ proc.pc = "purge" /\ proc.snapshots = {} /\ proc.batches # proc.copies
    /\ folders' = folders \ (proc.copies \ proc.batches)
    /\ proc' = [proc EXCEPT !.copies = proc.batches]
    /\ UNCHANGED <<now, kafka, pending, landed, state, receipts, journal, hdfs, purged, faults>>

ReplacedNow ==          \* mutant: what expired since the plan was frozen leaves the window, too
    /\ proc.pc = "purge" /\ proc.snapshots = {} /\ proc.copies = {}
    /\ state' = [journal.new EXCEPT !.batches = @ \ Expired]
    /\ purged' = purged \union journal.expired
    /\ proc' = [pc |-> "landed2"]
    /\ UNCHANGED <<now, kafka, folders, pending, landed, receipts, journal, hdfs, faults>>

ReplaceState ==
    /\ proc.pc = "purge" /\ proc.snapshots = {} /\ proc.copies = {}
    /\ state' = journal.new
    /\ purged' = purged \union journal.expired
    /\ proc' = [pc |-> "landed2"]
    /\ UNCHANGED <<now, kafka, folders, pending, landed, receipts, journal, hdfs, faults>>

ReplaceLanded ==
    /\ proc.pc = "landed2"
    /\ landed' = state
    /\ proc' = [pc |-> "prune"]
    /\ UNCHANGED <<now, kafka, folders, pending, state, receipts, journal, hdfs, purged, faults>>

PruneReceipt ==
    /\ proc.pc = "prune"
    /\ \E r \in receipts : Refers(r, journal.expired) /\ receipts' = receipts \ {r}
    /\ UNCHANGED <<now, kafka, folders, pending, landed, state, journal, hdfs, purged, proc, faults>>

ReplaceReceipt ==
    /\ proc.pc = "prune" /\ \A r \in receipts : ~Refers(r, journal.expired)
    /\ receipts' = receipts \union {state}
    /\ proc' = [pc |-> "finish"]
    /\ UNCHANGED <<now, kafka, folders, pending, landed, state, journal, hdfs, purged, faults>>

UnlinkJournal ==
    /\ proc.pc = "finish"
    /\ journal' = Absent /\ Stop
    /\ UNCHANGED <<now, kafka, folders, pending, landed, state, receipts, hdfs, purged, faults>>

Expire ==
    \/ BeginExpire \/ WriteJournal \/ PutReplacement
    \/ PurgeSnapshot \/ PurgeBatch \/ PurgeFolder
    \/ ReplaceState \/ ReplaceLanded \/ PruneReceipt \/ ReplaceReceipt \/ UnlinkJournal

-----------------------------------------------------------------------------
(* Kafka, the clock and crashes. *)

Produce ==
    /\ \E p \in P : Len(kafka.at[p]) < MaxLog /\ kafka' = [kafka EXCEPT !.at[p] = Append(@, now)]
    /\ UNCHANGED <<now, local, hdfs, purged, proc, faults>>

\* The broker removes the oldest records.
Truncate ==
    /\ faults < MaxFaults
    /\ \E p \in P : kafka.earliest[p] < Len(kafka.at[p]) /\ kafka' = [kafka EXCEPT !.earliest[p] = @ + 1]
    /\ faults' = faults + 1
    /\ UNCHANGED <<now, local, hdfs, purged, proc>>

\* The topic is deleted and created again; the group's offsets go with it.
Recreate ==
    /\ kafka.id < MaxTopic
    /\ kafka' = NewTopic(kafka.id + 1)
    /\ UNCHANGED <<now, local, hdfs, purged, proc, faults>>

Tick ==
    /\ now < MaxNow /\ now' = now + 1
    /\ UNCHANGED <<kafka, local, hdfs, purged, proc, faults>>

Fail ==
    /\ proc.pc # "idle" /\ faults < MaxFaults
    /\ faults' = faults + 1 /\ Stop
    /\ UNCHANGED <<now, kafka, local, hdfs, purged>>

Outside == Produce \/ Truncate \/ Recreate \/ Tick

Next == Capture \/ Land \/ Acknowledge \/ PartialCommit \/ Expire \/ Outside \/ Fail

Spec == Init /\ [][Next]_vars
FairSpec ==
    /\ Spec
    /\ SF_vars(Capture) /\ SF_vars(Land) /\ SF_vars(Acknowledge) /\ SF_vars(Expire)

-----------------------------------------------------------------------------
(* Correctness. *)

BatchRecord(b) ==
    /\ b.topic \in Nat /\ b.at \in Nat
    /\ b.starts \in [P -> Nat] /\ b.ends \in [P -> Nat]
    /\ \A p \in P : b.starts[p] <= b.ends[p]

SnapshotRecord(s) ==
    /\ s.topic \in Nat /\ s.offsets \in [P -> Nat]
    /\ BatchRecord(s.head) /\ s.head.ends = s.offsets
    /\ \A b \in s.batches : BatchRecord(b)

\* Every file and directory holds what its writer puts there.
TypeOK ==
    /\ now \in Nat /\ faults \in Nat
    /\ kafka.committed \in [P -> Nat \union {None}]
    /\ \A b \in folders \union hdfs.batches \union purged : BatchRecord(b)
    /\ \A s \in receipts \union hdfs.snapshots : SnapshotRecord(s)
    /\ pending = Absent \/ BatchRecord(pending)
    /\ \A s \in {landed, state} : s = Absent \/ SnapshotRecord(s)
    /\ journal = Absent \/ (SnapshotRecord(journal.old) /\ SnapshotRecord(journal.new))

\* Every offset below the checkpoint is in exactly one batch that is or was
\* in the window: crashes, replays, partial commits and expiry neither skip a
\* record nor store it twice (landing.land, real_ods.expire_window).
EachOffsetOnce ==
    state # Absent =>
        \A p \in P : \A o \in 0 .. state.offsets[p] - 1 :
            Cardinality({b \in state.batches \union purged : o \in b.starts[p] .. b.ends[p] - 1}) = 1

\* The consumer group is never ahead of a snapshot that is visible in HDFS
\* (module comment: HDFS inputs -> Kafka ACK), also while a window expires.
CommittedIsStored ==
    \A p \in P :
        kafka.committed[p] # None =>
            \E s \in hdfs.snapshots : kafka.committed[p] <= s.offsets[p]

\* The checkpoint can be read: its snapshot and all of its batches are in
\* HDFS, unless an expiry is being carried out.
HeadIsReadable ==
    state # Absent /\ journal = Absent =>
        state \in hdfs.snapshots /\ state.batches \subseteq hdfs.batches

\* At every step of a capture, a landing and an expiry the window and the offsets agree.
WindowSound == TypeOK /\ EachOffsetOnce /\ CommittedIsStored /\ HeadIsReadable

\* The checkpoint never moves back, whether the window grows or expires, and
\* it keeps to one incarnation of the topic.
CheckpointAdvances ==
    [][state # Absent =>
         /\ state'.topic = state.topic
         /\ \A p \in P : state'.offsets[p] >= state.offsets[p]]_vars

\* Every fault can be resumed from: a captured batch is acknowledged, unless
\* it expired before that or its topic is gone.
EventuallyAcknowledged ==
    pending # Absent ~> pending = Absent \/ Lapsed(pending) \/ kafka.id # pending.topic

\* Expired batches of the window leave HDFS and the local disk, unless an
\* expired capture blocks the expiry.
EventuallyPurged ==
    journal = Absent /\ Expired # {} ~>
        (journal = Absent /\ Expired = {} /\ \A b \in hdfs.batches : ~Lapsed(b)) \/ pending # Absent

\* Both: captures reach the window, and what expired leaves it.
EventuallySettled == EventuallyAcknowledged /\ EventuallyPurged
=============================================================================
