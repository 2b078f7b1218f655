--------------------------- MODULE LandingProofs ---------------------------
(***************************************************************************)
(* Crashes, replays, partial commits and expiry neither skip a record nor  *)
(* store it twice, Kafka is never ahead of HDFS, and the checkpoint never  *)
(* moves back: for any partitions, quotas, lifetimes, clock and number of  *)
(* faults.                                                                 *)
(***************************************************************************)
EXTENDS Landing, FiniteSetTheorems, SequenceTheorems, WellFoundedInduction, TLAPS

Snap(s) ==
    /\ SnapshotRecord(s) /\ s.topic = s.head.topic
    /\ s = [topic |-> s.topic, offsets |-> s.offsets, head |-> s.head, batches |-> s.batches]

FilesOK ==
    /\ now \in Nat /\ faults \in Nat
    /\ kafka \in [id : Nat, at : [P -> Seq(Nat)], earliest : [P -> Nat], committed : [P -> Nat \union {None}]]
    /\ hdfs = [batches |-> hdfs.batches, snapshots |-> hdfs.snapshots]
    /\ \A b \in folders \union hdfs.batches \union purged : BatchRecord(b)
    /\ \A s \in receipts \union hdfs.snapshots : Snap(s)
    /\ pending # Absent => BatchRecord(pending)
    /\ landed # Absent => Snap(landed)
    /\ state # Absent => Snap(state)

\* Every offset below off is in exactly one of the batches, and none reaches beyond.
Tiles(W, off) ==
    \A p \in P :
        /\ \A o \in 0 .. off[p] - 1 : \E b \in W :
             \A c \in W : (o \in c.starts[p] .. c.ends[p] - 1) <=> c = b
        /\ \A b \in W : b.ends[p] <= off[p]

WindowRight ==
    /\ state = Absent => purged = {}
    /\ state # Absent => Tiles(state.batches \union purged, state.offsets)

\* The batch goes on where the checkpoint ends.
Continues(b) ==
    /\ BatchRecord(b)
    /\ b.starts = Offsets /\ b.ends # b.starts
    /\ state # Absent => b.topic = state.topic

Window == IF state = Absent THEN {} ELSE state.batches

\* The checkpoint with the pending batch.
Grown ==
    [topic |-> pending.topic, offsets |-> pending.ends, head |-> pending, batches |-> Window \union {pending}]

Stored(s) == s \in hdfs.snapshots /\ s.batches \subseteq hdfs.batches

\* A batch is stored, then landed, then the checkpoint; then it is no longer pending.
PendingRight ==
    /\ pending = Absent /\ journal = Absent => landed = state
    /\ pending # Absent =>
         /\ journal = Absent
         /\ \/ Continues(pending) /\ (landed = state \/ (landed = Grown /\ Stored(Grown)))
            \/ state # Absent /\ state.head = pending /\ landed = state

\* An expiry is before or after the replacement of the checkpoint.
JournalRight ==
    journal # Absent =>
        /\ pending = Absent
        /\ Snap(journal.old)
        /\ journal.expired # {} /\ journal.expired \subseteq journal.old.batches
        /\ journal.new = [topic |-> journal.old.topic, offsets |-> journal.old.offsets, head |-> journal.old.head,
                          batches |-> journal.old.batches \ journal.expired]
        /\ journal.new.batches \subseteq hdfs.batches
        /\ \/ /\ state = journal.old /\ landed = state
              /\ journal.old \in hdfs.snapshots \/ journal.new \in hdfs.snapshots
           \/ /\ state = journal.new /\ landed \in {journal.old, journal.new}
              /\ journal.new \in hdfs.snapshots

CommittedRight ==
    \A p \in P : kafka.committed[p] # None =>
        \E s \in {state, landed} : s # Absent /\ kafka.committed[p] <= s.offsets[p]

ProcRight ==
    CASE proc.pc = "idle" -> TRUE
      [] proc.pc = "bounds" ->
           /\ pending = Absent /\ journal = Absent
           /\ proc.topic \in Nat /\ (state # Absent => state.topic = proc.topic)
      [] proc.pc = "records" ->
           /\ pending = Absent /\ journal = Absent
           /\ proc.topic \in Nat /\ (state # Absent => state.topic = proc.topic)
           /\ proc.starts = Offsets /\ proc.ends # proc.starts
           /\ proc.ends \in [P -> Nat] /\ \A p \in P : proc.starts[p] <= proc.ends[p]
      [] proc.pc \in {"folder", "pending"} ->
           /\ pending = Absent /\ journal = Absent
           /\ proc = [pc |-> proc.pc, batch |-> proc.batch]
           /\ Continues(proc.batch)
      [] proc.pc = "batch" -> pending # Absent
      [] proc.pc = "snapshot" -> pending # Absent /\ pending \in hdfs.batches
      [] proc.pc = "landed" -> pending # Absent /\ pending \in hdfs.batches /\ Snapshot \in hdfs.snapshots
      [] proc.pc = "receipt" -> pending # Absent /\ landed # Absent
      [] proc.pc \in {"commit", "state"} -> pending # Absent /\ landed # Absent /\ landed.head = pending
      [] proc.pc = "unlink" -> pending # Absent /\ landed = state
      [] proc.pc = "journal" -> pending = Absent /\ journal = Absent /\ state # Absent /\ Expired # {}
      [] proc.pc = "replacement" -> journal # Absent /\ state = journal.old
      [] proc.pc = "purge" ->
           /\ journal # Absent /\ state = journal.old
           /\ proc = [pc |-> "purge", snapshots |-> proc.snapshots, batches |-> proc.batches, copies |-> proc.copies]
           /\ journal.new \in hdfs.snapshots /\ journal.new \notin proc.snapshots
           /\ proc.batches \subseteq journal.expired
      [] proc.pc = "landed2" -> journal # Absent /\ state = journal.new
      [] proc.pc \in {"prune", "finish"} -> journal # Absent /\ state = journal.new /\ landed = state

Pcs == {"idle", "bounds", "records", "folder", "pending", "batch", "snapshot", "landed", "receipt", "commit",
        "state", "unlink", "journal", "replacement", "purge", "landed2", "prune", "finish"}

IInv ==
    /\ FilesOK
    /\ WindowRight
    /\ PendingRight
    /\ JournalRight
    /\ CommittedRight
    /\ HeadIsReadable
    /\ proc.pc \in Pcs /\ ProcRight

-----------------------------------------------------------------------------
(* Files, batches and quotas. *)

LEMMA Smaller ==
    ASSUME NEW x \in Nat, NEW y \in Nat, x < y
    PROVE  <<x, y>> \in OpToRel(<, Nat)
  BY Zenon DEF OpToRel

LEMMA MinProperty ==
    ASSUME NEW S, S \subseteq Nat, S # {}
    PROVE  Min(S) \in S /\ \A y \in S : Min(S) <= y
<1>1. PICK x \in S : \A y \in S : ~ (<<y, x>> \in OpToRel(<, Nat))
  BY WFMin, NatLessThanWellFounded
<1>2. \A y \in S : ~ (y < x)
  BY <1>1, Smaller, Zenon
<1>3. \A y \in S : x <= y
  BY <1>2
<1> QED
  BY <1>3 DEF Min

LEMMA MaxOfTwo ==
    ASSUME NEW x \in Nat, NEW y \in Nat
    PROVE  Max({x, y}) \in {x, y}
<1>1. \E m \in {x, y} : \A z \in {x, y} : z <= m
  <2>1. CASE x <= y
    BY <2>1
  <2>2. CASE ~ (x <= y)
    BY <2>2
  <2> QED
    BY <2>1, <2>2
<1> QED
  BY <1>1 DEF Max

\* A partition takes no more than there is.
LEMMA ShareBounded ==
    ASSUME NEW left \in Nat, NEW p \in P, NEW waiting \in Nat
    PROVE  Share(left, p, waiting) \in Nat /\ Share(left, p, waiting) <= waiting
<1> DEFINE part == left \div (Partitions - p + 1)
<1>1. part \in Nat
  <2>1. Partitions - p + 1 \in Nat \ {0}
    BY LandingAssumption DEF P
  <2> DEFINE d == Partitions - p + 1
  <2> HIDE DEF d
  <2>2. d \in Nat \ {0} => left \div d \in Nat
    OBVIOUS
  <2> QED
    BY <2>1, <2>2 DEF d
<1> HIDE DEF part
<1>2. Max({1, part}) \in Nat
  BY <1>1, MaxOfTwo
<1> DEFINE m == Max({1, part})
<1>3. m \in Nat
  BY <1>2
<1> HIDE DEF m
<1>4. Min({waiting, m}) \in {waiting, m} /\ \A y \in {waiting, m} : Min({waiting, m}) <= y
  BY <1>3, MinProperty
<1>5. Share(left, p, waiting) = IF left = 0 THEN 0 ELSE Min({waiting, m})
  BY DEF Share, m, part
<1> QED
  BY <1>3, <1>4, <1>5

LEMMA SpendingGrows ==
    ASSUME NEW waiting, \A p \in P : waiting[p] \in Nat, NEW spent \in Spending(waiting), NEW p \in P
    PROVE  /\ spent[p] \in Nat /\ spent[p - 1] \in Nat /\ spent[p - 1] <= spent[p]
<1>1. /\ spent \in [0..Partitions -> 0..MaxRecords]
      /\ spent[p] = spent[p - 1] + Share(MaxRecords - spent[p - 1], p, waiting[p])
  BY DEF Spending
<1>2. p - 1 \in 0..Partitions /\ MaxRecords \in Nat
  BY LandingAssumption DEF P
<1>3. spent[p - 1] \in Nat /\ MaxRecords - spent[p - 1] \in Nat
  BY <1>1, <1>2
<1>4. Share(MaxRecords - spent[p - 1], p, waiting[p]) \in Nat
  BY <1>3, ShareBounded
<1> QED
  BY <1>1, <1>3, <1>4

LEMMA SnapIsThere == ASSUME NEW s, Snap(s) PROVE s # Absent
<1>1. s = [topic |-> s.topic, offsets |-> s.offsets, head |-> s.head, batches |-> s.batches]
  BY DEF Snap
<1>2. DOMAIN s = {"topic", "offsets", "head", "batches"}
  BY <1>1
<1>3. DOMAIN Absent = {"absent"}
  BY DEF Absent
<1> QED
  BY <1>2, <1>3

\* A snapshot is made of its parts.
LEMMA SnapMade ==
    ASSUME NEW t \in Nat, NEW o \in [P -> Nat], NEW h, BatchRecord(h), h.ends = o, h.topic = t,
           NEW B, \A b \in B : BatchRecord(b),
           NEW s, s = [topic |-> t, offsets |-> o, head |-> h, batches |-> B]
    PROVE  Snap(s) /\ s.topic = t /\ s.offsets = o /\ s.head = h /\ s.batches = B
<1>1. s.topic = t /\ s.offsets = o /\ s.head = h /\ s.batches = B
  OBVIOUS
<1> QED
  BY <1>1 DEF Snap, SnapshotRecord

-----------------------------------------------------------------------------
(* The window. *)

LEMMA TilesNone == ASSUME NEW off \in [P -> Nat], \A p \in P : off[p] = 0 PROVE Tiles({}, off)
BY DEF Tiles

\* A batch that goes on where the others end.
LEMMA TilesGrow ==
    ASSUME NEW W, \A c \in W : BatchRecord(c), NEW off \in [P -> Nat], Tiles(W, off),
           NEW b, BatchRecord(b), b.starts = off
    PROVE  Tiles(W \union {b}, b.ends)
<1> SUFFICES ASSUME NEW p \in P
             PROVE  /\ \A o \in 0 .. b.ends[p] - 1 : \E d \in W \union {b} :
                         \A c \in W \union {b} : (o \in c.starts[p] .. c.ends[p] - 1) <=> c = d
                    /\ \A d \in W \union {b} : d.ends[p] <= b.ends[p]
  BY DEF Tiles
<1>1. off[p] \in Nat /\ b.ends[p] \in Nat /\ b.starts[p] = off[p] /\ off[p] <= b.ends[p]
  BY DEF BatchRecord
<1>2. \A c \in W : c.ends[p] \in Nat /\ c.starts[p] \in Nat /\ c.ends[p] <= off[p]
  BY DEF BatchRecord, Tiles
<1>3. ASSUME NEW o \in 0 .. b.ends[p] - 1
      PROVE  \E d \in W \union {b} : \A c \in W \union {b} : (o \in c.starts[p] .. c.ends[p] - 1) <=> c = d
  <2>1. o \in Int /\ 0 <= o /\ o <= b.ends[p] - 1
    BY <1>1, <1>3
  <2>2. CASE o < off[p]
    <3>1. o \in 0 .. off[p] - 1
      BY <1>1, <2>1, <2>2
    <3>2. PICK d \in W : \A c \in W : (o \in c.starts[p] .. c.ends[p] - 1) <=> c = d
      BY <3>1 DEF Tiles
    <3>3. o \notin b.starts[p] .. b.ends[p] - 1
      BY <1>1, <2>1, <2>2
    <3> QED
      BY <3>2, <3>3
  <2>3. CASE ~ (o < off[p])
    <3>1. \A c \in W : o \notin c.starts[p] .. c.ends[p] - 1
      BY <1>1, <1>2, <2>1, <2>3
    <3>2. o \in b.starts[p] .. b.ends[p] - 1
      BY <1>1, <2>1, <2>3
    <3> QED
      BY <3>1, <3>2
  <2> QED
    BY <2>2, <2>3
<1>4. \A d \in W \union {b} : d.ends[p] <= b.ends[p]
  BY <1>1, <1>2
<1> QED
  BY <1>3, <1>4

LEMMA TilesCount ==
    ASSUME NEW W, NEW off, Tiles(W, off), NEW p \in P, NEW o \in 0 .. off[p] - 1
    PROVE  Cardinality({b \in W : o \in b.starts[p] .. b.ends[p] - 1}) = 1
<1>1. PICK d \in W : \A c \in W : (o \in c.starts[p] .. c.ends[p] - 1) <=> c = d
  BY DEF Tiles
<1>2. {b \in W : o \in b.starts[p] .. b.ends[p] - 1} = {d}
  BY <1>1
<1> QED
  BY <1>2, FS_Singleton

-----------------------------------------------------------------------------
(* What a step that leaves the files alone cannot break. *)

LEMMA ContinuesStands == ASSUME UNCHANGED state, NEW b, Continues(b) PROVE Continues(b)'
BY DEF Continues, Offsets

LEMMA FilesStand ==
    ASSUME FilesOK, now' \in Nat, faults' \in Nat, UNCHANGED <<kafka, local, hdfs, purged>>
    PROVE  FilesOK'
BY DEF FilesOK, local

LEMMA WindowStands ==
    ASSUME WindowRight, UNCHANGED <<state, purged>>
    PROVE  WindowRight'
BY DEF WindowRight, Tiles

HdfsGrows == hdfs.batches \subseteq hdfs.batches' /\ hdfs.snapshots \subseteq hdfs.snapshots'

LEMMA PendingStands ==
    ASSUME PendingRight, UNCHANGED <<pending, journal, landed, state>>, pending # Absent => HdfsGrows
    PROVE  PendingRight'
<1>1. CASE pending = Absent
  BY <1>1 DEF PendingRight
<1>2. CASE pending # Absent
  <2>1. Grown' = Grown
    BY DEF Grown, Window
  <2>2. Stored(Grown) => Stored(Grown)'
    BY <1>2, <2>1 DEF Stored, HdfsGrows
  <2>3. Continues(pending) => Continues(pending)'
    BY ContinuesStands DEF Continues, Offsets
  <2> QED
    BY <1>2, <2>1, <2>2, <2>3 DEF PendingRight
<1> QED
  BY <1>1, <1>2

LEMMA JournalStands ==
    ASSUME JournalRight, UNCHANGED <<pending, journal, landed, state>>, HdfsGrows
    PROVE  JournalRight'
BY DEF JournalRight, HdfsGrows

LEMMA CommittedStands ==
    ASSUME CommittedRight, UNCHANGED <<landed, state>>, kafka'.committed = kafka.committed
    PROVE  CommittedRight'
BY DEF CommittedRight

LEMMA HeadStands ==
    ASSUME HeadIsReadable, UNCHANGED <<journal, state>>, HdfsGrows
    PROVE  HeadIsReadable'
BY DEF HeadIsReadable, HdfsGrows

\* Only the command goes on.
LEMMA ProcOnly ==
    ASSUME IInv, now' \in Nat, faults' \in Nat, UNCHANGED <<kafka, local, hdfs, purged>>,
           proc'.pc \in Pcs, ProcRight'
    PROVE  IInv'
<1>1. UNCHANGED <<kafka, folders, pending, landed, state, receipts, journal, hdfs, purged>> /\ HdfsGrows
  BY DEF local, HdfsGrows
<1>2. FilesOK' /\ WindowRight'
  BY <1>1, FilesStand, WindowStands DEF IInv
<1>3. PendingRight' /\ JournalRight'
  BY <1>1, PendingStands, JournalStands DEF IInv
<1>4. CommittedRight' /\ HeadIsReadable'
  BY <1>1, CommittedStands, HeadStands DEF IInv
<1> QED
  BY <1>2, <1>3, <1>4 DEF IInv

LEMMA IdleRight == ASSUME proc' = Idle PROVE proc'.pc \in Pcs /\ ProcRight'
BY DEF Idle, Pcs, ProcRight

\* A command ends, or dies.
LEMMA StopKept ==
    ASSUME IInv, Stop, faults' \in Nat, UNCHANGED <<now, kafka, local, hdfs, purged>>
    PROVE  IInv'
<1>1. now' \in Nat
  BY DEF IInv, FilesOK
<1>2. proc'.pc \in Pcs /\ ProcRight'
  BY IdleRight DEF Stop
<1> QED
  BY <1>1, <1>2, ProcOnly

LEMMA Clock == ASSUME IInv PROVE now \in Nat /\ faults \in Nat
BY DEF IInv, FilesOK

-----------------------------------------------------------------------------
(* capture *)

LEMMA OffsetsTyped == ASSUME FilesOK PROVE Offsets \in [P -> Nat]
BY DEF FilesOK, Offsets, Snap, SnapshotRecord

LEMMA BeginCaptureKept == ASSUME IInv, BeginCapture PROVE IInv'
<1>1. /\ pending = Absent /\ journal = Absent /\ (state # Absent => state.topic = kafka.id)
      /\ proc' = [pc |-> "bounds", topic |-> kafka.id]
      /\ UNCHANGED <<now, kafka, local, hdfs, purged, faults>>
  BY DEF BeginCapture
<1>2. kafka.id \in Nat
  BY DEF IInv, FilesOK
<1>3. proc'.pc = "bounds" /\ proc'.topic = kafka.id
  BY <1>1
<1>4. proc'.pc \in Pcs /\ ProcRight'
  BY <1>1, <1>2, <1>3 DEF Pcs, ProcRight, local
<1> QED
  BY <1>1, <1>4, Clock, ProcOnly

\* No partition ends before it starts.
LEMMA ReadBoundsKept == ASSUME IInv, ReadBounds PROVE IInv'
<1>1. proc.pc = "bounds" /\ UNCHANGED <<now, kafka, local, hdfs, purged, faults>>
  BY DEF ReadBounds
<1>2. CASE proc' = Idle
  BY <1>1, <1>2, StopKept, Clock DEF Stop
<1>3. CASE proc' # Idle
  <2> DEFINE waiting == [p \in P |-> Len(kafka.at[p]) - Offsets[p]]
  <2>1. Bounded /\ \E spent \in Spending(waiting) :
          LET ends == [p \in P |-> Offsets[p] + spent[p] - spent[p - 1]]
          IN  proc' = IF ends = Offsets THEN Idle
                      ELSE [pc |-> "records", topic |-> proc.topic, starts |-> Offsets, ends |-> ends]
    BY <1>3 DEF ReadBounds, Stop
  <2>2. Offsets \in [P -> Nat] /\ kafka.at \in [P -> Seq(Nat)] /\ kafka.earliest \in [P -> Nat]
    BY OffsetsTyped DEF IInv, FilesOK
  <2>3. \A p \in P : waiting[p] \in Nat
    <3>1. SUFFICES ASSUME NEW p \in P PROVE Len(kafka.at[p]) - Offsets[p] \in Nat
      OBVIOUS
    <3>2. Offsets[p] \in kafka.earliest[p] .. Len(kafka.at[p]) /\ Len(kafka.at[p]) \in Nat /\ kafka.earliest[p] \in Nat
      BY <2>1, <2>2 DEF Bounded
    <3> QED
      BY <2>2, <3>2
  <2> HIDE DEF waiting
  <2>4. PICK spent \in Spending(waiting) :
          LET ends == [p \in P |-> Offsets[p] + spent[p] - spent[p - 1]]
          IN  proc' = IF ends = Offsets THEN Idle
                      ELSE [pc |-> "records", topic |-> proc.topic, starts |-> Offsets, ends |-> ends]
    BY <2>1
  <2> DEFINE ends == [p \in P |-> Offsets[p] + spent[p] - spent[p - 1]]
  <2>5. ends # Offsets /\ proc' = [pc |-> "records", topic |-> proc.topic, starts |-> Offsets, ends |-> ends]
    BY <1>3, <2>4
  <2>6. ASSUME NEW p \in P PROVE ends[p] \in Nat /\ Offsets[p] <= ends[p]
    <3>1. spent[p] \in Nat /\ spent[p - 1] \in Nat /\ spent[p - 1] <= spent[p]
      BY <2>3, SpendingGrows
    <3>2. Offsets[p] \in Nat /\ ends[p] = Offsets[p] + spent[p] - spent[p - 1]
      BY <2>2
    <3> QED
      BY <3>1, <3>2
  <2>7. ends \in [P -> Nat]
    BY <2>6
  <2> HIDE DEF ends
  <2>8. proc'.pc = "records" /\ proc'.topic = proc.topic /\ proc'.starts = Offsets /\ proc'.ends = ends
    BY <2>5
  <2>9. /\ pending = Absent /\ journal = Absent
        /\ proc.topic \in Nat /\ (state # Absent => state.topic = proc.topic)
    BY <1>1 DEF IInv, ProcRight
  <2>10. Offsets' = Offsets /\ UNCHANGED <<pending, journal, state>>
    BY <1>1 DEF Offsets, local
  <2>11. proc'.pc \in Pcs /\ ProcRight'
    BY <2>5, <2>6, <2>7, <2>8, <2>9, <2>10 DEF Pcs, ProcRight
  <2> QED
    BY <1>1, <2>11, Clock, ProcOnly
<1> QED
  BY <1>2, <1>3

\* The batch holds at least one record: it has an original time.
LEMMA ReadRecordsKept == ASSUME IInv, ReadRecords PROVE IInv'
<1>1. proc.pc = "records" /\ UNCHANGED <<now, kafka, local, hdfs, purged, faults>>
  BY DEF ReadRecords
<1>2. CASE proc' = Idle
  BY <1>1, <1>2, StopKept, Clock DEF Stop
<1>3. CASE proc' # Idle
  <2> DEFINE taken(p) == proc.starts[p] + 1 .. proc.ends[p]
             times == UNION {{kafka.at[p][o] : o \in taken(p)} : p \in P}
             b == [topic |-> proc.topic, starts |-> proc.starts, ends |-> proc.ends,
                   parent |-> Parent, at |-> Min(times)]
  <2>1. /\ \A p \in P : proc.starts[p] >= kafka.earliest[p] /\ proc.ends[p] <= Len(kafka.at[p])
        /\ proc' = [pc |-> "folder", batch |-> b]
    BY <1>3 DEF ReadRecords
  <2>2. /\ pending = Absent /\ journal = Absent
        /\ proc.topic \in Nat /\ (state # Absent => state.topic = proc.topic)
        /\ proc.starts = Offsets /\ proc.ends # proc.starts
        /\ proc.ends \in [P -> Nat] /\ \A p \in P : proc.starts[p] <= proc.ends[p]
    BY <1>1 DEF IInv, ProcRight
  <2>3. Offsets \in [P -> Nat] /\ kafka.at \in [P -> Seq(Nat)]
    BY OffsetsTyped DEF IInv, FilesOK
  <2>4. times \subseteq Nat
    <3>1. ASSUME NEW p \in P, NEW o \in taken(p) PROVE kafka.at[p][o] \in Nat
      <4>1. o \in 1 .. Len(kafka.at[p])
        BY <2>1, <2>2, <2>3
      <4> QED
        BY <2>3, <4>1
    <3> QED
      BY <3>1
  <2>5. times # {}
    <3>1. PICK p \in P : proc.ends[p] # proc.starts[p]
      BY <2>2, <2>3
    <3>2. proc.ends[p] \in taken(p)
      BY <2>2, <2>3, <3>1
    <3> QED
      BY <3>2
  <2> HIDE DEF times
  <2>6. Min(times) \in Nat
    BY <2>4, <2>5, MinProperty
  <2>7. BatchRecord(b) /\ b.starts = proc.starts /\ b.ends = proc.ends /\ b.topic = proc.topic
    BY <2>2, <2>3, <2>6 DEF BatchRecord
  <2> HIDE DEF b
  <2>8. Continues(b)
    BY <2>2, <2>7 DEF Continues
  <2>9. proc'.pc = "folder" /\ proc'.batch = b /\ proc' = [pc |-> proc'.pc, batch |-> proc'.batch]
    BY <2>1
  <2>10. UNCHANGED <<pending, journal, state>>
    BY <1>1 DEF local
  <2>11. proc'.pc \in Pcs /\ ProcRight'
    <3>1. Continues(proc'.batch) /\ Offsets' = Offsets
      BY <2>8, <2>9, <2>10 DEF Offsets
    <3> QED
      BY <2>2, <2>9, <2>10, <3>1 DEF Pcs, ProcRight, Continues
  <2> QED
    BY <1>1, <2>11, Clock, ProcOnly
<1> QED
  BY <1>2, <1>3

LEMMA WriteFolderKept == ASSUME IInv, WriteFolder PROVE IInv'
<1>1. /\ proc.pc = "folder" /\ folders' = folders \union {proc.batch} /\ proc' = [proc EXCEPT !.pc = "pending"]
      /\ UNCHANGED <<now, kafka, pending, landed, state, receipts, journal, hdfs, purged, faults>>
  BY DEF WriteFolder
<1>2. /\ pending = Absent /\ journal = Absent /\ Continues(proc.batch)
      /\ proc = [pc |-> proc.pc, batch |-> proc.batch]
  BY <1>1 DEF IInv, ProcRight
<1>3. proc'.pc = "pending" /\ proc'.batch = proc.batch /\ proc' = [pc |-> proc'.pc, batch |-> proc'.batch]
  BY <1>1, <1>2
<1>4. proc'.pc \in Pcs /\ ProcRight'
  <2>1. Continues(proc'.batch) /\ Offsets' = Offsets
    BY <1>1, <1>2, <1>3 DEF Offsets
  <2> QED
    BY <1>1, <1>2, <1>3, <2>1 DEF Pcs, ProcRight, Continues
<1>5. FilesOK'
  BY <1>1, <1>2 DEF IInv, FilesOK, Continues
<1>6. HdfsGrows
  BY <1>1 DEF HdfsGrows
<1>7. WindowRight' /\ PendingRight' /\ JournalRight' /\ CommittedRight' /\ HeadIsReadable'
  BY <1>1, <1>6, WindowStands, PendingStands, JournalStands, CommittedStands, HeadStands DEF IInv
<1> QED
  BY <1>4, <1>5, <1>7 DEF IInv

LEMMA WritePendingKept == ASSUME IInv, WritePending PROVE IInv'
<1>1. /\ proc.pc = "pending" /\ pending' = proc.batch /\ proc' = Idle
      /\ UNCHANGED <<now, kafka, folders, landed, state, receipts, journal, hdfs, purged, faults>>
  BY DEF WritePending, Stop
<1>2. pending = Absent /\ journal = Absent /\ Continues(proc.batch) /\ landed = state
  BY <1>1 DEF IInv, ProcRight, PendingRight
<1>3. FilesOK'
  BY <1>1, <1>2 DEF IInv, FilesOK, Continues
<1>4. Continues(pending)'
  <2>1. Offsets' = Offsets
    BY <1>1 DEF Offsets
  <2> QED
    BY <1>1, <1>2, <2>1 DEF Continues
<1>5. PendingRight' /\ JournalRight'
  BY <1>1, <1>2, <1>4 DEF PendingRight, JournalRight
<1>6. HdfsGrows
  BY <1>1 DEF HdfsGrows
<1>7. WindowRight' /\ CommittedRight' /\ HeadIsReadable'
  BY <1>1, <1>6, WindowStands, CommittedStands, HeadStands DEF IInv
<1>8. proc'.pc \in Pcs /\ ProcRight'
  BY <1>1, IdleRight
<1> QED
  BY <1>3, <1>5, <1>7, <1>8 DEF IInv

-----------------------------------------------------------------------------
(* land *)

\* The pending batch either goes on from the checkpoint or is its head.
LEMMA PendingCases ==
    ASSUME IInv, pending # Absent
    PROVE  /\ journal = Absent /\ BatchRecord(pending)
           /\ \/ /\ Continues(pending) /\ ~Checkpointed /\ Snapshot = Grown
                 /\ landed = state \/ (landed = Grown /\ Stored(Grown))
                 /\ landed # Absent /\ landed.head = pending => landed = Grown /\ Stored(Grown)
              \/ /\ Checkpointed /\ landed = state /\ Snapshot = state /\ pending.ends = state.offsets
<1>1. /\ journal = Absent /\ BatchRecord(pending)
      /\ \/ Continues(pending) /\ (landed = state \/ (landed = Grown /\ Stored(Grown)))
         \/ state # Absent /\ state.head = pending /\ landed = state
      /\ state # Absent => Snap(state)
  BY DEF IInv, PendingRight, FilesOK
<1>2. CASE Continues(pending)
  <2>1. state # Absent => state.head # pending
    BY <1>1, <1>2 DEF Continues, Offsets, Snap, SnapshotRecord
  <2>2. ~Checkpointed
    BY <2>1 DEF Checkpointed
  <2>3. Snapshot = Grown
    BY <2>2 DEF Snapshot, Grown, Window
  <2> QED
    BY <1>1, <1>2, <2>1, <2>2, <2>3
<1>3. CASE ~Continues(pending)
  <2>1. Checkpointed /\ Snap(state) /\ landed = state
    BY <1>1, <1>3 DEF Checkpointed
  <2>2. pending = state.head /\ pending.ends = state.offsets /\ pending.topic = state.topic
    BY <2>1 DEF Checkpointed, Snap, SnapshotRecord
  <2>3. state = [topic |-> state.topic, offsets |-> state.offsets, head |-> state.head, batches |-> state.batches]
    BY <2>1 DEF Snap
  <2>4. Snapshot = state
    BY <2>1, <2>2, <2>3, Zenon DEF Snapshot
  <2> QED
    BY <1>1, <2>1, <2>2, <2>4
<1> QED
  BY <1>2, <1>3

LEMMA GrownFacts ==
    ASSUME FilesOK, BatchRecord(pending)
    PROVE  Snap(Grown) /\ Grown.offsets = pending.ends /\ Grown.head = pending
           /\ Grown.batches = Window \union {pending} /\ Grown.topic = pending.topic
<1>1. \A b \in Window \union {pending} : BatchRecord(b)
  BY DEF FilesOK, Window, Snap, SnapshotRecord
<1>2. pending.topic \in Nat /\ pending.ends \in [P -> Nat]
  BY DEF BatchRecord
<1> QED
  BY <1>1, <1>2, SnapMade DEF Grown

LEMMA SnapshotIsSnap == ASSUME IInv, pending # Absent PROVE Snap(Snapshot) /\ Snapshot # Absent
<1>1. FilesOK
  BY DEF IInv
<1>2. CASE Checkpointed
  BY <1>1, <1>2, PendingCases DEF Checkpointed, FilesOK
<1>3. CASE ~Checkpointed
  BY <1>1, <1>3, PendingCases, GrownFacts, SnapIsThere
<1> QED
  BY <1>2, <1>3

LEMMA BeginLandKept == ASSUME IInv, BeginLand PROVE IInv'
<1>1. pending # Absent /\ proc' = [pc |-> "batch"] /\ UNCHANGED <<now, kafka, local, hdfs, purged, faults>>
  BY DEF BeginLand
<1>2. proc'.pc = "batch" /\ pending' = pending
  BY <1>1 DEF local
<1>3. proc'.pc \in Pcs /\ ProcRight'
  BY <1>1, <1>2 DEF Pcs, ProcRight
<1> QED
  BY <1>1, <1>3, Clock, ProcOnly

\* A file appears in HDFS.
LEMMA PutKept ==
    ASSUME IInv, FilesOK', HdfsGrows, UNCHANGED <<now, kafka, local, purged, faults>>, proc'.pc \in Pcs, ProcRight'
    PROVE  IInv'
<1>1. UNCHANGED <<now, kafka, folders, pending, landed, state, receipts, journal, purged, faults>>
  BY DEF local
<1>2. WindowRight' /\ PendingRight' /\ JournalRight' /\ CommittedRight' /\ HeadIsReadable'
  BY <1>1, WindowStands, PendingStands, JournalStands, CommittedStands, HeadStands DEF IInv
<1> QED
  BY <1>2 DEF IInv

LEMMA BatchPut ==
    ASSUME FilesOK, NEW b, BatchRecord(b), hdfs' = [hdfs EXCEPT !.batches = @ \union {b}],
           UNCHANGED <<now, kafka, local, purged, faults>>
    PROVE  FilesOK' /\ HdfsGrows /\ b \in hdfs'.batches /\ hdfs'.snapshots = hdfs.snapshots
<1>1. hdfs = [batches |-> hdfs.batches, snapshots |-> hdfs.snapshots]
  BY DEF FilesOK
<1>2. hdfs' = [batches |-> hdfs.batches \union {b}, snapshots |-> hdfs.snapshots]
  BY <1>1
<1>3. hdfs'.batches = hdfs.batches \union {b} /\ hdfs'.snapshots = hdfs.snapshots
  BY <1>2
<1>4. hdfs' = [batches |-> hdfs'.batches, snapshots |-> hdfs'.snapshots]
  BY <1>2, <1>3
<1> QED
  BY <1>3, <1>4 DEF FilesOK, local, HdfsGrows

LEMMA SnapshotPut ==
    ASSUME FilesOK, NEW s, Snap(s), hdfs' = [hdfs EXCEPT !.snapshots = @ \union {s}],
           UNCHANGED <<now, kafka, local, purged, faults>>
    PROVE  FilesOK' /\ HdfsGrows /\ s \in hdfs'.snapshots /\ hdfs'.batches = hdfs.batches
<1>1. hdfs = [batches |-> hdfs.batches, snapshots |-> hdfs.snapshots]
  BY DEF FilesOK
<1>2. hdfs' = [batches |-> hdfs.batches, snapshots |-> hdfs.snapshots \union {s}]
  BY <1>1
<1>3. hdfs'.snapshots = hdfs.snapshots \union {s} /\ hdfs'.batches = hdfs.batches
  BY <1>2
<1>4. hdfs' = [batches |-> hdfs'.batches, snapshots |-> hdfs'.snapshots]
  BY <1>2, <1>3
<1> QED
  BY <1>3, <1>4 DEF FilesOK, local, HdfsGrows

LEMMA PutBatchKept == ASSUME IInv, PutBatch PROVE IInv'
<1>1. /\ proc.pc = "batch" /\ hdfs' = [hdfs EXCEPT !.batches = @ \union {pending}]
      /\ proc' = [pc |-> "snapshot"] /\ UNCHANGED <<now, kafka, local, purged, faults>>
  BY DEF PutBatch
<1>2. pending # Absent /\ FilesOK /\ BatchRecord(pending)
  BY <1>1 DEF IInv, ProcRight, FilesOK
<1>3. FilesOK' /\ HdfsGrows /\ pending \in hdfs'.batches
  BY <1>1, <1>2, BatchPut
<1>4. proc'.pc = "snapshot" /\ pending' = pending
  BY <1>1 DEF local
<1>5. proc'.pc \in Pcs /\ ProcRight'
  BY <1>2, <1>3, <1>4 DEF Pcs, ProcRight
<1> QED
  BY <1>1, <1>3, <1>5, PutKept

LEMMA PutSnapshotKept == ASSUME IInv, PutSnapshot PROVE IInv'
<1>1. /\ proc.pc = "snapshot" /\ hdfs' = [hdfs EXCEPT !.snapshots = @ \union {Snapshot}]
      /\ proc' = [pc |-> "landed"] /\ UNCHANGED <<now, kafka, local, purged, faults>>
  BY DEF PutSnapshot
<1>2. pending # Absent /\ pending \in hdfs.batches /\ FilesOK
  BY <1>1 DEF IInv, ProcRight
<1>3. Snap(Snapshot)
  BY <1>2, SnapshotIsSnap
<1>4. FilesOK' /\ HdfsGrows /\ Snapshot \in hdfs'.snapshots /\ hdfs'.batches = hdfs.batches
  BY <1>1, <1>2, <1>3, SnapshotPut
<1>5. Snapshot' = Snapshot
  BY <1>1 DEF Snapshot, Checkpointed, local
<1>6. /\ proc'.pc = "landed" /\ pending' = pending
      /\ pending \in hdfs'.batches /\ Snapshot \in hdfs'.snapshots
  BY <1>1, <1>2, <1>4 DEF local
<1>7. proc'.pc \in Pcs /\ ProcRight'
  BY <1>2, <1>5, <1>6 DEF Pcs, ProcRight
<1> QED
  BY <1>1, <1>4, <1>7, PutKept

LEMMA WriteLandedKept == ASSUME IInv, WriteLanded PROVE IInv'
<1>1. /\ proc.pc = "landed" /\ landed' = Snapshot /\ proc' = [pc |-> "receipt"]
      /\ UNCHANGED <<now, kafka, folders, pending, state, receipts, journal, hdfs, purged, faults>>
  BY DEF WriteLanded
<1>2. pending # Absent /\ pending \in hdfs.batches /\ Snapshot \in hdfs.snapshots
  BY <1>1 DEF IInv, ProcRight
<1>3. Snap(Snapshot) /\ Snapshot # Absent
  BY <1>2, SnapshotIsSnap
<1>4. FilesOK'
  BY <1>1, <1>3 DEF IInv, FilesOK
<1>5. Grown' = Grown /\ (Continues(pending) => Continues(pending)') /\ (Stored(Grown) => Stored(Grown)')
  BY <1>1 DEF Grown, Window, Continues, Offsets, Stored
<1>6. PendingRight'
  <2>1. journal' = Absent
    BY <1>1, <1>2, PendingCases
  <2>2. CASE Checkpointed
    BY <1>1, <1>2, <2>1, <2>2, PendingCases DEF PendingRight, Checkpointed
  <2>3. CASE ~Checkpointed
    <3>1. Continues(pending) /\ Snapshot = Grown
      BY <1>2, <2>3, PendingCases
    <3>2. Window \subseteq hdfs.batches
      BY <1>1, <2>1 DEF IInv, HeadIsReadable, Window
    <3>3. Stored(Grown)
      BY <1>2, <3>1, <3>2 DEF Stored, Grown
    <3> QED
      BY <1>1, <1>2, <1>5, <2>1, <3>1, <3>3 DEF PendingRight
  <2> QED
    BY <2>2, <2>3
<1>7. JournalRight'
  BY <1>1, <1>2, PendingCases DEF JournalRight
<1>8. CommittedRight'
  <2>1. SUFFICES ASSUME NEW p \in P, kafka.committed[p] # None
                 PROVE  \E s \in {state, landed'} : s # Absent /\ kafka.committed[p] <= s.offsets[p]
    BY <1>1 DEF CommittedRight
  <2>2. PICK s \in {state, landed} : s # Absent /\ kafka.committed[p] <= s.offsets[p]
    BY <2>1 DEF IInv, CommittedRight
  <2>3. landed = state \/ landed' = landed
    BY <1>1, <1>2, PendingCases
  <2> QED
    BY <2>2, <2>3
<1>9. HdfsGrows
  BY <1>1 DEF HdfsGrows
<1>10. WindowRight' /\ HeadIsReadable'
  BY <1>1, <1>9, WindowStands, HeadStands DEF IInv
<1>11. proc'.pc = "receipt"
  BY <1>1
<1>12. proc'.pc \in Pcs /\ ProcRight'
  BY <1>1, <1>2, <1>3, <1>11 DEF Pcs, ProcRight
<1> QED
  BY <1>4, <1>6, <1>7, <1>8, <1>10, <1>12 DEF IInv

\* Only the receipts change.
LEMMA ReceiptsKept ==
    ASSUME IInv, \A s \in receipts' : Snap(s), proc'.pc \in Pcs, ProcRight',
           UNCHANGED <<now, kafka, folders, pending, landed, state, journal, hdfs, purged, faults>>
    PROVE  IInv'
<1>1. FilesOK'
  BY DEF IInv, FilesOK
<1>2. HdfsGrows
  BY DEF HdfsGrows
<1>3. WindowRight' /\ PendingRight' /\ JournalRight' /\ CommittedRight' /\ HeadIsReadable'
  BY <1>2, WindowStands, PendingStands, JournalStands, CommittedStands, HeadStands DEF IInv
<1> QED
  BY <1>1, <1>3 DEF IInv

LEMMA WriteReceiptKept == ASSUME IInv, WriteReceipt PROVE IInv'
<1>1. /\ proc.pc = "receipt" /\ receipts' = receipts \union {landed} /\ proc' = Idle
      /\ UNCHANGED <<now, kafka, folders, pending, landed, state, journal, hdfs, purged, faults>>
  BY DEF WriteReceipt, Stop
<1>2. \A s \in receipts' : Snap(s)
  BY <1>1 DEF IInv, ProcRight, FilesOK
<1>3. proc'.pc \in Pcs /\ ProcRight'
  BY <1>1, IdleRight
<1> QED
  BY <1>1, <1>2, <1>3, ReceiptsKept

-----------------------------------------------------------------------------
(* acknowledge *)

LEMMA BeginAckKept == ASSUME IInv, BeginAck PROVE IInv'
<1>1. /\ pending # Absent /\ landed # Absent /\ landed.head = pending
      /\ proc' = [pc |-> "commit"] /\ UNCHANGED <<now, kafka, local, hdfs, purged, faults>>
  BY DEF BeginAck
<1>2. proc'.pc = "commit" /\ pending' = pending /\ landed' = landed
  BY <1>1 DEF local
<1>3. proc'.pc \in Pcs /\ ProcRight'
  BY <1>1, <1>2 DEF Pcs, ProcRight
<1> QED
  BY <1>1, <1>3, Clock, ProcOnly

LEMMA LandedEnds ==
    ASSUME IInv, pending # Absent, landed # Absent, landed.head = pending
    PROVE  landed.offsets = pending.ends /\ pending.ends \in [P -> Nat]
BY DEF IInv, FilesOK, Snap, SnapshotRecord, BatchRecord

\* The group moves to the end of the batch, for all partitions or some.
LEMMA CommitKept ==
    ASSUME IInv, pending # Absent, landed # Absent, landed.head = pending, NEW done \in SUBSET P,
           kafka' = [kafka EXCEPT !.committed = [p \in P |-> IF p \in done THEN pending.ends[p] ELSE @[p]]],
           UNCHANGED <<now, local, hdfs, purged>>, faults' \in Nat, proc'.pc \in Pcs, ProcRight'
    PROVE  IInv'
<1>1. UNCHANGED <<now, folders, pending, landed, state, receipts, journal, hdfs, purged>> /\ HdfsGrows
  BY DEF local, HdfsGrows
<1> DEFINE c == [p \in P |-> IF p \in done THEN pending.ends[p] ELSE kafka.committed[p]]
<1>2. landed.offsets = pending.ends /\ pending.ends \in [P -> Nat]
  BY LandedEnds
<1>3. kafka \in [id : Nat, at : [P -> Seq(Nat)], earliest : [P -> Nat], committed : [P -> Nat \union {None}]]
  BY DEF IInv, FilesOK
<1>4. c \in [P -> Nat \union {None}]
  BY <1>2, <1>3
<1>5. kafka' = [kafka EXCEPT !.committed = c]
  OBVIOUS
<1>6. \A p \in P : c[p] \in {pending.ends[p], kafka.committed[p]}
  OBVIOUS
<1> HIDE DEF c
<1>7. /\ kafka' \in [id : Nat, at : [P -> Seq(Nat)], earliest : [P -> Nat], committed : [P -> Nat \union {None}]]
      /\ kafka'.committed = c
  BY <1>3, <1>4, <1>5
<1>8. FilesOK'
  BY <1>1, <1>7 DEF IInv, FilesOK
<1>9. CommittedRight'
  <2>1. SUFFICES ASSUME NEW p \in P, c[p] # None
                 PROVE  \E s \in {state, landed} : s # Absent /\ c[p] <= s.offsets[p]
    BY <1>1, <1>7 DEF CommittedRight
  <2>2. CASE c[p] = pending.ends[p]
    <3>1. c[p] <= landed.offsets[p]
      BY <1>2, <2>2
    <3> QED
      BY <3>1
  <2>3. CASE c[p] = kafka.committed[p]
    BY <2>1, <2>3 DEF IInv, CommittedRight
  <2> QED
    BY <1>6, <2>2, <2>3
<1>10. WindowRight' /\ PendingRight' /\ JournalRight' /\ HeadIsReadable'
  BY <1>1, WindowStands, PendingStands, JournalStands, HeadStands DEF IInv
<1> QED
  BY <1>8, <1>9, <1>10 DEF IInv

LEMMA CommitAllKept == ASSUME IInv, Commit PROVE IInv'
<1>1. /\ proc.pc = "commit" /\ kafka' = [kafka EXCEPT !.committed = pending.ends]
      /\ proc' = [pc |-> "state"] /\ UNCHANGED <<now, local, hdfs, purged, faults>>
  BY DEF Commit
<1>2. pending # Absent /\ landed # Absent /\ landed.head = pending
  BY <1>1 DEF IInv, ProcRight
<1>3. pending.ends = [p \in P |-> IF p \in P THEN pending.ends[p] ELSE kafka.committed[p]]
  BY <1>2, LandedEnds
<1>4. kafka' = [kafka EXCEPT !.committed = [p \in P |-> IF p \in P THEN pending.ends[p] ELSE @[p]]]
  BY <1>1, <1>3
<1>5. proc'.pc = "state" /\ pending' = pending /\ landed' = landed
  BY <1>1 DEF local
<1>6. proc'.pc \in Pcs /\ ProcRight'
  BY <1>2, <1>5 DEF Pcs, ProcRight
<1>7. faults' \in Nat
  BY <1>1, Clock
<1>8. P \in SUBSET P
  OBVIOUS
<1> QED
  BY <1>1, <1>2, <1>4, <1>6, <1>7, <1>8, CommitKept

LEMMA PartialCommitKept == ASSUME IInv, PartialCommit PROVE IInv'
<1>1. PICK done \in SUBSET P :
         kafka' = [kafka EXCEPT !.committed = [p \in P |-> IF p \in done THEN pending.ends[p] ELSE @[p]]]
  BY DEF PartialCommit
<1>2. proc.pc = "commit" /\ proc' = Idle /\ faults' = faults + 1 /\ UNCHANGED <<now, local, hdfs, purged>>
  BY DEF PartialCommit, Stop
<1>3. pending # Absent /\ landed # Absent /\ landed.head = pending
  BY <1>2 DEF IInv, ProcRight
<1>4. proc'.pc \in Pcs /\ ProcRight' /\ faults' \in Nat
  BY <1>2, IdleRight, Clock
<1> QED
  BY <1>1, <1>2, <1>3, <1>4, CommitKept

\* The checkpoint takes the batch, or takes itself again.
LEMMA WriteStateKept == ASSUME IInv, WriteState PROVE IInv'
<1>1. /\ proc.pc = "state" /\ state' = landed /\ proc' = [pc |-> "unlink"]
      /\ UNCHANGED <<now, kafka, folders, pending, landed, receipts, journal, hdfs, purged, faults>>
  BY DEF WriteState
<1>2. pending # Absent /\ landed # Absent /\ landed.head = pending
  BY <1>1 DEF IInv, ProcRight
<1>3. journal = Absent /\ BatchRecord(pending) /\ FilesOK
  BY <1>2, PendingCases DEF IInv
<1>4. FilesOK'
  BY <1>1, <1>3 DEF FilesOK
<1>5. PendingRight' /\ JournalRight'
  BY <1>1, <1>2, <1>3 DEF PendingRight, JournalRight
<1>6. proc'.pc = "unlink"
  BY <1>1
<1>7. proc'.pc \in Pcs /\ ProcRight'
  BY <1>1, <1>2, <1>6 DEF Pcs, ProcRight
<1>8. CASE landed = state
  <2>1. state' = state /\ HdfsGrows
    BY <1>1, <1>8 DEF HdfsGrows
  <2>2. WindowRight' /\ CommittedRight' /\ HeadIsReadable'
    BY <1>1, <2>1, WindowStands, CommittedStands, HeadStands DEF IInv
  <2> QED
    BY <1>4, <1>5, <1>7, <2>2 DEF IInv
<1>9. CASE landed # state
  <2>1. Continues(pending) /\ landed = Grown /\ Stored(Grown)
    BY <1>2, <1>9, PendingCases
  <2>2. /\ Grown.offsets = pending.ends /\ Grown.batches = Window \union {pending}
        /\ Offsets \in [P -> Nat] /\ pending.starts = Offsets
    BY <1>3, <2>1, GrownFacts, OffsetsTyped DEF Continues
  <2>3. WindowRight'
    <3>1. Tiles(Window \union purged, Offsets)
      <4>1. CASE state = Absent
        <5>1. Window \union purged = {} /\ Offsets = [p \in P |-> 0]
          BY <4>1 DEF IInv, WindowRight, Window, Offsets
        <5>2. \A p \in P : Offsets[p] = 0
          BY <5>1
        <5> QED
          BY <2>2, <5>1, <5>2, TilesNone
      <4>2. CASE state # Absent
        BY <4>2 DEF IInv, WindowRight, Window, Offsets
      <4> QED
        BY <4>1, <4>2
    <3>2. \A c \in Window \union purged : BatchRecord(c)
      BY <1>3 DEF FilesOK, Window, Snap, SnapshotRecord
    <3>3. Tiles((Window \union purged) \union {pending}, pending.ends)
      BY <1>3, <2>2, <3>1, <3>2, TilesGrow
    <3>4. landed.batches \union purged = (Window \union purged) \union {pending} /\ landed.offsets = pending.ends
      BY <2>1, <2>2
    <3>5. Tiles(landed.batches \union purged, landed.offsets)
      BY <3>3, <3>4
    <3> QED
      BY <1>1, <1>2, <3>5 DEF WindowRight, Tiles
  <2>4. CommittedRight'
    <3>1. SUFFICES ASSUME NEW p \in P, kafka.committed[p] # None PROVE kafka.committed[p] <= landed.offsets[p]
      BY <1>1, <1>2 DEF CommittedRight
    <3>2. PICK s \in {state, landed} : s # Absent /\ kafka.committed[p] <= s.offsets[p]
      BY <3>1 DEF IInv, CommittedRight
    <3>3. CASE s = landed
      BY <3>2, <3>3
    <3>4. CASE s = state
      <4>1. s.offsets[p] = pending.starts[p] /\ landed.offsets[p] = pending.ends[p]
        BY <2>1, <2>2, <3>2, <3>4 DEF Offsets
      <4>2. pending.starts[p] \in Nat /\ pending.ends[p] \in Nat /\ pending.starts[p] <= pending.ends[p]
        BY <1>3 DEF BatchRecord
      <4>3. kafka.committed[p] \in Nat
        BY <1>3, <3>1 DEF FilesOK
      <4> QED
        BY <3>2, <4>1, <4>2, <4>3
    <3> QED
      BY <3>3, <3>4
  <2>5. HeadIsReadable'
    BY <1>1, <2>1 DEF HeadIsReadable, Stored
  <2> QED
    BY <1>4, <1>5, <1>7, <2>3, <2>4, <2>5 DEF IInv
<1> QED
  BY <1>8, <1>9

LEMMA UnlinkPendingKept == ASSUME IInv, UnlinkPending PROVE IInv'
<1>1. /\ proc.pc = "unlink" /\ pending' = Absent /\ proc' = Idle
      /\ UNCHANGED <<now, kafka, folders, landed, state, receipts, journal, hdfs, purged, faults>>
  BY DEF UnlinkPending, Stop
<1>2. pending # Absent /\ landed = state
  BY <1>1 DEF IInv, ProcRight
<1>3. journal = Absent
  BY <1>2, PendingCases
<1>4. FilesOK'
  BY <1>1 DEF IInv, FilesOK
<1>5. PendingRight' /\ JournalRight'
  BY <1>1, <1>2, <1>3 DEF PendingRight, JournalRight
<1>6. HdfsGrows
  BY <1>1 DEF HdfsGrows
<1>7. WindowRight' /\ CommittedRight' /\ HeadIsReadable'
  BY <1>1, <1>6, WindowStands, CommittedStands, HeadStands DEF IInv
<1>8. proc'.pc \in Pcs /\ ProcRight'
  BY <1>1, IdleRight
<1> QED
  BY <1>4, <1>5, <1>7, <1>8 DEF IInv

-----------------------------------------------------------------------------
(* expire *)

\* A frozen plan: the new window is the old one without what expires.
LEMMA PlanFacts ==
    ASSUME IInv, journal # Absent
    PROVE  /\ pending = Absent /\ Snap(journal.old) /\ Snap(journal.new)
           /\ journal.new.topic = journal.old.topic /\ journal.new.offsets = journal.old.offsets
           /\ journal.new.batches = journal.old.batches \ journal.expired
           /\ journal.expired # {} /\ journal.expired \subseteq journal.old.batches
           /\ journal.new # journal.old /\ ~Refers(journal.new, journal.expired)
           /\ journal.new # Absent /\ journal.old # Absent
           /\ journal.new.batches \subseteq hdfs.batches
<1>1. /\ pending = Absent /\ Snap(journal.old)
      /\ journal.expired # {} /\ journal.expired \subseteq journal.old.batches
      /\ journal.new.batches \subseteq hdfs.batches
      /\ journal.new = [topic |-> journal.old.topic, offsets |-> journal.old.offsets, head |-> journal.old.head,
                        batches |-> journal.old.batches \ journal.expired]
  BY DEF IInv, JournalRight
<1>2. PICK new : new = journal.new
  OBVIOUS
<1>3. PICK old : old = journal.old
  OBVIOUS
<1>4. PICK B : B = journal.old.batches \ journal.expired
  OBVIOUS
<1>5. /\ Snap(old) /\ old.topic \in Nat /\ old.offsets \in [P -> Nat] /\ BatchRecord(old.head)
      /\ old.head.ends = old.offsets /\ old.head.topic = old.topic /\ \A b \in B : BatchRecord(b)
  BY <1>1, <1>3, <1>4 DEF Snap, SnapshotRecord
<1>6. new = [topic |-> old.topic, offsets |-> old.offsets, head |-> old.head, batches |-> B]
  BY <1>1, <1>2, <1>3, <1>4
<1>7. Snap(new) /\ new.topic = old.topic /\ new.offsets = old.offsets /\ new.batches = B
  BY <1>5, <1>6, SnapMade
<1>8. new # old /\ ~Refers(new, journal.expired)
  BY <1>1, <1>3, <1>4, <1>7 DEF Refers
<1>9. new # Absent /\ old # Absent
  BY <1>5, <1>7, SnapIsThere
<1> QED
  BY <1>1, <1>2, <1>3, <1>4, <1>5, <1>7, <1>8, <1>9

LEMMA BeginExpireKept == ASSUME IInv, BeginExpire PROVE IInv'
<1>1. /\ state # Absent /\ pending = Absent /\ UNCHANGED <<now, kafka, local, hdfs, purged, faults>>
      /\ \/ journal # Absent /\ state = journal.new /\ proc' = [pc |-> "landed2"]
         \/ journal = Absent /\ Expired # {} /\ proc' = [pc |-> "journal"]
         \/ journal # Absent /\ state = journal.old /\ proc' = [pc |-> "replacement"]
  BY DEF BeginExpire
<1>2. UNCHANGED <<now, pending, journal, state>> /\ Expired' = Expired
  BY <1>1 DEF local, Expired, Lapsed
<1>3. /\ proc'.pc \in {"landed2", "journal", "replacement"}
      /\ proc'.pc = "landed2" => journal # Absent /\ state = journal.new
      /\ proc'.pc = "journal" => journal = Absent /\ Expired # {}
      /\ proc'.pc = "replacement" => journal # Absent /\ state = journal.old
  BY <1>1
<1>4. proc'.pc \in Pcs /\ ProcRight'
  BY <1>1, <1>2, <1>3 DEF Pcs, ProcRight
<1> QED
  BY <1>1, <1>4, Clock, ProcOnly

LEMMA PlanIsThere ==
    ASSUME NEW e, NEW o, NEW n, NEW j, j = [expired |-> e, old |-> o, new |-> n]
    PROVE  j # Absent /\ j.expired = e /\ j.old = o /\ j.new = n
<1>1. DOMAIN j = {"expired", "old", "new"} /\ DOMAIN Absent = {"absent"}
  BY DEF Absent
<1> QED
  BY <1>1

\* The plan is frozen while the window can be read.
LEMMA WriteJournalKept == ASSUME IInv, WriteJournal PROVE IInv'
<1>1. /\ proc.pc = "journal" /\ proc' = [pc |-> "replacement"]
      /\ journal' = [expired |-> Expired, old |-> state, new |-> [state EXCEPT !.batches = @ \ Expired]]
      /\ UNCHANGED <<now, kafka, folders, pending, landed, state, receipts, hdfs, purged, faults>>
  BY DEF WriteJournal
<1>2. /\ pending = Absent /\ journal = Absent /\ state # Absent /\ Expired # {}
      /\ landed = state /\ state \in hdfs.snapshots /\ state.batches \subseteq hdfs.batches /\ Snap(state)
  BY <1>1 DEF IInv, ProcRight, PendingRight, HeadIsReadable, FilesOK
<1>3. Expired \subseteq state.batches
  BY DEF Expired
<1>4. state = [topic |-> state.topic, offsets |-> state.offsets, head |-> state.head, batches |-> state.batches]
  BY <1>2 DEF Snap
<1>5. PICK new : new = [state EXCEPT !.batches = @ \ Expired]
  OBVIOUS
<1>6. new = [topic |-> state.topic, offsets |-> state.offsets, head |-> state.head, batches |-> state.batches \ Expired]
  BY <1>4, <1>5
<1>7. new.batches = state.batches \ Expired
  BY <1>6
<1>8. journal' = [expired |-> Expired, old |-> state, new |-> new]
  BY <1>1, <1>5
<1>9. journal' # Absent /\ journal'.expired = Expired /\ journal'.old = state /\ journal'.new = new
  BY <1>8, PlanIsThere
<1>10. JournalRight'
  BY <1>1, <1>2, <1>3, <1>6, <1>7, <1>9 DEF JournalRight
<1>11. FilesOK' /\ PendingRight' /\ HeadIsReadable'
  BY <1>1, <1>2, <1>9 DEF IInv, FilesOK, PendingRight, HeadIsReadable
<1>12. WindowRight' /\ CommittedRight'
  BY <1>1, WindowStands, CommittedStands DEF IInv
<1>13. proc'.pc = "replacement"
  BY <1>1
<1>14. proc'.pc \in Pcs /\ ProcRight'
  BY <1>1, <1>9, <1>13 DEF Pcs, ProcRight
<1> QED
  BY <1>10, <1>11, <1>12, <1>14 DEF IInv

\* What the deletions are about: never the replacement, and only what expired.
Purging ==
    /\ journal # Absent /\ state = journal.old
    /\ journal.new \in hdfs.snapshots /\ journal.new \notin proc.snapshots
    /\ proc.batches \subseteq journal.expired

LEMMA PurgeRight ==
    ASSUME NEW s, NEW b, NEW c, proc' = [pc |-> "purge", snapshots |-> s, batches |-> b, copies |-> c],
           (journal # Absent)', (state = journal.old)', (journal.new \in hdfs.snapshots)',
           journal'.new \notin s, b \subseteq journal'.expired
    PROVE  proc'.pc \in Pcs /\ ProcRight'
<1>1. proc'.pc = "purge" /\ proc'.snapshots = s /\ proc'.batches = b /\ proc'.copies = c
  OBVIOUS
<1>2. proc' = [pc |-> "purge", snapshots |-> proc'.snapshots, batches |-> proc'.batches, copies |-> proc'.copies]
  BY <1>1
<1> QED
  BY <1>1, <1>2 DEF Pcs, ProcRight

LEMMA PutReplacementKept == ASSUME IInv, PutReplacement PROVE IInv'
<1>1. /\ proc.pc = "replacement" /\ hdfs' = [hdfs EXCEPT !.snapshots = @ \union {journal.new}]
      /\ proc' = [pc |-> "purge", snapshots |-> {r \in receipts : Refers(r, journal.expired)} \union {state},
                  batches |-> journal.expired, copies |-> journal.expired]
      /\ UNCHANGED <<now, kafka, local, purged, faults>>
  BY DEF PutReplacement
<1>2. journal # Absent /\ state = journal.old /\ FilesOK
  BY <1>1 DEF IInv, ProcRight
<1>3. Snap(journal.new) /\ journal.new # journal.old /\ ~Refers(journal.new, journal.expired)
  BY <1>2, PlanFacts
<1>4. FilesOK' /\ HdfsGrows /\ journal.new \in hdfs'.snapshots
  BY <1>1, <1>2, <1>3, SnapshotPut
<1>5. UNCHANGED <<journal, state>>
  BY <1>1 DEF local
<1>6. PICK s : s = {r \in receipts : Refers(r, journal.expired)} \union {state}
  OBVIOUS
<1>7. journal.new \notin s
  BY <1>2, <1>3, <1>6
<1>8. proc' = [pc |-> "purge", snapshots |-> s, batches |-> journal.expired, copies |-> journal.expired]
  BY <1>1, <1>6
<1>9. proc'.pc \in Pcs /\ ProcRight'
  BY <1>2, <1>4, <1>5, <1>7, <1>8, PurgeRight
<1> QED
  BY <1>1, <1>4, <1>9, PutKept

\* A file leaves HDFS.
LEMMA PurgeKept ==
    ASSUME IInv, journal # Absent, NEW B, B \subseteq hdfs.batches, NEW S, S \subseteq hdfs.snapshots,
           hdfs' = [batches |-> B, snapshots |-> S],
           journal.new \in S, journal.new.batches \subseteq B,
           UNCHANGED <<now, kafka, local, purged, faults>>, proc'.pc \in Pcs, ProcRight'
    PROVE  IInv'
<1>1. UNCHANGED <<now, kafka, folders, pending, landed, state, receipts, journal, purged, faults>>
  BY DEF local
<1>2. hdfs'.batches = B /\ hdfs'.snapshots = S
  OBVIOUS
<1>3. hdfs' = [batches |-> hdfs'.batches, snapshots |-> hdfs'.snapshots]
  BY <1>2
<1>4. FilesOK'
  BY <1>1, <1>2, <1>3 DEF IInv, FilesOK
<1>5. pending = Absent
  BY PlanFacts
<1>6. PendingRight' /\ HeadIsReadable'
  BY <1>1, <1>5 DEF PendingRight, HeadIsReadable
<1>7. JournalRight'
  BY <1>1, <1>2 DEF IInv, JournalRight
<1>8. WindowRight' /\ CommittedRight'
  BY <1>1, WindowStands, CommittedStands DEF IInv
<1> QED
  BY <1>4, <1>6, <1>7, <1>8 DEF IInv

LEMMA PurgingNow ==
    ASSUME IInv, proc.pc = "purge"
    PROVE  /\ Purging /\ hdfs = [batches |-> hdfs.batches, snapshots |-> hdfs.snapshots]
           /\ proc = [pc |-> "purge", snapshots |-> proc.snapshots, batches |-> proc.batches, copies |-> proc.copies]
BY DEF IInv, ProcRight, Purging, FilesOK

LEMMA PurgeSnapshotKept == ASSUME IInv, PurgeSnapshot PROVE IInv'
<1>1. proc.pc = "purge" /\ UNCHANGED <<now, kafka, local, purged, faults>>
  BY DEF PurgeSnapshot
<1>2. PICK s \in proc.snapshots :
        /\ hdfs' = [hdfs EXCEPT !.snapshots = @ \ {s}]
        /\ proc' = [proc EXCEPT !.snapshots = @ \ {s}]
  BY DEF PurgeSnapshot
<1>3. /\ Purging /\ hdfs = [batches |-> hdfs.batches, snapshots |-> hdfs.snapshots]
      /\ proc = [pc |-> "purge", snapshots |-> proc.snapshots, batches |-> proc.batches, copies |-> proc.copies]
  BY <1>1, PurgingNow
<1>4. PICK S : S = hdfs.snapshots \ {s}
  OBVIOUS
<1>5. hdfs' = [batches |-> hdfs.batches, snapshots |-> S]
  BY <1>2, <1>3, <1>4
<1>6. PICK T : T = proc.snapshots \ {s}
  OBVIOUS
<1>7. proc' = [pc |-> "purge", snapshots |-> T, batches |-> proc.batches, copies |-> proc.copies]
  BY <1>2, <1>3, <1>6
<1>8. journal # Absent /\ journal.new \in S /\ journal.new \notin T /\ proc.batches \subseteq journal.expired
  BY <1>2, <1>3, <1>4, <1>6 DEF Purging
<1>9. UNCHANGED <<journal, state>> /\ hdfs'.snapshots = S /\ state = journal.old
  BY <1>1, <1>3, <1>5 DEF local, Purging
<1>10. proc'.pc \in Pcs /\ ProcRight'
  BY <1>7, <1>8, <1>9, PurgeRight
<1>11. S \subseteq hdfs.snapshots /\ journal.new.batches \subseteq hdfs.batches
  BY <1>4, <1>8, PlanFacts
<1> QED
  BY <1>1, <1>5, <1>8, <1>10, <1>11, PurgeKept

LEMMA PurgeBatchKept == ASSUME IInv, PurgeBatch PROVE IInv'
<1>1. proc.pc = "purge" /\ UNCHANGED <<now, kafka, local, purged, faults>>
  BY DEF PurgeBatch
<1>2. PICK b \in proc.batches :
        /\ hdfs' = [hdfs EXCEPT !.batches = @ \ {b}]
        /\ proc' = [proc EXCEPT !.batches = @ \ {b}]
  BY DEF PurgeBatch
<1>3. /\ Purging /\ hdfs = [batches |-> hdfs.batches, snapshots |-> hdfs.snapshots]
      /\ proc = [pc |-> "purge", snapshots |-> proc.snapshots, batches |-> proc.batches, copies |-> proc.copies]
  BY <1>1, PurgingNow
<1>4. PICK B : B = hdfs.batches \ {b}
  OBVIOUS
<1>5. hdfs' = [batches |-> B, snapshots |-> hdfs.snapshots]
  BY <1>2, <1>3, <1>4
<1>6. PICK T : T = proc.batches \ {b}
  OBVIOUS
<1>7. proc' = [pc |-> "purge", snapshots |-> proc.snapshots, batches |-> T, copies |-> proc.copies]
  BY <1>2, <1>3, <1>6
<1>8. /\ journal # Absent /\ journal.new \in hdfs.snapshots /\ journal.new \notin proc.snapshots
      /\ T \subseteq journal.expired /\ b \in journal.expired
  BY <1>2, <1>3, <1>6 DEF Purging
<1>9. UNCHANGED <<journal, state>> /\ hdfs'.snapshots = hdfs.snapshots /\ state = journal.old
  BY <1>1, <1>3, <1>5 DEF local, Purging
<1>10. proc'.pc \in Pcs /\ ProcRight'
  BY <1>7, <1>8, <1>9, PurgeRight
<1>11. B \subseteq hdfs.batches /\ journal.new.batches \subseteq B
  <2>1. journal.new.batches \subseteq hdfs.batches /\ journal.new.batches = journal.old.batches \ journal.expired
    BY <1>8, PlanFacts
  <2> QED
    BY <1>4, <1>8, <2>1
<1> QED
  BY <1>1, <1>5, <1>8, <1>10, <1>11, PurgeKept

LEMMA PurgeFolderKept == ASSUME IInv, PurgeFolder PROVE IInv'
<1>1. /\ proc.pc = "purge" /\ folders' = folders \ (proc.copies \ proc.batches)
      /\ proc' = [proc EXCEPT !.copies = proc.batches]
      /\ UNCHANGED <<now, kafka, pending, landed, state, receipts, journal, hdfs, purged, faults>>
  BY DEF PurgeFolder
<1>2. /\ Purging
      /\ proc = [pc |-> "purge", snapshots |-> proc.snapshots, batches |-> proc.batches, copies |-> proc.copies]
  BY <1>1, PurgingNow
<1>3. proc' = [pc |-> "purge", snapshots |-> proc.snapshots, batches |-> proc.batches, copies |-> proc.batches]
  BY <1>1, <1>2
<1>4. proc'.pc \in Pcs /\ ProcRight'
  BY <1>1, <1>2, <1>3, PurgeRight DEF Purging
<1>5. FilesOK'
  BY <1>1 DEF IInv, FilesOK
<1>6. HdfsGrows
  BY <1>1 DEF HdfsGrows
<1>7. WindowRight' /\ PendingRight' /\ JournalRight' /\ CommittedRight' /\ HeadIsReadable'
  BY <1>1, <1>6, WindowStands, PendingStands, JournalStands, CommittedStands, HeadStands DEF IInv
<1> QED
  BY <1>4, <1>5, <1>7 DEF IInv

\* The batches go from the window to the history: together they stay the same.
LEMMA ReplaceStateKept == ASSUME IInv, ReplaceState PROVE IInv'
<1>1. /\ proc.pc = "purge" /\ state' = journal.new /\ purged' = purged \union journal.expired
      /\ proc' = [pc |-> "landed2"]
      /\ UNCHANGED <<now, kafka, folders, pending, landed, receipts, journal, hdfs, faults>>
  BY DEF ReplaceState
<1>2. /\ journal # Absent /\ state = journal.old /\ journal.new \in hdfs.snapshots
  BY <1>1, PurgingNow DEF Purging
<1>3. /\ pending = Absent /\ Snap(journal.old) /\ Snap(journal.new)
      /\ journal.new.offsets = journal.old.offsets
      /\ journal.new.batches = journal.old.batches \ journal.expired
      /\ journal.expired \subseteq journal.old.batches
      /\ journal.new # journal.old /\ journal.new # Absent /\ journal.old # Absent
  BY <1>2, PlanFacts
<1>4. landed = state
  BY <1>2, <1>3 DEF IInv, JournalRight
<1>5. \A b \in journal.expired : BatchRecord(b)
  BY <1>3 DEF Snap, SnapshotRecord
<1>6. FilesOK'
  BY <1>1, <1>3, <1>5 DEF IInv, FilesOK
<1>7. WindowRight'
  <2>1. Tiles(state.batches \union purged, state.offsets)
    BY <1>2, <1>3 DEF IInv, WindowRight
  <2>2. journal.new.batches \union (purged \union journal.expired) = state.batches \union purged
    BY <1>2, <1>3
  <2>3. Tiles(journal.new.batches \union (purged \union journal.expired), journal.new.offsets)
    BY <1>2, <1>3, <2>1, <2>2
  <2> QED
    BY <1>1, <1>3, <2>3 DEF WindowRight, Tiles
<1>8. PendingRight' /\ HeadIsReadable'
  BY <1>1, <1>2, <1>3 DEF PendingRight, HeadIsReadable
<1>9. JournalRight'
  BY <1>1, <1>2, <1>4 DEF IInv, JournalRight
<1>10. CommittedRight'
  BY <1>1, <1>4 DEF IInv, CommittedRight
<1>11. proc'.pc = "landed2"
  BY <1>1
<1>12. proc'.pc \in Pcs /\ ProcRight'
  BY <1>1, <1>2, <1>11 DEF Pcs, ProcRight
<1> QED
  BY <1>6, <1>7, <1>8, <1>9, <1>10, <1>12 DEF IInv

LEMMA ReplaceLandedKept == ASSUME IInv, ReplaceLanded PROVE IInv'
<1>1. /\ proc.pc = "landed2" /\ landed' = state /\ proc' = [pc |-> "prune"]
      /\ UNCHANGED <<now, kafka, folders, pending, state, receipts, journal, hdfs, purged, faults>>
  BY DEF ReplaceLanded
<1>2. journal # Absent /\ state = journal.new
  BY <1>1 DEF IInv, ProcRight
<1>3. /\ pending = Absent /\ Snap(journal.new) /\ journal.new.offsets = journal.old.offsets
      /\ journal.new # journal.old /\ journal.new # Absent
  BY <1>2, PlanFacts
<1>4. landed \in {journal.old, journal.new} /\ journal.new \in hdfs.snapshots
  BY <1>2, <1>3 DEF IInv, JournalRight
<1>5. FilesOK'
  BY <1>1 DEF IInv, FilesOK
<1>6. PendingRight' /\ HeadIsReadable'
  BY <1>1, <1>2, <1>3 DEF PendingRight, HeadIsReadable
<1>7. JournalRight'
  BY <1>1, <1>2, <1>4 DEF IInv, JournalRight
<1>8. CommittedRight'
  <2>1. SUFFICES ASSUME NEW p \in P, kafka.committed[p] # None
                 PROVE  state # Absent /\ kafka.committed[p] <= state.offsets[p]
    BY <1>1 DEF CommittedRight
  <2>2. PICK s \in {state, landed} : s # Absent /\ kafka.committed[p] <= s.offsets[p]
    BY <2>1 DEF IInv, CommittedRight
  <2> QED
    BY <1>2, <1>3, <1>4, <2>2
<1>9. WindowRight'
  BY <1>1, WindowStands DEF IInv
<1>10. proc'.pc = "prune"
  BY <1>1
<1>11. proc'.pc \in Pcs /\ ProcRight'
  BY <1>1, <1>2, <1>10 DEF Pcs, ProcRight
<1> QED
  BY <1>5, <1>6, <1>7, <1>8, <1>9, <1>11 DEF IInv

LEMMA PruneReceiptKept == ASSUME IInv, PruneReceipt PROVE IInv'
<1>1. /\ proc.pc = "prune"
      /\ UNCHANGED <<now, kafka, folders, pending, landed, state, journal, hdfs, purged, proc, faults>>
  BY DEF PruneReceipt
<1>2. \A s \in receipts' : Snap(s)
  BY DEF PruneReceipt, IInv, FilesOK
<1>3. journal # Absent /\ state = journal.new /\ landed = state
  BY <1>1 DEF IInv, ProcRight
<1>4. proc'.pc \in Pcs /\ ProcRight'
  BY <1>1, <1>3 DEF Pcs, ProcRight
<1> QED
  BY <1>1, <1>2, <1>4, ReceiptsKept

LEMMA ReplaceReceiptKept == ASSUME IInv, ReplaceReceipt PROVE IInv'
<1>1. /\ proc.pc = "prune" /\ receipts' = receipts \union {state} /\ proc' = [pc |-> "finish"]
      /\ UNCHANGED <<now, kafka, folders, pending, landed, state, journal, hdfs, purged, faults>>
  BY DEF ReplaceReceipt
<1>2. journal # Absent /\ state = journal.new /\ landed = state
  BY <1>1 DEF IInv, ProcRight
<1>3. Snap(state)
  BY <1>2, PlanFacts
<1>4. \A s \in receipts' : Snap(s)
  BY <1>1, <1>3 DEF IInv, FilesOK
<1>5. proc'.pc = "finish"
  BY <1>1
<1>6. proc'.pc \in Pcs /\ ProcRight'
  BY <1>1, <1>2, <1>5 DEF Pcs, ProcRight
<1> QED
  BY <1>1, <1>4, <1>6, ReceiptsKept

\* What remains can be read.
LEMMA UnlinkJournalKept == ASSUME IInv, UnlinkJournal PROVE IInv'
<1>1. /\ proc.pc = "finish" /\ journal' = Absent /\ proc' = Idle
      /\ UNCHANGED <<now, kafka, folders, pending, landed, state, receipts, hdfs, purged, faults>>
  BY DEF UnlinkJournal, Stop
<1>2. journal # Absent /\ state = journal.new /\ landed = state
  BY <1>1 DEF IInv, ProcRight
<1>3. pending = Absent /\ journal.new # journal.old /\ journal.new.batches \subseteq hdfs.batches
  BY <1>2, PlanFacts
<1>4. journal.new \in hdfs.snapshots
  BY <1>2, <1>3 DEF IInv, JournalRight
<1>5. FilesOK'
  BY <1>1 DEF IInv, FilesOK
<1>6. PendingRight' /\ JournalRight' /\ HeadIsReadable'
  BY <1>1, <1>2, <1>3, <1>4 DEF PendingRight, JournalRight, HeadIsReadable
<1>7. WindowRight' /\ CommittedRight'
  BY <1>1, WindowStands, CommittedStands DEF IInv
<1>8. proc'.pc \in Pcs /\ ProcRight'
  BY <1>1, IdleRight
<1> QED
  BY <1>5, <1>6, <1>7, <1>8 DEF IInv

-----------------------------------------------------------------------------
(* Kafka, the clock and crashes *)

LEMMA ProcStands ==
    ASSUME proc.pc \in Pcs, ProcRight, UNCHANGED <<local, hdfs, proc>>, Expired # {} => Expired' # {}
    PROVE  proc'.pc \in Pcs /\ ProcRight'
<1>1. UNCHANGED <<pending, landed, state, journal, hdfs, proc>>
  BY DEF local
<1>2. Offsets' = Offsets /\ Snapshot' = Snapshot
  BY <1>1 DEF Offsets, Snapshot, Checkpointed
<1>3. CASE proc.pc \in {"folder", "pending"}
  <2>1. /\ pending = Absent /\ journal = Absent /\ Continues(proc.batch)
        /\ proc = [pc |-> proc.pc, batch |-> proc.batch]
    BY <1>3 DEF ProcRight
  <2>2. PICK b : b = proc.batch
    OBVIOUS
  <2>3. /\ BatchRecord(b) /\ b.starts = Offsets /\ b.ends # b.starts
        /\ state # Absent => b.topic = state.topic
    BY <2>1, <2>2 DEF Continues
  <2>4. proc'.batch = b /\ proc'.pc \in {"folder", "pending"} /\ proc' = [pc |-> proc'.pc, batch |-> proc'.batch]
    BY <1>1, <1>3, <2>1, <2>2
  <2>5. pending' = Absent /\ journal' = Absent /\ Continues(proc.batch)'
    BY <1>1, <1>2, <2>1, <2>3, <2>4 DEF Continues
  <2> QED
    BY <2>4, <2>5 DEF Pcs, ProcRight
<1>4. CASE proc.pc \notin {"folder", "pending"}
  <2>1. proc'.pc = proc.pc
    BY <1>1
  <2> QED
    BY <1>1, <1>2, <1>4, <2>1, ZenonT(60) DEF Pcs, ProcRight
<1> QED
  BY <1>3, <1>4

\* Whatever happens to the topic, the files keep their meaning.
LEMMA TopicKept ==
    ASSUME IInv, UNCHANGED <<now, local, hdfs, purged, proc>>, faults' \in Nat,
           kafka' \in [id : Nat, at : [P -> Seq(Nat)], earliest : [P -> Nat], committed : [P -> Nat \union {None}]],
           \A p \in P : kafka'.committed[p] # None => kafka'.committed[p] = kafka.committed[p]
    PROVE  IInv'
<1>1. UNCHANGED <<now, folders, pending, landed, state, receipts, journal, hdfs, purged>> /\ HdfsGrows
  BY DEF local, HdfsGrows
<1>2. FilesOK'
  BY <1>1 DEF IInv, FilesOK
<1>3. WindowRight' /\ PendingRight' /\ JournalRight' /\ HeadIsReadable'
  BY <1>1, WindowStands, PendingStands, JournalStands, HeadStands DEF IInv
<1>4. CommittedRight'
  <2>1. SUFFICES ASSUME NEW p \in P, kafka'.committed[p] # None
                 PROVE  \E s \in {state, landed} : s # Absent /\ kafka'.committed[p] <= s.offsets[p]
    BY <1>1 DEF CommittedRight
  <2>2. kafka'.committed[p] = kafka.committed[p] /\ kafka.committed[p] # None
    BY <2>1
  <2>3. PICK s \in {state, landed} : s # Absent /\ kafka.committed[p] <= s.offsets[p]
    BY <2>2 DEF IInv, CommittedRight
  <2> QED
    BY <2>2, <2>3
<1>5. Expired' = Expired
  BY <1>1 DEF Expired, Lapsed
<1>6. proc'.pc \in Pcs /\ ProcRight'
  BY <1>5, ProcStands DEF IInv
<1> QED
  BY <1>2, <1>3, <1>4, <1>6 DEF IInv

LEMMA KafkaTyped ==
    ASSUME IInv
    PROVE  kafka \in [id : Nat, at : [P -> Seq(Nat)], earliest : [P -> Nat], committed : [P -> Nat \union {None}]]
BY DEF IInv, FilesOK

LEMMA ProduceKept == ASSUME IInv, Produce PROVE IInv'
<1>1. UNCHANGED <<now, local, hdfs, purged, proc, faults>> /\ faults' \in Nat /\ now \in Nat
  BY Clock DEF Produce
<1>2. PICK p \in P : kafka' = [kafka EXCEPT !.at[p] = Append(@, now)]
  BY DEF Produce
<1>3. kafka \in [id : Nat, at : [P -> Seq(Nat)], earliest : [P -> Nat], committed : [P -> Nat \union {None}]]
  BY KafkaTyped
<1>4. PICK q : q = Append(kafka.at[p], now)
  OBVIOUS
<1>5. q \in Seq(Nat)
  BY <1>1, <1>3, <1>4
<1>6. kafka' = [kafka EXCEPT !.at[p] = q]
  BY <1>2, <1>4
<1>7. /\ kafka' \in [id : Nat, at : [P -> Seq(Nat)], earliest : [P -> Nat], committed : [P -> Nat \union {None}]]
      /\ kafka'.committed = kafka.committed
  BY <1>3, <1>5, <1>6
<1> QED
  BY <1>1, <1>7, TopicKept

LEMMA TruncateKept == ASSUME IInv, Truncate PROVE IInv'
<1>1. UNCHANGED <<now, local, hdfs, purged, proc>> /\ faults' \in Nat
  BY Clock DEF Truncate
<1>2. PICK p \in P : kafka' = [kafka EXCEPT !.earliest[p] = @ + 1]
  BY DEF Truncate
<1>3. kafka \in [id : Nat, at : [P -> Seq(Nat)], earliest : [P -> Nat], committed : [P -> Nat \union {None}]]
  BY KafkaTyped
<1>4. PICK e : e = [kafka.earliest EXCEPT ![p] = @ + 1]
  OBVIOUS
<1>5. kafka' = [kafka EXCEPT !.earliest = e] /\ e \in [P -> Nat]
  BY <1>2, <1>3, <1>4
<1>6. /\ kafka' \in [id : Nat, at : [P -> Seq(Nat)], earliest : [P -> Nat], committed : [P -> Nat \union {None}]]
      /\ kafka'.committed = kafka.committed
  BY <1>3, <1>5
<1> QED
  BY <1>1, <1>6, TopicKept

LEMMA EmptyTopic ==
    ASSUME NEW id \in Nat
    PROVE  /\ NewTopic(id) \in [id : Nat, at : [P -> Seq(Nat)], earliest : [P -> Nat], committed : [P -> Nat \union {None}]]
           /\ \A p \in P : NewTopic(id).committed[p] = None
BY DEF NewTopic

LEMMA RecreateKept == ASSUME IInv, Recreate PROVE IInv'
<1>1. /\ UNCHANGED <<now, local, hdfs, purged, proc, faults>> /\ faults' \in Nat
      /\ kafka' = NewTopic(kafka.id + 1)
  BY Clock DEF Recreate
<1>2. kafka.id + 1 \in Nat
  BY KafkaTyped
<1>3. /\ kafka' \in [id : Nat, at : [P -> Seq(Nat)], earliest : [P -> Nat], committed : [P -> Nat \union {None}]]
      /\ \A p \in P : kafka'.committed[p] = None
  BY <1>1, <1>2, EmptyTopic
<1> QED
  BY <1>1, <1>3, TopicKept

LEMMA TickKept == ASSUME IInv, Tick PROVE IInv'
<1>1. now' = now + 1 /\ UNCHANGED <<kafka, local, hdfs, purged, proc, faults>> /\ now \in Nat /\ faults \in Nat
  BY Clock DEF Tick
<1>2. ASSUME NEW b \in Expired PROVE b \in Expired'
  <2>1. state # Absent /\ b \in state.batches /\ Lapsed(b) /\ state' = state
    BY <1>1, <1>2 DEF Expired, local
  <2>2. b.at \in Nat /\ RawTTL \in Nat
    BY <2>1, LandingAssumption DEF IInv, FilesOK, Snap, SnapshotRecord, BatchRecord
  <2>3. b.at + RawTTL <= now + 1
    BY <1>1, <2>1, <2>2 DEF Lapsed
  <2> QED
    BY <1>1, <2>1, <2>3 DEF Expired, Lapsed
<1>3. proc'.pc \in Pcs /\ ProcRight'
  BY <1>1, <1>2, ProcStands DEF IInv
<1> QED
  BY <1>1, <1>3, ProcOnly

LEMMA FailKept == ASSUME IInv, Fail PROVE IInv'
<1>1. Stop /\ faults' = faults + 1 /\ UNCHANGED <<now, kafka, local, hdfs, purged>> /\ faults \in Nat
  BY Clock DEF Fail
<1> QED
  BY <1>1, StopKept

LEMMA StutterKept == ASSUME IInv, UNCHANGED vars PROVE IInv'
<1>1. UNCHANGED <<now, kafka, local, hdfs, purged, proc, faults>>
  BY DEF vars
<1>2. Expired' = Expired
  BY <1>1 DEF Expired, Lapsed, local
<1>3. proc'.pc \in Pcs /\ ProcRight'
  BY <1>1, <1>2, ProcStands DEF IInv
<1> QED
  BY <1>1, <1>3, Clock, ProcOnly

-----------------------------------------------------------------------------
(* The invariant and the theorems. *)

LEMMA Start == ASSUME Init PROVE IInv
<1>1. /\ now = 0 /\ faults = 0 /\ kafka = NewTopic(1)
      /\ folders = {} /\ pending = Absent /\ landed = Absent /\ state = Absent
      /\ receipts = {} /\ journal = Absent /\ purged = {} /\ proc = Idle
      /\ hdfs = [batches |-> {}, snapshots |-> {}]
  BY DEF Init
<1>2. hdfs.batches = {} /\ hdfs.snapshots = {}
  BY <1>1
<1>3. /\ kafka \in [id : Nat, at : [P -> Seq(Nat)], earliest : [P -> Nat], committed : [P -> Nat \union {None}]]
      /\ \A p \in P : kafka.committed[p] = None
  BY <1>1, EmptyTopic
<1>4. FilesOK
  BY <1>1, <1>2, <1>3 DEF FilesOK
<1>5. WindowRight /\ PendingRight /\ JournalRight /\ HeadIsReadable
  BY <1>1 DEF WindowRight, PendingRight, JournalRight, HeadIsReadable
<1>6. CommittedRight
  BY <1>3 DEF CommittedRight
<1>7. proc.pc \in Pcs /\ ProcRight
  BY <1>1 DEF Idle, Pcs, ProcRight
<1> QED
  BY <1>4, <1>5, <1>6, <1>7 DEF IInv

LEMMA Inductive == ASSUME IInv, [Next]_vars PROVE IInv'
<1>1. CASE Capture
  BY <1>1, BeginCaptureKept, ReadBoundsKept, ReadRecordsKept, WriteFolderKept, WritePendingKept DEF Capture
<1>2. CASE Land
  BY <1>2, BeginLandKept, PutBatchKept, PutSnapshotKept, WriteLandedKept, WriteReceiptKept DEF Land
<1>3. CASE Acknowledge
  BY <1>3, BeginAckKept, CommitAllKept, WriteStateKept, UnlinkPendingKept DEF Acknowledge
<1>4. CASE PartialCommit
  BY <1>4, PartialCommitKept
<1>5. CASE Expire
  BY <1>5, BeginExpireKept, WriteJournalKept, PutReplacementKept, PurgeSnapshotKept, PurgeBatchKept,
     PurgeFolderKept, ReplaceStateKept, ReplaceLandedKept, PruneReceiptKept, ReplaceReceiptKept,
     UnlinkJournalKept DEF Expire
<1>6. CASE Outside
  BY <1>6, ProduceKept, TruncateKept, RecreateKept, TickKept DEF Outside
<1>7. CASE Fail
  BY <1>7, FailKept
<1>8. CASE UNCHANGED vars
  BY <1>8, StutterKept
<1> QED
  BY <1>1, <1>2, <1>3, <1>4, <1>5, <1>6, <1>7, <1>8 DEF Next

LEMMA Invariance == Spec => []IInv
<1>1. Init => IInv
  BY Start
<1>2. IInv /\ [Next]_vars => IInv'
  BY Inductive
<1> QED
  BY <1>1, <1>2, PTL DEF Spec

\* The group holds the end of a snapshot that is there: of the checkpoint, of
\* what was landed after it, or of the replacement with the same offsets.
LEMMA CommittedStored == ASSUME IInv PROVE CommittedIsStored
<1>1. SUFFICES ASSUME NEW p \in P, kafka.committed[p] # None
               PROVE  \E s \in hdfs.snapshots : kafka.committed[p] <= s.offsets[p]
  BY DEF CommittedIsStored
<1>2. PICK s \in {state, landed} : s # Absent /\ kafka.committed[p] <= s.offsets[p]
  BY <1>1 DEF IInv, CommittedRight
<1>3. CASE journal # Absent
  <2>1. journal.new.offsets = journal.old.offsets
    BY <1>3, PlanFacts
  <2>2. /\ s \in {journal.old, journal.new}
        /\ journal.old \in hdfs.snapshots \/ journal.new \in hdfs.snapshots
    BY <1>2, <1>3 DEF IInv, JournalRight
  <2> QED
    BY <1>2, <2>1, <2>2
<1>4. CASE journal = Absent
  <2>1. state # Absent => state \in hdfs.snapshots
    BY <1>4 DEF IInv, HeadIsReadable
  <2>2. landed = state \/ (landed = Grown /\ Stored(Grown))
    <3>1. CASE pending = Absent
      BY <1>4, <3>1 DEF IInv, PendingRight
    <3>2. CASE pending # Absent
      BY <3>2, PendingCases
    <3> QED
      BY <3>1, <3>2
  <2> QED
    BY <1>2, <2>1, <2>2 DEF Stored
<1> QED
  BY <1>3, <1>4

LEMMA Sound == ASSUME IInv PROVE WindowSound
<1>1. FilesOK
  BY DEF IInv
<1>2. journal # Absent => SnapshotRecord(journal.old) /\ SnapshotRecord(journal.new)
  BY PlanFacts DEF Snap
<1>3. TypeOK
  BY <1>1, <1>2 DEF TypeOK, FilesOK, Snap
<1>4. EachOffsetOnce
  <2>1. SUFFICES ASSUME state # Absent, NEW p \in P, NEW o \in 0 .. state.offsets[p] - 1
                 PROVE  Cardinality({b \in state.batches \union purged : o \in b.starts[p] .. b.ends[p] - 1}) = 1
    BY DEF EachOffsetOnce
  <2>2. Tiles(state.batches \union purged, state.offsets)
    BY <2>1 DEF IInv, WindowRight
  <2> QED
    BY <2>1, <2>2, TilesCount
<1>5. CommittedIsStored /\ HeadIsReadable
  BY CommittedStored DEF IInv
<1> QED
  BY <1>3, <1>4, <1>5 DEF WindowSound

\* WindowSound: across every interleaving of capture, landing,
\* acknowledgement and expiry with crashes, partial commits, truncation and a
\* new topic, every offset below the checkpoint is in exactly one batch, the
\* consumer group is never ahead of a snapshot in HDFS, and the checkpoint can
\* be read (landing.py, real_ods.expire_window).
THEOREM WindowIsSound == Spec => []WindowSound
<1>1. IInv => WindowSound
  BY Sound
<1> QED
  BY <1>1, Invariance, PTL

-----------------------------------------------------------------------------
(* The checkpoint. *)

Advances ==
    state # Absent =>
        /\ state'.topic = state.topic
        /\ \A p \in P : state'.offsets[p] >= state.offsets[p]

LEMMA Same ==
    ASSUME IInv, NEW s, s.topic = state.topic, s.offsets = state.offsets, state' = s
    PROVE  Advances
<1>1. SUFFICES ASSUME state # Absent, NEW p \in P PROVE s.offsets[p] >= state.offsets[p]
  BY DEF Advances
<1>2. state.offsets[p] \in Nat
  BY <1>1 DEF IInv, FilesOK, Snap, SnapshotRecord
<1> QED
  BY <1>2

LEMMA WriteStateAdvances == ASSUME IInv, WriteState PROVE Advances
<1>1. state' = landed /\ pending # Absent /\ landed # Absent /\ landed.head = pending
  BY DEF WriteState, IInv, ProcRight
<1>2. CASE landed = state
  BY <1>1, <1>2, Same
<1>3. CASE landed # state
  <2>1. Continues(pending) /\ landed = Grown /\ BatchRecord(pending) /\ FilesOK
    BY <1>1, <1>3, PendingCases DEF IInv
  <2>2. landed.offsets = pending.ends /\ landed.topic = pending.topic
    BY <2>1, GrownFacts
  <2>3. SUFFICES ASSUME state # Absent
                 PROVE  /\ landed.topic = state.topic
                        /\ \A p \in P : landed.offsets[p] >= state.offsets[p]
    BY <1>1 DEF Advances
  <2>4. pending.topic = state.topic /\ pending.starts = state.offsets
    BY <2>1, <2>3 DEF Continues, Offsets
  <2>5. \A p \in P : pending.ends[p] \in Nat /\ pending.starts[p] \in Nat /\ pending.starts[p] <= pending.ends[p]
    BY <2>1 DEF BatchRecord
  <2>6. \A p \in P : pending.ends[p] >= pending.starts[p]
    BY <2>5
  <2> QED
    BY <2>2, <2>4, <2>6
<1> QED
  BY <1>2, <1>3

LEMMA ReplaceStateAdvances == ASSUME IInv, ReplaceState PROVE Advances
<1>1. state' = journal.new /\ journal # Absent /\ state = journal.old
  BY PurgingNow DEF ReplaceState, Purging
<1>2. journal.new.topic = state.topic /\ journal.new.offsets = state.offsets
  BY <1>1, PlanFacts
<1> QED
  BY <1>1, <1>2, Same

LEMMA Moves == ASSUME [Next]_vars PROVE WriteState \/ ReplaceState \/ state' = state
BY DEF Next, Capture, BeginCapture, ReadBounds, ReadRecords, WriteFolder, WritePending,
       Land, BeginLand, PutBatch, PutSnapshot, WriteLanded, WriteReceipt,
       Acknowledge, BeginAck, Commit, UnlinkPending, PartialCommit,
       Expire, BeginExpire, WriteJournal, PutReplacement, PurgeSnapshot, PurgeBatch, PurgeFolder,
       ReplaceLanded, PruneReceipt, ReplaceReceipt, UnlinkJournal,
       Outside, Produce, Truncate, Recreate, Tick, Fail, vars, local

\* CheckpointAdvances: no replay, repeated acknowledgement or resumed expiry
\* writes a state.json with smaller offsets or of another topic
\* (landing.acknowledge, real_ods.expire_window).
THEOREM CheckpointHolds == Spec => CheckpointAdvances
<1>1. ASSUME IInv, [Next]_vars PROVE Advances
  <2>1. CASE WriteState
    BY <1>1, <2>1, WriteStateAdvances
  <2>2. CASE ReplaceState
    BY <1>1, <2>2, ReplaceStateAdvances
  <2>3. CASE state' = state
    BY <1>1, <2>3, Same
  <2> QED
    BY <1>1, <2>1, <2>2, <2>3, Moves
<1>2. IInv /\ [Next]_vars =>
        [state # Absent =>
           /\ state'.topic = state.topic
           /\ \A p \in P : state'.offsets[p] >= state.offsets[p]]_vars
  BY <1>1 DEF Advances
<1> QED
  BY <1>2, Invariance, PTL DEF Spec, CheckpointAdvances
=============================================================================
