-------------------------- MODULE LaboratoryProofs --------------------------
(***************************************************************************)
(* Proofs about the programs of Laboratory, which share no state: the      *)
(* writer of an epoch, the archive of releases, an attempt at an offline   *)
(* phase, and an attempt to write the tables of the lake.                  *)
(***************************************************************************)
EXTENDS Laboratory, SequencesExt, FiniteSetTheorems, SequenceTheorems, TLAPS

-----------------------------------------------------------------------------
(* The writer of an epoch.  Its invariant speaks of the last job: Flink may *)
(* know it before any receipt does, so it is bound by a quantifier and not  *)
(* by what the ledger says; while an operation runs, the two may differ.    *)

\* The values of the variables.
Checkpoints == [id : Nat, pos : Nat]
JobStates == {"unused", "starting", "running", "canceling", "canceled", "failed", "lost"}
Kinds == {"pause_requested", "paused", "resume_requested", "resume_acknowledged", "resumed"}
Records == [action : Kinds, job : Wr!Jobs, checkpoint : Checkpoints]
Alone == {"submit", "acknowledge", "record"}
Locked == {"look", "cancel", "wait", "stop", "restore", "acknowledged", "await"}
Positions == [pc : {"idle", "ddl", "register"} \union Alone \union Locked,
              job : Wr!Jobs \union {None}, candidate : Checkpoints]

WriterTypes ==
    /\ expired \in BOOLEAN /\ up \in BOOLEAN /\ torn \in BOOLEAN
    /\ setup \in [marker : BOOLEAN, ddl : BOOLEAN, intent : BOOLEAN, registered : BOOLEAN,
                   completed : BOOLEAN]
    /\ submission \in {"none", "submitting", "acknowledged"}
    /\ first \in Wr!Jobs \union {None} /\ listed \in SUBSET Wr!Jobs
    /\ job \in [Wr!Jobs -> [state : JobStates, from : Nat, read : Nat, latest : Checkpoints]]
    /\ topic \in 0..MaxRows /\ sink \in Nat
    /\ ledger \in Seq(Records)
    /\ lock \in {None, "operator", "sync"} /\ faults \in 0..WriterFaults
    /\ op \in Positions

\* The position from which a job would go on.
Covered(j) == IF job[j].latest = Wr!NoCheckpoint THEN job[j].from ELSE job[j].latest.pos

\* Jobs are numbered as they are submitted; what a job covers it has read, and what it has
\* read is in the topic.
JobsRight(k) ==
    \A j \in Wr!Jobs :
        /\ job[j].state = "unused" <=> j > k
        /\ job[j].from <= Covered(j) /\ Covered(j) <= job[j].read /\ job[j].read <= topic

\* Only the last job writes, it is listed, and nothing is visible that it does not cover.
LastWrites(k) ==
    /\ Wr!Active \subseteq {k} /\ Wr!Active \subseteq listed
    /\ IF k = 0 THEN sink = 0 ELSE sink <= Covered(k)

\* current_job is k.
CurrentIs(k) ==
    IF Wr!Acts("resumed") = {} THEN first = k
    ELSE \E i \in Wr!Acts("resumed") : (\A n \in Wr!Acts("resumed") : n <= i) /\ ledger[i].job = k

\* What follows where the ledger stands.
After(s) == CASE s = "resumed" -> "pause_requested" [] s = "pause_requested" -> "paused"
              [] s = "paused" -> "resume_requested" [] s = "resume_requested" -> "resume_acknowledged"
              [] s = "resume_acknowledged" -> "resumed"

Turn == <<"pause_requested", "paused", "resume_requested", "resume_acknowledged", "resumed">>
Round(s) == \A i \in DOMAIN s : s[i].action = Turn[((i - 1) % 5) + 1]

\* The ledger goes round; where it stands, the last job is the one it speaks of.
LedgerRight(k) ==
    /\ Round(ledger)
    /\ submission = "none" => k = 0
    /\ first = None => ledger = << >>
    /\ first # None => k > 0
    /\ Wr!State \in {"resumed", "pause_requested"} /\ first # None => CurrentIs(k)
    /\ Wr!State = "paused" =>
         /\ Wr!Active = {} /\ Wr!Last(ledger).job = k
         /\ Wr!Last(ledger).checkpoint = job[k].latest /\ job[k].latest # Wr!NoCheckpoint

\* What an operation knows at its place.
OpRight(k) ==
    /\ op.pc = "submit" => k = 0 /\ first = None
    /\ op.pc \in {"acknowledge", "record"} => op.job = k /\ k > 0 /\ first = None
    /\ op.pc \in Alone => submission # "none"
    /\ op.pc \in Locked => lock = "operator" /\ first # None
    /\ op.pc \in {"look", "cancel", "wait"} => op.job = k /\ Wr!State = "pause_requested"
    /\ op.pc \in {"cancel", "wait"} => job[k].latest # Wr!NoCheckpoint
    /\ op.pc = "restore" =>
         Wr!Active = {} /\ sink <= op.candidate.pos /\ op.candidate.pos <= topic /\ Wr!State = "resume_requested"
    /\ op.pc = "acknowledged" => op.job = k /\ Wr!State = "resume_requested"
    /\ op.pc = "await" => op.job = k /\ Wr!State = "resume_acknowledged"

\* The invariant: k is the last job that was submitted.
WriterAt(k) == JobsRight(k) /\ LastWrites(k) /\ LedgerRight(k) /\ OpRight(k)
WriterInv == WriterTypes /\ \E k \in 0..MaxJobs : WriterAt(k)
-----------------------------------------------------------------------------

\* The number that Flink gives to the next submission is the successor of the last.
LEMMA NewJobIs ==
    ASSUME Wr!WriterAssumption, WriterTypes, NEW k \in 0..MaxJobs, JobsRight(k)
    PROVE  Wr!NewJob = k + 1 /\ (Wr!Unsubmitted # {} => k + 1 \in Wr!Jobs)
<1>1. Wr!Jobs \ Wr!Unsubmitted = 1..k
    BY DEF JobsRight, Wr!Unsubmitted, Wr!Jobs, Wr!WriterAssumption
<1>2. Cardinality(1..k) = k
    BY FS_Interval
<1>3. ASSUME NEW j \in Wr!Unsubmitted PROVE k + 1 \in Wr!Jobs
    BY <1>3 DEF JobsRight, Wr!Unsubmitted, Wr!Jobs, Wr!WriterAssumption
<1>. QED  BY <1>1, <1>2, <1>3 DEF Wr!NewJob, Wr!Cardinality, Cardinality

\* What current_job reads off the ledger.
LEMMA CurrentJobIs ==
    ASSUME WriterTypes, NEW k, CurrentIs(k)
    PROVE  Wr!CurrentJob = k
<1>1. CASE Wr!Acts("resumed") = {}
    BY <1>1 DEF Wr!CurrentJob, CurrentIs
<1>2. CASE Wr!Acts("resumed") # {}
    <2>1. PICK i \in Wr!Acts("resumed") : (\A n \in Wr!Acts("resumed") : n <= i) /\ ledger[i].job = k
        BY <1>2 DEF CurrentIs
    <2>2. Wr!Acts("resumed") \subseteq Nat
        BY LenProperties DEF Wr!Acts, WriterTypes
    <2>3. \A n \in Wr!Acts("resumed") : (\A m \in Wr!Acts("resumed") : m <= n) => n = i
        BY <2>1, <2>2
    <2>4. (CHOOSE n \in Wr!Acts("resumed") : \A m \in Wr!Acts("resumed") : m <= n) = i
        BY <2>1, <2>3
    <2>. QED  BY <1>2, <2>1, <2>4 DEF Wr!CurrentJob
<1>. QED  BY <1>1, <1>2

\* One record in its turn: the round goes on, the ledger stands at the new record, and the
\* current job is the old one unless the record says "resumed".
LEMMA AppendedRight ==
    ASSUME WriterTypes, Round(ledger), NEW a \in Kinds, NEW j \in Wr!Jobs, NEW c \in Checkpoints, Wr!AppendRecord(a, j, c),
           a = After(Wr!State)
    PROVE  /\ ledger' \in Seq(Records) /\ Round(ledger)' /\ ledger' # << >>
           /\ Wr!State' = a /\ Wr!Last(ledger)' = [action |-> a, job |-> j, checkpoint |-> c] /\ torn' = torn
           /\ a # "resumed" => \A k : CurrentIs(k) /\ first' = first => CurrentIs(k)'
           /\ a = "resumed" => CurrentIs(j)'
<1>. DEFINE r == [action |-> a, job |-> j, checkpoint |-> c]
            n == Len(ledger)
<1>1. r \in Records /\ ledger' = ledger \o <<r>> /\ torn' = torn
    BY DEF Wr!AppendRecord, Records
<1>2. n \in Nat /\ DOMAIN ledger = 1..n /\ ledger \in Seq(Records)
    BY LenProperties DEF WriterTypes
<1>. HIDE DEF r
<1>3. <<r>> \in Seq(Records) /\ Len(<<r>>) = 1 /\ <<r>>[1] = r
    BY <1>1
<1>4. /\ ledger' \in Seq(Records) /\ Len(ledger') = n + 1 /\ DOMAIN ledger' = 1..(n + 1)
      /\ ledger'[n + 1] = r /\ \A i \in 1..n : ledger'[i] = ledger[i]
    <2>1. ledger' \in Seq(Records) /\ Len(ledger') = n + 1
        BY <1>1, <1>2, <1>3, ConcatProperties
    <2>2. \A i \in 1..(n + 1) : ledger'[i] = IF i <= n THEN ledger[i] ELSE <<r>>[i - n]
        BY <1>1, <1>2, <1>3, ConcatProperties
    <2>. QED  BY <1>2, <1>3, <2>1, <2>2, LenProperties
<1>5. ledger' # << >> /\ Wr!Last(ledger)' = r
    BY <1>2, <1>4, EmptySeq DEF Wr!Last
<1>6. Wr!State' = a
    BY <1>5 DEF Wr!State, r
<1>7. Round(ledger)'
    <2>1. n % 5 \in 0..4
        BY <1>2
    <2>2. Wr!State = IF n = 0 THEN "resumed" ELSE ledger[n].action
        BY <1>2, EmptySeq DEF Wr!State, Wr!Last
    <2>3. n # 0 => ledger[n].action = Turn[((n - 1) % 5) + 1]
        BY <1>2 DEF Round
    <2>4. a = Turn[(n % 5) + 1]
        <3>1. CASE n = 0
            BY <2>2, <3>1 DEF After, Turn
        <3>2. CASE n # 0
            <4>. DEFINE m == (n - 1) % 5
            <4>1. m \in 0..4 /\ n % 5 = IF m = 4 THEN 0 ELSE m + 1
                BY <1>2, <3>2
            <4>2. Wr!State = Turn[m + 1]
                BY <2>2, <2>3, <3>2
            <4>. HIDE DEF m
            <4>3. CASE m = 0
                BY <4>1, <4>2, <4>3 DEF Turn, After
            <4>4. CASE m = 1
                BY <4>1, <4>2, <4>4 DEF Turn, After
            <4>5. CASE m = 2
                BY <4>1, <4>2, <4>5 DEF Turn, After
            <4>6. CASE m = 3
                BY <4>1, <4>2, <4>6 DEF Turn, After
            <4>7. CASE m = 4
                BY <4>1, <4>2, <4>7 DEF Turn, After
            <4>. QED  BY <4>1, <4>3, <4>4, <4>5, <4>6, <4>7
        <3>. QED  BY <3>1, <3>2
    <2>5. r.action = a
        BY DEF r
    <2>6. ASSUME NEW i \in 1..(n + 1)
          PROVE  ledger'[i].action = Turn[((i - 1) % 5) + 1]
        <3>1. CASE i = n + 1
            <4>1. i - 1 = n
                BY <1>2, <3>1
            <4>. QED  BY <1>4, <2>4, <2>5, <3>1, <4>1
        <3>2. CASE i # n + 1
            BY <1>2, <1>4, <3>2 DEF Round
        <3>. QED  BY <3>1, <3>2
    <2>. QED  BY <1>4, <2>6 DEF Round
<1>8. Wr!Acts("resumed")' = IF a = "resumed" THEN Wr!Acts("resumed") \union {n + 1} ELSE Wr!Acts("resumed")
    <2>1. Wr!Acts("resumed")' = {i \in 1..(n + 1) : ledger'[i].action = "resumed"}
        BY <1>4 DEF Wr!Acts
    <2>2. r.action = a
        BY DEF r
    <2>3. Wr!Acts("resumed") = {i \in 1..n : ledger[i].action = "resumed"}
        BY <1>2 DEF Wr!Acts
    <2>4. \A i \in 1..(n + 1) : ledger'[i].action = "resumed" <=>
                IF i = n + 1 THEN a = "resumed" ELSE ledger[i].action = "resumed"
        BY <1>2, <1>4, <2>2
    <2>5. \A i : i \in 1..(n + 1) <=> i \in 1..n \/ i = n + 1
        BY <1>2
    <2>6. ~ (n + 1 \in 1..n)
        BY <1>2
    <2>. DEFINE A == Wr!Acts("resumed")
                B == Wr!Acts("resumed")'
    <2>7. \A i : i \in B <=> (i \in A \/ (i = n + 1 /\ a = "resumed"))
        BY <2>1, <2>3, <2>4, <2>5, <2>6
    <2>. HIDE DEF A, B
    <2>8. B = IF a = "resumed" THEN A \union {n + 1} ELSE A
        BY <2>7
    <2>. QED  BY <2>8 DEF A, B
<1>9. Wr!Acts("resumed") \subseteq 1..n
    BY <1>2 DEF Wr!Acts
<1>10. ASSUME a # "resumed", NEW k, CurrentIs(k), first' = first PROVE CurrentIs(k)'
    BY <1>4, <1>8, <1>9, <1>10 DEF CurrentIs
<1>11. ASSUME a = "resumed" PROVE CurrentIs(j)'
    <2>1. n + 1 \in Wr!Acts("resumed")' /\ \A m \in Wr!Acts("resumed")' : m <= n + 1
        BY <1>2, <1>8, <1>9, <1>11
    <2>2. ledger'[n + 1].job = j
        BY <1>4 DEF r
    <2>. QED  BY <2>1, <2>2 DEF CurrentIs
<1>. QED  BY <1>1, <1>4, <1>5, <1>6, <1>7, <1>10, <1>11 DEF r
-----------------------------------------------------------------------------
(* What steps have in common. *)

\* Steps that touch neither Flink nor the ledger.
LEMMA Kept ==
    ASSUME WriterTypes, NEW k \in 0..MaxJobs, JobsRight(k), LastWrites(k), LedgerRight(k),
           UNCHANGED <<job, listed, sink, ledger, first>>, topic' \in Nat, topic' >= topic,
           submission' = submission \/ submission' # "none"
    PROVE  JobsRight(k)' /\ LastWrites(k)' /\ LedgerRight(k)' /\ Wr!State' = Wr!State /\ Wr!Active' = Wr!Active
<1>1. Wr!State' = Wr!State /\ Wr!Active' = Wr!Active /\ (CurrentIs(k) => CurrentIs(k)')
    BY DEF Wr!State, Wr!Active, CurrentIs, Wr!Acts
<1>2. \A j \in Wr!Jobs : Covered(j)' = Covered(j)
    BY DEF Covered
<1>3. JobsRight(k)'
    BY <1>2 DEF JobsRight, WriterTypes
<1>4. LastWrites(k)'
    BY <1>1 DEF LastWrites, Covered
<1>5. LedgerRight(k)'
    BY <1>1 DEF LedgerRight, Round
<1>. QED  BY <1>1, <1>3, <1>4, <1>5

\* The same for what an operation knows: it stays where it is or is over.
LEMMA OpKept ==
    ASSUME WriterTypes, NEW k \in 0..MaxJobs, OpRight(k),
           UNCHANGED <<job, sink, ledger, first>>, topic' \in Nat, topic' >= topic,
           submission' = submission \/ submission' # "none",
           (op' = op /\ (lock' = lock \/ op.pc \notin Locked)) \/ op' = Wr!Rest
    PROVE  OpRight(k)'
<1>1. Wr!State' = Wr!State /\ Wr!Active' = Wr!Active
    BY DEF Wr!State, Wr!Active
<1>2. CASE op' = Wr!Rest
    BY <1>2 DEF OpRight, Wr!Rest, Alone, Locked
<1>3. CASE op' = op /\ (lock' = lock \/ op.pc \notin Locked)
    BY <1>1, <1>3 DEF Positions, OpRight, WriterTypes, Checkpoints
<1>. QED  BY <1>2, <1>3

\* The last job does something.
LEMMA JobOne ==
    ASSUME Wr!WriterAssumption, WriterTypes, NEW k \in 1..MaxJobs, WriterAt(k), k \in Wr!Active,
           NEW r \in [state : JobStates \ {"unused"}, from : Nat, read : Nat, latest : Checkpoints],
           job' = [job EXCEPT ![k] = r], sink' \in Nat,
           UNCHANGED <<listed, topic, ledger, first, submission>>,
           LET covers == IF r.latest = Wr!NoCheckpoint THEN r.from ELSE r.latest.pos
           IN  r.from <= covers /\ covers <= r.read /\ r.read <= topic /\ sink' <= covers
    PROVE  /\ job' \in [Wr!Jobs -> [state : JobStates, from : Nat, read : Nat, latest : Checkpoints]]
           /\ JobsRight(k)' /\ LastWrites(k)' /\ LedgerRight(k)' /\ Wr!State' = Wr!State
           /\ Wr!State # "paused" /\ op.pc # "restore"
           /\ op' = op /\ lock' = lock /\ (r.latest = Wr!NoCheckpoint => job[k].latest = Wr!NoCheckpoint) => OpRight(k)'
<1>. USE DEF WriterAt
<1>1. job' \in [Wr!Jobs -> [state : JobStates, from : Nat, read : Nat, latest : Checkpoints]]
    BY DEF WriterTypes
<1>2. k \in Wr!Jobs /\ job'[k] = r /\ \A j \in Wr!Jobs \ {k} : job'[j] = job[j]
    BY DEF WriterTypes, Wr!Jobs, Wr!Active
<1>3. /\ Covered(k)' = IF r.latest = Wr!NoCheckpoint THEN r.from ELSE r.latest.pos
      /\ \A j \in Wr!Jobs \ {k} : Covered(j)' = Covered(j)
    BY <1>2 DEF Covered
<1>4. r.state # "unused" /\ job[k].state # "unused"
    BY DEF Wr!Active
<1>5. Wr!Active' \subseteq Wr!Active
    BY <1>2 DEF Wr!Active
<1>6. Wr!State' = Wr!State /\ (CurrentIs(k) => CurrentIs(k)')
    BY DEF Wr!State, CurrentIs, Wr!Acts
<1>7. Wr!State # "paused" /\ op.pc # "restore"
    BY DEF LedgerRight, OpRight
<1>8. JobsRight(k)'
    BY <1>2, <1>3, <1>4 DEF JobsRight, WriterTypes
<1>9. LastWrites(k)'
    BY <1>3, <1>5 DEF LastWrites
<1>10. LedgerRight(k)'
    BY <1>6, <1>7 DEF LedgerRight, Round
<1>11. ASSUME op' = op, lock' = lock, r.latest = Wr!NoCheckpoint => job[k].latest = Wr!NoCheckpoint
       PROVE  OpRight(k)'
    BY <1>2, <1>6, <1>7, <1>11 DEF OpRight
<1>. QED  BY <1>1, <1>6, <1>7, <1>8, <1>9, <1>10, <1>11

\* The engines stop: the last job is lost, its checkpoints and what is visible are not.
LEMMA HaltRight ==
    ASSUME Wr!WriterAssumption, WriterTypes, NEW k \in 0..MaxJobs, WriterAt(k), Wr!StopEngines,
           UNCHANGED <<topic, ledger, first, submission>>,
           (op' = op /\ lock' = lock) \/ op' = Wr!Rest
    PROVE  /\ up' \in BOOLEAN /\ listed' \in SUBSET Wr!Jobs /\ sink' \in Nat
           /\ job' \in [Wr!Jobs -> [state : JobStates, from : Nat, read : Nat, latest : Checkpoints]]
           /\ WriterAt(k)'
<1>. USE DEF WriterAt
<1>1. up' = FALSE /\ listed' = {} /\ sink' = sink
      /\ job' = [j \in Wr!Jobs |-> IF j \in Wr!Active THEN [job[j] EXCEPT !.state = "lost"] ELSE job[j]]
    BY DEF Wr!StopEngines, Wr!Halted
<1>2. job' \in [Wr!Jobs -> [state : JobStates, from : Nat, read : Nat, latest : Checkpoints]]
    <2>1. ASSUME NEW j \in Wr!Jobs
          PROVE  (IF j \in Wr!Active THEN [job[j] EXCEPT !.state = "lost"] ELSE job[j])
                    \in [state : JobStates, from : Nat, read : Nat, latest : Checkpoints]
        <3>1. job[j] \in [state : JobStates, from : Nat, read : Nat, latest : Checkpoints]
            BY DEF WriterTypes
        <3>. QED  BY <3>1 DEF JobStates
    <2>. QED  BY <1>1, <2>1
<1>3. \A j \in Wr!Jobs : /\ job'[j].from = job[j].from /\ job'[j].read = job[j].read /\ job'[j].latest = job[j].latest
                      /\ job'[j].state = IF j \in Wr!Active THEN "lost" ELSE job[j].state
    BY <1>1 DEF WriterTypes
<1>4. Wr!Active' = {}
    BY <1>3 DEF Wr!Active
<1>5. \A j \in Wr!Jobs : Covered(j)' = Covered(j)
    BY <1>3 DEF Covered
<1>6. JobsRight(k)'
    BY <1>3, <1>5 DEF JobsRight, Wr!Active
<1>7. LastWrites(k)'
    <2>1. k # 0 => k \in Wr!Jobs
        BY DEF Wr!Jobs, Wr!WriterAssumption
    <2>. QED  BY <1>1, <1>4, <1>5, <2>1 DEF LastWrites
<1>8. Wr!State' = Wr!State /\ (CurrentIs(k) => CurrentIs(k)')
    BY DEF Wr!State, CurrentIs, Wr!Acts
<1>9. first # None => k \in Wr!Jobs
    BY DEF LedgerRight, Wr!Jobs, Wr!WriterAssumption
<1>10. LedgerRight(k)'
    <2>1. Wr!State = "paused" => first # None
        BY DEF LedgerRight, Wr!State
    <2>. QED  BY <1>3, <1>4, <1>8, <1>9, <2>1 DEF LedgerRight, Round
<1>11. OpRight(k)'
    <2>1. CASE op' = Wr!Rest
        BY <2>1 DEF OpRight, Wr!Rest, Alone, Locked
    <2>2. CASE op' = op /\ lock' = lock
        BY <1>1, <1>3, <1>4, <1>8, <1>9, <2>2 DEF OpRight, Locked
    <2>. QED  BY <2>1, <2>2
<1>. QED  BY <1>1, <1>2, <1>6, <1>7, <1>10, <1>11 DEF WriterTypes

\* A submission makes the next job the last one; nobody else writes, and what is visible is
\* what the checkpoint covers.
LEMMA LaunchRight ==
    ASSUME Wr!WriterAssumption, WriterTypes, NEW k \in 0..MaxJobs, JobsRight(k), Wr!Active = {},
           Wr!Active \subseteq listed, NEW c \in Checkpoints, c.pos <= topic, sink <= c.pos, Wr!Launch(c), topic' = topic
    PROVE  /\ k + 1 \in Wr!Jobs /\ JobsRight(k + 1)' /\ LastWrites(k + 1)'
           /\ job' \in [Wr!Jobs -> [state : JobStates, from : Nat, read : Nat, latest : Checkpoints]]
           /\ listed' \in SUBSET Wr!Jobs /\ sink' \in Nat
           /\ op' = [op EXCEPT !.pc = IF op.pc = "submit" THEN "acknowledge" ELSE "acknowledged", !.job = k + 1]
<1>. DEFINE r == [state |-> "starting", from |-> c.pos, read |-> c.pos, latest |-> Wr!NoCheckpoint]
<1>1. Wr!NewJob = k + 1 /\ k + 1 \in Wr!Jobs
    BY NewJobIs DEF Wr!Launch
<1>2. /\ job' = [job EXCEPT ![k + 1] = r] /\ listed' = listed \union {k + 1}
      /\ sink' = IF c.pos > sink THEN c.pos ELSE sink
      /\ op' = [op EXCEPT !.pc = IF op.pc = "submit" THEN "acknowledge" ELSE "acknowledged", !.job = k + 1]
    BY <1>1 DEF Wr!Launch
<1>3. c.pos \in Nat /\ sink \in Nat /\ topic \in Nat
    BY DEF WriterTypes, Checkpoints
<1>4. r \in [state : JobStates, from : Nat, read : Nat, latest : Checkpoints]
    BY <1>3 DEF JobStates, Wr!NoCheckpoint, Checkpoints
<1>5. r.state = "starting" /\ r.from = c.pos /\ r.read = c.pos /\ r.latest = Wr!NoCheckpoint
    OBVIOUS
<1>. HIDE DEF r
<1>6. job'[k + 1] = r /\ \A j \in Wr!Jobs \ {k + 1} : job'[j] = job[j]
    BY <1>1, <1>2 DEF WriterTypes
<1>7. Covered(k + 1)' = c.pos /\ \A j \in Wr!Jobs \ {k + 1} : Covered(j)' = Covered(j)
    BY <1>5, <1>6 DEF Covered
<1>8. sink' = c.pos
    BY <1>2, <1>3
<1>9. Wr!Active' = {k + 1}
    BY <1>1, <1>5, <1>6 DEF Wr!Active
<1>10. JobsRight(k + 1)'
    <2>1. ASSUME NEW j \in Wr!Jobs
          PROVE  /\ job'[j].state = "unused" <=> j > k + 1
                 /\ job'[j].from <= Covered(j)' /\ Covered(j)' <= job'[j].read /\ job'[j].read <= topic'
        <3>1. CASE j = k + 1
            BY <1>3, <1>5, <1>6, <1>7, <3>1
        <3>2. CASE j # k + 1
            BY <1>6, <1>7, <3>2 DEF JobsRight, Wr!Jobs, Wr!WriterAssumption
        <3>. QED  BY <3>1, <3>2
    <2>. QED  BY <2>1 DEF JobsRight
<1>11. LastWrites(k + 1)'
    BY <1>2, <1>3, <1>7, <1>8, <1>9 DEF LastWrites
<1>. QED  BY <1>1, <1>2, <1>3, <1>4, <1>8, <1>10, <1>11 DEF WriterTypes
-----------------------------------------------------------------------------
(* The operations. *)

\* Initialization submits nothing.
LEMMA InitializeStep ==
    ASSUME Wr!WriterAssumption, WriterTypes, NEW k \in 0..MaxJobs, WriterAt(k), Wr!Initialize
    PROVE  WriterTypes' /\ WriterAt(k)'
<1>. USE DEF WriterAt
<1>1. /\ UNCHANGED <<expired, up, submission, first, job, listed, sink, topic, ledger, torn, lock, faults>>
      /\ setup' \in [marker : BOOLEAN, ddl : BOOLEAN, intent : BOOLEAN, registered : BOOLEAN, completed : BOOLEAN]
      /\ op' = Wr!Rest \/ (op' = [op EXCEPT !.pc = op'.pc] /\ op'.pc \in {"ddl", "register"})
    <2>1. CASE Wr!InitBegin
        BY <2>1 DEF Positions, Wr!InitBegin, Wr!flink, Wr!receipts, Wr!Goto, WriterTypes
    <2>2. CASE Wr!InitTables
        BY <2>2 DEF Positions, Wr!InitTables, Wr!flink, Wr!receipts, Wr!Goto, WriterTypes
    <2>3. CASE Wr!FinalizeBegin
        BY <2>3 DEF Positions, Wr!FinalizeBegin, Wr!flink, Wr!receipts, Wr!Goto, WriterTypes
    <2>4. CASE Wr!Register
        BY <2>4 DEF Wr!Register, Wr!flink, Wr!receipts, Wr!Goto, WriterTypes
    <2>. QED  BY <2>1, <2>2, <2>3, <2>4 DEF Wr!Initialize
<1>2. WriterTypes'
    <2>1. Wr!Rest \in [pc : {"idle"}, job : {None}, candidate : Checkpoints]
        BY DEF Wr!Rest, Checkpoints, Wr!NoCheckpoint
    <2>. QED  BY <1>1, <2>1 DEF Positions, WriterTypes, Wr!Rest
<1>3. JobsRight(k)' /\ LastWrites(k)' /\ LedgerRight(k)'
    <2>1. topic' \in Nat /\ topic' >= topic
        BY <1>1 DEF WriterTypes, Wr!WriterAssumption
    <2>. QED  BY <1>1, <2>1, Kept
<1>4. OpRight(k)'
    <2>1. op'.pc \in {"ddl", "register", "idle"}
        BY <1>1 DEF Wr!Rest
    <2>. QED  BY <2>1 DEF OpRight, Alone, Locked
<1>. QED  BY <1>2, <1>3, <1>4

\* The first submission: job 1 is there before its number is written anywhere.
LEMMA SubmitStep ==
    ASSUME Wr!WriterAssumption, WriterTypes, NEW k \in 0..MaxJobs, WriterAt(k), Wr!Submit
    PROVE  WriterTypes' /\ \E m \in 0..MaxJobs : WriterAt(m)'
<1>. USE DEF WriterAt
<1>1. topic \in Nat /\ topic >= topic /\ sink \in Nat
    BY DEF WriterTypes, Wr!WriterAssumption
<1>2. CASE Wr!SubmitBegin
    <2>1. /\ UNCHANGED <<expired, up, setup, first, job, listed, sink, topic, ledger, torn, lock, faults>>
          /\ first = None /\ submission = "none" /\ submission' = "submitting" /\ op' = [op EXCEPT !.pc = "submit"]
        BY <1>2 DEF Wr!SubmitBegin, Wr!flink, Wr!receipts, Wr!Goto
    <2>2. WriterTypes'
        <3>1. op' \in Positions
            BY <2>1 DEF WriterTypes, Positions, Alone
        <3>. QED  BY <2>1, <3>1 DEF WriterTypes
    <2>3. JobsRight(k)' /\ LastWrites(k)' /\ LedgerRight(k)'
        BY <1>1, <2>1, Kept
    <2>4. op'.pc = "submit" /\ k = 0 /\ first' = None
        BY <2>1 DEF WriterTypes, LedgerRight
    <2>5. OpRight(k)'
        BY <2>1, <2>4 DEF OpRight, Alone, Locked
    <2>. QED  BY <2>2, <2>3, <2>5
<1>3. CASE Wr!SubmitRun
    <2>1. /\ UNCHANGED <<expired, up, setup, submission, first, topic, ledger, torn, lock, faults>>
          /\ Wr!Launch(Wr!NoCheckpoint) /\ op.pc = "submit"
        BY <1>3 DEF Wr!SubmitRun, Wr!registry, Wr!receipts
    <2>2. k = 0 /\ first = None /\ ledger = << >> /\ sink = 0 /\ submission # "none"
        BY <2>1 DEF OpRight, LedgerRight, LastWrites, Alone
    <2>3. Wr!Active = {}
        BY <2>2 DEF LastWrites, Wr!Active, Wr!Jobs
    <2>4. Wr!NoCheckpoint \in Checkpoints /\ Wr!NoCheckpoint.pos = 0
        BY DEF Wr!NoCheckpoint, Checkpoints
    <2>5. /\ k + 1 \in Wr!Jobs /\ JobsRight(k + 1)' /\ LastWrites(k + 1)'
          /\ job' \in [Wr!Jobs -> [state : JobStates, from : Nat, read : Nat, latest : Checkpoints]]
          /\ listed' \in SUBSET Wr!Jobs /\ sink' \in Nat
          /\ op' = [op EXCEPT !.pc = "acknowledge", !.job = k + 1]
        <3>1. Wr!NoCheckpoint.pos <= topic /\ sink <= Wr!NoCheckpoint.pos /\ Wr!Active \subseteq listed /\ topic' = topic
            BY <1>1, <2>1, <2>2, <2>3, <2>4
        <3>2. JobsRight(k)
            OBVIOUS
        <3>3. /\ k + 1 \in Wr!Jobs /\ JobsRight(k + 1)' /\ LastWrites(k + 1)'
              /\ job' \in [Wr!Jobs -> [state : JobStates, from : Nat, read : Nat, latest : Checkpoints]]
              /\ listed' \in SUBSET Wr!Jobs /\ sink' \in Nat
              /\ op' = [op EXCEPT !.pc = IF op.pc = "submit" THEN "acknowledge" ELSE "acknowledged", !.job = k + 1]
            BY <2>1, <2>3, <2>4, <3>1, <3>2, LaunchRight
        <3>. QED  BY <2>1, <3>3
    <2>6. WriterTypes'
        <3>1. op' \in Positions
            BY <2>1, <2>5 DEF WriterTypes, Positions, Alone
        <3>. QED  BY <2>1, <2>5, <3>1 DEF WriterTypes
    <2>7. LedgerRight(k + 1)'
        <3>1. ledger' = << >> /\ first' = None /\ submission' # "none"
            BY <2>1, <2>2
        <3>2. Wr!State' = "resumed"
            BY <3>1 DEF Wr!State
        <3>3. Round(ledger)'
            BY <2>1 DEF LedgerRight, Round
        <3>. QED  BY <3>1, <3>2, <3>3 DEF LedgerRight
    <2>8. OpRight(k + 1)'
        <3>1. op'.pc = "acknowledge" /\ op'.job = k + 1
            BY <2>5 DEF WriterTypes
        <3>. QED  BY <2>1, <2>2, <3>1 DEF OpRight, Alone, Locked
    <2>9. k + 1 \in 0..MaxJobs
        BY <2>5 DEF Wr!Jobs, Wr!WriterAssumption
    <2>. QED  BY <2>5, <2>6, <2>7, <2>8, <2>9
<1>4. CASE Wr!SubmitAcknowledge
    <2>1. /\ UNCHANGED <<expired, up, setup, first, job, listed, sink, topic, ledger, torn, lock, faults>>
          /\ submission' = "acknowledged" /\ op.pc = "acknowledge" /\ op' = [op EXCEPT !.pc = "record"]
        BY <1>4 DEF Wr!SubmitAcknowledge, Wr!flink, Wr!receipts, Wr!Goto
    <2>2. WriterTypes'
        <3>1. op' \in Positions
            BY <2>1 DEF WriterTypes, Positions, Alone
        <3>. QED  BY <2>1, <3>1 DEF WriterTypes
    <2>3. JobsRight(k)' /\ LastWrites(k)' /\ LedgerRight(k)'
        BY <1>1, <2>1, Kept
    <2>4. op'.pc = "record" /\ op'.job = op.job
        BY <2>1 DEF WriterTypes
    <2>5. OpRight(k)'
        BY <2>1, <2>4 DEF OpRight, Alone, Locked
    <2>. QED  BY <2>2, <2>3, <2>5
<1>5. CASE Wr!SubmitRecord
    <2>1. /\ UNCHANGED <<expired, up, setup, submission, job, listed, sink, topic, ledger, torn, lock, faults>>
          /\ first' = op.job /\ op' = Wr!Rest /\ op.pc = "record"
        BY <1>5 DEF Wr!SubmitRecord, Wr!flink, Wr!receipts
    <2>2. op.job = k /\ k > 0 /\ first = None /\ ledger = << >> /\ submission # "none"
        BY <2>1 DEF OpRight, LedgerRight, Alone
    <2>3. k \in Wr!Jobs /\ k # None
        BY <2>2 DEF Wr!Jobs, Wr!WriterAssumption
    <2>4. WriterTypes'
        <3>1. Wr!Rest \in [pc : {"idle"}, job : {None}, candidate : Checkpoints]
            BY DEF Wr!Rest, Checkpoints, Wr!NoCheckpoint
        <3>. QED  BY <2>1, <2>2, <2>3, <3>1 DEF Positions, WriterTypes
    <2>5. JobsRight(k)' /\ LastWrites(k)'
        BY <2>1 DEF JobsRight, LastWrites, Covered, Wr!Active
    <2>6. LedgerRight(k)'
        <3>1. Wr!State' = "resumed" /\ Wr!Acts("resumed")' = {}
            BY <2>1, <2>2 DEF Wr!State, Wr!Acts
        <3>2. CurrentIs(k)'
            BY <2>1, <2>2, <3>1 DEF CurrentIs
        <3>. QED  BY <2>1, <2>2, <2>3, <3>1, <3>2 DEF LedgerRight, Round
    <2>7. OpRight(k)'
        BY <2>1 DEF OpRight, Wr!Rest, Alone, Locked
    <2>. QED  BY <2>4, <2>5, <2>6, <2>7
<1>. QED  BY <1>2, <1>3, <1>4, <1>5 DEF Wr!Submit

\* A pause: the record "paused" is written when the job has ended, so with its newest
\* checkpoint, whatever checkpoints were made since the pause looked.
LEMMA PauseStep ==
    ASSUME Wr!WriterAssumption, WriterTypes, NEW k \in 0..MaxJobs, WriterAt(k), Wr!Pause
    PROVE  WriterTypes' /\ WriterAt(k)'
<1>. USE DEF WriterAt
<1>1. topic \in Nat /\ topic >= topic /\ sink \in Nat
    BY DEF WriterTypes, Wr!WriterAssumption
<1>2. first # None => k \in Wr!Jobs /\ k > 0
    BY DEF LedgerRight, Wr!Jobs, Wr!WriterAssumption
<1>3. CASE Wr!PauseBegin
    <2>1. /\ UNCHANGED <<expired, up, setup, submission, first, job, listed, sink, topic, faults>>
          /\ Wr!State \in {"resumed", "pause_requested"} /\ lock' = "operator" /\ first # None
          /\ op' = [Wr!Rest EXCEPT !.pc = "look", !.job = Wr!CurrentJob]
          /\ \/ Wr!State = "resumed" /\ Wr!AppendRecord("pause_requested", Wr!CurrentJob, Wr!NoCheckpoint)
             \/ Wr!State # "resumed" /\ UNCHANGED <<ledger, torn>>
        BY <1>3 DEF Wr!PauseBegin, Wr!registry, Wr!flink, Wr!receipts, Wr!Readable, Wr!Registered
    <2>2. Wr!CurrentJob = k /\ k \in Wr!Jobs
        BY <1>2, <2>1, CurrentJobIs DEF LedgerRight
    <2>3. Wr!NoCheckpoint \in Checkpoints
        BY DEF Wr!NoCheckpoint, Checkpoints
    <2>4. op'.pc = "look" /\ op'.job = k /\ op' \in [pc : {"look"}, job : Wr!Jobs, candidate : Checkpoints]
        BY <2>1, <2>2, <2>3 DEF Wr!Rest
    <2>5. JobsRight(k)' /\ LastWrites(k)'
        BY <2>1 DEF JobsRight, LastWrites, Covered, Wr!Active
    <2>6. CASE Wr!State = "resumed"
        <3>1. Wr!AppendRecord("pause_requested", k, Wr!NoCheckpoint) /\ "pause_requested" = After(Wr!State) /\ "pause_requested" \in Kinds
            BY <2>1, <2>2, <2>6 DEF After, Kinds
        <3>2. /\ ledger' \in Seq(Records) /\ Round(ledger)' /\ Wr!State' = "pause_requested" /\ torn' = torn
              /\ CurrentIs(k) => CurrentIs(k)'
            BY <2>1, <2>2, <2>3, <3>1, AppendedRight DEF LedgerRight
        <3>3. WriterTypes'
            <4>1. op' \in Positions
                BY <2>1, <2>4, <3>2 DEF WriterTypes, Positions, Locked
            <4>. QED  BY <2>1, <2>4, <3>2, <4>1 DEF WriterTypes
        <3>4. LedgerRight(k)'
            BY <2>1, <3>2 DEF LedgerRight
        <3>5. OpRight(k)'
            BY <2>1, <2>4, <3>2 DEF OpRight, Alone, Locked
        <3>. QED  BY <2>5, <3>3, <3>4, <3>5
    <2>7. CASE Wr!State = "pause_requested"
        <3>1. UNCHANGED <<ledger, torn>>
            BY <2>1, <2>7
        <3>2. Wr!State' = Wr!State /\ (CurrentIs(k) => CurrentIs(k)')
            BY <2>1, <3>1 DEF Wr!State, CurrentIs, Wr!Acts
        <3>3. WriterTypes'
            <4>1. op' \in Positions
                BY <2>1, <2>4, <3>1 DEF WriterTypes, Positions, Locked
            <4>. QED  BY <2>1, <2>4, <3>1, <4>1 DEF WriterTypes
        <3>4. LedgerRight(k)'
            BY <2>1, <2>7, <3>1, <3>2 DEF LedgerRight, Round
        <3>5. OpRight(k)'
            BY <2>1, <2>4, <2>7, <3>2 DEF OpRight, Alone, Locked
        <3>. QED  BY <2>5, <3>3, <3>4, <3>5
    <2>. QED  BY <2>1, <2>6, <2>7
<1>4. CASE Wr!PauseLook
    <2>1. /\ UNCHANGED <<expired, up, setup, submission, first, job, listed, sink, topic, ledger, torn, lock, faults>>
          /\ op.pc = "look" /\ job[op.job].latest # Wr!NoCheckpoint
          /\ op' = [op EXCEPT !.pc = "cancel", !.candidate = job[op.job].latest]
        BY <1>4 DEF Wr!PauseLook, Wr!registry, Wr!flink, Wr!receipts, Wr!Cancellable
    <2>2. op.job = k /\ k \in Wr!Jobs
        BY <1>2, <2>1 DEF OpRight, Locked
    <2>3. op'.pc = "cancel" /\ op'.job = k /\ job[k].latest \in Checkpoints
        BY <2>1, <2>2 DEF WriterTypes
    <2>4. WriterTypes'
        <3>1. op' \in Positions
            BY <2>1, <2>2, <2>3 DEF WriterTypes, Positions, Locked
        <3>. QED  BY <2>1, <2>2, <2>3, <3>1 DEF WriterTypes
    <2>5. JobsRight(k)' /\ LastWrites(k)' /\ LedgerRight(k)' /\ Wr!State' = Wr!State
        BY <1>1, <2>1, Kept
    <2>6. OpRight(k)'
        BY <2>1, <2>2, <2>3, <2>5 DEF OpRight, Alone, Locked
    <2>. QED  BY <2>4, <2>5, <2>6
<1>5. CASE Wr!PauseCancel
    <2>1. /\ UNCHANGED <<expired, up, setup, submission, first, listed, sink, topic, ledger, torn, lock, faults>>
          /\ op.pc = "cancel" /\ op' = [op EXCEPT !.pc = "wait"]
          /\ job' = IF job[op.job].state = "running" THEN [job EXCEPT ![op.job].state = "canceling"] ELSE job
        BY <1>5 DEF Wr!PauseCancel, Wr!registry, Wr!receipts, Wr!Goto
    <2>2. op.job = k /\ k \in Wr!Jobs /\ Wr!State = "pause_requested" /\ job[k].latest # Wr!NoCheckpoint /\ k \in 1..MaxJobs
        BY <1>2, <2>1 DEF OpRight, Locked, Wr!Jobs
    <2>3. op'.pc = "wait" /\ op'.job = k
        BY <2>1, <2>2 DEF WriterTypes
    <2>4. /\ job' \in [Wr!Jobs -> [state : JobStates, from : Nat, read : Nat, latest : Checkpoints]]
          /\ JobsRight(k)' /\ LastWrites(k)' /\ LedgerRight(k)' /\ Wr!State' = Wr!State /\ job'[k].latest = job[k].latest
        <3>1. CASE job[k].state = "running"
            <4>. DEFINE r == [job[k] EXCEPT !.state = "canceling"]
            <4>1. job' = [job EXCEPT ![k] = r] /\ k \in Wr!Active
                BY <2>1, <2>2, <3>1 DEF Wr!Active
            <4>2. job[k] \in [state : JobStates, from : Nat, read : Nat, latest : Checkpoints]
                BY <2>2 DEF WriterTypes
            <4>3. r \in [state : JobStates \ {"unused"}, from : Nat, read : Nat, latest : Checkpoints]
                BY <4>2 DEF JobStates
            <4>4. r.from = job[k].from /\ r.read = job[k].read /\ r.latest = job[k].latest
                BY <4>2
            <4>. HIDE DEF r
            <4>5. job'[k] = r
                BY <2>2, <4>1 DEF WriterTypes
            <4>6. job[k].from <= Covered(k) /\ Covered(k) <= job[k].read /\ job[k].read <= topic /\ sink <= Covered(k)
                BY <2>2 DEF JobsRight, LastWrites, Wr!Jobs
            <4>7. LET covers == IF r.latest = Wr!NoCheckpoint THEN r.from ELSE r.latest.pos
                  IN  r.from <= covers /\ covers <= r.read /\ r.read <= topic /\ sink' <= covers
                BY <2>1, <4>4, <4>6 DEF Covered
            <4>. QED  BY <1>1, <2>1, <2>2, <4>1, <4>3, <4>4, <4>5, <4>7, JobOne
        <3>2. CASE job[k].state # "running"
            <4>1. job' = job
                BY <2>1, <2>2, <3>2
            <4>2. JobsRight(k)' /\ LastWrites(k)' /\ LedgerRight(k)' /\ Wr!State' = Wr!State
                BY <1>1, <2>1, <4>1, Kept
            <4>. QED  BY <4>1, <4>2 DEF WriterTypes
        <3>. QED  BY <3>1, <3>2
    <2>5. WriterTypes'
        <3>1. op' \in Positions
            BY <2>1, <2>4 DEF WriterTypes, Positions, Locked
        <3>. QED  BY <2>1, <2>4, <3>1 DEF WriterTypes
    <2>6. OpRight(k)'
        BY <2>1, <2>2, <2>3, <2>4 DEF OpRight, Alone, Locked
    <2>. QED  BY <2>4, <2>5, <2>6
<1>6. CASE Wr!PauseRecord
    <2>1. /\ UNCHANGED <<expired, up, setup, submission, first, job, listed, sink, topic, lock, faults>>
          /\ op.pc = "wait" /\ op' = [op EXCEPT !.pc = "stop"] /\ Wr!Active = {}
          /\ Wr!AppendRecord("paused", op.job, job[op.job].latest)
        BY <1>6 DEF Wr!PauseRecord, Wr!registry, Wr!flink, Wr!Goto, Wr!Inventory
    <2>2. op.job = k /\ k \in Wr!Jobs /\ Wr!State = "pause_requested" /\ job[k].latest # Wr!NoCheckpoint /\ first # None
          /\ lock = "operator"
        BY <1>2, <2>1 DEF OpRight, Locked
    <2>3. job[k].latest \in Checkpoints /\ "paused" \in Kinds /\ "paused" = After(Wr!State)
        BY <2>2 DEF WriterTypes, Kinds, After
    <2>4. /\ ledger' \in Seq(Records) /\ Round(ledger)' /\ Wr!State' = "paused" /\ torn' = torn
          /\ Wr!Last(ledger)' = [action |-> "paused", job |-> k, checkpoint |-> job[k].latest]
        BY <2>1, <2>2, <2>3, AppendedRight DEF LedgerRight
    <2>5. JobsRight(k)' /\ LastWrites(k)' /\ Wr!Active' = {}
        BY <2>1 DEF JobsRight, LastWrites, Covered, Wr!Active
    <2>6. op'.pc = "stop"
        BY <2>1 DEF WriterTypes
    <2>7. WriterTypes'
        <3>1. op' \in Positions
            BY <2>1, <2>4 DEF WriterTypes, Positions, Locked
        <3>. QED  BY <2>1, <2>4, <3>1 DEF WriterTypes
    <2>8. LedgerRight(k)'
        BY <2>1, <2>2, <2>4, <2>5 DEF LedgerRight
    <2>9. OpRight(k)'
        BY <2>1, <2>2, <2>6 DEF OpRight, Alone, Locked
    <2>. QED  BY <2>5, <2>7, <2>8, <2>9
<1>7. CASE Wr!PauseStop
    <2>1. /\ UNCHANGED <<expired, setup, submission, first, topic, ledger, torn, faults>>
          /\ Wr!StopEngines /\ op' = Wr!Rest /\ lock' = None
        BY <1>7 DEF Wr!PauseStop, Wr!receipts, Wr!registry
    <2>2. WriterTypes' /\ WriterAt(k)'
        <3>1. /\ up' \in BOOLEAN /\ listed' \in SUBSET Wr!Jobs /\ sink' \in Nat
              /\ job' \in [Wr!Jobs -> [state : JobStates, from : Nat, read : Nat, latest : Checkpoints]]
              /\ WriterAt(k)'
            BY <2>1, HaltRight
        <3>2. Wr!Rest \in [pc : {"idle"}, job : {None}, candidate : Checkpoints]
            BY DEF Wr!Rest, Checkpoints, Wr!NoCheckpoint
        <3>3. WriterTypes'
            BY <2>1, <3>1, <3>2 DEF Positions, WriterTypes
        <3>. QED  BY <3>1, <3>3
    <2>. QED  BY <2>2
<1>. QED  BY <1>3, <1>4, <1>5, <1>6, <1>7 DEF Wr!Pause

\* A resume: the next job goes on from the checkpoint of the last record.
LEMMA ResumeStep ==
    ASSUME Wr!WriterAssumption, WriterTypes, NEW k \in 0..MaxJobs, WriterAt(k), Wr!Resume
    PROVE  WriterTypes' /\ \E m \in 0..MaxJobs : WriterAt(m)'
<1>. USE DEF WriterAt
<1>1. topic \in Nat /\ topic >= topic /\ sink \in Nat
    BY DEF WriterTypes, Wr!WriterAssumption
<1>2. first # None => k \in Wr!Jobs /\ k > 0
    BY DEF LedgerRight, Wr!Jobs, Wr!WriterAssumption
<1>3. CASE Wr!ResumeBegin
    <2>1. /\ UNCHANGED <<expired, up, setup, submission, first, job, listed, sink, topic, faults>>
          /\ Wr!State = "paused" /\ lock' = "operator" /\ first # None
          /\ op' = [pc |-> "restore", job |-> Wr!Last(ledger).job, candidate |-> Wr!Last(ledger).checkpoint]
          /\ Wr!AppendRecord("resume_requested", Wr!Last(ledger).job, Wr!Last(ledger).checkpoint)
        BY <1>3 DEF Wr!ResumeBegin, Wr!registry, Wr!flink, Wr!Readable, Wr!Registered
    <2>2. k \in Wr!Jobs /\ Wr!Active = {} /\ Wr!Last(ledger).job = k /\ Wr!Last(ledger).checkpoint = job[k].latest
          /\ job[k].latest # Wr!NoCheckpoint
        BY <1>2, <2>1 DEF LedgerRight
    <2>3. job[k].latest \in Checkpoints /\ "resume_requested" \in Kinds /\ "resume_requested" = After(Wr!State)
        BY <2>1, <2>2 DEF WriterTypes, Kinds, After
    <2>4. /\ ledger' \in Seq(Records) /\ Round(ledger)' /\ Wr!State' = "resume_requested" /\ torn' = torn
        BY <2>1, <2>2, <2>3, AppendedRight DEF LedgerRight
    <2>5. JobsRight(k)' /\ LastWrites(k)' /\ Wr!Active' = {}
        BY <2>1, <2>2 DEF JobsRight, LastWrites, Covered, Wr!Active
    <2>6. sink <= job[k].latest.pos /\ job[k].latest.pos <= topic
        <3>1. Covered(k) = job[k].latest.pos
            BY <2>2 DEF Covered
        <3>2. sink <= Covered(k) /\ Covered(k) <= job[k].read /\ job[k].read <= topic
            BY <2>2 DEF JobsRight, LastWrites, Wr!Jobs
        <3>3. job[k].read \in Nat /\ job[k].latest.pos \in Nat
            BY <2>2 DEF WriterTypes, Checkpoints
        <3>. QED  BY <1>1, <3>1, <3>2, <3>3
    <2>7. op'.pc = "restore" /\ op'.candidate = job[k].latest /\ op' \in [pc : {"restore"}, job : Wr!Jobs, candidate : Checkpoints]
        BY <2>1, <2>2, <2>3
    <2>8. WriterTypes'
        <3>1. op' \in Positions
            BY <2>1, <2>4, <2>7 DEF WriterTypes, Positions, Locked
        <3>. QED  BY <2>1, <2>4, <2>7, <3>1 DEF WriterTypes
    <2>9. LedgerRight(k)'
        BY <1>2, <2>1, <2>4 DEF LedgerRight
    <2>10. OpRight(k)'
        BY <2>1, <2>4, <2>5, <2>6, <2>7 DEF OpRight, Alone, Locked
    <2>. QED  BY <2>5, <2>8, <2>9, <2>10
<1>4. CASE Wr!ResumeSubmit
    <2>1. /\ UNCHANGED <<expired, up, setup, submission, first, topic, ledger, torn, lock, faults>>
          /\ Wr!Launch(op.candidate) /\ op.pc = "restore"
        BY <1>4 DEF Wr!ResumeSubmit, Wr!registry, Wr!receipts
    <2>2. /\ Wr!Active = {} /\ sink <= op.candidate.pos /\ op.candidate.pos <= topic /\ Wr!State = "resume_requested"
          /\ lock = "operator" /\ first # None /\ submission # "none"
        <3>1. /\ Wr!Active = {} /\ sink <= op.candidate.pos /\ op.candidate.pos <= topic /\ Wr!State = "resume_requested"
              /\ lock = "operator" /\ first # None
            BY <2>1 DEF OpRight, Locked
        <3>. QED  BY <1>2, <3>1 DEF LedgerRight, Wr!Jobs
    <2>3. op.candidate \in Checkpoints /\ Wr!Active \subseteq listed /\ JobsRight(k)
        BY <2>2 DEF Positions, WriterTypes
    <2>4. /\ k + 1 \in Wr!Jobs /\ JobsRight(k + 1)' /\ LastWrites(k + 1)'
          /\ job' \in [Wr!Jobs -> [state : JobStates, from : Nat, read : Nat, latest : Checkpoints]]
          /\ listed' \in SUBSET Wr!Jobs /\ sink' \in Nat
          /\ op' = [op EXCEPT !.pc = IF op.pc = "submit" THEN "acknowledge" ELSE "acknowledged", !.job = k + 1]
        <3>1. topic' = topic /\ Wr!Launch(op.candidate)
            BY <2>1
        <3>2. sink <= op.candidate.pos /\ op.candidate.pos <= topic /\ Wr!Active = {}
            BY <2>2
        <3>. QED  BY <2>3, <3>1, <3>2, LaunchRight
    <2>5. op' = [op EXCEPT !.pc = "acknowledged", !.job = k + 1]
        BY <2>1, <2>4
    <2>6. WriterTypes'
        <3>0. op \in Positions /\ k + 1 \in Wr!Jobs
            BY <2>4 DEF WriterTypes
        <3>1. op' \in [pc : {"idle", "ddl", "register"} \union Alone \union Locked,
                       job : Wr!Jobs \union {None}, candidate : Checkpoints]
            BY <2>5, <3>0 DEF Positions, Locked
        <3>2. UNCHANGED <<expired, up, setup, submission, first, topic, ledger, torn, lock, faults>>
            BY <2>1
        <3>3. /\ job' \in [Wr!Jobs -> [state : JobStates, from : Nat, read : Nat, latest : Checkpoints]]
              /\ listed' \in SUBSET Wr!Jobs /\ sink' \in Nat
            BY <2>4
        <3>. QED  BY <3>1, <3>2, <3>3 DEF Positions, WriterTypes
    <2>7. Wr!State' = "resume_requested"
        BY <2>1, <2>2 DEF Wr!State
    <2>8. k + 1 \in 0..MaxJobs /\ k + 1 > 0
        BY <2>4 DEF Wr!Jobs, Wr!WriterAssumption
    <2>9. LedgerRight(k + 1)'
        BY <2>1, <2>2, <2>7, <2>8 DEF LedgerRight, Round
    <2>10. op'.pc = "acknowledged" /\ op'.job = k + 1
        BY <2>5 DEF WriterTypes
    <2>11. OpRight(k + 1)'
        BY <2>1, <2>2, <2>7, <2>10 DEF OpRight, Alone, Locked
    <2>. QED  BY <2>4, <2>6, <2>8, <2>9, <2>11
<1>5. CASE Wr!ResumeAcknowledge
    <2>1. /\ UNCHANGED <<expired, up, setup, submission, first, job, listed, sink, topic, lock, faults>>
          /\ op.pc = "acknowledged" /\ op' = [op EXCEPT !.pc = "await"]
          /\ Wr!AppendRecord("resume_acknowledged", op.job, op.candidate)
        BY <1>5 DEF Wr!ResumeAcknowledge, Wr!registry, Wr!flink, Wr!Goto
    <2>2. op.job = k /\ k \in Wr!Jobs /\ Wr!State = "resume_requested" /\ first # None /\ lock = "operator"
        BY <1>2, <2>1 DEF OpRight, Locked
    <2>3. op.candidate \in Checkpoints /\ "resume_acknowledged" \in Kinds /\ "resume_acknowledged" = After(Wr!State)
        BY <2>2 DEF Positions, WriterTypes, Kinds, After
    <2>4. /\ ledger' \in Seq(Records) /\ Round(ledger)' /\ Wr!State' = "resume_acknowledged" /\ torn' = torn
        BY <2>1, <2>2, <2>3, AppendedRight DEF LedgerRight
    <2>5. JobsRight(k)' /\ LastWrites(k)'
        BY <2>1 DEF JobsRight, LastWrites, Covered, Wr!Active
    <2>6. op'.pc = "await" /\ op'.job = k
        BY <2>1, <2>2 DEF WriterTypes
    <2>7. WriterTypes'
        <3>1. op' \in Positions
            BY <2>1, <2>4 DEF WriterTypes, Positions, Locked
        <3>. QED  BY <2>1, <2>4, <3>1 DEF WriterTypes
    <2>8. LedgerRight(k)'
        BY <1>2, <2>1, <2>2, <2>4 DEF LedgerRight
    <2>9. OpRight(k)'
        BY <2>1, <2>2, <2>4, <2>6 DEF OpRight, Alone, Locked
    <2>. QED  BY <2>5, <2>7, <2>8, <2>9
<1>6. CASE Wr!ResumeRecord
    <2>1. /\ UNCHANGED <<expired, up, setup, submission, first, job, listed, sink, topic, faults>>
          /\ op.pc = "await" /\ op' = Wr!Rest /\ lock' = None
          /\ Wr!AppendRecord("resumed", op.job, op.candidate)
        BY <1>6 DEF Wr!ResumeRecord, Wr!registry, Wr!flink
    <2>2. op.job = k /\ k \in Wr!Jobs /\ Wr!State = "resume_acknowledged" /\ first # None
        BY <1>2, <2>1 DEF OpRight, Locked
    <2>3. op.candidate \in Checkpoints /\ "resumed" \in Kinds /\ "resumed" = After(Wr!State)
        BY <2>2 DEF Positions, WriterTypes, Kinds, After
    <2>4. /\ ledger' \in Seq(Records) /\ Round(ledger)' /\ Wr!State' = "resumed" /\ torn' = torn /\ CurrentIs(k)'
        BY <2>1, <2>2, <2>3, AppendedRight DEF LedgerRight
    <2>5. JobsRight(k)' /\ LastWrites(k)'
        BY <2>1 DEF JobsRight, LastWrites, Covered, Wr!Active
    <2>6. Wr!Rest \in [pc : {"idle"}, job : {None}, candidate : Checkpoints]
        BY DEF Wr!Rest, Checkpoints, Wr!NoCheckpoint
    <2>7. WriterTypes'
        BY <2>1, <2>4, <2>6 DEF Positions, WriterTypes
    <2>8. LedgerRight(k)'
        BY <1>2, <2>1, <2>2, <2>4 DEF LedgerRight
    <2>9. OpRight(k)'
        BY <2>1 DEF OpRight, Wr!Rest, Alone, Locked
    <2>. QED  BY <2>5, <2>7, <2>8, <2>9
<1>. QED  BY <1>3, <1>4, <1>5, <1>6 DEF Wr!Resume

\* An operation that fails or dies, and what happens around them.
LEMMA OtherStep ==
    ASSUME Wr!WriterAssumption, WriterTypes, NEW k \in 0..MaxJobs, WriterAt(k),
           Wr!OperationFails \/ Wr!OperationDies \/ Wr!BeginDies \/ Wr!SyncBegin \/ Wr!SyncSend \/ Wr!SyncEnd \/ Wr!Start \/ Wr!Stop \/ Wr!Expire
           \/ UNCHANGED Wr!vars
    PROVE  WriterTypes' /\ WriterAt(k)'
<1>. USE DEF WriterAt
<1>1. topic \in Nat /\ topic >= topic /\ topic + 1 \in Nat /\ topic + 1 >= topic
    BY DEF WriterTypes, Wr!WriterAssumption
<1>2. Wr!Rest \in [pc : {"idle"}, job : {None}, candidate : Checkpoints]
    BY DEF Wr!Rest, Checkpoints, Wr!NoCheckpoint
<1>3. CASE Wr!OperationFails
    <2>1. /\ UNCHANGED <<expired, setup, submission, first, topic, ledger, torn>> /\ faults' \in 0..WriterFaults
          /\ Wr!StopEngines /\ op' = Wr!Rest /\ lock' \in {None, lock}
        BY <1>3 DEF Wr!OperationFails, Wr!receipts, Wr!registry, Wr!Unlocked, WriterTypes, Wr!WriterAssumption
    <2>2. /\ up' \in BOOLEAN /\ listed' \in SUBSET Wr!Jobs /\ sink' \in Nat
          /\ job' \in [Wr!Jobs -> [state : JobStates, from : Nat, read : Nat, latest : Checkpoints]]
          /\ WriterAt(k)'
        BY <2>1, HaltRight
    <2>3. WriterTypes'
        BY <1>2, <2>1, <2>2 DEF Positions, WriterTypes
    <2>. QED  BY <2>2, <2>3
<1>4. CASE Wr!Stop
    <2>1. /\ UNCHANGED <<expired, setup, submission, first, topic, ledger, torn, lock, op, faults>> /\ Wr!StopEngines
        BY <1>4 DEF Wr!Stop, Wr!receipts, Wr!registry
    <2>2. /\ up' \in BOOLEAN /\ listed' \in SUBSET Wr!Jobs /\ sink' \in Nat
          /\ job' \in [Wr!Jobs -> [state : JobStates, from : Nat, read : Nat, latest : Checkpoints]]
          /\ WriterAt(k)'
        BY <2>1, HaltRight
    <2>3. WriterTypes'
        BY <2>1, <2>2 DEF WriterTypes
    <2>. QED  BY <2>2, <2>3
<1>5. CASE Wr!OperationDies
    <2>1. /\ UNCHANGED <<expired, up, setup, submission, first, job, listed, sink, topic, ledger>>
          /\ faults' \in 0..WriterFaults /\ torn' \in BOOLEAN /\ op' = Wr!Rest /\ lock' \in {None, lock}
        <3>1. torn' \in {torn, TRUE} /\ faults < WriterFaults /\ faults' = faults + 1
            BY <1>5 DEF Wr!OperationDies
        <3>2. torn \in BOOLEAN /\ faults \in 0..WriterFaults /\ WriterFaults \in Nat
            BY DEF WriterTypes, Wr!WriterAssumption
        <3>3. torn' \in BOOLEAN
            BY <3>1, <3>2
        <3>4. faults' \in 0..WriterFaults
            BY <3>1, <3>2
        <3>. QED  BY <1>5, <3>3, <3>4 DEF Wr!OperationDies, Wr!registry, Wr!flink, Wr!Unlocked
    <2>2. WriterTypes'
        BY <1>2, <2>1 DEF Positions, WriterTypes
    <2>3. JobsRight(k)' /\ LastWrites(k)' /\ LedgerRight(k)'
        BY <1>1, <2>1, Kept
    <2>4. OpRight(k)'
        BY <2>1 DEF OpRight, Wr!Rest, Alone, Locked
    <2>. QED  BY <2>2, <2>3, <2>4
<1>6. CASE Wr!SyncBegin \/ Wr!SyncSend \/ Wr!SyncEnd \/ Wr!Start \/ Wr!Expire \/ UNCHANGED Wr!vars
    <2>1. /\ UNCHANGED <<setup, submission, first, job, listed, sink, ledger, torn, op, faults>>
          /\ expired' \in BOOLEAN /\ up' \in BOOLEAN /\ lock' \in {None, "operator", "sync"}
          /\ topic' \in 0..MaxRows /\ topic' \in Nat /\ topic' >= topic
          /\ lock' = lock \/ lock # "operator"
        <3>1. CASE Wr!SyncBegin
            BY <1>1, <3>1 DEF Wr!SyncBegin, Wr!registry, Wr!flink, Wr!receipts, WriterTypes, Wr!WriterAssumption
        <3>2. CASE Wr!SyncSend
            BY <1>1, <3>2 DEF Wr!SyncSend, Wr!registry, Wr!flink, Wr!receipts, WriterTypes, Wr!WriterAssumption
        <3>3. CASE Wr!SyncEnd
            BY <1>1, <3>3 DEF Wr!SyncEnd, Wr!registry, Wr!flink, Wr!receipts, WriterTypes
        <3>4. CASE Wr!Start
            BY <1>1, <3>4 DEF Wr!Start, Wr!registry, Wr!flink, Wr!receipts, WriterTypes
        <3>5. CASE Wr!Expire
            BY <1>1, <3>5 DEF Wr!Expire, Wr!registry, Wr!flink, Wr!receipts, WriterTypes
        <3>6. CASE UNCHANGED Wr!vars
            BY <1>1, <3>6 DEF Wr!vars, Wr!registry, Wr!flink, Wr!receipts, WriterTypes
        <3>. QED  BY <1>6, <3>1, <3>2, <3>3, <3>4, <3>5, <3>6
    <2>2. WriterTypes'
        BY <2>1 DEF WriterTypes
    <2>3. JobsRight(k)' /\ LastWrites(k)' /\ LedgerRight(k)'
        BY <2>1, Kept
    <2>4. OpRight(k)'
        <3>1. op.pc \in Locked => lock' = lock
            BY <2>1 DEF OpRight
        <3>. QED  BY <2>1, <3>1, OpKept
    <2>. QED  BY <2>2, <2>3, <2>4
<1>7. CASE Wr!BeginDies
    <2>1. /\ UNCHANGED <<expired, up, setup, submission, first, job, listed, sink, topic, ledger, lock, op>>
          /\ torn' = TRUE /\ faults' = faults + 1 /\ faults < WriterFaults
        BY <1>7 DEF Wr!BeginDies, Wr!registry, Wr!flink
    <2>2. faults' \in 0..WriterFaults
        BY <2>1 DEF WriterTypes, Wr!WriterAssumption
    <2>3. WriterTypes'
        BY <2>1, <2>2 DEF WriterTypes
    <2>4. JobsRight(k)' /\ LastWrites(k)' /\ LedgerRight(k)'
        BY <1>1, <2>1, Kept
    <2>5. OpRight(k)'
        BY <1>1, <2>1, OpKept
    <2>. QED  BY <2>3, <2>4, <2>5
<1>. QED  BY <1>3, <1>4, <1>5, <1>6, <1>7

\* Flink.
LEMMA JobStep ==
    ASSUME Wr!WriterAssumption, WriterTypes, NEW k \in 0..MaxJobs, WriterAt(k), NEW j \in Wr!Jobs,
           Wr!JobStarts(j) \/ Wr!JobReads(j) \/ Wr!Checkpoint(j) \/ Wr!JobCanceled(j) \/ Wr!JobFails(j)
    PROVE  WriterTypes' /\ WriterAt(k)'
<1>. USE DEF WriterAt
<1>. DEFINE old == job[j]
            t == [state : JobStates \ {"unused"}, from : Nat, read : Nat, latest : Checkpoints]
<1>1. j \in Wr!Active
    BY DEF Wr!JobStarts, Wr!JobReads, Wr!Checkpoint, Wr!JobCanceled, Wr!JobFails, Wr!Active
<1>2. j = k /\ k \in 1..MaxJobs
    BY <1>1 DEF LastWrites, Wr!Jobs, Wr!WriterAssumption
<1>3. /\ old \in [state : JobStates, from : Nat, read : Nat, latest : Checkpoints] /\ old.state # "unused"
      /\ topic \in Nat /\ sink \in Nat
    BY <1>1 DEF WriterTypes, Wr!Active, Wr!WriterAssumption
<1>4. /\ old.from <= Covered(j) /\ Covered(j) <= old.read /\ old.read <= topic /\ sink <= Covered(j)
      /\ Covered(j) = IF old.latest = Wr!NoCheckpoint THEN old.from ELSE old.latest.pos
      /\ Covered(j) \in Nat /\ old.read \in Nat /\ old.from \in Nat /\ old.latest \in Checkpoints
    BY <1>2, <1>3 DEF JobsRight, LastWrites, Covered, Checkpoints
<1>5. /\ UNCHANGED <<expired, up, setup, submission, first, listed, topic, ledger, torn, lock, op>>
      /\ faults' \in 0..WriterFaults
    BY DEF Wr!JobStarts, Wr!JobReads, Wr!Checkpoint, Wr!JobCanceled, Wr!JobFails, Wr!registry, Wr!receipts, WriterTypes, Wr!WriterAssumption
<1>. DEFINE Becomes(r) ==
                /\ job' = [job EXCEPT ![j] = r] /\ sink' \in Nat
                /\ r.latest = Wr!NoCheckpoint => old.latest = Wr!NoCheckpoint
                /\ LET covers == IF r.latest = Wr!NoCheckpoint THEN r.from ELSE r.latest.pos
                   IN  r.from <= covers /\ covers <= r.read /\ r.read <= topic /\ sink' <= covers
<1>6. \E r \in t : Becomes(r)
    <2>1. ASSUME NEW s \in JobStates \ {"unused"}, job' = [job EXCEPT ![j].state = s], sink' = sink
          PROVE  \E r \in t : Becomes(r)
        <3>. DEFINE r == [old EXCEPT !.state = s]
        <3>1. r \in t /\ r.from = old.from /\ r.read = old.read /\ r.latest = old.latest
            BY <1>3
        <3>2. job' = [job EXCEPT ![j] = r]
            BY <2>1
        <3>. HIDE DEF r, t, old
        <3>. QED  BY <1>3, <1>4, <2>1, <3>1, <3>2
    <2>2. CASE Wr!JobStarts(j)
        BY <2>1, <2>2 DEF Wr!JobStarts, JobStates
    <2>3. CASE Wr!JobCanceled(j)
        BY <2>1, <2>3 DEF Wr!JobCanceled, JobStates
    <2>4. CASE Wr!JobReads(j)
        <3>. DEFINE r == [old EXCEPT !.read = @ + 1]
        <3>1. r \in t /\ r.from = old.from /\ r.read = old.read + 1 /\ r.latest = old.latest
            BY <1>3
        <3>2. job' = [job EXCEPT ![j] = r] /\ sink' = sink /\ old.read < topic
            BY <2>4 DEF Wr!JobReads
        <3>. HIDE DEF r, t, old
        <3>3. old.read + 1 <= topic
            BY <1>3, <1>4, <3>2
        <3>4. Becomes(r)
            BY <1>3, <1>4, <3>1, <3>2, <3>3
        <3>. QED  BY <3>1, <3>4
    <2>5. CASE Wr!Checkpoint(j)
        <3>. DEFINE r == [old EXCEPT !.latest = [id |-> @.id + 1, pos |-> old.read]]
        <3>1. old.latest.id \in Nat
            BY <1>4 DEF Checkpoints
        <3>2. [id |-> old.latest.id + 1, pos |-> old.read] \in Checkpoints
            BY <1>4, <3>1 DEF Checkpoints
        <3>3. r.latest = [id |-> old.latest.id + 1, pos |-> old.read] /\ r.from = old.from /\ r.read = old.read
            BY <1>3
        <3>4. r \in t
            BY <1>3, <3>2
        <3>5. r.latest # Wr!NoCheckpoint /\ r.latest.pos = old.read
            <4>1. r.latest.id = old.latest.id + 1 /\ r.latest.pos = old.read
                BY <3>3
            <4>2. Wr!NoCheckpoint.id = 0
                BY DEF Wr!NoCheckpoint
            <4>. QED  BY <3>1, <4>1, <4>2
        <3>6. job' = [job EXCEPT ![j] = r] /\ sink' \in {sink, IF old.read > sink THEN old.read ELSE sink}
            BY <2>5 DEF Wr!Checkpoint
        <3>. HIDE DEF r, t, old
        <3>7. sink' \in Nat /\ sink' <= old.read
            BY <1>3, <1>4, <3>6
        <3>8. r.from <= old.read /\ r.read = old.read
            BY <1>4, <3>3
        <3>9. Becomes(r)
            BY <1>4, <3>5, <3>6, <3>7, <3>8
        <3>. QED  BY <3>4, <3>9
    <2>6. CASE Wr!JobFails(j)
        <3>1. CASE job' = [job EXCEPT ![j].state = "failed"] /\ UNCHANGED sink
            BY <2>1, <3>1 DEF JobStates
        <3>2. CASE /\ job' = [job EXCEPT ![j].state = "starting", ![j].read = Covered(j)]
                   /\ sink' = IF Covered(j) > sink THEN Covered(j) ELSE sink
            <4>. DEFINE r == [old EXCEPT !.state = "starting", !.read = Covered(j)]
            <4>1. r \in t
                BY <1>3, <1>4 DEF JobStates
            <4>2. r.from = old.from /\ r.read = Covered(j) /\ r.latest = old.latest
                BY <1>3
            <4>3. job' = [job EXCEPT ![j] = r]
                BY <3>2, <1>3 DEF WriterTypes
            <4>. HIDE DEF r, t, old
            <4>4. sink' \in Nat /\ sink' <= Covered(j)
                BY <1>3, <1>4, <3>2
            <4>5. Covered(j) <= topic
                BY <1>3, <1>4
            <4>6. Becomes(r)
                BY <1>4, <4>2, <4>3, <4>4, <4>5
            <4>. QED  BY <4>1, <4>6
        <3>. QED  BY <2>6, <3>1, <3>2 DEF Wr!JobFails, Covered
    <2>. QED  BY <2>2, <2>3, <2>4, <2>5, <2>6
<1>7. PICK r \in t : Becomes(r)
    BY <1>6
<1>8. /\ job' \in [Wr!Jobs -> [state : JobStates, from : Nat, read : Nat, latest : Checkpoints]]
      /\ JobsRight(k)' /\ LastWrites(k)' /\ LedgerRight(k)' /\ OpRight(k)'
    BY <1>1, <1>2, <1>5, <1>7, JobOne
<1>9. WriterTypes'
    BY <1>5, <1>7, <1>8 DEF WriterTypes
<1>. QED  BY <1>8, <1>9

\* The empty engines.
LEMMA WriterInitially ==
    ASSUME Wr!WriterAssumption, Wr!Init
    PROVE  WriterInv
<1>1. Wr!NoCheckpoint \in Checkpoints /\ Wr!Unused.state = "unused" /\ Wr!Unused.from = 0 /\ Wr!Unused.read = 0
      /\ Wr!Unused.latest = Wr!NoCheckpoint
      /\ Wr!Unused \in [state : JobStates, from : Nat, read : Nat, latest : Checkpoints]
    BY DEF Wr!Unused, Wr!NoCheckpoint, Checkpoints, JobStates
<1>2. WriterTypes
    <2>1. /\ expired \in BOOLEAN /\ up \in BOOLEAN /\ torn \in BOOLEAN
          /\ submission \in {"none", "submitting", "acknowledged"}
          /\ first \in Wr!Jobs \union {None} /\ listed \in SUBSET Wr!Jobs
          /\ lock \in {None, "operator", "sync"} /\ sink \in Nat
        BY DEF Wr!Init
    <2>2. topic \in 0..MaxRows /\ faults \in 0..WriterFaults
        BY DEF Wr!Init, Wr!WriterAssumption
    <2>3. setup \in [marker : BOOLEAN, ddl : BOOLEAN, intent : BOOLEAN, registered : BOOLEAN,
                     completed : BOOLEAN]
        BY DEF Wr!Init
    <2>4. job \in [Wr!Jobs -> [state : JobStates, from : Nat, read : Nat, latest : Checkpoints]]
        BY <1>1 DEF Wr!Init
    <2>5. ledger \in Seq(Records)
        BY DEF Wr!Init
    <2>6. op \in [pc : {"idle", "ddl", "register"} \union Alone \union Locked,
                  job : Wr!Jobs \union {None}, candidate : Checkpoints]
        BY <1>1 DEF Wr!Init, Wr!Rest
    <2>. QED  BY <2>1, <2>2, <2>3, <2>4, <2>5, <2>6 DEF Positions, WriterTypes
<1>3. \A j \in Wr!Jobs : job[j] = Wr!Unused /\ j > 0
    BY DEF Wr!Init, Wr!Jobs
<1>4. JobsRight(0) /\ LastWrites(0)
    BY <1>1, <1>3 DEF Wr!Init, JobsRight, LastWrites, Wr!Active, Covered
<1>5. LedgerRight(0)
    BY DEF Wr!Init, LedgerRight, Wr!State, Round
<1>6. OpRight(0)
    BY DEF Wr!Init, OpRight, Wr!Rest, Alone, Locked
<1>. QED  BY <1>2, <1>4, <1>5, <1>6 DEF WriterInv, WriterAt, Wr!WriterAssumption

\* Every step keeps the invariant.
LEMMA WriterStep ==
    ASSUME Wr!WriterAssumption, WriterInv, [Wr!Next]_(Wr!vars)
    PROVE  WriterInv'
<1>1. PICK k \in 0..MaxJobs : WriterAt(k)
    BY DEF WriterInv
<1>2. WriterTypes
    BY DEF WriterInv
<1>3. CASE Wr!Initialize
    BY <1>1, <1>2, <1>3, InitializeStep DEF WriterInv
<1>4. CASE Wr!Submit
    BY <1>1, <1>2, <1>4, SubmitStep DEF WriterInv
<1>5. CASE Wr!Pause
    BY <1>1, <1>2, <1>5, PauseStep DEF WriterInv
<1>6. CASE Wr!Resume
    BY <1>1, <1>2, <1>6, ResumeStep DEF WriterInv
<1>7. CASE Wr!OperationFails \/ Wr!OperationDies \/ Wr!BeginDies \/ Wr!SyncBegin \/ Wr!SyncSend \/ Wr!SyncEnd \/ Wr!Start \/ Wr!Stop \/ Wr!Expire
           \/ UNCHANGED Wr!vars
    BY <1>1, <1>2, <1>7, OtherStep DEF WriterInv
<1>8. ASSUME NEW j \in Wr!Jobs, Wr!JobStarts(j) \/ Wr!JobReads(j) \/ Wr!Checkpoint(j) \/ Wr!JobCanceled(j) \/ Wr!JobFails(j)
      PROVE  WriterInv'
    BY <1>1, <1>2, <1>8, JobStep DEF WriterInv
<1>. QED  BY <1>3, <1>4, <1>5, <1>6, <1>7, <1>8 DEF Wr!Next

\* What is promised follows from it.
LEMMA WriterIsSound ==
    ASSUME Wr!WriterAssumption, WriterInv
    PROVE  Wr!WriterSound
<1>1. PICK k \in 0..MaxJobs : WriterAt(k)
    BY DEF WriterInv
<1>2. WriterTypes /\ JobsRight(k) /\ LastWrites(k) /\ LedgerRight(k) /\ OpRight(k)
    BY <1>1 DEF WriterInv, WriterAt
<1>3. \A j \in Wr!Active : j = k /\ j \in Wr!Jobs /\ k > 0
    BY <1>2 DEF LastWrites, Wr!Active, Wr!Jobs
<1>4. \A j \in Wr!Jobs : /\ job[j].state \in JobStates /\ job[j].from \in Nat /\ job[j].read \in Nat
                      /\ job[j].latest \in Checkpoints
    BY <1>2 DEF WriterTypes
<1>5. topic \in Nat /\ sink \in Nat /\ \A j \in Wr!Jobs : Covered(j) \in Nat
    BY <1>2, <1>4 DEF WriterTypes, Wr!WriterAssumption, Covered, Checkpoints
<1>6. Wr!OneWriter
    <2>1. CASE Wr!Active = {}
        <3>1. Cardinality({}) = 0
            BY FS_EmptySet
        <3>. QED  BY <2>1, <3>1 DEF Wr!OneWriter, Wr!Cardinality, Cardinality
    <2>2. CASE Wr!Active # {}
        <3>1. Wr!Active = {k}
            BY <1>3, <2>2, Zenon
        <3>2. Cardinality({k}) = 1
            BY FS_Singleton
        <3>. QED  BY <3>1, <3>2 DEF Wr!OneWriter, Wr!Cardinality, Cardinality
    <2>. QED  BY <2>1, <2>2
<1>7. Wr!VisibleOnce
    <2>1. ASSUME NEW j \in Wr!Active PROVE sink <= job[j].read
        <3>1. j \in Wr!Jobs /\ sink <= Covered(j)
            BY <1>2, <1>3 DEF LastWrites
        <3>2. Covered(j) <= job[j].read
            BY <1>2, <3>1 DEF JobsRight
        <3>. QED  BY <1>4, <1>5, <3>1, <3>2
    <2>. QED  BY <2>1 DEF Wr!VisibleOnce
<1>8. k \in Wr!Jobs => sink <= topic
    BY <1>2, <1>4, <1>5 DEF JobsRight, LastWrites, Wr!Jobs
<1>9. sink <= topic
    BY <1>2, <1>5, <1>8 DEF LastWrites, Wr!Jobs, Wr!WriterAssumption
<1>10. Wr!PausedStateIntact
    <2>. SUFFICES ASSUME Wr!State = "paused"
                  PROVE  /\ Wr!Active = {} /\ Wr!Last(ledger).checkpoint = job[Wr!Last(ledger).job].latest
                         /\ sink <= Wr!Last(ledger).checkpoint.pos
        BY DEF Wr!PausedStateIntact
    <2>1. first # None
        BY <1>2 DEF LedgerRight, Wr!State
    <2>2. k # 0
        BY <1>2, <2>1 DEF LedgerRight
    <2>3. Covered(k) = job[k].latest.pos
        BY <1>2 DEF LedgerRight, Covered
    <2>. QED  BY <1>2, <2>2, <2>3 DEF LedgerRight, LastWrites
<1>11. \A j \in Wr!Jobs : job[j].latest.pos <= job[j].read
    <2>1. Wr!NoCheckpoint.pos = 0
        BY DEF Wr!NoCheckpoint
    <2>. QED  BY <1>2, <1>4, <1>5, <2>1 DEF JobsRight, Covered
<1>12. Wr!TypeOK
    <2>1. \A j \in Wr!Jobs : job[j].from <= job[j].read /\ job[j].read <= topic
        BY <1>2, <1>4, <1>5 DEF JobsRight
    <2>2. \A i \in DOMAIN ledger :
            ledger[i].action = <<"pause_requested", "paused", "resume_requested",
                                 "resume_acknowledged", "resumed">>[((i - 1) % 5) + 1]
        BY <1>2 DEF LedgerRight, Round, Turn
    <2>3. \A j \in Wr!Jobs : job[j].state \in {"unused", "starting", "running", "canceling", "canceled", "failed", "lost"}
        BY <1>4 DEF JobStates
    <2>4. sink \in 0..topic
        BY <1>5, <1>9
    <2>. QED  BY <1>2, <1>11, <2>1, <2>2, <2>3, <2>4 DEF WriterTypes, Wr!TypeOK
<1>. QED  BY <1>6, <1>7, <1>10, <1>12 DEF Wr!WriterSound

\* One job at most writes to the tables of an epoch, nothing visible is written again, and a
\* paused state is the newest and whole, whatever dies or fails between the records of the
\* ledger (submit, controlled pause and resume).
THEOREM OneWriterAlone ==
    Wr!Spec => []WriterSound
<1>1. Wr!Init => WriterInv
    BY WriterInitially, LaboratoryAssumption
<1>2. WriterInv /\ [Wr!Next]_(Wr!vars) => WriterInv'
    BY WriterStep, LaboratoryAssumption
<1>3. WriterInv => WriterSound
    BY WriterIsSound, LaboratoryAssumption DEF WriterSound
<1>. QED  BY <1>1, <1>2, <1>3, PTL DEF Wr!Spec

\* While a synchronisation has the lock, no operation is at a place that writes a record.
LEMMA LeaseHolds ==
    ASSUME Wr!WriterAssumption, WriterInv, [Wr!Next]_(Wr!vars)
    PROVE  Wr!LeaseStep
<1>1. PICK k \in 0..MaxJobs : WriterAt(k)
    BY DEF WriterInv
<1>2. op.pc \in Locked => lock = "operator"
    BY <1>1 DEF WriterAt, OpRight
<1>3. lock = "sync" => lock # None
    BY DEF Wr!WriterAssumption
<1>4. ASSUME lock = "sync"
      PROVE  ledger' = ledger
    <2>1. op.pc \notin Locked /\ lock # None
        BY <1>2, <1>3, <1>4
    <2>2. CASE Wr!Initialize \/ Wr!Submit
        BY <2>2 DEF Wr!Initialize, Wr!InitBegin, Wr!InitTables, Wr!FinalizeBegin, Wr!Register, Wr!Submit, Wr!SubmitBegin, Wr!SubmitRun,
                    Wr!SubmitAcknowledge, Wr!SubmitRecord, Wr!receipts
    <2>3. CASE Wr!Pause
        BY <2>1, <2>3 DEF Wr!Pause, Wr!PauseBegin, Wr!PauseLook, Wr!PauseCancel, Wr!PauseRecord, Wr!PauseStop, Wr!receipts, Locked
    <2>4. CASE Wr!Resume
        BY <2>1, <2>4 DEF Wr!Resume, Wr!ResumeBegin, Wr!ResumeSubmit, Wr!ResumeAcknowledge, Wr!ResumeRecord, Wr!receipts, Locked
    <2>5. CASE Wr!OperationFails \/ Wr!OperationDies \/ Wr!BeginDies \/ Wr!SyncBegin \/ Wr!SyncSend \/ Wr!SyncEnd \/ Wr!Start \/ Wr!Stop \/ Wr!Expire
        BY <2>5 DEF Wr!OperationFails, Wr!OperationDies, Wr!BeginDies, Wr!SyncBegin, Wr!SyncSend, Wr!SyncEnd, Wr!Start, Wr!Stop, Wr!Expire, Wr!receipts
    <2>6. CASE \E j \in Wr!Jobs : Wr!JobStarts(j) \/ Wr!JobReads(j) \/ Wr!Checkpoint(j) \/ Wr!JobCanceled(j) \/ Wr!JobFails(j)
        BY <2>6 DEF Wr!JobStarts, Wr!JobReads, Wr!Checkpoint, Wr!JobCanceled, Wr!JobFails, Wr!receipts
    <2>. QED  BY <2>2, <2>3, <2>4, <2>5, <2>6 DEF Wr!Next, Wr!vars
<1>5. topic' = topic \/ Wr!SyncSend
    <2>1. CASE Wr!Initialize \/ Wr!Submit
        BY <2>1 DEF Wr!Initialize, Wr!InitBegin, Wr!InitTables, Wr!FinalizeBegin, Wr!Register, Wr!Submit, Wr!SubmitBegin, Wr!SubmitRun,
                    Wr!SubmitAcknowledge, Wr!SubmitRecord
    <2>2. CASE Wr!Pause \/ Wr!Resume
        BY <2>2 DEF Wr!Pause, Wr!PauseBegin, Wr!PauseLook, Wr!PauseCancel, Wr!PauseRecord, Wr!PauseStop,
                    Wr!Resume, Wr!ResumeBegin, Wr!ResumeSubmit, Wr!ResumeAcknowledge, Wr!ResumeRecord
    <2>3. CASE Wr!OperationFails \/ Wr!OperationDies \/ Wr!BeginDies \/ Wr!SyncBegin \/ Wr!SyncEnd \/ Wr!Start \/ Wr!Stop \/ Wr!Expire
        BY <2>3 DEF Wr!OperationFails, Wr!OperationDies, Wr!BeginDies, Wr!SyncBegin, Wr!SyncEnd, Wr!Start, Wr!Stop, Wr!Expire
    <2>4. CASE \E j \in Wr!Jobs : Wr!JobStarts(j) \/ Wr!JobReads(j) \/ Wr!Checkpoint(j) \/ Wr!JobCanceled(j) \/ Wr!JobFails(j)
        BY <2>4 DEF Wr!JobStarts, Wr!JobReads, Wr!Checkpoint, Wr!JobCanceled, Wr!JobFails
    <2>. QED  BY <2>1, <2>2, <2>3, <2>4 DEF Wr!Next, Wr!vars
<1>. QED  BY <1>4, <1>5 DEF Wr!LeaseStep, Wr!SyncSend, Wr!SyncReady, Wr!Readable

-----------------------------------------------------------------------------
(* The archive of releases and its bounded copies.  That a pointer is good   *)
(* needs what its publisher is about to do: between its steps the pointer    *)
(* may expire, the entry it registered may be removed and it may die.  That  *)
(* the copies agree needs what a transfer has reserved before it was purged. *)

\* The releases there can be, and the values of the variables.
Possible == {Re!Release(o) : o \in {p \in Offers : Re!Matched(p)}}
Shown == Possible \cup {None}
Copies == [Re!Hosts -> [Runs -> Shown]]
Transfers == [pc : {"idle", "export", "manifest", "pair", "accept"}, host : Re!Hosts, run : Runs]

ReleasesTypes ==
    /\ day \in Int
    /\ entries \in [Re!Archives -> SUBSET Possible] /\ files \in [Re!Archives -> SUBSET Possible]
    /\ pointer \in [Re!Archives -> Shown]
    /\ publisher \in [Re!Archives -> {Re!Idle} \cup [pc : {"write", "replace", "point"}, release : Possible]]
    /\ manifest \in Copies /\ reserved \in Copies /\ pair \in Copies
    /\ temp \in [Re!Hosts -> [Runs -> Shown \cup {Re!Broken}]]
    /\ stage \in {Re!Idle} \cup Transfers

\* A file that is not listed has expired; a live pointer designates a file that is; what a
\* publisher is about to point to is listed, follows what lives, and is that of its run.
ArchiveRight(d) ==
    /\ \A x \in files[d] \ entries[d] : ~ Re!Live(x)
    /\ pointer[d] # None /\ Re!Live(pointer[d]) => pointer[d] \in files[d] \cap entries[d]
    /\ publisher[d].pc # "idle" =>
         /\ Re!Live(publisher[d].release) =>
              publisher[d].release \in entries[d] /\ (publisher[d].pc = "point" => publisher[d].release \in files[d])
         /\ pointer[d] # None /\ Re!Live(pointer[d]) => Re!Follows(pointer[d], publisher[d].release)

\* The archive of a run shows nothing but what its manifest names.
RunRight(r) ==
    /\ pointer[r] # None => pointer[r] = manifest["analysis"][r]
    /\ publisher[r].pc # "idle" => publisher[r].release = manifest["analysis"][r] /\ manifest["analysis"][r] # None

\* Manifests agree and stay; reservations and pairs are those of the manifest; what lies
\* without a reservation has expired.
CopyRight(h, r) ==
    /\ manifest[h][r] # None => manifest[h][r] = manifest["control"][r] /\ manifest[h][r].run = r
    /\ reserved[h][r] # None => reserved[h][r] = manifest[h][r]
    /\ pair[h][r] # None => pair[h][r] = manifest[h][r]
    /\ temp[h][r] # None => manifest[h][r] # None
    /\ reserved[h][r] = None /\ (temp[h][r] # None \/ pair[h][r] # None) => ~ Re!Live(manifest[h][r])

\* A transfer has a manifest to send, or one it has reserved and, while it lives, still has.
TransferRight ==
    /\ stage.pc = "manifest" => stage.host # "control" /\ manifest[Re!Sender(stage.host)][stage.run] # None
    /\ stage.pc \in {"pair", "accept"} =>
         /\ stage.host # "control" /\ manifest[stage.host][stage.run] # None
         /\ reserved[stage.host][stage.run] = None => ~ Re!Live(manifest[stage.host][stage.run])

Archived == /\ \A d \in Re!Archives : ArchiveRight(d)
            /\ \A r \in Runs : RunRight(r)
Copied == (\A h \in Re!Hosts, r \in Runs : CopyRight(h, r)) /\ TransferRight
ReleasesInv == ReleasesTypes /\ Archived /\ Copied

\* A release lives until a day.
LEMMA LivesUntil ==
    ASSUME Re!ReleasesAssumption
    PROVE  \A x \in Possible : Re!Expires(x) \in Int
BY DEF Re!ReleasesAssumption, Possible, Re!Release, Re!Expires

\* The invariant holds in the initial state and is kept by every step.
LEMMA ReleasesInitially ==
    ASSUME Re!ReleasesAssumption, Re!Init
    PROVE  ReleasesInv
<1>1. ReleasesTypes
    BY DEF Re!Init, ReleasesTypes, Copies, Shown, Re!Nothing
<1>2. Archived
    BY DEF Re!Init, Archived, ArchiveRight, RunRight, Re!Idle, Re!Archives
<1>3. Copied
    BY DEF Re!Init, Copied, CopyRight, TransferRight, Re!Nothing, Re!Idle
<1>. QED  BY <1>1, <1>2, <1>3 DEF ReleasesInv

\* A publication begins in an archive.
LEMMA BeginKeeps ==
    ASSUME Re!ReleasesAssumption, ReleasesTypes, NEW d \in Re!Archives, NEW x \in Possible, Re!Begin(d, x),
           ArchiveRight(d), day' = day
    PROVE  /\ entries' \in [Re!Archives -> SUBSET Possible] /\ files' \in [Re!Archives -> SUBSET Possible]
           /\ publisher' \in [Re!Archives -> {Re!Idle} \cup [pc : {"write", "replace", "point"}, release : Possible]]
           /\ ArchiveRight(d)'
           /\ pointer' = pointer /\ publisher'[d] = [pc |-> "write", release |-> x]
           /\ \A e \in Re!Archives \ {d} : /\ entries'[e] = entries[e] /\ files'[e] = files[e]
                                           /\ publisher'[e] = publisher[e]
<1>. DEFINE kept(S) == {y \in S : Re!Live(y)}
<1>1. /\ entries' = [entries EXCEPT ![d] = kept(entries[d]) \cup {x}]
      /\ files' = [files EXCEPT ![d] = kept(files[d])]
      /\ publisher' = [publisher EXCEPT ![d] = [pc |-> "write", release |-> x]]
      /\ pointer' = pointer /\ publisher[d] = Re!Idle /\ ~ Re!Refused(d)
      /\ Re!Readable(d) # None => Re!Follows(Re!Readable(d), x)
    BY DEF Re!Begin, Re!Kept
<1>2. kept(entries[d]) \in SUBSET Possible /\ kept(files[d]) \in SUBSET Possible
    BY DEF ReleasesTypes
<1>3. [pc |-> "write", release |-> x] \in [pc : {"write", "replace", "point"}, release : Possible]
    OBVIOUS
<1>4. /\ entries' \in [Re!Archives -> SUBSET Possible] /\ files' \in [Re!Archives -> SUBSET Possible]
      /\ publisher' \in [Re!Archives -> {Re!Idle} \cup [pc : {"write", "replace", "point"}, release : Possible]]
    BY <1>1, <1>2, <1>3 DEF ReleasesTypes
<1>5. /\ entries'[d] = kept(entries[d]) \cup {x} /\ files'[d] = kept(files[d])
      /\ publisher'[d] = [pc |-> "write", release |-> x]
    BY <1>1 DEF ReleasesTypes
<1>6. \A y : Re!Live(y)' <=> Re!Live(y)
    BY DEF Re!Live, Re!Expires
<1>7. pointer[d] # None /\ Re!Live(pointer[d]) => Re!Readable(d) = pointer[d]
    BY <1>1 DEF ArchiveRight, Re!Readable, Re!Pointed
<1>8. ArchiveRight(d)'
    BY <1>1, <1>5, <1>6, <1>7 DEF ArchiveRight, Re!Live, Re!Expires
<1>. QED  BY <1>1, <1>4, <1>5, <1>8 DEF ReleasesTypes

\* A step in an archive.
LEMMA ArchiveStep ==
    ASSUME Re!ReleasesAssumption, ReleasesInv,
           \/ \E o \in Offers : Re!Publish(o)
           \/ \E d \in Re!Archives : Re!Clean(d) \/ Re!Write(d) \/ Re!Replace(d) \/ Re!Point(d) \/ Re!Die(d)
                                    \/ Re!DieCleaning(d)
    PROVE  ReleasesInv'
<1>. USE DEF ReleasesInv
<1>1. UNCHANGED <<day, manifest, reserved, temp, pair, stage>>
    BY DEF Re!Publish, Re!Clean, Re!Write, Re!Replace, Re!Point, Re!Die, Re!DieCleaning, Re!copies
<1>2. Copied'
    BY <1>1 DEF Copied, CopyRight, TransferRight, Re!Live, Re!Expires, Re!Sender
<1>3. ASSUME NEW d \in Re!Archives,
             /\ entries' \in [Re!Archives -> SUBSET Possible] /\ files' \in [Re!Archives -> SUBSET Possible]
             /\ pointer' \in [Re!Archives -> Shown]
             /\ publisher' \in [Re!Archives -> {Re!Idle} \cup [pc : {"write", "replace", "point"}, release : Possible]],
             ArchiveRight(d)', d # "control" => RunRight(d)',
             \A e \in Re!Archives \ {d} : /\ entries'[e] = entries[e] /\ files'[e] = files[e]
                                          /\ pointer'[e] = pointer[e] /\ publisher'[e] = publisher[e]
      PROVE  ReleasesInv'
    <2>1. ReleasesTypes'
        BY <1>1, <1>3 DEF ReleasesTypes
    <2>2. \A e \in Re!Archives \ {d} : ArchiveRight(e)'
        BY <1>1, <1>3 DEF Archived, ArchiveRight, Re!Live, Re!Expires, Re!Follows
    <2>3. \A r \in Runs : r \in Re!Archives /\ r # "control"
        BY DEF Re!Archives, Re!ReleasesAssumption
    <2>4. \A r \in Runs : RunRight(r)'
        BY <1>1, <1>3, <2>3 DEF Archived, RunRight
    <2>. QED  BY <1>2, <1>3, <2>1, <2>2, <2>4 DEF Archived
<1>4. ASSUME NEW o \in Offers, Re!Publish(o)
      PROVE  ReleasesInv'
    <2>. DEFINE x == Re!Release(o)
    <2>1. x \in Possible /\ "control" \in Re!Archives /\ Re!Begin("control", x)
        BY <1>4 DEF Possible, Re!Archives, Re!Publish
    <2>. HIDE DEF x
    <2>2. ArchiveRight("control")
        BY <2>1 DEF Archived
    <2>3. /\ entries' \in [Re!Archives -> SUBSET Possible] /\ files' \in [Re!Archives -> SUBSET Possible]
          /\ publisher' \in [Re!Archives -> {Re!Idle} \cup [pc : {"write", "replace", "point"}, release : Possible]]
          /\ ArchiveRight("control")' /\ pointer' = pointer
          /\ \A e \in Re!Archives \ {"control"} : /\ entries'[e] = entries[e] /\ files'[e] = files[e]
                                                  /\ publisher'[e] = publisher[e]
        BY <1>1, <2>1, <2>2, BeginKeeps
    <2>. QED  BY <1>3, <2>1, <2>3 DEF ReleasesTypes
<1>5. ASSUME NEW d \in Re!Archives, Re!Clean(d)
      PROVE  ReleasesInv'
    <2>. DEFINE kept(S) == {y \in S : Re!Live(y)}
    <2>1. /\ entries' = [entries EXCEPT ![d] = kept(entries[d])] /\ files' = [files EXCEPT ![d] = kept(files[d])]
          /\ UNCHANGED <<pointer, publisher>>
        BY <1>5 DEF Re!Clean, Re!Kept
    <2>2. kept(entries[d]) \in SUBSET Possible /\ kept(files[d]) \in SUBSET Possible
        BY DEF ReleasesTypes
    <2>3. entries'[d] = kept(entries[d]) /\ files'[d] = kept(files[d])
        BY <2>1 DEF ReleasesTypes
    <2>4. ArchiveRight(d)'
        BY <1>1, <2>1, <2>3 DEF Archived, ArchiveRight, Re!Live, Re!Expires, Re!Follows
    <2>5. d # "control" => RunRight(d)'
        BY <1>1, <2>1 DEF Archived, RunRight, Re!Archives
    <2>6. /\ entries' \in [Re!Archives -> SUBSET Possible] /\ files' \in [Re!Archives -> SUBSET Possible]
          /\ pointer' \in [Re!Archives -> Shown]
        BY <2>1, <2>2 DEF ReleasesTypes
    <2>. QED  BY <1>3, <2>1, <2>4, <2>5, <2>6 DEF ReleasesTypes
<1>6. ASSUME NEW d \in Re!Archives, Re!Write(d) \/ Re!Replace(d) \/ Re!Point(d) \/ Re!Die(d)
      PROVE  ReleasesInv'
    <2>1. /\ publisher[d].pc \in {"write", "replace", "point"} /\ publisher[d].release \in Possible
          /\ publisher[d] # Re!Idle
        BY <1>6 DEF Re!Write, Re!Replace, Re!Point, Re!Die, ReleasesTypes, Re!Idle
    <2>2. entries' = entries
        BY <1>6 DEF Re!Write, Re!Replace, Re!Point, Re!Die
    <2>3. CASE Re!Write(d) \/ Re!Replace(d)
        <3>. PICK pc \in {"replace", "point"} :
                 /\ publisher' = [publisher EXCEPT ![d] = [publisher[d] EXCEPT !.pc = pc]]
                 /\ files' = [files EXCEPT ![d] = files[d] \cup (IF pc = "point" THEN {publisher[d].release} ELSE {})]
                 /\ pointer' = pointer /\ (publisher[d].pc = "point" => pc = "point")
            <4>1. files \in [Re!Archives -> SUBSET Possible]
                BY DEF ReleasesTypes
            <4>2. CASE Re!Write(d)
                <5>1. files' = [files EXCEPT ![d] = files[d] \cup {}]
                    BY <4>1, <4>2 DEF Re!Write
                <5>. QED  BY <4>2, <5>1 DEF Re!Write
            <4>3. CASE Re!Replace(d)
                BY <4>3 DEF Re!Replace
            <4>. QED  BY <2>3, <4>2, <4>3
        <3>1. /\ [publisher[d] EXCEPT !.pc = pc] \in [pc : {"write", "replace", "point"}, release : Possible]
              /\ [publisher[d] EXCEPT !.pc = pc].release = publisher[d].release
              /\ [publisher[d] EXCEPT !.pc = pc].pc = pc
            BY <2>1 DEF ReleasesTypes, Re!Idle
        <3>2. /\ files' \in [Re!Archives -> SUBSET Possible]
              /\ publisher' \in [Re!Archives -> {Re!Idle} \cup [pc : {"write", "replace", "point"}, release : Possible]]
            BY <2>1, <3>1 DEF ReleasesTypes
        <3>3. /\ files[d] \subseteq files'[d] /\ files'[d] \subseteq files[d] \cup {publisher[d].release}
              /\ pc = "point" => publisher[d].release \in files'[d]
              /\ publisher'[d].release = publisher[d].release /\ publisher'[d].pc = pc
            BY <3>1 DEF ReleasesTypes
        <3>4. ArchiveRight(d)'
            BY <1>1, <2>1, <2>2, <3>3 DEF Archived, ArchiveRight, Re!Live, Re!Expires, Re!Follows
        <3>5. d # "control" => RunRight(d)'
            BY <1>1, <2>1, <3>3 DEF Archived, RunRight, Re!Archives
        <3>. QED  BY <1>3, <2>2, <3>2, <3>4, <3>5 DEF ReleasesTypes
    <2>4. CASE Re!Point(d) \/ Re!Die(d)
        <3>1. /\ publisher' = [publisher EXCEPT ![d] = Re!Idle] /\ files' = files
              /\ \/ pointer' = pointer
                 \/ /\ pointer' = [pointer EXCEPT ![d] = publisher[d].release]
                    /\ files[d] \subseteq entries[d] /\ publisher[d].release \in files[d]
            BY <2>4 DEF Re!Point, Re!Die, Re!Orderly
        <3>2. publisher' \in [Re!Archives -> {Re!Idle} \cup [pc : {"write", "replace", "point"}, release : Possible]]
            BY <3>1 DEF ReleasesTypes
        <3>3. pointer' \in [Re!Archives -> Shown]
            BY <2>1, <3>1 DEF ReleasesTypes, Shown
        <3>4. publisher'[d].pc = "idle" /\ \/ pointer'[d] = pointer[d]
                                           \/ pointer'[d] = publisher[d].release /\ pointer'[d] \in files[d] \cap entries[d]
            BY <3>1 DEF ReleasesTypes, Re!Idle
        <3>5. ArchiveRight(d)'
            BY <1>1, <2>2, <3>1, <3>4 DEF Archived, ArchiveRight, Re!Live, Re!Expires
        <3>6. d # "control" => RunRight(d)'
            BY <1>1, <2>1, <3>4 DEF Archived, RunRight, Re!Archives
        <3>. QED  BY <1>3, <2>2, <3>1, <3>2, <3>3, <3>5, <3>6 DEF ReleasesTypes
    <2>. QED  BY <1>6, <2>3, <2>4
<1>7. ASSUME NEW d \in Re!Archives, Re!DieCleaning(d)
      PROVE  ReleasesInv'
    <2>1. /\ UNCHANGED <<entries, files, pointer>>
          /\ publisher' = publisher \/ publisher' = [publisher EXCEPT ![d] = Re!Idle]
        BY <1>7 DEF Re!DieCleaning
    <2>2. /\ publisher' \in [Re!Archives -> {Re!Idle} \cup [pc : {"write", "replace", "point"}, release : Possible]]
          /\ publisher'[d] = publisher[d] \/ publisher'[d].pc = "idle"
          /\ \A e \in Re!Archives \ {d} : publisher'[e] = publisher[e]
        BY <2>1 DEF ReleasesTypes, Re!Idle
    <2>3. ArchiveRight(d)'
        BY <1>1, <2>1, <2>2 DEF Archived, ArchiveRight, Re!Live, Re!Expires
    <2>4. d # "control" => RunRight(d)'
        BY <1>1, <2>1, <2>2 DEF Archived, RunRight, Re!Archives
    <2>. QED  BY <1>3, <2>1, <2>2, <2>3, <2>4 DEF ReleasesTypes
<1>. QED  BY <1>4, <1>5, <1>6, <1>7

\* An archive is not disturbed by a manifest that is stored.
LEMMA ArchiveKept ==
    ASSUME Archived, UNCHANGED <<day, entries, files, pointer, publisher>>,
           \A r \in Runs : manifest["analysis"][r] # None => manifest'["analysis"][r] = manifest["analysis"][r]
    PROVE  Archived'
<1>1. \A d \in Re!Archives : ArchiveRight(d)'
    BY DEF Archived, ArchiveRight, Re!Live, Re!Expires, Re!Follows
<1>2. \A r \in Runs : RunRight(r)'
    BY DEF Archived, RunRight
<1>. QED  BY <1>1, <1>2 DEF Archived

\* A reservation stores the manifest where there is none, and changes no other.
LEMMA ReserveKeeps ==
    ASSUME ReleasesTypes, Copied, NEW h \in Re!Hosts, NEW r \in Runs, NEW x \in Possible, x # None,
           Re!Reserve(h, r, x), x.run = r, h # "control" => x = manifest["control"][r]
    PROVE  /\ manifest' \in Copies /\ reserved' \in Copies
           /\ manifest'[h][r] = x /\ reserved'[h][r] = x
           /\ \A g \in Re!Hosts, q \in Runs :
                /\ manifest[g][q] # None => manifest'[g][q] = manifest[g][q]
                /\ <<g, q>> # <<h, r>> => manifest'[g][q] = manifest[g][q] /\ reserved'[g][q] = reserved[g][q]
                /\ manifest'[g][q] # None => manifest'[g][q] = manifest'["control"][q] /\ manifest'[g][q].run = q
                /\ reserved'[g][q] # None => reserved'[g][q] = manifest'[g][q]
<1>1. /\ reserved' = [reserved EXCEPT ![h][r] = x] /\ manifest' = [manifest EXCEPT ![h][r] = x]
      /\ manifest[h][r] \in {None, x}
    BY DEF Re!Reserve, Re!Reservable
<1>2. x \in Shown
    BY DEF Shown
<1>3. manifest' \in Copies /\ reserved' \in Copies
    BY <1>1, <1>2 DEF ReleasesTypes, Copies
<1>4. \A g \in Re!Hosts, q \in Runs : 
        /\ manifest'[g][q] = IF g = h /\ q = r THEN x ELSE manifest[g][q]
        /\ reserved'[g][q] = IF g = h /\ q = r THEN x ELSE reserved[g][q]
    BY <1>1 DEF ReleasesTypes, Copies
<1>5. "control" \in Re!Hosts
    BY DEF Re!Hosts
<1>6. \A g \in Re!Hosts, q \in Runs : CopyRight(g, q)
    BY DEF Copied
<1>7. ASSUME NEW g \in Re!Hosts, NEW q \in Runs, manifest'[g][q] # None
      PROVE  manifest'[g][q] = manifest'["control"][q] /\ manifest'[g][q].run = q
    BY <1>1, <1>4, <1>5, <1>6, <1>7 DEF CopyRight
<1>8. ASSUME NEW g \in Re!Hosts, NEW q \in Runs, reserved'[g][q] # None
      PROVE  reserved'[g][q] = manifest'[g][q]
    BY <1>1, <1>4, <1>6, <1>8 DEF CopyRight
<1>. QED  BY <1>1, <1>3, <1>4, <1>7, <1>8

\* A host removes what has expired.
LEMMA PurgeKeeps ==
    ASSUME Re!ReleasesAssumption, ReleasesInv, NEW h \in Re!Hosts, Re!Purge(h)
    PROVE  ReleasesInv'
<1>. USE DEF ReleasesInv
<1>. DEFINE over == Re!Over(h)
            left(f) == [r \in Runs |-> IF r \in over THEN None ELSE f[h][r]]
<1>1. /\ reserved' = [reserved EXCEPT ![h] = left(reserved)] /\ temp' = [temp EXCEPT ![h] = left(temp)]
      /\ pair' = [pair EXCEPT ![h] = left(pair)]
      /\ UNCHANGED <<day, entries, files, pointer, publisher, manifest, stage>>
    BY DEF Re!Purge, Re!archive
<1>2. \A r \in over : reserved[h][r] # None /\ ~ Re!Live(reserved[h][r])
    BY DEF Re!Over
<1>. HIDE DEF over
<1>3. /\ left(reserved) \in [Runs -> Shown] /\ left(pair) \in [Runs -> Shown]
      /\ left(temp) \in [Runs -> Shown \cup {Re!Broken}]
    BY DEF ReleasesTypes, Copies, Shown
<1>4. ReleasesTypes'
    BY <1>1, <1>3 DEF ReleasesTypes, Copies
<1>5. \A g \in Re!Hosts, r \in Runs :
        /\ reserved'[g][r] = IF g = h /\ r \in over THEN None ELSE reserved[g][r]
        /\ temp'[g][r] = IF g = h /\ r \in over THEN None ELSE temp[g][r]
        /\ pair'[g][r] = IF g = h /\ r \in over THEN None ELSE pair[g][r]
    BY <1>1 DEF ReleasesTypes, Copies
<1>6. \A g \in Re!Hosts, r \in Runs : CopyRight(g, r)'
    BY <1>1, <1>2, <1>5 DEF Copied, CopyRight, Re!Live, Re!Expires
<1>7. TransferRight'
    <2>1. ASSUME stage.pc \in {"pair", "accept"}, reserved'[stage.host][stage.run] = None
          PROVE  ~ Re!Live(manifest[stage.host][stage.run])
        <3>1. stage.host \in Re!Hosts /\ stage.run \in Runs
            BY <2>1 DEF ReleasesTypes, Re!Idle, Transfers
        <3>. QED  BY <1>2, <1>5, <2>1, <3>1 DEF Copied, CopyRight, TransferRight
    <2>. QED  BY <1>1, <2>1 DEF Copied, TransferRight, Re!Live, Re!Expires, Re!Sender
<1>8. Archived'
    BY <1>1, ArchiveKept
<1>. QED  BY <1>4, <1>6, <1>7, <1>8 DEF Copied

\* The step of a transfer moves on.
LEMMA StepMoves ==
    ASSUME ReleasesTypes, NEW pc \in {"export", "manifest", "pair", "accept"}, NEW h \in Re!Hosts,
           NEW n \in {"idle", "manifest", "pair", "accept"}, NEW g \in Re!Hosts, Re!Step(pc, h, n, g)
    PROVE  /\ stage.pc = pc /\ stage.host = h /\ stage.run \in Runs
           /\ stage' \in Transfers /\ stage'.pc = n /\ stage'.host = g /\ stage'.run = stage.run
<1>1. stage.pc = pc /\ stage.host = h /\ stage' = [stage EXCEPT !.pc = n, !.host = g]
    BY DEF Re!Step
<1>2. stage \in Transfers
    BY <1>1 DEF ReleasesTypes, Re!Idle
<1>3. stage = [pc |-> stage.pc, host |-> stage.host, run |-> stage.run] /\ stage.run \in Runs
    BY <1>2 DEF Transfers
<1>4. stage' = [pc |-> n, host |-> g, run |-> stage.run]
    BY <1>1, <1>3
<1>. QED  BY <1>1, <1>3, <1>4 DEF Transfers

\* The control node exports what its archive shows.
LEMMA ExportKeeps ==
    ASSUME Re!ReleasesAssumption, ReleasesInv, Re!Export
    PROVE  ReleasesInv'
<1>. USE DEF ReleasesInv
<1>. DEFINE r == stage.run
            x == Re!Readable("control")
<1>1. /\ Re!Step("export", "control", "manifest", "operator")
      /\ x # None /\ x.run = r /\ Re!Reserve("control", r, x)
      /\ pair' = [pair EXCEPT !["control"][r] = x]
      /\ UNCHANGED <<day, entries, files, pointer, publisher, temp>>
    BY DEF Re!Export, Re!Exportable, Re!archive
<1>2. {"control", "operator"} \subseteq Re!Hosts /\ "control" \in Re!Archives
    BY DEF Re!Hosts, Re!Archives
<1>3. /\ stage.pc = "export" /\ stage.host = "control" /\ r \in Runs
      /\ stage' \in Transfers /\ stage'.pc = "manifest" /\ stage'.host = "operator" /\ stage'.run = r
    BY <1>1, <1>2, StepMoves
<1>4. x \in Possible
    BY <1>1, <1>2 DEF ReleasesTypes, Shown, Re!Readable
<1>. HIDE DEF r, x
<1>5. /\ manifest' \in Copies /\ reserved' \in Copies
      /\ manifest'["control"][r] = x /\ reserved'["control"][r] = x
      /\ \A g \in Re!Hosts, q \in Runs :
           /\ manifest[g][q] # None => manifest'[g][q] = manifest[g][q]
           /\ <<g, q>> # <<"control", r>> => manifest'[g][q] = manifest[g][q] /\ reserved'[g][q] = reserved[g][q]
           /\ manifest'[g][q] # None => manifest'[g][q] = manifest'["control"][q] /\ manifest'[g][q].run = q
           /\ reserved'[g][q] # None => reserved'[g][q] = manifest'[g][q]
    BY <1>1, <1>2, <1>3, <1>4, ReserveKeeps
<1>6. pair' \in Copies
    BY <1>1, <1>4 DEF ReleasesTypes, Copies, Shown
<1>7. ReleasesTypes'
    BY <1>1, <1>3, <1>5, <1>6 DEF ReleasesTypes
<1>8. \A g \in Re!Hosts, q \in Runs : pair'[g][q] = IF g = "control" /\ q = r THEN x ELSE pair[g][q]
    BY <1>1 DEF ReleasesTypes, Copies
<1>9. \A g \in Re!Hosts, q \in Runs : CopyRight(g, q)'
    <2>. SUFFICES ASSUME NEW g \in Re!Hosts, NEW q \in Runs PROVE CopyRight(g, q)'
        OBVIOUS
    <2>1. CopyRight(g, q)
        BY DEF Copied
    <2>2. CASE g = "control" /\ q = r
        BY <1>1, <1>4, <1>5, <1>8, <2>1, <2>2 DEF CopyRight, Re!Live, Re!Expires
    <2>3. CASE <<g, q>> # <<"control", r>>
        <3>1. /\ manifest'[g][q] = manifest[g][q] /\ reserved'[g][q] = reserved[g][q]
              /\ pair'[g][q] = pair[g][q] /\ temp'[g][q] = temp[g][q]
            BY <1>1, <1>5, <1>8, <2>3
        <3>2. Re!Live(manifest[g][q])' <=> Re!Live(manifest[g][q])
            BY <1>1, <3>1 DEF Re!Live, Re!Expires
        <3>. QED  BY <1>5, <2>1, <3>1, <3>2 DEF CopyRight
    <2>. QED  BY <2>2, <2>3
<1>10. TransferRight'
    BY <1>1, <1>3, <1>5 DEF TransferRight, Re!Sender
<1>11. Archived'
    BY <1>1, <1>5, ArchiveKept DEF Re!Hosts
<1>. QED  BY <1>7, <1>9, <1>10, <1>11 DEF Copied

\* A host receives and reserves the manifest.
LEMMA SendManifestKeeps ==
    ASSUME Re!ReleasesAssumption, ReleasesInv, NEW h \in Re!Hosts \ {"control"}, Re!SendManifest(h)
    PROVE  ReleasesInv'
<1>. USE DEF ReleasesInv
<1>. DEFINE r == stage.run
            x == manifest[Re!Sender(h)][stage.run]
<1>1. /\ Re!Step("manifest", h, "pair", h) /\ Re!Reserve(h, r, x)
      /\ UNCHANGED <<day, entries, files, pointer, publisher, temp, pair>>
    BY DEF Re!SendManifest, Re!archive
<1>2. h \in Re!Hosts /\ Re!Sender(h) \in Re!Hosts /\ "analysis" \in Re!Hosts
    BY DEF Re!Hosts, Re!Sender
<1>3. /\ stage.pc = "manifest" /\ stage.host = h /\ r \in Runs
      /\ stage' \in Transfers /\ stage'.pc = "pair" /\ stage'.host = h /\ stage'.run = r
    BY <1>1, <1>2, StepMoves
<1>4. x # None /\ x = manifest["control"][r] /\ x.run = r
    BY <1>2, <1>3 DEF Copied, TransferRight, CopyRight
<1>5. x \in Possible
    BY <1>2, <1>3, <1>4 DEF ReleasesTypes, Copies, Shown
<1>. HIDE DEF r, x
<1>6. /\ manifest' \in Copies /\ reserved' \in Copies
      /\ manifest'[h][r] = x /\ reserved'[h][r] = x
      /\ \A g \in Re!Hosts, q \in Runs :
           /\ manifest[g][q] # None => manifest'[g][q] = manifest[g][q]
           /\ <<g, q>> # <<h, r>> => manifest'[g][q] = manifest[g][q] /\ reserved'[g][q] = reserved[g][q]
           /\ manifest'[g][q] # None => manifest'[g][q] = manifest'["control"][q] /\ manifest'[g][q].run = q
           /\ reserved'[g][q] # None => reserved'[g][q] = manifest'[g][q]
    BY <1>1, <1>2, <1>3, <1>4, <1>5, ReserveKeeps
<1>7. ReleasesTypes'
    BY <1>1, <1>3, <1>6 DEF ReleasesTypes
<1>8. \A g \in Re!Hosts, q \in Runs : CopyRight(g, q)'
    <2>. SUFFICES ASSUME NEW g \in Re!Hosts, NEW q \in Runs PROVE CopyRight(g, q)'
        OBVIOUS
    <2>1. CopyRight(g, q)
        BY DEF Copied
    <2>2. CASE g = h /\ q = r
        BY <1>1, <1>4, <1>6, <2>1, <2>2 DEF CopyRight, Re!Live, Re!Expires
    <2>3. CASE <<g, q>> # <<h, r>>
        <3>1. /\ manifest'[g][q] = manifest[g][q] /\ reserved'[g][q] = reserved[g][q]
              /\ pair'[g][q] = pair[g][q] /\ temp'[g][q] = temp[g][q]
            BY <1>1, <1>6, <2>3
        <3>2. Re!Live(manifest[g][q])' <=> Re!Live(manifest[g][q])
            BY <1>1, <3>1 DEF Re!Live, Re!Expires
        <3>. QED  BY <1>6, <2>1, <3>1, <3>2 DEF CopyRight
    <2>. QED  BY <2>2, <2>3
<1>9. TransferRight'
    BY <1>3, <1>4, <1>6 DEF TransferRight
<1>10. Archived'
    BY <1>1, <1>2, <1>6, ArchiveKept
<1>. QED  BY <1>7, <1>8, <1>9, <1>10 DEF Copied

\* A pair travels into the temporary file, whole or not.
LEMMA SendPairKeeps ==
    ASSUME Re!ReleasesAssumption, ReleasesInv,
           Re!BreakOff \/ \E h \in Re!Hosts \ {"control"} : Re!SendPair(h)
    PROVE  ReleasesInv'
<1>. USE DEF ReleasesInv
<1>. DEFINE h == stage.host
            r == stage.run
<1>1. PICK v \in Shown \cup {Re!Broken} :
        /\ stage.pc = "pair" /\ h \in Re!Hosts /\ r \in Runs
        /\ temp' = [temp EXCEPT ![h][r] = v]
        /\ UNCHANGED <<day, entries, files, pointer, publisher, manifest, reserved, pair>>
        /\ \/ stage' = Re!Idle
           \/ stage' \in Transfers /\ stage'.pc = "accept" /\ stage'.host = h /\ stage'.run = r
    <2>1. ASSUME Re!BreakOff
          PROVE  /\ stage.pc = "pair" /\ h \in Re!Hosts /\ r \in Runs
                 /\ temp' = [temp EXCEPT ![h][r] = Re!Broken] /\ stage' = Re!Idle
                 /\ UNCHANGED <<day, entries, files, pointer, publisher, manifest, reserved, pair>>
        <3>1. stage.pc = "pair"
            BY <2>1 DEF Re!BreakOff
        <3>2. stage \in Transfers
            BY <3>1 DEF ReleasesTypes, Re!Idle
        <3>. QED  BY <2>1, <3>1, <3>2 DEF Re!BreakOff, Re!archive, Transfers
    <2>2. ASSUME NEW g \in Re!Hosts \ {"control"}, Re!SendPair(g)
          PROVE  \E v \in Shown \cup {Re!Broken} :
                    /\ stage.pc = "pair" /\ h \in Re!Hosts /\ r \in Runs
                    /\ temp' = [temp EXCEPT ![h][r] = v]
                    /\ UNCHANGED <<day, entries, files, pointer, publisher, manifest, reserved, pair>>
                    /\ stage' \in Transfers /\ stage'.pc = "accept" /\ stage'.host = h /\ stage'.run = r
        <3>1. Re!Step("pair", g, "accept", g) /\ g \in Re!Hosts /\ Re!Sender(g) \in Re!Hosts
            BY <2>2 DEF Re!SendPair, Re!Sender, Re!Hosts
        <3>2. /\ stage.pc = "pair" /\ h = g /\ r \in Runs
              /\ stage' \in Transfers /\ stage'.pc = "accept" /\ stage'.host = h /\ stage'.run = r
            BY <3>1, StepMoves
        <3>3. pair[Re!Sender(g)][r] \in Shown
            BY <3>1, <3>2 DEF ReleasesTypes, Copies
        <3>. QED  BY <2>2, <3>1, <3>2, <3>3 DEF Re!SendPair, Re!archive
    <2>. QED  BY <2>1, <2>2
<1>. HIDE DEF h, r
<1>2. temp' \in [Re!Hosts -> [Runs -> Shown \cup {Re!Broken}]]
    BY <1>1 DEF ReleasesTypes
<1>3. ReleasesTypes'
    BY <1>1, <1>2 DEF ReleasesTypes
<1>4. \A g \in Re!Hosts, q \in Runs : temp'[g][q] = IF g = h /\ q = r THEN v ELSE temp[g][q]
    BY <1>1 DEF ReleasesTypes
<1>5. manifest[h][r] # None /\ (reserved[h][r] = None => ~ Re!Live(manifest[h][r])) /\ h # "control"
    BY <1>1 DEF Copied, TransferRight, h, r
<1>6. \A g \in Re!Hosts, q \in Runs : CopyRight(g, q)'
    BY <1>1, <1>4, <1>5 DEF Copied, CopyRight, Re!Live, Re!Expires
<1>7. TransferRight'
    BY <1>1, <1>5 DEF TransferRight, Re!Idle, Re!Live, Re!Expires
<1>8. Archived'
    BY <1>1, ArchiveKept
<1>. QED  BY <1>3, <1>6, <1>7, <1>8 DEF Copied

\* A host accepts the pair; the analysis node begins to publish it.
LEMMA AcceptKeeps ==
    ASSUME Re!ReleasesAssumption, ReleasesInv, NEW h \in Re!Hosts \ {"control"}, Re!Accept(h)
    PROVE  ReleasesInv'
<1>. USE DEF ReleasesInv
<1>a. PICK r \in Runs : r = stage.run
    <2>1. stage.pc = "accept"
        BY DEF Re!Accept, Re!Step
    <2>. QED  BY <2>1 DEF ReleasesTypes, Re!Idle, Transfers
<1>. DEFINE x == manifest[h][r]
            n == IF h = "operator" THEN "manifest" ELSE "idle"
<1>1. /\ Re!Step("accept", h, n, "analysis")
      /\ x # None /\ reserved[h][r] # None
      /\ pair' = [pair EXCEPT ![h][r] = x] /\ temp' = [temp EXCEPT ![h][r] = None]
      /\ IF h = "analysis" THEN Re!Begin(r, x) ELSE UNCHANGED <<entries, files, pointer, publisher>>
      /\ UNCHANGED <<day, manifest, reserved>>
    BY <1>a DEF Re!Accept, Re!archive, Re!Hosts
<1>2. h \in Re!Hosts /\ "analysis" \in Re!Hosts /\ n \in {"idle", "manifest"} /\ h \in {"operator", "analysis"}
    BY DEF Re!Hosts
<1>3. /\ stage.pc = "accept" /\ stage.host = h /\ r \in Runs
      /\ stage' \in Transfers /\ stage'.pc = n /\ stage'.host = "analysis" /\ stage'.run = r
    BY <1>a, <1>1, <1>2, StepMoves
<1>4. x \in Possible
    BY <1>1, <1>2, <1>3 DEF ReleasesTypes, Copies, Shown
<1>5. n = "manifest" => h = "operator"
    OBVIOUS
<1>. HIDE DEF n
<1>6. pair' \in Copies /\ temp' \in [Re!Hosts -> [Runs -> Shown \cup {Re!Broken}]]
    BY <1>1, <1>4 DEF ReleasesTypes, Copies, Shown
<1>7. \A g \in Re!Hosts, q \in Runs :
        /\ pair'[g][q] = IF g = h /\ q = r THEN x ELSE pair[g][q]
        /\ temp'[g][q] = IF g = h /\ q = r THEN None ELSE temp[g][q]
    BY <1>1 DEF ReleasesTypes, Copies
<1>8. \A g \in Re!Hosts, q \in Runs : CopyRight(g, q)'
    BY <1>1, <1>7 DEF Copied, CopyRight, Re!Live, Re!Expires
<1>9. TransferRight'
    BY <1>1, <1>2, <1>3, <1>5 DEF TransferRight, Re!Sender
<1>10. CASE h = "analysis"
    <2>1. r \in Re!Archives /\ \A q \in Runs : q \in Re!Archives
        BY <1>3 DEF Re!Archives
    <2>2. ArchiveRight(r)
        BY <2>1 DEF Archived
    <2>3. Re!Begin(r, x)
        BY <1>1, <1>10
    <2>. HIDE DEF x
    <2>4. /\ entries' \in [Re!Archives -> SUBSET Possible] /\ files' \in [Re!Archives -> SUBSET Possible]
          /\ publisher' \in [Re!Archives -> {Re!Idle} \cup [pc : {"write", "replace", "point"}, release : Possible]]
          /\ ArchiveRight(r)'
          /\ pointer' = pointer /\ publisher'[r] = [pc |-> "write", release |-> x]
          /\ \A e \in Re!Archives \ {r} : /\ entries'[e] = entries[e] /\ files'[e] = files[e]
                                          /\ publisher'[e] = publisher[e]
        BY <1>1, <1>4, <2>1, <2>2, <2>3, BeginKeeps
    <2>5. ReleasesTypes'
        BY <1>1, <1>3, <1>6, <2>4 DEF ReleasesTypes
    <2>6. \A e \in Re!Archives : ArchiveRight(e)'
        BY <1>1, <2>4 DEF Archived, ArchiveRight, Re!Live, Re!Expires, Re!Follows
    <2>7. x = manifest["analysis"][r] /\ x # None
        BY <1>1, <1>10 DEF x
    <2>8. \A q \in Runs : RunRight(q)'
        BY <1>1, <2>1, <2>4, <2>7 DEF Archived, RunRight
    <2>. QED  BY <1>8, <1>9, <2>5, <2>6, <2>8 DEF Archived, Copied
<1>11. CASE h # "analysis"
    <2>1. UNCHANGED <<entries, files, pointer, publisher>>
        BY <1>1, <1>11
    <2>2. ReleasesTypes'
        BY <1>1, <1>3, <1>6, <2>1 DEF ReleasesTypes
    <2>3. Archived'
        BY <1>1, <2>1, ArchiveKept
    <2>. QED  BY <1>8, <1>9, <2>2, <2>3 DEF Copied
<1>. QED  BY <1>10, <1>11

\* A transfer is requested or given up.
LEMMA TransferKeeps ==
    ASSUME Re!ReleasesAssumption, ReleasesInv, Re!GiveUp \/ \E r \in Runs : Re!Request(r)
    PROVE  ReleasesInv'
<1>. USE DEF ReleasesInv
<1>1. /\ UNCHANGED <<day, entries, files, pointer, publisher, manifest, reserved, temp, pair>>
      /\ stage'.pc \in {"idle", "export"} /\ stage' \in {Re!Idle} \cup Transfers
    BY DEF Re!GiveUp, Re!Request, Re!archive, Re!copies, Re!Idle, Transfers, Re!Hosts
<1>2. ReleasesTypes'
    BY <1>1 DEF ReleasesTypes
<1>3. Archived'
    BY <1>1, ArchiveKept
<1>4. Copied'
    BY <1>1 DEF Copied, CopyRight, TransferRight, Re!Live, Re!Expires
<1>. QED  BY <1>2, <1>3, <1>4

\* A day passes: what had expired stays expired.
LEMMA DayKeeps ==
    ASSUME Re!ReleasesAssumption, ReleasesInv, Re!Tick
    PROVE  ReleasesInv'
<1>. USE DEF ReleasesInv
<1>1. /\ UNCHANGED <<entries, files, pointer, publisher, manifest, reserved, temp, pair, stage>>
      /\ day' = day + 1 /\ day \in Int
    BY DEF Re!Tick, Re!archive, Re!copies, ReleasesTypes
<1>2. ASSUME NEW x \in Possible, ~ Re!Live(x) PROVE ~ Re!Live(x)'
    <2>1. Re!Expires(x) \in Int /\ Re!Expires(x)' = Re!Expires(x)
        BY LivesUntil DEF Re!Expires
    <2>. QED  BY <1>1, <1>2, <2>1 DEF Re!Live
<1>3. ReleasesTypes'
    BY <1>1 DEF ReleasesTypes
<1>4. ASSUME NEW d \in Re!Archives PROVE ArchiveRight(d)'
    <2>1. /\ files[d] \subseteq Possible /\ (pointer[d] # None => pointer[d] \in Possible)
          /\ publisher[d].pc # "idle" => publisher[d].release \in Possible
        BY DEF ReleasesTypes, Shown, Re!Idle
    <2>2. \A x \in Possible : Re!Live(x)' => Re!Live(x)
        BY <1>2
    <2>3. \A x \in Possible : Re!Live(x)' <=> Re!Expires(x) > day'
        BY DEF Re!Live, Re!Expires
    <2>. QED  BY <1>1, <2>1, <2>2 DEF Archived, ArchiveRight, Re!Follows
<1>5. \A r \in Runs : RunRight(r)'
    BY <1>1 DEF Archived, RunRight
<1>6. ASSUME NEW h \in Re!Hosts, NEW r \in Runs, manifest[h][r] # None, ~ Re!Live(manifest[h][r])
      PROVE  ~ Re!Live(manifest[h][r])'
    <2>1. manifest[h][r] \in Possible
        BY <1>6 DEF ReleasesTypes, Copies, Shown
    <2>2. Re!Live(manifest[h][r])' <=> Re!Expires(manifest[h][r]) > day'
        BY <1>1 DEF Re!Live, Re!Expires
    <2>3. Re!Expires(manifest[h][r]) \in Int
        BY <2>1, LivesUntil
    <2>. QED  BY <1>1, <1>6, <2>2, <2>3 DEF Re!Live
<1>7. ASSUME NEW h \in Re!Hosts, NEW r \in Runs PROVE CopyRight(h, r)'
    <2>1. CopyRight(h, r)
        BY DEF Copied
    <2>. QED  BY <1>1, <1>6, <2>1 DEF CopyRight
<1>8. TransferRight'
    <2>1. stage.pc \in {"pair", "accept"} => stage.host \in Re!Hosts /\ stage.run \in Runs
        BY DEF ReleasesTypes, Re!Idle, Transfers
    <2>. QED  BY <1>1, <1>6, <2>1 DEF Copied, TransferRight, Re!Sender
<1>. QED  BY <1>3, <1>4, <1>5, <1>7, <1>8 DEF Archived, Copied

\* Every step.
LEMMA ReleasesStep ==
    ASSUME Re!ReleasesAssumption, ReleasesInv, [Re!Next]_(Re!vars)
    PROVE  ReleasesInv'
<1>1. CASE Re!Next
    BY <1>1, ArchiveStep, PurgeKeeps, ExportKeeps, SendManifestKeeps, SendPairKeeps, AcceptKeeps, TransferKeeps, DayKeeps
    DEF Re!Next, Re!CleanUp
<1>2. CASE UNCHANGED Re!vars
    <2>1. UNCHANGED <<day, entries, files, pointer, publisher, manifest, reserved, temp, pair, stage>>
        BY <1>2 DEF Re!vars, Re!archive, Re!copies
    <2>2. ReleasesTypes'
        BY <2>1 DEF ReleasesInv, ReleasesTypes
    <2>3. Archived'
        BY <2>1, ArchiveKept DEF ReleasesInv
    <2>4. Copied'
        BY <2>1 DEF ReleasesInv, Copied, CopyRight, TransferRight, Re!Live, Re!Expires, Re!Sender
    <2>. QED  BY <2>2, <2>3, <2>4 DEF ReleasesInv
<1>. QED  BY <1>1, <1>2

\* A live pointer is read unless the archive is obstructed.
LEMMA ReadOrObstructed ==
    ASSUME ReleasesInv, NEW d \in Re!Archives, pointer[d] # None, Re!Live(pointer[d])
    PROVE  Re!Readable(d) = pointer[d] \/ Re!Obstructed(d)
<1>1. pointer[d] \in files[d] \cap entries[d] /\ \A x \in files[d] \ entries[d] : ~ Re!Live(x)
    BY DEF ReleasesInv, Archived, ArchiveRight
<1>2. CASE Re!Orderly(d)
    BY <1>1, <1>2 DEF Re!Readable, Re!Pointed, Re!Refused
<1>3. CASE Re!Temporary(d)
    BY <1>3 DEF Re!Temporary, Re!Obstructed
<1>4. CASE ~ files[d] \subseteq entries[d]
    BY <1>1, <1>4 DEF Re!Obstructed
<1>. QED  BY <1>2, <1>3, <1>4 DEF Re!Orderly

\* What the invariant says of the pointers and the copies.
LEMMA InvReadable ==
    ASSUME Re!ReleasesAssumption, ReleasesInv
    PROVE  ReleasesSound
<1>. USE DEF ReleasesInv
<1>1. ASSUME NEW d \in Re!Archives, Re!Pointed(d)
      PROVE  /\ pointer[d] \in files[d] \cap entries[d] /\ (Re!Readable(d) = pointer[d] \/ Re!Obstructed(d))
             /\ \E o \in Offers : Re!Matched(o) /\ Re!Release(o) = pointer[d]
             /\ d # "control" => pointer[d].run = d /\ pointer[d] = manifest["analysis"][d]
    <2>. pointer[d] # None /\ Re!Live(pointer[d])
        BY <1>1 DEF Re!Pointed
    <2>1. pointer[d] \in files[d] \cap entries[d]
        BY DEF Archived, ArchiveRight
    <2>2. Re!Readable(d) = pointer[d] \/ Re!Obstructed(d)
        BY ReadOrObstructed
    <2>3. \E o \in Offers : Re!Matched(o) /\ Re!Release(o) = pointer[d]
        BY DEF ReleasesTypes, Shown, Possible
    <2>4. ASSUME d # "control" PROVE pointer[d].run = d /\ pointer[d] = manifest["analysis"][d]
        <3>1. d \in Runs /\ "analysis" \in Re!Hosts
            BY <2>4 DEF Re!Archives, Re!Hosts
        <3>. QED  BY <3>1 DEF Archived, RunRight, Copied, CopyRight
    <2>. QED  BY <2>1, <2>2, <2>3, <2>4
<1>2. Re!PointerReadable
    BY <1>1 DEF Re!PointerReadable
<1>3. ASSUME NEW h \in Re!Hosts, NEW r \in Runs
      PROVE  /\ pair[h][r] # None => pair[h][r].run = r /\ pair[h][r] = manifest["control"][r]
             /\ r \in Re!Stray(h) => ~ Re!Live(manifest[h][r])
             /\ reserved[h][r] # None => Re!Expires(reserved[h][r]) = Re!Expires(manifest["control"][r])
    BY DEF Copied, CopyRight, Re!Stray
<1>4. Re!CopiesAgree
    BY <1>3 DEF Re!CopiesAgree
<1>. QED  BY <1>2, <1>4 DEF ReleasesSound

\* No step replaces a living release by one that does not follow it.
LEMMA NeverOlderStep ==
    ASSUME Re!ReleasesAssumption, ReleasesInv, [Re!Next]_(Re!vars)
    PROVE  Re!ReplaceStep
<1>. USE DEF ReleasesInv
<1>1. pointer' = pointer \/ \E d \in Re!Archives : Re!Point(d)
    <2>1. ASSUME Re!Next
          PROVE  pointer' = pointer \/ \E d \in Re!Archives : Re!Point(d)
        BY <2>1 DEF Re!Next, Re!Tick, Re!CleanUp, Re!Clean, Re!Purge, Re!Publish, Re!Begin, Re!Write, Re!Replace, Re!Die, Re!DieCleaning, Re!Request,
           Re!GiveUp, Re!Export, Re!BreakOff, Re!SendManifest, Re!SendPair, Re!Accept, Re!archive
    <2>. QED  BY <2>1 DEF Re!vars, Re!archive
<1>2. CASE pointer' = pointer
    BY <1>2 DEF Re!ReplaceStep
<1>3. ASSUME NEW d \in Re!Archives, Re!Point(d)
      PROVE  Re!ReplaceStep
    <2>1. publisher[d].pc = "point" /\ (pointer' = pointer \/ pointer' = [pointer EXCEPT ![d] = publisher[d].release])
        BY <1>3 DEF Re!Point
    <2>2. \A e \in Re!Archives : pointer'[e] # pointer[e] => e = d /\ pointer'[e] = publisher[d].release
        BY <2>1 DEF ReleasesTypes
    <2>3. pointer[d] # None /\ Re!Live(pointer[d]) => Re!Follows(pointer[d], publisher[d].release)
        BY <2>1 DEF Archived, ArchiveRight
    <2>. QED  BY <2>2, <2>3 DEF Re!ReplaceStep, Re!Follows
<1>. QED  BY <1>1, <1>2, <1>3

\* Whoever publishes, copies, cleans or dies, a pointer designates a whole registered release
\* until it expires; it can be read unless a file is being written, a publisher has died
\* writing one, or a release expired before it was put in place; and the copies of a run are
\* those of one release that a reservation will remove (release_real, read_real_release,
\* stage_release).
THEOREM PointersAreGood == Re!Spec => []ReleasesSound
<1>1. Re!ReleasesAssumption
    BY LaboratoryAssumption
<1>2. Re!Init => ReleasesInv
    BY <1>1, ReleasesInitially
<1>3. ReleasesInv /\ [Re!Next]_(Re!vars) => ReleasesInv'
    BY <1>1, ReleasesStep
<1>4. ReleasesInv => ReleasesSound
    BY <1>1, InvReadable
<1>. QED  BY <1>2, <1>3, <1>4, PTL DEF Re!Spec

\* While a release lives, none with an older cutoff and no other content of its cutoff takes
\* its place, in any archive and whatever was published meanwhile (release_real).
THEOREM NeverOlder == Re!Spec => NeverBackwards
<1>1. Re!ReleasesAssumption
    BY LaboratoryAssumption
<1>2. Re!Init => ReleasesInv
    BY <1>1, ReleasesInitially
<1>3. ReleasesInv /\ [Re!Next]_(Re!vars) => ReleasesInv'
    BY <1>1, ReleasesStep
<1>4. ReleasesInv /\ [Re!Next]_(Re!vars) => [Re!ReplaceStep]_releases
    BY <1>1, NeverOlderStep
<1>. QED  BY <1>2, <1>3, <1>4, PTL DEF Re!Spec, NeverBackwards

-----------------------------------------------------------------------------
(* An attempt at an offline phase.                                           *)

\* The values of the variables, and the ends of a worker.
Outcomes == [launched : BOOLEAN, group : BOOLEAN, driver : BOOLEAN]
Over == {"gone", "dead"}

\* Types, and which files a run may have of an attempt.
AttemptsTypes ==
    /\ place \in [Ids -> At!Steps \cup {None}] /\ stopping \in [Ids -> [Calls -> At!CancelSteps \cup {None}]]
    /\ done \in [Ids -> Outcomes \cup {None}]
    /\ marked \subseteq Ids /\ admitted \subseteq Ids /\ recorded \subseteq admitted /\ sessions \subseteq admitted
    /\ log \in admitted \cup {None} /\ told \subseteq Ids /\ running \in {None, cid}

\* One child at most has claimed the run, and only its driver can be there.
OneDriver == cid # None => log = cid

\* Where the worker of an attempt is says what of the attempt can exist.
WorkerRight(a) ==
    /\ place[a] \in {None, "sent", "checked", "refused"} => a \notin admitted
    /\ place[a] \in At!Alive \cup {"unstopped"} => a \in admitted
    /\ place[a] \in {"admitted", "unlaunched", "launched"} => a \notin recorded
    /\ place[a] \in {"admitted", "unlaunched", "stopped"} => a \notin sessions

\* What done.json says is so, and stays so.
OutcomeRight(a) ==
    /\ done[a] # None => place[a] \in Over
    /\ done[a] # None /\ done[a].group => a \notin sessions
    /\ At!Ended(a) => running # a

\* A cancellation marks an admitted attempt before it does anything, has stopped what the
\* worker had not ended, and has seen it unfinished; nothing of an attempt that was reported
\* can start again.
CallRight(a, c) ==
    /\ stopping[a][c] # None => a \in admitted \cap marked
    /\ stopping[a][c] = "stopped" => place[a] \in Over /\ a \notin sessions
    /\ stopping[a][c] \in {"stopped", "failed"} => <<a, c>> \in stale
CancelRight(a) ==
    /\ \A c \in Calls : CallRight(a, c)
    /\ a \in told => /\ a \notin sessions /\ running # a
                     /\ place[a] \in Over \/ a \in marked \ admitted

\* The inductive invariant.
AttemptsInv == AttemptsTypes /\ OneDriver /\ \A a \in Ids : WorkerRight(a) /\ OutcomeRight(a) /\ CancelRight(a)

\* It holds before the first attempt.
LEMMA AttemptsInitially ==
    ASSUME At!AttemptsAssumption, At!Init
    PROVE  AttemptsInv
BY DEF At!AttemptsAssumption, At!Init, AttemptsInv, AttemptsTypes, OneDriver, WorkerRight, OutcomeRight,
       CancelRight, CallRight, At!Steps, At!CancelSteps, At!Alive, At!Ended, Over

\* The steps of the controller and of the worker.
LEMMA WorkerStep ==
    ASSUME At!AttemptsAssumption, AttemptsInv, NEW a \in Ids,
           \/ At!Leave \/ At!Send(a) \/ At!Check(a) \/ At!Admit(a) \/ At!Launch(a) \/ At!Record(a)
           \/ At!Interrupt(a) \/ At!StopSession(a) \/ At!Finish(a) \/ At!Die(a)
    PROVE  AttemptsInv'
<1>. USE DEF AttemptsInv, At!AttemptsAssumption, At!files, At!physical, At!calls
<1>11. At!Cleaned(running) = None
    BY DEF At!Cleaned, AttemptsTypes
<1>1. CASE At!Leave
    BY <1>1 DEF At!Leave, AttemptsTypes, OneDriver, WorkerRight, OutcomeRight, CancelRight, CallRight, At!Ended
<1>2. CASE At!Send(a)
    BY <1>2 DEF At!Send, At!At, At!To, AttemptsTypes, OneDriver, WorkerRight, OutcomeRight, CancelRight, CallRight,
                At!Ended, At!Steps, At!Alive, Over
<1>3. CASE At!Check(a)
    BY <1>3 DEF At!Check, At!At, At!To, AttemptsTypes, OneDriver, WorkerRight, OutcomeRight, CancelRight, CallRight,
                At!Ended, At!Steps, At!Alive, Over
<1>4. CASE At!Admit(a)
    BY <1>4 DEF At!Admit, At!Fresh, At!At, At!To, AttemptsTypes, OneDriver, WorkerRight, OutcomeRight, CancelRight, CallRight,
                At!Ended, At!Steps, At!Alive, Over
<1>5. CASE At!Launch(a)
    BY <1>5 DEF At!Launch, At!Launchable, At!At, At!To, AttemptsTypes, OneDriver, WorkerRight, OutcomeRight, CancelRight, CallRight,
                At!Ended, At!Steps, At!Alive, Over
<1>6. CASE At!Record(a)
    BY <1>6 DEF At!Record, At!At, At!To, AttemptsTypes, OneDriver, WorkerRight, OutcomeRight, CancelRight, CallRight,
                At!Ended, At!Steps, At!Alive, Over
<1>7. CASE At!Interrupt(a)
    BY <1>7 DEF At!Interrupt, At!At, At!To, AttemptsTypes, OneDriver, WorkerRight, OutcomeRight, CancelRight, CallRight,
                At!Ended, At!Steps, At!Alive, Over
<1>8. CASE At!StopSession(a)
    BY <1>8 DEF At!StopSession, At!At, At!To, AttemptsTypes, OneDriver, WorkerRight, OutcomeRight, CancelRight, CallRight,
                At!Ended, At!Steps, At!Alive, Over
<1>9. CASE At!Finish(a)
    <2>. PICK ok \in BOOLEAN :
            /\ running' = IF ok THEN At!Cleaned(running) ELSE running
            /\ done' = [done EXCEPT ![a] = [launched |-> place[a] # "unlaunched",
                                           group |-> place[a] # "unstopped", driver |-> ok]]
        BY <1>9 DEF At!Finish
    <2>1. /\ place[a] \in {"unlaunched", "stopped", "unstopped"} /\ place' = [place EXCEPT ![a] = "gone"]
          /\ UNCHANGED <<admitted, marked, recorded, sessions, log, cid, stopping, stale, told>>
        BY <1>9 DEF At!Finish, At!To
    <2>2. AttemptsTypes' /\ OneDriver'
        BY <1>11, <2>1 DEF AttemptsTypes, OneDriver, Outcomes, At!Steps
    <2>3. ASSUME NEW b \in Ids
          PROVE  WorkerRight(b)' /\ OutcomeRight(b)' /\ CancelRight(b)'
        <3>1. b # a => place'[b] = place[b] /\ done'[b] = done[b]
            BY <2>1 DEF AttemptsTypes
        <3>2. b = a => place'[b] = "gone" /\ (done'[b].group => place[a] # "unstopped")
            BY <2>1 DEF AttemptsTypes
        <3>3. running' # running => running' = None
            BY <1>11
        <3>4. CASE b # a
            BY <2>1, <3>1, <3>3, <3>4 DEF WorkerRight, OutcomeRight, CancelRight, CallRight, At!Ended
        <3>5. CASE b = a
            <4>1. WorkerRight(a)'
                BY <2>1, <3>2, <3>5 DEF WorkerRight, At!Alive, At!Steps
            <4>2. done'[a].driver => running' # a
                BY <1>11, <2>1 DEF AttemptsTypes
            <4>3. done'[a].group => a \notin sessions
                BY <2>1, <3>2, <3>5 DEF WorkerRight
            <4>4. CancelRight(a)'
                BY <2>1, <3>2, <3>3, <3>5 DEF CancelRight, CallRight, WorkerRight, Over, At!Alive
            <4>. QED  BY <2>1, <3>2, <3>5, <4>1, <4>2, <4>3, <4>4 DEF OutcomeRight, At!Ended, Over
        <3>. QED  BY <3>4, <3>5
    <2>. QED  BY <2>2, <2>3
<1>10. CASE At!Die(a)
    BY <1>10 DEF At!Die, At!At, At!To, AttemptsTypes, OneDriver, WorkerRight, OutcomeRight, CancelRight, CallRight,
                At!Ended, At!Steps, At!Alive, Over
<1>. QED  BY <1>1, <1>2, <1>3, <1>4, <1>5, <1>6, <1>7, <1>8, <1>9, <1>10

\* The steps of the child.
LEMMA ChildStep ==
    ASSUME At!AttemptsAssumption, AttemptsInv, NEW a \in Ids,
           At!Claim(a) \/ At!StartDriver(a) \/ At!ChildEnds(a)
    PROVE  AttemptsInv'
<1>. USE DEF AttemptsInv, At!AttemptsAssumption, At!files, At!physical, At!calls
<1>11. At!Cleaned(running) = None
    BY DEF At!Cleaned, AttemptsTypes
<1>1. CASE At!Claim(a)
    BY <1>1 DEF At!Claim, AttemptsTypes, OneDriver, WorkerRight, OutcomeRight, CancelRight, CallRight, At!Ended
<1>2. CASE At!StartDriver(a)
    BY <1>2 DEF At!StartDriver, AttemptsTypes, OneDriver, WorkerRight, OutcomeRight, CancelRight, CallRight, At!Ended
<1>3. CASE At!ChildEnds(a)
    <2>1. /\ sessions' = sessions \ {a} /\ running' = None
          /\ UNCHANGED <<place, admitted, marked, recorded, done, log, cid, stopping, stale, told>>
        BY <1>3, <1>11 DEF At!ChildEnds
    <2>2. AttemptsTypes' /\ OneDriver'
        BY <2>1 DEF AttemptsTypes, OneDriver
    <2>3. ASSUME NEW b \in Ids
          PROVE  WorkerRight(b)' /\ OutcomeRight(b)' /\ CancelRight(b)'
        BY <2>1 DEF WorkerRight, OutcomeRight, CancelRight, CallRight, At!Ended
    <2>. QED  BY <2>2, <2>3
<1>. QED  BY <1>1, <1>2, <1>3

\* The steps of a cancellation.
LEMMA CancelStep ==
    ASSUME At!AttemptsAssumption, AttemptsInv, NEW a \in Ids, NEW c \in Calls,
           At!Mark(a, c) \/ At!Reread(a, c) \/ At!Late(a, c) \/ At!Settle(a, c)
    PROVE  AttemptsInv'
<1>. USE DEF AttemptsInv, At!AttemptsAssumption, At!files, At!physical
<1>1. At!Cleaned(running) = None
    BY DEF At!Cleaned, AttemptsTypes
<1>0. CallRight(a, c) /\ WorkerRight(a) /\ OutcomeRight(a) /\ place[a] \in At!Steps \cup {None}
    BY DEF CancelRight, AttemptsTypes
<1>2. \E pc \in At!CancelSteps \cup {None} :
             /\ At!CancelAt(a, c, pc)
             /\ pc # None => a \in admitted \cap marked'
             /\ pc = "stopped" => place[a] \in Over /\ a \notin sessions'
             /\ pc \in {"stopped", "failed"} => <<a, c>> \in stale'
    <2>1. CASE At!Mark(a, c)
        BY <2>1 DEF At!Mark, At!Report, At!CancelSteps
    <2>2. CASE At!Reread(a, c)
        <3>0. stopping[a][c] = "marked" /\ a \in admitted /\ a \in marked /\ marked' = marked
            BY <2>2, <1>0 DEF At!Reread, CallRight, At!CancelSteps
        <3>1. place[a] \in Over
            BY <2>2, <1>0, <3>0 DEF At!Reread, WorkerRight, At!Steps, At!Alive, Over
        <3>2. a \in admitted \cap marked'
            BY <3>0
        <3>3. CASE At!Ended(a)
            BY <2>2, <3>3 DEF At!Reread, At!AlreadyCleaned, At!Report, At!CancelSteps
        <3>4. CASE ~ At!Ended(a)
            <4>1. <<a, c>> \in stale'
                BY <2>2, <3>4 DEF At!Reread, At!Look
            <4>2. CASE a \in recorded
                BY <2>2, <3>1, <3>2, <3>4, <4>1, <4>2 DEF At!Reread, At!AlreadyCleaned, At!CancelSteps
            <4>3. CASE a \notin recorded
                <5>1. CASE done[a] # None /\ ~ done[a].launched /\ done[a].group
                    <6>1. a \notin sessions /\ sessions' = sessions
                        BY <2>2, <3>4, <4>3, <5>1 DEF At!Reread, At!AlreadyCleaned, OutcomeRight
                    <6>. QED  BY <2>2, <3>1, <3>2, <3>4, <4>1, <4>3, <5>1, <6>1
                              DEF At!Reread, At!AlreadyCleaned, At!CancelSteps
                <5>2. CASE ~ (done[a] # None /\ ~ done[a].launched /\ done[a].group)
                    BY <2>2, <3>1, <3>2, <3>4, <4>1, <4>3, <5>2
                    DEF At!Reread, At!AlreadyCleaned, At!CancelSteps
                <5>. QED  BY <5>1, <5>2
            <4>. QED  BY <4>2, <4>3
        <3>. QED  BY <3>3, <3>4
    <2>3. CASE At!Late(a, c)
        <3>1. a \in admitted /\ a \in marked /\ marked' = marked
            BY <2>3, <1>0 DEF At!Late, CallRight, At!CancelSteps
        <3>. QED  BY <2>3, <3>1 DEF At!Late, At!CancelSteps
    <2>4. CASE At!Settle(a, c)
        BY <2>4 DEF At!Settle, At!Report, At!CancelSteps
    <2>. QED  BY <2>1, <2>2, <2>3, <2>4
<1>3. /\ UNCHANGED <<place, admitted, recorded, log, cid>> /\ marked \subseteq marked' /\ marked' \subseteq Ids
      /\ sessions' \subseteq sessions /\ running' \in {running, None}
      /\ stale \ {<<a, c>>} \subseteq stale'
      /\ done' = done \/ At!Settle(a, c)
    BY <1>1 DEF At!Mark, At!Reread, At!Late, At!Settle, At!Look, AttemptsTypes
<1>4. ASSUME NEW b \in Ids, NEW e \in Calls PROVE CallRight(b, e)'
    <2>1. CallRight(b, e)
        BY DEF CancelRight
    <2>2. PICK pc \in At!CancelSteps \cup {None} :
                    /\ At!CancelAt(a, c, pc)
                    /\ pc # None => a \in admitted \cap marked'
                    /\ pc = "stopped" => place[a] \in Over /\ a \notin sessions'
                    /\ pc \in {"stopped", "failed"} => <<a, c>> \in stale'
        BY <1>2
    <2>3. stopping'[b][e] = IF b = a /\ e = c THEN pc ELSE stopping[b][e]
        BY <2>2 DEF At!CancelAt, AttemptsTypes
    <2>4. CASE b = a /\ e = c
        BY <1>3, <2>2, <2>3, <2>4 DEF CallRight
    <2>5. CASE ~ (b = a /\ e = c)
        <3>1. stopping'[b][e] = stopping[b][e]
            BY <2>3, <2>5
        <3>2. <<b, e>> \in stale => <<b, e>> \in stale'
            BY <1>3, <2>5
        <3>. QED  BY <1>3, <2>1, <3>1, <3>2 DEF CallRight
    <2>. QED  BY <2>4, <2>5
<1>5. told' \in {told, told \cup {a}}
    BY DEF At!Mark, At!Reread, At!Late, At!Settle, At!Report
<1>6. ASSUME a \in told', a \notin told
      PROVE  a \notin sessions' /\ running' # a /\ (place[a] \in Over \/ a \in marked' \ admitted)
    <2>1. CASE At!Mark(a, c)
        <3>1. a \notin admitted \/ At!Ended(a)
            BY <1>6, <2>1 DEF At!Mark, At!AlreadyCleaned
        <3>2. a \in marked' /\ sessions' = sessions /\ running' = running
            BY <2>1 DEF At!Mark
        <3>3. CASE a \notin admitted
            BY <3>2, <3>3 DEF AttemptsTypes, OneDriver
        <3>4. CASE At!Ended(a)
            BY <3>2, <3>4 DEF OutcomeRight, At!Ended
        <3>. QED  BY <3>1, <3>3, <3>4
    <2>2. CASE At!Reread(a, c)
        BY <1>6, <2>2 DEF At!Reread, At!AlreadyCleaned, OutcomeRight, At!Ended
    <2>3. CASE At!Late(a, c)
        BY <1>6, <2>3 DEF At!Late
    <2>4. CASE At!Settle(a, c)
        <3>1. stopping[a][c] = "stopped" /\ running' = None /\ sessions' = sessions
            BY <1>1, <1>6, <2>4 DEF At!Settle
        <3>. QED  BY <3>1 DEF CancelRight, CallRight
    <2>. QED  BY <2>1, <2>2, <2>3, <2>4
<1>7. ASSUME NEW b \in Ids PROVE CancelRight(b)'
    BY <1>3, <1>4, <1>5, <1>6, <1>7 DEF CancelRight
<1>8. ASSUME NEW b \in Ids PROVE WorkerRight(b)'
    BY <1>3 DEF WorkerRight
<1>9. \/ done' = done
      \/ /\ done' = [done EXCEPT ![a] = [launched |-> a \in recorded, group |-> TRUE, driver |-> TRUE]]
         /\ stopping[a][c] = "stopped" /\ running' = None
    <2>1. CASE At!Settle(a, c)
        BY <1>1, <2>1 DEF At!Settle
    <2>. QED  BY <1>3, <2>1
<1>10. ASSUME NEW b \in Ids PROVE OutcomeRight(b)'
    <2>1. OutcomeRight(b) /\ CallRight(a, c)
        BY DEF CancelRight
    <2>2. CASE done' = done
        BY <1>3, <2>1, <2>2 DEF OutcomeRight, At!Ended
    <2>3. CASE /\ done' = [done EXCEPT ![a] = [launched |-> a \in recorded, group |-> TRUE, driver |-> TRUE]]
               /\ stopping[a][c] = "stopped" /\ running' = None
        <3>1. b # a => done'[b] = done[b]
            BY <2>3 DEF AttemptsTypes
        <3>2. place[a] \in Over /\ a \notin sessions
            BY <2>1, <2>3 DEF CallRight
        <3>. QED  BY <1>3, <2>1, <2>3, <3>1, <3>2 DEF OutcomeRight, At!Ended
    <2>. QED  BY <1>9, <2>2, <2>3
<1>11. done' \in [Ids -> Outcomes \cup {None}]
    <2>. DEFINE l == a \in recorded
    <2>1. l \in BOOLEAN
        OBVIOUS
    <2>2. done' = done \/ done' = [done EXCEPT ![a] = [launched |-> l, group |-> TRUE, driver |-> TRUE]]
        BY <1>9
    <2>. HIDE DEF l
    <2>3. [launched |-> l, group |-> TRUE, driver |-> TRUE] \in Outcomes
        BY <2>1 DEF Outcomes
    <2>. QED  BY <2>2, <2>3 DEF AttemptsTypes
<1>12. AttemptsTypes' /\ OneDriver'
    <2>1. stopping' \in [Ids -> [Calls -> At!CancelSteps \cup {None}]]
        <3>1. PICK pc \in At!CancelSteps \cup {None} : At!CancelAt(a, c, pc)
            BY <1>2
        <3>2. [stopping[a] EXCEPT ![c] = pc] \in [Calls -> At!CancelSteps \cup {None}]
            BY DEF AttemptsTypes
        <3>. QED  BY <3>1, <3>2 DEF At!CancelAt, AttemptsTypes
    <2>. QED  BY <1>3, <1>5, <1>11, <2>1 DEF AttemptsTypes, OneDriver
<1>. QED  BY <1>7, <1>8, <1>10, <1>12

\* Every step keeps it.
LEMMA AttemptsStep ==
    ASSUME At!AttemptsAssumption, AttemptsInv, [At!Next]_(At!vars)
    PROVE  AttemptsInv'
<1>1. CASE UNCHANGED At!vars
    BY <1>1 DEF At!vars, AttemptsInv, AttemptsTypes, OneDriver, WorkerRight, OutcomeRight, CancelRight, CallRight, At!Ended
<1>2. CASE At!Leave
    BY <1>2 DEF At!Leave, At!files, At!physical, At!calls, AttemptsInv, AttemptsTypes, OneDriver, WorkerRight, OutcomeRight, CancelRight, CallRight, At!Ended
<1>3. ASSUME At!Next, ~ At!Leave
      PROVE  AttemptsInv'
    BY <1>3, WorkerStep, ChildStep, CancelStep DEF At!Next
<1>. QED  BY <1>1, <1>2, <1>3

\* An attempt that was reported cancelled has nothing that runs and never starts anything,
\* in whatever order worker, child, driver and cancellation end or are killed (node_execute,
\* node_cancel).
THEOREM ReportedIsGone ==
    ASSUME At!AttemptsAssumption
    PROVE  At!Spec => []At!AttemptsSound
<1>1. At!Init => AttemptsInv
    BY AttemptsInitially
<1>2. AttemptsInv /\ [At!Next]_(At!vars) => AttemptsInv'
    BY AttemptsStep
<1>3. AttemptsInv => At!AttemptsSound
    BY DEF AttemptsInv, AttemptsTypes, CancelRight, At!AttemptsSound
<1>. QED  BY <1>1, <1>2, <1>3, PTL DEF At!Spec

\* While every other attempt is over, only its own child, worker or cancellation stops a driver.
LEMMA NoStrangerStops ==
    ASSUME At!AttemptsAssumption, AttemptsInv, [At!Next]_(At!vars)
    PROVE  At!DriverStep
<1>. SUFFICES ASSUME NEW a \in Ids, running = a, running' # a, wanted = a,
                     \A x \in admitted \ {a} : At!Ended(x) /\ \A c \in Calls : <<x, c>> \notin stale
              PROVE  a \in sessions \ sessions' \/ place[a] \notin {"launched", "running"} \/ a \in marked
    BY DEF At!DriverStep
<1>1. cid = a /\ log = a /\ None # a
    BY DEF AttemptsInv, AttemptsTypes, OneDriver, At!AttemptsAssumption
<1>2. PICK x \in Ids : At!Finish(x) \/ At!ChildEnds(x) \/ \E c \in Calls : At!Settle(x, c)
    <2>1. ~ UNCHANGED At!vars
        BY DEF At!vars
    <2>2. ~ At!Leave
        BY DEF At!Leave, At!physical
    <2>3. PICK x \in Ids :
            \/ At!Send(x) \/ At!Check(x) \/ At!Admit(x) \/ At!Launch(x) \/ At!Record(x) \/ At!Interrupt(x)
            \/ At!StopSession(x) \/ At!Finish(x) \/ At!Die(x) \/ At!Claim(x) \/ At!StartDriver(x)
            \/ At!ChildEnds(x)
            \/ \E c \in Calls : At!Mark(x, c) \/ At!Reread(x, c) \/ At!Late(x, c) \/ At!Settle(x, c)
        BY <2>1, <2>2 DEF At!Next
    <2>4. ~ (\/ At!Send(x) \/ At!Check(x) \/ At!Admit(x) \/ At!Launch(x) \/ At!Record(x) \/ At!Interrupt(x)
             \/ At!StopSession(x) \/ At!Die(x) \/ At!Claim(x))
        BY DEF At!Send, At!Check, At!Admit, At!Launch, At!Record, At!Interrupt, At!StopSession, At!Die, At!Claim,
               At!physical
    <2>5. \A c \in Calls : ~ (At!Mark(x, c) \/ At!Reread(x, c) \/ At!Late(x, c))
        BY DEF At!Mark, At!Reread, At!Late, At!physical
    <2>6. ~ At!StartDriver(x)
        BY <1>1 DEF At!StartDriver
    <2>. QED  BY <2>3, <2>4, <2>5, <2>6
<1>3. CASE At!ChildEnds(x)
    BY <1>1, <1>3 DEF At!ChildEnds
<1>4. CASE At!Finish(x)
    <2>1. place[x] \in {"unlaunched", "stopped", "unstopped"}
        BY <1>4 DEF At!Finish
    <2>2. x \in admitted /\ (done[x] # None => place[x] \in Over)
        BY <2>1 DEF AttemptsInv, WorkerRight, OutcomeRight, At!Alive
    <2>3. x = a
        BY <2>1, <2>2 DEF At!Ended, Over
    <2>. QED  BY <2>1, <2>3
<1>5. ASSUME NEW c \in Calls, At!Settle(x, c)
      PROVE  a \in marked
    <2>1. stopping[x][c] \in {"stopped", "failed"}
        BY <1>5 DEF At!Settle
    <2>2. x \in admitted \cap marked /\ <<x, c>> \in stale
        BY <2>1 DEF AttemptsInv, CancelRight, CallRight, At!AttemptsAssumption, At!CancelSteps
    <2>. QED  BY <2>2
<1>. QED  BY <1>2, <1>3, <1>4, <1>5

\* No record of a pause or a resume is written under the lease of a synchronisation, and nothing
\* is produced without it (run_kafka_sync, WindowGuard); while every other attempt is over, the
\* driver of the one that is waited for is stopped by its own child, worker or cancellation, and
\* by no late one, unless that one had read done.json before its attempt was over and has not
\* ended since (driver_cleanup, node_cancel).
THEOREM NobodyTrespasses ==
    Wr!Spec /\ At!Spec => NoTrespass
<1>1. Wr!Init => WriterInv
    BY WriterInitially, LaboratoryAssumption
<1>2. WriterInv /\ [Wr!Next]_(Wr!vars) => WriterInv'
    BY WriterStep, LaboratoryAssumption
<1>3. WriterInv /\ [Wr!Next]_(Wr!vars) => [Wr!LeaseStep]_writer
    BY LeaseHolds, LaboratoryAssumption
<1>4. At!Init => AttemptsInv
    BY AttemptsInitially, LaboratoryAssumption
<1>5. AttemptsInv /\ [At!Next]_(At!vars) => AttemptsInv'
    BY AttemptsStep, LaboratoryAssumption
<1>6. AttemptsInv /\ [At!Next]_(At!vars) => [At!DriverStep]_attempts
    BY NoStrangerStops, LaboratoryAssumption
<1>. QED  BY <1>1, <1>2, <1>3, <1>4, <1>5, <1>6, PTL DEF Wr!Spec, At!Spec, NoTrespass

-----------------------------------------------------------------------------
(* An attempt to write the tables of the lake.                               *)

\* The values of op: a command has an attempt and at least one step left.
StepKinds == {"reserve", "prepare", "yarn", "execute", "verify", "restore", "confirm", "cancel"}
Places == La!Nodes \cup {"analysis"}
Todo == Seq(StepKinds \X Places) \ {<< >>}
Commands == {La!Idle} \cup [a : Attempts, todo : Todo, busy : BOOLEAN]
OpInv == course \in [La!Ops -> Commands]

\* The plan and the recovery are lists of steps.
LEMMA PlansAreTodo == La!Plan \in Todo /\ La!Recovery \in Todo
<1>1. La!Plan \in Seq(StepKinds \X Places) /\ La!Recovery \in Seq(StepKinds \X Places)
    BY DEF La!Plan, La!Recovery, StepKinds, Places, La!Nodes
<1>2. La!Plan # << >> /\ La!Recovery # << >>
    BY DEF La!Plan, La!Recovery
<1>. QED  BY <1>1, <1>2 DEF Todo

\* What becomes of a command when a step of it is answered.
LEMMA NextCommand ==
    ASSUME OpInv, NEW o \in La!Ops, course[o] # La!Idle
    PROVE  /\ course[o] \in [a : Attempts, todo : Todo, busy : BOOLEAN] /\ course[o].a \in Attempts
           /\ La!Advance(o) \in Commands /\ La!Stumble(o) \in Commands
<1>1. course[o] \in [a : Attempts, todo : Todo, busy : BOOLEAN] /\ course[o].a \in Attempts /\ course[o].todo \in Todo
    BY DEF OpInv, Commands
<1>2. Len(course[o].todo) # 1 => Tail(course[o].todo) \in Todo
    <2>. DEFINE s == course[o].todo
    <2>1. s \in Seq(StepKinds \X Places) /\ s # << >>
        BY <1>1 DEF Todo
    <2>. HIDE DEF s
    <2>2. Len(s) \in Nat /\ Len(s) # 0
        BY <2>1, EmptySeq, LenProperties
    <2>3. Tail(s) \in Seq(StepKinds \X Places) /\ Len(Tail(s)) = Len(s) - 1
        BY <2>1, HeadTailProperties
    <2>4. ASSUME Len(s) # 1 PROVE Tail(s) # << >>
        <3>1. Len(Tail(s)) # 0
            BY <2>2, <2>3, <2>4
        <3>2. Len(<< >>) = 0
            OBVIOUS
        <3>. QED  BY <3>1, <3>2
    <2>. QED  BY <2>3, <2>4 DEF Todo, s
<1>3. La!Advance(o) \in Commands
    BY <1>1, <1>2 DEF La!Advance, Commands
<1>4. [course[o] EXCEPT !.todo = La!Recovery, !.busy = FALSE] \in Commands
    BY <1>1, PlansAreTodo DEF Commands
<1>5. La!Stumble(o) \in Commands
    BY <1>3, <1>4 DEF La!Stumble
<1>. QED  BY <1>1, <1>3, <1>5

\* An answer goes to the command that waits for it.
LEMMA AnsweredCommands ==
    ASSUME OpInv, NEW a, NEW step, NEW good, La!Answered(a, step, good)
    PROVE  OpInv'
BY NextCommand DEF La!Answered, La!Waits, OpInv

\* Every step leaves the operator with commands.
LEMMA OpStep ==
    ASSUME OpInv, [La!Next]_(La!vars)
    PROVE  OpInv'
<1>1. CASE La!Tick \/ La!Register \/ UNCHANGED La!vars
    BY <1>1 DEF La!Tick, La!Register, La!vars, OpInv
<1>2. ASSUME NEW o \in La!Ops,
             \/ La!TransportLost(o) \/ La!Prepare(o) \/ La!Confirm(o) \/ La!CancelMarks(o)
             \/ \E a \in Attempts : La!Begin(o, a)
             \/ \E n \in La!Nodes : La!Reserve(o, n) \/ \E k \in {"yarn", "restore"} : La!Switch(o, n, k)
             \/ \E m \in {"execute", "verify"} : La!Work(o, m)
      PROVE  OpInv'
    <2>1. CASE \E a \in Attempts : La!Begin(o, a)
        BY <2>1, PlansAreTodo DEF La!Begin, OpInv, Commands
    <2>2. ASSUME course[o] # La!Idle,
                 \/ course' = [course EXCEPT ![o] = La!Advance(o)]
                 \/ course' = [course EXCEPT ![o] = La!Stumble(o)]
                 \/ course' = [course EXCEPT ![o].busy = TRUE]
          PROVE  OpInv'
        <3>1. CASE course' = [course EXCEPT ![o] = La!Advance(o)] \/ course' = [course EXCEPT ![o] = La!Stumble(o)]
            BY <2>2, <3>1, NextCommand DEF OpInv
        <3>2. CASE course' = [course EXCEPT ![o].busy = TRUE]
            <4>1. course[o] \in [a : Attempts, todo : Todo, busy : BOOLEAN]
                BY <2>2, NextCommand
            <4>2. [course[o] EXCEPT !.busy = TRUE] \in Commands
                BY <4>1 DEF Commands
            <4>3. course' = [course EXCEPT ![o] = [course[o] EXCEPT !.busy = TRUE]]
                BY <3>2
            <4>. QED  BY <4>2, <4>3 DEF OpInv
        <3>. QED  BY <2>2, <3>1, <3>2
    <2>3. CASE La!TransportLost(o)
        BY <2>2, <2>3 DEF La!TransportLost
    <2>4. CASE La!Prepare(o)
        BY <2>2, <2>4 DEF La!Prepare, La!Asks, La!Refused
    <2>5. CASE La!Confirm(o)
        BY <2>2, <2>5 DEF La!Confirm, La!Asks, La!Refused
    <2>6. CASE La!CancelMarks(o)
        BY <2>2, <2>6 DEF La!CancelMarks, La!Asks
    <2>7. ASSUME NEW n \in La!Nodes, La!Reserve(o, n) PROVE OpInv'
        BY <2>2, <2>7 DEF La!Reserve, La!Asks, La!Refused
    <2>8. ASSUME NEW n \in La!Nodes, NEW k \in {"yarn", "restore"}, La!Switch(o, n, k) PROVE OpInv'
        BY <2>2, <2>8 DEF La!Switch, La!Asks, La!Refused
    <2>9. ASSUME NEW m \in {"execute", "verify"}, La!Work(o, m) PROVE OpInv'
        BY <2>2, <2>9 DEF La!Work, La!Asks, La!Refused
    <2>. QED  BY <1>2, <2>1, <2>3, <2>4, <2>5, <2>6, <2>7, <2>8, <2>9
<1>3. ASSUME NEW n \in La!Nodes, La!JobStops(n) \/ La!JobStarts(n) \/ La!JobEnds(n) \/ La!JobFails(n) \/ La!Outside(n)
      PROVE  OpInv'
    <2>1. course' = course \/ \E a, step, good : La!Answered(a, step, good)
        BY <1>3 DEF La!JobStops, La!JobStarts, La!JobEnds, La!JobFails, La!Outside
    <2>. QED  BY <2>1, AnsweredCommands DEF OpInv
<1>4. ASSUME NEW a \in Attempts,
             \/ La!WorkerChecks(a) \/ La!Launch(a) \/ La!DriverWrites(a) \/ La!DriverReads(a) \/ La!Finish(a)
             \/ La!GiveUp(a) \/ La!Dies(a) \/ La!CancelSignals(a) \/ La!CancelCleans(a) \/ La!CancelDies(a)
             \/ \E m \in {"execute", "verify"} : La!Starts(a, m)
      PROVE  OpInv'
    <2>1. course' = course \/ \E b, step, good : La!Answered(b, step, good)
        BY <1>4 DEF La!WorkerChecks, La!Launch, La!DriverWrites, La!DriverReads, La!Finish, La!GiveUp, La!Dies,
              La!CancelSignals, La!CancelCleans, La!CancelDies, La!Starts, La!Leave
    <2>. QED  BY <2>1, AnsweredCommands DEF OpInv
<1>. QED  BY <1>1, <1>2, <1>3, <1>4 DEF La!Next

-----------------------------------------------------------------------------

\* A node: what switches it belongs to the attempt that owns it, and no ordinary job is there.
StageInv ==
    /\ svc \in [La!Nodes -> SUBSET {"hive", "rm", "nm"}]
    /\ lease \in [La!Nodes -> Attempts \cup {None}]
    /\ outsider \in [La!Nodes -> BOOLEAN] /\ DOMAIN task = La!Nodes /\ task = [n \in La!Nodes |-> task[n]]
    /\ La!StageOwned
    /\ \A n \in La!Nodes : task[n] # None => /\ lease[n] # None /\ <<n, lease[n]>> \in record /\ ~ outsider[n]

\* Nothing is reserved at first.
LEMMA StageInitially ==
    ASSUME La!LakeAssumption, La!Init
    PROVE  StageInv
BY DEF La!Init, La!LakeAssumption, StageInv, La!StageOwned, La!Ordinary, La!Yarn, La!Nodes

\* Every step leaves a node with its owner.
LEMMA StageStep ==
    ASSUME La!LakeAssumption, OpInv, StageInv, [La!Next]_(La!vars)
    PROVE  StageInv'
<1>. USE DEF StageInv, La!StageOwned
<1>1. CASE UNCHANGED La!stage
    BY <1>1 DEF La!stage
<1>2. ASSUME NEW o \in La!Ops, NEW n \in La!Nodes, La!Reserve(o, n), ~ UNCHANGED La!stage
      PROVE  StageInv'
    <2>. DEFINE a == course[o].a
    <2>1. a \in Attempts /\ a # None
        BY <1>2, NextCommand DEF La!Reserve, La!Asks, La!LakeAssumption
    <2>. HIDE DEF a
    <2>2. /\ lease[n] \in {None, a} /\ task[n] = None /\ svc[n] = La!Ordinary(n)
          /\ record' = record \cup {<<n, a>>} /\ lease' = [lease EXCEPT ![n] = a]
          /\ UNCHANGED <<svc, task, outsider>>
        BY <1>2 DEF La!Reserve, La!Refused, La!Mine, a
    <2>3. ~ outsider[n]
        BY <2>2 DEF La!Ordinary, La!Yarn, La!Nodes
    <2>. QED  BY <2>1, <2>2, <2>3
<1>3. ASSUME NEW o \in La!Ops, NEW n \in La!Nodes, NEW k \in {"yarn", "restore"}, La!Switch(o, n, k),
             ~ UNCHANGED La!stage
      PROVE  StageInv'
    <2>. DEFINE a == course[o].a
    <2>1. a \in Attempts /\ a # None
        BY <1>3, NextCommand DEF La!Switch, La!Asks, La!LakeAssumption
    <2>. HIDE DEF a
    <2>2. /\ lease[n] = a /\ <<n, a>> \in record /\ task' = [task EXCEPT ![n] = [kind |-> k, a |-> a]]
          /\ UNCHANGED <<svc, lease, record, outsider>>
        BY <1>3 DEF La!Switch, La!Refused, La!Mine, La!MaySwitch, a
    <2>3. ~ outsider[n]
        BY <2>1, <2>2
    <2>. QED  BY <2>1, <2>2, <2>3
<1>4. ASSUME NEW n \in La!Nodes, La!JobStops(n) PROVE StageInv'
    BY <1>4 DEF La!JobStops, La!Desired, La!Ordinary, La!Yarn, La!Nodes
<1>5. ASSUME NEW n \in La!Nodes, La!JobStarts(n) PROVE StageInv'
    BY <1>5 DEF La!JobStarts, La!Clear, La!Desired, La!Ordinary, La!Yarn, La!Nodes
<1>6. ASSUME NEW n \in La!Nodes, La!JobEnds(n) PROVE StageInv'
    BY <1>6 DEF La!JobEnds, La!Desired, La!Ordinary, La!Yarn, La!Nodes
<1>7. ASSUME NEW n \in La!Nodes, La!JobFails(n) PROVE StageInv'
    BY <1>7 DEF La!JobFails, La!Desired, La!Ordinary, La!Yarn, La!Nodes
<1>8. ASSUME NEW n \in La!Nodes, La!Outside(n) PROVE StageInv'
    <2>1. lease[n] = None /\ task[n] = None /\ UNCHANGED <<lease, record, task>>
          /\ outsider' = [outsider EXCEPT ![n] = ~ @]
        BY <1>8 DEF La!Outside
    <2>2. CASE outsider[n]
        <3>1. svc' = [svc EXCEPT ![n] = La!Ordinary(n)]
            BY <1>8, <2>2 DEF La!Outside
        <3>. QED  BY <2>1, <2>2, <3>1 DEF La!Ordinary, La!Nodes
    <2>3. CASE ~ outsider[n]
        <3>1. svc' = [svc EXCEPT ![n] = La!Yarn(n)]
            BY <1>8, <2>3 DEF La!Outside
        <3>. QED  BY <2>1, <2>3, <3>1 DEF La!Yarn, La!Nodes
    <2>. QED  BY <2>2, <2>3
<1>9. CASE \/ La!Tick \/ La!Register
           \/ \E o \in La!Ops : \/ La!TransportLost(o) \/ La!Prepare(o) \/ La!Confirm(o) \/ La!CancelMarks(o)
                                \/ \E a \in Attempts : La!Begin(o, a)
                                \/ \E m \in {"execute", "verify"} : La!Work(o, m)
           \/ \E a \in Attempts :
                \/ La!WorkerChecks(a) \/ La!Launch(a) \/ La!DriverWrites(a) \/ La!DriverReads(a) \/ La!Finish(a)
                \/ La!GiveUp(a) \/ La!Dies(a) \/ La!CancelSignals(a) \/ La!CancelCleans(a) \/ La!CancelDies(a)
                \/ \E m \in {"execute", "verify"} : La!Starts(a, m)
    <2>1. UNCHANGED La!stage
        BY <1>9 DEF La!Tick, La!Register, La!TransportLost, La!Prepare, La!Confirm, La!CancelMarks, La!Begin, La!Work,
              La!Refused, La!WorkerChecks, La!Launch, La!DriverWrites, La!DriverReads, La!Finish, La!GiveUp, La!Dies,
              La!CancelSignals, La!CancelCleans, La!CancelDies, La!Starts
    <2>. QED  BY <1>1, <2>1
<1>10. CASE UNCHANGED La!vars
    BY <1>1, <1>10 DEF La!vars, La!stage
<1>. QED  BY <1>1, <1>2, <1>3, <1>4, <1>5, <1>6, <1>7, <1>8, <1>9, <1>10 DEF La!Next

-----------------------------------------------------------------------------
\* What runs of an attempt: the values of the variables.
Modes == {"execute", "verify"}

RunTypes ==
    /\ worker \in [Attempts -> [mode : Modes, pc : {"check", "launch", "wait"}] \cup {None}]
    /\ driver \in [Attempts -> [mode : Modes, pc : {"run", "done"}] \cup {None}]
    /\ marker \in [Attempts -> {None, "started", "complete"}] /\ tables \in [Attempts -> {"none", "partial", "full"}]
    /\ proof \in [Attempts -> [tables : {"none", "partial", "full"}] \cup {None}]
    /\ desc = [a \in Attempts |-> desc[a]] /\ cancel \in [Attempts -> {None, "signal", "clean"}]
    /\ runs \in [Attempts -> 0..1] /\ launching \subseteq Attempts \X Modes
    /\ receipt \subseteq Attempts /\ cancelled \subseteq Attempts /\ confirmed \subseteq Attempts
    /\ ended \subseteq Attempts

\* A worker past its check, one that is about to launch, a container, a docker run on its way.
Worker(a, mode) == worker[a] # None /\ worker[a].mode = mode /\ worker[a].pc # "check"
Launches(a) == worker[a] # None /\ worker[a].mode = "execute" /\ worker[a].pc = "launch"
Driver(a, mode) == driver[a] # None /\ driver[a].mode = mode
Launching(a, mode) == <<a, mode>> \in launching

\* An execution has not been launched, is on its way, or has begun: one of the three.
ExecutionRight(a) ==
    /\ Launches(a) => runs[a] = 0 /\ ~ Launching(a, "execute")
    /\ Launching(a, "execute") => runs[a] = 0
    /\ Driver(a, "execute") => runs[a] = 1
    /\ marker[a] = None => runs[a] = 0 /\ ~ Launching(a, "execute")

\* execution.json says how far it is; only what is complete is read back.
MarkerRight(a) ==
    /\ Worker(a, "execute") => marker[a] = "started"
    /\ Worker(a, "verify") \/ Launching(a, "verify") \/ Driver(a, "verify") => marker[a] = "complete"
    /\ a \in receipt => tables[a] = "full"
    /\ marker[a] = "complete" => tables[a] = "full" /\ ~ Launching(a, "execute") /\ ~ Driver(a, "execute")
    /\ a \in confirmed => marker[a] = "complete" /\ proof[a] # None
    /\ proof[a] # None => marker[a] = "complete"

\* Nothing is launched without a descriptor; what was cancelled has no worker again.
CancelledRight(a) ==
    /\ Launching(a, "execute") \/ Launching(a, "verify") \/ driver[a] # None => desc[a] # None
    /\ cancel[a] # None => a \in cancelled
    /\ cancel[a] = "clean" => worker[a] = None
    /\ a \in ended => /\ a \in cancelled /\ worker[a] = None /\ driver[a] = None
                      /\ ~ Launching(a, "execute") /\ ~ Launching(a, "verify")

\* The inductive invariant of what runs and what it left.
Right(a) == ExecutionRight(a) /\ MarkerRight(a) /\ CancelledRight(a)
RunInv == RunTypes /\ \A a \in Attempts : Right(a)

\* Nothing has run at first.
LEMMA RunInitially ==
    ASSUME La!LakeAssumption, La!Init
    PROVE  RunInv
BY DEF La!Init, La!LakeAssumption, La!NotYet, RunInv, RunTypes, Right, ExecutionRight, MarkerRight, CancelledRight,
       Worker, Launches, Driver, Launching

\* Everything that invariant speaks of.
RunVars == <<desc, La!files, worker, launching, driver, cancel, cancelled, runs, ended, confirmed>>

\* A step that touches none of it keeps it.
LEMMA RunKept ==
    ASSUME RunInv, UNCHANGED RunVars
    PROVE  RunInv'
BY DEF RunVars, La!files, RunInv, RunTypes, Right, ExecutionRight, MarkerRight, CancelledRight,
       Worker, Launches, Driver, Launching

\* Of the other attempts nothing changes.
LEMMA RightKept ==
    ASSUME NEW b \in Attempts, Right(b),
           UNCHANGED <<worker[b], driver[b], marker[b], tables[b], proof[b], runs[b], cancel[b], desc[b]>>,
           b \in receipt' <=> b \in receipt, b \in cancelled' <=> b \in cancelled,
           b \in ended' <=> b \in ended, b \in confirmed' <=> b \in confirmed,
           \A m \in Modes : Launching(b, m)' <=> Launching(b, m)
    PROVE  Right(b)'
<1>1. ExecutionRight(b)'
    BY DEF Right, ExecutionRight, Launches, Driver, Modes
<1>2. MarkerRight(b)'
    BY DEF Right, MarkerRight, Worker, Driver, Modes
<1>3. CancelledRight(b)'
    BY DEF Right, CancelledRight, Modes
<1>. QED  BY <1>1, <1>2, <1>3 DEF Right

\* A worker that ends leaves what it has launched, or takes all of it away.
LEMMA WorkerLeaves ==
    ASSUME RunInv, NEW a \in Attempts,
           worker' = [worker EXCEPT ![a] = None],
           \/ UNCHANGED <<driver, launching>>
           \/ driver' = [driver EXCEPT ![a] = None] /\ launching' = {l \in launching : l[1] # a},
           \/ UNCHANGED cancel
           \/ cancel[a] # None /\ cancel' = [cancel EXCEPT ![a] = "clean"],
           UNCHANGED <<desc, La!files, cancelled, runs, ended, confirmed>>
    PROVE  RunInv'
<1>. USE DEF La!files
<1>1. RunTypes'
    BY DEF RunInv, RunTypes
<1>2. ASSUME NEW b \in Attempts PROVE Right(b)'
    <2>1. worker'[b] = None \/ worker'[b] = worker[b]
        BY DEF RunInv, RunTypes
    <2>2. driver'[b] = None \/ driver'[b] = driver[b]
        BY DEF RunInv, RunTypes
    <2>3. \A m \in Modes : Launching(b, m)' => Launching(b, m)
        BY DEF Launching
    <2>4. cancel'[b] # None => b \in cancelled
        BY DEF RunInv, RunTypes, Right, CancelledRight
    <2>5. cancel'[b] = "clean" => worker'[b] = None
        BY <2>1 DEF RunInv, RunTypes, Right, CancelledRight
    <2>6. ExecutionRight(b)'
        BY <2>1, <2>2, <2>3 DEF RunInv, Right, ExecutionRight, Launches, Driver, Modes
    <2>7. MarkerRight(b)'
        BY <2>1, <2>2, <2>3 DEF RunInv, Right, MarkerRight, Worker, Driver, Modes
    <2>8. CancelledRight(b)'
        BY <2>1, <2>2, <2>3, <2>4, <2>5 DEF RunInv, Right, CancelledRight, Modes
    <2>. QED  BY <2>6, <2>7, <2>8 DEF Right
<1>. QED  BY <1>1, <1>2 DEF RunInv

\* The operator's commands.
LEMMA CommandRuns ==
    ASSUME La!LakeAssumption, OpInv, RunInv, NEW o \in La!Ops,
           La!Prepare(o) \/ La!Confirm(o) \/ La!CancelMarks(o) \/ \E m \in Modes : La!Work(o, m)
    PROVE  RunInv'
<1>1. PICK a \in Attempts : a = course[o].a
    BY NextCommand DEF La!Prepare, La!Confirm, La!CancelMarks, La!Work, La!Asks
<1>2. UNCHANGED RunVars => RunInv'
    BY RunKept
<1>3. CASE La!Prepare(o) /\ ~ UNCHANGED RunVars
    <2>1. /\ UNCHANGED <<La!files, worker, launching, driver, cancel, cancelled, runs, ended, confirmed>>
          /\ desc[a] = None /\ \E d : desc' = [desc EXCEPT ![a] = d]
        BY <1>1, <1>3 DEF La!Prepare, La!Refused, La!work, RunVars
    <2>2. desc' = [b \in Attempts |-> desc'[b]] /\ \A b \in Attempts : desc[b] # None => desc'[b] # None
        BY <1>1, <2>1 DEF RunInv, RunTypes
    <2>. QED  BY <2>1, <2>2 DEF RunInv, RunTypes, La!files, Right, ExecutionRight, MarkerRight, CancelledRight,
                   Worker, Launches, Driver, Launching
<1>4. CASE La!Confirm(o) /\ ~ UNCHANGED RunVars
    <2>1. /\ UNCHANGED <<desc, La!files, worker, launching, driver, cancel, cancelled, runs, ended>>
          /\ proof[a] # None /\ confirmed' = confirmed \cup {a}
        BY <1>1, <1>4 DEF La!Confirm, La!Confirmable, La!Refused, La!work, RunVars
    <2>. QED  BY <1>1, <2>1 DEF RunInv, RunTypes, La!files, Right, ExecutionRight, MarkerRight, CancelledRight,
                   Worker, Launches, Driver, Launching
<1>5. CASE La!CancelMarks(o)
    <2>1. /\ UNCHANGED <<desc, La!files, worker, launching, driver, runs, ended, confirmed>>
          /\ cancelled' = cancelled \cup {a} /\ cancel' = [cancel EXCEPT ![a] = "signal"]
        BY <1>1, <1>5 DEF La!CancelMarks
    <2>. QED  BY <1>1, <2>1 DEF RunInv, RunTypes, La!files, Right, ExecutionRight, MarkerRight, CancelledRight,
                   Worker, Launches, Driver, Launching
<1>6. ASSUME NEW m \in Modes, La!Work(o, m), ~ UNCHANGED RunVars PROVE RunInv'
    <2>1. /\ UNCHANGED <<desc, La!files, launching, driver, cancel, cancelled, runs, ended, confirmed>>
          /\ a \notin cancelled /\ worker[a] = None
          /\ worker' = [worker EXCEPT ![a] = [mode |-> m, pc |-> "check"]]
        BY <1>1, <1>6 DEF La!Work, La!Admitted, La!Refused, La!work, RunVars
    <2>2. RunTypes'
        BY <1>1, <2>1 DEF RunInv, RunTypes, La!files
    <2>3. worker'[a] = [mode |-> m, pc |-> "check"] /\ \A b \in Attempts \ {a} : worker'[b] = worker[b]
        BY <1>1, <2>1 DEF RunInv, RunTypes
    <2>4. ASSUME NEW b \in Attempts PROVE Right(b)'
        <3>1. CASE b # a
            BY <2>1, <2>3, <3>1 DEF RunInv, La!files, Right, ExecutionRight, MarkerRight, CancelledRight,
                   Worker, Launches, Driver, Launching
        <3>2. CASE b = a
            <4>1. ~ Worker(a, "execute")' /\ ~ Worker(a, "verify")' /\ ~ Launches(a)'
                BY <2>3 DEF Worker, Launches
            <4>2. Right(a)
                BY <1>1 DEF RunInv
            <4>3. cancel'[a] = None /\ a \notin ended'
                BY <2>1, <4>2 DEF Right, CancelledRight
            <4>4. ExecutionRight(a)' /\ MarkerRight(a)'
                BY <2>1, <4>1, <4>2 DEF La!files, Right, ExecutionRight, MarkerRight, Driver, Launching
            <4>5. CancelledRight(a)'
                BY <2>1, <4>2, <4>3 DEF Right, CancelledRight, Launching, La!LakeAssumption
            <4>. QED  BY <3>2, <4>4, <4>5 DEF Right
        <3>. QED  BY <3>1, <3>2
    <2>. QED  BY <2>2, <2>4 DEF RunInv
<1>. QED  BY <1>2, <1>3, <1>4, <1>5, <1>6

\* What the worker and its drivers do.
LEMMA WorkerRuns ==
    ASSUME La!LakeAssumption, RunInv, NEW a \in Attempts,
           \/ La!WorkerChecks(a) \/ La!Launch(a) \/ La!Finish(a) \/ La!GiveUp(a) \/ La!Dies(a)
           \/ \E m \in Modes : La!Starts(a, m)
    PROVE  RunInv'
<1>. USE DEF La!files
<1>1. RunTypes /\ Right(a) /\ \A b \in Attempts : Right(b)
    BY DEF RunInv
<1>2. CASE La!Dies(a) \/ La!GiveUp(a)
    <2>1. /\ worker' = [worker EXCEPT ![a] = None]
          /\ \/ UNCHANGED <<driver, launching>>
             \/ driver' = [driver EXCEPT ![a] = None] /\ launching' = {l \in launching : l[1] # a}
          /\ UNCHANGED <<desc, La!files, cancel, cancelled, runs, ended, confirmed>>
        BY <1>2 DEF La!Dies, La!GiveUp, La!Give, La!Leave
    <2>. QED  BY <2>1, WorkerLeaves
<1>3. CASE La!WorkerChecks(a)
    <2>1. UNCHANGED <<desc, tables, receipt, proof, driver, launching, cancel, cancelled, runs, ended, confirmed>>
          /\ worker[a] # None /\ worker[a].pc = "check"
        BY <1>3 DEF La!WorkerChecks
    <2>2. CASE worker' = [worker EXCEPT ![a] = None] /\ marker' = marker
        BY <2>1, <2>2, WorkerLeaves
    <2>3. CASE worker[a].mode = "execute" /\ marker[a] = None /\ marker' = [marker EXCEPT ![a] = "started"]
               /\ worker' = [worker EXCEPT ![a].pc = "launch"]
        <3>1. RunTypes' /\ marker'[a] = "started" /\ worker'[a].mode = "execute" /\ worker'[a].pc = "launch"
            BY <1>1, <2>1, <2>3 DEF RunTypes
        <3>2. \A b \in Attempts \ {a} : worker'[b] = worker[b] /\ marker'[b] = marker[b]
            BY <1>1, <2>3 DEF RunTypes
        <3>3. Right(a)'
            BY <1>1, <2>1, <2>3, <3>1 DEF Right, ExecutionRight, MarkerRight, CancelledRight, Worker, Launches, Driver, Launching, La!LakeAssumption
        <3>4. \A b \in Attempts \ {a} : Right(b)'
            BY <1>1, <2>1, <3>2, RightKept DEF Launching
        <3>. QED  BY <3>1, <3>3, <3>4 DEF RunInv
    <2>4. CASE worker[a].mode = "verify" /\ marker[a] = "complete" /\ marker' = marker
               /\ worker' = [worker EXCEPT ![a].pc = "launch"]
        <3>1. RunTypes' /\ worker'[a].mode = "verify" /\ worker'[a].pc = "launch"
            BY <1>1, <2>1, <2>4 DEF RunTypes
        <3>2. \A b \in Attempts \ {a} : worker'[b] = worker[b]
            BY <1>1, <2>4 DEF RunTypes
        <3>3. Right(a)'
            BY <1>1, <2>1, <2>4, <3>1 DEF Right, ExecutionRight, MarkerRight, CancelledRight, Worker, Launches, Driver, Launching
        <3>4. \A b \in Attempts \ {a} : Right(b)'
            BY <1>1, <2>1, <2>4, <3>2, RightKept DEF Launching
        <3>. QED  BY <3>1, <3>3, <3>4 DEF RunInv
    <2>. QED  BY <1>3, <2>2, <2>3, <2>4 DEF La!WorkerChecks, La!Leave, La!Fresh
<1>4. CASE La!Launch(a)
    <2>1. UNCHANGED <<desc, La!files, driver, cancel, cancelled, runs, ended, confirmed>>
          /\ worker[a] # None /\ worker[a].pc = "launch"
        BY <1>4 DEF La!Launch
    <2>2. CASE worker' = [worker EXCEPT ![a] = None] /\ launching' = launching
        BY <2>1, <2>2, WorkerLeaves
    <2>3. CASE /\ driver[a] = None /\ desc[a] # None /\ launching' = launching \cup {<<a, worker[a].mode>>}
               /\ worker' = [worker EXCEPT ![a].pc = "wait"]
        <3>. DEFINE m == worker[a].mode
        <3>1. m \in Modes /\ (Worker(a, m)) /\ (m = "execute" => Launches(a))
            BY <1>1, <2>1 DEF RunTypes, Worker, Launches
        <3>2. RunTypes' /\ worker'[a].mode = m /\ worker'[a].pc = "wait"
            BY <1>1, <2>1, <2>3, <3>1 DEF RunTypes
        <3>3. \A b \in Attempts \ {a} : worker'[b] = worker[b] /\ \A k \in Modes : Launching(b, k)' <=> Launching(b, k)
            BY <1>1, <2>3 DEF RunTypes, Launching
        <3>4. \A k \in Modes : Launching(a, k)' <=> Launching(a, k) \/ k = m
            BY <2>3 DEF Launching
        <3>. HIDE DEF m
        <3>5. Right(a)'
            <4>1. ~ Launches(a)' /\ \A k \in Modes : Worker(a, k)' => k = m
                BY <3>2 DEF Launches, Worker
            <4>2. ExecutionRight(a)'
                BY <1>1, <2>1, <3>1, <3>4, <4>1 DEF Right, ExecutionRight, Driver, Modes, RunTypes, MarkerRight, La!LakeAssumption
            <4>3. MarkerRight(a)'
                BY <1>1, <2>1, <3>1, <3>4, <4>1 DEF Right, MarkerRight, Driver, Modes
            <4>4. CancelledRight(a)'
                BY <1>1, <2>1, <2>3, <3>2, <3>4 DEF Right, CancelledRight, Modes
            <4>. QED  BY <4>2, <4>3, <4>4 DEF Right
        <3>6. \A b \in Attempts \ {a} : Right(b)'
            BY <1>1, <2>1, <3>3, RightKept
        <3>. QED  BY <3>2, <3>5, <3>6 DEF RunInv
    <2>. QED  BY <1>4, <2>2, <2>3 DEF La!Launch, La!Leave, La!Live
<1>5. ASSUME NEW m \in Modes, La!Starts(a, m) PROVE RunInv'
    <2>1. /\ UNCHANGED <<desc, La!files, worker, cancel, cancelled, ended, confirmed>>
          /\ <<a, m>> \in launching /\ launching' = launching \ {<<a, m>>}
          /\ driver' = [driver EXCEPT ![a] = [mode |-> m, pc |-> "run"]]
          /\ runs' = IF m = "execute" THEN [runs EXCEPT ![a] = @ + 1] ELSE runs
        BY <1>5 DEF La!Starts
    <2>2. Launching(a, m) /\ (m = "execute" => runs[a] = 0)
        BY <1>1, <2>1 DEF Launching, Right, ExecutionRight
    <2>3. RunTypes' /\ driver'[a].mode = m /\ (m = "execute" => runs'[a] = 1) /\ (m # "execute" => runs' = runs)
        BY <1>1, <2>1, <2>2 DEF RunTypes
    <2>4. \A b \in Attempts \ {a} : /\ driver'[b] = driver[b] /\ runs'[b] = runs[b]
                                    /\ \A k \in Modes : Launching(b, k)' <=> Launching(b, k)
        BY <1>1, <2>1 DEF RunTypes, Launching
    <2>5. \A k \in Modes : Launching(a, k)' <=> Launching(a, k) /\ k # m
        BY <2>1 DEF Launching
    <2>6. Right(a)'
        BY <1>1, <2>1, <2>2, <2>3, <2>5 DEF Right, ExecutionRight, MarkerRight, CancelledRight, Worker, Launches, Driver, Modes
    <2>7. \A b \in Attempts \ {a} : Right(b)'
        BY <1>1, <2>1, <2>4, RightKept
    <2>. QED  BY <2>3, <2>6, <2>7 DEF RunInv
<1>6. CASE La!Finish(a)
    <2>. DEFINE good == La!Live(a) /\ (worker[a].mode = "execute" => a \in receipt)
    <2>1. /\ worker[a] # None /\ worker[a].pc = "wait" /\ driver[a] # None
          /\ driver' = [driver EXCEPT ![a] = None] /\ worker' = [worker EXCEPT ![a] = None]
          /\ marker' = IF good /\ worker[a].mode = "execute" THEN [marker EXCEPT ![a] = "complete"] ELSE marker
          /\ proof' = IF good /\ worker[a].mode = "verify" THEN [proof EXCEPT ![a] = [tables |-> tables[a]]] ELSE proof
          /\ UNCHANGED <<desc, tables, receipt, launching, cancel, cancelled, runs, ended, confirmed>>
        BY <1>6 DEF La!Finish, La!Leave
    <2>2. worker[a].mode = "execute" /\ good => a \in receipt
        OBVIOUS
    <2>. HIDE DEF good
    <2>3. worker[a].mode \in Modes /\ driver[a].mode \in Modes /\ Worker(a, worker[a].mode) /\ Driver(a, driver[a].mode)
        BY <1>1, <2>1 DEF RunTypes, Worker, Driver
    <2>4. RunTypes'
        BY <1>1, <2>1 DEF RunTypes
    <2>5. driver'[a] = None /\ worker'[a] = None
        BY <1>1, <2>1 DEF RunTypes
    <2>6. \A b \in Attempts \ {a} : UNCHANGED <<driver[b], worker[b], marker[b], proof[b]>>
        BY <1>1, <2>1 DEF RunTypes
    <2>7. \A b \in Attempts \ {a} : Right(b)'
        BY <1>1, <2>1, <2>6, RightKept DEF Launching
    <2>8. ExecutionRight(a)' /\ CancelledRight(a)'
        BY <1>1, <2>1, <2>5 DEF RunTypes, Right, ExecutionRight, CancelledRight, Worker, Launches, Driver, Launching, La!LakeAssumption
    <2>9. MarkerRight(a)'
        <3>1. CASE good /\ worker[a].mode = "execute"
            <4>1. marker'[a] = "complete" /\ proof' = proof /\ tables[a] = "full"
                BY <1>1, <2>1, <2>2, <3>1 DEF RunTypes, Right, MarkerRight
            <4>2. marker[a] = "started" /\ driver[a].mode # "verify"
                BY <1>1, <2>3, <3>1 DEF Right, MarkerRight
            <4>3. runs[a] = 1 /\ ~ Launching(a, "execute")
                BY <1>1, <2>3, <4>2 DEF Modes, Right, ExecutionRight
            <4>. QED  BY <1>1, <2>1, <2>5, <4>1, <4>2, <4>3 DEF Right, MarkerRight, Worker, Driver, Launching
        <3>2. CASE good /\ worker[a].mode = "verify"
            <4>1. marker[a] = "complete" /\ marker' = marker
                BY <1>1, <2>1, <2>3, <3>2 DEF Right, MarkerRight
            <4>2. proof'[a] # None
                BY <1>1, <2>1, <3>2 DEF RunTypes, La!LakeAssumption
            <4>. QED  BY <1>1, <2>1, <2>5, <4>1, <4>2 DEF Right, MarkerRight, Worker, Driver, Launching
        <3>3. CASE ~ good
            BY <1>1, <2>1, <2>5, <3>3 DEF Right, MarkerRight, Worker, Driver, Launching
        <3>. QED  BY <2>3, <3>1, <3>2, <3>3 DEF Modes
    <2>. QED  BY <2>4, <2>7, <2>8, <2>9 DEF RunInv, Right
<1>. QED  BY <1>2, <1>3, <1>4, <1>5, <1>6

\* What the drivers do, and the cancellation.
LEMMA DriverRuns ==
    ASSUME La!LakeAssumption, RunInv, NEW a \in Attempts,
           \/ La!DriverWrites(a) \/ La!DriverReads(a) \/ La!CancelSignals(a) \/ La!CancelCleans(a) \/ La!CancelDies(a)
    PROVE  RunInv'
<1>. USE DEF La!files
<1>1. RunTypes /\ Right(a) /\ \A b \in Attempts : Right(b)
    BY DEF RunInv
<1>2. CASE La!DriverWrites(a)
    <2>1. /\ driver[a] = [mode |-> "execute", pc |-> "run"] /\ driver[a] # None
          /\ UNCHANGED <<desc, marker, proof, worker, launching, cancel, cancelled, runs, ended, confirmed>>
        BY <1>2 DEF La!DriverWrites
    <2>2. /\ tables[a] = "full" => tables' = tables
          /\ tables' = tables \/ \E t \in {"partial", "full"} : tables' = [tables EXCEPT ![a] = t]
          /\ driver' = driver \/ driver' = [driver EXCEPT ![a].pc = "done"]
          /\ receipt' = receipt \/ (tables[a] = "full" /\ tables' = tables /\ receipt' = receipt \cup {a})
        BY <1>2 DEF La!DriverWrites
    <2>3. RunTypes' /\ driver'[a].mode = "execute"
        <3>1. tables' \in [Attempts -> {"none", "partial", "full"}] /\ receipt' \in SUBSET Attempts
            BY <1>1, <2>2 DEF RunTypes
        <3>. DEFINE next == [mode |-> "execute", pc |-> "done"]
        <3>2. driver' = driver \/ driver' = [driver EXCEPT ![a] = next]
            BY <1>1, <2>1, <2>2 DEF RunTypes
        <3>3. next \in [mode : Modes, pc : {"run", "done"}] /\ next.mode = "execute"
            BY DEF Modes
        <3>. HIDE DEF next
        <3>4. driver' \in [Attempts -> [mode : Modes, pc : {"run", "done"}] \cup {None}] /\ driver'[a].mode = "execute"
            BY <1>1, <2>1, <3>2, <3>3 DEF RunTypes
        <3>. QED  BY <1>1, <2>1, <3>1, <3>4 DEF RunTypes
    <2>4. \A b \in Attempts \ {a} : UNCHANGED <<driver[b], tables[b]>> /\ (b \in receipt' <=> b \in receipt)
        BY <1>1, <2>2 DEF RunTypes
    <2>5. \A b \in Attempts \ {a} : Right(b)'
        BY <1>1, <2>1, <2>4, RightKept DEF Launching
    <2>6. ExecutionRight(a)' /\ CancelledRight(a)'
        BY <1>1, <2>1, <2>3 DEF Right, ExecutionRight, CancelledRight, Launches, Launching, Driver
    <2>7. MarkerRight(a)'
        BY <1>1, <2>1, <2>2, <2>3 DEF Right, MarkerRight, Worker, Launching, Driver
    <2>. QED  BY <2>3, <2>5, <2>6, <2>7 DEF RunInv, Right
<1>3. CASE La!DriverReads(a)
    <2>1. /\ driver[a] = [mode |-> "verify", pc |-> "run"] /\ driver[a] # None
          /\ driver' = [driver EXCEPT ![a].pc = "done"]
          /\ UNCHANGED <<desc, La!files, worker, launching, cancel, cancelled, runs, ended, confirmed>>
        BY <1>3 DEF La!DriverReads
    <2>2. RunTypes' /\ driver'[a].mode = "verify"
        BY <1>1, <2>1 DEF RunTypes
    <2>3. \A b \in Attempts \ {a} : UNCHANGED driver[b]
        BY <1>1, <2>1 DEF RunTypes
    <2>4. \A b \in Attempts \ {a} : Right(b)'
        BY <1>1, <2>1, <2>3, RightKept DEF Launching
    <2>5. Right(a)'
        BY <1>1, <2>1, <2>2 DEF Right, ExecutionRight, MarkerRight, CancelledRight, Worker, Launches, Launching, Driver
    <2>. QED  BY <2>2, <2>4, <2>5 DEF RunInv
<1>4. CASE La!CancelSignals(a)
    <2>1. /\ cancel[a] # None /\ cancel' = [cancel EXCEPT ![a] = "clean"]
          /\ UNCHANGED <<desc, La!files, cancelled, runs, ended, confirmed>>
        BY <1>4 DEF La!CancelSignals, La!LakeAssumption
    <2>2. CASE worker[a] # None
        <3>1. /\ worker' = [worker EXCEPT ![a] = None]
              /\ \/ UNCHANGED <<driver, launching>>
                 \/ driver' = [driver EXCEPT ![a] = None] /\ launching' = {l \in launching : l[1] # a}
            BY <1>1, <1>4, <2>2 DEF La!CancelSignals, La!Give, La!Leave, RunTypes
        <3>. QED  BY <2>1, <3>1, WorkerLeaves
    <2>3. CASE worker[a] = None
        <3>1. UNCHANGED <<worker, driver, launching>>
            BY <1>4, <2>3 DEF La!CancelSignals
        <3>2. worker' = [worker EXCEPT ![a] = None]
            BY <1>1, <2>3, <3>1 DEF RunTypes
        <3>. QED  BY <2>1, <3>1, <3>2, WorkerLeaves
    <2>. QED  BY <2>2, <2>3
<1>5. CASE La!CancelCleans(a) \/ La!CancelDies(a)
    <2>1. /\ cancel' = [cancel EXCEPT ![a] = None]
          /\ driver' = driver \/ driver' = [driver EXCEPT ![a] = None]
          /\ UNCHANGED <<desc, La!files, worker, launching, cancelled, runs, confirmed>>
          /\ \/ ended' = ended
             \/ /\ cancel[a] = "clean" /\ (driver'[a] = None \/ (desc[a] = None /\ driver' = driver))
                /\ ended' = ended \cup {a} /\ ~ \E l \in launching : l[1] = a
        <3>1. CASE La!CancelDies(a)
            BY <3>1 DEF La!CancelDies, La!files
        <3>2. CASE La!CancelCleans(a)
            <4>1. /\ cancel' = [cancel EXCEPT ![a] = None] /\ cancel[a] = "clean"
                  /\ driver' = IF desc[a] # None THEN [driver EXCEPT ![a] = None] ELSE driver
                  /\ ended' = IF \E l \in launching : l[1] = a THEN ended ELSE ended \cup {a}
                  /\ UNCHANGED <<desc, La!files, worker, launching, cancelled, runs, confirmed>>
                BY <3>2 DEF La!CancelCleans
            <4>2. desc[a] # None => driver'[a] = None
                BY <1>1, <4>1 DEF RunTypes
            <4>3. driver' = driver \/ driver' = [driver EXCEPT ![a] = None]
                BY <4>1
            <4>4. driver'[a] = None \/ (desc[a] = None /\ driver' = driver)
                BY <4>1, <4>2
            <4>5. ended' = ended \/ (ended' = ended \cup {a} /\ ~ \E l \in launching : l[1] = a)
                BY <4>1
            <4>. QED  BY <4>1, <4>3, <4>4, <4>5
        <3>. QED  BY <1>5, <3>1, <3>2
    <2>2. RunTypes' /\ cancel'[a] = None /\ (driver'[a] = driver[a] \/ driver'[a] = None)
        BY <1>1, <2>1 DEF RunTypes
    <2>3. \A b \in Attempts \ {a} : UNCHANGED <<driver[b], cancel[b]>> /\ (b \in ended' <=> b \in ended)
        BY <1>1, <2>1 DEF RunTypes
    <2>4. \A b \in Attempts \ {a} : Right(b)'
        BY <1>1, <2>1, <2>3, RightKept DEF Launching
    <2>5. ExecutionRight(a)' /\ MarkerRight(a)'
        BY <1>1, <2>1, <2>2 DEF Right, ExecutionRight, MarkerRight, Worker, Launches, Launching, Driver
    <2>6. CancelledRight(a)'
        <3>1. a \in ended' => /\ a \in cancelled /\ worker[a] = None /\ driver'[a] = None
                              /\ ~ Launching(a, "execute") /\ ~ Launching(a, "verify")
            <4>1. CASE ended' = ended
                BY <1>1, <2>2, <4>1 DEF Right, CancelledRight
            <4>2. CASE /\ cancel[a] = "clean" /\ (driver'[a] = None \/ (desc[a] = None /\ driver' = driver))
                       /\ ~ \E l \in launching : l[1] = a
                BY <1>1, <4>2 DEF Right, CancelledRight, Launching, La!LakeAssumption
            <4>. QED  BY <2>1, <4>1, <4>2
        <3>. QED  BY <1>1, <2>1, <2>2, <3>1 DEF Right, CancelledRight, Launching, La!LakeAssumption
    <2>. QED  BY <2>2, <2>4, <2>5, <2>6 DEF RunInv, Right
<1>. QED  BY <1>2, <1>3, <1>4, <1>5

\* Every step keeps it.
LEMMA RunStep ==
    ASSUME La!LakeAssumption, OpInv, RunInv, [La!Next]_(La!vars)
    PROVE  RunInv'
<1>1. CASE \/ La!Tick \/ La!Register \/ UNCHANGED La!vars
           \/ \E o \in La!Ops : La!TransportLost(o) \/ \E a \in Attempts : La!Begin(o, a)
           \/ \E o \in La!Ops, n \in La!Nodes : La!Reserve(o, n) \/ \E k \in {"yarn", "restore"} : La!Switch(o, n, k)
           \/ \E n \in La!Nodes : La!JobStops(n) \/ La!JobStarts(n) \/ La!JobEnds(n) \/ La!JobFails(n) \/ La!Outside(n)
    <2>. USE DEF RunVars, La!work, La!files
    <2>1. ASSUME La!Tick \/ La!Register \/ UNCHANGED La!vars PROVE UNCHANGED RunVars
        BY <2>1 DEF La!Tick, La!Register, La!vars
    <2>2. ASSUME NEW o \in La!Ops, La!TransportLost(o) \/ \E a \in Attempts : La!Begin(o, a) PROVE UNCHANGED RunVars
        BY <2>2 DEF La!TransportLost, La!Begin, RunVars, La!work
    <2>3. ASSUME NEW o \in La!Ops, NEW n \in La!Nodes, La!Reserve(o, n) PROVE UNCHANGED RunVars
        BY <2>3 DEF La!Reserve, La!Refused, RunVars, La!work
    <2>4. ASSUME NEW o \in La!Ops, NEW n \in La!Nodes, NEW k \in {"yarn", "restore"}, La!Switch(o, n, k)
          PROVE  UNCHANGED RunVars
        BY <2>4 DEF La!Switch, La!Refused, RunVars, La!work
    <2>5. ASSUME NEW n \in La!Nodes, La!JobStops(n) \/ La!JobStarts(n) \/ La!JobEnds(n) \/ La!JobFails(n) \/ La!Outside(n)
          PROVE  UNCHANGED RunVars
        BY <2>5 DEF La!JobStops, La!JobStarts, La!JobEnds, La!JobFails, La!Outside, RunVars, La!work
    <2>6. UNCHANGED RunVars
        BY <1>1, <2>1, <2>2, <2>3, <2>4, <2>5
    <2>. QED  BY <2>6, RunKept
<1>2. ASSUME NEW o \in La!Ops, La!Prepare(o) \/ La!Confirm(o) \/ La!CancelMarks(o) \/ \E m \in Modes : La!Work(o, m)
      PROVE  RunInv'
    BY <1>2, CommandRuns
<1>3. ASSUME NEW a \in Attempts,
             \/ La!WorkerChecks(a) \/ La!Launch(a) \/ La!DriverWrites(a) \/ La!DriverReads(a) \/ La!Finish(a)
             \/ La!GiveUp(a) \/ La!Dies(a) \/ La!CancelSignals(a) \/ La!CancelCleans(a) \/ La!CancelDies(a)
             \/ \E m \in Modes : La!Starts(a, m)
      PROVE  RunInv'
    BY <1>3, WorkerRuns, DriverRuns
<1>. QED  BY <1>1, <1>2, <1>3 DEF La!Next, Modes

\* No node is left in the compute phase without its owner, an attempt is executed once, what
\* is confirmed is complete, and nothing of a cancelled attempt runs or starts, wherever a
\* transport breaks or a worker dies (reserve_stage, switch_stage, node_worker,
\* cancel_driver, confirm).
THEOREM TablesWrittenOnce ==
    ASSUME La!LakeAssumption
    PROVE  La!Spec => []La!AttemptsSound
<1>. DEFINE Inv == OpInv /\ StageInv /\ RunInv
<1>1. La!Init => Inv
    <2>1. La!Init => OpInv
        BY DEF La!Init, OpInv, Commands
    <2>. QED  BY <2>1, StageInitially, RunInitially
<1>2. Inv /\ [La!Next]_(La!vars) => Inv'
    BY OpStep, StageStep, RunStep
<1>3. Inv => La!AttemptsSound
    <2>1. SUFFICES ASSUME StageInv, RunInv PROVE La!OneExecution
        BY DEF La!AttemptsSound, StageInv
    <2>2. ASSUME NEW a \in Attempts, Right(a)
          PROVE  /\ runs[a] <= 1
                 /\ a \in confirmed => /\ marker[a] = "complete" /\ tables[a] = "full" /\ proof[a] # None
                                       /\ <<a, "execute">> \notin launching
                                       /\ driver[a] # None => driver[a].mode = "verify"
                 /\ a \in ended => worker[a] = None /\ driver[a] = None
        BY <2>1, <2>2 DEF RunInv, RunTypes, Right, MarkerRight, CancelledRight, Driver, Launching, Modes
    <2>. QED  BY <2>1, <2>2 DEF RunInv, La!OneExecution
<1>. QED  BY <1>1, <1>2, <1>3, PTL DEF La!Spec

\* The two together: what the run checks of both kinds of attempt.
THEOREM AttemptsAreSound == At!Spec /\ La!Spec => []AttemptsSound
<1>1. (At!AttemptsSound /\ La!AttemptsSound) <=> AttemptsSound
    BY DEF AttemptsSound
<1>. QED  BY <1>1, ReportedIsGone, TablesWrittenOnce, LaboratoryAssumption, PTL
=============================================================================
