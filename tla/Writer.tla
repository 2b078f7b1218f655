------------------------------- MODULE Writer -------------------------------
(* The real writer of one epoch: its initialization over empty engines, the  *)
(* first submission of the Flink job, and controlled pause and resume with a *)
(* ledger that closes synchronisation (src/snow_statistics/real_quiescent.py,*)
(* real_writer.py, real_writer_recovery.py, real_lab.py).                     *)
(* Flink's jobs, checkpoints and committed rows are external.  Storage that   *)
(* is not the registered one is a failed operation.                           *)
EXTENDS Naturals, Sequences, SequencesExt, FiniteSets

CONSTANTS
    MaxJobs,    \* bound: jobs ever submitted
    MaxRows,    \* bound: events produced to the input topic
    MaxFaults,  \* bound: failed operations and deaths of programs
    None

WriterAssumption ==
    /\ MaxJobs \in Nat \ {0} /\ MaxRows \in Nat /\ MaxFaults \in Nat
    /\ None \notin Nat /\ None \notin {"operator", "sync"}

Jobs == 1..MaxJobs

VARIABLES
    expired,   \* the deadline of the epoch has passed
    up,        \* every container of the epoch runs
    setup,     \* initialization: its marker and account, DDL, intent, registration
    submission,\* submission.json
    first,     \* the job of writer-job.json
    job,       \* external: what Flink did with each job
    listed,    \* external: the jobs that the running cluster remembers
    topic,     \* end of the input topic
    sink,      \* rows of the topic that are visible in Doris
    ledger,    \* writer-recovery: its records
    torn,      \* a record was written and head.json was not
    lock,      \* holder of the operation lock
    op,        \* position of initialize, submit, pause or resume
    faults

vars == <<expired, up, setup, submission, first, job, listed, topic, sink, ledger, torn,
          lock, op, faults>>
registry == <<setup, submission, first>>
flink == <<job, listed, sink>>
receipts == <<ledger, torn>>

\* A checkpoint: its number within the job, and its position in the topic.
NoCheckpoint == [id |-> 0, pos |-> 0]
Unused == [state |-> "unused", from |-> 0, read |-> 0, latest |-> NoCheckpoint]
Rest == [pc |-> "idle", job |-> None, candidate |-> NoCheckpoint]

Active == {j \in Jobs : job[j].state \in {"starting", "running", "canceling"}}
Unsubmitted == {j \in Jobs : job[j].state = "unused"}
NewJob == Cardinality(Jobs \ Unsubmitted) + 1

State == IF ledger = <<>> THEN "resumed" ELSE Last(ledger).action
Acts(a) == {i \in DOMAIN ledger : ledger[i].action = a}
\* current_job: the last resumed one, or the first.
CurrentJob ==
    IF Acts("resumed") = {} THEN first
    ELSE ledger[CHOOSE i \in Acts("resumed") : \A k \in Acts("resumed") : k <= i].job
Known == {first} \union {ledger[i].job : i \in Acts("resume_acknowledged")}
Registered == setup.registered /\ first # None /\ ~expired
Readable == Registered /\ ~torn
\* Only registered jobs, and exactly those active.
Inventory(jobs, active) == listed \subseteq jobs /\ Active = active

\* sync_ready: what the whole batch, and every row of it, is admitted on.
SyncReady == Readable /\ State = "resumed"

Init ==
    /\ expired = FALSE /\ up = FALSE
    /\ setup = [marker |-> FALSE, ddl |-> FALSE, intent |-> FALSE, registered |-> FALSE,
                completed |-> FALSE]
    /\ submission = "none" /\ first = None
    /\ job = [j \in Jobs |-> Unused] /\ listed = {} /\ topic = 0 /\ sink = 0
    /\ ledger = <<>> /\ torn = FALSE
    /\ lock = None /\ op = Rest /\ faults = 0

\* The engines stop: Flink forgets its jobs; what a job had read is lost.
Halted ==
    [j \in Jobs |-> IF j \in Active THEN [job[j] EXCEPT !.state = "lost"] ELSE job[j]]
StopEngines == up' = FALSE /\ job' = Halted /\ listed' = {} /\ UNCHANGED sink
Goto(pc) == op' = [op EXCEPT !.pc = pc]

----------------------------------------------------------------------------
(* Initialization and its completion after an interruption. *)

InitBegin ==
    /\ op = Rest /\ up /\ ~expired /\ ~setup.registered /\ ~setup.marker
    /\ listed = {} /\ ~setup.ddl
    /\ setup' = [setup EXCEPT !.marker = TRUE] /\ Goto("ddl")
    /\ UNCHANGED <<expired, up, submission, first, flink, topic, receipts, lock, faults>>

InitTables ==
    /\ op.pc = "ddl" /\ up
    /\ setup' = [setup EXCEPT !.ddl = TRUE] /\ Goto("register")
    /\ UNCHANGED <<expired, up, submission, first, flink, topic, receipts, lock, faults>>

\* The fresh engines: tables and topics exist and hold nothing, no job is known.
Fresh == setup.ddl /\ topic = 0 /\ sink = 0 /\ listed = {}

FinalizeBegin ==
    /\ op = Rest /\ up /\ ~expired /\ setup.marker /\ ~setup.completed
    /\ submission = "none" /\ first = None /\ Fresh
    /\ setup.registered => setup.intent
    /\ setup' = [setup EXCEPT !.intent = TRUE] /\ Goto("register")
    /\ UNCHANGED <<expired, up, submission, first, flink, topic, receipts, lock, faults>>

\* WriterRegistry.initialize; a finalization keeps a registration that exists.
Register ==
    /\ op.pc = "register" /\ up /\ ~expired /\ Fresh
    /\ setup' = [setup EXCEPT !.registered = TRUE, !.completed = setup.intent]
    /\ op' = Rest
    /\ UNCHANGED <<expired, up, submission, first, flink, topic, receipts, lock, faults>>

----------------------------------------------------------------------------
(* The first submission. *)

SubmitBegin ==
    /\ op = Rest /\ up /\ setup.registered /\ ~expired
    /\ first = None /\ submission = "none" /\ listed = {}
    /\ submission' = "submitting" /\ Goto("submit")
    /\ UNCHANGED <<expired, up, setup, first, flink, topic, receipts, lock, faults>>

\* flink run: the job exists, whether or not its number is read from the output.
\* A restored job goes on from its checkpoint, and commits what that one had written.
Launch(checkpoint) ==
    /\ Unsubmitted # {}
    /\ job' = [job EXCEPT ![NewJob] = [state |-> "starting", from |-> checkpoint.pos,
                                       read |-> checkpoint.pos, latest |-> NoCheckpoint]]
    /\ listed' = listed \union {NewJob}
    /\ sink' = IF checkpoint.pos > sink THEN checkpoint.pos ELSE sink
    /\ op' = [op EXCEPT !.pc = IF op.pc = "submit" THEN "acknowledge" ELSE "acknowledged",
                        !.job = NewJob]

SubmitRun ==
    /\ op.pc = "submit" /\ up /\ Launch(NoCheckpoint)
    /\ UNCHANGED <<expired, up, registry, topic, receipts, lock, faults>>

SubmitAcknowledge ==
    /\ op.pc = "acknowledge"
    /\ submission' = "acknowledged" /\ Goto("record")
    /\ UNCHANGED <<expired, up, setup, first, flink, topic, receipts, lock, faults>>

SubmitRecord ==
    /\ op.pc = "record" /\ up /\ ~expired /\ job[op.job].state = "running"
    /\ first' = op.job /\ op' = Rest
    /\ UNCHANGED <<expired, up, setup, submission, flink, topic, receipts, lock, faults>>

----------------------------------------------------------------------------
(* Pause and resume, under the operation lock. *)

AppendRecord(a, j, c) ==
    /\ ledger' = ledger \o <<[action |-> a, job |-> j, checkpoint |-> c]>>
    /\ UNCHANGED torn
UnleasedPauseBegin ==    \* mutant: the pause takes no operation lock
    /\ op = Rest /\ Readable /\ up /\ State = "resumed"
    /\ op' = [Rest EXCEPT !.pc = "look", !.job = CurrentJob]
    /\ AppendRecord("pause_requested", CurrentJob, NoCheckpoint)
    /\ UNCHANGED <<expired, up, registry, flink, topic, lock, faults>>

PauseBegin ==
    /\ op = Rest /\ lock = None /\ Readable /\ up
    /\ State \in {"resumed", "pause_requested"}
    /\ lock' = "operator" /\ op' = [Rest EXCEPT !.pc = "look", !.job = CurrentJob]
    /\ IF State = "resumed"
       THEN AppendRecord("pause_requested", CurrentJob, NoCheckpoint)
       ELSE UNCHANGED receipts
    /\ UNCHANGED <<expired, up, registry, flink, topic, faults>>

\* A job that Flink still knows, with a checkpoint of its own.
Cancellable(j) ==
    /\ j \in listed /\ job[j].state \in {"running", "canceled"}
    /\ Inventory(Known, IF job[j].state = "running" THEN {j} ELSE {})
    /\ job[j].latest # NoCheckpoint

\* The newest checkpoint before the job is cancelled.
PauseLook ==
    /\ op.pc = "look" /\ up /\ Cancellable(op.job)
    /\ op' = [op EXCEPT !.pc = "cancel", !.candidate = job[op.job].latest]
    /\ UNCHANGED <<expired, up, registry, flink, topic, receipts, lock, faults>>

PauseCancel ==
    /\ op.pc = "cancel" /\ up /\ Goto("wait")
    /\ job' = IF job[op.job].state = "running"
              THEN [job EXCEPT ![op.job].state = "canceling"] ELSE job
    /\ UNCHANGED <<expired, up, registry, listed, sink, topic, receipts, lock, faults>>

HastyRecord ==           \* mutant: the end of the job is not awaited
    /\ op.pc = "wait" /\ up /\ Readable
    /\ AppendRecord("paused", op.job, job[op.job].latest) /\ Goto("stop")
    /\ UNCHANGED <<expired, up, registry, flink, topic, lock, faults>>

\* Once it is CANCELED the newest checkpoint is read again; its files are hashed.
PauseRecord ==
    /\ op.pc = "wait" /\ up /\ Readable
    /\ job[op.job].state = "canceled" /\ Inventory(Known, {})
    /\ job[op.job].latest.id >= op.candidate.id
    /\ AppendRecord("paused", op.job, job[op.job].latest) /\ Goto("stop")
    /\ UNCHANGED <<expired, up, registry, flink, topic, lock, faults>>

PauseStop ==
    /\ op.pc = "stop" /\ StopEngines
    /\ op' = Rest /\ lock' = None
    /\ UNCHANGED <<expired, registry, topic, receipts, faults>>

ResumeBegin ==
    /\ op = Rest /\ lock = None /\ Readable /\ up /\ State = "paused"
    /\ Inventory(Known, {}) /\ Unsubmitted # {}
    /\ lock' = "operator"
    /\ op' = [pc |-> "restore", job |-> Last(ledger).job, candidate |-> Last(ledger).checkpoint]
    /\ AppendRecord("resume_requested", Last(ledger).job, Last(ledger).checkpoint)
    /\ UNCHANGED <<expired, up, registry, flink, topic, faults>>

ResumeSubmit ==
    /\ op.pc = "restore" /\ up /\ Launch(op.candidate)
    /\ UNCHANGED <<expired, up, registry, topic, receipts, lock, faults>>

ResumeAcknowledge ==
    /\ op.pc = "acknowledged" /\ Readable /\ Goto("await")
    /\ AppendRecord("resume_acknowledged", op.job, op.candidate)
    /\ UNCHANGED <<expired, up, registry, flink, topic, lock, faults>>

\* RUNNING, and restored from exactly the registered checkpoint.
ResumeRecord ==
    /\ op.pc = "await" /\ up /\ Readable
    /\ job[op.job].state = "running" /\ Inventory(Known, {op.job})
    /\ AppendRecord("resumed", op.job, op.candidate)
    /\ op' = Rest /\ lock' = None
    /\ UNCHANGED <<expired, up, registry, flink, topic, faults>>

----------------------------------------------------------------------------
(* Failure: an exception stops the engines, a death does not. *)

Busy == op # Rest
Unlocked == op' = Rest /\ lock' = IF lock = "operator" THEN None ELSE lock

\* What an operation finds other than it must be: it never waits for it.
Refused ==
    \/ Busy /\ ~up
    \/ op.pc \in {"register", "record", "wait", "acknowledged", "await"} /\ expired
    \/ op.pc = "look" /\ ~Cancellable(op.job)
    \/ op.pc \in {"record", "await"} /\ job[op.job].state \notin {"starting", "running"}
    \/ op.pc = "wait" /\ job[op.job].state \notin {"canceling", "canceled"}

OperationFails ==
    /\ Busy
    /\ \/ Refused /\ UNCHANGED faults
       \/ faults < MaxFaults /\ faults' = faults + 1
    /\ Unlocked /\ StopEngines
    /\ UNCHANGED <<expired, registry, topic, receipts>>

\* The machine takes the program away, possibly in the middle of an append.
OperationDies ==
    /\ Busy /\ faults < MaxFaults /\ faults' = faults + 1 /\ Unlocked
    /\ torn' \in IF op.pc \in {"wait", "acknowledged", "await"} THEN {torn, TRUE} ELSE {torn}
    /\ UNCHANGED <<expired, up, registry, flink, topic, ledger>>

\* A death in the first append of a pause or a resume: the record without the head.
BeginDies ==
    /\ op = Rest /\ lock = None /\ Readable /\ up /\ faults < MaxFaults
    /\ State = "resumed" \/ (State = "paused" /\ Inventory(Known, {}))
    /\ torn' = TRUE /\ faults' = faults + 1
    /\ UNCHANGED <<expired, up, registry, flink, topic, ledger, lock, op>>

----------------------------------------------------------------------------
(* Synchronisation, and the engines. *)

SyncBegin ==
    /\ lock = None /\ up /\ SyncReady
    /\ Inventory(Known, {CurrentJob}) /\ job[CurrentJob].state = "running"
    /\ lock' = "sync"
    /\ UNCHANGED <<expired, up, registry, flink, topic, receipts, op, faults>>

\* WindowGuard is asked before each row.
SyncSend ==
    /\ lock = "sync" /\ up /\ SyncReady /\ topic < MaxRows
    /\ topic' = topic + 1
    /\ UNCHANGED <<expired, up, registry, flink, receipts, lock, op, faults>>

SyncEnd ==
    /\ lock = "sync" /\ lock' = None
    /\ UNCHANGED <<expired, up, registry, flink, topic, receipts, op, faults>>

Start ==
    /\ ~up /\ ~expired /\ up' = TRUE
    /\ UNCHANGED <<expired, registry, flink, topic, receipts, lock, op, faults>>

\* stop-epoch, the supervisor, the machine, or a command that is refused, such as
\* a second submission or a resume of a running writer: no lock keeps it away.
Stop ==
    /\ up /\ StopEngines
    /\ UNCHANGED <<expired, registry, topic, receipts, lock, op, faults>>

Expire ==
    /\ ~expired /\ expired' = TRUE
    /\ UNCHANGED <<up, registry, flink, topic, receipts, lock, op, faults>>

JobStarts(j) ==
    /\ job[j].state = "starting" /\ job' = [job EXCEPT ![j].state = "running"]
    /\ UNCHANGED <<expired, up, registry, listed, sink, topic, receipts, lock, op, faults>>

JobReads(j) ==
    /\ job[j].state = "running" /\ job[j].read < topic /\ ~expired
    /\ job' = [job EXCEPT ![j].read = @ + 1]
    /\ UNCHANGED <<expired, up, registry, listed, sink, topic, receipts, lock, op, faults>>

\* Rows become visible after the checkpoint that covers them, or with a later one.
Checkpoint(j) ==
    /\ job[j].state = "running" /\ job[j].latest.id < MaxRows + 1
    /\ job' = [job EXCEPT ![j].latest = [id |-> @.id + 1, pos |-> job[j].read]]
    /\ sink' \in {sink, IF job[j].read > sink THEN job[j].read ELSE sink}
    /\ UNCHANGED <<expired, up, registry, listed, topic, receipts, lock, op, faults>>

JobCanceled(j) ==
    /\ job[j].state = "canceling" /\ job' = [job EXCEPT ![j].state = "canceled"]
    /\ UNCHANGED <<expired, up, registry, listed, sink, topic, receipts, lock, op, faults>>

\* The parser fails the job on expired input; anything else is a fault.  The job
\* ends, or starts again from its newest checkpoint and commits what that covers.
JobFails(j) ==
    /\ j \in Active
    /\ \/ expired /\ UNCHANGED faults
       \/ faults < MaxFaults /\ faults' = faults + 1
    /\ \/ job' = [job EXCEPT ![j].state = "failed"] /\ UNCHANGED sink
       \/ LET back == IF job[j].latest = NoCheckpoint THEN job[j].from ELSE job[j].latest.pos IN
          /\ job[j].state # "canceling"
          /\ job' = [job EXCEPT ![j].state = "starting", ![j].read = back]
          /\ sink' = IF back > sink THEN back ELSE sink
    /\ UNCHANGED <<expired, up, registry, listed, topic, receipts, lock, op>>

Initialize == InitBegin \/ InitTables \/ FinalizeBegin \/ Register
Submit == SubmitBegin \/ SubmitRun \/ SubmitAcknowledge \/ SubmitRecord
Pause == PauseBegin \/ PauseLook \/ PauseCancel \/ PauseRecord \/ PauseStop
Resume == ResumeBegin \/ ResumeSubmit \/ ResumeAcknowledge \/ ResumeRecord

Next ==
    \/ Initialize \/ Submit \/ Pause \/ Resume \/ OperationFails \/ OperationDies \/ BeginDies
    \/ SyncBegin \/ SyncSend \/ SyncEnd \/ Start \/ Stop \/ Expire
    \/ \E j \in Jobs : JobStarts(j) \/ JobReads(j) \/ Checkpoint(j) \/ JobCanceled(j)
                       \/ JobFails(j)

Spec == Init /\ [][Next]_vars

----------------------------------------------------------------------------
TypeOK ==
    /\ expired \in BOOLEAN /\ up \in BOOLEAN /\ torn \in BOOLEAN
    /\ setup \in [marker : BOOLEAN, ddl : BOOLEAN, intent : BOOLEAN, registered : BOOLEAN,
                   completed : BOOLEAN]
    /\ submission \in {"none", "submitting", "acknowledged"}
    /\ first \in Jobs \union {None} /\ listed \in SUBSET Jobs
    /\ \A j \in Jobs :
        /\ job[j].state \in {"unused", "starting", "running", "canceling", "canceled",
                              "failed", "lost"}
        /\ job[j].from <= job[j].read /\ job[j].read <= topic
        /\ job[j].latest.pos <= job[j].read
    /\ topic \in 0..MaxRows /\ sink \in 0..topic
    /\ \A i \in DOMAIN ledger :
        ledger[i].action = <<"pause_requested", "paused", "resume_requested",
                             "resume_acknowledged", "resumed">>[((i - 1) % 5) + 1]
    /\ lock \in {None, "operator", "sync"} /\ faults \in 0..MaxFaults

\* Never two jobs that write to the tables of the epoch, whatever died between a
\* submission and its receipt (real_writer.py:331, real_writer_recovery.py:240).
OneWriter == Cardinality(Active) <= 1

\* The writer that runs is never behind what is visible: rows of a checkpoint
\* that was committed are not written again by a restored job, although
\* checkpoints go on until the cancellation (real_writer_recovery.py:219).
VisibleOnce == \A j \in Active : sink <= job[j].read

\* While the writer is paused its receipt names the newest state of the job, no
\* job runs, and nothing beyond that state is visible: a resume loses nothing.
PausedStateIntact ==
    State = "paused" =>
        /\ Active = {}
        /\ Last(ledger).checkpoint = job[Last(ledger).job].latest
        /\ sink <= Last(ledger).checkpoint.pos

\* One job writes, no row twice, and a paused state is the newest and whole.
WriterSound == TypeOK /\ OneWriter /\ VisibleOnce /\ PausedStateIntact

\* A synchronisation keeps its lease for the whole batch: no record of a pause or
\* resume is written under it, and nothing is produced after one that is not
\* "resumed" (real_lab.py:605, real_quiescent.py:303).
LeaseStep ==
    /\ lock = "sync" => UNCHANGED ledger
    /\ topic' # topic => lock = "sync" /\ State = "resumed" /\ ~torn
LeaseExcludes == [][LeaseStep]_vars
=============================================================================
