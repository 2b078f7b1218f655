------------------------------ MODULE Realtime ------------------------------
(***************************************************************************)
(* The streaming job between the topic of accepted events and the table of *)
(* realtime facts: contract, retention window, removal of duplicates,      *)
(* lateness, checkpoints.  Deduplicated is what the offline model makes of *)
(* the same records.                                                       *)
(***************************************************************************)
EXTENDS Integers, Sequences

CONSTANTS
    Ids,            \* event identities
    Requests,       \* business identities of completed requests
    None,
    Bound,          \* out-of-orderness the watermark allows for (30 s)
    Lateness,       \* lateness the job allows for (10 min)
    MaxTime,        \* bound: times of occurrence
    MaxRecords,     \* bound: records of the topic
    MaxFaults       \* bound: failures and lapses of state

Keys == Ids \union Requests

\* A record of the topic; its place in the log is its seq, in the order of acceptance.  The
\* business key is the request's for a completion, the event's otherwise.
Alien == [id |-> None, key |-> None, time |-> 0]     \* outside the contract
Records == {r \in [id : Ids, key : Keys, time : 0..MaxTime] : r.key \in {r.id} \union Requests}

RealtimeAssumption ==
    /\ None \notin Ids /\ None \notin Records /\ None \notin Nat
    /\ Ids \cap Requests = {} /\ Bound \in Nat /\ Lateness \in Nat

VARIABLES
    real,       \* SNOW_SOURCE
    log,        \* the topic, one partition
    job,        \* "runs" or "failed"
    state,      \* what a checkpoint saves: position, events seen, requests seen
    newest,     \* latest time of occurrence this run has seen
    mark,       \* its watermark
    pending,    \* rows written since the last checkpoint, which commits them
    taken,      \* the last checkpoint
    table,      \* events_realtime: per business key the seq of its row
    side,       \* seqs in the topics beside the table
    expired,    \* the records up to this one were found outside the retention window
    forgot,     \* state was lost: it lapsed, or the job was submitted without a savepoint
    faults

vars == <<real, log, job, state, newest, mark, pending, taken, table, side, expired, forgot, faults>>

Initially(position) == [pos |-> position, seen |-> [i \in Ids |-> None], asked |-> {}]

Init ==
    /\ real \in BOOLEAN /\ log = << >> /\ job = "runs"
    /\ state = Initially(0) /\ taken = Initially(0)
    /\ newest = None /\ mark = None /\ pending = {}
    /\ table = [k \in Keys |-> None]
    /\ side = [late |-> {}, quarantine |-> {}, duplicates |-> {}]
    /\ expired = 0 /\ forgot = FALSE /\ faults = 0

\* bound: the topic is never more than a record ahead
Publish ==
    /\ Len(log) < MaxRecords /\ state.pos = Len(log)
    /\ \E r \in Records \union {Alien} : log' = Append(log, r)
    /\ UNCHANGED <<real, job, state, newest, mark, pending, taken, table, side, expired, forgot, faults>>

-----------------------------------------------------------------------------
(* One record. *)

Here == state.pos + 1
Read == log[Here]
Parsing == job = "runs" /\ Here <= Len(log)
\* A failed job has lost what it did since the last checkpoint; what the side topics got since
\* is not there for certain.
Fallen ==
    /\ state' = taken /\ pending' = {} /\ newest' = None /\ mark' = None
    /\ side' = [t \in DOMAIN side |-> side[t] \cap 1..taken.pos]

Diverted(topic) == side' = [side EXCEPT ![topic] = @ \union {Here}]

\* Parse: what cannot be normalised never reaches the watermark.
Reject ==
    /\ Parsing /\ Read = Alien
    /\ Diverted("quarantine") /\ state' = [state EXCEPT !.pos = Here]
    /\ UNCHANGED <<real, log, job, newest, mark, pending, taken, table, expired, forgot, faults>>

\* realWindow fails the job, so that nothing expired is copied to another topic.  The record,
\* and every one before it, has left the window when it is read, and stays outside.
Refuse ==
    /\ Parsing /\ Read # Alien /\ real
    /\ job' = "failed" /\ Fallen
    /\ expired' = IF Here > expired THEN Here ELSE expired
    /\ UNCHANGED <<real, log, taken, table, forgot, faults>>

\* tooLate, by a watermark that is emitted from time to time.
Marks == {mark} \union (IF newest = None THEN {} ELSE {newest - Bound})
TooLate == mark' # None /\ Read.time < mark' - Lateness

Known == state.seen[Read.id]
Remembered == [state.seen EXCEPT ![Read.id] = Read]
AfterLate == Remembered     \* mutant: a late event counts as seen
SeenAfterLate == state.seen

\* EventDeduplicate, then RequestDeduplicate for what it lets pass.
Process ==
    /\ Parsing /\ Read # Alien /\ ~ (real /\ Here <= expired)
    /\ mark' \in Marks
    /\ newest' = IF newest = None \/ Read.time > newest THEN Read.time ELSE newest
    /\ \/ /\ Known # None
          /\ Diverted(IF Known = Read THEN "duplicates" ELSE "quarantine")
          /\ state' = [state EXCEPT !.pos = Here] /\ UNCHANGED pending
       \/ /\ Known = None /\ TooLate
          /\ Diverted("late")
          /\ state' = [state EXCEPT !.pos = Here, !.seen = SeenAfterLate] /\ UNCHANGED pending
       \/ /\ Known = None /\ ~ TooLate /\ Read.key \in state.asked
          /\ Diverted("duplicates")
          /\ state' = [state EXCEPT !.pos = Here, !.seen = Remembered] /\ UNCHANGED pending
       \/ /\ Known = None /\ ~ TooLate /\ Read.key \notin state.asked
          /\ pending' = pending \union {Here}
          /\ state' = [pos |-> Here, seen |-> Remembered, asked |-> state.asked \union {Read.key}]
          /\ UNCHANGED side
    /\ UNCHANGED <<real, log, job, taken, table, expired, forgot, faults>>

-----------------------------------------------------------------------------
(* Checkpoints and failures. *)

\* The table's version column is MAX - seq: of two rows with a key the earlier one stays.
Rows(k) == {i \in pending : log[i].key = k} \union ({table[k]} \ {None})
Upserted == [k \in Keys |-> IF Rows(k) = {} THEN None ELSE CHOOSE i \in Rows(k) : \A j \in Rows(k) : i <= j]

Checkpoint ==
    /\ job = "runs" /\ state # taken
    /\ taken' = state /\ table' = Upserted /\ pending' = {}
    /\ UNCHANGED <<real, log, job, state, newest, mark, side, expired, forgot, faults>>

Crash ==
    /\ job = "runs" /\ faults < MaxFaults
    /\ job' = "failed" /\ Fallen /\ faults' = faults + 1
    /\ UNCHANGED <<real, log, taken, table, expired, forgot>>

Resumed(from) ==
    /\ job = "failed" /\ job' = "runs"
    /\ state' = from /\ taken' = from
    /\ UNCHANGED <<real, log, newest, mark, pending, table, side, expired, faults>>

Restart == Resumed(taken) /\ UNCHANGED forgot

\* A synthetic job submitted anew goes on from the committed offset; a real one does not.
Resubmit == ~ real /\ Resumed(Initially(taken.pos)) /\ forgot' = TRUE

\* After eight days state lapses, for the real job after thirty: longer than its seven.
Lapse ==
    /\ ~ real /\ job = "runs" /\ faults < MaxFaults /\ faults' = faults + 1 /\ forgot' = TRUE
    /\ \/ \E i \in Ids : state.seen[i] # None /\ state' = [state EXCEPT !.seen[i] = None]
       \/ \E k \in state.asked : state' = [state EXCEPT !.asked = @ \ {k}]
    /\ UNCHANGED <<real, log, job, newest, mark, pending, taken, table, side, expired>>

Next ==
    \/ Publish \/ Reject \/ Refuse \/ Process
    \/ Checkpoint \/ Crash \/ Restart \/ Resubmit \/ Lapse

Spec == Init /\ [][Next]_vars

-----------------------------------------------------------------------------
(* Correctness. *)

\* deduplicate: the first copy of an event, then the first event of a request.
Deduplicated(n) ==
    LET Copies(i) == {j \in 1..i-1 : log[j].id = log[i].id}
        Events == {i \in 1..n : log[i] # Alien /\ Copies(i) = {}}
        Earlier(i) == {j \in Events : j < i /\ log[j].key = log[i].key}
    IN {i \in Events : Earlier(i) = {}}

Accounted == side.late \union side.quarantine

\* A record behind the last checkpoint has its business key in the table, or is itself left to
\* the offline model or quarantined; in no other way does it get lost (EventDeduplicate,
\* where a late first copy must leave no state, and a checkpoint between any two steps).
NothingDropped ==
    \A i \in 1..taken.pos : i \in Accounted \/ (log[i] # Alien /\ table[log[i].key] # None)

\* The row of a key is the first of its records that was neither late nor in conflict, also
\* after the state that removes duplicates has lapsed (business_version in normalize).
FirstWins ==
    \A i \in 1..taken.pos :
        log[i] # Alien /\ table[log[i].key] # None /\ i < table[log[i].key] => i \in Accounted

\* Without lateness and without loss of state the table holds what the offline model counts.
AgreesWithOffline ==
    ~ forgot /\ side.late = {} => {table[k] : k \in Keys} \ {None} = Deduplicated(taken.pos)

RealtimeSound == NothingDropped /\ FirstWins /\ AgreesWithOffline
=============================================================================
