------------------------------ MODULE Lineage ------------------------------
(***************************************************************************)
(* The journal of task attempts and its delivery to the lineage service.   *)
(* The task appends START and an outcome around its work; an operator      *)
(* closes attempts the scheduler reports as failed, exports a copy that is *)
(* delivered from another host, and imports its acknowledgements.          *)
(***************************************************************************)
EXTENDS Integers, SequencesExt

CONSTANTS
    Attempts,
    NoAttempt,
    MaxMishaps       \* bound: deaths, refused or lost requests

Outcomes == {"COMPLETE", "FAIL"}
Copies == {"journal", "export"}
Quiet == [pc |-> "idle"]

VARIABLES
    task,       \* per attempt: where its process is
    result,     \* history, per attempt: how its work ended, which the journal cannot see
    verdict,    \* attempts the scheduler has recorded as failed
    events,     \* per copy: the journal's events in order of seq
    acked,      \* per copy: acknowledged seq
    flush,      \* per copy: the delivery that holds its lock
    closing,    \* reconcile_failed between its two transactions
    arrived,    \* what the service has received
    mishaps

journalVars == <<task, result, verdict, events, acked, flush, closing, arrived, mishaps>>

JournalInit ==
    /\ task = [a \in Attempts |-> "none"] /\ result = [a \in Attempts |-> "none"] /\ verdict = {}
    /\ events = [c \in Copies |-> << >>] /\ acked = [c \in Copies |-> {}]
    /\ flush = [c \in Copies |-> Quiet] /\ closing = NoAttempt
    /\ arrived = {} /\ mishaps = 0

Journal == events["journal"]
States(a) == {e.state : e \in {f \in ToSet(Journal) : f.run = a}}

-----------------------------------------------------------------------------
(* Journal.append, one transaction that holds the write lock. *)

AnyTransition(a, state) == state # "START" => "START" \in States(a)     \* mutant: outcomes are not final
Legal(a, state) == IF state = "START" THEN States(a) = {} ELSE States(a) = {"START"}

\* A repeated append changes nothing, an illegal one is refused.
Appended(a, state) ==
    IF Legal(a, state) THEN [events EXCEPT !["journal"] = @ \o <<[run |-> a, state |-> state]>>]
                       ELSE events

\* Capture.__enter__; without START (the capture failed or is off) there is no outcome either.
Enter(a) ==
    /\ task[a] = "none"
    /\ \/ task' = [task EXCEPT ![a] = "captured"] /\ events' = Appended(a, "START") /\ UNCHANGED mishaps
       \/ mishaps < MaxMishaps /\ mishaps' = mishaps + 1
          /\ task' = [task EXCEPT ![a] = "uncaptured"] /\ UNCHANGED events
    /\ UNCHANGED <<result, verdict, acked, flush, closing, arrived>>

\* The work ends, then Capture.__exit__ appends its outcome, or fails without telling the work.
Work(a, outcome) ==
    /\ task[a] = "captured" /\ task' = [task EXCEPT ![a] = outcome]
    /\ result' = [result EXCEPT ![a] = outcome]
    /\ UNCHANGED <<verdict, events, acked, flush, closing, arrived, mishaps>>
BlindExit(a) ==     \* mutant: an error of the work is recorded as its completion
    /\ task[a] \in Outcomes
    /\ events' = Appended(a, "COMPLETE")
    /\ task' = [task EXCEPT ![a] = "over"]
    /\ UNCHANGED <<result, verdict, acked, flush, closing, arrived, mishaps>>
Exit(a) ==
    /\ task[a] \in Outcomes
    /\ events' = Appended(a, task[a])
    /\ task' = [task EXCEPT ![a] = "over"]
    /\ UNCHANGED <<result, verdict, acked, flush, closing, arrived, mishaps>>
Die(a) ==
    /\ task[a] \in Outcomes \union {"captured"} /\ mishaps < MaxMishaps
    /\ task' = [task EXCEPT ![a] = "over"] /\ mishaps' = mishaps + 1
    /\ UNCHANGED <<result, verdict, events, acked, flush, closing, arrived>>

\* The scheduler gives up an attempt, whose process may still run on its host.
GiveUp(a) ==
    /\ task[a] # "none" /\ a \notin verdict
    /\ verdict' = verdict \union {a}
    /\ UNCHANGED <<task, result, events, acked, flush, closing, arrived, mishaps>>

Open(a) == a \in verdict /\ States(a) = {"START"}

ReconcileRead ==
    /\ closing = NoAttempt
    /\ \E a \in Attempts : Open(a) /\ closing' = a
    /\ UNCHANGED <<task, result, verdict, events, acked, flush, arrived, mishaps>>
ReconcileAppend ==
    /\ closing # NoAttempt
    /\ events' = Appended(closing, "FAIL") /\ closing' = NoAttempt
    /\ UNCHANGED <<task, result, verdict, acked, flush, arrived, mishaps>>

-----------------------------------------------------------------------------
(* Delivery. *)

\* backup, to a file that does not exist yet
Export ==
    /\ events["export"] = << >> /\ Journal # << >>
    /\ events' = [events EXCEPT !["export"] = Journal]
    /\ acked' = [acked EXCEPT !["export"] = acked["journal"]]
    /\ UNCHANGED <<task, result, verdict, flush, closing, arrived, mishaps>>

Pending(c) == DOMAIN events[c] \ acked[c]

\* flush: what is pending now, in order of seq, each acknowledged before the next is sent
\* (its limit of 100 events is taken as one that the journal does not reach).
FlushBegin(c) ==
    /\ flush[c] = Quiet /\ Pending(c) # {}
    /\ flush' = [flush EXCEPT ![c] = [pc |-> "send", todo |-> Pending(c)]]
    /\ UNCHANGED <<task, result, verdict, events, acked, closing, arrived, mishaps>>

First(c) == Min(flush[c].todo)

Post(c) ==
    /\ flush[c].pc = "send"
    /\ arrived' = arrived \union {events[c][First(c)]}
    /\ flush' = [flush EXCEPT ![c].pc = "acknowledge"]
    /\ UNCHANGED <<task, result, verdict, events, acked, closing, mishaps>>

AckedBatch(c) == acked[c] \union flush[c].todo    \* mutant: what is pending is acknowledged at once
Acked(c) == acked[c] \union {First(c)}

Acknowledge(c) ==
    /\ flush[c].pc = "acknowledge"
    /\ acked' = [acked EXCEPT ![c] = Acked(c)]
    /\ LET rest == flush[c].todo \ {First(c)}
       IN  flush' = [flush EXCEPT ![c] = IF rest = {} THEN Quiet ELSE [pc |-> "send", todo |-> rest]]
    /\ UNCHANGED <<task, result, verdict, events, closing, arrived, mishaps>>

\* The service is away, refuses, or the process dies, before or after the event arrived.
FlushFails(c) ==
    /\ flush[c] # Quiet /\ mishaps < MaxMishaps
    /\ flush' = [flush EXCEPT ![c] = Quiet] /\ mishaps' = mishaps + 1
    /\ UNCHANGED <<task, result, verdict, events, acked, closing, arrived>>

\* acknowledge(receipt): only what names the same events.
Import ==
    /\ acked["export"] # {} /\ ~ acked["export"] \subseteq acked["journal"]
    /\ IsPrefix(events["export"], Journal)
    /\ acked' = [acked EXCEPT !["journal"] = @ \union acked["export"]]
    /\ UNCHANGED <<task, result, verdict, events, flush, closing, arrived, mishaps>>

Deliver(c) == FlushBegin(c) \/ Post(c) \/ Acknowledge(c)
JournalNext ==
    \/ \E a \in Attempts : \/ Enter(a) \/ Exit(a) \/ Die(a) \/ GiveUp(a)
                           \/ \E o \in Outcomes : Work(a, o)
    \/ ReconcileRead \/ ReconcileAppend \/ Export \/ Import
    \/ \E c \in Copies : Deliver(c) \/ FlushFails(c)

JournalSpec == JournalInit /\ [][JournalNext]_journalVars
FairJournalSpec == JournalSpec /\ WF_journalVars(Deliver("journal"))

-----------------------------------------------------------------------------
(* Correctness. *)

Recorded(a, state) == [run |-> a, state |-> state] \in ToSet(Journal)
Arrived(a, state) == [run |-> a, state |-> state] \in arrived

\* An attempt has at most one outcome, after its start, and it is true: COMPLETE only if the
\* work did complete, and FAIL only if it failed or the scheduler has given the attempt up,
\* whose work may then still run, complete, or have died unfinished (append against
\* reconcile_failed, which reads and appends in two transactions).
OneTrueOutcome ==
    \A a \in Attempts :
        /\ ~ (Recorded(a, "COMPLETE") /\ Recorded(a, "FAIL"))
        /\ \A o \in Outcomes : Recorded(a, o) => Recorded(a, "START")
        /\ Recorded(a, "COMPLETE") => result[a] = "COMPLETE"
        /\ Recorded(a, "FAIL") => result[a] = "FAIL" \/ a \in verdict

\* What is acknowledged in either copy has arrived, and the service hears of no outcome
\* before the start of the attempt, from whichever copy (flush, acknowledge).
AcknowledgedArrived ==
    /\ \A c \in Copies : \A i \in acked[c] : events[c][i] \in arrived
    /\ \A e \in arrived : [run |-> e.run, state |-> "START"] \in arrived

\* Whatever the scheduler, the operator and the service do, the journal tells the truth
\* and its acknowledgements are of what the service has.
JournalTrue == OneTrueOutcome /\ AcknowledgedArrived

\* Every event of the journal arrives if flush is called again and again.
EventuallyArrives ==
    \A a \in Attempts, s \in Outcomes \union {"START"} : []<>(Recorded(a, s) => Arrived(a, s))
=============================================================================
