------------------------------ MODULE Attempts ------------------------------
(***************************************************************************)
(* One exact attempt at an offline phase on a node.  The operator's        *)
(* controller asks for it over SSH and cancels it, always, when it is      *)
(* over; the node's worker starts a child in a session of its own, and the *)
(* child a Spark driver.  Worker, child, driver and cancellations end      *)
(* independently of one another, and of the controller: a cancellation     *)
(* whose caller has stopped waiting goes on beside its repetition.  All    *)
(* attempts are at the same phase of the same run.                         *)
(***************************************************************************)
EXTENDS Integers

CONSTANTS
    Ids,            \* attempts, each with an identifier of its own
    Calls,          \* bound: cancellations of one attempt that run at a time
    None,
    MaxFaults       \* bound: killed workers, failing commands

\* Where a worker is, and a cancellation.
Alive == {"admitted", "unlaunched", "launched", "running", "ending", "unrecorded", "stopped"}
Steps == Alive \cup {"sent", "checked", "refused", "unstopped", "gone", "dead"}
CancelSteps == {"marked", "stopped", "failed"}

AttemptsAssumption == None \notin Ids \cup Steps \cup CancelSteps

VARIABLES
    wanted,     \* the attempt the present controller is waiting for
    worker,     \* where the worker of each attempt is
    admitted,   \* attempts with worker.json
    cancelled,  \* attempts with cancelled.json
    recorded,   \* attempts with child.json
    done,       \* done.json of each
    sessions,   \* attempts with a live process in their child's session
    log,        \* the attempt whose child has opened the run's log
    cid,        \* the attempt whose driver the run's cid file names
    driver,     \* the attempt whose driver runs
    cancel,     \* where each cancellation of each attempt is
    stale,      \* history: cancellations that saw done.json unfinished and do not read it again
    told,       \* attempts reported cancelled
    faults

vars == <<wanted, worker, admitted, cancelled, recorded, done, sessions, log, cid, driver, cancel, stale, told, faults>>
files == <<admitted, cancelled, recorded, done>>
physical == <<sessions, log, cid, driver>>
calls == <<cancel, stale>>

Init ==
    /\ wanted = None /\ worker = [a \in Ids |-> None] /\ admitted = {} /\ cancelled = {} /\ recorded = {}
    /\ done = [a \in Ids |-> None] /\ sessions = {} /\ log = None /\ cid = None /\ driver = None
    /\ cancel = [a \in Ids |-> [c \in Calls |-> None]] /\ stale = {} /\ told = {} /\ faults = 0

At(a, pc) == worker[a] = pc
To(a, pc) == worker' = [worker EXCEPT ![a] = pc]
Ended(a) == done[a] # None /\ done[a].group /\ done[a].driver
MayFail(ok) == \/ ok /\ faults' = faults
               \/ ~ok /\ faults < MaxFaults /\ faults' = faults + 1

\* admission: the lock of one attempt's directory; a worker that is starting its child has it.
Locked(a) == At(a, "launched")

\* driver_cleanup: the cid file names the one container that may be stopped.
Cleaned(runs) == IF cid # None /\ runs = cid THEN None ELSE runs

-----------------------------------------------------------------------------
(* The controller. *)

\* SmallRunner.remote: a fresh attempt is sent to the node.
Send(a) ==
    /\ wanted = None /\ At(a, None)
    /\ wanted' = a /\ To(a, "sent")
    /\ UNCHANGED <<files, physical, calls, told, faults>>

\* The controller is done with the attempt, has given up on its answers, or is dead.
Leave ==
    /\ wanted # None /\ wanted' = None
    /\ UNCHANGED <<worker, files, physical, calls, told, faults>>

-----------------------------------------------------------------------------
(* node_execute *)

Check(a) ==
    /\ At(a, "sent")
    /\ To(a, IF cid = None THEN "checked" ELSE "refused")
    /\ UNCHANGED <<wanted, files, physical, calls, told, faults>>

\* Neither a second worker nor one whose cancellation has come first.
Fresh(a) == a \notin admitted /\ a \notin cancelled

Admit(a) ==
    /\ At(a, "checked")
    /\ To(a, IF Fresh(a) THEN "admitted" ELSE "refused")
    /\ admitted' = IF Fresh(a) THEN admitted \cup {a} ELSE admitted
    /\ UNCHANGED <<wanted, cancelled, recorded, done, physical, calls, told, faults>>

\* check_cancelled, under the lock that the cancellation was written under.
Launchable(a) == a \notin cancelled

Launch(a) ==
    /\ At(a, "admitted")
    /\ IF Launchable(a) THEN To(a, "launched") /\ sessions' = sessions \cup {a}
                        ELSE To(a, "unlaunched") /\ UNCHANGED sessions
    /\ UNCHANGED <<wanted, files, log, cid, driver, calls, told, faults>>

\* child.json is written, or cannot be; the lock is released.
Record(a) ==
    /\ At(a, "launched")
    /\ \E ok \in BOOLEAN :
          /\ MayFail(ok) /\ To(a, IF ok THEN "running" ELSE "unrecorded")
          /\ recorded' = IF ok THEN recorded \cup {a} ELSE recorded
    /\ UNCHANGED <<wanted, admitted, cancelled, done, physical, calls, told>>

\* Cancelled, without a heartbeat, over the deadline, or because the child has ended.
Interrupt(a) ==
    /\ At(a, "running") /\ To(a, "ending")
    /\ UNCHANGED <<wanted, files, physical, calls, told, faults>>

\* stop_session of the registered child, then, whatever its outcome, driver_cleanup and done.json.
StopSession(a) ==
    /\ worker[a] \in {"ending", "unrecorded"}
    /\ \E ok \in BOOLEAN :
          /\ MayFail(ok)
          /\ sessions' = IF ok THEN sessions \ {a} ELSE sessions
          /\ To(a, IF ok /\ a \in recorded THEN "stopped" ELSE "unstopped")
    /\ UNCHANGED <<wanted, files, log, cid, driver, calls, told>>

Finish(a) ==
    /\ worker[a] \in {"unlaunched", "stopped", "unstopped"}
    /\ \E ok \in BOOLEAN :
          /\ MayFail(ok)
          /\ driver' = IF ok THEN Cleaned(driver) ELSE driver
          /\ done' = [done EXCEPT ![a] = [launched |-> worker[a] # "unlaunched",
                                          group |-> worker[a] # "unstopped", driver |-> ok]]
    /\ To(a, "gone")
    /\ UNCHANGED <<wanted, admitted, cancelled, recorded, sessions, log, cid, calls, told>>

\* The worker is killed; the session of its child is not.
Die(a) ==
    /\ worker[a] \in Alive \cup {"sent", "checked", "unstopped"} /\ faults < MaxFaults
    /\ faults' = faults + 1 /\ To(a, "dead")
    /\ UNCHANGED <<wanted, files, physical, calls, told>>

-----------------------------------------------------------------------------
(* The child: model_phase. *)

\* A run whose log, package or cid exists is not computed again.
Claim(a) ==
    /\ a \in sessions
    /\ IF log = None THEN log' = a /\ UNCHANGED sessions
                     ELSE log # a /\ sessions' = sessions \ {a} /\ UNCHANGED log
    /\ UNCHANGED <<wanted, worker, files, cid, driver, calls, told, faults>>

StartDriver(a) ==
    /\ a \in sessions /\ log = a /\ cid = None
    /\ cid' = a /\ driver' = a
    /\ UNCHANGED <<wanted, worker, files, sessions, log, calls, told, faults>>

\* The driver ends, or its client fails: stop_driver, and the child ends.
ChildEnds(a) ==
    /\ a \in sessions /\ log = a
    /\ sessions' = sessions \ {a}
    /\ driver' = Cleaned(driver)
    /\ UNCHANGED <<wanted, worker, files, log, cid, calls, told, faults>>

-----------------------------------------------------------------------------
(* node_cancel: a process of its own; its caller may have stopped waiting, and   *)
(* asks again (remote, stop).                                              *)

CancelAt(a, c, pc) == cancel' = [cancel EXCEPT ![a][c] = pc]
Report(a, c) == told' = told \cup {a} /\ CancelAt(a, c, None)
Look(a, c) == stale' = IF Ended(a) THEN stale \ {<<a, c>>} ELSE stale \cup {<<a, c>>}

StopAgain(a) ==   \* mutant: a retried cancellation ends again what has ended
    FALSE
\* What ended long ago is not stopped again.
AlreadyCleaned(a) == Ended(a)

\* Under the lock of the attempt, which is then released.
Mark(a, c) ==
    /\ ~At(a, None) /\ cancel[a][c] = None /\ ~Locked(a)
    /\ cancelled' = cancelled \cup {a}
    /\ IF a \notin admitted \/ AlreadyCleaned(a)
       THEN Report(a, c)
       ELSE CancelAt(a, c, "marked") /\ UNCHANGED told
    /\ UNCHANGED <<wanted, worker, admitted, recorded, done, physical, stale, faults>>

\* The worker, which has been sent SIGTERM, is gone: read again what it, or another
\* cancellation, has written.
Reread(a, c) ==
    /\ cancel[a][c] = "marked" /\ worker[a] \notin Alive \cup {"unstopped"}
    /\ Look(a, c)
    /\ \/ AlreadyCleaned(a) /\ Report(a, c) /\ UNCHANGED sessions
       \/ /\ ~AlreadyCleaned(a) /\ UNCHANGED told
          /\ IF a \in recorded
             THEN \/ sessions' = sessions \ {a} /\ CancelAt(a, c, "stopped")
                  \/ UNCHANGED sessions /\ CancelAt(a, c, "failed")
             ELSE /\ UNCHANGED sessions
                  /\ CancelAt(a, c, IF done[a] # None /\ ~done[a].launched /\ done[a].group THEN "stopped" ELSE "failed")
    /\ UNCHANGED <<wanted, worker, files, log, cid, driver, faults>>

\* It is still there after 55 seconds, or another process has its number: done.json is not
\* read again.
Late(a, c) ==
    /\ cancel[a][c] = "marked"
    /\ CancelAt(a, c, "failed") /\ stale' = stale \cup {<<a, c>>}
    /\ UNCHANGED <<wanted, worker, files, physical, told, faults>>

\* In every case the driver is stopped, whatever has been written since; only when all is
\* gone a receipt and an answer.
Settle(a, c) ==
    /\ cancel[a][c] \in {"stopped", "failed"} /\ stale' = stale \ {<<a, c>>}
    /\ \E ok \in BOOLEAN :
          /\ MayFail(ok)
          /\ driver' = IF ok THEN Cleaned(driver) ELSE driver
          /\ IF ok /\ cancel[a][c] = "stopped"
             THEN Report(a, c) /\ done' = [done EXCEPT ![a] = [launched |-> a \in recorded, group |-> TRUE, driver |-> TRUE]]
             ELSE CancelAt(a, c, None) /\ UNCHANGED <<told, done>>
    /\ UNCHANGED <<wanted, worker, admitted, cancelled, recorded, sessions, log, cid>>

-----------------------------------------------------------------------------
Next ==
    \/ Leave
    \/ \E a \in Ids :
          Send(a) \/ Check(a) \/ Admit(a) \/ Launch(a) \/ Record(a) \/ Interrupt(a) \/ StopSession(a)
          \/ Finish(a) \/ Die(a) \/ Claim(a) \/ StartDriver(a) \/ ChildEnds(a)
          \/ \E c \in Calls : Mark(a, c) \/ Reread(a, c) \/ Late(a, c) \/ Settle(a, c)

Spec == Init /\ [][Next]_vars

-----------------------------------------------------------------------------
\* An attempt that was reported cancelled has nothing that runs, and never starts anything.
AttemptsSound ==
    /\ admitted \cup cancelled \subseteq Ids /\ recorded \subseteq admitted
    /\ \A a \in told : a \notin sessions /\ driver # a

\* While every other attempt is over, the driver of the one that is waited for is stopped by
\* its own child, worker or cancellation, and by none of another attempt, however late it is
\* or often it is repeated (driver_cleanup, node_cancel).  The exception is a cancellation
\* that had read done.json for the last time before its attempt was over, because the worker
\* was still there or another cancellation was at work beside it, and has not ended since: it
\* stops whatever driver the cid file names.
DriverStep ==
    \A a \in Ids :
        /\ driver = a /\ driver' # a /\ wanted = a
        /\ \A x \in admitted \ {a} : Ended(x) /\ \A c \in Calls : <<x, c>> \notin stale
        => a \in sessions \ sessions' \/ worker[a] \notin {"launched", "running"} \/ a \in cancelled
LateCancelHarmless == [][DriverStep]_vars
=============================================================================
