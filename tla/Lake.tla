-------------------------------- MODULE Lake --------------------------------
(***************************************************************************)
(* An attempt to write verified aggregates as Iceberg tables.  The         *)
(* operator's machine drives three nodes over a transport that may break   *)
(* while the remote process goes on: it takes each node's existing         *)
(* services out of their ordinary phase, has a worker start a Spark driver *)
(* in a container, has a second driver read the tables back, puts the      *)
(* services in place again and has the authority confirm the proof.        *)
(***************************************************************************)
EXTENDS Integers, Sequences, TLC

CONSTANTS
    Attempts,
    Window,         \* how long an admission may be used (15 minutes)
    None,
    MaxNow,         \* bound: the clock
    MaxCommands,    \* bound: commands of the operator
    MaxFaults       \* bound: lost transports, dead workers, failed commands, other registrations

LakeAssumption ==
    /\ Window \in Nat \ {0}
    /\ None \notin Attempts \union {"started", "complete", "signal", "clean"}
    /\ None \notin [tables : {"none", "partial", "full"}]

Nodes == {"control", "compute"}     \* the analysis node's services never change
Ops == {"lake", "recover"}          \* the coordinator and --recover-stages

VARIABLES
    now,
    registry,   \* version of the authority's registry
    op,         \* per operator command: its attempt and the steps it has left
    svc,        \* per node: the switchable services that run
    lease, record,  \* per node: the attempt in owner.json; reservations made
    job,        \* per node: the stage helper that runs
    outsider,   \* per node: an ordinary YARN job uses it
    desc,       \* admission descriptor of an attempt
    marker, tables, receipt, proof,     \* execution.json, the Iceberg tables, receipt.json, verify.json
    worker, launching, driver,  \* the node worker; a docker run on its way; the container
    cancel, cancelled,
    confirmed,
    runs,       \* history: execution drivers started per attempt
    ended,      \* history: cancellations that ended with nothing on its way
    commands, faults

vars == <<now, registry, op, svc, lease, record, job, outsider, desc, marker, tables, receipt, proof,
          worker, launching, driver, cancel, cancelled, confirmed, runs, ended, commands, faults>>
stage == <<svc, lease, record, job, outsider>>
files == <<marker, tables, receipt, proof>>
work == <<worker, launching, driver, cancel, cancelled, runs, ended>>

Ordinary(n) == IF n = "control" THEN {"hive"} ELSE {}
Yarn(n) == IF n = "control" THEN {"rm"} ELSE {"nm"}
Idle == [a |-> None, todo |-> << >>, busy |-> FALSE]
NotYet == [a \in Attempts |-> None]

Init ==
    /\ now = 0 /\ registry = 0 /\ op = [o \in Ops |-> Idle]
    /\ svc = [n \in Nodes |-> Ordinary(n)] /\ lease = [n \in Nodes |-> None] /\ record = {}
    /\ job = [n \in Nodes |-> None] /\ outsider = [n \in Nodes |-> FALSE]
    /\ desc = NotYet /\ marker = NotYet /\ tables = [a \in Attempts |-> "none"]
    /\ receipt = {} /\ proof = NotYet
    /\ worker = NotYet /\ launching = {} /\ driver = NotYet /\ cancel = NotYet /\ cancelled = {}
    /\ confirmed = {} /\ runs = [a \in Attempts |-> 0] /\ ended = {} /\ commands = 0 /\ faults = 0

-----------------------------------------------------------------------------
(* The operator's commands. *)

Plan == <<<<"reserve", "control">>, <<"reserve", "compute">>, <<"prepare", "analysis">>,
          <<"yarn", "control">>, <<"yarn", "compute">>, <<"execute", "control">>, <<"verify", "control">>,
          <<"restore", "compute">>, <<"restore", "control">>, <<"confirm", "analysis">>,
          <<"restore", "compute">>, <<"restore", "control">>>>
Recovery == <<<<"cancel", "control">>, <<"restore", "compute">>, <<"restore", "control">>>>

\* The coordinator holds the operator lock; recovery does not ask for it.
Begin(o, a) ==
    /\ op[o] = Idle /\ commands < MaxCommands /\ commands' = commands + 1
    /\ op' = [op EXCEPT ![o] = [a |-> a, todo |-> IF o = "lake" THEN Plan ELSE Recovery, busy |-> FALSE]]
    /\ UNCHANGED <<now, registry, stage, desc, files, work, confirmed, faults>>

Asks(o, step) == op[o] # Idle /\ ~ op[o].busy /\ Head(op[o].todo) = step
Waits(o, a, step) == op[o] # Idle /\ op[o].busy /\ op[o].a = a /\ Head(op[o].todo) = step

Advance(o) == IF Len(op[o].todo) = 1 THEN Idle ELSE [op[o] EXCEPT !.todo = Tail(@), !.busy = FALSE]
\* A step of the plan that fails is followed by recovery; recovery goes on past a failure.
Stumble(o) ==
    IF Len(op[o].todo) > Len(Recovery) - 1 /\ Head(op[o].todo)[1] # "cancel"
    THEN [op[o] EXCEPT !.todo = Recovery, !.busy = FALSE] ELSE Advance(o)
Answered(a, step, good) ==
    op' = [o \in Ops |-> IF Waits(o, a, step) THEN IF good THEN Advance(o) ELSE Stumble(o) ELSE op[o]]

\* The node is not reached, or the transport breaks or times out and what runs there does
\* not notice.
TransportLost(o) ==
    /\ op[o] # Idle /\ faults < MaxFaults /\ faults' = faults + 1
    /\ op' = [op EXCEPT ![o] = Stumble(o)]
    /\ UNCHANGED <<now, commands, registry, stage, desc, files, work, confirmed>>

Refused(o) ==
    /\ op' = [op EXCEPT ![o] = Stumble(o)]
    /\ UNCHANGED <<now, commands, registry, stage, desc, files, work, confirmed, faults>>

-----------------------------------------------------------------------------
(* Stages. *)

Mine(n, a) == lease[n] \in {None, a} /\ job[n] = None

Reserve(o, n) ==
    /\ Asks(o, <<"reserve", n>>)
    /\ LET a == op[o].a
       IN  IF Mine(n, a) /\ svc[n] = Ordinary(n)
           THEN /\ record' = record \union {<<n, a>>} /\ lease' = [lease EXCEPT ![n] = a]
                /\ op' = [op EXCEPT ![o] = Advance(o)]
                /\ UNCHANGED <<now, commands, registry, svc, job, outsider, desc, files, work, confirmed, faults>>
           ELSE Refused(o)

AnyRestore(n, a) == <<n, a>> \in record     \* mutant: a released reservation still switches
MaySwitch(n, a) == <<n, a>> \in record /\ lease[n] = a
\* switch_stage; restoring what is not, or no longer, reserved changes nothing.
Switch(o, n, kind) ==
    /\ Asks(o, <<kind, n>>) /\ kind \in {"yarn", "restore"}
    /\ LET a == op[o].a
       IN  IF Mine(n, a) /\ MaySwitch(n, a)
           THEN /\ job' = [job EXCEPT ![n] = [kind |-> kind, a |-> a]]
                /\ op' = [op EXCEPT ![o].busy = TRUE]
                /\ UNCHANGED <<now, commands, registry, svc, lease, record, outsider, desc, files, work, confirmed, faults>>
           ELSE IF Mine(n, a) /\ kind = "restore" /\ lease[n] = None /\ (<<n, a>> \in record => svc[n] = Ordinary(n))
           THEN /\ op' = [op EXCEPT ![o] = Advance(o)]
                /\ UNCHANGED <<now, commands, registry, stage, desc, files, work, confirmed, faults>>
           ELSE Refused(o)

Desired(n) == IF job[n].kind = "yarn" THEN Yarn(n) ELSE Ordinary(n)
Clear(n) == svc[n] \subseteq Desired(n)
JobStops(n) ==
    /\ job[n] # None /\ ~ svc[n] \subseteq Desired(n)
    /\ svc' = [svc EXCEPT ![n] = @ \intersect Desired(n)]
    /\ UNCHANGED <<now, commands, registry, op, lease, record, job, outsider, desc, files, work, confirmed, faults>>
JobStarts(n) ==
    /\ job[n] # None /\ Clear(n) /\ ~ Desired(n) \subseteq svc[n]
    /\ svc' = [svc EXCEPT ![n] = @ \union Desired(n)]
    /\ UNCHANGED <<now, commands, registry, op, lease, record, job, outsider, desc, files, work, confirmed, faults>>
JobEnds(n) ==
    /\ job[n] # None /\ svc[n] = Desired(n)
    /\ lease' = IF job[n].kind = "restore" THEN [lease EXCEPT ![n] = None] ELSE lease
    /\ job' = [job EXCEPT ![n] = None]
    /\ Answered(job[n].a, <<job[n].kind, n>>, TRUE)
    /\ UNCHANGED <<now, commands, registry, svc, record, outsider, desc, files, work, confirmed, faults>>
JobFails(n) ==
    /\ job[n] # None /\ faults < MaxFaults /\ faults' = faults + 1
    /\ job' = [job EXCEPT ![n] = None]
    /\ Answered(job[n].a, <<job[n].kind, n>>, FALSE)
    /\ UNCHANGED <<now, commands, registry, svc, lease, record, outsider, desc, files, work, confirmed>>

\* Somebody's ordinary YARN job, on a node no attempt has reserved.
Outside(n) ==
    /\ job[n] = None /\ lease[n] = None
    /\ IF outsider[n] THEN svc' = [svc EXCEPT ![n] = Ordinary(n)]
       ELSE svc[n] = Ordinary(n) /\ faults < MaxFaults /\ svc' = [svc EXCEPT ![n] = Yarn(n)]
    /\ outsider' = [outsider EXCEPT ![n] = ~ @]
    /\ faults' = IF outsider[n] THEN faults ELSE faults + 1
    /\ UNCHANGED <<now, commands, registry, op, lease, record, job, desc, files, work, confirmed>>

-----------------------------------------------------------------------------
(* The authority's node. *)

Live(a) == desc[a] # None /\ now < desc[a].until

\* prepare registers the tables' scope, cleans up and issues a descriptor; once issued it is kept.
Prepare(o) ==
    /\ Asks(o, <<"prepare", "analysis">>)
    /\ LET a == op[o].a
       IN  IF desc[a] = None
           THEN /\ registry' = registry + 1
                /\ desc' = [desc EXCEPT ![a] = [registry |-> registry', until |-> now + Window]]
                /\ op' = [op EXCEPT ![o] = Advance(o)]
                /\ UNCHANGED <<now, commands, stage, files, work, confirmed, faults>>
           ELSE IF Live(a) /\ desc[a].registry = registry
           THEN /\ op' = [op EXCEPT ![o] = Advance(o)]
                /\ UNCHANGED <<now, commands, registry, stage, desc, files, work, confirmed, faults>>
           ELSE Refused(o)

Register ==
    /\ faults < MaxFaults /\ faults' = faults + 1 /\ registry' = registry + 1
    /\ UNCHANGED <<now, commands, op, stage, desc, files, work, confirmed>>

Confirmable(a) == Live(a) /\ desc[a].registry = registry /\ proof[a] # None /\ proof[a].tables = "full"
Confirm(o) ==
    /\ Asks(o, <<"confirm", "analysis">>)
    /\ IF Confirmable(op[o].a)
       THEN /\ confirmed' = confirmed \union {op[o].a}
            /\ op' = [op EXCEPT ![o] = Advance(o)]
            /\ UNCHANGED <<now, commands, registry, stage, desc, files, work, faults>>
       ELSE Refused(o)

-----------------------------------------------------------------------------
(* The worker on the control node and its driver. *)

Admitted(a) == a \notin cancelled /\ worker[a] = None
Work(o, mode) ==
    /\ Asks(o, <<mode, "control">>) /\ mode \in {"execute", "verify"}
    /\ IF Admitted(op[o].a)
       THEN /\ worker' = [worker EXCEPT ![op[o].a] = [mode |-> mode, pc |-> "check"]]
            /\ op' = [op EXCEPT ![o].busy = TRUE]
            /\ UNCHANGED <<now, commands, registry, stage, desc, files, launching, driver, cancel, cancelled,
                           runs, ended, confirmed, faults>>
       ELSE Refused(o)

Leave(a, good) ==
    /\ worker' = [worker EXCEPT ![a] = None]
    /\ Answered(a, <<worker[a].mode, "control">>, good)

Fresh(a) == marker[a] = None
\* execute and verify up to run_spark.
WorkerChecks(a) ==
    /\ worker[a] # None /\ worker[a].pc = "check"
    /\ \/ /\ worker[a].mode = "execute" /\ Live(a) /\ Fresh(a)
          /\ marker' = [marker EXCEPT ![a] = "started"]
          /\ worker' = [worker EXCEPT ![a].pc = "launch"] /\ UNCHANGED op
       \/ /\ worker[a].mode = "verify" /\ Live(a) /\ marker[a] = "complete"
          /\ worker' = [worker EXCEPT ![a].pc = "launch"] /\ UNCHANGED <<op, marker>>
       \/ /\ worker[a].mode = "execute" /\ ~ Fresh(a)
          /\ Leave(a, Live(a) /\ marker[a] = "complete") /\ UNCHANGED marker
       \/ /\ ~ Live(a) \/ (worker[a].mode = "verify" /\ marker[a] # "complete")
          /\ Leave(a, FALSE) /\ UNCHANGED marker
    /\ UNCHANGED <<now, commands, registry, stage, desc, tables, receipt, proof, launching, driver, cancel, cancelled,
                   runs, ended, confirmed, faults>>

\* run_spark: no container of that name may exist; docker run is on its way.
Launch(a) ==
    /\ worker[a] # None /\ worker[a].pc = "launch"
    /\ IF driver[a] = None /\ Live(a)
       THEN /\ launching' = launching \union {<<a, worker[a].mode>>}
            /\ worker' = [worker EXCEPT ![a].pc = "wait"] /\ UNCHANGED op
       ELSE Leave(a, FALSE) /\ UNCHANGED launching
    /\ UNCHANGED <<now, commands, registry, stage, desc, files, driver, cancel, cancelled, runs, ended, confirmed, faults>>
Starts(a, mode) ==
    /\ <<a, mode>> \in launching /\ driver[a] = None
    /\ launching' = launching \ {<<a, mode>>}
    /\ driver' = [driver EXCEPT ![a] = [mode |-> mode, pc |-> "run"]]
    /\ runs' = IF mode = "execute" THEN [runs EXCEPT ![a] = @ + 1] ELSE runs
    /\ UNCHANGED <<now, commands, registry, op, stage, desc, files, worker, cancel, cancelled, ended, confirmed, faults>>

OnYarn == svc["control"] = Yarn("control") /\ svc["compute"] = Yarn("compute")
\* Tables are created, never replaced; the receipt comes last.
DriverWrites(a) ==
    /\ driver[a] # None /\ driver[a] = [mode |-> "execute", pc |-> "run"] /\ OnYarn
    /\ \/ tables[a] = "none" /\ tables' = [tables EXCEPT ![a] = "partial"] /\ UNCHANGED <<driver, receipt>>
       \/ /\ tables[a] = "partial" /\ tables' = [tables EXCEPT ![a] = "full"]
          /\ UNCHANGED <<driver, receipt>>
       \/ /\ tables[a] = "full" /\ receipt' = receipt \union {a}
          /\ driver' = [driver EXCEPT ![a].pc = "done"] /\ UNCHANGED tables
    /\ UNCHANGED <<now, commands, registry, op, stage, desc, marker, proof, worker, launching, cancel, cancelled,
                   runs, ended, confirmed, faults>>
DriverReads(a) ==
    /\ driver[a] # None /\ driver[a] = [mode |-> "verify", pc |-> "run"] /\ OnYarn
    /\ driver' = [driver EXCEPT ![a].pc = "done"]
    /\ UNCHANGED <<now, commands, registry, op, stage, desc, files, worker, launching, cancel, cancelled,
                   runs, ended, confirmed, faults>>

\* The application ends well: its container goes, and the result is read.
Finish(a) ==
    /\ worker[a] # None /\ worker[a].pc = "wait" /\ driver[a] # None /\ driver[a].pc = "done"
    /\ driver' = [driver EXCEPT ![a] = None]
    /\ LET good == Live(a) /\ (worker[a].mode = "execute" => a \in receipt)
       IN  /\ marker' = IF good /\ worker[a].mode = "execute" THEN [marker EXCEPT ![a] = "complete"] ELSE marker
           /\ proof' = IF good /\ worker[a].mode = "verify" THEN [proof EXCEPT ![a] = [tables |-> tables[a]]] ELSE proof
           /\ Leave(a, good)
    /\ UNCHANGED <<now, commands, registry, stage, desc, tables, receipt, launching, cancel, cancelled,
                   runs, ended, confirmed, faults>>
\* The application fails or takes too long, or the worker is told to stop: what it started goes first.
Give(a) ==
    /\ driver' = [driver EXCEPT ![a] = IF worker[a].pc = "wait" THEN None ELSE @]
    /\ launching' = IF worker[a].pc = "wait" THEN {l \in launching : l[1] # a} ELSE launching
GiveUp(a) ==
    /\ worker[a] # None /\ worker[a].pc = "wait" /\ (driver[a] # None => driver[a].pc = "run")
    /\ faults < MaxFaults \/ ~ OnYarn \/ ~ Live(a)
    /\ faults' = IF OnYarn /\ Live(a) THEN faults + 1 ELSE faults
    /\ Give(a) /\ Leave(a, FALSE)
    /\ UNCHANGED <<now, commands, registry, stage, desc, files, cancel, cancelled, runs, ended, confirmed>>
\* The worker dies on the spot; docker and the container live on.
Dies(a) ==
    /\ worker[a] # None /\ faults < MaxFaults /\ faults' = faults + 1
    /\ Leave(a, FALSE)
    /\ UNCHANGED <<now, commands, registry, stage, desc, files, launching, driver, cancel, cancelled, runs, ended, confirmed>>

\* cancel_driver: first the mark, under the lock that admits workers.
CancelMarks(o) ==
    /\ Asks(o, <<"cancel", "control">>) /\ cancel[op[o].a] = None
    /\ cancelled' = cancelled \union {op[o].a}
    /\ cancel' = [cancel EXCEPT ![op[o].a] = "signal"]
    /\ op' = [op EXCEPT ![o].busy = TRUE]
    /\ UNCHANGED <<now, commands, registry, stage, desc, files, worker, launching, driver, runs, ended, confirmed, faults>>
CancelSignals(a) ==
    /\ cancel[a] = "signal"
    /\ IF worker[a] # None
       THEN Give(a) /\ Leave(a, FALSE)
       ELSE UNCHANGED <<op, worker, launching, driver>>
    /\ cancel' = [cancel EXCEPT ![a] = "clean"]
    /\ UNCHANGED <<now, commands, registry, stage, desc, files, cancelled, runs, ended, confirmed, faults>>
CancelCleans(a) ==
    /\ cancel[a] = "clean"
    /\ driver' = IF desc[a] # None THEN [driver EXCEPT ![a] = None] ELSE driver
    /\ cancel' = [cancel EXCEPT ![a] = None]
    /\ ended' = IF \E l \in launching : l[1] = a THEN ended ELSE ended \union {a}
    /\ Answered(a, <<"cancel", "control">>, TRUE)
    /\ UNCHANGED <<now, commands, registry, stage, desc, files, worker, launching, cancelled, runs, confirmed, faults>>
CancelDies(a) ==
    /\ cancel[a] # None /\ faults < MaxFaults /\ faults' = faults + 1
    /\ cancel' = [cancel EXCEPT ![a] = None]
    /\ Answered(a, <<"cancel", "control">>, FALSE)
    /\ UNCHANGED <<now, commands, registry, stage, desc, files, worker, launching, driver, cancelled, runs, ended, confirmed>>

Tick ==
    /\ now < MaxNow /\ now' = now + 1
    /\ UNCHANGED <<commands, registry, op, stage, desc, files, work, confirmed, faults>>

Next ==
    \/ Tick \/ Register
    \/ \E o \in Ops : \/ TransportLost(o) \/ Prepare(o) \/ Confirm(o) \/ CancelMarks(o)
                      \/ \E a \in Attempts : Begin(o, a)
                      \/ \E n \in Nodes : Reserve(o, n) \/ \E k \in {"yarn", "restore"} : Switch(o, n, k)
                      \/ \E m \in {"execute", "verify"} : Work(o, m)
    \/ \E n \in Nodes : JobStops(n) \/ JobStarts(n) \/ JobEnds(n) \/ JobFails(n) \/ Outside(n)
    \/ \E a \in Attempts : \/ WorkerChecks(a) \/ Launch(a) \/ DriverWrites(a) \/ DriverReads(a) \/ Finish(a)
                           \/ GiveUp(a) \/ Dies(a) \/ CancelSignals(a) \/ CancelCleans(a) \/ CancelDies(a)
                           \/ \E m \in {"execute", "verify"} : Starts(a, m)

Spec == Init /\ [][Next]_vars

-----------------------------------------------------------------------------
(* Correctness. *)

\* No node is left in the compute phase unless an attempt that reserved it still owns it,
\* Hive and YARN never run side by side, and no attempt, current or recovered late, stops
\* somebody else's job (reserve_stage, switch_stage).
StageOwned ==
    \A n \in Nodes :
        /\ outsider[n] => svc[n] = Yarn(n) /\ lease[n] = None
        /\ svc[n] # Ordinary(n) /\ ~ outsider[n] => lease[n] # None /\ <<n, lease[n]>> \in record
        /\ ~ {"hive", "rm"} \subseteq svc[n]

\* The tables of an attempt come from one driver run at most, whatever dies or is asked
\* again; what is confirmed was complete, was read back and is still that; and after a
\* cancellation nothing of the attempt runs or starts, unless a docker run was on its way
\* when its worker died (execution.json, node_worker, cancel_driver, confirm).
OneExecution ==
    \A a \in Attempts :
        /\ runs[a] <= 1
        /\ a \in confirmed => /\ marker[a] = "complete" /\ tables[a] = "full" /\ proof[a] # None
                              /\ <<a, "execute">> \notin launching
                              /\ driver[a] # None => driver[a].mode = "verify"
        /\ a \in ended => worker[a] = None /\ driver[a] = None

\* A node in the compute phase has its owner, and an attempt is executed once.
AttemptsSound == StageOwned /\ OneExecution
=============================================================================
