------------------------------- MODULE Epoch -------------------------------
(* One physical storage epoch: containers and volumes that exist for a fixed *)
(* time (src/snow_statistics/real_epoch.py, tools/real_epoch.py and the      *)
(* container guard deploy/real-epoch/epoch-guard.sh).  A supervisor and      *)
(* admissions of retired storage (real_retired.py) remove an expired epoch   *)
(* under a lock; an operator starts and stops it without one.                *)
(* The containers of a stage are taken together, so are their volumes.       *)
EXTENDS Naturals, FiniteSets

CONSTANTS
    Retirers,   \* processes that may retire the epoch; "watch" is the supervisor
    Deadline,   \* expires_at, fixed when the epoch is prepared
    MaxNow,     \* bound: the clock
    MaxFaults,  \* bound: failed commands, deaths of processes and containers
    None

ASSUME EpochAssumption ==
    /\ Deadline \in Nat \ {0} /\ MaxNow \in Nat /\ MaxFaults \in Nat
    /\ "watch" \in Retirers /\ None \notin Retirers

Stages == {"storage", "realtime"}

VARIABLES
    now,
    box,        \* box[s]: the containers of stage s
    volume,     \* the stages whose volumes exist
    alien,      \* an object with the name or labels of the epoch that is not its own
    gate,       \* gate.json
    retired,    \* retirement.json exists
    lock,       \* holder of publisher.lock in the epoch directory
    syncing,    \* a synchronisation holds the lock of the epoch's sync directory
    retirer,    \* retirer[r]: position in retire, and the objects it has inspected
    starter,    \* position of start, and its stage
    admitted,   \* a read of aggregates was admitted on absent storage
    late,       \* history: a start admitted before the deadline created objects after it
    faults

vars == <<now, box, volume, alien, gate, retired, lock, syncing, retirer, starter,
          admitted, late, faults>>
objects == <<box, volume>>
others == <<now, alien, syncing, admitted, late>>

Idle == [pc |-> "idle", boxes |-> {}, volumes |-> {}]
Rest == [pc |-> "idle", stage |-> None]

Existing == {s \in Stages : box[s] # "absent"}
Running == {s \in Stages : box[s] = "running"}
Expired == now >= Deadline
Gone == Existing = {} /\ volume = {}
\* What a synchronisation is admitted on: gate, deadline, receipt, then every object.
Readable ==
    /\ gate = "started" /\ ~Expired /\ ~retired
    /\ ~alien /\ Running = Stages /\ volume = Stages
Halted == [s \in Stages |-> IF box[s] = "running" THEN "stopped" ELSE box[s]]

\* A container whose owner changed may keep everything from being stopped.
Stopping == box' \in IF alien THEN {box, Halted} ELSE {Halted}

\* A new directory with a frozen manifest and composition; nothing runs.
Init ==
    /\ now = 0
    /\ box = [s \in Stages |-> "absent"] /\ volume = {} /\ alien = FALSE
    /\ gate = "prepared" /\ retired = FALSE /\ lock = None /\ syncing = FALSE
    /\ retirer = [r \in Retirers |-> Idle] /\ starter = Rest
    /\ admitted = FALSE /\ late = FALSE /\ faults = 0

At(r, pc) == retirer[r].pc = pc
Goto(r, pc) == retirer' = [retirer EXCEPT ![r].pc = pc]

\* An exception, or the death of the process: the operating system drops the lock.
\* The end of the supervisor is followed by a stop of everything.
Aborted(r) == IF r = "watch" THEN [Idle EXCEPT !.pc = "ended"] ELSE Idle
Abandon(r) == retirer' = [retirer EXCEPT ![r] = Aborted(r)] /\ lock' = None

----------------------------------------------------------------------------
(* Retirement. *)

\* mutant: a retirement that was interrupted is not taken up again.
UnresumableBegin(r) ==
    /\ At(r, "idle") /\ Expired /\ lock = None /\ gate # "retiring" /\ ~retired
    /\ r = "watch" => ~syncing
    /\ lock' = r /\ gate' = "retiring" /\ Goto(r, "inspect")
    /\ UNCHANGED <<objects, others, retired, starter, faults>>

\* The clock is read before the lock.  A receipt is answered again, or refused
\* when an object has come back; otherwise the gate is closed first.
RetireBegin(r) ==
    /\ At(r, "idle") /\ Expired /\ lock = None
    /\ r = "watch" => ~syncing
    /\ IF retired
       THEN /\ r # "watch" /\ Gone
            /\ retirer' = [retirer EXCEPT ![r].pc = "absence"]
            /\ UNCHANGED <<gate, lock>>
       ELSE lock' = r /\ gate' = "retiring" /\ Goto(r, "inspect")
    /\ UNCHANGED <<objects, others, retired, starter, faults>>

\* Every object is validated before the first one is touched.
RetireInspect(r) ==
    /\ At(r, "inspect")
    /\ IF alien
       THEN Abandon(r)
       ELSE /\ retirer' = [retirer EXCEPT ![r] =
                               [pc |-> "stop", boxes |-> Existing, volumes |-> volume]]
            /\ UNCHANGED lock
    /\ UNCHANGED <<objects, others, gate, retired, starter, faults>>

\* mutant: the receipt is written as soon as the readers are stopped.
EarlyReceipt(r) ==
    /\ At(r, "stop") /\ Goto(r, "receipt") /\ box' = Halted
    /\ UNCHANGED <<volume, others, gate, retired, lock, starter, faults>>

RetireStop(r) ==
    /\ At(r, "stop") /\ Goto(r, "remove") /\ box' = Halted
    /\ UNCHANGED <<volume, others, gate, retired, lock, starter, faults>>

\* docker rm without force: a container that runs again makes it fail.
RemoveBox(r, s) ==
    /\ At(r, "remove") /\ s \in retirer[r].boxes
    /\ IF box[s] = "running"
       THEN Abandon(r) /\ UNCHANGED box
       ELSE /\ box' = [box EXCEPT ![s] = "absent"]
            /\ retirer' = [retirer EXCEPT ![r].boxes = @ \ {s}]
            /\ UNCHANGED lock
    /\ UNCHANGED <<volume, others, gate, retired, starter, faults>>

\* mutant: the volume is removed by force.
ForcedRemoveVolume(r, s) ==
    /\ At(r, "volumes") /\ s \in retirer[r].volumes
    /\ volume' = volume \ {s}
    /\ retirer' = [retirer EXCEPT ![r].volumes = @ \ {s}]
    /\ UNCHANGED <<box, others, gate, retired, lock, starter, faults>>

\* docker volume rm without force: fails while a container mounts the volume.
RemoveVolume(r, s) ==
    /\ At(r, "volumes") /\ s \in retirer[r].volumes
    /\ IF s \in Existing
       THEN Abandon(r) /\ UNCHANGED volume
       ELSE /\ volume' = volume \ {s}
            /\ retirer' = [retirer EXCEPT ![r].volumes = @ \ {s}]
            /\ UNCHANGED lock
    /\ UNCHANGED <<box, others, gate, retired, starter, faults>>

BoxesRemoved(r) ==
    /\ At(r, "remove") /\ retirer[r].boxes = {}
    /\ IF Existing # {} THEN Abandon(r) ELSE Goto(r, "volumes") /\ UNCHANGED lock
    /\ UNCHANGED <<objects, others, gate, retired, starter, faults>>

VolumesRemoved(r) ==
    /\ At(r, "volumes") /\ retirer[r].volumes = {}
    /\ IF volume # {} THEN Abandon(r) ELSE Goto(r, "receipt") /\ UNCHANGED lock
    /\ UNCHANGED <<objects, others, gate, retired, starter, faults>>

RetireReceipt(r) ==
    /\ At(r, "receipt")
    /\ retired' = TRUE /\ lock' = None
    /\ Goto(r, IF r = "watch" THEN "idle" ELSE "absence")
    /\ UNCHANGED <<objects, others, gate, starter, faults>>

\* An admission on retired storage takes the whole inventory once more.
RetiredAdmit(r) ==
    /\ At(r, "absence")
    /\ retirer' = [retirer EXCEPT ![r] = Idle]
    /\ admitted' = (Gone /\ ~alien)
    /\ UNCHANGED <<objects, now, alien, syncing, late, gate, retired, lock, starter, faults>>

RetirerFails(r) ==
    /\ ~At(r, "idle") /\ ~At(r, "ended") /\ faults < MaxFaults /\ faults' = faults + 1
    /\ retirer' = [retirer EXCEPT ![r] = Aborted(r)]
    /\ lock' = IF lock = r THEN None ELSE lock
    /\ UNCHANGED <<objects, others, gate, retired, starter>>

\* The supervisor waits a minute for a lock, then ends; objects of a retired
\* epoch that came back end it at once.
WatchGivesUp ==
    /\ At("watch", "idle")
    /\ syncing \/ (Expired /\ lock # None) \/ (retired /\ ~Gone)
    /\ Goto("watch", "ended")
    /\ UNCHANGED <<objects, others, gate, retired, lock, starter, faults>>

\* stop_all, in the supervisor or after it; then the service manager restarts it.
WatchEnds ==
    /\ At("watch", "ended") /\ Goto("watch", "idle")
    /\ Stopping
    /\ UNCHANGED <<volume, others, gate, retired, lock, starter, faults>>

----------------------------------------------------------------------------
(* Start and stop take no lock. *)

\* The expired epochs are removed first, which takes the lock of each sync directory.
StartBegin(s) ==
    /\ starter = Rest /\ ~syncing /\ ~Expired /\ ~retired /\ gate # "retiring"
    /\ starter' = [pc |-> "inspect", stage |-> s]
    /\ UNCHANGED <<objects, others, gate, retired, lock, retirer, faults>>

StartInspect ==
    /\ starter.pc = "inspect"
    /\ starter' = IF alien \/ (starter.stage = "realtime" /\ "storage" \notin Running)
                  THEN Rest ELSE [starter EXCEPT !.pc = "up"]
    /\ UNCHANGED <<objects, others, gate, retired, lock, retirer, faults>>

\* docker compose up may take minutes; it creates what is missing.
StartUp ==
    /\ starter.pc = "up"
    /\ starter' = [starter EXCEPT !.pc = "verify"]
    /\ box' = [box EXCEPT ![starter.stage] = "running"]
    /\ volume' = volume \union {starter.stage}
    /\ late' = (late \/ Expired)
    /\ UNCHANGED <<now, alien, syncing, admitted, gate, retired, lock, retirer, faults>>

\* Containers or volumes of the stage are missing: everything is stopped again.
StartVerify ==
    /\ starter.pc = "verify"
    /\ LET required == IF starter.stage = "storage" THEN {"storage"} ELSE Stages IN
       IF ~alien /\ starter.stage \in Running /\ required \subseteq volume
       THEN starter' = [starter EXCEPT !.pc = "gate"] /\ UNCHANGED box
       ELSE starter' = Rest /\ Stopping
    /\ UNCHANGED <<volume, others, gate, retired, lock, retirer, faults>>

StartGate ==
    /\ starter.pc = "gate"
    /\ gate' = IF starter.stage = "realtime" THEN "started" ELSE "storage_only"
    /\ starter' = Rest
    /\ UNCHANGED <<objects, others, retired, lock, retirer, faults>>

\* An exception after the containers were touched stops them; a death does not.
StarterFails ==
    /\ starter # Rest /\ faults < MaxFaults /\ faults' = faults + 1
    /\ starter' = Rest
    /\ box' \in IF starter.pc \in {"up", "verify"} THEN {box, Halted} ELSE {box}
    /\ UNCHANGED <<volume, others, gate, retired, lock, retirer>>

Stop ==
    /\ Running # {} /\ Stopping
    /\ UNCHANGED <<volume, others, gate, retired, lock, retirer, starter, faults>>

----------------------------------------------------------------------------
(* The containers, the synchronisation and the machine. *)

\* The first process of a container ends it at the deadline, also when started late.
GuardExits(s) ==
    /\ box[s] = "running" /\ Expired
    /\ box' = [box EXCEPT ![s] = "stopped"]
    /\ UNCHANGED <<volume, others, gate, retired, lock, retirer, starter, faults>>

BoxDies(s) ==
    /\ box[s] = "running" /\ faults < MaxFaults /\ faults' = faults + 1
    /\ box' = [box EXCEPT ![s] = "stopped"]
    /\ UNCHANGED <<volume, others, gate, retired, lock, retirer, starter>>

Sync ==
    /\ \/ ~syncing /\ Readable /\ syncing' = TRUE
       \/ syncing /\ syncing' = FALSE
    /\ UNCHANGED <<objects, now, alien, admitted, late, gate, retired, lock, retirer,
                   starter, faults>>

\* Somebody creates, and later removes, an object that only looks owned.
Alien ==
    /\ \/ ~alien /\ faults < MaxFaults /\ faults' = faults + 1
       \/ alien /\ UNCHANGED faults
    /\ alien' = ~alien
    /\ UNCHANGED <<objects, now, syncing, admitted, late, gate, retired, lock, retirer,
                   starter>>

Tick ==
    /\ now < MaxNow /\ now' = now + 1
    /\ UNCHANGED <<objects, alien, syncing, admitted, late, gate, retired, lock, retirer,
                   starter, faults>>

Retire(r) ==
    \/ RetireBegin(r) \/ RetireInspect(r) \/ RetireStop(r)
    \/ \E s \in Stages : RemoveBox(r, s) \/ RemoveVolume(r, s)
    \/ BoxesRemoved(r) \/ VolumesRemoved(r) \/ RetireReceipt(r) \/ RetiredAdmit(r)

Start == StartInspect \/ StartUp \/ StartVerify \/ StartGate

Next ==
    \/ \E r \in Retirers : Retire(r) \/ RetirerFails(r)
    \/ WatchGivesUp \/ WatchEnds \/ Start \/ StarterFails \/ Stop
    \/ \E s \in Stages : StartBegin(s) \/ GuardExits(s) \/ BoxDies(s)
    \/ Sync \/ Alien \/ Tick

Spec == Init /\ [][Next]_vars

SyncEnds == syncing /\ Sync
AlienGoes == alien /\ Alien

\* The service manager keeps the supervisor alive, commands return, a
\* synchronisation ends, and somebody removes a foreign object; nobody is
\* obliged to start or stop anything.
FairSpec ==
    /\ Spec /\ WF_vars(Tick) /\ WF_vars(Start)
    /\ \A r \in Retirers : WF_vars(At(r, "idle") = FALSE /\ Retire(r))
    /\ SF_vars(RetireBegin("watch")) /\ WF_vars(WatchEnds)
    /\ \A s \in Stages : WF_vars(GuardExits(s))
    /\ WF_vars(SyncEnds) /\ WF_vars(AlienGoes)

----------------------------------------------------------------------------
TypeOK ==
    /\ now \in 0..MaxNow /\ box \in [Stages -> {"absent", "stopped", "running"}]
    /\ volume \in SUBSET Stages
    /\ gate \in {"prepared", "retiring", "storage_only", "started"}
    /\ lock \in Retirers \union {None} /\ faults \in 0..MaxFaults
    /\ retirer \in [Retirers ->
           [pc : {"idle", "inspect", "stop", "remove", "volumes", "receipt", "absence", "ended"},
            boxes : SUBSET Stages, volumes : SUBSET Stages]]
    /\ starter \in [pc : {"idle", "inspect", "up", "verify", "gate"},
                    stage : Stages \union {None}]

\* A retired epoch has no container and no volume (real_epoch.py:321), and an
\* admission of aggregates on retired storage (real_retired.py:171) is about
\* such an epoch - unless a start that was admitted before the deadline
\* created its objects after it.
RetiredIsGone == (retired \/ admitted) /\ ~late => Gone
EpochSound == TypeOK /\ RetiredIsGone

\* The expired epoch is retired in the end, and after the last late start no
\* engine of it runs: failures, lock contention with synchronisations, foreign
\* objects and starts only delay it (real_epoch.py:463, epoch-guard.sh:15).
RetiredAtRest == retired /\ Running = {}
EventuallyRetired == <>[]RetiredAtRest

\* The epoch keeps its promise to the programs that use its engines.
Promise == INSTANCE Engines WITH up <- Running, data <- volume
PromiseStep == Promise!Next \/ UNCHANGED Promise!engines
KeepsPromise == Promise!Init /\ [][PromiseStep]_vars
=============================================================================
