----------------------------- MODULE Lifecycle -----------------------------
(***************************************************************************)
(* Ownership and expiry of local real-data artifacts: RealLifecycle over   *)
(* the files of io.atomic_write.  One process at a time changes the root   *)
(* (it holds the publication lock); readers do not lock.  A changing       *)
(* process is a sequence of file operations, and it may die between any    *)
(* two: a file is replaced by creating a temporary file and renaming it,   *)
(* so a death in between leaves the temporary file.                        *)
(***************************************************************************)
EXTENDS Integers, SequencesExt

CONSTANTS
    Paths,          \* artifact paths
    Directories,    \* the artifacts that are directories: their temporary files lie inside
    Kinds,          \* retention classes
    Retention,      \* lifetime per class (7, 30 or 90 days)
    Readers,        \* processes that call readable
    None,           \* no copy, no process
    MaxNow,         \* bound: last tick of the model
    MaxFaults,      \* bound: crashes
    TornWrites      \* whether a crash may come between creating and renaming a file

ASSUME LifecycleAssumption ==
    /\ Retention \in [Kinds -> Nat \ {0}]
    /\ Directories \subseteq Paths
    /\ None \notin Paths
    /\ {"registry", "gate"} \cap Paths = {}
    /\ TornWrites \in BOOLEAN

VARIABLES
    now,        \* the clock
    registry,   \* registry.json: entries by path
    gate,       \* gate.json
    payloads,   \* artifacts whose payload is on disk
    temps,      \* temporary files on disk, by the file they are for
    job,        \* the changing process: what it does and the operations still to do
    reader,     \* per reader: its step and what it has read
    faults      \* bookkeeping for MaxFaults

disk == <<registry, gate, payloads, temps>>
vars == <<now, disk, job, reader, faults>>

Closed == [open |-> FALSE, checked |-> 0]
Opened(t) == [open |-> TRUE, checked |-> t]
Idle == [phase |-> "idle", todo |-> << >>]

Init ==
    /\ now = 0
    /\ registry = << >> /\ gate = Closed
    /\ payloads = {} /\ temps = {}
    /\ job = Idle
    /\ reader = [r \in Readers |-> [pc |-> "idle"]]
    /\ faults = 0

-----------------------------------------------------------------------------
(* The checks over a registry. *)

ExpiredAt(r, t) == {p \in DOMAIN r : r[p].expires <= t}

\* What refers to something in S is in S.
Follows(r, S) == \A p \in DOMAIN r : r[p].refs \cap S # {} => p \in S

\* RealLifecycle._plan: what has expired and, transitively, what refers to it,
\* that is what is in every set that holds the one and follows references.
OverdueAt(r, t) ==
    {p \in DOMAIN r : \A S \in SUBSET DOMAIN r : ExpiredAt(r, t) \subseteq S /\ Follows(r, S) => p \in S}

Dangling(r) == {p \in DOMAIN r : ~ r[p].refs \subseteq DOMAIN r}

\* RealLifecycle._inventory: files no entry accounts for.
Unregistered(r) == (payloads \ DOMAIN r) \union (temps \ (Directories \cap DOMAIN r))

-----------------------------------------------------------------------------
(* File operations.  Replacing a file creates its temporary file first. *)

Replace(f, v) == <<[op |-> "create", file |-> f], [op |-> "rename", file |-> f, value |-> v]>>

Create(f) ==
    /\ temps' = temps \union {f}
    /\ payloads' = payloads \union ({f} \cap Directories)
    /\ UNCHANGED <<registry, gate>>

Rename(f, v) ==
    /\ temps' = temps \ {f}
    /\ registry' = IF f = "registry" THEN v ELSE registry
    /\ gate' = IF f = "gate" THEN v ELSE gate
    /\ payloads' = payloads \union ({f} \cap Paths)

Discard(p) ==
    /\ payloads' = payloads \ {p}
    /\ temps' = temps \ ({p} \cap Directories)
    /\ UNCHANGED <<registry, gate>>

\* The next operation of the changing process.
Operate ==
    /\ job.todo # << >>
    /\ LET o == Head(job.todo)
       IN  \/ o.op = "create" /\ Create(o.file)
           \/ o.op = "rename" /\ Rename(o.file, o.value)
           \/ o.op = "unlink" /\ Discard(o.file)
    /\ job' = [job EXCEPT !.todo = Tail(@)]
    /\ UNCHANGED <<now, reader, faults>>

Finish ==
    /\ job.phase \in {"change", "reopen"} /\ job.todo = << >>
    /\ job' = Idle
    /\ UNCHANGED <<now, disk, reader, faults>>

-----------------------------------------------------------------------------
(* RealLifecycle.register, the writing of a payload, cleanup. *)

\* The entry a registration would make: a copy inherits class, origin and limit.
NewEntry(kind, original, refs, copy) ==
    [kind |-> kind, original |-> original, refs |-> refs, copy |-> copy,
     expires |-> IF copy = None THEN original + Retention[kind]
                 ELSE Min({original + Retention[kind], registry[copy].expires})]

Extended(p, entry) == [q \in DOMAIN registry \union {p} |-> IF q = p THEN entry ELSE registry[q]]

AnyPath == Paths                    \* mutant: a registration may be repeated with other metadata
Vacant == Paths \ DOMAIN registry

\* A path that is already registered is either replayed, which changes
\* nothing, or refused: only a new path has an effect.
Register ==
    /\ job = Idle
    /\ \E p \in Vacant, kind \in Kinds, original \in 0..now,
          refs \in SUBSET DOMAIN registry, copy \in DOMAIN registry \union {None} :
         /\ original + Retention[kind] > now
         /\ copy # None => registry[copy].kind = kind /\ registry[copy].original = original
         /\ job' = [phase |-> "change",
                    todo |-> Replace("registry", Extended(p, NewEntry(kind, original, refs, copy)))
                             \o Replace("gate", Closed)]
    /\ UNCHANGED <<now, disk, reader, faults>>

\* The caller writes the payload it has reserved.
WritePayload ==
    /\ job = Idle
    /\ \E p \in DOMAIN registry \ payloads :
         job' = [phase |-> "change", todo |-> Replace(p, None)]
    /\ UNCHANGED <<now, disk, reader, faults>>

\* cleanup: the clock is read, then the gate is closed.
StartCleanup ==
    /\ job = Idle
    /\ job' = [phase |-> "purge", at |-> now, todo |-> Replace("gate", Closed)]
    /\ UNCHANGED <<now, disk, reader, faults>>

Kept(r, removed) == [p \in DOMAIN r \ removed |-> r[p]]
Unlinks(removed) == [i \in 1..Cardinality(removed) |-> [op |-> "unlink", file |-> SetToSeq(removed)[i]]]

Purge(removed) == Unlinks(removed) \o Replace("registry", Kept(registry, removed))

ExpiredOnly == ExpiredAt(registry, job.at)        \* mutant: references are not followed
Removable == OverdueAt(registry, job.at)

\* The inventory and the plan; either may refuse, and the gate stays closed.
Plan ==
    /\ job.phase = "purge" /\ job.todo = << >>
    /\ job' = IF Unregistered(registry) # {} \/ Dangling(registry) # {} THEN Idle
              ELSE [phase |-> "reopen", todo |-> Purge(Removable) \o Replace("gate", Opened(job.at))]
    /\ UNCHANGED <<now, disk, reader, faults>>

MidReplace == job.todo # << >> /\ Head(job.todo).op = "rename"

\* The changing process dies.
Crash ==
    /\ job # Idle /\ faults < MaxFaults
    /\ MidReplace => TornWrites
    /\ faults' = faults + 1
    /\ job' = Idle
    /\ UNCHANGED <<now, disk, reader>>

-----------------------------------------------------------------------------
(* RealLifecycle.readable, without the lock. *)

ReadRegistry(r) ==
    /\ reader[r].pc = "idle"
    /\ \E p \in Paths : reader' = [reader EXCEPT ![r] = [pc |-> "gate", path |-> p, data |-> registry]]
    /\ UNCHANGED <<now, disk, job, faults>>

AdmitsOpen(data, p) == gate.open /\ p \in DOMAIN data        \* mutant: trusts the gate
Admits(data, p) == gate.open /\ OverdueAt(data, now) = {} /\ p \in DOMAIN data

CheckGate(r) ==
    /\ reader[r].pc = "gate"
    /\ LET p == reader[r].path
           data == reader[r].data
       IN  reader' = [reader EXCEPT ![r] =
                IF Admits(data, p) THEN [pc |-> "inventory", path |-> p, data |-> data, at |-> now]
                ELSE [pc |-> "idle"]]
    /\ UNCHANGED <<now, disk, job, faults>>

CheckInventory(r) ==
    /\ reader[r].pc = "inventory"
    /\ reader' = [reader EXCEPT ![r] =
            IF Unregistered(reader[r].data) = {}
            THEN [pc |-> "reading", path |-> reader[r].path, at |-> reader[r].at]
            ELSE [pc |-> "idle"]]
    /\ UNCHANGED <<now, disk, job, faults>>

EndRead(r) ==
    /\ reader[r].pc = "reading"
    /\ reader' = [reader EXCEPT ![r] = [pc |-> "idle"]]
    /\ UNCHANGED <<now, disk, job, faults>>

Read(r) == ReadRegistry(r) \/ CheckGate(r) \/ CheckInventory(r) \/ EndRead(r)

Tick ==
    /\ now < MaxNow
    /\ now' = now + 1
    /\ UNCHANGED <<disk, job, reader, faults>>

Cleanup == StartCleanup \/ Plan
Change == Operate \/ Finish

Next == Register \/ WritePayload \/ Cleanup \/ Change \/ Crash \/ Tick \/ \E r \in Readers : Read(r)

Spec == Init /\ [][Next]_vars
FairSpec == Spec /\ WF_vars(Cleanup) /\ WF_vars(Change)

-----------------------------------------------------------------------------
(* Correctness. *)

Entries == [kind : Kinds, original : Nat, expires : Nat, refs : SUBSET Paths, copy : Paths \union {None}]

\* The registry maps paths to entries, the gate records the time it was
\* opened for, and every process has the memory of its step.
TypeOK ==
    /\ now \in Nat /\ faults \in Nat
    /\ DOMAIN registry \subseteq Paths
    /\ \A p \in DOMAIN registry : registry[p] \in Entries
    /\ gate \in [open : BOOLEAN, checked : Nat]
    /\ payloads \subseteq Paths
    /\ temps \subseteq Paths \union {"registry", "gate"}
    /\ job.phase \in {"idle", "change", "purge", "reopen"}
    /\ \A r \in Readers : reader[r].pc \in {"idle", "gate", "inventory", "reading"}

\* Payload never outlives its entry, so that no file is left on disk that
\* cleanup cannot find: it is written after the reservation and removed
\* before the entry, whatever crash comes between (register, cleanup).
NothingForgotten == payloads \subseteq DOMAIN registry

\* While the gate is open every payload was inspected: none was expired, or
\* referred to something expired, at the time the gate was opened for.
OpenGateIsClean ==
    gate.open => payloads \cap OverdueAt(registry, gate.checked) = {}

\* Nobody is given an artifact that had expired, or refers to something that
\* had, when it asked, although registry, gate and files are read one after
\* the other without the lock: bytes that still exist are fresh.
ReadsAreFresh ==
    \A r \in Readers :
        reader[r].pc = "reading" /\ reader[r].path \in payloads =>
            reader[r].path \notin OverdueAt(registry, reader[r].at)

\* Cleanup removes what refers to a removed artifact with it: no crash leaves
\* an entry whose references are gone, which would block every later cleanup.
NoDanglingReference == Dangling(registry) = {}

\* Readers, without the lock, and cleanup, after any crash, find what they rely on.
ReadsSound == TypeOK /\ OpenGateIsClean /\ ReadsAreFresh /\ NothingForgotten /\ NoDanglingReference

\* Whatever the copies, restores, replays and crashes: while an artifact is
\* registered its end never moves, and it is not after that of what it was copied from.
NeverExtended ==
    [][\A p \in DOMAIN registry' :
         IF p \in DOMAIN registry THEN registry'[p].expires <= registry[p].expires
         ELSE registry'[p].copy # None => registry'[p].expires <= registry'[registry'[p].copy].expires]_vars

Overstays(p) == p \in payloads /\ p \in ExpiredAt(registry, now)

\* A crash left a file that no registry entry accounts for: every cleanup refuses.
Torn == job = Idle /\ Unregistered(registry) # {}

\* An expired payload is removed if cleanup keeps being called, whatever crash
\* interrupts it, unless the crash falls inside the replacement of a file.
PurgedUnlessTorn == \A p \in Paths : Overstays(p) ~> p \notin payloads \/ Torn
=============================================================================
