----------------------------- MODULE Laboratory -----------------------------
(* Four programs that share no state: the writer of an epoch, the archive of *)
(* releases, an attempt at an offline phase, and one to write the tables of  *)
(* the lake; and what is to be true of each.                                 *)
EXTENDS Integers, Sequences, FiniteSets, TLC

CONSTANTS
    None,
    MaxJobs, MaxRows, WriterFaults,                                            \* Writer
    Offers, Runs, Lifetime, ReleasesNow, ReleasesFaults,                       \* Releases
    Ids, Calls, AttemptsFaults,                                                \* Attempts
    Attempts, Window, LakeNow, MaxCommands, LakeFaults                         \* Lake

VARIABLES
    expired, up, setup, submission, first, job, listed, topic, sink, ledger, torn, lock,
    op, faults,
    day, entries, files, partial, pointer, publisher, manifest, reserved, temp, pair, stage, breaks,
    wanted, place, admitted, marked, recorded, done, sessions, log, cid, running, stopping,
    stale, told, deaths,
    now, registry, course, svc, lease, record, task, outsider, desc, marker, tables,
    receipt, proof, worker, launching, driver, cancel, cancelled, confirmed, runs, ended,
    commands, failures

writer == <<expired, up, setup, submission, first, job, listed, topic, sink, ledger, torn,
            lock, op, faults>>
releases == <<day, entries, files, partial, pointer, publisher, manifest, reserved, temp, pair,
              stage, breaks>>
attempts == <<wanted, place, admitted, marked, recorded, done, sessions, log, cid, running,
              stopping, stale, told, deaths>>
lake == <<now, registry, course, svc, lease, record, task, outsider, desc, marker, tables,
          receipt, proof, worker, launching, driver, cancel, cancelled, confirmed, runs,
          ended, commands, failures>>

Wr == INSTANCE Writer WITH MaxFaults <- WriterFaults
Re == INSTANCE Releases WITH now <- day, job <- publisher, faults <- breaks,
        MaxNow <- ReleasesNow, MaxFaults <- ReleasesFaults
At == INSTANCE Attempts WITH worker <- place, cancelled <- marked, driver <- running,
        cancel <- stopping, faults <- deaths, MaxFaults <- AttemptsFaults
La == INSTANCE Lake WITH op <- course, job <- task, faults <- failures, MaxNow <- LakeNow,
        MaxFaults <- LakeFaults

ASSUME LaboratoryAssumption ==
    /\ Wr!WriterAssumption /\ Re!ReleasesAssumption /\ At!AttemptsAssumption /\ La!LakeAssumption

-----------------------------------------------------------------------------
(* The properties of each program, which its module states and explains.     *)

\* Writer: one job writes, no row twice, a paused state is the newest and whole.
WriterSound == Wr!WriterSound

\* Writer and Attempts: no record of a pause is written under the lease of a synchronisation,
\* and a cancellation that starts or looks after its attempt is over stops no driver.
NoTrespass == [][Wr!LeaseStep]_writer /\ [][At!DriverStep]_attempts

\* Releases: what a pointer designates is there, and can be read unless one of three named files
\* blocks the archive; the copies of a run are the same bytes.
ReleasesSound == Re!PointerReadable /\ Re!CopiesAgree

\* Releases: no release is replaced by an older one or by another content of its cutoff.
NeverBackwards == [][Re!ReplaceStep]_releases

\* Lake and Attempts: no node is left in the compute phase without an attempt that owns it,
\* an attempt is executed once, and nothing of one that was reported cancelled runs or starts.
AttemptsSound == La!AttemptsSound /\ At!AttemptsSound
=============================================================================
