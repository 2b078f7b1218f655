----------------------------- MODULE Programs ------------------------------
(* Programs that share no state: the streaming job, the registration of a    *)
(* release in Hive, the catalogues by version, the retention of the engines, *)
(* the controller of the machines, and the model of behaviour; and what is   *)
(* to be true of each.                                                       *)

CONSTANTS
    Unset,                                                                     \* their None
    Ids, Requests, Bound, Lateness, MaxTime, RealtimeRecords, RealtimeFaults,  \* Realtime
    Expiry, Groups, Window, HiveNow, MaxDrivers, HiveFaults,                   \* Hive
    Editions, Declared, Catalogue, Cutoff, MaxAttested, MaxCovered,            \* Dimensions
    Partitions, LogRetention, Roots, StrayRoot, BackendsNow, BackendsRecords,
    MaxStarts,                                                                 \* Backends
    LastNode, MachinesFaults,                                                  \* Machines
    Possible, BehaviorWindow                                                   \* Behavior, with Cutoff

VARIABLES
    real, records, stream, state, newest, mark, pending, taken, facts, side, stale, forgot,
    crashes,
    hour, intent, backend, other, catalog, session, drivers, purged, acknowledged, late,
    half, losses,
    world, attested, covered,
    moment, identity, segments, stored, buffer, engine, present, clean, receipts, after,
    made, starts,
    vm, unknown, busy, ctl, statement, noticed, outages,
    accepted

realtime == <<real, records, stream, state, newest, mark, pending, taken, facts, side,
              stale, forgot, crashes>>
hive == <<hour, intent, backend, other, catalog, session, drivers, purged, acknowledged,
          late, half, losses>>
dimensions == <<world, attested, covered>>
backends == <<moment, identity, segments, stored, buffer, engine, present, clean, receipts,
              after, made, starts>>
machines == <<vm, unknown, busy, ctl, statement, noticed, outages>>
behavior == <<accepted>>

Rt == INSTANCE Realtime WITH None <- Unset, log <- records, job <- stream, table <- facts,
        expired <- stale, faults <- crashes, MaxRecords <- RealtimeRecords,
        MaxFaults <- RealtimeFaults
Hi == INSTANCE Hive WITH None <- Unset, now <- hour, receipt <- purged, faults <- losses,
        MaxNow <- HiveNow, MaxFaults <- HiveFaults
Di == INSTANCE Dimensions WITH None <- Unset, Releases <- Editions
Ba == INSTANCE Backends WITH None <- Unset, Retention <- LogRetention, now <- moment,
        log <- segments, table <- stored, job <- engine, receipt <- receipts, Stray <- StrayRoot,
        MaxNow <- BackendsNow, MaxRecords <- BackendsRecords
Ma == INSTANCE Machines WITH None <- Unset, receipt <- statement, faults <- outages,
        MaxFaults <- MachinesFaults
Be == INSTANCE Behavior WITH None <- Unset, Window <- BehaviorWindow

ASSUME ProgramsAssumption ==
    /\ Rt!RealtimeAssumption /\ Hi!HiveAssumption /\ Di!DimensionsAssumption
    /\ Ba!BackendsAssumption /\ Ma!MachinesAssumption /\ Be!BehaviorAssumption

-----------------------------------------------------------------------------
(* The properties of each program, which its module states and explains.     *)

\* Realtime: a record is in the table, late or quarantined, and the first of a key counts.
RealtimeSound == Rt!RealtimeSound

\* Hive: every table is written down and registered for expiry before it exists.
CatalogSound == Hi!CatalogSound

\* Dimensions: an artifact has one answer for a moment, a true one if its receipts are true.
DimensionsSound == Di!DimensionsSound

\* Backends and Machines: a receipt covers everything that was there when it was issued, and
\* what it says of the machines stays true until the next operation.
ReceiptsTrue == Ba!ReceiptCovers /\ Ma!ReceiptHolds

\* Backends and Machines: what is somebody else's stays.  A cleanup deletes no live record of
\* the topic it has scanned, and no machine that was seen to run unknown work is stopped.
OthersKept == [][Ba!DeleteStep]_backends /\ [][Ma!KeepStep]_machines

\* Behavior: the distributed model counts what the oracle counts.
BehaviorAgrees == Be!BehaviorAgrees
=============================================================================
