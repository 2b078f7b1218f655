----------------------------- MODULE MCServices -----------------------------
(* The programs that have to get somewhere in time, each in a small          *)
(* instance: the storage epoch, which has to end, and the lineage journal,   *)
(* the browser adapter and the forwarder of logs, which hold something until *)
(* a service has taken it.  They share no state in these modules, so a       *)
(* behaviour is one of a single program: part says which, while the others   *)
(* stay in their initial states.                                             *)
EXTENDS Epoch, Lineage

CONSTANTS
    Tabs, Capacity, BatchSize, Grant, MaxEvents, MaxWithdrawals, BrowserNow,        \* Browser
    Completions, Unlisted, Lookback, Retention, MaxRows, Limit, MaxPolls,           \* Forwarder
    ForwarderNow, ForwarderFaults

VARIABLES
    part,   \* the program under check
    clock, consent, stored, tab, mind, queue, flight, timer, notice, withdrawals, overlap, made,
    time, logged, poll, spool, high, metrics, forward, state, collected, refused, spooled,
    observed, blind, life, polls, lapses

Br == INSTANCE Browser WITH now <- clock, events <- made, MaxNow <- BrowserNow
Fo == INSTANCE Forwarder WITH now <- time, faults <- lapses,
        MaxNow <- ForwarderNow, MaxFaults <- ForwarderFaults

ASSUME ServicesAssumption == Br!BrowserAssumption /\ Fo!ForwarderAssumption

browser == <<clock, consent, stored, tab, mind, queue, flight, timer, notice, withdrawals, overlap, made>>
forwarder == <<time, logged, poll, spool, high, metrics, forward, state, collected, refused, spooled,
               observed, blind, life, polls, lapses>>
allVars == <<part, vars, journalVars, browser, forwarder>>

ServicesInit ==
    /\ part \in {"epoch", "lineage", "browser", "forwarder"}
    /\ Init /\ JournalInit /\ Br!Init /\ Fo!Init

ServicesNext ==
    /\ UNCHANGED part
    /\ \/ part = "epoch" /\ Next /\ UNCHANGED <<journalVars, browser, forwarder>>
       \/ part = "lineage" /\ JournalNext /\ UNCHANGED <<vars, browser, forwarder>>
       \/ part = "browser" /\ Br!Next /\ UNCHANGED <<vars, journalVars, forwarder>>
       \/ part = "forwarder" /\ Fo!Next /\ UNCHANGED <<vars, journalVars, browser>>

ServicesSpec == ServicesInit /\ [][ServicesNext]_allVars

\* The fairness that Epoch, Lineage and Forwarder state.
InEpoch(A) == part = "epoch" /\ A /\ UNCHANGED <<part, journalVars, browser, forwarder>>
InLineage(A) == part = "lineage" /\ A /\ UNCHANGED <<part, vars, browser, forwarder>>
InForwarder(A) == part = "forwarder" /\ A /\ UNCHANGED <<part, vars, journalVars, browser>>
FairServicesSpec ==
    /\ ServicesSpec
    /\ WF_allVars(InEpoch(Tick)) /\ WF_allVars(InEpoch(Start))
    /\ \A r \in Retirers : WF_allVars(InEpoch(At(r, "idle") = FALSE /\ Retire(r)))
    /\ SF_allVars(InEpoch(RetireBegin("watch"))) /\ WF_allVars(InEpoch(WatchEnds))
    /\ \A s \in Stages : WF_allVars(InEpoch(GuardExits(s)))
    /\ WF_allVars(InEpoch(SyncEnds)) /\ WF_allVars(InEpoch(AlienGoes))
    /\ WF_allVars(InLineage(Deliver("journal")))
    /\ WF_allVars(InForwarder(Fo!Fetch)) /\ WF_allVars(InForwarder(Fo!Save))
    /\ SF_allVars(InForwarder(Fo!Send))

-----------------------------------------------------------------------------
(* The properties of each program, which its module states and explains; for *)
(* the epoch and the journal these are EpochSound, KeepsPromise, JournalTrue.*)

\* Browser: nothing is stranded in a queue, nothing sent thrice, and with a consent
\* its adapters and its identity end in every tab.
ConsentObeyed == Br!ConsentObeyed

\* Forwarder: what was ever spooled is still to be read, accepted, or counted, and what
\* no poll has seen is measured.
NothingLostSilently == Fo!NothingLostSilently

\* Forwarder and Lineage: a spooled row is accepted, refused, expires or leaves the spool,
\* and every event of the journal arrives.
EventuallyDelivered ==
    EventuallyArrives /\ \A c \in Completions : []<>(part = "forwarder" => Fo!Settled(c))

\* Epoch: it is retired in the end, and at rest, whatever failed.
EpochEnds == part = "epoch" => EventuallyRetired
=============================================================================
