---------------------------- MODULE ServicesProofs ----------------------------
(***************************************************************************)
(* The four programs that MCServices checks together and that share no     *)
(* state.  An epoch is retired once and for good, and keeps its promise to *)
(* the programs inside, for any number of retiring processes, any deadline *)
(* and any number of failures.  The journal keeps one true outcome per     *)
(* attempt and its acknowledgements are of events that arrived.  A browser *)
(* sends and stores nothing that consent does not cover, with any number   *)
(* of tabs.  Whatever happens between the log reader, its spool and the    *)
(* forwarder, what is lost is counted.                                     *)
(***************************************************************************)
EXTENDS MCServices, FiniteSetTheorems, SequenceTheorems, WellFoundedInduction, TLAPS

(* The epoch. *)

\* What a retirement has established at its step holds until the receipt, except for
\* objects of a late start, because nothing but a start creates objects.
RetirersRight ==
    \A r \in Retirers :
        /\ retirer[r].pc \notin {"idle", "ended"} => Expired
        /\ ~ late =>
             /\ retirer[r].pc = "volumes" => Existing = {}
             /\ retirer[r].pc = "receipt" => Gone

\* Nobody retires an epoch before its deadline.
OnlyExpired == retired \/ admitted => Expired

\* A start under way has a stage.
StarterRight == starter.pc # "idle" => starter.stage \in Stages

EpochInv == TypeOK /\ RetirersRight /\ OnlyExpired /\ StarterRight /\ RetiredIsGone

-----------------------------------------------------------------------------
(* Stopping. *)

\* Stopping creates and removes nothing, and starts nothing.
LEMMA HaltedKeeps ==
    ASSUME TypeOK
    PROVE  /\ Halted \in [Stages -> {"absent", "stopped", "running"}]
           /\ \A s \in Stages : Halted[s] = "absent" <=> box[s] = "absent"
           /\ \A s \in Stages : Halted[s] # "running"
  BY DEF TypeOK, Halted

\* The same for an attempt to stop, which an alien object may prevent.
LEMMA StoppingKeeps ==
    ASSUME TypeOK, box' = box \/ box' = Halted \/ Stopping
    PROVE  /\ box' \in [Stages -> {"absent", "stopped", "running"}]
           /\ Existing' = Existing
           /\ Running' \subseteq Running
           /\ Running' \in {Running, {}}
<1>1. box' = box \/ box' = Halted
  BY DEF Stopping
<1>2. CASE box' = box
  BY <1>2 DEF TypeOK, Existing, Running
<1>3. CASE box' = Halted
  BY <1>3, HaltedKeeps DEF TypeOK, Existing, Running
<1> QED
  BY <1>1, <1>2, <1>3

-----------------------------------------------------------------------------
(* The invariant. *)

LEMMA InitEpochInv == ASSUME Init PROVE EpochInv
  BY EpochAssumption DEF Init, EpochInv, TypeOK, RetirersRight, OnlyExpired, StarterRight,
         RetiredIsGone, Idle, Rest, Stages

\* Steps that leave existing objects existing, and the positions of retirements, alone.
LEMMA BystanderStep ==
    ASSUME EpochInv, TypeOK', Existing' = Existing, volume' = volume,
           now' = now, late' = late, retirer' = retirer, retired' = retired,
           admitted' = admitted, StarterRight'
    PROVE  EpochInv'
  BY DEF EpochInv, RetirersRight, OnlyExpired, RetiredIsGone, Gone, Expired

LEMMA RetireStep ==
    ASSUME EpochInv, NEW r \in Retirers, Retire(r) \/ RetirerFails(r)
    PROVE  EpochInv'
<1> USE EpochAssumption DEF EpochInv
<1> DEFINE Record == [pc : {"idle", "inspect", "stop", "remove", "volumes", "receipt", "absence", "ended"},
                      boxes : SUBSET Stages, volumes : SUBSET Stages]
<1>0. retirer[r] \in Record /\ Idle \in Record /\ Aborted(r) \in Record
  BY DEF TypeOK, Idle, Aborted
<1> USE <1>0 DEF TypeOK, RetirersRight, OnlyExpired, StarterRight, RetiredIsGone, Gone,
              Expired, At, Goto, objects, others
<1>1. CASE RetireBegin(r)
  BY <1>1 DEF RetireBegin, Existing
<1>2. CASE RetireInspect(r)
  BY <1>2 DEF RetireInspect, Abandon, Aborted, Idle, Existing
<1>3. CASE RetireStop(r)
  <2>1. box' \in [Stages -> {"absent", "stopped", "running"}] /\ Existing' = Existing
    BY <1>3, StoppingKeeps DEF RetireStop
  <2> QED
    BY <1>3, <2>1 DEF RetireStop
<1>4. ASSUME NEW s \in Stages, RemoveBox(r, s) PROVE EpochInv'
  <2>1. Existing' \subseteq Existing
    BY <1>4 DEF RemoveBox, Existing
  <2> QED
    BY <1>4, <2>1 DEF RemoveBox, Abandon, Aborted, Idle
<1>5. ASSUME NEW s \in Stages, RemoveVolume(r, s) PROVE EpochInv'
  <2>1. Existing' = Existing
    BY <1>5 DEF RemoveVolume, Existing
  <2> QED
    BY <1>5, <2>1 DEF RemoveVolume, Abandon, Aborted, Idle
<1>6. CASE BoxesRemoved(r)
  BY <1>6 DEF BoxesRemoved, Abandon, Aborted, Idle, Existing
<1>7. CASE VolumesRemoved(r)
  BY <1>7 DEF VolumesRemoved, Abandon, Aborted, Idle, Existing
<1>8. CASE RetireReceipt(r)
  BY <1>8 DEF RetireReceipt, Existing
<1>9. CASE RetiredAdmit(r)
  BY <1>9, ZenonT(60) DEF RetiredAdmit, Existing, Idle
<1>10. CASE RetirerFails(r)
  BY <1>10 DEF RetirerFails, Aborted, Idle, Existing
<1> QED
  BY <1>1, <1>2, <1>3, <1>4, <1>5, <1>6, <1>7, <1>8, <1>9, <1>10 DEF Retire

LEMMA StartStep ==
    ASSUME EpochInv, Start \/ StarterFails \/ (\E s \in Stages : StartBegin(s))
    PROVE  EpochInv'
<1> USE EpochAssumption DEF EpochInv
<1> USE DEF TypeOK, RetirersRight, OnlyExpired, StarterRight, RetiredIsGone, Gone,
              Expired, objects, others
<1>1. ASSUME NEW s \in Stages, StartBegin(s) PROVE EpochInv'
  BY <1>1 DEF StartBegin, Existing
<1>2. CASE StartInspect
  BY <1>2 DEF StartInspect, Existing, Rest
<1>3. CASE StartUp
  BY <1>3 DEF StartUp, Existing
<1>4. CASE StartVerify
  <2>1. Existing' = Existing /\ box' \in [Stages -> {"absent", "stopped", "running"}]
    BY <1>4, StoppingKeeps DEF StartVerify
  <2> QED
    BY <1>4, <2>1 DEF StartVerify, Rest
<1>5. CASE StartGate
  BY <1>5 DEF StartGate, Existing, Rest
<1>6. CASE StarterFails
  <2>1. Existing' = Existing /\ box' \in [Stages -> {"absent", "stopped", "running"}]
    BY <1>6, StoppingKeeps DEF StarterFails
  <2> QED
    BY <1>6, <2>1 DEF StarterFails, Rest
<1> QED
  BY <1>1, <1>2, <1>3, <1>4, <1>5, <1>6 DEF Start

\* The supervisor's end, the operator's stop, containers, synchronisation, clock.
LEMMA OtherStep ==
    ASSUME EpochInv,
           \/ WatchGivesUp \/ WatchEnds \/ Stop \/ Sync \/ Alien \/ Tick
           \/ \E s \in Stages : GuardExits(s) \/ BoxDies(s)
    PROVE  EpochInv'
<1> USE EpochAssumption DEF EpochInv
<1> USE DEF TypeOK, RetirersRight, OnlyExpired, StarterRight, RetiredIsGone, Gone,
              Expired, At, Goto, objects, others
<1>1. CASE WatchGivesUp
  BY <1>1 DEF WatchGivesUp, Existing
<1>2. CASE WatchEnds \/ Stop
  <2>1. Existing' = Existing /\ box' \in [Stages -> {"absent", "stopped", "running"}]
    BY <1>2, StoppingKeeps DEF WatchEnds, Stop
  <2> QED
    BY <1>2, <2>1 DEF WatchEnds, Stop
<1>3. CASE Sync \/ Alien
  BY <1>3 DEF Sync, Alien, Existing
<1>4. CASE Tick
  BY <1>4 DEF Tick, Existing
<1>5. ASSUME NEW s \in Stages, GuardExits(s) \/ BoxDies(s) PROVE EpochInv'
  <2>1. Existing' = Existing
    BY <1>5 DEF GuardExits, BoxDies, Existing
  <2> QED
    BY <1>5, <2>1 DEF GuardExits, BoxDies
<1> QED
  BY <1>1, <1>2, <1>3, <1>4, <1>5

LEMMA NextEpochInv == ASSUME EpochInv, [Next]_vars PROVE EpochInv'
<1>1. CASE Next
  BY <1>1, RetireStep, StartStep, OtherStep DEF Next
<1>2. CASE UNCHANGED vars
  BY <1>2 DEF vars, EpochInv, TypeOK, RetirersRight, OnlyExpired, StarterRight, RetiredIsGone,
              Gone, Existing, Expired
<1> QED
  BY <1>1, <1>2

LEMMA EpochSafe == Spec => []EpochInv
<1>1. Init => EpochInv
  BY InitEpochInv
<1>2. EpochInv /\ [Next]_vars => EpochInv'
  BY NextEpochInv
<1> QED
  BY <1>1, <1>2, PTL DEF Spec

\* A retired epoch has no container and no volume, nor has one whose aggregates are read
\* on retired storage, unless a start that was admitted in time was late
\* (real_epoch.retire, real_retired).
THEOREM RetiredForGood == Spec => []EpochSound
<1>1. EpochInv => EpochSound
  BY DEF EpochInv, EpochSound
<1> QED
  BY <1>1, EpochSafe, PTL

-----------------------------------------------------------------------------
(* The promise to the programs that use the engines. *)

\* A step after which no engine runs that did not run before, and with the same data,
\* is a halt or a stutter.
LEMMA NoneStarted ==
    ASSUME Running' \subseteq Running, UNCHANGED <<now, volume>>
    PROVE  PromiseStep
  BY DEF PromiseStep, Promise!Next, Promise!Halt, Promise!engines

\* Only removing a volume disposes of data: after the deadline and not under an engine.
LEMMA RemovalIsDisposal ==
    ASSUME EpochInv, NEW r \in Retirers, NEW s \in Stages, RemoveVolume(r, s)
    PROVE  PromiseStep
<1>1. Running' = Running /\ now' = now
  BY DEF RemoveVolume, Running, others
<1>2. CASE s \in Existing
  BY <1>1, <1>2 DEF RemoveVolume, PromiseStep, Promise!engines
<1>3. CASE s \notin Existing /\ s \in volume
  <2>1. now >= Deadline
    BY DEF EpochInv, RetirersRight, Expired, RemoveVolume, At
  <2>2. s \notin Running
    BY <1>3 DEF Existing, Running
  <2>3. volume' = volume \ {s}
    BY <1>3 DEF RemoveVolume
  <2>4. Promise!Dispose(s)
    BY <1>1, <1>3, <2>1, <2>2, <2>3 DEF Promise!Dispose
  <2> QED
    BY <2>4 DEF PromiseStep, Promise!Next, Promise!Stages, Stages
<1>4. CASE s \notin Existing /\ s \notin volume
  BY <1>1, <1>4 DEF RemoveVolume, PromiseStep, Promise!engines
<1> QED
  BY <1>2, <1>3, <1>4

\* A start runs its stage.
LEMMA StartRuns ==
    ASSUME EpochInv, StartUp
    PROVE  PromiseStep
<1> DEFINE s == starter.stage
<1>1. s \in Stages
  BY DEF EpochInv, StarterRight, StartUp
<1>2. Running' = Running \union {s} /\ volume' = volume \union {s} /\ now' = now
  BY <1>1 DEF StartUp, Running, EpochInv, TypeOK
<1>3. Promise!Run(s)
  BY <1>2 DEF Promise!Run
<1> QED
  BY <1>1, <1>3 DEF PromiseStep, Promise!Next, Promise!Stages, Stages

LEMMA StepKeepsPromise == ASSUME EpochInv, [Next]_vars PROVE PromiseStep
<1> USE DEF objects, others
<1>1. ASSUME NEW r \in Retirers, Retire(r) PROVE PromiseStep
  <2>1. CASE \E s \in Stages : RemoveVolume(r, s)
    BY <2>1, RemovalIsDisposal
  <2>2. CASE RetireStop(r)
    BY <2>2, NoneStarted, StoppingKeeps DEF RetireStop, EpochInv
  <2>3. ASSUME NEW s \in Stages, RemoveBox(r, s) PROVE PromiseStep
    <3>1. Running' \subseteq Running
      BY <2>3 DEF RemoveBox, Running, EpochInv, TypeOK
    <3> QED
      BY <2>3, <3>1, NoneStarted DEF RemoveBox
  <2>4. CASE \/ RetireBegin(r) \/ RetireInspect(r) \/ BoxesRemoved(r) \/ VolumesRemoved(r)
             \/ RetireReceipt(r) \/ RetiredAdmit(r)
    <3>1. UNCHANGED <<now, box, volume>>
      BY <2>4 DEF RetireBegin, RetireInspect, BoxesRemoved, VolumesRemoved, RetireReceipt, RetiredAdmit
    <3> QED
      BY <3>1, NoneStarted DEF Running
  <2> QED
    BY <1>1, <2>1, <2>2, <2>3, <2>4 DEF Retire
<1>2. CASE StartUp
  BY <1>2, StartRuns
<1>3. CASE WatchEnds \/ Stop \/ StartVerify \/ StarterFails
  <2>1. UNCHANGED <<now, volume>> /\ (box' = box \/ box' = Halted \/ Stopping)
    BY <1>3 DEF WatchEnds, Stop, StartVerify, StarterFails
  <2> QED
    BY <2>1, NoneStarted, StoppingKeeps DEF EpochInv
<1>4. ASSUME NEW s \in Stages, GuardExits(s) \/ BoxDies(s) PROVE PromiseStep
  <2>1. Running' \subseteq Running
    BY <1>4 DEF GuardExits, BoxDies, Running, EpochInv, TypeOK
  <2> QED
    BY <1>4, <2>1, NoneStarted DEF GuardExits, BoxDies
<1>5. CASE Tick
  <2>1. Promise!Pass
    BY <1>5 DEF Tick, Promise!Pass, Running
  <2> QED
    BY <2>1 DEF PromiseStep, Promise!Next
<1>6. CASE \/ \E r \in Retirers : RetirerFails(r)
           \/ \E s \in Stages : StartBegin(s)
           \/ WatchGivesUp \/ StartInspect \/ StartGate \/ Sync \/ Alien \/ UNCHANGED vars
  <2>1. UNCHANGED <<now, box, volume>>
    BY <1>6 DEF RetirerFails, StartBegin, WatchGivesUp, StartInspect, StartGate, Sync, Alien, vars
  <2> QED
    BY <2>1, NoneStarted DEF Running
<1> QED
  BY <1>1, <1>2, <1>3, <1>4, <1>5, <1>6 DEF Next, Start

\* Whatever is stopped, dies or fails: data exists from the first start of its stage to the
\* deadline and is never removed under a running engine (module Engines).  Nothing is said of
\* engines after the deadline: a start that was slow may run them then.
THEOREM PromiseKept == Spec => KeepsPromise
<1>1. Init => Promise!Init
  BY DEF Init, Promise!Init, Running, Stages
<1>2. EpochInv /\ [Next]_vars => PromiseStep
  BY StepKeepsPromise
<1> QED
  BY <1>1, <1>2, EpochSafe, PTL DEF Spec, KeepsPromise

-----------------------------------------------------------------------------
(* The journal. *)

Event == [run : Attempts, state : Outcomes \union {"START"}]

\* What the argument uses of the types: the journal holds events, an attempt is closed by name.
LogTypeOK ==
    /\ task \in [Attempts -> Outcomes \union {"none", "captured", "uncaptured", "over"}]
    /\ result \in [Attempts -> Outcomes \union {"none"}]
    /\ verdict \subseteq Attempts
    /\ events \in [Copies -> Seq(Event)]
    /\ closing \in Attempts \union {NoAttempt}

\* An attempt that has not begun has no event, a process knows the end of its own work, and an
\* attempt being closed was given up before.
JournalInv ==
    /\ LogTypeOK
    /\ OneTrueOutcome
    /\ \A a \in Attempts, s \in Outcomes \union {"START"} : Recorded(a, s) => task[a] # "none"
    /\ \A a \in Attempts : /\ task[a] \in {"none", "captured"} => result[a] = "none"
                           /\ task[a] \in Outcomes => result[a] = task[a]
    /\ closing # NoAttempt => closing \in verdict

\* An append adds its event or nothing (Journal.append).
LEMMA AppendsOne ==
    ASSUME LogTypeOK, NEW a \in Attempts, NEW s \in Outcomes \union {"START"}
    PROVE  /\ Appended(a, s) \in [Copies -> Seq(Event)]
           /\ ~ Legal(a, s) => Appended(a, s)["journal"] = Journal
           /\ Legal(a, s) =>
                ToSet(Appended(a, s)["journal"]) = ToSet(Journal) \union {[run |-> a, state |-> s]}
<1> DEFINE e == [run |-> a, state |-> s]
<1>1. e \in Event /\ Journal \in Seq(Event) /\ "journal" \in Copies
  BY DEF LogTypeOK, Event, Journal, Copies
<1>2. Journal \o <<e>> \in Seq(Event)
  BY <1>1
<1>3. ToSet(Journal \o <<e>>) = ToSet(Journal) \union {e}
  <2> DEFINE J == Journal
             K == Journal \o <<e>>
  <2>1. /\ DOMAIN J = 1..Len(J) /\ DOMAIN K = 1..(Len(J) + 1) /\ Len(J) \in Nat
        /\ \A i \in 1..Len(J) : K[i] = J[i]
        /\ K[Len(J) + 1] = e
    BY <1>1, <1>2
  <2> HIDE DEF J, K, e
  <2>2. ToSet(K) = ToSet(J) \union {e}
    BY <2>1 DEF ToSet
  <2> QED
    BY <2>2 DEF J, K
<1>4. CASE ~ Legal(a, s)
  BY <1>4, <1>1 DEF Appended, LogTypeOK, Journal
<1>5. CASE Legal(a, s)
  BY <1>5, <1>1, <1>2, <1>3 DEF Appended, LogTypeOK, Journal
<1> QED
  BY <1>4, <1>5

\* The states of an attempt in terms of what is recorded.
LEMMA StatesAreRecorded ==
    ASSUME LogTypeOK, NEW a \in Attempts
    PROVE  /\ States(a) \subseteq Outcomes \union {"START"}
           /\ \A s : s \in States(a) <=> Recorded(a, s)
<1>1. Journal \in Seq(Event)
  BY DEF LogTypeOK, Journal, Copies
<1>2. \A f \in ToSet(Journal) : f \in Event
  BY <1>1 DEF ToSet
<1>3. ASSUME NEW s PROVE s \in States(a) <=> Recorded(a, s)
  <2>1. ASSUME s \in States(a) PROVE Recorded(a, s)
    <3>1. PICK f \in ToSet(Journal) : f.run = a /\ f.state = s
      BY <2>1 DEF States
    <3>2. f = [run |-> a, state |-> s]
      BY <3>1, <1>2 DEF Event
    <3> QED
      BY <3>1, <3>2 DEF Recorded
  <2>2. ASSUME Recorded(a, s) PROVE s \in States(a)
    BY <2>2 DEF Recorded, States
  <2> QED
    BY <2>1, <2>2
<1>4. States(a) \subseteq Outcomes \union {"START"}
  BY <1>2 DEF States, Event
<1> QED
  BY <1>3, <1>4

\* A transaction of the journal records what it appends if that is legal: a start of an
\* attempt without events, an outcome of one that has started and has no outcome.
LEMMA AppendStep ==
    ASSUME LogTypeOK, NEW a \in Attempts, NEW s \in Outcomes \union {"START"},
           events' = Appended(a, s)
    PROVE  /\ events' \in [Copies -> Seq(Event)]
           /\ \A b, t : Recorded(b, t) => Recorded(b, t)'
           /\ \A b, t : Recorded(b, t)' => \/ Recorded(b, t)
                                           \/ b = a /\ t = s /\ Legal(a, s)
           /\ Legal(a, s) => /\ \A o \in Outcomes : ~ Recorded(a, o)
                             /\ s \in Outcomes => Recorded(a, "START")
<1>1. Journal' = Appended(a, s)["journal"]
  BY DEF Journal
<1>2. ~ Legal(a, s) => ToSet(Journal') = ToSet(Journal)
  BY <1>1, AppendsOne
<1>3. Legal(a, s) => ToSet(Journal') = ToSet(Journal) \union {[run |-> a, state |-> s]}
  BY <1>1, AppendsOne
<1>4. Legal(a, s) => /\ \A o \in Outcomes : ~ Recorded(a, o)
                     /\ s \in Outcomes => Recorded(a, "START")
  BY StatesAreRecorded DEF Legal, Outcomes
<1>5. \A b, t : Recorded(b, t) => Recorded(b, t)'
  BY <1>2, <1>3 DEF Recorded
<1>6. \A b, t : Recorded(b, t)' => \/ Recorded(b, t)
                                   \/ b = a /\ t = s /\ Legal(a, s)
  BY <1>2, <1>3 DEF Recorded
<1>7. events' \in [Copies -> Seq(Event)]
  BY AppendsOne
<1> QED
  BY <1>4, <1>5, <1>6, <1>7

\* Steps that leave the journal alone leave what is recorded alone.
LEMMA JournalKept ==
    ASSUME events'["journal"] = events["journal"]
    PROVE  \A b, t : Recorded(b, t)' <=> Recorded(b, t)
  BY DEF Recorded, Journal

LEMMA Inductive ==
    ASSUME JournalInv, [JournalNext]_journalVars
    PROVE  JournalInv'
<1> USE DEF JournalInv, LogTypeOK, OneTrueOutcome
<1>1. ASSUME NEW a \in Attempts, Enter(a) PROVE JournalInv'
  <2>1. CASE events' = Appended(a, "START") /\ task' = [task EXCEPT ![a] = "captured"]
    BY <1>1, <2>1, AppendStep DEF Enter, Outcomes
  <2>2. CASE UNCHANGED events /\ task' = [task EXCEPT ![a] = "uncaptured"]
    BY <1>1, <2>2, JournalKept DEF Enter, Outcomes
  <2> QED
    BY <1>1, <2>1, <2>2 DEF Enter
<1>2. ASSUME NEW a \in Attempts, NEW o \in Outcomes, Work(a, o) PROVE JournalInv'
  BY <1>2, JournalKept DEF Work, Outcomes
<1>3. ASSUME NEW a \in Attempts, Exit(a) PROVE JournalInv'
  BY <1>3, AppendStep DEF Exit, Outcomes
<1>4. ASSUME NEW a \in Attempts, Die(a) PROVE JournalInv'
  BY <1>4, JournalKept DEF Die, Outcomes
<1>5. ASSUME NEW a \in Attempts, GiveUp(a) PROVE JournalInv'
  BY <1>5, JournalKept DEF GiveUp, Outcomes
<1>6. CASE ReconcileRead
  BY <1>6, JournalKept DEF ReconcileRead, Open, Outcomes
<1>7. CASE ReconcileAppend
  BY <1>7, AppendStep DEF ReconcileAppend, Outcomes
<1>8. CASE Export
  <2>1. events'["journal"] = events["journal"] /\ events' \in [Copies -> Seq(Event)]
    BY <1>8 DEF Export, Copies, Journal
  <2> QED
    BY <1>8, <2>1, JournalKept DEF Export
<1>9. CASE Import \/ (\E c \in Copies : Deliver(c) \/ FlushFails(c)) \/ UNCHANGED journalVars
  BY <1>9, JournalKept
     DEF Import, Deliver, FlushBegin, Post, Acknowledge, FlushFails, journalVars
<1> QED
  BY <1>1, <1>2, <1>3, <1>4, <1>5, <1>6, <1>7, <1>8, <1>9 DEF JournalNext

LEMMA InitInvariant == ASSUME JournalInit PROVE JournalInv
<1>1. Journal = << >> /\ LogTypeOK
  BY DEF JournalInit, LogTypeOK, Journal, Copies
<1>2. ToSet(<< >>) = {}
  BY DEF ToSet
<1>3. \A a, s : ~ Recorded(a, s)
  BY <1>1, <1>2 DEF Recorded
<1> QED
  BY <1>1, <1>3 DEF JournalInit, JournalInv, OneTrueOutcome

-----------------------------------------------------------------------------
(* Delivery. *)

Working == [pc : {"send", "acknowledge"}, todo : SUBSET Nat]

\* In each copy the start of an attempt comes before its outcome.
StartsFirst ==
    \A c \in Copies : \A i \in DOMAIN events[c] :
        events[c][i].state \in Outcomes =>
            \E j \in DOMAIN events[c] : j < i /\ events[c][j] = [run |-> events[c][i].run, state |-> "START"]

\* A delivery works off what it found pending in order: whatever comes before is
\* acknowledged or still to be sent.
FlushRight(c) ==
    flush[c] # Quiet =>
        /\ flush[c].todo # {} /\ flush[c].todo \subseteq DOMAIN events[c]
        /\ \A i \in flush[c].todo, j \in DOMAIN events[c] : j < i => j \in acked[c] \union flush[c].todo
        /\ flush[c].pc = "acknowledge" => events[c][First(c)] \in arrived

DInv ==
    /\ flush \in [Copies -> {Quiet} \union Working]
    /\ acked \in [Copies -> SUBSET Nat]
    /\ \A c \in Copies : acked[c] \subseteq DOMAIN events[c]
    /\ StartsFirst
    /\ \A c \in Copies : FlushRight(c)
    /\ AcknowledgedArrived

LEMMA Smaller ==
    ASSUME NEW x \in Nat, NEW y \in Nat, x < y
    PROVE  <<x, y>> \in OpToRel(<, Nat)
  BY Zenon DEF OpToRel

LEMMA MinProperty ==
    ASSUME NEW S, S \subseteq Nat, S # {}
    PROVE  Min(S) \in S /\ \A y \in S : Min(S) <= y
<1>1. PICK x \in S : \A y \in S : ~ (<<y, x>> \in OpToRel(<, Nat))
  BY WFMin, NatLessThanWellFounded
<1>2. \A y \in S : ~ (y < x)
  BY <1>1, Smaller, Zenon
<1>3. \A y \in S : x <= y
  BY <1>2
<1> QED
  BY <1>3 DEF Min

\* The events of a copy stay where they are.
Grows == \A c \in Copies : \A i \in DOMAIN events[c] : i \in DOMAIN events'[c] /\ events'[c][i] = events[c][i]

LEMMA CopyShape ==
    ASSUME LogTypeOK, NEW c \in Copies
    PROVE  /\ DOMAIN events[c] \subseteq Nat
           /\ \A i \in DOMAIN events[c] : events[c][i] \in Event
<1>1. events[c] \in Seq(Event)
  BY DEF LogTypeOK
<1> QED
  BY <1>1

LEMMA PrefixPlaces ==
    ASSUME NEW S, NEW s \in Seq(S), NEW t \in Seq(S), IsPrefix(s, t)
    PROVE  \A i \in DOMAIN s : i \in DOMAIN t /\ t[i] = s[i]
<1>1. Len(s) \in Nat /\ Len(t) \in Nat /\ Len(s) <= Len(t) /\ DOMAIN s = 1..Len(s) /\ DOMAIN t = 1..Len(t)
  BY DEF IsPrefix
<1>2. SubSeq(s, 1, Len(s)) = SubSeq(t, 1, Len(s))
  BY DEF IsPrefix
<1>3. \A i \in 1..Len(s) : SubSeq(s, 1, Len(s))[i] = s[i] /\ SubSeq(t, 1, Len(s))[i] = t[i]
  BY <1>1
<1> QED
  BY <1>1, <1>2, <1>3

\* An append leaves the other events in their places, and puts an outcome behind its start.
LEMMA AppendGrows ==
    ASSUME LogTypeOK, StartsFirst, NEW a \in Attempts, NEW s \in Outcomes \union {"START"},
           events' = Appended(a, s)
    PROVE  Grows /\ StartsFirst'
<1> DEFINE e == [run |-> a, state |-> s]
           n == Len(Journal) + 1
<1>1. e \in Event /\ Journal \in Seq(Event) /\ "journal" \in Copies
  BY DEF LogTypeOK, Event, Journal, Copies
<1>2. CASE ~ Legal(a, s)
  <2>1. events' = events
    BY <1>2 DEF Appended
  <2> QED
    BY <2>1 DEF Grows, StartsFirst
<1>3. CASE Legal(a, s)
  <2>1. events' = [events EXCEPT !["journal"] = Journal \o <<e>>]
    BY <1>3 DEF Appended, Journal
  <2>2. \A c \in Copies : c # "journal" => events'[c] = events[c]
    BY <2>1 DEF LogTypeOK
  <2>3. events'["journal"] = Journal \o <<e>>
    BY <1>1, <2>1 DEF LogTypeOK
  <2>4. /\ DOMAIN Journal = 1..Len(Journal) /\ Len(Journal) \in Nat
        /\ DOMAIN events'["journal"] = 1..n
        /\ \A i \in 1..Len(Journal) : events'["journal"][i] = Journal[i]
        /\ events'["journal"][n] = e
    BY <1>1, <2>3
  <2> HIDE DEF e
  <2>5. Grows
    BY <2>2, <2>4 DEF Grows, Journal
  <2>6. s \in Outcomes => \E j \in DOMAIN Journal : Journal[j] = [run |-> a, state |-> "START"]
    <3>1. s \in Outcomes => Recorded(a, "START")
      BY <1>3, StatesAreRecorded DEF Legal, Outcomes
    <3> QED
      BY <3>1 DEF Recorded, ToSet
  <2>7. StartsFirst'
    <3> SUFFICES ASSUME NEW c \in Copies, NEW i \in DOMAIN events'[c], events'[c][i].state \in Outcomes
                 PROVE  \E j \in DOMAIN events'[c] :
                            j < i /\ events'[c][j] = [run |-> events'[c][i].run, state |-> "START"]
      BY DEF StartsFirst
    <3>1. CASE i \in DOMAIN events[c]
      BY <2>5, <3>1 DEF StartsFirst, Grows
    <3>2. CASE i \notin DOMAIN events[c]
      <4>1. c = "journal" /\ i = n /\ events'[c][i] = e
        BY <2>2, <2>4, <3>2 DEF Journal
      <4>2. s \in Outcomes /\ e.run = a
        BY <4>1 DEF e
      <4>3. PICK j \in DOMAIN Journal : Journal[j] = [run |-> a, state |-> "START"]
        BY <2>6, <4>2
      <4> QED
        BY <2>4, <4>1, <4>2, <4>3
    <3> QED
      BY <3>1, <3>2
  <2> QED
    BY <2>5, <2>7
<1> QED
  BY <1>2, <1>3

\* The event that a delivery sends: its start has arrived.
LEMMA FirstIsRight ==
    ASSUME LogTypeOK, DInv, NEW c \in Copies, flush[c] # Quiet
    PROVE  /\ First(c) \in flush[c].todo /\ First(c) \in DOMAIN events[c]
           /\ events[c][First(c)] \in Event
           /\ events[c][First(c)].state \in Outcomes =>
                [run |-> events[c][First(c)].run, state |-> "START"] \in arrived
<1>1. flush[c].todo # {} /\ flush[c].todo \subseteq DOMAIN events[c] /\ DOMAIN events[c] \subseteq Nat
  BY CopyShape DEF DInv, FlushRight
<1>2. First(c) \in flush[c].todo /\ \A y \in flush[c].todo : First(c) <= y
  <2>1. flush[c].todo \subseteq Nat
    BY <1>1
  <2> QED
    BY <1>1, <2>1, MinProperty DEF First
<1>3. First(c) \in DOMAIN events[c] /\ events[c][First(c)] \in Event
  BY <1>1, <1>2, CopyShape
<1>4. ASSUME events[c][First(c)].state \in Outcomes
      PROVE  [run |-> events[c][First(c)].run, state |-> "START"] \in arrived
  <2>1. PICK j \in DOMAIN events[c] :
            j < First(c) /\ events[c][j] = [run |-> events[c][First(c)].run, state |-> "START"]
    BY <1>3, <1>4 DEF DInv, StartsFirst
  <2>2. j \notin flush[c].todo
    BY <1>1, <1>2, <2>1
  <2>3. j \in acked[c]
    BY <1>2, <2>1, <2>2 DEF DInv, FlushRight
  <2> QED
    BY <2>1, <2>3 DEF DInv, AcknowledgedArrived
<1> QED
  BY <1>2, <1>3, <1>4

LEMMA DeliveryStep ==
    ASSUME JournalInv, DInv, [JournalNext]_journalVars
    PROVE  DInv'
<1> USE DEF Quiet
<1>a. LogTypeOK /\ LogTypeOK'
  BY Inductive DEF JournalInv
<1>1. CASE UNCHANGED <<events, flush, acked, arrived>>
  BY <1>1 DEF DInv, StartsFirst, FlushRight, First, AcknowledgedArrived
<1>2. CASE UNCHANGED <<flush, acked, arrived>> /\ Grows /\ StartsFirst'
  <2>1. \A c \in Copies : acked'[c] \subseteq DOMAIN events'[c]
    BY <1>2 DEF DInv, Grows
  <2>2. AcknowledgedArrived'
    BY <1>2 DEF DInv, Grows, AcknowledgedArrived
  <2>3. ASSUME NEW c \in Copies PROVE FlushRight(c)'
    <3> SUFFICES ASSUME flush[c] # Quiet PROVE FlushRight(c)'
      BY <1>2 DEF FlushRight
    <3>1. First(c)' = First(c) /\ First(c) \in DOMAIN events[c]
      BY <1>2, <1>a, FirstIsRight DEF First
    <3>2. \A i \in flush[c].todo, j \in DOMAIN events'[c] : j < i => j \in DOMAIN events[c]
      <4>1. events[c] \in Seq(Event) /\ events'[c] \in Seq(Event)
        BY <1>a DEF LogTypeOK
      <4>2. flush[c].todo \subseteq DOMAIN events[c]
        BY DEF DInv, FlushRight
      <4> QED
        BY <4>1, <4>2
    <3> QED
      BY <1>2, <3>1, <3>2 DEF DInv, FlushRight, Grows
  <2> QED
    BY <1>2, <2>1, <2>2, <2>3 DEF DInv
<1>3. ASSUME NEW a \in Attempts, NEW s \in Outcomes \union {"START"}, events' = Appended(a, s),
             UNCHANGED <<flush, acked, arrived>>
      PROVE  DInv'
  BY <1>2, <1>3, <1>a, AppendGrows DEF DInv
<1>4. CASE Export
  <2>1. /\ events["export"] = << >> /\ events' = [events EXCEPT !["export"] = Journal]
        /\ acked' = [acked EXCEPT !["export"] = acked["journal"]] /\ UNCHANGED <<flush, arrived>>
    BY <1>4 DEF Export
  <2>2. flush["export"] = Quiet
    BY <2>1 DEF DInv, FlushRight, Copies
  <2>3. /\ events'["journal"] = events["journal"] /\ events'["export"] = events["journal"]
        /\ acked'["journal"] = acked["journal"] /\ acked'["export"] = acked["journal"]
        /\ acked' \in [Copies -> SUBSET Nat]
    BY <2>1, <1>a DEF LogTypeOK, DInv, Copies, Journal
  <2>4. \A c \in Copies : FlushRight(c)'
    <3> TAKE c \in Copies
    <3>1. CASE c = "export"
      BY <2>1, <2>2, <3>1 DEF FlushRight
    <3>2. CASE c = "journal"
      BY <2>1, <2>3, <3>2 DEF FlushRight, First, DInv
    <3> QED
      BY <3>1, <3>2 DEF Copies
  <2>5. StartsFirst'
    BY <2>3 DEF DInv, StartsFirst, Copies
  <2>6. AcknowledgedArrived' /\ \A c \in Copies : acked'[c] \subseteq DOMAIN events'[c]
    BY <2>1, <2>3 DEF DInv, AcknowledgedArrived, Copies
  <2> QED
    BY <2>1, <2>3, <2>4, <2>5, <2>6 DEF DInv
<1>5. CASE Import
  <2>1. /\ IsPrefix(events["export"], Journal) /\ UNCHANGED <<events, flush, arrived>>
        /\ acked' = [acked EXCEPT !["journal"] = @ \union acked["export"]]
    BY <1>5 DEF Import
  <2>2. \A i \in DOMAIN events["export"] : i \in DOMAIN Journal /\ Journal[i] = events["export"][i]
    <3>1. events["export"] \in Seq(Event) /\ Journal \in Seq(Event)
      BY <1>a DEF LogTypeOK, Journal, Copies
    <3> QED
      BY <2>1, <3>1, PrefixPlaces
  <2>3. /\ acked'["journal"] = acked["journal"] \union acked["export"] /\ acked'["export"] = acked["export"]
        /\ acked' \in [Copies -> SUBSET Nat]
    BY <2>1 DEF DInv, Copies
  <2>4. AcknowledgedArrived' /\ \A c \in Copies : acked'[c] \subseteq DOMAIN events'[c]
    BY <2>1, <2>2, <2>3 DEF DInv, AcknowledgedArrived, Copies, Journal
  <2>5. \A c \in Copies : acked[c] \subseteq acked'[c]
    BY <2>3 DEF Copies
  <2>6. \A c \in Copies : FlushRight(c)'
    BY <2>1, <2>5 DEF DInv, FlushRight, First
  <2> QED
    BY <2>1, <2>3, <2>4, <2>6 DEF DInv, StartsFirst
<1>6. ASSUME NEW c \in Copies, FlushBegin(c) PROVE DInv'
  <2>1. /\ Pending(c) # {} /\ flush' = [flush EXCEPT ![c] = [pc |-> "send", todo |-> Pending(c)]]
        /\ UNCHANGED <<events, acked, arrived>>
    BY <1>6 DEF FlushBegin
  <2>2. Pending(c) \subseteq DOMAIN events[c] /\ DOMAIN events[c] \subseteq Nat
    BY <1>a, CopyShape DEF Pending
  <2>3. /\ flush' \in [Copies -> {Quiet} \union Working] /\ flush'[c] = [pc |-> "send", todo |-> Pending(c)]
        /\ \A d \in Copies : d # c => flush'[d] = flush[d]
    BY <2>1, <2>2 DEF DInv, Working
  <2>4. \A d \in Copies : FlushRight(d)'
    <3> TAKE d \in Copies
    <3>1. CASE d = c
      BY <2>1, <2>2, <2>3, <3>1 DEF FlushRight, Pending
    <3>2. CASE d # c
      BY <2>1, <2>3, <3>2 DEF FlushRight, First, DInv
    <3> QED
      BY <3>1, <3>2
  <2> QED
    BY <2>1, <2>3, <2>4 DEF DInv, StartsFirst, AcknowledgedArrived
<1>7. ASSUME NEW c \in Copies, Post(c) PROVE DInv'
  <2> DEFINE e == events[c][First(c)]
  <2>1. /\ flush[c].pc = "send" /\ arrived' = arrived \union {e}
        /\ flush' = [flush EXCEPT ![c].pc = "acknowledge"] /\ UNCHANGED <<events, acked>>
    BY <1>7 DEF Post
  <2>2. flush[c] # Quiet /\ flush[c] \in Working
    BY <2>1 DEF DInv
  <2>3. e \in Event /\ (e.state \in Outcomes => [run |-> e.run, state |-> "START"] \in arrived)
    BY <1>a, <2>2, FirstIsRight
  <2>4. /\ flush' \in [Copies -> {Quiet} \union Working]
        /\ flush'[c] = [pc |-> "acknowledge", todo |-> flush[c].todo]
        /\ \A d \in Copies : d # c => flush'[d] = flush[d]
    BY <2>1, <2>2 DEF DInv, Working
  <2>5. First(c)' = First(c)
    BY <2>4 DEF First
  <2> HIDE DEF e
  <2>6. \A d \in Copies : FlushRight(d)'
    <3> TAKE d \in Copies
    <3>1. CASE d = c
      <4>1. (events[c][First(c)] \in arrived)'
        BY <2>1, <2>5 DEF e
      <4>2. FlushRight(c)
        BY DEF DInv
      <4>3. FlushRight(c)'
        BY <2>1, <2>2, <2>4, <4>1, <4>2 DEF FlushRight
      <4> QED
        BY <3>1, <4>3
    <3>2. CASE d # c
      BY <2>1, <2>4, <3>2 DEF FlushRight, First, DInv
    <3> QED
      BY <3>1, <3>2
  <2>7. AcknowledgedArrived'
    <3>1. [run |-> e.run, state |-> "START"] \in arrived'
      <4>1. CASE e.state \in Outcomes
        BY <2>1, <2>3, <4>1
      <4>2. CASE e.state \notin Outcomes
        BY <2>1, <2>3, <4>2 DEF Event
      <4> QED
        BY <4>1, <4>2
    <3> QED
      BY <2>1, <3>1 DEF DInv, AcknowledgedArrived
  <2> QED
    BY <2>1, <2>4, <2>6, <2>7 DEF DInv, StartsFirst
<1>8. ASSUME NEW c \in Copies, Acknowledge(c) PROVE DInv'
  <2> DEFINE f == First(c)
             rest == flush[c].todo \ {f}
  <2>1. /\ flush[c].pc = "acknowledge" /\ acked' = [acked EXCEPT ![c] = acked[c] \union {f}]
        /\ flush' = [flush EXCEPT ![c] = IF rest = {} THEN Quiet ELSE [pc |-> "send", todo |-> rest]]
        /\ UNCHANGED <<events, arrived>>
    BY <1>8 DEF Acknowledge, Acked
  <2>2. flush[c] # Quiet /\ flush[c] \in Working
    BY <2>1 DEF DInv
  <2>3. f \in DOMAIN events[c] /\ f \in Nat /\ events[c][f] \in arrived
    BY <1>a, <2>1, <2>2, FirstIsRight, CopyShape DEF DInv, FlushRight
  <2>4. /\ flush' \in [Copies -> {Quiet} \union Working]
        /\ flush'[c] = (IF rest = {} THEN Quiet ELSE [pc |-> "send", todo |-> rest])
        /\ \A d \in Copies : d # c => flush'[d] = flush[d]
    BY <2>1, <2>2 DEF DInv, Working
  <2>5. /\ acked' \in [Copies -> SUBSET Nat] /\ acked'[c] = acked[c] \union {f}
        /\ \A d \in Copies : d # c => acked'[d] = acked[d]
    BY <2>1, <2>3 DEF DInv
  <2> HIDE DEF f
  <2>6. \A d \in Copies : FlushRight(d)'
    <3> TAKE d \in Copies
    <3>1. CASE d = c
      BY <2>1, <2>2, <2>4, <2>5, <3>1 DEF FlushRight, DInv
    <3>2. CASE d # c
      BY <2>1, <2>4, <2>5, <3>2 DEF FlushRight, First, DInv
    <3> QED
      BY <3>1, <3>2
  <2>7. AcknowledgedArrived' /\ \A d \in Copies : acked'[d] \subseteq DOMAIN events'[d]
    BY <2>1, <2>3, <2>5 DEF DInv, AcknowledgedArrived
  <2>8. StartsFirst'
    BY <2>1 DEF DInv, StartsFirst
  <2> QED
    BY <2>4, <2>5, <2>6, <2>7, <2>8 DEF DInv
<1>9. ASSUME NEW c \in Copies, FlushFails(c) PROVE DInv'
  <2>1. /\ flush' = [flush EXCEPT ![c] = Quiet] /\ UNCHANGED <<events, acked, arrived>>
    BY <1>9 DEF FlushFails
  <2>2. /\ flush' \in [Copies -> {Quiet} \union Working] /\ flush'[c] = Quiet
        /\ \A d \in Copies : d # c => flush'[d] = flush[d]
    BY <2>1 DEF DInv
  <2>3. \A d \in Copies : FlushRight(d)'
    BY <2>1, <2>2 DEF FlushRight, First, DInv
  <2> QED
    BY <2>1, <2>2, <2>3 DEF DInv, StartsFirst, AcknowledgedArrived
<1>10. ASSUME NEW a \in Attempts, Enter(a) \/ Exit(a) \/ Die(a) \/ GiveUp(a) \/ \E o \in Outcomes : Work(a, o)
       PROVE  DInv'
  BY <1>1, <1>3, <1>10 DEF Enter, Exit, Die, GiveUp, Work
<1>11. CASE ReconcileRead \/ ReconcileAppend \/ UNCHANGED journalVars
  <2>1. CASE ReconcileAppend
    <3>1. closing \in Attempts /\ "FAIL" \in Outcomes
      BY <2>1, <1>a DEF ReconcileAppend, LogTypeOK, Outcomes
    <3> QED
      BY <1>3, <2>1, <3>1 DEF ReconcileAppend
  <2> QED
    BY <1>1, <1>11, <2>1 DEF ReconcileRead, journalVars
<1> QED
  BY <1>4, <1>5, <1>6, <1>7, <1>8, <1>9, <1>10, <1>11 DEF JournalNext, Deliver

\* An attempt has one outcome at most, COMPLETE only if its work did complete and FAIL only if it
\* failed or was given up; what either copy acknowledges has arrived, and the service hears of no
\* outcome before its start, whichever copy is delivered, lost or repeated (Journal.append,
\* Capture.__exit__, reconcile_failed, flush, Journal.acknowledge).
THEOREM JournalIsTrue == JournalSpec => []JournalTrue
<1>1. ASSUME JournalInit PROVE JournalInv /\ DInv
  <2>1. JournalInv
    BY <1>1, InitInvariant
  <2>2. DInv
    BY <1>1 DEF JournalInit, DInv, StartsFirst, FlushRight, AcknowledgedArrived
  <2> QED
    BY <2>1, <2>2
<1>2. JournalInv /\ DInv /\ [JournalNext]_journalVars => JournalInv' /\ DInv'
  BY Inductive, DeliveryStep
<1>3. JournalInv /\ DInv => JournalTrue
  BY DEF JournalInv, DInv, JournalTrue
<1> QED
  BY <1>1, <1>2, <1>3, PTL DEF JournalSpec

-----------------------------------------------------------------------------
(* The browser adapter. *)

\* Events made under one of the identities W; nothing is sent a third time.
Of(W) == [id : Nat, who : W, attempt : 0..1]

BrowserTypes ==
    /\ clock \in Nat /\ consent \in Nat /\ stored \in {None} \union Nat
    /\ tab \in [Tabs -> {"closed", "off", "on"}]
    /\ mind \in [Tabs -> {None} \union Nat]
    /\ queue \in [Tabs -> Seq(Of(Nat))] /\ flight \in [Tabs -> Seq(Of(Nat))]
    /\ timer \in [Tabs -> BOOLEAN]
    /\ notice \subseteq Tabs
    /\ withdrawals \in Nat /\ overlap \in BOOLEAN /\ made \in Nat

\* The part of the queue's state that an adapter is responsible for.
QueueRight ==
    \A t \in Tabs :
        /\ tab[t] # "on" => queue[t] = << >> /\ flight[t] = << >> /\ ~ timer[t] /\ mind[t] = None
        /\ queue[t] # << >> => timer[t] \/ flight[t] # << >>
        /\ Len(queue[t]) <= Capacity

\* A tab that goes on without consent has a storage event before it.
WithdrawalKnown ==
    consent = 0 => stored = None /\ \A t \in Tabs : tab[t] = "on" => t \in notice

\* All that is known under a consent is of that consent.
IdentityRight ==
    ~ overlap /\ consent > 0 =>
        /\ stored \in {None, withdrawals}
        /\ \A t \in Tabs : /\ mind[t] \in {None, withdrawals}
                           /\ queue[t] \in Seq(Of({withdrawals})) /\ flight[t] \in Seq(Of({withdrawals}))

BrowserInv == BrowserTypes /\ QueueRight /\ WithdrawalKnown /\ IdentityRight

-----------------------------------------------------------------------------
(* Queues. *)

LEMMA SmallerOfTwo ==
    ASSUME NEW a \in Nat, NEW b \in Nat
    PROVE  Min({a, b}) \in Nat /\ Min({a, b}) <= a /\ Min({a, b}) <= b /\ Min({a, b}) \in {a, b}
<1>1. \E x \in {a, b} : \A y \in {a, b} : x <= y
    BY a <= b \/ b <= a
<1>2. Min({a, b}) \in {a, b} /\ \A y \in {a, b} : Min({a, b}) <= y
    BY <1>1 DEF Min
<1>. QED  BY <1>2

\* A part of a sequence is a sequence of the same kind.
LEMMA PartType ==
    ASSUME NEW S, NEW s \in Seq(S), NEW m \in Nat \ {0}, NEW n \in Nat, n <= Len(s)
    PROVE  /\ SubSeq(s, m, n) \in Seq(S)
           /\ Len(SubSeq(s, m, n)) = IF m <= n THEN n - m + 1 ELSE 0
<1>1. \A i \in m..n : s[i] \in S
    BY LenProperties
<1>. QED  BY <1>1, SubSeqProperties

LEMMA BatchType ==
    ASSUME NEW S, NEW s \in Seq(S), Br!BrowserAssumption
    PROVE  /\ Br!Batch(s) \in Seq(S)
           /\ s # << >> => Br!Batch(s) # << >>
           /\ SubSeq(s, Len(Br!Batch(s)) + 1, Len(s)) \in Seq(S)
           /\ Len(SubSeq(s, Len(Br!Batch(s)) + 1, Len(s))) <= Len(s)
<1>. DEFINE n == Min({BatchSize, Len(s)})
<1>1. Len(s) \in Nat /\ n \in Nat /\ n <= Len(s) /\ n \in {BatchSize, Len(s)}
    BY LenProperties, SmallerOfTwo DEF Br!BrowserAssumption
<1>2. Br!Batch(s) = SubSeq(s, 1, n)
    BY DEF Br!Batch, Br!Min, Min
<1>. HIDE DEF n
<1>3. Br!Batch(s) \in Seq(S) /\ Len(Br!Batch(s)) = n
    BY <1>1, <1>2, PartType
<1>4. s # << >> => n # 0
    BY <1>1, EmptySeq DEF Br!BrowserAssumption
<1>5. SubSeq(s, n + 1, Len(s)) \in Seq(S) /\ Len(SubSeq(s, n + 1, Len(s))) <= Len(s)
    BY <1>1, PartType
<1>. QED  BY <1>3, <1>4, <1>5, EmptySeq

LEMMA CutType ==
    ASSUME NEW S, NEW s \in Seq(S), Br!BrowserAssumption
    PROVE  Br!Cut(s) \in Seq(S) /\ Len(Br!Cut(s)) <= Capacity
<1>. DEFINE n == Min({Capacity, Len(s)})
<1>1. Len(s) \in Nat /\ n \in Nat /\ n <= Len(s) /\ n <= Capacity
    BY LenProperties, SmallerOfTwo DEF Br!BrowserAssumption
<1>2. Br!Cut(s) = SubSeq(s, 1, n)
    BY DEF Br!Cut, Br!Min, Min
<1>. HIDE DEF n
<1>. QED  BY <1>1, <1>2, PartType DEF Br!BrowserAssumption

\* What is sent again is of the same identity, and is sent for the last time.
LEMMA RetriesType ==
    ASSUME NEW W, NEW s \in Seq(Of(W)), NEW again \in Br!Retries(s)
    PROVE  again \in Seq(Of(W))
<1>. DEFINE A == {i \in DOMAIN s : s[i].attempt < 1}
            n == Cardinality(A)
<1>1. PICK f \in Br!Orderings(A, n) : again = [i \in 1..n |-> [s[f[i]] EXCEPT !.attempt = @ + 1]]
    <2>1. Br!Cardinality(A) = Cardinality(A)
        BY DEF Br!Cardinality, Cardinality
    <2>. QED  BY <2>1 DEF Br!Retries
<1>2. n \in Nat
    <2>1. DOMAIN s = 1..Len(s) /\ Len(s) \in Nat
        BY LenProperties
    <2>2. IsFiniteSet(1..Len(s))
        BY <2>1, FS_Interval
    <2>3. IsFiniteSet(A)
        BY <2>1, <2>2, FS_Subset
    <2>. HIDE DEF A
    <2>. QED  BY <2>3, FS_CardinalityType
<1>3. \A i \in 1..n : [s[f[i]] EXCEPT !.attempt = @ + 1] \in Of(W)
    <2>. TAKE i \in 1..n
    <2>1. f[i] \in A
        BY DEF Br!Orderings
    <2>2. s[f[i]] \in Of(W) /\ s[f[i]].attempt < 1
        BY <2>1, LenProperties
    <2>. QED  BY <2>2 DEF Of
<1>. DEFINE e(i) == [s[f[i]] EXCEPT !.attempt = @ + 1]
<1>4. again = [i \in 1..n |-> e(i)] /\ \A i \in 1..n : e(i) \in Of(W)
    BY <1>1, <1>3
<1>. HIDE DEF n, e
<1>5. again \in [1..n -> Of(W)]
    BY <1>4
<1>. QED  BY <1>2, <1>5

-----------------------------------------------------------------------------
(* The handlers. *)

\* Whoever stops, and why: nothing is left in the tab or in storage, and whoever
\* goes on has been told.
LEMMA StopRight ==
    ASSUME Br!BrowserAssumption, BrowserInv, NEW t \in Tabs, Br!Stop(t), UNCHANGED <<clock, overlap, made>>, withdrawals' \in Nat
    PROVE  BrowserInv'
<1>. USE DEF BrowserInv
<1>1. /\ queue' = [queue EXCEPT ![t] = << >>] /\ flight' = [flight EXCEPT ![t] = << >>]
      /\ timer' = [timer EXCEPT ![t] = FALSE] /\ mind' = [mind EXCEPT ![t] = None]
      /\ tab' = [tab EXCEPT ![t] = "off"] /\ consent' = 0 /\ stored' = None
      /\ notice' = IF consent > 0 THEN (notice \ {t}) \union Br!Others(t) ELSE notice \ {t}
    BY DEF Br!Stop, Br!Forget
<1>2. BrowserTypes'
    <2>1. << >> \in Seq(Of(Nat))
        OBVIOUS
    <2>. QED  BY <1>1, <2>1 DEF BrowserTypes, Br!Others
<1>3. QueueRight'
    <2>. SUFFICES ASSUME NEW u \in Tabs
                  PROVE  /\ tab'[u] # "on" => queue'[u] = << >> /\ flight'[u] = << >> /\ ~ timer'[u] /\ mind'[u] = None
                         /\ queue'[u] # << >> => timer'[u] \/ flight'[u] # << >>
                         /\ Len(queue'[u]) <= Capacity
        BY DEF QueueRight
    <2>1. CASE u = t
        <3>1. queue'[u] = << >> /\ flight'[u] = << >> /\ ~ timer'[u] /\ mind'[u] = None
            BY <1>1, <2>1 DEF BrowserTypes
        <3>2. Len(<< >>) <= Capacity
            BY EmptySeq DEF Br!BrowserAssumption
        <3>. QED  BY <3>1, <3>2
    <2>2. CASE u # t
        <3>1. tab'[u] = tab[u] /\ queue'[u] = queue[u] /\ flight'[u] = flight[u] /\ timer'[u] = timer[u] /\ mind'[u] = mind[u]
            BY <1>1, <2>2 DEF BrowserTypes
        <3>. QED  BY <3>1 DEF QueueRight
    <2>. QED  BY <2>1, <2>2
<1>4. WithdrawalKnown'
    <2>. SUFFICES ASSUME NEW u \in Tabs, tab'[u] = "on"
                  PROVE  u \in notice'
        BY <1>1 DEF WithdrawalKnown
    <2>1. u # t /\ tab[u] = "on"
        BY <1>1 DEF BrowserTypes
    <2>2. CASE consent > 0
        BY <1>1, <2>1, <2>2 DEF Br!Others
    <2>3. CASE ~(consent > 0)
        <3>1. consent = 0
            BY <2>3 DEF BrowserTypes
        <3>. QED  BY <1>1, <2>1, <2>3, <3>1 DEF WithdrawalKnown
    <2>. QED  BY <2>2, <2>3
<1>5. IdentityRight'
    BY <1>1 DEF IdentityRight
<1>. QED  BY <1>2, <1>3, <1>4, <1>5

\* A handler that changes what one tab holds, while there is a consent.
LEMMA WorkRight ==
    ASSUME BrowserInv, NEW t \in Tabs, tab[t] = "on", consent > 0,
           UNCHANGED <<clock, consent, tab, notice, withdrawals, overlap>>, made' \in Nat,
           queue' \in [Tabs -> Seq(Of(Nat))], flight' \in [Tabs -> Seq(Of(Nat))],
           timer' \in [Tabs -> BOOLEAN], mind' \in [Tabs -> {None} \union Nat],
           stored' \in {None} \union Nat,
           \A u \in Tabs \ {t} : /\ queue'[u] = queue[u] /\ flight'[u] = flight[u]
                                 /\ timer'[u] = timer[u] /\ mind'[u] = mind[u],
           Len(queue'[t]) <= Capacity, queue'[t] # << >> => timer'[t] \/ flight'[t] # << >>,
           ~ overlap => /\ stored' \in {None, withdrawals} /\ mind'[t] \in {None, withdrawals}
                        /\ queue'[t] \in Seq(Of({withdrawals})) /\ flight'[t] \in Seq(Of({withdrawals}))
    PROVE  BrowserInv'
<1>. USE DEF BrowserInv
<1>1. BrowserTypes'
    BY DEF BrowserTypes
<1>2. QueueRight'
    BY DEF QueueRight
<1>3. WithdrawalKnown'
    BY DEF WithdrawalKnown, BrowserTypes
<1>4. IdentityRight'
    BY DEF IdentityRight
<1>. QED  BY <1>1, <1>2, <1>3, <1>4

LEMMA HandlerStep ==
    ASSUME Br!BrowserAssumption, BrowserInv, NEW t \in Tabs,
           Br!Track(t) \/ Br!Flush(t) \/ Br!Respond(t) \/ Br!RequestFails(t)
    PROVE  BrowserInv'
<1>. USE DEF BrowserInv
<1>. DEFINE W == {withdrawals}
<1>1. CASE Br!Stop(t) /\ UNCHANGED <<clock, withdrawals, overlap, made>>
    BY <1>1, StopRight DEF BrowserTypes
<1>2. /\ queue[t] \in Seq(Of(Nat)) /\ flight[t] \in Seq(Of(Nat)) /\ timer[t] \in BOOLEAN
      /\ mind[t] \in {None} \union Nat /\ stored \in {None} \union Nat /\ clock \in Nat /\ withdrawals \in Nat
      /\ consent \in Nat /\ made \in Nat /\ Len(queue[t]) <= Capacity
    BY DEF BrowserTypes, QueueRight
<1>3. ~ overlap /\ consent > 0 =>
        /\ stored \in {None, withdrawals} /\ mind[t] \in {None, withdrawals}
        /\ queue[t] \in Seq(Of(W)) /\ flight[t] \in Seq(Of(W))
    BY DEF IdentityRight
<1>4. Br!Permitted => consent > 0
    BY <1>2 DEF Br!Permitted
<1>5. CASE Br!Track(t) /\ Br!Permitted
    <2>. DEFINE e == [id |-> made', who |-> Br!Identity(t), attempt |-> 0]
                q == queue[t] \o <<e>>
    <2>1. /\ tab[t] = "on" /\ Len(queue[t]) < Capacity /\ made' = made + 1
          /\ stored' = Br!Identity(t) /\ mind' = [mind EXCEPT ![t] = Br!Identity(t)]
          /\ queue' = [queue EXCEPT ![t] = q] /\ timer' = [timer EXCEPT ![t] = TRUE]
          /\ UNCHANGED <<flight, consent, tab, notice, clock, withdrawals, overlap>>
        BY <1>5 DEF Br!Track
    <2>2. Br!Identity(t) \in Nat
        BY <1>2 DEF Br!Identity
    <2>3. ~ overlap => Br!Identity(t) = withdrawals
        BY <1>3, <1>4, <1>5 DEF Br!Identity
    <2>4. e \in Of(Nat) /\ made' \in Nat
        BY <1>2, <2>1, <2>2 DEF Of
    <2>5. ~ overlap => e \in Of(W)
        BY <1>2, <2>1, <2>3 DEF Of
    <2>. HIDE DEF e
    <2>6. q \in Seq(Of(Nat)) /\ Len(q) <= Capacity
        <3>1. <<e>> \in Seq(Of(Nat)) /\ Len(<<e>>) = 1
            BY <2>4
        <3>2. Len(q) = Len(queue[t]) + 1 /\ q \in Seq(Of(Nat))
            BY <1>2, <3>1, ConcatProperties
        <3>3. Len(queue[t]) \in Nat /\ Capacity \in Nat
            BY <1>2, LenProperties DEF Br!BrowserAssumption
        <3>. QED  BY <2>1, <3>2, <3>3
    <2>7. ~ overlap => q \in Seq(Of(W))
        <3>. SUFFICES ASSUME ~ overlap PROVE q \in Seq(Of(W))
            OBVIOUS
        <3>1. <<e>> \in Seq(Of(W)) /\ queue[t] \in Seq(Of(W))
            BY <1>3, <1>4, <1>5, <2>5
        <3>. QED  BY <3>1, ConcatProperties
    <2>. HIDE DEF q
    <2>8. /\ queue' \in [Tabs -> Seq(Of(Nat))] /\ flight' \in [Tabs -> Seq(Of(Nat))]
          /\ timer' \in [Tabs -> BOOLEAN] /\ mind' \in [Tabs -> {None} \union Nat]
          /\ queue'[t] = q /\ flight'[t] = flight[t] /\ timer'[t] = TRUE /\ mind'[t] = Br!Identity(t)
          /\ \A u \in Tabs \ {t} : /\ queue'[u] = queue[u] /\ flight'[u] = flight[u]
                                   /\ timer'[u] = timer[u] /\ mind'[u] = mind[u]
        BY <2>1, <2>2, <2>6 DEF BrowserTypes
    <2>. QED  BY <1>2, <1>3, <1>4, <1>5, <2>1, <2>2, <2>3, <2>4, <2>6, <2>7, <2>8, WorkRight
<1>6. CASE Br!Flush(t) /\ Br!Permitted
    <2>. DEFINE go == flight[t] = << >> /\ queue[t] # << >>
                f == IF go THEN Br!Batch(queue[t]) ELSE flight[t]
                q == IF go THEN SubSeq(queue[t], Len(Br!Batch(queue[t])) + 1, Len(queue[t])) ELSE queue[t]
    <2>1. /\ tab[t] = "on" /\ timer' = [timer EXCEPT ![t] = FALSE]
          /\ UNCHANGED <<consent, stored, tab, mind, notice, clock, withdrawals, overlap, made>>
        BY <1>6 DEF Br!Flush
    <2>2. flight' = [flight EXCEPT ![t] = f] /\ queue' = [queue EXCEPT ![t] = q]
        BY <1>6 DEF Br!Flush, BrowserTypes
    <2>3. f \in Seq(Of(Nat)) /\ q \in Seq(Of(Nat)) /\ Len(q) <= Len(queue[t])
        <3>1. CASE go
            <4>1. f = Br!Batch(queue[t]) /\ q = SubSeq(queue[t], Len(Br!Batch(queue[t])) + 1, Len(queue[t]))
                BY <3>1
            <4>2. /\ Br!Batch(queue[t]) \in Seq(Of(Nat))
                  /\ SubSeq(queue[t], Len(Br!Batch(queue[t])) + 1, Len(queue[t])) \in Seq(Of(Nat))
                  /\ Len(SubSeq(queue[t], Len(Br!Batch(queue[t])) + 1, Len(queue[t]))) <= Len(queue[t])
                BY <1>2, BatchType
            <4>. HIDE DEF f, q
            <4>. QED  BY <4>1, <4>2
        <3>2. CASE ~ go
            <4>1. Len(queue[t]) \in Nat
                BY <1>2, LenProperties
            <4>2. f = flight[t] /\ q = queue[t]
                BY <3>2
            <4>. HIDE DEF f, q
            <4>. QED  BY <1>2, <4>1, <4>2
        <3>. QED  BY <3>1, <3>2
    <2>4. Len(q) <= Capacity
        <3>1. Len(q) \in Nat /\ Len(queue[t]) \in Nat /\ Capacity \in Nat
            BY <1>2, <2>3, LenProperties DEF Br!BrowserAssumption
        <3>. HIDE DEF q
        <3>. QED  BY <1>2, <2>3, <3>1
    <2>5. q # << >> => f # << >>
        BY <1>2, BatchType
    <2>6. ~ overlap => q \in Seq(Of(W)) /\ f \in Seq(Of(W))
        BY <1>3, <1>4, <1>6, BatchType
    <2>. HIDE DEF q, f
    <2>7. /\ queue' \in [Tabs -> Seq(Of(Nat))] /\ flight' \in [Tabs -> Seq(Of(Nat))]
          /\ timer' \in [Tabs -> BOOLEAN] /\ mind' \in [Tabs -> {None} \union Nat]
          /\ queue'[t] = q /\ flight'[t] = f /\ mind'[t] = mind[t]
          /\ \A u \in Tabs \ {t} : /\ queue'[u] = queue[u] /\ flight'[u] = flight[u]
                                   /\ timer'[u] = timer[u] /\ mind'[u] = mind[u]
        BY <2>1, <2>2, <2>3 DEF BrowserTypes
    <2>. QED  BY <1>2, <1>3, <1>4, <1>6, <2>1, <2>2, <2>3, <2>4, <2>5, <2>6, <2>7, WorkRight
<1>7. CASE Br!Respond(t)
    <2>1. /\ tab[t] = "on" /\ flight' = [flight EXCEPT ![t] = << >>]
          /\ timer' = [timer EXCEPT ![t] = Br!Schedule(t, queue[t])]
          /\ UNCHANGED <<clock, consent, stored, tab, mind, queue, notice, withdrawals, overlap, made>>
        BY <1>7 DEF Br!Respond
    <2>2. \A u \in Tabs : u = t => queue'[u] = queue[t] /\ flight'[u] = << >> /\ mind'[u] = mind[t]
                                  /\ timer'[u] = Br!Schedule(t, queue[t])
        BY <2>1 DEF BrowserTypes
    <2>3. \A u \in Tabs : u # t => queue'[u] = queue[u] /\ flight'[u] = flight[u] /\ mind'[u] = mind[u] /\ timer'[u] = timer[u]
        BY <2>1 DEF BrowserTypes
    <2>4. Br!Schedule(t, queue[t]) \in BOOLEAN
        BY <1>2 DEF Br!Schedule
    <2>5. BrowserTypes'
        BY <2>1, <2>4 DEF BrowserTypes
    <2>6. QueueRight'
        BY <2>1, <2>2, <2>3, ZenonT(60) DEF QueueRight, Br!Schedule
    <2>7. WithdrawalKnown'
        BY <2>1 DEF WithdrawalKnown
    <2>8. IdentityRight'
        <3>1. << >> \in Seq(Of({withdrawals}))
            OBVIOUS
        <3>. QED  BY <2>1, <2>2, <2>3, <3>1 DEF IdentityRight
    <2>. QED  BY <2>5, <2>6, <2>7, <2>8
<1>8. CASE Br!RequestFails(t) /\ Br!Permitted
    <2>1. PICK again \in Br!Retries(flight[t]) :
            /\ queue' = [queue EXCEPT ![t] = Br!Cut(again \o queue[t])]
            /\ timer' = [timer EXCEPT ![t] = Br!Schedule(t, Br!Cut(again \o queue[t]))]
        BY <1>8 DEF Br!RequestFails
    <2>. DEFINE q == Br!Cut(again \o queue[t])
    <2>2. /\ tab[t] = "on" /\ flight' = [flight EXCEPT ![t] = << >>]
          /\ UNCHANGED <<consent, stored, tab, mind, notice, clock, withdrawals, overlap, made>>
        BY <1>8 DEF Br!RequestFails
    <2>3. q \in Seq(Of(Nat)) /\ Len(q) <= Capacity
        <3>1. again \in Seq(Of(Nat))
            BY <1>2, RetriesType
        <3>2. again \o queue[t] \in Seq(Of(Nat))
            BY <1>2, <3>1, ConcatProperties
        <3>. QED  BY <3>2, CutType
    <2>4. ~ overlap => q \in Seq(Of(W))
        <3>. SUFFICES ASSUME ~ overlap PROVE q \in Seq(Of(W))
            OBVIOUS
        <3>1. queue[t] \in Seq(Of(W)) /\ flight[t] \in Seq(Of(W))
            BY <1>3, <1>4, <1>8
        <3>2. again \in Seq(Of(W))
            BY <3>1, RetriesType
        <3>3. again \o queue[t] \in Seq(Of(W))
            BY <3>1, <3>2, ConcatProperties
        <3>. QED  BY <3>3, CutType
    <2>. HIDE DEF q
    <2>5. Br!Schedule(t, q) \in BOOLEAN /\ (q # << >> => Br!Schedule(t, q))
        BY <1>2 DEF Br!Schedule
    <2>7. << >> \in Seq(Of(Nat)) /\ << >> \in Seq(Of(W))
        OBVIOUS
    <2>8. queue' = [queue EXCEPT ![t] = q] /\ timer' = [timer EXCEPT ![t] = Br!Schedule(t, q)]
        BY <2>1 DEF q
    <2>6. /\ queue' \in [Tabs -> Seq(Of(Nat))] /\ flight' \in [Tabs -> Seq(Of(Nat))]
          /\ timer' \in [Tabs -> BOOLEAN] /\ mind' \in [Tabs -> {None} \union Nat]
          /\ queue'[t] = q /\ flight'[t] = << >> /\ mind'[t] = mind[t] /\ timer'[t] = Br!Schedule(t, q)
          /\ \A u \in Tabs \ {t} : /\ queue'[u] = queue[u] /\ flight'[u] = flight[u]
                                   /\ timer'[u] = timer[u] /\ mind'[u] = mind[u]
        BY <2>2, <2>3, <2>5, <2>7, <2>8 DEF BrowserTypes
    <2>. QED  BY <1>2, <1>3, <1>4, <1>8, <2>2, <2>3, <2>4, <2>5, <2>6, <2>7, WorkRight
<1>. QED  BY <1>1, <1>5, <1>6, <1>7, <1>8 DEF Br!Track, Br!Flush, Br!RequestFails

\* A page that opens, closes or is told without having to stop.
LEMMA PageStep ==
    ASSUME Br!BrowserAssumption, BrowserInv, NEW t \in Tabs,
           Br!Open(t) \/ Br!Close(t) \/ Br!Watch(t)
    PROVE  BrowserInv'
<1>. USE DEF BrowserInv
<1>1. CASE Br!Open(t)
    <2>1. /\ tab[t] = "closed" /\ tab' = [tab EXCEPT ![t] = IF Br!Permitted THEN "on" ELSE "off"]
          /\ stored' = IF Br!Permitted THEN stored ELSE None
          /\ UNCHANGED <<clock, consent, mind, queue, flight, timer, notice, withdrawals, overlap, made>>
        BY <1>1 DEF Br!Open, Br!work
    <2>2. Br!Permitted => consent > 0
        BY DEF Br!Permitted, BrowserTypes
    <2>3. BrowserTypes'
        BY <2>1 DEF BrowserTypes
    <2>4. QueueRight'
        BY <2>1 DEF QueueRight, BrowserTypes
    <2>5. WithdrawalKnown'
        BY <2>1, <2>2 DEF WithdrawalKnown, BrowserTypes
    <2>6. IdentityRight'
        BY <2>1 DEF IdentityRight
    <2>. QED  BY <2>3, <2>4, <2>5, <2>6
<1>2. CASE Br!Close(t)
    <2>1. /\ queue' = [queue EXCEPT ![t] = << >>] /\ flight' = [flight EXCEPT ![t] = << >>]
          /\ timer' = [timer EXCEPT ![t] = FALSE] /\ mind' = [mind EXCEPT ![t] = None]
          /\ tab' = [tab EXCEPT ![t] = "closed"] /\ notice' = notice \ {t}
          /\ UNCHANGED <<clock, consent, stored, withdrawals, overlap, made>>
        BY <1>2 DEF Br!Close, Br!Forget
    <2>2. /\ << >> \in Seq(Of(Nat)) /\ << >> \in Seq(Of({withdrawals})) /\ Len(<< >>) <= Capacity
        BY EmptySeq DEF Br!BrowserAssumption
    <2>3. /\ queue'[t] = << >> /\ flight'[t] = << >> /\ timer'[t] = FALSE /\ mind'[t] = None /\ tab'[t] = "closed"
          /\ \A u \in Tabs \ {t} : /\ queue'[u] = queue[u] /\ flight'[u] = flight[u] /\ timer'[u] = timer[u]
                                   /\ mind'[u] = mind[u] /\ tab'[u] = tab[u]
        BY <2>1 DEF BrowserTypes
    <2>4. BrowserTypes'
        BY <2>1, <2>2 DEF BrowserTypes
    <2>5. QueueRight'
        <3>. SUFFICES ASSUME NEW u \in Tabs
                      PROVE  /\ tab'[u] # "on" => queue'[u] = << >> /\ flight'[u] = << >> /\ ~ timer'[u] /\ mind'[u] = None
                             /\ queue'[u] # << >> => timer'[u] \/ flight'[u] # << >>
                             /\ Len(queue'[u]) <= Capacity
            BY DEF QueueRight
        <3>1. CASE u = t
            BY <2>2, <2>3, <3>1
        <3>2. CASE u # t
            BY <2>3, <3>2 DEF QueueRight
        <3>. QED  BY <3>1, <3>2
    <2>6. WithdrawalKnown'
        <3>. SUFFICES ASSUME consent = 0, NEW u \in Tabs, tab'[u] = "on"
                      PROVE  u \in notice'
            BY <2>1 DEF WithdrawalKnown
        <3>1. u # t
            BY <2>3
        <3>. QED  BY <2>1, <2>3, <3>1 DEF WithdrawalKnown
    <2>7. IdentityRight'
        <3>. SUFFICES ASSUME ~ overlap, consent > 0, NEW u \in Tabs
                      PROVE  /\ mind'[u] \in {None, withdrawals}
                             /\ queue'[u] \in Seq(Of({withdrawals})) /\ flight'[u] \in Seq(Of({withdrawals}))
            BY <2>1 DEF IdentityRight
        <3>1. CASE u = t
            BY <2>2, <2>3, <3>1
        <3>2. CASE u # t
            BY <2>3, <3>2 DEF IdentityRight
        <3>. QED  BY <3>1, <3>2
    <2>. QED  BY <2>4, <2>5, <2>6, <2>7
<1>3. CASE Br!Watch(t) /\ Br!Permitted
    <2>1. /\ notice' = notice \ {t}
          /\ UNCHANGED <<clock, consent, stored, tab, mind, queue, flight, timer, withdrawals, overlap, made>>
        BY <1>3 DEF Br!Watch, Br!work
    <2>2. consent # 0
        BY <1>3 DEF Br!Permitted, BrowserTypes
    <2>. QED  BY <2>1, <2>2 DEF BrowserTypes, QueueRight, WithdrawalKnown, IdentityRight
<1>4. CASE Br!Watch(t) /\ ~ Br!Permitted
    <2>1. Br!Stop(t) /\ UNCHANGED <<clock, withdrawals, overlap, made>>
        BY <1>4 DEF Br!Watch
    <2>. QED  BY <2>1, StopRight DEF BrowserTypes
<1>. QED  BY <1>1, <1>2, <1>3, <1>4

\* The choice.  An identity from before a withdrawal can only come back with an adapter
\* that was on when consent was given again, and that is what overlap records.
LEMMA ChoiceStep ==
    ASSUME Br!BrowserAssumption, BrowserInv, NEW t \in Tabs, Br!Allow(t) \/ Br!Withdraw(t)
    PROVE  BrowserInv'
<1>. USE DEF BrowserInv
<1>1. CASE Br!Withdraw(t)
    <2>1. Br!Stop(t) /\ withdrawals' \in Nat /\ UNCHANGED <<clock, overlap, made>>
        BY <1>1 DEF Br!Withdraw, BrowserTypes
    <2>. QED  BY <2>1, StopRight
<1>2. CASE Br!Allow(t)
    <2>1. /\ tab[t] = "off" /\ consent' = clock + Grant
          /\ overlap' = (overlap \/ (consent = 0 /\ \E u \in Br!Others(t) : tab[u] = "on"))
          /\ tab' = [tab EXCEPT ![t] = "on"] /\ notice' = notice \union Br!Others(t)
          /\ UNCHANGED <<clock, stored, mind, queue, flight, timer, withdrawals, made>>
        BY <1>2 DEF Br!Allow, Br!work
    <2>2. consent' \in Nat /\ consent' > 0
        BY <2>1 DEF BrowserTypes, Br!BrowserAssumption
    <2>3. BrowserTypes'
        BY <2>1, <2>2 DEF BrowserTypes, Br!Others
    <2>4. QueueRight'
        BY <2>1 DEF QueueRight, BrowserTypes
    <2>5. WithdrawalKnown'
        BY <2>2 DEF WithdrawalKnown
    <2>6. IdentityRight'
        <3>. SUFFICES ASSUME ~ overlap'
                      PROVE  /\ stored \in {None, withdrawals}
                             /\ \A u \in Tabs : /\ mind[u] \in {None, withdrawals}
                                                /\ queue[u] \in Seq(Of({withdrawals})) /\ flight[u] \in Seq(Of({withdrawals}))
            BY <2>1 DEF IdentityRight
        <3>1. ~ overlap
            BY <2>1
        <3>2. CASE consent > 0
            BY <3>1, <3>2 DEF IdentityRight
        <3>3. CASE ~ (consent > 0)
            <4>1. consent = 0
                BY <3>3 DEF BrowserTypes
            <4>2. \A u \in Tabs : tab[u] # "on"
                BY <2>1, <4>1 DEF Br!Others
            <4>3. stored = None
                BY <4>1 DEF WithdrawalKnown
            <4>4. \A u \in Tabs : queue[u] = << >> /\ flight[u] = << >> /\ mind[u] = None
                BY <4>2 DEF QueueRight
            <4>5. << >> \in Seq(Of({withdrawals}))
                OBVIOUS
            <4>. QED  BY <4>3, <4>4, <4>5
        <3>. QED  BY <3>2, <3>3
    <2>. QED  BY <2>3, <2>4, <2>5, <2>6
<1>. QED  BY <1>1, <1>2

LEMMA InitBrowserInv ==
    ASSUME Br!BrowserAssumption, Br!Init
    PROVE  BrowserInv
<1>1. << >> \in Seq(Of(Nat)) /\ Len(<< >>) <= Capacity
    BY EmptySeq DEF Br!BrowserAssumption
<1>2. BrowserTypes
    BY <1>1 DEF Br!Init, BrowserTypes
<1>3. QueueRight
    BY <1>1 DEF Br!Init, QueueRight
<1>4. WithdrawalKnown /\ IdentityRight
    BY DEF Br!Init, WithdrawalKnown, IdentityRight
<1>. QED  BY <1>2, <1>3, <1>4 DEF BrowserInv

LEMMA NextBrowserInv ==
    ASSUME Br!BrowserAssumption, BrowserInv, [Br!Next]_Br!vars
    PROVE  BrowserInv'
<1>1. CASE UNCHANGED Br!vars
    <2>. QED  BY <1>1 DEF BrowserInv, Br!vars, Br!work, BrowserTypes, QueueRight, WithdrawalKnown, IdentityRight
<1>2. CASE Br!Tick
    <2>1. clock' \in Nat
        BY <1>2 DEF Br!Tick, BrowserInv, BrowserTypes
    <2>2. UNCHANGED <<consent, stored, tab, mind, Br!work, notice, withdrawals, overlap, made>>
        BY <1>2 DEF Br!Tick
    <2>. QED  BY <2>1, <2>2 DEF BrowserInv, Br!work, BrowserTypes, QueueRight, WithdrawalKnown, IdentityRight
<1>3. ASSUME NEW t \in Tabs,
             Br!Open(t) \/ Br!Close(t) \/ Br!Allow(t) \/ Br!Withdraw(t) \/ Br!Watch(t)
             \/ Br!Track(t) \/ Br!Flush(t) \/ Br!Respond(t) \/ Br!RequestFails(t)
      PROVE  BrowserInv'
    BY <1>3, PageStep, ChoiceStep, HandlerStep
<1>. QED  BY <1>1, <1>2, <1>3 DEF Br!Next

\* The inductive invariant contains the property.
LEMMA BrowserInvObeys ==
    ASSUME BrowserInv
    PROVE  Br!ConsentObeyed
<1>. USE DEF BrowserInv
<1>1. ASSUME NEW W, NEW s \in Seq(Of(W)), NEW e \in ToSet(s)
      PROVE  e.attempt <= 1 /\ e.who \in W
    <2>1. PICK i \in DOMAIN s : e = s[i]
        BY DEF ToSet
    <2>2. e \in Of(W)
        BY <2>1, LenProperties
    <2>. QED  BY <2>2 DEF Of
<1>2. Br!QueueSound
    <2>1. ASSUME NEW t \in Tabs, NEW e \in Br!Carried(t)
          PROVE  e.attempt <= 1
        <3>1. queue[t] \in Seq(Of(Nat)) /\ flight[t] \in Seq(Of(Nat))
            BY DEF BrowserTypes
        <3>2. e \in ToSet(queue[t]) \/ e \in ToSet(flight[t])
            BY DEF Br!Carried, Br!ToSet, ToSet
        <3>. QED  BY <1>1, <3>1, <3>2
    <2>. QED  BY <2>1 DEF QueueRight, Br!QueueSound
<1>3. Br!WithdrawalReachesAll
    BY DEF WithdrawalKnown, Br!WithdrawalReachesAll
<1>4. Br!IdentityEndsWithConsent
    <2>. SUFFICES ASSUME ~ overlap, Br!Permitted
                  PROVE  /\ stored \in {None, withdrawals}
                         /\ \A t \in Tabs : \A e \in Br!Carried(t) : e.who = withdrawals
        BY DEF Br!IdentityEndsWithConsent
    <2>1. consent > 0
        BY DEF Br!Permitted, BrowserTypes
    <2>2. ASSUME NEW t \in Tabs, NEW e \in Br!Carried(t)
          PROVE  e.who = withdrawals
        <3>1. queue[t] \in Seq(Of({withdrawals})) /\ flight[t] \in Seq(Of({withdrawals}))
            BY <2>1 DEF IdentityRight
        <3>2. e \in ToSet(queue[t]) \/ e \in ToSet(flight[t])
            BY DEF Br!Carried, Br!ToSet, ToSet
        <3>3. e.who \in {withdrawals}
            BY <1>1, <3>1, <3>2
        <3>. QED  BY <3>3
    <2>. QED  BY <2>1, <2>2 DEF IdentityRight
<1>. QED  BY <1>2, <1>3, <1>4 DEF Br!ConsentObeyed

\* The browser's part of a behaviour of the four programs is a behaviour of its own.
LEMMA BrowserAlone == ServicesSpec => Br!Spec
<1>1. ServicesInit => Br!Init
  BY DEF ServicesInit
<1>2. [ServicesNext]_allVars => [Br!Next]_(Br!vars)
  BY DEF ServicesNext, allVars, browser, Br!vars
<1> QED
  BY <1>1, <1>2, PTL DEF ServicesSpec, Br!Spec

\* In any number of tabs no queue is stranded, no event is sent thrice, and once every
\* tab has handled its storage events a withdrawn consent has ended the adapters and the
\* identity (stop, bootstrap, flush).
THEOREM ConsentIsObeyed == ServicesSpec => []ConsentObeyed
<1>1. Br!Init => BrowserInv
    BY InitBrowserInv, ServicesAssumption
<1>2. BrowserInv /\ [Br!Next]_Br!vars => BrowserInv'
    BY NextBrowserInv, ServicesAssumption
<1>3. BrowserInv => ConsentObeyed
    BY BrowserInvObeys, ServicesAssumption DEF ConsentObeyed
<1>. QED  BY <1>1, <1>2, <1>3, BrowserAlone, PTL DEF Br!Spec

-----------------------------------------------------------------------------
(* The spool of completions and the forwarder's cursor.                     *)

\* Rows of a spool that has given out the numbers to h: no two have one number.
Table(h, I) == {s \in SUBSET [seq : 1..h, id : I] : IsFiniteSet(s) /\ \A q, r \in s : q.seq = r.seq => q = r}

\* Part of a table is a table.
LEMMA PartOfTable ==
    ASSUME NEW h \in Nat, NEW I, NEW s \in Table(h, I), NEW t \in SUBSET s
    PROVE  t \in Table(h, I) /\ Cardinality(s) \in Nat /\ Cardinality(t) \in Nat /\ Cardinality(t) <= Cardinality(s)
BY FS_Subset, FS_CardinalityType DEF Table

\* The first n rows are n rows, as far as there are that many, and no other comes before one.
LEMMA LowestRows ==
    ASSUME NEW h \in Nat, NEW I, NEW s \in Table(h, I), NEW n \in Nat
    PROVE  /\ Fo!Lowest(s, n) \subseteq s
           /\ Cardinality(Fo!Lowest(s, n)) <= n
           /\ n <= Cardinality(s) => Cardinality(Fo!Lowest(s, n)) = n
           /\ \A q \in Fo!Lowest(s, n), r \in s : r.seq < q.seq => r \in Fo!Lowest(s, n)
           /\ n > 0 /\ s # {} => Fo!Lowest(s, n) # {}
<1>. DEFINE L == Fo!Lowest(s, n)
            Below(r) == {q \in s : q.seq < r.seq}
<1>1. L = {r \in s : Cardinality(Below(r)) < n}
    BY DEF Fo!Lowest, Fo!Cardinality, Cardinality
<1>. HIDE DEF L
<1>2. L \in SUBSET s /\ \A r \in s : Below(r) \in SUBSET s
    BY <1>1
<1>3. \A r \in s : IsFiniteSet(Below(r)) /\ Cardinality(Below(r)) \in Nat
    BY <1>2, PartOfTable DEF Table
<1>4. IsFiniteSet(L) /\ Cardinality(L) \in Nat /\ IsFiniteSet(s) /\ Cardinality(s) \in Nat
    BY <1>2, PartOfTable DEF Table
<1>5. \A r \in s : r.seq \in 1..h
    BY DEF Table
<1>6. Cardinality(L) <= n
    <2>1. CASE L = {}
        BY <2>1, FS_EmptySet
    <2>2. CASE L # {}
        <3>. DEFINE D == {h - r.seq : r \in L}
        <3>1. D \subseteq Nat /\ D # {}
            BY <1>2, <1>5, <2>2
        <3>2. Min(D) \in D /\ \A d \in D : Min(D) <= d
            BY <3>1, MinProperty
        <3>3. PICK m \in L : \A r \in L : h - m.seq <= h - r.seq
            BY <3>2
        <3>4. L \ {m} \in SUBSET Below(m)
            BY <1>2, <1>5, <3>3 DEF Table
        <3>5. Cardinality(L \ {m}) <= Cardinality(Below(m))
            BY <1>2, <1>3, <3>3, <3>4, FS_Subset
        <3>6. Cardinality(L \ {m}) = Cardinality(L) - 1
            BY <1>4, <3>3, FS_RemoveElement
        <3>7. Cardinality(Below(m)) < n
            BY <1>1, <3>3
        <3>. QED  BY <1>2, <1>3, <1>4, <3>3, <3>5, <3>6, <3>7
    <2>. QED  BY <2>1, <2>2
<1>7. ASSUME NEW q \in L, NEW r \in s, r.seq < q.seq
      PROVE  r \in L
    <2>1. Below(r) \in SUBSET Below(q)
        BY <1>2, <1>5, <1>7
    <2>2. Cardinality(Below(r)) <= Cardinality(Below(q))
        BY <1>2, <1>3, <2>1, FS_Subset
    <2>3. Cardinality(Below(q)) < n /\ q \in s
        BY <1>1, <1>2
    <2>4. Cardinality(Below(r)) < n
        BY <1>3, <2>2, <2>3
    <2>. QED  BY <1>1, <2>4
<1>8. ASSUME s \ L # {}
      PROVE  n <= Cardinality(L)
    <2>. DEFINE D == {r.seq : r \in s \ L}
    <2>1. D \subseteq Nat /\ D # {}
        BY <1>5, <1>8
    <2>2. Min(D) \in D /\ \A d \in D : Min(D) <= d
        BY <2>1, MinProperty
    <2>3. PICK m \in s \ L : \A r \in s \ L : m.seq <= r.seq
        BY <2>2
    <2>4. Below(m) \in SUBSET L
        BY <1>5, <2>3
    <2>5. Cardinality(Below(m)) <= Cardinality(L)
        BY <1>4, <2>4, FS_Subset
    <2>6. ~ (Cardinality(Below(m)) < n)
        BY <1>1, <2>3
    <2>. QED  BY <1>3, <1>4, <2>3, <2>5, <2>6
<1>9. n <= Cardinality(s) => Cardinality(L) = n
    BY <1>2, <1>4, <1>6, <1>8
<1>10. n > 0 /\ s # {} => L # {}
    <2>1. ASSUME n > 0, s # {}, L = {}
          PROVE  FALSE
        BY <1>8, <2>1, FS_EmptySet
    <2>. QED  BY <2>1
<1>. QED  BY <1>2, <1>6, <1>7, <1>9, <1>10 DEF L

\* The maximum of two numbers.
LEMMA MaxOfTwo ==
    ASSUME NEW a \in Int, NEW b \in Int
    PROVE  Fo!Max({a, b}) = IF a >= b THEN a ELSE b
<1>1. \E x \in {a, b} : \A y \in {a, b} : x >= y
    BY a >= b \/ b >= a
<1>2. Fo!Max({a, b}) \in {a, b} /\ \A y \in {a, b} : Fo!Max({a, b}) >= y
    BY <1>1 DEF Fo!Max
<1>. QED  BY <1>2

\* What the capacity drops is counted.
LEMMA TrimCounts ==
    ASSUME Fo!ForwarderAssumption, NEW h \in Nat, NEW I, NEW s \in Table(h, I)
    PROVE  /\ Fo!Trim(s).rows \in SUBSET s /\ Cardinality(Fo!Trim(s).rows) <= MaxRows
           /\ Fo!Trim(s).dropped \in Nat
           /\ Cardinality(s) = Cardinality(Fo!Trim(s).rows) + Fo!Trim(s).dropped
<1>. DEFINE n == Cardinality(s)
            excess == IF n > MaxRows THEN n - MaxRows ELSE 0
<1>1. n \in Nat /\ MaxRows \in Nat /\ IsFiniteSet(s)
    BY PartOfTable DEF Fo!ForwarderAssumption, Table
<1>2. Fo!Trim(s) = [rows |-> s \ Fo!Lowest(s, excess), dropped |-> excess]
    <2>1. Fo!Max({0, n - MaxRows}) = excess
        BY <1>1, MaxOfTwo
    <2>2. Fo!Trim(s) = [rows |-> s \ Fo!Lowest(s, Fo!Max({0, n - MaxRows})), dropped |-> Fo!Max({0, n - MaxRows})]
        BY DEF Fo!Trim, Fo!Cardinality, Cardinality
    <2>. QED  BY <2>1, <2>2
<1>3. excess \in Nat /\ excess <= n /\ n - excess <= MaxRows
    BY <1>1
<1>. HIDE DEF n, excess
<1>4. Fo!Lowest(s, excess) \subseteq s /\ Cardinality(Fo!Lowest(s, excess)) = excess
    BY <1>3, LowestRows DEF n
<1>5. Cardinality(s \ Fo!Lowest(s, excess)) = n - excess
    <2>. DEFINE T == Fo!Lowest(s, excess)
    <2>. HIDE DEF T
    <2>1. Cardinality(s \ T) = Cardinality(s) - Cardinality(s \cap T)
        BY <1>1, FS_Difference
    <2>2. s \cap T = T /\ Cardinality(T) = excess
        BY <1>4 DEF T
    <2>. QED  BY <2>1, <2>2 DEF T, n
<1>6. Fo!Trim(s).rows = s \ Fo!Lowest(s, excess) /\ Fo!Trim(s).dropped = excess
    BY <1>2
<1>7. Fo!Trim(s).rows \in SUBSET s
    BY <1>6
<1>8. Cardinality(Fo!Trim(s).rows) = n - excess
    BY <1>5, <1>6
<1>. QED  BY <1>1, <1>3, <1>6, <1>7, <1>8 DEF n

\* No more completions than rows.
LEMMA IdsCount ==
    ASSUME NEW h \in Nat, NEW I, NEW s \in Table(h, I)
    PROVE  IsFiniteSet(Fo!Ids(s)) /\ Cardinality(Fo!Ids(s)) <= Cardinality(s) /\ Fo!Ids(s) \subseteq I
<1>. DEFINE f == [r \in s |-> r.id]
<1>1. f \in Surjection(s, Fo!Ids(s))
    BY DEF Surjection, Fo!Ids
<1>2. Fo!Ids(s) \subseteq I
    BY DEF Table, Fo!Ids
<1>. QED  BY <1>1, <1>2, FS_Surjection DEF Table

\* No more rows than numbers.
LEMMA SpanCounts ==
    ASSUME NEW h \in Nat, NEW I, NEW s \in Table(h, I), NEW a \in Nat, NEW b \in Nat, a <= b,
           \A r \in s : a < r.seq /\ r.seq <= b
    PROVE  Cardinality(s) <= b - a
<1>. DEFINE f == [r \in s |-> r.seq]
<1>1. f \in Injection(s, (a + 1)..b)
    BY DEF Injection, IsInjective, Table
<1>2. IsFiniteSet((a + 1)..b) /\ Cardinality((a + 1)..b) = b - a
    <2>. DEFINE c == a + 1
    <2>1. c \in Int
        OBVIOUS
    <2>2. IsFiniteSet(c..b) /\ Cardinality(c..b) = IF c > b THEN 0 ELSE b - c + 1
        BY <2>1, FS_Interval
    <2>. QED  BY <2>2
<1>3. Cardinality(s) <= Cardinality((a + 1)..b)
    BY <1>1, <1>2, FS_Injection
<1>. QED  BY <1>2, <1>3

\* The values of the variables.
Polls == {Fo!Nobody} \cup [pc : {"reading"}, start : Nat]
         \cup [pc : {"read"}, start : Nat, events : SUBSET Completions, incomplete : BOOLEAN]
Metrics == [last : Nat \cup {None}, started : Int \cup {None}, unobserved : Nat, incomplete : Nat,
            expired : Nat, dropped : Nat]
Forwards == [pc : {"send", "save"}, batch : SUBSET [seq : Nat, id : Completions], next : Nat,
             status : {0, 202} \cup Fo!Refusals]
Cursors == [cursor : Nat, acknowledged : Nat, rejected : Nat]

ForwarderTypes ==
    /\ time \in Nat /\ life \in Nat \ {0}
    /\ DOMAIN logged \subseteq Completions /\ \A c \in DOMAIN logged : logged[c] \in Nat /\ logged[c] <= time
    /\ high \in Nat /\ metrics \in Metrics /\ state \in Cursors
    /\ collected \cup refused \subseteq spooled /\ spooled \subseteq DOMAIN logged /\ Cardinality(refused) <= state.rejected

\* The spool: a table of its capacity, with one row of a completion.
SpoolRight ==
    /\ spool \in Table(high, Completions) /\ Cardinality(spool) <= MaxRows
    /\ \A q, r \in spool : q.id = r.id => q = r
    /\ Fo!Ids(spool) \subseteq spooled

\* A poll has read what was there when it began, up to its lookback, or is incomplete; what is
\* logged since is logged while nobody looks.
PollRight ==
    /\ poll \in Polls
    /\ poll # Fo!Nobody => poll.start <= time
    /\ poll.pc = "read" =>
         /\ time \in blind /\ poll.events \subseteq DOMAIN logged
         /\ poll.incomplete \/ \A c \in DOMAIN logged \ observed : logged[c] < poll.start - Lookback \/ logged[c] \in blind

\* The same of everything up to the last ingestion, or a counter says that it is not so.
Seen ==
    life = 1 =>
        /\ metrics.last = None => metrics.started = None
        /\ metrics.last # None =>
             /\ metrics.started # None /\ metrics.last <= time
             /\ \/ metrics.unobserved > 0 \/ metrics.incomplete > 0
                \/ \A c \in DOMAIN logged \ observed :
                     logged[c] < metrics.started \/ logged[c] >= metrics.last \/ logged[c] \in blind

\* A batch holds every live row up to its last number that the cursor has not passed; what
\* the collector has answered to it is true.
BatchRight ==
    \/ forward = Fo!Nobody
    \/ /\ forward \in Forwards
       /\ \E h \in Nat : forward.batch \in Table(h, Completions)
       /\ Fo!Ids(forward.batch) \subseteq spooled
       /\ forward.pc = "send" => forward.status = 0 /\ forward.batch # {}
       /\ forward.pc = "save" =>
            /\ forward.status = 0 => forward.batch = {}
            /\ forward.status = 202 => Fo!Ids(forward.batch) \subseteq collected
       /\ life = 1 =>
            /\ state.cursor <= forward.next /\ forward.next <= high
            /\ Cardinality(forward.batch) <= forward.next - state.cursor
            /\ \A r \in spool : state.cursor < r.seq /\ r.seq <= forward.next
                               => r \in forward.batch \/ Fo!Expires(r.id) <= time

\* What is neither in the spool nor handed over has been counted, and so has what the cursor
\* has passed.
Counted ==
    life = 1 =>
        /\ state.acknowledged <= state.cursor /\ state.cursor <= high
        /\ Cardinality(spooled \ (Fo!Ids(spool) \cup collected \cup refused)) <= metrics.expired + metrics.dropped
        /\ \A r \in spool : r.seq <= state.cursor => r.id \in collected \cup refused \/ Fo!Expires(r.id) <= time

ForwarderInv == ForwarderTypes /\ SpoolRight /\ PollRight /\ Seen /\ BatchRight /\ Counted

\* The invariant holds initially.
LEMMA ForwarderInitially ==
    ASSUME Fo!ForwarderAssumption, Fo!Init
    PROVE  ForwarderInv
<1>1. {} \in Table(0, Completions) /\ Cardinality({}) = 0
    BY FS_EmptySet DEF Table
<1>2. ForwarderTypes
    BY <1>1 DEF Fo!Init, ForwarderTypes, Metrics, Cursors, Fo!NoMetrics
<1>3. SpoolRight
    BY <1>1 DEF Fo!Init, SpoolRight, Fo!Ids, Fo!ForwarderAssumption
<1>4. PollRight
    BY DEF Fo!Init, PollRight, Polls, Fo!Nobody
<1>5. Seen
    BY DEF Fo!Init, Seen, Fo!NoMetrics
<1>6. Counted
    <2>1. spooled \ (Fo!Ids(spool) \cup collected \cup refused) = {}
        BY DEF Fo!Init
    <2>. QED  BY <1>1, <2>1 DEF Fo!Init, Counted, Fo!NoMetrics
<1>. QED  BY <1>2, <1>3, <1>4, <1>5, <1>6 DEF ForwarderInv, BatchRight, Fo!Init

\* New rows are numbered on from the last number, one of each completion that is not there.
LEMMA InsertedRows ==
    ASSUME Fo!ForwarderAssumption, high \in Nat, NEW found \in SUBSET Completions
    PROVE  /\ Fo!Inserted(found).high \in Nat /\ high <= Fo!Inserted(found).high
           /\ Fo!Inserted(found).rows \in Table(Fo!Inserted(found).high, Completions)
           /\ \A r \in Fo!Inserted(found).rows :
                  r.seq > high /\ r.id \in found /\ r.id \notin Fo!Ids(spool)
           /\ \A q, r \in Fo!Inserted(found).rows : q.id = r.id => q = r
<1>. DEFINE new == {c \in found : Fo!Expires(c) > time}
            Upto(c) == {d \in new : d <= c}
            added == new \ Fo!Ids(spool)
            n == Cardinality(new)
            f == [c \in added |-> [seq |-> high + Cardinality(Upto(c)), id |-> c]]
<1>1. /\ Fo!Inserted(found).high = high + n
      /\ Fo!Inserted(found).rows = {[seq |-> high + Cardinality(Upto(c)), id |-> c] : c \in added}
    BY DEF Fo!Inserted, Fo!Cardinality, Cardinality
<1>2. new \in SUBSET Completions /\ new \subseteq Nat /\ new \in SUBSET found
    BY DEF Fo!ForwarderAssumption
<1>3. IsFiniteSet(Completions)
    BY DEF Fo!ForwarderAssumption, Fo!IsFiniteSet, IsFiniteSet
<1>4. IsFiniteSet(new) /\ n \in Nat
    BY <1>2, <1>3, FS_Subset, FS_CardinalityType
<1>5. added \in SUBSET new
    OBVIOUS
<1>6. added \cap Fo!Ids(spool) = {}
    OBVIOUS
<1>7. IsFiniteSet(added)
    BY <1>4, <1>5, FS_Subset
<1>8. ASSUME NEW c \in new
      PROVE  Cardinality(Upto(c)) \in 1..n /\ IsFiniteSet(Upto(c)) /\ c \in Upto(c)
    <2>1. Upto(c) \in SUBSET new /\ c \in Upto(c)
        BY <1>2
    <2>2. IsFiniteSet(Upto(c)) /\ Cardinality(Upto(c)) \in Nat /\ Cardinality(Upto(c)) <= n
        BY <1>4, <2>1, FS_Subset, FS_CardinalityType
    <2>3. Cardinality(Upto(c)) # 0
        BY <2>1, <2>2, FS_EmptySet
    <2>. QED  BY <1>4, <2>1, <2>2, <2>3
<1>9. ASSUME NEW c \in new, NEW d \in new, c < d
      PROVE  Cardinality(Upto(c)) # Cardinality(Upto(d))
    <2>1. Upto(c) \in SUBSET Upto(d) /\ d \notin Upto(c)
        BY <1>2, <1>9
    <2>2. Upto(c) # Upto(d)
        BY <1>8, <2>1
    <2>. QED  BY <1>8, <2>1, <2>2, FS_Subset
<1>. HIDE DEF new, Upto, added, n
<1>10. ASSUME NEW c \in added, NEW d \in added, Cardinality(Upto(c)) = Cardinality(Upto(d))
       PROVE  c = d
    BY <1>2, <1>5, <1>9, <1>10
<1>. DEFINE rows == {[seq |-> high + Cardinality(Upto(c)), id |-> c] : c \in added}
<1>11. \A r \in rows : \E c \in added : r = [seq |-> high + Cardinality(Upto(c)), id |-> c]
    OBVIOUS
<1>12. \A c \in added : Cardinality(Upto(c)) \in 1..n
    BY <1>5, <1>8
<1>13. f \in Surjection(added, rows)
    BY DEF Surjection
<1>14. IsFiniteSet(rows)
    BY <1>7, <1>13, FS_Surjection
<1>. HIDE DEF rows, f
<1>15. \A r \in rows : /\ r \in [seq : 1..(high + n), id : Completions] /\ r.seq > high /\ r.id \in added
                        /\ r.seq = high + Cardinality(Upto(r.id)) /\ r = [seq |-> r.seq, id |-> r.id]
    <2>. SUFFICES ASSUME NEW r \in rows
                  PROVE  /\ r \in [seq : 1..(high + n), id : Completions] /\ r.seq > high /\ r.id \in added
                         /\ r.seq = high + Cardinality(Upto(r.id)) /\ r = [seq |-> r.seq, id |-> r.id]
        OBVIOUS
    <2>1. PICK c \in added : r = [seq |-> high + Cardinality(Upto(c)), id |-> c]
        BY <1>11
    <2>2. Cardinality(Upto(c)) \in 1..n /\ c \in Completions
        BY <1>2, <1>5, <1>12
    <2>3. high + Cardinality(Upto(c)) \in 1..(high + n) /\ high + Cardinality(Upto(c)) > high
        BY <1>4, <2>2
    <2>. QED  BY <2>1, <2>2, <2>3
<1>16. \A q, r \in rows : q.seq = r.seq => q.id = r.id
    <2>. SUFFICES ASSUME NEW q \in rows, NEW r \in rows, q.seq = r.seq PROVE q.id = r.id
        OBVIOUS
    <2>1. q.id \in added /\ r.id \in added /\ Cardinality(Upto(q.id)) \in 1..n /\ Cardinality(Upto(r.id)) \in 1..n
        BY <1>12, <1>15
    <2>2. high + Cardinality(Upto(q.id)) = high + Cardinality(Upto(r.id))
        BY <1>15
    <2>. QED  BY <1>10, <2>1, <2>2
<1>17. \A q, r \in rows : q.id = r.id => q = r
    BY <1>15
<1>18. rows \in Table(high + n, Completions)
    BY <1>14, <1>15, <1>16, <1>17 DEF Table
<1>19. \A r \in rows : r.seq > high /\ r.id \in found /\ r.id \notin Fo!Ids(spool)
    BY <1>2, <1>5, <1>6, <1>15
<1>. QED  BY <1>1, <1>4, <1>17, <1>18, <1>19 DEF rows

\* Two tables, the second with later numbers.
LEMMA TablesAppended ==
    ASSUME NEW h \in Nat, NEW k \in Nat, h <= k, NEW I, NEW s \in Table(h, I), NEW t \in Table(k, I),
           \A r \in t : r.seq > h
    PROVE  s \cup t \in Table(k, I)
<1>1. IsFiniteSet(s \cup t)
    BY FS_Union DEF Table
<1>2. s \cup t \in SUBSET [seq : 1..k, id : I]
    BY DEF Table
<1>3. \A r \in s : r.seq <= h
    BY DEF Table
<1>4. \A q, r \in s \cup t : q.seq = r.seq => q = r
    <2>. SUFFICES ASSUME NEW q \in s \cup t, NEW r \in s \cup t, q.seq = r.seq PROVE q = r
        OBVIOUS
    <2>1. \A x \in s, y \in t : x.seq # y.seq
        BY <1>3 DEF Table
    <2>. QED  BY <2>1 DEF Table
<1>. QED  BY <1>1, <1>2, <1>4 DEF Table

\* A set within two others has no more members than they have together.
LEMMA AtMostSum ==
    ASSUME NEW A, NEW B, IsFiniteSet(A), IsFiniteSet(B), NEW S \in SUBSET (A \cup B)
    PROVE  Cardinality(S) \in Nat /\ Cardinality(S) <= Cardinality(A) + Cardinality(B)
<1>1. IsFiniteSet(A \cup B) /\ Cardinality(A \cup B) = Cardinality(A) + Cardinality(B) - Cardinality(A \cap B)
    BY FS_Union
<1>2. IsFiniteSet(A \cap B)
    BY FS_Intersection
<1>. DEFINE i == Cardinality(A \cap B)
<1>. HIDE DEF i
<1>3. i \in Nat
    BY <1>2, FS_CardinalityType DEF i
<1>4. Cardinality(A) \in Nat /\ Cardinality(B) \in Nat
    BY FS_CardinalityType
<1>5. Cardinality(S) <= Cardinality(A \cup B) /\ IsFiniteSet(S)
    BY <1>1, FS_Subset
<1>6. Cardinality(S) \in Nat
    BY <1>5, FS_CardinalityType
<1>7. Cardinality(A \cup B) = Cardinality(A) + Cardinality(B) - i
    BY <1>1 DEF i
<1>. QED  BY <1>3, <1>4, <1>5, <1>6, <1>7

\* Spool.ingest leaves everything counted.
LEMMA IngestStep ==
    ASSUME Fo!ForwarderAssumption, ForwarderInv, Fo!Ingest
    PROVE  ForwarderInv'
<1>. DEFINE ins == Fo!Inserted(poll.events)
            all == spool \cup ins.rows
            live == {r \in all : Fo!Expires(r.id) > time}
            kept == Fo!Trim(live)
<1>. USE DEF ForwarderInv
<1>1. /\ poll.pc = "read" /\ poll \in Polls /\ poll # Fo!Nobody /\ poll.start <= time /\ poll.start \in Nat
      /\ poll.events \subseteq DOMAIN logged /\ poll.events \in SUBSET Completions /\ poll.incomplete \in BOOLEAN
    BY DEF Fo!Ingest, PollRight, Polls, Fo!Nobody, ForwarderTypes
<1>2. /\ spool' = kept.rows /\ spooled' = spooled \cup Fo!Ids(all)
      /\ high' = ins.high /\ poll' = Fo!Nobody
      /\ UNCHANGED <<time, logged, observed, blind, life, forward, state, collected, refused>>
    BY DEF Fo!Ingest, Fo!sender
<1>3. metrics' = [last |-> time,
                  started |-> IF metrics.last = None THEN time - Lookback ELSE metrics.started,
                  unobserved |-> metrics.unobserved +
                      IF metrics.last # None /\ time - metrics.last > Lookback THEN time - metrics.last - Lookback ELSE 0,
                  incomplete |-> metrics.incomplete + IF poll.incomplete THEN 1 ELSE 0,
                  expired |-> metrics.expired + Cardinality(all) - Cardinality(live),
                  dropped |-> metrics.dropped + kept.dropped]
    BY DEF Fo!Ingest, Fo!Gap, Fo!Cardinality, Cardinality
<1>4. high \in Nat /\ time \in Nat /\ metrics \in Metrics /\ state \in Cursors /\ spool \in Table(high, Completions)
    BY DEF ForwarderTypes, SpoolRight
<1>5. /\ ins.high \in Nat /\ high <= ins.high /\ ins.rows \in Table(ins.high, Completions)
      /\ \A r \in ins.rows : r.seq > high /\ r.id \in poll.events /\ r.id \notin Fo!Ids(spool)
      /\ \A q, r \in ins.rows : q.id = r.id => q = r
    BY <1>1, <1>4, InsertedRows
<1>. HIDE DEF ins
<1>6. all \in Table(ins.high, Completions)
    BY <1>4, <1>5, TablesAppended
<1>7. live \in SUBSET all
    OBVIOUS
<1>8. \A r \in all : r \in spool \/ (r.seq > high /\ r.id \in poll.events)
    BY <1>5
<1>9. \A q, r \in all : q.id = r.id => q = r
    BY <1>5 DEF SpoolRight, Fo!Ids
<1>10. Fo!Ids(all) \subseteq spooled \cup poll.events /\ Fo!Ids(all) \subseteq DOMAIN logged
    BY <1>1, <1>8 DEF Fo!Ids, SpoolRight, ForwarderTypes
<1>. HIDE DEF all, live
<1>11. live \in Table(ins.high, Completions) /\ Cardinality(all) \in Nat /\ Cardinality(live) \in Nat
       /\ Cardinality(live) <= Cardinality(all)
    BY <1>5, <1>6, <1>7, PartOfTable
<1>12. /\ kept.rows \in SUBSET live /\ Cardinality(kept.rows) <= MaxRows /\ kept.dropped \in Nat
       /\ Cardinality(live) = Cardinality(kept.rows) + kept.dropped
    BY <1>5, <1>11, TrimCounts
<1>. HIDE DEF kept
<1>13. kept.rows \in SUBSET all
    BY <1>7, <1>12
<1>14. kept.rows \in Table(ins.high, Completions)
    BY <1>5, <1>6, <1>13, PartOfTable
<1>15. metrics' \in Metrics
    BY <1>1, <1>3, <1>4, <1>11, <1>12 DEF Metrics, Fo!ForwarderAssumption
<1>16. ForwarderTypes'
    BY <1>1, <1>2, <1>5, <1>10, <1>15 DEF ForwarderTypes
<1>17. Fo!Ids(kept.rows) \subseteq Fo!Ids(all)
    BY <1>13 DEF Fo!Ids
<1>18. SpoolRight'
    BY <1>2, <1>9, <1>12, <1>13, <1>14, <1>17 DEF SpoolRight, Fo!Ids
<1>19. PollRight'
    BY <1>2 DEF PollRight, Polls, Fo!Nobody
<1>20. Seen'
    <2>. SUFFICES ASSUME life = 1 PROVE Seen'
        BY <1>2 DEF Seen
    <2>1. time # None /\ Lookback \in Nat
        BY <1>4 DEF Fo!ForwarderAssumption
    <2>2. metrics'.last = time /\ metrics'.unobserved \in Nat /\ metrics'.incomplete \in Nat
        BY <1>3, <1>15 DEF Metrics
    <2>3. metrics'.started # None
        BY <1>3, <1>4, <2>1 DEF Seen, Fo!ForwarderAssumption, Metrics
    <2>4. ASSUME ~ (metrics'.unobserved > 0), ~ (metrics'.incomplete > 0), NEW c \in DOMAIN logged \ observed
          PROVE  logged[c] < metrics'.started \/ logged[c] >= time \/ logged[c] \in blind
        <3>1. /\ ~ poll.incomplete /\ metrics.unobserved = 0 /\ metrics.incomplete = 0
              /\ metrics.last # None => time - metrics.last <= Lookback
            BY <1>1, <1>3, <1>4, <2>1, <2>4 DEF Metrics
        <3>2. logged[c] < poll.start - Lookback \/ logged[c] \in blind
            BY <1>1, <3>1 DEF PollRight
        <3>3. logged[c] \in Nat
            BY DEF ForwarderTypes
        <3>4. CASE metrics.last = None
            <4>1. metrics'.started = time - Lookback
                BY <1>3, <3>4
            <4>. QED  BY <1>1, <1>4, <2>1, <3>2, <3>3, <4>1
        <3>5. CASE metrics.last # None
            <4>1. metrics'.started = metrics.started /\ metrics.last \in Nat /\ metrics.started \in Int
                BY <1>3, <1>4, <3>5 DEF Metrics, Seen
            <4>2. logged[c] < metrics.started \/ logged[c] >= metrics.last \/ logged[c] \in blind
                BY <3>1, <3>5 DEF Seen
            <4>. QED  BY <1>1, <1>4, <2>1, <3>1, <3>2, <3>3, <3>5, <4>1, <4>2
        <3>. QED  BY <3>4, <3>5
    <2>. QED  BY <1>2, <1>4, <2>1, <2>2, <2>3, <2>4 DEF Seen
<1>21. \A r \in kept.rows : r \in spool \/ r.seq > high
    BY <1>8, <1>13
<1>22. ASSUME life = 1
       PROVE  state.cursor <= high /\ state.cursor \in Nat /\ \A r \in kept.rows : r.seq \in Nat
    BY <1>4, <1>14, <1>22 DEF Counted, Cursors, Table
<1>23. BatchRight'
    <2>1. CASE forward = Fo!Nobody
        BY <1>2, <2>1 DEF BatchRight
    <2>2. CASE forward # Fo!Nobody
        <3>1. forward \in Forwards /\ forward.next \in Nat
            BY <2>2 DEF BatchRight, Forwards
        <3>2. ASSUME life = 1
              PROVE  /\ forward.next <= ins.high
                     /\ \A r \in kept.rows : state.cursor < r.seq /\ r.seq <= forward.next
                                            => r \in forward.batch \/ Fo!Expires(r.id) <= time
            BY <1>4, <1>5, <1>21, <1>22, <2>2, <3>1, <3>2 DEF BatchRight
        <3>3. Fo!Ids(forward.batch) \subseteq spooled'
            BY <1>2, <2>2 DEF BatchRight
        <3>. QED  BY <1>2, <2>2, <3>2, <3>3 DEF BatchRight, Fo!Expires, Forwards
    <2>. QED  BY <2>1, <2>2
<1>24. Counted'
    <2>. SUFFICES ASSUME life = 1 PROVE Counted'
        BY <1>2 DEF Counted
    <2>. DEFINE lost == spooled \ (Fo!Ids(spool) \cup collected \cup refused)
                cut == all \ kept.rows
                gone == spooled' \ (Fo!Ids(kept.rows) \cup collected \cup refused)
    <2>1. IsFiniteSet(Completions) /\ spooled \in SUBSET Completions
        BY DEF Fo!ForwarderAssumption, Fo!IsFiniteSet, IsFiniteSet, ForwarderTypes
    <2>2. lost \in SUBSET Completions
        BY <2>1
    <2>3. IsFiniteSet(lost) /\ Cardinality(lost) \in Nat
        BY <2>1, <2>2, FS_Subset, FS_CardinalityType
    <2>4. cut \in SUBSET all
        OBVIOUS
    <2>5. cut \in Table(ins.high, Completions) /\ IsFiniteSet(all) /\ Cardinality(cut) \in Nat
        <3>1. IsFiniteSet(all)
            BY <1>6 DEF Table
        <3>. QED  BY <1>5, <1>6, <2>4, <3>1, PartOfTable
    <2>6. IsFiniteSet(Fo!Ids(cut)) /\ Cardinality(Fo!Ids(cut)) <= Cardinality(cut)
        BY <1>5, <2>5, IdsCount
    <2>7. Cardinality(cut) = Cardinality(all) - Cardinality(kept.rows)
        <3>1. Cardinality(all \ kept.rows) = Cardinality(all) - Cardinality(all \cap kept.rows)
            BY <2>5, FS_Difference
        <3>2. all \cap kept.rows = kept.rows
            BY <1>13
        <3>. QED  BY <3>1, <3>2
    <2>8. gone \in SUBSET (lost \cup Fo!Ids(cut))
        <3>1. Fo!Ids(spool) \subseteq Fo!Ids(all) /\ spooled' = spooled \cup Fo!Ids(all)
            BY <1>2 DEF Fo!Ids, all
        <3>2. Fo!Ids(all) \subseteq Fo!Ids(cut) \cup Fo!Ids(kept.rows)
            BY DEF Fo!Ids
        <3>. QED  BY <3>1, <3>2
    <2>9. Cardinality(gone) \in Nat /\ Cardinality(gone) <= Cardinality(lost) + Cardinality(Fo!Ids(cut))
        BY <2>3, <2>6, <2>8, AtMostSum
    <2>10. Cardinality(lost) <= metrics.expired + metrics.dropped
        BY DEF Counted
    <2>11. metrics'.expired + metrics'.dropped
              = metrics.expired + metrics.dropped + Cardinality(all) - Cardinality(live) + kept.dropped
        BY <1>3, <1>4, <1>11, <1>12 DEF Metrics
    <2>12. Cardinality(kept.rows) \in Nat
        BY <1>5, <1>6, <1>13, PartOfTable
    <2>. HIDE DEF lost, cut, gone
    <2>13. Cardinality(Fo!Ids(cut)) \in Nat
        BY <2>6, FS_CardinalityType
    <2>14. metrics.expired \in Nat /\ metrics.dropped \in Nat
        BY <1>4 DEF Metrics
    <2>15. Cardinality(gone) <= metrics'.expired + metrics'.dropped
        BY <1>11, <1>12, <2>3, <2>5, <2>6, <2>7, <2>9, <2>10, <2>11, <2>12, <2>13, <2>14
    <2>16. \A r \in kept.rows : r.seq <= state.cursor => r.id \in collected \cup refused \/ Fo!Expires(r.id) <= time
        BY <1>4, <1>21, <1>22 DEF Counted
    <2>17. state.acknowledged <= state.cursor /\ state.cursor <= ins.high
        BY <1>4, <1>5, <1>22 DEF Counted
    <2>. QED  BY <1>2, <2>15, <2>16, <2>17 DEF Counted, gone, Fo!Expires
<1>. QED  BY <1>16, <1>18, <1>19, <1>20, <1>23, <1>24

\* A row of the spool keeps its lifetime.
LEMMA FetchStep ==
    ASSUME Fo!ForwarderAssumption, ForwarderInv, Fo!Fetch
    PROVE  ForwarderInv'
<1>. DEFINE unread == {r \in spool : r.seq > state.cursor /\ Fo!Expires(r.id) > time}
            rows == Fo!Lowest(unread, Limit)
            next == Fo!NextCursor(state.cursor, rows)
<1>. USE DEF ForwarderInv
<1>1. /\ forward' = [pc |-> IF rows = {} THEN "save" ELSE "send", batch |-> rows, next |-> next, status |-> 0]
      /\ UNCHANGED <<time, logged, poll, spool, high, metrics, spooled, observed, blind, life, state, collected, refused>>
    BY DEF Fo!Fetch, Fo!reader
<1>2. high \in Nat /\ state.cursor \in Nat /\ spool \in Table(high, Completions) /\ Limit \in Nat \ {0} /\ time \in Nat
    BY DEF ForwarderTypes, Cursors, SpoolRight, Fo!ForwarderAssumption
<1>3. unread \in SUBSET spool
    OBVIOUS
<1>. HIDE DEF unread, rows
<1>4. unread \in Table(high, Completions)
    BY <1>2, <1>3, PartOfTable
<1>5. /\ rows \in SUBSET unread /\ (unread # {} => rows # {})
      /\ \A q \in rows, r \in unread : r.seq < q.seq => r \in rows
    BY <1>2, <1>4, LowestRows DEF rows
<1>6. rows \in SUBSET spool /\ \A r \in rows : r.seq \in 1..high /\ r.seq > state.cursor
    BY <1>2, <1>5 DEF Table, unread
<1>7. rows \in Table(high, Completions)
    BY <1>2, <1>6, PartOfTable
<1>8. CASE rows = {}
    <2>1. next = Fo!Max({state.cursor, high}) /\ unread = {}
        BY <1>5, <1>8 DEF Fo!NextCursor
    <2>2. next = IF state.cursor >= high THEN state.cursor ELSE high
        BY <1>2, <2>1, MaxOfTwo
    <2>3. next \in Nat /\ state.cursor <= next
        BY <1>2, <2>2
    <2>4. life = 1 => next <= high
        BY <1>2, <2>2 DEF Counted
    <2>5. Cardinality(rows) = 0 /\ Fo!Ids(rows) = {}
        BY <1>8, FS_EmptySet DEF Fo!Ids
    <2>6. \A r \in spool : state.cursor < r.seq => Fo!Expires(r.id) <= time
        <3>. SUFFICES ASSUME NEW r \in spool, state.cursor < r.seq PROVE Fo!Expires(r.id) <= time
            OBVIOUS
        <3>1. Fo!Expires(r.id) \in Int
            BY DEF Fo!Expires, ForwarderTypes, SpoolRight, Fo!Ids, Fo!ForwarderAssumption
        <3>2. r.seq > state.cursor
            BY <1>2 DEF Table
        <3>. QED  BY <1>2, <2>1, <3>1, <3>2 DEF unread
    <2>7. forward' = [pc |-> "save", batch |-> rows, next |-> next, status |-> 0]
        BY <1>1, <1>8
    <2>8. rows \in SUBSET [seq : Nat, id : Completions]
        BY <1>8
    <2>. HIDE DEF next
    <2>9. forward' \in Forwards
        BY <2>3, <2>7, <2>8 DEF Forwards
    <2>10. BatchRight'
        BY <1>1, <1>2, <1>7, <1>8, <2>3, <2>4, <2>5, <2>6, <2>7, <2>9 DEF BatchRight, Fo!Expires
    <2>. QED  BY <1>1, <2>10 DEF ForwarderTypes, SpoolRight, PollRight, Seen, Counted, Fo!Expires
<1>9. CASE rows # {}
    <2>. DEFINE D == {r.seq : r \in rows}
    <2>1. next = Fo!Max(D)
        BY <1>9 DEF Fo!NextCursor
    <2>2. next \in D /\ \A d \in D : d <= next
        <3>. DEFINE E == {high - d : d \in D}
        <3>6. D # {} /\ \A d \in D : d \in 1..high
            BY <1>6, <1>9
        <3>. HIDE DEF D
        <3>1. E \subseteq Nat /\ E # {}
            BY <1>2, <3>6
        <3>2. Min(E) \in E /\ \A e \in E : Min(E) <= e
            BY <3>1, MinProperty
        <3>3. \E m \in D : \A d \in D : m >= d
            <4>1. PICK m \in D : Min(E) = high - m
                BY <3>2
            <4>2. \A d \in D : high - m <= high - d /\ d \in Nat
                BY <3>2, <3>6, <4>1
            <4>3. \A d \in D : m >= d
                BY <1>2, <4>1, <4>2
            <4>. QED  BY <4>3
        <3>4. Fo!Max(D) \in D /\ \A d \in D : Fo!Max(D) >= d
            BY <3>3 DEF Fo!Max
        <3>. QED  BY <1>2, <2>1, <3>4, <3>6
    <2>3. PICK last \in rows : last.seq = next
        BY <2>2
    <2>4. \A r \in rows : state.cursor < r.seq /\ r.seq <= next
        BY <1>2, <1>6, <2>2
    <2>5. next \in Nat /\ state.cursor <= next /\ next <= high
        BY <1>2, <1>6, <2>3
    <2>. HIDE DEF next, D
    <2>6. Cardinality(rows) <= next - state.cursor
        BY <1>2, <1>7, <2>4, <2>5, SpanCounts
    <2>7. \A r \in spool : state.cursor < r.seq /\ r.seq <= next => r \in rows \/ Fo!Expires(r.id) <= time
        <3>. SUFFICES ASSUME NEW r \in spool, state.cursor < r.seq, r.seq <= next, ~ (Fo!Expires(r.id) <= time)
                      PROVE  r \in rows
            OBVIOUS
        <3>1. Fo!Expires(r.id) \in Int /\ r.seq \in Nat
            BY <1>2 DEF Fo!Expires, ForwarderTypes, SpoolRight, Fo!Ids, Fo!ForwarderAssumption, Table
        <3>2. r \in unread
            BY <1>2, <3>1 DEF unread
        <3>3. CASE r.seq = next
            BY <1>2, <1>6, <2>3, <3>3 DEF Table
        <3>4. CASE r.seq < next
            BY <1>5, <2>3, <3>2, <3>4
        <3>. QED  BY <2>5, <3>1, <3>3, <3>4
    <2>8. forward' = [pc |-> "send", batch |-> rows, next |-> next, status |-> 0]
        BY <1>1, <1>9 DEF next
    <2>9. rows \in SUBSET [seq : Nat, id : Completions] /\ Fo!Ids(rows) \subseteq spooled
        BY <1>2, <1>6, <1>7 DEF Table, Fo!Ids, SpoolRight
    <2>10. forward' \in Forwards
        BY <2>5, <2>8, <2>9 DEF Forwards
    <2>11. BatchRight'
        BY <1>1, <1>2, <1>7, <1>9, <2>5, <2>6, <2>7, <2>8, <2>9, <2>10 DEF BatchRight, Fo!Expires
    <2>. QED  BY <1>1, <2>11 DEF ForwarderTypes, SpoolRight, PollRight, Seen, Counted, Fo!Expires
<1>. QED  BY <1>8, <1>9

\* More that the collector has, and more that is refused, leaves what is counted counted.
LEMMA LessIsLost ==
    ASSUME Fo!ForwarderAssumption, ForwarderTypes, NEW S, NEW T \in SUBSET S
    PROVE  Cardinality(spooled \ S) \in Nat /\ Cardinality(spooled \ T) \in Nat
           /\ Cardinality(spooled \ S) <= Cardinality(spooled \ T)
<1>1. IsFiniteSet(Completions) /\ spooled \in SUBSET Completions
    BY DEF Fo!ForwarderAssumption, Fo!IsFiniteSet, IsFiniteSet, ForwarderTypes
<1>2. IsFiniteSet(spooled)
    BY <1>1, FS_Subset
<1>3. spooled \ T \in SUBSET spooled /\ spooled \ S \in SUBSET (spooled \ T)
    OBVIOUS
<1>4. IsFiniteSet(spooled \ T)
    BY <1>2, <1>3, FS_Subset
<1>5. IsFiniteSet(spooled \ S) /\ Cardinality(spooled \ S) <= Cardinality(spooled \ T)
    BY <1>3, <1>4, FS_Subset
<1>. QED  BY <1>4, <1>5, FS_CardinalityType

\* forward_once, the request: what the collector takes it has.
LEMMA SendStep ==
    ASSUME Fo!ForwarderAssumption, ForwarderInv, Fo!Send \/ Fo!SendFails
    PROVE  ForwarderInv'
<1>. USE DEF ForwarderInv
<1>. DEFINE ids == Fo!Ids(forward.batch)
            status == Fo!Answer(ids)
<1>1. /\ forward.pc = "send"
      /\ collected' = collected \/ collected' = collected \cup ids
      /\ UNCHANGED <<time, logged, poll, spool, high, metrics, spooled, observed, blind, life, state, refused>>
    BY DEF Fo!Send, Fo!SendFails, Fo!reader
<1>2. \/ forward' = Fo!Nobody
      \/ /\ forward' = [forward EXCEPT !.pc = "save", !.status = status]
         /\ status = 202 => collected' = collected \cup ids
    BY DEF Fo!Send, Fo!SendFails
<1>3. status \in {202, 422}
    BY DEF Fo!Answer
<1>. HIDE DEF status
<1>4. forward # Fo!Nobody /\ forward \in Forwards /\ ids \subseteq spooled
    BY <1>1 DEF BatchRight, Fo!Nobody
<1>5. ForwarderTypes'
    BY <1>1, <1>4 DEF ForwarderTypes
<1>6. SpoolRight' /\ PollRight' /\ Seen'
    BY <1>1 DEF SpoolRight, PollRight, Seen
<1>7. Counted'
    <2>. DEFINE T == Fo!Ids(spool) \cup collected \cup refused
                S == Fo!Ids(spool) \cup collected' \cup refused
    <2>1. T \in SUBSET S
        BY <1>1
    <2>2. /\ Cardinality(spooled \ S) \in Nat /\ Cardinality(spooled \ T) \in Nat
          /\ Cardinality(spooled \ S) <= Cardinality(spooled \ T)
        BY <2>1, LessIsLost
    <2>3. metrics.expired \in Nat /\ metrics.dropped \in Nat
        BY DEF ForwarderTypes, Metrics
    <2>4. life = 1 => Cardinality(spooled \ T) <= metrics.expired + metrics.dropped
        BY DEF Counted
    <2>5. life = 1 => Cardinality(spooled \ S) <= metrics.expired + metrics.dropped
        BY <2>2, <2>3, <2>4
    <2>. QED  BY <1>1, <2>5 DEF Counted, Fo!Expires
<1>8. CASE forward' = Fo!Nobody
    BY <1>5, <1>6, <1>7, <1>8 DEF BatchRight
<1>9. CASE forward' = [forward EXCEPT !.pc = "save", !.status = status] /\ (status = 202 => collected' = collected \cup ids)
    <2>1. /\ forward' \in Forwards /\ forward'.pc = "save" /\ forward'.status = status
          /\ forward'.batch = forward.batch /\ forward'.next = forward.next
        <3>1. forward' = [pc |-> "save", batch |-> forward.batch, next |-> forward.next, status |-> status]
            BY <1>4, <1>9 DEF Forwards
        <3>2. status \in {0, 202} \cup Fo!Refusals
            BY <1>3 DEF Fo!Refusals
        <3>. QED  BY <1>4, <3>1, <3>2 DEF Forwards
    <2>2. status = 202 => ids \subseteq collected'
        BY <1>9
    <2>. HIDE DEF ids
    <2>3. Fo!Ids(forward'.batch) = ids
        BY <2>1 DEF ids
    <2>4. BatchRight'
        BY <1>1, <1>3, <1>4, <2>1, <2>2, <2>3 DEF BatchRight, Fo!Expires, ids
    <2>. QED  BY <1>5, <1>6, <1>7, <2>4
<1>. QED  BY <1>2, <1>8, <1>9

\* forward_once, the cursor: what it passes over the collector has, or has refused and it is counted.
LEMMA SaveStep ==
    ASSUME Fo!ForwarderAssumption, ForwarderInv, Fo!Save
    PROVE  ForwarderInv'
<1>. USE DEF ForwarderInv
<1>. DEFINE ids == Fo!Ids(forward.batch)
            n == Cardinality(forward.batch)
            good == forward.status \in Fo!Refusals
<1>1. /\ forward.pc = "save" /\ forward' = Fo!Nobody
      /\ refused' = IF good THEN refused \cup ids ELSE refused
      /\ UNCHANGED <<time, logged, poll, spool, high, metrics, spooled, observed, blind, life, collected>>
      /\ state' = [cursor |-> IF forward.status \in {0, 202} \cup Fo!Refusals THEN forward.next ELSE state.cursor,
                   acknowledged |-> state.acknowledged + IF forward.status = 202 THEN n ELSE 0,
                   rejected |-> state.rejected + IF good THEN n ELSE 0]
    BY DEF Fo!Save, Fo!reader, Fo!Cardinality, Cardinality
<1>2. /\ forward \in Forwards /\ ids \subseteq spooled
      /\ forward.status = 0 => forward.batch = {}
      /\ forward.status = 202 => ids \subseteq collected
    BY <1>1 DEF BatchRight, Fo!Nobody
<1>3. PICK h \in Nat : forward.batch \in Table(h, Completions)
    BY <1>1 DEF BatchRight, Fo!Nobody
<1>4. n \in Nat /\ IsFiniteSet(ids) /\ Cardinality(ids) <= n /\ Cardinality(ids) \in Nat
    BY <1>3, IdsCount, PartOfTable, FS_CardinalityType
<1>5. forward.next \in Nat /\ forward.status \in {0, 202} \cup Fo!Refusals /\ 202 \notin Fo!Refusals /\ 0 \notin Fo!Refusals
    BY <1>2 DEF Forwards, Fo!Refusals
<1>6. state \in Cursors /\ metrics \in Metrics
    BY DEF ForwarderTypes
<1>7. ASSUME life = 1
      PROVE  /\ state.cursor <= forward.next /\ forward.next <= high /\ n <= forward.next - state.cursor
             /\ \A r \in spool : state.cursor < r.seq /\ r.seq <= forward.next
                                 => r \in forward.batch \/ Fo!Expires(r.id) <= time
    BY <1>1, <1>7 DEF BatchRight, Fo!Nobody
<1>. HIDE DEF ids, n
<1>8. /\ state'.cursor = forward.next /\ state' \in Cursors
      /\ state'.rejected = state.rejected + IF good THEN n ELSE 0
      /\ state'.acknowledged = state.acknowledged + IF forward.status = 202 THEN n ELSE 0
    BY <1>1, <1>4, <1>5, <1>6 DEF Cursors
<1>9. ForwarderTypes'
    <2>1. IsFiniteSet(Completions) /\ refused \in SUBSET Completions
        BY DEF Fo!ForwarderAssumption, Fo!IsFiniteSet, IsFiniteSet, ForwarderTypes
    <2>2. IsFiniteSet(refused)
        BY <2>1, FS_Subset
    <2>3. Cardinality(refused) \in Nat
        BY <2>2, FS_CardinalityType
    <2>4. refused \cup ids \in SUBSET (refused \cup ids)
        OBVIOUS
    <2>5. Cardinality(refused \cup ids) \in Nat /\ Cardinality(refused \cup ids) <= Cardinality(refused) + Cardinality(ids)
        BY <1>4, <2>2, <2>4, AtMostSum
    <2>6. Cardinality(refused) <= state.rejected /\ state.rejected \in Nat
        BY <1>6 DEF ForwarderTypes, Cursors
    <2>7. Cardinality(refused') <= state'.rejected
        BY <1>1, <1>4, <1>8, <2>3, <2>5, <2>6
    <2>8. refused' \subseteq spooled
        BY <1>1, <1>2 DEF ForwarderTypes
    <2>. QED  BY <1>1, <1>8, <2>7, <2>8 DEF ForwarderTypes
<1>10. SpoolRight' /\ PollRight' /\ Seen' /\ BatchRight'
    BY <1>1 DEF SpoolRight, PollRight, Seen, BatchRight
<1>11. Counted'
    <2>. SUFFICES ASSUME life = 1 PROVE Counted'
        BY <1>1 DEF Counted
    <2>. DEFINE T == Fo!Ids(spool) \cup collected \cup refused
                S == Fo!Ids(spool) \cup collected \cup refused'
    <2>1. T \in SUBSET S
        BY <1>1
    <2>2. /\ Cardinality(spooled \ S) \in Nat /\ Cardinality(spooled \ T) \in Nat
          /\ Cardinality(spooled \ S) <= Cardinality(spooled \ T)
        BY <2>1, LessIsLost
    <2>3. metrics.expired \in Nat /\ metrics.dropped \in Nat
        BY <1>6 DEF Metrics
    <2>4. Cardinality(spooled \ T) <= metrics.expired + metrics.dropped
        BY DEF Counted
    <2>5. Cardinality(spooled \ S) <= metrics.expired + metrics.dropped
        BY <2>2, <2>3, <2>4
    <2>6. \A r \in spool : r.seq <= forward.next => r.id \in collected \cup refused' \/ Fo!Expires(r.id) <= time
        <3>. SUFFICES ASSUME NEW r \in spool, r.seq <= forward.next, ~ (Fo!Expires(r.id) <= time)
                      PROVE  r.id \in collected \cup refused'
            OBVIOUS
        <3>1. r.seq \in Nat /\ state.cursor \in Nat
            BY <1>6 DEF Cursors, SpoolRight, Table
        <3>2. CASE r.seq <= state.cursor
            BY <1>1, <3>2 DEF Counted
        <3>3. CASE r.seq > state.cursor
            <4>1. r \in forward.batch
                BY <1>7, <3>1, <3>3
            <4>2. r.id \in ids
                BY <4>1 DEF ids, Fo!Ids
            <4>. QED  BY <1>1, <1>2, <1>5, <4>1, <4>2
        <3>. QED  BY <3>1, <3>2, <3>3
    <2>7. state'.acknowledged <= forward.next
        BY <1>4, <1>5, <1>6, <1>7, <1>8 DEF Counted, Cursors
    <2>. QED  BY <1>1, <1>7, <1>8, <2>5, <2>6, <2>7 DEF Counted, Fo!Expires
<1>. QED  BY <1>9, <1>10, <1>11

\* What is logged anew is logged now.
LEMMA LogStep ==
    ASSUME Fo!ForwarderAssumption, ForwarderInv, NEW c \in Completions, Fo!Log(c)
    PROVE  ForwarderInv'
<1>. USE DEF ForwarderInv
<1>1. /\ logged' = [d \in DOMAIN logged \cup {c} |-> IF d = c THEN time ELSE logged[d]] /\ c \notin DOMAIN logged
      /\ UNCHANGED <<time, poll, spool, high, metrics, spooled, observed, blind, life, forward, state, collected, refused>>
    BY DEF Fo!Log, Fo!reader, Fo!sender
<1>2. /\ DOMAIN logged' = DOMAIN logged \cup {c} /\ logged'[c] = time
      /\ \A d \in DOMAIN logged : logged'[d] = logged[d]
    BY <1>1
<1>3. \A r \in spool : r.id \in DOMAIN logged /\ (Fo!Expires(r.id) <= time => (Fo!Expires(r.id) <= time)')
    BY <1>1, <1>2 DEF SpoolRight, ForwarderTypes, Fo!Ids, Fo!Expires
<1>4. ForwarderTypes'
    BY <1>1, <1>2 DEF ForwarderTypes
<1>5. SpoolRight'
    BY <1>1 DEF SpoolRight
<1>6. PollRight'
    BY <1>1, <1>2 DEF PollRight
<1>7. Seen'
    BY <1>1, <1>2 DEF Seen
<1>8. BatchRight'
    BY <1>1, <1>3 DEF BatchRight
<1>9. Counted'
    BY <1>1, <1>3 DEF Counted
<1>. QED  BY <1>4, <1>5, <1>6, <1>7, <1>8, <1>9

\* collect: what a poll returns, and what it misses when it is cut short.
LEMMA CollectStep ==
    ASSUME Fo!ForwarderAssumption, ForwarderInv, Fo!Collect
    PROVE  ForwarderInv'
<1>. USE DEF ForwarderInv
<1>. DEFINE all == {c \in DOMAIN logged : logged[c] >= poll.start - Lookback}
<1>1. /\ poll.pc = "reading" /\ blind' = blind \cup {time}
      /\ UNCHANGED <<time, logged, spool, high, metrics, spooled, life, forward, state, collected, refused>>
    BY DEF Fo!Collect, Fo!sender
<1>2. PICK got \in SUBSET all :
        /\ poll' = [pc |-> "read", start |-> poll.start, events |-> got, incomplete |-> got # all]
        /\ observed' = observed \cup got
    BY DEF Fo!Collect
<1>3. poll # Fo!Nobody /\ poll.start \in Nat /\ poll.start <= time
    BY <1>1 DEF PollRight, Polls, Fo!Nobody
<1>. DEFINE broken == got # all
<1>4. broken \in BOOLEAN /\ (~ broken => got = all)
    OBVIOUS
<1>. HIDE DEF broken
<1>5. poll' = [pc |-> "read", start |-> poll.start, events |-> got, incomplete |-> broken]
    BY <1>2 DEF broken
<1>6. got \in SUBSET Completions /\ got \subseteq DOMAIN logged
    BY <1>2 DEF ForwarderTypes
<1>7. poll' \in Polls
    BY <1>3, <1>4, <1>5, <1>6 DEF Polls
<1>8. poll'.incomplete \/ \A c \in DOMAIN logged \ observed' : logged[c] < poll'.start - Lookback \/ logged[c] \in blind'
    <2>1. CASE broken
        BY <1>5, <2>1
    <2>2. CASE ~ broken
        <3>1. \A c \in DOMAIN logged \ observed' : ~ (logged[c] >= poll.start - Lookback)
            BY <1>2, <1>4, <2>2
        <3>2. \A c \in DOMAIN logged : logged[c] \in Nat
            BY DEF ForwarderTypes
        <3>3. poll'.start = poll.start /\ Lookback \in Nat
            BY <1>5 DEF Fo!ForwarderAssumption
        <3>. QED  BY <1>3, <3>1, <3>2, <3>3
    <2>. QED  BY <1>4, <2>1, <2>2
<1>9. PollRight'
    BY <1>1, <1>3, <1>5, <1>6, <1>7, <1>8 DEF PollRight
<1>10. ForwarderTypes' /\ SpoolRight' /\ BatchRight' /\ Counted'
    BY <1>1 DEF ForwarderTypes, SpoolRight, BatchRight, Counted, Fo!Expires
<1>11. Seen'
    BY <1>1, <1>2 DEF Seen
<1>. QED  BY <1>9, <1>10, <1>11

\* The clock moves: more rows have expired, none has come.
LEMMA TickStep ==
    ASSUME Fo!ForwarderAssumption, ForwarderInv, Fo!Tick
    PROVE  ForwarderInv'
<1>. USE DEF ForwarderInv
<1>1. /\ time' = time + 1 /\ time \in Nat
      /\ blind' = IF poll.pc = "read" THEN blind \cup {time'} ELSE blind
      /\ UNCHANGED <<logged, poll, spool, high, metrics, spooled, observed, life, forward, state, collected, refused>>
    BY DEF Fo!Tick, Fo!sender, ForwarderTypes
<1>2. \A r \in spool : Fo!Expires(r.id) \in Int
    BY DEF Fo!Expires, ForwarderTypes, SpoolRight, Fo!Ids, Fo!ForwarderAssumption
<1>3. \A r \in spool : Fo!Expires(r.id) <= time => (Fo!Expires(r.id) <= time)'
    BY <1>1, <1>2 DEF Fo!Expires
<1>4. ForwarderTypes'
    BY <1>1 DEF ForwarderTypes
<1>5. SpoolRight'
    BY <1>1 DEF SpoolRight
<1>6. PollRight'
    BY <1>1 DEF PollRight, Polls, Fo!Nobody
<1>7. Seen'
    BY <1>1 DEF Seen, ForwarderTypes, Metrics
<1>8. BatchRight'
    BY <1>1, <1>3 DEF BatchRight
<1>9. Counted'
    BY <1>1, <1>3 DEF Counted
<1>. QED  BY <1>4, <1>5, <1>6, <1>7, <1>8, <1>9

\* A process dies, or the spool is created again.
LEMMA FaultStep ==
    ASSUME Fo!ForwarderAssumption, ForwarderInv,
           Fo!PollBegin \/ Fo!ReaderDies \/ Fo!ForwarderDies \/ Fo!NewSpool \/ UNCHANGED Fo!vars
    PROVE  ForwarderInv'
<1>. USE DEF ForwarderInv
<1>1. CASE UNCHANGED Fo!vars
    BY <1>1 DEF Fo!vars, ForwarderTypes, SpoolRight, PollRight, Seen, BatchRight, Counted, Fo!Expires
<1>2. CASE Fo!PollBegin \/ Fo!ReaderDies
    <2>1. /\ poll' = Fo!Nobody \/ poll' = [pc |-> "reading", start |-> time]
          /\ UNCHANGED <<time, logged, spool, high, metrics, spooled, observed, blind, life, forward, state, collected, refused>>
        BY <1>2 DEF Fo!PollBegin, Fo!ReaderDies, Fo!sender
    <2>2. PollRight'
        BY <2>1 DEF PollRight, Polls, Fo!Nobody, ForwarderTypes
    <2>3. ForwarderTypes' /\ SpoolRight' /\ BatchRight' /\ Counted' /\ Seen'
        BY <2>1 DEF ForwarderTypes, SpoolRight, BatchRight, Counted, Seen, Fo!Expires
    <2>. QED  BY <2>2, <2>3
<1>3. CASE Fo!ForwarderDies
    BY <1>3 DEF Fo!ForwarderDies, Fo!reader, ForwarderTypes, SpoolRight, PollRight, Seen, BatchRight, Counted, Fo!Expires
<1>4. CASE Fo!NewSpool
    <2>1. /\ life' = life + 1 /\ spool' = {} /\ high' = 0 /\ metrics' = Fo!NoMetrics /\ poll' = Fo!Nobody
          /\ UNCHANGED <<time, logged, spooled, observed, blind, forward, state, collected, refused>>
        BY <1>4 DEF Fo!NewSpool, Fo!sender
    <2>2. life' # 1 /\ life' \in Nat \ {0}
        BY <2>1 DEF ForwarderTypes
    <2>3. {} \in Table(0, Completions) /\ Cardinality({}) = 0
        BY FS_EmptySet DEF Table
    <2>4. ForwarderTypes'
        BY <2>1, <2>2 DEF ForwarderTypes, Metrics, Fo!NoMetrics
    <2>5. SpoolRight'
        BY <2>1, <2>3 DEF SpoolRight, Fo!Ids, Fo!ForwarderAssumption
    <2>6. PollRight' /\ Seen' /\ Counted'
        BY <2>1, <2>2 DEF PollRight, Polls, Fo!Nobody, Seen, Counted
    <2>7. BatchRight'
        BY <2>1, <2>2 DEF BatchRight
    <2>. QED  BY <2>4, <2>5, <2>6, <2>7
<1>. QED  BY <1>1, <1>2, <1>3, <1>4

\* Every step.
LEMMA ForwarderStep ==
    ASSUME Fo!ForwarderAssumption, ForwarderInv, [Fo!Next]_(Fo!vars)
    PROVE  ForwarderInv'
BY LogStep, CollectStep, IngestStep, FetchStep, SendStep, SaveStep, TickStep, FaultStep DEF Fo!Next, Fo!Forward

\* The invariant says what the run checks.
LEMMA InvCounts ==
    ASSUME Fo!ForwarderAssumption, ForwarderInv
    PROVE  Fo!NothingLostSilently
<1>. USE DEF ForwarderInv
<1>1. Fo!TypeOK
    BY DEF Fo!TypeOK, ForwarderTypes, Cursors, SpoolRight, Table, Fo!Cardinality, Cardinality
<1>2. Fo!RowsAccounted
    <2>1. life = 1 => state.acknowledged <= high
        BY DEF Counted, ForwarderTypes, Cursors
    <2>. QED  BY <2>1 DEF Fo!RowsAccounted, Counted, ForwarderTypes, Fo!Cardinality, Cardinality
<1>3. Fo!UnseenIsMeasured
    <2>. SUFFICES ASSUME life = 1, NEW c \in DOMAIN logged \ observed, metrics.last # None,
                         logged[c] \in metrics.started..(metrics.last - 1), logged[c] \notin blind
                  PROVE  metrics.unobserved > 0 \/ metrics.incomplete > 0
        BY DEF Fo!UnseenIsMeasured
    <2>1. metrics.last \in Nat /\ metrics.started \in Int /\ logged[c] \in Nat
        BY DEF ForwarderTypes, Metrics, Seen
    <2>. QED  BY <2>1 DEF Seen
<1>. QED  BY <1>1, <1>2, <1>3 DEF Fo!NothingLostSilently

\* The same of the forwarder's part.
LEMMA ForwarderAlone == ServicesSpec => Fo!Spec
<1>1. ServicesInit => Fo!Init
  BY DEF ServicesInit
<1>2. [ServicesNext]_allVars => [Fo!Next]_(Fo!vars)
  BY DEF ServicesNext, allVars, forwarder, Fo!vars
<1> QED
  BY <1>1, <1>2, PTL DEF ServicesSpec, Fo!Spec

\* Whatever is refused, lost, repeated, trimmed or expires on the way, and whoever dies: what
\* was ever in one spool is still to be read, handed over, or counted, the cursor passes over
\* nothing, and what no poll has seen is measured (Spool.ingest, Spool.read, forward_once).
THEOREM RowsAreCounted == ServicesSpec => []NothingLostSilently
<1>1. Fo!Init => ForwarderInv
    BY ForwarderInitially, ServicesAssumption
<1>2. ForwarderInv /\ [Fo!Next]_(Fo!vars) => ForwarderInv'
    BY ForwarderStep, ServicesAssumption
<1>3. ForwarderInv => NothingLostSilently
    BY InvCounts, ServicesAssumption DEF NothingLostSilently
<1>. QED  BY <1>1, <1>2, <1>3, ForwarderAlone, PTL DEF Fo!Spec

=============================================================================
