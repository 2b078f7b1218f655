------------------------------ MODULE Browser ------------------------------
(***************************************************************************)
(* The browser adapter in the tabs of one origin: they share what is in    *)
(* storage (the consent and the anonymous identity) and learn of each      *)
(* other's changes by events that arrive later.  A handler runs to its end *)
(* before another one of any tab; only a request is waited for.            *)
(***************************************************************************)
EXTENDS Integers, SequencesExt

CONSTANTS
    Tabs,
    Capacity,       \* events in a queue (20)
    BatchSize,      \* events in a request (10)
    Grant,          \* how long a consent lasts (30 days)
    None,
    MaxNow,         \* bound: the clock
    MaxEvents,      \* bound: events
    MaxWithdrawals  \* bound: consents withdrawn

BrowserAssumption ==
    /\ Capacity \in Nat \ {0} /\ BatchSize \in Nat \ {0} /\ Grant \in Nat \ {0}
    /\ None \notin Nat

VARIABLES
    now,
    consent,    \* localStorage: when the consent ends; 0 when refused or absent
    stored,     \* localStorage: the anonymous identity, named by the withdrawals before it was made
    tab,        \* per tab: closed, open without an adapter ("off"), or with one ("on")
    mind,       \* the identity an adapter remembers
    queue, flight, timer,
    notice,     \* tabs with a storage event that they have not handled
    withdrawals,    \* history: consents withdrawn so far
    overlap,    \* history: a consent was given while the adapter of a withdrawn one was on
    events      \* history: events made so far

vars == <<now, consent, stored, tab, mind, queue, flight, timer, notice, withdrawals, overlap, events>>
work == <<queue, flight, timer>>

Init ==
    /\ now = 1 /\ consent = 0 /\ stored = None
    /\ tab = [t \in Tabs |-> "closed"] /\ mind = [t \in Tabs |-> None]
    /\ queue = [t \in Tabs |-> << >>] /\ flight = [t \in Tabs |-> << >>]
    /\ timer = [t \in Tabs |-> FALSE]
    /\ notice = {} /\ withdrawals = 0 /\ overlap = FALSE /\ events = 0

Permitted == consent > now
Others(t) == {u \in Tabs \ {t} : tab[u] # "closed"}

\* The adapter's memory goes: queue, identity, timers; the request is aborted.
Forget(t) ==
    /\ queue' = [queue EXCEPT ![t] = << >>] /\ flight' = [flight EXCEPT ![t] = << >>]
    /\ timer' = [timer EXCEPT ![t] = FALSE] /\ mind' = [mind EXCEPT ![t] = None]

\* mutant: stop leaves the identity in storage
LeavingStop(t) ==
    /\ Forget(t) /\ tab' = [tab EXCEPT ![t] = "off"]
    /\ consent' = 0 /\ stored' = stored
    /\ notice' = IF consent > 0 THEN (notice \ {t}) \union Others(t) ELSE notice \ {t}
\* stop, and what bootstrap adds to it: identifiers and consent leave storage.
Stop(t) ==
    /\ Forget(t) /\ tab' = [tab EXCEPT ![t] = "off"]
    /\ consent' = 0 /\ stored' = None
    /\ notice' = IF consent > 0 THEN (notice \ {t}) \union Others(t) ELSE notice \ {t}

-----------------------------------------------------------------------------
(* The page and the choice. *)

\* installAnalytics: an adapter starts, or what is left in storage goes.
Open(t) ==
    /\ tab[t] = "closed"
    /\ tab' = [tab EXCEPT ![t] = IF Permitted THEN "on" ELSE "off"]
    /\ stored' = IF Permitted THEN stored ELSE None
    /\ UNCHANGED <<now, consent, mind, work, notice, withdrawals, overlap, events>>

Close(t) ==
    /\ tab[t] # "closed"
    /\ Forget(t) /\ tab' = [tab EXCEPT ![t] = "closed"] /\ notice' = notice \ {t}
    /\ UNCHANGED <<now, consent, stored, withdrawals, overlap, events>>

\* choose(true)
Allow(t) ==
    /\ tab[t] = "off"
    /\ consent' = now + Grant
    /\ overlap' = (overlap \/ (consent = 0 /\ \E u \in Others(t) : tab[u] = "on"))
    /\ tab' = [tab EXCEPT ![t] = "on"]
    /\ notice' = notice \union Others(t)
    /\ UNCHANGED <<now, stored, mind, work, withdrawals, events>>

\* choose(false)
Withdraw(t) ==
    /\ tab[t] # "closed" /\ consent > 0 /\ withdrawals < MaxWithdrawals
    /\ Stop(t)
    /\ withdrawals' = withdrawals + 1
    /\ UNCHANGED <<now, overlap, events>>

\* A storage event, pageshow, visibilitychange or the expiry timer: watchExpiry
\* and bootstrap's handler stop unless there is a consent now.
Watch(t) ==
    /\ tab[t] # "closed" /\ (t \in notice \/ (tab[t] = "on" /\ ~ Permitted))
    /\ IF Permitted THEN notice' = notice \ {t} /\ UNCHANGED <<consent, stored, tab, mind, work>>
                    ELSE Stop(t)
    /\ UNCHANGED <<now, withdrawals, overlap, events>>

-----------------------------------------------------------------------------
(* Events. *)

Identity(t) == IF mind[t] # None THEN mind[t] ELSE IF stored # None THEN stored ELSE withdrawals

\* track; once consent is over every call stops the adapter instead.
Track(t) ==
    /\ tab[t] = "on" /\ events < MaxEvents
    /\ IF ~ Permitted THEN Stop(t) /\ UNCHANGED events
       ELSE /\ Len(queue[t]) < Capacity
            /\ events' = events + 1
            /\ stored' = Identity(t) /\ mind' = [mind EXCEPT ![t] = Identity(t)]
            /\ queue' = [queue EXCEPT ![t] = @ \o <<[id |-> events', who |-> Identity(t), attempt |-> 0]>>]
            /\ timer' = [timer EXCEPT ![t] = TRUE]
            /\ UNCHANGED <<flight, consent, tab, notice>>
    /\ UNCHANGED <<now, withdrawals, overlap>>

Batch(s) == SubSeq(s, 1, Min({BatchSize, Len(s)}))

\* The timer fires: flush starts a request unless one is under way.
Flush(t) ==
    /\ tab[t] = "on" /\ timer[t]
    /\ IF ~ Permitted THEN Stop(t)
       ELSE /\ timer' = [timer EXCEPT ![t] = FALSE]
            /\ IF flight[t] = << >> /\ queue[t] # << >>
               THEN /\ flight' = [flight EXCEPT ![t] = Batch(queue[t])]
                    /\ queue' = [queue EXCEPT ![t] = SubSeq(@, Len(Batch(@)) + 1, Len(@))]
               ELSE UNCHANGED <<flight, queue>>
            /\ UNCHANGED <<consent, stored, tab, mind, notice>>
    /\ UNCHANGED <<now, withdrawals, overlap, events>>

\* The ways to list a set of indices in increasing order (there is one).
Orderings(S, n) ==
    {f \in [1..n -> S] : /\ \A i, j \in 1..n : i < j => f[i] < f[j]
                         /\ \A s \in S : \E i \in 1..n : f[i] = s}

\* What may be sent a second time, in its order.
Retries(batch) ==
    LET again == {i \in DOMAIN batch : batch[i].attempt < 1}
        n == Cardinality(again)
    IN  {[i \in 1..n |-> [batch[f[i]] EXCEPT !.attempt = @ + 1]] : f \in Orderings(again, n)}
Cut(s) == SubSeq(s, 1, Min({Capacity, Len(s)}))
Schedule(t, q) == q # << >> \/ timer[t]

\* Any answer below 500 other than 429 ends the batch, also a refusal.
Respond(t) ==
    /\ tab[t] = "on" /\ flight[t] # << >>
    /\ flight' = [flight EXCEPT ![t] = << >>]
    /\ timer' = [timer EXCEPT ![t] = Schedule(t, queue[t])]
    /\ UNCHANGED <<now, consent, stored, tab, mind, queue, notice, withdrawals, overlap, events>>

\* 5xx, 429, a network error or the abort after 1.5 seconds.
RequestFails(t) ==
    /\ tab[t] = "on" /\ flight[t] # << >>
    /\ IF ~ Permitted THEN Stop(t)
       ELSE /\ \E again \in Retries(flight[t]) :
                 LET q == Cut(again \o queue[t])
                 IN  /\ queue' = [queue EXCEPT ![t] = q]
                     /\ timer' = [timer EXCEPT ![t] = Schedule(t, q)]
            /\ flight' = [flight EXCEPT ![t] = << >>]
            /\ UNCHANGED <<consent, stored, tab, mind, notice>>
    /\ UNCHANGED <<now, withdrawals, overlap, events>>

Tick ==
    /\ now < MaxNow
    /\ now' = now + 1
    /\ UNCHANGED <<consent, stored, tab, mind, work, notice, withdrawals, overlap, events>>

Next ==
    \/ Tick
    \/ \E t \in Tabs : \/ Open(t) \/ Close(t) \/ Allow(t) \/ Withdraw(t) \/ Watch(t)
                       \/ Track(t) \/ Flush(t) \/ Respond(t) \/ RequestFails(t)

Spec == Init /\ [][Next]_vars

-----------------------------------------------------------------------------
(* Correctness. *)

Carried(t) == ToSet(queue[t]) \union ToSet(flight[t])

\* A tab without an adapter holds nothing that could be sent or remembered, an event is
\* sent at most twice, and what is queued has a timer or a request in front of it: no
\* failure, early answer or early timer strands it (flush, its catch and finally).
QueueSound ==
    \A t \in Tabs :
        /\ tab[t] # "on" => queue[t] = << >> /\ flight[t] = << >> /\ ~ timer[t] /\ mind[t] = None
        /\ queue[t] # << >> => timer[t] \/ flight[t] # << >>
        /\ Len(queue[t]) <= Capacity
        /\ \A e \in Carried(t) : e.attempt <= 1

\* Once every tab has handled its events, a withdrawn consent means no adapter and no
\* identity in storage, whichever tab withdrew and whatever the others did since (stop,
\* bootstrap's storage handler).
WithdrawalReachesAll ==
    consent = 0 /\ notice = {} => stored = None /\ \A t \in Tabs : tab[t] # "on"

\* An identity from before a withdrawal is not used after it, unless consent was given
\* again while an adapter that had not yet heard of the withdrawal was on: that adapter
\* goes on and puts its identity back into storage (identify).
IdentityEndsWithConsent ==
    ~ overlap /\ Permitted =>
        /\ stored \in {None, withdrawals}
        /\ \A t \in Tabs : \A e \in Carried(t) : e.who = withdrawals

\* Nothing is stranded in a queue, nothing is sent thrice, and with a consent its adapters
\* and its identity end in every tab.
ConsentObeyed == QueueSound /\ WithdrawalReachesAll /\ IdentityEndsWithConsent
=============================================================================
