-------------------------------- MODULE Hive --------------------------------
(***************************************************************************)
(* Registration of a release's aggregates as external Hive tables.  The    *)
(* analysis node holds all authority: it writes down what it intends, and  *)
(* asks a live coordinator to have one request at a time carried out by a  *)
(* Spark driver on the control node.  That driver may outlive the session  *)
(* that asked for it.                                                      *)
(***************************************************************************)
EXTENDS Integers, FiniteSets, Sequences, TLC

CONSTANTS
    Expiry,         \* releases, with the moment their aggregates expire
    Groups,         \* a release has one table for each
    Window,         \* a request is good for ten minutes
    None,
    MaxNow,         \* bound: the clock
    MaxDrivers,     \* bound: drivers at a time
    MaxFaults       \* bound: dead sessions and drivers, registrations from elsewhere

HiveAssumption ==
    /\ Window \in Nat \ {0} /\ Expiry \in [DOMAIN Expiry -> Int] /\ MaxDrivers \in Nat
    /\ None \notin Nat /\ None \notin {"reserved", "verified"}

Releases == DOMAIN Expiry
Tables == Releases \X Groups
Of(r) == {r} \X Groups
ExpiredAt(t, moment) == Expiry[t[1]] <= moment

VARIABLES
    now,
    intent,     \* hive-catalog.json: None, "reserved" or "verified"
    backend,    \* tables registered in the authority's registry
    other,      \* version of what else the registry holds
    catalog,    \* tables that exist
    session,    \* the operation under way
    drivers,    \* requests being carried out
    receipt,    \* moment of the last cleanup that has succeeded
    acknowledged,   \* releases whose registration was reported a success
    late,       \* history: tables made by a driver nobody waited for any more
    half,       \* history: a reservation was interrupted between its two writes
    faults

vars == <<now, intent, backend, other, catalog, session, drivers, receipt, acknowledged, late, half, faults>>
authority == <<intent, backend, other>>
Idle == [todo |-> << >>]

Init ==
    /\ now = 0 /\ intent = [t \in Tables |-> None] /\ backend = {} /\ other = 0 /\ catalog = {}
    /\ session = Idle /\ drivers = {} /\ receipt = None /\ acknowledged = {} /\ late = {}
    /\ half = FALSE /\ faults = 0

Intended == {t \in Tables : intent[t] # None}

-----------------------------------------------------------------------------
(* The operation on the analysis node. *)

Program(op) ==
    CASE op = "register" -> <<"cleanup", "reserve", "backend", "cleanup", "register", "verified", "cleanup">>
      [] op = "verify" -> <<"cleanup", "planned", "cleanup", "verify", "verified", "cleanup">>
      [] op = "cleanup" -> <<"cleanup">>

\* execute, under its two locks; every operation cleans up first.
Begin(op, r) ==
    /\ session = Idle
    /\ session' = [op |-> op, r |-> r, todo |-> Program(op), wait |-> 0, until |-> now + 2 * Window]
    /\ UNCHANGED <<now, authority, catalog, drivers, receipt, acknowledged, late, half, faults>>

At(step) == session # Idle /\ session.wait = 0 /\ Head(session.todo) = step
Onward == IF Len(session.todo) = 1 THEN Idle ELSE [session EXCEPT !.todo = Tail(@), !.wait = 0]

\* A refusal ends the operation; the coordinator stops the driver it waited for.
Fail ==
    /\ session # Idle /\ session' = Idle
    /\ drivers' = {d \in drivers : d.id # session.wait}
    /\ UNCHANGED <<now, authority, catalog, receipt, acknowledged, late, half, faults>>

\* reserve writes all intents first, then registers the tables one by one.
Reserve ==
    /\ At("reserve") /\ ~ ExpiredAt(<<session.r>>, now)
    /\ intent' = [t \in Tables |-> IF t \in Of(session.r) /\ intent[t] = None THEN "reserved" ELSE intent[t]]
    /\ session' = Onward
    /\ UNCHANGED <<now, backend, other, catalog, drivers, receipt, acknowledged, late, half, faults>>
RegisterBackend ==
    /\ At("backend")
    /\ IF Of(session.r) \subseteq backend THEN session' = Onward /\ UNCHANGED backend
       ELSE /\ \E t \in Of(session.r) \ backend : backend' = backend \union {t}
            /\ UNCHANGED session
    /\ UNCHANGED <<now, intent, other, catalog, drivers, receipt, acknowledged, late, half, faults>>
\* verify_only: nothing new is reserved.
Planned ==
    /\ At("planned") /\ ~ ExpiredAt(<<session.r>>, now)
    /\ \A t \in Of(session.r) : intent[t] = "verified"
    /\ session' = Onward
    /\ UNCHANGED <<now, authority, catalog, drivers, receipt, acknowledged, late, half, faults>>
Verified ==
    /\ At("verified")
    /\ intent' = [t \in Tables |-> IF t \in Of(session.r) THEN "verified" ELSE intent[t]]
    /\ session' = Onward
    /\ UNCHANGED <<now, backend, other, catalog, drivers, receipt, acknowledged, late, half, faults>>

\* A cleanup asks for every registered table, and refuses when those are not the intended ones.
Exact == backend = Intended
Request(action) ==
    [id |-> CHOOSE i \in 1..MaxDrivers : \A d \in drivers : d.id # i, action |-> action,
     tables |-> IF action = "cleanup" THEN Intended ELSE Of(session.r),
     known |-> Intended, verified |-> {t \in Tables : intent[t] = "verified"},
     at |-> now, scope |-> authority, pc |-> "inspect", item |-> None, seen |-> {}, done |-> {}]
Ask(action) ==
    /\ At(action) /\ action \in {"cleanup", "register", "verify"} /\ now < session.until
    /\ Cardinality(drivers) < MaxDrivers /\ (action = "cleanup" => Exact)
    /\ drivers' = drivers \union {Request(action)}
    /\ session' = [session EXCEPT !.wait = Request(action).id]
    /\ UNCHANGED <<now, authority, catalog, receipt, acknowledged, late, half, faults>>

\* The reply is taken by the request that waits for it, in time, and only if the
\* authority has not changed meanwhile.
Reply(d) ==
    /\ session # Idle /\ session.wait = d.id /\ d.pc = "done"
    /\ now < session.until /\ now < d.at + Window /\ d.scope = authority
    /\ session' = Onward
    /\ receipt' = IF d.action = "cleanup" THEN d.at ELSE receipt
    /\ acknowledged' = IF session.op = "register" /\ Len(session.todo) = 1
                       THEN acknowledged \union {session.r} ELSE acknowledged
    /\ drivers' = drivers \ {d}
    /\ UNCHANGED <<now, authority, catalog, late, half, faults>>

\* The session is lost, its driver perhaps not stopped.
SessionDies ==
    /\ session # Idle /\ faults < MaxFaults /\ faults' = faults + 1
    /\ session' = Idle
    /\ half' = (half \/ (Head(session.todo) = "backend" /\ backend # Intended))
    /\ UNCHANGED <<now, authority, catalog, drivers, receipt, acknowledged, late>>

\* The registry gets an entry from elsewhere.
Elsewhere ==
    /\ faults < MaxFaults /\ faults' = faults + 1 /\ other' = other + 1
    /\ UNCHANGED <<now, intent, backend, catalog, session, drivers, receipt, acknowledged, late, half>>

-----------------------------------------------------------------------------
(* The driver on the control node: operate. *)

waiting(d) == session # Idle /\ session.wait = d.id
Valid(d) == now < d.at + Window /\ (d.action # "cleanup" => \A t \in d.tables : ~ ExpiredAt(t, now))
Becomes(d, e) == drivers' = (drivers \ {d}) \union {e}

\* A driver that fails, is timed out or killed.
DriverEnds(d) ==
    /\ drivers' = drivers \ {d}
    /\ session' = IF waiting(d) THEN Idle ELSE session
    /\ UNCHANGED <<now, authority, catalog, receipt, acknowledged, late, half, faults>>

Inspect(d) ==
    /\ d.pc = "inspect" /\ Valid(d) /\ catalog \subseteq d.known
    /\ Becomes(d, [d EXCEPT !.pc = "next", !.seen = catalog \intersect d.tables])
    /\ UNCHANGED <<now, authority, catalog, session, receipt, acknowledged, late, half, faults>>
\* Before each table the request is looked at again; the table is acted on a moment later.
Check(d) ==
    /\ d.pc = "next"
    /\ IF d.done = d.tables THEN Becomes(d, [d EXCEPT !.pc = "done"])
       ELSE /\ Valid(d)
            /\ LET t == CHOOSE t \in d.tables : t \notin d.done
               IN  Becomes(d, [d EXCEPT !.pc = "act", !.item = [table |-> t, expired |-> ExpiredAt(t, now)]])
    /\ UNCHANGED <<now, authority, catalog, session, receipt, acknowledged, late, half, faults>>

Did(d) == Becomes(d, [d EXCEPT !.pc = "next", !.item = None, !.done = @ \union {d.item.table}])

AnyAge(d, t) == t \notin d.verified \/ d.item.expired     \* mutant: what is not verified goes as well
Droppable(d, t) == d.item.expired
Clean(d) ==
    /\ d.pc = "act" /\ d.action = "cleanup"
    /\ LET t == d.item.table
       IN  IF Droppable(d, t) THEN catalog' = IF t \in d.seen THEN catalog \ {t} ELSE catalog
           ELSE (t \in d.verified => t \in d.seen) /\ UNCHANGED catalog
    /\ Did(d)
    /\ UNCHANGED <<now, authority, session, receipt, acknowledged, late, half, faults>>
\* create, inspect again, and read the rows before they expire.
Create(d) ==
    /\ d.pc = "act" /\ d.action = "register" /\ d.item.table \notin d.seen /\ d.item.table \notin catalog
    /\ catalog' = catalog \union {d.item.table}
    /\ late' = IF waiting(d) THEN late ELSE late \union {d.item.table}
    /\ Becomes(d, [d EXCEPT !.seen = @ \union {d.item.table}])
    /\ UNCHANGED <<now, authority, session, receipt, acknowledged, half, faults>>
Read(d) ==
    /\ d.pc = "act" /\ d.action # "cleanup" /\ d.item.table \in d.seen \intersect catalog
    /\ ~ ExpiredAt(d.item.table, now)
    /\ Did(d)
    /\ UNCHANGED <<now, authority, catalog, session, receipt, acknowledged, late, half, faults>>

Tick ==
    /\ now < MaxNow /\ now' = now + 1
    /\ UNCHANGED <<authority, catalog, session, drivers, receipt, acknowledged, late, half, faults>>

\* What an operation and its driver do of themselves.
Steps ==
    \/ Reserve \/ RegisterBackend \/ Planned \/ Verified
    \/ \E action \in {"cleanup", "register", "verify"} : Ask(action)
    \/ \E d \in drivers : Reply(d) \/ Inspect(d) \/ Check(d) \/ Clean(d) \/ Create(d) \/ Read(d)

Next ==
    \/ Steps \/ Fail \/ SessionDies \/ Elsewhere \/ Tick
    \/ \E op \in {"register", "verify", "cleanup"}, r \in Releases : Begin(op, r)
    \/ \E d \in drivers : DriverEnds(d)

Spec == Init /\ [][Next]_vars

\* The release is registered again and again; after the one lost session an operation
\* goes on while it can and nothing fails but what is refused.
Refused == Fail /\ ~ ENABLED Steps
Retry == Steps \/ Refused \/ SessionDies \/ \E r \in Releases : Begin("register", r)
FairSpec ==
    /\ Init /\ [][Retry]_vars
    /\ WF_vars(Steps) /\ WF_vars(Refused) /\ \A r \in Releases : WF_vars(Begin("register", r))

-----------------------------------------------------------------------------
(* Correctness. *)

\* No table exists that was not written down and registered for expiry before; a cleanup's
\* word holds, that nothing expired at its moment is left, except for a table made by a
\* driver whose session was already gone; and a release reported as registered has its
\* tables, all verified, until they expire, whoever dies and whatever cleans up (reserve,
\* operate, purge_and_verify).
CatalogSound ==
    /\ catalog \subseteq Intended \intersect backend
    /\ receipt # None => \A t \in catalog : ~ ExpiredAt(t, receipt) \/ t \in late
    /\ \A r \in acknowledged : \A t \in Of(r) :
          intent[t] = "verified" /\ (t \in catalog \/ ExpiredAt(t, now))

\* A reservation interrupted between its two writes is completed by registering the
\* release again, as the comment in reserve says.
ReservationRecovers == half ~> Exact
=============================================================================
