------------------------------ MODULE Behavior ------------------------------
(***************************************************************************)
(* Sessions and the entry funnel, as the distributed model computes them   *)
(* with joins and windows, and as the oracle of the tests does with loops. *)
(* The input is any set of events, whatever the order they come in.        *)
(***************************************************************************)
EXTENDS Integers, FiniteSets, FiniteSetsExt, SequencesExt

CONSTANTS
    Possible,   \* the events that may be accepted: [id, kind, of, who, at]
    None,       \* who of an event without an anonymous identity
    Window,     \* 30 minutes
    Cutoff

Kinds == {"click", "arrival", "select", "observed", "complete"}

BehaviorAssumption ==
    /\ Window \in Nat /\ IsFiniteSet(Possible)
    /\ \A e, f \in Possible : e.kind \in Kinds /\ {e.id, e.of, e.at} \subseteq Nat /\ (e.id = f.id => e = f)

VARIABLES
    accepted    \* of is the jump of a click or an arrival, the request of the others

vars == <<accepted>>

Init == accepted = {}

\* Duplicates are gone: an event comes once, and a request completes once.
Accept(e) ==
    /\ e \notin accepted
    /\ e.kind = "complete" => \A f \in accepted : f.kind = "complete" => f.of # e.of
    /\ accepted' = accepted \union {e}

Next == \E e \in Possible : Accept(e)

Spec == Init /\ [][Next]_vars

Events == {e \in accepted : e.at <= Cutoff}
Of(kind) == {e \in Events : e.kind = kind}
Known(kind) == {e \in Of(kind) : e.who # None}

\* orderBy(event_time, event_id), by which the oracle sorts its input too; and it sorts the
\* completions by their time and request.
Before(by, e, f) == e.at < f.at \/ (e.at = f.at /\ e[by] < f[by])
First(by, S) == CHOOSE e \in S : \A f \in S : f = e \/ Before(by, e, f)
FirstPer(S) == {First("id", {f \in S : f.of = n}) : n \in {f.of : f \in S}}     \* row_number = 1

Clicks == FirstPer(Of("click"))
Observed == FirstPer(Known("observed"))

-----------------------------------------------------------------------------
(* The model: every join is a set of rows. *)

WithinClick(row, t) == t <= row.click.at + Window

Landings ==
    {row \in [click : Clicks, arrival : Known("arrival")] :
        /\ row.arrival.of = row.click.of
        /\ row.arrival.at >= row.click.at /\ WithinClick(row, row.arrival.at)}
Arrivals == {row \in Landings : row.arrival = First("id", {o.arrival : o \in {p \in Landings : p.click = row.click}})}

FollowedBy(S) ==
    {row \in [click : Clicks, arrival : Known("arrival"), then : S] :
        /\ [click |-> row.click, arrival |-> row.arrival] \in Arrivals
        /\ row.then.who = row.arrival.who
        /\ row.then.at >= row.arrival.at /\ WithinClick(row, row.then.at)}
Requested == FollowedBy(Observed)
Selected == FollowedBy(Known("select"))

Candidates ==
    {row \in [click : Clicks, then : Observed, done : Of("complete")] :
        /\ \E r \in Requested : r.click = row.click /\ r.then = row.then
        /\ row.done.of = row.then.of
        /\ row.done.at >= row.then.at /\ WithinClick(row, row.done.at)}

\* Each success goes to its last eligible click, and only then each click keeps one success.
LaterClick(c, d) == c.at > d.at \/ (c.at = d.at /\ c.of >= d.of)
LastClicks == {row \in Candidates : \A o \in Candidates : o.done = row.done => LaterClick(row.click, o.click)}
EarlierDone(e, f) == e.at < f.at \/ (e.at = f.at /\ e.of <= f.of)
FirstSuccess(rows) == {row \in rows : \A o \in rows : o.click = row.click => EarlierDone(row.done, o.done)}
ClickFirst ==       \* mutant: each click keeps one success, then each success its last click
    LET Kept == FirstSuccess(Candidates)
    IN {row \in Kept : \A o \in Kept : o.done = row.done => LaterClick(row.click, o.click)}
Conversions == FirstSuccess(LastClicks)

Funnel ==
    [click \in Clicks |->
        [arrived |-> \E r \in Arrivals : r.click = click,
         selected |-> \E r \in Selected : r.click = click,
         requested |-> \E r \in Requested : r.click = click,
         converted |-> \E r \in Conversions : r.click = click]]

\* lag over the activity of one identity: a session starts half an hour after the last event.
Activity(who) == {e \in Events : e.who = who}
Starts(who) ==
    {e \in Activity(who) :
        LET earlier == {f \in Activity(who) : Before("id", f, e)}
        IN \A f \in earlier : (\A g \in earlier : g = f \/ Before("id", g, f)) => e.at >= f.at + Window}
Sessions(who) ==
    {{e \in Activity(who) : /\ ~ Before("id", e, s)
                          /\ \A t \in Starts(who) : Before("id", s, t) => Before("id", e, t)} : s \in Starts(who)}

-----------------------------------------------------------------------------
(* The oracle: loops over the events in order. *)

\* The first of all, then the first of the others.
Sorted(by, S) ==
    LET rest[n \in 0..Cardinality(S)] ==
            IF n = 0 THEN S ELSE LET r == rest[n - 1] IN r \ {First(by, r)}
    IN [n \in 1..Cardinality(S) |-> First(by, rest[n - 1])]

Journeys ==
    [click \in Clicks |->
        LET arrivals == Sorted("id", Known("arrival"))
            hits == {i \in DOMAIN arrivals :
                        /\ arrivals[i].of = click.of
                        /\ click.at <= arrivals[i].at /\ arrivals[i].at <= click.at + Window}
        IN IF hits = {} THEN [arrived |-> FALSE] ELSE [arrived |-> TRUE, by |-> arrivals[Min(hits)]]]

OracleCandidates(done) ==
    {click \in Clicks :
        /\ Journeys[click].arrived
        /\ \E o \in Observed :
            /\ o.of = done.of /\ o.who = Journeys[click].by.who
            /\ Journeys[click].by.at <= o.at /\ o.at <= done.at
        /\ done.at <= click.at + Window}

\* A success whose last click is already consumed is lost, it does not go to another click.
Consume(consumed, done) ==
    LET candidates == OracleCandidates(done)
        best == CHOOSE c \in candidates : \A d \in candidates : LaterClick(c, d)
    IN IF candidates = {} \/ \E r \in consumed : r.click = best THEN consumed
       ELSE consumed \union {[click |-> best, done |-> done]}

OracleConversions ==
    LET completions == Sorted("of", Of("complete"))
        consumed[n \in 0..Len(completions)] ==
            IF n = 0 THEN {} ELSE Consume(consumed[n - 1], completions[n])
    IN consumed[Len(completions)]

OracleFunnel ==
    [click \in Clicks |->
        LET journey == Journeys[click]
            Within(S) == \E e \in S : e.who = journey.by.who /\ journey.by.at <= e.at /\ e.at <= click.at + Window
        IN [arrived |-> journey.arrived,
            selected |-> journey.arrived /\ Within(Known("select")),
            requested |-> journey.arrived /\ Within(Observed),
            converted |-> \E r \in OracleConversions : r.click = click]]

Extend(groups, e) ==
    IF groups = << >> THEN <<<<e>>>>
    ELSE IF e.at - Last(Last(groups)).at >= Window THEN Append(groups, <<e>>)
    ELSE Front(groups) \o <<Append(Last(groups), e)>>

OracleSessions(who) ==
    LET times == Sorted("id", Activity(who))
        groups[n \in 0..Len(times)] == IF n = 0 THEN << >> ELSE Extend(groups[n - 1], times[n])
    IN groups[Len(times)]

-----------------------------------------------------------------------------
(* Correctness. *)

\* Model and oracle agree on conversions, funnel and sessions for every set of events, and
\* the funnel narrows, which the model itself tests before it writes (Attribution
\* reconciliation failed).
BehaviorAgrees ==
    /\ {[click |-> r.click, done |-> r.done] : r \in Conversions} = OracleConversions
    /\ Funnel = OracleFunnel
    /\ \A click \in Clicks :
        LET f == Funnel[click]
        IN (f.converted => f.requested) /\ (f.requested => f.arrived) /\ (f.selected => f.arrived)
    /\ \A who \in {e.who : e \in Events} \ {None} :
        Sessions(who) = {ToSet(g) : g \in ToSet(OracleSessions(who))}
=============================================================================
