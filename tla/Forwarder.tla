----------------------------- MODULE Forwarder -----------------------------
(***************************************************************************)
(* Completion events on their way from the product's container logs to the *)
(* collector: the reader polls the logs into a bounded spool, the          *)
(* forwarder keeps a cursor over that spool in another process and another *)
(* file, the collector answers, or does not.                               *)
(***************************************************************************)
EXTENDS Integers, FiniteSetsExt

CONSTANTS
    Completions,    \* completions the product may log
    Unlisted,       \* those with a character the collector does not list
    Lookback,       \* how far back a poll reads (600 seconds)
    Retention,      \* lifetime of a spooled row (24 hours)
    MaxRows,        \* capacity of the spool (4096)
    Limit,          \* rows per read (50)
    None,
    MaxNow,         \* bound: the clock
    MaxPolls,       \* bound: polls
    MaxFaults       \* bound: deaths of a process and new spools

ForwarderAssumption ==
    /\ Completions \subseteq Nat /\ IsFiniteSet(Completions) /\ Unlisted \subseteq Completions
    /\ None \notin Int
    /\ Lookback \in Nat /\ Retention \in Nat \ {0}
    /\ MaxRows \in Nat \ {0} /\ Limit \in Nat \ {0}

Nobody == [pc |-> "idle"]

VARIABLES
    now,
    logged,     \* container logs: time by completion
    poll,       \* the worker's poll: when it began, what it has read
    spool,      \* table events: rows of a seq and a completion
    high,       \* sqlite_sequence of that table
    metrics,    \* table metrics
    forward,    \* the forwarder between fetch and save
    state,      \* cursor.json
    collected,  \* completions the collector has accepted
    refused,    \* history: completions that cursor.json counts as rejected
    spooled,    \* history: completions that have been in the spool
    observed,   \* history: completions that some poll returned
    blind,      \* history: when a poll had read the logs and was not yet ingested
    life,       \* history: number of the spool
    polls, faults

vars == <<now, logged, poll, spool, high, metrics, forward, state, collected, refused,
          spooled, observed, blind, life, polls, faults>>
reader == <<poll, spool, high, metrics, spooled, observed, blind, life, polls>>
sender == <<forward, state, collected, refused>>

NoMetrics == [last |-> None, started |-> None, unobserved |-> 0, incomplete |-> 0, expired |-> 0, dropped |-> 0]

Init ==
    /\ now = 0 /\ logged = [c \in {} |-> 0] /\ poll = Nobody
    /\ spool = {} /\ high = 0 /\ metrics = NoMetrics
    /\ forward = Nobody
    /\ state = [cursor |-> 0, acknowledged |-> 0, rejected |-> 0]
    /\ collected = {} /\ refused = {} /\ spooled = {} /\ observed = {} /\ blind = {}
    /\ life = 1 /\ polls = 0 /\ faults = 0

\* Completions are named in the order in which they are logged.
Log(c) ==
    /\ c \notin DOMAIN logged /\ \A d \in Completions : d < c => d \in DOMAIN logged
    /\ logged' = [d \in DOMAIN logged \union {c} |-> IF d = c THEN now ELSE logged[d]]
    /\ UNCHANGED <<now, reader, sender, faults>>

-----------------------------------------------------------------------------
(* The reader. *)

\* serve: one poll at a time.
PollBegin ==
    /\ poll = Nobody /\ polls < MaxPolls
    /\ poll' = [pc |-> "reading", start |-> now] /\ polls' = polls + 1
    /\ UNCHANGED <<now, logged, spool, high, metrics, spooled, observed, blind, life, sender, faults>>

\* collect: what the logs hold since the start minus the lookback; past a bound
\* of lines or time some of it, and the poll is incomplete.
Collect ==
    /\ poll.pc = "reading"
    /\ LET all == {c \in DOMAIN logged : logged[c] >= poll.start - Lookback}
       IN  \E got \in SUBSET all :
             /\ poll' = [pc |-> "read", start |-> poll.start, events |-> got, incomplete |-> got # all]
             /\ observed' = observed \union got
    /\ blind' = blind \union {now}
    /\ UNCHANGED <<now, logged, spool, high, metrics, spooled, life, polls, sender, faults>>

Expires(c) == logged[c] + Retention
Ids(rows) == {r.id : r \in rows}
\* ORDER BY seq LIMIT n
Lowest(rows, n) == {r \in rows : Cardinality({q \in rows : q.seq < r.seq}) < n}

\* INSERT OR IGNORE one after the other, in the order in which they were logged: an ignored
\* row has used up its number.
Inserted(events) ==
    LET new == {c \in events : Expires(c) > now}
        number(c) == high + Cardinality({d \in new : d <= c})
    IN  [rows |-> {[seq |-> number(c), id |-> c] : c \in new \ Ids(spool)},
         high |-> high + Cardinality(new)]

\* mutant: the oldest rows are cut before the expired ones are deleted, and not counted
UncountedTrim(rows) == [rows |-> rows \ Lowest(rows, Max({0, Cardinality(rows) - MaxRows})), dropped |-> 0]
Trim(rows) ==
    LET excess == Max({0, Cardinality(rows) - MaxRows})
    IN  [rows |-> rows \ Lowest(rows, excess), dropped |-> excess]

Gap(previous) == now - previous > Lookback

\* Spool.ingest, one transaction.
Ingest ==
    /\ poll.pc = "read"
    /\ LET all == spool \union Inserted(poll.events).rows
           live == {r \in all : Expires(r.id) > now}
           kept == Trim(live)
           previous == metrics.last
       IN  /\ spool' = kept.rows
           /\ spooled' = spooled \union Ids(all)
           /\ metrics' = [last |-> now,
                          started |-> IF previous = None THEN now - Lookback ELSE metrics.started,
                          unobserved |-> metrics.unobserved +
                              IF previous # None /\ Gap(previous) THEN now - previous - Lookback ELSE 0,
                          incomplete |-> metrics.incomplete + IF poll.incomplete THEN 1 ELSE 0,
                          expired |-> metrics.expired + Cardinality(all) - Cardinality(live),
                          dropped |-> metrics.dropped + kept.dropped]
    /\ high' = Inserted(poll.events).high
    /\ poll' = Nobody
    /\ UNCHANGED <<now, logged, observed, blind, life, polls, sender, faults>>

-----------------------------------------------------------------------------
(* The forwarder. *)

NextCursor(after, rows) == Max(IF rows = {} THEN {after, high} ELSE {r.seq : r \in rows})

\* Spool.read through the socket.
Fetch ==
    /\ forward = Nobody
    /\ LET rows == Lowest({r \in spool : r.seq > state.cursor /\ Expires(r.id) > now}, Limit)
       IN  forward' = [pc |-> IF rows = {} THEN "save" ELSE "send", batch |-> rows,
                       next |-> NextCursor(state.cursor, rows), status |-> 0]
    /\ UNCHANGED <<now, logged, reader, state, collected, refused, faults>>

\* What the collector answers to a batch it looks at: it takes all or nothing.
Answer(ids) == IF ids \intersect Unlisted # {} THEN 422 ELSE 202
Malformed == {409, 413, 415}         \* mutant: a batch outside the contract is retried
Refusals == {409, 413, 415, 422}

Send ==
    /\ forward.pc = "send"
    /\ LET ids == Ids(forward.batch)
           status == Answer(ids)
       IN  /\ collected' = IF status = 202 THEN collected \union ids ELSE collected
           /\ forward' = [forward EXCEPT !.pc = "save", !.status = status]
    /\ UNCHANGED <<now, logged, reader, state, refused, faults>>

\* An answer that is no verdict (401, 429, 503), none, or one that was lost after the batch
\* was accepted: the old cursor stays.
SendFails ==
    /\ forward.pc = "send" /\ faults < MaxFaults
    /\ \E lost \in BOOLEAN :
         collected' = IF lost /\ Answer(Ids(forward.batch)) = 202
                      THEN collected \union Ids(forward.batch) ELSE collected
    /\ forward' = Nobody /\ faults' = faults + 1
    /\ UNCHANGED <<now, logged, reader, state, refused>>

Save ==
    /\ forward.pc = "save"
    /\ LET n == Cardinality(forward.batch)
       IN  /\ state' = [cursor |-> IF forward.status \in {0, 202} \union Refusals THEN forward.next ELSE state.cursor,
                        acknowledged |-> state.acknowledged + IF forward.status = 202 THEN n ELSE 0,
                        rejected |-> state.rejected + IF forward.status \in Refusals THEN n ELSE 0]
           /\ refused' = IF forward.status \in Refusals THEN refused \union Ids(forward.batch) ELSE refused
    /\ forward' = Nobody
    /\ UNCHANGED <<now, logged, reader, collected, faults>>

-----------------------------------------------------------------------------
(* Faults. *)

ReaderDies ==
    /\ faults < MaxFaults /\ poll # Nobody
    /\ faults' = faults + 1 /\ poll' = Nobody
    /\ UNCHANGED <<now, logged, spool, high, metrics, spooled, observed, blind, life, polls, sender>>

ForwarderDies ==
    /\ faults < MaxFaults /\ forward # Nobody
    /\ faults' = faults + 1 /\ forward' = Nobody
    /\ UNCHANGED <<now, logged, reader, state, collected, refused>>

\* The spool is lost and created anew; the forwarder's cursor stays.
NewSpool ==
    /\ faults < MaxFaults
    /\ faults' = faults + 1 /\ life' = life + 1
    /\ spool' = {} /\ high' = 0 /\ metrics' = NoMetrics
    /\ poll' = Nobody
    /\ UNCHANGED <<now, logged, spooled, observed, blind, polls, sender>>

Tick ==
    /\ now < MaxNow
    /\ now' = now + 1
    /\ blind' = IF poll.pc = "read" THEN blind \union {now'} ELSE blind
    /\ UNCHANGED <<logged, poll, spool, high, metrics, spooled, observed, life, polls, sender, faults>>

Forward == Fetch \/ Send \/ Save
Next ==
    \/ \E c \in Completions : Log(c)
    \/ PollBegin \/ Collect \/ Ingest
    \/ Forward \/ SendFails
    \/ ReaderDies \/ ForwarderDies \/ NewSpool \/ Tick

Spec == Init /\ [][Next]_vars
FairSpec == Spec /\ WF_vars(Fetch) /\ WF_vars(Save) /\ SF_vars(Send)

-----------------------------------------------------------------------------
(* Correctness. *)

TypeOK ==
    /\ now \in Nat /\ DOMAIN logged \subseteq Completions
    /\ spool \subseteq [seq : 1..high, id : Completions] /\ Cardinality(spool) <= MaxRows
    /\ \A q, r \in spool : q.seq = r.seq \/ q.id = r.id => q = r
    /\ state.cursor \in Nat
    /\ refused \union collected \subseteq spooled

\* What was ever spooled is still to be read, was accepted, or is contained in one of
\* the counts of refused, expired and dropped rows; and the cursor has passed over
\* nothing that is not (Spool.ingest, forward_once), unless the spool was lost.
RowsAccounted ==
    life = 1 =>
        /\ Cardinality(spooled \ (Ids(spool) \union collected \union refused))
               <= metrics.expired + metrics.dropped
        /\ \A r \in spool :
               r.seq <= state.cursor => r.id \in collected \union refused \/ Expires(r.id) <= now
        /\ state.acknowledged <= high /\ Cardinality(refused) <= state.rejected

\* A completion that no poll returned although later ones were ingested shows up in
\* unobserved_seconds or incomplete_polls, except one that was logged while a poll
\* had already read the logs and was not yet ingested: the gap is measured between
\* ingestions (Spool.ingest).
UnseenIsMeasured ==
    life = 1 => \A c \in DOMAIN logged \ observed :
        metrics.last # None /\ logged[c] \in metrics.started..(metrics.last - 1) \ blind =>
            metrics.unobserved > 0 \/ metrics.incomplete > 0

\* Whatever is refused, lost or repeated on the way, a completion is handed over or counted,
\* and what no poll has seen is measured.
NothingLostSilently == TypeOK /\ RowsAccounted /\ UnseenIsMeasured

\* A spooled row is accepted, refused, or expires or leaves the spool, if the collector answers
\* again and again, unless the spool was lost: then the cursor may be ahead of it.
Spooled(c) == c \in Ids(spool)
Settled(c) == c \in collected \union refused \/ ~Spooled(c) \/ Expires(c) <= now \/ life > 1
EventuallyForwarded == \A c \in Completions : []<>Settled(c)
=============================================================================
