------------------------------- MODULE Tables -------------------------------
(***************************************************************************)
(* The aggregate tables of the collector as values, and what one event     *)
(* does to them.  A table keyed by some columns is a partial function from  *)
(* the keys present to the counters; a table that only records presence is *)
(* a set.  A cell is an (application, business day) pair.                  *)
(***************************************************************************)
EXTENDS Calendar, FiniteSets, Sequences

CONSTANTS
    None,       \* an absent optional field
    Apps,       \* applications
    Threshold   \* public suppression threshold (10 in the code)

Zero == [pv |-> 0, uv |-> 0, requests |-> 0, successes |-> 0]

\* f[k] when k is a key of f, otherwise the row an upsert would start from.
Row(f, k, default) == IF k \in DOMAIN f THEN f[k] ELSE default

Upsert(f, k, v) == [x \in DOMAIN f \union {k} |-> IF x = k THEN v ELSE f[x]]

Keeping(f, Keep(_)) == [x \in {y \in DOMAIN f : Keep(y)} |-> f[x]]

Bit(b) == IF b THEN 1 ELSE 0

Cell(p) == <<p.app, Day(p.occurred)>>
IsCompletion(p) == p.kind = "request_complete"

\* The popularity key of an event: the page viewed or the character selected.
Item(p) == IF p.kind \in {"page_view", "character_select"} THEN p.item ELSE None

\* What an event adds to a row of totals, given whether its visitor is new.
Added(row, p, new) ==
    [pv        |-> row.pv + Bit(p.kind = "page_view"),
     uv        |-> row.uv + Bit(new),
     requests  |-> row.requests + Bit(IsCompletion(p)),
     successes |-> row.successes + Bit(IsCompletion(p) /\ p.ok)]

\* Only events other than completions identify a visitor.
Visitor(p) == IF IsCompletion(p) \/ p.anon = None THEN {} ELSE {<<Cell(p), p.anon>>}

-----------------------------------------------------------------------------
(* Exact tables: daily, popularity, visitors, requests_seen. *)

EmptyExact == [daily |-> << >>, heat |-> << >>, visitors |-> {}, completed |-> {}]

\* A completion whose request was already counted adds nothing at all.
Repeated(t, p) ==
    IsCompletion(p) /\ \E c \in t.completed : c.app = p.app /\ c.request = p.request

\* The body of the loop of Store.aggregate for one row, exact tables only.
CountExact(t, row) ==
    LET p == row.p
        c == Cell(p)
    IN  [daily     |-> Upsert(t.daily, c,
                              Added(Row(t.daily, c, Zero), p, ~(Visitor(p) \subseteq t.visitors))),
         heat      |-> IF Item(p) = None THEN t.heat
                       ELSE Upsert(t.heat, <<c, Item(p)>>, Row(t.heat, <<c, Item(p)>>, 0) + 1),
         visitors  |-> t.visitors \union Visitor(p),
         completed |-> IF IsCompletion(p)
                       THEN t.completed \union {[app |-> p.app, request |-> p.request, at |-> row.at]}
                       ELSE t.completed]

\* Retention of the exact tables (Store.maintain).
TrimExact(t, now) ==
    LET Kept(c) == c[2] >= FirstKept(now, KeepDays)
        KeptHeat(k) == Kept(k[1])
    IN  [daily     |-> Keeping(t.daily, Kept),
         heat      |-> Keeping(t.heat, KeptHeat),
         visitors  |-> {v \in t.visitors : v[1][2] >= FirstKept(now, VisitorDays)},
         completed |-> {c \in t.completed : c.at + SeenTTL >= now}]

-----------------------------------------------------------------------------
(* Public tables: what may be shown without a token. *)

\* A snapshot nobody has written yet has no time.
NoSnapshot == [slot |-> None, at |-> None, days |-> << >>]

EmptyPublic == [daily |-> << >>, visitors |-> {}, heat |-> << >>, heatVisitors |-> {},
                frozen |-> << >>, snapshot |-> NoSnapshot]

\* public_projection.accumulate: late events and history older than the
\* projection itself are no candidates.
Eligible(row, startDay) == row.at < Cutoff(Day(row.p.occurred)) /\ Day(row.p.occurred) >= startDay

CountPublic(t, row, startDay) ==
    LET p == row.p
        c == Cell(p)
        k == <<c, Item(p)>>
        fan == IF p.anon = None THEN {} ELSE {<<k, p.anon>>}
        old == Row(t.heat, k, [count |-> 0, visitors |-> 0])
    IN  IF ~Eligible(row, startDay) THEN t
        ELSE [daily        |-> Upsert(t.daily, c,
                                      Added(Row(t.daily, c, Zero), p, ~(Visitor(p) \subseteq t.visitors))),
              visitors     |-> t.visitors \union Visitor(p),
              heat         |-> IF Item(p) = None THEN t.heat
                               ELSE Upsert(t.heat, k,
                                           [count |-> old.count + 1,
                                            visitors |-> old.visitors + Bit(~(fan \subseteq t.heatVisitors))]),
              heatVisitors |-> IF Item(p) = None THEN t.heatVisitors ELSE t.heatVisitors \union fan,
              frozen       |-> t.frozen,
              snapshot     |-> t.snapshot]

Group(state, value) == [state |-> state, value |-> value]
Hidden == Group("suppressed", None)
Empty == Group("empty", None)
Pending == [access |-> Group("pending", None), quality |-> Group("pending", None),
            heat |-> Group("pending", None)]

Small(n) == n # 0 /\ n < Threshold

\* public_projection.freeze_day: each group is published whole or not at all.
FreezeDay(t, c) ==
    LET m == Row(t.daily, c, Zero)
        items == {k \in DOMAIN t.heat : k[1] = c}
    IN  [access  |-> IF m.pv = 0 /\ m.uv = 0 THEN Empty
                     ELSE IF m.uv >= Threshold THEN Group("published", <<m.pv, m.uv>>) ELSE Hidden,
         quality |-> IF m.requests = 0 THEN Empty
                     ELSE IF m.requests >= Threshold /\ ~Small(m.successes)
                             /\ ~Small(m.requests - m.successes)
                          THEN Group("published", <<m.requests, m.successes>>) ELSE Hidden,
         heat    |-> IF items = {} THEN Empty
                     ELSE IF \E k \in items : t.heat[k].visitors < Threshold THEN Hidden
                          ELSE Group("published", [k \in items |-> t.heat[k].count])]


\* public_projection._day: a frozen day is reused.
ShownDay(t, c) == IF c \in DOMAIN t.frozen THEN t.frozen[c] ELSE FreezeDay(t, c)

\* public_projection.publish: one snapshot per slot; a day whose cutoff has
\* passed is frozen the first time it is published and reused ever after.
PublishPublic(t, now, startDay) ==
    LET slot == Slot(now)
        first == IF startDay >= FirstKept(now, KeepDays) THEN startDay ELSE FirstKept(now, KeepDays)
        cells == Apps \X (first..Day(now))
        due == {c \in cells : Cutoff(c[2]) <= slot}
    IN  IF t.snapshot.slot = slot THEN t
        ELSE [daily |-> t.daily, visitors |-> t.visitors, heat |-> t.heat, heatVisitors |-> t.heatVisitors,
              frozen |-> [c \in DOMAIN t.frozen \union due |-> ShownDay(t, c)],
              snapshot |-> [slot |-> slot, at |-> now,
                            days |-> [c \in cells |-> IF c \in due THEN ShownDay(t, c) ELSE Pending]]]

\* public_projection.maintain: retention, also of the snapshot being served.
TrimPublic(t, now) ==
    LET Kept(c) == c[2] >= FirstKept(now, KeepDays)
        KeptHeat(k) == Kept(k[1])
        Recent(c) == c[2] >= FirstKept(now, VisitorDays)
    IN  [daily        |-> Keeping(t.daily, Kept),
         visitors     |-> {v \in t.visitors : Recent(v[1])},
         heat         |-> Keeping(t.heat, KeptHeat),
         heatVisitors |-> {v \in t.heatVisitors : Recent(v[1][1])},
         frozen       |-> Keeping(t.frozen, Kept),
         snapshot     |-> [slot |-> t.snapshot.slot, at |-> t.snapshot.at, days |-> Keeping(t.snapshot.days, Kept)]]
-----------------------------------------------------------------------------
(* Both kinds of tables together. *)

CountRow(t, row, startDay) ==
    IF Repeated(t.exact, row.p) THEN t
    ELSE [exact |-> CountExact(t.exact, row), public |-> CountPublic(t.public, row, startDay)]

NoSummary == [at |-> None, daily |-> << >>, heat |-> << >>]

TrimSummary(s, now) ==
    LET Kept(c) == c[2] >= FirstKept(now, KeepDays)
        KeptHeat(k) == Kept(k[1])
    IN  [at |-> s.at, daily |-> Keeping(s.daily, Kept), heat |-> Keeping(s.heat, KeptHeat)]
=============================================================================
