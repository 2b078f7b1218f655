-------------------------- MODULE SourceSyncProofs --------------------------
(***************************************************************************)
(* Proofs about module SourceSync, for any retention, page size, number of *)
(* rows, rebuilt databases, deaths and lost acknowledgements: the lane     *)
(* skips nothing, repeats one batch at most, sends nothing that expired    *)
(* or follows a gap, and implements Relay.                                 *)
(***************************************************************************)
EXTENDS SourceSync, FiniteSetTheorems, SequenceTheorems, WellFoundedInduction, TLAPS

-----------------------------------------------------------------------------
(* The inductive invariant. *)

\* Rows fetched after a position: contiguous, of one generation, at most a page.
Fetched(after, rows) ==
    /\ rows \in Seq(Rows) /\ Len(rows) \in 1..PageSize
    /\ \A i \in 1..Len(rows) : rows[i].seq = after + i /\ rows[i].gen = rows[1].gen

\* A directory nobody has used is empty, one without a binding has no progress, and
\* a rebase works on an empty one.
NewIsEmpty ==
    /\ binding = None => cursor = None /\ pending = None /\ topic = << >> /\ start = 0
    /\ fresh => binding = None /\ gap = None /\ proc.pc = "idle"
    /\ proc.pc = "rebase" => cursor = None /\ start = 0
    /\ proc.pc \in {"rebase", "receipt"} => pending = None /\ topic = << >>

\* The memory of a process agrees with the files it has read or written.
MemoryRight ==
    /\ proc.pc \in {"status", "bounds", "load", "fetch", "register", "archive", "pending", "send"} =>
         proc.after = After
    /\ proc.pc \notin {"idle", "status"} => gap = None
    /\ proc.pc \notin {"idle", "status", "rebase"} => binding # None
    /\ proc.pc \in {"fetch", "register", "archive", "pending"} => pending = None
    /\ proc.pc = "load" => pending # None
    /\ proc.pc \in {"register", "archive", "pending", "send"} => Fetched(proc.after, proc.rows)
    /\ proc.pc \in {"archive", "pending"} =>
         /\ Key(proc.after, proc.rows) \in DOMAIN archives
         /\ archives[Key(proc.after, proc.rows)].original = Earliest(proc.rows)
    /\ proc.pc = "pending" => archives[Key(proc.after, proc.rows)].rows = proc.rows
    /\ proc.pc = "send" =>
         /\ pending = [key |-> Key(proc.after, proc.rows), rows |-> proc.rows]
         /\ \A j \in 1..proc.sent : \E i \in DOMAIN topic : topic[i] = proc.rows[j]
    /\ proc.pc = "unlink" => pending # None /\ pending.key[2] = After

\* The pending batch begins or ends at the cursor and is what its archive holds, as
\* long as it has not expired.
PendingRight ==
    pending # None =>
        /\ Fetched(pending.key[1], pending.rows)
        /\ pending.key = Key(pending.key[1], pending.rows)
        /\ After \in {pending.key[1], pending.key[2]}
        /\ pending.key \in DOMAIN archives =>
             /\ archives[pending.key].rows = pending.rows
             /\ archives[pending.key].original = Earliest(pending.rows)
        /\ pending.key \notin DOMAIN archives => Lapsed(Earliest(pending.rows))

\* The topic has every position up to the cursor, and beyond it only rows of a pending
\* batch that begins there.
TopicRight ==
    /\ start <= After
    /\ CursorIsDelivered
    /\ \A i \in DOMAIN topic :
         topic[i].seq > After =>
             /\ pending # None /\ pending.key[1] = After
             /\ \E j \in DOMAIN pending.rows : pending.rows[j] = topic[i]

\* Generations only grow: whatever was fetched is of the bound one or of a later one,
\* which the collector has reached.
Reached(g) == binding # None /\ g \in binding .. source.gen
GenerationsRight ==
    /\ binding # None => Reached(binding)
    /\ proc.pc = "rebase" => proc.gen <= source.gen
    /\ \A i \in DOMAIN topic : Reached(topic[i].gen)
    /\ pending # None => Reached(pending.rows[1].gen)
    /\ proc.pc \in {"register", "archive", "pending"} => Reached(proc.rows[1].gen)

\* Rows of another generation than the bound one come from one batch, the last.
Foreign == {i \in DOMAIN topic : topic[i].gen # binding}
ForeignRight ==
    /\ proc.pc \in {"bounds", "load", "fetch", "register", "archive", "pending"} => Foreign = {}
    /\ proc.pc \in {"bounds", "load"} /\ pending # None => pending.rows[1].gen = binding
    /\ proc.pc = "send" =>
         /\ proc.rows[1].gen = binding => Foreign = {}
         /\ \A i \in Foreign : topic[i].seq > proc.after
    /\ \A i, j \in Foreign : topic[i].seq - topic[j].seq < PageSize
    /\ Foreign # {} => \A i \in DOMAIN topic : \E j \in Foreign : topic[i].seq <= topic[j].seq

IInv ==
    /\ TypeOK /\ NewIsEmpty /\ MemoryRight /\ PendingRight /\ TopicRight
    /\ GenerationsRight /\ ForeignRight

-----------------------------------------------------------------------------
(* Largest and smallest numbers, and sequences. *)

LEMMA Smaller ==
    ASSUME NEW x \in Nat, NEW y \in Nat, x < y
    PROVE  <<x, y>> \in OpToRel(<, Nat)
  BY Zenon DEF OpToRel

LEMMA MinProperty ==
    ASSUME NEW S, S \subseteq Nat, S # {}
    PROVE  Min(S) \in S /\ \A y \in S : Min(S) <= y
<1>1. PICK x \in S : \A y \in S : ~ (<<y, x>> \in OpToRel(<, Nat))
  BY WFMin, NatLessThanWellFounded
<1>2. \A y \in S : ~ (y < x)
  BY <1>1, Smaller, Zenon
<1>3. \A y \in S : x <= y
  BY <1>2
<1> QED
  BY <1>3 DEF Min

LEMMA MaxProperty ==
    ASSUME NEW n \in Nat, NEW S, S \subseteq 0..n, S # {}
    PROVE  Max(S) \in S /\ \A y \in S : y <= Max(S)
<1> DEFINE T == {n - s : s \in S}
<1>1. \A s \in S : s \in 0..n /\ n - s \in Nat
  OBVIOUS
<1>2. T \subseteq Nat /\ T # {}
  BY <1>1
<1>3. PICK x \in T : \A y \in T : x <= y
  <2> HIDE DEF T
  <2> QED
    BY <1>2, MinProperty
<1>4. PICK s \in S : x = n - s
  BY <1>3
<1>5. \A y \in S : s >= y
  <2> TAKE y \in S
  <2>1. n - s <= n - y
    BY <1>3, <1>4
  <2> QED
    BY <1>1, <2>1
<1> QED
  BY <1>4, <1>5 DEF Max

LEMMA FunctionIsSeq ==
    ASSUME NEW n \in Nat, NEW S, NEW f \in [1..n -> S]
    PROVE  f \in Seq(S) /\ Len(f) = n
  OBVIOUS

\* What is known of the topic after one more row.
LEMMA OneMore ==
    ASSUME NEW S, NEW t \in Seq(S), NEW e \in S
    PROVE  /\ Append(t, e) \in Seq(S) /\ Len(t) \in Nat
           /\ DOMAIN t = 1..Len(t) /\ DOMAIN Append(t, e) = 1..(Len(t) + 1)
           /\ Len(Append(t, e)) = Len(t) + 1
           /\ \A i \in DOMAIN t : Append(t, e)[i] = t[i]
           /\ Append(t, e)[Len(t) + 1] = e
  OBVIOUS

-----------------------------------------------------------------------------
(* Types. *)

LEMMA FloorType == ASSUME TypeOK PROVE Floor \in Nat /\ Latest \in Nat
<1>1. Latest \in Nat
  BY DEF TypeOK, Latest
<1> DEFINE S == {s \in 1..Latest : Lapsed(source.at[s])}
<1>2. CASE S # {}
  <2>1. S \subseteq 0..Latest
    BY <1>1
  <2>2. Max(S) \in S
    <3> HIDE DEF S
    <3> QED
      BY <1>1, <1>2, <2>1, MaxProperty
  <2> QED
    BY <1>1, <1>2, <2>2 DEF Floor
<1>3. CASE S = {}
  BY <1>1, <1>3 DEF Floor
<1> QED
  BY <1>2, <1>3

LEMMA AfterType == ASSUME TypeOK PROVE After \in Nat
  BY DEF TypeOK, After

LEMMA EarliestType ==
    ASSUME NEW rows \in Seq(Rows), Len(rows) \in Nat \ {0}
    PROVE  Earliest(rows) \in Nat
<1> DEFINE S == {rows[i].at : i \in DOMAIN rows}
<1>1. \A i \in DOMAIN rows : rows[i].at \in Nat
  <2> TAKE i \in DOMAIN rows
  <2>1. rows[i] \in Rows
    OBVIOUS
  <2> QED
    BY <2>1 DEF Rows
<1>2. 1 \in DOMAIN rows
  OBVIOUS
<1>3. S \subseteq Nat /\ S # {}
  BY <1>1, <1>2
<1> HIDE DEF S
<1>4. Min(S) \in S
  BY <1>3, MinProperty
<1>5. Earliest(rows) = Min(S)
  BY Zenon DEF Earliest, S
<1> QED
  BY <1>3, <1>4, <1>5, Zenon

\* A page of the collector is a batch of its present generation.
LEMMA PageIsFetched ==
    ASSUME TypeOK, SyncAssumption, NEW after \in Nat, after < Latest,
           NEW count, count = Min({PageSize, Latest - after}),
           NEW rows, rows = [i \in 1..count |-> Row(after + i)]
    PROVE  Fetched(after, rows) /\ rows[1].gen = source.gen
<1>1. Latest \in Nat /\ Latest - after \in Nat \ {0} /\ PageSize \in Nat \ {0}
  BY FloorType DEF SyncAssumption
<1>2. count \in {PageSize, Latest - after} /\ count <= PageSize /\ count <= Latest - after
  BY <1>1, MinProperty
<1>3. count \in 1..PageSize
  BY <1>1, <1>2
<1>4. \A i \in 1..count : Row(after + i) \in Rows
  <2> TAKE i \in 1..count
  <2>1. after + i \in Nat /\ after + i \in 1..Latest
    BY <1>1, <1>2
  <2>2. source.gen \in Nat /\ source.at \in Seq(Nat)
    BY DEF TypeOK
  <2>3. source.at[after + i] \in Nat
    BY <2>1, <2>2 DEF Latest
  <2> QED
    BY <2>1, <2>2, <2>3 DEF Row, Rows
<1>5. rows \in [1..count -> Rows] /\ count \in Nat
  <2>1. count \in Nat
    BY <1>3
  <2>2. [i \in 1..count |-> Row(after + i)] \in [1..count -> Rows]
    BY <1>4, Zenon
  <2> QED
    BY <2>1, <2>2, Zenon
<1>6. rows \in Seq(Rows) /\ Len(rows) = count
  BY <1>5, FunctionIsSeq
<1>7. \A i \in 1..count : rows[i].seq = after + i /\ rows[i].gen = source.gen
  BY <1>3 DEF Row
<1>8. 1 \in 1..count
  BY <1>3
<1> QED
  BY <1>3, <1>6, <1>7, <1>8 DEF Fetched

\* A row of a batch that is being sent.
LEMMA CurrentType ==
    ASSUME TypeOK, MemoryRight, Sending
    PROVE  /\ Current \in Rows /\ Current = proc.rows[proc.sent + 1]
           /\ proc.sent + 1 \in 1..Len(proc.rows)
           /\ Current.seq = proc.after + proc.sent + 1 /\ Current.gen = proc.rows[1].gen
<1>1. proc \in [pc : {"send"}, after : Nat, rows : Seq(Rows), sent : Nat] /\ Fetched(proc.after, proc.rows)
  BY DEF TypeOK, Memory, Sending, MemoryRight
<1>2. proc.sent + 1 \in 1..Len(proc.rows)
  BY <1>1 DEF Sending
<1> QED
  BY <1>1, <1>2 DEF Current, Fetched

LEMMA InitIInv == ASSUME Init PROVE IInv
<1>1. TypeOK
  <2>1. /\ source \in [gen : Nat, at : Seq(Nat), lossy : BOOLEAN]
        /\ topic \in Seq(Rows)
    BY DEF Init
  <2>2. archives \in [DOMAIN archives -> [original : Nat, rows : Seq(Rows) \union {None}]]
    BY DEF Init
  <2>3. proc \in Memory /\ proc.pc # "send"
    BY DEF Init, Memory, Idle
  <2> QED
    BY <2>1, <2>2, <2>3 DEF Init, TypeOK
<1>2. After = 0 /\ DOMAIN topic = {}
  BY DEF Init, After
<1>3. NewIsEmpty /\ MemoryRight /\ PendingRight
  BY DEF Init, NewIsEmpty, MemoryRight, PendingRight, Idle
<1>4. TopicRight /\ GenerationsRight /\ ForeignRight
  BY <1>2 DEF Init, TopicRight, GenerationsRight, ForeignRight, CursorIsDelivered, Foreign, Idle
<1> QED
  BY <1>1, <1>3, <1>4 DEF IInv
-----------------------------------------------------------------------------
(* Types after a step. *)

LEMMA ProcShape ==
    ASSUME TypeOK
    PROVE  /\ proc.pc \in {"status", "load", "fetch", "bounds", "rebase", "register",
                           "archive", "pending", "send"} => proc.after \in Nat
           /\ proc.pc \in {"register", "archive", "pending", "send"} => proc.rows \in Seq(Rows)
           /\ proc.pc = "bounds" => proc.floor \in Nat /\ proc.last \in Nat
           /\ proc.pc = "rebase" => proc.gen \in Nat
           /\ proc.pc = "send" => proc.sent \in Nat /\ proc.sent <= Len(proc.rows)
  BY DEF TypeOK, Memory

\* The registry of archives is a function; so is what cleanup leaves of it.
Registry == [original : Nat, rows : Seq(Rows) \union {None}]

LEMMA CleanedType ==
    ASSUME TypeOK
    PROVE  /\ Cleaned(archives) \in [DOMAIN Cleaned(archives) -> Registry]
           /\ DOMAIN Cleaned(archives) = Kept(archives)
           /\ \A k \in Kept(archives) :
                k \in DOMAIN archives /\ Cleaned(archives)[k] = archives[k]
  BY DEF TypeOK, Cleaned, Kept, Registry

LEMMA TypeStep ==
    ASSUME SyncAssumption, TypeOK, MemoryRight, [Next]_vars
    PROVE  TypeOK'
<1> USE DEF files, Stop
<1>a. After \in Nat /\ Floor \in Nat /\ Latest \in Nat
  BY AfterType, FloorType
<1>b. /\ proc.pc \in {"status", "load", "fetch", "bounds", "rebase", "register",
                      "archive", "pending", "send"} => proc.after \in Nat
      /\ proc.pc \in {"register", "archive", "pending", "send"} => proc.rows \in Seq(Rows)
      /\ proc.pc = "rebase" => proc.gen \in Nat
  BY ProcShape
<1>c. Idle \in Memory /\ Idle.pc = "idle"
  BY DEF Idle, Memory
<1>1. CASE Accept
  <2>1. PICK t \in (now - MaxWait) .. now : t >= 0 /\ source' = [source EXCEPT !.at = Append(@, t)]
    BY <1>1 DEF Accept
  <2>2. t \in Nat
    BY <2>1 DEF TypeOK, SyncAssumption
  <2>3. source \in [gen : Nat, at : Seq(Nat), lossy : BOOLEAN] /\ Append(source.at, t) \in Seq(Nat)
    BY <2>2 DEF TypeOK
  <2>4. source' \in [gen : Nat, at : Seq(Nat), lossy : BOOLEAN]
    BY <2>1, <2>3
  <2> QED
    BY <1>1, <2>4 DEF Accept, TypeOK
<1>2. CASE LoseTotals \/ Rebuild
  <2>1. source \in [gen : Nat, at : Seq(Nat), lossy : BOOLEAN] /\ << >> \in Seq(Nat)
    BY DEF TypeOK
  <2>2. source' \in [gen : Nat, at : Seq(Nat), lossy : BOOLEAN]
    <3>1. CASE LoseTotals
      BY <2>1, <3>1 DEF LoseTotals
    <3>2. CASE Rebuild
      <4>1. source' = [gen |-> source.gen + 1, at |-> << >>, lossy |-> FALSE] /\ source.gen + 1 \in Nat
        BY <2>1, <3>2 DEF Rebuild
      <4> QED
        BY <4>1
    <3> QED
      BY <1>2, <3>1, <3>2
  <2> QED
    BY <1>2, <2>2 DEF LoseTotals, Rebuild, TypeOK
<1>3. CASE Tick
  BY <1>3 DEF Tick, TypeOK
<1>4. CASE Begin
  <2>1. proc' \in Memory /\ proc'.pc # "send"
    BY <1>4, <1>a DEF Begin, Memory
  <2>2. archives' \in [DOMAIN archives' -> Registry]
    BY <1>4, CleanedType DEF Begin
  <2> QED
    BY <1>4, <2>1, <2>2 DEF Begin, TypeOK, Registry
<1>5. CASE Bind
  <2>1. proc' \in Memory /\ proc'.pc # "send"
    <3>1. CASE proc' = Idle
      BY <3>1, <1>c
    <3>2. CASE proc' # Idle
      <4>1. proc' = [pc |-> "bounds", after |-> proc.after, floor |-> Floor, last |-> Latest]
        BY <1>5, <3>2 DEF Bind
      <4>2. proc.after \in Nat
        BY <1>5, <1>b DEF Bind
      <4> QED
        BY <4>1, <4>2, <1>a DEF Memory
    <3> QED
      BY <3>1, <3>2
  <2>2. binding' \in Nat \union {None} /\ gap' \in Reasons \union {None}
    BY <1>5, <1>a DEF Bind, RecordGap, Refusal, Reasons, TypeOK
  <2> QED
    BY <1>5, <2>1, <2>2 DEF Bind, TypeOK
<1>6. CASE CheckBounds
  <2>1. proc' \in Memory /\ proc'.pc # "send"
    BY <1>6, <1>b, <1>c DEF CheckBounds, Memory
  <2>2. gap' \in Reasons \union {None}
    BY <1>6 DEF CheckBounds, RecordGap, Reasons, TypeOK
  <2> QED
    BY <1>6, <2>1, <2>2 DEF CheckBounds, TypeOK
<1>7. CASE LoadPending
  <2>1. pending \in Batches
    BY <1>7 DEF LoadPending, MemoryRight, TypeOK
  <2>2. pending.rows \in Seq(Rows)
    BY <2>1 DEF Batches
  <2>3. proc' \in Memory /\ (proc'.pc = "send" => proc'.sent <= Len(proc'.rows))
    <3>1. CASE proc' = Idle
      BY <3>1, <1>c
    <3>2. CASE proc' # Idle
      <4>1. proc' = [pc |-> "send", after |-> proc.after, rows |-> pending.rows, sent |-> 0]
        BY <1>7, <3>2 DEF LoadPending, Send
      <4>2. proc.after \in Nat /\ 0 <= Len(pending.rows)
        BY <1>7, <1>b, <2>2 DEF LoadPending
      <4> QED
        BY <4>1, <4>2, <2>2 DEF Memory
    <3> QED
      BY <3>1, <3>2
  <2>4. gap' \in Reasons \union {None} /\ pending' \in Batches \union {None}
    BY <1>7 DEF LoadPending, RecordGap, Reasons, TypeOK
  <2> QED
    BY <1>7, <2>3, <2>4 DEF LoadPending, TypeOK
<1>8. CASE Fetch
  <2>1. proc' \in Memory /\ proc'.pc # "send"
    <3>1. CASE proc' = Idle
      BY <3>1, <1>c
    <3>2. CASE proc' # Idle
      <4> DEFINE count == Min({PageSize, Latest - proc.after})
                 rows == [i \in 1..count |-> Row(proc.after + i)]
      <4>1. proc' = [pc |-> "register", after |-> proc.after, rows |-> rows]
        BY <1>8, <3>2 DEF Fetch
      <4>2. proc.after \in Nat /\ proc.after < Latest
        BY <1>8, <3>2, <1>a, <1>b DEF Fetch
      <4>3. rows \in Seq(Rows)
        BY <4>2, PageIsFetched DEF Fetched
      <4> HIDE DEF rows
      <4> QED
        BY <4>1, <4>2, <4>3 DEF Memory
    <3> QED
      BY <3>1, <3>2
  <2>2. gap' \in Reasons \union {None}
    BY <1>8 DEF Fetch, RecordGap, Reasons, TypeOK
  <2> QED
    BY <1>8, <2>1, <2>2 DEF Fetch, TypeOK
<1>9. CASE Register
  <2>1. proc.pc = "register" /\ proc \in [pc : {"register"}, after : Nat, rows : Seq(Rows)]
    BY <1>9 DEF Register, TypeOK, Memory
  <2>2. proc' \in Memory /\ proc'.pc # "send"
    <3>1. [proc EXCEPT !.pc = "archive"] = [pc |-> "archive", after |-> proc.after, rows |-> proc.rows]
      BY <2>1
    <3>2. [proc EXCEPT !.pc = "archive"] \in Memory
      BY <2>1, <3>1 DEF Memory
    <3> QED
      BY <1>9, <3>1, <3>2, <1>c DEF Register
  <2>3. archives' \in [DOMAIN archives' -> Registry]
    <3> DEFINE k == Key(proc.after, proc.rows)
               e == [original |-> Earliest(proc.rows), rows |-> None]
    <3>1. \/ archives' = archives
          \/ archives' = [x \in DOMAIN archives \union {k} |-> IF x \in DOMAIN archives THEN archives[x] ELSE e]
      BY <1>9 DEF Register
    <3>2. Len(proc.rows) \in Nat \ {0}
      BY <2>1 DEF MemoryRight, Fetched, SyncAssumption
    <3>3. e \in Registry
      BY <2>1, <3>2, EarliestType DEF Registry
    <3>4. archives \in [DOMAIN archives -> Registry]
      BY DEF TypeOK, Registry
    <3> HIDE DEF k, e
    <3> QED
      BY <3>1, <3>3, <3>4
  <2> QED
    BY <1>9, <2>2, <2>3 DEF Register, TypeOK, Registry
<1>10. CASE WriteArchive
  <2>1. proc.pc = "archive" /\ proc \in [pc : {"archive"}, after : Nat, rows : Seq(Rows)]
    BY <1>10 DEF WriteArchive, TypeOK, Memory
  <2>2. proc' \in Memory /\ proc'.pc # "send"
    <3>1. proc' = [pc |-> "pending", after |-> proc.after, rows |-> proc.rows]
      BY <1>10, <2>1 DEF WriteArchive
    <3> QED
      BY <2>1, <3>1 DEF Memory
  <2>3. archives' \in [DOMAIN archives' -> Registry]
    BY <1>10, <2>1, ZenonT(60) DEF WriteArchive, TypeOK, Registry
  <2> QED
    BY <1>10, <2>2, <2>3 DEF WriteArchive, TypeOK, Registry
<1>11. CASE WritePending
  <2>1. proc.pc = "pending" /\ proc.after \in Nat /\ proc.rows \in Seq(Rows)
    BY <1>11, <1>b DEF WritePending
  <2>2. proc' \in Memory /\ proc'.sent <= Len(proc'.rows)
    <3>1. proc' = [pc |-> "send", after |-> proc.after, rows |-> proc.rows, sent |-> 0]
      BY <1>11 DEF WritePending, Send
    <3> QED
      BY <2>1, <3>1 DEF Memory
  <2>3. archives' \in [DOMAIN archives' -> Registry]
    BY <1>11, CleanedType DEF WritePending
  <2>4. pending' \in Batches
    BY <1>11, <2>1 DEF WritePending, Batches, Key
  <2> QED
    BY <1>11, <2>2, <2>3, <2>4 DEF WritePending, TypeOK, Registry
<1>12. CASE Publish \/ Resend \/ LoseAck
  <2>1. Sending /\ Current \in Rows /\ proc.sent + 1 \in 1..Len(proc.rows)
    BY <1>12, CurrentType DEF Publish, Resend, LoseAck
  <2>2. topic' \in Seq(Rows) /\ faults' \in Nat
    <3>1. topic' = Append(topic, Current) /\ faults' \in {faults, faults + 1}
      BY <1>12 DEF Publish, Resend, LoseAck
    <3>2. topic \in Seq(Rows) /\ faults \in Nat
      BY DEF TypeOK
    <3> QED
      BY <2>1, <3>1, <3>2
  <2>3. proc \in [pc : {"send"}, after : Nat, rows : Seq(Rows), sent : Nat]
    BY <2>1 DEF TypeOK, Memory, Sending
  <2>4. proc' \in Memory /\ (proc'.pc = "send" => proc'.sent <= Len(proc'.rows))
    <3>1. CASE proc' = Idle
      BY <3>1, <1>c
    <3>2. CASE proc' = proc
      BY <3>2 DEF TypeOK
    <3>3. CASE proc' = [proc EXCEPT !.sent = @ + 1]
      <4>1. proc' = [pc |-> "send", after |-> proc.after, rows |-> proc.rows, sent |-> proc.sent + 1]
        BY <2>3, <3>3
      <4> QED
        BY <2>1, <2>3, <4>1 DEF Memory
    <3> QED
      BY <1>12, <3>1, <3>2, <3>3 DEF Publish, Resend, LoseAck
  <2> QED
    BY <1>12, <2>2, <2>4 DEF Publish, Resend, LoseAck, TypeOK
<1>13. CASE RefuseExpired
  BY <1>13, <1>c DEF RefuseExpired, RecordGap, Reasons, TypeOK
<1>14. CASE WriteCursor
  <2>1. proc' \in Memory /\ proc'.pc # "send"
    BY <1>14 DEF WriteCursor, Memory
  <2>2. cursor' \in Nat
    BY <1>14, <1>b DEF WriteCursor
  <2> QED
    BY <1>14, <2>1, <2>2 DEF WriteCursor, TypeOK
<1>15. CASE UnlinkPending
  BY <1>15, <1>c DEF UnlinkPending, TypeOK
<1>16. CASE BeginRebase
  <2>1. PICK s \in Floor..Latest : proc' = [pc |-> "rebase", gen |-> source.gen, after |-> s]
    BY <1>16 DEF BeginRebase
  <2>2. proc' \in Memory /\ proc'.pc # "send"
    <3>1. s \in Nat /\ source.gen \in Nat 
      BY <1>a DEF TypeOK
    <3> QED
      BY <2>1, <3>1 DEF Memory
  <2> QED
    BY <1>16, <2>2 DEF BeginRebase, TypeOK
<1>17. CASE RebaseBinding \/ RebaseCursor \/ RebaseReceipt
  <2>1. proc' \in Memory /\ proc'.pc # "send"
    <3>1. CASE proc' = proc
      BY <1>17, <1>c, <3>1 DEF RebaseBinding, RebaseCursor, RebaseReceipt, TypeOK
    <3>2. CASE proc' = [pc |-> "receipt"]
      BY <3>2 DEF Memory
    <3> QED
      BY <1>17, <1>c, <3>1, <3>2 DEF RebaseBinding, RebaseCursor, RebaseReceipt
  <2> QED
    BY <1>17, <1>b, <2>1 DEF RebaseBinding, RebaseCursor, RebaseReceipt, TypeOK
<1>18. CASE Fail
  BY <1>18, <1>c DEF Fail, TypeOK
<1>19. CASE UNCHANGED vars
  BY <1>19 DEF vars, TypeOK
<1> QED
  BY <1>1, <1>2, <1>3, <1>4, <1>5, <1>6, <1>7, <1>8, <1>9, <1>10, <1>11, <1>12, <1>13,
     <1>14, <1>15, <1>16, <1>17, <1>18, <1>19
  DEF Next, Collecting, SyncStep
-----------------------------------------------------------------------------
(* What a step leaves alone. *)

\* The batch of a process that sends is the pending one.
LEMMA SendHasPending ==
    ASSUME SyncAssumption, TypeOK, MemoryRight, proc.pc = "send"
    PROVE  /\ pending # None /\ pending.key = Key(proc.after, proc.rows) /\ pending.rows = proc.rows
           /\ pending.key[1] = proc.after /\ pending.key[2] = proc.after + Len(proc.rows)
           /\ Len(proc.rows) \in Nat \ {0} /\ proc.after \in Nat
<1>1. proc.after \in Nat /\ proc.rows \in Seq(Rows) /\ Len(proc.rows) \in Nat \ {0}
  BY ProcShape DEF MemoryRight, Fetched, SyncAssumption
<1>2. pending = [key |-> Key(proc.after, proc.rows), rows |-> proc.rows]
  BY DEF MemoryRight
<1>3. pending \in Batches
  BY <1>1, <1>2 DEF Batches, Key
<1> QED
  BY <1>1, <1>2, <1>3 DEF SyncAssumption, Key

\* The topic grows by the next row of the process that sends, or not at all.
LEMMA TopicGrows ==
    ASSUME TypeOK, MemoryRight, [Next]_vars
    PROVE  \/ topic' = topic
           \/ /\ Publish \/ Resend \/ LoseAck
              /\ Sending /\ ~Lapsed(Current.at)
              /\ topic' = Append(topic, Current)
              /\ UNCHANGED <<now, source, files>>
  BY DEF Next, vars, files, Collecting, Accept, LoseTotals, Rebuild, Tick, BeginRebase, SyncStep,
     Begin, Bind, CheckBounds, LoadPending, Fetch, Register, WriteArchive, WritePending, Publish,
     RefuseExpired, WriteCursor, UnlinkPending, RebaseBinding, RebaseCursor, RebaseReceipt, Fail,
     Resend, LoseAck

-----------------------------------------------------------------------------
(* The parts of the invariant after a step. *)

LEMMA NewStep ==
    ASSUME SyncAssumption, TypeOK, NewIsEmpty, MemoryRight, [Next]_vars
    PROVE  NewIsEmpty'
<1> USE DEF NewIsEmpty, files, Stop, Idle
<1>1. CASE Collecting \/ Tick \/ UNCHANGED vars
  BY <1>1 DEF Collecting, Accept, LoseTotals, Rebuild, Tick, vars
<1>2. CASE Begin
  BY <1>2 DEF Begin
<1>3. CASE Bind
  <2>1. binding' = None => binding = None
    BY <1>3 DEF Bind, TypeOK, SyncAssumption
  <2> QED
    BY <1>3, <2>1 DEF Bind
<1>4. CASE CheckBounds \/ LoadPending \/ Fetch
  <2>1. binding # None /\ ~fresh /\ proc'.pc \notin {"rebase", "receipt"} /\ UNCHANGED <<binding, fresh>>
    BY <1>4 DEF CheckBounds, LoadPending, Fetch, MemoryRight, Send
  <2> QED
    BY <2>1
<1>5. CASE Register \/ WriteArchive
  <2>1. proc.pc \in {"register", "archive"} /\ UNCHANGED <<binding, fresh>>
    BY <1>5 DEF Register, WriteArchive
  <2>2. proc \in [pc : {"register", "archive"}, after : Nat, rows : Seq(Rows)]
    BY <2>1 DEF TypeOK, Memory
  <2>3. proc'.pc \notin {"rebase", "receipt"}
    BY <1>5, <2>2 DEF Register, WriteArchive
  <2> QED
    BY <2>1, <2>3 DEF MemoryRight
<1>6. CASE WritePending \/ RefuseExpired \/ WriteCursor \/ UnlinkPending
  <2>1. /\ binding # None /\ ~fresh /\ UNCHANGED <<binding, fresh>>
        /\ proc'.pc \notin {"rebase", "receipt"}
    BY <1>6 DEF WritePending, RefuseExpired, WriteCursor, UnlinkPending, MemoryRight, Send, Sending
  <2> QED
    BY <2>1
<1>7. CASE Publish \/ Resend \/ LoseAck
  <2>1. proc.pc = "send" /\ UNCHANGED <<binding, fresh>>
    BY <1>7 DEF Publish, Resend, LoseAck, Sending
  <2>2. proc \in [pc : {"send"}, after : Nat, rows : Seq(Rows), sent : Nat]
    BY <2>1 DEF TypeOK, Memory
  <2>3. proc'.pc \notin {"rebase", "receipt"}
    BY <1>7, <2>2 DEF Publish, Resend, LoseAck
  <2> QED
    BY <2>1, <2>3 DEF MemoryRight
<1>8. CASE BeginRebase
  BY <1>8 DEF BeginRebase
<1>9. CASE RebaseBinding
  <2>1. proc.gen \in Nat
    BY <1>9, ProcShape DEF RebaseBinding
  <2> QED
    BY <1>9, <2>1 DEF RebaseBinding, SyncAssumption
<1>10. CASE RebaseCursor \/ RebaseReceipt
  BY <1>10 DEF RebaseCursor, RebaseReceipt, MemoryRight
<1>11. CASE Fail
  BY <1>11 DEF Fail
<1> QED
  BY <1>1, <1>2, <1>3, <1>4, <1>5, <1>6, <1>7, <1>8, <1>9, <1>10, <1>11 DEF Next, SyncStep

LEMMA MemoryStep ==
    ASSUME SyncAssumption, TypeOK, NewIsEmpty, MemoryRight, PendingRight, [Next]_vars
    PROVE  MemoryRight'
<1> USE DEF files, Stop, Idle, After
<1>1. CASE Collecting \/ Tick \/ UNCHANGED vars
  BY <1>1 DEF Collecting, Accept, LoseTotals, Rebuild, Tick, vars, MemoryRight
<1>2. CASE proc' = Idle
  BY <1>2 DEF MemoryRight
<1>3. CASE Begin \/ BeginRebase
  BY <1>3 DEF Begin, BeginRebase, MemoryRight, NewIsEmpty
<1>4. CASE Bind /\ proc' # Idle
  <2>1. source.gen \in Nat
    BY DEF TypeOK
  <2> QED
    BY <1>4, <2>1 DEF Bind, MemoryRight, Blocked, SyncAssumption
<1>5. CASE CheckBounds /\ proc' # Idle
  BY <1>5 DEF CheckBounds, MemoryRight
<1>6. CASE LoadPending /\ proc' # Idle
  <2>1. /\ proc' = [pc |-> "send", after |-> proc.after, rows |-> pending.rows, sent |-> 0]
        /\ proc.after = pending.key[1] /\ proc.pc = "load"
        /\ UNCHANGED <<cursor, gap, binding, pending, topic>>
    BY <1>6 DEF LoadPending, Send
  <2>2. pending # None /\ Fetched(pending.key[1], pending.rows) /\ pending.key = Key(pending.key[1], pending.rows)
    BY <2>1 DEF MemoryRight, PendingRight
  <2>3. pending = [key |-> pending.key, rows |-> pending.rows]
    BY <2>2 DEF TypeOK, Batches
  <2> QED
    BY <2>1, <2>2, <2>3 DEF MemoryRight
<1>7. CASE Fetch /\ proc' # Idle
  <2> DEFINE count == Min({PageSize, Latest - proc.after})
             rows == [i \in 1..count |-> Row(proc.after + i)]
  <2>1. /\ proc' = [pc |-> "register", after |-> proc.after, rows |-> rows]
        /\ proc.pc = "fetch" /\ UNCHANGED <<cursor, gap, binding, pending, topic>>
    BY <1>7, FloorType DEF Fetch
  <2>2. proc.after \in Nat /\ proc.after < Latest
    BY <1>7, ProcShape, FloorType DEF Fetch
  <2>3. Fetched(proc.after, rows)
    BY <2>2, PageIsFetched
  <2> HIDE DEF rows
  <2> QED
    BY <2>1, <2>3 DEF MemoryRight
<1>8. CASE Register /\ proc' # Idle
  <2>1. proc.pc = "register" /\ proc \in [pc : {"register"}, after : Nat, rows : Seq(Rows)]
    BY <1>8 DEF Register, TypeOK, Memory
  <2>2. /\ proc' = [pc |-> "archive", after |-> proc.after, rows |-> proc.rows]
        /\ UNCHANGED <<cursor, gap, binding, pending, topic>>
    BY <1>8, <2>1 DEF Register
  <2>3. /\ Key(proc.after, proc.rows) \in DOMAIN archives'
        /\ archives'[Key(proc.after, proc.rows)].original = Earliest(proc.rows)
    BY <1>8 DEF Register
  <2> QED
    BY <2>1, <2>2, <2>3 DEF MemoryRight
<1>9. CASE WriteArchive
  <2>1. proc.pc = "archive" /\ proc \in [pc : {"archive"}, after : Nat, rows : Seq(Rows)]
    BY <1>9 DEF WriteArchive, TypeOK, Memory
  <2>2. /\ proc' = [pc |-> "pending", after |-> proc.after, rows |-> proc.rows]
        /\ UNCHANGED <<cursor, gap, binding, pending, topic>>
    BY <1>9, <2>1 DEF WriteArchive
  <2>3. /\ Key(proc.after, proc.rows) \in DOMAIN archives'
        /\ archives'[Key(proc.after, proc.rows)].original = Earliest(proc.rows)
        /\ archives'[Key(proc.after, proc.rows)].rows = proc.rows
    BY <1>9, <2>1 DEF WriteArchive, MemoryRight, TypeOK
  <2> QED
    BY <2>1, <2>2, <2>3 DEF MemoryRight
<1>10. CASE WritePending
  <2>1. /\ proc' = [pc |-> "send", after |-> proc.after, rows |-> proc.rows, sent |-> 0]
        /\ pending' = [key |-> Key(proc.after, proc.rows), rows |-> proc.rows]
        /\ proc.pc = "pending" /\ UNCHANGED <<cursor, gap, binding, topic>>
    BY <1>10 DEF WritePending, Send
  <2> QED
    BY <2>1 DEF MemoryRight
<1>11. CASE (Publish \/ Resend) /\ proc' # Idle
  <2>1. /\ proc.pc = "send" /\ proc \in [pc : {"send"}, after : Nat, rows : Seq(Rows), sent : Nat]
        /\ Sending
    BY <1>11 DEF Publish, Resend, TypeOK, Memory, Sending
  <2>2. Current \in Rows /\ Current = proc.rows[proc.sent + 1]
    BY <2>1, CurrentType
  <2>3. /\ topic' = Append(topic, Current)
        /\ UNCHANGED <<cursor, gap, binding, pending, archives>>
        /\ \E n \in {proc.sent, proc.sent + 1} :
              proc' = [pc |-> "send", after |-> proc.after, rows |-> proc.rows, sent |-> n]
    BY <1>11, <2>1 DEF Publish, Resend
  <2>4. /\ \A i \in DOMAIN topic : i \in DOMAIN topic' /\ topic'[i] = topic[i]
        /\ Len(topic) + 1 \in DOMAIN topic' /\ topic'[Len(topic) + 1] = Current
    <3>1. topic \in Seq(Rows)
      BY DEF TypeOK
    <3> HIDE DEF Rows
    <3> QED
      BY <2>2, <2>3, <3>1, OneMore
  <2>5. \A j \in 1..proc.sent + 1 : \E i \in DOMAIN topic' : topic'[i] = proc.rows[j]
    <3> TAKE j \in 1..proc.sent + 1
    <3>1. CASE j = proc.sent + 1
      BY <2>2, <2>4, <3>1
    <3>2. CASE j # proc.sent + 1
      <4>1. j \in 1..proc.sent
        BY <2>1, <3>2
      <4>2. PICK i \in DOMAIN topic : topic[i] = proc.rows[j]
        BY <2>1, <4>1 DEF MemoryRight
      <4> QED
        BY <2>4, <4>2
    <3> QED
      BY <3>1, <3>2
  <2>6. \A j \in 1..proc'.sent : \E i \in DOMAIN topic' : topic'[i] = proc'.rows[j]
    BY <2>1, <2>3, <2>5
  <2> QED
    BY <2>1, <2>3, <2>6 DEF MemoryRight
<1>12. CASE WriteCursor
  <2>1. proc.pc = "send" /\ cursor' = proc.after + Len(proc.rows) /\ proc' = [pc |-> "unlink"]
        /\ UNCHANGED <<gap, binding, pending>>
    BY <1>12 DEF WriteCursor
  <2>2. pending # None /\ pending.key[2] = cursor' /\ cursor' \in Nat
    BY <2>1, SendHasPending
  <2> QED
    BY <2>1, <2>2 DEF MemoryRight, SyncAssumption
<1>13. CASE RebaseBinding \/ RebaseCursor
  BY <1>13 DEF RebaseBinding, RebaseCursor, MemoryRight
<1> QED
  BY <1>1, <1>2, <1>3, <1>4, <1>5, <1>6, <1>7, <1>8, <1>9, <1>10, <1>11, <1>12, <1>13
  DEF Next, SyncStep, Fail, RefuseExpired, UnlinkPending, RebaseReceipt, LoseAck
\* The topic after one more row of the process that sends.
LEMMA TopicGrown ==
    ASSUME SyncAssumption, TypeOK, MemoryRight, Sending, topic' = Append(topic, Current)
    PROVE  /\ Len(topic) \in Nat /\ DOMAIN topic = 1..Len(topic)
           /\ DOMAIN topic' = DOMAIN topic \union {Len(topic) + 1}
           /\ \A i \in DOMAIN topic : topic'[i] = topic[i]
           /\ topic'[Len(topic) + 1] = Current
           /\ \A i \in DOMAIN topic : topic[i] \in Rows
<1>1. topic \in Seq(Rows) /\ Current \in Rows
  BY CurrentType DEF TypeOK
<1> HIDE DEF Rows
<1>2. /\ Len(topic) \in Nat /\ DOMAIN topic = 1..Len(topic) /\ DOMAIN topic' = 1..(Len(topic) + 1)
      /\ \A i \in DOMAIN topic : topic'[i] = topic[i]
      /\ topic'[Len(topic) + 1] = Current
  BY <1>1, OneMore
<1>3. \A i \in DOMAIN topic : topic[i] \in Rows
  BY <1>1
<1> QED
  BY <1>2, <1>3

\* The rows of a batch: their positions and their one generation.
LEMMA FetchedRows ==
    ASSUME SyncAssumption, NEW after \in Nat, NEW rows, Fetched(after, rows)
    PROVE  /\ Len(rows) \in 1..PageSize /\ Len(rows) \in Nat /\ DOMAIN rows = 1..Len(rows)
           /\ \A j \in DOMAIN rows : rows[j].seq = after + j /\ rows[j].gen = rows[1].gen
           /\ rows[1].gen \in Nat /\ Earliest(rows) \in Nat
<1>1. rows \in Seq(Rows) /\ Len(rows) \in 1..PageSize /\ PageSize \in Nat
  BY DEF Fetched, SyncAssumption
<1>2. Earliest(rows) \in Nat
  BY <1>1, EarliestType
<1>3. DOMAIN rows = 1..Len(rows) /\ rows[1] \in Rows
  BY <1>1
<1>4. rows[1].gen \in Nat
  BY <1>3 DEF Rows
<1> QED
  BY <1>1, <1>2, <1>3, <1>4 DEF Fetched

\* The range of a pending batch.
LEMMA PendingRange ==
    ASSUME SyncAssumption, TypeOK, PendingRight, pending # None
    PROVE  /\ pending.key[1] \in Nat /\ pending.key[2] = pending.key[1] + Len(pending.rows)
           /\ Fetched(pending.key[1], pending.rows) /\ After \in Nat
<1>1. pending \in Batches
  BY DEF TypeOK
<1>2. pending.key[1] \in Nat
  BY <1>1 DEF Batches
<1>3. Fetched(pending.key[1], pending.rows) /\ pending.key = Key(pending.key[1], pending.rows)
  BY DEF PendingRight
<1>4. pending.key[2] = pending.key[1] + Len(pending.rows)
  BY <1>3 DEF Key
<1> QED
  BY <1>2, <1>3, <1>4, AfterType

\* What has expired stays expired.
LEMMA LapsedStays ==
    ASSUME SyncAssumption, TypeOK, [Next]_vars, NEW at \in Nat, Lapsed(at)
    PROVE  Lapsed(at)'
<1>1. now \in Nat /\ now' \in Nat /\ now <= now'
  BY DEF TypeOK, Next, vars, files, Collecting, Accept, LoseTotals, Rebuild, Tick, BeginRebase, SyncStep,
     Begin, Bind, CheckBounds, LoadPending, Fetch, Register, WriteArchive, WritePending, Publish,
     RefuseExpired, WriteCursor, UnlinkPending, RebaseBinding, RebaseCursor, RebaseReceipt, Fail,
     Resend, LoseAck
<1> QED
  BY <1>1 DEF Lapsed, SyncAssumption

LEMMA PendingStep ==
    ASSUME SyncAssumption, TypeOK, NewIsEmpty, MemoryRight, PendingRight, [Next]_vars
    PROVE  PendingRight'
<1> USE DEF files, Stop
<1>1. CASE pending' = None
  BY <1>1 DEF PendingRight
<1>2. CASE UNCHANGED <<pending, cursor, archives>> /\ pending # None
  <2>1. Earliest(pending.rows) \in Nat
    BY <1>2, PendingRange, FetchedRows
  <2>2. Lapsed(Earliest(pending.rows)) => Lapsed(Earliest(pending.rows))'
    BY <2>1, LapsedStays, <1>2 DEF Lapsed
  <2> QED
    BY <1>2, <2>2 DEF PendingRight, After
<1>3. CASE Begin /\ pending # None
  <2>1. Earliest(pending.rows) \in Nat
    BY <1>3, PendingRange, FetchedRows
  <2>2. UNCHANGED <<pending, cursor, now>> /\ archives' = Cleaned(archives)
    BY <1>3 DEF Begin
  <2>3. CASE pending.key \in Kept(archives)
    BY <1>3, <2>2, <2>3, CleanedType DEF PendingRight, After
  <2>4. CASE pending.key \notin Kept(archives)
    <3>1. Lapsed(Earliest(pending.rows))
      BY <1>3, <2>4 DEF PendingRight, Kept
    <3> QED
      BY <1>3, <2>2, <2>4, <3>1, CleanedType DEF PendingRight, After, Lapsed
  <2> QED
    BY <2>3, <2>4
<1>4. CASE WritePending
  <2>1. /\ proc.pc = "pending" /\ pending' = [key |-> Key(proc.after, proc.rows), rows |-> proc.rows]
        /\ archives' = Cleaned(archives) /\ UNCHANGED <<cursor, now>>
    BY <1>4 DEF WritePending
  <2> DEFINE k == Key(proc.after, proc.rows)
  <2>2. /\ proc.after = After /\ Fetched(proc.after, proc.rows)
        /\ k \in DOMAIN archives /\ archives[k].original = Earliest(proc.rows)
        /\ archives[k].rows = proc.rows
    BY <2>1 DEF MemoryRight
  <2>3. pending'.key = k /\ pending'.rows = proc.rows /\ k[1] = proc.after
    BY <2>1 DEF Key
  <2>4. After' = After
    BY <2>1 DEF After
  <2>5. k \notin Kept(archives) => Lapsed(Earliest(proc.rows))
    BY <2>2 DEF Kept
  <2> HIDE DEF k
  <2>6. k \in DOMAIN archives' <=> k \in Kept(archives)
    BY <2>1, CleanedType
  <2>7. k \in Kept(archives) => archives'[k] = archives[k]
    BY <2>1, CleanedType
  <2>8. k = Key(k[1], proc.rows)
    BY <2>3 DEF k
  <2> QED
    BY <2>1, <2>2, <2>3, <2>4, <2>5, <2>6, <2>7, <2>8 DEF PendingRight, Lapsed
<1>5. CASE WriteCursor
  <2>1. /\ proc.pc = "send" /\ cursor' = proc.after + Len(proc.rows)
        /\ UNCHANGED <<pending, archives, now>>
    BY <1>5 DEF WriteCursor
  <2>2. pending # None /\ cursor' = pending.key[2] /\ cursor' \in Nat
    BY <2>1, SendHasPending
  <2>3. After' = pending.key[2]
    BY <2>2 DEF After, SyncAssumption
  <2> QED
    BY <2>1, <2>2, <2>3 DEF PendingRight, Lapsed
<1> QED
  BY <1>1, <1>2, <1>3, <1>4, <1>5
  DEF Next, vars, Collecting, Accept, LoseTotals, Rebuild, Tick, BeginRebase, SyncStep, Begin,
     Bind, CheckBounds, LoadPending, Fetch, Register, WriteArchive, Publish, RefuseExpired,
     UnlinkPending, RebaseBinding, RebaseCursor, RebaseReceipt, Fail, Resend, LoseAck,
     MemoryRight, NewIsEmpty

LEMMA TopicStep ==
    ASSUME SyncAssumption, TypeOK, NewIsEmpty, MemoryRight, PendingRight, TopicRight, [Next]_vars
    PROVE  TopicRight'
<1> USE DEF files, Stop
<1>1. CASE UNCHANGED <<start, cursor, topic, pending>>
  BY <1>1 DEF TopicRight, After, CursorIsDelivered
<1>2. CASE WritePending
  <2>1. pending = None /\ UNCHANGED <<start, cursor, topic>>
    BY <1>2 DEF WritePending, MemoryRight
  <2> QED
    BY <2>1 DEF TopicRight, After, CursorIsDelivered
<1>3. CASE LoadPending \/ UnlinkPending
  <2>1. CASE pending' = None
    <3>1. UNCHANGED <<start, cursor, topic>> /\ pending # None /\ After = pending.key[2]
      BY <1>3, <2>1 DEF LoadPending, UnlinkPending, MemoryRight
    <3>2. After # pending.key[1]
      BY <3>1, PendingRange, FetchedRows
    <3>3. \A i \in DOMAIN topic : ~(topic[i].seq > After)
      BY <3>1, <3>2 DEF TopicRight
    <3> QED
      BY <3>1, <3>3 DEF TopicRight, After, CursorIsDelivered
  <2>2. CASE pending' # None
    BY <1>1, <1>3, <2>2 DEF LoadPending, UnlinkPending
  <2> QED
    BY <2>1, <2>2
<1>4. CASE Publish \/ Resend \/ LoseAck
  <2>1. Sending /\ proc.pc = "send" /\ topic' = Append(topic, Current) /\ UNCHANGED <<start, cursor, pending>>
    BY <1>4 DEF Publish, Resend, LoseAck, Sending
  <2>2. /\ DOMAIN topic' = DOMAIN topic \union {Len(topic) + 1}
        /\ \A i \in DOMAIN topic : topic'[i] = topic[i]
        /\ topic'[Len(topic) + 1] = Current
    BY <2>1, TopicGrown
  <2>3. After' = After
    BY <2>1 DEF After
  <2>4. /\ pending # None /\ pending.key[1] = After
        /\ \E j \in DOMAIN pending.rows : pending.rows[j] = Current
    <3>1. pending # None /\ pending.rows = proc.rows /\ pending.key[1] = proc.after /\ proc.after = After
      BY <2>1, SendHasPending DEF MemoryRight
    <3>2. Current = proc.rows[proc.sent + 1] /\ proc.sent + 1 \in 1..Len(proc.rows)
      BY <2>1, CurrentType
    <3>3. DOMAIN proc.rows = 1..Len(proc.rows)
      BY <2>1, FetchedRows, SendHasPending DEF MemoryRight
    <3> QED
      BY <3>1, <3>2, <3>3
  <2>5. CursorIsDelivered'
    BY <2>1, <2>2, <2>3 DEF TopicRight, CursorIsDelivered
  <2>6. (\A i \in DOMAIN topic : topic[i].seq > After =>
             /\ pending # None /\ pending.key[1] = After
             /\ \E j \in DOMAIN pending.rows : pending.rows[j] = topic[i])'
    BY <2>1, <2>2, <2>3, <2>4 DEF TopicRight
  <2> QED
    BY <2>1, <2>3, <2>5, <2>6 DEF TopicRight
<1>5. CASE WriteCursor
  <2>1. /\ proc.pc = "send" /\ proc.sent = Len(proc.rows) /\ cursor' = proc.after + Len(proc.rows)
        /\ UNCHANGED <<start, topic, pending>>
    BY <1>5 DEF WriteCursor
  <2>2. /\ pending # None /\ pending.rows = proc.rows /\ pending.key[1] = proc.after
        /\ proc.after = After /\ proc.after \in Nat /\ Fetched(proc.after, proc.rows)
    BY <2>1, SendHasPending DEF MemoryRight
  <2> DEFINE n == Len(proc.rows)
  <2>3. /\ n \in Nat /\ n > 0 /\ DOMAIN proc.rows = 1..n
        /\ \A j \in 1..n : proc.rows[j].seq = After + j
    BY <2>2, FetchedRows, SendHasPending, <2>1
  <2>4. After' = After + n /\ After \in Nat /\ start \in Nat
    BY <2>1, <2>2, <2>3 DEF After, SyncAssumption, TypeOK
  <2>5. start' <= After'
    BY <2>1, <2>3, <2>4 DEF TopicRight
  <2>6. CursorIsDelivered'
    <3> SUFFICES ASSUME NEW s \in start + 1 .. After + n
                 PROVE  \E i \in DOMAIN topic : topic[i].seq = s
      BY <2>1, <2>4 DEF CursorIsDelivered
    <3>1. CASE s <= After
      BY <2>3, <2>4, <3>1 DEF TopicRight, CursorIsDelivered
    <3>2. CASE s > After
      <4>1. s - After \in 1..n
        BY <2>3, <2>4, <3>2
      <4>2. PICK i \in DOMAIN topic : topic[i] = proc.rows[s - After]
        BY <2>1, <4>1 DEF MemoryRight
      <4>3. proc.rows[s - After].seq = After + (s - After)
        BY <2>3, <4>1
      <4> QED
        BY <2>3, <2>4, <4>2, <4>3
    <3> QED
      BY <2>3, <2>4, <3>1, <3>2
  <2>7. \A i \in DOMAIN topic : ~(topic[i].seq > After + n)
    <3> SUFFICES ASSUME NEW i \in DOMAIN topic, topic[i].seq > After + n PROVE FALSE
      OBVIOUS
    <3>1. topic[i].seq \in Nat
      <4>1. topic \in Seq(Rows)
        BY DEF TypeOK
      <4>2. topic[i] \in Rows
        BY <4>1
      <4> QED
        BY <4>2 DEF Rows
    <3>2. topic[i].seq > After
      BY <2>3, <2>4, <3>1
    <3>3. PICK j \in 1..n : proc.rows[j] = topic[i]
      BY <2>2, <2>3, <3>2 DEF TopicRight
    <3> QED
      BY <2>3, <2>4, <3>3
  <2>8. (\A i \in DOMAIN topic : topic[i].seq > After =>
             /\ pending # None /\ pending.key[1] = After
             /\ \E j \in DOMAIN pending.rows : pending.rows[j] = topic[i])'
    BY <2>1, <2>4, <2>7
  <2> QED
    BY <2>5, <2>6, <2>8 DEF TopicRight
<1>6. CASE RebaseCursor
  <2>1. /\ proc.pc = "rebase" /\ proc.after \in Nat /\ topic = << >>
        /\ cursor' = proc.after /\ start' = proc.after /\ topic' = topic
    BY <1>6, ProcShape DEF RebaseCursor, NewIsEmpty
  <2>2. After' = proc.after
    BY <2>1 DEF After, SyncAssumption
  <2> QED
    BY <2>1, <2>2 DEF TopicRight, CursorIsDelivered
<1> QED
  BY <1>1, <1>2, <1>3, <1>4, <1>5, <1>6
  DEF Next, vars, Collecting, Accept, LoseTotals, Rebuild, Tick, BeginRebase, SyncStep, Begin,
     Bind, CheckBounds, Fetch, Register, WriteArchive, RefuseExpired, RebaseBinding, RebaseReceipt, Fail

LEMMA GenerationStep ==
    ASSUME SyncAssumption, TypeOK, NewIsEmpty, MemoryRight, GenerationsRight, [Next]_vars
    PROVE  GenerationsRight'
<1> USE DEF files, Stop, Idle
<1>a. source.gen \in Nat /\ (binding # None => binding \in Nat)
  BY DEF TypeOK
<1>1. CASE Collecting \/ Tick \/ UNCHANGED vars
  <2>1. UNCHANGED <<binding, proc, topic, pending>> /\ source'.gen \in Nat /\ source.gen <= source'.gen
    <3>1. source' = source \/ source'.gen = source.gen \/ source'.gen = source.gen + 1
      BY <1>1 DEF Collecting, Accept, LoseTotals, Rebuild, Tick, vars, TypeOK
    <3> QED
      BY <1>1, <1>a, <3>1 DEF Collecting, Accept, LoseTotals, Rebuild, Tick, vars
  <2>2. proc.pc = "rebase" => proc.gen \in Nat
    BY ProcShape
  <2>3. \A g : g \in binding .. source.gen /\ binding # None => g \in binding .. source'.gen
    BY <1>a, <2>1
  <2> QED
    BY <1>a, <2>1, <2>2, <2>3 DEF GenerationsRight, Reached
<1>2. CASE proc' = Idle /\ UNCHANGED <<binding, source, topic>> /\ pending' \in {None, pending}
  BY <1>2 DEF GenerationsRight, Reached
<1>3. CASE Begin \/ CheckBounds \/ LoadPending \/ WriteCursor \/ RebaseCursor
  BY <1>3 DEF Begin, CheckBounds, LoadPending, WriteCursor, RebaseCursor, Send, GenerationsRight, Reached
<1>4. CASE Bind /\ proc' # Idle
  <2>1. /\ binding' = source.gen /\ binding \in {None, source.gen} /\ proc'.pc = "bounds"
        /\ UNCHANGED <<source, topic, pending>>
    BY <1>4 DEF Bind, Refusal, Follows, SyncAssumption, Reasons
  <2>2. CASE binding = None
    <3>1. topic' = << >> /\ pending' = None
      BY <2>1, <2>2 DEF NewIsEmpty
    <3>2. source.gen # None /\ source.gen \in binding' .. source'.gen
      BY <1>a, <2>1 DEF SyncAssumption
    <3> QED
      BY <2>1, <3>1, <3>2 DEF GenerationsRight, Reached
  <2>3. CASE binding = source.gen
    BY <1>a, <2>1, <2>3 DEF GenerationsRight, Reached, SyncAssumption
  <2> QED
    BY <2>1, <2>2, <2>3
<1>5. CASE Fetch /\ proc' # Idle
  <2> DEFINE count == Min({PageSize, Latest - proc.after})
             rows == [i \in 1..count |-> Row(proc.after + i)]
  <2>1. /\ proc' = [pc |-> "register", after |-> proc.after, rows |-> rows]
        /\ proc.pc = "fetch" /\ UNCHANGED <<source, binding, pending, topic>>
    BY <1>5, FloorType DEF Fetch
  <2>2. proc.after \in Nat /\ proc.after < Latest
    BY <1>5, ProcShape, FloorType DEF Fetch
  <2>3. rows[1].gen = source.gen
    BY <2>2, PageIsFetched
  <2>4. Reached(source.gen)
    BY <1>a, <2>1 DEF MemoryRight, GenerationsRight, Reached
  <2> HIDE DEF rows
  <2> QED
    BY <2>1, <2>3, <2>4 DEF GenerationsRight, Reached
<1>6. CASE (Register /\ proc' # Idle) \/ WriteArchive
  <2>1. /\ proc.pc \in {"register", "archive"}
        /\ proc \in [pc : {"register", "archive"}, after : Nat, rows : Seq(Rows)]
    BY <1>6 DEF Register, WriteArchive, TypeOK, Memory
  <2>2. proc'.rows = proc.rows /\ proc'.pc \in {"archive", "pending"} /\ UNCHANGED <<source, binding, pending, topic>>
    BY <1>6, <2>1 DEF Register, WriteArchive
  <2> QED
    BY <2>1, <2>2 DEF GenerationsRight, Reached
<1>7. CASE WritePending
  <2>1. /\ proc.pc = "pending" /\ pending'.rows = proc.rows /\ proc'.pc = "send"
        /\ UNCHANGED <<source, binding, topic>>
    BY <1>7 DEF WritePending, Send
  <2> QED
    BY <2>1 DEF GenerationsRight, Reached
<1>8. CASE Publish \/ Resend \/ LoseAck
  <2>1. /\ Sending /\ proc.pc = "send" /\ topic' = Append(topic, Current)
        /\ UNCHANGED <<source, binding, pending>>
    BY <1>8 DEF Publish, Resend, LoseAck, Sending
  <2>2. /\ DOMAIN topic' = DOMAIN topic \union {Len(topic) + 1}
        /\ \A i \in DOMAIN topic : topic'[i] = topic[i]
        /\ topic'[Len(topic) + 1] = Current
    BY <2>1, TopicGrown
  <2>3. Reached(Current.gen)
    <3>1. Current.gen = proc.rows[1].gen
      BY <2>1, CurrentType
    <3>2. pending # None /\ pending.rows = proc.rows
      BY <2>1, SendHasPending
    <3> QED
      BY <3>1, <3>2 DEF GenerationsRight
  <2>4. proc'.pc \in {"send", "idle"}
    <3>1. proc \in [pc : {"send"}, after : Nat, rows : Seq(Rows), sent : Nat]
      BY <2>1 DEF TypeOK, Memory
    <3> QED
      BY <1>8, <2>1, <3>1 DEF Publish, Resend, LoseAck
  <2> QED
    BY <2>1, <2>2, <2>3, <2>4 DEF GenerationsRight, Reached
<1>9. CASE BeginRebase
  <2>1. proc'.pc = "rebase" /\ proc'.gen = source.gen /\ UNCHANGED <<source, binding, pending, topic>>
    BY <1>9 DEF BeginRebase
  <2> QED
    BY <1>a, <2>1 DEF GenerationsRight, Reached
<1>10. CASE RebaseBinding
  <2>1. /\ proc.pc = "rebase" /\ binding' = proc.gen /\ topic = << >> /\ pending = None
        /\ UNCHANGED <<source, topic, pending, proc>> /\ proc.gen \in Nat
    BY <1>10, ProcShape DEF RebaseBinding, NewIsEmpty
  <2> QED
    BY <1>a, <2>1 DEF GenerationsRight, Reached, SyncAssumption
<1>11. CASE Bind /\ proc' = Idle
  <2>1. UNCHANGED <<binding, source, topic, pending>>
    BY <1>11 DEF Bind
  <2> QED
    BY <1>2, <1>11, <2>1
<1>12. CASE (Fetch \/ Register) /\ proc' = Idle
  BY <1>2, <1>12 DEF Fetch, Register
<1>13. CASE RefuseExpired \/ UnlinkPending \/ RebaseReceipt \/ Fail
  BY <1>2, <1>13 DEF Fail, RefuseExpired, UnlinkPending, RebaseReceipt
<1> QED
  BY <1>1, <1>3, <1>4, <1>5, <1>6, <1>7, <1>8, <1>9, <1>10, <1>11, <1>12, <1>13
  DEF Next, SyncStep

\* What a topic row beyond the cursor is: a row of the batch that is being sent.
LEMMA Beyond ==
    ASSUME SyncAssumption, TypeOK, MemoryRight, PendingRight, TopicRight, proc.pc = "send",
           NEW i \in DOMAIN topic, topic[i].seq > proc.after
    PROVE  /\ topic[i].seq \in proc.after + 1 .. proc.after + Len(proc.rows)
           /\ topic[i].gen = proc.rows[1].gen
<1>1. proc.after = After /\ pending.rows = proc.rows /\ proc.after \in Nat /\ Fetched(proc.after, proc.rows)
  BY SendHasPending DEF MemoryRight
<1>2. PICK j \in DOMAIN proc.rows : proc.rows[j] = topic[i]
  BY <1>1 DEF TopicRight
<1> QED
  BY <1>1, <1>2, FetchedRows

LEMMA ForeignStep ==
    ASSUME SyncAssumption, TypeOK, NewIsEmpty, MemoryRight, PendingRight, TopicRight,
           GenerationsRight, ForeignRight, [Next]_vars
    PROVE  ForeignRight'
<1> USE DEF files, Stop, Idle
<1>1. CASE UNCHANGED <<binding, topic, proc, pending>>
  BY <1>1 DEF ForeignRight, Foreign
<1>2. CASE UNCHANGED <<binding, topic>> /\ proc'.pc \notin {"bounds", "load", "fetch", "register",
                                                            "archive", "pending", "send"}
  BY <1>2 DEF ForeignRight, Foreign
<1>3. CASE Bind /\ proc' # Idle
  <2>1. /\ binding' = source.gen /\ binding \in {None, source.gen} /\ proc'.pc = "bounds"
        /\ UNCHANGED <<source, topic, pending>>
    BY <1>3 DEF Bind, Refusal, Follows, SyncAssumption, Reasons
  <2>2. CASE binding = None
    BY <2>1, <2>2 DEF ForeignRight, Foreign, NewIsEmpty
  <2>3. CASE binding = source.gen
    <3>1. source.gen \in Nat
      BY DEF TypeOK
    <3>2. \A g : Reached(g) => g = source.gen
      BY <2>3, <3>1 DEF Reached
    <3>3. Foreign' = {} /\ (pending # None => pending.rows[1].gen = source.gen)
      BY <2>1, <2>3, <3>2 DEF GenerationsRight, Foreign
    <3> QED
      BY <2>1, <3>3 DEF ForeignRight
  <2> QED
    BY <2>1, <2>2, <2>3
<1>4. CASE CheckBounds /\ proc' # Idle
  BY <1>4 DEF CheckBounds, ForeignRight, Foreign
<1>5. CASE LoadPending /\ proc' # Idle
  <2>1. /\ proc' = [pc |-> "send", after |-> proc.after, rows |-> pending.rows, sent |-> 0]
        /\ proc.pc = "load" /\ UNCHANGED <<binding, topic, pending>>
    BY <1>5 DEF LoadPending, Send
  <2> QED
    BY <2>1 DEF ForeignRight, Foreign
<1>6. CASE Fetch /\ proc' # Idle
  <2>1. proc'.pc = "register" /\ proc.pc = "fetch" /\ UNCHANGED <<binding, pending, topic>>
    BY <1>6 DEF Fetch
  <2> QED
    BY <2>1 DEF ForeignRight, Foreign
<1>7. CASE (Register /\ proc' # Idle) \/ WriteArchive
  <2>1. /\ proc.pc \in {"register", "archive"}
        /\ proc \in [pc : {"register", "archive"}, after : Nat, rows : Seq(Rows)]
    BY <1>7 DEF Register, WriteArchive, TypeOK, Memory
  <2>2. proc'.pc \in {"archive", "pending"} /\ UNCHANGED <<binding, pending, topic>>
    BY <1>7, <2>1 DEF Register, WriteArchive
  <2> QED
    BY <2>1, <2>2 DEF ForeignRight, Foreign
<1>8. CASE WritePending
  <2>1. proc.pc = "pending" /\ proc'.pc = "send" /\ UNCHANGED <<binding, topic>>
    BY <1>8 DEF WritePending, Send
  <2> QED
    BY <2>1 DEF ForeignRight, Foreign
<1>9. CASE Publish \/ Resend \/ LoseAck
  <2> DEFINE after == proc.after
             n == Len(topic) + 1
  <2>1. Sending /\ proc.pc = "send" /\ topic' = Append(topic, Current) /\ UNCHANGED <<binding, pending>>
    BY <1>9 DEF Publish, Resend, LoseAck, Sending
  <2>2. /\ n \in Nat /\ n \notin DOMAIN topic /\ DOMAIN topic' = DOMAIN topic \union {n}
        /\ \A i \in DOMAIN topic : topic'[i] = topic[i]
        /\ topic'[n] = Current
    BY <2>1, TopicGrown
  <2>3. \A i \in DOMAIN topic : topic[i].seq \in Nat
    <3> TAKE i \in DOMAIN topic
    <3>1. topic[i] \in Rows
      BY <2>1, TopicGrown
    <3> QED
      BY <3>1 DEF Rows
  <2>4. /\ Current.seq = after + proc.sent + 1 /\ Current.gen = proc.rows[1].gen
        /\ proc.sent + 1 \in 1..Len(proc.rows)
    BY <2>1, CurrentType
  <2>5. after \in Nat /\ proc.sent \in Nat /\ Len(proc.rows) \in 1..PageSize /\ PageSize \in Nat
    BY <2>1, ProcShape, SendHasPending, FetchedRows DEF MemoryRight, SyncAssumption
  <2>6. Current.seq \in after + 1 .. after + Len(proc.rows)
    BY <2>4, <2>5
  <2>7. \A i \in Foreign : topic[i].seq \in after + 1 .. after + Len(proc.rows)
    BY <2>1, Beyond DEF ForeignRight, Foreign
  <2>8. /\ proc'.pc \in {"send", "idle"}
        /\ proc'.pc = "send" => proc'.after = after /\ proc'.rows = proc.rows
    <3>1. proc \in [pc : {"send"}, after : Nat, rows : Seq(Rows), sent : Nat]
      BY <2>1 DEF TypeOK, Memory
    <3> QED
      BY <1>9, <2>1, <3>1 DEF Publish, Resend, LoseAck
  <2> HIDE DEF after, n
  <2>9. CASE Current.gen = binding
    <3>1. Foreign' = Foreign /\ Foreign = {}
      BY <2>1, <2>2, <2>4, <2>9 DEF Foreign, ForeignRight
    <3> QED
      BY <2>8, <3>1 DEF ForeignRight
  <2>10. CASE Current.gen # binding
    <3>1. Foreign' = Foreign \union {n}
      BY <2>1, <2>2, <2>10 DEF Foreign
    <3>2. \A i \in Foreign' : topic'[i].seq \in after + 1 .. after + Len(proc.rows)
      BY <2>2, <2>6, <2>7, <3>1 DEF Foreign
    <3>3. \A i, j \in Foreign' : topic'[i].seq - topic'[j].seq < PageSize
      BY <2>5, <3>2
    <3>4. \A i \in DOMAIN topic' : \E j \in Foreign' : topic'[i].seq <= topic'[j].seq
      <4>1. CASE Foreign # {}
        <5> TAKE i \in DOMAIN topic'
        <5>1. CASE i = n
          BY <2>2, <2>6, <2>5, <3>1, <5>1
        <5>2. CASE i \in DOMAIN topic
          <6>1. PICK j \in Foreign : topic[i].seq <= topic[j].seq
            BY <4>1, <5>2 DEF ForeignRight
          <6>2. j \in DOMAIN topic
            BY DEF Foreign
          <6> QED
            BY <2>2, <3>1, <5>2, <6>1, <6>2
        <5> QED
          BY <2>2, <5>1, <5>2
      <4>2. CASE Foreign = {}
        <5> TAKE i \in DOMAIN topic'
        <5>1. CASE i = n
          BY <2>2, <2>6, <2>5, <3>1, <5>1
        <5>2. CASE i \in DOMAIN topic
          <6>1. ~(topic[i].seq > after)
            BY <2>1, <2>4, <2>10, <4>2, <5>2, Beyond DEF Foreign, after
          <6> QED
            BY <2>2, <2>3, <2>5, <2>6, <3>1, <5>2, <6>1
        <5> QED
          BY <2>2, <5>1, <5>2
      <4> QED
        BY <4>1, <4>2
    <3>5. \A i \in Foreign' : topic'[i].seq > after
      BY <2>5, <3>2
    <3>6. proc'.pc = "send" => proc'.rows[1].gen # binding' /\ \A i \in Foreign' : topic'[i].seq > proc'.after
      BY <2>1, <2>4, <2>8, <2>10, <3>5
    <3> QED
      BY <2>8, <3>3, <3>4, <3>6 DEF ForeignRight
  <2> QED
    BY <2>9, <2>10
<1>10. CASE RebaseBinding
  <2>1. proc.pc = "rebase" /\ topic = << >> /\ UNCHANGED <<topic, pending, proc>>
    BY <1>10 DEF RebaseBinding, NewIsEmpty
  <2> QED
    BY <2>1 DEF ForeignRight, Foreign
<1>11. CASE (Bind \/ CheckBounds \/ LoadPending \/ Fetch \/ Register) /\ proc' = Idle
  BY <1>2, <1>11 DEF Bind, CheckBounds, LoadPending, Fetch, Register
<1>12. CASE Begin \/ RefuseExpired \/ WriteCursor \/ UnlinkPending \/ BeginRebase \/ RebaseCursor
            \/ RebaseReceipt \/ Fail
  BY <1>2, <1>12 DEF Begin, RefuseExpired, WriteCursor, UnlinkPending, BeginRebase, RebaseCursor,
                     RebaseReceipt, Fail
<1>13. CASE Collecting \/ Tick \/ UNCHANGED vars
  BY <1>1, <1>13 DEF Collecting, Accept, LoseTotals, Rebuild, Tick, vars
<1> QED
  BY <1>3, <1>4, <1>5, <1>6, <1>7, <1>8, <1>9, <1>10, <1>11, <1>12, <1>13 DEF Next, SyncStep

LEMMA Invariance == Spec => []IInv
<1>1. Init => IInv
  BY InitIInv
<1>2. IInv /\ [Next]_vars => IInv'
  BY SyncAssumption, TypeStep, NewStep, MemoryStep, PendingStep, TopicStep, GenerationStep, ForeignStep DEF IInv
<1> QED
  BY <1>1, <1>2, PTL DEF Spec

-----------------------------------------------------------------------------
(* What the invariant means for the readers of the lane. *)

\* How far the topic is ahead of the cursor.
LEMMA Ahead ==
    ASSUME SyncAssumption, IInv
    PROVE  /\ After \in Nat /\ start \in Nat /\ start <= After /\ PageSize \in Nat
           /\ \A i \in DOMAIN topic : topic[i].seq \in 0 .. After + PageSize
<1>1. After \in Nat /\ start \in Nat /\ start <= After /\ PageSize \in Nat
  BY AfterType DEF IInv, TypeOK, TopicRight, SyncAssumption
<1>2. \A i \in DOMAIN topic : topic[i].seq \in 0 .. After + PageSize
  <2> TAKE i \in DOMAIN topic
  <2>1. topic \in Seq(Rows)
    BY DEF IInv, TypeOK
  <2>2. topic[i] \in Rows
    BY <2>1
  <2>3. topic[i].seq \in Nat
    BY <2>2 DEF Rows
  <2>4. CASE topic[i].seq > After
    <3>1. PICK j \in DOMAIN pending.rows : pending.rows[j] = topic[i]
      BY <2>4 DEF IInv, TopicRight
    <3>2. pending # None /\ pending.key[1] = After
      BY <2>4 DEF IInv, TopicRight
    <3>3. Fetched(After, pending.rows)
      BY <3>2 DEF IInv, PendingRight
    <3> QED
      BY <1>1, <3>1, <3>3, FetchedRows
  <2> QED
    BY <1>1, <2>3, <2>4
<1> QED
  BY <1>1, <1>2

LEMMA ForeignIsOneBatch == ASSUME SyncAssumption, IInv PROVE OneForeignBatchAtMost
<1> DEFINE foreign == {topic[i].seq : i \in {j \in DOMAIN topic : topic[j].gen # binding}}
<1> SUFFICES ASSUME foreign # {}
             PROVE  /\ Max(foreign) - Min(foreign) < PageSize
                    /\ \A i \in DOMAIN topic : topic[i].seq <= Max(foreign)
  BY DEF OneForeignBatchAtMost
<1>1. foreign = {topic[i].seq : i \in Foreign} /\ Foreign # {}
  BY DEF Foreign
<1>2. foreign \subseteq 0 .. After + PageSize /\ After + PageSize \in Nat /\ PageSize \in Nat
  BY Ahead
<1>3. /\ \A x, y \in foreign : x - y < PageSize
      /\ \A i \in DOMAIN topic : \E x \in foreign : topic[i].seq <= x
  BY <1>1 DEF IInv, ForeignRight
<1>4. \A i \in DOMAIN topic : topic[i].seq \in Nat
  BY Ahead
<1> HIDE DEF foreign
<1>5. Max(foreign) \in foreign /\ \A y \in foreign : y <= Max(foreign)
  BY <1>2, MaxProperty
<1>6. foreign \subseteq Nat
  BY <1>2
<1>7. Min(foreign) \in foreign
  BY <1>6, MinProperty
<1>8. \A i \in DOMAIN topic : topic[i].seq <= Max(foreign)
  <2> TAKE i \in DOMAIN topic
  <2>1. PICK x \in foreign : topic[i].seq <= x
    BY <1>3
  <2>2. topic[i].seq \in Nat /\ x \in Nat /\ Max(foreign) \in Nat /\ x <= Max(foreign)
    BY <1>4, <1>5, <1>6
  <2> QED
    BY <2>1, <2>2
<1> QED
  BY <1>3, <1>5, <1>7, <1>8

\* Nothing is skipped, at most one batch is repeated, and the rows of another
\* database than the bound one come from one batch, the last: kafka_sync publishes
\* before it replaces the cursor and check_source runs before every batch.
THEOREM LaneIsSound == Spec => []LaneSound
<1>1. IInv => LaneSound
  <2> SUFFICES ASSUME IInv PROVE LaneSound
    OBVIOUS
  <2>1. UnacknowledgedIsPending
    BY DEF IInv, TopicRight, PendingRight, UnacknowledgedIsPending
  <2> QED
    BY SyncAssumption, <2>1, ForeignIsOneBatch DEF IInv, TopicRight, LaneSound
<1> QED
  BY <1>1, Invariance, PTL

\* A recorded gap stops the lane and every row that is sent is live: gap.json is read
\* before a batch is begun, the deadline before every row.
THEOREM SentInTime == Spec => SendsInTime
<1>1. IInv /\ [Next]_vars => [GapStops /\ NeverSendsExpired]_vars
  <2> SUFFICES ASSUME IInv, [Next]_vars PROVE GapStops /\ NeverSendsExpired
    OBVIOUS
  <2>1. gap # None => proc.pc \in {"idle", "status"}
    BY DEF IInv, MemoryRight
  <2>2. GapStops
    BY <2>1
    DEF GapStops, Next, vars, files, Collecting, Accept, LoseTotals, Rebuild, Tick, BeginRebase,
        SyncStep, Begin, Bind, CheckBounds, LoadPending, Fetch, Register, WriteArchive, WritePending,
        Publish, RefuseExpired, WriteCursor, UnlinkPending, RebaseBinding, RebaseCursor,
        RebaseReceipt, Fail, Resend, LoseAck, Sending
  <2>3. ASSUME topic' # topic PROVE ~Lapsed(topic'[Len(topic')].at)
    <3>1. Sending /\ ~Lapsed(Current.at) /\ topic' = Append(topic, Current)
      BY <2>3, TopicGrows DEF IInv
    <3>2. topic \in Seq(Rows) /\ Current \in Rows
      BY <3>1, CurrentType DEF IInv, TypeOK
    <3>3. topic'[Len(topic')] = Current
      <4> HIDE DEF Rows
      <4> QED
        BY <3>1, <3>2, OneMore
    <3> QED
      BY <3>1, <3>3 DEF Lapsed
  <2> QED
    BY <2>2, <2>3 DEF NeverSendsExpired
<1> QED
  BY <1>1, Invariance, PTL DEF Spec, SendsInTime

\* The furthest position of the topic is what Relay calls High.
LEMMA HighIs ==
    ASSUME SyncAssumption, IInv
    PROVE  /\ R!High \in Nat /\ After <= R!High
           /\ \A i \in DOMAIN topic : topic[i].seq <= R!High
<1> DEFINE S == {start} \union {topic[i].seq : i \in DOMAIN topic}
<1>1. S \subseteq 0 .. After + PageSize /\ After + PageSize \in Nat /\ S # {}
  BY Ahead
<1>2. {start} \union Range(Delivered) = S
  BY DEF Range, Delivered
<1>3. /\ start \in S /\ \A i \in DOMAIN topic : topic[i].seq \in S
      /\ \A s \in start + 1 .. After : s \in S
  BY DEF IInv, TopicRight, CursorIsDelivered
<1> HIDE DEF S
<1>4. Max(S) \in S /\ \A y \in S : y <= Max(S)
  BY <1>1, MaxProperty
<1>5. R!High = Max(S)
  BY <1>2 DEF R!High, R!Max, R!Range, Max, Range
<1>6. After \in S
  BY <1>3, Ahead
<1>7. Max(S) \in Nat
  <2>1. S \subseteq Nat
    BY <1>1
  <2> QED
    BY <1>4, <2>1
<1> QED
  BY <1>3, <1>4, <1>5, <1>6, <1>7

LEMMA RelayStep ==
    ASSUME SyncAssumption, IInv, [Next]_vars
    PROVE  [R!RelayNext]_(R!relayVars)
<1> USE DEF files, Stop
<1> USE SyncAssumption
<1>1. CASE UNCHANGED <<start, cursor, topic>> /\ gap' \in Reasons \union {gap}
  <2>1. UNCHANGED <<start, After, Delivered>>
    BY <1>1 DEF After, Delivered
  <2>2. CASE gap' = gap
    BY <2>1, <2>2 DEF R!relayVars
  <2>3. CASE gap' \in Reasons
    <3>1. (gap # None)' = TRUE
      BY <2>3 DEF SyncAssumption
    <3> QED
      BY <2>1, <3>1 DEF R!RelayNext, R!Close
  <2> QED
    BY <1>1, <2>2, <2>3
<1>2. CASE Publish \/ Resend \/ LoseAck
  <2>1. /\ Sending /\ proc.pc = "send" /\ topic' = Append(topic, Current)
        /\ UNCHANGED <<start, cursor, gap>> /\ gap = None /\ proc.after = After
    BY <1>2 DEF Publish, Resend, LoseAck, Sending, IInv, MemoryRight
  <2>2. UNCHANGED <<start, After>> /\ ((gap # None)' <=> (gap # None))
    BY <2>1 DEF After
  <2>3. Current \in Rows /\ Current.seq = After + proc.sent + 1 /\ proc.sent + 1 \in 1..Len(proc.rows)
    BY <2>1, CurrentType DEF IInv
  <2>4. proc.sent \in Nat /\ Fetched(After, proc.rows) /\ After \in Nat
    BY <2>1, ProcShape, AfterType DEF IInv, MemoryRight
  <2>5. After + proc.sent <= R!High /\ R!High \in Nat
    <3>1. CASE proc.sent = 0
      BY <2>4, <3>1, HighIs
    <3>2. CASE proc.sent # 0
      <4>1. proc.sent \in 1..proc.sent /\ proc.sent \in DOMAIN proc.rows
        BY <2>3, <2>4, <3>2, FetchedRows
      <4>2. PICK i \in DOMAIN topic : topic[i] = proc.rows[proc.sent]
        BY <2>1, <4>1 DEF IInv, MemoryRight
      <4>3. proc.rows[proc.sent].seq = After + proc.sent
        BY <2>4, <4>1, FetchedRows
      <4>4. topic[i].seq <= R!High /\ R!High \in Nat
        BY HighIs
      <4> QED
        BY <4>2, <4>3, <4>4
    <3> QED
      BY <3>1, <3>2
  <2>6. Current.seq \in After + 1 .. R!High + 1
    BY <2>3, <2>4, <2>5
  <2>7. Delivered' = Append(Delivered, Current.seq)
    <3>1. topic \in Seq(Rows)
      BY DEF IInv, TypeOK
    <3>2. Len(Delivered) = Len(topic) /\ Delivered = [i \in 1..Len(topic) |-> topic[i].seq]
      BY <3>1 DEF Delivered
    <3> QED
      BY <2>1, <2>3, <3>1, <3>2 DEF Delivered
  <2> QED
    BY <2>1, <2>2, <2>6, <2>7 DEF R!RelayNext, R!Deliver
<1>3. CASE WriteCursor
  <2>1. /\ proc.pc = "send" /\ proc.sent = Len(proc.rows) /\ cursor' = proc.after + Len(proc.rows)
        /\ UNCHANGED <<start, topic, gap>> /\ gap = None /\ proc.after = After
    BY <1>3 DEF WriteCursor, IInv, MemoryRight
  <2>2. After \in Nat /\ Len(proc.rows) \in Nat \ {0} /\ Fetched(After, proc.rows)
    BY <2>1, SendHasPending DEF IInv, MemoryRight
  <2>3. After' = After + Len(proc.rows)
    BY <2>1, <2>2 DEF After
  <2>4. PICK i \in DOMAIN topic : topic[i] = proc.rows[Len(proc.rows)]
    BY <2>1, <2>2 DEF IInv, MemoryRight
  <2>5. After' <= R!High /\ R!High \in Nat
    <3>1. Len(proc.rows) \in DOMAIN proc.rows
      BY <2>2, FetchedRows
    <3>2. proc.rows[Len(proc.rows)].seq = After + Len(proc.rows)
      BY <2>2, <3>1, FetchedRows, ZenonT(60)
    <3>3. topic[i].seq <= R!High /\ R!High \in Nat
      BY HighIs
    <3> QED
      BY <2>3, <2>4, <3>2, <3>3
  <2>6. After' \in After + 1 .. R!High
    BY <2>2, <2>3, <2>5
  <2>7. UNCHANGED Delivered
    BY <2>1 DEF Delivered
  <2> QED
    BY <2>1, <2>6, <2>7 DEF R!RelayNext, R!Acknowledge
<1>4. CASE RebaseCursor
  <2>1. /\ proc.pc = "rebase" /\ proc.after \in Nat /\ topic = << >> /\ cursor = None
        /\ cursor' = proc.after /\ start' = proc.after /\ UNCHANGED <<topic, gap>>
    BY <1>4, ProcShape DEF RebaseCursor, IInv, NewIsEmpty
  <2>2. After = 0 /\ After' = proc.after /\ Delivered = << >> /\ Delivered' = << >>
    BY <2>1 DEF After, Delivered
  <2> QED
    BY <2>1, <2>2 DEF R!RelayNext, R!Open
<1>5. CASE Bind
  <2>1. gap' \in Reasons \union {gap}
    BY <1>5 DEF Bind, RecordGap, Refusal, Reasons
  <2> QED
    BY <1>1, <1>5, <2>1 DEF Bind
<1>6. CASE CheckBounds \/ LoadPending \/ Fetch \/ RefuseExpired
  BY <1>1, <1>6 DEF CheckBounds, LoadPending, Fetch, RefuseExpired, RecordGap, Reasons
<1>7. CASE \/ Collecting \/ Tick \/ BeginRebase \/ Begin \/ Register \/ WriteArchive \/ WritePending
           \/ UnlinkPending \/ RebaseBinding \/ RebaseReceipt \/ Fail \/ UNCHANGED vars
  BY <1>1, <1>7
  DEF Collecting, Accept, LoseTotals, Rebuild, Tick, BeginRebase, Begin, Register, WriteArchive,
      WritePending, UnlinkPending, RebaseBinding, RebaseReceipt, Fail, vars
<1> QED
  BY <1>2, <1>3, <1>4, <1>5, <1>6, <1>7 DEF Next, SyncStep

\* The synchronisation implements the relay: in order, nothing skipped, nothing repeated
\* once it is acknowledged, closed for good by a gap.
THEOREM LaneIsRelay == Spec => RefinesRelay
<1>1. Init => R!RelayInit
  <2> SUFFICES ASSUME Init PROVE R!RelayInit
    OBVIOUS
  <2>1. After = 0 /\ Delivered = << >> /\ (gap # None) = FALSE /\ start = 0
    BY DEF Init, After, Delivered
  <2> QED
    BY <2>1 DEF R!RelayInit
<1>2. IInv /\ [Next]_vars => [R!RelayNext]_(R!relayVars)
  BY SyncAssumption, RelayStep
<1> QED
  BY <1>1, <1>2, Invariance, PTL DEF Spec, RefinesRelay, R!RelaySpec
=============================================================================
