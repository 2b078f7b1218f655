-------------------------- MODULE LifecycleProofs --------------------------
(***************************************************************************)
(* Readers without the lock, and cleanup after any crash, find what they   *)
(* rely on, and no retention is extended: for any paths, classes, clock    *)
(* and number of crashes between two file operations.  Then what stands    *)
(* beside it: the retention of the engines and the controller of their     *)
(* machines, two programs of Programs, whose names are other ones.         *)
(***************************************************************************)
EXTENDS Lifecycle, Programs, FiniteSetTheorems, SequenceTheorems, WellFoundedInduction, TLAPS

Files == Paths \union {"registry", "gate"}
Gates == [open : BOOLEAN, checked : Nat]
Registries == UNION {[D -> Entries] : D \in SUBSET Paths}
Operations ==
    [op : {"create", "unlink"}, file : Files] \union
    [op : {"rename"}, file : {"registry"}, value : Registries] \union
    [op : {"rename"}, file : {"gate"}, value : Gates] \union
    [op : {"rename"}, file : Paths, value : {None}]
Jobs ==
    [phase : {"idle", "change", "reopen"}, todo : Seq(Operations)] \union
    [phase : {"purge"}, at : Nat, todo : Seq(Operations)]
Looks ==
    [pc : {"idle"}] \union
    [pc : {"gate"}, path : Paths, data : Registries] \union
    [pc : {"inventory"}, path : Paths, data : Registries, at : Nat] \union
    [pc : {"reading"}, path : Paths, at : Nat]

StateOK ==
    /\ now \in Nat /\ faults \in Nat
    /\ registry \in Registries /\ IsFiniteSet(DOMAIN registry)
    /\ gate \in Gates
    /\ payloads \subseteq Paths /\ temps \subseteq Files
    /\ job \in Jobs
    /\ reader \in [Readers -> Looks]

Renames(o, f) == o.op = "rename" /\ o.file = f

\* One entry more, for a path that had none: it refers to what is there, ends no later
\* than what it was copied from, and had not expired when the gate was opened.
Extends(v) ==
    \E p \in DOMAIN v \ DOMAIN registry : LET e == v[p] IN
        /\ p \in Paths /\ e \in Entries /\ v = Extended(p, e)
        /\ e.refs \subseteq DOMAIN registry
        /\ e.copy # None => e.copy \in DOMAIN registry /\ e.expires <= registry[e.copy].expires
        /\ gate.open => e.expires > gate.checked

OneRegistry ==
    \A i, j \in DOMAIN job.todo :
        Renames(job.todo[i], "registry") /\ Renames(job.todo[j], "registry") => i = j

ChangeRight ==
    /\ OneRegistry
    /\ \A i \in DOMAIN job.todo :
         LET o == job.todo[i]
         IN  /\ o.op # "unlink"
             /\ o.file \in Paths => o.file \in DOMAIN registry
             /\ Renames(o, "registry") => Extends(o.value)
             /\ Renames(o, "gate") => o.value = Closed

\* The gate is closed before anything is planned.
PurgeRight ==
    /\ job.at <= now
    /\ \A i \in DOMAIN job.todo : LET o == job.todo[i]
                                  IN  o.file = "gate" /\ (o.op = "rename" => o.value = Closed) /\ o.op # "unlink"
    /\ job.todo # << >> => Renames(Last(job.todo), "gate")
    /\ job.todo = << >> => ~ gate.open

\* The gate opens last; payload goes before its entry.
ReopenRight ==
    job.todo # << >> =>
        LET t == Last(job.todo).value.checked
        IN  /\ ~ gate.open
            /\ Renames(Last(job.todo), "gate") /\ Last(job.todo).value = Opened(t) /\ t <= now
            /\ OneRegistry
            /\ \A i \in DOMAIN job.todo :
                 LET o == job.todo[i]
                 IN  /\ o.op # "unlink" => o.file \in {"registry", "gate"}
                     /\ Renames(o, "gate") => i = Len(job.todo)
                     /\ Renames(o, "registry") =>
                          /\ o.value = Kept(registry, OverdueAt(registry, t))
                          /\ \A p \in OverdueAt(registry, t) \cap payloads :
                               \E j \in 1..(i - 1) : job.todo[j].op = "unlink" /\ job.todo[j].file = p
            /\ (\A i \in DOMAIN job.todo : ~ Renames(job.todo[i], "registry")) => ExpiredAt(registry, t) = {}

JobRight ==
    CASE job.phase = "idle" -> job.todo = << >>
      [] job.phase = "change" -> ChangeRight
      [] job.phase = "purge" -> PurgeRight
      [] job.phase = "reopen" -> ReopenRight

GateRight ==
    /\ gate.checked <= now
    /\ gate.open => ExpiredAt(registry, gate.checked) = {}

Within(f, g) == \A p \in DOMAIN f : p \in DOMAIN g /\ g[p] = f[p]

\* What a reader has been admitted to stays registered and not overdue for its time, or a later
\* cleanup has removed all that had expired by then, and nothing of the kind comes back.
LookRight(s) ==
    /\ s.pc = "gate" =>
         /\ Dangling(s.data) = {}
         /\ Within(s.data, registry) \/ OverdueAt(s.data, now) # {}
    /\ s.pc \in {"inventory", "reading"} =>
         /\ s.at <= now
         /\ \/ s.path \in DOMAIN registry /\ s.path \notin OverdueAt(registry, s.at)
            \/ /\ ExpiredAt(registry, s.at) = {}
               /\ job.phase = "change" => \A i \in DOMAIN job.todo :
                    Renames(job.todo[i], "registry") => ExpiredAt(job.todo[i].value, s.at) = {}

IInv ==
    /\ StateOK
    /\ NothingForgotten
    /\ NoDanglingReference
    /\ GateRight
    /\ JobRight
    /\ \A r \in Readers : LookRight(reader[r])

-----------------------------------------------------------------------------
(* What is overdue. *)

LEMMA Smaller ==
    ASSUME NEW x \in Nat, NEW y \in Nat, x < y
    PROVE  <<x, y>> \in OpToRel(<, Nat)
  BY Zenon DEF OpToRel

LEMMA MinProperty ==
    ASSUME NEW S, S \subseteq Nat, S # {}
    PROVE  Min(S) \in S /\ \A y \in S : Min(S) <= y
<1>1. PICK x \in S : \A y \in S : ~ (<<y, x>> \in OpToRel(<, Nat))
  BY WFMin, NatLessThanWellFounded
<1>2. \A y \in S : ~ (y < x)
  BY <1>1, Smaller, Zenon
<1>3. \A y \in S : x <= y
  BY <1>2
<1> QED
  BY <1>3 DEF Min

LEMMA RegistryFacts ==
    ASSUME NEW f \in Registries
    PROVE  /\ DOMAIN f \subseteq Paths
           /\ \A p \in DOMAIN f : /\ f[p] \in Entries /\ f[p].expires \in Nat /\ f[p].refs \subseteq Paths
                                  /\ f[p].copy \in Paths \union {None}
BY DEF Registries, Entries

LEMMA RegistryMade ==
    ASSUME NEW D \in SUBSET Paths, NEW f \in [D -> Entries]
    PROVE  f \in Registries
BY DEF Registries

\* What has expired is overdue, with all that refers to it.
LEMMA OverdueContains ==
    ASSUME NEW r, NEW t
    PROVE  ExpiredAt(r, t) \subseteq OverdueAt(r, t) /\ Follows(r, OverdueAt(r, t))
<1>1. ExpiredAt(r, t) \subseteq OverdueAt(r, t)
  BY DEF OverdueAt, ExpiredAt
<1>2. ASSUME NEW p \in DOMAIN r, r[p].refs \cap OverdueAt(r, t) # {} PROVE p \in OverdueAt(r, t)
  <2>1. PICK q \in r[p].refs : q \in OverdueAt(r, t)
    BY <1>2
  <2>2. ASSUME NEW S \in SUBSET DOMAIN r, ExpiredAt(r, t) \subseteq S, Follows(r, S) PROVE p \in S
    <3>1. q \in S
      BY <2>1, <2>2 DEF OverdueAt
    <3> QED
      BY <2>1, <2>2, <3>1 DEF Follows
  <2> QED
    BY <2>2 DEF OverdueAt
<1> QED
  BY <1>1, <1>2 DEF Follows

\* Nothing is overdue unless something has expired.
LEMMA NoneOverdue ==
    ASSUME NEW r, NEW t, ExpiredAt(r, t) = {}
    PROVE  OverdueAt(r, t) = {}
<1>1. {} \in SUBSET DOMAIN r /\ Follows(r, {})
  BY DEF Follows
<1> QED
  BY <1>1 DEF OverdueAt

LEMMA OverdueLater ==
    ASSUME NEW r \in Registries, NEW t \in Nat, NEW u \in Nat, t <= u
    PROVE  OverdueAt(r, t) \subseteq OverdueAt(r, u)
<1>1. ExpiredAt(r, t) \subseteq ExpiredAt(r, u)
  BY RegistryFacts DEF ExpiredAt
<1> QED
  BY <1>1 DEF OverdueAt

\* An entry is not made overdue by entries that nothing refers to.
LEMMA OverdueWithin ==
    ASSUME NEW f, NEW g, NEW t, Within(f, g), Dangling(f) = {}, NEW p \in DOMAIN f, p \in OverdueAt(g, t)
    PROVE  p \in OverdueAt(f, t)
<1>1. ASSUME NEW S \in SUBSET DOMAIN f, ExpiredAt(f, t) \subseteq S, Follows(f, S) PROVE p \in S
  <2> DEFINE T == S \union (DOMAIN g \ DOMAIN f)
  <2>1. T \in SUBSET DOMAIN g
    BY DEF Within
  <2>2. ExpiredAt(g, t) \subseteq T
    BY <1>1 DEF ExpiredAt, Within
  <2>3. ASSUME NEW x \in DOMAIN g, g[x].refs \cap T # {} PROVE x \in T
    <3>1. CASE x \notin DOMAIN f
      BY <3>1
    <3>2. CASE x \in DOMAIN f
      <4>1. g[x] = f[x] /\ f[x].refs \subseteq DOMAIN f
        BY <3>2 DEF Within, Dangling
      <4>2. f[x].refs \cap S # {}
        BY <2>3, <4>1
      <4> QED
        BY <1>1, <3>2, <4>2 DEF Follows
    <3> QED
      BY <3>1, <3>2
  <2>4. Follows(g, T)
    BY <2>3 DEF Follows
  <2> HIDE DEF T
  <2>5. p \in T
    BY <2>1, <2>2, <2>4 DEF OverdueAt
  <2> QED
    BY <2>5 DEF T
<1> QED
  BY <1>1 DEF OverdueAt

\* What is overdue in a part of a registry is overdue in all of it.
LEMMA OverduePart ==
    ASSUME NEW f, NEW g, NEW t, Within(f, g)
    PROVE  OverdueAt(f, t) \subseteq OverdueAt(g, t)
<1>1. ASSUME NEW p \in OverdueAt(f, t), NEW S \in SUBSET DOMAIN g, ExpiredAt(g, t) \subseteq S, Follows(g, S)
      PROVE  p \in S
  <2> DEFINE T == S \cap DOMAIN f
  <2>1. ExpiredAt(f, t) \subseteq T
    BY <1>1 DEF ExpiredAt, Within
  <2>2. Follows(f, T)
    BY <1>1 DEF Follows, Within
  <2> HIDE DEF T
  <2>3. p \in T
    BY <2>1, <2>2 DEF T, OverdueAt
  <2> QED
    BY <2>3 DEF T
<1>2. \A p \in OverdueAt(f, t) : p \in DOMAIN g
  BY DEF OverdueAt, Within
<1> QED
  BY <1>1, <1>2 DEF OverdueAt

\* What cleanup keeps has not expired and refers to what is kept.
LEMMA KeptFacts ==
    ASSUME NEW r \in Registries, NEW t \in Nat, Dangling(r) = {}, NEW v, v = Kept(r, OverdueAt(r, t))
    PROVE  /\ v \in Registries /\ Within(v, r) /\ DOMAIN v = DOMAIN r \ OverdueAt(r, t)
           /\ ExpiredAt(v, t) = {} /\ Dangling(v) = {}
<1>1. DOMAIN v = DOMAIN r \ OverdueAt(r, t) /\ \A p \in DOMAIN v : v[p] = r[p]
  BY DEF Kept
<1>2. v \in Registries
  <2>1. DOMAIN v \in SUBSET Paths /\ v \in [DOMAIN v -> Entries]
    BY <1>1, RegistryFacts DEF Kept
  <2> QED
    BY <2>1, RegistryMade
<1>3. ExpiredAt(v, t) = {}
  BY <1>1, OverdueContains DEF ExpiredAt
<1>4. ASSUME NEW p \in DOMAIN v PROVE v[p].refs \subseteq DOMAIN v
  <2>1. r[p].refs \subseteq DOMAIN r
    BY <1>1, <1>4 DEF Dangling
  <2>2. r[p].refs \cap OverdueAt(r, t) = {}
    BY <1>1, <1>4, OverdueContains DEF Follows
  <2> QED
    BY <1>1, <1>4, <2>1, <2>2
<1> QED
  BY <1>1, <1>2, <1>3, <1>4 DEF Within, Dangling

-----------------------------------------------------------------------------
(* One file operation. *)

LEMMA FileFacts ==
    /\ "registry" \notin Paths /\ "gate" \notin Paths /\ Directories \subseteq Paths
    /\ \A k \in Kinds : Retention[k] \in Nat
    /\ None \notin Paths
BY LifecycleAssumption

\* The first operation is taken from what is to do.
LEMMA Taken ==
    ASSUME StateOK, Operate, NEW o, o = job.todo[1]
    PROVE  /\ job.todo \in Seq(Operations) /\ Len(job.todo) \in Nat \ {0} /\ o \in Operations
           /\ DOMAIN job.todo = 1..Len(job.todo) /\ 1 \in DOMAIN job.todo
           /\ job' \in Jobs /\ job'.phase = job.phase
           /\ job.phase = "purge" => job'.at = job.at
           /\ Len(job'.todo) = Len(job.todo) - 1
           /\ DOMAIN job'.todo = 1..(Len(job.todo) - 1)
           /\ \A i \in DOMAIN job'.todo : i + 1 \in DOMAIN job.todo /\ job'.todo[i] = job.todo[i + 1]
           /\ job'.todo # << >> <=> Len(job.todo) > 1
           /\ job'.todo # << >> => Last(job'.todo) = Last(job.todo)
           /\ UNCHANGED <<now, reader, faults>>
<1> DEFINE t == job.todo
<1>1. t \in Seq(Operations) /\ t # << >> /\ job \in Jobs
  BY DEF StateOK, Operate, Jobs
<1>2. job' = [job EXCEPT !.todo = Tail(t)]
  BY DEF Operate
<1>3. /\ Len(t) \in Nat \ {0} /\ DOMAIN t = 1..Len(t) /\ 1 \in DOMAIN t /\ t[1] \in Operations
  BY <1>1
<1>4. /\ Tail(t) \in Seq(Operations) /\ Len(Tail(t)) = Len(t) - 1 /\ DOMAIN Tail(t) = 1..(Len(t) - 1)
      /\ \A i \in 1..(Len(t) - 1) : Tail(t)[i] = t[i + 1]
  BY <1>1, <1>3, HeadTailProperties
<1>5. /\ job' \in Jobs /\ job'.phase = job.phase /\ job'.todo = Tail(t)
      /\ job.phase = "purge" => job'.at = job.at
  <2> DEFINE u == Tail(t)
  <2>1. u \in Seq(Operations) /\ job' = [job EXCEPT !.todo = u]
    BY <1>2, <1>4
  <2> HIDE DEF u
  <2>2. /\ job' \in Jobs /\ job'.phase = job.phase /\ job'.todo = u
        /\ job.phase = "purge" => job'.at = job.at
    BY <1>1, <2>1 DEF Jobs
  <2> QED
    BY <2>2 DEF u
<1>6. ASSUME NEW u \in Seq(Operations), Len(u) = Len(t) - 1, \A i \in 1..(Len(t) - 1) : u[i] = t[i + 1]
      PROVE  (u # << >> <=> Len(t) > 1) /\ (u # << >> => Last(u) = Last(t))
  <2>1. u # << >> <=> Len(u) > 0
    BY EmptySeq
  <2> QED
    BY <1>3, <1>6, <2>1 DEF Last
<1>7. (Tail(t) # << >> <=> Len(t) > 1) /\ (Tail(t) # << >> => Last(Tail(t)) = Last(t))
  BY <1>4, <1>6
<1>8. UNCHANGED <<now, reader, faults>>
  BY DEF Operate
<1> QED
  BY <1>1, <1>3, <1>4, <1>5, <1>7, <1>8

\* What an operation does to the disk.
LEMMA Effects ==
    ASSUME StateOK, Operate, NEW o, o = job.todo[1]
    PROVE  /\ payloads' \subseteq Paths /\ temps' \subseteq Files
           /\ o.op = "create" => /\ UNCHANGED <<registry, gate>>
                                 /\ payloads' = payloads \union ({o.file} \cap Directories)
           /\ o.op = "unlink" => UNCHANGED <<registry, gate>> /\ payloads' = payloads \ {o.file}
           /\ Renames(o, "registry") => /\ registry' = o.value /\ o.value \in Registries
                                        /\ UNCHANGED <<gate, payloads>>
           /\ Renames(o, "gate") => /\ gate' = o.value /\ o.value \in Gates
                                    /\ UNCHANGED <<registry, payloads>>
           /\ o.op = "rename" /\ o.file \in Paths => /\ UNCHANGED <<registry, gate>>
                                                     /\ payloads' = payloads \union {o.file}
           /\ o.op \in {"create", "unlink"} \/ Renames(o, "registry") \/ Renames(o, "gate")
                \/ (o.op = "rename" /\ o.file \in Paths)
<1>1. o \in Operations /\ o = Head(job.todo)
  BY Taken DEF StateOK, Operate, Jobs
<1>2. o.file \in Files /\ payloads \subseteq Paths /\ temps \subseteq Files
  BY <1>1 DEF Operations, Files, StateOK
<1>3. \/ o.op = "create" /\ Create(o.file)
      \/ o.op = "rename" /\ Rename(o.file, o.value)
      \/ o.op = "unlink" /\ Discard(o.file)
  BY <1>1 DEF Operate
<1>4. CASE o.op = "create"
  BY <1>2, <1>3, <1>4, FileFacts DEF Create, Renames
<1>5. CASE o.op = "unlink"
  BY <1>2, <1>3, <1>5, FileFacts DEF Discard, Renames
<1>6. CASE o.op = "rename"
  <2>1. Rename(o.file, o.value)
    BY <1>3, <1>6
  <2>2. CASE o.file = "registry"
    <3>1. o.value \in Registries
      BY <1>1, <1>6, <2>2, FileFacts DEF Operations
    <3> QED
      BY <1>2, <1>6, <2>1, <2>2, <3>1, FileFacts DEF Rename, Renames
  <2>3. CASE o.file = "gate"
    <3>1. o.value \in Gates
      BY <1>1, <1>6, <2>3, FileFacts DEF Operations
    <3> QED
      BY <1>2, <1>6, <2>1, <2>3, <3>1, FileFacts DEF Rename, Renames
  <2>4. CASE o.file \in Paths
    BY <1>2, <1>6, <2>1, <2>4, FileFacts DEF Rename, Renames
  <2> QED
    BY <1>2, <2>2, <2>3, <2>4 DEF Files
<1> QED
  BY <1>3, <1>4, <1>5, <1>6

\* A registration leaves the other entries alone; nothing refers to the new one.
LEMMA ExtendsFacts ==
    ASSUME StateOK, NoDanglingReference, GateRight, NEW v, Extends(v)
    PROVE  /\ v \in Registries /\ IsFiniteSet(DOMAIN v)
           /\ Within(registry, v) /\ Dangling(v) = {}
           /\ gate.open => ExpiredAt(v, gate.checked) = {}
<1>1. PICK p \in DOMAIN v \ DOMAIN registry :
         /\ p \in Paths /\ v[p] \in Entries /\ v = Extended(p, v[p])
         /\ v[p].refs \subseteq DOMAIN registry
         /\ gate.open => v[p].expires > gate.checked
  BY DEF Extends
<1>2. DOMAIN registry \subseteq Paths /\ \A q \in DOMAIN registry : registry[q] \in Entries
  BY RegistryFacts DEF StateOK
<1>3. DOMAIN v = DOMAIN registry \union {p} /\ \A q \in DOMAIN registry : v[q] = registry[q]
  BY <1>1, <1>2 DEF Extended
<1>4. v \in Registries
  <2>1. DOMAIN v \in SUBSET Paths
    BY <1>1, <1>2, <1>3
  <2>2. v \in [DOMAIN v -> Entries]
    BY <1>1, <1>2, <1>3 DEF Extended
  <2> QED
    BY <2>1, <2>2, RegistryMade
<1>5. IsFiniteSet(DOMAIN v)
  BY <1>3, FS_AddElement DEF StateOK
<1>6. Dangling(v) = {}
  BY <1>1, <1>3 DEF NoDanglingReference, Dangling
<1>7. gate.open => ExpiredAt(v, gate.checked) = {}
  <2>1. SUFFICES ASSUME gate.open, NEW q \in DOMAIN v PROVE ~ (v[q].expires <= gate.checked)
    BY DEF ExpiredAt
  <2>2. v[q].expires \in Nat /\ gate.checked \in Nat
    BY <1>4, RegistryFacts DEF StateOK, Gates
  <2>3. CASE q = p
    BY <1>1, <2>1, <2>2, <2>3
  <2>4. CASE q # p
    BY <1>3, <2>1, <2>4 DEF GateRight, ExpiredAt
  <2> QED
    BY <2>3, <2>4
<1> QED
  BY <1>3, <1>4, <1>5, <1>6, <1>7 DEF Within

\* An operation of a registration or of a payload, but for the new registry.
LEMMA ChangeOperates ==
    ASSUME IInv, Operate, job.phase = "change", ~ Renames(job.todo[1], "registry")
    PROVE  IInv'
<1> DEFINE o == job.todo[1]
<1>1. o.op # "unlink" /\ (o.file \in Paths => o.file \in DOMAIN registry) /\ (Renames(o, "gate") => o.value = Closed)
  BY Taken DEF IInv, JobRight, ChangeRight
<1>2. /\ registry' = registry /\ gate' \in {gate, Closed} /\ payloads' \subseteq DOMAIN registry
      /\ payloads' \subseteq Paths /\ temps' \subseteq Files
  BY <1>1, Effects, FileFacts DEF IInv, NothingForgotten
<1>3. /\ job' \in Jobs /\ job'.phase = "change" /\ UNCHANGED <<now, reader, faults>>
      /\ \A i \in DOMAIN job'.todo : i + 1 \in DOMAIN job.todo /\ job'.todo[i] = job.todo[i + 1] /\ i \in Int
  BY Taken DEF IInv
<1>4. Closed \in Gates /\ Closed.checked = 0 /\ ~ Closed.open
  BY DEF Closed, Gates
<1>5. StateOK'
  BY <1>2, <1>3, <1>4 DEF IInv, StateOK
<1>6. GateRight'
  BY <1>2, <1>3, <1>4 DEF IInv, StateOK, GateRight
<1>7. NothingForgotten' /\ NoDanglingReference'
  BY <1>2 DEF IInv, NothingForgotten, NoDanglingReference
<1>8. JobRight'
  <2>1. ASSUME NEW v, Extends(v) PROVE Extends(v)'
    BY <1>2, <1>4, <2>1 DEF Extends, Extended
  <2>2. OneRegistry'
    BY <1>3 DEF IInv, JobRight, ChangeRight, OneRegistry
  <2>3. ASSUME NEW i \in DOMAIN job'.todo
        PROVE  LET e == job'.todo[i]
               IN  /\ e.op # "unlink" /\ (e.file \in Paths => e.file \in DOMAIN registry')
                   /\ Renames(e, "registry") => Extends(e.value)
                   /\ Renames(e, "gate") => e.value = Closed
    BY <1>2, <1>3, <2>3 DEF IInv, JobRight, ChangeRight
  <2>4. ChangeRight'
    BY <2>1, <2>2, <2>3 DEF ChangeRight, Renames
  <2> QED
    BY <1>3, <2>4 DEF JobRight
<1>9. ASSUME NEW r \in Readers PROVE LookRight(reader[r])'
  <2>1. LookRight(reader[r])
    BY DEF IInv
  <2> QED
    BY <1>2, <1>3, <2>1 DEF LookRight, Renames
<1> QED
  BY <1>5, <1>6, <1>7, <1>8, <1>9 DEF IInv

\* The registry with the new entry is in place.
LEMMA ChangeRegistry ==
    ASSUME IInv, Operate, job.phase = "change", Renames(job.todo[1], "registry")
    PROVE  IInv'
<1> DEFINE o == job.todo[1]
           v == o.value
<1>1. Extends(v)
  BY Taken DEF IInv, JobRight, ChangeRight
<1>2. /\ v \in Registries /\ IsFiniteSet(DOMAIN v) /\ Within(registry, v) /\ Dangling(v) = {}
      /\ gate.open => ExpiredAt(v, gate.checked) = {}
  BY <1>1, ExtendsFacts DEF IInv
<1>3. registry' = v /\ UNCHANGED <<gate, payloads>> /\ temps' \subseteq Files
  BY Effects DEF IInv
<1>4. /\ job' \in Jobs /\ job'.phase = "change" /\ UNCHANGED <<now, reader, faults>>
      /\ \A i \in DOMAIN job'.todo : i + 1 \in DOMAIN job.todo /\ job'.todo[i] = job.todo[i + 1] /\ i \in Int /\ i + 1 # 1
      /\ 1 \in DOMAIN job.todo
  BY Taken DEF IInv
<1>5. \A i \in DOMAIN job'.todo : ~ Renames(job'.todo[i], "registry")
  BY <1>4 DEF IInv, JobRight, ChangeRight, OneRegistry
<1>6. StateOK'
  BY <1>2, <1>3, <1>4 DEF IInv, StateOK
<1>7. GateRight' /\ NothingForgotten' /\ NoDanglingReference'
  BY <1>2, <1>3, <1>4 DEF IInv, GateRight, NothingForgotten, NoDanglingReference, Within
<1>8. JobRight'
  <2>1. ChangeRight'
    <3>1. OneRegistry'
      BY <1>5 DEF OneRegistry, Renames
    <3>2. ASSUME NEW i \in DOMAIN job'.todo
          PROVE  LET e == job'.todo[i]
                 IN  /\ e.op # "unlink" /\ (e.file \in Paths => e.file \in DOMAIN registry')
                     /\ ~ Renames(e, "registry")
                     /\ Renames(e, "gate") => e.value = Closed
      BY <1>2, <1>3, <1>4, <1>5, <3>2 DEF IInv, JobRight, ChangeRight, Within
    <3> QED
      BY <3>1, <3>2 DEF ChangeRight, Renames
  <2> QED
    BY <1>4, <2>1 DEF JobRight
<1>9. ASSUME NEW r \in Readers PROVE LookRight(reader[r])'
  <2> DEFINE s == reader[r]
  <2>1. LookRight(s) /\ s' = s /\ now' = now
    BY <1>4 DEF IInv
  <2>2. s.pc = "gate" /\ Within(s.data, registry) => Within(s.data, v)
    BY <1>2 DEF Within
  <2>3. ASSUME s.pc \in {"inventory", "reading"}
        PROVE  \/ s.path \in DOMAIN v /\ s.path \notin OverdueAt(v, s.at)
               \/ ExpiredAt(v, s.at) = {}
    <3>1. CASE s.path \in DOMAIN registry /\ s.path \notin OverdueAt(registry, s.at)
      <4>1. s.path \in DOMAIN v
        BY <1>2, <3>1 DEF Within
      <4> QED
        BY <1>2, <3>1, <4>1, OverdueWithin DEF IInv, NoDanglingReference
    <3>2. CASE ~ (s.path \in DOMAIN registry /\ s.path \notin OverdueAt(registry, s.at))
      BY <1>4, <2>1, <2>3, <3>2 DEF LookRight
    <3> QED
      BY <3>1, <3>2
  <2> QED
    BY <1>3, <1>4, <1>5, <2>1, <2>2, <2>3 DEF LookRight, Renames
<1> QED
  BY <1>6, <1>7, <1>8, <1>9 DEF IInv

\* The gate is closed before a cleanup.
LEMMA PurgeOperates ==
    ASSUME IInv, Operate, job.phase = "purge"
    PROVE  IInv'
<1> DEFINE o == job.todo[1]
<1>1. /\ o.file = "gate" /\ o.op # "unlink" /\ (Renames(o, "gate") => o.value = Closed)
      /\ Len(job.todo) = 1 => Renames(o, "gate")
      /\ job.at \in Nat
  <2>1. Len(job.todo) \in Nat \ {0} /\ 1 \in DOMAIN job.todo /\ job.todo # << >> /\ Last(job.todo) = job.todo[Len(job.todo)]
    BY Taken DEF IInv, Last, Operate
  <2>2. job.at \in Nat
    BY DEF IInv, StateOK, Jobs
  <2> QED
    BY <2>1, <2>2 DEF IInv, JobRight, PurgeRight, Renames
<1>2. /\ UNCHANGED <<registry, payloads>> /\ gate' \in {gate, Closed} /\ temps' \subseteq Files
      /\ Len(job.todo) = 1 => gate' = Closed
  BY <1>1, Effects, FileFacts DEF IInv, Renames
<1>3. /\ job' \in Jobs /\ job'.phase = "purge" /\ job'.at = job.at /\ UNCHANGED <<now, reader, faults>>
      /\ \A i \in DOMAIN job'.todo : i + 1 \in DOMAIN job.todo /\ job'.todo[i] = job.todo[i + 1]
      /\ job'.todo # << >> => Last(job'.todo) = Last(job.todo) /\ job.todo # << >>
      /\ job'.todo = << >> => Len(job.todo) = 1
  <2>1. /\ job' \in Jobs /\ job'.phase = "purge" /\ job'.at = job.at /\ UNCHANGED <<now, reader, faults>>
        /\ \A i \in DOMAIN job'.todo : i + 1 \in DOMAIN job.todo /\ job'.todo[i] = job.todo[i + 1]
        /\ job'.todo # << >> => Last(job'.todo) = Last(job.todo)
        /\ Len(job.todo) \in Nat \ {0} /\ (job'.todo # << >> <=> Len(job.todo) > 1)
    BY Taken DEF IInv
  <2>2. job'.todo = << >> => Len(job.todo) = 1
    <3>1. ASSUME NEW n \in Nat \ {0}, ~ (n > 1) PROVE n = 1
      BY <3>1
    <3> QED
      BY <2>1, <3>1
  <2> QED
    BY <2>1, <2>2 DEF Operate
<1>4. Closed \in Gates /\ Closed.checked = 0 /\ ~ Closed.open
  BY DEF Closed, Gates
<1>5. StateOK'
  BY <1>2, <1>3, <1>4 DEF IInv, StateOK
<1>6. GateRight' /\ NothingForgotten' /\ NoDanglingReference'
  BY <1>2, <1>3, <1>4 DEF IInv, StateOK, GateRight, NothingForgotten, NoDanglingReference
<1>7. JobRight'
  <2>1. ASSUME NEW i \in DOMAIN job'.todo
        PROVE  LET e == job'.todo[i]
               IN  e.file = "gate" /\ (e.op = "rename" => e.value = Closed) /\ e.op # "unlink"
    BY <1>3, <2>1 DEF IInv, JobRight, PurgeRight
  <2>2. PurgeRight'
    BY <1>2, <1>3, <1>4, <2>1 DEF IInv, JobRight, PurgeRight, Renames
  <2> QED
    BY <1>3, <2>2 DEF JobRight
<1>8. ASSUME NEW r \in Readers PROVE LookRight(reader[r])'
  <2>1. LookRight(reader[r])
    BY DEF IInv
  <2> QED
    BY <1>2, <1>3, <2>1 DEF LookRight
<1> QED
  BY <1>5, <1>6, <1>7, <1>8 DEF IInv

\* What an operation of a reopening finds.
LEMMA Reopening ==
    ASSUME IInv, Operate, job.phase = "reopen", NEW t, t = Last(job.todo).value.checked
    PROVE  /\ ~ gate.open /\ t \in Nat /\ t <= now /\ Last(job.todo).value = Opened(t)
           /\ LET o == job.todo[1]
              IN  /\ o.op # "unlink" => o.file \in {"registry", "gate"}
                  /\ Renames(o, "gate") => Len(job.todo) = 1 /\ o = Last(job.todo)
                  /\ Len(job.todo) = 1 => Renames(o, "gate")
                  /\ Renames(o, "registry") =>
                       o.value = Kept(registry, OverdueAt(registry, t)) /\ OverdueAt(registry, t) \cap payloads = {}
           /\ job'.phase = "reopen" /\ job' \in Jobs /\ UNCHANGED <<now, reader, faults>>
           /\ job'.todo # << >> => Len(job.todo) # 1 /\ Last(job'.todo) = Last(job.todo)
<1>1. /\ job.todo # << >> /\ Len(job.todo) \in Nat \ {0} /\ 1 \in DOMAIN job.todo
      /\ Last(job.todo) = job.todo[Len(job.todo)] /\ Len(job.todo) \in DOMAIN job.todo
      /\ job.todo[Len(job.todo)] \in Operations
  BY Taken DEF IInv, Operate, Last
<1>2. /\ ReopenRight /\ Renames(Last(job.todo), "gate") /\ Last(job.todo).value = Opened(t) /\ t <= now /\ ~ gate.open
  BY <1>1 DEF IInv, JobRight, ReopenRight
<1>3. t \in Nat
  <2>1. Last(job.todo).value \in Gates
    BY <1>1, <1>2, FileFacts DEF Renames, Operations
  <2> QED
    BY <2>1 DEF Gates
<1>4. job'.phase = "reopen" /\ job' \in Jobs /\ UNCHANGED <<now, reader, faults>>
  BY Taken DEF IInv
<1>5. job'.todo # << >> => Len(job.todo) # 1 /\ Last(job'.todo) = Last(job.todo)
  <2>1. (job'.todo # << >> <=> Len(job.todo) > 1) /\ (job'.todo # << >> => Last(job'.todo) = Last(job.todo))
    BY Taken DEF IInv
  <2> QED
    BY <1>1, <2>1
<1>6. 1..(1 - 1) = {}
  OBVIOUS
<1> QED
  BY <1>1, <1>2, <1>3, <1>4, <1>5, <1>6, ZenonT(60) DEF ReopenRight

\* Payload goes, or a temporary file is created: what is still to be deleted comes before the registry.
LEMMA ReopenOperates ==
    ASSUME IInv, Operate, job.phase = "reopen", job.todo[1].op # "rename"
    PROVE  IInv'
<1> DEFINE o == job.todo[1]
           t == Last(job.todo).value.checked
<1>1. /\ ~ gate.open /\ t \in Nat /\ t <= now /\ Last(job.todo).value = Opened(t)
      /\ o.op # "unlink" => o.file \in {"registry", "gate"}
      /\ job'.phase = "reopen" /\ job' \in Jobs /\ UNCHANGED <<now, reader, faults>>
      /\ job'.todo # << >> => Last(job'.todo) = Last(job.todo)
  BY Reopening
<1>2. /\ UNCHANGED <<registry, gate>> /\ payloads' \subseteq payloads /\ temps' \subseteq Files
      /\ o.op = "unlink" => o.file \notin payloads'
  BY <1>1, Effects, FileFacts DEF IInv, Renames
<1>3. /\ \A i \in DOMAIN job'.todo : i + 1 \in DOMAIN job.todo /\ job'.todo[i] = job.todo[i + 1] /\ i \in Int
      /\ Len(job'.todo) = Len(job.todo) - 1 /\ Len(job.todo) \in Nat
      /\ DOMAIN job'.todo = 1..(Len(job.todo) - 1) /\ DOMAIN job.todo = 1..Len(job.todo)
      /\ job.todo # << >>
  BY Taken DEF IInv, Operate
<1>4. StateOK'
  BY <1>1, <1>2 DEF IInv, StateOK
<1>5. GateRight' /\ NothingForgotten' /\ NoDanglingReference'
  BY <1>1, <1>2 DEF IInv, GateRight, NothingForgotten, NoDanglingReference
<1>6. JobRight'
  <2>1. SUFFICES ASSUME job'.todo # << >> PROVE ReopenRight'
    BY <1>1 DEF JobRight, ReopenRight
  <2>2. ReopenRight /\ Last(job'.todo) = Last(job.todo)
    BY <1>1, <2>1 DEF IInv, JobRight
  <2>3. OneRegistry'
    BY <1>3, <2>2 DEF ReopenRight, OneRegistry
  <2>4. ASSUME NEW i \in DOMAIN job'.todo
        PROVE  LET e == job'.todo[i]
               IN  /\ e.op # "unlink" => e.file \in {"registry", "gate"}
                   /\ Renames(e, "gate") => i = Len(job'.todo)
                   /\ Renames(e, "registry") =>
                        /\ e.value = Kept(registry, OverdueAt(registry, t))
                        /\ \A p \in OverdueAt(registry, t) \cap payloads' :
                             \E j \in 1..(i - 1) : job'.todo[j].op = "unlink" /\ job'.todo[j].file = p
    <3> DEFINE e == job'.todo[i]
    <3>1. /\ e = job.todo[i + 1] /\ i + 1 \in DOMAIN job.todo /\ i \in 1..(Len(job.todo) - 1)
          /\ Renames(e, "gate") => i + 1 = Len(job.todo)
          /\ e.op # "unlink" => e.file \in {"registry", "gate"}
          /\ Renames(e, "registry") => e.value = Kept(registry, OverdueAt(registry, t))
      BY <1>3, <2>2, <2>4 DEF ReopenRight
    <3>2. ASSUME Renames(e, "registry"), NEW p \in OverdueAt(registry, t) \cap payloads'
          PROVE  \E j \in 1..(i - 1) : job'.todo[j].op = "unlink" /\ job'.todo[j].file = p
      <4>1. PICK j \in 1..((i + 1) - 1) : job.todo[j].op = "unlink" /\ job.todo[j].file = p
        BY <1>2, <1>3, <2>2, <3>1, <3>2 DEF ReopenRight
      <4>2. j # 1
        BY <1>2, <3>2, <4>1
      <4>3. i \in Int /\ i >= 1 /\ i <= Len(job.todo) - 1 /\ j \in Int /\ j >= 2 /\ j <= i
        BY <1>3, <3>1, <4>1, <4>2
      <4>4. j - 1 \in 1..(i - 1) /\ j - 1 \in 1..(Len(job.todo) - 1) /\ (j - 1) + 1 = j
        <5>1. ASSUME NEW n \in Nat, i <= n - 1 PROVE j - 1 \in 1..(i - 1) /\ j - 1 \in 1..(n - 1) /\ (j - 1) + 1 = j
          BY <4>3, <5>1
        <5> QED
          BY <1>3, <4>3, <5>1
      <4>5. job'.todo[j - 1] = job.todo[j]
        BY <1>3, <4>4
      <4> QED
        BY <4>1, <4>4, <4>5
    <3> QED
      BY <1>3, <3>1, <3>2
  <2>5. (\A i \in DOMAIN job'.todo : ~ Renames(job'.todo[i], "registry")) => ExpiredAt(registry, t) = {}
    <3>1. SUFFICES ASSUME \A i \in DOMAIN job'.todo : ~ Renames(job'.todo[i], "registry"),
                          NEW i \in DOMAIN job.todo
                   PROVE  ~ Renames(job.todo[i], "registry")
      BY <1>3, <2>2 DEF ReopenRight
    <3>2. CASE i = 1
      BY <3>2 DEF Renames
    <3>3. CASE i # 1
      <4>1. i - 1 \in DOMAIN job'.todo /\ (i - 1) + 1 = i
        BY <1>3, <3>1, <3>3
      <4>2. job'.todo[i - 1] = job.todo[i]
        BY <1>3, <4>1
      <4> QED
        BY <3>1, <4>1, <4>2
    <3> QED
      BY <3>2, <3>3
  <2>6. Renames(Last(job.todo), "gate")
    BY <1>3, <2>2 DEF ReopenRight
  <2> QED
    BY <1>1, <1>2, <2>2, <2>3, <2>4, <2>5, <2>6 DEF ReopenRight, Renames
<1>7. ASSUME NEW r \in Readers PROVE LookRight(reader[r])'
  <2>1. LookRight(reader[r])
    BY DEF IInv
  <2> QED
    BY <1>1, <1>2, <2>1 DEF LookRight
<1> QED
  BY <1>4, <1>5, <1>6, <1>7 DEF IInv

\* The registry without what was due: nothing of it is left on disk.
LEMMA ReopenRegistry ==
    ASSUME IInv, Operate, job.phase = "reopen", Renames(job.todo[1], "registry")
    PROVE  IInv'
<1> DEFINE o == job.todo[1]
           t == Last(job.todo).value.checked
           removed == OverdueAt(registry, t)
<1>1. /\ ~ gate.open /\ t \in Nat /\ t <= now /\ Last(job.todo).value = Opened(t)
      /\ o.value = Kept(registry, removed) /\ removed \cap payloads = {}
      /\ job'.phase = "reopen" /\ job' \in Jobs /\ UNCHANGED <<now, reader, faults>>
      /\ job'.todo # << >> => Last(job'.todo) = Last(job.todo)
  BY Reopening
<1> DEFINE v == Kept(registry, removed)
<1>2. registry' = v /\ UNCHANGED <<gate, payloads>> /\ temps' \subseteq Files
  BY <1>1, Effects DEF IInv
<1>3. /\ v \in Registries /\ Within(v, registry) /\ DOMAIN v = DOMAIN registry \ removed
      /\ ExpiredAt(v, t) = {} /\ Dangling(v) = {}
  BY <1>1, KeptFacts DEF IInv, StateOK, NoDanglingReference
<1> HIDE DEF v
<1>4. IsFiniteSet(DOMAIN v)
  BY <1>3, FS_Subset DEF IInv, StateOK
<1>5. /\ \A i \in DOMAIN job'.todo : i + 1 \in DOMAIN job.todo /\ job'.todo[i] = job.todo[i + 1] /\ i + 1 # 1 /\ i \in Int
      /\ Len(job'.todo) = Len(job.todo) - 1 /\ Len(job.todo) \in Nat /\ 1 \in DOMAIN job.todo
      /\ DOMAIN job'.todo = 1..(Len(job.todo) - 1)
      /\ job.todo # << >> /\ Last(job.todo) = job.todo[Len(job.todo)]
  BY Taken DEF IInv, Operate, Last
<1>6. StateOK'
  BY <1>1, <1>2, <1>3, <1>4 DEF IInv, StateOK
<1>7. GateRight' /\ NothingForgotten' /\ NoDanglingReference'
  BY <1>1, <1>2, <1>3 DEF IInv, GateRight, NothingForgotten, NoDanglingReference
<1>8. JobRight'
  <2>1. SUFFICES ASSUME job'.todo # << >> PROVE ReopenRight'
    BY <1>1 DEF JobRight, ReopenRight
  <2>2. ReopenRight /\ Last(job'.todo) = Last(job.todo)
    BY <1>1, <2>1 DEF IInv, JobRight
  <2>3. \A i \in DOMAIN job'.todo : ~ Renames(job'.todo[i], "registry")
    BY <1>5, <2>2 DEF ReopenRight, OneRegistry
  <2>4. OneRegistry'
    BY <2>3 DEF OneRegistry, Renames
  <2>5. ASSUME NEW i \in DOMAIN job'.todo
        PROVE  LET e == job'.todo[i]
               IN  /\ e.op # "unlink" => e.file \in {"registry", "gate"}
                   /\ Renames(e, "gate") => i = Len(job'.todo)
    <3>1. /\ Renames(job'.todo[i], "gate") => i + 1 = Len(job.todo)
          /\ job'.todo[i].op # "unlink" => job'.todo[i].file \in {"registry", "gate"}
      BY <1>5, <2>2, <2>5 DEF ReopenRight
    <3>2. i \in Int /\ Len(job.todo) \in Int /\ Len(job'.todo) = Len(job.todo) - 1
      BY <1>5, <2>5
    <3> QED
      BY <3>1, <3>2
  <2>6. Renames(Last(job.todo), "gate")
    BY <1>5, <2>2 DEF ReopenRight
  <2> QED
    BY <1>1, <1>2, <1>3, <2>2, <2>3, <2>4, <2>5, <2>6 DEF ReopenRight, Renames
<1>9. ASSUME NEW r \in Readers PROVE LookRight(reader[r])'
  <2> DEFINE s == reader[r]
  <2>1. LookRight(s) /\ s' = s /\ now' = now /\ s \in Looks /\ now \in Nat
    BY <1>1 DEF IInv, StateOK
  <2>2. ASSUME s.pc = "gate", Within(s.data, registry), ~ Within(s.data, v) PROVE OverdueAt(s.data, now) # {}
    <3>1. s.data \in Registries /\ Dangling(s.data) = {}
      BY <2>1, <2>2 DEF Looks, LookRight
    <3>2. PICK p \in DOMAIN s.data : p \in removed
      BY <1>3, <2>2 DEF Within
    <3>3. p \in OverdueAt(s.data, t)
      BY <2>2, <3>1, <3>2, OverdueWithin
    <3>4. OverdueAt(s.data, t) \subseteq OverdueAt(s.data, now)
      BY <1>1, <2>1, <3>1, OverdueLater
    <3> QED
      BY <3>3, <3>4
  <2>3. ASSUME s.pc \in {"inventory", "reading"}
        PROVE  \/ s.path \in DOMAIN v /\ s.path \notin OverdueAt(v, s.at)
               \/ ExpiredAt(v, s.at) = {}
    <3>1. s.at \in Nat
      BY <2>1, <2>3 DEF Looks
    <3>2. CASE s.path \in DOMAIN registry /\ s.path \notin OverdueAt(registry, s.at)
      <4>1. CASE s.path \in removed
        <5>1. ~ (t <= s.at)
          BY <1>1, <3>1, <3>2, <4>1, OverdueLater DEF IInv, StateOK
        <5>2. ASSUME NEW p \in DOMAIN v PROVE ~ (v[p].expires <= s.at)
          <6>1. ~ (v[p].expires <= t) /\ v[p].expires \in Nat
            BY <1>3, <5>2, RegistryFacts DEF ExpiredAt
          <6> QED
            BY <1>1, <3>1, <5>1, <6>1
        <5> QED
          BY <5>2 DEF ExpiredAt
      <4>2. CASE s.path \notin removed
        BY <1>3, <3>2, <4>2, OverduePart
      <4> QED
        BY <4>1, <4>2
    <3>3. CASE ExpiredAt(registry, s.at) = {}
      BY <1>3, <3>3 DEF ExpiredAt, Within
    <3> QED
      BY <2>1, <2>3, <3>2, <3>3 DEF LookRight
  <2> QED
    BY <1>1, <1>2, <2>1, <2>2, <2>3 DEF LookRight
<1> QED
  BY <1>6, <1>7, <1>8, <1>9 DEF IInv

\* The gate opens when nothing has expired for the time it is opened for.
LEMMA ReopenGate ==
    ASSUME IInv, Operate, job.phase = "reopen", Renames(job.todo[1], "gate")
    PROVE  IInv'
<1> DEFINE o == job.todo[1]
           t == Last(job.todo).value.checked
<1>1. /\ t \in Nat /\ t <= now /\ Last(job.todo).value = Opened(t)
      /\ Len(job.todo) = 1 /\ o = Last(job.todo)
      /\ job'.phase = "reopen" /\ job' \in Jobs /\ UNCHANGED <<now, reader, faults>>
      /\ job'.todo # << >> => Len(job.todo) # 1
  BY Reopening
<1>2. ExpiredAt(registry, t) = {}
  <2>1. job.todo # << >> /\ DOMAIN job.todo = 1..Len(job.todo) /\ ReopenRight
    BY Taken DEF IInv, JobRight, Operate
  <2>2. \A i \in DOMAIN job.todo : ~ Renames(job.todo[i], "registry")
    BY <1>1, <2>1 DEF Renames
  <2> QED
    BY <2>1, <2>2 DEF ReopenRight
<1>3. gate' = Opened(t) /\ UNCHANGED <<registry, payloads>> /\ temps' \subseteq Files
  BY <1>1, Effects DEF IInv
<1>4. Opened(t) \in Gates /\ Opened(t).checked = t
  BY <1>1 DEF Opened, Gates
<1>5. StateOK'
  BY <1>1, <1>3, <1>4 DEF IInv, StateOK
<1>6. GateRight' /\ NothingForgotten' /\ NoDanglingReference'
  BY <1>1, <1>2, <1>3, <1>4 DEF IInv, GateRight, NothingForgotten, NoDanglingReference
<1>7. JobRight'
  BY <1>1 DEF JobRight, ReopenRight
<1>8. ASSUME NEW r \in Readers PROVE LookRight(reader[r])'
  <2>1. LookRight(reader[r])
    BY DEF IInv
  <2> QED
    BY <1>1, <1>3, <2>1 DEF LookRight
<1> QED
  BY <1>5, <1>6, <1>7, <1>8 DEF IInv

LEMMA OperateKept == ASSUME IInv, Operate PROVE IInv'
<1> DEFINE o == job.todo[1]
<1>1. job.phase \in {"idle", "change", "purge", "reopen"} /\ job.phase # "idle"
  BY DEF IInv, StateOK, Jobs, JobRight, Operate
<1>2. CASE job.phase = "reopen"
  <2>1. o.op = "rename" => Renames(o, "registry") \/ Renames(o, "gate")
    BY <1>2, Reopening DEF Renames
  <2> QED
    BY <1>2, <2>1, ReopenOperates, ReopenRegistry, ReopenGate
<1> QED
  BY <1>1, <1>2, ChangeOperates, ChangeRegistry, PurgeOperates

-----------------------------------------------------------------------------
(* What the processes do between the operations. *)

\* The removals of a cleanup name everything that is to be removed.
LEMMA AllListed ==
    ASSUME NEW S, IsFiniteSet(S)
    PROVE  /\ Cardinality(S) \in Nat /\ SetToSeq(S) \in [1..Cardinality(S) -> S]
           /\ \A p \in S : \E i \in 1..Cardinality(S) : SetToSeq(S)[i] = p
<1> DEFINE n == Cardinality(S)
<1>1. n \in Nat /\ ExistsBijection(1..n, S)
  BY FS_CardinalityType
<1>2. \E f \in [1..n -> S] : IsInjective(f)
  BY <1>1 DEF ExistsBijection, Bijection, Injection
<1>3. SetToSeq(S) \in [1..n -> S] /\ IsInjective(SetToSeq(S))
  BY <1>2 DEF SetToSeq
<1>4. SetToSeq(S) \in Injection(1..n, S)
  BY <1>3 DEF Injection
<1>5. Cardinality(1..n) = n
  BY <1>1, FS_Interval
<1>6. SetToSeq(S) \in Surjection(1..n, S)
  BY <1>4, <1>5, FS_Injection
<1> QED
  BY <1>1, <1>3, <1>6 DEF Surjection

LEMMA PairAppended ==
    ASSUME NEW S, NEW s \in Seq(S), NEW pair \in Seq(S), Len(pair) = 2, NEW n \in Nat, n = Len(s)
    PROVE  /\ s \o pair \in Seq(S) /\ Len(s \o pair) = n + 2
           /\ \A i \in 1..n : (s \o pair)[i] = s[i]
           /\ (s \o pair)[n + 1] = pair[1] /\ (s \o pair)[n + 2] = pair[2]
<1>1. /\ s \o pair \in Seq(S) /\ Len(s \o pair) = n + 2
      /\ \A i \in 1..(n + 2) : (s \o pair)[i] = IF i <= n THEN s[i] ELSE pair[i - n]
  <2>1. /\ s \o pair \in Seq(S) /\ Len(s \o pair) = Len(s) + Len(pair)
        /\ \A i \in 1 .. Len(s) + Len(pair) : (s \o pair)[i] = IF i <= Len(s) THEN s[i] ELSE pair[i - Len(s)]
    BY ConcatProperties, Zenon
  <2> QED
    BY <2>1
<1>2. /\ n + 1 \in 1..(n + 2) /\ n + 2 \in 1..(n + 2) /\ ~ (n + 1 <= n) /\ ~ (n + 2 <= n)
      /\ (n + 1) - n = 1 /\ (n + 2) - n = 2
      /\ \A i \in 1..n : i \in 1..(n + 2) /\ i <= n
  OBVIOUS
<1>3. \A i \in 1..n : (s \o pair)[i] = s[i]
  BY <1>1, <1>2
<1>4. (s \o pair)[n + 1] = pair[1] /\ (s \o pair)[n + 2] = pair[2]
  BY <1>1, <1>2
<1> QED
  BY <1>1, <1>3, <1>4

\* The operations of a cleanup, one by one.
Planned(todo, n, removed, t) ==
    /\ n \in Nat /\ todo \in Seq(Operations) /\ Len(todo) = n + 4
    /\ \A i \in 1..n : todo[i].op = "unlink"
    /\ \A p \in removed : \E i \in 1..n : todo[i].file = p
    /\ todo[n + 1] = [op |-> "create", file |-> "registry"]
    /\ todo[n + 2] = [op |-> "rename", file |-> "registry", value |-> Kept(registry, removed)]
    /\ todo[n + 3] = [op |-> "create", file |-> "gate"]
    /\ todo[n + 4] = [op |-> "rename", file |-> "gate", value |-> Opened(t)]

LEMMA PurgePlan ==
    ASSUME StateOK, NoDanglingReference, NEW t \in Nat, NEW removed, removed = OverdueAt(registry, t),
           NEW todo, todo = Purge(removed) \o Replace("gate", Opened(t)),
           NEW n, n = Cardinality(removed)
    PROVE  Planned(todo, n, removed, t)
<1>1. removed \subseteq DOMAIN registry /\ removed \subseteq Paths /\ IsFiniteSet(removed)
  <2>1. removed \subseteq DOMAIN registry
    BY DEF OverdueAt
  <2> QED
    BY <2>1, RegistryFacts, FS_Subset DEF StateOK
<1>2. /\ n \in Nat /\ SetToSeq(removed) \in [1..n -> removed]
      /\ \A p \in removed : \E i \in 1..n : SetToSeq(removed)[i] = p
  BY <1>1, AllListed
<1>3. Kept(registry, removed) \in Registries /\ Opened(t) \in Gates
  BY KeptFacts DEF StateOK, NoDanglingReference, Opened, Gates
<1> DEFINE u == Unlinks(removed)
           a == Replace("registry", Kept(registry, removed))
           b == Replace("gate", Opened(t))
<1>4. u \in Seq(Operations) /\ Len(u) = n /\ \A i \in 1..n : u[i] = [op |-> "unlink", file |-> SetToSeq(removed)[i]]
  <2>1. \A i \in 1..n : [op |-> "unlink", file |-> SetToSeq(removed)[i]] \in Operations
    BY <1>1, <1>2 DEF Operations, Files
  <2> QED
    BY <1>2, <2>1 DEF Unlinks
<1>5. /\ a \in Seq(Operations) /\ Len(a) = 2
      /\ a[1] = [op |-> "create", file |-> "registry"]
      /\ a[2] = [op |-> "rename", file |-> "registry", value |-> Kept(registry, removed)]
  <2>1. /\ [op |-> "create", file |-> "registry"] \in Operations
        /\ [op |-> "rename", file |-> "registry", value |-> Kept(registry, removed)] \in Operations
    BY <1>3 DEF Operations, Files
  <2> QED
    BY <2>1 DEF Replace
<1>6. /\ b \in Seq(Operations) /\ Len(b) = 2
      /\ b[1] = [op |-> "create", file |-> "gate"]
      /\ b[2] = [op |-> "rename", file |-> "gate", value |-> Opened(t)]
  <2>1. /\ [op |-> "create", file |-> "gate"] \in Operations
        /\ [op |-> "rename", file |-> "gate", value |-> Opened(t)] \in Operations
    BY <1>3 DEF Operations, Files
  <2> QED
    BY <2>1 DEF Replace
<1>7. todo = (u \o a) \o b
  BY DEF Purge
<1> HIDE DEF u, a, b
<1>8. /\ u \o a \in Seq(Operations) /\ Len(u \o a) = n + 2
      /\ \A i \in 1..n : (u \o a)[i] = u[i]
      /\ (u \o a)[n + 1] = a[1] /\ (u \o a)[n + 2] = a[2]
  <2>1. n \in Nat /\ n = Len(u) /\ u \in Seq(Operations) /\ a \in Seq(Operations) /\ Len(a) = 2
    BY <1>2, <1>4, <1>5
  <2> QED
    BY <2>1, PairAppended
<1> DEFINE w == u \o a
<1>9. w \in Seq(Operations) /\ Len(w) = n + 2 /\ todo = w \o b
  BY <1>7, <1>8
<1> HIDE DEF w
<1>10. /\ todo \in Seq(Operations) /\ Len(todo) = (n + 2) + 2
       /\ \A i \in 1..(n + 2) : todo[i] = w[i]
       /\ todo[(n + 2) + 1] = b[1] /\ todo[(n + 2) + 2] = b[2]
  <2> DEFINE m == n + 2
  <2>1. m \in Nat /\ m = Len(w) /\ w \in Seq(Operations) /\ b \in Seq(Operations) /\ Len(b) = 2
    BY <1>2, <1>6, <1>9
  <2> HIDE DEF m
  <2>2. /\ w \o b \in Seq(Operations) /\ Len(w \o b) = m + 2
        /\ \A i \in 1..m : (w \o b)[i] = w[i]
        /\ (w \o b)[m + 1] = b[1] /\ (w \o b)[m + 2] = b[2]
    BY <2>1, PairAppended
  <2> QED
    BY <1>9, <2>2, Zenon DEF m
<1>11. /\ (n + 2) + 1 = n + 3 /\ (n + 2) + 2 = n + 4 /\ n + 1 \in 1..(n + 2) /\ n + 2 \in 1..(n + 2)
       /\ \A i \in 1..n : i \in 1..(n + 2)
  BY <1>2
<1>12. \A i \in 1..n : todo[i] = u[i]
  BY <1>8, <1>10, <1>11 DEF w
<1>13. todo[n + 1] = a[1] /\ todo[n + 2] = a[2]
  BY <1>8, <1>10, <1>11 DEF w
<1>14. (\A i \in 1..n : todo[i].op = "unlink") /\ \A p \in removed : \E i \in 1..n : todo[i].file = p
  <2>1. \A i \in 1..n : todo[i] = [op |-> "unlink", file |-> SetToSeq(removed)[i]]
    BY <1>4, <1>12, Zenon
  <2>2. ASSUME NEW i \in 1..n PROVE todo[i].op = "unlink" /\ todo[i].file = SetToSeq(removed)[i]
    <3>1. ASSUME NEW x, NEW f, x = [op |-> "unlink", file |-> f] PROVE x.op = "unlink" /\ x.file = f
      BY <3>1
    <3> QED
      BY <2>1, <3>1, ZenonT(60)
  <2>3. ASSUME NEW p \in removed PROVE \E i \in 1..n : todo[i].file = p
    <3>1. PICK i \in 1..n : SetToSeq(removed)[i] = p
      BY <1>2
    <3> QED
      BY <2>2, <3>1
  <2> QED
    BY <2>2, <2>3
<1>15. Len(todo) = n + 4 /\ todo[n + 3] = b[1] /\ todo[n + 4] = b[2]
  BY <1>10, <1>11
<1> QED
  BY <1>2, <1>5, <1>6, <1>10, <1>13, <1>14, <1>15, Zenon DEF Planned

LEMMA ReplaceFacts ==
    ASSUME NEW f, NEW v, [op |-> "create", file |-> f] \in Operations,
           [op |-> "rename", file |-> f, value |-> v] \in Operations
    PROVE  /\ Replace(f, v) \in Seq(Operations) /\ Len(Replace(f, v)) = 2
           /\ Replace(f, v)[1] = [op |-> "create", file |-> f]
           /\ Replace(f, v)[2] = [op |-> "rename", file |-> f, value |-> v]
BY DEF Replace

LEMMA Created ==
    ASSUME NEW x, NEW f, x = [op |-> "create", file |-> f]
    PROVE  x.op = "create" /\ x.file = f
OBVIOUS

LEMMA Renamed ==
    ASSUME NEW x, NEW f, NEW v, x = [op |-> "rename", file |-> f, value |-> v]
    PROVE  x.op = "rename" /\ x.file = f /\ x.value = v
OBVIOUS

\* Only what is to be done changes.  What would be registered has not expired
\* by a time for which nothing else had.
LEMMA JobOnly ==
    ASSUME IInv, UNCHANGED <<now, disk, reader, faults>>, job' \in Jobs, JobRight',
           job'.phase = "change" =>
             \A i \in DOMAIN job'.todo : Renames(job'.todo[i], "registry") =>
               \A u \in Nat : u <= now /\ ExpiredAt(registry, u) = {} => ExpiredAt(job'.todo[i].value, u) = {}
    PROVE  IInv'
<1>1. UNCHANGED <<now, registry, gate, payloads, temps, reader, faults>>
  BY DEF disk
<1>2. StateOK' /\ NothingForgotten' /\ NoDanglingReference' /\ GateRight'
  BY <1>1 DEF IInv, StateOK, NothingForgotten, NoDanglingReference, GateRight
<1>3. ASSUME NEW r \in Readers PROVE LookRight(reader[r])'
  <2>1. LookRight(reader[r]) /\ reader[r] \in Looks
    BY DEF IInv, StateOK
  <2>2. reader[r].pc \in {"inventory", "reading"} => reader[r].at \in Nat
    BY <2>1 DEF Looks
  <2> QED
    BY <1>1, <2>1, <2>2 DEF LookRight, Renames
<1> QED
  BY <1>2, <1>3 DEF IInv

\* A registration refers to what is there and ends after now, or with what it copies.
LEMMA RegisterKept == ASSUME IInv, Register PROVE IInv'
<1>1. PICK p \in Vacant, kind \in Kinds, original \in 0..now,
           refs \in SUBSET DOMAIN registry, copy \in DOMAIN registry \union {None} :
         /\ original + Retention[kind] > now
         /\ job' = [phase |-> "change",
                    todo |-> Replace("registry", Extended(p, NewEntry(kind, original, refs, copy)))
                             \o Replace("gate", Closed)]
  BY DEF Register
<1>2. UNCHANGED <<now, disk, reader, faults>>
  BY DEF Register
<1> DEFINE e == NewEntry(kind, original, refs, copy)
           v == Extended(p, e)
           a == Replace("registry", v)
           b == Replace("gate", Closed)
<1>3. /\ p \in Paths /\ p \notin DOMAIN registry /\ DOMAIN registry \subseteq Paths
      /\ original \in Nat /\ now \in Nat /\ Retention[kind] \in Nat
      /\ registry \in Registries /\ GateRight /\ gate \in Gates
      /\ \A q \in DOMAIN registry : registry[q] \in Entries /\ registry[q].expires \in Nat
  BY RegistryFacts, FileFacts DEF Vacant, IInv, StateOK
<1>4. /\ e.expires \in Nat
      /\ copy # None => e.expires <= registry[copy].expires
      /\ \A u \in Nat : u <= now /\ ExpiredAt(registry, u) = {} => ~ (e.expires <= u)
      /\ e.refs = refs /\ e.copy = copy /\ e.kind = kind /\ e.original = original
  <2> DEFINE full == original + Retention[kind]
             limit == registry[copy].expires
  <2>1. full \in Nat /\ full > now
    BY <1>1, <1>3
  <2>2. /\ e.expires = IF copy = None THEN full ELSE Min({full, limit})
        /\ e.refs = refs /\ e.copy = copy /\ e.kind = kind /\ e.original = original
    BY DEF NewEntry
  <2>3. CASE copy = None
    BY <1>3, <2>1, <2>2, <2>3
  <2>4. CASE copy # None
    <3>1. copy \in DOMAIN registry /\ limit \in Nat
      BY <1>3, <2>4
    <3> HIDE DEF full, limit
    <3>2. Min({full, limit}) \in {full, limit} /\ \A y \in {full, limit} : Min({full, limit}) <= y
      BY <2>1, <3>1, MinProperty
    <3>3. e.expires = Min({full, limit})
      BY <2>2, <2>4
    <3>4. e.expires \in {full, limit} /\ e.expires <= limit
      BY <3>2, <3>3
    <3>5. ASSUME NEW u \in Nat, u <= now, ExpiredAt(registry, u) = {} PROVE ~ (e.expires <= u)
      <4>1. ~ (limit <= u)
        BY <3>1, <3>5 DEF ExpiredAt, limit
      <4> QED
        BY <1>3, <2>1, <3>1, <3>4, <3>5, <4>1
    <3> QED
      BY <2>1, <2>2, <3>1, <3>4, <3>5 DEF limit
  <2> QED
    BY <2>3, <2>4
<1>5. e \in Entries
  BY <1>3, <1>4 DEF Entries, NewEntry
<1> HIDE DEF e
<1>6. DOMAIN v = DOMAIN registry \union {p} /\ v[p] = e /\ \A q \in DOMAIN registry : v[q] = registry[q]
  BY <1>3 DEF Extended
<1>7. v = Extended(p, v[p])
  BY <1>6
<1> HIDE DEF v
<1>8. Extends(v)
  <2>1. gate.open => v[p].expires > gate.checked
    <3>1. gate.checked \in Nat
      BY <1>3 DEF Gates
    <3> QED
      BY <1>3, <1>4, <1>6, <3>1 DEF GateRight
  <2>2. v[p].copy # None => v[p].copy \in DOMAIN registry /\ v[p].expires <= registry[v[p].copy].expires
    BY <1>4, <1>6
  <2>3. p \in DOMAIN v \ DOMAIN registry /\ v[p] \in Entries /\ v[p].refs \subseteq DOMAIN registry
    BY <1>3, <1>4, <1>5, <1>6
  <2> QED
    BY <1>3, <1>7, <2>1, <2>2, <2>3 DEF Extends
<1>9. v \in Registries
  BY <1>8, ExtendsFacts DEF IInv
<1>10. ASSUME NEW u \in Nat, u <= now, ExpiredAt(registry, u) = {} PROVE ExpiredAt(v, u) = {}
  BY <1>4, <1>6, <1>10 DEF ExpiredAt
<1>11. /\ [op |-> "create", file |-> "registry"] \in Operations
       /\ [op |-> "rename", file |-> "registry", value |-> v] \in Operations
       /\ [op |-> "create", file |-> "gate"] \in Operations
       /\ [op |-> "rename", file |-> "gate", value |-> Closed] \in Operations
  BY <1>9 DEF Operations, Files, Gates, Closed
<1>12. /\ a \in Seq(Operations) /\ Len(a) = 2 /\ b \in Seq(Operations) /\ Len(b) = 2
       /\ a[1] = [op |-> "create", file |-> "registry"]
       /\ a[2] = [op |-> "rename", file |-> "registry", value |-> v]
       /\ b[1] = [op |-> "create", file |-> "gate"]
       /\ b[2] = [op |-> "rename", file |-> "gate", value |-> Closed]
  BY <1>11, ReplaceFacts
<1>13. job' = [phase |-> "change", todo |-> a \o b]
  BY <1>1 DEF v, e
<1> HIDE DEF a, b
<1>14. /\ a \o b \in Seq(Operations) /\ Len(a \o b) = 2 + 2 /\ \A i \in 1..2 : (a \o b)[i] = a[i]
       /\ (a \o b)[2 + 1] = b[1] /\ (a \o b)[2 + 2] = b[2]
  BY <1>12, PairAppended
<1> DEFINE todo == a \o b
<1>15. /\ todo \in Seq(Operations) /\ DOMAIN todo = {1, 2, 3, 4}
       /\ todo[1] = [op |-> "create", file |-> "registry"]
       /\ todo[2] = [op |-> "rename", file |-> "registry", value |-> v]
       /\ todo[3] = [op |-> "create", file |-> "gate"]
       /\ todo[4] = [op |-> "rename", file |-> "gate", value |-> Closed]
  <2>1. 2 + 1 = 3 /\ 2 + 2 = 4 /\ 1 \in 1..2 /\ 2 \in 1..2 /\ 1..4 = {1, 2, 3, 4}
    OBVIOUS
  <2>2. DOMAIN todo = 1..4
    BY <1>14, <2>1
  <2> QED
    BY <1>12, <1>14, <2>1, <2>2, Zenon
<1> HIDE DEF todo
<1>16. /\ todo[1].op = "create" /\ todo[1].file = "registry"
       /\ todo[2].op = "rename" /\ todo[2].file = "registry" /\ todo[2].value = v
       /\ todo[3].op = "create" /\ todo[3].file = "gate"
       /\ todo[4].op = "rename" /\ todo[4].file = "gate" /\ todo[4].value = Closed
  BY <1>15, Created, Renamed
<1>17. job'.phase = "change" /\ job'.todo = todo /\ job' \in Jobs
  BY <1>13, <1>15 DEF Jobs, todo
<1>18. UNCHANGED <<registry, gate>>
  BY <1>2 DEF disk
<1>19. ASSUME NEW w, Extends(w) PROVE Extends(w)'
  BY <1>18, <1>19 DEF Extends, Extended
<1>20. ASSUME NEW i \in DOMAIN todo
       PROVE  /\ todo[i].op # "unlink" /\ todo[i].file \notin Paths
              /\ Renames(todo[i], "registry") => i = 2 /\ todo[i].value = v
              /\ Renames(todo[i], "gate") => todo[i].value = Closed
  BY <1>15, <1>16, <1>20, FileFacts DEF Renames
<1>21. ChangeRight'
  <2>1. OneRegistry'
    BY <1>17, <1>20 DEF OneRegistry, Renames
  <2> QED
    <3>1. ASSUME NEW i \in DOMAIN job'.todo
          PROVE  /\ job'.todo[i].op # "unlink" /\ job'.todo[i].file \notin Paths
                 /\ Renames(job'.todo[i], "registry") => Extends(job'.todo[i].value)
                 /\ Renames(job'.todo[i], "gate") => job'.todo[i].value = Closed
      BY <1>8, <1>17, <1>20
    <3> QED
      BY <1>19, <2>1, <3>1 DEF ChangeRight, Renames
<1>22. JobRight'
  BY <1>17, <1>21 DEF JobRight
<1>23. \A i \in DOMAIN job'.todo : Renames(job'.todo[i], "registry") =>
          \A u \in Nat : u <= now /\ ExpiredAt(registry, u) = {} => ExpiredAt(job'.todo[i].value, u) = {}
  BY <1>10, <1>17, <1>20
<1> QED
  BY <1>2, <1>17, <1>22, <1>23, JobOnly

LEMMA WritePayloadKept == ASSUME IInv, WritePayload PROVE IInv'
<1>1. PICK p \in DOMAIN registry \ payloads : job' = [phase |-> "change", todo |-> Replace(p, None)]
  BY DEF WritePayload
<1>2. UNCHANGED <<now, disk, reader, faults>> /\ registry' = registry
  BY DEF WritePayload, disk
<1>3. p \in Paths /\ p \notin {"registry", "gate"}
  BY RegistryFacts, FileFacts DEF IInv, StateOK
<1>4. [op |-> "create", file |-> p] \in Operations /\ [op |-> "rename", file |-> p, value |-> None] \in Operations
  BY <1>3 DEF Operations, Files
<1> DEFINE todo == Replace(p, None)
<1>5. /\ todo \in Seq(Operations) /\ Len(todo) = 2
      /\ todo[1] = [op |-> "create", file |-> p] /\ todo[2] = [op |-> "rename", file |-> p, value |-> None]
  BY <1>4, ReplaceFacts
<1>6. job' = [phase |-> "change", todo |-> todo]
  BY <1>1
<1> HIDE DEF todo
<1>7. job'.phase = "change" /\ job'.todo = todo /\ job' \in Jobs
  BY <1>5, <1>6 DEF Jobs
<1>8. todo[1].op = "create" /\ todo[1].file = p /\ todo[2].op = "rename" /\ todo[2].file = p
  BY <1>5, Created, Renamed
<1>9. DOMAIN todo = {1, 2}
  <2>1. DOMAIN todo = 1..2 /\ 1..2 = {1, 2}
    BY <1>5
  <2> QED
    BY <2>1, Zenon
<1>10. ASSUME NEW i \in DOMAIN todo PROVE todo[i].op # "unlink" /\ todo[i].file = p
  BY <1>8, <1>9, <1>10
<1>11. ChangeRight'
  BY <1>1, <1>2, <1>3, <1>7, <1>10 DEF ChangeRight, OneRegistry, Renames
<1>12. JobRight'
  BY <1>7, <1>11 DEF JobRight
<1>13. \A i \in DOMAIN job'.todo : ~ Renames(job'.todo[i], "registry")
  BY <1>3, <1>7, <1>10 DEF Renames
<1> QED
  BY <1>2, <1>7, <1>12, <1>13, JobOnly

LEMMA StartCleanupKept == ASSUME IInv, StartCleanup PROVE IInv'
<1>1. job' = [phase |-> "purge", at |-> now, todo |-> Replace("gate", Closed)] /\ UNCHANGED <<now, disk, reader, faults>>
  BY DEF StartCleanup
<1>2. /\ [op |-> "create", file |-> "gate"] \in Operations
      /\ [op |-> "rename", file |-> "gate", value |-> Closed] \in Operations
  BY DEF Operations, Files, Gates, Closed
<1> DEFINE todo == Replace("gate", Closed)
<1>3. /\ todo \in Seq(Operations) /\ Len(todo) = 2
      /\ todo[1] = [op |-> "create", file |-> "gate"] /\ todo[2] = [op |-> "rename", file |-> "gate", value |-> Closed]
  BY <1>2, ReplaceFacts
<1> HIDE DEF todo
<1>4. job' = [phase |-> "purge", at |-> now, todo |-> todo]
  BY <1>1 DEF todo
<1>5. job'.phase = "purge" /\ job'.todo = todo /\ job'.at = now /\ job' \in Jobs
  BY <1>3, <1>4 DEF Jobs, IInv, StateOK
<1>6. /\ todo[1].op = "create" /\ todo[1].file = "gate"
      /\ todo[2].op = "rename" /\ todo[2].file = "gate" /\ todo[2].value = Closed
  BY <1>3, Created, Renamed
<1>7. DOMAIN todo = {1, 2} /\ Last(todo) = todo[2] /\ todo # << >>
  <2>1. DOMAIN todo = 1..2 /\ 1..2 = {1, 2}
    BY <1>3
  <2>2. Last(todo) = todo[2]
    BY <1>3 DEF Last
  <2>3. todo # << >>
    <3>1. Len(todo) # 0
      BY <1>3
    <3> QED
      BY <1>3, <3>1, EmptySeq, Zenon
  <2> QED
    BY <2>1, <2>2, <2>3, Zenon
<1>8. ASSUME NEW i \in DOMAIN todo
      PROVE  todo[i].file = "gate" /\ (todo[i].op = "rename" => todo[i].value = Closed) /\ todo[i].op # "unlink"
  BY <1>6, <1>7, <1>8
<1>9. now <= now
  BY DEF IInv, StateOK
<1>10. PurgeRight'
  BY <1>1, <1>5, <1>6, <1>7, <1>8, <1>9 DEF PurgeRight, Renames
<1>11. JobRight'
  BY <1>5, <1>10 DEF JobRight
<1> QED
  BY <1>1, <1>5, <1>11, JobOnly

LEMMA IdleFacts == Idle \in Jobs /\ Idle.phase = "idle" /\ Idle.todo = << >>
<1>1. << >> \in Seq(Operations)
  BY EmptySeq
<1> QED
  BY <1>1 DEF Idle, Jobs

\* The process has finished, or is gone.
LEMMA IdleKept == ASSUME IInv, UNCHANGED <<now, disk, reader>>, job' = Idle, faults' \in Nat PROVE IInv'
<1>1. UNCHANGED <<now, registry, gate, payloads, temps, reader>>
  BY DEF disk
<1>2. job' \in Jobs /\ JobRight' /\ job'.phase = "idle"
  BY IdleFacts DEF JobRight
<1>3. StateOK' /\ NothingForgotten' /\ NoDanglingReference' /\ GateRight'
  BY <1>1, <1>2 DEF IInv, StateOK, NothingForgotten, NoDanglingReference, GateRight
<1>4. ASSUME NEW r \in Readers PROVE LookRight(reader[r])'
  <2>1. LookRight(reader[r])
    BY DEF IInv
  <2> QED
    BY <1>1, <1>2, <2>1 DEF LookRight
<1> QED
  BY <1>2, <1>3, <1>4 DEF IInv

LEMMA Places ==
    ASSUME NEW n \in Nat, NEW i \in 1..(n + 4)
    PROVE  i \in 1..n \/ i = n + 1 \/ i = n + 2 \/ i = n + 3 \/ i = n + 4
OBVIOUS

\* The plan of a cleanup: payload, then the registry, then the gate.
LEMMA PlanRight ==
    ASSUME IInv, NEW t \in Nat, t <= now, ~ gate.open, UNCHANGED <<now, disk, reader, faults>>,
           NEW removed, removed = OverdueAt(registry, t), NEW todo, NEW n, Planned(todo, n, removed, t),
           job' = [phase |-> "reopen", todo |-> todo]
    PROVE  IInv'
<1>1. /\ n \in Nat /\ todo \in Seq(Operations) /\ Len(todo) = n + 4
      /\ \A i \in 1..n : todo[i].op = "unlink"
      /\ \A p \in removed : \E i \in 1..n : todo[i].file = p
      /\ todo[n + 1] = [op |-> "create", file |-> "registry"]
      /\ todo[n + 2] = [op |-> "rename", file |-> "registry", value |-> Kept(registry, removed)]
      /\ todo[n + 3] = [op |-> "create", file |-> "gate"]
      /\ todo[n + 4] = [op |-> "rename", file |-> "gate", value |-> Opened(t)]
  BY DEF Planned
<1>3. job'.phase = "reopen" /\ job'.todo = todo /\ job' \in Jobs
  <2>1. todo \in Seq(Operations)
    BY <1>1
  <2> QED
    BY <2>1 DEF Jobs
<1>4. /\ todo[n + 1].op = "create" /\ todo[n + 1].file = "registry"
      /\ todo[n + 2].op = "rename" /\ todo[n + 2].file = "registry" /\ todo[n + 2].value = Kept(registry, removed)
      /\ todo[n + 3].op = "create" /\ todo[n + 3].file = "gate"
      /\ todo[n + 4].op = "rename" /\ todo[n + 4].file = "gate" /\ todo[n + 4].value = Opened(t)
  BY <1>1, Created, Renamed
<1>5. DOMAIN todo = 1..(n + 4) /\ Last(todo) = todo[n + 4]
  BY <1>1 DEF Last
<1>6. ASSUME NEW i \in DOMAIN todo
      PROVE  /\ todo[i].op # "unlink" => todo[i].file \in {"registry", "gate"}
             /\ Renames(todo[i], "gate") => i = n + 4
             /\ Renames(todo[i], "registry") => i = n + 2
  <2>1. i \in 1..n \/ i = n + 1 \/ i = n + 2 \/ i = n + 3 \/ i = n + 4
    BY <1>1, <1>5, Places
  <2> QED
    BY <1>1, <1>4, <2>1, Zenon DEF Renames
<1>7. \A p \in removed : \E j \in 1..((n + 2) - 1) : todo[j].op = "unlink" /\ todo[j].file = p
  <2>1. \A j \in 1..n : j \in 1..((n + 2) - 1)
    BY <1>1
  <2> QED
    BY <1>1, <2>1, Zenon
<1>8. n + 2 \in DOMAIN todo /\ Renames(todo[n + 2], "registry")
  BY <1>1, <1>4, <1>5 DEF Renames
<1>9. Opened(t).checked = t
  BY DEF Opened
<1>10. UNCHANGED <<now, registry, gate, payloads>>
  BY DEF disk
<1>12. OneRegistry'
  BY <1>3, <1>6 DEF OneRegistry, Renames
<1>13. ASSUME NEW i \in DOMAIN todo
       PROVE  /\ todo[i].op # "unlink" => todo[i].file \in {"registry", "gate"}
              /\ Renames(todo[i], "gate") => i = Len(todo)
              /\ Renames(todo[i], "registry") =>
                   /\ todo[i].value = Kept(registry, OverdueAt(registry, t))
                   /\ \A p \in OverdueAt(registry, t) \cap payloads :
                        \E j \in 1..(i - 1) : todo[j].op = "unlink" /\ todo[j].file = p
  <2>1. Len(todo) = n + 4 /\ todo[n + 2].value = Kept(registry, removed)
    BY <1>1, <1>4
  <2>2. ASSUME Renames(todo[i], "registry"), NEW p \in removed
        PROVE  \E j \in 1..(i - 1) : todo[j].op = "unlink" /\ todo[j].file = p
    BY <1>6, <1>7, <1>13, <2>2, Zenon
  <2> QED
    BY <1>6, <1>13, <2>1, <2>2, Zenon
<1>14. ReopenRight'
  <2>1. /\ Last(todo) = todo[n + 4] /\ todo[n + 4].value = Opened(t) /\ todo[n + 4].value.checked = t
        /\ Renames(todo[n + 4], "gate")
    BY <1>4, <1>5, <1>9 DEF Renames
  <2>2. /\ job'.todo = todo /\ ~ gate'.open /\ now' = now /\ registry' = registry /\ payloads' = payloads
    BY <1>3, <1>10
  <2> QED
    BY <1>8, <1>12, <1>13, <2>1, <2>2 DEF ReopenRight, Renames
<1>15. JobRight'
  BY <1>3, <1>14 DEF JobRight
<1> QED
  BY <1>3, <1>15, JobOnly

LEMMA PlanKept == ASSUME IInv, Plan PROVE IInv'
<1>1. job.phase = "purge" /\ job.todo = << >> /\ UNCHANGED <<now, disk, reader, faults>>
  BY DEF Plan
<1>2. job.at \in Nat /\ job.at <= now /\ ~ gate.open /\ faults \in Nat
  BY <1>1 DEF IInv, StateOK, Jobs, JobRight, PurgeRight
<1>3. CASE job' = Idle
  BY <1>1, <1>2, <1>3, IdleKept
<1>4. CASE job' # Idle
  <2> DEFINE t == job.at
  <2>1. PICK removed : removed = OverdueAt(registry, t)
    OBVIOUS
  <2>2. PICK todo : todo = Purge(removed) \o Replace("gate", Opened(t))
    OBVIOUS
  <2>3. job' = [phase |-> "reopen", todo |-> todo]
    BY <1>4, <2>1, <2>2 DEF Plan, Removable
  <2>4. t \in Nat /\ t <= now /\ StateOK /\ NoDanglingReference
    BY <1>2 DEF IInv
  <2>5. PICK n : n = Cardinality(removed)
    OBVIOUS
  <2> HIDE DEF t
  <2>6. Planned(todo, n, removed, t)
    BY <2>1, <2>2, <2>4, <2>5, PurgePlan, Zenon
  <2> QED
    BY <1>1, <1>2, <2>1, <2>3, <2>4, <2>6, PlanRight
<1> QED
  BY <1>3, <1>4

LEMMA FinishKept == ASSUME IInv, Finish PROVE IInv'
<1>1. faults \in Nat
  BY DEF IInv, StateOK
<1> QED
  BY <1>1, IdleKept DEF Finish

LEMMA CrashKept == ASSUME IInv, Crash PROVE IInv'
<1>1. faults' \in Nat
  BY DEF IInv, StateOK, Crash
<1> QED
  BY <1>1, IdleKept DEF Crash

LEMMA ChangeStands ==
    ASSUME ChangeRight, UNCHANGED <<registry, gate, job>>
    PROVE  ChangeRight'
<1>1. ASSUME NEW w, Extends(w) PROVE Extends(w)'
  BY <1>1 DEF Extends, Extended
<1>2. OneRegistry'
  BY DEF ChangeRight, OneRegistry
<1> QED
  BY <1>1, <1>2 DEF ChangeRight, Renames

LEMMA JobStands ==
    ASSUME JobRight, job \in Jobs, UNCHANGED <<now, registry, gate, payloads, job>>
    PROVE  JobRight'
<1>1. ChangeRight => ChangeRight'
  BY ChangeStands
<1>2. PurgeRight => PurgeRight'
  BY DEF PurgeRight
<1>3. ReopenRight => ReopenRight'
  BY DEF ReopenRight, OneRegistry
<1>4. job.phase \in {"idle", "change", "purge", "reopen"}
  BY DEF Jobs
<1> QED
  BY <1>1, <1>2, <1>3, <1>4 DEF JobRight

LEMMA TickKept == ASSUME IInv, Tick PROVE IInv'
<1>1. now \in Nat /\ now' = now + 1 /\ UNCHANGED <<registry, gate, payloads, temps, job, reader, faults>>
  BY DEF IInv, StateOK, Tick, disk
<1>2. StateOK' /\ NothingForgotten' /\ NoDanglingReference'
  BY <1>1 DEF IInv, StateOK, NothingForgotten, NoDanglingReference
<1>3. GateRight'
  <2>1. gate.checked \in Nat
    BY DEF IInv, StateOK, Gates
  <2> QED
    BY <1>1, <2>1 DEF IInv, GateRight
<1>4. JobRight'
  <2>1. CASE job.phase = "purge"
    <3>1. job.at \in Nat
      BY <2>1 DEF IInv, StateOK, Jobs
    <3> QED
      BY <1>1, <2>1, <3>1 DEF IInv, JobRight, PurgeRight
  <2>2. CASE job.phase = "reopen"
    <3>1. ReopenRight
      BY <2>2 DEF IInv, JobRight
    <3>2. ReopenRight'
      <4>1. SUFFICES ASSUME job.todo # << >> PROVE ReopenRight'
        BY <1>1 DEF ReopenRight
      <4>2. job.todo \in Seq(Operations) /\ Renames(Last(job.todo), "gate")
        BY <3>1, <4>1 DEF IInv, StateOK, Jobs, ReopenRight
      <4>3. Len(job.todo) \in 1..Len(job.todo)
        BY <4>1, <4>2, EmptySeq
      <4>4. Last(job.todo) \in Operations
        BY <4>2, <4>3 DEF Last
      <4>5. Last(job.todo).value \in Gates
        BY <4>2, <4>4, FileFacts DEF Renames, Operations
      <4>6. Last(job.todo).value.checked \in Nat
        BY <4>5 DEF Gates
      <4>7. Last(job.todo).value.checked <= now'
        BY <1>1, <3>1, <4>1, <4>6 DEF ReopenRight
      <4> QED
        BY <1>1, <3>1, <4>7 DEF ReopenRight, OneRegistry
    <3> QED
      BY <1>1, <2>2, <3>2 DEF JobRight
  <2>3. CASE job.phase \in {"idle", "change"}
    BY <1>1, <2>3, ChangeStands DEF IInv, JobRight
  <2>4. job.phase \in {"idle", "change", "purge", "reopen"}
    BY DEF IInv, StateOK, Jobs
  <2> QED
    BY <2>1, <2>2, <2>3, <2>4
<1>5. ASSUME NEW r \in Readers PROVE LookRight(reader[r])'
  <2> DEFINE s == reader[r]
  <2>1. LookRight(s) /\ s \in Looks
    BY DEF IInv, StateOK
  <2>2. s.pc = "gate" => OverdueAt(s.data, now) \subseteq OverdueAt(s.data, now + 1)
    <3>1. s.pc = "gate" => s.data \in Registries
      BY <2>1 DEF Looks
    <3>2. now + 1 \in Nat /\ now <= now + 1
      BY <1>1
    <3> QED
      BY <1>1, <3>1, <3>2, OverdueLater
  <2>3. s.pc \in {"inventory", "reading"} => s.at <= now + 1
    <3>1. s.pc \in {"inventory", "reading"} => s.at \in Nat
      BY <2>1 DEF Looks
    <3> QED
      BY <1>1, <2>1, <3>1 DEF LookRight
  <2> QED
    BY <1>1, <2>1, <2>2, <2>3 DEF LookRight
<1> QED
  BY <1>2, <1>3, <1>4, <1>5 DEF IInv

-----------------------------------------------------------------------------
(* The readers. *)

LEMMA ReaderKept ==
    ASSUME IInv, NEW k \in Readers, NEW s \in Looks, LookRight(s),
           reader' = [reader EXCEPT ![k] = s], UNCHANGED <<now, disk, job, faults>>
    PROVE  IInv'
<1>1. UNCHANGED <<now, registry, gate, payloads, temps, job, faults>>
  BY DEF disk
<1>2. reader \in [Readers -> Looks]
  BY DEF IInv, StateOK
<1>3. reader' \in [Readers -> Looks] /\ reader'[k] = s /\ \A r \in Readers \ {k} : reader'[r] = reader[r]
  BY <1>2
<1>4. StateOK' /\ NothingForgotten' /\ NoDanglingReference' /\ GateRight'
  BY <1>1, <1>3 DEF IInv, StateOK, NothingForgotten, NoDanglingReference, GateRight
<1>5. JobRight'
  <2>1. JobRight
    BY DEF IInv
  <2> QED
    BY <1>1, <2>1, JobStands DEF IInv, StateOK
<1>6. ASSUME NEW z, LookRight(z) PROVE LookRight(z)'
  BY <1>1, <1>6 DEF LookRight
<1>7. ASSUME NEW r \in Readers PROVE LookRight(reader[r])'
  <2>1. LookRight(reader'[r])
    BY <1>3 DEF IInv
  <2> QED
    BY <1>1, <2>1 DEF LookRight
<1> QED
  BY <1>4, <1>5, <1>7 DEF IInv

LEMMA ReadRegistryKept == ASSUME IInv, NEW k \in Readers, ReadRegistry(k) PROVE IInv'
<1>1. PICK p \in Paths : reader' = [reader EXCEPT ![k] = [pc |-> "gate", path |-> p, data |-> registry]]
  BY DEF ReadRegistry
<1> DEFINE s == [pc |-> "gate", path |-> p, data |-> registry]
<1>2. s \in Looks
  BY DEF Looks, IInv, StateOK
<1>3. LookRight(s)
  BY DEF LookRight, Within, IInv, NoDanglingReference
<1>4. UNCHANGED <<now, disk, job, faults>>
  BY DEF ReadRegistry
<1>5. reader' = [reader EXCEPT ![k] = s]
  BY <1>1
<1> HIDE DEF s
<1> QED
  BY <1>2, <1>3, <1>4, <1>5, ReaderKept

LEMMA IdleLook == [pc |-> "idle"] \in Looks /\ LookRight([pc |-> "idle"])
BY DEF Looks, LookRight

\* Who sees the gate open and nothing overdue in what was read sees what is still registered.
LEMMA CheckGateKept == ASSUME IInv, NEW k \in Readers, CheckGate(k) PROVE IInv'
<1> DEFINE p == reader[k].path
           data == reader[k].data
           s == [pc |-> "inventory", path |-> p, data |-> data, at |-> now]
<1>1. UNCHANGED <<now, disk, job, faults>> /\ reader[k].pc = "gate"
  BY DEF CheckGate
<1>2. LookRight(reader[k]) /\ reader[k] \in Looks /\ now \in Nat
  BY DEF IInv, StateOK
<1>3. p \in Paths /\ data \in Registries
  BY <1>1, <1>2 DEF Looks
<1>4. CASE Admits(data, p)
  <2>1. OverdueAt(data, now) = {} /\ p \in DOMAIN data
    BY <1>4 DEF Admits
  <2>2. Within(data, registry) /\ Dangling(data) = {}
    BY <1>1, <1>2, <2>1 DEF LookRight
  <2>3. p \in DOMAIN registry /\ p \notin OverdueAt(registry, now)
    BY <2>1, <2>2, OverdueWithin DEF Within
  <2>4. s \in Looks
    BY <1>2, <1>3 DEF Looks
  <2>5. LookRight(s)
    BY <1>2, <2>3 DEF LookRight
  <2>6. reader' = [reader EXCEPT ![k] = s]
    BY <1>4 DEF CheckGate
  <2> HIDE DEF s
  <2> QED
    BY <1>1, <2>4, <2>5, <2>6, ReaderKept
<1>5. CASE ~ Admits(data, p)
  <2>1. reader' = [reader EXCEPT ![k] = [pc |-> "idle"]]
    BY <1>5 DEF CheckGate
  <2> QED
    BY <1>1, <2>1, IdleLook, ReaderKept
<1> QED
  BY <1>4, <1>5

LEMMA CheckInventoryKept == ASSUME IInv, NEW k \in Readers, CheckInventory(k) PROVE IInv'
<1> DEFINE s == [pc |-> "reading", path |-> reader[k].path, at |-> reader[k].at]
<1>1. UNCHANGED <<now, disk, job, faults>> /\ reader[k].pc = "inventory"
  BY DEF CheckInventory
<1>2. LookRight(reader[k]) /\ reader[k] \in Looks
  BY DEF IInv, StateOK
<1>3. s \in Looks
  BY <1>1, <1>2 DEF Looks
<1>4. LookRight(s)
  BY <1>1, <1>2 DEF LookRight
<1>5. reader' = [reader EXCEPT ![k] = s] \/ reader' = [reader EXCEPT ![k] = [pc |-> "idle"]]
  BY DEF CheckInventory
<1> HIDE DEF s
<1> QED
  BY <1>1, <1>3, <1>4, <1>5, IdleLook, ReaderKept

LEMMA EndReadKept == ASSUME IInv, NEW k \in Readers, EndRead(k) PROVE IInv'
BY IdleLook, ReaderKept DEF EndRead

-----------------------------------------------------------------------------
(* The invariant. *)

LEMMA Start == Init => IInv
<1> SUFFICES ASSUME Init PROVE IInv
  OBVIOUS
<1>1. DOMAIN registry = {} /\ registry \in [{} -> Entries]
  BY DEF Init
<1>2. registry \in Registries
  BY <1>1, RegistryMade
<1>3. IsFiniteSet(DOMAIN registry)
  BY <1>1, FS_EmptySet
<1>4. Closed \in Gates /\ Closed.checked = 0 /\ ~ Closed.open
  BY DEF Closed, Gates
<1>5. job \in Jobs /\ JobRight
  BY IdleFacts DEF Init, JobRight
<1>6. reader \in [Readers -> Looks] /\ \A r \in Readers : reader[r].pc = "idle"
  BY DEF Init, Looks
<1>7. StateOK
  BY <1>2, <1>3, <1>4, <1>5, <1>6 DEF Init, StateOK
<1>8. NothingForgotten /\ NoDanglingReference /\ GateRight
  BY <1>1, <1>4 DEF Init, NothingForgotten, NoDanglingReference, Dangling, GateRight
<1> QED
  BY <1>5, <1>6, <1>7, <1>8 DEF IInv, LookRight

LEMMA StutterKept == ASSUME IInv, UNCHANGED vars PROVE IInv'
<1>1. UNCHANGED <<now, registry, gate, payloads, temps, job, reader, faults>>
  BY DEF vars, disk
<1> QED
  <2>1. JobRight'
    BY <1>1, JobStands DEF IInv, StateOK
  <2>2. ASSUME NEW r \in Readers PROVE LookRight(reader[r])'
    <3>1. LookRight(reader[r])
      BY DEF IInv
    <3> QED
      BY <1>1, <3>1 DEF LookRight
  <2>3. StateOK' /\ NothingForgotten' /\ NoDanglingReference' /\ GateRight'
    BY <1>1 DEF IInv, StateOK, NothingForgotten, NoDanglingReference, GateRight
  <2> QED
    BY <2>1, <2>2, <2>3 DEF IInv

LEMMA Inductive == IInv /\ [Next]_vars => IInv'
<1> SUFFICES ASSUME IInv, [Next]_vars PROVE IInv'
  OBVIOUS
<1>1. CASE Register
  BY <1>1, RegisterKept
<1>2. CASE WritePayload
  BY <1>2, WritePayloadKept
<1>3. CASE Cleanup
  BY <1>3, StartCleanupKept, PlanKept DEF Cleanup
<1>4. CASE Change
  BY <1>4, OperateKept, FinishKept DEF Change
<1>5. CASE Crash
  BY <1>5, CrashKept
<1>6. CASE Tick
  BY <1>6, TickKept
<1>7. CASE \E k \in Readers : Read(k)
  BY <1>7, ReadRegistryKept, CheckGateKept, CheckInventoryKept, EndReadKept DEF Read
<1>8. CASE UNCHANGED vars
  BY <1>8, StutterKept
<1> QED
  BY <1>1, <1>2, <1>3, <1>4, <1>5, <1>6, <1>7, <1>8 DEF Next

LEMMA Sound == IInv => ReadsSound
<1> SUFFICES ASSUME IInv PROVE ReadsSound
  OBVIOUS
<1>1. TypeOK
  <2>1. DOMAIN registry \subseteq Paths /\ \A p \in DOMAIN registry : registry[p] \in Entries
    BY RegistryFacts DEF IInv, StateOK
  <2>2. job.phase \in {"idle", "change", "purge", "reopen"}
    BY DEF IInv, StateOK, Jobs
  <2>3. \A r \in Readers : reader[r].pc \in {"idle", "gate", "inventory", "reading"}
    BY DEF IInv, StateOK, Looks
  <2> QED
    BY <2>1, <2>2, <2>3 DEF IInv, StateOK, TypeOK, Gates, Files
<1>2. OpenGateIsClean
  BY NoneOverdue DEF IInv, GateRight, OpenGateIsClean
<1>3. ReadsAreFresh
  <2>1. ASSUME NEW r \in Readers, reader[r].pc = "reading" PROVE reader[r].path \notin OverdueAt(registry, reader[r].at)
    <3>1. \/ reader[r].path \notin OverdueAt(registry, reader[r].at)
          \/ ExpiredAt(registry, reader[r].at) = {}
      BY <2>1 DEF IInv, LookRight
    <3> QED
      BY <3>1, NoneOverdue
  <2> QED
    BY <2>1 DEF ReadsAreFresh
<1> QED
  BY <1>1, <1>2, <1>3 DEF IInv, ReadsSound

\* Readers, without the lock, and cleanup, after any crash between two file
\* operations, find what they rely on (RealLifecycle.readable, cleanup).
THEOREM ReadersAreSafe == Spec => []ReadsSound
<1>1. Init => IInv
  BY Start
<1>2. IInv /\ [Next]_vars => IInv'
  BY Inductive
<1>3. IInv => ReadsSound
  BY Sound
<1> QED
  BY <1>1, <1>2, <1>3, PTL DEF Spec

-----------------------------------------------------------------------------
(* Lifetimes. *)

Shortens ==
    \A p \in DOMAIN registry' :
        IF p \in DOMAIN registry THEN registry'[p].expires <= registry[p].expires
        ELSE registry'[p].copy # None => registry'[p].expires <= registry'[registry'[p].copy].expires

LEMMA SameEntries ==
    ASSUME StateOK, Within(registry', registry)
    PROVE  Shortens
<1>1. ASSUME NEW p \in DOMAIN registry' PROVE p \in DOMAIN registry /\ registry'[p].expires <= registry[p].expires
  <2>1. p \in DOMAIN registry /\ registry'[p] = registry[p]
    BY DEF Within
  <2>2. registry[p].expires \in Nat
    BY <2>1, RegistryFacts DEF StateOK
  <2> QED
    BY <2>1, <2>2
<1> QED
  BY <1>1 DEF Shortens

LEMMA StepShortens == ASSUME IInv, [Next]_vars PROVE Shortens
<1>1. CASE registry' = registry
  BY <1>1, SameEntries DEF IInv, Within
<1>2. CASE registry' # registry
  <2>1. Operate
    BY <1>2 DEF Next, Register, WritePayload, Cleanup, StartCleanup, Plan, Change, Finish, Crash, Tick, Read,
                ReadRegistry, CheckGate, CheckInventory, EndRead, vars, disk
  <2> DEFINE o == job.todo[1]
  <2>2. Renames(o, "registry") /\ registry' = o.value
    BY <1>2, <2>1, Effects DEF IInv
  <2>3. job.phase \in {"change", "purge", "reopen"}
    BY <2>1 DEF IInv, StateOK, Jobs, JobRight, Operate
  <2>4. CASE job.phase = "change"
    <3>1. Extends(registry')
      BY <2>1, <2>2, <2>4, Taken DEF IInv, JobRight, ChangeRight
    <3>2. PICK p \in DOMAIN registry' \ DOMAIN registry :
            /\ registry' = Extended(p, registry'[p])
            /\ registry'[p].copy # None => /\ registry'[p].copy \in DOMAIN registry
                                           /\ registry'[p].expires <= registry[registry'[p].copy].expires
      BY <3>1 DEF Extends
    <3>3. DOMAIN registry' = DOMAIN registry \union {p} /\ \A q \in DOMAIN registry : registry'[q] = registry[q]
      BY <3>2 DEF Extended
    <3>4. \A q \in DOMAIN registry : registry[q].expires \in Nat
      BY RegistryFacts DEF IInv, StateOK
    <3> QED
      BY <3>2, <3>3, <3>4 DEF Shortens
  <2>5. CASE job.phase = "purge"
    BY <2>1, <2>2, <2>5, Taken DEF IInv, JobRight, PurgeRight, Renames
  <2>6. CASE job.phase = "reopen"
    <3> DEFINE t == Last(job.todo).value.checked
    <3>1. registry' = Kept(registry, OverdueAt(registry, t))
      BY <2>1, <2>2, <2>6, Reopening
    <3>2. Within(registry', registry)
      BY <3>1 DEF Within, Kept
    <3> QED
      BY <3>2, SameEntries DEF IInv
  <2> QED
    BY <2>3, <2>4, <2>5, <2>6
<1> QED
  BY <1>1, <1>2

\* No registration, copy, restore, cleanup or crash moves the end of an
\* artifact, or lets a copy outlive its original (RealLifecycle.register).
THEOREM LifetimesStand == Spec => NeverExtended
<1>1. Init => IInv
  BY Start
<1>2. IInv /\ [Next]_vars => IInv'
  BY Inductive
<1>3. IInv /\ [Next]_vars => [Shortens]_vars
  BY StepShortens
<1>4. NeverExtended <=> [][Shortens]_vars
  BY DEF NeverExtended, Shortens
<1> QED
  BY <1>1, <1>2, <1>3, <1>4, PTL DEF Spec

-----------------------------------------------------------------------------
(* Backends. What a scan has read of a partition stays true of what is left  *)
(* of it: a log loses records at its start and gains some at its end.        *)

LEMMA SmallerPair ==
    ASSUME NEW x \in Nat, NEW y \in Nat, x < y
    PROVE  <<x, y>> \in OpToRel(<, Nat)
  BY Zenon DEF OpToRel

LEMMA SmallestIs ==
    ASSUME NEW S, S \subseteq Nat, S # {}
    PROVE  LET m == CHOOSE i \in S : \A j \in S : i <= j IN m \in S /\ \A j \in S : m <= j
<1>1. PICK x \in S : \A y \in S : ~ (<<y, x>> \in OpToRel(<, Nat))
  BY WFMin, NatLessThanWellFounded
<1>2. \A y \in S : ~ (y < x)
  BY <1>1, SmallerPair, Zenon
<1>3. \A y \in S : x <= y
  BY <1>2
<1> QED
  BY <1>3

Logged == [at : Nat, id : Nat]

\* The state without the cleanup.
BackendTypes ==
    /\ moment \in Nat /\ identity \in {0, 1} /\ made \in Nat /\ starts \in Nat
    /\ segments \in [Partitions -> [start : Nat, rows : Seq(Logged)]]
    /\ stored \subseteq Logged /\ buffer \subseteq Logged
    /\ DOMAIN receipts = {"kafka", "doris", "checkpoint"}

ScanFields == {"pc", "round", "at", "id", "bounds", "todo", "cut", "live", "first", "wanted"}

\* A partition that has been read: what had expired lies before the cut, and nothing else.
ScanTold(p) ==
    /\ \A o \in segments[p].start..(clean.bounds[p].end - 1) :
         \/ p \in DOMAIN clean.cut /\ o < clean.cut[p]
         \/ /\ ~ Ba!ExpiredAt(Ba!Offset(p, o), clean.at)
            /\ Ba!Offset(p, o).at + LogRetention \in clean.live
    /\ p \in DOMAIN clean.cut =>
         /\ clean.cut[p] <= clean.bounds[p].end
         /\ \A o \in segments[p].start..(clean.cut[p] - 1) : Ba!ExpiredAt(Ba!Offset(p, o), clean.at)

ScanInv ==
    /\ clean.pc \in {"scan", "delete", "rescan"} =>
         /\ DOMAIN clean = ScanFields
         /\ clean.at \in Nat /\ clean.id \in {0, 1} /\ clean.id <= identity
         /\ \A p \in DOMAIN clean.cut : clean.cut[p] \in Nat
    /\ clean.pc \in {"scan", "delete"} =>
         /\ clean.live \subseteq Nat
         /\ clean.pc = "delete" => clean.todo = {}
         /\ clean.bounds \in [Partitions -> [first : Nat, end : Nat]]
         /\ clean.id = identity => \A p \in Partitions :
              /\ clean.bounds[p].first <= segments[p].start /\ clean.bounds[p].end <= Ba!End(p)
              /\ p \in DOMAIN clean.cut => p \notin clean.todo
              /\ p \notin clean.todo => ScanTold(p)

KafkaInv ==
    LET r == receipts["kafka"]
    IN  r # Unset =>
          /\ r.id \in {0, 1} /\ r.id <= identity
          /\ r.id = identity => \A p \in Partitions :
               /\ r.ends[p].end \in Nat /\ r.ends[p].end <= Ba!End(p)
               /\ \A o \in segments[p].start..(r.ends[p].end - 1) :
                    Ba!Covered(Ba!Offset(p, o).at + LogRetention, r)

DorisInv ==
    /\ clean.pc \in {"count", "purge", "verify", "quiet", "roots", "quiet again"} => clean.at \in Nat
    /\ clean.pc \in {"count", "purge", "verify", "quiet"} => {"pc", "at"} \subseteq DOMAIN clean
    /\ LET r == receipts["doris"]
       IN  r # Unset => \A row \in stored \ after : Ba!Covered(row.at + LogRetention, r)

CheckpointTold ==
    LET r == receipts["checkpoint"]
    IN  r # Unset =>
          /\ r.to \in Nat /\ r.to <= starts
          /\ starts = r.to =>
               /\ engine = Unset
               /\ \A d \in present : d \in DOMAIN Roots /\ (r.from = r.to => Ba!Covered(Roots[d] + LogRetention, r))
CheckpointInv ==
    /\ clean.pc \in {"roots", "quiet again"} => clean.starts \in Nat /\ clean.starts <= starts
    /\ clean.pc = "roots" /\ starts = clean.starts => engine = Unset /\ present \subseteq DOMAIN Roots
    /\ clean.pc = "quiet again" /\ starts = clean.starts =>
         /\ engine = Unset /\ present \subseteq clean.left /\ clean.left \subseteq DOMAIN Roots
         /\ \A d \in clean.left : Roots[d] + LogRetention > clean.at
    /\ CheckpointTold

BackendsInv == BackendTypes /\ ScanInv /\ KafkaInv /\ DorisInv /\ CheckpointInv

LEMMA BackendsConstants ==
    LogRetention \in Nat /\ LogRetention > 0 /\ Unset \notin Nat /\ \A r \in DOMAIN Roots : Roots[r] \in Nat
BY ProgramsAssumption DEF ProgramsAssumption, Ba!BackendsAssumption

LEMMA LogShape ==
    ASSUME BackendTypes, NEW p \in Partitions
    PROVE  /\ segments[p].start \in Nat /\ segments[p].rows \in Seq(Logged) /\ Len(segments[p].rows) \in Nat
           /\ Ba!End(p) \in Nat /\ Ba!End(p) = segments[p].start + Len(segments[p].rows)
           /\ \A o \in segments[p].start..(Ba!End(p) - 1) : Ba!Offset(p, o) \in Logged
<1>1. segments[p].start \in Nat /\ segments[p].rows \in Seq(Logged)
    BY DEF BackendTypes
<1>2. Len(segments[p].rows) \in Nat
    BY <1>1
<1>3. ASSUME NEW o \in segments[p].start..(Ba!End(p) - 1)
      PROVE  Ba!Offset(p, o) \in Logged
    <2>1. o - segments[p].start + 1 \in 1..Len(segments[p].rows)
        BY <1>1, <1>2 DEF Ba!End
    <2>. QED  BY <1>1, <2>1 DEF Ba!Offset
<1>. QED  BY <1>1, <1>2, <1>3 DEF Ba!End

LEMMA LogShapeNext ==
    ASSUME BackendTypes', NEW p \in Partitions
    PROVE  /\ segments'[p].start \in Nat /\ segments'[p].rows \in Seq(Logged)
           /\ Ba!End(p)' \in Nat /\ Ba!End(p)' = segments'[p].start + Len(segments'[p].rows)
<1>1. segments'[p].start \in Nat /\ segments'[p].rows \in Seq(Logged)
    BY DEF BackendTypes
<1>2. Len(segments'[p].rows) \in Nat
    BY <1>1
<1>. QED  BY <1>1, <1>2 DEF Ba!End

\* What may happen to the log of a topic while it is the same one.
LogMoves ==
    /\ identity' = identity
    /\ \A p \in Partitions :
         /\ segments[p].start <= segments'[p].start /\ Ba!End(p) <= Ba!End(p)'
         /\ \A o \in segments'[p].start..(Ba!End(p) - 1) : Ba!Offset(p, o)' = Ba!Offset(p, o)
LogGoes == identity = 0 /\ identity' = 1

LEMMA LogRests ==
    ASSUME BackendTypes, segments' = segments, identity' = identity
    PROVE  LogMoves
BY LogShape DEF LogMoves, Ba!End, Ba!Offset

LEMMA ScanKept ==
    ASSUME BackendTypes, BackendTypes', ScanInv, LogMoves \/ LogGoes, clean' = clean
    PROVE  ScanInv'
<1>1. CASE LogGoes
    BY <1>1 DEF LogGoes, ScanInv
<1>2. CASE LogMoves
    <2>1. ASSUME NEW p \in Partitions, clean.bounds[p].end \in Nat, clean.bounds[p].end <= Ba!End(p), ScanTold(p),
                 p \in DOMAIN clean.cut => clean.cut[p] \in Nat
          PROVE  ScanTold(p)'
        <3>1. segments[p].start \in Nat /\ segments'[p].start \in Nat /\ Ba!End(p) \in Nat
            BY LogShape DEF BackendTypes
        <3>2. segments[p].start <= segments'[p].start
            BY <1>2 DEF LogMoves
        <3>3. \A o \in segments'[p].start..(Ba!End(p) - 1) : Ba!Offset(p, o)' = Ba!Offset(p, o)
            BY <1>2 DEF LogMoves
        <3>4. \A o \in segments'[p].start..(clean.bounds[p].end - 1) :
                 \/ p \in DOMAIN clean.cut /\ o < clean.cut[p]
                 \/ /\ ~ Ba!ExpiredAt(Ba!Offset(p, o)', clean.at)
                    /\ Ba!Offset(p, o)'.at + LogRetention \in clean.live
            BY <2>1, <3>1, <3>2, <3>3 DEF ScanTold
        <3>5. ASSUME p \in DOMAIN clean.cut
              PROVE  /\ clean.cut[p] <= clean.bounds[p].end
                     /\ \A o \in segments'[p].start..(clean.cut[p] - 1) : Ba!ExpiredAt(Ba!Offset(p, o)', clean.at)
            BY <2>1, <3>1, <3>2, <3>3, <3>5 DEF ScanTold
        <3>. QED  BY <3>4, <3>5 DEF ScanTold, Ba!ExpiredAt
    <2>2. ASSUME clean.pc \in {"scan", "delete"}, clean.id = identity, NEW p \in Partitions
          PROVE  /\ clean.bounds[p].first <= segments'[p].start /\ clean.bounds[p].end <= Ba!End(p)'
                 /\ p \in DOMAIN clean.cut => p \notin clean.todo
                 /\ p \notin clean.todo => ScanTold(p)'
        <3>1. clean.bounds[p].first \in Nat /\ clean.bounds[p].end \in Nat
            BY <2>2 DEF ScanInv
        <3>2. /\ clean.bounds[p].first <= segments[p].start /\ clean.bounds[p].end <= Ba!End(p)
              /\ p \in DOMAIN clean.cut => p \notin clean.todo
              /\ p \notin clean.todo => ScanTold(p)
              /\ p \in DOMAIN clean.cut => clean.cut[p] \in Nat
            BY <2>2 DEF ScanInv
        <3>3. segments[p].start <= segments'[p].start /\ Ba!End(p) <= Ba!End(p)'
            BY <1>2 DEF LogMoves
        <3>4. /\ segments[p].start \in Nat /\ segments'[p].start \in Nat
              /\ Ba!End(p) \in Nat /\ Ba!End(p)' \in Nat
            BY LogShape, LogShapeNext
        <3>. QED  BY <2>1, <3>1, <3>2, <3>3, <3>4
    <2>3. identity' = identity
        BY <1>2 DEF LogMoves
    <2>. QED  BY <2>2, <2>3 DEF ScanInv
<1>. QED  BY <1>1, <1>2

LEMMA KafkaKept ==
    ASSUME BackendTypes, BackendTypes', KafkaInv, LogMoves \/ LogGoes,
           receipts'["kafka"] = receipts["kafka"] \/ receipts'["kafka"] = Unset
    PROVE  KafkaInv'
<1>. DEFINE r == receipts["kafka"]
<1>1. CASE receipts'["kafka"] = Unset
    BY <1>1 DEF KafkaInv
<1>2. CASE receipts'["kafka"] = r /\ LogGoes
    BY <1>2 DEF KafkaInv, LogGoes
<1>3. CASE receipts'["kafka"] = r /\ LogMoves /\ r # Unset
    <2>1. r.id \in {0, 1} /\ r.id <= identity /\ identity' = identity
        BY <1>3 DEF KafkaInv, LogMoves
    <2>2. ASSUME r.id = identity, NEW p \in Partitions
          PROVE  /\ r.ends[p].end \in Nat /\ r.ends[p].end <= Ba!End(p)'
                 /\ \A o \in segments'[p].start..(r.ends[p].end - 1) :
                      Ba!Covered(Ba!Offset(p, o)'.at + LogRetention, r)
        <3>1. /\ r.ends[p].end \in Nat /\ r.ends[p].end <= Ba!End(p)
              /\ \A o \in segments[p].start..(r.ends[p].end - 1) :
                    Ba!Covered(Ba!Offset(p, o).at + LogRetention, r)
            BY <1>3, <2>2 DEF KafkaInv
        <3>2. /\ segments[p].start <= segments'[p].start /\ Ba!End(p) <= Ba!End(p)'
              /\ \A o \in segments'[p].start..(Ba!End(p) - 1) : Ba!Offset(p, o)' = Ba!Offset(p, o)
            BY <1>3 DEF LogMoves
        <3>3. /\ segments[p].start \in Nat /\ segments'[p].start \in Nat
              /\ Ba!End(p) \in Nat /\ Ba!End(p)' \in Nat
            BY LogShape, LogShapeNext
        <3>4. r.ends[p].end <= Ba!End(p)'
            BY <3>1, <3>2, <3>3
        <3>5. ASSUME NEW o \in segments'[p].start..(r.ends[p].end - 1)
              PROVE  Ba!Covered(Ba!Offset(p, o)'.at + LogRetention, r)
            <4>1. o \in segments[p].start..(r.ends[p].end - 1) /\ Ba!Offset(p, o)' = Ba!Offset(p, o)
                BY <3>1, <3>2, <3>3
            <4>. QED  BY <3>1, <4>1
        <3>. QED  BY <3>1, <3>4, <3>5
    <2>. QED  BY <1>3, <2>1, <2>2 DEF KafkaInv, Ba!Covered
<1>4. CASE receipts'["kafka"] = r /\ r = Unset
    BY <1>4 DEF KafkaInv
<1>. QED  BY <1>1, <1>2, <1>3, <1>4

LEMMA DorisKept ==
    ASSUME DorisInv, stored' \ after' \subseteq stored \ after,
           receipts'["doris"] = receipts["doris"] \/ receipts'["doris"] = Unset,
           \/ clean'.pc \in {"idle", "scan", "delete", "rescan"} \/ clean' = clean
    PROVE  DorisInv'
BY DEF DorisInv, Ba!Covered

LEMMA CheckpointReceiptKept ==
    ASSUME BackendTypes, CheckpointTold,
           receipts'["checkpoint"] = receipts["checkpoint"] \/ receipts'["checkpoint"] = Unset,
           \/ starts' = starts + 1
           \/ /\ starts' = starts /\ (engine' = engine \/ engine' = Unset)
              /\ present' \subseteq present \/ engine # Unset
    PROVE  CheckpointTold'
<1>1. starts \in Nat
    BY DEF BackendTypes
<1>2. CASE receipts'["checkpoint"] = Unset
    BY <1>2 DEF CheckpointTold
<1>3. CASE receipts'["checkpoint"] = receipts["checkpoint"] /\ starts' = starts + 1
    BY <1>1, <1>3 DEF CheckpointTold
<1>4. CASE receipts'["checkpoint"] = receipts["checkpoint"] /\ starts' = starts
    <2>1. engine = Unset => engine' = Unset /\ present' \subseteq present
        BY <1>1, <1>4
    <2>. QED  BY <1>4, <2>1 DEF CheckpointTold, Ba!Covered
<1>. QED  BY <1>2, <1>3, <1>4

LEMMA OneLater == ASSUME NEW a \in Nat, NEW b \in Nat, a <= b PROVE a <= b + 1 /\ b + 1 # a
OBVIOUS

LEMMA CheckpointKept ==
    ASSUME BackendTypes, CheckpointInv,
           receipts'["checkpoint"] = receipts["checkpoint"] \/ receipts'["checkpoint"] = Unset,
           clean'.pc \notin {"roots", "quiet again"} \/ clean' = clean,
           \/ starts' = starts + 1
           \/ /\ starts' = starts /\ (engine' = engine \/ engine' = Unset)
              /\ present' \subseteq present \/ engine # Unset
    PROVE  CheckpointInv'
<1>1. starts \in Nat
    BY DEF BackendTypes
<1>2. CASE clean'.pc \notin {"roots", "quiet again"}
    <2>1. CheckpointTold'
        BY CheckpointReceiptKept DEF CheckpointInv
    <2>. QED  BY <1>2, <2>1 DEF CheckpointInv
<1>3. CASE clean' = clean /\ starts' = starts + 1
    <2>1. CheckpointTold'
        BY CheckpointReceiptKept DEF CheckpointInv
    <2>2. clean.pc \in {"roots", "quiet again"} => clean.starts \in Nat /\ clean.starts <= starts
        BY DEF CheckpointInv
    <2>3. clean.pc \in {"roots", "quiet again"} => clean.starts <= starts' /\ starts' # clean.starts
        BY <1>1, <1>3, <2>2, OneLater
    <2>. QED  BY <1>3, <2>1, <2>2, <2>3 DEF CheckpointInv
<1>4. CASE clean' = clean /\ starts' = starts
    <2>1. CheckpointTold'
        BY CheckpointReceiptKept DEF CheckpointInv
    <2>2. engine = Unset => engine' = Unset /\ present' \subseteq present
        BY <1>1, <1>4
    <2>. QED  BY <1>1, <1>4, <2>1, <2>2 DEF CheckpointInv
<1>. QED  BY <1>2, <1>3, <1>4

-----------------------------------------------------------------------------
(* What goes on beside the cleanup, and the deletion of prefixes. *)

\* M is what is left of the records L without the first n, or L with one more.
Left(L, n, M) ==
    \/ M = SubSeq(L, n + 1, Len(L))
    \/ n = 1 /\ M = Tail(L)
    \/ n = 0 /\ \E x \in Logged : M = L \o <<x>>

LEMMA WhatIsLeft ==
    ASSUME NEW L \in Seq(Logged), NEW n \in 0..Len(L), NEW M, Left(L, n, M)
    PROVE  M \in Seq(Logged) /\ Len(M) >= Len(L) - n /\ \A i \in 1..(Len(L) - n) : M[i] = L[n + i]
<1>1. Len(L) \in Nat /\ n \in Nat /\ n <= Len(L)
    OBVIOUS
<1>2. CASE M = SubSeq(L, n + 1, Len(L))
    <2>1. M = [i \in 1..(Len(L) - n) |-> L[n + i]]
        BY <1>1, <1>2
    <2>2. \A i \in 1..(Len(L) - n) : n + i \in 1..Len(L)
        BY <1>1
    <2>3. \A i \in 1..Len(L) : L[i] \in Logged
        OBVIOUS
    <2>4. M \in Seq(Logged)
        BY <1>1, <2>1, <2>2, <2>3
    <2>. QED  BY <1>1, <2>1, <2>4
<1>3. CASE n = 1 /\ M = Tail(L)
    BY <1>1, <1>3
<1>4. CASE n = 0 /\ \E x \in Logged : M = L \o <<x>>
    BY <1>1, <1>4
<1>. QED  BY <1>2, <1>3, <1>4 DEF Left

LEMMA PartMoves ==
    ASSUME BackendTypes, NEW p \in Partitions, NEW n \in 0..Len(segments[p].rows),
           segments'[p].start = segments[p].start + n, Left(segments[p].rows, n, segments'[p].rows)
    PROVE  /\ segments'[p].start \in Nat /\ segments'[p].rows \in Seq(Logged)
           /\ segments[p].start <= segments'[p].start /\ Ba!End(p) <= Ba!End(p)'
           /\ \A o \in segments'[p].start..(Ba!End(p) - 1) : Ba!Offset(p, o)' = Ba!Offset(p, o)
<1>1. PICK L, M, a, b : /\ L = segments[p].rows /\ M = segments'[p].rows
                        /\ a = segments[p].start /\ b = segments'[p].start
    OBVIOUS
<1>2. a \in Nat /\ L \in Seq(Logged) /\ Len(L) \in Nat /\ n \in Nat /\ n <= Len(L) /\ b = a + n
    BY <1>1, LogShape
<1>3. M \in Seq(Logged) /\ Len(M) >= Len(L) - n /\ \A i \in 1..(Len(L) - n) : M[i] = L[n + i]
    BY <1>1, <1>2, WhatIsLeft
<1>4. Len(M) \in Nat
    BY <1>3
<1>5. Ba!End(p) = a + Len(L) /\ Ba!End(p)' = b + Len(M)
    BY <1>1 DEF Ba!End
<1>6. \A o : Ba!Offset(p, o) = L[o - a + 1] /\ Ba!Offset(p, o)' = M[o - b + 1]
    BY <1>1 DEF Ba!Offset
<1>7. ASSUME NEW o \in b..(Ba!End(p) - 1)
      PROVE  Ba!Offset(p, o)' = Ba!Offset(p, o)
    <2>1. o - b + 1 \in 1..(Len(L) - n) /\ n + (o - b + 1) = o - a + 1
        BY <1>2, <1>5
    <2>2. M[o - b + 1] = L[n + (o - b + 1)]
        BY <1>3, <2>1
    <2>. QED  BY <1>6, <2>1, <2>2
<1>8. Ba!End(p) <= Ba!End(p)' /\ a <= b
    BY <1>2, <1>3, <1>4, <1>5
<1>. QED  BY <1>1, <1>2, <1>3, <1>7, <1>8

\* The records in a log's function, where only one partition is touched.
LEMMA OneMoves ==
    ASSUME BackendTypes, identity' = identity, NEW p \in Partitions, NEW part, NEW n \in 0..Len(segments[p].rows),
           segments' = [segments EXCEPT ![p] = part],
           DOMAIN part = {"start", "rows"}, part = [i \in DOMAIN part |-> part[i]],
           part.start = segments[p].start + n,
           Left(segments[p].rows, n, part.rows)
    PROVE  LogMoves /\ segments' \in [Partitions -> [start : Nat, rows : Seq(Logged)]]
<1>1. segments'[p] = part
    BY DEF BackendTypes
<1>2. /\ segments'[p].start \in Nat /\ segments'[p].rows \in Seq(Logged)
      /\ segments[p].start <= segments'[p].start /\ Ba!End(p) <= Ba!End(p)'
      /\ \A o \in segments'[p].start..(Ba!End(p) - 1) : Ba!Offset(p, o)' = Ba!Offset(p, o)
    BY <1>1, PartMoves
<1>3. \A q \in Partitions : q # p => segments'[q] = segments[q]
    BY DEF BackendTypes
<1>4. ASSUME NEW q \in Partitions, q # p
      PROVE  /\ segments[q].start <= segments'[q].start /\ Ba!End(q) <= Ba!End(q)'
             /\ \A o \in segments'[q].start..(Ba!End(q) - 1) : Ba!Offset(q, o)' = Ba!Offset(q, o)
    BY <1>3, <1>4, LogShape DEF Ba!End, Ba!Offset
<1>5. part \in [start : Nat, rows : Seq(Logged)]
    BY <1>1, <1>2
<1>. QED  BY <1>2, <1>4, <1>5 DEF LogMoves, BackendTypes

\* An action that leaves the cleanup and its receipts alone.
LEMMA BesideKept ==
    ASSUME BackendsInv, BackendTypes', LogMoves \/ LogGoes, clean' = clean, receipts' = receipts,
           stored' \ after' \subseteq stored \ after,
           \/ starts' = starts + 1
           \/ /\ starts' = starts /\ (engine' = engine \/ engine' = Unset)
              /\ present' \subseteq present \/ engine # Unset
    PROVE  BackendsInv'
BY ScanKept, KafkaKept, DorisKept, CheckpointKept DEF BackendsInv

LEMMA ProduceRight == ASSUME BackendsInv, NEW p \in Partitions, Ba!Produce(p) PROVE BackendsInv'
<1>1. BackendTypes
    BY DEF BackendsInv
<1>2. PICK t \in 0..moment : segments' = [segments EXCEPT ![p].rows = @ \o <<[at |-> t, id |-> made]>>]
    BY DEF Ba!Produce
<1>. DEFINE x == [at |-> t, id |-> made]
            part == [segments[p] EXCEPT !.rows = @ \o <<x>>]
<1>3. x \in Logged /\ made + 1 \in Nat
    BY <1>1 DEF BackendTypes, Logged
<1>4. segments' = [segments EXCEPT ![p] = part]
    BY <1>2
<1>5. DOMAIN part = {"start", "rows"} /\ part.start = segments[p].start + 0 /\ part.rows = segments[p].rows \o <<x>>
    BY <1>1 DEF BackendTypes
<1>6. part = [i \in DOMAIN part |-> part[i]]
    OBVIOUS
<1>7. Left(segments[p].rows, 0, part.rows)
    BY <1>3, <1>5 DEF Left
<1>8. 0 \in 0..Len(segments[p].rows)
    BY <1>1, LogShape
<1>9. identity' = identity
    BY DEF Ba!Produce
<1>. HIDE DEF part, x
<1>10. LogMoves /\ segments' \in [Partitions -> [start : Nat, rows : Seq(Logged)]]
    BY <1>1, <1>4, <1>5, <1>6, <1>7, <1>8, <1>9, OneMoves
<1>11. BackendTypes'
    BY <1>1, <1>3, <1>10 DEF BackendTypes, Ba!Produce
<1>. QED  BY <1>10, <1>11, BesideKept DEF Ba!Produce

LEMMA BrokerRight == ASSUME BackendsInv, NEW p \in Partitions, Ba!BrokerRetention(p) PROVE BackendsInv'
<1>1. BackendTypes
    BY DEF BackendsInv
<1>. DEFINE part == [start |-> segments[p].start + 1, rows |-> Tail(segments[p].rows)]
<1>2. segments' = [segments EXCEPT ![p] = part] /\ segments[p].rows # << >>
    BY DEF Ba!BrokerRetention
<1>3. DOMAIN part = {"start", "rows"} /\ part.start = segments[p].start + 1 /\ part.rows = Tail(segments[p].rows)
    OBVIOUS
<1>4. part = [i \in DOMAIN part |-> part[i]]
    OBVIOUS
<1>5. Left(segments[p].rows, 1, part.rows)
    BY DEF Left
<1>6. 1 \in 0..Len(segments[p].rows)
    BY <1>1, <1>2, LogShape
<1>7. identity' = identity
    BY DEF Ba!BrokerRetention
<1>. HIDE DEF part
<1>8. LogMoves /\ segments' \in [Partitions -> [start : Nat, rows : Seq(Logged)]]
    BY <1>1, <1>2, <1>3, <1>4, <1>5, <1>6, <1>7, OneMoves
<1>9. BackendTypes'
    BY <1>1, <1>8 DEF BackendTypes, Ba!BrokerRetention
<1>. QED  BY <1>8, <1>9, BesideKept DEF Ba!BrokerRetention

LEMMA RecreateRight == ASSUME BackendsInv, Ba!Recreate PROVE BackendsInv'
<1>1. BackendTypes
    BY DEF BackendsInv
<1>2. << >> \in Seq(Logged)
    OBVIOUS
<1>3. BackendTypes'
    BY <1>1, <1>2 DEF BackendTypes, Ba!Recreate
<1>4. LogGoes
    BY DEF Ba!Recreate, LogGoes
<1>. QED  BY <1>3, <1>4, BesideKept DEF Ba!Recreate

LEMMA EngineRight ==
    ASSUME BackendsInv, Ba!StartJob \/ Ba!StopJob \/ Ba!Consume \/ Ba!Checkpoint \/ Ba!Tick
    PROVE  BackendsInv'
<1>1. BackendTypes
    BY DEF BackendsInv
<1>2. segments' = segments /\ identity' = identity /\ clean' = clean /\ receipts' = receipts
    BY DEF Ba!StartJob, Ba!StopJob, Ba!Consume, Ba!Checkpoint, Ba!Tick
<1>3. LogMoves
    BY <1>1, <1>2, LogRests
<1>4. \A p \in Partitions : Ba!ToSet(segments[p].rows) \subseteq Logged
    <2>1. SUFFICES ASSUME NEW p \in Partitions PROVE Ba!ToSet(segments[p].rows) \subseteq Logged
        OBVIOUS
    <2>2. segments[p].rows \in Seq(Logged)
        BY <1>1, LogShape
    <2>. QED  BY <2>2 DEF Ba!ToSet
<1>5. moment' \in Nat /\ starts' \in Nat /\ made' \in Nat
    BY <1>1 DEF BackendTypes, Ba!StartJob, Ba!StopJob, Ba!Consume, Ba!Checkpoint, Ba!Tick
<1>6. buffer' \subseteq Logged /\ stored' \subseteq Logged
    <2>1. CASE Ba!Consume
        BY <1>1, <1>4, <2>1 DEF BackendTypes, Ba!Consume
    <2>. QED  BY <1>1, <2>1 DEF BackendTypes, Ba!StartJob, Ba!StopJob, Ba!Checkpoint, Ba!Tick
<1>7. BackendTypes'
    BY <1>1, <1>2, <1>5, <1>6 DEF BackendTypes
<1>8. stored' \ after' \subseteq stored \ after
    BY DEF Ba!StartJob, Ba!StopJob, Ba!Consume, Ba!Checkpoint, Ba!Tick
<1>9. \/ starts' = starts + 1
      \/ /\ starts' = starts /\ (engine' = engine \/ engine' = Unset)
         /\ present' \subseteq present \/ engine # Unset
    BY DEF Ba!StartJob, Ba!StopJob, Ba!Consume, Ba!Checkpoint, Ba!Tick
<1>. QED  BY <1>2, <1>3, <1>7, <1>8, <1>9, BesideKept


-----------------------------------------------------------------------------
(* The cleanup. *)

LEMMA NextIs ==
    ASSUME NEW S, S \subseteq Nat, NEW x \in S
    PROVE  Ba!NextExpiry(S) # Unset /\ Ba!NextExpiry(S) <= x
<1>1. Ba!NextExpiry(S) = Ba!Min(S)
    BY DEF Ba!NextExpiry
<1>2. Ba!Min(S) \in S /\ \A y \in S : Ba!Min(S) <= y
    BY SmallestIs DEF Ba!Min
<1>. QED  BY <1>1, <1>2, BackendsConstants

\* A set of numbers below a bound has a largest.
LEMMA LargestIs ==
    ASSUME NEW S, S \subseteq Nat, S # {}, NEW e \in Nat, \A o \in S : o <= e
    PROVE  Ba!Max(S) \in S /\ \A o \in S : o <= Ba!Max(S)
<1>. DEFINE D == {e - o : o \in S}
<1>1. D \subseteq Nat /\ D # {}
    <2>1. \A o \in S : e - o \in Nat
        OBVIOUS
    <2>2. PICK o \in S : TRUE
        OBVIOUS
    <2>3. e - o \in D
        OBVIOUS
    <2>. QED  BY <2>1, <2>3
<1>2. PICK d \in D : \A c \in D : d <= c
    <2>. HIDE DEF D
    <2>. QED  BY <1>1, SmallestIs
<1>3. PICK m \in S : d = e - m
    BY <1>2
<1>4. \A o \in S : o <= m
    <2>1. SUFFICES ASSUME NEW o \in S PROVE o <= m
        OBVIOUS
    <2>2. e - m <= e - o
        BY <1>2, <1>3
    <2>. QED  BY <1>3, <2>2
<1>. QED  BY <1>4 DEF Ba!Max

\* A step of the cleanup that leaves the state of the engines alone, and its types.
LEMMA CleaningTypes ==
    ASSUME BackendsInv, segments' = segments, stored' \subseteq stored, UNCHANGED Ba!elsewhere,
           DOMAIN receipts' = DOMAIN receipts
    PROVE  BackendTypes /\ BackendTypes' /\ LogMoves
<1>1. BackendTypes
    BY DEF BackendsInv
<1>2. identity' = identity
    BY DEF Ba!elsewhere
<1>3. BackendTypes'
    BY <1>1 DEF BackendTypes, Ba!elsewhere
<1>. QED  BY <1>1, <1>2, <1>3, LogRests

LEMMA RefuseRight == ASSUME BackendsInv, Ba!Refuse PROVE BackendsInv'
<1>1. BackendTypes /\ BackendTypes' /\ LogMoves
    BY CleaningTypes DEF Ba!Refuse
<1>2. clean'.pc = "idle"
    BY DEF Ba!Refuse, Ba!Idle
<1>3. ScanInv'
    BY <1>2 DEF ScanInv
<1>4. KafkaInv'
    BY <1>1, KafkaKept DEF BackendsInv, Ba!Refuse
<1>5. DorisInv'
    BY <1>2, DorisKept DEF BackendsInv, Ba!Refuse
<1>6. CheckpointInv'
    BY <1>1, <1>2, CheckpointKept DEF BackendsInv, Ba!Refuse, Ba!elsewhere
<1>. QED  BY <1>1, <1>3, <1>4, <1>5, <1>6 DEF BackendsInv

\* A scan that begins has read nothing.
LEMMA Fresh ==
    ASSUME BackendTypes, segments' = segments, identity' = identity,
           DOMAIN clean' = ScanFields, clean'.pc = "scan", clean'.at \in Nat,
           clean'.id \in {0, 1}, clean'.id <= identity, clean'.cut = << >>, clean'.live = {},
           clean'.todo = Partitions, clean'.bounds = Ba!Bounds
    PROVE  ScanInv'
<1>1. \A p \in Partitions : segments[p].start \in Nat /\ Ba!End(p) \in Nat
    BY LogShape
<1>2. Ba!Bounds \in [Partitions -> [first : Nat, end : Nat]]
    BY <1>1 DEF Ba!Bounds
<1>3. \A p \in Partitions : Ba!Bounds[p].first = segments[p].start /\ Ba!Bounds[p].end = Ba!End(p)
    BY DEF Ba!Bounds
<1>4. \A p \in Partitions : Ba!End(p)' = Ba!End(p)
    BY DEF Ba!End
<1>5. DOMAIN clean'.cut = {}
    OBVIOUS
<1>6. ASSUME NEW p \in Partitions
      PROVE  /\ clean'.bounds[p].first <= segments'[p].start /\ clean'.bounds[p].end <= Ba!End(p)'
             /\ p \in DOMAIN clean'.cut => p \notin clean'.todo
             /\ p \notin clean'.todo => ScanTold(p)'
    BY <1>1, <1>3, <1>4, <1>5
<1>. QED  BY <1>2, <1>5, <1>6 DEF ScanInv

LEMMA BackendsBegin == ASSUME BackendsInv, Ba!Begin PROVE BackendsInv'
<1>0. receipts' = [b \in {"kafka", "doris", "checkpoint"} |-> Unset]
    BY DEF Ba!Begin, Ba!NoReceipts
<1>1. BackendTypes /\ BackendTypes' /\ LogMoves
    BY <1>0, CleaningTypes DEF Ba!Begin, BackendsInv, BackendTypes
<1>2. segments' = segments /\ identity' = identity
    BY DEF Ba!Begin, Ba!elsewhere
<1>3. /\ DOMAIN clean' = ScanFields /\ clean'.pc = "scan" /\ clean'.at = moment /\ clean'.id = identity
      /\ clean'.cut = << >> /\ clean'.live = {} /\ clean'.todo = Partitions /\ clean'.bounds = Ba!Bounds
    BY DEF Ba!Begin, ScanFields
<1>4. ScanInv'
    <2>1. moment \in Nat /\ identity \in {0, 1} /\ identity <= identity
        BY <1>1 DEF BackendTypes
    <2>. QED  BY <1>1, <1>2, <1>3, <2>1, Fresh
<1>5. KafkaInv' /\ DorisInv' /\ CheckpointInv'
    BY <1>0, <1>3 DEF KafkaInv, DorisInv, CheckpointInv, CheckpointTold
<1>. QED  BY <1>1, <1>4, <1>5 DEF BackendsInv

LEMMA RescanRight == ASSUME BackendsInv, Ba!Rescan PROVE BackendsInv'
<1>0. receipts' = receipts
    BY DEF Ba!Rescan
<1>1. BackendTypes /\ BackendTypes' /\ LogMoves
    BY <1>0, CleaningTypes DEF Ba!Rescan
<1>2. segments' = segments /\ identity' = identity
    BY DEF Ba!Rescan, Ba!elsewhere
<1>a. DOMAIN clean = ScanFields /\ clean.at \in Nat /\ clean.id \in {0, 1} /\ clean.id <= identity
    BY DEF BackendsInv, ScanInv, Ba!Rescan
<1>3. /\ DOMAIN clean' = ScanFields /\ clean'.pc = "scan" /\ clean'.at = clean.at /\ clean'.id = clean.id
      /\ clean'.cut = << >> /\ clean'.live = {} /\ clean'.todo = Partitions /\ clean'.bounds = Ba!Bounds
    BY <1>a DEF Ba!Rescan, ScanFields
<1>4. ScanInv'
    BY <1>1, <1>2, <1>3, <1>a, Fresh
<1>5. KafkaInv'
    BY <1>0, <1>1, KafkaKept DEF BackendsInv
<1>6. DorisInv'
    BY <1>0, <1>3, DorisKept DEF BackendsInv, Ba!Rescan
<1>7. CheckpointInv'
    BY <1>0, <1>1, <1>3, CheckpointKept DEF BackendsInv, Ba!Rescan, Ba!elsewhere
<1>. QED  BY <1>1, <1>4, <1>5, <1>6, <1>7 DEF BackendsInv

\* What a scan reads of a partition: everything that is left of it up to the end it started from.
LEMMA Reads ==
    ASSUME BackendsInv, clean.pc = "scan", NEW p \in Partitions
    PROVE  /\ Ba!Seen(p) \subseteq Nat /\ \A o \in Ba!Seen(p) : o <= Ba!End(p) /\ Ba!Offset(p, o) \in Logged
           /\ \A o : o \in Ba!Seen(p) <=> o \in clean.bounds[p].first..(clean.bounds[p].end - 1)
                                        /\ o \in segments[p].start..(Ba!End(p) - 1)
<1>1. clean.bounds[p].first \in Nat /\ clean.bounds[p].end \in Nat
    BY DEF BackendsInv, ScanInv
<1>2. /\ segments[p].start \in Nat /\ Ba!End(p) \in Nat
      /\ \A o \in segments[p].start..(Ba!End(p) - 1) : Ba!Offset(p, o) \in Logged
    BY LogShape DEF BackendsInv
<1>3. \A o : o \in Ba!Seen(p) <=> o \in clean.bounds[p].first..(clean.bounds[p].end - 1)
                                /\ o \in segments[p].start..(Ba!End(p) - 1)
    BY DEF Ba!Seen
<1>. QED  BY <1>1, <1>2, <1>3

LEMMA ScanRight == ASSUME BackendsInv, NEW p \in Partitions, Ba!ScanPartition(p) PROVE BackendsInv'
<1>1. CASE ~ Ba!Prefix(p)
    BY <1>1, RefuseRight DEF Ba!ScanPartition
<1>2. CASE Ba!Prefix(p)
    <2>. DEFINE old == Ba!Old(p)
                cut == IF old = {} THEN clean.cut
                       ELSE [q \in DOMAIN clean.cut \union {p} |-> IF q = p THEN Ba!Max(old) + 1 ELSE clean.cut[q]]
                live == clean.live \union {Ba!Offset(p, o).at + LogRetention : o \in Ba!Seen(p) \ old}
    <2>0. clean.pc = "scan" /\ p \in clean.todo /\ receipts' = receipts /\ segments' = segments /\ identity' = identity
        BY <1>2 DEF Ba!ScanPartition, Ba!elsewhere
    <2>1. clean' = [clean EXCEPT !.todo = @ \ {p}, !.cut = cut, !.live = live]
        BY <1>2 DEF Ba!ScanPartition
    <2>2. /\ DOMAIN clean = ScanFields /\ clean.at \in Nat /\ clean.id \in {0, 1} /\ clean.id <= identity
          /\ clean.live \subseteq Nat /\ clean.bounds \in [Partitions -> [first : Nat, end : Nat]]
          /\ \A q \in DOMAIN clean.cut : clean.cut[q] \in Nat
        BY <2>0 DEF BackendsInv, ScanInv
    <2>. HIDE DEF old, cut, live
    <2>3. /\ DOMAIN clean' = ScanFields /\ clean'.pc = "scan" /\ clean'.at = clean.at /\ clean'.id = clean.id
          /\ clean'.bounds = clean.bounds /\ clean'.todo = clean.todo \ {p} /\ clean'.cut = cut /\ clean'.live = live
        BY <2>0, <2>1, <2>2 DEF ScanFields
    <2>4. BackendTypes /\ BackendTypes' /\ LogMoves
        BY <1>2, <2>0, CleaningTypes DEF Ba!ScanPartition
    <2>5. /\ Ba!Seen(p) \subseteq Nat /\ \A o \in Ba!Seen(p) : o <= Ba!End(p) /\ Ba!Offset(p, o) \in Logged
          /\ \A o : o \in Ba!Seen(p) <=> o \in clean.bounds[p].first..(clean.bounds[p].end - 1)
                                       /\ o \in segments[p].start..(Ba!End(p) - 1)
        BY <2>0, Reads
    <2>6. \A o : o \in old <=> o \in Ba!Seen(p) /\ Ba!ExpiredAt(Ba!Offset(p, o), clean.at)
        BY DEF old, Ba!Old
    <2>7. live \subseteq Nat
        BY <2>2, <2>5, BackendsConstants DEF live, Logged
    <2>8. old # {} => Ba!Max(old) \in old /\ \A o \in old : o <= Ba!Max(old)
        BY <2>4, <2>5, <2>6, LargestIs, LogShape
    <2>9. /\ \A q \in DOMAIN cut : cut[q] \in Nat
          /\ \A q : q # p => (q \in DOMAIN cut <=> q \in DOMAIN clean.cut)
          /\ \A q \in DOMAIN clean.cut : q # p => cut[q] = clean.cut[q]
        <3>1. CASE old = {}
            BY <2>2, <3>1 DEF cut
        <3>2. CASE old # {}
            <4>1. Ba!Max(old) + 1 \in Nat
                BY <2>5, <2>6, <2>8, <3>2
            <4>2. /\ DOMAIN cut = DOMAIN clean.cut \union {p} /\ cut[p] = Ba!Max(old) + 1
                  /\ \A q \in DOMAIN clean.cut : q # p => cut[q] = clean.cut[q]
                BY <3>2 DEF cut
            <4>. QED  BY <2>2, <4>1, <4>2
        <3>. QED  BY <3>1, <3>2
    <2>10. ASSUME clean.id = identity, NEW q \in Partitions
           PROVE  /\ clean.bounds[q].first <= segments[q].start /\ clean.bounds[q].end <= Ba!End(q)
                  /\ q \in DOMAIN clean.cut => q \notin clean.todo
                  /\ q \notin clean.todo => ScanTold(q)
        BY <2>0, <2>10 DEF BackendsInv, ScanInv
    <2>11. \A q \in Partitions : \A o : Ba!Offset(q, o)' = Ba!Offset(q, o) /\ Ba!End(q)' = Ba!End(q)
        BY <2>0 DEF Ba!Offset, Ba!End
    <2>12. ASSUME clean.id = identity, NEW q \in Partitions, q # p, q \notin clean.todo
           PROVE  ScanTold(q)'
        <3>1. ScanTold(q)
            BY <2>10, <2>12
        <3>2. (q \in DOMAIN cut <=> q \in DOMAIN clean.cut) /\ (q \in DOMAIN clean.cut => cut[q] = clean.cut[q])
            BY <2>9, <2>12
        <3>3. clean.live \subseteq live
            BY DEF live
        <3>4. /\ \A o \in segments[q].start..(clean.bounds[q].end - 1) :
                   \/ q \in DOMAIN cut /\ o < cut[q]
                   \/ /\ ~ Ba!ExpiredAt(Ba!Offset(q, o), clean.at)
                      /\ Ba!Offset(q, o).at + LogRetention \in live
              /\ q \in DOMAIN cut =>
                   /\ cut[q] <= clean.bounds[q].end
                   /\ \A o \in segments[q].start..(cut[q] - 1) : Ba!ExpiredAt(Ba!Offset(q, o), clean.at)
            BY <3>1, <3>2, <3>3 DEF ScanTold
        <3>. QED  BY <2>0, <2>3, <2>11, <3>4 DEF ScanTold, Ba!ExpiredAt
    <2>13. ASSUME clean.id = identity
           PROVE  ScanTold(p)'
        <3>1. PICK a, b, e : a = segments[p].start /\ b = clean.bounds[p].end /\ e = Ba!End(p)
            OBVIOUS
        <3>2. a \in Nat /\ b \in Nat /\ e \in Nat /\ b <= e /\ clean.bounds[p].first \in Nat /\ clean.bounds[p].first <= a
            BY <2>2, <2>4, <2>10, <2>13, <3>1, LogShape
        <3>3. \A o \in a..(b - 1) : o \in Ba!Seen(p)
            BY <2>5, <3>1, <3>2
        <3>4. \A o \in Ba!Seen(p) : o \in Nat /\ o <= b - 1
            BY <2>5, <3>1, <3>2
        <3>5. \A o \in Ba!Seen(p) : o \notin old =>
                ~ Ba!ExpiredAt(Ba!Offset(p, o), clean.at) /\ Ba!Offset(p, o).at + LogRetention \in live
            BY <2>6 DEF live
        <3>6. p \notin DOMAIN clean.cut
            BY <2>0, <2>10, <2>13
        <3>7. CASE old = {}
            <4>1. p \notin DOMAIN cut
                BY <3>6, <3>7 DEF cut
            <4>. QED  BY <2>0, <2>3, <2>11, <3>1, <3>3, <3>5, <3>7, <4>1 DEF ScanTold, Ba!ExpiredAt
        <3>8. CASE old # {}
            <4>1. PICK m \in old : m = Ba!Max(old) /\ \A o \in old : o <= m
                BY <2>8, <3>8
            <4>2. p \in DOMAIN cut /\ cut[p] = m + 1
                BY <3>8, <4>1 DEF cut
            <4>3. m \in Nat /\ m <= b - 1
                BY <2>6, <3>4
            <4>4. ASSUME NEW o \in a..(b - 1), ~ (o < m + 1)
                  PROVE  ~ Ba!ExpiredAt(Ba!Offset(p, o), clean.at) /\ Ba!Offset(p, o).at + LogRetention \in live
                <5>1. o \notin old
                    BY <3>2, <4>1, <4>3, <4>4
                <5>. QED  BY <3>3, <3>5, <5>1
            <4>5. ASSUME NEW o \in a..((m + 1) - 1)
                  PROVE  Ba!ExpiredAt(Ba!Offset(p, o), clean.at)
                <5>1. o \in Ba!Seen(p)
                    BY <3>2, <3>3, <4>3
                <5>2. o = m \/ o < m
                    BY <3>2, <4>3
                <5>3. o \in old
                    BY <1>2, <5>1, <5>2 DEF Ba!Prefix, old
                <5>. QED  BY <2>6, <5>3
            <4>6. m + 1 <= b
                BY <3>2, <4>3
            <4>. QED  BY <2>0, <2>3, <2>11, <3>1, <4>2, <4>4, <4>5, <4>6 DEF ScanTold, Ba!ExpiredAt
        <3>. QED  BY <3>7, <3>8
    <2>14. ASSUME clean.id = identity, NEW q \in Partitions
           PROVE  /\ clean.bounds[q].first <= segments'[q].start /\ clean.bounds[q].end <= Ba!End(q)'
                  /\ q \in DOMAIN cut => q \notin clean.todo \ {p}
                  /\ q \notin clean.todo \ {p} => ScanTold(q)'
        <3>1. q \in DOMAIN cut => q \notin clean.todo \ {p}
            BY <2>9, <2>10, <2>14
        <3>. QED  BY <2>0, <2>10, <2>11, <2>12, <2>13, <2>14, <3>1
    <2>15. ScanInv'
        BY <2>0, <2>2, <2>3, <2>7, <2>9, <2>14 DEF ScanInv
    <2>16. KafkaInv'
        BY <2>0, <2>4, KafkaKept DEF BackendsInv
    <2>17. DorisInv'
        BY <1>2, <2>0, <2>3, DorisKept DEF BackendsInv, Ba!ScanPartition
    <2>18. CheckpointInv'
        BY <1>2, <2>0, <2>3, <2>4, CheckpointKept DEF BackendsInv, Ba!ScanPartition, Ba!elsewhere
    <2>. QED  BY <2>4, <2>15, <2>16, <2>17, <2>18 DEF BackendsInv
<1>. QED  BY <1>1, <1>2

LEMMA ScanEndRight == ASSUME BackendsInv, Ba!ScanEnd PROVE BackendsInv'
<1>0. /\ clean.pc = "scan" /\ clean.todo = {} /\ clean.bounds = Ba!Bounds /\ clean.id = identity
      /\ segments' = segments /\ identity' = identity /\ stored' = stored /\ after' = after
    BY DEF Ba!ScanEnd, Ba!Undisturbed, Ba!elsewhere
<1>1. /\ DOMAIN clean = ScanFields /\ clean.at \in Nat /\ clean.id \in {0, 1} /\ clean.id <= identity
      /\ clean.live \subseteq Nat /\ clean.bounds \in [Partitions -> [first : Nat, end : Nat]]
      /\ \A q \in DOMAIN clean.cut : clean.cut[q] \in Nat
    BY <1>0 DEF BackendsInv, ScanInv
<1>2. \A p \in Partitions : ScanTold(p)
    BY <1>0 DEF BackendsInv, ScanInv
<1>3. CASE clean.round = 1
    <2>1. clean' = [clean EXCEPT !.pc = "delete", !.wanted = clean.cut] /\ receipts' = receipts
        BY <1>3 DEF Ba!ScanEnd
    <2>2. /\ DOMAIN clean' = ScanFields /\ clean'.pc = "delete" /\ clean'.at = clean.at /\ clean'.id = clean.id
          /\ clean'.bounds = clean.bounds /\ clean'.todo = {} /\ clean'.cut = clean.cut /\ clean'.live = clean.live
        BY <1>0, <1>1, <2>1 DEF ScanFields
    <2>3. BackendTypes /\ BackendTypes' /\ LogMoves
        BY <1>0, <2>1, CleaningTypes DEF Ba!ScanEnd
    <2>4. \A p \in Partitions : \A o : Ba!Offset(p, o)' = Ba!Offset(p, o) /\ Ba!End(p)' = Ba!End(p)
        BY <1>0 DEF Ba!Offset, Ba!End
    <2>5. \A p \in Partitions : ScanTold(p)'
        BY <1>0, <1>2, <2>2, <2>4 DEF ScanTold, Ba!ExpiredAt
    <2>6. \A p \in Partitions : clean.bounds[p].first <= segments[p].start /\ clean.bounds[p].end <= Ba!End(p)
        BY <1>0 DEF BackendsInv, ScanInv
    <2>7. ScanInv'
        BY <1>0, <1>1, <2>2, <2>4, <2>5, <2>6 DEF ScanInv
    <2>8. KafkaInv'
        BY <2>1, <2>3, KafkaKept DEF BackendsInv
    <2>9. DorisInv'
        BY <1>0, <2>1, <2>2, DorisKept DEF BackendsInv
    <2>10. CheckpointInv'
        BY <2>1, <2>2, <2>3, CheckpointKept DEF BackendsInv, Ba!ScanEnd, Ba!elsewhere
    <2>. QED  BY <2>3, <2>7, <2>8, <2>9, <2>10 DEF BackendsInv
<1>4. CASE clean.round # 1
    <2>. DEFINE r == [at |-> clean.at, next |-> Ba!NextExpiry(clean.live), ends |-> Ba!Bounds, id |-> identity]
    <2>1. clean.cut = << >> /\ clean' = [pc |-> "count", at |-> clean.at] /\ receipts' = [receipts EXCEPT !["kafka"] = r]
        BY <1>4 DEF Ba!ScanEnd, Ba!Issue
    <2>2. BackendTypes /\ BackendTypes' /\ LogMoves
        BY <1>0, <2>1, CleaningTypes DEF Ba!ScanEnd
    <2>3. receipts'["kafka"] = r /\ \A b \in {"doris", "checkpoint"} : receipts'[b] = receipts[b]
        BY <2>1, <2>2 DEF BackendTypes
    <2>4. r.at = clean.at /\ r.next = Ba!NextExpiry(clean.live) /\ r.ends = Ba!Bounds /\ r.id = identity
        OBVIOUS
    <2>. HIDE DEF r
    <2>5. ASSUME NEW p \in Partitions
          PROVE  /\ r.ends[p].end \in Nat /\ r.ends[p].end <= Ba!End(p)
                 /\ \A o \in segments[p].start..(r.ends[p].end - 1) : Ba!Covered(Ba!Offset(p, o).at + LogRetention, r)
        <3>1. r.ends[p].end = Ba!End(p) /\ Ba!End(p) \in Nat /\ clean.bounds[p].end = Ba!End(p)
            BY <1>0, <2>2, <2>4, LogShape DEF Ba!Bounds
        <3>2. p \notin DOMAIN clean.cut
            BY <2>1
        <3>3. ASSUME NEW o \in segments[p].start..(Ba!End(p) - 1)
              PROVE  Ba!Covered(Ba!Offset(p, o).at + LogRetention, r)
            <4>1. ~ Ba!ExpiredAt(Ba!Offset(p, o), clean.at) /\ Ba!Offset(p, o).at + LogRetention \in clean.live
                BY <1>2, <3>1, <3>2, <3>3 DEF ScanTold
            <4>2. r.next # Unset /\ r.next <= Ba!Offset(p, o).at + LogRetention
                BY <1>1, <2>4, <4>1, NextIs
            <4>3. Ba!Offset(p, o).at + LogRetention > clean.at
                <5>1. Ba!Offset(p, o).at + LogRetention \in Nat
                    BY <1>1, <4>1
                <5>. QED  BY <1>1, <4>1, <5>1 DEF Ba!ExpiredAt
            <4>. QED  BY <2>4, <4>2, <4>3 DEF Ba!Covered
        <3>. QED  BY <3>1, <3>3
    <2>6. \A p \in Partitions : \A o : Ba!Offset(p, o)' = Ba!Offset(p, o) /\ Ba!End(p)' = Ba!End(p)
        BY <1>0 DEF Ba!Offset, Ba!End
    <2>7. KafkaInv'
        <3>1. identity \in {0, 1} /\ identity <= identity
            BY <2>2 DEF BackendTypes
        <3>. QED  BY <1>0, <2>3, <2>4, <2>5, <2>6, <3>1 DEF KafkaInv, Ba!Covered
    <2>8. clean'.pc = "count" /\ clean'.at = clean.at /\ DOMAIN clean' = {"pc", "at"}
        BY <2>1
    <2>9. ScanInv'
        BY <2>8 DEF ScanInv
    <2>10. DorisInv'
        BY <1>0, <1>1, <2>3, <2>8 DEF BackendsInv, DorisInv, Ba!Covered
    <2>11. CheckpointInv'
        BY <2>2, <2>3, <2>8, CheckpointKept DEF BackendsInv, Ba!ScanEnd, Ba!elsewhere
    <2>. QED  BY <2>2, <2>7, <2>9, <2>10, <2>11 DEF BackendsInv
<1>. QED  BY <1>3, <1>4

LEMMA TwoNumbers ==
    ASSUME NEW a \in Int, NEW b \in Int
    PROVE  Ba!Max({a, b}) = (IF a >= b THEN a ELSE b) /\ Ba!Min({a, b}) = (IF a <= b THEN a ELSE b)
<1>1. PICK m : m = IF a >= b THEN a ELSE b
    OBVIOUS
<1>2. PICK n : n = IF a <= b THEN a ELSE b
    OBVIOUS
<1>3. m \in {a, b} /\ (\A y \in {a, b} : m >= y) /\ \A x \in {a, b} : (\A y \in {a, b} : x >= y) => x = m
    BY <1>1
<1>4. n \in {a, b} /\ (\A y \in {a, b} : n <= y) /\ \A x \in {a, b} : (\A y \in {a, b} : x <= y) => x = n
    BY <1>2
<1>5. Ba!Max({a, b}) = m
    BY <1>3 DEF Ba!Max
<1>6. Ba!Min({a, b}) = n
    BY <1>4 DEF Ba!Min
<1>. QED  BY <1>1, <1>2, <1>5, <1>6

\* A deletion before offset o takes the records before it, as far as there are any.
LEMMA Deletes ==
    ASSUME BackendTypes, NEW p \in Partitions, NEW o \in Nat
    PROVE  \E n \in 0..Len(segments[p].rows) :
             /\ Ba!DeleteTo(p, o) = [start |-> segments[p].start + n,
                                     rows |-> SubSeq(segments[p].rows, n + 1, Len(segments[p].rows))]
             /\ n > 0 => segments[p].start + n <= o
<1>. DEFINE a == segments[p].start
            l == Len(segments[p].rows)
            n == Ba!Min({Ba!Max({o - a, 0}), l})
<1>1. a \in Nat /\ l \in Nat
    BY LogShape
<1>. HIDE DEF a, l
<1>2. PICK k : k = IF o - a >= 0 THEN o - a ELSE 0
    OBVIOUS
<1>3. Ba!Max({o - a, 0}) = k /\ k \in Nat
    BY <1>1, <1>2, TwoNumbers
<1>4. n = IF k <= l THEN k ELSE l
    BY <1>1, <1>3, TwoNumbers
<1>5. n \in 0..l /\ (n > 0 => a + n <= o)
    BY <1>1, <1>2, <1>3, <1>4
<1>6. Ba!DeleteTo(p, o) = [start |-> a + n, rows |-> SubSeq(segments[p].rows, n + 1, l)]
    BY DEF Ba!DeleteTo, a, l
<1>. HIDE DEF n
<1>. QED  BY <1>5, <1>6 DEF a, l

LEMMA DeletePrefixesRight == ASSUME BackendsInv, Ba!DeletePrefixes PROVE BackendsInv'
<1>0. /\ clean.pc = "delete" /\ receipts' = receipts /\ stored' = stored /\ after' = after /\ UNCHANGED Ba!elsewhere
      /\ segments' = [p \in Partitions |-> IF p \in DOMAIN clean.cut THEN Ba!DeleteTo(p, clean.cut[p]) ELSE segments[p]]
      /\ clean' = [clean EXCEPT !.pc = "rescan"]
    BY DEF Ba!DeletePrefixes
<1>1. /\ DOMAIN clean = ScanFields /\ clean.at \in Nat /\ clean.id \in {0, 1} /\ clean.id <= identity
      /\ \A q \in DOMAIN clean.cut : clean.cut[q] \in Nat
    BY <1>0 DEF BackendsInv, ScanInv
<1>2. BackendTypes /\ identity' = identity
    BY <1>0 DEF BackendsInv, Ba!elsewhere
<1>3. ASSUME NEW p \in Partitions
      PROVE  /\ segments'[p] \in [start : Nat, rows : Seq(Logged)]
             /\ segments[p].start <= segments'[p].start /\ Ba!End(p) <= Ba!End(p)'
             /\ \A o \in segments'[p].start..(Ba!End(p) - 1) : Ba!Offset(p, o)' = Ba!Offset(p, o)
    <2>1. CASE p \in DOMAIN clean.cut
        <3>1. PICK n \in 0..Len(segments[p].rows) :
                segments'[p] = [start |-> segments[p].start + n,
                                rows |-> SubSeq(segments[p].rows, n + 1, Len(segments[p].rows))]
            BY <1>0, <1>1, <1>2, <2>1, Deletes
        <3>2. segments'[p].start = segments[p].start + n /\ Left(segments[p].rows, n, segments'[p].rows)
            <4>1. segments'[p].start = segments[p].start + n
                BY <3>1
            <4>2. segments'[p].rows = SubSeq(segments[p].rows, n + 1, Len(segments[p].rows))
                BY <3>1
            <4>. QED  BY <4>1, <4>2 DEF Left
        <3>3. /\ segments'[p].start \in Nat /\ segments'[p].rows \in Seq(Logged)
              /\ segments[p].start <= segments'[p].start /\ Ba!End(p) <= Ba!End(p)'
              /\ \A o \in segments'[p].start..(Ba!End(p) - 1) : Ba!Offset(p, o)' = Ba!Offset(p, o)
            BY <1>2, <3>2, PartMoves
        <3>. QED  BY <3>1, <3>3
    <2>2. CASE p \notin DOMAIN clean.cut
        <3>1. segments'[p] = segments[p]
            BY <1>0, <2>2
        <3>. QED  BY <1>2, <3>1, LogShape DEF BackendTypes, Ba!End, Ba!Offset
    <2>. QED  BY <2>1, <2>2
<1>4. LogMoves
    BY <1>2, <1>3 DEF LogMoves
<1>5. segments' \in [Partitions -> [start : Nat, rows : Seq(Logged)]]
    BY <1>0, <1>3
<1>6. BackendTypes'
    BY <1>0, <1>2, <1>5 DEF BackendTypes, Ba!elsewhere
<1>7. /\ DOMAIN clean' = ScanFields /\ clean'.pc = "rescan" /\ clean'.at = clean.at /\ clean'.id = clean.id
      /\ clean'.cut = clean.cut
    BY <1>0, <1>1 DEF ScanFields
<1>8. ScanInv'
    BY <1>1, <1>2, <1>7 DEF ScanInv
<1>9. KafkaInv'
    BY <1>0, <1>2, <1>4, <1>6, KafkaKept DEF BackendsInv
<1>10. DorisInv'
    BY <1>0, <1>7, DorisKept DEF BackendsInv
<1>11. CheckpointInv'
    BY <1>0, <1>2, <1>7, CheckpointKept DEF BackendsInv, Ba!DeletePrefixes, Ba!elsewhere
<1>. QED  BY <1>6, <1>8, <1>9, <1>10, <1>11 DEF BackendsInv

\* What is deleted of the topic that was scanned had expired.
LEMMA OnlyExpired == ASSUME BackendsInv PROVE Ba!DeleteStep
<1>0. SUFFICES ASSUME Ba!DeletePrefixes, clean.id = identity, NEW p \in Partitions, NEW row \in Ba!ToSet(segments[p].rows)
               PROVE  Ba!ExpiredAt(row, clean.at) \/ row \in Ba!ToSet(segments'[p].rows)
    BY DEF Ba!DeleteStep
<1>1. PICK i \in 1..Len(segments[p].rows) : row = segments[p].rows[i]
    <2>1. DOMAIN segments[p].rows = 1..Len(segments[p].rows)
        BY LogShape DEF BackendsInv
    <2>. QED  BY <2>1 DEF Ba!ToSet
<1>2. /\ clean.pc = "delete"
      /\ segments'[p] = IF p \in DOMAIN clean.cut THEN Ba!DeleteTo(p, clean.cut[p]) ELSE segments[p]
    BY <1>0 DEF Ba!DeletePrefixes
<1>3. BackendTypes /\ (p \in DOMAIN clean.cut => clean.cut[p] \in Nat) /\ ScanTold(p)
    BY <1>0, <1>2 DEF BackendsInv, ScanInv
<1>4. segments[p].start \in Nat /\ segments[p].rows \in Seq(Logged) /\ Len(segments[p].rows) \in Nat
    BY <1>3, LogShape
<1>5. CASE p \notin DOMAIN clean.cut
    BY <1>1, <1>2, <1>4, <1>5 DEF Ba!ToSet
<1>6. CASE p \in DOMAIN clean.cut
    <2>1. PICK n \in 0..Len(segments[p].rows) :
            /\ segments'[p] = [start |-> segments[p].start + n,
                                rows |-> SubSeq(segments[p].rows, n + 1, Len(segments[p].rows))]
            /\ n > 0 => segments[p].start + n <= clean.cut[p]
        BY <1>2, <1>3, <1>6, Deletes
    <2>2. CASE i <= n
        <3>. DEFINE o == segments[p].start + i - 1
        <3>0. PICK a, c : a = segments[p].start /\ c = clean.cut[p] /\ a \in Nat /\ c \in Nat /\ a + i <= c
            <4>1. n \in Nat /\ n > 0 /\ segments[p].start + n <= clean.cut[p]
                BY <1>4, <2>1, <2>2
            <4>. QED  BY <1>3, <1>4, <1>6, <2>2, <4>1
        <3>1. o \in segments[p].start..(clean.cut[p] - 1) /\ o - segments[p].start + 1 = i
            BY <3>0
        <3>2. Ba!ExpiredAt(Ba!Offset(p, o), clean.at)
            BY <1>3, <1>6, <3>1 DEF ScanTold
        <3>. QED  BY <1>1, <3>1, <3>2 DEF Ba!Offset
    <2>3. CASE i > n
        <3>1. /\ segments'[p].rows \in Seq(Logged) /\ Len(segments'[p].rows) >= Len(segments[p].rows) - n
              /\ \A j \in 1..(Len(segments[p].rows) - n) : segments'[p].rows[j] = segments[p].rows[n + j]
            <4>1. Left(segments[p].rows, n, segments'[p].rows)
                BY <2>1 DEF Left
            <4>. QED  BY <1>4, <4>1, WhatIsLeft
        <3>2. i - n \in 1..(Len(segments[p].rows) - n) /\ n + (i - n) = i
            BY <1>4, <2>3
        <3>3. Len(segments'[p].rows) \in Nat /\ DOMAIN segments'[p].rows = 1..Len(segments'[p].rows)
            BY <3>1
        <3>4. i - n \in DOMAIN segments'[p].rows
            BY <1>4, <3>1, <3>2, <3>3
        <3>. QED  BY <1>1, <3>1, <3>2, <3>4 DEF Ba!ToSet
    <2>. QED  BY <1>4, <2>2, <2>3
<1>. QED  BY <1>5, <1>6

LEMMA RowsRight == ASSUME BackendsInv, Ba!CountRows \/ Ba!DeleteRows PROVE BackendsInv'
<1>0. /\ clean.pc \in {"count", "purge"} /\ receipts' = receipts /\ after' = after /\ stored' \subseteq stored
      /\ segments' = segments /\ UNCHANGED Ba!elsewhere /\ present' = present
      /\ \E pc \in {"verify", "purge"} : clean' = [clean EXCEPT !.pc = pc]
    BY DEF Ba!CountRows, Ba!DeleteRows
<1>1. {"pc", "at"} \subseteq DOMAIN clean /\ clean.at \in Nat
    BY <1>0 DEF BackendsInv, DorisInv
<1>2. clean'.pc \in {"verify", "purge"} /\ clean'.at = clean.at /\ DOMAIN clean' = DOMAIN clean
    BY <1>0, <1>1
<1>3. BackendTypes /\ BackendTypes' /\ LogMoves
    BY <1>0, CleaningTypes
<1>4. ScanInv'
    BY <1>2 DEF ScanInv
<1>5. KafkaInv'
    BY <1>0, <1>3, KafkaKept DEF BackendsInv
<1>6. DorisInv'
    BY <1>0, <1>1, <1>2 DEF BackendsInv, DorisInv, Ba!Covered
<1>7. CheckpointInv'
    BY <1>0, <1>2, <1>3, CheckpointKept DEF BackendsInv, Ba!elsewhere
<1>. QED  BY <1>3, <1>4, <1>5, <1>6, <1>7 DEF BackendsInv

LEMMA VerifyRowsRight == ASSUME BackendsInv, Ba!VerifyRows PROVE BackendsInv'
<1>. DEFINE S == {row.at + LogRetention : row \in stored}
            r == [at |-> clean.at, next |-> Ba!NextExpiry(S)]
<1>0. /\ clean.pc = "verify" /\ receipts' = [receipts EXCEPT !["doris"] = r] /\ stored' = stored
      /\ segments' = segments /\ UNCHANGED Ba!elsewhere /\ present' = present
      /\ clean' = [clean EXCEPT !.pc = "quiet"] /\ \A row \in stored : ~ Ba!ExpiredAt(row, clean.at)
    BY DEF Ba!VerifyRows, Ba!Issue, Ba!Verified, Ba!Overdue
<1>1. {"pc", "at"} \subseteq DOMAIN clean /\ clean.at \in Nat
    BY <1>0 DEF BackendsInv, DorisInv
<1>2. clean'.pc = "quiet" /\ clean'.at = clean.at /\ DOMAIN clean' = DOMAIN clean
    BY <1>0, <1>1
<1>3. BackendTypes /\ BackendTypes' /\ LogMoves
    BY <1>0, CleaningTypes
<1>4. receipts'["doris"] = r /\ receipts'["kafka"] = receipts["kafka"] /\ receipts'["checkpoint"] = receipts["checkpoint"]
    BY <1>0, <1>3 DEF BackendTypes
<1>5. S \subseteq Nat /\ \A row \in stored : row.at \in Nat /\ row.at + LogRetention \in S
    BY <1>3, BackendsConstants DEF BackendTypes, Logged
<1>6. r.at = clean.at /\ r.next = Ba!NextExpiry(S)
    OBVIOUS
<1>. HIDE DEF r, S
<1>7. ASSUME NEW row \in stored
      PROVE  Ba!Covered(row.at + LogRetention, r)
    <2>1. r.next # Unset /\ r.next <= row.at + LogRetention
        BY <1>5, <1>6, NextIs
    <2>2. row.at + LogRetention > clean.at
        BY <1>0, <1>1, <1>5, BackendsConstants DEF Ba!ExpiredAt
    <2>. QED  BY <1>6, <2>1, <2>2 DEF Ba!Covered
<1>8. ScanInv'
    BY <1>2 DEF ScanInv
<1>9. KafkaInv'
    BY <1>3, <1>4, KafkaKept DEF BackendsInv
<1>10. DorisInv'
    BY <1>0, <1>1, <1>2, <1>4, <1>7 DEF DorisInv, Ba!Covered
<1>11. CheckpointInv'
    BY <1>0, <1>2, <1>3, <1>4, CheckpointKept DEF BackendsInv, Ba!elsewhere
<1>. QED  BY <1>3, <1>8, <1>9, <1>10, <1>11 DEF BackendsInv

\* The steps with the checkpoint roots.
LEMMA QuietRight == ASSUME BackendsInv, Ba!Quiet PROVE BackendsInv'
<1>0. /\ clean.pc = "quiet" /\ receipts' = receipts /\ stored' = stored /\ after' = after
      /\ segments' = segments /\ UNCHANGED Ba!elsewhere /\ present' = present
      /\ clean' = [pc |-> "roots", at |-> clean.at, starts |-> starts]
      /\ engine = Unset /\ present \subseteq DOMAIN Roots
    BY DEF Ba!Quiet, Ba!Settled
<1>1. clean.at \in Nat
    BY <1>0 DEF BackendsInv, DorisInv
<1>2. clean'.pc = "roots" /\ clean'.at = clean.at /\ clean'.starts = starts
    BY <1>0
<1>3. BackendTypes /\ BackendTypes' /\ LogMoves
    BY <1>0, CleaningTypes
<1>4. ScanInv'
    BY <1>2 DEF ScanInv
<1>5. KafkaInv'
    BY <1>0, <1>3, KafkaKept DEF BackendsInv
<1>6. DorisInv'
    BY <1>0, <1>1, <1>2 DEF BackendsInv, DorisInv, Ba!Covered
<1>7. CheckpointTold'
    BY <1>0, <1>3, CheckpointReceiptKept DEF BackendsInv, CheckpointInv, Ba!elsewhere
<1>8. CheckpointInv'
    <2>1. starts \in Nat /\ starts <= starts
        BY <1>3 DEF BackendTypes
    <2>. QED  BY <1>0, <1>2, <1>7, <2>1 DEF CheckpointInv, Ba!elsewhere
<1>. QED  BY <1>3, <1>4, <1>5, <1>6, <1>8 DEF BackendsInv

LEMMA DeleteRootsRight == ASSUME BackendsInv, Ba!DeleteRoots PROVE BackendsInv'
<1>0. /\ clean.pc = "roots" /\ receipts' = receipts /\ stored' = stored /\ after' = after
      /\ segments' = segments /\ UNCHANGED Ba!elsewhere /\ present' = present \ Ba!Aged
      /\ clean' = [pc |-> "quiet again", at |-> clean.at, left |-> present \ Ba!Aged, starts |-> clean.starts]
    BY DEF Ba!DeleteRoots
<1>1. clean.at \in Nat
    BY <1>0 DEF BackendsInv, DorisInv
<1>2. clean'.pc = "quiet again" /\ clean'.at = clean.at /\ clean'.starts = clean.starts /\ clean'.left = present \ Ba!Aged
    BY <1>0
<1>3. BackendTypes /\ BackendTypes' /\ LogMoves
    BY <1>0, CleaningTypes
<1>4. ScanInv'
    BY <1>2 DEF ScanInv
<1>5. KafkaInv'
    BY <1>0, <1>3, KafkaKept DEF BackendsInv
<1>6. DorisInv'
    BY <1>0, <1>1, <1>2 DEF BackendsInv, DorisInv, Ba!Covered
<1>7. CheckpointTold'
    BY <1>0, <1>3, CheckpointReceiptKept DEF BackendsInv, CheckpointInv, Ba!elsewhere
<1>8. starts' = starts /\ engine' = engine
    BY <1>0 DEF Ba!elsewhere
<1>9. clean.starts \in Nat /\ clean.starts <= starts
    BY <1>0 DEF BackendsInv, CheckpointInv
<1>10. ASSUME starts = clean.starts
       PROVE  /\ engine = Unset /\ present \ Ba!Aged \subseteq DOMAIN Roots
              /\ \A d \in present \ Ba!Aged : Roots[d] + LogRetention > clean.at
    <2>1. engine = Unset /\ present \subseteq DOMAIN Roots
        BY <1>0, <1>10 DEF BackendsInv, CheckpointInv
    <2>2. \A d \in DOMAIN Roots : d \notin Ba!Aged => Roots[d] + LogRetention > clean.at
        BY <1>1, BackendsConstants DEF Ba!Aged
    <2>. QED  BY <2>1, <2>2
<1>11. CheckpointInv'
    BY <1>0, <1>2, <1>7, <1>8, <1>9, <1>10 DEF CheckpointInv
<1>. QED  BY <1>3, <1>4, <1>5, <1>6, <1>11 DEF BackendsInv

LEMMA QuietAgainRight == ASSUME BackendsInv, Ba!QuietAgain PROVE BackendsInv'
<1>. DEFINE S == {Roots[d] + LogRetention : d \in clean.left}
            r == [at |-> clean.at, next |-> Ba!NextExpiry(S), from |-> clean.starts, to |-> starts]
<1>0. /\ clean.pc = "quiet again" /\ receipts' = [receipts EXCEPT !["checkpoint"] = r] /\ stored' = stored
      /\ segments' = segments /\ UNCHANGED Ba!elsewhere /\ present' = present /\ after' = after
      /\ clean' = Ba!Idle /\ engine = Unset /\ present \subseteq DOMAIN Roots
    BY DEF Ba!QuietAgain, Ba!Issue, Ba!StillSettled, Ba!Settled
<1>1. clean'.pc = "idle"
    BY <1>0 DEF Ba!Idle
<1>3. BackendTypes /\ BackendTypes' /\ LogMoves
    BY <1>0, CleaningTypes
<1>4. receipts'["checkpoint"] = r /\ receipts'["kafka"] = receipts["kafka"] /\ receipts'["doris"] = receipts["doris"]
    BY <1>0, <1>3 DEF BackendTypes
<1>5. ScanInv'
    BY <1>1 DEF ScanInv
<1>6. KafkaInv'
    BY <1>3, <1>4, KafkaKept DEF BackendsInv
<1>7. DorisInv'
    BY <1>0, <1>1, <1>4, DorisKept DEF BackendsInv
<1>8. r.at = clean.at /\ r.next = Ba!NextExpiry(S) /\ r.from = clean.starts /\ r.to = starts
    OBVIOUS
<1>9. starts \in Nat /\ starts' = starts /\ engine' = engine
    BY <1>0, <1>3 DEF BackendTypes, Ba!elsewhere
<1>10. ASSUME clean.starts = starts, NEW d \in present
       PROVE  Ba!Covered(Roots[d] + LogRetention, r)
    <2>1. /\ present \subseteq clean.left /\ clean.left \subseteq DOMAIN Roots
          /\ \A c \in clean.left : Roots[c] + LogRetention > clean.at
        BY <1>0, <1>10 DEF BackendsInv, CheckpointInv
    <2>2. S \subseteq Nat /\ Roots[d] + LogRetention \in S
        BY <2>1, BackendsConstants
    <2>. HIDE DEF S
    <2>3. Ba!NextExpiry(S) # Unset /\ Ba!NextExpiry(S) <= Roots[d] + LogRetention
        BY <2>2, NextIs
    <2>. QED  BY <1>8, <2>1, <2>3 DEF Ba!Covered
<1>. HIDE DEF r
<1>11. CheckpointTold'
    <2>1. starts <= starts
        BY <1>9
    <2>. QED  BY <1>0, <1>4, <1>8, <1>9, <1>10, <2>1 DEF CheckpointTold, Ba!Covered
<1>12. CheckpointInv'
    BY <1>1, <1>11 DEF CheckpointInv
<1>. QED  BY <1>3, <1>5, <1>6, <1>7, <1>12 DEF BackendsInv

LEMMA BackendsStarts == ASSUME Ba!Init PROVE BackendsInv
<1>1. BackendTypes
    <2>1. << >> \in Seq(Logged)
        OBVIOUS
    <2>. QED  BY <2>1 DEF Ba!Init, BackendTypes, Ba!NoReceipts
<1>2. clean.pc = "idle" /\ \A b \in {"kafka", "doris", "checkpoint"} : receipts[b] = Unset
    BY DEF Ba!Init, Ba!Idle, Ba!NoReceipts
<1>. QED  BY <1>1, <1>2 DEF BackendsInv, ScanInv, KafkaInv, DorisInv, CheckpointInv, CheckpointTold

LEMMA BackendsStep == ASSUME BackendsInv, [Ba!Next]_(Ba!vars) PROVE BackendsInv'
<1>1. CASE UNCHANGED Ba!vars
    <2>1. BackendTypes /\ BackendTypes'
        BY <1>1 DEF BackendsInv, BackendTypes, Ba!vars
    <2>2. LogMoves
        BY <1>1, <2>1, LogRests DEF Ba!vars
    <2>. QED  BY <1>1, <2>1, <2>2, BesideKept DEF Ba!vars
<1>2. CASE Ba!Clean
    BY <1>2, BackendsBegin, ScanEndRight, DeletePrefixesRight, RescanRight, RowsRight, VerifyRowsRight, QuietRight,
       DeleteRootsRight, QuietAgainRight, ScanRight DEF Ba!Clean
<1>. QED  BY <1>1, <1>2, RefuseRight, ProduceRight, BrokerRight, RecreateRight, EngineRight DEF Ba!Next

LEMMA BackendsImplies == ASSUME BackendsInv PROVE Ba!ReceiptCovers
<1>1. ASSUME receipts["kafka"] # Unset, receipts["kafka"].id = identity, NEW p \in Partitions,
             NEW o \in segments[p].start..(receipts["kafka"].ends[p].end - 1)
      PROVE  Ba!Covered(Ba!Offset(p, o).at + LogRetention, receipts["kafka"])
    BY <1>1 DEF BackendsInv, KafkaInv
<1>2. ASSUME receipts["doris"] # Unset, NEW row \in stored \ after
      PROVE  Ba!Covered(row.at + LogRetention, receipts["doris"])
    BY <1>2 DEF BackendsInv, DorisInv
<1>3. ASSUME receipts["checkpoint"] # Unset, starts = receipts["checkpoint"].to
      PROVE  /\ engine = Unset
             /\ \A d \in present : d \in DOMAIN Roots /\ (receipts["checkpoint"].from = receipts["checkpoint"].to =>
                    Ba!Covered(Roots[d] + LogRetention, receipts["checkpoint"]))
    BY <1>3 DEF BackendsInv, CheckpointInv, CheckpointTold
<1>. QED  BY <1>1, <1>2, <1>3 DEF Ba!ReceiptCovers

-----------------------------------------------------------------------------
(* Machines. The controller's record is right for the state of the machines *)
(* and for what it has been shown: a command goes only to a node that it is *)
(* known to run nothing unknown, and what it has passed while it stops is   *)
(* off.                                                                     *)

PowerStates == {"off", "coming", "on", "going"}
StopCommands == {"cancel", "probe", "down", "halt", "gone", "soft", "softgone"}
Commands == StopCommands \union {"alloff", "start", "wait", "input", "look", "adopt", "work", "accept",
                                 "leave", "empty", "over"}
Controllers ==
    [phase : {"start", "job", "stop"}, at : Commands, node : Ma!Nodes, owned : SUBSET Ma!Nodes,
     started : SUBSET Ma!Nodes, ready : SUBSET Ma!Nodes, foreign : SUBSET Ma!Nodes,
     uncertain : SUBSET Ma!Nodes, inflight : SUBSET Ma!Nodes, cancels : SUBSET Ma!Nodes,
     accepted : SUBSET Ma!Nodes, stopping : BOOLEAN, errors : BOOLEAN, failed : BOOLEAN]

Others == {"phase", "owned", "started", "ready", "foreign", "uncertain", "inflight", "cancels", "accepted",
           "stopping", "errors", "failed"}

MachineTypes ==
    /\ vm \in [Ma!Nodes -> PowerStates]
    /\ unknown \subseteq Ma!Nodes /\ busy \subseteq Ma!Nodes /\ noticed \subseteq Ma!Nodes

\* A controller's record, whatever it is at: its own starts are the only ones it would stop
\* softly, and what it owns for certain does not come up by itself.
Sober(c, v, s) ==
    /\ c \in Controllers
    /\ c.started \cap s \subseteq c.foreign
    /\ c.phase # "start" => c.started = {}
    /\ \A n \in c.owned \ c.uncertain : v[n] # "coming"

\* While it stops: the nodes it has passed are off, unless it says that something is left.
Passed(c, n) == c.at = "over" \/ n > c.node
Stops(c, v, s) ==
    /\ c.at \in StopCommands \union {"over"}
    /\ c.at = "cancel" => c.node = Ma!Data
    /\ c.at \in {"down", "halt", "soft"} => c.node \notin s
    /\ Ma!Certain(c) => \A n \in c.owned : Passed(c, n) => v[n] = "off"

\* Before it stops: a start has found every machine off, and has the node with the data alone
\* until the input is known; the others own what they have looked at, and found on.
Alone(c) == c.at \in {"input", "soft", "softgone", "empty"} \/ (c.at = "wait" /\ c.node = Ma!Data)
Ahead(c, v, s) ==
    /\ c.at \notin {"cancel", "probe", "down", "halt", "gone"}
    /\ c.uncertain = {} /\ ~ c.failed
    /\ c.at \in {"alloff", "start", "wait", "soft", "softgone"} => c.phase = "start"
    /\ c.at \in {"look", "adopt"} => c.phase = "job"
    /\ c.at \in {"accept", "leave"} => c.phase = "stop"
    /\ c.at \in {"alloff", "input", "soft", "softgone", "empty", "adopt", "leave"} => c.node = Ma!Data
    /\ c.at \in {"input", "work", "empty"} => c.phase \in {"start", "job"}
    /\ c.phase = "start" /\ c.at # "alloff" => s = {}
    /\ c.at = "alloff" \/ (c.at = "start" /\ c.node = Ma!Data) => c.owned = {}
    /\ c.phase = "start" /\ Alone(c) => c.owned = {Ma!Data}
    /\ c.phase = "start" /\ c.at = "empty" => v[Ma!Data] = "off"
    /\ c.at \in {"look", "adopt"} =>
         \A n \in Ma!Nodes : n < c.node \/ c.at = "adopt" => v[n] = "on"
    /\ c.at \in {"accept", "leave"} => \A n \in c.accepted : v[n] = "on"

Steered(c, v, s) ==
    /\ Sober(c, v, s)
    /\ c.stopping => Stops(c, v, s)
    /\ ~ c.stopping => Ahead(c, v, s)

Watched ==
    /\ MachineTypes
    /\ \A n \in noticed : n \in unknown /\ vm[n] = "on"
    /\ \A n \in busy : vm[n] \in {"on", "going"}

Told ==
    /\ statement.scope \subseteq Ma!Nodes
    /\ ctl # Ma!Idle => statement = Ma!Off /\ Steered(ctl, vm, noticed)
    /\ ctl = Ma!Idle => Ma!ReceiptHolds

MachinesInv == Watched /\ Told

LEMMA NodesAre == LastNode \in Nat /\ LastNode > 0 /\ Ma!Nodes = 1..LastNode /\ Ma!Data \in Ma!Nodes /\ 1 \in Ma!Nodes
  BY ProgramsAssumption DEF Ma!MachinesAssumption, Ma!Nodes, Ma!Data

LEMMA AfterTo ==
    ASSUME NEW c, NEW v, NEW s, Sober(c, v, s), NEW a \in Commands, NEW n \in Ma!Nodes
    PROVE  /\ Sober(Ma!To(c, a, n), v, s)
           /\ Ma!To(c, a, n).at = a
           /\ Ma!To(c, a, n).node = n
           /\ \A f \in Others : Ma!To(c, a, n)[f] = c[f]
<1>. DEFINE d == Ma!To(c, a, n)
<1>1. /\ d \in Controllers /\ d.at = a /\ d.node = n
      /\ d.phase = c.phase /\ d.owned = c.owned /\ d.started = c.started
      /\ d.uncertain = c.uncertain /\ d.accepted = c.accepted /\ d.foreign = c.foreign
      /\ d.stopping = c.stopping /\ d.errors = c.errors /\ d.failed = c.failed
      /\ d.ready = c.ready /\ d.inflight = c.inflight /\ d.cancels = c.cancels
  BY DEF Ma!To, Sober, Controllers
<1>. QED  BY <1>1 DEF Sober, Others

LEMMA AtTheEnd ==
    ASSUME NEW c, NEW v, NEW s, Sober(c, v, s), c.stopping, c.at \in {"probe", "cancel"}, c.node = Ma!Data
    PROVE  Steered(c, v, s)
<1>1. ASSUME NEW n \in c.owned PROVE ~ Passed(c, n)
  <2>1. c.owned \subseteq Ma!Nodes
    BY DEF Sober, Controllers
  <2>2. n \in Nat /\ n <= LastNode /\ LastNode \in Nat
    BY <2>1, NodesAre
  <2>. QED  BY <2>2 DEF Passed, Ma!Data
<1>2. Stops(c, v, s)
    BY <1>1 DEF Stops, StopCommands
<1>. QED  BY <1>2 DEF Steered

LEMMA StoppingRight ==
    ASSUME NEW c, NEW v, NEW s, Sober(c, v, s)
    PROVE  Steered(Ma!Stopping(c), v, s)
<1>1. ASSUME NEW a \in {"probe", "cancel"}
      PROVE  Steered([Ma!To(c, a, Ma!Data) EXCEPT !.cancels = c.inflight, !.stopping = TRUE, !.errors = FALSE], v, s)
  <2>. DEFINE t == Ma!To(c, a, Ma!Data)
              d == [t EXCEPT !.cancels = c.inflight, !.stopping = TRUE, !.errors = FALSE]
  <2>1. a \in Commands
    BY DEF Commands, StopCommands
  <2>2. Sober(t, v, s) /\ t.at = a /\ t.node = Ma!Data
    BY <2>1, AfterTo, NodesAre
  <2>3. c.inflight \subseteq Ma!Nodes
    BY DEF Sober, Controllers
  <2>4. Sober(d, v, s) /\ d.at = a /\ d.node = Ma!Data /\ d.stopping
    BY <2>2, <2>3 DEF Sober, Controllers
  <2>. QED  BY <2>4, AtTheEnd
<1>. QED  BY <1>1 DEF Ma!Stopping

LEMMA NextStopRight ==
    ASSUME NEW c, NEW v, NEW s, Sober(c, v, s), c.stopping, NEW n \in Ma!Nodes,
           Ma!Certain(c) => \A m \in c.owned : m >= n => v[m] = "off"
    PROVE  Steered(Ma!NextStop(c, n), v, s)
<1>1. ASSUME n = 1 PROVE Steered(Ma!NextStop(c, n), v, s)
  <2>. DEFINE d == Ma!To(c, "over", Ma!Data)
  <2>1. "over" \in Commands
    BY DEF Commands
  <2>2. Sober(d, v, s) /\ d.at = "over" /\ \A f \in Others : d[f] = c[f]
    BY <2>1, AfterTo, NodesAre
  <2>3. d.owned = c.owned /\ d.stopping = c.stopping /\ d.errors = c.errors /\ d.uncertain = c.uncertain
    BY <2>2 DEF Others
  <2>4. d.owned \subseteq Ma!Nodes
    BY <2>2 DEF Sober, Controllers
  <2>5. \A m \in d.owned : m >= n
    BY <1>1, <2>4, NodesAre
  <2>6. Ma!Certain(d) => \A m \in d.owned : v[m] = "off"
    BY <2>3, <2>5 DEF Ma!Certain
  <2>7. Stops(d, v, s)
    BY <2>2, <2>6 DEF Stops
  <2>8. d = Ma!NextStop(c, n)
    BY <1>1 DEF Ma!NextStop, Ma!Over
  <2>. QED  BY <2>2, <2>3, <2>7, <2>8 DEF Steered
<1>2. ASSUME n # 1 PROVE Steered(Ma!NextStop(c, n), v, s)
  <2>. DEFINE d == Ma!To(c, "probe", n - 1)
  <2>1. "probe" \in Commands /\ n - 1 \in Ma!Nodes
    BY <1>2, NodesAre DEF Commands, StopCommands
  <2>2. Sober(d, v, s) /\ d.at = "probe" /\ d.node = n - 1 /\ \A f \in Others : d[f] = c[f]
    BY <2>1, AfterTo
  <2>3. d.owned = c.owned /\ d.stopping = c.stopping /\ d.errors = c.errors /\ d.uncertain = c.uncertain
    BY <2>2 DEF Others
  <2>4. ASSUME NEW m \in d.owned, Passed(d, m) PROVE m >= n
    <3>1. m \in Ma!Nodes
      BY <2>2 DEF Sober, Controllers
    <3>2. m > n - 1
      BY <2>2, <2>4 DEF Passed
    <3>. QED  BY <3>1, <3>2, NodesAre
  <2>5. Ma!Certain(d) => \A m \in d.owned : Passed(d, m) => v[m] = "off"
    BY <2>3, <2>4 DEF Ma!Certain
  <2>6. Stops(d, v, s)
    BY <2>2, <2>5 DEF Stops, StopCommands
  <2>7. d = Ma!NextStop(c, n)
    BY <1>2 DEF Ma!NextStop
  <2>. QED  BY <2>2, <2>3, <2>6, <2>7 DEF Steered
<1>. QED  BY <1>1, <1>2

\* What an exception leads to is right, whatever has happened to the node.
LEMMA RaisedRight ==
    ASSUME NEW c, NEW v, NEW s, Sober(c, v, s), NEW n \in Ma!Nodes,
           c.stopping => Stops(c, v, s) /\ c.node = n /\ c.at \notin {"cancel", "over"}
    PROVE  Steered(Ma!Raised(c, n), v, s)
<1>1. ASSUME ~ c.stopping PROVE Steered(Ma!Raised(c, n), v, s)
  <2>1. Sober([c EXCEPT !.failed = TRUE], v, s)
    BY DEF Sober, Controllers
  <2>. QED  BY <1>1, <2>1, StoppingRight DEF Ma!Raised
<1>2. ASSUME c.stopping, Ma!Fallback(c, n), c.at \in {"probe", "down", "halt", "gone"}
      PROVE  Steered(Ma!Raised(c, n), v, s)
  <2>. DEFINE d == Ma!To(c, "soft", n)
  <2>1. Sober(d, v, s) /\ d.at = "soft" /\ d.node = n /\ d.owned = c.owned /\ d.stopping = c.stopping
        /\ d.errors = c.errors /\ d.uncertain = c.uncertain
    BY AfterTo DEF Commands, StopCommands, Others
  <2>2. n \notin s
    BY <1>2 DEF Ma!Fallback, Sober
  <2>3. \A m : Passed(d, m) => Passed(c, m)
    BY <1>2, <2>1 DEF Passed
  <2>4. Stops(d, v, s)
    BY <1>2, <2>1, <2>2, <2>3 DEF Stops, StopCommands, Ma!Certain
  <2>5. Ma!Raised(c, n) = d
    BY <1>2 DEF Ma!Raised
  <2>. QED  BY <1>2, <2>1, <2>4, <2>5 DEF Steered
<1>3. ASSUME c.stopping, ~ (Ma!Fallback(c, n) /\ c.at \in {"probe", "down", "halt", "gone"})
      PROVE  Steered(Ma!Raised(c, n), v, s)
  <2>. DEFINE d == [c EXCEPT !.errors = TRUE]
  <2>1. Sober(d, v, s) /\ d.stopping /\ d.errors
    BY <1>3 DEF Sober, Controllers
  <2>2. Ma!Raised(c, n) = Ma!NextStop(d, n)
    BY <1>3 DEF Ma!Raised
  <2>. QED  BY <2>1, <2>2, NextStopRight DEF Ma!Certain
<1>. QED  BY <1>1, <1>2, <1>3

-----------------------------------------------------------------------------
(* Where a command leads.                                                    *)

LEMMA AheadTo ==
    ASSUME NEW c, NEW v, NEW s, Sober(c, v, s), ~ c.stopping, NEW a \in Commands, NEW n \in Ma!Nodes,
           LET d == Ma!To(c, a, n)
           IN  /\ d.at = a /\ d.node = n /\ d.phase = c.phase /\ d.owned = c.owned
               /\ d.uncertain = c.uncertain /\ d.accepted = c.accepted /\ d.failed = c.failed
               => Ahead(d, v, s)
    PROVE  Steered(Ma!To(c, a, n), v, s)
<1>. DEFINE d == Ma!To(c, a, n)
<1>1. Sober(d, v, s) /\ d.at = a /\ d.node = n /\ \A f \in Others : d[f] = c[f]
    BY AfterTo
<1>2. /\ d.phase = c.phase /\ d.owned = c.owned /\ d.uncertain = c.uncertain
      /\ d.accepted = c.accepted /\ d.failed = c.failed /\ ~ d.stopping
    BY <1>1 DEF Others
<1>3. Ahead(d, v, s)
    BY <1>1, <1>2
<1>. QED  BY <1>1, <1>2, <1>3 DEF Steered

LEMMA StopsTo ==
    ASSUME NEW c, NEW v, NEW w, NEW s, Steered(c, v, s), Sober(c, w, s), c.stopping,
           c.at \in {"probe", "down", "halt", "soft"},
           NEW a \in {"down", "halt", "gone", "softgone"}, a \in {"down", "halt"} => c.node \notin s,
           \A m \in c.owned : m > c.node => w[m] = v[m]
    PROVE  Steered(Ma!To(c, a, c.node), w, s)
<1>. DEFINE d == Ma!To(c, a, c.node)
<1>1. a \in Commands /\ c.node \in Ma!Nodes
    BY DEF Commands, StopCommands, Sober, Controllers
<1>2. Sober(d, w, s) /\ d.at = a /\ d.node = c.node /\ \A f \in Others : d[f] = c[f]
    BY <1>1, AfterTo
<1>3. d.owned = c.owned /\ d.uncertain = c.uncertain /\ d.errors = c.errors /\ d.stopping = c.stopping
    BY <1>2 DEF Others
<1>4. Stops(c, v, s)
    BY DEF Steered
<1>5. Ma!Certain(d) => \A m \in d.owned : Passed(d, m) => w[m] = "off"
    BY <1>2, <1>3, <1>4 DEF Ma!Certain, Stops, Passed
<1>6. Stops(d, w, s)
    BY <1>2, <1>5 DEF Stops, StopCommands
<1>. QED  BY <1>2, <1>3, <1>6 DEF Steered

LEMMA BootedRight ==
    ASSUME NEW c, NEW v, NEW s, Sober(c, v, s), ~ c.stopping, c.uncertain = {}, ~ c.failed,
           c.phase = "start", s = {}, NEW n \in Ma!Nodes
    PROVE  Steered(Ma!Booted(c, n), v, s)
<1>1. CASE Ma!Following(n) = Ma!Data
  <2>1. Ma!Booted(c, n) = Ma!To(c, "work", Ma!Data)
    BY <1>1 DEF Ma!Booted, Ma!Round
  <2>2. "work" \in Commands
    BY DEF Commands
  <2>3. ASSUME NEW d, d.at = "work", d.phase = c.phase, d.uncertain = c.uncertain, d.failed = c.failed
        PROVE  Ahead(d, v, s)
    BY <2>3 DEF Ahead, Alone
  <2>. QED  BY <2>1, <2>2, <2>3, AheadTo, NodesAre
<1>2. CASE Ma!Following(n) # Ma!Data
  <2>1. Ma!Booted(c, n) = Ma!To(c, "start", Ma!Following(n))
    BY <1>2 DEF Ma!Booted, Ma!Round
  <2>2. "start" \in Commands /\ Ma!Following(n) \in Ma!Nodes
    BY NodesAre DEF Commands, Ma!Following, Ma!Data
  <2>3. ASSUME NEW d, d.at = "start", d.node = Ma!Following(n), d.phase = c.phase,
               d.uncertain = c.uncertain, d.failed = c.failed
        PROVE  Ahead(d, v, s)
    BY <1>2, <2>3 DEF Ahead, Alone
  <2>. QED  BY <2>1, <2>2, <2>3, AheadTo
<1>. QED  BY <1>1, <1>2

\* Machines that come up or go down by themselves are none that the record counts on.
LEMMA Drift ==
    ASSUME NEW c, NEW v, NEW w, NEW s, Steered(c, v, s),
           \A m \in Ma!Nodes : \/ w[m] = v[m]
                               \/ v[m] = "coming" /\ w[m] = "on"
                               \/ v[m] = "going" /\ w[m] = "off"
    PROVE  Steered(c, w, s)
<1>1. /\ c.owned \subseteq Ma!Nodes /\ c.accepted \subseteq Ma!Nodes /\ Ma!Data \in Ma!Nodes
    BY NodesAre DEF Steered, Sober, Controllers
<1>2. \A m \in Ma!Nodes : /\ v[m] \in {"on", "off"} => w[m] = v[m]
                          /\ v[m] # "coming" => w[m] # "coming"
    OBVIOUS
<1>3. Sober(c, w, s)
    BY <1>1, <1>2 DEF Steered, Sober
<1>4. ASSUME c.stopping PROVE Stops(c, w, s)
    BY <1>1, <1>2, <1>4 DEF Steered, Stops
<1>5. ASSUME ~ c.stopping PROVE Ahead(c, w, s)
    BY <1>1, <1>2, <1>5 DEF Steered, Ahead
<1>. QED  BY <1>3, <1>4, <1>5 DEF Steered

-----------------------------------------------------------------------------
(* The steps.                                                                *)

LEMMA Acting ==
    ASSUME MachinesInv, ctl.at # "over"
    PROVE  Watched /\ statement = Ma!Off /\ Steered(ctl, vm, noticed) /\ Sober(ctl, vm, noticed)
  BY DEF MachinesInv, Told, Ma!Idle, Steered

LEMMA Goes ==
    ASSUME Watched', Steered(ctl', vm', noticed'), statement' = Ma!Off
    PROVE  MachinesInv'
<1>1. ctl'.phase # "none"
    BY DEF Steered, Sober, Controllers
<1>2. ctl' # Ma!Idle /\ Ma!Idle' = Ma!Idle /\ Ma!Off' = Ma!Off
    BY <1>1 DEF Ma!Idle, Ma!Off, Ma!Data
<1>3. Ma!Off.scope = {}
    BY DEF Ma!Off
<1>. QED  BY <1>2, <1>3 DEF MachinesInv, Told

LEMMA Fails ==
    ASSUME NEW c, NEW v, NEW s, Steered(c, v, s), NEW n \in Ma!Nodes, c.node = n, c.at \notin {"cancel", "over"}
    PROVE  Steered(Ma!Raised(c, n), v, s)
  BY RaisedRight DEF Steered

LEMMA WatchedKept ==
    ASSUME Watched, UNCHANGED <<vm, unknown, noticed>>, busy' \subseteq busy
    PROVE  Watched'
  BY DEF Watched, MachineTypes

LEMMA WatchedSeen ==
    ASSUME Watched, NEW n \in Ma!Nodes, vm[n] = "on", Ma!Seen(n), UNCHANGED <<vm, unknown, busy>>
    PROVE  /\ Watched'
           /\ n \notin unknown => noticed' = noticed
           /\ n \in unknown => noticed' = noticed \union {n}
  BY DEF Watched, MachineTypes, Ma!Seen

LEMMA AllOffRight == ASSUME MachinesInv, NEW n \in Ma!Nodes, Ma!AllOff(n) PROVE MachinesInv'
<1>1. ctl.at = "alloff" /\ ctl.node = n /\ UNCHANGED <<vm, unknown, busy, statement, noticed>>
    BY DEF Ma!AllOff, Ma!On
<1>2. Watched /\ statement = Ma!Off /\ Steered(ctl, vm, noticed) /\ Sober(ctl, vm, noticed)
    BY <1>1, Acting
<1>3. ~ ctl.stopping /\ Ahead(ctl, vm, noticed)
    BY <1>1, <1>2 DEF Steered, Stops, StopCommands
<1>4. CASE ctl' = Ma!Raised(ctl, n)
    BY <1>1, <1>2, <1>4, Fails, Goes, WatchedKept
<1>5. CASE ctl' = Ma!To(ctl, "start", n) /\ \A m \in Ma!Nodes : ~ Ma!Shown(m)
  <2>1. noticed = {}
    BY <1>2, <1>5 DEF Watched, MachineTypes, Ma!Shown
  <2>2. ASSUME NEW d, d.at = "start", d.node = n, d.phase = ctl.phase, d.owned = ctl.owned,
               d.uncertain = ctl.uncertain, d.failed = ctl.failed
        PROVE  Ahead(d, vm, noticed)
    BY <1>1, <1>3, <2>1, <2>2 DEF Ahead, Alone
  <2>3. "start" \in Commands
    BY DEF Commands
  <2>4. Steered(ctl', vm, noticed)
    BY <1>2, <1>3, <1>5, <2>2, <2>3, AheadTo
  <2>. QED  BY <1>1, <1>2, <2>4, Goes, WatchedKept
<1>. QED  BY <1>1, <1>4, <1>5 DEF Ma!AllOff, Ma!Refuse, Ma!Go, Ma!Then

LEMMA StartRight == ASSUME MachinesInv, NEW n \in Ma!Nodes, Ma!StartVM(n) PROVE MachinesInv'
<1>1. ctl.at = "start" /\ ctl.node = n /\ UNCHANGED <<unknown, busy, statement, noticed>>
    BY DEF Ma!StartVM, Ma!On
<1>2. Watched /\ statement = Ma!Off /\ Steered(ctl, vm, noticed) /\ Sober(ctl, vm, noticed)
    BY <1>1, Acting
<1>3. ~ ctl.stopping /\ Ahead(ctl, vm, noticed)
    BY <1>1, <1>2 DEF Steered, Stops, StopCommands
<1>4. ctl.phase = "start" /\ noticed = {} /\ vm \in [Ma!Nodes -> PowerStates]
    BY <1>1, <1>2, <1>3 DEF Ahead, Watched, MachineTypes
<1>5. ASSUME NEW power \in Ma!AfterStart(n) \union {"on"}, vm' = [vm EXCEPT ![n] = power] PROVE Watched'
  <2>1. power \in PowerStates /\ (vm[n] \in {"on", "going"} => power \in {"on", "going"})
    BY <1>4, <1>5 DEF Ma!AfterStart, Ma!Shown, PowerStates
  <2>. QED  BY <1>1, <1>2, <1>4, <1>5, <2>1 DEF Watched, MachineTypes
<1>6. ASSUME ctl' = Ma!Then(Ma!Intended(n), n), vm' = [vm EXCEPT ![n] = "on"] PROVE MachinesInv'
  <2>. DEFINE c == Ma!Intended(n)
  <2>1. /\ c \in Controllers /\ c.phase = "start" /\ c.owned = ctl.owned \union {n} /\ ~ c.stopping
        /\ c.uncertain = {} /\ ~ c.failed /\ c.at = "start"
    BY <1>1, <1>2, <1>3, <1>4 DEF Ma!Intended, Sober, Controllers, Ahead
  <2>2. \A m \in c.owned : vm'[m] # "coming"
    BY <1>2, <1>3, <1>4, <1>6, <2>1 DEF Sober, Ahead, Controllers
  <2>3. Sober(c, vm', {})
    BY <2>1, <2>2 DEF Sober
  <2>4. ctl' = Ma!To(c, "wait", n)
    BY <1>6, <2>1 DEF Ma!Then
  <2>5. n = Ma!Data => c.owned = {n}
    BY <1>1, <1>3, <2>1 DEF Ahead
  <2>6. ASSUME NEW d, d.at = "wait", d.node = n, d.phase = c.phase, d.owned = c.owned,
               d.uncertain = c.uncertain, d.failed = c.failed
        PROVE  Ahead(d, vm', {})
    BY <2>1, <2>5, <2>6 DEF Ahead, Alone
  <2>7. "wait" \in Commands
    BY DEF Commands
  <2>8. Steered(ctl', vm', {})
    BY <2>1, <2>3, <2>4, <2>6, <2>7, AheadTo
  <2>. QED  BY <1>1, <1>2, <1>4, <1>5, <1>6, <2>8, Goes
<1>7. ASSUME ctl' = Ma!Raised([Ma!Intended(n) EXCEPT !.uncertain = @ \union {n}], n),
             NEW power \in Ma!AfterStart(n), vm' = [vm EXCEPT ![n] = power]
      PROVE  MachinesInv'
  <2>. DEFINE c == [Ma!Intended(n) EXCEPT !.uncertain = @ \union {n}]
  <2>1. /\ c \in Controllers /\ c.phase = "start" /\ c.owned = ctl.owned \union {n} /\ ~ c.stopping
        /\ c.uncertain = {n}
    BY <1>1, <1>2, <1>3, <1>4 DEF Ma!Intended, Sober, Controllers, Ahead
  <2>2. \A m \in c.owned \ c.uncertain : vm'[m] # "coming"
    BY <1>2, <1>3, <1>4, <1>7, <2>1 DEF Sober, Ahead, Controllers
  <2>3. Sober(c, vm', {})
    BY <2>1, <2>2 DEF Sober
  <2>4. Steered(ctl', vm', {})
    BY <1>7, <2>1, <2>3, RaisedRight
  <2>. QED  BY <1>1, <1>2, <1>4, <1>5, <1>7, <2>4, Goes
<1>. QED  BY <1>6, <1>7 DEF Ma!StartVM, Ma!Go, Ma!Fail

\* A node whose unknown work has been shown to the operation that has started it is foreign.
LEMMA ForeignRight ==
    ASSUME NEW c, NEW v, NEW s, Sober(c, v, s), NEW n \in Ma!Nodes
    PROVE  LET d == [c EXCEPT !.foreign = @ \union {n}]
           IN  /\ Sober(d, v, s \union {n}) /\ d.at = c.at /\ d.node = c.node /\ d.stopping = c.stopping
               /\ d.owned = c.owned /\ d.uncertain = c.uncertain /\ d.errors = c.errors
  BY DEF Sober, Controllers

LEMMA WaitRight == ASSUME MachinesInv, NEW n \in Ma!Nodes, Ma!Wait(n) PROVE MachinesInv'
<1>1. ctl.at = "wait" /\ ctl.node = n /\ UNCHANGED <<vm, unknown, busy, statement>>
    BY DEF Ma!Wait, Ma!On
<1>2. Watched /\ statement = Ma!Off /\ Steered(ctl, vm, noticed) /\ Sober(ctl, vm, noticed)
    BY <1>1, Acting
<1>3. ~ ctl.stopping /\ Ahead(ctl, vm, noticed)
    BY <1>1, <1>2 DEF Steered, Stops, StopCommands
<1>4. ctl.phase = "start" /\ noticed = {}
    BY <1>1, <1>3 DEF Ahead
<1>5. CASE Ma!Silent(n)
    BY <1>1, <1>2, <1>5, Fails, Goes, WatchedKept DEF Ma!Silent, Ma!Fail
<1>6. CASE vm[n] = "on" /\ Ma!Seen(n) /\ n \in unknown /\ ctl' = Ma!Raised(Ma!Foreign(n), n)
  <2>1. Watched' /\ noticed' = noticed \union {n}
    BY <1>1, <1>2, <1>6, WatchedSeen
  <2>2. Sober(Ma!Foreign(n), vm, noticed \union {n}) /\ Ma!Foreign(n).stopping = ctl.stopping
    BY <1>2, ForeignRight DEF Ma!Foreign
  <2>3. Steered(ctl', vm, noticed \union {n})
    BY <1>3, <1>6, <2>2, RaisedRight
  <2>. QED  BY <1>1, <1>2, <2>1, <2>3, Goes
<1>7. CASE vm[n] = "on" /\ Ma!Seen(n) /\ n \notin unknown /\ ctl' = Ma!Then([ctl EXCEPT !.ready = @ \union {n}], n)
  <2>. DEFINE c == [ctl EXCEPT !.ready = @ \union {n}]
  <2>1. Watched' /\ noticed' = noticed
    BY <1>1, <1>2, <1>7, WatchedSeen
  <2>2. /\ Sober(c, vm, noticed) /\ c.at = "wait" /\ c.phase = "start" /\ c.owned = ctl.owned
        /\ c.uncertain = {} /\ ~ c.failed /\ ~ c.stopping
    BY <1>1, <1>2, <1>3, <1>4 DEF Sober, Controllers, Ahead
  <2>3. ASSUME n = Ma!Data PROVE Steered(ctl', vm, noticed)
    <3>1. ctl' = Ma!To(c, "input", n)
      BY <1>7, <2>2, <2>3 DEF Ma!Then
    <3>2. c.owned = {Ma!Data}
      BY <1>1, <1>3, <1>4, <2>2, <2>3 DEF Ahead, Alone
    <3>3. ASSUME NEW d, d.at = "input", d.node = n, d.phase = c.phase, d.owned = c.owned,
                 d.uncertain = c.uncertain, d.failed = c.failed
          PROVE  Ahead(d, vm, noticed)
      BY <1>4, <2>2, <2>3, <3>2, <3>3 DEF Ahead, Alone
    <3>4. "input" \in Commands
      BY DEF Commands
    <3>. QED  BY <2>2, <3>1, <3>3, <3>4, AheadTo
  <2>4. ASSUME n # Ma!Data PROVE Steered(ctl', vm, noticed)
    <3>1. ctl' = Ma!Booted(c, n)
      BY <1>7, <2>2, <2>4 DEF Ma!Then
    <3>. QED  BY <1>4, <2>2, <3>1, BootedRight
  <2>. QED  BY <1>1, <1>2, <2>1, <2>3, <2>4, Goes
<1>. QED  BY <1>5, <1>6, <1>7 DEF Ma!Wait, Ma!Refuse, Ma!Go

LEMMA InputRight == ASSUME MachinesInv, NEW n \in Ma!Nodes, Ma!Input(n) PROVE MachinesInv'
<1>1. ctl.at = "input" /\ ctl.node = n /\ UNCHANGED <<vm, unknown, busy, statement, noticed>>
    BY DEF Ma!Input, Ma!On
<1>2. Watched /\ statement = Ma!Off /\ Steered(ctl, vm, noticed) /\ Sober(ctl, vm, noticed)
    BY <1>1, Acting
<1>3. ~ ctl.stopping /\ Ahead(ctl, vm, noticed)
    BY <1>1, <1>2 DEF Steered, Stops, StopCommands
<1>4. ctl.phase \in {"start", "job"} /\ n = Ma!Data /\ ctl.uncertain = {} /\ ~ ctl.failed
    BY <1>1, <1>3 DEF Ahead
<1>5. ctl.phase = "start" => noticed = {} /\ ctl.owned = {Ma!Data}
    BY <1>1, <1>3 DEF Ahead, Alone
<1>6. ASSUME ctl' = Ma!Then(ctl, n) PROVE Steered(ctl', vm, noticed)
  <2>1. ASSUME ctl.phase = "job" PROVE Steered(ctl', vm, noticed)
    <3>1. ctl' = Ma!To(ctl, "work", 1)
      BY <1>1, <1>6, <2>1 DEF Ma!Then
    <3>2. ASSUME NEW d, d.at = "work", d.phase = ctl.phase, d.uncertain = ctl.uncertain, d.failed = ctl.failed
          PROVE  Ahead(d, vm, noticed)
      BY <1>4, <2>1, <3>2 DEF Ahead, Alone
    <3>3. "work" \in Commands
      BY DEF Commands
    <3>. QED  BY <1>2, <1>3, <3>1, <3>2, <3>3, AheadTo, NodesAre
  <2>2. ASSUME ctl.phase = "start" PROVE Steered(ctl', vm, noticed)
    <3>1. ctl' = Ma!Booted(ctl, n)
      BY <1>1, <1>6, <2>2 DEF Ma!Then
    <3>. QED  BY <1>2, <1>3, <1>4, <1>5, <2>2, <3>1, BootedRight
  <2>. QED  BY <1>4, <2>1, <2>2
<1>7. ASSUME NEW a \in {"soft", "empty"}, a = "soft" <=> ctl.phase = "start", ctl' = Ma!To(ctl, a, n)
      PROVE  Steered(ctl', vm, noticed)
  <2>1. ASSUME NEW d, d.at = a, d.node = n, d.phase = ctl.phase, d.owned = ctl.owned,
               d.uncertain = ctl.uncertain, d.failed = ctl.failed
        PROVE  Ahead(d, vm, noticed)
    BY <1>4, <1>5, <1>7, <2>1 DEF Ahead, Alone
  <2>2. a \in Commands
    BY DEF Commands, StopCommands
  <2>. QED  BY <1>2, <1>3, <1>7, <2>1, <2>2, AheadTo
<1>8. Steered(ctl', vm, noticed)
  <2>1. CASE ctl' = Ma!Raised(ctl, n)
    BY <1>1, <1>2, <2>1, Fails
  <2>. QED  BY <1>6, <1>7, <2>1 DEF Ma!Input, Ma!Go, Ma!Fail
<1>. QED  BY <1>1, <1>2, <1>8, Goes, WatchedKept

\* Where no node has been started, unknown work may be shown on any.
LEMMA SoberSeen ==
    ASSUME NEW c, NEW v, NEW s, NEW t, Sober(c, v, s), c.phase # "start"
    PROVE  Sober(c, v, t)
  BY DEF Sober

LEMMA LookingRight == ASSUME MachinesInv, NEW n \in Ma!Nodes, Ma!Look(n) PROVE MachinesInv'
<1>1. ctl.at = "look" /\ ctl.node = n /\ UNCHANGED <<vm, unknown, busy, statement>>
    BY DEF Ma!Look, Ma!On
<1>2. Watched /\ statement = Ma!Off /\ Steered(ctl, vm, noticed) /\ Sober(ctl, vm, noticed)
    BY <1>1, Acting
<1>3. ~ ctl.stopping /\ Ahead(ctl, vm, noticed)
    BY <1>1, <1>2 DEF Steered, Stops, StopCommands
<1>4. CASE Ma!Silent(n)
    BY <1>1, <1>2, <1>4, Fails, Goes, WatchedKept DEF Ma!Silent, Ma!Fail
<1>5. CASE vm[n] = "on" /\ Ma!Seen(n) /\ ctl' = Ma!Raised(ctl, n)
  <2>1. Watched'
    BY <1>1, <1>2, <1>5, WatchedSeen
  <2>2. Sober(ctl, vm, noticed')
    BY <1>1, <1>2, <1>3, SoberSeen DEF Ahead
  <2>3. Steered(ctl', vm, noticed')
    BY <1>3, <1>5, <2>2, RaisedRight
  <2>. QED  BY <1>1, <1>2, <2>1, <2>3, Goes
<1>6. CASE vm[n] = "on" /\ Ma!Seen(n) /\ n \notin unknown /\ ctl' = Ma!Then(ctl, n)
  <2>1. Watched' /\ noticed' = noticed
    BY <1>1, <1>2, <1>6, WatchedSeen
  <2>2. \A m \in Ma!Nodes : m <= n => vm[m] = "on"
    BY <1>1, <1>3, <1>6, NodesAre DEF Ahead
  <2>3. ctl' = Ma!Forward(ctl, "look", n, "adopt")
    BY <1>1, <1>6 DEF Ma!Then
  <2>4. ctl.phase = "job" /\ ctl.uncertain = {} /\ ~ ctl.failed
    BY <1>1, <1>3 DEF Ahead
  <2>5. ASSUME n = Ma!Data PROVE Steered(ctl', vm, noticed)
    <3>1. ctl' = Ma!To(ctl, "adopt", n) /\ "adopt" \in Commands
      BY <2>3, <2>5 DEF Ma!Forward, Commands
    <3>2. \A m \in Ma!Nodes : vm[m] = "on"
      BY <2>2, <2>5, NodesAre DEF Ma!Data
    <3>3. ASSUME NEW d, d.at = "adopt", d.node = n, d.phase = ctl.phase,
                 d.uncertain = ctl.uncertain, d.failed = ctl.failed
          PROVE  Ahead(d, vm, noticed)
      BY <2>4, <2>5, <3>2, <3>3 DEF Ahead, Alone
    <3>. QED  BY <1>2, <1>3, <3>1, <3>3, AheadTo
  <2>6. ASSUME n # Ma!Data PROVE Steered(ctl', vm, noticed)
    <3>1. ctl' = Ma!To(ctl, "look", n + 1) /\ "look" \in Commands
      BY <2>3, <2>6 DEF Ma!Forward, Commands
    <3>2. n + 1 \in Ma!Nodes /\ \A m \in Ma!Nodes : m < n + 1 => vm[m] = "on"
      BY <2>2, <2>6, NodesAre DEF Ma!Data
    <3>3. ASSUME NEW d, d.at = "look", d.node = n + 1, d.phase = ctl.phase,
                 d.uncertain = ctl.uncertain, d.failed = ctl.failed
          PROVE  Ahead(d, vm, noticed)
      BY <2>4, <3>2, <3>3 DEF Ahead, Alone
    <3>. QED  BY <1>2, <1>3, <3>1, <3>2, <3>3, AheadTo
  <2>. QED  BY <1>1, <1>2, <2>1, <2>5, <2>6, Goes
<1>. QED  BY <1>4, <1>5, <1>6 DEF Ma!Look, Ma!Refuse, Ma!Go

LEMMA AdoptRight == ASSUME MachinesInv, NEW n \in Ma!Nodes, Ma!Adopt(n) PROVE MachinesInv'
<1>. DEFINE c == [ctl EXCEPT !.ready = Ma!Nodes, !.owned = Ma!Nodes]
<1>1. /\ ctl.at = "adopt" /\ ctl.node = n /\ ctl' = Ma!Then(c, n)
      /\ UNCHANGED <<vm, unknown, busy, statement, noticed>>
    BY DEF Ma!Adopt, Ma!On, Ma!Go
<1>2. Watched /\ statement = Ma!Off /\ Steered(ctl, vm, noticed) /\ Sober(ctl, vm, noticed)
    BY <1>1, Acting
<1>3. ~ ctl.stopping /\ Ahead(ctl, vm, noticed)
    BY <1>1, <1>2 DEF Steered, Stops, StopCommands
<1>4. ctl.phase = "job" /\ n = Ma!Data /\ \A m \in Ma!Nodes : vm[m] = "on"
    BY <1>1, <1>3 DEF Ahead
<1>5. /\ c \in Controllers /\ c.started = ctl.started /\ c.foreign = ctl.foreign /\ c.phase = "job"
      /\ c.owned = Ma!Nodes /\ c.at = "adopt" /\ c.uncertain = {} /\ ~ c.failed /\ ~ c.stopping
    BY <1>1, <1>2, <1>3, <1>4 DEF Sober, Controllers, Ahead
<1>6. Sober(c, vm, noticed)
    BY <1>2, <1>4, <1>5 DEF Sober
<1>7. ctl' = Ma!To(c, "input", n) /\ "input" \in Commands
    BY <1>1, <1>5 DEF Ma!Then, Commands
<1>8. ASSUME NEW d, d.at = "input", d.node = n, d.phase = c.phase, d.uncertain = c.uncertain, d.failed = c.failed
      PROVE  Ahead(d, vm, noticed)
    BY <1>4, <1>5, <1>8 DEF Ahead, Alone
<1>9. Steered(ctl', vm, noticed)
    BY <1>5, <1>6, <1>7, <1>8, AheadTo
<1>. QED  BY <1>1, <1>2, <1>9, Goes, WatchedKept

LEMMA AcceptRight == ASSUME MachinesInv, NEW n \in Ma!Nodes, Ma!Accept(n) PROVE MachinesInv'
<1>1. ctl.at = "accept" /\ ctl.node = n /\ UNCHANGED <<vm, unknown, busy, statement>>
    BY DEF Ma!Accept, Ma!On
<1>2. Watched /\ statement = Ma!Off /\ Steered(ctl, vm, noticed) /\ Sober(ctl, vm, noticed)
    BY <1>1, Acting
<1>3. ~ ctl.stopping /\ Ahead(ctl, vm, noticed)
    BY <1>1, <1>2 DEF Steered, Stops, StopCommands
<1>4. CASE Ma!Silent(n)
    BY <1>1, <1>2, <1>4, Fails, Goes, WatchedKept DEF Ma!Silent, Ma!Fail
<1>5. CASE vm[n] = "on" /\ Ma!Seen(n) /\ ctl' = Ma!Raised(ctl, n)
  <2>1. Watched'
    BY <1>1, <1>2, <1>5, WatchedSeen
  <2>2. Sober(ctl, vm, noticed')
    BY <1>1, <1>2, <1>3, SoberSeen DEF Ahead
  <2>3. Steered(ctl', vm, noticed')
    BY <1>3, <1>5, <2>2, RaisedRight
  <2>. QED  BY <1>1, <1>2, <2>1, <2>3, Goes
<1>6. ASSUME NEW c, Sober(c, vm, noticed), c.at = "accept", c.phase = ctl.phase, c.uncertain = ctl.uncertain,
             c.failed = ctl.failed, c.stopping = ctl.stopping, \A m \in c.accepted : vm[m] = "on",
             ctl' = Ma!Then(c, n)
      PROVE  Steered(ctl', vm, noticed)
  <2>1. ctl' = Ma!Forward(c, "accept", n, "leave")
    BY <1>6 DEF Ma!Then
  <2>2. ctl.phase = "stop" /\ ctl.uncertain = {} /\ ~ ctl.failed
    BY <1>1, <1>3 DEF Ahead
  <2>3. ASSUME NEW a \in {"accept", "leave"}, NEW m \in Ma!Nodes, a = "leave" => m = Ma!Data, ctl' = Ma!To(c, a, m)
        PROVE  Steered(ctl', vm, noticed)
    <3>1. ASSUME NEW d, d.at = a, d.node = m, d.phase = c.phase, d.accepted = c.accepted,
                 d.uncertain = c.uncertain, d.failed = c.failed
          PROVE  Ahead(d, vm, noticed)
      BY <1>6, <2>2, <2>3, <3>1 DEF Ahead, Alone
    <3>2. a \in Commands
      BY DEF Commands
    <3>. QED  BY <1>3, <1>6, <2>3, <3>1, <3>2, AheadTo
  <2>4. n # Ma!Data => n + 1 \in Ma!Nodes
    BY NodesAre DEF Ma!Data
  <2>. QED  BY <2>1, <2>3, <2>4 DEF Ma!Forward
<1>7. \A m \in ctl.accepted : vm[m] = "on"
    BY <1>1, <1>3 DEF Ahead
<1>8. CASE ctl' = Ma!Then(ctl, n) /\ noticed' = noticed
    BY <1>1, <1>2, <1>6, <1>7, <1>8, Goes, WatchedKept
<1>9. CASE vm[n] = "on" /\ Ma!Seen(n) /\ n \notin unknown /\ ctl' = Ma!Then([ctl EXCEPT !.accepted = @ \union {n}], n)
  <2>. DEFINE c == [ctl EXCEPT !.accepted = @ \union {n}]
  <2>1. Watched' /\ noticed' = noticed
    BY <1>1, <1>2, <1>9, WatchedSeen
  <2>2. /\ Sober(c, vm, noticed) /\ c.at = "accept" /\ c.phase = ctl.phase /\ c.uncertain = ctl.uncertain
        /\ c.failed = ctl.failed /\ c.stopping = ctl.stopping /\ c.accepted = ctl.accepted \union {n}
    BY <1>1, <1>2 DEF Sober, Controllers
  <2>3. Steered(ctl', vm, noticed)
    BY <1>6, <1>7, <1>9, <2>2
  <2>. QED  BY <1>1, <1>2, <2>1, <2>3, Goes
<1>. QED  BY <1>1, <1>4, <1>5, <1>8, <1>9 DEF Ma!Accept, Ma!Refuse, Ma!Go

LEMMA LeaveRight == ASSUME MachinesInv, NEW n \in Ma!Nodes, Ma!LeaveAll(n) PROVE MachinesInv'
<1>. DEFINE c == [ctl EXCEPT !.owned = ctl.accepted]
<1>1. /\ ctl.at = "leave" /\ ctl.node = n /\ ctl' = Ma!Stopping(c)
      /\ UNCHANGED <<vm, unknown, busy, statement, noticed>>
    BY DEF Ma!LeaveAll, Ma!On
<1>2. Watched /\ statement = Ma!Off /\ Steered(ctl, vm, noticed) /\ Sober(ctl, vm, noticed)
    BY <1>1, Acting
<1>3. ~ ctl.stopping /\ Ahead(ctl, vm, noticed)
    BY <1>1, <1>2 DEF Steered, Stops, StopCommands
<1>4. \A m \in ctl.accepted : vm[m] = "on"
    BY <1>1, <1>3 DEF Ahead
<1>5. /\ c \in Controllers /\ c.started = ctl.started /\ c.foreign = ctl.foreign /\ c.phase = ctl.phase
      /\ c.owned = ctl.accepted /\ c.uncertain = ctl.uncertain
    BY <1>2 DEF Sober, Controllers
<1>6. Sober(c, vm, noticed)
    BY <1>2, <1>4, <1>5 DEF Sober
<1>. QED  BY <1>1, <1>2, <1>6, StoppingRight, Goes, WatchedKept

LEMMA RemoteRight == ASSUME MachinesInv, NEW n \in Ma!Nodes, Ma!Remote(n) PROVE MachinesInv'
<1>. DEFINE c == [ctl EXCEPT !.inflight = @ \union {n}]
<1>1. ctl.at \in {"work", "down"} /\ ctl.node = n /\ UNCHANGED <<vm, unknown, statement, noticed>>
    BY DEF Ma!Remote, Ma!On
<1>2. Watched /\ statement = Ma!Off /\ Steered(ctl, vm, noticed) /\ Sober(ctl, vm, noticed)
    BY <1>1, Acting
<1>3. busy' \subseteq busy \/ (busy' = busy \union {n} /\ vm[n] = "on")
    BY DEF Ma!Remote
<1>4. Watched'
    BY <1>1, <1>2, <1>3 DEF Watched, MachineTypes
<1>5. CASE ctl' = Ma!Raised(ctl, n)
    BY <1>1, <1>2, <1>4, <1>5, Fails, Goes
<1>6. CASE ctl' = Ma!Raised(c, n)
  <2>1. /\ c \in Controllers /\ c.started = ctl.started /\ c.foreign = ctl.foreign /\ c.phase = ctl.phase
        /\ c.owned = ctl.owned /\ c.uncertain = ctl.uncertain /\ c.at = ctl.at /\ c.node = ctl.node
        /\ c.stopping = ctl.stopping /\ c.errors = ctl.errors
    BY <1>2 DEF Sober, Controllers
  <2>2. Sober(c, vm, noticed)
    BY <1>2, <2>1 DEF Sober
  <2>3. c.stopping => Stops(c, vm, noticed)
    BY <1>2, <2>1 DEF Steered, Stops, Passed, Ma!Certain
  <2>4. Steered(ctl', vm, noticed)
    BY <1>1, <1>6, <2>1, <2>2, <2>3, RaisedRight
  <2>. QED  BY <1>1, <1>2, <1>4, <2>4, Goes
<1>7. CASE ctl' = Ma!Then(ctl, n) /\ ctl.at = "down"
  <2>1. ctl' = Ma!To(ctl, "halt", ctl.node)
    BY <1>1, <1>7 DEF Ma!Then
  <2>2. ctl.stopping /\ ctl.node \notin noticed
    BY <1>2, <1>7 DEF Steered, Ahead, Stops
  <2>3. Steered(ctl', vm, noticed)
    BY <1>2, <1>7, <2>1, <2>2, StopsTo
  <2>. QED  BY <1>1, <1>2, <1>4, <2>3, Goes
<1>8. CASE ctl' = Ma!Then(ctl, n) /\ ctl.at = "work"
  <2>1. ~ ctl.stopping /\ Ahead(ctl, vm, noticed)
    BY <1>2, <1>8 DEF Steered, Stops, StopCommands
  <2>2. ctl.uncertain = {} /\ ~ ctl.failed /\ (ctl.phase = "start" => noticed = {})
    BY <1>8, <2>1 DEF Ahead
  <2>3. ctl.phase \in {"start", "job"}
    BY <1>8, <2>1 DEF Ahead
  <2>4. ASSUME NEW a \in {"work", "over"}, NEW m \in Ma!Nodes, ctl' = Ma!To(ctl, a, m)
        PROVE  Steered(ctl', vm, noticed)
    <3>1. ASSUME NEW d, d.at = a, d.phase = ctl.phase, d.uncertain = ctl.uncertain, d.failed = ctl.failed
          PROVE  Ahead(d, vm, noticed)
      BY <2>2, <2>3, <2>4, <3>1 DEF Ahead, Alone
    <3>2. a \in Commands
      BY DEF Commands
    <3>. QED  BY <1>2, <2>1, <2>4, <3>1, <3>2, AheadTo
  <2>5. ctl' = Ma!To(ctl, "over", Ma!Data) \/ ctl' = Ma!To(ctl, "work", Ma!Following(n))
    BY <1>8 DEF Ma!Then, Ma!Round, Ma!Over
  <2>6. Ma!Following(n) \in Ma!Nodes
    BY NodesAre DEF Ma!Following, Ma!Data
  <2>7. Steered(ctl', vm, noticed)
    BY <2>4, <2>5, <2>6, NodesAre
  <2>. QED  BY <1>1, <1>2, <1>4, <2>7, Goes
<1>. QED  BY <1>1, <1>5, <1>6, <1>7, <1>8 DEF Ma!Remote, Ma!Go, Ma!Fail

LEMMA CancelledRight ==
    ASSUME NEW c, NEW v, NEW s, Sober(c, v, s), c.stopping, NEW n
    PROVE  Steered(Ma!Cancelled(c, n), v, s)
<1>1. ASSUME NEW a \in {"probe", "cancel"}
      PROVE  Steered([Ma!To(c, a, Ma!Data) EXCEPT !.cancels = @ \ {n}], v, s)
  <2>. DEFINE t == Ma!To(c, a, Ma!Data)
              d == [t EXCEPT !.cancels = @ \ {n}]
  <2>1. a \in Commands
    BY DEF Commands, StopCommands
  <2>2. Sober(t, v, s) /\ t.at = a /\ t.node = Ma!Data /\ \A f \in Others : t[f] = c[f]
    BY <2>1, AfterTo, NodesAre
  <2>3. t.stopping
    BY <2>2 DEF Others
  <2>4. Sober(d, v, s) /\ d.at = a /\ d.node = Ma!Data /\ d.stopping
    BY <2>2, <2>3 DEF Sober, Controllers
  <2>. QED  BY <2>4, AtTheEnd
<1>. QED  BY <1>1 DEF Ma!Cancelled

LEMMA CancelRight == ASSUME MachinesInv, NEW n \in Ma!Nodes, Ma!Cancel(n) PROVE MachinesInv'
<1>1. ctl.at = "cancel" /\ UNCHANGED <<vm, unknown, statement, noticed>> /\ busy' \subseteq busy
    BY DEF Ma!Cancel
<1>2. Watched /\ statement = Ma!Off /\ Steered(ctl, vm, noticed) /\ Sober(ctl, vm, noticed)
    BY <1>1, Acting
<1>3. ctl.stopping
    BY <1>1, <1>2 DEF Steered, Ahead
<1>4. /\ Sober([ctl EXCEPT !.inflight = @ \ {n}], vm, noticed) /\ [ctl EXCEPT !.inflight = @ \ {n}].stopping
      /\ Sober([ctl EXCEPT !.errors = TRUE], vm, noticed) /\ [ctl EXCEPT !.errors = TRUE].stopping
    BY <1>2, <1>3 DEF Sober, Controllers
<1>5. Steered(ctl', vm, noticed)
  <2>1. \/ ctl' = Ma!Cancelled([ctl EXCEPT !.inflight = @ \ {n}], n)
        \/ ctl' = Ma!Cancelled([ctl EXCEPT !.errors = TRUE], n)
    BY DEF Ma!Cancel
  <2>. QED  BY <1>4, <2>1, CancelledRight
<1>. QED  BY <1>1, <1>2, <1>5, Goes, WatchedKept

LEMMA ProbeRight == ASSUME MachinesInv, NEW n \in Ma!Nodes, Ma!Probe(n) PROVE MachinesInv'
<1>1. ctl.at = "probe" /\ ctl.node = n /\ UNCHANGED <<vm, unknown, busy, statement>>
    BY DEF Ma!Probe, Ma!On
<1>2. Watched /\ statement = Ma!Off /\ Steered(ctl, vm, noticed) /\ Sober(ctl, vm, noticed)
    BY <1>1, Acting
<1>3. ctl.stopping /\ Stops(ctl, vm, noticed)
    BY <1>1, <1>2 DEF Steered, Ahead
<1>4. CASE ctl' = Ma!Raised(ctl, n) /\ noticed' = noticed
    BY <1>1, <1>2, <1>4, Fails, Goes, WatchedKept
<1>5. CASE n \notin ctl.owned /\ ctl' = Ma!NextStop(ctl, n) /\ noticed' = noticed
  <2>1. ctl.owned \subseteq Ma!Nodes
    BY <1>2 DEF Sober, Controllers
  <2>2. ASSUME NEW m \in ctl.owned, m >= n PROVE Passed(ctl, m)
    BY <1>1, <1>5, <2>1, <2>2, NodesAre DEF Passed
  <2>3. Ma!Certain(ctl) => \A m \in ctl.owned : m >= n => vm[m] = "off"
    BY <1>3, <2>2 DEF Stops
  <2>4. Steered(ctl', vm, noticed)
    BY <1>2, <1>3, <1>5, <2>3, NextStopRight
  <2>. QED  BY <1>1, <1>2, <1>5, <2>4, Goes, WatchedKept
<1>6. CASE vm[n] = "on" /\ Ma!Seen(n) /\ n \in unknown /\ ctl' = Ma!Raised(Ma!Foreign(n), n)
  <2>. DEFINE d == Ma!Foreign(n)
  <2>1. Watched' /\ noticed' = noticed \union {n}
    BY <1>1, <1>2, <1>6, WatchedSeen
  <2>2. /\ Sober(d, vm, noticed') /\ d.at = "probe" /\ d.node = n /\ d.stopping = ctl.stopping
        /\ d.owned = ctl.owned /\ d.uncertain = ctl.uncertain /\ d.errors = ctl.errors
    BY <1>1, <1>2, <2>1, ForeignRight DEF Ma!Foreign
  <2>3. Stops(d, vm, noticed')
    BY <1>1, <1>3, <2>2 DEF Stops, Passed, Ma!Certain
  <2>4. Steered(ctl', vm, noticed')
    BY <1>6, <2>2, <2>3, RaisedRight
  <2>. QED  BY <1>1, <1>2, <2>1, <2>4, Goes
<1>7. CASE vm[n] = "on" /\ Ma!Seen(n) /\ n \notin unknown /\ ctl' = Ma!Then(ctl, n)
  <2>1. Watched' /\ noticed' = noticed
    BY <1>1, <1>2, <1>7, WatchedSeen
  <2>2. ctl' = Ma!To(ctl, "down", ctl.node)
    BY <1>1, <1>7 DEF Ma!Then
  <2>3. n \notin noticed
    BY <1>2, <1>7 DEF Watched
  <2>4. Steered(ctl', vm, noticed)
    BY <1>1, <1>2, <1>3, <2>2, <2>3, StopsTo
  <2>. QED  BY <1>1, <1>2, <2>1, <2>4, Goes
<1>. QED  BY <1>1, <1>4, <1>5, <1>6, <1>7 DEF Ma!Probe, Ma!Refuse, Ma!Go, Ma!Silent, Ma!Fail

\* A machine that is switched off, or is on its way, runs nothing that has been shown.
LEMMA PoweredRight ==
    ASSUME Watched, NEW n \in Ma!Nodes, NEW power \in PowerStates, Ma!Powered(n, power), n \notin noticed,
           power # "coming", noticed' = noticed
    PROVE  Watched' /\ vm' = [vm EXCEPT ![n] = power] /\ vm \in [Ma!Nodes -> PowerStates]
<1>1. vm' = [vm EXCEPT ![n] = power] /\ vm \in [Ma!Nodes -> PowerStates]
    BY DEF Ma!Powered, Watched, MachineTypes
<1>2. CASE power = "off"
  <2>1. unknown' = unknown \ {n} /\ busy' = busy \ {n}
    BY <1>2 DEF Ma!Powered
  <2>. QED  BY <1>1, <2>1 DEF Watched, MachineTypes
<1>3. CASE power # "off"
  <2>1. unknown' = unknown /\ busy' = busy /\ power \in {"on", "going"}
    BY <1>3 DEF Ma!Powered, PowerStates
  <2>. QED  BY <1>1, <2>1 DEF Watched, MachineTypes
<1>. QED  BY <1>1, <1>2, <1>3

LEMMA HaltRight == ASSUME MachinesInv, NEW n \in Ma!Nodes, Ma!Halt(n) PROVE MachinesInv'
<1>1. ctl.at \in {"halt", "soft"} /\ ctl.node = n /\ UNCHANGED <<statement, noticed>>
    BY DEF Ma!Halt, Ma!On
<1>2. Watched /\ statement = Ma!Off /\ Steered(ctl, vm, noticed) /\ Sober(ctl, vm, noticed)
    BY <1>1, Acting
<1>3. CASE ctl' = Ma!Raised(ctl, n) /\ UNCHANGED <<vm, unknown, busy>>
    BY <1>1, <1>2, <1>3, Fails, Goes, WatchedKept
<1>4. ASSUME vm[n] = "on", ctl' = Ma!Then(ctl, n), NEW power \in {"off", "going"}, Ma!Powered(n, power)
      PROVE  MachinesInv'
  <2>1. n \notin noticed
    <3>1. CASE ctl.stopping
      BY <1>1, <1>2, <3>1 DEF Steered, Stops
    <3>2. CASE ~ ctl.stopping
      BY <1>1, <1>2, <3>2 DEF Steered, Ahead
    <3>. QED  BY <3>1, <3>2
  <2>2. Watched' /\ vm' = [vm EXCEPT ![n] = power] /\ vm \in [Ma!Nodes -> PowerStates]
    BY <1>1, <1>2, <1>4, <2>1, PoweredRight DEF PowerStates
  <2>3. ctl.owned \subseteq Ma!Nodes
    BY <1>2 DEF Sober, Controllers
  <2>4. \A m \in ctl.owned \ ctl.uncertain : vm'[m] # "coming"
    BY <1>2, <1>4, <2>2, <2>3 DEF Sober
  <2>5. Sober(ctl, vm', noticed)
    BY <1>2, <2>4 DEF Sober
  <2>6. ASSUME ctl.stopping PROVE Steered(ctl', vm', noticed)
    <3>1. PICK a \in {"gone", "softgone"} : ctl' = Ma!To(ctl, a, ctl.node)
      BY <1>1, <1>4 DEF Ma!Then
    <3>2. \A m \in ctl.owned : m > ctl.node => vm'[m] = vm[m]
      BY <1>1, <2>2, <2>3, NodesAre
    <3>. QED  BY <1>1, <1>2, <2>5, <2>6, <3>1, <3>2, StopsTo
  <2>7. ASSUME ~ ctl.stopping PROVE Steered(ctl', vm', noticed)
    <3>1. Ahead(ctl, vm, noticed)
      BY <1>2, <2>7 DEF Steered
    <3>2. /\ ctl.at = "soft" /\ ctl.phase = "start" /\ noticed = {} /\ n = Ma!Data /\ ctl.owned = {Ma!Data}
          /\ ctl.uncertain = {} /\ ~ ctl.failed
      BY <1>1, <3>1 DEF Ahead, Alone
    <3>3. ctl' = Ma!To(ctl, "softgone", n) /\ "softgone" \in Commands
      BY <1>4, <3>2 DEF Ma!Then, Commands, StopCommands
    <3>4. ASSUME NEW d, d.at = "softgone", d.node = n, d.phase = ctl.phase, d.owned = ctl.owned,
                 d.uncertain = ctl.uncertain, d.failed = ctl.failed
          PROVE  Ahead(d, vm', noticed)
      BY <3>2, <3>4 DEF Ahead, Alone
    <3>. QED  BY <2>5, <2>7, <3>3, <3>4, AheadTo
  <2>. QED  BY <1>1, <1>2, <2>2, <2>6, <2>7, Goes
<1>. QED  BY <1>3, <1>4 DEF Ma!Halt, Ma!Go, Ma!Refuse, Ma!Fail

LEMMA GoneRight == ASSUME MachinesInv, NEW n \in Ma!Nodes, Ma!Gone(n) PROVE MachinesInv'
<1>. DEFINE c == [ctl EXCEPT !.ready = @ \ {n}]
<1>1. ctl.at \in {"gone", "softgone"} /\ ctl.node = n /\ UNCHANGED <<vm, unknown, busy, statement, noticed>>
    BY DEF Ma!Gone, Ma!On
<1>2. Watched /\ statement = Ma!Off /\ Steered(ctl, vm, noticed) /\ Sober(ctl, vm, noticed)
    BY <1>1, Acting
<1>3. CASE ctl' = Ma!Raised(ctl, n)
    BY <1>1, <1>2, <1>3, Fails, Goes, WatchedKept
<1>4. CASE ctl' = Ma!Then(c, n) /\ ~ Ma!Shown(n)
  <2>1. /\ Sober(c, vm, noticed) /\ c.at = ctl.at /\ c.node = n /\ c.owned = ctl.owned /\ c.phase = ctl.phase
        /\ c.uncertain = ctl.uncertain /\ c.stopping = ctl.stopping /\ c.errors = ctl.errors /\ c.failed = ctl.failed
    BY <1>1, <1>2 DEF Sober, Controllers
  <2>2. c.owned \subseteq Ma!Nodes /\ vm[n] \in {"off", "coming"}
    BY <1>2, <1>4, <2>1 DEF Sober, Controllers, Watched, MachineTypes, PowerStates, Ma!Shown
  <2>3. n \in c.owned \ c.uncertain => vm[n] = "off"
    BY <2>1, <2>2 DEF Sober
  <2>4. ASSUME ctl.stopping PROVE Steered(ctl', vm, noticed)
    <3>1. ctl' = Ma!NextStop(c, n)
      BY <1>1, <1>4, <2>1, <2>4 DEF Ma!Then
    <3>2. Stops(ctl, vm, noticed)
      BY <1>2, <2>4 DEF Steered
    <3>3. ASSUME NEW m \in c.owned, m >= n, Ma!Certain(c) PROVE vm[m] = "off"
      <4>1. CASE m = n
        BY <2>3, <3>3, <4>1 DEF Ma!Certain
      <4>2. CASE m # n
        <5>1. m > n
          BY <2>2, <3>3, <4>2, NodesAre
        <5>. QED  BY <1>1, <2>1, <3>2, <3>3, <5>1 DEF Stops, Passed, Ma!Certain
      <4>. QED  BY <4>1, <4>2
    <3>. QED  BY <2>1, <2>4, <3>1, <3>3, NextStopRight
  <2>5. ASSUME ~ ctl.stopping PROVE Steered(ctl', vm, noticed)
    <3>1. Ahead(ctl, vm, noticed)
      BY <1>2, <2>5 DEF Steered
    <3>2. /\ ctl.at = "softgone" /\ ctl.phase = "start" /\ noticed = {} /\ n = Ma!Data /\ ctl.owned = {Ma!Data}
          /\ ctl.uncertain = {} /\ ~ ctl.failed
      BY <1>1, <3>1 DEF Ahead, Alone
    <3>3. ctl' = Ma!To(c, "empty", n) /\ "empty" \in Commands
      BY <1>4, <2>1, <2>5, <3>2 DEF Ma!Then, Commands
    <3>4. vm[Ma!Data] = "off"
      BY <2>1, <2>3, <3>2
    <3>5. ASSUME NEW d, d.at = "empty", d.node = n, d.phase = c.phase, d.owned = c.owned,
                 d.uncertain = c.uncertain, d.failed = c.failed
          PROVE  Ahead(d, vm, noticed)
      BY <2>1, <3>2, <3>4, <3>5 DEF Ahead, Alone
    <3>. QED  BY <2>1, <2>5, <3>3, <3>5, AheadTo
  <2>. QED  BY <1>1, <1>2, <2>4, <2>5, Goes, WatchedKept
<1>. QED  BY <1>3, <1>4 DEF Ma!Gone, Ma!StoppedNow, Ma!Go, Ma!Fail

LEMMA AgainRight == ASSUME MachinesInv, Ma!Again PROVE MachinesInv'
<1>. DEFINE c == [ctl EXCEPT !.failed = TRUE]
<1>1. ctl.stopping /\ ctl' = Ma!Stopping(c) /\ UNCHANGED <<vm, unknown, busy, statement, noticed>>
    BY DEF Ma!Again
<1>2. ctl # Ma!Idle
    BY <1>1 DEF Ma!Idle
<1>3. Watched /\ statement = Ma!Off /\ Sober(ctl, vm, noticed)
    BY <1>2 DEF MachinesInv, Told, Steered
<1>4. Sober(c, vm, noticed)
    BY <1>3 DEF Sober, Controllers
<1>. QED  BY <1>1, <1>3, <1>4, StoppingRight, Goes, WatchedKept

\* An operation whose receipt says that its cleanup is complete has switched off what it owned.
LEMMA EndRight == ASSUME MachinesInv, Ma!End PROVE MachinesInv'
<1>1. /\ ctl # Ma!Idle /\ ctl.at \in {"over", "empty"} /\ ctl' = Ma!Idle
      /\ UNCHANGED <<vm, unknown, busy, noticed>>
      /\ ctl.stopping /\ ~ ctl.failed => Ma!Certain(ctl)
      /\ statement' = [status |-> Ma!Outcome.status, complete |-> Ma!Outcome.complete, scope |-> ctl.owned]
    BY DEF Ma!End
<1>2. Watched /\ Steered(ctl, vm, noticed) /\ Sober(ctl, vm, noticed)
    BY <1>1 DEF MachinesInv, Told, Steered
<1>3. ASSUME Ma!Outcome.complete, Ma!Outcome.status # "done", NEW n \in ctl.owned PROVE vm[n] = "off"
  <2>1. CASE ctl.at = "empty"
    <3>1. ~ ctl.stopping /\ Ahead(ctl, vm, noticed)
      BY <1>2, <2>1 DEF Steered, Stops, StopCommands
    <3>2. ~ ctl.failed
      BY <3>1 DEF Ahead
    <3>3. ctl.phase = "start"
      BY <1>3, <2>1, <3>2 DEF Ma!Outcome
    <3>. QED  BY <2>1, <3>1, <3>3 DEF Ahead, Alone
  <2>2. CASE ctl.at = "over" /\ ~ ctl.stopping
    <3>1. ~ ctl.failed
      BY <1>2, <2>2 DEF Steered, Ahead
    <3>. QED  BY <1>3, <2>2, <3>1 DEF Ma!Outcome
  <2>3. CASE ctl.at = "over" /\ ctl.stopping
    <3>1. Ma!Certain(ctl)
      BY <1>1, <1>3, <2>3 DEF Ma!Outcome
    <3>. QED  BY <1>2, <2>3, <3>1 DEF Steered, Stops, Passed
  <2>. QED  BY <1>1, <2>1, <2>2, <2>3
<1>4. \A n \in ctl.owned : vm[n] = "off" => n \notin busy
    BY <1>2 DEF Watched
<1>5. Watched'
    BY <1>1, <1>2, WatchedKept
<1>6. Ma!Idle' = Ma!Idle
    BY DEF Ma!Idle, Ma!Data
<1>7. Ma!ReceiptHolds'
    BY <1>1, <1>3, <1>4, <1>5 DEF Ma!ReceiptHolds, Watched, MachineTypes, PowerStates
<1>8. statement'.scope \subseteq Ma!Nodes
    BY <1>1, <1>2 DEF Sober, Controllers
<1>. QED  BY <1>1, <1>5, <1>6, <1>7, <1>8 DEF MachinesInv, Told

LEMMA SetOut == ASSUME MachinesInv, NEW phase \in {"start", "job", "stop"}, Ma!Begin(phase) PROVE MachinesInv'
<1>1. ctl = Ma!Idle /\ statement' = Ma!Off /\ UNCHANGED <<vm, unknown, busy, noticed>>
    BY DEF Ma!Begin
<1>2. Watched
    BY DEF MachinesInv
<1>3. PICK a \in {"alloff", "look", "accept"}, m \in Ma!Nodes :
         /\ ctl' = [Ma!Idle EXCEPT !.phase = phase, !.at = a, !.node = m]
         /\ <<phase, a>> \in {<<"start", "alloff">>, <<"job", "look">>, <<"stop", "accept">>}
         /\ a = "alloff" => m = Ma!Data
         /\ a = "look" => m = 1
  <2>1. CASE phase = "start"
    BY <2>1, NodesAre DEF Ma!Begin
  <2>2. CASE phase = "job"
    BY <2>2, NodesAre DEF Ma!Begin
  <2>3. CASE phase = "stop"
    BY <2>3, NodesAre DEF Ma!Begin
  <2>. QED  BY <2>1, <2>2, <2>3
<1>4. /\ ctl' \in Controllers /\ ctl'.at = a /\ ctl'.node = m /\ ctl'.phase = phase /\ ctl'.started = {}
      /\ ctl'.owned = {} /\ ctl'.uncertain = {} /\ ctl'.accepted = {} /\ ~ ctl'.stopping /\ ~ ctl'.failed
    BY <1>3 DEF Ma!Idle, Controllers, Commands
<1>5. Sober(ctl', vm, noticed)
    BY <1>4 DEF Sober
<1>6. \A n \in Ma!Nodes : ~ n < 1
    BY NodesAre
<1>7. Ahead(ctl', vm, noticed)
    BY <1>3, <1>4, <1>6 DEF Ahead, Alone
<1>8. Steered(ctl', vm, noticed)
    BY <1>4, <1>5, <1>7 DEF Steered
<1>. QED  BY <1>1, <1>2, <1>8, Goes, WatchedKept

LEMMA DieRight == ASSUME MachinesInv, Ma!Die PROVE MachinesInv'
<1>1. ctl # Ma!Idle /\ ctl' = Ma!Idle /\ UNCHANGED <<vm, unknown, busy, statement, noticed>>
    BY DEF Ma!Die
<1>2. Watched /\ statement' = Ma!Off
    BY <1>1 DEF MachinesInv, Told
<1>3. Watched'
    BY <1>1, <1>2, WatchedKept
<1>4. Ma!Idle' = Ma!Idle /\ ~ Ma!Off.complete /\ Ma!Off.scope = {}
    BY DEF Ma!Idle, Ma!Off, Ma!Data
<1>5. Ma!ReceiptHolds'
    BY <1>2, <1>3, <1>4 DEF Ma!ReceiptHolds, Watched, MachineTypes, PowerStates
<1>. QED  BY <1>1, <1>2, <1>3, <1>4, <1>5 DEF MachinesInv, Told

\* What happens to the machines without a command.
LEMMA ByItself ==
    ASSUME MachinesInv, Watched', UNCHANGED <<ctl, statement, noticed>>,
           \A m \in Ma!Nodes : \/ vm'[m] = vm[m]
                               \/ vm[m] = "coming" /\ vm'[m] = "on"
                               \/ vm[m] = "going" /\ vm'[m] = "off"
    PROVE  MachinesInv'
<1>1. Ma!Idle' = Ma!Idle /\ Ma!Off' = Ma!Off
    BY DEF Ma!Idle, Ma!Off, Ma!Data
<1>2. ASSUME ctl # Ma!Idle PROVE statement = Ma!Off /\ Steered(ctl, vm', noticed)
    BY <1>2, Drift DEF MachinesInv, Told
<1>3. ASSUME ctl = Ma!Idle PROVE Ma!ReceiptHolds'
  <2>1. Ma!ReceiptHolds /\ statement.scope \subseteq Ma!Nodes
    BY <1>3 DEF MachinesInv, Told
  <2>2. \A m \in Ma!Nodes : vm[m] = "off" => vm'[m] = "off" /\ m \notin busy'
    BY DEF Watched
  <2>. QED  BY <1>1, <1>3, <2>1, <2>2 DEF Ma!ReceiptHolds, Watched, MachineTypes, PowerStates
<1>4. statement.scope \subseteq Ma!Nodes
    BY DEF MachinesInv, Told
<1>. QED  BY <1>1, <1>2, <1>3, <1>4 DEF MachinesInv, Told

LEMMA ArriveRight == ASSUME MachinesInv, NEW n \in Ma!Nodes, Ma!Arrive(n) PROVE MachinesInv'
<1>1. Watched /\ UNCHANGED <<ctl, statement, noticed>>
    BY DEF MachinesInv, Ma!Arrive
<1>2. n \notin noticed
    BY <1>1 DEF Watched, Ma!Arrive
<1>3. ASSUME NEW power \in {"on", "off"}, Ma!Powered(n, power),
             vm[n] = IF power = "on" THEN "coming" ELSE "going"
      PROVE  MachinesInv'
  <2>1. Watched' /\ vm' = [vm EXCEPT ![n] = power] /\ vm \in [Ma!Nodes -> PowerStates]
    BY <1>1, <1>2, <1>3, PoweredRight DEF PowerStates
  <2>2. \A m \in Ma!Nodes : \/ vm'[m] = vm[m]
                            \/ vm[m] = "coming" /\ vm'[m] = "on"
                            \/ vm[m] = "going" /\ vm'[m] = "off"
    BY <1>3, <2>1
  <2>. QED  BY <1>1, <2>1, <2>2, ByItself
<1>. QED  BY <1>3 DEF Ma!Arrive

LEMMA IntrudeRight == ASSUME MachinesInv, NEW n \in Ma!Nodes, Ma!Intrude(n) PROVE MachinesInv'
<1>1. Watched /\ unknown' = unknown \union {n} /\ UNCHANGED <<vm, busy, ctl, statement, noticed>>
    BY DEF MachinesInv, Ma!Intrude
<1>2. Watched'
    BY <1>1 DEF Watched, MachineTypes
<1>. QED  BY <1>1, <1>2, ByItself

LEMMA WorkerRight == ASSUME MachinesInv, NEW n \in Ma!Nodes, Ma!WorkerEnds(n) PROVE MachinesInv'
<1>1. Watched /\ busy' \subseteq busy /\ UNCHANGED <<vm, unknown, ctl, statement, noticed>>
    BY DEF MachinesInv, Ma!WorkerEnds
<1>2. Watched'
    BY <1>1, WatchedKept
<1>. QED  BY <1>1, <1>2, ByItself

LEMMA MachinesStart == ASSUME Ma!Init PROVE MachinesInv
<1>1. /\ vm \in {[n \in Ma!Nodes |-> "off"], [n \in Ma!Nodes |-> "on"]}
      /\ unknown = {} /\ busy = {} /\ ctl = Ma!Idle /\ statement = Ma!Off /\ noticed = {}
    BY DEF Ma!Init
<1>2. Watched
    BY <1>1 DEF Watched, MachineTypes, PowerStates
<1>3. ~ Ma!Off.complete /\ Ma!Off.scope = {}
    BY DEF Ma!Off
<1>4. Ma!ReceiptHolds
    BY <1>1, <1>2, <1>3 DEF Ma!ReceiptHolds, Watched, MachineTypes, PowerStates
<1>. QED  BY <1>1, <1>2, <1>3, <1>4 DEF MachinesInv, Told

LEMMA MachinesStep == ASSUME MachinesInv, [Ma!Next]_(Ma!vars) PROVE MachinesInv'
<1>1. CASE UNCHANGED Ma!vars
  <2>1. UNCHANGED <<vm, unknown, busy, ctl, statement, noticed>>
    BY <1>1 DEF Ma!vars
  <2>2. Watched'
    BY <2>1, WatchedKept DEF MachinesInv
  <2>. QED  BY <2>1, <2>2, ByItself
<1>2. ASSUME NEW n \in Ma!Nodes,
             \/ Ma!AllOff(n) \/ Ma!StartVM(n) \/ Ma!Wait(n) \/ Ma!Input(n) \/ Ma!Look(n) \/ Ma!Adopt(n)
             \/ Ma!Accept(n) \/ Ma!LeaveAll(n) \/ Ma!Remote(n) \/ Ma!Cancel(n) \/ Ma!Probe(n) \/ Ma!Halt(n)
             \/ Ma!Gone(n) \/ Ma!Arrive(n) \/ Ma!Intrude(n) \/ Ma!WorkerEnds(n)
      PROVE  MachinesInv'
    BY <1>2, AllOffRight, StartRight, WaitRight, InputRight, LookingRight, AdoptRight, AcceptRight, LeaveRight,
       RemoteRight, CancelRight, ProbeRight, HaltRight, GoneRight, ArriveRight, IntrudeRight, WorkerRight
<1>. QED  BY <1>1, <1>2, SetOut, AgainRight, EndRight, DieRight DEF Ma!Next

\* What has been shown stays shown.
LEMMA NoticedStays == ASSUME [Ma!Next]_(Ma!vars) PROVE noticed \subseteq noticed'
<1>1. CASE UNCHANGED Ma!vars
    BY <1>1 DEF Ma!vars
<1>2. ASSUME NEW n \in Ma!Nodes,
             Ma!Wait(n) \/ Ma!Look(n) \/ Ma!Accept(n) \/ Ma!Probe(n)
      PROVE  noticed \subseteq noticed'
    BY <1>2 DEF Ma!Wait, Ma!Look, Ma!Accept, Ma!Probe, Ma!Seen, Ma!Silent
<1>3. ASSUME NEW n \in Ma!Nodes,
             \/ Ma!AllOff(n) \/ Ma!StartVM(n) \/ Ma!Input(n) \/ Ma!Adopt(n) \/ Ma!LeaveAll(n) \/ Ma!Remote(n)
             \/ Ma!Cancel(n) \/ Ma!Halt(n) \/ Ma!Gone(n) \/ Ma!Arrive(n) \/ Ma!Intrude(n) \/ Ma!WorkerEnds(n)
      PROVE  noticed \subseteq noticed'
    BY <1>3 DEF Ma!AllOff, Ma!StartVM, Ma!Input, Ma!Adopt, Ma!LeaveAll, Ma!Remote, Ma!Cancel, Ma!Halt,
       Ma!Gone, Ma!Arrive, Ma!Intrude, Ma!WorkerEnds
<1>4. ASSUME Ma!Again \/ Ma!End \/ Ma!Die \/ \E phase \in {"start", "job", "stop"} : Ma!Begin(phase)
      PROVE  noticed \subseteq noticed'
    BY <1>4 DEF Ma!Again, Ma!End, Ma!Die, Ma!Begin
<1>. QED  BY <1>1, <1>2, <1>3, <1>4 DEF Ma!Next

LEMMA UnknownStays == ASSUME MachinesInv, MachinesInv', [Ma!Next]_(Ma!vars) PROVE Ma!KeepStep
<1>1. noticed' \subseteq unknown'
    BY DEF MachinesInv, Watched
<1>. QED  BY <1>1, NoticedStays DEF Ma!KeepStep

\* Backends and Machines: a receipt covers what was there when it was issued, and what it says
\* of the machines stays true until the next operation.
THEOREM ReceiptsStayTrue == Ba!Spec /\ Ma!Spec => []ReceiptsTrue
<1>1. Ba!Init => BackendsInv
    BY BackendsStarts
<1>2. BackendsInv /\ [Ba!Next]_(Ba!vars) => BackendsInv'
    BY BackendsStep
<1>3. BackendsInv => Ba!ReceiptCovers
    BY BackendsImplies
<1>4. Ma!Init => MachinesInv
    BY MachinesStart
<1>5. MachinesInv /\ [Ma!Next]_(Ma!vars) => MachinesInv'
    BY MachinesStep
<1>6. MachinesInv => Ma!ReceiptHolds
  <2>1. ASSUME MachinesInv, ctl # Ma!Idle PROVE Ma!ReceiptHolds
    BY <2>1 DEF MachinesInv, Watched, MachineTypes, PowerStates, Ma!ReceiptHolds
  <2>. QED  BY <2>1 DEF MachinesInv, Told
<1>7. Ba!ReceiptCovers /\ Ma!ReceiptHolds => ReceiptsTrue
    BY DEF ReceiptsTrue
<1>. QED  BY <1>1, <1>2, <1>3, <1>4, <1>5, <1>6, <1>7, PTL DEF Ba!Spec, Ma!Spec

\* Backends and Machines: a cleanup deletes no live record of the topic it has scanned, and no
\* machine that was seen to run unknown work is stopped.
THEOREM OthersAreKept == Ba!Spec /\ Ma!Spec => OthersKept
<1>1. Ba!Init => BackendsInv
    BY BackendsStarts
<1>2. BackendsInv /\ [Ba!Next]_(Ba!vars) => BackendsInv'
    BY BackendsStep
<1>3. BackendsInv /\ [Ba!Next]_(Ba!vars) => [Ba!DeleteStep]_backends
    BY OnlyExpired DEF Ba!vars, backends
<1>4. Ma!Init => MachinesInv
    BY MachinesStart
<1>5. MachinesInv /\ [Ma!Next]_(Ma!vars) => MachinesInv'
    BY MachinesStep
<1>6. MachinesInv /\ MachinesInv' /\ [Ma!Next]_(Ma!vars) => [Ma!KeepStep]_machines
    BY UnknownStays
<1>. QED  BY <1>1, <1>2, <1>3, <1>4, <1>5, <1>6, PTL DEF Ba!Spec, Ma!Spec, OthersKept
=============================================================================
