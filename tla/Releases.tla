------------------------------ MODULE Releases ------------------------------
(***************************************************************************)
(* The archive of real aggregate releases and their bounded copies: a run  *)
(* publishes a pair of packages in the control archive; the operator       *)
(* fetches it by way of an export directory and hands it to the analysis   *)
(* node, which publishes it in an archive of that run.  Every directory    *)
(* registers a file before it is written and removes what has expired.     *)
(***************************************************************************)
EXTENDS Integers, SequencesExt, FiniteSetsExt

CONSTANTS
    Offers,         \* pairs of packages that are offered for release
    Runs,
    Lifetime,       \* from the first reported date (90 days)
    None,
    MaxNow,         \* bound: the clock
    MaxFaults       \* bound: deaths and broken transfers

ReleasesAssumption ==
    /\ Lifetime \in Nat \ {0} /\ \A o \in Offers : o.daily.from \in Int
    /\ "control" \notin Runs

Hosts == {"control", "operator", "analysis"}
Archives == {"control"} \union Runs     \* a run's archive is on the analysis node
Broken == "broken"                      \* a file whose transfer broke off

VARIABLES
    now,
    entries, files,     \* per archive: releases its registry lists, releases on disk
    partial,            \* archives with a temporary file whose writer died
    pointer,            \* per archive: real-latest.json
    job,                \* per archive: the publisher that holds its lock
    manifest,           \* per host and run: manifest.json
    reserved,           \* per host and run: the release whose files the registry lists
    temp, pair,         \* per host and run: pair.json.tmp and pair.json
    stage,              \* the operator's stage_release: its run and next step
    faults

archive == <<entries, files, partial, pointer, job>>
copies == <<manifest, reserved, temp, pair>>
vars == <<now, archive, copies, stage, faults>>

Idle == [pc |-> "idle"]
Nothing == [h \in Hosts |-> [r \in Runs |-> None]]
Init ==
    /\ now = 0
    /\ entries = [d \in Archives |-> {}] /\ files = [d \in Archives |-> {}]
    /\ partial = {}
    /\ pointer = [d \in Archives |-> None] /\ job = [d \in Archives |-> Idle]
    /\ manifest = Nothing /\ reserved = Nothing /\ temp = Nothing /\ pair = Nothing
    /\ stage = Idle /\ faults = 0

-----------------------------------------------------------------------------
(* What may be released, and for how long. *)

Expires(x) == x.from + Lifetime
Live(x) == Expires(x) > now

\* validate_real_model, validate_manifest: the quality counters add up.
Reconciled(p) == p.quarantined = 0 /\ p.raw = p.valid + p.duplicates + p.late

\* validate_real_pair
Matched(offer) ==
    /\ Reconciled(offer.daily) /\ Reconciled(offer.behavior)
    /\ \A f \in {"snapshot", "from", "cutoff"} : offer.daily[f] = offer.behavior[f]

\* real_release: the content hash leaves the run out.
Release(offer) ==
    [run |-> offer.run, from |-> offer.daily.from, cutoff |-> offer.daily.cutoff,
     snapshot |-> offer.daily.snapshot, content |-> offer.content]

NewerOnly(old, new) == new.cutoff >= old.cutoff     \* mutant: a conflicting release replaces it
Follows(old, new) ==
    new.cutoff > old.cutoff \/ (new.cutoff = old.cutoff /\ new.content = old.content)

-----------------------------------------------------------------------------
(* An archive.  Its lock is held from Begin to Point; readers do not take it. *)

\* write_json has a temporary file until it puts it in place.
Temporary(d) == d \in partial \/ job[d].pc = "replace"

\* RealLifecycle.cleanup refuses any file that no entry lists.
Orderly(d) == files[d] \subseteq entries[d] /\ ~ Temporary(d)
Kept(S) == {x \in S : Live(x)}

\* read_real_release cleans first, and so refuses when cleanup does, and a pointer to what is
\* not listed; None when it refuses or there is nothing to read.
Pointed(d) == pointer[d] # None /\ Live(pointer[d])
Refused(d) == ~ Orderly(d) \/ (Pointed(d) /\ pointer[d] \notin entries[d])
Readable(d) == IF Pointed(d) /\ ~ Refused(d) /\ pointer[d] \in files[d] THEN pointer[d] ELSE None

\* mutant: an entry whose file is not there yet goes too
EagerClean(d) ==
    /\ Orderly(d)
    /\ entries' = [entries EXCEPT ![d] = Kept(@) \intersect files[d]] /\ files' = [files EXCEPT ![d] = Kept(@)]
    /\ UNCHANGED <<now, partial, pointer, job, copies, stage, faults>>
Clean(d) ==
    /\ Orderly(d) /\ Kept(entries[d]) # entries[d]
    /\ entries' = [entries EXCEPT ![d] = Kept(@)] /\ files' = [files EXCEPT ![d] = Kept(@)]
    /\ UNCHANGED <<now, partial, pointer, job, copies, stage, faults>>

\* mutant: the pointer is written before the file
EarlyBegin(d, x) ==
    /\ job[d] = Idle /\ ~ Refused(d)
    /\ x.cutoff <= now /\ Live(x)
    /\ Readable(d) # None => Follows(Readable(d), x)
    /\ entries' = [entries EXCEPT ![d] = Kept(@) \union {x}] /\ files' = [files EXCEPT ![d] = Kept(@)]
    /\ job' = [job EXCEPT ![d] = [pc |-> "write", release |-> x]]
    /\ pointer' = [pointer EXCEPT ![d] = x] /\ UNCHANGED partial
\* release_real up to the registration.
Begin(d, x) ==
    /\ job[d] = Idle /\ ~ Refused(d)
    /\ x.cutoff <= now /\ Live(x)
    /\ Readable(d) # None => Follows(Readable(d), x)
    /\ entries' = [entries EXCEPT ![d] = Kept(@) \union {x}] /\ files' = [files EXCEPT ![d] = Kept(@)]
    /\ job' = [job EXCEPT ![d] = [pc |-> "write", release |-> x]]
    /\ UNCHANGED <<partial, pointer>>

Publish(offer) ==
    /\ Matched(offer) /\ Begin("control", Release(offer))
    /\ UNCHANGED <<now, copies, stage, faults>>

\* write_json: the temporary file, in the way of every reader, and the release in its place.
Write(d) ==
    /\ job[d].pc = "write"
    /\ job' = [job EXCEPT ![d].pc = "replace"]
    /\ UNCHANGED <<now, entries, files, partial, pointer, copies, stage, faults>>
Replace(d) ==
    /\ job[d].pc = "replace"
    /\ files' = [files EXCEPT ![d] = @ \union {job[d].release}]
    /\ job' = [job EXCEPT ![d].pc = "point"]
    /\ UNCHANGED <<now, entries, partial, pointer, copies, stage, faults>>

\* The second cleanup refuses, or the pointer follows the file.
Point(d) ==
    /\ job[d].pc = "point"
    /\ pointer' = IF Orderly(d) /\ job[d].release \in files[d]
                  THEN [pointer EXCEPT ![d] = job[d].release] ELSE pointer
    /\ job' = [job EXCEPT ![d] = Idle]
    /\ UNCHANGED <<now, entries, files, partial, copies, stage, faults>>

\* Nobody removes the temporary file of a publisher that is gone.
Die(d) ==
    /\ job[d] # Idle /\ faults < MaxFaults
    /\ partial' = IF Temporary(d) THEN partial \union {d} ELSE partial
    /\ job' = [job EXCEPT ![d] = Idle] /\ faults' = faults + 1
    /\ UNCHANGED <<now, entries, files, pointer, copies, stage>>

\* Nor that of the registry, which every cleanup and registration writes: a reader dies in it,
\* or a publisher in its first cleanup, in its registration or in its second cleanup.
DieCleaning(d) ==
    /\ Orderly(d) /\ faults < MaxFaults
    /\ partial' = partial \union {d} /\ faults' = faults + 1
    /\ job' = job \/ (job[d].pc = "point" /\ job' = [job EXCEPT ![d] = Idle])
    /\ UNCHANGED <<now, entries, files, pointer, copies, stage>>

-----------------------------------------------------------------------------
(* Copies.  A step of stage_release that refuses or breaks off ends it.    *)

\* cleanup_copies on a host removes both files of an expired reservation; the manifest
\* stays.  It refuses a file without a reservation.
Stray(h) == {r \in Runs : reserved[h][r] = None /\ (temp[h][r] # None \/ pair[h][r] # None)}
Over(h) == {r \in Runs : reserved[h][r] # None /\ ~ Live(reserved[h][r])}
Purge(h) ==
    /\ Over(h) # {} /\ Stray(h) = {}
    /\ reserved' = [reserved EXCEPT ![h] = [r \in Runs |-> IF r \in Over(h) THEN None ELSE @[r]]]
    /\ temp' = [temp EXCEPT ![h] = [r \in Runs |-> IF r \in Over(h) THEN None ELSE @[r]]]
    /\ pair' = [pair EXCEPT ![h] = [r \in Runs |-> IF r \in Over(h) THEN None ELSE @[r]]]
    /\ UNCHANGED <<now, archive, manifest, stage, faults>>

\* The step of stage_release on a host, and the one after it.
Step(pc, h, next, g) == stage.pc = pc /\ stage.host = h /\ stage' = [stage EXCEPT !.pc = next, !.host = g]

\* reserve: only the first manifest of a run, before any byte of the pair.
Reservable(h, r, x) ==
    /\ Live(x) /\ manifest[h][r] \in {None, x}
    /\ reserved[h][r] # None => reserved[h][r].from = x.from
Reserve(h, r, x) ==
    /\ Reservable(h, r, x)
    /\ reserved' = [reserved EXCEPT ![h][r] = x] /\ manifest' = [manifest EXCEPT ![h][r] = x]

Exportable(r) == Readable("control") # None /\ Readable("control").run = r

\* export: what the archive shows now, if it is the requested run.
Export ==
    /\ Step("export", "control", "manifest", "operator")
    /\ LET r == stage.run
       IN  /\ Exportable(r) /\ Reserve("control", r, Readable("control"))
           /\ pair["control"][r] \in {None, Readable("control")}
           /\ pair' = [pair EXCEPT !["control"][r] = Readable("control")]
    /\ UNCHANGED <<now, archive, temp, faults>>

\* The manifest, which does not change any more, travels; the receiving host reserves.
Sender(h) == IF h = "operator" THEN "control" ELSE "operator"
SendManifest(h) ==
    /\ Step("manifest", h, "pair", h)
    /\ Reserve(h, stage.run, manifest[Sender(h)][stage.run])
    /\ UNCHANGED <<now, archive, temp, pair, faults>>

\* The pair travels into the reserved temporary file.
SendPair(h) ==
    /\ Step("pair", h, "accept", h)
    /\ pair[Sender(h)][stage.run] # None
    /\ temp' = [temp EXCEPT ![h][stage.run] = pair[Sender(h)][stage.run]]
    /\ UNCHANGED <<now, archive, manifest, reserved, pair, faults>>
BreakOff ==
    /\ stage.pc = "pair" /\ faults < MaxFaults
    /\ temp' = [temp EXCEPT ![stage.host][stage.run] = Broken]
    /\ stage' = Idle /\ faults' = faults + 1
    /\ UNCHANGED <<now, archive, manifest, reserved, pair>>

\* accept: the bytes the manifest names, never other bytes than before; on the analysis
\* node the run's archive is published from them.
Accept(h) ==
    /\ IF h = "operator" THEN Step("accept", h, "manifest", "analysis") ELSE Step("accept", h, "idle", h)
    /\ LET r == stage.run x == manifest[h][r]
       IN  /\ x # None /\ Live(x) /\ reserved[h][r] # None /\ temp[h][r] = x
           /\ pair[h][r] \in {None, x}
           /\ pair' = [pair EXCEPT ![h][r] = x] /\ temp' = [temp EXCEPT ![h][r] = None]
           /\ IF h = "analysis" THEN Begin(r, x) ELSE UNCHANGED archive
    /\ UNCHANGED <<now, manifest, reserved, faults>>

Request(r) ==
    /\ stage.pc = "idle"
    /\ stage' = [pc |-> "export", host |-> "control", run |-> r]
    /\ UNCHANGED <<now, archive, copies, faults>>
GiveUp ==
    /\ stage.pc # "idle" /\ stage' = Idle
    /\ UNCHANGED <<now, archive, copies, faults>>

Tick ==
    /\ now < MaxNow /\ now' = now + 1
    /\ UNCHANGED <<archive, copies, stage, faults>>

CleanUp == (\E d \in Archives : Clean(d)) \/ (\E h \in Hosts : Purge(h))
Next ==
    \/ Tick \/ CleanUp
    \/ \E o \in Offers : Publish(o)
    \/ \E d \in Archives : Write(d) \/ Replace(d) \/ Point(d) \/ Die(d) \/ DieCleaning(d)
    \/ \E r \in Runs : Request(r)
    \/ GiveUp \/ Export \/ BreakOff
    \/ \E h \in Hosts \ {"control"} : SendManifest(h) \/ SendPair(h) \/ Accept(h)

Spec == Init /\ [][Next]_vars

-----------------------------------------------------------------------------
(* Correctness. *)

\* What makes every reader and publisher refuse: a release that is being written, a temporary
\* file whose writer died, and a release that was removed from the registry, because it
\* expired, before it was put in place.  Only the first of them ends by itself.
Obstructed(d) ==
    \/ job[d].pc = "replace"
    \/ d \in partial
    \/ \E x \in files[d] \ entries[d] : ~ Live(x)

\* A pointer designates a whole registered file until it expires, whatever dies, and never a
\* pair whose packages do not match; it can be read unless the archive is obstructed by one of
\* three kinds of files, none of which is the one it designates (release_real, read_real_release).
PointerReadable ==
    \A d \in Archives :
        LET p == pointer[d]
        IN  Pointed(d) =>
                /\ p \in files[d] \cap entries[d]
                /\ Readable(d) = p \/ Obstructed(d)
                /\ \E o \in Offers : Matched(o) /\ Release(o) = p
                /\ d # "control" => p.run = d /\ p = manifest["analysis"][d]

\* While a release lives no other one replaces it unless it is newer: not an older cutoff,
\* nor other content for the same cutoff (release_real under its lock).
ReplaceStep ==
    \A d \in Archives : pointer[d] # pointer'[d] /\ pointer[d] # None /\ Live(pointer[d])
        => \/ pointer'[d].cutoff > pointer[d].cutoff
           \/ /\ pointer'[d].cutoff = pointer[d].cutoff
              /\ pointer'[d].content = pointer[d].content
NeverBackwards == [][ReplaceStep]_vars

\* Copies of a run are the same bytes on every host, those of one release of that run, and
\* nothing of a pair lies anywhere without a reservation that will remove it, unless it was
\* still being copied when it expired (reserve, accept, cleanup_copies).
CopiesAgree ==
    \A h \in Hosts, r \in Runs :
        /\ pair[h][r] # None => pair[h][r].run = r /\ pair[h][r] = manifest["control"][r]
        /\ r \in Stray(h) => ~ Live(manifest[h][r])
        /\ reserved[h][r] # None => Expires(reserved[h][r]) = Expires(manifest["control"][r])
=============================================================================
