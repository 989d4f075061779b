----------------------------- MODULE RiskBuild -----------------------------
(***************************************************************************)
(* Risk builds (src/src/modules/risk): runRiskBuild with its Redis lock,   *)
(* the market regime with its persistence rule, publishRiskSnapshot, the   *)
(* documents written after it, replays of an earlier build, and the        *)
(* readers of the published snapshot.                                      *)
(*                                                                         *)
(* One action is one awaited call that others can see.  Factors, scores and *)
(* ranks are one function of the universe; what they leave behind is the   *)
(* band of the median score.  Caches with a TTL (coins, top movers) and the *)
(* staging manifest, which nobody reads, are left out.                     *)
(***************************************************************************)
EXTENDS Integers, FiniteSets, FiniteSetsExt

CONSTANTS
    Coordinators,  \* processes whose cron or admin request runs a production build
    Replays,       \* runRiskReplay requests
    Readers,       \* requests to riskReadService, each served once
    Nobody,        \* lock key absent
    Nothing,       \* key absent
    Shards,        \* shard ids of a large universe
    Bands,         \* bands of the median score that occur
    Persistence,   \* riskConfig.regimePersistenceBuilds
    MaxBuilds,     \* bound: production builds
    MaxThrows,     \* bound: calls that fail
    MaxCrashes,    \* bound: processes that die
    MaxEvents,     \* bound: builds and whatever disturbs them, together
    LockMayLapse   \* may buildLockTtlSec end while the build still runs?

ASSUME RiskAssumption ==
    /\ Coordinators \cap Replays = {}
    /\ Nobody \notin Coordinators
    /\ 0 \in Shards /\ Shards \subseteq Nat /\ IsFiniteSet(Shards)
    /\ Bands \subseteq 1 .. 7
    /\ Persistence \in Nat /\ MaxBuilds \in Nat
    /\ MaxThrows \in Nat /\ MaxCrashes \in Nat /\ MaxEvents \in Nat
    /\ LockMayLapse \in BOOLEAN

Runners == Coordinators \cup Replays
Builds == 1 .. MaxBuilds
Regimes == {"low_risk", "normal", "elevated", "panic", "euphoric"}

\* Between SET NX and DEL of the lock, in the order of the calls.
BuildPC == {"freeze", "prior", "regime", "clear", "get", "set", "private", "stage",
            "bump", "fetch", "activate", "manifest", "snapshot", "feed", "unstage",
            "rows", "persist", "record", "release"}

VARIABLES
    lock,       \* build lock: the coordinator that set it, or Nobody
    frozen,     \* builds whose RrsBuildUniverse document exists
    recorded,   \* per build: revision in that document, 0 if none yet
    revision,   \* production revision counter
    staging,    \* per shard: staging key
    active,     \* per shard: active key
    manifest, snapshot,  \* production keys, each [rev, build, ...]
    feed,       \* revision of the last message on the feed channel
    rows,       \* RiskSnapshot documents (replaced together): [rev, build]
    regimes,    \* RiskRegime documents of scope market: [rev, regime]
    candidate,  \* regime candidate key: [regime, count]
    pc, work,   \* per runner: next call and local variables
    seen,       \* per reader: what its two GETs returned
    published,  \* history: revision each build drew from the counter
    recent,     \* history: regime proposed by the latest detections, newest first
    disturbed,  \* history: did a build ever lose its lock while it ran?
    throws, crashes

lockVars == <<lock, disturbed>>
keyVars == <<revision, staging, active, manifest, snapshot, feed, published>>
docVars == <<frozen, recorded, rows, regimes>>
regimeVars == <<candidate, recent>>
faults == <<throws, crashes>>
vars == <<lockVars, keyVars, docVars, regimeVars, pc, work, seen, faults>>

NoWork == [build |-> 0, shards |-> {}, todo |-> {}, rev |-> 0, copy |-> Nothing,
           previous |-> "normal", regime |-> "normal", count |-> 0]

Init ==
    /\ lock = Nobody /\ disturbed = FALSE
    /\ frozen = {} /\ recorded = [b \in Builds |-> 0]
    /\ revision = 0 /\ published = [b \in Builds |-> 0]
    /\ staging = [s \in Shards |-> Nothing] /\ active = [s \in Shards |-> Nothing]
    /\ manifest = Nothing /\ snapshot = Nothing /\ feed = 0
    /\ rows = Nothing /\ regimes = {}
    /\ candidate = Nothing /\ recent = <<>>
    /\ pc = [r \in Runners |-> "idle"] /\ work = [r \in Runners |-> NoWork]
    /\ seen = [q \in Readers |-> [at |-> "idle", snapshot |-> Nothing, manifest |-> Nothing]]
    /\ throws = 0 /\ crashes = 0

Goto(r, next) == pc' = [pc EXCEPT ![r] = next]
Set(r, field, value) == work' = [work EXCEPT ![r][field] = value]
Building(r) == pc[r] \in BuildPC

\* The joint bound.  A replay, which runs beside the builds,
\* weighs as much as three of them, a lost lock as four.
Room(weight) ==
    Cardinality(frozen) + throws + crashes + (IF disturbed THEN 4 ELSE 0)
        + 3 * Cardinality({p \in Replays : pc[p] # "idle"}) + weight <= MaxEvents

---------------------------------------------------------------------------
(* runRiskBuild up to the regime.                                           *)

\* Slip: SET EX without NX.
StartAlways(r) ==
    /\ r \in Coordinators /\ pc[r] = "idle"
    /\ lock' = r
    /\ Goto(r, "freeze")
    /\ UNCHANGED <<disturbed, keyVars, docVars, regimeVars, work, seen, faults>>

\* acquireBuildLock; a coordinator that finds the key set gives up at once.
Start(r) ==
    /\ r \in Coordinators /\ pc[r] = "idle"
    /\ lock = Nobody /\ lock' = r
    /\ Goto(r, "freeze")
    /\ UNCHANGED <<disturbed, keyVars, docVars, regimeVars, work, seen, faults>>

\* A universe above shardThreshold is split over all shards.
SplitChoices == {{0}, Shards}

\* freezeRrsUniverse under a fresh build id.
Freeze(r) ==
    /\ pc[r] = "freeze" /\ Cardinality(frozen) < MaxBuilds /\ Room(1)
    /\ LET b == Cardinality(frozen) + 1
       IN  /\ frozen' = frozen \cup {b}
           /\ \E split \in SplitChoices :
                 work' = [work EXCEPT ![r] = [NoWork EXCEPT !.build = b, !.shards = split]]
    /\ Goto(r, "prior")
    /\ UNCHANGED <<lockVars, keyVars, recorded, rows, regimes, regimeVars, seen, faults>>

\* runRiskReplay: acquireBuildLock refuses a replay and the build goes on
\* without the lock, on the universe of an earlier build.
StartReplay(r) ==
    /\ r \in Replays /\ pc[r] = "idle" /\ Room(3)
    /\ \E b \in frozen :
          work' = [work EXCEPT ![r] = [NoWork EXCEPT !.build = b]]
    /\ Goto(r, "prior")
    /\ UNCHANGED <<lockVars, keyVars, docVars, regimeVars, seen, faults>>

\* GET of the production revision, scores, validateRiskBuild: a production
\* build that fails it returns through finally.
ReadPrior(r, ok) ==
    /\ pc[r] = "prior"
    /\ Set(r, "rev", revision + 1)
    /\ Goto(r, IF ok \/ r \in Replays THEN "regime" ELSE "release")
    /\ UNCHANGED <<lockVars, keyVars, docVars, regimeVars, seen, faults>>

---------------------------------------------------------------------------
(* detectMarketRegime.  The thresholds .25 .35 .58 .65 .72 .8 cut the median *)
(* score into bands 1 to 7.                                                 *)

Candidate(band) ==
    CASE band = 7 -> "panic"
      [] band \in {5, 6} -> "elevated"
      [] band = 1 -> "euphoric"
      [] band = 2 -> "low_risk"
      [] OTHER -> "normal"

Proposal(previous, band) ==
    CASE previous = "panic" -> IF band <= 5 THEN "elevated" ELSE "panic"
      [] previous = "elevated" -> IF band = 7 THEN "panic"
                                  ELSE IF band <= 3 THEN "normal" ELSE "elevated"
      [] OTHER -> Candidate(band)

\* The documents a query sorted by falling revision may return first.
Latest == {d \in regimes : \A e \in regimes : e.rev <= d.rev}

DetectRegime(r, band) ==
    /\ pc[r] = "regime"
    /\ \E previous \in IF regimes = {} THEN {"normal"} ELSE {d.regime : d \in Latest} :
          LET proposal == Proposal(previous, band)
          IN  /\ work' = [work EXCEPT ![r].previous = previous, ![r].regime = proposal]
              /\ recent' = [k \in 1 .. Persistence |->
                              IF k = 1 THEN proposal
                              ELSE IF k - 1 \in DOMAIN recent THEN recent[k - 1] ELSE "none"]
              /\ Goto(r, IF proposal = previous THEN "clear" ELSE "get")
    /\ UNCHANGED <<lockVars, keyVars, docVars, candidate, seen, faults>>

Publishing(r) == IF r \in Replays THEN "private" ELSE "stage"

\* Slip: a build without a change keeps the candidate.
KeepCandidate(r) ==
    /\ pc[r] = "clear"
    /\ work' = [work EXCEPT ![r].todo = work[r].shards]
    /\ Goto(r, Publishing(r))
    /\ UNCHANGED <<lockVars, keyVars, docVars, regimeVars, seen, faults>>

ClearCandidate(r) ==
    /\ pc[r] = "clear"
    /\ candidate' = Nothing
    /\ work' = [work EXCEPT ![r].todo = work[r].shards]
    /\ Goto(r, Publishing(r))
    /\ UNCHANGED <<lockVars, keyVars, docVars, recent, seen, faults>>

GetCandidate(r) ==
    /\ pc[r] = "get"
    /\ Set(r, "count", IF candidate # Nothing /\ candidate.regime = work[r].regime
                       THEN candidate.count ELSE 0)
    /\ Goto(r, "set")
    /\ UNCHANGED <<lockVars, keyVars, docVars, regimeVars, seen, faults>>

\* The change waits until it was proposed often enough.
SetCandidate(r) ==
    /\ pc[r] = "set"
    /\ LET count == work[r].count + 1
       IN  /\ candidate' = [regime |-> work[r].regime, count |-> count]
           /\ work' = [work EXCEPT ![r].todo = work[r].shards,
                                   ![r].regime = IF count < Persistence
                                                 THEN work[r].previous ELSE @]
    /\ Goto(r, Publishing(r))
    /\ UNCHANGED <<lockVars, keyVars, docVars, recent, seen, faults>>

\* A Redis error is swallowed; in the middle of a change it lets the change through.
CandidateThrows(r) ==
    /\ pc[r] \in {"clear", "get", "set"}
    /\ Room(1) /\ throws < MaxThrows /\ throws' = throws + 1
    /\ work' = [work EXCEPT ![r].todo = work[r].shards]
    /\ Goto(r, Publishing(r))
    /\ UNCHANGED <<lockVars, keyVars, docVars, regimeVars, seen, crashes>>

---------------------------------------------------------------------------
(* publishRiskSnapshot.                                                     *)

\* A replay has keys of its own under a fresh replayId, so its revision is 1.
PublishPrivately(r) ==
    /\ pc[r] = "private"
    /\ Set(r, "rev", 1)
    /\ Goto(r, "rows")
    /\ UNCHANGED <<lockVars, keyVars, docVars, regimeVars, seen, faults>>

Payload(r) == [rev |-> work[r].rev, build |-> work[r].build]

\* One SET, GET or DEL per shard; the last one moves on.
NextShard(r, s, again, next) ==
    /\ s = Min(work[r].todo)
    /\ Goto(r, IF work[r].todo = {s} THEN next ELSE again)

\* Slip: SET NX, so what a dead build staged survives.
StageOnce(r, s) ==
    /\ pc[r] = "stage"
    /\ NextShard(r, s, "stage", "bump")
    /\ staging' = [staging EXCEPT ![s] = IF @ = Nothing THEN Payload(r) ELSE @]
    /\ Set(r, "todo", work[r].todo \ {s})
    /\ UNCHANGED <<lockVars, revision, active, manifest, snapshot, feed, published,
                   docVars, regimeVars, seen, faults>>

\* The payload carries the revision the build expects to draw.
StageShard(r, s) ==
    /\ pc[r] = "stage"
    /\ NextShard(r, s, "stage", "bump")
    /\ staging' = [staging EXCEPT ![s] = Payload(r)]
    /\ Set(r, "todo", work[r].todo \ {s})
    /\ UNCHANGED <<lockVars, revision, active, manifest, snapshot, feed, published,
                   docVars, regimeVars, seen, faults>>

\* Slip: the shards to copy are not listed again.
IncrKeepsList(r) ==
    /\ pc[r] = "bump"
    /\ revision' = revision + 1
    /\ published' = [published EXCEPT ![work[r].build] = revision + 1]
    /\ work' = [work EXCEPT ![r].rev = revision + 1]
    /\ Goto(r, "fetch")
    /\ UNCHANGED <<lockVars, staging, active, manifest, snapshot, feed,
                   docVars, regimeVars, seen, faults>>

\* Slip: the next number is computed and not stored.
IncrNotStored(r) ==
    /\ pc[r] = "bump"
    /\ work' = [work EXCEPT ![r].rev = revision + 1, ![r].todo = work[r].shards]
    /\ Goto(r, "fetch")
    /\ UNCHANGED <<lockVars, revision, staging, active, manifest, snapshot, feed, published,
                   docVars, regimeVars, seen, faults>>

\* Slip: the full snapshot is written before shards and manifest.
IncrAndSnapshot(r) ==
    /\ pc[r] = "bump"
    /\ revision' = revision + 1
    /\ published' = [published EXCEPT ![work[r].build] = revision + 1]
    /\ work' = [work EXCEPT ![r].rev = revision + 1, ![r].todo = work[r].shards]
    /\ snapshot' = [rev |-> revision + 1, build |-> work[r].build]
    /\ Goto(r, "fetch")
    /\ UNCHANGED <<lockVars, staging, active, manifest, feed,
                   docVars, regimeVars, seen, faults>>

IncrRevision(r) ==
    /\ pc[r] = "bump"
    /\ revision' = revision + 1
    /\ published' = [published EXCEPT ![work[r].build] = revision + 1]
    /\ work' = [work EXCEPT ![r].rev = revision + 1, ![r].todo = work[r].shards]
    /\ Goto(r, "fetch")
    /\ UNCHANGED <<lockVars, staging, active, manifest, snapshot, feed,
                   docVars, regimeVars, seen, faults>>

FetchShard(r, s) ==
    /\ pc[r] = "fetch" /\ s = Min(work[r].todo)
    /\ Set(r, "copy", staging[s])
    /\ Goto(r, "activate")
    /\ UNCHANGED <<lockVars, keyVars, docVars, regimeVars, seen, faults>>

\* A shard whose staging key is gone keeps its old payload.
ActivateShard(r, s) ==
    /\ pc[r] = "activate"
    /\ NextShard(r, s, "fetch", "manifest")
    /\ active' = [active EXCEPT ![s] = IF work[r].copy = Nothing THEN @ ELSE work[r].copy]
    /\ Set(r, "todo", work[r].todo \ {s})
    /\ UNCHANGED <<lockVars, revision, staging, manifest, snapshot, feed, published,
                   docVars, regimeVars, seen, faults>>

\* Slip: the revision is announced together with its manifest.
WriteAndAnnounce(r) ==
    /\ pc[r] = "manifest"
    /\ manifest' = [rev |-> work[r].rev, build |-> work[r].build, shards |-> work[r].shards]
    /\ feed' = work[r].rev
    /\ Goto(r, "snapshot")
    /\ UNCHANGED <<lockVars, revision, staging, active, snapshot, published,
                   docVars, regimeVars, work, seen, faults>>

WriteManifest(r) ==
    /\ pc[r] = "manifest"
    /\ manifest' = [rev |-> work[r].rev, build |-> work[r].build, shards |-> work[r].shards]
    /\ Goto(r, "snapshot")
    /\ UNCHANGED <<lockVars, revision, staging, active, snapshot, feed, published,
                   docVars, regimeVars, work, seen, faults>>

WriteSnapshot(r) ==
    /\ pc[r] = "snapshot"
    /\ snapshot' = Payload(r)
    /\ Goto(r, "feed")
    /\ UNCHANGED <<lockVars, revision, staging, active, manifest, feed, published,
                   docVars, regimeVars, work, seen, faults>>

PublishFeed(r) ==
    /\ pc[r] = "feed"
    /\ feed' = work[r].rev
    /\ Set(r, "todo", work[r].shards)
    /\ Goto(r, "unstage")
    /\ UNCHANGED <<lockVars, revision, staging, active, manifest, snapshot, published,
                   docVars, regimeVars, seen, faults>>

UnstageShard(r, s) ==
    /\ pc[r] = "unstage"
    /\ NextShard(r, s, "unstage", "rows")
    /\ staging' = [staging EXCEPT ![s] = Nothing]
    /\ Set(r, "todo", work[r].todo \ {s})
    /\ UNCHANGED <<lockVars, revision, active, manifest, snapshot, feed, published,
                   docVars, regimeVars, seen, faults>>

---------------------------------------------------------------------------
(* The documents, and finally.                                              *)

WriteRows(r) ==
    /\ pc[r] = "rows"
    /\ rows' = Payload(r)
    /\ Goto(r, "persist")
    /\ UNCHANGED <<lockVars, keyVars, frozen, recorded, regimes, regimeVars,
                   work, seen, faults>>

PersistRegimes(r) ==
    /\ pc[r] = "persist"
    /\ regimes' = regimes \cup {[rev |-> work[r].rev, regime |-> work[r].regime]}
    /\ Goto(r, "record")
    /\ UNCHANGED <<lockVars, keyVars, frozen, recorded, rows, regimeVars,
                   work, seen, faults>>

RecordRevision(r) ==
    /\ pc[r] = "record"
    /\ recorded' = [recorded EXCEPT ![work[r].build] = work[r].rev]
    /\ Goto(r, "release")
    /\ UNCHANGED <<lockVars, keyVars, frozen, rows, regimes, regimeVars,
                   work, seen, faults>>

Over(r) == /\ Goto(r, IF r \in Replays THEN "done" ELSE "idle")
           /\ work' = [work EXCEPT ![r] = NoWork]

\* releaseBuildLock: DEL, whoever set the key; a replay deletes it as well.
Release(r) ==
    /\ pc[r] = "release"
    /\ lock' = Nobody
    /\ disturbed' = (disturbed \/ lock \notin {Nobody, r})
    /\ Over(r)
    /\ UNCHANGED <<keyVars, docVars, regimeVars, seen, faults>>

\* A call in the try throws; the DEL in finally throws.
Throws(r) ==
    /\ pc[r] \in BuildPC \ {"clear", "get", "set"}
    /\ Room(1) /\ throws < MaxThrows /\ throws' = throws + 1
    /\ IF pc[r] = "release" THEN Over(r) ELSE Goto(r, "release") /\ UNCHANGED work
    /\ UNCHANGED <<lockVars, keyVars, docVars, regimeVars, seen, crashes>>

Crash(r) ==
    /\ Building(r)
    /\ Room(1) /\ crashes < MaxCrashes /\ crashes' = crashes + 1
    /\ Over(r)
    /\ UNCHANGED <<lockVars, keyVars, docVars, regimeVars, seen, throws>>

\* EX buildLockTtlSec runs out; nothing renews it.
LockExpires ==
    /\ lock # Nobody
    /\ Building(lock) => LockMayLapse /\ Room(4)
    /\ lock' = Nobody
    /\ disturbed' = (disturbed \/ Building(lock))
    /\ UNCHANGED <<keyVars, docVars, regimeVars, pc, work, seen, faults>>

---------------------------------------------------------------------------
(* riskReadService.getSnapshot (and getTopRisk): GET snapshot, GET manifest. *)

ReadSnapshot(q) ==
    /\ seen[q].at = "idle"
    /\ seen' = [seen EXCEPT ![q] = [at |-> "half", snapshot |-> snapshot, manifest |-> Nothing]]
    /\ UNCHANGED <<lockVars, keyVars, docVars, regimeVars, pc, work, faults>>

ReadManifest(q) ==
    /\ seen[q].at = "half"
    /\ seen' = [seen EXCEPT ![q].at = "done", ![q].manifest = manifest]
    /\ UNCHANGED <<lockVars, keyVars, docVars, regimeVars, pc, work, faults>>

---------------------------------------------------------------------------
BuildStep(r) ==
    \/ Start(r) \/ Freeze(r) \/ StartReplay(r)
    \/ \E ok \in BOOLEAN : ReadPrior(r, ok)
    \/ \E band \in Bands : DetectRegime(r, band)
    \/ ClearCandidate(r) \/ GetCandidate(r) \/ SetCandidate(r)

PublishStep(r) ==
    \/ PublishPrivately(r) \/ IncrRevision(r)
    \/ \E s \in work[r].todo : \/ StageShard(r, s) \/ FetchShard(r, s)
                               \/ ActivateShard(r, s) \/ UnstageShard(r, s)
    \/ WriteManifest(r) \/ WriteSnapshot(r) \/ PublishFeed(r)
    \/ WriteRows(r) \/ PersistRegimes(r) \/ RecordRevision(r) \/ Release(r)

ReadStep(q) == ReadSnapshot(q) \/ ReadManifest(q)

Next ==
    \/ \E r \in Runners : \/ BuildStep(r) \/ PublishStep(r)
                          \/ CandidateThrows(r) \/ Throws(r) \/ Crash(r)
    \/ \E q \in Readers : ReadStep(q)
    \/ LockExpires

Spec == Init /\ [][Next]_vars

---------------------------------------------------------------------------
Stamp == [rev : Nat, build : Nat]
Manifest == [rev : Nat, build : Nat, shards : SUBSET Shards]
Work == [build : Nat, shards : SUBSET Shards, todo : SUBSET Shards, rev : Nat,
         copy : Stamp \cup {Nothing}, previous : Regimes, regime : Regimes, count : Nat]
Answer == [at : {"idle", "half", "done"}, snapshot : Stamp \cup {Nothing},
           manifest : Manifest \cup {Nothing}]

ASSUME NothingIsNoValue == Nothing \notin Stamp \cup Manifest

TypeOK ==
    /\ lock \in Coordinators \cup {Nobody} /\ disturbed \in BOOLEAN
    /\ frozen \in SUBSET Builds /\ recorded \in [Builds -> Nat]
    /\ revision \in Nat /\ published \in [Builds -> 0 .. revision]
    /\ staging \in [Shards -> Stamp \cup {Nothing}]
    /\ active \in [Shards -> Stamp \cup {Nothing}]
    /\ manifest \in Manifest \cup {Nothing}
    /\ snapshot \in Stamp \cup {Nothing} /\ feed \in Nat
    /\ rows \in Stamp \cup {Nothing}
    /\ regimes \in SUBSET [rev : Nat, regime : Regimes]
    /\ candidate \in [regime : Regimes, count : Nat] \cup {Nothing}
    /\ pc \in [Runners -> BuildPC \cup {"idle", "done"}]
    /\ \A r \in Runners :
          pc[r] \in {"stage", "fetch", "activate", "unstage"} => work[r].todo # {}
    /\ work \in [Runners -> Work]
    /\ seen \in [Readers -> Answer]
    /\ throws \in Nat /\ crashes \in Nat

\* As long as no build loses its lock on the way (to the TTL, or to a replay
\* that deletes it), production builds never overlap, although the DEL in
\* finally asks nobody: a coordinator without the lock never gets there.
OneBuild ==
    ~ disturbed => \A q, r \in Coordinators : Building(q) /\ Building(r) => q = r

\* riskReadService takes the snapshot first and the manifest second, while
\* publishRiskSnapshot writes them the other way round: no answer ever combines
\* a snapshot with an older manifest or with none.
ReaderNotAhead ==
    \A q \in Readers :
        ~ disturbed /\ seen[q].at = "done" /\ seen[q].snapshot # Nothing =>
            /\ seen[q].manifest # Nothing
            /\ seen[q].snapshot.rev <= seen[q].manifest.rev
            /\ seen[q].snapshot.rev = seen[q].manifest.rev =>
                  seen[q].snapshot.build = seen[q].manifest.build

\* A client that hears of a revision on the feed can already read it.
AnnouncedIsReadable ==
    ~ disturbed /\ feed > 0 => snapshot # Nothing /\ feed <= snapshot.rev

\* Both: what readers and the feed's clients are told is there.
ReadersAreServed == ReaderNotAhead /\ AnnouncedIsReadable

\* While the manifest is the newest revision, every shard it lists is of that
\* revision and build: a build that died half-way leaves nothing that a later
\* manifest would vouch for, and the payload's expected revision was right.
ShardsMatchManifest ==
    ~ disturbed /\ manifest # Nothing /\ manifest.rev = revision =>
        \A s \in manifest.shards :
            active[s] = [rev |-> manifest.rev, build |-> manifest.build]

\* The published revision only grows.
PublishedRevisionGrows ==
    [][~ disturbed /\ manifest # Nothing => manifest'.rev > manifest.rev]_manifest

\* detectMarketRegime's hysteresis: without faults and replays, the market regime
\* changes only to one that the last regimePersistenceBuilds builds all proposed.
Current == IF regimes = {} THEN {"normal"} ELSE {d.regime : d \in Latest}
RegimeChangeWasProposed ==
    [][\A d \in regimes' \ regimes :
          /\ ~ disturbed /\ throws = 0 /\ crashes = 0
          /\ \A r \in Replays : pc[r] = "idle"
          /\ d.regime \notin Current
          => \A k \in 1 .. Persistence : recent[k] = d.regime]_regimes

\* The comment above runRiskReplay: a replay never touches production revision.
\* The revision a production build left in its document stays as it is.
ReplayIsIsolated ==
    [][\A b \in Builds : recorded[b] # 0 => recorded'[b] = recorded[b]]_recorded
=============================================================================
