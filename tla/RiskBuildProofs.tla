-------------------------- MODULE RiskBuildProofs --------------------------
(***************************************************************************)
(* Theorems about RiskBuild, for any number of coordinators, replays,      *)
(* readers, shards and builds, and any failures.                           *)
(***************************************************************************)
EXTENDS RiskBuild, FiniteSetTheorems, TLAPS

---------------------------------------------------------------------------
(* Type correctness.                                                        *)

\* A production build has shards as soon as its universe is frozen, and whoever
\* publishes shard by shard is one.
ShardLoop == {"stage", "bump", "fetch", "activate", "manifest", "snapshot", "feed", "unstage"}
ShardsAtHand ==
    /\ \A r \in Runners : pc[r] \in ShardLoop => work[r].shards # {}
    /\ \A r \in Coordinators :
          pc[r] \notin {"idle", "done", "freeze", "release"} => work[r].shards # {}

TInv == TypeOK /\ ShardsAtHand

\* A conjunct of TypeOK.
LoopHasShard ==
    \A r \in Runners :
        pc[r] \in {"stage", "fetch", "activate", "unstage"} => work[r].todo # {}

LEMMA Calls ==
    /\ "freeze" \in BuildPC /\ "prior" \in BuildPC /\ "regime" \in BuildPC
    /\ "clear" \in BuildPC /\ "get" \in BuildPC /\ "set" \in BuildPC
    /\ "private" \in BuildPC /\ "stage" \in BuildPC /\ "bump" \in BuildPC
    /\ "fetch" \in BuildPC /\ "activate" \in BuildPC /\ "manifest" \in BuildPC
    /\ "snapshot" \in BuildPC /\ "feed" \in BuildPC /\ "unstage" \in BuildPC
    /\ "rows" \in BuildPC /\ "persist" \in BuildPC /\ "record" \in BuildPC
    /\ "release" \in BuildPC /\ "idle" \notin BuildPC /\ "done" \notin BuildPC
    BY DEF BuildPC

LEMMA CoordinatorRuns == \A r \in Coordinators : r \in Runners
    BY DEF Runners

LEMMA NextBuild ==
    ASSUME frozen \in SUBSET Builds, Cardinality(frozen) < MaxBuilds
    PROVE  Cardinality(frozen) + 1 \in Builds
<1>1. IsFiniteSet(Builds) BY RiskAssumption, FS_Interval DEF Builds
<1>2. Cardinality(frozen) \in Nat BY <1>1, FS_Subset, FS_CardinalityType
<1> QED BY <1>2, RiskAssumption DEF Builds

\* Every transition of the regime automaton ends in a regime.
LEMMA ProposalType ==
    ASSUME NEW previous \in Regimes, NEW band
    PROVE  Proposal(previous, band) \in Regimes
<1>1. Candidate(band) \in Regimes
  BY DEF Candidate, Regimes
<1> QED BY <1>1 DEF Proposal, Regimes

LEMMA NoWorkType == NoWork \in Work
    BY DEF NoWork, Work, Regimes

\* The assignments to local variables, and what they leave alone.
LEMMA Assign ==
    ASSUME work \in [Runners -> Work], NEW r \in Runners
    PROVE  /\ \A n \in Nat : [work EXCEPT ![r].rev = n] \in [Runners -> Work]
           /\ \A t \in SUBSET Shards : [work EXCEPT ![r].todo = t] \in [Runners -> Work]
           /\ \A n \in Nat, t \in SUBSET Shards :
                 [work EXCEPT ![r].rev = n, ![r].todo = t] \in [Runners -> Work]
           /\ \A p \in Regimes, g \in Regimes :
                 [work EXCEPT ![r].previous = p, ![r].regime = g] \in [Runners -> Work]
           /\ \A t \in SUBSET Shards, g \in Regimes :
                 [work EXCEPT ![r].todo = t, ![r].regime = g] \in [Runners -> Work]
<1>1. work[r] \in Work
  OBVIOUS
<1>2. \A v \in Work : [work EXCEPT ![r] = v] \in [Runners -> Work]
  OBVIOUS
<1>3. ASSUME NEW n \in Nat PROVE [work EXCEPT ![r].rev = n] \in [Runners -> Work]
  <2>1. [work[r] EXCEPT !.rev = n] \in Work BY <1>1 DEF Work
  <2> QED BY <1>2, <2>1
<1>4. ASSUME NEW t \in SUBSET Shards
      PROVE  [work EXCEPT ![r].todo = t] \in [Runners -> Work]
  <2>1. [work[r] EXCEPT !.todo = t] \in Work BY <1>1 DEF Work
  <2> QED BY <1>2, <2>1
<1>5. ASSUME NEW n \in Nat, NEW t \in SUBSET Shards
      PROVE  [work EXCEPT ![r].rev = n, ![r].todo = t] \in [Runners -> Work]
  <2>1. [work[r] EXCEPT !.rev = n, !.todo = t] \in Work BY <1>1 DEF Work
  <2>2. [work EXCEPT ![r].rev = n, ![r].todo = t]
           = [work EXCEPT ![r] = [work[r] EXCEPT !.rev = n, !.todo = t]]
    OBVIOUS
  <2> QED BY <1>2, <2>1, <2>2
<1>6. ASSUME NEW p \in Regimes, NEW g \in Regimes
      PROVE  [work EXCEPT ![r].previous = p, ![r].regime = g] \in [Runners -> Work]
  <2>1. [work[r] EXCEPT !.previous = p, !.regime = g] \in Work BY <1>1 DEF Work
  <2>2. [work EXCEPT ![r].previous = p, ![r].regime = g]
           = [work EXCEPT ![r] = [work[r] EXCEPT !.previous = p, !.regime = g]]
    OBVIOUS
  <2> QED BY <1>2, <2>1, <2>2
<1>7. ASSUME NEW t \in SUBSET Shards, NEW g \in Regimes
      PROVE  [work EXCEPT ![r].todo = t, ![r].regime = g] \in [Runners -> Work]
  <2>1. [work[r] EXCEPT !.todo = t, !.regime = g] \in Work BY <1>1 DEF Work
  <2>2. [work EXCEPT ![r].todo = t, ![r].regime = g]
           = [work EXCEPT ![r] = [work[r] EXCEPT !.todo = t, !.regime = g]]
    OBVIOUS
  <2> QED BY <1>2, <2>1, <2>2
<1> QED BY <1>3, <1>4, <1>5, <1>6, <1>7

LEMMA TInvAlways == Spec => []TInv
<1>1. Init => TInv
  <2> SUFFICES ASSUME Init PROVE TInv
    OBVIOUS
  <2>1. work \in [Runners -> Work] BY NoWorkType DEF Init
  <2>2. seen \in [Readers -> Answer] BY DEF Init, Answer
  <2>3. \A r \in Runners : pc[r] = "idle" BY DEF Init
  <2>4. ShardsAtHand BY <2>3 DEF ShardsAtHand, ShardLoop, Building, BuildPC, Runners
  <2>5. published \in [Builds -> 0 .. revision] BY DEF Init
  <2>6. \A r \in Runners : pc[r] \notin {"stage", "fetch", "activate", "unstage"}
    BY <2>3
  <2>7. pc \in [Runners -> BuildPC \cup {"idle", "done"}] BY DEF Init
  <2> QED BY <2>1, <2>2, <2>4, <2>5, <2>6, <2>7 DEF Init, TInv, TypeOK
<1>2. TInv /\ [Next]_vars => TInv'
  <2> SUFFICES ASSUME TInv, [Next]_vars PROVE TInv'
    OBVIOUS
  <2> USE Calls, CoordinatorRuns DEF TInv, TypeOK, LoopHasShard, ShardsAtHand, ShardLoop, Building, Goto, Set,
              lockVars, keyVars, docVars, regimeVars, faults
  <2>1. ASSUME NEW r \in Runners, BuildStep(r) PROVE TInv'
    <3>1. CASE Start(r) BY <3>1 DEF Start
    <3>2. CASE Freeze(r)
      <4>1. PICK split \in SplitChoices :
               work' = [work EXCEPT ![r] = [NoWork EXCEPT !.build = Cardinality(frozen) + 1,
                                                          !.shards = split]]
        BY <3>2 DEF Freeze
      <4>2. Cardinality(frozen) + 1 \in Builds BY <3>2, NextBuild DEF Freeze
      <4>3. split \in SUBSET Shards /\ split # {} BY RiskAssumption DEF SplitChoices
      <4>4. [NoWork EXCEPT !.build = Cardinality(frozen) + 1, !.shards = split] \in Work
        <5>1. Cardinality(frozen) + 1 \in Nat BY <4>2, RiskAssumption DEF Builds
        <5> QED BY <5>1, <4>3 DEF NoWork, Work, Regimes
      <4>5. work' \in [Runners -> Work] BY <4>1, <4>4
      <4>6. work'[r].shards # {} BY <4>1, <4>3 DEF NoWork
      <4> QED BY <3>2, <4>1, <4>2, <4>5, <4>6 DEF Freeze
    <3>3. CASE StartReplay(r)
      <4>1. PICK b \in frozen : work' = [work EXCEPT ![r] = [NoWork EXCEPT !.build = b]]
        BY <3>3 DEF StartReplay
      <4>2. [NoWork EXCEPT !.build = b] \in Work
        <5>1. b \in Nat BY <4>1, RiskAssumption DEF Builds
        <5> QED BY <5>1 DEF NoWork, Work, Regimes
      <4>3. work' \in [Runners -> Work] BY <4>1, <4>2
      <4> QED BY <3>3, <4>1, <4>3, RiskAssumption DEF StartReplay
    <3>4. ASSUME NEW ok \in BOOLEAN, ReadPrior(r, ok) PROVE TInv'
      <4>1. work' \in [Runners -> Work] 
        <5>1. revision + 1 \in Nat OBVIOUS
        <5> QED BY <3>4, <5>1, Assign DEF ReadPrior
      <4>2. work'[r].shards = work[r].shards BY <3>4 DEF ReadPrior, Work
      <4> QED BY <3>4, <4>1, <4>2 DEF ReadPrior
    <3>5. ASSUME NEW band \in Bands, DetectRegime(r, band) PROVE TInv'
      <4>1. PICK previous \in Regimes :
               work' = [work EXCEPT ![r].previous = previous,
                                    ![r].regime = Proposal(previous, band)]
        <5>1. \A d \in Latest : d.regime \in Regimes BY DEF Latest
        <5>2. "normal" \in Regimes BY DEF Regimes
        <5>3. PICK previous \in IF regimes = {} THEN {"normal"} ELSE {d.regime : d \in Latest} :
                 work' = [work EXCEPT ![r].previous = previous,
                                      ![r].regime = Proposal(previous, band)]
          BY <3>5, Zenon DEF DetectRegime
        <5>4. previous \in Regimes BY <5>1, <5>2
        <5> QED BY <5>3, <5>4
      <4>2. Proposal(previous, band) \in Regimes BY ProposalType
      <4>3. work' \in [Runners -> Work] BY <4>1, <4>2, Assign
      <4>4. work'[r].shards = work[r].shards /\ \A q \in Runners : q # r => work'[q] = work[q]
        BY <4>1 DEF Work
      <4>5. /\ pc[r] = "regime" /\ pc' \in [Runners -> BuildPC \cup {"idle", "done"}]
            /\ pc'[r] \in {"clear", "get"}
            /\ \A q \in Runners : q # r => pc'[q] = pc[q]
        BY <3>5 DEF DetectRegime
      <4>6. /\ UNCHANGED <<lock, disturbed, frozen, recorded, revision, published, staging>>
            /\ UNCHANGED <<active, manifest, snapshot, feed, rows, regimes, candidate>>
            /\ UNCHANGED <<seen, throws, crashes>>
        BY <3>5 DEF DetectRegime
      <4>7. ShardsAtHand' BY <4>4, <4>5
      <4>8. LoopHasShard' BY <4>4, <4>5
      <4> QED BY <4>3, <4>5, <4>6, <4>7, <4>8
    <3>6. CASE ClearCandidate(r)
      <4>1. work' \in [Runners -> Work] BY <3>6 DEF ClearCandidate, Work
      <4> QED BY <3>6, <4>1 DEF ClearCandidate, Publishing, Runners
    <3>7. CASE GetCandidate(r)
      <4>1. PICK n \in Nat : work' = [work EXCEPT ![r].count = n]
        <5>1. IF candidate # Nothing /\ candidate.regime = work[r].regime
              THEN candidate.count \in Nat ELSE 0 \in Nat
          OBVIOUS
        <5> QED BY <3>7, <5>1 DEF GetCandidate
      <4>2. [work[r] EXCEPT !.count = n] \in Work BY DEF Work
      <4>3. work' \in [Runners -> Work] BY <4>1, <4>2
      <4> QED BY <3>7, <4>3 DEF GetCandidate
    <3>8. CASE SetCandidate(r)
      <4>1. work' \in [Runners -> Work] 
        <5>1. work[r].shards \in SUBSET Shards /\ work[r].previous \in Regimes
              /\ work[r].regime \in Regimes
          BY DEF Work
        <5> QED BY <3>8, <5>1, Assign DEF SetCandidate
      <4>2. candidate' \in [regime : Regimes, count : Nat] BY <3>8 DEF SetCandidate, Work
      <4> QED BY <3>8, <4>1, <4>2 DEF SetCandidate, Publishing, Runners
    <3> QED BY <2>1, <3>1, <3>2, <3>3, <3>4, <3>5, <3>6, <3>7, <3>8 DEF BuildStep
  <2>2. ASSUME NEW r \in Runners, PublishStep(r) PROVE TInv'
    <3>1. CASE PublishPrivately(r)
      <4>1. work' \in [Runners -> Work] BY <3>1, Assign, 1 \in Nat DEF PublishPrivately
      <4> QED BY <3>1, <4>1 DEF PublishPrivately
    <3>2. CASE IncrRevision(r)
      <4>1. work[r].shards \in SUBSET Shards BY DEF Work
      <4>2. work' = [work EXCEPT ![r].rev = revision + 1, ![r].todo = work[r].shards]
        BY <3>2 DEF IncrRevision
      <4>3. work' \in [Runners -> Work]
        <5>1. revision + 1 \in Nat OBVIOUS
        <5> QED BY <4>1, <4>2, <5>1, Assign
      <4>4. /\ work'[r].shards = work[r].shards
            /\ \A q \in Runners : q # r => work'[q] = work[q]
        BY <4>2 DEF Work
      <4>5. revision' \in Nat /\ revision' = revision + 1 BY <3>2 DEF IncrRevision
      <4>6. published' \in [Builds -> 0 .. revision']
        <5>1. published' = [published EXCEPT ![work[r].build] = revision'] BY <3>2 DEF IncrRevision
        <5>2. \A b \in Builds : published[b] \in 0 .. revision' BY <4>5
        <5>3. revision' \in 0 .. revision' BY <4>5
        <5> QED BY <5>1, <5>2, <5>3
      <4>7. work'[r].todo = work[r].shards BY <4>2 DEF Work
      <4>8. pc' = [pc EXCEPT ![r] = "fetch"] /\ pc[r] = "bump" BY <3>2 DEF IncrRevision
      <4>9. pc' \in [Runners -> BuildPC \cup {"idle", "done"}] BY <4>8
      <4>10. ShardsAtHand' BY <4>4, <4>8
      <4>11. LoopHasShard' BY <4>4, <4>7, <4>8
      <4> QED BY <3>2, <4>3, <4>5, <4>6, <4>9, <4>10, <4>11 DEF IncrRevision
    <3>3. ASSUME NEW s \in work[r].todo, StageShard(r, s) PROVE TInv'
      <4>0. work[r].todo \ {s} \in SUBSET Shards BY DEF Work
      <4>1. work' \in [Runners -> Work] BY <3>3, <4>0, Assign DEF StageShard
      <4>9. /\ work'[r].shards = work[r].shards /\ work'[r].todo = work[r].todo \ {s}
            /\ \A q \in Runners : q # r => work'[q] = work[q]
        BY <3>3 DEF StageShard, Work
      <4>2. Payload(r) \in Stamp BY DEF Payload, Stamp, Work
      <4>10. /\ pc[r] = "stage"
             /\ pc' = [pc EXCEPT ![r] = IF work[r].todo = {s} THEN "bump" ELSE "stage"]
        BY <3>3 DEF StageShard, NextShard
      <4>11. pc' \in [Runners -> BuildPC \cup {"idle", "done"}] BY <4>10
      <4>12. ShardsAtHand' BY <4>9, <4>10
      <4>13. LoopHasShard' BY <4>9, <4>10
      <4> QED BY <3>3, <4>1, <4>2, <4>11, <4>12, <4>13 DEF StageShard
    <3>4. ASSUME NEW s \in work[r].todo, FetchShard(r, s) PROVE TInv'
      <4>1. s \in Shards BY DEF Work
      <4>2. work' \in [Runners -> Work] BY <3>4, <4>1 DEF FetchShard, Work
      <4> QED BY <3>4, <4>2 DEF FetchShard
    <3>5. ASSUME NEW s \in work[r].todo, ActivateShard(r, s) PROVE TInv'
      <4>0. work[r].todo \ {s} \in SUBSET Shards BY DEF Work
      <4>1. work' \in [Runners -> Work] BY <3>5, <4>0, Assign DEF ActivateShard
      <4>9. /\ work'[r].shards = work[r].shards /\ work'[r].todo = work[r].todo \ {s}
            /\ \A q \in Runners : q # r => work'[q] = work[q]
        BY <3>5 DEF ActivateShard, Work
      <4>2. work[r].copy \in Stamp \cup {Nothing} BY DEF Work
      <4>10. /\ pc[r] = "activate"
             /\ pc' = [pc EXCEPT ![r] = IF work[r].todo = {s} THEN "manifest" ELSE "fetch"]
        BY <3>5 DEF ActivateShard, NextShard
      <4>11. pc' \in [Runners -> BuildPC \cup {"idle", "done"}] BY <4>10
      <4>12. ShardsAtHand' BY <4>9, <4>10
      <4>13. LoopHasShard' BY <4>9, <4>10
      <4> QED BY <3>5, <4>1, <4>2, <4>11, <4>12, <4>13 DEF ActivateShard
    <3>6. ASSUME NEW s \in work[r].todo, UnstageShard(r, s) PROVE TInv'
      <4>0. work[r].todo \ {s} \in SUBSET Shards BY DEF Work
      <4>1. work' \in [Runners -> Work] BY <3>6, <4>0, Assign DEF UnstageShard
      <4>9. /\ work'[r].shards = work[r].shards /\ work'[r].todo = work[r].todo \ {s}
            /\ \A q \in Runners : q # r => work'[q] = work[q]
        BY <3>6 DEF UnstageShard, Work
      <4>10. /\ pc[r] = "unstage"
             /\ pc' = [pc EXCEPT ![r] = IF work[r].todo = {s} THEN "rows" ELSE "unstage"]
        BY <3>6 DEF UnstageShard, NextShard
      <4>11. pc' \in [Runners -> BuildPC \cup {"idle", "done"}] BY <4>10
      <4>12. ShardsAtHand' BY <4>9, <4>10
      <4>13. LoopHasShard' BY <4>9, <4>10
      <4> QED BY <3>6, <4>1, <4>11, <4>12, <4>13 DEF UnstageShard
    <3>7. CASE WriteManifest(r)
      <4>1. manifest' \in Manifest BY <3>7 DEF WriteManifest, Manifest, Work
      <4> QED BY <3>7, <4>1 DEF WriteManifest
    <3>8. CASE WriteSnapshot(r)
      <4>1. Payload(r) \in Stamp BY DEF Payload, Stamp, Work
      <4> QED BY <3>8, <4>1 DEF WriteSnapshot
    <3>9. CASE PublishFeed(r)
      <4>1. work' \in [Runners -> Work] 
        <5>1. work[r].shards \in SUBSET Shards BY DEF Work
        <5> QED BY <3>9, <5>1, Assign DEF PublishFeed
      <4>2. feed' \in Nat BY <3>9 DEF PublishFeed, Work
      <4>3. /\ pc[r] = "feed" /\ pc' = [pc EXCEPT ![r] = "unstage"]
            /\ work'[r].shards = work[r].shards /\ work'[r].todo = work[r].shards
            /\ \A q \in Runners : q # r => work'[q] = work[q]
        BY <3>9 DEF PublishFeed, Work
      <4>4. pc' \in [Runners -> BuildPC \cup {"idle", "done"}] BY <4>3
      <4>5. ShardsAtHand' BY <4>3
      <4>6. LoopHasShard' BY <4>3
      <4> QED BY <3>9, <4>1, <4>2, <4>4, <4>5, <4>6 DEF PublishFeed
    <3>10. CASE WriteRows(r)
      <4>1. Payload(r) \in Stamp BY DEF Payload, Stamp, Work
      <4> QED BY <3>10, <4>1 DEF WriteRows
    <3>11. CASE PersistRegimes(r)
      <4>1. regimes' \in SUBSET [rev : Nat, regime : Regimes] BY <3>11 DEF PersistRegimes, Work
      <4> QED BY <3>11, <4>1 DEF PersistRegimes
    <3>12. CASE RecordRevision(r)
      <4>1. recorded' \in [Builds -> Nat] BY <3>12 DEF RecordRevision, Work
      <4> QED BY <3>12, <4>1 DEF RecordRevision
    <3>13. CASE Release(r) BY <3>13, NoWorkType DEF Release, Over
    <3> QED BY <2>2, <3>1, <3>2, <3>3, <3>4, <3>5, <3>6, <3>7, <3>8, <3>9, <3>10, <3>11,
               <3>12, <3>13 DEF PublishStep
  <2>3. ASSUME NEW r \in Runners, CandidateThrows(r) PROVE TInv'
    <3>1. work' \in [Runners -> Work] BY <2>3 DEF CandidateThrows, Work
    <3> QED BY <2>3, <3>1 DEF CandidateThrows, Publishing, Runners
  <2>4. ASSUME NEW r \in Runners, Throws(r) PROVE TInv'
    <3>1. CASE pc[r] = "release"
      <4>1. Over(r) BY <2>4, <3>1 DEF Throws
      <4>2. work' \in [Runners -> Work] BY <4>1, NoWorkType DEF Over
      <4>3. pc' \in [Runners -> BuildPC \cup {"idle", "done"}] BY <4>1 DEF Over
      <4>4. ShardsAtHand' BY <4>1 DEF Over
      <4>5. LoopHasShard' BY <4>1 DEF Over
      <4> QED BY <2>4, <4>2, <4>3, <4>4, <4>5 DEF Throws
    <3>2. CASE pc[r] # "release"
      <4>1. pc' = [pc EXCEPT ![r] = "release"] /\ UNCHANGED work BY <2>4, <3>2 DEF Throws
      <4>2. pc' \in [Runners -> BuildPC \cup {"idle", "done"}] BY <4>1
      <4>3. ShardsAtHand' BY <4>1
      <4>4. LoopHasShard' BY <4>1
      <4> QED BY <2>4, <4>1, <4>2, <4>3, <4>4 DEF Throws
    <3> QED BY <3>1, <3>2
  <2>5. ASSUME NEW r \in Runners, Crash(r) PROVE TInv'
    BY <2>5, NoWorkType DEF Crash, Over
  <2>6. ASSUME NEW q \in Readers, ReadStep(q) PROVE TInv'
    <3>1. seen' \in [Readers -> Answer] BY <2>6 DEF ReadStep, ReadSnapshot, ReadManifest, Answer
    <3> QED BY <2>6, <3>1 DEF ReadStep, ReadSnapshot, ReadManifest
  <2>7. CASE LockExpires BY <2>7 DEF LockExpires
  <2>8. CASE UNCHANGED vars BY <2>8 DEF vars
  <2> QED BY <2>1, <2>2, <2>3, <2>4, <2>5, <2>6, <2>7, <2>8 DEF Next
<1> QED BY <1>1, <1>2, PTL DEF Spec

\* Every variable stays in its type, and a build in a loop over shards has a
\* shard left to handle.
THEOREM TypeCorrect == Spec => []TypeOK
<1>1. TInv => TypeOK BY DEF TInv
<1> QED BY <1>1, TInvAlways, PTL

---------------------------------------------------------------------------
(* Mutual exclusion of production builds.                                   *)

\* What makes OneBuild inductive: a coordinator between SET NX and its DEL owns
\* the key, as long as no build was ever robbed of it.
OwnsLock == ~ disturbed => \A r \in Coordinators : Building(r) => lock = r

\* Where a coordinator can be, and that a replay never holds the lock.
LInv ==
    /\ pc \in [Runners -> BuildPC \cup {"idle", "done"}]
    /\ lock \in Coordinators \cup {Nobody}
    /\ disturbed \in BOOLEAN
    /\ OwnsLock

\* A step of one runner that leaves lock and history alone, and starts no build,
\* preserves the ownership of the lock.
LEMMA Quiet ==
    ASSUME LInv, NEW r \in Runners, UNCHANGED <<lock, disturbed>>,
           NEW next \in BuildPC \cup {"idle", "done"}, Goto(r, next),
           Building(r) \/ r \notin Coordinators
    PROVE  LInv'
<1>1. pc' \in [Runners -> BuildPC \cup {"idle", "done"}]
  BY DEF LInv, Goto
<1>2. \A q \in Coordinators : q \in Runners /\ (Building(q)' => Building(q))
  BY DEF LInv, Goto, Building, Runners
<1> QED BY <1>1, <1>2 DEF LInv, OwnsLock

LEMMA LInvAlways == Spec => []LInv
<1>1. Init => LInv
  BY DEF Init, LInv, OwnsLock, Building, BuildPC, Runners
<1>2. LInv /\ [Next]_vars => LInv'
  <2> SUFFICES ASSUME LInv, [Next]_vars PROVE LInv'
    OBVIOUS
  <2> USE Calls, CoordinatorRuns DEF lockVars
  <2>1. ASSUME NEW r \in Runners, BuildStep(r) PROVE LInv'
    <3>1. CASE Start(r)
      <4>1. /\ r \in Coordinators /\ lock = Nobody /\ lock' = r
            /\ pc' = [pc EXCEPT ![r] = "freeze"] /\ UNCHANGED disturbed
        BY <3>1 DEF Start, Goto
      <4>2. ~ disturbed => \A q \in Coordinators : ~ Building(q)
        BY <4>1, RiskAssumption DEF LInv, OwnsLock
      <4>3. \A q \in Coordinators : Building(q)' => q = r \/ Building(q)
        BY <4>1 DEF LInv, Building
      <4>4. pc' \in [Runners -> BuildPC \cup {"idle", "done"}] BY <4>1 DEF LInv
      <4> QED BY <4>1, <4>2, <4>3, <4>4 DEF LInv, OwnsLock
    <3>2. CASE Freeze(r)
      BY <3>2, Quiet DEF Freeze, Building
    <3>3. CASE StartReplay(r)
      <4>1. r \notin Coordinators BY <3>3, RiskAssumption DEF StartReplay
      <4> QED BY <3>3, <4>1, Quiet DEF StartReplay
    <3>4. ASSUME NEW ok \in BOOLEAN, ReadPrior(r, ok) PROVE LInv'
      BY <3>4, Quiet DEF ReadPrior, Building
    <3>5. ASSUME NEW band \in Bands, DetectRegime(r, band) PROVE LInv'
      <4>1. PICK next \in {"clear", "get"} : Goto(r, next)
        BY <3>5 DEF DetectRegime
      <4> QED BY <3>5, <4>1, Quiet DEF DetectRegime, Building
    <3>6. CASE ClearCandidate(r)
      BY <3>6, Quiet DEF ClearCandidate, Publishing, Building
    <3>7. CASE GetCandidate(r)
      BY <3>7, Quiet DEF GetCandidate, Building
    <3>8. CASE SetCandidate(r)
      BY <3>8, Quiet DEF SetCandidate, Publishing, Building
    <3> QED BY <2>1, <3>1, <3>2, <3>3, <3>4, <3>5, <3>6, <3>7, <3>8 DEF BuildStep
  <2>2. ASSUME NEW r \in Runners, PublishStep(r) PROVE LInv'
    <3>1. CASE PublishPrivately(r)
      BY <3>1, Quiet DEF PublishPrivately, Building
    <3>2. CASE IncrRevision(r)
      BY <3>2, Quiet DEF IncrRevision, Building
    <3>3. ASSUME NEW s \in work[r].todo, StageShard(r, s) PROVE LInv'
      BY <3>3, Quiet DEF StageShard, NextShard, Building
    <3>4. ASSUME NEW s \in work[r].todo, FetchShard(r, s) PROVE LInv'
      BY <3>4, Quiet DEF FetchShard, Building
    <3>5. ASSUME NEW s \in work[r].todo, ActivateShard(r, s) PROVE LInv'
      BY <3>5, Quiet DEF ActivateShard, NextShard, Building
    <3>6. ASSUME NEW s \in work[r].todo, UnstageShard(r, s) PROVE LInv'
      BY <3>6, Quiet DEF UnstageShard, NextShard, Building
    <3>7. CASE WriteManifest(r)
      BY <3>7, Quiet DEF WriteManifest, Building
    <3>8. CASE WriteSnapshot(r)
      BY <3>8, Quiet DEF WriteSnapshot, Building
    <3>9. CASE PublishFeed(r)
      BY <3>9, Quiet DEF PublishFeed, Building
    <3>10. CASE WriteRows(r)
      BY <3>10, Quiet DEF WriteRows, Building
    <3>11. CASE PersistRegimes(r)
      BY <3>11, Quiet DEF PersistRegimes, Building
    <3>12. CASE RecordRevision(r)
      BY <3>12, Quiet DEF RecordRevision, Building
    <3>13. CASE Release(r)
      <4>1. /\ lock' = Nobody /\ disturbed' = (disturbed \/ lock \notin {Nobody, r})
            /\ pc' = [pc EXCEPT ![r] = IF r \in Replays THEN "done" ELSE "idle"]
        BY <3>13 DEF Release, Over, Goto
      <4>2. pc' \in [Runners -> BuildPC \cup {"idle", "done"}] BY <4>1 DEF LInv
      <4>3. \A q \in Coordinators : Building(q)' => q # r /\ Building(q)
        BY <4>1 DEF LInv, Building
      <4>4. ~ disturbed' => \A q \in Coordinators : ~ Building(q)'
        BY <4>1, <4>3, RiskAssumption DEF LInv, OwnsLock
      <4> QED BY <4>1, <4>2, <4>4 DEF LInv, OwnsLock
    <3> QED BY <2>2, <3>1, <3>2, <3>3, <3>4, <3>5, <3>6, <3>7, <3>8, <3>9, <3>10, <3>11,
               <3>12, <3>13 DEF PublishStep
  <2>3. ASSUME NEW r \in Runners, CandidateThrows(r) PROVE LInv'
    BY <2>3, Quiet DEF CandidateThrows, Publishing, Building
  <2>4. ASSUME NEW r \in Runners, Throws(r) PROVE LInv'
    <3>1. PICK next \in BuildPC \cup {"idle", "done"} : Goto(r, next)
      BY <2>4 DEF Throws, Over
    <3> QED BY <2>4, <3>1, Quiet DEF Throws, Building
  <2>5. ASSUME NEW r \in Runners, Crash(r) PROVE LInv'
    BY <2>5, Quiet DEF Crash, Over
  <2>6. ASSUME NEW q \in Readers, ReadStep(q) PROVE LInv'
    BY <2>6 DEF ReadStep, ReadSnapshot, ReadManifest, LInv, OwnsLock, Building
  <2>7. CASE LockExpires
    <3>1. /\ lock # Nobody /\ lock' = Nobody /\ UNCHANGED pc
          /\ disturbed' = (disturbed \/ Building(lock))
      BY <2>7 DEF LockExpires
    <3>2. ~ disturbed' => \A q \in Coordinators : ~ Building(q)
      BY <3>1 DEF LInv, OwnsLock
    <3> QED BY <3>1, <3>2 DEF LInv, OwnsLock, Building
  <2>8. CASE UNCHANGED vars
    BY <2>8 DEF vars, LInv, OwnsLock, Building
  <2> QED BY <2>1, <2>2, <2>3, <2>4, <2>5, <2>6, <2>7, <2>8 DEF Next
<1> QED BY <1>1, <1>2, PTL DEF Spec

\* As long as no build loses its lock to the TTL or to a replay, production
\* builds never overlap.
THEOREM BuildsDoNotOverlap == Spec => []OneBuild
<1>1. LInv => OneBuild BY DEF LInv, OwnsLock, OneBuild
<1> QED BY <1>1, LInvAlways, PTL
---------------------------------------------------------------------------
(* The steps of the runners.                                                *)

RunnerStep(r) == BuildStep(r) \/ PublishStep(r) \/ CandidateThrows(r) \/ Throws(r) \/ Crash(r)

\* The local state of a runner is its own.
LEMMA OthersRest ==
    ASSUME TypeOK, NEW r \in Runners, RunnerStep(r), NEW q \in Runners \ {r}
    PROVE  pc'[q] = pc[q] /\ work'[q] = work[q]
<1>1. CASE Start(r) \/ Freeze(r) \/ StartReplay(r)
  BY <1>1 DEF Start, Freeze, StartReplay, Goto, TypeOK
<1>2. CASE \/ \E ok \in BOOLEAN : ReadPrior(r, ok)
           \/ \E band \in Bands : DetectRegime(r, band)
  BY <1>2 DEF ReadPrior, DetectRegime, Goto, Set, TypeOK
<1>3. CASE ClearCandidate(r) \/ GetCandidate(r) \/ SetCandidate(r) \/ CandidateThrows(r)
  BY <1>3 DEF ClearCandidate, GetCandidate, SetCandidate, CandidateThrows, Goto, Set, TypeOK
<1>4. CASE PublishPrivately(r) \/ IncrRevision(r) \/ WriteManifest(r) \/ WriteSnapshot(r)
  BY <1>4 DEF PublishPrivately, IncrRevision, WriteManifest, WriteSnapshot, Goto, Set, TypeOK
<1>5. CASE \E s \in work[r].todo : \/ StageShard(r, s) \/ FetchShard(r, s)
                                   \/ ActivateShard(r, s) \/ UnstageShard(r, s)
  BY <1>5 DEF StageShard, FetchShard, ActivateShard, UnstageShard, NextShard, Goto, Set, TypeOK
<1>6. CASE PublishFeed(r) \/ WriteRows(r) \/ PersistRegimes(r) \/ RecordRevision(r)
  BY <1>6 DEF PublishFeed, WriteRows, PersistRegimes, RecordRevision, Goto, Set, TypeOK
<1>7. CASE Release(r) \/ Throws(r) \/ Crash(r)
  BY <1>7 DEF Release, Throws, Crash, Over, Goto, TypeOK
<1> QED BY <1>1, <1>2, <1>3, <1>4, <1>5, <1>6, <1>7 DEF RunnerStep, BuildStep, PublishStep

LEMMA Arrives ==
    ASSUME TypeOK, NEW r \in Runners
    PROVE  \A next : Goto(r, next) => pc'[r] = next
    BY DEF TypeOK, Goto

\* Whoever publishes to the production keys is a production build.
Apart == \A r \in Replays : pc[r] \notin ShardLoop \cup {"freeze"}

LEMMA ApartAlways == Spec => []Apart
<1>1. Init => Apart BY DEF Init, Apart, ShardLoop, Runners
<1>2. TInv /\ Apart /\ [Next]_vars => Apart'
  <2> SUFFICES ASSUME TypeOK, Apart, [Next]_vars, NEW p \in Replays
               PROVE  pc'[p] \notin ShardLoop \cup {"freeze"}
    BY DEF Apart, TInv
  <2>1. p \in Runners /\ p \notin Coordinators BY RiskAssumption DEF Runners
  <2>2. pc[p] \notin ShardLoop \cup {"freeze"} BY DEF Apart
  <2>3. CASE pc'[p] = pc[p] BY <2>2, <2>3
  <2>4. CASE RunnerStep(p)
    <3>1. \A next : Goto(p, next) => pc'[p] = next BY <2>1, Arrives
    <3>2. CASE Start(p) \/ Freeze(p) \/ IncrRevision(p) \/ WriteManifest(p) \/ WriteSnapshot(p)
               \/ PublishFeed(p) \/ \E s \in work[p].todo : \/ StageShard(p, s) \/ FetchShard(p, s)
                                                            \/ ActivateShard(p, s) \/ UnstageShard(p, s)
      BY <2>1, <2>2, <3>2 DEF Start, Freeze, IncrRevision, WriteManifest, WriteSnapshot, PublishFeed,
         StageShard, FetchShard, ActivateShard, UnstageShard, ShardLoop
    <3>3. CASE \/ StartReplay(p) \/ (\E ok \in BOOLEAN : ReadPrior(p, ok))
               \/ (\E band \in Bands : DetectRegime(p, band)) \/ GetCandidate(p)
      <4>1. pc'[p] \in {"prior", "regime", "release", "clear", "get", "set"}
        BY <3>1, <3>3 DEF StartReplay, ReadPrior, DetectRegime, GetCandidate
      <4> QED BY <4>1 DEF ShardLoop
    <3>4. CASE ClearCandidate(p) \/ SetCandidate(p) \/ CandidateThrows(p)
      <4>1. pc'[p] = "private"
        BY <3>1, <3>4 DEF ClearCandidate, SetCandidate, CandidateThrows, Publishing
      <4> QED BY <4>1 DEF ShardLoop
    <3>5. CASE PublishPrivately(p) \/ WriteRows(p) \/ PersistRegimes(p) \/ RecordRevision(p)
      <4>1. pc'[p] \in {"rows", "persist", "record", "release"}
        BY <3>1, <3>5 DEF PublishPrivately, WriteRows, PersistRegimes, RecordRevision
      <4> QED BY <4>1 DEF ShardLoop
    <3>6. CASE Release(p) \/ Throws(p) \/ Crash(p)
      <4>1. pc'[p] \in {"done", "idle", "release"}
        BY <3>1, <3>6 DEF Release, Throws, Crash, Over
      <4> QED BY <4>1 DEF ShardLoop
    <3> QED BY <2>4, <3>2, <3>3, <3>4, <3>5, <3>6 DEF RunnerStep, BuildStep, PublishStep
  <2>5. CASE \E r \in Runners \ {p} : RunnerStep(r) BY <2>1, <2>3, <2>5, OthersRest
  <2>6. CASE LockExpires \/ (\E q \in Readers : ReadStep(q)) \/ UNCHANGED vars
    BY <2>3, <2>6 DEF LockExpires, ReadStep, ReadSnapshot, ReadManifest, vars
  <2> QED BY <2>4, <2>5, <2>6 DEF Next, RunnerStep
<1> QED BY <1>1, <1>2, TInvAlways, PTL DEF Spec

---------------------------------------------------------------------------
(* What readers find, as long as no build loses its lock.                   *)

AllStaged(r) == \A s \in work[r].shards : staging[s] = Payload(r)
Remaining(r) == work[r].todo \subseteq work[r].shards

\* How far a production build has come with the keys.
KeysOf(r) ==
    /\ pc[r] \in {"regime", "clear", "get", "set", "stage", "bump"} => work[r].rev = revision + 1
    /\ pc[r] \in {"fetch", "activate", "manifest", "snapshot", "feed"} => work[r].rev = revision
    /\ pc[r] \in {"stage", "fetch", "activate"} => Remaining(r)
    /\ pc[r] = "stage" => \A s \in work[r].shards \ work[r].todo : staging[s] = Payload(r)
    /\ pc[r] \in {"bump", "fetch", "activate"} => AllStaged(r)
    /\ pc[r] \in {"fetch", "activate"} =>
          \A s \in work[r].shards \ work[r].todo : active[s] = Payload(r)
    /\ pc[r] = "activate" => work[r].copy = Payload(r)
    /\ pc[r] = "manifest" => \A s \in work[r].shards : active[s] = Payload(r)
    /\ pc[r] \in {"fetch", "activate", "manifest"} /\ manifest # Nothing => manifest.rev < revision
    /\ pc[r] \in {"snapshot", "feed"} =>
          manifest = [rev |-> work[r].rev, build |-> work[r].build, shards |-> work[r].shards]
    /\ pc[r] = "feed" => snapshot = Payload(r)

KeysPC == {"regime", "clear", "get", "set", "stage", "bump", "fetch", "activate", "manifest",
           "snapshot", "feed"}

\* Snapshot s is not ahead of manifest m.
NotAhead(s, m) ==
    s # Nothing => /\ m # Nothing /\ s.rev <= m.rev
                   /\ s.rev = m.rev => s.build = m.build

\* What the keys show together, and what the answers combine.
Shown ==
    /\ manifest # Nothing => manifest.rev <= revision
    /\ manifest # Nothing /\ manifest.rev = revision =>
          \A s \in manifest.shards : active[s] = [rev |-> manifest.rev, build |-> manifest.build]
    /\ NotAhead(snapshot, manifest)
    /\ feed > 0 => snapshot # Nothing /\ feed <= snapshot.rev

Answered ==
    \A q \in Readers :
        /\ seen[q].at = "half" => NotAhead(seen[q].snapshot, manifest)
        /\ seen[q].at = "done" => NotAhead(seen[q].snapshot, seen[q].manifest)

Keys == Shown /\ Answered /\ \A r \in Coordinators : KeysOf(r)
KeysInv == ~ disturbed => Keys

LEMMA NotKeyed ==
    ASSUME NEW r, pc[r] \notin KeysPC
    PROVE  KeysOf(r)
    BY DEF KeysPC, KeysOf

LEMMA DisturbedStays ==
    ASSUME disturbed \in BOOLEAN, [Next]_vars
    PROVE  disturbed => disturbed'
<1> USE DEF lockVars
<1>1. ASSUME NEW r \in Runners, BuildStep(r) \/ CandidateThrows(r) \/ Throws(r) \/ Crash(r)
      PROVE  disturbed => disturbed'
  <2>1. CASE Start(r) \/ (\E ok \in BOOLEAN : ReadPrior(r, ok)) \/ Crash(r)
    BY <2>1 DEF Start, ReadPrior, Crash
  <2>4. CASE Freeze(r)
    BY <2>4 DEF Freeze
  <2>5. CASE StartReplay(r)
    BY <2>5 DEF StartReplay
  <2>2. ASSUME NEW band \in Bands, DetectRegime(r, band) PROVE disturbed => disturbed'
    <3>1. UNCHANGED lockVars BY <2>2 DEF DetectRegime
    <3> QED BY <3>1
  <2>3. CASE \/ ClearCandidate(r) \/ GetCandidate(r) \/ SetCandidate(r)
             \/ CandidateThrows(r) \/ Throws(r)
    BY <2>3 DEF ClearCandidate, GetCandidate, SetCandidate, CandidateThrows, Throws
  <2> QED BY <1>1, <2>1, <2>2, <2>3, <2>4, <2>5 DEF BuildStep
<1>2. CASE \E r \in Runners : PublishStep(r)
  <2>1. PICK r \in Runners : PublishStep(r) BY <1>2
  <2>2. CASE Release(r) BY <2>2 DEF Release
  <2>3. CASE ~ Release(r)
    BY <2>1, <2>3
       DEF PublishStep, PublishPrivately, IncrRevision, StageShard, FetchShard, ActivateShard,
           UnstageShard, WriteManifest, WriteSnapshot, PublishFeed, WriteRows, PersistRegimes,
           RecordRevision
  <2> QED BY <2>2, <2>3
<1>3. CASE LockExpires \/ (\E q \in Readers : ReadStep(q)) \/ UNCHANGED vars
  BY <1>3 DEF LockExpires, ReadStep, ReadSnapshot, ReadManifest, vars
<1> QED BY <1>1, <1>2, <1>3 DEF Next

LEMMA Revisions ==
    ASSUME TypeOK
    PROVE  /\ revision \in Nat /\ feed \in Nat
           /\ manifest # Nothing =>
                 /\ manifest.rev \in Nat /\ manifest.build \in Nat /\ manifest.shards \subseteq Shards
           /\ snapshot # Nothing => snapshot.rev \in Nat
           /\ \A r \in Runners : /\ work[r].rev \in Nat /\ work[r].build \in Nat
                                 /\ work[r].shards \subseteq Shards /\ work[r].todo \subseteq Shards
           /\ \A q \in Readers : seen[q].snapshot # Nothing => seen[q].snapshot.rev \in Nat
<1>1. \A r \in Runners : work[r] \in Work BY DEF TypeOK
<1>2. manifest \in Manifest \cup {Nothing} /\ snapshot \in Stamp \cup {Nothing} BY DEF TypeOK
<1>3. \A q \in Readers : seen[q] \in Answer BY DEF TypeOK
<1>4. \A q \in Readers : seen[q].snapshot \in Stamp \cup {Nothing} BY <1>3 DEF Answer
<1> QED BY <1>1, <1>2, <1>4 DEF TypeOK, Work, Manifest, Stamp

\* The calls that write a key a reader or a build looks at.
WritesKeys(r) ==
    \/ IncrRevision(r) \/ WriteManifest(r) \/ WriteSnapshot(r) \/ PublishFeed(r)
    \/ \E s \in work[r].todo : StageShard(r, s) \/ ActivateShard(r, s) \/ UnstageShard(r, s)

LEMMA QuietFrame ==
    ASSUME NEW r \in Runners, RunnerStep(r), ~ WritesKeys(r)
    PROVE  UNCHANGED <<keyVars, seen>>
<1>1. CASE BuildStep(r) \/ CandidateThrows(r) \/ Throws(r) \/ Crash(r)
  <2>1. CASE Start(r) \/ (\E ok \in BOOLEAN : ReadPrior(r, ok)) \/ Crash(r)
    BY <2>1 DEF Start, ReadPrior, Crash
  <2>4. CASE Freeze(r)
    BY <2>4 DEF Freeze
  <2>5. CASE StartReplay(r)
    BY <2>5 DEF StartReplay
  <2>2. ASSUME NEW band \in Bands, DetectRegime(r, band) PROVE UNCHANGED <<keyVars, seen>>
    BY <2>2 DEF DetectRegime
  <2>3. CASE \/ ClearCandidate(r) \/ GetCandidate(r) \/ SetCandidate(r)
             \/ CandidateThrows(r) \/ Throws(r)
    BY <2>3 DEF ClearCandidate, GetCandidate, SetCandidate, CandidateThrows, Throws
  <2> QED BY <1>1, <2>1, <2>2, <2>3, <2>4, <2>5 DEF BuildStep
<1>2. CASE PublishStep(r)
  BY <1>2 DEF PublishStep, WritesKeys, PublishPrivately, FetchShard, WriteRows, PersistRegimes,
     RecordRevision, Release
<1> QED BY <1>1, <1>2 DEF RunnerStep

\* A production build that leaves the shared keys alone.
LEMMA QuietKeys ==
    ASSUME TypeOK, NEW r \in Coordinators, RunnerStep(r), ~ WritesKeys(r), KeysOf(r)
    PROVE  KeysOf(r)'
<1>1. KeysOf(r) /\ r \notin Replays /\ r \in Runners
  BY RiskAssumption, CoordinatorRuns
<1>0. UNCHANGED <<revision, staging, active, manifest, snapshot, feed>>
  BY <1>1, QuietFrame DEF keyVars
<1>2. \A next : Goto(r, next) => pc'[r] = next BY <1>1, Arrives
<1>3. CASE pc'[r] \notin KeysPC BY <1>3 DEF KeysPC, KeysOf
<1>4. CASE \E ok \in BOOLEAN : ReadPrior(r, ok)
  <2>1. work'[r].rev = revision + 1 /\ pc'[r] \in {"regime", "release"}
    BY <1>1, <1>2, <1>4 DEF ReadPrior, Set, TypeOK, Work
  <2> QED BY <1>0, <2>1 DEF KeysOf
<1>5. CASE (\E band \in Bands : DetectRegime(r, band)) \/ GetCandidate(r)
  <2>1. pc[r] \in {"regime", "get"} /\ pc'[r] \in {"clear", "get", "set"}
    BY <1>2, <1>5 DEF DetectRegime, GetCandidate
  <2>2. work'[r].rev = work[r].rev
    <3>1. r \in DOMAIN work /\ work[r] \in Work BY <1>1 DEF TypeOK
    <3>2. ASSUME NEW band \in Bands, DetectRegime(r, band) PROVE work'[r].rev = work[r].rev
      <4>1. PICK p, g : work' = [work EXCEPT ![r].previous = p, ![r].regime = g]
        BY <3>2 DEF DetectRegime
      <4> QED BY <3>1, <4>1 DEF Work
    <3>3. CASE GetCandidate(r)
      <4>1. PICK n : work' = [work EXCEPT ![r]["count"] = n] BY <3>3 DEF GetCandidate, Set
      <4> QED BY <3>1, <4>1 DEF Work
    <3> QED BY <1>5, <3>2, <3>3
  <2> QED BY <1>0, <1>1, <2>1, <2>2 DEF KeysOf
<1>6. CASE ClearCandidate(r) \/ SetCandidate(r) \/ CandidateThrows(r)
  <2>1. pc[r] \in {"clear", "get", "set"} /\ pc'[r] = "stage"
    BY <1>1, <1>2, <1>6 DEF ClearCandidate, SetCandidate, CandidateThrows, Publishing
  <2>2. /\ work'[r].rev = work[r].rev /\ work'[r].shards = work[r].shards
        /\ work'[r].todo = work[r].shards
    BY <1>1, <1>6 DEF ClearCandidate, SetCandidate, CandidateThrows, TypeOK, Work
  <2>3. Remaining(r)' /\ work'[r].shards \ work'[r].todo = {} BY <2>2 DEF Remaining
  <2> QED BY <1>0, <1>1, <2>1, <2>2, <2>3 DEF KeysOf
<1>7. ASSUME NEW s \in work[r].todo, FetchShard(r, s) PROVE KeysOf(r)'
  <2>1. /\ pc[r] = "fetch" /\ pc'[r] = "activate"
        /\ work' = [work EXCEPT ![r]["copy"] = staging[s]]
    BY <1>2, <1>7 DEF FetchShard, Set
  <2>2. /\ work'[r].rev = work[r].rev /\ work'[r].shards = work[r].shards
        /\ work'[r].build = work[r].build /\ work'[r].todo = work[r].todo
        /\ work'[r].copy = staging[s]
    BY <1>1, <2>1 DEF TypeOK, Work
  <2>3. s \in work[r].shards BY <1>1, <2>1 DEF KeysOf, Remaining
  <2>4. staging[s] = Payload(r) BY <1>1, <2>1, <2>3 DEF KeysOf, AllStaged
  <2>5. Payload(r)' = Payload(r) /\ Remaining(r)' BY <1>1, <2>1, <2>2 DEF Payload, KeysOf, Remaining
  <2>6. AllStaged(r)' BY <1>0, <1>1, <2>1, <2>2, <2>5 DEF KeysOf, AllStaged
  <2> QED BY <1>0, <1>1, <2>1, <2>2, <2>4, <2>5, <2>6 DEF KeysOf
<1>8. CASE Start(r) \/ Freeze(r) \/ StartReplay(r) \/ PublishPrivately(r)
  <2>1. CASE Start(r) BY <1>2, <1>3, <2>1 DEF Start, KeysPC
  <2>2. CASE Freeze(r) BY <1>2, <1>3, <2>2 DEF Freeze, KeysPC
  <2>3. CASE StartReplay(r) BY <1>1, <2>3 DEF StartReplay
  <2>4. CASE PublishPrivately(r) BY <1>2, <1>3, <2>4 DEF PublishPrivately, KeysPC
  <2> QED BY <1>8, <2>1, <2>2, <2>3, <2>4
<1>9. CASE WriteRows(r) \/ PersistRegimes(r) \/ RecordRevision(r)
  <2>1. pc'[r] \in {"persist", "record", "release"}
    BY <1>2, <1>9 DEF WriteRows, PersistRegimes, RecordRevision
  <2> QED BY <1>3, <2>1 DEF KeysPC
<1>10. CASE Release(r) \/ Throws(r) \/ Crash(r)
  <2>1. pc'[r] \in {"idle", "done", "release"}
    BY <1>2, <1>10 DEF Release, Throws, Crash, Over
  <2> QED BY <1>3, <2>1 DEF KeysPC
<1> QED BY <1>4, <1>5, <1>6, <1>7, <1>8, <1>9, <1>10 DEF RunnerStep, BuildStep, PublishStep, WritesKeys

\* Nothing moves for a build, or for a reader, that another step leaves alone.
LEMMA KeysRest ==
    ASSUME NEW q, KeysOf(q), pc'[q] = pc[q], work'[q] = work[q],
           UNCHANGED <<revision, staging, active, manifest, snapshot>>
    PROVE  KeysOf(q)'
<1>1. Payload(q)' = Payload(q) BY DEF Payload
<1>2. AllStaged(q) => AllStaged(q)' BY <1>1 DEF AllStaged
<1>3. Remaining(q) => Remaining(q)' BY DEF Remaining
<1> QED BY <1>1, <1>2, <1>3 DEF KeysOf

LEMMA ShownRests ==
    ASSUME Shown, Answered, UNCHANGED <<revision, active, manifest, snapshot, feed, seen>>
    PROVE  Shown' /\ Answered'
    BY DEF Shown, Answered, NotAhead

\* A build that writes the keys is alone with them.
LEMMA WriterAlone ==
    ASSUME TypeOK, LInv, Apart, ~ disturbed, NEW r \in Runners, RunnerStep(r), WritesKeys(r)
    PROVE  /\ r \in Coordinators /\ r \notin Replays /\ UNCHANGED <<disturbed, seen>>
           /\ pc[r] \in ShardLoop
           /\ \A q \in Coordinators \ {r} : KeysOf(q)'
<1>1. pc[r] \in ShardLoop
  BY DEF WritesKeys, IncrRevision, WriteManifest, WriteSnapshot, PublishFeed, StageShard,
     ActivateShard, UnstageShard, ShardLoop
<1>2. r \in Coordinators /\ r \notin Replays
  BY <1>1, RiskAssumption DEF Apart, Runners
<1>3. UNCHANGED <<lockVars, seen>>
  BY DEF WritesKeys, IncrRevision, WriteManifest, WriteSnapshot, PublishFeed, StageShard,
     ActivateShard, UnstageShard
<1>4. Building(r) BY <1>1 DEF Building, BuildPC, ShardLoop
<1>5. ASSUME NEW q \in Coordinators \ {r} PROVE KeysOf(q)'
  <2>1. ~ Building(q) BY <1>2, <1>4 DEF LInv, OwnsLock
  <2>2. pc'[q] = pc[q] BY CoordinatorRuns, OthersRest
  <2>3. pc'[q] \notin KeysPC BY <2>1, <2>2 DEF Building, BuildPC, KeysPC
  <2> QED BY <2>3 DEF KeysPC, KeysOf
<1> QED BY <1>1, <1>2, <1>3, <1>5 DEF lockVars

\* What each of the writing calls does to the keys, and to what is known of its build.
LEMMA WriterKeys ==
    ASSUME TypeOK, TypeOK', NEW r \in Coordinators, r \notin Replays, WritesKeys(r),
           UNCHANGED seen, Shown, Answered, KeysOf(r)
    PROVE  Shown' /\ Answered' /\ KeysOf(r)'
<1> USE Revisions
<1>1. r \in Runners BY CoordinatorRuns
<1>2. \A next : Goto(r, next) => pc'[r] = next BY <1>1, Arrives
<1>3. work[r] \in Work /\ r \in DOMAIN work BY <1>1 DEF TypeOK
<1>4. ASSUME NEW s \in work[r].todo, StageShard(r, s) PROVE Shown' /\ Answered' /\ KeysOf(r)'
  <2>1. /\ pc[r] = "stage" /\ pc'[r] = IF work[r].todo = {s} THEN "bump" ELSE "stage"
        /\ staging' = [staging EXCEPT ![s] = Payload(r)]
        /\ work' = [work EXCEPT ![r]["todo"] = work[r].todo \ {s}]
        /\ UNCHANGED <<revision, active, manifest, snapshot, feed>>
    BY <1>2, <1>4 DEF StageShard, NextShard, Set
  <2>2. /\ work'[r].rev = work[r].rev /\ work'[r].build = work[r].build
        /\ work'[r].shards = work[r].shards /\ work'[r].todo = work[r].todo \ {s}
    BY <1>3, <2>1 DEF Work
  <2>3. Payload(r)' = Payload(r) BY <2>2 DEF Payload
  <2>4. Remaining(r) /\ Remaining(r)' BY <2>1, <2>2 DEF KeysOf, Remaining
  <2>5. \A u \in work[r].shards \ work[r].todo : staging[u] = Payload(r) BY <2>1 DEF KeysOf
  <2>6. staging'[s] = Payload(r)
    <3>1. s \in Shards BY <1>3 DEF Work
    <3> QED BY <2>1, <3>1 DEF TypeOK
  <2>7. \A u \in work'[r].shards \ work'[r].todo : staging'[u] = Payload(r)'
    <3> SUFFICES ASSUME NEW u \in work[r].shards, u \notin work[r].todo \ {s}
                 PROVE  staging'[u] = Payload(r)
      BY <2>2, <2>3
    <3>1. CASE u = s BY <2>6, <3>1
    <3>2. CASE u # s
      <4>1. u \in Shards BY <1>3 DEF Work
      <4>2. staging'[u] = staging[u] BY <2>1, <3>2, <4>1 DEF TypeOK
      <4> QED BY <2>5, <3>2, <4>2
    <3> QED BY <3>1, <3>2
  <2>8. pc'[r] = "bump" => AllStaged(r)'
    BY <2>1, <2>2, <2>7 DEF AllStaged
  <2>9. work[r].rev = revision + 1 BY <2>1 DEF KeysOf
  <2>10. Shown' /\ Answered' BY <2>1, ShownRests
  <2> QED BY <2>1, <2>2, <2>4, <2>7, <2>8, <2>9, <2>10 DEF KeysOf
<1>5. CASE IncrRevision(r)
  <2>1. /\ pc[r] = "bump" /\ pc'[r] = "fetch" /\ revision' = revision + 1
        /\ work' = [work EXCEPT ![r].rev = revision + 1, ![r].todo = work[r].shards]
        /\ UNCHANGED <<staging, active, manifest, snapshot, feed>>
    BY <1>2, <1>5 DEF IncrRevision
  <2>2. work[r].rev = revision + 1 /\ AllStaged(r) BY <2>1 DEF KeysOf
  <2>3. /\ work'[r].rev = revision + 1 /\ work'[r].build = work[r].build
        /\ work'[r].shards = work[r].shards /\ work'[r].todo = work[r].shards
    BY <1>3, <2>1 DEF Work
  <2>4. Payload(r)' = Payload(r) BY <2>2, <2>3 DEF Payload
  <2>5. AllStaged(r)' /\ Remaining(r)' /\ work'[r].shards \ work'[r].todo = {}
    BY <2>1, <2>2, <2>3, <2>4 DEF AllStaged, Remaining
  <2>6. manifest # Nothing => manifest.rev <= revision /\ manifest.rev \in Nat /\ revision \in Nat
    BY DEF Shown
  <2>7. Shown'
    <3>1. manifest' # Nothing => manifest'.rev <= revision' /\ manifest'.rev # revision'
      BY <2>1, <2>6
    <3> QED BY <2>1, <3>1 DEF Shown, NotAhead
  <2>8. Answered' BY <2>1 DEF Answered, NotAhead
  <2>9. manifest' # Nothing => manifest'.rev < revision' BY <2>1, <2>6
  <2> QED BY <2>1, <2>3, <2>5, <2>7, <2>8, <2>9 DEF KeysOf
<1>6. ASSUME NEW s \in work[r].todo, ActivateShard(r, s) PROVE Shown' /\ Answered' /\ KeysOf(r)'
  <2>1. /\ pc[r] = "activate" /\ pc'[r] = IF work[r].todo = {s} THEN "manifest" ELSE "fetch"
        /\ active' = [active EXCEPT ![s] = IF work[r].copy = Nothing THEN @ ELSE work[r].copy]
        /\ work' = [work EXCEPT ![r]["todo"] = work[r].todo \ {s}]
        /\ UNCHANGED <<revision, staging, manifest, snapshot, feed>>
    BY <1>2, <1>6 DEF ActivateShard, NextShard, Set
  <2>2. /\ work'[r].rev = work[r].rev /\ work'[r].build = work[r].build
        /\ work'[r].shards = work[r].shards /\ work'[r].todo = work[r].todo \ {s}
    BY <1>3, <2>1 DEF Work
  <2>3. Payload(r)' = Payload(r) BY <2>2 DEF Payload
  <2>4. Remaining(r) /\ Remaining(r)' BY <2>1, <2>2 DEF KeysOf, Remaining
  <2>5. /\ \A u \in work[r].shards \ work[r].todo : active[u] = Payload(r)
        /\ AllStaged(r) /\ work[r].copy = Payload(r) /\ work[r].rev = revision
        /\ manifest # Nothing => manifest.rev < revision
    BY <2>1 DEF KeysOf
  <2>6. Payload(r) # Nothing
    <3>1. Payload(r) \in Stamp BY <1>3 DEF Payload, Stamp, Work
    <3> QED BY <3>1, NothingIsNoValue
  <2>7. active' = [active EXCEPT ![s] = Payload(r)] BY <2>1, <2>5, <2>6
  <2>8. active'[s] = Payload(r)
    <3>1. s \in Shards BY <1>3 DEF Work
    <3> QED BY <2>7, <3>1 DEF TypeOK
  <2>9. \A u \in work'[r].shards \ work'[r].todo : active'[u] = Payload(r)'
    <3> SUFFICES ASSUME NEW u \in work[r].shards, u \notin work[r].todo \ {s}
                 PROVE  active'[u] = Payload(r)
      BY <2>2, <2>3
    <3>1. CASE u = s BY <2>8, <3>1
    <3>2. CASE u # s
      <4>1. u \in Shards BY <1>3 DEF Work
      <4>2. active'[u] = active[u] BY <2>7, <3>2, <4>1 DEF TypeOK
      <4> QED BY <2>5, <3>2, <4>2
    <3> QED BY <3>1, <3>2
  <2>10. AllStaged(r)' BY <2>1, <2>2, <2>3, <2>5 DEF AllStaged
  <2>11. manifest' # Nothing => manifest'.rev < revision' BY <2>1, <2>5
  <2>12. Shown'
    <3>1. manifest' # Nothing => manifest'.rev <= revision' /\ manifest'.rev # revision'
      BY <2>1, <2>11
    <3> QED BY <2>1, <3>1 DEF Shown, NotAhead
  <2>13. Answered' BY <2>1 DEF Answered, NotAhead
  <2>14. pc'[r] = "manifest" => work'[r].todo = {} BY <2>1, <2>2
  <2> QED BY <2>1, <2>2, <2>4, <2>5, <2>9, <2>10, <2>11, <2>12, <2>13, <2>14 DEF KeysOf
<1>7. CASE WriteManifest(r)
  <2> DEFINE new == [rev |-> work[r].rev, build |-> work[r].build, shards |-> work[r].shards]
  <2>1. /\ pc[r] = "manifest" /\ pc'[r] = "snapshot" /\ manifest' = new
        /\ UNCHANGED <<revision, staging, active, snapshot, feed, work>>
    BY <1>2, <1>7 DEF WriteManifest
  <2>2. /\ work[r].rev = revision
        /\ manifest # Nothing => manifest.rev < revision
        /\ \A s \in work[r].shards : active[s] = Payload(r)
    BY <2>1 DEF KeysOf
  <2>3. new \in Manifest BY <1>3 DEF Manifest, Work
  <2>4. new # Nothing BY <2>3, NothingIsNoValue
  <2>5. \A s : NotAhead(s, manifest) /\ (s # Nothing => s.rev \in Nat) => NotAhead(s, new)
    <3> SUFFICES ASSUME NEW s, NotAhead(s, manifest), s # Nothing, s.rev \in Nat
                 PROVE  NotAhead(s, new)
      BY DEF NotAhead
    <3>1. manifest # Nothing /\ s.rev <= manifest.rev BY DEF NotAhead
    <3>2. s.rev < revision BY <2>2, <3>1
    <3>3. new.rev = revision BY <2>2
    <3>4. s.rev <= new.rev /\ s.rev # new.rev BY <3>2, <3>3
    <3> HIDE DEF new
    <3> QED BY <2>4, <3>4 DEF NotAhead
  <2>6. Shown'
    <3>1. NotAhead(snapshot, new) BY <2>5 DEF Shown
    <3>2. new.rev = revision /\ new.build = work[r].build /\ new.shards = work[r].shards
      BY <2>2
    <3>3. Payload(r) = [rev |-> new.rev, build |-> new.build] BY <2>2, <3>2 DEF Payload
    <3> HIDE DEF new
    <3> QED BY <2>1, <2>2, <3>1, <3>2, <3>3 DEF Shown, NotAhead
  <2>7. Answered'
    <3> SUFFICES ASSUME NEW q \in Readers
                 PROVE  /\ seen[q].at = "half" => NotAhead(seen[q].snapshot, new)
                        /\ seen[q].at = "done" => NotAhead(seen[q].snapshot, seen[q].manifest)
      BY <2>1 DEF Answered, NotAhead
    <3> QED BY <2>5 DEF Answered
  <2> QED BY <2>1, <2>2, <2>6, <2>7 DEF KeysOf
<1>8. CASE WriteSnapshot(r)
  <2>1. /\ pc[r] = "snapshot" /\ pc'[r] = "feed" /\ snapshot' = Payload(r)
        /\ UNCHANGED <<revision, staging, active, manifest, feed, work>>
    BY <1>2, <1>8 DEF WriteSnapshot
  <2>2. /\ work[r].rev = revision
        /\ manifest = [rev |-> work[r].rev, build |-> work[r].build, shards |-> work[r].shards]
    BY <2>1 DEF KeysOf
  <2>3. Payload(r) \in Stamp /\ manifest \in Manifest BY <1>3, <2>2 DEF Payload, Stamp, Manifest, Work
  <2>4. Payload(r) # Nothing /\ manifest # Nothing BY <2>3, NothingIsNoValue
  <2>9. /\ Payload(r).rev = revision /\ Payload(r).build = work[r].build
        /\ manifest.rev = revision /\ manifest.build = work[r].build
    BY <2>2 DEF Payload
  <2>5. NotAhead(Payload(r), manifest) BY <2>4, <2>9 DEF NotAhead
  <2>6. feed > 0 => feed <= revision
    <3>1. feed > 0 => snapshot # Nothing /\ feed <= snapshot.rev BY DEF Shown
    <3>2. snapshot # Nothing => snapshot.rev <= manifest.rev BY DEF Shown, NotAhead
    <3>3. snapshot # Nothing => snapshot.rev \in Nat OBVIOUS
    <3> QED BY <2>9, <3>1, <3>2, <3>3
  <2>7. Shown'
    <3>1. feed' > 0 => snapshot' # Nothing /\ feed' <= snapshot'.rev
      BY <2>1, <2>4, <2>6, <2>9
    <3>2. NotAhead(snapshot, manifest)' BY <2>1, <2>5 DEF NotAhead
    <3> QED BY <2>1, <3>1, <3>2 DEF Shown
  <2>8. Answered' BY <2>1 DEF Answered, NotAhead
  <2> QED BY <2>1, <2>2, <2>7, <2>8 DEF KeysOf, Payload
<1>9. CASE PublishFeed(r)
  <2>1. /\ pc[r] = "feed" /\ pc'[r] = "unstage" /\ feed' = work[r].rev
        /\ UNCHANGED <<revision, staging, active, manifest, snapshot>>
    BY <1>2, <1>9 DEF PublishFeed
  <2>2. snapshot = Payload(r) BY <2>1 DEF KeysOf
  <2>3. Payload(r) \in Stamp BY <1>3 DEF Payload, Stamp, Work
  <2>4. snapshot # Nothing /\ feed' <= snapshot.rev
    BY <1>3, <2>1, <2>2, <2>3, NothingIsNoValue DEF Payload, Work
  <2>5. Shown' BY <2>1, <2>4 DEF Shown, NotAhead
  <2>6. Answered' BY <2>1 DEF Answered, NotAhead
  <2> QED BY <2>1, <2>5, <2>6 DEF KeysOf
<1>10. ASSUME NEW s \in work[r].todo, UnstageShard(r, s) PROVE Shown' /\ Answered' /\ KeysOf(r)'
  <2>1. /\ pc'[r] = IF work[r].todo = {s} THEN "rows" ELSE "unstage"
        /\ UNCHANGED <<revision, active, manifest, snapshot, feed>>
    BY <1>2, <1>10 DEF UnstageShard, NextShard
  <2>2. Shown' /\ Answered' BY <2>1, ShownRests
  <2> QED BY <2>1, <2>2 DEF KeysOf
<1> QED BY <1>4, <1>5, <1>6, <1>7, <1>8, <1>9, <1>10 DEF WritesKeys

LEMMA KeysAlways == Spec => []KeysInv
<1>1. Init => KeysInv
  <2>1. \A r \in Coordinators : Init => pc[r] \notin KeysPC
    BY CoordinatorRuns DEF Init, KeysPC
  <2> QED BY <2>1, NotKeyed DEF Init, KeysInv, Keys, Shown, Answered, NotAhead
<1>2. TInv /\ TInv' /\ LInv /\ Apart /\ KeysInv /\ [Next]_vars => KeysInv'
  <2> SUFFICES ASSUME TypeOK, TypeOK', LInv, Apart, KeysInv, [Next]_vars, ~ disturbed'
               PROVE  Shown' /\ Answered' /\ \A r \in Coordinators : KeysOf(r)'
    BY DEF TInv, KeysInv, Keys
  <2>1. ~ disturbed
    <3>1. disturbed \in BOOLEAN BY DEF TypeOK
    <3> QED BY <3>1, DisturbedStays
  <2>2. Shown /\ Answered /\ \A r \in Coordinators : KeysOf(r)
    BY <2>1 DEF KeysInv, Keys
  <2>3. ASSUME NEW r \in Runners, RunnerStep(r), WritesKeys(r)
        PROVE  Shown' /\ Answered' /\ \A q \in Coordinators : KeysOf(q)'
    <3>1. /\ r \in Coordinators /\ r \notin Replays /\ UNCHANGED seen
          /\ \A q \in Coordinators \ {r} : KeysOf(q)'
      BY <2>1, <2>3, WriterAlone
    <3>2. Shown' /\ Answered' /\ KeysOf(r)' BY <2>2, <2>3, <3>1, WriterKeys
    <3> QED BY <3>1, <3>2
  <2>4. ASSUME NEW r \in Runners, RunnerStep(r), ~ WritesKeys(r)
        PROVE  Shown' /\ Answered' /\ \A q \in Coordinators : KeysOf(q)'
    <3>1. UNCHANGED <<revision, staging, active, manifest, snapshot, feed, seen>>
      BY <2>4, QuietFrame DEF keyVars
    <3>2. Shown' /\ Answered' BY <2>2, <3>1, ShownRests
    <3>3. ASSUME NEW q \in Coordinators PROVE KeysOf(q)'
      <4>1. CASE q = r BY <2>2, <2>4, <4>1, QuietKeys
      <4>2. CASE q # r
        <5>1. pc'[q] = pc[q] /\ work'[q] = work[q] BY <2>4, <4>2, CoordinatorRuns, OthersRest
        <5> QED BY <2>2, <3>1, <5>1, KeysRest
      <4> QED BY <4>1, <4>2
    <3> QED BY <3>2, <3>3
  <2>5. ASSUME NEW q \in Readers, ReadStep(q)
        PROVE  Shown' /\ Answered' /\ \A r \in Coordinators : KeysOf(r)'
    <3>1. /\ UNCHANGED <<revision, staging, active, manifest, snapshot, feed, pc, work>>
          /\ \A p \in Readers \ {q} : seen'[p] = seen[p]
      BY <2>5 DEF ReadStep, ReadSnapshot, ReadManifest, keyVars, TypeOK
    <3>2. \A r \in Coordinators : KeysOf(r)' BY <2>2, <3>1, KeysRest
    <3>3. Shown' BY <2>2, <3>1 DEF Shown, NotAhead
    <3>4. seen[q] \in Answer /\ q \in DOMAIN seen BY DEF TypeOK
    <3>5. CASE ReadSnapshot(q)
      <4>1. seen'[q].at = "half" /\ seen'[q].snapshot = snapshot
        BY <3>4, <3>5 DEF ReadSnapshot
      <4>2. NotAhead(snapshot, manifest) BY <2>2 DEF Shown
      <4> QED BY <2>2, <3>1, <3>2, <3>3, <4>1, <4>2 DEF Answered, NotAhead
    <3>6. CASE ReadManifest(q)
      <4>1. /\ seen[q].at = "half" /\ seen'[q].at = "done"
            /\ seen'[q].snapshot = seen[q].snapshot /\ seen'[q].manifest = manifest
        BY <3>4, <3>6 DEF ReadManifest, Answer
      <4>2. NotAhead(seen[q].snapshot, manifest) BY <2>2, <4>1 DEF Answered
      <4> QED BY <2>2, <3>1, <3>2, <3>3, <4>1, <4>2 DEF Answered, NotAhead
    <3> QED BY <2>5, <3>5, <3>6 DEF ReadStep
  <2>6. CASE LockExpires \/ UNCHANGED vars
    <3>1. UNCHANGED <<revision, staging, active, manifest, snapshot, feed, pc, work, seen>>
      BY <2>6 DEF LockExpires, vars, keyVars
    <3> QED BY <2>2, <3>1, KeysRest, ShownRests
  <2> QED BY <2>3, <2>4, <2>5, <2>6 DEF Next, RunnerStep
<1> QED BY <1>1, <1>2, TInvAlways, LInvAlways, ApartAlways, PTL DEF Spec

\* Readers take the snapshot before the manifest, builds write them the other way
\* round: no answer is ahead of its manifest, and what the feed announces is there.
THEOREM AnswersAreCoherent == Spec => []ReadersAreServed
<1>1. KeysInv => ReadersAreServed
  BY DEF KeysInv, Keys, Shown, Answered, NotAhead, ReadersAreServed, ReaderNotAhead,
     AnnouncedIsReadable
<1> QED BY <1>1, KeysAlways, PTL

\* A manifest of the newest revision vouches only for shards of that build,
\* whatever a dead build left in the staging keys.
THEOREM ManifestVouches == Spec => []ShardsMatchManifest
<1>1. KeysInv => ShardsMatchManifest BY DEF KeysInv, Keys, Shown, ShardsMatchManifest
<1> QED BY <1>1, KeysAlways, PTL

\* The revision that readers see never goes back.
THEOREM RevisionsAdvance == Spec => PublishedRevisionGrows
<1>1. TInv /\ LInv /\ Apart /\ KeysInv /\ [Next]_vars =>
        [~ disturbed /\ manifest # Nothing => manifest'.rev > manifest.rev]_manifest
  <2> SUFFICES ASSUME TypeOK, LInv, Apart, KeysInv, [Next]_vars, manifest' # manifest,
                      ~ disturbed, manifest # Nothing
               PROVE  manifest'.rev > manifest.rev
    BY DEF TInv
  <2>1. PICK r \in Runners : WriteManifest(r)
    <3>1. \A r \in Runners : RunnerStep(r) /\ ~ WritesKeys(r) => UNCHANGED manifest
      BY QuietFrame DEF keyVars
    <3>2. ~ (\E q \in Readers : ReadStep(q)) /\ ~ LockExpires /\ ~ UNCHANGED vars
      BY DEF ReadStep, ReadSnapshot, ReadManifest, LockExpires, vars, keyVars
    <3>3. PICK r \in Runners : RunnerStep(r) /\ WritesKeys(r)
      BY <3>1, <3>2 DEF Next, RunnerStep
    <3>4. \A s : ~ StageShard(r, s) /\ ~ ActivateShard(r, s) /\ ~ UnstageShard(r, s)
      BY DEF StageShard, ActivateShard, UnstageShard
    <3>5. ~ IncrRevision(r) /\ ~ WriteSnapshot(r) /\ ~ PublishFeed(r)
      BY DEF IncrRevision, WriteSnapshot, PublishFeed
    <3> QED BY <3>3, <3>4, <3>5 DEF WritesKeys
  <2>2. pc[r] = "manifest" /\ manifest'.rev = work[r].rev BY <2>1 DEF WriteManifest
  <2>3. r \in Coordinators BY <2>2, RiskAssumption DEF Apart, Runners, ShardLoop
  <2>4. work[r].rev = revision /\ manifest.rev < revision
    BY <2>2, <2>3 DEF KeysInv, Keys, KeysOf
  <2>5. manifest.rev \in Nat /\ revision \in Nat BY Revisions
  <2> QED BY <2>2, <2>4, <2>5
<1> QED BY <1>1, TInvAlways, LInvAlways, ApartAlways, KeysAlways, PTL DEF Spec, PublishedRevisionGrows

---------------------------------------------------------------------------
(* The hysteresis of the market regime, in a run without faults or replays. *)

Calm == ~ disturbed /\ throws = 0 /\ crashes = 0 /\ \A r \in Replays : pc[r] = "idle"

\* The latest n proposals were g; the n before the latest were g.
Streak(n, g) == \A k \in 1 .. Persistence : k <= n => k \in DOMAIN recent /\ recent[k] = g
Before(n, g) ==
    \A k \in 1 .. Persistence : 2 <= k /\ k <= n + 1 => k \in DOMAIN recent /\ recent[k] = g

Detecting == {"clear", "get", "set"}
Detected == {"private", "stage", "bump", "fetch", "activate", "manifest", "snapshot", "feed",
             "unstage", "rows", "persist"}

\* What a build that has run the detection may write into the documents.
RegimeOf(r) ==
    /\ pc[r] \in Detecting \cup Detected => work[r].previous \in Current
    /\ pc[r] = "clear" => work[r].regime = work[r].previous
    /\ pc[r] \in {"get", "set"} => Streak(1, work[r].regime)
    /\ pc[r] \in {"get", "set"} /\ candidate # Nothing =>
          Before(candidate.count, candidate.regime)
    /\ pc[r] = "set" => Before(work[r].count, work[r].regime)
    /\ pc[r] \in Detected =>
          work[r].regime = work[r].previous \/ Streak(Persistence, work[r].regime)

\* Between detections the candidate counts the latest proposals.
CandidateCounts ==
    candidate # Nothing /\ (\A r \in Coordinators : pc[r] \notin Detecting)
        => Streak(candidate.count, candidate.regime)

Hysteresis == CandidateCounts /\ \A r \in Coordinators : RegimeOf(r)
RegimeInv == Calm => Hysteresis

LEMMA NotDetected ==
    ASSUME NEW r, pc[r] \notin Detecting \cup Detected
    PROVE  RegimeOf(r)
    BY DEF Detecting, Detected, RegimeOf

\* The proposals and the candidate as a step finds and leaves them.
LEMMA Longer ==
    ASSUME NEW n \in Nat, NEW g, Streak(1, g), Before(n, g)
    PROVE  Streak(n + 1, g)
<1> SUFFICES ASSUME NEW k \in 1 .. Persistence, k <= n + 1
             PROVE  k \in DOMAIN recent /\ recent[k] = g
  BY DEF Streak
<1>1. CASE k = 1 BY <1>1 DEF Streak
<1>2. CASE k # 1
  <2>1. 2 <= k BY <1>2
  <2> QED BY <2>1 DEF Before
<1> QED BY <1>1, <1>2

LEMMA RegimeRests ==
    ASSUME NEW q, RegimeOf(q), pc'[q] = pc[q], work'[q] = work[q],
           UNCHANGED <<candidate, recent, regimes>>
    PROVE  RegimeOf(q)'
<1>1. Current' = Current BY DEF Current, Latest
<1>2. \A n, g : Streak(n, g)' <=> Streak(n, g) BY DEF Streak
<1>3. \A n, g : Before(n, g)' <=> Before(n, g) BY DEF Before
<1> QED BY <1>1, <1>2, <1>3 DEF RegimeOf

\* A run that is calm after a step was so before, and no build failed in it.
LEMMA CalmBefore ==
    ASSUME TypeOK, [Next]_vars, Calm'
    PROVE  /\ Calm
           /\ \A r \in Runners :
                 RunnerStep(r) => /\ r \in Coordinators /\ r \notin Replays
                                  /\ BuildStep(r) \/ PublishStep(r)
<1>1. ~ disturbed
  <2>1. disturbed \in BOOLEAN BY DEF TypeOK
  <2> QED BY <2>1, DisturbedStays DEF Calm
<1>2. ASSUME NEW r \in Runners, RunnerStep(r)
      PROVE  /\ throws = 0 /\ crashes = 0
             /\ r \in Coordinators /\ r \notin Replays
             /\ BuildStep(r) \/ PublishStep(r)
  <2>1. throws \in Nat /\ crashes \in Nat BY DEF TypeOK
  <2>2. ~ CandidateThrows(r) /\ ~ Throws(r) /\ ~ Crash(r)
    BY <2>1 DEF CandidateThrows, Throws, Crash, Calm
  <2>3. BuildStep(r) \/ PublishStep(r) BY <1>2, <2>2 DEF RunnerStep
  <2>4. UNCHANGED faults
    <3>1. CASE BuildStep(r)
      <4>1. CASE Start(r) \/ (\E ok \in BOOLEAN : ReadPrior(r, ok))
        BY <4>1 DEF Start, ReadPrior
      <4>2. ASSUME NEW band \in Bands, DetectRegime(r, band) PROVE UNCHANGED faults
        BY <4>2 DEF DetectRegime
      <4>3. CASE ClearCandidate(r) \/ GetCandidate(r) \/ SetCandidate(r)
        BY <4>3 DEF ClearCandidate, GetCandidate, SetCandidate
      <4>4. CASE Freeze(r) BY <4>4 DEF Freeze
      <4>5. CASE StartReplay(r) BY <4>5 DEF StartReplay
      <4> QED BY <3>1, <4>1, <4>2, <4>3, <4>4, <4>5 DEF BuildStep
    <3>2. CASE PublishStep(r)
      BY <3>2 DEF PublishStep, PublishPrivately, IncrRevision, StageShard, FetchShard, ActivateShard,
         UnstageShard, WriteManifest, WriteSnapshot, PublishFeed, WriteRows, PersistRegimes,
         RecordRevision, Release
    <3> QED BY <2>3, <3>1, <3>2
  <2>5. throws = 0 /\ crashes = 0 BY <2>4 DEF faults, Calm
  <2>6. r \notin Replays
    <3> SUFFICES ASSUME r \in Replays PROVE FALSE
      OBVIOUS
    <3>1. pc'[r] = "idle" /\ r \notin Coordinators BY RiskAssumption DEF Calm
    <3>2. \A next : Goto(r, next) => pc'[r] = next BY Arrives
    <3>3. \A next : Goto(r, next) => next = "idle" BY <3>1, <3>2
    <3>4. CASE BuildStep(r)
      <4>1. CASE Start(r) \/ (\E ok \in BOOLEAN : ReadPrior(r, ok))
        BY <3>1, <3>3, <4>1 DEF Start, ReadPrior
      <4>2. ASSUME NEW band \in Bands, DetectRegime(r, band) PROVE FALSE
        BY <3>3, <4>2 DEF DetectRegime
      <4>3. CASE ClearCandidate(r) \/ GetCandidate(r) \/ SetCandidate(r)
        BY <3>3, <4>3 DEF ClearCandidate, GetCandidate, SetCandidate, Publishing
      <4>4. CASE Freeze(r) BY <3>3, <4>4 DEF Freeze
      <4>5. CASE StartReplay(r) BY <3>3, <4>5 DEF StartReplay
      <4> QED BY <3>4, <4>1, <4>2, <4>3, <4>4, <4>5 DEF BuildStep
    <3>5. CASE PublishStep(r)
      BY <3>3, <3>5 DEF PublishStep, PublishPrivately, IncrRevision, StageShard, FetchShard,
         ActivateShard, UnstageShard, WriteManifest, WriteSnapshot, PublishFeed, WriteRows,
         PersistRegimes, RecordRevision, Release, NextShard, Over
    <3> QED BY <2>3, <3>4, <3>5
  <2> QED BY <2>3, <2>5, <2>6 DEF Runners
<1>3. ASSUME NEW q \in Readers, ReadStep(q) PROVE UNCHANGED <<throws, crashes, pc>>
  BY <1>3 DEF ReadStep, ReadSnapshot, ReadManifest, faults
<1>4. LockExpires \/ UNCHANGED vars => UNCHANGED <<throws, crashes, pc>>
  BY DEF LockExpires, vars, faults
<1>5. throws = 0 /\ crashes = 0
  BY <1>2, <1>3, <1>4 DEF Next, RunnerStep, Calm
<1>6. ASSUME NEW p \in Replays PROVE pc[p] = "idle"
  <2>1. p \in Runners BY DEF Runners
  <2>2. \A r \in Runners : RunnerStep(r) => pc'[p] = pc[p]
    BY <1>2, <2>1, OthersRest
  <2> QED BY <1>3, <1>4, <2>2 DEF Next, RunnerStep, Calm
<1> QED BY <1>1, <1>2, <1>5, <1>6 DEF Calm

\* A calm build is alone: the others have nothing detected at hand.
LEMMA Alone ==
    ASSUME TypeOK, LInv, Calm, NEW r \in Coordinators, RunnerStep(r), Building(r)
    PROVE  \A q \in Coordinators \ {r} :
              /\ pc[q] \notin Detecting \cup Detected
              /\ pc'[q] \notin Detecting \cup Detected
              /\ RegimeOf(q)'
<1> SUFFICES ASSUME NEW q \in Coordinators \ {r}
             PROVE  /\ pc[q] \notin Detecting \cup Detected
                    /\ pc'[q] \notin Detecting \cup Detected
                    /\ RegimeOf(q)'
  OBVIOUS
<1>1. ~ Building(q) BY DEF LInv, OwnsLock, Calm
<1>2. pc'[q] = pc[q] BY CoordinatorRuns, OthersRest
<1>3. pc[q] \notin Detecting \cup Detected BY <1>1 DEF Building, BuildPC, Detecting, Detected
<1> QED BY <1>2, <1>3 DEF Detecting, Detected, RegimeOf

\* Detection and the calls on the candidate key.
LEMMA DetectionStep ==
    ASSUME TypeOK, LInv, Calm, Hysteresis, NEW r \in Coordinators, r \notin Replays,
           \/ \E band \in Bands : DetectRegime(r, band)
           \/ ClearCandidate(r) \/ GetCandidate(r) \/ SetCandidate(r)
    PROVE  Hysteresis'
<1>1. r \in Runners /\ RunnerStep(r) BY CoordinatorRuns DEF RunnerStep, BuildStep
<1>2. \A next : Goto(r, next) => pc'[r] = next BY <1>1, Arrives
<1>3. work[r] \in Work /\ r \in DOMAIN work BY <1>1 DEF TypeOK
<1>4. pc[r] \in {"regime", "clear", "get", "set"}
  BY DEF DetectRegime, ClearCandidate, GetCandidate, SetCandidate
<1>5. \A q \in Coordinators \ {r} :
          /\ pc[q] \notin Detecting \cup Detected
          /\ pc'[q] \notin Detecting \cup Detected
          /\ RegimeOf(q)'
  BY <1>1, <1>4, Alone DEF Building, BuildPC
<1>6. RegimeOf(r) BY DEF Hysteresis
<1>7. ASSUME NEW band \in Bands, DetectRegime(r, band) PROVE Hysteresis'
  <2>1. pc[r] = "regime" /\ UNCHANGED <<regimes, candidate>>
    BY <1>7 DEF DetectRegime, docVars
  <2>0. PICK p \in Current :
           /\ work' = [work EXCEPT ![r].previous = p, ![r].regime = Proposal(p, band)]
           /\ recent' = [k \in 1 .. Persistence |->
                           IF k = 1 THEN Proposal(p, band)
                           ELSE IF k - 1 \in DOMAIN recent THEN recent[k - 1] ELSE "none"]
           /\ Goto(r, IF Proposal(p, band) = p THEN "clear" ELSE "get")
    BY <1>7 DEF DetectRegime, Current
  <2> DEFINE g == Proposal(p, band)
  <2>2. /\ work' = [work EXCEPT ![r].previous = p, ![r].regime = g]
        /\ recent' = [k \in 1 .. Persistence |->
                        IF k = 1 THEN g
                        ELSE IF k - 1 \in DOMAIN recent THEN recent[k - 1] ELSE "none"]
        /\ Goto(r, IF g = p THEN "clear" ELSE "get")
    BY <2>0
  <2> HIDE DEF g
  <2>3. /\ work'[r].previous = p /\ work'[r].regime = g
        /\ pc'[r] = IF g = p THEN "clear" ELSE "get"
    BY <1>2, <1>3, <2>2 DEF Work
  <2>4. Current' = Current BY <2>1 DEF Current, Latest
  <2>5. Streak(1, g)' BY <2>2 DEF Streak
  <2>6. candidate # Nothing => Streak(candidate.count, candidate.regime)
    BY <1>5, <2>1 DEF Hysteresis, CandidateCounts, Detecting
  <2>7. candidate # Nothing => Before(candidate.count, candidate.regime)'
    <3> SUFFICES ASSUME candidate # Nothing, NEW k \in 1 .. Persistence,
                        2 <= k, k <= candidate.count + 1
                 PROVE  k \in DOMAIN recent' /\ recent'[k] = candidate.regime
      BY <2>1 DEF Before
    <3>1. candidate.count \in Nat BY DEF TypeOK
    <3>2. k - 1 \in 1 .. Persistence /\ k - 1 <= candidate.count
      BY <3>1, RiskAssumption
    <3>3. k - 1 \in DOMAIN recent /\ recent[k - 1] = candidate.regime
      BY <2>6, <3>2 DEF Streak
    <3> QED BY <2>2, <3>3
  <2>8. RegimeOf(r)'
    BY <2>1, <2>2, <2>3, <2>4, <2>5, <2>7 DEF RegimeOf, Detected
  <2>9. pc'[r] \in Detecting BY <2>3 DEF Detecting
  <2> QED BY <1>5, <2>8, <2>9 DEF Hysteresis, CandidateCounts
<1>8. CASE ClearCandidate(r)
  <2>1. /\ pc[r] = "clear" /\ pc'[r] = "stage" /\ candidate' = Nothing
        /\ work' = [work EXCEPT ![r].todo = work[r].shards]
        /\ UNCHANGED <<recent, regimes>>
    BY <1>2, <1>8 DEF ClearCandidate, Publishing, docVars
  <2>2. work'[r].previous = work[r].previous /\ work'[r].regime = work[r].regime
    BY <1>3, <2>1 DEF Work
  <2>3. Current' = Current BY <2>1 DEF Current, Latest
  <2>4. RegimeOf(r)' BY <1>6, <2>1, <2>2, <2>3 DEF RegimeOf, Detecting
  <2> QED BY <1>5, <2>1, <2>4 DEF Hysteresis, CandidateCounts
<1>9. CASE GetCandidate(r)
  <2>1. /\ pc[r] = "get" /\ pc'[r] = "set"
        /\ work' = [work EXCEPT ![r]["count"] =
                      IF candidate # Nothing /\ candidate.regime = work[r].regime
                      THEN candidate.count ELSE 0]
        /\ UNCHANGED <<recent, regimes, candidate>>
    BY <1>2, <1>9 DEF GetCandidate, Set, docVars, regimeVars
  <2>2. /\ work'[r].previous = work[r].previous /\ work'[r].regime = work[r].regime
        /\ work'[r].count = IF candidate # Nothing /\ candidate.regime = work[r].regime
                            THEN candidate.count ELSE 0
    BY <1>3, <2>1 DEF Work
  <2>3. Current' = Current BY <2>1 DEF Current, Latest
  <2>4. \A n, g : (Streak(n, g) => Streak(n, g)') /\ (Before(n, g) => Before(n, g)')
    BY <2>1 DEF Streak, Before
  <2>5. Streak(1, work[r].regime) /\ work[r].previous \in Current
        /\ (candidate # Nothing => Before(candidate.count, candidate.regime))
    BY <1>6, <2>1 DEF RegimeOf, Detecting
  <2>6. Before(0, work[r].regime) BY DEF Before
  <2>7. Before(work'[r].count, work[r].regime) BY <2>2, <2>5, <2>6
  <2>8. RegimeOf(r)' BY <2>1, <2>2, <2>3, <2>4, <2>5, <2>7 DEF RegimeOf, Detected
  <2>9. pc'[r] \in Detecting BY <2>1 DEF Detecting
  <2> QED BY <1>5, <2>8, <2>9 DEF Hysteresis, CandidateCounts
<1>10. CASE SetCandidate(r)
  <2> DEFINE n == work[r].count + 1
  <2>1. /\ pc[r] = "set" /\ pc'[r] = "stage"
        /\ candidate' = [regime |-> work[r].regime, count |-> n]
        /\ work' = [work EXCEPT ![r].todo = work[r].shards,
                                ![r].regime = IF n < Persistence THEN work[r].previous ELSE @]
        /\ UNCHANGED <<recent, regimes>>
    BY <1>2, <1>10 DEF SetCandidate, Publishing, docVars
  <2>2. /\ work'[r].previous = work[r].previous
        /\ work'[r].regime = IF n < Persistence THEN work[r].previous ELSE work[r].regime
    BY <1>3, <2>1 DEF Work
  <2>3. Current' = Current BY <2>1 DEF Current, Latest
  <2>4. work[r].count \in Nat BY <1>3 DEF Work
  <2>5. work[r].previous \in Current /\ Streak(n, work[r].regime)
    <3>1. Streak(1, work[r].regime) /\ Before(work[r].count, work[r].regime)
      BY <1>6, <2>1 DEF RegimeOf
    <3>2. work[r].previous \in Current BY <1>6, <2>1 DEF RegimeOf, Detecting
    <3> QED BY <2>4, <3>1, <3>2, Longer
  <2>7. ~ (n < Persistence) => Streak(Persistence, work[r].regime)
    BY <2>4, <2>5, RiskAssumption DEF Streak
  <2>8. RegimeOf(r)'
    <3>1. \/ work'[r].regime = work'[r].previous
          \/ \A k \in 1 .. Persistence : k \in DOMAIN recent' /\ recent'[k] = work'[r].regime
      <4>1. CASE n < Persistence BY <2>2, <4>1
      <4>2. CASE ~ (n < Persistence)
        <5>1. work'[r].regime = work[r].regime BY <2>2, <4>2
        <5>2. \A k \in 1 .. Persistence : k \in DOMAIN recent /\ recent[k] = work[r].regime
          BY <2>7, <4>2, RiskAssumption DEF Streak
        <5> QED BY <2>1, <5>1, <5>2
      <4> QED BY <4>1, <4>2
    <3>2. work'[r].previous \in Current' BY <2>2, <2>3, <2>5
    <3> QED BY <2>1, <3>1, <3>2 DEF RegimeOf, Streak
  <2>9. CandidateCounts'
    <3>1. candidate'.count = n /\ candidate'.regime = work[r].regime BY <2>1
    <3>2. Streak(candidate'.count, candidate'.regime) BY <2>5, <3>1
    <3>3. Streak(candidate.count, candidate.regime)' BY <2>1, <3>2 DEF Streak
    <3> QED BY <3>3 DEF CandidateCounts
  <2> QED BY <1>5, <2>8, <2>9 DEF Hysteresis
<1> QED BY <1>7, <1>8, <1>9, <1>10

\* What publishes and documents a build carries the detected regime along.
LEMMA CarriesRegime ==
    ASSUME TypeOK, NEW r \in Coordinators, r \notin Replays, PublishStep(r), ~ PersistRegimes(r)
    PROVE  /\ UNCHANGED <<candidate, recent, regimes>>
           /\ pc[r] \notin Detecting /\ pc'[r] \notin Detecting
           /\ pc'[r] \in Detected =>
                 /\ pc[r] \in Detected
                 /\ work'[r].previous = work[r].previous /\ work'[r].regime = work[r].regime
<1> DEFINE Kept == /\ work'[r].previous = work[r].previous
                   /\ work'[r].regime = work[r].regime
           Told == /\ UNCHANGED <<candidate, recent, regimes>>
                   /\ pc[r] \notin Detecting /\ pc'[r] \notin Detecting
                   /\ pc'[r] \in Detected => pc[r] \in Detected /\ Kept
<1>1. r \in Runners BY CoordinatorRuns
<1>2. \A next : Goto(r, next) => pc'[r] = next BY <1>1, Arrives
<1>3. work[r] \in Work /\ r \in DOMAIN work BY <1>1 DEF TypeOK
<1>4. ASSUME NEW f \in {"rev", "todo", "copy"}, NEW v, Set(r, f, v) PROVE Kept
  BY <1>3, <1>4 DEF Set, Work
<1>5. ASSUME UNCHANGED <<docVars, regimeVars>> PROVE UNCHANGED <<candidate, recent, regimes>>
  BY <1>5 DEF docVars, regimeVars
<1>6. CASE PublishPrivately(r)
  BY <1>2, <1>4, <1>5, <1>6 DEF PublishPrivately, Detecting, Detected
<1>7. CASE IncrRevision(r)
  <2>1. Kept
    <3>1. work' = [work EXCEPT ![r].rev = revision + 1, ![r].todo = work[r].shards]
      BY <1>7 DEF IncrRevision
    <3> QED BY <1>3, <3>1 DEF Work
  <2> QED BY <1>2, <1>5, <1>7, <2>1 DEF IncrRevision, Detecting, Detected
<1>8. ASSUME NEW s \in work[r].todo, StageShard(r, s) PROVE Told
  <2>1. Kept BY <1>4, <1>8 DEF StageShard
  <2>2. pc[r] = "stage" /\ pc'[r] \in {"stage", "bump"}
    BY <1>2, <1>8 DEF StageShard, NextShard
  <2> QED BY <1>5, <1>8, <2>1, <2>2 DEF StageShard, Detecting, Detected
<1>9. ASSUME NEW s \in work[r].todo, FetchShard(r, s) PROVE Told
  <2>1. Kept BY <1>4, <1>9 DEF FetchShard
  <2> QED BY <1>2, <1>5, <1>9, <2>1 DEF FetchShard, Detecting, Detected
<1>10. ASSUME NEW s \in work[r].todo, ActivateShard(r, s) PROVE Told
  <2>1. Kept BY <1>4, <1>10 DEF ActivateShard
  <2>2. pc[r] = "activate" /\ pc'[r] \in {"fetch", "manifest"}
    BY <1>2, <1>10 DEF ActivateShard, NextShard
  <2> QED BY <1>5, <1>10, <2>1, <2>2 DEF ActivateShard, Detecting, Detected
<1>11. ASSUME NEW s \in work[r].todo, UnstageShard(r, s) PROVE Told
  <2>1. Kept BY <1>4, <1>11 DEF UnstageShard
  <2>2. pc[r] = "unstage" /\ pc'[r] \in {"unstage", "rows"}
    BY <1>2, <1>11 DEF UnstageShard, NextShard
  <2> QED BY <1>5, <1>11, <2>1, <2>2 DEF UnstageShard, Detecting, Detected
<1>12. CASE WriteManifest(r)
  BY <1>2, <1>5, <1>12 DEF WriteManifest, Detecting, Detected
<1>13. CASE WriteSnapshot(r)
  BY <1>2, <1>5, <1>13 DEF WriteSnapshot, Detecting, Detected
<1>14. CASE PublishFeed(r)
  <2>1. Kept BY <1>4, <1>14 DEF PublishFeed
  <2> QED BY <1>2, <1>5, <1>14, <2>1 DEF PublishFeed, Detecting, Detected
<1>15. CASE WriteRows(r)
  BY <1>2, <1>15 DEF WriteRows, Detecting, Detected, regimeVars
<1>16. CASE RecordRevision(r)
  BY <1>2, <1>16 DEF RecordRevision, Detecting, Detected, regimeVars
<1>17. CASE Release(r)
  BY <1>2, <1>5, <1>17 DEF Release, Over, Detecting, Detected
<1> QED BY <1>6, <1>7, <1>8, <1>9, <1>10, <1>11, <1>12, <1>13, <1>14, <1>15, <1>16, <1>17
        DEF PublishStep

LEMMA HysteresisAlways == Spec => []RegimeInv
<1>1. Init => RegimeInv
  <2>1. \A r \in Coordinators : Init => pc[r] \notin Detecting \cup Detected
    BY CoordinatorRuns DEF Init, Detecting, Detected
  <2> QED BY <2>1, NotDetected DEF Init, RegimeInv, Hysteresis, CandidateCounts
<1>2. TInv /\ LInv /\ RegimeInv /\ [Next]_vars => RegimeInv'
  <2> SUFFICES ASSUME TypeOK, LInv, RegimeInv, [Next]_vars, Calm'
               PROVE  Hysteresis'
    BY DEF TInv, RegimeInv
  <2>1. Calm /\ Hysteresis BY CalmBefore DEF RegimeInv
  <2>2. ASSUME UNCHANGED <<candidate, recent, regimes, pc, work>> PROVE Hysteresis'
    <3>1. \A r \in Coordinators : RegimeOf(r)' BY <2>1, <2>2, RegimeRests DEF Hysteresis
    <3>2. CandidateCounts' BY <2>1, <2>2 DEF Hysteresis, CandidateCounts, Streak
    <3> QED BY <3>1, <3>2 DEF Hysteresis
  <2>3. CASE LockExpires \/ (\E q \in Readers : ReadStep(q)) \/ UNCHANGED vars
    <3>1. UNCHANGED <<candidate, recent, regimes, pc, work>>
      BY <2>3 DEF LockExpires, ReadStep, ReadSnapshot, ReadManifest, vars, docVars, regimeVars
    <3> QED BY <2>2, <3>1
  <2>4. ASSUME NEW r \in Runners, RunnerStep(r) PROVE Hysteresis'
    <3>1. r \in Coordinators /\ r \notin Replays /\ (BuildStep(r) \/ PublishStep(r))
      BY <2>4, CalmBefore
    <3>2. \A next : Goto(r, next) => pc'[r] = next BY <2>4, Arrives
    <3>3. \A q \in Coordinators \ {r} : pc'[q] = pc[q] /\ work'[q] = work[q]
      BY <2>4, CoordinatorRuns, OthersRest
    <3>4. ASSUME UNCHANGED <<candidate, recent, regimes>>,
                 pc[r] \notin Detecting, pc'[r] \notin Detecting, RegimeOf(r)'
          PROVE  Hysteresis'
      <4>1. \A q \in Coordinators \ {r} : RegimeOf(q)'
        BY <2>1, <3>3, <3>4, RegimeRests DEF Hysteresis
      <4>2. (\A q \in Coordinators : pc'[q] \notin Detecting)
               => \A q \in Coordinators : pc[q] \notin Detecting
        BY <3>3, <3>4
      <4>3. CandidateCounts' BY <2>1, <3>4, <4>2 DEF Hysteresis, CandidateCounts, Streak
      <4> QED BY <3>4, <4>1, <4>3 DEF Hysteresis
    <3>5. CASE Start(r) \/ Freeze(r) \/ \E ok \in BOOLEAN : ReadPrior(r, ok)
      <4>1. /\ pc[r] \in {"idle", "freeze", "prior"}
            /\ pc'[r] \in {"freeze", "prior", "regime", "release"}
            /\ UNCHANGED <<candidate, recent, regimes>>
        <5>1. CASE Start(r)
          BY <3>2, <5>1 DEF Start, docVars, regimeVars
        <5>2. CASE Freeze(r)
          BY <3>2, <5>2 DEF Freeze, regimeVars
        <5>3. ASSUME NEW ok \in BOOLEAN, ReadPrior(r, ok)
              PROVE  /\ pc[r] = "prior" /\ pc'[r] \in {"regime", "release"}
                     /\ UNCHANGED <<candidate, recent, regimes>>
          BY <3>2, <5>3 DEF ReadPrior, docVars, regimeVars
        <5> QED BY <3>5, <5>1, <5>2, <5>3
      <4>2. pc'[r] \notin Detecting \cup Detected BY <4>1 DEF Detecting, Detected
      <4>3. RegimeOf(r)' BY <4>2 DEF RegimeOf, Detecting, Detected
      <4>4. pc[r] \notin Detecting BY <4>1 DEF Detecting
      <4> QED BY <3>4, <4>1, <4>2, <4>3, <4>4
    <3>6. CASE \/ \E band \in Bands : DetectRegime(r, band)
               \/ ClearCandidate(r) \/ GetCandidate(r) \/ SetCandidate(r)
      BY <2>1, <3>1, <3>6, DetectionStep
    <3>7. CASE PersistRegimes(r)
      <4>1. /\ pc[r] = "persist" /\ pc'[r] = "record" /\ UNCHANGED <<candidate, recent>>
        BY <3>2, <3>7 DEF PersistRegimes, regimeVars
      <4>2. \A q \in Coordinators \ {r} :
               pc[q] \notin Detecting \cup Detected /\ RegimeOf(q)'
        BY <2>1, <2>4, <3>1, <4>1, Alone DEF Building, BuildPC
      <4>3. RegimeOf(r)' BY <4>1 DEF RegimeOf, Detecting, Detected
      <4>4. \A q \in Coordinators : pc[q] \notin Detecting BY <4>1, <4>2 DEF Detecting
      <4>5. CandidateCounts' BY <2>1, <4>1, <4>4 DEF Hysteresis, CandidateCounts, Streak
      <4> QED BY <4>2, <4>3, <4>5 DEF Hysteresis
    <3>8. CASE PublishStep(r) /\ ~ PersistRegimes(r)
      <4>1. /\ UNCHANGED <<candidate, recent, regimes>>
            /\ pc[r] \notin Detecting /\ pc'[r] \notin Detecting
            /\ pc'[r] \in Detected =>
                  /\ pc[r] \in Detected
                  /\ work'[r].previous = work[r].previous /\ work'[r].regime = work[r].regime
        BY <3>1, <3>8, CarriesRegime
      <4>2. RegimeOf(r) BY <2>1, <3>1 DEF Hysteresis
      <4>3. Current' = Current BY <4>1 DEF Current, Latest
      <4>4. ASSUME pc'[r] \in Detected PROVE RegimeOf(r)'
        <5>1. /\ work[r].previous \in Current
              /\ \/ work[r].regime = work[r].previous
                 \/ \A k \in 1 .. Persistence : k \in DOMAIN recent /\ recent[k] = work[r].regime
          BY <4>1, <4>2, <4>4, RiskAssumption DEF RegimeOf, Streak
        <5>2. /\ work'[r].previous \in Current'
              /\ \/ work'[r].regime = work'[r].previous
                 \/ \A k \in 1 .. Persistence : k \in DOMAIN recent' /\ recent'[k] = work'[r].regime
          BY <4>1, <4>3, <4>4, <5>1
        <5> QED BY <4>1, <5>2 DEF RegimeOf, Streak, Detecting
      <4>5. ASSUME pc'[r] \notin Detected PROVE RegimeOf(r)'
        BY <4>1, <4>5 DEF RegimeOf, Detecting, Detected
      <4> QED BY <3>4, <4>1, <4>4, <4>5
    <3> QED BY <3>1, <3>5, <3>6, <3>7, <3>8 DEF BuildStep, StartReplay
  <2> QED BY <2>3, <2>4 DEF Next, RunnerStep
<1> QED BY <1>1, <1>2, TInvAlways, LInvAlways, PTL DEF Spec

\* detectMarketRegime's hysteresis: in a run without faults and replays, a market
\* regime is only replaced by one that the latest regimePersistenceBuilds builds
\* all proposed.
THEOREM RegimesPersist == Spec => RegimeChangeWasProposed
<1> DEFINE A == \A d \in regimes' \ regimes :
                   /\ ~ disturbed /\ throws = 0 /\ crashes = 0
                   /\ \A r \in Replays : pc[r] = "idle"
                   /\ d.regime \notin Current
                   => \A k \in 1 .. Persistence : recent[k] = d.regime
<1>1. RegimeInv /\ [Next]_vars => [A]_regimes
  <2> SUFFICES ASSUME RegimeInv, [Next]_vars, NEW d \in regimes' \ regimes, Calm,
                      d.regime \notin Current
               PROVE  \A k \in 1 .. Persistence : recent[k] = d.regime
    BY DEF Calm
  <2>1. PICK r \in Runners : PersistRegimes(r)
    <3>1. ASSUME NEW r \in Runners, RunnerStep(r), ~ PersistRegimes(r) PROVE UNCHANGED regimes
      <4>1. CASE Start(r) \/ (\E ok \in BOOLEAN : ReadPrior(r, ok)) \/ GetCandidate(r)
                 \/ ClearCandidate(r) \/ SetCandidate(r) \/ CandidateThrows(r) \/ Throws(r) \/ Crash(r)
        BY <4>1 DEF Start, ReadPrior, GetCandidate, ClearCandidate, SetCandidate, CandidateThrows,
           Throws, Crash, docVars
      <4>2. ASSUME NEW band \in Bands, DetectRegime(r, band) PROVE UNCHANGED regimes
        BY <4>2 DEF DetectRegime, docVars
      <4>3. CASE Freeze(r) BY <4>3 DEF Freeze
      <4>4. CASE StartReplay(r) BY <4>4 DEF StartReplay, docVars
      <4>5. CASE PublishStep(r)
        BY <3>1, <4>5 DEF PublishStep, PublishPrivately, IncrRevision, StageShard, FetchShard,
           ActivateShard, UnstageShard, WriteManifest, WriteSnapshot, PublishFeed, WriteRows,
           RecordRevision, Release, docVars
      <4> QED BY <3>1, <4>1, <4>2, <4>3, <4>4, <4>5 DEF RunnerStep, BuildStep
    <3>2. LockExpires \/ (\E q \in Readers : ReadStep(q)) \/ UNCHANGED vars => UNCHANGED regimes
      BY DEF LockExpires, ReadStep, ReadSnapshot, ReadManifest, vars, docVars
    <3> QED BY <3>1, <3>2 DEF Next, RunnerStep
  <2>2. pc[r] = "persist" /\ d.regime = work[r].regime BY <2>1 DEF PersistRegimes
  <2>3. r \in Coordinators BY <2>2 DEF Calm, Runners
  <2>4. RegimeOf(r) BY <2>3 DEF RegimeInv, Hysteresis
  <2>5. work[r].previous \in Current BY <2>2, <2>4 DEF RegimeOf, Detected
  <2>6. Streak(Persistence, work[r].regime) BY <2>2, <2>4, <2>5 DEF RegimeOf, Detected
  <2> QED BY <2>2, <2>6, RiskAssumption DEF Streak
<1> QED BY <1>1, HysteresisAlways, PTL DEF Spec, RegimeChangeWasProposed
=============================================================================
