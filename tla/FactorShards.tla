---------------------------- MODULE FactorShards ----------------------------
(* The raw factors of one risk build (factorEngine.service): a large universe *)
(* is cut into shards that workers of a Redis stream compute from the market *)
(* rows they read themselves; the run waits for their results and merges     *)
(* them, or after ten minutes computes everything inline.  The results are   *)
(* kept under the build's id, which its replays share, and a replay needs no *)
(* lock.                                                                     *)
EXTENDS Budget, Integers, Sequences, FiniteSets, FiniteSetsExt, Functions, TLC

CONSTANTS Universes,  \* frozen universes that occur: sequences of symbols by rank
          ShardSize,  \* members per shard the shard count aims at (500)
          MaxShards,  \* 16
          ShardFrom,  \* factorShardThreshold
          FactorRuns, \* the build and replays of it
          FactorWorkers

VARIABLES universe,  \* the members, frozen at the cutoff
          updated,   \* members whose market row was written after the cutoff
          scoring,   \* run -> [pc, context, todo, raws, rival, timedOut, threw]
          jobs,      \* stream: shard -> entries no worker has read
          results,   \* hash of the build id: shard -> raws
          sharder,   \* worker -> [shard, raws]; shard = NoShard between entries
          factorRows \* RiskFactorRaw documents of the build: member -> raw

shardVars == <<universe, updated, scoring, jobs, results, sharder, factorRows>>

NoShard == -1
NoScoring == [pc |-> "idle", context |-> <<>>, todo |-> {}, raws |-> <<>>,
          rival |-> FALSE, timedOut |-> FALSE, threw |-> FALSE]
Computing(r) == scoring[r].pc \notin {"idle", "scored", "failed"}
-----------------------------------------------------------------------------
\* The members in order of rank, cut into equal slices; an empty one is left out.
CeilDiv(a, b) == (a + b - 1) \div b
ShardCount == Min({MaxShards, CeilDiv(Len(universe), ShardSize)})
PerShard == CeilDiv(Len(universe), ShardCount)
Slice(shard) == {universe[k] : k \in (shard * PerShard + 1)..Min({(shard + 1) * PerShard, Len(universe)})}
ShardIds == {shard \in 0..(ShardCount - 1) : Slice(shard) # {}}

\* A worker with as many members as ShardFrom would cut its slice again.
ASSUME ShardAssumption ==
  /\ {ShardSize, MaxShards, ShardFrom} \subseteq Nat \ {0}
  /\ \A u \in Universes : Len(u) > 0
       /\ CeilDiv(Len(u), Min({MaxShards, CeilDiv(Len(u), ShardSize)})) < ShardFrom

\* loadMarketRows leaves out a row written after the cutoff; the factors of a
\* member without one are proxies.
Raw(s) == IF s \in updated THEN "proxy" ELSE "row"
-----------------------------------------------------------------------------
\* runRiskBuild of the build or of a replay, up to buildFactorContext.
StartFactors(r) ==
  LET others == {q \in FactorRuns : Computing(q)}
  IN  /\ scoring[r].pc = "idle" /\ Spend(1)
      /\ scoring' = [q \in FactorRuns |->
           IF q = r THEN [NoScoring EXCEPT !.pc = "context", !.rival = (others # {})]
           ELSE IF q \in others THEN [scoring[q] EXCEPT !.rival = TRUE] ELSE scoring[q]]
      /\ UNCHANGED <<universe, updated, jobs, results, sharder, factorRows>>

ReadMarket(r) ==
  /\ scoring[r].pc = "context"
  /\ LET context == [s \in Range(universe) |-> Raw(s)]
     IN  scoring' = [scoring EXCEPT ![r].context = context,
                   ![r].raws = IF Len(universe) >= ShardFrom THEN <<>> ELSE context,
                   ![r].pc = IF Len(universe) >= ShardFrom THEN "clear" ELSE "persist"]
  /\ UNCHANGED <<stimuli, universe, updated, jobs, results, sharder, factorRows>>

ClearResults(r) ==
  /\ scoring[r].pc \in {"clear", "clean"} /\ results' = <<>>
  /\ scoring' = [scoring EXCEPT ![r].pc = IF @ = "clear" THEN "enqueue" ELSE "persist",
                        ![r].todo = ShardIds]
  /\ UNCHANGED <<stimuli, universe, updated, jobs, sharder, factorRows>>

EnqueueShard(r) ==
  /\ scoring[r].pc = "enqueue"
  /\ LET shard == Min(scoring[r].todo)
     IN  /\ jobs' = [jobs EXCEPT ![shard] = @ + 1]
         /\ scoring' = [scoring EXCEPT ![r].todo = @ \ {shard},
                               ![r].pc = IF scoring[r].todo = {shard} THEN "wait" ELSE @]
  /\ UNCHANGED <<stimuli, universe, updated, results, sharder, factorRows>>

\* waitForFactorShards counts the results; after ten minutes it gives up and
\* the run computes inline, from the context it read at the start.
ShardsReady(r) ==
  /\ scoring[r].pc = "wait" /\ Cardinality(DOMAIN results) >= Cardinality(ShardIds)
  /\ scoring' = [scoring EXCEPT ![r].pc = "merge", ![r].todo = ShardIds]
  /\ UNCHANGED <<stimuli, universe, updated, jobs, results, sharder, factorRows>>

ShardsTimeOut(r) ==
  /\ scoring[r].pc = "wait" /\ Spend(1)
  /\ scoring' = [scoring EXCEPT ![r].pc = "persist", ![r].raws = scoring[r].context, ![r].timedOut = TRUE]
  /\ UNCHANGED <<universe, updated, jobs, results, sharder, factorRows>>

\* One HGET after the other; a shard without a result is passed over.
MergeShard(r) ==
  /\ scoring[r].pc = "merge"
  /\ LET shard == Min(scoring[r].todo)
     IN  scoring' = [scoring EXCEPT
           ![r].raws = IF shard \in DOMAIN results THEN results[shard] @@ @ ELSE @,
           ![r].todo = @ \ {shard},
           ![r].pc = IF scoring[r].todo = {shard} THEN "clean" ELSE @]
  /\ UNCHANGED <<stimuli, universe, updated, jobs, results, sharder, factorRows>>

\* persistFactorRaws, then the scores: a member without factors ends the run.
PersistFactors(r) ==
  /\ scoring[r].pc = "persist" /\ factorRows' = scoring[r].raws @@ factorRows
  /\ scoring' = [scoring EXCEPT ![r].pc = IF DOMAIN scoring[r].raws = Range(universe) THEN "scored" ELSE "failed"]
  /\ UNCHANGED <<stimuli, universe, updated, jobs, results, sharder>>

RunThrows(r) ==
  /\ Computing(r) /\ Spend(1)
  /\ scoring' = [scoring EXCEPT ![r].pc = "failed", ![r].threw = TRUE]
  /\ UNCHANGED <<universe, updated, jobs, results, sharder, factorRows>>
-----------------------------------------------------------------------------
\* runRiskFactorWorker: XREADGROUP, processShard, XACK.
TakeShard(w) ==
  /\ sharder[w].shard = NoShard
  /\ \E shard \in DOMAIN jobs :
       /\ jobs[shard] > 0 /\ jobs' = [jobs EXCEPT ![shard] = @ - 1]
       /\ sharder' = [sharder EXCEPT ![w] = [shard |-> shard, raws |-> <<>>]]
  /\ UNCHANGED <<stimuli, universe, updated, scoring, results, factorRows>>

ComputeShard(w) ==
  /\ sharder[w].shard # NoShard /\ sharder[w].raws = <<>>
  /\ sharder' = [sharder EXCEPT ![w].raws = [s \in Slice(sharder[w].shard) |-> Raw(s)]]
  /\ UNCHANGED <<stimuli, universe, updated, scoring, jobs, results, factorRows>>

StoreShard(w) ==
  /\ sharder[w].raws # <<>>
  /\ results' = (sharder[w].shard :> sharder[w].raws) @@ results
  /\ sharder' = [sharder EXCEPT ![w] = [shard |-> NoShard, raws |-> <<>>]]
  /\ UNCHANGED <<stimuli, universe, updated, scoring, jobs, factorRows>>

\* A job that throws goes to the dead letters, one whose worker dies stays
\* pending: nobody reads either again.
LoseShard(w) ==
  /\ sharder[w].shard # NoShard /\ Spend(1)
  /\ sharder' = [sharder EXCEPT ![w] = [shard |-> NoShard, raws |-> <<>>]]
  /\ UNCHANGED <<universe, updated, scoring, jobs, results, factorRows>>

\* The market snapshot is refreshed while the build runs.
UpdateRow(s) ==
  /\ s \notin updated /\ Spend(1) /\ updated' = updated \union {s}
  /\ UNCHANGED <<universe, scoring, jobs, results, sharder, factorRows>>
-----------------------------------------------------------------------------
ShardsInit ==
  /\ universe \in Universes /\ updated = {} /\ scoring = [r \in FactorRuns |-> NoScoring]
  /\ jobs = [shard \in 0..(MaxShards - 1) |-> 0] /\ results = <<>> /\ factorRows = <<>>
  /\ sharder = [w \in FactorWorkers |-> [shard |-> NoShard, raws |-> <<>>]]

ShardsNext ==
  \/ \E r \in FactorRuns : \/ StartFactors(r) \/ ReadMarket(r) \/ ClearResults(r)
                           \/ EnqueueShard(r) \/ ShardsReady(r) \/ ShardsTimeOut(r)
                           \/ MergeShard(r) \/ PersistFactors(r) \/ RunThrows(r)
  \/ \E w \in FactorWorkers : TakeShard(w) \/ ComputeShard(w) \/ StoreShard(w) \/ LoseShard(w)
  \/ \E s \in Range(universe) : UpdateRow(s)
-----------------------------------------------------------------------------
\* Whatever workers fail, answer late or lose, a run fails for missing factors
\* only when another run of the same build emptied the results under it.  Every
\* member is in exactly one shard; and once all is quiet, results that nobody
\* will ever delete are those of a run that gave up or threw, or had such a
\* rival.
FactorsAreWhole ==
  /\ \A s \in Range(universe) : Cardinality({shard \in ShardIds : s \in Slice(shard)}) = 1
  /\ \A r \in FactorRuns : scoring[r].pc = "failed" => scoring[r].threw \/ scoring[r].rival
  /\ (\A r \in FactorRuns : ~Computing(r)) /\ (\A w \in FactorWorkers : sharder[w].shard = NoShard)
       /\ (\A shard \in DOMAIN jobs : jobs[shard] = 0) /\ results # <<>> =>
     \E r \in FactorRuns : scoring[r].timedOut \/ scoring[r].threw \/ scoring[r].rival

ShardsTypeOK ==
  /\ updated \subseteq Range(universe) /\ DOMAIN factorRows \subseteq Range(universe)
  /\ Range(factorRows) \subseteq {"row", "proxy"}
  /\ DOMAIN results \subseteq ShardIds
  /\ \A shard \in DOMAIN jobs : jobs[shard] \in 0..Cardinality(FactorRuns)
  /\ \A r \in FactorRuns : scoring[r].todo \subseteq ShardIds

=============================================================================
