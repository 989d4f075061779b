------------------------------ MODULE Sentiment ------------------------------
(* News from upstream to sentiment: an import stores the articles and queues *)
(* the new and the changed ones, workers score them from a Redis stream, and *)
(* an aggregation publishes every coin's sentiment under a lock.             *)
EXTENDS Budget, Sequences, FiniteSets, SequencesExt

CONSTANTS Stories,      \* article ids
          Texts,        \* title and subtitle; the content hash stands for them
          Mentions,     \* text -> the tracked coins it is about, see deriveNewsArticleCoins
          Scorers,      \* worker processes
          Runs,         \* aggregations that may overlap
          MaxRetries,   \* sentimentConfig.maxRetries
          Nil

ASSUME SentimentAssumption == MaxRetries \in Nat /\ DOMAIN Mentions = Texts

VARIABLES upstream,  \* story -> the text the provider lists, or Nil
          story,     \* story -> [text, status, hash, old] or Nil
          import,    \* storeNews under way: [pc, docs, hashes, jobs]
          stream,    \* sentiment:jobs, not delivered yet: [story, text, attempt]
          orphans,   \* delivered to a worker that died
          scorer,    \* worker -> [pc, job, text, owner]
          jobless,   \* Ghost: stories whose job was lost, or never made as
                     \* the text changed back
          crossed,   \* Ghost: stories two workers were at, or that were
                     \* rewritten between a worker's reading and claiming,
                     \* or rewritten back to the text analysed before
          lock,      \* sentiment:build:lock: is it there
          revision,  \* sentiment:revision
          run,       \* aggregation -> [pc, coins, left, revision]
          coinCache, \* coin -> the revision cached, 0 when none
          trending,  \* [revision, coins] of the snapshot cached
          unlocked   \* Ghost: the lock ran out under an aggregation

scoreVars == <<upstream, story, import, stream, orphans, scorer, jobless, crossed>>
sumVars == <<lock, revision, run, coinCache, trending, unlocked>>
sentimentVars == <<scoreVars, sumVars>>

Coins == UNION {Mentions[t] : t \in Texts}
NoJob == [story |-> Nil, text |-> Nil, attempt |-> 0]
Free == [pc |-> "idle", job |-> NoJob, text |-> Nil, owner |-> FALSE]
NoRun == [pc |-> "idle", coins |-> {}, left |-> {}, revision |-> 0]
NoImport == [pc |-> "idle", docs |-> <<>>, hashes |-> <<>>, jobs |-> <<>>]
KnownStory(s) == story[s] # Nil
-----------------------------------------------------------------------------
(* Import *)

Edit(s, t) ==
  /\ upstream[s] # t /\ UNCHANGED stimuli /\ upstream' = [upstream EXCEPT ![s] = t]
  /\ UNCHANGED <<story, import, stream, orphans, scorer, jobless, crossed, sumVars>>

\* storeNews takes the listed articles that are about a tracked coin.
Fetch ==
  /\ import.pc = "idle" /\ Spend(1)
  /\ import' = [NoImport EXCEPT !.pc = "find", !.docs =
       [s \in {x \in Stories : upstream[x] # Nil /\ Mentions[upstream[x]] # {}} |-> upstream[s]]]
  /\ UNCHANGED <<upstream, story, stream, orphans, scorer, jobless, crossed, sumVars>>

\* upsertMany: what is stored; then all the writes, which leave to the worker
\* what is the worker's, but for making a story pending when its text is not
\* the one analysed.
Find ==
  /\ import.pc = "find"
  /\ import' = [import EXCEPT !.pc = "write", !.hashes =
       [s \in DOMAIN import.docs |-> IF KnownStory(s) THEN story[s].hash ELSE Nil]]
  /\ UNCHANGED <<stimuli, upstream, story, stream, orphans, scorer, jobless, crossed, sumVars>>

Changed(s) == import.hashes[s] # import.docs[s]

Upserted(s) ==
  [text |-> import.docs[s], old |-> FALSE,
   status |-> IF Changed(s) \/ ~KnownStory(s) THEN "pending" ELSE story[s].status,
   hash |-> IF KnownStory(s) THEN story[s].hash ELSE Nil]

BulkWrite ==
  /\ import.pc = "write"
  /\ \/ /\ story' = [s \in Stories |-> IF s \in DOMAIN import.docs THEN Upserted(s) ELSE story[s]]
        /\ import' = [NoImport EXCEPT !.pc = "queue", !.jobs =
             SetToSeq({[story |-> s, text |-> import.docs[s], attempt |-> 0] :
                        s \in {x \in DOMAIN import.docs : Changed(x)}})]
        /\ jobless' = jobless \cup {s \in DOMAIN import.docs :
                                      ~Changed(s) /\ KnownStory(s) /\ story[s].status # "ready"}
        /\ crossed' = crossed \cup {scorer[w].job.story : w \in {v \in Scorers : scorer[v].pc = "claim"}}
                              \cup {s \in DOMAIN import.docs : /\ import.hashes[s] = import.docs[s]
                                                               /\ story[s].text # import.docs[s]}
        /\ UNCHANGED stimuli
     \/ Spend(1) /\ import' = NoImport /\ UNCHANGED <<story, jobless, crossed>>
  /\ UNCHANGED <<upstream, stream, orphans, scorer, sumVars>>

\* enqueueSentimentJobs; when the stream is too deep, Redis fails or the
\* process dies, the rest is not queued.
Queue ==
  /\ import.pc = "queue"
  /\ \/ /\ import.jobs # <<>> /\ stream' = Append(stream, Head(import.jobs))
        /\ import' = [import EXCEPT !.jobs = Tail(@)] /\ UNCHANGED <<stimuli, jobless>>
     \/ /\ (IF import.jobs # <<>> THEN Spend(1) ELSE UNCHANGED stimuli)
        /\ import' = NoImport /\ UNCHANGED stream
        /\ jobless' = jobless \cup {j.story : j \in ToSet(import.jobs)}
  /\ UNCHANGED <<upstream, story, orphans, scorer, crossed, sumVars>>
-----------------------------------------------------------------------------
(* Scoring *)

Busy(s) == {w \in Scorers : scorer[w].pc # "idle" /\ scorer[w].job.story = s}

Start(w, job) ==
  /\ scorer' = [scorer EXCEPT ![w] = [Free EXCEPT !.pc = "find", !.job = job, !.owner = TRUE]]
  /\ crossed' = crossed \cup {s \in {job.story} : Busy(s) # {}}

Deliver(w) ==
  /\ scorer[w].pc = "idle" /\ stream # <<>> /\ Start(w, Head(stream)) /\ stream' = Tail(stream)
  /\ UNCHANGED <<stimuli, upstream, story, import, orphans, jobless, sumVars>>

\* XAUTOCLAIM: of a dead worker's messages, or of one that has been at it for
\* two minutes.
ClaimOrphan(w, job) ==
  /\ scorer[w].pc = "idle" /\ job \in orphans /\ Start(w, job) /\ orphans' = orphans \ {job}
  /\ UNCHANGED <<stimuli, upstream, story, import, stream, jobless, sumVars>>

ClaimSlow(w, v) ==
  /\ scorer[w].pc = "idle" /\ scorer[v].pc # "idle" /\ scorer[v].owner /\ Spend(1)
  /\ scorer' = [scorer EXCEPT ![v].owner = FALSE,
                  ![w] = [Free EXCEPT !.pc = "find", !.job = scorer[v].job, !.owner = TRUE]]
  /\ crossed' = crossed \cup {scorer[v].job.story}
  /\ UNCHANGED <<upstream, story, import, stream, orphans, jobless, sumVars>>

\* enrichArticleByExternalId: read, claim, score what was read, write if the
\* story is still claimed - by whichever worker.
Ack(w) == scorer' = [scorer EXCEPT ![w] = Free]

Look(w) ==
  LET k == scorer[w]
      s == k.job.story
  IN  /\ k.pc = "find"
      /\ IF story[s].text # k.job.text \/ (story[s].status = "ready" /\ story[s].hash = story[s].text)
         THEN Ack(w)
         ELSE scorer' = [scorer EXCEPT ![w] = [k EXCEPT !.pc = "claim", !.text = story[s].text]]
      /\ UNCHANGED <<stimuli, upstream, story, import, stream, orphans, jobless, crossed, sumVars>>

Claimable(s) == story[s].status \in {"pending", "failed"} \/ (story[s].status = "processing" /\ story[s].old)

Claim(w) ==
  LET s == scorer[w].job.story
  IN  /\ scorer[w].pc = "claim"
      /\ IF Claimable(s)
         THEN /\ story' = [story EXCEPT ![s] = [@ EXCEPT !.status = "processing", !.old = FALSE]]
              /\ scorer' = [scorer EXCEPT ![w].pc = "score"] /\ UNCHANGED jobless
         ELSE Ack(w) /\ UNCHANGED story
              /\ jobless' = jobless \cup (IF story[s].status = "processing" THEN {s} ELSE {})
      /\ UNCHANGED <<stimuli, upstream, import, stream, orphans, crossed, sumVars>>

Score(w) ==
  LET k == scorer[w]
      s == k.job.story
  IN  /\ k.pc = "score"
      /\ \/ /\ story' = IF story[s].status # "processing" THEN story
                        ELSE [story EXCEPT ![s] = [@ EXCEPT !.status = "ready", !.hash = k.text]]
            /\ jobless' = jobless \cup {x \in {s} : story[s].status # "processing" /\ story[s].text = k.text}
            /\ Ack(w) /\ UNCHANGED stimuli
         \/ /\ Spend(1) /\ scorer' = [scorer EXCEPT ![w].pc = "retry"]
            /\ story' = IF story[s].status # "processing" THEN story
                        ELSE [story EXCEPT ![s].status = "failed"]
            /\ UNCHANGED jobless
      /\ UNCHANGED <<upstream, import, stream, orphans, crossed, sumVars>>

\* requeueWithRetry: again, or to the dead letters.
Retry(w) ==
  LET job == scorer[w].job
  IN  /\ scorer[w].pc = "retry" /\ Ack(w)
      /\ IF job.attempt + 1 >= MaxRetries
         THEN jobless' = jobless \cup {job.story} /\ UNCHANGED stream
         ELSE stream' = Append(stream, [job EXCEPT !.attempt = @ + 1]) /\ UNCHANGED jobless
      /\ UNCHANGED <<stimuli, upstream, story, import, orphans, crossed, sumVars>>

Die(w) ==
  /\ scorer[w].pc # "idle" /\ Spend(1) /\ Ack(w)
  /\ orphans' = IF scorer[w].owner THEN orphans \cup {scorer[w].job} ELSE orphans
  /\ UNCHANGED <<upstream, story, import, stream, jobless, crossed, sumVars>>

\* Five minutes pass; recoverStaleProcessingArticles.
Age(s) ==
  /\ KnownStory(s) /\ story[s].status = "processing" /\ ~story[s].old /\ Spend(1)
  /\ story' = [story EXCEPT ![s].old = TRUE]
  /\ UNCHANGED <<upstream, import, stream, orphans, scorer, jobless, crossed, sumVars>>

Recover ==
  LET stuck == {s \in Stories : KnownStory(s) /\ story[s].status = "processing" /\ story[s].old}
  IN  /\ stuck # {}
      /\ story' = [s \in Stories |-> IF s \in stuck
                     THEN [story[s] EXCEPT !.status = "pending", !.old = FALSE] ELSE story[s]]
      /\ UNCHANGED <<stimuli, upstream, import, stream, orphans, scorer, jobless, crossed, sumVars>>
-----------------------------------------------------------------------------
(* runCoinSentimentAggregation *)

\* Slip: SET EX without NX.
AcquireBeside(r) ==
  /\ run[r].pc = "idle" /\ Spend(1) /\ lock' = TRUE /\ run' = [run EXCEPT ![r].pc = "read"]
  /\ UNCHANGED <<scoreVars, revision, coinCache, trending, unlocked>>

Acquire(r) ==
  /\ run[r].pc = "idle" /\ Spend(1) /\ ~lock /\ lock' = TRUE
  /\ run' = [run EXCEPT ![r].pc = "read"]
  /\ UNCHANGED <<scoreVars, revision, coinCache, trending, unlocked>>

\* The coins that ready stories of the window are about, whichever they are.
ReadScores(r, coins) ==
  /\ run[r].pc = "read"
  /\ run' = [run EXCEPT ![r] = [@ EXCEPT !.pc = "number", !.coins = coins]]
  /\ UNCHANGED <<stimuli, scoreVars, lock, revision, coinCache, trending, unlocked>>

Number(r) ==
  /\ run[r].pc = "number" /\ revision' = revision + 1
  /\ run' = [run EXCEPT ![r] = [@ EXCEPT !.pc = "cache", !.revision = revision + 1, !.left = run[r].coins]]
  /\ UNCHANGED <<stimuli, scoreVars, lock, coinCache, trending, unlocked>>

\* One coin's cache, then the next; the snapshot after the last.
CacheCoin(r, c) ==
  /\ run[r].pc = "cache" /\ c \in run[r].left
  /\ run' = [run EXCEPT ![r].left = @ \ {c}] /\ coinCache' = [coinCache EXCEPT ![c] = run[r].revision]
  /\ UNCHANGED <<stimuli, scoreVars, lock, revision, trending, unlocked>>

CacheTrending(r) ==
  /\ run[r].pc = "cache" /\ run[r].left = {} /\ run' = [run EXCEPT ![r].pc = "release"]
  /\ trending' = [revision |-> run[r].revision, coins |-> run[r].coins]
  /\ UNCHANGED <<stimuli, scoreVars, lock, revision, coinCache, unlocked>>

Release(r) ==
  /\ run[r].pc = "release" /\ run' = [run EXCEPT ![r] = NoRun] /\ lock' = FALSE
  /\ UNCHANGED <<stimuli, scoreVars, revision, coinCache, trending, unlocked>>

\* A database error ends it, still releasing the lock; five minutes end the lock.
Abort(r) ==
  /\ run[r].pc \in {"read", "number", "cache"} /\ Spend(1) /\ run' = [run EXCEPT ![r].pc = "release"]
  /\ UNCHANGED <<scoreVars, lock, revision, coinCache, trending, unlocked>>

LockExpires ==
  /\ lock /\ Spend(1) /\ lock' = FALSE /\ unlocked' = TRUE
  /\ UNCHANGED <<scoreVars, revision, run, coinCache, trending>>
-----------------------------------------------------------------------------
SentimentInit ==
  /\ upstream = [s \in Stories |-> Nil] /\ story = [s \in Stories |-> Nil]
  /\ import = NoImport /\ stream = <<>> /\ orphans = {} /\ scorer = [w \in Scorers |-> Free]
  /\ jobless = {} /\ crossed = {}
  /\ lock = FALSE /\ revision = 0 /\ run = [r \in Runs |-> NoRun]
  /\ coinCache = [c \in Coins |-> 0] /\ trending = [revision |-> 0, coins |-> {}] /\ unlocked = FALSE

ScoreNext ==
  \/ \E s \in Stories : Age(s) \/ \E t \in Texts : Edit(s, t)
  \/ Fetch \/ Find \/ BulkWrite \/ Queue \/ Recover
  \/ \E w \in Scorers : \/ Deliver(w) \/ Look(w) \/ Claim(w) \/ Score(w) \/ Retry(w) \/ Die(w)
                        \/ \E job \in orphans : ClaimOrphan(w, job)
                        \/ \E v \in Scorers \ {w} : ClaimSlow(w, v)

SumNext ==
  \/ \E r \in Runs : \/ Acquire(r) \/ Number(r) \/ CacheTrending(r) \/ Release(r) \/ Abort(r)
                    \/ \E coins \in SUBSET Coins : ReadScores(r, coins)
                    \/ \E c \in Coins : CacheCoin(r, c)
  \/ LockExpires
-----------------------------------------------------------------------------
\* A ready story's sentiment is that of its text, unless two workers were at it
\* at a time or an import rewrote it between reading and claiming; and a story
\* whose text was analysed but which is not ready has a job on its way (one
\* whose text was not analysed is queued by every import that lists it), unless
\* the job was lost.  Neither holds of a text that was changed and changed back
\* before the change was analysed.
SentimentCatchesUp == \A s \in Stories : KnownStory(s) =>
  /\ (story[s].status = "ready" /\ s \notin crossed) => story[s].hash = story[s].text
  /\ (story[s].status # "ready" /\ story[s].hash = story[s].text /\ s \notin jobless) =>
       \E job \in ToSet(stream) \cup ToSet(import.jobs) \cup orphans \cup {scorer[w].job : w \in Scorers} :
         job.story = s /\ job.text = story[s].text

\* While no aggregation outlived its lock: one runs at a time, and the coins of
\* the trending snapshot are cached with its revision or a later one.
RevisionsAgree == ~unlocked =>
  /\ \A r, q \in Runs : run[r].pc # "idle" /\ run[q].pc # "idle" => r = q
  /\ \A c \in trending.coins : coinCache[c] >= trending.revision

SentimentTypeOK ==
  /\ \A s \in Stories : KnownStory(s) => story[s].status \in {"pending", "processing", "ready", "failed"}
  /\ \A j \in ToSet(stream) : j.attempt < MaxRetries /\ KnownStory(j.story)
  /\ \A w \in Scorers : scorer[w].pc \in {"idle", "find", "claim", "score", "retry"}
  /\ \A c \in Coins : coinCache[c] <= revision
=============================================================================
