---------------------------- MODULE PiRecompute ----------------------------
(***************************************************************************)
(* Portfolio analytics of one user (src/src/modules/portfolio-intelligence):*)
(* recomputeEnqueue puts jobs on a Redis stream, workers of a consumer     *)
(* group take them in batches under a per-user lock, processJob normalises *)
(* the holdings and piPublish publishes the result in steps.  ensureSummary *)
(* runs the same processJob from an API request, without lock or job.      *)
(*                                                                         *)
(* One action is one awaited call that other processes can see.  The two   *)
(* streams (high priority and normal) are one; users share nothing else.   *)
(***************************************************************************)
EXTENDS Integers, Sequences, FiniteSets, FiniteSetsExt

CONSTANTS
    Workers,       \* runPiRecomputeWorker loops, one per server process
    Summaries,     \* API requests that fall into ensureSummary's sync compute
    Nobody,        \* lock key absent; no entry in hand
    Nothing,       \* key or rows absent
    MaxRetries,    \* piConfig.maxRetries
    Batch,         \* COUNT of XREADGROUP
    MaxChanges,    \* bound: changes of the user's holdings
    Slots,         \* bound: entries in the stream at a time
    MaxRuns,       \* bound: computations
    MaxThrows,     \* bound: computations that fail
    MaxCrashes,    \* bound: processes that die
    MaxStops,      \* bound: worker loops that end with an error
    MaxEvents,     \* bound: changes, faults and (each as two) summaries together
    LockMayLapse   \* may lockTtlMs end while the worker still computes?

ASSUME PiAssumption ==
    /\ MaxRetries \in Nat \ {0} /\ Batch \in Nat \ {0}
    /\ MaxChanges \in Nat /\ Slots \in Nat \ {0}
    /\ MaxRuns \in Nat
    /\ MaxThrows \in Nat /\ MaxCrashes \in Nat /\ MaxStops \in Nat
    /\ MaxEvents \in Nat
    /\ LockMayLapse \in BOOLEAN
    /\ Workers \cap Summaries = {}
    /\ Nobody \notin Workers

Runners == Workers \cup Summaries
Ids == 1 .. Slots
Changes == 1 .. MaxChanges

ComputePC == {"read", "ingest", "clear", "insert", "stage", "bump", "fetch",
              "activate", "manifest", "unstage", "seq", "publish", "save"}
LockedPC == ComputePC \cup {"ack", "failAck", "bury", "retry", "release"}
WorkerPC == {"down", "stopped", "poll", "claimAck", "next", "busy"} \cup LockedPC
SummaryPC == {"idle", "done"} \cup ComputePC

VARIABLES
    holdings,   \* version of the user's merged holdings
    request,    \* per change: where its enqueue call stands
    debounce,   \* is the debounce key set?
    queue,      \* entries no consumer has read, oldest first
    owner,      \* per entry: the consumer it is pending for, or Nobody
    job,        \* per entry: the payload [change, attempt]
    dead,       \* changes whose job is on the dead letter stream
    lock,       \* the user's lock key: Nobody or the CONSUMER that set it
    ingest,     \* ingest_revision counter
    revision,   \* analytics revision counter
    wsSeq,      \* ws_seq counter
    rows,       \* PortfolioPosition rows: [data, ingest] or Nothing
    staging,    \* analytics staging key
    active,     \* analytics key
    manifest,   \* manifest key: [data, ingest, rev]
    delivered,  \* the last analytics_revision message the clients got: [seq, rev]
    pc, batch, cur, held, work,   \* per runner: local state of its loop
    skipped,    \* history: changes a worker acked because analytics was off
    dropped,    \* history: changes lost between XACK and the next XADD
    lapsed,     \* history: workers whose lock ended under them
    analysed,   \* history: newest holdings version a manifest ever described
    throws, crashes, stops

queueVars == <<queue, owner, job, dead>>
askVars == <<holdings, request, debounce>>
publicVars == <<revision, wsSeq, staging, active, manifest, delivered>>
inputVars == <<ingest, rows>>
loopVars == <<batch, cur, held>>
history == <<skipped, dropped, lapsed, analysed, throws, crashes, stops>>
vars == <<askVars, queueVars, lock, publicVars, inputVars, pc, loopVars, work, history>>

Events == holdings + throws + crashes + stops
              + 2 * Cardinality({a \in Summaries : pc[a] # "idle"})

NoWork == [data |-> 0, ingest |-> 0, rev |-> 0, seq |-> 0, copy |-> Nothing]
NoJob == [change |-> 0, attempt |-> 0]

Init ==
    /\ holdings = 0 /\ request = [v \in Changes |-> "idle"]
    /\ debounce = FALSE
    /\ queue = <<>> /\ owner = [i \in Ids |-> Nobody]
    /\ job = [i \in Ids |-> NoJob] /\ dead = {}
    /\ lock = Nobody
    /\ ingest = 0 /\ revision = 0 /\ wsSeq = 0
    /\ rows = Nothing /\ staging = Nothing /\ active = Nothing /\ manifest = Nothing
    /\ delivered = [seq |-> 0, rev |-> 0]
    /\ pc = [r \in Runners |-> IF r \in Workers THEN "down" ELSE "idle"]
    /\ batch = [w \in Workers |-> <<>>] /\ cur = [w \in Workers |-> 0]
    /\ held = [w \in Workers |-> NoJob]
    /\ work = [r \in Runners |-> NoWork]
    /\ skipped = {} /\ dropped = {} /\ lapsed = {} /\ analysed = 0
    /\ throws = 0 /\ crashes = 0 /\ stops = 0

Goto(r, next) == pc' = [pc EXCEPT ![r] = next]

\* Entry ids are reused once nothing refers to them any more.
Unused == {i \in Ids : /\ i \notin Range(queue) /\ owner[i] = Nobody
                       /\ \A w \in Workers : /\ cur[w] # i
                                              /\ \A e \in Range(batch[w]) : e.id # i}

\* XADD (MAXLEN 100000 is never reached).
Xadd(j) ==
    /\ Unused # {}
    /\ LET id == CHOOSE i \in Unused : TRUE
       IN  /\ queue' = Append(queue, id)
           /\ job' = [job EXCEPT ![id] = j]

\* XACK: the entry is pending for nobody any more.
Xack(i) == /\ owner' = [owner EXCEPT ![i] = Nobody]
           /\ job' = [job EXCEPT ![i] = NoJob]

---------------------------------------------------------------------------
(* The user and recomputeEnqueueService.enqueue.                            *)

Change ==
    /\ holdings < MaxChanges /\ Events < MaxEvents
    /\ holdings' = holdings + 1
    /\ request' = [request EXCEPT ![holdings + 1] = "asked"]
    /\ UNCHANGED <<debounce, queueVars, lock, publicVars, inputVars,
                   pc, loopVars, work, history>>

\* The switches, the user's setting and the back-pressure key are read outside
\* this model: on says whether they allow an enqueue.
Admit(v, on, bypassDebounce) ==
    /\ request[v] = "asked"
    /\ LET refused == ~ on \/ (~ bypassDebounce /\ debounce)
       IN  request' = [request EXCEPT ![v] = IF refused THEN "refused" ELSE "admitted"]
    /\ debounce' = (debounce \/ (on /\ ~ bypassDebounce))
    /\ UNCHANGED <<holdings, queueVars, lock, publicVars, inputVars,
                   pc, loopVars, work, history>>

Enqueue(v) ==
    /\ request[v] = "admitted"
    /\ Xadd([change |-> v, attempt |-> 0])
    /\ request' = [request EXCEPT ![v] = "accepted"]
    /\ UNCHANGED <<holdings, debounce, owner, dead, lock, publicVars, inputVars,
                   pc, loopVars, work, history>>

\* A TTL that has ended is noticed by the call that looks at the key next, so
\* it ends just before one.
DebounceEnds ==
    /\ debounce /\ \E v \in Changes : request[v] = "asked"
    /\ debounce' = FALSE
    /\ UNCHANGED <<holdings, request, queueVars, lock, publicVars, inputVars,
                   pc, loopVars, work, history>>

---------------------------------------------------------------------------
(* runPiRecomputeWorker.                                                    *)

Boot(w) ==
    /\ pc[w] \in {"down", "stopped"}
    /\ Goto(w, "poll")
    /\ UNCHANGED <<askVars, queueVars, lock, publicVars, inputVars, loopVars, work, history>>

\* Slip: a claimed entry is only acknowledged, nothing adds it again.
ClaimDiscards(w, i) ==
    /\ pc[w] = "poll" /\ owner[i] # Nobody
    /\ owner' = [owner EXCEPT ![i] = w]
    /\ cur' = [cur EXCEPT ![w] = i]
    /\ Goto(w, "claimAck")
    /\ UNCHANGED <<askVars, queue, job, dead, lock, publicVars, inputVars, batch, held, work,
                   history>>

\* XAUTOCLAIM takes over an idle pending entry, its payload is added again ...
Claim(w, i) ==
    /\ pc[w] = "poll" /\ owner[i] # Nobody
    /\ Xadd(job[i])
    /\ owner' = [owner EXCEPT ![i] = w]
    /\ cur' = [cur EXCEPT ![w] = i]
    /\ Goto(w, "claimAck")
    /\ UNCHANGED <<askVars, dead, lock, publicVars, inputVars, batch, held, work, history>>

\* ... and the claimed entry is acknowledged.
ClaimAck(w) ==
    /\ pc[w] = "claimAck"
    /\ Xack(cur[w])
    /\ cur' = [cur EXCEPT ![w] = 0]
    /\ Goto(w, "poll")
    /\ UNCHANGED <<askVars, queue, dead, lock, publicVars, inputVars,
                   batch, held, work, history>>

\* The acknowledgement throws: runPiAutoclaimPass catches it.
ClaimThrows(w) ==
    /\ pc[w] = "claimAck"
    /\ Events < MaxEvents /\ throws < MaxThrows /\ throws' = throws + 1
    /\ cur' = [cur EXCEPT ![w] = 0]
    /\ Goto(w, "poll")
    /\ UNCHANGED <<askVars, queueVars, lock, publicVars, inputVars, batch, held, work,
                   skipped, dropped, lapsed, analysed, crashes, stops>>

\* XREADGROUP: the oldest unread entries become pending for w.
Read(w) ==
    /\ pc[w] = "poll" /\ queue # <<>>
    /\ LET n == Min({Len(queue), Batch})
           taken == SubSeq(queue, 1, n)
       IN  /\ owner' = [i \in Ids |-> IF i \in Range(taken) THEN w ELSE owner[i]]
           /\ batch' = [batch EXCEPT ![w] = [k \in 1 .. n |-> [id |-> taken[k], job |-> job[taken[k]]]]]
           /\ queue' = SubSeq(queue, n + 1, Len(queue))
    /\ Goto(w, "next")
    /\ UNCHANGED <<askVars, job, dead, lock, publicVars, inputVars,
                   cur, held, work, history>>

BatchDone(w) ==
    /\ pc[w] = "next" /\ batch[w] = <<>>
    /\ Goto(w, "poll")
    /\ UNCHANGED <<askVars, queueVars, lock, publicVars, inputVars, loopVars, work, history>>

\* The worker turns to e, the next entry of its batch as it was read.
Turn(w, e) ==
    /\ pc[w] = "next" /\ batch[w] # <<>> /\ e = Head(batch[w])
    /\ batch' = [batch EXCEPT ![w] = Tail(@)]

\* It parses the payload.
Take(w, e) ==
    /\ Turn(w, e)
    /\ held' = [held EXCEPT ![w] = e.job]

\* It is done with the entry.
Forget(w) ==
    /\ cur' = [cur EXCEPT ![w] = 0]
    /\ held' = [held EXCEPT ![w] = NoJob]
    /\ work' = [work EXCEPT ![w] = NoWork]

\* Analytics turned off since (globally or by the user): acknowledge and forget.
Skip(w, e) ==
    /\ Turn(w, e)
    /\ Xack(e.id)
    /\ skipped' = skipped \cup {e.job.change}
    /\ UNCHANGED <<askVars, queue, dead, lock, publicVars, inputVars, pc, cur, held, work,
                   dropped, lapsed, analysed, throws, crashes, stops>>

\* Slip: SET PX without NX.
AcquireAlways(w, e) ==
    /\ Take(w, e)
    /\ lock' = w
    /\ cur' = [cur EXCEPT ![w] = e.id]
    /\ Goto(w, "read")
    /\ UNCHANGED <<askVars, queueVars, publicVars, inputVars, work, history>>

\* SET NX PX of the user's lock succeeds.
Acquire(w, e) ==
    /\ Take(w, e)
    /\ lock = Nobody /\ lock' = w
    /\ cur' = [cur EXCEPT ![w] = e.id]
    /\ Goto(w, "read")
    /\ UNCHANGED <<askVars, queueVars, publicVars, inputVars, work, history>>

\* The lock is taken: acknowledge first, then add the job again.
Busy(w, e) ==
    /\ Take(w, e)
    /\ lock # Nobody
    /\ Xack(e.id)
    /\ Goto(w, "busy")
    /\ UNCHANGED <<askVars, queue, dead, lock, publicVars, inputVars, cur, work, history>>

\* Attempts beyond MaxRetries behave alike and are not told apart.
NextAttempt(j) == IF j.attempt < MaxRetries THEN [j EXCEPT !.attempt = @ + 1] ELSE j

\* Slip: the contention branch moved inside the try, whose finally deletes the lock.
RequeueUnlocks(w) ==
    /\ pc[w] = "busy"
    /\ Xadd(NextAttempt(held[w]))
    /\ lock' = Nobody
    /\ Goto(w, "next") /\ Forget(w)
    /\ UNCHANGED <<askVars, owner, dead, publicVars, inputVars, batch, history>>

\* requeueWithBackoff after contention (no limit on the attempt).
RequeueBusy(w) ==
    /\ pc[w] = "busy"
    /\ Xadd(NextAttempt(held[w]))
    /\ Goto(w, "next") /\ Forget(w)
    /\ UNCHANGED <<askVars, owner, dead, lock, publicVars, inputVars, batch, history>>

Ack(w) ==
    /\ pc[w] = "ack"
    /\ Xack(cur[w])
    /\ cur' = [cur EXCEPT ![w] = 0]
    /\ Goto(w, "release")
    /\ UNCHANGED <<askVars, queue, dead, lock, publicVars, inputVars,
                   batch, held, work, history>>

\* Slip: one retry more than maxRetries allows.
FailAckLate(w) ==
    /\ pc[w] = "failAck"
    /\ Xack(cur[w])
    /\ cur' = [cur EXCEPT ![w] = 0]
    /\ Goto(w, IF held[w].attempt >= MaxRetries THEN "bury" ELSE "retry")
    /\ UNCHANGED <<askVars, queue, dead, lock, publicVars, inputVars,
                   batch, held, work, history>>

\* processJob threw: acknowledge, then dead-letter or add again.
FailAck(w) ==
    /\ pc[w] = "failAck"
    /\ Xack(cur[w])
    /\ cur' = [cur EXCEPT ![w] = 0]
    /\ Goto(w, IF held[w].attempt + 1 >= MaxRetries THEN "bury" ELSE "retry")
    /\ UNCHANGED <<askVars, queue, dead, lock, publicVars, inputVars,
                   batch, held, work, history>>

Bury(w) ==
    /\ pc[w] = "bury"
    /\ dead' = dead \cup {held[w].change}
    /\ Goto(w, "release")
    /\ UNCHANGED <<askVars, queue, owner, job, lock, publicVars, inputVars,
                   loopVars, work, history>>

Retry(w) ==
    /\ pc[w] = "retry"
    /\ Xadd(NextAttempt(held[w]))
    /\ Goto(w, "release")
    /\ UNCHANGED <<askVars, owner, dead, lock, publicVars, inputVars, loopVars, work, history>>

\* releaseUserLock: DEL, whoever set the key.
Unlock(w) ==
    /\ lock' = Nobody
    /\ lapsed' = (IF lock = Nobody THEN lapsed ELSE lapsed \cup {lock}) \ {w}

Release(w) ==
    /\ pc[w] = "release"
    /\ Unlock(w)
    /\ Goto(w, "next") /\ Forget(w)
    /\ UNCHANGED <<askVars, queueVars, publicVars, inputVars, batch,
                   skipped, dropped, analysed, throws, crashes, stops>>

---------------------------------------------------------------------------
(* processJob, normalizeForUser and publishUserAnalytics, by any runner.    *)

\* ensureSummary with no summary yet and its sync key won.
Summarise(a) ==
    /\ pc[a] = "idle"
    /\ active = Nothing /\ Events + 1 < MaxEvents
    /\ Goto(a, "read")
    /\ UNCHANGED <<askVars, queueVars, lock, publicVars, inputVars, loopVars, work, history>>

ReadHoldings(r) ==
    /\ pc[r] = "read"
    /\ work' = [work EXCEPT ![r].data = holdings]
    /\ Goto(r, "ingest")
    /\ UNCHANGED <<askVars, queueVars, lock, publicVars, inputVars, loopVars, history>>

IncrIngest(r) ==
    /\ pc[r] = "ingest" /\ ingest < MaxRuns
    /\ ingest' = ingest + 1
    /\ work' = [work EXCEPT ![r].ingest = ingest + 1]
    /\ Goto(r, "clear")
    /\ UNCHANGED <<askVars, queueVars, lock, publicVars, rows, loopVars, history>>

DeleteRows(r) ==
    /\ pc[r] = "clear"
    /\ rows' = Nothing
    /\ Goto(r, "insert")
    /\ UNCHANGED <<askVars, queueVars, lock, publicVars, ingest, loopVars, work, history>>

Result(r) == [data |-> work[r].data, ingest |-> work[r].ingest]

\* insertMany under the unique (userId, positionKey).  The fingerprint that
\* follows contains the fresh ingest revision, so no manifest ever matches.
InsertRows(r) ==
    /\ pc[r] = "insert" /\ rows = Nothing
    /\ rows' = Result(r)
    /\ Goto(r, "stage")
    /\ UNCHANGED <<askVars, queueVars, lock, publicVars, ingest, loopVars, work, history>>

\* Slip: SET NX, so what a dead worker staged survives.
StageOnce(r) ==
    /\ pc[r] = "stage"
    /\ staging' = IF staging = Nothing THEN Result(r) ELSE staging
    /\ Goto(r, "bump")
    /\ UNCHANGED <<askVars, queueVars, lock, revision, wsSeq, active, manifest, delivered,
                   inputVars, loopVars, work, history>>

Stage(r) ==
    /\ pc[r] = "stage"
    /\ staging' = Result(r)
    /\ Goto(r, "bump")
    /\ UNCHANGED <<askVars, queueVars, lock, revision, wsSeq, active, manifest, delivered,
                   inputVars, loopVars, work, history>>

IncrRevision(r) ==
    /\ pc[r] = "bump"
    /\ revision' = revision + 1
    /\ work' = [work EXCEPT ![r].rev = revision + 1]
    /\ Goto(r, "fetch")
    /\ UNCHANGED <<askVars, queueVars, lock, wsSeq, staging, active, manifest, delivered,
                   inputVars, loopVars, history>>

\* GET staging; if it is gone the payload in memory is used.
FetchStaging(r) ==
    /\ pc[r] = "fetch"
    /\ work' = [work EXCEPT ![r].copy = IF staging = Nothing THEN Result(r) ELSE staging]
    /\ Goto(r, "activate")
    /\ UNCHANGED <<askVars, queueVars, lock, publicVars, inputVars, loopVars, history>>

Activate(r) ==
    /\ pc[r] = "activate"
    /\ active' = work[r].copy
    /\ Goto(r, "manifest")
    /\ UNCHANGED <<askVars, queueVars, lock, revision, wsSeq, staging, manifest, delivered,
                   inputVars, loopVars, work, history>>

WriteManifest(r) ==
    /\ pc[r] = "manifest"
    /\ manifest' = [data |-> work[r].data, ingest |-> work[r].ingest, rev |-> work[r].rev]
    /\ analysed' = IF work[r].data > analysed THEN work[r].data ELSE analysed
    /\ Goto(r, "unstage")
    /\ UNCHANGED <<askVars, queueVars, lock, revision, wsSeq, staging, active, delivered,
                   inputVars, loopVars, work, skipped, dropped, lapsed, throws, crashes, stops>>

\* Slip: the clean-up deletes the ws_seq key as well.
UnstageAll(r) ==
    /\ pc[r] = "unstage"
    /\ staging' = Nothing /\ wsSeq' = 0
    /\ Goto(r, "seq") \/ Goto(r, "save")
    /\ UNCHANGED <<askVars, queueVars, lock, revision, active, manifest, delivered,
                   inputVars, loopVars, work, history>>

\* DEL staging; the fan-out happens for complete, non-partial results only.
Unstage(r) ==
    /\ pc[r] = "unstage"
    /\ staging' = Nothing
    /\ Goto(r, "seq") \/ Goto(r, "save")
    /\ UNCHANGED <<askVars, queueVars, lock, revision, wsSeq, active, manifest, delivered,
                   inputVars, loopVars, work, history>>

IncrSeq(r) ==
    /\ pc[r] = "seq"
    /\ wsSeq' = wsSeq + 1
    /\ work' = [work EXCEPT ![r].seq = wsSeq + 1]
    /\ Goto(r, "publish")
    /\ UNCHANGED <<askVars, queueVars, lock, revision, staging, active, manifest, delivered,
                   inputVars, loopVars, history>>

\* PUBLISH; every subscriber of the channel gets messages in this order.
Publish(r) ==
    /\ pc[r] = "publish"
    /\ delivered' = [seq |-> work[r].seq, rev |-> work[r].rev]
    /\ Goto(r, "save")
    /\ UNCHANGED <<askVars, queueVars, lock, revision, wsSeq, staging, active, manifest,
                   inputVars, loopVars, work, history>>

\* What follows the publication (snapshots, feed context, domain events) is
\* read by no one here, but it may throw.
Save(r) ==
    /\ pc[r] = "save"
    /\ Goto(r, IF r \in Workers THEN "ack" ELSE "done")
    /\ UNCHANGED <<askVars, queueVars, lock, publicVars, inputVars, loopVars, work, history>>

---------------------------------------------------------------------------
(* Failures.                                                                *)

Fails(r) == Goto(r, IF r \in Workers THEN "failAck" ELSE "done")

\* A call of processJob throws.
ComputeThrows(r) ==
    /\ pc[r] \in ComputePC
    /\ Events < MaxEvents /\ throws < MaxThrows /\ throws' = throws + 1
    /\ Fails(r)
    /\ UNCHANGED <<askVars, queueVars, lock, publicVars, inputVars, loopVars, work,
                   skipped, dropped, lapsed, analysed, crashes, stops>>

\* insertMany meets the rows another run inserted: duplicate key.
InsertRejected(r) ==
    /\ pc[r] = "insert" /\ rows # Nothing
    /\ Fails(r)
    /\ UNCHANGED <<askVars, queueVars, lock, publicVars, inputVars, loopVars, work, history>>

Gap(w) == pc[w] \in {"busy", "bury", "retry"}

Reset(w, next) ==
    /\ Goto(w, next)
    /\ batch' = [batch EXCEPT ![w] = <<>>] /\ Forget(w)
    /\ dropped' = IF Gap(w) THEN dropped \cup {held[w].change} ELSE dropped

Crash(w) ==
    /\ pc[w] \notin {"down", "stopped"}
    /\ Events < MaxEvents /\ crashes < MaxCrashes /\ crashes' = crashes + 1
    /\ Reset(w, "down")
    /\ lapsed' = lapsed \ {w}
    /\ UNCHANGED <<askVars, queueVars, lock, publicVars, inputVars,
                   skipped, analysed, throws, stops>>

\* A Redis call outside the try, or inside the catch, throws: finally still
\* deletes the lock if it was taken, and the loop of this process is over.
LoopThrows(w) ==
    /\ pc[w] \in {"poll", "next", "busy", "failAck", "bury", "retry", "release"}
    /\ Events < MaxEvents /\ stops < MaxStops /\ stops' = stops + 1
    /\ IF pc[w] \in {"failAck", "bury", "retry"}
       THEN Unlock(w)
       ELSE UNCHANGED lock /\ lapsed' = lapsed \ {w}
    /\ Reset(w, "stopped")
    /\ UNCHANGED <<askVars, queueVars, publicVars, inputVars,
                   skipped, analysed, throws, crashes>>

Locked(w) == pc[w] \in LockedPC

\* Slip: SET NX without PX, the lock of a dead worker stays.
LockStays == FALSE

\* PX lockTtlMs runs out; nothing renews it.
LockExpires ==
    /\ lock # Nobody /\ \E w \in Workers : pc[w] = "next" /\ batch[w] # <<>>
    /\ LockMayLapse \/ ~ Locked(lock)
    /\ lock' = Nobody
    /\ lapsed' = IF Locked(lock) THEN lapsed \cup {lock} ELSE lapsed
    /\ UNCHANGED <<askVars, queueVars, publicVars, inputVars, pc, loopVars, work,
                   skipped, dropped, analysed, throws, crashes, stops>>

---------------------------------------------------------------------------
AskStep == \/ Change \/ DebounceEnds
           \/ \E v \in Changes : \/ \E on, bypassDebounce \in BOOLEAN : Admit(v, on, bypassDebounce)
                                 \/ Enqueue(v)

LoopStep(w) ==
    \/ ClaimAck(w) \/ Read(w) \/ BatchDone(w)
    \/ \E e \in Range(batch[w]) : Skip(w, e) \/ Acquire(w, e) \/ Busy(w, e)
    \/ RequeueBusy(w) \/ Ack(w) \/ FailAck(w) \/ Bury(w) \/ Retry(w)
    \/ Release(w)

ComputeStep(r) ==
    \/ ReadHoldings(r) \/ IncrIngest(r) \/ DeleteRows(r) \/ InsertRows(r) \/ InsertRejected(r)
    \/ Stage(r) \/ IncrRevision(r) \/ FetchStaging(r) \/ Activate(r) \/ WriteManifest(r)
    \/ Unstage(r) \/ IncrSeq(r) \/ Publish(r) \/ Save(r)

ClaimStep(w) == \E i \in Ids : Claim(w, i)

Next ==
    \/ AskStep \/ LockExpires
    \/ \E w \in Workers : \/ Boot(w) \/ LoopStep(w) \/ ClaimStep(w)
                          \/ ClaimThrows(w) \/ Crash(w) \/ LoopThrows(w)
    \/ \E a \in Summaries : Summarise(a)
    \/ \E r \in Runners : ComputeStep(r) \/ ComputeThrows(r)

Spec == Init /\ [][Next]_vars

\* A loop that runs takes its next step; a dead process is restarted; the
\* autoclaim pass runs every minute whatever the stream holds; a TTL ends.
Fairness ==
    /\ \A w \in Workers :
          /\ WF_vars(LoopStep(w) \/ ComputeStep(w))
          /\ WF_vars(pc[w] = "down" /\ Boot(w))
          /\ SF_vars(ClaimStep(w))
    /\ SF_vars(LockExpires)

FairSpec == Spec /\ Fairness

---------------------------------------------------------------------------
Payload == [data : 0 .. MaxChanges, ingest : Nat]
Job == [change : Changes, attempt : 0 .. MaxRetries]

TypeOK ==
    /\ holdings \in 0 .. MaxChanges
    /\ request \in [Changes -> {"idle", "asked", "refused", "admitted", "accepted"}]
    /\ debounce \in BOOLEAN
    /\ queue \in Seq(Ids) /\ owner \in [Ids -> Workers \cup {Nobody}]
    /\ job \in [Ids -> Job \cup {NoJob}]
    /\ dead \in SUBSET Changes
    /\ lock \in Workers \cup {Nobody}
    /\ ingest \in Nat /\ revision \in Nat /\ wsSeq \in Nat
    /\ delivered \in [seq : Nat, rev : Nat]
    /\ rows \in Payload \cup {Nothing}
    /\ staging \in Payload \cup {Nothing} /\ active \in Payload \cup {Nothing}
    /\ manifest \in [data : 0 .. MaxChanges, ingest : Nat, rev : Nat] \cup {Nothing}
    /\ pc \in [Runners -> WorkerPC \cup SummaryPC]
    /\ \A w \in Workers : pc[w] \in WorkerPC
    /\ \A a \in Summaries : pc[a] \in SummaryPC
    /\ batch \in [Workers -> Seq([id : Ids, job : Job])] /\ cur \in [Workers -> 0 .. Slots]
    /\ held \in [Workers -> Job \cup {NoJob}]
    /\ \A w \in Workers : pc[w] = "retry" => held[w].attempt + 1 < MaxRetries
    /\ work \in [Runners -> [data : 0 .. MaxChanges, ingest : Nat, rev : Nat, seq : Nat,
                             copy : Payload \cup {Nothing}]]
    /\ skipped \in SUBSET Changes /\ dropped \in SUBSET Changes
    /\ lapsed \in SUBSET Workers /\ analysed \in 0 .. MaxChanges
    /\ throws \in Nat /\ crashes \in Nat /\ stops \in Nat

\* An accepted request is never lost without a trace: an entry of the stream
\* carries it, a worker is about to add or bury it, the analytics of at least
\* that holdings version were published, it was dead-lettered or skipped while
\* analytics was off - or a worker died in the gap that ackPiJob before
\* requeueWithBackoff / moveToDlq leaves open.
OnStream(v) == \E i \in Ids : job[i].change = v /\ (i \in Range(queue) \/ owner[i] # Nobody)
InGap(v) == \E w \in Workers : Gap(w) /\ held[w].change = v
Settled(v) == analysed >= v \/ v \in dead \cup skipped \cup dropped

NoLostRequest ==
    \A v \in Changes : request[v] = "accepted" => OnStream(v) \/ InGap(v) \/ Settled(v)

\* With the lock TTL longer than a computation, a user's analytics are computed
\* by one worker at a time, although the release deletes the key unseen: a
\* loser of SET NX never reaches the finally block.
OneComputation ==
    \A v, w \in Workers : Locked(v) /\ Locked(w) /\ {v, w} \cap lapsed = {} => v = w

\* Readers fetch manifest and analytics with two GETs.  While the manifest's
\* revision is the newest, the analytics key holds what the manifest describes,
\* even if a worker died between the two SETs of an earlier publication.
ManifestDescribesActive ==
    manifest # Nothing /\ manifest.rev = revision =>
        active = [data |-> manifest.data, ingest |-> manifest.ingest]

\* Clients receive analytics_revision messages with growing seq and revision.
SeqIsMonotonic == [][/\ delivered'.seq > delivered.seq
                     /\ delivered'.rev > delivered.rev]_delivered

\* Published analytics never go back to older holdings or an older revision, and
\* clients hear of them with growing seq and revision.
PublicationsAdvance ==
    [][/\ manifest' # manifest /\ manifest # Nothing =>
              /\ manifest'.data >= manifest.data
              /\ manifest'.rev >= manifest.rev
              /\ manifest'.ingest >= manifest.ingest
       /\ delivered' # delivered =>
              delivered'.seq > delivered.seq /\ delivered'.rev > delivered.rev]_<<manifest, delivered>>

\* Every accepted request settles, whatever computation fails and whichever
\* process dies and is restarted (but for a worker loop that an error ends).
RequestSettles(v) == request[v] = "accepted" ~> Settled(v)
EveryRequestSettles == \A v \in Changes : RequestSettles(v)
=============================================================================
