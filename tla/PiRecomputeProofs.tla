------------------------- MODULE PiRecomputeProofs -------------------------
(***************************************************************************)
(* Theorems about PiRecompute, for any number of workers, summaries,       *)
(* changes, stream slots, retries and failures.                            *)
(***************************************************************************)
EXTENDS PiRecompute, SequenceTheorems, TLAPS

---------------------------------------------------------------------------
(* Sequences: the unread part of the stream and a worker's batch.           *)

NoRepeat(s) == \A k, l \in DOMAIN s : s[k] = s[l] => k = l

LEMMA AppendRange ==
    ASSUME NEW S, NEW s \in Seq(S), NEW e \in S
    PROVE  /\ Append(s, e) \in Seq(S)
           /\ Range(Append(s, e)) = Range(s) \cup {e}
           /\ NoRepeat(s) /\ e \notin Range(s) => NoRepeat(Append(s, e))
<1> DEFINE t == Append(s, e)
<1>1. /\ t \in Seq(S) /\ Len(t) = Len(s) + 1 /\ Len(s) \in Nat
      /\ \A k \in 1 .. Len(s) : t[k] = s[k]
      /\ t[Len(s) + 1] = e
  BY AppendProperties, LenProperties
<1>2. DOMAIN t = 1 .. Len(s) + 1 /\ DOMAIN s = 1 .. Len(s) BY <1>1, LenProperties
<1> HIDE DEF t
<1>3. Range(t) = Range(s) \cup {e} BY <1>1, <1>2 DEF Range
<1>4. ASSUME NoRepeat(s), e \notin Range(s) PROVE NoRepeat(t)
  BY <1>1, <1>2, <1>4 DEF NoRepeat, Range
<1> QED BY <1>1, <1>3, <1>4 DEF t

LEMMA TailRange ==
    ASSUME NEW S, NEW s \in Seq(S), s # <<>>
    PROVE  /\ Head(s) \in S /\ Head(s) \in Range(s)
           /\ Tail(s) \in Seq(S) /\ Range(Tail(s)) \subseteq Range(s)
<1>1. /\ Head(s) \in S /\ Tail(s) \in Seq(S) /\ Len(Tail(s)) = Len(s) - 1
      /\ \A k \in 1 .. Len(Tail(s)) : Tail(s)[k] = s[k + 1]
  BY HeadTailProperties
<1>2. Len(s) \in Nat \ {0} /\ DOMAIN s = 1 .. Len(s) /\ Head(s) = s[1]
  BY EmptySeq, LenProperties
<1>3. DOMAIN Tail(s) = 1 .. Len(s) - 1 BY <1>1, LenProperties
<1> QED BY <1>1, <1>2, <1>3 DEF Range

\* XREADGROUP splits the unread entries into those it takes and the rest.
LEMMA SplitRange ==
    ASSUME NEW S, NEW s \in Seq(S), NEW n \in 1 .. Len(s)
    PROVE  LET taken == SubSeq(s, 1, n)
               rest == SubSeq(s, n + 1, Len(s))
           IN  /\ rest \in Seq(S) /\ DOMAIN taken = 1 .. n
               /\ \A k \in 1 .. n : taken[k] \in S
               /\ Range(taken) \cup Range(rest) = Range(s)
               /\ NoRepeat(s) => NoRepeat(rest) /\ Range(taken) \cap Range(rest) = {}
<1> DEFINE taken == SubSeq(s, 1, n)
           rest == SubSeq(s, n + 1, Len(s))
<1>1. Len(s) \in Nat /\ DOMAIN s = 1 .. Len(s) /\ \A k \in 1 .. Len(s) : s[k] \in S
  BY LenProperties, ElementOfSeq
<1>2. taken \in Seq(S) /\ Len(taken) = n /\ \A k \in 1 .. n : taken[k] = s[k]
  BY <1>1, SubSeqProperties
<1>3. /\ rest \in Seq(S)
      /\ Len(rest) = IF n + 1 <= Len(s) THEN Len(s) - (n + 1) + 1 ELSE 0
      /\ \A k \in 1 .. Len(s) - (n + 1) + 1 : rest[k] = s[n + 1 + k - 1]
  <2>1. \A k \in n + 1 .. Len(s) : s[k] \in S BY <1>1
  <2> QED BY <1>1, <2>1, SubSeqProperties
<1>4. DOMAIN taken = 1 .. Len(taken) /\ DOMAIN rest = 1 .. Len(rest)
  BY <1>2, <1>3, LenProperties
<1> HIDE DEF taken, rest
<1>5. Len(rest) = Len(s) - n /\ \A k \in 1 .. Len(s) - n : rest[k] = s[n + k]
  <2>1. ASSUME NEW k \in 1 .. Len(s) - n PROVE rest[k] = s[n + k]
    <3>1. k \in 1 .. Len(s) - (n + 1) + 1 BY <1>1
    <3>2. n + 1 + k - 1 = n + k BY <1>1
    <3> QED BY <1>3, <3>1, <3>2
  <2> QED BY <1>1, <1>3, <2>1
<1>6. Range(taken) \cup Range(rest) = Range(s)
  <2>1. ASSUME NEW k \in 1 .. Len(s)
        PROVE  k \in 1 .. n \/ (k - n \in 1 .. Len(s) - n /\ s[k] = rest[k - n])
    <3>1. CASE k > n
      <4>1. k - n \in 1 .. Len(s) - n /\ n + (k - n) = k BY <1>1, <3>1
      <4> QED BY <1>5, <4>1
    <3>2. CASE k <= n
      <4>1. k \in 1 .. n BY <1>1, <3>2
      <4> QED BY <4>1
    <3>3. k > n \/ k <= n BY <1>1
    <3> QED BY <3>1, <3>2, <3>3
  <2>2. \A k \in 1 .. n : k \in 1 .. Len(s) BY <1>1
  <2>3. \A k \in 1 .. Len(s) - n : n + k \in 1 .. Len(s) BY <1>1
  <2>4. \A k \in 1 .. n : s[k] = taken[k] BY <1>2
  <2>5. Range(taken) \subseteq Range(s) BY <1>1, <1>2, <1>4, <2>2, <2>4 DEF Range
  <2>6. Range(rest) \subseteq Range(s) BY <1>1, <1>4, <1>5, <2>3 DEF Range
  <2>7. ASSUME NEW x \in Range(s) PROVE x \in Range(taken) \cup Range(rest)
    <3>1. PICK k \in 1 .. Len(s) : x = s[k] BY <1>1 DEF Range
    <3>2. CASE k \in 1 .. n BY <1>2, <1>4, <2>4, <3>1, <3>2 DEF Range
    <3>3. CASE k - n \in 1 .. Len(s) - n /\ s[k] = rest[k - n]
      BY <1>4, <1>5, <3>1, <3>3 DEF Range
    <3> QED BY <2>1, <3>2, <3>3
  <2> QED BY <2>5, <2>6, <2>7
<1>7. ASSUME NoRepeat(s) PROVE NoRepeat(rest) /\ Range(taken) \cap Range(rest) = {}
  <2>1. ASSUME NEW k \in 1 .. Len(s) - n, NEW l \in 1 .. Len(s) - n, rest[k] = rest[l]
        PROVE  k = l
    <3>1. n + k \in 1 .. Len(s) /\ n + l \in 1 .. Len(s) BY <1>1
    <3>2. s[n + k] = s[n + l] BY <1>5, <2>1
    <3>3. n + k = n + l BY <1>1, <1>7, <3>1, <3>2 DEF NoRepeat
    <3> QED BY <3>3
  <2>2. ASSUME NEW k \in 1 .. n, NEW l \in 1 .. Len(s) - n, taken[k] = rest[l]
        PROVE  FALSE
    <3>1. k \in 1 .. Len(s) /\ n + l \in 1 .. Len(s) BY <1>1
    <3>2. s[k] = s[n + l] BY <1>2, <1>5, <2>2
    <3>3. k = n + l BY <1>1, <1>7, <3>1, <3>2 DEF NoRepeat
    <3> QED BY <1>1, <3>3
  <2>3. NoRepeat(rest) BY <1>4, <1>5, <2>1 DEF NoRepeat
  <2>4. Range(taken) \cap Range(rest) = {} BY <1>2, <1>4, <1>5, <2>2 DEF Range
  <2> QED BY <2>3, <2>4
<1>8. \A k \in 1 .. n : taken[k] \in S BY <1>1, <1>2
<1> QED BY <1>2, <1>3, <1>4, <1>6, <1>7, <1>8 DEF taken, rest

---------------------------------------------------------------------------
(* Type correctness.  The payload a worker reads with an entry is a job     *)
(* because ids are not reused while anything refers to them.                *)

Referenced(i) ==
    \/ owner[i] # Nobody
    \/ \E w \in Workers : cur[w] = i \/ \E e \in Range(batch[w]) : e.id = i

\* An entry that waits unread waits once, is in nobody's hands and carries a
\* job, as does every entry that is pending for a consumer.
Handles ==
    /\ NoRepeat(queue)
    /\ \A i \in Range(queue) : ~ Referenced(i) /\ job[i] \in Job
    /\ \A i \in Ids : owner[i] # Nobody => job[i] \in Job
    /\ \A w \in Workers : Locked(w) \/ pc[w] = "busy" => held[w] \in Job

LEMMA JobType ==
    /\ NoJob \notin Job /\ NoJob.change = 0 /\ NoJob.attempt = 0
    /\ \A v \in Changes : [change |-> v, attempt |-> 0] \in Job
    /\ \A j \in Job : NextAttempt(j) \in Job /\ NextAttempt(j).change = j.change
    /\ \A j \in Job : j.change \in Changes /\ j.attempt \in 0 .. MaxRetries
    /\ Changes \subseteq 0 .. MaxChanges /\ 0 \notin Changes
    BY PiAssumption DEF NoJob, Job, NextAttempt, Changes

\* XADD appends an entry under an id nothing refers to.
LEMMA XaddEffect ==
    ASSUME TypeOK, Handles, NEW j \in Job, Xadd(j)
    PROVE  \E i \in Ids :
              /\ i \notin Range(queue) /\ ~ Referenced(i)
              /\ job' = [job EXCEPT ![i] = j]
              /\ queue' \in Seq(Ids) /\ job' \in [Ids -> Job \cup {NoJob}]
              /\ Range(queue') = Range(queue) \cup {i} /\ NoRepeat(queue')
<1> DEFINE id == CHOOSE i \in Unused : TRUE
<1>1. id \in Unused BY DEF Xadd
<1> HIDE DEF id
<1>2. id \in Ids /\ id \notin Range(queue) /\ ~ Referenced(id)
  BY <1>1 DEF Unused, Referenced
<1>3. queue' = Append(queue, id) /\ job' = [job EXCEPT ![id] = j]
  BY DEF Xadd, id
<1>4. /\ queue' \in Seq(Ids) /\ NoRepeat(queue')
      /\ Range(queue') = Range(queue) \cup {id}
  BY <1>2, <1>3, AppendRange DEF TypeOK, Handles
<1>5. job' \in [Ids -> Job \cup {NoJob}] BY <1>2, <1>3 DEF TypeOK
<1> QED BY <1>2, <1>3, <1>4, <1>5

\* A worker turns to the first entry of its batch.
LEMMA TurnEffect ==
    ASSUME TypeOK, NEW w \in Workers, NEW e, Turn(w, e)
    PROVE  /\ pc[w] = "next"
           /\ e \in Range(batch[w]) /\ e.id \in Ids /\ e.job \in Job
           /\ batch' \in [Workers -> Seq([id : Ids, job : Job])]
           /\ \A v \in Workers : Range(batch'[v]) \subseteq Range(batch[v])
<1>1. batch[w] \in Seq([id : Ids, job : Job]) /\ batch[w] # <<>> BY DEF TypeOK, Turn
<1>2. /\ Head(batch[w]) \in [id : Ids, job : Job] /\ Head(batch[w]) \in Range(batch[w])
      /\ Tail(batch[w]) \in Seq([id : Ids, job : Job])
      /\ Range(Tail(batch[w])) \subseteq Range(batch[w])
  BY <1>1, TailRange
<1>3. batch' = [batch EXCEPT ![w] = Tail(batch[w])] /\ e = Head(batch[w]) /\ pc[w] = "next"
  BY DEF Turn
<1>4. batch' \in [Workers -> Seq([id : Ids, job : Job])] BY <1>2, <1>3 DEF TypeOK
<1> QED BY <1>2, <1>3, <1>4 DEF TypeOK

LEMMA MinOfTwo ==
    ASSUME NEW a \in Nat \ {0}, NEW b \in Nat \ {0}
    PROVE  Min({a, b}) \in 1 .. a
<1>1. \E x \in {a, b} : \A y \in {a, b} : x <= y
  <2>1. CASE a <= b BY <2>1
  <2>2. CASE b <= a BY <2>2
  <2> QED BY <2>1, <2>2
<1>2. Min({a, b}) \in {a, b} /\ \A y \in {a, b} : Min({a, b}) <= y
  BY <1>1, Zenon DEF Min
<1> QED BY <1>2

\* XREADGROUP hands the oldest unread entries to one worker.
LEMMA ReadEffect ==
    ASSUME TypeOK, Handles, NEW w \in Workers, Read(w)
    PROVE  /\ queue' \in Seq(Ids) /\ NoRepeat(queue')
           /\ batch' \in [Workers -> Seq([id : Ids, job : Job])]
           /\ \A v \in Workers \ {w} : batch'[v] = batch[v]
           /\ \E taken \in SUBSET Range(queue) :
                 /\ Range(queue') = Range(queue) \ taken
                 /\ owner' = [i \in Ids |-> IF i \in taken THEN w ELSE owner[i]]
                 /\ \A e \in Range(batch'[w]) : e.id \in taken /\ e.job = job[e.id]
<1> DEFINE n == Min({Len(queue), Batch})
           taken == SubSeq(queue, 1, n)
           rest == SubSeq(queue, n + 1, Len(queue))
           read == [k \in 1 .. n |-> [id |-> taken[k], job |-> job[taken[k]]]]
<1>1. queue \in Seq(Ids) /\ queue # <<>> BY DEF TypeOK, Read
<1>2. Len(queue) \in Nat \ {0} BY <1>1, EmptySeq
<1>3. n \in 1 .. Len(queue) BY <1>2, PiAssumption, MinOfTwo
<1>4. /\ queue' = rest
      /\ batch' = [batch EXCEPT ![w] = read]
      /\ owner' = [i \in Ids |-> IF i \in Range(taken) THEN w ELSE owner[i]]
  BY DEF Read
<1> HIDE DEF n
<1>5. /\ rest \in Seq(Ids) /\ NoRepeat(rest) /\ DOMAIN taken = 1 .. n
      /\ \A k \in 1 .. n : taken[k] \in Ids
      /\ Range(taken) \cup Range(rest) = Range(queue)
      /\ Range(taken) \cap Range(rest) = {}
  BY <1>1, <1>3, SplitRange DEF Handles
<1> HIDE DEF taken, rest
<1>6. \A k \in 1 .. n : taken[k] \in Range(taken) /\ job[taken[k]] \in Job
  BY <1>5 DEF Handles, Range
<1>7. \A k \in 1 .. n : read[k] \in [id : Ids, job : Job] BY <1>5, <1>6
<1>8. read \in Seq([id : Ids, job : Job])
  <2>1. n \in Nat BY <1>2, <1>3
  <2>2. read \in [1 .. n -> [id : Ids, job : Job]] BY <1>7
  <2> QED BY <2>1, <2>2, SeqDef
<1>9. \A e \in Range(read) : e.id \in Range(taken) /\ e.job = job[e.id]
  BY <1>6 DEF Range
<1> HIDE DEF read
<1>10. /\ batch' \in [Workers -> Seq([id : Ids, job : Job])] /\ batch'[w] = read
       /\ \A v \in Workers \ {w} : batch'[v] = batch[v]
  BY <1>4, <1>8 DEF TypeOK
<1>11. Range(queue') = Range(queue) \ Range(taken) BY <1>4, <1>5
<1>12. Range(taken) \in SUBSET Range(queue) BY <1>5
<1> QED BY <1>4, <1>5, <1>9, <1>10, <1>11, <1>12

\* A step to the next call of a computation keeps the program counters typed.
LEMMA GotoType ==
    ASSUME TypeOK, NEW r \in Runners, NEW next, Goto(r, next),
           \/ next \in ComputePC
           \/ next = IF r \in Workers THEN "ack" ELSE "done"
           \/ next = IF r \in Workers THEN "failAck" ELSE "done"
    PROVE  /\ pc' \in [Runners -> WorkerPC \cup SummaryPC]
           /\ \A w \in Workers : pc'[w] \in WorkerPC
           /\ \A a \in Summaries : pc'[a] \in SummaryPC
           /\ \A w \in Workers : pc'[w] = "retry" => pc[w] = "retry"
<1>1. r \in Workers => next \in WorkerPC BY DEF WorkerPC, LockedPC
<1>2. r \in Summaries => next \in SummaryPC BY PiAssumption DEF SummaryPC
<1>3. next # "retry" BY DEF ComputePC
<1>4. Runners = Workers \cup Summaries /\ Workers \cap Summaries = {}
  BY PiAssumption DEF Runners
<1>5. pc' = [pc EXCEPT ![r] = next] BY DEF Goto
<1>6. pc \in [Runners -> WorkerPC \cup SummaryPC] BY DEF TypeOK
<1> QED BY <1>1, <1>2, <1>3, <1>4, <1>5, <1>6 DEF TypeOK

\* The same for a worker's own loop.
LEMMA LoopGotoType ==
    ASSUME TypeOK, NEW w \in Workers, NEW next \in WorkerPC, Goto(w, next)
    PROVE  /\ pc' \in [Runners -> WorkerPC \cup SummaryPC]
           /\ \A v \in Workers : pc'[v] \in WorkerPC
           /\ \A a \in Summaries : pc'[a] \in SummaryPC
           /\ pc'[w] = next /\ \A v \in Workers \ {w} : pc'[v] = pc[v]
<1>1. Runners = Workers \cup Summaries /\ Workers \cap Summaries = {}
  BY PiAssumption DEF Runners
<1>2. pc' = [pc EXCEPT ![w] = next] BY DEF Goto
<1>3. pc \in [Runners -> WorkerPC \cup SummaryPC] BY DEF TypeOK
<1> QED BY <1>1, <1>2, <1>3 DEF TypeOK

LEMMA XackType ==
    ASSUME TypeOK, NEW i, Xack(i)
    PROVE  /\ owner' \in [Ids -> Workers \cup {Nobody}]
           /\ job' \in [Ids -> Job \cup {NoJob}]
    BY DEF TypeOK, Xack

LEMMA UnlockType ==
    ASSUME TypeOK, NEW w \in Workers, Unlock(w)
    PROVE  lock' \in Workers \cup {Nobody} /\ lapsed' \in SUBSET Workers
    BY DEF TypeOK, Unlock

\* A step of processJob, by a worker or by an API request.
LEMMA ComputeTypes ==
    ASSUME TypeOK, NEW r \in Runners, ComputeStep(r) \/ ComputeThrows(r)
    PROVE  TypeOK'
<1> DEFINE PCs == /\ pc' \in [Runners -> WorkerPC \cup SummaryPC]
                  /\ \A w \in Workers : pc'[w] \in WorkerPC
                  /\ \A a \in Summaries : pc'[a] \in SummaryPC
                  /\ \A w \in Workers : pc'[w] = "retry" => pc[w] = "retry"
<1>1. PCs
  <2>1. \E next \in ComputePC : Goto(r, next)
        \/ Goto(r, IF r \in Workers THEN "ack" ELSE "done")
        \/ Goto(r, IF r \in Workers THEN "failAck" ELSE "done")
    BY DEF ComputeStep, ReadHoldings, IncrIngest, DeleteRows, InsertRows, InsertRejected,
           Stage, IncrRevision, FetchStaging, Activate, WriteManifest, Unstage, IncrSeq,
           Publish, Save, ComputeThrows, Fails, ComputePC
  <2> QED BY <2>1, GotoType
<1> HIDE DEF PCs
<1> DEFINE Work == [data : 0 .. MaxChanges, ingest : Nat, rev : Nat, seq : Nat,
                    copy : Payload \cup {Nothing}]
<1>2. /\ work \in [Runners -> Work] /\ work[r] \in Work
      /\ Result(r) \in Payload
  BY DEF TypeOK, Result, Payload
<1>3. /\ \A v \in 0 .. MaxChanges : [work EXCEPT ![r].data = v] \in [Runners -> Work]
      /\ \A n \in Nat : /\ [work EXCEPT ![r].ingest = n] \in [Runners -> Work]
                       /\ [work EXCEPT ![r].rev = n] \in [Runners -> Work]
                       /\ [work EXCEPT ![r].seq = n] \in [Runners -> Work]
      /\ \A p \in Payload \cup {Nothing} : [work EXCEPT ![r].copy = p] \in [Runners -> Work]
  BY <1>2
<1> HIDE DEF Work
<1> USE DEF TypeOK, askVars, queueVars, publicVars, inputVars, loopVars, history, PCs
<1>4. CASE ReadHoldings(r)
  <2>1. work' \in [Runners -> Work] BY <1>3, <1>4 DEF ReadHoldings
  <2> QED BY <1>1, <1>4, <2>1 DEF ReadHoldings, Work
<1>5. CASE IncrIngest(r)
  <2>1. ingest + 1 \in Nat OBVIOUS
  <2>2. work' = [work EXCEPT ![r].ingest = ingest + 1] BY <1>5 DEF IncrIngest
  <2>3. work' \in [Runners -> Work] BY <1>3, <2>1, <2>2
  <2> QED BY <1>1, <1>5, <2>1, <2>3 DEF IncrIngest, Work
<1>6. CASE DeleteRows(r) BY <1>1, <1>6 DEF DeleteRows
<1>7. CASE InsertRows(r) BY <1>1, <1>2, <1>7 DEF InsertRows
<1>8. CASE InsertRejected(r) BY <1>1, <1>8 DEF InsertRejected
<1>9. CASE Stage(r) BY <1>1, <1>2, <1>9 DEF Stage
<1>10. CASE IncrRevision(r)
  <2>1. revision + 1 \in Nat OBVIOUS
  <2>2. work' = [work EXCEPT ![r].rev = revision + 1] BY <1>10 DEF IncrRevision
  <2>3. work' \in [Runners -> Work] BY <1>3, <2>1, <2>2
  <2> QED BY <1>1, <1>10, <2>1, <2>3 DEF IncrRevision, Work
<1>11. CASE FetchStaging(r)
  <2>1. work' \in [Runners -> Work] BY <1>2, <1>3, <1>11 DEF FetchStaging
  <2> QED BY <1>1, <1>11, <2>1 DEF FetchStaging, Work
<1>12. CASE Activate(r) BY <1>1, <1>2, <1>12 DEF Activate, Work
<1>13. CASE WriteManifest(r) BY <1>1, <1>2, <1>13 DEF WriteManifest, Work
<1>14. CASE Unstage(r) BY <1>1, <1>14 DEF Unstage
<1>15. CASE IncrSeq(r)
  <2>1. wsSeq + 1 \in Nat OBVIOUS
  <2>2. work' = [work EXCEPT ![r].seq = wsSeq + 1] BY <1>15 DEF IncrSeq
  <2>3. work' \in [Runners -> Work] BY <1>3, <2>1, <2>2
  <2> QED BY <1>1, <1>15, <2>1, <2>3 DEF IncrSeq, Work
<1>16. CASE Publish(r) BY <1>1, <1>2, <1>16 DEF Publish, Work
<1>17. CASE Save(r) BY <1>1, <1>17 DEF Save
<1>18. CASE ComputeThrows(r)
  <2>1. throws' \in Nat BY <1>18 DEF ComputeThrows
  <2> QED BY <1>1, <1>18, <2>1 DEF ComputeThrows
<1> QED BY <1>4, <1>5, <1>6, <1>7, <1>8, <1>9, <1>10, <1>11, <1>12, <1>13,
           <1>14, <1>15, <1>16, <1>17, <1>18 DEF ComputeStep

LEMMA PCType ==
    /\ ComputePC \subseteq LockedPC /\ LockedPC \subseteq WorkerPC
    /\ {"down", "stopped", "poll", "claimAck", "next", "busy", "read", "ack", "failAck",
        "bury", "retry", "release"} \subseteq WorkerPC
    BY DEF ComputePC, LockedPC, WorkerPC

LEMMA ForgetType ==
    ASSUME TypeOK, NEW w \in Workers, Forget(w)
    PROVE  /\ cur' \in [Workers -> 0 .. Slots]
           /\ held' \in [Workers -> Job \cup {NoJob}]
           /\ held'[w] = NoJob /\ \A v \in Workers \ {w} : held'[v] = held[v]
           /\ cur'[w] = 0 /\ \A v \in Workers \ {w} : cur'[v] = cur[v]
           /\ work' \in [Runners -> [data : 0 .. MaxChanges, ingest : Nat, rev : Nat, seq : Nat,
                                     copy : Payload \cup {Nothing}]]
<1>1. NoWork \in [data : 0 .. MaxChanges, ingest : Nat, rev : Nat, seq : Nat,
                  copy : Payload \cup {Nothing}]
  BY PiAssumption DEF NoWork
<1>2. 0 \in 0 .. Slots BY PiAssumption
<1> QED BY <1>1, <1>2 DEF TypeOK, Forget

LEMMA ForgetRetry ==
    ASSUME TypeOK, NEW w \in Workers, NEW next \in WorkerPC \ {"retry"},
           Goto(w, next), Forget(w)
    PROVE  \A v \in Workers : pc'[v] = "retry" => held'[v].attempt + 1 < MaxRetries
<1>1. pc'[w] = next /\ \A v \in Workers \ {w} : pc'[v] = pc[v] BY LoopGotoType
<1>2. \A v \in Workers \ {w} : held'[v] = held[v] BY ForgetType
<1>3. \A v \in Workers : pc[v] = "retry" => held[v].attempt + 1 < MaxRetries BY DEF TypeOK
<1> QED BY <1>1, <1>2, <1>3

\* A step of the worker loop.
LEMMA LoopTypes ==
    ASSUME TypeOK, Handles, NEW w \in Workers,
           LoopStep(w) \/ ClaimStep(w) \/ ClaimThrows(w) \/ Boot(w)
    PROVE  TypeOK'
<1> USE DEF askVars, queueVars, publicVars, inputVars, loopVars, history, Ids
<1>0. 0 \in 0 .. Slots /\ Ids \subseteq 0 .. Slots BY PiAssumption
<1>1. CASE ClaimAck(w)
  <2>1. Goto(w, "poll") /\ Xack(cur[w]) BY <1>1 DEF ClaimAck
  <2> QED BY <1>0, <1>1, <2>1, LoopGotoType, PCType, XackType DEF ClaimAck, TypeOK
<1>2. CASE Read(w)
  <2>1. Goto(w, "next") BY <1>2 DEF Read
  <2>2. PICK taken \in SUBSET Range(queue) :
           owner' = [i \in Ids |-> IF i \in taken THEN w ELSE owner[i]]
    BY <1>2, ReadEffect
  <2>3. owner' \in [Ids -> Workers \cup {Nobody}] BY <2>2 DEF TypeOK
  <2>4. queue' \in Seq(Ids) /\ batch' \in [Workers -> Seq([id : Ids, job : Job])]
    BY <1>2, ReadEffect
  <2>5. \A v \in Workers : pc'[v] = "retry" => held[v].attempt + 1 < MaxRetries
    BY <2>1, LoopGotoType, PCType DEF TypeOK
  <2> QED BY <1>2, <2>1, <2>3, <2>4, <2>5, LoopGotoType, PCType DEF Read, TypeOK
<1>3. CASE BatchDone(w)
  <2>1. Goto(w, "poll") BY <1>3 DEF BatchDone
  <2> QED BY <1>3, <2>1, LoopGotoType, PCType DEF BatchDone, TypeOK
<1>4. ASSUME NEW e \in Range(batch[w]), Skip(w, e) PROVE TypeOK'
  <2>1. Turn(w, e) /\ Xack(e.id) BY <1>4 DEF Skip
  <2>2. e.job \in Job /\ e.job.change \in Changes BY <2>1, TurnEffect, JobType
  <2>3. batch' \in [Workers -> Seq([id : Ids, job : Job])] BY <2>1, TurnEffect
  <2>4. owner' \in [Ids -> Workers \cup {Nobody}] /\ job' \in [Ids -> Job \cup {NoJob}]
    BY <2>1, XackType
  <2> QED BY <1>4, <2>2, <2>3, <2>4 DEF Skip, TypeOK
<1>5. ASSUME NEW e \in Range(batch[w]), Acquire(w, e) PROVE TypeOK'
  <2>1. Turn(w, e) /\ Goto(w, "read") BY <1>5 DEF Acquire, Take
  <2>2. e.job \in Job /\ e.id \in Ids BY <2>1, TurnEffect
  <2>3. batch' \in [Workers -> Seq([id : Ids, job : Job])] BY <2>1, TurnEffect
  <2>4. /\ pc' \in [Runners -> WorkerPC \cup SummaryPC]
        /\ \A v \in Workers : pc'[v] \in WorkerPC
        /\ \A a \in Summaries : pc'[a] \in SummaryPC
        /\ pc'[w] = "read" /\ \A v \in Workers \ {w} : pc'[v] = pc[v]
    BY <2>1, LoopGotoType, PCType
  <2>5. /\ cur' \in [Workers -> 0 .. Slots] /\ held' \in [Workers -> Job \cup {NoJob}]
        /\ \A v \in Workers \ {w} : held'[v] = held[v]
        /\ lock' \in Workers \cup {Nobody}
    BY <1>0, <1>5, <2>2 DEF Acquire, Take, TypeOK
  <2>6. \A v \in Workers : pc'[v] = "retry" => held'[v].attempt + 1 < MaxRetries
    BY <2>4, <2>5 DEF TypeOK
  <2> QED BY <1>5, <2>3, <2>4, <2>5, <2>6 DEF Acquire, TypeOK
<1>6. ASSUME NEW e \in Range(batch[w]), Busy(w, e) PROVE TypeOK'
  <2>1. Turn(w, e) /\ Goto(w, "busy") /\ Xack(e.id) BY <1>6 DEF Busy, Take
  <2>2. e.job \in Job BY <2>1, TurnEffect
  <2>3. batch' \in [Workers -> Seq([id : Ids, job : Job])] BY <2>1, TurnEffect
  <2>4. owner' \in [Ids -> Workers \cup {Nobody}] /\ job' \in [Ids -> Job \cup {NoJob}]
    BY <2>1, XackType
  <2>5. /\ pc' \in [Runners -> WorkerPC \cup SummaryPC]
        /\ \A v \in Workers : pc'[v] \in WorkerPC
        /\ \A a \in Summaries : pc'[a] \in SummaryPC
        /\ pc'[w] = "busy" /\ \A v \in Workers \ {w} : pc'[v] = pc[v]
    BY <2>1, LoopGotoType, PCType
  <2>6. /\ held' \in [Workers -> Job \cup {NoJob}]
        /\ \A v \in Workers \ {w} : held'[v] = held[v]
    BY <1>6, <2>2 DEF Busy, Take, TypeOK
  <2>7. \A v \in Workers : pc'[v] = "retry" => held'[v].attempt + 1 < MaxRetries
    BY <2>5, <2>6 DEF TypeOK
  <2> QED BY <1>6, <2>3, <2>4, <2>5, <2>6, <2>7 DEF Busy, TypeOK
<1>7. CASE RequeueBusy(w)
  <2>1. held[w] \in Job BY <1>7 DEF RequeueBusy, Handles
  <2>2. NextAttempt(held[w]) \in Job BY <2>1, JobType
  <2>3. Goto(w, "next") /\ Forget(w) /\ Xadd(NextAttempt(held[w])) BY <1>7 DEF RequeueBusy
  <2>4. queue' \in Seq(Ids) /\ job' \in [Ids -> Job \cup {NoJob}]
    BY <2>2, <2>3, XaddEffect
  <2>5. \A v \in Workers : pc'[v] = "retry" => held'[v].attempt + 1 < MaxRetries
    BY <2>3, PCType, ForgetRetry
  <2> QED BY <1>7, <2>3, <2>4, <2>5, LoopGotoType, PCType, ForgetType DEF RequeueBusy, TypeOK
<1>8. CASE Ack(w)
  <2>1. Goto(w, "release") /\ Xack(cur[w]) BY <1>8 DEF Ack
  <2> QED BY <1>0, <1>8, <2>1, LoopGotoType, PCType, XackType DEF Ack, TypeOK
<1>9. CASE FailAck(w)
  <2> DEFINE next == IF held[w].attempt + 1 >= MaxRetries THEN "bury" ELSE "retry"
  <2>1. Goto(w, next) /\ Xack(cur[w]) /\ next \in WorkerPC
    BY <1>9, PCType DEF FailAck
  <2>2. held[w] \in Job BY <1>9 DEF FailAck, Handles, Locked, LockedPC
  <2>3. next = "retry" => held[w].attempt + 1 < MaxRetries
    BY <2>2, JobType, PiAssumption
  <2>4. owner' \in [Ids -> Workers \cup {Nobody}] /\ job' \in [Ids -> Job \cup {NoJob}]
    BY <2>1, XackType
  <2>5. /\ pc' \in [Runners -> WorkerPC \cup SummaryPC]
        /\ \A v \in Workers : pc'[v] \in WorkerPC
        /\ \A a \in Summaries : pc'[a] \in SummaryPC
        /\ pc'[w] = next /\ \A v \in Workers \ {w} : pc'[v] = pc[v]
    BY <2>1, LoopGotoType
  <2>6. held' = held /\ cur' = [cur EXCEPT ![w] = 0] BY <1>9 DEF FailAck
  <2>7. \A v \in Workers : pc'[v] = "retry" => held'[v].attempt + 1 < MaxRetries
    BY <2>3, <2>5, <2>6 DEF TypeOK
  <2>8. cur' \in [Workers -> 0 .. Slots] BY <1>0, <2>6 DEF TypeOK
  <2> QED BY <1>9, <2>4, <2>5, <2>7, <2>8 DEF FailAck, TypeOK
<1>10. CASE Bury(w)
  <2>1. held[w].change \in Changes BY <1>10, JobType DEF Bury, Handles, Locked, LockedPC
  <2>2. Goto(w, "release") BY <1>10 DEF Bury
  <2>3. /\ pc' \in [Runners -> WorkerPC \cup SummaryPC]
        /\ \A v \in Workers : pc'[v] \in WorkerPC
        /\ \A a \in Summaries : pc'[a] \in SummaryPC
        /\ pc'[w] = "release" /\ \A v \in Workers \ {w} : pc'[v] = pc[v]
    BY <2>2, LoopGotoType, PCType
  <2>4. \A v \in Workers : pc'[v] = "retry" => held[v].attempt + 1 < MaxRetries
    BY <2>3 DEF TypeOK
  <2> QED BY <1>10, <2>1, <2>3, <2>4 DEF Bury, TypeOK
<1>11. CASE Retry(w)
  <2>1. held[w] \in Job BY <1>11 DEF Retry, Handles, Locked, LockedPC
  <2>2. NextAttempt(held[w]) \in Job BY <2>1, JobType
  <2>3. Goto(w, "release") /\ Xadd(NextAttempt(held[w])) BY <1>11 DEF Retry
  <2>4. queue' \in Seq(Ids) /\ job' \in [Ids -> Job \cup {NoJob}]
    BY <2>2, <2>3, XaddEffect
  <2>5. /\ pc' \in [Runners -> WorkerPC \cup SummaryPC]
        /\ \A v \in Workers : pc'[v] \in WorkerPC
        /\ \A a \in Summaries : pc'[a] \in SummaryPC
        /\ pc'[w] = "release" /\ \A v \in Workers \ {w} : pc'[v] = pc[v]
    BY <2>3, LoopGotoType, PCType
  <2>6. \A v \in Workers : pc'[v] = "retry" => held[v].attempt + 1 < MaxRetries
    BY <2>5 DEF TypeOK
  <2> QED BY <1>11, <2>4, <2>5, <2>6 DEF Retry, TypeOK
<1>12. CASE Release(w)
  <2>1. Goto(w, "next") /\ Forget(w) /\ Unlock(w) BY <1>12 DEF Release
  <2>2. \A v \in Workers : pc'[v] = "retry" => held'[v].attempt + 1 < MaxRetries
    BY <2>1, PCType, ForgetRetry
  <2> QED BY <1>12, <2>1, <2>2, LoopGotoType, PCType, ForgetType, UnlockType DEF Release, TypeOK
<1>13. ASSUME NEW i \in Ids, Claim(w, i) PROVE TypeOK'
  <2>1. job[i] \in Job BY <1>13 DEF Claim, Handles
  <2>2. Xadd(job[i]) /\ Goto(w, "claimAck") BY <1>13 DEF Claim
  <2>3. queue' \in Seq(Ids) /\ job' \in [Ids -> Job \cup {NoJob}]
    BY <2>1, <2>2, XaddEffect
  <2> QED BY <1>0, <1>13, <2>2, <2>3, LoopGotoType, PCType DEF Claim, TypeOK
<1>14. CASE ClaimThrows(w)
  <2>1. Goto(w, "poll") /\ throws' \in Nat BY <1>14 DEF ClaimThrows, TypeOK
  <2> QED BY <1>0, <1>14, <2>1, LoopGotoType, PCType DEF ClaimThrows, TypeOK
<1>15. CASE Boot(w)
  <2>1. Goto(w, "poll") BY <1>15 DEF Boot
  <2> QED BY <1>15, <2>1, LoopGotoType, PCType DEF Boot, TypeOK
<1> QED BY <1>1, <1>2, <1>3, <1>4, <1>5, <1>6, <1>7, <1>8, <1>9, <1>10, <1>11,
           <1>12, <1>13, <1>14, <1>15 DEF LoopStep, ClaimStep

\* A worker process that dies and a loop that ends with an error.
LEMMA FaultTypes ==
    ASSUME TypeOK, Handles, NEW w \in Workers, Crash(w) \/ LoopThrows(w)
    PROVE  TypeOK'
<1> USE DEF askVars, queueVars, publicVars, inputVars, loopVars, history
<1>1. ASSUME NEW next \in {"down", "stopped"}, Reset(w, next)
      PROVE  /\ Goto(w, next) /\ Forget(w)
             /\ batch' \in [Workers -> Seq([id : Ids, job : Job])]
             /\ dropped' \in SUBSET Changes
  <2>1. Gap(w) => held[w].change \in Changes
    BY JobType DEF Gap, Handles, Locked, LockedPC
  <2>2. <<>> \in Seq([id : Ids, job : Job]) BY EmptySeq
  <2> QED BY <1>1, <2>1, <2>2 DEF Reset, TypeOK
<1>2. CASE Crash(w)
  <2>1. Reset(w, "down") /\ crashes' \in Nat BY <1>2 DEF Crash, TypeOK
  <2>2. \A v \in Workers : pc'[v] = "retry" => held'[v].attempt + 1 < MaxRetries
    BY <1>1, <2>1, PCType, ForgetRetry
  <2> QED BY <1>1, <1>2, <2>1, <2>2, LoopGotoType, PCType, ForgetType DEF Crash, TypeOK
<1>3. CASE LoopThrows(w)
  <2>1. Reset(w, "stopped") /\ stops' \in Nat BY <1>3 DEF LoopThrows, TypeOK
  <2>2. lock' \in Workers \cup {Nobody} /\ lapsed' \in SUBSET Workers
    BY <1>3, UnlockType DEF LoopThrows, TypeOK
  <2>3. \A v \in Workers : pc'[v] = "retry" => held'[v].attempt + 1 < MaxRetries
    BY <1>1, <2>1, PCType, ForgetRetry
  <2> QED BY <1>1, <1>3, <2>1, <2>2, <2>3, LoopGotoType, PCType, ForgetType
          DEF LoopThrows, TypeOK
<1> QED BY <1>2, <1>3

\* Requests, summaries and the lock's TTL.
LEMMA AskTypes ==
    ASSUME TypeOK, Handles,
           AskStep \/ LockExpires \/ \E a \in Summaries : Summarise(a)
    PROVE  TypeOK'
<1> USE DEF askVars, queueVars, publicVars, inputVars, loopVars, history
<1>1. CASE Change
  <2>1. holdings + 1 \in Changes /\ holdings + 1 \in 0 .. MaxChanges
    BY <1>1, PiAssumption DEF Change, TypeOK, Changes
  <2> QED BY <1>1, <2>1 DEF Change, TypeOK
<1>2. CASE DebounceEnds BY <1>2 DEF DebounceEnds, TypeOK
<1>3. ASSUME NEW v \in Changes, NEW on \in BOOLEAN, NEW bypassDebounce \in BOOLEAN,
             Admit(v, on, bypassDebounce)
      PROVE  TypeOK'
  BY <1>3 DEF Admit, TypeOK
<1>4. ASSUME NEW v \in Changes, Enqueue(v) PROVE TypeOK'
  <2>1. [change |-> v, attempt |-> 0] \in Job BY JobType
  <2>2. queue' \in Seq(Ids) /\ job' \in [Ids -> Job \cup {NoJob}]
    BY <1>4, <2>1, XaddEffect DEF Enqueue
  <2> QED BY <1>4, <2>2 DEF Enqueue, TypeOK
<1>5. CASE LockExpires BY <1>5 DEF LockExpires, TypeOK
<1>6. ASSUME NEW a \in Summaries, Summarise(a) PROVE TypeOK'
  <2>1. Goto(a, "read") /\ a \in Runners /\ "read" \in ComputePC
    BY <1>6 DEF Summarise, Runners, ComputePC
  <2> QED BY <1>6, <2>1, GotoType DEF Summarise, TypeOK
<1> QED BY <1>1, <1>2, <1>3, <1>4, <1>5, <1>6 DEF AskStep

\* No new reference appears and only entries in someone's hands change.
LEMMA HandlesFrame ==
    ASSUME TypeOK, Handles, queue' = queue,
           \A i \in Ids : Referenced(i)' => Referenced(i),
           \A i \in Ids : ~ Referenced(i) => job'[i] = job[i],
           \A i \in Ids : owner'[i] # Nobody => owner[i] # Nobody /\ job'[i] = job[i],
           \A w \in Workers : Locked(w)' \/ pc'[w] = "busy" => held'[w] \in Job
    PROVE  Handles'
<1>1. Range(queue) \subseteq Ids BY RangeOfSeq DEF TypeOK
<1>2. \A i \in Range(queue) : ~ Referenced(i)' /\ job'[i] \in Job BY <1>1 DEF Handles
<1>3. \A i \in Ids : owner'[i] # Nobody => job'[i] \in Job BY DEF Handles
<1>4. NoRepeat(queue') BY DEF Handles
<1> QED BY <1>2, <1>3, <1>4 DEF Handles

\* One entry is added, and no new reference appears.
LEMMA HandlesXadd ==
    ASSUME TypeOK, Handles, NEW j \in Job, Xadd(j), TypeOK',
           \A i \in Ids : Referenced(i)' => Referenced(i),
           \A i \in Ids : owner'[i] # Nobody => owner[i] # Nobody,
           \A w \in Workers : Locked(w)' \/ pc'[w] = "busy" => held'[w] \in Job
    PROVE  Handles'
<1>1. Range(queue) \subseteq Ids BY RangeOfSeq DEF TypeOK
<1>2. PICK n \in Ids : /\ n \notin Range(queue) /\ ~ Referenced(n)
                       /\ job' = [job EXCEPT ![n] = j]
                       /\ Range(queue') = Range(queue) \cup {n} /\ NoRepeat(queue')
  BY XaddEffect
<1>3. \A i \in Ids : job'[i] = IF i = n THEN j ELSE job[i] BY <1>2 DEF TypeOK
<1>4. \A i \in Range(queue') : ~ Referenced(i)' /\ job'[i] \in Job
  BY <1>1, <1>2, <1>3 DEF Handles
<1>5. \A i \in Ids : owner'[i] # Nobody => job'[i] \in Job
  BY <1>2, <1>3 DEF Handles, Referenced
<1> QED BY <1>2, <1>4, <1>5 DEF Handles

LEMMA XackEffect ==
    ASSUME TypeOK, NEW i \in Ids, Xack(i)
    PROVE  /\ owner'[i] = Nobody /\ job'[i] = NoJob
           /\ \A k \in Ids \ {i} : owner'[k] = owner[k] /\ job'[k] = job[k]
           /\ \A k \in Ids : owner'[k] # Nobody => owner[k] # Nobody /\ job'[k] = job[k]
    BY DEF TypeOK, Xack

\* An entry in a worker's hands is acknowledged.
LEMMA HandlesXack ==
    ASSUME TypeOK, Handles, queue' = queue, NEW n, Xack(n),
           n \in Ids => Referenced(n),
           \A w \in Workers : /\ cur'[w] # 0 => cur'[w] = cur[w] \/ cur'[w] = n
                              /\ Range(batch'[w]) \subseteq Range(batch[w]),
           \A w \in Workers : Locked(w)' \/ pc'[w] = "busy" => held'[w] \in Job
    PROVE  Handles'
<1>1. \A k \in Ids : owner'[k] # Nobody => owner[k] # Nobody /\ job'[k] = job[k]
  BY DEF TypeOK, Xack
<1>2. \A k \in Ids : ~ Referenced(k) => job'[k] = job[k]
  BY DEF TypeOK, Xack
<1>3. ASSUME NEW k \in Ids, Referenced(k)' PROVE Referenced(k)
  <2>1. k # 0 BY DEF Ids
  <2>2. CASE owner'[k] # Nobody BY <1>1, <2>2 DEF Referenced
  <2>3. ASSUME NEW w \in Workers, cur'[w] = k PROVE Referenced(k)
    BY <2>1, <2>3 DEF Referenced
  <2>4. ASSUME NEW w \in Workers, NEW e \in Range(batch'[w]), e.id = k PROVE Referenced(k)
    BY <2>4 DEF Referenced
  <2> QED BY <1>3, <2>2, <2>3, <2>4 DEF Referenced
<1> QED BY <1>1, <1>2, <1>3, HandlesFrame

\* The worker whose program counter moves is the only one whose payload does.
LEMMA HeldFrame ==
    ASSUME TypeOK, Handles, NEW w \in Workers, NEW next \in WorkerPC, Goto(w, next),
           \A v \in Workers \ {w} : held'[v] = held[v],
           next \in LockedPC \cup {"busy"} => held'[w] \in Job
    PROVE  \A v \in Workers : Locked(v)' \/ pc'[v] = "busy" => held'[v] \in Job
<1>1. pc'[w] = next /\ \A v \in Workers \ {w} : pc'[v] = pc[v] BY LoopGotoType
<1> QED BY <1>1 DEF Handles, Locked

LEMMA HandlesStep ==
    ASSUME TypeOK, Handles, TypeOK', [Next]_vars
    PROVE  Handles'
<1> DEFINE Held == \A w \in Workers : Locked(w)' \/ pc'[w] = "busy" => held'[w] \in Job
           Refs == \A i \in Ids : Referenced(i)' => Referenced(i)
<1> USE DEF askVars, queueVars, publicVars, inputVars, loopVars, history
<1>1. CASE UNCHANGED <<queueVars, loopVars>> /\ Held
  <2>1. Refs BY <1>1 DEF Referenced
  <2> QED BY <1>1, <2>1, HandlesFrame
<1>2. CASE UNCHANGED vars
  BY <1>1, <1>2 DEF vars, Handles, Locked
<1>3. CASE Change \/ DebounceEnds \/ LockExpires
           \/ \E v \in Changes, on, bypassDebounce \in BOOLEAN : Admit(v, on, bypassDebounce)
  <2>1. UNCHANGED <<queueVars, loopVars, pc>>
    BY <1>3 DEF Change, DebounceEnds, LockExpires, Admit
  <2> QED BY <1>1, <2>1 DEF Handles, Locked
<1>4. ASSUME NEW v \in Changes, Enqueue(v) PROVE Handles'
  <2>1. UNCHANGED <<owner, loopVars, pc>> BY <1>4 DEF Enqueue
  <2>2. Held BY <2>1 DEF Handles, Locked
  <2>3. Refs BY <2>1 DEF Referenced
  <2>4. [change |-> v, attempt |-> 0] \in Job BY JobType
  <2> QED BY <1>4, <2>1, <2>2, <2>3, <2>4, HandlesXadd DEF Enqueue
<1>5. ASSUME NEW a \in Summaries, Summarise(a) PROVE Handles'
  <2>1. /\ UNCHANGED <<queueVars, loopVars>>
        /\ \A w \in Workers : pc'[w] = pc[w]
    BY <1>5, PiAssumption DEF Summarise, Goto
  <2> QED BY <1>1, <2>1 DEF Handles, Locked
<1>6. ASSUME NEW r \in Runners, ComputeStep(r) \/ ComputeThrows(r) PROVE Handles'
  <2>1. UNCHANGED <<queueVars, loopVars>>
    BY <1>6 DEF ComputeStep, ReadHoldings, IncrIngest, DeleteRows, InsertRows, InsertRejected,
         Stage, IncrRevision, FetchStaging, Activate, WriteManifest, Unstage, IncrSeq,
         Publish, Save, ComputeThrows
  <2>2. pc[r] \in ComputePC
    BY <1>6 DEF ComputeStep, ReadHoldings, IncrIngest, DeleteRows, InsertRows, InsertRejected,
         Stage, IncrRevision, FetchStaging, Activate, WriteManifest, Unstage, IncrSeq,
         Publish, Save, ComputeThrows, ComputePC
  <2>3. \E next : Goto(r, next)
    BY <1>6 DEF ComputeStep, ReadHoldings, IncrIngest, DeleteRows, InsertRows, InsertRejected,
         Stage, IncrRevision, FetchStaging, Activate, WriteManifest, Unstage, IncrSeq,
         Publish, Save, ComputeThrows, Fails
  <2>4. \A w \in Workers : w # r => pc'[w] = pc[w]
    BY <2>3 DEF Goto, TypeOK, Runners
  <2>5. r \in Workers => held[r] \in Job BY <2>2 DEF Handles, Locked, LockedPC
  <2>6. Held BY <2>1, <2>4, <2>5 DEF Handles, Locked
  <2> QED BY <1>1, <2>1, <2>6
<1>7. ASSUME NEW w \in Workers,
             \/ BatchDone(w) \/ Bury(w) \/ Boot(w) \/ ClaimThrows(w)
      PROVE  Handles'
  <2>1. UNCHANGED <<queue, owner, job, batch, held>> /\ (UNCHANGED cur \/ cur' = [cur EXCEPT ![w] = 0])
    BY <1>7 DEF BatchDone, Bury, Boot, ClaimThrows
  <2>2. \E next \in {"poll", "release"} :
           /\ Goto(w, next)
           /\ next = "release" => pc[w] = "bury"
    BY <1>7 DEF BatchDone, Bury, Boot, ClaimThrows
  <2>3. Held BY <2>1, <2>2, HeldFrame, PCType DEF Handles, Locked, LockedPC, ComputePC
  <2>4. \A v \in Workers : cur'[v] = 0 \/ cur'[v] = cur[v] BY <2>1 DEF TypeOK
  <2>5. Refs BY <2>1, <2>4 DEF Referenced, Ids
  <2> QED BY <2>1, <2>3, <2>5, HandlesFrame
<1>8. ASSUME NEW w \in Workers, Release(w) \/ Crash(w) \/ LoopThrows(w) PROVE Handles'
  <2>1. /\ UNCHANGED <<queue, owner, job>> /\ Forget(w)
        /\ \A v \in Workers : Range(batch'[v]) \subseteq Range(batch[v])
    <3>1. Range(<<>>) = {} BY DEF Range
    <3> QED BY <1>8, <3>1 DEF Release, Crash, LoopThrows, Reset, TypeOK
  <2>2. \E next \in {"next", "down", "stopped"} : Goto(w, next)
    BY <1>8 DEF Release, Crash, LoopThrows, Reset
  <2>3. \A v \in Workers \ {w} : held'[v] = held[v] BY <2>1, ForgetType
  <2>4. Held BY <2>2, <2>3, HeldFrame, PCType DEF LockedPC, ComputePC
  <2>5. \A v \in Workers : cur'[v] = 0 \/ cur'[v] = cur[v] BY <2>1, ForgetType
  <2>6. Refs BY <2>1, <2>5 DEF Referenced, Ids
  <2> QED BY <2>1, <2>4, <2>6, HandlesFrame
<1>9. ASSUME NEW w \in Workers, ClaimAck(w) \/ Ack(w) \/ FailAck(w) PROVE Handles'
  <2>1. /\ UNCHANGED <<queue, batch, held>> /\ Xack(cur[w])
        /\ cur' = [cur EXCEPT ![w] = 0]
    BY <1>9 DEF ClaimAck, Ack, FailAck
  <2>2. \E next \in {"poll", "release", "bury", "retry"} :
           /\ Goto(w, next)
           /\ next # "poll" => pc[w] \in {"ack", "failAck"}
    BY <1>9 DEF ClaimAck, Ack, FailAck
  <2>3. Held BY <2>1, <2>2, HeldFrame, PCType DEF Handles, Locked, LockedPC, ComputePC
  <2>4. cur[w] \in Ids => Referenced(cur[w]) BY DEF Referenced
  <2>5. \A v \in Workers : cur'[v] # 0 => cur'[v] = cur[v] BY <2>1 DEF TypeOK
  <2> QED BY <2>1, <2>3, <2>4, <2>5, HandlesXack
<1>10. ASSUME NEW w \in Workers, NEW e \in Range(batch[w]), Skip(w, e) \/ Busy(w, e)
       PROVE  Handles'
  <2>1. Turn(w, e) /\ Xack(e.id) /\ UNCHANGED <<queue, cur>>
    BY <1>10 DEF Skip, Busy, Take
  <2>2. CASE Skip(w, e)
    <3>1. UNCHANGED <<pc, held>> BY <2>2 DEF Skip
    <3>2. Held BY <3>1 DEF Handles, Locked
    <3>3. Referenced(e.id) BY DEF Referenced
    <3> QED BY <2>1, <3>2, <3>3, TurnEffect, HandlesXack
  <2>3. CASE Busy(w, e)
    <3>1. Goto(w, "busy") /\ held' = [held EXCEPT ![w] = e.job] BY <2>3 DEF Busy, Take
    <3>2. held'[w] \in Job /\ \A v \in Workers \ {w} : held'[v] = held[v]
      BY <2>1, <3>1, TurnEffect DEF TypeOK
    <3>3. Held BY <3>1, <3>2, HeldFrame, PCType
    <3>4. Referenced(e.id) BY DEF Referenced
    <3> QED BY <2>1, <3>3, <3>4, TurnEffect, HandlesXack
  <2> QED BY <1>10, <2>2, <2>3
<1>11. ASSUME NEW w \in Workers, NEW e \in Range(batch[w]), Acquire(w, e) PROVE Handles'
  <2>1. /\ Turn(w, e) /\ Goto(w, "read") /\ UNCHANGED <<queue, owner, job>>
        /\ held' = [held EXCEPT ![w] = e.job] /\ cur' = [cur EXCEPT ![w] = e.id]
    BY <1>11 DEF Acquire, Take
  <2>2. held'[w] \in Job /\ \A v \in Workers \ {w} : held'[v] = held[v]
    BY <2>1, TurnEffect DEF TypeOK
  <2>3. Held BY <2>1, <2>2, HeldFrame, PCType
  <2>4. ASSUME NEW i \in Ids, Referenced(i)' PROVE Referenced(i)
    <3>1. \A v \in Workers : cur'[v] = i => cur[v] = i \/ e.id = i
      BY <2>1 DEF TypeOK
    <3>2. \A v \in Workers : Range(batch'[v]) \subseteq Range(batch[v])
      BY <2>1, TurnEffect
    <3> QED BY <2>1, <2>4, <3>1, <3>2 DEF Referenced
  <2> QED BY <2>1, <2>3, <2>4, HandlesFrame
<1>12. ASSUME NEW w \in Workers, RequeueBusy(w) \/ Retry(w) PROVE Handles'
  <2>1. held[w] \in Job BY <1>12 DEF RequeueBusy, Retry, Handles, Locked, LockedPC
  <2>2. NextAttempt(held[w]) \in Job BY <2>1, JobType
  <2>3. /\ Xadd(NextAttempt(held[w])) /\ UNCHANGED <<owner, batch>>
        /\ \/ Goto(w, "next") /\ Forget(w)
           \/ Goto(w, "release") /\ UNCHANGED <<cur, held>>
    BY <1>12 DEF RequeueBusy, Retry
  <2>4. Held
    <3>1. CASE Goto(w, "next") /\ Forget(w)
      BY <3>1, HeldFrame, ForgetType, PCType DEF LockedPC, ComputePC
    <3>2. CASE Goto(w, "release") /\ UNCHANGED <<cur, held>>
      BY <2>1, <3>2, HeldFrame, PCType
    <3> QED BY <2>3, <3>1, <3>2
  <2>5. \A v \in Workers : cur'[v] = 0 \/ cur'[v] = cur[v] BY <2>3, ForgetType
  <2>6. Refs BY <2>3, <2>5 DEF Referenced, Ids
  <2> QED BY <2>2, <2>3, <2>4, <2>6, HandlesXadd
<1>13. ASSUME NEW w \in Workers, NEW i \in Ids, Claim(w, i) PROVE Handles'
  <2>1. /\ Xadd(job[i]) /\ owner[i] # Nobody /\ owner' = [owner EXCEPT ![i] = w]
        /\ cur' = [cur EXCEPT ![w] = i] /\ UNCHANGED <<batch, held>> /\ Goto(w, "claimAck")
    BY <1>13 DEF Claim
  <2>2. job[i] \in Job BY <2>1 DEF Handles
  <2>3. Held BY <2>1, HeldFrame, PCType DEF LockedPC, ComputePC
  <2>4. \A k \in Ids : owner'[k] # Nobody => owner[k] # Nobody BY <2>1 DEF TypeOK
  <2>5. \A k \in Ids, v \in Workers : cur'[v] = k => cur[v] = k \/ owner[k] # Nobody
    BY <2>1 DEF TypeOK
  <2>6. Refs BY <2>1, <2>4, <2>5 DEF Referenced
  <2> QED BY <2>1, <2>2, <2>3, <2>4, <2>6, HandlesXadd
<1>14. ASSUME NEW w \in Workers, Read(w) PROVE Handles'
  <2>1. PICK taken \in SUBSET Range(queue) :
           /\ Range(queue') = Range(queue) \ taken
           /\ owner' = [i \in Ids |-> IF i \in taken THEN w ELSE owner[i]]
           /\ \A e \in Range(batch'[w]) : e.id \in taken /\ e.job = job[e.id]
    BY <1>14, ReadEffect
  <2>2. /\ NoRepeat(queue') /\ \A v \in Workers \ {w} : batch'[v] = batch[v]
    BY <1>14, ReadEffect
  <2>3. UNCHANGED <<job, cur, held>> /\ Goto(w, "next") BY <1>14 DEF Read
  <2>4. Held BY <2>3, HeldFrame, PCType DEF LockedPC, ComputePC
  <2>5. Range(queue) \subseteq Ids BY RangeOfSeq DEF TypeOK
  <2>6. ASSUME NEW i \in Ids, Referenced(i)' PROVE Referenced(i) \/ i \in taken
    <3>1. CASE owner'[i] # Nobody BY <2>1, <3>1 DEF Referenced
    <3>2. ASSUME NEW v \in Workers, cur'[v] = i PROVE Referenced(i) BY <2>3, <3>2 DEF Referenced
    <3>3. ASSUME NEW v \in Workers, NEW e \in Range(batch'[v]), e.id = i
          PROVE  Referenced(i) \/ i \in taken
      BY <2>1, <2>2, <3>3 DEF Referenced
    <3> QED BY <2>6, <3>1, <3>2, <3>3 DEF Referenced
  <2>7. \A i \in Range(queue') : ~ Referenced(i)' /\ job'[i] \in Job
    BY <2>1, <2>3, <2>5, <2>6 DEF Handles
  <2>8. \A i \in Ids : owner'[i] # Nobody => job'[i] \in Job
    BY <2>1, <2>3 DEF Handles
  <2> QED BY <2>2, <2>4, <2>7, <2>8 DEF Handles
<1> QED BY <1>2, <1>3, <1>4, <1>5, <1>6, <1>7, <1>8, <1>9, <1>10, <1>11, <1>12, <1>13, <1>14
        DEF Next, AskStep, LoopStep, ClaimStep

LEMMA HandlesAlways == Spec => [](TypeOK /\ Handles)
<1>1. Init => TypeOK /\ Handles
  <2> SUFFICES ASSUME Init PROVE TypeOK /\ Handles
    OBVIOUS
  <2>1. TypeOK
    <3>1. NoWork \in [data : 0 .. MaxChanges, ingest : Nat, rev : Nat, seq : Nat,
                      copy : Payload \cup {Nothing}]
      BY PiAssumption DEF NoWork
    <3>2. <<>> \in Seq(Ids) /\ <<>> \in Seq([id : Ids, job : Job]) BY EmptySeq
    <3>3. /\ pc \in [Runners -> WorkerPC \cup SummaryPC]
          /\ \A w \in Workers : pc[w] = "down"
          /\ \A a \in Summaries : pc[a] = "idle"
      BY PiAssumption DEF Init, Runners, WorkerPC, SummaryPC
    <3>4. /\ \A w \in Workers : pc[w] \in WorkerPC /\ pc[w] # "retry"
          /\ \A a \in Summaries : pc[a] \in SummaryPC
      BY <3>3, PCType DEF SummaryPC
    <3>5. /\ holdings \in 0 .. MaxChanges /\ analysed \in 0 .. MaxChanges
          /\ cur \in [Workers -> 0 .. Slots]
      BY PiAssumption DEF Init
    <3>6. /\ queue \in Seq(Ids) /\ batch \in [Workers -> Seq([id : Ids, job : Job])]
      BY <3>2 DEF Init
    <3>7. work \in [Runners -> [data : 0 .. MaxChanges, ingest : Nat, rev : Nat, seq : Nat,
                                copy : Payload \cup {Nothing}]]
      BY <3>1 DEF Init
    <3> QED BY <3>3, <3>4, <3>5, <3>6, <3>7 DEF Init, TypeOK
  <2>2. \A w \in Workers : pc[w] = "down" BY DEF Init, Runners
  <2>3. Range(queue) = {} /\ NoRepeat(queue) BY DEF Init, Range, NoRepeat
  <2> QED BY <2>1, <2>2, <2>3 DEF Init, Handles, Locked, LockedPC, ComputePC
<1>2. TypeOK /\ Handles /\ [Next]_vars => (TypeOK /\ Handles)'
  <2> SUFFICES ASSUME TypeOK, Handles, [Next]_vars PROVE TypeOK' /\ Handles'
    OBVIOUS
  <2>1. ASSUME UNCHANGED vars PROVE TypeOK'
    <3>1. UNCHANGED <<holdings, request, debounce, queue, owner, job, dead, lock, ingest,
                      revision, wsSeq, rows, staging, active, manifest, delivered, pc, batch,
                      cur, held, work, skipped, dropped, lapsed, analysed, throws, crashes, stops>>
      BY <2>1 DEF vars, askVars, queueVars, publicVars, inputVars, loopVars, history
    <3> QED BY <3>1 DEF TypeOK
  <2>2. ASSUME AskStep \/ LockExpires \/ \E a \in Summaries : Summarise(a) PROVE TypeOK'
    BY <2>2, AskTypes
  <2>3. ASSUME NEW w \in Workers, \/ LoopStep(w) \/ ClaimStep(w) \/ ClaimThrows(w) \/ Boot(w)
        PROVE  TypeOK'
    BY <2>3, LoopTypes
  <2>4. ASSUME NEW w \in Workers, Crash(w) \/ LoopThrows(w) PROVE TypeOK'
    BY <2>4, FaultTypes
  <2>5. ASSUME NEW r \in Runners, ComputeStep(r) \/ ComputeThrows(r) PROVE TypeOK'
    BY <2>5, ComputeTypes
  <2>6. TypeOK' BY <2>1, <2>2, <2>3, <2>4, <2>5 DEF Next
  <2> QED BY <2>6, HandlesStep
<1> QED BY <1>1, <1>2, PTL DEF Spec

\* Every variable stays in its type: a worker inside a computation has a job
\* in hand, and one about to retry has an attempt left.
THEOREM TypeCorrect == Spec => []TypeOK
    BY HandlesAlways, PTL

---------------------------------------------------------------------------
(* The user's lock.                                                         *)

\* A worker between SET NX and the DEL of the lock holds it, unless its TTL
\* ended under it.
LockHeld == \A w \in Workers : Locked(w) /\ w \notin lapsed => lock = w

\* What a step does to the lock, to the workers whose lock ended and to those
\* that hold it.
LEMMA LockStep ==
    ASSUME TypeOK, [Next]_vars
    PROVE  \/ /\ lock' = lock /\ lapsed' \subseteq lapsed
              /\ \A w \in Workers : /\ Locked(w)' => Locked(w)
                                    /\ Locked(w)' /\ w \notin lapsed' => w \notin lapsed
           \/ \E w \in Workers : \E e \in Range(batch[w]) :
                 /\ Acquire(w, e) /\ lock = Nobody /\ lock' = w /\ lapsed' = lapsed
                 /\ \A v \in Workers \ {w} : Locked(v)' => Locked(v)
           \/ \E w \in Workers :
                 /\ Unlock(w) /\ Locked(w) /\ ~ Locked(w)'
                 /\ \A v \in Workers \ {w} : Locked(v)' => Locked(v)
           \/ /\ LockExpires
              /\ \A w \in Workers : Locked(w)' <=> Locked(w)
<1> USE DEF askVars, queueVars, publicVars, inputVars, loopVars, history
<1>1. CASE UNCHANGED vars BY <1>1 DEF vars, Locked
<1>2. CASE AskStep
  <2>1. UNCHANGED <<lock, lapsed, pc>>
    BY <1>2 DEF AskStep, Change, DebounceEnds, Admit, Enqueue
  <2> QED BY <2>1 DEF Locked
<1>3. CASE LockExpires BY <1>3 DEF LockExpires, Locked
<1>4. ASSUME NEW a \in Summaries, Summarise(a)
      PROVE  lock' = lock /\ lapsed' = lapsed /\ \A w \in Workers : Locked(w)' => Locked(w)
  BY <1>4, PiAssumption DEF Summarise, Goto, Locked
<1>5. ASSUME NEW r \in Runners, ComputeStep(r) \/ ComputeThrows(r)
      PROVE  lock' = lock /\ lapsed' = lapsed /\ \A w \in Workers : Locked(w)' => Locked(w)
  <2>1. lock' = lock /\ lapsed' = lapsed /\ pc[r] \in ComputePC
    BY <1>5 DEF ComputeStep, ReadHoldings, IncrIngest, DeleteRows, InsertRows, InsertRejected,
         Stage, IncrRevision, FetchStaging, Activate, WriteManifest, Unstage, IncrSeq,
         Publish, Save, ComputeThrows, ComputePC
  <2>2. \E next : Goto(r, next)
    BY <1>5 DEF ComputeStep, ReadHoldings, IncrIngest, DeleteRows, InsertRows, InsertRejected,
         Stage, IncrRevision, FetchStaging, Activate, WriteManifest, Unstage, IncrSeq,
         Publish, Save, ComputeThrows, Fails
  <2>3. \A w \in Workers : w # r => pc'[w] = pc[w] BY <2>2 DEF Goto, TypeOK, Runners
  <2> QED BY <2>1, <2>3 DEF Locked, LockedPC
<1>6. ASSUME NEW w \in Workers,
             \/ ClaimAck(w) \/ Read(w) \/ BatchDone(w) \/ RequeueBusy(w) \/ ClaimStep(w)
             \/ ClaimThrows(w) \/ Boot(w) \/ \E e \in Range(batch[w]) : Skip(w, e) \/ Busy(w, e)
      PROVE  lock' = lock /\ lapsed' = lapsed /\ \A v \in Workers : Locked(v)' => Locked(v)
  <2>1. lock' = lock /\ lapsed' = lapsed
    BY <1>6 DEF ClaimAck, Read, BatchDone, RequeueBusy, ClaimStep, Claim, ClaimThrows, Boot, Skip, Busy
  <2>2. UNCHANGED pc \/ \E next \in {"poll", "next", "claimAck", "busy"} : Goto(w, next)
    BY <1>6 DEF ClaimAck, Read, BatchDone, RequeueBusy, ClaimStep, Claim, ClaimThrows, Boot, Skip, Busy
  <2> QED BY <2>1, <2>2, LoopGotoType, PCType DEF Locked, LockedPC, ComputePC
<1>7. ASSUME NEW w \in Workers, Ack(w) \/ FailAck(w) \/ Bury(w) \/ Retry(w)
      PROVE  lock' = lock /\ lapsed' = lapsed /\ \A v \in Workers : Locked(v)' => Locked(v)
  <2>1. lock' = lock /\ lapsed' = lapsed /\ Locked(w) /\ \E next : Goto(w, next)
    BY <1>7 DEF Ack, FailAck, Bury, Retry, Locked, LockedPC
  <2>2. \A v \in Workers : v # w => pc'[v] = pc[v] BY <2>1 DEF Goto, TypeOK, Runners
  <2> QED BY <2>1, <2>2 DEF Locked
<1>8. ASSUME NEW w \in Workers, NEW e \in Range(batch[w]), Acquire(w, e)
      PROVE  /\ lock = Nobody /\ lock' = w /\ lapsed' = lapsed
             /\ \A v \in Workers \ {w} : Locked(v)' => Locked(v)
  BY <1>8, LoopGotoType, PCType DEF Acquire, Locked
<1>9. ASSUME NEW w \in Workers, Release(w)
      PROVE  Unlock(w) /\ Locked(w) /\ ~ Locked(w)' /\ \A v \in Workers \ {w} : Locked(v)' => Locked(v)
  <2>1. Goto(w, "next") /\ Unlock(w) /\ Locked(w) BY <1>9 DEF Release, Locked, LockedPC
  <2> QED BY <2>1, LoopGotoType, PCType DEF Locked, LockedPC, ComputePC
<1>10. ASSUME NEW w \in Workers, Crash(w) \/ LoopThrows(w)
       PROVE  /\ (Unlock(w) /\ Locked(w)) \/ (lock' = lock /\ lapsed' = lapsed \ {w})
              /\ ~ Locked(w)' /\ \A v \in Workers \ {w} : Locked(v)' => Locked(v)
  <2>1. Goto(w, "down") \/ Goto(w, "stopped") BY <1>10 DEF Crash, LoopThrows, Reset
  <2>2. (Unlock(w) /\ Locked(w)) \/ (lock' = lock /\ lapsed' = lapsed \ {w})
    BY <1>10 DEF Crash, LoopThrows, Locked, LockedPC
  <2> QED BY <2>1, <2>2, LoopGotoType, PCType DEF Locked, LockedPC, ComputePC
<1>11. CASE \E a \in Summaries : Summarise(a) BY <1>4, <1>11
<1>12. CASE \E r \in Runners : ComputeStep(r) \/ ComputeThrows(r) BY <1>5, <1>12
<1>13. CASE \E w \in Workers : LoopStep(w) \/ ClaimStep(w) \/ ClaimThrows(w) \/ Boot(w)
  <2>1. PICK w \in Workers : LoopStep(w) \/ ClaimStep(w) \/ ClaimThrows(w) \/ Boot(w)
    BY <1>13
  <2> QED BY <1>6, <1>7, <1>8, <1>9, <2>1 DEF LoopStep
<1>14. CASE \E w \in Workers : Crash(w) \/ LoopThrows(w) BY <1>10, <1>14
<1> QED BY <1>1, <1>2, <1>3, <1>11, <1>12, <1>13, <1>14 DEF Next

LEMMA LockHeldStep ==
    ASSUME TypeOK, LockHeld, [Next]_vars
    PROVE  LockHeld'
<1>1. ASSUME lock' = lock,
             \A w \in Workers : /\ Locked(w)' => Locked(w)
                                /\ Locked(w)' /\ w \notin lapsed' => w \notin lapsed
      PROVE  LockHeld'
  BY <1>1 DEF LockHeld
<1>2. ASSUME NEW w \in Workers, lock = Nobody, lock' = w, lapsed' = lapsed,
             \A v \in Workers \ {w} : Locked(v)' => Locked(v)
      PROVE  LockHeld'
  BY <1>2, PiAssumption DEF LockHeld
<1>3. ASSUME NEW w \in Workers, Unlock(w), ~ Locked(w)',
             \A v \in Workers \ {w} : Locked(v)' => Locked(v)
      PROVE  LockHeld'
  BY <1>3, PiAssumption DEF LockHeld, Unlock
<1>4. ASSUME LockExpires, \A w \in Workers : Locked(w)' <=> Locked(w)
      PROVE  LockHeld'
  BY <1>4, PiAssumption DEF LockHeld, LockExpires, TypeOK
<1> QED BY <1>1, <1>2, <1>3, <1>4, LockStep

\* A user's analytics are computed by one worker at a time while no lock TTL
\* ends under its owner, although the release deletes the key unseen: a loser of
\* SET NX never reaches the finally block of piRecomputeWorker.
THEOREM OneComputationAtATime == Spec => []OneComputation
<1>1. Init => LockHeld
  BY PiAssumption DEF Init, LockHeld, Locked, LockedPC, ComputePC, Runners
<1>2. TypeOK /\ LockHeld /\ [Next]_vars => LockHeld' BY LockHeldStep
<1>3. LockHeld => OneComputation BY DEF LockHeld, OneComputation
<1> QED BY <1>1, <1>2, <1>3, TypeCorrect, PTL DEF Spec

---------------------------------------------------------------------------
(* No accepted request is lost.                                             *)

\* What a step puts into the stream: a request, or a job a worker adds again.
LEMMA JobsStep ==
    ASSUME TypeOK, Handles, [Next]_vars
    PROVE  \A i \in Ids :
              \/ job'[i] \in {job[i], NoJob}
              \/ /\ ~ Referenced(i) /\ i \notin Range(queue)
                 /\ \/ \E v \in Changes : request[v] = "admitted" /\ job'[i].change = v
                    \/ \E w \in Workers : job'[i].change = held[w].change
                    \/ \E k \in Ids : job'[i].change = job[k].change
<1> USE DEF askVars, queueVars, publicVars, inputVars, loopVars, history
<1>1. ASSUME NEW j \in Job, Xadd(j),
             \/ \E v \in Changes : request[v] = "admitted" /\ j.change = v
             \/ \E w \in Workers : j.change = held[w].change
             \/ \E k \in Ids : j.change = job[k].change,
             NEW i \in Ids
      PROVE  \/ job'[i] \in {job[i], NoJob}
             \/ /\ ~ Referenced(i) /\ i \notin Range(queue)
                /\ \/ \E v \in Changes : request[v] = "admitted" /\ job'[i].change = v
                   \/ \E w \in Workers : job'[i].change = held[w].change
                   \/ \E k \in Ids : job'[i].change = job[k].change
  <2>1. PICK n \in Ids : /\ n \notin Range(queue) /\ ~ Referenced(n)
                         /\ job' = [job EXCEPT ![n] = j]
    BY <1>1, XaddEffect
  <2>2. job'[i] = IF i = n THEN j ELSE job[i] BY <2>1 DEF TypeOK
  <2> QED BY <1>1, <2>1, <2>2
<1>2. CASE UNCHANGED job BY <1>2
<1>3. CASE \E n : Xack(n) BY <1>3 DEF Xack, TypeOK
<1>4. ASSUME NEW v \in Changes, Enqueue(v)
      PROVE  \E j \in Job : Xadd(j) /\ request[v] = "admitted" /\ j.change = v
  <2>1. [change |-> v, attempt |-> 0] \in Job BY JobType
  <2> QED BY <1>4, <2>1 DEF Enqueue
<1>5. ASSUME NEW w \in Workers, RequeueBusy(w) \/ Retry(w)
      PROVE  \E j \in Job : Xadd(j) /\ j.change = held[w].change
  <2>1. held[w] \in Job BY <1>5 DEF RequeueBusy, Retry, Handles, Locked, LockedPC
  <2>2. NextAttempt(held[w]) \in Job /\ NextAttempt(held[w]).change = held[w].change
    BY <2>1, JobType
  <2> QED BY <1>5, <2>2 DEF RequeueBusy, Retry
<1>6. ASSUME NEW w \in Workers, NEW i \in Ids, Claim(w, i)
      PROVE  \E j \in Job : Xadd(j) /\ j.change = job[i].change
  BY <1>6 DEF Claim, Handles
<1>7. CASE AskStep
  <2>1. CASE \E v \in Changes : Enqueue(v) BY <1>1, <1>4, <2>1
  <2>2. CASE UNCHANGED job BY <1>2, <2>2
  <2> QED BY <1>7, <2>1, <2>2 DEF AskStep, Change, DebounceEnds, Admit
<1>8. CASE LockExpires \/ (\E a \in Summaries : Summarise(a)) \/ UNCHANGED vars
  BY <1>2, <1>8 DEF LockExpires, Summarise, vars
<1>9. CASE \E r \in Runners : ComputeStep(r) \/ ComputeThrows(r)
  <2>1. UNCHANGED job
    BY <1>9 DEF ComputeStep, ReadHoldings, IncrIngest, DeleteRows, InsertRows, InsertRejected,
         Stage, IncrRevision, FetchStaging, Activate, WriteManifest, Unstage, IncrSeq,
         Publish, Save, ComputeThrows
  <2> QED BY <1>2, <2>1
<1>10. ASSUME NEW w \in Workers,
              \/ Boot(w) \/ LoopStep(w) \/ ClaimStep(w)
              \/ ClaimThrows(w) \/ Crash(w) \/ LoopThrows(w)
       PROVE  \/ UNCHANGED job \/ (\E n : Xack(n))
              \/ RequeueBusy(w) \/ Retry(w) \/ \E i \in Ids : Claim(w, i)
  BY <1>10 DEF Boot, LoopStep, ClaimStep, ClaimThrows, Crash, LoopThrows, ClaimAck, Read,
               BatchDone, Skip, Acquire, Busy, Ack, FailAck, Bury, Release
<1>11. CASE \E w \in Workers : \/ Boot(w) \/ LoopStep(w) \/ ClaimStep(w)
                               \/ ClaimThrows(w) \/ Crash(w) \/ LoopThrows(w)
  <2>1. PICK w \in Workers : \/ UNCHANGED job \/ (\E n : Xack(n))
                             \/ RequeueBusy(w) \/ Retry(w) \/ \E i \in Ids : Claim(w, i)
    BY <1>10, <1>11
  <2>2. CASE RequeueBusy(w) \/ Retry(w) BY <1>1, <1>5, <2>2
  <2>3. CASE \E i \in Ids : Claim(w, i) BY <1>1, <1>6, <2>3
  <2> QED BY <1>2, <1>3, <2>1, <2>2, <2>3
<1> QED BY <1>7, <1>8, <1>9, <1>11 DEF Next

\* A worker's loop has no hand in another worker's state.
LEMMA OthersFrame ==
    ASSUME TypeOK, NEW v \in Workers, NEW w \in Workers \ {v},
           \/ Boot(w) \/ LoopStep(w) \/ ClaimStep(w)
           \/ ClaimThrows(w) \/ Crash(w) \/ LoopThrows(w)
    PROVE  batch'[v] = batch[v] /\ held'[v] = held[v] /\ cur'[v] = cur[v] /\ pc'[v] = pc[v]
<1> USE DEF askVars, queueVars, publicVars, inputVars, loopVars, history
<1>1. CASE Boot(w) \/ ClaimStep(w) \/ ClaimAck(w) \/ BatchDone(w) \/ Ack(w) \/ FailAck(w)
  BY <1>1 DEF Boot, ClaimStep, Claim, ClaimAck, BatchDone, Ack, FailAck, Goto, TypeOK, Runners
<1>2. CASE Bury(w) \/ Retry(w) \/ Read(w) \/ ClaimThrows(w)
  BY <1>2 DEF Bury, Retry, Read, ClaimThrows, Goto, TypeOK, Runners
<1>3. CASE RequeueBusy(w) \/ Release(w)
  BY <1>3 DEF RequeueBusy, Release, Forget, Goto, TypeOK, Runners
<1>4. CASE Crash(w) \/ LoopThrows(w)
  <2>1. \E next : Reset(w, next) BY <1>4 DEF Crash, LoopThrows
  <2> QED BY <2>1 DEF Reset, Forget, Goto, TypeOK, Runners
<1>5. ASSUME NEW e \in Range(batch[w]), Skip(w, e) \/ Acquire(w, e) \/ Busy(w, e)
      PROVE  batch'[v] = batch[v] /\ held'[v] = held[v] /\ cur'[v] = cur[v] /\ pc'[v] = pc[v]
  BY <1>5 DEF Skip, Acquire, Busy, Take, Turn, Goto, TypeOK, Runners
<1> QED BY <1>1, <1>2, <1>3, <1>4, <1>5 DEF LoopStep

\* What a step does to the payloads in a worker's hands.
LEMMA HandsStep ==
    ASSUME TypeOK, Handles, [Next]_vars, NEW v \in Workers
    PROVE  /\ \A e \in Range(batch'[v]) :
                 \/ e \in Range(batch[v])
                 \/ e.id \in Range(queue) /\ e.job = job[e.id] /\ job' = job
           /\ \/ held'[v] \in {held[v], NoJob}
              \/ \E e \in Range(batch[v]) : held'[v] = e.job
           /\ Locked(v)' =>
                 \/ Locked(v) /\ held'[v] = held[v] /\ cur'[v] \in {0, cur[v]}
                 \/ \E e \in Range(batch[v]) :
                       /\ pc'[v] = "read" /\ cur'[v] = e.id /\ held'[v] = e.job
                       /\ job' = job
<1> USE DEF askVars, queueVars, publicVars, inputVars, loopVars, history
<1>1. Locked(v)' => Locked(v) \/ \E e \in Range(batch[v]) : Acquire(v, e)
  BY LockStep
<1>2. ASSUME NEW e \in Range(batch[v]), Acquire(v, e)
      PROVE  /\ Range(batch'[v]) \subseteq Range(batch[v])
             /\ pc'[v] = "read" /\ cur'[v] = e.id /\ held'[v] = e.job /\ job' = job
  BY <1>2, TurnEffect, LoopGotoType, PCType DEF Acquire, Take, TypeOK
<1>3. CASE /\ Range(batch'[v]) \subseteq Range(batch[v])
           /\ held'[v] = held[v] /\ cur'[v] \in {0, cur[v]}
           /\ Locked(v)' => Locked(v)
  BY <1>3
<1>4. CASE /\ Range(batch'[v]) \subseteq Range(batch[v])
           /\ held'[v] = NoJob /\ ~ Locked(v)'
  BY <1>4
<1>5. CASE UNCHANGED <<batch, held, cur>> /\ (Locked(v)' => Locked(v)) BY <1>3, <1>5
<1>6. CASE UNCHANGED vars BY <1>5, <1>6 DEF vars, Locked
<1>7. CASE AskStep
  <2>1. UNCHANGED <<batch, held, cur, pc>>
    BY <1>7 DEF AskStep, Change, DebounceEnds, Admit, Enqueue
  <2> QED BY <1>5, <2>1 DEF Locked
<1>8. CASE LockExpires BY <1>5, <1>8 DEF LockExpires, Locked
<1>9. CASE \E a \in Summaries : Summarise(a)
  BY <1>5, <1>9, PiAssumption DEF Summarise, Goto, Locked
<1>10. CASE \E r \in Runners : ComputeStep(r) \/ ComputeThrows(r)
  <2>1. PICK r \in Runners : ComputeStep(r) \/ ComputeThrows(r) BY <1>10
  <2>2. UNCHANGED <<batch, held, cur>> /\ pc[r] \in ComputePC
    BY <2>1 DEF ComputeStep, ReadHoldings, IncrIngest, DeleteRows, InsertRows, InsertRejected,
         Stage, IncrRevision, FetchStaging, Activate, WriteManifest, Unstage, IncrSeq,
         Publish, Save, ComputeThrows, ComputePC
  <2>3. \E next : Goto(r, next)
    BY <2>1 DEF ComputeStep, ReadHoldings, IncrIngest, DeleteRows, InsertRows, InsertRejected,
         Stage, IncrRevision, FetchStaging, Activate, WriteManifest, Unstage, IncrSeq,
         Publish, Save, ComputeThrows, Fails
  <2>4. v # r => pc'[v] = pc[v] BY <2>3 DEF Goto, TypeOK, Runners
  <2>5. Locked(v)' => Locked(v) BY <2>2, <2>4 DEF Locked, LockedPC
  <2> QED BY <1>5, <2>2, <2>5
<1>11. ASSUME NEW w \in Workers \ {v},
              \/ Boot(w) \/ LoopStep(w) \/ ClaimStep(w)
              \/ ClaimThrows(w) \/ Crash(w) \/ LoopThrows(w)
       PROVE  batch'[v] = batch[v] /\ held'[v] = held[v] /\ cur'[v] = cur[v] /\ pc'[v] = pc[v]
  BY <1>11, OthersFrame
<1>12. CASE \E w \in Workers \ {v} : \/ Boot(w) \/ LoopStep(w) \/ ClaimStep(w)
                                     \/ ClaimThrows(w) \/ Crash(w) \/ LoopThrows(w)
  BY <1>3, <1>11, <1>12 DEF Locked
<1>13. CASE Boot(v) \/ BatchDone(v) \/ Bury(v) \/ ClaimThrows(v) \/ ClaimStep(v)
            \/ ClaimAck(v) \/ Ack(v) \/ FailAck(v) \/ Retry(v)
  <2>1. UNCHANGED <<batch, held>> /\ (Locked(v)' => cur'[v] \in {0, cur[v]})
    <3>1. CASE ClaimStep(v)
      <4>1. Goto(v, "claimAck") /\ UNCHANGED <<batch, held>> BY <3>1 DEF ClaimStep, Claim
      <4> QED BY <4>1, LoopGotoType, PCType DEF Locked, LockedPC, ComputePC
    <3>2. CASE Boot(v) \/ BatchDone(v) \/ Bury(v) \/ Retry(v)
      BY <3>2 DEF Boot, BatchDone, Bury, Retry
    <3>3. CASE ClaimThrows(v) \/ ClaimAck(v) \/ Ack(v) \/ FailAck(v)
      BY <3>3 DEF ClaimThrows, ClaimAck, Ack, FailAck, TypeOK
    <3> QED BY <1>13, <3>1, <3>2, <3>3
  <2>2. Locked(v)' => Locked(v)
    <3>1. ~ \E e \in Range(batch[v]) : Acquire(v, e)
      BY <1>13 DEF Boot, BatchDone, Bury, ClaimThrows, ClaimStep, Claim, ClaimAck, Ack, FailAck,
                   Retry, Acquire, Take, Turn, TypeOK
    <3> QED BY <1>1, <3>1
  <2> QED BY <2>1, <2>2
<1>14. CASE Release(v) \/ RequeueBusy(v) \/ Crash(v) \/ LoopThrows(v)
  <2>1. Forget(v) /\ Range(batch'[v]) \subseteq Range(batch[v])
    <3>1. Range(<<>>) = {} BY DEF Range
    <3> QED BY <1>14, <3>1 DEF Release, RequeueBusy, Crash, LoopThrows, Reset, TypeOK
  <2>2. \E next \in {"next", "down", "stopped"} : Goto(v, next)
    BY <1>14 DEF Release, RequeueBusy, Crash, LoopThrows, Reset
  <2>3. ~ Locked(v)' BY <2>2, LoopGotoType, PCType DEF Locked, LockedPC, ComputePC
  <2> QED BY <1>4, <2>1, <2>3, ForgetType
<1>15. ASSUME NEW e \in Range(batch[v]), Skip(v, e) PROVE UNCHANGED <<held, cur, pc>> /\ Turn(v, e)
  BY <1>15 DEF Skip
<1>16. ASSUME NEW e \in Range(batch[v]), Busy(v, e)
       PROVE  Turn(v, e) /\ held'[v] = e.job /\ ~ Locked(v)'
  <2>1. Turn(v, e) /\ held'[v] = e.job /\ Goto(v, "busy") BY <1>16 DEF Busy, Take, TypeOK
  <2>2. "busy" \in WorkerPC /\ "busy" \notin LockedPC BY DEF WorkerPC, LockedPC, ComputePC
  <2>3. pc'[v] = "busy" BY <2>1, <2>2, LoopGotoType
  <2> QED BY <2>1, <2>2, <2>3 DEF Locked
<1>17. CASE Read(v)
  <2>1. PICK taken \in SUBSET Range(queue) :
           \A e \in Range(batch'[v]) : e.id \in taken /\ e.job = job[e.id]
    BY <1>17, ReadEffect
  <2>2. UNCHANGED <<job, held>> /\ Goto(v, "next") BY <1>17 DEF Read
  <2>3. ~ Locked(v)' BY <2>2, LoopGotoType, PCType DEF Locked, LockedPC, ComputePC
  <2> QED BY <2>1, <2>2, <2>3
<1>18. CASE \E e \in Range(batch[v]) : Skip(v, e) BY <1>3, <1>15, <1>18, TurnEffect DEF Locked
<1>19. CASE \E e \in Range(batch[v]) : Busy(v, e) BY <1>16, <1>19, TurnEffect
<1>20. CASE \E e \in Range(batch[v]) : Acquire(v, e) BY <1>2, <1>20
<1> QED BY <1>6, <1>7, <1>8, <1>9, <1>10, <1>12, <1>13, <1>14, <1>17, <1>18, <1>19, <1>20
        DEF Next, LoopStep

\* An entry in hand, acknowledged or not, is the one that was read.
Traced ==
    /\ \A w \in Workers : \A e \in Range(batch[w]) : job[e.id] \in {e.job, NoJob}
    /\ \A w \in Workers : Locked(w) /\ cur[w] # 0 => job[cur[w]] \in {held[w], NoJob}

LEMMA TracedStep ==
    ASSUME TypeOK, Handles, Traced, [Next]_vars
    PROVE  Traced'
<1>1. \A i \in Ids : Referenced(i) => job'[i] \in {job[i], NoJob} BY JobsStep
<1>2. ASSUME NEW w \in Workers, NEW e \in Range(batch'[w])
      PROVE  job'[e.id] \in {e.job, NoJob}
  <2>1. CASE e \in Range(batch[w])
    <3>1. job[e.id] \in {e.job, NoJob} BY <2>1 DEF Traced
    <3>2. batch[w] \in Seq([id : Ids, job : Job]) BY DEF TypeOK
    <3>3. e \in [id : Ids, job : Job] BY <2>1, <3>2, RangeOfSeq
    <3>4. e.id \in Ids BY <3>3
    <3>5. Referenced(e.id) BY <2>1 DEF Referenced
    <3> QED BY <1>1, <3>1, <3>4, <3>5
  <2>2. CASE e.job = job[e.id] /\ job' = job BY <2>2
  <2> QED BY <2>1, <2>2, HandsStep
<1>3. ASSUME NEW w \in Workers, Locked(w)', cur'[w] # 0
      PROVE  job'[cur'[w]] \in {held'[w], NoJob}
  <2>1. CASE Locked(w) /\ held'[w] = held[w] /\ cur'[w] \in {0, cur[w]}
    <3>1. cur[w] # 0 /\ cur'[w] = cur[w] BY <1>3, <2>1
    <3>2. job[cur[w]] \in {held[w], NoJob} BY <2>1, <3>1 DEF Traced
    <3>3. cur[w] \in Ids /\ Referenced(cur[w]) BY <3>1, PiAssumption DEF TypeOK, Ids, Referenced
    <3>4. job'[cur[w]] \in {job[cur[w]], NoJob} BY <1>1, <3>3
    <3> QED BY <2>1, <3>1, <3>2, <3>4
  <2>2. CASE \E e \in Range(batch[w]) : cur'[w] = e.id /\ held'[w] = e.job /\ job' = job
    BY <2>2 DEF Traced
  <2> QED BY <1>3, <2>1, <2>2, HandsStep
<1> QED BY <1>2, <1>3 DEF Traced

\* An entry that waits in the stream or is pending for a consumer.
Live(i) == i \in Range(queue) \/ owner[i] # Nobody

\* Its job leaves the stream only when a worker acknowledges it.
LEMMA EntryStep ==
    ASSUME TypeOK, Handles, [Next]_vars, NEW i \in Ids, Live(i)
    PROVE  \/ job'[i] = job[i] /\ Live(i)'
           \/ \E w \in Workers : (ClaimAck(w) \/ Ack(w) \/ FailAck(w)) /\ cur[w] = i
           \/ \E w \in Workers : \E e \in Range(batch[w]) : (Skip(w, e) \/ Busy(w, e)) /\ e.id = i
<1> USE DEF askVars, queueVars, publicVars, inputVars, loopVars, history
<1>1. ASSUME NEW j \in Job, Xadd(j),
             \/ owner' = owner
             \/ \E k \in Ids, w \in Workers : owner' = [owner EXCEPT ![k] = w]
      PROVE  job'[i] = job[i] /\ Live(i)'
  <2>1. PICK n \in Ids : /\ n \notin Range(queue) /\ ~ Referenced(n)
                         /\ job' = [job EXCEPT ![n] = j]
                         /\ Range(queue') = Range(queue) \cup {n}
    BY <1>1, XaddEffect
  <2>2. n # i BY <2>1 DEF Live, Referenced
  <2>3. job'[i] = job[i] BY <2>1, <2>2 DEF TypeOK
  <2>4. owner[i] # Nobody => owner'[i] # Nobody BY <1>1, PiAssumption DEF TypeOK
  <2> QED BY <2>1, <2>3, <2>4 DEF Live
<1>2. CASE UNCHANGED <<queue, owner, job>> BY <1>2 DEF Live
<1>3. CASE AskStep
  <2>1. ASSUME NEW v \in Changes, Enqueue(v) PROVE job'[i] = job[i] /\ Live(i)'
    <3>1. [change |-> v, attempt |-> 0] \in Job BY JobType
    <3> QED BY <1>1, <2>1, <3>1 DEF Enqueue
  <2>2. CASE ~ \E v \in Changes : Enqueue(v)
    BY <1>2, <1>3, <2>2 DEF AskStep, Change, DebounceEnds, Admit
  <2> QED BY <2>1, <2>2
<1>4. CASE LockExpires \/ (\E a \in Summaries : Summarise(a)) \/ UNCHANGED vars
  BY <1>2, <1>4 DEF LockExpires, Summarise, vars
<1>5. CASE \E r \in Runners : ComputeStep(r) \/ ComputeThrows(r)
  <2>1. UNCHANGED <<queue, owner, job>>
    BY <1>5 DEF ComputeStep, ReadHoldings, IncrIngest, DeleteRows, InsertRows, InsertRejected,
         Stage, IncrRevision, FetchStaging, Activate, WriteManifest, Unstage, IncrSeq,
         Publish, Save, ComputeThrows
  <2> QED BY <1>2, <2>1
<1>6. ASSUME NEW w \in Workers, RequeueBusy(w) \/ Retry(w)
      PROVE  job'[i] = job[i] /\ Live(i)'
  <2>1. held[w] \in Job BY <1>6 DEF RequeueBusy, Retry, Handles, Locked, LockedPC
  <2>2. NextAttempt(held[w]) \in Job BY <2>1, JobType
  <2> QED BY <1>1, <1>6, <2>2 DEF RequeueBusy, Retry
<1>7. ASSUME NEW w \in Workers, NEW k \in Ids, Claim(w, k)
      PROVE  job'[i] = job[i] /\ Live(i)'
  <2>1. Xadd(job[k]) /\ owner[k] # Nobody /\ owner' = [owner EXCEPT ![k] = w]
    BY <1>7 DEF Claim
  <2>2. job[k] \in Job BY <2>1 DEF Handles
  <2> QED BY <1>1, <2>1, <2>2
<1>8. ASSUME NEW w \in Workers, Read(w) PROVE job'[i] = job[i] /\ Live(i)'
  <2>1. PICK taken \in SUBSET Range(queue) :
           /\ Range(queue') = Range(queue) \ taken
           /\ owner' = [k \in Ids |-> IF k \in taken THEN w ELSE owner[k]]
    BY <1>8, ReadEffect
  <2>2. job' = job BY <1>8 DEF Read
  <2>3. CASE i \in taken BY <2>1, <2>2, <2>3, PiAssumption DEF Live
  <2>4. CASE i \notin taken BY <2>1, <2>2, <2>4 DEF Live
  <2> QED BY <2>3, <2>4
<1>9. ASSUME NEW w \in Workers, ClaimAck(w) \/ Ack(w) \/ FailAck(w), cur[w] # i
      PROVE  job'[i] = job[i] /\ Live(i)'
  <2>1. queue' = queue /\ Xack(cur[w]) BY <1>9 DEF ClaimAck, Ack, FailAck
  <2> QED BY <1>9, <2>1 DEF Xack, Live, TypeOK
<1>10. ASSUME NEW w \in Workers, NEW e \in Range(batch[w]), Skip(w, e) \/ Busy(w, e), e.id # i
       PROVE  job'[i] = job[i] /\ Live(i)'
  <2>1. queue' = queue /\ Xack(e.id) BY <1>10 DEF Skip, Busy
  <2> QED BY <1>10, <2>1 DEF Xack, Live, TypeOK
<1>11. ASSUME NEW w \in Workers, Boot(w) \/ BatchDone(w) \/ Bury(w) \/ Release(w) \/ ClaimThrows(w)
                                 \/ Crash(w) \/ LoopThrows(w)
       PROVE  UNCHANGED <<queue, owner, job>>
  BY <1>11 DEF Boot, BatchDone, Bury, Release, ClaimThrows, Crash, LoopThrows
<1>12. ASSUME NEW w \in Workers, NEW e \in Range(batch[w]), Acquire(w, e)
       PROVE  UNCHANGED <<queue, owner, job>>
  BY <1>12 DEF Acquire
<1> QED BY <1>2, <1>3, <1>4, <1>5, <1>6, <1>7, <1>8, <1>9, <1>10, <1>11, <1>12
        DEF Next, LoopStep, ClaimStep

\* The steps that touch what settles a request, and no other does.
LEMMA RecordsStep ==
    ASSUME TypeOK, [Next]_vars
    PROVE  \/ UNCHANGED <<holdings, request, analysed, dead, skipped, dropped>>
           \/ AskStep /\ UNCHANGED <<analysed, dead, skipped, dropped>>
           \/ (\E r \in Runners : WriteManifest(r)) /\ UNCHANGED <<holdings, request, dead, skipped, dropped>>
           \/ /\ \E w \in Workers : \/ Bury(w) \/ Crash(w) \/ LoopThrows(w)
                                    \/ \E e \in Range(batch[w]) : Skip(w, e)
              /\ UNCHANGED <<holdings, request, analysed>>
<1> USE DEF askVars, queueVars, publicVars, inputVars, loopVars, history
<1>1. CASE AskStep
  BY <1>1 DEF AskStep, Change, DebounceEnds, Admit, Enqueue
<1>2. CASE LockExpires \/ (\E a \in Summaries : Summarise(a)) \/ UNCHANGED vars
  BY <1>2 DEF LockExpires, Summarise, vars
<1>3. CASE \E r \in Runners : ComputeStep(r) \/ ComputeThrows(r)
  <2>1. CASE \E r \in Runners : WriteManifest(r) BY <2>1 DEF WriteManifest
  <2>2. CASE ~ \E r \in Runners : WriteManifest(r)
    BY <1>3, <2>2 DEF ComputeStep, ReadHoldings, IncrIngest, DeleteRows, InsertRows,
         InsertRejected, Stage, IncrRevision, FetchStaging, Activate, Unstage, IncrSeq,
         Publish, Save, ComputeThrows
  <2> QED BY <2>1, <2>2
<1>4. ASSUME NEW w \in Workers, \/ Bury(w) \/ Crash(w) \/ LoopThrows(w)
                                \/ \E e \in Range(batch[w]) : Skip(w, e)
      PROVE  UNCHANGED <<holdings, request, analysed>>
  BY <1>4 DEF Bury, Crash, LoopThrows, Skip
<1>5. ASSUME NEW w \in Workers,
             \/ Boot(w) \/ ClaimStep(w) \/ ClaimThrows(w) \/ ClaimAck(w) \/ Read(w)
             \/ BatchDone(w) \/ RequeueBusy(w) \/ Ack(w) \/ FailAck(w) \/ Retry(w) \/ Release(w)
             \/ \E e \in Range(batch[w]) : Acquire(w, e) \/ Busy(w, e)
      PROVE  UNCHANGED <<holdings, request, analysed, dead, skipped, dropped>>
  BY <1>5 DEF Boot, ClaimStep, Claim, ClaimThrows, ClaimAck, Read, BatchDone, RequeueBusy, Ack,
              FailAck, Retry, Release, Acquire, Busy
<1> QED BY <1>1, <1>2, <1>3, <1>4, <1>5 DEF Next, LoopStep

\* What settles a request is never undone, and holdings only change forward.
LEMMA Forward ==
    ASSUME TypeOK, TypeOK', [Next]_vars
    PROVE  /\ holdings <= holdings' /\ analysed <= analysed'
           /\ dead \subseteq dead' /\ skipped \subseteq skipped' /\ dropped \subseteq dropped'
           /\ \A v \in Changes :
                 /\ request'[v] # "idle" => request[v] # "idle" \/ v = holdings'
                 /\ request'[v] = "accepted" => request[v] = "accepted" \/ Enqueue(v)
           /\ \A v \in Changes : Settled(v) => Settled(v)'
<1> DEFINE Kept == dead \subseteq dead' /\ skipped \subseteq skipped' /\ dropped \subseteq dropped'
           Asked == \A v \in Changes :
                       /\ request'[v] # "idle" => request[v] # "idle" \/ v = holdings'
                       /\ request'[v] = "accepted" => request[v] = "accepted" \/ Enqueue(v)
<1> USE DEF askVars, queueVars, publicVars, inputVars, loopVars, history
<1>1. /\ holdings \in 0 .. MaxChanges /\ holdings' \in 0 .. MaxChanges
      /\ analysed \in 0 .. MaxChanges /\ analysed' \in 0 .. MaxChanges
      /\ \A r \in Runners : work[r].data \in 0 .. MaxChanges
  BY DEF TypeOK
<1>2. holdings <= holdings' /\ analysed <= analysed' /\ Kept /\ Asked
  <2>1. CASE UNCHANGED <<holdings, request, analysed, dead, skipped, dropped>>
    BY <1>1, <2>1
  <2>2. CASE AskStep /\ UNCHANGED <<analysed, dead, skipped, dropped>>
    <3>1. CASE Change
      <4>1. /\ holdings' = holdings + 1
            /\ request' = [request EXCEPT ![holdings + 1] = "asked"]
        BY <3>1 DEF Change
      <4>2. \A v \in Changes : request'[v] = IF v = holdings + 1 THEN "asked" ELSE request[v]
        BY <4>1 DEF TypeOK
      <4> QED BY <1>1, <2>2, <4>1, <4>2
    <3>2. CASE DebounceEnds BY <1>1, <2>2, <3>2 DEF DebounceEnds
    <3>3. ASSUME NEW u \in Changes, NEW on \in BOOLEAN, NEW bypass \in BOOLEAN,
                 Admit(u, on, bypass)
          PROVE  holdings' = holdings /\ Asked
      <4>1. holdings' = holdings /\ request[u] = "asked" BY <3>3 DEF Admit
      <4>2. \A v \in Changes : /\ request'[v] = "accepted" => request[v] = "accepted"
                               /\ v # u => request'[v] = request[v]
        BY <3>3 DEF Admit, TypeOK
      <4> QED BY <4>1, <4>2
    <3>4. ASSUME NEW u \in Changes, Enqueue(u) PROVE holdings' = holdings /\ Asked
      <4>1. holdings' = holdings /\ request[u] = "admitted" BY <3>4 DEF Enqueue
      <4>2. \A v \in Changes : v # u => request'[v] = request[v] BY <3>4 DEF Enqueue, TypeOK
      <4> QED BY <3>4, <4>1, <4>2
    <3> QED BY <1>1, <2>2, <3>1, <3>2, <3>3, <3>4 DEF AskStep
  <2>3. ASSUME NEW r \in Runners, WriteManifest(r)
        PROVE  analysed <= analysed' /\ (holdings' = holdings)
    BY <1>1, <2>3 DEF WriteManifest
  <2>4. ASSUME NEW w \in Workers, \/ Bury(w) \/ Crash(w) \/ LoopThrows(w)
                                  \/ \E e \in Range(batch[w]) : Skip(w, e)
        PROVE  Kept
    BY <2>4 DEF Bury, Crash, LoopThrows, Reset, Skip
  <2> QED BY <1>1, <2>1, <2>2, <2>3, <2>4, RecordsStep
<1>3. ASSUME NEW v \in Changes, Settled(v) PROVE Settled(v)'
  <2>1. v \in Nat /\ analysed \in Nat /\ analysed' \in Nat
    BY <1>1, PiAssumption DEF Changes
  <2> QED BY <1>2, <1>3, <2>1 DEF Settled
<1> QED BY <1>2, <1>3

\* A worker's own steps move it through a computation, nothing else does.
LEMMA OwnStep ==
    ASSUME TypeOK, [Next]_vars, NEW w \in Workers
    PROVE  \/ ComputeStep(w)
           \/ pc'[w] = pc[w] /\ work'[w] = work[w]
           \/ pc'[w] \notin (ComputePC \ {"read"}) \cup {"ack"}
<1> DEFINE Same == pc'[w] = pc[w] /\ work'[w] = work[w]
           Out == pc'[w] \notin (ComputePC \ {"read"}) \cup {"ack"}
<1> USE DEF askVars, queueVars, publicVars, inputVars, loopVars, history
<1>1. CASE UNCHANGED <<pc, work>> BY <1>1
<1>2. CASE AskStep \/ LockExpires \/ UNCHANGED vars
  <2>1. UNCHANGED <<pc, work>>
    BY <1>2 DEF AskStep, Change, DebounceEnds, Admit, Enqueue, LockExpires, vars
  <2> QED BY <2>1
<1>3. CASE \E a \in Summaries : Summarise(a)
  BY <1>3, PiAssumption DEF Summarise, Goto
<1>4. ASSUME NEW r \in Runners \ {w}, ComputeStep(r) \/ ComputeThrows(r) PROVE Same
  <2>1. \E next : Goto(r, next)
    BY <1>4 DEF ComputeStep, ReadHoldings, IncrIngest, DeleteRows, InsertRows, InsertRejected,
         Stage, IncrRevision, FetchStaging, Activate, WriteManifest, Unstage, IncrSeq,
         Publish, Save, ComputeThrows, Fails
  <2>2. work'[w] = work[w]
    BY <1>4 DEF ComputeStep, ReadHoldings, IncrIngest, DeleteRows, InsertRows, InsertRejected,
         Stage, IncrRevision, FetchStaging, Activate, WriteManifest, Unstage, IncrSeq,
         Publish, Save, ComputeThrows, TypeOK, Runners
  <2> QED BY <2>1, <2>2 DEF Goto, TypeOK, Runners
<1>5. CASE ComputeThrows(w)
  <2>1. Goto(w, "failAck") BY <1>5 DEF ComputeThrows, Fails
  <2>2. pc'[w] = "failAck" BY <2>1 DEF Goto, TypeOK, Runners
  <2> QED BY <2>2 DEF ComputePC
<1>6. ASSUME NEW v \in Workers,
             \/ Boot(v) \/ LoopStep(v) \/ ClaimStep(v)
             \/ ClaimThrows(v) \/ Crash(v) \/ LoopThrows(v)
      PROVE  Same \/ Out
  <2> DEFINE Ends == {"poll", "claimAck", "next", "read", "busy", "release", "bury", "retry",
                      "down", "stopped"}
  <2>0. \A p \in Ends : p \notin (ComputePC \ {"read"}) \cup {"ack"} BY DEF ComputePC
  <2>1. CASE work' = work /\ ((\E next \in Ends : Goto(v, next)) \/ UNCHANGED pc)
    <3>1. CASE UNCHANGED pc BY <2>1, <3>1
    <3>2. ASSUME NEW next \in Ends, Goto(v, next) PROVE Same \/ Out
      <4>1. pc'[w] = IF v = w THEN next ELSE pc[w] BY <3>2 DEF Goto, TypeOK, Runners
      <4> QED BY <2>0, <2>1, <3>2, <4>1
    <3> QED BY <2>1, <3>1, <3>2
  <2>2. CASE Forget(v) /\ (\E next \in Ends : Goto(v, next))
    <3>1. v # w => work'[w] = work[w] BY <2>2 DEF Forget, TypeOK, Runners
    <3>2. ASSUME NEW next \in Ends, Goto(v, next) PROVE Same \/ Out
      <4>1. pc'[w] = IF v = w THEN next ELSE pc[w] BY <3>2 DEF Goto, TypeOK, Runners
      <4> QED BY <2>0, <3>1, <3>2, <4>1
    <3> QED BY <2>2, <3>2
  <2>3. CASE Boot(v) \/ ClaimStep(v) \/ ClaimAck(v) \/ Read(v) \/ BatchDone(v)
    BY <2>1, <2>3 DEF Boot, ClaimStep, Claim, ClaimAck, Read, BatchDone
  <2>4. CASE Ack(v) \/ FailAck(v) \/ Bury(v) \/ Retry(v) \/ ClaimThrows(v)
    BY <2>1, <2>4 DEF Ack, FailAck, Bury, Retry, ClaimThrows
  <2>5. CASE RequeueBusy(v) \/ Release(v) \/ Crash(v) \/ LoopThrows(v)
    BY <2>2, <2>5 DEF RequeueBusy, Release, Crash, LoopThrows, Reset
  <2>6. ASSUME NEW e \in Range(batch[v]), Skip(v, e) \/ Acquire(v, e) \/ Busy(v, e)
        PROVE  work' = work /\ ((\E next \in Ends : Goto(v, next)) \/ UNCHANGED pc)
    BY <2>6 DEF Skip, Acquire, Busy
  <2> QED BY <1>6, <2>1, <2>3, <2>4, <2>5, <2>6 DEF LoopStep
<1> QED BY <1>2, <1>3, <1>4, <1>5, <1>6 DEF Next

BeforeManifest == ComputePC \ {"read", "unstage", "seq", "publish", "save"}
AfterManifest == {"unstage", "seq", "publish", "save", "ack"}

\* Every job is about a change that has happened; the computation for it reads
\* the holdings afterwards, and its manifest covers the change.
Known ==
    /\ \A v \in Changes : request[v] # "idle" => v <= holdings
    /\ \A i \in Ids : job[i].change <= holdings
    /\ \A w \in Workers : \A e \in Range(batch[w]) : e.job.change <= holdings
    /\ \A w \in Workers : held[w].change <= holdings
    /\ \A w \in Workers : pc[w] \in BeforeManifest => held[w].change <= work[w].data
    /\ \A w \in Workers : pc[w] \in AfterManifest => held[w].change <= analysed

LEMMA ChangeType ==
    ASSUME TypeOK
    PROVE  /\ holdings \in Nat /\ analysed \in Nat /\ Changes \subseteq Nat
           /\ \A i \in Ids : job[i].change \in Nat
           /\ \A w \in Workers : /\ held[w].change \in Nat /\ work[w].data \in Nat
                                 /\ \A e \in Range(batch[w]) :
                                       e.id \in Ids /\ e.job \in Job /\ e.job.change \in Nat
<1>1. \A j \in Job \cup {NoJob} : j.change \in Nat BY JobType, PiAssumption DEF Changes
<1>2. ASSUME NEW w \in Workers, NEW e \in Range(batch[w]) PROVE e.id \in Ids /\ e.job \in Job
  <2>1. batch[w] \in Seq([id : Ids, job : Job]) BY DEF TypeOK
  <2>2. e \in [id : Ids, job : Job] BY <2>1, RangeOfSeq
  <2> QED BY <2>2
<1>3. \A i \in Ids : job[i].change \in Nat BY <1>1 DEF TypeOK
<1>4. \A w \in Workers : held[w].change \in Nat BY <1>1 DEF TypeOK
<1>5. \A w \in Workers : work[w].data \in 0 .. MaxChanges BY DEF TypeOK, Runners
<1> QED BY <1>1, <1>2, <1>3, <1>4, <1>5, PiAssumption DEF TypeOK, Changes

LEMMA KnownStep ==
    ASSUME TypeOK, TypeOK', Handles, Known, [Next]_vars
    PROVE  Known'
<1>1. /\ holdings <= holdings' /\ analysed <= analysed'
      /\ holdings \in Nat /\ holdings' \in Nat /\ analysed \in Nat /\ analysed' \in Nat
  <2>1. /\ holdings \in 0 .. MaxChanges /\ holdings' \in 0 .. MaxChanges
        /\ analysed \in 0 .. MaxChanges /\ analysed' \in 0 .. MaxChanges
    BY DEF TypeOK
  <2> QED BY <2>1, Forward
<1>2. \A v \in Changes : request'[v] # "idle" => v <= holdings'
  BY <1>1, Forward, ChangeType DEF Known
<1>3. ASSUME NEW i \in Ids PROVE job'[i].change <= holdings'
  <2>1. \A k \in Ids : job[k].change \in Nat /\ job[k].change <= holdings
    BY ChangeType DEF Known
  <2>2. NoJob.change <= holdings BY <1>1, JobType
  <2>3. \A w \in Workers : held[w].change \in Nat /\ held[w].change <= holdings
    BY ChangeType DEF Known
  <2>4. \A v \in Changes : v \in Nat /\ (request[v] = "admitted" => v <= holdings)
    BY ChangeType DEF Known
  <2>5. job'[i].change <= holdings
    <3>1. CASE job'[i] \in {job[i], NoJob} BY <2>1, <2>2, <3>1
    <3>2. CASE \E v \in Changes : request[v] = "admitted" /\ job'[i].change = v BY <2>4, <3>2
    <3>3. CASE \E w \in Workers : job'[i].change = held[w].change BY <2>3, <3>3
    <3>4. CASE \E k \in Ids : job'[i].change = job[k].change BY <2>1, <3>4
    <3> QED BY <3>1, <3>2, <3>3, <3>4, JobsStep
  <2>6. job'[i].change \in Nat
    <3>1. job'[i] \in Job \cup {NoJob} BY DEF TypeOK
    <3> QED BY <3>1, JobType, PiAssumption DEF Changes
  <2> QED BY <1>1, <2>5, <2>6
<1>4. ASSUME NEW w \in Workers, NEW e \in Range(batch'[w]) PROVE e.job.change <= holdings'
  <2>1. CASE e \in Range(batch[w]) BY <1>1, <2>1, ChangeType DEF Known
  <2>2. CASE e.job = job'[e.id] /\ e.id \in Ids BY <1>3, <2>2
  <2>3. e \in Range(batch[w]) \/ (e.id \in Range(queue) /\ e.job = job[e.id] /\ job' = job)
    BY HandsStep
  <2>4. Range(queue) \subseteq Ids BY RangeOfSeq DEF TypeOK
  <2> QED BY <2>1, <2>2, <2>3, <2>4
<1>5. ASSUME NEW w \in Workers PROVE held'[w].change <= holdings'
  <2>1. CASE held'[w] \in {held[w], NoJob} BY <1>1, <2>1, JobType, ChangeType DEF Known
  <2>2. CASE \E e \in Range(batch[w]) : held'[w] = e.job
    BY <1>1, <2>2, ChangeType DEF Known
  <2> QED BY <2>1, <2>2, HandsStep
<1>6. ASSUME NEW w \in Workers
      PROVE  /\ pc'[w] \in BeforeManifest => held'[w].change <= work'[w].data
             /\ pc'[w] \in AfterManifest => held'[w].change <= analysed'
  <2> DEFINE Goal == /\ pc'[w] \in BeforeManifest => held'[w].change <= work'[w].data
                     /\ pc'[w] \in AfterManifest => held'[w].change <= analysed'
  <2>1. /\ held[w].change \in Nat /\ work[w].data \in Nat /\ held[w].change <= holdings
        /\ pc[w] \in BeforeManifest => held[w].change <= work[w].data
        /\ pc[w] \in AfterManifest => held[w].change <= analysed
    BY ChangeType DEF Known
  <2>2. pc'[w] \in BeforeManifest \cup AfterManifest => Locked(w)' /\ pc'[w] # "read"
    BY DEF BeforeManifest, AfterManifest, ComputePC, LockedPC, Locked
  <2>3. pc'[w] \in BeforeManifest \cup AfterManifest => held'[w] = held[w]
    BY <2>2, HandsStep
  <2>4. CASE pc'[w] = pc[w] /\ work'[w] = work[w] BY <1>1, <2>1, <2>3, <2>4
  <2>5. CASE pc'[w] \notin (ComputePC \ {"read"}) \cup {"ack"}
    BY <2>5 DEF BeforeManifest, AfterManifest, ComputePC
  <2>6. CASE ComputeStep(w)
    <3>1. \A next : Goto(w, next) => pc'[w] = next BY DEF Goto, TypeOK, Runners
    <3>2. CASE ReadHoldings(w)
      <4>1. pc'[w] = "ingest" /\ work'[w].data = holdings
        BY <3>1, <3>2 DEF ReadHoldings, TypeOK, Runners
      <4> QED BY <2>1, <2>3, <4>1 DEF AfterManifest
    <3>3. CASE \/ IncrIngest(w) \/ DeleteRows(w) \/ InsertRows(w) \/ Stage(w)
               \/ IncrRevision(w) \/ FetchStaging(w) \/ Activate(w)
      <4>1. pc[w] \in BeforeManifest /\ pc'[w] \notin AfterManifest
        <5>1. pc[w] \in {"ingest", "clear", "insert", "stage", "bump", "fetch", "activate"}
          BY <3>3 DEF IncrIngest, DeleteRows, InsertRows, Stage, IncrRevision, FetchStaging, Activate
        <5>2. \E next \in {"clear", "insert", "stage", "bump", "fetch", "activate", "manifest"} :
                 Goto(w, next)
          BY <3>3 DEF IncrIngest, DeleteRows, InsertRows, Stage, IncrRevision, FetchStaging, Activate
        <5>3. pc'[w] \in {"clear", "insert", "stage", "bump", "fetch", "activate", "manifest"}
          BY <3>1, <5>2
        <5> QED BY <5>1, <5>3 DEF BeforeManifest, AfterManifest, ComputePC
      <4>2. work'[w].data = work[w].data
        <5>1. CASE DeleteRows(w) \/ InsertRows(w) \/ Stage(w) \/ Activate(w)
          BY <5>1 DEF DeleteRows, InsertRows, Stage, Activate
        <5>2. CASE IncrIngest(w) BY <5>2 DEF IncrIngest, TypeOK, Runners
        <5>3. CASE IncrRevision(w) BY <5>3 DEF IncrRevision, TypeOK, Runners
        <5>4. CASE FetchStaging(w) BY <5>4 DEF FetchStaging, TypeOK, Runners
        <5> QED BY <3>3, <5>1, <5>2, <5>3, <5>4
      <4> QED BY <2>1, <2>3, <4>1, <4>2
    <3>4. CASE WriteManifest(w)
      <4>1. pc[w] \in BeforeManifest /\ pc'[w] = "unstage"
        BY <3>1, <3>4 DEF WriteManifest, BeforeManifest, ComputePC
      <4>2. analysed' >= work[w].data BY <1>1, <2>1, <3>4 DEF WriteManifest
      <4> QED BY <1>1, <2>1, <2>3, <4>1, <4>2 DEF BeforeManifest
    <3>5. CASE Unstage(w) \/ IncrSeq(w) \/ Publish(w) \/ Save(w)
      <4>1. pc[w] \in AfterManifest /\ pc'[w] \in AfterManifest
        BY <3>1, <3>5 DEF Unstage, IncrSeq, Publish, Save, AfterManifest
      <4>2. pc'[w] \notin BeforeManifest BY <4>1 DEF AfterManifest, BeforeManifest, ComputePC
      <4> QED BY <1>1, <2>1, <2>3, <4>1, <4>2
    <3>6. CASE InsertRejected(w)
      <4>1. pc'[w] = "failAck" BY <3>1, <3>6 DEF InsertRejected, Fails
      <4> QED BY <4>1 DEF AfterManifest, BeforeManifest, ComputePC
    <3> QED BY <2>6, <3>2, <3>3, <3>4, <3>5, <3>6 DEF ComputeStep
  <2> QED BY <2>4, <2>5, <2>6, OwnStep
<1> QED BY <1>2, <1>3, <1>4, <1>5, <1>6 DEF Known

---------------------------------------------------------------------------
(* The job of an accepted request.                                          *)

\* Claimed entries are about to be acknowledged, their job has been added again.
Claimed(i) == \E w \in Workers : pc[w] = "claimAck" /\ cur[w] = i

Carried(v) == \E i \in Ids : job[i].change = v /\ Live(i) /\ ~ Claimed(i)

Evidence == \A v \in Changes : request[v] = "accepted" => Carried(v) \/ InGap(v) \/ Settled(v)

\* A new entry is nobody's yet.
LEMMA AddedIsCarried ==
    ASSUME TypeOK, Handles, NEW j \in Job, Xadd(j),
           \A w \in Workers : cur'[w] \in {0, cur[w]} \/ \E i \in Ids : owner[i] # Nobody /\ cur'[w] = i
    PROVE  Carried(j.change)'
<1>1. PICK n \in Ids : /\ n \notin Range(queue) /\ ~ Referenced(n)
                       /\ job' = [job EXCEPT ![n] = j]
                       /\ Range(queue') = Range(queue) \cup {n}
  BY XaddEffect
<1>2. job'[n] = j BY <1>1 DEF TypeOK
<1>3. \A w \in Workers : cur'[w] # n BY <1>1 DEF Referenced, Ids
<1> QED BY <1>1, <1>2, <1>3 DEF Carried, Live, Claimed

\* Only XAUTOCLAIM makes an entry a claimed one.
LEMMA ClaimedStep ==
    ASSUME TypeOK, Handles, [Next]_vars, NEW i \in Ids, Claimed(i)'
    PROVE  Claimed(i) \/ \E w \in Workers : Claim(w, i)
<1> USE DEF askVars, queueVars, publicVars, inputVars, loopVars, history
<1>1. PICK v \in Workers : pc'[v] = "claimAck" /\ cur'[v] = i BY DEF Claimed
<1>2. ASSUME pc[v] = "claimAck", cur'[v] \in {0, cur[v]}
      PROVE  Claimed(i)
  BY <1>1, <1>2 DEF Claimed, Ids
<1>3. CASE UNCHANGED <<pc, cur>> BY <1>1, <1>2, <1>3
<1>4. CASE AskStep \/ LockExpires \/ UNCHANGED vars
  <2>1. UNCHANGED <<pc, cur>>
    BY <1>4 DEF AskStep, Change, DebounceEnds, Admit, Enqueue, LockExpires, vars
  <2> QED BY <1>3, <2>1
<1>5. CASE \E a \in Summaries : Summarise(a)
  BY <1>1, <1>2, <1>5, PiAssumption DEF Summarise, Goto
<1>6. CASE \E r \in Runners : ComputeStep(r) \/ ComputeThrows(r)
  <2>1. PICK r \in Runners : ComputeStep(r) \/ ComputeThrows(r) BY <1>6
  <2>2. cur' = cur
    BY <2>1 DEF ComputeStep, ReadHoldings, IncrIngest, DeleteRows, InsertRows, InsertRejected,
         Stage, IncrRevision, FetchStaging, Activate, WriteManifest, Unstage, IncrSeq,
         Publish, Save, ComputeThrows
  <2>3. \E next \in ComputePC \cup {"ack", "done", "failAck"} : Goto(r, next)
    BY <2>1 DEF ComputeStep, ReadHoldings, IncrIngest, DeleteRows, InsertRows, InsertRejected,
         Stage, IncrRevision, FetchStaging, Activate, WriteManifest, Unstage, IncrSeq,
         Publish, Save, ComputeThrows, Fails, ComputePC
  <2>4. pc[v] = "claimAck" BY <1>1, <2>3 DEF Goto, TypeOK, Runners, ComputePC
  <2> QED BY <1>2, <2>2, <2>4
<1>7. ASSUME NEW w \in Workers, NEW k \in Ids, Claim(w, k)
      PROVE  Claimed(i) \/ Claim(w, i)
  <2>1. cur' = [cur EXCEPT ![w] = k] /\ Goto(w, "claimAck") BY <1>7 DEF Claim
  <2>2. CASE v = w
    <3>1. k = i BY <1>1, <2>1, <2>2 DEF TypeOK
    <3> QED BY <1>7, <3>1
  <2>3. CASE v # w BY <1>1, <1>2, <2>1, <2>3 DEF Goto, TypeOK, Runners
  <2> QED BY <2>2, <2>3
<1>8. ASSUME NEW w \in Workers,
             \/ Boot(w) \/ LoopStep(w) \/ ClaimThrows(w) \/ Crash(w) \/ LoopThrows(w)
      PROVE  Claimed(i)
  <2> DEFINE Others == {"poll", "next", "read", "busy", "release", "bury", "retry", "down", "stopped"}
  <2>1. (\E next \in Others : Goto(w, next)) \/ UNCHANGED pc => pc'[v] = pc[v]
    BY <1>1 DEF Goto, TypeOK, Runners
  <2>2. CASE UNCHANGED cur \/ cur' = [cur EXCEPT ![w] = 0]
    <3>1. \A u \in Workers : cur'[u] \in {0, cur[u]} BY <2>2 DEF TypeOK
    <3>2. (\E next \in Others : Goto(w, next)) \/ UNCHANGED pc
      <4>1. CASE Boot(w) \/ ClaimAck(w) \/ Read(w) \/ BatchDone(w) \/ ClaimThrows(w) \/ Ack(w)
        BY <4>1 DEF Boot, ClaimAck, Read, BatchDone, ClaimThrows, Ack
      <4>2. CASE FailAck(w) \/ Bury(w) \/ Retry(w) \/ RequeueBusy(w) \/ Release(w)
        BY <4>2 DEF FailAck, Bury, Retry, RequeueBusy, Release
      <4>3. CASE Crash(w) \/ LoopThrows(w) BY <4>3 DEF Crash, LoopThrows, Reset
      <4>4. CASE \E e \in Range(batch[w]) : Skip(w, e) \/ Acquire(w, e) \/ Busy(w, e)
        BY <4>4 DEF Skip, Acquire, Busy
      <4> QED BY <1>8, <4>1, <4>2, <4>3, <4>4 DEF LoopStep
    <3>3. pc[v] = "claimAck" BY <1>1, <2>1, <3>2
    <3> QED BY <1>2, <3>1, <3>3
  <2>3. CASE \E e \in Range(batch[w]) : Acquire(w, e)
    <3>1. PICK e \in Range(batch[w]) : cur' = [cur EXCEPT ![w] = e.id] /\ Goto(w, "read")
      BY <2>3 DEF Acquire
    <3>2. v # w BY <1>1, <3>1 DEF Goto, TypeOK, Runners
    <3>3. pc'[v] = pc[v] /\ cur'[v] = cur[v] BY <3>1, <3>2 DEF Goto, TypeOK, Runners
    <3> QED BY <1>1, <1>2, <3>3
  <2>4. CASE ~ \E e \in Range(batch[w]) : Acquire(w, e)
    <3>1. CASE Boot(w) \/ ClaimAck(w) \/ Read(w) \/ BatchDone(w) \/ ClaimThrows(w) \/ Ack(w)
      BY <2>2, <3>1 DEF Boot, ClaimAck, Read, BatchDone, ClaimThrows, Ack
    <3>2. CASE FailAck(w) \/ Bury(w) \/ Retry(w) \/ RequeueBusy(w) \/ Release(w)
      BY <2>2, <3>2 DEF FailAck, Bury, Retry, RequeueBusy, Release, Forget
    <3>3. CASE Crash(w) \/ LoopThrows(w) BY <2>2, <3>3 DEF Crash, LoopThrows, Reset, Forget
    <3>4. CASE \E e \in Range(batch[w]) : Skip(w, e) \/ Busy(w, e)
      BY <2>2, <3>4 DEF Skip, Busy
    <3> QED BY <1>8, <2>4, <3>1, <3>2, <3>3, <3>4 DEF LoopStep
  <2> QED BY <2>3, <2>4
<1> QED BY <1>4, <1>5, <1>6, <1>7, <1>8 DEF Next, ClaimStep

\* The job stays in the stream or in a worker's hands until its change is
\* settled.
LEMMA CarriedStep ==
    ASSUME TypeOK, TypeOK', Handles, Traced, Known, [Next]_vars,
           NEW v \in Changes, Carried(v)
    PROVE  Carried(v)' \/ InGap(v)' \/ Settled(v)'
<1>1. PICK i \in Ids : job[i].change = v /\ Live(i) /\ ~ Claimed(i) BY DEF Carried
<1>2. job[i] # NoJob BY <1>1, JobType
<1>3. CASE \E w \in Workers : Claim(w, i)
  <2>1. PICK w \in Workers : Claim(w, i) BY <1>3
  <2>2. /\ Xadd(job[i]) /\ owner[i] # Nobody /\ cur' = [cur EXCEPT ![w] = i]
    BY <2>1 DEF Claim
  <2>3. job[i] \in Job BY <2>2 DEF Handles
  <2>4. \A u \in Workers : cur'[u] \in {0, cur[u]} \/ cur'[u] = i BY <2>2 DEF TypeOK
  <2> QED BY <1>1, <2>2, <2>3, <2>4, AddedIsCarried
<1>4. CASE ~ (\E w \in Workers : Claim(w, i)) /\ job'[i] = job[i] /\ Live(i)'
  <2>1. ~ Claimed(i)' BY <1>1, <1>4, ClaimedStep
  <2> QED BY <1>1, <1>4, <2>1 DEF Carried
<1>5. ASSUME NEW w \in Workers, ClaimAck(w), cur[w] = i PROVE FALSE
  BY <1>1, <1>5 DEF ClaimAck, Claimed
<1>6. ASSUME NEW w \in Workers, Ack(w) \/ FailAck(w), cur[w] = i
      PROVE  InGap(v)' \/ Settled(v)'
  <2>1. Locked(w) /\ cur[w] # 0 BY <1>6 DEF Ack, FailAck, Locked, LockedPC, Ids
  <2>2. held[w].change = v BY <1>1, <1>2, <1>6, <2>1 DEF Traced
  <2>3. CASE Ack(w)
    <3>1. v <= analysed BY <2>2, <2>3 DEF Known, AfterManifest, Ack
    <3>2. analysed' = analysed BY <2>3 DEF Ack, history
    <3> QED BY <3>1, <3>2, ChangeType DEF Settled
  <2>4. CASE FailAck(w)
    <3>1. held' = held /\ (Goto(w, "bury") \/ Goto(w, "retry")) BY <2>4 DEF FailAck
    <3>2. pc'[w] \in {"bury", "retry"} BY <3>1 DEF Goto, TypeOK, Runners
    <3> QED BY <2>2, <3>1, <3>2 DEF InGap, Gap
  <2> QED BY <1>6, <2>3, <2>4
<1>7. ASSUME NEW w \in Workers, NEW e \in Range(batch[w]), Skip(w, e) \/ Busy(w, e), e.id = i
      PROVE  InGap(v)' \/ Settled(v)'
  <2>1. e.job.change = v BY <1>1, <1>2, <1>7 DEF Traced
  <2>2. CASE Skip(w, e) BY <2>1, <2>2 DEF Skip, Settled
  <2>3. CASE Busy(w, e)
    <3>1. held' = [held EXCEPT ![w] = e.job] /\ Goto(w, "busy") BY <2>3 DEF Busy, Take
    <3>2. held'[w] = e.job /\ pc'[w] = "busy" BY <3>1 DEF Goto, TypeOK, Runners
    <3> QED BY <2>1, <3>2 DEF InGap, Gap
  <2> QED BY <1>7, <2>2, <2>3
<1> QED BY <1>1, <1>3, <1>4, <1>5, <1>6, <1>7, EntryStep

\* A worker that has acknowledged and not yet added again or buried.
LEMMA GapStep ==
    ASSUME TypeOK, TypeOK', Handles, [Next]_vars, NEW v \in Changes, InGap(v)
    PROVE  Carried(v)' \/ InGap(v)' \/ Settled(v)'
<1> USE DEF askVars, queueVars, publicVars, inputVars, loopVars, history
<1>1. PICK w \in Workers : pc[w] \in {"busy", "bury", "retry"} /\ held[w].change = v
  BY DEF InGap, Gap
<1>2. ASSUME pc'[w] = pc[w], held'[w] = held[w] PROVE InGap(v)'
  BY <1>1, <1>2 DEF InGap, Gap
<1>3. CASE UNCHANGED <<pc, held>> BY <1>2, <1>3
<1>4. CASE AskStep \/ LockExpires \/ UNCHANGED vars
  <2>1. UNCHANGED <<pc, held>>
    BY <1>4 DEF AskStep, Change, DebounceEnds, Admit, Enqueue, LockExpires, vars
  <2> QED BY <1>3, <2>1
<1>5. CASE \E a \in Summaries : Summarise(a)
  BY <1>2, <1>5, PiAssumption DEF Summarise, Goto
<1>6. CASE \E r \in Runners : ComputeStep(r) \/ ComputeThrows(r)
  <2>1. PICK r \in Runners : ComputeStep(r) \/ ComputeThrows(r) BY <1>6
  <2>2. held' = held /\ pc[r] \in ComputePC
    BY <2>1 DEF ComputeStep, ReadHoldings, IncrIngest, DeleteRows, InsertRows, InsertRejected,
         Stage, IncrRevision, FetchStaging, Activate, WriteManifest, Unstage, IncrSeq,
         Publish, Save, ComputeThrows, ComputePC
  <2>3. \E next : Goto(r, next)
    BY <2>1 DEF ComputeStep, ReadHoldings, IncrIngest, DeleteRows, InsertRows, InsertRejected,
         Stage, IncrRevision, FetchStaging, Activate, WriteManifest, Unstage, IncrSeq,
         Publish, Save, ComputeThrows, Fails
  <2>4. r # w BY <1>1, <2>2 DEF ComputePC
  <2>5. pc'[w] = pc[w] BY <2>3, <2>4 DEF Goto, TypeOK, Runners
  <2> QED BY <1>2, <2>2, <2>5
<1>7. ASSUME NEW u \in Workers \ {w},
             \/ Boot(u) \/ LoopStep(u) \/ ClaimStep(u)
             \/ ClaimThrows(u) \/ Crash(u) \/ LoopThrows(u)
      PROVE  pc'[w] = pc[w] /\ held'[w] = held[w]
  BY <1>7, OthersFrame
<1>8. CASE RequeueBusy(w) \/ Retry(w)
  <2>1. held[w] \in Job BY <1>8 DEF RequeueBusy, Retry, Handles, Locked, LockedPC
  <2>2. NextAttempt(held[w]) \in Job /\ NextAttempt(held[w]).change = v
    BY <1>1, <2>1, JobType
  <2>3. Xadd(NextAttempt(held[w])) /\ (UNCHANGED cur \/ cur' = [cur EXCEPT ![w] = 0])
    BY <1>8 DEF RequeueBusy, Retry, Forget
  <2>4. \A u \in Workers : cur'[u] \in {0, cur[u]} BY <2>3 DEF TypeOK
  <2> QED BY <2>2, <2>3, <2>4, AddedIsCarried
<1>9. CASE Bury(w) BY <1>1, <1>9 DEF Bury, Settled
<1>10. CASE Crash(w) \/ LoopThrows(w)
  <2>1. \E next : Reset(w, next) BY <1>10 DEF Crash, LoopThrows
  <2> QED BY <1>1, <2>1 DEF Reset, Gap, Settled
<1>11. ASSUME LoopStep(w) \/ Boot(w) \/ ClaimStep(w) \/ ClaimThrows(w)
       PROVE  RequeueBusy(w) \/ Retry(w) \/ Bury(w)
  BY <1>1, <1>11 DEF LoopStep, ClaimAck, Read, BatchDone, Skip, Acquire, Busy, Take, Turn, Ack,
         FailAck, Release, Boot, ClaimStep, Claim, ClaimThrows
<1> QED BY <1>2, <1>4, <1>5, <1>6, <1>7, <1>8, <1>9, <1>10, <1>11 DEF Next

LEMMA EvidenceStep ==
    ASSUME TypeOK, TypeOK', Handles, Traced, Known, Evidence, [Next]_vars
    PROVE  Evidence'
<1> SUFFICES ASSUME NEW v \in Changes, request'[v] = "accepted"
             PROVE  Carried(v)' \/ InGap(v)' \/ Settled(v)'
  BY DEF Evidence
<1>1. CASE Enqueue(v)
  <2>1. [change |-> v, attempt |-> 0] \in Job BY JobType
  <2>2. Xadd([change |-> v, attempt |-> 0]) /\ cur' = cur BY <1>1 DEF Enqueue, loopVars
  <2>3. Carried([change |-> v, attempt |-> 0].change)' BY <2>1, <2>2, AddedIsCarried
  <2> QED BY <2>3
<1>2. CASE Carried(v) BY <1>2, CarriedStep
<1>3. CASE InGap(v) BY <1>3, GapStep
<1>4. CASE Settled(v) BY <1>4, Forward
<1> QED BY <1>1, <1>2, <1>3, <1>4, Forward DEF Evidence

LEMMA EvidenceAlways == Spec => [](Traced /\ Known /\ Evidence)
<1>1. Init => Traced /\ Known /\ Evidence
  <2> SUFFICES ASSUME Init PROVE Traced /\ Known /\ Evidence
    OBVIOUS
  <2>1. \A w \in Workers : pc[w] = "down" /\ Range(batch[w]) = {} /\ held[w] = NoJob
    BY DEF Init, Runners, Range
  <2>2. Traced BY <2>1 DEF Traced, Locked, LockedPC, ComputePC
  <2>3. \A i \in Ids : job[i] = NoJob BY DEF Init
  <2>4. holdings = 0 /\ \A v \in Changes : request[v] = "idle" BY DEF Init
  <2>5. Known
    BY <2>1, <2>3, <2>4, JobType DEF Known, BeforeManifest, AfterManifest, ComputePC
  <2> QED BY <2>2, <2>4, <2>5 DEF Evidence
<1>2. TypeOK /\ TypeOK' /\ Handles /\ Traced /\ Known /\ Evidence /\ [Next]_vars
        => (Traced /\ Known /\ Evidence)'
  BY TracedStep, KnownStep, EvidenceStep
<1> QED BY <1>1, <1>2, HandlesAlways, PTL DEF Spec

\* No accepted recompute request disappears without a trace, however many
\* workers claim, retry, bury, crash and restart at any step: whatever entry
\* carries its job is replaced before it is acknowledged, except in the gap
\* that ackPiJob leaves before requeueWithBackoff and moveToDlq, which the
\* invariant names.
THEOREM RequestsAreTraceable == Spec => []NoLostRequest
<1>1. TypeOK /\ Evidence => NoLostRequest
  BY DEF Evidence, NoLostRequest, Carried, OnStream, Live
<1> QED BY <1>1, TypeCorrect, EvidenceAlways, PTL

---------------------------------------------------------------------------
(* Publication, while no API request computes on its own and no lock ends   *)
(* under its owner.                                                         *)

Undisturbed == Summaries = {} /\ ~ LockMayLapse

Current(w) == [data |-> work[w].data, ingest |-> work[w].ingest]

\* What a worker has read, staged and numbered is not older than what is
\* published.
PublishingOf(w) ==
    /\ pc[w] \in {"ingest", "clear", "insert", "stage", "bump", "fetch", "activate", "manifest"}
          => work[w].data <= holdings /\ (manifest # Nothing => manifest.data <= work[w].data)
    /\ pc[w] \in {"clear", "insert", "stage", "bump", "fetch", "activate", "manifest"}
          => work[w].ingest <= ingest /\ (manifest # Nothing => manifest.ingest <= work[w].ingest)
    /\ pc[w] \in {"bump", "fetch"} => staging = Current(w)
    /\ pc[w] \in {"fetch", "activate", "manifest"}
          => work[w].rev = revision /\ (manifest # Nothing => manifest.rev < revision)
    /\ pc[w] = "activate" => work[w].copy = Current(w)
    /\ pc[w] = "manifest" => active = Current(w)
    /\ pc[w] \in {"fetch", "activate", "manifest", "unstage", "seq", "publish"}
          => work[w].rev = revision /\ delivered.rev < revision
    /\ pc[w] = "publish" => work[w].seq = wsSeq /\ delivered.seq < wsSeq

Published ==
    /\ manifest # Nothing => /\ manifest.rev <= revision /\ manifest.data <= holdings
                             /\ manifest.ingest <= ingest
    /\ delivered.seq <= wsSeq /\ delivered.rev <= revision
    /\ ManifestDescribesActive

Publishing == Published /\ \A w \in Workers : PublishingOf(w)

\* Nobody's lock ends early.
LEMMA NobodyLapses ==
    ASSUME Undisturbed
    PROVE  Spec => []((lapsed = {}) /\ LockHeld)
<1>1. Init => lapsed = {} /\ LockHeld
  BY PiAssumption DEF Init, LockHeld, Locked, LockedPC, ComputePC, Runners
<1>2. TypeOK /\ (lapsed = {} /\ LockHeld) /\ [Next]_vars => (lapsed = {} /\ LockHeld)'
  <2> SUFFICES ASSUME TypeOK, lapsed = {}, LockHeld, [Next]_vars PROVE lapsed' = {} /\ LockHeld'
    OBVIOUS
  <2>1. ASSUME NEW w \in Workers, Unlock(w), Locked(w) PROVE lapsed' = {}
    BY <2>1 DEF LockHeld, Unlock
  <2>2. ASSUME LockExpires PROVE lapsed' = {} BY <2>2 DEF LockExpires, Undisturbed
  <2>3. lapsed' = {} BY <2>1, <2>2, LockStep
  <2> QED BY <2>3, LockHeldStep
<1> QED BY <1>1, <1>2, TypeCorrect, PTL DEF Spec

\* Only a computation publishes.
LEMMA PublicFrame ==
    ASSUME [Next]_vars, ~ \E r \in Runners : ComputeStep(r)
    PROVE  UNCHANGED <<publicVars, ingest>>
<1> USE DEF askVars, queueVars, publicVars, inputVars, loopVars, history
<1>1. CASE AskStep \/ LockExpires \/ UNCHANGED vars
  BY <1>1 DEF AskStep, Change, DebounceEnds, Admit, Enqueue, LockExpires, vars
<1>2. CASE (\E a \in Summaries : Summarise(a)) \/ \E r \in Runners : ComputeThrows(r)
  BY <1>2 DEF Summarise, ComputeThrows
<1>3. ASSUME NEW w \in Workers, Boot(w) \/ LoopStep(w) \/ ClaimStep(w) \/ ClaimThrows(w)
      PROVE  UNCHANGED <<publicVars, ingest>>
  BY <1>3 DEF LoopStep, ClaimAck, Read, BatchDone, Skip, Acquire, Busy, RequeueBusy, Ack, FailAck,
         Bury, Retry, Release, Boot, ClaimStep, Claim, ClaimThrows
<1>4. ASSUME NEW w \in Workers, Crash(w) \/ LoopThrows(w)
      PROVE  UNCHANGED <<publicVars, ingest>>
  BY <1>4 DEF Crash, LoopThrows
<1> QED BY <1>1, <1>2, <1>3, <1>4 DEF Next

LEMMA Numbers ==
    ASSUME TypeOK
    PROVE  /\ holdings \in Nat /\ ingest \in Nat /\ revision \in Nat /\ wsSeq \in Nat
           /\ delivered.seq \in Nat /\ delivered.rev \in Nat
           /\ manifest # Nothing =>
                 manifest.data \in Nat /\ manifest.ingest \in Nat /\ manifest.rev \in Nat
           /\ \A w \in Workers : /\ work[w].data \in Nat /\ work[w].ingest \in Nat
                                 /\ work[w].rev \in Nat /\ work[w].seq \in Nat
<1>1. holdings \in Nat /\ ingest \in Nat /\ revision \in Nat /\ wsSeq \in Nat
  BY PiAssumption DEF TypeOK
<1>2. delivered \in [seq : Nat, rev : Nat] BY DEF TypeOK
<1>3. manifest \in [data : 0 .. MaxChanges, ingest : Nat, rev : Nat] \cup {Nothing}
  BY DEF TypeOK
<1>4. ASSUME NEW w \in Workers
      PROVE  work[w] \in [data : 0 .. MaxChanges, ingest : Nat, rev : Nat, seq : Nat,
                          copy : Payload \cup {Nothing}]
  BY DEF TypeOK, Runners
<1>5. 0 .. MaxChanges \subseteq Nat BY PiAssumption
<1> QED BY <1>1, <1>2, <1>3, <1>4, <1>5

\* A worker outside its computation has nothing at stake; one inside it is
\* alone.
LEMMA PublishingStep ==
    ASSUME Undisturbed, TypeOK, TypeOK', lapsed = {}, LockHeld, Publishing, [Next]_vars
    PROVE  Publishing'
<1> USE DEF askVars, queueVars, publicVars, inputVars, loopVars, history
<1>1. Runners = Workers BY DEF Undisturbed, Runners
<1>2. holdings <= holdings' /\ holdings' \in Nat
  <2>1. holdings' \in 0 .. MaxChanges BY DEF TypeOK
  <2> QED BY <2>1, Forward
<1>3. \A w \in Workers :
         pc'[w] \notin (ComputePC \ {"read"}) \cup {"ack"} => PublishingOf(w)'
  BY DEF PublishingOf, ComputePC
<1>4. CASE ~ \E r \in Runners : ComputeStep(r)
  <2>1. /\ UNCHANGED <<revision, wsSeq, staging, active, manifest, delivered, ingest>>
    BY <1>4, PublicFrame
  <2>2. Published'
    BY <1>2, <2>1, Numbers DEF Publishing, Published, ManifestDescribesActive
  <2>3. ASSUME NEW w \in Workers, pc'[w] = pc[w], work'[w] = work[w] PROVE PublishingOf(w)'
    <3>1. PublishingOf(w) BY DEF Publishing
    <3> QED BY <1>2, <2>1, <2>3, <3>1, Numbers DEF PublishingOf, Current
  <2>4. ASSUME NEW w \in Workers PROVE PublishingOf(w)'
    BY <1>1, <1>3, <1>4, <2>3, OwnStep
  <2> QED BY <2>2, <2>4 DEF Publishing
<1>5. ASSUME NEW w \in Workers, ComputeStep(w) PROVE Publishing'
  <2>1. holdings' = holdings /\ lock' = lock /\ pc[w] \in ComputePC /\ (\E next : Goto(w, next))
    BY <1>5 DEF ComputeStep, ReadHoldings, IncrIngest, DeleteRows, InsertRows, InsertRejected,
         Stage, IncrRevision, FetchStaging, Activate, WriteManifest, Unstage, IncrSeq,
         Publish, Save, ComputePC, Fails
  <2>2. ASSUME NEW v \in Workers \ {w} PROVE PublishingOf(v)'
    <3>1. ~ Locked(v) BY <2>1 DEF LockHeld, Locked, LockedPC
    <3>2. pc'[v] = pc[v] BY <2>1 DEF Goto, TypeOK, Runners
    <3> QED BY <1>3, <3>1, <3>2 DEF Locked, LockedPC
  <2>3. /\ PublishingOf(w) /\ Published
        /\ \A next : Goto(w, next) => pc'[w] = next
    BY <1>1 DEF Publishing, Goto, TypeOK
  <2>4. Published' /\ PublishingOf(w)'
    <3> DEFINE Done == Published' /\ PublishingOf(w)'
    <3>1. CASE ReadHoldings(w)
      <4>1. /\ pc'[w] = "ingest" /\ work'[w].data = holdings
            /\ UNCHANGED <<revision, wsSeq, staging, active, manifest, delivered, ingest>>
        BY <2>3, <3>1 DEF ReadHoldings, TypeOK, Runners
      <4> QED BY <2>1, <2>3, <4>1, Numbers DEF Published, PublishingOf, ManifestDescribesActive
    <3>2. CASE IncrIngest(w)
      <4>1. /\ pc'[w] = "clear" /\ work'[w].data = work[w].data
            /\ work'[w].ingest = ingest + 1 /\ ingest' = ingest + 1 /\ pc[w] = "ingest"
            /\ UNCHANGED <<revision, wsSeq, staging, active, manifest, delivered>>
        BY <2>3, <3>2 DEF IncrIngest, TypeOK, Runners
      <4> QED BY <2>1, <2>3, <4>1, Numbers DEF Published, PublishingOf, ManifestDescribesActive
    <3>3. CASE DeleteRows(w) \/ InsertRows(w)
      <4>1. /\ \/ pc[w] = "clear" /\ pc'[w] = "insert"
               \/ pc[w] = "insert" /\ pc'[w] = "stage"
            /\ work' = work
            /\ UNCHANGED <<revision, wsSeq, staging, active, manifest, delivered, ingest>>
        BY <2>3, <3>3, PiAssumption DEF DeleteRows, InsertRows
      <4> QED BY <2>1, <2>3, <4>1, Numbers DEF Published, PublishingOf, ManifestDescribesActive
    <3>4. CASE Stage(w)
      <4>1. /\ pc[w] = "stage" /\ pc'[w] = "bump" /\ work' = work /\ staging' = Current(w)
            /\ UNCHANGED <<revision, wsSeq, active, manifest, delivered, ingest>>
        BY <2>3, <3>4 DEF Stage, Result, Current
      <4> QED BY <2>1, <2>3, <4>1, Numbers
              DEF Published, PublishingOf, ManifestDescribesActive, Current
    <3>5. CASE IncrRevision(w)
      <4>1. /\ pc[w] = "bump" /\ pc'[w] = "fetch"
            /\ work' = [work EXCEPT ![w].rev = revision + 1] /\ revision' = revision + 1
            /\ UNCHANGED <<wsSeq, staging, active, manifest, delivered, ingest>>
        BY <2>3, <3>5 DEF IncrRevision
      <4>2. /\ work'[w].data = work[w].data /\ work'[w].ingest = work[w].ingest
            /\ work'[w].rev = revision + 1
        BY <4>1 DEF TypeOK, Runners
      <4> QED BY <2>1, <2>3, <4>1, <4>2, Numbers
              DEF Published, PublishingOf, ManifestDescribesActive, Current
    <3>6. CASE FetchStaging(w)
      <4>1. /\ pc[w] = "fetch" /\ pc'[w] = "activate"
            /\ work' = [work EXCEPT ![w].copy = IF staging = Nothing THEN Result(w) ELSE staging]
            /\ UNCHANGED <<revision, wsSeq, staging, active, manifest, delivered, ingest>>
        BY <2>3, <3>6 DEF FetchStaging
      <4>2. /\ work'[w].data = work[w].data /\ work'[w].ingest = work[w].ingest
            /\ work'[w].rev = work[w].rev
            /\ work'[w].copy = IF staging = Nothing THEN Result(w) ELSE staging
        BY <4>1 DEF TypeOK, Runners
      <4>3. work'[w].copy = Current(w)
        BY <2>3, <4>1, <4>2 DEF PublishingOf, Result, Current
      <4> QED BY <2>1, <2>3, <4>1, <4>2, <4>3, Numbers
              DEF Published, PublishingOf, ManifestDescribesActive, Current
    <3>7. CASE Activate(w)
      <4>1. /\ pc[w] = "activate" /\ pc'[w] = "manifest" /\ work' = work
            /\ active' = work[w].copy
            /\ UNCHANGED <<revision, wsSeq, staging, manifest, delivered, ingest>>
        BY <2>3, <3>7 DEF Activate
      <4>2. manifest # Nothing => manifest.rev < revision
        BY <2>3, <4>1 DEF PublishingOf
      <4> QED BY <2>1, <2>3, <4>1, <4>2, Numbers
              DEF Published, PublishingOf, ManifestDescribesActive, Current
    <3>8. CASE WriteManifest(w)
      <4>1. /\ pc[w] = "manifest" /\ pc'[w] = "unstage" /\ work' = work
            /\ manifest' = [data |-> work[w].data, ingest |-> work[w].ingest, rev |-> work[w].rev]
            /\ UNCHANGED <<revision, wsSeq, staging, active, delivered, ingest>>
        BY <2>3, <3>8 DEF WriteManifest
      <4>2. /\ manifest'.data = work[w].data /\ manifest'.ingest = work[w].ingest
            /\ manifest'.rev = work[w].rev
        BY <4>1
      <4> QED BY <2>1, <2>3, <4>1, <4>2, Numbers
              DEF Published, PublishingOf, ManifestDescribesActive, Current
    <3>9. CASE Unstage(w)
      <4>1. /\ pc[w] = "unstage" /\ pc'[w] \in {"seq", "save"} /\ work' = work
            /\ UNCHANGED <<revision, wsSeq, active, manifest, delivered, ingest>>
        BY <2>3, <3>9 DEF Unstage
      <4> QED BY <2>1, <2>3, <4>1, Numbers DEF Published, PublishingOf, ManifestDescribesActive
    <3>10. CASE IncrSeq(w)
      <4>1. /\ pc[w] = "seq" /\ pc'[w] = "publish"
            /\ work' = [work EXCEPT ![w].seq = wsSeq + 1] /\ wsSeq' = wsSeq + 1
            /\ UNCHANGED <<revision, staging, active, manifest, delivered, ingest>>
        BY <2>3, <3>10 DEF IncrSeq
      <4>2. work'[w].rev = work[w].rev /\ work'[w].seq = wsSeq + 1
        BY <4>1 DEF TypeOK, Runners
      <4> QED BY <2>1, <2>3, <4>1, <4>2, Numbers
              DEF Published, PublishingOf, ManifestDescribesActive
    <3>11. CASE Publish(w)
      <4>1. /\ pc[w] = "publish" /\ pc'[w] = "save" /\ work' = work
            /\ delivered' = [seq |-> work[w].seq, rev |-> work[w].rev]
            /\ UNCHANGED <<revision, wsSeq, staging, active, manifest, ingest>>
        BY <2>3, <3>11 DEF Publish
      <4>2. delivered'.seq = work[w].seq /\ delivered'.rev = work[w].rev BY <4>1
      <4> QED BY <2>1, <2>3, <4>1, <4>2, Numbers
              DEF Published, PublishingOf, ManifestDescribesActive
    <3>12. CASE Save(w) \/ InsertRejected(w)
      <4>1. /\ pc'[w] \in {"ack", "failAck"}
            /\ UNCHANGED <<revision, wsSeq, staging, active, manifest, delivered, ingest>>
        BY <2>3, <3>12, PiAssumption DEF Save, InsertRejected, Fails
      <4> QED BY <2>1, <2>3, <4>1, Numbers DEF Published, PublishingOf, ManifestDescribesActive
    <3> QED BY <1>5, <3>1, <3>2, <3>3, <3>4, <3>5, <3>6, <3>7, <3>8, <3>9, <3>10, <3>11, <3>12
            DEF ComputeStep
  <2> QED BY <2>2, <2>4 DEF Publishing
<1> QED BY <1>1, <1>4, <1>5

LEMMA PublishingAlways ==
    ASSUME Undisturbed
    PROVE  Spec => []Publishing
<1>1. Init => Publishing
  BY PiAssumption DEF Init, Publishing, Published, PublishingOf, ManifestDescribesActive, Runners
<1>2. TypeOK /\ TypeOK' /\ (lapsed = {} /\ LockHeld) /\ Publishing /\ [Next]_vars => Publishing'
  BY PublishingStep
<1> QED BY <1>1, <1>2, TypeCorrect, NobodyLapses, PTL DEF Spec

\* Readers who GET the manifest and then the analytics of the newest revision
\* find what the manifest describes, whichever workers throw, die between the
\* two SETs and leave their staging key behind: piPublish copies what it has
\* staged itself, under the user's lock.
THEOREM ReadersSeeOneRevision ==
    ASSUME Undisturbed
    PROVE  Spec => []ManifestDescribesActive
<1>1. Publishing => ManifestDescribesActive BY DEF Publishing, Published
<1> QED BY <1>1, PublishingAlways, PTL

\* A publication never goes back to older holdings, an older ingest or an older
\* revision, and clients hear of growing revisions with growing sequence numbers:
\* what processJob read under the lock is still the newest when it is published.
THEOREM ResultsAdvance ==
    ASSUME Undisturbed
    PROVE  Spec => PublicationsAdvance
<1> DEFINE Advance ==
      /\ manifest' # manifest /\ manifest # Nothing =>
            /\ manifest'.data >= manifest.data
            /\ manifest'.rev >= manifest.rev
            /\ manifest'.ingest >= manifest.ingest
      /\ delivered' # delivered =>
            delivered'.seq > delivered.seq /\ delivered'.rev > delivered.rev
<1>1. TypeOK /\ Publishing /\ [Next]_vars => [Advance]_<<manifest, delivered>>
  <2> SUFFICES ASSUME TypeOK, Publishing, [Next]_vars PROVE [Advance]_<<manifest, delivered>>
    OBVIOUS
  <2>1. CASE ~ \E r \in Runners : ComputeStep(r)
    BY <2>1, PublicFrame DEF publicVars
  <2>2. ASSUME NEW w \in Workers, ComputeStep(w) PROVE Advance
    <3>1. PublishingOf(w) BY DEF Publishing
    <3>2. CASE WriteManifest(w)
      <4>1. /\ pc[w] = "manifest" /\ delivered' = delivered
            /\ manifest'.data = work[w].data /\ manifest'.ingest = work[w].ingest
            /\ manifest'.rev = work[w].rev
        BY <3>2 DEF WriteManifest
      <4> QED BY <3>1, <4>1, Numbers DEF PublishingOf
    <3>3. CASE Publish(w)
      <4>1. /\ pc[w] = "publish" /\ manifest' = manifest
            /\ delivered'.seq = work[w].seq /\ delivered'.rev = work[w].rev
        BY <3>3 DEF Publish
      <4> QED BY <3>1, <4>1, Numbers DEF PublishingOf
    <3>4. CASE ~ WriteManifest(w) /\ ~ Publish(w)
      <4>1. UNCHANGED <<manifest, delivered>>
        BY <2>2, <3>4 DEF ComputeStep, ReadHoldings, IncrIngest, DeleteRows, InsertRows,
             InsertRejected, Stage, IncrRevision, FetchStaging, Activate, Unstage, IncrSeq,
             Save, publicVars
      <4> QED BY <4>1
    <3> QED BY <3>2, <3>3, <3>4
  <2> QED BY <2>1, <2>2 DEF Undisturbed, Runners
<1>2. Spec => [][Next]_vars BY PTL DEF Spec
<1>3. Spec => [][Advance]_<<manifest, delivered>>
  BY <1>1, <1>2, TypeCorrect, PublishingAlways, PTL
<1> QED BY <1>3 DEF PublicationsAdvance
=============================================================================
