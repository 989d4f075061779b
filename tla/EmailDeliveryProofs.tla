------------------------ MODULE EmailDeliveryProofs ------------------------
(***************************************************************************)
(* Theorems about EmailDelivery, for any number of jobs, workers, replay   *)
(* requests, attempts and failures.                                        *)
(***************************************************************************)
EXTENDS EmailDelivery, FiniteSetTheorems, TLAPS

---------------------------------------------------------------------------
(* Multisets: what LPUSH and LREM do to the copies of a payload.            *)

LEMMA PushType ==
    ASSUME NEW list \in [Entry -> Nat], NEW e \in Entry
    PROVE  /\ Push(list, e) \in [Entry -> Nat]
           /\ Push(list, e)[e] > 0
           /\ \A d \in Entry : list[d] > 0 => Push(list, e)[d] > 0
    BY DEF Push

LEMMA LremType ==
    ASSUME NEW list \in [Entry -> Nat], NEW e \in Entry
    PROVE  /\ Lrem(list, e) \in [Entry -> Nat]
           /\ \A d \in Entry : d # e => Lrem(list, e)[d] = list[d]
           /\ \A d \in Entry : Lrem(list, e)[d] <= list[d]
    BY DEF Lrem

LEMMA EntryType ==
    /\ \A j \in Jobs, g \in Gen : [job |-> j, attempt |-> 0, gen |-> g] \in Entry
    /\ \A r \in Replays : r \in Gen
    /\ Original \in Gen
    /\ \A e \in Entry : e.job \in Jobs /\ e.attempt \in 0 .. MaxAttempts - 1
    /\ \A e \in Entry : e.attempt + 1 < MaxAttempts
          => /\ [e EXCEPT !.attempt = @ + 1] \in Entry
             /\ [e EXCEPT !.attempt = @ + 1].job = e.job
    BY EmailAssumption DEF Entry, Gen

---------------------------------------------------------------------------
(* Type correctness.                                                        *)

\* Every variable stays in its type; a worker inside processJob has a payload.
THEOREM TypeCorrect == Spec => []TypeOK
<1>1. Init => TypeOK
  BY EmailAssumption DEF Init, TypeOK, EmptyList, Status, WorkerPC
<1>2. TypeOK /\ [Next]_vars => TypeOK'
  <2> SUFFICES ASSUME TypeOK, [Next]_vars PROVE TypeOK'
    OBVIOUS
  <2> USE DEF TypeOK, lists, local, replayVars, history
  <2>1. ASSUME NEW j \in Jobs, ClientStep(j) PROVE TypeOK'
    <3>1. CASE CreateJob(j) BY <3>1 DEF CreateJob, Status
    <3>2. CASE PushJob(j) BY <3>2, EntryType, PushType DEF PushJob
    <3>3. CASE PushFails(j) BY <3>3, EntryType, EmailAssumption, PushType DEF PushFails, Spend
    <3>4. CASE AbandonJob(j) BY <3>4 DEF AbandonJob, Status
    <3>5. CASE ClientDies(j) BY <3>5 DEF ClientDies
    <3> QED BY <2>1, <3>1, <3>2, <3>3, <3>4, <3>5 DEF ClientStep
  <2>2. ASSUME NEW j \in Jobs, LockExpires(j) PROVE TypeOK'
    BY <2>2 DEF LockExpires
  <2>3. ASSUME NEW w \in Workers, LoopStep(w) PROVE TypeOK'
    <3> USE DEF Goto, Drop, WorkerPC
    <3>1. CASE Boot(w) BY <3>1 DEF Boot
    <3>2. CASE RestoreOne(w)
      <4>1. PICK e \in Entry : /\ processing' = Lrem(processing, e)
                               /\ queue' = Push(queue, e)
        BY <3>2 DEF RestoreOne
      <4>2. processing' \in [Entry -> Nat] /\ queue' \in [Entry -> Nat]
        BY <4>1, PushType, LremType
      <4> QED BY <3>2, <4>2 DEF RestoreOne
    <3>3. CASE RestoreDone(w) BY <3>3 DEF RestoreDone
    <3>4. ASSUME NEW members \in SUBSET delayed, PromoteRead(w, members)
          PROVE TypeOK'
      BY <3>4 DEF PromoteRead
    <3>5. CASE PromotePush(w) BY <3>5, PushType DEF PromotePush
    <3>6. CASE PromoteRemove(w) BY <3>6 DEF PromoteRemove
    <3>7. ASSUME NEW e \in Entry, Pop(w, e) PROVE TypeOK'
      <4>1. processing' \in [Entry -> Nat] /\ queue' \in [Entry -> Nat]
        BY <3>7, PushType, LremType DEF Pop
      <4> QED BY <3>7, <4>1 DEF Pop
    <3>8. CASE PopTimeout(w) BY <3>8 DEF PopTimeout
    <3> QED BY <2>3, <3>1, <3>2, <3>3, <3>4, <3>5, <3>6, <3>7, <3>8 DEF LoopStep
  <2>4. ASSUME NEW w \in Workers, ProcessStep(w) PROVE TypeOK'
    <3> USE DEF Goto, Drop, WorkerPC
    <3>1. CASE Acquire(w)
      <4>1. Owner(w) \in LockValue BY <3>1, EntryType DEF Acquire, Owner, LockValue
      <4> QED BY <3>1, <4>1, EntryType DEF Acquire
    <3>2. CASE Collide(w) BY <3>2 DEF Collide
    <3>3. CASE CollideDelay(w) BY <3>3 DEF CollideDelay
    <3>4. CASE CollideAck(w)
      <4>1. processing' \in [Entry -> Nat] BY <3>4, LremType DEF CollideAck
      <4> QED BY <3>4, <4>1 DEF CollideAck
    <3>5. CASE MarkProcessing(w) BY <3>5, EntryType DEF MarkProcessing, Status
    <3>6. CASE SendAccepted(w) BY <3>6, EntryType DEF SendAccepted
    <3>7. CASE SendRejected(w) BY <3>7, EntryType, EmailAssumption DEF SendRejected, Verdict
    <3>8. CASE RecordSent(w) BY <3>8, EntryType DEF RecordSent, Status
    <3>9. CASE AckSent(w)
      <4>1. processing' \in [Entry -> Nat] BY <3>9, LremType DEF AckSent
      <4> QED BY <3>9, <4>1 DEF AckSent
    <3>10. CASE FailPut(w)
      <4>1. cur[w] \in Entry /\ pc[w] = "failPut" BY <3>10 DEF FailPut
      <4>2. delayed' \in SUBSET Entry /\ dlq' \in [Entry -> Nat]
        <5>1. CASE verdict[w] = "retrying"
          <6>1. [cur[w] EXCEPT !.attempt = @ + 1] \in Entry
            BY <4>1, <5>1, EntryType
          <6> QED BY <3>10, <5>1, <6>1 DEF FailPut
        <5>2. CASE verdict[w] # "retrying"
          <6>1. Push(dlq, cur[w]) \in [Entry -> Nat] BY <4>1, PushType
          <6> QED BY <3>10, <5>2, <6>1 DEF FailPut
        <5> QED BY <5>1, <5>2
      <4>3. /\ Goto(w, "failAck")
            /\ UNCHANGED <<client, doc, queue, processing, lock, cur, due, verdict,
                           replayVars, history>>
        BY <3>10 DEF FailPut
      <4> QED BY <4>1, <4>2, <4>3
    <3>11. CASE FailAck(w)
      <4>1. processing' \in [Entry -> Nat] BY <3>11, LremType DEF FailAck
      <4> QED BY <3>11, <4>1 DEF FailAck
    <3>12. CASE FailDoc(w) BY <3>12, EntryType DEF FailDoc, Status
    <3>13. CASE Release(w) BY <3>13, EntryType DEF Release
    <3> QED BY <2>4, <3>1, <3>2, <3>3, <3>4, <3>5, <3>6, <3>7, <3>8, <3>9,
               <3>10, <3>11, <3>12, <3>13 DEF ProcessStep
  <2>5. ASSUME NEW w \in Workers, FaultStep(w) PROVE TypeOK'
    <3> USE DEF Goto, Drop, Spend, WorkerPC
    <3>1. CASE SendAnswerLost(w) BY <3>1, EntryType, EmailAssumption DEF SendAnswerLost, Verdict
    <3>2. CASE ThrowAfterSend(w) BY <3>2, EntryType, EmailAssumption DEF ThrowAfterSend, Verdict
    <3>3. CASE ThrowInCatch(w) BY <3>3 DEF ThrowInCatch
    <3>4. CASE ThrowToLoop(w) BY <3>4 DEF ThrowToLoop
    <3>5. CASE Crash(w) BY <3>5 DEF Crash
    <3> QED BY <2>5, <3>1, <3>2, <3>3, <3>4, <3>5 DEF FaultStep
  <2>6. ASSUME NEW r \in Replays, ReplayStep(r) PROVE TypeOK'
    <3>1. CASE ReplayPeek(r) BY <3>1 DEF ReplayPeek
    <3>2. CASE ReplayRemove(r) BY <3>2, LremType DEF ReplayRemove
    <3>3. CASE ReplayPush(r) BY <3>3, EntryType, PushType DEF ReplayPush
    <3>4. CASE ReplayDoc(r) BY <3>4, EntryType DEF ReplayDoc, Status
    <3>5. CASE ReplayDies(r) BY <3>5, EntryType DEF ReplayDies
    <3> QED BY <2>6, <3>1, <3>2, <3>3, <3>4, <3>5 DEF ReplayStep
  <2>7. CASE UNCHANGED vars BY <2>7 DEF vars
  <2> QED BY <2>1, <2>2, <2>3, <2>4, <2>5, <2>6, <2>7 DEF Next
<1> QED BY <1>1, <1>2, PTL DEF Spec

---------------------------------------------------------------------------
(* The per-job lock.                                                        *)

\* Two workers never write the same owner value into a lock key.
LEMMA OwnersDiffer ==
    ASSUME DistinctPids, NEW v \in Workers, NEW w \in Workers, v # w
    PROVE  Owner(v) # Owner(w)
    BY DEF DistinctPids, Owner

\* A step that leaves the locks alone, lets no worker into processJob and
\* changes the payload of no worker inside keeps the lock invariant.
LEMMA LockFrame ==
    ASSUME TypeOK, CriticalSectionOwnsLock, lock' = lock,
           \A v \in Workers : Critical(v)' /\ v \notin lapsed'
               => Critical(v) /\ v \notin lapsed /\ cur'[v] = cur[v]
    PROVE  CriticalSectionOwnsLock'
    BY DEF CriticalSectionOwnsLock, Owner

\* A worker between SET NX and the compare-and-delete of processJob owns the
\* lock of its job unless the TTL ended under it: no other worker's release
\* takes the key away and no second worker gets in.
THEOREM LockIsOwned ==
    ASSUME DistinctPids
    PROVE  Spec => []CriticalSectionOwnsLock
<1>1. Init => CriticalSectionOwnsLock
  BY DEF Init, CriticalSectionOwnsLock, Critical, CriticalPC
<1>2. TypeOK /\ CriticalSectionOwnsLock /\ [Next]_vars => CriticalSectionOwnsLock'
  <2> SUFFICES ASSUME TypeOK, CriticalSectionOwnsLock, [Next]_vars
               PROVE  CriticalSectionOwnsLock'
    OBVIOUS
  <2> DEFINE Frame ==
        /\ lock' = lock
        /\ \A v \in Workers : Critical(v)' /\ v \notin lapsed'
               => Critical(v) /\ v \notin lapsed /\ cur'[v] = cur[v]
  <2> USE DEF TypeOK, Goto, Drop, Critical, CriticalPC
  <2>1. ASSUME NEW j \in Jobs, ClientStep(j) PROVE Frame
    BY <2>1 DEF ClientStep, CreateJob, PushJob, PushFails, AbandonJob,
                ClientDies, local, history
  <2>2. ASSUME NEW r \in Replays, ReplayStep(r) PROVE Frame
    BY <2>2 DEF ReplayStep, ReplayPeek, ReplayRemove, ReplayPush, ReplayDoc,
                ReplayDies, local, history
  <2>3. ASSUME NEW w \in Workers, LoopStep(w) PROVE Frame
    BY <2>3 DEF LoopStep, Boot, RestoreOne, RestoreDone, PromoteRead, PromotePush,
                PromoteRemove, Pop, PopTimeout, local, history
  <2>4. ASSUME NEW w \in Workers, FaultStep(w) PROVE Frame
    BY <2>4 DEF FaultStep, SendAnswerLost, ThrowAfterSend, ThrowInCatch,
                ThrowToLoop, Crash
  <2>5. ASSUME NEW w \in Workers,
               \/ Collide(w) \/ CollideDelay(w) \/ CollideAck(w)
               \/ MarkProcessing(w) \/ SendAccepted(w) \/ SendRejected(w)
               \/ RecordSent(w) \/ AckSent(w)
               \/ FailPut(w) \/ FailAck(w) \/ FailDoc(w)
        PROVE  Frame
    BY <2>5 DEF Collide, CollideDelay, CollideAck, MarkProcessing, SendAccepted,
                SendRejected, RecordSent, AckSent, FailPut, FailAck, FailDoc, history
  <2>6. ASSUME NEW w \in Workers, Acquire(w) PROVE CriticalSectionOwnsLock'
    <3>1. \A v \in Workers \ {w} :
             Critical(v) /\ v \notin lapsed => cur[v].job # cur[w].job
      <4> SUFFICES ASSUME NEW v \in Workers \ {w}, Critical(v), v \notin lapsed,
                          cur[v].job = cur[w].job
                   PROVE  FALSE
        OBVIOUS
      <4>1. lock[cur[w].job] = Owner(v) BY DEF CriticalSectionOwnsLock
      <4>2. Owner(v) \in LockValue BY EntryType DEF Owner, LockValue
      <4> QED BY <4>1, <4>2, <2>6, FreeAssumption DEF Acquire
    <3>2. cur[w] \in Entry BY <2>6 DEF Acquire
    <3> QED BY <2>6, <3>1, <3>2, EntryType
            DEF Acquire, CriticalSectionOwnsLock, Owner, history
  <2>7. ASSUME NEW w \in Workers, Release(w) PROVE CriticalSectionOwnsLock'
    <3> SUFFICES ASSUME NEW v \in Workers, Critical(v)', v \notin lapsed'
                 PROVE  lock'[cur'[v].job] = Owner(v)'
      BY DEF CriticalSectionOwnsLock
    <3>1. v # w /\ Critical(v) /\ v \notin lapsed /\ cur'[v] = cur[v]
      BY <2>7 DEF Release
    <3>2. lock[cur[v].job] = Owner(v) BY <3>1 DEF CriticalSectionOwnsLock
    <3>3. Owner(v) # Owner(w) BY <3>1, OwnersDiffer
    <3>4. cur[v].job \in Jobs BY <3>1, EntryType
    <3>5. lock'[cur[v].job] = lock[cur[v].job]
      BY <2>7, <3>2, <3>3, <3>4 DEF Release
    <3> QED BY <3>1, <3>2, <3>5 DEF Owner
  <2>8. ASSUME NEW j \in Jobs, LockExpires(j) PROVE CriticalSectionOwnsLock'
    BY <2>8, EntryType DEF LockExpires, HoldsLock, CriticalSectionOwnsLock, Owner, local
  <2>9. CASE UNCHANGED vars
    BY <2>9 DEF vars, local, history, CriticalSectionOwnsLock, Owner
  <2>10. Frame => CriticalSectionOwnsLock' BY LockFrame
  <2> QED BY <2>1, <2>2, <2>3, <2>4, <2>5, <2>6, <2>7, <2>8, <2>9, <2>10
          DEF Next, ProcessStep
<1> QED BY <1>1, <1>2, TypeCorrect, PTL DEF Spec
---------------------------------------------------------------------------
(* No mail is lost.                                                         *)

\* The mail of job j is out, or it is somewhere a worker or an admin will
\* find it again, apart from the list of payloads in flight.
Kept(j) == sends[j] > 0 \/ Waiting(j) \/ Dead(j) \/ j \in dropped

\* What the only worker knows at each call: its payload is in flight until it
\* is acknowledged, and whatever removes a copy finds the next one in place.
Handover ==
    \A w \in Workers :
        /\ pc[w] \in {"acquire", "delay", "delayAck", "mark", "send", "recordSent",
                      "ackSent", "failPut", "failAck"} => processing[cur[w]] > 0
        /\ pc[w] = "delayAck" => cur[w] \in delayed
        /\ pc[w] = "zrem" => queue[cur[w]] > 0
        /\ pc[w] \in {"recordSent", "ackSent"} => sends[cur[w].job] > 0
        /\ pc[w] = "failAck" => Kept(cur[w].job)
        /\ due[w] \subseteq delayed

\* Requests only add copies, and a replay passes its copy on or drops it.
LEMMA ClientKeeps ==
    ASSUME TypeOK, NEW i \in Jobs, ClientStep(i), NEW j \in Jobs, Kept(j)
    PROVE  Kept(j)'
<1> USE DEF Kept, Waiting, Dead, TypeOK, lists, local, replayVars, history
<1>1. CASE CreateJob(i) BY <1>1 DEF CreateJob
<1>2. CASE PushJob(i)
  <2>1. \A e \in Entry : queue[e] > 0 => queue'[e] > 0
    BY <1>2, EntryType, PushType DEF PushJob
  <2> QED BY <1>2, <2>1 DEF PushJob
<1>3. CASE PushFails(i)
  <2>1. \A e \in Entry : queue[e] > 0 => queue'[e] > 0
    <3>1. queue' = queue \/ queue' = Push(queue, [job |-> i, attempt |-> 0, gen |-> Original])
      BY <1>3 DEF PushFails
    <3>2. [job |-> i, attempt |-> 0, gen |-> Original] \in Entry BY EntryType
    <3> QED BY <3>1, <3>2, PushType
  <2> QED BY <1>3, <2>1 DEF PushFails
<1>4. CASE AbandonJob(i) BY <1>4 DEF AbandonJob
<1>5. CASE ClientDies(i) BY <1>5 DEF ClientDies
<1> QED BY <1>1, <1>2, <1>3, <1>4, <1>5 DEF ClientStep

LEMMA ReplayKeeps ==
    ASSUME TypeOK, NEW r \in Replays, ReplayStep(r), NEW j \in Jobs, Kept(j)
    PROVE  Kept(j)'
<1> USE DEF TypeOK, lists, local, replayVars, history
<1>1. CASE ReplayPeek(r)
  <2>1. \A s \in Replays : admin[s] = "lpush" => admin'[s] = "lpush" /\ found'[s] = found[s]
    BY <1>1 DEF ReplayPeek
  <2> QED BY <1>1, <2>1 DEF ReplayPeek, Kept, Waiting, Dead
<1>2. CASE ReplayRemove(r)
  <2>1. \A e \in Entry : e # found[r] => dlq'[e] = dlq[e]
    BY <1>2, LremType DEF ReplayRemove
  <2>2. \A s \in Replays : admin[s] = "lpush" => admin'[s] = "lpush"
    BY <1>2 DEF ReplayRemove
  <2>3. admin'[r] = "lpush" /\ UNCHANGED <<queue, delayed, found, sends, dropped>>
    BY <1>2 DEF ReplayRemove
  <2>4. CASE \E e \in Entry : e.job = j /\ dlq[e] > 0
    <3>1. PICK e \in Entry : e.job = j /\ dlq[e] > 0 BY <2>4
    <3>2. CASE e = found[r] BY <3>1, <3>2, <2>3 DEF Kept, Dead
    <3>3. CASE e # found[r] BY <3>1, <3>3, <2>1 DEF Kept, Dead
    <3> QED BY <3>2, <3>3
  <2> QED BY <2>2, <2>3, <2>4 DEF Kept, Waiting, Dead
<1>3. CASE ReplayPush(r)
  <2> DEFINE new == [job |-> found[r].job, attempt |-> 0, gen |-> r]
  <2>1. new \in Entry /\ new.job = found[r].job BY <1>3, EntryType DEF ReplayPush
  <2>2. queue'[new] > 0 /\ \A e \in Entry : queue[e] > 0 => queue'[e] > 0
    BY <1>3, <2>1, PushType DEF ReplayPush
  <2>3. \A s \in Replays \ {r} : admin'[s] = admin[s] BY <1>3 DEF ReplayPush
  <2>4. UNCHANGED <<dlq, delayed, found, sends, dropped>> BY <1>3 DEF ReplayPush
  <2>5. CASE found[r].job = j BY <2>1, <2>2, <2>5 DEF Kept, Waiting
  <2>6. CASE found[r].job # j BY <2>2, <2>3, <2>4, <2>6 DEF Kept, Waiting, Dead
  <2> QED BY <2>5, <2>6
<1>4. CASE ReplayDoc(r)
  <2>1. \A s \in Replays : admin[s] = "lpush" => admin'[s] = "lpush" BY <1>4 DEF ReplayDoc
  <2> QED BY <1>4, <2>1 DEF ReplayDoc, Kept, Waiting, Dead
<1>5. CASE ReplayDies(r)
  <2>1. \A s \in Replays \ {r} : admin'[s] = admin[s] BY <1>5 DEF ReplayDies
  <2>2. dropped \subseteq dropped' /\ UNCHANGED <<queue, delayed, dlq, found, sends>>
    BY <1>5 DEF ReplayDies
  <2>3. CASE admin[r] = "lpush" /\ found[r].job = j
    BY <1>5, <2>3 DEF ReplayDies, Kept
  <2>4. CASE ~ (admin[r] = "lpush" /\ found[r].job = j)
    BY <2>1, <2>2, <2>4 DEF Kept, Waiting, Dead
  <2> QED BY <2>3, <2>4
<1> QED BY <1>1, <1>2, <1>3, <1>4, <1>5 DEF ReplayStep

\* A step that leaves the worker and its lists alone and loses no mail.
LEMMA HandoverFrame ==
    ASSUME TypeOK, Handover, UNCHANGED <<processing, delayed, local, sends>>,
           \A e \in Entry : queue[e] > 0 => queue'[e] > 0,
           \A j \in Jobs : Kept(j) => Kept(j)'
    PROVE  Handover'
<1> SUFFICES ASSUME NEW w \in Workers
             PROVE  /\ pc[w] \in {"acquire", "delay", "delayAck", "mark", "send", "recordSent",
                                  "ackSent", "failPut", "failAck"} => processing[cur[w]] > 0
                    /\ pc[w] = "delayAck" => cur[w] \in delayed
                    /\ pc[w] = "zrem" => queue'[cur[w]] > 0
                    /\ pc[w] \in {"recordSent", "ackSent"} => sends[cur[w].job] > 0
                    /\ pc[w] = "failAck" => Kept(cur[w].job)'
                    /\ due[w] \subseteq delayed
  BY DEF Handover, local
<1>1. pc[w] \in {"zrem", "failAck"} => cur[w] \in Entry /\ cur[w].job \in Jobs
  BY EntryType DEF TypeOK
<1> QED BY <1>1 DEF Handover, local

LEMMA HandoverStep ==
    ASSUME OneWorker, TypeOK, Handover, [Next]_vars
    PROVE  Handover'
<1> USE DEF TypeOK, lists, local, replayVars, history
<1>1. ASSUME NEW i \in Jobs, ClientStep(i) PROVE Handover'
  <2>1. UNCHANGED <<processing, delayed, local, sends>>
    BY <1>1 DEF ClientStep, CreateJob, PushJob, PushFails, AbandonJob, ClientDies
  <2>2. \A e \in Entry : queue[e] > 0 => queue'[e] > 0
    <3> DEFINE new == [job |-> i, attempt |-> 0, gen |-> Original]
    <3>1. queue' = queue \/ queue' = Push(queue, new)
      BY <1>1 DEF ClientStep, CreateJob, PushJob, PushFails, AbandonJob, ClientDies
    <3>2. new \in Entry /\ queue \in [Entry -> Nat] BY EntryType
    <3> HIDE DEF new
    <3> QED BY <3>1, <3>2, PushType
  <2> QED BY <1>1, <2>1, <2>2, ClientKeeps, HandoverFrame
<1>2. ASSUME NEW i \in Jobs, LockExpires(i) PROVE Handover'
  BY <1>2 DEF LockExpires, Handover, Kept, Waiting, Dead
<1>3. ASSUME NEW r \in Replays, ReplayStep(r) PROVE Handover'
  <2>1. UNCHANGED <<processing, delayed, local, sends>>
    BY <1>3 DEF ReplayStep, ReplayPeek, ReplayRemove, ReplayPush, ReplayDoc, ReplayDies
  <2>2. \A e \in Entry : queue[e] > 0 => queue'[e] > 0
    <3>1. CASE ReplayPush(r) BY <3>1, EntryType, PushType DEF ReplayPush
    <3>2. CASE ~ ReplayPush(r)
      BY <1>3, <3>2 DEF ReplayStep, ReplayPeek, ReplayRemove, ReplayDoc, ReplayDies
    <3> QED BY <3>1, <3>2
  <2> QED BY <1>3, <2>1, <2>2, ReplayKeeps, HandoverFrame
<1>4. ASSUME NEW w \in Workers, LoopStep(w) PROVE Handover'
  <2>0. \A v \in Workers : v = w BY DEF OneWorker
  <2> USE DEF Goto, Drop, Handover
  <2>1. CASE Boot(w) BY <2>0, <2>1 DEF Boot, Kept, Waiting, Dead
  <2>2. CASE RestoreOne(w) BY <2>0, <2>2 DEF RestoreOne
  <2>3. CASE RestoreDone(w) BY <2>0, <2>3 DEF RestoreDone
  <2>4. ASSUME NEW members \in SUBSET delayed, PromoteRead(w, members) PROVE Handover'
    BY <2>0, <2>4 DEF PromoteRead
  <2>5. CASE PromotePush(w)
    <3>1. PICK e \in due[w] : queue' = Push(queue, e) /\ cur' = [cur EXCEPT ![w] = e]
      BY <2>5 DEF PromotePush
    <3>2. e \in Entry /\ cur'[w] = e /\ queue'[e] > 0 BY <3>1, PushType
    <3> QED BY <2>0, <2>5, <3>2 DEF PromotePush
  <2>6. CASE PromoteRemove(w) BY <2>0, <2>6 DEF PromoteRemove
  <2>7. ASSUME NEW e \in Entry, Pop(w, e) PROVE Handover'
    <3>1. processing'[e] > 0 /\ cur'[w] = e BY <2>7, PushType DEF Pop
    <3> QED BY <2>0, <2>7, <3>1 DEF Pop
  <2>8. CASE PopTimeout(w) BY <2>0, <2>8 DEF PopTimeout
  <2> QED BY <1>4, <2>1, <2>2, <2>3, <2>4, <2>5, <2>6, <2>7, <2>8 DEF LoopStep
<1>5. ASSUME NEW w \in Workers, ProcessStep(w) PROVE Handover'
  <2>0. \A v \in Workers : v = w BY DEF OneWorker
  <2> USE DEF Goto, Drop, Handover
  <2>1. CASE Acquire(w) BY <2>0, <2>1 DEF Acquire
  <2>2. CASE Collide(w) BY <2>0, <2>2 DEF Collide
  <2>3. CASE CollideDelay(w) BY <2>0, <2>3 DEF CollideDelay
  <2>4. CASE CollideAck(w) BY <2>0, <2>4 DEF CollideAck
  <2>5. CASE MarkProcessing(w) BY <2>0, <2>5 DEF MarkProcessing
  <2>6. CASE SendAccepted(w)
    <3>1. sends'[cur[w].job] > 0 BY <2>6, EntryType DEF SendAccepted
    <3> QED BY <2>0, <2>6, <3>1 DEF SendAccepted
  <2>7. CASE SendRejected(w) BY <2>0, <2>7 DEF SendRejected
  <2>8. CASE RecordSent(w) BY <2>0, <2>8 DEF RecordSent
  <2>9. CASE AckSent(w) BY <2>0, <2>9 DEF AckSent
  <2>10. CASE FailPut(w)
    <3>1. cur[w] \in Entry /\ pc[w] = "failPut" BY <2>10 DEF FailPut
    <3>2. Kept(cur[w].job)'
      <4>1. CASE verdict[w] = "retrying"
        <5> DEFINE next == [cur[w] EXCEPT !.attempt = @ + 1]
        <5>1. next \in Entry /\ next.job = cur[w].job BY <3>1, <4>1, EntryType
        <5>2. next \in delayed' /\ cur'[w] = cur[w] BY <2>10, <4>1 DEF FailPut
        <5> QED BY <5>1, <5>2 DEF Kept, Waiting
      <4>2. CASE verdict[w] # "retrying"
        <5>1. dlq'[cur[w]] > 0 /\ cur'[w] = cur[w]
          BY <2>10, <3>1, <4>2, PushType DEF FailPut
        <5> QED BY <3>1, <5>1 DEF Kept, Dead
      <4> QED BY <4>1, <4>2
    <3>3. /\ Goto(w, "failAck") /\ delayed \subseteq delayed'
          /\ UNCHANGED <<processing, cur, due>>
      BY <2>10 DEF FailPut
    <3> QED BY <2>0, <3>1, <3>2, <3>3
  <2>11. CASE FailAck(w) BY <2>0, <2>11 DEF FailAck
  <2>12. CASE FailDoc(w) BY <2>0, <2>12 DEF FailDoc
  <2>13. CASE Release(w) BY <2>0, <2>13 DEF Release
  <2> QED BY <1>5, <2>1, <2>2, <2>3, <2>4, <2>5, <2>6, <2>7, <2>8, <2>9, <2>10,
             <2>11, <2>12, <2>13 DEF ProcessStep
<1>6. ASSUME NEW w \in Workers, FaultStep(w) PROVE Handover'
  <2>0. \A v \in Workers : v = w BY DEF OneWorker
  <2> USE DEF Goto, Drop, Handover
  <2>1. CASE SendAnswerLost(w) BY <2>0, <2>1 DEF SendAnswerLost
  <2>2. CASE ThrowAfterSend(w) BY <2>0, <2>2 DEF ThrowAfterSend
  <2>3. CASE ThrowInCatch(w) BY <2>0, <2>3 DEF ThrowInCatch
  <2>4. CASE ThrowToLoop(w) BY <2>0, <2>4 DEF ThrowToLoop
  <2>5. CASE Crash(w) BY <2>0, <2>5 DEF Crash
  <2> QED BY <1>6, <2>1, <2>2, <2>3, <2>4, <2>5 DEF FaultStep
<1>7. CASE UNCHANGED vars BY <1>7 DEF vars, Handover, Kept, Waiting, Dead
<1> QED BY <1>1, <1>2, <1>3, <1>4, <1>5, <1>6, <1>7 DEF Next

\* A worker's step that can only take copies of one payload, of whose mail a
\* copy is left.
LEMMA OneCopyMoves ==
    ASSUME TypeOK, NEW e \in Entry,
           \A d \in Entry \ {e} : /\ queue[d] > 0 => queue'[d] > 0
                                  /\ processing[d] > 0 => processing'[d] > 0
                                  /\ d \in delayed => d \in delayed',
           \A d \in Entry : dlq[d] > 0 => dlq'[d] > 0,
           \A j \in Jobs : sends[j] > 0 => sends'[j] > 0,
           UNCHANGED <<admin, found, dropped>>,
           Kept(e.job)' \/ InFlight(e.job)',
           NEW j \in Jobs, Kept(j) \/ InFlight(j)
    PROVE  Kept(j)' \/ InFlight(j)'
<1>1. CASE j = e.job BY <1>1
<1>2. CASE j # e.job BY <1>2 DEF Kept, Waiting, Dead, InFlight
<1> QED BY <1>1, <1>2

\* Once a mail is owed, no step forgets it.
LEMMA StillOwed ==
    ASSUME OneWorker, TypeOK, Handover, [Next]_vars,
           NEW j \in Jobs, Kept(j) \/ InFlight(j)
    PROVE  Kept(j)' \/ InFlight(j)'
<1> USE DEF TypeOK, lists, local, replayVars, history
<1>1. ASSUME NEW i \in Jobs, ClientStep(i) PROVE Kept(j)' \/ InFlight(j)'
  <2>1. processing' = processing
    BY <1>1 DEF ClientStep, CreateJob, PushJob, PushFails, AbandonJob, ClientDies
  <2> QED BY <1>1, <2>1, ClientKeeps DEF InFlight
<1>2. ASSUME NEW i \in Jobs, LockExpires(i) PROVE Kept(j)' \/ InFlight(j)'
  BY <1>2 DEF LockExpires, Kept, Waiting, Dead, InFlight
<1>3. ASSUME NEW r \in Replays, ReplayStep(r) PROVE Kept(j)' \/ InFlight(j)'
  <2>1. processing' = processing
    BY <1>3 DEF ReplayStep, ReplayPeek, ReplayRemove, ReplayPush, ReplayDoc, ReplayDies
  <2> QED BY <1>3, <2>1, ReplayKeeps DEF InFlight
<1>4. ASSUME NEW w \in Workers, LoopStep(w) PROVE Kept(j)' \/ InFlight(j)'
  <2> USE DEF Goto, Drop
  <2>1. CASE Boot(w) BY <2>1 DEF Boot, Kept, Waiting, Dead, InFlight
  <2>2. CASE RestoreOne(w)
    <3>1. PICK e \in Entry : /\ processing' = Lrem(processing, e)
                             /\ queue' = Push(queue, e)
      BY <2>2 DEF RestoreOne
    <3>2. queue'[e] > 0 /\ \A d \in Entry : queue[d] > 0 => queue'[d] > 0 BY <3>1, PushType
    <3>3. \A d \in Entry \ {e} : processing'[d] = processing[d] BY <3>1, LremType
    <3>4. Kept(e.job)' BY <3>2 DEF Kept, Waiting
    <3> QED BY <2>2, <3>2, <3>3, <3>4, OneCopyMoves DEF RestoreOne
  <2>3. CASE RestoreDone(w) BY <2>3 DEF RestoreDone, Kept, Waiting, Dead, InFlight
  <2>4. ASSUME NEW members \in SUBSET delayed, PromoteRead(w, members)
        PROVE  Kept(j)' \/ InFlight(j)'
    BY <2>4 DEF PromoteRead, Kept, Waiting, Dead, InFlight
  <2>5. CASE PromotePush(w)
    <3>1. PICK e \in due[w] : queue' = Push(queue, e) BY <2>5 DEF PromotePush
    <3>2. \A d \in Entry : queue[d] > 0 => queue'[d] > 0 BY <3>1, PushType
    <3> QED BY <2>5, <3>2 DEF PromotePush, Kept, Waiting, Dead, InFlight
  <2>6. CASE PromoteRemove(w)
    <3>1. PICK e \in Entry : e = cur[w] /\ queue'[e] > 0
      BY <2>6 DEF PromoteRemove, Handover
    <3>2. Kept(e.job)' BY <3>1 DEF Kept, Waiting
    <3> QED BY <2>6, <3>1, <3>2, OneCopyMoves DEF PromoteRemove
  <2>7. ASSUME NEW e \in Entry, Pop(w, e) PROVE Kept(j)' \/ InFlight(j)'
    <3>1. processing'[e] > 0 /\ \A d \in Entry : processing[d] > 0 => processing'[d] > 0
      BY <2>7, PushType DEF Pop
    <3>2. \A d \in Entry \ {e} : queue'[d] = queue[d] BY <2>7, LremType DEF Pop
    <3>3. InFlight(e.job)' BY <3>1 DEF InFlight
    <3> QED BY <2>7, <3>1, <3>2, <3>3, OneCopyMoves DEF Pop
  <2>8. CASE PopTimeout(w) BY <2>8 DEF PopTimeout, Kept, Waiting, Dead, InFlight
  <2> QED BY <1>4, <2>1, <2>2, <2>3, <2>4, <2>5, <2>6, <2>7, <2>8 DEF LoopStep
<1>5. ASSUME NEW w \in Workers,
             \/ Acquire(w) \/ Collide(w) \/ MarkProcessing(w) \/ SendRejected(w)
             \/ RecordSent(w) \/ FailDoc(w) \/ Release(w)
             \/ ThrowAfterSend(w) \/ ThrowInCatch(w) \/ ThrowToLoop(w) \/ Crash(w)
      PROVE  Kept(j)' \/ InFlight(j)'
  <2>1. UNCHANGED <<lists, replayVars, sends, dropped>>
    BY <1>5 DEF Acquire, Collide, MarkProcessing, SendRejected, RecordSent, FailDoc,
                Release, ThrowAfterSend, ThrowInCatch, ThrowToLoop, Crash
  <2> QED BY <2>1 DEF Kept, Waiting, Dead, InFlight
<1>6. ASSUME NEW w \in Workers, SendAccepted(w) \/ SendAnswerLost(w)
      PROVE  Kept(j)' \/ InFlight(j)'
  <2>1. UNCHANGED <<lists, replayVars, dropped>> BY <1>6 DEF SendAccepted, SendAnswerLost
  <2>2. \A i \in Jobs : sends[i] > 0 => sends'[i] > 0
    BY <1>6 DEF SendAccepted, SendAnswerLost
  <2> QED BY <2>1, <2>2 DEF Kept, Waiting, Dead, InFlight
<1>7. ASSUME NEW w \in Workers, CollideDelay(w) \/ FailPut(w)
      PROVE  Kept(j)' \/ InFlight(j)'
  <2>1. cur[w] \in Entry BY <1>7 DEF CollideDelay, FailPut
  <2>2. \A d \in Entry : dlq[d] > 0 => dlq'[d] > 0
    BY <1>7, <2>1, PushType DEF CollideDelay, FailPut
  <2>3. delayed \subseteq delayed' /\ UNCHANGED <<queue, processing, replayVars, sends, dropped>>
    BY <1>7 DEF CollideDelay, FailPut
  <2> QED BY <2>2, <2>3 DEF Kept, Waiting, Dead, InFlight
<1>8. ASSUME NEW w \in Workers, CollideAck(w) \/ AckSent(w) \/ FailAck(w)
      PROVE  Kept(j)' \/ InFlight(j)'
  <2>1. cur[w] \in Entry /\ cur[w].job \in Jobs
    BY <1>8, EntryType DEF CollideAck, AckSent, FailAck
  <2>2. Kept(cur[w].job)
    BY <1>8, <2>1 DEF CollideAck, AckSent, FailAck, Handover, Kept, Waiting
  <2>3. UNCHANGED <<queue, delayed, dlq, replayVars, sends, dropped>>
    BY <1>8 DEF CollideAck, AckSent, FailAck
  <2>4. \A i \in Jobs : Kept(i) => Kept(i)' BY <2>3 DEF Kept, Waiting, Dead
  <2>5. processing' = Lrem(processing, cur[w]) BY <1>8 DEF CollideAck, AckSent, FailAck
  <2>6. CASE Kept(j) BY <2>4, <2>6
  <2>7. CASE InFlight(j) /\ j # cur[w].job BY <2>1, <2>5, <2>7, LremType DEF InFlight
  <2> QED BY <2>1, <2>2, <2>4, <2>6, <2>7
<1>9. CASE UNCHANGED vars BY <1>9 DEF vars, Kept, Waiting, Dead, InFlight
<1> QED BY <1>1, <1>2, <1>3, <1>4, <1>5, <1>6, <1>7, <1>8, <1>9
        DEF Next, ProcessStep, FaultStep

\* The worker's knowledge holds at every moment.
LEMMA HandoverAlways ==
    ASSUME OneWorker
    PROVE  Spec => []Handover
<1>1. Init => Handover
  BY DEF Init, Handover
<1>2. TypeOK /\ Handover /\ [Next]_vars => Handover'
  BY HandoverStep
<1> QED BY <1>1, <1>2, TypeCorrect, PTL DEF Spec

\* With one worker, a mail that was accepted is out or a copy of it is queued,
\* delayed, in flight or dead-lettered, whatever calls fail, whenever processes
\* die and however many replays run, except one that dies with the last copy.
THEOREM NoMailIsLost ==
    ASSUME OneWorker
    PROVE  Spec => []NoLostJob
<1>1. Init => NoLostJob
  BY DEF Init, NoLostJob
<1>2. TypeOK /\ Handover /\ NoLostJob /\ [Next]_vars => NoLostJob'
  <2> SUFFICES ASSUME TypeOK, Handover, NoLostJob, [Next]_vars,
                      NEW j \in Jobs, client'[j] = "accepted"
               PROVE  Kept(j)' \/ InFlight(j)'
    BY DEF NoLostJob, Kept
  <2>1. CASE client[j] = "accepted"
    BY <2>1, StillOwed DEF NoLostJob, Kept
  <2>2. CASE client[j] # "accepted"
    <3>1. ASSUME NEW w \in Workers, LoopStep(w) \/ ProcessStep(w) \/ FaultStep(w)
          PROVE  UNCHANGED client
      <4>1. LoopStep(w) => UNCHANGED client
        BY DEF LoopStep, Boot, RestoreOne, RestoreDone, PromoteRead, PromotePush,
           PromoteRemove, Pop, PopTimeout
      <4>2. ProcessStep(w) => UNCHANGED client
        BY DEF ProcessStep, Acquire, Collide, CollideDelay, CollideAck, MarkProcessing,
           SendAccepted, SendRejected, RecordSent, AckSent, FailPut, FailAck, FailDoc, Release
      <4>3. FaultStep(w) => UNCHANGED client
        BY DEF FaultStep, SendAnswerLost, ThrowAfterSend, ThrowInCatch, ThrowToLoop, Crash
      <4> QED BY <3>1, <4>1, <4>2, <4>3
    <3>2. ASSUME NEW i \in Jobs, LockExpires(i) PROVE UNCHANGED client
      BY <3>2 DEF LockExpires
    <3>3. ASSUME NEW r \in Replays, ReplayStep(r) PROVE UNCHANGED client
      BY <3>3 DEF ReplayStep, ReplayPeek, ReplayRemove, ReplayPush, ReplayDoc, ReplayDies
    <3>4. ASSUME NEW i \in Jobs, ClientStep(i), ~ PushJob(i) PROVE client'[j] # "accepted"
      BY <2>2, <3>4 DEF ClientStep, CreateJob, PushFails, AbandonJob, ClientDies, TypeOK
    <3>5. ASSUME NEW i \in Jobs, PushJob(i), i # j PROVE client'[j] # "accepted"
      BY <2>2, <3>5 DEF PushJob, TypeOK
    <3>6. PushJob(j)
      BY <2>2, <3>1, <3>2, <3>3, <3>4, <3>5 DEF Next, vars
    <3> DEFINE new == [job |-> j, attempt |-> 0, gen |-> Original]
    <3>7. new \in Entry /\ new.job = j /\ queue'[new] > 0
      BY <3>6, EntryType, PushType DEF PushJob, TypeOK
    <3> QED BY <3>7 DEF Kept, Waiting
  <2> QED BY <2>1, <2>2
<1> QED BY <1>1, <1>2, HandoverAlways, TypeCorrect, PTL DEF Spec

---------------------------------------------------------------------------
(* The pipeline implements MailContract.                                    *)

\* A step that leaves a mail's lists, its replays, its request and its count
\* of deliveries as they are leaves its phase as it is.
LEMMA PhaseFrame ==
    ASSUME NEW j \in Jobs,
           client'[j] = client[j], sends'[j] = sends[j],
           Held(j)' <=> Held(j), Parked(j)' <=> Parked(j)
    PROVE  Phase(j)' = Phase(j)
    BY DEF Phase

\* A step of a worker or of the API touches the copies of one mail only.
LEMMA OthersStay ==
    ASSUME NEW m \in Jobs,
           \A e \in Entry : e.job # m =>
               /\ queue'[e] = queue[e] /\ processing'[e] = processing[e]
               /\ dlq'[e] = dlq[e] /\ (e \in delayed' <=> e \in delayed),
           \A j \in Jobs \ {m} : client'[j] = client[j] /\ sends'[j] = sends[j],
           UNCHANGED <<admin, found>>,
           NEW j \in Jobs \ {m}
    PROVE  Phase(j)' = Phase(j)
<1>1. Held(j)' <=> Held(j) BY DEF Held, Waiting, InFlight
<1>2. Parked(j)' <=> Parked(j) BY DEF Parked, Dead
<1> QED BY <1>1, <1>2, PhaseFrame

\* What the contract lets one mail do in one step, as a step of the contract.
LEMMA Simulate ==
    ASSUME NEW m \in Jobs, \A j \in Jobs \ {m} : Phase(j)' = Phase(j),
           dropped' = dropped,
           \/ Phase(m)' = Phase(m)
           \/ Phase(m) = "unasked" /\ Phase(m)' = "owed"
           \/ Phase(m) \in {"unasked", "owed"} /\ Phase(m)' = "delivered"
           \/ Phase(m) = "owed" /\ Phase(m)' = "parked"
           \/ Phase(m) = "parked" /\ Phase(m)' = "owed"
           \/ m \in dropped /\ Phase(m) \in {"owed", "parked"} /\ Phase(m)' = "gone"
    PROVE  [Contract!Next]_(Contract!vars)
<1> USE DEF Contract!Next, Contract!Move
<1>1. /\ ContractState[m] = Phase(m) /\ ContractState'[m] = Phase(m)'
      /\ ContractState' = [ContractState EXCEPT ![m] = Phase(m)']
  BY DEF ContractState
<1>2. CASE Phase(m)' = Phase(m)
  <2>1. ContractState' = ContractState BY <1>2 DEF ContractState
  <2> QED BY <2>1 DEF Contract!vars
<1>3. CASE Phase(m) = "unasked" /\ Phase(m)' = "owed"
  BY <1>1, <1>3 DEF Contract!Accept
<1>4. CASE Phase(m) \in {"unasked", "owed"} /\ Phase(m)' = "delivered"
  BY <1>1, <1>4 DEF Contract!Deliver
<1>5. CASE Phase(m) = "owed" /\ Phase(m)' = "parked"
  BY <1>1, <1>5 DEF Contract!Park
<1>6. CASE Phase(m) = "parked" /\ Phase(m)' = "owed"
  BY <1>1, <1>6 DEF Contract!Replay
<1>7. CASE m \in dropped /\ Phase(m) = "owed" /\ Phase(m)' = "gone"
  BY <1>1, <1>7 DEF Contract!GiveUp
<1>8. CASE m \in dropped /\ Phase(m) = "parked" /\ Phase(m)' = "gone"
  <2>1. dropped' = dropped \cup {m} BY <1>8
  <2> QED BY <1>1, <1>8, <2>1 DEF Contract!Break
<1> QED BY <1>2, <1>3, <1>4, <1>5, <1>6, <1>7, <1>8

\* A step that keeps some copy of the mail waiting or in flight is a stutter.
LEMMA HeldStays ==
    ASSUME NEW m \in Jobs, Held(m), Held(m)',
           UNCHANGED <<client, sends, dropped>>,
           \A j \in Jobs \ {m} : Phase(j)' = Phase(j)
    PROVE  [Contract!Next]_(Contract!vars)
<1>1. Phase(m)' = Phase(m) BY DEF Phase
<1> QED BY <1>1, Simulate

\* A step that changes nothing the phases depend on is a stutter.
LEMMA Stutter ==
    ASSUME UNCHANGED <<sends, dropped>>,
           \A j \in Jobs : Phase(j)' = Phase(j)
    PROVE  [Contract!Next]_(Contract!vars)
<1>1. ContractState' = ContractState BY DEF ContractState
<1> QED BY <1>1 DEF Contract!vars

\* The API: an accepted mail becomes owed, anything else is not visible.
LEMMA ClientSimulates ==
    ASSUME TypeOK, NEW m \in Jobs, ClientStep(m)
    PROVE  [Contract!Next]_(Contract!vars)
<1> USE DEF TypeOK, lists, local, replayVars, history
<1>1. \A j \in Jobs \ {m} : Phase(j)' = Phase(j)
  <2> SUFFICES ASSUME NEW j \in Jobs \ {m} PROVE Phase(j)' = Phase(j)
    OBVIOUS
  <2> DEFINE new == [job |-> m, attempt |-> 0, gen |-> Original]
  <2>1. new \in Entry /\ new.job = m BY EntryType
  <2>2. \A e \in Entry : e.job # m => queue'[e] = queue[e]
    BY <2>1 DEF ClientStep, CreateJob, PushJob, PushFails, AbandonJob, ClientDies, Push
  <2>3. /\ UNCHANGED <<processing, dlq, delayed, sends, admin, found>>
        /\ \A i \in Jobs \ {m} : client'[i] = client[i]
    BY DEF ClientStep, CreateJob, PushJob, PushFails, AbandonJob, ClientDies
  <2> QED BY <2>2, <2>3, OthersStay
<1>2. CASE PushJob(m)
  <2> DEFINE new == [job |-> m, attempt |-> 0, gen |-> Original]
  <2>1. new \in Entry /\ new.job = m /\ queue'[new] > 0
    BY <1>2, EntryType, PushType DEF PushJob
  <2>2. Held(m)' BY <2>1 DEF Held, Waiting
  <2>3. \/ Phase(m)' = Phase(m)
        \/ Phase(m) = "unasked" /\ Phase(m)' = "owed"
    BY <1>2, <2>2 DEF PushJob, Phase
  <2>4. dropped' = dropped BY <1>2 DEF PushJob
  <2> QED BY <1>1, <2>3, <2>4, Simulate
<1>3. CASE ~ PushJob(m)
  <2>1. /\ client[m] # "accepted" /\ client'[m] # "accepted"
        /\ UNCHANGED <<sends, dropped>>
    BY <1>3 DEF ClientStep, CreateJob, PushFails, AbandonJob, ClientDies
  <2>2. Phase(m)' = Phase(m) BY <2>1 DEF Phase
  <2> QED BY <1>1, <2>1, <2>2, Stutter
<1> QED BY <1>2, <1>3

\* The worker loop moves copies from one list to the next.
LEMMA LoopSimulates ==
    ASSUME TypeOK, Handover, NEW w \in Workers, LoopStep(w)
    PROVE  [Contract!Next]_(Contract!vars)
<1> USE DEF TypeOK, lists, local, replayVars, history
<1>0. UNCHANGED <<client, sends, dropped, dlq, admin, found>>
  BY DEF LoopStep, Boot, RestoreOne, RestoreDone, PromoteRead, PromotePush,
         PromoteRemove, Pop, PopTimeout
<1>1. ASSUME NEW e \in Entry, Held(e.job), Held(e.job)',
             \A d \in Entry : d.job # e.job =>
                /\ queue'[d] = queue[d] /\ processing'[d] = processing[d]
                /\ d \in delayed' <=> d \in delayed
      PROVE  [Contract!Next]_(Contract!vars)
  <2>1. e.job \in Jobs BY EntryType
  <2>2. \A j \in Jobs \ {e.job} : Phase(j)' = Phase(j) BY <1>0, <1>1, <2>1, OthersStay
  <2> QED BY <1>0, <1>1, <2>1, <2>2, HeldStays
<1>2. CASE UNCHANGED lists
  <2>1. \A j \in Jobs : Phase(j)' = Phase(j)
    BY <1>0, <1>2 DEF Phase, Held, Parked, Waiting, InFlight, Dead
  <2> QED BY <1>0, <2>1, Stutter
<1>3. CASE RestoreOne(w)
  <2>1. PICK e \in Entry : /\ processing[e] > 0
                           /\ processing' = Lrem(processing, e)
                           /\ queue' = Push(queue, e)
    BY <1>3 DEF RestoreOne
  <2>2. queue'[e] > 0 /\ UNCHANGED delayed BY <1>3, <2>1, PushType DEF RestoreOne
  <2>3. Held(e.job) BY <2>1 DEF Held, InFlight
  <2>4. Held(e.job)' BY <2>2 DEF Held, Waiting
  <2>5. \A d \in Entry : d.job # e.job =>
           queue'[d] = queue[d] /\ processing'[d] = processing[d]
    BY <2>1 DEF Push, Lrem
  <2> QED BY <1>1, <2>2, <2>3, <2>4, <2>5
<1>4. CASE PromotePush(w)
  <2>1. PICK e \in due[w] : queue' = Push(queue, e) BY <1>4 DEF PromotePush
  <2>2. e \in Entry /\ e \in delayed BY <2>1 DEF Handover
  <2>3. UNCHANGED <<processing, delayed>> BY <1>4 DEF PromotePush
  <2>4. Held(e.job) /\ Held(e.job)' BY <2>2, <2>3 DEF Held, Waiting
  <2>5. \A d \in Entry : d.job # e.job => queue'[d] = queue[d] BY <2>1, <2>2 DEF Push
  <2> QED BY <1>1, <2>2, <2>3, <2>4, <2>5
<1>5. CASE PromoteRemove(w)
  <2>1. PICK e \in Entry : e = cur[w] BY <1>5 DEF PromoteRemove
  <2>2. queue[e] > 0 /\ delayed' = delayed \ {e} BY <1>5, <2>1 DEF PromoteRemove, Handover
  <2>3. UNCHANGED <<queue, processing>> BY <1>5 DEF PromoteRemove
  <2>4. Held(e.job) /\ Held(e.job)' BY <2>2, <2>3 DEF Held, Waiting
  <2> QED BY <1>1, <2>2, <2>3, <2>4
<1>6. ASSUME NEW e \in Entry, Pop(w, e) PROVE [Contract!Next]_(Contract!vars)
  <2>1. /\ queue[e] > 0 /\ queue' = Lrem(queue, e)
        /\ processing' = Push(processing, e) /\ UNCHANGED delayed
    BY <1>6 DEF Pop
  <2>2. processing'[e] > 0 BY <2>1, PushType
  <2>3. Held(e.job) BY <2>1 DEF Held, Waiting
  <2>4. Held(e.job)' BY <2>2 DEF Held, InFlight
  <2>5. \A d \in Entry : d.job # e.job =>
           queue'[d] = queue[d] /\ processing'[d] = processing[d]
    BY <2>1 DEF Push, Lrem
  <2> QED BY <1>1, <2>1, <2>3, <2>4, <2>5
<1> QED BY <1>2, <1>3, <1>4, <1>5, <1>6
        DEF LoopStep, Boot, RestoreDone, PromoteRead, PopTimeout

\* processJob: a mail is delivered, parked, or given up after a broken replay.
LEMMA ProcessSimulates ==
    ASSUME TypeOK, Handover, NEW w \in Workers,
           ProcessStep(w) \/ FaultStep(w)
    PROVE  [Contract!Next]_(Contract!vars)
<1> USE DEF TypeOK, lists, local, replayVars, history
<1>0. UNCHANGED <<client, dropped, admin, found>>
  BY DEF ProcessStep, Acquire, Collide, CollideDelay, CollideAck, MarkProcessing,
         SendAccepted, SendRejected, RecordSent, AckSent, FailPut, FailAck, FailDoc,
         Release, FaultStep, SendAnswerLost, ThrowAfterSend, ThrowInCatch,
         ThrowToLoop, Crash
<1>1. CASE UNCHANGED <<lists, sends>>
  <2>1. \A j \in Jobs : Phase(j)' = Phase(j)
    BY <1>0, <1>1 DEF Phase, Held, Parked, Waiting, InFlight, Dead
  <2> QED BY <1>0, <1>1, <2>1, Stutter
<1>2. CASE SendAccepted(w) \/ SendAnswerLost(w)
  <2>1. PICK e \in Entry : e = cur[w] BY <1>2 DEF SendAccepted, SendAnswerLost
  <2>2. /\ processing[e] > 0 /\ UNCHANGED lists
        /\ sends' = [sends EXCEPT ![e.job] = @ + 1]
    BY <1>2, <2>1 DEF SendAccepted, SendAnswerLost, Handover
  <2>3. e.job \in Jobs BY EntryType
  <2>4. \A j \in Jobs \ {e.job} : Phase(j)' = Phase(j)
    BY <1>0, <2>2, <2>3, OthersStay
  <2>5. Held(e.job) BY <2>2 DEF Held, InFlight
  <2>6. Phase(e.job)' = "delivered" BY <2>2, <2>3 DEF Phase
  <2>7. Phase(e.job) \in {"unasked", "owed", "delivered"} BY <2>5 DEF Phase
  <2> QED BY <1>0, <2>3, <2>4, <2>6, <2>7, Simulate
<1>3. CASE CollideDelay(w) \/ FailPut(w)
  <2>1. PICK e \in Entry : e = cur[w] BY <1>3 DEF CollideDelay, FailPut
  <2>2. /\ processing[e] > 0 /\ UNCHANGED <<queue, processing, sends>>
        /\ \A d \in Entry : d.job # e.job =>
              dlq'[d] = dlq[d] /\ (d \in delayed' <=> d \in delayed)
    BY <1>3, <2>1 DEF CollideDelay, FailPut, Handover, Push, Entry
  <2>3. e.job \in Jobs BY EntryType
  <2>4. \A j \in Jobs \ {e.job} : Phase(j)' = Phase(j)
    BY <1>0, <2>2, <2>3, OthersStay
  <2>5. Held(e.job) /\ Held(e.job)' BY <2>2 DEF Held, InFlight
  <2> QED BY <1>0, <2>2, <2>3, <2>4, <2>5, HeldStays
<1>4. CASE CollideAck(w) \/ AckSent(w) \/ FailAck(w)
  <2>1. PICK e \in Entry : e = cur[w] BY <1>4 DEF CollideAck, AckSent, FailAck
  <2>2. /\ processing[e] > 0 /\ processing' = Lrem(processing, e)
        /\ UNCHANGED <<queue, dlq, delayed, sends>>
        /\ Kept(e.job)
    BY <1>4, <2>1 DEF CollideAck, AckSent, FailAck, Handover, Kept, Waiting
  <2>3. e.job \in Jobs BY EntryType
  <2>4. \A d \in Entry : d.job # e.job => processing'[d] = processing[d]
    BY <2>2, <2>3 DEF Lrem
  <2>5. \A j \in Jobs \ {e.job} : Phase(j)' = Phase(j)
    BY <1>0, <2>2, <2>3, <2>4, OthersStay
  <2>6. Held(e.job) BY <2>2 DEF Held, InFlight
  <2>7. Dead(e.job) => Parked(e.job)' BY <1>0, <2>2 DEF Dead, Parked
  <2>8. Waiting(e.job) => Held(e.job)' BY <2>2 DEF Waiting, Held
  <2>9. \/ Phase(e.job)' = Phase(e.job)
        \/ Phase(e.job) = "owed" /\ Phase(e.job)' = "parked"
        \/ e.job \in dropped /\ Phase(e.job) = "owed" /\ Phase(e.job)' = "gone"
    BY <1>0, <2>2, <2>6, <2>7, <2>8 DEF Phase, Kept
  <2> QED BY <1>0, <2>3, <2>5, <2>9, Simulate
<1> QED BY <1>1, <1>2, <1>3, <1>4
        DEF ProcessStep, Acquire, Collide, MarkProcessing, SendRejected, RecordSent,
            FailDoc, Release, FaultStep, ThrowAfterSend, ThrowInCatch,
            ThrowToLoop, Crash

\* A replay takes a parked mail back to the queue, or breaks off.
LEMMA ReplaySimulates ==
    ASSUME TypeOK, NoLostJob, NEW r \in Replays, ReplayStep(r)
    PROVE  [Contract!Next]_(Contract!vars)
<1> USE DEF TypeOK, lists, local, history
<1>0. /\ UNCHANGED <<client, sends, processing, delayed>>
      /\ \A s \in Replays \ {r} : admin'[s] = admin[s] /\ found'[s] = found[s]
  BY DEF ReplayStep, ReplayPeek, ReplayRemove, ReplayPush, ReplayDoc, ReplayDies
<1>1. CASE ReplayPeek(r)
  <2>1. PICK e \in Entry : dlq[e] > 0 /\ found' = [found EXCEPT ![r] = e]
    BY <1>1 DEF ReplayPeek
  <2>2. /\ admin[r] = "idle" /\ admin'[r] = "lrem" /\ found'[r] = e
        /\ UNCHANGED <<queue, dlq, dropped>>
    BY <1>1, <2>1 DEF ReplayPeek
  <2>3. ASSUME NEW j \in Jobs PROVE Phase(j)' = Phase(j)
    <3>1. Held(j)' <=> Held(j) BY <1>0, <2>2 DEF Held, Waiting, InFlight
    <3>2. Dead(j)' <=> Dead(j) BY <1>0, <2>2 DEF Dead
    <3>3. CASE e.job = j
      <4>1. Dead(j) BY <2>1, <3>3 DEF Dead
      <4> QED BY <1>0, <3>1, <3>2, <4>1, PhaseFrame DEF Parked
    <3>4. CASE e.job # j
      <4>1. Parked(j)' <=> Parked(j) BY <1>0, <2>2, <3>2, <3>4 DEF Parked
      <4> QED BY <1>0, <3>1, <4>1, PhaseFrame
    <3> QED BY <3>3, <3>4
  <2> QED BY <1>0, <2>2, <2>3, Stutter
<1>2. CASE ReplayRemove(r)
  <2>1. PICK e \in Entry : e = found[r] BY <1>2 DEF ReplayRemove
  <2>2. /\ admin[r] = "lrem" /\ admin'[r] = "lpush" /\ found' = found
        /\ dlq' = Lrem(dlq, e) /\ UNCHANGED <<queue, dropped>>
    BY <1>2, <2>1 DEF ReplayRemove
  <2>3. ASSUME NEW j \in Jobs PROVE Phase(j)' = Phase(j)
    <3>1. Held(j)' <=> Held(j) BY <1>0, <2>2 DEF Held, Waiting, InFlight
    <3>2. CASE e.job = j
      <4>1. Parked(j) BY <2>1, <2>2, <3>2 DEF Parked
      <4>2. Parked(j)' BY <2>1, <2>2, <3>2 DEF Parked, Dead
      <4> QED BY <1>0, <3>1, <4>1, <4>2, PhaseFrame
    <3>3. CASE e.job # j
      <4>1. \A d \in Entry : d.job = j => dlq'[d] = dlq[d] BY <2>2, <3>3 DEF Lrem
      <4>2. \A s \in Replays : found[s].job = j =>
               admin'[s] = admin[s] /\ found'[s] = found[s]
        BY <1>0, <2>1, <3>3
      <4>3. Parked(j)' <=> Parked(j) BY <2>1, <2>2, <3>3, <4>1, <4>2 DEF Parked, Dead
      <4> QED BY <1>0, <3>1, <4>3, PhaseFrame
    <3> QED BY <3>2, <3>3
  <2> QED BY <1>0, <2>2, <2>3, Stutter
<1>3. CASE ReplayPush(r)
  <2>1. PICK m \in Jobs : m = found[r].job BY <1>3, EntryType DEF ReplayPush
  <2> DEFINE new == [job |-> m, attempt |-> 0, gen |-> r]
  <2>2. new \in Entry /\ new.job = m BY EntryType
  <2>3. /\ admin[r] = "lpush" /\ admin'[r] = "doc" /\ found' = found
        /\ queue' = Push(queue, new) /\ UNCHANGED <<dlq, dropped>>
    BY <1>3, <2>1 DEF ReplayPush
  <2>4. queue'[new] > 0 BY <2>2, <2>3, PushType
  <2>5. Held(m)' BY <2>2, <2>4 DEF Held, Waiting
  <2>6. Parked(m) BY <2>1, <2>3 DEF Parked, Dead
  <2>7. ASSUME NEW j \in Jobs \ {m} PROVE Phase(j)' = Phase(j)
    <3>1. \A d \in Entry : d.job = j => queue'[d] = queue[d] BY <2>2, <2>3 DEF Push
    <3>2. Held(j)' <=> Held(j) BY <1>0, <3>1 DEF Held, Waiting, InFlight
    <3>3. Parked(j)' <=> Parked(j) BY <1>0, <2>1, <2>3 DEF Parked, Dead
    <3> QED BY <1>0, <3>2, <3>3, PhaseFrame
  <2>8. \/ Phase(m)' = Phase(m)
        \/ Phase(m) = "parked" /\ Phase(m)' = "owed"
    BY <1>0, <2>5, <2>6 DEF Phase
  <2> QED BY <2>3, <2>7, <2>8, Simulate
<1>4. CASE ReplayDoc(r)
  <2>1. admin[r] = "doc" /\ admin'[r] = "done" /\ found' = found
        /\ UNCHANGED <<queue, dlq, dropped>>
    BY <1>4 DEF ReplayDoc
  <2>2. \A j \in Jobs : Phase(j)' = Phase(j)
    BY <1>0, <2>1 DEF Phase, Held, Parked, Waiting, InFlight, Dead
  <2> QED BY <1>0, <2>1, <2>2, Stutter
<1>5. CASE ReplayDies(r)
  <2>1. PICK m \in Jobs : m = found[r].job BY <1>5, EntryType DEF ReplayDies
  <2>2. /\ admin[r] \in {"lrem", "lpush", "doc"} /\ admin'[r] = "done" /\ found' = found
        /\ UNCHANGED <<queue, dlq>>
        /\ dropped' = IF admin[r] = "lpush" THEN dropped \cup {m} ELSE dropped
    BY <1>5, <2>1 DEF ReplayDies
  <2>3. \A j \in Jobs : Held(j)' <=> Held(j) BY <1>0, <2>2 DEF Held, Waiting, InFlight
  <2>4. ASSUME NEW j \in Jobs \ {m} PROVE Phase(j)' = Phase(j)
    <3>1. Parked(j)' <=> Parked(j) BY <1>0, <2>1, <2>2 DEF Parked, Dead
    <3> QED BY <1>0, <2>3, <3>1, PhaseFrame
  <2>5. Parked(m)' => Parked(m) BY <1>0, <2>2 DEF Parked, Dead
  <2>6. \/ Phase(m)' = Phase(m)
        \/ Phase(m) = "parked" /\ Phase(m)' = "gone"
    BY <1>0, <2>3, <2>5 DEF Phase
  <2>7. CASE admin[r] = "lpush"
    <3>1. dropped' = dropped \cup {m} BY <2>2, <2>7
    <3>2. /\ ContractState[m] = Phase(m)
          /\ ContractState' = [ContractState EXCEPT ![m] = Phase(m)']
      BY <2>4 DEF ContractState
    <3>3. \/ ContractState' = ContractState
          \/ /\ ContractState[m] = "parked"
             /\ ContractState' = [ContractState EXCEPT ![m] = "gone"]
      BY <2>6, <3>2 DEF ContractState
    <3>4. Contract!Break(m) BY <3>1, <3>3 DEF Contract!Break
    <3> QED BY <3>4 DEF Contract!Next
  <2>8. CASE admin[r] # "lpush"
    <3>1. dropped' = dropped BY <2>2, <2>8
    <3>2. CASE Phase(m) = "parked" /\ Phase(m)' = "gone"
      <4>1. client[m] = "accepted" /\ ~ (sends[m] > 0) /\ ~ Held(m)
        BY <3>2 DEF Phase
      <4>2. ~ Dead(m)'
        BY <3>2 DEF Phase, Parked
      <4>3. ~ Dead(m) BY <1>0, <2>2, <2>8, <4>2 DEF Dead
      <4>4. m \in dropped BY <4>1, <4>3 DEF NoLostJob, Held
      <4> QED BY <2>4, <3>1, <3>2, <4>4, Simulate
    <3>3. CASE Phase(m)' = Phase(m)
      BY <2>4, <3>1, <3>3, Simulate
    <3> QED BY <2>6, <3>2, <3>3
  <2> QED BY <2>7, <2>8
<1> QED BY <1>1, <1>2, <1>3, <1>4, <1>5 DEF ReplayStep

\* With one worker, the queues, locks, retries, crashes and replays of the
\* pipeline implement what MailContract promises for each mail.
THEOREM PipelineKeepsContract ==
    ASSUME OneWorker
    PROVE  Spec => ContractSpec
<1>1. Init => Contract!Init
  BY DEF Init, Contract!Init, ContractState, Phase
<1>2. TypeOK /\ Handover /\ NoLostJob /\ [Next]_vars => [Contract!Next]_(Contract!vars)
  <2> SUFFICES ASSUME TypeOK, Handover, NoLostJob, [Next]_vars
               PROVE  [Contract!Next]_(Contract!vars)
    OBVIOUS
  <2>1. ASSUME NEW j \in Jobs, LockExpires(j) PROVE [Contract!Next]_(Contract!vars)
    <3>1. UNCHANGED <<client, lists, admin, found, sends, dropped>>
      BY <2>1 DEF LockExpires, replayVars
    <3>2. \A i \in Jobs : Phase(i)' = Phase(i)
      BY <3>1 DEF lists, Phase, Held, Parked, Waiting, InFlight, Dead
    <3> QED BY <3>1, <3>2, Stutter
  <2>2. CASE UNCHANGED vars
    <3>1. \A i \in Jobs : Phase(i)' = Phase(i)
      BY <2>2 DEF vars, lists, replayVars, history, Phase, Held, Parked, Waiting, InFlight, Dead
    <3>2. UNCHANGED <<sends, dropped>> BY <2>2 DEF vars, history
    <3> QED BY <3>1, <3>2, Stutter
  <2> QED BY <2>1, <2>2, ClientSimulates, LoopSimulates, ProcessSimulates,
             ReplaySimulates DEF Next
<1>3. Spec => []Handover BY HandoverAlways
<1> QED BY <1>1, <1>2, <1>3, TypeCorrect, NoMailIsLost, PTL
        DEF Spec, ContractSpec, Contract!Spec

---------------------------------------------------------------------------
(* Mails that are sent twice.                                               *)

\* The copies of job j's payloads in a list, and in the delayed set.
Copies(list, j) == {x \in Entry \X (Nat \ {0}) : x[1].job = j /\ x[2] <= list[x[1]]}
Members(j) == {e \in delayed : e.job = j}
Replayed == {r \in Replays : admin[r] \in {"doc", "done"}}

\* The worker has still to remove a copy of job j whose successor is in place,
\* or whose mail is out.
Twice == {"zrem", "delayAck", "recordSent", "ackSent", "failAck"}
Settled(j) == IF \E w \in Workers : pc[w] \in Twice /\ cur[w].job = j THEN 1 ELSE 0

\* A request that will still push a first copy.
Unasked(j) == IF client[j] \in {"idle", "created"} THEN 1 ELSE 0

\* Mails that are out, and those that copies may still lead to, are paid for.
Ledger(j) ==
    /\ IsFiniteSet(Copies(queue, j)) /\ IsFiniteSet(Copies(processing, j))
    /\ IsFiniteSet(Members(j))
    /\ sends[j] + Cardinality(Copies(queue, j)) + Cardinality(Copies(processing, j))
         + Cardinality(Members(j)) + Unasked(j)
       <= 1 + throws + crashes + Cardinality(Replayed) + Settled(j)

PaidInv ==
    /\ IsFiniteSet({r \in Replays : admin[r] # "idle"})
    /\ \A w \in Workers : pc[w] = "zrem" => cur[w] \in delayed
    /\ \A j \in Jobs : Ledger(j)

\* One more copy in a list.
LEMMA PushCount ==
    ASSUME NEW list \in [Entry -> Nat], NEW e \in Entry, NEW j, IsFiniteSet(Copies(list, j))
    PROVE  /\ IsFiniteSet(Copies(Push(list, e), j))
           /\ Cardinality(Copies(Push(list, e), j)) =
                Cardinality(Copies(list, j)) + (IF e.job = j THEN 1 ELSE 0)
           /\ Cardinality(Copies(list, j)) \in Nat
<1>1. PICK new : new = Push(list, e) OBVIOUS
<1>2. /\ new \in [Entry -> Nat] /\ new[e] = list[e] + 1
      /\ \A d \in Entry \ {e} : new[d] = list[d]
  BY <1>1 DEF Push
<1>3. CASE e.job = j
  <2>1. <<e, list[e] + 1>> \notin Copies(list, j) BY DEF Copies
  <2>2. Copies(new, j) = Copies(list, j) \cup {<<e, list[e] + 1>>}
    <3>1. ASSUME NEW x \in Entry \X (Nat \ {0}), x[1].job = j
          PROVE  x[2] <= new[x[1]] <=> x[2] <= list[x[1]] \/ x = <<e, list[e] + 1>>
      <4>1. CASE x[1] = e BY <1>2, <4>1
      <4>2. CASE x[1] # e BY <1>2, <4>2
      <4> QED BY <4>1, <4>2
    <3>2. <<e, list[e] + 1>> \in Entry \X (Nat \ {0}) /\ <<e, list[e] + 1>>[1].job = j BY <1>3
    <3> QED BY <3>1, <3>2 DEF Copies
  <2> QED BY <1>1, <1>3, <2>1, <2>2, FS_AddElement, FS_CardinalityType
<1>4. CASE e.job # j
  <2>1. Copies(new, j) = Copies(list, j) BY <1>2, <1>4 DEF Copies
  <2> QED BY <1>1, <1>4, <2>1, FS_CardinalityType
<1> QED BY <1>3, <1>4

\* And one fewer.
LEMMA LremCount ==
    ASSUME NEW list \in [Entry -> Nat], NEW e \in Entry, list[e] > 0, NEW j,
           IsFiniteSet(Copies(list, j))
    PROVE  /\ IsFiniteSet(Copies(Lrem(list, e), j))
           /\ Cardinality(Copies(list, j)) =
                Cardinality(Copies(Lrem(list, e), j)) + (IF e.job = j THEN 1 ELSE 0)
           /\ Cardinality(Copies(Lrem(list, e), j)) \in Nat
<1>1. PICK new : new = Lrem(list, e) OBVIOUS
<1>2. new \in [Entry -> Nat] /\ list = Push(new, e)
  <2>1. /\ new \in [Entry -> Nat] /\ new[e] = list[e] - 1
        /\ \A d \in Entry \ {e} : new[d] = list[d]
    BY <1>1 DEF Lrem
  <2> QED BY <2>1 DEF Push
<1>3. Copies(new, j) \subseteq Copies(list, j) BY <1>2 DEF Copies, Push
<1>4. IsFiniteSet(Copies(new, j)) BY <1>3, FS_Subset
<1> QED BY <1>1, <1>2, <1>4, PushCount

\* The only worker's part in what is settled.
LEMMA SettledOf ==
    ASSUME OneWorker, NEW w \in Workers, NEW j
    PROVE  /\ Settled(j) = (IF pc[w] \in Twice /\ cur[w].job = j THEN 1 ELSE 0)
           /\ Settled(j)' = (IF pc'[w] \in Twice /\ cur'[w].job = j THEN 1 ELSE 0)
  BY DEF OneWorker, Settled, Twice

\* A step that moves no copy and sends nothing pays for what it unsettles.
LEMMA LedgerStays ==
    ASSUME TypeOK, TypeOK', NEW j \in Jobs, Ledger(j), UNCHANGED <<queue, processing, delayed, sends>>,
           Unasked(j)' <= Unasked(j), Cardinality(Replayed)' \in Nat, Cardinality(Replayed) \in Nat,
           throws + crashes + Cardinality(Replayed) + Settled(j)
             <= throws' + crashes' + Cardinality(Replayed)' + Settled(j)'
    PROVE  Ledger(j)'
<1>1. Copies(queue, j)' = Copies(queue, j) /\ Copies(processing, j)' = Copies(processing, j)
      /\ Members(j)' = Members(j)
  BY DEF Copies, Members
<1>2. /\ Cardinality(Copies(queue, j)) \in Nat /\ Cardinality(Copies(processing, j)) \in Nat
      /\ Cardinality(Members(j)) \in Nat
  BY FS_CardinalityType DEF Ledger
<1>3. /\ Unasked(j) \in Nat /\ Unasked(j)' \in Nat /\ Settled(j) \in Nat /\ Settled(j)' \in Nat
      /\ sends[j] \in Nat /\ throws \in Nat /\ crashes \in Nat /\ throws' \in Nat /\ crashes' \in Nat
  BY DEF Unasked, Settled, TypeOK
<1> QED BY <1>1, <1>2, <1>3 DEF Ledger

\* What has been replayed is countable.
LEMMA ReplayedFinite ==
    ASSUME IsFiniteSet({r \in Replays : admin[r] # "idle"})
    PROVE  IsFiniteSet(Replayed) /\ Cardinality(Replayed) \in Nat
<1>1. Replayed \subseteq {r \in Replays : admin[r] # "idle"} BY DEF Replayed
<1> QED BY <1>1, FS_Subset, FS_CardinalityType

\* One more fault pays for one copy.
LEMMA FaultPays ==
    ASSUME NEW a \in Nat, NEW b \in Nat, NEW c \in Nat, NEW d \in Nat, NEW s \in Nat, NEW t \in Nat,
           s <= 1, c + d = a + b + 1 \/ (c + d = a + b /\ s <= t)
    PROVE  a + b + s <= c + d + t
  OBVIOUS

\* A worker's step that moves no copy and sends nothing.
LEMMA WorkerPays ==
    ASSUME OneWorker, TypeOK, TypeOK', PaidInv, NEW w \in Workers,
           UNCHANGED <<queue, processing, delayed, sends, client, admin>>,
           pc'[w] # "zrem",
           \/ throws' + crashes' = throws + crashes + 1
           \/ /\ throws' + crashes' = throws + crashes
              /\ pc[w] \in Twice => pc'[w] \in Twice /\ cur'[w] = cur[w]
    PROVE  PaidInv'
<1>1. Replayed' = Replayed /\ {r \in Replays : admin'[r] # "idle"} = {r \in Replays : admin[r] # "idle"}
  BY DEF Replayed
<1>2. Cardinality(Replayed) \in Nat BY ReplayedFinite DEF PaidInv
<1>3. ASSUME NEW j \in Jobs PROVE Ledger(j)'
  <2>1. Unasked(j)' = Unasked(j) /\ Unasked(j) \in Nat BY DEF Unasked
  <2>2. throws + crashes + Settled(j) <= throws' + crashes' + Settled(j)'
    <3>1. Settled(j) \in Nat /\ Settled(j) <= 1 /\ Settled(j)' \in Nat BY DEF Settled
    <3>2. (pc[w] \in Twice => pc'[w] \in Twice /\ cur'[w] = cur[w]) => Settled(j) <= Settled(j)'
      BY SettledOf
    <3>3. throws \in Nat /\ crashes \in Nat /\ throws' \in Nat /\ crashes' \in Nat BY DEF TypeOK
    <3>4. \/ throws' + crashes' = throws + crashes + 1
          \/ throws' + crashes' = throws + crashes /\ Settled(j) <= Settled(j)'
      BY <3>2
    <3> QED BY <3>1, <3>3, <3>4, FaultPays
  <2>3. Settled(j) \in Nat /\ Settled(j)' \in Nat BY DEF Settled
  <2>4. throws + crashes + Cardinality(Replayed) + Settled(j)
          <= throws' + crashes' + Cardinality(Replayed)' + Settled(j)'
    BY <1>1, <1>2, <2>2, <2>3 DEF TypeOK
  <2> QED BY <1>1, <1>2, <2>1, <2>4, LedgerStays DEF PaidInv
<1>4. \A v \in Workers : v = w BY DEF OneWorker
<1> QED BY <1>1, <1>3, <1>4 DEF PaidInv

\* What a step of the worker adds to one side it takes from the other.
Balanced(j) ==
    /\ IsFiniteSet(Copies(queue', j)) /\ IsFiniteSet(Copies(processing', j))
    /\ IsFiniteSet(Members(j)')
    /\ sends'[j] + Cardinality(Copies(queue', j)) + Cardinality(Copies(processing', j))
         + Cardinality(Members(j)') + throws + Settled(j)
       <= sends[j] + Cardinality(Copies(queue, j)) + Cardinality(Copies(processing, j))
            + Cardinality(Members(j)) + throws' + Settled(j)'

\* Steps of the worker that send, move or copy a payload.
LEMMA WorkerLedger ==
    ASSUME OneWorker, TypeOK, TypeOK', PaidInv, NEW w \in Workers,
           UNCHANGED <<client, admin, crashes>>,
           pc'[w] = "zrem" => cur'[w] \in delayed',
           \A j \in Jobs : Balanced(j)
    PROVE  PaidInv'
<1>1. Replayed' = Replayed /\ {r \in Replays : admin'[r] # "idle"} = {r \in Replays : admin[r] # "idle"}
  BY DEF Replayed
<1>2. Cardinality(Replayed) \in Nat BY ReplayedFinite DEF PaidInv
<1>3. ASSUME NEW j \in Jobs PROVE Ledger(j)'
  <2>1. Unasked(j)' = Unasked(j) /\ Unasked(j) \in Nat BY DEF Unasked
  <2>2. Settled(j) \in Nat /\ Settled(j)' \in Nat BY DEF Settled
  <2>3. Ledger(j) BY DEF PaidInv
  <2>4. /\ Cardinality(Copies(queue, j)) \in Nat /\ Cardinality(Copies(processing, j)) \in Nat
        /\ Cardinality(Members(j)) \in Nat
        /\ Cardinality(Copies(queue', j)) \in Nat /\ Cardinality(Copies(processing', j)) \in Nat
        /\ Cardinality(Members(j)') \in Nat
    BY <2>3, FS_CardinalityType DEF Ledger, Balanced
  <2>5. /\ sends[j] \in Nat /\ sends'[j] \in Nat /\ throws \in Nat /\ throws' \in Nat /\ crashes \in Nat
    BY DEF TypeOK
  <2>6. Copies(queue, j)' = Copies(queue', j) /\ Copies(processing, j)' = Copies(processing', j)
    BY DEF Copies
  <2> QED BY <1>1, <1>2, <2>1, <2>2, <2>3, <2>4, <2>5, <2>6 DEF Ledger, Balanced
<1>4. \A v \in Workers : v = w BY DEF OneWorker
<1> QED BY <1>1, <1>3, <1>4 DEF PaidInv

\* A step of a request or a replay, which may push one copy.
LEMMA RequestLedger ==
    ASSUME TypeOK, TypeOK', PaidInv, UNCHANGED <<local, processing, delayed, sends>>,
           IsFiniteSet({r \in Replays : admin[r] # "idle"})',
           \A j \in Jobs :
             /\ IsFiniteSet(Copies(queue', j))
             /\ Cardinality(Copies(queue', j)) + Unasked(j)' + throws + crashes + Cardinality(Replayed)
                <= Cardinality(Copies(queue, j)) + Unasked(j) + throws' + crashes' + Cardinality(Replayed)'
    PROVE  PaidInv'
<1>1. Cardinality(Replayed) \in Nat /\ Cardinality(Replayed)' \in Nat
  <2>1. Replayed' \subseteq {r \in Replays : admin[r] # "idle"}' BY DEF Replayed
  <2> QED BY <2>1, ReplayedFinite, FS_Subset, FS_CardinalityType DEF PaidInv
<1>2. ASSUME NEW j \in Jobs PROVE Ledger(j)'
  <2>1. Ledger(j) BY DEF PaidInv
  <2>2. /\ Unasked(j) \in Nat /\ Unasked(j)' \in Nat /\ Settled(j) \in Nat /\ Settled(j)' = Settled(j)
        /\ sends[j] \in Nat /\ throws \in Nat /\ crashes \in Nat /\ throws' \in Nat /\ crashes' \in Nat
    BY DEF Unasked, Settled, TypeOK, local
  <2>3. /\ Cardinality(Copies(queue, j)) \in Nat /\ Cardinality(Copies(processing, j)) \in Nat
        /\ Cardinality(Members(j)) \in Nat /\ Cardinality(Copies(queue', j)) \in Nat
    BY <2>1, FS_CardinalityType DEF Ledger
  <2>4. Copies(queue, j)' = Copies(queue', j) /\ Copies(processing, j)' = Copies(processing, j)
        /\ Members(j)' = Members(j)
    BY DEF Copies, Members
  <2> QED BY <1>1, <2>1, <2>2, <2>3, <2>4 DEF Ledger
<1> QED BY <1>2 DEF PaidInv, local

\* One more member of the delayed set, at most.
LEMMA MembersAdd ==
    ASSUME NEW e \in Entry, delayed' = delayed \cup {e}, NEW j, IsFiniteSet(Members(j))
    PROVE  /\ IsFiniteSet(Members(j)') /\ Cardinality(Members(j)) \in Nat
           /\ Cardinality(Members(j)') \in Nat
           /\ Cardinality(Members(j)') <= Cardinality(Members(j)) + (IF e.job = j THEN 1 ELSE 0)
<1>1. CASE e.job = j
  <2>1. Members(j)' = Members(j) \cup {e} BY <1>1 DEF Members
  <2>2. PICK m : m = Members(j) OBVIOUS
  <2>3. /\ IsFiniteSet(m \cup {e}) /\ Cardinality(m) \in Nat /\ Cardinality(m \cup {e}) \in Nat
        /\ Cardinality(m \cup {e}) <= Cardinality(m) + 1
    <3>1. IsFiniteSet(m) /\ Cardinality(m) \in Nat BY <2>2, FS_CardinalityType
    <3>2. /\ IsFiniteSet(m \cup {e})
          /\ Cardinality(m \cup {e}) = IF e \in m THEN Cardinality(m) ELSE Cardinality(m) + 1
      BY <3>1, FS_AddElement
    <3> QED BY <3>1, <3>2
  <2> QED BY <1>1, <2>1, <2>2, <2>3
<1>2. CASE e.job # j
  <2>1. Members(j)' = Members(j) BY <1>2 DEF Members
  <2> QED BY <1>2, <2>1, FS_CardinalityType
<1> QED BY <1>1, <1>2

\* And one fewer.
LEMMA MembersRemove ==
    ASSUME NEW e \in delayed, delayed' = delayed \ {e}, NEW j, IsFiniteSet(Members(j))
    PROVE  /\ IsFiniteSet(Members(j)') /\ Cardinality(Members(j)') \in Nat
           /\ Cardinality(Members(j)) = Cardinality(Members(j)') + (IF e.job = j THEN 1 ELSE 0)
<1>1. CASE e.job = j
  <2>1. Members(j)' = Members(j) \ {e} /\ e \in Members(j) BY <1>1 DEF Members
  <2>2. PICK m : m = Members(j) OBVIOUS
  <2>3. /\ IsFiniteSet(m \ {e}) /\ Cardinality(m) \in Nat /\ Cardinality(m \ {e}) \in Nat
        /\ Cardinality(m \ {e}) = Cardinality(m) - 1
    BY <2>1, <2>2, FS_RemoveElement, FS_CardinalityType
  <2> QED BY <1>1, <2>1, <2>2, <2>3
<1>2. CASE e.job # j
  <2>1. Members(j)' = Members(j) BY <1>2 DEF Members
  <2> QED BY <1>2, <2>1, FS_CardinalityType
<1> QED BY <1>1, <1>2

\* The loop of the worker.
LEMMA LoopPays ==
    ASSUME OneWorker, TypeOK, TypeOK', Handover, PaidInv, NEW w \in Workers, LoopStep(w)
    PROVE  PaidInv'
<1> USE DEF lists, local, replayVars, history
<1>0. /\ pc \in [Workers -> WorkerPC] /\ cur \in [Workers -> Entry \cup {NoEntry}]
      /\ queue \in [Entry -> Nat] /\ processing \in [Entry -> Nat] /\ delayed \subseteq Entry
      /\ \A j \in Jobs : sends[j] \in Nat
      /\ throws \in Nat
  BY DEF TypeOK
<1>1. ASSUME \/ Boot(w) \/ RestoreDone(w) \/ PopTimeout(w)
             \/ \E members \in SUBSET delayed : PromoteRead(w, members)
      PROVE  PaidInv'
  <2>1. /\ UNCHANGED <<queue, processing, delayed, sends, client, admin, throws, crashes>>
        /\ pc'[w] # "zrem" /\ pc[w] \notin Twice
    BY <1>0, <1>1 DEF Boot, RestoreDone, PopTimeout, PromoteRead, Goto, Twice
  <2> QED BY <2>1, WorkerPays
<1>2. ASSUME RestoreOne(w) PROVE PaidInv'
  <2>1. PICK e \in Entry : processing[e] > 0 /\ processing' = Lrem(processing, e) /\ queue' = Push(queue, e)
    BY <1>2 DEF RestoreOne
  <2>2. UNCHANGED <<delayed, sends, client, admin, throws, crashes, pc, cur>> BY <1>2 DEF RestoreOne
  <2>3. ASSUME NEW j \in Jobs PROVE Balanced(j)
    <3>1. Ledger(j) BY DEF PaidInv
    <3>2. Members(j)' = Members(j) /\ Settled(j)' = Settled(j) /\ Settled(j) \in Nat
      BY <2>2 DEF Members, Settled
    <3>3. Cardinality(Members(j)) \in Nat BY <3>1, FS_CardinalityType DEF Ledger
    <3> QED BY <1>0, <2>1, <2>2, <3>1, <3>2, <3>3, PushCount, LremCount DEF Ledger, Balanced
  <2>4. pc'[w] # "zrem" BY <1>2, <2>2 DEF RestoreOne
  <2> QED BY <2>2, <2>3, <2>4, WorkerLedger
<1>3. ASSUME PromotePush(w) PROVE PaidInv'
  <2>1. PICK e \in due[w] : queue' = Push(queue, e) /\ cur' = [cur EXCEPT ![w] = e]
    BY <1>3 DEF PromotePush
  <2>2. /\ UNCHANGED <<processing, delayed, sends, client, admin, throws, crashes>>
        /\ pc[w] \notin Twice /\ pc'[w] = "zrem" /\ cur'[w] = e
        /\ e \in delayed /\ e \in Entry
    BY <1>0, <1>3, <2>1 DEF PromotePush, Goto, Twice, Handover
  <2>3. ASSUME NEW j \in Jobs PROVE Balanced(j)
    <3>1. Ledger(j) BY DEF PaidInv
    <3>2. Members(j)' = Members(j) /\ Copies(processing', j) = Copies(processing, j)
      BY <2>2 DEF Members
    <3>3. Settled(j) = 0 /\ Settled(j)' = (IF e.job = j THEN 1 ELSE 0)
      BY <2>2, SettledOf DEF Twice
    <3>4. Cardinality(Members(j)) \in Nat /\ Cardinality(Copies(processing, j)) \in Nat
      BY <3>1, FS_CardinalityType DEF Ledger
    <3> QED BY <1>0, <2>1, <2>2, <3>1, <3>2, <3>3, <3>4, PushCount DEF Ledger, Balanced
  <2> QED BY <2>2, <2>3, WorkerLedger
<1>4. ASSUME PromoteRemove(w) PROVE PaidInv'
  <2>1. PICK e : e = cur[w] OBVIOUS
  <2>2. /\ UNCHANGED <<queue, processing, sends, client, admin, throws, crashes>>
        /\ delayed' = delayed \ {e} /\ e \in delayed
        /\ pc[w] = "zrem" /\ pc'[w] = "promote"
    BY <1>0, <1>4, <2>1 DEF PromoteRemove, Drop, Goto, PaidInv
  <2>3. ASSUME NEW j \in Jobs PROVE Balanced(j)
    <3>1. Ledger(j) BY DEF PaidInv
    <3>2. Settled(j) = (IF e.job = j THEN 1 ELSE 0) /\ Settled(j)' = 0
      BY <2>1, <2>2, SettledOf DEF Twice
    <3>3. Cardinality(Copies(queue, j)) \in Nat /\ Cardinality(Copies(processing, j)) \in Nat
      BY <3>1, FS_CardinalityType DEF Ledger
    <3> QED BY <1>0, <2>2, <3>1, <3>2, <3>3, MembersRemove DEF Ledger, Balanced
  <2> QED BY <2>2, <2>3, WorkerLedger
<1>5. ASSUME NEW e \in Entry, Pop(w, e) PROVE PaidInv'
  <2>1. /\ UNCHANGED <<delayed, sends, client, admin, throws, crashes>>
        /\ queue[e] > 0 /\ queue' = Lrem(queue, e) /\ processing' = Push(processing, e)
        /\ pc[w] \notin Twice /\ pc'[w] \notin Twice /\ pc'[w] # "zrem"
    BY <1>0, <1>5 DEF Pop, Goto, Twice
  <2>2. ASSUME NEW j \in Jobs PROVE Balanced(j)
    <3>1. Ledger(j) BY DEF PaidInv
    <3>2. Members(j)' = Members(j) /\ Settled(j) = 0 /\ Settled(j)' = 0
      BY <2>1, SettledOf DEF Members
    <3>3. Cardinality(Members(j)) \in Nat BY <3>1, FS_CardinalityType DEF Ledger
    <3> QED BY <1>0, <2>1, <3>1, <3>2, <3>3, PushCount, LremCount DEF Ledger, Balanced
  <2> QED BY <2>1, <2>2, WorkerLedger
<1> QED BY <1>1, <1>2, <1>3, <1>4, <1>5 DEF LoopStep

\* processJob, and the faults of the worker.
LEMMA ProcessPays ==
    ASSUME OneWorker, TypeOK, TypeOK', Handover, PaidInv, NEW w \in Workers,
           ProcessStep(w) \/ FaultStep(w)
    PROVE  PaidInv'
<1> USE DEF lists, local, replayVars, history
<1>0. /\ pc \in [Workers -> WorkerPC] /\ cur \in [Workers -> Entry \cup {NoEntry}]
      /\ queue \in [Entry -> Nat] /\ processing \in [Entry -> Nat] /\ delayed \subseteq Entry
      /\ sends \in [Jobs -> Nat] /\ throws \in Nat /\ crashes \in Nat
  BY DEF TypeOK
<1>1. ASSUME \/ Acquire(w) \/ Collide(w) \/ MarkProcessing(w) \/ SendRejected(w)
             \/ RecordSent(w) \/ FailDoc(w) \/ Release(w)
      PROVE  PaidInv'
  <2>1. /\ UNCHANGED <<queue, processing, delayed, sends, client, admin, throws, crashes>>
        /\ pc'[w] # "zrem" /\ (pc[w] \in Twice => pc'[w] \in Twice /\ cur'[w] = cur[w])
    BY <1>0, <1>1 DEF Acquire, Collide, MarkProcessing, SendRejected, RecordSent, FailDoc, Release,
       Drop, Goto, Twice
  <2> QED BY <2>1, WorkerPays
<1>2. ASSUME ThrowAfterSend(w) \/ ThrowInCatch(w) \/ ThrowToLoop(w) \/ Crash(w) PROVE PaidInv'
  <2>1. /\ UNCHANGED <<queue, processing, delayed, sends, client, admin>> /\ pc'[w] # "zrem"
    BY <1>0, <1>2 DEF ThrowAfterSend, ThrowInCatch, ThrowToLoop, Crash, Drop, Goto
  <2>2. throws' + crashes' = throws + crashes + 1
    <3>1. (throws' = throws + 1 /\ crashes' = crashes) \/ (throws' = throws /\ crashes' = crashes + 1)
      BY <1>2 DEF ThrowAfterSend, ThrowInCatch, ThrowToLoop, Crash, Spend
    <3>2. throws \in Nat /\ crashes \in Nat BY <1>0
    <3> QED BY <3>1, <3>2
  <2> QED BY <2>1, <2>2, WorkerPays
<1>3. ASSUME CollideDelay(w) PROVE PaidInv'
  <2>1. PICK e : e = cur[w] OBVIOUS
  <2>2. /\ UNCHANGED <<queue, processing, sends, client, admin, throws, crashes>>
        /\ delayed' = delayed \cup {e} /\ e \in Entry /\ cur'[w] = e
        /\ pc[w] \notin Twice /\ pc'[w] = "delayAck"
    BY <1>0, <1>3, <2>1 DEF CollideDelay, Goto, Twice, TypeOK
  <2>3. ASSUME NEW j \in Jobs PROVE Balanced(j)
    <3>1. Ledger(j) BY DEF PaidInv
    <3>2. Settled(j) = 0 /\ Settled(j)' = (IF e.job = j THEN 1 ELSE 0)
      BY <2>2, SettledOf DEF Twice
    <3>3. Cardinality(Copies(queue, j)) \in Nat /\ Cardinality(Copies(processing, j)) \in Nat
      BY <3>1, FS_CardinalityType DEF Ledger
    <3> QED BY <1>0, <2>2, <3>1, <3>2, <3>3, MembersAdd DEF Ledger, Balanced
  <2> QED BY <2>2, <2>3, WorkerLedger
<1>4. ASSUME CollideAck(w) \/ AckSent(w) \/ FailAck(w) PROVE PaidInv'
  <2>1. PICK e : e = cur[w] OBVIOUS
  <2>2. /\ UNCHANGED <<queue, delayed, sends, client, admin, throws, crashes>>
        /\ processing' = Lrem(processing, e) /\ e \in Entry /\ processing[e] > 0
        /\ pc[w] \in Twice /\ pc'[w] \notin Twice /\ pc'[w] # "zrem"
    BY <1>0, <1>4, <2>1 DEF CollideAck, AckSent, FailAck, Drop, Goto, Twice, TypeOK, Handover
  <2>3. ASSUME NEW j \in Jobs PROVE Balanced(j)
    <3>1. Ledger(j) BY DEF PaidInv
    <3>2. Settled(j) = (IF e.job = j THEN 1 ELSE 0) /\ Settled(j)' = 0
      BY <2>1, <2>2, SettledOf
    <3>3. Members(j)' = Members(j) BY <2>2 DEF Members
    <3>4. Cardinality(Copies(queue, j)) \in Nat /\ Cardinality(Members(j)) \in Nat
      BY <3>1, FS_CardinalityType DEF Ledger
    <3> QED BY <1>0, <2>2, <3>1, <3>2, <3>3, <3>4, LremCount DEF Ledger, Balanced
  <2> QED BY <2>2, <2>3, WorkerLedger
<1>5. ASSUME SendAccepted(w) \/ SendAnswerLost(w) PROVE PaidInv'
  <2>1. PICK e : e = cur[w] OBVIOUS
  <2>2. /\ UNCHANGED <<queue, processing, delayed, client, admin, crashes>>
        /\ sends' = [sends EXCEPT ![e.job] = @ + 1] /\ pc[w] \notin Twice /\ pc'[w] # "zrem"
        /\ e \in Entry
        /\ \/ throws' = throws /\ pc'[w] \in Twice /\ cur'[w] = e
           \/ throws' = throws + 1
    BY <1>0, <1>5, <2>1 DEF SendAccepted, SendAnswerLost, Goto, Twice, Spend, TypeOK
  <2>3. ASSUME NEW j \in Jobs PROVE Balanced(j)
    <3>1. Ledger(j) BY DEF PaidInv
    <3>2. /\ Settled(j) = 0 /\ Settled(j)' \in Nat
          /\ pc'[w] \in Twice /\ cur'[w] = e /\ e.job = j => Settled(j)' = 1
      BY <2>2, SettledOf DEF Settled
    <3>3. Members(j)' = Members(j) BY <2>2 DEF Members
    <3>4. /\ Cardinality(Copies(queue, j)) \in Nat /\ Cardinality(Members(j)) \in Nat
          /\ Cardinality(Copies(processing, j)) \in Nat
      BY <3>1, FS_CardinalityType DEF Ledger
    <3>5. sends'[j] = sends[j] + (IF e.job = j THEN 1 ELSE 0) /\ sends[j] \in Nat
      BY <1>0, <2>2
    <3>6. sends'[j] + throws <= sends[j] + throws' + Settled(j)'
      BY <1>0, <2>2, <3>2, <3>5
    <3> QED BY <1>0, <2>2, <3>1, <3>2, <3>3, <3>4, <3>5, <3>6 DEF Ledger, Balanced
  <2> QED BY <2>2, <2>3, WorkerLedger
<1>6. ASSUME FailPut(w) PROVE PaidInv'
  <2>1. PICK e, n : e = cur[w] /\ n = [e EXCEPT !.attempt = @ + 1] OBVIOUS
  <2>2. /\ UNCHANGED <<queue, processing, sends, client, admin, throws, crashes>>
        /\ e \in Entry /\ cur'[w] = e /\ pc[w] = "failPut" /\ pc'[w] = "failAck"
        /\ \/ delayed' = delayed
           \/ verdict[w] = "retrying" /\ delayed' = delayed \cup {n}
    BY <1>0, <1>6, <2>1 DEF FailPut, Goto, TypeOK
  <2>3. n.job = e.job /\ (verdict[w] = "retrying" => n \in Entry)
    <3>1. verdict[w] = "retrying" => e.attempt + 1 < MaxAttempts BY <2>1, <2>2 DEF TypeOK
    <3>2. /\ e.job \in Jobs /\ e.gen \in Gen /\ e.attempt \in 0 .. MaxAttempts - 1
          /\ n = [job |-> e.job, attempt |-> e.attempt + 1, gen |-> e.gen]
      BY <2>1, <2>2 DEF Entry
    <3> QED BY <3>1, <3>2, EmailAssumption DEF Entry
  <2>4. ASSUME NEW j \in Jobs PROVE Balanced(j)
    <3>1. Ledger(j) BY DEF PaidInv
    <3>2. Settled(j) = 0 /\ Settled(j)' = (IF e.job = j THEN 1 ELSE 0)
      BY <2>2, SettledOf DEF Twice
    <3>3. Cardinality(Copies(queue, j)) \in Nat /\ Cardinality(Copies(processing, j)) \in Nat
          /\ Cardinality(Members(j)) \in Nat
      BY <3>1, FS_CardinalityType DEF Ledger
    <3>4. /\ IsFiniteSet(Members(j)') /\ Cardinality(Members(j)') \in Nat
          /\ Cardinality(Members(j)') <= Cardinality(Members(j)) + (IF e.job = j THEN 1 ELSE 0)
      <4>1. CASE delayed' = delayed
        <5>1. Members(j)' = Members(j) BY <4>1 DEF Members
        <5> QED BY <3>1, <3>3, <5>1 DEF Ledger
      <4>2. CASE verdict[w] = "retrying" /\ delayed' = delayed \cup {n}
        BY <2>3, <3>1, <4>2, MembersAdd DEF Ledger
      <4> QED BY <2>2, <4>1, <4>2
    <3> QED BY <1>0, <2>2, <3>1, <3>2, <3>3, <3>4 DEF Ledger, Balanced
  <2> QED BY <2>2, <2>4, WorkerLedger
<1> QED BY <1>1, <1>2, <1>3, <1>4, <1>5, <1>6 DEF ProcessStep, FaultStep

\* enqueueVerificationEmail.
LEMMA ClientPays ==
    ASSUME TypeOK, TypeOK', PaidInv, NEW i \in Jobs, ClientStep(i)
    PROVE  PaidInv'
<1> USE DEF lists, local, replayVars, history
<1>0. /\ UNCHANGED <<local, processing, delayed, sends, admin>>
      /\ IsFiniteSet({r \in Replays : admin[r] # "idle"})'
      /\ Replayed' = Replayed /\ Cardinality(Replayed) \in Nat
  <2>1. UNCHANGED <<local, processing, delayed, sends, admin>>
    BY DEF ClientStep, CreateJob, PushJob, PushFails, AbandonJob, ClientDies
  <2> QED BY <2>1, ReplayedFinite DEF PaidInv, Replayed
<1>1. PICK e : e = [job |-> i, attempt |-> 0, gen |-> Original] OBVIOUS
<1>2. e \in Entry /\ e.job = i BY <1>1, EntryType
<1>3. \/ /\ queue' = queue /\ throws' = throws /\ crashes' = crashes
         /\ \A j \in Jobs : Unasked(j)' <= Unasked(j)
      \/ /\ queue' = Push(queue, e) /\ throws' = throws /\ crashes' = crashes
         /\ Unasked(i) = 1 /\ Unasked(i)' = 0 /\ \A j \in Jobs \ {i} : Unasked(j)' = Unasked(j)
      \/ /\ queue' \in {queue, Push(queue, e)}
         /\ \/ throws' = throws + 1 /\ crashes' = crashes
            \/ throws' = throws /\ crashes' = crashes + 1
         /\ queue' # queue => client[i] = "created"
         /\ \A j \in Jobs : Unasked(j)' <= Unasked(j)
  <2>1. client \in [Jobs -> {"idle", "created", "pushFailed", "refused", "accepted"}] BY DEF TypeOK
  <2>2. \A j \in Jobs \ {i} : Unasked(j)' = Unasked(j) /\ Unasked(j) \in Nat
    BY <2>1 DEF ClientStep, CreateJob, PushJob, PushFails, AbandonJob, ClientDies, Unasked
  <2>3. CASE CreateJob(i) \/ AbandonJob(i)
    <3>1. Unasked(i)' <= Unasked(i) BY <2>1, <2>3 DEF CreateJob, AbandonJob, Unasked
    <3>2. \A j \in Jobs : Unasked(j)' <= Unasked(j) BY <2>2, <3>1
    <3> QED BY <2>3, <3>2 DEF CreateJob, AbandonJob
  <2>4. CASE PushJob(i)
    <3>1. Unasked(i) = 1 /\ Unasked(i)' = 0 BY <2>1, <2>4 DEF PushJob, Unasked
    <3> QED BY <1>1, <2>2, <2>4, <3>1 DEF PushJob
  <2>5. CASE PushFails(i) \/ ClientDies(i)
    <3>1. Unasked(i)' <= Unasked(i) BY <2>1, <2>5 DEF PushFails, ClientDies, Unasked
    <3>2. \A j \in Jobs : Unasked(j)' <= Unasked(j) BY <2>2, <3>1
    <3> QED BY <1>1, <2>5, <3>2 DEF PushFails, ClientDies, Spend
  <2> QED BY <2>3, <2>4, <2>5 DEF ClientStep
<1>4. ASSUME NEW j \in Jobs
      PROVE  /\ IsFiniteSet(Copies(queue', j))
             /\ Cardinality(Copies(queue', j)) + Unasked(j)' + throws + crashes + Cardinality(Replayed)
                <= Cardinality(Copies(queue, j)) + Unasked(j) + throws' + crashes' + Cardinality(Replayed)'
  <2>1. /\ IsFiniteSet(Copies(queue, j)) /\ queue \in [Entry -> Nat]
        /\ throws \in Nat /\ crashes \in Nat
    BY DEF PaidInv, Ledger, TypeOK
  <2>2. /\ IsFiniteSet(Copies(Push(queue, e), j)) /\ Cardinality(Copies(queue, j)) \in Nat
        /\ Cardinality(Copies(Push(queue, e), j)) =
             Cardinality(Copies(queue, j)) + (IF i = j THEN 1 ELSE 0)
    BY <1>2, <2>1, PushCount
  <2>3. Unasked(j) \in Nat /\ Unasked(j)' \in Nat BY DEF Unasked
  <2>4. PICK q, p, u, v, k : /\ q = Cardinality(Copies(queue, j)) /\ p = Cardinality(Copies(queue', j))
                             /\ u = Unasked(j) /\ v = Unasked(j)' /\ k = Cardinality(Replayed)
    OBVIOUS
  <2>5. IsFiniteSet(Copies(queue', j)) /\ p \in Nat /\ p + v + throws + crashes <= q + u + throws' + crashes'
    <3>1. CASE queue' = queue /\ throws' = throws /\ crashes' = crashes /\ v <= u
      BY <2>1, <2>2, <2>3, <2>4, <3>1
    <3>2. CASE queue' = Push(queue, e) /\ throws' = throws /\ crashes' = crashes
               /\ (IF i = j THEN u = 1 /\ v = 0 ELSE v = u)
      BY <2>1, <2>2, <2>3, <2>4, <3>2
    <3>3. CASE /\ queue' \in {queue, Push(queue, e)} /\ v <= u
               /\ \/ throws' = throws + 1 /\ crashes' = crashes
                  \/ throws' = throws /\ crashes' = crashes + 1
      BY <2>1, <2>2, <2>3, <2>4, <3>3
    <3> QED BY <1>3, <2>4, <3>1, <3>2, <3>3
  <2>6. Cardinality(Replayed)' = k BY <1>0, <2>4
  <2> QED BY <1>0, <2>1, <2>2, <2>3, <2>4, <2>5, <2>6 DEF TypeOK
<1> QED BY <1>0, <1>4, RequestLedger

\* replayJob: its copy is its own to pay.
LEMMA ReplayPays ==
    ASSUME TypeOK, TypeOK', PaidInv, NEW r \in Replays, ReplayStep(r)
    PROVE  PaidInv'
<1> USE DEF lists, local, replayVars, history
<1>0. /\ UNCHANGED <<local, processing, delayed, sends, client, throws>>
      /\ admin[r] # admin'[r] /\ admin'[r] # "idle"
      /\ \A s \in Replays \ {r} : admin'[s] = admin[s]
  BY DEF ReplayStep, ReplayPeek, ReplayRemove, ReplayPush, ReplayDoc, ReplayDies, TypeOK
<1>1. IsFiniteSet({s \in Replays : admin[s] # "idle"})'
  <2>1. {s \in Replays : admin[s] # "idle"}' = {s \in Replays : admin[s] # "idle"} \cup {r} BY <1>0
  <2> QED BY <2>1, FS_AddElement DEF PaidInv
<1>2. Cardinality(Replayed) \in Nat /\ IsFiniteSet(Replayed) BY ReplayedFinite DEF PaidInv
<1>3. \/ /\ queue' = queue /\ crashes' = crashes /\ Replayed' = Replayed
      \/ /\ queue' = queue /\ crashes' = crashes + 1
         /\ Replayed' = Replayed \/ Replayed' = Replayed \cup {r}
      \/ /\ \E e \in Entry : queue' = Push(queue, e)
         /\ crashes' = crashes /\ Replayed' = Replayed \cup {r} /\ r \notin Replayed
  <2>1. CASE ReplayPeek(r) \/ ReplayRemove(r) \/ ReplayDoc(r)
    <3>1. queue' = queue /\ crashes' = crashes /\ (r \in Replayed' <=> r \in Replayed)
      BY <1>0, <2>1 DEF ReplayPeek, ReplayRemove, ReplayDoc, Replayed, TypeOK
    <3>2. Replayed' = Replayed BY <1>0, <3>1 DEF Replayed
    <3> QED BY <3>1, <3>2
  <2>2. CASE ReplayPush(r)
    <3>1. \E e \in Entry : queue' = Push(queue, e) BY <2>2, EntryType DEF ReplayPush, TypeOK
    <3>2. r \notin Replayed /\ r \in Replayed' /\ crashes' = crashes
      BY <2>2 DEF ReplayPush, Replayed, TypeOK
    <3>3. Replayed' = Replayed \cup {r} BY <1>0, <3>2 DEF Replayed
    <3> QED BY <3>1, <3>2, <3>3
  <2>3. CASE ReplayDies(r)
    <3>1. queue' = queue /\ crashes' = crashes + 1 /\ r \in Replayed'
      BY <2>3 DEF ReplayDies, Replayed, TypeOK
    <3>2. Replayed' = Replayed \cup {r} BY <1>0, <3>1 DEF Replayed
    <3> QED BY <3>1, <3>2
  <2> QED BY <2>1, <2>2, <2>3 DEF ReplayStep
<1>4. ASSUME NEW j \in Jobs
      PROVE  /\ IsFiniteSet(Copies(queue', j))
             /\ Cardinality(Copies(queue', j)) + Unasked(j)' + throws + crashes + Cardinality(Replayed)
                <= Cardinality(Copies(queue, j)) + Unasked(j) + throws' + crashes' + Cardinality(Replayed)'
  <2>1. /\ IsFiniteSet(Copies(queue, j)) /\ queue \in [Entry -> Nat]
        /\ throws \in Nat /\ crashes \in Nat /\ throws' = throws
    BY <1>0 DEF PaidInv, Ledger, TypeOK
  <2>2. Cardinality(Copies(queue, j)) \in Nat BY <2>1, FS_CardinalityType
  <2>3. Unasked(j) \in Nat /\ Unasked(j)' = Unasked(j) BY <1>0 DEF Unasked
  <2>4. /\ IsFiniteSet(Replayed \cup {r})
        /\ Cardinality(Replayed \cup {r}) =
             IF r \in Replayed THEN Cardinality(Replayed) ELSE Cardinality(Replayed) + 1
    BY <1>2, FS_AddElement
  <2>5. PICK a, b, q, p : /\ a = Cardinality(Replayed) /\ b = Cardinality(Replayed')
                          /\ q = Cardinality(Copies(queue, j)) /\ p = Cardinality(Copies(queue', j))
    OBVIOUS
  <2>6. /\ IsFiniteSet(Copies(queue', j)) /\ p + crashes + a <= q + crashes' + b
        /\ p \in Nat /\ a \in Nat /\ b \in Nat /\ q \in Nat /\ crashes' \in Nat
    <3>1. CASE queue' = queue /\ crashes' = crashes /\ Replayed' = Replayed
      BY <1>2, <2>1, <2>2, <2>5, <3>1
    <3>2. CASE /\ queue' = queue /\ crashes' = crashes + 1
               /\ Replayed' = Replayed \/ Replayed' = Replayed \cup {r}
      BY <1>2, <2>1, <2>2, <2>4, <2>5, <3>2
    <3>3. ASSUME NEW e \in Entry, queue' = Push(queue, e), crashes' = crashes,
                 Replayed' = Replayed \cup {r}, r \notin Replayed
          PROVE  /\ IsFiniteSet(Copies(queue', j)) /\ p + crashes + a <= q + crashes' + b
                 /\ p \in Nat /\ a \in Nat /\ b \in Nat /\ q \in Nat /\ crashes' \in Nat
      <4>1. /\ IsFiniteSet(Copies(queue', j)) /\ p \in Nat /\ p <= q + 1
        BY <2>1, <2>2, <2>5, <3>3, PushCount
      <4> QED BY <1>2, <2>1, <2>2, <2>4, <2>5, <3>3, <4>1
    <3> QED BY <1>3, <3>1, <3>2, <3>3
  <2>7. Cardinality(Replayed)' = b BY <2>5
  <2> QED BY <2>1, <2>3, <2>5, <2>6, <2>7
<1> QED BY <1>0, <1>1, <1>4, RequestLedger

\* Each mail that is out, and each that a copy may still lead to, is paid for.
LEMMA LedgerStep ==
    ASSUME OneWorker, TypeOK, TypeOK', Handover, PaidInv, [Next]_vars
    PROVE  PaidInv'
<1>1. ASSUME UNCHANGED <<local, lists, sends, client, throws, crashes, admin>> PROVE PaidInv'
  <2>1. Replayed' = Replayed BY <1>1 DEF Replayed
  <2>2. Cardinality(Replayed) \in Nat BY ReplayedFinite DEF PaidInv
  <2>3. ASSUME NEW j \in Jobs PROVE Ledger(j)'
    <3>1. Unasked(j)' = Unasked(j) /\ Unasked(j) \in Nat BY <1>1 DEF Unasked
    <3>2. Settled(j)' = Settled(j) /\ Settled(j) \in Nat BY <1>1 DEF Settled, local
    <3> QED BY <1>1, <2>1, <2>2, <3>1, <3>2, LedgerStays DEF PaidInv, TypeOK, lists
  <2> QED BY <1>1, <2>3 DEF PaidInv, local, lists
<1>2. ASSUME NEW j \in Jobs, LockExpires(j)
      PROVE  UNCHANGED <<local, lists, sends, client, throws, crashes, admin>>
  BY <1>2 DEF LockExpires, replayVars
<1>3. UNCHANGED vars => UNCHANGED <<local, lists, sends, client, throws, crashes, admin>>
  BY DEF vars, replayVars, history
<1> QED BY <1>1, <1>2, <1>3, ClientPays, LoopPays, ProcessPays, ReplayPays DEF Next

\* With one worker nobody gets a mail twice for nothing: for any number of
\* jobs, calls, deaths and replays each further mail has a failed call, a death
\* or a replay of its own.
THEOREM DuplicatesHaveCauses ==
    ASSUME OneWorker
    PROVE  Spec => []DuplicatesArePaidFor
<1>1. Init => PaidInv
  <2> SUFFICES ASSUME Init PROVE PaidInv OBVIOUS
  <2>1. ASSUME NEW j \in Jobs
        PROVE  /\ Copies(queue, j) = {} /\ Copies(processing, j) = {} /\ Members(j) = {}
    BY DEF Init, Copies, Members, EmptyList
  <2>2. Replayed = {} /\ {r \in Replays : admin[r] # "idle"} = {} BY DEF Init, Replayed
  <2>3. \A j \in Jobs : Unasked(j) = 1 /\ Settled(j) = 0 BY DEF Init, Unasked, Settled, Twice
  <2>4. IsFiniteSet({}) /\ Cardinality({}) = 0 BY FS_EmptySet
  <2>5. /\ \A j \in Jobs : sends[j] = 0
        /\ throws = 0 /\ crashes = 0 /\ \A w \in Workers : pc[w] # "zrem"
    BY DEF Init
  <2>6. ASSUME NEW j \in Jobs PROVE Ledger(j)
    BY <2>1, <2>2, <2>3, <2>4, <2>5 DEF Ledger
  <2> QED BY <2>2, <2>4, <2>5, <2>6 DEF PaidInv
<1>2. TypeOK /\ TypeOK' /\ Handover /\ PaidInv /\ [Next]_vars => PaidInv'
  BY LedgerStep
<1>3. TypeOK /\ Handover /\ PaidInv => DuplicatesArePaidFor
  <2> SUFFICES ASSUME TypeOK, Handover, PaidInv, NEW j \in Jobs
               PROVE  sends[j] <= 1 + throws + crashes
                        + Cardinality({r \in Replays : admin[r] \in {"lpush", "doc", "done"}})
    BY DEF DuplicatesArePaidFor
  <2> DEFINE Begun == {r \in Replays : admin[r] \in {"lpush", "doc", "done"}}
  <2>1. Ledger(j) BY DEF PaidInv
  <2>2. /\ Cardinality(Replayed) <= Cardinality(Begun) /\ Cardinality(Begun) \in Nat
        /\ Cardinality(Replayed) \in Nat
    <3>1. Begun \subseteq {r \in Replays : admin[r] # "idle"} /\ Replayed \subseteq Begun BY DEF Replayed
    <3>2. IsFiniteSet(Begun) BY <3>1, FS_Subset DEF PaidInv
    <3> QED BY <3>1, <3>2, FS_Subset, FS_CardinalityType
  <2>3. /\ Cardinality(Copies(queue, j)) \in Nat /\ Cardinality(Copies(processing, j)) \in Nat
        /\ Cardinality(Members(j)) \in Nat
    BY <2>1, FS_CardinalityType DEF Ledger
  <2>4. Settled(j) <= Cardinality(Copies(queue, j)) + Cardinality(Copies(processing, j))
    <3>1. CASE Settled(j) = 0 BY <2>3, <3>1
    <3>2. CASE Settled(j) # 0
      <4>1. PICK w \in Workers : pc[w] \in Twice /\ cur[w].job = j BY <3>2 DEF Settled
      <4>2. PICK e : e = cur[w] OBVIOUS
      <4>3. e \in Entry /\ e.job = j /\ (queue[e] > 0 \/ processing[e] > 0)
        BY <4>1, <4>2 DEF Handover, Twice, TypeOK
      <4>4. <<e, 1>> \in Copies(queue, j) \/ <<e, 1>> \in Copies(processing, j)
        BY <4>3 DEF Copies, TypeOK
      <4>5. Cardinality(Copies(queue, j)) # 0 \/ Cardinality(Copies(processing, j)) # 0
        BY <2>1, <4>4, FS_EmptySet DEF Ledger
      <4>6. Settled(j) = 1 BY <3>2 DEF Settled
      <4> QED BY <2>3, <4>5, <4>6
    <3> QED BY <3>1, <3>2
  <2>5. Unasked(j) \in Nat /\ Settled(j) \in Nat BY DEF Unasked, Settled
  <2>6. sends[j] \in Nat /\ throws \in Nat /\ crashes \in Nat BY DEF TypeOK
  <2> HIDE DEF Begun
  <2>7. sends[j] <= 1 + throws + crashes + Cardinality(Begun)
    BY <2>1, <2>2, <2>3, <2>4, <2>5, <2>6 DEF Ledger
  <2> QED BY <2>7 DEF Begun
<1> QED BY <1>1, <1>2, <1>3, TypeCorrect, HandoverAlways, PTL DEF Spec
=============================================================================
