--------------------------- MODULE EmailDelivery ---------------------------
(***************************************************************************)
(* The verification-email pipeline of src/src/modules/email: the API side  *)
(* (enqueueVerificationEmail), the worker loop that every server process   *)
(* runs, processJob with its per-job Redis lock, the delayed set, the dead *)
(* letter list and its manual replay.                                      *)
(*                                                                         *)
(* One action is one awaited call; between two awaits any other process    *)
(* may run and the process itself may die.  A Redis list is a multiset of  *)
(* payloads (its order is abstracted, so a pop may take any element); the  *)
(* delayed sorted set is a set, because ZADD of an equal JSON payload      *)
(* replaces the member that is already there.                              *)
(***************************************************************************)
EXTENDS Naturals, FiniteSets

CONSTANTS
    Jobs,          \* jobIds; one per (user, purpose, correlationId)
    Workers,       \* server processes, each with one email worker loop
    PidOf,         \* the process.pid of each worker
    Replays,       \* admin replay requests (distinct replayRequestIds)
    Original,      \* "replayRequestId" of a payload that was never replayed
    NoEntry,       \* no payload in hand
    Free,          \* no lock key
    MaxAttempts,   \* emailConfig.maxAttempts
    MaxThrows,     \* bound: failing Redis, Mongo or provider calls
    MaxCrashes,    \* bound: process deaths
    MaxFaults,     \* bound: failing calls, deaths and replays together
    MaxSends,      \* bound: mails of one job the provider takes
    MaxCopies,     \* bound: copies of one payload in a list
    LockMayLapse   \* may the lock TTL end while its owner still works?

ASSUME EmailAssumption ==
    /\ MaxAttempts \in Nat \ {0}
    /\ MaxThrows \in Nat /\ MaxCrashes \in Nat /\ MaxSends \in Nat
    /\ MaxFaults \in Nat
    /\ MaxCopies \in Nat \ {0}
    /\ LockMayLapse \in BOOLEAN
    /\ Original \notin Replays

Gen == Replays \cup {Original}

\* A queue payload (VerificationEmailJob): what makes two payloads equal JSON.
Entry == [job : Jobs, attempt : 0 .. MaxAttempts - 1, gen : Gen]

ASSUME NoEntryAssumption == NoEntry \notin Entry

LockValue == {PidOf[w] : w \in Workers} \X (0 .. MaxAttempts - 1)

ASSUME FreeAssumption == Free \notin LockValue

\* Processes of one host never share a pid.  In containers every node process
\* has pid 1, so this is a premise of the properties that need it.
DistinctPids == \A v, w \in Workers : PidOf[v] = PidOf[w] => v = w
OneWorker == \A v, w \in Workers : v = w

Status == {"none", "pending", "processing", "retrying", "sent",
           "failed", "dlq", "abandoned"}

WorkerPC == {"down", "restore", "poll", "promote", "zrem", "acquire",
             "delay", "delayAck", "mark", "send", "recordSent", "ackSent",
             "failPut", "failAck", "failDoc", "release"}

\* Between SET NX and the compare-and-delete of the lock.
CriticalPC == {"mark", "send", "recordSent", "ackSent",
               "failPut", "failAck", "failDoc", "release"}

VARIABLES
    client,      \* per job: where enqueueVerificationEmail stands
    doc,         \* per job: status of the EmailJob document
    queue,       \* per payload: copies in the <env>:email:queue list
    processing,  \* per payload: copies in the <env>:email:processing list
    dlq,         \* per payload: copies in the <env>:email:failed list
    delayed,     \* members of the <env>:email:delayed sorted set
    lock,        \* per job: value of the <env>:email:processing:<jobId> key
    pc,          \* per worker: the next call of its loop
    cur,         \* per worker: payload in hand (or being promoted)
    due,         \* per worker: payloads read by ZRANGEBYSCORE, still to move
    verdict,     \* per worker: status the failure path will write
    admin,       \* per replay request: where replayJob stands
    found,       \* per replay request: the dead letter it works on
    sends,       \* history: mails the provider accepted, per job
    throws,      \* history and bound: calls that failed
    crashes,     \* history and bound: process deaths
    lapsed,      \* history: workers whose lock ended under them
    dropped      \* history: jobs a dying replay held between LREM and LPUSH

lists == <<queue, processing, dlq, delayed>>
local == <<pc, cur, due, verdict>>
replayVars == <<admin, found>>
history == <<sends, throws, crashes, lapsed, dropped>>
vars == <<client, doc, lists, lock, local, replayVars, history>>

EmptyList == [e \in Entry |-> 0]
Push(list, e) == [list EXCEPT ![e] = @ + 1]
\* LREM list 1 e: at most one copy goes, and none is no error.
Lrem(list, e) == [list EXCEPT ![e] = IF @ > 0 THEN @ - 1 ELSE 0]

\* lockOwner: `${process.pid}:${jobId}:${attempt}` under the key of the job.
Owner(w) == <<PidOf[w], cur[w].attempt>>
Critical(w) == pc[w] \in CriticalPC

Init ==
    /\ client = [j \in Jobs |-> "idle"]
    /\ doc = [j \in Jobs |-> "none"]
    /\ queue = EmptyList /\ processing = EmptyList /\ dlq = EmptyList
    /\ delayed = {}
    /\ lock = [j \in Jobs |-> Free]
    /\ pc = [w \in Workers |-> "down"]
    /\ cur = [w \in Workers |-> NoEntry]
    /\ due = [w \in Workers |-> {}]
    /\ verdict = [w \in Workers |-> "none"]
    /\ admin = [r \in Replays |-> "idle"]
    /\ found = [r \in Replays |-> NoEntry]
    /\ sends = [j \in Jobs |-> 0]
    /\ throws = 0 /\ crashes = 0
    /\ lapsed = {} /\ dropped = {}

Goto(w, next) == pc' = [pc EXCEPT ![w] = next]
Drop(w, next) ==
    /\ Goto(w, next)
    /\ cur' = [cur EXCEPT ![w] = NoEntry]
    /\ verdict' = [verdict EXCEPT ![w] = "none"]


\* Against MaxFaults.
Faults == throws + crashes + Cardinality({r \in Replays : admin[r] # "idle"})
Spend == /\ Faults < MaxFaults
         /\ throws < MaxThrows
         /\ throws' = throws + 1

---------------------------------------------------------------------------
(* API: enqueueVerificationEmail.  findOne and create are one step: the     *)
(* unique idempotencyKey makes a concurrent second create of the same       *)
(* correlation throw, and a later call finds the document: neither changes  *)
(* any state.                                                               *)

CreateJob(j) ==
    /\ client[j] = "idle" /\ doc[j] = "none"
    /\ doc' = [doc EXCEPT ![j] = "pending"]
    /\ client' = [client EXCEPT ![j] = "created"]
    /\ UNCHANGED <<lists, lock, local, replayVars, history>>

PushJob(j) ==
    /\ client[j] = "created"
    /\ queue' = Push(queue, [job |-> j, attempt |-> 0, gen |-> Original])
    /\ client' = [client EXCEPT ![j] = "accepted"]
    /\ UNCHANGED <<doc, processing, dlq, delayed, lock, local, replayVars, history>>

\* LPUSH throws; the element may have reached the list all the same.
PushFails(j) ==
    /\ client[j] = "created" /\ Spend
    /\ \E landed \in BOOLEAN :
          queue' = IF landed
                   THEN Push(queue, [job |-> j, attempt |-> 0, gen |-> Original])
                   ELSE queue
    /\ client' = [client EXCEPT ![j] = "pushFailed"]
    /\ UNCHANGED <<doc, processing, dlq, delayed, lock, local, replayVars,
                   sends, crashes, lapsed, dropped>>

AbandonJob(j) ==
    /\ client[j] = "pushFailed"
    /\ doc' = [doc EXCEPT ![j] = "abandoned"]
    /\ client' = [client EXCEPT ![j] = "refused"]
    /\ UNCHANGED <<lists, lock, local, replayVars, history>>

\* The API process dies, or the update to 'abandoned' fails as well.
ClientDies(j) ==
    /\ client[j] \in {"created", "pushFailed"}
    /\ Faults < MaxFaults /\ crashes < MaxCrashes /\ crashes' = crashes + 1
    /\ client' = [client EXCEPT ![j] = "refused"]
    /\ UNCHANGED <<doc, lists, lock, local, replayVars, sends, throws, lapsed, dropped>>

---------------------------------------------------------------------------
(* Worker loop: runEmailWorker, requeueStuckProcessing, promoteDelayed,     *)
(* popBlocking.                                                             *)

Boot(w) ==
    /\ pc[w] = "down"
    /\ Goto(w, "restore")
    /\ UNCHANGED <<client, doc, lists, lock, cur, due, verdict, replayVars, history>>

\* Slip: stuck payloads are cleared (RPOP) instead of put back.
RestoreOneDiscards(w) ==
    /\ pc[w] = "restore"
    /\ \E e \in Entry : /\ processing[e] > 0
                        /\ processing' = Lrem(processing, e)
    /\ UNCHANGED <<client, doc, queue, dlq, delayed, lock, local, replayVars, history>>

\* RPOPLPUSH processing queue, once per stuck payload, whoever popped it.
RestoreOne(w) ==
    /\ pc[w] = "restore"
    /\ \E e \in Entry :
          /\ processing[e] > 0
          /\ processing' = Lrem(processing, e)
          /\ queue' = Push(queue, e)
    /\ UNCHANGED <<client, doc, dlq, delayed, lock, local, replayVars, history>>

\* Slip: polling starts while payloads of the last run are still in flight.
RestoreDoneEarly(w) ==
    /\ pc[w] = "restore"
    /\ Goto(w, "poll")
    /\ UNCHANGED <<client, doc, lists, lock, cur, due, verdict, replayVars, history>>

RestoreDone(w) ==
    /\ pc[w] = "restore" /\ processing = EmptyList
    /\ Goto(w, "poll")
    /\ UNCHANGED <<client, doc, lists, lock, cur, due, verdict, replayVars, history>>

\* ZRANGEBYSCORE: which members are due is a matter of time, so any are.
PromoteRead(w, members) ==
    /\ pc[w] = "poll"
    /\ due' = [due EXCEPT ![w] = members]
    /\ Goto(w, "promote")
    /\ UNCHANGED <<client, doc, lists, lock, cur, verdict, replayVars, history>>

PromotePush(w) ==
    /\ pc[w] = "promote"
    /\ \E e \in due[w] :
          /\ queue[e] < MaxCopies
          /\ queue' = Push(queue, e)
          /\ cur' = [cur EXCEPT ![w] = e]
    /\ Goto(w, "zrem")
    /\ UNCHANGED <<client, doc, processing, dlq, delayed, lock, due, verdict,
                   replayVars, history>>

\* Slip: the promoted member stays in the delayed set.
PromoteKeeps(w) ==
    /\ pc[w] = "zrem"
    /\ due' = [due EXCEPT ![w] = @ \ {cur[w]}]
    /\ Drop(w, "promote")
    /\ UNCHANGED <<client, doc, lists, lock, replayVars, history>>

PromoteRemove(w) ==
    /\ pc[w] = "zrem"
    /\ delayed' = delayed \ {cur[w]}
    /\ due' = [due EXCEPT ![w] = @ \ {cur[w]}]
    /\ Drop(w, "promote")
    /\ UNCHANGED <<client, doc, queue, processing, dlq, lock,
                   replayVars, history>>

\* Slip: a plain BRPOP.
PopForgets(w, e) ==
    /\ pc[w] = "promote" /\ due[w] = {}
    /\ queue[e] > 0
    /\ queue' = Lrem(queue, e)
    /\ cur' = [cur EXCEPT ![w] = e]
    /\ Goto(w, "acquire")
    /\ UNCHANGED <<client, doc, processing, dlq, delayed, lock, due, verdict,
                   replayVars, history>>

\* BRPOPLPUSH queue processing.
Pop(w, e) ==
    /\ pc[w] = "promote" /\ due[w] = {}
    /\ queue[e] > 0
    /\ queue' = Lrem(queue, e)
    /\ processing' = Push(processing, e)
    /\ cur' = [cur EXCEPT ![w] = e]
    /\ Goto(w, "acquire")
    /\ UNCHANGED <<client, doc, dlq, delayed, lock, due, verdict, replayVars, history>>

PopTimeout(w) ==
    /\ pc[w] = "promote" /\ due[w] = {} /\ queue = EmptyList
    /\ Goto(w, "poll")
    /\ UNCHANGED <<client, doc, lists, lock, cur, due, verdict, replayVars, history>>

---------------------------------------------------------------------------
(* processJob.                                                              *)

Acquire(w) ==
    /\ pc[w] = "acquire"
    /\ lock[cur[w].job] = Free
    /\ lock' = [lock EXCEPT ![cur[w].job] = Owner(w)]
    /\ Goto(w, "mark")
    /\ UNCHANGED <<client, doc, lists, cur, due, verdict, replayVars, history>>

Collide(w) ==
    /\ pc[w] = "acquire"
    /\ lock[cur[w].job] # Free
    /\ Goto(w, "delay")
    /\ UNCHANGED <<client, doc, lists, lock, cur, due, verdict, replayVars, history>>

CollideDelay(w) ==
    /\ pc[w] = "delay"
    /\ delayed' = delayed \cup {cur[w]}
    /\ Goto(w, "delayAck")
    /\ UNCHANGED <<client, doc, queue, processing, dlq, lock, cur, due, verdict,
                   replayVars, history>>

CollideAck(w) ==
    /\ pc[w] = "delayAck"
    /\ processing' = Lrem(processing, cur[w])
    /\ Drop(w, "poll")
    /\ UNCHANGED <<client, doc, queue, dlq, delayed, lock, due,
                   replayVars, history>>

MarkProcessing(w) ==
    /\ pc[w] = "mark"
    /\ doc' = [doc EXCEPT ![cur[w].job] = "processing"]
    /\ Goto(w, "send")
    /\ UNCHANGED <<client, lists, lock, cur, due, verdict, replayVars, history>>

SendAccepted(w) ==
    /\ pc[w] = "send" /\ sends[cur[w].job] < MaxSends
    /\ sends' = [sends EXCEPT ![cur[w].job] = @ + 1]
    /\ Goto(w, "recordSent")
    /\ UNCHANGED <<client, doc, lists, lock, cur, due, verdict, replayVars,
                   throws, crashes, lapsed, dropped>>

\* Slip: shouldRetry compares the attempt just made with the maximum.
VerdictLate(class, e) ==
    IF class = "transient" /\ e.attempt < MaxAttempts THEN "retrying"
    ELSE IF class = "permanent" THEN "failed" ELSE "dlq"

\* classifyEmailError and shouldRetry, as the status the failure path ends in.
Verdict(class, e) ==
    IF class = "transient" /\ e.attempt + 1 < MaxAttempts THEN "retrying"
    ELSE IF class = "permanent" THEN "failed" ELSE "dlq"

SendRejected(w) ==
    /\ pc[w] = "send"
    /\ \E class \in {"transient", "permanent", "poison"} :
          verdict' = [verdict EXCEPT ![w] = Verdict(class, cur[w])]
    /\ Goto(w, "failPut")
    /\ UNCHANGED <<client, doc, lists, lock, cur, due, replayVars, history>>

\* The provider took the mail but its answer was lost: a transient error.
SendAnswerLost(w) ==
    /\ pc[w] = "send" /\ sends[cur[w].job] < MaxSends /\ Spend
    /\ sends' = [sends EXCEPT ![cur[w].job] = @ + 1]
    /\ verdict' = [verdict EXCEPT ![w] = Verdict("transient", cur[w])]
    /\ Goto(w, "failPut")
    /\ UNCHANGED <<client, doc, lists, lock, cur, due, replayVars,
                   crashes, lapsed, dropped>>

RecordSent(w) ==
    /\ pc[w] = "recordSent"
    /\ doc' = [doc EXCEPT ![cur[w].job] = "sent"]
    /\ Goto(w, "ackSent")
    /\ UNCHANGED <<client, lists, lock, cur, due, verdict, replayVars, history>>

AckSent(w) ==
    /\ pc[w] = "ackSent"
    /\ processing' = Lrem(processing, cur[w])
    /\ Goto(w, "release")
    /\ UNCHANGED <<client, doc, queue, dlq, delayed, lock, cur, due, verdict,
                   replayVars, history>>

\* enqueueDelayed of the retry, or pushToDlq of the job as it is.
FailPut(w) ==
    /\ pc[w] = "failPut"
    /\ IF verdict[w] = "retrying"
       THEN /\ delayed' = delayed \cup {[cur[w] EXCEPT !.attempt = @ + 1]}
            /\ UNCHANGED dlq
       ELSE /\ dlq[cur[w]] < MaxCopies
            /\ dlq' = Push(dlq, cur[w])
            /\ UNCHANGED delayed
    /\ Goto(w, "failAck")
    /\ UNCHANGED <<client, doc, queue, processing, lock, cur, due, verdict,
                   replayVars, history>>

FailAck(w) ==
    /\ pc[w] = "failAck"
    /\ processing' = Lrem(processing, cur[w])
    /\ Goto(w, "failDoc")
    /\ UNCHANGED <<client, doc, queue, dlq, delayed, lock, cur, due, verdict,
                   replayVars, history>>

FailDoc(w) ==
    /\ pc[w] = "failDoc"
    /\ doc' = [doc EXCEPT ![cur[w].job] = verdict[w]]
    /\ Goto(w, "release")
    /\ UNCHANGED <<client, lists, lock, cur, due, verdict, replayVars, history>>

\* Slip: an unconditional DEL.
ReleaseAny(w) ==
    /\ pc[w] = "release"
    /\ lock' = [lock EXCEPT ![cur[w].job] = Free]
    /\ Drop(w, "poll")
    /\ lapsed' = lapsed \ {w}
    /\ UNCHANGED <<client, doc, lists, due, replayVars,
                   sends, throws, crashes, dropped>>

\* The Lua compare-and-delete.
Release(w) ==
    /\ pc[w] = "release"
    /\ lock' = [lock EXCEPT ![cur[w].job] = IF @ = Owner(w) THEN Free ELSE @]
    /\ Drop(w, "poll")
    /\ lapsed' = lapsed \ {w}
    /\ UNCHANGED <<client, doc, lists, due, replayVars,
                   sends, throws, crashes, dropped>>

---------------------------------------------------------------------------
(* Failing calls, process deaths and lock expiry.                           *)

\* Recording or acknowledging a sent mail throws inside the try: the catch
\* treats it as a transient send error.
ThrowAfterSend(w) ==
    /\ pc[w] \in {"recordSent", "ackSent"} /\ Spend
    /\ verdict' = [verdict EXCEPT ![w] = Verdict("transient", cur[w])]
    /\ Goto(w, "failPut")
    /\ UNCHANGED <<client, doc, lists, lock, cur, due, replayVars,
                   sends, crashes, lapsed, dropped>>

\* A call of the catch block throws: finally still releases the lock.
ThrowInCatch(w) ==
    /\ pc[w] \in {"failPut", "failAck", "failDoc"} /\ Spend
    /\ Goto(w, "release")
    /\ UNCHANGED <<client, doc, lists, lock, cur, due, verdict, replayVars,
                   sends, crashes, lapsed, dropped>>

\* Anything else that throws reaches the catch of the worker loop; the
\* payload stays in the processing list, the lock (if taken) stays set.
ThrowToLoop(w) ==
    /\ pc[w] \in {"promote", "zrem", "acquire", "delay", "delayAck",
                  "mark", "release"}
    /\ Spend
    /\ due' = [due EXCEPT ![w] = {}]
    /\ Drop(w, "poll")
    /\ lapsed' = lapsed \ {w}
    /\ UNCHANGED <<client, doc, lists, lock, replayVars,
                   sends, crashes, dropped>>

Crash(w) ==
    /\ pc[w] # "down"
    /\ Faults < MaxFaults /\ crashes < MaxCrashes /\ crashes' = crashes + 1
    /\ due' = [due EXCEPT ![w] = {}]
    /\ Drop(w, "down")
    /\ lapsed' = lapsed \ {w}
    /\ UNCHANGED <<client, doc, lists, lock, replayVars,
                   sends, throws, dropped>>

\* The worker that relies on the lock of job j.
HoldsLock(w, j) == /\ Critical(w) /\ cur[w].job = j
                   /\ w \notin lapsed

\* PX 180000 runs out.  Nothing renews the key, and a send has no timeout.
\* That the key is gone is noticed by the next call that looks at it.
LockExpires(j) ==
    /\ lock[j] # Free
    /\ \E w \in Workers : pc[w] \in {"acquire", "release"} /\ cur[w].job = j
    /\ LockMayLapse \/ \A w \in Workers : ~ HoldsLock(w, j)
    /\ lock' = [lock EXCEPT ![j] = Free]
    /\ lapsed' = lapsed \cup {w \in Workers : HoldsLock(w, j)}
    /\ UNCHANGED <<client, doc, lists, local, replayVars,
                   sends, throws, crashes, dropped>>

---------------------------------------------------------------------------
(* Admin: replayJob and requeueDlqJobById.  The replay guard key lets each  *)
(* replayRequestId run once.                                                *)

\* peekDlq found the job (the first 500 dead letters are searched).
ReplayPeek(r) ==
    /\ admin[r] = "idle" /\ Faults < MaxFaults
    /\ \E e \in Entry : /\ dlq[e] > 0
                        /\ found' = [found EXCEPT ![r] = e]
    /\ admin' = [admin EXCEPT ![r] = "lrem"]
    /\ UNCHANGED <<client, doc, lists, lock, local, history>>

\* LREM; its count is not looked at.
ReplayRemove(r) ==
    /\ admin[r] = "lrem"
    /\ dlq' = Lrem(dlq, found[r])
    /\ admin' = [admin EXCEPT ![r] = "lpush"]
    /\ UNCHANGED <<client, doc, queue, processing, delayed, lock, local, found, history>>

ReplayPush(r) ==
    /\ admin[r] = "lpush"
    /\ queue' = Push(queue, [job |-> found[r].job, attempt |-> 0, gen |-> r])
    /\ admin' = [admin EXCEPT ![r] = "doc"]
    /\ UNCHANGED <<client, doc, processing, dlq, delayed, lock, local, found, history>>

ReplayDoc(r) ==
    /\ admin[r] = "doc"
    /\ doc' = [doc EXCEPT ![found[r].job] = "pending"]
    /\ admin' = [admin EXCEPT ![r] = "done"]
    /\ UNCHANGED <<client, lists, lock, local, found, history>>

ReplayDies(r) ==
    /\ admin[r] \in {"lrem", "lpush", "doc"}
    /\ Faults < MaxFaults /\ crashes < MaxCrashes /\ crashes' = crashes + 1
    /\ dropped' = IF admin[r] = "lpush" THEN dropped \cup {found[r].job}
                  ELSE dropped
    /\ admin' = [admin EXCEPT ![r] = "done"]
    /\ UNCHANGED <<client, doc, lists, lock, local, found, sends, throws, lapsed>>

---------------------------------------------------------------------------

ClientStep(j) ==
    \/ CreateJob(j) \/ PushJob(j) \/ PushFails(j) \/ AbandonJob(j) \/ ClientDies(j)

LoopStep(w) ==
    \/ Boot(w) \/ RestoreOne(w) \/ RestoreDone(w)
    \/ \E members \in SUBSET delayed : PromoteRead(w, members)
    \/ PromotePush(w) \/ PromoteRemove(w)
    \/ \E e \in Entry : Pop(w, e)
    \/ PopTimeout(w)

ProcessStep(w) ==
    \/ Acquire(w) \/ Collide(w) \/ CollideDelay(w) \/ CollideAck(w)
    \/ MarkProcessing(w) \/ SendAccepted(w) \/ SendRejected(w)
    \/ RecordSent(w) \/ AckSent(w)
    \/ FailPut(w) \/ FailAck(w) \/ FailDoc(w) \/ Release(w)

FaultStep(w) ==
    \/ SendAnswerLost(w) \/ ThrowAfterSend(w) \/ ThrowInCatch(w)
    \/ ThrowToLoop(w) \/ Crash(w)

ReplayStep(r) ==
    \/ ReplayPeek(r) \/ ReplayRemove(r) \/ ReplayPush(r)
    \/ ReplayDoc(r) \/ ReplayDies(r)

Next ==
    \/ \E j \in Jobs : ClientStep(j) \/ LockExpires(j)
    \/ \E w \in Workers : LoopStep(w) \/ ProcessStep(w) \/ FaultStep(w)
    \/ \E r \in Replays : ReplayStep(r)

Spec == Init /\ [][Next]_vars

\* A running worker takes its next step; a dead process is restarted; the
\* queue is FIFO, so no payload is overtaken for ever; a score passes, so a
\* delayed payload is among the due ones again and again; a TTL ends.
Fairness ==
    /\ \A w \in Workers :
          /\ WF_vars(LoopStep(w) \/ ProcessStep(w))
          /\ \A e \in Entry :
                /\ SF_vars(Pop(w, e))
                /\ SF_vars(\E members \in SUBSET delayed :
                              e \in members /\ PromoteRead(w, members))
    /\ \A j \in Jobs : SF_vars(LockExpires(j)) /\ WF_vars(PushJob(j))
    /\ \A r \in Replays : WF_vars(ReplayRemove(r) \/ ReplayPush(r) \/ ReplayDoc(r))

FairSpec == Spec /\ Fairness

---------------------------------------------------------------------------
TypeOK ==
    /\ client \in [Jobs -> {"idle", "created", "pushFailed", "refused", "accepted"}]
    /\ doc \in [Jobs -> Status]
    /\ queue \in [Entry -> Nat] /\ processing \in [Entry -> Nat]
    /\ dlq \in [Entry -> Nat] /\ delayed \in SUBSET Entry
    /\ pc \in [Workers -> WorkerPC]
    /\ cur \in [Workers -> Entry \cup {NoEntry}]
    /\ \A w \in Workers :
          pc[w] \notin {"down", "restore", "poll", "promote"} => cur[w] \in Entry
    /\ due \in [Workers -> SUBSET Entry]
    /\ verdict \in [Workers -> {"none", "retrying", "failed", "dlq"}]
    /\ \A w \in Workers :
          pc[w] \in {"failPut", "failAck", "failDoc"} =>
             /\ verdict[w] # "none"
             /\ verdict[w] = "retrying" => cur[w].attempt + 1 < MaxAttempts
    /\ admin \in [Replays -> {"idle", "lrem", "lpush", "doc", "done"}]
    /\ found \in [Replays -> Entry \cup {NoEntry}]
    /\ \A r \in Replays : admin[r] \in {"lrem", "lpush", "doc"} => found[r] \in Entry
    /\ lock \in [Jobs -> {Free} \cup LockValue]
    /\ sends \in [Jobs -> Nat]
    /\ throws \in Nat /\ crashes \in Nat
    /\ lapsed \in SUBSET Workers
    /\ dropped \in SUBSET Jobs

(***************************************************************************)
(* A copy of the job is where a worker or an admin will find it again.     *)
(***************************************************************************)
Waiting(j) == \E e \in Entry : e.job = j /\ (queue[e] > 0 \/ e \in delayed)
InFlight(j) == \E e \in Entry : e.job = j /\ processing[e] > 0
Dead(j) == \/ \E e \in Entry : e.job = j /\ dlq[e] > 0
           \/ \E r \in Replays : admin[r] = "lpush" /\ found[r].job = j

\* With one worker, a mail the API accepted is never lost: the provider has
\* taken it, or a copy is queued, delayed, in flight or dead-lettered -
\* whatever call fails and whenever the worker dies.  processJob and
\* promoteDelayed add the next copy before they remove the last one; the one
\* gap is a replay that dies between its LREM and its LPUSH.
NoLostJob ==
    \A j \in Jobs : client[j] = "accepted" =>
        \/ sends[j] > 0
        \/ Waiting(j) \/ InFlight(j) \/ Dead(j)
        \/ j \in dropped

\* With one worker a user gets a second copy of a mail only if something
\* failed or was replayed: each extra mail is paid for by one failed call,
\* one crash or one replay.
DuplicatesArePaidFor ==
    \A j \in Jobs :
        sends[j] <= 1 + throws + crashes
                      + Cardinality({r \in Replays : admin[r] \in {"lpush", "doc", "done"}})

\* A worker inside processJob owns the lock of its job, unless the TTL ended
\* under it: nobody else's release deletes it, and no second worker gets in.
CriticalSectionOwnsLock ==
    \A w \in Workers :
        Critical(w) /\ w \notin lapsed => lock[cur[w].job] = Owner(w)

\* An accepted mail reaches the provider or the dead letter list (or a
\* replay gave it up), when every worker that dies is restarted.  A call that
\* throws in the catch may leave a payload in the processing list until the
\* next start of a worker, which nothing promises.
Settles(j) ==
    client[j] = "accepted" ~> sends[j] > 0 \/ Dead(j) \/ j \in dropped \/ throws > 0
EveryJobSettles == \A j \in Jobs : Settles(j)

---------------------------------------------------------------------------
(* The contract this pipeline implements (module MailContract).             *)

\* A dead letter, or one a replay has in hand: two replays may peek at the
\* same dead letter, and what one of them loses the other still brings back.
Held(j) == Waiting(j) \/ InFlight(j)
Parked(j) == Dead(j) \/ \E r \in Replays : admin[r] = "lrem" /\ found[r].job = j

Phase(j) ==
    IF sends[j] > 0 THEN "delivered"
    ELSE IF client[j] # "accepted" THEN "unasked"
    ELSE IF Held(j) THEN "owed"
    ELSE IF Parked(j) THEN "parked"
    ELSE "gone"

ContractState == [j \in Jobs |-> Phase(j)]

Contract == INSTANCE MailContract
                WITH Mails <- Jobs, state <- ContractState, broken <- dropped
ContractSpec == Contract!Spec
=============================================================================
