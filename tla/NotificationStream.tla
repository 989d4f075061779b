------------------------- MODULE NotificationStream -------------------------
(* The notification pipeline of one user: the Redis stream of domain events  *)
(* and its consumer group, the stream workers, materialisation (preferences, *)
(* throttle, dedupe, sequence number, document, unread counter), and the     *)
(* inbox operations that share documents and counter with them.  One action  *)
(* is one awaited call.  Keys and documents are per user, so one user is     *)
(* enough; only the order within a batch relates users.                      *)
EXTENDS Budget, Integers, Sequences, FiniteSets, SequencesExt

CONSTANTS StreamWorkers, \* processes running runNotificationStreamWorker
          Calls,         \* inbox requests that may be in flight at a time
          Notices,       \* [name, subject]: events producers publish directly
          BatchSize,     \* COUNT of XREADGROUP (50 in the code)
          ThrottleLimit  \* hits a throttle window allows (4 to 60 in the code)

ASSUME StreamAssumption ==
  BatchSize \in Nat \ {0} /\ ThrottleLimit \in Nat \ {0}

VARIABLES log,      \* every entry the stream ever held, in order
          next,     \* how many of them the group has delivered
          pending,  \* delivered and not acknowledged (positions in log)
          sworker,  \* worker -> [pc, batch, seq]
          ndlq,     \* entries copied to notif:stream:dlq
          hasPrefs, \* the preferences document exists
          muted,    \* categories it switches off (global off: every one)
          throttle, \* the INCR counter of the throttle window
          window,   \* that counter has its TTL
          dedupe,   \* notif:dedupe keys that are set
          seqno,    \* notif:seq of the user
          inbox,    \* documents: set of [id, hash, seq, status]
          unread,   \* notif:unread, Absent when there is no such key
          call,     \* request -> [pc, id, was, n]
          declined, \* ghost: entries a rule, preference or throttle declined
          nfaults,  \* ghost: errors, deaths and lost races of a processing
          disturbed \* ghost: counter operations overlapped, or one was cut short

stream == <<log, next, pending>>
shelf  == <<seqno, inbox, unread>>
gates  == <<hasPrefs, muted, throttle, window, dedupe>>
ghosts == <<declined, nfaults, disturbed>>
streamVars == <<stream, sworker, ndlq, gates, shelf, call, ghosts>>

Absent == -1000
Badge  == IF unread = Absent THEN 0 ELSE unread
NoWork == [pc |-> "idle", batch |-> <<>>, seq |-> 0]
Begin(ids) == [pc |-> "feature", batch |-> ids, seq |-> 0]
CallAt(pc, id, was, n) == [pc |-> pc, id |-> id, was |-> was, n |-> n]
NoCall == CallAt("idle", 0, "none", 0)
-----------------------------------------------------------------------------
\* evaluateRules: one draft per event.  Events of a transaction, an hour or a
\* day share the dedupe hash; the others carry their random event id in it.
Shared == {"wallet.transfer_detected.v1", "market.spike.v1", "news.digest.v1",
           "portfolio.threshold.v1"}
Throttled == {"auth.session.login.v1", "wallet.transfer_detected.v1",
              "social.new_follower.v1", "market.spike.v1", "news.digest.v1"}
Category(ev) ==
  CASE ev.name \in {"auth.session.login.v1", "auth.user.signup.v1"} -> "security"
    [] ev.name \in {"social.comment_reply.v1", "social.new_follower.v1"} -> "social"
    [] ev.name = "market.spike.v1" -> "market"
    [] ev.name = "news.digest.v1" -> "news"
    [] OTHER -> "portfolio"
Hash(id) == LET ev == log[id]
            IN  <<ev.name, IF ev.name \in Shared THEN ev.subject ELSE id>>

Cur(w) == Head(sworker[w].batch)
Go(w, pc) == sworker' = [sworker EXCEPT ![w].pc = pc]
Decline(w) == declined' = declined \union {Cur(w)} /\ Go(w, "ack")

\* Ghost: what holds the unread counter and the documents apart right now.
Counting == {w \in StreamWorkers : sworker[w].pc = "incr"}
              \union {c \in Calls : call[c].pc # "idle"}
Opens == disturbed' = (disturbed \/ Counting # {})
-----------------------------------------------------------------------------
\* appendNotificationEvent: XADD.
Append1(ev) == log' = Append(log, ev)

\* Comment, follow, wallet aggregator and the cron producers publish directly.
Publish(ev) ==
  /\ ev \in Notices /\ Spend(1) /\ Append1(ev)
  /\ UNCHANGED <<next, pending, sworker, ndlq, gates, shelf, call, ghosts>>

\* XREADGROUP: the entries after the group's cursor, delivered to this worker.
Read(w) ==
  LET last == IF next + BatchSize < Len(log) THEN next + BatchSize ELSE Len(log)
      ids  == [i \in 1..(last - next) |-> next + i]
  IN  /\ sworker[w].pc = "idle" /\ next < Len(log)
      /\ next' = last /\ pending' = pending \union (next + 1)..last
      /\ sworker' = [sworker EXCEPT ![w] = Begin(ids)]
      /\ UNCHANGED <<stimuli, log, ndlq, gates, shelf, call, ghosts>>

\* reclaimStaleMessages: XAUTOCLAIM takes entries pending for two minutes,
\* whoever holds them - also a batch another worker is still busy with.
Reclaim(w, ids) ==
  /\ sworker[w].pc = "idle" /\ ids # {} /\ ids \subseteq pending /\ Spend(1)
  /\ \E ordered \in [1..Cardinality(ids) -> ids] :
       /\ \A i, j \in 1..Cardinality(ids) : i < j => ordered[i] < ordered[j]
       /\ sworker' = [sworker EXCEPT ![w] = Begin(ordered)]
  /\ UNCHANGED <<stream, ndlq, gates, shelf, call, ghosts>>

\* Slip: an entry whose processing threw is acknowledged, not dead-lettered.
CheckFeatureOrSkip(w) ==
  /\ sworker[w].pc = "feature"
  /\ \/ Go(w, "prefs") /\ UNCHANGED <<stimuli, ghosts>>
     \/ Spend(1) /\ Decline(w) /\ UNCHANGED <<nfaults, disturbed>>
     \/ Spend(1) /\ Go(w, "ack") /\ UNCHANGED ghosts
  /\ UNCHANGED <<stream, ndlq, gates, shelf, call>>

\* featureService.isActive('notifications'); a throw reaches the worker's catch.
CheckFeature(w) ==
  /\ sworker[w].pc = "feature"
  /\ \/ Go(w, "prefs") /\ UNCHANGED <<stimuli, ghosts>>
     \/ Spend(1) /\ Decline(w) /\ UNCHANGED <<nfaults, disturbed>>
     \/ Spend(1) /\ Go(w, "dlq") /\ UNCHANGED ghosts
  /\ UNCHANGED <<stream, ndlq, gates, shelf, call>>

DeadLetter(w) ==
  /\ sworker[w].pc = "dlq"
  /\ ndlq' = ndlq \union {Cur(w)} /\ Go(w, "ack")
  /\ UNCHANGED <<stimuli, stream, gates, shelf, call, ghosts>>

\* A rejection inside materializeDraft is logged and the entry acknowledged.
Swallow(w) == Spend(1) /\ nfaults' = nfaults + 1 /\ Go(w, "ack")

\* ensurePrefs: look up the document, create it when there is none; userId is
\* unique, so of two creations the later one throws.
FindPrefs(w) ==
  /\ sworker[w].pc = "prefs"
  /\ \/ hasPrefs /\ Go(w, "allowed") /\ UNCHANGED <<stimuli, nfaults>>
     \/ ~hasPrefs /\ Go(w, "mkprefs") /\ UNCHANGED <<stimuli, nfaults>>
     \/ Swallow(w)
  /\ UNCHANGED <<stream, ndlq, gates, shelf, call, declined, disturbed>>

MakePrefs(w) ==
  /\ sworker[w].pc = "mkprefs"
  /\ hasPrefs' = TRUE
  /\ Go(w, IF hasPrefs THEN "ack" ELSE "allowed")
  /\ nfaults' = nfaults + IF hasPrefs THEN 1 ELSE 0
  /\ UNCHANGED <<stimuli, stream, ndlq, muted, throttle, window, dedupe, shelf, call,
                 declined, disturbed>>

\* categoryAllowed, then throttleAllow: INCR, the first hit sets the window.
Throttle(w) ==
  /\ sworker[w].pc = "allowed"
  /\ LET ev == log[Cur(w)]
         hits == throttle + IF ev.name \in Throttled THEN 1 ELSE 0
     IN  IF Category(ev) \in muted THEN Decline(w) /\ UNCHANGED throttle
         ELSE /\ throttle' = hits
              /\ IF ev.name \in Throttled /\ hits > ThrottleLimit THEN Decline(w)
                 ELSE /\ Go(w, IF ev.name \in Throttled /\ hits = 1 THEN "expire" ELSE "dedupe")
                      /\ UNCHANGED declined
  /\ UNCHANGED <<stimuli, stream, ndlq, hasPrefs, muted, window, dedupe, shelf,
                 call, nfaults, disturbed>>

\* EXPIRE: a death before it leaves a counter that never ends.
SetWindow(w) ==
  /\ sworker[w].pc = "expire" /\ window' = TRUE /\ Go(w, "dedupe")
  /\ UNCHANGED <<stimuli, stream, ndlq, hasPrefs, muted, throttle, dedupe, shelf,
                 call, ghosts>>

\* Slip: the key is looked up, and set only with the document.
DedupeByRead(w) ==
  /\ sworker[w].pc = "dedupe"
  /\ Go(w, IF \E d \in inbox : d.hash = Hash(Cur(w)) THEN "ack" ELSE "seq")
  /\ UNCHANGED <<stimuli, stream, ndlq, gates, shelf, call, ghosts>>

\* dedupeAllow: SET NX EX of one day, taken before the document exists.
Dedupe(w) ==
  /\ sworker[w].pc = "dedupe"
  /\ dedupe' = dedupe \union {Hash(Cur(w))}
  /\ Go(w, IF Hash(Cur(w)) \in dedupe THEN "ack" ELSE "seq")
  /\ UNCHANGED <<stimuli, stream, ndlq, hasPrefs, muted, throttle, window, shelf, call, ghosts>>

NextSeq(w) ==
  /\ sworker[w].pc = "seq"
  /\ seqno' = seqno + 1
  /\ sworker' = [sworker EXCEPT ![w].pc = "create", ![w].seq = seqno + 1]
  /\ UNCHANGED <<stimuli, stream, ndlq, gates, inbox, unread, call, ghosts>>

\* Slip: the new document is not counted.
CreateUncounted(w) ==
  /\ sworker[w].pc = "create"
  /\ \/ /\ inbox' = inbox \union {[id |-> Cur(w), hash |-> Hash(Cur(w)),
                                   seq |-> sworker[w].seq, status |-> "unread"]}
        /\ Go(w, "ack") /\ Opens /\ UNCHANGED <<stimuli, nfaults>>
     \/ Swallow(w) /\ UNCHANGED <<inbox, disturbed>>
  /\ UNCHANGED <<stream, ndlq, gates, seqno, unread, call, declined>>

\* NotificationModel.create.
Create(w) ==
  /\ sworker[w].pc = "create"
  /\ \/ /\ inbox' = inbox \union {[id |-> Cur(w), hash |-> Hash(Cur(w)),
                                   seq |-> sworker[w].seq, status |-> "unread"]}
        /\ Go(w, "incr") /\ Opens /\ UNCHANGED <<stimuli, nfaults>>
     \/ Swallow(w) /\ UNCHANGED <<inbox, disturbed>>
  /\ UNCHANGED <<stream, ndlq, gates, seqno, unread, call, declined>>

\* INCR of the unread counter; the publications that follow change no state.
CountUnread(w) ==
  /\ sworker[w].pc = "incr"
  /\ \/ unread' = Badge + 1 /\ Go(w, "ack") /\ UNCHANGED <<stimuli, nfaults, disturbed>>
     \/ Swallow(w) /\ disturbed' = TRUE /\ UNCHANGED unread
  /\ UNCHANGED <<stream, ndlq, gates, seqno, inbox, call, declined>>

\* finally: XACK, also after a dead letter that could not be written; then the
\* next entry of the batch.  When XACK or the dead letter throws, the rest of
\* the batch is abandoned and stays pending.
Ack(w) ==
  /\ sworker[w].pc = "ack"
  /\ LET rest == Tail(sworker[w].batch)
     IN  \/ /\ pending' = pending \ {Cur(w)}
            /\ sworker' = [sworker EXCEPT ![w] = IF rest = <<>> THEN NoWork ELSE Begin(rest)]
            /\ UNCHANGED stimuli
         \/ /\ Spend(1) /\ UNCHANGED pending
            /\ sworker' = [sworker EXCEPT ![w] = NoWork]
  /\ UNCHANGED <<log, next, ndlq, gates, shelf, call, ghosts>>

DeadLetterFails(w) ==
  /\ sworker[w].pc = "dlq" /\ Spend(1)
  /\ pending' = pending \ {Cur(w)} /\ nfaults' = nfaults + 1
  /\ sworker' = [sworker EXCEPT ![w] = NoWork]
  /\ UNCHANGED <<log, next, ndlq, gates, shelf, call, declined, disturbed>>

\* The process dies and restarts under a fresh consumer name.
StreamCrash(w) ==
  /\ sworker[w].pc # "idle" /\ Spend(1)
  /\ nfaults' = nfaults + 1 /\ disturbed' = (disturbed \/ sworker[w].pc = "incr")
  /\ sworker' = [sworker EXCEPT ![w] = NoWork]
  /\ UNCHANGED <<stream, ndlq, gates, shelf, call, declined>>

\* The throttle window ends with the TTL of its counter.
WindowEnds ==
  /\ window /\ throttle >= ThrottleLimit /\ Spend(1)
  /\ throttle' = 0 /\ window' = FALSE
  /\ UNCHANGED <<stream, sworker, ndlq, hasPrefs, muted, dedupe, shelf, call, ghosts>>
-----------------------------------------------------------------------------
\* The inbox: handlers of modules/notifications/service.ts.
Doc(id) == CHOOSE d \in inbox : d.id = id
SetStatus(ids, s) ==
  inbox' = {IF d.id \in ids THEN [d EXCEPT !.status = s] ELSE d : d \in inbox}
UnreadDocs == {d \in inbox : d.status = "unread"}
Next1(c, rec) == call' = [call EXCEPT ![c] = rec]

\* markRead: the update matches an unread document or nothing happens.
MarkRead(c) ==
  /\ call[c].pc = "idle" /\ Spend(1)
  /\ \E d \in inbox :
       /\ d.status = "unread" /\ SetStatus({d.id}, "read")
       /\ Next1(c, CallAt("decr", d.id, "none", 0))
  /\ Opens
  /\ UNCHANGED <<stream, sworker, ndlq, gates, seqno, unread, declined, nfaults>>

\* markAllRead: updateMany, countDocuments, SET.
MarkAllRead(c) ==
  /\ call[c].pc = "idle" /\ Spend(1) /\ Opens
  /\ SetStatus({d.id : d \in UnreadDocs}, "read")
  /\ Next1(c, CallAt("count", 0, "none", 0))
  /\ UNCHANGED <<stream, sworker, ndlq, gates, seqno, unread, declined, nfaults>>

\* softDelete: findOne, updateOne whatever the status has become, DECR if the
\* document was unread when it was read.
SoftDelete(c) ==
  /\ call[c].pc = "idle" /\ Spend(1) /\ Opens
  /\ \E d \in inbox :
       Next1(c, CallAt("delete", d.id, d.status, 0))
  /\ UNCHANGED <<stream, sworker, ndlq, gates, shelf, declined, nfaults>>

DeleteIt(c) ==
  /\ call[c].pc = "delete"
  /\ SetStatus({call[c].id}, "deleted")
  /\ Next1(c, IF call[c].was = "unread" THEN [call[c] EXCEPT !.pc = "decr"] ELSE NoCall)
  /\ UNCHANGED <<stimuli, stream, sworker, ndlq, gates, seqno, unread, ghosts>>

\* DECR, and SET 0 when the result is negative.
Decrement(c) ==
  /\ call[c].pc = "decr"
  /\ unread' = Badge - 1
  /\ Next1(c, IF Badge < 1 THEN CallAt("zero", 0, "none", 0) ELSE NoCall)
  /\ UNCHANGED <<stimuli, stream, sworker, ndlq, gates, seqno, inbox, ghosts>>

Zero(c) ==
  /\ call[c].pc = "zero" /\ unread' = 0 /\ Next1(c, NoCall)
  /\ UNCHANGED <<stimuli, stream, sworker, ndlq, gates, seqno, inbox, ghosts>>

\* reconcileUnreadCount, at the end of every listing: countDocuments, GET, and
\* SET when there is no counter or they are more than two apart.
List(c) ==
  /\ call[c].pc = "idle" /\ Spend(1) /\ Opens
  /\ Next1(c, CallAt("compare", 0, "none", Cardinality(UnreadDocs)))
  /\ UNCHANGED <<stream, sworker, ndlq, gates, shelf, declined, nfaults>>

Compare(c) ==
  /\ call[c].pc = "compare"
  /\ LET n == call[c].n
     IN  Next1(c, IF unread = Absent \/ unread - n > 2 \/ n - unread > 2
                  THEN [call[c] EXCEPT !.pc = "set"] ELSE NoCall)
  /\ UNCHANGED <<stimuli, stream, sworker, ndlq, gates, shelf, ghosts>>

CountDocs(c) ==
  /\ call[c].pc = "count"
  /\ Next1(c, CallAt("set", call[c].id, call[c].was, Cardinality(UnreadDocs)))
  /\ UNCHANGED <<stimuli, stream, sworker, ndlq, gates, shelf, ghosts>>

SetUnread(c) ==
  /\ call[c].pc = "set" /\ unread' = call[c].n /\ Next1(c, NoCall)
  /\ UNCHANGED <<stimuli, stream, sworker, ndlq, gates, seqno, inbox, ghosts>>

\* A request dies with its process.
CallDies(c) ==
  /\ call[c].pc # "idle" /\ Spend(1) /\ Next1(c, NoCall) /\ disturbed' = TRUE
  /\ UNCHANGED <<stream, sworker, ndlq, gates, shelf, declined, nfaults>>

\* patchPreferences: an upsert that replaces the given parts.
PatchPrefs(cats) ==
  /\ cats # muted /\ Spend(1) /\ hasPrefs' = TRUE /\ muted' = cats
  /\ UNCHANGED <<stream, sworker, ndlq, throttle, window, dedupe, shelf, call, ghosts>>
-----------------------------------------------------------------------------
StreamInit ==
  /\ log = <<>> /\ next = 0 /\ pending = {} /\ ndlq = {}
  /\ sworker = [w \in StreamWorkers |-> NoWork]
  /\ hasPrefs = FALSE /\ muted = {} /\ throttle = 0 /\ window = FALSE
  /\ dedupe = {}
  /\ seqno = 0 /\ inbox = {} /\ unread = Absent
  /\ call = [c \in Calls |-> NoCall]
  /\ declined = {} /\ nfaults = 0 /\ disturbed = FALSE

WorkerStep(w) ==
  \/ Read(w) \/ (\E ids \in SUBSET pending : Reclaim(w, ids))
  \/ CheckFeature(w) \/ DeadLetter(w) \/ DeadLetterFails(w)
  \/ FindPrefs(w) \/ MakePrefs(w) \/ Throttle(w) \/ SetWindow(w) \/ Dedupe(w) \/ NextSeq(w)
  \/ Create(w) \/ CountUnread(w) \/ Ack(w) \/ StreamCrash(w)

CallStep(c) ==
  \/ MarkRead(c) \/ MarkAllRead(c) \/ SoftDelete(c) \/ List(c)
  \/ DeleteIt(c) \/ Decrement(c) \/ Zero(c) \/ Compare(c) \/ CountDocs(c)
  \/ SetUnread(c) \/ CallDies(c)

StreamNext ==
  \/ \E ev \in Notices : Publish(ev)
  \/ \E w \in StreamWorkers : WorkerStep(w)
  \/ \E c \in Calls : CallStep(c)
  \/ \E cats \in {{}, {"portfolio"}} : PatchPrefs(cats)
  \/ WindowEnds
-----------------------------------------------------------------------------
\* What a processing has under way for a hash: past the dedupe key, no document.
InFlight(h) == \E w \in StreamWorkers :
  sworker[w].pc \in {"seq", "create"} /\ Hash(Cur(w)) = h
LostHashes ==
  {Hash(id) : id \in {i \in 1..next :
     /\ i \notin pending /\ i \notin ndlq /\ i \notin declined
     /\ \A d \in inbox : d.hash # Hash(i)
     /\ ~InFlight(Hash(i))}}

\* An entry the group acknowledged became a notification, was a duplicate of
\* one, was declined by a rule, or was dead-lettered; each one that did neither
\* is paid for by an error, a death or a lost preferences race of a worker.
LossesArePaidFor == Cardinality(LostHashes) <= nfaults

\* However many workers process an entry and its duplicates - XAUTOCLAIM hands
\* out batches that are still in work - one hash has one notification.
OneNoticePerHash == \A d, e \in inbox : d.hash = e.hash => d = e

\* The counter behind the badge agrees with the documents it counts, unless
\* two of its operations overlapped or one was cut short.
BadgeAgrees ==
  Counting = {} /\ ~disturbed => Badge = Cardinality(UnreadDocs)

StreamTypeOK ==
  /\ next \in 0..Len(log) /\ pending \subseteq 1..next /\ ndlq \subseteq 1..next
  /\ \A w \in StreamWorkers : (sworker[w].pc = "idle") = (sworker[w].batch = <<>>)
  /\ \A i \in 1..Len(log) : Category(log[i]) \in {"security", "social", "market", "news", "portfolio"}
  /\ hasPrefs \in BOOLEAN /\ throttle \in Nat /\ seqno \in Nat /\ unread \in Int
  /\ \A d \in inbox : d.status \in {"unread", "read", "deleted"} /\ d.seq \in 1..seqno

=============================================================================
