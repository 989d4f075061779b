----------------------------- MODULE EventQueue -----------------------------
(* The analytics event system: the public tracking endpoint, the Redis       *)
(* queue, the event workers with their three tries and dead-letter list, the *)
(* direct path of events the server emits itself, the bridge into the        *)
(* notification stream, and the script that replays dead letters.            *)
EXTENDS Budget, Sequences, FiniteSets, SequencesExt

CONSTANTS Requests,     \* requests and server-side emitters in flight
          EventWorkers, \* processes running runEventWorker
          Events        \* [id, client, server, feature, bridged]: see below

\* client, server: the event is in that registry with valid metadata; feature:
\* "known", "unknown" or "system"; bridged: the bridge maps it to a notice.
ASSUME EventsAssumption ==
  /\ \A e \in Events : /\ e.feature \in {"known", "unknown", "system"}
                       /\ {e.client, e.server, e.bridged} \subseteq BOOLEAN
  /\ IsFiniteSet(Requests) /\ IsFiniteSet(EventWorkers)
  /\ Requests \intersect EventWorkers = {}

VARIABLES switches,  \* [ingest, enforce, bridge]: the runtime switches read
          equeue,    \* events:queue, first popped first
          edlq,      \* events:failed, oldest first
          handler,   \* request or worker -> [pc, ev, tries, invalid]
          replayed,  \* what the replay script has popped: <<>> or <<event>>
          documents, \* system_events: event -> how many documents
          bridging,  \* calls of the bridge started and not ended, per event
          notices,   \* entries appended to the notification stream, per event
          answered,  \* client events answered 200
          started,   \* ghost: event -> requests let through and emissions
          lost,      \* ghost: event -> copies a fault or a dry run destroyed
          refused,   \* ghost: event -> copies the server registry turned away
          doubled    \* ghost: event -> calls that failed after taking effect

Actors == Requests \union EventWorkers
lists == <<equeue, edlq>>
losses == <<lost, refused, doubled>>
books == <<answered, started, losses>>
queueVars == <<switches, lists, handler, replayed, documents, bridging, notices, books>>

Idle == [pc |-> "idle", tries |-> 0, invalid |-> FALSE]
Bump(f, e) == [f EXCEPT ![e] = @ + 1]
Drop(e) == lost' = Bump(lost, e) /\ UNCHANGED <<refused, doubled>>
Twice(e) == doubled' = Bump(doubled, e) /\ UNCHANGED <<lost, refused>>
Answer(a, e) == answered' = IF a \in Requests /\ ~e.server
                            THEN answered \union {e} ELSE answered
To(a, rec) == handler' = [handler EXCEPT ![a] = rec]
At(a, pc) == handler[a].pc = pc
Step(a, pc) == [handler[a] EXCEPT !.pc = pc]

\* validateIncomingClientEvent and validateServerEvent: only mode 'enforce'
\* turns an event away; an event of one registry is unknown to the other.
AcceptsClient(e) == switches.enforce => e.client
AcceptsServer(e) == switches.enforce => e.server
-----------------------------------------------------------------------------
\* track: kill switches, schema, registry, then LPUSH.
Track(r, e) ==
  /\ At(r, "idle") /\ Spend(1) /\ ~e.server
  /\ switches.ingest /\ AcceptsClient(e)
  /\ started' = Bump(started, e)
  /\ To(r, [ev |-> e, pc |-> "push", tries |-> 0, invalid |-> FALSE])
  /\ UNCHANGED <<switches, lists, replayed, documents, bridging, notices, answered,
                 losses>>

\* LPUSH; when it throws - whether Redis applied it or not - the event is
\* emitted directly.
Push(r) ==
  LET e == handler[r].ev
  IN  /\ At(r, "push")
      /\ \/ /\ equeue' = Append(equeue, e) /\ Answer(r, e)
            /\ To(r, Idle) /\ UNCHANGED <<stimuli, losses>>
         \/ /\ Spend(1) /\ To(r, Step(r, "exists")) /\ UNCHANGED <<equeue, answered, losses>>
         \/ /\ Spend(1) /\ To(r, Step(r, "exists")) /\ equeue' = Append(equeue, e)
            /\ Twice(e) /\ UNCHANGED answered
      /\ UNCHANGED <<started, switches, edlq, replayed, documents, bridging, notices>>

\* emitEvent called by the server's own code, not awaited.
Emit(r, e) ==
  /\ At(r, "idle") /\ Spend(1) /\ e.server
  /\ started' = Bump(started, e)
  /\ To(r, [ev |-> e, pc |-> "exists", tries |-> 0, invalid |-> FALSE])
  /\ UNCHANGED <<switches, lists, replayed, documents, bridging, notices, answered,
                 losses>>

\* processOne: BRPOP takes the event off the list before anything else.
Pop(w) ==
  /\ w \in EventWorkers /\ At(w, "idle") /\ equeue # <<>>
  /\ LET e == Head(equeue)
     IN  To(w, [ev |-> e, tries |-> 0, invalid |-> FALSE,
                pc |-> IF ~AcceptsClient(e) THEN "dlq"
                       ELSE IF e.feature = "system" THEN "persist" ELSE "exists"])
  /\ equeue' = Tail(equeue)
  /\ UNCHANGED <<stimuli, switches, edlq, replayed, documents, bridging, notices, books>>

\* featureExists; a throw is answered 500 by the endpoint and ends in the
\* worker's outer catch, which has no copy of the event.
Exists(a) ==
  LET e == handler[a].ev
  IN  /\ At(a, "exists")
      /\ \/ /\ To(a, [Step(a, "persist") EXCEPT !.invalid = (e.feature # "known")])
            /\ UNCHANGED <<stimuli, losses>>
         \/ Spend(1) /\ To(a, Idle) /\ Drop(e)
      /\ UNCHANGED <<switches, lists, replayed, documents, bridging, notices, answered,
                     started>>

\* persistEvent: the server registry is consulted for events that are not
\* preValidated - those of the workers are - then SystemEvent.create, then the
\* bridge is called and not awaited.
Refuse(a) ==
  LET e == handler[a].ev
  IN  /\ At(a, "persist") /\ a \in Requests /\ ~AcceptsServer(e)
      /\ Answer(a, e) /\ To(a, Idle) /\ refused' = Bump(refused, e)
      /\ UNCHANGED <<stimuli, switches, lists, replayed, documents, bridging, notices,
                     started, lost, doubled>>

Persist(a) ==
  LET e == handler[a].ev
      h == handler[a]
  IN  /\ At(a, "persist") /\ (a \in Requests => AcceptsServer(e))
      /\ documents' = Bump(documents, e) /\ Answer(a, e)
      /\ bridging' = IF ~h.invalid /\ switches.bridge /\ e.bridged
                     THEN Bump(bridging, e) ELSE bridging
      /\ To(a, Idle)
      /\ UNCHANGED <<stimuli, switches, lists, replayed, notices, started, losses>>

\* Slip: the last of the three tries ends without a dead letter.
PersistGivesUp(a, applied) ==
  LET e == handler[a].ev
      again == handler[a].tries + 1
  IN  /\ At(a, "persist") /\ (a \in Requests => AcceptsServer(e)) /\ Spend(1)
      /\ documents' = IF applied THEN Bump(documents, e) ELSE documents
      /\ IF a \in Requests \/ again = 3
         THEN To(a, Idle) /\ IF applied \/ again = 3 THEN UNCHANGED losses ELSE Drop(e)
         ELSE /\ To(a, [Step(a, "persist") EXCEPT !.tries = again])
              /\ IF applied THEN Twice(e) ELSE UNCHANGED losses
      /\ UNCHANGED <<switches, lists, replayed, bridging, notices, answered, started>>

\* The insert throws, before or after taking effect.  The endpoint answers
\* 500; a worker tries three times, then dead-letters the event.
PersistFails(a, applied) ==
  LET e == handler[a].ev
      again == handler[a].tries + 1
  IN  /\ At(a, "persist") /\ (a \in Requests => AcceptsServer(e)) /\ Spend(1)
      /\ documents' = IF applied THEN Bump(documents, e) ELSE documents
      /\ IF a \in Requests
         THEN To(a, Idle) /\ IF applied THEN UNCHANGED losses ELSE Drop(e)
         ELSE /\ To(a, [Step(a, IF again = 3 THEN "dlq" ELSE "persist") EXCEPT !.tries = again])
              /\ IF applied THEN Twice(e) ELSE UNCHANGED losses
      /\ UNCHANGED <<switches, lists, replayed, bridging, notices, answered, started>>

DeadLetterEvent(w) ==
  LET e == handler[w].ev
  IN  /\ At(w, "dlq") /\ To(w, Idle)
      /\ \/ edlq' = Append(edlq, e) /\ UNCHANGED <<stimuli, losses>>
         \/ Spend(1) /\ Drop(e) /\ UNCHANGED edlq
      /\ UNCHANGED <<switches, equeue, replayed, documents, bridging, notices, answered,
                     started>>

\* Slip: a failing XADD leaves the call to be made once more.
BridgeAgain(e) ==
  /\ bridging[e] > 0
  /\ \/ notices' = Bump(notices, e) /\ UNCHANGED <<stimuli, bridging>>
     \/ Spend(1) /\ bridging' = [bridging EXCEPT ![e] = @ - 1] /\ UNCHANGED notices
  /\ UNCHANGED <<switches, lists, handler, replayed, documents, books>>

\* bridgeSystemEventToNotificationStream: XADD under a fresh event id.
Bridge(e) ==
  /\ bridging[e] > 0 /\ bridging' = [bridging EXCEPT ![e] = @ - 1]
  /\ \/ notices' = Bump(notices, e) /\ UNCHANGED stimuli
     \/ Spend(1) /\ UNCHANGED notices
  /\ UNCHANGED <<switches, lists, handler, replayed, documents, books>>

\* The process of a worker or a request dies.
Die(a) ==
  /\ ~At(a, "idle") /\ Spend(1) /\ Drop(handler[a].ev) /\ To(a, Idle)
  /\ UNCHANGED <<switches, lists, replayed, documents, bridging, notices, answered,
                     started>>

\* replay-dlq.ts: RPOP, re-validation, LPUSH on the queue - or, with --dry-run,
\* nothing: what it popped is gone.  A refused event goes back on the list, if
\* the script lives that long.
ReplayPop(dry, dies) ==
  /\ replayed = <<>> /\ edlq # <<>> /\ Spend(1)
  /\ LET e == Head(edlq)
         back == ~AcceptsClient(e) /\ ~dies
     IN  /\ edlq' = IF back THEN Append(Tail(edlq), e) ELSE Tail(edlq)
         /\ replayed' = IF AcceptsClient(e) /\ ~dry /\ ~dies THEN <<e>> ELSE <<>>
         /\ IF back \/ replayed' # <<>> THEN UNCHANGED losses ELSE Drop(e)
  /\ UNCHANGED <<switches, equeue, handler, documents, bridging, notices, answered,
                 started>>

ReplayPush ==
  /\ replayed # <<>> /\ replayed' = <<>>
  /\ \/ equeue' = Append(equeue, Head(replayed)) /\ UNCHANGED <<stimuli, losses>>
     \/ Spend(1) /\ Drop(Head(replayed)) /\ UNCHANGED equeue
  /\ UNCHANGED <<switches, edlq, handler, documents, bridging, notices, answered,
                     started>>

\* An operator changes a switch; every process sees it within ten seconds.
FlipSwitch(name) ==
  /\ Spend(1) /\ switches' = [switches EXCEPT ![name] = ~@]
  /\ UNCHANGED <<lists, handler, replayed, documents, bridging, notices, books>>
-----------------------------------------------------------------------------
Zeros == [e \in Events |-> 0]

EventInit ==
  /\ switches = [ingest |-> TRUE, enforce |-> FALSE, bridge |-> TRUE]
  /\ equeue = <<>> /\ edlq = <<>> /\ replayed = <<>>
  /\ handler = [a \in Actors |-> Idle]
  /\ documents = Zeros /\ bridging = Zeros /\ notices = Zeros
  /\ answered = {} /\ started = Zeros
  /\ lost = Zeros /\ refused = Zeros /\ doubled = Zeros

EventNext ==
  \/ \E r \in Requests : \E e \in Events : Track(r, e) \/ Emit(r, e)
  \/ \E r \in Requests : Push(r)
  \/ \E w \in EventWorkers : Pop(w) \/ DeadLetterEvent(w)
  \/ \E a \in Actors : \/ Exists(a) \/ Refuse(a) \/ Persist(a) \/ Die(a)
                       \/ \E applied \in BOOLEAN : PersistFails(a, applied)
  \/ \E e \in Events : Bridge(e)
  \/ \E dry, dies \in BOOLEAN : ReplayPop(dry, dies)
  \/ ReplayPush
  \/ \E name \in DOMAIN switches : FlipSwitch(name)
-----------------------------------------------------------------------------
\* Copies of an event that something will still act on, or that are recorded.
Occurs(s, e) == Cardinality({i \in DOMAIN s : s[i] = e})
Held(e) == Cardinality({a \in Actors : ~At(a, "idle") /\ handler[a].ev = e})
Copies(e) == Occurs(equeue, e) + Occurs(edlq, e) + Occurs(replayed, e)
               + Held(e) + documents[e]

\* However pushes, tries, deaths and replays interleave, every copy of an
\* event is still queued, held, dead-lettered or recorded, unless a fault or a
\* dry run destroyed it or the server registry turned it away; and it has more
\* than one copy only where a call took effect and failed all the same.
CopiesAddUp == \A e \in Events :
  Copies(e) + lost[e] + refused[e] = started[e] + doubled[e]

\* What the endpoint answered 200 for does not vanish without such a cause.
AnsweredAreKept == \A e \in answered : Copies(e) + lost[e] + refused[e] > 0

EventsAreConserved == CopiesAddUp /\ AnsweredAreKept

EventTypeOK ==
  /\ switches \in [{"ingest", "enforce", "bridge"} -> BOOLEAN]
  /\ \A a \in Actors : handler[a].tries \in 0..2 \/ At(a, "dlq")
  /\ answered \subseteq Events /\ Len(replayed) <= 1
  /\ \A e \in Events : notices[e] + bridging[e] <= documents[e]

=============================================================================
