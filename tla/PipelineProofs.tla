-------------------------- MODULE PipelineProofs --------------------------
(* Proofs about the analytics events (EventQueue) and the notification        *)
(* stream (NotificationStream): for each an invariant that holds at the start *)
(* (..Start), is kept by every step (..Steps) and by the steps of others      *)
(* (..Frame), and gives the component's properties (..Meaning).               *)
EXTENDS EventQueue, NotificationStream, SequenceTheorems, FunctionTheorems, FiniteSetTheorems, TLAPS

---------------------------------------------------------------------------
(* Counting.                                                                *)

One(x, e) == IF x = e THEN 1 ELSE 0

\* A subset that changes in at most one element.
LEMMA OneChanges ==
    ASSUME NEW P, IsFiniteSet(P), NEW A \in SUBSET P, NEW B \in SUBSET P,
           NEW r, A \ {r} = B \ {r}
    PROVE  /\ Cardinality(A) \in Nat /\ Cardinality(B) \in Nat
           /\ Cardinality(B) = Cardinality(A)
                 + (IF r \in B /\ r \notin A THEN 1 ELSE IF r \in A /\ r \notin B THEN -1 ELSE 0)
<1>1. IsFiniteSet(A) /\ IsFiniteSet(B) BY FS_Subset
<1>2. Cardinality(A) \in Nat /\ Cardinality(B) \in Nat BY <1>1, FS_CardinalityType
<1>3. Cardinality(A \ {r}) = IF r \in A THEN Cardinality(A) - 1 ELSE Cardinality(A)
  BY <1>1, FS_RemoveElement
<1>4. Cardinality(B \ {r}) = IF r \in B THEN Cardinality(B) - 1 ELSE Cardinality(B)
  BY <1>1, FS_RemoveElement
<1> QED BY <1>2, <1>3, <1>4

\* How often an element occurs, as a sequence grows and shrinks.
LEMMA OccursNowhere == \A e : Occurs(<<>>, e) = 0
<1>1. DOMAIN <<>> = {} OBVIOUS
<1>2. \A e : {i \in DOMAIN <<>> : <<>>[i] = e} = {} BY <1>1
<1> QED BY <1>2, FS_EmptySet DEF Occurs

LEMMA OccursOnce == \A x, e : Occurs(<<x>>, e) = One(x, e)
<1> SUFFICES ASSUME NEW x, NEW e PROVE Occurs(<<x>>, e) = One(x, e)
  OBVIOUS
<1>1. DOMAIN <<x>> = {1} /\ <<x>>[1] = x OBVIOUS
<1>2. {i \in DOMAIN <<x>> : <<x>>[i] = e} = IF x = e THEN {1} ELSE {} BY <1>1
<1> QED BY <1>2, FS_EmptySet, FS_Singleton DEF Occurs, One

LEMMA OccursNat ==
    ASSUME NEW S, NEW s \in Seq(S), NEW e
    PROVE  IsFiniteSet({i \in DOMAIN s : s[i] = e}) /\ Occurs(s, e) \in Nat
<1>1. Len(s) \in Nat /\ DOMAIN s = 1 .. Len(s) BY LenProperties
<1>2. IsFiniteSet(1 .. Len(s)) BY <1>1, FS_Interval
<1>3. {i \in DOMAIN s : s[i] = e} \in SUBSET (1 .. Len(s)) BY <1>1
<1> QED BY <1>2, <1>3, FS_Subset, FS_CardinalityType DEF Occurs

LEMMA OccursAppend ==
    ASSUME NEW S, NEW s \in Seq(S), NEW x \in S, NEW e
    PROVE  Occurs(Append(s, x), e) = Occurs(s, e) + One(x, e)
<1> DEFINE A == {i \in DOMAIN s : s[i] = e}
           B == {i \in DOMAIN Append(s, x) : Append(s, x)[i] = e}
           n == Len(s) + 1
           P == 1 .. n
<1>1. /\ Len(s) \in Nat /\ DOMAIN s = 1 .. Len(s)
      /\ DOMAIN Append(s, x) = 1 .. n /\ Append(s, x)[n] = x
      /\ \A i \in 1 .. Len(s) : Append(s, x)[i] = s[i]
  BY AppendProperties, LenProperties
<1>2. IsFiniteSet(P) BY <1>1, FS_Interval
<1>3. A \in SUBSET P /\ B \in SUBSET P BY <1>1
<1>4. A \ {n} = B \ {n} BY <1>1
<1>5. n \notin A /\ (n \in B <=> x = e) BY <1>1
<1>6. Occurs(s, e) = Cardinality(A) /\ Occurs(Append(s, x), e) = Cardinality(B) BY DEF Occurs
<1> HIDE DEF A, B, n, P
<1>7. /\ Cardinality(A) \in Nat /\ Cardinality(B) \in Nat
      /\ Cardinality(B) = Cardinality(A)
            + (IF n \in B /\ n \notin A THEN 1 ELSE IF n \in A /\ n \notin B THEN -1 ELSE 0)
  BY <1>2, <1>3, <1>4, OneChanges
<1> QED BY <1>5, <1>6, <1>7 DEF One

LEMMA OccursTail ==
    ASSUME NEW S, NEW s \in Seq(S), s # <<>>, NEW e
    PROVE  Occurs(Tail(s), e) = Occurs(s, e) - One(Head(s), e)
<1> DEFINE A == {i \in DOMAIN s : s[i] = e}
           T == {i \in DOMAIN Tail(s) : Tail(s)[i] = e}
           f == [i \in A \ {1} |-> i - 1]
<1>1. /\ Len(s) \in Nat /\ Len(s) >= 1 /\ DOMAIN s = 1 .. Len(s) /\ Head(s) = s[1]
      /\ Tail(s) \in Seq(S) /\ Len(Tail(s)) = Len(s) - 1
      /\ \A i \in 1 .. Len(Tail(s)) : Tail(s)[i] = s[i + 1]
  BY HeadTailProperties, LenProperties, EmptySeq
<1>2. DOMAIN Tail(s) = 1 .. Len(s) - 1 BY <1>1, LenProperties
<1>3. IsFiniteSet(A) /\ Cardinality(A) \in Nat BY OccursNat, FS_CardinalityType
<1>4. f \in Bijection(A \ {1}, T)
  <2>1. \A i \in A \ {1} : i - 1 \in T
    <3> SUFFICES ASSUME NEW i \in A \ {1} PROVE i - 1 \in T
      OBVIOUS
    <3>1. i \in 2 .. Len(s) /\ s[i] = e BY <1>1
    <3>2. i - 1 \in 1 .. Len(s) - 1 /\ (i - 1) + 1 = i BY <1>1, <3>1
    <3> QED BY <1>1, <1>2, <3>1, <3>2
  <2>2. f \in [A \ {1} -> T] BY <2>1
  <2>3. \A i, j \in A \ {1} : f[i] = f[j] => i = j BY <1>1
  <2>4. \A j \in T : \E i \in A \ {1} : f[i] = j
    <3> SUFFICES ASSUME NEW j \in T PROVE \E i \in A \ {1} : f[i] = j
      OBVIOUS
    <3>1. j \in 1 .. Len(s) - 1 /\ s[j + 1] = e BY <1>1, <1>2
    <3>2. j + 1 \in A \ {1} /\ (j + 1) - 1 = j BY <1>1, <3>1
    <3> QED BY <3>2
  <2> QED BY <2>2, <2>3, <2>4, Fun_IsBij
<1>5. IsFiniteSet(A \ {1}) /\ Cardinality(A \ {1}) = IF 1 \in A THEN Cardinality(A) - 1 ELSE Cardinality(A)
  BY <1>3, FS_RemoveElement
<1>6. Cardinality(T) = Cardinality(A \ {1})
  <2>1. ExistsBijection(A \ {1}, T) BY <1>4 DEF ExistsBijection
  <2> QED BY <1>5, <2>1, FS_Bijection
<1>7. 1 \in A <=> Head(s) = e BY <1>1
<1>8. Occurs(s, e) = Cardinality(A) /\ Occurs(Tail(s), e) = Cardinality(T) BY DEF Occurs
<1> HIDE DEF A, T, f
<1> QED BY <1>3, <1>5, <1>6, <1>7, <1>8 DEF One

---------------------------------------------------------------------------
(* The event queue.                                                         *)

\* Handlers at rest, and handlers that hold an event.
Resting == [pc : {"idle"}, tries : 0 .. 3, invalid : BOOLEAN]
Busy == [pc : {"push", "exists", "persist", "dlq"}, ev : Events, tries : 0 .. 3,
         invalid : BOOLEAN]
Counts == [Events -> Nat]

EventTypes ==
    /\ switches \in [{"ingest", "enforce", "bridge"} -> BOOLEAN]
    /\ equeue \in Seq(Events) /\ edlq \in Seq(Events) /\ replayed \in Seq(Events)
    /\ Len(replayed) <= 1
    /\ handler \in [Actors -> Resting \cup Busy]
    /\ \A a \in Actors : handler[a].tries \in 0 .. 2 \/ handler[a].pc = "dlq"
    /\ documents \in Counts /\ bridging \in Counts /\ notices \in Counts
    /\ answered \in SUBSET Events
    /\ started \in Counts /\ lost \in Counts /\ refused \in Counts /\ doubled \in Counts

\* Every notice of the bridge is about an event that is recorded.
Bridged == \A e \in Events : notices[e] + bridging[e] <= documents[e]

LEMMA RestOrBusy ==
    ASSUME EventTypes, NEW a \in Actors
    PROVE  /\ a \in DOMAIN handler
           /\ handler[a].pc # "idle" => handler[a] \in Busy /\ handler[a].ev \in Events
           /\ Idle \in Resting
  BY DEF EventTypes, Resting, Busy, Idle

LEMMA CountBump ==
    ASSUME NEW f \in Counts, NEW x \in Events
    PROVE  /\ Bump(f, x) \in Counts
           /\ \A e \in Events : Bump(f, x)[e] = f[e] + One(x, e)
  BY DEF Counts, Bump, One

\* A step that changes one handler.
LEMMA HandlerTypes ==
    ASSUME EventTypes, NEW a \in Actors, NEW rec \in Resting \cup Busy, To(a, rec),
           rec.tries \in 0 .. 2 \/ rec.pc = "dlq"
    PROVE  /\ handler' \in [Actors -> Resting \cup Busy]
           /\ \A b \in Actors : handler'[b].tries \in 0 .. 2 \/ handler'[b].pc = "dlq"
  BY DEF EventTypes, To

\* Copies a handler holds.
HeldBy(h, e) == IF h.pc # "idle" /\ h.ev = e THEN 1 ELSE 0

LEMMA HeldNat == \A e : Held(e) \in Nat
<1> SUFFICES ASSUME NEW e PROVE Held(e) \in Nat
  OBVIOUS
<1>1. IsFiniteSet(Actors)
  <2>1. IsFiniteSet(Requests) /\ IsFiniteSet(EventWorkers) BY EventsAssumption
  <2> QED BY <2>1, FS_Union DEF Actors
<1>2. {b \in Actors : ~ At(b, "idle") /\ handler[b].ev = e} \in SUBSET Actors OBVIOUS
<1> QED BY <1>1, <1>2, FS_Subset, FS_CardinalityType DEF Held

LEMMA HeldMoves ==
    ASSUME EventTypes, NEW a \in Actors, NEW rec, To(a, rec), NEW e
    PROVE  /\ Held(e) \in Nat /\ Held(e)' \in Nat
           /\ Held(e)' = Held(e) - HeldBy(handler[a], e) + HeldBy(rec, e)
<1> DEFINE A == {b \in Actors : ~ At(b, "idle") /\ handler[b].ev = e}
<1>1. IsFiniteSet(Actors)
  <2>1. IsFiniteSet(Requests) /\ IsFiniteSet(EventWorkers) BY EventsAssumption
  <2> QED BY <2>1, FS_Union DEF Actors
<1>2. \A b \in Actors : handler'[b] = IF b = a THEN rec ELSE handler[b]
  BY DEF To, EventTypes
<1>3. A \in SUBSET Actors /\ A' \in SUBSET Actors /\ A \ {a} = A' \ {a} BY <1>2 DEF At
<1>4. /\ a \in A <=> handler[a].pc # "idle" /\ handler[a].ev = e
      /\ a \in A' <=> rec.pc # "idle" /\ rec.ev = e
  BY <1>2 DEF At
<1>5. Held(e) = Cardinality(A) /\ Held(e)' = Cardinality(A') BY DEF Held
<1> HIDE DEF A
<1>6. /\ Cardinality(A) \in Nat /\ Cardinality(A') \in Nat
      /\ Cardinality(A') = Cardinality(A)
            + (IF a \in A' /\ a \notin A THEN 1 ELSE IF a \in A /\ a \notin A' THEN -1 ELSE 0)
  BY <1>1, <1>3, OneChanges
<1> QED BY <1>4, <1>5, <1>6 DEF HeldBy

LEMMA CopyNats ==
    ASSUME EventTypes, NEW e \in Events
    PROVE  /\ Occurs(equeue, e) \in Nat /\ Occurs(edlq, e) \in Nat /\ Occurs(replayed, e) \in Nat
           /\ documents[e] \in Nat /\ bridging[e] \in Nat /\ notices[e] \in Nat
           /\ started[e] \in Nat /\ lost[e] \in Nat /\ refused[e] \in Nat /\ doubled[e] \in Nat
<1>1. /\ Occurs(equeue, e) \in Nat /\ Occurs(edlq, e) \in Nat /\ Occurs(replayed, e) \in Nat
  BY OccursNat DEF EventTypes
<1> QED BY <1>1 DEF EventTypes, Counts

\* The books of one event, before and after a step.
LEMMA CopyBooks ==
    ASSUME EventTypes, CopiesAddUp, NEW e \in Events
    PROVE  /\ Occurs(equeue, e) + Occurs(edlq, e) + Occurs(replayed, e) + Held(e) + documents[e]
                + lost[e] + refused[e] = started[e] + doubled[e]
           /\ Copies(e)' = Occurs(equeue', e) + Occurs(edlq', e) + Occurs(replayed', e) + Held(e)'
                              + documents'[e]
           /\ Occurs(equeue, e) \in Nat /\ Occurs(edlq, e) \in Nat /\ Occurs(replayed, e) \in Nat
           /\ documents[e] \in Nat /\ started[e] \in Nat /\ lost[e] \in Nat
           /\ refused[e] \in Nat /\ doubled[e] \in Nat
  BY CopyNats DEF CopiesAddUp, Copies

LEMMA OneInt == \A x, e : One(x, e) \in {0, 1}
  BY DEF One

LEMMA LossMoves ==
    ASSUME EventTypes, NEW x \in Events
    PROVE  /\ Drop(x) => /\ lost' \in Counts /\ refused' = refused /\ doubled' = doubled
                         /\ \A e \in Events : lost'[e] = lost[e] + One(x, e)
           /\ Twice(x) => /\ doubled' \in Counts /\ refused' = refused /\ lost' = lost
                          /\ \A e \in Events : doubled'[e] = doubled[e] + One(x, e)
  BY CountBump DEF EventTypes, Drop, Twice

\* A handler that held x holds it still, or no more; one that was idle holds it now.
LEMMA HolderMoves ==
    ASSUME EventTypes, NEW a \in Actors, NEW rec \in Resting \cup Busy, To(a, rec), NEW x
    PROVE  \A e :
              /\ Held(e) \in Nat
              /\ handler[a].pc # "idle" /\ handler[a].ev = x /\ rec.pc = "idle" =>
                    Held(e)' = Held(e) - One(x, e)
              /\ handler[a].pc # "idle" /\ handler[a].ev = x /\ rec.pc # "idle" /\ rec.ev = x =>
                    Held(e)' = Held(e)
              /\ handler[a].pc = "idle" /\ rec.pc # "idle" /\ rec.ev = x =>
                    Held(e)' = Held(e) + One(x, e)
<1> SUFFICES ASSUME NEW e
             PROVE  /\ Held(e) \in Nat
                    /\ handler[a].pc # "idle" /\ handler[a].ev = x /\ rec.pc = "idle" =>
                          Held(e)' = Held(e) - One(x, e)
                    /\ handler[a].pc # "idle" /\ handler[a].ev = x /\ rec.pc # "idle" /\ rec.ev = x =>
                          Held(e)' = Held(e)
                    /\ handler[a].pc = "idle" /\ rec.pc # "idle" /\ rec.ev = x =>
                          Held(e)' = Held(e) + One(x, e)
  OBVIOUS
<1>1. /\ Held(e) \in Nat /\ Held(e)' \in Nat
      /\ Held(e)' = Held(e) - HeldBy(handler[a], e) + HeldBy(rec, e)
  BY HeldMoves
<1> QED BY <1>1 DEF HeldBy, One

EventInv == EventTypes /\ Bridged /\ CopiesAddUp

\* A request takes an event in.
LEMMA TrackKeeps ==
    ASSUME EventInv, NEW a \in Requests, NEW x \in Events, Track(a, x) \/ Emit(a, x)
    PROVE  EventInv'
<1> USE DEF EventInv
<1>1. PICK p \in {"push", "exists"} : To(a, [ev |-> x, pc |-> p, tries |-> 0, invalid |-> FALSE])
  BY DEF Track, Emit
<1>2. PICK rec : rec = [ev |-> x, pc |-> p, tries |-> 0, invalid |-> FALSE] OBVIOUS
<1>3. rec \in Busy /\ rec.pc # "idle" /\ rec.ev = x /\ rec.tries \in 0 .. 2
  BY <1>2 DEF Busy
<1>4. /\ a \in Actors /\ To(a, rec) /\ started' = Bump(started, x) /\ handler[a].pc = "idle"
      /\ UNCHANGED <<switches, lists, replayed, documents, bridging, notices, answered, losses>>
  BY <1>1, <1>2 DEF Track, Emit, Actors, At
<1>5. started' \in Counts /\ \A e \in Events : started'[e] = started[e] + One(x, e)
  BY <1>4, CountBump DEF EventTypes
<1>6. EventTypes'
  <2>1. /\ handler' \in [Actors -> Resting \cup Busy]
        /\ \A b \in Actors : handler'[b].tries \in 0 .. 2 \/ handler'[b].pc = "dlq"
    BY <1>3, <1>4, HandlerTypes
  <2> QED BY <1>4, <1>5, <2>1 DEF EventTypes, lists, losses
<1>7. ASSUME NEW e \in Events
      PROVE  Copies(e)' + lost'[e] + refused'[e] = started'[e] + doubled'[e]
  <2>1. Held(e) \in Nat /\ Held(e)' = Held(e) + One(x, e) BY <1>3, <1>4, HolderMoves
  <2>2. One(x, e) \in Int BY OneInt
  <2>3. /\ Occurs(equeue', e) = Occurs(equeue, e) /\ Occurs(edlq', e) = Occurs(edlq, e)
        /\ Occurs(replayed', e) = Occurs(replayed, e)
    BY <1>4 DEF lists
  <2>4. /\ documents'[e] = documents[e] /\ lost'[e] = lost[e] /\ refused'[e] = refused[e]
        /\ doubled'[e] = doubled[e]
    BY <1>4 DEF losses
  <2> QED BY <1>5, <2>1, <2>2, <2>3, <2>4, CopyBooks
<1>8. Bridged' BY <1>4 DEF Bridged
<1> QED BY <1>6, <1>7, <1>8 DEF CopiesAddUp

\* What a step must show of the copies, event by event.
Conserved(e) == Copies(e)' + lost'[e] + refused'[e] = started'[e] + doubled'[e]

LEMMA PushKeeps ==
    ASSUME EventInv, NEW a \in Requests, Push(a)
    PROVE  EventInv'
<1> USE DEF EventInv
<1>1. PICK x : x = handler[a].ev OBVIOUS
<1>2. /\ a \in Actors /\ handler[a].pc = "push" /\ handler[a] \in Busy /\ x \in Events
      /\ UNCHANGED <<started, switches, edlq, replayed, documents, bridging, notices>>
  BY <1>1, RestOrBusy DEF Push, At, Actors
<1>3. /\ answered' \in SUBSET Events
      /\ \/ /\ equeue' = Append(equeue, x) /\ To(a, Idle) /\ UNCHANGED losses
         \/ /\ To(a, Step(a, "exists")) /\ UNCHANGED <<equeue, losses>>
         \/ /\ To(a, Step(a, "exists")) /\ equeue' = Append(equeue, x) /\ Twice(x)
  BY <1>1, <1>2 DEF Push, Answer, EventTypes
<1>4. PICK rec : To(a, rec) /\ rec = IF handler'[a].pc = "idle" THEN Idle ELSE Step(a, "exists")
  <2>1. Idle.pc = "idle" BY DEF Idle
  <2>2. Step(a, "exists").pc = "exists" BY <1>2 DEF Step, Busy
  <2>3. \A r : To(a, r) => handler'[a] = r BY <1>2 DEF To, EventTypes
  <2> QED BY <1>3, <2>1, <2>2, <2>3
<1>5. /\ rec \in Resting \cup Busy /\ rec.tries \in 0 .. 2
      /\ rec.pc = "idle" \/ (rec.pc = "exists" /\ rec.ev = x)
  <2>1. Idle \in Resting /\ Idle.tries = 0 /\ Idle.pc = "idle" BY DEF Idle, Resting
  <2>2. /\ Step(a, "exists") \in Busy /\ Step(a, "exists").tries = handler[a].tries
        /\ Step(a, "exists").pc = "exists" /\ Step(a, "exists").ev = x
    BY <1>1, <1>2 DEF Step, Busy
  <2> QED BY <1>2, <1>4, <2>1, <2>2 DEF EventTypes
<1>6. /\ equeue' \in Seq(Events) /\ lost' \in Counts /\ refused' \in Counts /\ doubled' \in Counts
  <2>1. Append(equeue, x) \in Seq(Events) /\ equeue \in Seq(Events)
    BY <1>2, AppendProperties DEF EventTypes
  <2>2. lost \in Counts /\ refused \in Counts /\ doubled \in Counts BY DEF EventTypes
  <2>3. Twice(x) => lost' \in Counts /\ refused' \in Counts /\ doubled' \in Counts
    BY <1>2, <2>2, LossMoves
  <2> QED BY <1>3, <2>1, <2>2, <2>3 DEF losses
<1>7. EventTypes'
  <2>1. /\ handler' \in [Actors -> Resting \cup Busy]
        /\ \A b \in Actors : handler'[b].tries \in 0 .. 2 \/ handler'[b].pc = "dlq"
    BY <1>2, <1>4, <1>5, HandlerTypes
  <2> QED BY <1>2, <1>3, <1>6, <2>1 DEF EventTypes
<1>8. ASSUME NEW e \in Events PROVE Conserved(e)
  <2>1. One(x, e) \in Int /\ Held(e) \in Nat BY <1>2, <1>4, <1>5, OneInt, HolderMoves
  <2>2. /\ Occurs(edlq', e) = Occurs(edlq, e) /\ Occurs(replayed', e) = Occurs(replayed, e)
        /\ documents'[e] = documents[e] /\ started'[e] = started[e]
    BY <1>2
  <2>3. CASE equeue' = Append(equeue, x) /\ To(a, Idle) /\ UNCHANGED losses
    <3>1. Held(e)' = Held(e) - One(x, e)
      <4>1. Idle \in Resting /\ Idle.pc = "idle" BY DEF Idle, Resting
      <4> QED BY <1>1, <1>2, <2>3, <4>1, HolderMoves
    <3>2. Occurs(equeue', e) = Occurs(equeue, e) + One(x, e)
      BY <1>2, <2>3, OccursAppend DEF EventTypes
    <3>3. lost'[e] = lost[e] /\ refused'[e] = refused[e] /\ doubled'[e] = doubled[e]
      BY <2>3 DEF losses
    <3> QED BY <2>1, <2>2, <3>1, <3>2, <3>3, CopyBooks DEF Conserved
  <2>4. CASE To(a, Step(a, "exists"))
    <3>1. Held(e)' = Held(e)
      <4>1. /\ Step(a, "exists") \in Busy /\ Step(a, "exists").pc # "idle"
            /\ Step(a, "exists").ev = x
        BY <1>1, <1>2 DEF Step, Busy
      <4> QED BY <1>1, <1>2, <2>4, <4>1, HolderMoves
    <3>2. \/ equeue' = equeue /\ UNCHANGED losses
          \/ equeue' = Append(equeue, x) /\ Twice(x)
      <4>1. \A r, s : To(a, r) /\ To(a, s) => r = s BY <1>2 DEF To, EventTypes
      <4>2. Step(a, "exists").pc # Idle.pc BY <1>2 DEF Step, Busy, Idle
      <4> QED BY <1>3, <2>4, <4>1, <4>2
    <3>3. CASE equeue' = equeue /\ UNCHANGED losses
      BY <2>1, <2>2, <3>1, <3>3, CopyBooks DEF losses, Conserved
    <3>4. CASE equeue' = Append(equeue, x) /\ Twice(x)
      <4>1. Occurs(equeue', e) = Occurs(equeue, e) + One(x, e)
        BY <1>2, <3>4, OccursAppend DEF EventTypes
      <4>2. lost'[e] = lost[e] /\ refused'[e] = refused[e] /\ doubled'[e] = doubled[e] + One(x, e)
        BY <1>2, <3>4, LossMoves
      <4>3. Copies(e)' = Occurs(equeue, e) + One(x, e) + Occurs(edlq, e) + Occurs(replayed, e)
                           + Held(e) + documents[e]
        BY <2>2, <3>1, <4>1, CopyBooks
      <4> HIDE DEF EventInv
      <4> QED BY <2>1, <2>2, <4>2, <4>3, CopyBooks DEF Conserved, EventInv
    <3> QED BY <3>2, <3>3, <3>4
  <2> QED BY <1>3, <2>3, <2>4
<1>9. Bridged' BY <1>2 DEF Bridged
<1> QED BY <1>7, <1>8, <1>9 DEF CopiesAddUp, Conserved

\* A worker takes an event off the queue.
LEMMA PopKeeps ==
    ASSUME EventInv, NEW a \in EventWorkers, Pop(a)
    PROVE  EventInv'
<1> USE DEF EventInv
<1>1. PICK x : x = Head(equeue) OBVIOUS
<1>2. PICK rec : /\ To(a, rec)
                 /\ rec = [ev |-> x, tries |-> 0, invalid |-> FALSE,
                           pc |-> IF ~AcceptsClient(x) THEN "dlq"
                                  ELSE IF x.feature = "system" THEN "persist" ELSE "exists"]
  BY <1>1 DEF Pop
<1>3. /\ a \in Actors /\ handler[a].pc = "idle" /\ equeue # <<>> /\ equeue' = Tail(equeue)
      /\ UNCHANGED <<switches, edlq, replayed, documents, bridging, notices, books>>
      /\ x \in Events /\ equeue' \in Seq(Events)
  BY <1>1, HeadTailProperties DEF Pop, At, Actors, EventTypes
<1>4. rec \in Busy /\ rec.pc # "idle" /\ rec.ev = x /\ rec.tries \in 0 .. 2
  BY <1>2, <1>3 DEF Busy
<1>5. EventTypes'
  <2>1. /\ handler' \in [Actors -> Resting \cup Busy]
        /\ \A b \in Actors : handler'[b].tries \in 0 .. 2 \/ handler'[b].pc = "dlq"
    BY <1>2, <1>3, <1>4, HandlerTypes
  <2> QED BY <1>3, <2>1 DEF EventTypes, books, losses
<1>6. ASSUME NEW e \in Events PROVE Conserved(e)
  <2>1. One(x, e) \in Int /\ Held(e) \in Nat /\ Held(e)' = Held(e) + One(x, e)
    BY <1>2, <1>3, <1>4, OneInt, HolderMoves
  <2>2. /\ Occurs(edlq', e) = Occurs(edlq, e) /\ Occurs(replayed', e) = Occurs(replayed, e)
        /\ documents'[e] = documents[e] /\ started'[e] = started[e]
        /\ lost'[e] = lost[e] /\ refused'[e] = refused[e] /\ doubled'[e] = doubled[e]
    BY <1>3 DEF books, losses
  <2>3. Occurs(equeue', e) = Occurs(equeue, e) - One(x, e)
    BY <1>1, <1>3, OccursTail DEF EventTypes
  <2> QED BY <2>1, <2>2, <2>3, CopyBooks DEF Conserved
<1>7. Bridged' BY <1>3 DEF Bridged
<1> QED BY <1>5, <1>6, <1>7 DEF CopiesAddUp, Conserved

\* A handler drops its copy, or keeps it at another call.
LEMMA LosesOrKeeps ==
    ASSUME EventInv, NEW a \in Actors, NEW x, x = handler[a].ev, handler[a].pc # "idle",
           NEW rec \in Resting \cup Busy, To(a, rec), rec.tries \in 0 .. 2 \/ rec.pc = "dlq",
           UNCHANGED <<switches, lists, replayed, documents, bridging, notices, answered, started>>,
           \/ rec.pc = "idle" /\ Drop(x)
           \/ rec.pc # "idle" /\ rec.ev = x /\ UNCHANGED losses
    PROVE  EventInv'
<1> USE DEF EventInv
<1>1. x \in Events BY RestOrBusy
<1>2. lost' \in Counts /\ refused' \in Counts /\ doubled' \in Counts
  BY <1>1, LossMoves DEF EventTypes, losses
<1>3. EventTypes'
  <2>1. /\ handler' \in [Actors -> Resting \cup Busy]
        /\ \A b \in Actors : handler'[b].tries \in 0 .. 2 \/ handler'[b].pc = "dlq"
    BY HandlerTypes
  <2> QED BY <1>2, <2>1 DEF EventTypes, lists
<1>4. ASSUME NEW e \in Events PROVE Conserved(e)
  <2>1. One(x, e) \in Int /\ Held(e) \in Nat BY OneInt, HolderMoves
  <2>2. /\ Occurs(equeue', e) = Occurs(equeue, e) /\ Occurs(edlq', e) = Occurs(edlq, e)
        /\ Occurs(replayed', e) = Occurs(replayed, e)
        /\ documents'[e] = documents[e] /\ started'[e] = started[e]
    BY DEF lists
  <2>3. CASE rec.pc = "idle" /\ Drop(x)
    <3>1. Held(e)' = Held(e) - One(x, e) BY <2>3, HolderMoves
    <3>2. lost'[e] = lost[e] + One(x, e) /\ refused'[e] = refused[e] /\ doubled'[e] = doubled[e]
      BY <1>1, <2>3, LossMoves
    <3> QED BY <2>1, <2>2, <3>1, <3>2, CopyBooks DEF Conserved
  <2>4. CASE rec.pc # "idle" /\ rec.ev = x /\ UNCHANGED losses
    <3>1. Held(e)' = Held(e) BY <2>4, HolderMoves
    <3> QED BY <2>1, <2>2, <2>4, <3>1, CopyBooks DEF Conserved, losses
  <2> QED BY <2>3, <2>4
<1>5. Bridged' BY DEF Bridged
<1> QED BY <1>3, <1>4, <1>5 DEF CopiesAddUp, Conserved

LEMMA ExistsKeeps ==
    ASSUME EventInv, NEW a \in Actors, Exists(a) \/ Die(a)
    PROVE  EventInv'
<1>1. PICK x : x = handler[a].ev OBVIOUS
<1>2. handler[a].pc # "idle" BY DEF Exists, Die, At
<1>3. handler[a] \in Busy /\ x \in Events BY <1>1, <1>2, RestOrBusy DEF EventInv
<1>4. UNCHANGED <<switches, lists, replayed, documents, bridging, notices, answered, started>>
  BY DEF Exists, Die
<1>5. ASSUME To(a, Idle), Drop(x) PROVE EventInv'
  <2>1. Idle \in Resting /\ Idle.pc = "idle" /\ Idle.tries \in 0 .. 2 BY DEF Idle, Resting
  <2> QED BY <1>1, <1>2, <1>4, <1>5, <2>1, LosesOrKeeps
<1>6. ASSUME Exists(a), UNCHANGED losses,
             To(a, [Step(a, "persist") EXCEPT !.invalid = (x.feature # "known")])
      PROVE  EventInv'
  <2>1. PICK rec : rec = [Step(a, "persist") EXCEPT !.invalid = (x.feature # "known")] OBVIOUS
  <2>2. handler[a].tries \in 0 .. 2
    <3>1. handler[a].pc = "exists" BY <1>6 DEF Exists, At
    <3> QED BY <3>1 DEF EventInv, EventTypes
  <2>3. rec \in Busy /\ rec.pc # "idle" /\ rec.ev = x /\ rec.tries \in 0 .. 2
    BY <1>1, <1>3, <2>1, <2>2 DEF Busy, Step
  <2> QED BY <1>1, <1>2, <1>4, <1>6, <2>1, <2>3, LosesOrKeeps
<1> QED BY <1>1, <1>5, <1>6 DEF Exists, Die

LEMMA RefuseKeeps ==
    ASSUME EventInv, NEW a \in Actors, Refuse(a)
    PROVE  EventInv'
<1> USE DEF EventInv
<1>1. PICK x : x = handler[a].ev OBVIOUS
<1>2. /\ handler[a].pc = "persist" /\ To(a, Idle) /\ refused' = Bump(refused, x) /\ Answer(a, x)
      /\ UNCHANGED <<switches, lists, replayed, documents, bridging, notices, started, lost, doubled>>
  BY <1>1 DEF Refuse, At
<1>3. x \in Events /\ Idle \in Resting /\ Idle.pc = "idle" /\ Idle.tries \in 0 .. 2
  BY <1>1, <1>2, RestOrBusy DEF Idle
<1>4. refused' \in Counts /\ \A e \in Events : refused'[e] = refused[e] + One(x, e)
  BY <1>2, <1>3, CountBump DEF EventTypes
<1>5. EventTypes'
  <2>1. /\ handler' \in [Actors -> Resting \cup Busy]
        /\ \A b \in Actors : handler'[b].tries \in 0 .. 2 \/ handler'[b].pc = "dlq"
    BY <1>2, <1>3, HandlerTypes
  <2>2. answered' \in SUBSET Events BY <1>2, <1>3 DEF Answer, EventTypes
  <2> QED BY <1>2, <1>4, <2>1, <2>2 DEF EventTypes, lists
<1>6. ASSUME NEW e \in Events PROVE Conserved(e)
  <2>1. One(x, e) \in Int /\ Held(e) \in Nat /\ Held(e)' = Held(e) - One(x, e)
    BY <1>1, <1>2, <1>3, OneInt, HolderMoves
  <2>2. /\ Occurs(equeue', e) = Occurs(equeue, e) /\ Occurs(edlq', e) = Occurs(edlq, e)
        /\ Occurs(replayed', e) = Occurs(replayed, e)
        /\ documents'[e] = documents[e] /\ started'[e] = started[e]
        /\ lost'[e] = lost[e] /\ doubled'[e] = doubled[e]
    BY <1>2 DEF lists
  <2> QED BY <1>4, <2>1, <2>2, CopyBooks DEF Conserved
<1>7. Bridged' BY <1>2 DEF Bridged
<1> QED BY <1>5, <1>6, <1>7 DEF CopiesAddUp, Conserved

\* A document is written: by a handler that is done with the event, ...
LEMMA PersistKeeps ==
    ASSUME EventInv, NEW a \in Actors, Persist(a)
    PROVE  EventInv'
<1> USE DEF EventInv
<1>1. PICK x : x = handler[a].ev OBVIOUS
<1>2. /\ handler[a].pc = "persist" /\ To(a, Idle) /\ documents' = Bump(documents, x) /\ Answer(a, x)
      /\ bridging' = bridging \/ bridging' = Bump(bridging, x)
      /\ UNCHANGED <<switches, lists, replayed, notices, started, losses>>
  BY <1>1 DEF Persist, At
<1>3. x \in Events /\ Idle \in Resting /\ Idle.pc = "idle" /\ Idle.tries \in 0 .. 2
  BY <1>1, <1>2, RestOrBusy DEF Idle
<1>4. /\ documents' \in Counts /\ \A e \in Events : documents'[e] = documents[e] + One(x, e)
      /\ bridging' \in Counts /\ \A e \in Events : bridging'[e] <= bridging[e] + One(x, e)
  <2>1. documents' \in Counts /\ \A e \in Events : documents'[e] = documents[e] + One(x, e)
    BY <1>2, <1>3, CountBump DEF EventTypes
  <2>2. CASE bridging' = Bump(bridging, x)
    <3>1. Bump(bridging, x) \in Counts /\ \A e \in Events : Bump(bridging, x)[e] = bridging[e] + One(x, e)
      BY <1>3, CountBump DEF EventTypes
    <3>2. \A e \in Events : bridging[e] \in Nat /\ One(x, e) \in {0, 1} BY CopyNats, OneInt
    <3> QED BY <2>1, <2>2, <3>1, <3>2
  <2>3. CASE bridging' = bridging
    <3>1. \A e \in Events : bridging[e] \in Nat /\ One(x, e) \in {0, 1} BY CopyNats, OneInt
    <3>2. bridging \in Counts BY DEF EventTypes
    <3> QED BY <2>1, <2>3, <3>1, <3>2
  <2> QED BY <1>2, <2>2, <2>3
<1>5. EventTypes'
  <2>1. /\ handler' \in [Actors -> Resting \cup Busy]
        /\ \A b \in Actors : handler'[b].tries \in 0 .. 2 \/ handler'[b].pc = "dlq"
    BY <1>2, <1>3, HandlerTypes
  <2>2. answered' \in SUBSET Events BY <1>2, <1>3 DEF Answer, EventTypes
  <2> QED BY <1>2, <1>4, <2>1, <2>2 DEF EventTypes, lists, losses
<1>6. ASSUME NEW e \in Events PROVE Conserved(e)
  <2>1. One(x, e) \in Int /\ Held(e) \in Nat /\ Held(e)' = Held(e) - One(x, e)
    BY <1>1, <1>2, <1>3, OneInt, HolderMoves
  <2>2. /\ Occurs(equeue', e) = Occurs(equeue, e) /\ Occurs(edlq', e) = Occurs(edlq, e)
        /\ Occurs(replayed', e) = Occurs(replayed, e) /\ started'[e] = started[e]
        /\ lost'[e] = lost[e] /\ refused'[e] = refused[e] /\ doubled'[e] = doubled[e]
    BY <1>2 DEF lists, losses
  <2> QED BY <1>4, <2>1, <2>2, CopyBooks DEF Conserved
<1>7. Bridged'
  <2> SUFFICES ASSUME NEW e \in Events PROVE notices'[e] + bridging'[e] <= documents'[e]
    BY DEF Bridged
  <2>1. notices[e] + bridging[e] <= documents[e] BY DEF Bridged
  <2>2. bridging'[e] \in Nat BY <1>4 DEF Counts
  <2>3. One(x, e) \in Int /\ notices'[e] = notices[e] BY <1>2, OneInt
  <2> QED BY <1>4, <2>1, <2>2, <2>3, CopyNats
<1> QED BY <1>5, <1>6, <1>7 DEF CopiesAddUp, Conserved

\* ... or by an insert that threw afterwards; or it is not written and the insert threw.
LEMMA PersistFailsKeeps ==
    ASSUME EventInv, NEW a \in Actors, NEW applied \in BOOLEAN, PersistFails(a, applied)
    PROVE  EventInv'
<1> USE DEF EventInv
<1>1. PICK x : x = handler[a].ev OBVIOUS
<1>2. /\ handler[a].pc = "persist" /\ handler[a] \in Busy /\ x \in Events
      /\ handler[a].tries \in 0 .. 2
  BY <1>1, RestOrBusy DEF PersistFails, At, EventTypes
<1>3. /\ documents' = IF applied THEN Bump(documents, x) ELSE documents
      /\ UNCHANGED <<switches, lists, replayed, bridging, notices, answered, started>>
  BY <1>1 DEF PersistFails
<1>4. PICK rec \in Resting \cup Busy :
         /\ To(a, rec)
         /\ rec.tries \in 0 .. 2 \/ rec.pc = "dlq"
         /\ \/ rec.pc = "idle" /\ (IF applied THEN UNCHANGED losses ELSE Drop(x))
            \/ rec.pc # "idle" /\ rec.ev = x /\ (IF applied THEN Twice(x) ELSE UNCHANGED losses)
  <2>1. CASE a \in Requests
    <3>1. Idle \in Resting /\ Idle.pc = "idle" /\ Idle.tries \in 0 .. 2 BY DEF Idle, Resting
    <3> QED BY <1>1, <2>1, <3>1 DEF PersistFails
  <2>2. CASE a \notin Requests
    <3>1. PICK p, t : /\ p = IF handler[a].tries + 1 = 3 THEN "dlq" ELSE "persist"
                      /\ t = handler[a].tries + 1
      OBVIOUS
    <3>4. PICK rec : rec = [Step(a, p) EXCEPT !.tries = t] OBVIOUS
    <3>5. p \in {"dlq", "persist"} /\ t \in 0 .. 3 /\ (t \in 0 .. 2 \/ p = "dlq")
      BY <1>2, <3>1
    <3>2. /\ rec \in Busy /\ rec.pc # "idle" /\ rec.ev = x
          /\ rec.tries \in 0 .. 2 \/ rec.pc = "dlq"
      BY <1>1, <1>2, <3>4, <3>5 DEF Busy, Step
    <3>3. To(a, rec) /\ (IF applied THEN Twice(x) ELSE UNCHANGED losses)
      BY <1>1, <2>2, <3>1, <3>4 DEF PersistFails
    <3> QED BY <3>2, <3>3
  <2> QED BY <2>1, <2>2
<1>5. lost' \in Counts /\ refused' \in Counts /\ doubled' \in Counts
  <2>1. lost \in Counts /\ refused \in Counts /\ doubled \in Counts BY DEF EventTypes
  <2>2. \/ Drop(x) \/ Twice(x) \/ UNCHANGED losses BY <1>4
  <2> QED BY <1>2, <2>1, <2>2, LossMoves DEF losses
<1>6. /\ documents' \in Counts
      /\ \A e \in Events : documents'[e] = documents[e] + (IF applied THEN One(x, e) ELSE 0)
  <2>1. documents \in Counts /\ \A e \in Events : documents[e] \in Nat BY DEF EventTypes, Counts
  <2> QED BY <1>2, <1>3, <2>1, CountBump
<1>7. EventTypes'
  <2>1. /\ handler' \in [Actors -> Resting \cup Busy]
        /\ \A b \in Actors : handler'[b].tries \in 0 .. 2 \/ handler'[b].pc = "dlq"
    BY <1>4, HandlerTypes
  <2> QED BY <1>3, <1>5, <1>6, <2>1 DEF EventTypes, lists
<1>8. ASSUME NEW e \in Events PROVE Conserved(e)
  <2>1. One(x, e) \in Int /\ Held(e) \in Nat BY <1>4, OneInt, HolderMoves
  <2>2. /\ Occurs(equeue', e) = Occurs(equeue, e) /\ Occurs(edlq', e) = Occurs(edlq, e)
        /\ Occurs(replayed', e) = Occurs(replayed, e) /\ started'[e] = started[e]
    BY <1>3 DEF lists
  <2>3. CASE rec.pc = "idle"
    <3>1. Held(e)' = Held(e) - One(x, e) BY <1>1, <1>2, <1>4, <2>3, HolderMoves
    <3>2. CASE applied
      <4>1. lost'[e] = lost[e] /\ refused'[e] = refused[e] /\ doubled'[e] = doubled[e]
        BY <1>4, <2>3, <3>2 DEF losses
      <4>2. documents'[e] = documents[e] + One(x, e) BY <1>6, <3>2
      <4> QED BY <2>1, <2>2, <3>1, <4>1, <4>2, CopyBooks DEF Conserved
    <3>3. CASE ~ applied
      <4>1. lost'[e] = lost[e] + One(x, e) /\ refused'[e] = refused[e] /\ doubled'[e] = doubled[e]
        BY <1>2, <1>4, <2>3, <3>3, LossMoves
      <4>2. documents'[e] = documents[e] BY <1>3, <3>3
      <4> QED BY <2>1, <2>2, <3>1, <4>1, <4>2, CopyBooks DEF Conserved
    <3> QED BY <3>2, <3>3
  <2>4. CASE rec.pc # "idle"
    <3>1. Held(e)' = Held(e) BY <1>1, <1>2, <1>4, <2>4, HolderMoves
    <3>2. CASE applied
      <4>1. lost'[e] = lost[e] /\ refused'[e] = refused[e] /\ doubled'[e] = doubled[e] + One(x, e)
        BY <1>2, <1>4, <2>4, <3>2, LossMoves
      <4>2. documents'[e] = documents[e] + One(x, e) BY <1>6, <3>2
      <4>3. Copies(e)' = Occurs(equeue, e) + Occurs(edlq, e) + Occurs(replayed, e)
                           + Held(e) + documents[e] + One(x, e)
        BY <2>1, <2>2, <3>1, <4>2, CopyBooks
      <4> HIDE DEF EventInv
      <4> QED BY <2>1, <2>2, <4>1, <4>3, CopyBooks DEF Conserved, EventInv
    <3>3. CASE ~ applied
      <4>1. lost'[e] = lost[e] /\ refused'[e] = refused[e] /\ doubled'[e] = doubled[e]
        BY <1>4, <2>4, <3>3 DEF losses
      <4>2. documents'[e] = documents[e] BY <1>3, <3>3
      <4> QED BY <2>1, <2>2, <3>1, <4>1, <4>2, CopyBooks DEF Conserved
    <3> QED BY <3>2, <3>3
  <2> QED BY <2>3, <2>4
<1>9. Bridged'
  <2> SUFFICES ASSUME NEW e \in Events PROVE notices'[e] + bridging'[e] <= documents'[e]
    BY DEF Bridged
  <2>1. notices[e] + bridging[e] <= documents[e] BY DEF Bridged
  <2>2. One(x, e) \in {0, 1} /\ notices'[e] = notices[e] /\ bridging'[e] = bridging[e]
    BY <1>3, OneInt
  <2> QED BY <1>6, <2>1, <2>2, CopyNats
<1> QED BY <1>7, <1>8, <1>9 DEF CopiesAddUp, Conserved

LEMMA DeadLetterKeeps ==
    ASSUME EventInv, NEW a \in EventWorkers, DeadLetterEvent(a)
    PROVE  EventInv'
<1> USE DEF EventInv
<1>1. PICK x : x = handler[a].ev OBVIOUS
<1>2. /\ a \in Actors /\ handler[a].pc = "dlq" /\ To(a, Idle)
      /\ UNCHANGED <<switches, equeue, replayed, documents, bridging, notices, answered, started>>
      /\ \/ edlq' = Append(edlq, x) /\ UNCHANGED losses
         \/ edlq' = edlq /\ Drop(x)
  BY <1>1 DEF DeadLetterEvent, At, Actors
<1>3. x \in Events /\ Idle \in Resting /\ Idle.pc = "idle" /\ Idle.tries \in 0 .. 2
  BY <1>1, <1>2, RestOrBusy DEF Idle
<1>4. edlq' \in Seq(Events) /\ lost' \in Counts /\ refused' \in Counts /\ doubled' \in Counts
  <2>1. edlq \in Seq(Events) /\ lost \in Counts /\ refused \in Counts /\ doubled \in Counts
    BY DEF EventTypes
  <2>2. CASE edlq' = Append(edlq, x) /\ UNCHANGED losses
    BY <1>3, <2>1, <2>2, AppendProperties DEF losses
  <2>3. CASE edlq' = edlq /\ Drop(x) BY <1>3, <2>1, <2>3, LossMoves
  <2> QED BY <1>2, <2>2, <2>3
<1>5. EventTypes'
  <2>1. /\ handler' \in [Actors -> Resting \cup Busy]
        /\ \A b \in Actors : handler'[b].tries \in 0 .. 2 \/ handler'[b].pc = "dlq"
    BY <1>2, <1>3, HandlerTypes
  <2> QED BY <1>2, <1>4, <2>1 DEF EventTypes
<1>6. ASSUME NEW e \in Events PROVE Conserved(e)
  <2>1. One(x, e) \in Int /\ Held(e) \in Nat /\ Held(e)' = Held(e) - One(x, e)
    BY <1>1, <1>2, <1>3, OneInt, HolderMoves
  <2>2. /\ Occurs(equeue', e) = Occurs(equeue, e) /\ Occurs(replayed', e) = Occurs(replayed, e)
        /\ documents'[e] = documents[e] /\ started'[e] = started[e]
    BY <1>2
  <2>3. CASE edlq' = Append(edlq, x) /\ UNCHANGED losses
    <3>1. Occurs(edlq', e) = Occurs(edlq, e) + One(x, e)
      BY <1>3, <2>3, OccursAppend DEF EventTypes
    <3>2. lost'[e] = lost[e] /\ refused'[e] = refused[e] /\ doubled'[e] = doubled[e]
      BY <2>3 DEF losses
    <3>3. Copies(e)' = Occurs(equeue, e) + Occurs(edlq, e) + Occurs(replayed, e)
                         + Held(e) + documents[e]
      BY <2>1, <2>2, <3>1, CopyBooks
    <3> HIDE DEF EventInv
    <3> QED BY <2>1, <2>2, <3>2, <3>3, CopyBooks DEF Conserved, EventInv
  <2>4. CASE edlq' = edlq /\ Drop(x)
    <3>1. lost'[e] = lost[e] + One(x, e) /\ refused'[e] = refused[e] /\ doubled'[e] = doubled[e]
      BY <1>3, <2>4, LossMoves
    <3> QED BY <2>1, <2>2, <2>4, <3>1, CopyBooks DEF Conserved
  <2> QED BY <1>2, <2>3, <2>4
<1>7. Bridged' BY <1>2 DEF Bridged
<1> QED BY <1>5, <1>6, <1>7 DEF CopiesAddUp, Conserved

LEMMA BridgeKeeps ==
    ASSUME EventInv, NEW x \in Events, Bridge(x)
    PROVE  EventInv'
<1> USE DEF EventInv
<1>1. /\ bridging[x] > 0 /\ bridging' = [bridging EXCEPT ![x] = @ - 1]
      /\ notices' = notices \/ notices' = Bump(notices, x)
      /\ UNCHANGED <<switches, lists, handler, replayed, documents, books>>
  BY DEF Bridge
<1>2. /\ bridging \in Counts /\ notices \in Counts
      /\ \A e \in Events : bridging[e] \in Nat /\ notices[e] \in Nat /\ documents[e] \in Nat
  BY DEF EventTypes, Counts
<1>3. bridging' \in Counts /\ \A e \in Events : bridging'[e] = bridging[e] - One(x, e)
  BY <1>1, <1>2 DEF Counts, One
<1>4. notices' \in Counts /\ \A e \in Events : notices'[e] <= notices[e] + One(x, e)
  <2>1. Bump(notices, x) \in Counts /\ \A e \in Events : Bump(notices, x)[e] = notices[e] + One(x, e)
    BY <1>2, CountBump
  <2>2. \A e \in Events : notices[e] \in Nat /\ One(x, e) \in {0, 1} BY <1>2, OneInt
  <2> QED BY <1>1, <1>2, <2>1, <2>2
<1>5. EventTypes' BY <1>1, <1>3, <1>4 DEF EventTypes, lists, books, losses
<1>6. ASSUME NEW e \in Events PROVE Conserved(e)
  <2>1. Held(e)' = Held(e) BY <1>1 DEF Held, At
  <2>2. Copies(e)' = Copies(e) BY <1>1, <2>1 DEF Copies, lists
  <2> QED BY <1>1, <2>2 DEF CopiesAddUp, Conserved, books, losses
<1>7. Bridged'
  <2> SUFFICES ASSUME NEW e \in Events PROVE notices'[e] + bridging'[e] <= documents'[e]
    BY DEF Bridged
  <2>1. notices[e] + bridging[e] <= documents[e] BY DEF Bridged
  <2>2. One(x, e) \in {0, 1} /\ documents'[e] = documents[e] /\ notices'[e] \in Nat
    BY <1>1, <1>4, OneInt DEF Counts
  <2> QED BY <1>2, <1>3, <1>4, <2>1, <2>2
<1> QED BY <1>5, <1>6, <1>7 DEF CopiesAddUp, Conserved

\* The replay script pops a dead letter and pushes it.
LEMMA ReplayKeeps ==
    ASSUME EventInv, (\E dry, dies \in BOOLEAN : ReplayPop(dry, dies)) \/ ReplayPush
    PROVE  EventInv'
<1> USE DEF EventInv
<1>0. /\ equeue \in Seq(Events) /\ edlq \in Seq(Events) /\ replayed \in Seq(Events)
      /\ lost \in Counts /\ refused \in Counts /\ doubled \in Counts
  BY DEF EventTypes
<1>1. ASSUME NEW dry \in BOOLEAN, NEW dies \in BOOLEAN, ReplayPop(dry, dies) PROVE EventInv'
  <2>1. PICK x : x = Head(edlq) OBVIOUS
  <2>2. /\ replayed = <<>> /\ edlq # <<>> /\ x \in Events /\ Tail(edlq) \in Seq(Events)
        /\ UNCHANGED <<switches, equeue, handler, documents, bridging, notices, answered, started>>
    BY <1>0, <1>1, <2>1, HeadTailProperties DEF ReplayPop
  <2>3. \/ edlq' = Append(Tail(edlq), x) /\ replayed' = <<>> /\ UNCHANGED losses
        \/ edlq' = Tail(edlq) /\ replayed' = <<x>> /\ UNCHANGED losses
        \/ edlq' = Tail(edlq) /\ replayed' = <<>> /\ Drop(x)
    <3> DEFINE back == ~AcceptsClient(x) /\ ~dies
               passes == AcceptsClient(x) /\ ~dry /\ ~dies
    <3>1. /\ edlq' = IF back THEN Append(Tail(edlq), x) ELSE Tail(edlq)
          /\ replayed' = IF passes THEN <<x>> ELSE <<>>
          /\ IF back \/ replayed' # <<>> THEN UNCHANGED losses ELSE Drop(x)
      BY <1>1, <2>1 DEF ReplayPop
    <3>2. ~ (back /\ passes) OBVIOUS
    <3> HIDE DEF back, passes
    <3>3. <<x>> # <<>> OBVIOUS
    <3> QED BY <3>1, <3>2, <3>3
  <2>4. /\ edlq' \in Seq(Events) /\ replayed' \in Seq(Events) /\ Len(replayed') <= 1
        /\ lost' \in Counts /\ refused' \in Counts /\ doubled' \in Counts
    <3>1. /\ Append(Tail(edlq), x) \in Seq(Events) /\ <<x>> \in Seq(Events) /\ <<>> \in Seq(Events)
          /\ Len(<<x>>) = 1 /\ Len(<<>>) = 0
      BY <2>2, AppendProperties
    <3>2. lost' \in Counts /\ refused' \in Counts /\ doubled' \in Counts
      BY <1>0, <2>2, <2>3, LossMoves DEF losses
    <3>3. edlq' \in Seq(Events) BY <2>2, <2>3, <3>1
    <3>4. replayed' \in Seq(Events) /\ Len(replayed') <= 1
      <4>1. PICK y : y = <<x>> OBVIOUS
      <4>2. PICK z : z = <<>> OBVIOUS
      <4>3. /\ replayed' = y \/ replayed' = z
            /\ y \in Seq(Events) /\ z \in Seq(Events) /\ Len(y) = 1 /\ Len(z) = 0
        BY <2>3, <3>1, <4>1, <4>2
      <4>4. CASE replayed' = y
        <5>1. replayed' \in Seq(Events) /\ Len(replayed') = 1 BY <4>3, <4>4
        <5>2. 1 <= 1 OBVIOUS
        <5> QED BY <5>1, <5>2
      <4>5. CASE replayed' = z
        <5>1. replayed' \in Seq(Events) /\ Len(replayed') = 0 BY <4>3, <4>5
        <5>2. 0 <= 1 OBVIOUS
        <5> QED BY <5>1, <5>2
      <4> QED BY <4>3, <4>4, <4>5
    <3> QED BY <3>2, <3>3, <3>4
  <2>5. EventTypes' BY <2>2, <2>4 DEF EventTypes
  <2>6. ASSUME NEW e \in Events PROVE Conserved(e)
    <3>0. Held(e) \in Nat BY HeldNat
    <3>1. Held(e)' = Held(e) BY <2>2 DEF Held, At
    <3>2. /\ Occurs(equeue', e) = Occurs(equeue, e) /\ documents'[e] = documents[e]
          /\ started'[e] = started[e] /\ Occurs(replayed, e) = 0 /\ One(x, e) \in {0, 1}
          /\ Occurs(Tail(edlq), e) = Occurs(edlq, e) - One(x, e)
      BY <1>0, <2>1, <2>2, OccursNowhere, OneInt, OccursTail
    <3>3. CASE edlq' = Append(Tail(edlq), x) /\ replayed' = <<>> /\ UNCHANGED losses
      <4>1. Occurs(edlq', e) = Occurs(Tail(edlq), e) + One(x, e)
        BY <2>2, <3>3, OccursAppend
      <4>2. Occurs(replayed', e) = 0 BY <3>3, OccursNowhere
      <4>3. Occurs(edlq', e) = Occurs(edlq, e)
        BY <3>2, <4>1, CopyBooks
      <4>4. Copies(e)' = Copies(e) BY <3>1, <3>2, <4>2, <4>3 DEF Copies
      <4> QED BY <2>2, <3>3, <4>4 DEF Conserved, losses, CopiesAddUp
    <3>4. CASE edlq' = Tail(edlq) /\ replayed' = <<x>> /\ UNCHANGED losses
      <4>1. Occurs(replayed', e) = One(x, e) BY <3>4, OccursOnce
      <4>2. Occurs(edlq', e) = Occurs(edlq, e) - One(x, e) BY <3>2, <3>4
      <4>3. Copies(e)' = Occurs(equeue, e) + Occurs(edlq, e) + Held(e) + documents[e]
        BY <3>0, <3>1, <3>2, <4>1, <4>2, CopyBooks
      <4>4. lost'[e] = lost[e] /\ refused'[e] = refused[e] /\ doubled'[e] = doubled[e]
        BY <3>4 DEF losses
      <4> HIDE DEF EventInv
      <4> QED BY <3>0, <3>2, <4>3, <4>4, CopyBooks DEF Conserved, EventInv
    <3>5. CASE edlq' = Tail(edlq) /\ replayed' = <<>> /\ Drop(x)
      <4>1. Occurs(replayed', e) = 0 BY <3>5, OccursNowhere
      <4>2. lost'[e] = lost[e] + One(x, e) /\ refused'[e] = refused[e] /\ doubled'[e] = doubled[e]
        BY <2>2, <3>5, LossMoves
      <4>3. Occurs(edlq', e) = Occurs(edlq, e) - One(x, e) BY <3>2, <3>5
      <4>4. Copies(e)' = Occurs(equeue, e) + Occurs(edlq, e) - One(x, e) + Held(e) + documents[e]
        BY <3>0, <3>1, <3>2, <4>1, <4>3, CopyBooks
      <4> HIDE DEF EventInv
      <4> QED BY <3>0, <3>2, <4>2, <4>4, CopyBooks DEF Conserved, EventInv
    <3> QED BY <2>3, <3>3, <3>4, <3>5
  <2>7. Bridged' BY <2>2 DEF Bridged
  <2> QED BY <2>5, <2>6, <2>7 DEF CopiesAddUp, Conserved
<1>2. CASE ReplayPush
  <2>1. PICK x : x = Head(replayed) OBVIOUS
  <2>2. /\ replayed # <<>> /\ replayed' = <<>> /\ x \in Events
        /\ Tail(replayed) = <<>>
        /\ UNCHANGED <<switches, edlq, handler, documents, bridging, notices, answered, started>>
        /\ \/ equeue' = Append(equeue, x) /\ UNCHANGED losses
           \/ equeue' = equeue /\ Drop(x)
    <3>1. replayed # <<>> BY <1>2 DEF ReplayPush
    <3>2. x \in Events /\ Tail(replayed) \in Seq(Events) /\ Len(Tail(replayed)) = Len(replayed) - 1
      BY <1>0, <2>1, <3>1, HeadTailProperties
    <3>3. Len(replayed) \in Nat /\ Len(Tail(replayed)) \in Nat /\ Len(replayed) <= 1
      BY <1>0, <3>2, LenProperties DEF EventTypes
    <3>4. Tail(replayed) = <<>> BY <3>2, <3>3, EmptySeq
    <3> QED BY <1>2, <2>1, <3>1, <3>2, <3>4 DEF ReplayPush
  <2>3. equeue' \in Seq(Events) /\ lost' \in Counts /\ refused' \in Counts /\ doubled' \in Counts
    <3>1. Append(equeue, x) \in Seq(Events) BY <1>0, <2>2, AppendProperties
    <3> QED BY <1>0, <2>2, <3>1, LossMoves DEF losses
  <2>4. EventTypes'
    <3>1. <<>> \in Seq(Events) /\ Len(<<>>) = 0 OBVIOUS
    <3> QED BY <2>2, <2>3, <3>1 DEF EventTypes
  <2>5. ASSUME NEW e \in Events PROVE Conserved(e)
    <3>0. Held(e) \in Nat BY HeldNat
    <3>1. Held(e)' = Held(e) BY <2>2 DEF Held, At
    <3>2. /\ Occurs(edlq', e) = Occurs(edlq, e) /\ documents'[e] = documents[e]
          /\ started'[e] = started[e] /\ One(x, e) \in {0, 1}
          /\ Occurs(replayed', e) = 0 /\ Occurs(Tail(replayed), e) = 0
          /\ Occurs(Tail(replayed), e) = Occurs(replayed, e) - One(x, e)
      BY <1>0, <2>1, <2>2, OccursNowhere, OneInt, OccursTail
    <3>3. CASE equeue' = Append(equeue, x) /\ UNCHANGED losses
      <4>1. Occurs(equeue', e) = Occurs(equeue, e) + One(x, e)
        BY <1>0, <2>2, <3>3, OccursAppend
      <4> QED BY <3>0, <3>1, <3>2, <3>3, <4>1, CopyBooks DEF Conserved, losses
    <3>4. CASE equeue' = equeue /\ Drop(x)
      <4>1. lost'[e] = lost[e] + One(x, e) /\ refused'[e] = refused[e] /\ doubled'[e] = doubled[e]
        BY <2>2, <3>4, LossMoves
      <4>2. Occurs(equeue', e) = Occurs(equeue, e) /\ Occurs(replayed, e) = One(x, e)
        BY <3>2, <3>4, CopyBooks
      <4>3. Copies(e)' = Occurs(equeue, e) + Occurs(edlq, e) + Held(e) + documents[e]
        BY <3>0, <3>1, <3>2, <4>2, CopyBooks
      <4> HIDE DEF EventInv
      <4> QED BY <3>0, <3>2, <4>1, <4>2, <4>3, CopyBooks DEF Conserved, EventInv
    <3> QED BY <2>2, <3>3, <3>4
  <2>6. Bridged' BY <2>2 DEF Bridged
  <2> QED BY <2>4, <2>5, <2>6 DEF CopiesAddUp, Conserved
<1> QED BY <1>1, <1>2

LEMMA EventFrame ==
    ASSUME EventInv, UNCHANGED queueVars
    PROVE  EventInv'
<1>1. \A e : Held(e)' = Held(e) BY DEF Held, At, queueVars
<1>2. EventTypes' BY DEF EventInv, EventTypes, queueVars, lists, books, losses
<1>3. \A e \in Events : Conserved(e)
  BY <1>1 DEF EventInv, CopiesAddUp, Conserved, Copies, queueVars, lists, books, losses
<1>4. Bridged' BY DEF EventInv, Bridged, queueVars
<1> QED BY <1>2, <1>3, <1>4 DEF EventInv, CopiesAddUp, Conserved

LEMMA EventSteps ==
    ASSUME EventInv, EventNext
    PROVE  EventInv'
<1>1. ASSUME NEW name \in DOMAIN switches, FlipSwitch(name) PROVE EventInv'
  <2>1. switches' \in [{"ingest", "enforce", "bridge"} -> BOOLEAN]
        /\ UNCHANGED <<lists, handler, replayed, documents, bridging, notices, books>>
    BY <1>1 DEF FlipSwitch, EventInv, EventTypes
  <2>2. \A e : Held(e)' = Held(e) BY <2>1 DEF Held, At
  <2>3. EventTypes' BY <2>1 DEF EventInv, EventTypes, lists, books, losses
  <2>4. \A e \in Events : Conserved(e)
    BY <2>1, <2>2 DEF EventInv, CopiesAddUp, Conserved, Copies, lists, books, losses
  <2>5. Bridged' BY <2>1 DEF EventInv, Bridged
  <2> QED BY <2>3, <2>4, <2>5 DEF EventInv, CopiesAddUp, Conserved
<1> QED BY <1>1, TrackKeeps, PushKeeps, PopKeeps, DeadLetterKeeps, ExistsKeeps, RefuseKeeps,
           PersistKeeps, PersistFailsKeeps, BridgeKeeps, ReplayKeeps DEF EventNext

LEMMA EventStart ==
    ASSUME EventInit
    PROVE  EventInv
<1>1. Zeros \in Counts /\ \A e \in Events : Zeros[e] = 0 BY DEF Zeros, Counts
<1>2. EventTypes
  <2>1. Idle \in Resting /\ Idle.tries \in 0 .. 2 BY DEF Idle, Resting
  <2>2. <<>> \in Seq(Events) /\ Len(<<>>) = 0 OBVIOUS
  <2>3. switches \in [{"ingest", "enforce", "bridge"} -> BOOLEAN]
    <3>1. switches \in [ingest : BOOLEAN, enforce : BOOLEAN, bridge : BOOLEAN] BY DEF EventInit
    <3> QED BY <3>1
  <2> QED BY <1>1, <2>1, <2>2, <2>3 DEF EventInit, EventTypes
<1>3. Bridged BY <1>1 DEF EventInit, Bridged
<1>4. ASSUME NEW e \in Events PROVE Copies(e) + lost[e] + refused[e] = started[e] + doubled[e]
  <2>1. Occurs(equeue, e) = 0 /\ Occurs(edlq, e) = 0 /\ Occurs(replayed, e) = 0
    BY OccursNowhere DEF EventInit
  <2>2. {a \in Actors : ~ At(a, "idle") /\ handler[a].ev = e} = {} BY DEF EventInit, At, Idle
  <2>3. Held(e) = 0 BY <2>2, FS_EmptySet DEF Held
  <2> QED BY <1>1, <2>1, <2>3 DEF EventInit, Copies
<1> QED BY <1>2, <1>3, <1>4 DEF EventInv, CopiesAddUp

\* A request that is busy with an event, or has answered for one, has started it.
Begun ==
    /\ \A r \in Requests : ~ At(r, "idle") => started[handler[r].ev] > 0
    /\ \A e \in answered : started[e] > 0

LEMMA BegunMoves ==
    ASSUME EventTypes, Begun, started' = started,
           NEW a \in Actors, NEW rec, To(a, rec), rec.pc = "idle" \/ rec.ev = handler[a].ev,
           handler[a].pc # "idle" \/ a \notin Requests,
           answered' = answered \/ Answer(a, handler[a].ev)
    PROVE  Begun'
<1>1. \A b \in Actors : handler'[b] = IF b = a THEN rec ELSE handler[b]
  BY DEF To, EventTypes
<1>2. \A r \in Requests : ~ At(r, "idle")' => started'[handler'[r].ev] > 0
  BY <1>1 DEF Begun, At, Actors
<1>3. \A e \in answered' : started'[e] > 0 BY DEF Begun, Answer, At
<1> QED BY <1>2, <1>3 DEF Begun

LEMMA BegunKeeps == ASSUME EventTypes, Begun, EventNext PROVE Begun'
<1>a. Idle.pc = "idle" BY DEF Idle
<1>b. ASSUME NEW a \in Actors, NEW p, handler[a].pc # "idle" PROVE Step(a, p).ev = handler[a].ev
  <2>1. handler[a] \in Busy BY <1>b, RestOrBusy
  <2> QED BY <2>1 DEF Step, Busy
<1>1. ASSUME NEW r \in Requests, NEW x \in Events, Track(r, x) \/ Emit(r, x) PROVE Begun'
  <2>1. PICK rec : To(r, rec) /\ rec.ev = x
    <3>1. PICK p \in {"push", "exists"} : To(r, [ev |-> x, pc |-> p, tries |-> 0, invalid |-> FALSE])
      BY <1>1 DEF Track, Emit
    <3> QED BY <3>1
  <2>2. started' = Bump(started, x) /\ answered' = answered BY <1>1 DEF Track, Emit
  <2>3. \A e \in Events : started'[e] = started[e] + One(x, e) /\ started[e] \in Nat
    BY <2>2, CountBump DEF EventTypes, Counts
  <2>4. started'[x] > 0 /\ \A e \in Events : started[e] > 0 => started'[e] > 0
    BY <2>3 DEF One
  <2>5. \A b \in Actors : handler'[b] = IF b = r THEN rec ELSE handler[b]
    BY <2>1 DEF To, EventTypes
  <2>6. ASSUME NEW b \in Requests, ~ At(b, "idle")' PROVE started'[handler'[b].ev] > 0
    <3>1. CASE b = r BY <2>1, <2>4, <2>5, <3>1 DEF Actors
    <3>2. CASE b # r
      <4>1. handler'[b] = handler[b] /\ handler[b].pc # "idle" /\ b \in Actors
        BY <2>5, <2>6, <3>2 DEF At, Actors
      <4>2. handler[b].ev \in Events BY <4>1, RestOrBusy
      <4> QED BY <2>4, <4>1, <4>2 DEF Begun, At
    <3> QED BY <3>1, <3>2
  <2>7. \A e \in answered' : started'[e] > 0 BY <2>2, <2>4 DEF Begun, EventTypes
  <2> QED BY <2>6, <2>7 DEF Begun
<1>2. ASSUME NEW r \in Requests, Push(r) PROVE Begun'
  <2>1. handler[r].pc = "push" /\ r \in Actors /\ started' = started
        /\ (To(r, Idle) \/ To(r, Step(r, "exists")))
        /\ (answered' = answered \/ Answer(r, handler[r].ev))
    BY <1>2 DEF Push, At, Actors
  <2>2. PICK rec : To(r, rec) /\ (rec.pc = "idle" \/ rec.ev = handler[r].ev)
    <3>1. CASE To(r, Idle) BY <1>a, <3>1
    <3>2. CASE To(r, Step(r, "exists"))
      <4>1. Step(r, "exists").ev = handler[r].ev BY <1>b, <2>1
      <4> QED BY <3>2, <4>1
    <3> QED BY <2>1, <3>1, <3>2
  <2> QED BY <2>1, <2>2, BegunMoves
<1>3. ASSUME NEW w \in EventWorkers, Pop(w) \/ DeadLetterEvent(w) PROVE Begun'
  <2>1. started' = started /\ answered' = answered /\ \E rec : To(w, rec)
    <3>1. \E rec : To(w, rec) BY <1>3 DEF Pop, DeadLetterEvent
    <3>2. CASE Pop(w) BY <3>1, <3>2 DEF Pop, books
    <3>3. CASE DeadLetterEvent(w) BY <3>1, <3>3 DEF DeadLetterEvent
    <3> QED BY <1>3, <3>2, <3>3
  <2>2. w \notin Requests BY EventsAssumption
  <2>3. \A r \in Requests : handler'[r] = handler[r] BY <2>1, <2>2 DEF To, EventTypes, Actors
  <2> QED BY <2>1, <2>3 DEF Begun, At
<1>4. ASSUME NEW a \in Actors, Exists(a) PROVE Begun'
  <2>1. handler[a].pc = "exists" /\ started' = started /\ answered' = answered
    BY <1>4 DEF Exists, At
  <2>2. PICK rec : To(a, rec) /\ (rec.pc = "idle" \/ rec.ev = handler[a].ev)
    <3>1. CASE To(a, Idle) BY <1>a, <3>1
    <3>2. CASE To(a, [Step(a, "persist") EXCEPT !.invalid = (handler[a].ev.feature # "known")])
      <4>1. handler[a] \in Busy BY <2>1, RestOrBusy
      <4>2. [Step(a, "persist") EXCEPT !.invalid = (handler[a].ev.feature # "known")].ev = handler[a].ev
        BY <4>1 DEF Step, Busy
      <4> QED BY <3>2, <4>2
    <3> QED BY <1>4, <3>1, <3>2 DEF Exists
  <2> QED BY <2>1, <2>2, BegunMoves
<1>5. ASSUME NEW a \in Actors, Refuse(a) \/ Persist(a) \/ Die(a) PROVE Begun'
  <2>1. handler[a].pc # "idle" /\ started' = started /\ To(a, Idle)
        /\ (answered' = answered \/ Answer(a, handler[a].ev))
    BY <1>5 DEF Refuse, Persist, Die, At
  <2> QED BY <1>a, <2>1, BegunMoves
<1>6. ASSUME NEW a \in Actors, NEW applied \in BOOLEAN, PersistFails(a, applied) PROVE Begun'
  <2>1. handler[a].pc = "persist" /\ started' = started /\ answered' = answered
    BY <1>6 DEF PersistFails, At
  <2>2. PICK rec : To(a, rec) /\ (rec.pc = "idle" \/ rec.ev = handler[a].ev)
    <3>1. CASE To(a, Idle) BY <1>a, <3>1
    <3>2. CASE \E p \in {"dlq", "persist"} :
                  To(a, [Step(a, p) EXCEPT !.tries = handler[a].tries + 1])
      <4>1. PICK p \in {"dlq", "persist"} : To(a, [Step(a, p) EXCEPT !.tries = handler[a].tries + 1])
        BY <3>2
      <4>2. handler[a] \in Busy BY <2>1, RestOrBusy
      <4>3. [Step(a, p) EXCEPT !.tries = handler[a].tries + 1].ev = handler[a].ev
        BY <4>2 DEF Step, Busy
      <4> QED BY <4>1, <4>3
    <3>3. To(a, Idle) \/ \E p \in {"dlq", "persist"} :
                             To(a, [Step(a, p) EXCEPT !.tries = handler[a].tries + 1])
      BY <1>6 DEF PersistFails
    <3> QED BY <3>1, <3>2, <3>3
  <2> QED BY <2>1, <2>2, BegunMoves
<1>7. ASSUME UNCHANGED <<handler, started, answered>> PROVE Begun'
  BY <1>7 DEF Begun, At
<1>8. ASSUME NEW e \in Events, Bridge(e) PROVE UNCHANGED <<handler, started, answered>>
  BY <1>8 DEF Bridge, books
<1>9. ASSUME NEW dry \in BOOLEAN, NEW dies \in BOOLEAN, ReplayPop(dry, dies)
      PROVE  UNCHANGED <<handler, started, answered>>
  BY <1>9 DEF ReplayPop
<1>10. ASSUME ReplayPush PROVE UNCHANGED <<handler, started, answered>>
  BY <1>10 DEF ReplayPush
<1>11. ASSUME NEW name, FlipSwitch(name) PROVE UNCHANGED <<handler, started, answered>>
  BY <1>11 DEF FlipSwitch, books
<1> QED BY <1>1, <1>2, <1>3, <1>4, <1>5, <1>6, <1>7, <1>8, <1>9, <1>10, <1>11 DEF EventNext

\* Both together.
EventsInv == EventInv /\ Begun

LEMMA EventsFrame == ASSUME EventsInv, UNCHANGED queueVars PROVE EventsInv'
<1>1. Begun' BY DEF EventsInv, Begun, At, queueVars, books
<1> QED BY <1>1, EventFrame DEF EventsInv

LEMMA EventsSteps == ASSUME EventsInv, EventNext PROVE EventsInv'
  BY EventSteps, BegunKeeps DEF EventsInv, EventInv

LEMMA EventsStart == ASSUME EventInit PROVE EventsInv
<1>1. \A r \in Requests : At(r, "idle") BY DEF EventInit, At, Idle, Actors
<1>2. Begun BY <1>1 DEF Begun, EventInit
<1> QED BY <1>2, EventStart DEF EventsInv

LEMMA EventsMeaning == ASSUME EventsInv PROVE EventsAreConserved /\ EventTypeOK
<1> USE DEF EventsInv, EventInv
<1>1. AnsweredAreKept
  <2> SUFFICES ASSUME NEW e \in answered PROVE Copies(e) + lost[e] + refused[e] > 0
    BY DEF AnsweredAreKept
  <2>1. e \in Events BY DEF EventTypes
  <2>2. Copies(e) + lost[e] + refused[e] = started[e] + doubled[e] BY <2>1 DEF CopiesAddUp
  <2>3. started[e] > 0 /\ started[e] \in Nat /\ doubled[e] \in Nat BY <2>1, CopyNats DEF Begun
  <2> QED BY <2>2, <2>3
<1>2. EventTypeOK BY DEF EventTypeOK, EventTypes, Bridged, At
<1> QED BY <1>1, <1>2 DEF EventsAreConserved

---------------------------------------------------------------------------
(* The notification stream: its types.                                      *)

USE DEF stream, shelf, gates, ghosts

Phases == {"idle", "feature", "dlq", "prefs", "mkprefs", "allowed", "expire", "dedupe", "seq",
           "create", "incr", "ack"}
CallPhases == {"idle", "decr", "zero", "delete", "count", "compare", "set"}
Statuses == {"unread", "read", "deleted"}
Hashes == {ev.name : ev \in Notices} \X ({ev.subject : ev \in Notices} \cup Nat)
Docs == [id : Nat, hash : Hashes, seq : Nat, status : Statuses]

StreamTypes ==
    /\ stimuli \in Nat
    /\ log \in Seq(Notices) /\ next \in 0 .. Len(log)
    /\ pending \in SUBSET (1 .. next) /\ ndlq \in SUBSET (1 .. next)
    /\ declined \in SUBSET (1 .. next)
    /\ sworker \in [StreamWorkers -> [pc : Phases, batch : Seq(1 .. next), seq : Nat]]
    /\ \A w \in StreamWorkers : sworker[w].pc = "idle" <=> sworker[w].batch = <<>>
    /\ \A w \in StreamWorkers : sworker[w].pc = "create" => sworker[w].seq \in 1 .. seqno
    /\ hasPrefs \in BOOLEAN /\ throttle \in Nat /\ seqno \in Nat /\ unread \in Int
    /\ inbox \in SUBSET Docs /\ \A d \in inbox : d.id \in 1 .. next /\ d.seq \in 1 .. seqno
    /\ call \in [Calls -> [pc : CallPhases, id : Nat, was : Statuses \cup {"none"}, n : Nat]]
    /\ dedupe \in SUBSET Hashes /\ nfaults \in Nat /\ disturbed \in BOOLEAN

\* A worker that is busy has an entry at hand.
LEMMA CurType ==
    ASSUME StreamTypes, NEW w \in StreamWorkers, sworker[w].pc # "idle"
    PROVE  /\ Cur(w) \in 1 .. next
           /\ sworker[w].batch \in Seq(1 .. next) /\ Tail(sworker[w].batch) \in Seq(1 .. next)
<1> DEFINE P == 1 .. next
<1>1. sworker[w].batch \in Seq(P) /\ sworker[w].batch # <<>> BY DEF StreamTypes
<1> HIDE DEF P
<1>2. Head(sworker[w].batch) \in P /\ Tail(sworker[w].batch) \in Seq(P)
  BY <1>1, HeadTailProperties
<1> QED BY <1>1, <1>2 DEF Cur, P

\* What the entries delivered so far hash to does not change as the log grows.
LEMMA HashStays ==
    ASSUME StreamTypes, log' = log \/ \E ev \in Notices : log' = Append(log, ev)
    PROVE  \A i \in 1 .. Len(log) : log'[i] = log[i] /\ Hash(i)' = Hash(i) /\ Hash(i) \in Hashes
<1> SUFFICES ASSUME NEW i \in 1 .. Len(log)
             PROVE  log'[i] = log[i] /\ Hash(i)' = Hash(i) /\ Hash(i) \in Hashes
  OBVIOUS
<1>1. log'[i] = log[i]
  <2>1. CASE log' = log BY <2>1
  <2>2. CASE \E ev \in Notices : log' = Append(log, ev) BY <2>2, AppendProperties DEF StreamTypes
  <2> QED BY <2>1, <2>2
<1>2. Hash(i)' = Hash(i) BY <1>1 DEF Hash
<1>3. log[i] \in Notices /\ Len(log) \in Nat BY DEF StreamTypes
<1>4. Hash(i) = <<log[i].name, IF log[i].name \in Shared THEN log[i].subject ELSE i>> BY DEF Hash
<1>5. i \in Nat BY <1>3
<1>6. Hash(i) \in Hashes BY <1>3, <1>4, <1>5 DEF Hashes
<1> QED BY <1>1, <1>2, <1>6

CurHash(w) == Hash(Cur(w))

LEMMA CurHashStays ==
    ASSUME StreamTypes, log' = log \/ \E ev \in Notices : log' = Append(log, ev),
           NEW v \in StreamWorkers, sworker[v].pc # "idle", Cur(v)' = Cur(v)
    PROVE  CurHash(v)' = CurHash(v)
<1>1. PICK i \in 1 .. Len(log) : i = Cur(v) BY CurType DEF StreamTypes
<1>2. Hash(i)' = Hash(i) BY HashStays
<1>3. Hash(Cur(v)) = Hash(i) BY <1>1
<1>4. Hash(Cur(v))' = Hash(i)' BY <1>1 DEF Hash
<1> QED BY <1>2, <1>3, <1>4 DEF CurHash

\* Worker w comes to phase q; unless it takes up or puts down a batch, it keeps the
\* entry at hand, and the other workers keep theirs.
Moves(w, q) ==
    /\ sworker' \in [StreamWorkers -> [pc : Phases, batch : Seq(1 .. next'), seq : Nat]]
    /\ \A v \in StreamWorkers : sworker'[v].pc = "idle" <=> sworker'[v].batch = <<>>
    /\ \A v \in StreamWorkers \ {w} : sworker'[v] = sworker[v]
    /\ sworker'[w].pc = q
    /\ \A v \in StreamWorkers :
         sworker[v].pc # "idle" /\ (v # w \/ q \notin {"idle", "feature"}) =>
           Cur(v)' = Cur(v) /\ CurHash(v)' = CurHash(v)
    /\ q = "create" => sworker'[w].seq \in 1 .. seqno'

LEMMA Goes1 ==
    ASSUME StreamTypes, NEW w \in StreamWorkers, sworker[w].pc # "idle",
           NEW pc \in Phases \ {"idle", "create"}, Go(w, pc), UNCHANGED <<log, next>>
    PROVE  Moves(w, pc)
<1>1. sworker' = [sworker EXCEPT ![w].pc = pc] BY DEF Go
<1> DEFINE S == Seq(1 .. next)
<1>2. sworker \in [StreamWorkers -> [pc : Phases, batch : S, seq : Nat]] BY DEF StreamTypes
<1> HIDE DEF S
<1>3. sworker' \in [StreamWorkers -> [pc : Phases, batch : S, seq : Nat]] BY <1>1, <1>2
<1>4. \A v \in StreamWorkers : /\ sworker'[v].pc = IF v = w THEN pc ELSE sworker[v].pc
                               /\ sworker'[v].batch = sworker[v].batch
                               /\ v # w => sworker'[v] = sworker[v]
  BY <1>1, <1>2
<1>5. \A v \in StreamWorkers : Cur(v)' = Cur(v) BY <1>4 DEF Cur
<1>6. \A v \in StreamWorkers : sworker[v].pc # "idle" => CurHash(v)' = CurHash(v)
  BY <1>5, CurHashStays
<1>7. \A v \in StreamWorkers : sworker'[v].pc = "idle" <=> sworker'[v].batch = <<>>
  BY <1>4 DEF StreamTypes
<1>8. sworker' \in [StreamWorkers -> [pc : Phases, batch : Seq(1 .. next'), seq : Nat]]
  BY <1>3 DEF S
<1> QED BY <1>4, <1>5, <1>6, <1>7, <1>8 DEF Moves

LEMMA TakesBatch ==
    ASSUME StreamTypes, NEW w \in StreamWorkers, next' \in Nat, next <= next', log' = log,
           NEW rec \in {NoWork} \cup {Begin(ids) : ids \in Seq(1 .. next') \ {<<>>}},
           sworker' = [sworker EXCEPT ![w] = rec]
    PROVE  \E q \in {"idle", "feature"} : Moves(w, q)
<1> DEFINE S == Seq(1 .. next')
<1>0. next \in Nat /\ 1 .. next \in SUBSET (1 .. next') BY DEF StreamTypes
<1>1. sworker \in [StreamWorkers -> [pc : Phases, batch : S, seq : Nat]]
  <2>1. Seq(1 .. next) \in SUBSET S BY <1>0
  <2> HIDE DEF S
  <2> QED BY <2>1 DEF StreamTypes
<1>2. rec \in [pc : Phases, batch : S, seq : Nat] /\ rec.pc \in {"idle", "feature"}
      /\ (rec.pc = "idle" <=> rec.batch = <<>>)
  <2>1. <<>> \in S OBVIOUS
  <2> HIDE DEF S
  <2>2. CASE rec = NoWork BY <2>1, <2>2 DEF NoWork, Phases
  <2>3. CASE \E ids \in S \ {<<>>} : rec = Begin(ids) BY <2>3 DEF Begin, Phases
  <2> QED BY <2>2, <2>3 DEF S
<1> HIDE DEF S
<1>3. sworker' \in [StreamWorkers -> [pc : Phases, batch : S, seq : Nat]] BY <1>1, <1>2
<1>4. sworker'[w] = rec /\ \A v \in StreamWorkers \ {w} : sworker'[v] = sworker[v]
  BY <1>1
<1>5. \A v \in StreamWorkers \ {w} : Cur(v)' = Cur(v) BY <1>4 DEF Cur
<1>6. \A v \in StreamWorkers \ {w} : sworker[v].pc # "idle" => CurHash(v)' = CurHash(v)
  BY <1>5, CurHashStays
<1>7. \A v \in StreamWorkers : sworker'[v].pc = "idle" <=> sworker'[v].batch = <<>>
  BY <1>2, <1>4 DEF StreamTypes
<1>8. sworker' \in [StreamWorkers -> [pc : Phases, batch : Seq(1 .. next'), seq : Nat]]
  BY <1>3 DEF S
<1> QED BY <1>2, <1>4, <1>5, <1>6, <1>7, <1>8 DEF Moves

---------------------------------------------------------------------------
(* One notice per hash, and who pays for the notices that are missing.      *)

\* The dedupe key of a hash is set before anything is written for it: every document,
\* and every worker between key and document, has the key of its hash, and no two of
\* them share a hash.
Recorded == \A d \in inbox : d.hash = Hash(d.id) /\ d.hash \in dedupe
Taken == \A w \in StreamWorkers : sworker[w].pc \in {"seq", "create"} =>
            CurHash(w) \in dedupe /\ \A d \in inbox : d.hash # CurHash(w)
Alone == \A v, w \in StreamWorkers :
            sworker[v].pc \in {"seq", "create"} /\ sworker[w].pc \in {"seq", "create"} /\ v # w =>
               CurHash(v) # CurHash(w)
Written == \A w \in StreamWorkers : sworker[w].pc = "incr" => \E d \in inbox : d.hash = CurHash(w)
Deduped == Recorded /\ OneNoticePerHash /\ Taken /\ Alone /\ Written

\* A hash is spoilt when there is no document of it, nobody is about to write one, and
\* its key is set or an entry of it is settled: acknowledged or about to be, but
\* neither declined nor dead-lettered.
NoDoc(h) == \A d \in inbox : d.hash # h
Flying(h) == \E w \in StreamWorkers : sworker[w].pc \in {"seq", "create"} /\ CurHash(w) = h
Settled(i) ==
    /\ i \notin ndlq /\ i \notin declined
    /\ i \notin pending \/ \E w \in StreamWorkers : sworker[w].pc = "ack" /\ Cur(w) = i
Spoilt(h) ==
    /\ NoDoc(h) /\ ~ Flying(h)
    /\ h \in dedupe \/ \E i \in 1 .. next : Settled(i) /\ Hash(i) = h
Bad == {h \in Hashes : Spoilt(h)}
Paid == IsFiniteSet(Bad) /\ Cardinality(Bad) <= nfaults

LEMMA PaidKept ==
    ASSUME StreamTypes, Paid, \A h \in Hashes : Spoilt(h)' => Spoilt(h), nfaults' = nfaults
    PROVE  Paid'
<1>1. Bad' \in SUBSET Bad BY DEF Bad
<1>2. IsFiniteSet(Bad') /\ Cardinality(Bad') <= Cardinality(Bad) BY <1>1, FS_Subset DEF Paid
<1>3. Cardinality(Bad) \in Nat /\ Cardinality(Bad') \in Nat BY <1>2, FS_CardinalityType DEF Paid
<1> QED BY <1>2, <1>3 DEF Paid, StreamTypes

LEMMA PaidBy ==
    ASSUME StreamTypes, Paid, NEW x, \A h \in Hashes : Spoilt(h)' => Spoilt(h) \/ h = x,
           nfaults' = nfaults + 1
    PROVE  Paid'
<1>1. Bad' \in SUBSET (Bad \cup {x}) BY DEF Bad
<1>2. IsFiniteSet(Bad \cup {x})
      /\ Cardinality(Bad \cup {x}) = IF x \in Bad THEN Cardinality(Bad) ELSE Cardinality(Bad) + 1
  BY FS_AddElement DEF Paid
<1>3. IsFiniteSet(Bad') /\ Cardinality(Bad') <= Cardinality(Bad \cup {x}) BY <1>1, <1>2, FS_Subset
<1>4. Cardinality(Bad) \in Nat /\ Cardinality(Bad') \in Nat BY <1>3, FS_CardinalityType DEF Paid
<1>5. Cardinality(Bad) <= nfaults BY DEF Paid
<1>6. Cardinality(Bad') <= nfaults' BY <1>2, <1>3, <1>4, <1>5 DEF StreamTypes
<1> QED BY <1>3, <1>6 DEF Paid

LEMMA DedupedMoves ==
    ASSUME StreamTypes, Deduped, NEW w \in StreamWorkers, NEW q \in Phases, Moves(w, q),
           q \in {"seq", "create"} => sworker[w].pc \in {"seq", "create"}, q # "incr",
           UNCHANGED <<inbox, dedupe, log>>
    PROVE  Deduped'
<1>1. \A i \in 1 .. Len(log) : Hash(i)' = Hash(i) BY HashStays
<1>2. \A d \in inbox : d.id \in 1 .. Len(log) BY DEF StreamTypes
<1>3. Recorded' BY <1>1, <1>2 DEF Deduped, Recorded
<1>4. OneNoticePerHash' BY DEF Deduped, OneNoticePerHash
<1>5. \A v \in StreamWorkers : sworker'[v].pc \in {"seq", "create"} =>
         sworker[v].pc \in {"seq", "create"} /\ CurHash(v)' = CurHash(v)
  BY DEF Moves
<1>6. Taken' BY <1>5 DEF Deduped, Taken
<1>7. Alone' BY <1>5 DEF Deduped, Alone
<1>8. Written' BY DEF Deduped, Written, Moves
<1> QED BY <1>3, <1>4, <1>6, <1>7, <1>8 DEF Deduped

\* A fault of a worker spoils at most the hash it had at hand.
LEMMA FaultSpoils ==
    ASSUME StreamTypes, NEW w \in StreamWorkers, sworker[w].pc # "idle",
           NEW q \in Phases \ {"seq", "create"}, Moves(w, q),
           UNCHANGED <<log, next, inbox, dedupe>>,
           ndlq \in SUBSET ndlq', declined \in SUBSET declined',
           pending' = pending \/ pending' = pending \ {Cur(w)}
    PROVE  \A h \in Hashes : Spoilt(h)' => Spoilt(h) \/ h = CurHash(w)
<1> SUFFICES ASSUME NEW h \in Hashes, Spoilt(h)', h # CurHash(w) PROVE Spoilt(h)
  OBVIOUS
<1>1. NoDoc(h) BY DEF Spoilt, NoDoc
<1>2. ~ Flying(h)
  <2>1. ASSUME NEW v \in StreamWorkers, sworker[v].pc \in {"seq", "create"}, CurHash(v) = h PROVE FALSE
    <3>1. v # w BY <2>1
    <3>2. sworker'[v] = sworker[v] /\ CurHash(v)' = CurHash(v) BY <2>1, <3>1 DEF Moves
    <3>3. Flying(h)' BY <2>1, <3>2 DEF Flying
    <3> QED BY <3>3 DEF Spoilt
  <2> QED BY <2>1 DEF Flying
<1>3. CASE h \in dedupe BY <1>1, <1>2, <1>3 DEF Spoilt
<1>4. CASE h \notin dedupe
  <2>1. PICK i \in 1 .. next : Settled(i)' /\ Hash(i)' = h BY <1>4 DEF Spoilt
  <2>2. Hash(i)' = Hash(i)
    <3>1. i \in 1 .. Len(log) BY DEF StreamTypes
    <3>2. log' = log OBVIOUS
    <3> QED BY <3>1, <3>2, HashStays
  <2>3. i # Cur(w) BY <2>1, <2>2 DEF CurHash
  <2>4. Settled(i)
    <3>1. i \notin ndlq /\ i \notin declined BY <2>1 DEF Settled
    <3>2. CASE i \notin pending BY <3>1, <3>2 DEF Settled
    <3>3. CASE i \in pending
      <4>1. PICK v \in StreamWorkers : sworker'[v].pc = "ack" /\ Cur(v)' = i
        BY <2>1, <2>3, <3>3 DEF Settled
      <4>2. v # w BY <2>3, <4>1 DEF Moves
      <4>3. sworker[v].pc = "ack" /\ Cur(v) = i BY <4>1, <4>2 DEF Moves
      <4> QED BY <3>1, <4>3 DEF Settled
    <3> QED BY <3>2, <3>3
  <2> QED BY <1>1, <1>2, <2>1, <2>2, <2>4 DEF Spoilt
<1> QED BY <1>3, <1>4

\* A worker that moves on without a fault spoils nothing: what it settles was settled,
\* or is declined, dead-lettered or the hash of a document or of another worker.
LEMMA NothingSpoils ==
    ASSUME StreamTypes, NEW w \in StreamWorkers, sworker[w].pc \notin {"idle", "seq", "create"},
           NEW q \in Phases \ {"seq", "create"}, Moves(w, q),
           UNCHANGED <<log, next, inbox, dedupe>>,
           ndlq \in SUBSET ndlq', declined \in SUBSET declined',
           pending' = pending \/ pending' = pending \ {Cur(w)},
           q = "ack" \/ pending' # pending =>
              \/ Cur(w) \in ndlq' \cup declined' \/ sworker[w].pc \in {"ack", "incr"}
              \/ CurHash(w) \in dedupe,
           sworker[w].pc = "incr" => ~ NoDoc(CurHash(w))
    PROVE  \A h \in Hashes : Spoilt(h)' => Spoilt(h)
<1> SUFFICES ASSUME NEW h \in Hashes, Spoilt(h)' PROVE Spoilt(h)
  OBVIOUS
<1>1. NoDoc(h) BY DEF Spoilt, NoDoc
<1>2. ~ Flying(h)
  <2>1. ASSUME NEW v \in StreamWorkers, sworker[v].pc \in {"seq", "create"}, CurHash(v) = h PROVE FALSE
    <3>1. v # w BY <2>1
    <3>2. sworker'[v] = sworker[v] /\ CurHash(v)' = CurHash(v) BY <2>1, <3>1 DEF Moves
    <3>3. Flying(h)' BY <2>1, <3>2 DEF Flying
    <3> QED BY <3>3 DEF Spoilt
  <2> QED BY <2>1 DEF Flying
<1>3. CASE h \in dedupe BY <1>1, <1>2, <1>3 DEF Spoilt
<1>4. CASE h \notin dedupe
  <2>1. PICK i \in 1 .. next : Settled(i)' /\ Hash(i)' = h BY <1>4 DEF Spoilt
  <2>2. Hash(i)' = Hash(i)
    <3>1. i \in 1 .. Len(log) BY DEF StreamTypes
    <3>2. log' = log OBVIOUS
    <3> QED BY <3>1, <3>2, HashStays
  <2>4. Settled(i)
    <3>1. i \notin ndlq' /\ i \notin declined' /\ i \notin ndlq /\ i \notin declined BY <2>1 DEF Settled
    <3>2. CASE i \notin pending BY <3>1, <3>2 DEF Settled
    <3>3. CASE i \in pending /\ i # Cur(w)
      <4>1. PICK v \in StreamWorkers : sworker'[v].pc = "ack" /\ Cur(v)' = i
        BY <2>1, <3>3 DEF Settled
      <4>2. v # w BY <3>3, <4>1 DEF Moves
      <4>3. sworker[v].pc = "ack" /\ Cur(v) = i BY <4>1, <4>2 DEF Moves
      <4> QED BY <3>1, <4>3 DEF Settled
    <3>4. CASE i \in pending /\ i = Cur(w) /\ (q = "ack" \/ pending' # pending)
      <4>1. CurHash(w) = h BY <2>1, <2>2, <3>4 DEF CurHash
      <4>2. sworker[w].pc = "ack" BY <1>1, <1>4, <3>1, <3>4, <4>1
      <4> QED BY <3>1, <3>4, <4>2 DEF Settled
    <3>5. CASE i \in pending /\ i = Cur(w) /\ q # "ack" /\ pending' = pending
      <4>1. PICK v \in StreamWorkers : sworker'[v].pc = "ack" /\ Cur(v)' = i
        BY <2>1, <3>5 DEF Settled
      <4>2. v # w BY <3>5, <4>1 DEF Moves
      <4>3. sworker[v].pc = "ack" /\ Cur(v) = i BY <4>1, <4>2 DEF Moves
      <4> QED BY <3>1, <4>3 DEF Settled
    <3> QED BY <3>2, <3>3, <3>4, <3>5
  <2> QED BY <1>1, <1>2, <2>1, <2>2, <2>4 DEF Spoilt
<1> QED BY <1>3, <1>4

---------------------------------------------------------------------------
(* One lemma per step of a worker.                                          *)

StreamBase == StreamTypes /\ Deduped /\ Paid

LEMMA WorkerTypes ==
    ASSUME StreamTypes, NEW w \in StreamWorkers, NEW q \in Phases, Moves(w, q),
           stimuli' \in Nat, log' = log, next' \in 0 .. Len(log), next <= next',
           pending' \in SUBSET (1 .. next'), ndlq' \in SUBSET (1 .. next'),
           declined' \in SUBSET (1 .. next'), hasPrefs' \in BOOLEAN, throttle' \in Nat,
           seqno' \in Nat, seqno <= seqno', unread' \in Int,
           inbox' \in SUBSET Docs, \A d \in inbox' : d.id \in 1 .. next' /\ d.seq \in 1 .. seqno',
           dedupe' \in SUBSET Hashes, nfaults' \in Nat, disturbed' \in BOOLEAN, call' = call
    PROVE  StreamTypes'
<1>1. sworker' \in [StreamWorkers -> [pc : Phases, batch : Seq(1 .. next'), seq : Nat]]
      /\ \A v \in StreamWorkers : sworker'[v].pc = "idle" <=> sworker'[v].batch = <<>>
  BY DEF Moves
<1>2. \A v \in StreamWorkers : sworker'[v].pc = "create" => sworker'[v].seq \in 1 .. seqno'
  <2> SUFFICES ASSUME NEW v \in StreamWorkers, sworker'[v].pc = "create"
               PROVE  sworker'[v].seq \in 1 .. seqno'
    OBVIOUS
  <2>1. CASE v = w BY <2>1 DEF Moves
  <2>2. CASE v # w
    <3>1. sworker'[v] = sworker[v] BY <2>2 DEF Moves
    <3>2. sworker[v].seq \in 1 .. seqno BY <3>1 DEF StreamTypes
    <3> QED BY <3>1, <3>2 DEF StreamTypes
  <2> QED BY <2>1, <2>2
<1> QED BY <1>1, <1>2 DEF StreamTypes

\* A worker goes on, or a fault stops its entry.
LEMMA WorkerGoes ==
    ASSUME StreamBase, NEW w \in StreamWorkers, sworker[w].pc # "idle",
           NEW q \in Phases \ {"seq", "create", "incr"}, Moves(w, q),
           stimuli' \in Nat, hasPrefs' \in BOOLEAN, throttle' \in Nat, unread' \in Int,
           disturbed' \in BOOLEAN,
           ndlq \in SUBSET ndlq', ndlq' \in SUBSET (1 .. next),
           declined \in SUBSET declined', declined' \in SUBSET (1 .. next),
           pending' = pending \/ pending' = pending \ {Cur(w)},
           UNCHANGED <<log, next, seqno, inbox, dedupe, call>>,
           \/ nfaults' = nfaults + 1
           \/ /\ nfaults' = nfaults /\ sworker[w].pc \notin {"seq", "create"}
              /\ q = "ack" \/ pending' # pending =>
                    \/ Cur(w) \in ndlq' \cup declined' \/ sworker[w].pc \in {"ack", "incr"}
                    \/ CurHash(w) \in dedupe
    PROVE  StreamBase'
<1>1. StreamTypes'
  <2>1. /\ log' = log /\ next' \in 0 .. Len(log) /\ next <= next'
        /\ seqno' \in Nat /\ seqno <= seqno' /\ inbox' \in SUBSET Docs
        /\ \A d \in inbox' : d.id \in 1 .. next' /\ d.seq \in 1 .. seqno'
        /\ dedupe' \in SUBSET Hashes /\ call' = call
    BY DEF StreamBase, StreamTypes
  <2>2. pending' \in SUBSET (1 .. next') /\ ndlq' \in SUBSET (1 .. next')
        /\ declined' \in SUBSET (1 .. next') /\ nfaults' \in Nat
    <3>1. next' = next /\ pending \in SUBSET (1 .. next) /\ nfaults \in Nat
      BY DEF StreamBase, StreamTypes
    <3>2. pending' \in SUBSET (1 .. next)
      <4>1. CASE pending' = pending BY <3>1, <4>1
      <4>2. CASE pending' = pending \ {Cur(w)} BY <3>1, <4>2
      <4> QED BY <4>1, <4>2
    <3>3. nfaults' \in Nat BY <3>1
    <3> QED BY <3>1, <3>2, <3>3
  <2> QED BY <2>1, <2>2, WorkerTypes DEF StreamBase
<1>2. Deduped' BY DedupedMoves DEF StreamBase
<1>3. CASE nfaults' = nfaults + 1
  <2>1. \A h \in Hashes : Spoilt(h)' => Spoilt(h) \/ h = CurHash(w) BY FaultSpoils DEF StreamBase
  <2>2. Paid' BY <1>3, <2>1, PaidBy DEF StreamBase
  <2> QED BY <1>1, <1>2, <2>2 DEF StreamBase
<1>4. CASE /\ nfaults' = nfaults /\ sworker[w].pc \notin {"seq", "create"}
           /\ q = "ack" \/ pending' # pending =>
                    \/ Cur(w) \in ndlq' \cup declined' \/ sworker[w].pc \in {"ack", "incr"}
                    \/ CurHash(w) \in dedupe
  <2>1. sworker[w].pc = "incr" => ~ NoDoc(CurHash(w))
    BY DEF StreamBase, Deduped, Written, NoDoc
  <2>2. \A h \in Hashes : Spoilt(h)' => Spoilt(h) BY <1>4, <2>1, NothingSpoils DEF StreamBase
  <2>3. Paid' BY <1>4, <2>2, PaidKept DEF StreamBase
  <2> QED BY <1>1, <1>2, <2>3 DEF StreamBase
<1> QED BY <1>3, <1>4

\* A worker that puts its batch down.
LEMMA PutsDown ==
    ASSUME StreamTypes, NEW w \in StreamWorkers, UNCHANGED <<log, next>>,
           sworker' = [sworker EXCEPT ![w] = NoWork]
    PROVE  \E q \in {"idle", "feature"} : Moves(w, q)
<1>1. next' \in Nat /\ next <= next' BY DEF StreamTypes
<1>2. NoWork \in {NoWork} \cup {Begin(ids) : ids \in Seq(1 .. next') \ {<<>>}} OBVIOUS
<1> QED BY <1>1, <1>2, TakesBatch

LEMMA StreamNats ==
    ASSUME StreamBase
    PROVE  /\ stimuli \in Nat /\ hasPrefs \in BOOLEAN /\ throttle \in Nat /\ unread \in Int
           /\ disturbed \in BOOLEAN /\ nfaults \in Nat /\ seqno \in Nat /\ next \in Nat
           /\ ndlq \in SUBSET (1 .. next) /\ declined \in SUBSET (1 .. next)
           /\ pending \in SUBSET (1 .. next)
  BY DEF StreamBase, StreamTypes

LEMMA CheckFeatureKeeps ==
    ASSUME StreamBase, NEW w \in StreamWorkers, CheckFeature(w) PROVE StreamBase'
<1>1. sworker[w].pc = "feature" /\ UNCHANGED <<stream, ndlq, gates, shelf, call>>
  BY DEF CheckFeature
<1>2. CASE Go(w, "prefs") /\ UNCHANGED <<stimuli, ghosts>>
  <2>1. Moves(w, "prefs") BY <1>1, <1>2, Goes1 DEF StreamBase, Phases
  <2> QED BY <1>1, <1>2, <2>1, WorkerGoes, StreamNats DEF Phases
<1>3. CASE Spend(1) /\ Decline(w) /\ UNCHANGED <<nfaults, disturbed>>
  <2>1. Moves(w, "ack") BY <1>1, <1>3, Goes1 DEF StreamBase, Phases, Decline
  <2>2. Cur(w) \in 1 .. next BY <1>1, CurType DEF StreamBase
  <2>3. stimuli' \in Nat BY <1>3, StreamNats DEF Spend
  <2> QED BY <1>1, <1>3, <2>1, <2>2, <2>3, WorkerGoes, StreamNats DEF Phases, Decline
<1>4. CASE Spend(1) /\ Go(w, "dlq") /\ UNCHANGED ghosts
  <2>1. Moves(w, "dlq") BY <1>1, <1>4, Goes1 DEF StreamBase, Phases
  <2>2. stimuli' \in Nat BY <1>4, StreamNats DEF Spend
  <2> QED BY <1>1, <1>4, <2>1, <2>2, WorkerGoes, StreamNats DEF Phases
<1> QED BY <1>2, <1>3, <1>4 DEF CheckFeature

LEMMA DeadLetterKeeps1 ==
    ASSUME StreamBase, NEW w \in StreamWorkers, DeadLetter(w) PROVE StreamBase'
<1>1. sworker[w].pc = "dlq" /\ ndlq' = ndlq \cup {Cur(w)} /\ Go(w, "ack")
      /\ UNCHANGED <<stimuli, stream, gates, shelf, call, ghosts>>
  BY DEF DeadLetter
<1>2. Moves(w, "ack") BY <1>1, Goes1 DEF StreamBase, Phases
<1>3. Cur(w) \in 1 .. next BY <1>1, CurType DEF StreamBase
<1> QED BY <1>1, <1>2, <1>3, WorkerGoes, StreamNats DEF Phases

LEMMA DeadLetterFailsKeeps ==
    ASSUME StreamBase, NEW w \in StreamWorkers, DeadLetterFails(w) PROVE StreamBase'
<1>1. sworker[w].pc = "dlq" /\ Spend(1) /\ pending' = pending \ {Cur(w)} /\ nfaults' = nfaults + 1
      /\ sworker' = [sworker EXCEPT ![w] = NoWork]
      /\ UNCHANGED <<log, next, ndlq, gates, shelf, call, declined, disturbed>>
  BY DEF DeadLetterFails
<1>2. PICK q \in {"idle", "feature"} : Moves(w, q) BY <1>1, PutsDown DEF StreamBase
<1>3. stimuli' \in Nat BY <1>1, StreamNats DEF Spend
<1> QED BY <1>1, <1>2, <1>3, WorkerGoes, StreamNats DEF Phases

LEMMA FindPrefsKeeps ==
    ASSUME StreamBase, NEW w \in StreamWorkers, FindPrefs(w) PROVE StreamBase'
<1>1. sworker[w].pc = "prefs" /\ UNCHANGED <<stream, ndlq, gates, shelf, call, declined, disturbed>>
  BY DEF FindPrefs
<1>2. ASSUME NEW q \in {"allowed", "mkprefs"}, Go(w, q), UNCHANGED <<stimuli, nfaults>>
      PROVE  StreamBase'
  <2>1. Moves(w, q) BY <1>1, <1>2, Goes1 DEF StreamBase, Phases
  <2> QED BY <1>1, <1>2, <2>1, WorkerGoes, StreamNats DEF Phases
<1>3. CASE Swallow(w)
  <2>1. Moves(w, "ack") BY <1>1, <1>3, Goes1 DEF StreamBase, Phases, Swallow
  <2>2. stimuli' \in Nat /\ nfaults' = nfaults + 1 BY <1>3, StreamNats DEF Spend, Swallow
  <2> QED BY <1>1, <2>1, <2>2, WorkerGoes, StreamNats DEF Phases
<1> QED BY <1>2, <1>3 DEF FindPrefs

LEMMA MakePrefsKeeps ==
    ASSUME StreamBase, NEW w \in StreamWorkers, MakePrefs(w) PROVE StreamBase'
<1>1. /\ sworker[w].pc = "mkprefs" /\ hasPrefs' = TRUE
      /\ nfaults' = nfaults + IF hasPrefs THEN 1 ELSE 0
      /\ Go(w, IF hasPrefs THEN "ack" ELSE "allowed")
      /\ UNCHANGED <<stimuli, stream, ndlq, muted, throttle, window, dedupe, shelf, call,
                     declined, disturbed>>
  BY DEF MakePrefs
<1>2. CASE hasPrefs
  <2>1. Moves(w, "ack") BY <1>1, <1>2, Goes1 DEF StreamBase, Phases
  <2> QED BY <1>1, <1>2, <2>1, WorkerGoes, StreamNats DEF Phases
<1>3. CASE ~ hasPrefs
  <2>1. Moves(w, "allowed") BY <1>1, <1>3, Goes1 DEF StreamBase, Phases
  <2>2. nfaults' = nfaults BY <1>1, <1>3, StreamNats
  <2> QED BY <1>1, <2>1, <2>2, WorkerGoes, StreamNats DEF Phases
<1> QED BY <1>2, <1>3

LEMMA ThrottleKeeps ==
    ASSUME StreamBase, NEW w \in StreamWorkers, Throttle(w) PROVE StreamBase'
<1>1. /\ sworker[w].pc = "allowed"
      /\ UNCHANGED <<stimuli, stream, ndlq, hasPrefs, muted, window, dedupe, shelf,
                     call, nfaults, disturbed>>
  BY DEF Throttle
<1>2. throttle' \in Nat BY StreamNats DEF Throttle
<1>3. CASE Decline(w)
  <2>1. Moves(w, "ack") BY <1>1, <1>3, Goes1 DEF StreamBase, Phases, Decline
  <2>2. Cur(w) \in 1 .. next BY <1>1, CurType DEF StreamBase
  <2> QED BY <1>1, <1>2, <1>3, <2>1, <2>2, WorkerGoes, StreamNats DEF Phases, Decline
<1>4. ASSUME NEW q \in {"expire", "dedupe"}, Go(w, q), UNCHANGED declined PROVE StreamBase'
  <2>1. Moves(w, q) BY <1>1, <1>4, Goes1 DEF StreamBase, Phases
  <2> QED BY <1>1, <1>2, <1>4, <2>1, WorkerGoes, StreamNats DEF Phases
<1> QED BY <1>3, <1>4 DEF Throttle

LEMMA SetWindowKeeps ==
    ASSUME StreamBase, NEW w \in StreamWorkers, SetWindow(w) PROVE StreamBase'
<1>1. /\ sworker[w].pc = "expire" /\ Go(w, "dedupe")
      /\ UNCHANGED <<stimuli, stream, ndlq, hasPrefs, muted, throttle, dedupe, shelf,
                     call, ghosts>>
  BY DEF SetWindow
<1>2. Moves(w, "dedupe") BY <1>1, Goes1 DEF StreamBase, Phases
<1> QED BY <1>1, <1>2, WorkerGoes, StreamNats DEF Phases

LEMMA CountUnreadKeeps ==
    ASSUME StreamBase, NEW w \in StreamWorkers, CountUnread(w) PROVE StreamBase'
<1>1. sworker[w].pc = "incr" /\ Go(w, "ack") /\ UNCHANGED <<stream, ndlq, gates, seqno, inbox, call, declined>>
  BY DEF CountUnread, Swallow
<1>2. stimuli' \in Nat /\ unread' \in Int /\ disturbed' \in BOOLEAN
      /\ (nfaults' = nfaults \/ nfaults' = nfaults + 1)
  <2>1. Badge \in Int BY StreamNats DEF Badge
  <2>2. CASE unread' = Badge + 1 /\ UNCHANGED <<stimuli, nfaults, disturbed>> BY <2>1, <2>2, StreamNats
  <2>3. CASE Swallow(w) /\ disturbed' = TRUE /\ UNCHANGED unread BY <2>3, StreamNats DEF Swallow, Spend
  <2> QED BY <2>2, <2>3 DEF CountUnread
<1>3. Moves(w, "ack") BY <1>1, Goes1 DEF StreamBase, Phases
<1> QED BY <1>1, <1>2, <1>3, WorkerGoes, StreamNats DEF Phases

LEMMA AckKeeps ==
    ASSUME StreamBase, NEW w \in StreamWorkers, Ack(w) PROVE StreamBase'
<1> DEFINE rest == Tail(sworker[w].batch)
<1>1. sworker[w].pc = "ack" /\ UNCHANGED <<log, next, ndlq, gates, shelf, call, ghosts>>
  BY DEF Ack
<1>2. rest \in Seq(1 .. next) BY <1>1, CurType DEF StreamBase
<1>3. /\ sworker' = [sworker EXCEPT ![w] = IF rest = <<>> THEN NoWork ELSE Begin(rest)]
         \/ sworker' = [sworker EXCEPT ![w] = NoWork]
      /\ pending' = pending \/ pending' = pending \ {Cur(w)}
      /\ stimuli' \in Nat
  BY StreamNats DEF Ack, Spend
<1> HIDE DEF rest
<1>4. PICK rec \in {NoWork} \cup {Begin(ids) : ids \in Seq(1 .. next') \ {<<>>}} :
             sworker' = [sworker EXCEPT ![w] = rec]
  BY <1>1, <1>2, <1>3
<1>5. PICK q \in {"idle", "feature"} : Moves(w, q)
  <2>1. next' \in Nat /\ next <= next' /\ log' = log BY <1>1, StreamNats
  <2> QED BY <1>4, <2>1, TakesBatch DEF StreamBase
<1> QED BY <1>1, <1>3, <1>5, WorkerGoes, StreamNats DEF Phases

LEMMA StreamCrashKeeps ==
    ASSUME StreamBase, NEW w \in StreamWorkers, StreamCrash(w) PROVE StreamBase'
<1>1. sworker[w].pc # "idle" /\ nfaults' = nfaults + 1 /\ disturbed' \in BOOLEAN /\ stimuli' \in Nat
      /\ sworker' = [sworker EXCEPT ![w] = NoWork]
      /\ UNCHANGED <<stream, ndlq, gates, shelf, call, declined>>
  BY StreamNats DEF StreamCrash, Spend
<1>2. PICK q \in {"idle", "feature"} : Moves(w, q) BY <1>1, PutsDown DEF StreamBase
<1> QED BY <1>1, <1>2, WorkerGoes, StreamNats DEF Phases

LEMMA DedupeKeeps ==
    ASSUME StreamBase, NEW w \in StreamWorkers, Dedupe(w) PROVE StreamBase'
<1>1. /\ sworker[w].pc = "dedupe" /\ dedupe' = dedupe \cup {CurHash(w)}
      /\ Go(w, IF CurHash(w) \in dedupe THEN "ack" ELSE "seq")
      /\ UNCHANGED <<stimuli, stream, ndlq, hasPrefs, muted, throttle, window, shelf, call, ghosts>>
  BY DEF Dedupe, CurHash
<1>2. CASE CurHash(w) \in dedupe
  <2>1. Moves(w, "ack") BY <1>1, <1>2, Goes1 DEF StreamBase, Phases
  <2>2. dedupe' = dedupe BY <1>1, <1>2
  <2> QED BY <1>1, <1>2, <2>1, <2>2, WorkerGoes, StreamNats DEF Phases
<1>3. CASE CurHash(w) \notin dedupe
  <2>1. Moves(w, "seq") BY <1>1, <1>3, Goes1 DEF StreamBase, Phases
  <2>2. \A i \in 1 .. Len(log) : Hash(i)' = Hash(i) /\ Hash(i) \in Hashes
    BY <1>1, HashStays DEF StreamBase
  <2>3. CurHash(w) \in Hashes
    <3>1. Cur(w) \in 1 .. Len(log) BY <1>1, CurType DEF StreamBase, StreamTypes
    <3> QED BY <2>2, <3>1 DEF CurHash
  <2>4. StreamTypes'
    <3>1. /\ log' = log /\ next' \in 0 .. Len(log) /\ next <= next'
          /\ seqno' \in Nat /\ seqno <= seqno' /\ inbox' \in SUBSET Docs
          /\ \A d \in inbox' : d.id \in 1 .. next' /\ d.seq \in 1 .. seqno'
          /\ dedupe' \in SUBSET Hashes /\ call' = call
      BY <1>1, <2>3 DEF StreamBase, StreamTypes
    <3> QED BY <1>1, <2>1, <3>1, WorkerTypes, StreamNats DEF StreamBase, Phases
  <2>5. Recorded'
    <3>1. \A d \in inbox : d.id \in 1 .. Len(log) BY DEF StreamBase, StreamTypes
    <3> QED BY <1>1, <2>2, <3>1 DEF StreamBase, Deduped, Recorded
  <2>6. OneNoticePerHash' BY <1>1 DEF StreamBase, Deduped, OneNoticePerHash
  <2>7. \A v \in StreamWorkers \ {w} : sworker'[v].pc = sworker[v].pc
          /\ (sworker[v].pc # "idle" => CurHash(v)' = CurHash(v) /\ Cur(v)' = Cur(v))
    BY <2>1 DEF Moves
  <2>8. sworker'[w].pc = "seq" /\ CurHash(w)' = CurHash(w) BY <1>1, <2>1 DEF Moves
  <2>9. \A d \in inbox : d.hash # CurHash(w) BY <1>3 DEF StreamBase, Deduped, Recorded
  <2>10. Taken' BY <1>1, <2>7, <2>8, <2>9 DEF StreamBase, Deduped, Taken
  <2>11. Alone' BY <1>1, <1>3, <2>7, <2>8 DEF StreamBase, Deduped, Taken, Alone
  <2>12. Written' BY <1>1, <2>7, <2>8 DEF StreamBase, Deduped, Written
  <2>13. ASSUME NEW h \in Hashes, Spoilt(h)' PROVE Spoilt(h)
    <3>1. NoDoc(h) BY <1>1, <2>13 DEF Spoilt, NoDoc
    <3>2. ~ Flying(h) /\ h # CurHash(w)
      BY <1>1, <2>7, <2>8, <2>13 DEF Spoilt, Flying
    <3>3. CASE h \in dedupe BY <3>1, <3>2, <3>3 DEF Spoilt
    <3>4. CASE h \notin dedupe
      <4>1. PICK i \in 1 .. next : Settled(i)' /\ Hash(i)' = h BY <1>1, <2>13, <3>2, <3>4 DEF Spoilt
      <4>2. Settled(i) BY <1>1, <2>7, <2>8, <4>1 DEF Settled
      <4>3. Hash(i) = h BY <2>2, <4>1 DEF StreamBase, StreamTypes
      <4> QED BY <3>1, <3>2, <4>1, <4>2, <4>3 DEF Spoilt
    <3> QED BY <3>3, <3>4
  <2>14. nfaults' = nfaults BY <1>1
  <2>15. Paid' BY <2>13, <2>14, PaidKept DEF StreamBase
  <2> QED BY <2>4, <2>5, <2>6, <2>10, <2>11, <2>12, <2>15 DEF StreamBase, Deduped
<1> QED BY <1>2, <1>3

LEMMA NextSeqKeeps ==
    ASSUME StreamBase, NEW w \in StreamWorkers, NextSeq(w) PROVE StreamBase'
<1>1. /\ sworker[w].pc = "seq" /\ seqno' = seqno + 1
      /\ sworker' = [sworker EXCEPT ![w].pc = "create", ![w].seq = seqno + 1]
      /\ UNCHANGED <<stimuli, stream, ndlq, gates, inbox, unread, call, ghosts>>
  BY DEF NextSeq
<1> DEFINE S == Seq(1 .. next)
<1>2. Moves(w, "create")
  <2>1. sworker \in [StreamWorkers -> [pc : Phases, batch : S, seq : Nat]] /\ seqno \in Nat
    BY DEF StreamBase, StreamTypes
  <2> HIDE DEF S
  <2> DEFINE r == [sworker[w] EXCEPT !.pc = "create", !.seq = seqno + 1]
  <2>a. sworker' = [sworker EXCEPT ![w] = r] BY <1>1, <2>1
  <2>b. r \in [pc : Phases, batch : S, seq : Nat]
    <3>1. "create" \in Phases /\ seqno + 1 \in Nat BY <2>1 DEF Phases
    <3> QED BY <2>1, <3>1
  <2> HIDE DEF r
  <2>2. sworker' \in [StreamWorkers -> [pc : Phases, batch : S, seq : Nat]] BY <2>1, <2>a, <2>b
  <2>3. /\ sworker'[w].pc = "create" /\ sworker'[w].batch = sworker[w].batch
        /\ sworker'[w].seq = seqno + 1
        /\ \A v \in StreamWorkers \ {w} : sworker'[v] = sworker[v]
    BY <1>1, <2>1
  <2>4. \A v \in StreamWorkers : Cur(v)' = Cur(v) BY <2>3 DEF Cur
  <2>5. \A v \in StreamWorkers : sworker[v].pc # "idle" => CurHash(v)' = CurHash(v)
    BY <1>1, <2>4, CurHashStays DEF StreamBase
  <2>6. \A v \in StreamWorkers : sworker'[v].pc = "idle" <=> sworker'[v].batch = <<>>
    BY <1>1, <2>3 DEF StreamBase, StreamTypes
  <2>7. sworker' \in [StreamWorkers -> [pc : Phases, batch : Seq(1 .. next'), seq : Nat]]
    BY <1>1, <2>2 DEF S
  <2>8. sworker'[w].seq \in 1 .. seqno' BY <1>1, <2>1, <2>3
  <2> QED BY <2>3, <2>4, <2>5, <2>6, <2>7, <2>8 DEF Moves
<1>3. StreamTypes'
  <2>1. /\ log' = log /\ next' \in 0 .. Len(log) /\ next <= next'
        /\ seqno' \in Nat /\ seqno <= seqno' /\ inbox' \in SUBSET Docs
        /\ \A d \in inbox' : d.id \in 1 .. next' /\ d.seq \in 1 .. seqno'
        /\ dedupe' \in SUBSET Hashes /\ call' = call
    BY <1>1 DEF StreamBase, StreamTypes
  <2> QED BY <1>1, <1>2, <2>1, WorkerTypes, StreamNats DEF StreamBase, Phases
<1>4. Deduped' BY <1>1, <1>2, DedupedMoves DEF StreamBase, Phases
<1>5. \A i \in 1 .. Len(log) : Hash(i)' = Hash(i) BY <1>1, HashStays DEF StreamBase
<1>6. ASSUME NEW h \in Hashes, Spoilt(h)' PROVE Spoilt(h)
  <2>1. \A v \in StreamWorkers \ {w} : sworker'[v].pc = sworker[v].pc
          /\ (sworker[v].pc # "idle" => CurHash(v)' = CurHash(v) /\ Cur(v)' = Cur(v))
    BY <1>2 DEF Moves
  <2>2. sworker'[w].pc = "create" /\ CurHash(w)' = CurHash(w) BY <1>1, <1>2 DEF Moves
  <2>3. NoDoc(h) BY <1>1, <1>6 DEF Spoilt, NoDoc
  <2>4. ~ Flying(h) BY <1>1, <1>6, <2>1, <2>2 DEF Spoilt, Flying
  <2>5. CASE h \in dedupe BY <2>3, <2>4, <2>5 DEF Spoilt
  <2>6. CASE h \notin dedupe
    <3>1. PICK i \in 1 .. next : Settled(i)' /\ Hash(i)' = h BY <1>1, <1>6, <2>6 DEF Spoilt
    <3>2. Settled(i) BY <1>1, <2>1, <2>2, <3>1 DEF Settled
    <3>3. Hash(i) = h BY <1>5, <3>1 DEF StreamBase, StreamTypes
    <3> QED BY <2>3, <2>4, <3>1, <3>2, <3>3 DEF Spoilt
  <2> QED BY <2>5, <2>6
<1>7. nfaults' = nfaults BY <1>1
<1>8. Paid' BY <1>6, <1>7, PaidKept DEF StreamBase
<1> QED BY <1>3, <1>4, <1>8 DEF StreamBase

LEMMA CreateKeeps ==
    ASSUME StreamBase, NEW w \in StreamWorkers, Create(w) PROVE StreamBase'
<1>1. sworker[w].pc = "create" /\ UNCHANGED <<stream, ndlq, gates, seqno, unread, call, declined>>
  BY DEF Create
<1>2. CASE Swallow(w) /\ UNCHANGED <<inbox, disturbed>>
  <2>1. Moves(w, "ack") BY <1>1, <1>2, Goes1 DEF StreamBase, Phases, Swallow
  <2>2. stimuli' \in Nat /\ nfaults' = nfaults + 1 BY <1>2, StreamNats DEF Spend, Swallow
  <2> QED BY <1>1, <1>2, <2>1, <2>2, WorkerGoes, StreamNats DEF Phases
<1>3. CASE /\ inbox' = inbox \cup {[id |-> Cur(w), hash |-> Hash(Cur(w)),
                                    seq |-> sworker[w].seq, status |-> "unread"]}
           /\ Go(w, "incr") /\ Opens /\ UNCHANGED <<stimuli, nfaults>>
  <2>1. Moves(w, "incr") BY <1>1, <1>3, Goes1 DEF StreamBase, Phases
  <2>2. \A i \in 1 .. Len(log) : Hash(i)' = Hash(i) /\ Hash(i) \in Hashes
    BY <1>1, HashStays DEF StreamBase
  <2>3. Cur(w) \in 1 .. next /\ next \in 0 .. Len(log) /\ sworker[w].seq \in 1 .. seqno /\ seqno \in Nat
    BY <1>1, CurType DEF StreamBase, StreamTypes
  <2>4. CurHash(w) \in Hashes BY <2>2, <2>3 DEF CurHash
  <2>5. PICK doc \in Docs : /\ inbox' = inbox \cup {doc} /\ doc.id = Cur(w) /\ doc.hash = CurHash(w)
                            /\ doc.seq = sworker[w].seq
    <3> DEFINE doc == [id |-> Cur(w), hash |-> CurHash(w), seq |-> sworker[w].seq, status |-> "unread"]
    <3>1. doc \in Docs BY <2>3, <2>4 DEF Docs, Statuses
    <3>2. inbox' = inbox \cup {doc} BY <1>3 DEF CurHash
    <3> QED BY <3>1, <3>2
  <2>6. StreamTypes'
    <3>1. /\ log' = log /\ next' \in 0 .. Len(log) /\ next <= next'
          /\ seqno' \in Nat /\ seqno <= seqno' /\ inbox' \in SUBSET Docs
          /\ dedupe' \in SUBSET Hashes /\ call' = call
      BY <1>1, <2>5 DEF StreamBase, StreamTypes
    <3>2. \A d \in inbox' : d.id \in 1 .. next' /\ d.seq \in 1 .. seqno'
      BY <1>1, <2>3, <2>5 DEF StreamBase, StreamTypes
    <3>3. disturbed' \in BOOLEAN BY <1>3, StreamNats DEF Opens
    <3> QED BY <1>1, <1>3, <2>1, <3>1, <3>2, <3>3, WorkerTypes, StreamNats DEF StreamBase, Phases
  <2>7. CurHash(w) \in dedupe /\ \A d \in inbox : d.hash # CurHash(w)
    BY <1>1 DEF StreamBase, Deduped, Taken
  <2>8. Recorded'
    <3>1. \A d \in inbox : d.id \in 1 .. Len(log) BY DEF StreamBase, StreamTypes
    <3>2. \A d \in inbox : d.hash = Hash(d.id)' /\ d.hash \in dedupe'
      BY <1>1, <2>2, <3>1 DEF StreamBase, Deduped, Recorded
    <3>3. PICK i \in 1 .. Len(log) : i = Cur(w) BY <2>3
    <3>4. doc.hash = Hash(doc.id)' /\ doc.hash \in dedupe'
      BY <1>1, <2>2, <2>5, <2>7, <3>3 DEF CurHash
    <3> QED BY <2>5, <3>2, <3>4 DEF Recorded
  <2>9. OneNoticePerHash' BY <2>5, <2>7 DEF StreamBase, Deduped, OneNoticePerHash
  <2>10. \A v \in StreamWorkers \ {w} : sworker'[v].pc = sworker[v].pc
          /\ (sworker[v].pc # "idle" => CurHash(v)' = CurHash(v) /\ Cur(v)' = Cur(v))
    BY <2>1 DEF Moves
  <2>11. sworker'[w].pc = "incr" /\ CurHash(w)' = CurHash(w) BY <1>1, <2>1 DEF Moves
  <2>12. Taken'
    BY <1>1, <2>5, <2>10, <2>11 DEF StreamBase, Deduped, Taken, Alone
  <2>13. Alone' BY <1>1, <2>10, <2>11 DEF StreamBase, Deduped, Alone
  <2>14. Written' BY <1>1, <2>5, <2>10, <2>11 DEF StreamBase, Deduped, Written
  <2>15. ASSUME NEW h \in Hashes, Spoilt(h)' PROVE Spoilt(h)
    <3>1. NoDoc(h) /\ h # CurHash(w) BY <2>5, <2>15 DEF Spoilt, NoDoc
    <3>2. ~ Flying(h) BY <1>1, <2>10, <2>11, <2>15, <3>1 DEF Spoilt, Flying
    <3>3. CASE h \in dedupe BY <3>1, <3>2, <3>3 DEF Spoilt
    <3>4. CASE h \notin dedupe
      <4>1. PICK i \in 1 .. next : Settled(i)' /\ Hash(i)' = h BY <1>1, <2>15, <3>4 DEF Spoilt
      <4>2. Settled(i) BY <1>1, <2>10, <2>11, <4>1 DEF Settled
      <4>3. Hash(i) = h BY <2>2, <4>1 DEF StreamBase, StreamTypes
      <4> QED BY <3>1, <3>2, <4>1, <4>2, <4>3 DEF Spoilt
    <3> QED BY <3>3, <3>4
  <2>16. nfaults' = nfaults BY <1>3
  <2>17. Paid' BY <2>15, <2>16, PaidKept DEF StreamBase
  <2> QED BY <2>6, <2>8, <2>9, <2>12, <2>13, <2>14, <2>17 DEF StreamBase, Deduped
<1> QED BY <1>2, <1>3 DEF Create

\* A worker that was idle takes up a batch of entries, new ones or pending ones.
LEMMA TakesUp ==
    ASSUME StreamBase, NEW w \in StreamWorkers, sworker[w].pc = "idle",
           NEW ids \in Seq(1 .. next') \ {<<>>}, sworker' = [sworker EXCEPT ![w] = Begin(ids)],
           next' \in 0 .. Len(log), next <= next', pending' = pending \cup ((next + 1) .. next'),
           stimuli' \in Nat, UNCHANGED <<log, ndlq, gates, shelf, call, ghosts>>
    PROVE  StreamBase'
<1>1. next \in Nat /\ next' \in Nat BY DEF StreamBase, StreamTypes
<1>2. PICK q \in {"idle", "feature"} : Moves(w, q)
  <2>1. Begin(ids) \in {NoWork} \cup {Begin(x) : x \in Seq(1 .. next') \ {<<>>}} OBVIOUS
  <2> QED BY <1>1, <2>1, TakesBatch DEF StreamBase
<1>3. StreamTypes'
  <2>1. /\ seqno' \in Nat /\ seqno <= seqno' /\ inbox' \in SUBSET Docs
        /\ \A d \in inbox' : d.id \in 1 .. next' /\ d.seq \in 1 .. seqno'
        /\ dedupe' \in SUBSET Hashes
    BY <1>1 DEF StreamBase, StreamTypes
  <2>2. /\ pending' \in SUBSET (1 .. next') /\ ndlq' \in SUBSET (1 .. next')
        /\ declined' \in SUBSET (1 .. next')
    BY <1>1, StreamNats
  <2> QED BY <1>1, <1>2, <2>1, <2>2, WorkerTypes, StreamNats DEF StreamBase, Phases
<1>4. Deduped' BY <1>2, DedupedMoves DEF StreamBase, Phases
<1>5. \A i \in 1 .. Len(log) : Hash(i)' = Hash(i) BY HashStays DEF StreamBase
<1>6. ASSUME NEW h \in Hashes, Spoilt(h)' PROVE Spoilt(h)
  <2>1. \A v \in StreamWorkers \ {w} : sworker'[v].pc = sworker[v].pc
          /\ (sworker[v].pc # "idle" => CurHash(v)' = CurHash(v) /\ Cur(v)' = Cur(v))
    BY <1>2 DEF Moves
  <2>2. sworker'[w].pc \in {"idle", "feature"} BY <1>2 DEF Moves
  <2>3. NoDoc(h) BY <1>6 DEF Spoilt, NoDoc
  <2>4. ~ Flying(h) BY <1>6, <2>1, <2>2 DEF Spoilt, Flying
  <2>5. CASE h \in dedupe BY <2>3, <2>4, <2>5 DEF Spoilt
  <2>6. CASE h \notin dedupe
    <3>1. PICK i \in 1 .. next' : Settled(i)' /\ Hash(i)' = h BY <1>6, <2>6 DEF Spoilt
    <3>2. i \notin ndlq /\ i \notin declined BY <3>1 DEF Settled
    <3>3. CASE i \notin pending'
      <4>1. i \in 1 .. next /\ i \notin pending BY <1>1, <3>3
      <4>2. Settled(i) BY <3>2, <4>1 DEF Settled
      <4>3. Hash(i) = h BY <1>1, <1>5, <3>1, <4>1 DEF StreamBase, StreamTypes
      <4> QED BY <2>3, <2>4, <4>1, <4>2, <4>3 DEF Spoilt
    <3>4. CASE \E v \in StreamWorkers : sworker'[v].pc = "ack" /\ Cur(v)' = i
      <4>1. PICK v \in StreamWorkers : sworker'[v].pc = "ack" /\ Cur(v)' = i BY <3>4
      <4>2. sworker[v].pc = "ack" /\ Cur(v) = i BY <2>1, <2>2, <4>1
      <4>3. i \in 1 .. next BY <4>2, CurType DEF StreamBase
      <4>4. Settled(i) BY <3>2, <4>2 DEF Settled
      <4>5. Hash(i) = h BY <1>1, <1>5, <3>1, <4>3 DEF StreamBase, StreamTypes
      <4> QED BY <2>3, <2>4, <4>3, <4>4, <4>5 DEF Spoilt
    <3> QED BY <3>1, <3>3, <3>4 DEF Settled
  <2> QED BY <2>5, <2>6
<1>7. Paid' BY <1>6, PaidKept DEF StreamBase
<1> QED BY <1>3, <1>4, <1>7 DEF StreamBase

LEMMA SequenceOf ==
    ASSUME NEW S, NEW n \in Nat, NEW f \in [1 .. n -> S]
    PROVE  f \in Seq(S)
  OBVIOUS

LEMMA ReadKeeps ==
    ASSUME StreamBase, NEW w \in StreamWorkers, Read(w) PROVE StreamBase'
<1> DEFINE last == IF next + BatchSize < Len(log) THEN next + BatchSize ELSE Len(log)
           ids == [i \in 1 .. (last - next) |-> next + i]
<1>1. /\ sworker[w].pc = "idle" /\ next < Len(log) /\ next' = last
      /\ pending' = pending \cup ((next + 1) .. last)
      /\ sworker' = [sworker EXCEPT ![w] = Begin(ids)]
      /\ UNCHANGED <<stimuli, log, ndlq, gates, shelf, call, ghosts>>
  BY DEF Read
<1>2. BatchSize \in Nat \ {0} /\ next \in Nat /\ Len(log) \in Nat
  BY StreamAssumption DEF StreamBase, StreamTypes
<1>3. last \in Nat /\ last <= Len(log) /\ next < last BY <1>1, <1>2
<1> HIDE DEF last
<1>4. ids \in Seq(1 .. last)
  <2>1. last - next \in Nat /\ \A i \in 1 .. (last - next) : next + i \in 1 .. last BY <1>2, <1>3
  <2>2. ids \in [1 .. (last - next) -> 1 .. last] BY <2>1
  <2> QED BY <2>1, <2>2, SequenceOf
<1>5. ids # <<>>
  <2>1. 1 \in DOMAIN ids BY <1>2, <1>3
  <2> HIDE DEF ids
  <2> QED BY <2>1
<1> HIDE DEF ids
<1>6. next' \in 0 .. Len(log) /\ next <= next' BY <1>1, <1>2, <1>3
<1> QED BY <1>1, <1>4, <1>5, <1>6, TakesUp, StreamNats

LEMMA ReclaimKeeps ==
    ASSUME StreamBase, NEW w \in StreamWorkers, NEW ids \in SUBSET pending, Reclaim(w, ids)
    PROVE  StreamBase'
<1>1. /\ sworker[w].pc = "idle" /\ ids # {} /\ Spend(1)
      /\ \E ordered \in [1 .. Cardinality(ids) -> ids] : sworker' = [sworker EXCEPT ![w] = Begin(ordered)]
      /\ UNCHANGED <<stream, ndlq, gates, shelf, call, ghosts>>
  BY DEF Reclaim
<1>2. PICK ordered \in [1 .. Cardinality(ids) -> ids] : sworker' = [sworker EXCEPT ![w] = Begin(ordered)]
  BY <1>1
<1>3. ids \in SUBSET (1 .. next) /\ next \in Nat BY StreamNats
<1>4. Cardinality(ids) \in Nat /\ Cardinality(ids) # 0
  <2>1. IsFiniteSet(1 .. next) BY <1>3, FS_Interval
  <2>2. IsFiniteSet(ids) BY <1>3, <2>1, FS_Subset
  <2> QED BY <1>1, <2>2, FS_CardinalityType, FS_EmptySet
<1>5. ordered \in Seq(1 .. next)
  <2>1. ordered \in [1 .. Cardinality(ids) -> 1 .. next] BY <1>3
  <2> QED BY <1>4, <2>1, SequenceOf
<1>6. ordered # <<>>
  <2>1. 1 \in DOMAIN ordered BY <1>4
  <2>2. DOMAIN <<>> = {} OBVIOUS
  <2> QED BY <2>1, <2>2
<1>7. /\ next' \in 0 .. Len(log) /\ next <= next' /\ stimuli' \in Nat
      /\ pending' = pending \cup ((next + 1) .. next')
  <2>1. (next + 1) .. next = {} BY <1>3
  <2>2. next' = next /\ pending' = pending BY <1>1
  <2>3. next \in 0 .. Len(log) BY DEF StreamBase, StreamTypes
  <2>4. stimuli' \in Nat BY <1>1, StreamNats DEF Spend
  <2> QED BY <1>3, <2>1, <2>2, <2>3, <2>4
<1> QED BY <1>1, <1>2, <1>5, <1>6, <1>7, TakesUp

---------------------------------------------------------------------------
(* The other steps of the pipeline, and the operations of the inbox.        *)

\* Documents that change nothing but their status.
LEMMA InboxKeeps ==
    ASSUME StreamBase, stimuli' \in Nat,
           inbox' \in SUBSET Docs,
           \A d \in inbox' : \E e \in inbox : e.id = d.id /\ e.hash = d.hash /\ e.seq = d.seq,
           \A e \in inbox : \E d \in inbox' : d.hash = e.hash,
           \A d, e \in inbox' : d.id = e.id => d = e,
           call' \in [Calls -> [pc : CallPhases, id : Nat, was : Statuses \cup {"none"}, n : Nat]],
           unread' \in Int, hasPrefs' \in BOOLEAN, throttle' \in Nat, disturbed' \in BOOLEAN,
           UNCHANGED <<stream, sworker, ndlq, dedupe, seqno, declined, nfaults>>
    PROVE  StreamBase'
<1>1. StreamTypes'
  <2>1. \A d \in inbox' : d.id \in 1 .. next' /\ d.seq \in 1 .. seqno'
    BY DEF StreamBase, StreamTypes
  <2> QED BY <2>1 DEF StreamBase, StreamTypes
<1>2. \A i \in 1 .. Len(log) : Hash(i)' = Hash(i) BY HashStays DEF StreamBase
<1>3. \A v \in StreamWorkers : CurHash(v)' = CurHash(v) /\ Cur(v)' = Cur(v)
  BY DEF CurHash, Hash, Cur
<1>4. Recorded'
  <2>1. \A d \in inbox : d.id \in 1 .. Len(log) BY DEF StreamBase, StreamTypes
  <2> QED BY <1>2, <2>1 DEF StreamBase, Deduped, Recorded
<1>5. OneNoticePerHash'
  <2> SUFFICES ASSUME NEW d \in inbox', NEW e \in inbox', d.hash = e.hash PROVE d = e
    BY DEF OneNoticePerHash
  <2>1. PICK d0 \in inbox : d0.id = d.id /\ d0.hash = d.hash OBVIOUS
  <2>2. PICK e0 \in inbox : e0.id = e.id /\ e0.hash = e.hash OBVIOUS
  <2>3. d0 = e0 BY <2>1, <2>2 DEF StreamBase, Deduped, OneNoticePerHash
  <2> QED BY <2>1, <2>2, <2>3
<1>6. \A h : NoDoc(h)' <=> NoDoc(h)
  BY DEF NoDoc
<1>7. Taken' BY <1>3 DEF StreamBase, Deduped, Taken
<1>8. Alone' BY <1>3 DEF StreamBase, Deduped, Alone
<1>9. Written' BY <1>3 DEF StreamBase, Deduped, Written
<1>10. ASSUME NEW h \in Hashes, Spoilt(h)' PROVE Spoilt(h)
  <2>1. NoDoc(h) BY <1>6, <1>10 DEF Spoilt
  <2>2. ~ Flying(h) BY <1>3, <1>10 DEF Spoilt, Flying
  <2>3. CASE h \in dedupe BY <2>1, <2>2, <2>3 DEF Spoilt
  <2>4. CASE h \notin dedupe
    <3>1. PICK i \in 1 .. next : Settled(i)' /\ Hash(i)' = h BY <1>10, <2>4 DEF Spoilt
    <3>2. Settled(i) BY <1>3, <3>1 DEF Settled
    <3>3. Hash(i) = h BY <1>2, <3>1 DEF StreamBase, StreamTypes
    <3> QED BY <2>1, <2>2, <3>1, <3>2, <3>3 DEF Spoilt
  <2> QED BY <2>3, <2>4
<1>11. nfaults' = nfaults OBVIOUS
<1>12. Paid' BY <1>10, <1>11, PaidKept DEF StreamBase
<1> QED BY <1>1, <1>4, <1>5, <1>7, <1>8, <1>9, <1>12 DEF StreamBase, Deduped

LEMMA PublishKeeps ==
    ASSUME StreamBase, NEW ev \in Notices, Publish(ev) PROVE StreamBase'
<1>1. /\ log' = Append(log, ev) /\ stimuli' \in Nat
      /\ UNCHANGED <<next, pending, sworker, ndlq, gates, shelf, call, ghosts>>
  BY StreamNats DEF Publish, Spend, Append1
<1>2. log \in Seq(Notices) /\ next \in 0 .. Len(log) BY DEF StreamBase, StreamTypes
<1>3. log' \in Seq(Notices) /\ Len(log') = Len(log) + 1 /\ Len(log) \in Nat
  BY <1>1, <1>2, AppendProperties
<1>4. StreamTypes'
  <2>1. next' \in 0 .. Len(log') BY <1>1, <1>2, <1>3
  <2> QED BY <1>1, <1>3, <2>1 DEF StreamBase, StreamTypes
<1>5. \A i \in 1 .. Len(log) : Hash(i)' = Hash(i) BY <1>1, HashStays DEF StreamBase
<1>6. \A v \in StreamWorkers : Cur(v)' = Cur(v) BY <1>1 DEF Cur
<1>7. \A v \in StreamWorkers : sworker[v].pc # "idle" => CurHash(v)' = CurHash(v)
  BY <1>1, <1>6, CurHashStays DEF StreamBase
<1>8. Recorded'
  <2>1. \A d \in inbox : d.id \in 1 .. Len(log) BY DEF StreamBase, StreamTypes
  <2> QED BY <1>1, <1>5, <2>1 DEF StreamBase, Deduped, Recorded
<1>9. OneNoticePerHash' BY <1>1 DEF StreamBase, Deduped, OneNoticePerHash
<1>10. Taken' BY <1>1, <1>7 DEF StreamBase, Deduped, Taken
<1>11. Alone' BY <1>1, <1>7 DEF StreamBase, Deduped, Alone
<1>12. Written' BY <1>1, <1>7 DEF StreamBase, Deduped, Written
<1>13. ASSUME NEW h \in Hashes, Spoilt(h)' PROVE Spoilt(h)
  <2>1. NoDoc(h) BY <1>1, <1>13 DEF Spoilt, NoDoc
  <2>2. ~ Flying(h) BY <1>1, <1>7, <1>13 DEF Spoilt, Flying
  <2>3. CASE h \in dedupe BY <2>1, <2>2, <2>3 DEF Spoilt
  <2>4. CASE h \notin dedupe
    <3>1. PICK i \in 1 .. next : Settled(i)' /\ Hash(i)' = h BY <1>1, <1>13, <2>4 DEF Spoilt
    <3>2. Settled(i) BY <1>1, <1>6, <3>1 DEF Settled
    <3>3. Hash(i) = h BY <1>2, <1>5, <3>1
    <3> QED BY <2>1, <2>2, <3>1, <3>2, <3>3 DEF Spoilt
  <2> QED BY <2>3, <2>4
<1>14. nfaults' = nfaults BY <1>1
<1>15. Paid' BY <1>13, <1>14, PaidKept DEF StreamBase
<1> QED BY <1>4, <1>8, <1>9, <1>10, <1>11, <1>12, <1>15 DEF StreamBase, Deduped

\* Setting the status of the documents with some ids.
LEMMA SetStatusFacts ==
    ASSUME StreamBase, NEW ids, NEW s \in Statuses, SetStatus(ids, s)
    PROVE  /\ inbox' \in SUBSET Docs
           /\ \A d \in inbox' : \E e \in inbox : e.id = d.id /\ e.hash = d.hash /\ e.seq = d.seq
           /\ \A e \in inbox : \E d \in inbox' : d.hash = e.hash
           /\ \A d, e \in inbox' : d.id = e.id => d = e
           /\ \A d \in inbox : d.id \notin ids => d \in inbox'
           /\ \A d \in inbox' : d.id \notin ids => d \in inbox
           /\ \A d \in inbox' : d.id \in ids => d.status = s
           /\ \A e \in inbox : \E d \in inbox' : d.id = e.id
           /\ \A d, e \in inbox : d.id = e.id => d = e
<1> DEFINE F(d) == IF d.id \in ids THEN [d EXCEPT !.status = s] ELSE d
<1>1. inbox' = {F(d) : d \in inbox} BY DEF SetStatus
<1>2. inbox \in SUBSET Docs BY DEF StreamBase, StreamTypes
<1>3. \A d \in Docs : /\ F(d) \in Docs /\ F(d).id = d.id /\ F(d).hash = d.hash /\ F(d).seq = d.seq
                      /\ d.id \in ids => F(d).status = s
                      /\ d.id \notin ids => F(d) = d
  BY DEF Docs
<1>4. \A d, e \in inbox : d.id = e.id => d = e
  BY DEF StreamBase, Deduped, Recorded, OneNoticePerHash
<1> HIDE DEF F
<1> QED BY <1>1, <1>2, <1>3, <1>4

CallRecs == [pc : CallPhases, id : Nat, was : Statuses \cup {"none"}, n : Nat]

LEMMA CallTypes ==
    ASSUME StreamBase, NEW c \in Calls, NEW rec \in CallRecs, Next1(c, rec)
    PROVE  /\ call' \in [Calls -> CallRecs] /\ call'[c] = rec
           /\ \A b \in Calls \ {c} : call'[b] = call[b]
<1>1. call \in [Calls -> CallRecs] BY DEF StreamBase, StreamTypes, CallRecs
<1> QED BY <1>1 DEF Next1

---------------------------------------------------------------------------
(* The badge.                                                               *)

\* At most one operation on counter and documents is under way, and it knows how far
\* they are apart.
Unreads == Cardinality(UnreadDocs)
Quiet == (\A w \in StreamWorkers : sworker[w].pc # "incr") /\ \A c \in Calls : call[c].pc = "idle"
Single ==
    /\ \A v, w \in StreamWorkers : sworker[v].pc = "incr" /\ sworker[w].pc = "incr" => v = w
    /\ \A c, b \in Calls : call[c].pc # "idle" /\ call[b].pc # "idle" => c = b
    /\ \A w \in StreamWorkers, c \in Calls : sworker[w].pc = "incr" => call[c].pc = "idle"
CallExact(c) ==
    /\ call[c].pc # "zero"
    /\ call[c].pc = "decr" => Badge = Unreads + 1
    /\ call[c].pc = "delete" =>
          Badge = Unreads /\ \E d \in inbox : d.id = call[c].id /\ d.status = call[c].was
    /\ call[c].pc = "count" => Unreads = 0
    /\ call[c].pc = "compare" => call[c].n = Unreads /\ Badge = Unreads
    /\ call[c].pc = "set" => call[c].n = Unreads
Exact ==
    /\ Quiet => Badge = Unreads
    /\ \A w \in StreamWorkers : sworker[w].pc = "incr" => Badge + 1 = Unreads
    /\ \A c \in Calls : CallExact(c)
BadgeInv == IsFiniteSet(UnreadDocs) /\ (~ disturbed => Single /\ Exact)

LEMMA BadgeNats ==
    ASSUME StreamBase, BadgeInv PROVE Unreads \in Nat /\ Badge \in Int
<1>1. Unreads \in Nat BY FS_CardinalityType DEF BadgeInv, Unreads
<1>2. Badge \in Int BY StreamNats DEF Badge
<1> QED BY <1>1, <1>2

LEMMA CountingQuiet == Counting = {} <=> Quiet
  BY DEF Counting, Quiet

LEMMA OpensQuiet ==
    ASSUME StreamBase, Opens PROVE disturbed' \in BOOLEAN /\ (~ disturbed' => ~ disturbed /\ Quiet)
  BY CountingQuiet, StreamNats DEF Opens

LEMMA BadgeFrame ==
    ASSUME StreamBase, BadgeInv, UNCHANGED <<unread, inbox, call>>,
           ~ disturbed' => /\ ~ disturbed
                           /\ \A w \in StreamWorkers : sworker'[w].pc = "incr" <=> sworker[w].pc = "incr"
    PROVE  BadgeInv'
<1>1. UnreadDocs' = UnreadDocs BY DEF UnreadDocs
<1>2. Unreads' = Unreads /\ Badge' = Badge BY <1>1 DEF Unreads, Badge
<1>3. IsFiniteSet(UnreadDocs') BY <1>1 DEF BadgeInv
<1>4. ASSUME ~ disturbed' PROVE Single' /\ Exact'
  <2>1. \A c \in Calls : CallExact(c)' BY <1>2, <1>4 DEF BadgeInv, Exact, CallExact
  <2>2. Single' BY <1>4 DEF BadgeInv, Single
  <2>3. Quiet' <=> Quiet BY <1>4 DEF Quiet
  <2> QED BY <1>2, <1>4, <2>1, <2>2, <2>3 DEF BadgeInv, Exact
<1> QED BY <1>3, <1>4 DEF BadgeInv

LEMMA WorkerBadge ==
    ASSUME StreamBase, BadgeInv, NEW w \in StreamWorkers, NEW q \in Phases, Moves(w, q),
           q # "incr", UNCHANGED <<unread, inbox, call>>,
           \/ disturbed' = disturbed /\ sworker[w].pc # "incr"
           \/ disturbed' = TRUE
    PROVE  BadgeInv'
<1>1. \A v \in StreamWorkers : v # w => sworker'[v].pc = sworker[v].pc BY DEF Moves
<1>2. sworker'[w].pc # "incr" BY DEF Moves
<1> QED BY <1>1, <1>2, BadgeFrame

\* A request begins, when all is quiet or disturbed, or goes on.
LEMMA CallBadge ==
    ASSUME StreamBase, BadgeInv, NEW c \in Calls, NEW rec \in CallRecs, Next1(c, rec),
           sworker' = sworker,
           ~ disturbed' => ~ disturbed /\ (call[c].pc # "idle" \/ Quiet),
           IsFiniteSet(UnreadDocs'),
           ~ disturbed' => /\ rec.pc = "idle" => Badge' = Unreads'
                           /\ rec.pc # "idle" => CallExact(c)'
    PROVE  BadgeInv'
<1>1. call'[c] = rec /\ \A b \in Calls \ {c} : call'[b] = call[b]
  BY CallTypes
<1>2. ASSUME ~ disturbed' PROVE Single' /\ Exact'
  <2>1. Single /\ Exact BY <1>2 DEF BadgeInv
  <2>2. /\ \A b \in Calls \ {c} : call'[b].pc = "idle"
        /\ \A v \in StreamWorkers : sworker'[v].pc # "incr"
    BY <1>1, <1>2, <2>1 DEF Single, Quiet
  <2>3. Single' BY <2>2 DEF Single
  <2>4. \A b \in Calls : CallExact(b)'
    <3> SUFFICES ASSUME NEW b \in Calls PROVE CallExact(b)'
      OBVIOUS
    <3>1. CASE call'[b].pc = "idle" BY <3>1 DEF CallExact
    <3>2. CASE call'[b].pc # "idle"
      <4>1. b = c BY <2>2, <3>2
      <4>2. rec.pc # "idle" BY <1>1, <3>2, <4>1
      <4> QED BY <1>2, <4>1, <4>2
    <3> QED BY <3>1, <3>2
  <2>5. Quiet' => Badge' = Unreads' BY <1>1, <1>2 DEF Quiet
  <2> QED BY <2>2, <2>3, <2>4, <2>5 DEF Exact
<1> QED BY <1>2 DEF BadgeInv

\* Documents that stop being unread.
LEMMA UnreadRest ==
    ASSUME StreamBase, BadgeInv, NEW ids, NEW s \in Statuses \ {"unread"}, SetStatus(ids, s)
    PROVE  /\ UnreadDocs' = {d \in UnreadDocs : d.id \notin ids}
           /\ IsFiniteSet(UnreadDocs')
<1>1. UnreadDocs' = {d \in UnreadDocs : d.id \notin ids}
  <2>1. /\ \A d \in inbox : d.id \notin ids => d \in inbox'
        /\ \A d \in inbox' : d.id \notin ids => d \in inbox
        /\ \A d \in inbox' : d.id \in ids => d.status = s
    BY SetStatusFacts
  <2> QED BY <2>1 DEF UnreadDocs
<1> QED BY <1>1, FS_Subset DEF BadgeInv

LEMMA UnreadLess ==
    ASSUME StreamBase, BadgeInv, NEW d \in inbox, NEW ids, \A e \in inbox : e.id \in ids <=> e.id = d.id,
           NEW s \in Statuses \ {"unread"}, SetStatus(ids, s)
    PROVE  /\ IsFiniteSet(UnreadDocs')
           /\ Unreads' = IF d.status = "unread" THEN Unreads - 1 ELSE Unreads
<1>1. UnreadDocs' = {e \in UnreadDocs : e.id \notin ids} /\ IsFiniteSet(UnreadDocs')
  BY UnreadRest
<1>2. \A x, y \in inbox : x.id = y.id => x = y BY SetStatusFacts
<1>3. UnreadDocs' = UnreadDocs \ {d} BY <1>1, <1>2 DEF UnreadDocs
<1>4. d \in UnreadDocs <=> d.status = "unread" BY DEF UnreadDocs
<1>5. Cardinality(UnreadDocs \ {d})
        = IF d \in UnreadDocs THEN Cardinality(UnreadDocs) - 1 ELSE Cardinality(UnreadDocs)
  BY FS_RemoveElement DEF BadgeInv
<1> QED BY <1>1, <1>3, <1>4, <1>5 DEF Unreads

\* The steps of a worker that neither count nor write.
LEMMA WorkerCalm ==
    ASSUME StreamBase, BadgeInv, NEW w \in StreamWorkers,
           UNCHANGED <<unread, inbox, call>>,
           \/ \E pc \in Phases \ {"incr"} : Go(w, pc)
           \/ \E rec \in [pc : Phases \ {"incr"}, batch : Seq(1 .. next'), seq : Nat] :
                 sworker' = [sworker EXCEPT ![w] = rec]
           \/ sworker' = [sworker EXCEPT ![w].pc = "create", ![w].seq = seqno + 1],
           \/ disturbed' = disturbed /\ sworker[w].pc # "incr"
           \/ disturbed' = TRUE
           \/ disturbed' = (disturbed \/ sworker[w].pc = "incr")
    PROVE  BadgeInv'
<1> DEFINE S == Seq(1 .. next)
<1>1. sworker \in [StreamWorkers -> [pc : Phases, batch : S, seq : Nat]] /\ disturbed \in BOOLEAN
  BY DEF StreamBase, StreamTypes
<1> HIDE DEF S
<1>2. (\A v \in StreamWorkers \ {w} : sworker'[v].pc = sworker[v].pc) /\ sworker'[w].pc # "incr"
  <2>1. ASSUME NEW pc \in Phases \ {"incr"}, Go(w, pc)
        PROVE (\A v \in StreamWorkers \ {w} : sworker'[v].pc = sworker[v].pc) /\ sworker'[w].pc # "incr"
    BY <1>1, <2>1 DEF Go
  <2>2. ASSUME NEW rec \in [pc : Phases \ {"incr"}, batch : Seq(1 .. next'), seq : Nat],
               sworker' = [sworker EXCEPT ![w] = rec]
        PROVE (\A v \in StreamWorkers \ {w} : sworker'[v].pc = sworker[v].pc) /\ sworker'[w].pc # "incr"
    BY <1>1, <2>2
  <2>3. ASSUME sworker' = [sworker EXCEPT ![w].pc = "create", ![w].seq = seqno + 1]
        PROVE (\A v \in StreamWorkers \ {w} : sworker'[v].pc = sworker[v].pc) /\ sworker'[w].pc # "incr"
    BY <1>1, <2>3
  <2> QED BY <2>1, <2>2, <2>3
<1>3. ~ disturbed' => ~ disturbed /\ sworker[w].pc # "incr" BY <1>1
<1>4. ~ disturbed' => /\ ~ disturbed
                      /\ \A v \in StreamWorkers : sworker'[v].pc = "incr" <=> sworker[v].pc = "incr"
  BY <1>2, <1>3
<1> QED BY <1>4, BadgeFrame

LEMMA Batches ==
    ASSUME StreamTypes
    PROVE  /\ NoWork \in [pc : Phases \ {"incr"}, batch : Seq(1 .. next'), seq : Nat]
           /\ \A ids \in Seq(1 .. next') :
                 Begin(ids) \in [pc : Phases \ {"incr"}, batch : Seq(1 .. next'), seq : Nat]
<1> DEFINE S == Seq(1 .. next')
<1>1. <<>> \in S OBVIOUS
<1> HIDE DEF S
<1>2. NoWork \in [pc : Phases \ {"incr"}, batch : S, seq : Nat] BY <1>1 DEF NoWork, Phases
<1>3. \A ids \in S : Begin(ids) \in [pc : Phases \ {"incr"}, batch : S, seq : Nat]
  BY DEF Begin, Phases
<1> QED BY <1>2, <1>3 DEF S

LEMMA CalmSteps ==
    ASSUME StreamBase, BadgeInv, NEW w \in StreamWorkers,
           \/ CheckFeature(w) \/ DeadLetter(w) \/ DeadLetterFails(w) \/ FindPrefs(w) \/ MakePrefs(w)
           \/ Throttle(w) \/ SetWindow(w) \/ Dedupe(w) \/ NextSeq(w) \/ Ack(w) \/ StreamCrash(w)
    PROVE  BadgeInv'
<1>0. /\ {"prefs", "ack", "dlq", "allowed", "mkprefs", "expire", "dedupe", "seq"} \in SUBSET (Phases \ {"incr"})
      /\ NoWork \in [pc : Phases \ {"incr"}, batch : Seq(1 .. next'), seq : Nat]
  BY Batches DEF Phases, StreamBase
<1>1. CASE CheckFeature(w)
  <2>1. \E pc \in Phases \ {"incr"} : Go(w, pc) BY <1>0, <1>1 DEF CheckFeature, Decline
  <2> QED BY <1>1, <2>1, WorkerCalm DEF CheckFeature, Decline
<1>2. CASE DeadLetter(w)
  <2>1. \E pc \in Phases \ {"incr"} : Go(w, pc) BY <1>0, <1>2 DEF DeadLetter
  <2> QED BY <1>2, <2>1, WorkerCalm DEF DeadLetter
<1>3. CASE DeadLetterFails(w) BY <1>0, <1>3, WorkerCalm DEF DeadLetterFails
<1>4. CASE FindPrefs(w)
  <2>1. \E pc \in Phases \ {"incr"} : Go(w, pc) BY <1>0, <1>4 DEF FindPrefs, Swallow
  <2> QED BY <1>4, <2>1, WorkerCalm DEF FindPrefs
<1>5. CASE MakePrefs(w)
  <2>1. \E pc \in Phases \ {"incr"} : Go(w, pc) BY <1>0, <1>5 DEF MakePrefs
  <2> QED BY <1>5, <2>1, WorkerCalm DEF MakePrefs
<1>6. CASE Throttle(w)
  <2>1. \E pc \in Phases \ {"incr"} : Go(w, pc)
    <3>1. Go(w, "ack") \/ Go(w, "expire") \/ Go(w, "dedupe") BY <1>6 DEF Throttle, Decline
    <3> QED BY <1>0, <3>1
  <2>2. sworker[w].pc = "allowed" /\ UNCHANGED <<unread, inbox, call, disturbed>> BY <1>6 DEF Throttle
  <2> QED BY <2>1, <2>2, WorkerCalm
<1>7. CASE SetWindow(w)
  <2>1. \E pc \in Phases \ {"incr"} : Go(w, pc) BY <1>0, <1>7 DEF SetWindow
  <2> QED BY <1>7, <2>1, WorkerCalm DEF SetWindow
<1>8. CASE Dedupe(w)
  <2>1. \E pc \in Phases \ {"incr"} : Go(w, pc)
    <3>1. Go(w, "ack") \/ Go(w, "seq") BY <1>8 DEF Dedupe
    <3> QED BY <1>0, <3>1
  <2>2. sworker[w].pc = "dedupe" /\ UNCHANGED <<unread, inbox, call, disturbed>> BY <1>8 DEF Dedupe
  <2> QED BY <2>1, <2>2, WorkerCalm
<1>9. CASE NextSeq(w) BY <1>9, WorkerCalm DEF NextSeq
<1>10. CASE Ack(w)
  <2> DEFINE rest == Tail(sworker[w].batch)
  <2>1. sworker[w].pc = "ack" /\ UNCHANGED <<unread, inbox, call, disturbed, next>> BY <1>10 DEF Ack
  <2>2. rest \in Seq(1 .. next') BY <2>1, CurType DEF StreamBase
  <2>3. Begin(rest) \in [pc : Phases \ {"incr"}, batch : Seq(1 .. next'), seq : Nat]
    BY <2>2, Batches DEF StreamBase
  <2>4. sworker' = [sworker EXCEPT ![w] = NoWork] \/ sworker' = [sworker EXCEPT ![w] = Begin(rest)]
    BY <1>10 DEF Ack
  <2> HIDE DEF rest
  <2> QED BY <1>0, <2>1, <2>3, <2>4, WorkerCalm
<1>11. CASE StreamCrash(w) BY <1>0, <1>11, WorkerCalm DEF StreamCrash
<1> QED BY <1>1, <1>2, <1>3, <1>4, <1>5, <1>6, <1>7, <1>8, <1>9, <1>10, <1>11

\* A worker that takes up a batch; an event published; preferences and windows.
LEMMA ReadBadge ==
    ASSUME StreamBase, BadgeInv, NEW w \in StreamWorkers,
           sworker[w].pc = "idle", \E ids : sworker' = [sworker EXCEPT ![w] = Begin(ids)],
           UNCHANGED <<unread, inbox, call, disturbed>>
    PROVE  BadgeInv'
<1>1. PICK ids : sworker' = [sworker EXCEPT ![w] = Begin(ids)] OBVIOUS
<1>2. Begin(ids).pc = "feature" BY DEF Begin
<1>3. \A v \in StreamWorkers : sworker'[v].pc = "incr" <=> sworker[v].pc = "incr"
  <2>1. DOMAIN sworker = StreamWorkers BY DEF StreamBase, StreamTypes
  <2> QED BY <1>1, <1>2, <2>1
<1> QED BY <1>3, BadgeFrame

LEMMA CreateBadge ==
    ASSUME StreamBase, BadgeInv, NEW w \in StreamWorkers, Create(w) PROVE BadgeInv'
<1>1. sworker[w].pc = "create" /\ UNCHANGED <<unread, call>> BY DEF Create
<1>2. CASE Swallow(w) /\ UNCHANGED <<inbox, disturbed>>
  <2>1. Go(w, "ack") BY <1>2 DEF Swallow
  <2>2. "ack" \in Phases \ {"incr"} BY DEF Phases
  <2> QED BY <1>1, <1>2, <2>1, <2>2, WorkerCalm
<1>3. CASE /\ inbox' = inbox \cup {[id |-> Cur(w), hash |-> Hash(Cur(w)),
                                    seq |-> sworker[w].seq, status |-> "unread"]}
           /\ Go(w, "incr") /\ Opens /\ UNCHANGED <<stimuli, nfaults>>
  <2>1. PICK doc : inbox' = inbox \cup {doc} /\ doc.hash = CurHash(w) /\ doc.status = "unread"
    <3> DEFINE doc == [id |-> Cur(w), hash |-> CurHash(w), seq |-> sworker[w].seq, status |-> "unread"]
    <3>1. inbox' = inbox \cup {doc} BY <1>3 DEF CurHash
    <3>2. doc.hash = CurHash(w) /\ doc.status = "unread" OBVIOUS
    <3> HIDE DEF doc
    <3> QED BY <3>1, <3>2
  <2>2. doc \notin inbox BY <1>1, <2>1 DEF StreamBase, Deduped, Taken
  <2>3. UnreadDocs' = UnreadDocs \cup {doc} /\ doc \notin UnreadDocs BY <2>1, <2>2 DEF UnreadDocs
  <2>4. IsFiniteSet(UnreadDocs') /\ Cardinality(UnreadDocs') = Cardinality(UnreadDocs) + 1
    BY <2>3, FS_AddElement DEF BadgeInv
  <2>5. Unreads' = Unreads + 1 /\ Badge' = Badge BY <1>1, <2>4 DEF Unreads, Badge
  <2>6. disturbed' \in BOOLEAN /\ (~ disturbed' => ~ disturbed /\ Quiet) BY <1>3, OpensQuiet
  <2>7. sworker'[w].pc = "incr" /\ \A v \in StreamWorkers \ {w} : sworker'[v].pc = sworker[v].pc
    <3> DEFINE S == Seq(1 .. next)
    <3>1. sworker \in [StreamWorkers -> [pc : Phases, batch : S, seq : Nat]]
      BY DEF StreamBase, StreamTypes
    <3> HIDE DEF S
    <3> QED BY <1>3, <3>1 DEF Go
  <2>8. ASSUME ~ disturbed' PROVE Single' /\ Exact'
    <3>1. Badge = Unreads /\ Quiet BY <2>6, <2>8 DEF BadgeInv, Exact
    <3>2. Single' BY <1>1, <2>7, <3>1 DEF Single, Quiet
    <3>3. Unreads \in Nat BY BadgeNats
    <3>4. Badge' + 1 = Unreads' BY <2>5, <3>1, <3>3
    <3>5. ~ Quiet' BY <2>7 DEF Quiet
    <3>6. \A c \in Calls : CallExact(c)' BY <1>1, <3>1 DEF CallExact, Quiet
    <3> QED BY <3>2, <3>4, <3>5, <3>6 DEF Exact
  <2> QED BY <2>4, <2>8 DEF BadgeInv
<1> QED BY <1>2, <1>3 DEF Create

LEMMA CountUnreadBadge ==
    ASSUME StreamBase, BadgeInv, NEW w \in StreamWorkers, CountUnread(w) PROVE BadgeInv'
<1>1. sworker[w].pc = "incr" /\ UNCHANGED <<inbox, call>> BY DEF CountUnread
<1>2. CASE Swallow(w) /\ disturbed' = TRUE /\ UNCHANGED unread
  <2>1. Go(w, "ack") BY <1>2 DEF Swallow
  <2>2. "ack" \in Phases \ {"incr"} BY DEF Phases
  <2> QED BY <1>1, <1>2, <2>1, <2>2, WorkerCalm
<1>3. CASE unread' = Badge + 1 /\ Go(w, "ack") /\ UNCHANGED <<stimuli, nfaults, disturbed>>
  <2>1. UnreadDocs' = UnreadDocs BY <1>1 DEF UnreadDocs
  <2>2. IsFiniteSet(UnreadDocs') /\ Unreads' = Unreads BY <2>1 DEF BadgeInv, Unreads
  <2>3. sworker'[w].pc = "ack" /\ \A v \in StreamWorkers \ {w} : sworker'[v].pc = sworker[v].pc
    <3> DEFINE S == Seq(1 .. next)
    <3>1. sworker \in [StreamWorkers -> [pc : Phases, batch : S, seq : Nat]]
      BY DEF StreamBase, StreamTypes
    <3> HIDE DEF S
    <3> QED BY <1>3, <3>1 DEF Go
  <2>4. ASSUME ~ disturbed' PROVE Single' /\ Exact'
    <3>1. Badge + 1 = Unreads /\ Single /\ Unreads \in Nat
      BY <1>1, <1>3, <2>4, BadgeNats DEF BadgeInv, Exact
    <3>2. Badge' = Unreads'
      <4>1. unread' = Unreads BY <1>3, <3>1
      <4> QED BY <2>2, <3>1, <4>1 DEF Badge, Absent
    <3>3. \A c \in Calls : call'[c].pc = "idle" BY <1>1, <3>1 DEF Single
    <3>4. \A v \in StreamWorkers : sworker'[v].pc # "incr" BY <1>1, <2>3, <3>1 DEF Single
    <3>5. \A c \in Calls : CallExact(c)' BY <3>3 DEF CallExact
    <3>6. Single' BY <3>3, <3>4 DEF Single
    <3> QED BY <3>2, <3>4, <3>5, <3>6 DEF Exact
  <2> QED BY <2>2, <2>4 DEF BadgeInv
<1> QED BY <1>2, <1>3 DEF CountUnread

---------------------------------------------------------------------------
(* One lemma per operation of the inbox.                                    *)

StreamInv == StreamBase /\ BadgeInv

LEMMA CallFacts ==
    ASSUME StreamBase, NEW c \in Calls
    PROVE  call[c] \in CallRecs /\ DOMAIN call = Calls
  BY DEF StreamBase, StreamTypes, CallRecs

\* An operation that leaves documents, counter and the stream alone.
LEMMA CallOnly ==
    ASSUME StreamInv, NEW c \in Calls, NEW rec \in CallRecs, Next1(c, rec), stimuli' \in Nat,
           UNCHANGED <<stream, sworker, ndlq, gates, shelf, declined, nfaults>>,
           \/ disturbed' = TRUE
           \/ disturbed' = disturbed /\ call[c].pc # "idle"
           \/ Opens,
           ~ disturbed' => /\ rec.pc = "idle" => Badge = Unreads
                           /\ rec.pc # "idle" => CallExact(c)'
    PROVE  StreamInv'
<1>1. call' \in [Calls -> CallRecs] BY CallTypes DEF StreamInv
<1>2. disturbed' \in BOOLEAN /\ (~ disturbed' => ~ disturbed /\ (call[c].pc # "idle" \/ Quiet))
  <2>1. CASE disturbed' = TRUE BY <2>1
  <2>2. CASE disturbed' = disturbed /\ call[c].pc # "idle" BY <2>2, StreamNats DEF StreamInv
  <2>3. CASE Opens BY <2>3, OpensQuiet DEF StreamInv
  <2> QED BY <2>1, <2>2, <2>3
<1>3. StreamBase'
  <2>1. /\ inbox' \in SUBSET Docs
        /\ \A d \in inbox' : \E e \in inbox : e.id = d.id /\ e.hash = d.hash /\ e.seq = d.seq
        /\ \A e \in inbox : \E d \in inbox' : d.hash = e.hash
        /\ \A d, e \in inbox' : d.id = e.id => d = e
    BY DEF StreamInv, StreamBase, StreamTypes, Deduped, Recorded, OneNoticePerHash
  <2> QED BY <1>1, <1>2, <2>1, InboxKeeps, StreamNats DEF StreamInv, CallRecs
<1>4. UnreadDocs' = UnreadDocs BY DEF UnreadDocs
<1>5. Unreads' = Unreads /\ Badge' = Badge /\ IsFiniteSet(UnreadDocs')
  BY <1>4 DEF Unreads, Badge, StreamInv, BadgeInv
<1>6. BadgeInv' BY <1>2, <1>5, CallBadge DEF StreamInv
<1> QED BY <1>3, <1>6 DEF StreamInv

\* An operation that sets the counter.
LEMMA CallCounts ==
    ASSUME StreamInv, NEW c \in Calls, NEW rec \in CallRecs, Next1(c, rec), stimuli' = stimuli,
           UNCHANGED <<stream, sworker, ndlq, gates, seqno, inbox, ghosts>>, unread' \in Int,
           call[c].pc # "idle",
           ~ disturbed => /\ rec.pc = "idle" => Badge' = Unreads
                          /\ rec.pc # "idle" => CallExact(c)'
    PROVE  StreamInv'
<1>1. call' \in [Calls -> CallRecs] BY CallTypes DEF StreamInv
<1>3. StreamBase'
  <2>1. /\ inbox' \in SUBSET Docs
        /\ \A d \in inbox' : \E e \in inbox : e.id = d.id /\ e.hash = d.hash /\ e.seq = d.seq
        /\ \A e \in inbox : \E d \in inbox' : d.hash = e.hash
        /\ \A d, e \in inbox' : d.id = e.id => d = e
    BY DEF StreamInv, StreamBase, StreamTypes, Deduped, Recorded, OneNoticePerHash
  <2> QED BY <1>1, <2>1, InboxKeeps, StreamNats DEF StreamInv, CallRecs
<1>4. UnreadDocs' = UnreadDocs BY DEF UnreadDocs
<1>5. Unreads' = Unreads /\ IsFiniteSet(UnreadDocs') BY <1>4 DEF Unreads, StreamInv, BadgeInv
<1>6. BadgeInv' BY <1>5, CallBadge DEF StreamInv
<1> QED BY <1>3, <1>6 DEF StreamInv

\* An operation that sets the status of documents.
LEMMA CallMarks ==
    ASSUME StreamInv, NEW c \in Calls, NEW rec \in CallRecs, Next1(c, rec), stimuli' \in Nat,
           UNCHANGED <<stream, sworker, ndlq, gates, seqno, unread, declined, nfaults>>,
           NEW ids, NEW s \in Statuses \ {"unread"}, SetStatus(ids, s),
           \/ disturbed' = disturbed /\ call[c].pc # "idle"
           \/ Opens,
           ~ disturbed' => /\ rec.pc = "idle" => Badge = Unreads'
                           /\ rec.pc # "idle" => CallExact(c)'
    PROVE  StreamInv'
<1>1. call' \in [Calls -> CallRecs] BY CallTypes DEF StreamInv
<1>2. disturbed' \in BOOLEAN /\ (~ disturbed' => ~ disturbed /\ (call[c].pc # "idle" \/ Quiet))
  BY OpensQuiet, StreamNats DEF StreamInv
<1>3. StreamBase'
  <2>1. /\ inbox' \in SUBSET Docs
        /\ \A d \in inbox' : \E e \in inbox : e.id = d.id /\ e.hash = d.hash /\ e.seq = d.seq
        /\ \A e \in inbox : \E d \in inbox' : d.hash = e.hash
        /\ \A d, e \in inbox' : d.id = e.id => d = e
    BY SetStatusFacts DEF StreamInv
  <2> QED BY <1>1, <1>2, <2>1, InboxKeeps, StreamNats DEF StreamInv, CallRecs
<1>4. IsFiniteSet(UnreadDocs') BY UnreadRest DEF StreamInv
<1>5. Badge' = Badge BY DEF Badge
<1>6. BadgeInv' BY <1>2, <1>4, <1>5, CallBadge DEF StreamInv
<1> QED BY <1>3, <1>6 DEF StreamInv

LEMMA CallIsAt ==
    ASSUME NEW pc \in CallPhases, NEW i \in Nat, NEW s \in Statuses \cup {"none"}, NEW n \in Nat
    PROVE  \E rec \in CallRecs : /\ rec = CallAt(pc, i, s, n)
                                 /\ rec.pc = pc /\ rec.id = i /\ rec.was = s /\ rec.n = n
<1> DEFINE rec == [pc |-> pc, id |-> i, was |-> s, n |-> n]
<1>1. rec \in CallRecs BY DEF CallRecs
<1> QED BY <1>1 DEF CallAt

LEMMA SpendsNat == ASSUME StreamBase, Spend(1) PROVE stimuli' \in Nat
  BY StreamNats DEF Spend

LEMMA MarkReadKeeps ==
    ASSUME StreamInv, NEW c \in Calls, MarkRead(c) PROVE StreamInv'
<1>1. PICK d \in inbox : /\ d.status = "unread" /\ SetStatus({d.id}, "read")
                         /\ Next1(c, CallAt("decr", d.id, "none", 0))
  BY DEF MarkRead
<1>2. /\ Spend(1) /\ Opens
      /\ UNCHANGED <<stream, sworker, ndlq, gates, seqno, unread, declined, nfaults>>
  BY DEF MarkRead
<1>3. PICK i \in Nat : i = d.id BY DEF StreamInv, StreamBase, StreamTypes, Docs
<1>4. PICK rec \in CallRecs : rec = CallAt("decr", i, "none", 0) /\ rec.pc = "decr"
  BY CallIsAt DEF CallPhases
<1>5. Next1(c, rec) BY <1>1, <1>3, <1>4
<1>6. stimuli' \in Nat BY <1>2, SpendsNat DEF StreamInv
<1>7. IsFiniteSet(UnreadDocs') /\ Unreads' = Unreads - 1
  BY <1>1, UnreadLess DEF StreamInv, Statuses
<1>8. call'[c] = rec BY <1>5, CallTypes DEF StreamInv
<1>9. ASSUME ~ disturbed' PROVE CallExact(c)'
  <2>1. ~ disturbed /\ Quiet BY <1>2, <1>9, OpensQuiet DEF StreamInv
  <2>2. Badge = Unreads /\ Unreads \in Nat BY <2>1, BadgeNats DEF StreamInv, BadgeInv, Exact
  <2>3. Badge' = Unreads' + 1 BY <1>2, <1>7, <2>2 DEF Badge
  <2> QED BY <1>4, <1>8, <2>3 DEF CallExact
<1> QED BY <1>1, <1>2, <1>4, <1>5, <1>6, <1>9, CallMarks DEF Statuses

LEMMA MarkAllReadKeeps ==
    ASSUME StreamInv, NEW c \in Calls, MarkAllRead(c) PROVE StreamInv'
<1>1. /\ Spend(1) /\ Opens /\ SetStatus({d.id : d \in UnreadDocs}, "read")
      /\ Next1(c, CallAt("count", 0, "none", 0))
      /\ UNCHANGED <<stream, sworker, ndlq, gates, seqno, unread, declined, nfaults>>
  BY DEF MarkAllRead
<1>2. PICK rec \in CallRecs : rec = CallAt("count", 0, "none", 0) /\ rec.pc = "count"
  BY CallIsAt DEF CallPhases
<1>3. call'[c] = rec BY <1>1, <1>2, CallTypes DEF StreamInv
<1>4. UnreadDocs' = {}
  <2>1. UnreadDocs' = {d \in UnreadDocs : d.id \notin {e.id : e \in UnreadDocs}}
    BY <1>1, UnreadRest DEF StreamInv, Statuses
  <2> QED BY <2>1
<1>5. Unreads' = 0 BY <1>4, FS_EmptySet DEF Unreads
<1>6. CallExact(c)' BY <1>2, <1>3, <1>5 DEF CallExact
<1>7. stimuli' \in Nat BY <1>1, SpendsNat DEF StreamInv
<1> QED BY <1>1, <1>2, <1>6, <1>7, CallMarks DEF Statuses

LEMMA SoftDeleteKeeps ==
    ASSUME StreamInv, NEW c \in Calls, SoftDelete(c) PROVE StreamInv'
<1>1. PICK d \in inbox : Next1(c, CallAt("delete", d.id, d.status, 0))
  BY DEF SoftDelete
<1>2. Spend(1) /\ Opens /\ UNCHANGED <<stream, sworker, ndlq, gates, shelf, declined, nfaults>>
  BY DEF SoftDelete
<1>3. PICK i \in Nat, s \in Statuses : i = d.id /\ s = d.status
  BY DEF StreamInv, StreamBase, StreamTypes, Docs
<1>4. PICK rec \in CallRecs : /\ rec = CallAt("delete", i, s, 0)
                              /\ rec.pc = "delete" /\ rec.id = i /\ rec.was = s
  BY CallIsAt DEF CallPhases
<1>5. Next1(c, rec) BY <1>1, <1>3, <1>4
<1>6. call'[c] = rec BY <1>5, CallTypes DEF StreamInv
<1>7. ASSUME ~ disturbed' PROVE CallExact(c)'
  <2>1. ~ disturbed /\ Quiet BY <1>2, <1>7, OpensQuiet DEF StreamInv
  <2>2. Badge = Unreads BY <2>1 DEF StreamInv, BadgeInv, Exact
  <2>3. UnreadDocs' = UnreadDocs BY <1>2 DEF UnreadDocs
  <2>4. Badge' = Unreads' BY <1>2, <2>2, <2>3 DEF Badge, Unreads
  <2>5. \E e \in inbox' : e.id = rec.id /\ e.status = rec.was BY <1>2, <1>3, <1>4
  <2> QED BY <1>4, <1>6, <2>4, <2>5 DEF CallExact
<1>8. stimuli' \in Nat BY <1>2, SpendsNat DEF StreamInv
<1> QED BY <1>2, <1>4, <1>5, <1>7, <1>8, CallOnly

LEMMA ListKeeps ==
    ASSUME StreamInv, NEW c \in Calls, List(c) PROVE StreamInv'
<1>1. /\ Spend(1) /\ Opens /\ Next1(c, CallAt("compare", 0, "none", Unreads))
      /\ UNCHANGED <<stream, sworker, ndlq, gates, shelf, declined, nfaults>>
  BY DEF List, Unreads
<1>2. PICK n \in Nat : n = Unreads BY BadgeNats DEF StreamInv
<1>3. PICK rec \in CallRecs : rec = CallAt("compare", 0, "none", n) /\ rec.pc = "compare" /\ rec.n = n
  BY CallIsAt DEF CallPhases
<1>4. Next1(c, rec) BY <1>1, <1>2, <1>3
<1>5. call'[c] = rec BY <1>4, CallTypes DEF StreamInv
<1>6. ASSUME ~ disturbed' PROVE CallExact(c)'
  <2>1. ~ disturbed /\ Quiet BY <1>1, <1>6, OpensQuiet DEF StreamInv
  <2>2. Badge = Unreads BY <2>1 DEF StreamInv, BadgeInv, Exact
  <2>3. UnreadDocs' = UnreadDocs BY <1>1 DEF UnreadDocs
  <2>4. Badge' = Unreads' /\ Unreads' = n BY <1>1, <1>2, <2>2, <2>3 DEF Badge, Unreads
  <2> QED BY <1>3, <1>5, <2>4 DEF CallExact
<1>7. stimuli' \in Nat BY <1>1, SpendsNat DEF StreamInv
<1> QED BY <1>1, <1>3, <1>4, <1>6, <1>7, CallOnly

\* What a request still to be done knows.
LEMMA CallKnows ==
    ASSUME StreamInv, NEW c \in Calls, ~ disturbed PROVE CallExact(c)
  BY DEF StreamInv, BadgeInv, Exact

LEMMA NoCallIs == NoCall \in CallRecs /\ NoCall.pc = "idle"
  BY CallIsAt DEF NoCall, CallPhases

LEMMA DeleteItKeeps ==
    ASSUME StreamInv, NEW c \in Calls, DeleteIt(c) PROVE StreamInv'
<1>1. /\ call[c].pc = "delete" /\ SetStatus({call[c].id}, "deleted")
      /\ Next1(c, IF call[c].was = "unread" THEN [call[c] EXCEPT !.pc = "decr"] ELSE NoCall)
      /\ UNCHANGED <<stimuli, stream, sworker, ndlq, gates, seqno, unread, ghosts>>
  BY DEF DeleteIt
<1>2. call[c] \in CallRecs BY CallFacts DEF StreamInv
<1>3. PICK rec \in CallRecs : /\ Next1(c, rec)
                              /\ rec.pc = IF call[c].was = "unread" THEN "decr" ELSE "idle"
  <2>1. [call[c] EXCEPT !.pc = "decr"] \in CallRecs /\ [call[c] EXCEPT !.pc = "decr"].pc = "decr"
    BY <1>2 DEF CallRecs, CallPhases
  <2> QED BY <1>1, <2>1, NoCallIs
<1>4. call'[c] = rec BY <1>3, CallTypes DEF StreamInv
<1>5. stimuli' \in Nat BY <1>1, StreamNats DEF StreamInv
<1>6. ASSUME ~ disturbed'
      PROVE  /\ rec.pc = "idle" => Badge = Unreads'
             /\ rec.pc # "idle" => CallExact(c)'
  <2>1. ~ disturbed BY <1>1, <1>6
  <2>2. PICK d \in inbox : Badge = Unreads /\ d.id = call[c].id /\ d.status = call[c].was
    BY <1>1, <2>1, CallKnows DEF CallExact
  <2>3. Unreads' = IF d.status = "unread" THEN Unreads - 1 ELSE Unreads
    <3>1. \A e \in inbox : e.id \in {call[c].id} <=> e.id = d.id BY <2>2
    <3> QED BY <1>1, <3>1, UnreadLess DEF StreamInv, Statuses
  <2>4. Badge' = Badge BY <1>1 DEF Badge
  <2>5. Unreads \in Nat BY BadgeNats DEF StreamInv
  <2>6. CASE call[c].was = "unread"
    <3>1. rec.pc = "decr" /\ Badge' = Unreads' + 1 BY <1>3, <2>2, <2>3, <2>4, <2>5, <2>6
    <3> QED BY <1>4, <3>1 DEF CallExact
  <2>7. CASE call[c].was # "unread" BY <1>3, <2>2, <2>3, <2>7
  <2> QED BY <2>6, <2>7
<1> QED BY <1>1, <1>3, <1>5, <1>6, CallMarks DEF Statuses

LEMMA DecrementKeeps ==
    ASSUME StreamInv, NEW c \in Calls, Decrement(c) PROVE StreamInv'
<1>1. /\ call[c].pc = "decr" /\ unread' = Badge - 1
      /\ Next1(c, IF Badge < 1 THEN CallAt("zero", 0, "none", 0) ELSE NoCall)
      /\ UNCHANGED <<stimuli, stream, sworker, ndlq, gates, seqno, inbox, ghosts>>
  BY DEF Decrement
<1>2. PICK rec \in CallRecs : Next1(c, rec) /\ (Badge >= 1 => rec.pc = "idle")
  <2>1. PICK z \in CallRecs : z = CallAt("zero", 0, "none", 0) BY CallIsAt DEF CallPhases
  <2>2. Badge \in Int BY BadgeNats DEF StreamInv
  <2> QED BY <1>1, <2>1, <2>2, NoCallIs
<1>3. unread' \in Int BY <1>1, BadgeNats DEF StreamInv
<1>4. ASSUME ~ disturbed PROVE rec.pc = "idle" /\ Badge' = Unreads
  <2>1. Badge = Unreads + 1 BY <1>1, <1>4, CallKnows DEF CallExact
  <2>2. Unreads \in Nat BY BadgeNats DEF StreamInv
  <2>3. unread' = Unreads BY <1>1, <2>1, <2>2
  <2>4. Badge' = Unreads BY <2>2, <2>3 DEF Badge, Absent
  <2>5. Badge >= 1 BY <2>1, <2>2
  <2> QED BY <1>2, <2>4, <2>5
<1>5. /\ UNCHANGED <<stream, sworker, ndlq, gates, seqno, inbox, ghosts>>
      /\ stimuli' = stimuli /\ call[c].pc # "idle"
  BY <1>1
<1>6. ~ disturbed => /\ rec.pc = "idle" => Badge' = Unreads
                     /\ rec.pc # "idle" => CallExact(c)'
  BY <1>4
<1>7. Next1(c, rec) BY <1>2
<1> QED BY <1>3, <1>5, <1>6, <1>7, CallCounts

LEMMA ZeroKeeps ==
    ASSUME StreamInv, NEW c \in Calls, Zero(c) PROVE StreamInv'
<1>1. /\ call[c].pc = "zero" /\ unread' = 0 /\ Next1(c, NoCall)
      /\ UNCHANGED <<stimuli, stream, sworker, ndlq, gates, seqno, inbox, ghosts>>
  BY DEF Zero
<1>2. disturbed BY <1>1, CallKnows DEF CallExact, StreamInv
<1> QED BY <1>1, <1>2, NoCallIs, CallCounts

LEMMA CompareKeeps ==
    ASSUME StreamInv, NEW c \in Calls, Compare(c) PROVE StreamInv'
<1>1. /\ call[c].pc = "compare"
      /\ \/ Next1(c, [call[c] EXCEPT !.pc = "set"])
         \/ Next1(c, NoCall)
      /\ UNCHANGED <<stimuli, stream, sworker, ndlq, gates, shelf, ghosts>>
  BY DEF Compare
<1>2. call[c] \in CallRecs BY CallFacts DEF StreamInv
<1>3. PICK rec \in CallRecs : /\ Next1(c, rec)
                              /\ rec.pc = "idle" \/ (rec.pc = "set" /\ rec.n = call[c].n)
  <2> DEFINE set == [call[c] EXCEPT !.pc = "set"]
  <2>1. set \in CallRecs /\ set.pc = "set" /\ set.n = call[c].n
    BY <1>2 DEF CallRecs, CallPhases
  <2> HIDE DEF set
  <2>2. Next1(c, set) \/ Next1(c, NoCall) BY <1>1 DEF set
  <2> QED BY <2>1, <2>2, NoCallIs
<1>4. call'[c] = rec BY <1>3, CallTypes DEF StreamInv
<1>5. stimuli' \in Nat BY <1>1, StreamNats DEF StreamInv
<1>6. ASSUME ~ disturbed'
      PROVE  /\ rec.pc = "idle" => Badge = Unreads
             /\ rec.pc # "idle" => CallExact(c)'
  <2>1. call[c].n = Unreads /\ Badge = Unreads BY <1>1, <1>6, CallKnows DEF CallExact
  <2>2. UnreadDocs' = UnreadDocs BY <1>1 DEF UnreadDocs
  <2>3. Unreads' = Unreads BY <2>2 DEF Unreads
  <2> QED BY <1>3, <1>4, <2>1, <2>3 DEF CallExact
<1>7. disturbed' = disturbed /\ call[c].pc # "idle" BY <1>1
<1> QED BY <1>1, <1>3, <1>5, <1>6, <1>7, CallOnly

LEMMA CountDocsKeeps ==
    ASSUME StreamInv, NEW c \in Calls, CountDocs(c) PROVE StreamInv'
<1>1. /\ call[c].pc = "count" /\ Next1(c, CallAt("set", call[c].id, call[c].was, Unreads))
      /\ UNCHANGED <<stimuli, stream, sworker, ndlq, gates, shelf, ghosts>>
  BY DEF CountDocs, Unreads
<1>2. PICK n \in Nat : n = Unreads BY BadgeNats DEF StreamInv
<1>3. PICK i \in Nat, s \in Statuses \cup {"none"} : i = call[c].id /\ s = call[c].was
  BY CallFacts DEF StreamInv, CallRecs
<1>4. PICK rec \in CallRecs : rec = CallAt("set", i, s, n) /\ rec.pc = "set" /\ rec.n = n
  BY CallIsAt DEF CallPhases
<1>5. Next1(c, rec) BY <1>1, <1>2, <1>3, <1>4
<1>6. call'[c] = rec BY <1>5, CallTypes DEF StreamInv
<1>7. UnreadDocs' = UnreadDocs BY <1>1 DEF UnreadDocs
<1>8. Unreads' = n BY <1>2, <1>7 DEF Unreads
<1>9. CallExact(c)' BY <1>4, <1>6, <1>8 DEF CallExact
<1>10. stimuli' \in Nat BY <1>1, StreamNats DEF StreamInv
<1>11. disturbed' = disturbed /\ call[c].pc # "idle" BY <1>1
<1> QED BY <1>1, <1>4, <1>5, <1>9, <1>10, <1>11, CallOnly

LEMMA SetUnreadKeeps ==
    ASSUME StreamInv, NEW c \in Calls, SetUnread(c) PROVE StreamInv'
<1>1. /\ call[c].pc = "set" /\ unread' = call[c].n /\ Next1(c, NoCall)
      /\ UNCHANGED <<stimuli, stream, sworker, ndlq, gates, seqno, inbox, ghosts>>
  BY DEF SetUnread
<1>2. call[c].n \in Nat BY CallFacts DEF StreamInv, CallRecs
<1>3. unread' \in Int /\ Badge' = call[c].n BY <1>1, <1>2 DEF Badge, Absent
<1>4. ~ disturbed => call[c].n = Unreads BY <1>1, CallKnows DEF CallExact
<1> QED BY <1>1, <1>3, <1>4, NoCallIs, CallCounts

LEMMA CallDiesKeeps ==
    ASSUME StreamInv, NEW c \in Calls, CallDies(c) PROVE StreamInv'
<1>1. /\ Spend(1) /\ Next1(c, NoCall) /\ disturbed' = TRUE
      /\ UNCHANGED <<stream, sworker, ndlq, gates, shelf, declined, nfaults>>
  BY DEF CallDies
<1>2. stimuli' \in Nat BY <1>1, SpendsNat DEF StreamInv
<1> QED BY <1>1, <1>2, NoCallIs, CallOnly

---------------------------------------------------------------------------
(* Every step of the pipeline.                                              *)

LEMMA SameInbox ==
    ASSUME StreamBase, inbox' = inbox
    PROVE  /\ inbox' \in SUBSET Docs
           /\ \A d \in inbox' : \E e \in inbox : e.id = d.id /\ e.hash = d.hash /\ e.seq = d.seq
           /\ \A e \in inbox : \E d \in inbox' : d.hash = e.hash
           /\ \A d, e \in inbox' : d.id = e.id => d = e
  BY DEF StreamBase, StreamTypes, Deduped, Recorded, OneNoticePerHash

LEMMA GateKeeps ==
    ASSUME StreamInv, stimuli' \in Nat, hasPrefs' \in BOOLEAN, throttle' \in Nat,
           UNCHANGED <<stream, sworker, ndlq, dedupe, shelf, call, ghosts>>
    PROVE  StreamInv'
<1>1. StreamBase'
  <2>1. call' \in [Calls -> [pc : CallPhases, id : Nat, was : Statuses \cup {"none"}, n : Nat]]
    BY DEF StreamInv, StreamBase, StreamTypes
  <2>2. unread' \in Int /\ disturbed' \in BOOLEAN BY StreamNats DEF StreamInv
  <2> QED BY <2>1, <2>2, SameInbox, InboxKeeps DEF StreamInv
<1>2. BadgeInv' BY BadgeFrame DEF StreamInv
<1> QED BY <1>1, <1>2 DEF StreamInv

\* The pipeline is left alone; other components may use up the budget of stimuli.
LEMMA StreamFrame ==
    ASSUME StreamInv, UNCHANGED streamVars, stimuli' \in Nat PROVE StreamInv'
<1>1. hasPrefs' \in BOOLEAN /\ throttle' \in Nat BY StreamNats DEF StreamInv, streamVars
<1> QED BY <1>1, GateKeeps DEF streamVars

LEMMA PublishInv ==
    ASSUME StreamInv, NEW ev \in Notices, Publish(ev) PROVE StreamInv'
<1>1. StreamBase' BY PublishKeeps DEF StreamInv
<1>2. BadgeInv' BY BadgeFrame DEF StreamInv, Publish
<1> QED BY <1>1, <1>2 DEF StreamInv

LEMMA WorkerSteps ==
    ASSUME StreamInv, NEW w \in StreamWorkers, WorkerStep(w) PROVE StreamInv'
<1> USE DEF StreamInv
<1>1. CASE Read(w)
  <2>1. StreamBase' BY <1>1, ReadKeeps
  <2>2. BadgeInv' BY <1>1, ReadBadge DEF Read
  <2> QED BY <2>1, <2>2
<1>2. CASE \E ids \in SUBSET pending : Reclaim(w, ids)
  <2>1. PICK ids \in SUBSET pending : Reclaim(w, ids) BY <1>2
  <2>2. StreamBase' BY <2>1, ReclaimKeeps
  <2>3. BadgeInv' BY <2>1, ReadBadge DEF Reclaim
  <2> QED BY <2>2, <2>3
<1>3. CASE CheckFeature(w) BY <1>3, CheckFeatureKeeps, CalmSteps
<1>4. CASE DeadLetter(w) BY <1>4, DeadLetterKeeps1, CalmSteps
<1>5. CASE DeadLetterFails(w) BY <1>5, DeadLetterFailsKeeps, CalmSteps
<1>6. CASE FindPrefs(w) BY <1>6, FindPrefsKeeps, CalmSteps
<1>7. CASE MakePrefs(w) BY <1>7, MakePrefsKeeps, CalmSteps
<1>8. CASE Throttle(w) BY <1>8, ThrottleKeeps, CalmSteps
<1>9. CASE SetWindow(w) BY <1>9, SetWindowKeeps, CalmSteps
<1>10. CASE Dedupe(w) BY <1>10, DedupeKeeps, CalmSteps
<1>11. CASE NextSeq(w) BY <1>11, NextSeqKeeps, CalmSteps
<1>12. CASE Create(w) BY <1>12, CreateKeeps, CreateBadge
<1>13. CASE CountUnread(w) BY <1>13, CountUnreadKeeps, CountUnreadBadge
<1>14. CASE Ack(w) BY <1>14, AckKeeps, CalmSteps
<1>15. CASE StreamCrash(w) BY <1>15, StreamCrashKeeps, CalmSteps
<1> QED BY <1>1, <1>2, <1>3, <1>4, <1>5, <1>6, <1>7, <1>8, <1>9, <1>10, <1>11, <1>12,
           <1>13, <1>14, <1>15 DEF WorkerStep

LEMMA StreamSteps == ASSUME StreamInv, StreamNext PROVE StreamInv'
<1>1. CASE \E ev \in Notices : Publish(ev) BY <1>1, PublishInv
<1>2. CASE \E w \in StreamWorkers : WorkerStep(w) BY <1>2, WorkerSteps
<1>3. CASE \E c \in Calls : CallStep(c)
  <2> SUFFICES ASSUME NEW c \in Calls, CallStep(c) PROVE StreamInv'
    BY <1>3
  <2> QED BY MarkReadKeeps, MarkAllReadKeeps, SoftDeleteKeeps, ListKeeps, DeleteItKeeps,
             DecrementKeeps, ZeroKeeps, CompareKeeps, CountDocsKeeps, SetUnreadKeeps,
             CallDiesKeeps DEF CallStep
<1>4. CASE \E cats \in {{}, {"portfolio"}} : PatchPrefs(cats)
  <2>1. /\ Spend(1) /\ hasPrefs' = TRUE
        /\ UNCHANGED <<stream, sworker, ndlq, throttle, dedupe, shelf, call, ghosts>>
    BY <1>4 DEF PatchPrefs
  <2>2. stimuli' \in Nat /\ throttle' \in Nat BY <2>1, SpendsNat, StreamNats DEF StreamInv
  <2> QED BY <2>1, <2>2, GateKeeps
<1>5. CASE WindowEnds
  <2>1. /\ Spend(1) /\ throttle' = 0
        /\ UNCHANGED <<stream, sworker, ndlq, hasPrefs, dedupe, shelf, call, ghosts>>
    BY <1>5 DEF WindowEnds
  <2>2. stimuli' \in Nat /\ hasPrefs' \in BOOLEAN BY <2>1, SpendsNat, StreamNats DEF StreamInv
  <2> QED BY <2>1, <2>2, GateKeeps
<1> QED BY <1>1, <1>2, <1>3, <1>4, <1>5 DEF StreamNext

LEMMA StreamStart == ASSUME StreamInit, stimuli = 0 PROVE StreamInv
<1>1. StreamTypes
  <2>1. sworker \in [StreamWorkers -> [pc : Phases, batch : Seq(1 .. next), seq : Nat]]
        /\ \A w \in StreamWorkers : sworker[w].pc = "idle" /\ sworker[w].batch = <<>>
    <3> DEFINE S == Seq(1 .. next)
    <3>1. <<>> \in S OBVIOUS
    <3> HIDE DEF S
    <3>2. [w \in StreamWorkers |-> NoWork] \in [StreamWorkers -> [pc : Phases, batch : S, seq : Nat]]
      BY <3>1 DEF NoWork, Phases
    <3>3. \A w \in StreamWorkers : sworker[w].pc = "idle" /\ sworker[w].batch = <<>>
      BY DEF StreamInit, NoWork
    <3> QED BY <3>2, <3>3 DEF StreamInit, S
  <2>2. call \in [Calls -> [pc : CallPhases, id : Nat, was : Statuses \cup {"none"}, n : Nat]]
    <3>1. NoCall \in CallRecs BY NoCallIs
    <3> QED BY <3>1 DEF StreamInit, CallRecs
  <2>3. log \in Seq(Notices) /\ next \in 0 .. Len(log) BY DEF StreamInit
  <2>4. unread \in Int BY DEF StreamInit, Absent
  <2> QED BY <2>1, <2>2, <2>3, <2>4 DEF StreamInit, StreamTypes
<1>2. Deduped BY <1>1 DEF Deduped, Recorded, OneNoticePerHash, Taken, Alone, Written, StreamInit, NoWork
<1>3. Paid
  <2>1. \A h \in Hashes : ~ Spoilt(h) BY DEF Spoilt, StreamInit
  <2>2. Bad = {} BY <2>1 DEF Bad
  <2> QED BY <2>2, FS_EmptySet DEF Paid, StreamInit
<1>4. BadgeInv
  <2>1. UnreadDocs = {} BY DEF UnreadDocs, StreamInit
  <2>2. IsFiniteSet(UnreadDocs) /\ Unreads = 0 BY <2>1, FS_EmptySet DEF Unreads
  <2>3. Badge = 0 BY DEF Badge, StreamInit
  <2>4. (\A c \in Calls : call[c].pc = "idle") /\ \A w \in StreamWorkers : sworker[w].pc = "idle"
    BY NoCallIs DEF StreamInit, NoWork
  <2>5. Single BY <2>4 DEF Single
  <2>6. Exact BY <2>2, <2>3, <2>4 DEF Exact, CallExact
  <2> QED BY <2>2, <2>5, <2>6 DEF BadgeInv
<1> QED BY <1>1, <1>2, <1>3, <1>4 DEF StreamInv, StreamBase

\* What the invariant says of the hashes that were lost, the notices and the badge.
LEMMA StreamMeaning ==
    ASSUME StreamInv
    PROVE  OneNoticePerHash /\ LossesArePaidFor /\ BadgeAgrees /\ StreamTypeOK
<1> USE DEF StreamInv
<1>1. OneNoticePerHash BY DEF StreamBase, Deduped
<1>2. LossesArePaidFor
  <2>1. LostHashes \in SUBSET Bad
    <3> SUFFICES ASSUME NEW i \in 1 .. next, i \notin pending, i \notin ndlq, i \notin declined,
                        \A d \in inbox : d.hash # Hash(i), ~ InFlight(Hash(i))
                 PROVE  Hash(i) \in Bad
      BY DEF LostHashes
    <3>1. Hash(i) \in Hashes
      <4>1. StreamTypes /\ i \in 1 .. Len(log) BY DEF StreamBase, StreamTypes
      <4>2. \A j \in 1 .. Len(log) : Hash(j) \in Hashes
        <5> SUFFICES ASSUME NEW j \in 1 .. Len(log) PROVE Hash(j) \in Hashes OBVIOUS
        <5>1. log[j] \in Notices /\ j \in Nat BY <4>1 DEF StreamTypes
        <5> QED BY <5>1 DEF Hash, Hashes
      <4> QED BY <4>1, <4>2
    <3>2. ~ Flying(Hash(i)) BY DEF Flying, InFlight, CurHash
    <3>3. NoDoc(Hash(i)) BY DEF NoDoc
    <3>4. Settled(i) BY DEF Settled
    <3>5. Spoilt(Hash(i)) BY <3>2, <3>3, <3>4 DEF Spoilt
    <3> QED BY <3>1, <3>5 DEF Bad
  <2>2. IsFiniteSet(LostHashes) /\ Cardinality(LostHashes) <= Cardinality(Bad)
    BY <2>1, FS_Subset DEF StreamBase, Paid
  <2>3. Cardinality(LostHashes) \in Nat /\ Cardinality(Bad) \in Nat
    BY <2>2, FS_CardinalityType DEF StreamBase, Paid
  <2> QED BY <2>2, <2>3, StreamNats DEF LossesArePaidFor, StreamBase, Paid
<1>3. BadgeAgrees BY CountingQuiet DEF BadgeAgrees, BadgeInv, Exact, Unreads
<1>4. StreamTypeOK
  <2>1. next \in 0 .. Len(log) /\ pending \in SUBSET (1 .. next) /\ ndlq \in SUBSET (1 .. next)
    BY DEF StreamBase, StreamTypes
  <2>2. \A w \in StreamWorkers : (sworker[w].pc = "idle") = (sworker[w].batch = <<>>)
    BY DEF StreamBase, StreamTypes
  <2>3. \A ev : Category(ev) \in {"security", "social", "market", "news", "portfolio"}
    BY DEF Category
  <2>4. hasPrefs \in BOOLEAN /\ throttle \in Nat /\ seqno \in Nat /\ unread \in Int
    BY StreamNats
  <2>5. \A d \in inbox : d.status \in {"unread", "read", "deleted"} /\ d.seq \in 1 .. seqno
    BY DEF StreamBase, StreamTypes, Docs, Statuses
  <2> QED BY <2>1, <2>2, <2>3, <2>4, <2>5 DEF StreamTypeOK
<1> QED BY <1>1, <1>2, <1>3, <1>4
============================================================================
