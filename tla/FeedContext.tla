---------------------------- MODULE FeedContext -----------------------------
(* What readers make of a user's published analytics (piRead.service and the *)
(* facade): the feed context behind two caches, the feed intelligence behind *)
(* a third, and the latest analytics with its manifest.  Publications, one   *)
(* at a time (PiRecompute), go on between a reader's calls; revision n is    *)
(* computed from the n-th replacement of the positions.                      *)
EXTENDS Budget, Integers, Sequences

CONSTANT Readers \* requests: context, feed intelligence or latest analytics

VARIABLES step,         \* the publication's next call, or "none"
          positions,    \* PortfolioPosition rows: their version, 0 for none
          userRevision, \* user revision counter
          analytics,    \* analytics key: revision of the payload, 0 when expired
          manifest,     \* manifest key: [rev, partial]
          document,     \* newest PortfolioAnalyticsSnapshot
          faulty,       \* ghost: the last publication threw, or was partial
          swallowed,    \* ghost: a write of the analytics key was swallowed
          contexts,     \* key -> NoContext or what is cached there
          reading       \* request -> [pc, kind, dto, own]

publicationVars == <<step, positions, userRevision, analytics, manifest, document, faulty, swallowed>>
contextVars == <<publicationVars, contexts, reading>>

\* rows and payload: the versions a reader saw; rev: the revision it reports;
\* crossed: the publication took a step between the reader's calls.
Blank == [rows |-> 0, payload |-> 0, rev |-> 0, stale |-> FALSE, crossed |-> FALSE]
NoContext == [Blank EXCEPT !.rev = -1]
Holds(key) == contexts[key] # NoContext
Crossed == [q \in Readers |-> [reading[q] EXCEPT !.dto.crossed = @ \/ reading[q].pc \notin {"idle", "done"}]]
-----------------------------------------------------------------------------
\* processJob: positions replaced by delete and insert, publishUserAnalytics,
\* the document; then, unless any of it is partial, both contexts are dropped
\* and built from the positions read once more.
Steps == <<"insert", "bump", "activate", "manifest", "save", "drop1", "drop2", "read", "set2", "set1", "none">>
Advance(name) ==
  /\ step = name /\ reading' = Crossed
  /\ step' = Steps[1 + CHOOSE i \in DOMAIN Steps : Steps[i] = name]

ReplacePositions ==
  /\ step = "none" /\ Spend(1) /\ step' = "insert" /\ positions' = 0
  /\ faulty' = FALSE /\ reading' = Crossed
  /\ UNCHANGED <<userRevision, analytics, manifest, document, swallowed, contexts>>

InsertPositions ==
  /\ Advance("insert") /\ positions' = userRevision + 1
  /\ UNCHANGED <<stimuli, userRevision, analytics, manifest, document, faulty, swallowed, contexts>>

BumpRevision ==
  /\ Advance("bump") /\ userRevision' = userRevision + 1
  /\ UNCHANGED <<stimuli, positions, analytics, manifest, document, faulty, swallowed, contexts>>

\* cacheHelpers.set swallows an error.
Activate ==
  /\ Advance("activate")
  /\ \/ analytics' = userRevision /\ swallowed' = swallowed /\ UNCHANGED stimuli
     \/ Spend(1) /\ swallowed' = TRUE /\ UNCHANGED analytics
  /\ UNCHANGED <<positions, userRevision, manifest, document, faulty, contexts>>

PublishManifest ==
  /\ Advance("manifest")
  /\ \E partial \in BOOLEAN : manifest' = [rev |-> userRevision, partial |-> partial]
  /\ UNCHANGED <<stimuli, positions, userRevision, analytics, document, faulty, swallowed, contexts>>

SaveDocument ==
  /\ step = "save" /\ reading' = Crossed /\ document' = userRevision
  /\ step' = IF manifest.partial THEN "none" ELSE "drop1"
  /\ faulty' = manifest.partial
  /\ UNCHANGED <<stimuli, positions, userRevision, analytics, manifest, swallowed, contexts>>

Built == [Blank EXCEPT !.rows = positions, !.payload = userRevision, !.rev = userRevision]

\* invalidateFeedContext and buildFeedContextV2; a failing write is swallowed.
RefreshContexts ==
  /\ \/ Advance("drop1") /\ contexts' = [contexts EXCEPT !["v1"] = NoContext]
     \/ Advance("drop2") /\ contexts' = [contexts EXCEPT !["v2"] = NoContext]
     \/ Advance("read") /\ UNCHANGED contexts
     \/ \E key \in {"v1", "v2"} :
          /\ Advance(IF key = "v2" THEN "set2" ELSE "set1")
          /\ contexts' \in {contexts, [contexts EXCEPT ![key] = Built]}
  /\ UNCHANGED <<stimuli, positions, userRevision, analytics, manifest, document, faulty, swallowed>>

\* Any of the calls throws, or the process dies.
Break ==
  /\ step # "none" /\ Spend(1) /\ step' = "none" /\ faulty' = TRUE /\ reading' = Crossed
  /\ UNCHANGED <<positions, userRevision, analytics, manifest, document, swallowed, contexts>>

\* Time to live: of a context, of the feed intelligence, of the analytics.
ExpireContext(key) ==
  /\ Holds(key) /\ Spend(1) /\ contexts' = [contexts EXCEPT ![key] = NoContext]
  /\ UNCHANGED <<publicationVars, reading>>

ExpireAnalytics ==
  /\ analytics > 0 /\ Spend(1) /\ analytics' = 0
  /\ UNCHANGED <<step, positions, userRevision, manifest, document, faulty, swallowed, contexts, reading>>
-----------------------------------------------------------------------------
Goes(q, pc, dto) ==
  /\ reading[q].pc # pc /\ reading' = [reading EXCEPT ![q].pc = pc, ![q].dto = dto]

\* getAnalyticsPayload: the key, or when it is gone the newest document.
CurrentPayload == IF analytics > 0 THEN analytics ELSE document

\* A request.  The feed intelligence loads the payload beside the context:
\* before it, here, or after it, in ReadOwn.
AskFor(q, kind) ==
  /\ reading[q].pc = "idle" /\ Spend(1)
  /\ \E own \in (IF kind = "intel" /\ ~Holds("intel") THEN {-1, CurrentPayload} ELSE {-1}) :
       reading' = [reading EXCEPT ![q] =
         [pc |-> IF kind = "latest" THEN "manifest"
                 ELSE IF kind = "intel" /\ Holds("intel") THEN "done" ELSE "ask",
          kind |-> kind, own |-> own,
          dto |-> IF kind = "intel" /\ Holds("intel") THEN contexts["intel"] ELSE Blank]]
  /\ UNCHANGED <<publicationVars, contexts>>

\* A context is there: the answer, or what the feed intelligence goes on from.
Got(q, dto) == Goes(q, IF reading[q].kind = "intel" THEN "own" ELSE "done", dto)

\* getContext: with personalisation off, for all or for the user, the context
\* is empty and no cache is touched.
AskContext(q) ==
  /\ reading[q].pc = "ask"
  /\ \/ Got(q, Blank) /\ Spend(1)
     \/ /\ IF Holds("v2") THEN Got(q, contexts["v2"])
           ELSE IF Holds("v1") THEN Got(q, contexts["v1"])
           ELSE Goes(q, "positions", [reading[q].dto EXCEPT !.payload = CurrentPayload])
        /\ UNCHANGED stimuli
  /\ UNCHANGED <<publicationVars, contexts>>

\* The positions and the revision are asked for together and come in any order.
ReadPositions(q) ==
  /\ \/ reading[q].pc = "positions"
        /\ \/ Goes(q, "revision", [reading[q].dto EXCEPT !.rows = positions])
           \/ Goes(q, "late", [reading[q].dto EXCEPT !.rev = userRevision])
     \/ reading[q].pc = "revision" /\ Goes(q, "flags", [reading[q].dto EXCEPT !.rev = userRevision])
     \/ reading[q].pc = "late" /\ Goes(q, "flags", [reading[q].dto EXCEPT !.rows = positions])
  /\ UNCHANGED <<stimuli, publicationVars, contexts>>

ReadFlags(q) ==
  /\ reading[q].pc = "flags" /\ Goes(q, "store", [reading[q].dto EXCEPT !.stale = manifest.partial])
  /\ UNCHANGED <<stimuli, publicationVars, contexts>>

\* The context is kept under the older key.
StoreContext(q) ==
  /\ reading[q].pc = "store" /\ Got(q, reading[q].dto)
  /\ contexts' = [contexts EXCEPT !["v1"] = reading[q].dto]
  /\ UNCHANGED <<stimuli, publicationVars>>

\* getFeedIntelligenceContext: its payload, the revision, and the answer.
ReadOwn(q) ==
  /\ reading[q].pc = "own"
  /\ Goes(q, "contract", [reading[q].dto EXCEPT
       !.payload = IF reading[q].own >= 0 THEN reading[q].own ELSE CurrentPayload])
  /\ UNCHANGED <<stimuli, publicationVars, contexts>>

StoreIntel(q) ==
  /\ reading[q].pc = "contract"
  /\ LET contract == [reading[q].dto EXCEPT !.rev = userRevision]
     IN  /\ Goes(q, "done", contract)
         /\ contexts' = IF contract.payload = 0 THEN contexts ELSE [contexts EXCEPT !["intel"] = contract]
  /\ UNCHANGED <<stimuli, publicationVars>>

\* getLatestAnalytics: the manifest, then the payload; without either of them
\* both come from the newest document.
ReadManifest(q) ==
  /\ reading[q].pc = "manifest" /\ Goes(q, "latest", [reading[q].dto EXCEPT !.rev = manifest.rev])
  /\ UNCHANGED <<stimuli, publicationVars, contexts>>

ReadLatest(q) ==
  /\ reading[q].pc = "latest"
  /\ Goes(q, "done", IF analytics > 0 \/ reading[q].dto.rev > 0
                     THEN [reading[q].dto EXCEPT !.payload = analytics]
                     ELSE [reading[q].dto EXCEPT !.payload = document, !.rev = document])
  /\ UNCHANGED <<stimuli, publicationVars, contexts>>
-----------------------------------------------------------------------------
ContextInit ==
  /\ step = "none" /\ positions = 0 /\ userRevision = 0 /\ analytics = 0 /\ document = 0
  /\ faulty = FALSE /\ swallowed = FALSE /\ manifest = [rev |-> 0, partial |-> FALSE]
  /\ contexts = [key \in {"v1", "v2", "intel"} |-> NoContext]
  /\ reading = [q \in Readers |-> [pc |-> "idle", kind |-> "none", own |-> -1, dto |-> Blank]]

ContextNext ==
  \/ ReplacePositions \/ InsertPositions \/ BumpRevision \/ Activate \/ PublishManifest
  \/ SaveDocument \/ RefreshContexts \/ Break \/ ExpireAnalytics
  \/ \E key \in DOMAIN contexts : ExpireContext(key)
  \/ \E q \in Readers :
       \/ \E kind \in {"context", "intel", "latest"} : AskFor(q, kind)
       \/ AskContext(q) \/ ReadPositions(q) \/ ReadFlags(q) \/ StoreContext(q)
       \/ ReadOwn(q) \/ StoreIntel(q) \/ ReadManifest(q) \/ ReadLatest(q)
-----------------------------------------------------------------------------
\* Between publications that went through, a cached context is made of the
\* published revision, positions and payload both, unless the request that
\* stored it read across the publication (or a swallowed write left the old
\* payload active).
ContextFollowsPublication ==
  step = "none" /\ ~faulty /\ ~swallowed =>
    \A key \in {"v1", "v2"} : Holds(key) /\ ~contexts[key].crossed =>
      contexts[key].payload = manifest.rev /\ contexts[key].rows = manifest.rev

\* No reader is told an older revision than that of the payload it is given,
\* except the latest analytics, whose manifest is read first: that one is never
\* newer than the payload, unless the payload's write was swallowed.
RevisionsCoverPayloads ==
  /\ \A key \in DOMAIN contexts : Holds(key) => contexts[key].rev >= contexts[key].payload
  /\ \A q \in Readers : reading[q].pc = "done" =>
       IF reading[q].kind # "latest" THEN reading[q].dto.rev >= reading[q].dto.payload
       ELSE swallowed \/ reading[q].dto.payload = 0 \/ reading[q].dto.rev <= reading[q].dto.payload

ContextTypeOK ==
  /\ positions \in 0..(userRevision + 1) /\ {analytics, document, manifest.rev} \subseteq 0..userRevision
  /\ \E i \in DOMAIN Steps : step = Steps[i]
  /\ \A q \in Readers : reading[q].dto.payload \in 0..userRevision

=============================================================================
