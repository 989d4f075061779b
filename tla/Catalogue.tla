------------------------------ MODULE Catalogue ------------------------------
(* The coin catalogue: the registry that gives every coin its internal id,   *)
(* the lookups that extend it from CoinGecko, the queue of names nobody could *)
(* resolve, and the market snapshots with their pages, numbered builds and   *)
(* the listing import beside them.                                           *)
EXTENDS Budget, Integers, FiniteSets

CONSTANTS Gecko,       \* CoinGecko's list: id -> symbol
          Numbered,    \* CoinMarketCap's list: numeric id -> symbol
          Lookups,     \* requests under way at a time
          Builds,      \* market snapshot builds under way at a time
          PageLimit,   \* coins to a page of the active coins
          TopRank,     \* Bound: ranks the snapshots give; 0 is no rank
          Deployments, \* values of settings
          Ranked       \* Bound: sets of coins that may have snapshots at the start

ASSUME CatalogueAssumption ==
  /\ PageLimit \in Nat \ {0} /\ TopRank \in Nat
  /\ DOMAIN Gecko \cap DOMAIN Numbered = {} /\ Ranked \subseteq SUBSET DOMAIN Gecko
  /\ Deployments \subseteq [localFirst : BOOLEAN, unique : BOOLEAN]

VARIABLES registry,  \* coin_registry: coin id -> internal id, 0 for no document
          ids,       \* internal ids given out; each stands for a random UUID
          settings,  \* [localFirst, unique]: the deployment's flag and index
          lookup,    \* request -> its progress
          memo,      \* resolveToCoinGeckoIdMemo
          queue,     \* coin_identity_resolution_queue: name -> [tries, answers]
          resolver,  \* the identity resolution worker
          first,     \* Ghost: a coin's first internal id
          doubtful,  \* Ghost: coins looked up twice at a time or by number
          ranks,     \* coin_market_snapshots: coin -> rank, Unseen for none
          pager,     \* a client paging through the active coins
          build, buildLock, numbered, published, \* market snapshot builds
          newest,    \* Ghost: the highest revision ever published
          expired,   \* Ghost: a build outlived its lock
          importing, listed, masters,  \* the listing import and what it fills
          halted     \* Ghost: the last import stopped half way

lookupVars == <<registry, ids, settings, lookup, memo, queue, resolver, first, doubtful>>
marketVars == <<ranks, pager, build, buildLock, numbered, published, newest, expired>>
listingVars == <<importing, listed, masters, halted>>
catalogueVars == <<lookupVars, marketVars, listingVars>>

Assets == {Gecko[c] : c \in DOMAIN Gecko} \cup {Numbered[n] : n \in DOMAIN Numbered}
CoinIds == DOMAIN Gecko \cup DOMAIN Numbered
CoinNames == CoinIds \cup Assets
SymbolOf(c) == IF c \in DOMAIN Gecko THEN Gecko[c] ELSE Numbered[c]
Unseen == -1
Unasked == "unasked"
NoCoin == "no coin"
LookupFailed == "failed"
Unmade == [pc |-> "idle", kind |-> "profile", name |-> NoCoin, id |-> 0, coin |-> NoCoin,
           db |-> FALSE, known |-> FALSE]
Unsearched == [pc |-> "idle", name |-> NoCoin, answer |-> 0]

\* Answers of the memo are told from coins; CoinGecko's list is finite.
ASSUME LookupAssumption == {Unasked, NoCoin, LookupFailed} \cap CoinIds = {} /\ IsFiniteSet(DOMAIN Gecko)
-----------------------------------------------------------------------------
(* Reading the catalogue *)

InRegistry(n) == {c \in CoinIds : registry[c] # 0 /\ (c = n \/ SymbolOf(c) = n)}

\* identityResolver.resolve: by id, then by symbol; 0 when neither is known.
Identities(n) ==
  IF n \in CoinIds /\ registry[n] # 0 THEN {registry[n]}
  ELSE IF InRegistry(n) # {} THEN {registry[c] : c \in InRegistry(n)} ELSE {0}

\* looksLikeCoinGeckoId: anything but a number.
LooksLikeGecko(n) == n \notin DOMAIN Numbered

Named(n) == {c \in DOMAIN Gecko : ranks[c] # Unseen /\ Gecko[c] = n}
Foremost(S, key) == {c \in S : \A d \in S : key[c] <= key[d]}

\* findByCoinId: the id, else the first by rank - and no rank sorts first.
Snapshot(n) == IF n \in DOMAIN Gecko /\ ranks[n] # Unseen THEN {n} ELSE Foremost(Named(n), ranks)

\* resolveBatchFromSnapshots: the id, else the best rank - and no rank is last.
RankValue(c) == IF ranks[c] > 0 THEN ranks[c] ELSE TopRank + 1
InBatch(n) == IF n \in DOMAIN Gecko /\ ranks[n] # Unseen THEN {n}
              ELSE Foremost(Named(n), [c \in Named(n) |-> RankValue(c)])

\* What getCoinProfile, or getCoinStats, can answer from.
KnownAsset(n, kind) == Snapshot(n) # {} \/ (kind = "profile" /\ (n \in listed \/ InRegistry(n) # {}))
-----------------------------------------------------------------------------
(* Lookups: getCoinProfile and getCoinStats *)

Found(r) == lookup' = [lookup EXCEPT ![r].pc = "found"]
Missed(r) == lookup' = [lookup EXCEPT ![r].pc = "missed"]
Becomes(r, pc) == lookup' = [lookup EXCEPT ![r].pc = pc]

Settled == {"idle", "found", "missed", "failed"}

\* The coins that several requests, or a request by number, may write.
Target(n) == IF n \in DOMAIN Gecko THEN {n} ELSE {c \in DOMAIN Gecko : Gecko[c] = SymbolOf(n)}
Contested(n) ==
  {c \in CoinIds : n \in CoinIds /\ c \in Target(n) /\
                     \/ n \in DOMAIN Numbered
                     \/ \E r \in Lookups : lookup[r].pc \notin Settled /\ lookup[r].name \in CoinIds
                                           /\ c \in Target(lookup[r].name)}

Ask(r, n, kind) ==
  /\ lookup[r].pc \in Settled /\ Spend(1)
  /\ lookup' = [lookup EXCEPT ![r] = [Unmade EXCEPT !.kind = kind, !.name = n, !.known = KnownAsset(n, kind),
                                        !.pc = IF kind = "stats" THEN "memo" ELSE "identity"]]
  /\ doubtful' = doubtful \cup Contested(n)
  /\ UNCHANGED <<registry, ids, settings, memo, queue, resolver, first, marketVars, listingVars>>

\* queueUnresolved: one open document to a name, each time counted.
QueuedName(n) == queue' = [queue EXCEPT ![n].tries = @ + 1]

Identify(r) ==
  /\ lookup[r].pc = "identity"
  /\ \E i \in Identities(lookup[r].name) :
       /\ lookup' = [lookup EXCEPT ![r] = [@ EXCEPT !.pc = "local", !.id = i]]
       /\ IF i = 0 THEN QueuedName(lookup[r].name) ELSE UNCHANGED queue
  /\ UNCHANGED <<stimuli, registry, ids, settings, memo, resolver, first, doubtful, marketVars, listingVars>>

\* What is known here answers at once, except a coin known by number only.
Local(r) ==
  LET n == lookup[r].name
      db == InRegistry(n) # {}
  IN  /\ lookup[r].pc = "local"
      /\ IF \/ n \in listed
            \/ settings.localFirst /\ Snapshot(n) # {}
            \/ db /\ LooksLikeGecko(n)
         THEN Found(r)
         ELSE lookup' = [lookup EXCEPT ![r] = [@ EXCEPT !.db = db,
                           !.pc = IF LooksLikeGecko(n) THEN "gecko" ELSE "memo"]]
      /\ UNCHANGED <<stimuli, registry, ids, settings, memo, queue, resolver, first, doubtful, marketVars,
                     listingVars>>

\* getCoinById of the name itself, and when it fails the snapshot.
AskGecko(r) ==
  LET n == lookup[r].name
  IN  /\ lookup[r].pc = "gecko"
      /\ \/ /\ n \in DOMAIN Gecko /\ UNCHANGED stimuli
            /\ lookup' = [lookup EXCEPT ![r] = [@ EXCEPT !.pc = "upsert", !.coin = n]]
         \/ /\ IF n \in DOMAIN Gecko THEN Spend(1) ELSE UNCHANGED stimuli
            /\ IF Snapshot(n) # {} THEN Found(r) ELSE Becomes(r, "memo")
      /\ UNCHANGED <<registry, ids, settings, memo, queue, resolver, first, doubtful, marketVars, listingVars>>

\* resolveToCoinGeckoIdUncached: the id itself if CoinGecko knows it, or the
\* listed coin with the registered symbol; a failed list is an error.
Resolutions(n) ==
  IF LooksLikeGecko(n) THEN {n} \cap DOMAIN Gecko
  ELSE IF registry[n] = 0 THEN {} ELSE {c \in DOMAIN Gecko : Gecko[c] = Numbered[n]}

\* The memo keeps a failure for its ninety seconds as it keeps an answer.
Remembered(r) ==
  LET n == lookup[r].name
  IN  \/ memo[n] # Unasked /\ UNCHANGED <<stimuli, memo>>
      \/ /\ memo[n] = Unasked /\ UNCHANGED stimuli
         /\ IF Resolutions(n) = {} THEN memo' = [memo EXCEPT ![n] = NoCoin]
            ELSE \E c \in Resolutions(n) : memo' = [memo EXCEPT ![n] = c]
      \/ /\ memo[n] = Unasked /\ Spend(1)
         /\ memo' = [memo EXCEPT ![n] = IF LooksLikeGecko(n) THEN NoCoin ELSE LookupFailed]

\* What is left without CoinGecko: the document, then the snapshot.
Fallback(k) == k.db \/ Snapshot(k.name) # {}

Recall(r) ==
  LET k == lookup[r]
      to == memo'[k.name]
  IN  /\ k.pc = "memo" /\ Remembered(r)
      /\ \/ to = LookupFailed /\ Becomes(r, "failed")
         \/ /\ to # LookupFailed /\ k.kind = "stats"
            /\ IF Snapshot(IF to = NoCoin THEN k.name ELSE to) # {} THEN Found(r) ELSE Missed(r)
         \/ to = NoCoin /\ k.kind # "stats" /\ (IF Fallback(k) THEN Found(r) ELSE Missed(r))
         \/ /\ to \notin {NoCoin, LookupFailed} /\ k.kind # "stats"
            /\ lookup' = [lookup EXCEPT ![r] = [k EXCEPT !.pc = "final", !.coin = to]]
      /\ UNCHANGED <<registry, ids, settings, queue, resolver, first, doubtful, marketVars, listingVars>>

AskFinal(r) ==
  /\ lookup[r].pc = "final"
  /\ \/ Becomes(r, "write") /\ UNCHANGED stimuli
     \/ Spend(1) /\ (IF Fallback(lookup[r]) THEN Found(r) ELSE Missed(r))
  /\ UNCHANGED <<registry, ids, settings, memo, queue, resolver, first, doubtful, marketVars, listingVars>>

Registered == first' = [c \in CoinIds |-> IF first[c] = 0 THEN registry'[c] ELSE first[c]]

\* upsertCoin overwrites the internal id with the resolved one, or a new one;
\* where the index is unique a taken one is an error, handled as CoinGecko's.
Upsert(r) ==
  LET k == lookup[r]
      id == IF k.id # 0 THEN k.id ELSE ids + 1
      taken == settings.unique /\ \E c \in CoinIds \ {k.coin} : registry[c] = id
  IN  /\ k.pc \in {"upsert", "write"}
      /\ IF taken
         THEN /\ UNCHANGED <<registry, ids>>
              /\ IF Fallback(k) THEN Found(r) ELSE Becomes(r, IF k.pc = "upsert" THEN "memo" ELSE "missed")
         ELSE Found(r) /\ registry' = [registry EXCEPT ![k.coin] = id]
              /\ ids' = IF k.id # 0 THEN ids ELSE ids + 1
      /\ Registered
      /\ UNCHANGED <<stimuli, settings, memo, queue, resolver, doubtful, marketVars, listingVars>>

MemoExpires(n) ==
  /\ memo[n] # Unasked /\ memo' = [memo EXCEPT ![n] = Unasked]
  /\ UNCHANGED <<stimuli, registry, ids, settings, lookup, queue, resolver, first, doubtful, marketVars,
                 listingVars>>

\* getTrending, getTopGainers, getTopLosers: an id only on insertion.
RefreshMarket(n) ==
  /\ Spend(1)
  /\ registry' = [registry EXCEPT ![n] = IF @ = 0 THEN ids + 1 ELSE @]
  /\ ids' = IF registry[n] = 0 THEN ids + 1 ELSE ids
  /\ Registered
  /\ UNCHANGED <<settings, lookup, memo, queue, resolver, doubtful, marketVars, listingVars>>

\* runIdentityResolutionWorker: an open name, tried fewer than five times.
TakeName(n) ==
  /\ resolver.pc = "idle" /\ queue[n].tries \in 1..4 /\ Spend(1)
  /\ resolver' = [pc |-> "registry", name |-> n, answer |-> 0]
  /\ UNCHANGED <<registry, ids, settings, lookup, memo, queue, first, doubtful, marketVars, listingVars>>

\* The registry, then the resolver, which counts a failure of its own.
SearchName ==
  LET n == resolver.name
      hits == {registry[c] : c \in InRegistry(n)}
  IN  /\ resolver.pc \in {"registry", "identity"}
      /\ \/ \E i \in hits : resolver' = [resolver EXCEPT !.pc = "settle", !.answer = i] /\ UNCHANGED queue
         \/ /\ hits = {} /\ resolver' = [resolver EXCEPT !.pc = IF @ = "registry" THEN "identity" ELSE "settle"]
            /\ IF resolver.pc = "identity" THEN QueuedName(n) ELSE UNCHANGED queue
      /\ UNCHANGED <<stimuli, registry, ids, settings, lookup, memo, first, doubtful, marketVars, listingVars>>

Settle ==
  /\ resolver.pc = "settle" /\ resolver' = Unsearched
  /\ IF resolver.answer = 0 THEN QueuedName(resolver.name)
     ELSE queue' = [queue EXCEPT ![resolver.name] = [tries |-> 0, answers |-> @.answers \cup {resolver.answer}]]
  /\ UNCHANGED <<stimuli, registry, ids, settings, lookup, memo, first, doubtful, marketVars, listingVars>>
-----------------------------------------------------------------------------
(* Market snapshots *)

\* populateFromCoinGeckoMarketsPage: the ranks of the coins on a page.
Populate(S, k) ==
  /\ Spend(1) /\ ranks' = [c \in DOMAIN Gecko |-> IF c \in S THEN k ELSE ranks[c]]
  /\ pager' = [pager EXCEPT !.moved = (@ \/ pager.seen # {} \/ pager.pc = "end")]
  /\ UNCHANGED <<build, buildLock, numbered, published, newest, expired, lookupVars, listingVars>>

\* Slip: the cursor's own rank is shown again.
PastCursorAgain(cursor) == {c \in DOMAIN Gecko : ranks[c] >= cursor}

\* findPage: the next coins by rank, of those after the cursor.
PastCursor(cursor) == {c \in DOMAIN Gecko : ranks[c] > cursor}
Smaller(a, b) == IF a <= b THEN a ELSE b

\* The rank of the last coin shown, the next page's cursor.
Cursor(shown) == CHOOSE k \in {ranks[c] : c \in shown} : \A c \in shown : ranks[c] <= k

AskPage(shown) ==
  LET left == PastCursor(pager.cursor)
  IN  /\ pager.pc = "on" /\ shown \subseteq left
      /\ Cardinality(shown) = Smaller(PageLimit, Cardinality(left))
      /\ \A c \in shown, d \in left \ shown : ranks[c] <= ranks[d]
      /\ pager' = [pager EXCEPT !.seen = @ \cup shown, !.twice = @ \cup (pager.seen \cap shown),
                     !.pc = IF shown = left THEN "end" ELSE "on",
                     !.cursor = IF shown = left THEN @ ELSE Cursor(shown)]
      /\ UNCHANGED <<stimuli, ranks, build, buildLock, numbered, published, newest, expired, lookupVars,
                     listingVars>>

\* runMarketSnapshotBuild: lock, read, number, publish, unlock whoever holds it.
Proceed(b, from, to) == build[b].pc = from /\ build' = [build EXCEPT ![b].pc = to]

TakeBuild(b) ==
  /\ ~buildLock /\ Spend(1) /\ Proceed(b, "idle", "gather") /\ buildLock' = TRUE
  /\ UNCHANGED <<ranks, pager, numbered, published, newest, expired, lookupVars, listingVars>>

\* Slip: the next number is computed and not stored.
NumberUnstored(b) ==
  /\ build[b].pc = "gather"
  /\ build' = [build EXCEPT ![b] = [pc |-> "publish", revision |-> numbered + 1]]
  /\ UNCHANGED <<stimuli, ranks, pager, buildLock, numbered, published, newest, expired, lookupVars,
                 listingVars>>

NumberBuild(b) ==
  /\ build[b].pc = "gather" /\ numbered' = numbered + 1
  /\ build' = [build EXCEPT ![b] = [pc |-> "publish", revision |-> numbered + 1]]
  /\ UNCHANGED <<stimuli, ranks, pager, buildLock, published, newest, expired, lookupVars, listingVars>>

PublishBuild(b) ==
  /\ Proceed(b, "publish", "release") /\ published' = build[b].revision
  /\ newest' = IF build[b].revision > newest THEN build[b].revision ELSE newest
  /\ UNCHANGED <<stimuli, ranks, pager, buildLock, numbered, expired, lookupVars, listingVars>>

ReleaseBuild(b) ==
  /\ Proceed(b, "release", "idle") /\ buildLock' = FALSE
  /\ UNCHANGED <<stimuli, ranks, pager, numbered, published, newest, expired, lookupVars, listingVars>>

\* An error, or a snapshot too long to publish, keeps the last good one.
AbortBuild(b) ==
  /\ Spend(1) /\ (Proceed(b, "gather", "release") \/ Proceed(b, "publish", "release"))
  /\ UNCHANGED <<ranks, pager, buildLock, numbered, published, newest, expired, lookupVars, listingVars>>

BuildLockExpires ==
  /\ buildLock /\ Spend(1) /\ buildLock' = FALSE /\ expired' = TRUE
  /\ UNCHANGED <<ranks, pager, build, numbered, published, newest, lookupVars, listingVars>>
-----------------------------------------------------------------------------
(* ingestFromAllProviders: raw listings, filtered coins, tagging map *)

Ingest(S) ==
  /\ importing.pc = "idle" /\ Spend(1)
  /\ importing' = [pc |-> IF S = {} THEN "idle" ELSE "filter", raw |-> importing.raw \cup S, left |-> {}]
  /\ UNCHANGED <<listed, masters, halted, lookupVars, marketVars>>

\* populateFilteredCoins: all the raw listings there ever were.
Filter ==
  /\ importing.pc = "filter" /\ listed' = listed \cup importing.raw
  /\ importing' = [importing EXCEPT !.pc = "masters", !.left = listed']
  /\ UNCHANGED <<stimuli, masters, halted, lookupVars, marketVars>>

Master(a) ==
  /\ importing.pc = "masters" /\ a \in importing.left /\ masters' = masters \cup {a}
  /\ importing' = [importing EXCEPT !.left = @ \ {a}, !.pc = IF importing.left = {a} THEN "idle" ELSE @]
  /\ halted' = (halted /\ importing.left # {a})
  /\ UNCHANGED <<stimuli, listed, lookupVars, marketVars>>

Halt ==
  /\ importing.pc # "idle" /\ Spend(1) /\ importing' = [importing EXCEPT !.pc = "idle", !.left = {}]
  /\ halted' = TRUE /\ UNCHANGED <<listed, masters, lookupVars, marketVars>>
-----------------------------------------------------------------------------
CatalogueInit ==
  /\ registry = [c \in CoinIds |-> 0] /\ ids = 0
  /\ settings \in Deployments
  /\ lookup = [r \in Lookups |-> Unmade] /\ memo = [n \in CoinNames |-> Unasked]
  /\ queue = [n \in CoinNames |-> [tries |-> 0, answers |-> {}]]
  /\ resolver = Unsearched /\ doubtful = {} /\ first = registry
  /\ \E S \in Ranked : ranks = [c \in DOMAIN Gecko |-> IF c \in S THEN 1 ELSE Unseen]
  /\ pager = [pc |-> "on", cursor |-> 0, seen |-> {}, twice |-> {}, moved |-> FALSE]
  /\ build = [b \in Builds |-> [pc |-> "idle", revision |-> 0]] /\ buildLock = FALSE
  /\ numbered = 0 /\ published = 0 /\ newest = 0 /\ expired = FALSE
  /\ listed \in SUBSET Assets /\ masters = listed /\ halted = FALSE
  /\ importing = [pc |-> "idle", raw |-> listed, left |-> {}]

LookupNext ==
  \/ \E r \in Lookups : \/ \E n \in CoinNames, kind \in {"profile", "stats"} : Ask(r, n, kind)
                        \/ Identify(r) \/ Local(r) \/ AskGecko(r) \/ Recall(r) \/ AskFinal(r) \/ Upsert(r)
  \/ \E n \in CoinNames : MemoExpires(n) \/ TakeName(n)
  \/ \E n \in DOMAIN Numbered : RefreshMarket(n)
  \/ SearchName \/ Settle

MarketNext ==
  \/ \E S \in SUBSET DOMAIN Gecko \ {{}}, k \in 0..TopRank : Populate(S, k)
  \/ \E shown \in SUBSET DOMAIN Gecko : AskPage(shown)
  \/ \E b \in Builds : TakeBuild(b) \/ NumberBuild(b) \/ PublishBuild(b) \/ ReleaseBuild(b) \/ AbortBuild(b)
  \/ BuildLockExpires
  \/ \E S \in SUBSET Assets : Ingest(S)
  \/ \E a \in Assets : Master(a)
  \/ Filter \/ Halt
-----------------------------------------------------------------------------
\* A profile is found for every name known here - a listed asset, a registered
\* coin or one of the market snapshot, by id or symbol - whatever CoinGecko
\* does, except that a coin asked for by number fails with CoinGecko's list, and
\* for as long as the memo keeps that failure; and a symbol finds the coin that
\* the batch lookup finds for it unless a coin without a rank carries it.
CoinsAreFound ==
  /\ \A r \in Lookups : /\ lookup[r].pc = "missed" => ~lookup[r].known
                        /\ lookup[r].pc = "failed" => lookup[r].name \in DOMAIN Numbered
  /\ \A a \in Assets : (\A c \in Named(a) : ranks[c] > 0) => Snapshot(a) = InBatch(a)

\* A coin's internal id is its own and is never replaced, and a name the queue
\* resolved was resolved to the id of a registered coin, unless the coin was
\* looked up twice at a time before it was registered, or by its number.
IdentitiesAreKept ==
  /\ \A c \in CoinIds \ doubtful : /\ registry[c] = first[c]
                                   /\ \A d \in CoinIds \ (doubtful \cup {c}) :
                                        registry[c] # 0 => registry[d] # registry[c]
  /\ doubtful = {} => \A n \in CoinNames : queue[n].answers \subseteq {registry[c] : c \in CoinIds}

\* A client that pages to the end sees every ranked coin, or one of its rank,
\* and none twice, unless the ranks moved meanwhile; the market snapshot never
\* goes back to an older revision unless a build outlived its lock; and every
\* listed asset can be tagged in news once an import ran to its end.
MarketIsComplete ==
  /\ ~pager.moved => /\ pager.twice = {}
                     /\ pager.pc = "end" => \A c \in PastCursor(0) : \E d \in pager.seen : ranks[d] = ranks[c]
  /\ ~expired => published = newest
  /\ (importing.pc = "idle" /\ ~halted) => listed \subseteq masters

CatalogueTypeOK ==
  /\ \A c \in CoinIds : registry[c] \in 0..ids
  /\ \A r \in Lookups : lookup[r].pc \in Settled \cup {"identity", "local", "gecko", "memo", "final",
                                                    "upsert", "write"}
  /\ \A n \in CoinNames : queue[n].tries \in Nat /\ memo[n] \in CoinIds \cup {Unasked, NoCoin, LookupFailed}
  /\ \A b \in Builds : build[b].revision <= numbered
  /\ listed \subseteq Assets /\ masters \subseteq listed
=============================================================================
