---------------------------- MODULE ExchangeSync ----------------------------
(* The CoinDCX connection of a user: the poll scheduler of every process,    *)
(* the Redis lock around a sync, the sync itself (balances, one page of      *)
(* trades, idempotency claims, cursor) and the requests that link, re-key    *)
(* and remove the connection meanwhile.  A tick works on the connection as   *)
(* it was when the due list was read.                                        *)
EXTENDS Portfolio

CONSTANTS MaxTrades, \* Bound: trades made at the exchange
          MaxConns,  \* Bound: connections the user makes, one after the other
          PageLimit  \* trades per page (exchangeBackfillChunkTrades)

ASSUME SyncAssumption == {MaxTrades, MaxConns, PageLimit} \subseteq Nat \ {0}

VARIABLES placed,   \* trades at the exchange: ids 1..placed, in order
          old,      \* those of them older than 90 days
          backfill, \* config.exchangeBackfillEnabled
          validKey, \* the version of the API key the exchange accepts
          slock,    \* the Redis lock of the connection is set
          tick,     \* process -> [pc, snap, row, top, short]
          claims,   \* idempotency keys: set of <<connection, trade>>
          imported, \* <<connection, trade>> -> wallet events
          dropped,  \* ghost: trades whose insert failed or died after the claim
          halfway   \* ghost: connections whose removal died half-way

exchange == <<placed, old, backfill, validKey>>
syncVars == <<exchange, slock, tick, claims, imported, dropped, halfway>>
portfolioRest == <<registry, providers, primary, job, missed>>

Trades == 1..MaxTrades
NoTick == [pc |-> "idle", snap |-> NoConn, row |-> 0, top |-> 0, short |-> FALSE]
Is(p, pc) == tick[p].pc = pc /\ build[p] = NoBuild
At(p, pc) == tick' = [tick EXCEPT ![p].pc = pc]
Snap(p) == tick[p].snap

\* updateExchangeConnectionById: nothing happens when the document is gone.
Write(p, c) == conn' = IF conn.id = Snap(p).id THEN c ELSE conn
Later(c) == [c EXCEPT !.due = FALSE]
-----------------------------------------------------------------------------
\* The user trades at the exchange, or replaces his API key there.
PlaceTrade ==
  /\ placed < MaxTrades /\ Spend(1) /\ placed' = placed + 1
  /\ UNCHANGED <<old, backfill, validKey, slock, tick, claims, imported, dropped, halfway,
                 portfolioRest, conn, holdings, build>>

ReplaceKey ==
  /\ Spend(1) /\ validKey' = validKey + 1
  /\ UNCHANGED <<placed, old, backfill, slock, tick, claims, imported, dropped, halfway,
                 portfolioRest, conn, holdings, build>>

\* nextPollAt passes.
BecomesDue ==
  /\ conn # NoConn /\ ~conn.due /\ Spend(1) /\ conn' = [conn EXCEPT !.due = TRUE]
  /\ UNCHANGED <<syncVars, portfolioRest, holdings, build>>

\* runExchangePollTick: the due list, which excludes connections to re-authorise.
Due(p) ==
  /\ Is(p, "idle") /\ conn.due /\ conn.status \in {"active", "rate_limited", "error"}
  /\ tick' = [tick EXCEPT ![p] = 
       [pc |-> "lock", snap |-> conn, row |-> 0, top |-> 0, short |-> FALSE]]
  /\ UNCHANGED <<stimuli, exchange, slock, claims, imported, dropped, halfway,
                 portfolioRest, conn, holdings, build>>

\* tryAcquireExchangeSyncLock: SET PX NX; a locked connection is skipped.
Acquire(p) ==
  /\ Is(p, "lock") /\ slock' = TRUE
  /\ tick' = [tick EXCEPT ![p] = IF slock THEN NoTick ELSE [@ EXCEPT !.pc = "decrypt"]]
  /\ UNCHANGED <<stimuli, exchange, claims, imported, dropped, halfway,
                 portfolioRest, conn, holdings, build>>

\* decryptExchangeCredentials; a backfill that is switched off is skipped.
Decrypt(p) ==
  /\ Is(p, "decrypt")
  /\ \/ /\ Snap(p).phase = "live" \/ backfill
        /\ At(p, "balances") /\ UNCHANGED <<stimuli, conn>>
     \/ /\ Snap(p).phase # "live" /\ ~backfill /\ UNCHANGED stimuli
        /\ tick' = [tick EXCEPT ![p].pc = "balances", ![p].snap.phase = "live"]
        /\ Write(p, [conn EXCEPT !.phase = "live"])
     \/ /\ Spend(1) /\ At(p, "release")
        /\ Write(p, [Later(conn) EXCEPT !.status = "error"])
  /\ UNCHANGED <<exchange, slock, claims, imported, dropped, halfway, portfolioRest,
                 holdings, build>>

\* A call of the exchange that fails, and the update of the connection it
\* leads to: the key is refused, the rate is limited, or something else.
CallFails(p) ==
  /\ At(p, "release")
  /\ \/ /\ Snap(p).key # validKey /\ UNCHANGED stimuli
        /\ Write(p, [Later(conn) EXCEPT !.status = "requires_reauth"])
     \/ Spend(1) /\ Write(p, [Later(conn) EXCEPT !.status = "rate_limited"])
     \/ Spend(1) /\ Write(p, Later(conn))

\* getBalances.  After a success the merged holdings are rebuilt and written,
\* in which every error is caught; after a failure no trades are fetched.
Balances(p) ==
  /\ Is(p, "balances")
  /\ \/ Snap(p).key = validKey /\ At(p, "page") /\ Start(p, Holder)
        /\ UNCHANGED <<stimuli, conn>>
     \/ CallFails(p) /\ UNCHANGED build
  /\ UNCHANGED <<exchange, slock, claims, imported, dropped, halfway, portfolioRest,
                 holdings>>

\* getTradeHistoryPage: the first trades after the cursor of the snapshot;
\* with no cursor, in phase live, those of the last 90 days.
From(c) == IF c.cursor = 0 /\ c.phase = "live" THEN old ELSE c.cursor
LastOf(c) == IF From(c) + PageLimit < placed THEN From(c) + PageLimit ELSE placed

\* An empty page ends the sync, and a backfill with it.
Page(p) ==
  LET from == From(Snap(p))
      last == LastOf(Snap(p))
  IN  /\ Is(p, "page")
      /\ \/ /\ Snap(p).key = validKey /\ last <= from /\ UNCHANGED stimuli
            /\ At(p, "release")
            /\ Write(p, [Later(conn) EXCEPT !.phase =
                           IF Snap(p).phase = "initial_backfill" THEN "live" ELSE @])
         \/ /\ Snap(p).key = validKey /\ from < last /\ UNCHANGED <<stimuli, conn>>
            /\ tick' = [tick EXCEPT ![p] = [pc |-> "claim", snap |-> Snap(p), row |-> from + 1,
                 top |-> last, short |-> last < from + PageLimit]]
         \/ CallFails(p)
      /\ UNCHANGED <<exchange, slock, claims, imported, dropped, halfway,
                     portfolioRest, holdings, build>>

\* persistCoindcxTrade, in the order of the page: the key is claimed, a trade
\* whose key is taken counts as a duplicate.
Row(p) == tick[p].row
Key(p) == <<Snap(p).id, Row(p)>>
NextRow(p) == tick' = [tick EXCEPT ![p].row = @ + 1,
  ![p].pc = IF Row(p) = tick[p].top THEN "cursor" ELSE "claim"]

\* Slip: what the claim answers is misread.
ClaimMisread(p) ==
  /\ Is(p, "claim") /\ claims' = claims \union {Key(p)}
  /\ IF Key(p) \in claims THEN At(p, "insert") ELSE NextRow(p)
  /\ UNCHANGED <<stimuli, exchange, slock, imported, dropped, halfway,
                 portfolioRest, conn, holdings, build>>

Claim(p) ==
  /\ Is(p, "claim") /\ claims' = claims \union {Key(p)}
  /\ IF Key(p) \in claims THEN NextRow(p) ELSE At(p, "insert")
  /\ UNCHANGED <<stimuli, exchange, slock, imported, dropped, halfway,
                 portfolioRest, conn, holdings, build>>

\* createEvent; when it throws the sync ends in the scheduler's catch.
Insert(p) ==
  /\ Is(p, "insert")
  /\ \/ imported' = [imported EXCEPT ![Key(p)] = @ + 1] /\ NextRow(p)
        /\ UNCHANGED <<stimuli, dropped>>
     \/ Spend(1) /\ dropped' = dropped \union {Key(p)} /\ At(p, "fail")
        /\ UNCHANGED imported
  /\ UNCHANGED <<exchange, slock, claims, halfway, portfolioRest, conn, holdings, build>>

\* lastTradeId := maxSeen, then the end of the backfill and nextPollAt.
Cursor(p) ==
  /\ Is(p, "cursor") /\ At(p, "finish")
  /\ Write(p, [conn EXCEPT !.cursor = tick[p].top])
  /\ UNCHANGED <<stimuli, exchange, slock, claims, imported, dropped, halfway,
                 portfolioRest, holdings, build>>

Finish(p) ==
  /\ Is(p, "finish") /\ At(p, "release")
  /\ Write(p, [Later(conn) EXCEPT !.phase =
       IF Snap(p).phase = "initial_backfill" /\ tick[p].short THEN "live" ELSE @])
  /\ UNCHANGED <<stimuli, exchange, slock, claims, imported, dropped, halfway,
                 portfolioRest, holdings, build>>

\* The scheduler's catch: next poll in a minute.
Fail(p) ==
  /\ Is(p, "fail") /\ At(p, "release") /\ Write(p, Later(conn))
  /\ UNCHANGED <<stimuli, exchange, slock, claims, imported, dropped, halfway,
                 portfolioRest, holdings, build>>

\* releaseExchangeSyncLock: DEL, whoever holds the lock by now.
Release(p) ==
  /\ Is(p, "release") /\ slock' = FALSE
  /\ tick' = [tick EXCEPT ![p] = NoTick]
  /\ UNCHANGED <<stimuli, exchange, claims, imported, dropped, halfway,
                 portfolioRest, conn, holdings, build>>

LockExpires ==
  /\ slock /\ Spend(1) /\ slock' = FALSE
  /\ UNCHANGED <<exchange, tick, claims, imported, dropped, halfway, portfolioRest,
                 conn, holdings, build>>

PollerDies(p) ==
  /\ tick[p].pc # "idle" /\ Spend(1)
  /\ dropped' = IF Is(p, "insert") THEN dropped \union {Key(p)} ELSE dropped
  /\ tick' = [tick EXCEPT ![p] = NoTick] /\ build' = [build EXCEPT ![p] = NoBuild]
  /\ UNCHANGED <<exchange, slock, claims, imported, halfway, portfolioRest, conn, holdings>>
-----------------------------------------------------------------------------
\* The requests about the connection.  Bound: one connection at a time.
Request(c, pc, id) == job' = [job EXCEPT ![c] =
  [pc |-> pc, user |-> Holder, given |-> "none", id |-> id]]
Requested(c, pc) == job[c].pc = pc
requestRest == <<syncVars, wallets, providers, primary, missed>>

\* linkCoinDcx: count, validation of the key, then the document.
Link(c) ==
  /\ Free(c) /\ Spend(1) /\ conn = NoConn /\ lastId < MaxConns
  /\ \A d \in Clients : ~Requested(d, "link")
  /\ Request(c, "link", validKey)
  /\ UNCHANGED <<requestRest, lastId, conn, holdings, build>>

CreateConnection(c) ==
  /\ Requested(c, "link") /\ Done(c) /\ lastId' = lastId + 1
  /\ conn' = NewConn(lastId + 1, job[c].id)
  /\ UNCHANGED <<stimuli, requestRest, holdings, build>>

\* patchCoinDcx: find, validation of the new key, then the document; the poll
\* time stays.
Patch(c) ==
  /\ Free(c) /\ Spend(1) /\ conn # NoConn /\ Request(c, "patch", validKey)
  /\ UNCHANGED <<requestRest, lastId, conn, holdings, build>>

PatchConnection(c) ==
  /\ Requested(c, "patch") /\ Done(c)
  /\ conn' = IF conn = NoConn THEN conn
             ELSE [conn EXCEPT !.key = job[c].id, !.status = "active"]
  /\ UNCHANGED <<stimuli, requestRest, lastId, holdings, build>>

\* removeExchangeConnection: find, delete the events, the connection, and (as
\* for wallets) the holdings.
RemoveConnection(c) ==
  /\ Free(c) /\ Spend(1) /\ conn # NoConn /\ Request(c, "events", conn.id)
  /\ UNCHANGED <<requestRest, lastId, conn, holdings, build>>

DeleteEvents(c) ==
  /\ Requested(c, "events") /\ Then(c, "connection")
  /\ imported' = [k \in DOMAIN imported |-> IF k[1] = job[c].id THEN 0 ELSE imported[k]]
  /\ UNCHANGED <<stimuli, exchange, slock, tick, claims, dropped, halfway, registry,
                 providers, primary, missed, conn, holdings, build>>

DeleteConnection(c) ==
  /\ Requested(c, "connection")
  /\ IF conn.id = job[c].id
     THEN conn' = NoConn /\ Then(c, "purge") /\ Race(Holder, {"upsert"})
     ELSE Done(c) /\ UNCHANGED <<conn, build>>
  /\ UNCHANGED <<stimuli, requestRest, lastId, holdings>>

RequestDies(c) ==
  /\ ClientDies(c)
  /\ halfway' = IF Requested(c, "connection") THEN halfway \union {job[c].id} ELSE halfway
  /\ UNCHANGED <<exchange, slock, tick, claims, imported, dropped>>
-----------------------------------------------------------------------------
SyncInit ==
  /\ placed \in 0..1 /\ old = placed /\ backfill \in BOOLEAN /\ validKey = 1
  /\ slock = FALSE /\ tick = [p \in Pollers |-> NoTick]
  /\ claims = {} /\ dropped = {} /\ halfway = {}
  /\ imported = [k \in (1..MaxConns) \X Trades |-> 0]

SyncNext ==
  \/ PlaceTrade \/ ReplaceKey \/ BecomesDue \/ LockExpires
  \/ \E p \in Pollers :
       \/ Due(p) \/ Acquire(p) \/ Decrypt(p) \/ Balances(p) \/ Page(p) \/ Claim(p)
       \/ Insert(p) \/ Cursor(p) \/ Finish(p) \/ Fail(p) \/ Release(p) \/ PollerDies(p)
       \/ (FetchWallets(p) \/ FetchExchange(p) \/ Upsert(p)) /\ UNCHANGED syncVars
  \/ \E c \in Clients :
       \/ Link(c) \/ CreateConnection(c) \/ Patch(c) \/ PatchConnection(c)
       \/ RemoveConnection(c) \/ DeleteEvents(c) \/ DeleteConnection(c) \/ RequestDies(c)
       \/ Purge(c) /\ UNCHANGED syncVars
-----------------------------------------------------------------------------
\* Every trade up to the cursor of a connection was imported exactly once, and
\* no trade is ever imported twice - whichever ticks run beside each other
\* after a lock expired, with whatever snapshots - but for those whose insert
\* failed or is under way, those a switched-off backfill leaves out, and
\* connections whose removal has begun.
Removing(id) == id \in halfway
  \/ \E c \in Clients : Requested(c, "connection") /\ job[c].id = id
Importing(k) == \E p \in Pollers : Is(p, "insert") /\ Key(p) = k

TradesAreImportedOnce ==
  /\ \A k \in DOMAIN imported : imported[k] <= 1
  /\ conn # NoConn /\ ~Removing(conn.id) =>
       \A t \in 1..conn.cursor :
         LET k == <<conn.id, t>>
         IN  imported[k] = 1 \/ k \in dropped \/ Importing(k) \/ (~backfill /\ t <= old)

TickPC == {"idle", "lock", "decrypt", "balances", "page", "claim", "insert", "cursor",
           "finish", "fail", "release"}
Tick == [pc : TickPC, snap : Connection, row : Nat, top : Nat, short : BOOLEAN]
TickTypeOK(p) ==
  /\ Snap(p).cursor <= placed /\ tick[p].top <= placed
  /\ tick[p].pc # "idle" => Snap(p).id > 0
  /\ tick[p].pc \in {"claim", "insert"} => 0 < Row(p) /\ Row(p) <= tick[p].top
  /\ tick[p].pc = "insert" => Key(p) \in claims
  /\ tick[p].pc = "cursor" => 1 < Row(p) /\ Row(p) = tick[p].top + 1
  /\ tick[p].pc \notin {"idle", "page"} => build[p] = NoBuild

SyncTypeOK ==
  /\ placed \in 0..MaxTrades /\ old \in 0..placed /\ backfill \in BOOLEAN
  /\ validKey \in Nat /\ slock \in BOOLEAN /\ conn.cursor <= placed
  /\ tick \in [Pollers -> Tick] /\ \A p \in Pollers : TickTypeOK(p)
  /\ claims \subseteq (1..MaxConns) \X Trades /\ dropped \subseteq claims
  /\ imported \in [(1..MaxConns) \X Trades -> Nat] /\ halfway \subseteq Nat

=============================================================================
