----------------------------- MODULE Portfolio -----------------------------
(* A user's portfolio: the registered wallets and their registration with    *)
(* the webhook providers (Alchemy Notify, Zerion), and the holdings document *)
(* that getHoldings, the exchange sync and wallet changes write and delete.  *)
(* One action is one awaited call.                                           *)
EXTENDS Budget, Integers, FiniteSets

CONSTANTS Owners,    \* users
          Supplied,  \* wallet addresses as a client supplies them
          Stored,    \* address -> what createWallet stores: lower case
          Clients,   \* portfolio requests in flight
          Pollers    \* what else builds holdings: sync ticks, buffer flushes

ASSUME PortfolioAssumption ==
  /\ Owners # {} /\ Supplied # {} /\ Clients \intersect Pollers = {}
  /\ {"coindcx", "none"} \intersect Supplied = {} /\ Stored \in [Supplied -> STRING]

VARIABLES wallets,  \* WalletAddress: set of [id, user, address, given]
          lastId,   \* document ids handed out
          notify,   \* addresses on the Alchemy Address Activity webhook
          zerion,   \* addresses on Zerion tx-subscriptions
          zerionId, \* config.zerionSubscriptionId is set
          conn,     \* the ExchangeConnection of Holder, or NoConn
          holdings, \* user -> document or NoHoldings
          primary,  \* config.holdingsReadModelPrimaryEnabled
          job,      \* request -> [pc, user, given, id]
          build,    \* request or tick -> buildMergedHoldingsForUser under way
          missed    \* ghost: stored addresses a provider call failed for, or
                    \* that two requests handled at a time

registry == <<wallets, lastId>>
providers == <<notify, zerion, zerionId>>
portfolioVars == <<registry, providers, conn, holdings, primary, job, build, missed>>

NoJob == [pc |-> "idle", user |-> "nobody", given |-> "none", id |-> 0]
NoBuild == [pc |-> "none", user |-> "nobody", from |-> {}, full |-> TRUE, raced |-> FALSE]
NoHoldings == [from |-> {}, fresh |-> FALSE, full |-> TRUE, raced |-> FALSE]
NoConn == [id |-> 0, status |-> "none", phase |-> "live", cursor |-> 0, key |-> 0, due |-> FALSE]
NewConn(id, key) == [id |-> id, status |-> "active", phase |-> "initial_backfill",
                     cursor |-> 0, key |-> key, due |-> TRUE]
Holder == CHOOSE u \in Owners : TRUE

WalletsOf(u) == {w.address : w \in {v \in wallets : v.user = u}}
Visible(u) == u = Holder /\ conn.status \in {"active", "rate_limited"}
Linked(u) == IF u = Holder /\ conn # NoConn THEN {"coindcx"} ELSE {}

Free(c) == job[c].pc = "idle" /\ build[c] = NoBuild
Then(c, pc) == job' = [job EXCEPT ![c].pc = pc]
Done(c) == job' = [job EXCEPT ![c] = NoJob]

\* Ghost: the builds of u that have read what is being changed now.
Race(u, after) == build' = [b \in DOMAIN build |->
  IF build[b].user = u /\ build[b].pc \in after THEN [build[b] EXCEPT !.raced = TRUE]
  ELSE build[b]]
Spoil(u) == holdings' = IF holdings[u] = NoHoldings THEN holdings
                        ELSE [holdings EXCEPT ![u].raced = TRUE]
Miss(c) == missed' = missed \union {Stored[job[c].given]}
Entangle(c, a) == missed' = missed \union
  IF \E d \in Clients \ {c} : job[d].given \in Supplied /\ Stored[job[d].given] = a
  THEN {a} ELSE {}
-----------------------------------------------------------------------------
\* updateWebhookAddresses of alchemyNotify: addresses are put on the webhooks
\* and taken off; the service logs a rejection and goes on.
UpdateWebhook(c, on, off) ==
  \/ notify' = (notify \union on) \ off /\ UNCHANGED <<stimuli, missed>>
  \/ Spend(1) /\ Miss(c) /\ UNCHANGED notify

\* createSubscription and patchWallets of zerionSubscriptions, likewise.
\* Without a configured subscription a new one is made for the address, whose
\* id is only logged.
PatchSubscription(c, on, off) ==
  \/ zerion' = (zerion \union on) \ off /\ UNCHANGED <<stimuli, missed>>
  \/ Spend(1) /\ Miss(c) /\ UNCHANGED zerion
-----------------------------------------------------------------------------
\* addWallet: a registered address is refused.
AddWallet(c, u, a) ==
  /\ Free(c) /\ Spend(1)
  /\ \A w \in wallets : w.address # Stored[a]
  /\ job' = [job EXCEPT ![c] = [pc |-> "create", user |-> u, given |-> a, id |-> 0]]
  /\ Entangle(c, Stored[a])
  /\ UNCHANGED <<registry, providers, conn, holdings, primary, build>>

\* Slip: there is no unique index.
CreateAnyway(c) ==
  /\ job[c].pc = "create" /\ lastId' = lastId + 1
  /\ wallets' = wallets \union {[id |-> lastId + 1, user |-> job[c].user,
                                 address |-> Stored[job[c].given], given |-> job[c].given]}
  /\ Race(job[c].user, {"exchange", "upsert"}) /\ Then(c, "purge")
  /\ UNCHANGED <<stimuli, providers, conn, holdings, primary, missed>>

\* createWallet: the unique index refuses the second of two concurrent adds.
CreateWallet(c) ==
  LET a == Stored[job[c].given]
  IN  /\ job[c].pc = "create"
      /\ IF \E w \in wallets : w.address = a THEN Done(c) /\ UNCHANGED <<registry, build>>
         ELSE /\ lastId' = lastId + 1
              /\ wallets' = wallets \union {[id |-> lastId + 1, user |-> job[c].user,
                                             address |-> a, given |-> job[c].given]}
              /\ Race(job[c].user, {"exchange", "upsert"}) /\ Then(c, "purge")
      /\ UNCHANGED <<stimuli, providers, conn, holdings, primary, missed>>

\* Slip: the holdings document outlives the wallets it was built from.
KeepHoldings(c) ==
  /\ job[c].pc = "purge"
  /\ IF job[c].id = 0 THEN Then(c, "register") ELSE Done(c)
  /\ UNCHANGED <<stimuli, registry, providers, conn, holdings, primary, build, missed>>

\* deleteHoldingsByUser, a rejection is swallowed; then the ownership cache is
\* invalidated and a recompute enqueued.  addWallet goes on to the providers.
Purge(c) ==
  /\ job[c].pc = "purge"
  /\ \/ holdings' = [holdings EXCEPT ![job[c].user] = NoHoldings] /\ UNCHANGED stimuli
     \/ Spend(1) /\ Spoil(job[c].user)
  /\ IF job[c].id = 0 THEN Then(c, "register") ELSE Done(c)
  /\ UNCHANGED <<registry, providers, conn, primary, build, missed>>

\* updateWebhookAddresses with the address as the client gave it.
Register(c) ==
  /\ job[c].pc = "register" /\ Then(c, "subscribe")
  /\ UpdateWebhook(c, {job[c].given}, {})
  /\ UNCHANGED <<registry, zerion, zerionId, conn, holdings, primary, build>>

\* ensureSubscription, and patchWallets unless it made the subscription.
Subscribe(c) ==
  /\ job[c].pc = "subscribe" /\ Done(c)
  /\ PatchSubscription(c, {job[c].given}, {})
  /\ UNCHANGED <<registry, notify, zerionId, conn, holdings, primary, build>>

\* removeWallet: findWalletById, then the providers, then the document.
RemoveWallet(c, w) ==
  /\ Free(c) /\ Spend(1)
  /\ job' = [job EXCEPT ![c] = [pc |-> "unregister", user |-> w.user, given |-> w.given,
                                id |-> w.id]]
  /\ Entangle(c, w.address)
  /\ UNCHANGED <<registry, providers, conn, holdings, primary, build>>

\* Slip: the providers are not told.
UnregisterNever(c) ==
  /\ job[c].pc = "unregister" /\ Then(c, "delete")
  /\ UNCHANGED <<stimuli, registry, providers, conn, holdings, primary, build, missed>>

\* updateWebhookAddresses with the address as it is stored.
Unregister(c) ==
  /\ job[c].pc = "unregister" /\ Then(c, IF zerionId THEN "unsubscribe" ELSE "delete")
  /\ UpdateWebhook(c, {}, {Stored[job[c].given]})
  /\ UNCHANGED <<registry, zerion, zerionId, conn, holdings, primary, build>>

Unsubscribe(c) ==
  /\ job[c].pc = "unsubscribe" /\ Then(c, "delete")
  /\ PatchSubscription(c, {}, {Stored[job[c].given]})
  /\ UNCHANGED <<registry, notify, zerionId, conn, holdings, primary, build>>

DeleteWallet(c) ==
  /\ job[c].pc = "delete"
  /\ LET mine == {w \in wallets : w.id = job[c].id}
     IN  IF mine = {} THEN Done(c) /\ UNCHANGED <<wallets, build>>
         ELSE wallets' = wallets \ mine /\ Then(c, "purge")
              /\ Race(job[c].user, {"exchange", "upsert"})
  /\ UNCHANGED <<stimuli, lastId, providers, conn, holdings, primary, missed>>
-----------------------------------------------------------------------------
\* getHoldings: the cached document answers while it is fresh and not empty -
\* or whatever its age where the read model is primary.
Hit(u) == holdings[u] # NoHoldings
            /\ (primary \/ (holdings[u].fresh /\ holdings[u].from # {}))

GetHoldings(c, u, refresh) ==
  /\ Free(c) /\ Spend(1) /\ (Hit(u) => refresh)
  /\ job' = [job EXCEPT ![c] = [pc |-> "lists", user |-> u, given |-> "none", id |-> 0]]
  /\ UNCHANGED <<registry, providers, conn, holdings, primary, build, missed>>

\* Wallets and connections are listed; with neither there is nothing to fetch,
\* and in live mode only some triggers may fetch.
Start(b, u) == build' = [build EXCEPT ![b] =
  [pc |-> "wallets", user |-> u, from |-> {}, full |-> TRUE, raced |-> FALSE]]

Lists(c) ==
  LET u == job[c].user
  IN  /\ job[c].pc = "lists" /\ Done(c)
      /\ \/ (WalletsOf(u) # {} \/ Visible(u)) /\ Start(c, u)
         \/ UNCHANGED build  \* nothing to fetch, or blocked
      /\ UNCHANGED <<stimuli, registry, providers, conn, holdings, primary, missed>>

\* buildMergedHoldingsForUser: the wallets are listed and fetched one by one;
\* one that Zerion fails for is left out.
FetchWallets(b) ==
  /\ build[b].pc = "wallets"
  /\ \/ /\ build' = [build EXCEPT ![b].pc = "exchange", ![b].from = WalletsOf(build[b].user)]
        /\ UNCHANGED stimuli
     \/ /\ Spend(1) /\ WalletsOf(build[b].user) # {}
        /\ build' = [build EXCEPT ![b].pc = "exchange", ![b].full = FALSE]
  /\ UNCHANGED <<registry, providers, conn, holdings, primary, job, missed>>

\* fetchCoindcxHoldingsForUser: connections that are pollable, decrypt and answer.
FetchExchange(b) ==
  /\ build[b].pc = "exchange"
  /\ \/ build' = [build EXCEPT ![b].pc = "upsert", ![b].from = @ \union
                    IF Visible(build[b].user) THEN {"coindcx"} ELSE {}] /\ UNCHANGED stimuli
     \/ Visible(build[b].user) /\ Spend(1) /\ build' = [build EXCEPT ![b].pc = "upsert"]
  /\ UNCHANGED <<registry, providers, conn, holdings, primary, job, missed>>

\* upsertHoldings, whatever became of the document meanwhile.
Upsert(b) ==
  /\ build[b].pc = "upsert" /\ build' = [build EXCEPT ![b] = NoBuild]
  /\ \/ /\ holdings' = [holdings EXCEPT ![build[b].user] =
             [from |-> build[b].from, fresh |-> TRUE, full |-> build[b].full,
              raced |-> build[b].raced]]
        /\ UNCHANGED stimuli
     \/ Spend(1) /\ UNCHANGED holdings
  /\ UNCHANGED <<registry, providers, conn, primary, job, missed>>

\* holdingsCacheTtlMs have passed since syncedAt.
Age(u) ==
  /\ holdings[u].fresh /\ Spend(1)
  /\ holdings' = [holdings EXCEPT ![u].fresh = FALSE]
  /\ UNCHANGED <<registry, providers, conn, primary, job, build, missed>>

\* A request dies with its process.
ClientDies(c) ==
  /\ ~Free(c) /\ Spend(1) /\ Done(c)
  /\ build' = [build EXCEPT ![c] = NoBuild]
  /\ IF job[c].given \in Supplied THEN Miss(c) ELSE UNCHANGED missed
  /\ IF job[c].pc = "purge" THEN Spoil(job[c].user) ELSE UNCHANGED holdings
  /\ UNCHANGED <<registry, providers, conn, primary>>
-----------------------------------------------------------------------------
PortfolioInit ==
  /\ \E owned \in SUBSET {CHOOSE a \in Supplied : TRUE} :
       /\ wallets = {[id |-> 1, user |-> Holder, address |-> Stored[a], given |-> a] : a \in owned}
       /\ notify = owned /\ zerion = owned
  /\ lastId = 1 /\ zerionId \in BOOLEAN
  /\ conn \in {NoConn, NewConn(1, 0)}
  /\ holdings = [u \in Owners |-> NoHoldings] /\ primary \in BOOLEAN
  /\ job = [c \in Clients |-> NoJob]
  /\ build = [b \in Clients \union Pollers |-> NoBuild] /\ missed = {}

PortfolioNext ==
  \/ \E c \in Clients :
       \/ \E u \in Owners : \/ \E a \in Supplied : AddWallet(c, u, a)
                            \/ \E refresh \in BOOLEAN : GetHoldings(c, u, refresh)
       \/ \E w \in wallets : RemoveWallet(c, w)
       \/ CreateWallet(c) \/ Purge(c) \/ Register(c) \/ Subscribe(c)
       \/ Unregister(c) \/ Unsubscribe(c) \/ DeleteWallet(c) \/ Lists(c)
       \/ FetchWallets(c) \/ FetchExchange(c) \/ Upsert(c) \/ ClientDies(c)
  \/ \E u \in Owners : Age(u)
-----------------------------------------------------------------------------
\* The holdings document a user is shown was built from exactly the wallets he
\* has, and from no exchange he unlinked - however requests, sync ticks and
\* wallet changes interleave - unless the change came while the build was under
\* way, deleting the document failed, or Zerion failed for a wallet.
HoldingsFollowSources == \A u \in Owners :
  LET h == holdings[u]
      changing == \E c \in Clients : job[c].user = u /\ job[c].pc = "purge"
  IN  h # NoHoldings /\ ~h.raced /\ ~changing =>
        /\ h.from \subseteq WalletsOf(u) \union Linked(u)
        /\ h.full => WalletsOf(u) \subseteq h.from

\* The providers report exactly the wallets that are registered: an address no
\* request handles is on the webhook if and only if some user registered it,
\* and on a Zerion subscription if one did, unless a call about it failed or
\* two requests handled it at a time.
Quiet(a) == \A c \in Clients :
  job[c].given \in Supplied => Stored[job[c].given] # Stored[a]
Registered(a) == \E w \in wallets : w.address = Stored[a]

WatchedAsOwned == \A a \in Supplied :
  Quiet(a) /\ Stored[a] \notin missed =>
    /\ (a \in notify) = Registered(a)
    /\ Registered(a) => a \in zerion
    /\ zerionId /\ a \in zerion => Registered(a)

\* "Deregister address from Alchemy webhooks before deleting": what is not
\* registered is not on the webhook, unless a call about it failed.
RemovedIsUnwatched == \A a \in Supplied :
  Quiet(a) /\ Stored[a] \notin missed /\ ~Registered(a) => a \notin notify

Sourced == {Stored[a] : a \in Supplied} \union {"coindcx"}
JobPC == {"idle", "create", "purge", "register", "subscribe", "unregister", "unsubscribe",
          "delete", "lists", "link", "patch", "events", "connection"}
Someone == Owners \union {"nobody"}
Job == [pc : JobPC, user : Someone, given : Supplied \union {"none"}, id : Nat]
Build == [pc : {"none", "wallets", "exchange", "upsert"}, user : Someone,
          from : SUBSET Sourced, full : BOOLEAN, raced : BOOLEAN]
Shown == [from : SUBSET Sourced, fresh : BOOLEAN, full : BOOLEAN, raced : BOOLEAN]
Connection == [id : Nat, status : {"none", "active", "rate_limited", "error",
                                   "requires_reauth"},
               phase : {"initial_backfill", "live"}, cursor : Nat, key : Nat, due : BOOLEAN]

PortfolioTypeOK ==
  /\ lastId \in Nat
  /\ wallets \subseteq [id : 1..lastId, user : Owners, address : Sourced, given : Supplied]
  /\ \A w \in wallets : w.address = Stored[w.given]
  /\ \A v, w \in wallets : v.address = w.address \/ v.id = w.id => v = w
  /\ notify \subseteq Supplied /\ zerion \subseteq Supplied /\ zerionId \in BOOLEAN
  /\ conn \in Connection /\ conn.id <= lastId /\ (conn = NoConn <=> conn.id = 0)
  /\ primary \in BOOLEAN /\ missed \subseteq Sourced
  /\ holdings \in [Owners -> Shown]
  /\ job \in [Clients -> Job] /\ build \in [Clients \union Pollers -> Build]

=============================================================================
