-------------------------- MODULE PortfolioProofs --------------------------
(* Proofs about PortfolioSystem: types, what the user is shown and what the  *)
(* providers watch, trades and activities that are recorded once.            *)
EXTENDS PortfolioSystem, SequenceTheorems, FunctionTheorems, TLAPS

-----------------------------------------------------------------------------
(* Types.                                                                    *)

\* A request about a wallet has it at hand, one about a connection its id.
OffPC == {"unregister", "unsubscribe", "delete"}
OnPC == {"create", "register", "subscribe"}
AtHand(c) ==
  /\ job[c].pc \in OnPC \union OffPC \/ (job[c].pc = "purge" /\ job[c].id = 0) =>
       job[c].given \in Supplied /\ job[c].user \in Owners
  /\ job[c].pc \in OffPC \union {"events", "connection"} => job[c].id > 0

\* Connections are as many as the bound allows; only the exchange's behaviours
\* link them, one request at a time, and only there ticks run.
Bounds ==
  /\ feed \in Feeds /\ conn.id <= MaxConns
  /\ \A p \in Pollers : Snap(p).id <= MaxConns /\ Snap(p).id <= lastId
  /\ feed = "exchange" => \A c \in Clients : Requested(c, "link") =>
       lastId < MaxConns /\ \A d \in Clients : Requested(d, "link") => d = c
  /\ feed # "exchange" => \A p \in Pollers : tick[p] = NoTick

WalletTypes == PortfolioTypeOK /\ \A d \in Clients : AtHand(d)

TInv == BudgetOK /\ WalletTypes /\ SyncTypeOK /\ IngestTypeOK /\ Bounds
-----------------------------------------------------------------------------
(* Trades.                                                                   *)

\* The document is gone, or its removal has begun.
Gone(id) == Removing(id) \/ conn.id # id

\* What TradesAreImportedOnce says of a trade up to the cursor.
Covered(k) ==
  \/ imported[k] = 1 \/ k \in dropped \/ Importing(k)
  \/ ~backfill /\ k[2] <= old
  \/ Gone(k[1])

\* Without a cursor a live connection starts after the old trades.
FreshStart(c) == c.id > 0 /\ c.cursor = 0 /\ c.phase = "live" => ~backfill \/ old = 0

\* A claimed trade is covered from then on, one that is being inserted has not
\* been imported, and nobody else inserts it.
ClaimsHold ==
  /\ \A k \in (1..MaxConns) \X Trades :
       /\ imported[k] <= 1 /\ (imported[k] > 0 => k \in claims)
       /\ k \in claims => k[1] <= lastId /\ Covered(k)
  /\ \A p \in Pollers : tick[p].pc = "insert" =>
       /\ imported[Key(p)] = 0
       /\ \A q \in Pollers : tick[q].pc = "insert" /\ Key(q) = Key(p) => q = p

\* What a tick has gone through, and what its snapshot says, is covered.
TickHolds(p) == tick[p].pc # "idle" =>
  /\ FreshStart(Snap(p))
  /\ \A t \in 1..Snap(p).cursor : Covered(<<Snap(p).id, t>>)
  /\ Snap(p).cursor > 0 \/ tick[p].pc = "finish" => conn.id # Snap(p).id \/ conn.cursor > 0
  /\ tick[p].pc \in {"claim", "insert", "cursor"} =>
       \A t \in 1..(Row(p) - 1) : Covered(<<Snap(p).id, t>>)

CursorsHold ==
  /\ FreshStart(conn)
  /\ conn.id > 0 => \A t \in 1..conn.cursor : Covered(<<conn.id, t>>)
  /\ \A p \in Pollers : TickHolds(p)

\* Only the exchange's behaviours import anything.
TradeInv ==
  IF feed = "exchange" THEN ClaimsHold /\ CursorsHold
  ELSE conn.cursor = 0 /\ \A k \in (1..MaxConns) \X Trades : imported[k] = 0
-----------------------------------------------------------------------------
(* Holdings and registrations.                                               *)

\* A build that nothing raced has what its user has.
Fed(b) ==
  LET u == build[b].user
  IN  /\ build[b].pc = "wallets" => build[b].from = {}
      /\ build[b].pc = "exchange" => build[b].from \subseteq WalletsOf(u)
      /\ build[b].pc = "upsert" => build[b].from \subseteq WalletsOf(u) \union Linked(u)
      /\ build[b].pc \in {"exchange", "upsert"} /\ build[b].full =>
           WalletsOf(u) \subseteq build[b].from

\* A removal's wallet is the one the request found; the connection is Holder's.
Handles(c) ==
  /\ job[c].pc \in OffPC =>
       /\ job[c].id \in 1..lastId
       /\ \A w \in wallets : w.id = job[c].id => w.user = job[c].user /\ w.given = job[c].given
  /\ job[c].pc \in OnPC => job[c].id = 0
  /\ job[c].pc \in {"events", "connection"} => job[c].user = Holder

\* What HoldingsFollowSources says of a document nobody is about to delete.
Shows(u) == holdings[u] # NoHoldings /\ ~holdings[u].raced =>
  /\ holdings[u].from \subseteq WalletsOf(u) \union Linked(u)
  /\ holdings[u].full => WalletsOf(u) \subseteq holdings[u].from
Changing(u) == \E c \in Clients : job[c].user = u /\ job[c].pc = "purge"

HoldingsInv ==
  /\ \A c \in Clients : Handles(c)
  /\ \A b \in Clients \union Pollers : ~build[b].raced => Fed(b)
  /\ \A u \in Owners : Changing(u) \/ Shows(u)

\* Addresses are supplied in lower case.
LowerCase == \A a \in Supplied : Stored[a] = a

\* What is registered and watched while one request handles an address.
Midway(c, a) ==
  /\ job[c].pc = "create" =>
       ~Registered(a) /\ a \notin notify /\ (zerionId => a \notin zerion)
  /\ job[c].pc = "purge" /\ job[c].id = 0 => Registered(a) /\ a \notin notify
  /\ job[c].pc = "register" => Registered(a) /\ a \notin notify
  /\ job[c].pc = "subscribe" => Registered(a) /\ a \in notify
  /\ job[c].pc = "unregister" => Registered(a) /\ a \in notify /\ a \in zerion
  /\ job[c].pc = "unsubscribe" => Registered(a) /\ a \notin notify
  /\ job[c].pc = "delete" => Registered(a) /\ a \notin notify /\ (zerionId => a \notin zerion)
  /\ job[c].pc = "purge" /\ job[c].id # 0 =>
       ~Registered(a) /\ a \notin notify /\ (zerionId => a \notin zerion)
  /\ job[c].pc \in OffPC => \E w \in wallets : w.id = job[c].id /\ w.given = a
  /\ job[c].pc \in OffPC \union OnPC \union {"purge"}

\* What WatchedAsOwned says of an address no request handles.
Agrees(a) ==
  /\ a \in notify <=> Registered(a)
  /\ Registered(a) => a \in zerion
  /\ zerionId /\ a \in zerion => Registered(a)

WatchFine(a) == a \in missed \/
  /\ \A c, d \in Clients : job[c].given = a /\ job[d].given = a => c = d
  /\ \A c \in Clients : job[c].given = a => Midway(c, a)
  /\ (\A c \in Clients : job[c].given # a) => Agrees(a)

WatchInv == \A a \in Supplied : WatchFine(a)
-----------------------------------------------------------------------------
(* Activities.                                                               *)

Clear(k, u) == k \in moved \/ Owner = {u}

\* What ActivitiesAreRecordedOnce says of a claimed key, and nobody else is anywhere.
Recorded(k) ==
  /\ received[k] # "nobody" <=> k \in keys
  /\ \A x, y \in Places(k) : x = y
  /\ Places(k) # {} => k \in keys
  /\ k \in keys => Places(k) # {} \/ k \in forgone

\* Events taken together are their first one's user's, or the address moved.
Mixed(s, chain) == Keyed(s, chain) \intersect moved # {}
Looked(h) == hook[h].pc = "claim" => Clear(KeyOf(Raw(h), hook[h].chain), hook[h].user)
Waits(c) ==
  /\ buffer[c] # <<>> => c \in timers
  /\ \A e \in ToSet(buffer[c]) : received[KeyOf(e, c)] = e.user /\ Clear(KeyOf(e, c), e.user)
Travels(f) == \A e \in ToSet(flush[f].events) :
  /\ received[KeyOf(e, flush[f].chain)] = e.user
  /\ e.user = FlushUser(f) \/ Mixed(flush[f].events, flush[f].chain)
Filed(d) == \A k \in Keyed(d.of, d.chain) : d.user = received[k] \/ Mixed(d.of, d.chain)

ActivityInv ==
  /\ \A k \in Receipts : Recorded(k)
  /\ \A h \in Hooks : Looked(h)
  /\ \A c \in Chains : Waits(c)
  /\ \A f \in Flushers : Travels(f)
  /\ \A d \in events : Filed(d)

\* Only the webhooks' feed receives anything.
ReceivedInv == ActivityInv /\ (feed # "webhooks" => IngestInit)
-----------------------------------------------------------------------------
(* What the parts of actions do to jobs, builds and holdings.                *)

\* The steps of a request's job.
LEMMA JobTypes ==
    ASSUME job \in [Clients -> Job], NEW c \in Clients
    PROVE  /\ Done(c) => job' \in [Clients -> Job] /\ job'[c] = NoJob
           /\ \A pc \in JobPC : Then(c, pc) =>
                /\ job' \in [Clients -> Job]
                /\ job'[c].pc = pc /\ job'[c].user = job[c].user
                /\ job'[c].given = job[c].given /\ job'[c].id = job[c].id
           /\ Done(c) \/ (\E pc \in JobPC : Then(c, pc)) =>
                \A d \in Clients \ {c} : job'[d] = job[d]
  <1>1. NoJob \in Job
    BY DEF NoJob, Job, JobPC, Someone
  <1>2. ASSUME NEW pc \in JobPC  PROVE [job[c] EXCEPT !.pc = pc] \in Job
    BY <1>2 DEF Job
  <1>3. ASSUME NEW pc \in JobPC, Then(c, pc)
        PROVE  /\ job' \in [Clients -> Job] /\ \A d \in Clients \ {c} : job'[d] = job[d]
               /\ job'[c].pc = pc /\ job'[c].user = job[c].user
               /\ job'[c].given = job[c].given /\ job'[c].id = job[c].id
    <2>1. job[c] \in Job /\ job'[c] = [job[c] EXCEPT !.pc = pc]
      BY <1>3 DEF Then
    <2>2. job' \in [Clients -> Job] /\ \A d \in Clients \ {c} : job'[d] = job[d]
      BY <1>2, <1>3 DEF Then
    <2> QED  BY <2>1, <2>2 DEF Job
  <1> QED  BY <1>1, <1>3 DEF Done

\* A change marks the builds of a user that have read what it changes, and
\* nothing else of any build.
LEMMA RaceFacts ==
    ASSUME build \in [Clients \union Pollers -> Build], NEW u, NEW after \in SUBSET {"exchange", "upsert"},
           Race(u, after)
    PROVE  /\ build' \in [Clients \union Pollers -> Build]
           /\ \A b \in Clients \union Pollers :
                /\ build'[b].pc = build[b].pc /\ build'[b].user = build[b].user
                /\ build'[b].from = build[b].from /\ build'[b].full = build[b].full
                /\ build'[b].raced = (build[b].raced \/ (build[b].user = u /\ build[b].pc \in after))
                /\ build[b] = NoBuild => build'[b] = NoBuild
  <1>1. ASSUME NEW b \in Clients \union Pollers
        PROVE  /\ build'[b] \in Build
               /\ build'[b].pc = build[b].pc /\ build'[b].user = build[b].user
               /\ build'[b].from = build[b].from /\ build'[b].full = build[b].full
               /\ build'[b].raced = (build[b].raced \/ (build[b].user = u /\ build[b].pc \in after))
               /\ build[b] = NoBuild => build'[b] = NoBuild
    <2>1. build[b] \in Build
      OBVIOUS
    <2>2. build'[b] = IF build[b].user = u /\ build[b].pc \in after
                      THEN [build[b] EXCEPT !.raced = TRUE] ELSE build[b]
      BY DEF Race
    <2>3. CASE build[b].user = u /\ build[b].pc \in after
      <3>1. build'[b] = [build[b] EXCEPT !.raced = TRUE]
        BY <2>2, <2>3
      <3>2. build[b] # NoBuild
        BY <2>3 DEF NoBuild
      <3> QED  BY <2>1, <2>3, <3>1, <3>2 DEF Build
    <2>4. CASE ~(build[b].user = u /\ build[b].pc \in after)
      BY <2>1, <2>2, <2>4 DEF Build
    <2> QED  BY <2>3, <2>4
  <1>2. build' = [b \in Clients \union Pollers |-> build'[b]]
    BY DEF Race
  <1> QED  BY <1>1, <1>2

\* A failed deletion marks the document.
LEMMA SpoilFacts ==
    ASSUME holdings \in [Owners -> Shown], NEW u, Spoil(u)
    PROVE  /\ holdings' \in [Owners -> Shown]
           /\ \A v \in Owners : v # u => holdings'[v] = holdings[v]
           /\ u \in Owners => holdings'[u] = NoHoldings \/ holdings'[u].raced
  <1>1. CASE u \in Owners /\ holdings[u] # NoHoldings
    <2>1. holdings' = [holdings EXCEPT ![u].raced = TRUE]
      BY <1>1 DEF Spoil
    <2>2. [holdings[u] EXCEPT !.raced = TRUE] \in Shown
      BY <1>1 DEF Shown
    <2>3. [holdings[u] EXCEPT !.raced = TRUE].raced
      BY <1>1 DEF Shown
    <2> QED  BY <1>1, <2>1, <2>2, <2>3
  <1>2. CASE u \in Owners /\ holdings[u] = NoHoldings
    BY <1>2 DEF Spoil
  <1>3. CASE u \notin Owners
    BY <1>3 DEF Spoil
  <1> QED  BY <1>1, <1>2, <1>3

\* What stands for none, and what is supplied, is of its type.
LEMMA ConstantTypes ==
    /\ Holder \in Owners /\ NoJob \in Job /\ NoBuild \in Build /\ NoHoldings \in Shown
    /\ NoConn \in Connection /\ NoTick \in Tick /\ Address \in Supplied
    /\ \A a \in Supplied : Stored[a] \in Sourced
  <1>1. Holder \in Owners /\ Address \in Supplied
    BY PortfolioAssumption DEF Holder, Address
  <1>2. NoConn \in Connection
    BY DEF NoConn, Connection
  <1>3. NoTick \in Tick
    BY <1>2 DEF NoTick, Tick, TickPC
  <1> QED
    BY <1>1, <1>2, <1>3 DEF NoJob, Job, JobPC, Someone, NoBuild, Build, NoHoldings, Shown, Sourced
-----------------------------------------------------------------------------
\* What is spent stays within the bound.
LEMMA SpendType ==
    ASSUME BudgetOK, stimuli' = stimuli \/ Spend(1)
    PROVE  BudgetOK'
  BY BudgetAssumption DEF BudgetOK, Spend

\* A step of one request leaves the others their jobs.
LEMMA OthersAtHand ==
    ASSUME \A d \in Clients : AtHand(d), NEW c \in Clients,
           \A d \in Clients \ {c} : job'[d] = job[d], AtHand(c)'
    PROVE  \A d \in Clients : AtHand(d)'
  <1>1. ASSUME NEW d \in Clients \ {c}  PROVE AtHand(d)'
    BY DEF AtHand
  <1> QED  BY <1>1

Idle(b) == build[b] = NoBuild

\* addWallet, removeWallet: the checks at the start.
LEMMA AddWalletTypes ==
    ASSUME WalletTypes, NEW c \in Clients, NEW u \in Owners, NEW a \in Supplied, AddWallet(c, u, a)
    PROVE  WalletTypes' /\ UNCHANGED <<conn, lastId, build>>
  <1> USE ConstantTypes DEF WalletTypes
  <1>1. [pc |-> "create", user |-> u, given |-> a, id |-> 0] \in Job
    BY DEF Job, JobPC, Someone
  <1>2. job' \in [Clients -> Job] /\ job'[c] = [pc |-> "create", user |-> u, given |-> a, id |-> 0]
        /\ \A d \in Clients \ {c} : job'[d] = job[d]
    BY <1>1 DEF AddWallet, PortfolioTypeOK
  <1>3. missed' \subseteq Sourced
    BY DEF AddWallet, Entangle, PortfolioTypeOK
  <1>4. AtHand(c)'
    BY <1>2 DEF AtHand, OnPC, OffPC
  <1>5. \A d \in Clients : AtHand(d)'
    BY <1>2, <1>4, OthersAtHand
  <1> QED  BY <1>2, <1>3, <1>5 DEF AddWallet, PortfolioTypeOK, registry, providers

\* Removing a wallet: the request takes the document it found.
LEMMA RemoveWalletTypes ==
    ASSUME WalletTypes, NEW c \in Clients, NEW w \in wallets, RemoveWallet(c, w)
    PROVE  WalletTypes' /\ UNCHANGED <<conn, lastId, build>>
  <1> USE ConstantTypes DEF WalletTypes
  <1> DEFINE j == [pc |-> "unregister", user |-> w.user, given |-> w.given, id |-> w.id]
  <1>1. j \in Job /\ w.address \in Sourced /\ w.id > 0 /\ w.given \in Supplied /\ w.user \in Owners
    BY DEF PortfolioTypeOK, Job, JobPC, Someone
  <1>2. job' \in [Clients -> Job] /\ job'[c] = j
        /\ \A d \in Clients \ {c} : job'[d] = job[d]
    BY <1>1 DEF RemoveWallet, PortfolioTypeOK
  <1>3. missed' \subseteq Sourced
    BY <1>1 DEF RemoveWallet, Entangle, PortfolioTypeOK
  <1>4. AtHand(c)'
    BY <1>1, <1>2 DEF AtHand, OnPC, OffPC
  <1>5. \A d \in Clients : AtHand(d)'
    BY <1>2, <1>4, OthersAtHand
  <1> QED  BY <1>2, <1>3, <1>5 DEF RemoveWallet, PortfolioTypeOK, registry, providers

\* The step that puts a document down, and the one that takes it away.
LEMMA CreateWalletTypes ==
    ASSUME WalletTypes, NEW c \in Clients, CreateWallet(c)
    PROVE  /\ WalletTypes' /\ UNCHANGED <<conn, stimuli>> /\ lastId <= lastId'
           /\ \A b \in Clients \union Pollers : Idle(b) => Idle(b)'
  <1> USE ConstantTypes DEF WalletTypes
  <1> DEFINE a == Stored[job[c].given]
             w == [id |-> lastId + 1, user |-> job[c].user, address |-> a, given |-> job[c].given]
  <1>1. CASE \E v \in wallets : v.address = a
    <2>1. job' \in [Clients -> Job] /\ job'[c] = NoJob /\ (\A d \in Clients \ {c} : job'[d] = job[d])
          /\ UNCHANGED <<registry, build>>
      BY <1>1, JobTypes DEF CreateWallet, PortfolioTypeOK
    <2>2. AtHand(c)'
      BY <2>1 DEF AtHand, NoJob, OnPC, OffPC
    <2>3. \A d \in Clients : AtHand(d)'
      BY <2>1, <2>2, OthersAtHand
    <2> QED  BY <2>1, <2>3 DEF CreateWallet, PortfolioTypeOK, registry, providers, Idle
  <1>2. CASE ~ \E v \in wallets : v.address = a
    <2>0. /\ lastId' = lastId + 1 /\ wallets' = wallets \union {w} /\ Then(c, "purge")
          /\ Race(job[c].user, {"exchange", "upsert"})
          /\ UNCHANGED <<stimuli, providers, conn, holdings, primary, missed>>
      BY <1>2 DEF CreateWallet
    <2>1. job' \in [Clients -> Job] /\ job'[c].pc = "purge" /\ job'[c].user = job[c].user
          /\ job'[c].given = job[c].given /\ job'[c].id = job[c].id
          /\ \A d \in Clients \ {c} : job'[d] = job[d]
      BY <2>0, JobTypes DEF PortfolioTypeOK, JobPC
    <2>2. build' \in [Clients \union Pollers -> Build]
          /\ \A b \in Clients \union Pollers : Idle(b) => Idle(b)'
      BY <2>0, RaceFacts DEF PortfolioTypeOK, Idle
    <2>3. job[c].user \in Owners /\ job[c].given \in Supplied
      BY DEF CreateWallet, AtHand, OnPC
    <2>4. /\ wallets' \subseteq [id : 1..lastId', user : Owners, address : Sourced, given : Supplied]
          /\ \A v \in wallets' : v.address = Stored[v.given]
      BY <2>0, <2>3 DEF PortfolioTypeOK
    <2>5. \A v, x \in wallets' : v.address = x.address \/ v.id = x.id => v = x
      <3>1. \A v \in wallets : v.address # w.address /\ v.id # w.id
        BY <1>2 DEF PortfolioTypeOK
      <3> QED  BY <2>0, <3>1 DEF PortfolioTypeOK
    <2>6. AtHand(c)'
      BY <2>1, <2>3 DEF AtHand, OnPC, OffPC
    <2>7. \A d \in Clients : AtHand(d)'
      BY <2>1, <2>6, OthersAtHand
    <2>8. lastId' \in Nat /\ conn' \in Connection /\ conn'.id <= lastId' /\ lastId <= lastId'
      BY <2>0 DEF PortfolioTypeOK, Connection
    <2>9. /\ notify' \subseteq Supplied /\ zerion' \subseteq Supplied /\ zerionId' \in BOOLEAN
          /\ (conn' = NoConn' <=> conn'.id = 0) /\ primary' \in BOOLEAN /\ missed' \subseteq Sourced
          /\ holdings' \in [Owners -> Shown]
      BY <2>0 DEF PortfolioTypeOK, providers, NoConn
    <2> QED  BY <2>0, <2>1, <2>2, <2>4, <2>5, <2>7, <2>8, <2>9 DEF PortfolioTypeOK
  <1> QED  BY <1>1, <1>2

\* The wallet document is deleted, and its source gone.
LEMMA DeleteWalletTypes ==
    ASSUME WalletTypes, NEW c \in Clients, DeleteWallet(c)
    PROVE  /\ WalletTypes' /\ UNCHANGED <<conn, stimuli, lastId>>
           /\ \A b \in Clients \union Pollers : Idle(b) => Idle(b)'
  <1> USE ConstantTypes DEF WalletTypes
  <1> DEFINE mine == {w \in wallets : w.id = job[c].id}
  <1>1. job' \in [Clients -> Job] /\ (\A d \in Clients \ {c} : job'[d] = job[d])
        /\ (job'[c] = NoJob \/ (job'[c].pc = "purge" /\ job'[c].id = job[c].id))
    <2>0. job \in [Clients -> Job] /\ "purge" \in JobPC
      BY DEF PortfolioTypeOK, JobPC
    <2>1. CASE Done(c)
      BY <2>0, <2>1, JobTypes
    <2>2. CASE Then(c, "purge")
      BY <2>0, <2>2, JobTypes
    <2> QED  BY <2>1, <2>2 DEF DeleteWallet
  <1>2. build' \in [Clients \union Pollers -> Build]
        /\ \A b \in Clients \union Pollers : Idle(b) => Idle(b)'
    <2>1. CASE Race(job[c].user, {"exchange", "upsert"})
      BY <2>1, RaceFacts DEF PortfolioTypeOK, Idle
    <2>2. CASE build' = build
      BY <2>2 DEF PortfolioTypeOK, Idle
    <2> QED  BY <2>1, <2>2 DEF DeleteWallet
  <1>3. wallets' \subseteq wallets
    BY DEF DeleteWallet
  <1>4. AtHand(c)'
    <2>1. job[c].id > 0
      BY DEF DeleteWallet, AtHand, OffPC
    <2> QED  BY <1>1, <2>1 DEF AtHand, OnPC, OffPC, NoJob
  <1>5. \A d \in Clients : AtHand(d)'
    BY <1>1, <1>4, OthersAtHand
  <1> QED  BY <1>1, <1>2, <1>3, <1>5 DEF DeleteWallet, PortfolioTypeOK, providers

\* deleteHoldingsByUser.
LEMMA PurgeTypes ==
    ASSUME WalletTypes, NEW c \in Clients, Purge(c)
    PROVE  WalletTypes' /\ UNCHANGED <<conn, lastId, build>> /\ (stimuli' = stimuli \/ Spend(1))
  <1> USE ConstantTypes DEF WalletTypes
  <1>1. holdings' \in [Owners -> Shown]
    <2>1. CASE Spoil(job[c].user)
      BY <2>1, SpoilFacts DEF PortfolioTypeOK
    <2>2. CASE holdings' = [holdings EXCEPT ![job[c].user] = NoHoldings]
      BY <2>2 DEF PortfolioTypeOK
    <2> QED  BY <2>1, <2>2 DEF Purge
  <1>2. /\ job' \in [Clients -> Job] /\ \A d \in Clients \ {c} : job'[d] = job[d]
        /\ AtHand(c)'
    <2>0. job \in [Clients -> Job] /\ "register" \in JobPC
      BY DEF PortfolioTypeOK, JobPC
    <2>1. CASE Done(c)
      BY <2>0, <2>1, JobTypes DEF AtHand, NoJob, OnPC, OffPC
    <2>2. CASE job[c].id = 0 /\ Then(c, "register")
      BY <2>0, <2>2, JobTypes DEF Purge, AtHand, OnPC, OffPC
    <2> QED  BY <2>1, <2>2 DEF Purge
  <1>3. \A d \in Clients : AtHand(d)'
    BY <1>2, OthersAtHand
  <1> QED  BY <1>1, <1>2, <1>3 DEF Purge, PortfolioTypeOK, registry, providers

\* The calls of the providers.
LEMMA ProviderTypes ==
    ASSUME WalletTypes, NEW c \in Clients,
           Register(c) \/ Subscribe(c) \/ Unregister(c) \/ Unsubscribe(c)
    PROVE  WalletTypes' /\ UNCHANGED <<conn, lastId, build>> /\ (stimuli' = stimuli \/ Spend(1))
  <1> USE ConstantTypes DEF WalletTypes
  <1>0. /\ job \in [Clients -> Job] /\ {"subscribe", "unsubscribe", "delete"} \subseteq JobPC
        /\ job[c].given \in Supplied /\ Stored[job[c].given] \in Sourced
    BY DEF PortfolioTypeOK, JobPC, Register, Subscribe, Unregister, Unsubscribe, AtHand, OnPC, OffPC
  <1>1. /\ notify' \subseteq Supplied /\ zerion' \subseteq Supplied /\ missed' \subseteq Sourced
        /\ (stimuli' = stimuli \/ Spend(1))
        /\ UNCHANGED <<registry, zerionId, conn, holdings, primary, build>>
    BY <1>0 DEF Register, Subscribe, Unregister, Unsubscribe, UpdateWebhook, PatchSubscription, Miss,
                PortfolioTypeOK
  <1>2. /\ job' \in [Clients -> Job] /\ \A d \in Clients \ {c} : job'[d] = job[d]
        /\ AtHand(c)'
    <2>1. CASE Register(c)
      BY <1>0, <2>1, JobTypes DEF Register, AtHand, OnPC, OffPC
    <2>2. CASE Subscribe(c)
      BY <1>0, <2>2, JobTypes DEF Subscribe, AtHand, OnPC, OffPC, NoJob
    <2>3. CASE Unregister(c)
      <3>1. CASE Then(c, "unsubscribe")
        BY <1>0, <2>3, <3>1, JobTypes DEF Unregister, AtHand, OnPC, OffPC
      <3>2. CASE Then(c, "delete")
        BY <1>0, <2>3, <3>2, JobTypes DEF Unregister, AtHand, OnPC, OffPC
      <3> QED  BY <2>3, <3>1, <3>2 DEF Unregister
    <2>4. CASE Unsubscribe(c)
      BY <1>0, <2>4, JobTypes DEF Unsubscribe, AtHand, OnPC, OffPC
    <2> QED  BY <2>1, <2>2, <2>3, <2>4
  <1>3. \A d \in Clients : AtHand(d)'
    BY <1>2, OthersAtHand
  <1> QED  BY <1>1, <1>2, <1>3 DEF PortfolioTypeOK, registry

\* All steps of the requests about wallets.
WalletStep(c) ==
  \/ \E u \in Owners, a \in Supplied : AddWallet(c, u, a)
  \/ \E w \in wallets : RemoveWallet(c, w)
  \/ CreateWallet(c) \/ Purge(c) \/ Register(c) \/ Subscribe(c)
  \/ Unregister(c) \/ Unsubscribe(c) \/ DeleteWallet(c)

\* Any step of a request about a wallet.
LEMMA WalletStepTypes ==
    ASSUME WalletTypes, NEW c \in Clients, WalletStep(c)
    PROVE  /\ WalletTypes' /\ conn' = conn /\ lastId <= lastId'
           /\ stimuli' = stimuli \/ Spend(1)
           /\ \A b \in Clients \union Pollers : Idle(b) => Idle(b)'
  <1>0. lastId <= lastId
    BY DEF WalletTypes, PortfolioTypeOK
  <1>1. ASSUME NEW u \in Owners, NEW a \in Supplied, AddWallet(c, u, a)
        PROVE  WalletTypes' /\ UNCHANGED <<conn, lastId, build>> /\ Spend(1)
    BY <1>1, AddWalletTypes DEF AddWallet
  <1>2. ASSUME NEW w \in wallets, RemoveWallet(c, w)
        PROVE  WalletTypes' /\ UNCHANGED <<conn, lastId, build>> /\ Spend(1)
    BY <1>2, RemoveWalletTypes DEF RemoveWallet
  <1>3. CASE CreateWallet(c)
    BY <1>0, <1>3, CreateWalletTypes
  <1>4. CASE DeleteWallet(c)
    BY <1>0, <1>4, DeleteWalletTypes
  <1>5. CASE Purge(c)
    BY <1>0, <1>5, PurgeTypes DEF Idle
  <1>6. CASE Register(c) \/ Subscribe(c) \/ Unregister(c) \/ Unsubscribe(c)
    BY <1>0, <1>6, ProviderTypes DEF Idle
  <1> QED  BY <1>0, <1>1, <1>2, <1>3, <1>4, <1>5, <1>6 DEF WalletStep, Idle
-----------------------------------------------------------------------------
\* The steps of a build, whoever runs it.
BuildStep(b) == FetchWallets(b) \/ FetchExchange(b) \/ Upsert(b)

\* A build reads, and writes the holdings in the end.
LEMMA BuildStepTypes ==
    ASSUME WalletTypes, NEW b \in Clients \union Pollers, BuildStep(b)
    PROVE  /\ WalletTypes' /\ UNCHANGED <<registry, providers, conn, primary, job, missed>>
           /\ stimuli' = stimuli \/ Spend(1)
           /\ ~Idle(b) /\ \A e \in (Clients \union Pollers) \ {b} : build'[e] = build[e]
           /\ \A e \in Clients \union Pollers : Idle(e) => Idle(e)'
  <1> USE ConstantTypes DEF WalletTypes
  <1>0. build[b] \in Build /\ WalletsOf(build[b].user) \in SUBSET Sourced
        /\ "coindcx" \in Sourced
    BY DEF PortfolioTypeOK, WalletsOf, Sourced
  <1>1. UNCHANGED <<registry, providers, conn, primary, job, missed>>
        /\ (stimuli' = stimuli \/ Spend(1)) /\ ~Idle(b)
        /\ \A e \in (Clients \union Pollers) \ {b} : build'[e] = build[e]
    BY <1>0 DEF BuildStep, FetchWallets, FetchExchange, Upsert, Idle, NoBuild, PortfolioTypeOK
  <1>2. build' \in [Clients \union Pollers -> Build]
    <2>1. CASE FetchWallets(b)
      <3>1. PICK x \in Build : build' = [build EXCEPT ![b] = x]
        <4>1. [build[b] EXCEPT !.pc = "exchange", !.from = WalletsOf(build[b].user)] \in Build
              /\ [build[b] EXCEPT !.pc = "exchange", !.full = FALSE] \in Build
          BY <1>0 DEF Build
        <4> QED  BY <2>1, <4>1 DEF FetchWallets, PortfolioTypeOK
      <3> QED  BY <3>1 DEF PortfolioTypeOK
    <2>2. CASE FetchExchange(b)
      <3>1. PICK x \in Build : build' = [build EXCEPT ![b] = x]
        <4> DEFINE more == IF Visible(build[b].user) THEN {"coindcx"} ELSE {}
        <4>1. [build[b] EXCEPT !.pc = "upsert", !.from = @ \union more] \in Build
              /\ [build[b] EXCEPT !.pc = "upsert"] \in Build
          BY <1>0 DEF Build
        <4> QED  BY <2>2, <4>1 DEF FetchExchange, PortfolioTypeOK
      <3> QED  BY <3>1 DEF PortfolioTypeOK
    <2>3. CASE Upsert(b)
      BY <2>3 DEF Upsert, PortfolioTypeOK
    <2> QED  BY <2>1, <2>2, <2>3 DEF BuildStep
  <1>3. holdings' \in [Owners -> Shown]
    <2> DEFINE doc == [from |-> build[b].from, fresh |-> TRUE, full |-> build[b].full,
                       raced |-> build[b].raced]
    <2>1. doc \in Shown
      BY <1>0 DEF Build, Shown
    <2> QED  BY <2>1 DEF BuildStep, FetchWallets, FetchExchange, Upsert, PortfolioTypeOK
  <1>4. \A d \in Clients : AtHand(d)'
    BY <1>1 DEF AtHand
  <1>5. \A e \in Clients \union Pollers : Idle(e) => Idle(e)'
    BY <1>1 DEF Idle
  <1>6. PortfolioTypeOK'
    BY <1>1, <1>2, <1>3 DEF PortfolioTypeOK, registry, providers, NoConn
  <1> QED  BY <1>1, <1>4, <1>5, <1>6

\* getHoldings and its build, the end of a request, the age of a document.
LEMMA ReadStepTypes ==
    ASSUME WalletTypes,
           \/ \E c \in Clients : \/ \E u \in Owners, refresh \in BOOLEAN : GetHoldings(c, u, refresh)
                                 \/ Lists(c)
           \/ \E u \in Owners : Age(u)
    PROVE  WalletTypes' /\ UNCHANGED <<conn, lastId>> /\ (stimuli' = stimuli \/ Spend(1))
  <1> USE ConstantTypes DEF WalletTypes
  <1>1. ASSUME NEW c \in Clients, NEW u \in Owners, NEW refresh \in BOOLEAN, GetHoldings(c, u, refresh)
        PROVE  WalletTypes' /\ UNCHANGED <<conn, lastId>> /\ Spend(1)
    <2> DEFINE j == [pc |-> "lists", user |-> u, given |-> "none", id |-> 0]
    <2>1. j \in Job /\ j.pc = "lists"
      BY DEF Job, JobPC, Someone
    <2>2. /\ job' \in [Clients -> Job] /\ job'[c].pc = "lists"
          /\ \A d \in Clients \ {c} : job'[d] = job[d]
      BY <1>1, <2>1 DEF GetHoldings, PortfolioTypeOK
    <2>3. AtHand(c)'
      BY <2>2 DEF AtHand, OnPC, OffPC
    <2>4. \A d \in Clients : AtHand(d)'
      BY <2>2, <2>3, OthersAtHand
    <2> QED  BY <1>1, <2>2, <2>4 DEF GetHoldings, PortfolioTypeOK, registry, providers
  <1>2. ASSUME NEW c \in Clients, Lists(c)
        PROVE  WalletTypes' /\ UNCHANGED <<conn, lastId, stimuli>>
    <2> DEFINE x == [pc |-> "wallets", user |-> job[c].user, from |-> {}, full |-> TRUE,
                     raced |-> FALSE]
    <2>1. job' \in [Clients -> Job] /\ job'[c] = NoJob /\ \A d \in Clients \ {c} : job'[d] = job[d]
      BY <1>2, JobTypes DEF Lists, PortfolioTypeOK
    <2>2. x \in Build
      BY DEF Build, PortfolioTypeOK, Job
    <2>3. build' \in [Clients \union Pollers -> Build]
      BY <1>2, <2>2 DEF Lists, Start, PortfolioTypeOK
    <2>4. AtHand(c)'
      BY <2>1 DEF AtHand, OnPC, OffPC, NoJob
    <2>5. \A d \in Clients : AtHand(d)'
      BY <2>1, <2>4, OthersAtHand
    <2> QED  BY <1>2, <2>1, <2>3, <2>5 DEF Lists, PortfolioTypeOK, registry, providers
  <1>3. ASSUME NEW u \in Owners, Age(u)
        PROVE  WalletTypes' /\ UNCHANGED <<conn, lastId>> /\ Spend(1)
    <2>1. [holdings[u] EXCEPT !.fresh = FALSE] \in Shown
      BY DEF PortfolioTypeOK, Shown
    <2>2. holdings' \in [Owners -> Shown]
      BY <1>3, <2>1 DEF Age, PortfolioTypeOK
    <2>3. \A d \in Clients : AtHand(d)'
      BY <1>3 DEF Age, AtHand
    <2> QED  BY <1>3, <2>2, <2>3 DEF Age, PortfolioTypeOK, registry, providers
  <1> QED  BY <1>1, <1>2, <1>3

\* A process dies with a request: the request's job and build are gone.
LEMMA ClientDiesTypes ==
    ASSUME WalletTypes, NEW c \in Clients, ClientDies(c)
    PROVE  /\ WalletTypes' /\ UNCHANGED <<conn, registry, providers, primary>> /\ Spend(1)
           /\ job'[c] = NoJob /\ \A d \in Clients \ {c} : job'[d] = job[d]
           /\ \A b \in Clients \union Pollers : Idle(b) => Idle(b)'
  <1> USE ConstantTypes DEF WalletTypes
  <1>1. job' \in [Clients -> Job] /\ job'[c] = NoJob /\ \A d \in Clients \ {c} : job'[d] = job[d]
    BY JobTypes DEF ClientDies, PortfolioTypeOK
  <1>2. build' \in [Clients \union Pollers -> Build]
        /\ \A b \in Clients \union Pollers : Idle(b) => Idle(b)'
    BY DEF ClientDies, PortfolioTypeOK, Idle
  <1>3. holdings' \in [Owners -> Shown]
    BY SpoilFacts DEF ClientDies, PortfolioTypeOK
  <1>4. missed' \subseteq Sourced
    BY DEF ClientDies, Miss, PortfolioTypeOK
  <1>5. AtHand(c)'
    BY <1>1 DEF AtHand, OnPC, OffPC, NoJob
  <1>6. \A d \in Clients : AtHand(d)'
    BY <1>1, <1>5, OthersAtHand
  <1> QED  BY <1>1, <1>2, <1>3, <1>4, <1>6 DEF ClientDies, PortfolioTypeOK, registry, providers

\* A step of the first feed keeps everything's type: ticks and webhooks rest.
LEMMA RequestFeedTypes ==
    ASSUME TInv, feed' = feed, feed = "requests", PortfolioNext, UNCHANGED <<hookVars, syncVars>>
    PROVE  TInv'
  <1>1. /\ WalletTypes' /\ conn' = conn /\ lastId <= lastId' /\ (stimuli' = stimuli \/ Spend(1))
    <2>0. WalletTypes /\ lastId <= lastId
      BY DEF TInv, WalletTypes, PortfolioTypeOK
    <2>1. ASSUME NEW c \in Clients, WalletStep(c)
          PROVE  WalletTypes' /\ conn' = conn /\ lastId <= lastId' /\ (stimuli' = stimuli \/ Spend(1))
      BY <2>0, <2>1, WalletStepTypes
    <2>2. ASSUME NEW c \in Clients, BuildStep(c)
          PROVE  WalletTypes' /\ conn' = conn /\ lastId <= lastId' /\ (stimuli' = stimuli \/ Spend(1))
      BY <2>0, <2>2, BuildStepTypes DEF registry
    <2>3. ASSUME NEW c \in Clients, ClientDies(c)
          PROVE  WalletTypes' /\ conn' = conn /\ lastId <= lastId' /\ (stimuli' = stimuli \/ Spend(1))
      BY <2>0, <2>3, ClientDiesTypes DEF registry
    <2>4. ASSUME \/ \E c \in Clients : \/ \E u \in Owners, refresh \in BOOLEAN : GetHoldings(c, u, refresh)
                                       \/ Lists(c)
                 \/ \E u \in Owners : Age(u)
          PROVE  WalletTypes' /\ conn' = conn /\ lastId <= lastId' /\ (stimuli' = stimuli \/ Spend(1))
      BY <2>0, <2>4, ReadStepTypes
    <2> QED  BY <2>1, <2>2, <2>3, <2>4 DEF PortfolioNext, WalletStep, BuildStep
  <1>2. BudgetOK'
    BY <1>1, SpendType DEF TInv
  <1>3. \A p \in Pollers : tick[p].pc = "idle"
    BY DEF TInv, Bounds, NoTick
  <1>4. SyncTypeOK'
    <2>1. /\ UNCHANGED <<placed, old, backfill, validKey, slock, tick, claims, imported, dropped, halfway>>
          /\ conn' = conn
      BY <1>1 DEF syncVars, exchange
    <2>2. ASSUME NEW p \in Pollers  PROVE TickTypeOK(p)'
      BY <1>3, <2>1 DEF TInv, SyncTypeOK, TickTypeOK, Snap, Row
    <2> QED  BY <2>1, <2>2 DEF TInv, SyncTypeOK
  <1>5. IngestTypeOK'
    BY DEF TInv, IngestTypeOK, hookVars
  <1>6. Bounds'
    <2>1. \A p \in Pollers : Snap(p)'.id <= MaxConns /\ Snap(p)'.id <= lastId'
      BY <1>1, ConstantTypes DEF TInv, Bounds, Snap, syncVars, SyncTypeOK, Tick, Connection, WalletTypes,
         PortfolioTypeOK
    <2> QED  BY <1>1, <2>1 DEF TInv, Bounds, syncVars, exchange
  <1> QED  BY <1>1, <1>2, <1>4, <1>5, <1>6 DEF TInv
-----------------------------------------------------------------------------
\* The steps of a tick.
LEMMA AtFacts ==
    ASSUME tick \in [Pollers -> Tick], NEW p \in Pollers, NEW pc \in TickPC, At(p, pc)
    PROVE  /\ tick' \in [Pollers -> Tick] /\ \A q \in Pollers \ {p} : tick'[q] = tick[q]
           /\ tick'[p].pc = pc /\ tick'[p].snap = tick[p].snap /\ tick'[p].row = tick[p].row
           /\ tick'[p].top = tick[p].top /\ tick'[p].short = tick[p].short
  <1>1. tick[p] \in Tick /\ tick'[p] = [tick[p] EXCEPT !.pc = pc]
    BY DEF At
  <1>2. [tick[p] EXCEPT !.pc = pc] \in Tick
    BY <1>1 DEF Tick
  <1>3. tick' \in [Pollers -> Tick] /\ \A q \in Pollers \ {p} : tick'[q] = tick[q]
    BY <1>2 DEF At
  <1> QED  BY <1>1, <1>3 DEF Tick

\* The next row of a page, or the cursor after the last one.
LEMMA NextRowFacts ==
    ASSUME tick \in [Pollers -> Tick], NEW p \in Pollers, NextRow(p)
    PROVE  /\ tick' \in [Pollers -> Tick] /\ \A q \in Pollers \ {p} : tick'[q] = tick[q]
           /\ tick'[p].pc = (IF Row(p) = tick[p].top THEN "cursor" ELSE "claim")
           /\ tick'[p].snap = tick[p].snap /\ tick'[p].row = tick[p].row + 1
           /\ tick'[p].top = tick[p].top /\ tick'[p].short = tick[p].short
  <1> DEFINE x == [pc |-> IF Row(p) = tick[p].top THEN "cursor" ELSE "claim", snap |-> tick[p].snap,
                   row |-> tick[p].row + 1, top |-> tick[p].top, short |-> tick[p].short]
  <1>1. tick[p] \in Tick
    OBVIOUS
  <1>2. x \in Tick
    BY <1>1 DEF Tick, TickPC
  <1>3. tick' = [tick EXCEPT ![p] = x]
    <2>1. /\ tick'[p] = [[tick[p] EXCEPT !.row = tick[p].row + 1]
                           EXCEPT !.pc = IF Row(p) = tick[p].top THEN "cursor" ELSE "claim"]
          /\ DOMAIN tick' = Pollers /\ \A q \in Pollers \ {p} : tick'[q] = tick[q]
      BY <1>1 DEF NextRow
    <2>2. tick'[p] = x
      BY <1>1, <2>1 DEF Tick
    <2>3. tick' = [q \in Pollers |-> tick'[q]]
      BY DEF NextRow
    <2> QED  BY <2>1, <2>2, <2>3
  <1> QED  BY <1>1, <1>2, <1>3

\* updateExchangeConnectionById keeps the id, and creates nothing.
LEMMA WriteFacts ==
    ASSUME conn \in Connection, conn = NoConn <=> conn.id = 0, NEW p \in Pollers, Snap(p).id > 0,
           NEW c, conn \in Connection => c \in Connection /\ c.id = conn.id, Write(p, c)
    PROVE  /\ conn' \in Connection /\ conn'.id = conn.id
           /\ conn' = NoConn <=> conn'.id = 0
           /\ conn' = IF conn.id = Snap(p).id THEN c ELSE conn
  <1>1. CASE conn.id = Snap(p).id
    <2>1. conn' = c /\ conn'.id # 0
      BY <1>1 DEF Write
    <2> QED  BY <1>1, <2>1 DEF NoConn
  <1>2. CASE conn.id # Snap(p).id
    BY <1>2 DEF Write, NoConn
  <1> QED  BY <1>1, <1>2

\* A step of one tick leaves the others theirs.
LEMMA TickStepTypes ==
    ASSUME TInv, feed = "exchange", feed' = feed, NEW p \in Pollers, UNCHANGED hookVars,
           UNCHANGED <<exchange, portfolioRest, halfway, holdings>>, stimuli' = stimuli \/ Spend(1),
           tick' \in [Pollers -> Tick], \A q \in Pollers \ {p} : tick'[q] = tick[q],
           TickTypeOK(p)', tick'[p].snap.id <= MaxConns /\ tick'[p].snap.id <= lastId,
           build' \in [Clients \union Pollers -> Build],
           \A q \in Pollers \ {p} : Idle(q) => Idle(q)',
           conn' \in Connection, conn'.id = conn.id, conn'.cursor <= placed,
           conn' = NoConn <=> conn'.id = 0, slock' \in BOOLEAN,
           claims \subseteq claims', claims' \subseteq (1..MaxConns) \X Trades,
           dropped' \subseteq claims',
           imported' \in [(1..MaxConns) \X Trades -> Nat]
    PROVE  TInv'
  <1>1. BudgetOK'
    BY SpendType DEF TInv
  <1>2. PortfolioTypeOK'
    BY DEF TInv, WalletTypes, PortfolioTypeOK, portfolioRest, registry, providers
  <1>3. \A d \in Clients : AtHand(d)'
    BY DEF TInv, WalletTypes, AtHand, portfolioRest
  <1>4. \A q \in Pollers : TickTypeOK(q)'
    <2>1. ASSUME NEW q \in Pollers \ {p}  PROVE TickTypeOK(q)'
      BY DEF TInv, SyncTypeOK, TickTypeOK, Snap, Row, Key, Idle, exchange
    <2> QED  BY <2>1
  <1>5. SyncTypeOK'
    BY <1>4 DEF TInv, SyncTypeOK, exchange
  <1>6. IngestTypeOK'
    BY DEF TInv, IngestTypeOK, hookVars
  <1>7. Bounds'
    <2>1. \A q \in Pollers : Snap(q)'.id <= MaxConns /\ Snap(q)'.id <= lastId'
      BY DEF TInv, Bounds, Snap, portfolioRest, registry
    <2>2. \A c \in Clients : Requested(c, "link")' = Requested(c, "link")
      BY DEF Requested, portfolioRest
    <2>3. lastId' = lastId
      BY DEF portfolioRest, registry
    <2> QED  BY <2>1, <2>2, <2>3 DEF TInv, Bounds
  <1> QED  BY <1>1, <1>2, <1>3, <1>5, <1>6, <1>7 DEF TInv, WalletTypes

\* The documents that the sync writes keep their id, and all but one the cursor.
LEMMA WrittenFacts ==
    ASSUME conn \in Connection
    PROVE  /\ Later(conn) \in Connection /\ Later(conn).id = conn.id
           /\ Later(conn).cursor = conn.cursor /\ Later(conn).phase = conn.phase
           /\ \A s \in {"error", "requires_reauth", "rate_limited"} :
                LET c == [Later(conn) EXCEPT !.status = s]
                IN  c \in Connection /\ c.id = conn.id /\ c.cursor = conn.cursor
                    /\ c.phase = conn.phase
           /\ \A f \in {"initial_backfill", "live"} :
                LET c == [Later(conn) EXCEPT !.phase = f]
                IN  c \in Connection /\ c.id = conn.id /\ c.cursor = conn.cursor /\ c.phase = f
           /\ \A f \in {"initial_backfill", "live"} :
                LET c == [conn EXCEPT !.phase = f]
                IN  c \in Connection /\ c.id = conn.id /\ c.cursor = conn.cursor /\ c.phase = f
           /\ \A n \in Nat :
                LET c == [conn EXCEPT !.cursor = n]
                IN  c \in Connection /\ c.id = conn.id /\ c.cursor = n /\ c.phase = conn.phase
  <1>1. PICK x \in Connection : x = Later(conn) /\ x.id = conn.id
                                 /\ x.cursor = conn.cursor /\ x.phase = conn.phase
    <2>1. Later(conn) \in Connection /\ Later(conn).id = conn.id
          /\ Later(conn).cursor = conn.cursor /\ Later(conn).phase = conn.phase
      BY DEF Later, Connection
    <2> QED  BY <2>1
  <1>2. ASSUME NEW s \in {"error", "requires_reauth", "rate_limited"}
        PROVE  LET c == [x EXCEPT !.status = s]
               IN  c \in Connection /\ c.id = x.id /\ c.cursor = x.cursor /\ c.phase = x.phase
    BY <1>2 DEF Connection
  <1>3. ASSUME NEW f \in {"initial_backfill", "live"}
        PROVE  LET c == [x EXCEPT !.phase = f]
               IN  c \in Connection /\ c.id = x.id /\ c.cursor = x.cursor /\ c.phase = f
    BY <1>3 DEF Connection
  <1>4. ASSUME NEW f \in {"initial_backfill", "live"}
        PROVE  LET c == [conn EXCEPT !.phase = f]
               IN  c \in Connection /\ c.id = conn.id /\ c.cursor = conn.cursor /\ c.phase = f
    BY <1>4 DEF Connection
  <1>5. ASSUME NEW n \in Nat
        PROVE  LET c == [conn EXCEPT !.cursor = n]
               IN  c \in Connection /\ c.id = conn.id /\ c.cursor = n /\ c.phase = conn.phase
    BY <1>5 DEF Connection
  <1> QED  BY <1>1, <1>2, <1>3, <1>4, <1>5

\* What a tick's step does to the connection: the document stays, or loses
\* nothing but its due time, its status or its phase; a cursor is set to the
\* last row.
Kept(c) == c \in Connection /\ c.id = conn.id /\ c.cursor = conn.cursor

\* A call of a tick fails.
LEMMA CallFailsFacts ==
    ASSUME conn \in Connection, NEW p \in Pollers, CallFails(p)
    PROVE  /\ At(p, "release") /\ (stimuli' = stimuli \/ Spend(1))
           /\ \E c : Kept(c) /\ c.phase = conn.phase /\ Write(p, c)
  <1>1. At(p, "release") /\ (stimuli' = stimuli \/ Spend(1))
    BY DEF CallFails
  <1>2. CASE Write(p, [Later(conn) EXCEPT !.status = "requires_reauth"])
    <2>1. PICK c : c = [Later(conn) EXCEPT !.status = "requires_reauth"]
      OBVIOUS
    <2>2. Kept(c) /\ c.phase = conn.phase
      BY <2>1, WrittenFacts DEF Kept
    <2> QED  BY <1>1, <1>2, <2>1, <2>2
  <1>3. CASE Write(p, [Later(conn) EXCEPT !.status = "rate_limited"])
    <2>1. PICK c : c = [Later(conn) EXCEPT !.status = "rate_limited"]
      OBVIOUS
    <2>2. Kept(c) /\ c.phase = conn.phase
      BY <2>1, WrittenFacts DEF Kept
    <2> QED  BY <1>1, <1>3, <2>1, <2>2
  <1>4. CASE Write(p, Later(conn))
    <2>1. Kept(Later(conn)) /\ Later(conn).phase = conn.phase
      BY WrittenFacts DEF Kept
    <2> QED  BY <1>1, <1>4, <2>1
  <1> QED  BY <1>1, <1>2, <1>3, <1>4 DEF CallFails

\* Everything about a tick in hand.
LEMMA TickFacts ==
    ASSUME TInv, NEW p \in Pollers
    PROVE  /\ tick \in [Pollers -> Tick] /\ tick[p] \in Tick /\ Snap(p) \in Connection
           /\ TickTypeOK(p) /\ Snap(p).id <= MaxConns /\ Snap(p).id <= lastId
           /\ conn \in Connection /\ (conn = NoConn <=> conn.id = 0)
           /\ conn.cursor <= placed /\ placed \in Nat /\ old \in Nat /\ old <= placed
           /\ conn.id <= MaxConns /\ conn.id <= lastId /\ lastId \in Nat
           /\ build \in [Clients \union Pollers -> Build] /\ p \in Clients \union Pollers
           /\ claims \subseteq (1..MaxConns) \X Trades /\ dropped \subseteq claims
           /\ imported \in [(1..MaxConns) \X Trades -> Nat] /\ slock \in BOOLEAN
           /\ Row(p) = tick[p].row /\ Snap(p) = tick[p].snap
  BY DEF TInv, WalletTypes, PortfolioTypeOK, SyncTypeOK, Bounds, Tick, Snap, Row

\* Steps of a tick that change nothing but its place and the connection.
LEMMA MoveTypes ==
    ASSUME TInv, feed = "exchange", feed' = feed, NEW p \in Pollers, UNCHANGED hookVars,
           UNCHANGED <<exchange, claims, imported, dropped, halfway, portfolioRest, holdings>>,
           UNCHANGED <<slock, build>>, stimuli' = stimuli \/ Spend(1),
           tick[p].pc # "idle", Idle(p),
           NEW pc \in {"balances", "release", "finish", "fail", "page"}, At(p, pc),
           conn' = conn \/ \E c : Kept(c) /\ Write(p, c)
    PROVE  TInv'
  <1>0. pc \in TickPC
    BY DEF TickPC
  <1>1. /\ tick' \in [Pollers -> Tick] /\ \A q \in Pollers \ {p} : tick'[q] = tick[q]
        /\ tick'[p].pc = pc /\ tick'[p].snap = tick[p].snap /\ tick'[p].row = tick[p].row
        /\ tick'[p].top = tick[p].top
    BY <1>0, AtFacts, TickFacts
  <1>2. /\ conn' \in Connection /\ conn'.id = conn.id /\ conn'.cursor <= placed
        /\ conn' = NoConn <=> conn'.id = 0
    <2>1. CASE conn' = conn
      BY <2>1, TickFacts DEF NoConn
    <2>2. ASSUME NEW c, Kept(c), Write(p, c)  PROVE <1>2!:
      <3>1. Snap(p).id > 0
        BY TickFacts DEF TickTypeOK
      <3>2. /\ conn' \in Connection /\ conn'.id = conn.id /\ (conn' = NoConn <=> conn'.id = 0)
            /\ conn' = IF conn.id = Snap(p).id THEN c ELSE conn
        BY <2>2, <3>1, TickFacts, WriteFacts DEF Kept
      <3> QED  BY <2>2, <3>2, TickFacts DEF Kept
    <2> QED  BY <2>1, <2>2
  <1>3. TickTypeOK(p)'
    BY <1>1, TickFacts DEF TickTypeOK, Snap, Row, Key, Idle, exchange
  <1> QED  BY <1>1, <1>2, <1>3, TickStepTypes, TickFacts DEF Idle

\* The poll's steps, one by one.
LEMMA PollStepTypes ==
    ASSUME TInv, feed = "exchange", feed' = feed, UNCHANGED hookVars, NEW p \in Pollers,
           \/ Due(p) \/ Acquire(p) \/ Decrypt(p) \/ Balances(p) \/ Page(p) \/ Claim(p)
           \/ Insert(p) \/ Cursor(p) \/ Finish(p) \/ Fail(p) \/ Release(p) \/ PollerDies(p)
    PROVE  TInv'
  <1> USE TickFacts
  <1>1. CASE Due(p)
    <2> DEFINE x == [pc |-> "lock", snap |-> conn, row |-> 0, top |-> 0, short |-> FALSE]
    <2>1. x \in Tick
      BY DEF Tick, TickPC
    <2>2. /\ tick' \in [Pollers -> Tick] /\ \A q \in Pollers \ {p} : tick'[q] = tick[q]
          /\ tick'[p] = x
      BY <1>1, <2>1 DEF Due
    <2>3. conn.id > 0
      BY <1>1 DEF Due, NoConn, Connection
    <2>4. TickTypeOK(p)'
      BY <1>1, <2>2, <2>3 DEF Due, TickTypeOK, Snap, Is, exchange
    <2> QED  BY <1>1, <2>2, <2>4, TickStepTypes DEF Due, Idle, NoConn
  <1>2. CASE Acquire(p)
    <2>1. NoTick \in Tick /\ [tick[p] EXCEPT !.pc = "decrypt"] \in Tick
      BY ConstantTypes DEF Tick, TickPC
    <2>2. /\ tick' \in [Pollers -> Tick] /\ \A q \in Pollers \ {p} : tick'[q] = tick[q]
      BY <1>2, <2>1 DEF Acquire
    <2>3. CASE slock
      <3>1. tick'[p] = NoTick
        BY <1>2, <2>3 DEF Acquire
      <3>2. tick'[p].pc = "idle" /\ tick'[p].snap.id = 0 /\ tick'[p].snap.cursor = 0 /\ tick'[p].top = 0
        BY <3>1 DEF NoTick, NoConn
      <3>3. TickTypeOK(p)'
        BY <1>2, <3>2 DEF Acquire, TickTypeOK, Snap, Row, exchange
      <3>4. tick'[p].snap.id <= MaxConns /\ tick'[p].snap.id <= lastId
        BY <3>2, SyncAssumption
      <3>5. /\ UNCHANGED <<stimuli, exchange, claims, imported, dropped, halfway, portfolioRest, conn,
                          holdings, build>>
            /\ slock' \in BOOLEAN
        BY <1>2 DEF Acquire
      <3>6. conn' = NoConn <=> conn'.id = 0
        BY <3>5 DEF NoConn
      <3> QED  BY <2>2, <3>3, <3>4, <3>5, <3>6, TickStepTypes DEF Idle
    <2>4. CASE ~slock
      <3>1. tick'[p] = [tick[p] EXCEPT !.pc = "decrypt"]
        BY <1>2, <2>4 DEF Acquire
      <3>2. tick'[p].pc = "decrypt" /\ tick'[p].snap = tick[p].snap /\ tick'[p].top = tick[p].top
        BY <3>1 DEF Tick
      <3>3. TickTypeOK(p)'
        BY <1>2, <3>2 DEF Acquire, TickTypeOK, Snap, Row, Key, exchange, Is
      <3> QED  BY <1>2, <2>2, <3>2, <3>3, TickStepTypes DEF Acquire, Idle, NoConn
    <2> QED  BY <2>3, <2>4
  <1>3. CASE Decrypt(p)
    <2>0. tick[p].pc # "idle" /\ Idle(p) /\ Snap(p).id > 0
      BY <1>3 DEF Decrypt, Is, Idle, TickTypeOK
    <2>1. CASE At(p, "balances") /\ UNCHANGED <<stimuli, conn>>
      BY <1>3, <2>0, <2>1, MoveTypes DEF Decrypt
    <2>2. CASE Spend(1) /\ At(p, "release") /\ Write(p, [Later(conn) EXCEPT !.status = "error"])
      <3>1. PICK c : c = [Later(conn) EXCEPT !.status = "error"]
        OBVIOUS
      <3>2. Kept(c) /\ Write(p, c)
        BY <2>2, <3>1, WrittenFacts DEF Kept
      <3> QED  BY <1>3, <2>0, <2>2, <3>2, MoveTypes DEF Decrypt
    <2>3. CASE /\ Snap(p).phase # "live" /\ ~backfill /\ UNCHANGED stimuli
               /\ tick' = [tick EXCEPT ![p].pc = "balances", ![p].snap.phase = "live"]
               /\ Write(p, [conn EXCEPT !.phase = "live"])
      <3>1. PICK c : c = [conn EXCEPT !.phase = "live"]
        OBVIOUS
      <3>2. Kept(c) /\ Write(p, c)
        BY <2>3, <3>1, WrittenFacts DEF Kept
      <3>3. /\ conn' \in Connection /\ conn'.id = conn.id /\ (conn' = NoConn <=> conn'.id = 0)
            /\ conn' = IF conn.id = Snap(p).id THEN c ELSE conn
        BY <2>0, <3>2, WriteFacts DEF Kept
      <3>4. /\ tick'[p] = [[tick[p] EXCEPT !.pc = "balances"] EXCEPT !.snap = [@ EXCEPT !.phase = "live"]]
            /\ DOMAIN tick' = Pollers /\ \A q \in Pollers \ {p} : tick'[q] = tick[q]
        BY <2>3
      <3>5. /\ tick'[p] \in Tick /\ tick'[p].pc = "balances" /\ tick'[p].top = tick[p].top
            /\ tick'[p].snap.id = Snap(p).id /\ tick'[p].snap.cursor = Snap(p).cursor
        <4>1. PICK y \in Connection : y = [Snap(p) EXCEPT !.phase = "live"]
                                        /\ y.id = Snap(p).id /\ y.cursor = Snap(p).cursor
          <5>1. LET y == [Snap(p) EXCEPT !.phase = "live"]
                IN  y \in Connection /\ y.id = Snap(p).id /\ y.cursor = Snap(p).cursor
            BY DEF Connection
          <5> QED  BY <5>1
        <4>2. tick'[p] = [[tick[p] EXCEPT !.pc = "balances"] EXCEPT !.snap = y]
          BY <3>4, <4>1 DEF Tick, Snap
        <4> QED  BY <4>1, <4>2 DEF Tick, TickPC
      <3>6. tick' \in [Pollers -> Tick]
        <4>1. tick' = [q \in Pollers |-> tick'[q]]
          BY <2>3
        <4> QED  BY <3>4, <3>5, <4>1
      <3>7. TickTypeOK(p)'
        BY <1>3, <2>0, <3>5 DEF Decrypt, TickTypeOK, Snap, Row, Key, exchange, Idle
      <3>8. conn'.cursor <= placed
        BY <3>2, <3>3 DEF Kept
      <3> QED  BY <1>3, <2>3, <3>3, <3>4, <3>5, <3>6, <3>7, <3>8, TickStepTypes DEF Decrypt, Idle
    <2> QED  BY <1>3, <2>1, <2>2, <2>3 DEF Decrypt
  <1>4. CASE Balances(p)
    <2>0. tick[p].pc # "idle" /\ Idle(p)
      BY <1>4 DEF Balances, Is, Idle
    <2>1. CASE CallFails(p) /\ UNCHANGED build
      BY <1>4, <2>0, <2>1, CallFailsFacts, MoveTypes DEF Balances
    <2>2. CASE At(p, "page") /\ Start(p, Holder) /\ UNCHANGED <<stimuli, conn>>
      <3> DEFINE x == [pc |-> "wallets", user |-> Holder, from |-> {}, full |-> TRUE, raced |-> FALSE]
      <3>1. x \in Build
        BY ConstantTypes DEF Build, Someone
      <3>2. build' \in [Clients \union Pollers -> Build] /\ \A q \in Pollers \ {p} : Idle(q) => Idle(q)'
        BY <2>2, <3>1 DEF Start, Idle
      <3>3. /\ tick' \in [Pollers -> Tick] /\ \A q \in Pollers \ {p} : tick'[q] = tick[q]
            /\ tick'[p].pc = "page" /\ tick'[p].snap = tick[p].snap /\ tick'[p].top = tick[p].top
        BY <2>2, AtFacts DEF TickPC
      <3>4. TickTypeOK(p)'
        BY <1>4, <2>0, <3>3 DEF Balances, TickTypeOK, Snap, Row, Key, exchange
      <3> QED  BY <1>4, <2>2, <3>2, <3>3, <3>4, TickStepTypes DEF Balances, NoConn
    <2> QED  BY <1>4, <2>1, <2>2 DEF Balances
  <1>5. CASE Page(p)
    <2> DEFINE from == From(Snap(p))
               last == LastOf(Snap(p))
    <2>0. tick[p].pc # "idle" /\ Idle(p)
      BY <1>5 DEF Page, Is, Idle
    <2>1. CASE CallFails(p)
      BY <1>5, <2>0, <2>1, CallFailsFacts, MoveTypes DEF Page
    <2>2. CASE /\ UNCHANGED stimuli /\ At(p, "release")
               /\ Write(p, [Later(conn) EXCEPT !.phase =
                              IF Snap(p).phase = "initial_backfill" THEN "live" ELSE @])
      <3>1. PICK f : f = IF Snap(p).phase = "initial_backfill" THEN "live" ELSE Later(conn).phase
        OBVIOUS
      <3>2. f \in {"initial_backfill", "live"}
        BY <3>1, WrittenFacts DEF Connection
      <3>3. PICK c : c = [Later(conn) EXCEPT !.phase = f]
        OBVIOUS
      <3>4. Kept(c) /\ Write(p, c)
        BY <2>2, <3>1, <3>2, <3>3, WrittenFacts DEF Kept
      <3> QED  BY <1>5, <2>0, <2>2, <3>4, MoveTypes DEF Page
    <2>3. CASE /\ from < last /\ UNCHANGED <<stimuli, conn>>
               /\ tick' = [tick EXCEPT ![p] = [pc |-> "claim", snap |-> Snap(p), row |-> from + 1,
                                               top |-> last, short |-> last < from + PageLimit]]
      <3>1. from \in Nat /\ last \in Nat /\ last <= placed /\ PageLimit \in Nat
        BY SyncAssumption DEF From, LastOf, Connection
      <3>2. PICK x \in Tick : /\ tick' = [tick EXCEPT ![p] = x] /\ x.pc = "claim" /\ x.snap = Snap(p)
                             /\ x.row = from + 1 /\ x.top = last
        <4>1. [pc |-> "claim", snap |-> Snap(p), row |-> from + 1, top |-> last,
               short |-> last < from + PageLimit] \in Tick
          BY <3>1 DEF Tick, TickPC
        <4> QED  BY <2>3, <4>1
      <3>3. /\ tick' \in [Pollers -> Tick] /\ \A q \in Pollers \ {p} : tick'[q] = tick[q]
            /\ tick'[p] = x
        BY <3>2
      <3>4. TickTypeOK(p)'
        BY <1>5, <2>0, <2>3, <3>1, <3>2, <3>3 DEF Page, TickTypeOK, Snap, Row, exchange, Idle
      <3> QED  BY <1>5, <2>3, <3>2, <3>3, <3>4, TickStepTypes DEF Page, NoConn, Idle
    <2> QED  BY <1>5, <2>1, <2>2, <2>3 DEF Page
  <1>6. CASE Claim(p) \/ Insert(p)
    <2>0. /\ tick[p].pc \in {"claim", "insert"} /\ Idle(p) /\ Row(p) \in 1..placed
          /\ tick[p].top \in Nat /\ Row(p) <= tick[p].top
      BY <1>6 DEF Claim, Insert, Is, Idle, TickTypeOK, Tick
    <2>1. Key(p) \in (1..MaxConns) \X Trades
      BY <2>0, SyncAssumption DEF Key, Trades, TickTypeOK, TInv, SyncTypeOK, Tick, Connection
    <2>2. /\ claims \subseteq claims' /\ claims' \subseteq (1..MaxConns) \X Trades
          /\ dropped' \subseteq claims'
          /\ imported' \in [(1..MaxConns) \X Trades -> Nat] /\ UNCHANGED <<slock, conn>>
          /\ UNCHANGED <<exchange, portfolioRest, halfway, holdings, build>>
          /\ (stimuli' = stimuli \/ Spend(1))
      <3>1. CASE Claim(p)
        BY <2>1, <3>1 DEF Claim
      <3>2. CASE Insert(p)
        <4>1. Key(p) \in claims
          BY <3>2 DEF Insert, Is, TickTypeOK
        <4>2. imported' \in [(1..MaxConns) \X Trades -> Nat]
          <5> DEFINE S == (1..MaxConns) \X Trades
          <5>1. imported \in [S -> Nat] /\ Key(p) \in S
            BY <2>1
          <5>2. imported' = imported \/ imported' = [imported EXCEPT ![Key(p)] = @ + 1]
            BY <3>2 DEF Insert
          <5> HIDE DEF S
          <5>3. imported' \in [S -> Nat]
            BY <5>1, <5>2
          <5> QED  BY <5>3 DEF S
        <4> QED  BY <3>2, <4>1, <4>2 DEF Insert
      <3> QED  BY <1>6, <3>1, <3>2
    <2>3. /\ tick' \in [Pollers -> Tick] /\ \A q \in Pollers \ {p} : tick'[q] = tick[q]
          /\ tick'[p].snap = tick[p].snap /\ tick'[p].top = tick[p].top
          /\ \/ tick'[p].pc = "claim" /\ tick'[p].row = tick[p].row + 1 /\ Row(p) # tick[p].top
             \/ tick'[p].pc = "cursor" /\ tick'[p].row = tick[p].row + 1 /\ Row(p) = tick[p].top
             \/ tick'[p].pc = "insert" /\ tick'[p].row = tick[p].row /\ Key(p) \in claims'
             \/ tick'[p].pc = "fail" /\ tick'[p].row = tick[p].row
      <3>1. CASE NextRow(p)
        BY <3>1, NextRowFacts
      <3>2. CASE At(p, "insert") /\ Key(p) \in claims'
        BY <3>2, AtFacts DEF TickPC
      <3>3. CASE At(p, "fail")
        BY <3>3, AtFacts DEF TickPC
      <3> QED  BY <1>6, <3>1, <3>2, <3>3 DEF Claim, Insert
    <2>4. TickTypeOK(p)'
      <3>1. placed' = placed /\ build'[p] = NoBuild /\ Snap(p)' = Snap(p) /\ Row(p)' = tick'[p].row
        BY <2>0, <2>2, <2>3 DEF exchange, Idle, Snap, Row
      <3>2. CASE tick'[p].pc \in {"claim", "cursor"} /\ tick'[p].row = tick[p].row + 1
        BY <2>0, <2>3, <3>1, <3>2 DEF TickTypeOK
      <3>3. CASE tick'[p].pc \in {"insert", "fail"} /\ tick'[p].row = tick[p].row
        <4>1. Key(p)' = Key(p)
          BY <3>1, <3>3 DEF Key
        <4> QED  BY <2>0, <2>3, <3>1, <3>3, <4>1 DEF TickTypeOK
      <3> QED  BY <2>3, <3>2, <3>3
    <2> QED  BY <2>2, <2>3, <2>4, TickStepTypes DEF Idle, NoConn
  <1>7. CASE Cursor(p)
    <2>0. tick[p].pc # "idle" /\ Idle(p) /\ Snap(p).id > 0 /\ tick[p].top \in Nat
      BY <1>7 DEF Cursor, Is, Idle, TickTypeOK, Tick
    <2>1. PICK c : c = [conn EXCEPT !.cursor = tick[p].top]
      OBVIOUS
    <2>2. c \in Connection /\ c.id = conn.id /\ c.cursor = tick[p].top /\ Write(p, c)
      BY <1>7, <2>0, <2>1, WrittenFacts DEF Cursor
    <2>3. /\ conn' \in Connection /\ conn'.id = conn.id /\ (conn' = NoConn <=> conn'.id = 0)
          /\ conn' = IF conn.id = Snap(p).id THEN c ELSE conn
      BY <2>0, <2>2, WriteFacts
    <2>4. conn'.cursor <= placed
      BY <2>2, <2>3 DEF TickTypeOK
    <2>5. /\ tick' \in [Pollers -> Tick] /\ \A q \in Pollers \ {p} : tick'[q] = tick[q]
          /\ tick'[p].pc = "finish" /\ tick'[p].snap = tick[p].snap /\ tick'[p].top = tick[p].top
      BY <1>7, AtFacts DEF Cursor, TickPC
    <2>6. TickTypeOK(p)'
      BY <1>7, <2>0, <2>5 DEF Cursor, TickTypeOK, Snap, Row, Key, exchange, Idle
    <2> QED  BY <1>7, <2>3, <2>4, <2>5, <2>6, TickStepTypes DEF Cursor, Idle
  <1>8. CASE Finish(p) \/ Fail(p)
    <2>0. tick[p].pc # "idle" /\ Idle(p)
      BY <1>8 DEF Finish, Fail, Is, Idle
    <2>1. CASE Fail(p)
      <3>1. Kept(Later(conn)) /\ Write(p, Later(conn))
        BY <2>1, WrittenFacts DEF Kept, Fail
      <3> QED  BY <2>0, <2>1, <3>1, MoveTypes DEF Fail
    <2>2. CASE Finish(p)
      <3>1. PICK f : f = IF Snap(p).phase = "initial_backfill" /\ tick[p].short THEN "live"
                         ELSE Later(conn).phase
        OBVIOUS
      <3>2. f \in {"initial_backfill", "live"}
        BY <3>1, WrittenFacts DEF Connection
      <3>3. PICK c : c = [Later(conn) EXCEPT !.phase = f]
        OBVIOUS
      <3>4. Kept(c) /\ Write(p, c)
        BY <2>2, <3>1, <3>2, <3>3, WrittenFacts DEF Kept, Finish
      <3> QED  BY <2>0, <2>2, <3>4, MoveTypes DEF Finish
    <2> QED  BY <1>8, <2>1, <2>2
  <1>9. CASE Release(p) \/ PollerDies(p)
    <2>1. /\ tick' \in [Pollers -> Tick] /\ \A q \in Pollers \ {p} : tick'[q] = tick[q]
          /\ tick'[p] = NoTick
      BY <1>9, ConstantTypes DEF Release, PollerDies
    <2>2. tick'[p].pc = "idle" /\ tick'[p].snap.id = 0 /\ tick'[p].snap.cursor = 0 /\ tick'[p].top = 0
      BY <2>1 DEF NoTick, NoConn
    <2>3. tick'[p].snap.id <= MaxConns /\ tick'[p].snap.id <= lastId
      BY <2>2, SyncAssumption
    <2>4. TickTypeOK(p)'
      BY <1>9, <2>2 DEF Release, PollerDies, TickTypeOK, Snap, Row, exchange
    <2>5. CASE Release(p)
      BY <2>1, <2>3, <2>4, <2>5, TickStepTypes DEF Release, Idle, NoConn
    <2>6. CASE PollerDies(p)
      <3>1. dropped' \subseteq claims
        BY <2>6 DEF PollerDies, Is, TickTypeOK
      <3>2. build' \in [Clients \union Pollers -> Build] /\ \A q \in Pollers \ {p} : Idle(q) => Idle(q)'
        BY <2>6, ConstantTypes DEF PollerDies, Idle
      <3> QED  BY <2>1, <2>3, <2>4, <2>6, <3>1, <3>2, TickStepTypes DEF PollerDies, NoConn
    <2> QED  BY <1>9, <2>5, <2>6
  <1> QED  BY <1>1, <1>2, <1>3, <1>4, <1>5, <1>6, <1>7, <1>8, <1>9
-----------------------------------------------------------------------------
\* The steps beside the ticks: the exchange, the requests about the connection.
OneLink == \A c \in Clients : Requested(c, "link") =>
  lastId < MaxConns /\ \A d \in Clients : Requested(d, "link") => d = c

\* A step of the exchange's feed that no tick takes.
LEMMA BesideTypes ==
    ASSUME TInv, feed = "exchange", feed' = feed, UNCHANGED <<hookVars, tick, old, backfill>>,
           UNCHANGED <<claims, dropped>>, stimuli' = stimuli \/ Spend(1), WalletTypes', OneLink',
           lastId <= lastId', conn'.id <= MaxConns, conn'.cursor <= placed',
           placed <= placed', placed' \in 0..MaxTrades, validKey' \in Nat, slock' \in BOOLEAN,
           imported' \in [(1..MaxConns) \X Trades -> Nat], halfway' \subseteq Nat,
           \A q \in Clients \union Pollers : Idle(q) => Idle(q)'
    PROVE  TInv'
  <1>1. BudgetOK'
    BY SpendType DEF TInv
  <1>2. \A q \in Pollers : TickTypeOK(q)'
    <2>1. ASSUME NEW q \in Pollers  PROVE TickTypeOK(q)'
      <3>1. /\ TickTypeOK(q) /\ Snap(q)' = Snap(q) /\ Row(q)' = Row(q) /\ Key(q)' = Key(q)
            /\ Snap(q).cursor \in Nat /\ tick[q].top \in Nat /\ placed \in Nat
        BY TickFacts DEF Snap, Row, Key, Connection, Tick, TInv, SyncTypeOK
      <3>2. placed' \in Nat /\ (build[q] = NoBuild => build'[q] = NoBuild)
        BY DEF Idle
      <3> QED  BY <3>1, <3>2 DEF TickTypeOK
    <2> QED  BY <2>1
  <1>3. old' \in 0..placed'
    BY DEF TInv, SyncTypeOK
  <1>4. SyncTypeOK'
    BY <1>2, <1>3 DEF TInv, SyncTypeOK
  <1>5. IngestTypeOK'
    BY DEF TInv, IngestTypeOK, hookVars
  <1>6. \A q \in Pollers : Snap(q)'.id <= MaxConns /\ Snap(q)'.id <= lastId'
    <2>1. ASSUME NEW q \in Pollers  PROVE Snap(q)'.id <= MaxConns /\ Snap(q)'.id <= lastId'
      <3>1. Snap(q)' = Snap(q) /\ Snap(q).id \in Nat /\ lastId \in Nat /\ lastId' \in Nat
            /\ Snap(q).id <= MaxConns /\ Snap(q).id <= lastId
        BY TickFacts DEF Snap, Connection, WalletTypes, PortfolioTypeOK
      <3> QED  BY <3>1
    <2> QED  BY <2>1
  <1>7. Bounds'
    BY <1>6 DEF TInv, Bounds, OneLink
  <1> QED  BY <1>1, <1>4, <1>5, <1>7 DEF TInv

\* The user trades, replaces his key; time passes; a lock's TTL ends.
LEMMA ExchangeTypes ==
    ASSUME TInv, feed = "exchange", feed' = feed, UNCHANGED hookVars,
           PlaceTrade \/ ReplaceKey \/ BecomesDue \/ LockExpires
    PROVE  TInv'
  <1>0. /\ WalletTypes /\ placed \in Nat /\ validKey \in Nat /\ conn \in Connection
        /\ conn.id <= MaxConns /\ conn.cursor <= placed /\ placed <= MaxTrades /\ OneLink
        /\ (conn = NoConn <=> conn.id = 0) /\ lastId \in Nat /\ placed \in 0..MaxTrades
        /\ imported \in [(1..MaxConns) \X Trades -> Nat] /\ halfway \subseteq Nat /\ slock \in BOOLEAN
    BY SyncAssumption DEF TInv, SyncTypeOK, Bounds, OneLink, WalletTypes, PortfolioTypeOK
  <1>1. /\ UNCHANGED <<tick, old, backfill, claims, dropped, imported, halfway, portfolioRest, build,
                      holdings>>
        /\ Spend(1)
    BY DEF PlaceTrade, ReplaceKey, BecomesDue, LockExpires, exchange, syncVars
  <1>2. /\ conn' \in Connection /\ conn'.id = conn.id /\ conn'.cursor = conn.cursor
        /\ (conn' = NoConn <=> conn'.id = 0)
    <2>1. CASE BecomesDue
      <3>1. PICK c : c = [conn EXCEPT !.due = TRUE]
        OBVIOUS
      <3>2. c \in Connection /\ c.id = conn.id /\ c.cursor = conn.cursor
        BY <1>0, <3>1 DEF Connection
      <3>3. conn' = c /\ conn.id # 0
        BY <1>0, <2>1, <3>1 DEF BecomesDue
      <3> QED  BY <3>2, <3>3 DEF NoConn
    <2>2. CASE conn' = conn
      BY <1>0, <2>2 DEF NoConn
    <2> QED  BY <2>1, <2>2 DEF PlaceTrade, ReplaceKey, BecomesDue, LockExpires
  <1>3. WalletTypes'
    BY <1>0, <1>1, <1>2 DEF WalletTypes, PortfolioTypeOK, AtHand, portfolioRest, registry, providers
  <1>4. OneLink'
    BY <1>0, <1>1 DEF OneLink, Requested, portfolioRest, registry
  <1>5. /\ placed <= placed' /\ placed' \in 0..MaxTrades /\ validKey' \in Nat /\ slock' \in BOOLEAN
        /\ imported' \in [(1..MaxConns) \X Trades -> Nat] /\ halfway' \subseteq Nat
    <2>1. placed' = placed \/ (placed' = placed + 1 /\ placed < MaxTrades)
      BY DEF PlaceTrade, ReplaceKey, BecomesDue, LockExpires, exchange, syncVars
    <2>2. MaxTrades \in Nat
      BY SyncAssumption
    <2>3. placed <= placed' /\ placed' \in 0..MaxTrades
      BY <1>0, <2>1, <2>2
    <2>4. validKey' \in Nat /\ slock' \in BOOLEAN
      <3>1. validKey' = validKey \/ validKey' = validKey + 1
        BY DEF PlaceTrade, ReplaceKey, BecomesDue, LockExpires, exchange, syncVars
      <3>2. slock' = slock \/ slock' = FALSE
        BY DEF PlaceTrade, ReplaceKey, BecomesDue, LockExpires, exchange, syncVars
      <3>3. validKey' \in Nat
        BY <1>0, <3>1
      <3>4. slock' \in BOOLEAN
        BY <1>0, <3>2
      <3> QED  BY <3>3, <3>4
    <2> QED  BY <1>0, <1>1, <2>3, <2>4
  <1>6. conn'.cursor <= placed'
    BY <1>0, <1>2, <1>5 DEF Connection
  <1>7. lastId <= lastId' /\ \A q \in Clients \union Pollers : Idle(q) => Idle(q)'
    BY <1>0, <1>1 DEF Idle, portfolioRest, registry
  <1> QED  BY <1>0, <1>1, <1>2, <1>3, <1>4, <1>5, <1>6, <1>7, BesideTypes

\* A request's job about the connection.
LEMMA RequestFacts ==
    ASSUME job \in [Clients -> Job], NEW c \in Clients, NEW pc \in {"link", "patch", "events"},
           NEW id \in Nat, Request(c, pc, id)
    PROVE  /\ job' \in [Clients -> Job] /\ \A d \in Clients \ {c} : job'[d] = job[d]
           /\ job'[c] = [pc |-> pc, user |-> Holder, given |-> "none", id |-> id]
  <1> DEFINE x == [pc |-> pc, user |-> Holder, given |-> "none", id |-> id]
  <1>1. x \in Job
    BY ConstantTypes DEF Job, JobPC, Someone
  <1> QED  BY <1>1 DEF Request

\* The steps of those requests.
LinkStep(c) ==
  \/ Link(c) \/ CreateConnection(c) \/ Patch(c) \/ PatchConnection(c)
  \/ RemoveConnection(c) \/ DeleteEvents(c) \/ DeleteConnection(c) \/ RequestDies(c)

\* A request about the connection begins.
LEMMA BeginTypes ==
    ASSUME TInv, feed = "exchange", feed' = feed, UNCHANGED hookVars, NEW c \in Clients,
           Link(c) \/ Patch(c) \/ RemoveConnection(c)
    PROVE  TInv'
  <1>0. /\ WalletTypes /\ validKey \in Nat /\ conn \in Connection /\ placed \in 0..MaxTrades
        /\ conn.id <= MaxConns /\ conn.cursor <= placed /\ OneLink
        /\ (conn = NoConn <=> conn.id = 0) /\ lastId \in Nat /\ job \in [Clients -> Job]
        /\ imported \in [(1..MaxConns) \X Trades -> Nat] /\ halfway \subseteq Nat /\ slock \in BOOLEAN
    BY DEF TInv, SyncTypeOK, Bounds, OneLink, WalletTypes, PortfolioTypeOK
  <1>1. /\ UNCHANGED <<tick, exchange, slock, claims, dropped, imported, halfway, registry, providers,
                      primary, missed, conn, build, holdings>>
        /\ Spend(1)
    BY DEF Link, Patch, RemoveConnection, requestRest, syncVars, exchange, registry
  <1>2. PICK pc \in {"link", "patch", "events"}, id \in Nat :
          /\ Request(c, pc, id)
          /\ pc = "link" => Link(c)
          /\ pc = "events" => id > 0
    <2>1. CASE Link(c)
      BY <1>0, <2>1 DEF Link
    <2>2. CASE Patch(c)
      BY <1>0, <2>2 DEF Patch
    <2>3. CASE RemoveConnection(c)
      <3>1. conn.id \in Nat /\ conn.id > 0
        BY <1>0, <2>3 DEF RemoveConnection, Connection
      <3> QED  BY <2>3, <3>1 DEF RemoveConnection
    <2> QED  BY <2>1, <2>2, <2>3
  <1>3. /\ job' \in [Clients -> Job] /\ (\A d \in Clients \ {c} : job'[d] = job[d])
        /\ job'[c] = [pc |-> pc, user |-> Holder, given |-> "none", id |-> id]
    BY <1>0, <1>2, RequestFacts
  <1>4. AtHand(c)'
    BY <1>2, <1>3 DEF AtHand, OnPC, OffPC
  <1>5. \A d \in Clients : AtHand(d)'
    BY <1>0, <1>3, <1>4, OthersAtHand DEF WalletTypes
  <1>6. WalletTypes'
    BY <1>0, <1>1, <1>3, <1>5 DEF WalletTypes, PortfolioTypeOK, registry, providers, NoConn
  <1>7. OneLink'
    <2>1. lastId' = lastId
      BY <1>1 DEF registry
    <2>2. CASE pc # "link"
      BY <1>0, <1>3, <2>1, <2>2 DEF OneLink, Requested
    <2>3. CASE pc = "link"
      <3>1. lastId < MaxConns /\ \A d \in Clients : job[d].pc # "link"
        BY <1>2, <2>3 DEF Link, Requested
      <3> QED  BY <1>3, <2>1, <3>1 DEF OneLink, Requested
    <2> QED  BY <2>2, <2>3
  <1>8. lastId <= lastId' /\ \A q \in Clients \union Pollers : Idle(q) => Idle(q)'
    BY <1>0, <1>1 DEF Idle, registry
  <1> QED  BY <1>0, <1>1, <1>6, <1>7, <1>8, BesideTypes DEF exchange, Connection

\* A request about the connection goes on.
LEMMA LinkStepTypes ==
    ASSUME TInv, feed = "exchange", feed' = feed, UNCHANGED hookVars, NEW c \in Clients, LinkStep(c)
    PROVE  TInv'
  <1>0. /\ WalletTypes /\ PortfolioTypeOK /\ validKey \in Nat /\ conn \in Connection
        /\ placed \in 0..MaxTrades /\ conn.id <= MaxConns /\ conn.id <= lastId
        /\ conn.cursor <= placed /\ OneLink
        /\ (conn = NoConn <=> conn.id = 0) /\ lastId \in Nat /\ job \in [Clients -> Job]
        /\ imported \in [(1..MaxConns) \X Trades -> Nat] /\ halfway \subseteq Nat /\ slock \in BOOLEAN
        /\ AtHand(c) /\ job[c] \in Job /\ MaxConns \in Nat
    BY SyncAssumption DEF TInv, SyncTypeOK, Bounds, OneLink, WalletTypes, PortfolioTypeOK
  <1>a. 0 <= placed /\ 0 <= MaxConns /\ NoConn \in Connection /\ NoConn.id = 0 /\ NoConn.cursor = 0
    BY <1>0, ConstantTypes DEF NoConn
  <1>1. CASE Link(c) \/ Patch(c) \/ RemoveConnection(c)
    BY <1>1, BeginTypes
  <1>2. CASE CreateConnection(c) \/ PatchConnection(c)
    <2>1. /\ Done(c) /\ UNCHANGED <<stimuli, requestRest, holdings, build>>
      BY <1>2 DEF CreateConnection, PatchConnection
    <2>2. /\ job' \in [Clients -> Job] /\ job'[c] = NoJob /\ \A d \in Clients \ {c} : job'[d] = job[d]
      BY <1>0, <2>1, JobTypes
    <2>3. AtHand(c)'
      BY <2>2 DEF AtHand, OnPC, OffPC, NoJob
    <2>4. \A d \in Clients : AtHand(d)'
      BY <1>0, <2>2, <2>3, OthersAtHand DEF WalletTypes
    <2>5. /\ lastId' \in Nat /\ lastId <= lastId' /\ conn' \in Connection
          /\ conn'.id <= lastId' /\ conn'.id <= MaxConns /\ conn'.cursor <= placed
          /\ (conn' = NoConn <=> conn'.id = 0)
      <3>1. CASE CreateConnection(c)
        <4>1. conn' = NewConn(lastId + 1, job[c].id) /\ lastId' = lastId + 1 /\ lastId < MaxConns
          BY <1>0, <3>1 DEF CreateConnection, OneLink
        <4>2. job[c].id \in Nat
          BY <1>0 DEF Job
        <4>3. /\ conn' \in Connection /\ conn'.id = lastId + 1 /\ conn'.cursor = 0
          BY <1>0, <4>1, <4>2 DEF NewConn, Connection
        <4> QED  BY <1>0, <1>a, <4>1, <4>3
      <3>2. CASE PatchConnection(c) /\ conn # NoConn
        <4>1. PICK x : x = [conn EXCEPT !.key = job[c].id, !.status = "active"]
          OBVIOUS
        <4>2. x \in Connection /\ x.id = conn.id /\ x.cursor = conn.cursor
          BY <1>0, <4>1 DEF Connection, Job
        <4>3. conn' = x /\ lastId' = lastId /\ conn.id # 0
          BY <1>0, <3>2, <4>1 DEF PatchConnection
        <4> QED  BY <1>0, <1>a, <4>2, <4>3
      <3>3. CASE PatchConnection(c) /\ conn = NoConn
        BY <1>0, <1>a, <3>3 DEF PatchConnection
      <3> QED  BY <1>2, <3>1, <3>2, <3>3
    <2>6. WalletTypes'
      <3>1. wallets' \subseteq [id : 1..lastId', user : Owners, address : Sourced, given : Supplied]
        BY <1>0, <2>1, <2>5 DEF PortfolioTypeOK, requestRest
      <3> QED  BY <1>0, <2>1, <2>2, <2>4, <2>5, <3>1 DEF WalletTypes, PortfolioTypeOK, requestRest, providers
    <2>7. OneLink'
      <3>1. CASE CreateConnection(c)
        BY <1>0, <2>2, <3>1 DEF CreateConnection, OneLink, Requested, NoJob
      <3>2. CASE PatchConnection(c)
        BY <1>0, <2>2, <3>2 DEF PatchConnection, OneLink, Requested, NoJob
      <3> QED  BY <1>2, <3>1, <3>2
    <2> QED  BY <1>0, <2>1, <2>5, <2>6, <2>7, BesideTypes DEF requestRest, syncVars, exchange, Idle
  <1>3. CASE DeleteEvents(c)
    <2>1. /\ job' \in [Clients -> Job] /\ (\A d \in Clients \ {c} : job'[d] = job[d])
          /\ job'[c].pc = "connection" /\ job'[c].id = job[c].id
      BY <1>0, <1>3, JobTypes DEF DeleteEvents, JobPC
    <2>2. AtHand(c)'
      BY <1>0, <1>3, <2>1 DEF DeleteEvents, Requested, AtHand, OnPC, OffPC
    <2>3. \A d \in Clients : AtHand(d)'
      BY <1>0, <2>1, <2>2, OthersAtHand DEF WalletTypes
    <2>4. UNCHANGED <<stimuli, exchange, slock, tick, claims, dropped, halfway, registry, providers, primary,
                     missed, conn, holdings, build>>
      BY <1>3 DEF DeleteEvents
    <2>5. WalletTypes'
      BY <1>0, <2>1, <2>3, <2>4 DEF WalletTypes, PortfolioTypeOK, registry, providers, NoConn
    <2>6. OneLink'
      BY <1>0, <2>1, <2>4 DEF OneLink, Requested, registry
    <2>7. imported' \in [(1..MaxConns) \X Trades -> Nat]
      BY <1>0, <1>3 DEF DeleteEvents
    <2> QED  BY <1>0, <2>4, <2>5, <2>6, <2>7, BesideTypes DEF exchange, registry, Idle, Connection
  <1>4. CASE DeleteConnection(c)
    <2>0. UNCHANGED <<stimuli, requestRest, lastId, holdings>>
      BY <1>4 DEF DeleteConnection
    <2>1. /\ job' \in [Clients -> Job] /\ (\A d \in Clients \ {c} : job'[d] = job[d])
          /\ AtHand(c)' /\ job'[c].pc # "link"
      <3>1. CASE Done(c)
        BY <1>0, <3>1, JobTypes DEF AtHand, OnPC, OffPC, NoJob
      <3>2. CASE Then(c, "purge")
        <4>1. job[c].id > 0
          BY <1>0, <1>4 DEF DeleteConnection, Requested, AtHand
        <4>2. "purge" \in JobPC
          BY DEF JobPC
        <4>3. /\ job' \in [Clients -> Job] /\ (\A d \in Clients \ {c} : job'[d] = job[d])
              /\ job'[c].pc = "purge" /\ job'[c].id = job[c].id
          BY <1>0, <3>2, <4>2, JobTypes
        <4> QED  BY <4>1, <4>3 DEF AtHand, OnPC, OffPC
      <3> QED  BY <1>4, <3>1, <3>2 DEF DeleteConnection
    <2>2. \A d \in Clients : AtHand(d)'
      BY <1>0, <2>1, OthersAtHand DEF WalletTypes
    <2>3. /\ build' \in [Clients \union Pollers -> Build]
          /\ \A b \in Clients \union Pollers : Idle(b) => Idle(b)'
      <3>1. CASE Race(Holder, {"upsert"})
        BY <1>0, <3>1, RaceFacts DEF PortfolioTypeOK, Idle
      <3>2. CASE build' = build
        BY <1>0, <3>2 DEF PortfolioTypeOK, Idle
      <3> QED  BY <1>4, <3>1, <3>2 DEF DeleteConnection
    <2>4. /\ conn' \in Connection /\ conn'.id <= lastId /\ conn'.id <= MaxConns /\ conn'.cursor <= placed
          /\ (conn' = NoConn <=> conn'.id = 0)
      <3>1. conn' = conn \/ conn' = NoConn
        BY <1>4 DEF DeleteConnection
      <3> QED  BY <1>0, <1>a, <3>1
    <2>5. WalletTypes'
      BY <1>0, <2>0, <2>1, <2>2, <2>3, <2>4 DEF WalletTypes, PortfolioTypeOK, requestRest, providers
    <2>6. OneLink'
      BY <1>0, <2>0, <2>1 DEF OneLink, Requested
    <2> QED  BY <1>0, <2>0, <2>3, <2>4, <2>5, <2>6, BesideTypes DEF requestRest, syncVars, exchange
  <1>5. CASE RequestDies(c)
    <2>1. /\ WalletTypes' /\ UNCHANGED <<conn, registry, providers, primary>> /\ Spend(1)
          /\ job'[c] = NoJob /\ (\A d \in Clients \ {c} : job'[d] = job[d])
          /\ \A b \in Clients \union Pollers : Idle(b) => Idle(b)'
      BY <1>0, <1>5, ClientDiesTypes DEF RequestDies
    <2>2. halfway' \subseteq Nat
      BY <1>0, <1>5 DEF RequestDies, Job
    <2>3. OneLink'
      BY <1>0, <2>1 DEF OneLink, Requested, NoJob, registry
    <2> QED  BY <1>0, <1>5, <2>1, <2>2, <2>3, BesideTypes DEF RequestDies, exchange, registry, Connection
  <1> QED  BY <1>1, <1>2, <1>3, <1>4, <1>5 DEF LinkStep
-----------------------------------------------------------------------------
\* Every step of the exchange's behaviours.
LEMMA ExchangeFeedTypes ==
    ASSUME TInv, feed = "exchange", feed' = feed, SyncNext, UNCHANGED hookVars
    PROVE  TInv'
  <1>0. /\ WalletTypes /\ conn \in Connection /\ placed \in 0..MaxTrades /\ conn.id <= MaxConns
        /\ conn.cursor <= placed /\ OneLink /\ lastId \in Nat /\ job \in [Clients -> Job]
        /\ imported \in [(1..MaxConns) \X Trades -> Nat] /\ halfway \subseteq Nat
        /\ slock \in BOOLEAN /\ placed <= placed /\ lastId <= lastId
    BY DEF TInv, SyncTypeOK, Bounds, OneLink, WalletTypes, PortfolioTypeOK
  <1>v. validKey \in Nat
    BY DEF TInv, SyncTypeOK
  <1>1. ASSUME NEW c \in Clients, Purge(c), UNCHANGED syncVars  PROVE TInv'
    <2>1. /\ WalletTypes' /\ UNCHANGED <<conn, lastId, build>> /\ (stimuli' = stimuli \/ Spend(1))
      BY <1>0, <1>1, PurgeTypes
    <2>2. job'[c].pc # "link" /\ \A d \in Clients \ {c} : job'[d] = job[d]
      BY <1>0, <1>1, JobTypes DEF Purge, JobPC, NoJob
    <2>3. OneLink'
      BY <1>0, <2>1, <2>2 DEF OneLink, Requested
    <2>4. UNCHANGED <<placed, validKey, old, backfill, slock, tick, claims, dropped, imported, halfway>>
      BY <1>1 DEF syncVars, exchange
    <2>5. \A q \in Clients \union Pollers : Idle(q) => Idle(q)'
      BY <2>1 DEF Idle
    <2> QED  BY <1>0, <1>v, <2>1, <2>3, <2>4, <2>5, BesideTypes
  <1>2. ASSUME NEW p \in Pollers, BuildStep(p), UNCHANGED syncVars  PROVE TInv'
    <2>1. /\ WalletTypes' /\ UNCHANGED <<registry, conn, job>> /\ (stimuli' = stimuli \/ Spend(1))
          /\ \A q \in Clients \union Pollers : Idle(q) => Idle(q)'
      BY <1>0, <1>2, BuildStepTypes
    <2>2. lastId' = lastId
      BY <2>1 DEF registry
    <2>3. OneLink'
      BY <1>0, <2>1, <2>2 DEF OneLink, Requested
    <2>4. UNCHANGED <<placed, validKey, old, backfill, slock, tick, claims, dropped, imported, halfway>>
      BY <1>2 DEF syncVars, exchange
    <2> QED  BY <1>0, <1>v, <2>1, <2>2, <2>3, <2>4, BesideTypes
  <1> QED
    BY <1>1, <1>2, ExchangeTypes, PollStepTypes, LinkStepTypes DEF SyncNext, LinkStep, BuildStep
-----------------------------------------------------------------------------
\* The steps of the webhooks, their flushes and the refresh of statuses.
HookOK(h) == IF hook[h].pc = "idle" THEN hook[h] = NoHook
  ELSE /\ hook[h].src \in Sources /\ hook[h].chain \in Chains /\ hook[h].txs # <<>>
       /\ hook[h].pc = "claim" => hook[h].user \in Owners
FlushOK(f) == IF flush[f].pc = "idle" THEN flush[f] = NoFlush
              ELSE flush[f].chain \in Chains /\ flush[f].events # <<>>

\* What is idle, and what is delivered, is of its type.
LEMMA IngestConstants ==
    /\ NoHook \in Handled /\ NoFlush \in Flushed /\ "none" \in Statuses
    /\ \A d \in Deliveries : d.src \in Sources /\ d.chain \in Chains /\ d.txs \in Seq(Txs) /\ d.txs # <<>>
  <1>1. NoHook \in Handled /\ NoFlush \in Flushed /\ "none" \in Statuses
    BY DEF NoHook, Handled, NoFlush, Flushed, Someone, Statuses
  <1>2. ASSUME NEW d \in Deliveries
        PROVE  d.src \in Sources /\ d.chain \in Chains /\ d.txs \in Seq(Txs) /\ d.txs # <<>>
    <2>1. d.src \in Sources /\ d.chain \in Chains /\ d.txs # <<>> /\ d.txs \in Seq(STRING)
      BY IngestAssumption DEF Sources, Chains
    <2>2. \A i \in 1..Len(d.txs) : d.txs[i] \in Txs
      BY <2>1 DEF Txs, ToSet
    <2> QED  BY <2>1, <2>2
  <1> QED  BY <1>1, <1>2

\* What is taken off a delivery leaves the rest of it, or nothing.
LEMMA SkipFacts ==
    ASSUME IngestTypeOK, NEW h \in Hooks, hook[h].pc # "idle", Skip(h)
    PROVE  /\ hook' \in [Hooks -> Handled] /\ \A g \in Hooks \ {h} : hook'[g] = hook[g]
           /\ HookOK(h)' /\ hook'[h].pc # "claim"
           /\ hook'[h] = NoHook \/ (hook'[h].src = hook[h].src /\ hook'[h].chain = hook[h].chain
                /\ hook'[h].txs = Tail(hook[h].txs) /\ hook'[h].pc = "find")
           /\ Len(hook[h].txs) = 1 <=> hook'[h] = NoHook
  <1>1. hook[h] \in Handled /\ HookOK(h) /\ hook \in [Hooks -> Handled]
    BY DEF IngestTypeOK, HookOK
  <1> DEFINE s == hook[h].txs
             x == [hook[h] EXCEPT !.pc = "find", !.txs = Tail(s)]
  <1>2. s \in Seq(Txs) /\ s # <<>>
    BY <1>1 DEF Handled, HookOK
  <1>3. Tail(s) \in Seq(Txs) /\ Len(s) \in Nat /\ (Len(s) # 1 => Tail(s) # <<>>)
    <2>1. Tail(s) \in Seq(Txs) /\ Len(Tail(s)) = Len(s) - 1 /\ Len(s) \in Nat
      BY <1>2, HeadTailProperties, LenProperties
    <2>2. ASSUME Tail(s) = <<>>  PROVE Len(s) = 1
      <3>1. PICK t : t = Tail(s)
        OBVIOUS
      <3>2. Len(t) = 0
        BY <2>2, <3>1, EmptySeq
      <3> QED  BY <2>1, <3>1, <3>2
    <2> QED  BY <2>1, <2>2
  <1>4. CASE Len(s) = 1
    <2>1. hook' = [hook EXCEPT ![h] = NoHook]
      BY <1>4 DEF Skip, Rest
    <2> QED  BY <1>1, <1>4, <2>1, IngestConstants DEF HookOK, NoHook
  <1>5. CASE Len(s) # 1
    <2>1. x \in Handled /\ x.pc = "find" /\ x.txs = Tail(s) /\ x.src = hook[h].src /\ x.chain = hook[h].chain
      BY <1>1, <1>3 DEF Handled
    <2>2. Rest(hook[h]) = x
      BY <1>5 DEF Rest
    <2>3. hook' \in [Hooks -> Handled] /\ hook'[h] = x /\ \A g \in Hooks \ {h} : hook'[g] = hook[g]
      BY <1>1, <2>1, <2>2 DEF Skip
    <2>4. x # NoHook
      BY <2>1 DEF NoHook
    <2> QED  BY <1>1, <1>3, <1>5, <2>1, <2>3, <2>4 DEF HookOK
  <1> QED  BY <1>4, <1>5

\* One delivery's step leaves the others well typed.
LEMMA OthersHookOK ==
    ASSUME IngestTypeOK, NEW h \in Hooks, \A g \in Hooks \ {h} : hook'[g] = hook[g], HookOK(h)'
    PROVE  \A g \in Hooks : HookOK(g)'
  <1>1. ASSUME NEW g \in Hooks \ {h}  PROVE HookOK(g)'
    BY DEF IngestTypeOK, HookOK
  <1> QED  BY <1>1

\* What is at hand in a claim.
LEMMA RawFacts ==
    ASSUME IngestTypeOK, NEW h \in Hooks, hook[h].pc # "idle"
    PROVE  /\ KeyOf(Raw(h), hook[h].chain) \in Receipts /\ hook[h].chain \in Chains
           /\ Brought(h) \subseteq Receipts
           /\ hook[h].pc = "claim" => Raw(h) \in Activity
           /\ Raw(h).src = hook[h].src /\ Raw(h).user = hook[h].user
           /\ KeyOf(Raw(h), hook[h].chain) \in Brought(h)
  <1>1. hook[h] \in Handled /\ hook[h].src \in Sources /\ hook[h].chain \in Chains /\ hook[h].txs # <<>>
        /\ hook[h].txs \in Seq(Txs) /\ (hook[h].pc = "claim" => hook[h].user \in Owners)
    BY DEF IngestTypeOK, Handled
  <1>2. Head(hook[h].txs) \in Txs /\ Head(hook[h].txs) = hook[h].txs[1] /\ Len(hook[h].txs) \in Nat
        /\ Len(hook[h].txs) > 0
    BY <1>1, HeadTailProperties, EmptySeq
  <1>3. ToSet(hook[h].txs) \subseteq Txs /\ Head(hook[h].txs) \in ToSet(hook[h].txs)
    BY <1>1, <1>2 DEF ToSet
  <1> QED  BY <1>1, <1>2, <1>3 DEF Raw, KeyOf, Receipts, Brought, Activity

\* What is buffered or flushed has keys.
LEMMA KeyedFacts ==
    ASSUME NEW s \in Seq(Activity), NEW chain \in Chains
    PROVE  Keyed(s, chain) \subseteq Receipts
  <1>1. ToSet(s) \subseteq Activity
    BY DEF ToSet
  <1> QED  BY <1>1 DEF Keyed, KeyOf, Activity, Receipts

\* Steps of the webhooks leave the sync alone, and Ingest's state well typed.
LEMMA IngestFrame ==
    ASSUME TInv, feed = "webhooks", feed' = feed, UNCHANGED syncVars, stimuli' = stimuli \/ Spend(1),
           WalletTypes', conn' = conn, lastId <= lastId', IngestTypeOK'
    PROVE  TInv'
  <1>2. BudgetOK'
    BY SpendType DEF TInv
  <1>3. \A p \in Pollers : tick[p].pc = "idle"
    BY DEF TInv, Bounds, NoTick
  <1>4. SyncTypeOK'
    BY <1>3 DEF TInv, SyncTypeOK, syncVars, exchange, Snap, Row, TickTypeOK
  <1>6. Bounds'
    <2>1. \A p \in Pollers : Snap(p)'.id <= MaxConns /\ Snap(p)'.id <= lastId'
      BY ConstantTypes DEF TInv, Bounds, Snap, syncVars, SyncTypeOK, Tick, Connection, WalletTypes,
         PortfolioTypeOK
    <2> QED  BY <2>1 DEF TInv, Bounds, syncVars, exchange
  <1> QED  BY <1>2, <1>4, <1>6 DEF TInv

\* A step of the webhooks that leaves the portfolio's state alone.
LEMMA StillTypes ==
    ASSUME WalletTypes, UNCHANGED portfolioStill, build' \in [Clients \union Pollers -> Build]
    PROVE  WalletTypes' /\ conn' = conn /\ lastId <= lastId'
  <1>1. \A d \in Clients : AtHand(d)'
    BY DEF WalletTypes, AtHand, portfolioStill
  <1>2. PortfolioTypeOK'
    BY DEF WalletTypes, PortfolioTypeOK, portfolioStill, registry, providers, NoConn
  <1>3. conn' = conn /\ lastId <= lastId'
    BY DEF WalletTypes, PortfolioTypeOK, portfolioStill, registry
  <1> QED  BY <1>1, <1>2, <1>3 DEF WalletTypes
-----------------------------------------------------------------------------
\* Deliveries: taken in, looked up, claimed.
LEMMA HookStepTypes ==
    ASSUME WalletTypes, IngestTypeOK, NEW h \in Hooks,
           (\E d \in Deliveries : Deliver(h, d)) \/ Find(h) \/ ClaimKey(h)
    PROVE  IngestTypeOK' /\ UNCHANGED <<portfolioStill, build>> /\ (stimuli' = stimuli \/ Spend(1))
  <1>0. /\ hook \in [Hooks -> Handled] /\ \A g \in Hooks : HookOK(g)
        /\ forgone \subseteq Receipts /\ buffer \in [Chains -> Seq(Activity)] /\ timers \subseteq Chains
        /\ keys \subseteq Receipts /\ received \in [Receipts -> Someone]
    BY DEF IngestTypeOK, HookOK
  <1>1. CASE \E d \in Deliveries : Deliver(h, d)
    <2>1. PICK d \in Deliveries : Deliver(h, d)
      BY <1>1
    <2> DEFINE x == [pc |-> "find", src |-> d.src, chain |-> d.chain, txs |-> d.txs, user |-> "nobody"]
    <2>2. x \in Handled /\ x.pc = "find" /\ x.src \in Sources /\ x.chain \in Chains /\ x.txs # <<>>
      BY IngestConstants DEF Handled, Someone
    <2>3. hook' = [hook EXCEPT ![h] = x]
      BY <2>1 DEF Deliver
    <2>4. hook' \in [Hooks -> Handled] /\ hook'[h] = x /\ \A g \in Hooks \ {h} : hook'[g] = hook[g]
      BY <1>0, <2>2, <2>3
    <2>5. HookOK(h)'
      BY <2>2, <2>4 DEF HookOK
    <2>6. \A g \in Hooks : HookOK(g)'
      BY <2>4, <2>5, OthersHookOK
    <2> QED  BY <2>1, <2>4, <2>6 DEF Deliver, IngestTypeOK, HookOK
  <1>2. CASE Find(h)
    <2>1. /\ hook' \in [Hooks -> Handled] /\ (\A g \in Hooks \ {h} : hook'[g] = hook[g]) /\ HookOK(h)'
      <3>1. CASE Skip(h)
        BY <1>2, <3>1, SkipFacts DEF Find
      <3>2. CASE ~Skip(h)
        <4> DEFINE u == CHOOSE v \in Owner : TRUE
                   x == [hook[h] EXCEPT !.pc = "claim", !.user = u]
        <4>1. Owner # {} /\ hook' = [hook EXCEPT ![h].pc = "claim", ![h].user = u]
          BY <1>2, <3>2 DEF Find
        <4>2. u \in Owners
          <5>1. u \in Owner
            BY <4>1
          <5> QED  BY <5>1 DEF Owner, WalletTypes, PortfolioTypeOK
        <4>3. x \in Handled /\ x.src = hook[h].src /\ x.chain = hook[h].chain /\ x.txs = hook[h].txs
              /\ x.user = u
          BY <1>0, <4>2 DEF Handled, Someone
        <4>4. hook'[h] = x /\ hook' \in [Hooks -> Handled] /\ \A g \in Hooks \ {h} : hook'[g] = hook[g]
          BY <1>0, <4>1, <4>3
        <4>5. HookOK(h) /\ hook[h].pc = "find"
          BY <1>0, <1>2 DEF Find
        <4> QED  BY <4>2, <4>3, <4>4, <4>5 DEF HookOK
      <3> QED  BY <3>1, <3>2
    <2>2. \A g \in Hooks : HookOK(g)'
      BY <2>1, OthersHookOK
    <2>3. forgone' \subseteq Receipts
      BY <1>0, <1>2, RawFacts DEF Find
    <2> QED  BY <1>2, <2>1, <2>2, <2>3 DEF Find, IngestTypeOK, HookOK
  <1>3. CASE ClaimKey(h)
    <2> DEFINE e == Raw(h)
               c == hook[h].chain
               k == KeyOf(e, c)
    <2>1. /\ k \in Receipts /\ c \in Chains /\ Brought(h) \subseteq Receipts
          /\ e \in Activity /\ e.user \in Someone
      BY <1>3, RawFacts DEF ClaimKey, Activity, Someone
    <2>2. /\ hook' \in [Hooks -> Handled] /\ (\A g \in Hooks \ {h} : hook'[g] = hook[g]) /\ HookOK(h)'
      <3>1. CASE Skip(h)
        BY <1>3, <3>1, SkipFacts DEF ClaimKey
      <3>2. CASE ~Skip(h)
        <4>1. hook' = [hook EXCEPT ![h] = NoHook]
          BY <1>3, <3>2 DEF ClaimKey
        <4>2. hook'[h] = NoHook /\ hook' \in [Hooks -> Handled]
              /\ \A g \in Hooks \ {h} : hook'[g] = hook[g]
          BY <1>0, <4>1, IngestConstants
        <4> QED  BY <4>2 DEF HookOK, NoHook
      <3> QED  BY <3>1, <3>2
    <2>3. \A g \in Hooks : HookOK(g)'
      BY <2>2, OthersHookOK
    <2>4. forgone' \subseteq Receipts /\ keys' \subseteq Receipts
      BY <1>0, <1>3, <2>1 DEF ClaimKey
    <2>5. received' \in [Receipts -> Someone]
      <3>1. received' = received \/ received' = [received EXCEPT ![k] = e.user]
        BY <1>3 DEF ClaimKey
      <3> HIDE DEF k, e
      <3> QED  BY <1>0, <2>1, <3>1
    <2>6. buffer' \in [Chains -> Seq(Activity)] /\ timers' \subseteq Chains
      <3>1. (buffer' = buffer /\ timers' = timers)
            \/ (buffer' = [buffer EXCEPT ![c] = Append(@, e)] /\ timers' = timers \union {c})
        BY <1>3 DEF ClaimKey, Ingest
      <3>2. Append(buffer[c], e) \in Seq(Activity)
        BY <1>0, <2>1, AppendProperties
      <3> HIDE DEF e, c
      <3> QED  BY <1>0, <2>1, <3>1, <3>2
    <2> QED  BY <1>3, <2>2, <2>3, <2>4, <2>5, <2>6 DEF ClaimKey, IngestTypeOK, HookOK
  <1> QED  BY <1>1, <1>2, <1>3

\* One flush's step leaves the others well typed.
LEMMA OthersFlushOK ==
    ASSUME IngestTypeOK, NEW f \in Flushers, NEW x \in Flushed, flush' = [flush EXCEPT ![f] = x],
           IF x.pc = "idle" THEN x = NoFlush ELSE x.chain \in Chains /\ x.events # <<>>
    PROVE  /\ flush' \in [Flushers -> Flushed] /\ flush'[f] = x /\ (\A g \in Flushers : FlushOK(g)')
           /\ \A g \in Flushers \ {f} : flush'[g] = flush[g]
  <1>1. /\ flush \in [Flushers -> Flushed] /\ \A g \in Flushers : FlushOK(g)
    BY DEF IngestTypeOK, FlushOK
  <1>2. /\ flush' \in [Flushers -> Flushed] /\ flush'[f] = x
        /\ \A g \in Flushers \ {f} : flush'[g] = flush[g]
    BY <1>1
  <1>3. ASSUME NEW g \in Flushers \ {f}  PROVE FlushOK(g)'
    BY <1>1, <1>2 DEF FlushOK
  <1>4. FlushOK(f)'
    BY <1>2 DEF FlushOK
  <1> QED  BY <1>2, <1>3, <1>4

\* What a flush holds.
LEMMA FlushFacts ==
    ASSUME IngestTypeOK, NEW f \in Flushers, flush[f].pc # "idle"
    PROVE  /\ flush[f] \in Flushed /\ flush[f].chain \in Chains /\ flush[f].events \in Seq(Activity)
           /\ flush[f].events # <<>> /\ Head(flush[f].events) \in Activity /\ FlushUser(f) \in Owners
           /\ Keyed(flush[f].events, flush[f].chain) \subseteq Receipts
  <1>1. /\ flush[f] \in Flushed /\ flush[f].chain \in Chains /\ flush[f].events \in Seq(Activity)
        /\ flush[f].events # <<>>
    BY DEF IngestTypeOK, Flushed
  <1>2. Head(flush[f].events) \in Activity
    BY <1>1, HeadTailProperties
  <1>3. FlushUser(f) \in Owners
    BY <1>2 DEF FlushUser, Activity
  <1> QED  BY <1>1, <1>2, <1>3, KeyedFacts

\* Flushes: begun, enriched, saved.
LEMMA FlushStepTypes ==
    ASSUME WalletTypes, IngestTypeOK, NEW f \in Flushers,
           (\E c \in Chains : Flush(f, c)) \/ Enrich(f) \/ Save(f)
    PROVE  /\ IngestTypeOK' /\ UNCHANGED portfolioStill /\ (stimuli' = stimuli \/ Spend(1))
           /\ build' \in [Clients \union Pollers -> Build]
  <1>0. /\ flush \in [Flushers -> Flushed] /\ flush[f] \in Flushed /\ f \in Clients \union Pollers
        /\ build \in [Clients \union Pollers -> Build]
        /\ buffer \in [Chains -> Seq(Activity)] /\ timers \subseteq Chains /\ forgone \subseteq Receipts
    BY IngestAssumption DEF IngestTypeOK, WalletTypes, PortfolioTypeOK
  <1>1. CASE \E c \in Chains : Flush(f, c)
    <2>1. PICK c \in Chains : Flush(f, c)
      BY <1>1
    <2>2. PICK m \in BOOLEAN : m = \E d \in Chains \ {c} : buffer[d] # <<>>
      OBVIOUS
    <2> DEFINE y == [pc |-> "enrich", chain |-> c, events |-> buffer[c], multi |-> m]
    <2>3. y \in Flushed
      BY <1>0 DEF Flushed
    <2>4. PICK x \in Flushed : /\ flush' = [flush EXCEPT ![f] = x]
                 /\ IF x.pc = "idle" THEN x = NoFlush ELSE x.chain \in Chains /\ x.events # <<>>
      <3>1. CASE buffer[c] = <<>>
        <4>1. NoFlush.pc = "idle"
          BY DEF NoFlush
        <4> QED  BY <2>1, <3>1, <4>1, IngestConstants DEF Flush
      <3>2. CASE buffer[c] # <<>>
        <4>1. flush' = [flush EXCEPT ![f] = y]
          BY <2>1, <2>2, <3>2 DEF Flush
        <4> QED  BY <2>3, <3>2, <4>1
      <3> QED  BY <3>1, <3>2
    <2>5. flush' \in [Flushers -> Flushed] /\ \A g \in Flushers : FlushOK(g)'
      BY <2>4, OthersFlushOK
    <2>6. buffer' \in [Chains -> Seq(Activity)]
      BY <1>0, <2>1 DEF Flush
    <2> QED  BY <1>0, <2>1, <2>5, <2>6 DEF Flush, IngestTypeOK, FlushOK
  <1>2. CASE Enrich(f)
    <2>0. /\ flush[f].chain \in Chains /\ flush[f].events # <<>> /\ FlushUser(f) \in Owners
      BY <1>2, FlushFacts DEF Enrich
    <2> DEFINE x == [flush[f] EXCEPT !.pc = "receipt"]
    <2>1. x \in Flushed /\ x.pc = "receipt" /\ x.chain = flush[f].chain /\ x.events = flush[f].events
      BY <1>0 DEF Flushed
    <2>2. flush' = [flush EXCEPT ![f] = x]
      BY <1>2 DEF Enrich
    <2>3. flush' \in [Flushers -> Flushed] /\ \A g \in Flushers : FlushOK(g)'
      BY <2>0, <2>1, <2>2, OthersFlushOK
    <2>4. build' \in [Clients \union Pollers -> Build]
      <3> DEFINE a == [pc |-> "wallets", user |-> FlushUser(f), from |-> {}, full |-> TRUE, raced |-> FALSE]
                 b == [pc |-> "upsert", user |-> FlushUser(f), from |-> {Stored[Address]},
                       full |-> TRUE, raced |-> FALSE]
      <3>1. a \in Build /\ b \in Build
        BY <2>0, ConstantTypes DEF Build, Someone
      <3>2. build' = build \/ build' = [build EXCEPT ![f] = a] \/ build' = [build EXCEPT ![f] = b]
        BY <1>2 DEF Enrich, Start
      <3> HIDE DEF a, b
      <3> QED  BY <1>0, <3>1, <3>2
    <2> QED  BY <1>2, <2>3, <2>4 DEF Enrich, IngestTypeOK, FlushOK
  <1>3. CASE Save(f)
    <2>0. /\ flush[f].chain \in Chains /\ flush[f].events \in Seq(Activity) /\ flush[f].events # <<>>
          /\ FlushUser(f) \in Owners /\ Keyed(flush[f].events, flush[f].chain) \subseteq Receipts
      BY <1>3, FlushFacts DEF Save
    <2>1. flush' = [flush EXCEPT ![f] = NoFlush] /\ NoFlush.pc = "idle"
      BY <1>3 DEF Save, NoFlush
    <2>2. flush' \in [Flushers -> Flushed] /\ \A g \in Flushers : FlushOK(g)'
      BY <2>1, IngestConstants, OthersFlushOK
    <2>3. events' \subseteq Document /\ \A d \in events' : d.of # <<>>
      <3>1. ASSUME NEW s \in Statuses
            PROVE  LET d == [user |-> FlushUser(f), chain |-> flush[f].chain, of |-> flush[f].events,
                             status |-> s]
                   IN  d \in Document /\ d.of # <<>>
        BY <2>0 DEF Document
      <3> QED  BY <1>3, <3>1 DEF Save, IngestTypeOK
    <2>4. forgone' \subseteq Receipts
      BY <1>0, <1>3, <2>0 DEF Save
    <2> QED  BY <1>0, <1>3, <2>2, <2>3, <2>4 DEF Save, IngestTypeOK, FlushOK
  <1> QED  BY <1>1, <1>2, <1>3
-----------------------------------------------------------------------------
\* The process dies; the statuses of events are refreshed.
LEMMA IngestDiesTypes ==
    ASSUME WalletTypes, IngestTypeOK, IngestDies
    PROVE  /\ IngestTypeOK' /\ UNCHANGED portfolioStill /\ Spend(1)
           /\ build' \in [Clients \union Pollers -> Build]
  <1>1. hook' \in [Hooks -> Handled] /\ \A h \in Hooks : HookOK(h)'
    <2>1. \A h \in Hooks : hook'[h] = NoHook
      BY DEF IngestDies
    <2> QED  BY <2>1, IngestConstants DEF IngestDies, HookOK, NoHook
  <1>2. flush' \in [Flushers -> Flushed] /\ \A f \in Flushers : FlushOK(f)'
    <2>1. \A f \in Flushers : flush'[f] = NoFlush
      BY DEF IngestDies
    <2> QED  BY <2>1, IngestConstants DEF IngestDies, FlushOK, NoFlush
  <1>3. buffer' \in [Chains -> Seq(Activity)] /\ timers' \subseteq Chains
    <2>1. <<>> \in Seq(Activity)
      BY EmptySeq
    <2> QED  BY <2>1 DEF IngestDies
  <1>4. forgone' \subseteq Receipts
    <2>1. ASSUME NEW c \in Chains  PROVE Keyed(buffer[c], c) \subseteq Receipts
      BY KeyedFacts DEF IngestTypeOK
    <2>2. ASSUME NEW f \in Flushers  PROVE Keyed(flush[f].events, flush[f].chain) \subseteq Receipts
      <3>1. CASE flush[f].pc = "idle"
        <4>1. flush[f].events = <<>>
          BY <3>1 DEF IngestTypeOK, NoFlush
        <4> QED  BY <4>1 DEF Keyed, ToSet
      <3>2. CASE flush[f].pc # "idle"
        BY <3>2, FlushFacts
      <3> QED  BY <3>1, <3>2
    <2>3. ASSUME NEW h \in Hooks  PROVE Brought(h) \subseteq Receipts
      <3>1. CASE hook[h].pc = "idle"
        <4>1. hook[h].txs = <<>>
          BY <3>1 DEF IngestTypeOK, NoHook
        <4> QED  BY <4>1 DEF Brought, ToSet
      <3>2. CASE hook[h].pc # "idle"
        BY <3>2, RawFacts
      <3> QED  BY <3>1, <3>2
    <2>4. ASSUME NEW k \in forgone'
          PROVE  k \in forgone \/ (\E c \in Chains : k \in Keyed(buffer[c], c))
                 \/ (\E f \in Flushers : k \in Keyed(flush[f].events, flush[f].chain))
                 \/ (\E h \in Hooks : k \in Brought(h))
      BY <2>4 DEF IngestDies
    <2> QED  BY <2>1, <2>2, <2>3, <2>4 DEF IngestTypeOK
  <1>5. build' \in [Clients \union Pollers -> Build]
    BY ConstantTypes DEF IngestDies, WalletTypes, PortfolioTypeOK
  <1> QED  BY <1>1, <1>2, <1>3, <1>4, <1>5 DEF IngestDies, IngestTypeOK, HookOK, FlushOK

\* The refresh of statuses.
LEMMA ScanTypes ==
    ASSUME IngestTypeOK,
           \/ \E u \in Owners : ListUnsettled(u)
           \/ \E d \in scan.todo : WriteStatus(d) \/ \E s \in Statuses : AskReceipt(d, s)
    PROVE  IngestTypeOK' /\ UNCHANGED <<portfolioStill, build>> /\ (stimuli' = stimuli \/ Spend(1))
  <1> DEFINE Scan == [pc : {"idle", "receipt", "write"}, todo : SUBSET Document, status : Statuses]
  <1>0. /\ scan \in Scan /\ (scan.todo # {} <=> scan.pc # "idle") /\ events \subseteq Document
        /\ \A d \in events : d.of # <<>>
    BY DEF IngestTypeOK
  <1>a. NoScan \in Scan /\ NoScan.todo = {} /\ NoScan.pc = "idle"
    BY DEF NoScan, Statuses
  <1> DEFINE Fine ==
        /\ scan' \in Scan /\ (scan'.todo # {} <=> scan'.pc # "idle")
        /\ events' \subseteq Document /\ (\A d \in events' : d.of # <<>>)
        /\ UNCHANGED <<portfolioStill, build, hook, keys, buffer, timers, flush, received, forgone, moved>>
        /\ (stimuli' = stimuli \/ Spend(1))
  <1>1. Fine
    <2>1. ASSUME NEW u \in Owners, ListUnsettled(u)  PROVE Fine
      BY <1>0, <2>1 DEF ListUnsettled, Unsettled, Statuses
    <2>2. ASSUME NEW d \in scan.todo, NEW s \in Statuses, AskReceipt(d, s)  PROVE Fine
      <3> DEFINE rest == scan.todo \ {d}
      <3>1. PICK x, y : x = [scan EXCEPT !.todo = rest]
                        /\ y = [pc |-> "write", todo |-> scan.todo, status |-> s]
        OBVIOUS
      <3>2. x \in Scan /\ x.todo = rest /\ x.pc = scan.pc /\ y \in Scan /\ y.todo = scan.todo /\ y.pc = "write"
        BY <1>0, <3>1
      <3>3. scan' = NoScan \/ (scan' = x /\ rest # {}) \/ scan' = y
        BY <2>2, <3>1 DEF AskReceipt
      <3>4. scan' \in Scan /\ (scan'.todo # {} <=> scan'.pc # "idle")
        <4> HIDE DEF Scan, rest
        <4> QED  BY <1>0, <1>a, <2>2, <3>2, <3>3
      <3> QED  BY <1>0, <2>2, <3>4 DEF AskReceipt
    <2>3. ASSUME NEW d \in scan.todo, WriteStatus(d)  PROVE Fine
      <3> DEFINE rest == scan.todo \ {d}
      <3>1. PICK x : x = [d EXCEPT !.status = scan.status]
        OBVIOUS
      <3>2. d \in Document => x \in Document /\ x.of = d.of
        BY <1>0, <3>1 DEF Document
      <3>3. events' = {IF e = d THEN x ELSE e : e \in events}
        BY <2>3, <3>1 DEF WriteStatus
      <3>4. scan' \in Scan /\ (scan'.todo # {} <=> scan'.pc # "idle")
        BY <1>0, <1>a, <2>3 DEF WriteStatus, Statuses
      <3> QED  BY <1>0, <2>3, <3>2, <3>3, <3>4 DEF WriteStatus
    <2> QED  BY <2>1, <2>2, <2>3
  <1> QED  BY <1>1 DEF IngestTypeOK
-----------------------------------------------------------------------------
\* The requests about wallets, as the webhooks see them.
LEMMA WalletsChangeTypes ==
    ASSUME WalletTypes, IngestTypeOK, NEW c \in Clients, WalletsChange(c)
    PROVE  /\ WalletTypes' /\ IngestTypeOK' /\ conn' = conn /\ lastId <= lastId'
           /\ (stimuli' = stimuli \/ Spend(1))
  <1>1. WalletStep(c)
    BY ConstantTypes DEF WalletsChange, WalletStep
  <1>2. moved' \subseteq Receipts
    <2>1. ASSUME NEW d \in Chains  PROVE Keyed(buffer[d], d) \subseteq Receipts
      BY KeyedFacts DEF IngestTypeOK
    <2>2. ASSUME NEW h \in Hooks, hook[h].pc = "claim"  PROVE KeyOf(Raw(h), hook[h].chain) \in Receipts
      BY <2>2, RawFacts
    <2>3. ASSUME NEW k \in moved'
          PROVE  k \in moved \/ (\E d \in Chains : k \in Keyed(buffer[d], d))
                 \/ (\E h \in Hooks : hook[h].pc = "claim" /\ k = KeyOf(Raw(h), hook[h].chain))
      BY <2>3 DEF WalletsChange
    <2> QED  BY <2>1, <2>2, <2>3 DEF IngestTypeOK
  <1>3. IngestTypeOK'
    BY <1>2 DEF WalletsChange, IngestTypeOK
  <1> QED  BY <1>1, <1>3, WalletStepTypes

\* Every step of the webhooks' behaviours.
LEMMA WebhookFeedTypes ==
    ASSUME TInv, feed = "webhooks", feed' = feed, IngestNext, UNCHANGED syncVars
    PROVE  TInv'
  <1>0. WalletTypes /\ IngestTypeOK /\ build \in [Clients \union Pollers -> Build]
    BY DEF TInv, WalletTypes, PortfolioTypeOK
  <1>1. ASSUME NEW c \in Clients, WalletsChange(c)  PROVE TInv'
    BY <1>0, <1>1, WalletsChangeTypes, IngestFrame
  <1>2. ASSUME NEW h \in Hooks, (\E d \in Deliveries : Deliver(h, d)) \/ Find(h) \/ ClaimKey(h)
        PROVE  TInv'
    BY <1>0, <1>2, HookStepTypes, StillTypes, IngestFrame
  <1>3. ASSUME NEW f \in Flushers, (\E c \in Chains : Flush(f, c)) \/ Enrich(f) \/ Save(f)
        PROVE  TInv'
    BY <1>0, <1>3, FlushStepTypes, StillTypes, IngestFrame
  <1>4. ASSUME NEW f \in Flushers, BuildStep(f), UNCHANGED hookVars  PROVE TInv'
    <2>1. f \in Clients \union Pollers
      BY IngestAssumption
    <2>2. IngestTypeOK'
      BY <1>0, <1>4 DEF hookVars, IngestTypeOK
    <2>3. WalletTypes' /\ conn' = conn /\ lastId <= lastId' /\ (stimuli' = stimuli \/ Spend(1))
      BY <1>0, <1>4, <2>1, BuildStepTypes DEF registry, WalletTypes, PortfolioTypeOK
    <2> QED  BY <2>2, <2>3, IngestFrame
  <1>5. CASE IngestDies
    BY <1>0, <1>5, IngestDiesTypes, StillTypes, IngestFrame
  <1>6. ASSUME \/ \E u \in Owners : ListUnsettled(u)
               \/ \E d \in scan.todo : WriteStatus(d) \/ \E s \in Statuses : AskReceipt(d, s)
        PROVE  TInv'
    BY <1>0, <1>6, ScanTypes, StillTypes, IngestFrame
  <1> QED  BY <1>1, <1>2, <1>3, <1>4, <1>5, <1>6 DEF IngestNext, BuildStep
-----------------------------------------------------------------------------
\* To begin with.
LEMMA InitTypes ==
    ASSUME Init  PROVE TInv
  <1> USE ConstantTypes DEF Init
  <1>1. BudgetOK
    BY FeedAssumption, BudgetAssumption DEF BudgetOK
  <1>2. /\ NewConn(1, 0) \in Connection /\ NewConn(1, 0).id = 1 /\ NewConn(1, 0).cursor = 0
        /\ NoConn.id = 0 /\ NoConn.cursor = 0
    BY DEF NewConn, NoConn, Connection
  <1>3. conn \in Connection /\ conn.id <= 1 /\ conn.cursor = 0 /\ (conn = NoConn <=> conn.id = 0)
    BY <1>2 DEF PortfolioInit
  <1>4. lastId = 1 /\ MaxConns \in Nat /\ MaxConns >= 1 /\ MaxTrades \in Nat /\ MaxTrades >= 1
    BY SyncAssumption DEF PortfolioInit
  <1>5. /\ wallets \subseteq [id : 1..lastId, user : Owners, address : Sourced, given : Supplied]
        /\ \A w \in wallets : w.address = Stored[w.given]
        /\ \A v, w \in wallets : v.address = w.address \/ v.id = w.id => v = w
        /\ notify \subseteq Supplied /\ zerion \subseteq Supplied
    <2> DEFINE a0 == CHOOSE a \in Supplied : TRUE
               w0 == [id |-> 1, user |-> Holder, address |-> Stored[a0], given |-> a0]
    <2>1. PICK owned \in SUBSET {a0} :
            /\ wallets = {[id |-> 1, user |-> Holder, address |-> Stored[a], given |-> a] : a \in owned}
            /\ notify = owned /\ zerion = owned
      BY DEF PortfolioInit
    <2>2. a0 \in Supplied
      BY PortfolioAssumption
    <2>3. wallets \subseteq {w0}
      BY <2>1
    <2>4. w0 \in [id : 1..lastId, user : Owners, address : Sourced, given : Supplied]
      BY <1>4, <2>2
    <2>5. notify \subseteq Supplied /\ zerion \subseteq Supplied
      BY <2>1, <2>2
    <2>6. w0.address = Stored[w0.given]
      OBVIOUS
    <2> HIDE DEF w0, a0
    <2>7. \A w \in wallets : w = w0
      BY <2>3
    <2>8. \A w \in wallets : w.address = Stored[w.given]
      BY <2>6, <2>7
    <2>9. \A v, w \in wallets : v = w
      BY <2>7
    <2>10. wallets \subseteq [id : 1..lastId, user : Owners, address : Sourced, given : Supplied]
      BY <2>4, <2>7
    <2> QED  BY <2>5, <2>8, <2>9, <2>10
  <1>6. \A d \in Clients : job[d] = NoJob
    BY DEF PortfolioInit
  <1>7. WalletTypes
    <2>1. \A d \in Clients : AtHand(d)
      BY <1>6 DEF AtHand, OnPC, OffPC, NoJob
    <2> QED  BY <1>3, <1>4, <1>5, <2>1 DEF WalletTypes, PortfolioTypeOK, PortfolioInit
  <1>8. \A p \in Pollers : tick[p] = NoTick /\ Snap(p) = NoConn /\ TickTypeOK(p)
    BY <1>2, <1>4 DEF SyncInit, Snap, NoTick, TickTypeOK
  <1>9. SyncTypeOK
    <2>1. placed \in 0..MaxTrades /\ old \in 0..placed /\ backfill \in BOOLEAN
      BY <1>4 DEF SyncInit
    <2>2. tick \in [Pollers -> Tick] /\ imported \in [(1..MaxConns) \X Trades -> Nat]
      BY DEF SyncInit
    <2>3. validKey \in Nat /\ conn.cursor <= placed
      BY <1>3, <2>1 DEF SyncInit
    <2>5. slock \in BOOLEAN
      BY DEF SyncInit
    <2>4. claims \subseteq (1..MaxConns) \X Trades /\ dropped \subseteq claims /\ halfway \subseteq Nat
      BY DEF SyncInit
    <2> QED  BY <1>8, <2>1, <2>2, <2>3, <2>4, <2>5 DEF SyncTypeOK
  <1>10. IngestTypeOK
    <2>1. <<>> \in Seq(Activity)
      BY EmptySeq
    <2>2. received \in [Receipts -> Someone]
      BY DEF IngestInit, Receipts, Someone
    <2>3. scan \in [pc : {"idle", "receipt", "write"}, todo : SUBSET Document, status : Statuses]
          /\ scan.todo = {} /\ scan.pc = "idle"
      BY DEF IngestInit, NoScan, Statuses
    <2> QED  BY <2>1, <2>2, <2>3, IngestConstants DEF IngestInit, IngestTypeOK, NoFlush, NoHook
  <1>11. Bounds
    <2>1. conn.id <= MaxConns /\ \A p \in Pollers : Snap(p).id <= MaxConns /\ Snap(p).id <= lastId
      <3>1. conn.id \in Nat
        BY <1>3 DEF Connection
      <3> QED  BY <1>2, <1>3, <1>4, <1>8, <3>1
    <2>2. \A c \in Clients : ~Requested(c, "link")
      BY <1>6 DEF Requested, NoJob
    <2> QED  BY <1>8, <2>1, <2>2 DEF Bounds
  <1> QED  BY <1>1, <1>7, <1>9, <1>10, <1>11 DEF TInv

\* A step of any feed, or none.
LEMMA StepTypes ==
    ASSUME TInv, [Next]_vars  PROVE TInv'
  <1>1. CASE Next
    <2>1. feed' = feed
      BY <1>1 DEF Next
    <2> QED  BY <1>1, <2>1, RequestFeedTypes, ExchangeFeedTypes, WebhookFeedTypes DEF Next
  <1>2. CASE UNCHANGED vars
    <2>1. /\ WalletTypes /\ placed \in 0..MaxTrades /\ lastId \in Nat
      BY DEF TInv, SyncTypeOK, WalletTypes, PortfolioTypeOK
    <2>2. UNCHANGED <<feed, stimuli, registry, providers, conn, holdings, primary, job, build, missed,
                     hookVars, syncVars>>
      BY <1>2 DEF vars, portfolioVars
    <2>3. WalletTypes'
      BY <2>1, <2>2 DEF WalletTypes, PortfolioTypeOK, AtHand, registry, providers, NoConn
    <2>4. SyncTypeOK'
      BY <2>2 DEF TInv, SyncTypeOK, syncVars, exchange, TickTypeOK, Snap, Row, Key
    <2>5. IngestTypeOK'
      BY <2>2 DEF TInv, IngestTypeOK, hookVars
    <2>6. Bounds'
      BY <2>2 DEF TInv, Bounds, Requested, Snap, syncVars, registry
    <2>7. BudgetOK'
      BY <2>2 DEF TInv, BudgetOK
    <2> QED  BY <2>3, <2>4, <2>5, <2>6, <2>7 DEF TInv
  <1> QED  BY <1>1, <1>2

\* Every component's state stays within its type: registered addresses are
\* unique, a tick that inserts a trade has claimed it, cursors stay within what
\* was traded, what a flush takes is not empty - in every behaviour.
THEOREM TypeCorrect == Spec => []TypeOK
  <1>1. Init => TInv
    BY InitTypes
  <1>2. TInv /\ [Next]_vars => TInv'
    BY StepTypes
  <1>3. TInv => TypeOK
    BY DEF TInv, WalletTypes, TypeOK
  <1> QED  BY <1>1, <1>2, <1>3, PTL DEF Spec
-----------------------------------------------------------------------------
(* Trades are imported once.                                                 *)

\* A tick that inserts builds nothing.
LEMMA InsertingFacts ==
    ASSUME TInv
    PROVE  /\ \A p \in Pollers : Is(p, "insert") = (tick[p].pc = "insert")
           /\ \A k : Importing(k) <=> \E p \in Pollers : tick[p].pc = "insert" /\ Key(p) = k
  BY TickFacts DEF Is, TickTypeOK, Importing

\* Who inserts, after the step.
LEMMA InsertingNext ==
    ASSUME TInv'
    PROVE  /\ \A p \in Pollers : Is(p, "insert")' = (tick'[p].pc = "insert")
           /\ \A k : Importing(k)' <=> \E p \in Pollers : tick'[p].pc = "insert" /\ Key(p)' = k
  BY DEF TInv, SyncTypeOK, Is, TickTypeOK, Importing

\* The keys of what is below a cursor or before a row.
LEMMA KeyTypes ==
    ASSUME TInv
    PROVE  /\ conn.id > 0 => \A t \in 1..conn.cursor : <<conn.id, t>> \in (1..MaxConns) \X Trades
           /\ \A p \in Pollers : tick[p].pc # "idle" =>
                /\ \A t \in 1..Snap(p).cursor : <<Snap(p).id, t>> \in (1..MaxConns) \X Trades
                /\ tick[p].pc \in {"claim", "insert", "cursor"} => \A t \in 1..(Row(p) - 1) :
                     <<Snap(p).id, t>> \in (1..MaxConns) \X Trades
                /\ tick[p].pc \in {"claim", "insert"} => Key(p) \in (1..MaxConns) \X Trades
           /\ conn.id \in Nat /\ conn.id <= lastId /\ lastId \in Nat
           /\ \A p \in Pollers : Snap(p).id \in Nat /\ Snap(p).id <= lastId
                                 /\ (tick[p].pc # "idle" => Snap(p).id > 0)
  <1>0. MaxConns \in Nat /\ MaxTrades \in Nat /\ placed \in 0..MaxTrades /\ conn \in Connection
        /\ conn.id <= MaxConns /\ conn.id <= lastId /\ lastId \in Nat /\ conn.cursor <= placed
    BY SyncAssumption DEF TInv, SyncTypeOK, Bounds, WalletTypes, PortfolioTypeOK
  <1>1. conn.id \in Nat /\ conn.cursor \in Nat
    BY <1>0 DEF Connection
  <1>2. conn.id > 0 => \A t \in 1..conn.cursor : <<conn.id, t>> \in (1..MaxConns) \X Trades
    BY <1>0, <1>1 DEF Trades
  <1>3. ASSUME NEW p \in Pollers
        PROVE  /\ Snap(p).id \in Nat /\ Snap(p).id <= lastId /\ Snap(p).id <= MaxConns
               /\ tick[p].pc # "idle" => Snap(p).id > 0
               /\ Snap(p).cursor \in Nat /\ Snap(p).cursor <= placed
               /\ tick[p].top \in Nat /\ tick[p].top <= placed /\ Row(p) \in Nat
               /\ tick[p].pc \in {"claim", "insert"} => 0 < Row(p) /\ Row(p) <= tick[p].top
               /\ tick[p].pc = "cursor" => Row(p) = tick[p].top + 1
    BY TickFacts DEF TickTypeOK, Connection, Tick
  <1>4. ASSUME NEW p \in Pollers, tick[p].pc # "idle"
        PROVE  /\ \A t \in 1..Snap(p).cursor : <<Snap(p).id, t>> \in (1..MaxConns) \X Trades
               /\ tick[p].pc \in {"claim", "insert", "cursor"} => \A t \in 1..(Row(p) - 1) :
                    <<Snap(p).id, t>> \in (1..MaxConns) \X Trades
    BY <1>0, <1>3, <1>4 DEF Trades
  <1>5. ASSUME NEW p \in Pollers, tick[p].pc \in {"claim", "insert"}
        PROVE  Key(p) \in (1..MaxConns) \X Trades
    BY <1>0, <1>3, <1>5 DEF Trades, Key
  <1> QED  BY <1>0, <1>1, <1>2, <1>3, <1>4, <1>5

\* The requests and the exchange: nothing that is covered is uncovered, as a
\* connection whose removal has begun does not come back.
LEMMA BesideTrades ==
    ASSUME TInv, TInv', feed = "exchange", feed' = feed, TradeInv,
           UNCHANGED <<tick, claims, dropped, old, backfill>>, lastId <= lastId',
           \A id \in 1..lastId : Gone(id) => Gone(id)',
           \A k \in (1..MaxConns) \X Trades :
             imported'[k] = imported[k] \/ (imported'[k] = 0 /\ Gone(k[1])'),
           \/ conn'.id = conn.id /\ conn'.cursor = conn.cursor /\ conn'.phase = conn.phase
           \/ conn'.id > lastId /\ conn'.cursor = 0 /\ conn'.phase = "initial_backfill"
           \/ conn'.id = 0
    PROVE  TradeInv'
  <1>0. \A p \in Pollers : Key(p)' = Key(p) /\ Snap(p)' = Snap(p) /\ Row(p)' = Row(p)
    BY DEF Key, Snap, Row
  <1>1. ASSUME NEW k \in (1..MaxConns) \X Trades, k[1] <= lastId, Covered(k)  PROVE Covered(k)'
    <2>1. Importing(k) => Importing(k)'
      BY <1>0, InsertingFacts, InsertingNext
    <2>2. k[1] \in 1..lastId
      BY <1>1, KeyTypes
    <2> QED  BY <1>1, <2>1, <2>2 DEF Covered
  <1>2. ASSUME NEW id \in 1..lastId, NEW t, <<id, t>> \in (1..MaxConns) \X Trades, Covered(<<id, t>>)
        PROVE  Covered(<<id, t>>)'
    BY <1>1, <1>2
  <1>3. ClaimsHold'
    <2>1. \A k \in (1..MaxConns) \X Trades :
            /\ imported'[k] <= 1 /\ (imported'[k] > 0 => k \in claims)
            /\ k \in claims => k[1] <= lastId' /\ Covered(k)'
      <3>1. ASSUME NEW k \in (1..MaxConns) \X Trades
            PROVE  /\ imported'[k] <= 1 /\ (imported'[k] > 0 => k \in claims)
                   /\ k \in claims => k[1] <= lastId' /\ Covered(k)'
        <4>1. /\ imported[k] <= 1 /\ (imported[k] > 0 => k \in claims)
              /\ (k \in claims => k[1] <= lastId /\ Covered(k)) /\ imported[k] \in Nat
          BY TickFacts DEF TradeInv, ClaimsHold, TInv, SyncTypeOK
        <4>2. k[1] \in Nat /\ lastId \in Nat /\ lastId' \in Nat
          BY DEF TInv, WalletTypes, PortfolioTypeOK
        <4> QED  BY <1>1, <4>1, <4>2
      <3> QED  BY <3>1
    <2>2. ASSUME NEW p \in Pollers, tick[p].pc = "insert"  PROVE imported'[Key(p)] = 0
      BY <2>2, KeyTypes DEF TradeInv, ClaimsHold
    <2> QED  BY <1>0, <2>1, <2>2 DEF TradeInv, ClaimsHold
  <1>4. FreshStart(conn)' /\ (conn.id > 0 => \A t \in 1..conn.cursor : Covered(<<conn.id, t>>))'
    <2>1. CASE conn'.id = conn.id /\ conn'.cursor = conn.cursor /\ conn'.phase = conn.phase
      <3>1. FreshStart(conn)'
        BY <2>1 DEF TradeInv, CursorsHold, FreshStart
      <3>2. ASSUME conn.id > 0, NEW t \in 1..conn.cursor  PROVE Covered(<<conn.id, t>>)'
        BY <1>2, <2>1, <3>2, KeyTypes DEF TradeInv, CursorsHold
      <3> QED  BY <2>1, <3>1, <3>2
    <2>2. CASE conn'.id > lastId /\ conn'.cursor = 0 /\ conn'.phase = "initial_backfill"
      BY <2>2 DEF FreshStart
    <2>3. CASE conn'.id = 0
      BY <2>3 DEF FreshStart
    <2> QED  BY <2>1, <2>2, <2>3
  <1>5. ASSUME NEW p \in Pollers, tick[p].pc # "idle"
        PROVE  /\ FreshStart(Snap(p))'
               /\ \A t \in 1..Snap(p).cursor : Covered(<<Snap(p).id, t>>)'
               /\ Snap(p).cursor > 0 \/ tick[p].pc = "finish" => conn'.id # Snap(p).id \/ conn'.cursor > 0
               /\ tick[p].pc \in {"claim", "insert", "cursor"} =>
                    \A t \in 1..(Row(p) - 1) : Covered(<<Snap(p).id, t>>)'
    <2>0. TickHolds(p) /\ Snap(p).id \in 1..lastId
      BY <1>5, KeyTypes DEF TradeInv, CursorsHold
    <2>1. FreshStart(Snap(p))'
      BY <1>0, <1>5, <2>0 DEF TickHolds, FreshStart
    <2>2. ASSUME NEW t \in 1..Snap(p).cursor  PROVE Covered(<<Snap(p).id, t>>)'
      BY <1>0, <1>2, <1>5, <2>0, <2>2, KeyTypes DEF TickHolds
    <2>3. ASSUME tick[p].pc \in {"claim", "insert", "cursor"}, NEW t \in 1..(Row(p) - 1)
          PROVE  Covered(<<Snap(p).id, t>>)'
      BY <1>0, <1>2, <1>5, <2>0, <2>3, KeyTypes DEF TickHolds
    <2>4. (conn'.id = conn.id /\ conn'.cursor = conn.cursor) \/ conn'.id # Snap(p).id
      BY <2>0, KeyTypes
    <2> QED  BY <1>5, <2>0, <2>1, <2>2, <2>3, <2>4 DEF TickHolds
  <1>6. \A p \in Pollers : TickHolds(p)'
    BY <1>0, <1>5 DEF TickHolds
  <1>7. CursorsHold'
    BY <1>4, <1>6 DEF CursorsHold
  <1> QED  BY <1>3, <1>7 DEF TradeInv

\* A step of a request leaves alone what is gone.
LEMMA GoneStays ==
    ASSUME NEW c \in Clients, \A d \in Clients \ {c} : job'[d] = job[d], halfway \subseteq halfway',
           job[c].pc = "connection" => job[c].id \in halfway' \/ conn'.id # job[c].id,
           conn'.id = conn.id \/ conn'.id \notin 1..lastId
    PROVE  \A id \in 1..lastId : Gone(id) => Gone(id)'
  BY DEF Gone, Removing, Requested

\* The requests about the connection, and what happens at the exchange.
LEMMA LinkStepTrades ==
    ASSUME TInv, feed = "exchange", feed' = feed, UNCHANGED hookVars, TradeInv,
           NEW c \in Clients, LinkStep(c)
    PROVE  TradeInv'
  <1>0. /\ TInv' /\ job \in [Clients -> Job] /\ conn \in Connection /\ lastId \in Nat
        /\ conn.id \in Nat /\ conn.id <= lastId
        /\ imported \in [(1..MaxConns) \X Trades -> Nat] /\ NoConn.id = 0
    BY LinkStepTypes, KeyTypes DEF TInv, WalletTypes, PortfolioTypeOK, SyncTypeOK, NoConn
  <1>1. CASE Link(c) \/ Patch(c) \/ RemoveConnection(c)
    <2>1. /\ UNCHANGED <<tick, claims, dropped, old, backfill, imported, halfway, lastId, conn>>
          /\ job[c].pc = "idle" /\ \A d \in Clients \ {c} : job'[d] = job[d]
      BY <1>0, <1>1 DEF Link, Patch, RemoveConnection, requestRest, syncVars, exchange, Free, Request
    <2>2. \A id \in 1..lastId : Gone(id) => Gone(id)'
      BY <2>1, GoneStays
    <2> QED  BY <1>0, <2>1, <2>2, BesideTrades
  <1>2. CASE CreateConnection(c)
    <2>1. /\ UNCHANGED <<tick, claims, dropped, old, backfill, imported, halfway>>
          /\ job[c].pc = "link" /\ lastId' = lastId + 1 /\ conn' = NewConn(lastId + 1, job[c].id)
          /\ \A d \in Clients \ {c} : job'[d] = job[d]
      BY <1>0, <1>2 DEF CreateConnection, Requested, requestRest, syncVars, exchange, Done
    <2>2. conn'.id = lastId + 1 /\ conn'.cursor = 0 /\ conn'.phase = "initial_backfill"
      BY <2>1 DEF NewConn
    <2>3. \A id \in 1..lastId : Gone(id) => Gone(id)'
      BY <1>0, <2>1, <2>2, GoneStays
    <2> QED  BY <1>0, <2>1, <2>2, <2>3, BesideTrades
  <1>3. CASE PatchConnection(c)
    <2>1. /\ UNCHANGED <<tick, claims, dropped, old, backfill, imported, halfway, lastId>>
          /\ job[c].pc = "patch" /\ \A d \in Clients \ {c} : job'[d] = job[d]
      BY <1>0, <1>3 DEF PatchConnection, Requested, requestRest, syncVars, exchange, Done
    <2>2. conn'.id = conn.id /\ conn'.cursor = conn.cursor /\ conn'.phase = conn.phase
      <3>1. PICK x : x = [conn EXCEPT !.key = job[c].id, !.status = "active"]
        OBVIOUS
      <3>2. x.id = conn.id /\ x.cursor = conn.cursor /\ x.phase = conn.phase
        BY <1>0, <3>1 DEF Connection
      <3>3. conn' = conn \/ conn' = x
        BY <1>3, <3>1 DEF PatchConnection
      <3> QED  BY <3>2, <3>3
    <2>3. \A id \in 1..lastId : Gone(id) => Gone(id)'
      BY <2>1, <2>2, GoneStays
    <2> QED  BY <1>0, <2>1, <2>2, <2>3, BesideTrades
  <1>4. CASE DeleteEvents(c)
    <2>1. /\ UNCHANGED <<tick, claims, dropped, old, backfill, halfway, lastId, conn>>
          /\ job[c].pc = "events"
      BY <1>4 DEF DeleteEvents, Requested, exchange, registry
    <2>2. /\ job'[c].pc = "connection" /\ job'[c].id = job[c].id
          /\ \A d \in Clients \ {c} : job'[d] = job[d]
      BY <1>0, <1>4, JobTypes DEF DeleteEvents, JobPC
    <2>3. \A id \in 1..lastId : Gone(id) => Gone(id)'
      BY <2>1, <2>2, GoneStays
    <2>4. ASSUME NEW k \in (1..MaxConns) \X Trades
          PROVE  imported'[k] = imported[k] \/ (imported'[k] = 0 /\ Gone(k[1])')
      <3>1. imported'[k] = IF k[1] = job[c].id THEN 0 ELSE imported[k]
        BY <1>0, <1>4 DEF DeleteEvents
      <3>2. k[1] = job[c].id => Gone(k[1])'
        BY <2>2 DEF Gone, Removing, Requested
      <3> QED  BY <3>1, <3>2
    <2> QED  BY <1>0, <2>1, <2>3, <2>4, BesideTrades
  <1>5. CASE DeleteConnection(c)
    <2>1. /\ UNCHANGED <<tick, claims, dropped, old, backfill, imported, halfway, lastId>>
          /\ \A d \in Clients \ {c} : job'[d] = job[d]
      BY <1>0, <1>5 DEF DeleteConnection, requestRest, syncVars, exchange, Done, Then
    <2>2. \/ conn' = NoConn /\ conn.id = job[c].id
          \/ conn' = conn /\ conn.id # job[c].id
      BY <1>5 DEF DeleteConnection
    <2>3. job[c].id > 0
      BY <1>5 DEF DeleteConnection, Requested, TInv, WalletTypes, AtHand
    <2>4. \A id \in 1..lastId : Gone(id) => Gone(id)'
      BY <1>0, <2>1, <2>2, <2>3, GoneStays
    <2> QED  BY <1>0, <2>1, <2>2, <2>4, BesideTrades
  <1>6. CASE RequestDies(c)
    <2>1. /\ UNCHANGED <<tick, claims, dropped, old, backfill, imported, lastId, conn>>
          /\ halfway' = (IF job[c].pc = "connection" THEN halfway \union {job[c].id} ELSE halfway)
          /\ \A d \in Clients \ {c} : job'[d] = job[d]
      BY <1>0, <1>6 DEF RequestDies, ClientDies, Requested, exchange, registry, Done
    <2>2. \A id \in 1..lastId : Gone(id) => Gone(id)'
      BY <2>1, GoneStays
    <2> QED  BY <1>0, <2>1, <2>2, BesideTrades
  <1> QED  BY <1>1, <1>2, <1>3, <1>4, <1>5, <1>6 DEF LinkStep

\* Steps of the exchange, of the builds and of the requests about wallets.
LEMMA ExchangeTrades ==
    ASSUME TInv, TInv', feed = "exchange", feed' = feed, TradeInv,
           \/ PlaceTrade \/ ReplaceKey \/ BecomesDue \/ LockExpires
           \/ \E p \in Pollers : BuildStep(p) /\ UNCHANGED syncVars
           \/ \E c \in Clients : Purge(c) /\ UNCHANGED syncVars
    PROVE  TradeInv'
  <1>0. /\ job \in [Clients -> Job] /\ conn \in Connection /\ lastId \in Nat
        /\ WalletTypes /\ imported \in [(1..MaxConns) \X Trades -> Nat]
    BY DEF TInv, WalletTypes, PortfolioTypeOK, SyncTypeOK
  <1>1. /\ UNCHANGED <<tick, claims, dropped, old, backfill, imported, halfway, lastId>>
        /\ conn'.id = conn.id /\ conn'.cursor = conn.cursor /\ conn'.phase = conn.phase
        /\ \A c \in Clients : job[c].pc = "connection" => job'[c] = job[c]
    <2>1. CASE PlaceTrade \/ ReplaceKey \/ LockExpires
      BY <2>1 DEF PlaceTrade, ReplaceKey, LockExpires, exchange, portfolioRest, registry
    <2>2. CASE BecomesDue
      <3>1. PICK x : x = [conn EXCEPT !.due = TRUE]
        OBVIOUS
      <3>2. x.id = conn.id /\ x.cursor = conn.cursor /\ x.phase = conn.phase
        BY <1>0, <3>1 DEF Connection
      <3>3. conn' = x
        BY <2>2, <3>1 DEF BecomesDue
      <3> QED  BY <2>2, <3>2, <3>3 DEF BecomesDue, syncVars, exchange, portfolioRest, registry
    <2>3. ASSUME NEW p \in Pollers, BuildStep(p), UNCHANGED syncVars
          PROVE  UNCHANGED <<tick, claims, dropped, old, backfill, imported, halfway, lastId, conn, job>>
      BY <1>0, <2>3, BuildStepTypes DEF syncVars, exchange, registry
    <2>4. ASSUME NEW c \in Clients, Purge(c), UNCHANGED syncVars
          PROVE  /\ UNCHANGED <<tick, claims, dropped, old, backfill, imported, halfway, lastId, conn>>
                 /\ \A d \in Clients : job[d].pc = "connection" => job'[d] = job[d]
      BY <1>0, <2>4 DEF Purge, syncVars, exchange, registry, Then, Done
    <2> QED  BY <2>1, <2>2, <2>3, <2>4
  <1>2. \A id \in 1..lastId : Gone(id) => Gone(id)'
    BY <1>1 DEF Gone, Removing, Requested
  <1> QED  BY <1>0, <1>1, <1>2, BesideTrades
-----------------------------------------------------------------------------
\* A tick uncovers nothing: what it was inserting is in, or dropped.
TickFrame(p) ==
  /\ UNCHANGED <<job, halfway, old, backfill, lastId>> /\ conn'.id = conn.id
  /\ \A q \in Pollers \ {p} : tick'[q] = tick[q]

\* What was covered stays so while a tick goes on.
LEMMA TickCovers ==
    ASSUME TInv, TInv', NEW p \in Pollers, TickFrame(p),
           \A k \in (1..MaxConns) \X Trades : imported'[k] = imported[k] \/ imported'[k] = 1,
           dropped \subseteq dropped',
           tick[p].pc = "insert" => Key(p) \in dropped' \/ imported'[Key(p)] = 1
    PROVE  \A k \in (1..MaxConns) \X Trades : Covered(k) => Covered(k)'
  <1>1. ASSUME NEW k \in (1..MaxConns) \X Trades, Covered(k)  PROVE Covered(k)'
    <2>1. Gone(k[1]) => Gone(k[1])'
      BY DEF TickFrame, Gone, Removing, Requested
    <2>2. ASSUME Importing(k)  PROVE Covered(k)'
      <3>1. PICK q \in Pollers : tick[q].pc = "insert" /\ Key(q) = k
        BY <2>2, InsertingFacts
      <3>2. CASE q = p
        BY <3>1, <3>2 DEF Covered
      <3>3. CASE q # p
        <4>1. tick'[q].pc = "insert" /\ Key(q)' = k
          BY <3>1, <3>3 DEF TickFrame, Key, Snap, Row
        <4>2. Importing(k)'
          BY <4>1, InsertingNext
        <4> QED  BY <4>2 DEF Covered
      <3> QED  BY <3>2, <3>3
    <2>3. backfill' = backfill /\ old' = old
      BY DEF TickFrame
    <2> QED  BY <1>1, <2>1, <2>2, <2>3 DEF Covered
  <1> QED  BY <1>1

\* Then what the cursors and the other ticks rest on stays.
LEMMA TickCursors ==
    ASSUME TInv, TInv', feed = "exchange", TradeInv, NEW p \in Pollers, TickFrame(p),
           \A k \in (1..MaxConns) \X Trades : Covered(k) => Covered(k)',
           FreshStart(conn)', conn.cursor > 0 => conn'.cursor > 0,
           conn.id > 0 => (conn'.cursor = conn.cursor \/ \A t \in 1..conn'.cursor : Covered(<<conn.id, t>>)'),
           TickHolds(p)'
    PROVE  CursorsHold'
  <1>0. CursorsHold /\ conn.id \in Nat /\ conn'.id = conn.id /\ conn'.cursor \in Nat
    BY KeyTypes DEF TradeInv, TickFrame, TInv, WalletTypes, PortfolioTypeOK, Connection
  <1>1. ASSUME conn.id > 0, NEW t \in 1..conn'.cursor  PROVE Covered(<<conn.id, t>>)'
    <2>1. CASE conn'.cursor = conn.cursor
      <3>1. PICK k : k = <<conn.id, t>>
        OBVIOUS
      <3>2. k \in (1..MaxConns) \X Trades /\ Covered(k)
        BY <1>0, <1>1, <2>1, <3>1, KeyTypes DEF CursorsHold
      <3> QED  BY <1>0, <3>1, <3>2
    <2> QED  BY <1>1, <2>1
  <1>2. ASSUME NEW q \in Pollers \ {p}  PROVE TickHolds(q)'
    <2>0. TickHolds(q) /\ Snap(q)' = Snap(q) /\ Row(q)' = Row(q) /\ tick'[q] = tick[q]
          /\ old' = old /\ backfill' = backfill
      BY <1>0 DEF CursorsHold, TickFrame, Snap, Row
    <2>1. ASSUME tick[q].pc # "idle", NEW t \in 1..Snap(q).cursor  PROVE Covered(<<Snap(q).id, t>>)'
      <3>1. PICK k : k = <<Snap(q).id, t>>
        OBVIOUS
      <3>2. k \in (1..MaxConns) \X Trades /\ Covered(k)
        BY <2>0, <2>1, <3>1, KeyTypes DEF TickHolds
      <3> QED  BY <2>0, <3>1, <3>2
    <2>2. ASSUME tick[q].pc \in {"claim", "insert", "cursor"}, NEW t \in 1..(Row(q) - 1)
          PROVE  Covered(<<Snap(q).id, t>>)'
      <3>1. PICK k : k = <<Snap(q).id, t>>
        OBVIOUS
      <3>2. k \in (1..MaxConns) \X Trades /\ Covered(k)
        BY <2>0, <2>2, <3>1, KeyTypes DEF TickHolds
      <3> QED  BY <2>0, <3>1, <3>2
    <2> QED  BY <1>0, <2>0, <2>1, <2>2 DEF TickHolds, FreshStart
  <1> QED  BY <1>0, <1>1, <1>2 DEF CursorsHold

\* A step that imports and drops nothing and inserts neither before nor after.
LEMMA QuietTick ==
    ASSUME TInv, TInv', feed = "exchange", feed' = feed, TradeInv, NEW p \in Pollers, TickFrame(p),
           UNCHANGED <<claims, imported, dropped>>, tick[p].pc # "insert", tick'[p].pc # "insert",
           FreshStart(conn)', conn.cursor > 0 => conn'.cursor > 0,
           conn.id > 0 => (conn'.cursor = conn.cursor \/ \A t \in 1..conn'.cursor : Covered(<<conn.id, t>>)),
           (\A k \in (1..MaxConns) \X Trades : Covered(k) => Covered(k)') => TickHolds(p)'
    PROVE  TradeInv'
  <1>1. \A k \in (1..MaxConns) \X Trades : Covered(k) => Covered(k)'
    BY TickCovers
  <1>2. conn.id > 0 => (conn'.cursor = conn.cursor \/ \A t \in 1..conn'.cursor : Covered(<<conn.id, t>>)')
    <2>1. ASSUME conn.id > 0, conn'.cursor # conn.cursor, NEW t \in 1..conn'.cursor
          PROVE  Covered(<<conn.id, t>>)'
      <3>1. PICK k : k = <<conn.id, t>>
        OBVIOUS
      <3>2. conn'.id = conn.id /\ conn'.cursor <= placed' /\ placed' <= MaxTrades /\ conn'.cursor \in Nat
            /\ MaxTrades \in Nat /\ placed' \in Nat /\ MaxConns \in Nat /\ conn.id <= MaxConns /\ conn.id \in Nat
        BY SyncAssumption, KeyTypes DEF TickFrame, TInv, SyncTypeOK, WalletTypes, PortfolioTypeOK, Connection, Bounds
      <3>3. k \in (1..MaxConns) \X Trades
        BY <2>1, <3>1, <3>2 DEF Trades
      <3>4. Covered(k)
        BY <2>1, <3>1
      <3> QED  BY <1>1, <3>1, <3>2, <3>3, <3>4
    <2> QED  BY <2>1
  <1>3. CursorsHold'
    BY <1>1, <1>2, TickCursors
  <1>4. ClaimsHold'
    <2>1. \A q \in Pollers : tick'[q].pc = "insert" => tick[q].pc = "insert" /\ Key(q)' = Key(q)
      BY DEF TickFrame, Key, Snap, Row
    <2>2. ClaimsHold /\ lastId' = lastId
      BY DEF TradeInv, TickFrame
    <2> QED  BY <1>1, <2>1, <2>2 DEF ClaimsHold
  <1> QED  BY <1>3, <1>4 DEF TradeInv
-----------------------------------------------------------------------------
\* A tick that keeps its snapshot keeps what the snapshot says.
LEMMA SnapKeeps ==
    ASSUME TInv, CursorsHold, NEW p \in Pollers, TickFrame(p), tick[p].pc # "idle",
           \A k \in (1..MaxConns) \X Trades : Covered(k) => Covered(k)',
           Snap(p)'.id = Snap(p).id, Snap(p)'.cursor = Snap(p).cursor,
           Snap(p)'.phase = Snap(p).phase \/ ~backfill, conn.cursor > 0 => conn'.cursor > 0
    PROVE  /\ FreshStart(Snap(p))' /\ \A t \in 1..Snap(p)'.cursor : Covered(<<Snap(p).id, t>>)'
           /\ Snap(p)'.cursor > 0 => conn'.id # Snap(p)'.id \/ conn'.cursor > 0
           /\ tick[p].pc = "finish" => conn'.id # Snap(p)'.id \/ conn'.cursor > 0
           /\ tick[p].pc \in {"claim", "insert", "cursor"} =>
                \A t \in 1..(Row(p) - 1) : \A k : k = <<Snap(p)'.id, t>> => Covered(k)'
  <1>0. TickHolds(p) /\ conn'.id = conn.id /\ old' = old /\ backfill' = backfill
    BY DEF CursorsHold, TickFrame
  <1>1. ASSUME NEW t \in 1..Snap(p)'.cursor  PROVE Covered(<<Snap(p).id, t>>)'
    <2>1. PICK k : k = <<Snap(p).id, t>>
      OBVIOUS
    <2>2. k \in (1..MaxConns) \X Trades /\ Covered(k)
      BY <1>0, <1>1, <2>1, KeyTypes DEF TickHolds
    <2> QED  BY <2>1, <2>2
  <1>2. ASSUME tick[p].pc \in {"claim", "insert", "cursor"}, NEW t \in 1..(Row(p) - 1), NEW k,
               k = <<Snap(p)'.id, t>>
        PROVE  Covered(k)'
    <2>1. k = <<Snap(p).id, t>>
      BY <1>2
    <2>2. k \in (1..MaxConns) \X Trades /\ Covered(k)
      BY <1>0, <1>2, <2>1, KeyTypes DEF TickHolds
    <2> QED  BY <2>2
  <1> QED  BY <1>0, <1>1, <1>2 DEF TickHolds, FreshStart

\* A step that only moves on, or writes to the connection on the way.
LEMMA MoveTrades ==
    ASSUME TInv, TInv', feed = "exchange", feed' = feed, TradeInv, NEW p \in Pollers,
           UNCHANGED <<exchange, claims, imported, dropped, halfway, portfolioRest>>,
           tick[p].pc \notin {"idle", "insert"},
           NEW pc \in {"balances", "release", "fail", "page"}, At(p, pc),
           FreshStart(conn)', conn' = conn \/ \E c : Kept(c) /\ Write(p, c)
    PROVE  TradeInv'
  <1>0. CursorsHold /\ pc \in TickPC
    BY DEF TradeInv, TickPC
  <1>1. /\ \A q \in Pollers \ {p} : tick'[q] = tick[q]
        /\ tick'[p].pc = pc /\ tick'[p].snap = tick[p].snap
    BY <1>0, AtFacts, TickFacts
  <1>2. conn'.id = conn.id /\ conn'.cursor = conn.cursor
    BY DEF Kept, Write
  <1>3. TickFrame(p) /\ Snap(p)' = Snap(p)
    BY <1>1, <1>2 DEF TickFrame, exchange, portfolioRest, registry, Snap
  <1>4. ASSUME \A k \in (1..MaxConns) \X Trades : Covered(k) => Covered(k)'  PROVE TickHolds(p)'
    <2>1. /\ FreshStart(Snap(p))' /\ \A t \in 1..Snap(p)'.cursor : Covered(<<Snap(p).id, t>>)'
          /\ Snap(p)'.cursor > 0 => conn'.id # Snap(p)'.id \/ conn'.cursor > 0
      BY <1>0, <1>2, <1>3, <1>4, SnapKeeps
    <2> QED  BY <1>1, <2>1 DEF TickHolds
  <1> QED  BY <1>1, <1>2, <1>3, <1>4, QuietTick

\* A tick that ends holds nothing.
LEMMA EndTrades ==
    ASSUME TInv, TInv', feed = "exchange", feed' = feed, TradeInv, NEW p \in Pollers,
           UNCHANGED <<exchange, claims, imported, halfway, portfolioRest, conn>>,
           tick' = [tick EXCEPT ![p] = NoTick],
           dropped' = IF tick[p].pc = "insert" THEN dropped \union {Key(p)} ELSE dropped
    PROVE  TradeInv'
  <1>1. /\ tick'[p].pc = "idle" /\ \A q \in Pollers \ {p} : tick'[q] = tick[q]
    BY TickFacts DEF NoTick
  <1>2. TickFrame(p) /\ TickHolds(p)'
    BY <1>1 DEF TickFrame, TickHolds, exchange, portfolioRest, registry
  <1>3. \A k \in (1..MaxConns) \X Trades : Covered(k) => Covered(k)'
    BY <1>2, TickCovers
  <1>4. FreshStart(conn)'
    BY <1>2 DEF TradeInv, CursorsHold, FreshStart, TickFrame
  <1>5. CursorsHold'
    BY <1>2, <1>3, <1>4, TickCursors
  <1>6. ClaimsHold'
    <2>1. \A q \in Pollers : tick'[q].pc = "insert" => tick[q].pc = "insert" /\ Key(q)' = Key(q)
      BY <1>1 DEF Key, Snap, Row
    <2> QED  BY <1>2, <1>3, <2>1 DEF TradeInv, ClaimsHold, TickFrame
  <1> QED  BY <1>5, <1>6 DEF TradeInv

\* The fetch of a page.
LEMMA PageTrades ==
    ASSUME TInv, TInv', feed = "exchange", feed' = feed, TradeInv, NEW p \in Pollers, Page(p)
    PROVE  TradeInv'
  <1> DEFINE from == From(Snap(p))
             last == LastOf(Snap(p))
  <1>0. /\ UNCHANGED <<exchange, claims, imported, dropped, halfway, portfolioRest>>
        /\ tick[p].pc = "page" /\ CursorsHold /\ TickHolds(p) /\ Snap(p).id > 0
    BY KeyTypes DEF Page, Is, TradeInv, CursorsHold
  <1>a. /\ old' = old /\ backfill' = backfill /\ FreshStart(conn) /\ Snap(p) \in Connection
        /\ conn \in Connection /\ placed \in Nat /\ old \in Nat /\ old <= placed
    BY <1>0, TickFacts DEF exchange, CursorsHold
  <1>1. CASE CallFails(p)
    <2>1. PICK c : Kept(c) /\ c.phase = conn.phase /\ Write(p, c)
      BY <1>1, <1>a, CallFailsFacts
    <2>2. FreshStart(conn)'
      BY <1>a, <2>1 DEF Kept, Write, FreshStart
    <2>3. At(p, "release")
      BY <1>1 DEF CallFails
    <2> QED  BY <1>0, <2>1, <2>2, <2>3, MoveTrades
  <1>2. CASE /\ last <= from /\ At(p, "release")
             /\ Write(p, [Later(conn) EXCEPT !.phase =
                            IF Snap(p).phase = "initial_backfill" THEN "live" ELSE @])
    <2>1. PICK f : f = IF Snap(p).phase = "initial_backfill" THEN "live" ELSE Later(conn).phase
      OBVIOUS
    <2>2. f \in {"initial_backfill", "live"} /\ Later(conn).phase = conn.phase
      BY <1>a, <2>1, WrittenFacts DEF Connection
    <2>3. PICK c : c = [Later(conn) EXCEPT !.phase = f]
      OBVIOUS
    <2>4. Kept(c) /\ c.phase = f /\ Write(p, c)
      BY <1>2, <1>a, <2>1, <2>2, <2>3, WrittenFacts DEF Kept
    <2>5. FreshStart(conn)'
      <3>1. CASE conn.id # Snap(p).id \/ f = conn.phase
        BY <1>a, <2>4, <3>1 DEF Kept, Write, FreshStart
      <3>2. CASE conn.id = Snap(p).id /\ f # conn.phase
        <4>1. Snap(p).phase = "initial_backfill" /\ from = Snap(p).cursor /\ conn'.cursor = conn.cursor
          BY <2>1, <2>2, <2>4, <3>2 DEF From, Kept, Write
        <4>2. conn.cursor = 0 => Snap(p).cursor = 0
          BY <1>0, <1>a, <3>2 DEF TickHolds, Connection
        <4>3. Snap(p).cursor = 0 => placed = 0
          BY <1>2, <1>a, <4>1, SyncAssumption DEF LastOf
        <4> QED  BY <1>a, <4>1, <4>2, <4>3 DEF FreshStart
      <3> QED  BY <3>1, <3>2
    <2> QED  BY <1>0, <1>2, <2>4, <2>5, MoveTrades
  <1>3. CASE /\ from < last /\ UNCHANGED conn
             /\ tick' = [tick EXCEPT ![p] = [pc |-> "claim", snap |-> Snap(p), row |-> from + 1,
                                             top |-> last, short |-> last < from + PageLimit]]
    <2>1. /\ tick'[p].pc = "claim" /\ Snap(p)' = Snap(p) /\ Row(p)' = from + 1
          /\ \A q \in Pollers \ {p} : tick'[q] = tick[q]
      BY <1>3, TickFacts DEF Snap, Row
    <2>2. TickFrame(p) /\ FreshStart(conn)'
      BY <1>0, <1>a, <1>3, <2>1 DEF TickFrame, exchange, portfolioRest, registry, FreshStart
    <2>3. ASSUME \A k \in (1..MaxConns) \X Trades : Covered(k) => Covered(k)'  PROVE TickHolds(p)'
      <3>1. /\ FreshStart(Snap(p))' /\ \A t \in 1..Snap(p)'.cursor : Covered(<<Snap(p).id, t>>)'
            /\ Snap(p)'.cursor > 0 => conn'.id # Snap(p)'.id \/ conn'.cursor > 0
        BY <1>0, <1>3, <2>1, <2>2, <2>3, SnapKeeps
      <3>2. ASSUME NEW t \in 1..from  PROVE Covered(<<Snap(p).id, t>>)'
        <4>1. CASE Snap(p).cursor = 0 /\ Snap(p).phase = "live"
          <5>1. ~backfill /\ t <= old /\ from = old
            BY <1>0, <1>a, <3>2, <4>1 DEF TickHolds, FreshStart, From
          <5> QED  BY <1>a, <5>1 DEF Covered
        <4>2. CASE ~(Snap(p).cursor = 0 /\ Snap(p).phase = "live")
          BY <2>1, <3>1, <3>2, <4>2 DEF From
        <4> QED  BY <4>1, <4>2
      <3>3. \A t \in 1..(Row(p)' - 1) : Covered(<<Snap(p).id, t>>)'
        <4>1. from \in Nat
          BY <1>a DEF From, Connection
        <4> QED  BY <2>1, <3>2, <4>1
      <3> QED  BY <2>1, <3>1, <3>3 DEF TickHolds
    <2> QED  BY <1>0, <1>3, <2>1, <2>2, <2>3, QuietTick
  <1> QED  BY <1>1, <1>2, <1>3 DEF Page

\* Steps at a row that is covered, or about to be: the next row is taken.
LEMMA RowKeeps ==
    ASSUME TInv, TradeInv, feed = "exchange", NEW p \in Pollers, TickFrame(p), UNCHANGED conn,
           tick[p].pc \in {"claim", "insert"}, Snap(p)' = Snap(p),
           \A k \in (1..MaxConns) \X Trades : Covered(k) => Covered(k)',
           \/ tick'[p].pc \in {"insert", "fail"} /\ Row(p)' = Row(p)
           \/ /\ tick'[p].pc \in {"claim", "cursor"} /\ Row(p)' = Row(p) + 1
              /\ \A k : k = Key(p) => Covered(k)'
    PROVE  TickHolds(p)'
  <1>0. CursorsHold /\ Row(p) \in Nat
    BY TickFacts DEF TradeInv, Tick
  <1>1. /\ FreshStart(Snap(p))' /\ \A t \in 1..Snap(p)'.cursor : Covered(<<Snap(p).id, t>>)'
        /\ Snap(p)'.cursor > 0 => conn'.id # Snap(p)'.id \/ conn'.cursor > 0
        /\ \A t \in 1..(Row(p) - 1) : \A k : k = <<Snap(p)'.id, t>> => Covered(k)'
    BY <1>0, SnapKeeps
  <1>2. ASSUME NEW t \in 1..(Row(p)' - 1), tick'[p].pc \in {"claim", "insert", "cursor"}
        PROVE  Covered(<<Snap(p).id, t>>)'
    <2>1. PICK k : k = <<Snap(p).id, t>>
      OBVIOUS
    <2>2. CASE t \in 1..(Row(p) - 1)
      <3>1. Covered(k)'
        BY <1>1, <2>1, <2>2
      <3> QED  BY <2>1, <3>1
    <2>3. CASE t = Row(p) /\ Row(p)' = Row(p) + 1
      <3>1. k = Key(p)
        BY <2>1, <2>3 DEF Key
      <3>2. Covered(k)'
        BY <1>2, <2>3, <3>1
      <3> QED  BY <2>1, <3>2
    <2> QED  BY <1>0, <1>2, <2>2, <2>3
  <1> QED  BY <1>1, <1>2 DEF TickHolds

\* A row is claimed, was claimed already, or the claim fails.
LEMMA ClaimTrades ==
    ASSUME TInv, TInv', feed = "exchange", feed' = feed, TradeInv, NEW p \in Pollers, Claim(p)
    PROVE  TradeInv'
  <1>0. /\ UNCHANGED <<exchange, imported, dropped, halfway, portfolioRest, conn>>
        /\ tick[p].pc = "claim" /\ claims' = claims \union {Key(p)} /\ ClaimsHold /\ CursorsHold
        /\ Key(p) \in (1..MaxConns) \X Trades
    BY KeyTypes DEF Claim, Is, TradeInv
  <1>1. /\ \A q \in Pollers \ {p} : tick'[q] = tick[q]
        /\ Snap(p)' = Snap(p)
        /\ \/ Key(p) \in claims /\ tick'[p].pc \in {"claim", "cursor"} /\ Row(p)' = Row(p) + 1
           \/ Key(p) \notin claims /\ tick'[p].pc = "insert" /\ Row(p)' = Row(p)
    <2>1. CASE Key(p) \in claims /\ NextRow(p)
      BY <2>1, TickFacts, NextRowFacts DEF Snap, Row
    <2>2. CASE Key(p) \notin claims /\ At(p, "insert")
      BY <2>2, TickFacts, AtFacts DEF Snap, Row, TickPC
    <2> QED  BY <2>1, <2>2 DEF Claim
  <1>2. TickFrame(p) /\ FreshStart(conn)'
    BY <1>0, <1>1 DEF TickFrame, exchange, portfolioRest, registry, FreshStart, CursorsHold
  <1>3. \A k \in (1..MaxConns) \X Trades : Covered(k) => Covered(k)'
    BY <1>0, <1>2, TickCovers
  <1>4. ASSUME Key(p) \in claims, NEW k, k = Key(p)  PROVE Covered(k)'
    BY <1>0, <1>3, <1>4 DEF ClaimsHold
  <1>5. TickHolds(p)'
    BY <1>0, <1>1, <1>2, <1>3, <1>4, RowKeeps
  <1>6. CursorsHold'
    BY <1>0, <1>2, <1>3, <1>5, TickCursors
  <1>7. ClaimsHold'
    <2>1. \A q \in Pollers \ {p} : Key(q)' = Key(q)
      BY <1>1 DEF Key, Snap, Row
    <2>2. tick'[p].pc = "insert" => Key(p)' = Key(p) /\ Key(p) \notin claims
      BY <1>1 DEF Key
    <2>3. \A k \in (1..MaxConns) \X Trades :
            /\ imported'[k] <= 1 /\ (imported'[k] > 0 => k \in claims')
            /\ k \in claims' => k[1] <= lastId' /\ Covered(k)'
      <3>1. ASSUME NEW k \in (1..MaxConns) \X Trades, k \in claims'
            PROVE  k[1] <= lastId' /\ Covered(k)'
        <4>1. CASE k \in claims
          BY <1>0, <1>2, <1>3, <4>1 DEF ClaimsHold, TickFrame
        <4>2. CASE k = Key(p) /\ Key(p) \notin claims
          <5>1. tick'[p].pc = "insert" /\ Key(p)' = k
            BY <1>1, <2>2, <4>2
          <5>2. Importing(k)'
            BY <5>1, InsertingNext
          <5>3. k[1] <= lastId'
            BY <1>2, <4>2, KeyTypes DEF Key, TickFrame
          <5> QED  BY <5>2, <5>3 DEF Covered
        <4> QED  BY <1>0, <3>1, <4>1, <4>2
      <3> QED  BY <1>0, <3>1 DEF ClaimsHold
    <2>4. ASSUME NEW q \in Pollers, tick'[q].pc = "insert"
          PROVE  /\ imported'[Key(q)'] = 0
                 /\ \A r \in Pollers : tick'[r].pc = "insert" /\ Key(r)' = Key(q)' => r = q
      <3>1. \A r \in Pollers \ {p} : tick'[r].pc = "insert" => Key(r) \in claims
        BY <1>1, TickFacts DEF TickTypeOK
      <3>2. CASE q = p
        <4>1. imported[Key(p)] = 0
          BY <1>0, <2>2, <2>4, <3>2, TickFacts DEF ClaimsHold
        <4> QED  BY <1>0, <2>1, <2>2, <2>4, <3>1, <3>2, <4>1
      <3>3. CASE q # p
        BY <1>0, <1>1, <2>1, <2>2, <2>4, <3>1, <3>3 DEF ClaimsHold
      <3> QED  BY <3>2, <3>3
    <2> QED  BY <2>3, <2>4 DEF ClaimsHold
  <1> QED  BY <1>6, <1>7 DEF TradeInv

\* A claimed row is inserted, or dropped.
LEMMA InsertTrades ==
    ASSUME TInv, TInv', feed = "exchange", feed' = feed, TradeInv, NEW p \in Pollers, Insert(p)
    PROVE  TradeInv'
  <1> DEFINE S == (1..MaxConns) \X Trades
  <1>0. /\ UNCHANGED <<exchange, claims, halfway, portfolioRest, conn>>
        /\ tick[p].pc = "insert" /\ ClaimsHold /\ CursorsHold
        /\ Key(p) \in S /\ Key(p) \in claims /\ imported \in [S -> Nat]
        /\ imported[Key(p)] = 0
    BY KeyTypes, TickFacts DEF Insert, Is, TradeInv, TickTypeOK, ClaimsHold
  <1>1. /\ \A q \in Pollers \ {p} : tick'[q] = tick[q]
        /\ Snap(p)' = Snap(p)
        /\ \/ /\ imported' = [imported EXCEPT ![Key(p)] = @ + 1] /\ dropped' = dropped
              /\ tick'[p].pc \in {"claim", "cursor"} /\ Row(p)' = Row(p) + 1
           \/ /\ imported' = imported /\ dropped' = dropped \union {Key(p)}
              /\ tick'[p].pc = "fail" /\ Row(p)' = Row(p)
    <2>1. CASE imported' = [imported EXCEPT ![Key(p)] = @ + 1] /\ dropped' = dropped /\ NextRow(p)
      BY <2>1, TickFacts, NextRowFacts DEF Snap, Row
    <2>2. CASE imported' = imported /\ dropped' = dropped \union {Key(p)} /\ At(p, "fail")
      BY <2>2, TickFacts, AtFacts DEF Snap, Row, TickPC
    <2> QED  BY <2>1, <2>2 DEF Insert
  <1>2. /\ \A k \in S : imported'[k] = imported[k] \/ (k = Key(p) /\ imported'[k] = 1)
        /\ Key(p) \in dropped' \/ imported'[Key(p)] = 1
    <2> HIDE DEF S
    <2> QED  BY <1>0, <1>1
  <1>3. TickFrame(p) /\ FreshStart(conn)'
    BY <1>0, <1>1 DEF TickFrame, exchange, portfolioRest, registry, FreshStart, CursorsHold
  <1>4. \A k \in S : Covered(k) => Covered(k)'
    BY <1>1, <1>2, <1>3, TickCovers
  <1>5. ASSUME NEW k, k = Key(p)  PROVE Covered(k)'
    BY <1>2, <1>5 DEF Covered
  <1>6. TickHolds(p)'
    BY <1>0, <1>1, <1>3, <1>4, <1>5, RowKeeps
  <1>7. CursorsHold'
    BY <1>0, <1>3, <1>4, <1>6, TickCursors
  <1>8. ClaimsHold'
    <2>1. \A q \in Pollers : tick'[q].pc = "insert" => tick[q].pc = "insert" /\ Key(q)' = Key(q) /\ q # p
      BY <1>1 DEF Key, Snap, Row
    <2>2. \A k \in S :
            /\ imported'[k] <= 1 /\ (imported'[k] > 0 => k \in claims')
            /\ k \in claims' => k[1] <= lastId' /\ Covered(k)'
      BY <1>0, <1>2, <1>3, <1>4 DEF ClaimsHold, TickFrame
    <2>3. ASSUME NEW q \in Pollers, tick'[q].pc = "insert"
          PROVE  imported'[Key(q)'] = 0
      BY <1>0, <1>2, <2>1, <2>3, KeyTypes DEF ClaimsHold
    <2> QED  BY <1>0, <2>1, <2>2, <2>3 DEF ClaimsHold
  <1> QED  BY <1>7, <1>8 DEF TradeInv

\* The steps of a tick, one by one.
LEMMA PollStepTrades ==
    ASSUME TInv, feed = "exchange", feed' = feed, UNCHANGED hookVars, TradeInv, NEW p \in Pollers,
           \/ Due(p) \/ Acquire(p) \/ Decrypt(p) \/ Balances(p) \/ Page(p) \/ Claim(p)
           \/ Insert(p) \/ Cursor(p) \/ Finish(p) \/ Fail(p) \/ Release(p) \/ PollerDies(p)
    PROVE  TradeInv'
  <1> USE TickFacts
  <1>0. TInv' /\ CursorsHold /\ FreshStart(conn) /\ TickHolds(p)
    BY PollStepTypes DEF TradeInv, CursorsHold
  <1>a. UNCHANGED <<old, backfill>> /\ conn' = conn => FreshStart(conn)'
    BY <1>0 DEF FreshStart
  <1>1. CASE Due(p)
    <2>1. /\ tick'[p].pc = "lock" /\ Snap(p)' = conn /\ \A q \in Pollers \ {p} : tick'[q] = tick[q]
      BY <1>1 DEF Due, Snap
    <2>2. /\ UNCHANGED <<claims, imported, dropped, conn>> /\ TickFrame(p) /\ FreshStart(conn)'
          /\ tick[p].pc = "idle" /\ conn.id > 0
      BY <1>a, <1>1, <2>1 DEF Due, Is, exchange, TickFrame, portfolioRest, registry, NoConn, Connection
    <2>3. ASSUME \A k \in (1..MaxConns) \X Trades : Covered(k) => Covered(k)'  PROVE TickHolds(p)'
      <3>1. ASSUME NEW t \in 1..conn.cursor  PROVE Covered(<<conn.id, t>>)'
        <4>1. PICK k : k = <<conn.id, t>>
          OBVIOUS
        <4>2. k \in (1..MaxConns) \X Trades /\ Covered(k)
          BY <1>0, <2>2, <3>1, <4>1, KeyTypes DEF CursorsHold
        <4> QED  BY <2>2, <2>3, <4>1, <4>2
      <3> QED  BY <2>1, <2>2, <3>1 DEF TickHolds
    <2> QED  BY <1>0, <2>1, <2>2, <2>3, QuietTick
  <1>2. CASE Acquire(p) /\ slock
    <2>1. tick' = [tick EXCEPT ![p] = NoTick] /\ tick[p].pc = "lock"
      BY <1>2 DEF Acquire, Is
    <2> QED  BY <1>0, <1>2, <2>1, EndTrades DEF Acquire
  <1>3. CASE Acquire(p) /\ ~slock
    <2>1. tick'[p] = [tick[p] EXCEPT !.pc = "decrypt"] /\ \A q \in Pollers \ {p} : tick'[q] = tick[q]
      BY <1>3 DEF Acquire
    <2>2. tick'[p].pc = "decrypt" /\ Snap(p)' = Snap(p)
      BY <2>1 DEF Snap, Tick
    <2>3. /\ UNCHANGED <<claims, imported, dropped, conn>> /\ TickFrame(p) /\ FreshStart(conn)'
          /\ tick[p].pc = "lock"
      BY <1>a, <1>3, <2>1 DEF Acquire, Is, exchange, TickFrame, portfolioRest, registry
    <2>4. ASSUME \A k \in (1..MaxConns) \X Trades : Covered(k) => Covered(k)'  PROVE TickHolds(p)'
      <3>1. /\ FreshStart(Snap(p))' /\ \A t \in 1..Snap(p)'.cursor : Covered(<<Snap(p).id, t>>)'
            /\ Snap(p)'.cursor > 0 => conn'.id # Snap(p)'.id \/ conn'.cursor > 0
        BY <1>0, <2>2, <2>3, <2>4, SnapKeeps
      <3> QED  BY <2>2, <3>1 DEF TickHolds
    <2> QED  BY <1>0, <2>2, <2>3, <2>4, QuietTick
  <1>4. CASE Decrypt(p)
    <2>0. /\ UNCHANGED <<exchange, claims, imported, dropped, halfway, portfolioRest>>
          /\ tick[p].pc = "decrypt" /\ old' = old /\ backfill' = backfill
      BY <1>4 DEF Decrypt, Is, exchange
    <2>1. CASE At(p, "balances") /\ UNCHANGED <<stimuli, conn>>
      BY <1>0, <1>a, <2>0, <2>1, MoveTrades
    <2>2. CASE Spend(1) /\ At(p, "release") /\ Write(p, [Later(conn) EXCEPT !.status = "error"])
      <3>1. PICK c : c = [Later(conn) EXCEPT !.status = "error"]
        OBVIOUS
      <3>2. Kept(c) /\ c.phase = conn.phase /\ Write(p, c)
        BY <2>2, <3>1, WrittenFacts DEF Kept
      <3>3. FreshStart(conn)'
        BY <1>0, <2>0, <3>2 DEF Kept, Write, FreshStart
      <3> QED  BY <1>0, <2>0, <2>2, <3>2, <3>3, MoveTrades
    <2>3. CASE /\ Snap(p).phase # "live" /\ ~backfill /\ UNCHANGED stimuli
               /\ tick' = [tick EXCEPT ![p].pc = "balances", ![p].snap.phase = "live"]
               /\ Write(p, [conn EXCEPT !.phase = "live"])
      <3>1. PICK c : c = [conn EXCEPT !.phase = "live"]
        OBVIOUS
      <3>2. Kept(c) /\ Write(p, c)
        BY <2>3, <3>1, WrittenFacts DEF Kept
      <3>3. conn'.id = conn.id /\ conn'.cursor = conn.cursor /\ FreshStart(conn)'
        BY <2>0, <2>3, <3>2 DEF Kept, Write, FreshStart
      <3>4. /\ tick'[p] = [[tick[p] EXCEPT !.pc = "balances"] EXCEPT !.snap = [@ EXCEPT !.phase = "live"]]
            /\ \A q \in Pollers \ {p} : tick'[q] = tick[q]
        BY <2>3
      <3>5. tick'[p].pc = "balances" /\ Snap(p)'.id = Snap(p).id /\ Snap(p)'.cursor = Snap(p).cursor
        <4>1. PICK y \in Connection : y = [Snap(p) EXCEPT !.phase = "live"]
                                        /\ y.id = Snap(p).id /\ y.cursor = Snap(p).cursor
          <5>1. LET y == [Snap(p) EXCEPT !.phase = "live"]
                IN  y \in Connection /\ y.id = Snap(p).id /\ y.cursor = Snap(p).cursor
            BY DEF Connection
          <5> QED  BY <5>1
        <4>2. tick'[p] = [[tick[p] EXCEPT !.pc = "balances"] EXCEPT !.snap = y]
          BY <3>4, <4>1 DEF Tick, Snap
        <4> QED  BY <4>1, <4>2 DEF Tick, TickPC, Snap
      <3>6. TickFrame(p)
        BY <2>0, <3>3, <3>4 DEF TickFrame, portfolioRest, registry
      <3>7. ASSUME \A k \in (1..MaxConns) \X Trades : Covered(k) => Covered(k)'  PROVE TickHolds(p)'
        <4>1. /\ FreshStart(Snap(p))' /\ \A t \in 1..Snap(p)'.cursor : Covered(<<Snap(p).id, t>>)'
              /\ Snap(p)'.cursor > 0 => conn'.id # Snap(p)'.id \/ conn'.cursor > 0
          BY <1>0, <2>0, <2>3, <3>3, <3>5, <3>6, <3>7, SnapKeeps
        <4>2. Snap(p)'.id = Snap(p).id
          BY <3>5
        <4> QED  BY <3>5, <4>1, <4>2 DEF TickHolds
      <3> QED  BY <1>0, <2>0, <3>3, <3>5, <3>6, <3>7, QuietTick
    <2> QED  BY <1>4, <2>1, <2>2, <2>3 DEF Decrypt
  <1>5. CASE Balances(p)
    <2>0. /\ UNCHANGED <<exchange, claims, imported, dropped, halfway, portfolioRest>>
          /\ tick[p].pc = "balances" /\ old' = old /\ backfill' = backfill
      BY <1>5 DEF Balances, Is, exchange
    <2>1. CASE At(p, "page") /\ UNCHANGED conn
      BY <1>0, <1>a, <2>0, <2>1, MoveTrades
    <2>2. CASE CallFails(p)
      <3>1. PICK c : Kept(c) /\ c.phase = conn.phase /\ Write(p, c)
        BY <2>2, CallFailsFacts
      <3>2. FreshStart(conn)' /\ At(p, "release")
        BY <1>0, <2>0, <2>2, <3>1 DEF Kept, Write, FreshStart, CallFails
      <3> QED  BY <1>0, <2>0, <3>1, <3>2, MoveTrades
    <2> QED  BY <1>5, <2>1, <2>2 DEF Balances
  <1>6. CASE Cursor(p)
    <2>0. /\ UNCHANGED <<exchange, claims, imported, dropped, halfway, portfolioRest>>
          /\ tick[p].pc = "cursor" /\ old' = old /\ backfill' = backfill /\ Snap(p).id > 0
          /\ tick[p].top \in Nat /\ tick[p].top > 0 /\ Row(p) = tick[p].top + 1
      BY <1>6 DEF Cursor, Is, exchange, TickTypeOK, Tick
    <2>1. PICK c : c = [conn EXCEPT !.cursor = tick[p].top]
      OBVIOUS
    <2>2. c \in Connection /\ c.id = conn.id /\ c.cursor = tick[p].top /\ c.phase = conn.phase
          /\ Write(p, c)
      BY <1>6, <2>0, <2>1, WrittenFacts DEF Cursor
    <2>3. /\ conn' = (IF conn.id = Snap(p).id THEN c ELSE conn) /\ conn'.id = conn.id
          /\ (conn.cursor > 0 => conn'.cursor > 0) /\ FreshStart(conn)'
          /\ conn.id = Snap(p).id => conn'.cursor > 0
      BY <1>0, <2>0, <2>2 DEF Write, FreshStart
    <2>4. conn.id > 0 => (conn'.cursor = conn.cursor \/ \A t \in 1..conn'.cursor : Covered(<<conn.id, t>>))
      BY <1>0, <2>0, <2>2, <2>3 DEF TickHolds
    <2>5. /\ \A q \in Pollers \ {p} : tick'[q] = tick[q]
          /\ tick'[p].pc = "finish" /\ Snap(p)' = Snap(p)
      BY <1>6, AtFacts DEF Cursor, TickPC, Snap
    <2>6. TickFrame(p)
      BY <2>0, <2>3, <2>5 DEF TickFrame, portfolioRest, registry
    <2>7. ASSUME \A k \in (1..MaxConns) \X Trades : Covered(k) => Covered(k)'  PROVE TickHolds(p)'
      <3>1. /\ FreshStart(Snap(p))' /\ \A t \in 1..Snap(p)'.cursor : Covered(<<Snap(p).id, t>>)'
        BY <1>0, <2>0, <2>3, <2>5, <2>6, <2>7, SnapKeeps
      <3> QED  BY <2>3, <2>5, <3>1 DEF TickHolds
    <2> QED  BY <1>0, <2>0, <2>3, <2>4, <2>5, <2>6, <2>7, QuietTick
  <1>7. CASE Finish(p)
    <2>0. /\ UNCHANGED <<exchange, claims, imported, dropped, halfway, portfolioRest>>
          /\ tick[p].pc = "finish" /\ old' = old /\ backfill' = backfill /\ At(p, "release")
      BY <1>7 DEF Finish, Is, exchange
    <2>1. PICK f : f = IF Snap(p).phase = "initial_backfill" /\ tick[p].short THEN "live"
                       ELSE Later(conn).phase
      OBVIOUS
    <2>2. f \in {"initial_backfill", "live"} /\ Later(conn).phase = conn.phase
      BY <2>1, WrittenFacts DEF Connection
    <2>3. PICK c : c = [Later(conn) EXCEPT !.phase = f]
      OBVIOUS
    <2>4. Kept(c) /\ Write(p, c)
      BY <1>7, <2>1, <2>2, <2>3, WrittenFacts DEF Kept, Finish
    <2>5. conn.id = Snap(p).id => conn.cursor > 0
      BY <1>0, <2>0 DEF TickHolds
    <2>6. FreshStart(conn)'
      BY <1>0, <2>0, <2>4, <2>5 DEF Kept, Write, FreshStart
    <2> QED  BY <1>0, <2>0, <2>4, <2>6, MoveTrades
  <1>8. CASE Fail(p)
    <2>0. /\ UNCHANGED <<exchange, claims, imported, dropped, halfway, portfolioRest>>
          /\ tick[p].pc = "fail" /\ old' = old /\ backfill' = backfill /\ At(p, "release")
          /\ Write(p, Later(conn))
      BY <1>8 DEF Fail, Is, exchange
    <2>1. Kept(Later(conn)) /\ Later(conn).phase = conn.phase
      BY WrittenFacts DEF Kept
    <2>2. FreshStart(conn)'
      BY <1>0, <2>0, <2>1 DEF Kept, Write, FreshStart
    <2> QED  BY <1>0, <2>0, <2>1, <2>2, MoveTrades
  <1>9. CASE Release(p)
    <2>1. tick[p].pc = "release"
      BY <1>9 DEF Release, Is
    <2> QED  BY <1>0, <1>9, <2>1, EndTrades DEF Release
  <1>10. CASE PollerDies(p)
    <2>1. Is(p, "insert") = (tick[p].pc = "insert")
      BY InsertingFacts
    <2> QED  BY <1>0, <1>10, <2>1, EndTrades DEF PollerDies
  <1> QED
    BY <1>0, <1>1, <1>2, <1>3, <1>4, <1>5, <1>6, <1>7, <1>8, <1>9, <1>10, PageTrades, ClaimTrades, InsertTrades

\* The other feeds leave the connection alone.
LEMMA OtherFeeds ==
    ASSUME PortfolioNext \/ IngestNext  PROVE conn' = conn
  <1>1. ASSUME NEW c \in Clients, WalletStep(c)  PROVE conn' = conn
    BY <1>1 DEF WalletStep, AddWallet, RemoveWallet, CreateWallet, DeleteWallet, Purge, Register, Subscribe,
       Unregister, Unsubscribe
  <1>2. ASSUME NEW b \in Clients \union Pollers, BuildStep(b)  PROVE conn' = conn
    BY <1>2 DEF BuildStep, FetchWallets, FetchExchange, Upsert
  <1>3. CASE PortfolioNext
    BY <1>1, <1>2, <1>3 DEF PortfolioNext, WalletStep, BuildStep, GetHoldings, Lists, Age, ClientDies
  <1>4. CASE IngestNext
    <2>1. ASSUME NEW c \in Clients, WalletsChange(c)  PROVE conn' = conn
      <3>1. WalletStep(c)
        BY <2>1, ConstantTypes DEF WalletsChange, WalletStep
      <3> QED  BY <1>1, <3>1
    <2>2. ASSUME NEW f \in Flushers, FetchWallets(f) \/ FetchExchange(f) \/ Upsert(f)  PROVE conn' = conn
      BY <2>2 DEF FetchWallets, FetchExchange, Upsert
    <2>3. ASSUME NEW h \in Hooks, NEW d \in Deliveries, Deliver(h, d)  PROVE conn' = conn
      BY <2>3 DEF Deliver, portfolioStill
    <2>4. ASSUME NEW h \in Hooks, Find(h) \/ ClaimKey(h)  PROVE conn' = conn
      <3>1. UNCHANGED portfolioStill
        BY <2>4, Zenon DEF Find, ClaimKey
      <3> QED  BY <3>1 DEF portfolioStill
    <2>5. ASSUME NEW f \in Flushers, (\E c \in Chains : Flush(f, c)) \/ Enrich(f) \/ Save(f)
          PROVE  conn' = conn
      BY <2>5 DEF Flush, Enrich, Save, portfolioStill
    <2>6. ASSUME IngestDies \/ (\E u \in Owners : ListUnsettled(u))
                 \/ (\E d \in scan.todo : WriteStatus(d) \/ \E s \in Statuses : AskReceipt(d, s))
          PROVE  conn' = conn
      BY <2>6 DEF IngestDies, ListUnsettled, WriteStatus, AskReceipt, portfolioStill
    <2> QED  BY <1>4, <2>1, <2>2, <2>3, <2>4, <2>5, <2>6 DEF IngestNext
  <1> QED  BY <1>3, <1>4

\* Every trade up to the cursor of a connection was imported exactly once, and
\* no trade is ever imported twice, whichever ticks run beside each other with
\* whatever snapshots: for any number of processes, trades and connections.
THEOREM TradesOnce == Spec => []TradesAreImportedOnce
  <1>1. Init => TInv /\ TradeInv
    <2> SUFFICES ASSUME Init  PROVE TInv /\ TradeInv
      OBVIOUS
    <2>1. TInv
      BY InitTypes
    <2>2. /\ claims = {} /\ imported = [k \in (1..MaxConns) \X Trades |-> 0]
          /\ \A p \in Pollers : tick[p].pc = "idle"
      BY DEF Init, SyncInit, NoTick
    <2>3. conn.cursor = 0 /\ (conn.id > 0 => conn.phase = "initial_backfill")
      BY DEF Init, PortfolioInit, NewConn, NoConn
    <2>4. ClaimsHold
      BY <2>2 DEF ClaimsHold
    <2>5. CursorsHold
      BY <2>2, <2>3 DEF CursorsHold, FreshStart, TickHolds
    <2> QED  BY <2>1, <2>2, <2>3, <2>4, <2>5 DEF TradeInv
  <1>2. TInv /\ TradeInv /\ [Next]_vars => TInv' /\ TradeInv'
    <2> SUFFICES ASSUME TInv, TradeInv, [Next]_vars  PROVE TInv' /\ TradeInv'
      OBVIOUS
    <2>1. TInv'
      BY StepTypes
    <2>2. ASSUME feed # "exchange", feed' = feed, conn' = conn, imported' = imported  PROVE TradeInv'
      BY <2>2 DEF TradeInv
    <2>3. CASE feed # "exchange" /\ Next
      <3>1. feed' = feed /\ conn' = conn
        BY <2>3, OtherFeeds DEF Next
      <3>2. imported' = imported
        BY <2>3 DEF Next, syncVars
      <3> QED  BY <2>1, <2>2, <2>3, <3>1, <3>2
    <2>4. CASE feed = "exchange" /\ Next
      <3>1. SyncNext /\ UNCHANGED hookVars /\ feed' = feed
        BY <2>4 DEF Next
      <3> QED
        BY <2>1, <2>4, <3>1, LinkStepTrades, ExchangeTrades, PollStepTrades DEF SyncNext, LinkStep, BuildStep
    <2>5. CASE UNCHANGED vars
      <3>1. UNCHANGED <<feed, conn, job, lastId, placed, old, backfill, tick, claims, imported, dropped, halfway>>
        BY <2>5 DEF vars, portfolioVars, registry, syncVars, exchange
      <3>2. \A id \in 1..lastId : Gone(id) => Gone(id)'
        BY <3>1 DEF Gone, Removing, Requested
      <3>3. lastId <= lastId'
        BY <3>1 DEF TInv, WalletTypes, PortfolioTypeOK
      <3> QED  BY <2>1, <2>2, <3>1, <3>2, <3>3, BesideTrades
    <2> QED  BY <2>1, <2>3, <2>4, <2>5
  <1>3. TInv /\ TradeInv => TradesAreImportedOnce
    <2> SUFFICES ASSUME TInv, TradeInv  PROVE TradesAreImportedOnce
      OBVIOUS
    <2>1. DOMAIN imported = (1..MaxConns) \X Trades /\ conn \in Connection
          /\ (conn = NoConn <=> conn.id = 0) /\ conn.id \in Nat
      BY KeyTypes DEF TInv, SyncTypeOK, WalletTypes, PortfolioTypeOK
    <2>2. CASE feed # "exchange"
      BY <2>1, <2>2 DEF TradeInv, TradesAreImportedOnce
    <2>3. CASE feed = "exchange"
      <3>1. \A k \in DOMAIN imported : imported[k] <= 1
        BY <2>1, <2>3 DEF TradeInv, ClaimsHold
      <3>2. ASSUME conn # NoConn, ~Removing(conn.id), NEW t \in 1..conn.cursor, NEW k, k = <<conn.id, t>>
            PROVE  imported[k] = 1 \/ k \in dropped \/ Importing(k) \/ (~backfill /\ t <= old)
        <4>1. Covered(k) /\ k[1] = conn.id /\ k[2] = t
          BY <2>1, <2>3, <3>2 DEF TradeInv, CursorsHold
        <4> QED  BY <3>2, <4>1 DEF Covered, Gone
      <3> QED  BY <3>1, <3>2 DEF TradesAreImportedOnce
    <2> QED  BY <2>2, <2>3
  <1> QED  BY <1>1, <1>2, <1>3, PTL DEF Spec
-----------------------------------------------------------------------------
(* What is shown follows its sources.                                        *)

\* Requests whose job stays are handled as before.
LEMMA OthersHandled ==
    ASSUME \A d \in Clients : Handles(d), NEW c \in Clients,
           \A d \in Clients \ {c} : job'[d] = job[d], lastId \in Nat, lastId' \in Nat, lastId <= lastId',
           \A w \in wallets' : w \in wallets \/ w.id > lastId, Handles(c)'
    PROVE  \A d \in Clients : Handles(d)'
  <1>1. ASSUME NEW d \in Clients \ {c}  PROVE Handles(d)'
    BY DEF Handles
  <1> QED  BY <1>1

\* A step that leaves the sources of holdings alone.
SourcesStay ==
  /\ UNCHANGED <<wallets, lastId>> /\ (conn' = NoConn <=> conn = NoConn)

\* What users own is read off wallets and the connection.
LEMMA SourcesFacts ==
    ASSUME SourcesStay
    PROVE  \A u : WalletsOf(u)' = WalletsOf(u) /\ Linked(u)' = Linked(u)
  BY DEF SourcesStay, WalletsOf, Linked

\* Builds of such a step stay fed, unless they are new or take something in.
LEMMA StayFed ==
    ASSUME HoldingsInv, SourcesStay,
           \A b \in Clients \union Pollers :
             \/ build'[b] = build[b] \/ build'[b] = NoBuild
             \/ ~build'[b].raced => Fed(b)'
    PROVE  \A b \in Clients \union Pollers : ~build'[b].raced => Fed(b)'
  <1>1. ASSUME NEW b \in Clients \union Pollers, ~build'[b].raced  PROVE Fed(b)'
    <2>1. CASE build'[b] = build[b]
      <3>1. Fed(b)
        BY <1>1, <2>1 DEF HoldingsInv
      <3> QED  BY <2>1, <3>1, SourcesFacts DEF Fed
    <2>2. CASE build'[b] = NoBuild
      BY <2>2 DEF Fed, NoBuild
    <2> QED  BY <1>1, <2>1, <2>2
  <1> QED  BY <1>1

\* Such a step of a request that is not about to delete, and its documents.
LEMMA StayShown ==
    ASSUME HoldingsInv, SourcesStay, holdings' = holdings, lastId \in Nat,
           NEW c \in Clients, \A d \in Clients \ {c} : job'[d] = job[d], job[c].pc # "purge", Handles(c)',
           \A b \in Clients \union Pollers :
             \/ build'[b] = build[b] \/ build'[b] = NoBuild
             \/ ~build'[b].raced => Fed(b)'
    PROVE  HoldingsInv'
  <1>1. \A d \in Clients : Handles(d)'
    BY OthersHandled DEF HoldingsInv, SourcesStay
  <1>2. ASSUME NEW u \in Owners  PROVE Changing(u)' \/ Shows(u)'
    <2>1. Changing(u) => Changing(u)'
      BY DEF Changing
    <2>2. Shows(u) => Shows(u)'
      BY SourcesFacts DEF Shows
    <2> QED  BY <2>1, <2>2 DEF HoldingsInv
  <1> QED  BY <1>1, <1>2, StayFed DEF HoldingsInv

\* The steps of requests about wallets that do not touch the registry.
LEMMA WalletCallsShown ==
    ASSUME WalletTypes, HoldingsInv, NEW c \in Clients,
           \/ \E u \in Owners, a \in Supplied : AddWallet(c, u, a)
           \/ \E w \in wallets : RemoveWallet(c, w)
           \/ Register(c) \/ Subscribe(c) \/ Unregister(c) \/ Unsubscribe(c)
    PROVE  HoldingsInv'
  <1>0. lastId \in Nat /\ job \in [Clients -> Job]
    BY DEF WalletTypes, PortfolioTypeOK
  <1>1. /\ SourcesStay /\ holdings' = holdings /\ build' = build /\ job[c].pc # "purge"
        /\ \A d \in Clients \ {c} : job'[d] = job[d]
    BY <1>0 DEF AddWallet, RemoveWallet, Register, Subscribe, Unregister, Unsubscribe, Free, Then, Done,
       SourcesStay, registry
  <1>2. Handles(c)'
    <2>1. ASSUME NEW u \in Owners, NEW a \in Supplied, AddWallet(c, u, a)  PROVE Handles(c)'
      <3>1. job'[c] = [pc |-> "create", user |-> u, given |-> a, id |-> 0]
        BY <1>0, <2>1 DEF AddWallet
      <3> QED  BY <3>1 DEF Handles, OnPC, OffPC
    <2>2. ASSUME NEW w \in wallets, RemoveWallet(c, w)  PROVE Handles(c)'
      <3>1. job'[c] = [pc |-> "unregister", user |-> w.user, given |-> w.given, id |-> w.id]
        BY <1>0, <2>2 DEF RemoveWallet
      <3>2. w.id \in 1..lastId /\ \A v \in wallets : v.id = w.id => v = w
        BY DEF WalletTypes, PortfolioTypeOK
      <3> QED  BY <1>1, <3>1, <3>2 DEF Handles, OnPC, OffPC, SourcesStay
    <2>3. CASE Register(c) \/ Unregister(c) \/ Unsubscribe(c)
      <3>1. PICK pc \in {"subscribe", "unsubscribe", "delete"} :
              /\ Then(c, pc)
              /\ pc = "subscribe" => job[c].pc = "register"
              /\ pc # "subscribe" => job[c].pc \in OffPC
        BY <2>3 DEF Register, Unregister, Unsubscribe, OffPC
      <3>2. /\ job'[c].pc = pc /\ job'[c].user = job[c].user /\ job'[c].given = job[c].given
            /\ job'[c].id = job[c].id
        BY <1>0, <3>1, JobTypes DEF JobPC
      <3> QED  BY <1>1, <3>1, <3>2 DEF HoldingsInv, Handles, OnPC, OffPC, SourcesStay
    <2>4. CASE Subscribe(c)
      <3>1. job'[c] = NoJob
        BY <1>0, <2>4 DEF Subscribe, Done
      <3> QED  BY <3>1 DEF Handles, OnPC, OffPC, NoJob
    <2> QED  BY <2>1, <2>2, <2>3, <2>4
  <1> QED  BY <1>0, <1>1, <1>2, StayShown

\* A step that changes the sources of one user marks the builds that have read
\* them, and a request is about to delete his document.
LEMMA SourcesChange ==
    ASSUME WalletTypes, HoldingsInv, NEW c \in Clients, NEW u, NEW after \in SUBSET {"exchange", "upsert"},
           \A d \in Clients \ {c} : job'[d] = job[d], job[c].pc # "purge", \A d \in Clients : Handles(d)',
           job'[c].user = u, job'[c].pc = "purge", holdings' = holdings, Race(u, after), "upsert" \in after,
           \A v : v # u => WalletsOf(v)' = WalletsOf(v) /\ Linked(v)' = Linked(v),
           "exchange" \in after \/ WalletsOf(u)' = WalletsOf(u)
    PROVE  HoldingsInv'
  <1>1. ASSUME NEW v \in Owners  PROVE Changing(v)' \/ Shows(v)'
    <2>1. CASE v = u
      BY <2>1 DEF Changing
    <2>2. CASE v # u
      <3>1. Changing(v) => Changing(v)'
        BY DEF Changing
      <3>2. Shows(v) => Shows(v)'
        BY <2>2 DEF Shows
      <3> QED  BY <3>1, <3>2 DEF HoldingsInv
    <2> QED  BY <2>1, <2>2
  <1>2. ASSUME NEW b \in Clients \union Pollers, ~build'[b].raced  PROVE Fed(b)'
    <2>1. /\ build'[b].pc = build[b].pc /\ build'[b].user = build[b].user
          /\ build'[b].from = build[b].from /\ build'[b].full = build[b].full
          /\ ~build[b].raced /\ ~(build[b].user = u /\ build[b].pc \in after)
      BY <1>2, RaceFacts DEF WalletTypes, PortfolioTypeOK, Build
    <2>2. Fed(b)
      BY <2>1 DEF HoldingsInv
    <2>3. CASE build[b].user # u
      BY <2>1, <2>2, <2>3 DEF Fed
    <2>4. CASE build[b].user = u
      BY <2>1, <2>2, <2>4 DEF Fed
    <2> QED  BY <2>3, <2>4
  <1> QED  BY <1>1, <1>2 DEF HoldingsInv

\* A wallet is created or deleted.
LEMMA WalletWritesShown ==
    ASSUME WalletTypes, HoldingsInv, NEW c \in Clients, CreateWallet(c) \/ DeleteWallet(c)
    PROVE  HoldingsInv'
  <1>0. /\ lastId \in Nat /\ job \in [Clients -> Job] /\ conn' = conn /\ holdings' = holdings
        /\ job[c].pc \in {"create", "delete"} /\ Handles(c) /\ job[c].user \in Owners
        /\ \A w \in wallets : w.id \in 1..lastId
        /\ \A v, w \in wallets : v.id = w.id => v = w
    BY DEF WalletTypes, PortfolioTypeOK, CreateWallet, DeleteWallet, HoldingsInv, AtHand, OnPC, OffPC
  <1>1. CASE Done(c) /\ UNCHANGED <<wallets, lastId, build>>
    <2>1. job'[c] = NoJob /\ \A d \in Clients \ {c} : job'[d] = job[d]
      BY <1>0, <1>1, JobTypes
    <2>2. Handles(c)'
      BY <2>1 DEF Handles, OnPC, OffPC, NoJob
    <2> QED  BY <1>0, <1>1, <2>1, <2>2, StayShown DEF SourcesStay
  <1>2. CASE CreateWallet(c) /\ ~(Done(c) /\ UNCHANGED <<wallets, lastId, build>>)
    <2> DEFINE x == [id |-> lastId + 1, user |-> job[c].user, address |-> Stored[job[c].given],
                     given |-> job[c].given]
    <2>1. /\ wallets' = wallets \union {x} /\ lastId' = lastId + 1 /\ Then(c, "purge")
          /\ Race(job[c].user, {"exchange", "upsert"})
      BY <1>2 DEF CreateWallet, registry
    <2>2. /\ job'[c].pc = "purge" /\ job'[c].user = job[c].user
          /\ \A d \in Clients \ {c} : job'[d] = job[d]
      BY <1>0, <2>1, JobTypes DEF JobPC
    <2>3. Handles(c)'
      BY <2>2 DEF Handles, OnPC, OffPC
    <2>4. \A d \in Clients : Handles(d)'
      BY <1>0, <2>1, <2>2, <2>3, OthersHandled DEF HoldingsInv
    <2>5. \A v : v # job[c].user => WalletsOf(v)' = WalletsOf(v) /\ Linked(v)' = Linked(v)
      BY <1>0, <2>1 DEF WalletsOf, Linked
    <2> QED  BY <1>0, <2>1, <2>2, <2>4, <2>5, SourcesChange
  <1>3. CASE DeleteWallet(c) /\ ~(Done(c) /\ UNCHANGED <<wallets, lastId, build>>)
    <2> DEFINE mine == {w \in wallets : w.id = job[c].id}
    <2>1. /\ wallets' = wallets \ mine /\ lastId' = lastId /\ Then(c, "purge") /\ mine # {}
          /\ Race(job[c].user, {"exchange", "upsert"})
      BY <1>3 DEF DeleteWallet
    <2>2. /\ job'[c].pc = "purge" /\ job'[c].user = job[c].user
          /\ \A d \in Clients \ {c} : job'[d] = job[d]
      BY <1>0, <2>1, JobTypes DEF JobPC
    <2>3. Handles(c)'
      BY <2>2 DEF Handles, OnPC, OffPC
    <2>4. \A d \in Clients : Handles(d)'
      BY <1>0, <2>1, <2>2, <2>3, OthersHandled DEF HoldingsInv
    <2>5. \A w \in mine : w.user = job[c].user
      BY <1>0, <1>3 DEF Handles, DeleteWallet, OffPC
    <2>6. \A v : v # job[c].user => WalletsOf(v)' = WalletsOf(v) /\ Linked(v)' = Linked(v)
      BY <1>0, <2>1, <2>5 DEF WalletsOf, Linked
    <2> QED  BY <1>0, <2>1, <2>2, <2>4, <2>6, SourcesChange
  <1> QED  BY <1>1, <1>2, <1>3

\* A step that leaves jobs, documents and their sources alone.
LEMMA QuietDocuments ==
    ASSUME HoldingsInv, SourcesStay, job' = job, holdings' = holdings,
           \A b \in Clients \union Pollers :
             \/ build'[b] = build[b] \/ build'[b] = NoBuild
             \/ ~build'[b].raced => Fed(b)'
    PROVE  HoldingsInv'
  <1>1. \A d \in Clients : Handles(d)'
    BY DEF Handles, SourcesStay, HoldingsInv
  <1>2. ASSUME NEW v \in Owners  PROVE Changing(v)' \/ Shows(v)'
    <2>1. Changing(v) => Changing(v)'
      BY DEF Changing
    <2>2. Shows(v) => Shows(v)'
      BY SourcesFacts DEF Shows
    <2> QED  BY <2>1, <2>2 DEF HoldingsInv
  <1> QED  BY <1>1, <1>2, StayFed DEF HoldingsInv

\* A step that writes or deletes the document of one user.
LEMMA DocumentShown ==
    ASSUME HoldingsInv, SourcesStay, NEW u, \A d \in Clients : Handles(d)',
           \A v \in Owners : v # u => holdings'[v] = holdings[v] /\ (Changing(v) => Changing(v)'),
           u \in Owners => Shows(u)',
           \A b \in Clients \union Pollers :
             \/ build'[b] = build[b] \/ build'[b] = NoBuild
             \/ ~build'[b].raced => Fed(b)'
    PROVE  HoldingsInv'
  <1>1. ASSUME NEW v \in Owners  PROVE Changing(v)' \/ Shows(v)'
    <2>1. v # u /\ Shows(v) => Shows(v)'
      BY SourcesFacts DEF Shows
    <2> QED  BY <2>1 DEF HoldingsInv
  <1> QED  BY <1>1, StayFed DEF HoldingsInv

\* The document is deleted, or the deletion fails, or never comes.
LEMMA PurgeShown ==
    ASSUME WalletTypes, HoldingsInv, NEW c \in Clients, Purge(c) \/ ClientDies(c)
    PROVE  HoldingsInv'
  <1>u. PICK u : u = job[c].user
    OBVIOUS
  <1>0. /\ lastId \in Nat /\ job \in [Clients -> Job] /\ holdings \in [Owners -> Shown] /\ SourcesStay
        /\ build \in [Clients \union Pollers -> Build]
    BY DEF WalletTypes, PortfolioTypeOK, Purge, ClientDies, SourcesStay, registry
  <1>1. /\ \A d \in Clients \ {c} : job'[d] = job[d]
        /\ Handles(c)'
        /\ \A b \in Clients \union Pollers : build'[b] = build[b] \/ build'[b] = NoBuild
    <2>1. CASE Purge(c) /\ Then(c, "register")
      <3>1. job'[c].pc = "register" /\ job'[c].id = job[c].id /\ \A d \in Clients \ {c} : job'[d] = job[d]
        BY <1>0, <2>1, JobTypes DEF JobPC
      <3>2. job[c].id = 0
        BY <1>0, <2>1, <3>1, JobTypes DEF Purge, NoJob
      <3> QED  BY <2>1, <3>1, <3>2 DEF Handles, OnPC, OffPC, Purge
    <2>2. CASE Done(c)
      <3>1. job'[c] = NoJob /\ \A d \in Clients \ {c} : job'[d] = job[d]
        BY <1>0, <2>2, JobTypes
      <3>2. Handles(c)'
        BY <3>1 DEF Handles, OnPC, OffPC, NoJob
      <3> QED  BY <1>0, <3>1, <3>2 DEF Purge, ClientDies
    <2> QED  BY <2>1, <2>2 DEF Purge, ClientDies
  <1>2. CASE job[c].pc = "purge"
    <2>1. /\ \A v \in Owners : v # u => holdings'[v] = holdings[v]
          /\ u \in Owners => holdings'[u] = NoHoldings \/ holdings'[u].raced
      BY <1>0, <1>u, <1>2, SpoilFacts DEF Purge, ClientDies
    <2>2. u \in Owners => Shows(u)'
      BY <2>1 DEF Shows
    <2>3. \A v \in Owners : v # u => (Changing(v) => Changing(v)')
      BY <1>u, <1>1 DEF Changing
    <2>4. \A d \in Clients : Handles(d)'
      BY <1>0, <1>1, OthersHandled DEF HoldingsInv, SourcesStay
    <2> QED  BY <1>0, <1>1, <2>1, <2>2, <2>3, <2>4, DocumentShown
  <1>3. CASE job[c].pc # "purge"
    <2>1. holdings' = holdings
      BY <1>3 DEF Purge, ClientDies
    <2> QED  BY <1>0, <1>1, <1>3, <2>1, StayShown
  <1> QED  BY <1>2, <1>3

\* A build begins with nothing.
LEMMA StartFacts ==
    ASSUME build \in [Clients \union Pollers -> Build], NEW b \in Clients \union Pollers, NEW u, Start(b, u)
    PROVE  Fed(b)' /\ \A x \in (Clients \union Pollers) \ {b} : build'[x] = build[x]
  <1>1. build'[b] = [pc |-> "wallets", user |-> u, from |-> {}, full |-> TRUE, raced |-> FALSE]
        /\ \A x \in (Clients \union Pollers) \ {b} : build'[x] = build[x]
    BY DEF Start
  <1>2. build'[b].pc = "wallets" /\ build'[b].from = {}
    BY <1>1
  <1> QED  BY <1>1, <1>2 DEF Fed

\* The steps of a request for holdings before it builds any.
LEMMA ReadsShown ==
    ASSUME WalletTypes, HoldingsInv, NEW c \in Clients,
           Lists(c) \/ \E u \in Owners, refresh \in BOOLEAN : GetHoldings(c, u, refresh)
    PROVE  HoldingsInv'
  <1>0. /\ lastId \in Nat /\ job \in [Clients -> Job] /\ SourcesStay /\ holdings' = holdings
        /\ build \in [Clients \union Pollers -> Build] /\ job[c].pc # "purge"
    BY DEF WalletTypes, PortfolioTypeOK, Lists, GetHoldings, SourcesStay, registry, Free
  <1>1. CASE Lists(c)
    <2>1. job'[c] = NoJob /\ \A d \in Clients \ {c} : job'[d] = job[d]
      BY <1>0, <1>1, JobTypes DEF Lists
    <2>2. Handles(c)'
      BY <2>1 DEF Handles, OnPC, OffPC, NoJob
    <2>3. build' = build \/ (Fed(c)' /\ \A x \in (Clients \union Pollers) \ {c} : build'[x] = build[x])
      BY <1>0, <1>1, StartFacts DEF Lists
    <2> QED  BY <1>0, <2>1, <2>2, <2>3, StayShown
  <1>2. ASSUME NEW u \in Owners, NEW refresh \in BOOLEAN, GetHoldings(c, u, refresh)  PROVE HoldingsInv'
    <2>1. job'[c] = [pc |-> "lists", user |-> u, given |-> "none", id |-> 0] /\ build' = build
          /\ \A d \in Clients \ {c} : job'[d] = job[d]
      BY <1>0, <1>2 DEF GetHoldings
    <2>2. Handles(c)'
      BY <2>1 DEF Handles, OnPC, OffPC
    <2> QED  BY <1>0, <2>1, <2>2, StayShown
  <1> QED  BY <1>1, <1>2

\* The steps of a build.
LEMMA BuildShown ==
    ASSUME WalletTypes, HoldingsInv, NEW b \in Clients \union Pollers,
           FetchWallets(b) \/ FetchExchange(b) \/ Upsert(b)
    PROVE  HoldingsInv'
  <1>u. PICK u : u = build[b].user
    OBVIOUS
  <1>0. /\ lastId \in Nat /\ job' = job /\ SourcesStay /\ holdings \in [Owners -> Shown]
        /\ build \in [Clients \union Pollers -> Build] /\ build[b] \in Build
        /\ (~build[b].raced => Fed(b)) /\ (conn = NoConn <=> conn.id = 0)
        /\ WalletsOf(u)' = WalletsOf(u) /\ Linked(u)' = Linked(u)
    <2>1. SourcesStay /\ job' = job
      BY DEF FetchWallets, FetchExchange, Upsert, SourcesStay, registry
    <2>2. WalletsOf(u)' = WalletsOf(u) /\ Linked(u)' = Linked(u)
      BY <2>1, SourcesFacts
    <2> QED  BY <2>1, <2>2 DEF WalletTypes, PortfolioTypeOK, HoldingsInv
  <1>1. /\ \A d \in Clients : Handles(d)'
        /\ \A v \in Owners : Changing(v) => Changing(v)'
    <2>1. \A d \in Clients : Handles(d)'
      BY <1>0 DEF Handles, SourcesStay, HoldingsInv
    <2> QED  BY <1>0, <2>1 DEF Changing
  <1>2. CASE FetchWallets(b)
    <2>1. \/ build' = [build EXCEPT ![b].pc = "exchange", ![b].from = WalletsOf(u)]
          \/ build' = [build EXCEPT ![b].pc = "exchange", ![b].full = FALSE]
      BY <1>u, <1>2 DEF FetchWallets
    <2>2. \A x \in (Clients \union Pollers) \ {b} : build'[x] = build[x]
      BY <1>0, <2>1
    <2>3. /\ build'[b].pc = "exchange" /\ build'[b].user = u /\ build'[b].raced = build[b].raced
          /\ \/ build'[b].from = WalletsOf(u)
             \/ build'[b].from = build[b].from /\ ~build'[b].full
      BY <1>0, <1>u, <2>1 DEF Build
    <2>4. ~build'[b].raced => Fed(b)'
      BY <1>0, <1>u, <1>2, <2>3 DEF Fed, FetchWallets
    <2>5. holdings' = holdings
      BY <1>2 DEF FetchWallets
    <2> QED  BY <1>0, <1>1, <2>2, <2>4, <2>5, QuietDocuments
  <1>3. CASE FetchExchange(b)
    <2>1. \/ build' = [build EXCEPT ![b].pc = "upsert",
                         ![b].from = @ \union IF Visible(u) THEN {"coindcx"} ELSE {}]
          \/ build' = [build EXCEPT ![b].pc = "upsert"]
      BY <1>u, <1>3 DEF FetchExchange
    <2>2. \A x \in (Clients \union Pollers) \ {b} : build'[x] = build[x]
      BY <1>0, <2>1
    <2>3. /\ build'[b].pc = "upsert" /\ build'[b].user = u /\ build'[b].raced = build[b].raced
          /\ build'[b].full = build[b].full
          /\ \/ build'[b].from = build[b].from
             \/ build'[b].from = build[b].from \union IF Visible(u) THEN {"coindcx"} ELSE {}
      BY <1>0, <1>u, <2>1 DEF Build
    <2>4. (IF Visible(u) THEN {"coindcx"} ELSE {}) \subseteq Linked(u)
      BY DEF Visible, Linked, NoConn
    <2>5. ~build'[b].raced => Fed(b)'
      BY <1>0, <1>u, <1>3, <2>3, <2>4 DEF Fed, FetchExchange
    <2>6. holdings' = holdings
      BY <1>3 DEF FetchExchange
    <2> QED  BY <1>0, <1>1, <2>2, <2>5, <2>6, QuietDocuments
  <1>4. CASE Upsert(b)
    <2>1. \A x \in Clients \union Pollers : build'[x] = build[x] \/ build'[x] = NoBuild
      BY <1>0, <1>4 DEF Upsert
    <2>2. CASE holdings' = holdings
      BY <1>0, <1>1, <2>1, <2>2, QuietDocuments
    <2>3. CASE holdings' = [holdings EXCEPT ![u] = [from |-> build[b].from, fresh |-> TRUE,
                               full |-> build[b].full, raced |-> build[b].raced]]
      <3>1. \A v \in Owners : v # u => holdings'[v] = holdings[v]
        BY <1>0, <2>3
      <3>2. ASSUME u \in Owners  PROVE Shows(u)'
        <4>1. /\ holdings'[u].from = build[b].from /\ holdings'[u].full = build[b].full
              /\ holdings'[u].raced = build[b].raced
          BY <1>0, <2>3, <3>2
        <4> QED  BY <1>0, <1>u, <1>4, <4>1 DEF Shows, Fed, Upsert
      <3> QED  BY <1>0, <1>1, <2>1, <3>1, <3>2, DocumentShown
    <2> QED  BY <1>u, <1>4, <2>2, <2>3 DEF Upsert
  <1> QED  BY <1>2, <1>3, <1>4

\* A document grows old.
LEMMA AgeShown ==
    ASSUME WalletTypes, HoldingsInv, NEW u \in Owners, Age(u)
    PROVE  HoldingsInv'
  <1>1. /\ SourcesStay /\ job' = job /\ build' = build /\ holdings \in [Owners -> Shown]
        /\ holdings' = [holdings EXCEPT ![u].fresh = FALSE]
    BY DEF Age, SourcesStay, registry, WalletTypes, PortfolioTypeOK
  <1>2. \A d \in Clients : Handles(d)'
    BY <1>1 DEF Handles, SourcesStay, HoldingsInv
  <1>3. ASSUME NEW v \in Owners  PROVE Changing(v)' \/ Shows(v)'
    <2>1. Changing(v) => Changing(v)'
      BY <1>1 DEF Changing
    <2>2. /\ holdings'[v].from = holdings[v].from /\ holdings'[v].full = holdings[v].full
          /\ holdings'[v].raced = holdings[v].raced /\ (holdings[v] = NoHoldings => holdings'[v] = NoHoldings)
      <3>1. v # u => holdings'[v] = holdings[v]
        BY <1>1
      <3>2. holdings'[u] = [holdings[u] EXCEPT !.fresh = FALSE] /\ holdings[u] \in Shown
            /\ holdings[u] # NoHoldings
        BY <1>1 DEF Age, NoHoldings
      <3> QED  BY <3>1, <3>2 DEF Shown
    <2>3. Shows(v) => Shows(v)'
      BY <1>1, <2>2, SourcesFacts DEF Shows
    <2> QED  BY <2>1, <2>3 DEF HoldingsInv
  <1> QED  BY <1>1, <1>2, <1>3, StayFed DEF HoldingsInv

\* The steps of the requests.
LEMMA RequestsShown ==
    ASSUME WalletTypes, HoldingsInv, PortfolioNext
    PROVE  HoldingsInv'
  BY WalletCallsShown, WalletWritesShown, PurgeShown, ReadsShown, BuildShown, AgeShown DEF PortfolioNext

\* What a tick writes is the connection it found.
LEMMA PollWrites ==
    ASSUME TInv, NEW p \in Pollers,
           \/ Due(p) \/ Acquire(p) \/ Decrypt(p) \/ Balances(p) \/ Page(p) \/ Claim(p)
           \/ Insert(p) \/ Cursor(p) \/ Finish(p) \/ Fail(p) \/ Release(p) \/ PollerDies(p)
    PROVE  conn' = conn \/ \E c : c.id = conn.id /\ Write(p, c)
  <1> DEFINE Goal == conn' = conn \/ \E c : c.id = conn.id /\ Write(p, c)
  <1>0. conn \in Connection /\ tick[p] \in Tick
    BY TickFacts
  <1>1. CallFails(p) => Goal
    BY <1>0, CallFailsFacts DEF Kept
  <1>2. CASE Decrypt(p)
    <2>1. CASE Write(p, [conn EXCEPT !.phase = "live"])
      <3>1. PICK c : c = [conn EXCEPT !.phase = "live"]
        OBVIOUS
      <3> QED  BY <1>0, <2>1, <3>1, WrittenFacts
    <2>2. CASE Write(p, [Later(conn) EXCEPT !.status = "error"])
      <3>1. PICK c : c = [Later(conn) EXCEPT !.status = "error"]
        OBVIOUS
      <3> QED  BY <1>0, <2>2, <3>1, WrittenFacts
    <2> QED  BY <1>2, <2>1, <2>2 DEF Decrypt
  <1>3. ASSUME NEW f \in {"initial_backfill", "live", Later(conn).phase},
               Write(p, [Later(conn) EXCEPT !.phase = f])
        PROVE  Goal
    <2>1. f \in {"initial_backfill", "live"}
      BY <1>0, WrittenFacts DEF Connection
    <2>2. PICK c : c = [Later(conn) EXCEPT !.phase = f]
      OBVIOUS
    <2> QED  BY <1>0, <1>3, <2>1, <2>2, WrittenFacts
  <1>4. CASE Page(p)
    <2>1. CASE Write(p, [Later(conn) EXCEPT !.phase = IF Snap(p).phase = "initial_backfill" THEN "live" ELSE @])
      <3>1. PICK f : f = IF Snap(p).phase = "initial_backfill" THEN "live" ELSE Later(conn).phase
        OBVIOUS
      <3> QED  BY <1>3, <2>1, <3>1
    <2> QED  BY <1>1, <1>4, <2>1 DEF Page
  <1>5. CASE Finish(p)
    <2>1. PICK f : f = IF Snap(p).phase = "initial_backfill" /\ tick[p].short THEN "live" ELSE Later(conn).phase
      OBVIOUS
    <2> QED  BY <1>3, <1>5, <2>1 DEF Finish
  <1>6. CASE Cursor(p)
    <2>1. PICK c : c = [conn EXCEPT !.cursor = tick[p].top]
      OBVIOUS
    <2>2. tick[p].top \in Nat
      BY <1>0 DEF Tick
    <2> QED  BY <1>0, <1>6, <2>1, <2>2, WrittenFacts DEF Cursor
  <1>7. CASE Fail(p)
    BY <1>0, <1>7, WrittenFacts DEF Fail
  <1> QED
    BY <1>1, <1>2, <1>4, <1>5, <1>6, <1>7 DEF Due, Acquire, Balances, Claim, Insert, Release, PollerDies

\* The steps of a tick.
LEMMA PollShown ==
    ASSUME TInv, feed = "exchange", feed' = feed, UNCHANGED hookVars, HoldingsInv, NEW p \in Pollers,
           \/ Due(p) \/ Acquire(p) \/ Decrypt(p) \/ Balances(p) \/ Page(p) \/ Claim(p)
           \/ Insert(p) \/ Cursor(p) \/ Finish(p) \/ Fail(p) \/ Release(p) \/ PollerDies(p)
    PROVE  HoldingsInv'
  <1>1. UNCHANGED <<portfolioRest, holdings>>
    BY DEF Due, Acquire, Decrypt, Balances, Page, Claim, Insert, Cursor, Finish, Fail, Release, PollerDies
  <1>2. conn' = NoConn <=> conn = NoConn
    <2>1. conn' = NoConn <=> conn'.id = 0
      BY PollStepTypes DEF TInv, WalletTypes, PortfolioTypeOK
    <2>2. CASE conn' = conn
      BY <2>2
    <2>3. ASSUME NEW c, c.id = conn.id, Write(p, c)  PROVE <1>2!:
      BY <2>1, <2>3, TickFacts DEF Write
    <2> QED  BY <2>2, <2>3, PollWrites
  <1>3. \A b \in Clients \union Pollers :
          \/ build'[b] = build[b] \/ build'[b] = NoBuild
          \/ ~build'[b].raced => Fed(b)'
    <2>1. CASE build' = build
      BY <2>1
    <2>2. CASE Start(p, Holder)
      BY <2>2, StartFacts, TickFacts
    <2>3. CASE build' = [build EXCEPT ![p] = NoBuild]
      BY <2>3, TickFacts
    <2> QED
      BY <2>1, <2>2, <2>3 DEF Due, Acquire, Decrypt, Balances, Page, Claim, Insert, Cursor, Finish, Fail,
         Release, PollerDies
  <1>4. SourcesStay /\ job' = job /\ holdings' = holdings
    BY <1>1, <1>2 DEF SourcesStay, portfolioRest, registry
  <1> QED  BY <1>3, <1>4, QuietDocuments

\* The steps of the requests about the connection.
LEMMA LinksShown ==
    ASSUME TInv, HoldingsInv, NEW c \in Clients, LinkStep(c)
    PROVE  HoldingsInv'
  <1>0. /\ WalletTypes /\ lastId \in Nat /\ job \in [Clients -> Job] /\ conn \in Connection
        /\ Handles(c) /\ (conn = NoConn <=> conn.id = 0) /\ AtHand(c) /\ Holder \in Owners
    BY ConstantTypes DEF TInv, WalletTypes, PortfolioTypeOK, HoldingsInv
  <1>1. CASE Link(c) \/ Patch(c) \/ RemoveConnection(c)
    <2>1. PICK pc, id : pc \in {"link", "patch", "events"} /\ Request(c, pc, id)
      BY <1>1 DEF Link, Patch, RemoveConnection
    <2>2. /\ job'[c] = [pc |-> pc, user |-> Holder, given |-> "none", id |-> id]
          /\ \A d \in Clients \ {c} : job'[d] = job[d]
      BY <1>0, <2>1 DEF Request
    <2>3. SourcesStay /\ UNCHANGED <<holdings, build>> /\ job[c].pc # "purge"
      BY <1>1 DEF Link, Patch, RemoveConnection, SourcesStay, requestRest, Free
    <2>4. Handles(c)'
      BY <2>1, <2>2 DEF Handles, OnPC, OffPC
    <2> QED  BY <1>0, <2>2, <2>3, <2>4, StayShown
  <1>2. CASE CreateConnection(c)
    <2>1. /\ job'[c] = NoJob /\ \A d \in Clients \ {c} : job'[d] = job[d]
          /\ lastId' = lastId + 1 /\ conn' # NoConn /\ UNCHANGED <<wallets, holdings, build>>
          /\ job[c].pc = "link"
      BY <1>0, <1>2, JobTypes DEF CreateConnection, Requested, requestRest, NewConn, NoConn
    <2>2. Handles(c)'
      BY <2>1 DEF Handles, OnPC, OffPC, NoJob
    <2>3. \A d \in Clients : Handles(d)'
      BY <1>0, <2>1, <2>2, OthersHandled DEF HoldingsInv
    <2>4. \A u : WalletsOf(u)' = WalletsOf(u) /\ Linked(u) \subseteq Linked(u)'
      BY <2>1 DEF WalletsOf, Linked
    <2>5. \A b \in Clients \union Pollers : ~build'[b].raced => Fed(b)'
      BY <2>1, <2>4 DEF HoldingsInv, Fed
    <2>6. ASSUME NEW u \in Owners  PROVE Changing(u)' \/ Shows(u)'
      <3>1. Changing(u) => Changing(u)'
        BY <2>1 DEF Changing
      <3>2. Shows(u) => Shows(u)'
        BY <2>1, <2>4 DEF Shows
      <3> QED  BY <3>1, <3>2 DEF HoldingsInv
    <2> QED  BY <2>3, <2>5, <2>6 DEF HoldingsInv
  <1>3. CASE PatchConnection(c)
    <2>1. /\ job'[c] = NoJob /\ \A d \in Clients \ {c} : job'[d] = job[d]
          /\ UNCHANGED <<wallets, lastId, holdings, build>> /\ job[c].pc # "purge"
      BY <1>0, <1>3, JobTypes DEF PatchConnection, Requested, requestRest
    <2>2. Handles(c)'
      BY <2>1 DEF Handles, OnPC, OffPC, NoJob
    <2>3. conn' = NoConn <=> conn = NoConn
      <3>1. CASE conn # NoConn
        <4>1. PICK y : y = [conn EXCEPT !.key = job[c].id, !.status = "active"]
          OBVIOUS
        <4>2. y.id = conn.id /\ conn' = y
          BY <1>0, <1>3, <3>1, <4>1 DEF PatchConnection, Connection
        <4> QED  BY <1>0, <3>1, <4>2 DEF NoConn
      <3> QED  BY <1>3, <3>1 DEF PatchConnection
    <2> QED  BY <1>0, <2>1, <2>2, <2>3, StayShown DEF SourcesStay
  <1>4. CASE DeleteEvents(c)
    <2>1. /\ job'[c].pc = "connection" /\ job'[c].user = job[c].user
          /\ \A d \in Clients \ {c} : job'[d] = job[d]
      BY <1>0, <1>4, JobTypes DEF DeleteEvents, JobPC
    <2>2. job[c].pc = "events" /\ SourcesStay /\ UNCHANGED <<holdings, build>>
      BY <1>4 DEF DeleteEvents, Requested, SourcesStay, registry
    <2>3. Handles(c)'
      BY <1>0, <2>1, <2>2 DEF Handles, OnPC, OffPC
    <2> QED  BY <1>0, <2>1, <2>2, <2>3, StayShown
  <1>5. CASE DeleteConnection(c)
    <2>0. job[c].pc = "connection" /\ job[c].user = Holder /\ holdings' = holdings
          /\ UNCHANGED <<wallets, lastId>>
      BY <1>0, <1>5 DEF DeleteConnection, Requested, Handles, requestRest
    <2>1. CASE conn.id = job[c].id
      <3>1. conn' = NoConn /\ Then(c, "purge") /\ Race(Holder, {"upsert"})
        BY <1>5, <2>1 DEF DeleteConnection
      <3>2. /\ job'[c].pc = "purge" /\ job'[c].user = Holder
            /\ \A d \in Clients \ {c} : job'[d] = job[d]
        BY <1>0, <2>0, <3>1, JobTypes DEF JobPC
      <3>3. Handles(c)'
        BY <3>2 DEF Handles, OnPC, OffPC
      <3>4. \A d \in Clients : Handles(d)'
        BY <1>0, <2>0, <3>2, <3>3, OthersHandled DEF HoldingsInv
      <3>5. /\ \A u : WalletsOf(u)' = WalletsOf(u)
            /\ \A u : u # Holder => Linked(u)' = Linked(u)
        BY <2>0 DEF WalletsOf, Linked
      <3> QED  BY <1>0, <2>0, <3>1, <3>2, <3>4, <3>5, SourcesChange
    <2>2. CASE conn.id # job[c].id
      <3>1. job'[c] = NoJob /\ (\A d \in Clients \ {c} : job'[d] = job[d]) /\ UNCHANGED <<conn, build>>
        BY <1>0, <1>5, <2>2, JobTypes DEF DeleteConnection
      <3>2. Handles(c)'
        BY <3>1 DEF Handles, OnPC, OffPC, NoJob
      <3> QED  BY <1>0, <2>0, <3>1, <3>2, StayShown DEF SourcesStay
    <2> QED  BY <2>1, <2>2
  <1>6. CASE RequestDies(c)
    BY <1>0, <1>6, PurgeShown DEF RequestDies
  <1> QED  BY <1>1, <1>2, <1>3, <1>4, <1>5, <1>6 DEF LinkStep

\* Every step of the exchange's behaviours.
LEMMA ExchangeShown ==
    ASSUME TInv, feed = "exchange", feed' = feed, SyncNext, UNCHANGED hookVars, HoldingsInv
    PROVE  HoldingsInv'
  <1>0. WalletTypes
    BY DEF TInv
  <1>1. CASE PlaceTrade \/ ReplaceKey \/ BecomesDue \/ LockExpires
    <2>1. UNCHANGED <<portfolioRest, holdings, build>>
      BY <1>1 DEF PlaceTrade, ReplaceKey, BecomesDue, LockExpires
    <2>2. conn' = NoConn <=> conn = NoConn
      <3>1. CASE BecomesDue
        <4>1. PICK y : y = [conn EXCEPT !.due = TRUE]
          OBVIOUS
        <4>2. y.id = conn.id /\ conn' = y /\ conn.id # 0 /\ conn # NoConn
          BY <1>0, <3>1, <4>1 DEF BecomesDue, Connection, WalletTypes, PortfolioTypeOK
        <4> QED  BY <4>2 DEF NoConn
      <3> QED  BY <1>1, <3>1 DEF PlaceTrade, ReplaceKey, LockExpires
    <2>3. SourcesStay /\ job' = job
      BY <2>1, <2>2 DEF SourcesStay, portfolioRest, registry
    <2> QED  BY <2>1, <2>3, QuietDocuments
  <1> QED
    BY <1>0, <1>1, PollShown, BuildShown, LinksShown, PurgeShown DEF SyncNext, LinkStep

\* The steps of the webhooks and their flushes, which read all sources where
\* the exchange is on.
LEMMA WebhooksShown ==
    ASSUME ExchangeOn, TInv, IngestNext, HoldingsInv
    PROVE  HoldingsInv'
  <1>0. WalletTypes /\ IngestTypeOK /\ build \in [Clients \union Pollers -> Build]
        /\ Flushers \subseteq Pollers
    BY IngestAssumption DEF TInv, WalletTypes, PortfolioTypeOK
  <1>1. ASSUME UNCHANGED portfolioStill,
               \A b \in Clients \union Pollers :
                 \/ build'[b] = build[b] \/ build'[b] = NoBuild
                 \/ ~build'[b].raced => Fed(b)'
        PROVE  HoldingsInv'
    <2>1. SourcesStay /\ job' = job /\ holdings' = holdings
      BY <1>1 DEF SourcesStay, portfolioStill, registry
    <2> QED  BY <1>1, <2>1, QuietDocuments
  <1>2. ASSUME NEW c \in Clients, WalletsChange(c)  PROVE HoldingsInv'
    <2>1. WalletStep(c)
      BY <1>2, ConstantTypes DEF WalletsChange, WalletStep
    <2> QED  BY <1>0, <2>1, WalletCallsShown, WalletWritesShown, PurgeShown DEF WalletStep
  <1>3. ASSUME NEW h \in Hooks, (\E d \in Deliveries : Deliver(h, d)) \/ Find(h) \/ ClaimKey(h)
        PROVE  HoldingsInv'
    BY <1>0, <1>1, <1>3, HookStepTypes
  <1>4. ASSUME NEW f \in Flushers, (\E c \in Chains : Flush(f, c)) \/ Enrich(f) \/ Save(f)
        PROVE  HoldingsInv'
    <2>1. UNCHANGED portfolioStill
      BY <1>0, <1>4, FlushStepTypes
    <2>2. build' = build \/ Start(f, FlushUser(f))
      BY <1>4 DEF Flush, Enrich, Save
    <2> QED  BY <1>0, <1>1, <2>1, <2>2, StartFacts
  <1>5. CASE IngestDies
    BY <1>0, <1>1, <1>5 DEF IngestDies
  <1>6. CASE \/ \E u \in Owners : ListUnsettled(u)
             \/ \E d \in scan.todo : WriteStatus(d) \/ \E s \in Statuses : AskReceipt(d, s)
    <2>1. UNCHANGED portfolioStill /\ build' = build
      BY <1>6 DEF ListUnsettled, WriteStatus, AskReceipt
    <2> QED  BY <1>1, <2>1
  <1> QED  BY <1>0, <1>2, <1>3, <1>4, <1>5, <1>6, BuildShown DEF IngestNext

\* To begin with nothing is shown and nothing under way.
LEMMA InitShown ==
    ASSUME Init  PROVE HoldingsInv
  <1>1. /\ \A c \in Clients : job[c] = NoJob
        /\ \A b \in Clients \union Pollers : build[b] = NoBuild
        /\ \A u \in Owners : holdings[u] = NoHoldings
    BY DEF Init, PortfolioInit
  <1>2. \A c \in Clients : Handles(c)
    BY <1>1 DEF Handles, NoJob, OnPC, OffPC
  <1>3. \A b \in Clients \union Pollers : Fed(b)
    BY <1>1 DEF Fed, NoBuild
  <1> QED  BY <1>1, <1>2, <1>3 DEF HoldingsInv, Shows

\* A step of any feed, or none.
LEMMA StepShown ==
    ASSUME ExchangeOn, TInv, HoldingsInv, [Next]_vars  PROVE HoldingsInv'
  <1>1. CASE feed = "requests" /\ Next
    BY <1>1, RequestsShown DEF Next, TInv
  <1>2. CASE feed = "exchange" /\ Next
    BY <1>2, ExchangeShown DEF Next
  <1>3. CASE feed = "webhooks" /\ Next
    BY <1>3, WebhooksShown DEF Next
  <1>4. CASE UNCHANGED vars
    <2>1. SourcesStay /\ UNCHANGED <<job, holdings, build>>
      BY <1>4 DEF vars, portfolioVars, registry, SourcesStay
    <2> QED  BY <2>1, QuietDocuments
  <1> QED  BY <1>1, <1>2, <1>3, <1>4 DEF Next

\* What a user is shown was built from exactly the wallets he has, and from no
\* exchange he unlinked, however requests, ticks, flushes and changes of wallets
\* interleave - where the exchange is on, so that every writer of the document
\* reads all its sources.
THEOREM HoldingsFollow == ASSUME ExchangeOn PROVE Spec => []HoldingsFollowSources
  <1>1. Init => TInv /\ HoldingsInv
    BY InitTypes, InitShown
  <1>2. TInv /\ HoldingsInv /\ [Next]_vars => TInv' /\ HoldingsInv'
    BY StepTypes, StepShown
  <1>3. HoldingsInv => HoldingsFollowSources
    BY DEF HoldingsInv, HoldingsFollowSources, Shows, Changing
  <1> QED  BY <1>1, <1>2, <1>3, PTL DEF Spec
-----------------------------------------------------------------------------
(* The providers watch what is registered.                                   *)

\* An address that no step of this transition is about stays as it was.
LEMMA StaysWatched ==
    ASSUME NEW a \in Supplied, WatchFine(a), missed \subseteq missed', zerionId' = zerionId,
           a \in notify' <=> a \in notify, a \in zerion' <=> a \in zerion,
           Registered(a)' <=> Registered(a), \A w \in wallets : w.given = a => w \in wallets',
           \A d \in Clients : \/ job'[d] = job[d]
                              \/ job'[d].given # a /\ (job[d].given # a \/ job[d].pc \notin OffPC \union OnPC \union {"purge"})
    PROVE  WatchFine(a)'
  <1> SUFFICES ASSUME a \notin missed'  PROVE WatchFine(a)'
    BY DEF WatchFine
  <1>1. a \notin missed
    OBVIOUS
  <1>2. \A d \in Clients : job'[d] = job[d] \/ (job'[d].given # a /\ job[d].given # a)
    BY <1>1 DEF WatchFine, Midway
  <1>3. ASSUME NEW d \in Clients, job'[d].given = a  PROVE Midway(d, a)'
    <2>1. job'[d] = job[d] /\ Midway(d, a)
      BY <1>1, <1>2, <1>3 DEF WatchFine
    <2> QED  BY <2>1 DEF Midway
  <1>4. (\A d \in Clients : job'[d].given # a) => Agrees(a)'
    <2>1. (\A d \in Clients : job'[d].given # a) => Agrees(a)
      BY <1>1, <1>2 DEF WatchFine
    <2> QED  BY <2>1 DEF Agrees
  <1>5. \A d, e \in Clients : job'[d].given = a /\ job'[e].given = a => d = e
    BY <1>1, <1>2 DEF WatchFine
  <1> QED  BY <1>3, <1>4, <1>5 DEF WatchFine

\* The address of one request: nobody else handles it, and it is on its way.
LEMMA WatchOne ==
    ASSUME NEW a \in Supplied, NEW c \in Clients, \A d \in Clients \ {c} : job'[d].given # a,
           job'[c].given = a => Midway(c, a)', job'[c].given # a => Agrees(a)'
    PROVE  WatchFine(a)'
  BY DEF WatchFine

\* Whoever handles an address that nothing was missed of is alone.
LEMMA WatchAlone ==
    ASSUME NEW a \in Supplied, WatchFine(a), a \notin missed, NEW c \in Clients, job[c].given = a
    PROVE  Midway(c, a) /\ \A d \in Clients \ {c} : job[d].given # a
  BY DEF WatchFine

\* An address that a request begins to handle: nobody else does, or it counts
\* as missed.
LEMMA BeginWatch ==
    ASSUME LowerCase, NEW a \in Supplied, WatchFine(a), NEW c \in Clients, Free(c), Entangle(c, a),
           a \notin missed', \A d \in Clients \ {c} : job'[d] = job[d]
    PROVE  Agrees(a) /\ \A d \in Clients \ {c} : job'[d].given # a
  <1>1. a \notin missed /\ \A d \in Clients \ {c} : job[d].given # a
    <2>1. a \notin missed
      BY DEF Entangle
    <2>2. ASSUME NEW d \in Clients \ {c}, job[d].given = a  PROVE FALSE
      BY <2>2 DEF Entangle, LowerCase
    <2> QED  BY <2>1, <2>2
  <1>2. job[c].given # a
    BY <1>1, WatchAlone DEF Midway, Free, OnPC, OffPC
  <1> QED  BY <1>1, <1>2 DEF WatchFine

\* addWallet, removeWallet.
LEMMA BeginsWatched ==
    ASSUME LowerCase, WalletTypes, WatchInv, NEW c \in Clients,
           \/ \E u \in Owners, a \in Supplied : AddWallet(c, u, a)
           \/ \E w \in wallets : RemoveWallet(c, w)
    PROVE  WatchInv'
  <1>0. job \in [Clients -> Job] /\ UNCHANGED <<wallets, notify, zerion, zerionId>> /\ Free(c)
    BY DEF WalletTypes, PortfolioTypeOK, AddWallet, RemoveWallet, registry, providers
  <1>1. ASSUME NEW g \in Supplied, Entangle(c, g), job'[c].given = g, \A d \in Clients \ {c} : job'[d] = job[d],
               Agrees(g) /\ g \notin missed' => Midway(c, g)'
        PROVE  WatchInv'
    <2>1. WatchFine(g)'
      <3>1. CASE g \in missed'
        BY <3>1 DEF WatchFine
      <3>2. CASE g \notin missed'
        BY <1>0, <1>1, <3>2, BeginWatch, WatchOne DEF WatchInv
      <3> QED  BY <3>1, <3>2
    <2>2. ASSUME NEW a \in Supplied, a # g  PROVE WatchFine(a)'
      <3>1. missed \subseteq missed' /\ (Registered(a)' <=> Registered(a))
        BY <1>0, <1>1 DEF Entangle, Registered
      <3>2. \A d \in Clients : \/ job'[d] = job[d]
                               \/ job'[d].given # a /\ job[d].pc \notin OffPC \union OnPC \union {"purge"}
        BY <1>0, <1>1, <2>2 DEF Free, OnPC, OffPC
      <3> QED  BY <1>0, <3>1, <3>2, StaysWatched DEF WatchInv
    <2> QED  BY <2>1, <2>2 DEF WatchInv
  <1>2. ASSUME NEW u \in Owners, NEW a \in Supplied, AddWallet(c, u, a)  PROVE WatchInv'
    <2>1. job'[c] = [pc |-> "create", user |-> u, given |-> a, id |-> 0]
          /\ (\A d \in Clients \ {c} : job'[d] = job[d]) /\ Entangle(c, Stored[a]) /\ Stored[a] = a
      BY <1>0, <1>2 DEF AddWallet, LowerCase
    <2>2. ~Registered(a) /\ ~Registered(a)'
      BY <1>0, <1>2 DEF AddWallet, Registered
    <2>3. Agrees(a) => Midway(c, a)'
      BY <1>0, <2>1, <2>2 DEF Agrees, Midway, OnPC, OffPC
    <2> QED  BY <1>1, <2>1, <2>3
  <1>3. ASSUME NEW w \in wallets, RemoveWallet(c, w)  PROVE WatchInv'
    <2>0. PICK a \in Supplied : w.given = a /\ w.address = a /\ w.id > 0
      BY DEF WalletTypes, PortfolioTypeOK, LowerCase
    <2>1. job'[c] = [pc |-> "unregister", user |-> w.user, given |-> a, id |-> w.id]
          /\ (\A d \in Clients \ {c} : job'[d] = job[d]) /\ Entangle(c, a) /\ Stored[a] = a
      BY <1>0, <1>3, <2>0 DEF RemoveWallet, LowerCase
    <2>2. Registered(a) /\ Registered(a)' /\ w \in wallets'
      BY <1>0, <2>0, <2>1 DEF Registered
    <2>3. Agrees(a) => Midway(c, a)'
      BY <1>0, <2>0, <2>1, <2>2 DEF Agrees, Midway, OnPC, OffPC
    <2> QED  BY <1>1, <2>1, <2>3
  <1> QED  BY <1>2, <1>3

\* The calls of the providers about an address.
LEMMA ProvidersWatched ==
    ASSUME LowerCase, WalletTypes, WatchInv, NEW c \in Clients,
           Register(c) \/ Subscribe(c) \/ Unregister(c) \/ Unsubscribe(c)
    PROVE  WatchInv'
  <1>0. /\ job \in [Clients -> Job] /\ UNCHANGED <<wallets, zerionId>>
        /\ job[c].pc \in OnPC \union OffPC /\ job[c].given \in Supplied /\ zerionId \in BOOLEAN
    BY DEF WalletTypes, PortfolioTypeOK, AtHand, OnPC, OffPC, Register, Subscribe, Unregister, Unsubscribe,
       registry
  <1>1. PICK g \in Supplied : g = job[c].given
    BY <1>0
  <1>2. Stored[g] = g
    BY DEF LowerCase
  <1>3. \/ /\ missed' = missed /\ job[c].pc = "register" /\ notify' = notify \union {g} /\ zerion' = zerion
        \/ /\ missed' = missed /\ job[c].pc = "subscribe" /\ notify' = notify /\ zerion' = zerion \union {g}
        \/ /\ missed' = missed /\ job[c].pc = "unregister" /\ notify' = notify \ {g} /\ zerion' = zerion
        \/ /\ missed' = missed /\ job[c].pc = "unsubscribe" /\ notify' = notify /\ zerion' = zerion \ {g}
        \/ /\ missed' = missed \union {g} /\ notify' = notify /\ zerion' = zerion
    BY <1>1, <1>2 DEF Register, Subscribe, Unregister, Unsubscribe, UpdateWebhook, PatchSubscription, Miss
  <1>4. /\ \A d \in Clients \ {c} : job'[d] = job[d]
        /\ \/ job[c].pc = "register" /\ job'[c].pc = "subscribe" /\ job'[c].given = g /\ job'[c].id = job[c].id
           \/ job[c].pc = "subscribe" /\ job'[c].given = "none"
           \/ job[c].pc = "unregister" /\ job'[c].pc = "unsubscribe" /\ zerionId /\ job'[c].given = g
                /\ job'[c].id = job[c].id
           \/ job[c].pc = "unregister" /\ job'[c].pc = "delete" /\ ~zerionId /\ job'[c].given = g
                /\ job'[c].id = job[c].id
           \/ job[c].pc = "unsubscribe" /\ job'[c].pc = "delete" /\ job'[c].given = g /\ job'[c].id = job[c].id
    <2>1. CASE Subscribe(c)
      BY <1>0, <2>1, JobTypes DEF Subscribe, NoJob
    <2>2. CASE Register(c)
      BY <1>0, <1>1, <2>2, JobTypes DEF Register, JobPC
    <2>3. CASE Unregister(c) /\ zerionId
      <3>1. Then(c, "unsubscribe") /\ job[c].pc = "unregister"
        BY <2>3 DEF Unregister
      <3> QED  BY <1>0, <1>1, <2>3, <3>1, JobTypes DEF JobPC
    <2>4. CASE Unregister(c) /\ ~zerionId
      <3>1. Then(c, "delete") /\ job[c].pc = "unregister"
        BY <2>4 DEF Unregister
      <3> QED  BY <1>0, <1>1, <2>4, <3>1, JobTypes DEF JobPC
    <2>5. CASE Unsubscribe(c)
      BY <1>0, <1>1, <2>5, JobTypes DEF Unsubscribe, JobPC
    <2> QED  BY <2>1, <2>2, <2>3, <2>4, <2>5
  <1>5. ASSUME NEW a \in Supplied, a # g  PROVE WatchFine(a)'
    <2>1. /\ missed \subseteq missed' /\ (Registered(a)' <=> Registered(a))
          /\ (a \in notify' <=> a \in notify) /\ (a \in zerion' <=> a \in zerion)
      BY <1>0, <1>3, <1>5 DEF Registered
    <2>2. \A d \in Clients : job'[d] = job[d] \/ (job'[d].given # a /\ job[d].given # a)
      BY <1>1, <1>4, <1>5, PortfolioAssumption
    <2> QED  BY <1>0, <2>1, <2>2, StaysWatched DEF WatchInv
  <1>6. WatchFine(g)'
    <2>1. CASE g \in missed'
      BY <2>1 DEF WatchFine
    <2>2. CASE g \notin missed'
      <3>1. Midway(c, g) /\ (\A d \in Clients \ {c} : job'[d].given # g) /\ missed' = missed
        BY <1>1, <1>3, <1>4, <2>2, WatchAlone DEF WatchInv
      <3>2. Registered(g)' <=> Registered(g)
        BY <1>0 DEF Registered
      <3>3. g # "none"
        BY PortfolioAssumption
      <3>4. CASE job[c].pc = "register"
        <4>1. /\ g \in notify' /\ job'[c].pc = "subscribe" /\ job'[c].given = g /\ Registered(g)'
          BY <1>3, <1>4, <2>2, <3>1, <3>2, <3>4 DEF Midway
        <4>2. Midway(c, g)'
          BY <4>1 DEF Midway, OnPC, OffPC
        <4> QED  BY <3>1, <4>1, <4>2, WatchOne
      <3>5. CASE job[c].pc = "subscribe"
        <4>1. g \in notify' /\ g \in zerion' /\ Registered(g)' /\ job'[c].given = "none"
          BY <1>3, <1>4, <2>2, <3>1, <3>2, <3>5 DEF Midway
        <4> QED  BY <3>1, <3>3, <4>1, WatchOne DEF Agrees
      <3>6. CASE job[c].pc = "unregister"
        <4>1. /\ g \notin notify' /\ Registered(g)' /\ job'[c].given = g /\ job'[c].id = job[c].id
              /\ (job'[c].pc = "unsubscribe" \/ (job'[c].pc = "delete" /\ ~zerionId))
              /\ \E w \in wallets : w.id = job[c].id /\ w.given = g
          BY <1>3, <1>4, <2>2, <3>1, <3>2, <3>6 DEF Midway, OffPC
        <4>2. Midway(c, g)'
          BY <1>0, <4>1 DEF Midway, OnPC, OffPC
        <4> QED  BY <3>1, <4>1, <4>2, WatchOne
      <3>7. CASE job[c].pc = "unsubscribe"
        <4>1. /\ g \notin notify' /\ g \notin zerion' /\ Registered(g)' /\ job'[c].given = g
              /\ job'[c].id = job[c].id /\ job'[c].pc = "delete"
              /\ \E w \in wallets : w.id = job[c].id /\ w.given = g
          BY <1>3, <1>4, <2>2, <3>1, <3>2, <3>7 DEF Midway, OffPC
        <4>2. Midway(c, g)'
          BY <1>0, <4>1 DEF Midway, OnPC, OffPC
        <4> QED  BY <3>1, <4>1, <4>2, WatchOne
      <3> QED  BY <1>4, <3>4, <3>5, <3>6, <3>7
    <2> QED  BY <2>1, <2>2
  <1> QED  BY <1>5, <1>6 DEF WatchInv

\* A wallet is created or deleted; an address that gets past the check of
\* addWallet and is not missed is not registered.
LEMMA WritesWatched ==
    ASSUME LowerCase, WalletTypes, HoldingsInv, WatchInv, NEW c \in Clients, CreateWallet(c) \/ DeleteWallet(c)
    PROVE  WatchInv'
  <1>0. /\ job \in [Clients -> Job] /\ UNCHANGED <<notify, zerion, zerionId, missed>>
        /\ job[c].pc \in {"create", "delete"} /\ job[c].given \in Supplied /\ Handles(c)
        /\ job[c].id \in Nat
        /\ \A w \in wallets : w.address = w.given /\ w.id \in Nat
        /\ \A v, w \in wallets : v.address = w.address \/ v.id = w.id => v = w
    BY DEF WalletTypes, PortfolioTypeOK, AtHand, OnPC, OffPC, CreateWallet, DeleteWallet, providers, LowerCase,
       HoldingsInv, Job
  <1>1. PICK g \in Supplied : g = job[c].given
    BY <1>0
  <1>2. Stored[g] = g /\ \A a \in Supplied : Stored[a] = a
    BY DEF LowerCase
  <1>3. \/ Done(c) /\ wallets' = wallets
           /\ \/ job[c].pc = "create" /\ \E w \in wallets : w.address = g
              \/ job[c].pc = "delete" /\ \A w \in wallets : w.id # job[c].id
        \/ /\ Then(c, "purge") /\ job[c].pc = "create"
           /\ \E w : w.address = g /\ w.given = g /\ wallets' = wallets \union {w}
        \/ /\ Then(c, "purge") /\ job[c].pc = "delete" /\ wallets' = wallets \ {w \in wallets : w.id = job[c].id}
    <2>1. CASE CreateWallet(c) /\ Done(c) /\ wallets' = wallets /\ \E w \in wallets : w.address = g
      BY <1>1, <1>2, <2>1 DEF CreateWallet
    <2>2. CASE CreateWallet(c) /\ ~ \E w \in wallets : w.address = g
      <3> DEFINE x == [id |-> lastId + 1, user |-> job[c].user, address |-> g, given |-> g]
      <3>1. wallets' = wallets \union {x} /\ Then(c, "purge") /\ job[c].pc = "create"
        BY <1>1, <1>2, <2>2 DEF CreateWallet
      <3>2. x.address = g /\ x.given = g
        OBVIOUS
      <3> HIDE DEF x
      <3> QED  BY <3>1, <3>2
    <2>3. CASE DeleteWallet(c)
      BY <2>3 DEF DeleteWallet
    <2> QED  BY <1>1, <1>2, <2>1, <2>2, <2>3 DEF CreateWallet, registry
  <1>4. /\ \A d \in Clients \ {c} : job'[d] = job[d]
        /\ Done(c) => job'[c] = NoJob
        /\ Then(c, "purge") => job'[c].pc = "purge" /\ job'[c].given = g /\ job'[c].id = job[c].id
    BY <1>0, <1>1, <1>3, JobTypes DEF JobPC
  <1>5. ASSUME NEW a \in Supplied, a # g  PROVE WatchFine(a)'
    <2>1. job[c].pc = "delete" => \A w \in wallets : w.id = job[c].id => w.given = g
      BY <1>0, <1>1 DEF Handles, OffPC
    <2>2. (Registered(a)' <=> Registered(a)) /\ \A w \in wallets : w.given = a => w \in wallets'
      BY <1>0, <1>2, <1>3, <1>5, <2>1 DEF Registered
    <2>3. \A d \in Clients : job'[d] = job[d] \/ (job'[d].given # a /\ job[d].given # a)
      BY <1>1, <1>3, <1>4, <1>5, PortfolioAssumption DEF NoJob
    <2> QED  BY <1>0, <2>2, <2>3, StaysWatched DEF WatchInv
  <1>6. WatchFine(g)'
    <2>1. CASE g \in missed
      BY <1>0, <2>1 DEF WatchFine
    <2>2. CASE g \notin missed
      <3>1. Midway(c, g) /\ (\A d \in Clients \ {c} : job'[d].given # g)
        BY <1>1, <1>4, <2>2, WatchAlone DEF WatchInv
      <3>2. ~Done(c) \/ ~(wallets' = wallets) \/ Then(c, "purge")
        BY <1>0, <1>2, <1>3, <3>1 DEF Midway, Registered, OffPC
      <3>3. CASE job[c].pc = "create"
        <4>1. /\ g \notin notify' /\ job'[c].pc = "purge" /\ job'[c].given = g /\ job'[c].id = 0
              /\ Registered(g)'
          BY <1>0, <1>2, <1>3, <1>4, <3>1, <3>3 DEF Midway, Registered, Handles, OnPC
        <4>2. Midway(c, g)'
          BY <4>1 DEF Midway, OnPC, OffPC
        <4> QED  BY <3>1, <4>1, <4>2, WatchOne
      <3>4. CASE job[c].pc = "delete"
        <4>1. PICK w \in wallets : w.id = job[c].id /\ w.given = g
          BY <3>1, <3>4 DEF Midway, OffPC
        <4>2. Then(c, "purge") /\ wallets' = wallets \ {v \in wallets : v.id = job[c].id}
          BY <1>3, <3>4, <4>1
        <4>3. \A v \in wallets : v.address = g => v = w
          BY <1>0, <4>1
        <4>4. ~Registered(g)'
          BY <1>2, <4>1, <4>2, <4>3 DEF Registered
        <4>5. job[c].id # 0
          BY <3>4, <1>0 DEF Handles, OffPC
        <4>6. /\ g \notin notify' /\ (zerionId' => g \notin zerion') /\ job'[c].pc = "purge"
              /\ job'[c].given = g /\ job'[c].id # 0
          BY <1>0, <1>4, <3>1, <3>4, <4>2, <4>5 DEF Midway
        <4>7. Midway(c, g)'
          BY <4>4, <4>6 DEF Midway, OnPC, OffPC
        <4> QED  BY <3>1, <4>6, <4>7, WatchOne
      <3> QED  BY <1>0, <3>3, <3>4
    <2> QED  BY <2>1, <2>2
  <1> QED  BY <1>5, <1>6 DEF WatchInv

\* The holdings are deleted: addWallet goes on to the providers, removeWallet
\* is done.
LEMMA PurgeWatched ==
    ASSUME WalletTypes, WatchInv, NEW c \in Clients, Purge(c)
    PROVE  WatchInv'
  <1>0. /\ job \in [Clients -> Job] /\ UNCHANGED <<wallets, notify, zerion, zerionId, missed>>
        /\ job[c].pc = "purge"
    BY DEF WalletTypes, PortfolioTypeOK, Purge, registry, providers
  <1>1. /\ \A d \in Clients \ {c} : job'[d] = job[d]
        /\ \/ job[c].id # 0 /\ job'[c] = NoJob
           \/ /\ job[c].id = 0 /\ job'[c].pc = "register" /\ job'[c].given = job[c].given
    <2>1. CASE job[c].id = 0
      <3>1. Then(c, "register")
        BY <2>1 DEF Purge
      <3> QED  BY <1>0, <2>1, <3>1, JobTypes DEF JobPC
    <2>2. CASE job[c].id # 0
      <3>1. Done(c)
        BY <2>2 DEF Purge
      <3> QED  BY <1>0, <2>2, <3>1, JobTypes
    <2> QED  BY <2>1, <2>2
  <1>2. ASSUME NEW a \in Supplied, a # job[c].given  PROVE WatchFine(a)'
    <2>1. Registered(a)' <=> Registered(a)
      BY <1>0 DEF Registered
    <2>2. \A d \in Clients : job'[d] = job[d] \/ (job'[d].given # a /\ job[d].given # a)
      BY <1>1, <1>2, PortfolioAssumption DEF NoJob
    <2> QED  BY <1>0, <2>1, <2>2, StaysWatched DEF WatchInv
  <1>3. ASSUME NEW g \in Supplied, g = job[c].given  PROVE WatchFine(g)'
    <2>1. CASE g \in missed
      BY <1>0, <2>1 DEF WatchFine
    <2>2. CASE g \notin missed
      <3>1. Midway(c, g) /\ (\A d \in Clients \ {c} : job'[d].given # g) /\ (Registered(g)' <=> Registered(g))
        BY <1>0, <1>1, <1>3, <2>2, WatchAlone DEF WatchInv, Registered
      <3>2. CASE job[c].id # 0
        <4>1. /\ ~Registered(g)' /\ g \notin notify' /\ (zerionId' => g \notin zerion')
              /\ job'[c].given # g
          BY <1>0, <1>1, <3>1, <3>2, PortfolioAssumption DEF Midway, NoJob
        <4> QED  BY <3>1, <4>1, WatchOne DEF Agrees
      <3>3. CASE job[c].id = 0
        <4>1. Registered(g)' /\ g \notin notify' /\ job'[c].pc = "register" /\ job'[c].given = g
          BY <1>0, <1>1, <1>3, <3>1, <3>3 DEF Midway
        <4>2. Midway(c, g)'
          BY <4>1 DEF Midway, OnPC, OffPC
        <4> QED  BY <3>1, <4>1, <4>2, WatchOne
      <3> QED  BY <3>2, <3>3
    <2> QED  BY <2>1, <2>2
  <1> QED  BY <1>2, <1>3 DEF WatchInv

\* A request that dies leaves its address missed.
LEMMA DeathWatched ==
    ASSUME LowerCase, WalletTypes, WatchInv, NEW c \in Clients, ClientDies(c)
    PROVE  WatchInv'
  <1>0. /\ job \in [Clients -> Job] /\ UNCHANGED <<wallets, notify, zerion, zerionId>>
        /\ job'[c] = NoJob /\ \A d \in Clients \ {c} : job'[d] = job[d]
    BY ClientDiesTypes DEF WalletTypes, PortfolioTypeOK, registry, providers
  <1>1. missed \subseteq missed' /\ (job[c].given \in Supplied => job[c].given \in missed')
    BY DEF ClientDies, Miss, LowerCase
  <1>2. ASSUME NEW a \in Supplied  PROVE WatchFine(a)'
    <2>1. CASE a = job[c].given
      BY <1>1, <2>1 DEF WatchFine
    <2>2. CASE a # job[c].given
      <3>1. Registered(a)' <=> Registered(a)
        BY <1>0 DEF Registered
      <3>2. \A d \in Clients : job'[d] = job[d] \/ (job'[d].given # a /\ job[d].given # a)
        BY <1>0, <2>2, PortfolioAssumption DEF NoJob
      <3> QED  BY <1>0, <1>1, <3>1, <3>2, StaysWatched DEF WatchInv
    <2> QED  BY <2>1, <2>2
  <1> QED  BY <1>2 DEF WatchInv

\* A step that is about no address.
Beside(d) ==
  /\ job[d].pc \notin OffPC \union OnPC \union {"purge"} /\ job'[d].given \in {"none", job[d].given}

\* Addresses are watched as before.
LEMMA QuietWatched ==
    ASSUME WatchInv, UNCHANGED <<wallets, providers, missed>>,
           \A d \in Clients : job'[d] = job[d] \/ Beside(d)
    PROVE  WatchInv'
  <1>0. UNCHANGED <<notify, zerion, zerionId>>
    BY DEF providers
  <1>1. ASSUME NEW a \in Supplied  PROVE WatchFine(a)'
    <2>1. CASE a \in missed
      BY <2>1 DEF WatchFine
    <2>2. CASE a \notin missed
      <3>1. \A d \in Clients : Beside(d) => job[d].given # a
        BY <2>2 DEF WatchInv, WatchFine, Midway, Beside
      <3>2. \A d \in Clients : job'[d] = job[d] \/ (job'[d].given # a /\ job[d].given # a)
        BY <3>1, PortfolioAssumption DEF Beside
      <3>3. Registered(a)' <=> Registered(a)
        BY DEF Registered
      <3> QED  BY <1>0, <3>2, <3>3, StaysWatched DEF WatchInv
    <2> QED  BY <2>1, <2>2
  <1> QED  BY <1>1 DEF WatchInv

\* The steps of the requests.
LEMMA WalletsWatched ==
    ASSUME LowerCase, WalletTypes, HoldingsInv, WatchInv, NEW c \in Clients, WalletStep(c)
    PROVE  WatchInv'
  BY BeginsWatched, WritesWatched, PurgeWatched, ProvidersWatched DEF WalletStep

\* A build watches nothing.
LEMMA BuildsWatched ==
    ASSUME WatchInv, NEW b, BuildStep(b)  PROVE WatchInv'
  BY QuietWatched DEF BuildStep, FetchWallets, FetchExchange, Upsert, registry

\* A step of the requests' feed.
LEMMA RequestsWatched ==
    ASSUME LowerCase, WalletTypes, HoldingsInv, WatchInv, PortfolioNext
    PROVE  WatchInv'
  <1>1. ASSUME NEW c \in Clients, Lists(c) \/ \E u \in Owners, refresh \in BOOLEAN : GetHoldings(c, u, refresh)
        PROVE  WatchInv'
    <2>1. UNCHANGED <<wallets, providers, missed>> /\ job \in [Clients -> Job]
      BY <1>1 DEF Lists, GetHoldings, registry, WalletTypes, PortfolioTypeOK
    <2>2. job[c].pc \in {"lists", "idle"} /\ job'[c].given = "none" /\ \A d \in Clients \ {c} : job'[d] = job[d]
      BY <1>1, <2>1 DEF Lists, GetHoldings, Done, NoJob, Free
    <2>3. \A d \in Clients : job'[d] = job[d] \/ Beside(d)
      BY <2>2 DEF Beside, OffPC, OnPC
    <2> QED  BY <2>1, <2>3, QuietWatched
  <1>2. ASSUME NEW u \in Owners, Age(u)  PROVE WatchInv'
    BY <1>2, QuietWatched DEF Age, registry
  <1> QED
    BY <1>1, <1>2, WalletsWatched, BuildsWatched, DeathWatched DEF PortfolioNext, WalletStep, BuildStep

\* The steps of the exchange's behaviours.
LEMMA ExchangeWatched ==
    ASSUME LowerCase, WalletTypes, HoldingsInv, WatchInv, SyncNext
    PROVE  WatchInv'
  <1>0. job \in [Clients -> Job]
    BY DEF WalletTypes, PortfolioTypeOK
  <1>1. CASE UNCHANGED portfolioRest
    BY <1>1, QuietWatched DEF portfolioRest, registry
  <1>2. ASSUME NEW p \in Pollers,
               \/ Due(p) \/ Acquire(p) \/ Decrypt(p) \/ Balances(p) \/ Page(p) \/ Claim(p)
               \/ Insert(p) \/ Cursor(p) \/ Finish(p) \/ Fail(p) \/ Release(p) \/ PollerDies(p)
        PROVE  UNCHANGED portfolioRest
    BY <1>2 DEF Due, Acquire, Decrypt, Balances, Page, Claim, Insert, Cursor, Finish, Fail, Release, PollerDies
  <1>3. PlaceTrade \/ ReplaceKey \/ BecomesDue \/ LockExpires => UNCHANGED portfolioRest
    BY DEF PlaceTrade, ReplaceKey, BecomesDue, LockExpires
  <1>4. ASSUME NEW c \in Clients, LinkStep(c), ~RequestDies(c)  PROVE WatchInv'
    <2>1. UNCHANGED <<wallets, providers, missed>>
      BY <1>4 DEF LinkStep, Link, CreateConnection, Patch, PatchConnection, RemoveConnection, DeleteEvents,
         DeleteConnection, requestRest, registry
    <2>2. job[c].pc \notin OffPC \union OnPC \union {"purge"}
      BY <1>4 DEF LinkStep, Link, CreateConnection, Patch, PatchConnection, RemoveConnection, DeleteEvents,
         DeleteConnection, Requested, Free, OffPC, OnPC
    <2>3. \/ \E pc, id : Request(c, pc, id)
          \/ Done(c) \/ Then(c, "connection") \/ Then(c, "purge")
      BY <1>4 DEF LinkStep, Link, CreateConnection, Patch, PatchConnection, RemoveConnection, DeleteEvents,
         DeleteConnection
    <2>4. job'[c].given \in {"none", job[c].given} /\ \A d \in Clients \ {c} : job'[d] = job[d]
      <3>1. CASE \E pc, id : Request(c, pc, id)
        BY <1>0, <3>1 DEF Request
      <3>2. CASE Done(c) \/ Then(c, "connection") \/ Then(c, "purge")
        BY <1>0, <3>2, JobTypes DEF JobPC, NoJob
      <3> QED  BY <2>3, <3>1, <3>2
    <2>5. \A d \in Clients : job'[d] = job[d] \/ Beside(d)
      BY <2>2, <2>4 DEF Beside
    <2> QED  BY <2>1, <2>5, QuietWatched
  <1>5. ASSUME NEW c \in Clients, RequestDies(c) \/ Purge(c)  PROVE WatchInv'
    BY <1>5, DeathWatched, PurgeWatched DEF RequestDies
  <1> QED
    BY <1>1, <1>2, <1>3, <1>4, <1>5, BuildsWatched DEF SyncNext, LinkStep, BuildStep

\* The steps of the webhooks' behaviours.
LEMMA WebhooksWatched ==
    ASSUME LowerCase, TInv, HoldingsInv, WatchInv, IngestNext
    PROVE  WatchInv'
  <1>0. WalletTypes /\ IngestTypeOK
    BY DEF TInv
  <1>1. UNCHANGED portfolioStill => WatchInv'
    BY QuietWatched DEF portfolioStill, registry
  <1>2. ASSUME NEW c \in Clients, WalletsChange(c)  PROVE WatchInv'
    <2>1. WalletStep(c)
      BY <1>2, ConstantTypes DEF WalletsChange, WalletStep
    <2> QED  BY <1>0, <2>1, WalletsWatched
  <1>3. ASSUME NEW h \in Hooks, (\E d \in Deliveries : Deliver(h, d)) \/ Find(h) \/ ClaimKey(h)
        PROVE  UNCHANGED portfolioStill
    BY <1>0, <1>3, HookStepTypes
  <1>4. ASSUME NEW f \in Flushers, (\E c \in Chains : Flush(f, c)) \/ Enrich(f) \/ Save(f)
        PROVE  UNCHANGED portfolioStill
    BY <1>0, <1>4, FlushStepTypes
  <1>5. \/ IngestDies \/ \E u \in Owners : ListUnsettled(u)
        \/ \E d \in scan.todo : WriteStatus(d) \/ \E s \in Statuses : AskReceipt(d, s)
        => UNCHANGED portfolioStill
    BY DEF IngestDies, ListUnsettled, WriteStatus, AskReceipt
  <1> QED  BY <1>1, <1>2, <1>3, <1>4, <1>5, BuildsWatched DEF IngestNext, BuildStep

\* To begin with what is registered is watched.
LEMMA InitWatched ==
    ASSUME LowerCase, Init  PROVE WatchInv
  <1>1. \A c \in Clients : job[c].given = "none"
    BY DEF Init, PortfolioInit, NoJob
  <1>2. ASSUME NEW a \in Supplied  PROVE WatchFine(a)
    <2>1. PICK owned \in SUBSET {CHOOSE b \in Supplied : TRUE} :
            /\ wallets = {[id |-> 1, user |-> Holder, address |-> Stored[b], given |-> b] : b \in owned}
            /\ notify = owned /\ zerion = owned
      BY DEF Init, PortfolioInit
    <2>2. \A b \in owned : Stored[b] = b
      BY PortfolioAssumption DEF LowerCase
    <2>3. Registered(a) <=> a \in owned
      <3>1. /\ \A w \in wallets : w.address \in owned
            /\ \A b \in owned : \E w \in wallets : w.address = b
        <4>1. ASSUME NEW w \in wallets  PROVE w.address \in owned
          <5>1. PICK b \in owned : w = [id |-> 1, user |-> Holder, address |-> Stored[b], given |-> b]
            BY <2>1
          <5> QED  BY <2>2, <5>1
        <4>2. ASSUME NEW b \in owned  PROVE \E w \in wallets : w.address = b
          <5>1. [id |-> 1, user |-> Holder, address |-> Stored[b], given |-> b] \in wallets
            BY <2>1
          <5> QED  BY <2>2, <5>1
        <4> QED  BY <4>1, <4>2
      <3> QED  BY <3>1 DEF Registered, LowerCase
    <2>4. Agrees(a)
      BY <2>1, <2>3 DEF Agrees
    <2>5. a # "none"
      BY PortfolioAssumption
    <2> QED  BY <1>1, <2>4, <2>5 DEF WatchFine
  <1> QED  BY <1>2 DEF WatchInv

\* A step of any feed, or none.
LEMMA StepWatched ==
    ASSUME LowerCase, TInv, HoldingsInv, WatchInv, [Next]_vars  PROVE WatchInv'
  <1>0. WalletTypes
    BY DEF TInv
  <1>1. CASE Next
    BY <1>0, <1>1, RequestsWatched, ExchangeWatched, WebhooksWatched DEF Next
  <1>2. CASE UNCHANGED vars
    BY <1>2, QuietWatched DEF vars, portfolioVars, registry
  <1> QED  BY <1>1, <1>2

\* What a user is shown follows its sources, and the providers watch exactly
\* what is registered, unless a call about the address failed or two requests
\* handled it at a time: for any number of users, addresses, requests and
\* ticks - addresses being supplied in lower case, as createWallet stores them,
\* and the exchange being on.
THEOREM Coherent == ASSUME LowerCase, ExchangeOn PROVE Spec => []PortfolioIsCoherent
  <1>1. Init => TInv /\ HoldingsInv /\ WatchInv
    BY InitTypes, InitShown, InitWatched
  <1>2. TInv /\ HoldingsInv /\ WatchInv /\ [Next]_vars => TInv' /\ HoldingsInv' /\ WatchInv'
    BY StepTypes, StepShown, StepWatched
  <1>3. HoldingsInv /\ WatchInv => PortfolioIsCoherent
    <2> SUFFICES ASSUME HoldingsInv, WatchInv  PROVE PortfolioIsCoherent
      OBVIOUS
    <2>1. HoldingsFollowSources
      BY DEF HoldingsInv, HoldingsFollowSources, Shows, Changing
    <2>2. ASSUME NEW a \in Supplied, Quiet(a), Stored[a] \notin missed
          PROVE  /\ (a \in notify) = Registered(a)
                 /\ Registered(a) => a \in zerion
                 /\ zerionId /\ a \in zerion => Registered(a)
      <3>1. a \notin missed /\ \A c \in Clients : job[c].given # a
        BY <2>2 DEF Quiet, LowerCase
      <3>2. Agrees(a)
        BY <3>1 DEF WatchInv, WatchFine
      <3>3. (a \in notify) = Registered(a)
        <4>1. a \in notify <=> Registered(a)
          BY <3>2 DEF Agrees
        <4>2. Registered(a) \in BOOLEAN
          BY DEF Registered
        <4> QED  BY <4>1, <4>2
      <3> QED  BY <3>2, <3>3 DEF Agrees
    <2> QED  BY <2>1, <2>2 DEF PortfolioIsCoherent, WatchedAsOwned
  <1> QED  BY <1>1, <1>2, <1>3, PTL DEF Spec
-----------------------------------------------------------------------------
(* Activities.                                                               *)

\* Where an activity is.
InBuffer(k, x) == \E c \in Chains : \E i \in DOMAIN buffer[c] :
  KeyOf(buffer[c][i], c) = k /\ x = <<"buffer", c, i>>
InFlush(k, x) == \E f \in Flushers : \E i \in DOMAIN flush[f].events :
  KeyOf(flush[f].events[i], flush[f].chain) = k /\ x = <<"flush", f, i>>
InEvents(k, x) == \E d \in events : \E i \in DOMAIN d.of :
  KeyOf(d.of[i], d.chain) = k /\ x = <<"event", d, i>>

\* The places of an activity, before the step.
LEMMA PlacesFacts ==
    ASSUME NEW k, NEW x
    PROVE  x \in Places(k) <=> InBuffer(k, x) \/ InFlush(k, x) \/ InEvents(k, x)
  <1> DEFINE A == {{<<"buffer", c, i>> : i \in PlacesIn(k, buffer[c], c)} : c \in Chains}
             B == {{<<"flush", f, i>> : i \in PlacesIn(k, flush[f].events, flush[f].chain)} : f \in Flushers}
             C == {{<<"event", d, i>> : i \in PlacesIn(k, d.of, d.chain)} : d \in events}
  <1>1. Places(k) = UNION (A \union B \union C)
    BY DEF Places
  <1>2. (\E s \in A : x \in s) <=> InBuffer(k, x)
    <2>1. (\E s \in A : x \in s) <=> \E c \in Chains : x \in {<<"buffer", c, i>> : i \in PlacesIn(k, buffer[c], c)}
      OBVIOUS
    <2>2. ASSUME NEW c
          PROVE  x \in {<<"buffer", c, i>> : i \in PlacesIn(k, buffer[c], c)} <=>
                   \E i \in DOMAIN buffer[c] : KeyOf(buffer[c][i], c) = k /\ x = <<"buffer", c, i>>
      BY DEF PlacesIn
    <2> QED  BY <2>1, <2>2 DEF InBuffer
  <1>3. (\E s \in B : x \in s) <=> InFlush(k, x)
    <2>1. (\E s \in B : x \in s) <=> \E f \in Flushers : x \in {<<"flush", f, i>> : i \in PlacesIn(k, flush[f].events, flush[f].chain)}
      OBVIOUS
    <2>2. ASSUME NEW f
          PROVE  x \in {<<"flush", f, i>> : i \in PlacesIn(k, flush[f].events, flush[f].chain)} <=>
                   \E i \in DOMAIN flush[f].events : KeyOf(flush[f].events[i], flush[f].chain) = k /\ x = <<"flush", f, i>>
      BY DEF PlacesIn
    <2> QED  BY <2>1, <2>2 DEF InFlush
  <1>4. (\E s \in C : x \in s) <=> InEvents(k, x)
    <2>1. (\E s \in C : x \in s) <=> \E d \in events : x \in {<<"event", d, i>> : i \in PlacesIn(k, d.of, d.chain)}
      OBVIOUS
    <2>2. ASSUME NEW d
          PROVE  x \in {<<"event", d, i>> : i \in PlacesIn(k, d.of, d.chain)} <=>
                   \E i \in DOMAIN d.of : KeyOf(d.of[i], d.chain) = k /\ x = <<"event", d, i>>
      BY DEF PlacesIn
    <2> QED  BY <2>1, <2>2 DEF InEvents
  <1> HIDE DEF A, B, C
  <1> QED  BY <1>1, <1>2, <1>3, <1>4

\* And after it.
LEMMA PlacesNext ==
    ASSUME NEW k, NEW x
    PROVE  x \in Places(k)' <=> InBuffer(k, x)' \/ InFlush(k, x)' \/ InEvents(k, x)'
  <1> DEFINE A == {{<<"buffer", c, i>> : i \in PlacesIn(k, buffer'[c], c)} : c \in Chains}
             B == {{<<"flush", f, i>> : i \in PlacesIn(k, flush'[f].events, flush'[f].chain)} : f \in Flushers}
             C == {{<<"event", d, i>> : i \in PlacesIn(k, d.of, d.chain)} : d \in events'}
  <1>1. Places(k)' = UNION (A \union B \union C)
    BY DEF Places
  <1>2. (\E s \in A : x \in s) <=> InBuffer(k, x)'
    <2>1. (\E s \in A : x \in s) <=> \E c \in Chains : x \in {<<"buffer", c, i>> : i \in PlacesIn(k, buffer'[c], c)}
      OBVIOUS
    <2>2. ASSUME NEW c
          PROVE  x \in {<<"buffer", c, i>> : i \in PlacesIn(k, buffer'[c], c)} <=>
                   \E i \in DOMAIN buffer'[c] : KeyOf(buffer'[c][i], c) = k /\ x = <<"buffer", c, i>>
      BY DEF PlacesIn
    <2> QED  BY <2>1, <2>2 DEF InBuffer
  <1>3. (\E s \in B : x \in s) <=> InFlush(k, x)'
    <2>1. (\E s \in B : x \in s) <=> \E f \in Flushers : x \in {<<"flush", f, i>> : i \in PlacesIn(k, flush'[f].events, flush'[f].chain)}
      OBVIOUS
    <2>2. ASSUME NEW f
          PROVE  x \in {<<"flush", f, i>> : i \in PlacesIn(k, flush'[f].events, flush'[f].chain)} <=>
                   \E i \in DOMAIN flush'[f].events : KeyOf(flush'[f].events[i], flush'[f].chain) = k /\ x = <<"flush", f, i>>
      BY DEF PlacesIn
    <2> QED  BY <2>1, <2>2 DEF InFlush
  <1>4. (\E s \in C : x \in s) <=> InEvents(k, x)'
    <2>1. (\E s \in C : x \in s) <=> \E d \in events' : x \in {<<"event", d, i>> : i \in PlacesIn(k, d.of, d.chain)}
      OBVIOUS
    <2>2. ASSUME NEW d
          PROVE  x \in {<<"event", d, i>> : i \in PlacesIn(k, d.of, d.chain)} <=>
                   \E i \in DOMAIN d.of : KeyOf(d.of[i], d.chain) = k /\ x = <<"event", d, i>>
      BY DEF PlacesIn
    <2> QED  BY <2>1, <2>2 DEF InEvents
  <1> HIDE DEF A, B, C
  <1> QED  BY <1>1, <1>2, <1>3, <1>4

\* A key no step claims, whose places move, or get lost with the key.
LEMMA StaysRecorded ==
    ASSUME NEW k, Recorded(k), received'[k] = received[k], k \in keys' <=> k \in keys, forgone \subseteq forgone',
           NEW phi, \A y \in Places(k)' : \E x \in Places(k) : y = phi[x],
           (\A x \in Places(k) : phi[x] \in Places(k)') \/ k \in forgone'
    PROVE  Recorded(k)'
  BY DEF Recorded

\* Places stay when nothing that holds events changes.
LEMMA StillRecorded ==
    ASSUME NEW k, Recorded(k), UNCHANGED <<buffer, flush, events, keys, received>>, forgone \subseteq forgone'
    PROVE  Recorded(k)'
  <1>1. Places(k)' = Places(k)
    BY DEF Places
  <1> QED  BY <1>1 DEF Recorded

\* Whoever owns the address is one user.
LEMMA OneOwner ==
    ASSUME WalletTypes, NEW u \in Owner  PROVE Owner = {u}
  BY DEF WalletTypes, PortfolioTypeOK, Owner

\* A step that leaves the activities where they are.
LEMMA StayActive ==
    ASSUME ActivityInv, UNCHANGED <<keys, buffer, timers, flush, events, received, moved>>,
           Owner' = Owner, forgone \subseteq forgone', \A h \in Hooks : Looked(h)'
    PROVE  ActivityInv'
  <1>1. ASSUME NEW k \in Receipts  PROVE Recorded(k)'
    BY StillRecorded DEF ActivityInv
  <1>2. ASSUME NEW c \in Chains  PROVE Waits(c)'
    BY DEF ActivityInv, Waits, Clear
  <1>3. ASSUME NEW f \in Flushers  PROVE Travels(f)'
    BY DEF ActivityInv, Travels, FlushUser, Mixed
  <1>4. ASSUME NEW d \in events'  PROVE Filed(d)'
    BY DEF ActivityInv, Filed, Mixed
  <1> QED  BY <1>1, <1>2, <1>3, <1>4 DEF ActivityInv

\* A delivery's step leaves the others what they looked up.
LEMMA OthersLooked ==
    ASSUME ActivityInv, Owner' = Owner, moved' = moved, NEW h \in Hooks,
           \A g \in Hooks \ {h} : hook'[g] = hook[g],
           \/ hook'[h].pc # "claim"
           \/ Owner = {hook'[h].user}
    PROVE  \A g \in Hooks : Looked(g)'
  <1>1. ASSUME NEW g \in Hooks \ {h}  PROVE Looked(g)'
    BY DEF ActivityInv, Looked, Clear, Raw
  <1>2. Looked(h)'
    BY DEF Looked, Clear
  <1> QED  BY <1>1, <1>2

\* Deliveries that claim nothing new.
LEMMA HooksActive ==
    ASSUME TInv, ActivityInv, NEW h \in Hooks,
           \/ \E d \in Deliveries : Deliver(h, d)
           \/ Find(h)
           \/ ClaimKey(h) /\ keys' = keys
    PROVE  ActivityInv'
  <1>0. WalletTypes /\ IngestTypeOK /\ hook \in [Hooks -> Handled]
    BY DEF TInv, IngestTypeOK
  <1>1. UNCHANGED portfolioStill
    BY <1>0, HookStepTypes
  <1>2. Owner' = Owner
    BY <1>1 DEF Owner, portfolioStill, registry
  <1>3. ASSUME NEW d \in Deliveries, Deliver(h, d)  PROVE ActivityInv'
    <2>1. hook'[h].pc = "find" /\ \A g \in Hooks \ {h} : hook'[g] = hook[g]
      BY <1>0, <1>3 DEF Deliver
    <2>2. \A g \in Hooks : Looked(g)'
      BY <1>2, <1>3, <2>1, OthersLooked DEF Deliver
    <2> QED  BY <1>2, <1>3, <2>2, StayActive DEF Deliver
  <1>4. CASE Skip(h) /\ hook[h].pc # "idle" /\ forgone \subseteq forgone'
             /\ UNCHANGED <<keys, buffer, timers, flush, events, received, moved>>
    <2>1. hook'[h].pc # "claim" /\ \A g \in Hooks \ {h} : hook'[g] = hook[g]
      BY <1>0, <1>4, SkipFacts
    <2>2. \A g \in Hooks : Looked(g)'
      BY <1>2, <1>4, <2>1, OthersLooked
    <2> QED  BY <1>2, <1>4, <2>2, StayActive
  <1>5. CASE Find(h)
    <2>0. /\ hook[h].pc = "find" /\ UNCHANGED <<keys, buffer, timers, flush, events, received, moved>>
          /\ forgone \subseteq forgone'
      BY <1>5, Zenon DEF Find
    <2>1. CASE Skip(h)
      BY <1>4, <2>0, <2>1
    <2>2. CASE /\ Owner # {}
               /\ hook' = [hook EXCEPT ![h].pc = "claim", ![h].user = CHOOSE u \in Owner : TRUE]
      <3>1. PICK u \in Owner : u = CHOOSE v \in Owner : TRUE
        BY <2>2
      <3>2. hook' = [hook EXCEPT ![h].pc = "claim", ![h].user = u]
        BY <2>2, <3>1
      <3>3. hook'[h].user = u /\ \A g \in Hooks \ {h} : hook'[g] = hook[g]
        BY <1>0, <3>2 DEF Handled
      <3>4. Owner = {u}
        BY <1>0, OneOwner
      <3>5. \A g \in Hooks : Looked(g)'
        BY <1>2, <2>0, <3>3, <3>4, OthersLooked
      <3> QED  BY <1>2, <2>0, <3>5, StayActive
    <2> QED  BY <1>5, <2>1, <2>2 DEF Find
  <1>6. CASE ClaimKey(h) /\ keys' = keys
    <2>0. hook[h].pc = "claim" /\ UNCHANGED <<flush, events, moved>>
      BY <1>6, Zenon DEF ClaimKey
    <2>1. CASE Skip(h) /\ UNCHANGED <<stimuli, keys, buffer, timers, received, forgone>>
      BY <1>4, <2>0, <2>1
    <2>2. CASE hook' = [hook EXCEPT ![h] = NoHook] /\ forgone \subseteq forgone'
               /\ UNCHANGED <<keys, buffer, timers, received>>
      <3>1. hook'[h].pc # "claim" /\ \A g \in Hooks \ {h} : hook'[g] = hook[g]
        BY <1>0, <2>2 DEF NoHook
      <3>2. \A g \in Hooks : Looked(g)'
        BY <1>2, <2>0, <3>1, OthersLooked
      <3> QED  BY <1>2, <2>0, <2>2, <3>2, StayActive
    <2>3. \/ KeyOf(Raw(h), hook[h].chain) \notin keys /\ keys' = keys \union {KeyOf(Raw(h), hook[h].chain)}
          \/ Skip(h) /\ UNCHANGED <<stimuli, keys, buffer, timers, received, forgone>>
          \/ /\ hook' = [hook EXCEPT ![h] = NoHook] /\ forgone \subseteq forgone'
             /\ UNCHANGED <<keys, buffer, timers, received>>
      BY <1>6, Zenon DEF ClaimKey
    <2> QED  BY <1>6, <2>1, <2>2, <2>3
  <1> QED  BY <1>3, <1>5, <1>6

\* The address may change hands: what is found or buffered is marked.
LEMMA WalletsActive ==
    ASSUME ActivityInv, NEW c \in Clients, WalletsChange(c)
    PROVE  ActivityInv'
  <1>0. UNCHANGED <<hook, keys, buffer, timers, flush, events, scan, received, forgone>>
    BY DEF WalletsChange
  <1>1. CASE Owner' = Owner
    <2>1. moved' = moved
      BY <1>1 DEF WalletsChange
    <2>2. \A h \in Hooks : Looked(h)'
      BY <1>0, <1>1, <2>1 DEF ActivityInv, Looked, Clear, Raw
    <2> QED  BY <1>0, <1>1, <2>1, <2>2, StayActive
  <1>2. CASE Owner' # Owner
    <2>1. moved' = moved \union (UNION {Keyed(buffer[chain], chain) : chain \in Chains})
                         \union {KeyOf(Raw(h), hook[h].chain) : h \in {g \in Hooks : hook[g].pc = "claim"}}
      BY <1>2 DEF WalletsChange
    <2>2. /\ moved \subseteq moved'
          /\ \A d \in Chains : Keyed(buffer[d], d) \subseteq moved'
          /\ \A h \in Hooks : hook[h].pc = "claim" => KeyOf(Raw(h), hook[h].chain) \in moved'
      BY <2>1
    <2>3. ASSUME NEW k \in Receipts  PROVE Recorded(k)'
      BY <1>0, StillRecorded DEF ActivityInv
    <2>4. ASSUME NEW h \in Hooks  PROVE Looked(h)'
      BY <1>0, <2>2 DEF Looked, Clear, Raw
    <2>5. ASSUME NEW d \in Chains  PROVE Waits(d)'
      <3>1. \A e \in ToSet(buffer[d]) : KeyOf(e, d) \in moved'
        BY <2>2 DEF Keyed
      <3> QED  BY <1>0, <3>1 DEF ActivityInv, Waits, Clear
    <2>6. ASSUME NEW f \in Flushers  PROVE Travels(f)'
      <3>1. Mixed(flush[f].events, flush[f].chain) => Mixed(flush[f].events, flush[f].chain)'
        BY <1>0, <2>2 DEF Mixed
      <3> QED  BY <1>0, <3>1 DEF ActivityInv, Travels, FlushUser
    <2>7. ASSUME NEW d \in events'  PROVE Filed(d)'
      BY <1>0, <2>2 DEF ActivityInv, Filed, Mixed
    <2> QED  BY <2>3, <2>4, <2>5, <2>6, <2>7 DEF ActivityInv
  <1> QED  BY <1>1, <1>2

\* What is anywhere has been claimed.
LEMMA HeldFacts ==
    ASSUME TInv, ActivityInv
    PROVE  /\ \A c \in Chains : Keyed(buffer[c], c) \subseteq keys
           /\ \A f \in Flushers : Keyed(flush[f].events, flush[f].chain) \subseteq keys
           /\ \A d \in events : Keyed(d.of, d.chain) \subseteq keys
  <1>0. IngestTypeOK
    BY DEF TInv
  <1>1. ASSUME NEW k \in Receipts, NEW x \in Places(k)  PROVE k \in keys
    BY DEF ActivityInv, Recorded
  <1>2. ASSUME NEW c \in Chains, NEW k \in Keyed(buffer[c], c)  PROVE k \in keys
    <2>1. k \in Receipts
      BY <1>0, KeyedFacts DEF IngestTypeOK
    <2>2. PICK i \in DOMAIN buffer[c] : KeyOf(buffer[c][i], c) = k
      BY DEF Keyed, ToSet
    <2>3. <<"buffer", c, i>> \in Places(k)
      BY <2>2, PlacesFacts DEF InBuffer
    <2> QED  BY <1>1, <2>1, <2>3
  <1>3. ASSUME NEW f \in Flushers, NEW k \in Keyed(flush[f].events, flush[f].chain)  PROVE k \in keys
    <2>1. k \in Receipts
      <3>1. flush[f].pc # "idle"
        BY <1>0 DEF IngestTypeOK, NoFlush, Keyed, ToSet
      <3> QED  BY <1>0, <3>1, FlushFacts
    <2>2. PICK i \in DOMAIN flush[f].events : KeyOf(flush[f].events[i], flush[f].chain) = k
      BY DEF Keyed, ToSet
    <2>3. <<"flush", f, i>> \in Places(k)
      BY <2>2, PlacesFacts DEF InFlush
    <2> QED  BY <1>1, <2>1, <2>3
  <1>4. ASSUME NEW d \in events, NEW k \in Keyed(d.of, d.chain)  PROVE k \in keys
    <2>1. k \in Receipts
      BY <1>0, KeyedFacts DEF IngestTypeOK, Document
    <2>2. PICK i \in DOMAIN d.of : KeyOf(d.of[i], d.chain) = k
      BY DEF Keyed, ToSet
    <2>3. <<"event", d, i>> \in Places(k)
      BY <2>2, PlacesFacts DEF InEvents
    <2> QED  BY <1>1, <2>1, <2>3
  <1> QED  BY <1>2, <1>3, <1>4

\* An activity is claimed and buffered.
LEMMA ClaimActive ==
    ASSUME TInv, ActivityInv, NEW h \in Hooks, ClaimKey(h), keys' # keys
    PROVE  ActivityInv'
  <1>0. WalletTypes /\ IngestTypeOK /\ hook \in [Hooks -> Handled] /\ buffer \in [Chains -> Seq(Activity)]
        /\ received \in [Receipts -> Someone]
    BY DEF TInv, IngestTypeOK
  <1>1. PICK e, c, k0 : e = Raw(h) /\ c = hook[h].chain /\ k0 = KeyOf(e, c)
    OBVIOUS
  <1>2. /\ hook[h].pc = "claim" /\ k0 \notin keys /\ keys' = keys \union {k0} /\ Skip(h)
        /\ Ingest(e, c) /\ received' = [received EXCEPT ![k0] = e.user]
        /\ UNCHANGED <<forgone, flush, events, moved, portfolioStill>>
    BY <1>1, Zenon DEF ClaimKey
  <1>3. k0 \in Receipts /\ c \in Chains /\ e \in Activity /\ e.user = hook[h].user /\ e.user \in Owners
    BY <1>0, <1>1, <1>2, RawFacts DEF Activity
  <1>4. Owner' = Owner /\ Clear(k0, e.user)
    BY <1>1, <1>2, <1>3 DEF ActivityInv, Looked, Owner, portfolioStill, registry
  <1>5. \A g \in Hooks : Looked(g)'
    <2>1. hook'[h].pc # "claim" /\ \A g \in Hooks \ {h} : hook'[g] = hook[g]
      BY <1>0, <1>2, SkipFacts
    <2> QED  BY <1>2, <1>4, <2>1, OthersLooked
  <1>6. /\ \A d \in Chains \ {c} : buffer'[d] = buffer[d]
        /\ buffer[c] \in Seq(Activity) /\ buffer'[c] = Append(buffer[c], e)
        /\ received'[k0] = e.user /\ \A k \in keys : received'[k] = received[k]
        /\ \A k \in Receipts : k # k0 => received'[k] = received[k]
    BY <1>0, <1>2, <1>3 DEF Ingest, IngestTypeOK, TInv
  <1>7. /\ DOMAIN buffer'[c] = 1..(Len(buffer[c]) + 1) /\ DOMAIN buffer[c] = 1..Len(buffer[c])
        /\ Len(buffer[c]) \in Nat /\ buffer'[c][Len(buffer[c]) + 1] = e
        /\ \A i \in 1..Len(buffer[c]) : buffer'[c][i] = buffer[c][i]
    BY <1>3, <1>6
  <1>8. PICK n : n = Len(buffer[c]) + 1
    OBVIOUS
  <1>9. ASSUME NEW k, NEW x
        PROVE  InBuffer(k, x)' <=> InBuffer(k, x) \/ (k = k0 /\ x = <<"buffer", c, n>>)
    <2>1. ASSUME NEW d \in Chains
          PROVE  (\E i \in DOMAIN buffer'[d] : KeyOf(buffer'[d][i], d) = k /\ x = <<"buffer", d, i>>)
                 <=> \/ \E i \in DOMAIN buffer[d] : KeyOf(buffer[d][i], d) = k /\ x = <<"buffer", d, i>>
                     \/ d = c /\ k = k0 /\ x = <<"buffer", c, n>>
      <3>1. CASE d # c
        BY <1>6, <3>1
      <3>2. CASE d = c
        <4>1. n \in DOMAIN buffer'[c] /\ DOMAIN buffer'[c] = (DOMAIN buffer[c]) \union {n}
              /\ n \notin DOMAIN buffer[c] /\ buffer'[c][n] = e
              /\ \A i \in DOMAIN buffer[c] : buffer'[c][i] = buffer[c][i]
          BY <1>7, <1>8
        <4>2. KeyOf(buffer'[c][n], c) = k0
          BY <1>1, <4>1
        <4> HIDE DEF KeyOf
        <4> QED  BY <3>2, <4>1, <4>2
      <3> QED  BY <3>1, <3>2
    <2> QED  BY <1>3, <2>1 DEF InBuffer
  <1>10. ASSUME NEW k \in Receipts  PROVE Recorded(k)'
    <2>1. ASSUME NEW x  PROVE x \in Places(k)' <=> x \in Places(k) \/ (k = k0 /\ x = <<"buffer", c, n>>)
      <3>1. (InFlush(k, x)' <=> InFlush(k, x)) /\ (InEvents(k, x)' <=> InEvents(k, x))
        BY <1>2 DEF InFlush, InEvents
      <3> QED  BY <1>9, <3>1, PlacesFacts, PlacesNext
    <2>2. CASE k # k0
      <3>1. Places(k)' = Places(k)
        BY <2>1, <2>2
      <3> QED  BY <1>2, <1>6, <2>2, <3>1 DEF ActivityInv, Recorded
    <2>3. CASE k = k0
      <3>1. Places(k) = {}
        BY <1>2, <2>3 DEF ActivityInv, Recorded
      <3>2. Places(k)' = {<<"buffer", c, n>>}
        BY <2>1, <2>3, <3>1
      <3>3. received'[k] # "nobody" /\ k \in keys'
        BY <1>2, <1>3, <1>6, <2>3, IngestAssumption
      <3> QED  BY <3>2, <3>3 DEF Recorded
    <2> QED  BY <2>2, <2>3
  <1>11. ASSUME NEW d \in Chains  PROVE Waits(d)'
    <2>1. \A x \in ToSet(buffer[d]) : KeyOf(x, d) \in keys
      BY HeldFacts DEF Keyed
    <2>2. \A x \in ToSet(buffer'[d]) : x \in ToSet(buffer[d]) \/ (d = c /\ x = e)
      <3>1. CASE d # c
        BY <1>6, <3>1
      <3>2. CASE d = c
        BY <1>7, <1>8, <3>2 DEF ToSet
      <3> QED  BY <3>1, <3>2
    <2>3. \A x \in ToSet(buffer'[d]) :
            received'[KeyOf(x, d)] = x.user /\ Clear(KeyOf(x, d), x.user)
      BY <1>1, <1>4, <1>6, <2>1, <2>2 DEF ActivityInv, Waits
    <2>4. \A k, u : Clear(k, u)' = Clear(k, u)
      BY <1>2, <1>4 DEF Clear
    <2>5. buffer'[d] # <<>> => d \in timers'
      BY <1>2, <1>6 DEF ActivityInv, Waits, Ingest
    <2> QED  BY <2>3, <2>4, <2>5 DEF Waits
  <1>12. ASSUME NEW f \in Flushers  PROVE Travels(f)'
    <2>1. \A x \in ToSet(flush[f].events) : KeyOf(x, flush[f].chain) \in keys
      BY HeldFacts DEF Keyed
    <2> QED  BY <1>2, <1>6, <2>1 DEF ActivityInv, Travels, FlushUser, Mixed
  <1>13. ASSUME NEW d \in events'  PROVE Filed(d)'
    <2>1. Keyed(d.of, d.chain) \subseteq keys
      BY <1>2, HeldFacts
    <2> QED  BY <1>2, <1>6, <2>1 DEF ActivityInv, Filed, Mixed
  <1> QED  BY <1>5, <1>10, <1>11, <1>12, <1>13 DEF ActivityInv

\* The timer: what is buffered travels on.
LEMMA FlushActive ==
    ASSUME TInv, ActivityInv, NEW f \in Flushers, NEW c \in Chains, Flush(f, c)
    PROVE  ActivityInv'
  <1>0. /\ IngestTypeOK /\ flush \in [Flushers -> Flushed] /\ buffer \in [Chains -> Seq(Activity)]
        /\ flush[f] = NoFlush /\ flush[f].events = <<>> /\ f \in Flushers
        /\ UNCHANGED <<portfolioStill, hook, keys, events, received, forgone, moved>>
        /\ timers' = timers \ {c} /\ buffer' = [buffer EXCEPT ![c] = <<>>]
    BY DEF TInv, IngestTypeOK, Flush, NoFlush
  <1>1. Owner' = Owner /\ \A k, u : Clear(k, u)' = Clear(k, u)
    BY <1>0 DEF Owner, Clear, portfolioStill, registry
  <1>2. \A h \in Hooks : Looked(h)'
    BY <1>0, <1>1 DEF ActivityInv, Looked, Raw
  <1>3. /\ buffer'[c] = <<>> /\ \A d \in Chains \ {c} : buffer'[d] = buffer[d]
        /\ flush'[f].events = buffer[c] /\ \A g \in Flushers \ {f} : flush'[g] = flush[g]
        /\ buffer[c] # <<>> => flush'[f].chain = c
    BY <1>0 DEF Flush, NoFlush
  <1>4. ASSUME NEW k \in Receipts  PROVE Recorded(k)'
    <2> DEFINE phi == [x \in Places(k) |-> IF x[1] = "buffer" /\ x[2] = c THEN <<"flush", f, x[3]>> ELSE x]
    <2>0. /\ \A i : i \in DOMAIN buffer[c] => buffer[c] # <<>>
          /\ \A i : i \notin DOMAIN flush[f].events /\ i \notin DOMAIN buffer'[c]
      BY <1>0, <1>3
    <2>1. ASSUME NEW x \in Places(k)  PROVE phi[x] \in Places(k)'
      <3>1. CASE InBuffer(k, x)
        <4>1. PICK d, i : d \in Chains /\ i \in DOMAIN buffer[d] /\ KeyOf(buffer[d][i], d) = k /\ x = <<"buffer", d, i>>
          BY <3>1 DEF InBuffer
        <4>2. CASE d = c
          <5>1. phi[x] = <<"flush", f, i>> /\ i \in DOMAIN flush'[f].events
                /\ KeyOf(flush'[f].events[i], flush'[f].chain) = k
            BY <1>3, <2>0, <4>1, <4>2
          <5> HIDE DEF phi
          <5> QED  BY <5>1, PlacesNext DEF InFlush
        <4>3. CASE d # c
          <5>1. phi[x] = x /\ InBuffer(k, x)'
            BY <1>3, <4>1, <4>3 DEF InBuffer
          <5> HIDE DEF phi
          <5> QED  BY <5>1, PlacesNext
        <4> QED  BY <4>2, <4>3
      <3>2. CASE InFlush(k, x)
        <4>1. PICK g, i : /\ g \in Flushers /\ i \in DOMAIN flush[g].events
                      /\ KeyOf(flush[g].events[i], flush[g].chain) = k /\ x = <<"flush", g, i>>
          BY <3>2 DEF InFlush
        <4>2. g # f
          BY <2>0, <4>1
        <4>3. phi[x] = x /\ InFlush(k, x)'
          BY <1>3, <4>1, <4>2 DEF InFlush
        <4> HIDE DEF phi
        <4> QED  BY <4>3, PlacesNext
      <3>3. CASE InEvents(k, x)
        <4>1. phi[x] = x /\ InEvents(k, x)'
          BY <1>0, <3>3 DEF InEvents
        <4> HIDE DEF phi
        <4> QED  BY <4>1, PlacesNext
      <3> QED  BY <3>1, <3>2, <3>3, PlacesFacts
    <2>2. ASSUME NEW y \in Places(k)'  PROVE \E x \in Places(k) : y = phi[x]
      <3>1. CASE InBuffer(k, y)'
        <4>1. PICK d, i : d \in Chains /\ i \in DOMAIN buffer'[d] /\ KeyOf(buffer'[d][i], d) = k /\ y = <<"buffer", d, i>>
          BY <3>1 DEF InBuffer
        <4>2. d # c
          BY <2>0, <4>1
        <4>3. InBuffer(k, y)
          BY <1>3, <4>1, <4>2 DEF InBuffer
        <4>4. y \in Places(k)
          BY <4>3, PlacesFacts
        <4>5. phi[y] = y
          BY <4>1, <4>2, <4>4
        <4> QED  BY <4>4, <4>5
      <3>2. CASE InFlush(k, y)'
        <4>1. PICK g, i : /\ g \in Flushers /\ i \in DOMAIN flush'[g].events
                      /\ KeyOf(flush'[g].events[i], flush'[g].chain) = k /\ y = <<"flush", g, i>>
          BY <3>2 DEF InFlush
        <4>2. CASE g # f
          <5>1. InFlush(k, y)
            BY <1>3, <4>1, <4>2 DEF InFlush
          <5>2. y \in Places(k)
            BY <5>1, PlacesFacts
          <5>3. phi[y] = y
            BY <4>1, <5>2
          <5> QED  BY <5>2, <5>3
        <4>3. CASE g = f
          <5>1. PICK x : x = <<"buffer", c, i>>
            OBVIOUS
          <5>2. InBuffer(k, x)
            BY <1>3, <2>0, <4>1, <4>3, <5>1 DEF InBuffer
          <5>3. x \in Places(k)
            BY <5>2, PlacesFacts
          <5>4. phi[x] = y
            BY <4>1, <4>3, <5>1, <5>3
          <5> QED  BY <5>3, <5>4
        <4> QED  BY <4>2, <4>3
      <3>3. CASE InEvents(k, y)'
        <4>1. InEvents(k, y)
          BY <1>0, <3>3 DEF InEvents
        <4>2. y \in Places(k)
          BY <4>1, PlacesFacts
        <4>3. phi[y] = y
          BY <4>1, <4>2 DEF InEvents
        <4> QED  BY <4>2, <4>3
      <3> QED  BY <3>1, <3>2, <3>3, PlacesNext
    <2> HIDE DEF phi
    <2>3. PICK psi : psi = phi
      OBVIOUS
    <2>4. /\ \A y \in Places(k)' : \E x \in Places(k) : y = psi[x]
          /\ \A x \in Places(k) : psi[x] \in Places(k)'
      BY <2>1, <2>2, <2>3
    <2> QED  BY <1>0, <2>4, StaysRecorded DEF ActivityInv
  <1>5. ASSUME NEW d \in Chains  PROVE Waits(d)'
    <2>1. CASE d = c
      BY <1>3, <2>1 DEF Waits, ToSet
    <2>2. CASE d # c
      BY <1>0, <1>1, <1>3, <2>2 DEF ActivityInv, Waits
    <2> QED  BY <2>1, <2>2
  <1>6. ASSUME NEW g \in Flushers  PROVE Travels(g)'
    <2>1. CASE g # f
      BY <1>0, <1>3, <2>1 DEF ActivityInv, Travels, FlushUser, Mixed
    <2>2. CASE g = f /\ buffer[c] = <<>>
      BY <1>3, <2>2 DEF Travels, ToSet
    <2>3. CASE g = f /\ buffer[c] # <<>>
      <3>1. Head(buffer[c]) \in ToSet(buffer[c]) /\ FlushUser(f)' = Head(buffer[c]).user
        <4>1. Head(buffer[c]) = buffer[c][1] /\ 1 \in DOMAIN buffer[c]
          BY <1>0, <2>3, EmptySeq
        <4> QED  BY <1>3, <4>1 DEF ToSet, FlushUser
      <3>2. ASSUME NEW e \in ToSet(buffer[c])
            PROVE  e.user = Head(buffer[c]).user \/ Mixed(buffer[c], c)
        <4>1. KeyOf(e, c) \in Keyed(buffer[c], c) /\ KeyOf(Head(buffer[c]), c) \in Keyed(buffer[c], c)
          BY <3>1 DEF Keyed
        <4>2. Clear(KeyOf(e, c), e.user) /\ Clear(KeyOf(Head(buffer[c]), c), Head(buffer[c]).user)
          BY <3>1 DEF ActivityInv, Waits
        <4> QED  BY <4>1, <4>2 DEF Clear, Mixed
      <3>3. \A e \in ToSet(buffer[c]) : received[KeyOf(e, c)] = e.user
        BY DEF ActivityInv, Waits
      <3>4. /\ flush'[f].events = buffer[c] /\ flush'[f].chain = c
            /\ Mixed(flush[f].events, flush[f].chain)' = Mixed(buffer[c], c)
        BY <1>0, <1>3, <2>3 DEF Mixed
      <3> QED  BY <1>0, <2>3, <3>1, <3>2, <3>3, <3>4 DEF Travels
    <2> QED  BY <2>1, <2>2, <2>3
  <1>7. ASSUME NEW d \in events'  PROVE Filed(d)'
    BY <1>0 DEF ActivityInv, Filed, Mixed
  <1> QED  BY <1>2, <1>4, <1>5, <1>6, <1>7 DEF ActivityInv

\* Zerion is asked: the events stay where they are.
LEMMA EnrichActive ==
    ASSUME TInv, ActivityInv, NEW f \in Flushers, Enrich(f)
    PROVE  ActivityInv'
  <1>0. /\ flush \in [Flushers -> Flushed] /\ flush' = [flush EXCEPT ![f].pc = "receipt"]
        /\ UNCHANGED <<portfolioStill, hook, keys, buffer, timers, events, received, forgone, moved>>
    BY Zenon DEF TInv, IngestTypeOK, Enrich
  <1>1. Owner' = Owner /\ \A k, u : Clear(k, u)' = Clear(k, u)
    BY <1>0 DEF Owner, Clear, portfolioStill, registry
  <1>2. \A g \in Flushers : flush'[g].events = flush[g].events /\ flush'[g].chain = flush[g].chain
    BY <1>0 DEF Flushed
  <1>3. ASSUME NEW k \in Receipts  PROVE Recorded(k)'
    <2>1. ASSUME NEW x  PROVE x \in Places(k)' <=> x \in Places(k)
      <3>1. InFlush(k, x)' <=> InFlush(k, x)
        BY <1>2 DEF InFlush
      <3>2. (InBuffer(k, x)' <=> InBuffer(k, x)) /\ (InEvents(k, x)' <=> InEvents(k, x))
        BY <1>0 DEF InBuffer, InEvents
      <3> QED  BY <3>1, <3>2, PlacesFacts, PlacesNext
    <2>2. Places(k)' = Places(k)
      BY <2>1
    <2> QED  BY <1>0, <2>2 DEF ActivityInv, Recorded
  <1>4. \A h \in Hooks : Looked(h)'
    BY <1>0, <1>1 DEF ActivityInv, Looked, Raw
  <1>5. ASSUME NEW d \in Chains  PROVE Waits(d)'
    BY <1>0, <1>1 DEF ActivityInv, Waits
  <1>6. ASSUME NEW g \in Flushers  PROVE Travels(g)'
    BY <1>0, <1>2 DEF ActivityInv, Travels, FlushUser, Mixed
  <1>7. ASSUME NEW d \in events'  PROVE Filed(d)'
    BY <1>0 DEF ActivityInv, Filed, Mixed
  <1> QED  BY <1>3, <1>4, <1>5, <1>6, <1>7 DEF ActivityInv

\* The document is written, or all its events are forgone.
LEMMA SaveActive ==
    ASSUME TInv, ActivityInv, NEW f \in Flushers, Save(f)
    PROVE  ActivityInv'
  <1>0. /\ IngestTypeOK /\ flush \in [Flushers -> Flushed] /\ flush[f].pc = "receipt"
        /\ flush' = [flush EXCEPT ![f] = NoFlush]
        /\ UNCHANGED <<portfolioStill, hook, keys, buffer, timers, received, moved>>
    BY Zenon DEF TInv, IngestTypeOK, Save
  <1>1. Owner' = Owner /\ \A k, u : Clear(k, u)' = Clear(k, u)
    BY <1>0 DEF Owner, Clear, portfolioStill, registry
  <1>2. /\ flush'[f].events = <<>> /\ \A g \in Flushers \ {f} : flush'[g] = flush[g]
        /\ \A i : i \notin DOMAIN flush'[f].events
    BY <1>0 DEF NoFlush
  <1>3. \A h \in Hooks : Looked(h)'
    BY <1>0, <1>1 DEF ActivityInv, Looked, Raw
  <1>4. ASSUME NEW d \in Chains  PROVE Waits(d)'
    BY <1>0, <1>1 DEF ActivityInv, Waits
  <1>5. ASSUME NEW g \in Flushers  PROVE Travels(g)'
    <2>1. CASE g # f
      BY <1>0, <1>2, <2>1 DEF ActivityInv, Travels, FlushUser, Mixed
    <2>2. CASE g = f
      BY <1>2, <2>2 DEF Travels, ToSet
    <2> QED  BY <2>1, <2>2
  <1>6. ASSUME NEW k, NEW x
        PROVE  InFlush(k, x) <=> \/ InFlush(k, x)'
                                 \/ \E i \in DOMAIN flush[f].events :
                                      /\ KeyOf(flush[f].events[i], flush[f].chain) = k
                                      /\ x = <<"flush", f, i>>
    <2> DEFINE From0(g) == \E i \in DOMAIN flush[g].events :
                  KeyOf(flush[g].events[i], flush[g].chain) = k /\ x = <<"flush", g, i>>
               To(g) == \E i \in DOMAIN flush'[g].events :
                  KeyOf(flush'[g].events[i], flush'[g].chain) = k /\ x = <<"flush", g, i>>
    <2>1. \A g \in Flushers \ {f} : To(g) <=> From0(g)
      BY <1>2
    <2>2. ~To(f)
      BY <1>2
    <2>3. (InFlush(k, x) <=> \E g \in Flushers : From0(g)) /\ (InFlush(k, x)' <=> \E g \in Flushers : To(g))
      BY DEF InFlush
    <2> HIDE DEF From0, To
    <2>4. InFlush(k, x) <=> InFlush(k, x)' \/ From0(f)
      BY <2>1, <2>2, <2>3
    <2> QED  BY <2>4 DEF From0
  <1>7. CASE UNCHANGED events /\ forgone' = forgone \union Keyed(flush[f].events, flush[f].chain)
    <2>1. ASSUME NEW k \in Receipts  PROVE Recorded(k)'
      <3>1. ASSUME NEW x  PROVE (x \in Places(k)' => x \in Places(k))
                              /\ (x \in Places(k) => x \in Places(k)' \/ k \in forgone')
        <4>1. (InBuffer(k, x)' <=> InBuffer(k, x)) /\ (InEvents(k, x)' <=> InEvents(k, x))
          BY <1>0, <1>7 DEF InBuffer, InEvents
        <4>2. (InFlush(k, x)' => InFlush(k, x)) /\ (InFlush(k, x) => InFlush(k, x)' \/ k \in forgone')
          BY <1>6, <1>7 DEF Keyed, ToSet
        <4> QED  BY <4>1, <4>2, PlacesFacts, PlacesNext
      <3> QED  BY <1>0, <1>7, <3>1 DEF ActivityInv, Recorded
    <2>2. ASSUME NEW d \in events'  PROVE Filed(d)'
      BY <1>0, <1>7 DEF ActivityInv, Filed, Mixed
    <2> QED  BY <1>3, <1>4, <1>5, <2>1, <2>2 DEF ActivityInv
  <1>8. ASSUME NEW s \in Statuses, UNCHANGED forgone,
               events' = events \union {[user |-> FlushUser(f), chain |-> flush[f].chain,
                                         of |-> flush[f].events, status |-> s]}
        PROVE  ActivityInv'
    <2>1. PICK new : new = [user |-> FlushUser(f), chain |-> flush[f].chain,
                            of |-> flush[f].events, status |-> s]
      OBVIOUS
    <2>2. /\ events' = events \union {new} /\ new.user = FlushUser(f)
          /\ new.chain = flush[f].chain /\ new.of = flush[f].events
      BY <1>8, <2>1
    <2>3. ASSUME NEW k, NEW x
          PROVE  InEvents(k, x)' <=> \/ InEvents(k, x)
                                     \/ \E i \in DOMAIN flush[f].events :
                                          /\ KeyOf(flush[f].events[i], flush[f].chain) = k
                                          /\ x = <<"event", new, i>>
      BY <2>2 DEF InEvents
    <2>4. ASSUME NEW k \in Receipts  PROVE Recorded(k)'
      <3> DEFINE phi == [x \in Places(k) |-> IF x[1] = "flush" /\ x[2] = f THEN <<"event", new, x[3]>> ELSE x]
      <3>1. ASSUME NEW x  PROVE InBuffer(k, x)' <=> InBuffer(k, x)
        BY <1>0 DEF InBuffer
      <3>2. ASSUME NEW x, InBuffer(k, x) \/ InFlush(k, x)' \/ InEvents(k, x)
            PROVE  x \in Places(k) /\ phi[x] = x
        <4>1. x \in Places(k)
          BY <1>6, <3>2, PlacesFacts
        <4>2. ~(x[1] = "flush" /\ x[2] = f)
          <5>1. CASE InBuffer(k, x)
            BY <5>1 DEF InBuffer
          <5>2. CASE InFlush(k, x)'
            BY <1>2, <5>2 DEF InFlush
          <5>3. CASE InEvents(k, x)
            BY <5>3 DEF InEvents
          <5> QED  BY <3>2, <5>1, <5>2, <5>3
        <4> QED  BY <4>1, <4>2
      <3>3. ASSUME NEW i \in DOMAIN flush[f].events, KeyOf(flush[f].events[i], flush[f].chain) = k
            PROVE  /\ <<"flush", f, i>> \in Places(k) /\ phi[<<"flush", f, i>>] = <<"event", new, i>>
                   /\ <<"event", new, i>> \in Places(k)'
        <4>1. <<"flush", f, i>> \in Places(k)
          BY <1>6, <3>3, PlacesFacts
        <4>2. <<"event", new, i>> \in Places(k)'
          BY <2>3, <3>3, PlacesNext
        <4> QED  BY <4>1, <4>2
      <3> HIDE DEF phi
      <3>4. ASSUME NEW x \in Places(k)  PROVE phi[x] \in Places(k)'
        <4>1. CASE InBuffer(k, x) \/ InFlush(k, x)' \/ InEvents(k, x)
          BY <2>3, <3>1, <3>2, <4>1, PlacesNext
        <4>2. CASE \E i \in DOMAIN flush[f].events :
                     KeyOf(flush[f].events[i], flush[f].chain) = k /\ x = <<"flush", f, i>>
          BY <3>3, <4>2
        <4> QED  BY <1>6, <4>1, <4>2, PlacesFacts
      <3>5. ASSUME NEW y \in Places(k)'  PROVE \E x \in Places(k) : y = phi[x]
        <4>1. CASE InBuffer(k, y) \/ InFlush(k, y)' \/ InEvents(k, y)
          BY <3>2, <4>1
        <4>2. CASE \E i \in DOMAIN flush[f].events :
                     KeyOf(flush[f].events[i], flush[f].chain) = k /\ y = <<"event", new, i>>
          BY <3>3, <4>2
        <4> QED  BY <2>3, <3>1, <4>1, <4>2, PlacesNext
      <3>6. PICK psi : psi = phi
        OBVIOUS
      <3>7. /\ \A y \in Places(k)' : \E x \in Places(k) : y = psi[x]
            /\ \A x \in Places(k) : psi[x] \in Places(k)'
        BY <3>4, <3>5, <3>6
      <3> QED  BY <1>0, <1>8, <3>7, StaysRecorded DEF ActivityInv
    <2>5. ASSUME NEW d \in events'  PROVE Filed(d)'
      <3>1. CASE d \in events
        BY <1>0, <3>1 DEF ActivityInv, Filed, Mixed
      <3>2. CASE d = new
        <4>1. ASSUME NEW k \in Keyed(flush[f].events, flush[f].chain)
              PROVE  FlushUser(f) = received[k] \/ Mixed(flush[f].events, flush[f].chain)
          <5>1. PICK e \in ToSet(flush[f].events) : k = KeyOf(e, flush[f].chain)
            BY DEF Keyed
          <5> QED  BY <5>1 DEF ActivityInv, Travels
        <4> QED  BY <1>0, <2>2, <3>2, <4>1 DEF Filed, Mixed
      <3> QED  BY <2>2, <3>1, <3>2
    <2> QED  BY <1>3, <1>4, <1>5, <2>4, <2>5 DEF ActivityInv
  <1> QED  BY <1>7, <1>8 DEF Save

\* The process dies: what was buffered or travelled is forgone.
LEMMA IngestDiesActive ==
    ASSUME TInv, ActivityInv, IngestDies
    PROVE  ActivityInv'
  <1>0. /\ buffer' = [c \in Chains |-> <<>>] /\ flush' = [f \in Flushers |-> NoFlush]
        /\ hook' = [h \in Hooks |-> NoHook] /\ timers' = {}
        /\ UNCHANGED <<portfolioStill, keys, events, received, moved>>
        /\ forgone \subseteq forgone'
        /\ \A c \in Chains : Keyed(buffer[c], c) \subseteq forgone'
        /\ \A f \in Flushers : Keyed(flush[f].events, flush[f].chain) \subseteq forgone'
    BY DEF IngestDies
  <1>1. \A h \in Hooks : Looked(h)'
    BY <1>0 DEF Looked, NoHook
  <1>2. \A c \in Chains : Waits(c)'
    BY <1>0 DEF Waits, ToSet
  <1>3. \A f \in Flushers : Travels(f)'
    BY <1>0 DEF Travels, ToSet, NoFlush
  <1>4. ASSUME NEW d \in events'  PROVE Filed(d)'
    BY <1>0 DEF ActivityInv, Filed, Mixed
  <1>5. ASSUME NEW k \in Receipts  PROVE Recorded(k)'
    <2>1. ASSUME NEW x
          PROVE  /\ ~InBuffer(k, x)' /\ ~InFlush(k, x)' /\ (InEvents(k, x)' <=> InEvents(k, x))
                 /\ InBuffer(k, x) \/ InFlush(k, x) => k \in forgone'
      <3>1. ~InBuffer(k, x)' /\ ~InFlush(k, x)'
        BY <1>0 DEF InBuffer, InFlush, NoFlush
      <3>2. InEvents(k, x)' <=> InEvents(k, x)
        BY <1>0 DEF InEvents
      <3>3. InBuffer(k, x) => k \in forgone'
        BY <1>0 DEF InBuffer, Keyed, ToSet
      <3>4. InFlush(k, x) => k \in forgone'
        BY <1>0 DEF InFlush, Keyed, ToSet
      <3> QED  BY <3>1, <3>2, <3>3, <3>4
    <2>2. ASSUME NEW x  PROVE /\ x \in Places(k)' => x \in Places(k)
                              /\ x \in Places(k) => x \in Places(k)' \/ k \in forgone'
      BY <2>1, PlacesFacts, PlacesNext
    <2> QED  BY <1>0, <2>2 DEF ActivityInv, Recorded
  <1> QED  BY <1>1, <1>2, <1>3, <1>4, <1>5 DEF ActivityInv

\* A document's status is written: it stays the document of its events.
LEMMA StatusActive ==
    ASSUME TInv, ActivityInv, NEW d \in scan.todo, WriteStatus(d)
    PROVE  ActivityInv'
  <1>0. /\ scan.todo \subseteq Document /\ scan.status \in Statuses
        /\ UNCHANGED <<portfolioStill, hook, keys, buffer, timers, flush, received, forgone, moved>>
        /\ events' = {IF e = d THEN [d EXCEPT !.status = scan.status] ELSE e : e \in events}
    BY DEF TInv, IngestTypeOK, WriteStatus
  <1>1. Owner' = Owner /\ \A k, u : Clear(k, u)' = Clear(k, u)
    BY <1>0 DEF Owner, Clear, portfolioStill, registry
  <1>2. PICK new : new = [d EXCEPT !.status = scan.status]
    OBVIOUS
  <1>3. new.of = d.of /\ new.chain = d.chain /\ new.user = d.user
    BY <1>0, <1>2 DEF Document
  <1>4. PICK to : to = [e \in events |-> IF e = d THEN new ELSE e]
    OBVIOUS
  <1>5. /\ \A e \in events : to[e] \in events' /\ to[e].of = e.of /\ to[e].chain = e.chain /\ to[e].user = e.user
        /\ \A e \in events' : \E g \in events : e = to[g]
    BY <1>0, <1>2, <1>3, <1>4
  <1>6. ASSUME NEW k \in Receipts  PROVE Recorded(k)'
    <2> DEFINE phi == [x \in Places(k) |-> IF x[1] = "event" THEN <<"event", to[x[2]], x[3]>> ELSE x]
    <2>1. ASSUME NEW x, InBuffer(k, x) \/ InFlush(k, x)
          PROVE  x \in Places(k) /\ phi[x] = x /\ x \in Places(k)'
      <3>1. x \in Places(k)
        BY <2>1, PlacesFacts
      <3>2. x[1] # "event"
        BY <2>1 DEF InBuffer, InFlush
      <3>3. InBuffer(k, x)' \/ InFlush(k, x)'
        BY <1>0, <2>1 DEF InBuffer, InFlush
      <3>4. x \in Places(k)'
        BY <3>3, PlacesNext
      <3> QED  BY <3>1, <3>2, <3>4
    <2>2. ASSUME NEW e \in events, NEW i \in DOMAIN e.of, KeyOf(e.of[i], e.chain) = k
          PROVE  /\ <<"event", e, i>> \in Places(k) /\ phi[<<"event", e, i>>] = <<"event", to[e], i>>
                 /\ <<"event", to[e], i>> \in Places(k)'
      <3>1. <<"event", e, i>> \in Places(k)
        BY <2>2, PlacesFacts DEF InEvents
      <3>2. <<"event", to[e], i>> \in Places(k)'
        <4>1. InEvents(k, <<"event", to[e], i>>)'
          BY <1>5, <2>2 DEF InEvents
        <4> QED  BY <4>1, PlacesNext
      <3> QED  BY <3>1, <3>2
    <2> HIDE DEF phi
    <2>3. ASSUME NEW x \in Places(k)  PROVE phi[x] \in Places(k)'
      <3>1. CASE InEvents(k, x)
        BY <2>2, <3>1 DEF InEvents
      <3> QED  BY <2>1, <3>1, PlacesFacts
    <2>4. ASSUME NEW y \in Places(k)'  PROVE \E x \in Places(k) : y = phi[x]
      <3>1. CASE InEvents(k, y)'
        <4>1. PICK e, i : e \in events' /\ i \in DOMAIN e.of /\ KeyOf(e.of[i], e.chain) = k /\ y = <<"event", e, i>>
          BY <3>1 DEF InEvents
        <4>2. PICK g \in events : e = to[g]
          BY <1>5, <4>1
        <4>3. i \in DOMAIN g.of /\ KeyOf(g.of[i], g.chain) = k
          BY <1>5, <4>1, <4>2
        <4>4. <<"event", g, i>> \in Places(k) /\ y = phi[<<"event", g, i>>]
          BY <2>2, <4>1, <4>2, <4>3
        <4> QED  BY <4>4
      <3>2. CASE InBuffer(k, y)' \/ InFlush(k, y)'
        <4>1. InBuffer(k, y) \/ InFlush(k, y)
          BY <1>0, <3>2 DEF InBuffer, InFlush
        <4> QED  BY <2>1, <4>1
      <3> QED  BY <3>1, <3>2, PlacesNext
    <2>5. PICK psi : psi = phi
      OBVIOUS
    <2>6. /\ \A y \in Places(k)' : \E x \in Places(k) : y = psi[x]
          /\ \A x \in Places(k) : psi[x] \in Places(k)'
      BY <2>3, <2>4, <2>5
    <2> QED  BY <1>0, <2>6, StaysRecorded DEF ActivityInv
  <1>7. \A h \in Hooks : Looked(h)'
    BY <1>0, <1>1 DEF ActivityInv, Looked, Raw
  <1>8. ASSUME NEW c \in Chains  PROVE Waits(c)'
    BY <1>0, <1>1 DEF ActivityInv, Waits
  <1>9. ASSUME NEW f \in Flushers  PROVE Travels(f)'
    BY <1>0 DEF ActivityInv, Travels, FlushUser, Mixed
  <1>10. ASSUME NEW e \in events'  PROVE Filed(e)'
    <2>1. PICK g \in events : e = to[g]
      BY <1>5
    <2>2. e.of = g.of /\ e.chain = g.chain /\ e.user = g.user
      BY <1>5, <2>1
    <2> QED  BY <1>0, <2>2 DEF ActivityInv, Filed, Mixed
  <1> QED  BY <1>6, <1>7, <1>8, <1>9, <1>10 DEF ActivityInv

\* A step of the webhooks' feed.
LEMMA IngestActive ==
    ASSUME TInv, ActivityInv, IngestNext
    PROVE  ActivityInv'
  <1>0. WalletTypes /\ IngestTypeOK
    BY DEF TInv
  <1>1. ASSUME UNCHANGED <<registry, hookVars>>  PROVE ActivityInv'
    <2>1. Owner' = Owner
      BY <1>1 DEF Owner, registry
    <2>2. \A h \in Hooks : Looked(h)'
      BY <1>1, <2>1 DEF hookVars, ActivityInv, Looked, Clear, Raw
    <2> QED  BY <1>1, <2>1, <2>2, StayActive DEF hookVars
  <1>2. ASSUME NEW h \in Hooks, (\E d \in Deliveries : Deliver(h, d)) \/ Find(h) \/ ClaimKey(h)
        PROVE  ActivityInv'
    BY <1>2, HooksActive, ClaimActive
  <1>3. ASSUME NEW f \in Flushers,
               \/ \E c \in Chains : Flush(f, c)
               \/ Enrich(f) \/ Save(f)
               \/ (FetchWallets(f) \/ FetchExchange(f) \/ Upsert(f)) /\ UNCHANGED hookVars
        PROVE  ActivityInv'
    <2>1. FetchWallets(f) \/ FetchExchange(f) \/ Upsert(f) => UNCHANGED registry
      BY Zenon DEF FetchWallets, FetchExchange, Upsert, registry, portfolioRest
    <2> QED  BY <1>1, <1>3, <2>1, FlushActive, EnrichActive, SaveActive
  <1>4. ASSUME NEW u \in Owners, ListUnsettled(u)  PROVE ActivityInv'
    <2>1. UNCHANGED <<registry, hook, keys, buffer, timers, flush, events, received, forgone, moved>>
      BY <1>4 DEF ListUnsettled, portfolioStill
    <2>2. Owner' = Owner /\ \A h \in Hooks : Looked(h)'
      BY <2>1 DEF Owner, registry, ActivityInv, Looked, Clear, Raw
    <2> QED  BY <2>1, <2>2, StayActive
  <1>5. ASSUME NEW d \in scan.todo, NEW s \in Statuses, AskReceipt(d, s)  PROVE ActivityInv'
    <2>1. UNCHANGED <<registry, hook, keys, buffer, timers, flush, events, received, forgone, moved>>
      BY <1>5 DEF AskReceipt, portfolioStill
    <2>2. Owner' = Owner /\ \A h \in Hooks : Looked(h)'
      BY <2>1 DEF Owner, registry, ActivityInv, Looked, Clear, Raw
    <2> QED  BY <2>1, <2>2, StayActive
  <1> QED  BY <1>2, <1>3, <1>4, <1>5, WalletsActive, IngestDiesActive, StatusActive DEF IngestNext

\* Nothing has been received to begin with, nor in another feed's behaviours.
LEMMA InitActive ==
    ASSUME IngestInit  PROVE ActivityInv
  <1>1. ASSUME NEW k \in Receipts  PROVE Recorded(k)
    <2>1. ASSUME NEW x  PROVE x \notin Places(k)
      <3>1. ~InBuffer(k, x) /\ ~InFlush(k, x) /\ ~InEvents(k, x)
        BY DEF IngestInit, InBuffer, InFlush, InEvents, NoFlush
      <3> QED  BY <3>1, PlacesFacts
    <2> QED  BY <2>1 DEF IngestInit, Recorded, Receipts
  <1>2. \A h \in Hooks : Looked(h)
    BY DEF IngestInit, Looked, NoHook
  <1>3. \A c \in Chains : Waits(c)
    BY DEF IngestInit, Waits, ToSet
  <1>4. \A f \in Flushers : Travels(f)
    BY DEF IngestInit, Travels, ToSet, NoFlush
  <1> QED  BY <1>1, <1>2, <1>3, <1>4 DEF ActivityInv, IngestInit

\* And so it is after a step that leaves all that alone.
LEMMA InitActiveNext ==
    ASSUME IngestInit'  PROVE ActivityInv'
  <1>1. ASSUME NEW k \in Receipts  PROVE Recorded(k)'
    <2>1. ASSUME NEW x  PROVE x \notin Places(k)'
      <3>1. ~InBuffer(k, x)' /\ ~InFlush(k, x)' /\ ~InEvents(k, x)'
        BY DEF IngestInit, InBuffer, InFlush, InEvents, NoFlush
      <3> QED  BY <3>1, PlacesNext
    <2> QED  BY <2>1 DEF IngestInit, Recorded, Receipts
  <1>2. \A h \in Hooks : Looked(h)'
    BY DEF IngestInit, Looked, NoHook
  <1>3. \A c \in Chains : Waits(c)'
    BY DEF IngestInit, Waits, ToSet
  <1>4. \A f \in Flushers : Travels(f)'
    BY DEF IngestInit, Travels, ToSet, NoFlush
  <1> QED  BY <1>1, <1>2, <1>3, <1>4 DEF ActivityInv, IngestInit

\* A step of any feed, or none.
LEMMA StepActive ==
    ASSUME TInv, ReceivedInv, [Next]_vars  PROVE ReceivedInv'
  <1>1. CASE feed = "webhooks" /\ IngestNext /\ feed' = feed
    BY <1>1, IngestActive DEF ReceivedInv
  <1>2. CASE feed # "webhooks" /\ UNCHANGED <<feed, hookVars>>
    <2>1. IngestInit'
      BY <1>2 DEF ReceivedInv, IngestInit, hookVars
    <2>2. ActivityInv'
      BY <2>1, InitActiveNext
    <2> QED  BY <2>1, <2>2 DEF ReceivedInv
  <1>3. CASE feed = "webhooks" /\ UNCHANGED vars
    <2>1. UNCHANGED <<registry, hook, keys, buffer, timers, flush, events, received, forgone, moved>>
      BY <1>3 DEF vars, hookVars, portfolioVars
    <2>2. Owner' = Owner /\ \A h \in Hooks : Looked(h)'
      BY <2>1 DEF Owner, registry, ReceivedInv, ActivityInv, Looked, Clear, Raw
    <2>3. ActivityInv'
      BY <2>1, <2>2, StayActive DEF ReceivedInv
    <2> QED  BY <1>3, <2>3 DEF ReceivedInv, vars
  <1> QED  BY <1>1, <1>2, <1>3 DEF Next, vars

\* An activity received for a wallet is at any time in exactly one place, or a
\* call about it failed or the process died; its document is filed under whom
\* the wallet belonged to, unless the address changed hands while its events
\* waited; and what waits has a timer: for any deliveries, however many are
\* handled or flushed at a time.
THEOREM ActivitiesOnce == Spec => []ActivitiesAreRecordedOnce
  <1>1. Init => TInv /\ ReceivedInv
    BY InitTypes, InitActive DEF Init, ReceivedInv
  <1>2. TInv /\ ReceivedInv /\ [Next]_vars => TInv' /\ ReceivedInv'
    BY StepTypes, StepActive
  <1>3. TInv /\ ReceivedInv => ActivitiesAreRecordedOnce
    <2> SUFFICES ASSUME TInv, ReceivedInv  PROVE ActivitiesAreRecordedOnce
      OBVIOUS
    <2>1. DOMAIN received = Receipts
      BY DEF TInv, IngestTypeOK
    <2> QED  BY <2>1 DEF ReceivedInv, ActivityInv, Recorded, Waits, Filed, Mixed, ActivitiesAreRecordedOnce
  <1> QED  BY <1>1, <1>2, <1>3, PTL DEF Spec
=============================================================================
