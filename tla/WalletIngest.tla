---------------------------- MODULE WalletIngest ----------------------------
(* Wallet activity: the webhooks of Alchemy and Zerion, which are answered   *)
(* before they are handled, the idempotency keys they claim, the in-memory   *)
(* buffer of one process with its timers, the flush of a buffer into one     *)
(* wallet event (with the holdings it may refresh on the way) and the later  *)
(* refresh of an event's transaction status.                                 *)
EXTENDS Portfolio, Sequences, SequencesExt

CONSTANTS Hooks,      \* webhook deliveries handled at a time
          Flushers,   \* flushes under way at a time; they build holdings
          Deliveries, \* what providers send: [src, chain, txs], several times
          ExchangeOn  \* config.exchangePortfolioEnabled

ASSUME IngestAssumption ==
  /\ Flushers \subseteq Pollers /\ ExchangeOn \in BOOLEAN /\ "nobody" \notin Owners
  /\ Deliveries \subseteq [src : {"alchemy", "zerion"}, chain : STRING, txs : Seq(STRING)]
  /\ \A d \in Deliveries : d.txs # <<>>

VARIABLES hook,     \* delivery -> [pc, src, chain, txs, user]
          keys,     \* WebhookIdempotency: claimed keys
          buffer,   \* chain -> events of Address waiting to be flushed
          timers,   \* chains whose flush timer is set
          flush,    \* flusher -> [pc, chain, events, multi, status]
          events,   \* WalletEvent documents: [user, chain, events, status]
          scan,     \* user's refresh of statuses: [pc, todo, event, status]
          received, \* ghost: key -> whom the wallet belonged to, or "nobody"
          forgone,  \* ghost: events lost to a failed call, or to a death
          moved     \* ghost: events found or buffered when the address changed hands

hookVars == <<hook, keys, buffer, timers, flush, events, scan,
              received, forgone, moved>>
portfolioStill == <<registry, providers, conn, holdings, primary, job, missed>>

Address == CHOOSE a \in Supplied : TRUE  \* Bound: activity of one address
Chains == {d.chain : d \in Deliveries}
Sources == {"alchemy", "zerion"}
Txs == UNION {ToSet(d.txs) : d \in Deliveries}

NoHook == [pc |-> "idle", src |-> "none", chain |-> "none", txs |-> <<>>, user |-> "nobody"]
NoFlush == [pc |-> "idle", chain |-> "none", events |-> <<>>, multi |-> FALSE]
NoScan == [pc |-> "idle", todo |-> {}, status |-> "none"]

Owner == {w.user : w \in {v \in wallets : v.address = Stored[Address]}}
Raw(h) == [src |-> hook[h].src, tx |-> Head(hook[h].txs), user |-> hook[h].user]
KeyOf(e, chain) == <<e.src, chain, e.tx>>
Keyed(s, chain) == {KeyOf(e, chain) : e \in ToSet(s)}
Brought(h) == {<<hook[h].src, hook[h].chain, t>> : t \in ToSet(hook[h].txs)}
Rest(r) == IF Len(r.txs) = 1 THEN NoHook ELSE [r EXCEPT !.pc = "find", !.txs = Tail(r.txs)]
Skip(h) == hook' = [hook EXCEPT ![h] = Rest(hook[h])]
-----------------------------------------------------------------------------
\* alchemyWebhook, zerionWebhook: 200 is sent, the signature verified, the
\* body parsed; what does not parse or verify is discarded.
Deliver(h, d) ==
  /\ hook[h] = NoHook /\ Spend(1)
  /\ hook' = [hook EXCEPT ![h] =
       [pc |-> "find", src |-> d.src, chain |-> d.chain, txs |-> d.txs, user |-> "nobody"]]
  /\ UNCHANGED <<portfolioStill, build, keys, buffer, timers, flush, events, scan,
                 received, forgone, moved>>

\* findWalletByAddress; a rejection counts as no wallet, and the activity is
\* passed over.
Find(h) ==
  LET lost == {KeyOf(Raw(h), hook[h].chain)}
  IN  /\ hook[h].pc = "find"
      /\ \/ /\ Owner # {} /\ UNCHANGED <<stimuli, forgone>>
            /\ hook' = [hook EXCEPT ![h].pc = "claim", ![h].user = CHOOSE u \in Owner : TRUE]
         \/ Owner = {} /\ Skip(h) /\ UNCHANGED <<stimuli, forgone>>
         \/ Owner # {} /\ Spend(1) /\ Skip(h) /\ forgone' = forgone \union lost
      /\ UNCHANGED <<portfolioStill, build, keys, buffer, timers, flush, events, scan, received, moved>>

\* ingestWalletEvent: buffered whether or not the address cools down; a timer
\* is set unless one is.
Ingest(e, chain) ==
  /\ buffer' = [buffer EXCEPT ![chain] = Append(@, e)]
  /\ timers' = timers \union {chain}

\* Slip: the key is looked up and not taken.
ClaimLater(h) ==
  LET e == Raw(h) c == hook[h].chain
  IN  /\ hook[h].pc = "claim" /\ Skip(h) /\ KeyOf(e, c) \notin keys /\ Ingest(e, c)
      /\ received' = [received EXCEPT ![KeyOf(e, c)] = e.user]
      /\ UNCHANGED <<stimuli, portfolioStill, build, keys, flush, events, scan,
                     forgone, moved>>

\* claimWebhookIdempotencyKey, and in the same turn ingestWalletEvent.  When
\* the claim throws the handler ends: the rest of the delivery goes with it.
ClaimKey(h) ==
  LET e == Raw(h)
      c == hook[h].chain
      taken == KeyOf(e, c) \in keys
  IN  /\ hook[h].pc = "claim"
      /\ \/ /\ ~taken /\ Ingest(e, c) /\ keys' = keys \union {KeyOf(e, c)} /\ Skip(h)
            /\ received' = [received EXCEPT ![KeyOf(e, c)] = e.user]
            /\ UNCHANGED <<stimuli, forgone>>
         \/ taken /\ Skip(h) /\ UNCHANGED <<stimuli, keys, buffer, timers, received, forgone>>
         \/ /\ Spend(1) /\ hook' = [hook EXCEPT ![h] = NoHook]
            /\ forgone' = forgone \union Brought(h)
            /\ UNCHANGED <<keys, buffer, timers, received>>
      /\ UNCHANGED <<portfolioStill, build, flush, events, scan, moved>>
-----------------------------------------------------------------------------
\* The timer: flushBuffer takes what is buffered.  The address is active on
\* several chains if another buffer of it is not empty.
Flush(f, chain) ==
  /\ chain \in timers /\ flush[f].pc = "idle"
  /\ timers' = timers \ {chain} /\ buffer' = [buffer EXCEPT ![chain] = <<>>]
  /\ flush' = [flush EXCEPT ![f] =
       IF buffer[chain] = <<>> THEN NoFlush
       ELSE [pc |-> "enrich", chain |-> chain, events |-> buffer[chain],
             multi |-> \E c \in Chains \ {chain} : buffer[c] # <<>>]]
  /\ UNCHANGED <<stimuli, portfolioStill, build, hook, keys, events, scan,
                 received, forgone, moved>>

\* The event's user is the first one's.  Zerion answers (or is switched off,
\* or fails, which is caught); then, unless aggregatorUpsertDisabled, the
\* holdings of the user are written: all of his sources' with the exchange on,
\* this wallet's alone with it off.
FlushUser(f) == Head(flush[f].events).user
Enrich(f) ==
  /\ flush[f].pc = "enrich" /\ flush' = [flush EXCEPT ![f].pc = "receipt"]
  /\ \/ /\ flush[f].multi
        /\ IF ExchangeOn THEN Start(f, FlushUser(f))
           ELSE build' = [build EXCEPT ![f] =
             [pc |-> "upsert", user |-> FlushUser(f), from |-> {Stored[Address]},
              full |-> TRUE, raced |-> FALSE]]
     \/ UNCHANGED build
  /\ UNCHANGED <<stimuli, portfolioStill, hook, keys, buffer, timers, events, scan,
                 received, forgone, moved>>

\* claimAlchemyRpcBudget: any call may be beyond the day's budget, or find Redis
\* away; then no node is asked.
Denied == "pending"

\* getTransactionReceipt of the first event, by Alchemy and then by a public
\* node: what neither answers is pending, too; with Alchemy switched off there
\* is no status.
Statuses == {"none", Denied, "mined"}

\* The event document, for all the events taken; a rejection is only logged.
Save(f) ==
  /\ flush[f].pc = "receipt" /\ build[f] = NoBuild
  /\ flush' = [flush EXCEPT ![f] = NoFlush]
  /\ \/ /\ \E s \in Statuses : events' = events \union
             {[user |-> FlushUser(f), chain |-> flush[f].chain, of |-> flush[f].events,
               status |-> s]}
        /\ UNCHANGED <<stimuli, forgone>>
     \/ /\ Spend(1) /\ UNCHANGED events
        /\ forgone' = forgone \union Keyed(flush[f].events, flush[f].chain)
  /\ UNCHANGED <<portfolioStill, build, hook, keys, buffer, timers, scan, received,
                 moved>>

\* Buffers, timers and flushes live in the process; the keys do not.
IngestDies ==
  /\ Spend(1)
  /\ forgone' = forgone
       \union (UNION {Keyed(buffer[c], c) : c \in Chains})
       \union (UNION {Keyed(flush[f].events, flush[f].chain) : f \in Flushers})
       \union (UNION {Brought(h) : h \in Hooks})
  /\ hook' = [h \in Hooks |-> NoHook] /\ buffer' = [c \in Chains |-> <<>>]
  /\ timers' = {} /\ flush' = [f \in Flushers |-> NoFlush]
  /\ build' = [b \in DOMAIN build |-> IF b \in Flushers THEN NoBuild ELSE build[b]]
  /\ UNCHANGED <<portfolioStill, keys, events, scan, received, moved>>
-----------------------------------------------------------------------------
\* refreshEventStatuses: the documents without a final status are listed, and
\* for each the receipt is asked for, compared with what was listed, written.
Unsettled(u) == {d \in events : d.user = u /\ d.status # "mined"}

ListUnsettled(u) ==
  /\ scan.pc = "idle" /\ Unsettled(u) # {} /\ Spend(1)
  /\ scan' = [pc |-> "receipt", todo |-> Unsettled(u), status |-> "none"]
  /\ UNCHANGED <<portfolioStill, build, hook, keys, buffer, timers, flush, events,
                 received, forgone, moved>>

AskReceipt(d, s) ==
  /\ scan.pc = "receipt" /\ d \in scan.todo /\ s \in {"none", "pending", "mined"}
  /\ LET rest == scan.todo \ {d}
     IN  scan' = IF s \in {"none", d.status}
                 THEN IF rest = {} THEN NoScan ELSE [scan EXCEPT !.todo = rest]
                 ELSE [pc |-> "write", todo |-> scan.todo, status |-> s]
  /\ UNCHANGED <<stimuli, portfolioStill, build, hook, keys, buffer, timers, flush, events, received, forgone, moved>>

WriteStatus(d) ==
  LET rest == scan.todo \ {d}
  IN  /\ scan.pc = "write" /\ d \in scan.todo
      /\ events' = {IF e = d THEN [d EXCEPT !.status = scan.status] ELSE e : e \in events}
      /\ scan' = IF rest = {} THEN NoScan
                 ELSE [pc |-> "receipt", todo |-> rest, status |-> "none"]
      /\ UNCHANGED <<stimuli, portfolioStill, build, hook, keys, buffer, timers, flush, received, forgone, moved>>
-----------------------------------------------------------------------------
\* The requests that change wallets meanwhile; ghost: events found or buffered
\* for somebody else.
WalletsChange(c) ==
  /\ \/ \E u \in Owners : AddWallet(c, u, Address)
     \/ \E w \in wallets : RemoveWallet(c, w)
     \/ CreateWallet(c) \/ Purge(c) \/ Register(c) \/ Subscribe(c)
     \/ Unregister(c) \/ Unsubscribe(c) \/ DeleteWallet(c)
  /\ moved' = IF Owner' = Owner THEN moved
              ELSE moved \union (UNION {Keyed(buffer[chain], chain) : chain \in Chains})
                         \union {KeyOf(Raw(h), hook[h].chain) :
                                    h \in {g \in Hooks : hook[g].pc = "claim"}}
  /\ UNCHANGED <<hook, keys, buffer, timers, flush, events, scan, received, forgone>>

IngestInit ==
  /\ hook = [h \in Hooks |-> NoHook] /\ keys = {}
  /\ buffer = [c \in Chains |-> <<>>] /\ timers = {}
  /\ flush = [f \in Flushers |-> NoFlush] /\ events = {} /\ scan = NoScan
  /\ received = [k \in Sources \X Chains \X Txs |-> "nobody"] /\ forgone = {} /\ moved = {}

IngestNext ==
  \/ \E c \in Clients : WalletsChange(c)
  \/ \E h \in Hooks : \/ \E d \in Deliveries : Deliver(h, d)
                      \/ Find(h) \/ ClaimKey(h)
  \/ \E f \in Flushers :
       \/ \E c \in Chains : Flush(f, c)
       \/ Enrich(f) \/ Save(f)
       \/ (FetchWallets(f) \/ FetchExchange(f) \/ Upsert(f)) /\ UNCHANGED hookVars
  \/ IngestDies
  \/ \E u \in Owners : ListUnsettled(u)
  \/ \E d \in scan.todo : WriteStatus(d) \/ \E s \in Statuses : AskReceipt(d, s)
-----------------------------------------------------------------------------
\* An activity that was received for a wallet is at any time in exactly one
\* place - a buffer whose timer is set, a flush, or one event document -
\* however often it is delivered, unless a call about it failed or the process
\* died; and its document is filed under whom the wallet belonged to, unless
\* the address changed hands while an event of the document was buffered.
\* (Zerion transactions without a hash have one key per chain: all of them
\* count as one activity, as they do for the code.)
PlacesIn(k, s, chain) == {i \in DOMAIN s : KeyOf(s[i], chain) = k}
Places(k) ==
  UNION ({{<<"buffer", c, i>> : i \in PlacesIn(k, buffer[c], c)} : c \in Chains}
    \union {{<<"flush", f, i>> : i \in PlacesIn(k, flush[f].events, flush[f].chain)} : f \in Flushers}
    \union {{<<"event", d, i>> : i \in PlacesIn(k, d.of, d.chain)} : d \in events})

ActivitiesAreRecordedOnce ==
  /\ \A k \in DOMAIN received : received[k] # "nobody" =>
       /\ \A x, y \in Places(k) : x = y
       /\ Places(k) # {} \/ k \in forgone
  /\ \A d \in events : \A k \in Keyed(d.of, d.chain) :
       d.user = received[k] \/ Keyed(d.of, d.chain) \intersect moved # {}
  /\ \A c \in Chains : buffer[c] # <<>> => c \in timers

Receipts == Sources \X Chains \X Txs
Activity == [src : Sources, tx : Txs, user : Owners]
Handled == [pc : {"idle", "find", "claim"}, src : Sources \union {"none"},
            chain : Chains \union {"none"}, txs : Seq(Txs), user : Someone]
Flushed == [pc : {"idle", "enrich", "receipt"}, chain : Chains \union {"none"},
            events : Seq(Activity), multi : BOOLEAN]
Document == [user : Owners, chain : Chains, of : Seq(Activity), status : Statuses]

IngestTypeOK ==
  /\ hook \in [Hooks -> Handled]
  /\ \A h \in Hooks : IF hook[h].pc = "idle" THEN hook[h] = NoHook
       ELSE /\ hook[h].src \in Sources /\ hook[h].chain \in Chains /\ hook[h].txs # <<>>
            /\ hook[h].pc = "claim" => hook[h].user \in Owners
  /\ keys \subseteq Receipts /\ forgone \subseteq Receipts /\ moved \subseteq Receipts
  /\ received \in [Receipts -> Someone]
  /\ buffer \in [Chains -> Seq(Activity)] /\ timers \subseteq Chains
  /\ flush \in [Flushers -> Flushed]
  /\ \A f \in Flushers : IF flush[f].pc = "idle" THEN flush[f] = NoFlush
       ELSE flush[f].chain \in Chains /\ flush[f].events # <<>>
  /\ events \subseteq Document /\ \A d \in events : d.of # <<>>
  /\ scan \in [pc : {"idle", "receipt", "write"}, todo : SUBSET Document, status : Statuses]
  /\ scan.todo # {} <=> scan.pc # "idle"

=============================================================================
