-------------------------- MODULE PortfolioSystem --------------------------
(* A user's portfolio and what feeds it: requests about wallets and          *)
(* holdings, the sync of an exchange connection, the wallet webhooks.  All   *)
(* three share the registry and the holdings documents of Portfolio; a       *)
(* behaviour drives one of the feeds, chosen by the initial state, with the  *)
(* requests that interfere with it.                                          *)
EXTENDS WalletIngest, ExchangeSync

CONSTANT HeadStart  \* Bound: feed -> stimuli taken off MaxStimuli for it

Feeds == {"requests", "exchange", "webhooks"}

ASSUME FeedAssumption == HeadStart \in [Feeds -> 0..MaxStimuli]

VARIABLE feed  \* what this behaviour exercises

vars == <<feed, stimuli, portfolioVars, hookVars, syncVars>>

Init ==
  /\ feed \in Feeds /\ stimuli = HeadStart[feed]
  /\ PortfolioInit /\ SyncInit /\ IngestInit
  /\ feed # "exchange" => backfill /\ placed = 0
  /\ feed # "requests" => zerionId /\ ~primary
  /\ feed = "webhooks" => wallets # {} /\ conn = NoConn

\* The webhooks meet one request about wallets at a time.
Next ==
  /\ feed' = feed
  /\ \/ feed = "requests" /\ PortfolioNext /\ UNCHANGED <<hookVars, syncVars>>
     \/ feed = "exchange" /\ SyncNext /\ UNCHANGED hookVars
     \/ feed = "webhooks" /\ IngestNext /\ UNCHANGED syncVars
        /\ Cardinality({c \in Clients : ~Free(c)})' <= 1

Spec == Init /\ [][Next]_vars

\* Every component's state stays within its type.
TypeOK == BudgetOK /\ PortfolioTypeOK /\ SyncTypeOK /\ IngestTypeOK

\* What a user is shown and what the providers watch agree with what he
\* registered: HoldingsFollowSources and WatchedAsOwned of Portfolio.
PortfolioIsCoherent == HoldingsFollowSources /\ WatchedAsOwned
=============================================================================
