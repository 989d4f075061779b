----------------------------- MODULE TickerFeed -----------------------------
(* The ticker half of the stream worker: it polls which symbols clients are  *)
(* subscribed to, keeps one set of Binance sockets open for them and         *)
(* publishes the prices it hears in batches.  Every timer is a state.        *)
EXTENDS Budget, FiniteSets

CONSTANTS Tickers,  \* symbols
          Baseline  \* streamConfig.ticker.baselineSymbols

ASSUME TickerAssumption == Baseline \subseteq Tickers

VARIABLES wanted,    \* the symref hash in Redis: symbols with a count above 0
          polled,    \* lastSymbolKey: the set of the last poll that differed
          change,    \* reconnectTimer: the set it will connect, or None
          connected, \* lastConnectedSymbols
          socket,    \* "none", "up" or "down"
          dropping,  \* fatalCloseDebounce is set
          retries,   \* timers of scheduleFatalReconnect past the debounce
          prices,    \* priceCache: symbols
          unsent,    \* pendingPublish; its timer is set while it is not empty
          overrun    \* ghost: a retry took the place of a change of symbols

tickerVars == <<wanted, polled, change, connected, socket, dropping, retries,
                prices, unsent, overrun>>

None == {"none"}

\* connectWithSymbols: whatever reconnect was pending is cancelled.
Connect(symbols) ==
  /\ change' = None /\ dropping' = FALSE /\ connected' = symbols
  /\ socket' = IF symbols = {} THEN "none" ELSE "up"
  /\ prices' = prices \intersect symbols
-----------------------------------------------------------------------------
Demand(s) ==
  /\ Spend(1)
  /\ wanted' = IF s \in wanted THEN wanted \ {s} ELSE wanted \union {s}
  /\ UNCHANGED <<polled, change, connected, socket, dropping, retries, prices, unsent, overrun>>

\* pollSymbols: with Redis out of reach, the baseline.
Poll ==
  \E symbols \in {wanted \union Baseline, Baseline} :
    /\ IF symbols = wanted \union Baseline THEN UNCHANGED stimuli ELSE Spend(1)
    /\ symbols # polled /\ polled' = symbols /\ change' = symbols
    /\ UNCHANGED <<wanted, connected, socket, dropping, retries, prices, unsent, overrun>>

ChangeFires ==
  /\ change # None /\ Connect(change) /\ overrun' = FALSE
  /\ UNCHANGED <<stimuli, wanted, polled, retries, unsent>>

\* A socket of the current generation closes: the reconnect is debounced.
SocketCloses ==
  /\ socket = "up" /\ Spend(1) /\ socket' = "down" /\ dropping' = TRUE
  /\ UNCHANGED <<wanted, polled, change, connected, retries, prices, unsent, overrun>>

DropFires ==
  /\ dropping /\ dropping' = FALSE /\ retries' = retries + 1
  /\ UNCHANGED <<stimuli, wanted, polled, change, connected, socket, prices, unsent, overrun>>

\* Slip: the retry counts as done before it connects.
RetryForgets ==
  /\ retries > 0 /\ retries' = retries - 1
  /\ UNCHANGED <<stimuli, wanted, polled, change, connected, socket, dropping, prices,
                 unsent, overrun>>

\* The retry connects the symbols of the last connection.
RetryFires ==
  /\ retries > 0 /\ retries' = retries - 1 /\ Connect(connected)
  /\ overrun' = (overrun \/ change # None)
  /\ UNCHANGED <<stimuli, wanted, polled, unsent>>

\* onRawMessage: the price is cached and its publication is coalesced.
Hear(s) ==
  /\ socket = "up" /\ s \in connected /\ {s} # prices \intersect unsent \intersect {s}
  /\ prices' = prices \union {s} /\ unsent' = unsent \union {s}
  /\ UNCHANGED <<stimuli, wanted, polled, change, connected, socket, dropping, retries, overrun>>

\* The batch goes to Redis; whether it arrives is only logged.
PublishPrices ==
  /\ unsent # {} /\ unsent' = {}
  /\ UNCHANGED <<stimuli, wanted, polled, change, connected, socket, dropping, retries,
                 prices, overrun>>
-----------------------------------------------------------------------------
TickerInit ==
  /\ wanted = {} /\ polled = {} /\ change = None /\ connected = {} /\ socket = "none"
  /\ dropping = FALSE /\ retries = 0 /\ prices = {} /\ unsent = {} /\ overrun = FALSE

TickerNext ==
  \/ Poll \/ ChangeFires \/ SocketCloses \/ DropFires \/ RetryFires \/ PublishPrices
  \/ \E s \in Tickers : Demand(s) \/ Hear(s)
-----------------------------------------------------------------------------
\* Once no timer is pending, the sockets are open and carry exactly the
\* symbols of the last poll, whatever closed or changed in between - unless a
\* retry, which connects the symbols of the last connection, cancelled a
\* change that was pending: the poll will not propose that change again.
TickersFollowDemand ==
  /\ change = None /\ ~dropping /\ retries = 0 =>
       /\ connected = polled \/ overrun
       /\ connected # {} => socket = "up"
  /\ prices \subseteq connected

TickerTypeOK ==
  /\ wanted \union polled \union connected \union prices \union unsent \subseteq Tickers
  /\ change = None \/ change \subseteq Tickers
  /\ socket \in {"none", "up", "down"} /\ retries \in Nat

=============================================================================
