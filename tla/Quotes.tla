------------------------------- MODULE Quotes -------------------------------
(* The price side of the WebSocket server: batches from Redis go into a cache *)
(* and a set of changed symbols, a timer sends every viewer the changed ones *)
(* of its symbols, and a subscription is answered with a snapshot.           *)
EXTENDS Budget, Integers, FiniteSets

CONSTANTS Viewers,  \* sockets
          Quoted    \* symbols

VARIABLES viewing,  \* clientSymbols: viewer -> set of symbols
          latest,   \* latestPrices: symbol -> version of its price, 0 for none
          dirty,    \* dirtySymbols
          flushing, \* flushTimer is set
          told      \* viewer -> symbol -> the last price sent to it

quoteVars == <<viewing, latest, dirty, flushing, told>>

\* applyRedisPricesMessage.
HearBatch(symbols) ==
  /\ Spend(1)
  /\ latest' = [s \in Quoted |-> IF s \in symbols THEN latest[s] + 1 ELSE latest[s]]
  /\ dirty' = dirty \union symbols /\ flushing' = TRUE
  /\ UNCHANGED <<viewing, told>>

\* What a viewer is told of a set of symbols: the cached price, if there is one.
Tell(prices, symbols) ==
  [s \in Quoted |-> IF s \in symbols /\ latest[s] > 0 THEN latest[s] ELSE prices[s]]

\* flushPriceUpdates: viewers of the same symbols share a message.
FlushPrices ==
  /\ flushing /\ flushing' = FALSE /\ dirty' = {}
  /\ told' = [v \in Viewers |-> Tell(told[v], viewing[v] \intersect dirty)]
  /\ UNCHANGED <<stimuli, viewing, latest>>

\* subscribe: replaceClientSymbols, then sendFilteredSnapshot.
View(v, symbols) ==
  /\ symbols # viewing[v] /\ Spend(1) /\ viewing' = [viewing EXCEPT ![v] = symbols]
  /\ told' = [told EXCEPT ![v] = Tell(@, symbols)]
  /\ UNCHANGED <<latest, dirty, flushing>>
-----------------------------------------------------------------------------
QuotesInit ==
  /\ viewing = [v \in Viewers |-> {}] /\ latest = [s \in Quoted |-> 0]
  /\ dirty = {} /\ flushing = FALSE /\ told = [v \in Viewers |-> [s \in Quoted |-> 0]]

QuotesNext ==
  \/ FlushPrices
  \/ \E symbols \in (SUBSET Quoted) \ {{}} : HearBatch(symbols)
  \/ \E v \in Viewers, symbols \in SUBSET Quoted : View(v, symbols)
-----------------------------------------------------------------------------
\* A viewer has the latest price of every symbol it shows, but for prices the
\* timer is about to send, whichever order batches, flushes and subscriptions
\* take.
QuotesAreLatest ==
  /\ \A v \in Viewers : \A s \in viewing[v] : s \in dirty \/ told[v][s] = latest[s]
  /\ dirty # {} => flushing

QuotesTypeOK ==
  /\ \A v \in Viewers : viewing[v] \subseteq Quoted /\ \A s \in Quoted : told[v][s] <= latest[s]
  /\ dirty \subseteq Quoted

=============================================================================
