------------------------------- MODULE Charts -------------------------------
(* The market overview chart: the capitalisation-weighted index of the       *)
(* ranked coins, as a line or as candles, and the chain of fallbacks when    *)
(* the database, Binance or CoinMarketCap do not answer.  Prices are         *)
(* positive; values are ratios of integers, so that nothing is rounded.      *)
EXTENDS Budget, Integers, Sequences, SequencesExt, FiniteSets, FiniteSetsExt

CONSTANTS Worlds,    \* what stores and providers hold: [ranked, stream, stored,
                     \* trades, rest, cmc], see StoredCandles, RankCoins and the fallbacks
          Limit,     \* points asked for
          PerCandle, \* trades read per candle asked for
          From, To   \* the range asked for

ASSUME ChartAssumption == {Limit, PerCandle} \subseteq Nat \ {0} /\ From < To

VARIABLES world,  \* what this behaviour meets
          chart   \* the request: [pc, candles, inner, coins, fallback, scale,
                  \* points, latest]

chartVars == <<world, chart>>

NoChart == [pc |-> "idle", candles |-> FALSE, inner |-> FALSE, coins |-> <<>>,
            fallback |-> FALSE, scale |-> 0, points |-> <<>>, latest |-> <<0, 1>>]

Plus(a, b) == <<a[1] * b[2] + b[1] * a[2], a[2] * b[2]>>
Times(a, b) == <<a[1] * b[1], a[2] * b[2]>>
Ratio(a, b) == <<a[1] * b[2], a[2] * b[1]>>
AtMost(a, b) == a[1] * b[2] <= b[1] * a[2]
Same(a, b) == a[1] * b[2] = b[1] * a[2]
Fields == {"open", "high", "low", "close"}
Point(t, v) == [t |-> t, open |-> v, high |-> v, low |-> v, close |-> v]
Latest(s, n) == IF Len(s) <= n THEN s ELSE SubSeq(s, Len(s) - n + 1, Len(s))
-----------------------------------------------------------------------------
\* aggregateKlinesFromTrades: the oldest trades of the range, up to a number;
\* of the candles they make, the latest.
FirstTrades(trades) == SubSeq(trades, 1,
  IF Len(trades) < Limit * PerCandle THEN Len(trades) ELSE Limit * PerCandle)

AddTrade(bars, x) ==
  IF x.t \in DOMAIN bars
  THEN [bars EXCEPT ![x.t] = [@ EXCEPT !.high = Max({@, x.price}), !.low = Min({@, x.price}),
                                       !.close = x.price]]
  ELSE bars @@ (x.t :> Point(x.t, x.price))

CandlesOf(trades) ==
  LET bars == FoldLeft(AddTrade, <<>>, trades)
      ts == SetToSortSeq(DOMAIN bars, <)
  IN  [i \in DOMAIN ts |-> bars[ts[i]]]

AggregateTrades(s) == Latest(CandlesOf(FirstTrades(world.trades[s])), Limit)

\* The stored candles of a coin, or with fewer than two those of its trades.
StoredCandles(s) == Latest(world.stored[s], Limit)
Docs(s) == IF Len(StoredCandles(s)) < 2 THEN AggregateTrades(s) ELSE StoredCandles(s)

\* getKlines, the chart of one coin: stored candles, else those of its trades,
\* else Binance's.
Klines(s) ==
  IF StoredCandles(s) # <<>> THEN StoredCandles(s)
  ELSE IF AggregateTrades(s) # <<>> THEN AggregateTrades(s) ELSE Latest(world.rest, Limit)
-----------------------------------------------------------------------------
\* computeMarketTrendOHLCPoints: at each time the average, weighted by cap, of
\* every coin's price relative to its first close; scaled so that the last is
\* the total cap.  computeMarketTrendPoints is the same for the close alone.
Total(coins) == MapThenSumSet(LAMBDA i : coins[i].cap, DOMAIN coins)

Index(sets, t, f) ==
  LET Add(i, sum) ==
        LET at == {d \in ToSet(sets[i].docs) : d.t = t}
        IN  IF Len(sets[i].docs) < 2 \/ at = {} THEN sum
            ELSE [up |-> Plus(sum.up, <<(CHOOSE d \in at : TRUE)[f] * sets[i].cap,
                                        Head(sets[i].docs).close>>),
                  weight |-> sum.weight + sets[i].cap]
      all == FoldSet(Add, [up |-> <<0, 1>>, weight |-> 0], DOMAIN sets)
  IN  Ratio(all.up, <<all.weight, 1>>)

Trend(coins, sets) ==
  LET usable == {i \in DOMAIN sets : Len(sets[i].docs) >= 2}
      ts == SetToSortSeq(UNION {{d.t : d \in ToSet(sets[i].docs)} : i \in usable}, <)
      scale == Ratio(<<Total(coins), 1>>, Index(sets, ts[Len(ts)], "close"))
  IN  IF Len(ts) < 2 THEN <<>>
      ELSE [k \in DOMAIN ts |-> [t |-> ts[k]] @@
              [f \in Fields |-> Times(Index(sets, ts[k], f), scale)]]

\* findMarketTrend (v1) gives every coin its own cap; findMarketTrendBatched
\* (v2) looks the cap up by symbol, where the last coin of a symbol counts.
Sets(coins) == [i \in DOMAIN coins |-> [cap |-> coins[i].cap, docs |-> Docs(coins[i].symbol)]]
BatchedSets(coins) == [i \in DOMAIN coins |->
  [cap |-> coins[Max({j \in DOMAIN coins : coins[j].symbol = coins[i].symbol})].cap,
   docs |-> Docs(coins[i].symbol)]]

Closes(points) == [k \in DOMAIN points |-> Point(points[k].t, points[k].close)]
Shape(points) == IF chart.candles /\ ~chart.inner THEN points ELSE Closes(points)
-----------------------------------------------------------------------------
AskChart(candles) ==
  /\ chart.pc = "idle" /\ chart' = [NoChart EXCEPT !.pc = "rank", !.candles = candles]
  /\ UNCHANGED <<stimuli, world>>

\* The ranked coins; when the query throws, is too slow or finds none, the
\* symbols of the stream with equal caps.
StreamCoins == [i \in DOMAIN world.stream |-> [symbol |-> world.stream[i], cap |-> 1, before |-> 1]]

RankCoins ==
  /\ chart.pc = "rank"
  /\ \/ chart' = [chart EXCEPT !.pc = "trend", !.fallback = (world.ranked = <<>>),
                    !.coins = IF world.ranked = <<>> THEN StreamCoins ELSE world.ranked]
        /\ UNCHANGED stimuli
     \/ Spend(1) /\ chart' = [chart EXCEPT !.pc = "trend", !.fallback = TRUE, !.coins = StreamCoins]
  /\ UNCHANGED world

\* The index; when it throws or is too slow, none.
FindTrend(batched) ==
  LET points == Shape(Trend(chart.coins,
                            IF batched THEN BatchedSets(chart.coins) ELSE Sets(chart.coins)))
      Found(ps) == chart' = [chart EXCEPT !.points = ps,
        !.pc = IF ps # <<>> THEN "done" ELSE IF chart.fallback THEN "fast" ELSE "proxy",
        !.scale = IF chart.fallback THEN 0 ELSE Total(chart.coins),
        !.latest = IF ~chart.fallback THEN <<Total(chart.coins), 1>>
                   ELSE IF ps = <<>> THEN <<0, 1>> ELSE ps[Len(ps)].close]
  IN  /\ chart.pc = "trend"
      /\ \/ Found(points) /\ UNCHANGED stimuli
         \/ Spend(1) /\ Found(<<>>)
      /\ UNCHANGED world

\* Slip: scaled by the first close.
BarsByFirst(docs, scale) == [k \in DOMAIN docs |-> [t |-> docs[k].t] @@
  [f \in Fields |-> Ratio(<<docs[k][f] * scale, 1>>, <<Head(docs).close, 1>>)]]

\* Without ranked coins: for the line, BTC's own price from Binance; then the
\* total cap from CoinMarketCap.
Answered(s) == Len(s) >= 2
Bars(docs, scale) == [k \in DOMAIN docs |-> [t |-> docs[k].t] @@
  [f \in Fields |-> Ratio(<<docs[k][f] * scale, 1>>, <<docs[Len(docs)].close, 1>>)]]
Prices(docs) == [k \in DOMAIN docs |-> Point(docs[k].t, <<docs[k].close, 1>>)]

FastBtc ==
  /\ chart.pc = "fast"
  /\ \/ /\ Answered(world.rest) /\ ~(chart.candles /\ ~chart.inner) /\ UNCHANGED stimuli
        /\ chart' = [chart EXCEPT !.pc = "done", !.points = Prices(world.rest),
                                  !.latest = <<world.rest[Len(world.rest)].close, 1>>]
     \/ /\ IF Answered(world.rest) /\ ~(chart.candles /\ ~chart.inner) THEN Spend(1)
           ELSE UNCHANGED stimuli
        /\ chart' = [chart EXCEPT !.pc = "cap"]
  /\ UNCHANGED world

\* getCmcTotalMarketCap has an answer.
CapKnown == world.cmc.cap > 0

LineFromCap ==
  /\ chart.pc = "cap"
  /\ \/ CapKnown /\ chart' = [chart EXCEPT !.pc = "proxy", !.scale = world.cmc.cap]
        /\ UNCHANGED stimuli
     \/ (IF CapKnown THEN Spend(1) ELSE UNCHANGED stimuli)
        /\ chart' = [chart EXCEPT !.pc = "line"]
  /\ UNCHANGED world

Proxy ==
  LET kept == Docs("btc")
      Use(docs) == chart' = IF Answered(docs)
        THEN [chart EXCEPT !.pc = "done", !.latest = <<chart.scale, 1>>,
                           !.points = Shape(Bars(docs, chart.scale))]
        ELSE [chart EXCEPT !.pc = "line"]
  IN  /\ chart.pc = "proxy"
      /\ \/ Answered(world.rest) /\ Use(world.rest) /\ UNCHANGED stimuli
         \/ (IF Answered(world.rest) THEN Spend(1) ELSE UNCHANGED stimuli) /\ Use(kept)
         \/ Spend(IF Answered(world.rest) THEN 2 ELSE 1) /\ Use(<<>>)
      /\ UNCHANGED world

\* The last resort, a straight line from the cap of the day before; for
\* candles, the whole line chart is built and its points joined.
Ramp(before, cap) == <<Point(From, <<before, 1>>), Point(To, <<cap, 1>>)>>
Before(coins) == MapThenSumSet(LAMBDA i : coins[i].before, DOMAIN coins)
CapLine == Ramp(world.cmc.before, world.cmc.cap)

StraightLine ==
  /\ chart.pc = "line" /\ UNCHANGED world
  /\ IF chart.candles /\ ~chart.inner
     THEN chart' = [chart EXCEPT !.pc = "rank", !.inner = TRUE] /\ UNCHANGED stimuli
     ELSE \/ /\ ~chart.fallback /\ UNCHANGED stimuli
             /\ chart' = [chart EXCEPT !.pc = "done",
                            !.points = Ramp(Before(chart.coins), Total(chart.coins))]
          \/ /\ chart.fallback /\ CapKnown /\ UNCHANGED stimuli
             /\ chart' = [chart EXCEPT !.pc = "done", !.latest = <<world.cmc.cap, 1>>,
                                       !.points = CapLine]
          \/ /\ chart.fallback /\ chart' = [chart EXCEPT !.pc = "done"]
             /\ IF CapKnown THEN Spend(1) ELSE UNCHANGED stimuli

\* deriveSyntheticOHLCFromScalars: a bar opens where the one before it closed.
Joined(points) == [k \in DOMAIN points |->
  LET close == points[k].close
      open == IF k = 1 THEN close ELSE points[k - 1].close
  IN  [t |-> points[k].t, open |-> open, close |-> close,
       high |-> IF AtMost(open, close) THEN close ELSE open,
       low |-> IF AtMost(open, close) THEN open ELSE close]]

Join ==
  /\ chart.pc = "done" /\ chart.inner
  /\ chart' = [chart EXCEPT !.inner = FALSE, !.points = Joined(@)]
  /\ UNCHANGED <<stimuli, world>>
-----------------------------------------------------------------------------
ChartInit == world \in Worlds /\ chart = NoChart

ChartNext ==
  \/ \E candles, batched \in BOOLEAN : AskChart(candles) \/ FindTrend(batched)
  \/ RankCoins \/ FastBtc \/ LineFromCap \/ Proxy \/ StraightLine \/ Join
-----------------------------------------------------------------------------
\* Whichever source the chart ends up drawn from, the headline is the value of
\* its last point, its points are in order of time, and no candle's open or
\* close lies outside its range.
ChartEndsAtHeadline == chart.pc = "done" /\ chart.points # <<>> =>
  /\ Same(chart.points[Len(chart.points)].close, chart.latest)
  /\ \A k \in 1..(Len(chart.points) - 1) : chart.points[k].t < chart.points[k + 1].t
  /\ \A k \in DOMAIN chart.points : \A f \in {"open", "close"} :
       AtMost(chart.points[k].low, chart.points[k][f])
         /\ AtMost(chart.points[k][f], chart.points[k].high)

\* "then same weighted index as v1": the batched query draws the same chart,
\* unless two of the coins share a symbol; a candle made from trades opens
\* with the first, closes with the last and spans all trades of its time,
\* unless there are more trades than are read; and a coin's own chart shows, in
\* order of time, the candles the index is computed from, unless it has a
\* single stored one.
PathsAgree ==
  /\ LET cs == world.ranked
         one == Trend(cs, Sets(cs))
         two == Trend(cs, BatchedSets(cs))
     IN  IsInjective([i \in DOMAIN cs |-> cs[i].symbol]) =>
           /\ Len(one) = Len(two)
           /\ \A k \in DOMAIN one : \A f \in Fields : Same(one[k][f], two[k][f])
  /\ \A s \in DOMAIN world.trades : \A bar \in ToSet(AggregateTrades(s)) :
       LET those == SelectSeq(world.trades[s], LAMBDA x : x.t = bar.t)
           paid == {x.price : x \in ToSet(those)}
       IN  Len(world.trades[s]) <= Limit * PerCandle =>
             bar = [t |-> bar.t, open |-> Head(those).price, high |-> Max(paid),
                    low |-> Min(paid), close |-> those[Len(those)].price]
  /\ \A s \in DOMAIN world.trades :
       /\ \A k \in 1..(Len(Klines(s)) - 1) : Klines(s)[k].t < Klines(s)[k + 1].t
       /\ Docs(s) # <<>> /\ Len(StoredCandles(s)) # 1 => Klines(s) = Docs(s)

ChartTypeOK ==
  /\ chart.pc \in {"idle", "rank", "trend", "fast", "cap", "proxy", "line", "done"}
  /\ \A k \in DOMAIN chart.points : \A f \in Fields : chart.points[k][f][2] > 0
  /\ chart.inner => chart.candles

=============================================================================
