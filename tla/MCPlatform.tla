----------------------------- MODULE MCPlatform -----------------------------
(* Small instances of Platform for TLC. *)
EXTENDS Platform

\* Candles of one, two and four minutes, kept for one, three and six.
MCWidth == <<1, 2, 4>>
MCKeep == <<1, 3, 6>>

\* The charts' stores: candles that suffice, or end early so that trades are
\* asked; two coins, one symbol twice, or none ranked; trades one candle can
\* hold, and more than are read; Binance and CoinMarketCap with and without
\* an answer.
Bar(t, open, high, low, close) == [t |-> t, open |-> open, high |-> high, low |-> low, close |-> close]
Coin(symbol, cap, before) == [symbol |-> symbol, cap |-> cap, before |-> before]
Trade(t, price) == [t |-> t, price |-> price]
Bars2 == <<Bar(2, 1, 3, 1, 2), Bar(4, 2, 2, 1, 1)>>
Bars3 == <<Bar(2, 4, 4, 2, 2), Bar(4, 2, 3, 1, 3), Bar(5, 3, 5, 3, 4)>>
Trades4 == <<Trade(2, 2), Trade(2, 1), Trade(4, 3), Trade(4, 2)>>
MCWorlds ==
  [ranked : {<<>>, <<Coin("btc", 2, 1), Coin("eth", 1, 2)>>, <<Coin("btc", 2, 1), Coin("btc", 1, 1)>>},
   stream : {<<"btc", "eth">>},
   stored : [{"btc"} -> {<<>>, Bars3}],
   trades : [{"btc"} -> {<<>>, Trades4, Trades4 \o <<Trade(5, 9)>>}],
   rest : {<<>>, Bars2},
   cmc : {[cap |-> 0, before |-> 0], [cap |-> 5, before |-> 4]}]
MCChartWorlds ==
  {[w EXCEPT !.stored = @ @@ [s \in {"eth"} |-> e], !.trades = @ @@ [s \in {"eth"} |-> <<>>]] :
     w \in MCWorlds, e \in {<<>>, Bars2}}

MCCallers == {<<"p1", "admin">>, <<"p2", "admin">>, <<"p1", "refresh">>}
Targeting(critical, allowed, segment, rollout) ==
  [critical |-> critical, allowed |-> allowed, segment |-> segment, rollout |-> rollout]
MCFlags == {Targeting(TRUE, {}, {}, {}), Targeting(FALSE, {}, {}, {"ann"}),
            Targeting(FALSE, {"ann"}, {"bob"}, {})}

MCMentions == [t \in Texts |-> CASE t = "a" -> {"btc"} [] t = "b" -> {"btc", "eth"} [] t = "c" -> {}]
MCGecko == [c \in {"bitcoin", "wrap"} |-> "btc"]
MCDeployments == {[localFirst |-> TRUE, unique |-> FALSE], [localFirst |-> FALSE, unique |-> TRUE]}
MCRanked == {{}, DOMAIN MCGecko}
MCNumbered == [c \in {"1"} |-> "btc"]

\* Three members in shards of two and one, or one member computed inline.
MCUniverses == {<<"btc", "eth", "sol">>, <<"btc">>}

\* Two coins in the order of their markers, and the other way round.
Field(field, text) == [field |-> field, text |-> text]
MCPages == {<<Field("title", <<"bitcoin", "word", "eth">>), Field("source", <<"eth">>),
              Field("summary", <<"word">>)>>,
            <<Field("body", <<"eth", "bitcoin">>)>>}
MCByLength == <<"bitcoin", "eth">>

\* Larger components get fewer stimuli.
MCHeadStart == [p \in Parts |-> CASE p \in {"config", "profile"} -> 2
  [] p \in {"accounts", "retention", "flags", "boards", "lookups", "shards", "context",
           "translations"} -> 1
  [] OTHER -> 0]

\* No two components run in one behaviour, so they share the names of requests
\* and of things, which keeps the symmetry group small.
Symmetric == Permutations(Clicks) \union Permutations(Articles)
=============================================================================
