------------------------------ MODULE Platform ------------------------------
(* The services around the portfolio: market data from the exchange's        *)
(* streams to the charts, the coin catalogue, news from import to feed,      *)
(* switches, boards and profiles, and accounts.  They meet in collections    *)
(* that one writes and another reads, and the reader takes any content, so   *)
(* a behaviour runs one of them, as in Engagement; the others stand still.   *)
EXTENDS KlineIngest, KlineRetention, TickerFeed, Charts, Switches, Reading,
        Quotes, FactorShards, Sentiment, Catalogue, Accounts, NewsFeed,
        NewsSources, FeedContext, Translation

CONSTANT HeadStart  \* Bound: part -> stimuli taken off MaxStimuli for it

Parts == {"ingest", "retention", "tickers", "chart", "quotes", "shards", "config", "flags",
          "boards", "profile", "scores", "aggregation", "lookups", "market", "accounts",
          "feed", "sources", "context", "translations"}

ASSUME PlatformAssumption == HeadStart \in [Parts -> 0..MaxStimuli]

VARIABLE part  \* the component this behaviour exercises

streamVars == <<klineVars, retentionVars, tickerVars>>
shownVars == <<chartVars, quoteVars, shardVars>>
marketDataVars == <<streamVars, shownVars>>
readerVars == <<switchVars, readingVars, accountVars>>
shownNewsVars == <<feedVars, sourceVars, contextVars>>
newsVars == <<sentimentVars, shownNewsVars, translationVars>>
vars == <<part, stimuli, marketDataVars, readerVars, newsVars, catalogueVars>>

\* A component with several initial states takes one of them when it is not
\* the one exercised.
Init ==
  /\ part \in Parts /\ stimuli = HeadStart[part]
  /\ KlineInit /\ TickerInit /\ ReadingInit /\ SentimentInit /\ FeedInit /\ SourceInit
  /\ RetentionInit /\ (part = "retention" \/ (clock = History /\ recorded = Opens))
  /\ ChartInit /\ (part = "chart" \/ world = CHOOSE w \in Worlds : TRUE)
  /\ SwitchInit /\ (part = "flags" \/ flag.target = CHOOSE t \in Flags : TRUE)
  /\ CatalogueInit
  /\ part = "lookups" \/ (settings = (CHOOSE s \in Deployments : TRUE) /\ listed = {})
  /\ part \in {"lookups", "market"} \/ \A c \in DOMAIN Gecko : ranks[c] = Unseen
  /\ AccountInit /\ (part = "accounts" \/ lastUser = 0)
  /\ QuotesInit /\ ContextInit /\ TranslationInit
  /\ ShardsInit /\ (part = "shards" \/ universe = CHOOSE u \in Universes : TRUE)

Next ==
  /\ part' = part
  /\ \/ /\ \/ part = "ingest" /\ KlineNext /\ UNCHANGED <<retentionVars, tickerVars, shownVars>>
           \/ part = "retention" /\ RetentionNext /\ UNCHANGED <<klineVars, tickerVars, shownVars>>
           \/ part = "tickers" /\ TickerNext /\ UNCHANGED <<klineVars, retentionVars, shownVars>>
           \/ part = "chart" /\ ChartNext /\ UNCHANGED <<streamVars, quoteVars, shardVars>>
           \/ part = "quotes" /\ QuotesNext /\ UNCHANGED <<streamVars, chartVars, shardVars>>
           \/ part = "shards" /\ ShardsNext /\ UNCHANGED <<streamVars, chartVars, quoteVars>>
        /\ UNCHANGED <<readerVars, newsVars, catalogueVars>>
     \/ /\ \/ part = "config" /\ ConfigNext /\ UNCHANGED <<readingVars, accountVars>>
           \/ part = "flags" /\ FlagNext /\ UNCHANGED <<readingVars, accountVars>>
           \/ part = "boards" /\ BoardNext /\ UNCHANGED <<switchVars, accountVars>>
           \/ part = "profile" /\ ReadingNext /\ UNCHANGED <<switchVars, accountVars>>
           \/ part = "accounts" /\ AccountNext /\ UNCHANGED <<switchVars, readingVars>>
        /\ UNCHANGED <<marketDataVars, newsVars, catalogueVars>>
     \/ /\ \/ part = "scores" /\ ScoreNext /\ UNCHANGED <<shownNewsVars, translationVars>>
           \/ part = "aggregation" /\ SumNext /\ UNCHANGED <<shownNewsVars, translationVars>>
           \/ part = "feed" /\ FeedNext
              /\ UNCHANGED <<sentimentVars, sourceVars, contextVars, translationVars>>
           \/ part = "sources" /\ SourceNext
              /\ UNCHANGED <<sentimentVars, feedVars, contextVars, translationVars>>
           \/ part = "context" /\ ContextNext
              /\ UNCHANGED <<sentimentVars, feedVars, sourceVars, translationVars>>
           \/ part = "translations" /\ TranslationNext
              /\ UNCHANGED <<sentimentVars, shownNewsVars>>
        /\ UNCHANGED <<marketDataVars, readerVars, catalogueVars>>
     \/ /\ \/ part = "lookups" /\ LookupNext
           \/ part = "market" /\ MarketNext
        /\ UNCHANGED <<marketDataVars, readerVars, newsVars>>

Spec == Init /\ [][Next]_vars
-----------------------------------------------------------------------------
\* Every component's state stays within its type.
TypeOK ==
  /\ BudgetOK /\ part \in Parts
  /\ part = "ingest" => KlineTypeOK
  /\ part = "retention" => RetentionTypeOK
  /\ part = "tickers" => TickerTypeOK
  /\ part = "chart" => ChartTypeOK
  /\ part = "quotes" => QuotesTypeOK
  /\ part = "shards" => ShardsTypeOK
  /\ part \in {"config", "flags"} => SwitchTypeOK
  /\ part \in {"boards", "profile"} => ReadingTypeOK
  /\ part \in {"scores", "aggregation"} => SentimentTypeOK
  /\ part \in {"lookups", "market"} => CatalogueTypeOK
  /\ part = "accounts" => AccountTypeOK
  /\ part = "feed" => FeedTypeOK
  /\ part = "sources" => SourceTypeOK
  /\ part = "context" => ContextTypeOK
  /\ part = "translations" => TranslationTypeOK

\* Prices from the exchange to the chart, the viewers and the risk factors: see
\* the components' properties.
MarketDataIsKept ==
  /\ part = "ingest" => CandlesFollowTheStream
  /\ part = "retention" => MinutesAreKept
  /\ part = "tickers" => TickersFollowDemand
  /\ part = "chart" => ChartEndsAtHeadline /\ PathsAgree
  /\ part = "quotes" => QuotesAreLatest
  /\ part = "shards" => FactorsAreWhole

\* Coins are found, keep their identities, and the market's pages and builds
\* miss none of them.
CatalogueIsKept ==
  /\ part = "lookups" => CoinsAreFound /\ IdentitiesAreKept
  /\ part = "market" => MarketIsComplete

\* Articles are scored, branded and served as they are stored, ranked by the
\* portfolio analytics as they are published, and translated around the names
\* of the coins.
NewsIsCurrent ==
  /\ part = "scores" => SentimentCatchesUp
  /\ part = "aggregation" => RevisionsAgree
  /\ part = "feed" => FeedIsCurrent
  /\ part = "sources" => BrandingFollows /\ PublishersAreOne /\ RepairsEnd
  /\ part = "context" => ContextFollowsPublication /\ RevisionsCoverPayloads
  /\ part = "translations" => TermsAreKept /\ SnippetsMatchVersions

\* What an administrator or a reader changed stays changed.
SettingsStay ==
  /\ part = "config" => SwitchesStay
  /\ part = "flags" => FlagsAreTraceable
  /\ part \in {"boards", "profile"} => SavesAreCounted /\ ProfileRemembers

\* Accounts come and go whole.
AccountsAreWhole == part = "accounts" => DeletionIsComplete /\ AccountsAddUp
=============================================================================
