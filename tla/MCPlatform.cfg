SPECIFICATION Spec
CONSTANTS
  MaxStimuli = 4
  HeadStart <- MCHeadStart
  Minutes = 2
  BatchSize = 2
  MaxBuffer = 3
  MaxRequeue = 2
  History = 6
  DayLength = 4
  PageSize = 3
  Width <- MCWidth
  Keep <- MCKeep
  Archiving = TRUE
  Tickers = {"btc", "eth", "sol"}
  Baseline = {"btc"}
  Worlds <- MCChartWorlds
  Limit = 2
  PerCandle = 2
  From = 1
  To = 9
  Procs = {"p1", "p2"}
  Callers <- MCCallers
  Options = {"a", "b"}
  NoDoc = NoDoc
  Users = {"ann", "bob"}
  Admins = {r1, r2}
  Flags <- MCFlags
  Boards = {b1, b2}
  Articles = {x1, x2}
  Clicks = {r1, r2}
  Nothing = Nothing
  Stories = {"story"}
  Texts = {"a", "b", "c"}
  Mentions <- MCMentions
  Scorers = {r1, r2}
  Runs = {1, 2}
  MaxRetries = 2
  Nil = Nil
  Gecko <- MCGecko
  Numbered <- MCNumbered
  Lookups = {r1, r2}
  Builds = {r1, r2}
  PageLimit = 1
  TopRank = 2
  Deployments <- MCDeployments
  Ranked <- MCRanked
  People = {"ann", "bob"}
  Handles = {"x"}
  Followables = {x1, x2}
  MinCoins = 2
  Sessions = {r1, r2}
  NoAccount = NoAccount
  Clients = {r1, r2}
  Absent = Absent
  Publishers = {x1, x2}
  Site = Site
  Actors = {r1, r2}
  MaxAttempts = 2
  Unknown = Unknown
  Viewers = {r1, r2}
  Quoted = {"btc", "eth"}
  Universes <- MCUniverses
  ShardSize = 1
  MaxShards = 2
  ShardFrom = 3
  FactorRuns = {x1, x2}
  FactorWorkers = {r1, r2}
  Readers = {"reader"}
  ByLength <- MCByLength
  Pages <- MCPages
  Servers = {"server"}
  Translating = {r1, r2}
  MaxStrings = 2
SYMMETRY Symmetric
INVARIANTS TypeOK MarketDataIsKept CatalogueIsKept   
CHECK_DEADLOCK FALSE
