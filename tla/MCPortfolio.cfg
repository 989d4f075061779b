SPECIFICATION Spec
CONSTANTS
  MaxStimuli = 4
  HeadStart <- MCHeadStart
  Owners = {"u1", "u2"}
  Supplied = {"w"}
  Stored <- Lower
  Clients = {c1, c2}
  Hooks = {c1, c2}
  Pollers = {p1, p2}
  Flushers = {p1, p2}
  Deliveries <- SomeDeliveries
  ExchangeOn = TRUE
  MaxTrades = 3
  MaxConns = 2
  PageLimit = 2
SYMMETRY Symmetric
INVARIANTS TypeOK PortfolioIsCoherent  ActivitiesAreRecordedOnce
CHECK_DEADLOCK FALSE
