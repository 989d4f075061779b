SPECIFICATION Spec
CONSTANTS
  MaxStimuli = 4
  StreamWorkers = {p1, p2}
  EventWorkers = {p1, p2}
  Sockets = {p1, p2}
  Calls = {r1, r2}
  Requests = {r1, r2}
  Reactors = {r1, r2}
  Owners = {r1, r2}
  Users = {"u1", "u2"}
  ReactionTypes = {"a", "b"}
  Addresses = {"w1"}
  Symbols = {"btc"}
  BatchSize = 2
  ThrottleLimit = 1
  Notices <- SomeNotices
  Events <- SomeEvents
SYMMETRY Symmetric
INVARIANTS TypeOK EventsAreConserved LossesArePaidFor  BadgeAgrees
   SubscriptionsAreSound
CHECK_DEADLOCK FALSE
