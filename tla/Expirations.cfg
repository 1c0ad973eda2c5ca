\* Two daily expirations of the entries of two purchases, with every fault of the
\* runs.
SPECIFICATION FairSystemSpec
CONSTANTS
  ann = ann
  bob = bob
  none = none
  t1 = t1
  t2 = t2
  t3 = t3
  d1 = d1
  d2 = d2
  d3 = d3
  r1 = r1
  r2 = r2
  r3 = r3
  Members = {ann}
  NoMember = none
  TxnIds = {t1, t2, t3}
  Stamps <- MCStamps
  Opening <- OneGreen
  MaxDay = 181
  MaxUnanswered = 1
  Deliveries = {d1, d2}
  EventOf <- TwoPurchases
  MaxAttempts = 1
  Faults = {}
  Runs = {r1, r2}
  JobOf <- TwoExpirations
  DayOf <- Day180And181
  MaxRunAttempts = 2
  RunFaults = {"crash", "request error", "response lost", "event too old"}
  Calendar = {0, 150, 180, 181}
  ExpirationLimit = 100
  EvaluationLimit = 1000
INVARIANTS
  BalanceNonNegative
  SystemAudit
  ExpirationsAreAccountedFor
  ExpiresOnceUnlessInterrupted
PROPERTIES
  OnlyQuietGreenMembersPay
  DueStarsExpire
\* All events and runs end: the model may stop.
CHECK_DEADLOCK FALSE
