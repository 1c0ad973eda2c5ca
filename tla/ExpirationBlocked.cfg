\* One member has spent the stars of an expired entry.
SPECIFICATION SystemSpec
CONSTANTS
  ann = ann
  bob = bob
  none = none
  t1 = t1
  t2 = t2
  t3 = t3
  d1 = d1
  d2 = d2
  d3 = d3
  r1 = r1
  r2 = r2
  r3 = r3
  Members = {ann, bob}
  NoMember = none
  TxnIds = {t1, t2, t3}
  Stamps <- MCStamps
  Opening <- TwoEmpty
  MaxDay = 181
  MaxUnanswered = 1
  Deliveries = {d1, d2, d3}
  EventOf <- SpentAndOwed
  MaxAttempts = 1
  Faults = {}
  Runs = {r1}
  JobOf <- OneExpiration
  DayOf <- Day180
  MaxRunAttempts = 2
  RunFaults = {}
  Calendar = {0, 180, 181}
  ExpirationLimit = 100
  EvaluationLimit = 1000
INVARIANTS
  NothingDueIsLeft
\* All events and runs end: the model may stop.
CHECK_DEADLOCK FALSE
