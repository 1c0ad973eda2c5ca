\* An evaluation that is started twice and another on the next day, with every fault.
SPECIFICATION SystemSpec
CONSTANTS
  ann = ann
  bob = bob
  none = none
  t1 = t1
  t2 = t2
  t3 = t3
  d1 = d1
  d2 = d2
  d3 = d3
  r1 = r1
  r2 = r2
  r3 = r3
  Members = {ann, bob}
  NoMember = none
  TxnIds = {t1, t2, t3}
  Stamps <- MCStamps
  Opening <- RisingAndFalling
  MaxDay = 11
  MaxUnanswered = 1
  Deliveries = {d1}
  EventOf <- BigPurchase
  MaxAttempts = 1
  Faults = {}
  Runs = {r1, r2, r3}
  JobOf <- ThreeEvaluations
  DayOf <- Day10TwiceAnd11
  MaxRunAttempts = 1
  RunFaults = {"crash", "request error", "response lost", "event too old"}
  Calendar = {10, 11}
  ExpirationLimit = 100
  EvaluationLimit = 1000
INVARIANTS
  SystemTypeOK
  KeyFollowsDate
  TierChangesAreRecorded
  NobodyDueIsSkipped
PROPERTIES
  PromotionIsEarned
  TierLastsUntilEvaluation
\* All events and runs end: the model may stop.
CHECK_DEADLOCK FALSE
SYMMETRY Twins
