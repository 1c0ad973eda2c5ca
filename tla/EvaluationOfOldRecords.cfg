\* A purchase is 40 days old when its year is summed.
SPECIFICATION SystemSpec
CONSTANTS
  ann = ann
  bob = bob
  none = none
  t1 = t1
  t2 = t2
  t3 = t3
  d1 = d1
  d2 = d2
  d3 = d3
  r1 = r1
  r2 = r2
  r3 = r3
  Members = {ann, bob}
  NoMember = none
  TxnIds = {t1, t2, t3}
  Stamps <- MCStamps
  Opening <- RisingAndFalling
  MaxDay = 40
  MaxUnanswered = 1
  Deliveries = {d1}
  EventOf <- BigPurchase
  MaxAttempts = 1
  Faults = {}
  Runs = {r1}
  JobOf <- OneEvaluation
  DayOf <- Day40
  MaxRunAttempts = 1
  RunFaults = {}
  Calendar = {0, 40}
  ExpirationLimit = 100
  EvaluationLimit = 1000
PROPERTIES
  SumCoversTheYear
\* All events and runs end: the model may stop.
CHECK_DEADLOCK FALSE
