\* Two evaluations and an expiration while a member buys, with crashes of the
\* purchase.
SPECIFICATION FairSystemSpec
CONSTANTS
  ann = ann
  bob = bob
  none = none
  t1 = t1
  t2 = t2
  t3 = t3
  d1 = d1
  d2 = d2
  d3 = d3
  r1 = r1
  r2 = r2
  r3 = r3
  Members = {ann, bob}
  NoMember = none
  TxnIds = {t1, t2, t3}
  Stamps <- MCStamps
  Opening <- DueBeforeExpiration
  MaxDay = 181
  MaxUnanswered = 1
  Deliveries = {d1}
  EventOf <- BigPurchase
  MaxAttempts = 2
  Faults = {"crash"}
  Runs = {r1, r2, r3}
  JobOf <- BothJobs
  DayOf <- Day180AndTwice181
  MaxRunAttempts = 1
  RunFaults = {}
  Calendar = {0, 180, 181}
  ExpirationLimit = 100
  EvaluationLimit = 1
INVARIANT CountIsCovered
PROPERTIES
  OnlyQuietGreenMembersPay
  StaleTierIsOfToday
  ExpiresAtomically
  DueMembersAreEvaluated
\* All events and runs end: the model may stop.
CHECK_DEADLOCK FALSE
