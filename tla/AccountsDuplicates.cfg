\* One purchase delivered twice, every fault.
SPECIFICATION FairSpec
CONSTANTS
  green = green
  gold = gold
  ghost = ghost
  none = none
  t1 = t1
  t2 = t2
  t3 = t3
  d1 = d1
  d2 = d2
  d3 = d3
  d4 = d4
  d5 = d5
  d6 = d6
  Members <- MCMembers
  NoMember = none
  TxnIds = {t1, t2, t3}
  Stamps <- MCStamps
  Opening <- MCOpening
  MaxDay = 0
  MaxUnanswered = 1
  Deliveries = {d1, d2}
  EventOf <- DuplicatedPurchase
  MaxAttempts = 2
  Faults = {"crash", "request error", "response lost", "event too old"}
INVARIANTS
  TypeOK
  AuditTrailExplainsBalance
  LedgerMatchesGreenCredits
PROPERTIES
  ImplementsAudit
  EveryDeliveryEnds
\* All deliveries end: the model may stop.
CHECK_DEADLOCK FALSE
