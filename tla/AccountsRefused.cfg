\* Events that are refused, two kinds of event with one id, a deduction sent twice.
SPECIFICATION Spec
CONSTANTS
  green = green
  gold = gold
  ghost = ghost
  none = none
  t1 = t1
  t2 = t2
  t3 = t3
  d1 = d1
  d2 = d2
  d3 = d3
  d4 = d4
  d5 = d5
  d6 = d6
  Members <- MCMembers
  NoMember = none
  TxnIds = {t1, t2, t3}
  Stamps <- MCStamps
  Opening <- MCOpening
  MaxDay = 1
  MaxUnanswered = 1
  Deliveries = {d1, d2, d3, d4, d5, d6}
  EventOf <- RefusedEvents
  MaxAttempts = 1
  Faults = {"request error", "response lost"}
INVARIANT AnswersMatchTable
\* All deliveries end: the model may stop.
CHECK_DEADLOCK FALSE
