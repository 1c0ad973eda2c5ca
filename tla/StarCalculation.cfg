\* Every amount up to MaxCents, tier and condition.
SPECIFICATION Spec
CONSTANT MaxCents = 250
INVARIANTS
  NoSplitPays
  DoublingHolds
\* The price stops rising at MaxCents.
CHECK_DEADLOCK FALSE
