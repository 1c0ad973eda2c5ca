\* A history that grows and is deleted while a client keeps reading it.
SPECIFICATION FairSpec
CONSTANTS
  MaxTime = 4
  Delay = 1
  Retention = 2
  MaxPage = 2
  Limits <- MCLimits
  NotANumber = NotANumber
  Garbage = Garbage
  End = End
INVARIANTS
  TypeOK
  ReadsEachOnce
  NothingSkipped
PROPERTY ReadingEnds
\* The clock stops and the client may be done.
CHECK_DEADLOCK FALSE
