\* One signup delivered twice and an invalid one with its id, with every fault.
SPECIFICATION FairEnrollmentSpec
CONSTANTS
  none = none
  t1 = t1
  s1 = s1
  s2 = s2
  s3 = s3
  Members <- MCMembers
  NoMember = none
  TxnIds = {t1}
  Stamps <- MCMembers
  Opening <- NobodyYet
  MaxDay = 30
  MaxUnanswered = 1
  Signups = {s1, s2, s3}
  SignupOf <- SharedId
  MaxSignupAttempts = 2
  SignupFaults = {"crash", "request error", "response lost", "event too old"}
  SignupDays = {0, 30}
INVARIANTS
  EnrollmentTypeOK
  MembersAreAccountedFor
  RepliesMatchTable
PROPERTY EverySignupEnds
\* All signups end: the model may stop.
CHECK_DEADLOCK FALSE
