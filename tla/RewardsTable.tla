---------------------------- MODULE RewardsTable ----------------------------
(***************************************************************************)
(* The DynamoDB table all handlers share, and the operations of            *)
(* DynamoDBClient (common/dynamodb.py) they call on it.  One operation is  *)
(* one request to DynamoDB, hence one atomic step; nothing joins two of    *)
(* them.  Items of the table are records:                                  *)
(*   PK = MEMBER#m, SK = PROFILE            profile[m]                     *)
(*   PK = MEMBER#m, SK = STAR#date#batch    a record of ledger             *)
(*   PK = MEMBER#m, SK = TXN#time#id        a record of txns               *)
(* byTxnId is what the global secondary index GSI2 shows of txns: DynamoDB *)
(* updates it some time after the table.                                   *)
(***************************************************************************)
EXTENDS StarCalculator, FiniteSets

CONSTANTS
  Members,    \* membership ids an event can name
  NoMember,   \* what get_member returns when there is no profile
  TxnIds,     \* transaction ids of events
  Stamps,     \* one value per handler attempt: the microsecond of its
              \* timestamps and the uuids it draws, unique to the attempt
  Opening,    \* the profile of each member when the model starts
  MaxDay,     \* bound of the clock
  MaxUnanswered  \* bound: how often one balance update may be applied without
                 \* the client hearing of it; botocore sends it ten times at most

VARIABLES
  profile,    \* the PROFILE item of each member, or NoMember
  ledger,     \* the star ledger entries (batches)
  txns,       \* the transaction records
  byTxnId,    \* the transaction records GSI2 shows
  today       \* the day utcnow() returns

tableVars == <<profile, ledger, txns, byTxnId>>

NeverActive == -1   \* the profile has no lastQualifyingActivity

Day == Nat

Profile == [tier                   : Tier,
            starBalance            : Int,
            annualStarCount        : Int,
            lastQualifyingActivity : Day \cup {NeverActive},
            nextTierEvaluation     : Day,
            evaluationKey          : Day]   \* the date in GSI1SK

LedgerEntry == [member : Members, stars : Int, day : Day, by : Stamps]

TransactionType == {"PURCHASE", "REDEMPTION", "EXPIRATION", "TIER_CHANGE"}

\* The id of an event, or one that a scheduled job makes up for its own record.
Transaction == [id : TxnIds \cup Stamps, member : Members, type : TransactionType,
                stars : Int, day : Day, by : Stamps]

ASSUME OpeningAssumption ==
  Opening \in [Members ->
                 {p \in Profile : p.starBalance >= 0 /\ p.annualStarCount >= 0}
                   \cup {NoMember}]

ASSUME NoMemberAssumption == NoMember \notin Profile

ASSUME MaxDayAssumption == MaxDay \in Nat

ASSUME MaxUnansweredAssumption == MaxUnanswered \in Nat

\* The sendings of one balance update that may be applied: 0 is the one whose
\* response the client receives, 1, 2... are those it hears nothing of.
Sending == 0..MaxUnanswered

-----------------------------------------------------------------------------
TableInit ==
  /\ profile = Opening
  /\ ledger = {}
  /\ txns = {}
  /\ byTxnId = {}
  /\ today = 0

GetMember(m) == profile[m]

\* A condition that only asks for an existing profile.
BalanceConditionOnPresence(m, delta) == delta < 0 => profile[m] # NoMember

\* The condition expression of update_member_balance: only a deduction has one.
\* When it fails the client raises ValueError.
BalanceCondition(m, delta) ==
  delta < 0 => profile[m].starBalance >= -delta

\* An update that takes what is left when the member has too little.
UpdateMemberBalanceDownToZero(m, delta, annualDelta, activity) ==
  profile' = [profile EXCEPT
    ![m].starBalance = IF @ + delta < 0 THEN 0 ELSE @ + delta,
    ![m].annualStarCount = @ + annualDelta,
    ![m].lastQualifyingActivity = IF activity = NeverActive THEN @ ELSE activity]

\* One sending of the update, as DynamoDB applies it: an increment, so a second
\* sending of the same request moves the balance again.  activity is NeverActive
\* when the caller passes no last_activity.
UpdateMemberBalance(m, delta, annualDelta, activity) ==
  /\ BalanceCondition(m, delta)
  /\ profile' = [profile EXCEPT
       ![m].starBalance = @ + delta,
       ![m].annualStarCount = @ + annualDelta,
       ![m].lastQualifyingActivity = IF activity = NeverActive THEN @ ELSE activity]

\* A key STAR#date without the batch: the last entry of a day replaces the others.
CreateStarLedgerEntryPerDay(entry) ==
  ledger' = {b \in ledger : <<b.member, b.day>> # <<entry.member, entry.day>>}
              \cup {entry}

CreateStarLedgerEntry(entry) == ledger' = ledger \cup {entry}

\* A key TXN#id without the time: a second record replaces the first.
RecordTransactionById(txn) ==
  txns' = {t \in txns : t.id # txn.id} \cup {txn}

\* An unconditional put; the key holds the time as well as the id, so a second
\* record of the same transaction is a second item.
RecordTransaction(txn) == txns' = txns \cup {txn}

\* The profile written by create_member, whose condition is that the key is new.
CreateMember(m, new) ==
  /\ profile[m] = NoMember
  /\ profile' = [profile EXCEPT ![m] = new]

\* All entries of a member, expired or not.
GetStarLedgerEntries(m) == {b \in ledger : b.member = m}

\* A deletion that looks for the wrong attribute and finds nothing.
DeleteNoEntries(m, batches) == ledger' = ledger

\* Whatever entries still have one of the batch ids given.
DeleteStarLedgerEntries(m, batches) ==
  ledger' = ledger \ {b \in GetStarLedgerEntries(m) : b \in batches}

\* The first page of a member's records, long enough for all of them here.
GetMemberTransactions(m) == {t \in txns : t.member = m}

\* A tier change that forgets the index key.
UpdateMemberTierOnly(m, tier, next) ==
  profile' = [profile EXCEPT ![m].tier = tier, ![m].nextTierEvaluation = next]

\* A tier change that moves the member in the index and forgets the attribute.
UpdateMemberTierUndated(m, tier, next) ==
  profile' = [profile EXCEPT ![m].tier = tier, ![m].evaluationKey = next]

\* Unconditional, and the only request that moves a member in GSI1.
UpdateMemberTier(m, tier, next) ==
  profile' = [profile EXCEPT ![m].tier = tier,
                             ![m].nextTierEvaluation = next,
                             ![m].evaluationKey = next]

\* An update that adds to the count.
UpdateMemberAdding(m, annualStarCount, nextTierEvaluation) ==
  /\ profile[m] # NoMember
  /\ profile' = [profile EXCEPT ![m].annualStarCount = @ + annualStarCount,
                                ![m].nextTierEvaluation = nextTierEvaluation]

\* update_member with the two attributes its callers set; it does not touch the
\* keys of GSI1.
UpdateMember(m, annualStarCount, nextTierEvaluation) ==
  /\ profile[m] # NoMember
  /\ profile' = [profile EXCEPT ![m].annualStarCount = annualStarCount,
                                ![m].nextTierEvaluation = nextTierEvaluation]

\* A query that finds nothing.
CheckTransactionExistsNever(id) == {t \in byTxnId : t.id # t.id}

\* A query of GSI2, which need not show the newest records yet, for one item in
\* the order of time: what it may return (records of one day are not told
\* apart).
CheckTransactionExists(id) ==
  LET shown == {t \in byTxnId : t.id = id}
  IN  {t \in shown : \A s \in shown : t.day <= s.day}

\* DynamoDB copies one more record to GSI2.
PropagateToIndex ==
  /\ \E t \in txns \ byTxnId : byTxnId' = byTxnId \cup {t}
  /\ UNCHANGED <<profile, ledger, txns, today>>

RetentionDays == 30

\* DynamoDB deletes a record some time after its ttl attribute has passed.
TimeToLive ==
  \E t \in txns :
    /\ t.day + RetentionDays <= today
    /\ txns' = txns \ {t}
    /\ byTxnId' = byTxnId \ {t}
    /\ UNCHANGED <<profile, ledger, today>>

NextDay ==
  /\ today < MaxDay
  /\ today' = today + 1
  /\ UNCHANGED tableVars
=============================================================================
