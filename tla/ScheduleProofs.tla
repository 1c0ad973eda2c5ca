-------------------------- MODULE ScheduleProofs ---------------------------
(***************************************************************************)
(* What the daily jobs may rely on.  An index lags by what was written on  *)
(* the day, a list or a value read earlier is stale by less than a day,    *)
(* and so: only quiet Green members pay for expired stars, a tier lasts    *)
(* until the next evaluation and rises only to what was earned, a change   *)
(* of tier is recorded, and no member who is due is left out.              *)
(***************************************************************************)
EXTENDS SystemProofs

-----------------------------------------------------------------------------
\* The tier and the key of the member were written today.
MovedToday(p) == p.nextTierEvaluation = today + YearDays /\ p.evaluationKey = today + YearDays

\* The index differs from the table by what was written today.
IndexLag ==
  \A m \in Members :
    LET p == profile[m]
        q == byTier[m]
    IN  p # NoMember =>
          /\ q # NoMember
          /\ \/ q.tier = p.tier /\ q.evaluationKey = p.evaluationKey
             \/ MovedToday(p)
          /\ \/ q.lastQualifyingActivity = p.lastQualifyingActivity
             \/ p.lastQualifyingActivity = today

\* What an attempt at an event read is of today.
ReadToday(d) ==
  pc[d] \in Running \ {"check_transaction_exists", "get_member"} =>
    LET p == profile[EventOf[d].member]
    IN  /\ local[d].now = today
        /\ local[d].tier = p.tier \/ MovedToday(p)
        /\ pc[d] = "create_star_ledger_entry" => local[d].tier = "Green"

\* The members of an evaluation are due, or another run moved them today.
ListedDue(r) ==
  step[r] \in MemberEvaluation =>
    \A m \in work[r].todo \cup {work[r].member} :
      \/ profile[m].tier = OldTier(r) /\ profile[m].evaluationKey < today
      \/ MovedToday(profile[m])

\* The members of an expiration were Green and quiet when the day began.
Quiet(p) ==
  /\ p.tier = "Green" \/ MovedToday(p)
  /\ \/ p.lastQualifyingActivity = NeverActive
     \/ p.lastQualifyingActivity < today - InactiveDays
     \/ p.lastQualifyingActivity = today

\* The members that the expiration has in hand were quiet when it listed
\* them, and are.
ListedQuiet(r) ==
  step[r] \in MemberExpiration =>
    \A m \in work[r].todo \cup {work[r].member} : Quiet(profile[m])

\* What is deducted, is deducted for old entries of the member.
HoldsOldEntries(r) ==
  step[r] \in {"deduct", "delete_star_ledger_entries"} =>
    /\ work[r].entries # {}
    /\ \A b \in work[r].entries :
         b.member = work[r].member /\ b.day <= today - LifetimeDays

\* What a job or a handler read earlier is stale by less than a day.
DayInv ==
  /\ IndexLag
  /\ \A d \in Deliveries : ReadToday(d)
  /\ \A r \in Runs : ListedDue(r) /\ ListedQuiet(r) /\ HoldsOldEntries(r)

\* What a step within a day does to the profiles: a tier or a key that changes is
\* written with the date of today, and so is an activity.
SameDay ==
  /\ today' = today
  /\ \A m \in Members :
       LET p == profile[m]
           q == profile'[m]
       IN  /\ q = NoMember <=> p = NoMember
           /\ p # NoMember =>
                /\ \/ q.tier = p.tier /\ q.evaluationKey = p.evaluationKey
                   \/ MovedToday(q)
                /\ MovedToday(p) => MovedToday(q)
                /\ \/ q.lastQualifyingActivity = p.lastQualifyingActivity
                   \/ q.lastQualifyingActivity = today

\* A job writes dates of today only, and never that of the last activity.
LEMMA RunsAreOfToday ==
  ASSUME SystemInv, NEW r \in Runs, RunAction(r)
  PROVE  SameDay /\ \A m \in Members : profile[m] # NoMember =>
           profile'[m].lastQualifyingActivity = profile[m].lastQualifyingActivity
<1>1. today' = today /\ \A m \in Members : profile'[m] = NoMember <=> profile[m] = NoMember
  BY RunLeaves, ProfileAfterRun
<1>2. CASE profile' = profile
  BY <1>1, <1>2 DEF SameDay
<1>3. CASE profile' # profile
  <2>1. PICK m \in Members, p \in Profile :
           /\ profile[m] \in Profile
           /\ profile' = [profile EXCEPT ![m] = p]
           /\ Writes(r, m, p)
    BY <1>3, ProfileMoves
  <2>2. profile \in [Members -> Profile \cup {NoMember}]
    BY DEF SystemInv, CoreInv, TypeOK
  <2>3. profile'[m] = p /\ \A n \in Members \ {m} : profile'[n] = profile[n]
    BY <2>1, <2>2
  <2>4. /\ p.lastQualifyingActivity = profile[m].lastQualifyingActivity
        /\ \/ p.tier = profile[m].tier /\ p.evaluationKey = profile[m].evaluationKey
           \/ MovedToday(p)
        /\ MovedToday(profile[m]) => MovedToday(p)
    BY <2>1 DEF Writes, MovedToday
  <2> HIDE DEF MovedToday
  <2> QED BY <1>1, <2>3, <2>4 DEF SameDay
<1> QED BY <1>2, <1>3

\* A handler writes dates of today only.
LEMMA HandlersAreOfToday ==
  ASSUME SystemInv, \A d \in Deliveries : ReadToday(d), [Next]_vars, today' = today
  PROVE  SameDay
<1>0. CoreInv /\ TypeOK /\ \A d \in Deliveries : Progress(d)
  BY DEF SystemInv, CoreInv
<1>1. ASSUME NEW m \in Members, profile[m] # NoMember
      PROVE  \/ profile'[m].lastQualifyingActivity = profile[m].lastQualifyingActivity
             \/ profile'[m].lastQualifyingActivity = today
  <2>1. ASSUME NEW d \in Deliveries, DeliveryAction(d),
               ~PurchaseUpdateBalance(d), ~RedemptionUpdateBalance(d), ~Resent(d)
        PROVE  profile' = profile
    BY <2>1 DEF DeliveryAction, Invoke, Respond, Crash, RequestFails, Discard, PurchaseCheck,
         RedemptionCheck, CheckIdempotency, PurchaseGetMember, RedemptionGetMember,
         PurchaseCreateLedgerEntry, PurchaseRecord, RedemptionRecord, tableVars
  <2>2. ASSUME NEW d \in Deliveries, NEW delta, NEW annual, NEW activity \in {NeverActive, today},
               UpdateMemberBalance(EventOf[d].member, delta, annual, activity)
        PROVE  \/ profile'[m].lastQualifyingActivity = profile[m].lastQualifyingActivity
               \/ profile'[m].lastQualifyingActivity = today
    <3>1. profile[m] \in Profile
      BY <1>0, <1>1 DEF TypeOK
    <3>2. CASE m # EventOf[d].member
      BY <1>0, <2>2, <3>2 DEF UpdateMemberBalance, TypeOK
    <3>3. CASE m = EventOf[d].member
      <4> DEFINE act == IF activity = NeverActive THEN profile[m].lastQualifyingActivity
                                                  ELSE activity
      <4>1. profile' = [profile EXCEPT ![m] =
               [profile[m] EXCEPT !.starBalance = @ + delta,
                                  !.annualStarCount = @ + annual,
                                  !.lastQualifyingActivity = act]]
        BY <2>2, <3>3 DEF UpdateMemberBalance
      <4> HIDE DEF act
      <4>2. profile'[m].lastQualifyingActivity = act
        BY <1>0, <3>1, <4>1 DEF TypeOK, Profile
      <4> QED BY <2>2, <4>2 DEF act
    <3> QED BY <3>2, <3>3
  <2>3. ASSUME NEW d \in Deliveries, PurchaseUpdateBalance(d) PROVE local[d].now = today
    BY <2>3 DEF PurchaseUpdateBalance, ReadToday, Running, Request
  <2>4. ASSUME Propagate \/ PassDay \/ UNCHANGED vars PROVE profile' = profile
    BY <2>4 DEF Propagate, PropagateToIndex, PassDay, NextDay, vars, tableVars
  <2>5. ASSUME NEW d \in Deliveries,
               PurchaseUpdateBalance(d) \/ RedemptionUpdateBalance(d) \/ Resent(d)
        PROVE  \/ profile' = profile
               \/ \E delta, annual : \E activity \in {NeverActive, today} :
                    UpdateMemberBalance(EventOf[d].member, delta, annual, activity)
    <3>1. CASE PurchaseUpdateBalance(d)
      BY <2>3, <3>1 DEF PurchaseUpdateBalance
    <3>2. CASE RedemptionUpdateBalance(d)
      BY <3>2 DEF RedemptionUpdateBalance
    <3>3. CASE Resent(d)
      <4>1. /\ pc[d] = "update_member_balance"
            /\ \E annual, activity :
                 /\ UpdateMemberBalance(EventOf[d].member, Delta(d), annual, activity)
                 /\ activity = IF IsPurchase(d) THEN local[d].now ELSE NeverActive
        BY <1>0, <3>3, ResentUpdate
      <4>2. local[d].now = today
        BY <4>1 DEF ReadToday, Running, Request
      <4> QED BY <4>1, <4>2
    <3> QED BY <2>5, <3>1, <3>2, <3>3
  <2> QED BY <2>1, <2>2, <2>4, <2>5, NextCases
<1> QED BY <1>0, <1>1, HandlersKeepTiers DEF SameDay, MovedToday

\* The requests of the expiration of one member.
LEMMA ExpirationDetail ==
  ASSUME SystemInv, NEW r \in Runs, RunAction(r),
         step'[r] \in {"deduct", "delete_star_ledger_entries", "record_expiration"}
  PROVE  /\ step[r] \in MemberExpiration /\ work[r] \in ExpirationWork
         /\ work'[r].member = work[r].member
         /\ step'[r] = "deduct" =>
              /\ ledger' = ledger
              /\ \/ /\ step[r] = "get_star_ledger_entries" /\ deductions' = deductions
                    /\ work'[r].entries = Expired(work[r].member, today)
                    /\ work'[r].entries # {} /\ work'[r].unanswered = work[r].unanswered
                    /\ work'[r].stars = StarsIn(work'[r].entries)
                 \/ /\ step[r] = "deduct" /\ DeductUnanswered(r)
                    /\ work'[r].entries = work[r].entries
                    /\ work'[r].stars = work[r].stars
         /\ step'[r] = "delete_star_ledger_entries" =>
              /\ work'[r].entries \subseteq work[r].entries
              /\ work'[r].stars = work[r].stars
              /\ \/ step[r] = "deduct" /\ Deduct(r) /\ work' = work /\ ledger' = ledger
                 \/ /\ step[r] = "delete_star_ledger_entries"
                    /\ work'[r].entries # {}
                    /\ ledger' = ledger \ {b \in work[r].entries \ work'[r].entries :
                                             b.member = work[r].member}
         /\ step'[r] = "record_expiration" =>
              /\ step[r] = "delete_star_ledger_entries"
              /\ work'[r].stars = work[r].stars
              /\ ledger' = ledger \ {b \in work[r].entries : b.member = work[r].member}
<1>0. /\ RunTypes /\ RunControl(r) /\ RunLists(r) /\ today \in Day
      /\ work[r].now \in Day
  <2>1. RunTypes /\ RunControl(r) /\ RunLists(r) /\ today \in Day
    BY DEF SystemInv, RunInv, CoreInv, TypeOK
  <2> QED BY <2>1, WorkFields DEF RunTypes
<1>a. /\ \A s : RunGoesTo(r, s) => step'[r] = s
      /\ \A w : SetWork(r, w) => work'[r] = w
      /\ \A o : RunReturns(r, o) => step'[r] = "done"
  BY <1>0 DEF RunTypes, RunGoesTo, SetWork, RunReturns
<1>b. /\ \A todo : NextInactive(r, todo) => step'[r] \in {"done", "get_star_ledger_entries"}
      /\ \A w : NextDue(r, w) =>
           step'[r] \in {"done", "get_member_transactions", "query_due_members"}
  BY <1>a DEF NextInactive, NextDue
<1>1. ReadLedger(r) \/ Deduct(r) \/ DeleteEntries(r) \/ DeductUnanswered(r)
  <2>1. ~StartExpiration(r) /\ ~StartEvaluation(r)
    BY <1>a DEF StartExpiration, StartEvaluation, StartRun
  <2>2. ~QueryGreenMembers(r) /\ ~RecordExpiration(r)
    BY <1>a, <1>b DEF QueryGreenMembers, RecordExpiration
  <2>3. /\ ~QueryDueMembers(r) /\ ~RecordTierChange(r) /\ ~KeepTierKey(r)
        /\ ~EvaluationRequestFails(r)
    BY <1>b DEF QueryDueMembers, RecordTierChange, KeepTierKey, AfterLastWrite,
       EvaluationRequestFails
  <2>4. /\ ~SumYear(r) /\ ~MoveTier(r) /\ ~SetAnnualCount(r) /\ ~KeepTierDate(r)
        /\ ~ListPromotedEntries(r) /\ ~RemoveExpirationDate(r) /\ ~RemovalFails(r)
    BY <1>a DEF SumYear, MoveTier, SetAnnualCount, KeepTierDate, ListPromotedEntries,
       RemoveExpirationDate, RemovalFails, AfterEntry
  <2>5. ~CrashRun(r) /\ ~DiscardRun(r) /\ ~ExpirationRequestFails(r)
    BY <1>a DEF CrashRun, AfterRunCrash, DiscardRun, ExpirationRequestFails
  <2> QED BY <2>1, <2>2, <2>3, <2>4, <2>5 DEF RunAction, RunStep, RunFault, Expire, Evaluate
<1>2. step[r] \in MemberExpiration /\ work[r] \in ExpirationWork /\ work[r].now = today
  <2>1. step[r] \in MemberExpiration /\ Active(r)
    BY <1>1 DEF ReadLedger, Deduct, DeductUnanswered, DeleteEntries, MemberExpiration,
       Active, Ended
  <2> QED BY <1>0, <2>1 DEF RunLists, RunControl
<1>3. CASE ReadLedger(r)
  <2> DEFINE m == work[r].member
             expired == Expired(m, work[r].now)
             w == [work[r] EXCEPT !.entries = expired, !.stars = StarsIn(expired)]
  <2>1. /\ SetWork(r, w) /\ step'[r] = "deduct" /\ expired # {} /\ ledger' = ledger
        /\ step[r] = "get_star_ledger_entries" /\ deductions' = deductions
    BY <1>3, <1>a, <1>b DEF ReadLedger, tableVars
  <2>2. /\ w.entries = expired /\ w.stars = StarsIn(expired) /\ w.member = m
        /\ w.unanswered = work[r].unanswered
    BY <1>2 DEF ExpirationWork
  <2>3. work'[r] = w
    BY <1>a, <2>1
  <2> HIDE DEF w
  <2> QED BY <1>2, <2>1, <2>2, <2>3
<1>4. CASE Deduct(r)
  BY <1>2, <1>4, <1>a DEF Deduct
<1>5. CASE DeleteEntries(r)
  <2>1. PICK batch \in SUBSET work[r].entries \ {{}} :
          /\ DeleteStarLedgerEntries(work[r].member, batch)
          /\ SetWork(r, [work[r] EXCEPT !.entries = @ \ batch])
          /\ RunGoesTo(r, IF batch = work[r].entries THEN "record_expiration"
                                                     ELSE "delete_star_ledger_entries")
    BY <1>5 DEF DeleteEntries
  <2> DEFINE w == [work[r] EXCEPT !.entries = @ \ batch]
  <2>2. w.entries = work[r].entries \ batch /\ w.stars = work[r].stars
        /\ w.member = work[r].member
    BY <1>2 DEF ExpirationWork
  <2>3. work'[r] = w
    BY <1>a, <2>1
  <2> HIDE DEF w
  <2>4. ledger' = ledger \ {b \in batch : b.member = work[r].member}
    BY <2>1 DEF DeleteStarLedgerEntries, GetStarLedgerEntries
  <2>5. step[r] = "delete_star_ledger_entries"
    BY <1>5 DEF DeleteEntries
  <2>6. CASE batch = work[r].entries
    <3>1. step'[r] = "record_expiration"
      BY <1>a, <2>1, <2>6
    <3> QED BY <1>2, <2>2, <2>3, <2>4, <2>5, <2>6, <3>1
  <2>7. CASE batch # work[r].entries
    <3>1. step'[r] = "delete_star_ledger_entries"
      BY <1>a, <2>1, <2>7
    <3>2. work'[r].entries # {} /\ work[r].entries \ work'[r].entries = batch
      BY <2>1, <2>2, <2>3, <2>7
    <3> QED BY <1>2, <2>2, <2>3, <2>4, <2>5, <3>1, <3>2
  <2> QED BY <2>6, <2>7
<1>6. CASE DeductUnanswered(r)
  <2>1. /\ step[r] = "deduct" /\ step'[r] = "deduct" /\ ledger' = ledger
        /\ work'[r] = [work[r] EXCEPT !.unanswered = @ + 1]
    BY <1>6, <1>a DEF DeductUnanswered
  <2>2. /\ work'[r].entries = work[r].entries /\ work'[r].stars = work[r].stars
        /\ work'[r].member = work[r].member
    BY <1>2, <2>1 DEF ExpirationWork
  <2> QED BY <1>2, <1>6, <2>1, <2>2
<1> QED BY <1>1, <1>3, <1>4, <1>5, <1>6

-----------------------------------------------------------------------------
\* Each part of the day's invariant is kept within the day.
LEMMA IndexLagKept ==
  ASSUME SystemInv, IndexLag, SameDay, byTier' = byTier
  PROVE  IndexLag'
<1> SUFFICES ASSUME NEW m \in Members, profile'[m] # NoMember
             PROVE  /\ byTier[m] # NoMember
                    /\ \/ /\ byTier[m].tier = profile'[m].tier
                          /\ byTier[m].evaluationKey = profile'[m].evaluationKey
                       \/ MovedToday(profile'[m])
                    /\ \/ byTier[m].lastQualifyingActivity = profile'[m].lastQualifyingActivity
                       \/ profile'[m].lastQualifyingActivity = today
  BY DEF IndexLag, SameDay, MovedToday
<1> HIDE DEF MovedToday
<1>1. profile[m] # NoMember
  BY DEF SameDay
<1> QED BY <1>1 DEF SameDay, IndexLag

\* Propagation brings the index closer.
LEMMA IndexCatchesUp ==
  ASSUME SystemInv, IndexLag, PropagateToTierIndex
  PROVE  IndexLag'
<1>1. profile' = profile /\ today' = today /\ byTier \in [Members -> Profile \cup {NoMember}]
  BY DEF PropagateToTierIndex, tableVars, SystemInv, ItemsInv
<1>2. PICK m \in Members : byTier' = [byTier EXCEPT ![m] = profile[m]]
  BY DEF PropagateToTierIndex
<1>3. byTier'[m] = profile[m] /\ \A n \in Members \ {m} : byTier'[n] = byTier[n]
  BY <1>1, <1>2
<1> QED BY <1>1, <1>3 DEF IndexLag, MovedToday

\* What a handler read stays fresh while others write on the same day.
LEMMA ReadTodayKept ==
  ASSUME SystemInv, SameDay, NEW d \in Deliveries, ReadToday(d),
         pc'[d] = pc[d], local'[d] = local[d]
  PROVE  ReadToday(d)'
<1> DEFINE m == EventOf[d].member
<1> HIDE DEF MovedToday
<1>1. ASSUME pc[d] \in Running \ {"check_transaction_exists", "get_member"}
      PROVE  m \in Members /\ profile[m] # NoMember
  BY <1>1, EventFields DEF SystemInv, CoreInv, Progress
<1>2. MovedToday(profile'[m]) => MovedToday(profile[m])'
  BY DEF SameDay, MovedToday
<1> QED BY <1>1, <1>2 DEF ReadToday, SameDay

\* What a handler reads is of today.
LEMMA ReadTodayByHandler ==
  ASSUME SystemInv, SameDay, NEW d \in Deliveries, ReadToday(d), DeliveryAction(d)
  PROVE  ReadToday(d)'
<1> DEFINE m == EventOf[d].member
           Reads == {"check_transaction_exists", "get_member"}
<1>0. /\ pc \in [Deliveries -> Running \cup {"queued", "done", "dead letter"}]
      /\ local \in [Deliveries -> Local] /\ m \in Members
      /\ today' = today
  BY EventFields DEF SystemInv, CoreInv, TypeOK, SameDay
<1>a. /\ \A s : GoTo(d, s) => pc'[d] = s
      /\ \A a : Return(d, a) => pc'[d] = "done"
      /\ "done" \notin Running /\ "queued" \notin Running /\ "dead letter" \notin Running
  BY <1>0 DEF GoTo, Return, Running, Request
<1>b. ASSUME pc[d] \in Running \ Reads PROVE profile[m] # NoMember
  BY <1>b DEF SystemInv, CoreInv, Progress
<1>c. MovedToday(profile[m])' <=> MovedToday(profile'[m])
  BY <1>0 DEF MovedToday
<1> HIDE DEF MovedToday
<1>d. ASSUME pc[d] \in Running \ Reads, local'[d] = local[d],
             pc'[d] = "create_star_ledger_entry" => local[d].tier = "Green"
      PROVE  ReadToday(d)'
  BY <1>0, <1>b, <1>c, <1>d DEF ReadToday, SameDay
<1>e. ASSUME pc'[d] \notin Running \/ pc'[d] \in Reads PROVE ReadToday(d)'
  BY <1>e DEF ReadToday
<1>1. CASE Invoke(d) \/ Respond(d) \/ Crash(d) \/ RequestFails(d) \/ Discard(d)
  <2>1. CASE Invoke(d)
    BY <1>a, <1>e, <2>1 DEF Invoke
  <2>2. CASE Respond(d) \/ Crash(d) \/ RequestFails(d) \/ Discard(d)
    BY <1>a, <1>e, <2>2 DEF Respond, Crash, AfterCrash, RequestFails, Discard
  <2> QED BY <1>1, <2>1, <2>2
<1>2. CASE PurchaseCheck(d) \/ RedemptionCheck(d)
  BY <1>2, <1>a, <1>e DEF PurchaseCheck, RedemptionCheck, CheckIdempotency
<1>3. CASE PurchaseGetMember(d) \/ RedemptionGetMember(d)
  <2>1. CASE pc'[d] = "done"
    BY <1>a, <1>e, <2>1
  <2>2. CASE pc'[d] # "done"
    <3>1. /\ profile' = profile /\ pc'[d] = "update_member_balance"
          /\ \E stars : local' = [local EXCEPT ![d] =
                 [tier |-> profile[m].tier, stars |-> stars, now |-> today,
                  unanswered |-> 0]]
      BY <1>3, <1>a, <2>2 DEF PurchaseGetMember, RedemptionGetMember, GetMember, tableVars
    <3>2. local'[d].tier = profile[m].tier /\ local'[d].now = today
      <4>1. PICK stars : local' = [local EXCEPT ![d] =
                 [tier |-> profile[m].tier, stars |-> stars, now |-> today,
                  unanswered |-> 0]]
        BY <3>1
      <4>2. local'[d] = [tier |-> profile[m].tier, stars |-> stars, now |-> today,
                         unanswered |-> 0]
        BY <1>0, <4>1
      <4> QED BY <4>2
    <3> QED BY <1>0, <3>1, <3>2 DEF ReadToday
  <2> QED BY <2>1, <2>2
<1>4. CASE PurchaseUpdateBalance(d)
  <2>1. pc[d] \in Running \ Reads /\ local' = local
    BY <1>4 DEF PurchaseUpdateBalance, Running, Request
  <2>2. pc'[d] = "create_star_ledger_entry" => local[d].tier = "Green"
    BY <1>4, <1>a DEF PurchaseUpdateBalance
  <2> QED BY <1>d, <2>1, <2>2
<1>5. CASE RedemptionUpdateBalance(d)
  <2>1. pc[d] \in Running \ Reads /\ local' = local /\ pc'[d] # "create_star_ledger_entry"
    BY <1>5, <1>a DEF RedemptionUpdateBalance, Running, Request
  <2> QED BY <1>d, <2>1
<1>6. CASE PurchaseCreateLedgerEntry(d) \/ PurchaseRecord(d) \/ RedemptionRecord(d)
  <2>1. pc[d] \in Running \ Reads /\ local' = local /\ pc'[d] # "create_star_ledger_entry"
    BY <1>6, <1>a DEF PurchaseCreateLedgerEntry, PurchaseRecord, RedemptionRecord,
       Running, Request
  <2> QED BY <1>d, <2>1
<1>7. CASE Resent(d)
  <2>1. /\ pc[d] = "update_member_balance" /\ pc' = pc
        /\ local'[d].tier = local[d].tier /\ local'[d].now = local[d].now
    BY <1>7, ResentUpdate DEF SystemInv, CoreInv
  <2>2. pc[d] \in Running \ Reads /\ pc'[d] # "create_star_ledger_entry"
    BY <2>1 DEF Running, Request
  <2> QED BY <1>0, <1>b, <1>c, <2>1, <2>2 DEF ReadToday, SameDay
<1> QED BY <1>1, <1>2, <1>3, <1>4, <1>5, <1>6, <1>7 DEF DeliveryAction

\* Members who are on a list that is kept stay what they were when it was made.
LEMMA MembersOfTheDay ==
  ASSUME SameDay, NEW m \in Members, profile[m] # NoMember
  PROVE  /\ Quiet(profile[m]) => Quiet(profile[m])'
         /\ MovedToday(profile[m]) => MovedToday(profile[m])'
         /\ \A tier :
              (\/ profile[m].tier = tier /\ profile[m].evaluationKey < today
               \/ MovedToday(profile[m]))
              => (\/ profile'[m].tier = tier /\ profile'[m].evaluationKey < today'
                  \/ MovedToday(profile[m])')
<1>1. MovedToday(profile[m])' <=> MovedToday(profile'[m])
  BY DEF SameDay, MovedToday
<1>2. Quiet(profile[m])' <=>
        /\ profile'[m].tier = "Green" \/ MovedToday(profile'[m])
        /\ \/ profile'[m].lastQualifyingActivity = NeverActive
           \/ profile'[m].lastQualifyingActivity < today - InactiveDays
           \/ profile'[m].lastQualifyingActivity = today
  BY DEF SameDay, Quiet, MovedToday
<1> HIDE DEF MovedToday
<1> QED BY <1>1, <1>2 DEF SameDay, Quiet

\* The lists of a run stay right while others write on the same day.
LEMMA ListsKept ==
  ASSUME SystemInv, SameDay, NEW r \in Runs, step'[r] = step[r], work'[r] = work[r],
         ListedDue(r), ListedQuiet(r), HoldsOldEntries(r)
  PROVE  ListedDue(r)' /\ ListedQuiet(r)' /\ HoldsOldEntries(r)'
<1>1. /\ RunLists(r) /\ today' = today /\ OldTier(r)' = OldTier(r)
  BY DEF SystemInv, RunInv, SameDay, OldTier
<1>2. ListedDue(r)'
  <2> SUFFICES ASSUME step[r] \in MemberEvaluation, NEW m \in work[r].todo \cup {work[r].member}
               PROVE  \/ profile'[m].tier = OldTier(r) /\ profile'[m].evaluationKey < today'
                      \/ MovedToday(profile[m])'
    BY <1>1 DEF ListedDue
  <2>1. m \in Members /\ profile[m] # NoMember
    BY <1>1 DEF RunLists, Present
  <2> HIDE DEF MovedToday
  <2> QED BY <2>1, MembersOfTheDay DEF ListedDue
<1>3. ListedQuiet(r)'
  <2> SUFFICES ASSUME step[r] \in MemberExpiration, NEW m \in work[r].todo \cup {work[r].member}
               PROVE  Quiet(profile[m])'
    BY DEF ListedQuiet
  <2>1. m \in Members /\ profile[m] # NoMember
    BY <1>1 DEF RunLists, Present
  <2> HIDE DEF Quiet
  <2> QED BY <2>1, MembersOfTheDay DEF ListedQuiet
<1>4. HoldsOldEntries(r)'
  BY <1>1 DEF HoldsOldEntries
<1> QED BY <1>2, <1>3, <1>4

\* The list that a run reads is right, and stays so as it works through it.
LEMMA ListsByRun ==
  ASSUME SystemInv, IndexLag, SameDay, NEW r \in Runs, RunAction(r),
         ListedDue(r), ListedQuiet(r), HoldsOldEntries(r)
  PROVE  ListedDue(r)' /\ ListedQuiet(r)' /\ HoldsOldEntries(r)'
<1>0. /\ RunLists(r) /\ RunControl(r) /\ today' = today /\ today \in Day
      /\ \A m \in Members : byTier[m] # NoMember => profile[m] # NoMember
      /\ byTier \in [Members -> Profile \cup {NoMember}]
  BY DEF SystemInv, RunInv, SameDay, ItemsInv, CoreInv, TypeOK
<1>a. /\ step[r] \in ExpirationRequest \cup EvaluationRequest \cup RemovalRequest => work[r].now = today
  BY <1>0 DEF RunControl, Active, ExpirationRequest, EvaluationRequest, RemovalRequest, Ended
<1>1. ListedDue(r)'
  <2> SUFFICES ASSUME step'[r] \in MemberEvaluation,
                      NEW m \in work'[r].todo \cup {work'[r].member}
               PROVE  \/ profile'[m].tier = OldTier(r)' /\ profile'[m].evaluationKey < today'
                      \/ MovedToday(profile[m])'
    BY DEF ListedDue
  <2>1. EvaluationGoes(r) /\ step'[r] # "query_due_members"
    BY RunGoes DEF Starts, Stops, Finishes, ExpirationGoes, MemberExpiration, MemberEvaluation
  <2>2. OldTier(r)' = OldTier(r)
    BY <2>1 DEF EvaluationGoes, OldTier
  <2>3. /\ m \in Members /\ profile[m] # NoMember
        /\ \/ profile[m].tier = OldTier(r) /\ profile[m].evaluationKey < today
           \/ MovedToday(profile[m])
    <3>1. CASE step[r] = "query_due_members"
      <4>1. m \in ShownDue(OldTier(r), today)
        BY <1>a, <2>1, <3>1 DEF EvaluationGoes
      <4> HIDE DEF MovedToday
      <4> QED BY <1>0, <4>1 DEF ShownDue, Shown, IndexLag
    <3>2. CASE step[r] # "query_due_members"
      <4>1. step[r] \in MemberEvaluation /\ m \in work[r].todo \cup {work[r].member}
        BY <2>1, <3>2 DEF EvaluationGoes, EvaluationRequest, RemovalRequest, MemberEvaluation
      <4> HIDE DEF MovedToday
      <4> QED BY <1>0, <4>1 DEF RunLists, Present, ListedDue
    <3> QED BY <3>1, <3>2
  <2> HIDE DEF MovedToday
  <2> QED BY <2>2, <2>3, MembersOfTheDay
<1>2. ListedQuiet(r)'
  <2> SUFFICES ASSUME step'[r] \in MemberExpiration,
                      NEW m \in work'[r].todo \cup {work'[r].member}
               PROVE  Quiet(profile[m])'
    BY DEF ListedQuiet
  <2>1. ExpirationGoes(r)
    BY RunGoes DEF Starts, Stops, Finishes, EvaluationGoes, MemberExpiration, MemberEvaluation
  <2>2. m \in Members /\ profile[m] # NoMember /\ Quiet(profile[m])
    <3>1. CASE step[r] = "query_members_by_tier"
      <4>1. m \in Shown("Green") /\ Inactive(byTier[m], today)
        BY <1>a, <2>1, <3>1 DEF ExpirationGoes
      <4> HIDE DEF MovedToday
      <4> QED BY <1>0, <4>1 DEF Shown, Inactive, Quiet, IndexLag
    <3>2. CASE step[r] # "query_members_by_tier"
      <4>1. step[r] \in MemberExpiration /\ m \in work[r].todo \cup {work[r].member}
        BY <2>1, <3>2 DEF ExpirationGoes, ExpirationRequest, MemberExpiration
      <4> HIDE DEF Quiet
      <4> QED BY <1>0, <4>1 DEF RunLists, Present, ListedQuiet
    <3> QED BY <3>1, <3>2
  <2> HIDE DEF Quiet
  <2> QED BY <2>2, MembersOfTheDay
<1>3. HoldsOldEntries(r)'
  <2>1. CASE step'[r] = "deduct"
    <3>1. /\ work'[r].member = work[r].member
          /\ \/ /\ work'[r].entries = Expired(work[r].member, today)
                /\ work'[r].entries # {}
             \/ step[r] = "deduct" /\ work'[r].entries = work[r].entries
      BY <2>1, ExpirationDetail
    <3> QED BY <1>0, <2>1, <3>1 DEF HoldsOldEntries, Expired, GetStarLedgerEntries
  <2>2. CASE step'[r] = "delete_star_ledger_entries"
    <3>1. /\ work'[r].entries \subseteq work[r].entries /\ work'[r].entries # {}
          /\ work'[r].member = work[r].member
          /\ step[r] \in {"deduct", "delete_star_ledger_entries"}
      BY <2>2, ExpirationDetail DEF HoldsOldEntries
    <3> QED BY <1>0, <3>1 DEF HoldsOldEntries
  <2> QED BY <2>1, <2>2 DEF HoldsOldEntries
<1> QED BY <1>1, <1>2, <1>3

\* Every step keeps it: a new day begins when the index has caught up and
\* nobody is at work.
LEMMA DayStep ==
  ASSUME SystemInv, DayInv, [SystemNext]_systemVars
  PROVE  DayInv'
<1>1. ASSUME NEW r \in Runs, RunAction(r) PROVE DayInv'
  <2>1. SameDay /\ byTier' = byTier /\ pc' = pc /\ local' = local
    BY <1>1, RunsAreOfToday, RunLeaves DEF deliveryVars
  <2>2. IndexLag' /\ \A d \in Deliveries : ReadToday(d)'
    BY <2>1, IndexLagKept, ReadTodayKept DEF DayInv
  <2>3. ASSUME NEW q \in Runs
        PROVE  ListedDue(q)' /\ ListedQuiet(q)' /\ HoldsOldEntries(q)'
    <3>1. CASE q = r
      BY <1>1, <2>1, <3>1, ListsByRun DEF DayInv
    <3>2. CASE q # r
      BY <1>1, <2>1, <3>2, OtherRunsStay, ListsKept DEF DayInv
    <3> QED BY <3>1, <3>2
  <2> QED BY <2>2, <2>3 DEF DayInv
<1>2. ASSUME SameDay, UNCHANGED <<step, work>>
      PROVE  \A q \in Runs : ListedDue(q)' /\ ListedQuiet(q)' /\ HoldsOldEntries(q)'
  BY <1>2, ListsKept DEF DayInv
<1>3. ASSUME [Next]_vars, today' = today, UNCHANGED <<byTier, runVars, historyVars>>
      PROVE  DayInv'
  <2>1. SameDay
    BY <1>3, HandlersAreOfToday DEF DayInv
  <2>2. IndexLag' /\ UNCHANGED <<step, work>>
    BY <1>3, <2>1, IndexLagKept DEF DayInv, runVars
  <2>3. ASSUME NEW d \in Deliveries PROVE ReadToday(d)'
    <3>1. CASE DeliveryAction(d)
      BY <2>1, <3>1, ReadTodayByHandler DEF DayInv
    <3>2. ASSUME NEW e \in Deliveries, e # d, DeliveryAction(e) PROVE ReadToday(d)'
      BY <2>1, <3>2, OthersUnchanged, ReadTodayKept DEF DayInv, SystemInv, CoreInv
    <3>3. CASE Propagate \/ PassDay \/ UNCHANGED vars
      <4>1. pc' = pc /\ local' = local
        BY <3>3 DEF Propagate, PassDay, vars, deliveryVars
      <4> QED BY <2>1, <4>1, ReadTodayKept DEF DayInv
    <3> QED BY <1>3, <3>1, <3>2, <3>3, NextCases
  <2> QED BY <1>2, <2>1, <2>2, <2>3 DEF DayInv
<1>4. ASSUME UNCHANGED <<profile, today>> PROVE SameDay
  BY <1>4 DEF SameDay
<1>5. ASSUME PropagateToTierIndex, UNCHANGED <<deliveryVars, runVars, historyVars>>
      PROVE  DayInv'
  <2>1. SameDay /\ pc' = pc /\ local' = local /\ UNCHANGED <<step, work>>
    BY <1>4, <1>5 DEF PropagateToTierIndex, tableVars, deliveryVars, runVars
  <2> QED BY <1>2, <1>5, <2>1, IndexCatchesUp, ReadTodayKept DEF DayInv
<1>6. ASSUME DeleteOldRecord PROVE DayInv'
  <2>1. SameDay /\ byTier' = byTier /\ pc' = pc /\ local' = local /\ UNCHANGED <<step, work>>
    BY <1>4, <1>6 DEF DeleteOldRecord, TimeToLive, deliveryVars, runVars
  <2> QED BY <1>2, <2>1, IndexLagKept, ReadTodayKept DEF DayInv
<1>7. ASSUME NextDate PROVE DayInv'
  <2>1. /\ UNCHANGED <<tableVars, byTier, runVars, deliveryVars>>
        /\ \A r \in Runs : ~Active(r)
    BY <1>7, NextDateIsLater
  <2>2. IndexLag'
    BY <1>7, <2>1 DEF NextDate, Settled, IndexLag, tableVars
  <2>3. ASSUME NEW d \in Deliveries PROVE ReadToday(d)'
    <3>1. pc[d] \notin Running
      <4>1. pc[d] \in {"done", "dead letter"} \/ attempt[d] = 0
        BY <1>7 DEF NextDate, Settled
      <4>2. pc[d] \in Running => attempt[d] > 0
        BY DEF SystemInv, CoreInv, Progress
      <4>3. "done" \notin Running /\ "dead letter" \notin Running
        BY DEF Running, Request
      <4>4. attempt[d] = 0 => ~(attempt[d] > 0)
        OBVIOUS
      <4> QED BY <4>1, <4>2, <4>3, <4>4
    <3> QED BY <2>1, <3>1 DEF ReadToday, deliveryVars
  <2>4. ASSUME NEW r \in Runs PROVE ListedDue(r)' /\ ListedQuiet(r)' /\ HoldsOldEntries(r)'
    <3>1. step'[r] \notin MemberEvaluation \cup MemberExpiration
      BY <2>1 DEF Active, runVars, Ended, MemberEvaluation, MemberExpiration
    <3> QED BY <3>1 DEF ListedDue, ListedQuiet, HoldsOldEntries, MemberExpiration
  <2> QED BY <2>2, <2>3, <2>4 DEF DayInv
<1> QED BY <1>1, <1>3, <1>5, <1>6, <1>7, SystemNextCases

\* It holds at the start.
LEMMA DayInit == SystemInit => DayInv
<1> SUFFICES ASSUME SystemInit PROVE DayInv
  OBVIOUS
<1>1. IndexLag
  BY DEF SystemInit, Init, TableInit, TierIndexInit, IndexLag
<1>2. \A d \in Deliveries : ReadToday(d)
  BY DEF SystemInit, Init, DeliveryInit, ReadToday, Running, Request
<1>3. \A r \in Runs : ListedDue(r) /\ ListedQuiet(r) /\ HoldsOldEntries(r)
  BY DEF SystemInit, RunsInit, ListedDue, ListedQuiet, HoldsOldEntries, MemberEvaluation,
     MemberExpiration
<1> QED BY <1>1, <1>2, <1>3 DEF DayInv

\* It holds always.
THEOREM DayInvHolds == SystemSpec => []DayInv
<1>1. SystemInv /\ DayInv /\ [SystemNext]_systemVars => DayInv'
  BY DayStep
<1> QED BY DayInit, <1>1, SystemInvHolds, PTL DEF SystemSpec

\* Steps that are not of a run leave the tiers, the keys and the dates alone, and
\* take nothing from the ledger.
LEMMA OtherStepsKeepTiers ==
  ASSUME SystemInv, [SystemNext]_systemVars
  PROVE  \/ \E r \in Runs : RunAction(r)
         \/ /\ deductions' = deductions /\ ledger \subseteq ledger'
            /\ UNCHANGED <<step, work, outcome, runAttempt>>
            /\ \A m \in Members : profile[m] # NoMember =>
                 /\ profile'[m] # NoMember
                 /\ profile'[m].tier = profile[m].tier
                 /\ profile'[m].nextTierEvaluation = profile[m].nextTierEvaluation
                 /\ profile'[m].evaluationKey = profile[m].evaluationKey
<1>1. ASSUME [Next]_vars, UNCHANGED <<runVars, historyVars>>
      PROVE  /\ deductions' = deductions /\ ledger \subseteq ledger'
             /\ UNCHANGED <<step, work, outcome, runAttempt>>
             /\ \A m \in Members : profile[m] # NoMember =>
                 /\ profile'[m] # NoMember
                 /\ profile'[m].tier = profile[m].tier
                 /\ profile'[m].nextTierEvaluation = profile[m].nextTierEvaluation
                 /\ profile'[m].evaluationKey = profile[m].evaluationKey
  <2>1. ledger \subseteq ledger'
    BY <1>1, HandlersAdd DEF SystemInv
  <2> QED BY <1>1, <2>1, HandlersKeepTiers DEF SystemInv, historyVars, runVars
<1>2. ASSUME \/ PropagateToTierIndex /\ UNCHANGED <<deliveryVars, runVars, historyVars>>
             \/ DeleteOldRecord \/ NextDate
      PROVE  UNCHANGED <<deductions, ledger, profile, step, work, outcome, runAttempt>>
  BY <1>2 DEF PropagateToTierIndex, DeleteOldRecord, TimeToLive, NextDate, AdvanceCalendar,
              tableVars, historyVars, runVars
<1> QED BY <1>1, <1>2, SystemNextCases

\* Only someone who was Green when the day began gets an entry that will expire,
\* however late the write of the entry follows the read of the tier.
THEOREM EntriesAreForTheGreen == SystemSpec => StaleTierIsOfToday
<1>1. ASSUME SystemInv, DayInv, [SystemNext]_systemVars, NEW b \in ledger' \ ledger
      PROVE  profile[b.member].tier = "Green" \/ EvaluatedToday(profile[b.member])
  <2>1. ~\E r \in Runs : RunAction(r)
    BY <1>1, RunLeaves
  <2>2. [Next]_vars
    <3>1. ASSUME \/ PropagateToTierIndex
                 \/ DeleteOldRecord \/ NextDate
          PROVE  ledger' = ledger
      BY <3>1 DEF PropagateToTierIndex, DeleteOldRecord, TimeToLive, NextDate,
              AdvanceCalendar, tableVars
    <3> QED BY <1>1, <2>1, <3>1, SystemNextCases
  <2>3. PICK d \in Deliveries :
          /\ pc[d] = "create_star_ledger_entry"
          /\ ledger' = ledger \cup
               {[member |-> EventOf[d].member, stars |-> local[d].stars,
                 day |-> local[d].now, by |-> <<d, attempt[d]>>]}
    BY <1>1, <2>2, HandlersAdd DEF SystemInv
  <2>4. b.member = EventOf[d].member
    BY <1>1, <2>3
  <2>5. ReadToday(d) /\ pc[d] \in Running \ {"check_transaction_exists", "get_member"}
    BY <1>1, <2>3 DEF DayInv, Running, Request
  <2> QED BY <2>3, <2>4, <2>5 DEF ReadToday, MovedToday, EvaluatedToday
<1>2. SystemInv /\ DayInv /\ [SystemNext]_systemVars =>
        [\A b \in ledger' \ ledger :
           LET p == profile[b.member]
           IN  p.tier = "Green" \/ EvaluatedToday(p)]_systemVars
  BY <1>1
<1> QED BY <1>2, SystemInvHolds, DayInvHolds, PTL DEF SystemSpec, StaleTierIsOfToday

\* Whoever loses stars was Green and had been quiet for thirty days when the day
\* began, and loses them for her own entries of 180 days ago or more.
THEOREM OnlyTheQuietPay == SystemSpec => OnlyQuietGreenMembersPay
<1>1. ASSUME SystemInv, DayInv, [SystemNext]_systemVars, NEW x \in deductions' \ deductions
      PROVE  LET p == profile[x.member]
             IN  /\ \A b \in x.entries :
                      b.member = x.member /\ today - b.day >= LifetimeDays
                 /\ p.tier = "Green" \/ EvaluatedToday(p)
                 /\ p.lastQualifyingActivity \notin (today - InactiveDays)..(today - 1)
  <2>1. PICK r \in Runs : RunAction(r)
    BY <1>1, OtherStepsKeepTiers
  <2>2. /\ step[r] = "deduct" /\ x.member = work[r].member /\ x.entries = work[r].entries
    <3>1. PICK n \in Sending : Takes(r, n)
      BY <1>1, <2>1, HistoryAfterRun
    <3>2. step[r] = "deduct" /\ x = Taken(r, n)
      BY <1>1, <3>1 DEF Takes
    <3> QED BY <3>2 DEF Taken
  <2>3. /\ ListedQuiet(r) /\ HoldsOldEntries(r) /\ RunLists(r) /\ today \in Nat
    BY <1>1 DEF DayInv, SystemInv, RunInv, CoreInv, TypeOK, Day
  <2>4. /\ work[r] \in ExpirationWork /\ Quiet(profile[x.member])
        /\ x.entries # {} /\ x.entries \subseteq LedgerEntry
        /\ \A b \in x.entries : b.member = x.member /\ b.day <= today - LifetimeDays
    BY <2>2, <2>3, WorkFields DEF RunLists, MemberExpiration, ListedQuiet, HoldsOldEntries
  <2>5. \A b \in x.entries : b.day \in Nat /\ today - b.day >= LifetimeDays
    BY <2>3, <2>4 DEF LedgerEntry, Day, LifetimeDays
  <2>6. today >= LifetimeDays
    BY <2>3, <2>4, <2>5 DEF LifetimeDays
  <2>7. profile[x.member].lastQualifyingActivity \notin (today - InactiveDays)..(today - 1)
    <3>1. \/ profile[x.member].lastQualifyingActivity = NeverActive
          \/ profile[x.member].lastQualifyingActivity < today - InactiveDays
          \/ profile[x.member].lastQualifyingActivity = today
      BY <2>4 DEF Quiet
    <3> DEFINE last == profile[x.member].lastQualifyingActivity
    <3>2. last \in Int => last \notin (today - InactiveDays)..(today - 1)
      BY <2>3, <2>6, <3>1 DEF NeverActive, InactiveDays, LifetimeDays
    <3> QED BY <3>2
  <2>8. profile[x.member].tier = "Green" \/ EvaluatedToday(profile[x.member])
    BY <2>4 DEF Quiet, MovedToday, EvaluatedToday
  <2> QED BY <2>4, <2>5, <2>7, <2>8
<1>2. SystemInv /\ DayInv /\ [SystemNext]_systemVars =>
        [\A x \in deductions' \ deductions :
           LET p == profile[x.member]
           IN  /\ \A b \in x.entries :
                    b.member = x.member /\ today - b.day >= LifetimeDays
               /\ p.tier = "Green" \/ EvaluatedToday(p)
               /\ p.lastQualifyingActivity \notin (today - InactiveDays)..(today - 1)
        ]_systemVars
  BY <1>1
<1> QED BY <1>2, SystemInvHolds, DayInvHolds, PTL DEF SystemSpec, OnlyQuietGreenMembersPay

\* A tier lasts until the evaluation of its member is due.
THEOREM TiersLast == SystemSpec => TierLastsUntilEvaluation
<1>1. ASSUME SystemInv, DayInv, [SystemNext]_systemVars, NEW m \in Members,
             profile[m] # NoMember, profile'[m].tier # profile[m].tier
      PROVE  profile[m].evaluationKey < today \/ EvaluatedToday(profile[m])
  <2>1. PICK r \in Runs : RunAction(r)
    BY <1>1, OtherStepsKeepTiers
  <2>2. PICK n \in Members, p \in Profile :
           /\ n = work[r].member /\ profile' = [profile EXCEPT ![n] = p]
           /\ Writes(r, n, p)
    BY <1>1, <2>1, ProfileMoves
  <2>3. n = m /\ p.tier # profile[m].tier
    BY <1>1, <2>2 DEF SystemInv, CoreInv, TypeOK
  <2>4. step[r] \in MemberEvaluation
    BY <2>2, <2>3 DEF Writes, MemberEvaluation
  <2> QED BY <1>1, <2>2, <2>3, <2>4 DEF DayInv, ListedDue, MovedToday, EvaluatedToday
<1>2. SystemInv /\ DayInv /\ [SystemNext]_systemVars =>
        [\A m \in Members :
           /\ profile[m] # NoMember
           /\ profile'[m].tier # profile[m].tier
           => profile[m].evaluationKey < today \/ EvaluatedToday(profile[m])]_systemVars
  BY <1>1
<1> QED BY <1>2, SystemInvHolds, DayInvHolds, PTL DEF SystemSpec, TierLastsUntilEvaluation

-----------------------------------------------------------------------------
\* The local variables of the evaluation are never those of a run without
\* any.
LEMMA EvaluationHasWork == \A w \in EvaluationWork : w # NoWork
<1>1. ASSUME NEW w \in EvaluationWork PROVE w # NoWork
  <2>1. "todo" \in DOMAIN w
    BY DEF EvaluationWork
  <2>2. "todo" \notin DOMAIN NoWork
    BY DEF NoWork
  <2> QED BY <2>1, <2>2
<1> QED BY <1>1

\* The run goes on with the same member.
Stays(r, steps) ==
  /\ step'[r] \in steps /\ outcome'[r] = outcome[r] /\ runAttempt'[r] = runAttempt[r]
  /\ work'[r] \in EvaluationWork
  /\ work'[r].now = work[r].now /\ work'[r].round = work[r].round
  /\ work'[r].todo = work[r].todo /\ work'[r].member = work[r].member
  /\ work'[r].errors = work[r].errors

\* What a run of the evaluation may do at each of its requests.
LEMMA EvaluationDetail ==
  ASSUME SystemInv, NEW r \in Runs, RunAction(r),
         step[r] \in EvaluationRequest \cup RemovalRequest
  PROVE  \/ Stops(r)
         \/ EvaluationRequestFails(r)
         \/ step[r] = "query_due_members" /\ QueryDueMembers(r)
         \/ /\ step[r] = "get_member_transactions" /\ SumYear(r)
            /\ Stays(r, {"update_member_tier", "keep_tier_date"})
            /\ work'[r].stars = CalculateAnnualStars(work[r].member, today)
            /\ step'[r] = "keep_tier_date" =>
                 DetermineTier(work'[r].stars) = OldTier(r)
         \/ /\ step[r] = "update_member_tier" /\ MoveTier(r)
            /\ Stays(r, {"update_annual_count"}) /\ work'[r] = work[r]
         \/ /\ step[r] = "update_annual_count" /\ SetAnnualCount(r)
            /\ Stays(r, {"list_promoted_entries", "record_tier_change"})
         \/ /\ step[r] \in RemovalRequest
            /\ Stays(r, {"remove_expiration_date", "record_tier_change"})
         \/ step[r] = "record_tier_change" /\ RecordTierChange(r)
         \/ /\ step[r] = "keep_tier_date" /\ KeepTierDate(r)
            /\ Stays(r, {"keep_tier_key"}) /\ work'[r] = work[r]
         \/ step[r] = "keep_tier_key" /\ KeepTierKey(r)
<1>0. /\ RunTypes /\ RunControl(r) /\ RunLists(r) /\ today \in Day
      /\ work[r] \in EvaluationWork /\ Active(r) /\ work[r].now = today
      /\ work[r].entries \subseteq LedgerEntry
  <2>1. RunTypes /\ RunControl(r) /\ RunLists(r) /\ today \in Day
    BY DEF SystemInv, RunInv, CoreInv, TypeOK
  <2>2. Active(r) /\ work[r] \in EvaluationWork
    BY <2>1 DEF EvaluationRequest, RemovalRequest, Active, Ended, RunLists, MemberEvaluation
  <2> QED BY <2>1, <2>2, WorkFields DEF RunControl
<1>a. /\ \A s : RunGoesTo(r, s) => step'[r] = s
      /\ \A w : SetWork(r, w) => work'[r] = w
  BY <1>0 DEF RunTypes, RunGoesTo, SetWork
<1>b. ASSUME NEW steps, step'[r] \in steps, outcome' = outcome, runAttempt' = runAttempt,
             work'[r] = work[r]
      PROVE  Stays(r, steps)
  BY <1>0, <1>b DEF Stays
<1>1. ASSUME CrashRun(r) \/ DiscardRun(r) PROVE Stops(r)
  <2>1. ~DiscardRun(r)
    BY <1>0 DEF DiscardRun, Active
  <2> QED BY <1>0, <1>1, <1>a, <2>1 DEF CrashRun, AfterRunCrash, Stops
<1>2. ASSUME SumYear(r)
      PROVE  /\ Stays(r, {"update_member_tier", "keep_tier_date"})
             /\ work'[r].stars = CalculateAnnualStars(work[r].member, today)
             /\ step'[r] = "keep_tier_date" => DetermineTier(work'[r].stars) = OldTier(r)
  <2>1. CalculateAnnualStars(work[r].member, today) \in Int
    <3>1. work[r].member \in Members
      BY <1>0, <1>2 DEF SumYear, RunLists, MemberEvaluation, Present
    <3> QED BY <1>0, <3>1, SumsAreIntegers
  <2>2. PICK stars \in Int :
          /\ stars = CalculateAnnualStars(work[r].member, today)
          /\ SetWork(r, [work[r] EXCEPT !.stars = stars])
          /\ RunGoesTo(r, IF DetermineTier(stars) # OldTier(r)
                            THEN "update_member_tier" ELSE "keep_tier_date")
    BY <1>0, <1>2, <2>1 DEF SumYear
  <2> DEFINE v == [work[r] EXCEPT !.stars = stars]
  <2>3. /\ v \in EvaluationWork /\ v.now = work[r].now /\ v.round = work[r].round
        /\ v.errors = work[r].errors /\ v.todo = work[r].todo /\ v.member = work[r].member
        /\ v.stars = stars
    BY <1>0 DEF EvaluationWork
  <2>4. /\ work'[r] = v
        /\ step'[r] = IF DetermineTier(stars) # OldTier(r)
                        THEN "update_member_tier" ELSE "keep_tier_date"
    BY <1>a, <2>2
  <2> HIDE DEF v
  <2>5. outcome' = outcome /\ runAttempt' = runAttempt
    BY <1>2 DEF SumYear
  <2> QED BY <2>2, <2>3, <2>4, <2>5 DEF Stays
<1>3. ASSUME MoveTier(r)
      PROVE  Stays(r, {"update_annual_count"}) /\ work'[r] = work[r]
  BY <1>3, <1>a, <1>b DEF MoveTier
<1>4. ASSUME SetAnnualCount(r)
      PROVE  Stays(r, {"list_promoted_entries", "record_tier_change"})
  BY <1>4, <1>a, <1>b DEF SetAnnualCount
<1>5. ASSUME KeepTierDate(r)
      PROVE  Stays(r, {"keep_tier_key"}) /\ work'[r] = work[r]
  BY <1>5, <1>a, <1>b DEF KeepTierDate
<1>6. ASSUME ListPromotedEntries(r) \/ RemoveExpirationDate(r) \/ RemovalFails(r)
      PROVE  /\ step[r] \in RemovalRequest
             /\ Stays(r, {"remove_expiration_date", "record_tier_change"})
  <2>0. step[r] \in RemovalRequest /\ runAttempt' = runAttempt /\ outcome' = outcome
    BY <1>6 DEF ListPromotedEntries, RemoveExpirationDate, RemovalFails, RemovalRequest
  <2>1. CASE work' = work /\ RunGoesTo(r, "record_tier_change")
    BY <1>a, <1>b, <2>0, <2>1
  <2>2. ASSUME NEW entries \in SUBSET LedgerEntry,
               SetWork(r, [work[r] EXCEPT !.entries = entries]),
               NEW s \in {"record_tier_change", "remove_expiration_date"}, RunGoesTo(r, s)
        PROVE  Stays(r, {"remove_expiration_date", "record_tier_change"})
    <3> DEFINE v == [work[r] EXCEPT !.entries = entries]
    <3>1. /\ v \in EvaluationWork /\ v.now = work[r].now /\ v.round = work[r].round
          /\ v.errors = work[r].errors /\ v.todo = work[r].todo /\ v.member = work[r].member
      BY <1>0 DEF EvaluationWork
    <3>2. work'[r] = v /\ step'[r] = s
      BY <1>a, <2>2
    <3> HIDE DEF v
    <3> QED BY <2>0, <3>1, <3>2 DEF Stays
  <2>3. CASE ListPromotedEntries(r)
    BY <2>0, <2>2, <2>3 DEF ListPromotedEntries, GetStarLedgerEntries, SystemInv, CoreInv, TypeOK
  <2>4. ASSUME NEW b, AfterEntry(r, b)
        PROVE  Stays(r, {"remove_expiration_date", "record_tier_change"})
    <3>1. work[r].entries \ {b} \in SUBSET LedgerEntry
      BY <1>0
    <3> QED BY <2>2, <2>4, <3>1 DEF AfterEntry
  <2> QED BY <1>6, <2>0, <2>1, <2>3, <2>4 DEF RemoveExpirationDate, RemovalFails
<1>7. \/ CrashRun(r) \/ DiscardRun(r) \/ EvaluationRequestFails(r) \/ QueryDueMembers(r)
      \/ SumYear(r) \/ MoveTier(r) \/ SetAnnualCount(r) \/ KeepTierDate(r) \/ KeepTierKey(r)
      \/ ListPromotedEntries(r) \/ RemoveExpirationDate(r) \/ RemovalFails(r)
      \/ RecordTierChange(r)
  <2>1. step[r] \notin ExpirationRequest /\ step[r] # "waiting"
    BY DEF ExpirationRequest, EvaluationRequest, RemovalRequest
  <2>2. /\ ~StartExpiration(r) /\ ~StartEvaluation(r) /\ ~ExpirationRequestFails(r)
        /\ ~DeductUnanswered(r)
    BY <2>1 DEF StartExpiration, StartEvaluation, StartRun, ExpirationRequestFails,
       DeductUnanswered, ExpirationRequest
  <2>3. /\ ~QueryGreenMembers(r) /\ ~ReadLedger(r) /\ ~Deduct(r) /\ ~DeleteEntries(r)
        /\ ~RecordExpiration(r)
    BY <2>1 DEF QueryGreenMembers, ReadLedger, Deduct, DeleteEntries, RecordExpiration,
       ExpirationRequest
  <2> QED BY <2>2, <2>3 DEF RunAction, RunStep, RunFault, Expire, Evaluate
<1> QED BY <1>1, <1>2, <1>3, <1>4, <1>5, <1>6, <1>7
        DEF QueryDueMembers, SumYear, MoveTier, SetAnnualCount, KeepTierDate, KeepTierKey,
            RecordTierChange

\* An attempt that broke off, or skipped a member, stays interrupted.
LEMMA InterruptionsLast ==
  ASSUME SystemInv, NEW r \in Runs, RunAction(r), NEW q \in Runs, Interrupted(q)
  PROVE  Interrupted(q)'
<1>1. CASE q # r
  BY <1>1, OtherRunsStay DEF Interrupted
<1>2. CASE q = r
  <2>0. /\ RunControl(r) /\ RunLists(r) /\ runAttempt[r] \in Nat
    <3>1. RunTypes /\ RunControl(r) /\ RunLists(r) /\ MaxRunAttempts \in Nat
      BY RunAssumption DEF SystemInv, RunInv
    <3>2. runAttempt[r] \in 0..MaxRunAttempts
      BY <3>1 DEF RunTypes
    <3> QED BY <3>1, <3>2
  <2>1. CASE Starts(r)
    <3>1. runAttempt[r] > 0
      BY <1>2, <2>0, <2>1 DEF Interrupted, Starts, RunControl, Active
    <3>2. runAttempt'[r] > 1
      BY <2>0, <2>1, <3>1 DEF Starts
    <3> QED BY <1>2, <3>2 DEF Interrupted
  <2>2. CASE Stops(r)
    BY <1>2, <2>0, <2>2 DEF Interrupted, Stops, RunControl
  <2>3. CASE Finishes(r)
    <3>1. \/ runAttempt[r] > 1
          \/ JobOf[r] = "evaluation" /\ work[r].errors > 0
      BY <1>2, <2>0, <2>3 DEF Interrupted, Finishes, RunControl, Active, Ended
    <3>2. ASSUME JobOf[r] = "evaluation", work[r].errors > 0 PROVE outcome'[r].errors > 0
      <4>1. /\ step[r] \in EvaluationRequest
            /\ \E n \in {work[r].errors, 1} : outcome'[r] = Reply("ok", n)
        BY <2>0, <2>3, <3>2 DEF Finishes, RunControl
      <4>2. work[r].errors \in Nat
        BY <2>0, <4>1, WorkFields DEF RunLists, EvaluationRequest, MemberEvaluation
      <4>3. outcome'[r].errors \in {work[r].errors, 1}
        BY <4>1, <4>2 DEF Reply
      <4> QED BY <3>2, <4>2, <4>3
    <3>3. runAttempt'[r] = runAttempt[r]
      BY <2>3 DEF Finishes
    <3> QED BY <1>2, <3>1, <3>2, <3>3 DEF Interrupted
  <2>4. CASE ExpirationGoes(r)
    BY <1>2, <2>0, <2>4 DEF Interrupted, ExpirationGoes, RunControl, ExpirationRequest
  <2>5. CASE EvaluationGoes(r)
    <3>1. /\ step[r] \in EvaluationRequest \cup RemovalRequest /\ work'[r] \in EvaluationWork
          /\ runAttempt'[r] = runAttempt[r] /\ outcome'[r] = outcome[r]
          /\ work'[r].errors >= work[r].errors
      BY <2>5 DEF EvaluationGoes
    <3>2. work[r] \in EvaluationWork
      BY <2>0, <3>1 DEF RunLists, EvaluationRequest, RemovalRequest, MemberEvaluation
    <3>3. /\ work'[r] # NoWork /\ work[r].errors \in Nat /\ work'[r].errors \in Nat
      BY <3>1, <3>2, EvaluationHasWork, WorkFields
    <3>4. work[r].errors > 0 => work'[r].errors > 0
      BY <3>1, <3>3
    <3> QED BY <1>2, <3>1, <3>3, <3>4 DEF Interrupted, EvaluationRequest, RemovalRequest
  <2> QED BY <2>1, <2>2, <2>3, <2>4, <2>5, RunGoes
<1> QED BY <1>1, <1>2

\* A crash interrupts a run, and so does an error that skips a member.
LEMMA FaultsInterrupt ==
  ASSUME SystemInv, NEW r \in Runs, RunAction(r),
         step[r] \in EvaluationRequest \cup RemovalRequest,
         Stops(r) \/ EvaluationRequestFails(r)
  PROVE  Interrupted(r)'
<1>0. /\ RunTypes /\ RunControl(r) /\ Active(r) /\ work[r] \in EvaluationWork
      /\ JobOf[r] = "evaluation"
  <2>1. RunTypes /\ RunControl(r) /\ RunLists(r)
    BY DEF SystemInv, RunInv
  <2>2. Active(r) /\ work[r] \in EvaluationWork
    BY <2>1 DEF EvaluationRequest, RemovalRequest, Active, Ended, RunLists, MemberEvaluation
  <2> QED BY <2>1, <2>2 DEF RunControl
<1>1. CASE Stops(r)
  BY <1>0, <1>1 DEF Stops, RunControl, Interrupted
<1>2. CASE EvaluationRequestFails(r)
  <2> DEFINE v == [work[r] EXCEPT !.errors = 1]
  <2>1. v \in EvaluationWork /\ v.errors > 0
    <3>1. v \in EvaluationWork /\ v.errors = 1
      BY <1>0, NextDueWork DEF EvaluationWork
    <3> QED BY <3>1
  <2>2. NextDue(r, v)
    BY <1>2 DEF EvaluationRequestFails
  <2> HIDE DEF v
  <2>3. CASE \E w \in EvaluationWork : w.errors = v.errors /\ work' = [work EXCEPT ![r] = w]
    <3>1. work'[r] \in EvaluationWork /\ work'[r].errors > 0
      BY <1>0, <2>1, <2>3 DEF RunTypes
    <3> QED BY <1>0, <3>1, EvaluationHasWork DEF Interrupted
  <2>4. CASE outcome' = [outcome EXCEPT ![r] = Reply("ok", v.errors)]
    BY <1>0, <2>1, <2>4 DEF RunTypes, Reply, Interrupted
  <2> QED BY <1>0, <2>1, <2>2, <2>3, <2>4, EvaluationGoesOn
<1> QED BY <1>1, <1>2

-----------------------------------------------------------------------------
\* No record is lost: DynamoDB deletes only what the history keeps.
LEMMA HistoryGrows ==
  ASSUME SystemInv, [SystemNext]_systemVars
  PROVE  History \subseteq History'
<1>1. CASE [Next]_vars /\ today' = today /\ UNCHANGED <<byTier, runVars, historyVars>>
  <2>1. txns \subseteq txns' /\ purged' = purged
    BY <1>1, HandlersAdd DEF SystemInv, historyVars
  <2> QED BY <2>1 DEF History
<1>2. ASSUME NEW r \in Runs, RunAction(r) PROVE History \subseteq History'
  <2>1. txns \subseteq txns' /\ purged' = purged
    BY <1>2, RecordsAfterRun, RunLeaves
  <2> QED BY <2>1 DEF History
<1>3. CASE PropagateToTierIndex /\ UNCHANGED <<deliveryVars, runVars, historyVars>>
  BY <1>3 DEF PropagateToTierIndex, tableVars, historyVars, History
<1>4. CASE DeleteOldRecord
  BY <1>4 DEF DeleteOldRecord, History
<1>5. CASE NextDate
  BY <1>5, NextDateIsLater DEF tableVars, historyVars, History
<1> QED BY <1>1, <1>2, <1>3, <1>4, <1>5, SystemNextCases

\* Nobody enrolls or leaves, and the index shows what it showed or the profile.
LEMMA MembersStay ==
  ASSUME SystemInv, \A d \in Deliveries : ReadToday(d), [SystemNext]_systemVars,
         NEW m \in Members
  PROVE  /\ profile'[m] = NoMember <=> profile[m] = NoMember
         /\ byTier'[m] = byTier[m] \/ byTier'[m] = profile[m]
<1>1. CASE [Next]_vars /\ today' = today /\ UNCHANGED <<byTier, runVars, historyVars>>
  BY <1>1, HandlersAreOfToday DEF SameDay
<1>2. ASSUME NEW r \in Runs, RunAction(r)
      PROVE  /\ profile'[m] = NoMember <=> profile[m] = NoMember
             /\ byTier'[m] = byTier[m] \/ byTier'[m] = profile[m]
  BY <1>2, RunsAreOfToday, RunLeaves DEF SameDay
<1>3. CASE PropagateToTierIndex /\ UNCHANGED <<deliveryVars, runVars, historyVars>>
  <2>1. byTier \in [Members -> Profile \cup {NoMember}]
    BY DEF SystemInv, ItemsInv
  <2> QED BY <1>3, <2>1 DEF PropagateToTierIndex, tableVars
<1>4. CASE DeleteOldRecord
  BY <1>4 DEF DeleteOldRecord, TimeToLive
<1>5. CASE NextDate
  BY <1>5, NextDateIsLater DEF tableVars
<1> QED BY <1>1, <1>2, <1>3, <1>4, <1>5, SystemNextCases

-----------------------------------------------------------------------------
\* The requests of the evaluation from a new tier to its record.
Recording == {"update_annual_count", "record_tier_change"} \cup RemovalRequest

\* There is a record of a change of the member's tier, or it is about to come, or
\* a run was interrupted.
Explained(m) ==
  \/ \E t \in History : t.type = "TIER_CHANGE" /\ t.member = m
  \/ \E r \in Runs : WorksOn(r, m, Recording) \/ Interrupted(r)

\* The evaluation has the member in its list or at its turn.
ListedWith(r, m) == step[r] \in MemberEvaluation /\ m \in work[r].todo \cup {work[r].member}

\* The profile has another tier than at the start.
TierChanged(p, m) == p # NoMember /\ p.tier # Opening[m].tier

\* Wherever a member's tier is not the opening one, in the profile, in the index or
\* in the list of a run, the change is explained.
ChangesExplained ==
  \A m \in Members :
    \/ TierChanged(profile[m], m)
    \/ TierChanged(byTier[m], m)
    \/ \E r \in Runs : ListedWith(r, m) /\ OldTier(r) # Opening[m].tier
    => Explained(m)

\* Once a change is explained it stays so: a run that is about to record it does,
\* or is interrupted.
LEMMA ExplainedStays ==
  ASSUME SystemInv, [SystemNext]_systemVars, NEW m \in Members, Explained(m)
  PROVE  Explained(m)'
<1>1. CASE \E t \in History : t.type = "TIER_CHANGE" /\ t.member = m
  BY <1>1, HistoryGrows DEF Explained
<1>2. CASE UNCHANGED <<step, work, outcome, runAttempt>>
  BY <1>2, HistoryGrows DEF Explained, WorksOn, Interrupted
<1>3. ASSUME NEW r \in Runs, RunAction(r),
             NEW q \in Runs, WorksOn(q, m, Recording) \/ Interrupted(q)
      PROVE  Explained(m)'
  <2>1. CASE Interrupted(q)
    BY <1>3, <2>1, InterruptionsLast DEF Explained
  <2>2. CASE WorksOn(q, m, Recording) /\ q # r
    BY <1>3, <2>2, OtherRunsStay DEF Explained, WorksOn
  <2>3. CASE WorksOn(r, m, Recording)
    <3>0. step[r] \in Recording /\ work[r].member = m
      BY <2>3 DEF WorksOn
    <3>1. step[r] \in EvaluationRequest \cup RemovalRequest
      BY <3>0 DEF Recording, EvaluationRequest
    <3>2. CASE Stops(r) \/ EvaluationRequestFails(r)
      BY <1>3, <3>1, <3>2, FaultsInterrupt DEF Explained
    <3>3. CASE Stays(r, {"list_promoted_entries", "record_tier_change"})
      BY <3>0, <3>3 DEF Explained, Stays, WorksOn, Recording, RemovalRequest
    <3>4. CASE Stays(r, {"remove_expiration_date", "record_tier_change"})
      BY <3>0, <3>4 DEF Explained, Stays, WorksOn, Recording, RemovalRequest
    <3>5. CASE RecordTierChange(r)
      <4> DEFINE t == [id |-> Stamp(r), member |-> work[r].member, type |-> "TIER_CHANGE",
                       stars |-> 0, day |-> work[r].now, by |-> Stamp(r)]
      <4>1. t \in txns' /\ t.type = "TIER_CHANGE" /\ t.member = m
        BY <3>0, <3>5 DEF RecordTierChange, RecordTransaction
      <4> QED BY <4>1 DEF Explained, History
    <3> QED BY <1>3, <3>0, <3>1, <3>2, <3>3, <3>4, <3>5, EvaluationDetail
            DEF Recording, RemovalRequest
  <2> QED BY <1>3, <2>1, <2>2, <2>3
<1> QED BY <1>1, <1>2, <1>3, OtherStepsKeepTiers DEF Explained

\* A run changes a tier on the way to its record, or back to that of the list.
LEMMA ExplainedByRun ==
  ASSUME SystemInv, [SystemNext]_systemVars, ChangesExplained, NEW r \in Runs, RunAction(r),
         NEW m \in Members, TierChanged(profile'[m], m)
  PROVE  Explained(m)'
<1>0. profile \in [Members -> Profile \cup {NoMember}]
  BY DEF SystemInv, CoreInv, TypeOK
<1>1. CASE profile'[m] = profile[m]
  BY <1>1, ExplainedStays DEF ChangesExplained
<1>2. CASE profile'[m] # profile[m]
  <2>1. PICK n \in Members, p \in Profile :
          /\ n = work[r].member /\ profile[n] \in Profile /\ Active(r)
          /\ profile' = [profile EXCEPT ![n] = p]
          /\ Writes(r, n, p)
    BY <1>2, ProfileMoves
  <2>2. n = m /\ profile'[m] = p /\ profile[m] # NoMember
    BY <1>0, <1>2, <2>1, NoMemberAssumption
  <2>3. CASE p.tier = profile[m].tier
    BY <2>2, <2>3, ExplainedStays DEF ChangesExplained, TierChanged
  <2>4. CASE step[r] = "update_member_tier"
    <3>1. CASE Stops(r) \/ EvaluationRequestFails(r)
      BY <2>4, <3>1, FaultsInterrupt DEF Explained, EvaluationRequest
    <3>2. CASE Stays(r, {"update_annual_count"})
      BY <2>1, <2>2, <3>2 DEF Stays, Explained, WorksOn, Recording
    <3> QED BY <2>4, <3>1, <3>2, EvaluationDetail DEF EvaluationRequest, RemovalRequest
  <2>5. CASE step[r] = "keep_tier_key" /\ p.tier = OldTier(r)
    <3>1. ListedWith(r, m)
      BY <2>1, <2>2, <2>5 DEF ListedWith, MemberEvaluation
    <3> QED BY <2>2, <2>5, <3>1, ExplainedStays DEF ChangesExplained, TierChanged
  <2> QED BY <2>1, <2>2, <2>3, <2>4, <2>5 DEF Writes
<1> QED BY <1>1, <1>2

\* The members of a list have the tier that the index shows.
LEMMA ExplainedInLists ==
  ASSUME SystemInv, [SystemNext]_systemVars, ChangesExplained, NEW r \in Runs, RunAction(r),
         NEW q \in Runs, NEW m \in Members, ListedWith(q, m)', OldTier(q)' # Opening[m].tier
  PROVE  Explained(m)'
<1>1. CASE q # r
  BY <1>1, OtherRunsStay, ExplainedStays DEF ChangesExplained, ListedWith, OldTier
<1>2. CASE q = r
  <2>1. EvaluationGoes(r) /\ step'[r] # "query_due_members"
    BY <1>2, RunGoes
       DEF ListedWith, MemberEvaluation, Starts, Stops, Finishes, ExpirationGoes, MemberExpiration
  <2>2. work'[r].round = work[r].round
    BY <2>1 DEF EvaluationGoes
  <2>3. OldTier(r) # Opening[m].tier
    BY <1>2, <2>2 DEF OldTier
  <2>4. CASE step[r] = "query_due_members"
    <3>1. m \in ShownDue(OldTier(r), work[r].now)
      BY <1>2, <2>1, <2>4 DEF EvaluationGoes, ListedWith
    <3> QED BY <2>3, <3>1, ExplainedStays DEF ChangesExplained, TierChanged, ShownDue, Shown
  <2>5. CASE step[r] # "query_due_members"
    <3>1. m \in work[r].todo \cup {work[r].member}
      BY <1>2, <2>1, <2>5 DEF EvaluationGoes, ListedWith
    <3>2. step[r] \in MemberEvaluation
      BY <2>1, <2>5 DEF EvaluationGoes, EvaluationRequest, RemovalRequest, MemberEvaluation
    <3> QED BY <2>3, <3>1, <3>2, ExplainedStays DEF ChangesExplained, ListedWith
  <2> QED BY <2>4, <2>5
<1> QED BY <1>1, <1>2

\* Every step keeps the explanation of changed tiers.
LEMMA ExplainedStep ==
  ASSUME SystemInv, DayInv, ChangesExplained, [SystemNext]_systemVars
  PROVE  ChangesExplained'
<1> SUFFICES ASSUME NEW m \in Members,
                    \/ TierChanged(profile'[m], m)
                    \/ TierChanged(byTier'[m], m)
                    \/ \E r \in Runs : ListedWith(r, m)' /\ OldTier(r)' # Opening[m].tier
             PROVE  Explained(m)'
  BY DEF ChangesExplained, TierChanged
<1>1. CASE TierChanged(profile[m], m) \/ TierChanged(byTier[m], m)
  BY <1>1, ExplainedStays DEF ChangesExplained
<1>2. CASE TierChanged(byTier'[m], m)
  BY <1>1, <1>2, MembersStay DEF DayInv
<1>3. ASSUME NEW r \in Runs, RunAction(r) PROVE Explained(m)'
  BY <1>2, <1>3, ExplainedByRun, ExplainedInLists
<1>4. CASE /\ UNCHANGED <<step, work, outcome, runAttempt>>
           /\ \A n \in Members : profile[n] # NoMember =>
                 profile'[n] # NoMember /\ profile'[n].tier = profile[n].tier
  <2>1. CASE TierChanged(profile'[m], m)
    <3>1. profile[m] # NoMember
      BY <2>1, MembersStay DEF DayInv, TierChanged
    <3>2. TierChanged(profile[m], m)
      BY <1>4, <2>1, <3>1 DEF TierChanged
    <3> QED BY <1>1, <3>2
  <2>2. CASE \E r \in Runs : ListedWith(r, m)' /\ OldTier(r)' # Opening[m].tier
    BY <1>4, <2>2, ExplainedStays DEF ChangesExplained, ListedWith, OldTier
  <2> QED BY <1>2, <2>1, <2>2
<1> QED BY <1>3, <1>4, OtherStepsKeepTiers

\* Requirement 11.3: a tier that differs from the opening one has a record of its
\* change, or a run that will write it, unless a run was interrupted: no overlap
\* of runs, no lagging index and no write of an old tier back leaves a silent
\* change behind.
THEOREM ChangesHaveRecords == SystemSpec => []TierChangesAreRecorded
<1>1. SystemInit => ChangesExplained
  BY DEF SystemInit, Init, TableInit, TierIndexInit, RunsInit, ChangesExplained, TierChanged,
         ListedWith, MemberEvaluation
<1>2. SystemInv /\ DayInv /\ ChangesExplained /\ [SystemNext]_systemVars => ChangesExplained'
  BY ExplainedStep
<1>3. ChangesExplained => TierChangesAreRecorded
  BY DEF ChangesExplained, TierChanged, Explained, Recording, TierChangesAreRecorded
<1>4. QED
  BY <1>1, <1>2, <1>3, SystemInvHolds, DayInvHolds, PTL DEF SystemSpec

-----------------------------------------------------------------------------
\* create_member writes the key and the date of the first evaluation from one value.
OpeningKeysAgree ==
  \A m \in Members :
    Opening[m] # NoMember => Opening[m].evaluationKey = Opening[m].nextTierEvaluation

\* Dates and keys are days, and days are integers.
LEMMA KeysAreDays ==
  \A p \in Profile : p.evaluationKey \in Int /\ p.nextTierEvaluation \in Int
<1>1. ASSUME NEW p \in Profile
      PROVE  p.evaluationKey \in Nat /\ p.nextTierEvaluation \in Nat
  BY DEF Profile, Day
<1> QED BY <1>1

\* The key of one member agrees with her date, or somebody is to blame.
KeyOf(m) ==
  profile[m] # NoMember =>
    /\ profile[m].evaluationKey <= profile[m].nextTierEvaluation
    /\ profile[m].evaluationKey # profile[m].nextTierEvaluation =>
         \E r \in Runs : WorksOn(r, m, {"keep_tier_key"}) \/ Interrupted(r)

\* The two requests that keep a tier leave the key behind only in between.
LEMMA KeyByRun ==
  ASSUME SystemInv, DayInv, NEW r \in Runs, RunAction(r), NEW m \in Members, KeyOf(m)
  PROVE  KeyOf(m)'
<1> SUFFICES ASSUME profile'[m] # NoMember
             PROVE  /\ profile'[m].evaluationKey <= profile'[m].nextTierEvaluation
                    /\ profile'[m].evaluationKey # profile'[m].nextTierEvaluation =>
                         \E q \in Runs : WorksOn(q, m, {"keep_tier_key"})' \/ Interrupted(q)'
  BY DEF KeyOf
<1> DEFINE Same == /\ profile'[m].evaluationKey = profile[m].evaluationKey
                   /\ profile'[m].nextTierEvaluation = profile[m].nextTierEvaluation
           Agrees == /\ profile'[m].evaluationKey = profile'[m].nextTierEvaluation
                     /\ profile'[m].evaluationKey <= profile'[m].nextTierEvaluation
           Dated == /\ profile'[m].evaluationKey = profile[m].evaluationKey
                    /\ profile'[m].nextTierEvaluation = today + YearDays
                    /\ step[r] = "keep_tier_date" /\ work[r].member = m
           Blamed == \E q \in Runs : WorksOn(q, m, {"keep_tier_key"})' \/ Interrupted(q)'
<1>0. /\ profile \in [Members -> Profile \cup {NoMember}]
      /\ profile' \in [Members -> Profile \cup {NoMember}]
      /\ profile[m] # NoMember /\ today \in Day
      /\ \A p \in Profile : p.evaluationKey \in Int /\ p.nextTierEvaluation \in Int
  BY ProfileAfterRun, KeysAreDays DEF SystemInv, CoreInv, TypeOK
<1>1. Same \/ Agrees \/ Dated
  <2>1. CASE profile' = profile
    BY <2>1
  <2>2. ASSUME NEW n \in Members, NEW p \in Profile, n = work[r].member,
               profile' = [profile EXCEPT ![n] = p], Writes(r, n, p)
        PROVE  Same \/ Agrees \/ Dated
    <3>1. CASE n # m
      BY <1>0, <2>2, <3>1
    <3>2. CASE n = m /\ p.evaluationKey = p.nextTierEvaluation
      <4>1. profile'[m] = p
        BY <1>0, <2>2, <3>2
      <4>2. p.evaluationKey <= p.nextTierEvaluation
        BY <1>0, <3>2
      <4> QED BY <3>2, <4>1, <4>2
    <3>3. CASE n = m /\ p.evaluationKey # p.nextTierEvaluation
      <4>1. profile'[m] = p
        BY <1>0, <2>2, <3>3
      <4> QED BY <2>2, <3>3, <4>1 DEF Writes
    <3> QED BY <3>1, <3>2, <3>3
  <2> QED BY <2>1, <2>2, ProfileMoves
<1>2. CASE Agrees
  BY <1>2
<1>3. ASSUME NEW q \in Runs, WorksOn(q, m, {"keep_tier_key"}) \/ Interrupted(q)
      PROVE  Agrees \/ Blamed
  <2>1. CASE Interrupted(q)
    BY <1>3, <2>1, InterruptionsLast
  <2>2. CASE WorksOn(q, m, {"keep_tier_key"}) /\ q # r
    BY <1>3, <2>2, OtherRunsStay DEF WorksOn
  <2>3. CASE WorksOn(r, m, {"keep_tier_key"})
    <3>0. step[r] = "keep_tier_key" /\ work[r].member = m
      BY <2>3 DEF WorksOn
    <3>1. CASE Stops(r) \/ EvaluationRequestFails(r)
      BY <3>0, <3>1, FaultsInterrupt DEF EvaluationRequest
    <3>2. CASE KeepTierKey(r)
      <4>1. profile'[m].evaluationKey = NextEvaluation(r)
            /\ profile'[m].nextTierEvaluation = NextEvaluation(r)
        BY <1>0, <3>0, <3>2 DEF KeepTierKey, UpdateMemberTier
      <4>2. profile'[m].evaluationKey \in Int
        BY <1>0
      <4>3. profile'[m].evaluationKey <= profile'[m].nextTierEvaluation
        BY <4>1, <4>2
      <4> QED BY <4>1, <4>3
    <3> QED BY <3>0, <3>1, <3>2, EvaluationDetail DEF EvaluationRequest, RemovalRequest
  <2> QED BY <1>3, <2>1, <2>2, <2>3
<1>4. CASE Same
  <2>1. CASE profile[m].evaluationKey = profile[m].nextTierEvaluation
    BY <1>0, <1>4, <2>1 DEF KeyOf
  <2>2. CASE profile[m].evaluationKey # profile[m].nextTierEvaluation
    BY <1>0, <1>3, <1>4, <2>2 DEF KeyOf
  <2> QED BY <2>1, <2>2
<1>5. CASE Dated
  <2>1. profile[m].evaluationKey < today \/ profile[m].evaluationKey = today + YearDays
    BY <1>5 DEF DayInv, ListedDue, MemberEvaluation, MovedToday
  <2>2. profile'[m].evaluationKey <= profile'[m].nextTierEvaluation
    <3>1. profile[m].evaluationKey \in Int
      BY <1>0
    <3>2. today \in Int
      BY <1>0 DEF Day
    <3> QED BY <1>5, <2>1, <3>1, <3>2 DEF YearDays
  <2>3. Blamed
    <3>1. CASE Stops(r) \/ EvaluationRequestFails(r)
      BY <1>5, <3>1, FaultsInterrupt DEF EvaluationRequest
    <3>2. CASE Stays(r, {"keep_tier_key"})
      BY <1>5, <3>2 DEF Stays, WorksOn
    <3> QED BY <1>5, <3>1, <3>2, EvaluationDetail DEF EvaluationRequest, RemovalRequest
  <2> QED BY <2>2, <2>3
<1> QED BY <1>1, <1>2, <1>4, <1>5

\* The key under which GSI1 lists a member is never later than the evaluation date,
\* and earlier only between the two requests that keep a tier or after an
\* interruption: whatever runs overlap, no member is hidden from an evaluation.
THEOREM KeysFollowDates ==
  ASSUME OpeningKeysAgree
  PROVE  SystemSpec => []KeyFollowsDate
<1>1. SystemInit => \A m \in Members : KeyOf(m)
  <2>1. ASSUME NEW m \in Members, Opening[m] # NoMember
        PROVE  Opening[m].evaluationKey <= Opening[m].nextTierEvaluation
    <3>1. Opening[m] \in Profile
      BY <2>1, OpeningAssumption
    <3>2. Opening[m].evaluationKey \in Int /\ Opening[m].nextTierEvaluation \in Int
      BY <3>1, KeysAreDays
    <3>3. Opening[m].evaluationKey = Opening[m].nextTierEvaluation
      BY <2>1 DEF OpeningKeysAgree
    <3> QED BY <3>2, <3>3
  <2> QED BY <2>1 DEF SystemInit, Init, TableInit, KeyOf, OpeningKeysAgree
<1>2. ASSUME SystemInv, DayInv, \A m \in Members : KeyOf(m), [SystemNext]_systemVars
      PROVE  (\A m \in Members : KeyOf(m))'
  <2> SUFFICES ASSUME NEW m \in Members PROVE KeyOf(m)'
    OBVIOUS
  <2>1. CASE \E r \in Runs : RunAction(r)
    BY <1>2, <2>1, KeyByRun
  <2>2. CASE /\ UNCHANGED <<step, work, outcome, runAttempt>>
             /\ \A n \in Members : profile[n] # NoMember =>
                  /\ profile'[n].nextTierEvaluation = profile[n].nextTierEvaluation
                  /\ profile'[n].evaluationKey = profile[n].evaluationKey
    <3>2. profile'[m] = NoMember <=> profile[m] = NoMember
      BY <1>2, MembersStay DEF DayInv
    <3>3. profile[m] # NoMember =>
            /\ profile'[m].nextTierEvaluation = profile[m].nextTierEvaluation
            /\ profile'[m].evaluationKey = profile[m].evaluationKey
      BY <2>2
    <3> SUFFICES ASSUME profile'[m] # NoMember
                 PROVE  /\ profile'[m].evaluationKey <= profile'[m].nextTierEvaluation
                        /\ profile'[m].evaluationKey # profile'[m].nextTierEvaluation =>
                             \E q \in Runs : WorksOn(q, m, {"keep_tier_key"})' \/ Interrupted(q)'
      BY DEF KeyOf
    <3>4. /\ profile[m].evaluationKey <= profile[m].nextTierEvaluation
          /\ profile[m].evaluationKey # profile[m].nextTierEvaluation =>
               \E q \in Runs : WorksOn(q, m, {"keep_tier_key"}) \/ Interrupted(q)
      BY <1>2, <3>2 DEF KeyOf
    <3>5. profile'[m].evaluationKey <= profile'[m].nextTierEvaluation
      BY <3>2, <3>3, <3>4
    <3>6. ASSUME profile'[m].evaluationKey # profile'[m].nextTierEvaluation
          PROVE  \E q \in Runs : WorksOn(q, m, {"keep_tier_key"})' \/ Interrupted(q)'
      <4>1. PICK q \in Runs : WorksOn(q, m, {"keep_tier_key"}) \/ Interrupted(q)
        BY <3>2, <3>3, <3>4, <3>6
      <4>2. WorksOn(q, m, {"keep_tier_key"})' \/ Interrupted(q)'
        BY <2>2, <4>1 DEF WorksOn, Interrupted
      <4> QED BY <4>2
    <3> QED BY <3>5, <3>6
  <2> QED BY <1>2, <2>1, <2>2, OtherStepsKeepTiers
<1>3. (\A m \in Members : KeyOf(m)) => KeyFollowsDate
  BY DEF KeyOf, KeyFollowsDate
<1>4. QED
  BY <1>1, <1>2, <1>3, SystemInvHolds, DayInvHolds, PTL DEF SystemSpec

-----------------------------------------------------------------------------
\* Who writes new records: an attempt at an event, or a run, whose record is no
\* purchase and no redemption.
LEMMA NewRecords ==
  ASSUME SystemInv, [SystemNext]_systemVars, NEW t \in History', t \notin History
  PROVE  \/ t.type \in {"EXPIRATION", "TIER_CHANGE"}
         \/ \E d \in Deliveries :
              /\ pc[d] = "record_transaction"
              /\ t = [id |-> EventOf[d].id, member |-> EventOf[d].member,
                      type |-> IF IsPurchase(d) THEN "PURCHASE" ELSE "REDEMPTION",
                      stars |-> local[d].stars, day |-> local[d].now,
                      by |-> <<d, attempt[d]>>]
<1>1. CASE [Next]_vars /\ today' = today /\ UNCHANGED <<byTier, runVars, historyVars>>
  <2>1. purged' = purged
    BY <1>1 DEF historyVars
  <2>2. t \in txns' /\ t \notin txns
    BY <2>1 DEF History
  <2> QED BY <1>1, <2>2, HandlersAdd DEF SystemInv
<1>2. ASSUME NEW r \in Runs, RunAction(r) PROVE t.type \in {"EXPIRATION", "TIER_CHANGE"}
  <2>1. purged' = purged
    BY <1>2, RunLeaves
  <2>2. t \in txns' /\ t \notin txns
    BY <2>1 DEF History
  <2> QED BY <1>2, <2>2, RecordsAfterRun
<1>3. CASE PropagateToTierIndex /\ UNCHANGED <<deliveryVars, runVars, historyVars>>
  BY <1>3 DEF PropagateToTierIndex, tableVars, historyVars, History
<1>4. CASE DeleteOldRecord
  BY <1>4 DEF DeleteOldRecord, TimeToLive, History
<1>5. CASE NextDate
  BY <1>5, NextDateIsLater DEF tableVars, historyVars, History
<1> QED BY <1>1, <1>2, <1>3, <1>4, <1>5, SystemNextCases

\* A recorded purchase never takes stars.
PurchasesAddStars == \A t \in History : t.type = "PURCHASE" => t.stars \in Nat

\* Every step keeps that purchases add stars.
LEMMA PurchasesStep ==
  ASSUME SystemInv, PurchasesAddStars, [SystemNext]_systemVars
  PROVE  PurchasesAddStars'
<1> SUFFICES ASSUME NEW t \in History', t.type = "PURCHASE" PROVE t.stars \in Nat
  BY DEF PurchasesAddStars
<1>1. CASE t \in History
  BY <1>1 DEF PurchasesAddStars
<1>2. CASE t \notin History
  <2>1. PICK d \in Deliveries : pc[d] = "record_transaction" /\ t.stars = local[d].stars
    BY <1>2, NewRecords
  <2>2. local[d].stars \in Int /\ local[d].stars >= 0
    BY <2>1, DeltaIsStars DEF SystemInv, CoreInv, Running, Request
  <2> QED BY <2>1, <2>2
<1> QED BY <1>1, <1>2

-----------------------------------------------------------------------------
\* The purchases on record that count towards the tier.
CountedPurchases(m) ==
  {t \in History : t.member = m /\ t.type = "PURCHASE" /\ t.day >= today - YearDays}

\* What a member earned within the year is the sum of the purchases that
\* count, none of them negative.
LEMMA PurchasesCount ==
  ASSUME SystemInv, PurchasesAddStars, NEW m \in Members
  PROVE  /\ EarnedInYear(m) = StarSum(CountedPurchases(m))
         /\ EarnedInYear(m) \in Nat
         /\ IsFiniteSet(CountedPurchases(m))
         /\ \A t \in CountedPurchases(m) : t.stars \in Nat
<1>1. EarnedInYear(m) = StarSum(CountedPurchases(m))
  BY DEF EarnedInYear, StarsEarned, StarSum, CountedPurchases
<1>2. IsFiniteSet(CountedPurchases(m))
  <2>1. IsFiniteSet(txns \cup purged)
    BY FS_Union DEF SystemInv, ItemsInv
  <2>2. CountedPurchases(m) \subseteq txns \cup purged
    BY DEF CountedPurchases, History
  <2> QED BY <2>1, <2>2, FS_Subset
<1>3. \A t \in CountedPurchases(m) : t.stars \in Nat
  BY DEF CountedPurchases, PurchasesAddStars
<1>4. EarnedInYear(m) \in Nat
  BY <1>1, <1>2, <1>3, SumIsNatural
<1> QED BY <1>1, <1>2, <1>3, <1>4

\* Within a day the purchases on record only become more.
LEMMA PurchasesGrow ==
  ASSUME SystemInv, PurchasesAddStars, SystemInv', PurchasesAddStars',
         [SystemNext]_systemVars, today' = today, NEW m \in Members
  PROVE  EarnedInYear(m)' \in Nat /\ EarnedInYear(m) <= EarnedInYear(m)'
<1>1. CountedPurchases(m) \subseteq CountedPurchases(m)'
  BY HistoryGrows DEF CountedPurchases
<1>2. /\ EarnedInYear(m)' = StarSum(CountedPurchases(m)')
      /\ IsFiniteSet(CountedPurchases(m)')
      /\ \A t \in CountedPurchases(m)' : t.stars \in Nat
  <2>1. EarnedInYear(m)' = StarSum(CountedPurchases(m)')
    BY DEF EarnedInYear, StarsEarned, StarSum, MapThenSumSet, MapThenFoldSet, CountedPurchases
  <2>2. IsFiniteSet(CountedPurchases(m)')
    <3>1. IsFiniteSet(txns' \cup purged')
      BY FS_Union DEF SystemInv, ItemsInv
    <3>2. CountedPurchases(m)' \subseteq txns' \cup purged'
      BY DEF CountedPurchases, History
    <3> QED BY <3>1, <3>2, FS_Subset
  <2>3. \A t \in CountedPurchases(m)' : t.stars \in Nat
    BY DEF CountedPurchases, PurchasesAddStars
  <2> QED BY <2>1, <2>2, <2>3
<1>3. EarnedInYear(m) = StarSum(CountedPurchases(m))
  BY PurchasesCount
<1> QED BY <1>1, <1>2, <1>3, SumIsMonotone, SumIsNatural

\* What an evaluation summed was earned, and deserves the tier when it is kept.
SumIsEarned(r) ==
  /\ step[r] \in {"update_member_tier", "keep_tier_date", "keep_tier_key"} =>
       work[r].stars <= EarnedInYear(work[r].member)
  /\ step[r] \in {"keep_tier_date", "keep_tier_key"} => DetermineTier(work[r].stars) = OldTier(r)

\* The records the query returns are among those that count.
LEMMA SumOfRecords ==
  ASSUME SystemInv, PurchasesAddStars, NEW m \in Members
  PROVE  CalculateAnnualStars(m, today) <= EarnedInYear(m)
<1> DEFINE found == {t \in GetMemberTransactions(m) :
                       t.type = "PURCHASE" /\ t.day >= today - YearDays}
<1>1. found \subseteq CountedPurchases(m)
  BY DEF CountedPurchases, GetMemberTransactions, History
<1>2. CalculateAnnualStars(m, today) = StarSum(found)
  BY DEF CalculateAnnualStars, StarsEarned, StarSum
<1> HIDE DEF found
<1> QED BY <1>1, <1>2, PurchasesCount, SumIsMonotone

\* What comes after a member, a tier or the last of them.
LEMMA NextDueGoes ==
  ASSUME SystemInv, NEW r \in Runs, NEW v \in EvaluationWork, NextDue(r, v)
  PROVE  step'[r] \in {"get_member_transactions", "query_due_members", "done"}
<1>1. RunTypes
  BY DEF SystemInv, RunInv
<1> QED BY <1>1, EvaluationGoesOn DEF RunTypes

\* The requests that end the work on a member, and how the run goes on.
LEMMA MembersEnd ==
  ASSUME SystemInv, NEW r \in Runs, step[r] \in EvaluationRequest,
         \/ EvaluationRequestFails(r) \/ QueryDueMembers(r)
         \/ RecordTierChange(r) \/ KeepTierKey(r)
  PROVE  step'[r] \in {"get_member_transactions", "query_due_members", "done"}
<1>0. work[r] \in EvaluationWork
  BY DEF SystemInv, RunInv, RunLists, EvaluationRequest, MemberEvaluation
<1>1. CASE EvaluationRequestFails(r)
  BY <1>0, <1>1, NextDueWork, NextDueGoes DEF EvaluationRequestFails
<1>2. CASE QueryDueMembers(r)
  <2>1. PICK page \in FirstPage(ShownDue(OldTier(r), work[r].now), EvaluationLimit) :
          NextDue(r, [work[r] EXCEPT !.todo = page])
    BY <1>2 DEF QueryDueMembers
  <2>2. page \in SUBSET Members
    BY <2>1 DEF FirstPage, ShownDue, Shown
  <2>3. [work[r] EXCEPT !.todo = page] \in EvaluationWork
    BY <1>0, <2>2 DEF EvaluationWork
  <2> QED BY <2>1, <2>3, NextDueGoes
<1>3. CASE RecordTierChange(r) \/ KeepTierKey(r)
  BY <1>0, <1>3, NextDueWork, NextDueGoes DEF RecordTierChange, KeepTierKey, AfterLastWrite
<1> QED BY <1>1, <1>2, <1>3

\* A run decides on a sum of today; what it summed stays earned for the day.
LEMMA SumIsEarnedStep ==
  ASSUME SystemInv, DayInv, PurchasesAddStars, SystemInv', PurchasesAddStars',
         [SystemNext]_systemVars, NEW q \in Runs, SumIsEarned(q)
  PROVE  SumIsEarned(q)'
<1> DEFINE Deciding == {"update_member_tier", "keep_tier_date", "keep_tier_key"}
<1>1. CASE today' = today /\ step'[q] = step[q] /\ work'[q] = work[q]
  <2>1. ASSUME step[q] \in Deciding
        PROVE  (work[q].stars <= EarnedInYear(work[q].member))'
    <3>1. work[q] \in EvaluationWork /\ work[q].member \in Members
      BY <2>1 DEF SystemInv, RunInv, RunLists, MemberEvaluation, Present
    <3>2. PICK m \in Members : m = work[q].member
      BY <3>1
    <3>3. EarnedInYear(m) \in Nat /\ EarnedInYear(m)' \in Nat /\ EarnedInYear(m) <= EarnedInYear(m)'
      BY <1>1, PurchasesCount, PurchasesGrow
    <3>4. work[q].stars <= EarnedInYear(m) /\ work[q].stars \in Int
      BY <2>1, <3>1, <3>2, WorkFields DEF SumIsEarned
    <3>5. work[q].stars <= EarnedInYear(m)'
      BY <3>3, <3>4
    <3>6. m = work'[q].member
      BY <1>1, <3>2
    <3> QED BY <1>1, <3>5, <3>6 DEF EarnedInYear
  <2> QED BY <1>1, <2>1 DEF SumIsEarned, OldTier
<1>2. CASE step'[q] \notin Deciding
  BY <1>2 DEF SumIsEarned
<1>3. ASSUME NEW r \in Runs, RunAction(r) PROVE SumIsEarned(q)'
  <2>0. today' = today
    BY <1>3, RunLeaves
  <2>1. CASE q # r
    BY <1>1, <1>3, <2>0, <2>1, OtherRunsStay
  <2>2. CASE q = r /\ step[r] \in EvaluationRequest \cup RemovalRequest
    <3>1. CASE SumYear(r) /\ step[r] = "get_member_transactions"
               /\ Stays(r, {"update_member_tier", "keep_tier_date"})
               /\ work'[r].stars = CalculateAnnualStars(work[r].member, today)
               /\ (step'[r] = "keep_tier_date" => DetermineTier(work'[r].stars) = OldTier(r))
      <4>1. PICK m \in Members : m = work[r].member
        BY <3>1 DEF SystemInv, RunInv, RunLists, MemberEvaluation, Present
      <4>2. /\ CalculateAnnualStars(m, today) <= EarnedInYear(m)
            /\ EarnedInYear(m) \in Nat /\ EarnedInYear(m)' \in Nat
            /\ EarnedInYear(m) <= EarnedInYear(m)'
        BY <2>0, SumOfRecords, PurchasesCount, PurchasesGrow
      <4>3. CalculateAnnualStars(m, today) \in Int
        BY SumsAreIntegers DEF SystemInv, CoreInv, TypeOK
      <4>4. CalculateAnnualStars(m, today) <= EarnedInYear(m)'
        BY <4>2, <4>3
      <4>5. m = work'[r].member /\ work'[r].stars = CalculateAnnualStars(m, today)
        BY <3>1, <4>1 DEF Stays
      <4>6. (work[r].stars <= EarnedInYear(work[r].member))'
        BY <4>4, <4>5 DEF EarnedInYear
      <4>7. OldTier(r)' = OldTier(r) /\ step'[r] \in {"update_member_tier", "keep_tier_date"}
        BY <3>1 DEF Stays, OldTier
      <4> QED BY <2>2, <3>1, <4>6, <4>7 DEF SumIsEarned
    <3>2. CASE step[r] = "keep_tier_date" /\ Stays(r, {"keep_tier_key"}) /\ work'[r] = work[r]
      <4>1. ASSUME TRUE
            PROVE  /\ (work[r].stars <= EarnedInYear(work[r].member))'
                   /\ DetermineTier(work'[r].stars) = OldTier(r)'
        <5>1. work[r] \in EvaluationWork /\ work[r].member \in Members
          BY <3>2 DEF SystemInv, RunInv, RunLists, MemberEvaluation, Present
        <5>2. PICK m \in Members : m = work[r].member
          BY <5>1
        <5>3. /\ EarnedInYear(m) \in Nat /\ EarnedInYear(m)' \in Nat
              /\ EarnedInYear(m) <= EarnedInYear(m)'
          BY <2>0, PurchasesCount, PurchasesGrow
        <5>4. work[r].stars <= EarnedInYear(m) /\ work[r].stars \in Int
          BY <2>2, <3>2, <5>1, <5>2, WorkFields DEF SumIsEarned
        <5>5. work[r].stars <= EarnedInYear(m)'
          BY <5>3, <5>4
        <5>6. m = work'[r].member /\ work'[r].stars = work[r].stars
          BY <3>2, <5>2
        <5>7. (work[r].stars <= EarnedInYear(work[r].member))'
          BY <5>5, <5>6 DEF EarnedInYear
        <5>8. DetermineTier(work'[r].stars) = OldTier(r)'
          BY <2>2, <3>2 DEF SumIsEarned, OldTier
        <5> QED BY <5>7, <5>8
      <4> QED BY <2>2, <3>2, <4>1 DEF SumIsEarned, Stays
    <3>3. CASE Stops(r)
      BY <1>2, <2>2, <3>3 DEF Stops
    <3>4. CASE Stays(r, {"update_annual_count"})
      BY <1>2, <2>2, <3>4 DEF Stays
    <3>5. CASE Stays(r, {"list_promoted_entries", "record_tier_change"})
      BY <1>2, <2>2, <3>5 DEF Stays
    <3>6. CASE Stays(r, {"remove_expiration_date", "record_tier_change"})
      BY <1>2, <2>2, <3>6 DEF Stays
    <3>7. CASE \/ EvaluationRequestFails(r) \/ QueryDueMembers(r)
               \/ RecordTierChange(r) \/ KeepTierKey(r)
      <4>1. step[r] \in EvaluationRequest
        BY <3>7 DEF EvaluationRequestFails, QueryDueMembers, RecordTierChange, KeepTierKey,
           EvaluationRequest
      <4> QED BY <1>2, <2>2, <3>7, <4>1, MembersEnd
    <3> QED BY <1>3, <2>2, <3>1, <3>2, <3>3, <3>4, <3>5, <3>6, <3>7, EvaluationDetail
  <2>3. CASE q = r /\ step[r] \notin EvaluationRequest \cup RemovalRequest
    BY <1>2, <1>3, <2>3, RunGoes
       DEF Starts, Stops, Finishes, ExpirationGoes, EvaluationGoes, MemberExpiration
  <2> QED BY <2>1, <2>2, <2>3
<1>4. CASE [Next]_vars /\ today' = today /\ UNCHANGED <<byTier, runVars, historyVars>>
  BY <1>1, <1>4 DEF runVars
<1>5. CASE PropagateToTierIndex /\ UNCHANGED <<deliveryVars, runVars, historyVars>>
  BY <1>1, <1>5 DEF PropagateToTierIndex, runVars
<1>6. CASE DeleteOldRecord
  BY <1>1, <1>6 DEF DeleteOldRecord, TimeToLive, runVars
<1>7. CASE NextDate
  <2>1. ~Active(q) /\ step'[q] = step[q]
    BY <1>7, NextDateIsLater DEF runVars
  <2> QED BY <1>2, <2>1 DEF Active, Ended
<1> QED BY <1>3, <1>4, <1>5, <1>6, <1>7, SystemNextCases

\* A tier is the one that its number of stars deserves.
LEMMA TierHasThreshold ==
  ASSUME NEW stars \in Int, NEW n \in Nat, stars <= n
  PROVE  n >= Threshold(DetermineTier(stars))
<1>1. CASE stars >= ReserveStars
  <2>1. DetermineTier(stars) = "Reserve"
    BY <1>1 DEF DetermineTier, ReserveStars, GoldStars
  <2> QED BY <1>1, <2>1 DEF Threshold, ReserveStars
<1>2. CASE stars >= GoldStars /\ stars < ReserveStars
  <2>1. DetermineTier(stars) = "Gold"
    BY <1>2 DEF DetermineTier, ReserveStars, GoldStars
  <2> QED BY <1>2, <2>1 DEF Threshold, GoldStars
<1>3. CASE stars < GoldStars
  <2>1. DetermineTier(stars) = "Green"
    BY <1>3 DEF DetermineTier, ReserveStars, GoldStars
  <2> QED BY <1>3, <2>1 DEF Threshold
<1> QED BY <1>1, <1>2, <1>3 DEF ReserveStars, GoldStars

\* Every tier has a place in the order, a number.
LEMMA RanksAreNumbers == \A tier \in Tier : Rank(tier) \in 1..3
<1>1. DOMAIN TierOrder = 1..3
  BY DEF TierOrder
<1>2. ASSUME NEW tier \in Tier PROVE Rank(tier) \in 1..3
  <2>1. TierOrder[1] = "Green" /\ TierOrder[2] = "Gold" /\ TierOrder[3] = "Reserve"
    BY DEF TierOrder
  <2>2. \E i \in 1..3 : TierOrder[i] = tier
    BY <2>1 DEF Tier
  <2> QED BY <1>1, <2>2 DEF Rank
<1> QED BY <1>2

\* A tier changes, up or down, only to one that the purchases on record earned.
LEMMA TiersAreEarned ==
  ASSUME SystemInv, PurchasesAddStars, \A r \in Runs : SumIsEarned(r), [SystemNext]_systemVars,
         NEW m \in Members, profile[m] # NoMember, profile'[m].tier # profile[m].tier
  PROVE  EarnedInYear(m) >= Threshold(profile'[m].tier)
<1>1. PICK r \in Runs : RunAction(r)
  BY OtherStepsKeepTiers
<1>2. profile \in [Members -> Profile \cup {NoMember}]
  BY DEF SystemInv, CoreInv, TypeOK
<1>3. PICK n \in Members, p \in Profile :
        /\ n = work[r].member /\ profile[n] \in Profile /\ Active(r)
        /\ profile' = [profile EXCEPT ![n] = p]
        /\ Writes(r, n, p)
  BY <1>1, ProfileMoves
<1>4. n = m /\ profile'[m] = p
  BY <1>2, <1>3
<1>5. /\ step[r] \in {"update_member_tier", "keep_tier_key"}
      /\ p.tier = IF step[r] = "update_member_tier" THEN NewTier(r) ELSE OldTier(r)
  BY <1>3, <1>4 DEF Writes
<1>6. p.tier = DetermineTier(work[r].stars)
  BY <1>5 DEF SumIsEarned, NewTier
<1>7. work[r].stars <= EarnedInYear(m)
  BY <1>3, <1>4, <1>5 DEF SumIsEarned
<1>8. work[r].stars \in Int
  BY <1>5, WorkFields DEF SystemInv, RunInv, RunLists, MemberEvaluation
<1>9. EarnedInYear(m) \in Nat
  BY PurchasesCount
<1> QED BY <1>4, <1>6, <1>7, <1>8, <1>9, TierHasThreshold

\* A member rises only to a tier that the purchases on record earned, for any number
\* of members, runs and events, whatever overlaps, crashes or is deleted meanwhile.
THEOREM PromotionsAreEarned == SystemSpec => PromotionIsEarned
<1> DEFINE EarnedInv == PurchasesAddStars /\ \A r \in Runs : SumIsEarned(r)
<1>1. SystemInit => EarnedInv
  BY DEF SystemInit, Init, TableInit, RunsInit, PurchasesAddStars, History, SumIsEarned
<1>2. SystemInv /\ DayInv /\ SystemInv' /\ EarnedInv /\ [SystemNext]_systemVars => EarnedInv'
  BY PurchasesStep, SumIsEarnedStep
<1>3. SystemInv /\ SystemInv' /\ EarnedInv /\ [SystemNext]_systemVars
        => [\A m \in Members :
              /\ profile[m] # NoMember
              /\ Rank(profile'[m].tier) > Rank(profile[m].tier)
              => EarnedInYear(m) >= Threshold(profile'[m].tier)]_systemVars
  <2> SUFFICES ASSUME SystemInv, SystemInv', EarnedInv, [SystemNext]_systemVars,
                      NEW m \in Members, profile[m] # NoMember,
                      Rank(profile'[m].tier) > Rank(profile[m].tier)
               PROVE  EarnedInYear(m) >= Threshold(profile'[m].tier)
    OBVIOUS
  <2>1. profile[m].tier \in Tier
    BY DEF SystemInv, CoreInv, TypeOK, Profile
  <2>2. Rank(profile[m].tier) \in 1..3
    BY <2>1, RanksAreNumbers
  <2>3. profile'[m].tier # profile[m].tier
    <3>1. ASSUME NEW n \in 1..3 PROVE ~(n > n)
      OBVIOUS
    <3> QED BY <2>2, <3>1
  <2> QED BY <2>3, TiersAreEarned
<1> HIDE DEF EarnedInv
<1>4. QED
  BY <1>1, <1>2, <1>3, SystemInvHolds, DayInvHolds, PTL DEF SystemSpec, PromotionIsEarned

-----------------------------------------------------------------------------
\* The evaluation of the member is due.
DueNow(m) == profile[m] # NoMember /\ profile[m].evaluationKey < today

\* The run has member m still ahead of it.
StillComes(r, m) ==
  \/ m \in work[r].todo
  \/ /\ step[r] \in {"get_member_transactions", "update_member_tier", "keep_tier_date",
                     "keep_tier_key"}
     /\ work[r].member = m
  \/ \E i \in 1..3 : /\ TierOrder[i] = byTier[m].tier
                     /\ \/ i > work[r].round
                        \/ i = work[r].round /\ step[r] = "query_due_members"

\* An evaluation without errors has everybody who is due still ahead of it, until
\* nobody is.
NobodySkipped(r) ==
  /\ JobOf[r] = "evaluation" /\ Active(r) /\ work[r].errors = 0 =>
       \A m \in Members : DueNow(m) => StillComes(r, m)
  /\ CleanEvaluation(r) => \A m \in Members : ~DueNow(m)

\* Within a day nobody becomes due.
LEMMA DueBefore ==
  ASSUME SystemInv, SameDay, NEW m \in Members, DueNow(m)'
  PROVE  DueNow(m)
<1>0. /\ profile[m] # NoMember /\ today' = today /\ today \in Int
      /\ profile'[m] # NoMember /\ profile'[m].evaluationKey < today
  <2>1. today' = today /\ today \in Int
    <3>1. today \in Day
      BY DEF SystemInv, CoreInv, TypeOK
    <3> QED BY <3>1 DEF SameDay, Day
  <2>2. profile'[m] # NoMember /\ profile'[m].evaluationKey < today'
    BY DEF DueNow
  <2> QED BY <2>1, <2>2 DEF SameDay
<1>1. ~MovedToday(profile'[m])
  BY <1>0 DEF MovedToday, YearDays
<1>2. profile'[m].evaluationKey = profile[m].evaluationKey
  BY <1>0, <1>1 DEF SameDay
<1> QED BY <1>0, <1>2 DEF DueNow

\* Who is due has not been moved today, so the index shows her tier and her key.
LEMMA DueIsShown ==
  ASSUME SystemInv, DayInv, NEW m \in Members, DueNow(m)
  PROVE  /\ byTier[m] # NoMember /\ byTier[m].tier = profile[m].tier
         /\ byTier[m].evaluationKey < today
         /\ profile[m].tier \in Tier
<1>0. profile[m] # NoMember /\ today \in Int /\ profile[m].evaluationKey < today
      /\ profile[m] \in Profile
  <2>1. today \in Int /\ profile \in [Members -> Profile \cup {NoMember}]
    <3>1. today \in Day /\ profile \in [Members -> Profile \cup {NoMember}]
      BY DEF SystemInv, CoreInv, TypeOK
    <3> QED BY <3>1 DEF Day
  <2> QED BY <2>1 DEF DueNow
<1>1. ~MovedToday(profile[m])
  BY <1>0 DEF MovedToday, YearDays
<1> QED BY <1>0, <1>1 DEF DayInv, IndexLag, Profile

\* A run that goes on to the next member, tier or end leaves nobody out, when those
\* it had ahead of it are in its list or in a later tier.
LEMMA NextDueSkipsNobody ==
  ASSUME SystemInv, NEW r \in Runs, Active(r), NEW v \in EvaluationWork, NextDue(r, v),
         v.errors = 0 =>
           \A m \in Members : DueNow(m)' =>
             \/ m \in v.todo
             \/ \E i \in 1..3 : TierOrder[i] = byTier'[m].tier /\ i > v.round
  PROVE  NobodySkipped(r)'
<1>0. RunTypes /\ v.round \in 1..3 /\ outcome[r].status = "none"
  <2>1. RunTypes /\ RunControl(r)
    BY DEF SystemInv, RunInv
  <2> QED BY <2>1, WorkFields DEF RunControl, Active, Ended
<1>1. CASE \E w \in EvaluationWork :
             /\ w.now = v.now /\ w.round = v.round /\ w.errors = v.errors
             /\ w.member \in v.todo /\ w.todo = v.todo \ {w.member} /\ w.stars = 0
             /\ step' = [step EXCEPT ![r] = "get_member_transactions"]
             /\ work' = [work EXCEPT ![r] = w]
             /\ outcome' = outcome
  <2>1. /\ step'[r] = "get_member_transactions" /\ outcome'[r].status # "ok"
        /\ work'[r].round = v.round /\ work'[r].errors = v.errors
        /\ v.todo = work'[r].todo \cup {work'[r].member}
    BY <1>0, <1>1 DEF RunTypes
  <2> QED BY <2>1 DEF NobodySkipped, StillComes, CleanEvaluation
<1>2. CASE \E w \in EvaluationWork :
             /\ v.todo = {} /\ v.round < 3
             /\ w.now = v.now /\ w.round = v.round + 1 /\ w.errors = v.errors
             /\ w.todo = {}
             /\ step' = [step EXCEPT ![r] = "query_due_members"]
             /\ work' = [work EXCEPT ![r] = w]
             /\ outcome' = outcome
  <2>1. /\ step'[r] = "query_due_members" /\ outcome'[r].status # "ok"
        /\ work'[r].round = v.round + 1 /\ work'[r].errors = v.errors
        /\ v.todo = {}
    BY <1>0, <1>2 DEF RunTypes
  <2>2. \A i \in 1..3 : i > v.round => i > v.round + 1 \/ i = v.round + 1
    BY <1>0
  <2> QED BY <2>1, <2>2 DEF NobodySkipped, StillComes, CleanEvaluation
<1>3. CASE /\ v.todo = {} /\ v.round = 3
           /\ step' = [step EXCEPT ![r] = "done"]
           /\ work' = [work EXCEPT ![r] = NoWork]
           /\ outcome' = [outcome EXCEPT ![r] = Reply("ok", v.errors)]
  <2>1. step'[r] = "done" /\ outcome'[r].errors = v.errors
    BY <1>0, <1>3 DEF RunTypes, Reply
  <2>2. \A i \in 1..3 : ~(i > v.round)
    BY <1>3
  <2> QED BY <1>3, <2>1, <2>2 DEF NobodySkipped, CleanEvaluation, Active, Ended
<1> QED BY <1>0, <1>1, <1>2, <1>3, EvaluationGoesOn

\* A step that leaves a run alone, or goes on with its member, leaves nobody out.
LEMMA StaysSkipsNobody ==
  ASSUME SystemInv, DayInv, SameDay, NEW r \in Runs, NobodySkipped(r),
         \A m \in Members : byTier'[m] = byTier[m] \/ byTier'[m] = profile[m],
         outcome'[r] = outcome[r], Active(r) <=> Active(r)',
         work'[r].round = work[r].round, work'[r].todo = work[r].todo,
         work'[r].errors = work[r].errors,
         step'[r] = "query_due_members" <=> step[r] = "query_due_members",
         \A m \in Members : DueNow(m)' /\ work[r].member = m
             /\ step[r] \in {"get_member_transactions", "update_member_tier",
                             "keep_tier_date", "keep_tier_key"} =>
           /\ step'[r] \in {"get_member_transactions", "update_member_tier",
                            "keep_tier_date", "keep_tier_key"}
           /\ work'[r].member = m
  PROVE  NobodySkipped(r)'
<1>1. \A m \in Members : DueNow(m)' => DueNow(m)
  BY DueBefore
<1>2. ASSUME NEW m \in Members, DueNow(m)', StillComes(r, m) PROVE StillComes(r, m)'
  <2>1. byTier'[m].tier = byTier[m].tier
    BY <1>1, <1>2, DueIsShown
  <2> QED BY <1>2, <2>1 DEF StillComes
<1>3. ASSUME CleanEvaluation(r)' PROVE CleanEvaluation(r)
  BY <1>3 DEF CleanEvaluation, SameDay
<1> QED BY <1>1, <1>2, <1>3 DEF NobodySkipped

\* The first page of a query holds all it finds, as long as one page holds everybody.
OnePageIsEnough == IsFiniteSet(Members) /\ Cardinality(Members) <= EvaluationLimit

\* When one page is enough, the first page is all there is.
LEMMA PageIsAll ==
  ASSUME OnePageIsEnough, NEW found \in SUBSET Members,
         NEW page \in FirstPage(found, EvaluationLimit)
  PROVE  page = found
<1>1. IsFiniteSet(found) /\ Cardinality(found) <= Cardinality(Members)
  BY FS_Subset DEF OnePageIsEnough
<1>2. Cardinality(found) \in Nat /\ Cardinality(Members) \in Nat /\ EvaluationLimit \in Nat
  BY <1>1, FS_CardinalityType, EvaluationLimitAssumption DEF OnePageIsEnough
<1>3. page \subseteq found /\ Cardinality(page) = Cardinality(found)
  <2>1. /\ page \subseteq found
        /\ Cardinality(page) = IF Cardinality(found) < EvaluationLimit
                                 THEN Cardinality(found) ELSE EvaluationLimit
    BY DEF FirstPage
  <2>2. Cardinality(found) <= EvaluationLimit
    BY <1>1, <1>2 DEF OnePageIsEnough
  <2>3. ~(Cardinality(found) < EvaluationLimit) => Cardinality(found) = EvaluationLimit
    BY <1>2, <2>2
  <2> QED BY <2>1, <2>3
<1> QED BY <1>1, <1>3, FS_Subset

\* A query lists everybody the index shows as due in the tier.
LEMMA QuerySkipsNobody ==
  ASSUME OnePageIsEnough, SystemInv, DayInv, SameDay, NEW r \in Runs, QueryDueMembers(r),
         NobodySkipped(r), byTier' = byTier
  PROVE  NobodySkipped(r)'
<1>0. /\ step[r] = "query_due_members" /\ work[r] \in EvaluationWork /\ work[r].todo = {}
      /\ Active(r) /\ JobOf[r] = "evaluation" /\ work[r].now = today
  <2>1. step[r] = "query_due_members" /\ RunControl(r) /\ RunLists(r)
    BY DEF QueryDueMembers, SystemInv, RunInv
  <2>2. Active(r)
    BY <2>1 DEF Active, Ended
  <2> QED BY <2>1, <2>2 DEF RunControl, RunLists, EvaluationRequest
<1>1. PICK page \in FirstPage(ShownDue(OldTier(r), work[r].now), EvaluationLimit) :
        NextDue(r, [work[r] EXCEPT !.todo = page])
  BY DEF QueryDueMembers
<1>2. page = ShownDue(OldTier(r), today) /\ page \in SUBSET Members
  <2>1. ShownDue(OldTier(r), today) \in SUBSET Members
    BY DEF ShownDue, Shown
  <2> QED BY <1>0, <1>1, <2>1, PageIsAll
<1> DEFINE v == [work[r] EXCEPT !.todo = page]
<1>3. v \in EvaluationWork /\ v.todo = page /\ v.round = work[r].round
      /\ v.errors = work[r].errors
  BY <1>0, <1>2 DEF EvaluationWork
<1>4. NextDue(r, v)
  BY <1>1
<1> HIDE DEF v
<1>5. ASSUME v.errors = 0, NEW m \in Members, DueNow(m)'
      PROVE  m \in v.todo \/ \E i \in 1..3 : TierOrder[i] = byTier'[m].tier /\ i > v.round
  <2>1. DueNow(m)
    BY <1>5, DueBefore
  <2>2. byTier[m] # NoMember /\ byTier[m].evaluationKey < today
    BY <2>1, DueIsShown
  <2>3. StillComes(r, m)
    BY <1>0, <1>3, <1>5, <2>1 DEF NobodySkipped
  <2>4. PICK i \in 1..3 : TierOrder[i] = byTier[m].tier /\ (i > work[r].round \/ i = work[r].round)
    BY <1>0, <2>3 DEF StillComes
  <2>5. CASE i > work[r].round
    BY <1>3, <2>4, <2>5
  <2>6. CASE i = work[r].round
    BY <1>2, <1>3, <2>2, <2>4, <2>6 DEF OldTier, ShownDue, Shown
  <2> QED BY <2>4, <2>5, <2>6
<1> QED BY <1>0, <1>3, <1>4, <1>5, NextDueSkipsNobody

\* The end of the work on a member: she is not due any more, or was not the one.
LEMMA MemberDoneSkipsNobody ==
  ASSUME SystemInv, DayInv, SameDay, NEW r \in Runs, NobodySkipped(r), byTier' = byTier,
         step[r] \in {"record_tier_change", "keep_tier_key"}, AfterLastWrite(r),
         \A m \in Members : step[r] = "keep_tier_key" /\ work[r].member = m => ~DueNow(m)'
  PROVE  NobodySkipped(r)'
<1>0. Active(r) /\ work[r] \in EvaluationWork /\ JobOf[r] = "evaluation"
  <2>1. RunControl(r) /\ RunLists(r)
    BY DEF SystemInv, RunInv
  <2>2. Active(r)
    BY DEF Active, Ended
  <2> QED BY <2>1, <2>2 DEF RunControl, RunLists, MemberEvaluation, EvaluationRequest
<1>1. ASSUME work[r].errors = 0, NEW m \in Members, DueNow(m)'
      PROVE  \/ m \in work[r].todo
             \/ \E i \in 1..3 : TierOrder[i] = byTier'[m].tier /\ i > work[r].round
  <2>1. StillComes(r, m)
    BY <1>0, <1>1, DueBefore DEF NobodySkipped
  <2>2. ~(step[r] = "keep_tier_key" /\ work[r].member = m)
    BY <1>1
  <2> QED BY <2>1, <2>2 DEF StillComes
<1>2. CASE NextDue(r, work[r])
  BY <1>0, <1>1, <1>2, NextDueSkipsNobody
<1> DEFINE v == [work[r] EXCEPT !.errors = 1]
<1>3. CASE NextDue(r, v)
  <2>1. v \in EvaluationWork /\ v.errors = 1
    BY <1>0, NextDueWork DEF EvaluationWork
  <2> HIDE DEF v
  <2>2. v.errors # 0
    BY <2>1
  <2> QED BY <1>0, <1>3, <2>1, <2>2, NextDueSkipsNobody
<1> QED BY <1>2, <1>3 DEF AfterLastWrite

\* A step of a run keeps that nobody is skipped.
LEMMA SkippedByRun ==
  ASSUME OnePageIsEnough, SystemInv, DayInv, NEW r \in Runs, RunAction(r), NobodySkipped(r)
  PROVE  NobodySkipped(r)'
<1>0. /\ SameDay /\ byTier' = byTier /\ today' = today
      /\ RunTypes /\ RunControl(r) /\ RunLists(r)
  BY RunsAreOfToday, RunLeaves DEF SystemInv, RunInv
<1>1. CASE JobOf[r] # "evaluation"
  BY <1>1 DEF NobodySkipped, CleanEvaluation
<1>2. CASE Starts(r) /\ JobOf[r] = "evaluation"
  <2>1. /\ step'[r] = "query_due_members" /\ work'[r].round = 1
        /\ outcome'[r].status # "ok"
    BY <1>0, <1>2 DEF Starts, RunControl
  <2>2. ASSUME NEW m \in Members, DueNow(m)' PROVE StillComes(r, m)'
    <3>1. byTier[m].tier = profile[m].tier /\ profile[m].tier \in Tier
      BY <1>0, <2>2, DueBefore, DueIsShown
    <3>2. byTier[m].tier \in {"Green", "Gold", "Reserve"}
      BY <3>1 DEF Tier
    <3>3. TierOrder[1] = "Green" /\ TierOrder[2] = "Gold" /\ TierOrder[3] = "Reserve"
      BY DEF TierOrder
    <3>4. \E i \in 1..3 : TierOrder[i] = byTier[m].tier /\ (i > 1 \/ i = 1)
      BY <3>2, <3>3
    <3> QED BY <1>0, <2>1, <3>4 DEF StillComes
  <2> QED BY <2>1, <2>2 DEF NobodySkipped, CleanEvaluation
<1>3. CASE Stops(r)
  <2>1. outcome'[r].status # "ok" /\ ~Active(r)'
    BY <1>0, <1>3 DEF Stops, RunControl, Active, Ended
  <2> QED BY <2>1 DEF NobodySkipped, CleanEvaluation
<1>4. CASE step[r] \in EvaluationRequest \cup RemovalRequest
  <2>0. Active(r) /\ work[r] \in EvaluationWork /\ work[r].now = today
    <3>1. Active(r)
      BY <1>4 DEF Active, Ended, EvaluationRequest, RemovalRequest
    <3> QED BY <1>0, <1>4, <3>1 DEF RunControl, RunLists, EvaluationRequest, RemovalRequest,
            MemberEvaluation
  <2>1. CASE EvaluationRequestFails(r)
    <3> DEFINE v == [work[r] EXCEPT !.errors = 1]
    <3>1. v \in EvaluationWork /\ v.errors = 1
      BY <2>0, NextDueWork DEF EvaluationWork
    <3>2. NextDue(r, v)
      BY <2>1 DEF EvaluationRequestFails
    <3> HIDE DEF v
    <3>3. v.errors # 0
      BY <3>1
    <3> QED BY <2>0, <3>1, <3>2, <3>3, NextDueSkipsNobody
  <2>2. CASE QueryDueMembers(r)
    BY <1>0, <2>2, QuerySkipsNobody
  <2>3. CASE step[r] = "record_tier_change" /\ RecordTierChange(r)
    BY <1>0, <2>3, MemberDoneSkipsNobody DEF RecordTierChange
  <2>4. CASE step[r] = "keep_tier_key" /\ KeepTierKey(r)
    <3>1. ASSUME NEW m \in Members, work[r].member = m, DueNow(m)' PROVE FALSE
      <4>1. profile'[m].evaluationKey = today + YearDays
        <5>1. profile \in [Members -> Profile \cup {NoMember}] /\ profile[m] # NoMember
          BY <1>0, <3>1, DueBefore DEF DueNow, SystemInv, CoreInv, TypeOK
        <5>2. profile[m] \in Profile
          BY <5>1
        <5> QED BY <2>0, <2>4, <3>1, <5>1, <5>2
                DEF KeepTierKey, UpdateMemberTier, NextEvaluation, Profile
      <4>2. today \in Int
        <5>1. today \in Day
          BY DEF SystemInv, CoreInv, TypeOK
        <5> QED BY <5>1 DEF Day
      <4>3. profile'[m].evaluationKey < today
        BY <1>0, <3>1 DEF DueNow
      <4> QED BY <4>1, <4>2, <4>3 DEF YearDays
    <3> QED BY <1>0, <2>4, <3>1, MemberDoneSkipsNobody DEF KeepTierKey
  <2>5. ASSUME NEW steps \in SUBSET MemberEvaluation, Stays(r, steps),
               step[r] \in MemberEvaluation,
               \A m \in Members : DueNow(m)' /\ work[r].member = m
                   /\ step[r] \in {"get_member_transactions", "update_member_tier",
                                   "keep_tier_date", "keep_tier_key"} =>
                 step'[r] \in {"get_member_transactions", "update_member_tier",
                               "keep_tier_date", "keep_tier_key"}
        PROVE  NobodySkipped(r)'
    <3>1. Active(r)' /\ step'[r] # "query_due_members" /\ step[r] # "query_due_members"
      BY <2>5 DEF Stays, Active, Ended, MemberEvaluation
    <3> QED BY <1>0, <2>0, <2>5, <3>1, StaysSkipsNobody DEF Stays
  <2>6. CASE step[r] = "get_member_transactions"
             /\ Stays(r, {"update_member_tier", "keep_tier_date"})
    BY <2>5, <2>6 DEF Stays, MemberEvaluation
  <2>7. CASE /\ step[r] = "update_member_tier" /\ MoveTier(r)
             /\ Stays(r, {"update_annual_count"}) /\ work'[r] = work[r]
    <3>1. ASSUME NEW m \in Members, work[r].member = m, DueNow(m)' PROVE FALSE
      <4>1. profile'[m].evaluationKey = today + YearDays
        <5>1. profile \in [Members -> Profile \cup {NoMember}] /\ profile[m] # NoMember
          BY <1>0, <3>1, DueBefore DEF DueNow, SystemInv, CoreInv, TypeOK
        <5>2. profile[m] \in Profile
          BY <5>1
        <5> QED BY <2>0, <2>7, <3>1, <5>1, <5>2
                DEF MoveTier, UpdateMemberTier, NextEvaluation, Profile
      <4>2. today \in Int
        <5>1. today \in Day
          BY DEF SystemInv, CoreInv, TypeOK
        <5> QED BY <5>1 DEF Day
      <4>3. profile'[m].evaluationKey < today
        BY <1>0, <3>1 DEF DueNow
      <4> QED BY <4>1, <4>2, <4>3 DEF YearDays
    <3> QED BY <2>5, <2>7, <3>1 DEF MemberEvaluation
  <2>8. CASE /\ step[r] = "update_annual_count"
             /\ Stays(r, {"list_promoted_entries", "record_tier_change"})
    BY <2>5, <2>8 DEF MemberEvaluation
  <2>9. CASE /\ step[r] \in RemovalRequest
             /\ Stays(r, {"remove_expiration_date", "record_tier_change"})
    BY <2>5, <2>9 DEF MemberEvaluation, RemovalRequest
  <2>10. CASE step[r] = "keep_tier_date" /\ Stays(r, {"keep_tier_key"})
    BY <2>5, <2>10 DEF Stays, MemberEvaluation
  <2> QED BY <1>3, <1>4, <2>1, <2>2, <2>3, <2>4, <2>6, <2>7, <2>8, <2>9, <2>10,
             EvaluationDetail
<1> QED BY <1>0, <1>1, <1>2, <1>3, <1>4, RunGoes
        DEF Finishes, ExpirationGoes, EvaluationGoes, RunControl

\* What is not the run's own step leaves it alone.
LEMMA SkippedByOthers ==
  ASSUME SystemInv, DayInv, NEW r \in Runs, NobodySkipped(r), [SystemNext]_systemVars,
         step'[r] = step[r], work'[r] = work[r], outcome'[r] = outcome[r]
  PROVE  NobodySkipped(r)'
<1>1. \A m \in Members : byTier'[m] = byTier[m] \/ byTier'[m] = profile[m]
  BY MembersStay DEF DayInv
<1>2. CASE SameDay
  BY <1>1, <1>2, StaysSkipsNobody DEF Active
<1>3. CASE NextDate
  <2>1. /\ today \in Day /\ today' \in Day /\ today' > today
        /\ ~Active(r) /\ RunControl(r)
    BY <1>3, NextDateIsLater DEF SystemInv, RunInv
  <2>2. ~Active(r)'
    BY <2>1 DEF Active
  <2>3. ~CleanEvaluation(r)'
    <3>1. SUFFICES ASSUME outcome[r].status = "ok", DayOf[r] = today' PROVE FALSE
      BY DEF CleanEvaluation
    <3>2. today' <= today
      BY <2>1, <3>1 DEF RunControl
    <3>3. today \in Nat /\ today' \in Nat
      BY <2>1 DEF Day
    <3> QED BY <2>1, <3>2, <3>3
  <2> QED BY <2>2, <2>3 DEF NobodySkipped
<1>4. ASSUME today' = today, profile' = profile PROVE SameDay
  BY <1>4 DEF SameDay
<1>5. PropagateToTierIndex => SameDay
  BY <1>4 DEF PropagateToTierIndex, tableVars
<1>6. DeleteOldRecord => SameDay
  BY <1>4 DEF DeleteOldRecord, TimeToLive
<1>7. [Next]_vars /\ today' = today => SameDay
  BY HandlersAreOfToday DEF DayInv
<1>8. ASSUME NEW q \in Runs, RunAction(q) PROVE SameDay
  BY <1>8, RunsAreOfToday
<1> QED BY <1>2, <1>3, <1>5, <1>6, <1>7, <1>8, SystemNextCases

\* The response tells the truth about errors: as long as one page of a query holds
\* all members, an evaluation that reports none has left nobody whose date had
\* passed, whatever the index showed and whatever other runs did meanwhile.
THEOREM NobodyIsSkipped ==
  ASSUME OnePageIsEnough
  PROVE  SystemSpec => []NobodyDueIsSkipped
<1>1. SystemInit => \A r \in Runs : NobodySkipped(r)
  BY DEF SystemInit, RunsInit, NobodySkipped, CleanEvaluation, Active, NoReply, Reply
<1>2. ASSUME SystemInv, DayInv, \A r \in Runs : NobodySkipped(r), [SystemNext]_systemVars
      PROVE  (\A r \in Runs : NobodySkipped(r))'
  <2> SUFFICES ASSUME NEW r \in Runs PROVE NobodySkipped(r)'
    OBVIOUS
  <2>1. CASE RunAction(r)
    BY <1>2, <2>1, SkippedByRun
  <2>2. ASSUME NEW q \in Runs \ {r}, RunAction(q) PROVE NobodySkipped(r)'
    BY <1>2, <2>2, OtherRunsStay, SkippedByOthers
  <2>3. CASE UNCHANGED <<step, work, outcome, runAttempt>>
    BY <1>2, <2>3, SkippedByOthers
  <2> QED BY <1>2, <2>1, <2>2, <2>3, OtherStepsKeepTiers
<1>3. SystemInv /\ (\A r \in Runs : NobodySkipped(r)) => NobodyDueIsSkipped
  <2> SUFFICES ASSUME SystemInv, \A r \in Runs : NobodySkipped(r), NEW r \in Runs,
                      CleanEvaluation(r), NEW m \in Members, profile[m] # NoMember
               PROVE  profile[m].evaluationKey >= today
    BY DEF NobodyDueIsSkipped
  <2>1. ~(profile[m].evaluationKey < today)
    BY DEF NobodySkipped, DueNow
  <2>2. today \in Day /\ profile[m] \in Profile
    BY DEF SystemInv, CoreInv, TypeOK
  <2>3. profile[m].evaluationKey \in Int /\ today \in Int
    BY <2>2, KeysAreDays DEF Day
  <2> QED BY <2>1, <2>3
<1>4. QED
  BY <1>1, <1>2, <1>3, SystemInvHolds, DayInvHolds, PTL DEF SystemSpec
=============================================================================
