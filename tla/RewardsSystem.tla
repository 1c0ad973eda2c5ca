---------------------------- MODULE RewardsSystem ----------------------------
(***************************************************************************)
(* The whole rewards program over one table: purchase and redemption       *)
(* events (StarAccounts), the daily expiration of stars and the daily tier *)
(* evaluation, all running at once, with the indexes they read and the     *)
(* deletion of old records.                                                *)
(***************************************************************************)
EXTENDS StarAccounts, StarExpiration, TierEvaluation

VARIABLE purged   \* history: the records DynamoDB has deleted

historyVars == <<deductions, purged>>

systemVars == <<tableVars, today, deliveryVars, byTier, runVars, historyVars>>

SystemInit ==
  /\ Init
  /\ TierIndexInit
  /\ RunsInit
  /\ ExpirationInit
  /\ purged = {}

Handle(d) ==
  Step(d) /\ UNCHANGED <<byTier, runVars, historyVars>>

HandlingFault(d) ==
  Fault(d) /\ UNCHANGED <<byTier, runVars, historyVars>>

RunStep(r) ==
  /\ \/ Expire(r)
     \/ Evaluate(r) /\ UNCHANGED deductions
  /\ UNCHANGED <<deliveryVars, purged>>

RunFault(r) ==
  /\ \/ CrashRun(r) /\ UNCHANGED deductions
     \/ DiscardRun(r) /\ UNCHANGED deductions
     \/ ExpirationRequestFails(r)
     \/ DeductUnanswered(r)
     \/ EvaluationRequestFails(r) /\ UNCHANGED deductions
     \/ RemovalFails(r) /\ UNCHANGED deductions
  /\ UNCHANGED <<deliveryVars, purged>>

ShowInIndex ==
  /\ \/ PropagateToIndex /\ UNCHANGED byTier
     \/ PropagateToTierIndex
  /\ UNCHANGED <<deliveryVars, runVars, historyVars>>

DeleteOldRecord ==
  /\ TimeToLive
  /\ purged' = purged \cup (txns \ txns')
  /\ UNCHANGED <<deliveryVars, byTier, runVars, deductions>>

\* What was begun on a day is over before the next: an event waits for two hours
\* at most, an attempt lasts seconds and the indexes lag by less.
Settled ==
  /\ \A d \in Deliveries : pc[d] \in {"done", "dead letter"} \/ attempt[d] = 0
  /\ byTxnId = txns
  /\ byTier = profile

NextDate ==
  /\ Settled
  /\ AdvanceCalendar
  /\ UNCHANGED <<deliveryVars, historyVars>>

SystemNext ==
  \/ \E d \in Deliveries : Handle(d) \/ HandlingFault(d)
  \/ \E r \in Runs : RunStep(r) \/ RunFault(r)
  \/ ShowInIndex
  \/ DeleteOldRecord
  \/ NextDate

SystemSpec == SystemInit /\ [][SystemNext]_systemVars

\* Lambda runs what it accepted and what the schedule owes, DynamoDB keeps the
\* indexes up to date, and the days go by.
FairSystemSpec ==
  /\ SystemSpec
  /\ \A d \in Deliveries : WF_systemVars(Handle(d))
  /\ \A r \in Runs : WF_systemVars(RunStep(r))
  /\ WF_systemVars(ShowInIndex)
  /\ WF_systemVars(NextDate)

-----------------------------------------------------------------------------
\* The type invariant of the composition.
SystemTypeOK ==
  /\ TypeOK
  /\ byTier \in [Members -> Profile \cup {NoMember}]
  /\ step \in [Runs -> ExpirationRequest \cup EvaluationRequest
                         \cup RemovalRequest \cup Ended \cup {"waiting"}]
  /\ runAttempt \in [Runs -> 0..MaxRunAttempts]
  /\ hollow \subseteq LedgerEntry \ ledger
  /\ deductions \subseteq Deduction
  /\ purged \subseteq Transaction

\* The records of the program, those DynamoDB has deleted since included.
History == txns \cup purged

\* What purchases, redemptions and expirations did to a member's balance.
HandlerEffects(m) ==
  {e \in InFlight \cup orphans \cup
         {RecordedEffect(t) : t \in {x \in History :
                                       x.type \in {"PURCHASE", "REDEMPTION"}}} :
     e.member = m}

DeductionsFrom(m) == {x \in deductions : x.member = m}

\* The attempt that made deduction x has not come to its record yet.
StillAt(x) ==
  \E r \in Runs :
    /\ x.by = Stamp(r) /\ x.sending = 0
    /\ step[r] \in {"delete_star_ledger_entries", "record_expiration"}
    /\ work[r].member = x.member

\* A record tells of the sending that was answered, never of another.
RecordedExpiration(x) ==
  /\ x.sending = 0
  /\ \E t \in History : /\ t.type = "EXPIRATION"
                        /\ <<t.by, t.member, t.stars>> = <<x.by, x.member, x.stars>>

\* Deduction x will never be on record: the attempt that made it ended first, or
\* does not know of it.
BrokenOff(x) == ~RecordedExpiration(x) /\ ~StillAt(x)

\* Every balance is the opening one and what recorded, running and broken-off
\* handlers and jobs did to it (update_member_balance, its three callers).
SystemAudit ==
  \A m \in Members :
    StarsOf(profile[m]) =
      StarsOf(Opening[m])
        + MapThenSumSet(LAMBDA e : e.stars, HandlerEffects(m))
        - MapThenSumSet(LAMBDA x : x.stars, DeductionsFrom(m))

-----------------------------------------------------------------------------
\* Every deduction for expired entries that a run knows of is recorded, about to
\* be, or the last thing an attempt did that then crashed or failed; and a
\* recorded expiration left none of its entries behind (expire_member_stars).
ExpirationsAreAccountedFor ==
  /\ \A x \in {y \in deductions : BrokenOff(y) /\ y.sending = 0} :
       LET r == x.by[1]
       IN  /\ \/ runAttempt[r] > x.by[2]
              \/ step[r] \in {"waiting", "dead letter"}
              \/ outcome[r].status = "error"
           /\ \A y \in deductions :
                BrokenOff(y) /\ y.sending = 0 /\ y.by = x.by => y = x
  /\ \A t \in History :
       t.type = "EXPIRATION" =>
         \E x \in deductions :
           /\ <<x.by, x.member, x.stars>> = <<t.by, t.member, t.stars>>
           /\ x.entries \cap ledger = {}

\* Two deductions by runs that one day's rule started twice.
Overlapping(x, y) ==
  /\ x.by[1] # y.by[1]
  /\ DayOf[x.by[1]] = DayOf[y.by[1]]

\* An entry expires twice only after an attempt broke off between its deduction
\* and its record, or did not hear of its deduction, or when two runs overlap: a
\* run that ended deletes what it deducted before another one looks
\* (process_member_expiration, update_member_balance).
ExpiresOnceUnlessInterrupted ==
  \A x, y \in deductions :
    x # y /\ x.entries \cap y.entries # {} =>
      BrokenOff(x) \/ BrokenOff(y) \/ Overlapping(x, y)

\* The member was moved or confirmed by today's evaluation.
EvaluatedToday(p) == p.nextTierEvaluation = today + YearDays

\* Stars are taken only for entries of the member that are 180 days old, and
\* only from one who was Green and without activity for 30 days when the day
\* began: the list is stale by less than a day (process_star_expiration).
OnlyQuietGreenMembersPay ==
  [][\A x \in deductions' \ deductions :
       LET p == profile[x.member]
       IN  /\ \A b \in x.entries :
                b.member = x.member /\ today - b.day >= LifetimeDays
           /\ p.tier = "Green" \/ EvaluatedToday(p)
           /\ p.lastQualifyingActivity \notin (today - InactiveDays)..(today - 1)
    ]_systemVars

\* The member has stars to lose to expiration today.
Due(m) ==
  /\ profile[m] # NoMember
  /\ profile[m].tier = "Green"
  /\ Inactive(profile[m], today)
  /\ Expired(m, today) # {}

\* "Process star expiration for all Green tier members" (docstring of
\* process_star_expiration): a run that met no fault leaves nothing due.
NothingDueIsLeft ==
  \A r \in Runs :
    /\ JobOf[r] = "expiration" /\ DayOf[r] = today
    /\ step[r] = "done"
    => \A m \in Members : ~Due(m)

\* The last run of a job was given up or ended in an error.
LastRunFailed(job) ==
  \E r \in Runs :
    /\ JobOf[r] = job
    /\ \A q \in Runs : JobOf[q] = job => DayOf[q] <= DayOf[r]
    /\ step[r] = "dead letter" \/ outcome[r].status = "error"

\* Stars that are due expire, if not on the same day then on a later one, as
\* long as the run of the last day does not fail (the daily rule and the retries
\* in rewards-stack.ts, and the re-reading of the ledger by every run).
DueStarsExpire ==
  \A m \in Members : Due(m) ~> (~Due(m) \/ LastRunFailed("expiration"))

PossibleEntries ==
  UNION {[member : {EventOf[d].member}, stars : PossibleStars(d),
          day : Calendar, by : {d} \X (1..MaxAttempts)]
           : d \in {e \in Deliveries : IsPurchase(e)}}

\* The entries whose stars were deducted and whose items a run still deletes.
BeingDeleted ==
  UNION {work[r].entries : r \in {q \in Runs : step[q] = "delete_star_ledger_entries"}}

Atomic == INSTANCE AtomicExpiration WITH
  Accounts       <- Members,
  Entries        <- PossibleEntries,
  Amounts        <- UNION {PossibleStars(d) : d \in Deliveries},
  OpeningBalance <- [m \in Members |-> StarsOf(Opening[m])],
  balance        <- [m \in Members |-> StarsOf(profile[m])],
  held           <- ledger \ BeingDeleted,
  expired        <- UNION {x.entries : x \in deductions}

\* Without faults and overlaps the requests of the job amount to one atomic
\* step: stars and entries go together, each entry once, whatever purchases and
\* redemptions happen in between.
ExpiresAtomically == Atomic!Spec

-----------------------------------------------------------------------------
Rank(tier) == CHOOSE i \in DOMAIN TierOrder : TierOrder[i] = tier

Threshold(tier) == IF tier = "Reserve" THEN ReserveStars
                   ELSE IF tier = "Gold" THEN GoldStars ELSE 0

\* The stars of the purchases on record in the year before today, those DynamoDB
\* has deleted since included.
EarnedInYear(m) ==
  StarsEarned({t \in History : /\ t.member = m
                               /\ t.type = "PURCHASE"
                               /\ t.day >= today - YearDays})

\* A member rises only to a tier that the purchases on record earned, whatever
\* runs overlap, crash or read a stale index (_calculate_annual_stars,
\* _determine_tier_from_stars and the two writers of the tier).
PromotionIsEarned ==
  [][\A m \in Members :
       /\ profile[m] # NoMember
       /\ Rank(profile'[m].tier) > Rank(profile[m].tier)
       => EarnedInYear(m) >= Threshold(profile'[m].tier)]_systemVars

\* A tier changes only when the member's evaluation is due, or again on the day
\* of the evaluation by a retry that lists her from an index that lags: so a tier
\* lasts a year, whatever crashes (update_member_tier moves the key by 365 days
\* with every change).
TierLastsUntilEvaluation ==
  [][\A m \in Members :
       /\ profile[m] # NoMember
       /\ profile'[m].tier # profile[m].tier
       => profile[m].evaluationKey < today \/ EvaluatedToday(profile[m])]_systemVars

\* An attempt at run r broke off, or skipped a member after an error.
Interrupted(r) ==
  \/ runAttempt[r] > 1
  \/ step[r] = "dead letter"
  \/ step[r] = "waiting" /\ runAttempt[r] > 0
  \/ outcome[r].errors > 0
  \/ JobOf[r] = "evaluation" /\ work[r] # NoWork /\ work[r].errors > 0

\* Run r is at one of the steps for member m.
WorksOn(r, m, steps) == step[r] \in steps /\ work[r].member = m

\* The key under which GSI1 lists a member is never later than the evaluation
\* date in the profile, or the member would be skipped when due; it is earlier
\* only between the two requests that keep a tier, or after a run was
\* interrupted there (update_member does not write GSI1SK).
KeyFollowsDate ==
  \A m \in Members :
    LET p == profile[m]
    IN  p # NoMember =>
          /\ p.evaluationKey <= p.nextTierEvaluation
          /\ p.evaluationKey # p.nextTierEvaluation =>
               \E r \in Runs : WorksOn(r, m, {"keep_tier_key"}) \/ Interrupted(r)

\* A member whose tier is not the opening one has a record of the change, unless
\* the run is about to write it or was interrupted (requirement 11.3).
TierChangesAreRecorded ==
  \A m \in Members :
    profile[m] # NoMember /\ profile[m].tier # Opening[m].tier =>
      \/ \E t \in History : t.type = "TIER_CHANGE" /\ t.member = m
      \/ \E r \in Runs :
           \/ WorksOn(r, m, {"update_annual_count", "record_tier_change"}
                                  \cup RemovalRequest)
           \/ Interrupted(r)

\* The evaluation of the day ended and reports no errors.
CleanEvaluation(r) ==
  /\ JobOf[r] = "evaluation" /\ DayOf[r] = today
  /\ outcome[r].status = "ok" /\ outcome[r].errors = 0

\* The response tells the truth about errors: after a run that reports none,
\* nobody whose date had passed is left, whatever the index showed.
NobodyDueIsSkipped ==
  \A r \in Runs :
    CleanEvaluation(r) =>
      \A m \in Members :
        profile[m] # NoMember => profile[m].evaluationKey >= today

\* A run of a job was given up or ended in an error.
SomeRunFailed(job) ==
  \E r \in Runs :
    JobOf[r] = job /\ (step[r] = "dead letter" \/ outcome[r].status = "error")

\* Everybody whose date has passed is evaluated, even when one query does not
\* return all of them, unless a run is given up: those who were evaluated make
\* room in the list of the next day (the daily rule in rewards-stack.ts).
DueMembersAreEvaluated ==
  \A m \in Members :
    (profile[m] # NoMember /\ profile[m].evaluationKey < today) ~>
      (profile[m].evaluationKey >= today \/ SomeRunFailed("evaluation"))

\* The sum is that "of transactions in the past 12 months" (docstring of
\* _calculate_annual_stars): no purchase recorded in that time is missing.
SumCoversTheYear ==
  [][\A r \in Runs :
       /\ step[r] = "get_member_transactions"
       /\ step'[r] \in {"update_member_tier", "keep_tier_date"}
       => work'[r].stars >= EarnedInYear(work[r].member)]_systemVars

\* The annual count is covered by credits: it is at most the opening one and what
\* the sendings of purchases added to the balance, each counted once, although
\* the evaluation overwrites what purchases add to (update_member,
\* update_member_balance).
CountIsCovered ==
  \A m \in Members :
    profile[m] # NoMember =>
      profile[m].annualStarCount <=
        Opening[m].annualStarCount
          + MapThenSumSet(LAMBDA e : e.stars,
                          {e \in HandlerEffects(m) : e.stars > 0})

\* An entry is made for a member who was Green when the day began: the tier the
\* purchase handler read is stale by less than a day.
StaleTierIsOfToday ==
  [][\A b \in ledger' \ ledger :
       LET p == profile[b.member]
       IN  p.tier = "Green" \/ EvaluatedToday(p)]_systemVars
=============================================================================
