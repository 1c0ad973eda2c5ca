# Verification of the rewards program

The rewards program is a loyalty program on AWS: events on an EventBridge bus
start Lambda functions (`src/lambda/*/handler.py`), which share one DynamoDB
table through `DynamoDBClient` (`src/lambda/common/dynamodb.py`).  This
directory holds TLA+ models of it, the TLC runs that check them on small
instances, and proofs that TLAPS checks for every instance.

Each DynamoDB request is atomic; nothing joins two of them.  A handler is a
sequence of such requests with Python in between, it can stop after any of
them, and several handlers, or several attempts at one event, run at once.
That is where the program can go wrong and what the models keep.

## Inventory

| component | source (under `src/`) | state | operations | status |
|---|---|---|---|---|
| star calculator | `lambda/common/star_calculator.py` | none | `calculate_stars`, rate, multiplier | modelled, proved |
| table client | `lambda/common/dynamodb.py`, `models.py` | PROFILE, STAR#, TXN# items; GSI1 (tier and evaluation date), GSI2 (transaction id) | reads, conditional update, puts, queries, deletes, ttl | modelled, proved |
| event delivery | `lib/rewards-stack.ts` | queued events and runs, attempts, dead-letter queues | deliver, schedule, retry, discard, dead-letter | modelled, proved |
| purchase handler | `lambda/purchase/handler.py` | locals of an attempt | check id, read profile, credit, age (ledger entry), record | modelled, proved |
| redemption handler | `lambda/redemption/handler.py` | locals of an attempt | check id, read profile, deduct, record | modelled, proved |
| enrollment handler | `lambda/enrollment/handler.py` | locals of an attempt | check id, create member, record | modelled, proved |
| star expiration | `lambda/expiration/handler.py` | list of Green members, expired entries | daily batch: deduct, delete, record | modelled, proved |
| tier evaluation | `lambda/tier_evaluation/handler.py` | list of due members | daily batch: sum a year, move or keep the tier, remove dates, record | modelled, proved |
| member queries | `lambda/query/handler.py` | page tokens | history pages (the profile query is a single read) | modelled, proved |
| validation | `lambda/common/validation.py` | none | accept or refuse event data | what it decides |
| logging | `lambda/common/logger.py` | log lines | | left out |
| infrastructure | rest of `lib/`, `bin/` | | declarations | left out |
| vendored packages | most of `lambda/` | | | left out |

How they interact: only through the table.  An event handler reads a profile
and later changes it by an increment (`update_member_balance`), which DynamoDB
applies to the current value.  Purchases leave ledger entries that the
expiration batch consumes and records that the tier evaluation sums; the
evaluation changes the tier the purchase handler reads.  The idempotency check
of every event handler reads GSI2, a copy that lags behind the table.

Hard behaviours, and what should hold of them:

* *at-least-once delivery and retries*: a transaction id counts once; the
  answer to a duplicate is the original result;
* *crashes and failed requests between two writes*: no balance change without
  an explanation; nothing lost silently;
* *updates that boto3 sends again*: an increment is applied once for each time it
  arrives, a deduction may fail because of its own first arrival;
* *concurrent handlers*: balances never go negative, increments are not lost;
* *batch jobs over a stale list*: a star expires once, and only if its owner is
  Green and inactive; one failing member does not stop the others;
* *time*: records that DynamoDB deletes after 30 days, annual sums over 365;
* *rounding*: where the truncation of stars happens.

`PROJECT.json` lists them as hazards with the lines where they bite.

## Modules

| module | what it models |
|---|---|
| `StarCalculator` | `star_calculator.py`, in cents and tenths so that the Decimal product is an integer |
| `RewardsTable` | the table, GSI2, the clock and the ttl; one operator per request of the client |
| `LambdaDelivery` | deliveries, attempts, retries, faults; the shared idempotency check and the responses |
| `PurchaseHandler`, `RedemptionHandler` | one action per DynamoDB request of the handler |
| `StarAccounts` | their composition, fairness, and the properties |
| `AuditedAccounts` | abstract: a balance moves by effects; one that is noticed is then journalled or lost, one that is not is lost at once |
| `TierIndex` | GSI1: a copy of the profiles that lags, and queries that return one page |
| `ScheduledRuns` | the daily invocations of the two jobs, their attempts, retries and faults, the calendar |
| `StarExpiration` | the expiration job, one action per request |
| `TierEvaluation` | the evaluation job, one action per request |
| `AtomicExpiration` | abstract: stars expire together with their entries, each entry once |
| `RewardsSystem` | events, both jobs, both indexes and the ttl over one table; fairness and properties |
| `EnrollmentHandler` | signups: delivery, attempts, one action per request |
| `TransactionHistory` | a client that reads the history page by page |
| `MC...` | instances for TLC |
| `StarLemmas` | lemmas: what the calculator returns is natural, and how sums of stars over finite sets behave |
| `StarCalculatorProofs` | theorems about the calculator |
| `StarAccountsProofs` | theorems about the event handlers, and their refinement of `AuditedAccounts` |
| `SystemProofs` | what holds of the whole program: types, no overdraft, and the case analysis of its steps |
| `ScheduleProofs` | theorems about what the jobs read earlier, and about the tier evaluation |
| `ExpirationProofs` | theorems about deductions, balances and counts, and the refinement of `AtomicExpiration` |
| `EnrollmentProofs`, `HistoryProofs` | theorems about signups and about the pages of the history |

`StarAccounts` extends the two handlers, which extend `LambdaDelivery`, which
extends `RewardsTable`.  The two jobs extend `ScheduledRuns`, which extends
`TierIndex` and so the same `RewardsTable`; `RewardsSystem` extends
`StarAccounts` and both jobs, so that all of them act on one table.
`EnrollmentHandler` is checked over the table alone: a member nobody knows yet
gets no events.  `TransactionHistory` has a table of its own, in which a record
is its sort key.

Each proof module extends the module it is about.  `StarAccountsProofs` extends
`StarLemmas` too; `SystemProofs` extends it and `RewardsSystem`, so that what is
proved of the handlers is used for the system; `ScheduleProofs` extends
`SystemProofs`, and `ExpirationProofs` extends `ScheduleProofs`.

Some operators come in pairs, such as `RecordTransaction` and
`RecordTransactionById`.  The first is the code's; the second, described by the
comment above it, is a plausible mistake in it, and is used to make sure that a
property would notice the mistake.  No action uses the second.

### State and code

`profile[m]` is the PROFILE item with the attributes that decide something
(tier, balance, annual count, last activity, evaluation date, and the
evaluation date in the key of GSI1); `ledger` the STAR# items; `txns`
the TXN# items; `byTxnId` what GSI2 shows of them; `today` what `utcnow()`
returns, in days.  Names, e-mail addresses, descriptions and amounts of money on
records are left out.  `by`, on an entry or a record, is the attempt that wrote
it.  It stands for the microsecond timestamp and the uuid in the item's key,
which no two attempts share; it is what makes a second record of one id a
second item.

`pc[d]` is the request that the running attempt of delivery `d` makes next; the
Python up to the following request belongs to the step of the earlier one.  So
`PurchaseGetMember` reads the profile, calculates the stars and takes `now`,
and all later writes use these values however old they are.  `local[d]` holds
them, `answer[d]` what the handler returned.  `orphans` is a history variable:
the balance updates that no record will ever explain, because their attempt ended
before it could record them or because it never heard of them.

Things the model takes literally from the code:

* The idempotency check comes before the data is validated, so a duplicate id
  with invalid data is still a duplicate.
* A handler catches every exception and *returns* a 500 response.  For Lambda
  that is success: `RequestFails` ends the delivery and nothing is retried.
  Only a crash or the 30 second timeout (`Crash`) leads to a retry.
* The response to a duplicate quotes `starsEarned` (`starsRedeemed`) from the
  stored item, where it is a `Decimal`; `json.dumps` raises and the answer is
  500.  It is 200 only when the record found has no such attribute, for example
  for a redemption whose id a purchase used.
* `update_member_balance` has a condition only for a deduction.
* The same update is an increment, and botocore sends a request again when its
  response was lost or was a 5xx (`botocore/data/_retry.json`; the client changes
  nothing about this).  `UpdateUnanswered` is a sending that was applied without
  the handler hearing of it: the balance and the annual count move, the attempt
  stays where it is, and each sending is an effect of its own, an orphan at once.
  What comes next may be another such sending, an answered one that moves the
  balance again, a deduction whose condition now fails (the answer is
  "insufficient stars" with the stars taken), or the end of the attempt.
* A request whose every response is lost raises although it was applied.  For
  every request but the last, this is `RequestFails` at the following one; for
  `record_transaction` it is `RequestFails` at "return": the event is answered
  500 with its record in the table.
* A redemption changes neither the annual count nor the last activity.

Of the jobs:

* The expiration reads its list once, from GSI1, with a limit and no second
  page.  A deduction whose condition fails, or a ledger item that cannot be
  read, raises through every level: the run ends with 500, which is success for
  Lambda.  Deletion works in batches, each of which may delete a part.
* A deduction can be applied unanswered (`DeductUnanswered`) like the update of a
  handler.  After the last request for a member, `RecordExpiration` and
  `AfterLastWrite` have the alternative that it was applied and yet raised.
* The evaluation lists the due members of one tier after the other.  An error
  skips the member, or the tier when the query fails, is counted, and the run
  reports success.  Errors in `_remove_star_expiration_dates` are not even
  counted (`RemovalFails`).
* Keeping a tier writes the date to the profile and then, with the tier of the
  list, to the key of GSI1: `KeepTierDate`, `KeepTierKey`.
* `REMOVE expirationDate` removes an attribute that no entry has.  All it can do
  is harm: if the entry was deleted since the list was read, the update makes a
  new item of the key alone.  `hollow` holds these; `get_star_ledger_entries`
  raises `KeyError` at one (`Unreadable`).
* `deductions` and `purged` are history variables: what expirations took for
  which entries, and the records that the ttl has removed.

Of enrollment: each attempt draws its own membership id, so member `<<s, k>>` is
the one of attempt `k` at signup `s`.  When boto3 sends the conditional put a
second time because the response was lost, the condition fails on the handler's
own item and the answer is 422 ("response lost").  The record that stops a
second enrollment has the ttl of every record: `DeleteOldRecord` removes it after
30 days, and the answer "enrolled" is then about the member alone (`Outlived`).
Its clock moves among the days of `SignupDays`, even while a signup waits or is
at work: more delay than two hours of event age allow, which only adds behaviours.

Of the history: a page is a query below the key in the token; a full page has a
token even when nothing follows; the handler checks the member, then the limit,
then the token; `int()` of a limit that is no number ends in the catch-all.

Simplifications.  The clock counts days, taken when the attempt or run takes
its time; a record written on the same day as another is not earlier or later
than it in GSI2.  A calendar (`Calendar`) names the days on which anything
happens, and what began on a day is over before the next (`Settled`): an event
waits for two hours at most, an attempt lasts 30 or 300 seconds, the indexes lag
by less.  A request that botocore sends again is modelled where the repetition
makes a difference, for the increments of `update_member_balance` and the
conditional put of `create_member`; every other write sets attributes, puts an
item under its own key or deletes, and a second sending that follows the first
leaves what one of them leaves.  A sending that DynamoDB applies only after its
repetition was answered is not modelled.  Members are never deleted, in the code
as in the model.

## Runs

| run | question | bounds | distinct states |
|---|---|---|---|
| `star_calculation` | does truncation reward splitting a purchase, or spoil a doubling by more than a star? | amounts to 2.50, all tiers and conditions | 3 thousand |
| `duplicates` | one Green purchase delivered twice, with every fault: is each balance change explained, each recorded star aged, the abstract specification implemented, and does every delivery end? | 2 deliveries, 2 attempts each, 1 day | 175 thousand |
| `refused` | unknown members, invalid amounts, one id for two kinds of event, a deduction that fails because of its first sending: does an answer contradict the table? | 6 deliveries, 1 attempt, errors and lost responses, 2 days | 861 thousand |
| `separated` | redemptions of 60 (delivered twice) and 80 on a balance of 130: can it go negative? what does the idempotency check achieve when attempts at one transaction do not overlap? | 3 deliveries, 3 attempts, every fault | 514 thousand |
| `expirations` | two purchases and two daily expirations with every fault of the runs: who pays, for what, how often, can the balance go negative, and does what is due expire? | 1 member, 2 runs of 2 attempts, days 0, 150, 180, 181 | 317 thousand |
| `both_jobs` | a purchase that crashes and is retried, two evaluations and an expiration: is the expiration atomic for the rest of the system? how stale are the tiers by which stars are aged and taken? what can the annual count come to? is everybody evaluated? | 2 members, 3 runs, crashes of the purchase only, queries that return one due member | 183 thousand |
| `evaluations` | a rising and a falling member, a purchase, the rule firing twice on one day and again on the next, every fault of the runs: do dates, keys, tiers and records stay in step? | 2 members, 3 runs, 1 attempt each | 859 thousand |
| `enrollment` | a signup delivered twice and an invalid one with its id, every fault: is every member accounted for and every answer true? | 3 signups, 2 attempts, days 0 and 30 | 855 thousand |
| `history` | pages of a history that grows, shrinks and is asked for wrongly: is everything shown once, and does reading end? | 4 time units, pages of 2 at most | 14 thousand |
| `duplicate_effect` | requirement 10.3 (violated) | no fault at all | |
| `expiration_blocked` | all due members are processed (violated) | no fault at all | |
| `evaluation_of_old_records` | the sum covers 12 months (violated) | no fault at all | |

Properties, `StarAccounts`:

* `AuditTrailExplainsBalance`: every balance is the opening balance plus the
  recorded, the pending and the orphaned effects, those of unanswered sendings
  among the last.
* `ImplementsAudit`: refinement of `AuditedAccounts`.
* `AnswersMatchTable`: what each answer leaves open about the table, and no more:
  "internal error" comes with a record or with an orphan of the answered update,
  never with both, and "insufficient stars" with at most unanswered deductions.
* `BalanceNonNegative`, `LedgerMatchesGreenCredits`.
* `AtMostOnceUnlessOrphaned`: with deliveries that keep clear of each other, a
  transaction whose updates were all answered and recorded changed a balance once.
* `EveryDeliveryEnds`: liveness.

`RewardsSystem`:

* `SystemAudit`, `ExpirationsAreAccountedFor`: balances and deductions are
  explained by records, running attempts and attempts that broke off.
* `ExpiresOnceUnlessInterrupted`: an entry expires twice only when an attempt
  broke off between its deduction and its record, when a deduction was applied
  unanswered, or when two runs overlap.
* `OnlyQuietGreenMembersPay`: how stale the list may be: the payer was Green
  and inactive when the day began.
* `ExpiresAtomically`: refinement of `AtomicExpiration`, given no faults and no
  overlap; `held` is mapped to the entries less those a run is about to delete.
  What a crash or a partial deletion leaves is not its subject but that of the
  two properties above.
* `DueStarsExpire`, `DueMembersAreEvaluated`: liveness across days, unless the
  last run of the expiration, or some run of the evaluation, failed.
* `KeyFollowsDate`: the key under which GSI1 lists a member is never later than
  the date in the profile (the member would be skipped when due), and earlier
  only during or after an interruption.
* `TierChangesAreRecorded`, `NobodyDueIsSkipped`: what a crash or a skipped
  member may leave behind, and that a run which reports no errors left nobody.
* `CountIsCovered`: although the evaluation overwrites the annual count that
  purchases add to, the count never exceeds the opening one and the credits that
  were applied, recorded or not.  A credit of an attempt that crashed before its
  record counts again when it is retried, and so does one that is sent again; what
  is excluded is a count that no credit explains.  The run has the crashes, the
  theorem lost responses too.
* `PromotionIsEarned`: whatever runs overlap, crash or see, a member rises only
  to a tier that purchases on record earned.
* `TierLastsUntilEvaluation`: a tier changes only for a member who is due, or
  again on the day of her evaluation.
* `StaleTierIsOfToday`: a ledger entry is made for a member who was Green when
  the day began.

`EnrollmentHandler`: `MembersAreAccountedFor`, `RepliesMatchTable`,
`EverySignupEnds`.  `TransactionHistory`: `ReadsEachOnce`, `NothingSkipped`,
`ReadingEnds`.  `MCStarCalculator`: `NoSplitPays`, `DoublingHolds`.

Why the bounds are enough.  The hazards of the core need two attempts at one
transaction, of one delivery or of two, and a bystander: the instances have two
or three deliveries and two or three attempts, and all interleavings are
explored.  The Green member opens with 130 stars without ledger entries, as a
demoted member has.

The calendars hold the days on which the windows of the code begin and end: 150
is exactly 30 days before the first day, 180, on which an entry of day 0
expires, and 181 is the next run.  Members are due the day before the first
evaluation.  Both jobs look at one member at a time; two members show what one
does to the next, and how a list differs from the table.  `both_jobs` has
queries that return one member where the code has 1000, so that the second page
matters.  In `evaluations` each run has one attempt: a crashed run is followed
by the second run of the same day, which does what a retry does and can overlap
as well; retries of a run are in `expirations`.  The two runs of that day are
interchangeable, hence the symmetry.

In `history` a time unit is the delay between taking the time and writing the
record, the retention is two units, and pages are short so that the reader is
overtaken from both ends.  `enrollment` has the day of the signups and the one on
which the ttl of their records ends.  `MaxUnanswered` is 1 where botocore sends a
request ten times at most: one unheard sending already moves a balance twice or
makes a condition fail, and a second differs from it only in amount; the theorems
are about any number.  `MaxDay` and `MaxTime` bound the clocks,
`MaxAttempts`, `MaxRunAttempts` and `MaxSignupAttempts` the attempts (three in
the stack; two where every fault is on, as the third adds nothing the second
does not show).  Deadlock is not checked: when all deliveries and runs have
ended the system rests.

### What the violated properties show

* `duplicate_effect`: two deliveries of one redemption both query GSI2 before
  either has recorded; both deduct.  Requirement 10.3 says a duplicate "SHALL
  not modify the Member's Star_Balance".
* `expiration_blocked`: a redemption does not consume ledger entries.  A member
  who spent the stars of an entry that is now due has too few for the deduction;
  its condition fails, the exception leaves the loop over members, and nobody
  after this member is processed, today or on any later day.
* `evaluation_of_old_records`: the sum of a year is computed from records that
  DynamoDB deletes after 30 days.

Other disagreements with the documents came up on the way.  No listed run shows
them; each is a short behaviour of the models, and the true statement that is
left is checked where there is one:

| what happens | where | what the documents say | what is checked |
|---|---|---|---|
| a recognised duplicate is answered 500, because `json.dumps` refuses the stored `Decimal` | `purchase/handler.py:91` | requirement 10.2, the original result | |
| a credit whose response is lost is sent again: the member is credited twice, with one record and the answer 200 | `common/dynamodb.py:169` | the user story of requirement 10, not credited "multiple times for the same transaction" | `AuditTrailExplainsBalance`, `ImplementsAudit` |
| a deduction sent again after a lost response is answered 422, with the stars taken | `redemption/handler.py:150` | design: 422 for an insufficient balance | `AnswersMatchTable`, `AuditTrailExplainsBalance` |
| one failed request ends an event: not recorded, not retried, not dead-lettered | `purchase/handler.py:247` | the retry strategy of the design | `AuditTrailExplainsBalance` |
| a crash between deduction and deletion expires an entry twice | `expiration/handler.py:258` | design: "prevent double expiration" | `ExpiresOnceUnlessInterrupted` |
| Green members after the first 100 never lose a star, for their order in GSI1 does not change | `expiration/handler.py:102` | requirement 6.1 | `DueStarsExpire` for one page |
| stars expire 31 days after an activity, when they are six months old | `expiration/handler.py:121` | property 13 of the design | `OnlyQuietGreenMembersPay` |
| a member promoted after the list was read loses stars as Gold | `expiration/handler.py:102` | requirement 7.1 | `OnlyQuietGreenMembersPay` |
| a promotion that races with an expiration leaves an item that makes the ledger unreadable | `tier_evaluation/handler.py:358` | the comment on the line before | the effect on the next run is modelled |
| a purchase between the sum and its write is missing from the annual count | `tier_evaluation/handler.py:115` | glossary, Annual_Star_Count | `CountIsCovered` |
| a member with 500 stars stays Green until the evaluation date | `tier_evaluation/handler.py:64` | requirement 5.1 | `PromotionIsEarned` |
| a rise from Green to Gold is counted as a demotion: names are compared as strings | `tier_evaluation/handler.py:140` | the comment on the line | counters are left out |
| a purchase that read the tier before a promotion ages the stars of a Gold member | `purchase/handler.py:162` | design: no entries for Gold | `StaleTierIsOfToday` |
| a crash between profile and record enrolls a second member | `enrollment/handler.py:106` | requirement 10.2 | `MembersAreAccountedFor` |
| the history lacks what is older than 30 days, and comes newest first | `common/dynamodb.py:196`, `:263` | requirement 11.5 | `NothingSkipped`, `ReadsEachOnce` |
| a limit that is no number is answered 500 | `query/handler.py:205` | design: invalid data types are 400 | |

### Fairness

`FairSpec` has weak fairness for the steps of each delivery (Lambda keeps
running what it has accepted and starts the attempts it owes) and for the copy
to GSI2.  No fault is fair: none has to happen.  The proof obligation is that
attempts run out, so crashes may happen at will.  A failed request ends a delivery at once.

`FairSystemSpec` adds weak fairness for each run (the schedule fires and Lambda
runs what it accepted), for the two indexes and for the passing of days; the
last is what makes tomorrow's run come.  It has none for the deletion of old
records, which DynamoDB does when it likes.  `FairEnrollmentSpec` is weak
fairness for each signup.  `FairSpec` of `TransactionHistory` supposes a client
that goes on asking with the token it has and an acceptable limit, and that not
every page is lost: strong fairness for these two, since a wrong request or a
lost page comes in between again and again.

`SeparatedSpec` is not a claim about the code but a hypothesis on its
environment: an attempt starts only when no attempt at the same transaction is
running and GSI2 is up to date.  It tells what the check is worth; `duplicate_effect`
shows that it is worth nothing without the hypothesis.

## Theorems

`tlapm` checks all of these; they hold for every set of members, events,
deliveries and runs, any number of attempts and of unanswered sendings, any
limits and calendar, any faults, under the named assumptions of the modules
(opening balances are not negative; an event has the fields of its kind; attempts
have distinct stamps).
Every invariant and action property of a run that passes is stated by one.

| theorem | states | about |
|---|---|---|
| `StarsAreNatural` (`StarLemmas`) | | stars for every amount, tier and condition |
| `SplittingIsNoGain`, `DoublingIsWithinOneStar`, `NoSplitEverPays`, `DoublingAlwaysHolds` (`StarCalculatorProofs`) | `NoSplitPays`, `DoublingHolds` | every integer amount; the run enumerates some |
| `SumOfDisjoint` (`StarLemmas`) | | the sum of a union |
| `TypeCorrect`, `NoOverdraft`, `AnswersAgree` (`StarAccountsProofs`) | `TypeOK`, `BalanceNonNegative`, `AnswersMatchTable` | from the inductive invariant |
| `Refinement` | `ImplementsAudit` | the handlers implement `AuditedAccounts`, sending by sending |
| `BalancesExplained` | `AuditTrailExplainsBalance` | each balance, to the star |
| `GreenCreditsAge` | `LedgerMatchesGreenCredits` | who gets ledger entries |
| `OnceWhenSeparated` | `AtMostOnceUnlessOrphaned` | of `SeparatedSpec` |
| `NoOverdraftEver`, `SystemTypeCorrect` (`SystemProofs`) | `BalanceNonNegative`, `SystemTypeOK` | of the whole system |
| `EntriesAreForTheGreen`, `OnlyTheQuietPay`, `TiersLast` (`ScheduleProofs`) | `StaleTierIsOfToday`, `OnlyQuietGreenMembersPay`, `TierLastsUntilEvaluation` | how stale a read is |
| `ChangesHaveRecords`, `PromotionsAreEarned` | `TierChangesAreRecorded`, `PromotionIsEarned` | the evaluation |
| `KeysFollowDates` | `KeyFollowsDate` | given `OpeningKeysAgree` |
| `NobodyIsSkipped` | `NobodyDueIsSkipped` | given `OnePageIsEnough` |
| `DeductionsAreAccountedFor`, `StarsExpireOnce` (`ExpirationProofs`) | `ExpirationsAreAccountedFor`, `ExpiresOnceUnlessInterrupted` | the expiration |
| `EveryStarIsExplained`, `CountsAreCovered` | `SystemAudit`, `CountIsCovered` | balances and annual counts |
| `StarsExpireTogether` | `ExpiresAtomically` | given `RunsAreSound`, `OneExpirationADay`, `CalendarBegins` |
| `EnrollmentTypeCorrect`, `EnrollmentIsAccountedFor`, `RepliesAreTrue` (`EnrollmentProofs`) | `EnrollmentTypeOK`, `MembersAreAccountedFor`, `RepliesMatchTable` | signups |
| `HistoryTypeCorrect`, `HistoryReadsEachOnce`, `HistorySkipsNothing` (`HistoryProofs`) | `TypeOK`, `ReadsEachOnce`, `NothingSkipped` | pages of any length |

Hypotheses of single theorems, each met by the run that checks the property:

* `OpeningKeysAgree`: a profile opens with the same date in the attribute and in
  the key of GSI1.  `create_member` writes both from one value.
* `OnePageIsEnough`: the members fit one page of the query for due members (1000
  in the code).  The query has no second page: the members after the first one
  are left to the run of the next day.
* `RunsAreSound` and `OneExpirationADay`: the only fault of a run is an event
  that waited too long, and the rule of the expiration fires once a day.  A crash
  between a deduction and its deletion does take stars without their entries;
  `StarsExpireOnce` says, without these hypotheses, what is left then.
  `CalendarBegins`: day 0 is in the calendar, which names the days on which
  anything happens.

### The handlers

`BalanceNonNegative` is not inductive by itself: a purchase adds
`local[d].stars`, and nothing in the type of `local` says that this is not
negative or that the member exists.  `Progress(d)` supplies that: from
`get_member` on, the event was valid, the profile exists and the stars are what
the calculator returns (natural, by `StarsAreNatural`).  `AnswersMatchTable`
needs to know that what carries the stamp of an attempt was written by it and
when, and that all the orphans a running attempt has are the sendings it counts
as unanswered: `Stamped(d)`.  `IndInv` joins the two with types, balances and
answers.  The lemma `IndInvHolds` proves it step by step; `OthersUnchanged` and
`WritesOwnStamp` say that a step of one delivery neither moves another nor writes
with its stamp, which is all the other deliveries need.

`Refinement` maps the balance to the balances of the profiles, pending effects
to the attempts between their update and their record, the journal to the
records and the lost effects to the orphans.  A balance update is `Apply` (the
effect is new because its stamp is, and the condition keeps the balance from
going negative), the record is `Record`, a crash or an error between the two is
`Lose`; every other step stutters.  An unanswered sending is `ApplyUnnoticed`: an
effect that is lost as soon as it is applied, new because its number is.

`AuditTrailExplainsBalance` is about a sum over a set.  `StarLemmas` proves what
is needed of such sums (`SumWith`, `SumOfDisjoint`, `SumIsMonotone`): where one
would use induction over finite sets, the proof takes a smallest set for which
the claim fails (`SmallestSubset`, from the well-founded order on the subsets of
a finite set).  `TrailInv` adds to the property that there are finitely many
effects, each of a whole number of stars; a step then joins one effect to the
trail and moves one balance by its stars.  `GreenInv` adds what a running
attempt holds of the tier it read, and that tiers do not move while only
handlers run.  `OnceInv` is about `SeparatedSpec`: `LooksUp(d)` says that an
attempt which got past its idempotency check has seen GSI2 without its id, and
`Exclusive` that nobody else writes that id until it ends.

### The system

`CoreInv` is what is left of `IndInv` when jobs change profiles and the ttl
deletes records; `SystemInv` joins it with `ItemsInv` (the items of the table and
of GSI1) and `RunInv` (where a run is, on which day, and that the members in its
lists have profiles).  `RunGoes`, `ProfileMoves`, `RecordsAfterRun` and
`HistoryAfterRun` divide the steps of a run by what they write, so that later
proofs look at a handful of cases instead of twenty actions.

`EntriesInv`: an entry the ledger has lost never comes back, for anything that
was ever listed, deducted or made hollow carries a stamp that is used up.

`DayInv` is the argument for staleness: GSI1, the tier an attempt read and the
lists of the runs differ from the table by what was written *today*, which a
profile shows in its date (`MovedToday`), since `Settled` comes before midnight.
The three properties about staleness follow, each by the one step that uses
what was read.

`ChangesExplained` covers a tier that GSI1 or a list still shows after it changed,
and a run between its write and its record; `PromotionIsEarned` rests on
`SumIsEarned` (a sum that a run holds is of purchases on record) and on
`PurchasesAddStars`, without which a part of a sum could exceed the whole.

### Expiration

`ExpirationsAreAccountedFor` and `ExpiresOnceUnlessInterrupted` are proved with
`ExpirationInv`: an attempt deducts from each member of its list once
with an answer (`TakesTurns`), its unanswered deductions are the ones it counts,
what it deducted and has not recorded is what its locals say (`HoldsDeduction`),
only an attempt that ended breaks off (`FaultKnown`), and the entries a run is
about to deduct are shared only with deductions that broke off or with a run of
the same day (`SharesWithFaults`).

`AuditInv` is `TrailInv` for the whole system, with the deductions on the other
side and `EffectStamped` to tell a new effect from those that are over.
`CountInv` bounds the annual count: the evaluation overwrites it with a sum of
records while purchases increment it, so the invariant relates both to all
effects that ever added stars.

`StarsExpireTogether` maps the balance to the balances of the profiles, the held
entries to those of the ledger that no run is about to delete, and the expired
entries to those of the deductions.  The deduction is `ExpireTogether`; the
batches of deletions that follow change neither side of `ledger \ BeingDeleted`.
`AtomicInv` says that what a run is about to deduct is still there and adds up.

### Signups and history

Neither `MembersAreAccountedFor` nor `RepliesMatchTable` is inductive: "duplicate
enrollment" names a member without a record, and only the position of the
attempt tells that nobody will write one.  `EnrollmentInv` adds
`Attempting(s)`: ids of attempts not yet made name nobody, an attempt before its
put has no profile, one before its record has a profile due a year after the
day it drew and no record, only valid signups make members.  A step of one signup
touches only the member its attempt drew (`OtherSignups`).  What a profile says is
never changed afterwards and a record goes only when the member has outlived it,
which stays so (`OutlivedForGood`): this keeps earlier answers true.

`HistoryInv` adds to the two properties of the history where the token is (below
everything shown), that a request which got to its query carries that token, and
that an item is either there or deleted.  `PageIsNewest` is about the operator: a
page holds the newest items below the token, newest first.

TLC checked `IndInv`, `EnrollmentInv` and `HistoryInv` on the instances of their
runs before they were proved.

### Only model-checked

* Liveness (`EveryDeliveryEnds`, `DueStarsExpire`, `DueMembersAreEvaluated`,
  `EverySignupEnds`, `ReadingEnds`) and anything else under fairness.
* The properties that are violated, on the instances of their runs.

## What the code and its documents leave open

Properties 6 and 7 of the design ask for "exactly twice the base
tier-calculated amount".  With truncation the doubled stars are twice the base
stars or one more; `DoublingIsWithinOneStar` is the exact statement.

The design says a purchase updates "only if member exists".  The code has no
such condition; since no handler deletes a member it makes no difference.

## Not modelled

* The packages bundled under `src/lambda` (moto, boto3, botocore, pydantic,
  hypothesis, pytest, pygments and more).  They are more than 99 per cent of the
  lines there, and none of the program's own logic; the program itself is about
  3100 lines of Python and 1100 of TypeScript.  DynamoDB and Lambda are modelled
  from how the program uses them, and marked external.
* Logging, metrics and tracing: they change no state of the program.  The
  counters of the responses of the jobs go the same way, except for the number
  of errors.
* The declarations of the stack other than targets, schedules, retries, event
  ages, dead-letter queues, indexes and the ttl.
* Which field an error response names; events without the form of one, which are
  answered before the first request.
* The query for a profile: one read, nothing to interleave with.
* `tierSince`, which nothing reads.
* A redelivery of a purchase or redemption after more than 30 days, by a manual
  replay from a dead-letter queue: the record that would stop it is gone by then.
* A request that DynamoDB applies only after its repetition was answered.
* The order of two purchases within a day: the earlier time may end up in
  `lastQualifyingActivity`, seconds behind the later one.

## Plan

The components are modelled, and every safety property and refinement that a run
checks is proved.  What is left:

1. `NobodyIsSkipped` for the members of one page, when there are more members
   than a page holds: those GSI1 lists first.
2. `StarsExpireTogether` for each day without an interruption, instead of for a
   behaviour without any.
3. The steps under the liveness properties that are not liveness themselves: that
   no step raises what is left of a delivery or of a run.
