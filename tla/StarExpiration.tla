---------------------------- MODULE StarExpiration ---------------------------
(***************************************************************************)
(* expiration/handler.py: the daily job that takes old stars from inactive *)
(* Green members.  It lists the Green members once, then for each inactive *)
(* one reads the ledger, deducts the stars of the expired entries, deletes *)
(* these entries and records the expiration: four requests or more, none   *)
(* of them joined to another.  Any error ends the whole job with a 500     *)
(* response, which Lambda takes for success.                               *)
(***************************************************************************)
EXTENDS ScheduledRuns, FiniteSetsExt

CONSTANT ExpirationLimit   \* members one query returns: 100 in the code

VARIABLE deductions   \* history: the stars taken, from whom, for which entries

InactiveDays == 30

LifetimeDays == 180

DeleteBatch == 25   \* entries one batch write deletes

ASSUME ExpirationLimitAssumption == ExpirationLimit \in Nat \ {0}

\* sending tells the deduction the run knows of (0) from those whose response was
\* lost, after which botocore sent the request again.
Deduction == [by : Stamps, member : Members, stars : Int,
              entries : SUBSET LedgerEntry, sending : Sending]

ExpirationInit == deductions = {}

ExpirationRequest == {"query_members_by_tier", "get_star_ledger_entries",
                      "deduct", "delete_star_ledger_entries",
                      "record_expiration"}

StarsIn(entries) == MapThenSumSet(LAMBDA b : b.stars, entries)

\* Activity thirty days ago already counts as too old.
InactiveForThirty(p, now) == p.lastQualifyingActivity <= now - InactiveDays

\* The profile in the list shows no activity in the past month.
Inactive(p, now) ==
  \/ p.lastQualifyingActivity = NeverActive
  \/ p.lastQualifyingActivity < now - InactiveDays

Expired(m, now) == {b \in GetStarLedgerEntries(m) : b.day <= now - LifetimeDays}

-----------------------------------------------------------------------------
StartExpiration(r) ==
  /\ StartRun(r, "expiration", "query_members_by_tier", [now |-> today])
  /\ UNCHANGED deductions

\* Go on with the next member of the list, or report success.
NextInactive(r, todo) ==
  \/ /\ todo = {}
     /\ RunReturns(r, Reply("ok", 0))
  \/ \E m \in todo :
       /\ SetWork(r, [now |-> work[r].now, todo |-> todo \ {m}, member |-> m,
                      entries |-> {}, stars |-> 0, unanswered |-> 0])
       /\ RunGoesTo(r, "get_star_ledger_entries")
       /\ UNCHANGED outcome

QueryGreenMembers(r) ==
  /\ step[r] = "query_members_by_tier"
  /\ \E page \in FirstPage(Shown("Green"), ExpirationLimit) :
       NextInactive(r, {m \in page : Inactive(byTier[m], work[r].now)})
  /\ UNCHANGED <<tableVars, today, byTier, hollow, runAttempt, deductions>>

\* An entry that cannot be read ends the job, like any other error.
ReadLedger(r) ==
  LET m == work[r].member
      expired == Expired(m, work[r].now)
  IN  /\ step[r] = "get_star_ledger_entries"
      /\ \/ /\ Unreadable(m)
            /\ RunReturns(r, Reply("error", 0))
         \/ /\ ~Unreadable(m) /\ expired = {}
            /\ NextInactive(r, work[r].todo)
         \/ /\ ~Unreadable(m) /\ expired # {}
            /\ SetWork(r, [work[r] EXCEPT !.entries = expired,
                                          !.stars = StarsIn(expired)])
            /\ RunGoesTo(r, "deduct")
            /\ UNCHANGED outcome
      /\ UNCHANGED <<tableVars, today, byTier, hollow, runAttempt, deductions>>

Taken(r, n) ==
  [by |-> Stamp(r), member |-> work[r].member, stars |-> work[r].stars,
   entries |-> work[r].entries, sending |-> n]

\* A failed condition raises ValueError through every level: the job ends, even
\* when it was a second sending that failed and the stars are taken.
Deduct(r) ==
  LET w == work[r]
  IN  /\ step[r] = "deduct"
      /\ \/ /\ UpdateMemberBalance(w.member, -w.stars, 0, NeverActive)
            /\ RunGoesTo(r, "delete_star_ledger_entries")
            /\ deductions' = deductions \cup {Taken(r, 0)}
            /\ UNCHANGED <<work, outcome>>
         \/ /\ ~BalanceCondition(w.member, -w.stars)
            /\ RunReturns(r, Reply("error", 0))
            /\ UNCHANGED <<profile, deductions>>
      /\ UNCHANGED <<ledger, txns, byTxnId, today, byTier, hollow, runAttempt>>

\* A deduction that is applied although its response is lost or is a 5xx.
DeductUnanswered(r) ==
  LET w == work[r]
  IN  /\ "response lost" \in RunFaults
      /\ step[r] = "deduct"
      /\ w.unanswered < MaxUnanswered
      /\ UpdateMemberBalance(w.member, -w.stars, 0, NeverActive)
      /\ SetWork(r, [w EXCEPT !.unanswered = @ + 1])
      /\ deductions' = deductions \cup {Taken(r, w.unanswered + 1)}
      /\ UNCHANGED <<ledger, txns, byTxnId, today, byTier, hollow, step, runAttempt,
                     outcome>>

\* A batch write that forgets the unprocessed entries of the batch.
DeleteOnce(r) ==
  LET w == work[r]
  IN  /\ step[r] = "delete_star_ledger_entries"
      /\ \E batch \in SUBSET w.entries \ {{}} :
           DeleteStarLedgerEntries(w.member, batch)
      /\ RunGoesTo(r, "record_expiration")
      /\ UNCHANGED <<profile, txns, byTxnId, today, byTier, hollow, runAttempt, work,
                     outcome, deductions>>

\* Batch writes are not atomic: each deletes some of the entries that are left,
\* and the batch writer repeats what DynamoDB left unprocessed.  Entries are
\* looked up by batchId, which a hollow one does not have.
DeleteEntries(r) ==
  LET w == work[r]
  IN  /\ step[r] = "delete_star_ledger_entries"
      /\ \E batch \in SUBSET w.entries \ {{}} :
           /\ Cardinality(batch) <= DeleteBatch
           /\ DeleteStarLedgerEntries(w.member, batch)
           /\ SetWork(r, [w EXCEPT !.entries = @ \ batch])
           /\ RunGoesTo(r, IF batch = w.entries THEN "record_expiration"
                                                ELSE "delete_star_ledger_entries")
      /\ UNCHANGED <<profile, txns, byTxnId, today, byTier, hollow, runAttempt, outcome,
                     deductions>>

\* The record's id is a uuid nobody looks up; the stamp of the attempt stands
\* for it.  The put may be applied and every response to it lost: an error.
RecordExpiration(r) ==
  LET w == work[r]
  IN  /\ step[r] = "record_expiration"
      /\ RecordTransaction([id |-> Stamp(r), member |-> w.member,
                            type |-> "EXPIRATION", stars |-> w.stars,
                            day |-> w.now, by |-> Stamp(r)])
      /\ \/ NextInactive(r, w.todo)
         \/ "request error" \in RunFaults /\ RunReturns(r, Reply("error", 0))
      /\ UNCHANGED <<profile, ledger, byTxnId, today, byTier, hollow, runAttempt,
                     deductions>>

\* A request raises an exception that is no failed condition.
ExpirationRequestFails(r) ==
  /\ "request error" \in RunFaults
  /\ step[r] \in ExpirationRequest
  /\ RunReturns(r, Reply("error", 0))
  /\ UNCHANGED <<tableVars, today, byTier, hollow, runAttempt, deductions>>

Expire(r) ==
  \/ StartExpiration(r)
  \/ QueryGreenMembers(r)
  \/ ReadLedger(r)
  \/ Deduct(r)
  \/ DeleteEntries(r)
  \/ RecordExpiration(r)
=============================================================================
