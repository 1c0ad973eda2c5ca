---------------------------- MODULE TierEvaluation ---------------------------
(***************************************************************************)
(* tier_evaluation/handler.py: the daily job that re-evaluates the members *)
(* whose evaluation date has passed.  Tier by tier it lists the due        *)
(* members, sums for each the purchases of the past year, and either moves *)
(* the member to the tier the sum deserves or keeps the tier for another   *)
(* year.  An error skips the member (or the tier), is counted, and the job *)
(* goes on and reports success.                                            *)
(***************************************************************************)
EXTENDS ScheduledRuns, FiniteSetsExt, Sequences

CONSTANT EvaluationLimit   \* members one query returns: 1000 in the code

YearDays == 365

GoldStars == 500

ReserveStars == 2500

ASSUME EvaluationLimitAssumption == EvaluationLimit \in Nat \ {0}

TierOrder == <<"Green", "Gold", "Reserve">>

EvaluationRequest == {"query_due_members", "get_member_transactions",
                      "update_member_tier", "update_annual_count",
                      "record_tier_change", "keep_tier_date", "keep_tier_key"}

\* The requests of _remove_star_expiration_dates, whose errors are swallowed.
RemovalRequest == {"list_promoted_entries", "remove_expiration_date"}

DetermineTier(annualStars) ==
  CASE annualStars >= ReserveStars -> "Reserve"
    [] annualStars >= GoldStars
         /\ annualStars < ReserveStars -> "Gold"
    [] annualStars < GoldStars    -> "Green"

StarsEarned(records) == MapThenSumSet(LAMBDA t : t.stars, records)

\* The running count of the profile instead of the records.
CalculateStarsOfProfile(m, now) == profile[m].annualStarCount

\* _calculate_annual_stars.
CalculateAnnualStars(m, now) ==
  StarsEarned({t \in GetMemberTransactions(m) :
                 t.type = "PURCHASE" /\ t.day >= now - YearDays})

-----------------------------------------------------------------------------
\* round is the position in TierOrder, todo the members of that tier still to
\* do, errors the counter of the response: 0, or 1 for any other number.
StartEvaluation(r) ==
  StartRun(r, "evaluation", "query_due_members",
           [now |-> today, round |-> 1, todo |-> {}, member |-> NoMember,
            entries |-> {}, stars |-> 0, errors |-> 0])

\* Go on, with the locals given, to the next member, the next tier or the end.
\* errors counts the members and tiers skipped; the response is 200 anyway.
NextDue(r, w) ==
  \/ \E m \in w.todo :
       /\ SetWork(r, [w EXCEPT !.member = m, !.todo = @ \ {m}, !.stars = 0])
       /\ RunGoesTo(r, "get_member_transactions")
       /\ UNCHANGED outcome
  \/ /\ w.todo = {}
     /\ w.round < Len(TierOrder)
     /\ SetWork(r, [w EXCEPT !.round = @ + 1, !.member = NoMember, !.stars = 0])
     /\ RunGoesTo(r, "query_due_members")
     /\ UNCHANGED outcome
  \/ /\ w.todo = {}
     /\ w.round = Len(TierOrder)
     /\ RunReturns(r, Reply("ok", w.errors))

\* The tier the member had in the list, and the one the sum deserves.
OldTier(r) == TierOrder[work[r].round]

NewTier(r) == DetermineTier(work[r].stars)

NextEvaluation(r) == work[r].now + YearDays

QueryDueMembers(r) ==
  LET w == work[r]
  IN  /\ step[r] = "query_due_members"
      /\ \E page \in FirstPage(ShownDue(OldTier(r), w.now), EvaluationLimit) :
           NextDue(r, [w EXCEPT !.todo = page])
      /\ UNCHANGED <<tableVars, today, byTier, hollow, runAttempt>>

SumYear(r) ==
  LET w == work[r]
      stars == CalculateAnnualStars(w.member, w.now)
  IN  /\ step[r] = "get_member_transactions"
      /\ SetWork(r, [w EXCEPT !.stars = stars])
      /\ RunGoesTo(r, IF DetermineTier(stars) # OldTier(r)
                        THEN "update_member_tier" ELSE "keep_tier_date")
      /\ UNCHANGED <<tableVars, today, byTier, hollow, runAttempt, outcome>>

MoveTier(r) ==
  /\ step[r] = "update_member_tier"
  /\ UpdateMemberTier(work[r].member, NewTier(r), NextEvaluation(r))
  /\ RunGoesTo(r, "update_annual_count")
  /\ UNCHANGED <<ledger, txns, byTxnId, today, byTier, hollow, runAttempt, work, outcome>>

\* An update that ends the work on the member.
SetAnnualCountOnly(r) ==
  LET m == work[r].member
  IN  /\ step[r] = "update_annual_count"
      /\ UpdateMember(m, work[r].stars, profile[m].nextTierEvaluation)
      /\ NextDue(r, work[r])
      /\ UNCHANGED <<ledger, txns, byTxnId, today, byTier, hollow, runAttempt>>

SetAnnualCount(r) ==
  LET m == work[r].member
  IN  /\ step[r] = "update_annual_count"
      /\ UpdateMember(m, work[r].stars, profile[m].nextTierEvaluation)
      /\ RunGoesTo(r, IF OldTier(r) = "Green" THEN "list_promoted_entries"
                                              ELSE "record_tier_change")
      /\ UNCHANGED <<ledger, txns, byTxnId, today, byTier, hollow, runAttempt,
                     work, outcome>>

\* A member who was Green has the expiration date removed from the entries; the
\* list is empty as well when it cannot be read.
ListPromotedEntries(r) ==
  LET m == work[r].member
      entries == IF Unreadable(m) THEN {} ELSE GetStarLedgerEntries(m)
  IN  /\ step[r] = "list_promoted_entries"
      /\ SetWork(r, [work[r] EXCEPT !.entries = entries])
      /\ RunGoesTo(r, IF entries = {} THEN "record_tier_change"
                                      ELSE "remove_expiration_date")
      /\ UNCHANGED <<tableVars, today, byTier, hollow, runAttempt, outcome>>

\* Go on to the entry after b, or to the record of the change.
AfterEntry(r, b) ==
  /\ SetWork(r, [work[r] EXCEPT !.entries = @ \ {b}])
  /\ RunGoesTo(r, IF work[r].entries = {b} THEN "record_tier_change"
                                           ELSE "remove_expiration_date")

\* REMOVE of an attribute no entry has (purchase/handler.py passes None): it
\* changes nothing, unless the entry was deleted since the list was read.
\* UpdateItem has no condition and makes a new item then, of the key alone.
RemoveExpirationDate(r) ==
  /\ step[r] = "remove_expiration_date"
  /\ \E b \in work[r].entries :
       /\ hollow' = IF b \in ledger THEN hollow ELSE hollow \cup {b}
       /\ AfterEntry(r, b)
  /\ UNCHANGED <<tableVars, today, byTier, runAttempt, outcome>>

\* Go on after the last write for a member, with an error to count when it was
\* applied but every response to it lost.
AfterLastWrite(r) ==
  \/ NextDue(r, work[r])
  \/ "request error" \in RunFaults /\ NextDue(r, [work[r] EXCEPT !.errors = 1])

\* The id is made of the member and the second of the run.
RecordTierChange(r) ==
  LET w == work[r]
  IN  /\ step[r] = "record_tier_change"
      /\ RecordTransaction([id |-> Stamp(r), member |-> w.member,
                            type |-> "TIER_CHANGE", stars |-> 0,
                            day |-> w.now, by |-> Stamp(r)])
      /\ AfterLastWrite(r)
      /\ UNCHANGED <<profile, ledger, byTxnId, today, byTier, hollow, runAttempt>>

KeepTierDate(r) ==
  /\ step[r] = "keep_tier_date"
  /\ UpdateMember(work[r].member, work[r].stars, NextEvaluation(r))
  /\ RunGoesTo(r, "keep_tier_key")
  /\ UNCHANGED <<ledger, txns, byTxnId, today, byTier, hollow, runAttempt, work, outcome>>

\* Only to move the member in GSI1; writes the tier of the list back as well.
KeepTierKey(r) ==
  /\ step[r] = "keep_tier_key"
  /\ UpdateMemberTier(work[r].member, OldTier(r), NextEvaluation(r))
  /\ AfterLastWrite(r)
  /\ UNCHANGED <<ledger, txns, byTxnId, today, byTier, hollow, runAttempt>>

\* An error that is not counted.
EvaluationRequestFailsSilently(r) ==
  /\ "request error" \in RunFaults
  /\ step[r] \in EvaluationRequest
  /\ NextDue(r, work[r])
  /\ UNCHANGED <<tableVars, today, byTier, hollow, runAttempt>>

\* A request raises an exception.  A failed query skips the tier: the list of
\* the tier is still empty then.
EvaluationRequestFails(r) ==
  /\ "request error" \in RunFaults
  /\ step[r] \in EvaluationRequest
  /\ NextDue(r, [work[r] EXCEPT !.errors = 1])
  /\ UNCHANGED <<tableVars, today, byTier, hollow, runAttempt>>

\* An error while the dates are removed: the job goes on as if nothing happened.
RemovalFails(r) ==
  /\ "request error" \in RunFaults
  /\ \/ /\ step[r] = "list_promoted_entries"
        /\ RunGoesTo(r, "record_tier_change")
        /\ UNCHANGED work
     \/ /\ step[r] = "remove_expiration_date"
        /\ \E b \in work[r].entries : AfterEntry(r, b)
  /\ UNCHANGED <<tableVars, today, byTier, hollow, runAttempt, outcome>>

Evaluate(r) ==
  \/ StartEvaluation(r)
  \/ QueryDueMembers(r)
  \/ SumYear(r)
  \/ MoveTier(r)
  \/ SetAnnualCount(r)
  \/ ListPromotedEntries(r)
  \/ RemoveExpirationDate(r)
  \/ RecordTierChange(r)
  \/ KeepTierDate(r)
  \/ KeepTierKey(r)
=============================================================================
