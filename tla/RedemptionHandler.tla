-------------------------- MODULE RedemptionHandler -------------------------
(***************************************************************************)
(* redemption/handler.py: the handler of rewards.transaction.redemption    *)
(* events.                                                                 *)
(***************************************************************************)
EXTENDS LambdaDelivery

\* RedemptionEventData: stars_to_redeem >= 60.
MinimumRedemption == 60

IsRedemption(d) == EventOf[d].type = "redemption"

ValidRedemption(e) == e.starsToRedeem >= MinimumRedemption

RedemptionCheck(d) ==
  CheckIdempotency(d, ValidRedemption(EventOf[d]), "REDEMPTION")

\* Reads the profile and refuses when the balance read is too small; the time
\* of the transaction is taken here.
RedemptionGetMember(d) ==
  LET e == EventOf[d]
      member == GetMember(e.member)
  IN  /\ pc[d] = "get_member"
      /\ \/ /\ member = NoMember
            /\ Return(d, "member not found")
            /\ UNCHANGED local
         \/ /\ member # NoMember
            /\ member.starBalance < e.starsToRedeem
            /\ Return(d, "insufficient stars")
            /\ UNCHANGED local
         \/ /\ member # NoMember
            /\ member.starBalance >= e.starsToRedeem
            /\ local' = [local EXCEPT ![d] =
                 [tier |-> member.tier, stars |-> e.starsToRedeem,
                  now |-> today, unanswered |-> 0]]
            /\ GoTo(d, "update_member_balance")
            /\ UNCHANGED answer
      /\ UNCHANGED <<tableVars, today, attempt, orphans>>

\* The conditional update decides, whatever the balance was when it was read.
\* A redemption passes no last_activity and leaves the annual count alone.  After
\* an unanswered sending it is the second sending that the condition judges: it
\* may refuse although the stars are taken.
RedemptionUpdateBalance(d) ==
  LET m == EventOf[d].member
  IN  /\ pc[d] = "update_member_balance"
      /\ \/ /\ UpdateMemberBalance(m, -local[d].stars, 0, NeverActive)
            /\ GoTo(d, "record_transaction")
            /\ UNCHANGED answer
         \/ /\ ~BalanceCondition(m, -local[d].stars)
            /\ Return(d, "insufficient stars")
            /\ UNCHANGED profile
      /\ UNCHANGED <<ledger, txns, byTxnId, today, attempt, local, orphans>>

RedemptionUpdateUnanswered(d) ==
  IsRedemption(d) /\ UpdateUnanswered(d, 0, NeverActive)

RedemptionRecord(d) ==
  /\ pc[d] = "record_transaction"
  /\ RecordTransaction([id |-> EventOf[d].id, member |-> EventOf[d].member,
                        type |-> "REDEMPTION", stars |-> local[d].stars,
                        day |-> local[d].now, by |-> <<d, attempt[d]>>])
  /\ GoTo(d, "return")
  /\ UNCHANGED <<profile, ledger, byTxnId, today, attempt, local, answer, orphans>>

Redeem(d) ==
  /\ IsRedemption(d)
  /\ \/ RedemptionCheck(d)
     \/ RedemptionGetMember(d)
     \/ RedemptionUpdateBalance(d)
     \/ RedemptionRecord(d)
=============================================================================
