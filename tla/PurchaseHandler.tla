--------------------------- MODULE PurchaseHandler --------------------------
(***************************************************************************)
(* purchase/handler.py: the handler of rewards.transaction.purchase events.*)
(***************************************************************************)
EXTENDS LambdaDelivery

IsPurchase(d) == EventOf[d].type = "purchase"

\* PurchaseEventData: the amount must be positive.
ValidPurchase(e) == e.cents > 0

PurchaseCheck(d) == CheckIdempotency(d, ValidPurchase(EventOf[d]), "PURCHASE")

\* Reads the profile, then computes the stars with the tier it read and takes
\* the time: all later writes use these values.
PurchaseGetMember(d) ==
  LET e == EventOf[d]
      member == GetMember(e.member)
  IN  /\ pc[d] = "get_member"
      /\ \/ /\ member = NoMember
            /\ Return(d, "member not found")
            /\ UNCHANGED local
         \/ /\ member # NoMember
            /\ local' = [local EXCEPT ![d] =
                 [tier  |-> member.tier,
                  stars |-> CalculateStars(e.cents, member.tier,
                                           e.doubleStarDay, e.personalCup),
                  now   |-> today, unanswered |-> 0]]
            /\ GoTo(d, "update_member_balance")
            /\ UNCHANGED answer
      /\ UNCHANGED <<tableVars, today, attempt, orphans>>

\* Only a member who was Green when the profile was read gets a ledger entry.
PurchaseUpdateBalance(d) ==
  /\ pc[d] = "update_member_balance"
  /\ UpdateMemberBalance(EventOf[d].member, local[d].stars, local[d].stars,
                         local[d].now)
  /\ GoTo(d, IF local[d].tier = "Green" THEN "create_star_ledger_entry"
                                        ELSE "record_transaction")
  /\ UNCHANGED <<ledger, txns, byTxnId, today, attempt, local, answer, orphans>>

\* The credit has no condition: each sending adds the stars, to the count too.
PurchaseUpdateUnanswered(d) ==
  IsPurchase(d) /\ UpdateUnanswered(d, local[d].stars, local[d].now)

\* A response that is given once the entry is made.
PurchaseCreateLedgerEntryLast(d) ==
  /\ pc[d] = "create_star_ledger_entry"
  /\ CreateStarLedgerEntry([member |-> EventOf[d].member,
                            stars |-> local[d].stars, day |-> local[d].now,
                            by |-> <<d, attempt[d]>>])
  /\ GoTo(d, "return")
  /\ UNCHANGED <<profile, txns, byTxnId, today, attempt, local, answer, orphans>>

PurchaseCreateLedgerEntry(d) ==
  /\ pc[d] = "create_star_ledger_entry"
  /\ CreateStarLedgerEntry([member |-> EventOf[d].member,
                            stars |-> local[d].stars, day |-> local[d].now,
                            by |-> <<d, attempt[d]>>])
  /\ GoTo(d, "record_transaction")
  /\ UNCHANGED <<profile, txns, byTxnId, today, attempt, local, answer, orphans>>

PurchaseRecord(d) ==
  /\ pc[d] = "record_transaction"
  /\ RecordTransaction([id |-> EventOf[d].id, member |-> EventOf[d].member,
                        type |-> "PURCHASE", stars |-> local[d].stars,
                        day |-> local[d].now, by |-> <<d, attempt[d]>>])
  /\ GoTo(d, "return")
  /\ UNCHANGED <<profile, ledger, byTxnId, today, attempt, local, answer, orphans>>

Purchase(d) ==
  /\ IsPurchase(d)
  /\ \/ PurchaseCheck(d)
     \/ PurchaseGetMember(d)
     \/ PurchaseUpdateBalance(d)
     \/ PurchaseCreateLedgerEntry(d)
     \/ PurchaseRecord(d)
=============================================================================
