------------------------- MODULE StarAccountsProofs -------------------------
(***************************************************************************)
(* What holds of StarAccounts for all members, events and deliveries and   *)
(* any number of attempts.                                                 *)
(***************************************************************************)
EXTENDS StarAccounts, StarLemmas

\* A balance update is applied without its attempt hearing of it.
Resent(d) == PurchaseUpdateUnanswered(d) \/ RedemptionUpdateUnanswered(d)

\* The actions of one delivery, one by one.
DeliveryAction(d) ==
  \/ Invoke(d) \/ Respond(d) \/ Crash(d) \/ RequestFails(d) \/ Discard(d)
  \/ IsPurchase(d) /\ PurchaseCheck(d)
  \/ IsPurchase(d) /\ PurchaseGetMember(d)
  \/ IsPurchase(d) /\ PurchaseUpdateBalance(d)
  \/ IsPurchase(d) /\ PurchaseCreateLedgerEntry(d)
  \/ IsPurchase(d) /\ PurchaseRecord(d)
  \/ Resent(d)
  \/ IsRedemption(d) /\ RedemptionCheck(d)
  \/ IsRedemption(d) /\ RedemptionGetMember(d)
  \/ IsRedemption(d) /\ RedemptionUpdateBalance(d)
  \/ IsRedemption(d) /\ RedemptionRecord(d)

\* A step of the handlers is one of a delivery, of the index, or midnight.
LEMMA NextCases ==
  ASSUME [Next]_vars
  PROVE  \/ \E d \in Deliveries : DeliveryAction(d)
         \/ Propagate \/ PassDay
         \/ UNCHANGED vars
  BY DEF Next, Step, Fault, Purchase, Redeem, DeliveryAction, Resent

\* An event has the fields of its kind.
LEMMA EventFields ==
  ASSUME NEW d \in Deliveries
  PROVE  /\ EventOf[d].id \in TxnIds
         /\ EventOf[d].member \in Members
         /\ IsPurchase(d) <=> ~IsRedemption(d)
         /\ IsPurchase(d) => /\ EventOf[d].cents \in Int
                             /\ EventOf[d].doubleStarDay \in BOOLEAN
                             /\ EventOf[d].personalCup \in BOOLEAN
         /\ IsRedemption(d) => EventOf[d].starsToRedeem \in Int
<1>1. EventOf[d] \in PurchaseEvent \cup RedemptionEvent
  BY DeliveryAssumption
<1> QED BY <1>1 DEF PurchaseEvent, RedemptionEvent, IsPurchase, IsRedemption

\* Among the sendings of an update is the one that is answered.
LEMMA FirstSending == 0 \in Sending
  BY MaxUnansweredAssumption DEF Sending

\* An attempt that has not begun has locals.
LEMMA NoLocalIsLocal == NoLocal \in Local
  BY FirstSending DEF Local, NoLocal, Tier, Day

\* The part of the invariant that also holds when the scheduled jobs change the
\* table: it says nothing about the stamps of the items.
CoreInv ==
  /\ TypeOK
  /\ BalanceNonNegative
  /\ \A d \in Deliveries : Progress(d)

\* The part of the invariant that holds with the scheduled jobs too.
LEMMA CoreOfIndInv == IndInv => CoreInv
  BY DEF IndInv, CoreInv

\* The invariant holds at the start.
THEOREM InitIndInv == Init => IndInv
<1> SUFFICES ASSUME Init PROVE IndInv
  OBVIOUS
<1> USE DEF Init, TableInit, DeliveryInit
<1>1. TypeOK
  <2>1. NoLocal \in Local /\ 0 \in Day
    BY NoLocalIsLocal DEF Day
  <2>2. 0 \in 0..MaxAttempts
    BY DeliveryAssumption
  <2>3. profile \in [Members -> Profile \cup {NoMember}]
    BY OpeningAssumption
  <2> QED BY <2>1, <2>2, <2>3 DEF TypeOK
<1>2. BalanceNonNegative
  BY OpeningAssumption DEF BalanceNonNegative
<1>3. AnswersMatchTable
  BY DEF AnswersMatchTable, NoAnswer
<1>4. ASSUME NEW d \in Deliveries PROVE Progress(d) /\ Stamped(d)
  BY DeliveryAssumption DEF Progress, Stamped, Running, Request, NoAnswer
<1> QED BY <1>1, <1>2, <1>3, <1>4 DEF IndInv

-----------------------------------------------------------------------------
\* What an attempt that has read the profile holds in its locals.
LEMMA DeltaIsStars ==
  ASSUME TypeOK, NEW d \in Deliveries, Progress(d),
         pc[d] \in Running \ {"check_transaction_exists", "get_member"}
  PROVE  /\ Delta(d) \in PossibleStars(d)
         /\ local[d].stars \in Int
         /\ local[d].stars >= 0
         /\ attempt[d] \in 1..MaxAttempts
         /\ <<d, attempt[d]>> \in Stamps
         /\ profile[EventOf[d].member] \in Profile
         /\ Effect(d) \in PossibleEffects
         /\ \A n \in Sending : EffectOfSending(d, n) \in PossibleEffects
<1>1. /\ local[d].tier \in Tier
      /\ local[d].stars \in Int
  BY DEF TypeOK, Local
<1>2. attempt[d] \in 1..MaxAttempts
  <2>1. attempt[d] \in 0..MaxAttempts /\ MaxAttempts \in Nat
    BY DeliveryAssumption DEF TypeOK
  <2>2. attempt[d] > 0
    BY DEF Progress
  <2> QED BY <2>1, <2>2
<1>3. <<d, attempt[d]>> \in Stamps
  BY <1>2, DeliveryAssumption
<1>4. profile[EventOf[d].member] \in Profile
  BY EventFields DEF TypeOK, Progress
<1>5. CASE IsPurchase(d)
  <2>1. /\ EventOf[d].cents \in Int
        /\ EventOf[d].doubleStarDay \in BOOLEAN
        /\ EventOf[d].personalCup \in BOOLEAN
        /\ EventOf[d].cents > 0
    BY <1>5, EventFields DEF Progress, ValidPurchase
  <2>2. /\ local[d].stars = CalculateStars(EventOf[d].cents, local[d].tier,
                              EventOf[d].doubleStarDay, EventOf[d].personalCup)
        /\ Delta(d) = local[d].stars
    BY <1>5 DEF Progress, Delta, IsPurchase
  <2>3. local[d].stars >= 0
    BY <1>1, <2>1, <2>2, StarsAreNatural
  <2>4. Delta(d) \in PossibleStars(d)
    BY <1>1, <1>5, <2>2 DEF PossibleStars
  <2> QED BY <1>1, <1>2, <1>3, <1>4, <2>3, <2>4, FirstSending
          DEF PossibleEffects, Effect, EffectOfSending
<1>6. CASE IsRedemption(d)
  <2>1. ~IsPurchase(d) /\ EventOf[d].starsToRedeem \in Int
    BY <1>6, EventFields
  <2>2. /\ Delta(d) = -EventOf[d].starsToRedeem
        /\ Delta(d) = -local[d].stars
        /\ EventOf[d].starsToRedeem >= 60
    BY <2>1, <1>6 DEF Progress, Delta, IsPurchase, ValidRedemption, MinimumRedemption
  <2>3. local[d].stars >= 0
    BY <1>1, <2>1, <2>2
  <2>4. Delta(d) \in PossibleStars(d)
    BY <2>1, <2>2 DEF PossibleStars
  <2> QED BY <1>1, <1>2, <1>3, <1>4, <2>3, <2>4, FirstSending
          DEF PossibleEffects, Effect, EffectOfSending
<1> QED BY <1>5, <1>6, EventFields

\* What update_member_balance does to the table: the other members keep their
\* profiles, and this one keeps the tier and the dates of its evaluation.
LEMMA UpdatedProfile ==
  ASSUME TypeOK, NEW m \in Members, profile[m] \in Profile,
         NEW delta \in Int, NEW annual \in Int,
         NEW activity \in Day \cup {NeverActive},
         UpdateMemberBalance(m, delta, annual, activity)
  PROVE  /\ profile' \in [Members -> Profile \cup {NoMember}]
         /\ profile'[m] \in Profile
         /\ profile'[m].starBalance = profile[m].starBalance + delta
         /\ profile'[m].annualStarCount = profile[m].annualStarCount + annual
         /\ profile'[m].tier = profile[m].tier
         /\ profile'[m].nextTierEvaluation = profile[m].nextTierEvaluation
         /\ profile'[m].evaluationKey = profile[m].evaluationKey
         /\ delta < 0 => profile[m].starBalance >= -delta
         /\ \A n \in Members \ {m} : profile'[n] = profile[n]
<1> DEFINE new == [profile[m] EXCEPT
                     !.starBalance = @ + delta,
                     !.annualStarCount = @ + annual,
                     !.lastQualifyingActivity =
                         IF activity = NeverActive THEN @ ELSE activity]
<1>1. profile \in [Members -> Profile \cup {NoMember}]
  BY DEF TypeOK
<1>2. profile' = [profile EXCEPT ![m] = new]
  BY DEF UpdateMemberBalance
<1>3. /\ new \in Profile
      /\ new.starBalance = profile[m].starBalance + delta
      /\ new.annualStarCount = profile[m].annualStarCount + annual
      /\ new.tier = profile[m].tier
      /\ new.nextTierEvaluation = profile[m].nextTierEvaluation
      /\ new.evaluationKey = profile[m].evaluationKey
  <2>1. /\ profile[m].starBalance + delta \in Int
        /\ profile[m].annualStarCount + annual \in Int
        /\ profile[m].lastQualifyingActivity \in Day \cup {NeverActive}
    BY DEF Profile
  <2> DEFINE last == IF activity = NeverActive
                     THEN profile[m].lastQualifyingActivity ELSE activity
  <2>2. last \in Day \cup {NeverActive}
    BY <2>1
  <2>3. PICK b \in Int, a \in Int, l \in Day \cup {NeverActive} :
          /\ b = profile[m].starBalance + delta
          /\ a = profile[m].annualStarCount + annual
          /\ l = last
    BY <2>1, <2>2
  <2>4. new = [profile[m] EXCEPT !.starBalance = b, !.annualStarCount = a,
                                 !.lastQualifyingActivity = l]
    BY <2>3
  <2> DEFINE p == [profile[m] EXCEPT !.starBalance = b, !.annualStarCount = a,
                                     !.lastQualifyingActivity = l]
  <2>5. p \in Profile
    BY DEF Profile
  <2>6. /\ p.starBalance = b /\ p.annualStarCount = a /\ p.tier = profile[m].tier
        /\ p.nextTierEvaluation = profile[m].nextTierEvaluation
        /\ p.evaluationKey = profile[m].evaluationKey
    BY DEF Profile
  <2> HIDE DEF new
  <2> QED BY <2>3, <2>4, <2>5, <2>6
<1>4. delta < 0 => profile[m].starBalance >= -delta
  BY DEF UpdateMemberBalance, BalanceCondition
<1> HIDE DEF new
<1> QED BY <1>1, <1>2, <1>3, <1>4

\* An update that is applied unanswered moves the balance by the stars of the
\* attempt, counts one sending more, leaves an orphan, and changes nothing else.
LEMMA ResentUpdate ==
  ASSUME TypeOK, NEW d \in Deliveries, Progress(d), Resent(d)
  PROVE  /\ pc[d] = "update_member_balance" /\ local[d].unanswered + 1 \in Sending
         /\ local[d].unanswered \in Nat
         /\ UNCHANGED <<ledger, txns, byTxnId, today, pc, attempt, answer>>
         /\ local' = [local EXCEPT ![d].unanswered = @ + 1]
         /\ local' \in [Deliveries -> Local]
         /\ local'[d].tier = local[d].tier /\ local'[d].stars = local[d].stars
         /\ local'[d].now = local[d].now /\ Delta(d)' = Delta(d) /\ Delta(d) \in Int
         /\ local'[d].unanswered = local[d].unanswered + 1
         /\ \A e \in Deliveries \ {d} : local'[e] = local[e]
         /\ orphans' = orphans \cup {EffectOfSending(d, local[d].unanswered + 1)}
         /\ EffectOfSending(d, local[d].unanswered + 1) \in PossibleEffects
         /\ \E annual \in Int, activity \in Day \cup {NeverActive} :
              /\ UpdateMemberBalance(EventOf[d].member, Delta(d), annual, activity)
              /\ annual = IF IsPurchase(d) THEN local[d].stars ELSE 0
              /\ activity = IF IsPurchase(d) THEN local[d].now ELSE NeverActive
<1>1. /\ pc[d] = "update_member_balance" /\ local[d].unanswered < MaxUnanswered
      /\ UNCHANGED <<ledger, txns, byTxnId, today, pc, attempt, answer>>
      /\ local' = [local EXCEPT ![d].unanswered = @ + 1]
      /\ orphans' = orphans \cup {EffectOfSending(d, local[d].unanswered + 1)}
  BY DEF Resent, PurchaseUpdateUnanswered, RedemptionUpdateUnanswered, UpdateUnanswered
<1>2. local \in [Deliveries -> Local] /\ local[d] \in Local
  BY DEF TypeOK
<1>3. local[d].unanswered \in Nat /\ local[d].unanswered + 1 \in Sending
  <2>1. local[d].unanswered \in 0..MaxUnanswered /\ MaxUnanswered \in Nat
    BY <1>2, MaxUnansweredAssumption DEF Local, Sending
  <2> QED BY <1>1, <2>1 DEF Sending
<1>4. PICK n \in Sending : n = local[d].unanswered + 1
  BY <1>3
<1>5. local' = [local EXCEPT ![d] = [local[d] EXCEPT !.unanswered = n]]
  BY <1>1, <1>4
<1>6. [local[d] EXCEPT !.unanswered = n] \in Local
  BY <1>2 DEF Local
<1>7. /\ local' \in [Deliveries -> Local]
      /\ local'[d] = [local[d] EXCEPT !.unanswered = n]
      /\ \A e \in Deliveries \ {d} : local'[e] = local[e]
  BY <1>2, <1>5, <1>6
<1>8. /\ local'[d].tier = local[d].tier /\ local'[d].stars = local[d].stars
      /\ local'[d].now = local[d].now /\ local'[d].unanswered = n
  BY <1>2, <1>7 DEF Local
<1>9. Delta(d)' = Delta(d)
  BY <1>8 DEF Delta
<1>10. /\ local[d].stars \in Int /\ local[d].now \in Day
       /\ \A k \in Sending : EffectOfSending(d, k) \in PossibleEffects
  <2>1. local[d].stars \in Int /\ local[d].now \in Day
    BY <1>2 DEF Local
  <2> QED BY <1>1, <2>1, DeltaIsStars DEF Running, Request
<1>11. \E annual \in Int, activity \in Day \cup {NeverActive} :
         /\ UpdateMemberBalance(EventOf[d].member, Delta(d), annual, activity)
         /\ annual = IF IsPurchase(d) THEN local[d].stars ELSE 0
         /\ activity = IF IsPurchase(d) THEN local[d].now ELSE NeverActive
  <2>1. CASE PurchaseUpdateUnanswered(d)
    BY <1>10, <2>1 DEF PurchaseUpdateUnanswered, UpdateUnanswered
  <2>2. CASE RedemptionUpdateUnanswered(d)
    <3>1. ~IsPurchase(d)
      BY <2>2, EventFields DEF RedemptionUpdateUnanswered
    <3>2. UpdateMemberBalance(EventOf[d].member, Delta(d), 0, NeverActive)
      BY <2>2 DEF RedemptionUpdateUnanswered, UpdateUnanswered
    <3> QED BY <3>1, <3>2
  <2> QED BY <2>1, <2>2 DEF Resent
<1>12. Delta(d) \in Int
  BY <1>10 DEF Delta
<1> QED BY <1>1, <1>3, <1>4, <1>7, <1>8, <1>9, <1>10, <1>11, <1>12

-----------------------------------------------------------------------------
\* Each conjunct of the inductive invariant is preserved by every step.
LEMMA TypeStep ==
  ASSUME CoreInv, [Next]_vars
  PROVE  TypeOK'
<1>0. TypeOK /\ \A d \in Deliveries : Progress(d)
  BY DEF CoreInv
<1>16. ASSUME NEW d \in Deliveries, Resent(d)
       PROVE  /\ UNCHANGED <<ledger, txns, byTxnId, today, pc, attempt, answer>>
              /\ local' \in [Deliveries -> Local]
              /\ orphans' = orphans \cup {EffectOfSending(d, local[d].unanswered + 1)}
              /\ EffectOfSending(d, local[d].unanswered + 1) \in PossibleEffects
              /\ \E annual \in Int, activity \in Day \cup {NeverActive} :
                   UpdateMemberBalance(EventOf[d].member, Delta(d), annual, activity)
              /\ Delta(d) \in Int /\ pc[d] = "update_member_balance"
  BY <1>0, <1>16, ResentUpdate
<1> USE DEF TypeOK, tableVars, deliveryVars, GoTo, Return
<1>1. ASSUME NEW d \in Deliveries, Invoke(d) PROVE TypeOK'
  <2>1. attempt[d] \in 0..MaxAttempts /\ MaxAttempts \in Nat
    BY <1>0, DeliveryAssumption
  <2>2. attempt[d] < MaxAttempts
    BY <1>0, <1>1 DEF Progress, Invoke
  <2>3. attempt[d] + 1 \in 0..MaxAttempts
    BY <2>1, <2>2
  <2> QED BY <1>0, <1>1, <2>3 DEF Invoke, Running, Request
<1>2. ASSUME NEW d \in Deliveries, Respond(d) PROVE TypeOK'
  BY <1>0, <1>2 DEF Respond, Answer
<1>3. ASSUME NEW d \in Deliveries, Crash(d) \/ RequestFails(d) PROVE TypeOK'
  <2>0. Unrecorded(d) => Effect(d) \in PossibleEffects
    BY <1>0, DeltaIsStars DEF Unrecorded, Running, Request
  <2>1. orphans' \subseteq PossibleEffects
    BY <1>0, <1>3, <2>0 DEF Crash, AfterCrash, RequestFails, Abandon
  <2>2. NoLocal \in Local
    BY NoLocalIsLocal
  <2> QED BY <1>0, <1>3, <2>1, <2>2 DEF Crash, AfterCrash, RequestFails, Answer
<1>4. ASSUME NEW d \in Deliveries, Discard(d) PROVE TypeOK'
  BY <1>0, <1>4 DEF Discard
<1>5. ASSUME NEW d \in Deliveries, PurchaseCheck(d) \/ RedemptionCheck(d)
      PROVE  TypeOK'
  BY <1>0, <1>5 DEF PurchaseCheck, RedemptionCheck, CheckIdempotency, Running, Request, Answer
<1>6. ASSUME NEW d \in Deliveries, IsPurchase(d), PurchaseGetMember(d)
      PROVE  TypeOK'
  <2> DEFINE m == profile[EventOf[d].member]
             stars(t) == CalculateStars(EventOf[d].cents, t,
                           EventOf[d].doubleStarDay, EventOf[d].personalCup)
  <2>1. m # NoMember => [tier |-> m.tier, stars |-> stars(m.tier), now |-> today,
                         unanswered |-> 0] \in Local
    <3> SUFFICES ASSUME m # NoMember
                 PROVE  m.tier \in Tier /\ stars(m.tier) \in Int
      BY <1>0, FirstSending DEF Local
    <3>1. m.tier \in Tier
      BY <1>0, EventFields DEF Profile
    <3> QED BY <3>1, <1>6, EventFields, StarsAreNatural
  <2>2. local' \in [Deliveries -> Local]
    BY <1>0, <1>6, <2>1 DEF PurchaseGetMember, GetMember
  <2> QED BY <1>0, <1>6, <2>2 DEF PurchaseGetMember, GetMember, Running, Request, Answer
<1>7. ASSUME NEW d \in Deliveries, IsRedemption(d), RedemptionGetMember(d)
      PROVE  TypeOK'
  <2> DEFINE m == profile[EventOf[d].member]
  <2>1. m # NoMember => [tier |-> m.tier, stars |-> EventOf[d].starsToRedeem,
                         now |-> today, unanswered |-> 0] \in Local
    BY <1>0, <1>7, EventFields, FirstSending DEF Local, Profile
  <2>2. local' \in [Deliveries -> Local]
    BY <1>0, <1>7, <2>1 DEF RedemptionGetMember, GetMember
  <2> QED BY <1>0, <1>7, <2>2 DEF RedemptionGetMember, GetMember, Running, Request, Answer
<1>8. ASSUME NEW d \in Deliveries, PurchaseUpdateBalance(d) \/ RedemptionUpdateBalance(d)
      PROVE  TypeOK'
  <2>1. pc[d] = "update_member_balance"
    BY <1>8 DEF PurchaseUpdateBalance, RedemptionUpdateBalance
  <2>2. /\ local[d] \in Local /\ local[d].stars \in Int
        /\ EventOf[d].member \in Members
        /\ profile[EventOf[d].member] \in Profile
    BY <1>0, <2>1, DeltaIsStars, EventFields DEF Running, Request
  <2>3. local[d].now \in Day
    BY <2>2 DEF Local
  <2>4. -local[d].stars \in Int /\ 0 \in Int
    BY <2>2
  <2>5. profile' \in [Members -> Profile \cup {NoMember}]
    <3>1. CASE PurchaseUpdateBalance(d)
      BY <1>0, <2>2, <2>3, <3>1, UpdatedProfile DEF PurchaseUpdateBalance
    <3>2. CASE RedemptionUpdateBalance(d)
      BY <1>0, <2>2, <2>4, <3>2, UpdatedProfile DEF RedemptionUpdateBalance
    <3> QED BY <1>8, <3>1, <3>2
  <2> QED BY <1>0, <1>8, <2>5
          DEF PurchaseUpdateBalance, RedemptionUpdateBalance, Running, Request, Answer
<1>9. ASSUME NEW d \in Deliveries, PurchaseCreateLedgerEntry(d)
      PROVE  TypeOK'
  <2>1. pc[d] = "create_star_ledger_entry"
    BY <1>9 DEF PurchaseCreateLedgerEntry
  <2>2. /\ local[d].stars \in Int /\ local[d].now \in Day
        /\ EventOf[d].member \in Members
        /\ <<d, attempt[d]>> \in Stamps
    BY <1>0, <2>1, DeltaIsStars, EventFields DEF Running, Request, Local
  <2>3. [member |-> EventOf[d].member, stars |-> local[d].stars,
         day |-> local[d].now, by |-> <<d, attempt[d]>>] \in LedgerEntry
    BY <2>2 DEF LedgerEntry
  <2>4. ledger' \subseteq LedgerEntry
    BY <1>0, <1>9, <2>3 DEF PurchaseCreateLedgerEntry, CreateStarLedgerEntry
  <2> QED BY <1>0, <1>9, <2>4 DEF PurchaseCreateLedgerEntry, Running, Request
<1>10. ASSUME NEW d \in Deliveries, PurchaseRecord(d) \/ RedemptionRecord(d)
       PROVE  TypeOK'
  <2>1. pc[d] = "record_transaction"
    BY <1>10 DEF PurchaseRecord, RedemptionRecord
  <2>2. /\ local[d].stars \in Int /\ local[d].now \in Day
        /\ EventOf[d].member \in Members /\ EventOf[d].id \in TxnIds
        /\ <<d, attempt[d]>> \in Stamps
    BY <1>0, <2>1, DeltaIsStars, EventFields DEF Running, Request, Local
  <2>3. \A type \in TransactionType :
          [id |-> EventOf[d].id, member |-> EventOf[d].member, type |-> type,
           stars |-> local[d].stars, day |-> local[d].now,
           by |-> <<d, attempt[d]>>] \in Transaction
    BY <2>2 DEF Transaction
  <2>4. txns' \subseteq Transaction /\ byTxnId' \subseteq txns'
    BY <1>0, <1>10, <2>3
       DEF PurchaseRecord, RedemptionRecord, RecordTransaction, TransactionType
  <2> QED BY <1>0, <1>10, <2>4 DEF PurchaseRecord, RedemptionRecord, Running, Request
<1>11. CASE Propagate
  BY <1>0, <1>11 DEF Propagate, PropagateToIndex
<1>12. CASE PassDay
  <2>0. today \in Nat /\ today' = today + 1
    BY <1>0, <1>12 DEF PassDay, NextDay, Day
  <2>1. today' \in Day
    BY <2>0 DEF Day
  <2> QED BY <1>0, <1>12, <2>1 DEF PassDay, NextDay
<1>13. CASE UNCHANGED vars
  BY <1>0, <1>13 DEF vars
<1>15. ASSUME NEW d \in Deliveries, Resent(d) PROVE TypeOK'
  <2>1. /\ UNCHANGED <<ledger, txns, byTxnId, today, pc, attempt, answer>>
        /\ local' \in [Deliveries -> Local]
        /\ orphans' \subseteq PossibleEffects
        /\ \E annual \in Int, activity \in Day \cup {NeverActive} :
             UpdateMemberBalance(EventOf[d].member, Delta(d), annual, activity)
        /\ Delta(d) \in Int /\ pc[d] = "update_member_balance"
    BY <1>0, <1>15, <1>16
  <2>2. EventOf[d].member \in Members /\ profile[EventOf[d].member] \in Profile
    BY <1>0, <2>1, DeltaIsStars, EventFields DEF Running, Request
  <2>3. profile' \in [Members -> Profile \cup {NoMember}]
    BY <1>0, <2>1, <2>2, UpdatedProfile
  <2> QED BY <1>0, <2>1, <2>3
<1>14. ASSUME NEW d \in Deliveries, DeliveryAction(d) PROVE TypeOK'
  BY <1>14, <1>1, <1>2, <1>3, <1>4, <1>5, <1>6, <1>7, <1>8, <1>9, <1>10, <1>15
     DEF DeliveryAction
<1> HIDE DEF TypeOK
<1> QED BY NextCases, <1>11, <1>12, <1>13, <1>14

\* A balance moves only in the two update steps, up by stars that are not
\* negative or down when the condition found enough of them; no member vanishes.
LEMMA BalanceStep ==
  ASSUME CoreInv, [Next]_vars
  PROVE  /\ BalanceNonNegative'
         /\ \A m \in Members : profile[m] # NoMember => profile'[m] # NoMember
<1>0. /\ TypeOK /\ BalanceNonNegative
      /\ \A d \in Deliveries : Progress(d)
  BY DEF CoreInv
<1>1. ASSUME NEW d \in Deliveries, NEW delta \in Int, NEW annual \in Int,
             NEW activity \in Day \cup {NeverActive},
             pc[d] = "update_member_balance",
             UpdateMemberBalance(EventOf[d].member, delta, annual, activity)
      PROVE  /\ BalanceNonNegative'
             /\ \A m \in Members : profile[m] # NoMember => profile'[m] # NoMember
  <2> DEFINE member == EventOf[d].member
  <2>1. member \in Members /\ profile[member] \in Profile
    BY <1>0, <1>1, DeltaIsStars, EventFields DEF Running, Request
  <2>2. /\ profile'[member] \in Profile
        /\ profile'[member].starBalance = profile[member].starBalance + delta
        /\ delta < 0 => profile[member].starBalance >= -delta
        /\ \A n \in Members \ {member} : profile'[n] = profile[n]
    BY <1>0, <1>1, <2>1, UpdatedProfile
  <2>3. profile'[member] # NoMember /\ profile[member] # NoMember
    BY <2>1, <2>2, NoMemberAssumption
  <2>4. profile[member].starBalance \in Int /\ profile[member].starBalance >= 0
    BY <1>0, <2>1, <2>3 DEF BalanceNonNegative, Profile
  <2>5. profile'[member].starBalance >= 0
    BY <2>2, <2>4
  <2> QED BY <1>0, <2>2, <2>3, <2>5 DEF BalanceNonNegative
<1>2. ASSUME NEW d \in Deliveries, PurchaseUpdateBalance(d) \/ RedemptionUpdateBalance(d),
             profile' # profile
      PROVE  /\ BalanceNonNegative'
             /\ \A m \in Members : profile[m] # NoMember => profile'[m] # NoMember
  <2>1. pc[d] = "update_member_balance"
    BY <1>2 DEF PurchaseUpdateBalance, RedemptionUpdateBalance
  <2>2. local[d].stars \in Int /\ local[d].now \in Day
    BY <1>0, <2>1, DeltaIsStars DEF Running, Request, TypeOK, Local
  <2>3. -local[d].stars \in Int /\ 0 \in Int
    BY <2>2
  <2>4. CASE PurchaseUpdateBalance(d)
    BY <1>1, <2>1, <2>2, <2>4 DEF PurchaseUpdateBalance
  <2>5. CASE RedemptionUpdateBalance(d)
    BY <1>1, <1>2, <2>1, <2>3, <2>5 DEF RedemptionUpdateBalance
  <2> QED BY <1>2, <2>4, <2>5
<1>6. ASSUME NEW d \in Deliveries, Resent(d)
      PROVE  /\ BalanceNonNegative'
             /\ \A m \in Members : profile[m] # NoMember => profile'[m] # NoMember
  <2>1. PICK delta \in Int, annual \in Int, activity \in Day \cup {NeverActive} :
          /\ pc[d] = "update_member_balance"
          /\ UpdateMemberBalance(EventOf[d].member, delta, annual, activity)
    BY <1>0, <1>6, ResentUpdate
  <2> QED BY <1>1, <2>1
<1>3. ASSUME profile' = profile
      PROVE  /\ BalanceNonNegative'
             /\ \A m \in Members : profile[m] # NoMember => profile'[m] # NoMember
  BY <1>0, <1>3 DEF BalanceNonNegative
<1>4. ASSUME NEW d \in Deliveries, DeliveryAction(d)
      PROVE  \/ PurchaseUpdateBalance(d) \/ RedemptionUpdateBalance(d) \/ Resent(d)
             \/ profile' = profile
  BY <1>4 DEF DeliveryAction, tableVars, Invoke, Respond, Crash, RequestFails, Discard,
       PurchaseCheck, RedemptionCheck, CheckIdempotency, PurchaseGetMember,
       RedemptionGetMember, PurchaseCreateLedgerEntry, PurchaseRecord, RedemptionRecord
<1>5. Propagate \/ PassDay \/ UNCHANGED vars => profile' = profile
  BY DEF Propagate, PropagateToIndex, PassDay, NextDay, vars, tableVars
<1> QED BY NextCases, <1>2, <1>3, <1>4, <1>5, <1>6

\* An action of one delivery leaves the others where they are.
LEMMA OthersUnchanged ==
  ASSUME TypeOK, NEW d \in Deliveries, NEW e \in Deliveries \ {d}, DeliveryAction(d)
  PROVE  /\ pc'[e] = pc[e] /\ attempt'[e] = attempt[e]
         /\ local'[e] = local[e] /\ answer'[e] = answer[e]
<1> USE DEF TypeOK, GoTo, Return
<1>1. CASE Invoke(d) \/ Respond(d) \/ Crash(d) \/ RequestFails(d) \/ Discard(d)
  BY <1>1 DEF Invoke, Respond, Crash, AfterCrash, RequestFails, Discard
<1>2. CASE PurchaseCheck(d) \/ RedemptionCheck(d)
  BY <1>2 DEF PurchaseCheck, RedemptionCheck, CheckIdempotency
<1>3. CASE PurchaseGetMember(d) \/ RedemptionGetMember(d)
  BY <1>3 DEF PurchaseGetMember, RedemptionGetMember
<1>4. CASE PurchaseUpdateBalance(d) \/ RedemptionUpdateBalance(d)
  BY <1>4 DEF PurchaseUpdateBalance, RedemptionUpdateBalance
<1>5. CASE PurchaseCreateLedgerEntry(d) \/ PurchaseRecord(d) \/ RedemptionRecord(d)
  BY <1>5 DEF PurchaseCreateLedgerEntry, PurchaseRecord, RedemptionRecord
<1>6. CASE Resent(d)
  BY <1>6 DEF Resent, PurchaseUpdateUnanswered, RedemptionUpdateUnanswered, UpdateUnanswered
<1> QED BY <1>1, <1>2, <1>3, <1>4, <1>5, <1>6 DEF DeliveryAction

\* What an action of a delivery adds to the table or to the orphans carries the
\* stamp of its current attempt, and nothing is removed.
LEMMA WritesOwnStamp ==
  ASSUME NEW d \in Deliveries, DeliveryAction(d)
  PROVE  /\ txns \subseteq txns' /\ \A x \in txns' \ txns : x.by = <<d, attempt[d]>>
         /\ ledger \subseteq ledger' /\ \A x \in ledger' \ ledger : x.by = <<d, attempt[d]>>
         /\ orphans \subseteq orphans' /\ \A x \in orphans' \ orphans : x.by = <<d, attempt[d]>>
<1> USE DEF tableVars
<1>1. CASE Crash(d) \/ RequestFails(d)
  <2>1. Effect(d).by = <<d, attempt[d]>>
    BY DEF Effect, EffectOfSending
  <2>2. orphans' = orphans \/ orphans' = orphans \cup {Effect(d)}
    BY <1>1 DEF Crash, RequestFails, Abandon
  <2>3. txns' = txns /\ ledger' = ledger
    BY <1>1 DEF Crash, RequestFails
  <2> QED BY <2>1, <2>2, <2>3
<1>2. CASE Invoke(d) \/ Respond(d) \/ Discard(d) \/ PurchaseCheck(d) \/ RedemptionCheck(d)
  BY <1>2 DEF Invoke, Respond, Discard, PurchaseCheck, RedemptionCheck, CheckIdempotency
<1>3. CASE PurchaseGetMember(d) \/ RedemptionGetMember(d)
  BY <1>3 DEF PurchaseGetMember, RedemptionGetMember
<1>4. CASE PurchaseUpdateBalance(d) \/ RedemptionUpdateBalance(d)
  BY <1>4 DEF PurchaseUpdateBalance, RedemptionUpdateBalance
<1>5. CASE PurchaseCreateLedgerEntry(d)
  BY <1>5 DEF PurchaseCreateLedgerEntry, CreateStarLedgerEntry
<1>6. CASE PurchaseRecord(d) \/ RedemptionRecord(d)
  BY <1>6 DEF PurchaseRecord, RedemptionRecord, RecordTransaction
<1>7. CASE Resent(d)
  <2>1. EffectOfSending(d, local[d].unanswered + 1).by = <<d, attempt[d]>>
    BY DEF EffectOfSending
  <2>2. /\ orphans' = orphans \cup {EffectOfSending(d, local[d].unanswered + 1)}
        /\ txns' = txns /\ ledger' = ledger
    BY <1>7 DEF Resent, PurchaseUpdateUnanswered, RedemptionUpdateUnanswered, UpdateUnanswered
  <2> QED BY <2>1, <2>2
<1> QED BY <1>1, <1>2, <1>3, <1>4, <1>5, <1>6, <1>7 DEF DeliveryAction

\* Every step keeps the progress of every delivery.
LEMMA ProgressStep ==
  ASSUME CoreInv, [Next]_vars, NEW e \in Deliveries
  PROVE  Progress(e)'
<1>0. /\ TypeOK /\ TypeOK' /\ \A d \in Deliveries : Progress(d)
      /\ \A m \in Members : profile[m] # NoMember => profile'[m] # NoMember
  BY TypeStep, BalanceStep DEF CoreInv
<1>1. ASSUME /\ pc'[e] = pc[e] /\ attempt'[e] = attempt[e] /\ local'[e] = local[e]
      PROVE  Progress(e)'
  BY <1>0, <1>1, EventFields DEF Progress, Delta
<1>2. ASSUME DeliveryAction(e) PROVE Progress(e)'
  <2>0. /\ pc \in [Deliveries -> Running \cup {"queued", "done", "dead letter"}]
        /\ attempt \in [Deliveries -> 0..MaxAttempts]
        /\ local \in [Deliveries -> Local]
        /\ Progress(e)
    BY <1>0 DEF TypeOK
  <2>. USE DEF GoTo, Return, Running, Request
  <2>1. CASE Invoke(e)
    <3>1. attempt[e] \in 0..MaxAttempts /\ MaxAttempts \in Nat
      BY <2>0, DeliveryAssumption
    <3>2. attempt'[e] = attempt[e] + 1 /\ pc'[e] = "check_transaction_exists"
      BY <2>0, <2>1 DEF Invoke
    <3>3. attempt'[e] > 0
      BY <3>1, <3>2
    <3> QED BY <3>2, <3>3 DEF Progress
  <2>2. CASE Respond(e) \/ RequestFails(e) \/ Discard(e)
    BY <2>0, <2>2 DEF Respond, RequestFails, Discard, Progress
  <2>3. CASE Crash(e)
    BY <2>0, <2>3 DEF Crash, AfterCrash, Progress
  <2>4. CASE \/ IsPurchase(e) /\ PurchaseCheck(e)
             \/ IsRedemption(e) /\ RedemptionCheck(e)
    BY <1>0, <2>0, <2>4, EventFields
       DEF PurchaseCheck, RedemptionCheck, CheckIdempotency, Progress
  <2>5. CASE IsPurchase(e) /\ PurchaseGetMember(e)
    <3>1. CASE pc'[e] = "done"
      BY <3>1 DEF Progress
    <3>2. CASE pc'[e] # "done"
      <4> DEFINE tier == profile[EventOf[e].member].tier
                 stars == CalculateStars(EventOf[e].cents, tier,
                            EventOf[e].doubleStarDay, EventOf[e].personalCup)
      <4> HIDE DEF stars
      <4>0. /\ pc'[e] = "update_member_balance" /\ attempt'[e] = attempt[e]
            /\ pc[e] = "get_member" /\ profile' = profile
            /\ profile[EventOf[e].member] # NoMember
            /\ local'[e] = [tier |-> tier, stars |-> stars, now |-> today,
                            unanswered |-> 0]
        BY <2>0, <2>5, <3>2 DEF PurchaseGetMember, GetMember, tableVars, stars
      <4>1. local'[e].stars = CalculateStars(EventOf[e].cents, local'[e].tier,
                               EventOf[e].doubleStarDay, EventOf[e].personalCup)
        BY <4>0 DEF stars
      <4>2. Delta(e)' = local'[e].stars
        BY <2>5 DEF Delta, IsPurchase
      <4>3. attempt[e] > 0 /\ ValidPurchase(EventOf[e])
        BY <2>0, <2>5, <4>0 DEF Progress
      <4> QED BY <2>5, <4>0, <4>1, <4>2, <4>3 DEF Progress
    <3> QED BY <3>1, <3>2
  <2>6. CASE IsRedemption(e) /\ RedemptionGetMember(e)
    <3>1. CASE pc'[e] = "done"
      BY <3>1 DEF Progress
    <3>2. CASE pc'[e] # "done"
      <4>0. /\ pc'[e] = "update_member_balance" /\ attempt'[e] = attempt[e]
            /\ pc[e] = "get_member" /\ profile' = profile
            /\ profile[EventOf[e].member] # NoMember
            /\ local'[e] = [tier |-> profile[EventOf[e].member].tier,
                            stars |-> EventOf[e].starsToRedeem, now |-> today,
                            unanswered |-> 0]
        BY <2>0, <2>6, <3>2 DEF RedemptionGetMember, GetMember, tableVars
      <4>1. local'[e].stars = EventOf[e].starsToRedeem
        BY <4>0
      <4>2. ~IsPurchase(e) /\ Delta(e)' = -local'[e].stars
        BY <2>6, EventFields DEF Delta, IsPurchase
      <4>3. attempt[e] > 0 /\ ValidRedemption(EventOf[e])
        BY <2>0, <4>0, <4>2 DEF Progress
      <4> QED BY <4>0, <4>1, <4>2, <4>3 DEF Progress
    <3> QED BY <3>1, <3>2
  <2>7. CASE \/ IsPurchase(e) /\ PurchaseUpdateBalance(e)
             \/ IsRedemption(e) /\ RedemptionUpdateBalance(e)
    BY <1>0, <2>0, <2>7, EventFields
       DEF PurchaseUpdateBalance, RedemptionUpdateBalance, Progress, Delta
  <2>8. CASE \/ PurchaseCreateLedgerEntry(e)
             \/ PurchaseRecord(e) \/ RedemptionRecord(e)
    BY <1>0, <2>0, <2>8, EventFields
       DEF PurchaseCreateLedgerEntry, PurchaseRecord, RedemptionRecord, Progress, Delta
  <2>9. CASE Resent(e)
    <3>1. /\ pc' = pc /\ attempt' = attempt /\ pc[e] = "update_member_balance"
          /\ local'[e].tier = local[e].tier /\ Delta(e)' = Delta(e)
      BY <1>0, <2>9, ResentUpdate
    <3> QED BY <1>0, <2>0, <3>1, EventFields DEF Progress
  <2> QED BY <1>2, <2>1, <2>2, <2>3, <2>4, <2>5, <2>6, <2>7, <2>8, <2>9
          DEF DeliveryAction
<1>3. ASSUME NEW d \in Deliveries, DeliveryAction(d) PROVE Progress(e)'
  <2>1. CASE d = e
    BY <1>2, <1>3, <2>1
  <2>2. CASE d # e
    BY <1>0, <1>1, <1>3, <2>2, OthersUnchanged
  <2> QED BY <2>1, <2>2
<1>4. ASSUME Propagate \/ PassDay \/ UNCHANGED vars PROVE Progress(e)'
  BY <1>1, <1>4 DEF Propagate, PassDay, vars, deliveryVars
<1> QED BY NextCases, <1>3, <1>4

\* A delivery that does not move, while what is added to the table carries the
\* stamps of others, keeps its stamps and its answer in order.
LEMMA StampedFrame ==
  ASSUME NEW e \in Deliveries, Stamped(e),
         pc'[e] = pc[e], attempt'[e] = attempt[e], answer'[e] = answer[e],
         local'[e] = local[e],
         txns \subseteq txns', ledger \subseteq ledger', orphans \subseteq orphans',
         \A x \in (txns' \ txns) \cup (ledger' \ ledger) \cup (orphans' \ orphans) :
           \A n : x.by # <<e, n>>,
         \A x \in (txns' \ txns) \cup (ledger' \ ledger) \cup (orphans' \ orphans) :
           x.by[1] # e
  PROVE  Stamped(e)'
  BY DEF Stamped

\* Every step keeps the stamps of every delivery.
LEMMA StampedStep ==
  ASSUME IndInv, [Next]_vars, NEW e \in Deliveries
  PROVE  Stamped(e)'
<1>0. /\ TypeOK /\ \A d \in Deliveries : Progress(d) /\ Stamped(d)
      /\ attempt[e] \in 0..MaxAttempts /\ MaxAttempts \in Nat
  BY DeliveryAssumption DEF IndInv, TypeOK
<1>1. ASSUME NEW d \in Deliveries, d # e, DeliveryAction(d) PROVE Stamped(e)'
  BY <1>0, <1>1, OthersUnchanged, WritesOwnStamp, StampedFrame
<1>2. ASSUME DeliveryAction(e) PROVE Stamped(e)'
  <2>0. /\ pc \in [Deliveries -> Running \cup {"queued", "done", "dead letter"}]
        /\ attempt \in [Deliveries -> 0..MaxAttempts]
        /\ answer \in [Deliveries -> Answer \cup {NoAnswer}]
        /\ Stamped(e)
    BY <1>0 DEF TypeOK
  <2>. USE DEF GoTo, Return, Running, Request, NoAnswer, tableVars
  <2>a. pc[e] \in Running => attempt[e] \in 1..attempt[e]
    BY <1>0 DEF Progress
  <2>b. pc[e] \in Running /\ attempt'[e] = attempt[e] =>
          \A x \in txns' \cup ledger' \cup orphans' :
            x.by[1] = e => x.by[2] \in 1..attempt'[e]
    <3>1. \A x \in txns \cup ledger \cup orphans :
            x.by[1] = e => x.by[2] \in 1..attempt[e]
      BY <2>0 DEF Stamped
    <3>2. \A x \in txns' \cup ledger' \cup orphans' :
            x \in txns \cup ledger \cup orphans \/ x.by = <<e, attempt[e]>>
      BY <1>2, WritesOwnStamp
    <3> QED BY <2>a, <3>1, <3>2
  <2>c. pc[e] \in Running =>
          \A o \in orphans : o.by = <<e, attempt[e]>> => o.sending \in 1..local[e].unanswered
    BY <2>0 DEF Stamped
  <2>1. CASE Invoke(e)
    <3>1. /\ attempt'[e] = attempt[e] + 1 /\ pc[e] = "queued"
          /\ pc'[e] = "check_transaction_exists" /\ answer' = answer
          /\ txns' = txns /\ ledger' = ledger /\ orphans' = orphans
      BY <2>0, <2>1 DEF Invoke
    <3>2. attempt[e] < attempt'[e]
      BY <1>0, <3>1
    <3>3. \A x \in txns \cup ledger \cup orphans :
            x.by[1] = e => x.by[2] \in 1..attempt[e]
      BY <2>0 DEF Stamped
    <3>4. \A x \in txns \cup ledger \cup orphans : x.by # <<e, attempt'[e]>>
      BY <1>0, <3>2, <3>3
    <3>5. \A x \in txns \cup ledger \cup orphans :
            x.by[1] = e => x.by[2] \in 1..attempt'[e]
      BY <1>0, <3>1, <3>3
    <3> QED BY <2>0, <3>1, <3>4, <3>5 DEF Stamped
  <2>2. CASE Respond(e)
    BY <2>0, <2>2 DEF Respond, Stamped
  <2>3. CASE Crash(e) \/ RequestFails(e)
    <3>1. /\ pc[e] \in Running /\ attempt'[e] = attempt[e]
          /\ pc'[e] \in {"queued", "dead letter", "done"}
          /\ answer'[e] # NoAnswer <=> pc'[e] = "done"
      <4>1. CASE Crash(e)
        BY <2>0, <4>1 DEF Crash, AfterCrash, Stamped
      <4>2. CASE RequestFails(e)
        BY <2>0, <4>2 DEF RequestFails
      <4> QED BY <2>3, <4>1, <4>2
    <3> QED BY <2>b, <3>1 DEF Stamped
  <2>4. CASE Discard(e)
    BY <2>0, <2>4 DEF Discard, Stamped
  <2>5. CASE PurchaseCheck(e) \/ RedemptionCheck(e)
    BY <2>0, <2>5 DEF PurchaseCheck, RedemptionCheck, CheckIdempotency, Stamped
  <2>6. CASE PurchaseGetMember(e) \/ RedemptionGetMember(e)
    BY <2>0, <2>6 DEF PurchaseGetMember, RedemptionGetMember, Stamped
  <2>7. CASE PurchaseUpdateBalance(e) \/ RedemptionUpdateBalance(e)
    BY <2>0, <2>7 DEF PurchaseUpdateBalance, RedemptionUpdateBalance, Stamped
  <2>8. CASE PurchaseCreateLedgerEntry(e)
    <3>1. /\ pc[e] = "create_star_ledger_entry" /\ pc'[e] = "record_transaction"
          /\ attempt'[e] = attempt[e] /\ answer' = answer
          /\ txns' = txns /\ orphans' = orphans /\ local' = local
      BY <2>0, <2>8 DEF PurchaseCreateLedgerEntry
    <3>2. \A x \in txns : x.by # <<e, attempt[e]>>
      BY <2>0, <3>1 DEF Stamped
    <3>3. answer[e] = NoAnswer
      BY <2>0, <3>1 DEF Stamped
    <3> QED BY <2>b, <2>c, <3>1, <3>2, <3>3 DEF Stamped
  <2>9. CASE PurchaseRecord(e) \/ RedemptionRecord(e)
    <3>1. /\ pc[e] = "record_transaction" /\ pc'[e] = "return"
          /\ attempt'[e] = attempt[e] /\ answer' = answer /\ orphans' = orphans
          /\ local' = local
          /\ \E type \in TransactionType : txns' = txns \cup
                {[id |-> EventOf[e].id, member |-> EventOf[e].member, type |-> type,
                  stars |-> local[e].stars, day |-> local[e].now,
                  by |-> <<e, attempt[e]>>]}
      BY <2>0, <2>9
         DEF PurchaseRecord, RedemptionRecord, RecordTransaction, TransactionType
    <3>4. \E t \in txns' : t.id = EventOf[e].id /\ t.by = <<e, attempt[e]>>
      <4>1. PICK type \in TransactionType : txns' = txns \cup
                {[id |-> EventOf[e].id, member |-> EventOf[e].member, type |-> type,
                  stars |-> local[e].stars, day |-> local[e].now,
                  by |-> <<e, attempt[e]>>]}
        BY <3>1
      <4> DEFINE t == [id |-> EventOf[e].id, member |-> EventOf[e].member,
                       type |-> type, stars |-> local[e].stars,
                       day |-> local[e].now, by |-> <<e, attempt[e]>>]
      <4>2. t \in txns' /\ t.id = EventOf[e].id /\ t.by = <<e, attempt[e]>>
        BY <4>1
      <4> QED BY <4>2
    <3>3. answer[e] = NoAnswer
      BY <2>0, <3>1 DEF Stamped
    <3> QED BY <2>b, <2>c, <3>1, <3>3, <3>4 DEF Stamped
  <2>10. CASE Resent(e)
    <3>1. /\ UNCHANGED <<ledger, txns, pc, attempt, answer>>
          /\ pc[e] = "update_member_balance" /\ local[e].unanswered \in Nat
          /\ local'[e].unanswered = local[e].unanswered + 1
          /\ orphans' = orphans \cup {EffectOfSending(e, local[e].unanswered + 1)}
      BY <1>0, <2>10, ResentUpdate
    <3>2. \A n \in Nat : n + 1 \in 1..n + 1 /\ \A k \in 1..n : k \in 1..n + 1
      OBVIOUS
    <3>3. EffectOfSending(e, local[e].unanswered + 1).sending = local[e].unanswered + 1
      BY DEF EffectOfSending
    <3>4. \A o \in orphans' :
            o.by = <<e, attempt[e]>> => o.sending \in 1..local'[e].unanswered
      BY <2>c, <3>1, <3>2, <3>3
    <3> QED BY <2>0, <2>b, <3>1, <3>4 DEF Stamped
  <2> QED BY <1>2, <2>1, <2>2, <2>3, <2>4, <2>5, <2>6, <2>7, <2>8, <2>9, <2>10
          DEF DeliveryAction
<1>3. ASSUME Propagate \/ PassDay \/ UNCHANGED vars PROVE Stamped(e)'
  BY <1>0, <1>3 DEF Propagate, PropagateToIndex, PassDay, NextDay, vars,
                    deliveryVars, tableVars, Stamped
<1> QED BY NextCases, <1>1, <1>2, <1>3

\* Every step keeps that answers match the table.
LEMMA AnswersStep ==
  ASSUME IndInv, [Next]_vars
  PROVE  AnswersMatchTable'
<1> DEFINE Own(S, e) == {x \in S : x.by = <<e, attempt[e]>>}
           Of(S, e) == {x \in S : x.id = EventOf[e].id}
           All == txns \cup ledger \cup orphans
           Bare(e) == {o \in Own(orphans, e) : o.sending = 0}
           Agrees(e) ==
             /\ answer[e] = "processed" => Of(Own(txns, e), e) # {} /\ Bare(e) = {}
             /\ answer[e] = "already processed" =>
                  Of(txns, e) # {} /\ Own(All, e) = {}
             /\ answer[e] \in {"invalid", "member not found"} => Own(All, e) = {}
             /\ answer[e] = "insufficient stars" =>
                  Own(txns \cup ledger, e) \cup Bare(e) = {}
             /\ answer[e] = "internal error" =>
                  /\ Own(txns, e) = {} \/ Bare(e) = {}
                  /\ Own(ledger, e) # {} => Own(txns, e) \cup Bare(e) # {}
<1>a. AnswersMatchTable <=> \A e \in Deliveries : Agrees(e)
  BY DEF AnswersMatchTable
<1>b. AnswersMatchTable' <=> \A e \in Deliveries : Agrees(e)'
  BY DEF AnswersMatchTable
<1> SUFFICES ASSUME NEW e \in Deliveries PROVE Agrees(e)'
  BY <1>b
<1>0. /\ TypeOK /\ Stamped(e) /\ Stamped(e)' /\ Agrees(e)
  BY <1>a, StampedStep DEF IndInv
<1>1. ASSUME attempt'[e] = attempt[e], answer'[e] = answer[e],
             txns \subseteq txns', ledger \subseteq ledger', orphans \subseteq orphans',
             \A x \in (txns' \ txns) \cup (ledger' \ ledger) \cup (orphans' \ orphans) :
               x.by # <<e, attempt[e]>>
      PROVE  Agrees(e)'
  <2>1. /\ Own(txns, e)' = Own(txns, e) /\ Own(ledger, e)' = Own(ledger, e)
        /\ Own(orphans, e)' = Own(orphans, e) /\ Own(All, e)' = Own(All, e)
        /\ Own(txns \cup ledger, e)' = Own(txns \cup ledger, e)
        /\ Of(txns, e) # {} => Of(txns, e)' # {}
    BY <1>1
  <2>2. Bare(e)' = Bare(e) /\ Of(Own(txns, e), e)' = Of(Own(txns, e), e)
    BY <2>1
  <2> HIDE DEF Own, Of, All, Bare
  <2> QED BY <1>0, <1>1, <2>1, <2>2
<1>2. ASSUME NEW d \in Deliveries, d # e, DeliveryAction(d) PROVE Agrees(e)'
  <2>1. attempt'[e] = attempt[e] /\ answer'[e] = answer[e]
    BY <1>0, <1>2, OthersUnchanged
  <2>2. /\ txns \subseteq txns' /\ ledger \subseteq ledger' /\ orphans \subseteq orphans'
        /\ \A x \in (txns' \ txns) \cup (ledger' \ ledger) \cup (orphans' \ orphans) :
             x.by = <<d, attempt[d]>>
    BY <1>2, WritesOwnStamp
  <2>3. <<d, attempt[d]>> # <<e, attempt[e]>>
    BY <1>2
  <2> HIDE DEF Agrees
  <2> QED BY <1>1, <2>1, <2>2, <2>3
<1>3. ASSUME answer'[e] = NoAnswer PROVE Agrees(e)'
  BY <1>3 DEF NoAnswer
<1>4. ASSUME DeliveryAction(e) PROVE Agrees(e)'
  <2>0. /\ pc \in [Deliveries -> Running \cup {"queued", "done", "dead letter"}]
        /\ answer \in [Deliveries -> Answer \cup {NoAnswer}]
        /\ byTxnId \subseteq txns
    BY <1>0 DEF TypeOK
  <2>. USE DEF GoTo, Return, Request, tableVars
  <2>1. CASE pc[e] \in Running \cup {"queued"} /\ answer' = answer
    BY <1>0, <1>3, <2>1 DEF Stamped, Running
  <2>a. pc[e] \in Running => Bare(e) = {}
    <3>1. pc[e] \in Running =>
            \A o \in Own(orphans, e) : o.sending \in 1..local[e].unanswered
      BY <1>0 DEF Stamped
    <3>2. \A n : 0 \notin 1..n
      OBVIOUS
    <3> QED BY <3>1, <3>2
  <2>2. CASE Respond(e)
    <3>1. /\ pc[e] = "return" /\ answer'[e] = "processed" /\ orphans' = orphans
          /\ attempt' = attempt /\ txns' = txns
      BY <2>0, <2>2 DEF Respond
    <3>2. Of(Own(txns, e), e)' # {} /\ Bare(e)' = {}
      BY <1>0, <2>a, <3>1 DEF Stamped, Running
    <3> QED BY <3>1, <3>2
  <2>3. CASE RequestFails(e)
    <3>1. /\ pc[e] \in Running /\ answer'[e] = "internal error"
          /\ attempt' = attempt /\ txns' = txns /\ ledger' = ledger
          /\ orphans' = IF Unrecorded(e) THEN orphans \cup {Effect(e)} ELSE orphans
      BY <2>0, <2>3 DEF RequestFails, Abandon
    <3>2. CASE pc[e] \in {"check_transaction_exists", "get_member", "update_member_balance"}
      <4>1. Own(txns, e)' = {} /\ Own(ledger, e)' = {}
        BY <1>0, <3>1, <3>2 DEF Stamped
      <4> QED BY <3>1, <4>1
    <3>3. CASE Unrecorded(e)
      <4>1. Own(txns, e)' = {}
        BY <1>0, <3>1, <3>3 DEF Stamped, Unrecorded
      <4>2. Effect(e).by = <<e, attempt[e]>> /\ Effect(e).sending = 0
        BY DEF Effect, EffectOfSending
      <4>3. Bare(e)' # {}
        BY <3>1, <3>3, <4>2
      <4> QED BY <3>1, <4>1, <4>3
    <3>4. CASE pc[e] = "return"
      <4>1. Own(txns, e)' # {} /\ Bare(e)' = {}
        BY <1>0, <2>a, <3>1, <3>4 DEF Stamped, Running, Unrecorded
      <4> QED BY <3>1, <4>1
    <3> QED BY <3>1, <3>2, <3>3, <3>4 DEF Running, Unrecorded
  <2>4. ASSUME pc[e] \in {"check_transaction_exists", "get_member"},
               /\ attempt' = attempt /\ txns' = txns /\ ledger' = ledger
               /\ orphans' = orphans,
               \/ answer'[e] \in {"invalid", "member not found", "insufficient stars",
                                 "internal error"}
               \/ /\ answer'[e] = "already processed"
                  /\ \E t \in txns : t.id = EventOf[e].id
        PROVE  Agrees(e)'
    <3>1. /\ Own(txns, e)' = {} /\ Own(ledger, e)' = {} /\ Own(All, e)' = {}
          /\ Own(txns \cup ledger, e)' = {} /\ Bare(e)' = {}
      BY <1>0, <2>4 DEF Stamped
    <3>2. answer'[e] = "already processed" => Of(txns, e)' # {}
      BY <2>4
    <3>3. answer'[e] # "processed"
      BY <2>4
    <3> HIDE DEF Own, Of, All, Bare
    <3> QED BY <3>1, <3>2, <3>3
  <2>5. CASE PurchaseCheck(e) \/ RedemptionCheck(e)
    <3>1. CASE answer' = answer
      BY <2>1, <2>5, <3>1 DEF PurchaseCheck, RedemptionCheck, CheckIdempotency, Running
    <3>2. CASE answer' # answer
      <4>1. /\ pc[e] = "check_transaction_exists" /\ attempt' = attempt
            /\ txns' = txns /\ ledger' = ledger /\ orphans' = orphans
        BY <2>5 DEF PurchaseCheck, RedemptionCheck, CheckIdempotency
      <4>2. \/ answer'[e] \in {"invalid", "internal error"}
            \/ /\ answer'[e] = "already processed"
               /\ \E t \in txns : t.id = EventOf[e].id
        BY <2>0, <2>5, <3>2
           DEF PurchaseCheck, RedemptionCheck, CheckIdempotency, CheckTransactionExists
      <4> QED BY <2>4, <4>1, <4>2
    <3> QED BY <3>1, <3>2
  <2>6. CASE PurchaseGetMember(e) \/ RedemptionGetMember(e)
    <3>1. CASE answer' = answer
      BY <2>1, <2>6, <3>1 DEF PurchaseGetMember, RedemptionGetMember, Running
    <3>2. CASE answer' # answer
      BY <2>0, <2>4, <2>6, <3>2 DEF PurchaseGetMember, RedemptionGetMember
    <3> QED BY <3>1, <3>2
  <2>7. CASE RedemptionUpdateBalance(e)
    <3>1. CASE answer' = answer
      BY <2>1, <2>7, <3>1 DEF RedemptionUpdateBalance, Running
    <3>2. CASE answer' # answer
      <4>1. /\ pc[e] = "update_member_balance" /\ answer'[e] = "insufficient stars"
            /\ UNCHANGED <<txns, ledger, orphans, attempt>>
        BY <2>0, <2>7, <3>2 DEF RedemptionUpdateBalance
      <4>2. Own(txns \cup ledger, e)' = {} /\ Bare(e)' = {}
        BY <1>0, <2>a, <4>1 DEF Stamped, Running
      <4> QED BY <4>1, <4>2
    <3> QED BY <3>1, <3>2
  <2>8. CASE \/ Resent(e)
             \/ Invoke(e) \/ Crash(e) \/ Discard(e) \/ PurchaseUpdateBalance(e)
             \/ PurchaseCreateLedgerEntry(e) \/ PurchaseRecord(e) \/ RedemptionRecord(e)
    <3>1. answer' = answer /\ pc[e] \in Running \cup {"queued"}
      BY <2>8 DEF Invoke, Crash, Discard, PurchaseUpdateBalance,
          PurchaseCreateLedgerEntry, PurchaseRecord, RedemptionRecord, Running, Resent,
          PurchaseUpdateUnanswered, RedemptionUpdateUnanswered, UpdateUnanswered
    <3> QED BY <2>1, <3>1
  <2> QED BY <1>4, <2>2, <2>3, <2>5, <2>6, <2>7, <2>8 DEF DeliveryAction
<1>5. ASSUME Propagate \/ PassDay \/ UNCHANGED vars PROVE Agrees(e)'
  BY <1>0, <1>1, <1>5 DEF Propagate, PropagateToIndex, PassDay, NextDay, vars,
                    deliveryVars, tableVars
<1> QED BY NextCases, <1>2, <1>4, <1>5

-----------------------------------------------------------------------------
\* The inductive invariant holds in every reachable state.
LEMMA IndInvHolds == Spec => []IndInv
<1>1. IndInv /\ [Next]_vars => IndInv'
  BY CoreOfIndInv, TypeStep, BalanceStep, ProgressStep, StampedStep, AnswersStep DEF IndInv
<1> QED BY InitIndInv, <1>1, PTL DEF Spec

\* Every variable of the core keeps its type, for any members, events,
\* deliveries and number of attempts.
THEOREM TypeCorrect == Spec => []TypeOK
<1>1. IndInv => TypeOK
  BY DEF IndInv
<1> QED BY IndInvHolds, <1>1, PTL

\* No interleaving of any number of purchases and redemptions, retried and
\* delivered again any number of times, makes a star balance negative.
THEOREM NoOverdraft == Spec => []BalanceNonNegative
<1>1. IndInv => BalanceNonNegative
  BY DEF IndInv
<1> QED BY IndInvHolds, <1>1, PTL

\* What a handler answers agrees with the table, whatever the faults: attempts that
\* break off, requests that fail, updates applied without a response.
THEOREM AnswersAgree == Spec => []AnswersMatchTable
<1>1. IndInv => AnswersMatchTable
  BY DEF IndInv
<1> QED BY IndInvHolds, <1>1, PTL

-----------------------------------------------------------------------------
\* The variables of AuditedAccounts as StarAccounts sees them.
Balance == [m \in Members |-> StarsOf(profile[m])]

\* The step of the abstract accounts that a balance update maps to, with its
\* variables as StarAccounts sees them.
LEMMA AuditApply ==
  ASSUME NEW e
  PROVE  Audit!Apply(e) <=>
           /\ e \notin InFlight \cup Recorded \cup orphans
           /\ Balance[e.member] + e.stars >= 0
           /\ Balance' = [Balance EXCEPT ![e.member] = @ + e.stars]
           /\ InFlight' = InFlight \cup {e}
           /\ Recorded' = Recorded
           /\ orphans' = orphans
  BY DEF Audit!Apply, Balance

\* The same for an update that nobody hears of.
LEMMA AuditApplyUnnoticed ==
  ASSUME NEW e
  PROVE  Audit!ApplyUnnoticed(e) <=>
           /\ e \notin InFlight \cup Recorded \cup orphans
           /\ Balance[e.member] + e.stars >= 0
           /\ Balance' = [Balance EXCEPT ![e.member] = @ + e.stars]
           /\ orphans' = orphans \cup {e}
           /\ InFlight' = InFlight
           /\ Recorded' = Recorded
  BY DEF Audit!ApplyUnnoticed, Balance

\* Only the effect of the delivery that moves can enter or leave the effects
\* in flight.
LEMMA InFlightChange ==
  ASSUME TypeOK, NEW d \in Deliveries, DeliveryAction(d)
  PROVE  /\ ~Unrecorded(d) /\ ~Unrecorded(d)' => InFlight' = InFlight
         /\ ~Unrecorded(d) /\ Unrecorded(d)' => InFlight' = InFlight \cup {Effect(d)'}
         /\ Unrecorded(d) /\ ~Unrecorded(d)' => InFlight' = InFlight \ {Effect(d)}
         /\ Unrecorded(d) /\ Unrecorded(d)' /\ Effect(d)' = Effect(d) => InFlight' = InFlight
<1>1. \A e \in Deliveries \ {d} : (Unrecorded(e)' <=> Unrecorded(e)) /\ Effect(e)' = Effect(e)
  BY OthersUnchanged DEF Unrecorded, Effect, EffectOfSending, Delta
<1>2. \A e \in Deliveries \ {d} : Effect(e) # Effect(d)
  <2>1. \A e \in Deliveries : Effect(e).by = <<e, attempt[e]>>
    BY DEF Effect, EffectOfSending
  <2> QED BY <2>1
<1>3. \A x : x \in InFlight <=> \E e \in Deliveries : Unrecorded(e) /\ x = Effect(e)
  BY DEF InFlight
<1>4. \A x : x \in InFlight' <=> \E e \in Deliveries : Unrecorded(e)' /\ x = Effect(e)'
  BY DEF InFlight
<1>5. \A x : (\E e \in Deliveries \ {d} : Unrecorded(e)' /\ x = Effect(e)')
               <=> (\E e \in Deliveries \ {d} : Unrecorded(e) /\ x = Effect(e))
  BY <1>1
<1>6. CASE ~Unrecorded(d) /\ ~Unrecorded(d)'
  <2>1. \A x : x \in InFlight' <=> x \in InFlight
    BY <1>3, <1>4, <1>5, <1>6
  <2> QED BY <1>6, <2>1
<1>7. CASE ~Unrecorded(d) /\ Unrecorded(d)'
  <2>1. \A x : x \in InFlight' <=> x \in InFlight \cup {Effect(d)'}
    BY <1>3, <1>4, <1>5, <1>7
  <2> QED BY <1>7, <2>1
<1>8. CASE Unrecorded(d) /\ ~Unrecorded(d)'
  <2>1. \A x : x \in InFlight' <=> x \in InFlight \ {Effect(d)}
    BY <1>2, <1>3, <1>4, <1>5, <1>8
  <2> QED BY <1>8, <2>1
<1>9. CASE Unrecorded(d) /\ Unrecorded(d)'
  <2>1. Effect(d)' = Effect(d) => \A x : x \in InFlight' <=> x \in InFlight
    BY <1>3, <1>4, <1>5, <1>9
  <2> QED BY <1>9, <2>1
<1> QED BY <1>6, <1>7, <1>8, <1>9

\* Initial states map to initial states.
LEMMA InitRefines == Init => Audit!Init
<1> SUFFICES ASSUME Init PROVE Audit!Init
  OBVIOUS
<1>1. profile = Opening /\ txns = {} /\ orphans = {}
      /\ pc = [d \in Deliveries |-> "queued"]
  BY DEF Init, TableInit, DeliveryInit
<1>2. \A d \in Deliveries : ~Unrecorded(d)
  BY <1>1 DEF Unrecorded
<1>3. InFlight = {} /\ Recorded = {}
  BY <1>1, <1>2 DEF InFlight, Recorded
<1> QED BY <1>1, <1>3 DEF Audit!Init

\* An action that neither changes a balance nor settles an effect is a stutter.
LEMMA StutterRefines ==
  ASSUME profile' = profile, txns' = txns, orphans' = orphans, InFlight' = InFlight
  PROVE  UNCHANGED Audit!vars
  BY DEF Audit!vars, Recorded, StarsOf

\* While an attempt runs towards its record, nothing of it is on record, and its
\* orphans are the sendings it counted as unanswered.
LEMMA EffectIsNew ==
  ASSUME IndInv, NEW d \in Deliveries, pc[d] \in Running, pc[d] # "return"
  PROVE  \A e \in Recorded \cup orphans :
           e.by = <<d, attempt[d]>> => e.sending \in 1..local[d].unanswered
<1>1. /\ \A x \in txns : x.by # <<d, attempt[d]>>
      /\ \A x \in orphans :
           x.by = <<d, attempt[d]>> => x.sending \in 1..local[d].unanswered
  BY DEF IndInv, Stamped, Running, Request
<1>2. \A e \in Recorded : \E t \in txns : e.by = t.by
  BY DEF Recorded, RecordedEffect
<1> QED BY <1>1, <1>2

\* The member whose balance an attempt updates has enough stars and ends with the
\* difference.
LEMMA UpdateMovesBalance ==
  ASSUME CoreInv, NEW d \in Deliveries, pc[d] = "update_member_balance",
         NEW annual \in Int, NEW activity \in Day \cup {NeverActive},
         UpdateMemberBalance(EventOf[d].member, Delta(d), annual, activity)
  PROVE  /\ Balance[EventOf[d].member] + Delta(d) >= 0
         /\ Balance' = [Balance EXCEPT ![EventOf[d].member] = @ + Delta(d)]
<1> DEFINE m == EventOf[d].member
<1>0. TypeOK /\ Progress(d) /\ BalanceNonNegative /\ m \in Members
  BY EventFields DEF CoreInv
<1>1. local[d].stars \in Int /\ profile[m] \in Profile
  BY <1>0, DeltaIsStars DEF Running, Request
<1>2. Delta(d) \in Int
  BY <1>1 DEF Delta
<1>3. /\ profile' \in [Members -> Profile \cup {NoMember}]
      /\ profile'[m] \in Profile
      /\ profile'[m].starBalance = profile[m].starBalance + Delta(d)
      /\ Delta(d) < 0 => profile[m].starBalance >= -Delta(d)
      /\ \A n \in Members \ {m} : profile'[n] = profile[n]
  BY <1>0, <1>1, <1>2, UpdatedProfile
<1>4. profile[m] # NoMember /\ profile'[m] # NoMember
  BY <1>1, <1>3, NoMemberAssumption
<1>5. profile[m].starBalance \in Int /\ profile[m].starBalance >= 0
  BY <1>0, <1>1, <1>4 DEF Profile, BalanceNonNegative
<1>6. profile[m].starBalance + Delta(d) >= 0
  BY <1>2, <1>3, <1>5
<1>7. Balance[m] + Delta(d) >= 0
  BY <1>0, <1>4, <1>6 DEF Balance, StarsOf
<1>8. Balance' = [Balance EXCEPT ![m] = @ + Delta(d)]
  BY <1>0, <1>3, <1>4 DEF Balance, StarsOf
<1> QED BY <1>7, <1>8

\* A balance update maps to Apply.
LEMMA UpdateRefines ==
  ASSUME IndInv, NEW d \in Deliveries,
         \/ IsPurchase(d) /\ PurchaseUpdateBalance(d)
         \/ IsRedemption(d) /\ RedemptionUpdateBalance(d) /\ pc'[d] # "done"
  PROVE  \E e \in PossibleEffects : Audit!Apply(e)
<1> DEFINE m == EventOf[d].member
<1>0. /\ TypeOK /\ Progress(d) /\ BalanceNonNegative /\ pc[d] = "update_member_balance"
      /\ m \in Members
  BY EventFields DEF IndInv, PurchaseUpdateBalance, RedemptionUpdateBalance
<1>1. /\ local[d].stars \in Int /\ -local[d].stars \in Int /\ 0 \in Int
      /\ local[d].stars >= 0 /\ local[d].now \in Day
      /\ Effect(d) \in PossibleEffects
      /\ profile[m] \in Profile
  <2>1. pc[d] \in Running \ {"check_transaction_exists", "get_member"}
    BY <1>0 DEF Running, Request
  <2>2. /\ local[d].stars \in Int /\ local[d].stars >= 0
        /\ profile[m] \in Profile /\ Effect(d) \in PossibleEffects
    BY <1>0, <2>1, DeltaIsStars
  <2>3. local[d].now \in Day
    BY <1>0 DEF TypeOK, Local
  <2> QED BY <2>2, <2>3
<1>2. /\ DeliveryAction(d) /\ ~Unrecorded(d) /\ Unrecorded(d)'
      /\ Effect(d)' = Effect(d)
      /\ txns' = txns /\ orphans' = orphans
  BY <1>0 DEF DeliveryAction, PurchaseUpdateBalance, RedemptionUpdateBalance,
      Unrecorded, Effect, EffectOfSending, Delta, GoTo, TypeOK, Return
<1>3. \E annual \in Int, activity \in Day \cup {NeverActive} :
        UpdateMemberBalance(m, Delta(d), annual, activity)
  <2>1. CASE IsPurchase(d) /\ PurchaseUpdateBalance(d)
    BY <1>1, <2>1 DEF PurchaseUpdateBalance, Delta, IsPurchase
  <2>2. CASE IsRedemption(d) /\ RedemptionUpdateBalance(d) /\ pc'[d] # "done"
    BY <1>0, <1>1, <2>2
       DEF RedemptionUpdateBalance, Delta, IsRedemption, Return, TypeOK
  <2> QED BY <2>1, <2>2
<1>9. /\ Effect(d).member = m /\ Effect(d).stars = Delta(d)
      /\ Effect(d).by = <<d, attempt[d]>> /\ Effect(d).sending = 0
  BY DEF Effect, EffectOfSending
<1>10. /\ Balance[m] + Delta(d) >= 0
       /\ Balance' = [Balance EXCEPT ![m] = @ + Delta(d)]
  BY <1>0, <1>3, CoreOfIndInv, UpdateMovesBalance
<1>12. Effect(d) \notin InFlight \cup Recorded \cup orphans
  <2>1. Effect(d) \notin Recorded \cup orphans
    <3>1. \A n : 0 \notin 1..n
      OBVIOUS
    <3> QED BY <1>0, <1>9, <3>1, EffectIsNew DEF Running, Request
  <2>2. Effect(d) \notin InFlight
    <3>1. \A e \in Deliveries : Effect(e).by = <<e, attempt[e]>>
      BY DEF Effect, EffectOfSending
    <3> QED BY <1>2, <3>1 DEF InFlight
  <2> QED BY <2>1, <2>2
<1>13. InFlight' = InFlight \cup {Effect(d)}
  BY <1>0, <1>2, InFlightChange
<1>14. Recorded' = Recorded
  BY <1>2 DEF Recorded
<1>15. PICK e \in PossibleEffects : e = Effect(d)
  BY <1>1
<1>16. Audit!Apply(e)
  <2>1. e \notin InFlight \cup Recorded \cup orphans
    BY <1>12, <1>15
  <2> e.member = m /\ e.stars = Delta(d)
    BY <1>9, <1>15
  <2>2. Balance[e.member] + e.stars >= 0
    BY <1>10
  <2>3. Balance' = [Balance EXCEPT ![e.member] = @ + e.stars]
    BY <1>10
  <2>4. InFlight' = InFlight \cup {e}
    BY <1>13, <1>15
  <2>5. Recorded' = Recorded /\ orphans' = orphans
    BY <1>2, <1>14
  <2> QED BY <2>1, <2>2, <2>3, <2>4, <2>5, AuditApply
<1> QED BY <1>16

\* An update that is applied unanswered maps to ApplyUnnoticed.
LEMMA ResentRefines ==
  ASSUME IndInv, NEW d \in Deliveries, Resent(d)
  PROVE  \E e \in PossibleEffects : Audit!ApplyUnnoticed(e)
<1> DEFINE m == EventOf[d].member
           n == local[d].unanswered + 1
<1>0. TypeOK /\ Progress(d)
  BY DEF IndInv
<1>1. /\ pc[d] = "update_member_balance" /\ local[d].unanswered \in Nat
      /\ UNCHANGED <<txns, pc>>
      /\ Delta(d)' = Delta(d)
      /\ orphans' = orphans \cup {EffectOfSending(d, n)}
      /\ EffectOfSending(d, n) \in PossibleEffects
      /\ \E annual \in Int, activity \in Day \cup {NeverActive} :
           UpdateMemberBalance(m, Delta(d), annual, activity)
  BY <1>0, ResentUpdate
<1>2. PICK e \in PossibleEffects : e = EffectOfSending(d, n)
  BY <1>1
<1>3. /\ e.member = m /\ e.stars = Delta(d) /\ e.by = <<d, attempt[d]>>
      /\ e.sending = n
  BY <1>2 DEF EffectOfSending
<1>4. n \notin 1..local[d].unanswered /\ n # 0
  BY <1>1
<1>5. e \notin Recorded \cup orphans
  BY <1>1, <1>3, <1>4, EffectIsNew DEF Running, Request
<1>6. e \notin InFlight
  BY <1>3, <1>4 DEF InFlight, Effect, EffectOfSending
<1>7. Balance[m] + Delta(d) >= 0 /\ Balance' = [Balance EXCEPT ![m] = @ + Delta(d)]
  BY <1>1, CoreOfIndInv, UpdateMovesBalance
<1>8. InFlight' = InFlight
  <2>1. DeliveryAction(d) /\ ~Unrecorded(d) /\ ~Unrecorded(d)'
    BY <1>1 DEF DeliveryAction, Unrecorded
  <2> QED BY <1>0, <2>1, InFlightChange
<1>9. Recorded' = Recorded
  BY <1>1 DEF Recorded
<1>10. orphans' = orphans \cup {e}
  BY <1>1, <1>2
<1> HIDE DEF m, n
<1>11. Audit!ApplyUnnoticed(e)
  BY <1>3, <1>5, <1>6, <1>7, <1>8, <1>9, <1>10, AuditApplyUnnoticed
<1> QED BY <1>11

\* The record of a transaction maps to Record.
LEMMA RecordRefines ==
  ASSUME IndInv, NEW d \in Deliveries,
         \/ IsPurchase(d) /\ PurchaseRecord(d)
         \/ IsRedemption(d) /\ RedemptionRecord(d)
  PROVE  \E e \in PossibleEffects : Audit!Record(e)
<1>0. /\ TypeOK /\ Progress(d) /\ pc[d] = "record_transaction"
  BY DEF IndInv, PurchaseRecord, RedemptionRecord
<1>1. Effect(d) \in PossibleEffects
  BY <1>0, DeltaIsStars DEF Running, Request
<1>2. /\ DeliveryAction(d) /\ Unrecorded(d) /\ ~Unrecorded(d)'
      /\ profile' = profile /\ orphans' = orphans
  BY <1>0 DEF DeliveryAction, PurchaseRecord, RedemptionRecord, Unrecorded, GoTo, TypeOK
<1>3. Effect(d) \in InFlight
  BY <1>2 DEF InFlight
<1>4. InFlight' = InFlight \ {Effect(d)}
  BY <1>0, <1>2, InFlightChange
<1>5. Recorded' = Recorded \cup {Effect(d)}
  <2> DEFINE t(type) == [id |-> EventOf[d].id, member |-> EventOf[d].member,
                         type |-> type, stars |-> local[d].stars,
                         day |-> local[d].now, by |-> <<d, attempt[d]>>]
  <2>1. PICK type \in TransactionType :
          txns' = txns \cup {t(type)} /\ RecordedEffect(t(type)) = Effect(d)
    <3>1. CASE IsPurchase(d) /\ PurchaseRecord(d)
      <4>1. RecordedEffect(t("PURCHASE")) = Effect(d)
        BY <3>1 DEF RecordedEffect, Effect, EffectOfSending, Delta, IsPurchase
      <4>2. txns' = txns \cup {t("PURCHASE")}
        BY <3>1 DEF PurchaseRecord, RecordTransaction
      <4> QED BY <4>1, <4>2 DEF TransactionType
    <3>2. CASE IsRedemption(d) /\ RedemptionRecord(d)
      <4>1. RecordedEffect(t("REDEMPTION")) = Effect(d)
        BY <3>2 DEF RecordedEffect, Effect, EffectOfSending, Delta, IsRedemption
      <4>2. txns' = txns \cup {t("REDEMPTION")}
        BY <3>2 DEF RedemptionRecord, RecordTransaction
      <4> QED BY <4>1, <4>2 DEF TransactionType
    <3> QED BY <3>1, <3>2
  <2> HIDE DEF t
  <2> QED BY <2>1 DEF Recorded
<1>6. Audit!Record(Effect(d))
  BY <1>2, <1>3, <1>4, <1>5 DEF Audit!Record, StarsOf
<1> QED BY <1>1, <1>6

\* A fault between effect and record maps to Lose.
LEMMA FaultRefines ==
  ASSUME IndInv, NEW d \in Deliveries, Unrecorded(d), Crash(d) \/ RequestFails(d)
  PROVE  \E e \in PossibleEffects : Audit!Lose(e)
<1>0. TypeOK /\ Progress(d)
  BY DEF IndInv
<1>1. Effect(d) \in PossibleEffects /\ Effect(d) \in InFlight
  BY <1>0, DeltaIsStars DEF Unrecorded, InFlight, Running, Request
<1>2. /\ DeliveryAction(d) /\ ~Unrecorded(d)'
      /\ profile' = profile /\ txns' = txns
      /\ orphans' = orphans \cup {Effect(d)}
  BY <1>0 DEF DeliveryAction, Crash, AfterCrash, RequestFails, Abandon, Unrecorded, GoTo, Return,
      TypeOK, tableVars
<1>3. InFlight' = InFlight \ {Effect(d)}
  BY <1>0, <1>2, InFlightChange
<1>4. Audit!Lose(Effect(d))
  BY <1>1, <1>2, <1>3 DEF Audit!Lose, StarsOf, Recorded
<1> QED BY <1>1, <1>4

\* A step that updates no balance, records nothing and interrupts no attempt
\* between the two changes nothing the abstract accounts can see.
LEMMA QuietStepRefines ==
  ASSUME IndInv, NEW d \in Deliveries, DeliveryAction(d),
         \/ Invoke(d) \/ Respond(d) \/ Discard(d)
         \/ PurchaseCheck(d) \/ PurchaseGetMember(d)
         \/ RedemptionCheck(d) \/ RedemptionGetMember(d)
         \/ IsPurchase(d) /\ PurchaseCreateLedgerEntry(d)
         \/ RedemptionUpdateBalance(d) /\ pc'[d] = "done"
         \/ (Crash(d) \/ RequestFails(d)) /\ ~Unrecorded(d)
  PROVE  UNCHANGED Audit!vars
<1>0. TypeOK
  BY DEF IndInv
<1>1. CASE \/ Invoke(d) \/ Respond(d) \/ Discard(d)
           \/ PurchaseCheck(d) \/ PurchaseGetMember(d)
           \/ RedemptionCheck(d) \/ RedemptionGetMember(d)
           \/ (Crash(d) \/ RequestFails(d)) /\ ~Unrecorded(d)
  <2>1. ~Unrecorded(d) /\ ~Unrecorded(d)'
    BY <1>0, <1>1 DEF Invoke, Respond, Discard, PurchaseCheck, RedemptionCheck,
       CheckIdempotency, PurchaseGetMember, RedemptionGetMember, Crash, AfterCrash,
       RequestFails, Unrecorded, GoTo, Return, TypeOK
  <2>2. profile' = profile /\ txns' = txns /\ orphans' = orphans
    BY <1>1 DEF Invoke, Respond, Discard, PurchaseCheck, RedemptionCheck,
       CheckIdempotency, PurchaseGetMember, RedemptionGetMember, Crash,
       RequestFails, Abandon, tableVars
  <2> QED BY <1>0, <2>1, <2>2, InFlightChange, StutterRefines
<1>2. CASE IsPurchase(d) /\ PurchaseCreateLedgerEntry(d)
  <2>1. Unrecorded(d) /\ Unrecorded(d)' /\ Effect(d)' = Effect(d)
    BY <1>0, <1>2 DEF PurchaseCreateLedgerEntry, Unrecorded, Effect, EffectOfSending, Delta, GoTo, TypeOK
  <2>2. profile' = profile /\ txns' = txns /\ orphans' = orphans
    BY <1>2 DEF PurchaseCreateLedgerEntry
  <2> QED BY <1>0, <2>1, <2>2, InFlightChange, StutterRefines
<1>3. CASE RedemptionUpdateBalance(d) /\ pc'[d] = "done"
  <2>1. ~Unrecorded(d) /\ ~Unrecorded(d)'
    BY <1>3 DEF RedemptionUpdateBalance, Unrecorded
  <2>2. profile' = profile /\ txns' = txns /\ orphans' = orphans
    BY <1>0, <1>3 DEF RedemptionUpdateBalance, GoTo, TypeOK
  <2> QED BY <1>0, <2>1, <2>2, InFlightChange, StutterRefines
<1> QED BY <1>1, <1>2, <1>3

\* Every step maps to a step or a stutter.
LEMMA StepRefines ==
  ASSUME IndInv, [Next]_vars
  PROVE  [Audit!Next]_(Audit!vars)
<1>1. ASSUME NEW d \in Deliveries, DeliveryAction(d)
      PROVE  Audit!Next \/ UNCHANGED Audit!vars
  <2>1. CASE \/ IsPurchase(d) /\ PurchaseUpdateBalance(d)
             \/ IsRedemption(d) /\ RedemptionUpdateBalance(d) /\ pc'[d] # "done"
    BY <2>1, UpdateRefines DEF Audit!Next
  <2>2. CASE \/ IsPurchase(d) /\ PurchaseRecord(d)
             \/ IsRedemption(d) /\ RedemptionRecord(d)
    BY <2>2, RecordRefines DEF Audit!Next
  <2>3. CASE (Crash(d) \/ RequestFails(d)) /\ Unrecorded(d)
    BY <2>3, FaultRefines DEF Audit!Next
  <2>4. CASE \/ Invoke(d) \/ Respond(d) \/ Discard(d)
             \/ PurchaseCheck(d) \/ PurchaseGetMember(d)
             \/ RedemptionCheck(d) \/ RedemptionGetMember(d)
             \/ IsPurchase(d) /\ PurchaseCreateLedgerEntry(d)
             \/ RedemptionUpdateBalance(d) /\ pc'[d] = "done"
             \/ (Crash(d) \/ RequestFails(d)) /\ ~Unrecorded(d)
    BY <1>1, <2>4, QuietStepRefines
  <2>5. CASE Resent(d)
    BY <2>5, ResentRefines DEF Audit!Next
  <2> QED BY <1>1, <2>1, <2>2, <2>3, <2>4, <2>5 DEF DeliveryAction
<1>2. ASSUME Propagate \/ PassDay \/ UNCHANGED vars
      PROVE  UNCHANGED Audit!vars
  <2>1. /\ profile' = profile /\ txns' = txns
        /\ pc' = pc /\ attempt' = attempt /\ local' = local /\ orphans' = orphans
    BY <1>2 DEF Propagate, PropagateToIndex, PassDay, NextDay, vars, deliveryVars, tableVars
  <2>2. InFlight' = InFlight
    BY <2>1 DEF InFlight, Effect, EffectOfSending, Delta, Unrecorded
  <2> QED BY <2>1, <2>2, StutterRefines
<1> QED BY NextCases, <1>1, <1>2

\* Purchases and redemptions, with all their faults, duplicates and retries,
\* implement the abstract accounts: a star balance moves only by a sending of an
\* attempt's update, never below zero; the one that is answered ends in the audit
\* trail or among the orphans, the others are orphans at once.
THEOREM Refinement == Spec => ImplementsAudit
<1>1. IndInv /\ [Next]_vars => [Audit!Next]_(Audit!vars)
  BY StepRefines
<1> QED BY InitRefines, IndInvHolds, <1>1, PTL DEF Spec, ImplementsAudit, Audit!Spec

-----------------------------------------------------------------------------
\* All effects on balances, and those on one member's balance.
Trail == InFlight \cup Recorded \cup orphans

\* The effects on one member's balance.
TrailOf(m) == {e \in Trail : e.member = m}

\* What makes the trail add up: there are finitely many effects, each of a whole
\* number of stars, at any time.
TrailInv ==
  /\ IsFiniteSet(Trail)
  /\ Numbered(Trail)
  /\ \A m \in Members : StarsOf(profile[m]) = StarsOf(Opening[m]) + StarSum(TrailOf(m))

\* The invariant explains the balances.
LEMMA TrailIsConserved == TrailInv => AuditTrailExplainsBalance
<1>1. \A m \in Members : TrailOf(m) = {e \in InFlight \cup Recorded \cup orphans : e.member = m}
  BY DEF TrailOf, Trail
<1>2. AuditTrailExplainsBalance <=>
        \A m \in Members :
          StarsOf(profile[m]) = StarsOf(Opening[m]) +
            StarSum({e \in InFlight \cup Recorded \cup orphans : e.member = m})
  BY DEF AuditTrailExplainsBalance, Audit!Conserved, StarSum, MapThenSumSet, MapThenFoldSet,
         Audit!MapThenSumSet, Audit!MapThenFoldSet
<1> QED BY <1>1, <1>2 DEF TrailInv

\* It holds at the start: the trail is empty.
LEMMA InitTrail == Init => TrailInv
<1> SUFFICES ASSUME Init PROVE TrailInv
  OBVIOUS
<1>1. Trail = {} /\ profile = Opening
  BY InitRefines DEF Audit!Init, Trail, Init, TableInit
<1>2. \A m \in Members : TrailOf(m) = {}
  BY <1>1 DEF TrailOf
<1>3. \A m \in Members : StarsOf(Opening[m]) \in Int
  BY OpeningAssumption DEF StarsOf, Profile
<1>4. \A m \in Members : StarsOf(Opening[m]) = StarsOf(Opening[m]) + 0
  BY <1>3
<1> QED BY <1>1, <1>2, <1>4, FS_EmptySet, SumOfNone DEF TrailInv, Numbered

\* An effect is of a member and of a whole number of stars.
LEMMA EffectsAreOfMembers ==
  ASSUME NEW e \in PossibleEffects
  PROVE  e.member \in Members /\ e.stars \in Int
<1>1. PICK d \in Deliveries :
        e \in [by : {d} \X (1..MaxAttempts), id : {EventOf[d].id},
              member : {EventOf[d].member}, stars : PossibleStars(d), sending : Sending]
  BY DEF PossibleEffects
<1>2. PossibleStars(d) \subseteq Int
  BY EventFields, StarsAreNatural DEF PossibleStars
<1> QED BY <1>1, <1>2, EventFields

\* Every step of the abstract accounts keeps it, so every step of the
\* handlers does.
LEMMA TrailStep ==
  ASSUME TrailInv, [Audit!Next]_(Audit!vars)
  PROVE  TrailInv'
<1>0. /\ IsFiniteSet(Trail) /\ Numbered(Trail)
      /\ \A m \in Members : StarsOf(profile[m]) = StarsOf(Opening[m]) + StarSum(TrailOf(m))
  BY DEF TrailInv
<1>1. \A m \in Members : StarsOf(Opening[m]) \in Int
  BY OpeningAssumption DEF StarsOf, Profile
<1>2. ASSUME Balance' = Balance, Trail' = Trail PROVE TrailInv'
  <2>1. \A m \in Members : StarsOf(profile[m])' = StarsOf(profile[m])
    BY <1>2 DEF Balance, StarsOf
  <2>2. \A m \in Members : TrailOf(m)' = TrailOf(m)
    BY <1>2 DEF TrailOf
  <2> QED BY <1>0, <1>2, <2>1, <2>2 DEF TrailInv, Numbered
<1>3. ASSUME NEW e \in PossibleEffects, Audit!Apply(e) \/ Audit!ApplyUnnoticed(e)
      PROVE  TrailInv'
  <2>1. /\ e \notin Trail /\ Trail' = Trail \cup {e}
        /\ Balance' = [Balance EXCEPT ![e.member] = @ + e.stars]
    BY <1>3, AuditApply, AuditApplyUnnoticed DEF Trail
  <2>2. e.member \in Members /\ e.stars \in Int
    BY EffectsAreOfMembers
  <2>3. IsFiniteSet(Trail)' /\ Numbered(Trail)'
    BY <1>0, <2>1, <2>2, FS_AddElement DEF Numbered
  <2>4. ASSUME NEW m \in Members
        PROVE  (StarsOf(profile[m]) = StarsOf(Opening[m]) + StarSum(TrailOf(m)))'
    <3>0. /\ IsFiniteSet(TrailOf(m)) /\ Numbered(TrailOf(m)) /\ e \notin TrailOf(m)
      BY <1>0, <2>1, FS_Subset DEF TrailOf, Numbered
    <3>1. CASE m = e.member
      <4>1. TrailOf(m)' = TrailOf(m) \cup {e}
        BY <2>1, <3>1 DEF TrailOf
      <4>2. StarsOf(profile[m])' = StarsOf(profile[m]) + e.stars
        BY <2>1, <3>1 DEF Balance, StarsOf
      <4>3. StarSum(TrailOf(m))' = StarSum(TrailOf(m)) + e.stars
        BY <2>2, <3>0, <4>1, SumWith
      <4>4. StarSum(TrailOf(m)) \in Int
        BY <3>0, SumIsInteger
      <4> QED BY <1>0, <1>1, <2>2, <4>2, <4>3, <4>4
    <3>2. CASE m # e.member
      <4>1. TrailOf(m)' = TrailOf(m)
        BY <2>1, <3>2 DEF TrailOf
      <4>2. StarsOf(profile[m])' = StarsOf(profile[m])
        BY <2>1, <3>2 DEF Balance, StarsOf
      <4> QED BY <1>0, <4>1, <4>2
    <3> QED BY <3>1, <3>2
  <2> QED BY <2>3, <2>4 DEF TrailInv
<1>4. ASSUME NEW e \in PossibleEffects, Audit!Record(e) \/ Audit!Lose(e) PROVE TrailInv'
  <2>1. /\ e \in InFlight /\ InFlight' = InFlight \ {e} /\ Balance' = Balance
        /\ \/ Recorded' = Recorded \cup {e} /\ orphans' = orphans
           \/ Recorded' = Recorded /\ orphans' = orphans \cup {e}
    BY <1>4 DEF Audit!Record, Audit!Lose, Balance
  <2>2. Trail' = Trail
    BY <2>1 DEF Trail
  <2> QED BY <1>2, <2>1, <2>2
<1>5. ASSUME UNCHANGED Audit!vars PROVE TrailInv'
  <2>1. Balance' = Balance /\ InFlight' = InFlight /\ Recorded' = Recorded /\ orphans' = orphans
    BY <1>5 DEF Audit!vars, Balance
  <2> QED BY <1>2, <2>1 DEF Trail
<1> QED BY <1>3, <1>4, <1>5 DEF Audit!Next

\* The audit trail and the orphans explain every balance, to the star, in every
\* reachable state: for any number of members, events, deliveries, attempts,
\* faults and sendings of an update.
THEOREM BalancesExplained == Spec => []AuditTrailExplainsBalance
<1>1. TrailInv /\ IndInv /\ [Next]_vars => TrailInv'
  BY StepRefines, TrailStep
<1>2. Spec => []TrailInv
  BY InitTrail, IndInvHolds, <1>1, PTL DEF Spec
<1> QED BY <1>2, TrailIsConserved, PTL

-----------------------------------------------------------------------------
\* A purchase, a redemption and their faults leave the tier of every member and
\* the dates of the evaluation alone, and nobody appears or vanishes.
LEMMA HandlersKeepTiers ==
  ASSUME CoreInv, [Next]_vars, NEW m \in Members
  PROVE  /\ profile'[m] = NoMember <=> profile[m] = NoMember
         /\ profile[m] # NoMember =>
              /\ profile'[m].tier = profile[m].tier
              /\ profile'[m].nextTierEvaluation = profile[m].nextTierEvaluation
              /\ profile'[m].evaluationKey = profile[m].evaluationKey
<1>0. TypeOK /\ \A d \in Deliveries : Progress(d)
  BY DEF CoreInv
<1>1. ASSUME NEW d \in Deliveries, NEW delta \in Int, NEW annual \in Int,
             NEW activity \in Day \cup {NeverActive},
             pc[d] = "update_member_balance",
             UpdateMemberBalance(EventOf[d].member, delta, annual, activity)
      PROVE  /\ profile'[m] = NoMember <=> profile[m] = NoMember
             /\ profile[m] # NoMember =>
                  /\ profile'[m].tier = profile[m].tier
                  /\ profile'[m].nextTierEvaluation = profile[m].nextTierEvaluation
                  /\ profile'[m].evaluationKey = profile[m].evaluationKey
  <2> DEFINE n == EventOf[d].member
  <2>1. n \in Members /\ profile[n] \in Profile
    BY <1>0, <1>1, DeltaIsStars, EventFields DEF Running, Request
  <2>2. /\ profile'[n] \in Profile
        /\ profile'[n].tier = profile[n].tier
        /\ profile'[n].nextTierEvaluation = profile[n].nextTierEvaluation
        /\ profile'[n].evaluationKey = profile[n].evaluationKey
        /\ \A k \in Members \ {n} : profile'[k] = profile[k]
    BY <1>0, <1>1, <2>1, UpdatedProfile
  <2> QED BY <2>1, <2>2, NoMemberAssumption
<1>2. ASSUME NEW d \in Deliveries, PurchaseUpdateBalance(d) \/ RedemptionUpdateBalance(d),
             profile' # profile
      PROVE  \E delta \in Int, annual \in Int, activity \in Day \cup {NeverActive} :
               /\ pc[d] = "update_member_balance"
               /\ UpdateMemberBalance(EventOf[d].member, delta, annual, activity)
  <2>1. pc[d] = "update_member_balance"
    BY <1>2 DEF PurchaseUpdateBalance, RedemptionUpdateBalance
  <2>2. local[d].stars \in Int /\ local[d].now \in Day
    BY <1>0, <2>1, DeltaIsStars DEF Running, Request, TypeOK, Local
  <2>3. -local[d].stars \in Int /\ 0 \in Int
    BY <2>2
  <2>4. CASE PurchaseUpdateBalance(d)
    BY <2>1, <2>2, <2>4 DEF PurchaseUpdateBalance
  <2>5. CASE RedemptionUpdateBalance(d)
    BY <1>2, <2>1, <2>3, <2>5 DEF RedemptionUpdateBalance
  <2> QED BY <1>2, <2>4, <2>5
<1>5. ASSUME NEW d \in Deliveries, Resent(d)
      PROVE  \E delta \in Int, annual \in Int, activity \in Day \cup {NeverActive} :
               /\ pc[d] = "update_member_balance"
               /\ UpdateMemberBalance(EventOf[d].member, delta, annual, activity)
  BY <1>0, <1>5, ResentUpdate
<1>3. ASSUME NEW d \in Deliveries, DeliveryAction(d)
      PROVE  \/ PurchaseUpdateBalance(d) \/ RedemptionUpdateBalance(d) \/ Resent(d)
             \/ profile' = profile
  BY <1>3 DEF DeliveryAction, tableVars, Invoke, Respond, Crash, RequestFails, Discard,
       PurchaseCheck, RedemptionCheck, CheckIdempotency, PurchaseGetMember,
       RedemptionGetMember, PurchaseCreateLedgerEntry, PurchaseRecord, RedemptionRecord
<1>4. Propagate \/ PassDay \/ UNCHANGED vars => profile' = profile
  BY DEF Propagate, PropagateToIndex, PassDay, NextDay, vars, tableVars
<1> QED BY NextCases, <1>1, <1>2, <1>3, <1>4, <1>5

\* The ledger entry a purchase writes.
Entry(d) == [member |-> EventOf[d].member, stars |-> local[d].stars,
             day |-> local[d].now, by |-> <<d, attempt[d]>>]

\* The member is Green when the handlers start.
GreenAtStart(m) == Opening[m] # NoMember /\ Opening[m].tier = "Green"

\* The handlers change no tier.
TiersAsOpened ==
  \A m \in Members :
    /\ profile[m] = NoMember <=> Opening[m] = NoMember
    /\ profile[m] # NoMember => profile[m].tier = Opening[m].tier

\* An attempt at a purchase holds the tier of the member, and has made its entry
\* before it comes to the record when that tier is Green.
Ages(d) ==
  /\ pc[d] \in {"update_member_balance", "create_star_ledger_entry", "record_transaction"}
       => /\ Opening[EventOf[d].member] # NoMember
          /\ local[d].tier = Opening[EventOf[d].member].tier
  /\ pc[d] = "create_star_ledger_entry" => IsPurchase(d) /\ local[d].tier = "Green"
  /\ pc[d] = "record_transaction" /\ IsPurchase(d) /\ local[d].tier = "Green"
       => Entry(d) \in ledger

\* A recorded purchase of a Green member has its ledger entry.
EveryCreditAges ==
  \A t \in txns :
    t.type = "PURCHASE" /\ GreenAtStart(t.member) =>
      \E b \in ledger :
        /\ b.by = t.by
        /\ <<b.member, b.stars, b.day>> = <<t.member, t.stars, t.day>>

\* A ledger entry is of a Green member and of the stars of an effect.
EveryEntryIsACredit ==
  \A b \in ledger :
    /\ GreenAtStart(b.member)
    /\ \E e \in Trail : e.by = b.by /\ <<e.member, e.stars>> = <<b.member, b.stars>>

\* The inductive invariant for the ledger.
GreenInv ==
  /\ TiersAsOpened
  /\ \A d \in Deliveries : Ages(d)
  /\ EveryCreditAges
  /\ EveryEntryIsACredit

\* It implies that the ledger matches what Green members were credited.
LEMMA CreditsAreMatched == GreenInv => LedgerMatchesGreenCredits
  BY DEF GreenInv, EveryCreditAges, EveryEntryIsACredit, GreenAtStart, Trail,
         LedgerMatchesGreenCredits

\* It holds at the start.
LEMMA InitGreen == Init => GreenInv
  BY OpeningAssumption DEF Init, TableInit, DeliveryInit, GreenInv, TiersAsOpened, Ages,
     EveryCreditAges, EveryEntryIsACredit

\* What entered the trail never leaves it.
LEMMA TrailGrows ==
  ASSUME IndInv, [Next]_vars
  PROVE  Trail \subseteq Trail'
<1>1. [Audit!Next]_(Audit!vars)
  BY StepRefines
<1>2. ASSUME NEW e, Audit!Apply(e) \/ Audit!ApplyUnnoticed(e) PROVE Trail \subseteq Trail'
  BY <1>2, AuditApply, AuditApplyUnnoticed DEF Trail
<1>3. ASSUME NEW e, Audit!Record(e) \/ Audit!Lose(e) PROVE Trail \subseteq Trail'
  <2>1. /\ InFlight' = InFlight \ {e}
        /\ \/ Recorded' = Recorded \cup {e} /\ orphans' = orphans
           \/ Recorded' = Recorded /\ orphans' = orphans \cup {e}
    BY <1>3 DEF Audit!Record, Audit!Lose
  <2> QED BY <2>1 DEF Trail
<1>4. ASSUME UNCHANGED Audit!vars PROVE Trail \subseteq Trail'
  <2>1. InFlight' = InFlight /\ Recorded' = Recorded /\ orphans' = orphans
    BY <1>4 DEF Audit!vars
  <2> QED BY <2>1 DEF Trail
<1> QED BY <1>1, <1>2, <1>3, <1>4 DEF Audit!Next

\* Every step leaves the tiers as they were.
LEMMA TiersStep ==
  ASSUME CoreInv, [Next]_vars, TiersAsOpened
  PROVE  TiersAsOpened'
  BY HandlersKeepTiers DEF TiersAsOpened

\* An attempt past its ledger entry made one, whatever the others do.
LEMMA AgesStep ==
  ASSUME IndInv, [Next]_vars, GreenInv, NEW e \in Deliveries
  PROVE  Ages(e)'
<1>0. /\ TypeOK /\ TypeOK' /\ Ages(e) /\ Progress(e) /\ TiersAsOpened /\ CoreInv
      /\ EventOf[e].member \in Members
  BY CoreOfIndInv, TypeStep, EventFields DEF IndInv, GreenInv
<1>1. ASSUME pc'[e] = pc[e], attempt'[e] = attempt[e], local'[e] = local[e],
             ledger \subseteq ledger'
      PROVE  Ages(e)'
  BY <1>0, <1>1 DEF Ages, Entry
<1>2. ASSUME DeliveryAction(e) PROVE Ages(e)'
  <2>0. /\ pc \in [Deliveries -> Running \cup {"queued", "done", "dead letter"}]
        /\ attempt \in [Deliveries -> 0..MaxAttempts]
        /\ local \in [Deliveries -> Local]
    BY <1>0 DEF TypeOK
  <2> USE DEF GoTo, Return
  <2>1. CASE Invoke(e) \/ Respond(e) \/ Discard(e) \/ Crash(e) \/ RequestFails(e)
    <3>1. pc'[e] \notin {"update_member_balance", "create_star_ledger_entry",
                         "record_transaction"}
      BY <2>0, <2>1 DEF Invoke, Respond, Discard, Crash, AfterCrash, RequestFails
    <3> QED BY <3>1 DEF Ages
  <2>2. CASE PurchaseCheck(e) \/ RedemptionCheck(e)
    <3>1. pc'[e] \notin {"update_member_balance", "create_star_ledger_entry",
                         "record_transaction"}
      BY <2>0, <2>2 DEF PurchaseCheck, RedemptionCheck, CheckIdempotency
    <3> QED BY <3>1 DEF Ages
  <2>3. CASE PurchaseGetMember(e) \/ RedemptionGetMember(e)
    <3>1. CASE pc'[e] = "done"
      BY <3>1 DEF Ages
    <3>2. CASE pc'[e] # "done"
      <4>1. /\ pc'[e] = "update_member_balance" /\ profile[EventOf[e].member] # NoMember
            /\ local'[e].tier = profile[EventOf[e].member].tier
        <5>1. CASE PurchaseGetMember(e)
          <6> DEFINE tier == profile[EventOf[e].member].tier
                     stars == CalculateStars(EventOf[e].cents, tier,
                                EventOf[e].doubleStarDay, EventOf[e].personalCup)
          <6> HIDE DEF stars
          <6>1. /\ pc'[e] = "update_member_balance"
                /\ profile[EventOf[e].member] # NoMember
                /\ local'[e] = [tier |-> tier, stars |-> stars, now |-> today,
                                unanswered |-> 0]
            BY <2>0, <3>2, <5>1 DEF PurchaseGetMember, GetMember, stars
          <6> QED BY <6>1
        <5>2. CASE RedemptionGetMember(e)
          <6>1. /\ pc'[e] = "update_member_balance"
                /\ profile[EventOf[e].member] # NoMember
                /\ local'[e] = [tier |-> profile[EventOf[e].member].tier,
                                stars |-> EventOf[e].starsToRedeem, now |-> today,
                                unanswered |-> 0]
            BY <2>0, <3>2, <5>2 DEF RedemptionGetMember, GetMember
          <6> QED BY <6>1
        <5> QED BY <2>3, <5>1, <5>2
      <4> QED BY <1>0, <4>1 DEF Ages, TiersAsOpened
    <3> QED BY <3>1, <3>2
  <2>4. CASE IsPurchase(e) /\ PurchaseUpdateBalance(e)
    <3>1. /\ pc[e] = "update_member_balance" /\ local' = local
          /\ pc'[e] = IF local[e].tier = "Green" THEN "create_star_ledger_entry"
                                                 ELSE "record_transaction"
      BY <2>0, <2>4 DEF PurchaseUpdateBalance
    <3> QED BY <1>0, <2>4, <3>1 DEF Ages
  <2>5. CASE IsRedemption(e) /\ RedemptionUpdateBalance(e)
    <3>1. /\ pc[e] = "update_member_balance" /\ local' = local /\ ~IsPurchase(e)
          /\ pc'[e] \in {"record_transaction", "done"}
      BY <2>0, <2>5, EventFields DEF RedemptionUpdateBalance
    <3> QED BY <1>0, <3>1 DEF Ages
  <2>6. CASE IsPurchase(e) /\ PurchaseCreateLedgerEntry(e)
    <3>1. /\ pc[e] = "create_star_ledger_entry" /\ pc'[e] = "record_transaction"
          /\ local' = local /\ attempt' = attempt /\ ledger' = ledger \cup {Entry(e)}
      BY <2>0, <2>6 DEF PurchaseCreateLedgerEntry, CreateStarLedgerEntry, Entry
    <3>2. Entry(e)' = Entry(e)
      BY <3>1 DEF Entry
    <3> QED BY <1>0, <3>1, <3>2 DEF Ages
  <2>7. CASE PurchaseRecord(e) \/ RedemptionRecord(e)
    <3>1. pc'[e] = "return"
      BY <2>0, <2>7 DEF PurchaseRecord, RedemptionRecord
    <3> QED BY <3>1 DEF Ages
  <2>8. CASE Resent(e)
    <3>1. /\ pc[e] = "update_member_balance" /\ pc' = pc
          /\ local'[e].tier = local[e].tier
      BY <1>0, <2>8, ResentUpdate
    <3> QED BY <1>0, <3>1 DEF Ages
  <2> QED BY <1>2, <2>1, <2>2, <2>3, <2>4, <2>5, <2>6, <2>7, <2>8 DEF DeliveryAction
<1>3. ASSUME NEW d \in Deliveries, DeliveryAction(d), d # e PROVE Ages(e)'
  BY <1>0, <1>1, <1>3, OthersUnchanged, WritesOwnStamp
<1>4. ASSUME Propagate \/ PassDay \/ UNCHANGED vars PROVE Ages(e)'
  BY <1>1, <1>4 DEF Propagate, PropagateToIndex, PassDay, NextDay, vars, deliveryVars, tableVars
<1> QED BY NextCases, <1>2, <1>3, <1>4

\* A purchase is recorded after its entry.
LEMMA CreditsStep ==
  ASSUME IndInv, [Next]_vars, GreenInv
  PROVE  EveryCreditAges'
<1>1. ASSUME ledger \subseteq ledger', txns' = txns PROVE EveryCreditAges'
  BY <1>1 DEF GreenInv, EveryCreditAges
<1>2. ASSUME NEW d \in Deliveries, DeliveryAction(d) PROVE EveryCreditAges'
  <2>1. ledger \subseteq ledger'
    BY <1>2, WritesOwnStamp
  <2>2. CASE IsPurchase(d) /\ PurchaseRecord(d)
    <3> DEFINE t == [id |-> EventOf[d].id, member |-> EventOf[d].member,
                     type |-> "PURCHASE", stars |-> local[d].stars,
                     day |-> local[d].now, by |-> <<d, attempt[d]>>]
    <3>1. txns' = txns \cup {t} /\ pc[d] = "record_transaction"
      BY <2>2 DEF PurchaseRecord, RecordTransaction
    <3>2. GreenAtStart(EventOf[d].member) => Entry(d) \in ledger
      BY <2>2, <3>1 DEF GreenInv, Ages, GreenAtStart
    <3>3. /\ Entry(d).by = t.by /\ Entry(d).member = t.member
          /\ Entry(d).stars = t.stars /\ Entry(d).day = t.day
          /\ t.member = EventOf[d].member
      BY DEF Entry
    <3> HIDE DEF t
    <3>4. GreenAtStart(t.member) =>
            \E b \in ledger' : /\ b.by = t.by
                               /\ <<b.member, b.stars, b.day>> = <<t.member, t.stars, t.day>>
      BY <2>1, <3>2, <3>3
    <3> QED BY <2>1, <3>1, <3>4 DEF GreenInv, EveryCreditAges
  <2>3. CASE IsRedemption(d) /\ RedemptionRecord(d)
    <3> DEFINE t == [id |-> EventOf[d].id, member |-> EventOf[d].member,
                     type |-> "REDEMPTION", stars |-> local[d].stars,
                     day |-> local[d].now, by |-> <<d, attempt[d]>>]
    <3>1. txns' = txns \cup {t} /\ t.type # "PURCHASE"
      BY <2>3 DEF RedemptionRecord, RecordTransaction
    <3> QED BY <2>1, <3>1 DEF GreenInv, EveryCreditAges
  <2>4. CASE txns' = txns
    BY <1>1, <2>1, <2>4
  <2>5. \/ IsPurchase(d) /\ PurchaseRecord(d)
        \/ IsRedemption(d) /\ RedemptionRecord(d)
        \/ txns' = txns
    BY <1>2 DEF DeliveryAction, tableVars, Invoke, Respond, Crash, RequestFails, Discard,
       PurchaseCheck, RedemptionCheck, CheckIdempotency, PurchaseGetMember,
       RedemptionGetMember, PurchaseUpdateBalance, RedemptionUpdateBalance,
       PurchaseCreateLedgerEntry, Resent, PurchaseUpdateUnanswered,
       RedemptionUpdateUnanswered, UpdateUnanswered
  <2> QED BY <2>2, <2>3, <2>4, <2>5
<1>3. ASSUME Propagate \/ PassDay \/ UNCHANGED vars PROVE EveryCreditAges'
  BY <1>1, <1>3 DEF Propagate, PropagateToIndex, PassDay, NextDay, vars, tableVars
<1> QED BY NextCases, <1>2, <1>3

\* An entry is made after its effect.
LEMMA EntriesStep ==
  ASSUME IndInv, [Next]_vars, GreenInv
  PROVE  EveryEntryIsACredit'
<1>0. Trail \subseteq Trail'
  BY TrailGrows
<1>1. ASSUME ledger' = ledger PROVE EveryEntryIsACredit'
  BY <1>0, <1>1 DEF GreenInv, EveryEntryIsACredit
<1>2. ASSUME NEW d \in Deliveries, IsPurchase(d), PurchaseCreateLedgerEntry(d)
      PROVE  EveryEntryIsACredit'
  <2>1. /\ pc[d] = "create_star_ledger_entry" /\ ledger' = ledger \cup {Entry(d)}
    BY <1>2 DEF PurchaseCreateLedgerEntry, CreateStarLedgerEntry, Entry
  <2>2. GreenAtStart(EventOf[d].member)
    BY <2>1 DEF GreenInv, Ages, GreenAtStart
  <2>3. Effect(d) \in Trail
    BY <2>1 DEF Trail, InFlight, Unrecorded
  <2>4. /\ Effect(d).by = Entry(d).by /\ Effect(d).member = Entry(d).member
        /\ Effect(d).stars = Entry(d).stars /\ Entry(d).member = EventOf[d].member
    BY <1>2 DEF Effect, EffectOfSending, Entry, Delta, IsPurchase
  <2> QED BY <1>0, <2>1, <2>2, <2>3, <2>4 DEF GreenInv, EveryEntryIsACredit
<1>3. ASSUME NEW d \in Deliveries, DeliveryAction(d)
      PROVE  (IsPurchase(d) /\ PurchaseCreateLedgerEntry(d)) \/ ledger' = ledger
  BY <1>3 DEF DeliveryAction, tableVars, Invoke, Respond, Crash, RequestFails, Discard,
       PurchaseCheck, RedemptionCheck, CheckIdempotency, PurchaseGetMember,
       RedemptionGetMember, PurchaseUpdateBalance, RedemptionUpdateBalance,
       PurchaseRecord, RedemptionRecord, Resent, PurchaseUpdateUnanswered,
       RedemptionUpdateUnanswered, UpdateUnanswered
<1>4. Propagate \/ PassDay \/ UNCHANGED vars => ledger' = ledger
  BY DEF Propagate, PropagateToIndex, PassDay, NextDay, vars, tableVars
<1> QED BY NextCases, <1>1, <1>2, <1>3, <1>4

\* Without the scheduled jobs, the ledger and the credits of Green members match,
\* entry by entry, whatever attempts crash, fail or overlap.
THEOREM GreenCreditsAge == Spec => []LedgerMatchesGreenCredits
<1>1. IndInv /\ GreenInv /\ [Next]_vars => GreenInv'
  BY CoreOfIndInv, TiersStep, AgesStep, CreditsStep, EntriesStep DEF GreenInv
<1>2. Spec => []GreenInv
  BY InitGreen, IndInvHolds, <1>1, PTL DEF Spec
<1> QED BY <1>2, CreditsAreMatched, PTL

-----------------------------------------------------------------------------
\* Attempts that keep clear of each other find every earlier record of their
\* transaction: at the lookup the index shows it, after the lookup there is none.
Exclusive ==
  \A d, e \in Deliveries :
    d # e /\ EventOf[d].id = EventOf[e].id => pc[d] \notin Running \/ pc[e] \notin Running

\* An attempt that looks for its event finds it if it is on record; one that
\* is past the lookup did not find it, and it is not on record since.
LooksUp(d) ==
  /\ pc[d] = "check_transaction_exists" =>
       \A t \in txns : t.id = EventOf[d].id => t \in byTxnId
  /\ pc[d] \in {"get_member", "update_member_balance", "create_star_ledger_entry",
                "record_transaction"} =>
       \A t \in txns : t.id # EventOf[d].id

\* Two records of an event are one attempt's.
RecordedOnce == \A x, y \in txns : x.id = y.id => x.by = y.by

\* The inductive invariant of attempts that keep clear of each other.
OnceInv ==
  /\ Exclusive
  /\ \A d \in Deliveries : LooksUp(d)
  /\ RecordedOnce

\* It holds at the start.
LEMMA InitOnce == Init => OnceInv
  BY DEF Init, TableInit, DeliveryInit, OnceInv, Exclusive, LooksUp, RecordedOnce, Running,
         Request

\* A set of days that is not empty has a first one.
LEMMA FirstDay ==
  ASSUME NEW D \in SUBSET Day, D # {}
  PROVE  \E n \in D : \A k \in D : n <= k
<1>1. PICK n \in D : \A k \in D : ~(<<k, n>> \in OpToRel(<, Nat))
  BY WFMin, NatLessThanWellFounded DEF Day
<1>2. \A k \in D : ~(k < n)
  BY <1>1 DEF OpToRel, Day
<1> QED BY <1>2 DEF Day

\* The lookup finds nothing only when the index shows nothing.
LEMMA NothingShown ==
  ASSUME TypeOK, NEW i, CheckTransactionExists(i) = {}
  PROVE  \A t \in byTxnId : t.id # i
<1> DEFINE shown == {t \in byTxnId : t.id = i}
<1> SUFFICES ASSUME shown # {} PROVE FALSE
  OBVIOUS
<1>1. \A t \in shown : t.day \in Day
  BY DEF TypeOK, Transaction
<1> DEFINE D == {t.day : t \in shown}
<1>2. \E n \in D : \A k \in D : n <= k
  <2>1. D \in SUBSET Day /\ D # {}
    BY <1>1
  <2> HIDE DEF D
  <2> QED BY <2>1, FirstDay
<1>3. PICK t \in shown : \A s \in shown : t.day <= s.day
  BY <1>2
<1>4. t \in CheckTransactionExists(i)
  BY <1>3 DEF CheckTransactionExists
<1> QED BY <1>4

\* Only an invocation lets an attempt run.
LEMMA StartsByInvoke ==
  ASSUME TypeOK, NEW d \in Deliveries, DeliveryAction(d), pc'[d] \in Running
  PROVE  Invoke(d) \/ pc[d] \in Running
  BY DEF DeliveryAction, Respond, Crash, RequestFails, Discard, PurchaseCheck,
     RedemptionCheck, CheckIdempotency, PurchaseGetMember, RedemptionGetMember,
     PurchaseUpdateBalance, RedemptionUpdateBalance, PurchaseCreateLedgerEntry,
     PurchaseRecord, RedemptionRecord, Running, Request, GoTo, TypeOK, Resent,
     PurchaseUpdateUnanswered, RedemptionUpdateUnanswered, UpdateUnanswered

\* Only the record adds to the transactions, with the id of the event.
LEMMA RecordsOwnId ==
  ASSUME NEW d \in Deliveries, DeliveryAction(d)
  PROVE  /\ byTxnId' = byTxnId
         /\ \/ txns' = txns
            \/ /\ pc[d] = "record_transaction"
               /\ \A t \in txns' \ txns : t.id = EventOf[d].id /\ t.by = <<d, attempt[d]>>
<1>1. CASE PurchaseRecord(d) \/ RedemptionRecord(d)
  BY <1>1 DEF PurchaseRecord, RedemptionRecord, RecordTransaction
<1>2. CASE ~(PurchaseRecord(d) \/ RedemptionRecord(d))
  BY <1>2 DEF DeliveryAction, tableVars, Invoke, Respond, Crash, RequestFails, Discard,
       PurchaseCheck, RedemptionCheck, CheckIdempotency, PurchaseGetMember,
       RedemptionGetMember, PurchaseUpdateBalance, RedemptionUpdateBalance,
       PurchaseCreateLedgerEntry, Resent, PurchaseUpdateUnanswered,
       RedemptionUpdateUnanswered, UpdateUnanswered
<1> QED BY <1>1, <1>2

\* The other steps start no attempt and write no record.
LEMMA QuietForOnce ==
  ASSUME TypeOK, Propagate \/ PassDay \/ UNCHANGED vars
  PROVE  pc' = pc /\ txns' = txns /\ byTxnId \subseteq byTxnId'
  BY DEF Propagate, PropagateToIndex, PassDay, NextDay, vars, deliveryVars, tableVars

\* Attempts at one event keep clear of each other.
LEMMA ExclusiveStep ==
  ASSUME IndInv, [Next /\ Separated]_vars, Exclusive
  PROVE  Exclusive'
<1>0. TypeOK /\ [Next]_vars
  BY DEF IndInv
<1>1. ASSUME NEW d \in Deliveries, DeliveryAction(d) PROVE Exclusive'
  <2>1. \A e \in Deliveries \ {d} : pc'[e] = pc[e]
    BY <1>0, <1>1, OthersUnchanged
  <2>2. ASSUME NEW e \in Deliveries \ {d}, EventOf[e].id = EventOf[d].id,
               pc'[d] \in Running
        PROVE  pc[e] \notin Running
    <3>1. CASE pc[d] \in Running
      BY <2>2, <3>1 DEF Exclusive
    <3>2. CASE Invoke(d)
      <4>1. pc[d] = "queued" /\ pc'[d] # pc[d]
        BY <1>0, <3>2 DEF Invoke, GoTo, TypeOK
      <4>2. Separated
        BY <4>1 DEF vars, deliveryVars
      <4> QED BY <2>2, <4>1, <4>2 DEF Separated
    <3> QED BY <1>0, <1>1, <2>2, <3>1, <3>2, StartsByInvoke
  <2> QED BY <2>1, <2>2 DEF Exclusive
<1>2. CASE Propagate \/ PassDay \/ UNCHANGED vars
  BY <1>0, <1>2, QuietForOnce DEF Exclusive
<1> QED BY <1>0, <1>1, <1>2, NextCases

\* A lookup sees what earlier attempts recorded.
LEMMA LooksUpStep ==
  ASSUME IndInv, [Next /\ Separated]_vars, OnceInv, NEW e \in Deliveries
  PROVE  LooksUp(e)'
<1>0. /\ TypeOK /\ [Next]_vars /\ Exclusive /\ LooksUp(e)
      /\ pc \in [Deliveries -> Running \cup {"queued", "done", "dead letter"}]
  BY DEF IndInv, OnceInv, TypeOK
<1>1. ASSUME pc'[e] = pc[e], txns' = txns, byTxnId \subseteq byTxnId' PROVE LooksUp(e)'
  BY <1>0, <1>1 DEF LooksUp
<1>2. ASSUME NEW d \in Deliveries \ {e}, DeliveryAction(d) PROVE LooksUp(e)'
  <2>1. pc'[e] = pc[e]
    BY <1>0, <1>2, OthersUnchanged
  <2>2. byTxnId' = byTxnId
    BY <1>2, RecordsOwnId
  <2>3. CASE txns' = txns
    BY <1>1, <2>1, <2>2, <2>3
  <2>4. CASE pc[d] = "record_transaction" /\ \A t \in txns' \ txns : t.id = EventOf[d].id
    <3>1. CASE EventOf[d].id = EventOf[e].id
      <4>1. pc[e] \notin Running
        BY <1>0, <1>2, <2>4, <3>1 DEF Exclusive, Running, Request
      <4> QED BY <2>1, <4>1 DEF LooksUp, Running, Request
    <3>2. CASE EventOf[d].id # EventOf[e].id
      BY <1>0, <2>1, <2>2, <2>4, <3>2 DEF LooksUp
    <3> QED BY <3>1, <3>2
  <2> QED BY <1>2, <2>3, <2>4, RecordsOwnId
<1>3. ASSUME DeliveryAction(e) PROVE LooksUp(e)'
  <2> USE DEF GoTo, Return
  <2>1. CASE Invoke(e)
    <3>1. /\ pc[e] = "queued" /\ pc'[e] = "check_transaction_exists"
          /\ txns' = txns /\ byTxnId' = byTxnId
      BY <1>0, <2>1 DEF Invoke, tableVars
    <3>2. Separated
      BY <3>1 DEF vars, deliveryVars
    <3>3. byTxnId = txns
      BY <3>1, <3>2 DEF Separated
    <3> QED BY <3>1, <3>3 DEF LooksUp
  <2>2. CASE PurchaseCheck(e) \/ RedemptionCheck(e)
    <3>1. CASE pc'[e] = "done"
      BY <3>1 DEF LooksUp
    <3>2. CASE pc'[e] # "done"
      <4>1. /\ pc[e] = "check_transaction_exists" /\ pc'[e] = "get_member"
            /\ txns' = txns /\ CheckTransactionExists(EventOf[e].id) = {}
        BY <1>0, <2>2, <3>2 DEF PurchaseCheck, RedemptionCheck, CheckIdempotency, tableVars
      <4>2. \A t \in txns : t.id # EventOf[e].id
        BY <1>0, <4>1, NothingShown DEF LooksUp
      <4> QED BY <4>1, <4>2 DEF LooksUp
    <3> QED BY <3>1, <3>2
  <2>3. CASE PurchaseRecord(e) \/ RedemptionRecord(e)
    <3>1. pc'[e] = "return"
      BY <1>0, <2>3 DEF PurchaseRecord, RedemptionRecord
    <3> QED BY <3>1 DEF LooksUp
  <2>4. CASE \/ Respond(e) \/ Crash(e) \/ RequestFails(e) \/ Discard(e)
    <3>1. pc'[e] \in {"queued", "done", "dead letter"}
      BY <1>0, <2>4 DEF Respond, Crash, AfterCrash, RequestFails, Discard
    <3> QED BY <3>1 DEF LooksUp
  <2>5. CASE \/ PurchaseGetMember(e) \/ RedemptionGetMember(e)
             \/ PurchaseUpdateBalance(e) \/ RedemptionUpdateBalance(e)
             \/ PurchaseCreateLedgerEntry(e) \/ Resent(e)
    <3>1. /\ pc[e] \in {"get_member", "update_member_balance", "create_star_ledger_entry"}
          /\ pc'[e] # "check_transaction_exists" /\ txns' = txns
      BY <1>0, <2>5 DEF PurchaseGetMember, RedemptionGetMember, PurchaseUpdateBalance,
         RedemptionUpdateBalance, PurchaseCreateLedgerEntry, tableVars, Resent,
         PurchaseUpdateUnanswered, RedemptionUpdateUnanswered, UpdateUnanswered
    <3> QED BY <1>0, <3>1 DEF LooksUp
  <2> QED BY <1>3, <2>1, <2>2, <2>3, <2>4, <2>5 DEF DeliveryAction
<1>4. CASE Propagate \/ PassDay \/ UNCHANGED vars
  BY <1>0, <1>1, <1>4, QuietForOnce
<1> QED BY <1>0, <1>2, <1>3, <1>4, NextCases

\* So no attempt records what is on record.
LEMMA RecordedOnceStep ==
  ASSUME IndInv, [Next /\ Separated]_vars, OnceInv
  PROVE  RecordedOnce'
<1>0. TypeOK /\ [Next]_vars /\ RecordedOnce
  BY DEF IndInv, OnceInv
<1>1. ASSUME NEW d \in Deliveries, DeliveryAction(d) PROVE RecordedOnce'
  <2>1. CASE txns' = txns
    BY <1>0, <2>1 DEF RecordedOnce
  <2>2. CASE /\ pc[d] = "record_transaction"
             /\ \A t \in txns' \ txns : t.id = EventOf[d].id /\ t.by = <<d, attempt[d]>>
    <3>1. \A t \in txns : t.id # EventOf[d].id
      BY <2>2 DEF OnceInv, LooksUp
    <3> QED BY <1>0, <2>2, <3>1 DEF RecordedOnce
  <2> QED BY <1>1, <2>1, <2>2, RecordsOwnId
<1>2. CASE Propagate \/ PassDay \/ UNCHANGED vars
  BY <1>0, <1>2, QuietForOnce DEF RecordedOnce
<1> QED BY <1>0, <1>1, <1>2, NextCases

\* It implies that a balance changes once.
LEMMA OnceMeansOnce ==
  ASSUME OnceInv
  PROVE  AtMostOnceUnlessOrphaned
<1> SUFFICES ASSUME NEW i \in TxnIds, i \notin {o.id : o \in orphans}
             PROVE  Cardinality(AppliedBy(i)) <= 1
  BY DEF AtMostOnceUnlessOrphaned
<1>1. \A x \in Recorded : \E t \in txns : x.id = t.id /\ x.by = t.by
  BY DEF Recorded, RecordedEffect
<1>2. \A x \in InFlight : \E d \in Deliveries :
        /\ pc[d] \in {"create_star_ledger_entry", "record_transaction"}
        /\ x.id = EventOf[d].id /\ x.by = <<d, attempt[d]>>
  BY DEF InFlight, Unrecorded, Effect, EffectOfSending
<1>3. ASSUME NEW x \in Recorded \cup InFlight, NEW y \in Recorded \cup InFlight, x.id = y.id
      PROVE  x.by = y.by
  <2>1. CASE x \in Recorded /\ y \in Recorded
    BY <1>1, <1>3, <2>1 DEF OnceInv, RecordedOnce
  <2>2. CASE x \in InFlight /\ y \in InFlight
    BY <1>2, <1>3, <2>2 DEF OnceInv, Exclusive, Running, Request
  <2>3. \A r \in Recorded, f \in InFlight : r.id # f.id
    BY <1>1, <1>2 DEF OnceInv, LooksUp
  <2> QED BY <1>3, <2>1, <2>2, <2>3
<1>7. \A x \in Recorded \cup InFlight : x.sending = 0
  BY DEF Recorded, RecordedEffect, InFlight, Effect, EffectOfSending
<1>4. \A a, b \in AppliedBy(i) : a = b
  <2>1. \A x \in orphans : x.id # i
    OBVIOUS
  <2> QED BY <1>3, <1>7, <2>1 DEF AppliedBy
<1>5. CASE AppliedBy(i) = {}
  BY <1>5, FS_EmptySet
<1>6. CASE AppliedBy(i) # {}
  <2>1. PICK a : AppliedBy(i) = {a}
    BY <1>4, <1>6
  <2> QED BY <2>1, FS_Singleton
<1> QED BY <1>5, <1>6

\* Attempts of one transaction that do not overlap and find the index up to date
\* change a balance once, unless a balance update of it was orphaned.
THEOREM OnceWhenSeparated == SeparatedSpec => []AtMostOnceUnlessOrphaned
<1>1. SeparatedSpec => Spec
  <2>1. [Next /\ Separated]_vars => [Next]_vars
    OBVIOUS
  <2> QED BY <2>1, PTL DEF SeparatedSpec, Spec
<1>2. IndInv /\ OnceInv /\ [Next /\ Separated]_vars => OnceInv'
  BY ExclusiveStep, LooksUpStep, RecordedOnceStep DEF OnceInv
<1>3. SeparatedSpec => []OnceInv
  BY InitOnce, IndInvHolds, <1>1, <1>2, PTL DEF SeparatedSpec
<1> QED BY <1>3, OnceMeansOnce, PTL
=============================================================================
