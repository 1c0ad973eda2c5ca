---------------------------- MODULE StarAccounts ----------------------------
(***************************************************************************)
(* The core of the rewards program: purchase and redemption events,        *)
(* delivered at least once, handled concurrently by attempts that may      *)
(* crash or fail between any two DynamoDB requests, and the star balances, *)
(* ledger entries and transaction records they leave behind.               *)
(***************************************************************************)
EXTENDS PurchaseHandler, RedemptionHandler

vars == <<tableVars, today, deliveryVars>>

Init == TableInit /\ DeliveryInit

\* What the attempts do when nothing goes wrong.
Step(d) == Invoke(d) \/ Purchase(d) \/ Redeem(d) \/ Respond(d)

Fault(d) ==
  \/ Crash(d)
  \/ RequestFails(d)
  \/ PurchaseUpdateUnanswered(d)
  \/ RedemptionUpdateUnanswered(d)
  \/ Discard(d)

Propagate == PropagateToIndex /\ UNCHANGED deliveryVars

PassDay == NextDay /\ UNCHANGED deliveryVars

Next ==
  \/ \E d \in Deliveries : Step(d) \/ Fault(d)
  \/ Propagate
  \/ PassDay

Spec == Init /\ [][Next]_vars

\* Lambda keeps running what it accepted and DynamoDB keeps copying records to
\* the index; nothing obliges a fault to happen.
FairSpec ==
  Spec /\ WF_vars(Propagate) /\ \A d \in Deliveries : WF_vars(Step(d))

\* Deliveries of one transaction that keep clear of each other: an attempt
\* starts only when no other attempt at its transaction is running and the
\* index shows every record.
Separated ==
  \A d \in Deliveries :
    pc[d] = "queued" /\ pc'[d] # pc[d] =>
      /\ byTxnId = txns
      /\ \A e \in Deliveries \ {d} :
           EventOf[e].id = EventOf[d].id => pc[e] \notin Running

SeparatedSpec == Init /\ [][Next /\ Separated]_vars

-----------------------------------------------------------------------------
\* The recorded transaction seen as an effect on the balance: that of the one
\* sending the attempt received an answer to.
RecordedEffect(t) ==
  [by |-> t.by, id |-> t.id, member |-> t.member,
   stars |-> IF t.type = "PURCHASE" THEN t.stars ELSE -t.stars,
   sending |-> 0]

Recorded == {RecordedEffect(t) : t \in txns}

\* Every effect an attempt of some delivery can have.
PossibleStars(d) ==
  IF IsPurchase(d)
  THEN {CalculateStars(EventOf[d].cents, tier, EventOf[d].doubleStarDay,
                       EventOf[d].personalCup) : tier \in Tier}
  ELSE {-EventOf[d].starsToRedeem}

PossibleEffects ==
  UNION {[by : {d} \X (1..MaxAttempts), id : {EventOf[d].id},
          member : {EventOf[d].member}, stars : PossibleStars(d),
          sending : Sending] : d \in Deliveries}

StarsOf(p) == IF p = NoMember THEN 0 ELSE p.starBalance

Audit == INSTANCE AuditedAccounts WITH
  Accounts       <- Members,
  Effects        <- PossibleEffects,
  OpeningBalance <- [m \in Members |-> StarsOf(Opening[m])],
  balance        <- [m \in Members |-> StarsOf(profile[m])],
  pending        <- InFlight,
  journal        <- Recorded,
  lost           <- orphans

-----------------------------------------------------------------------------
\* Every variable keeps its type: the items have the attributes the client
\* writes, and every attempt is at a request, waiting or ended.
TypeOK ==
  /\ profile \in [Members -> Profile \cup {NoMember}]
  /\ ledger \subseteq LedgerEntry
  /\ txns \subseteq Transaction
  /\ byTxnId \subseteq txns
  /\ today \in Day
  /\ pc \in [Deliveries -> Running \cup {"queued", "done", "dead letter"}]
  /\ attempt \in [Deliveries -> 0..MaxAttempts]
  /\ local \in [Deliveries -> Local]
  /\ answer \in [Deliveries -> Answer \cup {NoAnswer}]
  /\ orphans \subseteq PossibleEffects

\* No star balance is ever negative, however purchases and redemptions that
\* read the profile earlier interleave (the condition of update_member_balance
\* in common/dynamodb.py and the validation of redemption amounts).
BalanceNonNegative ==
  \A m \in Members : profile[m] # NoMember => profile[m].starBalance >= 0

\* The audit trail explains every balance: a balance is the opening one plus
\* the recorded transactions, the updates of running attempts about to be
\* recorded and the orphaned ones, each sending of an update that was applied
\* without an answer among them (update_member_balance, record_transaction).
AuditTrailExplainsBalance == Audit!Conserved

\* The answer of a finished attempt agrees with the table.  "processed": its own
\* record is there.  "already processed": another attempt recorded the
\* transaction and this one wrote nothing.  A refused event leaves nothing, except
\* that "insufficient stars" may follow a deduction that was applied unanswered.
\* "internal error": the update has its record or is an orphan, never both, and
\* an entry only comes with one of the two (the responses of the handlers).
AnswersMatchTable ==
  \A d \in Deliveries :
    LET mine(S) == {x \in S : x.by = <<d, attempt[d]>>}
        of(S) == {x \in S : x.id = EventOf[d].id}
        unrecorded == {o \in mine(orphans) : o.sending = 0}
    IN  /\ answer[d] = "processed" => of(mine(txns)) # {} /\ unrecorded = {}
        /\ answer[d] = "already processed" =>
             of(txns) # {} /\ mine(txns \cup ledger \cup orphans) = {}
        /\ answer[d] \in {"invalid", "member not found"} =>
             mine(txns \cup ledger \cup orphans) = {}
        /\ answer[d] = "insufficient stars" =>
             mine(txns \cup ledger) \cup unrecorded = {}
        /\ answer[d] = "internal error" =>
             /\ mine(txns) = {} \/ unrecorded = {}
             /\ mine(ledger) # {} => mine(txns) \cup unrecorded # {}

\* Every star a Green member was credited for a recorded purchase is aged by
\* one ledger entry of the same attempt, and there is no entry without a credit
\* of the same number of stars (purchase/handler.py creates the entry between
\* the balance update and the record).
LedgerMatchesGreenCredits ==
  LET Green(m) == Opening[m] # NoMember /\ Opening[m].tier = "Green"
  IN  /\ \A t \in txns :
           t.type = "PURCHASE" /\ Green(t.member) =>
             \E b \in ledger :
               /\ b.by = t.by
               /\ <<b.member, b.stars, b.day>> = <<t.member, t.stars, t.day>>
      /\ \A b \in ledger :
           /\ Green(b.member)
           /\ \E e \in Recorded \cup InFlight \cup orphans :
                /\ e.by = b.by
                /\ <<e.member, e.stars>> = <<b.member, b.stars>>

\* The updates applied to a balance in the name of transaction t: the attempts
\* that sent them, and which of their sendings it was.
AppliedBy(t) ==
  {<<e.by, e.sending>> : e \in {x \in Recorded \cup InFlight \cup orphans : x.id = t}}

\* A transaction id changes a balance at most once: requirement 10.3, "shall
\* not modify the Member's Star_Balance" for a duplicate.
AtMostOncePerTransaction ==
  \A t \in TxnIds : Cardinality(AppliedBy(t)) <= 1

\* The idempotency check holds as long as no update of the transaction was
\* orphaned, by an attempt that ended before its record or by a response that
\* was lost: then the transaction changes a balance at most once.
AtMostOnceUnlessOrphaned ==
  \A t \in TxnIds :
    t \notin {o.id : o \in orphans} => Cardinality(AppliedBy(t)) <= 1

\* An attempt that is running has a number, one that waits has one left, and the
\* locals of an attempt are what its event and the profile it read make them.
Progress(d) ==
  /\ pc[d] \in Running => attempt[d] > 0
  /\ pc[d] = "queued" => attempt[d] < MaxAttempts
  /\ pc[d] \in Running \ {"check_transaction_exists"} =>
       IF IsPurchase(d) THEN ValidPurchase(EventOf[d])
                        ELSE ValidRedemption(EventOf[d])
  /\ pc[d] \in Running \ {"check_transaction_exists", "get_member"} =>
       /\ profile[EventOf[d].member] # NoMember
       /\ Delta(d) = IF IsPurchase(d)
                       THEN CalculateStars(EventOf[d].cents, local[d].tier,
                              EventOf[d].doubleStarDay, EventOf[d].personalCup)
                       ELSE -EventOf[d].starsToRedeem
  /\ pc[d] = "create_star_ledger_entry" => IsPurchase(d)

\* What carries the stamp of an attempt was written by it: nothing is stamped
\* with a later attempt, and nothing with this one before it got there; while it
\* runs, its only orphans are the sendings counted as unanswered.
Stamped(d) ==
  LET own(S) == {x \in S : x.by = <<d, attempt[d]>>}
  IN  /\ \A x \in txns \cup ledger \cup orphans : x.by[1] = d => x.by[2] \in 1..attempt[d]
      /\ pc[d] \in {"check_transaction_exists", "get_member"}
           => own(orphans) = {}
      /\ pc[d] \in {"check_transaction_exists", "get_member",
                    "update_member_balance", "create_star_ledger_entry"}
           => own(txns \cup ledger) = {}
      /\ pc[d] = "record_transaction" => own(txns) = {}
      /\ pc[d] \in Running =>
           \A o \in own(orphans) : o.sending \in 1..local[d].unanswered
      /\ pc[d] = "return" => \E t \in own(txns) : t.id = EventOf[d].id
      /\ answer[d] # NoAnswer <=> pc[d] = "done"

\* The inductive invariant of the core: what the proofs rest on.
IndInv ==
  /\ TypeOK
  /\ BalanceNonNegative
  /\ AnswersMatchTable
  /\ \A d \in Deliveries : Progress(d) /\ Stamped(d)

\* The handlers implement the abstract accounts: a balance moves only by a
\* sending of an attempt's update, never below zero; the sending that is answered
\* moves it once and ends in the audit trail or among the orphans, and any other
\* is among the orphans at once.
ImplementsAudit == Audit!Spec

\* Every delivery ends: with an answer of a handler or in the dead-letter queue
\* (retry attempts of the Lambda functions in rewards-stack.ts).
EveryDeliveryEnds ==
  \A d \in Deliveries : <>[](pc[d] \in {"done", "dead letter"})
=============================================================================
