--------------------------- MODULE LambdaDelivery ---------------------------
(***************************************************************************)
(* How an event reaches a handler and how an attempt at it ends.           *)
(* EventBridge delivers an event at least once: two deliveries may carry   *)
(* the same event.  Each delivery is an asynchronous Lambda invocation: an *)
(* attempt that crashes or times out is retried until MaxAttempts were     *)
(* made, then the event goes to the dead-letter queue.  A handler that     *)
(* returns, whatever status code it returns, has succeeded for Lambda.     *)
(*                                                                         *)
(* pc[d] names the DynamoDB request an attempt makes next; the code        *)
(* between two requests belongs to the step of the earlier one.            *)
(***************************************************************************)
EXTENDS RewardsTable

CONSTANTS
  Deliveries,    \* the invocations EventBridge makes
  EventOf,       \* the event each of them carries
  MaxAttempts,   \* the first attempt and its retries: three in the stack
  Faults         \* the kinds of fault that may happen

VARIABLES
  pc,        \* where the current attempt of each delivery is
  attempt,   \* the number of attempts started
  local,     \* the local variables of the attempt
  answer,    \* what the handler returned
  orphans    \* history: balance updates nobody recorded, because their attempt
             \* ended first or because it never heard that they were applied

deliveryVars == <<pc, attempt, local, answer, orphans>>

PurchaseEvent == [type : {"purchase"}, id : TxnIds, member : Members,
                  cents : Int, doubleStarDay : BOOLEAN, personalCup : BOOLEAN]

RedemptionEvent == [type : {"redemption"}, id : TxnIds, member : Members,
                    starsToRedeem : Int]

FaultKinds == {"crash", "request error", "response lost", "event too old"}

ASSUME DeliveryAssumption ==
  /\ EventOf \in [Deliveries -> PurchaseEvent \cup RedemptionEvent]
  /\ MaxAttempts \in Nat \ {0}
  /\ Faults \subseteq FaultKinds
  /\ Deliveries \X (1..MaxAttempts) \subseteq Stamps

Request == {"check_transaction_exists", "get_member", "update_member_balance",
            "create_star_ledger_entry", "record_transaction"}

Running == Request \cup {"return"}

Answer == {"processed", "already processed", "invalid", "member not found",
           "insufficient stars", "internal error"}

NoAnswer == "none"

\* unanswered counts the sendings of the balance update that botocore made
\* without the handler knowing.
Local == [tier : Tier, stars : Int, now : Day, unanswered : Sending]

NoLocal == [tier |-> "Green", stars |-> 0, now |-> 0, unanswered |-> 0]

DeliveryInit ==
  /\ pc = [d \in Deliveries |-> "queued"]
  /\ attempt = [d \in Deliveries |-> 0]
  /\ local = [d \in Deliveries |-> NoLocal]
  /\ answer = [d \in Deliveries |-> NoAnswer]
  /\ orphans = {}

-----------------------------------------------------------------------------
\* The balance change of the current attempt at d, as the audit trail sees it.
Delta(d) == IF EventOf[d].type = "purchase" THEN local[d].stars
                                            ELSE -local[d].stars

EffectOfSending(d, n) ==
  [by |-> <<d, attempt[d]>>, id |-> EventOf[d].id,
   member |-> EventOf[d].member, stars |-> Delta(d), sending |-> n]

Effect(d) == EffectOfSending(d, 0)

\* The attempt at d has changed a balance and not yet recorded why.
Unrecorded(d) == pc[d] \in {"create_star_ledger_entry", "record_transaction"}

InFlight == {Effect(d) : d \in {e \in Deliveries : Unrecorded(e)}}

GoTo(d, label) == pc' = [pc EXCEPT ![d] = label]

Return(d, result) ==
  /\ pc' = [pc EXCEPT ![d] = "done"]
  /\ answer' = [answer EXCEPT ![d] = result]

Abandon(d) ==
  orphans' = IF Unrecorded(d) THEN orphans \cup {Effect(d)} ELSE orphans

-----------------------------------------------------------------------------
\* An attempt that nobody counts.
InvokeUncounted(d) ==
  /\ pc[d] = "queued"
  /\ GoTo(d, "check_transaction_exists")
  /\ UNCHANGED <<tableVars, today, attempt, local, answer, orphans>>

\* Lambda starts the first or the next attempt.
Invoke(d) ==
  /\ pc[d] = "queued"
  /\ attempt' = [attempt EXCEPT ![d] = @ + 1]
  /\ GoTo(d, "check_transaction_exists")
  /\ UNCHANGED <<tableVars, today, local, answer, orphans>>

\* The opening steps the handlers share: look the transaction id up in GSI2,
\* and only when it is not there validate the data of the event.  The response
\* to a duplicate quotes starsEarned or starsRedeemed of the record found; a
\* record of the handler's own type has that attribute, DynamoDB returns it as a
\* Decimal, json.dumps raises TypeError, and the catch-all answers 500.
CheckIdempotency(d, valid, ownType) ==
  /\ pc[d] = "check_transaction_exists"
  /\ \/ \E t \in CheckTransactionExists(EventOf[d].id) :
          Return(d, IF t.type = ownType THEN "internal error"
                                        ELSE "already processed")
     \/ /\ CheckTransactionExists(EventOf[d].id) = {}
        /\ ~valid
        /\ Return(d, "invalid")
     \/ /\ CheckTransactionExists(EventOf[d].id) = {}
        /\ valid
        /\ GoTo(d, "get_member")
        /\ UNCHANGED answer
  /\ UNCHANGED <<tableVars, today, attempt, local, orphans>>

\* A response that does not wait for the record.
RespondBeforeRecord(d) ==
  /\ pc[d] \in {"record_transaction", "return"}
  /\ Return(d, "processed")
  /\ UNCHANGED <<tableVars, today, attempt, local, orphans>>

\* The handler returns its 200 response.
Respond(d) ==
  /\ pc[d] = "return"
  /\ Return(d, "processed")
  /\ UNCHANGED <<tableVars, today, attempt, local, orphans>>

\* One retry too many.
AfterCrashOneMore(d) ==
  IF attempt[d] <= MaxAttempts THEN "queued" ELSE "dead letter"

\* Lambda retries an attempt that did not return, or gives the event up.
AfterCrash(d) == IF attempt[d] < MaxAttempts THEN "queued" ELSE "dead letter"

\* The runtime dies or the 30 second timeout strikes between two requests.
Crash(d) ==
  /\ "crash" \in Faults
  /\ pc[d] \in Running
  /\ GoTo(d, AfterCrash(d))
  /\ local' = [local EXCEPT ![d] = NoLocal]
  /\ Abandon(d)
  /\ UNCHANGED <<tableVars, today, attempt, answer>>

\* The update of the balance is applied, but its response is lost or is a 5xx:
\* botocore sends the same request again, and the handler knows nothing of it.
\* Nothing will ever record this sending.
UpdateUnanswered(d, annualDelta, activity) ==
  /\ "response lost" \in Faults
  /\ pc[d] = "update_member_balance"
  /\ local[d].unanswered < MaxUnanswered
  /\ UpdateMemberBalance(EventOf[d].member, Delta(d), annualDelta, activity)
  /\ local' = [local EXCEPT ![d].unanswered = @ + 1]
  /\ orphans' = orphans \cup {EffectOfSending(d, local[d].unanswered + 1)}
  /\ UNCHANGED <<ledger, txns, byTxnId, today, pc, attempt, answer>>

\* A request raises an exception that is no failed condition: the catch-all of
\* the handler returns a 500 response instead of raising.  It may have been
\* applied before every response to it was lost: such a write is the failure
\* of the step after it, for the last one, record_transaction, at "return".
RequestFails(d) ==
  /\ "request error" \in Faults
  /\ pc[d] \in Running
  /\ Return(d, "internal error")
  /\ Abandon(d)
  /\ UNCHANGED <<tableVars, today, attempt, local>>

\* The event waited longer than maxEventAge for its next attempt.
Discard(d) ==
  /\ "event too old" \in Faults
  /\ pc[d] = "queued"
  /\ GoTo(d, "dead letter")
  /\ UNCHANGED <<tableVars, today, attempt, local, answer, orphans>>
=============================================================================
