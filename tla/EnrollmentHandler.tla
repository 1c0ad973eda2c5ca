-------------------------- MODULE EnrollmentHandler --------------------------
(***************************************************************************)
(* enrollment/handler.py: a signup event makes a member.  The handler      *)
(* looks the transaction id up in GSI2, puts a profile under a membership  *)
(* id it draws, and records the transaction.  Delivery is that of the      *)
(* other events: at least once, three attempts, a dead-letter queue, and   *)
(* any response counts as success.                                         *)
(*                                                                         *)
(* Members are the ids the attempts draw: member <<s, k>> is the one       *)
(* attempt k at signup s draws.  The pool of ids is unused at the start.   *)
(***************************************************************************)
EXTENDS RewardsTable

CONSTANTS
  Signups,             \* the invocations EventBridge makes
  SignupOf,            \* the event each of them carries
  MaxSignupAttempts,   \* the first attempt and its retries: three in the stack
  SignupFaults,        \* the kinds of fault that may happen
  SignupDays           \* the days the clock shows

VARIABLES
  phase,    \* the request the current attempt of each signup makes next
  tries,    \* the number of attempts started
  drawnOn,  \* the day the attempt drew its id and took the time
  reply     \* what the handler returned

signupVars == <<phase, tries, drawnOn, reply>>

enrollmentVars == <<tableVars, today, signupVars>>

\* The signup data of an event may be invalid.  An event without the form of one
\* is answered before the first request and leaves no trace.
SignupEvent == [id : TxnIds, valid : BOOLEAN]

ASSUME SignupAssumption ==
  /\ SignupOf \in [Signups -> SignupEvent]
  /\ MaxSignupAttempts \in Nat \ {0}
  /\ SignupFaults \subseteq {"crash", "request error", "response lost", "event too old"}
  /\ SignupDays \subseteq 0..MaxDay
  /\ Members = Signups \X (1..MaxSignupAttempts)
  /\ Members \subseteq Stamps
  /\ \A m \in Members : Opening[m] = NoMember

EvaluationPeriod == 365

SignupRequest == {"check_transaction_exists", "create_member", "record_transaction"}

AtWork == SignupRequest \cup {"return"}

ReplyKind == {"none", "enrolled", "already enrolled", "duplicate enrollment",
              "invalid", "internal error"}

Replied(kind, m) == [kind |-> kind, member |-> m]

EnrollmentInit ==
  /\ TableInit
  /\ phase = [s \in Signups |-> "queued"]
  /\ tries = [s \in Signups |-> 0]
  /\ drawnOn = [s \in Signups |-> 0]
  /\ reply = [s \in Signups |-> Replied("none", NoMember)]

\* uuid4() of the current attempt.
DrawnId(s) == <<s, tries[s]>>

PhaseGoesTo(s, label) == phase' = [phase EXCEPT ![s] = label]

ReplyWith(s, kind, m) ==
  /\ PhaseGoesTo(s, "done")
  /\ reply' = [reply EXCEPT ![s] = Replied(kind, m)]

\* The profile of a new member: Green, no stars, due in a year.
NewMember(day) ==
  [tier |-> "Green", starBalance |-> 0, annualStarCount |-> 0,
   lastQualifyingActivity |-> NeverActive,
   nextTierEvaluation |-> day + EvaluationPeriod,
   evaluationKey |-> day + EvaluationPeriod]

-----------------------------------------------------------------------------
\* Lambda starts the first or the next attempt.
Begin(s) ==
  /\ phase[s] = "queued"
  /\ tries' = [tries EXCEPT ![s] = @ + 1]
  /\ PhaseGoesTo(s, "check_transaction_exists")
  /\ UNCHANGED <<tableVars, today, drawnOn, reply>>

\* A known transaction is answered with the member of its record; the data of a
\* new one is validated next, and the attempt draws an id and takes the time.
CheckSignup(s) ==
  LET known == CheckTransactionExists(SignupOf[s].id)
  IN  /\ phase[s] = "check_transaction_exists"
      /\ \/ /\ \E t \in known : ReplyWith(s, "already enrolled", t.member)
            /\ UNCHANGED drawnOn
         \/ /\ known = {} /\ ~SignupOf[s].valid
            /\ ReplyWith(s, "invalid", NoMember)
            /\ UNCHANGED drawnOn
         \/ /\ known = {} /\ SignupOf[s].valid
            /\ drawnOn' = [drawnOn EXCEPT ![s] = today]
            /\ PhaseGoesTo(s, "create_member")
            /\ UNCHANGED reply
      /\ UNCHANGED <<tableVars, today, tries>>

\* When the response to the put is lost, boto3 sends it again; the condition
\* then fails, and the ValueError "already exists" makes a 422 response.
PutProfile(s) ==
  /\ phase[s] = "create_member"
  /\ CreateMember(DrawnId(s), NewMember(drawnOn[s]))
  /\ \/ /\ PhaseGoesTo(s, "record_transaction")
        /\ UNCHANGED reply
     \/ /\ "response lost" \in SignupFaults
        /\ ReplyWith(s, "duplicate enrollment", DrawnId(s))
  /\ UNCHANGED <<ledger, txns, byTxnId, today, tries, drawnOn>>

\* Enrollment is recorded as a change of tier.
RecordEnrollment(s) ==
  /\ phase[s] = "record_transaction"
  /\ RecordTransaction([id |-> SignupOf[s].id, member |-> DrawnId(s),
                        type |-> "TIER_CHANGE", stars |-> 0,
                        day |-> drawnOn[s], by |-> DrawnId(s)])
  /\ PhaseGoesTo(s, "return")
  /\ UNCHANGED <<profile, ledger, byTxnId, today, tries, drawnOn, reply>>

\* A response that does not wait for the record.
ConfirmBeforeRecord(s) ==
  /\ phase[s] \in {"record_transaction", "return"}
  /\ ReplyWith(s, "enrolled", DrawnId(s))
  /\ UNCHANGED <<tableVars, today, tries, drawnOn>>

\* The 201 response.
Confirm(s) ==
  /\ phase[s] = "return"
  /\ ReplyWith(s, "enrolled", DrawnId(s))
  /\ UNCHANGED <<tableVars, today, tries, drawnOn>>

\* One retry too many.
SignupCrashOneMore(s) ==
  /\ "crash" \in SignupFaults
  /\ phase[s] \in AtWork
  /\ PhaseGoesTo(s, IF tries[s] <= MaxSignupAttempts THEN "queued" ELSE "dead letter")
  /\ UNCHANGED <<tableVars, today, tries, drawnOn, reply>>

\* A crash without retry and without a dead-letter queue.
SignupCrashUnhandled(s) ==
  /\ "crash" \in SignupFaults
  /\ phase[s] \in AtWork
  /\ PhaseGoesTo(s, "lost")
  /\ UNCHANGED <<tableVars, today, tries, drawnOn, reply>>

\* The runtime dies or the 30 second timeout strikes between two requests;
\* Lambda retries the attempt or gives the event up.
SignupCrash(s) ==
  /\ "crash" \in SignupFaults
  /\ phase[s] \in AtWork
  /\ PhaseGoesTo(s, IF tries[s] < MaxSignupAttempts THEN "queued" ELSE "dead letter")
  /\ UNCHANGED <<tableVars, today, tries, drawnOn, reply>>

\* A ClientError that is no failed condition is answered with a 500 response.
\* When the request was applied and every response to it lost, the error is that
\* of the next phase: at "return" the member and the record are in the table.
SignupRequestFails(s) ==
  /\ "request error" \in SignupFaults
  /\ phase[s] \in AtWork
  /\ ReplyWith(s, "internal error", NoMember)
  /\ UNCHANGED <<tableVars, today, tries, drawnOn>>

\* The event waited longer than maxEventAge for its next attempt.
SignupDiscard(s) ==
  /\ "event too old" \in SignupFaults
  /\ phase[s] = "queued"
  /\ PhaseGoesTo(s, "dead letter")
  /\ UNCHANGED <<tableVars, today, tries, drawnOn, reply>>

Enroll(s) ==
  \/ Begin(s)
  \/ CheckSignup(s)
  \/ PutProfile(s)
  \/ RecordEnrollment(s)
  \/ Confirm(s)

SignupFault(s) == SignupCrash(s) \/ SignupRequestFails(s) \/ SignupDiscard(s)

ShowRecord == PropagateToIndex /\ UNCHANGED signupVars

DeleteOldRecord == TimeToLive /\ UNCHANGED signupVars

DayPasses ==
  /\ \E day \in SignupDays : day > today /\ today' = day
  /\ UNCHANGED <<tableVars, signupVars>>

EnrollmentNext ==
  \/ \E s \in Signups : Enroll(s) \/ SignupFault(s)
  \/ ShowRecord
  \/ DeleteOldRecord
  \/ DayPasses

EnrollmentSpec == EnrollmentInit /\ [][EnrollmentNext]_enrollmentVars

\* Lambda keeps running what it accepted.
FairEnrollmentSpec ==
  EnrollmentSpec /\ \A s \in Signups : WF_enrollmentVars(Enroll(s))

-----------------------------------------------------------------------------
RecordsOf(m) == {t \in txns : t.member = m}

Enrolled(m) == profile[m] # NoMember

\* The attempt that drew m ended between its two writes.
LeftUnrecorded(m) ==
  LET s == m[1]
  IN  \/ tries[s] > m[2]
      \/ phase[s] \in {"queued", "dead letter"}
      \/ reply[s].kind \in {"duplicate enrollment", "internal error"}

\* The type invariant of enrollment.
EnrollmentTypeOK ==
  /\ profile \in [Members -> Profile \cup {NoMember}]
  /\ ledger = {}
  /\ txns \subseteq Transaction
  /\ byTxnId \subseteq txns
  /\ today \in 0..MaxDay
  /\ phase \in [Signups -> AtWork \cup {"queued", "done", "dead letter"}]
  /\ tries \in [Signups -> 0..MaxSignupAttempts]
  /\ drawnOn \in [Signups -> 0..MaxDay]
  /\ reply \in [Signups -> [kind : ReplyKind, member : Members \cup {NoMember}]]

\* The member is older than DynamoDB keeps a record of the enrollment.
Outlived(m) ==
  profile[m].nextTierEvaluation - EvaluationPeriod + RetentionDays <= today

\* Every member in the table has a record of the enrollment, or is about to get
\* it, or has outlived it, or is the remainder of an attempt that ended between
\* create_member and record_transaction; and every record has its member, due
\* for evaluation a year after the day of the record.
MembersAreAccountedFor ==
  /\ \A m \in Members :
       Enrolled(m) =>
         \/ RecordsOf(m) # {}
         \/ Outlived(m)
         \/ phase[m[1]] = "record_transaction" /\ DrawnId(m[1]) = m
         \/ LeftUnrecorded(m)
  /\ \A t \in txns :
       Enrolled(t.member)
         /\ profile[t.member].nextTierEvaluation = t.day + EvaluationPeriod

ReplyMatches(s) ==
  LET m == reply[s].member
      recorded == \E t \in txns : t.id = SignupOf[s].id /\ t.member = m
  IN  /\ reply[s].kind \in {"enrolled", "already enrolled"} =>
           Enrolled(m) /\ (recorded \/ Outlived(m))
      /\ reply[s].kind = "duplicate enrollment" => Enrolled(m) /\ ~recorded
      /\ reply[s].kind = "invalid" =>
           \A k \in 1..MaxSignupAttempts : ~Enrolled(<<s, k>>)

\* An answer agrees with the table: the member it names exists and has the
\* record of this transaction for the 30 days DynamoDB keeps it, except that
\* "duplicate enrollment" names a member nobody recorded; and an invalid signup
\* leaves no member (the handler's responses, validate_signup_data).
RepliesMatchTable == \A s \in Signups : ReplyMatches(s)

\* Every signup ends: with an answer of the handler or in the dead-letter queue
\* (retryAttempts and deadLetterQueue of the enrollment function).
EverySignupEnds ==
  \A s \in Signups : <>[](phase[s] \in {"done", "dead letter"})
=============================================================================
