-------------------------- MODULE EnrollmentProofs --------------------------
(***************************************************************************)
(* What holds of EnrollmentHandler for every set of signups, whatever they *)
(* carry, and any number of attempts and faults.                           *)
(***************************************************************************)
EXTENDS EnrollmentHandler, TLAPS

\* The id that signup s draws at its attempt k.
Member(s, k) == <<s, k>>

\* The enrollment of signup s is on record.
Recorded(s) ==
  \E t \in txns : t.id = SignupOf[s].id /\ t.member = DrawnId(s)

\* How far the current attempt at s has come, and what that says of the members
\* its attempts drew.
Attempting(s) ==
  /\ phase[s] = "queued" => tries[s] < MaxSignupAttempts
  /\ phase[s] \in AtWork => tries[s] >= 1
  /\ reply[s].kind # "none" => phase[s] = "done"
  /\ phase[s] \in {"check_transaction_exists", "create_member"} => ~Enrolled(DrawnId(s))
  /\ phase[s] \in {"create_member", "record_transaction", "return"} => SignupOf[s].valid
  /\ phase[s] = "record_transaction" =>
       /\ Enrolled(DrawnId(s))
       /\ RecordsOf(DrawnId(s)) = {}
       /\ profile[DrawnId(s)].nextTierEvaluation = drawnOn[s] + EvaluationPeriod
  /\ phase[s] = "return" =>
       Enrolled(DrawnId(s)) /\ (Recorded(s) \/ Outlived(DrawnId(s)))
  /\ reply[s].kind \in {"enrolled", "already enrolled"} => reply[s].member \in Members
  /\ reply[s].kind = "duplicate enrollment" =>
       reply[s].member = DrawnId(s) /\ tries[s] >= 1
  /\ reply[s].kind = "invalid" => ~SignupOf[s].valid
  /\ \A k \in 1..MaxSignupAttempts :
       Enrolled(Member(s, k)) => k <= tries[s] /\ SignupOf[s].valid

\* The two invariants with what the steps of an attempt need to keep them.
EnrollmentInv ==
  /\ EnrollmentTypeOK
  /\ MembersAreAccountedFor
  /\ RepliesMatchTable
  /\ \A s \in Signups : Attempting(s)

\* The record of the current attempt at s.
EnrollmentRecord(s) ==
  [id |-> SignupOf[s].id, member |-> DrawnId(s), type |-> "TIER_CHANGE", stars |-> 0,
   day |-> drawnOn[s], by |-> DrawnId(s)]

-----------------------------------------------------------------------------
\* The steps of one signup.
SignupAction(s) ==
  \/ Begin(s) \/ CheckSignup(s) \/ PutProfile(s) \/ RecordEnrollment(s) \/ Confirm(s)
  \/ SignupCrash(s) \/ SignupRequestFails(s) \/ SignupDiscard(s)

\* A step is one of a signup, of DynamoDB, or a later day.
LEMMA EnrollmentCases ==
  ASSUME [EnrollmentNext]_enrollmentVars
  PROVE  \/ \E s \in Signups : SignupAction(s)
         \/ ShowRecord \/ DeleteOldRecord \/ DayPasses \/ UNCHANGED enrollmentVars
  BY DEF EnrollmentNext, Enroll, SignupFault, SignupAction

\* The bound of attempts is a number.
LEMMA AttemptsAreNatural == MaxSignupAttempts \in Nat
  BY SignupAssumption

\* The member that attempt k at a signup draws.
LEMMA DrawnMembers ==
  ASSUME NEW s \in Signups, NEW k \in 1..MaxSignupAttempts
  PROVE  Member(s, k) \in Members /\ Member(s, k) \in Stamps
  BY SignupAssumption DEF Member

\* A profile of a new member is one, and not the absence of one.
LEMMA NewMemberIsProfile ==
  ASSUME NEW day \in 0..MaxDay
  PROVE  /\ NewMember(day) \in Profile
         /\ NewMember(day) # NoMember
         /\ NewMember(day).nextTierEvaluation = day + EvaluationPeriod
<1>1. day + 365 \in Nat
  BY MaxDayAssumption
<1>2. NewMember(day) \in Profile
  BY <1>1 DEF NewMember, Profile, Tier, Day, NeverActive, EvaluationPeriod
<1> QED BY <1>2, NoMemberAssumption DEF NewMember

\* What a step of signup s leaves alone: the other signups, the members they
\* drew, and whatever is in the table already.
LEMMA OtherSignups ==
  ASSUME EnrollmentTypeOK, NEW s \in Signups, SignupAction(s)
  PROVE  /\ \A q \in Signups \ {s} :
              /\ phase'[q] = phase[q] /\ tries'[q] = tries[q]
              /\ drawnOn'[q] = drawnOn[q] /\ reply'[q] = reply[q]
         /\ \A m \in Members \ {DrawnId(s)} : profile'[m] = profile[m]
         /\ \A m \in Members : Enrolled(m) => profile'[m] = profile[m]
         /\ txns \subseteq txns'
         /\ \A t \in txns' \ txns : t.member = DrawnId(s)
         /\ today' = today
<1> USE DEF EnrollmentTypeOK, tableVars, PhaseGoesTo, ReplyWith
<1>1. CASE Begin(s)
  BY <1>1 DEF Begin
<1>2. CASE CheckSignup(s)
  BY <1>2 DEF CheckSignup
<1>3. CASE PutProfile(s)
  BY <1>3 DEF PutProfile, CreateMember, Enrolled
<1>4. CASE RecordEnrollment(s)
  <2>1. txns' = txns \cup {EnrollmentRecord(s)}
    BY <1>4 DEF RecordEnrollment, RecordTransaction, EnrollmentRecord
  <2>2. EnrollmentRecord(s).member = DrawnId(s)
    BY DEF EnrollmentRecord
  <2>3. /\ phase' = [phase EXCEPT ![s] = "return"]
        /\ UNCHANGED <<profile, today, tries, drawnOn, reply>>
    BY <1>4 DEF RecordEnrollment
  <2> QED BY <2>1, <2>2, <2>3
<1>5. CASE Confirm(s)
  BY <1>5 DEF Confirm
<1>6. CASE SignupCrash(s)
  BY <1>6 DEF SignupCrash
<1>7. CASE SignupRequestFails(s)
  BY <1>7 DEF SignupRequestFails
<1>8. CASE SignupDiscard(s)
  BY <1>8 DEF SignupDiscard
<1> QED BY <1>1, <1>2, <1>3, <1>4, <1>5, <1>6, <1>7, <1>8 DEF SignupAction

\* A signup at work has drawn the id of its attempt.
LEMMA DrawnByAttempt ==
  ASSUME EnrollmentTypeOK, NEW s \in Signups, Attempting(s), phase[s] \in AtWork
  PROVE  /\ tries[s] \in 1..MaxSignupAttempts
         /\ DrawnId(s) = Member(s, tries[s])
         /\ DrawnId(s) \in Members
         /\ EnrollmentRecord(s) \in Transaction
<1>1. tries[s] \in 1..MaxSignupAttempts
  <2>1. tries[s] \in 0..MaxSignupAttempts /\ MaxSignupAttempts \in Nat
    BY SignupAssumption DEF EnrollmentTypeOK
  <2>2. tries[s] >= 1
    BY DEF Attempting
  <2> QED BY <2>1, <2>2
<1>2. DrawnId(s) = Member(s, tries[s])
  BY DEF DrawnId, Member
<1>3. DrawnId(s) \in Members /\ DrawnId(s) \in Stamps
  BY <1>1, <1>2, DrawnMembers
<1>4. SignupOf[s].id \in TxnIds
  BY SignupAssumption DEF SignupEvent
<1>5. drawnOn[s] \in Nat
  <2>1. drawnOn[s] \in 0..MaxDay
    BY DEF EnrollmentTypeOK
  <2> QED BY <2>1, MaxDayAssumption
<1>6. EnrollmentRecord(s) \in Transaction
  BY <1>3, <1>4, <1>5 DEF EnrollmentRecord, Transaction, TransactionType, Day
<1> QED BY <1>1, <1>2, <1>3, <1>6

\* A reply keeps the types and ends the signup.
LEMMA RepliesAreTyped ==
  ASSUME NEW s \in Signups, NEW kind \in ReplyKind, NEW m \in Members \cup {NoMember},
         reply \in [Signups -> [kind : ReplyKind, member : Members \cup {NoMember}]],
         ReplyWith(s, kind, m)
  PROVE  /\ reply' \in [Signups -> [kind : ReplyKind, member : Members \cup {NoMember}]]
         /\ reply'[s].kind = kind /\ reply'[s].member = m
         /\ phase' = [phase EXCEPT ![s] = "done"]
<1>1. Replied(kind, m) \in [kind : ReplyKind, member : Members \cup {NoMember}]
  BY DEF Replied
<1>2. reply' = [reply EXCEPT ![s] = Replied(kind, m)]
  BY DEF ReplyWith
<1>3. reply'[s] = Replied(kind, m)
  BY <1>2
<1>4. Replied(kind, m).kind = kind /\ Replied(kind, m).member = m
  BY DEF Replied
<1>5. phase' = [phase EXCEPT ![s] = "done"]
  BY DEF ReplyWith, PhaseGoesTo
<1> QED BY <1>1, <1>2, <1>3, <1>4, <1>5

\* A step of one signup keeps the types.
LEMMA SignupTypes ==
  ASSUME EnrollmentTypeOK, NEW s \in Signups, Attempting(s), SignupAction(s)
  PROVE  EnrollmentTypeOK'
<1> USE DEF EnrollmentTypeOK, tableVars, PhaseGoesTo, ReplyWith, Replied, ReplyKind
<1>1. CASE Begin(s)
  <2>1. tries[s] + 1 \in 0..MaxSignupAttempts
    <3>1. tries[s] \in 0..MaxSignupAttempts /\ MaxSignupAttempts \in Nat
      BY SignupAssumption
    <3>2. tries[s] < MaxSignupAttempts
      BY <1>1 DEF Begin, Attempting
    <3> HIDE DEF EnrollmentTypeOK
    <3> QED BY <3>1, <3>2
  <2> QED BY <1>1, <2>1 DEF Begin, AtWork, SignupRequest
<1>2. CASE CheckSignup(s)
  <2>1. \A t \in CheckTransactionExists(SignupOf[s].id) : t.member \in Members
    BY DEF CheckTransactionExists, Transaction
  <2>2. reply' \in [Signups -> [kind : ReplyKind, member : Members \cup {NoMember}]]
    <3>1. "already enrolled" \in ReplyKind /\ "invalid" \in ReplyKind
      OBVIOUS
    <3>2. CASE \E t \in CheckTransactionExists(SignupOf[s].id) :
                 ReplyWith(s, "already enrolled", t.member)
      BY <2>1, <3>1, <3>2, RepliesAreTyped
    <3>3. CASE ReplyWith(s, "invalid", NoMember)
      BY <3>1, <3>3, RepliesAreTyped
    <3>4. CASE reply' = reply
      BY <3>4
    <3> QED BY <1>2, <3>2, <3>3, <3>4 DEF CheckSignup
  <2>3. /\ phase' \in [Signups -> AtWork \cup {"queued", "done", "dead letter"}]
        /\ drawnOn' \in [Signups -> 0..MaxDay]
        /\ UNCHANGED <<profile, ledger, txns, byTxnId, today, tries>>
    BY <1>2 DEF CheckSignup, AtWork, SignupRequest
  <2> QED BY <2>2, <2>3
<1>3. CASE PutProfile(s)
  <2>1. DrawnId(s) \in Members /\ NewMember(drawnOn[s]) \in Profile
    BY <1>3, DrawnByAttempt, NewMemberIsProfile DEF PutProfile, AtWork, SignupRequest
  <2>2. profile' \in [Members -> Profile \cup {NoMember}]
    BY <1>3, <2>1 DEF PutProfile, CreateMember
  <2>3. reply' \in [Signups -> [kind : ReplyKind, member : Members \cup {NoMember}]]
    <3>1. "duplicate enrollment" \in ReplyKind
      OBVIOUS
    <3>2. CASE ReplyWith(s, "duplicate enrollment", DrawnId(s))
      BY <2>1, <3>1, <3>2, RepliesAreTyped
    <3>3. CASE reply' = reply
      BY <3>3
    <3> QED BY <1>3, <3>2, <3>3 DEF PutProfile
  <2> QED BY <1>3, <2>2, <2>3 DEF PutProfile, AtWork, SignupRequest
<1>4. CASE RecordEnrollment(s)
  <2>1. txns' = txns \cup {EnrollmentRecord(s)}
    BY <1>4 DEF RecordEnrollment, RecordTransaction, EnrollmentRecord
  <2>2. EnrollmentRecord(s) \in Transaction
    BY <1>4, DrawnByAttempt DEF RecordEnrollment, AtWork, SignupRequest
  <2>3. /\ phase' = [phase EXCEPT ![s] = "return"]
        /\ UNCHANGED <<profile, ledger, byTxnId, today, tries, drawnOn, reply>>
    BY <1>4 DEF RecordEnrollment
  <2> QED BY <2>1, <2>2, <2>3 DEF AtWork
<1>5. CASE Confirm(s)
  <2>1. DrawnId(s) \in Members
    BY <1>5, DrawnByAttempt DEF Confirm, AtWork
  <2> QED BY <1>5, <2>1 DEF Confirm
<1>6. CASE SignupCrash(s)
  BY <1>6 DEF SignupCrash
<1>7. CASE SignupRequestFails(s)
  BY <1>7 DEF SignupRequestFails
<1>8. CASE SignupDiscard(s)
  BY <1>8 DEF SignupDiscard
<1> QED BY <1>1, <1>2, <1>3, <1>4, <1>5, <1>6, <1>7, <1>8 DEF SignupAction

\* Signup s does not disturb another one.
LEMMA OthersKeepAttempting ==
  ASSUME EnrollmentTypeOK, NEW s \in Signups, Attempting(s), SignupAction(s),
         NEW q \in Signups \ {s}, Attempting(q)
  PROVE  Attempting(q)'
<1>1. /\ phase'[q] = phase[q] /\ tries'[q] = tries[q]
      /\ drawnOn'[q] = drawnOn[q] /\ reply'[q] = reply[q]
  BY OtherSignups
<1>2. \A k : Member(q, k) # DrawnId(s)
  BY DEF Member, DrawnId
<1>3. \A k \in 1..MaxSignupAttempts : profile'[Member(q, k)] = profile[Member(q, k)]
  BY <1>2, OtherSignups, DrawnMembers
<1>4. \A k : RecordsOf(Member(q, k))' = RecordsOf(Member(q, k))
  <2>1. txns \subseteq txns' /\ \A t \in txns' \ txns : t.member = DrawnId(s)
    BY OtherSignups
  <2> QED BY <1>2, <2>1 DEF RecordsOf, Member
<1>5. DrawnId(q)' = DrawnId(q) /\ DrawnId(q) = Member(q, tries[q])
  BY <1>1 DEF DrawnId, Member
<1>6. phase[q] \in AtWork => tries[q] \in 1..MaxSignupAttempts
  BY DrawnByAttempt
<1>7. phase[q] \in AtWork => /\ Enrolled(DrawnId(q))' <=> Enrolled(DrawnId(q))
                            /\ profile'[DrawnId(q)] = profile[DrawnId(q)]
                            /\ RecordsOf(DrawnId(q))' = RecordsOf(DrawnId(q))
  BY <1>3, <1>4, <1>5, <1>6 DEF Enrolled
<1>8. /\ Recorded(q) => Recorded(q)'
      /\ phase[q] = "return" /\ Outlived(DrawnId(q)) => Outlived(DrawnId(q))'
  <2>1. Recorded(q) => Recorded(q)'
    BY <1>5, OtherSignups DEF Recorded
  <2>2. today' = today
    BY OtherSignups
  <2>3. phase[q] = "return" => profile'[DrawnId(q)] = profile[DrawnId(q)]
    BY <1>7 DEF AtWork
  <2> QED BY <1>5, <2>1, <2>2, <2>3 DEF Outlived
<1>9. \A k \in 1..MaxSignupAttempts :
        Enrolled(Member(q, k))' <=> Enrolled(Member(q, k))
  BY <1>3 DEF Enrolled, Member
<1> QED
  BY <1>1, <1>5, <1>7, <1>8, <1>9 DEF Attempting, AtWork, SignupRequest

\* The answer of an attempt ends it.
LEMMA Answered ==
  ASSUME EnrollmentTypeOK, NEW s \in Signups, NEW kind, NEW m, ReplyWith(s, kind, m)
  PROVE  phase'[s] = "done" /\ reply'[s].kind = kind /\ reply'[s].member = m
<1>1. reply'[s] = Replied(kind, m) /\ phase'[s] = "done"
  BY DEF ReplyWith, PhaseGoesTo, EnrollmentTypeOK
<1> QED BY <1>1 DEF Replied

\* No record names a member who is not in the table.
LEMMA UnknownHasNoRecord ==
  ASSUME MembersAreAccountedFor, NEW m \in Members, ~Enrolled(m)
  PROVE  RecordsOf(m) = {}
  BY DEF MembersAreAccountedFor, RecordsOf

\* A step of a signup keeps its own attempt in order.
LEMMA OwnAttempt ==
  ASSUME EnrollmentTypeOK, MembersAreAccountedFor,
         NEW s \in Signups, Attempting(s), SignupAction(s)
  PROVE  Attempting(s)'
<1>1. tries[s] \in Nat
  <2>1. tries[s] \in 0..MaxSignupAttempts
    BY DEF EnrollmentTypeOK
  <2> QED BY <2>1, AttemptsAreNatural
<1>2. EnrollmentTypeOK'
  BY SignupTypes
<1>3. phase[s] # "done"
  BY DEF SignupAction, Begin, CheckSignup, PutProfile, RecordEnrollment, Confirm,
         SignupCrash, SignupRequestFails, SignupDiscard, AtWork, SignupRequest
<1>4. reply[s].kind = "none"
  BY <1>3 DEF Attempting
<1>5. CASE Begin(s)
  <2>1. /\ phase'[s] = "check_transaction_exists" /\ tries'[s] = tries[s] + 1
        /\ reply' = reply /\ profile' = profile
    BY <1>5 DEF Begin, PhaseGoesTo, EnrollmentTypeOK, tableVars
  <2>2. \A k \in 1..MaxSignupAttempts :
          Enrolled(Member(s, k))' => k <= tries[s] /\ SignupOf[s].valid
    BY <2>1 DEF Attempting, Enrolled, Member
  <2>3. tries'[s] \in 1..MaxSignupAttempts
    <3>1. tries'[s] \in 0..MaxSignupAttempts
      BY <1>2 DEF EnrollmentTypeOK
    <3> QED BY <3>1, <2>1, <1>1, AttemptsAreNatural
  <2>4. PICK k \in 1..MaxSignupAttempts : k = tries'[s] /\ ~(k <= tries[s])
    <3>1. tries'[s] = tries[s] + 1
      BY <2>1
    <3>2. ~(tries[s] + 1 <= tries[s])
      BY <1>1
    <3> QED BY <3>1, <3>2, <2>3
  <2>5. ~Enrolled(DrawnId(s))'
    <3>1. profile'[Member(s, k)] = NoMember
      BY <2>2, <2>4 DEF Enrolled, Member
    <3> QED BY <3>1, <2>4 DEF Enrolled, DrawnId, Member
  <2>6. \A i \in 1..MaxSignupAttempts :
          Enrolled(Member(s, i))' => i <= tries'[s] /\ SignupOf[s].valid
    <3>1. \A i \in 1..MaxSignupAttempts : i <= tries[s] => i <= tries'[s]
      BY <2>1, <1>1, AttemptsAreNatural
    <3> QED BY <3>1, <2>2
  <2>7. tries'[s] >= 1
    BY <2>3, AttemptsAreNatural
  <2> QED BY <2>1, <2>5, <2>6, <2>7, <1>4 DEF Attempting, AtWork, SignupRequest
<1>6. CASE CheckSignup(s)
  <2>1. UNCHANGED <<profile, txns, tries>>
    BY <1>6 DEF CheckSignup, tableVars
  <2>2. /\ Enrolled(DrawnId(s))' = Enrolled(DrawnId(s))
        /\ \A k : Enrolled(Member(s, k))' = Enrolled(Member(s, k))
    BY <2>1 DEF Enrolled, DrawnId, Member
  <2>3. CASE \E t \in CheckTransactionExists(SignupOf[s].id) :
               ReplyWith(s, "already enrolled", t.member)
    <3>1. /\ phase'[s] = "done" /\ reply'[s].kind = "already enrolled"
          /\ reply'[s].member \in Members
      <4>1. PICK t \in CheckTransactionExists(SignupOf[s].id) :
                   ReplyWith(s, "already enrolled", t.member)
        BY <2>3
      <4>2. t.member \in Members
        BY DEF CheckTransactionExists, EnrollmentTypeOK, Transaction
      <4> QED BY <4>1, <4>2, Answered
    <3> QED BY <3>1, <2>1, <2>2 DEF Attempting, AtWork, SignupRequest
  <2>4. CASE ~SignupOf[s].valid /\ ReplyWith(s, "invalid", NoMember)
    <3>1. phase'[s] = "done" /\ reply'[s].kind = "invalid"
      BY <2>4 DEF ReplyWith, Replied, PhaseGoesTo, EnrollmentTypeOK
    <3> QED BY <3>1, <2>1, <2>2, <2>4 DEF Attempting, AtWork, SignupRequest
  <2>5. CASE SignupOf[s].valid /\ PhaseGoesTo(s, "create_member") /\ UNCHANGED reply
    <3>1. phase'[s] = "create_member" /\ reply'[s].kind = "none"
      BY <2>5, <1>4 DEF PhaseGoesTo, EnrollmentTypeOK
    <3>2. phase[s] = "check_transaction_exists"
      BY <1>6 DEF CheckSignup
    <3> QED BY <3>1, <3>2, <2>1, <2>2, <2>5 DEF Attempting, AtWork, SignupRequest
  <2> QED BY <1>6, <2>3, <2>4, <2>5 DEF CheckSignup
<1>7. CASE PutProfile(s)
  <2>1. phase[s] = "create_member" /\ UNCHANGED <<txns, tries, drawnOn>>
    BY <1>7 DEF PutProfile
  <2>2. DrawnId(s) \in Members /\ tries[s] \in 1..MaxSignupAttempts
    BY <2>1, DrawnByAttempt DEF AtWork, SignupRequest
  <2>3. profile'[DrawnId(s)] = NewMember(drawnOn[s])
    BY <1>7, <2>2 DEF PutProfile, CreateMember, EnrollmentTypeOK
  <2>4. drawnOn[s] \in 0..MaxDay
    BY DEF EnrollmentTypeOK
  <2>5. DrawnId(s)' = DrawnId(s) /\ DrawnId(s) = Member(s, tries[s])
    BY <2>1 DEF DrawnId, Member
  <2>6. /\ Enrolled(DrawnId(s))'
        /\ profile'[DrawnId(s)].nextTierEvaluation = drawnOn[s] + EvaluationPeriod
    BY <2>3, <2>4, <2>5, NewMemberIsProfile DEF Enrolled
  <2>7. RecordsOf(DrawnId(s))' = {}
    <3>1. ~Enrolled(DrawnId(s))
      BY <2>1 DEF Attempting
    <3>2. RecordsOf(DrawnId(s)) = {}
      BY <3>1, <2>2, UnknownHasNoRecord
    <3> QED BY <3>2, <2>1, <2>5 DEF RecordsOf
  <2>8. \A k \in 1..MaxSignupAttempts :
          Enrolled(Member(s, k))' => k <= tries[s] /\ SignupOf[s].valid
    <3> SUFFICES ASSUME NEW k \in 1..MaxSignupAttempts, Enrolled(Member(s, k))'
                 PROVE  k <= tries[s] /\ SignupOf[s].valid
      OBVIOUS
    <3>1. SignupOf[s].valid
      BY <2>1 DEF Attempting
    <3>2. CASE k = tries[s]
      BY <3>1, <3>2, <1>1
    <3>3. CASE k # tries[s]
      <4>1. Member(s, k) # DrawnId(s) /\ Member(s, k) \in Members
        BY <2>5, <3>3, DrawnMembers DEF Member
      <4>2. profile'[Member(s, k)] = profile[Member(s, k)]
        BY <4>1, OtherSignups
      <4>3. Enrolled(Member(s, k))
        BY <4>2 DEF Enrolled, Member
      <4> QED BY <4>3 DEF Attempting
    <3> QED BY <3>2, <3>3
  <2>9. \/ phase'[s] = "record_transaction" /\ reply'[s].kind = "none"
        \/ /\ phase'[s] = "done" /\ reply'[s].kind = "duplicate enrollment"
           /\ reply'[s].member = DrawnId(s)
    <3>1. CASE PhaseGoesTo(s, "record_transaction") /\ UNCHANGED reply
      BY <3>1, <1>4 DEF PhaseGoesTo, EnrollmentTypeOK
    <3>2. CASE ReplyWith(s, "duplicate enrollment", DrawnId(s))
      BY <3>2, Answered
    <3> QED BY <1>7, <3>1, <3>2 DEF PutProfile
  <2>10. SignupOf[s].valid /\ tries[s] >= 1
    BY <2>1 DEF Attempting, AtWork, SignupRequest
  <2> QED BY <2>1, <2>5, <2>6, <2>7, <2>8, <2>9, <2>10
          DEF Attempting, AtWork, SignupRequest
<1>8. CASE RecordEnrollment(s)
  <2>1. /\ phase[s] = "record_transaction" /\ phase'[s] = "return"
        /\ UNCHANGED <<profile, tries, drawnOn, reply>>
    BY <1>8 DEF RecordEnrollment, PhaseGoesTo, EnrollmentTypeOK
  <2>2. txns' = txns \cup {EnrollmentRecord(s)}
    BY <1>8 DEF RecordEnrollment, RecordTransaction, EnrollmentRecord
  <2>3. EnrollmentRecord(s).id = SignupOf[s].id /\ EnrollmentRecord(s).member = DrawnId(s)
    BY DEF EnrollmentRecord
  <2>4. DrawnId(s)' = DrawnId(s)
    BY <2>1 DEF DrawnId
  <2>5. Recorded(s)'
    BY <2>2, <2>3, <2>4 DEF Recorded
  <2>6. /\ Enrolled(DrawnId(s))' = Enrolled(DrawnId(s))
        /\ \A k : Enrolled(Member(s, k))' = Enrolled(Member(s, k))
    BY <2>1 DEF Enrolled, DrawnId, Member
  <2> QED BY <2>1, <2>5, <2>6, <1>4 DEF Attempting, AtWork, SignupRequest
<1>9. CASE Confirm(s)
  <2>1. /\ phase'[s] = "done" /\ reply'[s].kind = "enrolled"
        /\ reply'[s].member = DrawnId(s)
        /\ UNCHANGED <<profile, txns, tries, drawnOn>>
    BY <1>9 DEF Confirm, ReplyWith, Replied, PhaseGoesTo, EnrollmentTypeOK, tableVars
  <2>3. DrawnId(s) \in Members
    BY <1>9, DrawnByAttempt DEF Confirm, AtWork
  <2>2. \A k : Enrolled(Member(s, k))' = Enrolled(Member(s, k))
    BY <2>1 DEF Enrolled, Member
  <2> QED BY <2>1, <2>2, <2>3 DEF Attempting, AtWork, SignupRequest
<1>10. CASE SignupCrash(s)
  <2>1. /\ UNCHANGED <<profile, txns, tries, drawnOn, reply>>
        /\ \/ phase'[s] = "queued" /\ tries[s] < MaxSignupAttempts
           \/ phase'[s] = "dead letter"
    BY <1>10 DEF SignupCrash, PhaseGoesTo, EnrollmentTypeOK, tableVars
  <2>2. \A k : Enrolled(Member(s, k))' = Enrolled(Member(s, k))
    BY <2>1 DEF Enrolled, Member
  <2> QED BY <2>1, <2>2, <1>4 DEF Attempting, AtWork, SignupRequest
<1>11. CASE SignupRequestFails(s)
  <2>1. /\ phase'[s] = "done" /\ reply'[s].kind = "internal error"
        /\ UNCHANGED <<profile, txns, tries, drawnOn>>
    BY <1>11 DEF SignupRequestFails, ReplyWith, Replied, PhaseGoesTo, EnrollmentTypeOK,
                 tableVars
  <2>2. \A k : Enrolled(Member(s, k))' = Enrolled(Member(s, k))
    BY <2>1 DEF Enrolled, Member
  <2> QED BY <2>1, <2>2 DEF Attempting, AtWork, SignupRequest
<1>12. CASE SignupDiscard(s)
  <2>1. phase'[s] = "dead letter" /\ UNCHANGED <<profile, txns, tries, drawnOn, reply>>
    BY <1>12 DEF SignupDiscard, PhaseGoesTo, EnrollmentTypeOK, tableVars
  <2>2. \A k : Enrolled(Member(s, k))' = Enrolled(Member(s, k))
    BY <2>1 DEF Enrolled, Member
  <2> QED BY <2>1, <2>2, <1>4 DEF Attempting, AtWork, SignupRequest
<1> QED BY <1>5, <1>6, <1>7, <1>8, <1>9, <1>10, <1>11, <1>12 DEF SignupAction

\* What MembersAreAccountedFor says of one member.
Accounted(m) ==
  \/ RecordsOf(m) # {}
  \/ Outlived(m)
  \/ phase[m[1]] = "record_transaction" /\ DrawnId(m[1]) = m
  \/ LeftUnrecorded(m)

\* A step of a signup leaves every member accounted for.
LEMMA StepAccountsForMembers ==
  ASSUME EnrollmentTypeOK, MembersAreAccountedFor,
         NEW s \in Signups, Attempting(s), SignupAction(s),
         NEW m \in Members, Enrolled(m)'
  PROVE  Accounted(m)'
<1>1. PICK q \in Signups, k \in 1..MaxSignupAttempts : m = Member(q, k)
  <2>1. m \in Signups \X (1..MaxSignupAttempts)
    BY SignupAssumption
  <2>2. m[1] \in Signups /\ m[2] \in 1..MaxSignupAttempts /\ m = <<m[1], m[2]>>
    BY <2>1
  <2> QED BY <2>2 DEF Member
<1>2. m[1] = q /\ m[2] = k
  BY <1>1 DEF Member
<1>3. CASE RecordsOf(m) # {}
  <2>1. txns \subseteq txns'
    BY OtherSignups
  <2> QED BY <1>3, <2>1 DEF Accounted, RecordsOf
<1>6. CASE Enrolled(m) /\ Outlived(m)
  <2>1. profile'[m] = profile[m] /\ today' = today
    BY <1>6, OtherSignups
  <2> QED BY <1>6, <2>1 DEF Accounted, Outlived
<1>4. CASE RecordsOf(m) = {} /\ ~(Enrolled(m) /\ Outlived(m)) /\ q # s
  <2>1. m # DrawnId(s)
    BY <1>1, <1>4 DEF Member, DrawnId
  <2>2. profile'[m] = profile[m]
    BY <2>1, OtherSignups
  <2>3. Enrolled(m) /\ Accounted(m)
    BY <2>2 DEF Enrolled, MembersAreAccountedFor, Accounted
  <2>4. phase'[q] = phase[q] /\ tries'[q] = tries[q] /\ reply'[q] = reply[q]
    BY <1>4, OtherSignups
  <2>5. DrawnId(q)' = DrawnId(q)
    BY <2>4 DEF DrawnId
  <2> QED BY <1>2, <1>4, <2>3, <2>4, <2>5 DEF Accounted, LeftUnrecorded
<1>5. CASE RecordsOf(m) = {} /\ ~(Enrolled(m) /\ Outlived(m)) /\ q = s
  <2>1. phase[s] # "done" /\ phase[s] # "dead letter"
    BY DEF SignupAction, Begin, CheckSignup, PutProfile, RecordEnrollment, Confirm,
           SignupCrash, SignupRequestFails, SignupDiscard, AtWork, SignupRequest
  <2>2. reply[s].kind = "none"
    BY <2>1 DEF Attempting
  <2>3. Enrolled(m) => \/ phase[s] = "record_transaction" /\ DrawnId(s) = m
                       \/ tries[s] > k \/ phase[s] = "queued"
    BY <1>2, <1>5, <2>1, <2>2 DEF MembersAreAccountedFor, LeftUnrecorded
  <2>4. CASE Begin(s)
    <3>1. tries'[s] = tries[s] + 1 /\ profile' = profile
      BY <2>4 DEF Begin, EnrollmentTypeOK, tableVars
    <3>2. Enrolled(m)
      BY <3>1 DEF Enrolled
    <3>3. k <= tries[s]
      BY <1>1, <1>5, <3>2 DEF Attempting
    <3>4. tries[s] \in Nat
      <4>1. tries[s] \in 0..MaxSignupAttempts
        BY DEF EnrollmentTypeOK
      <4> QED BY <4>1, AttemptsAreNatural
    <3>5. tries'[s] > k
      <4>1. tries'[s] = tries[s] + 1
        BY <3>1
      <4> QED BY <3>3, <3>4, <4>1, AttemptsAreNatural
    <3> QED BY <1>2, <1>5, <3>5 DEF Accounted, LeftUnrecorded
  <2>5. CASE CheckSignup(s)
    <3>1. phase[s] = "check_transaction_exists" /\ UNCHANGED <<profile, tries>>
      BY <2>5 DEF CheckSignup, tableVars
    <3>2. tries'[s] > k
      BY <2>3, <3>1 DEF Enrolled
    <3> QED BY <1>2, <1>5, <3>2 DEF Accounted, LeftUnrecorded
  <2>6. CASE PutProfile(s)
    <3>1. phase[s] = "create_member" /\ UNCHANGED tries
      BY <2>6 DEF PutProfile
    <3>2. DrawnId(s)' = DrawnId(s)
      BY <3>1 DEF DrawnId
    <3>3. CASE m = DrawnId(s)
      <4>1. CASE PhaseGoesTo(s, "record_transaction")
        <5>1. phase'[s] = "record_transaction"
          BY <4>1 DEF PhaseGoesTo, EnrollmentTypeOK
        <5> QED BY <1>2, <1>5, <3>2, <3>3, <5>1 DEF Accounted
      <4>2. CASE ReplyWith(s, "duplicate enrollment", DrawnId(s))
        <5>1. reply'[s].kind = "duplicate enrollment"
          BY <4>2, Answered
        <5> QED BY <1>2, <1>5, <5>1 DEF Accounted, LeftUnrecorded
      <4> QED BY <2>6, <4>1, <4>2 DEF PutProfile
    <3>4. CASE m # DrawnId(s)
      <4>1. profile'[m] = profile[m]
        BY <3>4, OtherSignups
      <4>2. tries'[s] > k
        BY <2>3, <3>1, <4>1 DEF Enrolled
      <4> QED BY <1>2, <1>5, <4>2 DEF Accounted, LeftUnrecorded
    <3> QED BY <3>3, <3>4
  <2>7. CASE RecordEnrollment(s)
    <3>1. phase[s] = "record_transaction" /\ UNCHANGED <<profile, tries>>
      BY <2>7 DEF RecordEnrollment
    <3>2. CASE DrawnId(s) = m
      <4>1. EnrollmentRecord(s) \in txns' /\ EnrollmentRecord(s).member = m
        BY <2>7, <3>2 DEF RecordEnrollment, RecordTransaction, EnrollmentRecord
      <4> QED BY <4>1 DEF Accounted, RecordsOf
    <3>3. CASE tries[s] > k
      BY <1>2, <1>5, <3>1, <3>3 DEF Accounted, LeftUnrecorded
    <3> QED BY <2>3, <3>1, <3>2, <3>3 DEF Enrolled
  <2>8. CASE Confirm(s)
    <3>1. phase[s] = "return" /\ UNCHANGED <<profile, tries>>
      BY <2>8 DEF Confirm, tableVars
    <3>2. tries'[s] > k
      BY <2>3, <3>1 DEF Enrolled
    <3> QED BY <1>2, <1>5, <3>2 DEF Accounted, LeftUnrecorded
  <2>9. CASE SignupCrash(s) \/ SignupDiscard(s)
    <3>1. phase'[s] \in {"queued", "dead letter"}
      BY <2>9 DEF SignupCrash, SignupDiscard, PhaseGoesTo, EnrollmentTypeOK
    <3> QED BY <1>2, <1>5, <3>1 DEF Accounted, LeftUnrecorded
  <2>10. CASE SignupRequestFails(s)
    <3>1. reply'[s].kind = "internal error"
      BY <2>10, Answered DEF SignupRequestFails
    <3> QED BY <1>2, <1>5, <3>1 DEF Accounted, LeftUnrecorded
  <2> QED BY <2>4, <2>5, <2>6, <2>7, <2>8, <2>9, <2>10 DEF SignupAction
<1> QED BY <1>3, <1>4, <1>5, <1>6

\* A step of a signup keeps every record with its member.
LEMMA StepKeepsRecordsTrue ==
  ASSUME EnrollmentTypeOK, MembersAreAccountedFor,
         NEW s \in Signups, Attempting(s), SignupAction(s), NEW t \in txns'
  PROVE  /\ Enrolled(t.member)'
         /\ profile'[t.member].nextTierEvaluation = t.day + EvaluationPeriod
<1>1. CASE t \in txns
  <2>1. t.member \in Members
    BY <1>1 DEF EnrollmentTypeOK, Transaction
  <2>2. /\ Enrolled(t.member)
        /\ profile[t.member].nextTierEvaluation = t.day + EvaluationPeriod
    BY <1>1 DEF MembersAreAccountedFor
  <2>3. profile'[t.member] = profile[t.member]
    BY <2>1, <2>2, OtherSignups
  <2> QED BY <2>2, <2>3 DEF Enrolled
<1>2. CASE t \notin txns
  <2>1. RecordEnrollment(s)
    BY <1>2 DEF SignupAction, Begin, CheckSignup, PutProfile, Confirm, SignupCrash,
                SignupRequestFails, SignupDiscard, tableVars
  <2>2. t = EnrollmentRecord(s)
    BY <1>2, <2>1 DEF RecordEnrollment, RecordTransaction, EnrollmentRecord
  <2>3. t.member = DrawnId(s) /\ t.day = drawnOn[s]
    BY <2>2 DEF EnrollmentRecord
  <2>4. phase[s] = "record_transaction" /\ profile' = profile
    BY <2>1 DEF RecordEnrollment
  <2> QED BY <2>3, <2>4 DEF Attempting, Enrolled
<1> QED BY <1>1, <1>2

\* A step of a signup leaves every answer true.
LEMMA StepKeepsRepliesTrue ==
  ASSUME EnrollmentTypeOK, MembersAreAccountedFor, RepliesMatchTable,
         NEW s \in Signups, Attempting(s), SignupAction(s),
         NEW q \in Signups, Attempting(q)
  PROVE  ReplyMatches(q)'
<1>1. CASE q # s
  <2>1. phase'[q] = phase[q] /\ tries'[q] = tries[q] /\ reply'[q] = reply[q]
    BY <1>1, OtherSignups
  <2>2. ReplyMatches(q)
    BY DEF RepliesMatchTable
  <2>3. CASE reply[q].kind \in {"enrolled", "already enrolled"}
    <3>6. PICK m : m = reply[q].member
      OBVIOUS
    <3>1. Enrolled(m)
      BY <2>2, <2>3, <3>6 DEF ReplyMatches
    <3>2. m \in Members
      BY <2>3, <3>6 DEF Attempting
    <3>3. profile'[m] = profile[m] /\ today' = today
      BY <3>1, <3>2, OtherSignups
    <3>4. (\E t \in txns : t.id = SignupOf[q].id /\ t.member = m) \/ Outlived(m)
      BY <2>2, <2>3, <3>6 DEF ReplyMatches
    <3>5. (\E t \in txns' : t.id = SignupOf[q].id /\ t.member = m) \/ Outlived(m)'
      <4>1. txns \subseteq txns'
        BY OtherSignups
      <4> QED BY <3>3, <3>4, <4>1 DEF Outlived
    <3> QED BY <2>1, <2>3, <3>1, <3>3, <3>5, <3>6 DEF ReplyMatches, Enrolled, Outlived
  <2>4. CASE reply[q].kind = "duplicate enrollment"
    <3>1. DrawnId(q) = reply[q].member /\ DrawnId(q) # DrawnId(s)
      BY <1>1, <2>4 DEF Attempting, DrawnId
    <3>2. Enrolled(DrawnId(q)) /\ DrawnId(q) \in Members
      <4>1. Enrolled(DrawnId(q))
        BY <2>2, <2>4, <3>1 DEF ReplyMatches
      <4>2. tries[q] \in 0..MaxSignupAttempts
        BY DEF EnrollmentTypeOK
      <4>3. tries[q] >= 1
        BY <2>4 DEF Attempting
      <4>4. tries[q] \in 1..MaxSignupAttempts
        BY <4>2, <4>3, AttemptsAreNatural
      <4>5. DrawnId(q) = Member(q, tries[q])
        BY DEF DrawnId, Member
      <4> QED BY <4>1, <4>4, <4>5, DrawnMembers
    <3>3. profile'[DrawnId(q)] = profile[DrawnId(q)]
      BY <3>2, OtherSignups
    <3>4. ~\E t \in txns' : t.id = SignupOf[q].id /\ t.member = DrawnId(q)
      <4>1. \A t \in txns' \ txns : t.member = DrawnId(s)
        BY OtherSignups
      <4> QED BY <2>2, <2>4, <3>1, <4>1 DEF ReplyMatches
    <3> QED BY <2>1, <2>4, <3>1, <3>2, <3>3, <3>4 DEF ReplyMatches, Enrolled
  <2>5. CASE reply[q].kind = "invalid"
    <3> SUFFICES ASSUME NEW k \in 1..MaxSignupAttempts
                 PROVE  profile'[Member(q, k)] = NoMember
      BY <2>1, <2>5 DEF ReplyMatches, Enrolled, Member
    <3>1. Member(q, k) \in Members /\ Member(q, k) # DrawnId(s)
      BY <1>1, DrawnMembers DEF Member, DrawnId
    <3>2. ~Enrolled(Member(q, k))
      BY <2>2, <2>5 DEF ReplyMatches, Member
    <3> QED BY <3>1, <3>2, OtherSignups DEF Enrolled
  <2> QED BY <2>1, <2>3, <2>4, <2>5 DEF ReplyMatches
<1>2. CASE q = s
  <2>1. phase[s] # "done"
    BY DEF SignupAction, Begin, CheckSignup, PutProfile, RecordEnrollment, Confirm,
           SignupCrash, SignupRequestFails, SignupDiscard, AtWork, SignupRequest
  <2>2. reply[s].kind = "none"
    BY <2>1 DEF Attempting
  <2>3. CASE reply' = reply
    BY <1>2, <2>2, <2>3 DEF ReplyMatches
  <2>4. CASE CheckSignup(s) /\ reply' # reply
    <3>1. UNCHANGED <<profile, txns>>
      BY <2>4 DEF CheckSignup, tableVars
    <3>2. CASE \E t \in CheckTransactionExists(SignupOf[s].id) :
                 ReplyWith(s, "already enrolled", t.member)
      <4>1. PICK t \in txns : /\ t.id = SignupOf[s].id
                              /\ ReplyWith(s, "already enrolled", t.member)
        BY <3>2 DEF CheckTransactionExists, EnrollmentTypeOK
      <4>2. Enrolled(t.member)
        BY DEF MembersAreAccountedFor
      <4>3. reply'[s].kind = "already enrolled" /\ reply'[s].member = t.member
        BY <4>1, Answered
      <4> QED BY <1>2, <3>1, <4>1, <4>2, <4>3 DEF ReplyMatches, Enrolled
    <3>3. CASE ~SignupOf[s].valid /\ ReplyWith(s, "invalid", NoMember)
      <4>1. reply'[s].kind = "invalid"
        BY <3>3, Answered
      <4>2. \A k \in 1..MaxSignupAttempts : ~Enrolled(Member(s, k))
        BY <3>3 DEF Attempting
      <4> QED BY <1>2, <3>1, <4>1, <4>2 DEF ReplyMatches, Enrolled, Member
    <3> QED BY <2>4, <3>2, <3>3 DEF CheckSignup
  <2>5. CASE PutProfile(s) /\ reply' # reply
    <3>1. phase[s] = "create_member" /\ UNCHANGED <<txns, tries>>
      BY <2>5 DEF PutProfile
    <3>2. reply'[s].kind = "duplicate enrollment" /\ reply'[s].member = DrawnId(s)
      BY <2>5, Answered DEF PutProfile
    <3>3. DrawnId(s) \in Members /\ ~Enrolled(DrawnId(s))
      BY <3>1, DrawnByAttempt DEF Attempting, AtWork, SignupRequest
    <3>4. RecordsOf(DrawnId(s)) = {}
      BY <3>3, UnknownHasNoRecord
    <3>5. profile'[DrawnId(s)] = NewMember(drawnOn[s])
      BY <2>5, <3>3 DEF PutProfile, CreateMember, EnrollmentTypeOK
    <3>6. profile'[DrawnId(s)] # NoMember
      <4>1. drawnOn[s] \in 0..MaxDay
        BY DEF EnrollmentTypeOK
      <4> QED BY <3>5, <4>1, NewMemberIsProfile
    <3> QED BY <1>2, <3>1, <3>2, <3>4, <3>6 DEF ReplyMatches, Enrolled, RecordsOf
  <2>6. CASE Confirm(s)
    <3>1. phase[s] = "return" /\ UNCHANGED <<profile, txns, tries>>
      BY <2>6 DEF Confirm, tableVars
    <3>2. reply'[s].kind = "enrolled" /\ reply'[s].member = DrawnId(s)
      BY <2>6, Answered DEF Confirm
    <3>3. Enrolled(DrawnId(s)) /\ (Recorded(s) \/ Outlived(DrawnId(s)))
      BY <3>1 DEF Attempting
    <3>4. today' = today
      BY OtherSignups
    <3> QED BY <1>2, <3>1, <3>2, <3>3, <3>4 DEF ReplyMatches, Enrolled, Recorded, Outlived
  <2>7. CASE SignupRequestFails(s)
    <3>1. reply'[s].kind = "internal error"
      BY <2>7, Answered DEF SignupRequestFails
    <3> QED BY <1>2, <3>1 DEF ReplyMatches
  <2>8. CASE Begin(s) \/ RecordEnrollment(s) \/ SignupCrash(s) \/ SignupDiscard(s)
    BY <2>3, <2>8 DEF Begin, RecordEnrollment, SignupCrash, SignupDiscard
  <2> QED BY <2>3, <2>4, <2>5, <2>6, <2>7, <2>8 DEF SignupAction
<1> QED BY <1>1, <1>2

\* A member who has outlived the record of the enrollment stays so.
LEMMA OutlivedForGood ==
  ASSUME EnrollmentTypeOK, NEW m \in Members, Enrolled(m), Outlived(m),
         profile'[m] = profile[m], today' \in 0..MaxDay, today <= today'
  PROVE  Outlived(m)'
<1>1. profile[m].nextTierEvaluation \in Nat
  BY DEF EnrollmentTypeOK, Enrolled, Profile, Day
<1>2. today \in Nat /\ today' \in Nat
  <2>1. today \in 0..MaxDay /\ today' \in 0..MaxDay
    BY DEF EnrollmentTypeOK
  <2> QED BY <2>1, MaxDayAssumption
<1>3. \A d, p, q \in Nat : d - 365 + 30 <= p /\ p <= q => d - 365 + 30 <= q
  OBVIOUS
<1>4. profile[m].nextTierEvaluation - 365 + 30 <= today'
  BY <1>1, <1>2, <1>3 DEF Outlived, EvaluationPeriod, RetentionDays
<1> QED BY <1>4 DEF Outlived, EvaluationPeriod, RetentionDays

\* A step that leaves profiles and signups alone and deletes no records but old
\* ones keeps the invariant.
LEMMA QuietStep ==
  ASSUME EnrollmentInv, UNCHANGED <<profile, ledger, signupVars>>,
         txns' \subseteq txns, \A t \in txns \ txns' : Outlived(t.member),
         byTxnId' \subseteq txns', today' \in 0..MaxDay, today <= today'
  PROVE  EnrollmentInv'
<1> USE DEF EnrollmentInv, signupVars
<1>1. EnrollmentTypeOK'
  BY DEF EnrollmentTypeOK
<1>2. \A m \in Members : Enrolled(m) /\ Outlived(m) => Outlived(m)'
  BY OutlivedForGood
<1>3. \A t \in txns : t.member \in Members /\ Enrolled(t.member)
  BY DEF MembersAreAccountedFor, EnrollmentTypeOK, Transaction
<1>4. \A m \in Members :
        RecordsOf(m) # {} => RecordsOf(m)' # {} \/ Outlived(m)'
  <2> SUFFICES ASSUME NEW m \in Members, NEW t \in txns, t.member = m
               PROVE  RecordsOf(m)' # {} \/ Outlived(m)'
    BY DEF RecordsOf
  <2>1. CASE t \in txns'
    BY <2>1 DEF RecordsOf
  <2>2. CASE t \notin txns'
    BY <2>2, <1>2, <1>3
  <2> QED BY <2>1, <2>2
<1>5. MembersAreAccountedFor'
  <2>1. ASSUME NEW m \in Members, Enrolled(m)' PROVE Accounted(m)'
    <3>1. Enrolled(m)
      BY <2>1 DEF Enrolled
    <3>2. Accounted(m)
      BY <3>1 DEF MembersAreAccountedFor, Accounted
    <3>3. LeftUnrecorded(m)' = LeftUnrecorded(m) /\ DrawnId(m[1])' = DrawnId(m[1])
      BY DEF LeftUnrecorded, DrawnId
    <3> QED BY <3>1, <3>2, <3>3, <1>2, <1>4 DEF Accounted
  <2>2. ASSUME NEW t \in txns'
        PROVE  /\ Enrolled(t.member)'
               /\ profile'[t.member].nextTierEvaluation = t.day + EvaluationPeriod
    BY DEF MembersAreAccountedFor, Enrolled
  <2> QED BY <2>1, <2>2 DEF MembersAreAccountedFor, Accounted
<1>6. ASSUME NEW s \in Signups PROVE ReplyMatches(s)'
  <2>1. ReplyMatches(s) /\ Attempting(s)
    BY DEF RepliesMatchTable
  <2>2. ASSUME reply[s].kind \in {"enrolled", "already enrolled"}
        PROVE  /\ Enrolled(reply[s].member)
               /\ \/ \E t \in txns' : t.id = SignupOf[s].id /\ t.member = reply[s].member
                  \/ Outlived(reply[s].member)'
    <3>1. reply[s].member \in Members /\ Enrolled(reply[s].member)
      BY <2>1, <2>2 DEF Attempting, ReplyMatches
    <3>2. CASE Outlived(reply[s].member)
      BY <3>1, <3>2, <1>2
    <3>3. CASE \E t \in txns : t.id = SignupOf[s].id /\ t.member = reply[s].member
      BY <3>1, <3>3, <1>2
    <3> QED BY <2>1, <2>2, <3>2, <3>3 DEF ReplyMatches
  <2> QED BY <2>1, <2>2 DEF ReplyMatches, Enrolled, Outlived
<1>7. ASSUME NEW s \in Signups PROVE Attempting(s)'
  <2>1. Attempting(s) /\ DrawnId(s)' = DrawnId(s)
    BY DEF DrawnId
  <2>2. ASSUME phase[s] = "return"
        PROVE  Recorded(s)' \/ Outlived(DrawnId(s))'
    <3>1. DrawnId(s) \in Members /\ Enrolled(DrawnId(s))
      BY <2>1, <2>2, DrawnByAttempt DEF Attempting, AtWork
    <3>2. CASE Outlived(DrawnId(s))
      BY <3>1, <3>2, <1>2, <2>1 DEF Outlived
    <3>3. CASE Recorded(s)
      BY <3>1, <3>3, <1>2, <2>1 DEF Recorded, Outlived
    <3> QED BY <2>1, <2>2, <3>2, <3>3 DEF Attempting
  <2>3. RecordsOf(DrawnId(s)) = {} => RecordsOf(DrawnId(s))' = {}
    BY <2>1 DEF RecordsOf
  <2> QED BY <2>1, <2>2, <2>3 DEF Attempting, Enrolled, Member
<1> QED BY <1>1, <1>5, <1>6, <1>7 DEF RepliesMatchTable

\* The invariant holds at the start: nobody is enrolled.
LEMMA InitEnrollmentInv == EnrollmentInit => EnrollmentInv
<1> SUFFICES ASSUME EnrollmentInit PROVE EnrollmentInv
  OBVIOUS
<1> USE DEF EnrollmentInit, TableInit
<1>1. \A m \in Members : ~Enrolled(m)
  BY SignupAssumption DEF Enrolled
<1>2. EnrollmentTypeOK
  <2>1. profile \in [Members -> Profile \cup {NoMember}]
    BY OpeningAssumption
  <2>2. /\ tries \in [Signups -> 0..MaxSignupAttempts]
        /\ drawnOn \in [Signups -> 0..MaxDay] /\ today \in 0..MaxDay
    BY AttemptsAreNatural, MaxDayAssumption
  <2> QED BY <2>1, <2>2 DEF EnrollmentTypeOK, Replied, ReplyKind
<1>3. MembersAreAccountedFor
  BY <1>1 DEF MembersAreAccountedFor
<1>4. RepliesMatchTable
  BY DEF RepliesMatchTable, ReplyMatches, Replied
<1>5. ASSUME NEW s \in Signups PROVE Attempting(s)
  <2>1. tries[s] = 0 /\ phase[s] = "queued" /\ reply[s].kind = "none"
    BY DEF Replied
  <2>2. tries[s] < MaxSignupAttempts
    <3>1. MaxSignupAttempts \in Nat \ {0}
      BY SignupAssumption
    <3> QED BY <2>1, <3>1
  <2>3. \A k \in 1..MaxSignupAttempts : ~Enrolled(Member(s, k))
    BY <1>1, DrawnMembers
  <2> QED BY <2>1, <2>2, <2>3 DEF Attempting, AtWork, SignupRequest
<1> QED BY <1>2, <1>3, <1>4, <1>5 DEF EnrollmentInv

\* Every step keeps it.
LEMMA StepEnrollmentInv ==
  ASSUME EnrollmentInv, [EnrollmentNext]_enrollmentVars
  PROVE  EnrollmentInv'
<1>1. ASSUME NEW s \in Signups, SignupAction(s)
      PROVE  EnrollmentInv'
  <2> USE <1>1 DEF EnrollmentInv
  <2>1. EnrollmentTypeOK'
    BY SignupTypes
  <2>2. MembersAreAccountedFor'
    <3>1. ASSUME NEW m \in Members, Enrolled(m)' PROVE Accounted(m)'
      BY <3>1, StepAccountsForMembers
    <3>2. ASSUME NEW t \in txns'
          PROVE  /\ Enrolled(t.member)'
                 /\ profile'[t.member].nextTierEvaluation = t.day + EvaluationPeriod
      BY StepKeepsRecordsTrue
    <3> QED BY <3>1, <3>2 DEF MembersAreAccountedFor, Accounted, Enrolled
  <2>3. RepliesMatchTable'
    <3>1. ASSUME NEW q \in Signups PROVE ReplyMatches(q)'
      BY StepKeepsRepliesTrue
    <3> QED BY <3>1 DEF RepliesMatchTable
  <2>4. ASSUME NEW q \in Signups PROVE Attempting(q)'
    <3>1. CASE q = s
      BY <3>1, OwnAttempt
    <3>2. CASE q # s
      BY <3>2, OthersKeepAttempting
    <3> QED BY <3>1, <3>2
  <2> QED BY <2>1, <2>2, <2>3, <2>4
<1>2. today \in 0..MaxDay /\ byTxnId \subseteq txns /\ today <= today
  <2>1. today \in 0..MaxDay /\ byTxnId \subseteq txns
    BY DEF EnrollmentInv, EnrollmentTypeOK
  <2> QED BY <2>1, MaxDayAssumption
<1>3. CASE ShowRecord
  <2>1. UNCHANGED <<profile, ledger, txns, today, signupVars>> /\ byTxnId' \subseteq txns'
    BY <1>3, <1>2 DEF ShowRecord, PropagateToIndex
  <2> QED BY <2>1, <1>2, QuietStep
<1>4. CASE DeleteOldRecord
  <2>1. PICK t \in txns : /\ t.day + RetentionDays <= today
                          /\ txns' = txns \ {t}
                          /\ byTxnId' = byTxnId \ {t}
    BY <1>4 DEF DeleteOldRecord, TimeToLive
  <2>2. UNCHANGED <<profile, ledger, today, signupVars>>
    BY <1>4 DEF DeleteOldRecord, TimeToLive
  <2>3. profile[t.member].nextTierEvaluation = t.day + EvaluationPeriod
    BY DEF EnrollmentInv, MembersAreAccountedFor
  <2>4. Outlived(t.member)
    <3>1. t.day \in Nat /\ today \in Nat
      <4>1. t.day \in Nat
        BY DEF EnrollmentInv, EnrollmentTypeOK, Transaction, Day
      <4> QED BY <4>1, <1>2, MaxDayAssumption
    <3>2. \A d, p \in Nat : d + 30 <= p => (d + 365) - 365 + 30 <= p
      OBVIOUS
    <3>3. (t.day + 365) - 365 + 30 <= today
      BY <3>1, <3>2, <2>1 DEF RetentionDays
    <3> QED BY <3>3, <2>3 DEF Outlived, EvaluationPeriod, RetentionDays
  <2>5. \A u \in txns \ txns' : Outlived(u.member)
    BY <2>1, <2>4
  <2>6. txns' \subseteq txns /\ byTxnId' \subseteq txns'
    BY <2>1, <1>2
  <2> QED BY <2>2, <2>5, <2>6, <1>2, QuietStep
<1>5. CASE DayPasses
  <2>1. /\ UNCHANGED <<profile, ledger, txns, byTxnId, signupVars>>
        /\ today' \in SignupDays /\ today' > today
    BY <1>5 DEF DayPasses, tableVars
  <2>2. today' \in 0..MaxDay
    BY <2>1, SignupAssumption
  <2>3. today <= today'
    BY <1>2, <2>1, <2>2, MaxDayAssumption
  <2> QED BY <2>1, <2>2, <2>3, <1>2, QuietStep
<1>6. CASE UNCHANGED enrollmentVars
  <2>1. UNCHANGED <<profile, ledger, txns, byTxnId, today, signupVars>>
    BY <1>6 DEF enrollmentVars, tableVars
  <2> QED BY <2>1, <1>2, QuietStep
<1> QED BY <1>1, <1>3, <1>4, <1>5, <1>6, EnrollmentCases

\* The inductive invariant of the enrollment holds always.
LEMMA EnrollmentInvHolds == EnrollmentSpec => []EnrollmentInv
<1>1. EnrollmentInv /\ [EnrollmentNext]_enrollmentVars => EnrollmentInv'
  BY StepEnrollmentInv
<1> QED BY <1>1, InitEnrollmentInv, PTL DEF EnrollmentSpec

\* The state of enrollment has its type, and no signup is tried too often.
THEOREM EnrollmentTypeCorrect == EnrollmentSpec => []EnrollmentTypeOK
<1>1. EnrollmentInv => EnrollmentTypeOK
  BY DEF EnrollmentInv
<1> QED BY <1>1, EnrollmentInvHolds, PTL

\* create_member and record_transaction of a signup leave no member without a
\* record, except where an attempt ended between them or 30 days passed, and no
\* record without its member.
THEOREM EnrollmentIsAccountedFor == EnrollmentSpec => []MembersAreAccountedFor
<1>1. EnrollmentInv => MembersAreAccountedFor
  BY DEF EnrollmentInv
<1> QED BY <1>1, EnrollmentInvHolds, PTL

\* What the enrollment handler answers is true of the table: the member it names
\* is there at any time after, and its record for the 30 days records are kept.
THEOREM RepliesAreTrue == EnrollmentSpec => []RepliesMatchTable
<1>1. EnrollmentInv => RepliesMatchTable
  BY DEF EnrollmentInv
<1> QED BY <1>1, EnrollmentInvHolds, PTL
=============================================================================
