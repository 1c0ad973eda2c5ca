---------------------------- MODULE SystemProofs ----------------------------
(***************************************************************************)
(* What holds of the whole program, events and scheduled jobs together,    *)
(* for all members, events, runs, limits and numbers of attempts.          *)
(***************************************************************************)
EXTENDS RewardsSystem, StarAccountsProofs

-----------------------------------------------------------------------------
\* The local variables of an attempt at a job: after its start, in the list of
\* the expiration, and in that of the evaluation.
ListWork == [now : Day]

\* The local variables of an attempt at the expiration, once it listed
\* members.
ExpirationWork == [now : Day, todo : SUBSET Members, member : Members,
                   entries : SUBSET LedgerEntry, stars : Int, unanswered : Sending]

\* Those of an attempt at the evaluation, once it listed members.
EvaluationWork == [now : Day, round : 1..3, todo : SUBSET Members,
                   member : Members \cup {NoMember}, entries : SUBSET LedgerEntry,
                   stars : Int, errors : {0, 1}]

\* What an attempt at a job returns.
RunReply == [status : {"none", "ok", "error"}, errors : Nat]

\* The requests of the expiration for the member at its turn.
MemberExpiration == {"get_star_ledger_entries", "deduct",
                     "delete_star_ledger_entries", "record_expiration"}

\* The requests of the evaluation for the member at its turn.
MemberEvaluation == {"get_member_transactions", "update_member_tier",
                     "update_annual_count", "record_tier_change",
                     "keep_tier_date", "keep_tier_key",
                     "list_promoted_entries", "remove_expiration_date"}

\* The attempt at the job is between two of its requests.
Active(r) == step[r] \notin Ended \cup {"waiting"}

\* The member has a profile.
Present(m) == m \in Members /\ profile[m] # NoMember

\* Everything a run keeps has its type.
RunTypes ==
  /\ step \in [Runs -> ExpirationRequest \cup EvaluationRequest
                         \cup RemovalRequest \cup Ended \cup {"waiting"}]
  /\ runAttempt \in [Runs -> 0..MaxRunAttempts]
  /\ work \in [Runs -> ListWork \cup ExpirationWork \cup EvaluationWork]
  /\ outcome \in [Runs -> RunReply]

\* A run that is going on has a number, goes on today, and is at a request of its
\* job; one that waits has an attempt left.
RunControl(r) ==
  /\ step[r] = "waiting" => runAttempt[r] < MaxRunAttempts
  /\ Active(r) => runAttempt[r] > 0 /\ DayOf[r] = today /\ work[r].now = today
  /\ ~Active(r) => work[r] = NoWork
  /\ step[r] \in ExpirationRequest => JobOf[r] = "expiration"
  /\ step[r] \in EvaluationRequest \cup RemovalRequest => JobOf[r] = "evaluation"
  /\ outcome[r].status # "none" \/ outcome[r].errors > 0 => step[r] = "done"
  /\ step[r] = "done" => DayOf[r] <= today

\* What a run lists are members with a profile.
RunLists(r) ==
  /\ step[r] = "query_members_by_tier" => work[r] \in ListWork
  /\ step[r] \in MemberExpiration =>
       /\ work[r] \in ExpirationWork
       /\ \A m \in work[r].todo \cup {work[r].member} : Present(m)
  /\ step[r] = "query_due_members" =>
       work[r] \in EvaluationWork /\ work[r].todo = {}
  /\ step[r] \in MemberEvaluation =>
       /\ work[r] \in EvaluationWork
       /\ \A m \in work[r].todo \cup {work[r].member} : Present(m)

\* What holds of the runs: their types, and that control and lists fit each
\* other.
RunInv ==
  /\ RunTypes
  /\ \A r \in Runs : RunControl(r) /\ RunLists(r)

\* An action of one run.
RunAction(r) == RunStep(r) \/ RunFault(r)

\* A step of the whole system is a step of the handlers, of a run, of the
\* index, the deletion of an old record, or midnight.
LEMMA SystemNextCases ==
  ASSUME [SystemNext]_systemVars
  PROVE  \/ /\ [Next]_vars /\ today' = today
            /\ UNCHANGED <<byTier, runVars, historyVars>>
         \/ \E r \in Runs : RunAction(r)
         \/ PropagateToTierIndex /\ UNCHANGED <<deliveryVars, runVars, historyVars>>
         \/ DeleteOldRecord
         \/ NextDate
<1>1. ASSUME NEW d \in Deliveries, Step(d) \/ Fault(d) PROVE today' = today
  <2>1. DeliveryAction(d)
    BY <1>1 DEF Step, Fault, Purchase, Redeem, DeliveryAction, Resent
  <2> QED BY <2>1 DEF DeliveryAction, Invoke, Respond, Crash, RequestFails, Discard, Resent,
       PurchaseUpdateUnanswered, RedemptionUpdateUnanswered, UpdateUnanswered, PurchaseCheck, RedemptionCheck, CheckIdempotency, PurchaseGetMember,
       RedemptionGetMember, PurchaseUpdateBalance, RedemptionUpdateBalance,
       PurchaseCreateLedgerEntry, PurchaseRecord, RedemptionRecord
<1>2. PropagateToIndex \/ UNCHANGED systemVars => today' = today
  BY DEF PropagateToIndex, systemVars
<1>3. \/ \E d \in Deliveries : Handle(d) \/ HandlingFault(d)
      \/ ShowInIndex \/ UNCHANGED systemVars
      \/ \E r \in Runs : RunAction(r)
      \/ DeleteOldRecord \/ NextDate
  BY DEF SystemNext, RunAction
<1>4. ASSUME NEW d \in Deliveries, Handle(d) \/ HandlingFault(d)
      PROVE  [Next]_vars /\ today' = today /\ UNCHANGED <<byTier, runVars, historyVars>>
  BY <1>1, <1>4 DEF Handle, HandlingFault, Next
<1>5. ShowInIndex =>
        \/ [Next]_vars /\ today' = today /\ UNCHANGED <<byTier, runVars, historyVars>>
        \/ PropagateToTierIndex /\ UNCHANGED <<deliveryVars, runVars, historyVars>>
  BY <1>2 DEF ShowInIndex, Next, Propagate
<1>6. UNCHANGED systemVars =>
        [Next]_vars /\ today' = today /\ UNCHANGED <<byTier, runVars, historyVars>>
  BY DEF systemVars, vars, tableVars, runVars, historyVars
<1> QED BY <1>3, <1>4, <1>5, <1>6

-----------------------------------------------------------------------------
\* The locals of the next member or of the next tier are locals of an evaluation.
LEMMA NextDueWork ==
  ASSUME NEW w \in EvaluationWork
  PROVE  /\ \A m \in Members :
              [w EXCEPT !.member = m, !.todo = @ \ {m}, !.stars = 0] \in EvaluationWork
         /\ w.round < 3 =>
              [w EXCEPT !.round = @ + 1, !.member = NoMember, !.stars = 0] \in EvaluationWork
         /\ [w EXCEPT !.errors = 1] \in EvaluationWork
<1> DEFINE Someone == Members \cup {NoMember}
           Work == [now : Day, round : 1..3, todo : SUBSET Members,
                    member : Someone, entries : SUBSET LedgerEntry,
                    stars : Int, errors : {0, 1}]
<1>0. /\ EvaluationWork = Work /\ 0 \in Int
      /\ Members \subseteq Someone /\ NoMember \in Someone
  BY DEF EvaluationWork
<1> HIDE DEF Someone
<1>a. ASSUME NEW todo \in SUBSET Members, NEW n \in Someone, NEW s \in Int
      PROVE  [w EXCEPT !.member = n, !.todo = todo, !.stars = s] \in Work
  BY <1>0
<1>b. ASSUME NEW round \in 1..3, NEW n \in Someone, NEW s \in Int
      PROVE  [w EXCEPT !.round = round, !.member = n, !.stars = s] \in Work
  BY <1>0
<1>c. [w EXCEPT !.errors = 1] \in EvaluationWork
  BY DEF EvaluationWork
<1>2. w.todo \in SUBSET Members /\ w.round \in 1..3
  BY DEF EvaluationWork
<1>3. /\ \A m : w.todo \ {m} \in SUBSET Members
      /\ w.round < 3 => w.round + 1 \in 1..3
  BY <1>2
<1> HIDE DEF Work
<1>4. \A m \in Members :
        [w EXCEPT !.member = m, !.todo = w.todo \ {m}, !.stars = 0] \in EvaluationWork
  BY <1>0, <1>a, <1>2, <1>3
<1>5. w.round < 3 =>
        [w EXCEPT !.round = w.round + 1, !.member = NoMember, !.stars = 0] \in EvaluationWork
  BY <1>0, <1>b, <1>3
<1> QED BY <1>4, <1>5, <1>c

\* A run that goes on with its list, or ends.
LEMMA ListGoesOn ==
  ASSUME RunTypes, NEW r \in Runs, NEW todo \in SUBSET Members, work[r].now \in Day,
         NextInactive(r, todo)
  PROVE  \/ /\ todo = {}
            /\ step' = [step EXCEPT ![r] = "done"]
            /\ work' = [work EXCEPT ![r] = NoWork]
            /\ outcome' = [outcome EXCEPT ![r] = Reply("ok", 0)]
         \/ \E w \in ExpirationWork :
              /\ w.now = work[r].now /\ w.member \in todo /\ w.todo = todo \ {w.member}
              /\ w.entries = {} /\ w.stars = 0 /\ w.unanswered = 0
              /\ step' = [step EXCEPT ![r] = "get_star_ledger_entries"]
              /\ work' = [work EXCEPT ![r] = w]
              /\ outcome' = outcome
<1>1. CASE todo = {} /\ RunReturns(r, Reply("ok", 0))
  BY <1>1 DEF RunReturns
<1>2. ASSUME NEW m \in todo,
             SetWork(r, [now |-> work[r].now, todo |-> todo \ {m}, member |-> m,
                         entries |-> {}, stars |-> 0, unanswered |-> 0]),
             RunGoesTo(r, "get_star_ledger_entries"), outcome' = outcome
      PROVE  \E w \in ExpirationWork :
              /\ w.now = work[r].now /\ w.member \in todo /\ w.todo = todo \ {w.member}
              /\ w.entries = {} /\ w.stars = 0 /\ w.unanswered = 0
              /\ step' = [step EXCEPT ![r] = "get_star_ledger_entries"]
              /\ work' = [work EXCEPT ![r] = w]
              /\ outcome' = outcome
  <2> DEFINE w == [now |-> work[r].now, todo |-> todo \ {m}, member |-> m,
                   entries |-> {}, stars |-> 0, unanswered |-> 0]
  <2>1. /\ w \in ExpirationWork /\ w.now = work[r].now /\ w.member \in todo
        /\ w.todo = todo \ {w.member} /\ w.entries = {} /\ w.stars = 0
        /\ w.unanswered = 0
    BY FirstSending DEF ExpirationWork
  <2>2. step' = [step EXCEPT ![r] = "get_star_ledger_entries"] /\ work' = [work EXCEPT ![r] = w]
    BY <1>2 DEF RunGoesTo, SetWork
  <2> HIDE DEF w
  <2> QED BY <1>2, <2>1, <2>2
<1> QED BY <1>1, <1>2 DEF NextInactive

\* The evaluation that goes on with its list, with the next tier, or ends.
LEMMA EvaluationGoesOn ==
  ASSUME RunTypes, NEW r \in Runs, NEW v \in EvaluationWork, NextDue(r, v)
  PROVE  \/ \E w \in EvaluationWork :
              /\ w.now = v.now /\ w.round = v.round /\ w.errors = v.errors
              /\ w.member \in v.todo /\ w.todo = v.todo \ {w.member} /\ w.stars = 0
              /\ step' = [step EXCEPT ![r] = "get_member_transactions"]
              /\ work' = [work EXCEPT ![r] = w]
              /\ outcome' = outcome
         \/ \E w \in EvaluationWork :
              /\ v.todo = {} /\ v.round < 3
              /\ w.now = v.now /\ w.round = v.round + 1 /\ w.errors = v.errors
              /\ w.todo = {}
              /\ step' = [step EXCEPT ![r] = "query_due_members"]
              /\ work' = [work EXCEPT ![r] = w]
              /\ outcome' = outcome
         \/ /\ v.todo = {} /\ v.round = 3
            /\ step' = [step EXCEPT ![r] = "done"]
            /\ work' = [work EXCEPT ![r] = NoWork]
            /\ outcome' = [outcome EXCEPT ![r] = Reply("ok", v.errors)]
<1>0. Len(TierOrder) = 3
  BY DEF TierOrder
<1>1. ASSUME NEW m \in v.todo,
             SetWork(r, [v EXCEPT !.member = m, !.todo = @ \ {m}, !.stars = 0]),
             RunGoesTo(r, "get_member_transactions"), outcome' = outcome
      PROVE  \E w \in EvaluationWork :
              /\ w.now = v.now /\ w.round = v.round /\ w.errors = v.errors
              /\ w.member \in v.todo /\ w.todo = v.todo \ {w.member} /\ w.stars = 0
              /\ step' = [step EXCEPT ![r] = "get_member_transactions"]
              /\ work' = [work EXCEPT ![r] = w]
              /\ outcome' = outcome
  <2> DEFINE w == [v EXCEPT !.member = m, !.todo = @ \ {m}, !.stars = 0]
  <2>1. m \in Members
    BY <1>1 DEF EvaluationWork
  <2>2. w \in EvaluationWork
    BY <2>1, NextDueWork
  <2>3. /\ w.now = v.now /\ w.round = v.round /\ w.errors = v.errors
        /\ w.member = m /\ w.todo = v.todo \ {m} /\ w.stars = 0
    BY DEF EvaluationWork
  <2>4. /\ step' = [step EXCEPT ![r] = "get_member_transactions"]
        /\ work' = [work EXCEPT ![r] = w]
    BY <1>1 DEF RunGoesTo, SetWork
  <2> HIDE DEF w
  <2> QED BY <1>1, <2>2, <2>3, <2>4
<1>2. ASSUME v.todo = {}, v.round < 3,
             SetWork(r, [v EXCEPT !.round = @ + 1, !.member = NoMember, !.stars = 0]),
             RunGoesTo(r, "query_due_members"), outcome' = outcome
      PROVE  \E w \in EvaluationWork :
              /\ v.todo = {} /\ v.round < 3
              /\ w.now = v.now /\ w.round = v.round + 1 /\ w.errors = v.errors
              /\ w.todo = {}
              /\ step' = [step EXCEPT ![r] = "query_due_members"]
              /\ work' = [work EXCEPT ![r] = w]
              /\ outcome' = outcome
  <2> DEFINE w == [v EXCEPT !.round = @ + 1, !.member = NoMember, !.stars = 0]
  <2>2. w \in EvaluationWork
    BY <1>2, NextDueWork
  <2>3. /\ w.now = v.now /\ w.round = v.round + 1 /\ w.errors = v.errors
        /\ w.todo = v.todo
    BY DEF EvaluationWork
  <2>4. /\ step' = [step EXCEPT ![r] = "query_due_members"]
        /\ work' = [work EXCEPT ![r] = w]
    BY <1>2 DEF RunGoesTo, SetWork
  <2> HIDE DEF w
  <2> QED BY <1>2, <2>2, <2>3, <2>4
<1>3. ASSUME v.todo = {}, v.round = 3, RunReturns(r, Reply("ok", v.errors))
      PROVE  /\ v.todo = {} /\ v.round = 3
             /\ step' = [step EXCEPT ![r] = "done"]
             /\ work' = [work EXCEPT ![r] = NoWork]
             /\ outcome' = [outcome EXCEPT ![r] = Reply("ok", v.errors)]
  BY <1>3 DEF RunReturns
<1> QED BY <1>0, <1>1, <1>2, <1>3 DEF NextDue

-----------------------------------------------------------------------------
\* The items there ever were are finitely many and of their types, the index lists
\* members who have a profile, and every run is in order.
ItemsInv ==
  /\ byTier \in [Members -> Profile \cup {NoMember}]
  /\ \A m \in Members : byTier[m] # NoMember => profile[m] # NoMember
  /\ IsFiniteSet(ledger) /\ IsFiniteSet(txns)
  /\ purged \subseteq Transaction /\ IsFiniteSet(purged)
  /\ hollow \subseteq LedgerEntry
  /\ deductions \subseteq Deduction

\* The invariant of the whole system: of the handlers, of the items, of the
\* runs.
SystemInv ==
  /\ CoreInv
  /\ ItemsInv
  /\ RunInv

\* The run goes to step s, with local variables w and reply o.
Moves(r, s, w, o) ==
  /\ step' = [step EXCEPT ![r] = s]
  /\ work' = [work EXCEPT ![r] = w]
  /\ outcome' = [outcome EXCEPT ![r] = o]

\* The steps of a run.
RunStepName ==
  ExpirationRequest \cup EvaluationRequest \cup RemovalRequest \cup Ended \cup {"waiting"}

\* The local variables of a run.
RunWork == ListWork \cup ExpirationWork \cup EvaluationWork

\* The fields of the local variables have their types.
LEMMA WorkFields ==
  /\ \A w \in ListWork : w.now \in Day
  /\ \A w \in ExpirationWork :
       /\ w.now \in Day /\ w.todo \subseteq Members /\ w.member \in Members
       /\ w.entries \subseteq LedgerEntry /\ w.stars \in Int /\ w.unanswered \in Sending
  /\ \A w \in EvaluationWork :
       /\ w.now \in Day /\ w.todo \subseteq Members /\ w.entries \subseteq LedgerEntry
       /\ w.stars \in Int /\ w.round \in 1..3 /\ w.errors \in {0, 1}
  /\ NoWork \in ListWork
  BY DEF ListWork, ExpirationWork, EvaluationWork, NoWork, Day

\* A client that may not have heard of every sending has at most one more to make.
LEMMA SendAgain ==
  ASSUME NEW n \in Sending, n < MaxUnanswered
  PROVE  n + 1 \in Sending /\ n + 1 # 0 /\ n + 1 > n
  BY MaxUnansweredAssumption DEF Sending

\* The sums the jobs compute, of ledger entries and of purchases, are whole
\* numbers.
LEMMA SumsAreIntegers ==
  ASSUME SystemInv
  PROVE  /\ \A m \in Members, now \in Day : StarsIn(Expired(m, now)) \in Int
         /\ \A m \in Members, now \in Day : CalculateAnnualStars(m, now) \in Int
<1>1. ASSUME NEW m \in Members, NEW now \in Day PROVE StarsIn(Expired(m, now)) \in Int
  <2>1. Expired(m, now) \in SUBSET ledger /\ ledger \subseteq LedgerEntry /\ IsFiniteSet(ledger)
    BY DEF Expired, GetStarLedgerEntries, SystemInv, CoreInv, TypeOK, ItemsInv
  <2>2. IsFiniteSet(Expired(m, now)) /\ Numbered(Expired(m, now))
    BY <2>1, FS_Subset DEF Numbered, LedgerEntry
  <2>3. StarSum(Expired(m, now)) \in Int
    BY <2>2, SumIsInteger
  <2> QED BY <2>3 DEF StarSum, StarsIn
<1>2. ASSUME NEW m \in Members, NEW now \in Day PROVE CalculateAnnualStars(m, now) \in Int
  <2> DEFINE R == {t \in GetMemberTransactions(m) :
                     t.type = "PURCHASE" /\ t.day >= now - YearDays}
  <2>1. R \in SUBSET txns /\ txns \subseteq Transaction /\ IsFiniteSet(txns)
    BY DEF GetMemberTransactions, SystemInv, CoreInv, TypeOK, ItemsInv
  <2>2. IsFiniteSet(R) /\ Numbered(R)
    BY <2>1, FS_Subset DEF Numbered, Transaction
  <2>3. StarSum(R) \in Int
    BY <2>2, SumIsInteger
  <2> QED BY <2>3 DEF StarSum, CalculateAnnualStars, StarsEarned
<1> QED BY <1>1, <1>2

\* What no run touches.
LEMMA RunLeaves ==
  ASSUME NEW r \in Runs, RunAction(r)
  PROVE  /\ \/ runAttempt' = runAttempt
            \/ /\ step[r] = "waiting"
               /\ runAttempt' = [runAttempt EXCEPT ![r] = @ + 1]
         /\ today' = today /\ byTier' = byTier
         /\ purged' = purged /\ UNCHANGED deliveryVars
         /\ byTxnId' = byTxnId /\ ledger' \subseteq ledger
<1> DEFINE Left == /\ \/ runAttempt' = runAttempt
                      \/ /\ step[r] = "waiting"
                         /\ runAttempt' = [runAttempt EXCEPT ![r] = @ + 1]
                   /\ today' = today /\ byTier' = byTier
                   /\ byTxnId' = byTxnId /\ ledger' \subseteq ledger
<1> USE DEF tableVars
<1>0. purged' = purged /\ UNCHANGED deliveryVars
  BY DEF RunAction, RunStep, RunFault
<1>1. ASSUME StartExpiration(r) \/ StartEvaluation(r) PROVE Left
  BY <1>1 DEF StartExpiration, StartEvaluation, StartRun
<1>2. ASSUME \/ QueryGreenMembers(r) \/ ReadLedger(r) \/ Deduct(r) \/ DeleteEntries(r)
             \/ RecordExpiration(r)
      PROVE  Left
  BY <1>2 DEF QueryGreenMembers, ReadLedger, Deduct, DeleteEntries, DeleteStarLedgerEntries,
              RecordExpiration
<1>3. ASSUME \/ QueryDueMembers(r) \/ SumYear(r) \/ MoveTier(r) \/ SetAnnualCount(r)
             \/ ListPromotedEntries(r) \/ RemoveExpirationDate(r) \/ RecordTierChange(r)
             \/ KeepTierDate(r) \/ KeepTierKey(r)
      PROVE  Left
  BY <1>3 DEF QueryDueMembers, SumYear, MoveTier, SetAnnualCount, ListPromotedEntries,
              RemoveExpirationDate, RecordTierChange, KeepTierDate, KeepTierKey
<1>4. ASSUME \/ CrashRun(r) \/ DiscardRun(r) \/ ExpirationRequestFails(r)
             \/ DeductUnanswered(r) \/ EvaluationRequestFails(r) \/ RemovalFails(r)
      PROVE  Left
  BY <1>4 DEF CrashRun, DiscardRun, ExpirationRequestFails, DeductUnanswered,
              EvaluationRequestFails, RemovalFails
<1> QED BY <1>0, <1>1, <1>2, <1>3, <1>4 DEF RunAction, RunStep, RunFault, Expire, Evaluate

\* One run moves at a time, and what it gets to keeps the types.
LEMMA RunMoves ==
  ASSUME SystemInv, NEW r \in Runs, RunAction(r)
  PROVE  \E s \in RunStepName, w \in RunWork, o \in RunReply : Moves(r, s, w, o)
<1> DEFINE Moved == \E s \in RunStepName, x \in RunWork, o \in RunReply : Moves(r, s, x, o)
<1>0. /\ RunTypes /\ RunControl(r) /\ RunLists(r)
      /\ work[r] \in RunWork /\ step[r] \in RunStepName /\ outcome[r] \in RunReply
      /\ step = [step EXCEPT ![r] = step[r]] /\ work = [work EXCEPT ![r] = work[r]]
      /\ outcome = [outcome EXCEPT ![r] = outcome[r]]
      /\ NoWork \in RunWork
      /\ \A n \in Nat : Reply("ok", n) \in RunReply /\ Reply("error", n) \in RunReply
      /\ today \in Day
  BY WorkFields DEF SystemInv, RunInv, RunTypes, RunStepName, RunWork, Reply, RunReply, CoreInv, TypeOK
<1>1. ASSUME StartExpiration(r) PROVE Moved
  <2>1. [now |-> today] \in RunWork /\ "query_members_by_tier" \in RunStepName
    BY <1>0 DEF RunWork, ListWork, RunStepName, ExpirationRequest
  <2>2. Moves(r, "query_members_by_tier", [now |-> today], outcome[r])
    BY <1>0, <1>1 DEF StartExpiration, StartRun, RunGoesTo, SetWork, Moves
  <2> QED BY <1>0, <2>1, <2>2
<1>2. ASSUME StartEvaluation(r) PROVE Moved
  <2> DEFINE w == [now |-> today, round |-> 1, todo |-> {}, member |-> NoMember,
                   entries |-> {}, stars |-> 0, errors |-> 0]
  <2>1. w \in RunWork /\ "query_due_members" \in RunStepName
    BY <1>0 DEF RunWork, EvaluationWork, RunStepName, EvaluationRequest
  <2>2. Moves(r, "query_due_members", w, outcome[r])
    BY <1>0, <1>2 DEF StartEvaluation, StartRun, RunGoesTo, SetWork, Moves
  <2> HIDE DEF w
  <2> QED BY <1>0, <2>1, <2>2
<1>3. ASSUME NEW todo \in SUBSET Members, NextInactive(r, todo) PROVE Moved
  <2>1. work[r].now \in Day
    BY <1>0, WorkFields DEF RunWork
  <2>2. CASE /\ step' = [step EXCEPT ![r] = "done"]
             /\ work' = [work EXCEPT ![r] = NoWork]
             /\ outcome' = [outcome EXCEPT ![r] = Reply("ok", 0)]
    <3>1. Moves(r, "done", NoWork, Reply("ok", 0))
      BY <2>2 DEF Moves
    <3> QED BY <1>0, <3>1 DEF RunStepName, Ended
  <2>3. ASSUME NEW w \in ExpirationWork,
               step' = [step EXCEPT ![r] = "get_star_ledger_entries"],
               work' = [work EXCEPT ![r] = w], outcome' = outcome
        PROVE  Moved
    <3>1. Moves(r, "get_star_ledger_entries", w, outcome[r])
      BY <1>0, <2>3 DEF Moves
    <3> QED BY <1>0, <3>1 DEF RunStepName, ExpirationRequest, RunWork
  <2> QED BY <1>0, <1>3, <2>1, <2>2, <2>3, ListGoesOn
<1>4. ASSUME NEW v \in EvaluationWork, NextDue(r, v) PROVE Moved
  <2>1. ASSUME NEW w \in EvaluationWork, NEW s \in {"get_member_transactions", "query_due_members"},
               step' = [step EXCEPT ![r] = s],
               work' = [work EXCEPT ![r] = w], outcome' = outcome
        PROVE  Moved
    <3>1. Moves(r, s, w, outcome[r])
      BY <1>0, <2>1 DEF Moves
    <3> QED BY <1>0, <3>1 DEF RunStepName, EvaluationRequest, RunWork
  <2>2. CASE /\ step' = [step EXCEPT ![r] = "done"]
             /\ work' = [work EXCEPT ![r] = NoWork]
             /\ outcome' = [outcome EXCEPT ![r] = Reply("ok", v.errors)]
    <3>1. Moves(r, "done", NoWork, Reply("ok", v.errors))
      BY <2>2 DEF Moves
    <3>2. v.errors \in Nat
      BY WorkFields
    <3> QED BY <1>0, <3>1, <3>2 DEF RunStepName, Ended
  <2> QED BY <1>0, <1>4, <2>1, <2>2, EvaluationGoesOn
<1>5. ASSUME QueryGreenMembers(r) \/ ReadLedger(r) \/ RecordExpiration(r) PROVE Moved
  <2>1. CASE QueryGreenMembers(r)
    <3>1. PICK page \in FirstPage(Shown("Green"), ExpirationLimit) :
            NextInactive(r, {m \in page : Inactive(byTier[m], work[r].now)})
      BY <2>1 DEF QueryGreenMembers
    <3>2. {m \in page : Inactive(byTier[m], work[r].now)} \in SUBSET Members
      BY <3>1 DEF FirstPage, Shown
    <3> QED BY <1>3, <3>1, <3>2
  <2>2. CASE ReadLedger(r)
    <3> DEFINE m == work[r].member
               expired == Expired(m, work[r].now)
               w == [work[r] EXCEPT !.entries = expired, !.stars = StarsIn(expired)]
    <3>0. work[r] \in ExpirationWork /\ work[r].todo \in SUBSET Members
      BY <1>0, <2>2, WorkFields DEF ReadLedger, RunLists, MemberExpiration
    <3>1. CASE RunReturns(r, Reply("error", 0))
      <4>1. Moves(r, "done", NoWork, Reply("error", 0))
        BY <3>1 DEF Moves, RunReturns
      <4> QED BY <1>0, <4>1 DEF RunStepName, Ended
    <3>2. CASE NextInactive(r, work[r].todo)
      BY <1>3, <3>0, <3>2
    <3>3. CASE SetWork(r, w) /\ RunGoesTo(r, "deduct") /\ outcome' = outcome
      <4>1. m \in Members /\ work[r].now \in Day
        BY <3>0, WorkFields
      <4>2. PICK entries \in SUBSET LedgerEntry, stars \in Int :
              entries = expired /\ stars = StarsIn(expired)
        BY <4>1, SumsAreIntegers DEF Expired, GetStarLedgerEntries, SystemInv, CoreInv, TypeOK
      <4>3. [work[r] EXCEPT !.entries = entries, !.stars = stars] \in ExpirationWork
        BY <3>0 DEF ExpirationWork
      <4>4. w \in RunWork
        BY <4>2, <4>3 DEF RunWork
      <4>5. Moves(r, "deduct", w, outcome[r])
        BY <1>0, <3>3 DEF Moves, RunGoesTo, SetWork
      <4> HIDE DEF w
      <4> QED BY <1>0, <4>4, <4>5 DEF RunStepName, ExpirationRequest
    <3> QED BY <2>2, <3>1, <3>2, <3>3 DEF ReadLedger
  <2>3. CASE RecordExpiration(r)
    <3>0. work[r].todo \in SUBSET Members
      BY <1>0, <2>3, WorkFields DEF RecordExpiration, RunLists, MemberExpiration
    <3>1. CASE RunReturns(r, Reply("error", 0))
      <4>1. Moves(r, "done", NoWork, Reply("error", 0))
        BY <3>1 DEF Moves, RunReturns
      <4> QED BY <1>0, <4>1 DEF RunStepName, Ended
    <3> QED BY <1>3, <2>3, <3>0, <3>1 DEF RecordExpiration
  <2> QED BY <1>5, <2>1, <2>2, <2>3
<1>6. ASSUME Deduct(r) \/ DeleteEntries(r) \/ ExpirationRequestFails(r) PROVE Moved
  <2>1. CASE RunReturns(r, Reply("error", 0))
    <3>1. Moves(r, "done", NoWork, Reply("error", 0))
      BY <2>1 DEF Moves, RunReturns
    <3> QED BY <1>0, <3>1 DEF RunStepName, Ended
  <2>2. CASE /\ RunGoesTo(r, "delete_star_ledger_entries")
             /\ UNCHANGED <<work, outcome>>
    <3>1. Moves(r, "delete_star_ledger_entries", work[r], outcome[r])
      BY <1>0, <2>2 DEF Moves, RunGoesTo
    <3> QED BY <1>0, <3>1 DEF RunStepName, ExpirationRequest
  <2>3. CASE DeleteEntries(r)
    <3>0. work[r] \in ExpirationWork
      BY <1>0, <2>3 DEF DeleteEntries, RunLists, MemberExpiration
    <3>1. PICK batch \in SUBSET work[r].entries :
            /\ SetWork(r, [work[r] EXCEPT !.entries = @ \ batch])
            /\ \E s \in {"record_expiration", "delete_star_ledger_entries"} : RunGoesTo(r, s)
      BY <2>3 DEF DeleteEntries
    <3>2. PICK s \in {"record_expiration", "delete_star_ledger_entries"} : RunGoesTo(r, s)
      BY <3>1
    <3>3. PICK entries \in SUBSET LedgerEntry : entries = work[r].entries \ batch
      BY <3>0, WorkFields
    <3>4. [work[r] EXCEPT !.entries = entries] \in ExpirationWork
      BY <3>0 DEF ExpirationWork
    <3>5. Moves(r, s, [work[r] EXCEPT !.entries = entries], outcome[r])
      BY <1>0, <2>3, <3>1, <3>2, <3>3 DEF Moves, RunGoesTo, SetWork, DeleteEntries
    <3> QED BY <1>0, <3>4, <3>5 DEF RunStepName, ExpirationRequest, RunWork
  <2> QED BY <1>6, <2>1, <2>2, <2>3 DEF Deduct, ExpirationRequestFails
<1>7. ASSUME \/ QueryDueMembers(r) \/ RecordTierChange(r) \/ KeepTierKey(r)
             \/ EvaluationRequestFails(r)
      PROVE  Moved
  <2>0. work[r] \in EvaluationWork
    BY <1>0, <1>7 DEF QueryDueMembers, RecordTierChange, KeepTierKey, EvaluationRequestFails,
                  RunLists, MemberEvaluation, EvaluationRequest
  <2>1. CASE QueryDueMembers(r)
    <3>1. PICK page \in FirstPage(ShownDue(OldTier(r), work[r].now), EvaluationLimit) :
            NextDue(r, [work[r] EXCEPT !.todo = page])
      BY <2>1 DEF QueryDueMembers
    <3>2. page \in SUBSET Members
      BY <3>1 DEF FirstPage, ShownDue, Shown
    <3>3. [work[r] EXCEPT !.todo = page] \in EvaluationWork
      BY <2>0, <3>2 DEF EvaluationWork
    <3> QED BY <1>4, <3>1, <3>3
  <2>2. CASE RecordTierChange(r) \/ KeepTierKey(r)
    BY <1>4, <2>0, <2>2, NextDueWork DEF RecordTierChange, KeepTierKey, AfterLastWrite
  <2>3. CASE EvaluationRequestFails(r)
    BY <1>4, <2>0, <2>3, NextDueWork DEF EvaluationRequestFails
  <2> QED BY <1>7, <2>1, <2>2, <2>3
<1>8. ASSUME SumYear(r) PROVE Moved
  <2>0. work[r] \in EvaluationWork /\ work[r].member \in Members
    BY <1>0, <1>8 DEF SumYear, RunLists, MemberEvaluation, Present
  <2>1. PICK stars \in Int, s \in {"update_member_tier", "keep_tier_date"} :
          SetWork(r, [work[r] EXCEPT !.stars = stars]) /\ RunGoesTo(r, s)
    <3>1. CalculateAnnualStars(work[r].member, work[r].now) \in Int
      BY <2>0, WorkFields, SumsAreIntegers
    <3> QED BY <1>8, <3>1 DEF SumYear
  <2>2. [work[r] EXCEPT !.stars = stars] \in EvaluationWork
    BY <2>0 DEF EvaluationWork
  <2>3. Moves(r, s, [work[r] EXCEPT !.stars = stars], outcome[r])
    BY <1>0, <1>8, <2>1 DEF Moves, RunGoesTo, SetWork, SumYear
  <2> QED BY <1>0, <2>2, <2>3 DEF RunStepName, EvaluationRequest, RunWork
<1>9. ASSUME MoveTier(r) \/ SetAnnualCount(r) \/ KeepTierDate(r) \/ DiscardRun(r) PROVE Moved
  <2>1. PICK s \in {"update_annual_count", "list_promoted_entries", "record_tier_change",
                    "keep_tier_key", "dead letter"} : RunGoesTo(r, s)
    BY <1>9 DEF MoveTier, SetAnnualCount, KeepTierDate, DiscardRun
  <2>2. Moves(r, s, work[r], outcome[r])
    BY <1>0, <1>9, <2>1 DEF Moves, RunGoesTo, MoveTier, SetAnnualCount, KeepTierDate, DiscardRun
  <2> QED BY <1>0, <2>2 DEF RunStepName, EvaluationRequest, RemovalRequest, Ended
<1>10. ASSUME NEW b, AfterEntry(r, b), outcome' = outcome, step[r] = "remove_expiration_date"
       PROVE  Moved
  <2>0. work[r] \in EvaluationWork
    BY <1>0, <1>10 DEF RunLists, MemberEvaluation
  <2>1. PICK entries \in SUBSET LedgerEntry : entries = work[r].entries \ {b}
    BY <2>0, WorkFields
  <2>2. PICK s \in {"record_tier_change", "remove_expiration_date"} : RunGoesTo(r, s)
    BY <1>10 DEF AfterEntry
  <2>3. [work[r] EXCEPT !.entries = entries] \in EvaluationWork
    BY <2>0 DEF EvaluationWork
  <2>4. Moves(r, s, [work[r] EXCEPT !.entries = entries], outcome[r])
    BY <1>0, <1>10, <2>1, <2>2 DEF Moves, RunGoesTo, SetWork, AfterEntry
  <2> QED BY <1>0, <2>3, <2>4 DEF RunStepName, EvaluationRequest, RemovalRequest, RunWork
<1>11. ASSUME ListPromotedEntries(r) PROVE Moved
  <2>0. work[r] \in EvaluationWork
    BY <1>0, <1>11 DEF ListPromotedEntries, RunLists, MemberEvaluation
  <2>1. PICK entries \in SUBSET LedgerEntry, s \in {"record_tier_change", "remove_expiration_date"} :
          SetWork(r, [work[r] EXCEPT !.entries = entries]) /\ RunGoesTo(r, s)
    BY <1>11 DEF ListPromotedEntries, GetStarLedgerEntries, SystemInv, CoreInv, TypeOK
  <2>2. [work[r] EXCEPT !.entries = entries] \in EvaluationWork
    BY <2>0 DEF EvaluationWork
  <2>3. Moves(r, s, [work[r] EXCEPT !.entries = entries], outcome[r])
    BY <1>0, <1>11, <2>1 DEF Moves, RunGoesTo, SetWork, ListPromotedEntries
  <2> QED BY <1>0, <2>2, <2>3 DEF RunStepName, EvaluationRequest, RemovalRequest, RunWork
<1>12. ASSUME RemoveExpirationDate(r) \/ RemovalFails(r) PROVE Moved
  <2>1. CASE /\ step[r] = "list_promoted_entries" /\ outcome' = outcome
             /\ RunGoesTo(r, "record_tier_change") /\ work' = work
    <3>1. Moves(r, "record_tier_change", work[r], outcome[r])
      BY <1>0, <2>1 DEF Moves, RunGoesTo
    <3> QED BY <1>0, <3>1 DEF RunStepName, EvaluationRequest
  <2> QED BY <1>10, <1>12, <2>1 DEF RemoveExpirationDate, RemovalFails
<1>13. ASSUME CrashRun(r) PROVE Moved
  <2>1. PICK s \in {"waiting", "dead letter"} : RunGoesTo(r, s)
    BY <1>13 DEF CrashRun, AfterRunCrash
  <2>2. Moves(r, s, NoWork, outcome[r])
    BY <1>0, <1>13, <2>1 DEF Moves, RunGoesTo, SetWork, CrashRun
  <2> QED BY <1>0, <2>2 DEF RunStepName, Ended
<1>14. ASSUME DeductUnanswered(r) PROVE Moved
  <2>0. work[r] \in ExpirationWork
    BY <1>0, <1>14 DEF DeductUnanswered, RunLists, MemberExpiration
  <2>1. PICK n \in Sending : n = work[r].unanswered + 1
    BY <1>14, <2>0, SendAgain, WorkFields DEF DeductUnanswered
  <2>2. [work[r] EXCEPT !.unanswered = n] \in ExpirationWork
    BY <2>0 DEF ExpirationWork
  <2>3. Moves(r, step[r], [work[r] EXCEPT !.unanswered = n], outcome[r])
    BY <1>0, <1>14, <2>1 DEF Moves, SetWork, DeductUnanswered
  <2> QED BY <1>0, <2>2, <2>3 DEF RunWork
<1> HIDE DEF Moved
<1>15. Moved
  BY <1>1, <1>2, <1>5, <1>6, <1>7, <1>8, <1>9, <1>11, <1>12, <1>13, <1>14
     DEF RunAction, RunStep, RunFault, Expire, Evaluate
<1> QED BY <1>15 DEF Moved

\* A step of one run leaves the others where they are.
LEMMA OtherRunsStay ==
  ASSUME SystemInv, NEW r \in Runs, NEW q \in Runs \ {r}, RunAction(r)
  PROVE  /\ step'[q] = step[q] /\ work'[q] = work[q]
         /\ outcome'[q] = outcome[q] /\ runAttempt'[q] = runAttempt[q]
<1>1. RunTypes
  BY DEF SystemInv, RunInv
<1>2. PICK s \in RunStepName, w \in RunWork, o \in RunReply : Moves(r, s, w, o)
  BY RunMoves
<1> QED BY <1>1, <1>2, RunLeaves DEF Moves, RunTypes

\* A step of a run keeps the types of all runs.
LEMMA RunTypesStep ==
  ASSUME SystemInv, NEW r \in Runs, RunAction(r)
  PROVE  RunTypes'
<1>1. RunTypes /\ RunControl(r)
  BY DEF SystemInv, RunInv
<1>2. PICK s \in RunStepName, w \in RunWork, o \in RunReply : Moves(r, s, w, o)
  BY RunMoves
<1>3. runAttempt' \in [Runs -> 0..MaxRunAttempts]
  <2>1. CASE runAttempt' = runAttempt
    BY <1>1, <2>1 DEF RunTypes
  <2>2. CASE step[r] = "waiting" /\ runAttempt' = [runAttempt EXCEPT ![r] = @ + 1]
    <3>0. MaxRunAttempts \in Nat
      BY RunAssumption
    <3>1. runAttempt[r] \in 0..MaxRunAttempts /\ runAttempt[r] < MaxRunAttempts
      BY <1>1, <2>2 DEF RunTypes, RunControl
    <3>2. runAttempt[r] + 1 \in 0..MaxRunAttempts
      BY <3>0, <3>1
    <3> QED BY <1>1, <2>2, <3>2 DEF RunTypes
  <2> QED BY <2>1, <2>2, RunLeaves
<1> QED BY <1>1, <1>2, <1>3 DEF RunTypes, Moves, RunStepName, RunWork

\* What becomes of a run in a step of its own: an attempt starts, ends without an
\* answer, ends with one, or goes on with its list.
Starts(r) ==
  /\ step[r] = "waiting" /\ DayOf[r] = today
  /\ runAttempt'[r] = runAttempt[r] + 1 /\ outcome'[r] = outcome[r]
  /\ work'[r].now = today
  /\ \/ /\ JobOf[r] = "expiration"
        /\ step'[r] = "query_members_by_tier" /\ work'[r] \in ListWork
     \/ /\ JobOf[r] = "evaluation"
        /\ step'[r] = "query_due_members" /\ work'[r] \in EvaluationWork
        /\ work'[r].todo = {} /\ work'[r].round = 1 /\ work'[r].errors = 0

\* The attempt at the job breaks off, or the retries are over.
Stops(r) ==
  /\ runAttempt'[r] = runAttempt[r] /\ outcome'[r] = outcome[r] /\ work'[r] = NoWork
  /\ \/ /\ Active(r)
        /\ step'[r] = IF runAttempt[r] < MaxRunAttempts THEN "waiting" ELSE "dead letter"
     \/ step[r] = "waiting" /\ DayOf[r] = today /\ step'[r] = "dead letter"

\* The handler of the job returns.
Finishes(r) ==
  /\ Active(r)
  /\ runAttempt'[r] = runAttempt[r] /\ work'[r] = NoWork /\ step'[r] = "done"
  /\ \/ outcome'[r] = Reply("error", 0) /\ step[r] \in ExpirationRequest
     \/ outcome'[r] = Reply("ok", 0) /\ step[r] \in ExpirationRequest
     \/ /\ step[r] \in EvaluationRequest
        /\ \E n \in {work[r].errors, 1} : outcome'[r] = Reply("ok", n)

\* The expiration goes on: with the list it just read, or with a part of the
\* list it has.
ExpirationGoes(r) ==
  /\ step[r] \in ExpirationRequest /\ step'[r] \in MemberExpiration
  /\ runAttempt'[r] = runAttempt[r] /\ outcome'[r] = outcome[r]
  /\ work'[r] \in ExpirationWork /\ work'[r].now = work[r].now
  /\ \A m \in work'[r].todo \cup {work'[r].member} :
       IF step[r] = "query_members_by_tier"
         THEN m \in Shown("Green") /\ Inactive(byTier[m], work[r].now)
         ELSE m \in work[r].todo \cup {work[r].member}

\* The evaluation goes on: to its next query, or with a member of a list.
EvaluationGoes(r) ==
  /\ step[r] \in EvaluationRequest \cup RemovalRequest
  /\ runAttempt'[r] = runAttempt[r] /\ outcome'[r] = outcome[r]
  /\ work'[r] \in EvaluationWork /\ work'[r].now = work[r].now
  /\ work'[r].errors >= work[r].errors
  /\ \/ /\ step'[r] = "query_due_members" /\ work'[r].todo = {}
     \/ /\ step'[r] \in MemberEvaluation /\ work'[r].round = work[r].round
        /\ \A m \in work'[r].todo \cup {work'[r].member} :
             IF step[r] = "query_due_members"
               THEN m \in ShownDue(OldTier(r), work[r].now)
               ELSE m \in work[r].todo \cup {work[r].member}

\* Whatever a run does, it starts, stops, returns or goes on.
LEMMA RunGoes ==
  ASSUME SystemInv, NEW r \in Runs, RunAction(r)
  PROVE  Starts(r) \/ Stops(r) \/ Finishes(r) \/ ExpirationGoes(r) \/ EvaluationGoes(r)
<1>0. /\ RunTypes /\ RunControl(r) /\ RunLists(r) /\ today \in Day
      /\ work[r].now \in Day
  <2>1. RunTypes /\ RunControl(r) /\ RunLists(r) /\ today \in Day
    BY DEF SystemInv, RunInv, CoreInv, TypeOK
  <2> QED BY <2>1, WorkFields DEF RunTypes
<1>a. /\ \A s : RunGoesTo(r, s) => step'[r] = s
      /\ \A w : SetWork(r, w) => work'[r] = w
      /\ \A o : RunReturns(r, o) => step'[r] = "done" /\ work'[r] = NoWork /\ outcome'[r] = o
  BY <1>0 DEF RunTypes, RunGoesTo, SetWork, RunReturns
<1>1. CASE StartExpiration(r)
  <2>1. [now |-> today] \in ListWork
    BY <1>0 DEF ListWork
  <2> QED BY <1>0, <1>1, <1>a, <2>1 DEF StartExpiration, StartRun, Starts, RunTypes
<1>2. CASE StartEvaluation(r)
  <2> DEFINE w == [now |-> today, round |-> 1, todo |-> {}, member |-> NoMember,
                   entries |-> {}, stars |-> 0, errors |-> 0]
  <2>1. /\ w \in EvaluationWork /\ w.now = today /\ w.todo = {} /\ w.round = 1
        /\ w.errors = 0
    BY <1>0 DEF EvaluationWork
  <2>2. work'[r] = w
    BY <1>2, <1>a DEF StartEvaluation, StartRun
  <2> HIDE DEF w
  <2> QED BY <1>0, <1>2, <1>a, <2>1, <2>2 DEF StartEvaluation, StartRun, Starts, RunTypes
<1>3. ASSUME CrashRun(r) \/ DiscardRun(r) PROVE Stops(r)
  <2>1. CASE CrashRun(r)
    BY <1>0, <1>a, <2>1 DEF CrashRun, AfterRunCrash, Stops, Active
  <2>2. CASE DiscardRun(r)
    <3>1. work[r] = NoWork
      BY <1>0, <2>2 DEF DiscardRun, RunControl, Active
    <3> QED BY <1>0, <1>a, <2>2, <3>1 DEF DiscardRun, Stops
  <2> QED BY <1>3, <2>1, <2>2
<1>4. ASSUME NEW todo \in SUBSET Members, NextInactive(r, todo), runAttempt' = runAttempt,
             step[r] \in ExpirationRequest,
             \A m \in todo : IF step[r] = "query_members_by_tier"
                               THEN m \in Shown("Green") /\ Inactive(byTier[m], work[r].now)
                               ELSE m \in work[r].todo \cup {work[r].member}
      PROVE  Finishes(r) \/ ExpirationGoes(r)
  <2>1. CASE /\ step' = [step EXCEPT ![r] = "done"]
             /\ work' = [work EXCEPT ![r] = NoWork]
             /\ outcome' = [outcome EXCEPT ![r] = Reply("ok", 0)]
    BY <1>0, <1>4, <2>1 DEF RunTypes, Finishes, Active, ExpirationRequest, Ended
  <2>2. ASSUME NEW w \in ExpirationWork,
               w.now = work[r].now, w.member \in todo, w.todo = todo \ {w.member},
               step' = [step EXCEPT ![r] = "get_star_ledger_entries"],
               work' = [work EXCEPT ![r] = w], outcome' = outcome
        PROVE  ExpirationGoes(r)
    <3>1. /\ step'[r] = "get_star_ledger_entries" /\ work'[r] = w
          /\ outcome'[r] = outcome[r]
      BY <1>0, <2>2 DEF RunTypes
    <3>2. \A m \in work'[r].todo \cup {work'[r].member} : m \in todo
      BY <2>2, <3>1
    <3> QED BY <1>4, <2>2, <3>1, <3>2 DEF ExpirationGoes, MemberExpiration
  <2> QED BY <1>0, <1>4, <2>1, <2>2, ListGoesOn
<1>5. ASSUME QueryGreenMembers(r) PROVE Finishes(r) \/ ExpirationGoes(r)
  <2>1. PICK page \in FirstPage(Shown("Green"), ExpirationLimit) :
          NextInactive(r, {m \in page : Inactive(byTier[m], work[r].now)})
    BY <1>5 DEF QueryGreenMembers
  <2>2. page \subseteq Shown("Green") /\ Shown("Green") \subseteq Members
    BY DEF FirstPage, Shown
  <2> QED BY <1>4, <1>5, <2>1, <2>2 DEF QueryGreenMembers, ExpirationRequest
<1>6. ASSUME ReadLedger(r) PROVE Finishes(r) \/ ExpirationGoes(r)
  <2> DEFINE m == work[r].member
             expired == Expired(m, work[r].now)
             w == [work[r] EXCEPT !.entries = expired, !.stars = StarsIn(expired)]
  <2>0. /\ step[r] = "get_star_ledger_entries" /\ step[r] \in ExpirationRequest
        /\ work[r] \in ExpirationWork /\ work[r].todo \in SUBSET Members
        /\ m \in Members /\ runAttempt' = runAttempt
    BY <1>0, <1>6, WorkFields
       DEF ReadLedger, RunLists, MemberExpiration, ExpirationRequest
  <2>1. CASE RunReturns(r, Reply("error", 0))
    BY <1>a, <2>0, <2>1 DEF Finishes, Active, Ended
  <2>2. CASE NextInactive(r, work[r].todo)
    BY <1>4, <2>0, <2>2
  <2>3. CASE SetWork(r, w) /\ RunGoesTo(r, "deduct") /\ outcome' = outcome
    <3>1. PICK entries \in SUBSET LedgerEntry, stars \in Int :
            entries = expired /\ stars = StarsIn(expired)
      BY <1>0, <2>0, SumsAreIntegers
         DEF Expired, GetStarLedgerEntries, SystemInv, CoreInv, TypeOK
    <3>2. LET v == [work[r] EXCEPT !.entries = entries, !.stars = stars]
          IN  /\ v \in ExpirationWork /\ v.now = work[r].now
              /\ v.todo = work[r].todo /\ v.member = m
      BY <2>0 DEF ExpirationWork
    <3>3. /\ w \in ExpirationWork /\ w.now = work[r].now
          /\ w.todo = work[r].todo /\ w.member = m
      BY <3>1, <3>2
    <3>4. step'[r] = "deduct" /\ work'[r] = w
      BY <1>a, <2>3
    <3> HIDE DEF w
    <3> QED BY <2>0, <2>3, <3>3, <3>4 DEF ExpirationGoes, MemberExpiration
  <2> QED BY <1>6, <2>1, <2>2, <2>3 DEF ReadLedger
<1>7. ASSUME Deduct(r) PROVE Finishes(r) \/ ExpirationGoes(r)
  <2>0. /\ step[r] = "deduct" /\ step[r] \in ExpirationRequest
        /\ work[r] \in ExpirationWork /\ runAttempt' = runAttempt
    BY <1>0, <1>7 DEF Deduct, RunLists, MemberExpiration, ExpirationRequest
  <2>1. CASE RunReturns(r, Reply("error", 0))
    BY <1>a, <2>0, <2>1 DEF Finishes, Active, Ended
  <2>2. CASE RunGoesTo(r, "delete_star_ledger_entries") /\ UNCHANGED <<work, outcome>>
    BY <1>a, <2>0, <2>2 DEF ExpirationGoes, MemberExpiration
  <2> QED BY <1>7, <2>1, <2>2 DEF Deduct
<1>8. ASSUME DeleteEntries(r) PROVE ExpirationGoes(r)
  <2>0. /\ step[r] = "delete_star_ledger_entries" /\ step[r] \in ExpirationRequest
        /\ work[r] \in ExpirationWork /\ runAttempt' = runAttempt /\ outcome' = outcome
    BY <1>0, <1>8 DEF DeleteEntries, RunLists, MemberExpiration, ExpirationRequest
  <2>1. PICK batch \in SUBSET work[r].entries :
          /\ SetWork(r, [work[r] EXCEPT !.entries = @ \ batch])
          /\ \E s \in {"record_expiration", "delete_star_ledger_entries"} : RunGoesTo(r, s)
    BY <1>8 DEF DeleteEntries
  <2>2. PICK entries \in SUBSET LedgerEntry : entries = work[r].entries \ batch
    BY <2>0, WorkFields
  <2> DEFINE v == [work[r] EXCEPT !.entries = entries]
  <2>3. /\ v \in ExpirationWork /\ v.now = work[r].now
        /\ v.todo = work[r].todo /\ v.member = work[r].member
    BY <2>0 DEF ExpirationWork
  <2>4. work'[r] = v /\ step'[r] \in MemberExpiration
    BY <1>a, <2>1, <2>2 DEF MemberExpiration
  <2> HIDE DEF v
  <2> QED BY <2>0, <2>3, <2>4 DEF ExpirationGoes
<1>9. ASSUME RecordExpiration(r) PROVE Finishes(r) \/ ExpirationGoes(r)
  <2>0. /\ step[r] = "record_expiration" /\ step[r] \in ExpirationRequest
        /\ work[r].todo \in SUBSET Members /\ runAttempt' = runAttempt
    BY <1>0, <1>9, WorkFields
       DEF RecordExpiration, RunLists, MemberExpiration, ExpirationRequest
  <2>1. CASE RunReturns(r, Reply("error", 0))
    BY <1>a, <2>0, <2>1 DEF Finishes, Active, Ended
  <2> QED BY <1>4, <1>9, <2>0, <2>1 DEF RecordExpiration
<1>10. ASSUME ExpirationRequestFails(r) PROVE Finishes(r)
  BY <1>a, <1>10 DEF ExpirationRequestFails, Finishes, Active, ExpirationRequest, Ended
<1>11. ASSUME NEW v \in EvaluationWork, NextDue(r, v), runAttempt' = runAttempt,
              step[r] \in EvaluationRequest, v.now = work[r].now, v.round = work[r].round,
              v.errors \in {work[r].errors, 1},
              work[r] \in EvaluationWork,
              \A m \in v.todo : IF step[r] = "query_due_members"
                                  THEN m \in ShownDue(OldTier(r), work[r].now)
                                  ELSE m \in work[r].todo \cup {work[r].member}
       PROVE  Finishes(r) \/ EvaluationGoes(r)
  <2>0. v.errors >= work[r].errors
    <3>1. work[r].errors \in {0, 1}
      BY <1>11, WorkFields
    <3> QED BY <1>11, <3>1
  <2>1. CASE /\ step' = [step EXCEPT ![r] = "done"]
             /\ work' = [work EXCEPT ![r] = NoWork]
             /\ outcome' = [outcome EXCEPT ![r] = Reply("ok", v.errors)]
    <3>1. step'[r] = "done" /\ work'[r] = NoWork /\ outcome'[r] = Reply("ok", v.errors)
      BY <1>0, <2>1 DEF RunTypes
    <3>2. \E n \in {work[r].errors, 1} : outcome'[r] = Reply("ok", n)
      BY <1>11, <3>1
    <3> QED BY <1>11, <3>1, <3>2 DEF Finishes, Active, EvaluationRequest, Ended
  <2>2. ASSUME NEW w \in EvaluationWork,
               w.now = v.now, w.round = v.round, w.errors = v.errors,
               w.member \in v.todo, w.todo = v.todo \ {w.member},
               step' = [step EXCEPT ![r] = "get_member_transactions"],
               work' = [work EXCEPT ![r] = w], outcome' = outcome
        PROVE  EvaluationGoes(r)
    <3>1. /\ step'[r] = "get_member_transactions" /\ work'[r] = w
          /\ outcome'[r] = outcome[r]
      BY <1>0, <2>2 DEF RunTypes
    <3>2. \A m \in work'[r].todo \cup {work'[r].member} : m \in v.todo
      BY <2>2, <3>1
    <3> QED BY <1>11, <2>0, <2>2, <3>1, <3>2 DEF EvaluationGoes, MemberEvaluation
  <2>3. ASSUME NEW w \in EvaluationWork,
               w.now = v.now, w.errors = v.errors, w.todo = {},
               step' = [step EXCEPT ![r] = "query_due_members"],
               work' = [work EXCEPT ![r] = w], outcome' = outcome
        PROVE  EvaluationGoes(r)
    <3>1. /\ step'[r] = "query_due_members" /\ work'[r] = w
          /\ outcome'[r] = outcome[r]
      BY <1>0, <2>3 DEF RunTypes
    <3> QED BY <1>11, <2>0, <2>3, <3>1 DEF EvaluationGoes
  <2> QED BY <1>0, <1>11, <2>1, <2>2, <2>3, EvaluationGoesOn
<1>12. ASSUME QueryDueMembers(r) PROVE Finishes(r) \/ EvaluationGoes(r)
  <2>0. step[r] = "query_due_members" /\ work[r] \in EvaluationWork /\ runAttempt' = runAttempt
    BY <1>0, <1>12 DEF QueryDueMembers, RunLists
  <2>1. PICK page \in FirstPage(ShownDue(OldTier(r), work[r].now), EvaluationLimit) :
          NextDue(r, [work[r] EXCEPT !.todo = page])
    BY <1>12 DEF QueryDueMembers
  <2>2. page \subseteq ShownDue(OldTier(r), work[r].now) /\ page \in SUBSET Members
    BY DEF FirstPage, ShownDue, Shown
  <2> DEFINE v == [work[r] EXCEPT !.todo = page]
  <2>3. /\ v \in EvaluationWork /\ v.now = work[r].now /\ v.round = work[r].round
        /\ v.errors = work[r].errors /\ v.todo = page
    BY <2>0, <2>2 DEF EvaluationWork
  <2> HIDE DEF v
  <2> QED BY <1>11, <2>0, <2>1, <2>2, <2>3 DEF EvaluationRequest, v
<1>13. ASSUME RecordTierChange(r) \/ KeepTierKey(r) PROVE Finishes(r) \/ EvaluationGoes(r)
  <2>0. /\ step[r] \in EvaluationRequest /\ step[r] # "query_due_members"
        /\ work[r] \in EvaluationWork /\ runAttempt' = runAttempt
        /\ AfterLastWrite(r)
    BY <1>0, <1>13
       DEF RecordTierChange, KeepTierKey, RunLists, EvaluationRequest, MemberEvaluation
  <2> DEFINE v == [work[r] EXCEPT !.errors = 1]
  <2>1. /\ v \in EvaluationWork /\ v.now = work[r].now /\ v.round = work[r].round
        /\ v.errors = 1 /\ v.todo = work[r].todo
    BY <2>0, NextDueWork DEF EvaluationWork
  <2>2. NextDue(r, work[r]) \/ NextDue(r, v)
    BY <2>0 DEF AfterLastWrite
  <2> HIDE DEF v
  <2>3. CASE NextDue(r, work[r])
    BY <1>11, <2>0, <2>3
  <2>4. CASE NextDue(r, v)
    BY <1>11, <2>0, <2>1, <2>4
  <2> QED BY <2>2, <2>3, <2>4
<1>14. ASSUME EvaluationRequestFails(r) PROVE Finishes(r) \/ EvaluationGoes(r)
  <2>0. /\ step[r] \in EvaluationRequest /\ work[r] \in EvaluationWork
        /\ runAttempt' = runAttempt
        /\ step[r] = "query_due_members" => work[r].todo = {}
    BY <1>0, <1>14
       DEF EvaluationRequestFails, RunLists, EvaluationRequest, MemberEvaluation
  <2> DEFINE v == [work[r] EXCEPT !.errors = 1]
  <2>1. v \in EvaluationWork /\ NextDue(r, v)
    BY <1>14, <2>0, NextDueWork DEF EvaluationRequestFails
  <2>2. /\ v.now = work[r].now /\ v.round = work[r].round
        /\ v.errors = 1 /\ v.todo = work[r].todo
    BY <2>0 DEF EvaluationWork
  <2> HIDE DEF v
  <2> QED BY <1>11, <2>0, <2>1, <2>2
<1>15. ASSUME NEW v \in EvaluationWork,
              step[r] \in MemberEvaluation, step'[r] \in MemberEvaluation,
              work'[r] = v, outcome'[r] = outcome[r], runAttempt' = runAttempt,
              v.now = work[r].now, v.round = work[r].round, v.errors = work[r].errors,
              v.todo = work[r].todo, v.member = work[r].member
       PROVE  EvaluationGoes(r)
  <2>0. v.errors >= work[r].errors
    BY <1>15, WorkFields
  <2> QED BY <1>15, <2>0 DEF EvaluationGoes, MemberEvaluation, EvaluationRequest, RemovalRequest
<1>16. ASSUME SumYear(r) PROVE EvaluationGoes(r)
  <2>0. /\ step[r] \in MemberEvaluation /\ work[r] \in EvaluationWork
        /\ work[r].member \in Members /\ runAttempt' = runAttempt /\ outcome' = outcome
    BY <1>0, <1>16 DEF SumYear, RunLists, MemberEvaluation, Present
  <2>1. PICK stars \in Int, s \in {"update_member_tier", "keep_tier_date"} :
          SetWork(r, [work[r] EXCEPT !.stars = stars]) /\ RunGoesTo(r, s)
    <3>1. CalculateAnnualStars(work[r].member, work[r].now) \in Int
      BY <1>0, <2>0, SumsAreIntegers
    <3> QED BY <1>16, <3>1 DEF SumYear
  <2> DEFINE v == [work[r] EXCEPT !.stars = stars]
  <2>2. /\ v \in EvaluationWork /\ v.now = work[r].now /\ v.round = work[r].round
        /\ v.errors = work[r].errors /\ v.todo = work[r].todo /\ v.member = work[r].member
    BY <2>0 DEF EvaluationWork
  <2>3. work'[r] = v /\ step'[r] \in MemberEvaluation
    BY <1>a, <2>1 DEF MemberEvaluation
  <2> HIDE DEF v
  <2> QED BY <1>15, <2>0, <2>2, <2>3
<1>17. ASSUME MoveTier(r) \/ SetAnnualCount(r) \/ KeepTierDate(r) PROVE EvaluationGoes(r)
  <2>0. /\ step[r] \in MemberEvaluation /\ work[r] \in EvaluationWork
        /\ runAttempt' = runAttempt /\ outcome' = outcome /\ work' = work
        /\ step'[r] \in MemberEvaluation
    BY <1>0, <1>17, <1>a DEF MoveTier, SetAnnualCount, KeepTierDate, RunLists, MemberEvaluation
  <2> QED BY <1>15, <2>0
<1>18. ASSUME ListPromotedEntries(r) \/ RemoveExpirationDate(r) \/ RemovalFails(r)
       PROVE  EvaluationGoes(r)
  <2>0. /\ step[r] \in MemberEvaluation /\ work[r] \in EvaluationWork
        /\ runAttempt' = runAttempt /\ outcome' = outcome
    BY <1>0, <1>18
       DEF ListPromotedEntries, RemoveExpirationDate, RemovalFails, RunLists, MemberEvaluation
  <2>1. CASE work' = work /\ RunGoesTo(r, "record_tier_change")
    BY <1>15, <1>a, <2>0, <2>1 DEF MemberEvaluation
  <2>2. ASSUME NEW entries \in SUBSET LedgerEntry,
               SetWork(r, [work[r] EXCEPT !.entries = entries]),
               NEW s \in {"record_tier_change", "remove_expiration_date"}, RunGoesTo(r, s)
        PROVE  EvaluationGoes(r)
    <3> DEFINE v == [work[r] EXCEPT !.entries = entries]
    <3>1. /\ v \in EvaluationWork /\ v.now = work[r].now /\ v.round = work[r].round
          /\ v.errors = work[r].errors /\ v.todo = work[r].todo /\ v.member = work[r].member
      BY <2>0 DEF EvaluationWork
    <3>2. work'[r] = v /\ step'[r] \in MemberEvaluation
      BY <1>a, <2>2 DEF MemberEvaluation
    <3> HIDE DEF v
    <3> QED BY <1>15, <2>0, <3>1, <3>2
  <2>3. CASE ListPromotedEntries(r)
    BY <2>2, <2>3 DEF ListPromotedEntries, GetStarLedgerEntries, SystemInv, CoreInv, TypeOK
  <2>4. ASSUME NEW b, AfterEntry(r, b) PROVE EvaluationGoes(r)
    <3>1. work[r].entries \ {b} \in SUBSET LedgerEntry
      BY <2>0, WorkFields
    <3> QED BY <2>2, <2>4, <3>1 DEF AfterEntry
  <2> QED BY <1>18, <2>1, <2>3, <2>4 DEF RemoveExpirationDate, RemovalFails
<1>19. ASSUME DeductUnanswered(r) PROVE ExpirationGoes(r)
  <2>0. /\ step[r] = "deduct" /\ step[r] \in ExpirationRequest
        /\ work[r] \in ExpirationWork /\ runAttempt' = runAttempt /\ outcome' = outcome
        /\ step' = step
    BY <1>0, <1>19 DEF DeductUnanswered, RunLists, MemberExpiration, ExpirationRequest
  <2>1. PICK n \in Sending : n = work[r].unanswered + 1
    BY <1>19, <2>0, SendAgain, WorkFields DEF DeductUnanswered
  <2> DEFINE v == [work[r] EXCEPT !.unanswered = n]
  <2>2. /\ v \in ExpirationWork /\ v.now = work[r].now
        /\ v.todo = work[r].todo /\ v.member = work[r].member
    BY <2>0 DEF ExpirationWork
  <2>3. work'[r] = v /\ step'[r] \in MemberExpiration
    BY <1>19, <1>a, <2>0, <2>1 DEF MemberExpiration, DeductUnanswered
  <2> HIDE DEF v
  <2> QED BY <2>0, <2>2, <2>3 DEF ExpirationGoes
<1> QED BY <1>1, <1>2, <1>3, <1>5, <1>6, <1>7, <1>8, <1>9, <1>10, <1>12, <1>13, <1>14,
           <1>16, <1>17, <1>18, <1>19 DEF RunAction, RunStep, RunFault, Expire, Evaluate

-----------------------------------------------------------------------------
\* How the profile of the member a run works on becomes p: by the deduction of
\* expired stars, or by one of the four writes of the evaluation.
Writes(r, m, p) ==
  LET q == profile[m]
  IN  /\ p.lastQualifyingActivity = q.lastQualifyingActivity
      /\ \/ /\ step[r] = "deduct" /\ (Deduct(r) \/ DeductUnanswered(r))
            /\ p.starBalance = q.starBalance - work[r].stars
            /\ work[r].stars > 0 => q.starBalance >= work[r].stars
            /\ p.annualStarCount = q.annualStarCount /\ p.tier = q.tier
            /\ p.nextTierEvaluation = q.nextTierEvaluation
            /\ p.evaluationKey = q.evaluationKey
         \/ /\ p.starBalance = q.starBalance
            /\ \/ /\ step[r] = "update_member_tier" /\ step'[r] = "update_annual_count"
                  /\ p.annualStarCount = q.annualStarCount /\ p.tier = NewTier(r)
                  /\ p.nextTierEvaluation = today + YearDays
                  /\ p.evaluationKey = today + YearDays
               \/ /\ step[r] = "update_annual_count"
                  /\ step'[r] \in {"list_promoted_entries", "record_tier_change"}
                  /\ p.annualStarCount = work[r].stars /\ p.tier = q.tier
                  /\ p.nextTierEvaluation = q.nextTierEvaluation
                  /\ p.evaluationKey = q.evaluationKey
               \/ /\ step[r] = "keep_tier_date" /\ step'[r] = "keep_tier_key"
                  /\ p.annualStarCount = work[r].stars /\ p.tier = q.tier
                  /\ p.nextTierEvaluation = today + YearDays
                  /\ p.evaluationKey = q.evaluationKey
               \/ /\ step[r] = "keep_tier_key" /\ KeepTierKey(r)
                  /\ p.annualStarCount = q.annualStarCount /\ p.tier = OldTier(r)
                  /\ p.nextTierEvaluation = today + YearDays
                  /\ p.evaluationKey = today + YearDays

\* The tiers the evaluation reads and computes are tiers.
LEMMA TiersOfRuns ==
  ASSUME NEW r \in Runs
  PROVE  /\ work[r] \in EvaluationWork => OldTier(r) \in Tier
         /\ work[r].stars \in Int => NewTier(r) \in Tier
<1>1. ASSUME work[r] \in EvaluationWork PROVE OldTier(r) \in Tier
  <2>1. work[r].round \in 1..3
    BY <1>1, WorkFields
  <2> QED BY <2>1 DEF OldTier, TierOrder, Tier
<1>2. ASSUME work[r].stars \in Int PROVE NewTier(r) \in Tier
  <2>1. \/ work[r].stars >= 2500
        \/ work[r].stars >= 500 /\ work[r].stars < 2500
        \/ work[r].stars < 500
    BY <1>2
  <2> QED BY <1>2, <2>1 DEF NewTier, DetermineTier, Tier, ReserveStars, GoldStars
<1> QED BY <1>1, <1>2

\* When a step of a run changes profiles, it changes the profile of the
\* member at its turn, by one of the writes of the jobs.
LEMMA ProfileMoves ==
  ASSUME SystemInv, NEW r \in Runs, RunAction(r), profile' # profile
  PROVE  \E m \in Members, p \in Profile :
           /\ m = work[r].member /\ profile[m] \in Profile /\ Active(r)
           /\ profile' = [profile EXCEPT ![m] = p]
           /\ Writes(r, m, p)
<1>0. /\ RunTypes /\ RunControl(r) /\ RunLists(r) /\ today \in Day
      /\ profile \in [Members -> Profile \cup {NoMember}]
  BY DEF SystemInv, RunInv, CoreInv, TypeOK
<1> DEFINE m == work[r].member
<1>a. \A s : RunGoesTo(r, s) => step'[r] = s
  BY <1>0 DEF RunTypes, RunGoesTo
<1>1. ASSUME step[r] \in MemberExpiration \cup MemberEvaluation
      PROVE  /\ m \in Members /\ profile[m] \in Profile
             /\ profile[m].tier \in Tier /\ profile[m].starBalance \in Int
             /\ Active(r) /\ work[r].now = today /\ work[r].stars \in Int
  <2>1. m \in Members /\ profile[m] # NoMember /\ work[r].stars \in Int
    BY <1>0, <1>1, WorkFields DEF RunLists, Present
  <2>2. Active(r)
    BY <1>1 DEF Active, MemberExpiration, MemberEvaluation, Ended
  <2> QED BY <1>0, <2>1, <2>2 DEF RunControl, Profile
<1>2. today + YearDays \in Day
  BY <1>0 DEF Day, YearDays
<1>3. ASSUME Deduct(r) \/ DeductUnanswered(r), profile' # profile
      PROVE  \E p \in Profile : profile' = [profile EXCEPT ![m] = p] /\ Writes(r, m, p)
  <2>0. /\ step[r] = "deduct" /\ m \in Members /\ profile[m] \in Profile
        /\ work[r].stars \in Int /\ profile[m].starBalance \in Int
    BY <1>1, <1>3 DEF Deduct, DeductUnanswered, MemberExpiration
  <2>1. UpdateMemberBalance(m, -work[r].stars, 0, NeverActive)
    BY <1>3 DEF Deduct, DeductUnanswered
  <2>2. /\ BalanceCondition(m, -work[r].stars)
        /\ profile' = [profile EXCEPT ![m] =
             [profile[m] EXCEPT !.starBalance = @ + (-work[r].stars),
                                !.annualStarCount = @ + 0]]
    <3>1. profile[m].lastQualifyingActivity = profile[m].lastQualifyingActivity
      OBVIOUS
    <3>2. [profile[m] EXCEPT !.starBalance = @ + (-work[r].stars),
                             !.annualStarCount = @ + 0,
                             !.lastQualifyingActivity = @] =
          [profile[m] EXCEPT !.starBalance = @ + (-work[r].stars),
                             !.annualStarCount = @ + 0]
      BY <2>0 DEF Profile
    <3> QED BY <2>1, <3>2 DEF UpdateMemberBalance
  <2>3. PICK b \in Int, a \in Int :
          /\ b = profile[m].starBalance - work[r].stars
          /\ b = profile[m].starBalance + (-work[r].stars)
          /\ a = profile[m].annualStarCount + 0 /\ a = profile[m].annualStarCount
    BY <2>0 DEF Profile
  <2> DEFINE p == [profile[m] EXCEPT !.starBalance = b, !.annualStarCount = a]
  <2>4. /\ p \in Profile /\ p.starBalance = b /\ p.annualStarCount = a
        /\ p.lastQualifyingActivity = profile[m].lastQualifyingActivity
        /\ p.tier = profile[m].tier
        /\ p.nextTierEvaluation = profile[m].nextTierEvaluation
        /\ p.evaluationKey = profile[m].evaluationKey
    BY <2>0 DEF Profile
  <2>5. profile' = [profile EXCEPT ![m] = p]
    BY <2>2, <2>3
  <2>6. work[r].stars > 0 => profile[m].starBalance >= work[r].stars
    BY <2>0, <2>2 DEF BalanceCondition
  <2> HIDE DEF p
  <2> QED BY <1>3, <2>0, <2>3, <2>4, <2>5, <2>6 DEF Writes
<1>4. ASSUME MoveTier(r) \/ KeepTierKey(r)
      PROVE  \E p \in Profile : profile' = [profile EXCEPT ![m] = p] /\ Writes(r, m, p)
  <2>0. /\ step[r] \in {"update_member_tier", "keep_tier_key"}
        /\ m \in Members /\ profile[m] \in Profile
        /\ work[r].now = today /\ work[r].stars \in Int /\ work[r] \in EvaluationWork
    BY <1>0, <1>1, <1>4 DEF MoveTier, KeepTierKey, MemberEvaluation, RunLists
  <2>1. PICK tier \in Tier, next \in Day :
          /\ next = today + YearDays
          /\ profile' = [profile EXCEPT ![m] =
               [profile[m] EXCEPT !.tier = tier, !.nextTierEvaluation = next,
                                  !.evaluationKey = next]]
          /\ \/ MoveTier(r) /\ tier = NewTier(r)
             \/ KeepTierKey(r) /\ tier = OldTier(r)
    BY <1>2, <1>4, <2>0, TiersOfRuns
       DEF MoveTier, KeepTierKey, UpdateMemberTier, NextEvaluation
  <2> DEFINE p == [profile[m] EXCEPT !.tier = tier, !.nextTierEvaluation = next,
                                  !.evaluationKey = next]
  <2>2. /\ p \in Profile /\ p.tier = tier
        /\ p.nextTierEvaluation = next /\ p.evaluationKey = next
        /\ p.starBalance = profile[m].starBalance
        /\ p.annualStarCount = profile[m].annualStarCount
        /\ p.lastQualifyingActivity = profile[m].lastQualifyingActivity
    BY <2>0 DEF Profile
  <2>3. /\ MoveTier(r) => step[r] = "update_member_tier" /\ step'[r] = "update_annual_count"
        /\ KeepTierKey(r) => step[r] = "keep_tier_key"
    BY <1>a DEF MoveTier, KeepTierKey
  <2> HIDE DEF p
  <2>4. Writes(r, m, p)
    BY <2>1, <2>2, <2>3 DEF Writes
  <2> QED BY <2>1, <2>2, <2>4 DEF p
<1>5. ASSUME SetAnnualCount(r) \/ KeepTierDate(r)
      PROVE  \E p \in Profile : profile' = [profile EXCEPT ![m] = p] /\ Writes(r, m, p)
  <2>0. /\ step[r] \in {"update_annual_count", "keep_tier_date"}
        /\ m \in Members /\ profile[m] \in Profile
        /\ work[r].now = today /\ work[r].stars \in Int
    BY <1>1, <1>5 DEF SetAnnualCount, KeepTierDate, MemberEvaluation
  <2>1. PICK stars \in Int, next \in Day :
          /\ stars = work[r].stars
          /\ profile' = [profile EXCEPT ![m] =
               [profile[m] EXCEPT !.annualStarCount = stars, !.nextTierEvaluation = next]]
          /\ \/ SetAnnualCount(r) /\ next = profile[m].nextTierEvaluation
             \/ KeepTierDate(r) /\ next = today + YearDays
    <3>1. CASE SetAnnualCount(r)
      <4>1. profile[m].nextTierEvaluation \in Day
        BY <2>0 DEF Profile
      <4>2. profile' = [profile EXCEPT ![m] =
              [profile[m] EXCEPT !.annualStarCount = work[r].stars,
                                 !.nextTierEvaluation = profile[m].nextTierEvaluation]]
        BY <3>1 DEF SetAnnualCount, UpdateMember
      <4> QED BY <2>0, <3>1, <4>1, <4>2
    <3>2. CASE KeepTierDate(r)
      <4>1. profile' = [profile EXCEPT ![m] =
              [profile[m] EXCEPT !.annualStarCount = work[r].stars,
                                 !.nextTierEvaluation = today + YearDays]]
        BY <2>0, <3>2 DEF KeepTierDate, UpdateMember, NextEvaluation
      <4> QED BY <1>2, <2>0, <3>2, <4>1
    <3> QED BY <1>5, <3>1, <3>2
  <2> DEFINE p == [profile[m] EXCEPT !.annualStarCount = stars, !.nextTierEvaluation = next]
  <2>2. /\ p \in Profile /\ p.annualStarCount = stars
        /\ p.nextTierEvaluation = next /\ p.evaluationKey = profile[m].evaluationKey
        /\ p.tier = profile[m].tier
        /\ p.starBalance = profile[m].starBalance
        /\ p.lastQualifyingActivity = profile[m].lastQualifyingActivity
    BY <2>0 DEF Profile
  <2>3. /\ SetAnnualCount(r) => /\ step[r] = "update_annual_count"
                                /\ step'[r] \in {"list_promoted_entries", "record_tier_change"}
        /\ KeepTierDate(r) => step[r] = "keep_tier_date" /\ step'[r] = "keep_tier_key"
    BY <1>a DEF SetAnnualCount, KeepTierDate
  <2> HIDE DEF p
  <2>4. Writes(r, m, p)
    BY <2>1, <2>2, <2>3 DEF Writes
  <2> QED BY <2>1, <2>2, <2>4 DEF p
<1>6. \/ Deduct(r) \/ DeductUnanswered(r) \/ MoveTier(r) \/ KeepTierKey(r) \/ SetAnnualCount(r) \/ KeepTierDate(r)
  <2>1. StartExpiration(r) \/ StartEvaluation(r) => profile' = profile
    BY DEF StartExpiration, StartEvaluation, StartRun, tableVars
  <2>2. \/ QueryGreenMembers(r) \/ ReadLedger(r) \/ DeleteEntries(r) \/ RecordExpiration(r)
        => profile' = profile
    BY DEF QueryGreenMembers, ReadLedger, DeleteEntries, RecordExpiration, tableVars
  <2>3. \/ QueryDueMembers(r) \/ SumYear(r) \/ ListPromotedEntries(r)
        \/ RemoveExpirationDate(r) \/ RecordTierChange(r)
        => profile' = profile
    BY DEF QueryDueMembers, SumYear, ListPromotedEntries, RemoveExpirationDate,
           RecordTierChange, tableVars
  <2>4. RunFault(r) /\ ~DeductUnanswered(r) => profile' = profile
    BY DEF RunFault, CrashRun, DiscardRun, ExpirationRequestFails, EvaluationRequestFails,
           RemovalFails, tableVars
  <2> QED BY <2>1, <2>2, <2>3, <2>4 DEF RunAction, RunStep, Expire, Evaluate
<1>7. \E p \in Profile : profile' = [profile EXCEPT ![m] = p] /\ Writes(r, m, p)
  BY <1>3, <1>4, <1>5, <1>6
<1>8. m \in Members /\ profile[m] \in Profile /\ Active(r)
  <2>1. step[r] \in MemberExpiration \cup MemberEvaluation
    BY <1>6 DEF Deduct, DeductUnanswered, MoveTier, KeepTierKey, SetAnnualCount, KeepTierDate,
       MemberExpiration, MemberEvaluation
  <2> QED BY <1>1, <2>1
<1> QED BY <1>7, <1>8

-----------------------------------------------------------------------------
\* Nobody appears or vanishes.
LEMMA ProfileAfterRun ==
  ASSUME SystemInv, NEW r \in Runs, RunAction(r)
  PROVE  /\ profile' \in [Members -> Profile \cup {NoMember}]
         /\ \A m \in Members : profile'[m] = NoMember <=> profile[m] = NoMember
         /\ BalanceNonNegative'
<1>0. profile \in [Members -> Profile \cup {NoMember}] /\ BalanceNonNegative
  BY DEF SystemInv, CoreInv, TypeOK
<1>1. CASE profile' = profile
  BY <1>0, <1>1 DEF BalanceNonNegative
<1>2. CASE profile' # profile
  <2>1. PICK m \in Members, p \in Profile :
           /\ m = work[r].member /\ profile[m] \in Profile /\ Active(r)
           /\ profile' = [profile EXCEPT ![m] = p]
           /\ Writes(r, m, p)
    BY <1>2, ProfileMoves
  <2>2. /\ profile' \in [Members -> Profile \cup {NoMember}] /\ profile'[m] = p
        /\ \A n \in Members \ {m} : profile'[n] = profile[n]
    BY <1>0, <2>1
  <2>3. profile[m] # NoMember /\ p # NoMember
    BY <2>1, NoMemberAssumption
  <2>4. p.starBalance >= 0
    <3>1. profile[m].starBalance \in Int /\ profile[m].starBalance >= 0
      BY <1>0, <2>1, <2>3 DEF BalanceNonNegative, Profile
    <3>2. CASE p.starBalance = profile[m].starBalance
      BY <3>1, <3>2
    <3>3. CASE /\ step[r] = "deduct" /\ p.starBalance = profile[m].starBalance - work[r].stars
               /\ work[r].stars > 0 => profile[m].starBalance >= work[r].stars
      <4>1. work[r].stars \in Int
        BY <3>3, WorkFields DEF SystemInv, RunInv, RunLists, MemberExpiration
      <4> QED BY <3>1, <3>3, <4>1
    <3> QED BY <2>1, <3>2, <3>3 DEF Writes
  <2> QED BY <1>0, <2>2, <2>3, <2>4 DEF BalanceNonNegative
<1> QED BY <1>1, <1>2

\* What a run adds to the records is its own, and it adds nothing to the ledger.
LEMMA RecordsAfterRun ==
  ASSUME SystemInv, NEW r \in Runs, RunAction(r)
  PROVE  \/ txns' = txns
         \/ /\ step[r] \in {"record_expiration", "record_tier_change"}
            /\ work[r].member \in Members /\ Active(r) /\ Stamp(r) \in Stamps
            /\ \E t \in Transaction :
                 /\ txns' = txns \cup {t}
                 /\ t.id = Stamp(r) /\ t.by = Stamp(r) /\ t.member = work[r].member
                 /\ t.day = today
                 /\ t.type = IF step[r] = "record_expiration" THEN "EXPIRATION" ELSE "TIER_CHANGE"
                 /\ t.stars = IF step[r] = "record_expiration" THEN work[r].stars ELSE 0
<1>0. /\ RunTypes /\ RunControl(r) /\ RunLists(r) /\ today \in Day
  BY DEF SystemInv, RunInv, CoreInv, TypeOK
<1>1. ASSUME step[r] \in {"record_expiration", "record_tier_change"}
      PROVE  /\ work[r].member \in Members /\ Active(r) /\ Stamp(r) \in Stamps
             /\ work[r].stars \in Int /\ work[r].now = today
  <2>1. work[r].member \in Members /\ work[r].stars \in Int
    BY <1>0, <1>1, WorkFields DEF RunLists, MemberExpiration, MemberEvaluation, Present
  <2>2. Active(r)
    BY <1>1 DEF Active, Ended
  <2>3. runAttempt[r] \in 1..MaxRunAttempts
    <3>1. runAttempt[r] > 0 /\ runAttempt[r] \in 0..MaxRunAttempts
      BY <1>0, <2>2 DEF RunControl, RunTypes
    <3> QED BY <3>1
  <2>4. Stamp(r) \in Stamps
    BY <2>3, RunAssumption DEF Stamp
  <2> QED BY <1>0, <2>1, <2>2, <2>4 DEF RunControl
<1>2. CASE RecordExpiration(r)
  <2>0. /\ step[r] = "record_expiration"
        /\ txns' = txns \cup {[id |-> Stamp(r), member |-> work[r].member,
                            type |-> "EXPIRATION", stars |-> work[r].stars,
                            day |-> work[r].now, by |-> Stamp(r)]}
    BY <1>2 DEF RecordExpiration, RecordTransaction
  <2> DEFINE t == [id |-> Stamp(r), member |-> work[r].member,
                            type |-> "EXPIRATION", stars |-> work[r].stars,
                            day |-> work[r].now, by |-> Stamp(r)]
  <2>1. t \in Transaction
    BY <1>0, <1>1, <2>0 DEF Transaction, TransactionType
  <2> QED BY <1>1, <2>0, <2>1
<1>3. CASE RecordTierChange(r)
  <2>0. /\ step[r] = "record_tier_change"
        /\ txns' = txns \cup {[id |-> Stamp(r), member |-> work[r].member,
                            type |-> "TIER_CHANGE", stars |-> 0,
                            day |-> work[r].now, by |-> Stamp(r)]}
    BY <1>3 DEF RecordTierChange, RecordTransaction
  <2> DEFINE t == [id |-> Stamp(r), member |-> work[r].member,
                            type |-> "TIER_CHANGE", stars |-> 0,
                            day |-> work[r].now, by |-> Stamp(r)]
  <2>1. t \in Transaction
    BY <1>0, <1>1, <2>0 DEF Transaction, TransactionType
  <2> QED BY <1>1, <2>0, <2>1
<1>4. \/ RecordExpiration(r) \/ RecordTierChange(r) \/ txns' = txns
  <2>1. StartExpiration(r) \/ StartEvaluation(r) => txns' = txns
    BY DEF StartExpiration, StartEvaluation, StartRun, tableVars
  <2>2. \/ QueryGreenMembers(r) \/ ReadLedger(r) \/ Deduct(r) \/ DeleteEntries(r)
        => txns' = txns
    BY DEF QueryGreenMembers, ReadLedger, Deduct, DeleteEntries, tableVars
  <2>3. \/ QueryDueMembers(r) \/ SumYear(r) \/ MoveTier(r) \/ SetAnnualCount(r)
        \/ ListPromotedEntries(r) \/ RemoveExpirationDate(r)
        \/ KeepTierDate(r) \/ KeepTierKey(r)
        => txns' = txns
    BY DEF QueryDueMembers, SumYear, MoveTier, SetAnnualCount, ListPromotedEntries,
           RemoveExpirationDate, KeepTierDate, KeepTierKey, tableVars
  <2>4. RunFault(r) => txns' = txns
    BY DEF RunFault, CrashRun, DiscardRun, ExpirationRequestFails, DeductUnanswered,
           EvaluationRequestFails, RemovalFails, tableVars
  <2> QED BY <2>1, <2>2, <2>3, <2>4 DEF RunAction, RunStep, Expire, Evaluate
<1> QED BY <1>2, <1>3, <1>4

\* The run deducts stars, by the sending it hears of or by another.
Takes(r, n) ==
  /\ step[r] = "deduct" /\ Stamp(r) \in Stamps /\ work[r] \in ExpirationWork
  /\ txns' = txns /\ ledger' = ledger /\ hollow' = hollow
  /\ UpdateMemberBalance(work[r].member, -work[r].stars, 0, NeverActive)
  /\ deductions' = deductions \cup {Taken(r, n)}
  /\ \/ /\ n = 0 /\ Deduct(r)
        /\ step'[r] = "delete_star_ledger_entries" /\ work' = work
     \/ /\ n = work[r].unanswered + 1 /\ n # 0 /\ DeductUnanswered(r)
        /\ step' = step /\ work'[r] = [work[r] EXCEPT !.unanswered = n]

\* What a run adds to the deductions and to the hollow entries.
LEMMA HistoryAfterRun ==
  ASSUME SystemInv, NEW r \in Runs, RunAction(r)
  PROVE  /\ \/ deductions' = deductions
            \/ \E n \in Sending : Takes(r, n)
         /\ \/ hollow' = hollow
            \/ /\ step[r] = "remove_expiration_date" /\ ledger' = ledger
               /\ \E b \in work[r].entries : b \notin ledger /\ hollow' = hollow \cup {b}
<1>0. /\ RunTypes /\ RunControl(r) /\ RunLists(r)
  BY DEF SystemInv, RunInv
<1>1. StartExpiration(r) => deductions' = deductions /\ hollow' = hollow
  BY DEF StartExpiration, StartRun
<1>2. \/ QueryGreenMembers(r) \/ ReadLedger(r) \/ DeleteEntries(r) \/ RecordExpiration(r)
      => deductions' = deductions /\ hollow' = hollow
  BY DEF QueryGreenMembers, ReadLedger, DeleteEntries, RecordExpiration
<1>3. Evaluate(r) /\ UNCHANGED deductions /\ ~RemoveExpirationDate(r)
      => deductions' = deductions /\ hollow' = hollow
  BY DEF Evaluate, StartEvaluation, StartRun, QueryDueMembers, SumYear, MoveTier, SetAnnualCount,
         ListPromotedEntries, RecordTierChange, KeepTierDate, KeepTierKey
<1>4. RunFault(r) /\ ~DeductUnanswered(r) => deductions' = deductions /\ hollow' = hollow
  BY DEF RunFault, CrashRun, DiscardRun, ExpirationRequestFails, EvaluationRequestFails,
         RemovalFails
<1>5. ASSUME RemoveExpirationDate(r)
      PROVE  \/ hollow' = hollow
             \/ /\ step[r] = "remove_expiration_date" /\ ledger' = ledger
                /\ \E b \in work[r].entries : b \notin ledger /\ hollow' = hollow \cup {b}
  BY <1>5 DEF RemoveExpirationDate, tableVars
<1>6. ASSUME Deduct(r) \/ DeductUnanswered(r)
      PROVE  /\ hollow' = hollow
             /\ deductions' = deductions \/ \E n \in Sending : Takes(r, n)
  <2>1. step[r] = "deduct" /\ work[r] \in ExpirationWork /\ runAttempt[r] > 0
    BY <1>0, <1>6
       DEF Deduct, DeductUnanswered, RunLists, RunControl, MemberExpiration, Active, Ended
  <2>2. Stamp(r) \in Stamps
    <3>1. runAttempt[r] \in 0..MaxRunAttempts
      BY <1>0 DEF RunTypes
    <3>2. runAttempt[r] \in 1..MaxRunAttempts
      BY <2>1, <3>1
    <3> QED BY <3>2, RunAssumption DEF Stamp
  <2>3. RunGoesTo(r, "delete_star_ledger_entries") => step'[r] = "delete_star_ledger_entries"
    BY <1>0 DEF RunTypes, RunGoesTo
  <2>4. CASE Deduct(r)
    <3>1. hollow' = hollow /\ (deductions' = deductions \/ Takes(r, 0))
      BY <2>1, <2>2, <2>3, <2>4 DEF Deduct, Takes
    <3> QED BY <3>1, FirstSending
  <2>5. CASE DeductUnanswered(r)
    <3>1. PICK n \in Sending : n = work[r].unanswered + 1 /\ n # 0
      BY <2>1, <2>5, SendAgain, WorkFields DEF DeductUnanswered
    <3>2. work'[r] = [work[r] EXCEPT !.unanswered = n]
      BY <1>0, <2>5, <3>1 DEF DeductUnanswered, SetWork, RunTypes
    <3>3. hollow' = hollow /\ Takes(r, n)
      BY <2>1, <2>2, <2>5, <3>1, <3>2 DEF DeductUnanswered, Takes
    <3> QED BY <3>3
  <2> QED BY <1>6, <2>4, <2>5
<1> QED BY <1>1, <1>2, <1>3, <1>4, <1>5, <1>6 DEF RunAction, RunStep, RunFault, Expire, Evaluate

-----------------------------------------------------------------------------
\* Each part of the invariant is preserved by every step of the system.
LEMMA RunControlAfterRun ==
  ASSUME SystemInv, NEW r \in Runs, RunAction(r), NEW q \in Runs
  PROVE  RunControl(q)'
<1>0. /\ RunTypes /\ RunTypes' /\ RunControl(q) /\ RunControl(r) /\ today' = today
      /\ today \in Day
  BY RunTypesStep, RunLeaves DEF SystemInv, RunInv, CoreInv, TypeOK
<1>1. CASE q # r
  <2>1. /\ step'[q] = step[q] /\ work'[q] = work[q]
        /\ outcome'[q] = outcome[q] /\ runAttempt'[q] = runAttempt[q]
    BY <1>1, OtherRunsStay
  <2> QED BY <1>0, <2>1 DEF RunControl, Active
<1>2. CASE q = r
  <2>1. CASE Starts(r)
    <3>1. runAttempt[r] \in Nat
      BY <1>0 DEF RunTypes
    <3>2. runAttempt'[r] > 0
      BY <2>1, <3>1 DEF Starts
    <3>3. /\ outcome'[r] = outcome[r] /\ DayOf[r] = today' /\ work'[r].now = today'
          /\ ~(outcome[r].status # "none" \/ outcome[r].errors > 0)
      BY <1>0, <2>1 DEF Starts, RunControl
    <3>4. \/ step'[r] = "query_members_by_tier" /\ JobOf[r] = "expiration"
          \/ step'[r] = "query_due_members" /\ JobOf[r] = "evaluation"
      BY <2>1 DEF Starts
    <3> QED BY <1>2, <3>2, <3>3, <3>4 DEF RunControl, Active, Ended, ExpirationRequest,
            EvaluationRequest, RemovalRequest
  <2>2. CASE Stops(r)
    BY <1>0, <1>2, <2>2 DEF Stops, RunControl, Active, Ended, ExpirationRequest,
            EvaluationRequest, RemovalRequest
  <2>3. CASE Finishes(r)
    <3>1. DayOf[r] <= today
      BY <1>0, <2>3 DEF Finishes, RunControl, Day
    <3> QED BY <1>0, <1>2, <2>3, <3>1 DEF Finishes, RunControl, Active, Ended, ExpirationRequest,
            EvaluationRequest, RemovalRequest
  <2>4. CASE ExpirationGoes(r)
    BY <1>0, <1>2, <2>4 DEF ExpirationGoes, RunControl, Active, Ended, ExpirationRequest,
            EvaluationRequest, RemovalRequest, MemberExpiration
  <2>5. CASE EvaluationGoes(r)
    BY <1>0, <1>2, <2>5 DEF EvaluationGoes, RunControl, Active, Ended, ExpirationRequest,
            EvaluationRequest, RemovalRequest, MemberEvaluation
  <2> QED BY <2>1, <2>2, <2>3, <2>4, <2>5, RunGoes
<1> QED BY <1>1, <1>2

\* A step of a run keeps what holds of the lists.
LEMMA RunListsAfterRun ==
  ASSUME SystemInv, NEW r \in Runs, RunAction(r), NEW q \in Runs
  PROVE  RunLists(q)'
<1>0. /\ RunTypes /\ RunLists(q) /\ RunLists(r)
      /\ \A m \in Members : byTier[m] # NoMember => profile[m] # NoMember
      /\ \A m : Present(m) => Present(m)'
  BY ProfileAfterRun DEF SystemInv, RunInv, ItemsInv, Present
<1>a. /\ \A tier : \A m \in Shown(tier) : Present(m)'
      /\ \A tier, now : \A m \in ShownDue(tier, now) : Present(m)'
  BY <1>0 DEF Shown, ShownDue, Present
<1>1. CASE q # r
  <2>1. step'[q] = step[q] /\ work'[q] = work[q]
    BY <1>1, OtherRunsStay
  <2> HIDE DEF Present
  <2> QED BY <1>0, <2>1 DEF RunLists
<1>2. CASE q = r
  <2> HIDE DEF Present
  <2>1. CASE Starts(r)
    BY <1>2, <2>1 DEF Starts, RunLists, MemberExpiration, MemberEvaluation
  <2>2. CASE Stops(r) \/ Finishes(r)
    BY <1>2, <2>2 DEF Stops, Finishes, RunLists, MemberExpiration, MemberEvaluation
  <2>3. CASE ExpirationGoes(r)
    <3>1. /\ work'[r] \in ExpirationWork /\ step'[r] \in MemberExpiration
      BY <2>3 DEF ExpirationGoes
    <3>2. \A m \in work'[r].todo \cup {work'[r].member} : Present(m)'
      BY <1>0, <1>a, <2>3 DEF ExpirationGoes, RunLists, MemberExpiration, ExpirationRequest
    <3> QED BY <1>2, <3>1, <3>2 DEF RunLists, MemberExpiration, MemberEvaluation
  <2>4. CASE EvaluationGoes(r)
    <3>1. CASE step'[r] = "query_due_members" /\ work'[r].todo = {}
      BY <1>2, <2>4, <3>1 DEF EvaluationGoes, RunLists, MemberExpiration, MemberEvaluation
    <3>2. CASE step'[r] \in MemberEvaluation
      <4>1. \A m \in work'[r].todo \cup {work'[r].member} : Present(m)'
        <5>1. step[r] = "query_due_members" \/ step[r] \in MemberEvaluation
          BY <2>4 DEF EvaluationGoes, EvaluationRequest, RemovalRequest, MemberEvaluation
        <5>2. step'[r] # "query_due_members"
          BY <3>2 DEF MemberEvaluation
        <5> QED BY <1>0, <1>a, <2>4, <5>1, <5>2 DEF EvaluationGoes, RunLists
      <4> QED BY <1>2, <2>4, <3>2, <4>1 DEF EvaluationGoes, RunLists, MemberExpiration, MemberEvaluation
    <3> QED BY <2>4, <3>1, <3>2 DEF EvaluationGoes
  <2> QED BY <2>1, <2>2, <2>3, <2>4, RunGoes
<1> QED BY <1>1, <1>2

\* A step of a run keeps what holds of the handlers and of the items.
LEMMA ItemsAfterRun ==
  ASSUME SystemInv, NEW r \in Runs, RunAction(r)
  PROVE  CoreInv' /\ ItemsInv'
<1>0. /\ TypeOK /\ ItemsInv /\ \A d \in Deliveries : Progress(d)
  BY DEF SystemInv, CoreInv
<1>1. /\ today' = today /\ byTier' = byTier /\ purged' = purged /\ byTxnId' = byTxnId
      /\ UNCHANGED deliveryVars /\ ledger' \subseteq ledger
  BY RunLeaves
<1>2. /\ profile' \in [Members -> Profile \cup {NoMember}]
      /\ \A m \in Members : profile'[m] = NoMember <=> profile[m] = NoMember
      /\ BalanceNonNegative'
  BY ProfileAfterRun
<1>3. txns' \subseteq Transaction /\ txns \subseteq txns' /\ IsFiniteSet(txns')
  <2>1. txns \subseteq Transaction /\ IsFiniteSet(txns)
    BY <1>0 DEF TypeOK, ItemsInv
  <2>2. txns' = txns \/ \E t \in Transaction : txns' = txns \cup {t}
    BY RecordsAfterRun
  <2> QED BY <2>1, <2>2, FS_AddElement
<1>4. CoreInv'
  <2>1. TypeOK'
    BY <1>0, <1>1, <1>2, <1>3 DEF TypeOK, deliveryVars
  <2>2. ASSUME NEW d \in Deliveries PROVE Progress(d)'
    <3>1. EventOf[d].member \in Members
      BY EventFields
    <3> QED BY <1>0, <1>1, <1>2, <3>1 DEF Progress, Delta, deliveryVars
  <2> QED BY <1>2, <2>1, <2>2 DEF CoreInv
<1>5. ItemsInv'
  <2>1. hollow' \subseteq LedgerEntry
    <3>1. ASSUME step[r] = "remove_expiration_date" PROVE work[r].entries \subseteq LedgerEntry
      BY <3>1, WorkFields DEF SystemInv, RunInv, RunLists, MemberEvaluation
    <3>2. hollow \subseteq LedgerEntry
      BY <1>0 DEF ItemsInv
    <3> QED BY <3>1, <3>2, HistoryAfterRun
  <2>2. deductions' \subseteq Deduction
    <3>1. deductions \subseteq Deduction
      BY <1>0 DEF ItemsInv
    <3>2. ASSUME Stamp(r) \in Stamps, work[r] \in ExpirationWork, NEW n \in Sending
          PROVE  Taken(r, n) \in Deduction
      BY <3>2, WorkFields DEF Deduction, Taken
    <3>3. CASE deductions' = deductions
      BY <3>1, <3>3
    <3>4. ASSUME NEW n \in Sending, Takes(r, n) PROVE deductions' \subseteq Deduction
      <4>1. Taken(r, n) \in Deduction /\ deductions' = deductions \cup {Taken(r, n)}
        BY <3>2, <3>4 DEF Takes
      <4> QED BY <3>1, <4>1
    <3> QED BY <3>3, <3>4, HistoryAfterRun
  <2>3. IsFiniteSet(ledger')
    BY <1>0, <1>1, FS_Subset DEF ItemsInv
  <2> QED BY <1>0, <1>1, <1>2, <1>3, <2>1, <2>2, <2>3 DEF ItemsInv
<1> QED BY <1>4, <1>5

\* What the handlers of events add to the table: an entry of the ledger or a record
\* at a time, each stamped by its attempt.
LEMMA HandlersAdd ==
  ASSUME CoreInv, [Next]_vars
  PROVE  /\ \/ ledger' = ledger
            \/ \E d \in Deliveries :
                 /\ pc[d] = "create_star_ledger_entry"
                 /\ ledger' = ledger \cup
                      {[member |-> EventOf[d].member, stars |-> local[d].stars,
                        day |-> local[d].now, by |-> <<d, attempt[d]>>]}
         /\ \/ txns' = txns
            \/ \E d \in Deliveries :
                 /\ pc[d] = "record_transaction"
                 /\ txns' = txns \cup
                      {[id |-> EventOf[d].id, member |-> EventOf[d].member,
                        type |-> IF IsPurchase(d) THEN "PURCHASE" ELSE "REDEMPTION",
                        stars |-> local[d].stars, day |-> local[d].now,
                        by |-> <<d, attempt[d]>>]}
<1> DEFINE Added ==
      /\ \/ ledger' = ledger
         \/ \E d \in Deliveries :
              /\ pc[d] = "create_star_ledger_entry"
              /\ ledger' = ledger \cup
                   {[member |-> EventOf[d].member, stars |-> local[d].stars,
                     day |-> local[d].now, by |-> <<d, attempt[d]>>]}
      /\ \/ txns' = txns
         \/ \E d \in Deliveries :
              /\ pc[d] = "record_transaction"
              /\ txns' = txns \cup
                   {[id |-> EventOf[d].id, member |-> EventOf[d].member,
                     type |-> IF IsPurchase(d) THEN "PURCHASE" ELSE "REDEMPTION",
                     stars |-> local[d].stars, day |-> local[d].now,
                     by |-> <<d, attempt[d]>>]}
<1>1. ASSUME Propagate \/ PassDay \/ UNCHANGED vars PROVE ledger' = ledger /\ txns' = txns
  BY <1>1 DEF Propagate, PropagateToIndex, PassDay, NextDay, vars, tableVars
<1>2. ASSUME NEW d \in Deliveries, DeliveryAction(d) PROVE Added
  <2>1. CASE Invoke(d) \/ Respond(d) \/ Crash(d) \/ RequestFails(d) \/ Discard(d)
    BY <2>1 DEF Invoke, Respond, Crash, RequestFails, Discard, tableVars
  <2>2. CASE PurchaseCheck(d) \/ PurchaseGetMember(d) \/ RedemptionCheck(d)
             \/ RedemptionGetMember(d)
    BY <2>2 DEF PurchaseCheck, PurchaseGetMember, RedemptionCheck, RedemptionGetMember,
                CheckIdempotency, tableVars
  <2>3. CASE PurchaseUpdateBalance(d) \/ RedemptionUpdateBalance(d)
    BY <2>3 DEF PurchaseUpdateBalance, RedemptionUpdateBalance
  <2>4. CASE PurchaseCreateLedgerEntry(d)
    BY <2>4 DEF PurchaseCreateLedgerEntry, CreateStarLedgerEntry
  <2>5. CASE (IsPurchase(d) /\ PurchaseRecord(d)) \/ (IsRedemption(d) /\ RedemptionRecord(d))
    BY <2>5, EventFields DEF PurchaseRecord, RedemptionRecord, RecordTransaction
  <2>6. CASE Resent(d)
    BY <2>6 DEF Resent, PurchaseUpdateUnanswered, RedemptionUpdateUnanswered, UpdateUnanswered
  <2> QED BY <1>2, <2>1, <2>2, <2>3, <2>4, <2>5, <2>6 DEF DeliveryAction
<1> QED BY <1>1, <1>2, NextCases

\* The handlers keep the invariant of the system.
LEMMA HandlersKeepSystem ==
  ASSUME SystemInv, [Next]_vars, today' = today, UNCHANGED <<byTier, runVars, historyVars>>
  PROVE  SystemInv'
<1>0. CoreInv /\ ItemsInv /\ RunInv
  BY DEF SystemInv
<1>1. CoreInv'
  BY <1>0, TypeStep, BalanceStep, ProgressStep DEF CoreInv
<1>2. \A m \in Members : profile'[m] = NoMember <=> profile[m] = NoMember
  BY <1>0, HandlersKeepTiers
<1>3. ItemsInv'
  <2>1. /\ ledger' = ledger \/ \E x : ledger' = ledger \cup {x}
        /\ txns' = txns \/ \E x : txns' = txns \cup {x}
    BY <1>0, HandlersAdd
  <2>2. IsFiniteSet(ledger') /\ IsFiniteSet(txns')
    BY <1>0, <2>1, FS_AddElement DEF ItemsInv
  <2> QED BY <1>0, <1>2, <2>2 DEF ItemsInv, runVars, historyVars
<1>4. RunInv'
  <2>1. UNCHANGED <<step, runAttempt, work, outcome>>
    BY DEF runVars
  <2>2. \A m : Present(m)' <=> Present(m)
    BY <1>2 DEF Present
  <2>3. RunTypes'
    BY <1>0, <2>1 DEF RunInv, RunTypes
  <2>4. ASSUME NEW r \in Runs PROVE RunControl(r)'
    BY <1>0, <2>1 DEF RunInv, RunControl, Active
  <2>5. ASSUME NEW r \in Runs PROVE RunLists(r)'
    <3> HIDE DEF Present
    <3>1. RunLists(r)
      BY <1>0 DEF RunInv
    <3> QED BY <2>1, <2>2, <3>1 DEF RunLists
  <2> QED BY <2>3, <2>4, <2>5 DEF RunInv
<1> QED BY <1>1, <1>3, <1>4 DEF SystemInv

\* So does the propagation of a profile to the index,
LEMMA IndexKeepsSystem ==
  ASSUME SystemInv, PropagateToTierIndex, UNCHANGED <<deliveryVars, runVars, historyVars>>
  PROVE  SystemInv'
<1>0. CoreInv /\ ItemsInv /\ RunInv
  BY DEF SystemInv
<1>1. UNCHANGED <<profile, ledger, txns, byTxnId, today, deliveryVars>>
  BY DEF PropagateToTierIndex, tableVars
<1>2. CoreInv'
  <2>1. TypeOK'
    BY <1>0, <1>1 DEF CoreInv, TypeOK, deliveryVars
  <2>2. \A d \in Deliveries : Progress(d)'
    BY <1>0, <1>1 DEF CoreInv, Progress, Delta, deliveryVars
  <2>3. BalanceNonNegative'
    BY <1>0, <1>1 DEF CoreInv, BalanceNonNegative
  <2> QED BY <2>1, <2>2, <2>3 DEF CoreInv
<1>3. ItemsInv'
  BY <1>0, <1>1 DEF ItemsInv, PropagateToTierIndex, historyVars, runVars, CoreInv, TypeOK
<1>4. RunInv'
  BY <1>0, <1>1 DEF RunInv, RunTypes, RunControl, RunLists, Present, Active, runVars
<1> QED BY <1>2, <1>3, <1>4 DEF SystemInv

\* the deletion of an old record,
LEMMA DeletionKeepsSystem ==
  ASSUME SystemInv, DeleteOldRecord
  PROVE  SystemInv'
<1>0. CoreInv /\ ItemsInv /\ RunInv
  BY DEF SystemInv
<1>1. PICK t \in txns :
        /\ txns' = txns \ {t} /\ byTxnId' = byTxnId \ {t}
        /\ UNCHANGED <<profile, ledger, today>>
  BY DEF DeleteOldRecord, TimeToLive
<1>2. /\ UNCHANGED <<deliveryVars, byTier, runVars, deductions>>
      /\ purged' = purged \cup {t}
  <2>1. txns \ txns' = {t}
    BY <1>1
  <2> QED BY <2>1 DEF DeleteOldRecord
<1>3. CoreInv'
  <2>1. TypeOK'
    BY <1>0, <1>1, <1>2 DEF CoreInv, TypeOK, deliveryVars
  <2>2. \A d \in Deliveries : Progress(d)'
    BY <1>0, <1>1, <1>2 DEF CoreInv, Progress, Delta, deliveryVars
  <2>3. BalanceNonNegative'
    BY <1>0, <1>1 DEF CoreInv, BalanceNonNegative
  <2> QED BY <2>1, <2>2, <2>3 DEF CoreInv
<1>4. ItemsInv'
  <2>1. t \in Transaction
    BY <1>0 DEF CoreInv, TypeOK
  <2>2. IsFiniteSet(txns') /\ IsFiniteSet(purged')
    BY <1>0, <1>1, <1>2, FS_RemoveElement, FS_AddElement DEF ItemsInv
  <2> QED BY <1>0, <1>1, <1>2, <2>1, <2>2 DEF ItemsInv, runVars
<1>5. RunInv'
  BY <1>0, <1>1, <1>2 DEF RunInv, RunTypes, RunControl, RunLists, Present, Active, runVars
<1> QED BY <1>3, <1>4, <1>5 DEF SystemInv

\* A new day begins only when no run is going on.
LEMMA NextDateIsLater ==
  ASSUME SystemInv, NextDate
  PROVE  /\ today \in Day /\ today' \in Day /\ today' > today
         /\ UNCHANGED <<tableVars, byTier, runVars, deliveryVars, historyVars>>
         /\ \A r \in Runs : ~Active(r)
<1>1. today \in Day
  BY DEF SystemInv, CoreInv, TypeOK
<1>2. Calendar \subseteq Day
  <2>1. Calendar \subseteq 0..MaxDay
    BY RunAssumption
  <2> QED BY <2>1 DEF Day
<1>3. \A r \in Runs : DayOf[r] <= today => step[r] \in Ended
  BY DEF NextDate, AdvanceCalendar
<1>4. ASSUME NEW r \in Runs PROVE ~Active(r)
  <2>1. Active(r) => DayOf[r] = today
    BY DEF SystemInv, RunInv, RunControl
  <2> QED BY <1>1, <1>3, <2>1 DEF Active, Day
<1>5. today' \in Day /\ today' > today
  <2>1. PICK d \in Calendar : d > today /\ today' = d
    BY DEF NextDate, AdvanceCalendar
  <2> QED BY <1>2, <2>1
<1> QED BY <1>1, <1>4, <1>5 DEF NextDate, AdvanceCalendar

\* and midnight.
LEMMA NextDateKeepsSystem ==
  ASSUME SystemInv, NextDate
  PROVE  SystemInv'
<1>0. CoreInv /\ ItemsInv /\ RunInv
  BY DEF SystemInv
<1>1. /\ today \in Day /\ today' \in Day /\ today' > today
      /\ UNCHANGED <<tableVars, byTier, runVars, deliveryVars, historyVars>>
      /\ \A r \in Runs : ~Active(r)
  BY NextDateIsLater
<1>2. CoreInv'
  <2>1. TypeOK'
    BY <1>0, <1>1 DEF CoreInv, TypeOK, deliveryVars, tableVars
  <2>2. \A d \in Deliveries : Progress(d)'
    BY <1>0, <1>1 DEF CoreInv, Progress, Delta, deliveryVars, tableVars
  <2>3. BalanceNonNegative'
    BY <1>0, <1>1 DEF CoreInv, BalanceNonNegative, tableVars
  <2> QED BY <2>1, <2>2, <2>3 DEF CoreInv
<1>3. ItemsInv'
  BY <1>0, <1>1 DEF ItemsInv, runVars, tableVars, historyVars
<1>4. RunInv'
  <2>1. RunTypes'
    BY <1>0, <1>1 DEF RunInv, RunTypes, runVars
  <2>2. ASSUME NEW r \in Runs PROVE RunLists(r)'
    BY <1>0, <1>1 DEF RunInv, RunLists, Present, runVars, tableVars
  <2>3. ASSUME NEW r \in Runs PROVE RunControl(r)'
    <3>1. RunControl(r) /\ ~Active(r)
      BY <1>0, <1>1 DEF RunInv
    <3>2. step[r] = "done" => DayOf[r] <= today'
      <4>1. DayOf \in [Runs -> Calendar] /\ Calendar \subseteq 0..MaxDay
        BY RunAssumption
      <4>2. DayOf[r] \in Nat
        <5>1. MaxDay \in Nat
          BY MaxDayAssumption
        <5>2. DayOf[r] \in 0..MaxDay
          BY <4>1
        <5> QED BY <5>1, <5>2
      <4>3. step[r] = "done" => DayOf[r] <= today
        BY <3>1 DEF RunControl
      <4> QED BY <1>1, <4>2, <4>3 DEF Day
    <3> QED BY <1>1, <3>1, <3>2 DEF RunControl, Active, runVars
  <2> QED BY <2>1, <2>2, <2>3 DEF RunInv
<1> QED BY <1>2, <1>3, <1>4 DEF SystemInv

\* The invariant holds at the start.
LEMMA SystemInvInit == SystemInit => SystemInv
<1> SUFFICES ASSUME SystemInit PROVE SystemInv
  OBVIOUS
<1>1. CoreInv
  BY InitIndInv, CoreOfIndInv DEF SystemInit
<1>2. ItemsInv
  <2>1. byTier \in [Members -> Profile \cup {NoMember}]
    BY OpeningAssumption DEF SystemInit, TierIndexInit
  <2> QED BY <2>1, FS_EmptySet DEF ItemsInv, SystemInit, Init, TableInit, TierIndexInit, RunsInit,
          ExpirationInit
<1>3. RunInv
  <2>0. MaxRunAttempts \in Nat \ {0}
    BY RunAssumption
  <2>1. 0 \in 0..MaxRunAttempts /\ 0 < MaxRunAttempts
    BY <2>0
  <2>2. NoReply \in RunReply /\ NoReply.status = "none" /\ ~(NoReply.errors > 0)
    BY DEF NoReply, Reply, RunReply
  <2>3. RunTypes
    BY <2>1, <2>2, WorkFields DEF RunTypes, SystemInit, RunsInit
  <2>4. ASSUME NEW r \in Runs PROVE RunControl(r) /\ RunLists(r)
    <3>1. /\ step[r] = "waiting" /\ runAttempt[r] = 0 /\ work[r] = NoWork
          /\ outcome[r] = NoReply
      BY DEF SystemInit, RunsInit
    <3> QED BY <2>1, <2>2, <3>1 DEF RunControl, RunLists, Active, ExpirationRequest,
            EvaluationRequest, RemovalRequest, MemberExpiration, MemberEvaluation
  <2> QED BY <2>3, <2>4 DEF RunInv
<1> QED BY <1>1, <1>2, <1>3 DEF SystemInv

\* The invariant of the whole system holds always: the handlers, the jobs
\* and the table keep it whatever their order.
THEOREM SystemInvHolds == SystemSpec => []SystemInv
<1>1. SystemInv /\ [SystemNext]_systemVars => SystemInv'
  <2> SUFFICES ASSUME SystemInv, [SystemNext]_systemVars PROVE SystemInv'
    OBVIOUS
  <2>1. ASSUME NEW r \in Runs, RunAction(r) PROVE SystemInv'
    BY <2>1, ItemsAfterRun, RunTypesStep, RunControlAfterRun, RunListsAfterRun
       DEF SystemInv, RunInv
  <2> QED BY <2>1, SystemNextCases, HandlersKeepSystem, IndexKeepsSystem,
          DeletionKeepsSystem, NextDateKeepsSystem
<1> QED BY SystemInvInit, <1>1, PTL DEF SystemSpec

\* With the scheduled jobs at work as well, crashing and retried, no star balance
\* is ever negative.
THEOREM NoOverdraftEver == SystemSpec => []BalanceNonNegative
<1>1. SystemInv => BalanceNonNegative
  BY DEF SystemInv, CoreInv
<1> QED BY SystemInvHolds, <1>1, PTL

-----------------------------------------------------------------------------
\* The requests at which an attempt holds a list of ledger entries.
Lists == MemberExpiration \cup MemberEvaluation \cup {"query_due_members"}

\* Entry b is or was in the ledger, as far as anything in the system remembers.
Seen(b) ==
  \/ b \in ledger \cup hollow
  \/ \E r \in Runs : step[r] \in Lists /\ b \in work[r].entries
  \/ \E x \in deductions : b \in x.entries

\* An entry is stamped by an attempt that got to the creation of its entry.
EntryStamped(d) ==
  \A b \in LedgerEntry :
    Seen(b) /\ b.by[1] = d =>
      /\ b.by[2] \in 1..attempt[d]
      /\ pc[d] \in {"check_transaction_exists", "get_member",
                    "update_member_balance", "create_star_ledger_entry"}
           => b.by # <<d, attempt[d]>>

\* An entry the ledger has lost never comes back, and no hollow item has the key
\* of one that is there.
EntriesInv ==
  /\ \A d \in Deliveries : EntryStamped(d)
  /\ hollow \cap ledger = {}

\* An attempt that goes on keeps entries it listed or lists entries of its member
\* that are in the ledger.
LEMMA EntriesAfterRun ==
  ASSUME SystemInv, NEW r \in Runs, RunAction(r), step'[r] \in Lists
  PROVE  \A b \in work'[r].entries :
           \/ step[r] \in Lists /\ b \in work[r].entries
           \/ b \in ledger /\ b.member = work[r].member
<1>0. /\ RunTypes /\ RunControl(r) /\ RunLists(r) /\ today \in Day
      /\ work[r].now \in Day
  <2>1. RunTypes /\ RunControl(r) /\ RunLists(r) /\ today \in Day
    BY DEF SystemInv, RunInv, CoreInv, TypeOK
  <2> QED BY <2>1, WorkFields DEF RunTypes
<1> DEFINE Kept == \A b \in work'[r].entries :
                     \/ step[r] \in Lists /\ b \in work[r].entries
                     \/ b \in ledger /\ b.member = work[r].member
<1>a. /\ \A s : RunGoesTo(r, s) => step'[r] = s
      /\ \A w : SetWork(r, w) => work'[r] = w
      /\ \A o : RunReturns(r, o) => step'[r] = "done"
  BY <1>0 DEF RunTypes, RunGoesTo, SetWork, RunReturns
<1>b. "done" \notin Lists /\ "waiting" \notin Lists /\ "dead letter" \notin Lists
      /\ "query_members_by_tier" \notin Lists
  BY DEF Lists, MemberExpiration, MemberEvaluation
<1>1. ASSUME NEW todo \in SUBSET Members, NextInactive(r, todo) PROVE Kept
  <2>1. \/ step'[r] = "done"
        \/ work'[r].entries = {}
    BY <1>0, <1>1, ListGoesOn DEF RunTypes
  <2> QED BY <1>b, <2>1
<1>2. ASSUME NEW v \in EvaluationWork, NextDue(r, v), step[r] \in Lists,
             v.entries = work[r].entries
      PROVE  Kept
  <2>1. ASSUME NEW m \in v.todo,
               SetWork(r, [v EXCEPT !.member = m, !.todo = @ \ {m}, !.stars = 0])
        PROVE  work'[r].entries = v.entries
    BY <1>a, <2>1 DEF EvaluationWork
  <2>2. ASSUME SetWork(r, [v EXCEPT !.round = @ + 1, !.member = NoMember, !.stars = 0])
        PROVE  work'[r].entries = v.entries
    BY <1>a, <2>2 DEF EvaluationWork
  <2>3. work'[r].entries = v.entries \/ step'[r] = "done"
    BY <1>2, <1>a, <2>1, <2>2 DEF NextDue
  <2> QED BY <1>2, <1>b, <2>3
<1>3. CASE StartExpiration(r) \/ StartEvaluation(r)
  <2>1. CASE StartExpiration(r)
    BY <1>a, <1>b, <2>1 DEF StartExpiration, StartRun
  <2>2. CASE StartEvaluation(r)
    BY <1>a, <2>2 DEF StartEvaluation, StartRun
  <2> QED BY <1>3, <2>1, <2>2
<1>4. CASE QueryGreenMembers(r)
  <2>1. PICK page \in FirstPage(Shown("Green"), ExpirationLimit) :
          NextInactive(r, {m \in page : Inactive(byTier[m], work[r].now)})
    BY <1>4 DEF QueryGreenMembers
  <2>2. {m \in page : Inactive(byTier[m], work[r].now)} \in SUBSET Members
    BY DEF FirstPage, Shown
  <2> QED BY <1>1, <2>1, <2>2
<1>5. CASE ReadLedger(r)
  <2> DEFINE m == work[r].member
             expired == Expired(m, work[r].now)
             w == [work[r] EXCEPT !.entries = expired, !.stars = StarsIn(expired)]
  <2>0. work[r] \in ExpirationWork /\ work[r].todo \in SUBSET Members
    BY <1>0, <1>5, WorkFields DEF ReadLedger, RunLists, MemberExpiration
  <2>1. CASE RunReturns(r, Reply("error", 0))
    BY <1>a, <1>b, <2>1
  <2>2. CASE NextInactive(r, work[r].todo)
    BY <1>1, <2>0, <2>2
  <2>3. CASE SetWork(r, w)
    <3>1. w.entries = expired
      BY <2>0 DEF ExpirationWork
    <3>2. expired \subseteq GetStarLedgerEntries(m)
      BY DEF Expired
    <3>3. work'[r].entries = expired
      BY <1>a, <2>3, <3>1
    <3> QED BY <3>2, <3>3 DEF GetStarLedgerEntries
  <2> QED BY <1>5, <2>1, <2>2, <2>3 DEF ReadLedger
<1>6. CASE Deduct(r)
  BY <1>6, <1>a, <1>b DEF Deduct, Lists, MemberExpiration
<1>7. CASE DeleteEntries(r)
  <2>0. step[r] \in Lists /\ work[r] \in ExpirationWork
    BY <1>0, <1>7 DEF DeleteEntries, RunLists, Lists, MemberExpiration
  <2>1. PICK batch \in SUBSET work[r].entries :
          SetWork(r, [work[r] EXCEPT !.entries = @ \ batch])
    BY <1>7 DEF DeleteEntries
  <2>2. work'[r].entries = work[r].entries \ batch
    BY <1>a, <2>0, <2>1 DEF ExpirationWork
  <2> QED BY <2>0, <2>2
<1>8. CASE RecordExpiration(r)
  <2>1. work[r].todo \in SUBSET Members
    BY <1>0, <1>8, WorkFields DEF RecordExpiration, RunLists, MemberExpiration
  <2> QED BY <1>1, <1>8, <1>a, <1>b, <2>1 DEF RecordExpiration
<1>9. CASE ExpirationRequestFails(r) \/ CrashRun(r) \/ DiscardRun(r)
  BY <1>9, <1>a, <1>b DEF ExpirationRequestFails, CrashRun, DiscardRun, AfterRunCrash
<1>10. ASSUME \/ QueryDueMembers(r) \/ RecordTierChange(r) \/ KeepTierKey(r)
              \/ EvaluationRequestFails(r) \/ SumYear(r) \/ ListPromotedEntries(r)
              \/ RemoveExpirationDate(r) \/ RemovalFails(r)
       PROVE  work[r] \in EvaluationWork /\ step[r] \in Lists
  BY <1>0, <1>10
     DEF QueryDueMembers, RecordTierChange, KeepTierKey, EvaluationRequestFails, SumYear,
         ListPromotedEntries, RemoveExpirationDate, RemovalFails, RunLists, Lists,
         MemberEvaluation, EvaluationRequest
<1>11. CASE QueryDueMembers(r)
  <2>1. PICK page \in FirstPage(ShownDue(OldTier(r), work[r].now), EvaluationLimit) :
          NextDue(r, [work[r] EXCEPT !.todo = page])
    BY <1>11 DEF QueryDueMembers
  <2>2. page \in SUBSET Members
    BY DEF FirstPage, ShownDue, Shown
  <2> DEFINE v == [work[r] EXCEPT !.todo = page]
  <2>3. v \in EvaluationWork /\ v.entries = work[r].entries
    BY <1>10, <1>11, <2>2 DEF EvaluationWork
  <2> HIDE DEF v
  <2> QED BY <1>10, <1>11, <1>2, <2>1, <2>3 DEF v
<1>12. CASE RecordTierChange(r) \/ KeepTierKey(r) \/ EvaluationRequestFails(r)
  <2> DEFINE v == [work[r] EXCEPT !.errors = 1]
  <2>1. v \in EvaluationWork /\ v.entries = work[r].entries
    BY <1>10, <1>12, NextDueWork DEF EvaluationWork
  <2>2. NextDue(r, work[r]) \/ NextDue(r, v)
    BY <1>12 DEF RecordTierChange, KeepTierKey, AfterLastWrite, EvaluationRequestFails
  <2> HIDE DEF v
  <2> QED BY <1>10, <1>12, <1>2, <2>1, <2>2
<1>13. CASE DeductUnanswered(r)
  <2>1. work[r] \in ExpirationWork /\ step[r] \in Lists
    BY <1>0, <1>13 DEF DeductUnanswered, RunLists, MemberExpiration, Lists
  <2>2. work'[r] = [work[r] EXCEPT !.unanswered = @ + 1]
    BY <1>13, <1>a DEF DeductUnanswered
  <2>3. work'[r].entries = work[r].entries
    BY <2>1, <2>2 DEF ExpirationWork
  <2> QED BY <2>1, <2>3
<1>14. CASE SumYear(r)
  <2>1. \E stars : SetWork(r, [work[r] EXCEPT !.stars = stars])
    BY <1>14 DEF SumYear
  <2>2. work'[r].entries = work[r].entries
    BY <1>10, <1>14, <1>a, <2>1 DEF EvaluationWork
  <2> QED BY <1>10, <1>14, <2>2
<1>15. CASE MoveTier(r) \/ SetAnnualCount(r) \/ KeepTierDate(r)
  BY <1>15 DEF MoveTier, SetAnnualCount, KeepTierDate, Lists, MemberEvaluation
<1>16. CASE ListPromotedEntries(r) \/ RemoveExpirationDate(r) \/ RemovalFails(r)
  <2>1. CASE work' = work
    BY <1>10, <1>16, <2>1
  <2>2. ASSUME NEW S, SetWork(r, [work[r] EXCEPT !.entries = S]),
               \A b \in S : b \in work[r].entries \/ b \in GetStarLedgerEntries(work[r].member)
        PROVE  Kept
    <3>1. work'[r].entries = S
      BY <1>10, <1>16, <1>a, <2>2 DEF EvaluationWork
    <3> QED BY <1>10, <1>16, <2>2, <3>1 DEF GetStarLedgerEntries
  <2>3. CASE ListPromotedEntries(r)
    BY <2>2, <2>3 DEF ListPromotedEntries
  <2>4. ASSUME NEW b, AfterEntry(r, b) PROVE Kept
    BY <2>2, <2>4 DEF AfterEntry
  <2> QED BY <1>16, <2>1, <2>3, <2>4 DEF RemoveExpirationDate, RemovalFails
<1> QED BY <1>3, <1>4, <1>5, <1>6, <1>7, <1>8, <1>9, <1>11, <1>12, <1>13, <1>14, <1>15,
           <1>16 DEF RunAction, RunStep, RunFault, Expire, Evaluate

\* No run makes an entry.
LEMMA SeenAfterRun ==
  ASSUME SystemInv, NEW r \in Runs, RunAction(r), NEW b, Seen(b)'
  PROVE  Seen(b)
<1>1. ledger' \subseteq ledger
  BY RunLeaves
<1>2. ASSUME NEW q \in Runs, step'[q] \in Lists, b \in work'[q].entries PROVE Seen(b)
  <2>1. CASE q = r
    BY <1>2, <2>1, EntriesAfterRun DEF Seen
  <2>2. CASE q # r
    BY <1>2, <2>2, OtherRunsStay DEF Seen
  <2> QED BY <2>1, <2>2
<1>3. b \in hollow' => Seen(b)
  BY HistoryAfterRun DEF Seen, Lists, MemberEvaluation
<1>4. ASSUME NEW x \in deductions', b \in x.entries PROVE Seen(b)
  <2>1. x \in deductions \/ (step[r] = "deduct" /\ x.entries = work[r].entries)
    <3>1. CASE deductions' = deductions
      BY <1>4, <3>1
    <3>2. ASSUME NEW n \in Sending, Takes(r, n) PROVE x \in deductions \/ (step[r] = "deduct" /\ x.entries = work[r].entries)
      <4>1. step[r] = "deduct" /\ deductions' = deductions \cup {Taken(r, n)}
        BY <3>2 DEF Takes
      <4>2. Taken(r, n).entries = work[r].entries
        BY DEF Taken
      <4> QED BY <1>4, <4>1, <4>2
    <3> QED BY <3>1, <3>2, HistoryAfterRun
  <2> QED BY <1>4, <2>1 DEF Seen, Lists, MemberExpiration
<1> QED BY <1>1, <1>2, <1>3, <1>4 DEF Seen

\* The requests before the one that creates the entry, and that one.
Early == {"check_transaction_exists", "get_member",
          "update_member_balance", "create_star_ledger_entry"}

\* An attempt creates its entry at most once, and then goes on to the record.
LEMMA AttemptGoes ==
  ASSUME CoreInv, NEW d \in Deliveries, DeliveryAction(d)
  PROVE  \/ /\ attempt'[d] = attempt[d] + 1 /\ ledger' = ledger
         \/ /\ attempt'[d] = attempt[d]
            /\ pc'[d] \in Early => pc[d] \in Early
            /\ \/ ledger' = ledger
               \/ pc[d] = "create_star_ledger_entry" /\ pc'[d] \notin Early
<1>0. /\ attempt \in [Deliveries -> 0..MaxAttempts]
      /\ pc \in [Deliveries -> Running \cup {"queued", "done", "dead letter"}]
  BY DEF CoreInv, TypeOK
<1>a. /\ \A s : GoTo(d, s) => pc'[d] = s
      /\ \A a : Return(d, a) => pc'[d] = "done"
      /\ "done" \notin Early /\ "record_transaction" \notin Early /\ "return" \notin Early
      /\ "queued" \notin Early /\ "dead letter" \notin Early
  BY <1>0 DEF GoTo, Return, Early
<1>1. CASE Invoke(d)
  BY <1>0, <1>1 DEF Invoke, tableVars
<1>2. CASE Respond(d) \/ Crash(d) \/ RequestFails(d) \/ Discard(d)
  BY <1>2, <1>a DEF Respond, Crash, AfterCrash, RequestFails, Discard, tableVars
<1>3. CASE \/ PurchaseCheck(d) \/ RedemptionCheck(d) \/ PurchaseGetMember(d)
           \/ RedemptionGetMember(d)
  <2>1. pc[d] \in Early /\ attempt' = attempt /\ ledger' = ledger
    BY <1>3 DEF PurchaseCheck, RedemptionCheck, CheckIdempotency, PurchaseGetMember,
                    RedemptionGetMember, tableVars, Early
  <2> QED BY <2>1
<1>4. CASE PurchaseUpdateBalance(d) \/ RedemptionUpdateBalance(d)
  BY <1>4, <1>a DEF PurchaseUpdateBalance, RedemptionUpdateBalance, Early
<1>5. CASE PurchaseCreateLedgerEntry(d) \/ PurchaseRecord(d) \/ RedemptionRecord(d)
  BY <1>5, <1>a DEF PurchaseCreateLedgerEntry, PurchaseRecord, RedemptionRecord, Early
<1>6. CASE Resent(d)
  BY <1>6 DEF Resent, PurchaseUpdateUnanswered, RedemptionUpdateUnanswered, UpdateUnanswered
<1> QED BY <1>1, <1>2, <1>3, <1>4, <1>5, <1>6 DEF DeliveryAction

\* The handlers keep what is known of ledger entries: they add entries of
\* today.
LEMMA EntriesAfterHandlers ==
  ASSUME SystemInv, EntriesInv, [Next]_vars, UNCHANGED <<runVars, historyVars>>
  PROVE  EntriesInv'
<1>0. CoreInv /\ ItemsInv
  BY DEF SystemInv
<1>a. UNCHANGED <<step, work, hollow, deductions>>
  BY DEF runVars, historyVars
<1>b. ASSUME NEW b, Seen(b)', ~Seen(b) PROVE b \in ledger' \ ledger
  BY <1>a, <1>b DEF Seen
<1>1. ASSUME ledger' = ledger, pc' = pc, attempt' = attempt PROVE EntriesInv'
  BY <1>a, <1>1 DEF EntriesInv, EntryStamped, Seen
<1>2. ASSUME Propagate \/ PassDay \/ UNCHANGED vars
      PROVE  ledger' = ledger /\ pc' = pc /\ attempt' = attempt
  BY <1>2 DEF Propagate, PropagateToIndex, PassDay, NextDay, vars, tableVars, deliveryVars
<1>3. ASSUME NEW d \in Deliveries, DeliveryAction(d) PROVE EntriesInv'
  <2>0. attempt[d] \in Nat /\ MaxAttempts \in Nat /\ (pc[d] \in Running => attempt[d] > 0)
    <3>1. MaxAttempts \in Nat
      BY DeliveryAssumption
    <3>2. attempt[d] \in 0..MaxAttempts /\ Progress(d)
      BY <1>0 DEF CoreInv, TypeOK
    <3> QED BY <3>1, <3>2 DEF Progress
  <2>1. \A b \in ledger' \ ledger : b.by = <<d, attempt[d]>>
    BY <1>3, WritesOwnStamp
  <2>2. ASSUME NEW e \in Deliveries \ {d} PROVE EntryStamped(e)'
    <3>1. pc'[e] = pc[e] /\ attempt'[e] = attempt[e]
      BY <1>0, <1>3, OthersUnchanged DEF CoreInv
    <3>2. ASSUME NEW b \in LedgerEntry, Seen(b)', b.by[1] = e PROVE Seen(b)
      BY <1>b, <2>1, <3>2
    <3> HIDE DEF Seen
    <3> QED BY <3>1, <3>2 DEF EntriesInv, EntryStamped
  <2>3. EntryStamped(d)'
    <3> HIDE DEF Seen
    <3>1. CASE attempt'[d] = attempt[d] + 1 /\ ledger' = ledger
      <4>1. ASSUME NEW b \in LedgerEntry, Seen(b)', b.by[1] = d
            PROVE  b.by[2] \in 1..attempt'[d] /\ b.by # <<d, attempt'[d]>>
        <5>1. b.by[2] \in 1..attempt[d]
          BY <1>b, <3>1, <4>1 DEF EntriesInv, EntryStamped
        <5>2. b.by[2] \in 1..attempt'[d] /\ b.by[2] # attempt'[d]
          BY <2>0, <3>1, <5>1
        <5> QED BY <5>2
      <4> QED BY <4>1 DEF EntryStamped
    <3>2. CASE /\ attempt'[d] = attempt[d]
               /\ pc'[d] \in Early => pc[d] \in Early
               /\ \/ ledger' = ledger
                  \/ pc[d] = "create_star_ledger_entry" /\ pc'[d] \notin Early
      <4>1. ASSUME NEW b \in LedgerEntry, Seen(b)', b.by[1] = d
            PROVE  /\ b.by[2] \in 1..attempt'[d]
                   /\ pc'[d] \in Early => b.by # <<d, attempt'[d]>>
        <5>1. CASE Seen(b)
          BY <3>2, <4>1, <5>1 DEF EntriesInv, EntryStamped, Early
        <5>2. CASE ~Seen(b)
          <6>1. b \in ledger' \ ledger
            BY <1>b, <4>1, <5>2
          <6>2. /\ b.by = <<d, attempt[d]>> /\ pc'[d] \notin Early
                /\ pc[d] = "create_star_ledger_entry"
            BY <2>1, <3>2, <6>1
          <6>3. attempt[d] \in 1..attempt[d]
            BY <2>0, <6>2 DEF Running, Request
          <6> QED BY <3>2, <6>2, <6>3
        <5> QED BY <5>1, <5>2
      <4> QED BY <4>1 DEF EntryStamped, Early
    <3> QED BY <1>0, <1>3, <3>1, <3>2, AttemptGoes
  <2>4. hollow' \cap ledger' = {}
    <3>1. ASSUME NEW b \in hollow, b \in ledger' \ ledger PROVE FALSE
      <4>1. pc[d] = "create_star_ledger_entry" /\ b.by = <<d, attempt[d]>>
        BY <1>0, <1>3, <2>1, <3>1, AttemptGoes
      <4>2. b \in LedgerEntry /\ Seen(b)
        BY <1>0, <3>1 DEF ItemsInv, Seen
      <4> QED BY <4>1, <4>2 DEF EntriesInv, EntryStamped
    <3> QED BY <1>a, <3>1 DEF EntriesInv
  <2> QED BY <2>2, <2>3, <2>4 DEF EntriesInv
<1> QED BY <1>1, <1>2, <1>3, NextCases

\* Every step keeps it.
LEMMA EntriesStay ==
  ASSUME SystemInv, EntriesInv, [SystemNext]_systemVars
  PROVE  EntriesInv'
<1>1. ASSUME NEW r \in Runs, RunAction(r) PROVE EntriesInv'
  <2>1. UNCHANGED deliveryVars /\ ledger' \subseteq ledger
    BY <1>1, RunLeaves
  <2>2. ASSUME NEW d \in Deliveries PROVE EntryStamped(d)'
    <3>1. \A b : Seen(b)' => Seen(b)
      BY <1>1, SeenAfterRun
    <3> HIDE DEF Seen
    <3> QED BY <2>1, <3>1 DEF EntriesInv, EntryStamped, deliveryVars
  <2>3. hollow' \cap ledger' = {}
    BY <1>1, <2>1, HistoryAfterRun DEF EntriesInv
  <2> QED BY <2>2, <2>3 DEF EntriesInv
<1>2. ASSUME UNCHANGED <<ledger, hollow, step, work, deductions, pc, attempt>>
      PROVE  EntriesInv'
  BY <1>2 DEF EntriesInv, EntryStamped, Seen
<1>3. ASSUME PropagateToTierIndex /\ UNCHANGED <<deliveryVars, runVars, historyVars>>
      PROVE  UNCHANGED <<ledger, hollow, step, work, deductions, pc, attempt>>
  BY <1>3 DEF PropagateToTierIndex, tableVars, deliveryVars, runVars, historyVars
<1>4. ASSUME DeleteOldRecord
      PROVE  UNCHANGED <<ledger, hollow, step, work, deductions, pc, attempt>>
  BY <1>4 DEF DeleteOldRecord, TimeToLive, deliveryVars, runVars
<1>5. ASSUME NextDate
      PROVE  UNCHANGED <<ledger, hollow, step, work, deductions, pc, attempt>>
  BY <1>5 DEF NextDate, AdvanceCalendar, tableVars, deliveryVars, runVars, historyVars
<1> QED BY <1>1, <1>2, <1>3, <1>4, <1>5, SystemNextCases, EntriesAfterHandlers

\* It holds at the start.
LEMMA EntriesInit == SystemInit => EntriesInv
  BY DEF SystemInit, Init, TableInit, RunsInit, ExpirationInit, EntriesInv, EntryStamped, Seen,
     Lists, MemberExpiration, MemberEvaluation

\* Every variable of the whole program keeps its type: a tier evaluation that
\* updates an entry the expiration has deleted leaves an item of its own, which
\* is no entry.
THEOREM SystemTypeCorrect == SystemSpec => []SystemTypeOK
<1>1. SystemInit => SystemInv /\ EntriesInv
  BY SystemInvInit, EntriesInit
<1>2. SystemInv /\ EntriesInv /\ [SystemNext]_systemVars => EntriesInv'
  BY EntriesStay
<1>3. SystemInv /\ EntriesInv => SystemTypeOK
  BY DEF SystemInv, CoreInv, ItemsInv, RunInv, RunTypes, EntriesInv, SystemTypeOK
<1> QED BY <1>1, <1>2, <1>3, SystemInvHolds, PTL DEF SystemSpec
=============================================================================
