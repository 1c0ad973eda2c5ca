------------------------- MODULE ExpirationProofs --------------------------
(***************************************************************************)
(* The books of the whole system.  A deduction is on record or its job     *)
(* broke off there, a member pays once for a day unless the job was        *)
(* interrupted, a balance is what purchases and redemptions left less what *)
(* expired, an annual count is covered by credits, and a run that is not   *)
(* disturbed takes stars and entries in one step.                          *)
(***************************************************************************)
EXTENDS ScheduleProofs

-----------------------------------------------------------------------------
\* The run goes on with the next member of the list todo, or ends well.
ListGoes(r, todo) ==
  \/ todo = {} /\ step'[r] = "done" /\ outcome'[r] = Reply("ok", 0)
  \/ /\ step'[r] = "get_star_ledger_entries" /\ outcome'[r] = outcome[r]
     /\ work'[r] \in ExpirationWork /\ work'[r].member \in todo
     /\ work'[r].todo = todo \ {work'[r].member}

\* The attempt is over before the list is.
Quits(r) ==
  step'[r] \in {"waiting", "dead letter"} \/ (step'[r] = "done" /\ outcome'[r].status = "error")

\* The run goes on with the same member.
SameMember(r) ==
  /\ outcome'[r] = outcome[r] /\ work'[r] \in ExpirationWork
  /\ work'[r].member = work[r].member /\ work'[r].todo = work[r].todo

\* The run takes stars by a sending of its deduction: the one it hears of, after
\* which it goes on to delete the entries, or another, after which it sends again.
Pays(r, n) ==
  /\ step[r] = "deduct" /\ SameMember(r)
  /\ work'[r].entries = work[r].entries /\ work'[r].stars = work[r].stars
  /\ UNCHANGED <<ledger, txns>>
  /\ deductions' = deductions \cup {Taken(r, n)}
  /\ \/ n = 0 /\ step'[r] = "delete_star_ledger_entries"
     \/ /\ n = work[r].unanswered + 1 /\ n # 0 /\ work[r].unanswered \in Nat
        /\ step'[r] = "deduct" /\ work'[r].unanswered = n

\* What a sending took has the stamp of the attempt.
LEMMA TakenFields ==
  ASSUME NEW r, NEW n
  PROVE  /\ Taken(r, n).by = Stamp(r) /\ Taken(r, n).member = work[r].member
         /\ Taken(r, n).stars = work[r].stars /\ Taken(r, n).entries = work[r].entries
         /\ Taken(r, n).sending = n
BY DEF Taken

\* A run that is going on has a stamp of its own.
LEMMA StampsOfRuns ==
  ASSUME SystemInv, NEW r \in Runs, Active(r)
  PROVE  Stamp(r) \in Stamps /\ runAttempt[r] \in 1..MaxRunAttempts
<1>1. runAttempt[r] \in 0..MaxRunAttempts /\ runAttempt[r] > 0
  BY DEF SystemInv, RunInv, RunTypes, RunControl
<1>2. MaxRunAttempts \in Nat /\ Runs \X (1..MaxRunAttempts) \subseteq Stamps
  BY RunAssumption
<1>3. runAttempt[r] \in 1..MaxRunAttempts
  BY <1>1, <1>2
<1> QED BY <1>2, <1>3 DEF Stamp

\* What a run of the expiration may do at each of its requests.
LEMMA ExpirationCases ==
  ASSUME SystemInv, NEW r \in Runs, RunAction(r), step[r] \in ExpirationRequest
  PROVE  /\ runAttempt'[r] = runAttempt[r]
         /\ \/ Quits(r) /\ UNCHANGED <<ledger, txns, deductions>>
            \/ /\ step[r] = "query_members_by_tier"
               /\ \E todo \in SUBSET Members : ListGoes(r, todo)
               /\ UNCHANGED <<ledger, txns, deductions>>
            \/ /\ step[r] = "get_star_ledger_entries" /\ ListGoes(r, work[r].todo)
               /\ UNCHANGED <<ledger, txns, deductions>>
            \/ /\ step[r] = "get_star_ledger_entries" /\ step'[r] = "deduct" /\ SameMember(r)
               /\ work'[r].entries = Expired(work[r].member, today)
               /\ UNCHANGED <<ledger, txns, deductions>>
            \/ \E n \in Sending : Pays(r, n)
            \/ /\ step[r] = "delete_star_ledger_entries" /\ SameMember(r)
               /\ work'[r].stars = work[r].stars
               /\ \/ step'[r] = "record_expiration"
                     /\ ledger' = ledger \ {b \in work[r].entries : b.member = work[r].member}
                  \/ step'[r] = "delete_star_ledger_entries"
                     /\ ledger' = ledger \ {b \in work[r].entries \ work'[r].entries :
                                              b.member = work[r].member}
               /\ UNCHANGED <<txns, deductions>>
            \/ /\ step[r] = "record_expiration"
               /\ ListGoes(r, work[r].todo) \/ Quits(r)
               /\ \E t \in Transaction :
                    /\ txns' = txns \cup {t} /\ t.type = "EXPIRATION"
                    /\ t.by = Stamp(r) /\ t.member = work[r].member /\ t.stars = work[r].stars
               /\ UNCHANGED <<ledger, deductions>>
<1>0. /\ RunTypes /\ RunControl(r) /\ RunLists(r) /\ Active(r) /\ work[r].now = today
      /\ today \in Day
  <2>1. RunTypes /\ RunControl(r) /\ RunLists(r) /\ today \in Day
    BY DEF SystemInv, RunInv, CoreInv, TypeOK
  <2>2. Active(r)
    BY DEF Active, Ended, ExpirationRequest
  <2> QED BY <2>1, <2>2 DEF RunControl
<1>a. /\ \A s : RunGoesTo(r, s) => step'[r] = s
      /\ \A w : SetWork(r, w) => work'[r] = w
      /\ \A o : RunReturns(r, o) => step'[r] = "done" /\ outcome'[r] = o
  BY <1>0 DEF RunTypes, RunGoesTo, SetWork, RunReturns
<1>b. ASSUME NEW todo \in SUBSET Members, NextInactive(r, todo) PROVE ListGoes(r, todo)
  <2>1. CASE /\ todo = {}
             /\ step' = [step EXCEPT ![r] = "done"]
             /\ work' = [work EXCEPT ![r] = NoWork]
             /\ outcome' = [outcome EXCEPT ![r] = Reply("ok", 0)]
    BY <1>0, <2>1 DEF ListGoes, RunTypes
  <2>2. CASE \E w \in ExpirationWork :
               /\ w.now = work[r].now /\ w.member \in todo /\ w.todo = todo \ {w.member}
               /\ w.entries = {} /\ w.stars = 0
               /\ step' = [step EXCEPT ![r] = "get_star_ledger_entries"]
               /\ work' = [work EXCEPT ![r] = w]
               /\ outcome' = outcome
    BY <1>0, <2>2 DEF ListGoes, RunTypes
  <2> QED BY <1>0, <1>b, <2>1, <2>2, ListGoesOn
<1>1. runAttempt'[r] = runAttempt[r]
  BY RunLeaves DEF ExpirationRequest
<1>2. CASE CrashRun(r) \/ DiscardRun(r)
  <2>1. step'[r] \in {"waiting", "dead letter"}
    BY <1>2, <1>a DEF CrashRun, AfterRunCrash, DiscardRun
  <2>2. UNCHANGED <<ledger, txns, deductions>>
    <3>1. \A n \in Sending : ~Takes(r, n)
      BY <2>1 DEF Takes
    <3> QED BY <1>2, <3>1, HistoryAfterRun DEF CrashRun, DiscardRun, tableVars
  <2> QED BY <1>1, <2>1, <2>2 DEF Quits
<1>c. ASSUME RunReturns(r, Reply("error", 0)) PROVE Quits(r)
  <2>1. step'[r] = "done" /\ outcome'[r] = Reply("error", 0)
    BY <1>c, <1>0 DEF RunReturns, RunTypes
  <2>2. Reply("error", 0).status = "error"
    BY DEF Reply
  <2> QED BY <2>1, <2>2 DEF Quits
<1>3. CASE ExpirationRequestFails(r)
  <2>1. Quits(r) /\ UNCHANGED <<ledger, txns, deductions>>
    BY <1>3, <1>c DEF ExpirationRequestFails, tableVars
  <2> QED BY <1>1, <2>1
<1>4. CASE QueryGreenMembers(r)
  <2>1. PICK page \in FirstPage(Shown("Green"), ExpirationLimit) :
          NextInactive(r, {m \in page : Inactive(byTier[m], work[r].now)})
    BY <1>4 DEF QueryGreenMembers
  <2>2. {m \in page : Inactive(byTier[m], work[r].now)} \in SUBSET Members
    BY <2>1 DEF FirstPage, Shown
  <2> QED BY <1>1, <1>4, <1>b, <2>1, <2>2 DEF QueryGreenMembers, tableVars
<1>5. CASE ReadLedger(r)
  <2>0. /\ step[r] = "get_star_ledger_entries" /\ work[r] \in ExpirationWork
        /\ work[r].todo \in SUBSET Members /\ UNCHANGED <<ledger, txns, deductions>>
    BY <1>0, <1>5, WorkFields DEF ReadLedger, RunLists, MemberExpiration, tableVars
  <2>1. CASE RunReturns(r, Reply("error", 0))
    BY <1>1, <1>c, <2>0, <2>1
  <2>2. CASE NextInactive(r, work[r].todo)
    BY <1>1, <1>b, <2>0, <2>2
  <2>3. CASE ~RunReturns(r, Reply("error", 0)) /\ ~NextInactive(r, work[r].todo)
    <3> DEFINE m == work[r].member
               expired == Expired(m, work[r].now)
               w == [work[r] EXCEPT !.entries = expired, !.stars = StarsIn(expired)]
    <3>1. /\ SetWork(r, w) /\ RunGoesTo(r, "deduct") /\ outcome' = outcome
      BY <1>5, <2>3 DEF ReadLedger
    <3>2. step'[r] = "deduct" /\ work'[r] = w
      BY <1>a, <3>1
    <3>3. w.entries = expired /\ w.todo = work[r].todo /\ w.member = m /\ w \in ExpirationWork
      <4>1. expired \in SUBSET LedgerEntry /\ StarsIn(expired) \in Int
        <5>1. m \in Members
          BY <2>0 DEF ExpirationWork
        <5>2. expired \subseteq ledger /\ ledger \subseteq LedgerEntry
          BY DEF Expired, GetStarLedgerEntries, SystemInv, CoreInv, TypeOK
        <5> QED BY <1>0, <5>1, <5>2, SumsAreIntegers
      <4> HIDE DEF expired
      <4> QED BY <2>0, <4>1 DEF ExpirationWork
    <3> HIDE DEF w
    <3> QED BY <1>0, <1>1, <2>0, <3>1, <3>2, <3>3 DEF SameMember
  <2> QED BY <2>1, <2>2, <2>3
<1>6. CASE Deduct(r) \/ DeductUnanswered(r)
  <2>0. /\ step[r] = "deduct" /\ UNCHANGED <<ledger, txns>> /\ work[r] \in ExpirationWork
    BY <1>0, <1>6 DEF Deduct, DeductUnanswered, RunLists, MemberExpiration
  <2>1. CASE RunReturns(r, Reply("error", 0)) /\ UNCHANGED deductions
    BY <1>1, <1>c, <2>0, <2>1
  <2>2. CASE /\ RunGoesTo(r, "delete_star_ledger_entries")
             /\ deductions' = deductions \cup {Taken(r, 0)}
             /\ UNCHANGED <<work, outcome>>
    <3>1. Pays(r, 0)
      BY <2>0, <2>2, <1>a DEF Pays, SameMember
    <3>2. 0 \in Sending
      BY MaxUnansweredAssumption DEF Sending
    <3> QED BY <1>1, <3>1, <3>2
  <2>3. CASE DeductUnanswered(r)
    <3>1. work[r].unanswered \in Sending /\ work[r].unanswered < MaxUnanswered
      BY <2>0, <2>3 DEF DeductUnanswered, ExpirationWork
    <3>2. PICK n \in Sending : n = work[r].unanswered + 1 /\ n # 0
      BY <3>1, SendAgain
    <3>3. work[r].unanswered \in Nat
      BY <3>1, MaxUnansweredAssumption DEF Sending
    <3>4. /\ SetWork(r, [work[r] EXCEPT !.unanswered = n])
          /\ deductions' = deductions \cup {Taken(r, n)}
          /\ step' = step /\ outcome' = outcome
      BY <2>3, <3>2 DEF DeductUnanswered
    <3>5. work'[r] = [work[r] EXCEPT !.unanswered = n]
      BY <1>a, <3>4
    <3>6. /\ work'[r] \in ExpirationWork /\ work'[r].member = work[r].member
          /\ work'[r].todo = work[r].todo /\ work'[r].entries = work[r].entries
          /\ work'[r].stars = work[r].stars /\ work'[r].unanswered = n
      BY <2>0, <3>5 DEF ExpirationWork
    <3>7. SameMember(r)
      BY <3>4, <3>6 DEF SameMember
    <3>8. Pays(r, n)
      BY <2>0, <3>2, <3>3, <3>4, <3>6, <3>7 DEF Pays
    <3> QED BY <1>1, <3>8
  <2> QED BY <1>6, <2>1, <2>2, <2>3 DEF Deduct
<1>7. CASE DeleteEntries(r)
  <2>0. /\ step[r] = "delete_star_ledger_entries" /\ UNCHANGED <<txns, deductions>>
        /\ outcome' = outcome /\ work[r] \in ExpirationWork
    BY <1>0, <1>7 DEF DeleteEntries, RunLists, MemberExpiration
  <2>1. PICK batch \in SUBSET work[r].entries \ {{}} :
          /\ DeleteStarLedgerEntries(work[r].member, batch)
          /\ SetWork(r, [work[r] EXCEPT !.entries = @ \ batch])
          /\ RunGoesTo(r, IF batch = work[r].entries THEN "record_expiration"
                                                     ELSE "delete_star_ledger_entries")
    BY <1>7 DEF DeleteEntries
  <2> DEFINE w == [work[r] EXCEPT !.entries = @ \ batch]
  <2>2. w.entries = work[r].entries \ batch /\ w.stars = work[r].stars
        /\ w.member = work[r].member /\ w.todo = work[r].todo /\ w \in ExpirationWork
    BY <2>0, WorkFields DEF ExpirationWork
  <2>3. work'[r] = w
    BY <1>a, <2>1
  <2>4. ledger' = ledger \ {b \in batch : b.member = work[r].member}
    BY <2>1 DEF DeleteStarLedgerEntries, GetStarLedgerEntries
  <2>5. SameMember(r) /\ work'[r].stars = work[r].stars /\ batch = work[r].entries \ work'[r].entries
    <3> HIDE DEF w
    <3> QED BY <2>0, <2>1, <2>2, <2>3 DEF SameMember
  <2>6. CASE batch = work[r].entries
    <3>1. step'[r] = "record_expiration"
      BY <1>a, <2>1, <2>6
    <3> QED BY <1>1, <2>0, <2>4, <2>5, <2>6, <3>1
  <2>7. CASE batch # work[r].entries
    <3>1. step'[r] = "delete_star_ledger_entries"
      BY <1>a, <2>1, <2>7
    <3> QED BY <1>1, <2>0, <2>4, <2>5, <3>1
  <2> QED BY <2>6, <2>7
<1>8. CASE RecordExpiration(r)
  <2>0. /\ step[r] = "record_expiration" /\ work[r] \in ExpirationWork
        /\ work[r].todo \in SUBSET Members /\ UNCHANGED <<ledger, deductions>>
        /\ NextInactive(r, work[r].todo) \/ RunReturns(r, Reply("error", 0))
    BY <1>0, <1>8, WorkFields DEF RecordExpiration, RunLists, MemberExpiration
  <2>1. ListGoes(r, work[r].todo) \/ Quits(r)
    BY <1>b, <1>c, <2>0
  <2>2. \E t \in Transaction :
          /\ txns' = txns \cup {t} /\ t.type = "EXPIRATION"
          /\ t.by = Stamp(r) /\ t.member = work[r].member /\ t.stars = work[r].stars
    <3> DEFINE t == [id |-> Stamp(r), member |-> work[r].member, type |-> "EXPIRATION",
                     stars |-> work[r].stars, day |-> work[r].now, by |-> Stamp(r)]
    <3>1. txns' = txns \cup {t}
      BY <1>8 DEF RecordExpiration, RecordTransaction
    <3>2. Stamp(r) \in Stamps
      BY <1>0, <2>0, StampsOfRuns
    <3>3. t \in Transaction
      BY <1>0, <2>0, <3>2, WorkFields DEF Transaction, TransactionType
    <3> QED BY <3>1, <3>3
  <2> QED BY <1>1, <2>0, <2>1, <2>2
<1>9. \/ CrashRun(r) \/ DiscardRun(r) \/ ExpirationRequestFails(r) \/ QueryGreenMembers(r)
      \/ ReadLedger(r) \/ Deduct(r) \/ DeductUnanswered(r) \/ DeleteEntries(r)
      \/ RecordExpiration(r)
  <2>1. step[r] \notin EvaluationRequest \cup RemovalRequest /\ step[r] # "waiting"
    BY DEF ExpirationRequest, EvaluationRequest, RemovalRequest
  <2>2. ~StartExpiration(r) /\ ~StartEvaluation(r) /\ ~EvaluationRequestFails(r)
    BY <2>1 DEF StartExpiration, StartEvaluation, StartRun, EvaluationRequestFails
  <2>3. /\ ~QueryDueMembers(r) /\ ~SumYear(r) /\ ~MoveTier(r) /\ ~SetAnnualCount(r)
        /\ ~RecordTierChange(r) /\ ~KeepTierDate(r) /\ ~KeepTierKey(r)
    BY <2>1 DEF QueryDueMembers, SumYear, MoveTier, SetAnnualCount, RecordTierChange,
       KeepTierDate, KeepTierKey, EvaluationRequest
  <2>4. ~ListPromotedEntries(r) /\ ~RemoveExpirationDate(r) /\ ~RemovalFails(r)
    BY <2>1 DEF ListPromotedEntries, RemoveExpirationDate, RemovalFails, RemovalRequest
  <2> QED BY <2>2, <2>3, <2>4 DEF RunAction, RunStep, RunFault, Expire, Evaluate
<1> QED BY <1>2, <1>3, <1>4, <1>5, <1>6, <1>7, <1>8, <1>9

-----------------------------------------------------------------------------
\* The deductions that the current attempt at run r made.
MadeBy(r) == {x \in deductions : x.by = Stamp(r)}

\* Every deduction has the stamp of an attempt at an expiration that began, and is
\* for entries of its member.
DeductionsStamped ==
  \A x \in deductions :
    /\ \E r \in Runs, n \in 1..MaxRunAttempts :
         x.by = <<r, n>> /\ n <= runAttempt[r] /\ JobOf[r] = "expiration"
    /\ \A b \in x.entries : b.member = x.member

\* An attempt deducts from every member of its list in turn, by one sending after
\* the other.
TakesTurns(r) ==
  /\ step[r] = "query_members_by_tier" => MadeBy(r) = {}
  /\ step[r] \in MemberExpiration =>
       /\ work[r].member \notin work[r].todo
       /\ \A x \in MadeBy(r) :
            /\ x.member \notin work[r].todo
            /\ step[r] = "get_star_ledger_entries" => x.member # work[r].member
            /\ step[r] = "deduct" /\ x.member = work[r].member =>
                 x.sending \in 1..work[r].unanswered

\* A sending of an attempt takes from a member once.
OncePerMember ==
  \A x, y \in deductions :
    x.by = y.by /\ x.member = y.member /\ x.sending = y.sending => x = y

\* What an attempt deducted and not yet recorded.
HoldsDeduction(r) ==
  step[r] \in {"delete_star_ledger_entries", "record_expiration"} =>
    \E x \in MadeBy(r) :
      /\ x.member = work[r].member /\ x.stars = work[r].stars /\ x.sending = 0
      /\ x.entries \cap ledger \subseteq
           (IF step[r] = "record_expiration" THEN {} ELSE work[r].entries)

\* A member of the current attempt that broke off would be nobody's fault.
FaultKnown ==
  \A x \in deductions, r \in Runs :
    \A n \in 1..MaxRunAttempts :
      x.by = <<r, n>> /\ x.sending = 0 /\ BrokenOff(x) =>
        \/ runAttempt[r] > n
        \/ step[r] \in {"waiting", "dead letter"}
        \/ outcome[r].status = "error"

\* Answered deduction x will never be on record.
Lost(x) == BrokenOff(x) /\ x.sending = 0

\* An attempt breaks off once.
OneBrokenOff ==
  \A x, y \in deductions : Lost(x) /\ Lost(y) /\ x.by = y.by => x = y

\* What is recorded was deducted, and its entries are gone.
RecordsAreOfDeductions ==
  \A t \in History :
    t.type = "EXPIRATION" =>
      \E x \in deductions :
        /\ <<x.by, x.member, x.stars>> = <<t.by, t.member, t.stars>>
        /\ x.sending = 0 /\ x.entries \cap ledger = {}

\* Of what a run is about to deduct, it shares entries only with deductions that
\* broke off or of a run that overlaps.
SharesWithFaults(q) ==
  step[q] = "deduct" =>
    \A x \in deductions :
      x.entries \cap work[q].entries # {} =>
        \/ BrokenOff(x)
        \/ \E r \in Runs \ {q} : \E n \in 1..MaxRunAttempts :
             x.by = <<r, n>> /\ DayOf[r] = DayOf[q]

\* What keeps the deductions accounted for.
ExpirationInv ==
  /\ DeductionsStamped /\ OncePerMember /\ FaultKnown /\ OneBrokenOff /\ RecordsAreOfDeductions
  /\ ExpiresOnceUnlessInterrupted
  /\ \A r \in Runs : TakesTurns(r) /\ HoldsDeduction(r) /\ SharesWithFaults(r)


\* The records of expirations.
ExpirationRecords == {t \in History : t.type = "EXPIRATION"}

\* Handlers, indexes and the calendar have no part in expirations; what they add
\* to the ledger is new to it.
LEMMA QuietForExpirations ==
  ASSUME SystemInv, EntriesInv, [SystemNext]_systemVars
  PROVE  \/ \E r \in Runs : RunAction(r)
         \/ /\ UNCHANGED <<deductions, step, work, outcome, runAttempt>>
            /\ ExpirationRecords' = ExpirationRecords
            /\ \A b \in LedgerEntry : Seen(b) /\ b \in ledger' => b \in ledger
<1>1. CASE /\ [Next]_vars /\ today' = today
           /\ UNCHANGED <<byTier, runVars, historyVars>>
  <2>0. CoreInv /\ UNCHANGED <<deductions, step, work, outcome, runAttempt, purged>>
    BY <1>1 DEF SystemInv, runVars, historyVars
  <2>1. ExpirationRecords' = ExpirationRecords
    <3>1. CASE txns' = txns
      BY <2>0, <3>1 DEF ExpirationRecords, History
    <3>2. CASE txns' # txns
      <4>1. PICK d \in Deliveries :
              txns' = txns \cup
                {[id |-> EventOf[d].id, member |-> EventOf[d].member,
                  type |-> IF IsPurchase(d) THEN "PURCHASE" ELSE "REDEMPTION",
                  stars |-> local[d].stars, day |-> local[d].now,
                  by |-> <<d, attempt[d]>>]}
        BY <1>1, <2>0, <3>2, HandlersAdd
      <4>2. \E t : txns' = txns \cup {t} /\ t.type # "EXPIRATION"
        <5> DEFINE kind == IF IsPurchase(d) THEN "PURCHASE" ELSE "REDEMPTION"
                   t == [id |-> EventOf[d].id, member |-> EventOf[d].member, type |-> kind,
                         stars |-> local[d].stars, day |-> local[d].now,
                         by |-> <<d, attempt[d]>>]
        <5>1. kind # "EXPIRATION"
          OBVIOUS
        <5>2. t.type = kind
          OBVIOUS
        <5>3. txns' = txns \cup {t}
          BY <4>1
        <5> HIDE DEF t, kind
        <5> QED BY <5>1, <5>2, <5>3
      <4> QED BY <2>0, <4>2 DEF ExpirationRecords, History
    <3> QED BY <3>1, <3>2
  <2>2. ASSUME NEW b \in LedgerEntry, Seen(b), b \in ledger' PROVE b \in ledger
    <3>1. CASE ledger' = ledger
      BY <2>2, <3>1
    <3>2. CASE ledger' # ledger
      <4>1. PICK d \in Deliveries :
              /\ pc[d] = "create_star_ledger_entry"
              /\ ledger' = ledger \cup
                   {[member |-> EventOf[d].member, stars |-> local[d].stars,
                     day |-> local[d].now, by |-> <<d, attempt[d]>>]}
        BY <1>1, <2>0, <3>2, HandlersAdd
      <4>2. SUFFICES ASSUME b \notin ledger PROVE FALSE
        OBVIOUS
      <4>3. b.by = <<d, attempt[d]>>
        BY <2>2, <4>1, <4>2
      <4>4. EntryStamped(d)
        BY DEF EntriesInv
      <4>5. b.by[1] = d
        BY <4>3
      <4> QED BY <2>2, <4>1, <4>3, <4>4, <4>5 DEF EntryStamped
    <3> QED BY <3>1, <3>2
  <2> QED BY <2>0, <2>1, <2>2
<1>2. CASE PropagateToTierIndex /\ UNCHANGED <<deliveryVars, runVars, historyVars>>
  BY <1>2 DEF PropagateToTierIndex, tableVars, runVars, historyVars, ExpirationRecords, History
<1>3. CASE DeleteOldRecord
  <2>1. History' = History
    BY <1>3 DEF DeleteOldRecord, TimeToLive, History
  <2> QED BY <1>3, <2>1 DEF DeleteOldRecord, TimeToLive, runVars, ExpirationRecords
<1>4. CASE NextDate
  BY <1>4 DEF NextDate, AdvanceCalendar, tableVars, runVars, historyVars, ExpirationRecords, History
<1> QED BY <1>1, <1>2, <1>3, <1>4, SystemNextCases

\* Neither has a run that is not at a request of the expiration; one that starts
\* does so as a new attempt.
LEMMA RunsApart ==
  ASSUME SystemInv, NEW r \in Runs, RunAction(r), step[r] \notin ExpirationRequest
  PROVE  /\ deductions' = deductions /\ ExpirationRecords' = ExpirationRecords
         /\ step'[r] \notin MemberExpiration
         /\ step'[r] = "query_members_by_tier" =>
              step[r] = "waiting" /\ runAttempt'[r] = runAttempt[r] + 1
<1>1. deductions' = deductions
  BY HistoryAfterRun DEF ExpirationRequest, Takes
<1>2. ExpirationRecords' = ExpirationRecords
  <2>0. purged' = purged /\ step[r] # "record_expiration"
    BY RunLeaves DEF ExpirationRequest
  <2>1. CASE txns' = txns
    BY <2>0, <2>1 DEF ExpirationRecords, History
  <2>2. CASE txns' # txns
    <3>1. \E t : txns' = txns \cup {t} /\ t.type = "TIER_CHANGE"
      BY <2>0, <2>2, RecordsAfterRun
    <3>2. \E t : txns' = txns \cup {t} /\ t.type # "EXPIRATION"
      BY <3>1
    <3> QED BY <2>0, <3>2 DEF ExpirationRecords, History
  <2> QED BY <2>1, <2>2
<1>3. CASE Starts(r)
  BY <1>1, <1>2, <1>3 DEF Starts, MemberExpiration
<1>4. CASE Stops(r) \/ Finishes(r)
  BY <1>1, <1>2, <1>4 DEF Stops, Finishes, MemberExpiration
<1>5. CASE EvaluationGoes(r)
  BY <1>1, <1>2, <1>5 DEF EvaluationGoes, MemberExpiration, MemberEvaluation
<1>6. ~ExpirationGoes(r)
  BY DEF ExpirationGoes
<1> QED BY <1>3, <1>4, <1>5, <1>6, RunGoes

\* Stamps tell the attempts of different runs apart.
LEMMA StampsDiffer ==
  ASSUME NEW r, NEW q, Stamp(r) = Stamp(q)
  PROVE  r = q
BY DEF Stamp

\* Entries that were deducted do not come back.
LEMMA DeductedStayGone ==
  ASSUME SystemInv, EntriesInv, [SystemNext]_systemVars, NEW x \in deductions
  PROVE  x.entries \cap ledger' \subseteq ledger
<1>1. CASE \E r \in Runs : RunAction(r)
  BY <1>1, RunLeaves
<1>2. CASE \A b \in LedgerEntry : Seen(b) /\ b \in ledger' => b \in ledger
  <2>1. x.entries \subseteq LedgerEntry
    BY DEF SystemInv, ItemsInv, Deduction
  <2> QED BY <1>2, <2>1 DEF Seen
<1> QED BY <1>1, <1>2, QuietForExpirations

-----------------------------------------------------------------------------
\* What a run writes at its next request, when it is a run of the expiration.
LEMMA ExpirationWrites ==
  ASSUME SystemInv, NEW r \in Runs, RunAction(r)
  PROVE  /\ \/ deductions' = deductions
            \/ /\ runAttempt'[r] = runAttempt[r] /\ ExpirationRecords' = ExpirationRecords
               /\ \E n \in Sending : Pays(r, n)
         /\ \/ ExpirationRecords' = ExpirationRecords
            \/ /\ step[r] = "record_expiration" /\ (ListGoes(r, work[r].todo) \/ Quits(r))
               /\ ledger' = ledger /\ deductions' = deductions
               /\ \E t : /\ ExpirationRecords' = ExpirationRecords \cup {t}
                         /\ t.by = Stamp(r) /\ t.member = work[r].member
                         /\ t.stars = work[r].stars
<1>1. CASE step[r] \notin ExpirationRequest
  BY <1>1, RunsApart
<1>2. CASE step[r] \in ExpirationRequest
  <2>0. purged' = purged
    BY RunLeaves
  <2>1. CASE txns' = txns
    <3>1. ExpirationRecords' = ExpirationRecords
      BY <2>0, <2>1 DEF ExpirationRecords, History
    <3>2. CASE deductions' = deductions
      BY <3>1, <3>2
    <3>3. CASE deductions' # deductions
      <4>1. runAttempt'[r] = runAttempt[r] /\ \E n \in Sending : Pays(r, n)
        BY <1>2, <3>3, ExpirationCases
      <4> QED BY <3>1, <4>1
    <3> QED BY <3>2, <3>3
  <2>2. CASE txns' # txns
    <3>1. /\ step[r] = "record_expiration" /\ (ListGoes(r, work[r].todo) \/ Quits(r))
          /\ UNCHANGED <<ledger, deductions>>
          /\ \E t \in Transaction :
               /\ txns' = txns \cup {t} /\ t.type = "EXPIRATION"
               /\ t.by = Stamp(r) /\ t.member = work[r].member /\ t.stars = work[r].stars
      BY <1>2, <2>2, ExpirationCases DEF Pays
    <3>2. PICK t \in Transaction :
            /\ txns' = txns \cup {t} /\ t.type = "EXPIRATION"
            /\ t.by = Stamp(r) /\ t.member = work[r].member /\ t.stars = work[r].stars
      BY <3>1
    <3>3. ExpirationRecords' = ExpirationRecords \cup {t}
      BY <2>0, <3>2 DEF ExpirationRecords, History
    <3> QED BY <3>1, <3>2, <3>3
  <2> QED BY <2>1, <2>2
<1> QED BY <1>1, <1>2

\* Deductions are not forgotten.
LEMMA DeductionsGrow ==
  ASSUME SystemInv, EntriesInv, [SystemNext]_systemVars
  PROVE  deductions \subseteq deductions'
BY QuietForExpirations, ExpirationWrites DEF Pays

\* How a run comes to, or stays at, the requests between a deduction and its record.
LEMMA ExpirationHolds ==
  ASSUME SystemInv, NEW r \in Runs, RunAction(r),
         step'[r] \in {"delete_star_ledger_entries", "record_expiration"}
  PROVE  /\ step[r] \in {"deduct", "delete_star_ledger_entries"}
         /\ runAttempt'[r] = runAttempt[r]
         /\ SameMember(r) /\ work'[r].stars = work[r].stars
         /\ step[r] = "delete_star_ledger_entries" =>
              ledger' = ledger \ {b \in (IF step'[r] = "record_expiration" THEN work[r].entries
                                           ELSE work[r].entries \ work'[r].entries) :
                                    b.member = work[r].member}
<1>1. step[r] \in ExpirationRequest
  BY RunsApart DEF MemberExpiration
<1>2. ~Quits(r) /\ \A todo : ~ListGoes(r, todo)
  BY DEF Quits, ListGoes
<1>3. \A n : Pays(r, n) => step[r] = "deduct" /\ SameMember(r) /\ work'[r].stars = work[r].stars
  BY DEF Pays
<1> HIDE DEF Quits
<1> QED BY <1>1, <1>2, <1>3, ExpirationCases

\* A run leaves these requests for the next member with a record, or breaks off.
LEMMA ExpirationLeaves ==
  ASSUME SystemInv, NEW r \in Runs, RunAction(r),
         step[r] \in {"delete_star_ledger_entries", "record_expiration"}
  PROVE  /\ runAttempt'[r] = runAttempt[r]
         /\ \/ Quits(r)
            \/ /\ step'[r] \in {"delete_star_ledger_entries", "record_expiration"}
               /\ SameMember(r)
            \/ /\ step[r] = "record_expiration"
               /\ \E t \in ExpirationRecords' :
                    t.by = Stamp(r) /\ t.member = work[r].member /\ t.stars = work[r].stars
<1>1. step[r] \in ExpirationRequest /\ \A n : ~Pays(r, n)
  BY DEF ExpirationRequest, Pays
<1>2. runAttempt'[r] = runAttempt[r]
  BY <1>1, ExpirationCases
<1>3. CASE Quits(r)
  BY <1>2, <1>3
<1>4. CASE ~Quits(r) /\ step[r] = "delete_star_ledger_entries"
  BY <1>1, <1>2, <1>4, ExpirationCases
<1>5. CASE ~Quits(r) /\ step[r] = "record_expiration"
  <2>1. \E t \in Transaction :
          /\ txns' = txns \cup {t} /\ t.type = "EXPIRATION"
          /\ t.by = Stamp(r) /\ t.member = work[r].member /\ t.stars = work[r].stars
    BY <1>1, <1>5, ExpirationCases
  <2>2. PICK t \in Transaction :
          /\ txns' = txns \cup {t} /\ t.type = "EXPIRATION"
          /\ t.by = Stamp(r) /\ t.member = work[r].member /\ t.stars = work[r].stars
    BY <2>1
  <2>3. t \in ExpirationRecords'
    BY <2>2 DEF ExpirationRecords, History
  <2> QED BY <1>2, <1>5, <2>2, <2>3
<1> QED BY <1>3, <1>4, <1>5

\* The records of expirations are those that tell whether one is recorded.
LEMMA RecordedIsListed ==
  ASSUME NEW x
  PROVE  /\ RecordedExpiration(x) <=>
              /\ x.sending = 0
              /\ \E t \in ExpirationRecords :
                   t.by = x.by /\ t.member = x.member /\ t.stars = x.stars
         /\ RecordedExpiration(x)' <=>
              /\ x.sending = 0
              /\ \E t \in ExpirationRecords' :
                   t.by = x.by /\ t.member = x.member /\ t.stars = x.stars
BY DEF RecordedExpiration, ExpirationRecords

\* A deduction no run knows of is never on record.
LEMMA UnansweredIsBroken ==
  ASSUME NEW x, x.sending # 0
  PROVE  BrokenOff(x) /\ BrokenOff(x)'
BY DEF BrokenOff, RecordedExpiration, StillAt

\* An expiration that broke off stays so: nobody goes on with it or records it.
LEMMA BrokenStays ==
  ASSUME SystemInv, EntriesInv, ExpirationInv, [SystemNext]_systemVars,
         NEW x \in deductions, BrokenOff(x)
  PROVE  BrokenOff(x)'
<1>0. ~RecordedExpiration(x) /\ ~StillAt(x)
  BY DEF BrokenOff
<1>1. CASE /\ UNCHANGED <<deductions, step, work, outcome, runAttempt>>
           /\ ExpirationRecords' = ExpirationRecords
  <2>1. ~RecordedExpiration(x)'
    BY <1>0, <1>1, RecordedIsListed
  <2>2. ~StillAt(x)'
    BY <1>0, <1>1 DEF StillAt, Stamp
  <2> QED BY <2>1, <2>2 DEF BrokenOff
<1>2. CASE \E r \in Runs : RunAction(r)
  <2>0. PICK r \in Runs : RunAction(r)
    BY <1>2
  <2>1. ~RecordedExpiration(x)'
    <3>1. CASE ExpirationRecords' = ExpirationRecords \/ x.sending # 0
      BY <1>0, <3>1, RecordedIsListed
    <3>2. CASE ExpirationRecords' # ExpirationRecords /\ x.sending = 0
      <4>1. step[r] = "record_expiration"
        BY <2>0, <3>2, ExpirationWrites
      <4>2. PICK t : /\ ExpirationRecords' = ExpirationRecords \cup {t}
                     /\ t.by = Stamp(r) /\ t.member = work[r].member
        BY <2>0, <3>2, ExpirationWrites
      <4>3. ~(t.by = x.by /\ t.member = x.member)
        BY <1>0, <3>2, <4>1, <4>2 DEF StillAt
      <4> QED BY <1>0, <4>2, <4>3, RecordedIsListed
    <3> QED BY <3>1, <3>2
  <2>2. ASSUME NEW q \in Runs, x.by = Stamp(q)', x.sending = 0,
               step'[q] \in {"delete_star_ledger_entries", "record_expiration"},
               work'[q].member = x.member
        PROVE  FALSE
    <3>1. CASE q # r
      <4>1. step'[q] = step[q] /\ work'[q] = work[q] /\ runAttempt'[q] = runAttempt[q]
        BY <2>0, <3>1, OtherRunsStay
      <4> QED BY <1>0, <2>2, <4>1 DEF StillAt, Stamp
    <3>2. CASE q = r
      <4>1. /\ step[r] \in {"deduct", "delete_star_ledger_entries"}
            /\ runAttempt'[r] = runAttempt[r] /\ work'[r].member = work[r].member
        BY <2>0, <2>2, <3>2, ExpirationHolds DEF SameMember
      <4>2. x.by = Stamp(r) /\ x.member = work[r].member
        BY <2>2, <3>2, <4>1 DEF Stamp
      <4>3. CASE step[r] = "delete_star_ledger_entries"
        BY <1>0, <2>2, <4>2, <4>3 DEF StillAt
      <4>4. CASE step[r] = "deduct"
        <5>1. x \in MadeBy(r) /\ TakesTurns(r)
          BY <4>2 DEF MadeBy, ExpirationInv
        <5>2. x.sending \in 1..work[r].unanswered
          BY <4>2, <4>4, <5>1 DEF TakesTurns, MemberExpiration
        <5>3. \A k : 0 \notin 1..k
          OBVIOUS
        <5> QED BY <2>2, <5>2, <5>3
      <4> QED BY <4>1, <4>3, <4>4
    <3> QED BY <3>1, <3>2
  <2>3. ~StillAt(x)'
    BY <2>2 DEF StillAt
  <2> QED BY <2>1, <2>3 DEF BrokenOff
<1> QED BY <1>1, <1>2, QuietForExpirations

\* A deduction comes to be broken off when its attempt quits before the record.
LEMMA BreaksOff ==
  ASSUME SystemInv, EntriesInv, ExpirationInv, [SystemNext]_systemVars,
         NEW x \in deductions', x.sending = 0, BrokenOff(x)'
  PROVE  /\ x \in deductions
         /\ \/ BrokenOff(x)
            \/ \E r \in Runs :
                 /\ RunAction(r) /\ Quits(r) /\ runAttempt'[r] = runAttempt[r]
                 /\ step[r] \in {"delete_star_ledger_entries", "record_expiration"}
                 /\ x.by = Stamp(r) /\ x.member = work[r].member
<1>0. ~RecordedExpiration(x)' /\ ~StillAt(x)'
  BY DEF BrokenOff
<1>1. CASE /\ UNCHANGED <<deductions, step, work, outcome, runAttempt>>
           /\ ExpirationRecords' = ExpirationRecords
  <2>1. ~RecordedExpiration(x)
    BY <1>0, <1>1, RecordedIsListed
  <2>2. ~StillAt(x)
    BY <1>0, <1>1 DEF StillAt, Stamp
  <2> QED BY <1>1, <2>1, <2>2 DEF BrokenOff
<1>2. CASE \E r \in Runs : RunAction(r)
  <2>0. PICK r \in Runs : RunAction(r)
    BY <1>2
  <2>1. x \in deductions
    <3>1. CASE deductions' = deductions
      BY <3>1
    <3>2. CASE deductions' # deductions /\ x \notin deductions
      <4>1. runAttempt'[r] = runAttempt[r] /\ \E n \in Sending : Pays(r, n)
        BY <2>0, <3>2, ExpirationWrites
      <4>2. PICK n \in Sending : Pays(r, n)
        BY <4>1
      <4>3. x = Taken(r, n)
        BY <3>2, <4>2 DEF Pays
      <4>4. step'[r] = "delete_star_ledger_entries"
        BY <4>2, <4>3, TakenFields DEF Pays
      <4>5. x.by = Stamp(r)' /\ work'[r].member = x.member
        BY <4>1, <4>2, <4>3, TakenFields DEF Stamp, Pays, SameMember
      <4> QED BY <1>0, <4>4, <4>5 DEF StillAt
    <3> QED BY <3>1, <3>2
  <2>2. SUFFICES ASSUME ~BrokenOff(x)
                 PROVE  /\ Quits(r) /\ runAttempt'[r] = runAttempt[r]
                        /\ step[r] \in {"delete_star_ledger_entries", "record_expiration"}
                        /\ x.by = Stamp(r) /\ x.member = work[r].member
    BY <2>0, <2>1
  <2>3. ~RecordedExpiration(x)
    <3>1. ExpirationRecords \subseteq ExpirationRecords'
      BY <2>0, ExpirationWrites
    <3> QED BY <1>0, <3>1, RecordedIsListed
  <2>4. PICK q \in Runs :
          /\ x.by = Stamp(q)
          /\ step[q] \in {"delete_star_ledger_entries", "record_expiration"}
          /\ work[q].member = x.member
    BY <2>2, <2>3 DEF BrokenOff, StillAt
  <2>5. q = r
    <3>1. CASE q # r
      <4>1. step'[q] = step[q] /\ work'[q] = work[q] /\ runAttempt'[q] = runAttempt[q]
        BY <2>0, <3>1, OtherRunsStay
      <4> QED BY <1>0, <2>4, <4>1 DEF StillAt, Stamp
    <3> QED BY <3>1
  <2>6. runAttempt'[r] = runAttempt[r]
    BY <2>0, <2>4, <2>5, ExpirationLeaves
  <2>7. ~(step'[r] \in {"delete_star_ledger_entries", "record_expiration"} /\ SameMember(r))
    <3>1. SUFFICES ASSUME step'[r] \in {"delete_star_ledger_entries", "record_expiration"},
                          work'[r].member = work[r].member
                   PROVE  FALSE
      BY DEF SameMember
    <3>2. x.by = Stamp(r)' /\ work'[r].member = x.member
      BY <2>4, <2>5, <2>6, <3>1 DEF Stamp
    <3> QED BY <1>0, <3>1, <3>2 DEF StillAt
  <2>8. ~\E t \in ExpirationRecords' :
           t.by = Stamp(r) /\ t.member = work[r].member /\ t.stars = work[r].stars
    <3>1. PICK y \in MadeBy(r) :
            y.member = work[r].member /\ y.stars = work[r].stars /\ y.sending = 0
      BY <2>4, <2>5 DEF ExpirationInv, HoldsDeduction
    <3>2. y \in deductions /\ y.by = Stamp(r)
      BY <3>1 DEF MadeBy
    <3>3. y = x
      BY <2>1, <2>4, <2>5, <3>1, <3>2 DEF ExpirationInv, OncePerMember
    <3> QED BY <1>0, <2>4, <2>5, <3>1, <3>3, RecordedIsListed
  <2> QED BY <2>0, <2>4, <2>5, <2>6, <2>7, <2>8, ExpirationLeaves
<1> QED BY <1>1, <1>2, QuietForExpirations

-----------------------------------------------------------------------------
\* A deduction is stamped by the attempt that makes it, and later attempts have
\* other stamps.
LEMMA DeductionsStampedStep ==
  ASSUME SystemInv, DayInv, EntriesInv, ExpirationInv, [SystemNext]_systemVars
  PROVE  DeductionsStamped'
<1>0. DeductionsStamped
  BY DEF ExpirationInv
<1>1. CASE UNCHANGED <<deductions, step, work, outcome, runAttempt>>
  BY <1>0, <1>1 DEF DeductionsStamped
<1>2. CASE \E r \in Runs : RunAction(r)
  <2>0. PICK r \in Runs : RunAction(r)
    BY <1>2
  <2>1. \A q \in Runs : \A n \in 1..MaxRunAttempts : n <= runAttempt[q] => n <= runAttempt'[q]
    <3>1. runAttempt \in [Runs -> 0..MaxRunAttempts] /\ MaxRunAttempts \in Nat
      BY RunAssumption DEF SystemInv, RunInv, RunTypes
    <3> QED BY <2>0, <3>1, RunLeaves
  <2>2. \A x \in deductions :
          /\ \E q \in Runs, n \in 1..MaxRunAttempts :
               x.by = <<q, n>> /\ n <= runAttempt'[q] /\ JobOf[q] = "expiration"
          /\ \A b \in x.entries : b.member = x.member
    BY <1>0, <2>1 DEF DeductionsStamped
  <2>3. CASE deductions' = deductions
    BY <2>2, <2>3 DEF DeductionsStamped
  <2>4. CASE deductions' # deductions
    <3>0. PICK n \in Sending : runAttempt'[r] = runAttempt[r] /\ Pays(r, n)
      BY <2>0, <2>4, ExpirationWrites
    <3>1. /\ step[r] = "deduct" /\ runAttempt'[r] = runAttempt[r]
          /\ deductions' = deductions \cup {Taken(r, n)}
      BY <3>0 DEF Pays
    <3>2. Active(r) /\ JobOf[r] = "expiration"
      BY <3>1 DEF SystemInv, RunInv, RunControl, Active, Ended, ExpirationRequest
    <3>3. runAttempt[r] \in 1..MaxRunAttempts
      BY <3>2, StampsOfRuns
    <3>4. Stamp(r) = <<r, runAttempt[r]>> /\ runAttempt[r] <= runAttempt'[r]
      BY <3>1, <3>3 DEF Stamp
    <3>5. \A b \in work[r].entries : b.member = work[r].member
      BY <3>1 DEF DayInv, HoldsOldEntries
    <3>6. ASSUME NEW x \in deductions'
          PROVE  /\ \E q \in Runs, k \in 1..MaxRunAttempts :
                      x.by = <<q, k>> /\ k <= runAttempt'[q] /\ JobOf[q] = "expiration"
                 /\ \A b \in x.entries : b.member = x.member
      <4>1. CASE x \in deductions
        BY <2>2, <4>1
      <4>2. CASE x = Taken(r, n)
        BY <3>2, <3>3, <3>4, <3>5, <4>2, TakenFields
      <4> QED BY <3>1, <4>1, <4>2
    <3> QED BY <3>6 DEF DeductionsStamped
  <2> QED BY <2>3, <2>4
<1> QED BY <1>1, <1>2, QuietForExpirations

\* An attempt goes through its list without coming back to a member.
LEMMA TakesTurnsStep ==
  ASSUME SystemInv, EntriesInv, ExpirationInv, [SystemNext]_systemVars, NEW q \in Runs
  PROVE  TakesTurns(q)'
<1>0. TakesTurns(q) /\ DeductionsStamped
  BY DEF ExpirationInv
<1>1. CASE UNCHANGED <<deductions, step, work, outcome, runAttempt>>
  BY <1>0, <1>1 DEF TakesTurns, MadeBy, Stamp
<1>2. CASE \E r \in Runs : RunAction(r)
  <2>0. PICK r \in Runs : RunAction(r)
    BY <1>2
  <2>1. CASE q # r
    <3>1. /\ step'[q] = step[q] /\ work'[q] = work[q] /\ runAttempt'[q] = runAttempt[q]
          /\ Stamp(q)' = Stamp(q) /\ Stamp(q) # Stamp(r)
      BY <2>0, <2>1, OtherRunsStay DEF Stamp
    <3>2. MadeBy(q)' = MadeBy(q)
      <4>1. CASE deductions' = deductions
        BY <3>1, <4>1 DEF MadeBy
      <4>2. CASE deductions' # deductions
        <5>1. \E x : x.by = Stamp(r) /\ deductions' = deductions \cup {x}
          BY <2>0, <4>2, ExpirationWrites, TakenFields DEF Pays
        <5> QED BY <3>1, <5>1 DEF MadeBy
      <4> QED BY <4>1, <4>2
    <3> QED BY <1>0, <3>1, <3>2 DEF TakesTurns
  <2>2. CASE q = r /\ step[r] \notin ExpirationRequest
    <3>1. step'[r] \notin MemberExpiration /\ deductions' = deductions
      BY <2>0, <2>2, RunsApart
    <3>2. ASSUME step'[r] = "query_members_by_tier" PROVE MadeBy(r)' = {}
      <4>1. step[r] = "waiting" /\ runAttempt'[r] = runAttempt[r] + 1
        BY <2>0, <2>2, <3>2, RunsApart
      <4>2. runAttempt[r] \in Nat
        <5>1. runAttempt[r] \in 0..MaxRunAttempts
          BY DEF SystemInv, RunInv, RunTypes
        <5> QED BY <5>1
      <4>3. ASSUME NEW x \in deductions, x.by = <<r, runAttempt'[r]>> PROVE FALSE
        <5>1. PICK p \in Runs, n \in 1..MaxRunAttempts : x.by = <<p, n>> /\ n <= runAttempt[p]
          BY <1>0 DEF DeductionsStamped
        <5> QED BY <4>1, <4>2, <4>3, <5>1
      <4> QED BY <3>1, <4>3 DEF MadeBy, Stamp
    <3> QED BY <2>2, <3>1, <3>2 DEF TakesTurns
  <2>3. CASE q = r /\ step[r] \in ExpirationRequest
    <3>0. Stamp(r)' = Stamp(r)
      BY <2>0, <2>3, ExpirationCases DEF Stamp
    <3>1. step'[r] # "query_members_by_tier"
      BY <2>0, <2>3, RunGoes DEF Starts, Stops, Finishes, ExpirationGoes, EvaluationGoes,
         MemberExpiration, MemberEvaluation, Active, Ended, ExpirationRequest, EvaluationRequest,
         RemovalRequest
    <3>2. CASE \A n \in Sending : ~Pays(r, n)
      <4>0. deductions' = deductions
        BY <2>0, <2>3, <3>2, ExpirationCases
      <4>1. MadeBy(r)' = MadeBy(r)
        BY <3>0, <4>0 DEF MadeBy
      <4>2. CASE \E todo \in SUBSET Members :
                   /\ ListGoes(r, todo)
                   /\ step[r] \in MemberExpiration => todo = work[r].todo
        <5>1. PICK todo \in SUBSET Members :
                   /\ ListGoes(r, todo)
                   /\ step[r] \in MemberExpiration => todo = work[r].todo
          BY <4>2
        <5>2. \A x \in MadeBy(r) : x.member \notin todo
          BY <1>0, <2>3, <5>1 DEF TakesTurns, ExpirationRequest, MemberExpiration
        <5>3. CASE step'[r] = "done"
          BY <2>3, <5>3 DEF TakesTurns, MemberExpiration
        <5>4. CASE /\ step'[r] = "get_star_ledger_entries"
                   /\ work'[r].member \in todo /\ work'[r].todo = todo \ {work'[r].member}
          BY <2>3, <4>1, <5>2, <5>4 DEF TakesTurns
        <5> QED BY <5>1, <5>3, <5>4 DEF ListGoes
      <4>3. CASE Quits(r)
        BY <2>3, <4>3 DEF Quits, TakesTurns, MemberExpiration
      <4>4. CASE /\ SameMember(r) /\ step[r] \in MemberExpiration
                 /\ step'[r] = "deduct" => step[r] = "get_star_ledger_entries"
                 /\ step'[r] \in {"deduct", "delete_star_ledger_entries", "record_expiration"}
        BY <1>0, <2>3, <4>1, <4>4 DEF TakesTurns, SameMember
      <4>5. step[r] = "query_members_by_tier" => step[r] \notin MemberExpiration
        BY DEF MemberExpiration
      <4>6. step[r] \in {"get_star_ledger_entries", "deduct", "delete_star_ledger_entries",
                         "record_expiration"} => step[r] \in MemberExpiration
        BY DEF MemberExpiration
      <4>7. step[r] \in {"get_star_ledger_entries", "record_expiration"} =>
              work[r].todo \in SUBSET Members
        BY WorkFields DEF SystemInv, RunInv, RunLists, MemberExpiration
      <4> HIDE DEF Quits, ListGoes, SameMember
      <4>8. CASE \/ Quits(r)
                 \/ /\ step[r] = "query_members_by_tier"
                    /\ \E todo \in SUBSET Members : ListGoes(r, todo)
                 \/ /\ step[r] \in {"get_star_ledger_entries", "record_expiration"}
                    /\ ListGoes(r, work[r].todo)
        BY <4>2, <4>3, <4>5, <4>7, <4>8
      <4>9. CASE \/ step[r] = "get_star_ledger_entries" /\ step'[r] = "deduct" /\ SameMember(r)
                 \/ /\ step[r] = "delete_star_ledger_entries" /\ SameMember(r)
                    /\ step'[r] \in {"record_expiration", "delete_star_ledger_entries"}
        BY <4>4, <4>6, <4>9
      <4> QED BY <2>0, <2>3, <3>2, <4>8, <4>9, ExpirationCases
    <3>3. ASSUME NEW n \in Sending, Pays(r, n) PROVE TakesTurns(q)'
      <4>1. /\ step[r] = "deduct" /\ work'[r].member = work[r].member
            /\ work'[r].todo = work[r].todo /\ deductions' = deductions \cup {Taken(r, n)}
        BY <3>3 DEF Pays, SameMember
      <4>2. \A x \in MadeBy(r)' : x \in MadeBy(r) \/ x = Taken(r, n)
        BY <3>0, <4>1 DEF MadeBy
      <4>3. \A x \in MadeBy(r)' : x \in MadeBy(r) \/ (x.member = work[r].member /\ x.sending = n)
        BY <4>2, TakenFields
      <4>4. /\ work[r].member \notin work[r].todo
            /\ \A x \in MadeBy(r) :
                 /\ x.member \notin work[r].todo
                 /\ x.member = work[r].member => x.sending \in 1..work[r].unanswered
        BY <1>0, <2>3, <4>1 DEF TakesTurns, MemberExpiration
      <4>5. CASE step'[r] = "delete_star_ledger_entries"
        BY <2>3, <4>1, <4>3, <4>4, <4>5 DEF TakesTurns
      <4>6. CASE /\ n = work[r].unanswered + 1 /\ work[r].unanswered \in Nat
                 /\ step'[r] = "deduct" /\ work'[r].unanswered = n
        <5>1. n \in 1..n /\ \A k : k \in 1..work[r].unanswered => k \in 1..n
          BY <4>6
        <5>2. \A x \in MadeBy(r)' :
                /\ x.member \notin work[r].todo
                /\ x.member = work[r].member => x.sending \in 1..n
          BY <4>3, <4>4, <5>1
        <5> QED BY <2>3, <4>1, <4>4, <4>6, <5>2 DEF TakesTurns
      <4> QED BY <3>3, <4>5, <4>6 DEF Pays
    <3> QED BY <3>2, <3>3
  <2> QED BY <2>1, <2>2, <2>3
<1> QED BY <1>1, <1>2, QuietForExpirations

\* What the next sending takes is not among the deductions yet.
LEMMA TakenIsNew ==
  ASSUME ExpirationInv, NEW r \in Runs, step[r] = "deduct", NEW n,
         \/ n = 0
         \/ n = work[r].unanswered + 1 /\ work[r].unanswered \in Nat
  PROVE  /\ Taken(r, n) \notin deductions
         /\ \A x \in deductions :
              ~(x.by = Stamp(r) /\ x.member = work[r].member /\ x.sending = n)
<1>1. \A x \in deductions :
        x.by = Stamp(r) /\ x.member = work[r].member => x.sending \in 1..work[r].unanswered
  BY DEF ExpirationInv, TakesTurns, MadeBy, MemberExpiration
<1>2. n \notin 1..work[r].unanswered
  <2>1. \A k : 0 \notin 1..k
    OBVIOUS
  <2>2. \A k \in Nat : k + 1 \notin 1..k
    OBVIOUS
  <2> QED BY <2>1, <2>2
<1>3. \A x \in deductions : ~(x.by = Stamp(r) /\ x.member = work[r].member /\ x.sending = n)
  BY <1>1, <1>2
<1> QED BY <1>3, TakenFields

\* A sending takes stars once.
LEMMA OncePerMemberStep ==
  ASSUME SystemInv, EntriesInv, ExpirationInv, [SystemNext]_systemVars
  PROVE  OncePerMember'
<1>0. OncePerMember
  BY DEF ExpirationInv
<1>1. CASE deductions' = deductions
  BY <1>0, <1>1 DEF OncePerMember
<1>2. CASE deductions' # deductions
  <2>0. PICK r \in Runs : RunAction(r)
    BY <1>2, QuietForExpirations
  <2>1. PICK n \in Sending : Pays(r, n)
    BY <1>2, <2>0, ExpirationWrites
  <2>2. PICK y : /\ y.by = Stamp(r) /\ y.member = work[r].member /\ y.sending = n
                 /\ deductions' = deductions \cup {y}
    BY <2>1, TakenFields DEF Pays
  <2>3. \A x \in deductions :
          ~(x.by = Stamp(r) /\ x.member = work[r].member /\ x.sending = n)
    BY <2>1, TakenIsNew DEF Pays
  <2> QED BY <1>0, <2>2, <2>3 DEF OncePerMember
<1> QED BY <1>1, <1>2

\* Between deduction and record, what is left of the entries is what the attempt
\* still has to delete.
LEMMA HoldsDeductionStep ==
  ASSUME SystemInv, DayInv, EntriesInv, ExpirationInv, [SystemNext]_systemVars, NEW q \in Runs
  PROVE  HoldsDeduction(q)'
<1>0. HoldsDeduction(q) /\ DeductionsStamped
  BY DEF ExpirationInv
<1>a. deductions \subseteq deductions'
  BY DeductionsGrow
<1>b. CASE step'[q] = step[q] /\ work'[q] = work[q] /\ runAttempt'[q] = runAttempt[q]
  <2>1. SUFFICES ASSUME step'[q] \in {"delete_star_ledger_entries", "record_expiration"}
                 PROVE  \E x \in MadeBy(q)' :
                          /\ x.member = work'[q].member /\ x.stars = work'[q].stars
                          /\ x.sending = 0
                          /\ x.entries \cap ledger' \subseteq
                               (IF step'[q] = "record_expiration" THEN {} ELSE work'[q].entries)
    BY DEF HoldsDeduction
  <2>2. PICK x \in MadeBy(q) :
          /\ x.member = work[q].member /\ x.stars = work[q].stars /\ x.sending = 0
          /\ x.entries \cap ledger \subseteq
               (IF step[q] = "record_expiration" THEN {} ELSE work[q].entries)
    BY <1>0, <1>b, <2>1 DEF HoldsDeduction
  <2>3. x \in deductions /\ x \in MadeBy(q)'
    BY <1>a, <1>b, <2>2 DEF MadeBy, Stamp
  <2>4. x.entries \cap ledger' \subseteq x.entries \cap ledger
    BY <2>3, DeductedStayGone
  <2> QED BY <1>b, <2>2, <2>3, <2>4
<1>1. CASE UNCHANGED <<deductions, step, work, outcome, runAttempt>>
  BY <1>1, <1>b
<1>2. CASE \E r \in Runs : RunAction(r)
  <2>0. PICK r \in Runs : RunAction(r)
    BY <1>2
  <2>1. CASE q # r
    BY <1>b, <2>0, <2>1, OtherRunsStay
  <2>2. CASE q = r
    <3>1. SUFFICES ASSUME step'[r] \in {"delete_star_ledger_entries", "record_expiration"}
                   PROVE  \E x \in MadeBy(r)' :
                            /\ x.member = work'[r].member /\ x.stars = work'[r].stars
                            /\ x.sending = 0
                            /\ x.entries \cap ledger' \subseteq
                                 (IF step'[r] = "record_expiration" THEN {} ELSE work'[r].entries)
      BY <2>2 DEF HoldsDeduction
    <3>2. /\ step[r] \in {"deduct", "delete_star_ledger_entries"}
          /\ Stamp(r)' = Stamp(r)
          /\ work'[r].member = work[r].member /\ work'[r].stars = work[r].stars
      BY <2>0, <3>1, ExpirationHolds DEF SameMember, Stamp
    <3>3. CASE step[r] = "deduct"
      <4>0. PICK n \in Sending : Pays(r, n)
        <5>1. step[r] \in ExpirationRequest /\ ~Quits(r)
          BY <3>1, <3>3 DEF ExpirationRequest, Quits
        <5> HIDE DEF Quits
        <5> QED BY <2>0, <3>3, <5>1, ExpirationCases
      <4>1. /\ step'[r] = "delete_star_ledger_entries" /\ n = 0
            /\ work'[r].entries = work[r].entries
        BY <3>1, <4>0 DEF Pays
      <4>2. PICK y : /\ y.by = Stamp(r) /\ y.member = work[r].member /\ y.stars = work[r].stars
                     /\ y.entries = work[r].entries /\ y.sending = 0
                     /\ deductions' = deductions \cup {y}
        BY <4>0, <4>1, TakenFields DEF Pays
      <4>3. y \in MadeBy(r)'
        BY <3>2, <4>2 DEF MadeBy
      <4> QED BY <3>2, <4>1, <4>2, <4>3
    <3>4. CASE step[r] = "delete_star_ledger_entries"
      <4>1. PICK x \in MadeBy(r) :
              /\ x.member = work[r].member /\ x.stars = work[r].stars /\ x.sending = 0
              /\ x.entries \cap ledger \subseteq work[r].entries
        BY <1>0, <2>2, <3>4 DEF HoldsDeduction
      <4>2. x \in deductions /\ x \in MadeBy(r)'
        BY <1>a, <3>2, <4>1 DEF MadeBy
      <4>3. \A b \in x.entries : b.member = work[r].member
        BY <1>0, <4>1, <4>2 DEF DeductionsStamped
      <4>4. ledger' = ledger \ {b \in (IF step'[r] = "record_expiration" THEN work[r].entries
                                         ELSE work[r].entries \ work'[r].entries) :
                                  b.member = work[r].member}
        BY <2>0, <3>1, <3>4, ExpirationHolds
      <4>5. CASE step'[r] = "record_expiration"
        BY <3>2, <4>1, <4>2, <4>3, <4>4, <4>5
      <4>6. CASE step'[r] # "record_expiration"
        BY <3>2, <4>1, <4>2, <4>3, <4>4, <4>6
      <4> QED BY <4>5, <4>6
    <3> QED BY <3>2, <3>3, <3>4
  <2> QED BY <2>1, <2>2
<1> QED BY <1>1, <1>2, QuietForExpirations

-----------------------------------------------------------------------------
\* A fault stays known: the attempt that broke off is over for good.
LEMMA FaultKnownStep ==
  ASSUME SystemInv, EntriesInv, ExpirationInv, [SystemNext]_systemVars
  PROVE  FaultKnown'
<1>0. FaultKnown /\ DeductionsStamped
  BY DEF ExpirationInv
<1>1. SUFFICES ASSUME NEW x \in deductions', NEW r \in Runs, NEW n \in 1..MaxRunAttempts,
                      x.by = <<r, n>>, x.sending = 0, BrokenOff(x)'
               PROVE  \/ runAttempt'[r] > n
                      \/ step'[r] \in {"waiting", "dead letter"}
                      \/ outcome'[r].status = "error"
  BY DEF FaultKnown
<1>2. CASE /\ x \in deductions /\ BrokenOff(x)
  <2>1. \/ runAttempt[r] > n
        \/ step[r] \in {"waiting", "dead letter"}
        \/ outcome[r].status = "error"
    BY <1>0, <1>1, <1>2 DEF FaultKnown
  <2>2. n <= runAttempt[r]
    BY <1>0, <1>1, <1>2 DEF DeductionsStamped
  <2>3. CASE UNCHANGED <<deductions, step, work, outcome, runAttempt>>
    BY <2>1, <2>3
  <2>4. CASE \E q \in Runs : RunAction(q)
    <3>0. PICK q \in Runs : RunAction(q)
      BY <2>4
    <3>1. CASE q # r
      BY <2>1, <3>0, <3>1, OtherRunsStay
    <3>2. CASE q = r
      <4>0. /\ runAttempt[r] \in Int /\ n \in Int
            /\ step[r] \in {"waiting"} \cup Ended => ~Active(r)
            /\ outcome[r].status = "error" => step[r] = "done"
        <5>1. runAttempt[r] \in 0..MaxRunAttempts /\ MaxRunAttempts \in Nat
          BY RunAssumption DEF SystemInv, RunInv, RunTypes
        <5> QED BY <5>1 DEF SystemInv, RunInv, RunControl, Active
      <4>1. CASE Starts(r)
        <5>1. runAttempt'[r] = runAttempt[r] + 1
          BY <4>1 DEF Starts
        <5>2. \A k, l \in Int : l <= k => k + 1 > l
          OBVIOUS
        <5>3. runAttempt'[r] > n
          BY <2>2, <4>0, <5>1, <5>2
        <5> QED BY <5>3
      <4>2. CASE Stops(r)
        BY <4>2 DEF Stops
      <4>3. CASE Finishes(r) \/ ExpirationGoes(r) \/ EvaluationGoes(r)
        <5>1. Active(r) /\ runAttempt'[r] = runAttempt[r]
          BY <4>3 DEF Finishes, ExpirationGoes, EvaluationGoes, Active, Ended,
             ExpirationRequest, EvaluationRequest, RemovalRequest
        <5>2. runAttempt[r] > n
          BY <2>1, <4>0, <5>1 DEF Ended
        <5> QED BY <5>1, <5>2
      <4> QED BY <3>0, <3>2, <4>1, <4>2, <4>3, RunGoes
    <3> QED BY <3>1, <3>2
  <2> QED BY <2>3, <2>4, QuietForExpirations
<1>3. CASE \E q \in Runs : Quits(q) /\ x.by = Stamp(q)
  <2>1. PICK q \in Runs : Quits(q) /\ x.by = Stamp(q)
    BY <1>3
  <2>2. q = r
    BY <1>1, <2>1 DEF Stamp
  <2> QED BY <2>1, <2>2 DEF Quits
<1> QED BY <1>1, <1>2, <1>3, BreaksOff

\* An attempt that broke off does not go on to break off again.
LEMMA OneBrokenOffStep ==
  ASSUME SystemInv, EntriesInv, ExpirationInv, [SystemNext]_systemVars
  PROVE  OneBrokenOff'
<1>0. OneBrokenOff /\ FaultKnown /\ OncePerMember
  BY DEF ExpirationInv
<1>1. ASSUME NEW x \in deductions, Lost(x), NEW r \in Runs, x.by = Stamp(r),
             step[r] \in {"delete_star_ledger_entries", "record_expiration"}
      PROVE  FALSE
  <2>1. Active(r)
    BY <1>1 DEF Active, Ended
  <2>2. runAttempt[r] \in 1..MaxRunAttempts /\ x.by = <<r, runAttempt[r]>>
    BY <1>1, <2>1, StampsOfRuns DEF Stamp
  <2>3. \/ runAttempt[r] > runAttempt[r]
        \/ step[r] \in {"waiting", "dead letter"}
        \/ outcome[r].status = "error"
    BY <1>0, <1>1, <2>2 DEF FaultKnown, Lost
  <2>4. outcome[r].status = "error" => step[r] = "done"
    BY DEF SystemInv, RunInv, RunControl
  <2>5. ~(runAttempt[r] > runAttempt[r])
    <3>1. \A k \in Int : ~(k > k)
      OBVIOUS
    <3> QED BY <2>2, <3>1
  <2>6. step[r] # "done" /\ step[r] \notin {"waiting", "dead letter"}
    BY <1>1
  <2> QED BY <2>3, <2>4, <2>5, <2>6
<1>2. SUFFICES ASSUME NEW x \in deductions', NEW y \in deductions',
                      x.sending = 0, y.sending = 0,
                      BrokenOff(x)', BrokenOff(y)', x.by = y.by
               PROVE  x = y
  BY DEF OneBrokenOff, Lost
<1>3. x \in deductions /\ y \in deductions
  BY <1>2, BreaksOff
<1>4. CASE Lost(x) /\ Lost(y)
  BY <1>0, <1>2, <1>3, <1>4 DEF OneBrokenOff
<1>5. ASSUME NEW z \in deductions', z.sending = 0, BrokenOff(z)', ~Lost(z)
      PROVE  \E r \in Runs :
               /\ step[r] \in {"delete_star_ledger_entries", "record_expiration"}
               /\ z.by = Stamp(r) /\ z.member = work[r].member
  BY <1>5, BreaksOff DEF Lost
<1>6. CASE Lost(x) /\ ~Lost(y)
  BY <1>1, <1>2, <1>3, <1>5, <1>6
<1>7. CASE ~Lost(x) /\ Lost(y)
  BY <1>1, <1>2, <1>3, <1>5, <1>7
<1>8. CASE ~Lost(x) /\ ~Lost(y)
  <2>1. PICK r \in Runs : x.by = Stamp(r) /\ x.member = work[r].member
    BY <1>2, <1>5, <1>8
  <2>2. PICK q \in Runs : y.by = Stamp(q) /\ y.member = work[q].member
    BY <1>2, <1>5, <1>8
  <2>3. r = q
    BY <1>2, <2>1, <2>2, StampsDiffer
  <2> QED BY <1>0, <1>2, <1>3, <2>1, <2>2, <2>3 DEF OncePerMember
<1> QED BY <1>4, <1>6, <1>7, <1>8

\* A record is written when the entries are gone, and they stay so.
LEMMA RecordsAreOfDeductionsStep ==
  ASSUME SystemInv, EntriesInv, ExpirationInv, [SystemNext]_systemVars
  PROVE  RecordsAreOfDeductions'
<1>0. \A t \in ExpirationRecords : \E x \in deductions :
        /\ <<x.by, x.member, x.stars>> = <<t.by, t.member, t.stars>>
        /\ x.sending = 0 /\ x.entries \cap ledger = {}
  BY DEF ExpirationInv, RecordsAreOfDeductions, ExpirationRecords
<1>1. deductions \subseteq deductions'
  BY DeductionsGrow
<1>2. ASSUME NEW x \in deductions, x.entries \cap ledger = {}
      PROVE  x \in deductions' /\ x.entries \cap ledger' = {}
  <2>1. x.entries \cap ledger' \subseteq ledger
    BY DeductedStayGone
  <2> QED BY <1>1, <1>2, <2>1
<1>3. SUFFICES ASSUME NEW t \in ExpirationRecords'
               PROVE  \E x \in deductions' :
                        /\ <<x.by, x.member, x.stars>> = <<t.by, t.member, t.stars>>
                        /\ x.sending = 0 /\ x.entries \cap ledger' = {}
  BY DEF RecordsAreOfDeductions, ExpirationRecords
<1>4. CASE t \in ExpirationRecords
  BY <1>0, <1>2, <1>4
<1>5. CASE t \notin ExpirationRecords
  <2>0. PICK r \in Runs : RunAction(r)
    BY <1>3, <1>5, QuietForExpirations
  <2>1. /\ step[r] = "record_expiration"
        /\ t.by = Stamp(r) /\ t.member = work[r].member /\ t.stars = work[r].stars
    BY <1>3, <1>5, <2>0, ExpirationWrites
  <2>2. PICK x \in MadeBy(r) :
          /\ x.member = work[r].member /\ x.stars = work[r].stars /\ x.sending = 0
          /\ x.entries \cap ledger \subseteq {}
    BY <2>1 DEF ExpirationInv, HoldsDeduction
  <2>3. x \in deductions /\ x.by = Stamp(r)
    BY <2>2 DEF MadeBy
  <2>4. x \in deductions' /\ x.entries \cap ledger' = {}
    BY <1>2, <2>2, <2>3
  <2> QED BY <2>1, <2>2, <2>3, <2>4
<1> QED BY <1>4, <1>5

\* What the ledger still shows to a run was not deducted before, or by an attempt
\* that broke off or still goes on at the same day.
LEMMA SharesWithFaultsStep ==
  ASSUME SystemInv, EntriesInv, ExpirationInv, [SystemNext]_systemVars, NEW q \in Runs
  PROVE  SharesWithFaults(q)'
<1>0. SharesWithFaults(q)
  BY DEF ExpirationInv
<1>a. ASSUME NEW r \in Runs, Active(r), NEW p \in Runs, Active(p) PROVE DayOf[r] = DayOf[p]
  BY <1>a DEF SystemInv, RunInv, RunControl
<1>1. SUFFICES ASSUME step'[q] = "deduct", NEW x \in deductions',
                      x.entries \cap work'[q].entries # {}
               PROVE  \/ BrokenOff(x)'
                      \/ \E r \in Runs \ {q} : \E n \in 1..MaxRunAttempts :
                           x.by = <<r, n>> /\ DayOf[r] = DayOf[q]
  BY DEF SharesWithFaults
<1>b. CASE x \in deductions /\ step[q] = "deduct" /\ work'[q].entries = work[q].entries
  BY <1>0, <1>1, <1>b, BrokenStays DEF SharesWithFaults
<1>2. CASE UNCHANGED <<deductions, step, work, outcome, runAttempt>>
  BY <1>1, <1>2, <1>b
<1>3. CASE \E r \in Runs : RunAction(r)
  <2>0. PICK r \in Runs : RunAction(r)
    BY <1>3
  <2>1. CASE q # r
    <3>1. step[q] = "deduct" /\ work'[q] = work[q]
      BY <1>1, <2>0, <2>1, OtherRunsStay
    <3>2. CASE x \in deductions
      BY <1>b, <3>1, <3>2
    <3>3. CASE x \notin deductions
      <4>0. PICK n \in Sending : Pays(r, n)
        BY <1>1, <2>0, <3>3, ExpirationWrites
      <4>1. step[r] = "deduct" /\ x.by = Stamp(r)
        BY <1>1, <3>3, <4>0, TakenFields DEF Pays
      <4>2. Active(r) /\ Active(q)
        BY <3>1, <4>1 DEF Active, Ended
      <4>3. x.by = <<r, runAttempt[r]>> /\ runAttempt[r] \in 1..MaxRunAttempts
        BY <4>1, <4>2, StampsOfRuns DEF Stamp
      <4> QED BY <1>a, <2>1, <4>2, <4>3
    <3> QED BY <3>2, <3>3
  <2>2. ASSUME q = r, NEW n \in Sending, Pays(r, n)
        PROVE  \/ BrokenOff(x)'
               \/ \E p \in Runs \ {q} : \E k \in 1..MaxRunAttempts :
                    x.by = <<p, k>> /\ DayOf[p] = DayOf[q]
    <3>1. CASE x \in deductions
      BY <1>b, <2>2, <3>1 DEF Pays
    <3>2. CASE x \notin deductions
      <4>1. n # 0 /\ x = Taken(r, n)
        BY <1>1, <2>2, <3>2 DEF Pays
      <4>2. x.sending # 0
        BY <4>1, TakenFields
      <4> QED BY <4>2, UnansweredIsBroken
    <3> QED BY <3>1, <3>2
  <2>3. CASE q = r /\ \A n \in Sending : ~Pays(r, n)
    <3>1. /\ step[r] = "get_star_ledger_entries"
          /\ work'[r].entries = Expired(work[r].member, today)
      <4>1. step[r] \in ExpirationRequest
        BY <1>1, <2>0, <2>3, RunsApart DEF MemberExpiration
      <4>2. ~Quits(r) /\ \A todo : ~ListGoes(r, todo)
        BY <1>1, <2>3 DEF Quits, ListGoes
      <4> HIDE DEF Quits
      <4> QED BY <1>1, <2>0, <2>3, <4>1, <4>2, ExpirationCases
    <3>2. x \in deductions
      BY <1>1, <2>0, <2>3, ExpirationWrites
    <3>3. x.entries \cap ledger # {}
      BY <1>1, <2>3, <3>1 DEF Expired, GetStarLedgerEntries
    <3>4. CASE BrokenOff(x)
      BY <3>2, <3>4, BrokenStays
    <3>5. CASE RecordedExpiration(x)
      <4>1. PICK t \in History :
              t.type = "EXPIRATION" /\ <<t.by, t.member, t.stars>> = <<x.by, x.member, x.stars>>
        BY <3>5 DEF RecordedExpiration
      <4>2. PICK y \in deductions :
              /\ <<y.by, y.member, y.stars>> = <<t.by, t.member, t.stars>>
              /\ y.sending = 0 /\ y.entries \cap ledger = {}
        BY <4>1 DEF ExpirationInv, RecordsAreOfDeductions
      <4>3. y = x
        BY <3>2, <3>5, <4>1, <4>2 DEF ExpirationInv, OncePerMember, RecordedExpiration
      <4> QED BY <3>3, <4>2, <4>3
    <3>6. CASE StillAt(x)
      <4>1. PICK p \in Runs :
              x.by = Stamp(p) /\ step[p] \in {"delete_star_ledger_entries", "record_expiration"}
        BY <3>6 DEF StillAt
      <4>2. Active(r) /\ Active(p) /\ p # r
        BY <3>1, <4>1 DEF Active, Ended
      <4>3. x.by = <<p, runAttempt[p]>> /\ runAttempt[p] \in 1..MaxRunAttempts
        BY <4>1, <4>2, StampsOfRuns DEF Stamp
      <4> QED BY <1>a, <2>3, <4>2, <4>3
    <3> QED BY <3>4, <3>5, <3>6 DEF BrokenOff
  <2> QED BY <2>1, <2>2, <2>3
<1> QED BY <1>2, <1>3, QuietForExpirations

\* So what is deducted is deducted again only after a fault, or by a run that
\* overlaps.
LEMMA ExpiresOnceStep ==
  ASSUME SystemInv, EntriesInv, ExpirationInv, [SystemNext]_systemVars
  PROVE  ExpiresOnceUnlessInterrupted'
<1>0. ExpiresOnceUnlessInterrupted
  BY DEF ExpirationInv
<1>a. deductions \subseteq deductions'
  BY DeductionsGrow
<1>1. CASE deductions' = deductions
  BY <1>0, <1>1, BrokenStays DEF ExpiresOnceUnlessInterrupted, Overlapping
<1>2. CASE deductions' # deductions
  <2>0. PICK r \in Runs : RunAction(r)
    BY <1>2, QuietForExpirations
  <2>1. PICK n \in Sending : Pays(r, n) /\ step[r] = "deduct"
    BY <1>2, <2>0, ExpirationWrites DEF Pays
  <2>2. PICK z : /\ z.by = Stamp(r) /\ z.entries = work[r].entries
                 /\ deductions' = deductions \cup {z}
    BY <2>1, TakenFields DEF Pays
  <2>3. ASSUME NEW y \in deductions, y.entries \cap z.entries # {}
        PROVE  BrokenOff(y)' \/ (Overlapping(y, z) /\ Overlapping(z, y))
    <3>1. \/ BrokenOff(y)
          \/ \E p \in Runs \ {r} : \E k \in 1..MaxRunAttempts :
               y.by = <<p, k>> /\ DayOf[p] = DayOf[r]
      BY <2>1, <2>2, <2>3 DEF ExpirationInv, SharesWithFaults
    <3>2. CASE BrokenOff(y)
      BY <3>2, BrokenStays
    <3>3. CASE \E p \in Runs \ {r} : \E k \in 1..MaxRunAttempts :
                 y.by = <<p, k>> /\ DayOf[p] = DayOf[r]
      <4>1. PICK p \in Runs \ {r}, k \in 1..MaxRunAttempts :
              y.by = <<p, k>> /\ DayOf[p] = DayOf[r]
        BY <3>3
      <4>2. y.by[1] = p /\ z.by[1] = r
        BY <2>2, <4>1 DEF Stamp
      <4> QED BY <4>1, <4>2 DEF Overlapping
    <3> QED BY <3>1, <3>2, <3>3
  <2>4. SUFFICES ASSUME NEW x \in deductions', NEW y \in deductions', x # y,
                        x.entries \cap y.entries # {}
                 PROVE  BrokenOff(x)' \/ BrokenOff(y)' \/ Overlapping(x, y)
    BY DEF ExpiresOnceUnlessInterrupted, Overlapping
  <2>5. CASE x \in deductions /\ y \in deductions
    BY <1>0, <2>4, <2>5, BrokenStays DEF ExpiresOnceUnlessInterrupted
  <2>6. CASE x \in deductions /\ y \notin deductions
    BY <2>2, <2>3, <2>4, <2>6
  <2>7. CASE x \notin deductions /\ y \in deductions
    BY <2>2, <2>3, <2>4, <2>7
  <2> QED BY <2>2, <2>4, <2>5, <2>6, <2>7
<1> QED BY <1>1, <1>2

\* Every step keeps the invariant of the deductions.
LEMMA ExpirationInvStep ==
  ASSUME SystemInv, DayInv, EntriesInv, ExpirationInv, [SystemNext]_systemVars
  PROVE  ExpirationInv'
BY DeductionsStampedStep, TakesTurnsStep, OncePerMemberStep, HoldsDeductionStep,
   FaultKnownStep, OneBrokenOffStep, RecordsAreOfDeductionsStep, SharesWithFaultsStep,
   ExpiresOnceStep DEF ExpirationInv

\* It holds at the start.
LEMMA ExpirationInvInit == SystemInit => ExpirationInv
<1> SUFFICES ASSUME SystemInit PROVE ExpirationInv
  OBVIOUS
<1>1. deductions = {} /\ History = {} /\ \A r \in Runs : step[r] = "waiting"
  BY DEF SystemInit, Init, TableInit, RunsInit, ExpirationInit, History
<1> QED BY <1>1 DEF ExpirationInv, DeductionsStamped, OncePerMember, FaultKnown, OneBrokenOff,
       RecordsAreOfDeductions, ExpiresOnceUnlessInterrupted, TakesTurns, HoldsDeduction,
       SharesWithFaults, MadeBy, MemberExpiration

\* It holds always.
THEOREM ExpirationInvHolds == SystemSpec => []ExpirationInv
<1>1. SystemInit => ExpirationInv /\ EntriesInv
  BY ExpirationInvInit, EntriesInit
<1>2. SystemInv /\ DayInv /\ EntriesInv /\ ExpirationInv /\ [SystemNext]_systemVars
        => EntriesInv' /\ ExpirationInv'
  BY ExpirationInvStep, EntriesStay
<1> QED BY <1>1, <1>2, SystemInvHolds, DayInvHolds, PTL DEF SystemSpec

\* Every deduction of the job is recorded, about to be, or the last thing an attempt
\* did that then crashed or failed; and a recorded expiration left none of its
\* entries behind.
THEOREM DeductionsAreAccountedFor == SystemSpec => []ExpirationsAreAccountedFor
<1>1. ASSUME ExpirationInv PROVE ExpirationsAreAccountedFor
  <2>1. ASSUME NEW x \in deductions, BrokenOff(x), x.sending = 0
        PROVE  /\ \/ runAttempt[x.by[1]] > x.by[2]
                  \/ step[x.by[1]] \in {"waiting", "dead letter"}
                  \/ outcome[x.by[1]].status = "error"
               /\ \A y \in deductions : BrokenOff(y) /\ y.sending = 0 /\ y.by = x.by => y = x
    <3>1. PICK r \in Runs, n \in 1..MaxRunAttempts : x.by = <<r, n>>
      BY <1>1 DEF ExpirationInv, DeductionsStamped
    <3>2. x.by[1] = r /\ x.by[2] = n
      BY <3>1
    <3>3. \/ runAttempt[r] > n
          \/ step[r] \in {"waiting", "dead letter"}
          \/ outcome[r].status = "error"
      BY <1>1, <2>1, <3>1 DEF ExpirationInv, FaultKnown
    <3>4. \A y \in deductions : BrokenOff(y) /\ y.sending = 0 /\ y.by = x.by => y = x
      BY <1>1, <2>1 DEF ExpirationInv, OneBrokenOff, Lost
    <3> QED BY <3>2, <3>3, <3>4
  <2> QED BY <1>1, <2>1 DEF ExpirationsAreAccountedFor, ExpirationInv, RecordsAreOfDeductions
<1> QED BY <1>1, ExpirationInvHolds, PTL

\* An entry expires twice only after an attempt broke off between its deduction and
\* its record, or when two runs overlap.
THEOREM StarsExpireOnce == SystemSpec => []ExpiresOnceUnlessInterrupted
<1>1. ExpirationInv => ExpiresOnceUnlessInterrupted
  BY DEF ExpirationInv
<1> QED BY <1>1, ExpirationInvHolds, PTL

-----------------------------------------------------------------------------
\* The records of purchases and redemptions, and the effects that are over: on
\* record or orphaned.
Handled == {t \in History : t.type \in {"PURCHASE", "REDEMPTION"}}

\* The effects that no attempt has in hand any more.
OverEffects == orphans \cup {RecordedEffect(t) : t \in Handled}

\* All effects on balances so far.
AllEffects == InFlight \cup OverEffects

\* The attempt at d has not recorded anything yet.
BeforeRecord(d) == pc[d] \in Early \cup {"record_transaction"}

\* The attempt has not computed its stars.
Reading == {"check_transaction_exists", "get_member"}

\* An effect that is over is of an attempt that got to its record, or of a sending
\* that its attempt did not hear of.
EffectStamped(d) ==
  \A e \in OverEffects : \A n :
    e.by = <<d, n>> =>
      /\ n \in 1..attempt[d]
      /\ n = attempt[d] /\ BeforeRecord(d) =>
           pc[d] \notin Reading /\ e.sending \in 1..local[d].unanswered

\* What the handlers do to the balances and their explanation: nothing, or they
\* apply, record or lose the effect of one attempt.  They apply it by the sending
\* they hear of, which is then in flight, or by another, an orphan from the start.
Applies(d, n) ==
  /\ pc[d] = "update_member_balance" /\ attempt' = attempt /\ Handled' = Handled
  /\ EffectOfSending(d, n) \in PossibleEffects
  /\ \/ /\ n = 0 /\ Effect(d) \notin InFlight
        /\ InFlight' = InFlight \cup {Effect(d)} /\ orphans' = orphans
     \/ /\ n = local[d].unanswered + 1 /\ local[d].unanswered \in Nat
        /\ pc' = pc /\ local'[d].unanswered = n
        /\ InFlight' = InFlight /\ orphans' = orphans \cup {EffectOfSending(d, n)}
  /\ \E activity \in Day \cup {NeverActive} :
       UpdateMemberBalance(EventOf[d].member, Delta(d),
                           IF Delta(d) > 0 THEN Delta(d) ELSE 0, activity)

\* The attempt records its effect.
Records(d) ==
  /\ pc[d] = "record_transaction" /\ pc'[d] = "return" /\ attempt' = attempt
  /\ Effect(d) \in InFlight /\ InFlight' = InFlight \ {Effect(d)}
  /\ profile' = profile /\ orphans' = orphans
  /\ \E t \in Transaction :
       /\ Handled' = Handled \cup {t} /\ RecordedEffect(t) = Effect(d)
       /\ t.member = EventOf[d].member /\ t.stars = local[d].stars
       /\ t.type = IF IsPurchase(d) THEN "PURCHASE" ELSE "REDEMPTION"

\* The attempt breaks off between its effect and its record.
Loses(d) ==
  /\ Unrecorded(d) /\ ~BeforeRecord(d)' /\ attempt' = attempt
  /\ Effect(d) \in InFlight /\ InFlight' = InFlight \ {Effect(d)}
  /\ profile' = profile /\ orphans' = orphans \cup {Effect(d)} /\ Handled' = Handled

\* The handlers leave balances and records alone, or apply, record or lose
\* one effect.
LEMMA HandlersHaveEffects ==
  ASSUME CoreInv, [Next]_vars, purged' = purged
  PROVE  \/ /\ profile' = profile /\ InFlight' = InFlight
            /\ Handled' = Handled /\ orphans' = orphans
         \/ \E d \in Deliveries :
              (\E n \in Sending : Applies(d, n)) \/ Records(d) \/ Loses(d)
<1>0. TypeOK /\ \A d \in Deliveries : Progress(d)
  BY DEF CoreInv
<1>a. txns' = txns => Handled' = Handled
  BY DEF Handled, History
<1>1. ASSUME NEW d \in Deliveries, DeliveryAction(d)
      PROVE  \/ /\ profile' = profile /\ InFlight' = InFlight
                /\ Handled' = Handled /\ orphans' = orphans
             \/ (\E n \in Sending : Applies(d, n)) \/ Records(d) \/ Loses(d)
  <2>0. Effect(d) \in InFlight <=> Unrecorded(d)
    <3>1. \A e \in Deliveries : Effect(e).by = <<e, attempt[e]>>
      BY DEF Effect, EffectOfSending
    <3> QED BY <3>1 DEF InFlight
  <2>1. CASE \/ IsPurchase(d) /\ PurchaseUpdateBalance(d)
             \/ IsRedemption(d) /\ RedemptionUpdateBalance(d) /\ pc'[d] # "done"
    <3>1. pc[d] = "update_member_balance"
      BY <2>1 DEF PurchaseUpdateBalance, RedemptionUpdateBalance
    <3>2. /\ local[d].stars \in Int /\ -local[d].stars \in Int /\ local[d].stars >= 0
          /\ Effect(d) \in PossibleEffects
      <4>1. /\ local[d].stars \in Int /\ local[d].stars >= 0 /\ Effect(d) \in PossibleEffects
        BY <1>0, <3>1, DeltaIsStars DEF Running, Request
      <4>2. \A k \in Int : -k \in Int
        OBVIOUS
      <4> QED BY <4>1, <4>2
    <3>3. local[d].now \in Day
      BY <1>0 DEF TypeOK, Local
    <3>4. /\ ~Unrecorded(d) /\ Unrecorded(d)' /\ Effect(d)' = Effect(d)
          /\ txns' = txns /\ orphans' = orphans /\ attempt' = attempt
      BY <1>0, <2>1, <3>1 DEF PurchaseUpdateBalance, RedemptionUpdateBalance,
         Unrecorded, Effect, EffectOfSending, Delta, GoTo, TypeOK, Return
    <3>5. \E activity \in Day \cup {NeverActive} :
            UpdateMemberBalance(EventOf[d].member, Delta(d),
                                IF Delta(d) > 0 THEN Delta(d) ELSE 0, activity)
      <4>1. CASE IsPurchase(d) /\ PurchaseUpdateBalance(d)
        <5>1. Delta(d) = local[d].stars
          BY <4>1 DEF Delta, IsPurchase
        <5>2. (IF Delta(d) > 0 THEN Delta(d) ELSE 0) = local[d].stars
          BY <3>2, <5>1
        <5>3. UpdateMemberBalance(EventOf[d].member, local[d].stars, local[d].stars, local[d].now)
          BY <4>1 DEF PurchaseUpdateBalance
        <5> QED BY <3>3, <5>1, <5>2, <5>3
      <4>2. CASE IsRedemption(d) /\ RedemptionUpdateBalance(d) /\ pc'[d] # "done"
        <5>1. Delta(d) = -local[d].stars
          BY <4>2 DEF Delta, IsRedemption
        <5>2. (IF Delta(d) > 0 THEN Delta(d) ELSE 0) = 0
          BY <3>2, <5>1
        <5>3. UpdateMemberBalance(EventOf[d].member, -local[d].stars, 0, NeverActive)
          BY <1>0, <4>2 DEF RedemptionUpdateBalance, Return, TypeOK
        <5> QED BY <5>1, <5>2, <5>3
      <4> QED BY <2>1, <4>1, <4>2
    <3>6. InFlight' = InFlight \cup {Effect(d)}
      BY <1>0, <1>1, <3>4, InFlightChange
    <3>7. Applies(d, 0)
      BY <1>a, <2>0, <3>1, <3>2, <3>4, <3>5, <3>6 DEF Applies, Effect
    <3> QED BY <3>7, FirstSending
  <2>2. CASE \/ IsPurchase(d) /\ PurchaseRecord(d)
             \/ IsRedemption(d) /\ RedemptionRecord(d)
    <3>1. pc[d] = "record_transaction"
      BY <2>2 DEF PurchaseRecord, RedemptionRecord
    <3>2. /\ Unrecorded(d) /\ ~Unrecorded(d)' /\ pc'[d] = "return"
          /\ profile' = profile /\ orphans' = orphans /\ attempt' = attempt
      BY <1>0, <2>2, <3>1 DEF PurchaseRecord, RedemptionRecord, Unrecorded, GoTo, TypeOK
    <3>3. InFlight' = InFlight \ {Effect(d)}
      BY <1>0, <1>1, <3>2, InFlightChange
    <3> DEFINE kind == IF IsPurchase(d) THEN "PURCHASE" ELSE "REDEMPTION"
               t == [id |-> EventOf[d].id, member |-> EventOf[d].member, type |-> kind,
                     stars |-> local[d].stars, day |-> local[d].now, by |-> <<d, attempt[d]>>]
    <3>4. txns' = txns \cup {t} /\ RecordedEffect(t) = Effect(d)
      <4>1. CASE IsPurchase(d) /\ PurchaseRecord(d)
        BY <4>1 DEF PurchaseRecord, RecordTransaction, RecordedEffect, Effect, EffectOfSending, Delta, IsPurchase
      <4>2. CASE IsRedemption(d) /\ RedemptionRecord(d)
        <5>1. kind = "REDEMPTION"
          BY <4>2, EventFields
        <5> QED BY <4>2, <5>1 DEF RedemptionRecord, RecordTransaction, RecordedEffect, Effect, EffectOfSending,
              Delta, IsRedemption
      <4> QED BY <2>2, <4>1, <4>2
    <3>5. t \in Transaction
      <4>1. /\ local[d].stars \in Int /\ local[d].now \in Day /\ <<d, attempt[d]>> \in Stamps
        BY <1>0, <3>1, DeltaIsStars DEF Running, Request, TypeOK, Local
      <4>2. kind \in TransactionType
        BY DEF TransactionType
      <4> QED BY <4>1, <4>2, EventFields DEF Transaction
    <3>6. t.member = EventOf[d].member /\ t.stars = local[d].stars /\ t.type = kind
      OBVIOUS
    <3>7. kind \in {"PURCHASE", "REDEMPTION"}
      OBVIOUS
    <3> HIDE DEF t
    <3>8. Handled' = Handled \cup {t}
      BY <3>4, <3>6, <3>7 DEF Handled, History
    <3> QED BY <2>0, <3>1, <3>2, <3>3, <3>4, <3>5, <3>6, <3>8 DEF Records
  <2>3. CASE (Crash(d) \/ RequestFails(d)) /\ Unrecorded(d)
    <3>1. /\ ~Unrecorded(d)' /\ ~BeforeRecord(d)' /\ attempt' = attempt
          /\ profile' = profile /\ txns' = txns
          /\ orphans' = orphans \cup {Effect(d)}
      BY <1>0, <2>3 DEF Crash, AfterCrash, RequestFails, Abandon, Unrecorded, GoTo, Return,
         TypeOK, tableVars, BeforeRecord, Early
    <3>2. InFlight' = InFlight \ {Effect(d)}
      BY <1>0, <1>1, <2>3, <3>1, InFlightChange
    <3> QED BY <1>a, <2>0, <2>3, <3>1, <3>2 DEF Loses
  <2>4. CASE \/ Invoke(d) \/ Respond(d) \/ Discard(d)
             \/ PurchaseCheck(d) \/ PurchaseGetMember(d)
             \/ RedemptionCheck(d) \/ RedemptionGetMember(d)
             \/ (Crash(d) \/ RequestFails(d)) /\ ~Unrecorded(d)
    <3>1. ~Unrecorded(d) /\ ~Unrecorded(d)'
      BY <1>0, <2>4 DEF Invoke, Respond, Discard, PurchaseCheck, RedemptionCheck,
         CheckIdempotency, PurchaseGetMember, RedemptionGetMember, Crash, AfterCrash,
         RequestFails, Unrecorded, GoTo, Return, TypeOK
    <3>2. profile' = profile /\ txns' = txns /\ orphans' = orphans
      BY <2>4 DEF Invoke, Respond, Discard, PurchaseCheck, RedemptionCheck,
         CheckIdempotency, PurchaseGetMember, RedemptionGetMember, Crash,
         RequestFails, Abandon, tableVars
    <3> QED BY <1>0, <1>1, <1>a, <3>1, <3>2, InFlightChange
  <2>5. CASE IsPurchase(d) /\ PurchaseCreateLedgerEntry(d)
    <3>1. Unrecorded(d) /\ Unrecorded(d)' /\ Effect(d)' = Effect(d)
      BY <1>0, <2>5 DEF PurchaseCreateLedgerEntry, Unrecorded, Effect, EffectOfSending, Delta, GoTo, TypeOK
    <3>2. profile' = profile /\ txns' = txns /\ orphans' = orphans
      BY <2>5 DEF PurchaseCreateLedgerEntry
    <3> QED BY <1>0, <1>1, <1>a, <3>1, <3>2, InFlightChange
  <2>6. CASE RedemptionUpdateBalance(d) /\ pc'[d] = "done"
    <3>1. ~Unrecorded(d) /\ ~Unrecorded(d)'
      BY <2>6 DEF RedemptionUpdateBalance, Unrecorded
    <3>2. profile' = profile /\ txns' = txns /\ orphans' = orphans
      BY <1>0, <2>6 DEF RedemptionUpdateBalance, GoTo, TypeOK
    <3> QED BY <1>0, <1>1, <1>a, <3>1, <3>2, InFlightChange
  <2>7. CASE Resent(d)
    <3>1. PICK n \in Sending, annual \in Int, activity \in Day \cup {NeverActive} :
            /\ n = local[d].unanswered + 1 /\ local[d].unanswered \in Nat
            /\ pc[d] = "update_member_balance" /\ local'[d].unanswered = n
            /\ UNCHANGED <<txns, pc, attempt>>
            /\ orphans' = orphans \cup {EffectOfSending(d, n)}
            /\ EffectOfSending(d, n) \in PossibleEffects
            /\ UpdateMemberBalance(EventOf[d].member, Delta(d), annual, activity)
            /\ annual = IF IsPurchase(d) THEN local[d].stars ELSE 0
      BY <1>0, <2>7, ResentUpdate
    <3>2. annual = IF Delta(d) > 0 THEN Delta(d) ELSE 0
      <4>1. local[d].stars \in Int /\ local[d].stars >= 0
        BY <1>0, <3>1, DeltaIsStars DEF Running, Request
      <4>2. Delta(d) = IF IsPurchase(d) THEN local[d].stars ELSE -local[d].stars
        BY DEF Delta, IsPurchase
      <4> QED BY <3>1, <4>1, <4>2
    <3>3. InFlight' = InFlight
      <4>1. ~Unrecorded(d) /\ ~Unrecorded(d)'
        BY <3>1 DEF Unrecorded
      <4> QED BY <1>0, <1>1, <4>1, InFlightChange
    <3>4. Applies(d, n)
      BY <1>a, <3>1, <3>2, <3>3 DEF Applies
    <3> QED BY <3>4
  <2> QED BY <1>1, <2>1, <2>2, <2>3, <2>4, <2>5, <2>6, <2>7 DEF DeliveryAction
<1>2. CASE Propagate \/ PassDay \/ UNCHANGED vars
  <2>1. /\ profile' = profile /\ txns' = txns
        /\ pc' = pc /\ attempt' = attempt /\ local' = local /\ orphans' = orphans
    BY <1>2 DEF Propagate, PropagateToIndex, PassDay, NextDay, vars, deliveryVars, tableVars
  <2>2. InFlight' = InFlight
    BY <2>1 DEF InFlight, Effect, EffectOfSending, Delta, Unrecorded
  <2> QED BY <1>a, <2>1, <2>2
<1> QED BY NextCases, <1>1, <1>2

\* The attempt at d has not come to its record, and had not before; no sending of
\* its update is forgotten.
StillBefore(d) ==
  BeforeRecord(d)' =>
    /\ BeforeRecord(d)
    /\ pc[d] \notin Reading =>
         /\ pc'[d] \notin Reading
         /\ \A k \in 1..local[d].unanswered : k \in 1..local'[d].unanswered

\* An attempt that has not come to its record is a new one, or had not before.
LEMMA AttemptsGoOn ==
  ASSUME CoreInv, [Next]_vars, NEW d \in Deliveries
  PROVE  \/ attempt'[d] = attempt[d] + 1
         \/ attempt'[d] = attempt[d] /\ StillBefore(d)
<1>0. TypeOK /\ \A e \in Deliveries : Progress(e)
  BY DEF CoreInv
<1>1. CASE Propagate \/ PassDay \/ UNCHANGED vars
  BY <1>1 DEF Propagate, PassDay, vars, deliveryVars, BeforeRecord, StillBefore
<1>2. ASSUME NEW e \in Deliveries, DeliveryAction(e)
      PROVE  \/ attempt'[d] = attempt[d] + 1
             \/ attempt'[d] = attempt[d] /\ StillBefore(d)
  <2>1. CASE e # d
    BY <1>0, <1>2, <2>1, OthersUnchanged DEF BeforeRecord, StillBefore
  <2>2. CASE e = d /\ Invoke(d)
    BY <1>0, <2>2 DEF Invoke, TypeOK
  <2>3. CASE e = d /\ Resent(d)
    <3>1. /\ pc' = pc /\ attempt' = attempt /\ local[d].unanswered \in Nat
          /\ local'[d].unanswered = local[d].unanswered + 1
      BY <1>0, <2>3, ResentUpdate
    <3>2. \A i \in Nat : \A k \in 1..i : k \in 1..(i + 1)
      OBVIOUS
    <3>3. \A k \in 1..local[d].unanswered : k \in 1..local'[d].unanswered
      BY <3>1, <3>2
    <3> QED BY <3>1, <3>3 DEF BeforeRecord, StillBefore
  <2>4. CASE /\ e = d
             /\ \/ Crash(d) \/ RequestFails(d) \/ Discard(d) \/ Respond(d)
                \/ PurchaseRecord(d) \/ RedemptionRecord(d)
    BY <1>0, <2>4 DEF Respond, Crash, AfterCrash, RequestFails, Discard, PurchaseRecord,
       RedemptionRecord, GoTo, Return, TypeOK, BeforeRecord, Early, StillBefore
  <2>5. CASE /\ e = d
             /\ \/ PurchaseCheck(d) \/ RedemptionCheck(d)
                \/ PurchaseGetMember(d) \/ RedemptionGetMember(d)
    BY <1>0, <2>5 DEF PurchaseCheck, RedemptionCheck, CheckIdempotency, PurchaseGetMember,
       RedemptionGetMember, GoTo, Return, TypeOK, BeforeRecord, Early, StillBefore, Reading
  <2>6. CASE /\ e = d
             /\ \/ PurchaseUpdateBalance(d) \/ RedemptionUpdateBalance(d)
                \/ PurchaseCreateLedgerEntry(d)
    BY <1>0, <2>6 DEF PurchaseUpdateBalance, RedemptionUpdateBalance, PurchaseCreateLedgerEntry,
       GoTo, Return, TypeOK, BeforeRecord, Early, StillBefore, Reading
  <2> QED BY <1>2, <2>1, <2>2, <2>3, <2>4, <2>5, <2>6 DEF DeliveryAction
<1> QED BY NextCases, <1>1, <1>2

-----------------------------------------------------------------------------
\* What a run records is neither a purchase nor a redemption.
LEMMA RunsHaveNoEffects ==
  ASSUME SystemInv, NEW r \in Runs, RunAction(r)
  PROVE  /\ Handled' = Handled /\ OverEffects' = OverEffects /\ AllEffects' = AllEffects
         /\ UNCHANGED <<pc, attempt, local>>
<1>1. purged' = purged /\ pc' = pc /\ attempt' = attempt /\ local' = local /\ orphans' = orphans
  BY RunLeaves DEF deliveryVars
<1>2. Handled' = Handled
  <2>1. CASE txns' = txns
    BY <1>1, <2>1 DEF Handled, History
  <2>2. CASE txns' # txns
    <3>1. \E t \in Transaction :
            txns' = txns \cup {t} /\ t.type \in {"EXPIRATION", "TIER_CHANGE"}
      BY <2>2, RecordsAfterRun
    <3> QED BY <1>1, <3>1 DEF Handled, History
  <2> QED BY <2>1, <2>2
<1>3. InFlight' = InFlight
  BY <1>1 DEF InFlight, Unrecorded, Effect, EffectOfSending, Delta
<1>4. OverEffects' = OverEffects
  BY <1>1, <1>2 DEF OverEffects
<1> QED BY <1>1, <1>2, <1>3, <1>4 DEF AllEffects

\* What the other steps of the system do to the effects.
LEMMA EffectsChange ==
  ASSUME SystemInv, [SystemNext]_systemVars
  PROVE  \/ \E r \in Runs : RunAction(r)
         \/ /\ profile' = profile /\ InFlight' = InFlight
            /\ Handled' = Handled /\ orphans' = orphans /\ deductions' = deductions
            /\ UNCHANGED <<step, work>>
            /\ [Next]_vars \/ UNCHANGED <<pc, attempt, local>>
         \/ /\ [Next]_vars /\ deductions' = deductions /\ UNCHANGED <<step, work>>
            /\ \E d \in Deliveries :
                 (\E n \in Sending : Applies(d, n)) \/ Records(d) \/ Loses(d)
<1>1. CASE /\ [Next]_vars /\ today' = today
           /\ UNCHANGED <<byTier, runVars, historyVars>>
  <2>1. CoreInv /\ purged' = purged /\ deductions' = deductions /\ UNCHANGED <<step, work>>
    BY <1>1 DEF SystemInv, historyVars, runVars
  <2> QED BY <1>1, <2>1, HandlersHaveEffects
<1>a. ASSUME deliveryVars' = deliveryVars
      PROVE  /\ InFlight' = InFlight /\ orphans' = orphans /\ UNCHANGED <<pc, attempt, local>>
  <2>1. pc' = pc /\ attempt' = attempt /\ local' = local /\ orphans' = orphans
    BY <1>a DEF deliveryVars
  <2> QED BY <2>1 DEF InFlight, Unrecorded, Effect, EffectOfSending, Delta
<1>2. CASE PropagateToTierIndex /\ UNCHANGED <<deliveryVars, runVars, historyVars>>
  <2>1. profile' = profile /\ Handled' = Handled
    BY <1>2 DEF PropagateToTierIndex, tableVars, historyVars, Handled, History
  <2> QED BY <1>2, <1>a, <2>1 DEF historyVars, runVars
<1>3. CASE DeleteOldRecord
  <2>1. History' = History /\ profile' = profile
    BY <1>3 DEF DeleteOldRecord, TimeToLive, History
  <2>2. Handled' = Handled
    BY <2>1 DEF Handled
  <2> QED BY <1>3, <1>a, <2>1, <2>2 DEF DeleteOldRecord, runVars
<1>4. CASE NextDate
  <2>1. profile' = profile /\ Handled' = Handled
    BY <1>4 DEF NextDate, AdvanceCalendar, tableVars, historyVars, Handled, History
  <2> QED BY <1>4, <1>a, <2>1 DEF NextDate, AdvanceCalendar, historyVars, runVars
<1> QED BY <1>1, <1>2, <1>3, <1>4, SystemNextCases

\* An effect in hand has the stamp of its attempt, which no effect before it
\* has.
LEMMA EffectStampedStep ==
  ASSUME SystemInv, \A e \in Deliveries : EffectStamped(e), [SystemNext]_systemVars,
         NEW d \in Deliveries
  PROVE  EffectStamped(d)'
<1>0. EffectStamped(d)
  OBVIOUS
<1>1. CASE OverEffects' = OverEffects /\ UNCHANGED <<pc, attempt, local>>
  BY <1>0, <1>1 DEF EffectStamped, BeforeRecord
<1>2. CASE \E r \in Runs : RunAction(r)
  BY <1>1, <1>2, RunsHaveNoEffects
<1>3. ASSUME [Next]_vars,
             \A e \in OverEffects' : \A n : e.by = <<d, n>> =>
               \/ e \in OverEffects
               \/ /\ n = attempt[d] /\ attempt'[d] = attempt[d] /\ n > 0
                  /\ BeforeRecord(d)' =>
                       pc'[d] \notin Reading /\ e.sending \in 1..local'[d].unanswered
      PROVE  EffectStamped(d)'
  <2>0. CoreInv /\ attempt[d] \in Nat
    <3>1. CoreInv /\ attempt[d] \in 0..MaxAttempts
      BY DEF SystemInv, CoreInv, TypeOK
    <3> QED BY <3>1
  <2>1. attempt'[d] = attempt[d] + 1 \/ (attempt'[d] = attempt[d] /\ StillBefore(d))
    BY <1>3, <2>0, AttemptsGoOn
  <2>2. SUFFICES ASSUME NEW e \in OverEffects', NEW n, e.by = <<d, n>>
                 PROVE  /\ n \in 1..attempt'[d]
                        /\ n = attempt'[d] /\ BeforeRecord(d)' =>
                             pc'[d] \notin Reading /\ e.sending \in 1..local'[d].unanswered
    BY DEF EffectStamped
  <2>3. CASE e \in OverEffects
    <3>1. /\ n \in 1..attempt[d]
          /\ n = attempt[d] /\ BeforeRecord(d) =>
               pc[d] \notin Reading /\ e.sending \in 1..local[d].unanswered
      BY <1>0, <2>2, <2>3 DEF EffectStamped
    <3>2. CASE attempt'[d] = attempt[d] + 1
      <4>1. n \in 1..(attempt[d] + 1) /\ n # attempt[d] + 1
        BY <2>0, <3>1
      <4> QED BY <3>2, <4>1
    <3>3. CASE attempt'[d] = attempt[d] /\ StillBefore(d)
      BY <3>1, <3>3 DEF StillBefore
    <3> QED BY <2>1, <3>2, <3>3
  <2>4. CASE /\ n = attempt[d] /\ attempt'[d] = attempt[d] /\ n > 0
             /\ BeforeRecord(d)' =>
                  pc'[d] \notin Reading /\ e.sending \in 1..local'[d].unanswered
    <3>1. n \in 1..attempt'[d]
      BY <2>0, <2>4
    <3> QED BY <2>4, <3>1
  <2> QED BY <1>3, <2>2, <2>3, <2>4
<1>4. CASE /\ Handled' = Handled /\ orphans' = orphans
           /\ [Next]_vars \/ UNCHANGED <<pc, attempt, local>>
  <2>1. OverEffects' = OverEffects
    BY <1>4 DEF OverEffects
  <2> QED BY <1>1, <1>3, <1>4, <2>1
<1>5. ASSUME NEW e \in Deliveries, [Next]_vars, NEW n \in Sending, Applies(e, n)
      PROVE  EffectStamped(d)'
  <2>1. CASE orphans' = orphans
    BY <1>4, <1>5, <2>1 DEF Applies
  <2>2. CASE /\ n = local[e].unanswered + 1 /\ local[e].unanswered \in Nat
             /\ pc' = pc /\ local'[e].unanswered = n
             /\ orphans' = orphans \cup {EffectOfSending(e, n)}
    <3>1. /\ OverEffects' = OverEffects \cup {EffectOfSending(e, n)} /\ attempt' = attempt
          /\ pc[e] = "update_member_balance"
      BY <1>5, <2>2 DEF Applies, OverEffects
    <3>2. EffectOfSending(e, n).by = <<e, attempt[e]>> /\ EffectOfSending(e, n).sending = n
      BY DEF EffectOfSending
    <3>3. attempt[e] > 0
      <4>1. pc[e] \in Running
        BY <3>1 DEF Running, Request
      <4> QED BY <4>1 DEF SystemInv, CoreInv, Progress
    <3>4. pc'[e] \notin Reading
      BY <2>2, <3>1 DEF Reading
    <3>5. n \in 1..local'[e].unanswered
      <4>1. \A k \in Nat : k + 1 \in 1..(k + 1)
        OBVIOUS
      <4> QED BY <2>2, <4>1
    <3>6. \A f \in OverEffects' : \A k : f.by = <<d, k>> =>
            \/ f \in OverEffects
            \/ /\ k = attempt[d] /\ attempt'[d] = attempt[d] /\ k > 0
               /\ BeforeRecord(d)' =>
                    pc'[d] \notin Reading /\ f.sending \in 1..local'[d].unanswered
      BY <3>1, <3>2, <3>3, <3>4, <3>5
    <3> QED BY <1>3, <1>5, <3>6
  <2> QED BY <1>5, <2>1, <2>2 DEF Applies
<1>6. ASSUME NEW e \in Deliveries, [Next]_vars, Records(e) \/ Loses(e)
      PROVE  EffectStamped(d)'
  <2>1. OverEffects' = OverEffects \cup {Effect(e)} /\ attempt' = attempt /\ ~BeforeRecord(e)'
    <3>1. CASE Records(e)
      <4>1. PICK t : Handled' = Handled \cup {t} /\ RecordedEffect(t) = Effect(e)
        BY <3>1 DEF Records
      <4>2. OverEffects' = OverEffects \cup {Effect(e)}
        BY <3>1, <4>1 DEF OverEffects, Records
      <4> QED BY <3>1, <4>2 DEF Records, BeforeRecord, Early
    <3>2. CASE Loses(e)
      BY <3>2 DEF Loses, OverEffects
    <3> QED BY <1>6, <3>1, <3>2
  <2>2. Effect(e).by = <<e, attempt[e]>>
    BY DEF Effect, EffectOfSending
  <2>3. attempt[e] > 0
    <3>1. pc[e] \in Running
      BY <1>6 DEF Records, Loses, Unrecorded, Running, Request
    <3> QED BY <3>1 DEF SystemInv, CoreInv, Progress
  <2>4. \A f \in OverEffects' : \A n : f.by = <<d, n>> =>
          \/ f \in OverEffects
          \/ n = attempt[d] /\ attempt'[d] = attempt[d] /\ n > 0 /\ ~BeforeRecord(d)'
    BY <2>1, <2>2, <2>3
  <2> QED BY <1>3, <1>6, <2>4
<1> QED BY <1>2, <1>4, <1>5, <1>6, EffectsChange

\* The effect of an attempt is new when a sending applies it, and on no record while
\* it is in flight.
LEMMA EffectIsNotOver ==
  ASSUME NEW d \in Deliveries, EffectStamped(d), BeforeRecord(d), NEW n,
         \/ n = 0
         \/ n = local[d].unanswered + 1 /\ local[d].unanswered \in Nat
  PROVE  EffectOfSending(d, n) \notin OverEffects
<1>1. EffectOfSending(d, n).by = <<d, attempt[d]>> /\ EffectOfSending(d, n).sending = n
  BY DEF EffectOfSending
<1>2. n \notin 1..local[d].unanswered
  <2>1. \A k : 0 \notin 1..k
    OBVIOUS
  <2>2. \A k \in Nat : k + 1 \notin 1..k
    OBVIOUS
  <2> QED BY <2>1, <2>2
<1> QED BY <1>1, <1>2 DEF EffectStamped

\* Effects are explained once: they join when they are applied, and recording or
\* losing them changes nothing.
LEMMA EffectsJoin ==
  ASSUME SystemInv, \A d \in Deliveries : EffectStamped(d), [SystemNext]_systemVars
  PROVE  \/ (\E r \in Runs : RunAction(r)) /\ AllEffects' = AllEffects
         \/ profile' = profile /\ deductions' = deductions /\ AllEffects' = AllEffects
         \/ /\ deductions' = deductions
            /\ \E d \in Deliveries, n \in Sending :
                 /\ Applies(d, n) /\ EffectOfSending(d, n) \notin AllEffects
                 /\ AllEffects' = AllEffects \cup {EffectOfSending(d, n)}
<1>1. CASE \E r \in Runs : RunAction(r)
  BY <1>1, RunsHaveNoEffects
<1>2. CASE /\ profile' = profile /\ InFlight' = InFlight
           /\ Handled' = Handled /\ orphans' = orphans /\ deductions' = deductions
  BY <1>2 DEF AllEffects, OverEffects
<1>3. ASSUME deductions' = deductions, NEW d \in Deliveries, NEW n \in Sending, Applies(d, n)
      PROVE  /\ EffectOfSending(d, n) \notin AllEffects
             /\ AllEffects' = AllEffects \cup {EffectOfSending(d, n)}
  <2>1. EffectOfSending(d, n) \notin OverEffects
    <3>1. BeforeRecord(d)
      BY <1>3 DEF Applies, BeforeRecord, Early
    <3>2. n = 0 \/ (n = local[d].unanswered + 1 /\ local[d].unanswered \in Nat)
      BY <1>3 DEF Applies
    <3> QED BY <3>1, <3>2, EffectIsNotOver
  <2>2. EffectOfSending(d, 0) = Effect(d) /\ EffectOfSending(d, n).sending = n
    BY DEF Effect, EffectOfSending
  <2>3. Handled' = Handled
    BY <1>3 DEF Applies
  <2>4. CASE n = 0
    <3>1. /\ Effect(d) \notin InFlight /\ InFlight' = InFlight \cup {Effect(d)}
          /\ orphans' = orphans
      <4>1. ~(0 = local[d].unanswered + 1 /\ local[d].unanswered \in Nat)
        OBVIOUS
      <4> QED BY <1>3, <2>4, <4>1 DEF Applies
    <3> QED BY <2>1, <2>2, <2>3, <2>4, <3>1 DEF AllEffects, OverEffects
  <2>5. CASE n # 0
    <3>1. InFlight' = InFlight /\ orphans' = orphans \cup {EffectOfSending(d, n)}
      BY <1>3, <2>5 DEF Applies
    <3>2. \A e \in InFlight : e.sending = 0
      BY DEF InFlight, Effect, EffectOfSending
    <3>3. EffectOfSending(d, n) \notin InFlight
      BY <2>2, <2>5, <3>2
    <3> QED BY <2>1, <2>3, <3>1, <3>3 DEF AllEffects, OverEffects
  <2> QED BY <2>4, <2>5
<1>4. ASSUME deductions' = deductions, NEW d \in Deliveries, Records(d) \/ Loses(d)
      PROVE  profile' = profile /\ AllEffects' = AllEffects
  <2>1. CASE Records(d)
    <3>1. PICK t : Handled' = Handled \cup {t} /\ RecordedEffect(t) = Effect(d)
      BY <2>1 DEF Records
    <3>2. OverEffects' = OverEffects \cup {Effect(d)}
      BY <2>1, <3>1 DEF OverEffects, Records
    <3> QED BY <2>1, <3>2 DEF Records, AllEffects
  <2>2. CASE Loses(d)
    BY <2>2 DEF Loses, OverEffects, AllEffects
  <2> QED BY <1>4, <2>1, <2>2
<1> QED BY <1>1, <1>2, <1>3, <1>4, EffectsChange

-----------------------------------------------------------------------------
\* A run changes balances only by a deduction, which is new.
LEMMA RunsDeduct ==
  ASSUME SystemInv, ExpirationInv, NEW r \in Runs, RunAction(r)
  PROVE  \/ /\ deductions' = deductions
            /\ \A m \in Members : StarsOf(profile'[m]) = StarsOf(profile[m])
         \/ \E x : /\ x \notin deductions /\ deductions' = deductions \cup {x}
                   /\ x.member \in Members /\ x.stars \in Int
                   /\ \A m \in Members :
                        StarsOf(profile'[m]) =
                          IF m = x.member THEN StarsOf(profile[m]) - x.stars
                                          ELSE StarsOf(profile[m])
<1>0. TypeOK /\ \A m \in Members : profile'[m] = NoMember <=> profile[m] = NoMember
  BY ProfileAfterRun DEF SystemInv, CoreInv
<1>1. CASE deductions' # deductions
  <2>1. /\ step[r] = "deduct" /\ work[r] \in ExpirationWork
        /\ UpdateMemberBalance(work[r].member, -work[r].stars, 0, NeverActive)
        /\ \E n \in Sending : deductions' = deductions \cup {Taken(r, n)}
    <3>1. PICK n \in Sending : Takes(r, n)
      BY <1>1, HistoryAfterRun
    <3> QED BY <3>1 DEF Takes
  <2>2. PICK x : /\ x.member = work[r].member /\ x.stars = work[r].stars
                 /\ deductions' = deductions \cup {x}
    BY <2>1, TakenFields
  <2>3. x \notin deductions
    BY <1>1, <2>2
  <2>4. x.member \in Members /\ x.stars \in Int
    BY <2>1, <2>2 DEF ExpirationWork
  <2>5. Present(x.member) /\ profile[x.member] \in Profile
    BY <1>0, <2>1, <2>2 DEF SystemInv, RunInv, RunLists, MemberExpiration, Present, TypeOK
  <2>6. /\ profile'[x.member] \in Profile
        /\ profile'[x.member].starBalance = profile[x.member].starBalance + (-x.stars)
        /\ \A n \in Members \ {x.member} : profile'[n] = profile[n]
    <3>1. -x.stars \in Int /\ 0 \in Int /\ NeverActive \in Day \cup {NeverActive}
      <4>1. \A k \in Int : -k \in Int
        OBVIOUS
      <4> QED BY <2>4, <4>1
    <3>2. UpdateMemberBalance(x.member, -x.stars, 0, NeverActive)
      BY <2>1, <2>2
    <3> QED BY <1>0, <2>4, <2>5, <3>1, <3>2, UpdatedProfile
  <2>7. profile[x.member] # NoMember /\ profile'[x.member] # NoMember
    BY <2>5, <2>6, NoMemberAssumption
  <2>8. profile[x.member].starBalance + (-x.stars) = profile[x.member].starBalance - x.stars
    <3>1. profile[x.member].starBalance \in Int
      BY <2>5 DEF Profile
    <3> QED BY <2>4, <3>1
  <2>9. \A m \in Members :
          StarsOf(profile'[m]) = IF m = x.member THEN StarsOf(profile[m]) - x.stars
                                                 ELSE StarsOf(profile[m])
    BY <2>6, <2>7, <2>8 DEF StarsOf
  <2> QED BY <2>2, <2>3, <2>4, <2>9
<1>2. CASE deductions' = deductions
  <2>1. CASE profile' = profile
    BY <1>2, <2>1
  <2>2. CASE profile' # profile
    <3>1. PICK m \in Members, p \in Profile :
            /\ m = work[r].member /\ profile[m] \in Profile /\ Active(r)
            /\ profile' = [profile EXCEPT ![m] = p]
            /\ Writes(r, m, p)
      BY <2>2, ProfileMoves
    <3>2. ~(step[r] = "deduct" /\ (Deduct(r) \/ DeductUnanswered(r)))
      <4>1. SUFFICES ASSUME step[r] = "deduct", Deduct(r) \/ DeductUnanswered(r) PROVE FALSE
        OBVIOUS
      <4>2. CASE Deduct(r)
        <5>1. deductions' = deductions \cup {Taken(r, 0)}
          BY <2>2, <4>2 DEF Deduct
        <5> QED BY <1>2, <4>1, <5>1, TakenIsNew
      <4>3. CASE DeductUnanswered(r)
        <5>1. deductions' = deductions \cup {Taken(r, work[r].unanswered + 1)}
          BY <4>3 DEF DeductUnanswered
        <5>2. work[r].unanswered \in Nat
          <6>1. work[r] \in ExpirationWork
            BY <4>1 DEF SystemInv, RunInv, RunLists, MemberExpiration
          <6>2. work[r].unanswered \in 0..MaxUnanswered
            BY <6>1 DEF ExpirationWork, Sending
          <6> QED BY <6>2
        <5> QED BY <1>2, <4>1, <5>1, <5>2, TakenIsNew
      <4> QED BY <4>1, <4>2, <4>3
    <3>3. p.starBalance = profile[m].starBalance
      BY <3>1, <3>2 DEF Writes
    <3>4. profile \in [Members -> Profile \cup {NoMember}] /\ p # NoMember /\ profile[m] # NoMember
      BY <1>0, <3>1, NoMemberAssumption DEF TypeOK
    <3>5. \A n \in Members : StarsOf(profile'[n]) = StarsOf(profile[n])
      BY <3>1, <3>3, <3>4 DEF StarsOf
    <3> QED BY <1>2, <3>5
  <2> QED BY <2>1, <2>2
<1> QED BY <1>1, <1>2

-----------------------------------------------------------------------------
\* The effects on one member's balance.
EffectsOn(m) == {e \in AllEffects : e.member = m}

\* What makes the audit add up: finitely many effects and deductions, each of a
\* whole number of stars.
AuditInv ==
  /\ \A d \in Deliveries : EffectStamped(d)
  /\ IsFiniteSet(AllEffects) /\ Numbered(AllEffects)
  /\ IsFiniteSet(deductions) /\ Numbered(deductions)
  /\ \A m \in Members :
       StarsOf(profile[m]) =
         StarsOf(Opening[m]) + StarSum(EffectsOn(m)) - StarSum(DeductionsFrom(m))

\* The invariant explains the balances.
LEMMA AuditIsExplained == AuditInv => SystemAudit
<1>1. \A m \in Members : HandlerEffects(m) = EffectsOn(m)
  BY DEF HandlerEffects, EffectsOn, AllEffects, OverEffects, Handled
<1>2. SystemAudit <=>
        \A m \in Members :
          StarsOf(profile[m]) =
            StarsOf(Opening[m]) + StarSum(HandlerEffects(m)) - StarSum(DeductionsFrom(m))
  BY DEF SystemAudit, StarSum, MapThenSumSet, MapThenFoldSet
<1> QED BY <1>1, <1>2 DEF AuditInv

\* The sums in an audit are numbers.
LEMMA AuditIsOfNumbers ==
  ASSUME AuditInv, NEW m \in Members
  PROVE  /\ StarsOf(Opening[m]) \in Int
         /\ StarSum(EffectsOn(m)) \in Int /\ StarSum(DeductionsFrom(m)) \in Int
         /\ IsFiniteSet(EffectsOn(m)) /\ Numbered(EffectsOn(m))
         /\ IsFiniteSet(DeductionsFrom(m)) /\ Numbered(DeductionsFrom(m))
<1>1. StarsOf(Opening[m]) \in Int
  BY OpeningAssumption DEF StarsOf, Profile
<1>2. /\ IsFiniteSet(EffectsOn(m)) /\ Numbered(EffectsOn(m))
      /\ IsFiniteSet(DeductionsFrom(m)) /\ Numbered(DeductionsFrom(m))
  BY FS_Subset DEF AuditInv, EffectsOn, DeductionsFrom, Numbered
<1> QED BY <1>1, <1>2, SumIsInteger

\* It holds at the start: there are no effects.
LEMMA AuditInit == SystemInit => AuditInv
<1> SUFFICES ASSUME SystemInit PROVE AuditInv
  OBVIOUS
<1>1. /\ profile = Opening /\ txns = {} /\ purged = {} /\ orphans = {} /\ deductions = {}
      /\ pc = [d \in Deliveries |-> "queued"]
  BY DEF SystemInit, Init, TableInit, DeliveryInit, ExpirationInit
<1>2. InFlight = {} /\ Handled = {}
  BY <1>1 DEF InFlight, Unrecorded, Handled, History
<1>3. OverEffects = {} /\ AllEffects = {}
  BY <1>1, <1>2 DEF OverEffects, AllEffects
<1>4. \A m \in Members : EffectsOn(m) = {} /\ DeductionsFrom(m) = {}
  BY <1>1, <1>3 DEF EffectsOn, DeductionsFrom
<1>5. \A m \in Members : StarsOf(Opening[m]) = StarsOf(Opening[m]) + 0 - 0
  <2>1. \A m \in Members : StarsOf(Opening[m]) \in Int
    BY OpeningAssumption DEF StarsOf, Profile
  <2> QED BY <2>1
<1> QED BY <1>1, <1>3, <1>4, <1>5, FS_EmptySet, SumOfNone DEF AuditInv, Numbered, EffectStamped

\* An effect that joins moves the balance of its member by its stars.
LEMMA AuditApplied ==
  ASSUME SystemInv, AuditInv, NEW d \in Deliveries, NEW k \in Sending, Applies(d, k),
         deductions' = deductions, EffectOfSending(d, k) \notin AllEffects,
         AllEffects' = AllEffects \cup {EffectOfSending(d, k)}, NEW m \in Members
  PROVE  (StarsOf(profile[m]) =
            StarsOf(Opening[m]) + StarSum(EffectsOn(m)) - StarSum(DeductionsFrom(m)))'
<1> DEFINE n == EventOf[d].member
<1>0. TypeOK /\ Progress(d) /\ n \in Members
  BY EventFields DEF SystemInv, CoreInv
<1>1. PICK activity \in Day \cup {NeverActive} :
        UpdateMemberBalance(n, Delta(d), IF Delta(d) > 0 THEN Delta(d) ELSE 0, activity)
  BY DEF Applies
<1>2. profile[n] \in Profile /\ local[d].stars \in Int
  BY <1>0, DeltaIsStars DEF Applies, Running, Request
<1>3. Delta(d) \in Int /\ (IF Delta(d) > 0 THEN Delta(d) ELSE 0) \in Int
  BY <1>2 DEF Delta
<1>4. /\ profile'[n] \in Profile
      /\ profile'[n].starBalance = profile[n].starBalance + Delta(d)
      /\ \A j \in Members \ {n} : profile'[j] = profile[j]
  BY <1>0, <1>1, <1>2, <1>3, UpdatedProfile
<1>5. EffectOfSending(d, k).member = n /\ EffectOfSending(d, k).stars = Delta(d)
  BY DEF EffectOfSending
<1>6. DeductionsFrom(m)' = DeductionsFrom(m)
  BY DEF DeductionsFrom
<1>7. /\ StarsOf(Opening[m]) \in Int
      /\ StarSum(EffectsOn(m)) \in Int /\ StarSum(DeductionsFrom(m)) \in Int
      /\ IsFiniteSet(EffectsOn(m)) /\ Numbered(EffectsOn(m))
      /\ StarsOf(profile[m]) =
           StarsOf(Opening[m]) + StarSum(EffectsOn(m)) - StarSum(DeductionsFrom(m))
  BY AuditIsOfNumbers DEF AuditInv
<1>8. CASE m # n
  <2>1. EffectsOn(m)' = EffectsOn(m) /\ StarsOf(profile[m])' = StarsOf(profile[m])
    BY <1>4, <1>5, <1>8 DEF EffectsOn
  <2> QED BY <1>6, <1>7, <2>1
<1>9. CASE m = n
  <2>1. StarsOf(profile[m])' = StarsOf(profile[m]) + Delta(d)
    BY <1>2, <1>4, <1>9, NoMemberAssumption DEF StarsOf
  <2>2. EffectsOn(m)' = EffectsOn(m) \cup {EffectOfSending(d, k)} /\ EffectOfSending(d, k) \notin EffectsOn(m)
    BY <1>5, <1>9 DEF EffectsOn
  <2>3. StarSum(EffectsOn(m) \cup {EffectOfSending(d, k)}) = StarSum(EffectsOn(m)) + Delta(d)
    <3>1. EffectOfSending(d, k).stars \in Int
      BY <1>3, <1>5
    <3>2. StarSum(EffectsOn(m) \cup {EffectOfSending(d, k)}) = StarSum(EffectsOn(m)) + EffectOfSending(d, k).stars
      BY <1>7, <2>2, <3>1, SumWith
    <3> QED BY <1>5, <3>2
  <2>4. StarSum(EffectsOn(m))' = StarSum(EffectsOn(m)) + Delta(d)
    BY <2>2, <2>3
  <2>5. \A a, b, c, e \in Int : a + b - c + e = a + (b + e) - c
    OBVIOUS
  <2> QED BY <1>3, <1>6, <1>7, <2>1, <2>4, <2>5
<1> QED BY <1>8, <1>9

\* A deduction takes its stars from the balance of its member.
LEMMA AuditDeducted ==
  ASSUME AuditInv, NEW x, x \notin deductions, deductions' = deductions \cup {x},
         x.member \in Members, x.stars \in Int, AllEffects' = AllEffects,
         NEW m \in Members,
         StarsOf(profile'[m]) = IF m = x.member THEN StarsOf(profile[m]) - x.stars
                                                ELSE StarsOf(profile[m])
  PROVE  (StarsOf(profile[m]) =
            StarsOf(Opening[m]) + StarSum(EffectsOn(m)) - StarSum(DeductionsFrom(m)))'
<1>1. EffectsOn(m)' = EffectsOn(m)
  BY DEF EffectsOn
<1>2. /\ StarsOf(Opening[m]) \in Int
      /\ StarSum(EffectsOn(m)) \in Int /\ StarSum(DeductionsFrom(m)) \in Int
      /\ IsFiniteSet(DeductionsFrom(m)) /\ Numbered(DeductionsFrom(m))
      /\ StarsOf(profile[m]) =
           StarsOf(Opening[m]) + StarSum(EffectsOn(m)) - StarSum(DeductionsFrom(m))
  BY AuditIsOfNumbers DEF AuditInv
<1>3. CASE m # x.member
  <2>1. DeductionsFrom(m)' = DeductionsFrom(m)
    BY <1>3 DEF DeductionsFrom
  <2> QED BY <1>1, <1>2, <1>3, <2>1
<1>4. CASE m = x.member
  <2>1. DeductionsFrom(m)' = DeductionsFrom(m) \cup {x} /\ x \notin DeductionsFrom(m)
    BY <1>4 DEF DeductionsFrom
  <2>2. StarSum(DeductionsFrom(m) \cup {x}) = StarSum(DeductionsFrom(m)) + x.stars
    BY <1>2, <2>1, SumWith
  <2>3. \A a, b, c, e \in Int : a + b - c - e = a + b - (c + e)
    OBVIOUS
  <2> QED BY <1>1, <1>2, <1>4, <2>1, <2>2, <2>3
<1> QED BY <1>3, <1>4

\* Every step keeps it: an effect or a deduction changes the balance by its
\* stars.
LEMMA AuditStep ==
  ASSUME SystemInv, ExpirationInv, AuditInv, [SystemNext]_systemVars
  PROVE  AuditInv'
<1>0. /\ \A d \in Deliveries : EffectStamped(d)
      /\ IsFiniteSet(AllEffects) /\ Numbered(AllEffects)
      /\ IsFiniteSet(deductions) /\ Numbered(deductions)
      /\ \A m \in Members :
           StarsOf(profile[m]) =
             StarsOf(Opening[m]) + StarSum(EffectsOn(m)) - StarSum(DeductionsFrom(m))
  BY DEF AuditInv
<1>a. \A d \in Deliveries : EffectStamped(d)'
  BY <1>0, EffectStampedStep
<1>1. ASSUME deductions' = deductions, AllEffects' = AllEffects,
             \A m \in Members : StarsOf(profile'[m]) = StarsOf(profile[m])
      PROVE  AuditInv'
  <2>1. \A m \in Members : EffectsOn(m)' = EffectsOn(m) /\ DeductionsFrom(m)' = DeductionsFrom(m)
    BY <1>1 DEF EffectsOn, DeductionsFrom
  <2> QED BY <1>0, <1>1, <1>a, <2>1 DEF AuditInv, Numbered
<1>2. ASSUME NEW r \in Runs, RunAction(r), AllEffects' = AllEffects PROVE AuditInv'
  <2>1. CASE /\ deductions' = deductions
             /\ \A m \in Members : StarsOf(profile'[m]) = StarsOf(profile[m])
    BY <1>1, <1>2, <2>1
  <2>2. ASSUME NEW x, x \notin deductions, deductions' = deductions \cup {x},
               x.member \in Members, x.stars \in Int,
               \A m \in Members :
                 StarsOf(profile'[m]) = IF m = x.member THEN StarsOf(profile[m]) - x.stars
                                                        ELSE StarsOf(profile[m])
        PROVE  AuditInv'
    <3>1. \A m \in Members :
            (StarsOf(profile[m]) =
               StarsOf(Opening[m]) + StarSum(EffectsOn(m)) - StarSum(DeductionsFrom(m)))'
      BY <1>2, <2>2, AuditDeducted
    <3>2. IsFiniteSet(deductions') /\ Numbered(deductions')
      BY <1>0, <2>2, FS_AddElement DEF Numbered
    <3> QED BY <1>0, <1>2, <1>a, <3>1, <3>2 DEF AuditInv
  <2> QED BY <1>2, <2>1, <2>2, RunsDeduct
<1>3. ASSUME deductions' = deductions, NEW d \in Deliveries, NEW k \in Sending,
             Applies(d, k), EffectOfSending(d, k) \notin AllEffects,
             AllEffects' = AllEffects \cup {EffectOfSending(d, k)}
      PROVE  AuditInv'
  <2>1. \A m \in Members :
          (StarsOf(profile[m]) =
             StarsOf(Opening[m]) + StarSum(EffectsOn(m)) - StarSum(DeductionsFrom(m)))'
    BY <1>3, AuditApplied
  <2>2. EffectOfSending(d, k).stars \in Int
    BY <1>3, EffectsAreOfMembers DEF Applies
  <2>3. IsFiniteSet(AllEffects') /\ Numbered(AllEffects')
    BY <1>0, <1>3, <2>2, FS_AddElement DEF Numbered
  <2> QED BY <1>0, <1>3, <1>a, <2>1, <2>3 DEF AuditInv
<1> QED BY <1>0, <1>1, <1>2, <1>3, EffectsJoin

\* It holds always.
THEOREM AuditInvHolds == SystemSpec => []AuditInv
<1>1. SystemInv /\ ExpirationInv /\ AuditInv /\ [SystemNext]_systemVars => AuditInv'
  BY AuditStep
<1> QED BY AuditInit, <1>1, SystemInvHolds, ExpirationInvHolds, PTL DEF SystemSpec

\* Every balance is the opening one and what recorded, running and broken-off
\* handlers and jobs did to it, to the star: for any number of members, events,
\* runs, attempts and faults, with old records deleted from the table.
THEOREM EveryStarIsExplained == SystemSpec => []SystemAudit
BY AuditInvHolds, AuditIsExplained, PTL

-----------------------------------------------------------------------------
\* The effects that add stars.
Positive(S) == {e \in S : e.stars > 0}

\* All purchases of a member on record, their effects, and the stars of all
\* purchases that had an effect.
PurchasesOf(m) == {t \in History : t.type = "PURCHASE" /\ t.member = m}

\* The effects of the purchases of a member on record.
PurchaseEffects(m) == {RecordedEffect(t) : t \in PurchasesOf(m)}

\* The stars of all purchases of the member that had an effect.
StarsGained(m) == StarSum(Positive(EffectsOn(m)))

\* A sum that a run is about to write counts stars that were gained, once.
CountsGained(r) ==
  step[r] \in {"update_member_tier", "update_annual_count", "keep_tier_date"} =>
    work[r].stars <= StarsGained(work[r].member)

\* A year counts no more than was there at its start and was gained, and
\* what a member gained is on record, in hand or lost.
CountInv ==
  /\ PurchasesAddStars
  /\ \A m \in Members :
       /\ profile[m] = NoMember <=> Opening[m] = NoMember
       /\ StarSum(PurchasesOf(m)) = StarSum(Positive(PurchaseEffects(m)))
       /\ profile[m] # NoMember =>
            profile[m].annualStarCount <= Opening[m].annualStarCount + StarsGained(m)
  /\ \A r \in Runs : CountsGained(r)

\* The effects that add stars are finitely many and each adds a number.
LEMMA GainedIsNatural ==
  ASSUME AuditInv, NEW m \in Members
  PROVE  /\ IsFiniteSet(Positive(EffectsOn(m)))
         /\ \A e \in Positive(EffectsOn(m)) : e.stars \in Nat
         /\ StarsGained(m) \in Nat
<1>1. IsFiniteSet(EffectsOn(m)) /\ Numbered(EffectsOn(m))
  BY AuditIsOfNumbers
<1>2. IsFiniteSet(Positive(EffectsOn(m)))
  BY <1>1, FS_Subset DEF Positive
<1>3. \A e \in Positive(EffectsOn(m)) : e.stars \in Nat
  BY <1>1 DEF Positive, Numbered
<1> QED BY <1>2, <1>3, SumIsNatural DEF StarsGained

\* What a query of the records adds up was gained: every purchase on record had an
\* effect of its own.
LEMMA SumWasGained ==
  ASSUME SystemInv, AuditInv, CountInv, NEW m \in Members
  PROVE  CalculateAnnualStars(m, today) <= StarsGained(m)
<1>1. PurchasesAddStars /\ StarSum(PurchasesOf(m)) = StarSum(Positive(PurchaseEffects(m)))
  BY DEF CountInv
<1>2. IsFiniteSet(PurchasesOf(m)) /\ \A t \in PurchasesOf(m) : t.stars \in Nat
  <2>1. IsFiniteSet(txns \cup purged)
    BY FS_Union DEF SystemInv, ItemsInv
  <2>2. PurchasesOf(m) \subseteq txns \cup purged
    BY DEF PurchasesOf, History
  <2>3. IsFiniteSet(PurchasesOf(m))
    BY <2>1, <2>2, FS_Subset
  <2> QED BY <1>1, <2>3 DEF PurchasesOf, PurchasesAddStars
<1>3. StarSum(CountedPurchases(m)) <= StarSum(PurchasesOf(m))
  <2>1. CountedPurchases(m) \in SUBSET PurchasesOf(m)
    BY DEF CountedPurchases, PurchasesOf
  <2> QED BY <1>2, <2>1, SumIsMonotone
<1>4. StarSum(Positive(PurchaseEffects(m))) <= StarsGained(m)
  <2>1. \A t \in PurchasesOf(m) : RecordedEffect(t) \in EffectsOn(m)
    BY DEF PurchasesOf, EffectsOn, AllEffects, OverEffects, Handled, RecordedEffect
  <2>2. Positive(PurchaseEffects(m)) \in SUBSET Positive(EffectsOn(m))
    BY <2>1 DEF Positive, PurchaseEffects
  <2> QED BY <2>2, GainedIsNatural, SumIsMonotone DEF StarsGained
<1>5. CalculateAnnualStars(m, today) <= StarSum(CountedPurchases(m))
  BY <1>1, SumOfRecords, PurchasesCount
<1>6. /\ CalculateAnnualStars(m, today) \in Int /\ StarSum(CountedPurchases(m)) \in Int
      /\ StarSum(PurchasesOf(m)) \in Int /\ StarsGained(m) \in Int
  <2>1. CalculateAnnualStars(m, today) \in Int
    BY SumsAreIntegers DEF SystemInv, CoreInv, TypeOK
  <2>2. StarSum(CountedPurchases(m)) \in Nat /\ StarSum(PurchasesOf(m)) \in Nat
    BY <1>1, <1>2, PurchasesCount, SumIsNatural
  <2> QED BY <2>1, <2>2, GainedIsNatural
<1>7. \A a, b, c, e \in Int : a <= b /\ b <= c /\ c <= e => a <= e
  OBVIOUS
<1> QED BY <1>1, <1>3, <1>4, <1>5, <1>6, <1>7

\* Effects stay, so that what was gained only grows.
LEMMA GainedGrows ==
  ASSUME SystemInv, AuditInv, AuditInv', [SystemNext]_systemVars, NEW m \in Members
  PROVE  StarsGained(m)' \in Nat /\ StarsGained(m) <= StarsGained(m)'
<1>1. AllEffects \subseteq AllEffects'
  BY EffectsJoin DEF AuditInv
<1>2. Positive(EffectsOn(m)) \subseteq Positive(EffectsOn(m))'
  BY <1>1 DEF Positive, EffectsOn
<1>3. /\ IsFiniteSet(Positive(EffectsOn(m))')
      /\ \A e \in Positive(EffectsOn(m))' : e.stars \in Nat
      /\ StarsGained(m)' \in Nat
  <2>1. IsFiniteSet(AllEffects') /\ Numbered(AllEffects')
    BY DEF AuditInv, Numbered
  <2>2. Positive(EffectsOn(m))' \subseteq AllEffects'
    BY DEF Positive, EffectsOn
  <2>3. IsFiniteSet(Positive(EffectsOn(m))')
    BY <2>1, <2>2, FS_Subset
  <2>4. \A e \in Positive(EffectsOn(m))' : e.stars \in Nat
    <3>1. \A e \in Positive(EffectsOn(m))' : e.stars \in Int /\ e.stars > 0
      BY <2>1 DEF Positive, EffectsOn, Numbered
    <3> QED BY <3>1
  <2>5. StarSum(Positive(EffectsOn(m))') \in Nat
    BY <2>3, <2>4, SumIsNatural
  <2> QED BY <2>3, <2>4, <2>5 DEF StarsGained, StarSum, MapThenSumSet, MapThenFoldSet
<1>4. StarSum(Positive(EffectsOn(m))) <= StarSum(Positive(EffectsOn(m))')
  BY <1>2, <1>3, SumIsMonotone
<1> QED BY <1>3, <1>4 DEF StarsGained, StarSum, MapThenSumSet, MapThenFoldSet

\* A purchase comes on record once, with its effect.
LEMMA PurchasesMatchStep ==
  ASSUME SystemInv, AuditInv, PurchasesAddStars, [SystemNext]_systemVars, NEW m \in Members,
         StarSum(PurchasesOf(m)) = StarSum(Positive(PurchaseEffects(m)))
  PROVE  (StarSum(PurchasesOf(m)) = StarSum(Positive(PurchaseEffects(m))))'
<1>0. PurchasesOf(m) = {t \in Handled : t.type = "PURCHASE" /\ t.member = m}
  BY DEF PurchasesOf, Handled
<1>1. PurchasesOf(m)' = {t \in Handled' : t.type = "PURCHASE" /\ t.member = m}
  BY DEF PurchasesOf, Handled
<1>2. CASE PurchasesOf(m)' = PurchasesOf(m)
  BY <1>2 DEF PurchaseEffects, Positive, StarSum, MapThenSumSet, MapThenFoldSet
<1>3. CASE Handled' = Handled
  BY <1>0, <1>1, <1>2, <1>3
<1>4. ASSUME NEW d \in Deliveries, Records(d)
      PROVE  (StarSum(PurchasesOf(m)) = StarSum(Positive(PurchaseEffects(m))))'
  <2>0. TypeOK /\ Progress(d) /\ EffectStamped(d)
    BY DEF SystemInv, CoreInv, AuditInv
  <2>1. PICK t \in Transaction :
          /\ Handled' = Handled \cup {t} /\ RecordedEffect(t) = Effect(d)
          /\ t.member = EventOf[d].member /\ t.stars = local[d].stars
          /\ t.type = IF IsPurchase(d) THEN "PURCHASE" ELSE "REDEMPTION"
    BY <1>4 DEF Records
  <2>2. local[d].stars \in Int /\ local[d].stars >= 0
    BY <1>4, <2>0, DeltaIsStars DEF Records, Running, Request
  <2>3. CASE ~(t.type = "PURCHASE" /\ t.member = m)
    BY <1>0, <1>1, <1>2, <2>1, <2>3
  <2>4. CASE t.type = "PURCHASE" /\ t.member = m
    <3>1. Effect(d) \notin OverEffects
      <4>1. BeforeRecord(d)
        BY <1>4 DEF Records, BeforeRecord
      <4> QED BY <2>0, <4>1, EffectIsNotOver DEF Effect
    <3>2. t \notin Handled /\ Effect(d) \notin PurchaseEffects(m)
      BY <1>0, <2>1, <3>1 DEF OverEffects, PurchaseEffects
    <3>3. PurchasesOf(m)' = PurchasesOf(m) \cup {t} /\ t \notin PurchasesOf(m)
      BY <1>0, <1>1, <2>1, <2>4, <3>2
    <3>4. PurchaseEffects(m)' = PurchaseEffects(m) \cup {Effect(d)}
      BY <2>1, <3>3 DEF PurchaseEffects
    <3>5. Effect(d).stars = t.stars /\ t.stars \in Int /\ t.stars >= 0
      <4>1. IsPurchase(d)
        BY <2>1, <2>4
      <4> QED BY <2>1, <2>2, <4>1 DEF Effect, EffectOfSending, Delta, IsPurchase
    <3>6. IsFiniteSet(PurchasesOf(m)) /\ Numbered(PurchasesOf(m))
      <4>1. IsFiniteSet(txns \cup purged)
        BY FS_Union DEF SystemInv, ItemsInv
      <4>2. PurchasesOf(m) \subseteq txns \cup purged
        BY DEF PurchasesOf, History
      <4>3. \A u \in PurchasesOf(m) : u.stars \in Nat
        BY DEF PurchasesOf, PurchasesAddStars
      <4> QED BY <4>1, <4>2, <4>3, FS_Subset DEF Numbered
    <3>7. StarSum(PurchasesOf(m) \cup {t}) = StarSum(PurchasesOf(m)) + t.stars
      BY <3>3, <3>5, <3>6, SumWith
    <3>8. IsFiniteSet(Positive(PurchaseEffects(m))) /\ Numbered(Positive(PurchaseEffects(m)))
      <4>1. IsFiniteSet(AllEffects) /\ Numbered(AllEffects)
        BY DEF AuditInv
      <4>2. Positive(PurchaseEffects(m)) \subseteq AllEffects
        BY <1>0 DEF Positive, PurchaseEffects, AllEffects, OverEffects
      <4> QED BY <4>1, <4>2, FS_Subset DEF Numbered
    <3>9. StarSum(Positive(PurchaseEffects(m) \cup {Effect(d)})) =
            StarSum(Positive(PurchaseEffects(m))) + t.stars
      <4>1. CASE t.stars > 0
        <5>1. Positive(PurchaseEffects(m) \cup {Effect(d)}) =
                Positive(PurchaseEffects(m)) \cup {Effect(d)}
          BY <3>5, <4>1 DEF Positive
        <5>2. Effect(d) \notin Positive(PurchaseEffects(m)) /\ Effect(d).stars \in Int
          BY <3>2, <3>5 DEF Positive
        <5>3. StarSum(Positive(PurchaseEffects(m)) \cup {Effect(d)}) =
                StarSum(Positive(PurchaseEffects(m))) + Effect(d).stars
          BY <3>8, <5>2, SumWith
        <5> QED BY <3>5, <5>1, <5>3
      <4>2. CASE t.stars = 0
        <5>1. Positive(PurchaseEffects(m) \cup {Effect(d)}) = Positive(PurchaseEffects(m))
          BY <3>5, <4>2 DEF Positive
        <5>2. StarSum(Positive(PurchaseEffects(m))) \in Int
          BY <3>8, SumIsInteger
        <5> QED BY <4>2, <5>1, <5>2
      <4> QED BY <3>5, <4>1, <4>2
    <3>10. StarSum(PurchasesOf(m))' = StarSum(PurchasesOf(m)) + t.stars
      BY <3>3, <3>7 DEF StarSum, MapThenSumSet, MapThenFoldSet
    <3>11. StarSum(Positive(PurchaseEffects(m)))' = StarSum(Positive(PurchaseEffects(m))) + t.stars
      <4>1. Positive(PurchaseEffects(m))' = Positive(PurchaseEffects(m) \cup {Effect(d)})
        BY <3>4 DEF Positive
      <4> QED BY <3>9, <4>1 DEF StarSum, MapThenSumSet, MapThenFoldSet
    <3> QED BY <3>10, <3>11
  <2> QED BY <2>3, <2>4
<1>5. CASE \E r \in Runs : RunAction(r)
  BY <1>3, <1>5, RunsHaveNoEffects
<1>6. ASSUME NEW d \in Deliveries, (\E n \in Sending : Applies(d, n)) \/ Loses(d)
      PROVE  Handled' = Handled
  BY <1>6 DEF Applies, Loses
<1> QED BY <1>3, <1>4, <1>5, <1>6, EffectsChange

-----------------------------------------------------------------------------
\* What a run holds as the sum of a year stays within what was gained.
LEMMA CountsGainedStep ==
  ASSUME SystemInv, AuditInv, AuditInv', CountInv, [SystemNext]_systemVars, NEW q \in Runs
  PROVE  CountsGained(q)'
<1> DEFINE Deciding == {"update_member_tier", "update_annual_count", "keep_tier_date"}
<1>0. CountsGained(q)
  BY DEF CountInv
<1>1. CASE step'[q] \notin Deciding
  BY <1>1 DEF CountsGained
<1>2. CASE step'[q] \in Deciding /\ step[q] \in Deciding /\ work'[q] = work[q]
  <2>1. work[q] \in EvaluationWork /\ work[q].member \in Members
    BY <1>2 DEF SystemInv, RunInv, RunLists, MemberEvaluation, Present
  <2>2. PICK m \in Members : m = work[q].member
    BY <2>1
  <2>3. StarsGained(m) \in Nat /\ StarsGained(m)' \in Nat /\ StarsGained(m) <= StarsGained(m)'
    BY GainedIsNatural, GainedGrows
  <2>4. work[q].stars <= StarsGained(m) /\ work[q].stars \in Int
    BY <1>0, <1>2, <2>1, <2>2, WorkFields DEF CountsGained
  <2>5. work[q].stars <= StarsGained(m)'
    BY <2>3, <2>4
  <2>6. m = work'[q].member
    BY <1>2, <2>2
  <2> QED BY <1>2, <2>5, <2>6 DEF CountsGained
<1>3. CASE UNCHANGED <<step, work>>
  BY <1>1, <1>2, <1>3
<1>4. ASSUME NEW r \in Runs, RunAction(r) PROVE CountsGained(q)'
  <2>1. CASE q # r
    <3>1. step'[q] = step[q] /\ work'[q] = work[q]
      BY <1>4, <2>1, OtherRunsStay
    <3> QED BY <1>1, <1>2, <3>1
  <2>2. CASE q = r /\ step[r] \in EvaluationRequest \cup RemovalRequest
    <3>1. CASE step[r] = "get_member_transactions"
               /\ Stays(r, {"update_member_tier", "keep_tier_date"})
               /\ work'[r].stars = CalculateAnnualStars(work[r].member, today)
      <4>1. PICK m \in Members : m = work[r].member
        BY <3>1 DEF SystemInv, RunInv, RunLists, MemberEvaluation, Present
      <4>2. /\ CalculateAnnualStars(m, today) <= StarsGained(m)
            /\ StarsGained(m) \in Nat /\ StarsGained(m)' \in Nat
            /\ StarsGained(m) <= StarsGained(m)'
        BY SumWasGained, GainedIsNatural, GainedGrows
      <4>3. CalculateAnnualStars(m, today) \in Int
        BY SumsAreIntegers DEF SystemInv, CoreInv, TypeOK
      <4>4. CalculateAnnualStars(m, today) <= StarsGained(m)'
        BY <4>2, <4>3
      <4>5. m = work'[r].member /\ work'[r].stars = CalculateAnnualStars(m, today)
        BY <3>1, <4>1 DEF Stays
      <4> QED BY <2>2, <4>4, <4>5 DEF CountsGained
    <3>2. CASE \/ step[r] = "keep_tier_date" /\ Stays(r, {"keep_tier_key"})
               \/ step[r] = "update_annual_count"
                  /\ Stays(r, {"list_promoted_entries", "record_tier_change"})
               \/ step[r] \in RemovalRequest
                  /\ Stays(r, {"remove_expiration_date", "record_tier_change"})
      BY <1>1, <2>2, <3>2 DEF Stays
    <3>3. CASE Stops(r)
      BY <1>1, <2>2, <3>3 DEF Stops
    <3>4. CASE step[r] = "update_member_tier" /\ Stays(r, {"update_annual_count"})
               /\ work'[r] = work[r]
      BY <1>2, <2>2, <3>4 DEF Stays
    <3>7. CASE \/ EvaluationRequestFails(r) \/ QueryDueMembers(r)
               \/ RecordTierChange(r) \/ KeepTierKey(r)
      <4>1. step[r] \in EvaluationRequest
        BY <3>7 DEF EvaluationRequestFails, QueryDueMembers, RecordTierChange, KeepTierKey,
           EvaluationRequest
      <4> QED BY <1>1, <2>2, <3>7, <4>1, MembersEnd
    <3> QED BY <1>4, <2>2, <3>1, <3>2, <3>3, <3>4, <3>7, EvaluationDetail
  <2>3. CASE q = r /\ step[r] \notin EvaluationRequest \cup RemovalRequest
    BY <1>1, <1>4, <2>3, RunGoes
       DEF Starts, Stops, Finishes, ExpirationGoes, EvaluationGoes, MemberExpiration
  <2> QED BY <2>1, <2>2, <2>3
<1> QED BY <1>3, <1>4, EffectsChange

\* A count moves with the effects, or is set to what was gained.
LEMMA AnnualCountStep ==
  ASSUME SystemInv, AuditInv, AuditInv', CountInv, [SystemNext]_systemVars,
         NEW m \in Members, profile'[m] # NoMember, profile[m] # NoMember
  PROVE  profile'[m].annualStarCount <= Opening[m].annualStarCount + StarsGained(m)'
<1>0. /\ profile[m] \in Profile /\ Opening[m] # NoMember
      /\ profile[m].annualStarCount <= Opening[m].annualStarCount + StarsGained(m)
  BY DEF CountInv, SystemInv, CoreInv, TypeOK
<1>a. /\ profile[m].annualStarCount \in Int
      /\ Opening[m].annualStarCount \in Int /\ Opening[m].annualStarCount >= 0
  BY <1>0, OpeningAssumption DEF Profile
<1>b. StarsGained(m) \in Nat /\ StarsGained(m)' \in Nat /\ StarsGained(m) <= StarsGained(m)'
  BY GainedIsNatural, GainedGrows
<1>1. CASE profile'[m].annualStarCount = profile[m].annualStarCount
  <2>1. \A a, o, g, h \in Int : a <= o + g /\ g <= h => a <= o + h
    OBVIOUS
  <2> QED BY <1>0, <1>1, <1>a, <1>b, <2>1
<1>2. ASSUME NEW r \in Runs, RunAction(r)
      PROVE  profile'[m].annualStarCount <= Opening[m].annualStarCount + StarsGained(m)'
  <2>1. CASE profile' = profile
    BY <1>1, <2>1
  <2>2. CASE profile' # profile
    <3>1. PICK n \in Members, p \in Profile :
            /\ n = work[r].member /\ profile[n] \in Profile /\ Active(r)
            /\ profile' = [profile EXCEPT ![n] = p]
            /\ Writes(r, n, p)
      BY <1>2, <2>2, ProfileMoves
    <3>2. CASE n # m
      BY <1>1, <3>1, <3>2
    <3>3. CASE n = m
      <4>0. profile'[m] = p
        <5>1. profile \in [Members -> Profile \cup {NoMember}]
          BY DEF SystemInv, CoreInv, TypeOK
        <5> QED BY <3>1, <3>3, <5>1
      <4>1. CASE p.annualStarCount = profile[m].annualStarCount
        BY <1>1, <4>0, <4>1
      <4>2. CASE /\ step[r] \in {"update_annual_count", "keep_tier_date"}
                 /\ p.annualStarCount = work[r].stars
        <5>1. work[r].stars <= StarsGained(m)
          BY <3>1, <3>3, <4>2 DEF CountInv, CountsGained
        <5>2. work[r].stars \in Int
          <6>1. work[r] \in EvaluationWork
            BY <4>2 DEF SystemInv, RunInv, RunLists, MemberEvaluation
          <6> QED BY <6>1, WorkFields
        <5>3. \A a, o, g, h \in Int : a <= g /\ g <= h /\ o >= 0 => a <= o + h
          OBVIOUS
        <5> QED BY <1>a, <1>b, <4>0, <4>2, <5>1, <5>2, <5>3
      <4> QED BY <3>1, <3>3, <4>1, <4>2 DEF Writes
    <3> QED BY <3>2, <3>3
  <2> QED BY <2>1, <2>2
<1>3. CASE profile' = profile
  BY <1>1, <1>3
<1>4. ASSUME NEW d \in Deliveries, NEW k \in Sending, Applies(d, k),
             EffectOfSending(d, k) \notin AllEffects,
             AllEffects' = AllEffects \cup {EffectOfSending(d, k)}
      PROVE  profile'[m].annualStarCount <= Opening[m].annualStarCount + StarsGained(m)'
  <2> DEFINE n == EventOf[d].member
             gain == IF Delta(d) > 0 THEN Delta(d) ELSE 0
  <2>0. TypeOK /\ Progress(d) /\ n \in Members
    BY EventFields DEF SystemInv, CoreInv
  <2>1. PICK activity \in Day \cup {NeverActive} :
          UpdateMemberBalance(n, Delta(d), gain, activity)
    BY <1>4 DEF Applies
  <2>2. profile[n] \in Profile /\ local[d].stars \in Int
    BY <1>4, <2>0, DeltaIsStars DEF Applies, Running, Request
  <2>3. Delta(d) \in Int /\ gain \in Int
    BY <2>2 DEF Delta
  <2>4. /\ profile'[n].annualStarCount = profile[n].annualStarCount + gain
        /\ \A j \in Members \ {n} : profile'[j] = profile[j]
    BY <2>0, <2>1, <2>2, <2>3, UpdatedProfile
  <2>5. CASE n # m
    BY <1>1, <2>4, <2>5
  <2>6. CASE n = m /\ ~(Delta(d) > 0)
    <3>1. profile'[m].annualStarCount = profile[m].annualStarCount
      BY <1>a, <2>4, <2>6
    <3> QED BY <1>1, <3>1
  <2>7. CASE n = m /\ Delta(d) > 0
    <3>1. EffectOfSending(d, k).member = m /\ EffectOfSending(d, k).stars = Delta(d)
      BY <2>7 DEF EffectOfSending
    <3>2. /\ Positive(EffectsOn(m))' = Positive(EffectsOn(m)) \cup {EffectOfSending(d, k)}
          /\ EffectOfSending(d, k) \notin Positive(EffectsOn(m))
      BY <1>4, <2>7, <3>1 DEF Positive, EffectsOn
    <3>3. StarSum(Positive(EffectsOn(m)) \cup {EffectOfSending(d, k)}) = StarsGained(m) + Delta(d)
      <4>1. IsFiniteSet(Positive(EffectsOn(m))) /\ Numbered(Positive(EffectsOn(m)))
        BY GainedIsNatural DEF Numbered
      <4>2. EffectOfSending(d, k).stars \in Int
        BY <2>3, <3>1
      <4>3. StarSum(Positive(EffectsOn(m)) \cup {EffectOfSending(d, k)}) =
              StarSum(Positive(EffectsOn(m))) + EffectOfSending(d, k).stars
        BY <3>2, <4>1, <4>2, SumWith
      <4> QED BY <3>1, <4>3 DEF StarsGained
    <3>4. StarsGained(m)' = StarsGained(m) + Delta(d)
      BY <3>2, <3>3 DEF StarsGained, StarSum, MapThenSumSet, MapThenFoldSet
    <3>5. profile'[m].annualStarCount = profile[m].annualStarCount + Delta(d)
      BY <2>4, <2>7
    <3>6. \A a, o, g, e \in Int : a <= o + g => a + e <= o + (g + e)
      OBVIOUS
    <3> QED BY <1>0, <1>a, <1>b, <2>3, <3>4, <3>5, <3>6
  <2> QED BY <2>5, <2>6, <2>7
<1>5. \A d \in Deliveries : EffectStamped(d)
  BY DEF AuditInv
<1> QED BY <1>2, <1>3, <1>4, <1>5, EffectsJoin

\* Every step keeps it.
LEMMA CountStep ==
  ASSUME SystemInv, DayInv, AuditInv, AuditInv', CountInv, [SystemNext]_systemVars
  PROVE  CountInv'
<1>0. /\ PurchasesAddStars
      /\ \A m \in Members :
           /\ profile[m] = NoMember <=> Opening[m] = NoMember
           /\ StarSum(PurchasesOf(m)) = StarSum(Positive(PurchaseEffects(m)))
  BY DEF CountInv
<1>1. PurchasesAddStars'
  BY <1>0, PurchasesStep
<1>2. \A m \in Members : profile'[m] = NoMember <=> profile[m] = NoMember
  BY MembersStay DEF DayInv
<1>3. \A m \in Members : (StarSum(PurchasesOf(m)) = StarSum(Positive(PurchaseEffects(m))))'
  BY <1>0, PurchasesMatchStep
<1>4. \A m \in Members :
        profile'[m] # NoMember =>
          profile'[m].annualStarCount <= Opening[m].annualStarCount + StarsGained(m)'
  BY <1>2, AnnualCountStep
<1>5. \A r \in Runs : CountsGained(r)'
  BY CountsGainedStep
<1> QED BY <1>0, <1>1, <1>2, <1>3, <1>4, <1>5 DEF CountInv

\* It holds at the start.
LEMMA CountInit == SystemInit => CountInv
<1> SUFFICES ASSUME SystemInit PROVE CountInv
  OBVIOUS
<1>1. profile = Opening /\ History = {} /\ \A r \in Runs : step[r] = "waiting"
  BY DEF SystemInit, Init, TableInit, RunsInit, History
<1>2. \A m \in Members : PurchasesOf(m) = {} /\ Positive(PurchaseEffects(m)) = {}
  BY <1>1 DEF PurchasesOf, PurchaseEffects, Positive
<1>3. PurchasesAddStars /\ \A r \in Runs : CountsGained(r)
  BY <1>1 DEF PurchasesAddStars, CountsGained
<1>4. \A m \in Members : profile[m] # NoMember =>
        profile[m].annualStarCount <= Opening[m].annualStarCount + StarsGained(m)
  <2>1. ASSUME NEW m \in Members, profile[m] # NoMember
        PROVE  Opening[m].annualStarCount <= Opening[m].annualStarCount + StarsGained(m)
    <3>1. Opening[m].annualStarCount \in Int
      BY <1>1, <2>1, OpeningAssumption DEF Profile
    <3>2. StarsGained(m) \in Nat
      BY GainedIsNatural, AuditInit
    <3> QED BY <3>1, <3>2
  <2> QED BY <1>1, <2>1
<1> QED BY <1>1, <1>2, <1>3, <1>4 DEF CountInv

\* The annual count is covered by credits: it is at most the opening one and the
\* stars that the sendings of purchases added, each counted once, although the
\* evaluation overwrites what purchases add to.
THEOREM CountsAreCovered == SystemSpec => []CountIsCovered
<1>1. ASSUME CountInv PROVE CountIsCovered
  <2>1. \A m \in Members :
          {e \in HandlerEffects(m) : e.stars > 0} = Positive(EffectsOn(m))
    BY DEF HandlerEffects, EffectsOn, AllEffects, OverEffects, Handled, Positive
  <2>2. CountIsCovered <=>
          \A m \in Members :
            profile[m] # NoMember =>
              profile[m].annualStarCount <=
                Opening[m].annualStarCount + StarSum({e \in HandlerEffects(m) : e.stars > 0})
    BY DEF CountIsCovered, StarSum, MapThenSumSet, MapThenFoldSet
  <2> QED BY <1>1, <2>1, <2>2 DEF CountInv, StarsGained
<1>2. SystemInv /\ DayInv /\ AuditInv /\ AuditInv' /\ CountInv /\ [SystemNext]_systemVars
        => CountInv'
  BY CountStep
<1> QED BY <1>1, <1>2, CountInit, SystemInvHolds, DayInvHolds, AuditInvHolds, PTL
      DEF SystemSpec

-----------------------------------------------------------------------------
\* Nothing goes wrong with a run but that its event waits too long.
RunsAreSound == RunFaults \subseteq {"event too old"}

\* The rule of the expiration fires once a day.
OneExpirationADay ==
  \A q, r \in Runs :
    JobOf[q] = "expiration" /\ JobOf[r] = "expiration" /\ DayOf[q] = DayOf[r] => q = r

\* Something may happen on the first day.
CalendarBegins == 0 \in Calendar

\* The variables of AtomicExpiration, with Balance, as RewardsSystem sees them.
Held == ledger \ BeingDeleted

\* The entries whose stars were deducted.
Gone == UNION {x.entries : x \in deductions}

\* What a run is about to deduct is the sum of entries that are all there.
Whole(r) ==
  step[r] = "deduct" =>
    work[r].entries \subseteq ledger /\ work[r].stars = StarSum(work[r].entries)

\* What makes a deduction one step with the deletion of its entries.
AtomicInv ==
  /\ today \in Calendar
  /\ \A r \in Runs : Whole(r)

\* At most one run of the expiration is going on.
LEMMA OneExpires ==
  ASSUME SystemInv, OneExpirationADay, NEW q \in Runs, NEW r \in Runs,
         step[q] \in ExpirationRequest, step[r] \in ExpirationRequest
  PROVE  q = r
<1>1. \A s \in {q, r} : JobOf[s] = "expiration" /\ DayOf[s] = today
  BY DEF SystemInv, RunInv, RunControl, Active, Ended, ExpirationRequest
<1> QED BY <1>1 DEF OneExpirationADay

\* Only the deletion of expired entries takes anything from the ledger.
LEMMA LedgerAfterRun ==
  ASSUME NEW r \in Runs, RunAction(r), step[r] # "delete_star_ledger_entries"
  PROVE  ledger' = ledger
<1> USE DEF tableVars
<1>1. StartExpiration(r) \/ StartEvaluation(r) => ledger' = ledger
  BY DEF StartExpiration, StartEvaluation, StartRun
<1>2. \/ QueryGreenMembers(r) \/ ReadLedger(r) \/ Deduct(r) \/ DeductUnanswered(r)
      \/ RecordExpiration(r)
      => ledger' = ledger
  BY DEF QueryGreenMembers, ReadLedger, Deduct, DeductUnanswered, RecordExpiration
<1>3. ~DeleteEntries(r)
  BY DEF DeleteEntries
<1>4. \/ QueryDueMembers(r) \/ SumYear(r) \/ MoveTier(r) \/ SetAnnualCount(r)
      \/ ListPromotedEntries(r) \/ RemoveExpirationDate(r) \/ RecordTierChange(r)
      \/ KeepTierDate(r) \/ KeepTierKey(r)
      => ledger' = ledger
  BY DEF QueryDueMembers, SumYear, MoveTier, SetAnnualCount, ListPromotedEntries,
         RemoveExpirationDate, RecordTierChange, KeepTierDate, KeepTierKey
<1>5. \/ CrashRun(r) \/ DiscardRun(r) \/ ExpirationRequestFails(r)
      \/ EvaluationRequestFails(r) \/ RemovalFails(r)
      => ledger' = ledger
  BY DEF CrashRun, DiscardRun, ExpirationRequestFails, EvaluationRequestFails, RemovalFails
<1> QED BY <1>1, <1>2, <1>3, <1>4, <1>5 DEF RunAction, RunStep, RunFault, Expire, Evaluate

\* A sound run that deletes entries goes on doing so until none is left.
LEMMA DeletionGoesOn ==
  ASSUME SystemInv, RunsAreSound, NEW r \in Runs, RunAction(r),
         step[r] = "delete_star_ledger_entries"
  PROVE  /\ SameMember(r) /\ UNCHANGED deductions
         /\ \/ step'[r] = "record_expiration"
               /\ ledger' = ledger \ {b \in work[r].entries : b.member = work[r].member}
            \/ step'[r] = "delete_star_ledger_entries"
               /\ work'[r].entries \subseteq work[r].entries
               /\ ledger' = ledger \ {b \in work[r].entries \ work'[r].entries :
                                        b.member = work[r].member}
<1>1. "crash" \notin RunFaults /\ "request error" \notin RunFaults
  BY DEF RunsAreSound
<1>2. ~CrashRun(r) /\ ~ExpirationRequestFails(r) /\ ~EvaluationRequestFails(r) /\ ~RemovalFails(r)
  BY <1>1 DEF CrashRun, ExpirationRequestFails, EvaluationRequestFails, RemovalFails, RemovalRequest
<1>3. ~DiscardRun(r) /\ ~StartExpiration(r) /\ ~StartEvaluation(r)
  BY DEF DiscardRun, StartExpiration, StartEvaluation, StartRun
<1>4. /\ ~QueryGreenMembers(r) /\ ~ReadLedger(r) /\ ~Deduct(r) /\ ~DeductUnanswered(r)
      /\ ~RecordExpiration(r)
  BY DEF QueryGreenMembers, ReadLedger, Deduct, DeductUnanswered, RecordExpiration
<1>5. /\ ~QueryDueMembers(r) /\ ~SumYear(r) /\ ~MoveTier(r) /\ ~SetAnnualCount(r)
      /\ ~RecordTierChange(r) /\ ~KeepTierDate(r) /\ ~KeepTierKey(r)
      /\ ~ListPromotedEntries(r) /\ ~RemoveExpirationDate(r)
  BY DEF QueryDueMembers, SumYear, MoveTier, SetAnnualCount, RecordTierChange,
     KeepTierDate, KeepTierKey, ListPromotedEntries, RemoveExpirationDate
<1>6. DeleteEntries(r)
  BY <1>2, <1>3, <1>4, <1>5 DEF RunAction, RunStep, RunFault, Expire, Evaluate
<1>7. ~Quits(r)
  <2>1. step'[r] \in {"record_expiration", "delete_star_ledger_entries"}
    BY <1>6 DEF DeleteEntries, RunGoesTo, SystemInv, RunInv, RunTypes
  <2> QED BY <2>1 DEF Quits
<1>8. \A n : ~Pays(r, n)
  BY DEF Pays
<1>9. /\ SameMember(r) /\ UNCHANGED deductions
      /\ \/ step'[r] = "record_expiration"
            /\ ledger' = ledger \ {b \in work[r].entries : b.member = work[r].member}
         \/ step'[r] = "delete_star_ledger_entries"
            /\ ledger' = ledger \ {b \in work[r].entries \ work'[r].entries :
                                     b.member = work[r].member}
  <2> HIDE DEF Quits
  <2> QED BY <1>7, <1>8, ExpirationCases DEF ExpirationRequest
<1>10. step'[r] = "delete_star_ledger_entries" => work'[r].entries \subseteq work[r].entries
  BY ExpirationDetail
<1> QED BY <1>9, <1>10

\* A sound run takes stars by the sending it hears of.
LEMMA SoundTaking ==
  ASSUME SystemInv, RunsAreSound, NEW r \in Runs, RunAction(r), deductions' # deductions
  PROVE  /\ step[r] = "deduct" /\ step'[r] = "delete_star_ledger_entries"
         /\ work[r] \in ExpirationWork /\ work' = work /\ ledger' = ledger
         /\ deductions' = deductions \cup {Taken(r, 0)}
<1>1. PICK n \in Sending : Takes(r, n)
  BY HistoryAfterRun
<1>2. ~DeductUnanswered(r)
  BY DEF RunsAreSound, DeductUnanswered
<1> QED BY <1>1, <1>2 DEF Takes

-----------------------------------------------------------------------------
\* It holds at the start.
LEMMA AtomicInvInit == ASSUME CalendarBegins PROVE SystemInit => AtomicInv
BY DEF CalendarBegins, SystemInit, Init, TableInit, RunsInit, AtomicInv, Whole

\* Every step keeps it: nobody else deletes while a run is about to deduct.
LEMMA AtomicInvStep ==
  ASSUME SystemInv, AtomicInv, OneExpirationADay, [SystemNext]_systemVars
  PROVE  AtomicInv'
<1>0. today \in Calendar /\ \A r \in Runs : Whole(r)
  BY DEF AtomicInv
<1>1. ASSUME UNCHANGED <<step, work>>, ledger \subseteq ledger', today' \in Calendar
      PROVE  AtomicInv'
  BY <1>0, <1>1 DEF AtomicInv, Whole
<1>2. CASE /\ [Next]_vars /\ today' = today
           /\ UNCHANGED <<byTier, runVars, historyVars>>
  <2>1. ledger \subseteq ledger'
    BY <1>2, HandlersAdd DEF SystemInv
  <2> QED BY <1>0, <1>1, <1>2, <2>1 DEF runVars
<1>3. CASE PropagateToTierIndex /\ UNCHANGED <<deliveryVars, runVars, historyVars>>
  BY <1>0, <1>1, <1>3 DEF PropagateToTierIndex, tableVars, runVars
<1>4. CASE DeleteOldRecord
  BY <1>0, <1>1, <1>4 DEF DeleteOldRecord, TimeToLive, runVars
<1>5. CASE NextDate
  <2>1. today' \in Calendar
    BY <1>5 DEF NextDate, AdvanceCalendar
  <2> QED BY <1>1, <1>5, <2>1 DEF NextDate, AdvanceCalendar, tableVars, runVars
<1>6. ASSUME NEW q \in Runs, RunAction(q) PROVE AtomicInv'
  <2>1. today' = today
    BY <1>6, RunLeaves
  <2>2. ASSUME NEW r \in Runs, step'[r] = "deduct"
        PROVE  work'[r].entries \subseteq ledger' /\ work'[r].stars = StarSum(work'[r].entries)
    <3>1. CASE r = q
      <4>1. /\ ledger' = ledger
            /\ \/ /\ work'[r].entries = Expired(work[r].member, today)
                  /\ work'[r].stars = StarsIn(work'[r].entries)
               \/ /\ step[r] = "deduct" /\ work'[r].entries = work[r].entries
                  /\ work'[r].stars = work[r].stars
        BY <1>6, <2>2, <3>1, ExpirationDetail
      <4>2. Expired(work[r].member, today) \subseteq ledger
        BY DEF Expired, GetStarLedgerEntries
      <4>3. CASE /\ work'[r].entries = Expired(work[r].member, today)
                 /\ work'[r].stars = StarsIn(work'[r].entries)
        BY <4>1, <4>2, <4>3 DEF StarsIn, StarSum
      <4>4. CASE /\ step[r] = "deduct" /\ work'[r].entries = work[r].entries
                 /\ work'[r].stars = work[r].stars
        BY <1>0, <4>1, <4>4 DEF Whole
      <4> QED BY <4>1, <4>3, <4>4
    <3>2. CASE r # q
      <4>1. step'[r] = step[r] /\ work'[r] = work[r]
        BY <1>6, <3>2, OtherRunsStay DEF SystemInv, RunInv
      <4>2. step[q] # "delete_star_ledger_entries"
        BY <2>2, <3>2, <4>1, OneExpires DEF ExpirationRequest
      <4>3. ledger' = ledger
        BY <1>6, <4>2, LedgerAfterRun
      <4> QED BY <1>0, <2>2, <4>1, <4>3 DEF Whole
    <3> QED BY <3>1, <3>2
  <2> QED BY <1>0, <2>1, <2>2 DEF AtomicInv, Whole
<1> QED BY <1>2, <1>3, <1>4, <1>5, <1>6, SystemNextCases

-----------------------------------------------------------------------------
\* It is kept always.
LEMMA AtomicInvHolds ==
  ASSUME OneExpirationADay, CalendarBegins
  PROVE  SystemSpec => []AtomicInv
<1>1. SystemInit => AtomicInv
  BY AtomicInvInit
<1>2. SystemInv /\ AtomicInv /\ [SystemNext]_systemVars => AtomicInv'
  BY AtomicInvStep
<1> QED BY <1>1, <1>2, SystemInvHolds, PTL DEF SystemSpec

\* Initial states map to initial states.
LEMMA InitIsAtomic == SystemInit => Atomic!Init
<1> SUFFICES ASSUME SystemInit PROVE Atomic!Init
  OBVIOUS
<1>1. /\ profile = Opening /\ ledger = {} /\ deductions = {}
  BY DEF SystemInit, Init, TableInit, ExpirationInit
<1> QED BY <1>1 DEF Atomic!Init

\* A step that moves no stars and no entries is a stutter.
LEMMA StutterIsAtomic ==
  ASSUME Balance' = Balance, Held' = Held, Gone' = Gone
  PROVE  UNCHANGED Atomic!vars
BY DEF Atomic!vars, Balance, Held, Gone

\* The steps of AtomicExpiration, with its variables as RewardsSystem sees
\* them.
LEMMA AtomicSteps ==
  /\ \A a \in Members : \A stars \in UNION {PossibleStars(d) : d \in Deliveries} :
       /\ Balance[a] + stars >= 0
       /\ Balance' = [Balance EXCEPT ![a] = @ + stars]
       /\ Held' = Held /\ Gone' = Gone
       => Atomic!Next
  /\ \A e \in PossibleEntries :
       /\ e \notin Held \cup Gone
       /\ Held' = Held \cup {e}
       /\ Balance' = Balance /\ Gone' = Gone
       => Atomic!Next
  /\ \A a \in Members : \A batch \in SUBSET Held :
       /\ \A e \in batch : e.member = a
       /\ Balance[a] >= StarSum(batch)
       /\ Balance' = [Balance EXCEPT ![a] = @ - StarSum(batch)]
       /\ Held' = Held \ batch
       /\ Gone' = Gone \cup batch
       => Atomic!Next
<1>1. ASSUME NEW a \in Members, NEW stars \in UNION {PossibleStars(d) : d \in Deliveries},
             Balance[a] + stars >= 0, Balance' = [Balance EXCEPT ![a] = @ + stars],
             Held' = Held, Gone' = Gone
      PROVE  Atomic!Next
  <2>1. Atomic!Move(a, stars)
    BY <1>1 DEF Atomic!Move, Balance, Held, Gone
  <2> QED BY <2>1 DEF Atomic!Next
<1>2. ASSUME NEW e \in PossibleEntries, e \notin Held \cup Gone, Held' = Held \cup {e},
             Balance' = Balance, Gone' = Gone
      PROVE  Atomic!Next
  <2>1. Atomic!Age(e)
    BY <1>2 DEF Atomic!Age, Balance, Held, Gone
  <2> QED BY <2>1 DEF Atomic!Next
<1>3. ASSUME NEW a \in Members, NEW batch \in SUBSET Held, \A e \in batch : e.member = a,
             Balance[a] >= StarSum(batch),
             Balance' = [Balance EXCEPT ![a] = @ - StarSum(batch)],
             Held' = Held \ batch, Gone' = Gone \cup batch
      PROVE  Atomic!Next
  <2>1. Atomic!ExpireTogether(a, batch)
    BY <1>3 DEF Atomic!ExpireTogether, Atomic!MapThenSumSet, Atomic!MapThenFoldSet,
         StarSum, MapThenSumSet, MapThenFoldSet, Balance, Held, Gone
  <2>2. batch \in SUBSET (ledger \ BeingDeleted)
    BY DEF Held
  <2> QED BY <2>1, <2>2 DEF Atomic!Next
<1> QED BY <1>1, <1>2, <1>3

-----------------------------------------------------------------------------
\* Only a balance update moves the balances, and only a purchase adds to the
\* ledger.
LEMMA HandlersMoveOrAge ==
  ASSUME CoreInv, [Next]_vars
  PROVE  \/ profile' = profile /\ ledger' = ledger
         \/ /\ ledger' = ledger
            /\ \E d \in Deliveries, a \in Members :
                 /\ Delta(d) \in PossibleStars(d)
                 /\ StarsOf(profile[a]) \in Int /\ Delta(d) \in Int
                 /\ Balance' = [Balance EXCEPT ![a] = @ + Delta(d)]
         \/ /\ profile' = profile
            /\ \E d \in Deliveries :
                 /\ IsPurchase(d) /\ pc[d] = "create_star_ledger_entry"
                 /\ ledger' = ledger \cup
                      {[member |-> EventOf[d].member, stars |-> local[d].stars,
                        day |-> local[d].now, by |-> <<d, attempt[d]>>]}
<1>0. TypeOK /\ \A d \in Deliveries : Progress(d)
  BY DEF CoreInv
<1>1. ASSUME Propagate \/ PassDay \/ UNCHANGED vars PROVE profile' = profile /\ ledger' = ledger
  BY <1>1 DEF Propagate, PropagateToIndex, PassDay, NextDay, vars, tableVars
<1>2. ASSUME NEW d \in Deliveries,
             \/ Invoke(d) \/ Respond(d) \/ Crash(d) \/ RequestFails(d) \/ Discard(d)
             \/ PurchaseCheck(d) \/ PurchaseGetMember(d) \/ RedemptionCheck(d)
             \/ RedemptionGetMember(d) \/ PurchaseRecord(d) \/ RedemptionRecord(d)
      PROVE  profile' = profile /\ ledger' = ledger
  BY <1>2 DEF Invoke, Respond, Crash, RequestFails, Discard, PurchaseCheck, PurchaseGetMember,
     RedemptionCheck, RedemptionGetMember, CheckIdempotency, PurchaseRecord, RedemptionRecord,
     tableVars
<1>3. ASSUME NEW d \in Deliveries, IsPurchase(d), PurchaseCreateLedgerEntry(d)
      PROVE  /\ profile' = profile /\ pc[d] = "create_star_ledger_entry"
             /\ ledger' = ledger \cup
                  {[member |-> EventOf[d].member, stars |-> local[d].stars,
                    day |-> local[d].now, by |-> <<d, attempt[d]>>]}
  BY <1>3 DEF PurchaseCreateLedgerEntry, CreateStarLedgerEntry
<1>4. ASSUME NEW d \in Deliveries,
             \/ IsPurchase(d) /\ PurchaseUpdateBalance(d)
             \/ IsRedemption(d) /\ RedemptionUpdateBalance(d)
             \/ Resent(d)
      PROVE  \/ profile' = profile /\ ledger' = ledger
             \/ /\ ledger' = ledger
                /\ \E a \in Members :
                     /\ Delta(d) \in PossibleStars(d)
                     /\ StarsOf(profile[a]) \in Int /\ Delta(d) \in Int
                     /\ Balance' = [Balance EXCEPT ![a] = @ + Delta(d)]
  <2> DEFINE m == EventOf[d].member
  <2>0. pc[d] = "update_member_balance" /\ ledger' = ledger /\ m \in Members
    <3>1. CASE Resent(d)
      BY <1>0, <3>1, ResentUpdate, EventFields
    <3>2. CASE ~Resent(d)
      BY <1>4, <3>2, EventFields DEF PurchaseUpdateBalance, RedemptionUpdateBalance
    <3> QED BY <3>1, <3>2
  <2>1. /\ local[d].stars \in Int /\ Delta(d) \in PossibleStars(d)
        /\ profile[m] \in Profile
    BY <1>0, <2>0, DeltaIsStars DEF Running, Request
  <2>2. local[d].now \in Day /\ -local[d].stars \in Int /\ 0 \in Int
    <3>1. \A k \in Int : -k \in Int
      OBVIOUS
    <3>2. local[d].now \in Day
      BY <1>0 DEF TypeOK, Local
    <3> QED BY <2>1, <3>1, <3>2
  <2>3. \/ profile' = profile
        \/ \E annual \in Int, activity \in Day \cup {NeverActive} :
             UpdateMemberBalance(m, Delta(d), annual, activity)
    <3>1. CASE IsPurchase(d) /\ PurchaseUpdateBalance(d)
      BY <2>1, <2>2, <3>1 DEF PurchaseUpdateBalance, Delta, IsPurchase
    <3>2. CASE IsRedemption(d) /\ RedemptionUpdateBalance(d)
      BY <2>1, <2>2, <3>2 DEF RedemptionUpdateBalance, Delta, IsRedemption
    <3>3. CASE Resent(d)
      BY <1>0, <3>3, ResentUpdate
    <3> QED BY <1>4, <3>1, <3>2, <3>3
  <2>4. Delta(d) \in Int
    BY <2>1, <2>2 DEF Delta
  <2>5. ASSUME NEW annual \in Int, NEW activity \in Day \cup {NeverActive},
               UpdateMemberBalance(m, Delta(d), annual, activity)
        PROVE  Balance' = [Balance EXCEPT ![m] = @ + Delta(d)]
    <3>1. /\ profile'[m] \in Profile
          /\ profile'[m].starBalance = profile[m].starBalance + Delta(d)
          /\ \A n \in Members \ {m} : profile'[n] = profile[n]
      BY <1>0, <2>0, <2>1, <2>4, <2>5, UpdatedProfile
    <3>2. profile[m] # NoMember /\ profile'[m] # NoMember
      BY <2>1, <3>1, NoMemberAssumption
    <3> QED BY <2>0, <3>1, <3>2 DEF Balance, StarsOf
  <2>6. StarsOf(profile[m]) \in Int
    BY <2>1, NoMemberAssumption DEF StarsOf, Profile
  <2> QED BY <2>0, <2>1, <2>3, <2>4, <2>5, <2>6
<1> QED BY <1>1, <1>2, <1>3, <1>4, NextCases DEF DeliveryAction

\* The handlers move the balances, age what was bought, or stutter.
LEMMA HandlersAreAtomic ==
  ASSUME SystemInv, BalanceNonNegative', EntriesInv, DayInv, AtomicInv,
         [Next]_vars, today' = today, UNCHANGED <<runVars, historyVars>>
  PROVE  Atomic!Next \/ UNCHANGED Atomic!vars
<1>0. /\ CoreInv /\ TypeOK /\ UNCHANGED <<step, work, deductions>>
      /\ \A d \in Deliveries : Progress(d)
  BY DEF SystemInv, CoreInv, runVars, historyVars
<1>1. Gone' = Gone /\ BeingDeleted' = BeingDeleted
  BY <1>0 DEF Gone, BeingDeleted
<1>2. ledger' = ledger => Held' = Held
  BY <1>1 DEF Held
<1>3. profile' = profile => Balance' = Balance
  BY DEF Balance
<1>4. CASE profile' = profile /\ ledger' = ledger
  BY <1>1, <1>2, <1>3, <1>4, StutterIsAtomic
<1>5. ASSUME NEW d \in Deliveries, NEW a \in Members, ledger' = ledger,
             Delta(d) \in PossibleStars(d),
             StarsOf(profile[a]) \in Int, Delta(d) \in Int,
             Balance' = [Balance EXCEPT ![a] = @ + Delta(d)]
      PROVE  Atomic!Next
  <2>1. Balance'[a] = Balance[a] + Delta(d)
    BY <1>5 DEF Balance
  <2>2. Balance'[a] >= 0
    BY DEF BalanceNonNegative, Balance, StarsOf
  <2>3. PICK stars \in UNION {PossibleStars(e) : e \in Deliveries} : stars = Delta(d)
    BY <1>5
  <2>4. Balance[a] + stars >= 0
    BY <2>1, <2>2, <2>3
  <2>5. Balance' = [Balance EXCEPT ![a] = @ + stars]
    BY <1>5, <2>3
  <2> QED BY <1>1, <1>2, <1>5, <2>4, <2>5, AtomicSteps
<1>6. ASSUME NEW d \in Deliveries, profile' = profile, IsPurchase(d),
             pc[d] = "create_star_ledger_entry",
             ledger' = ledger \cup
               {[member |-> EventOf[d].member, stars |-> local[d].stars,
                 day |-> local[d].now, by |-> <<d, attempt[d]>>]}
      PROVE  Atomic!Next
  <2> DEFINE e == [member |-> EventOf[d].member, stars |-> local[d].stars,
                   day |-> local[d].now, by |-> <<d, attempt[d]>>]
  <2>1. /\ local[d].stars \in Int /\ Delta(d) \in PossibleStars(d)
        /\ attempt[d] \in 1..MaxAttempts /\ <<d, attempt[d]>> \in Stamps
    BY <1>0, <1>6, DeltaIsStars DEF Running, Request
  <2>2. local[d].now = today /\ today \in Calendar
    BY <1>6 DEF DayInv, ReadToday, AtomicInv, Running, Request
  <2>3. Delta(d) = local[d].stars
    BY <1>6 DEF Delta, IsPurchase
  <2>4. e \in PossibleEntries
    BY <1>6, <2>1, <2>2, <2>3 DEF PossibleEntries
  <2>5. e \in LedgerEntry
    <3>1. EventOf[d].member \in Members /\ local[d].now \in Day
      BY <1>0, EventFields DEF TypeOK, Local
    <3> QED BY <2>1, <3>1 DEF LedgerEntry
  <2>6. ~Seen(e)
    <3>1. e.by[1] = d /\ e.by = <<d, attempt[d]>>
      OBVIOUS
    <3> HIDE DEF e
    <3> QED BY <1>6, <2>5, <3>1 DEF EntriesInv, EntryStamped
  <2> HIDE DEF e
  <2>7. e \notin ledger /\ e \notin Gone
    BY <2>6 DEF Seen, Gone
  <2>8. e \notin BeingDeleted
    BY <2>6 DEF Seen, BeingDeleted, Lists, MemberExpiration
  <2>9. ledger' = ledger \cup {e}
    BY <1>6 DEF e
  <2>10. Held' = Held \cup {e} /\ e \notin Held \cup Gone
    BY <1>1, <2>7, <2>8, <2>9 DEF Held
  <2> QED BY <1>1, <1>3, <1>6, <2>4, <2>10, AtomicSteps
<1> QED BY <1>0, <1>4, <1>5, <1>6, HandlersMoveOrAge

-----------------------------------------------------------------------------
\* A deduction takes the entries out of what is held, and only it does.
LEMMA HeldAfterRun ==
  ASSUME SystemInv, DayInv, ExpirationInv, RunsAreSound, OneExpirationADay,
         NEW r \in Runs, RunAction(r)
  PROVE  IF deductions' = deductions THEN Held' = Held
                                     ELSE Held' = Held \ work[r].entries
<1>0. \A q \in Runs \ {r} : step'[q] = step[q] /\ work'[q] = work[q]
  BY OtherRunsStay
<1>1. \A b : b \in BeingDeleted <=>
        \E q \in Runs : step[q] = "delete_star_ledger_entries" /\ b \in work[q].entries
  BY DEF BeingDeleted
<1>2. \A b : b \in BeingDeleted' <=>
        \E q \in Runs : step'[q] = "delete_star_ledger_entries" /\ b \in work'[q].entries
  BY DEF BeingDeleted
<1>3. CASE step[r] = "delete_star_ledger_entries"
  <2>1. \A q \in Runs \ {r} : step[q] # "delete_star_ledger_entries"
    BY <1>3, OneExpires DEF ExpirationRequest
  <2>2. BeingDeleted = work[r].entries
    BY <1>1, <1>3, <2>1
  <2>3. UNCHANGED deductions
    BY <1>3, DeletionGoesOn
  <2>4. \A b \in work[r].entries : b.member = work[r].member
    BY <1>3 DEF DayInv, HoldsOldEntries
  <2>5. CASE /\ step'[r] = "record_expiration"
             /\ ledger' = ledger \ {b \in work[r].entries : b.member = work[r].member}
    <3>1. BeingDeleted' = {}
      BY <1>0, <1>2, <2>1, <2>5
    <3>2. ledger' = ledger \ work[r].entries
      BY <2>4, <2>5
    <3> QED BY <2>2, <2>3, <3>1, <3>2 DEF Held
  <2>6. CASE /\ step'[r] = "delete_star_ledger_entries"
             /\ work'[r].entries \subseteq work[r].entries
             /\ ledger' = ledger \ {b \in work[r].entries \ work'[r].entries :
                                      b.member = work[r].member}
    <3>1. BeingDeleted' = work'[r].entries
      BY <1>0, <1>2, <2>1, <2>6
    <3>2. ledger' = ledger \ (work[r].entries \ work'[r].entries)
      BY <2>4, <2>6
    <3> QED BY <2>2, <2>3, <2>6, <3>1, <3>2 DEF Held
  <2> QED BY <1>3, <2>5, <2>6, DeletionGoesOn
<1>4. CASE step[r] # "delete_star_ledger_entries" /\ deductions' = deductions
  <2>1. step'[r] # "delete_star_ledger_entries"
    <3>1. SUFFICES ASSUME step'[r] = "delete_star_ledger_entries" PROVE FALSE
      OBVIOUS
    <3>2. step[r] = "deduct" /\ Deduct(r)
      BY <1>4, <3>1, ExpirationDetail
    <3>3. deductions' = deductions \cup {Taken(r, 0)}
      BY <3>1, <3>2 DEF Deduct, RunReturns, SystemInv, RunInv, RunTypes
    <3> QED BY <1>4, <3>2, <3>3, TakenIsNew
  <2>2. BeingDeleted' = BeingDeleted
    BY <1>0, <1>1, <1>2, <1>4, <2>1
  <2>3. ledger' = ledger
    BY <1>4, LedgerAfterRun
  <2> QED BY <1>4, <2>2, <2>3 DEF Held
<1>5. CASE deductions' # deductions
  <2>1. /\ step[r] = "deduct" /\ step'[r] = "delete_star_ledger_entries"
        /\ work' = work /\ ledger' = ledger
    BY <1>5, SoundTaking
  <2>2. BeingDeleted' = BeingDeleted \cup work[r].entries
    BY <1>0, <1>1, <1>2, <2>1
  <2> QED BY <1>5, <2>1, <2>2 DEF Held
<1> QED BY <1>3, <1>4, <1>5

\* A run takes stars and entries together, or stutters.
LEMMA RunsAreAtomic ==
  ASSUME SystemInv, BalanceNonNegative', DayInv, ExpirationInv, AtomicInv,
         RunsAreSound, OneExpirationADay, NEW r \in Runs, RunAction(r)
  PROVE  Atomic!Next \/ UNCHANGED Atomic!vars
<1>1. CASE deductions' = deductions
  <2>1. \A m \in Members : StarsOf(profile'[m]) = StarsOf(profile[m])
    BY <1>1, RunsDeduct
  <2>2. Balance' = Balance
    BY <2>1 DEF Balance
  <2>3. Gone' = Gone /\ Held' = Held
    BY <1>1, HeldAfterRun DEF Gone
  <2> QED BY <2>2, <2>3, StutterIsAtomic
<1>2. CASE deductions' # deductions
  <2> DEFINE batch == work[r].entries
             a == work[r].member
  <2>1. /\ step[r] = "deduct" /\ work[r] \in ExpirationWork
        /\ deductions' = deductions \cup {Taken(r, 0)}
    BY <1>2, SoundTaking
  <2>2. a \in Members /\ work[r].stars \in Int
    BY <2>1 DEF ExpirationWork
  <2>3. \A m \in Members :
          StarsOf(profile'[m]) = IF m = a THEN StarsOf(profile[m]) - work[r].stars
                                          ELSE StarsOf(profile[m])
    <3>1. PICK x : /\ x \notin deductions /\ deductions' = deductions \cup {x}
                   /\ \A m \in Members :
                        StarsOf(profile'[m]) =
                          IF m = x.member THEN StarsOf(profile[m]) - x.stars
                                          ELSE StarsOf(profile[m])
      BY <1>2, RunsDeduct
    <3>2. x = Taken(r, 0)
      BY <2>1, <3>1
    <3>3. x.member = a /\ x.stars = work[r].stars
      BY <3>2, TakenFields
    <3> QED BY <3>1, <3>3
  <2>4. batch \subseteq ledger /\ work[r].stars = StarSum(batch)
    BY <2>1 DEF AtomicInv, Whole
  <2>5. \A e \in batch : e.member = a
    BY <2>1 DEF DayInv, HoldsOldEntries
  <2>6. batch \subseteq Held
    <3>1. \A q \in Runs : step[q] # "delete_star_ledger_entries"
      BY <2>1, OneExpires DEF ExpirationRequest
    <3> QED BY <2>4, <3>1 DEF Held, BeingDeleted
  <2>7. Held' = Held \ batch
    BY <1>2, HeldAfterRun
  <2>8. Gone' = Gone \cup batch
    <3>1. PICK x : deductions' = deductions \cup {x} /\ x.entries = batch
      BY <2>1, TakenFields
    <3> HIDE DEF batch
    <3> QED BY <3>1 DEF Gone
  <2>9. Balance' = [Balance EXCEPT ![a] = @ - StarSum(batch)]
    BY <2>2, <2>3, <2>4 DEF Balance
  <2>10. Balance[a] >= StarSum(batch)
    <3>1. StarsOf(profile[a]) \in Int
      <4>1. \A p \in Profile \cup {NoMember} : StarsOf(p) \in Int
        BY DEF StarsOf, Profile
      <4>2. profile \in [Members -> Profile \cup {NoMember}]
        BY DEF SystemInv, CoreInv, TypeOK
      <4> QED BY <2>2, <4>1, <4>2
    <3>2. StarsOf(profile'[a]) >= 0
      BY <2>2 DEF BalanceNonNegative, StarsOf
    <3>3. StarsOf(profile'[a]) = StarsOf(profile[a]) - work[r].stars
      BY <2>2, <2>3
    <3>4. \A i, j \in Int : i - j >= 0 => i >= j
      OBVIOUS
    <3> QED BY <2>2, <2>4, <3>1, <3>2, <3>3, <3>4 DEF Balance
  <2> HIDE DEF batch, a
  <2> QED BY <2>2, <2>5, <2>6, <2>7, <2>8, <2>9, <2>10, AtomicSteps
<1> QED BY <1>1, <1>2

\* Every step maps to a step or a stutter.
LEMMA StepIsAtomic ==
  ASSUME SystemInv, SystemInv', EntriesInv, DayInv, ExpirationInv, AtomicInv,
         RunsAreSound, OneExpirationADay, [SystemNext]_systemVars
  PROVE  [Atomic!Next]_(Atomic!vars)
<1>0. BalanceNonNegative'
  BY DEF SystemInv, CoreInv
<1>1. ASSUME profile' = profile, ledger' = ledger, UNCHANGED <<step, work, deductions>>
      PROVE  UNCHANGED Atomic!vars
  <2>1. Balance' = Balance /\ Held' = Held /\ Gone' = Gone
    BY <1>1 DEF Balance, Held, BeingDeleted, Gone
  <2> QED BY <2>1, StutterIsAtomic
<1>2. CASE /\ [Next]_vars /\ today' = today
           /\ UNCHANGED <<byTier, runVars, historyVars>>
  BY <1>0, <1>2, HandlersAreAtomic
<1>3. CASE \E r \in Runs : RunAction(r)
  BY <1>0, <1>3, RunsAreAtomic
<1>4. CASE PropagateToTierIndex /\ UNCHANGED <<deliveryVars, runVars, historyVars>>
  BY <1>1, <1>4 DEF PropagateToTierIndex, tableVars, runVars, historyVars
<1>5. CASE DeleteOldRecord
  BY <1>1, <1>5 DEF DeleteOldRecord, TimeToLive, runVars
<1>6. CASE NextDate
  BY <1>1, <1>6 DEF NextDate, AdvanceCalendar, tableVars, runVars, historyVars
<1> QED BY <1>2, <1>3, <1>4, <1>5, <1>6, SystemNextCases

\* Without faults and overlaps the requests of the job amount to one atomic
\* step: stars and entries go together, each entry once, whatever purchases,
\* redemptions, their faults and the tier evaluation do in between.
THEOREM StarsExpireTogether ==
  ASSUME RunsAreSound, OneExpirationADay, CalendarBegins
  PROVE  SystemSpec => ExpiresAtomically
<1>1. ASSUME SystemInv, SystemInv', EntriesInv, DayInv, ExpirationInv, AtomicInv,
             [SystemNext]_systemVars
      PROVE  [Atomic!Next]_(Atomic!vars)
  BY <1>1, StepIsAtomic
<1>2. SystemSpec => []AtomicInv
  BY AtomicInvHolds
<1>3. SystemInit => EntriesInv
  BY EntriesInit
<1>4. SystemInv /\ EntriesInv /\ [SystemNext]_systemVars => EntriesInv'
  BY EntriesStay
<1> QED BY InitIsAtomic, <1>1, <1>2, <1>3, <1>4, SystemInvHolds, DayInvHolds,
           ExpirationInvHolds, PTL DEF SystemSpec, ExpiresAtomically, Atomic!Spec
=============================================================================
