---------------------------- MODULE HistoryProofs ---------------------------
(***************************************************************************)
(* What a client that reads a history page by page may rely on, whatever   *)
(* the clock, the pages, the limits and the tokens it may get wrong.       *)
(***************************************************************************)
EXTENDS TransactionHistory, StarLemmas, SequenceTheorems

\* A finite set of numbers that is not empty has a least and a greatest one.
LEMMA EndsOfSet ==
  ASSUME NEW S, IsFiniteSet(S), S \subseteq Int, S # {}
  PROVE  /\ \E x \in S : \A y \in S : x <= y
         /\ \E x \in S : \A y \in S : y <= x
<1> DEFINE HasEnds(R) == /\ \E x \in R : \A y \in R : x <= y
                         /\ \E x \in R : \A y \in R : y <= x
           T == {R \in SUBSET S : R # {} /\ ~HasEnds(R)}
<1> SUFFICES ASSUME T # {} PROVE FALSE
  OBVIOUS
<1>1. PICK u \in T : \A v \in T : ~(v \subseteq u /\ v # u)
  <2>1. T \subseteq SUBSET S
    OBVIOUS
  <2> HIDE DEF T
  <2> QED BY ONLY <2>1, SmallestSubset, IsFiniteSet(S), T # {}
<1>2. PICK x \in u : TRUE
  OBVIOUS
<1>3. x \in Int /\ u \subseteq Int /\ u \in SUBSET S
  OBVIOUS
<1>4. u \ {x} # {}
  <2> SUFFICES ASSUME u = {x} PROVE FALSE
    BY <1>2
  <2> QED BY <1>3
<1>5. HasEnds(u \ {x})
  <2>1. u \ {x} \notin T
    BY <1>1, <1>2
  <2> QED BY <1>3, <1>4, <2>1
<1>6. PICK a \in u \ {x} : \A y \in u \ {x} : a <= y
  BY <1>5
<1>7. PICK b \in u \ {x} : \A y \in u \ {x} : y <= b
  BY <1>5
<1>8. \E y \in u : \A z \in u : y <= z
  <2>1. CASE x <= a
    <3> WITNESS x \in u
    <3> QED BY <1>3, <1>6, <2>1
  <2>2. CASE ~(x <= a)
    <3> WITNESS a \in u
    <3> QED BY <1>3, <1>6, <2>2
  <2> QED BY <2>1, <2>2
<1>9. \E y \in u : \A z \in u : z <= y
  <2>1. CASE b <= x
    <3> WITNESS x \in u
    <3> QED BY <1>3, <1>7, <2>1
  <2>2. CASE ~(b <= x)
    <3> WITNESS b \in u
    <3> QED BY <1>3, <1>7, <2>2
  <2> QED BY <2>1, <2>2
<1> QED BY <1>8, <1>9

\* A page can be put in order, the newest record first.
LEMMA PageHasOrder ==
  ASSUME NEW S, IsFiniteSet(S), S \subseteq Int
  PROVE  \E s \in [1..Cardinality(S) -> S] :
           \A i, j \in DOMAIN s : i < j => s[i] > s[j]
<1> DEFINE Ordered(R) == \E s \in [1..Cardinality(R) -> R] :
                            \A i, j \in DOMAIN s : i < j => s[i] > s[j]
           T == {R \in SUBSET S : ~Ordered(R)}
<1> SUFFICES ASSUME T # {} PROVE FALSE
  OBVIOUS
<1>1. PICK u \in T : \A v \in T : ~(v \subseteq u /\ v # u)
  <2>1. T \subseteq SUBSET S
    OBVIOUS
  <2> HIDE DEF T
  <2> QED BY ONLY <2>1, SmallestSubset, IsFiniteSet(S), T # {}
<1>2. u \in SUBSET S /\ u \subseteq Int /\ IsFiniteSet(u)
  BY FS_Subset
<1>3. CASE u = {}
  <2>1. Cardinality(u) = 0 /\ 1..0 = {}
    BY <1>3, FS_EmptySet
  <2>2. [i \in 1..0 |-> i] \in [1..Cardinality(u) -> u]
    BY <2>1
  <2>3. Ordered(u)
    BY <2>1, <2>2
  <2> QED BY <2>3
<1>4. CASE u # {}
  <2>1. PICK least \in u : \A y \in u : least <= y
    BY <1>2, <1>4, EndsOfSet
  <2> DEFINE R == u \ {least}
             n == Cardinality(R)
  <2>2. R \in SUBSET S /\ R # u /\ R \subseteq u
    BY <1>2, <2>1
  <2>3. Ordered(R)
    BY <1>1, <2>2
  <2>4. n \in Nat /\ Cardinality(u) = n + 1
    <3>1. IsFiniteSet(R) /\ Cardinality(R) = Cardinality(u) - 1 /\ Cardinality(u) \in Nat
      BY <1>2, <2>1, FS_RemoveElement, FS_CardinalityType
    <3> QED BY <3>1, FS_CardinalityType
  <2> HIDE DEF n
  <2>5. PICK s \in [1..n -> R] : \A i, j \in DOMAIN s : i < j => s[i] > s[j]
    BY <2>3 DEF n
  <2> DEFINE t == [i \in 1..(n + 1) |-> IF i <= n THEN s[i] ELSE least]
  <2>6. t \in [1..(n + 1) -> u]
    BY <2>1, <2>4, <2>5
  <2>7. ASSUME NEW i \in 1..(n + 1), NEW j \in 1..(n + 1), i < j PROVE t[i] > t[j]
    <3>1. i \in 1..n /\ t[i] = s[i] /\ s[i] \in R
      BY <2>4, <2>5, <2>7
    <3>2. CASE j <= n
      <4>1. j \in 1..n /\ t[j] = s[j]
        BY <2>4, <3>2
      <4> QED BY <2>5, <2>7, <3>1, <4>1
    <3>3. CASE ~(j <= n)
      <4>1. t[j] = least
        BY <3>3
      <4>2. s[i] \in Int /\ least \in Int /\ least <= s[i] /\ s[i] # least
        BY <1>2, <2>1, <3>1
      <4> HIDE DEF t
      <4> QED BY <3>1, <4>1, <4>2
    <3> QED BY <3>2, <3>3
  <2>8. Ordered(u)
    <3>1. DOMAIN t = 1..(n + 1)
      OBVIOUS
    <3> HIDE DEF t
    <3>2. t \in [1..Cardinality(u) -> u]
      BY <2>4, <2>6
    <3> QED BY <2>7, <3>1, <3>2
  <2> QED BY <2>8
<1> QED BY <1>3, <1>4

\* Ordered, a page has the same records, each once.
LEMMA NewestFirstIsOrder ==
  ASSUME NEW S, IsFiniteSet(S), S \subseteq Int
  PROVE  /\ NewestFirst(S) \in Seq(S)
         /\ \A i, j \in 1..Len(NewestFirst(S)) : i < j => NewestFirst(S)[i] > NewestFirst(S)[j]
         /\ ToSet(NewestFirst(S)) = S
<1> DEFINE n == Cardinality(S)
           s == NewestFirst(S)
<1>1. n \in Nat
  BY FS_CardinalityType
<1>2. s \in [1..n -> S] /\ \A i, j \in DOMAIN s : i < j => s[i] > s[j]
  BY PageHasOrder DEF NewestFirst
<1> HIDE DEF n, s
<1>3. s \in Seq(S) /\ Len(s) = n
  BY <1>1, <1>2
<1>4. s \in Injection(1..n, S)
  <2>1. \A i, j \in 1..n : s[i] = s[j] => i = j
    <3> SUFFICES ASSUME NEW i \in 1..n, NEW j \in 1..n, s[i] = s[j], i # j PROVE FALSE
      OBVIOUS
    <3>1. s[i] \in Int /\ s[j] \in Int /\ DOMAIN s = 1..n
      BY <1>2
    <3>2. CASE i < j
      BY <1>2, <3>1, <3>2
    <3>3. CASE j < i
      BY <1>2, <3>1, <3>3
    <3> QED BY <1>1, <3>2, <3>3
  <2> QED BY <1>2, <2>1 DEF Injection, IsInjective
<1>5. IsFiniteSet(1..n) /\ Cardinality(1..n) = n
  BY <1>1, FS_Interval
<1>6. s \in Surjection(1..n, S)
  BY <1>4, <1>5, FS_Injection DEF n
<1>7. ToSet(s) = S
  BY <1>2, <1>6 DEF Surjection, ToSet
<1> QED BY <1>2, <1>3, <1>7 DEF s

\* A page is the newest of the records before its start, and when it is not full
\* there are no others.
LEMMA PageIsNewest ==
  ASSUME IsFiniteSet(items), items \subseteq Int,
         NEW key \in Int, NEW limit \in Int, limit >= 1
  PROVE  /\ Page(key, limit) \subseteq Beyond(key) /\ IsFiniteSet(Page(key, limit))
         /\ \A i \in Beyond(key), j \in Page(key, limit) : i >= j => i \in Page(key, limit)
         /\ Cardinality(Page(key, limit)) # limit => Page(key, limit) = Beyond(key)
<1> DEFINE B == Beyond(key)
           P == Page(key, limit)
           Newer(i) == {j \in B : j > i}
<1>1. B \subseteq Int /\ IsFiniteSet(B)
  <2>1. B \in SUBSET items
    BY DEF Beyond
  <2> QED BY <2>1, FS_Subset
<1>2. P = {i \in B : Cardinality(Newer(i)) < limit}
  BY DEF Page
<1> HIDE DEF B, P
<1>3. P \subseteq B /\ IsFiniteSet(P) /\ Cardinality(P) \in Nat
  BY <1>1, <1>2, FS_Subset, FS_CardinalityType
<1>4. \A i \in B : IsFiniteSet(Newer(i)) /\ Cardinality(Newer(i)) \in Nat
  BY <1>1, FS_Subset, FS_CardinalityType
<1>5. ASSUME NEW i \in B, NEW j \in P, i >= j PROVE i \in P
  <2>0. i \in Int /\ j \in Int /\ \A k \in B : k \in Int
    BY <1>1, <1>3
  <2>1. Newer(i) \in SUBSET Newer(j)
    <3>1. \A k \in B : k > i => k > j
      BY <1>5, <2>0
    <3> QED BY <3>1
  <2>2. Cardinality(Newer(i)) <= Cardinality(Newer(j))
    BY <1>3, <1>4, <2>1, FS_Subset
  <2>3. Cardinality(Newer(j)) < limit
    BY <1>2
  <2>4. Cardinality(Newer(i)) \in Nat /\ Cardinality(Newer(j)) \in Nat
    BY <1>3, <1>4
  <2>5. Cardinality(Newer(i)) < limit
    BY <2>2, <2>3, <2>4
  <2> QED BY <1>2, <2>5
<1>6. ASSUME P # B PROVE Cardinality(P) = limit
  <2>1. B \ P \subseteq Int /\ B \ P # {} /\ IsFiniteSet(B \ P)
    <3>1. B \ P \in SUBSET B
      OBVIOUS
    <3> QED BY <1>1, <1>3, <1>6, <3>1, FS_Subset
  <2>2. PICK left \in B \ P : \A y \in B \ P : y <= left
    BY <2>1, EndsOfSet
  <2>3. Newer(left) = P
    <3>1. ASSUME NEW j \in B, j > left PROVE j \in P
      BY <1>1, <2>2, <3>1
    <3>2. ASSUME NEW j \in P PROVE j > left
      BY <1>1, <1>3, <1>5, <2>2, <3>2
    <3> QED BY <1>3, <3>1, <3>2
  <2>4. Cardinality(P) >= limit
    <3>1. ~(Cardinality(Newer(left)) < limit)
      BY <1>2
    <3> QED BY <1>3, <2>3, <3>1
  <2>5. P # {}
    BY <1>3, <2>4, FS_EmptySet
  <2>6. PICK last \in P : \A y \in P : last <= y
    <3>1. P \subseteq Int
      BY <1>1, <1>3
    <3> QED BY <1>3, <2>5, <3>1, EndsOfSet
  <2>7. Newer(last) = P \ {last}
    <3>1. last \in Int /\ last \in B /\ \A k \in B : k \in Int
      BY <1>1, <1>3
    <3>2. \A k \in B : k > last => k \in P /\ k # last
      BY <1>5, <3>1
    <3>3. \A k \in P : k # last => k \in B /\ k > last
      BY <1>3, <2>6, <3>1
    <3> QED BY <3>2, <3>3
  <2>8. Cardinality(P \ {last}) = Cardinality(P) - 1
    BY <1>3, <2>6, FS_RemoveElement
  <2>9. Cardinality(P \ {last}) < limit
    <3>1. Cardinality(Newer(last)) < limit
      BY <1>2
    <3> QED BY <2>7, <3>1
  <2> QED BY <1>3, <2>4, <2>8, <2>9
<1> QED BY <1>3, <1>5, <1>6 DEF B, P

-----------------------------------------------------------------------------
Request == [at : {"client", "get_member", "query"}, limit : Limits \cup {1, NotANumber},
            sent : {NoToken, Garbage} \cup (1..MaxTime), code : {0, 200, 400, 404, 500}]

\* The records there are or were, the request on its way and the token fit what
\* the client was shown.
HistoryInv ==
  /\ TypeOK
  /\ request \in Request
  /\ items \cap deleted = {}
  /\ atStart \subseteq items \cup deleted
  /\ request.at = "get_member" => request.sent \in {token, Garbage}
  /\ request.at = "query" => request.sent = token /\ request.limit # NotANumber
  /\ token = NoToken => shown = <<>>
  /\ token \in 1..MaxTime => \A i \in DOMAIN shown : shown[i] >= token
  /\ ReadsEachOnce
  /\ NothingSkipped

\* It holds at the start: nothing was shown.
LEMMA HistoryInvInit == Init => HistoryInv
<1> SUFFICES ASSUME Init PROVE HistoryInv
  OBVIOUS
<1>1. NoToken = 0 /\ NoToken # End
  BY HistoryAssumption DEF NoToken
<1>2. request \in Request
  BY DEF Init, Nothing, At, Request, NoToken
<1>3. TypeOK
  BY <1>1, HistoryAssumption DEF Init, TypeOK, Nothing, At
<1>4. shown = <<>> /\ DOMAIN shown = {}
  BY DEF Init
<1>5. ReadsEachOnce /\ NothingSkipped
  BY <1>4 DEF Init, ReadsEachOnce, NothingSkipped
<1> QED BY <1>1, <1>2, <1>3, <1>4, <1>5 DEF Init, HistoryInv, Nothing, At

\* The table changes by itself: a record that comes was not there at the first
\* page, one that goes is no longer owed to the client.
LEMMA TableKeepsHistory ==
  ASSUME HistoryInv, Tick \/ BecomeMember \/ AddRecord \/ DeleteExpired
  PROVE  HistoryInv'
<1>1. UNCHANGED <<request, token, shown, atStart>>
  BY DEF Tick, BecomeMember, AddRecord, DeleteExpired, readerVars
<1>2. /\ items \subseteq 1..clock /\ deleted \subseteq 1..clock /\ clock \in 0..MaxTime
      /\ MaxTime \in Nat /\ Delay \in Nat
  BY HistoryAssumption DEF HistoryInv, TypeOK
<1>3. /\ clock' \in 0..MaxTime /\ clock <= clock'
      /\ items' \subseteq 1..clock' /\ deleted' \subseteq 1..clock'
  <2>1. CASE Tick
    <3>1. clock' = clock + 1 /\ clock < MaxTime /\ items' = items /\ deleted' = deleted
      BY <2>1 DEF Tick
    <3> QED BY <1>2, <3>1
  <2>2. CASE AddRecord
    <3>1. clock' = clock /\ deleted' = deleted
      BY <2>2 DEF AddRecord
    <3>2. PICK time \in (clock - Delay)..clock : time > 0 /\ items' = items \cup {time}
      BY <2>2 DEF AddRecord
    <3> QED BY <1>2, <3>1, <3>2
  <2>3. CASE BecomeMember
    BY <1>2, <2>3 DEF BecomeMember
  <2>4. CASE DeleteExpired
    <3>1. clock' = clock
      BY <2>4 DEF DeleteExpired
    <3>2. PICK time \in items : items' = items \ {time} /\ deleted' = deleted \cup {time}
      BY <2>4 DEF DeleteExpired
    <3> QED BY <1>2, <3>1, <3>2
  <2> QED BY <2>1, <2>2, <2>3, <2>4
<1>4. TypeOK'
  <2>1. exists' \in BOOLEAN
    BY DEF HistoryInv, TypeOK, Tick, BecomeMember, AddRecord, DeleteExpired
  <2>2. /\ request'.at \in {"client", "get_member", "query"}
        /\ request'.code \in {0, 200, 400, 404, 500}
        /\ token' \in {NoToken, End} \cup (1..MaxTime)
        /\ shown' \in Seq(1..MaxTime) /\ atStart' \subseteq 1..MaxTime
    BY <1>1 DEF HistoryInv, TypeOK
  <2> QED BY <1>3, <2>1, <2>2 DEF TypeOK
<1>5. items' \cap deleted' = {} /\ atStart' \subseteq items' \cup deleted'
  BY <1>1 DEF HistoryInv, Tick, BecomeMember, AddRecord, DeleteExpired
<1>6. atStart' \cap items' \subseteq atStart \cap items
  BY <1>1 DEF HistoryInv, Tick, BecomeMember, AddRecord, DeleteExpired
<1>7. NothingSkipped' /\ ReadsEachOnce'
  BY <1>1, <1>6 DEF HistoryInv, NothingSkipped, ReadsEachOnce
<1> QED BY <1>1, <1>4, <1>5, <1>7 DEF HistoryInv

\* Asking, and a request that shows nothing, change only the request.
LEMMA RequestKeepsHistory ==
  ASSUME HistoryInv, Ask \/ VerifyMember \/ RefuseLimit \/ LosePage
  PROVE  HistoryInv'
<1>1. UNCHANGED <<clock, exists, items, deleted, token, shown, atStart>>
  BY DEF Ask, VerifyMember, RefuseLimit, LosePage, tableVars
<1>2. /\ request' \in Request
      /\ request'.at = "get_member" => request'.sent \in {token, Garbage}
      /\ request'.at = "query" => request'.sent = token /\ request'.limit # NotANumber
  <2>0. request \in Request /\ token \in {NoToken, End} \cup (1..MaxTime)
    BY DEF HistoryInv, TypeOK
  <2>a. \A code \in {200, 400, 404, 500} : Refuse(code) =>
          request' \in Request /\ request'.at = "client"
    <3> SUFFICES ASSUME NEW code \in {200, 400, 404, 500}, Refuse(code)
                 PROVE  request' \in Request /\ request'.at = "client"
      OBVIOUS
    <3>1. request' = [request EXCEPT !.at = "client", !.code = code]
      BY DEF Refuse
    <3>2. request' = [at |-> "client", limit |-> request.limit, sent |-> request.sent,
                      code |-> code]
      BY <2>0, <3>1 DEF Request
    <3>3. /\ request.limit \in Limits \cup {1, NotANumber}
          /\ request.sent \in {NoToken, Garbage} \cup (1..MaxTime)
          /\ code \in {0, 200, 400, 404, 500}
      BY <2>0 DEF Request
    <3> QED BY <3>2, <3>3 DEF Request
  <2>1. CASE Ask
    <3>1. token \in {NoToken} \cup (1..MaxTime)
      BY <2>0, <2>1 DEF Ask
    <3> QED BY <2>0, <2>1, <3>1 DEF Ask, At, Request
  <2>2. CASE VerifyMember
    <3>1. CASE request' = [request EXCEPT !.at = "query"] /\ request.at = "get_member"
               /\ request.limit # NotANumber /\ request.sent # Garbage
      BY <2>0, <3>1 DEF HistoryInv, Request
    <3> QED BY <2>a, <2>2, <3>1 DEF VerifyMember
  <2>3. CASE RefuseLimit \/ LosePage
    BY <2>a, <2>3 DEF RefuseLimit, LosePage
  <2> QED BY <2>1, <2>2, <2>3
<1>3. TypeOK'
  BY <1>1, <1>2 DEF HistoryInv, TypeOK, Request
<1>4. NothingSkipped' /\ ReadsEachOnce'
  BY <1>1 DEF HistoryInv, NothingSkipped, ReadsEachOnce
<1> QED BY <1>1, <1>2, <1>3, <1>4 DEF HistoryInv

\* A page continues what was shown before, and what its last record passes was
\* shown before or is on it.
LEMMA PageKeepsHistory ==
  ASSUME HistoryInv, ShowPage
  PROVE  HistoryInv'
<1> DEFINE key == request.sent
           limit == PageLimit(request.limit)
           page == Page(key, limit)
           part == NewestFirst(page)
           Shown == 1..Len(shown)
           Part == 1..Len(part)
<1>1. /\ clock' = clock /\ exists' = exists /\ items' = items /\ deleted' = deleted
      /\ request.at = "query" /\ limit >= 1
      /\ shown' = shown \o part
      /\ token' = IF Cardinality(page) = limit THEN Min(page) ELSE End
      /\ atStart' = IF key = NoToken THEN items \cup deleted ELSE atStart
      /\ Refuse(200)
  BY DEF ShowPage, tableVars
<1>2. /\ MaxTime \in Nat /\ clock \in 0..MaxTime
      /\ items \subseteq 1..clock /\ deleted \subseteq 1..clock
      /\ shown \in Seq(1..MaxTime) /\ atStart \subseteq 1..MaxTime
      /\ NoToken = 0 /\ End \notin Int
  BY HistoryAssumption DEF HistoryInv, TypeOK, NoToken
<1>3. key = token /\ key \in 0..MaxTime /\ key # End
  <2>1. key = token /\ request.limit # NotANumber
    BY <1>1 DEF HistoryInv
  <2>2. key \in {NoToken, Garbage} \cup (1..MaxTime)
    BY DEF HistoryInv, Request
  <2>3. token \in {NoToken, End} \cup (1..MaxTime)
    BY DEF HistoryInv, TypeOK
  <2>4. Garbage \notin Int /\ Garbage # End
    BY HistoryAssumption
  <2> QED BY <1>2, <2>1, <2>2, <2>3, <2>4
<1>4. limit \in Int
  <2>1. request.limit \in Int
    <3>1. request.limit \in Limits \cup {1, NotANumber} /\ request.limit # NotANumber
      BY <1>1 DEF HistoryInv, Request
    <3>2. Limits \subseteq Int /\ 1 \in Int
      BY HistoryAssumption
    <3> QED BY <3>1, <3>2
  <2> QED BY <2>1, HistoryAssumption DEF PageLimit
<1>5. items \subseteq 1..MaxTime /\ items \subseteq Int /\ IsFiniteSet(items)
  <2>1. items \subseteq 1..MaxTime
    BY <1>2
  <2>2. IsFiniteSet(1..MaxTime)
    BY <1>2, FS_Interval
  <2>3. items \in SUBSET (1..MaxTime) /\ 1..MaxTime \subseteq Int
    BY <1>2, <2>1
  <2>4. IsFiniteSet(items)
    BY <2>2, <2>3, FS_Subset
  <2> QED BY <2>3, <2>4
<1>6. /\ page \subseteq Beyond(key) /\ IsFiniteSet(page)
      /\ \A i \in Beyond(key), j \in page : i >= j => i \in page
      /\ Cardinality(page) # limit => page = Beyond(key)
  BY <1>1, <1>3, <1>4, <1>5, PageIsNewest
<1>7. page \subseteq 1..MaxTime /\ page \subseteq Int
  BY <1>5, <1>6 DEF Beyond
<1>8. /\ part \in Seq(page) /\ ToSet(part) = page
      /\ \A i, j \in Part : i < j => part[i] > part[j]
  BY <1>6, <1>7, NewestFirstIsOrder
<1> HIDE DEF key, limit, page, part
<1>9. /\ part \in Seq(1..MaxTime) /\ Len(part) \in Nat /\ Len(shown) \in Nat
      /\ DOMAIN part = Part /\ DOMAIN shown = Shown
      /\ \A i \in Part : part[i] \in page
      /\ \A i \in Shown : shown[i] \in 1..MaxTime
  <2>1. part \in Seq(1..MaxTime)
    BY <1>7, <1>8, SeqMonotonic
  <2>2. part \in [1..Len(part) -> page] /\ Len(part) \in Nat
    BY <1>8, LenProperties
  <2>3. shown \in [1..Len(shown) -> 1..MaxTime] /\ Len(shown) \in Nat
    BY <1>2, LenProperties
  <2> QED BY <2>1, <2>2, <2>3
<1>10. /\ shown' \in Seq(1..MaxTime) /\ Len(shown') = Len(shown) + Len(part)
       /\ \A i \in 1..(Len(shown) + Len(part)) :
            shown'[i] = IF i <= Len(shown) THEN shown[i] ELSE part[i - Len(shown)]
  BY <1>1, <1>2, <1>9, ConcatProperties
<1>11. \A i \in DOMAIN shown' :
         \/ i \in Shown /\ shown'[i] = shown[i]
         \/ i - Len(shown) \in Part /\ shown'[i] = part[i - Len(shown)]
  BY <1>9, <1>10
<1>12. \A i \in Shown, x \in page : shown[i] > x
  <2> SUFFICES ASSUME NEW i \in Shown, NEW x \in page PROVE shown[i] > x
    OBVIOUS
  <2>1. CASE key = NoToken
    <3>1. shown = <<>>
      BY <1>3, <2>1 DEF HistoryInv
    <3> QED BY <3>1
  <2>2. CASE key # NoToken
    <3>1. key \in 1..MaxTime /\ x < key /\ shown[i] \in 1..MaxTime
      BY <1>2, <1>3, <1>6, <1>9, <2>2 DEF Beyond
    <3>2. shown[i] >= key
      BY <1>3, <1>9, <3>1 DEF HistoryInv
    <3> QED BY <1>7, <3>1, <3>2
  <2> QED BY <2>1, <2>2
<1>13. ReadsEachOnce'
  <2> SUFFICES ASSUME NEW i \in DOMAIN shown', NEW j \in DOMAIN shown', i < j
               PROVE  shown'[i] > shown'[j]
    BY DEF ReadsEachOnce
  <2>0. i \in Nat /\ j \in Nat
    BY <1>10
  <2>1. CASE j \in Shown /\ shown'[j] = shown[j]
    <3>1. i \in Shown /\ shown'[i] = shown[i]
      BY <1>9, <1>11, <2>0, <2>1
    <3> QED BY <1>9, <2>1, <3>1 DEF HistoryInv, ReadsEachOnce
  <2>2. CASE i \in Shown /\ shown'[i] = shown[i] /\ j - Len(shown) \in Part
             /\ shown'[j] = part[j - Len(shown)]
    BY <1>9, <1>12, <2>2
  <2>3. CASE /\ i - Len(shown) \in Part /\ shown'[i] = part[i - Len(shown)]
             /\ j - Len(shown) \in Part /\ shown'[j] = part[j - Len(shown)]
    <3>1. i - Len(shown) < j - Len(shown)
      BY <1>9, <2>0
    <3> QED BY <1>8, <2>3, <3>1
  <2> QED BY <1>11, <2>1, <2>2, <2>3
<1>14. ASSUME Cardinality(page) = limit
       PROVE  token' \in page /\ \A x \in page : token' <= x
  <2>1. page # {}
    <3>1. Cardinality(page) # 0
      BY <1>1, <1>4, <1>14
    <3> QED BY <3>1, FS_EmptySet
  <2>2. \E x \in page : \A y \in page : x <= y
    BY <1>6, <1>7, <2>1, EndsOfSet
  <2>3. token' = CHOOSE x \in page : \A y \in page : x <= y
    BY <1>1, <1>14 DEF Min
  <2> QED BY <2>2, <2>3
<1>15. token' \in {End} \cup (1..MaxTime) /\ token' # NoToken
  <2>1. CASE Cardinality(page) = limit
    <3>1. token' \in 1..MaxTime
      BY <1>7, <1>14, <2>1
    <3> QED BY <1>2, <3>1
  <2>2. CASE Cardinality(page) # limit
    <3>1. token' = End
      BY <1>1, <2>2
    <3> QED BY <1>2, <3>1
  <2> QED BY <2>1, <2>2
<1>16. token' \in 1..MaxTime => \A i \in DOMAIN shown' : shown'[i] >= token'
  <2> SUFFICES ASSUME token' \in 1..MaxTime, NEW i \in DOMAIN shown'
               PROVE  shown'[i] >= token'
    OBVIOUS
  <2>1. Cardinality(page) = limit
    BY <1>1, <1>2
  <2>2. CASE i \in Shown /\ shown'[i] = shown[i]
    <3>1. shown[i] > token' /\ shown[i] \in 1..MaxTime
      BY <1>9, <1>12, <1>14, <2>1, <2>2
    <3> QED BY <2>2, <3>1
  <2>3. CASE i - Len(shown) \in Part /\ shown'[i] = part[i - Len(shown)]
    <3>1. shown'[i] \in page /\ shown'[i] \in Int
      BY <1>7, <1>9, <2>3
    <3> QED BY <1>14, <2>1, <3>1
  <2> QED BY <1>11, <2>2, <2>3
<1>17. ToSet(shown) \subseteq ToSet(shown') /\ page \subseteq ToSet(shown')
  <2>1. ASSUME NEW i \in Shown PROVE shown[i] \in ToSet(shown')
    <3>1. i \in DOMAIN shown' /\ shown'[i] = shown[i]
      BY <1>9, <1>10
    <3> QED BY <3>1 DEF ToSet
  <2>2. ASSUME NEW i \in Part PROVE part[i] \in ToSet(shown')
    <3>1. i + Len(shown) \in DOMAIN shown' /\ shown'[i + Len(shown)] = part[i]
      BY <1>9, <1>10
    <3> QED BY <3>1 DEF ToSet
  <2>3. page \subseteq ToSet(shown')
    BY <1>8, <1>9, <2>2 DEF ToSet
  <2> QED BY <1>9, <2>1, <2>3 DEF ToSet
<1>18. NothingSkipped'
  <2> SUFFICES ASSUME NEW i \in atStart' \cap items', token' = End \/ i >= token'
               PROVE  i \in ToSet(shown')
    BY DEF NothingSkipped
  <2>0. i \in items /\ i \in Int
    BY <1>1, <1>5
  <2>1. CASE i \in Beyond(key)
    <3>1. i \in page
      <4>1. CASE Cardinality(page) = limit
        <5>1. token' \in page /\ token' # End
          BY <1>2, <1>7, <1>14, <4>1
        <5> QED BY <1>6, <2>1, <5>1
      <4>2. CASE Cardinality(page) # limit
        BY <1>6, <2>1, <4>2
      <4> QED BY <4>1, <4>2
    <3> QED BY <1>17, <3>1
  <2>2. CASE i \notin Beyond(key)
    <3>1. key # NoToken /\ ~(i < key)
      BY <2>0, <2>2 DEF Beyond
    <3>2. i \in atStart /\ token # NoToken /\ i >= token
      BY <1>1, <1>3, <2>0, <3>1
    <3>3. i \in ToSet(shown)
      BY <2>0, <3>2 DEF HistoryInv, NothingSkipped
    <3> QED BY <1>17, <3>3
  <2> QED BY <2>1, <2>2
<1>19. /\ atStart' \subseteq items' \cup deleted' /\ atStart' \subseteq 1..MaxTime
  <2>1. deleted \subseteq 1..MaxTime
    BY <1>2
  <2> QED BY <1>1, <1>2, <1>5, <2>1 DEF HistoryInv
<1>20. request' \in Request /\ request'.at = "client"
  <2>1. request' = [request EXCEPT !.at = "client", !.code = 200] /\ request \in Request
    BY <1>1 DEF Refuse, HistoryInv
  <2>2. request' = [at |-> "client", limit |-> request.limit, sent |-> request.sent,
                    code |-> 200]
    BY <2>1 DEF Request
  <2>3. /\ request.limit \in Limits \cup {1, NotANumber}
        /\ request.sent \in {NoToken, Garbage} \cup (1..MaxTime)
    BY <2>1 DEF Request
  <2> QED BY <2>2, <2>3 DEF Request
<1>21. TypeOK'
  <2>1. request'.at \in {"client", "get_member", "query"}
        /\ request'.code \in {0, 200, 400, 404, 500}
    BY <1>20 DEF Request
  <2>2. exists' \in BOOLEAN /\ clock' \in 0..MaxTime
        /\ items' \subseteq 1..clock' /\ deleted' \subseteq 1..clock'
    BY <1>1 DEF HistoryInv, TypeOK
  <2> QED BY <1>10, <1>15, <1>19, <2>1, <2>2 DEF TypeOK
<1>22. items' \cap deleted' = {}
  BY <1>1 DEF HistoryInv
<1> QED BY <1>13, <1>15, <1>16, <1>18, <1>19, <1>20, <1>21, <1>22 DEF HistoryInv

-----------------------------------------------------------------------------
\* The inductive invariant holds always.
THEOREM HistoryInvHolds == Spec => []HistoryInv
<1>1. ASSUME HistoryInv, [Next]_vars PROVE HistoryInv'
  <2>1. CASE UNCHANGED vars
    BY <1>1, <2>1 DEF HistoryInv, TypeOK, ReadsEachOnce, NothingSkipped, vars, tableVars,
                      readerVars
  <2>2. CASE Tick \/ BecomeMember \/ AddRecord \/ DeleteExpired
    BY <1>1, <2>2, TableKeepsHistory
  <2>3. CASE Ask \/ VerifyMember \/ RefuseLimit \/ LosePage
    BY <1>1, <2>3, RequestKeepsHistory
  <2>4. CASE ShowPage
    BY <1>1, <2>4, PageKeepsHistory
  <2> QED BY <1>1, <2>1, <2>2, <2>3, <2>4 DEF Next
<1> QED BY <1>1, HistoryInvInit, PTL DEF Spec

\* The variables of the history keep their types.
THEOREM HistoryTypeCorrect == Spec => []TypeOK
<1>1. HistoryInv => TypeOK
  BY DEF HistoryInv
<1> QED BY <1>1, HistoryInvHolds, PTL

\* However the client asks and whatever the table does meanwhile, no record is
\* shown twice and each page continues the order of the one before.
THEOREM HistoryReadsEachOnce == Spec => []ReadsEachOnce
<1>1. HistoryInv => ReadsEachOnce
  BY DEF HistoryInv
<1> QED BY <1>1, HistoryInvHolds, PTL

\* A record that was there at the first page and still is was shown once the
\* token has passed it: records that come, go or get lost on the way skip none.
THEOREM HistorySkipsNothing == Spec => []NothingSkipped
<1>1. HistoryInv => NothingSkipped
  BY DEF HistoryInv
<1> QED BY <1>1, HistoryInvHolds, PTL
=============================================================================
