-------------------------- MODULE TransactionHistory -------------------------
(***************************************************************************)
(* query/handler.py, GET /v1/members/{membershipId}/transactions, and      *)
(* get_member_transactions: a client reads the history of one member page  *)
(* by page, while handlers add records and DynamoDB deletes old ones.  A   *)
(* record is its sort key, which begins with the time the handler took: a  *)
(* number, and a handler writes a record up to Delay after it took the     *)
(* time.  Nothing is kept between two requests but the token the client    *)
(* sends back: the key of the last record of the page before.              *)
(***************************************************************************)
EXTENDS SequencesExt, FiniteSetsExt, Integers

CONSTANTS
  MaxTime,     \* bound of the clock
  Delay,       \* from taking the time to writing the record, at most
  Retention,   \* from the time of a record to its ttl
  MaxPage,     \* the largest page: 100 in the code
  Limits,      \* the limits the client asks for
  NotANumber,  \* what else it may pass as a limit
  Garbage,     \* what it may pass as a token
  End          \* stands for the token of a response without one

VARIABLES
  clock,
  exists,     \* the member is enrolled
  items,      \* the records in the table
  deleted,    \* history: the records DynamoDB has deleted
  request,    \* the request of the client, or what is left of the last one
  token,      \* what the client will send: a key, NoToken, or End
  shown,      \* the records the client was shown, in order
  atStart     \* history: all that was recorded before the client's first page

tableVars == <<clock, exists, items, deleted>>

readerVars == <<request, token, shown, atStart>>

vars == <<tableVars, readerVars>>

ASSUME HistoryAssumption ==
  /\ MaxTime \in Nat /\ Delay \in Nat /\ Retention \in Nat
  /\ MaxPage \in Nat \ {0}
  /\ Limits \subseteq Int /\ NotANumber \notin Int
  /\ Garbage \notin Int /\ End \notin Int /\ Garbage # End

NoToken == 0

\* at names the next request to DynamoDB, or "client" when it is the client's
\* turn; code is the status of the last response.
At(place, limit, sent, code) ==
  [at |-> place, limit |-> limit, sent |-> sent, code |-> code]

Nothing == At("client", 1, NoToken, 0)

Init ==
  /\ clock = 0
  /\ exists \in BOOLEAN
  /\ items = {}
  /\ deleted = {}
  /\ request = Nothing
  /\ token = NoToken
  /\ shown = <<>>
  /\ atStart = {}

-----------------------------------------------------------------------------
Tick ==
  /\ clock < MaxTime
  /\ clock' = clock + 1
  /\ UNCHANGED <<exists, items, deleted, readerVars>>

BecomeMember ==
  /\ ~exists
  /\ exists' = TRUE
  /\ UNCHANGED <<clock, items, deleted, readerVars>>

\* A handler whose clock is ahead.
AddRecordAhead ==
  /\ exists
  /\ \E time \in (clock - Delay)..(clock + 1) :
       /\ time > 0 /\ time \notin items \cup deleted
       /\ items' = items \cup {time}
  /\ UNCHANGED <<clock, exists, deleted, readerVars>>

\* record_transaction of any handler or job.
AddRecord ==
  /\ exists
  /\ \E time \in (clock - Delay)..clock :
       /\ time > 0 /\ time \notin items \cup deleted
       /\ items' = items \cup {time}
  /\ UNCHANGED <<clock, exists, deleted, readerVars>>

DeleteExpired ==
  /\ \E time \in items :
       /\ time + Retention <= clock
       /\ items' = items \ {time}
       /\ deleted' = deleted \cup {time}
  /\ UNCHANGED <<clock, exists, readerVars>>

-----------------------------------------------------------------------------
\* min(int(limit), 100).
PageLimit(asked) == IF asked <= MaxPage THEN asked ELSE MaxPage

\* A start key that belongs to the next page too.
BeyondInclusive(key) == IF key = NoToken THEN items ELSE {i \in items : i <= key}

\* The records a query with this ExclusiveStartKey still has before it.
Beyond(key) == IF key = NoToken THEN items ELSE {i \in items : i < key}

\* The first page of an ascending query.
PageAscending(key, limit) ==
  {i \in Beyond(key) : Cardinality({j \in Beyond(key) : j < i}) < limit}

\* ScanIndexForward=False, Limit=limit: the newest of them.
Page(key, limit) ==
  {i \in Beyond(key) : Cardinality({j \in Beyond(key) : j > i}) < limit}

\* In the order of a descending query.
NewestFirst(page) ==
  CHOOSE s \in [1..Cardinality(page) -> page] :
    \A i, j \in DOMAIN s : i < j => s[i] > s[j]

\* The client asks for its next page; it may get a parameter wrong.  An id that
\* is no UUID is refused before any request.
Ask ==
  /\ request.at = "client"
  /\ token # End
  /\ \/ \E limit \in Limits : request' = At("get_member", limit, token, request.code)
     \/ request' = At("get_member", NotANumber, token, request.code)
     \/ request' = At("get_member", 1, Garbage, request.code)
     \/ request' = At("client", 1, NoToken, 400)
  /\ UNCHANGED <<tableVars, token, shown, atStart>>

\* An error response: the client keeps what it has.
Refuse(code) == request' = [request EXCEPT !.at = "client", !.code = code]

\* A decoder that reads no token but the absent one.
VerifyMemberWithoutToken ==
  /\ request.at = "get_member"
  /\ \/ ~exists /\ Refuse(404)
     \/ exists /\ request.limit = NotANumber /\ Refuse(500)
     \/ exists /\ request.limit # NotANumber /\ request.sent # NoToken /\ Refuse(400)
     \/ /\ exists /\ request.limit # NotANumber /\ request.sent = NoToken
        /\ request' = [request EXCEPT !.at = "query"]
  /\ UNCHANGED <<tableVars, token, shown, atStart>>

\* The handler checks the member, then the limit, then the token.  int() of
\* anything but a number raises ValueError, which only the catch-all handles.
VerifyMember ==
  /\ request.at = "get_member"
  /\ \/ ~exists /\ Refuse(404)
     \/ exists /\ request.limit = NotANumber /\ Refuse(500)
     \/ exists /\ request.limit # NotANumber /\ request.sent = Garbage /\ Refuse(400)
     \/ /\ exists /\ request.limit # NotANumber /\ request.sent # Garbage
        /\ request' = [request EXCEPT !.at = "query"]
  /\ UNCHANGED <<tableVars, token, shown, atStart>>

\* DynamoDB refuses a limit below one.
RefuseLimit ==
  /\ request.at = "query"
  /\ PageLimit(request.limit) < 1
  /\ Refuse(500)
  /\ UNCHANGED <<tableVars, token, shown, atStart>>

\* A full page comes with the key of its last record, whether or not anything
\* is left after it; any other page is the last.
ShowPage ==
  LET limit == PageLimit(request.limit)
      page == Page(request.sent, limit)
  IN  /\ request.at = "query"
      /\ limit >= 1
      /\ shown' = shown \o NewestFirst(page)
      /\ token' = IF Cardinality(page) = limit THEN Min(page) ELSE End
      /\ atStart' = IF request.sent = NoToken THEN items \cup deleted ELSE atStart
      /\ Refuse(200)
      /\ UNCHANGED tableVars

\* The response does not reach the client, or the query fails.
LosePage ==
  /\ request.at = "query"
  /\ Refuse(500)
  /\ UNCHANGED <<tableVars, token, shown, atStart>>

Next ==
  \/ Tick \/ BecomeMember \/ AddRecord \/ DeleteExpired
  \/ Ask \/ VerifyMember \/ RefuseLimit \/ ShowPage \/ LosePage

Spec == Init /\ [][Next]_vars

\* The client goes on reading with an acceptable limit, API Gateway answers, and
\* not every page it asks for is lost.
AskAgain ==
  /\ Ask
  /\ request'.at = "get_member" /\ request'.sent = token
  /\ request'.limit \in Limits /\ request'.limit >= 1

FairSpec ==
  /\ Spec
  /\ WF_vars(BecomeMember)
  /\ SF_vars(AskAgain)
  /\ WF_vars(VerifyMember)
  /\ WF_vars(RefuseLimit)
  /\ SF_vars(ShowPage)

-----------------------------------------------------------------------------
\* The type invariant of the history.
TypeOK ==
  /\ clock \in 0..MaxTime
  /\ exists \in BOOLEAN
  /\ items \subseteq 1..clock /\ deleted \subseteq 1..clock
  /\ request.at \in {"client", "get_member", "query"}
  /\ request.code \in {0, 200, 400, 404, 500}
  /\ token \in {NoToken, End} \cup (1..MaxTime)
  /\ shown \in Seq(1..MaxTime)
  /\ atStart \subseteq 1..MaxTime

\* No record is shown twice and every page continues the order of the one
\* before, whatever is added, deleted, lost or asked for in between (the token
\* is a key, not a position).
ReadsEachOnce == \A i, j \in DOMAIN shown : i < j => shown[i] > shown[j]

\* Nothing that was there at the first page and still is gets skipped: what the
\* token has passed was shown.
NothingSkipped ==
  \A i \in atStart \cap items :
    token # NoToken /\ (token = End \/ i >= token) => i \in ToSet(shown)

\* A client that keeps asking comes to the end of the history, however many
\* records arrive while it reads.
ReadingEnds == <>(token = End)
=============================================================================
