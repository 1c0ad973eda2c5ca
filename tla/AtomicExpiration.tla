--------------------------- MODULE AtomicExpiration --------------------------
(***************************************************************************)
(* What the expiration of stars promises, without jobs, lists or requests: *)
(* stars expire together with the ledger entries they came in, each entry  *)
(* at most once, and never more stars than the member has.                 *)
(***************************************************************************)
EXTENDS Integers, FiniteSetsExt

CONSTANTS
  Accounts,
  Entries,           \* records with at least the fields member and stars
  Amounts,           \* what one purchase adds or one redemption takes
  OpeningBalance     \* the balance of each account at the start

VARIABLES
  balance,   \* the stars of each account
  held,      \* the entries that may still expire
  expired    \* the entries that did

vars == <<balance, held, expired>>

Init ==
  /\ balance = OpeningBalance
  /\ held = {}
  /\ expired = {}

\* Purchases and redemptions.
Move(a, stars) ==
  /\ balance[a] + stars >= 0
  /\ balance' = [balance EXCEPT ![a] = @ + stars]
  /\ UNCHANGED <<held, expired>>

Age(e) ==
  /\ e \notin held \cup expired
  /\ held' = held \cup {e}
  /\ UNCHANGED <<balance, expired>>

ExpireTogether(a, batch) ==
  LET stars == MapThenSumSet(LAMBDA e : e.stars, batch)
  IN  /\ \A e \in batch : e.member = a
      /\ balance[a] >= stars
      /\ balance' = [balance EXCEPT ![a] = @ - stars]
      /\ held' = held \ batch
      /\ expired' = expired \cup batch

Next ==
  \/ \E a \in Accounts, stars \in Amounts : Move(a, stars)
  \/ \E e \in Entries : Age(e)
  \/ \E a \in Accounts, batch \in SUBSET held : ExpireTogether(a, batch)

Spec == Init /\ [][Next]_vars
=============================================================================
