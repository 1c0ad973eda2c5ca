-------------------------- MODULE AuditedAccounts ---------------------------
(***************************************************************************)
(* What the event handlers promise about star balances, without events,    *)
(* handlers or a database.  A balance changes only by an effect, each      *)
(* effect changes it once and never below zero, and an effect that changed *)
(* a balance is afterwards either written to the journal or lost.  Some    *)
(* effects nobody notices: they are lost when they happen.                 *)
(***************************************************************************)
EXTENDS Integers, FiniteSets, FiniteSetsExt

CONSTANTS
  Accounts,
  Effects,           \* records with at least the fields member and stars
  OpeningBalance     \* the balance of each account at the start

VARIABLES
  balance,           \* the stars of each account
  pending,           \* effects applied and not yet written to the journal
  journal,           \* effects written to the journal
  lost               \* effects that will never be

vars == <<balance, pending, journal, lost>>

Init ==
  /\ balance = OpeningBalance
  /\ pending = {} /\ journal = {} /\ lost = {}

Apply(e) ==
  /\ e \notin pending \cup journal \cup lost
  /\ balance[e.member] + e.stars >= 0
  /\ balance' = [balance EXCEPT ![e.member] = @ + e.stars]
  /\ pending' = pending \cup {e}
  /\ UNCHANGED <<journal, lost>>

ApplyUnnoticed(e) ==
  /\ e \notin pending \cup journal \cup lost
  /\ balance[e.member] + e.stars >= 0
  /\ balance' = [balance EXCEPT ![e.member] = @ + e.stars]
  /\ lost' = lost \cup {e}
  /\ UNCHANGED <<pending, journal>>

Record(e) ==
  /\ e \in pending
  /\ pending' = pending \ {e}
  /\ journal' = journal \cup {e}
  /\ UNCHANGED <<balance, lost>>

Lose(e) ==
  /\ e \in pending
  /\ pending' = pending \ {e}
  /\ lost' = lost \cup {e}
  /\ UNCHANGED <<balance, journal>>

Next == \E e \in Effects : Apply(e) \/ ApplyUnnoticed(e) \/ Record(e) \/ Lose(e)

Spec == Init /\ [][Next]_vars

-----------------------------------------------------------------------------
NonNegative == \A a \in Accounts : balance[a] >= 0

\* The balance is the opening balance and what the effects add up to.
Conserved ==
  LET EffectsOn(a) == {e \in pending \cup journal \cup lost : e.member = a}
  IN  \A a \in Accounts :
        balance[a] = OpeningBalance[a]
                       + MapThenSumSet(LAMBDA e : e.stars, EffectsOn(a))
=============================================================================
