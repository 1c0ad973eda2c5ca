--------------------------- MODULE MCStarAccounts ---------------------------
(***************************************************************************)
(* Small instances of StarAccounts: members, events and deliveries.        *)
(***************************************************************************)
EXTENDS StarAccounts, TLC

CONSTANTS green, gold, ghost, none,   \* member ids, and "no profile"
          t1, t2, t3,                 \* transaction ids
          d1, d2, d3, d4, d5, d6      \* deliveries

MCMembers == {green, gold, ghost}

MCStamps == Deliveries \X (1..MaxAttempts)

\* A Green member with 130 stars none of which has a ledger entry (they were
\* earned at a higher tier), a Gold member, and an id nobody is enrolled under.
MCOpening ==
  [m \in MCMembers |->
     CASE m = green -> [tier |-> "Green", starBalance |-> 130,
                        annualStarCount |-> 0,
                        lastQualifyingActivity |-> NeverActive,
                        nextTierEvaluation |-> 365, evaluationKey |-> 365]
       [] m = gold  -> [tier |-> "Gold", starBalance |-> 0,
                        annualStarCount |-> 600,
                        lastQualifyingActivity |-> 0,
                        nextTierEvaluation |-> 365, evaluationKey |-> 365]
       [] OTHER     -> none]

Buy(id, m, cents, double, cup) ==
  [type |-> "purchase", id |-> id, member |-> m, cents |-> cents,
   doubleStarDay |-> double, personalCup |-> cup]

Spend(id, m, stars) ==
  [type |-> "redemption", id |-> id, member |-> m, starsToRedeem |-> stars]

\* One purchase delivered twice.
DuplicatedPurchase ==
  d1 :> Buy(t1, green, 599, TRUE, FALSE) @@ d2 :> Buy(t1, green, 599, TRUE, FALSE)

\* One redemption delivered twice and another: the balance can pay the first twice
\* or either of the two once, but not both.
RacingRedemptions ==
  d1 :> Spend(t1, green, 60) @@ d2 :> Spend(t1, green, 60)
    @@ d3 :> Spend(t2, green, 80)

\* A redemption delivered twice that the balance could pay twice if the
\* purchase were counted, for a Gold member.
DuplicatedRedemption ==
  d1 :> Spend(t1, gold, 60) @@ d2 :> Spend(t1, gold, 60)
    @@ d3 :> Buy(t2, gold, 5050, TRUE, TRUE)

\* Events that are refused: an unknown member and an invalid amount for either
\* kind of event, a redemption whose id a valid purchase uses too, and one that
\* the balance can pay once, but not twice.
RefusedEvents ==
  d1 :> Buy(t1, ghost, 500, FALSE, FALSE) @@ d2 :> Spend(t1, ghost, 60)
    @@ d3 :> Buy(t2, green, 0, FALSE, FALSE) @@ d4 :> Spend(t2, green, 59)
    @@ d5 :> Buy(t2, green, 500, FALSE, TRUE) @@ d6 :> Spend(t3, green, 80)
=============================================================================
