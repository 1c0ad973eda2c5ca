--------------------------- MODULE MCRewardsSystem ---------------------------
(***************************************************************************)
(* Small instances of RewardsSystem: members, events, runs and calendars.  *)
(***************************************************************************)
EXTENDS RewardsSystem, TLC

CONSTANTS ann, bob, none,      \* member ids, and "no profile"
          t1, t2, t3,          \* transaction ids
          d1, d2, d3,          \* deliveries
          r1, r2, r3           \* runs of the scheduled jobs

MCStamps ==
  (Deliveries \X (1..MaxAttempts)) \cup (Runs \X (1..MaxRunAttempts))

Enrolled(tier, stars, annual, due) ==
  [tier |-> tier, starBalance |-> stars, annualStarCount |-> annual,
   lastQualifyingActivity |-> NeverActive,
   nextTierEvaluation |-> due, evaluationKey |-> due]

Buy(id, m, cents) ==
  [type |-> "purchase", id |-> id, member |-> m, cents |-> cents,
   doubleStarDay |-> FALSE, personalCup |-> FALSE]

Spend(id, m, stars) ==
  [type |-> "redemption", id |-> id, member |-> m, starsToRedeem |-> stars]

-----------------------------------------------------------------------------
\* Two daily expirations of what a Green member bought, who also has stars of an
\* earlier time without ledger entries: enough to lose the first purchase twice.
OneGreen == ann :> Enrolled("Green", 20, 0, 365)

TwoPurchases == d1 :> Buy(t1, ann, 2000) @@ d2 :> Buy(t2, ann, 3000)

TwoExpirations == r1 :> "expiration" @@ r2 :> "expiration"

Day180And181 == r1 :> 180 @@ r2 :> 181

\* Two members without stars: one spends what she earned, the other keeps it.
TwoEmpty == ann :> Enrolled("Green", 0, 0, 365) @@ bob :> Enrolled("Green", 0, 0, 365)

SpentAndOwed ==
  d1 :> Buy(t1, ann, 7000) @@ d2 :> Spend(t2, ann, 60) @@ d3 :> Buy(t3, bob, 2000)

OneExpiration == r1 :> "expiration"

Day180 == r1 :> 180

-----------------------------------------------------------------------------
\* Both are due on day 9: one may rise, the other has nothing to stay Gold for.
RisingAndFalling ==
  ann :> Enrolled("Green", 0, 0, 9) @@ bob :> Enrolled("Gold", 900, 600, 9)

BigPurchase == d1 :> Buy(t1, ann, 60000)

\* The rule of day 10 fires twice, the one of day 11 once.
ThreeEvaluations == r1 :> "evaluation" @@ r2 :> "evaluation" @@ r3 :> "evaluation"

Day10TwiceAnd11 == r1 :> 10 @@ r2 :> 10 @@ r3 :> 11

\* The two runs of day 10 differ in nothing but their name.
Twins == Permutations({r1, r2})

OneEvaluation == r1 :> "evaluation"

Day40 == r1 :> 40

-----------------------------------------------------------------------------
\* Both are due on the day before the first entries expire.
DueBeforeExpiration ==
  ann :> Enrolled("Green", 60, 0, 179) @@ bob :> Enrolled("Green", 0, 0, 179)

\* Two evaluations, the second on the day of an expiration.
BothJobs == r1 :> "evaluation" @@ r2 :> "expiration" @@ r3 :> "evaluation"

Day180AndTwice181 == r1 :> 180 @@ r2 :> 181 @@ r3 :> 181
==============================================================================
