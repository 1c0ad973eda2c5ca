--------------------------- MODULE StarCalculator ---------------------------
(***************************************************************************)
(* The star calculation of the rewards program: common/star_calculator.py. *)
(* Purchase amounts are in cents and tier rates in tenths of a star per    *)
(* dollar, so the Decimal product of the code is an integer number of      *)
(* thousandths of a star here, and int() at the end is one \div.           *)
(***************************************************************************)
EXTENDS Integers

Tier == {"Green", "Gold", "Reserve"}

\* Tenths of a star per dollar.
TierRate == [t \in Tier |-> CASE t = "Green"   -> 10
                              [] t = "Gold"    -> 12
                              [] t = "Reserve" -> 17]

\* Bonuses that add up instead.
EffectiveMultiplierAdded(doubleStarDay, personalCup) ==
  1 + (IF doubleStarDay THEN 1 ELSE 0) + (IF personalCup THEN 1 ELSE 0)

\* Both conditions multiply: two for one of them, four for both.
EffectiveMultiplier(doubleStarDay, personalCup) ==
  (IF doubleStarDay THEN 2 ELSE 1) * (IF personalCup THEN 2 ELSE 1)

\* Rounding to the nearest star instead of truncating.
CalculateStarsRounded(cents, tier, doubleStarDay, personalCup) ==
  (cents * TierRate[tier] * EffectiveMultiplier(doubleStarDay, personalCup) + 500)
    \div 1000

\* int() truncates once, after all the multiplications.
CalculateStars(cents, tier, doubleStarDay, personalCup) ==
  (cents * TierRate[tier] * EffectiveMultiplier(doubleStarDay, personalCup))
    \div 1000

-----------------------------------------------------------------------------
\* A purchase rung up as two never earns more than as one.
SplittingNeverPays(a, b, tier, double, cup) ==
  CalculateStars(a, tier, double, cup) + CalculateStars(b, tier, double, cup)
    <= CalculateStars(a + b, tier, double, cup)

\* Either condition earns twice the stars, and one more at most: the cents that
\* truncation dropped count again.
DoublesWithinOneStar(cents, tier, other) ==
  /\ CalculateStars(cents, tier, TRUE, other)
       - 2 * CalculateStars(cents, tier, FALSE, other) \in {0, 1}
  /\ CalculateStars(cents, tier, other, TRUE)
       - 2 * CalculateStars(cents, tier, other, FALSE) \in {0, 1}
=============================================================================
