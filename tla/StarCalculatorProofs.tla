------------------------ MODULE StarCalculatorProofs ------------------------
(***************************************************************************)
(* Facts about the star calculation, for every amount.                     *)
(***************************************************************************)
EXTENDS MCStarCalculator, StarLemmas

\* The numerator of a calculation, in thousandths of a star.
Thousandths(amount, level, day, mug) ==
  amount * TierRate[level] * EffectiveMultiplier(day, mug)

\* Before truncation the stars are linear in the amount.
LEMMA ThousandthsLinear ==
  ASSUME NEW a \in Int, NEW b \in Int, NEW level \in Tier,
         NEW day \in BOOLEAN, NEW mug \in BOOLEAN
  PROVE  /\ Thousandths(a, level, day, mug) \in Int
         /\ Thousandths(a + b, level, day, mug)
              = Thousandths(a, level, day, mug) + Thousandths(b, level, day, mug)
<1>1. TierRate[level] \in {10, 12, 17}
  BY RateValues DEF Tier
<1>2. EffectiveMultiplier(day, mug) \in {1, 2, 4}
  BY MultiplierValues
<1>3. PICK r \in {10, 12, 17} : r = TierRate[level]
  BY <1>1
<1>4. PICK f \in {1, 2, 4} : f = EffectiveMultiplier(day, mug)
  BY <1>2
<1>5. /\ a * r * f \in Int
      /\ (a + b) * r * f = a * r * f + b * r * f
  <2>1. CASE r = 10
    BY <2>1
  <2>2. CASE r = 12
    BY <2>2
  <2>3. CASE r = 17
    BY <2>3
  <2> QED BY <2>1, <2>2, <2>3
<1> QED BY <1>3, <1>4, <1>5 DEF Thousandths

\* Twice the factor, twice the product.
LEMMA FactorsDouble ==
  ASSUME NEW c \in Int, NEW r \in {10, 12, 17}, NEW f \in {1, 2, 4}
  PROVE  c * r * (2 * f) = 2 * (c * r * f)
<1>1. CASE r = 10
  BY <1>1
<1>2. CASE r = 12
  BY <1>2
<1>3. CASE r = 17
  BY <1>3
<1> QED BY <1>1, <1>2, <1>3

\* Truncation costs at most one star of a doubled amount.
LEMMA OneStarApart ==
  ASSUME NEW base \in Int, NEW once, NEW twice,
         once = base \div 1000, twice = (2 * base) \div 1000
  PROVE  twice - 2 * once \in {0, 1}
  OBVIOUS

\* The calculator truncates once, at the end.
LEMMA TruncatedOnce ==
  ASSUME NEW amount, NEW level, NEW day, NEW mug
  PROVE  CalculateStars(amount, level, day, mug)
           = Thousandths(amount, level, day, mug) \div 1000
  BY DEF CalculateStars, Thousandths

\* Truncation favours the whole: for any two amounts, splitting a purchase
\* never earns more stars.
THEOREM SplittingIsNoGain ==
  ASSUME NEW a \in Int, NEW b \in Int, NEW level \in Tier,
         NEW day \in BOOLEAN, NEW mug \in BOOLEAN
  PROVE  SplittingNeverPays(a, b, level, day, mug)
<1>1. \A x, y \in Int : x \div 1000 + y \div 1000 <= (x + y) \div 1000
  OBVIOUS
<1>2. /\ Thousandths(a, level, day, mug) \in Int
      /\ Thousandths(b, level, day, mug) \in Int
      /\ Thousandths(a + b, level, day, mug)
           = Thousandths(a, level, day, mug) + Thousandths(b, level, day, mug)
  BY ThousandthsLinear
<1> HIDE DEF Thousandths
<1>3. CalculateStars(a, level, day, mug) = Thousandths(a, level, day, mug) \div 1000
  BY DEF CalculateStars, Thousandths
<1>4. CalculateStars(b, level, day, mug) = Thousandths(b, level, day, mug) \div 1000
  BY DEF CalculateStars, Thousandths
<1>5. CalculateStars(a + b, level, day, mug)
        = Thousandths(a + b, level, day, mug) \div 1000
  BY DEF CalculateStars, Thousandths
<1> QED BY <1>1, <1>2, <1>3, <1>4, <1>5 DEF SplittingNeverPays

\* A double star day and a personal cup each double the stars of any amount,
\* give or take the one star that truncation can hide.
THEOREM DoublingIsWithinOneStar ==
  ASSUME NEW amount \in Int, NEW level \in Tier, NEW other \in BOOLEAN
  PROVE  DoublesWithinOneStar(amount, level, other)
<1>0. PICK base \in Int : base = Thousandths(amount, level, FALSE, other)
  BY ThousandthsLinear
<1>1. PICK whole \in Int : whole = 2 * base
  OBVIOUS
<1>2. /\ Thousandths(amount, level, TRUE, other) = whole
      /\ Thousandths(amount, level, other, TRUE) = whole
      /\ Thousandths(amount, level, other, FALSE) = base
  <2>1. PICK r \in {10, 12, 17} : r = TierRate[level]
    BY RateValues DEF Tier
  <2>2. /\ EffectiveMultiplier(TRUE, other) = 2 * EffectiveMultiplier(FALSE, other)
        /\ EffectiveMultiplier(other, TRUE) = EffectiveMultiplier(TRUE, other)
        /\ EffectiveMultiplier(other, FALSE) = EffectiveMultiplier(FALSE, other)
    BY DEF EffectiveMultiplier
  <2>3. PICK f \in {1, 2, 4} : f = EffectiveMultiplier(FALSE, other)
    BY MultiplierValues
  <2>4. amount * r * (2 * f) = 2 * (amount * r * f)
    BY <2>1, <2>3, FactorsDouble
  <2> QED BY <1>0, <1>1, <2>1, <2>2, <2>3, <2>4 DEF Thousandths
<1>3. /\ CalculateStars(amount, level, FALSE, other) = base \div 1000
      /\ CalculateStars(amount, level, other, FALSE) = base \div 1000
      /\ CalculateStars(amount, level, TRUE, other) = whole \div 1000
      /\ CalculateStars(amount, level, other, TRUE) = whole \div 1000
  <2>1. CalculateStars(amount, level, FALSE, other) = base \div 1000
    BY <1>0, TruncatedOnce, Zenon
  <2>2. CalculateStars(amount, level, other, FALSE) = base \div 1000
    BY <1>2, TruncatedOnce, Zenon
  <2>3. CalculateStars(amount, level, TRUE, other) = whole \div 1000
    BY <1>2, TruncatedOnce, Zenon
  <2>4. CalculateStars(amount, level, other, TRUE) = whole \div 1000
    BY <1>2, TruncatedOnce, Zenon
  <2> QED BY <2>1, <2>2, <2>3, <2>4
<1>4. PICK once \in Int, twice \in Int :
        /\ once = base \div 1000 /\ twice = whole \div 1000
        /\ (twice - 2 * once = 0 \/ twice - 2 * once = 1)
  <2>1. base \div 1000 \in Int /\ whole \div 1000 \in Int
    OBVIOUS
  <2>2. whole = 2 * base
    BY <1>1
  <2> QED BY <2>1, <2>2, OneStarApart
<1>5. /\ CalculateStars(amount, level, FALSE, other) = once
      /\ CalculateStars(amount, level, other, FALSE) = once
      /\ CalculateStars(amount, level, TRUE, other) = twice
      /\ CalculateStars(amount, level, other, TRUE) = twice
  <2>1. once = base \div 1000
    BY <1>4
  <2>2. twice = whole \div 1000
    BY <1>4
  <2> QED BY <1>3, <2>1, <2>2, Zenon
<1> QED BY <1>4, <1>5, Zenon DEF DoublesWithinOneStar

-----------------------------------------------------------------------------
\* The price of a purchase is a number of cents, whatever the bound.
CalculationTypeOK ==
  /\ cents \in Nat
  /\ tier \in Tier
  /\ double \in BOOLEAN /\ cup \in BOOLEAN

\* A price that rises stays one.
LEMMA CalculationTypeCorrect == Spec => []CalculationTypeOK
<1>1. Init => CalculationTypeOK
  BY DEF Init, CalculationTypeOK
<1>2. CalculationTypeOK /\ [PriceRises]_vars => CalculationTypeOK'
  BY DEF CalculationTypeOK, PriceRises, vars
<1> QED BY <1>1, <1>2, PTL DEF Spec

\* At any price, no way to split the purchase in two earns more.
THEOREM NoSplitEverPays == Spec => []NoSplitPays
<1>1. ASSUME CalculationTypeOK PROVE NoSplitPays
  <2> SUFFICES ASSUME NEW a \in 0..cents
               PROVE  SplittingNeverPays(a, cents - a, tier, double, cup)
    BY DEF NoSplitPays
  <2>1. a \in Int /\ cents - a \in Int
    BY <1>1 DEF CalculationTypeOK
  <2> QED BY <1>1, <2>1, SplittingIsNoGain DEF CalculationTypeOK
<1> QED BY <1>1, CalculationTypeCorrect, PTL

\* At any price, a double star day or a personal cup doubles the stars to within
\* one star.
THEOREM DoublingAlwaysHolds == Spec => []DoublingHolds
<1>1. ASSUME CalculationTypeOK PROVE DoublingHolds
  <2>1. cents \in Int
    BY <1>1 DEF CalculationTypeOK
  <2> QED BY <1>1, <2>1, DoublingIsWithinOneStar DEF CalculationTypeOK, DoublingHolds
<1> QED BY <1>1, CalculationTypeCorrect, PTL
=============================================================================
