-------------------------- MODULE MCStarCalculator --------------------------
(***************************************************************************)
(* The star calculation over every amount up to a bound: the price of a    *)
(* purchase rises cent by cent, for each tier and each pair of conditions. *)
(***************************************************************************)
EXTENDS StarCalculator

CONSTANT MaxCents

VARIABLES cents, tier, double, cup

vars == <<cents, tier, double, cup>>

Init ==
  /\ cents = 0
  /\ tier \in Tier
  /\ double \in BOOLEAN
  /\ cup \in BOOLEAN

PriceRises ==
  /\ cents < MaxCents
  /\ cents' = cents + 1
  /\ UNCHANGED <<tier, double, cup>>

Spec == Init /\ [][PriceRises]_vars

\* No way to split the purchase in two earns more than ringing it up as one
\* (int() truncates once per purchase).
NoSplitPays ==
  \A a \in 0..cents : SplittingNeverPays(a, cents - a, tier, double, cup)

\* A double star day or a personal cup doubles the stars, to within one star.
DoublingHolds == DoublesWithinOneStar(cents, tier, cup)
=============================================================================
