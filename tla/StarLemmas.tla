----------------------------- MODULE StarLemmas -----------------------------
(***************************************************************************)
(* Numbers of stars.  First what one purchase earns.  Then sums over       *)
(* finite sets of records: MapThenSumSet folds a set in the order CHOOSE   *)
(* takes its elements, and these lemmas show that the order makes no       *)
(* difference.  Induction over finite sets is by a smallest                *)
(* counterexample.                                                         *)
(***************************************************************************)
EXTENDS StarCalculator, FiniteSetsExt, FiniteSetTheorems, TLAPS

\* Dividing by 1000 as int() does keeps the order of the numerators and gives
\* an integer, a natural one for a numerator that is not negative.
LEMMA DivThousand ==
  ASSUME NEW a \in Int, NEW b \in Int, a <= b
  PROVE  /\ a \div 1000 \in Int
         /\ a \div 1000 <= b \div 1000
         /\ a >= 0 => a \div 1000 >= 0
  OBVIOUS

\* The rates are the numbers of TIER_RATES.
LEMMA RateValues ==
  /\ TierRate["Green"] = 10
  /\ TierRate["Gold"] = 12
  /\ TierRate["Reserve"] = 17
  BY DEF TierRate, Tier

\* The multiplier is one, two or four.
LEMMA MultiplierValues ==
  ASSUME NEW double \in BOOLEAN, NEW cup \in BOOLEAN
  PROVE  EffectiveMultiplier(double, cup) \in {1, 2, 4}
  BY DEF EffectiveMultiplier

\* A calculation always gives an integer, and a positive amount never gives a
\* negative number of stars.
THEOREM StarsAreNatural ==
  ASSUME NEW cents \in Int, NEW tier \in Tier,
         NEW double \in BOOLEAN, NEW cup \in BOOLEAN
  PROVE  /\ CalculateStars(cents, tier, double, cup) \in Int
         /\ cents > 0 => CalculateStars(cents, tier, double, cup) >= 0
<1> DEFINE rate == TierRate[tier]
           factor == EffectiveMultiplier(double, cup)
<1>1. rate \in {10, 12, 17}
  BY RateValues DEF Tier
<1>2. factor \in {1, 2, 4}
  BY MultiplierValues
<1>3. /\ cents * rate * factor \in Int
      /\ cents > 0 => cents * rate * factor >= 0
  <2> HIDE DEF rate, factor
  <2>1. cents * rate \in Int /\ (cents > 0 => cents * rate > 0)
    BY <1>1
  <2> QED BY <2>1, <1>2
<1> QED BY <1>3, DivThousand DEF CalculateStars

-----------------------------------------------------------------------------
\* The stars of a set of effects, entries or records.
StarSum(S) == MapThenSumSet(LAMBDA e : e.stars, S)

\* The element a fold takes first.
Leading(s) == CHOOSE x \in s : TRUE

\* g folds every subset of S.
Sums(g, S) ==
  g = [s \in SUBSET S |-> IF s = {} THEN 0 ELSE Leading(s).stars + g[s \ {Leading(s)}]]

\* One such function.
SumsOf(S) == CHOOSE g : Sums(g, S)

\* The fold of the community modules is that function.
LEMMA SumIsFold == ASSUME NEW S PROVE StarSum(S) = SumsOf(S)[S]
  BY DEF StarSum, MapThenSumSet, MapThenFoldSet, SumsOf, Sums, Leading

\* A set of finite sets that is not empty has a smallest member.
LEMMA SmallestSubset ==
  ASSUME NEW S, IsFiniteSet(S), NEW T, T \subseteq SUBSET S, T # {}
  PROVE  \E u \in T : \A v \in T : ~(v \subseteq u /\ v # u)
<1>1. FiniteSubsetsOf(S) = SUBSET S
  BY FS_FiniteSubsetsOfFinite
<1>2. IsWellFoundedOn(StrictSubsetOrdering(S), SUBSET S)
  BY <1>1, FS_StrictSubsetOrderingWellFounded
<1>3. \E u \in T : \A v \in T : ~(<<v, u>> \in StrictSubsetOrdering(S))
  BY <1>2, WFMin
<1> QED BY <1>3 DEF StrictSubsetOrdering

\* Two folds agree on every set that both fold.
LEMMA FoldsAgree ==
  ASSUME NEW S, IsFiniteSet(S), NEW R, NEW g, NEW h, Sums(g, S), Sums(h, R)
  PROVE  \A s \in SUBSET S : s \subseteq R => g[s] = h[s]
<1> DEFINE T == {s \in SUBSET S : s \subseteq R /\ g[s] # h[s]}
<1> SUFFICES ASSUME T # {} PROVE FALSE
  OBVIOUS
<1>1. PICK u \in T : \A v \in T : ~(v \subseteq u /\ v # u)
  <2> HIDE DEF T
  <2> SUFFICES T \subseteq SUBSET S
    BY SmallestSubset
  <2> QED BY DEF T
<1>2. u \in SUBSET S /\ u \in SUBSET R
  OBVIOUS
<1>3. /\ g[u] = IF u = {} THEN 0 ELSE Leading(u).stars + g[u \ {Leading(u)}]
      /\ h[u] = IF u = {} THEN 0 ELSE Leading(u).stars + h[u \ {Leading(u)}]
  BY <1>2 DEF Sums
<1>4. CASE u = {}
  BY <1>3, <1>4
<1>5. CASE u # {}
  <2>1. Leading(u) \in u
    BY <1>5 DEF Leading
  <2>2. g[u \ {Leading(u)}] = h[u \ {Leading(u)}]
    BY <1>1, <1>2, <2>1
  <2> QED BY <1>3, <1>5, <2>2
<1> QED BY <1>4, <1>5

\* Every finite set can be folded.
LEMMA FoldExists ==
  ASSUME NEW S, IsFiniteSet(S)
  PROVE  \A u \in SUBSET S : Sums(SumsOf(u), u)
<1> DEFINE T == {u \in SUBSET S : ~Sums(SumsOf(u), u)}
<1> SUFFICES ASSUME T # {} PROVE FALSE
  OBVIOUS
<1>1. PICK u \in T : \A v \in T : ~(v \subseteq u /\ v # u)
  <2> HIDE DEF T
  <2> SUFFICES T \subseteq SUBSET S
    BY SmallestSubset
  <2> QED BY DEF T
<1>2. u \in SUBSET S /\ ~Sums(SumsOf(u), u) /\ IsFiniteSet(u)
  BY FS_Subset
<1>3. \A v \in SUBSET u : v # u => Sums(SumsOf(v), v)
  BY <1>1, <1>2
<1> HIDE DEF T
<1> DEFINE G == [s \in SUBSET u |->
                   IF s = {} THEN 0
                   ELSE Leading(s).stars + SumsOf(s \ {Leading(s)})[s \ {Leading(s)}]]
<1>4. \A s \in SUBSET u : s # {} => Leading(s) \in s
  BY DEF Leading
<1>5. ASSUME NEW t \in SUBSET u, t # u PROVE G[t] = SumsOf(t)[t]
  <2>1. SumsOf(t)[t] = IF t = {} THEN 0 ELSE Leading(t).stars + SumsOf(t)[t \ {Leading(t)}]
    BY <1>3, <1>5 DEF Sums
  <2>2. CASE t = {}
    BY <2>1, <2>2
  <2>3. CASE t # {}
    <3> DEFINE w == t \ {Leading(t)}
    <3>1. w \in SUBSET u /\ w # u /\ w \subseteq t
      BY <1>4, <1>5, <2>3
    <3>2. Sums(SumsOf(w), w) /\ Sums(SumsOf(t), t) /\ IsFiniteSet(w)
      BY <1>2, <1>3, <1>5, <3>1, FS_Subset
    <3> HIDE DEF w
    <3>3. SumsOf(w)[w] = SumsOf(t)[w]
      BY <3>1, <3>2, FoldsAgree
    <3> QED BY <1>5, <2>1, <2>3, <3>3 DEF w
  <2> QED BY <2>2, <2>3
<1>6. \A s \in SUBSET u : s # {} => G[s \ {Leading(s)}] = SumsOf(s \ {Leading(s)})[s \ {Leading(s)}]
  <2> SUFFICES ASSUME NEW s \in SUBSET u, s # {}
               PROVE  G[s \ {Leading(s)}] = SumsOf(s \ {Leading(s)})[s \ {Leading(s)}]
    OBVIOUS
  <2>1. s \ {Leading(s)} \in SUBSET u /\ s \ {Leading(s)} # u
    BY <1>4
  <2> HIDE DEF G
  <2> QED BY <1>5, <2>1
<1>7. Sums(G, u)
  <2>1. \A s \in SUBSET u :
          G[s] = IF s = {} THEN 0 ELSE Leading(s).stars + G[s \ {Leading(s)}]
    BY <1>6
  <2>2. G = [s \in SUBSET u |-> G[s]]
    OBVIOUS
  <2> HIDE DEF G
  <2> QED BY <2>1, <2>2 DEF Sums
<1>8. Sums(SumsOf(u), u)
  <2> HIDE DEF G
  <2> QED BY <1>7 DEF SumsOf
<1> QED BY <1>2, <1>8

\* The sum over no elements.
LEMMA SumOfNone == StarSum({}) = 0
<1>1. Sums(SumsOf({}), {})
  BY FoldExists, FS_EmptySet
<1> QED BY <1>1, SumIsFold DEF Sums

\* A sum is its first element and the sum of the others.
LEMMA SumOfFirst ==
  ASSUME NEW S, IsFiniteSet(S), S # {}
  PROVE  /\ Leading(S) \in S
         /\ StarSum(S) = Leading(S).stars + StarSum(S \ {Leading(S)})
<1> DEFINE w == S \ {Leading(S)}
<1>1. Leading(S) \in S
  BY DEF Leading
<1>2. Sums(SumsOf(S), S) /\ Sums(SumsOf(w), w) /\ IsFiniteSet(w)
  BY FoldExists, FS_Subset
<1>3. SumsOf(S)[w] = SumsOf(w)[w]
  <2> w \in SUBSET w /\ w \subseteq S
    OBVIOUS
  <2> HIDE DEF w
  <2> QED BY <1>2, FoldsAgree
<1>4. SumsOf(S)[S] = Leading(S).stars + SumsOf(S)[w]
  BY <1>2 DEF Sums
<1> QED BY <1>1, <1>3, <1>4, SumIsFold

\* All elements have a whole number of stars.
Numbered(S) == \A e \in S : e.stars \in Int

\* The sum of whole numbers is one.
LEMMA SumIsInteger ==
  ASSUME NEW S, IsFiniteSet(S), Numbered(S)
  PROVE  StarSum(S) \in Int
<1> DEFINE T == {u \in SUBSET S : StarSum(u) \notin Int}
<1> SUFFICES ASSUME T # {} PROVE FALSE
  OBVIOUS
<1>1. PICK u \in T : \A v \in T : ~(v \subseteq u /\ v # u)
  <2> HIDE DEF T
  <2> SUFFICES T \subseteq SUBSET S
    BY SmallestSubset
  <2> QED BY DEF T
<1>2. u \in SUBSET S /\ IsFiniteSet(u) /\ StarSum(u) \notin Int
  BY FS_Subset
<1>3. u # {}
  BY <1>2, SumOfNone
<1>4. Leading(u) \in u /\ StarSum(u) = Leading(u).stars + StarSum(u \ {Leading(u)})
  BY <1>2, <1>3, SumOfFirst
<1>5. StarSum(u \ {Leading(u)}) \in Int
  BY <1>1, <1>2, <1>4
<1>6. Leading(u).stars \in Int
  BY <1>2, <1>4 DEF Numbered
<1> QED BY <1>2, <1>4, <1>5, <1>6

\* Any element can be taken out of the sum first.
LEMMA SumWithout ==
  ASSUME NEW S, IsFiniteSet(S), Numbered(S)
  PROVE  \A x \in S : StarSum(S) = x.stars + StarSum(S \ {x})
<1> DEFINE T == {u \in SUBSET S : \E x \in u : StarSum(u) # x.stars + StarSum(u \ {x})}
<1> SUFFICES ASSUME T # {} PROVE FALSE
  OBVIOUS
<1>1. PICK u \in T : \A v \in T : ~(v \subseteq u /\ v # u)
  <2> HIDE DEF T
  <2> SUFFICES T \subseteq SUBSET S
    BY SmallestSubset
  <2> QED BY DEF T
<1>2. u \in SUBSET S /\ IsFiniteSet(u)
  BY FS_Subset
<1>3. PICK x \in u : StarSum(u) # x.stars + StarSum(u \ {x})
  OBVIOUS
<1>4. \A v \in SUBSET u : v # u => \A y \in v : StarSum(v) = y.stars + StarSum(v \ {y})
  BY <1>1, <1>2
<1> HIDE DEF T
<1> DEFINE c == Leading(u)
           a == u \ {c}
           b == u \ {x}
           w == (u \ {c}) \ {x}
<1>5. c \in u /\ StarSum(u) = c.stars + StarSum(a)
  BY <1>2, SumOfFirst
<1>6. c # x
  BY <1>3, <1>5
<1>7. StarSum(a) = x.stars + StarSum(w)
  BY <1>4, <1>5, <1>6
<1>8. StarSum(b) = c.stars + StarSum(w)
  <2>1. b \in SUBSET u /\ b # u /\ c \in b /\ b \ {c} = w
    BY <1>5, <1>6
  <2> QED BY <1>4, <2>1
<1>9. StarSum(w) \in Int /\ c.stars \in Int /\ x.stars \in Int
  <2>1. IsFiniteSet(w) /\ Numbered(w)
    BY <1>2, FS_Subset DEF Numbered
  <2> QED BY <1>2, <1>5, <2>1, SumIsInteger DEF Numbered
<1> HIDE DEF a, b, c, w
<1>10. c.stars + (x.stars + StarSum(w)) = x.stars + (c.stars + StarSum(w))
  BY <1>9
<1>11. StarSum(u) = x.stars + StarSum(b)
  BY <1>5, <1>7, <1>8, <1>10
<1> QED BY <1>3, <1>11 DEF b

\* A new element adds its stars.
LEMMA SumWith ==
  ASSUME NEW S, IsFiniteSet(S), Numbered(S), NEW x, x \notin S, x.stars \in Int
  PROVE  StarSum(S \cup {x}) = StarSum(S) + x.stars
<1> DEFINE U == S \cup {x}
<1>1. IsFiniteSet(U) /\ Numbered(U) /\ x \in U /\ U \ {x} = S
  BY FS_AddElement DEF Numbered
<1>2. StarSum(U) = x.stars + StarSum(S)
  <2> HIDE DEF U
  <2> QED BY <1>1, SumWithout
<1>3. StarSum(S) \in Int
  BY SumIsInteger
<1> QED BY <1>2, <1>3

\* The sum over two sets without a common element.
LEMMA SumOfDisjoint ==
  ASSUME NEW R, IsFiniteSet(R), Numbered(R), NEW S, IsFiniteSet(S), Numbered(S),
         R \cap S = {}
  PROVE  StarSum(R \cup S) = StarSum(R) + StarSum(S)
<1> DEFINE T == {u \in SUBSET S : StarSum(R \cup u) # StarSum(R) + StarSum(u)}
<1> SUFFICES ASSUME T # {} PROVE FALSE
  OBVIOUS
<1>1. PICK u \in T : \A v \in T : ~(v \subseteq u /\ v # u)
  <2> HIDE DEF T
  <2> SUFFICES T \subseteq SUBSET S
    BY SmallestSubset
  <2> QED BY DEF T
<1>2. /\ u \in SUBSET S /\ IsFiniteSet(u) /\ Numbered(u)
      /\ StarSum(R \cup u) # StarSum(R) + StarSum(u)
  BY FS_Subset DEF Numbered
<1>3. u # {}
  <2>1. StarSum(R) \in Int
    BY SumIsInteger
  <2>2. StarSum(R) + 0 = StarSum(R) /\ R \cup {} = R
    BY <2>1
  <2> QED BY <1>2, <2>2, SumOfNone
<1>4. PICK x \in u : TRUE
  BY <1>3
<1> DEFINE w == u \ {x}
<1>5. /\ IsFiniteSet(w) /\ Numbered(w) /\ x \notin w /\ x.stars \in Int /\ u = w \cup {x}
      /\ IsFiniteSet(R \cup w) /\ Numbered(R \cup w) /\ x \notin R \cup w
  BY <1>2, <1>4, FS_Subset, FS_Union DEF Numbered
<1>6. StarSum(R \cup w) = StarSum(R) + StarSum(w)
  BY <1>1, <1>2, <1>4
<1>7. StarSum(R) \in Int /\ StarSum(w) \in Int
  BY <1>5, SumIsInteger
<1> HIDE DEF w, T
<1>8. StarSum(u) = StarSum(w) + x.stars
  BY <1>5, SumWith
<1>9. StarSum((R \cup w) \cup {x}) = StarSum(R \cup w) + x.stars
  BY <1>5, SumWith
<1>10. (R \cup w) \cup {x} = R \cup u
  BY <1>5
<1>11. StarSum(R \cup u) = StarSum(R) + StarSum(w) + x.stars
  BY <1>6, <1>9, <1>10
<1>12. StarSum(R \cup u) = StarSum(R) + StarSum(u)
  <2>1. StarSum(R) + StarSum(w) + x.stars = StarSum(R) + (StarSum(w) + x.stars)
    BY <1>5, <1>7
  <2> QED BY <1>8, <1>11, <2>1
<1> QED BY <1>2, <1>12

\* What is counted in whole stars, none of them negative, adds up to no less.
LEMMA SumIsNatural ==
  ASSUME NEW S, IsFiniteSet(S), \A e \in S : e.stars \in Nat
  PROVE  StarSum(S) \in Nat
<1> DEFINE T == {u \in SUBSET S : StarSum(u) \notin Nat}
<1> SUFFICES ASSUME T # {} PROVE FALSE
  OBVIOUS
<1>1. PICK u \in T : \A v \in T : ~(v \subseteq u /\ v # u)
  <2> HIDE DEF T
  <2> SUFFICES T \subseteq SUBSET S
    BY SmallestSubset
  <2> QED BY DEF T
<1>2. u \in SUBSET S /\ IsFiniteSet(u) /\ u # {}
  <2>1. u \in SUBSET S /\ StarSum(u) \notin Nat
    OBVIOUS
  <2>2. u # {}
    BY <2>1, SumOfNone
  <2> QED BY <2>1, <2>2, FS_Subset
<1>3. Leading(u) \in u /\ StarSum(u) = Leading(u).stars + StarSum(u \ {Leading(u)})
  BY <1>2, SumOfFirst
<1>4. StarSum(u \ {Leading(u)}) \in Nat
  BY <1>1, <1>2, <1>3
<1> QED BY <1>2, <1>3, <1>4

\* More stars of more elements, when none is negative.
LEMMA SumIsMonotone ==
  ASSUME NEW S, IsFiniteSet(S), NEW R \in SUBSET S, \A e \in S : e.stars \in Nat
  PROVE  StarSum(R) <= StarSum(S)
<1> DEFINE W == S \ R
<1>1. /\ IsFiniteSet(R) /\ IsFiniteSet(W) /\ Numbered(R) /\ Numbered(W)
      /\ R \cap W = {} /\ R \cup W = S
  BY FS_Subset DEF Numbered
<1>2. StarSum(W) \in Nat /\ StarSum(R) \in Nat
  BY <1>1, FS_Subset, SumIsNatural
<1> HIDE DEF W
<1>3. StarSum(S) = StarSum(R) + StarSum(W)
  BY <1>1, SumOfDisjoint
<1> QED BY <1>2, <1>3
=============================================================================
