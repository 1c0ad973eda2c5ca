------------------------------ MODULE TierIndex -----------------------------
(***************************************************************************)
(* The global secondary index GSI1 of the table: the members of a tier in  *)
(* the order of their evaluation keys.  The scheduled jobs find their      *)
(* members here.  The index projects the whole profile, and DynamoDB       *)
(* updates it some time after the table: a job may see a profile that has  *)
(* changed since.                                                          *)
(***************************************************************************)
EXTENDS RewardsTable

VARIABLE byTier   \* the profile of each member as GSI1 shows it

TierIndexInit == byTier = Opening

\* A query that takes every member.
ShownOfAnyTier(tier) == {m \in Members : byTier[m] # NoMember}

\* Members the index shows under a tier.
Shown(tier) == {m \in Members : byTier[m] # NoMember /\ byTier[m].tier = tier}

\* A query without the condition on the date.
ShownAny(tier, now) == Shown(tier)

\* Those of them whose evaluation date, as the index has it, is past.
ShownDue(tier, now) == {m \in Shown(tier) : byTier[m].evaluationKey < now}

\* What one query may return: at most limit members, those with the earliest
\* evaluation keys.  query_members_by_tier asks for no second page.
FirstPage(found, limit) ==
  {page \in SUBSET found :
     /\ Cardinality(page) = IF Cardinality(found) < limit
                              THEN Cardinality(found) ELSE limit
     /\ \A m \in page, n \in found \ page :
          byTier[m].evaluationKey <= byTier[n].evaluationKey}

\* DynamoDB brings the index up to date with one member.
PropagateToTierIndex ==
  /\ \E m \in Members :
       /\ byTier[m] # profile[m]
       /\ byTier' = [byTier EXCEPT ![m] = profile[m]]
  /\ UNCHANGED <<tableVars, today>>
=============================================================================
