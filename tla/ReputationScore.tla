-------------------------- MODULE ReputationScore ---------------------------
(***************************************************************************)
(* pallets/reputation: the score record of an account and the saturating   *)
(* u32 arithmetic its total is computed with.                              *)
(***************************************************************************)
EXTENDS Integers

CONSTANTS
  U32Max,     \* u32::MAX
  ScoreCap    \* 1000, the highest score

ASSUME ScoreAssumption ==
  U32Max \in Nat /\ ScoreCap \in Nat /\ ScoreCap <= U32Max

U32 == 0..U32Max

ReputationScore ==
  [credentials_issued : U32, credentials_verified : U32,
   endorsements_received : U32, endorsements_given : U32,
   total_score : U32]

DefaultScore ==
  [credentials_issued |-> 0, credentials_verified |-> 0,
   endorsements_received |-> 0, endorsements_given |-> 0,
   total_score |-> 0]

\* The arithmetic of u32 that the pallet uses.

\* Faulty: min and the saturation are left out.
AtMostUnbounded(bound, n) == n

AtMost(bound, n) == IF n <= bound THEN n ELSE bound
\* Faulty: wraps around.
SaturatingAddWrapping(m, n) == (m + n) % (U32Max + 1)

SaturatingAdd(m, n) == AtMost(U32Max, m + n)
SaturatingMul(m, n) == AtMost(U32Max, m * n)
SaturatingSub(m, n) == IF n <= m THEN m - n ELSE 0

\* calculate_reputation_score; the weights of endorsements do not count.
CalculateReputationScore(score) ==
  AtMost(ScoreCap,
    SaturatingAdd(
      SaturatingAdd(SaturatingMul(score.credentials_issued, 10),
                    SaturatingMul(score.credentials_verified, 5)),
      SaturatingMul(score.endorsements_received, 20)))

Recalculated(score) ==
  [score EXCEPT !.total_score = CalculateReputationScore(score)]

\* The closures that the calls hand to ReputationScores::mutate.
EndorsementReceived(score) ==
  Recalculated(
    [score EXCEPT !.endorsements_received = SaturatingAdd(@, 1)])
EndorsementWithdrawn(score) ==
  Recalculated(
    [score EXCEPT !.endorsements_received = SaturatingSub(@, 1)])
CredentialIssued(score) ==
  Recalculated([score EXCEPT !.credentials_issued = SaturatingAdd(@, 1)])
CredentialVerified(score) ==
  Recalculated([score EXCEPT !.credentials_verified = SaturatingAdd(@, 1)])
-----------------------------------------------------------------------------
\* The exact weighted sum of the counters, over the integers.
WeightedSum(score) ==
  10 * score.credentials_issued + 5 * score.credentials_verified
    + 20 * score.endorsements_received
=============================================================================
