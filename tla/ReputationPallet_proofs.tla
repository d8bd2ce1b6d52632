----------------------- MODULE ReputationPallet_proofs ----------------------
(***************************************************************************)
(* The reputation pallet is correct for all accounts, weights and bounds:  *)
(* the flag of a pair, the two lists and the four counters never drift     *)
(* apart, and the score is never stale.                                    *)
(***************************************************************************)
EXTENDS ReputationPallet, DidPallet_proofs

\* The state invariants of ReputationPallet together; with the invariant of
\* the did pallet they are inductive.
ReputationInv ==
  /\ DidInv
  /\ ReputationTypeOK
  /\ EndorsementHasParties
  /\ EndorsementsExact
  /\ ScoreCurrent

\* The saturating arithmetic stays in u32, is monotone, and computes the
\* weighted sum as far as the cap lets it show.
LEMMA RecalculatedScore ==
  ASSUME NEW score \in ReputationScore
  PROVE  /\ Recalculated(score) \in ReputationScore
         /\ Recalculated(score).credentials_issued = score.credentials_issued
         /\ Recalculated(score).credentials_verified
              = score.credentials_verified
         /\ Recalculated(score).endorsements_received
              = score.endorsements_received
         /\ Recalculated(score).endorsements_given = score.endorsements_given
         /\ Recalculated(score).total_score
              = AtMost(ScoreCap, WeightedSum(score))
<1> DEFINE total == CalculateReputationScore(score)
<1>1. /\ score.credentials_issued \in Nat
      /\ score.credentials_verified \in Nat
      /\ score.endorsements_received \in Nat
  BY ScoreAssumption DEF ReputationScore, U32
<1>2. total \in U32 /\ total = AtMost(ScoreCap, WeightedSum(score))
  <2> DEFINE i == score.credentials_issued * 10
             v == score.credentials_verified * 5
             r == score.endorsements_received * 20
  <2>1. /\ i \in Nat /\ v \in Nat /\ r \in Nat
        /\ WeightedSum(score) = i + v + r
    BY <1>1 DEF WeightedSum
  <2>2. total = AtMost(ScoreCap, AtMost(U32Max,
                  AtMost(U32Max, AtMost(U32Max, i) + AtMost(U32Max, v))
                    + AtMost(U32Max, r)))
    BY DEF CalculateReputationScore, SaturatingAdd, SaturatingMul
  <2> HIDE DEF total, i, v, r
  <2>3. QED
    BY <2>1, <2>2, ScoreAssumption DEF AtMost, U32
<1> HIDE DEF total
<1>3. Recalculated(score) = [score EXCEPT !.total_score = total]
  BY DEF Recalculated, total
<1>4. QED
  BY <1>2, <1>3 DEF ReputationScore

\* The score shown is a function of the counters that count.
LEMMA CappedSum ==
  ASSUME NEW s \in ReputationScore, NEW r \in ReputationScore
  PROVE  /\ AtMost(ScoreCap, WeightedSum(s)) \in Nat
         /\ /\ s.credentials_issued <= r.credentials_issued
            /\ s.credentials_verified <= r.credentials_verified
            /\ s.endorsements_received <= r.endorsements_received
            => AtMost(ScoreCap, WeightedSum(s))
                 <= AtMost(ScoreCap, WeightedSum(r))
<1>1. /\ s.credentials_issued \in Nat /\ r.credentials_issued \in Nat
      /\ s.credentials_verified \in Nat /\ r.credentials_verified \in Nat
      /\ s.endorsements_received \in Nat /\ r.endorsements_received \in Nat
  BY ScoreAssumption DEF ReputationScore, U32
<1>2. QED
  BY <1>1, ScoreAssumption DEF AtMost, WeightedSum
-----------------------------------------------------------------------------
\* What the endorsement of one account by another writes.
EndorseStep(a, b) ==
  /\ a # b
  /\ HasDid(a) /\ HasDid(b)
  /\ ~HasEndorsed[a][b]
  /\ HasRoom(EndorsementsGiven[a], MaxEndorsements)
  /\ HasRoom(EndorsementsReceived[b], MaxEndorsements)
  /\ signer' = a
  /\ UNCHANGED <<now, didVars>>
  /\ \E e \in Endorsement :
       /\ e.endorser = a /\ e.endorsee = b
       /\ EndorsementsGiven' = [EndorsementsGiven EXCEPT
            ![a] = Append(EndorsementsGiven[a], e)]
       /\ EndorsementsReceived' = [EndorsementsReceived EXCEPT
            ![b] = Append(EndorsementsReceived[b], e)]
  /\ HasEndorsed' = [HasEndorsed EXCEPT ![a][b] = TRUE]
  /\ ReputationScores' = ScoresAfterEndorsing(a, b)

\* What its removal writes.
RemovalStep(a, b) ==
  /\ HasEndorsed[a][b]
  /\ signer' = a
  /\ UNCHANGED <<now, didVars>>
  /\ EndorsementsGiven' = [EndorsementsGiven EXCEPT
       ![a] = Retain(EndorsementsGiven[a],
                     {e \in Range(EndorsementsGiven[a]) : e.endorsee # b})]
  /\ EndorsementsReceived' = [EndorsementsReceived EXCEPT
       ![b] = Retain(EndorsementsReceived[b],
                     {e \in Range(EndorsementsReceived[b]) : e.endorser # a})]
  /\ HasEndorsed' = [HasEndorsed EXCEPT ![a][b] = FALSE]
  /\ ReputationScores' = ScoresAfterRemoval(a, b)

\* What recording a credential, or computing a score again, writes: the
\* counters of credentials of one account do not fall, and its score follows.
SoundRecord(old, counted) ==
  /\ counted.credentials_issued >= old.credentials_issued
  /\ counted.credentials_verified >= old.credentials_verified
  /\ counted.endorsements_received = old.endorsements_received
  /\ counted.endorsements_given = old.endorsements_given

RecordStep(a) ==
  /\ signer' \in Origins
  /\ UNCHANGED <<now, didVars, listVars>>
  /\ \E counted \in ReputationScore :
       /\ SoundRecord(ReputationScores[a], counted)
       /\ ReputationScores' =
            [ReputationScores EXCEPT ![a] = Recalculated(counted)]

\* endorse writes what EndorseStep says.
LEMMA EndorseWrites ==
  ASSUME ReputationTypeOK, NEW origin \in Origins, NEW endorsee \in Accounts,
         NEW type \in EndorsementTypes, NEW comment \in CommentSizes,
         NEW weight \in Weights,
         Endorse(origin, endorsee, type, comment, weight)
  PROVE  origin \in Accounts /\ EndorseStep(origin, endorsee)
<1> DEFINE e == [endorser |-> origin, endorsee |-> endorsee,
                 endorsement_type |-> type, comment |-> comment,
                 created_at |-> now, weight |-> weight]
<1>1. /\ EndorseResult(origin, endorsee, comment, weight) = Ok
      /\ signer' = origin /\ now' = now
  BY DEF Endorse, Dispatched
<1>2. /\ origin \in Accounts /\ origin # endorsee
      /\ HasDid(origin) /\ HasDid(endorsee)
      /\ ~HasEndorsed[origin][endorsee]
      /\ HasRoom(EndorsementsGiven[origin], MaxEndorsements)
      /\ HasRoom(EndorsementsReceived[endorsee], MaxEndorsements)
  BY <1>1 DEF EndorseResult, Ok, IsSigned
<1>3. now \in Nat
  BY MaxBlockAssumption DEF ReputationTypeOK, DidTypeOK, FrameTypeOK
<1>4. e \in Endorsement /\ e.endorser = origin /\ e.endorsee = endorsee
  BY <1>2, <1>3 DEF Endorsement
<1>5. /\ EndorsementsGiven' = [EndorsementsGiven EXCEPT
           ![origin] = Append(EndorsementsGiven[origin], e)]
      /\ EndorsementsReceived' = [EndorsementsReceived EXCEPT
           ![endorsee] = Append(EndorsementsReceived[endorsee], e)]
      /\ HasEndorsed' = [HasEndorsed EXCEPT ![origin][endorsee] = TRUE]
      /\ ReputationScores' = ScoresAfterEndorsing(origin, endorsee)
      /\ UNCHANGED didVars
  BY DEF Endorse
<1> HIDE DEF e
<1>6. QED
  BY <1>1, <1>2, <1>4, <1>5 DEF EndorseStep

\* remove_endorsement writes what RemovalStep says.
LEMMA RemovalWrites ==
  ASSUME NEW origin \in Origins, NEW endorsee \in Accounts,
         RemoveEndorsement(origin, endorsee)
  PROVE  origin \in Accounts /\ RemovalStep(origin, endorsee)
BY DEF RemoveEndorsement, Dispatched, RemoveEndorsementResult, Ok, IsSigned,
       RemovalStep

\* The calls that record and recompute write what RecordStep says.
LEMMA RecordsWrite ==
  ASSUME ReputationTypeOK, NEW origin \in Origins, NEW a \in Accounts,
         \/ RecordCredentialIssuance(origin, a)
         \/ RecordCredentialVerification(origin) /\ origin = a
         \/ UpdateReputationScore(origin, a)
  PROVE  RecordStep(a)
<1> DEFINE old == ReputationScores[a]
           issued == [old EXCEPT
             !.credentials_issued = SaturatingAdd(old.credentials_issued, 1)]
           checked == [old EXCEPT !.credentials_verified =
                         SaturatingAdd(old.credentials_verified, 1)]
<1>1. old \in ReputationScore
  BY DEF ReputationTypeOK
<1>2. \A n \in U32 : SaturatingAdd(n, 1) \in U32 /\ SaturatingAdd(n, 1) >= n
  BY ScoreAssumption DEF SaturatingAdd, AtMost, U32
<1>3. /\ old.credentials_issued \in U32 /\ old.credentials_verified \in U32
      /\ old.endorsements_received \in U32 /\ old.endorsements_given \in U32
      /\ old.credentials_issued \in Nat /\ old.credentials_verified \in Nat
  BY <1>1, ScoreAssumption DEF ReputationScore, U32
<1>4. issued \in ReputationScore /\ SoundRecord(old, issued)
  <2> DEFINE n == SaturatingAdd(old.credentials_issued, 1)
  <2>1. n \in U32 /\ n >= old.credentials_issued
    BY <1>2, <1>3
  <2> HIDE DEF n
  <2>2. /\ [old EXCEPT !.credentials_issued = n] \in ReputationScore
        /\ SoundRecord(old, [old EXCEPT !.credentials_issued = n])
    BY <1>1, <1>3, <2>1 DEF ReputationScore, SoundRecord
  <2>3. QED
    BY <2>2 DEF n
<1>5. checked \in ReputationScore /\ SoundRecord(old, checked)
  <2> DEFINE n == SaturatingAdd(old.credentials_verified, 1)
  <2>1. n \in U32 /\ n >= old.credentials_verified
    BY <1>2, <1>3
  <2> HIDE DEF n
  <2>2. /\ [old EXCEPT !.credentials_verified = n] \in ReputationScore
        /\ SoundRecord(old, [old EXCEPT !.credentials_verified = n])
    BY <1>1, <1>3, <2>1 DEF ReputationScore, SoundRecord
  <2>3. QED
    BY <2>2 DEF n
<1>6. SoundRecord(old, old)
  BY <1>3 DEF SoundRecord
<1>7. signer' = origin /\ UNCHANGED <<now, didVars, listVars>>
  BY DEF RecordCredentialIssuance, RecordCredentialVerification,
         UpdateReputationScore, Dispatched
<1>8. \/ ReputationScores' =
           [ReputationScores EXCEPT ![a] = Recalculated(issued)]
      \/ ReputationScores' =
           [ReputationScores EXCEPT ![a] = Recalculated(checked)]
      \/ ReputationScores' =
           [ReputationScores EXCEPT ![a] = Recalculated(old)]
  <2>1. CASE RecordCredentialIssuance(origin, a)
    BY <2>1 DEF RecordCredentialIssuance, CredentialIssued
  <2>2. CASE RecordCredentialVerification(origin) /\ origin = a
    BY <2>2 DEF RecordCredentialVerification, CredentialVerified
  <2>3. CASE UpdateReputationScore(origin, a)
    BY <2>3 DEF UpdateReputationScore
  <2>4. QED
    BY <2>1, <2>2, <2>3
<1> HIDE DEF old, issued, checked
<1>9. QED
  BY <1>1, <1>4, <1>5, <1>6, <1>7, <1>8 DEF RecordStep, old

\* Every step is one of the did pallet, or one of the three kinds.
LEMMA ReputationSteps ==
  ASSUME ReputationTypeOK, ReputationNext
  PROVE  \/ DidNext /\ UNCHANGED reputationVars
         \/ \E a, b \in Accounts : EndorseStep(a, b) \/ RemovalStep(a, b)
         \/ \E a \in Accounts : RecordStep(a)
BY EndorseWrites, RemovalWrites, RecordsWrite
   DEF ReputationNext, ReputationCall, IsSigned
-----------------------------------------------------------------------------
\* The fields of a score.
LEMMA ScoreFields ==
  ASSUME NEW score \in ReputationScore
  PROVE  /\ score.credentials_issued \in U32
         /\ score.credentials_verified \in U32
         /\ score.endorsements_received \in U32
         /\ score.endorsements_given \in U32
         /\ score.total_score \in U32
         /\ \A n \in U32 : n \in Nat
BY ScoreAssumption DEF ReputationScore, U32

\* A score whose endorser's counter changes.
LEMMA GivenCounted ==
  ASSUME NEW score \in ReputationScore, NEW n \in U32
  PROVE  LET new == [score EXCEPT !.endorsements_given = n]
         IN  /\ new \in ReputationScore
             /\ new.endorsements_given = n
             /\ new.endorsements_received = score.endorsements_received
             /\ new.credentials_issued = score.credentials_issued
             /\ new.credentials_verified = score.credentials_verified
             /\ new.total_score = score.total_score
             /\ WeightedSum(new) = WeightedSum(score)
BY DEF ReputationScore, WeightedSum

\* A score whose endorsee's counter changes, computed again.
LEMMA ReceivedCounted ==
  ASSUME NEW score \in ReputationScore, NEW n \in U32
  PROVE  LET new ==
               Recalculated([score EXCEPT !.endorsements_received = n])
         IN  /\ new \in ReputationScore
             /\ new.endorsements_received = n
             /\ new.endorsements_given = score.endorsements_given
             /\ new.credentials_issued = score.credentials_issued
             /\ new.credentials_verified = score.credentials_verified
             /\ new.total_score = AtMost(ScoreCap, WeightedSum(new))
<1> DEFINE counted == [score EXCEPT !.endorsements_received = n]
           new == Recalculated(counted)
<1>1. /\ counted \in ReputationScore
      /\ counted.endorsements_received = n
      /\ counted.endorsements_given = score.endorsements_given
      /\ counted.credentials_issued = score.credentials_issued
      /\ counted.credentials_verified = score.credentials_verified
  BY DEF ReputationScore
<1> HIDE DEF counted
<1>2. /\ new \in ReputationScore
      /\ new.endorsements_received = counted.endorsements_received
      /\ new.endorsements_given = counted.endorsements_given
      /\ new.credentials_issued = counted.credentials_issued
      /\ new.credentials_verified = counted.credentials_verified
      /\ new.total_score = AtMost(ScoreCap, WeightedSum(counted))
  BY <1>1, RecalculatedScore
<1> HIDE DEF new
<1>3. WeightedSum(new) = WeightedSum(counted)
  BY <1>2 DEF WeightedSum
<1>4. QED
  BY <1>1, <1>2, <1>3 DEF new, counted

\* The scores that follow when the counter of a becomes given and the counter
\* of b becomes received.
ScoresFollow(a, b, given, received) ==
  /\ ReputationScores' \in [Accounts -> ReputationScore]
  /\ ReputationScores'[a].endorsements_given = given
  /\ ReputationScores'[b].endorsements_received = received
  /\ \A who \in Accounts :
       /\ who # a => ReputationScores'[who].endorsements_given
                       = ReputationScores[who].endorsements_given
       /\ who # b => ReputationScores'[who].endorsements_received
                       = ReputationScores[who].endorsements_received
       /\ who # b => ReputationScores'[who].total_score
                       = ReputationScores[who].total_score
       /\ ReputationScores'[who].credentials_issued
            = ReputationScores[who].credentials_issued
       /\ ReputationScores'[who].credentials_verified
            = ReputationScores[who].credentials_verified

\* Such scores are current.
LEMMA ScoresStayCurrent ==
  ASSUME ReputationScores \in [Accounts -> ReputationScore], ScoreCurrent,
         NEW a \in Accounts, NEW b \in Accounts, a # b,
         NEW given \in U32, NEW received \in U32,
         ReputationScores' = [ReputationScores EXCEPT
           ![a].endorsements_given = given,
           ![b] = Recalculated([ReputationScores[b] EXCEPT
                                  !.endorsements_received = received])]
  PROVE  ScoresFollow(a, b, given, received) /\ ScoreCurrent'
<1> DEFINE newA == [ReputationScores[a] EXCEPT !.endorsements_given = given]
           newB == Recalculated([ReputationScores[b] EXCEPT
                                   !.endorsements_received = received])
<1>1. /\ newA \in ReputationScore
      /\ newA.endorsements_given = given
      /\ newA.endorsements_received
           = ReputationScores[a].endorsements_received
      /\ newA.credentials_issued = ReputationScores[a].credentials_issued
      /\ newA.credentials_verified = ReputationScores[a].credentials_verified
      /\ newA.total_score = ReputationScores[a].total_score
      /\ WeightedSum(newA) = WeightedSum(ReputationScores[a])
  BY GivenCounted
<1>2. /\ newB \in ReputationScore
      /\ newB.endorsements_received = received
      /\ newB.endorsements_given = ReputationScores[b].endorsements_given
      /\ newB.credentials_issued = ReputationScores[b].credentials_issued
      /\ newB.credentials_verified = ReputationScores[b].credentials_verified
      /\ newB.total_score = AtMost(ScoreCap, WeightedSum(newB))
  BY ReceivedCounted
<1>3. ReputationScores' =
        [ReputationScores EXCEPT ![a] = newA, ![b] = newB]
  OBVIOUS
<1> HIDE DEF newA, newB
<1>4. /\ ReputationScores' \in [Accounts -> ReputationScore]
      /\ \A who \in Accounts : ReputationScores'[who] =
           IF who = b THEN newB ELSE IF who = a THEN newA
           ELSE ReputationScores[who]
  <2>1. newA \in ReputationScore /\ newB \in ReputationScore
    BY <1>1, <1>2
  <2>2. ReputationScores' \in [Accounts -> ReputationScore]
    BY <1>3, <2>1
  <2>3. \A who \in Accounts : ReputationScores'[who] =
          IF who = b THEN newB ELSE IF who = a THEN newA
          ELSE ReputationScores[who]
    BY <1>3
  <2>4. QED
    BY <2>2, <2>3
<1>5. ScoresFollow(a, b, given, received)
  BY <1>1, <1>2, <1>4 DEF ScoresFollow
<1>6. ScoreCurrent'
  BY <1>1, <1>2, <1>4 DEF ScoreCurrent
<1>7. QED
  BY <1>5, <1>6

\* endorse counts one more on both sides.
LEMMA EndorsementScored ==
  ASSUME ReputationInv, NEW a \in Accounts, NEW b \in Accounts,
         EndorseStep(a, b)
  PROVE  /\ ScoresFollow(a, b, Len(EndorsementsGiven[a]) + 1,
                         Len(EndorsementsReceived[b]) + 1)
         /\ ScoreCurrent'
<1> DEFINE given == SaturatingAdd(ReputationScores[a].endorsements_given, 1)
           received ==
             SaturatingAdd(ReputationScores[b].endorsements_received, 1)
<1>1. /\ ReputationScores \in [Accounts -> ReputationScore] /\ ScoreCurrent
      /\ ReputationScores[a].endorsements_given = Len(EndorsementsGiven[a])
      /\ ReputationScores[b].endorsements_received
           = Len(EndorsementsReceived[b])
      /\ EndorsementsGiven[a] \in Seq(Endorsement)
      /\ EndorsementsReceived[b] \in Seq(Endorsement)
  BY DEF ReputationInv, ReputationTypeOK, EndorsementsExact,
         CountersMatchLists
<1>2. /\ Len(EndorsementsGiven[a]) \in Nat
      /\ Len(EndorsementsReceived[b]) \in Nat
      /\ Len(EndorsementsGiven[a]) < MaxEndorsements
      /\ Len(EndorsementsReceived[b]) < MaxEndorsements
  BY <1>1, LenProperties DEF EndorseStep, HasRoom
<1>3. /\ given = Len(EndorsementsGiven[a]) + 1 /\ given \in U32
      /\ received = Len(EndorsementsReceived[b]) + 1 /\ received \in U32
  BY <1>1, <1>2, EndorsementAssumption, EndorsementsFit, ScoreAssumption
     DEF SaturatingAdd, AtMost, U32
<1>4. ReputationScores' = [ReputationScores EXCEPT
        ![a].endorsements_given = given,
        ![b] = Recalculated([ReputationScores[b] EXCEPT
                               !.endorsements_received = received])]
  BY DEF EndorseStep, ScoresAfterEndorsing, EndorsementReceived
<1> HIDE DEF given, received
<1>5. a # b
  BY DEF EndorseStep
<1>6. QED
  BY <1>1, <1>3, <1>4, <1>5, ScoresStayCurrent
-----------------------------------------------------------------------------
\* One endorsement of the pair, the same record in both lists.
OneEndorsement(a, b) ==
  \E i \in DOMAIN EndorsementsGiven[a], j \in DOMAIN EndorsementsReceived[b] :
    /\ GivenTo(a, b) = {i}
    /\ ReceivedFrom(b, a) = {j}
    /\ EndorsementsGiven[a][i] = EndorsementsReceived[b][j]

NoEndorsement(a, b) == GivenTo(a, b) = {} /\ ReceivedFrom(b, a) = {}

\* endorse preserves the invariant.
LEMMA EndorsePreserves ==
  ASSUME ReputationInv, NEW a \in Accounts, NEW b \in Accounts,
         EndorseStep(a, b)
  PROVE  ReputationInv'
<1> DEFINE given == EndorsementsGiven[a]
           received == EndorsementsReceived[b]
<1>1. PICK e \in Endorsement :
        /\ e.endorser = a /\ e.endorsee = b
        /\ EndorsementsGiven' =
             [EndorsementsGiven EXCEPT ![a] = Append(given, e)]
        /\ EndorsementsReceived' =
             [EndorsementsReceived EXCEPT ![b] = Append(received, e)]
  BY DEF EndorseStep
<1>2. /\ EndorsementsGiven \in [Accounts -> Seq(Endorsement)]
      /\ EndorsementsReceived \in [Accounts -> Seq(Endorsement)]
      /\ HasEndorsed \in [Accounts -> [Accounts -> BOOLEAN]]
      /\ EndorsementsAgree /\ EndorsementsFiled /\ CountersMatchLists
      /\ EndorsementHasParties
      /\ DidInv
  BY DEF ReputationInv, ReputationTypeOK, EndorsementsExact
<1>3. /\ a # b /\ HasDid(a) /\ HasDid(b) /\ ~HasEndorsed[a][b]
      /\ HasRoom(given, MaxEndorsements)
      /\ HasRoom(received, MaxEndorsements)
      /\ signer' = a
      /\ UNCHANGED <<now, didVars>>
      /\ HasEndorsed' = [HasEndorsed EXCEPT ![a][b] = TRUE]
  BY DEF EndorseStep
<1>4. DidInv'
  BY <1>2, <1>3
     DEF DidInv, DidTypeOK, FrameTypeOK, Origins, HasDid, IsInstitution,
         DocumentInOrder, KeysDistinctAndBounded, InstitutionHasDid, didVars
<1>5. /\ Append(given, e) \in Seq(Endorsement)
      /\ Len(Append(given, e)) = Len(given) + 1
      /\ Len(Append(given, e)) <= MaxEndorsements
      /\ DOMAIN Append(given, e) = (DOMAIN given) \cup {Len(given) + 1}
      /\ Len(given) + 1 \notin DOMAIN given
      /\ \A i \in DOMAIN given : Append(given, e)[i] = given[i]
      /\ Append(given, e)[Len(given) + 1] = e
      /\ Range(Append(given, e)) = Range(given) \cup {e}
  BY <1>2, <1>3, PushProperties, EndorsementAssumption
<1>6. /\ Append(received, e) \in Seq(Endorsement)
      /\ Len(Append(received, e)) = Len(received) + 1
      /\ Len(Append(received, e)) <= MaxEndorsements
      /\ DOMAIN Append(received, e)
           = (DOMAIN received) \cup {Len(received) + 1}
      /\ Len(received) + 1 \notin DOMAIN received
      /\ \A i \in DOMAIN received : Append(received, e)[i] = received[i]
      /\ Append(received, e)[Len(received) + 1] = e
      /\ Range(Append(received, e)) = Range(received) \cup {e}
  BY <1>2, <1>3, PushProperties, EndorsementAssumption
<1> DEFINE newGiven == Append(given, e)
           newReceived == Append(received, e)
<1> HIDE DEF newGiven, newReceived
<1>7. \A who \in Accounts :
        /\ EndorsementsGiven'[who] =
             IF who = a THEN newGiven ELSE EndorsementsGiven[who]
        /\ EndorsementsReceived'[who] =
             IF who = b THEN newReceived ELSE EndorsementsReceived[who]
        /\ \A other \in Accounts : HasEndorsed'[who][other] =
             IF who = a /\ other = b THEN TRUE ELSE HasEndorsed[who][other]
  BY <1>1, <1>2, <1>3 DEF newGiven, newReceived
<1>8. /\ ScoresFollow(a, b, Len(given) + 1, Len(received) + 1)
      /\ ScoreCurrent'
  BY EndorsementScored
<1>9. ReputationTypeOK'
  BY <1>1, <1>2, <1>3, <1>4, <1>5, <1>6, <1>8
     DEF ReputationTypeOK, DidInv, ScoresFollow
<1>10. EndorsementHasParties'
  BY <1>1, <1>2, <1>3, <1>5, <1>7
     DEF EndorsementHasParties, HasDid, didVars, newGiven
<1>11. EndorsementsFiled'
  BY <1>1, <1>2, <1>5, <1>6, <1>7
     DEF EndorsementsFiled, newGiven, newReceived
<1>12. CountersMatchLists'
  BY <1>2, <1>5, <1>6, <1>7, <1>8
     DEF CountersMatchLists, ScoresFollow, newGiven, newReceived
<1>13. EndorsementsAgree'
  <2>1. ASSUME NEW x \in Accounts, NEW y \in Accounts, x # a \/ y # b
        PROVE  /\ GivenTo(x, y)' = GivenTo(x, y)
               /\ \A i \in GivenTo(x, y) :
                    /\ i \in DOMAIN EndorsementsGiven[x]
                    /\ i \in DOMAIN EndorsementsGiven'[x]
                    /\ EndorsementsGiven'[x][i] = EndorsementsGiven[x][i]
    BY <1>1, <1>5, <1>7, <2>1 DEF GivenTo, newGiven
  <2>2. ASSUME NEW x \in Accounts, NEW y \in Accounts, x # a \/ y # b
        PROVE  /\ ReceivedFrom(y, x)' = ReceivedFrom(y, x)
               /\ \A i \in ReceivedFrom(y, x) :
                    /\ i \in DOMAIN EndorsementsReceived[y]
                    /\ i \in DOMAIN EndorsementsReceived'[y]
                    /\ EndorsementsReceived'[y][i] = EndorsementsReceived[y][i]
    BY <1>1, <1>6, <1>7, <2>2 DEF ReceivedFrom, newReceived
  <2>3. GivenTo(a, b) = {} /\ ReceivedFrom(b, a) = {}
    BY <1>2, <1>3 DEF EndorsementsAgree
  <2>4. PICK n \in DOMAIN EndorsementsGiven'[a] :
          GivenTo(a, b)' = {n} /\ EndorsementsGiven'[a][n] = e
    <3> DEFINE n == Len(given) + 1
    <3>1. /\ EndorsementsGiven'[a] = newGiven
          /\ DOMAIN newGiven = (DOMAIN given) \cup {n}
          /\ \A i \in DOMAIN given : newGiven[i] = given[i]
          /\ newGiven[n] = e
      BY <1>5, <1>7 DEF newGiven
    <3>2. \A i \in DOMAIN given : given[i].endorsee # b
      BY <2>3 DEF GivenTo
    <3> HIDE DEF n, given
    <3>3. {i \in DOMAIN newGiven : newGiven[i].endorsee = b} = {n}
      BY <1>1, <3>1, <3>2
    <3>4. GivenTo(a, b)' = {n}
      BY <3>1, <3>3 DEF GivenTo
    <3>5. QED
      BY <3>1, <3>4
  <2>5. PICK m \in DOMAIN EndorsementsReceived'[b] :
          ReceivedFrom(b, a)' = {m} /\ EndorsementsReceived'[b][m] = e
    <3> DEFINE m == Len(received) + 1
    <3>1. /\ EndorsementsReceived'[b] = newReceived
          /\ DOMAIN newReceived = (DOMAIN received) \cup {m}
          /\ \A i \in DOMAIN received : newReceived[i] = received[i]
          /\ newReceived[m] = e
      BY <1>6, <1>7 DEF newReceived
    <3>2. \A i \in DOMAIN received : received[i].endorser # a
      BY <2>3 DEF ReceivedFrom
    <3> HIDE DEF m, received
    <3>3. {i \in DOMAIN newReceived : newReceived[i].endorser = a} = {m}
      BY <1>1, <3>1, <3>2
    <3>4. ReceivedFrom(b, a)' = {m}
      BY <3>1, <3>3 DEF ReceivedFrom
    <3>5. QED
      BY <3>1, <3>4
  <2>6. ASSUME NEW x \in Accounts, NEW y \in Accounts
        PROVE  IF HasEndorsed'[x][y] THEN OneEndorsement(x, y)'
               ELSE NoEndorsement(x, y)'
    <3>1. CASE x = a /\ y = b
      <4>1. HasEndorsed'[x][y]
        BY <1>7, <3>1
      <4>2. OneEndorsement(a, b)'
        BY <2>4, <2>5 DEF OneEndorsement
      <4>3. QED
        BY <3>1, <4>1, <4>2
    <3>2. CASE x # a \/ y # b
      <4>1. HasEndorsed'[x][y] = HasEndorsed[x][y]
        BY <1>7, <3>2
      <4>2. CASE HasEndorsed[x][y]
        <5>1. PICK i \in DOMAIN EndorsementsGiven[x],
                   j \in DOMAIN EndorsementsReceived[y] :
                /\ GivenTo(x, y) = {i}
                /\ ReceivedFrom(y, x) = {j}
                /\ EndorsementsGiven[x][i] = EndorsementsReceived[y][j]
          BY <1>2, <4>2 DEF EndorsementsAgree
        <5>2. QED
          BY <2>1, <2>2, <3>2, <4>1, <4>2, <5>1 DEF OneEndorsement
      <4>3. CASE ~HasEndorsed[x][y]
        BY <1>2, <2>1, <2>2, <3>2, <4>1, <4>3
           DEF EndorsementsAgree, NoEndorsement
      <4>4. QED
        BY <4>2, <4>3
    <3>3. QED
      BY <3>1, <3>2
  <2>7. QED
    BY <2>6 DEF EndorsementsAgree, OneEndorsement, NoEndorsement
<1>14. QED
  BY <1>4, <1>8, <1>9, <1>10, <1>11, <1>12, <1>13
     DEF ReputationInv, EndorsementsExact
-----------------------------------------------------------------------------
\* A vector that has lost the element at one position: it is one shorter, and
\* every other element has a position of its own in it.
DropsAt(vec, i, res) ==
  /\ Len(res) = Len(vec) - 1 /\ Len(res) \in Nat
  /\ Range(res) \subseteq Range(vec)
  /\ \E pos :
       /\ \A k \in DOMAIN vec : k # i =>
            pos[k] \in DOMAIN res /\ res[pos[k]] = vec[k]
       /\ \A n \in DOMAIN res : \E k \in DOMAIN vec : k # i /\ pos[k] = n

\* retain with a test that all elements but one pass drops that element.
LEMMA RetainOthers ==
  ASSUME NEW T, NEW vec \in Seq(T), NEW keep, NEW i \in DOMAIN vec,
         \A k \in DOMAIN vec : vec[k] \in keep <=> k # i
  PROVE  Retain(vec, keep) \in Seq(T) /\ DropsAt(vec, i, Retain(vec, keep))
<1> DEFINE kept == KeptAt(vec, keep)
           res == Retain(vec, keep)
           pos == [k \in kept |-> Rank(kept, k)]
<1>1. /\ res \in Seq(T)
      /\ Len(res) = Cardinality(kept)
      /\ \A n \in 1..Len(res) : \E k \in kept : Rank(kept, k) = n
      /\ \A k \in kept :
           Rank(kept, k) \in 1..Len(res) /\ res[Rank(kept, k)] = vec[k]
  BY RetainProperties
<1>2. /\ DOMAIN res = 1..Len(res) /\ DOMAIN vec = 1..Len(vec)
      /\ Len(vec) \in Nat /\ Len(res) \in Nat
  BY <1>1, LenProperties
<1>3. Range(res) \subseteq Range(vec)
  BY RetainRange
<1>4. kept = (1..Len(vec)) \ {i} /\ i \in 1..Len(vec)
  BY <1>2 DEF KeptAt
<1>5. Len(res) = Len(vec) - 1
  <2>1. IsFiniteSet(1..Len(vec)) /\ Cardinality(1..Len(vec)) = Len(vec)
    BY <1>2, InitialSegment
  <2>2. QED
    BY <1>1, <1>4, <2>1, FS_RemoveElement
<1> HIDE DEF kept, res
<1>6. /\ \A k \in DOMAIN vec : k # i =>
           pos[k] \in DOMAIN res /\ res[pos[k]] = vec[k]
      /\ \A n \in DOMAIN res : \E k \in DOMAIN vec : k # i /\ pos[k] = n
  BY <1>1, <1>2, <1>4
<1>7. DropsAt(vec, i, res)
  <2> HIDE DEF pos
  <2>1. QED
    BY <1>2, <1>3, <1>5, <1>6 DEF DropsAt
<1>8. QED
  BY <1>1, <1>7 DEF res

\* remove_endorsement counts one less on both sides.
LEMMA RemovalScored ==
  ASSUME ReputationInv, NEW a \in Accounts, NEW b \in Accounts, a # b,
         RemovalStep(a, b), Len(EndorsementsGiven[a]) > 0,
         Len(EndorsementsReceived[b]) > 0
  PROVE  /\ ScoresFollow(a, b, Len(EndorsementsGiven[a]) - 1,
                         Len(EndorsementsReceived[b]) - 1)
         /\ ScoreCurrent'
<1> DEFINE given == SaturatingSub(ReputationScores[a].endorsements_given, 1)
           received ==
             SaturatingSub(ReputationScores[b].endorsements_received, 1)
<1>1. /\ ReputationScores \in [Accounts -> ReputationScore] /\ ScoreCurrent
      /\ ReputationScores[a].endorsements_given = Len(EndorsementsGiven[a])
      /\ ReputationScores[b].endorsements_received
           = Len(EndorsementsReceived[b])
  BY DEF ReputationInv, ReputationTypeOK, EndorsementsExact,
         CountersMatchLists
<1>2. /\ Len(EndorsementsGiven[a]) \in U32
      /\ Len(EndorsementsReceived[b]) \in U32
  BY <1>1, ScoreFields
<1>3. /\ given = Len(EndorsementsGiven[a]) - 1 /\ given \in U32
      /\ received = Len(EndorsementsReceived[b]) - 1 /\ received \in U32
  BY <1>1, <1>2, ScoreAssumption DEF SaturatingSub, U32
<1>4. ReputationScores' = [ReputationScores EXCEPT
        ![a].endorsements_given = given,
        ![b] = Recalculated([ReputationScores[b] EXCEPT
                               !.endorsements_received = received])]
  BY DEF RemovalStep, ScoresAfterRemoval, EndorsementWithdrawn
<1> HIDE DEF given, received
<1>5. QED
  BY <1>1, <1>3, <1>4, ScoresStayCurrent

\* remove_endorsement preserves the invariant.
LEMMA RemovalPreserves ==
  ASSUME ReputationInv, NEW a \in Accounts, NEW b \in Accounts,
         RemovalStep(a, b)
  PROVE  ReputationInv' /\ a # b
<1> DEFINE given == EndorsementsGiven[a]
           received == EndorsementsReceived[b]
           keptGiven == {e \in Range(given) : e.endorsee # b}
           keptReceived == {e \in Range(received) : e.endorser # a}
           newGiven == Retain(given, keptGiven)
           newReceived == Retain(received, keptReceived)
<1>1. /\ EndorsementsGiven \in [Accounts -> Seq(Endorsement)]
      /\ EndorsementsReceived \in [Accounts -> Seq(Endorsement)]
      /\ HasEndorsed \in [Accounts -> [Accounts -> BOOLEAN]]
      /\ EndorsementsAgree /\ EndorsementsFiled /\ CountersMatchLists
      /\ EndorsementHasParties
      /\ DidInv
  BY DEF ReputationInv, ReputationTypeOK, EndorsementsExact
<1>2. /\ HasEndorsed[a][b] /\ signer' = a /\ UNCHANGED <<now, didVars>>
      /\ EndorsementsGiven' = [EndorsementsGiven EXCEPT ![a] = newGiven]
      /\ EndorsementsReceived' =
           [EndorsementsReceived EXCEPT ![b] = newReceived]
      /\ HasEndorsed' = [HasEndorsed EXCEPT ![a][b] = FALSE]
  BY DEF RemovalStep
<1>3. PICK i \in DOMAIN given, j \in DOMAIN received :
        /\ GivenTo(a, b) = {i}
        /\ ReceivedFrom(b, a) = {j}
        /\ given[i] = received[j]
  BY <1>1, <1>2 DEF EndorsementsAgree
<1>4. a # b
  BY <1>1, <1>3 DEF GivenTo, EndorsementsFiled, EndorsementHasParties, Range
<1>5. DidInv'
  BY <1>1, <1>2
     DEF DidInv, DidTypeOK, FrameTypeOK, Origins, HasDid, IsInstitution,
         DocumentInOrder, KeysDistinctAndBounded, InstitutionHasDid, didVars
<1>6. /\ newGiven \in Seq(Endorsement)
      /\ Len(newGiven) = Len(given) - 1 /\ Len(newGiven) \in Nat
      /\ Range(newGiven) \subseteq Range(given)
      /\ \E pos :
           /\ \A k \in DOMAIN given : k # i =>
                pos[k] \in DOMAIN newGiven /\ newGiven[pos[k]] = given[k]
           /\ \A n \in DOMAIN newGiven :
                \E k \in DOMAIN given : k # i /\ pos[k] = n
  <2>1. \A k \in DOMAIN given : given[k] \in keptGiven <=> k # i
    BY <1>3 DEF GivenTo, Range
  <2>2. given \in Seq(Endorsement)
    BY <1>1
  <2> HIDE DEF given, keptGiven
  <2>3. newGiven \in Seq(Endorsement) /\ DropsAt(given, i, newGiven)
    BY <2>1, <2>2, RetainOthers
  <2>4. QED
    BY <2>3 DEF DropsAt
<1>7. /\ newReceived \in Seq(Endorsement)
      /\ Len(newReceived) = Len(received) - 1 /\ Len(newReceived) \in Nat
      /\ Range(newReceived) \subseteq Range(received)
      /\ \E pos :
           /\ \A k \in DOMAIN received : k # j =>
                /\ pos[k] \in DOMAIN newReceived
                /\ newReceived[pos[k]] = received[k]
           /\ \A n \in DOMAIN newReceived :
                \E k \in DOMAIN received : k # j /\ pos[k] = n
  <2>1. \A k \in DOMAIN received : received[k] \in keptReceived <=> k # j
    BY <1>3 DEF ReceivedFrom, Range
  <2>2. received \in Seq(Endorsement)
    BY <1>1
  <2> HIDE DEF received, keptReceived
  <2>3. newReceived \in Seq(Endorsement) /\ DropsAt(received, j, newReceived)
    BY <2>1, <2>2, RetainOthers
  <2>4. QED
    BY <2>3 DEF DropsAt
<1> HIDE DEF newGiven, newReceived
<1>8. \A who \in Accounts :
        /\ EndorsementsGiven'[who] =
             IF who = a THEN newGiven ELSE EndorsementsGiven[who]
        /\ EndorsementsReceived'[who] =
             IF who = b THEN newReceived ELSE EndorsementsReceived[who]
        /\ \A other \in Accounts : HasEndorsed'[who][other] =
             IF who = a /\ other = b THEN FALSE ELSE HasEndorsed[who][other]
  BY <1>1, <1>2
<1>9. /\ Len(given) \in Nat /\ Len(received) \in Nat
      /\ Len(given) > 0 /\ Len(received) > 0
  BY <1>1, <1>3, LenProperties
<1>10. /\ ScoresFollow(a, b, Len(given) - 1, Len(received) - 1)
       /\ ScoreCurrent'
  BY <1>4, <1>9, RemovalScored
<1>11. ReputationTypeOK'
  BY <1>1, <1>2, <1>5, <1>6, <1>7, <1>10
     DEF ReputationTypeOK, DidInv, ScoresFollow
<1>12. EndorsementHasParties'
  BY <1>1, <1>2, <1>6, <1>8 DEF EndorsementHasParties, HasDid, didVars
<1>13. EndorsementsFiled'
  <2>1. /\ Len(given) <= MaxEndorsements /\ Len(received) <= MaxEndorsements
    BY <1>1 DEF EndorsementsFiled
  <2>2. /\ Len(newGiven) <= MaxEndorsements
        /\ Len(newReceived) <= MaxEndorsements
    BY <1>6, <1>7, <1>9, <2>1, EndorsementAssumption
  <2>3. QED
    BY <1>1, <1>6, <1>7, <1>8, <2>2 DEF EndorsementsFiled
<1>14. CountersMatchLists'
  BY <1>1, <1>6, <1>7, <1>8, <1>10 DEF CountersMatchLists, ScoresFollow
<1>15. EndorsementsAgree'
  <2>1. ASSUME NEW x \in Accounts, NEW y \in Accounts, x # a \/ y # b,
               NEW p \in DOMAIN EndorsementsGiven[x], GivenTo(x, y) = {p}
        PROVE  \E n \in DOMAIN EndorsementsGiven'[x] :
                 /\ GivenTo(x, y)' = {n}
                 /\ EndorsementsGiven'[x][n] = EndorsementsGiven[x][p]
    <3>1. CASE x = a
      <4>1. PICK pos :
              /\ \A k \in DOMAIN given : k # i =>
                   pos[k] \in DOMAIN newGiven /\ newGiven[pos[k]] = given[k]
              /\ \A n \in DOMAIN newGiven :
                   \E k \in DOMAIN given : k # i /\ pos[k] = n
        BY <1>6
      <4>2. /\ \A k \in DOMAIN given : given[k].endorsee = y <=> k = p
            /\ y # b /\ p \in DOMAIN given
        BY <2>1, <3>1 DEF GivenTo
      <4>3. p # i
        BY <1>3, <4>2 DEF GivenTo
      <4>4. EndorsementsGiven'[x] = newGiven /\ EndorsementsGiven[x] = given
        BY <1>8, <3>1
      <4> HIDE DEF given
      <4>5. pos[p] \in DOMAIN newGiven /\ newGiven[pos[p]] = given[p]
        BY <4>1, <4>2, <4>3
      <4>6. {n \in DOMAIN newGiven : newGiven[n].endorsee = y} = {pos[p]}
        BY <4>1, <4>2, <4>5
      <4>7. GivenTo(x, y)' = {pos[p]}
        BY <4>4, <4>6 DEF GivenTo
      <4>8. QED
        BY <4>4, <4>5, <4>7
    <3>2. CASE x # a
      <4>1. EndorsementsGiven'[x] = EndorsementsGiven[x]
        BY <1>8, <3>2
      <4>2. GivenTo(x, y)' = GivenTo(x, y)
        BY <4>1 DEF GivenTo
      <4>3. QED
        BY <2>1, <4>1, <4>2
    <3>3. QED
      BY <3>1, <3>2
  <2>2. ASSUME NEW x \in Accounts, NEW y \in Accounts, x # a \/ y # b,
               NEW p \in DOMAIN EndorsementsReceived[y], ReceivedFrom(y, x) = {p}
        PROVE  \E n \in DOMAIN EndorsementsReceived'[y] :
                 /\ ReceivedFrom(y, x)' = {n}
                 /\ EndorsementsReceived'[y][n] = EndorsementsReceived[y][p]
    <3>1. CASE y = b
      <4>1. PICK pos :
              /\ \A k \in DOMAIN received : k # j =>
                   pos[k] \in DOMAIN newReceived /\ newReceived[pos[k]] = received[k]
              /\ \A n \in DOMAIN newReceived :
                   \E k \in DOMAIN received : k # j /\ pos[k] = n
        BY <1>7
      <4>2. /\ \A k \in DOMAIN received : received[k].endorser = x <=> k = p
            /\ x # a /\ p \in DOMAIN received
        BY <2>2, <3>1 DEF ReceivedFrom
      <4>3. p # j
        BY <1>3, <4>2 DEF ReceivedFrom
      <4>4. EndorsementsReceived'[y] = newReceived /\ EndorsementsReceived[y] = received
        BY <1>8, <3>1
      <4> HIDE DEF received
      <4>5. pos[p] \in DOMAIN newReceived /\ newReceived[pos[p]] = received[p]
        BY <4>1, <4>2, <4>3
      <4>6. {n \in DOMAIN newReceived : newReceived[n].endorser = x} = {pos[p]}
        BY <4>1, <4>2, <4>5
      <4>7. ReceivedFrom(y, x)' = {pos[p]}
        BY <4>4, <4>6 DEF ReceivedFrom
      <4>8. QED
        BY <4>4, <4>5, <4>7
    <3>2. CASE y # b
      <4>1. EndorsementsReceived'[y] = EndorsementsReceived[y]
        BY <1>8, <3>2
      <4>2. ReceivedFrom(y, x)' = ReceivedFrom(y, x)
        BY <4>1 DEF ReceivedFrom
      <4>3. QED
        BY <2>2, <4>1, <4>2
    <3>3. QED
      BY <3>1, <3>2
  <2>3. ASSUME NEW x \in Accounts, NEW y \in Accounts, GivenTo(x, y) = {}
        PROVE  GivenTo(x, y)' = {}
    <3>1. \A n \in DOMAIN EndorsementsGiven'[x] :
            \E k \in DOMAIN EndorsementsGiven[x] :
              EndorsementsGiven'[x][n] = EndorsementsGiven[x][k]
      <4>1. CASE x = a
        <5>1. \A n \in DOMAIN newGiven : \E k \in DOMAIN given :
                newGiven[n] = given[k]
          BY <1>6
        <5>2. EndorsementsGiven'[x] = newGiven /\ EndorsementsGiven[x] = given
          BY <1>8, <4>1
        <5> HIDE DEF given
        <5>3. QED
          BY <5>1, <5>2
      <4>2. CASE x # a
        BY <1>8, <4>2
      <4>3. QED
        BY <4>1, <4>2
    <3>2. QED
      BY <2>3, <3>1 DEF GivenTo
  <2>4. ASSUME NEW x \in Accounts, NEW y \in Accounts, ReceivedFrom(y, x) = {}
        PROVE  ReceivedFrom(y, x)' = {}
    <3>1. \A n \in DOMAIN EndorsementsReceived'[y] :
            \E k \in DOMAIN EndorsementsReceived[y] :
              EndorsementsReceived'[y][n] = EndorsementsReceived[y][k]
      <4>1. CASE y = b
        <5>1. \A n \in DOMAIN newReceived : \E k \in DOMAIN received :
                newReceived[n] = received[k]
          BY <1>7
        <5>2. EndorsementsReceived'[y] = newReceived /\ EndorsementsReceived[y] = received
          BY <1>8, <4>1
        <5> HIDE DEF received
        <5>3. QED
          BY <5>1, <5>2
      <4>2. CASE y # b
        BY <1>8, <4>2
      <4>3. QED
        BY <4>1, <4>2
    <3>2. QED
      BY <2>4, <3>1 DEF ReceivedFrom
  <2>5. GivenTo(a, b)' = {} /\ ReceivedFrom(b, a)' = {}
    <3>1. \A n \in DOMAIN newGiven : newGiven[n].endorsee # b
      BY <1>3, <1>6 DEF GivenTo
    <3>2. \A n \in DOMAIN newReceived : newReceived[n].endorser # a
      BY <1>3, <1>7 DEF ReceivedFrom
    <3>3. /\ EndorsementsGiven'[a] = newGiven
          /\ EndorsementsReceived'[b] = newReceived
      BY <1>8
    <3>4. QED
      BY <3>1, <3>2, <3>3 DEF GivenTo, ReceivedFrom
  <2>6. ASSUME NEW x \in Accounts, NEW y \in Accounts
        PROVE  IF HasEndorsed'[x][y] THEN OneEndorsement(x, y)'
               ELSE NoEndorsement(x, y)'
    <3>1. CASE x = a /\ y = b
      <4>1. ~HasEndorsed'[x][y]
        BY <1>8, <3>1
      <4>2. NoEndorsement(a, b)'
        BY <2>5 DEF NoEndorsement
      <4>3. QED
        BY <3>1, <4>1, <4>2
    <3>2. CASE (x # a \/ y # b) /\ HasEndorsed[x][y]
      <4>1. HasEndorsed'[x][y]
        BY <1>8, <3>2
      <4>2. PICK p \in DOMAIN EndorsementsGiven[x],
                 q \in DOMAIN EndorsementsReceived[y] :
              /\ GivenTo(x, y) = {p}
              /\ ReceivedFrom(y, x) = {q}
              /\ EndorsementsGiven[x][p] = EndorsementsReceived[y][q]
        BY <1>1, <3>2 DEF EndorsementsAgree
      <4>3. PICK n \in DOMAIN EndorsementsGiven'[x] :
              /\ GivenTo(x, y)' = {n}
              /\ EndorsementsGiven'[x][n] = EndorsementsGiven[x][p]
        BY <2>1, <3>2, <4>2
      <4>4. PICK m \in DOMAIN EndorsementsReceived'[y] :
              /\ ReceivedFrom(y, x)' = {m}
              /\ EndorsementsReceived'[y][m] = EndorsementsReceived[y][q]
        BY <2>2, <3>2, <4>2
      <4>5. OneEndorsement(x, y)'
        BY <4>2, <4>3, <4>4 DEF OneEndorsement
      <4>6. QED
        BY <4>1, <4>5
    <3>3. CASE (x # a \/ y # b) /\ ~HasEndorsed[x][y]
      <4>1. ~HasEndorsed'[x][y]
        BY <1>8, <3>3
      <4>2. GivenTo(x, y) = {} /\ ReceivedFrom(y, x) = {}
        BY <1>1, <3>3 DEF EndorsementsAgree
      <4>3. NoEndorsement(x, y)'
        BY <2>3, <2>4, <4>2 DEF NoEndorsement
      <4>4. QED
        BY <4>1, <4>3
    <3>4. QED
      BY <3>1, <3>2, <3>3
  <2>7. QED
    BY <2>6 DEF EndorsementsAgree, OneEndorsement, NoEndorsement
<1>16. QED
  BY <1>4, <1>5, <1>10, <1>11, <1>12, <1>13, <1>14, <1>15
     DEF ReputationInv, EndorsementsExact
-----------------------------------------------------------------------------
\* What recording writes: one score, with its endorsements as before.
LEMMA RecordScored ==
  ASSUME ReputationInv, NEW a \in Accounts, RecordStep(a)
  PROVE  /\ ReputationScores' \in [Accounts -> ReputationScore]
         /\ ScoreCurrent'
         /\ \A who \in Accounts :
              /\ ReputationScores'[who].endorsements_given
                   = ReputationScores[who].endorsements_given
              /\ ReputationScores'[who].endorsements_received
                   = ReputationScores[who].endorsements_received
              /\ ReputationScores'[who].credentials_issued
                   >= ReputationScores[who].credentials_issued
              /\ ReputationScores'[who].credentials_verified
                   >= ReputationScores[who].credentials_verified
<1>1. PICK counted \in ReputationScore :
        /\ SoundRecord(ReputationScores[a], counted)
        /\ ReputationScores' =
             [ReputationScores EXCEPT ![a] = Recalculated(counted)]
  BY DEF RecordStep
<1> DEFINE new == Recalculated(counted)
<1>2. /\ new \in ReputationScore
      /\ new.credentials_issued = counted.credentials_issued
      /\ new.credentials_verified = counted.credentials_verified
      /\ new.endorsements_received = counted.endorsements_received
      /\ new.endorsements_given = counted.endorsements_given
      /\ new.total_score = AtMost(ScoreCap, WeightedSum(counted))
  BY RecalculatedScore
<1> HIDE DEF new
<1>3. WeightedSum(new) = WeightedSum(counted)
  BY <1>2 DEF WeightedSum
<1>4. /\ ReputationScores \in [Accounts -> ReputationScore]
      /\ ScoreCurrent
  BY DEF ReputationInv, ReputationTypeOK
<1>5. /\ ReputationScores' \in [Accounts -> ReputationScore]
      /\ \A who \in Accounts : ReputationScores'[who] =
           IF who = a THEN new ELSE ReputationScores[who]
  BY <1>1, <1>2, <1>4 DEF new
<1>6. ScoreCurrent'
  BY <1>2, <1>3, <1>4, <1>5 DEF ScoreCurrent
<1>7. \A who \in Accounts :
        /\ ReputationScores[who].credentials_issued
             >= ReputationScores[who].credentials_issued
        /\ ReputationScores[who].credentials_verified
             >= ReputationScores[who].credentials_verified
  <2>1. \A who \in Accounts :
          /\ ReputationScores[who].credentials_issued \in Nat
          /\ ReputationScores[who].credentials_verified \in Nat
    BY <1>4, ScoreFields
  <2>2. \A n \in Nat : n >= n
    OBVIOUS
  <2>3. QED
    BY <2>1, <2>2
<1>8. QED
  BY <1>1, <1>2, <1>5, <1>6, <1>7 DEF SoundRecord

\* Recording preserves the invariant.
LEMMA RecordPreserves ==
  ASSUME ReputationInv, NEW a \in Accounts, RecordStep(a)
  PROVE  ReputationInv'
<1>1. /\ ReputationScores' \in [Accounts -> ReputationScore]
      /\ ScoreCurrent'
      /\ \A who \in Accounts :
           /\ ReputationScores'[who].endorsements_given
                = ReputationScores[who].endorsements_given
           /\ ReputationScores'[who].endorsements_received
                = ReputationScores[who].endorsements_received
  BY RecordScored
<1>2. /\ signer' \in Origins /\ UNCHANGED <<now, didVars>>
      /\ UNCHANGED <<EndorsementsGiven, EndorsementsReceived, HasEndorsed>>
  BY DEF RecordStep, listVars
<1>3. DidInv'
  BY <1>2
     DEF ReputationInv, DidInv, DidTypeOK, FrameTypeOK, HasDid, IsInstitution,
         DocumentInOrder, KeysDistinctAndBounded, InstitutionHasDid, didVars
<1>4. ReputationTypeOK'
  BY <1>1, <1>2, <1>3 DEF ReputationInv, ReputationTypeOK, DidInv
<1>5. EndorsementHasParties'
  BY <1>2 DEF ReputationInv, EndorsementHasParties, HasDid, didVars
<1>6. EndorsementsExact'
  <2>1. EndorsementsAgree' /\ EndorsementsFiled'
    BY <1>2 DEF ReputationInv, EndorsementsExact, EndorsementsAgree, GivenTo,
                ReceivedFrom, EndorsementsFiled
  <2>2. CountersMatchLists'
    BY <1>1, <1>2 DEF ReputationInv, EndorsementsExact, CountersMatchLists
  <2>3. QED
    BY <2>1, <2>2 DEF EndorsementsExact
<1>7. QED
  BY <1>1, <1>3, <1>4, <1>5, <1>6 DEF ReputationInv

\* A step that leaves the storage of the pallet, and takes no DID away,
\* preserves the invariant.
LEMMA ReputationStoragePreserves ==
  ASSUME ReputationInv, DidInv', UNCHANGED reputationVars,
         \A who \in Accounts : HasDid(who) => HasDid(who)'
  PROVE  ReputationInv'
<1> USE DEF reputationVars
<1>1. ReputationTypeOK'
  BY DEF ReputationInv, ReputationTypeOK, DidInv
<1>2. EndorsementHasParties'
  <2>1. ASSUME NEW who \in Accounts, NEW e \in Range(EndorsementsGiven[who])
        PROVE  e.endorser \in Accounts /\ e.endorsee \in Accounts
    <3>1. EndorsementsGiven[who] \in Seq(Endorsement)
      BY DEF ReputationInv, ReputationTypeOK
    <3>2. e \in Endorsement
      BY <3>1, ElementOfSeq, LenProperties DEF Range
    <3>3. QED
      BY <3>2 DEF Endorsement
  <2>2. QED
    BY <2>1 DEF ReputationInv, EndorsementHasParties
<1>3. EndorsementsExact' /\ ScoreCurrent'
  BY DEF ReputationInv, EndorsementsExact, EndorsementsAgree, GivenTo,
         ReceivedFrom, EndorsementsFiled, CountersMatchLists, ScoreCurrent
<1>4. QED
  BY <1>1, <1>2, <1>3 DEF ReputationInv

\* Every step preserves the invariant.
LEMMA ReputationInvPreserved ==
  ASSUME ReputationInv, [ReputationNext]_reputationChainVars
  PROVE  ReputationInv'
<1>1. ReputationTypeOK /\ DidInv
  BY DEF ReputationInv
<1>2. CASE DidNext /\ UNCHANGED reputationVars
  <2>1. DidInv'
    BY <1>1, <1>2, DidInvPreserved
  <2>2. ASSUME NEW who \in Accounts, HasDid(who)
        PROVE  HasDid(who)'
    BY <1>1, <1>2, <2>2, DocumentsStep, NoneAssumption DEF HasDid
  <2>3. QED
    BY <1>2, <2>1, <2>2, ReputationStoragePreserves
<1>3. CASE UNCHANGED reputationChainVars
  <2>1. DidInv'
    BY <1>1, <1>3, DidInvPreserved DEF reputationChainVars
  <2>2. QED
    BY <1>3, <2>1, ReputationStoragePreserves
       DEF reputationChainVars, didVars, HasDid
<1>4. QED
  BY <1>1, <1>2, <1>3, ReputationSteps, EndorsePreserves, RemovalPreserves,
     RecordPreserves

\* The empty chain satisfies the invariant.
LEMMA ReputationInvInitially ==
  ASSUME ReputationGenesis
  PROVE  ReputationInv
<1> USE DEF ReputationGenesis, ReputationInit
<1>1. DidInv
  BY DidInvInitially DEF DidGenesis
<1>2. DefaultScore \in ReputationScore /\ WeightedSum(DefaultScore) = 0
      /\ DefaultScore.total_score = 0
      /\ DefaultScore.endorsements_given = 0
      /\ DefaultScore.endorsements_received = 0
  BY ScoreAssumption DEF DefaultScore, ReputationScore, U32, WeightedSum
<1>3. \A who \in Accounts :
        /\ EndorsementsGiven[who] = <<>> /\ EndorsementsReceived[who] = <<>>
        /\ ReputationScores[who] = DefaultScore
  OBVIOUS
<1>4. DOMAIN <<>> = {} /\ Len(<<>>) = 0
  OBVIOUS
<1>5. Range(<<>>) = {}
  BY <1>4 DEF Range
<1>6. ReputationTypeOK
  BY <1>1, <1>2 DEF ReputationTypeOK, DidInv
<1>7. EndorsementHasParties
  BY <1>3, <1>5 DEF EndorsementHasParties
<1>8. EndorsementsAgree
  BY <1>3, <1>4 DEF EndorsementsAgree, GivenTo, ReceivedFrom
<1>9. EndorsementsFiled
  BY <1>3, <1>4, <1>5, EndorsementAssumption DEF EndorsementsFiled
<1>10. CountersMatchLists
  BY <1>2, <1>3, <1>4 DEF CountersMatchLists
<1>11. ScoreCurrent
  BY <1>2, <1>3, ScoreAssumption DEF ScoreCurrent, AtMost
<1>12. QED
  BY <1>1, <1>6, <1>7, <1>8, <1>9, <1>10, <1>11
     DEF ReputationInv, EndorsementsExact

\* In every behaviour of the two pallets, for all accounts, weights and
\* bounds, the invariant holds in every state.
THEOREM ReputationInvariance == ReputationSpec => []ReputationInv
<1>1. ReputationGenesis => ReputationInv
  BY ReputationInvInitially
<1>2. ReputationInv /\ [ReputationNext]_reputationChainVars => ReputationInv'
  BY ReputationInvPreserved
<1>3. QED
  BY <1>1, <1>2, PTL DEF ReputationSpec

\* The storage of the pallet is always of its type.
THEOREM ReputationTypeCorrect == ReputationSpec => []ReputationTypeOK
<1>1. ReputationInv => ReputationTypeOK
  BY DEF ReputationInv
<1>2. QED
  BY <1>1, ReputationInvariance, PTL

\* Both parties of an endorsement are different accounts that have a DID,
\* whatever happened to the DIDs since.
THEOREM EndorsementPartiesCorrect == ReputationSpec => []EndorsementHasParties
<1>1. ReputationInv => EndorsementHasParties
  BY DEF ReputationInv
<1>2. QED
  BY <1>1, ReputationInvariance, PTL

\* The flag of a pair, the two lists and the counters never drift apart.
THEOREM EndorsementsCorrect == ReputationSpec => []EndorsementsExact
<1>1. ReputationInv => EndorsementsExact
  BY DEF ReputationInv
<1>2. QED
  BY <1>1, ReputationInvariance, PTL

\* The stored total is never stale, and saturation never shows in it.
THEOREM ScoreCorrect == ReputationSpec => []ScoreCurrent
<1>1. ReputationInv => ScoreCurrent
  BY DEF ReputationInv
<1>2. QED
  BY <1>1, ReputationInvariance, PTL

\* A score falls only by a withdrawal.
THEOREM FallsCorrect == ReputationSpec => ScoreFallsByWithdrawal
<1> DEFINE Fell(who) ==
      ReputationScores'[who].total_score < ReputationScores[who].total_score
           Withdrawn(who) ==
             /\ signer' \in Accounts
             /\ HasEndorsed[signer'][who] /\ ~HasEndorsed'[signer'][who]
<1>1. ASSUME ReputationInv, [ReputationNext]_reputationChainVars,
             NEW who \in Accounts, Fell(who)
      PROVE  Withdrawn(who)
  <2>1. ReputationInv'
    BY <1>1, ReputationInvPreserved
  <2>2. /\ ReputationScores[who] \in ReputationScore
        /\ ReputationScores'[who] \in ReputationScore
        /\ ReputationScores[who].total_score
             = AtMost(ScoreCap, WeightedSum(ReputationScores[who]))
        /\ ReputationScores'[who].total_score
             = AtMost(ScoreCap, WeightedSum(ReputationScores'[who]))
    BY <1>1, <2>1 DEF ReputationInv, ReputationTypeOK, ScoreCurrent
  <2>3. ~ /\ ReputationScores[who].credentials_issued
               <= ReputationScores'[who].credentials_issued
          /\ ReputationScores[who].credentials_verified
               <= ReputationScores'[who].credentials_verified
          /\ ReputationScores[who].endorsements_received
               <= ReputationScores'[who].endorsements_received
    BY <1>1, <2>2, CappedSum
  <2>4. /\ ReputationScores[who].credentials_issued \in Nat
        /\ ReputationScores[who].credentials_verified \in Nat
        /\ ReputationScores[who].endorsements_received \in Nat
    BY <2>2, ScoreFields
  <2>5. ReputationScores'[who] # ReputationScores[who]
    BY <2>3, <2>4
  <2>6. ASSUME NEW a \in Accounts, RecordStep(a)
        PROVE  FALSE
    BY <1>1, <2>3, <2>4, <2>6, RecordScored
  <2>7. ASSUME NEW a \in Accounts, NEW b \in Accounts, EndorseStep(a, b)
        PROVE  FALSE
    <3>1. ScoresFollow(a, b, Len(EndorsementsGiven[a]) + 1,
                       Len(EndorsementsReceived[b]) + 1)
      BY <1>1, <2>7, EndorsementScored
    <3>2. /\ ReputationScores[b].endorsements_received
               = Len(EndorsementsReceived[b])
          /\ ReputationScores[b] \in ReputationScore
      BY <1>1 DEF ReputationInv, EndorsementsExact, CountersMatchLists,
                  ReputationTypeOK
    <3>3. ReputationScores[b].endorsements_received \in Nat
      BY <3>2, ScoreFields
    <3>4. QED
      BY <2>3, <2>4, <3>1, <3>2, <3>3 DEF ScoresFollow
  <2>8. ASSUME NEW a \in Accounts, NEW b \in Accounts, RemovalStep(a, b)
        PROVE  Withdrawn(who)
    <3>1. a # b
      BY <1>1, <2>8, RemovalPreserves
    <3>2. /\ HasEndorsed[a][b] /\ signer' = a
          /\ HasEndorsed' = [HasEndorsed EXCEPT ![a][b] = FALSE]
          /\ HasEndorsed \in [Accounts -> [Accounts -> BOOLEAN]]
      BY <1>1, <2>8 DEF RemovalStep, ReputationInv, ReputationTypeOK
    <3>3. who = b
      <4>1. ReputationScores' = ScoresAfterRemoval(a, b)
        BY <2>8 DEF RemovalStep
      <4>2. ReputationScores \in [Accounts -> ReputationScore]
        BY <1>1 DEF ReputationInv, ReputationTypeOK
      <4>3. ASSUME who # b
            PROVE  ReputationScores'[who].total_score
                     = ReputationScores[who].total_score
        BY <3>1, <4>1, <4>2, <4>3
           DEF ScoresAfterRemoval, ReputationScore
      <4>4. ReputationScores[who].total_score \in Nat
        BY <2>2, ScoreFields
      <4>5. QED
        BY <1>1, <4>3, <4>4
    <3>4. QED
      BY <3>2, <3>3
  <2>9. ReputationTypeOK
    BY <1>1 DEF ReputationInv
  <2>10. QED
    BY <1>1, <2>5, <2>6, <2>7, <2>8, <2>9, ReputationSteps
       DEF reputationChainVars, reputationVars
<1>2. ReputationInv /\ [ReputationNext]_reputationChainVars =>
        [\A a \in Accounts :
           ReputationScores'[a].total_score
               < ReputationScores[a].total_score =>
             /\ signer' \in Accounts
             /\ HasEndorsed[signer'][a] /\ ~HasEndorsed'[signer'][a]
        ]_reputationChainVars
  BY <1>1
<1>3. QED
  BY <1>2, ReputationInvariance, PTL
     DEF ReputationSpec, ScoreFallsByWithdrawal

\* Only the endorser makes and withdraws an endorsement, also in the list of
\* the endorsee.
THEOREM DecisionsCorrect == ReputationSpec => EndorserDecides
<1> DEFINE Decided(a, b) ==
      /\ HasEndorsed'[a][b] # HasEndorsed[a][b] => signer' = a
      /\ EndorsementsGiven'[a] # EndorsementsGiven[a] => signer' = a
      /\ EndorsementsReceived'[b] # EndorsementsReceived[b] =>
           HasEndorsed'[signer'][b] # HasEndorsed[signer'][b]
<1>1. ASSUME ReputationInv, [ReputationNext]_reputationChainVars,
             NEW a \in Accounts, NEW b \in Accounts
      PROVE  Decided(a, b)
  <2>1. /\ EndorsementsGiven \in [Accounts -> Seq(Endorsement)]
        /\ EndorsementsReceived \in [Accounts -> Seq(Endorsement)]
        /\ HasEndorsed \in [Accounts -> [Accounts -> BOOLEAN]]
        /\ ReputationTypeOK
    BY <1>1 DEF ReputationInv, ReputationTypeOK
  <2>2. ASSUME NEW x \in Accounts, NEW y \in Accounts,
               EndorseStep(x, y) \/ RemovalStep(x, y)
        PROVE  Decided(a, b)
    <3>1. /\ signer' = x
          /\ a # x => EndorsementsGiven'[a] = EndorsementsGiven[a]
          /\ b # y => EndorsementsReceived'[b] = EndorsementsReceived[b]
      <4>1. CASE EndorseStep(x, y)
        BY <2>1, <4>1 DEF EndorseStep
      <4>2. CASE RemovalStep(x, y)
        BY <2>1, <4>2 DEF RemovalStep
      <4>3. QED
        BY <2>2, <4>1, <4>2
    <3>2. /\ HasEndorsed'[x][y] # HasEndorsed[x][y]
          /\ HasEndorsed'[a][b] # HasEndorsed[a][b] => a = x
      <4>1. CASE EndorseStep(x, y)
        <5>1. /\ ~HasEndorsed[x][y]
              /\ HasEndorsed' = [HasEndorsed EXCEPT ![x][y] = TRUE]
          BY <4>1 DEF EndorseStep
        <5>2. QED
          BY <2>1, <5>1
      <4>2. CASE RemovalStep(x, y)
        <5>1. /\ HasEndorsed[x][y]
              /\ HasEndorsed' = [HasEndorsed EXCEPT ![x][y] = FALSE]
          BY <4>2 DEF RemovalStep
        <5>2. QED
          BY <2>1, <5>1
      <4>3. QED
        BY <2>2, <4>1, <4>2
    <3>3. QED
      BY <3>1, <3>2
  <2>3. ASSUME NEW x \in Accounts, RecordStep(x)
        PROVE  Decided(a, b)
    BY <2>3 DEF RecordStep, listVars
  <2>4. CASE UNCHANGED reputationVars
    BY <2>4 DEF reputationVars
  <2>5. QED
    BY <1>1, <2>1, <2>2, <2>3, <2>4, ReputationSteps
       DEF reputationChainVars
<1>2. ReputationInv /\ [ReputationNext]_reputationChainVars =>
        [\A a, b \in Accounts : Decided(a, b)]_reputationChainVars
  BY <1>1
<1>3. QED
  BY <1>2, ReputationInvariance, PTL DEF ReputationSpec, EndorserDecides
=============================================================================
