-------------------------- MODULE ReputationPallet --------------------------
(***************************************************************************)
(* pallets/reputation: endorsements between accounts with an active DID,   *)
(* kept in a list per endorser, a list per endorsee and a flag per pair,   *)
(* and a score per account computed from counters that the calls maintain. *)
(***************************************************************************)
EXTENDS DidPallet, ReputationScore

CONSTANTS
  EndorsementTypes,   \* the enum EndorsementType
  CommentSizes,       \* lengths of the comments callers send
  MaxCommentSize,     \* T::MaxCommentSize
  Weights,            \* values of the u8 argument weight
  MaxEndorsements,    \* T::MaxEndorsements
  MaxRecorded         \* bound of the model: credentials recorded per account

ASSUME EndorsementAssumption ==
  /\ MaxEndorsements \in Nat
  /\ MaxCommentSize \in Nat
  /\ CommentSizes \subseteq Nat
  /\ Weights \subseteq 0..255
  /\ MaxRecorded \in Nat
ASSUME EndorsementsFit == MaxEndorsements <= U32Max

VARIABLES
  EndorsementsGiven,      \* endorser => endorsements
  EndorsementsReceived,   \* endorsee => endorsements
  HasEndorsed,            \* endorser => endorsee => BOOLEAN
  ReputationScores        \* account => ReputationScore

reputationVars == <<EndorsementsGiven, EndorsementsReceived, HasEndorsed,
                    ReputationScores>>
-----------------------------------------------------------------------------
Endorsement ==
  [endorser : Accounts, endorsee : Accounts,
   endorsement_type : EndorsementTypes, comment : CommentSizes,
   created_at : Nat, weight : Weights]

ReputationInit ==
  /\ EndorsementsGiven = [who \in Accounts |-> <<>>]
  /\ EndorsementsReceived = [who \in Accounts |-> <<>>]
  /\ HasEndorsed = [endorser \in Accounts |->
                      [endorsee \in Accounts |-> FALSE]]
  /\ ReputationScores = [who \in Accounts |-> DefaultScore]
-----------------------------------------------------------------------------
\* Faulty: the endorser may have endorsed the endorsee already.
EndorseResultRepeating(origin, endorsee, comment, weight) ==
  IF ~IsSigned(origin) THEN "BadOrigin"
  ELSE IF comment > MaxCommentSize THEN "CommentTooLarge"
  ELSE IF origin = endorsee THEN "CannotEndorseSelf"
  ELSE IF weight \notin 1..10 THEN "InvalidWeight"
  ELSE IF ~HasDid(origin) THEN "NoDid"
  ELSE IF ~DidDocuments[origin].active THEN "DidNotActive"
  ELSE IF ~HasDid(endorsee) THEN "NoDid"
  ELSE IF ~DidDocuments[endorsee].active THEN "DidNotActive"
  ELSE IF ~HasRoom(EndorsementsGiven[origin], MaxEndorsements)
       THEN "TooManyEndorsements"
  ELSE IF ~HasRoom(EndorsementsReceived[endorsee], MaxEndorsements)
       THEN "TooManyEndorsements"
  ELSE Ok

EndorseResult(origin, endorsee, comment, weight) ==
  IF ~IsSigned(origin) THEN "BadOrigin"
  ELSE IF comment > MaxCommentSize THEN "CommentTooLarge"
  ELSE IF origin = endorsee THEN "CannotEndorseSelf"
  ELSE IF weight \notin 1..10 THEN "InvalidWeight"
  ELSE IF ~HasDid(origin) THEN "NoDid"
  ELSE IF ~DidDocuments[origin].active THEN "DidNotActive"
  ELSE IF ~HasDid(endorsee) THEN "NoDid"
  ELSE IF ~DidDocuments[endorsee].active THEN "DidNotActive"
  ELSE IF HasEndorsed[origin][endorsee] THEN "AlreadyEndorsed"
  ELSE IF ~HasRoom(EndorsementsGiven[origin], MaxEndorsements)
       THEN "TooManyEndorsements"
  ELSE IF ~HasRoom(EndorsementsReceived[endorsee], MaxEndorsements)
       THEN "TooManyEndorsements"
  ELSE Ok

\* The endorser's counter changes and the endorsee's, whose total follows.
ScoresAfterEndorsing(endorser, endorsee) ==
  [ReputationScores EXCEPT
     ![endorser].endorsements_given = SaturatingAdd(@, 1),
     ![endorsee] = EndorsementReceived(@)]

Endorse(origin, endorsee, type, comment, weight) ==
  LET endorsement ==
        [endorser |-> origin, endorsee |-> endorsee,
         endorsement_type |-> type, comment |-> comment,
         created_at |-> now, weight |-> weight]
  IN  /\ Dispatched(origin, EndorseResult(origin, endorsee, comment, weight))
      /\ EndorsementsGiven' =
           [EndorsementsGiven EXCEPT ![origin] = Append(@, endorsement)]
      /\ EndorsementsReceived' =
           [EndorsementsReceived EXCEPT ![endorsee] = Append(@, endorsement)]
      /\ HasEndorsed' = [HasEndorsed EXCEPT ![origin][endorsee] = TRUE]
      /\ ReputationScores' = ScoresAfterEndorsing(origin, endorsee)
      /\ UNCHANGED didVars

RemoveEndorsementResult(origin, endorsee) ==
  IF ~IsSigned(origin) THEN "BadOrigin"
  ELSE IF ~HasEndorsed[origin][endorsee] THEN "EndorsementNotFound"
  ELSE Ok

\* Faulty: the total is not computed again.
ScoresAfterRemovalStale(endorser, endorsee) ==
  [ReputationScores EXCEPT
     ![endorser].endorsements_given = SaturatingSub(@, 1),
     ![endorsee].endorsements_received = SaturatingSub(@, 1)]

ScoresAfterRemoval(endorser, endorsee) ==
  [ReputationScores EXCEPT
     ![endorser].endorsements_given = SaturatingSub(@, 1),
     ![endorsee] = EndorsementWithdrawn(@)]

\* Faulty: the flag of the pair stays set.
RemoveEndorsementFlagged(origin, endorsee) ==
  /\ Dispatched(origin, RemoveEndorsementResult(origin, endorsee))
  /\ EndorsementsGiven' = [EndorsementsGiven EXCEPT ![origin] =
       Retain(@, {e \in Range(@) : e.endorsee # endorsee})]
  /\ EndorsementsReceived' = [EndorsementsReceived EXCEPT ![endorsee] =
       Retain(@, {e \in Range(@) : e.endorser # origin})]
  /\ ReputationScores' = ScoresAfterRemoval(origin, endorsee)
  /\ UNCHANGED <<HasEndorsed, didVars>>

\* Neither DID is looked at.
RemoveEndorsement(origin, endorsee) ==
  /\ Dispatched(origin, RemoveEndorsementResult(origin, endorsee))
  /\ EndorsementsGiven' = [EndorsementsGiven EXCEPT ![origin] =
       Retain(@, {e \in Range(@) : e.endorsee # endorsee})]
  /\ EndorsementsReceived' = [EndorsementsReceived EXCEPT ![endorsee] =
       Retain(@, {e \in Range(@) : e.endorser # origin})]
  /\ HasEndorsed' = [HasEndorsed EXCEPT ![origin][endorsee] = FALSE]
  /\ ReputationScores' = ScoresAfterRemoval(origin, endorsee)
  /\ UNCHANGED didVars

RootResult(origin) == IF IsRoot(origin) THEN Ok ELSE "BadOrigin"
SignedResult(origin) == IF IsSigned(origin) THEN Ok ELSE "BadOrigin"

listVars == <<EndorsementsGiven, EndorsementsReceived, HasEndorsed>>

RecordCredentialIssuance(origin, issuer) ==
  /\ Dispatched(origin, RootResult(origin))
  /\ ReputationScores' =
       [ReputationScores EXCEPT ![issuer] = CredentialIssued(@)]
  /\ UNCHANGED <<listVars, didVars>>

\* Any account, with or without a DID, for itself.
RecordCredentialVerification(origin) ==
  /\ Dispatched(origin, SignedResult(origin))
  /\ ReputationScores' =
       [ReputationScores EXCEPT ![origin] = CredentialVerified(@)]
  /\ UNCHANGED <<listVars, didVars>>

UpdateReputationScore(origin, account) ==
  /\ Dispatched(origin, RootResult(origin))
  /\ ReputationScores' = [ReputationScores EXCEPT ![account] = Recalculated(@)]
  /\ UNCHANGED <<listVars, didVars>>
-----------------------------------------------------------------------------
ReputationCall(origin) ==
  \/ \E endorsee \in Accounts, type \in EndorsementTypes,
        comment \in CommentSizes, weight \in Weights :
       Endorse(origin, endorsee, type, comment, weight)
  \/ \E endorsee \in Accounts : RemoveEndorsement(origin, endorsee)
  \/ \E issuer \in Accounts :
       /\ ReputationScores[issuer].credentials_issued < MaxRecorded
       /\ RecordCredentialIssuance(origin, issuer)
  \/ /\ IsSigned(origin)
     /\ ReputationScores[origin].credentials_verified < MaxRecorded
     /\ RecordCredentialVerification(origin)
  \/ \E account \in Accounts : UpdateReputationScore(origin, account)

ReputationNext ==
  \/ DidNext /\ UNCHANGED reputationVars
  \/ \E origin \in Origins : ReputationCall(origin)

reputationChainVars == <<frameVars, didVars, reputationVars>>

ReputationGenesis == DidGenesis /\ ReputationInit

ReputationSpec == ReputationGenesis /\ [][ReputationNext]_reputationChainVars
-----------------------------------------------------------------------------
\* Types of the four storage items of the pallet.
ReputationTypeOK ==
  /\ DidTypeOK
  /\ EndorsementsGiven \in [Accounts -> Seq(Endorsement)]
  /\ EndorsementsReceived \in [Accounts -> Seq(Endorsement)]
  /\ HasEndorsed \in [Accounts -> [Accounts -> BOOLEAN]]
  /\ ReputationScores \in [Accounts -> ReputationScore]

\* The two parties of an endorsement are different accounts, both with a DID,
\* whatever happened to the DIDs since.
EndorsementHasParties ==
  \A a \in Accounts : \A e \in Range(EndorsementsGiven[a]) :
    e.endorser # e.endorsee /\ HasDid(e.endorser) /\ HasDid(e.endorsee)

\* The endorsements from one account to another in the two lists.
GivenTo(endorser, endorsee) ==
  {i \in DOMAIN EndorsementsGiven[endorser] :
     EndorsementsGiven[endorser][i].endorsee = endorsee}
ReceivedFrom(endorsee, endorser) ==
  {i \in DOMAIN EndorsementsReceived[endorsee] :
     EndorsementsReceived[endorsee][i].endorser = endorser}

\* The flag of a pair and the two lists tell the same story, after any
\* sequence of endorsements and removals: the flag is set exactly when the
\* endorser's list and the endorsee's list hold one endorsement each for the
\* pair, and the two are the same record.
EndorsementsAgree ==
  \A a, b \in Accounts :
    IF HasEndorsed[a][b]
    THEN \E i \in DOMAIN EndorsementsGiven[a],
            j \in DOMAIN EndorsementsReceived[b] :
           /\ GivenTo(a, b) = {i}
           /\ ReceivedFrom(b, a) = {j}
           /\ EndorsementsGiven[a][i] = EndorsementsReceived[b][j]
    ELSE GivenTo(a, b) = {} /\ ReceivedFrom(b, a) = {}

\* Endorsements lie in the lists of their own endorser and endorsee, and no
\* list outgrows MaxEndorsements.
EndorsementsFiled ==
  \A a \in Accounts :
    /\ Len(EndorsementsGiven[a]) <= MaxEndorsements
    /\ Len(EndorsementsReceived[a]) <= MaxEndorsements
    /\ \A e \in Range(EndorsementsGiven[a]) : e.endorser = a
    /\ \A e \in Range(EndorsementsReceived[a]) : e.endorsee = a

\* The two counters of endorsements are the lengths of the two lists: the
\* increments of endorse and the decrements of remove_endorsement, made on
\* two accounts, never drift from the lists, and never saturate.
CountersMatchLists ==
  \A a \in Accounts :
    /\ ReputationScores[a].endorsements_given = Len(EndorsementsGiven[a])
    /\ ReputationScores[a].endorsements_received =
         Len(EndorsementsReceived[a])

\* Flag, lists and counters tell one story.
EndorsementsExact ==
  EndorsementsAgree /\ EndorsementsFiled /\ CountersMatchLists

\* The stored total is never stale, and saturation never shows in it: it is
\* the exact weighted sum of the counters, capped, so update_reputation_score,
\* root's way to repair it, changes nothing.
ScoreCurrent ==
  \A a \in Accounts :
    ReputationScores[a].total_score =
      AtMost(ScoreCap, WeightedSum(ReputationScores[a]))

\* A score falls only because an endorser withdraws its own endorsement: in
\* the step that lowers a total, the account that signs had endorsed the
\* account concerned and no longer has.
ScoreFallsByWithdrawal ==
  [][\A a \in Accounts :
       ReputationScores'[a].total_score < ReputationScores[a].total_score =>
         /\ signer' \in Accounts
         /\ HasEndorsed[signer'][a] /\ ~HasEndorsed'[signer'][a]
    ]_reputationChainVars

\* An endorsement is made and withdrawn by its endorser only, also in the
\* list of the endorsee, which somebody else's extrinsic writes; and what the
\* endorser does to that list always shows in the flag of the pair.
EndorserDecides ==
  [][\A a, b \in Accounts :
       /\ HasEndorsed'[a][b] # HasEndorsed[a][b] => signer' = a
       /\ EndorsementsGiven'[a] # EndorsementsGiven[a] => signer' = a
       /\ EndorsementsReceived'[b] # EndorsementsReceived[b] =>
            HasEndorsed'[signer'][b] # HasEndorsed[signer'][b]
    ]_reputationChainVars
=============================================================================
