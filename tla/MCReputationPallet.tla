------------------------ MODULE MCReputationPallet --------------------------
(***************************************************************************)
(* The did and the reputation pallet together.  ReputationSpec starts from *)
(* the empty chain; SettledSpec starts from a chain on which every account *)
(* has an active DID (a state ReputationSpec reaches in block 0), keeps    *)
(* the two calls of the did pallet that endorsing depends on, and stays in *)
(* that block.                                                             *)
(***************************************************************************)
EXTENDS ReputationPallet, TLC

CONSTANT k1

MCPublicKeys == {k1}
MCBlake2 == [key \in MCPublicKeys |-> <<"blake2_256", key>>]
MCKeyIds == {MCBlake2[key] : key \in MCPublicKeys}
MCSymmetry == Permutations(Accounts)

SettledDid ==
  /\ DidDocuments = [who \in Accounts |->
       [controller |-> who, public_keys |-> <<KeyEntry(k1, "Sr25519")>>,
        created_at |-> 0, updated_at |-> 0, active |-> TRUE]]
  /\ Institutions = [who \in Accounts |-> None]

SettledNext ==
  \E origin \in Origins :
    \/ /\ DeactivateDid(origin) \/ ReactivateDid(origin)
       /\ UNCHANGED reputationVars
    \/ ReputationCall(origin)

SettledInit == FrameInit /\ SettledDid /\ ReputationInit

SettledSpec == SettledInit /\ [][SettledNext]_reputationChainVars
=============================================================================
