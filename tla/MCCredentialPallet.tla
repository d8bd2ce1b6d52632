------------------------ MODULE MCCredentialPallet --------------------------
(***************************************************************************)
(* The did and the credential pallet together.  CredentialSpec starts from *)
(* the empty chain; SettledSpec starts from a chain on which every account *)
(* already has a DID and a verified institution (a state CredentialSpec    *)
(* reaches in block 0), and leaves out the calls on keys, so that time and *)
(* more credentials fit into the run.                                      *)
(***************************************************************************)
EXTENDS LedgerRefinement, TLC

CONSTANT k1

MCPublicKeys == {k1}
MCBlake2 == [key \in MCPublicKeys |-> <<"blake2_256", key>>]
MCKeyIds == {MCBlake2[key] : key \in MCPublicKeys}
MCSymmetry == Permutations(Accounts) \cup Permutations(Hashes)

SettledDid ==
  /\ DidDocuments = [who \in Accounts |->
       [controller |-> who, public_keys |-> <<KeyEntry(k1, "Sr25519")>>,
        created_at |-> 0, updated_at |-> 0, active |-> TRUE]]
  /\ Institutions = [who \in Accounts |->
       [name |-> "MIT", did |-> who, verified |-> TRUE, registered_at |-> 0]]

SettledDidCall(origin) ==
  \/ DeactivateDid(origin)
  \/ ReactivateDid(origin)
  \/ \E who \in Accounts :
       VerifyInstitution(origin, who) \/ RevokeInstitution(origin, who)

SettledNext ==
  \/ ProduceBlock /\ UNCHANGED <<didVars, credentialVars>>
  \/ \E origin \in Origins :
       \/ SettledDidCall(origin) /\ UNCHANGED credentialVars
       \/ CredentialCall(origin)

SettledInit == FrameInit /\ SettledDid /\ CredentialInit

SettledSpec == SettledInit /\ [][SettledNext]_chainVars

FairSettledSpec == SettledSpec /\ BlockFairness
=============================================================================
