----------------------------- MODULE DidPallet ------------------------------
(***************************************************************************)
(* pallets/did: the registry of decentralized identifiers, one document    *)
(* per account, and of the institutions that root verifies.                *)
(*                                                                         *)
(* A definition whose comment begins with "Faulty" is not part of any      *)
(* specification: it is the definition after it with a plausible mistake,  *)
(* there to see that a property of the module fails under that mistake.    *)
(***************************************************************************)
EXTENDS FrameSystem, BoundedVec

CONSTANTS
  PublicKeys,     \* public keys, [u8; 32]
  KeyIds,         \* digests of public keys, [u8; 32]
  Blake2_256,     \* hashing::blake2_256, from public keys to key ids
  KeyTypes,       \* the enum KeyType
  Names,          \* institution names
  EmptyName,      \* the name of length zero
  MaxPublicKeys   \* T::MaxPublicKeys

ASSUME KeyAssumption == Blake2_256 \in [PublicKeys -> KeyIds]
ASSUME MaxPublicKeysAssumption == MaxPublicKeys \in Nat

VARIABLES
  DidDocuments,   \* account => DID document
  Institutions    \* account => institution

didVars == <<DidDocuments, Institutions>>
-----------------------------------------------------------------------------
PublicKeyEntry ==
  [key_id : KeyIds, key_type : KeyTypes, public_key : PublicKeys]

DidDocument ==
  [controller : Accounts, public_keys : Seq(PublicKeyEntry),
   created_at : Nat, updated_at : Nat, active : BOOLEAN]

Institution ==
  [name : Names, did : Accounts, verified : BOOLEAN, registered_at : Nat]

ASSUME NoneAssumption == None \notin DidDocument /\ None \notin Institution

HasDid(who) == DidDocuments[who] # None
IsInstitution(who) == Institutions[who] # None

\* Faulty: the id is the key itself, not its digest.
KeyEntryUnhashed(key, type) ==
  [key_id |-> key, key_type |-> type, public_key |-> key]

KeyEntry(key, type) ==
  [key_id |-> Blake2_256[key], key_type |-> type, public_key |-> key]

DidInit ==
  /\ DidDocuments = [who \in Accounts |-> None]
  /\ Institutions = [who \in Accounts |-> None]
-----------------------------------------------------------------------------
CreateDidResult(origin) ==
  IF ~IsSigned(origin) THEN "BadOrigin"
  ELSE IF HasDid(origin) THEN "DidAlreadyExists"
  ELSE IF ~HasRoom(<<>>, MaxPublicKeys) THEN "TooManyPublicKeys"
  ELSE Ok

CreateDid(origin, key, type) ==
  /\ Dispatched(origin, CreateDidResult(origin))
  /\ DidDocuments' = [DidDocuments EXCEPT ![origin] =
       [controller |-> origin, public_keys |-> <<KeyEntry(key, type)>>,
        created_at |-> now, updated_at |-> now, active |-> TRUE]]
  /\ UNCHANGED Institutions

\* The checks every call on an existing document begins with.
OwnDidResult(origin) ==
  IF ~IsSigned(origin) THEN "BadOrigin"
  ELSE IF ~HasDid(origin) THEN "DidNotFound"
  ELSE IF DidDocuments[origin].controller # origin THEN "NotAuthorized"
  ELSE Ok

KeyEntriesWith(who, keyId) ==
  {entry \in Range(DidDocuments[who].public_keys) : entry.key_id = keyId}

\* Faulty: the document may hold the key already.
AddPublicKeyResultRepeating(origin, key) ==
  IF OwnDidResult(origin) # Ok THEN OwnDidResult(origin)
  ELSE IF ~DidDocuments[origin].active THEN "DidInactive"
  ELSE IF ~HasRoom(DidDocuments[origin].public_keys, MaxPublicKeys)
       THEN "TooManyPublicKeys"
  ELSE Ok

\* Faulty: the document may be inactive.
AddPublicKeyResultInactive(origin, key) ==
  IF OwnDidResult(origin) # Ok THEN OwnDidResult(origin)
  ELSE IF KeyEntriesWith(origin, Blake2_256[key]) # {}
       THEN "PublicKeyAlreadyExists"
  ELSE IF ~HasRoom(DidDocuments[origin].public_keys, MaxPublicKeys)
       THEN "TooManyPublicKeys"
  ELSE Ok

AddPublicKeyResult(origin, key) ==
  IF OwnDidResult(origin) # Ok THEN OwnDidResult(origin)
  ELSE IF ~DidDocuments[origin].active THEN "DidInactive"
  ELSE IF KeyEntriesWith(origin, Blake2_256[key]) # {}
       THEN "PublicKeyAlreadyExists"
  ELSE IF ~HasRoom(DidDocuments[origin].public_keys, MaxPublicKeys)
       THEN "TooManyPublicKeys"
  ELSE Ok

AddPublicKey(origin, key, type) ==
  /\ Dispatched(origin, AddPublicKeyResult(origin, key))
  /\ DidDocuments' = [DidDocuments EXCEPT
       ![origin].public_keys = Append(@, KeyEntry(key, type)),
       ![origin].updated_at = now]
  /\ UNCHANGED Institutions

RemovePublicKeyResult(origin, keyId) ==
  IF OwnDidResult(origin) # Ok THEN OwnDidResult(origin)
  ELSE IF KeyEntriesWith(origin, keyId) = {} THEN "PublicKeyNotFound"
  ELSE Ok

\* The document needs not be active, and its last key can be removed.
RemovePublicKey(origin, keyId) ==
  /\ Dispatched(origin, RemovePublicKeyResult(origin, keyId))
  /\ DidDocuments' = [DidDocuments EXCEPT
       ![origin].public_keys =
          Retain(@, Range(@) \ KeyEntriesWith(origin, keyId)),
       ![origin].updated_at = now]
  /\ UNCHANGED Institutions

DeactivateDid(origin) ==
  /\ Dispatched(origin, OwnDidResult(origin))
  /\ DidDocuments' = [DidDocuments EXCEPT ![origin].active = FALSE,
                                          ![origin].updated_at = now]
  /\ UNCHANGED Institutions

\* Faulty: the update is not stamped.
ReactivateDidUnstamped(origin) ==
  /\ Dispatched(origin, OwnDidResult(origin))
  /\ DidDocuments' = [DidDocuments EXCEPT ![origin].active = TRUE]
  /\ UNCHANGED Institutions

ReactivateDid(origin) ==
  /\ Dispatched(origin, OwnDidResult(origin))
  /\ DidDocuments' = [DidDocuments EXCEPT ![origin].active = TRUE,
                                          ![origin].updated_at = now]
  /\ UNCHANGED Institutions

\* Faulty: the account needs no DID.
RegisterInstitutionResultNoDid(origin, name) ==
  IF ~IsSigned(origin) THEN "BadOrigin"
  ELSE IF IsInstitution(origin) THEN "InstitutionAlreadyRegistered"
  ELSE IF name = EmptyName THEN "InvalidInstitutionName"
  ELSE Ok

RegisterInstitutionResult(origin, name) ==
  IF ~IsSigned(origin) THEN "BadOrigin"
  ELSE IF IsInstitution(origin) THEN "InstitutionAlreadyRegistered"
  ELSE IF ~HasDid(origin) THEN "DidNotFound"
  ELSE IF name = EmptyName THEN "InvalidInstitutionName"
  ELSE Ok

\* The DID needs not be active.
RegisterInstitution(origin, name) ==
  /\ Dispatched(origin, RegisterInstitutionResult(origin, name))
  /\ Institutions' = [Institutions EXCEPT ![origin] =
       [name |-> name, did |-> origin, verified |-> FALSE,
        registered_at |-> now]]
  /\ UNCHANGED DidDocuments

\* Faulty: ensure_signed in the place of ensure_root.
RootOnInstitutionResultSigned(origin, who) ==
  IF ~IsSigned(origin) THEN "BadOrigin"
  ELSE IF ~IsInstitution(who) THEN "InstitutionNotFound"
  ELSE Ok

\* What verify_institution and revoke_institution return.
RootOnInstitutionResult(origin, who) ==
  IF ~IsRoot(origin) THEN "BadOrigin"
  ELSE IF ~IsInstitution(who) THEN "InstitutionNotFound"
  ELSE Ok

VerifyInstitution(origin, who) ==
  /\ Dispatched(origin, RootOnInstitutionResult(origin, who))
  /\ Institutions' = [Institutions EXCEPT ![who].verified = TRUE]
  /\ UNCHANGED DidDocuments

RevokeInstitution(origin, who) ==
  /\ Dispatched(origin, RootOnInstitutionResult(origin, who))
  /\ Institutions' = [Institutions EXCEPT ![who].verified = FALSE]
  /\ UNCHANGED DidDocuments
-----------------------------------------------------------------------------
DidCall(origin) ==
  \/ \E key \in PublicKeys, type \in KeyTypes :
       CreateDid(origin, key, type) \/ AddPublicKey(origin, key, type)
  \/ \E keyId \in KeyIds : RemovePublicKey(origin, keyId)
  \/ DeactivateDid(origin)
  \/ ReactivateDid(origin)
  \/ \E name \in Names : RegisterInstitution(origin, name)
  \/ \E who \in Accounts :
       VerifyInstitution(origin, who) \/ RevokeInstitution(origin, who)

DidNext ==
  \/ ProduceBlock /\ UNCHANGED didVars
  \/ \E origin \in Origins : DidCall(origin)

DidGenesis == FrameInit /\ DidInit

DidSpec == DidGenesis /\ [][DidNext]_<<frameVars, didVars>>
-----------------------------------------------------------------------------
\* Types of the chain state and of the two storage maps.
DidTypeOK ==
  /\ FrameTypeOK
  /\ DidDocuments \in [Accounts -> DidDocument \cup {None}]
  /\ Institutions \in [Accounts -> Institution \cup {None}]

\* After any sequence of additions and removals a document holds at most
\* MaxPublicKeys keys and no two entries with one key id, so that
\* remove_public_key removes exactly one entry.
KeysDistinctAndBounded ==
  \A who \in Accounts : HasDid(who) =>
    LET keys == DidDocuments[who].public_keys
    IN  /\ Len(keys) <= MaxPublicKeys
        /\ \A i, j \in DOMAIN keys :
             keys[i].key_id = keys[j].key_id => i = j

\* The two maps agree: an institution is registered under its own DID, the
\* DID exists for as long as the institution is registered, and it was
\* created and last updated in an order the block numbers confirm.
InstitutionHasDid ==
  \A who \in Accounts : IsInstitution(who) =>
    /\ Institutions[who].did = who
    /\ HasDid(who)
    /\ DidDocuments[who].created_at <= Institutions[who].registered_at
    /\ Institutions[who].registered_at <= now

\* A document is changed only by an extrinsic of its own account, and every
\* change but creation leaves created_at and the controller as they were and
\* stamps updated_at with the current block; no document is ever removed.
OwnerChangesDid ==
  [][\A who \in Accounts : DidDocuments'[who] # DidDocuments[who] =>
       /\ signer' = who
       /\ DidDocuments'[who] # None
       /\ DidDocuments'[who].updated_at = now
       /\ HasDid(who) =>
            /\ DidDocuments'[who].created_at = DidDocuments[who].created_at
            /\ DidDocuments'[who].controller = DidDocuments[who].controller
    ]_<<frameVars, didVars>>

\* Verification is root's alone: an account registers itself unverified, and
\* only root changes the flag afterwards, leaving the rest of the record.
OnlyRootVerifies ==
  [][\A who \in Accounts : Institutions'[who] # Institutions[who] =>
       /\ Institutions'[who] # None
       /\ IF IsInstitution(who)
          THEN /\ signer' = Root
               /\ Institutions[who] =
                    [Institutions'[who] EXCEPT !.verified = ~@]
          ELSE signer' = who /\ ~Institutions'[who].verified
    ]_<<frameVars, didVars>>

\* No key is added to a document that is inactive: until it is reactivated
\* its set of keys can only shrink, whatever the order of the calls.
NoKeyAddedWhileInactive ==
  [][\A who \in Accounts :
       HasDid(who) /\ ~DidDocuments[who].active =>
         Range(DidDocuments'[who].public_keys)
            \subseteq Range(DidDocuments[who].public_keys)
    ]_<<frameVars, didVars>>
=============================================================================
