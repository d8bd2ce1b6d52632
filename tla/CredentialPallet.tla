--------------------------- MODULE CredentialPallet -------------------------
(***************************************************************************)
(* pallets/credential: credentials that verified institutions issue to     *)
(* holders with a DID, with an index by content hash, by holder and by     *)
(* issuer.  It reads the storage of the did pallet and never writes it.    *)
(***************************************************************************)
EXTENDS DidPallet

CONSTANTS
  Hashes,                   \* hashes of credential documents, [u8; 32]
  CredentialTypes,          \* the enum CredentialType
  Metadata,                 \* values of the metadata field
  MaxCredentialsPerHolder,  \* T::MaxCredentialsPerHolder
  CounterMax                \* u64::MAX

ASSUME MaxCredentialsAssumption == MaxCredentialsPerHolder \in Nat
ASSUME CounterMaxAssumption == CounterMax \in Nat

VARIABLES
  Credentials,          \* credential id => credential
  CredentialsByHolder,  \* holder => references
  CredentialsByIssuer,  \* issuer => credential ids
  CredentialByHash,     \* credential hash => credential id
  NextCredentialId      \* the counter new ids are made from

indexVars == <<CredentialsByHolder, CredentialsByIssuer, CredentialByHash,
               NextCredentialId>>
credentialVars == <<Credentials, indexVars>>
-----------------------------------------------------------------------------
\* An id is the blake2 digest of a counter, an issuer and a holder; the
\* digest is taken to be free of collisions and written as what it digests.
CredentialId(counter, issuer, holder) == <<counter, issuer, holder>>
CredentialIds == (0..CounterMax) \X Accounts \X Accounts

CredentialStatus == {"Active", "Revoked", "Expired"}

\* A credential is stored under its field credential_id.
Credential ==
  [credential_hash : Hashes, holder : Accounts, issuer : Accounts,
   credential_type : CredentialTypes, metadata : Metadata,
   issued_at : Nat, expires_at : Nat \cup {None}, status : CredentialStatus]

CredentialReference ==
  [credential_id : CredentialIds, credential_type : CredentialTypes]

ASSUME NoCredentialAssumption ==
  None \notin Credential /\ None \notin CredentialIds /\ None \notin Nat

Exists(id) == Credentials[id] # None

\* Faulty: the reference does not carry the type.
ReferenceToUntyped(id, type) == [credential_id |-> id, credential_type |-> None]

ReferenceTo(id, type) == [credential_id |-> id, credential_type |-> type]

CredentialInit ==
  /\ Credentials = [id \in CredentialIds |-> None]
  /\ CredentialsByHolder = [who \in Accounts |-> <<>>]
  /\ CredentialsByIssuer = [who \in Accounts |-> <<>>]
  /\ CredentialByHash = [hash \in Hashes |-> None]
  /\ NextCredentialId = 0
-----------------------------------------------------------------------------
\* Faulty: the DID of the holder is not looked up, neither that there is one
\* nor that it is active.
IssueCredentialResultAnyHolder(origin, holder, hash) ==
  IF ~IsSigned(origin) THEN "BadOrigin"
  ELSE IF ~IsInstitution(origin) THEN "IssuerNotVerified"
  ELSE IF ~Institutions[origin].verified THEN "IssuerNotVerified"
  ELSE IF ~HasDid(origin) THEN "IssuerHasNoDid"
  ELSE IF ~DidDocuments[origin].active THEN "DidNotActive"
  ELSE IF CredentialByHash[hash] # None THEN "CredentialAlreadyExists"
  ELSE IF ~HasRoom(CredentialsByHolder[holder], MaxCredentialsPerHolder)
       THEN "TooManyCredentials"
  ELSE IF ~HasRoom(CredentialsByIssuer[origin], MaxCredentialsPerHolder)
       THEN "TooManyCredentials"
  ELSE Ok

IssueCredentialResult(origin, holder, hash) ==
  IF ~IsSigned(origin) THEN "BadOrigin"
  ELSE IF ~IsInstitution(origin) THEN "IssuerNotVerified"
  ELSE IF ~Institutions[origin].verified THEN "IssuerNotVerified"
  ELSE IF ~HasDid(origin) THEN "IssuerHasNoDid"
  ELSE IF ~DidDocuments[origin].active THEN "DidNotActive"
  ELSE IF ~HasDid(holder) THEN "HolderHasNoDid"
  ELSE IF ~DidDocuments[holder].active THEN "DidNotActive"
  ELSE IF CredentialByHash[hash] # None THEN "CredentialAlreadyExists"
  ELSE IF ~HasRoom(CredentialsByHolder[holder], MaxCredentialsPerHolder)
       THEN "TooManyCredentials"
  ELSE IF ~HasRoom(CredentialsByIssuer[origin], MaxCredentialsPerHolder)
       THEN "TooManyCredentials"
  ELSE Ok

\* Faulty: the counter is not advanced.
CounterAfterStuck(counter) == counter

\* saturating_add(1) on the counter.
CounterAfter(counter) == IF counter < CounterMax THEN counter + 1 ELSE counter

IssueCredential(origin, holder, hash, type, metadata, expires) ==
  LET id == CredentialId(NextCredentialId, origin, holder)
  IN  /\ Dispatched(origin, IssueCredentialResult(origin, holder, hash))
      /\ NextCredentialId' = CounterAfter(NextCredentialId)
      /\ Credentials' = [Credentials EXCEPT ![id] =
           [credential_hash |-> hash, holder |-> holder, issuer |-> origin,
            credential_type |-> type, metadata |-> metadata,
            issued_at |-> now, expires_at |-> expires,
            status |-> "Active"]]
      /\ CredentialsByHolder' = [CredentialsByHolder EXCEPT
           ![holder] = Append(@, ReferenceTo(id, type))]
      /\ CredentialsByIssuer' = [CredentialsByIssuer EXCEPT
           ![origin] = Append(@, id)]
      /\ CredentialByHash' = [CredentialByHash EXCEPT ![hash] = id]
      /\ UNCHANGED didVars

RevokeCredentialResult(origin, id) ==
  IF ~IsSigned(origin) THEN "BadOrigin"
  ELSE IF ~Exists(id) THEN "CredentialNotFound"
  ELSE IF Credentials[id].issuer # origin THEN "NotAuthorized"
  ELSE IF Credentials[id].status = "Revoked" THEN "CredentialAlreadyRevoked"
  ELSE Ok

\* Faulty: revoking takes the credential out of the index by hash.
RevokeCredentialForgettingHash(origin, id) ==
  /\ Dispatched(origin, RevokeCredentialResult(origin, id))
  /\ Credentials' = [Credentials EXCEPT ![id].status = "Revoked"]
  /\ CredentialByHash' =
       [CredentialByHash EXCEPT ![Credentials[id].credential_hash] = None]
  /\ UNCHANGED <<CredentialsByHolder, CredentialsByIssuer,
                 NextCredentialId, didVars>>

\* Faulty: revoking takes the credential out of the issuer's list.
RevokeCredentialUnlisting(origin, id) ==
  /\ Dispatched(origin, RevokeCredentialResult(origin, id))
  /\ Credentials' = [Credentials EXCEPT ![id].status = "Revoked"]
  /\ CredentialsByIssuer' =
       [CredentialsByIssuer EXCEPT ![origin] = Retain(@, Range(@) \ {id})]
  /\ UNCHANGED <<CredentialsByHolder, CredentialByHash,
                 NextCredentialId, didVars>>

\* The DID and the verification of the issuer are not looked at.
RevokeCredential(origin, id) ==
  /\ Dispatched(origin, RevokeCredentialResult(origin, id))
  /\ Credentials' = [Credentials EXCEPT ![id].status = "Revoked"]
  /\ UNCHANGED <<indexVars, didVars>>

\* Faulty: the expiration is not looked at.
VerifyCredentialResultUnexpiring(origin, hash) ==
  IF ~IsSigned(origin) THEN "BadOrigin"
  ELSE IF CredentialByHash[hash] = None THEN "CredentialNotFound"
  ELSE IF Credentials[CredentialByHash[hash]].status # "Active"
       THEN "CredentialNotActive"
  ELSE Ok

VerifyCredentialResult(origin, hash) ==
  IF ~IsSigned(origin) THEN "BadOrigin"
  ELSE IF CredentialByHash[hash] = None THEN "CredentialNotFound"
  ELSE IF ~Exists(CredentialByHash[hash]) THEN "CredentialNotFound"
  ELSE LET credential == Credentials[CredentialByHash[hash]]
       IN  IF credential.status # "Active" THEN "CredentialNotActive"
           ELSE IF credential.expires_at # None /\ now > credential.expires_at
                THEN "CredentialExpired"
           ELSE Ok

\* Deposits an event, and writes nothing.
VerifyCredential(origin, hash) ==
  /\ Dispatched(origin, VerifyCredentialResult(origin, hash))
  /\ UNCHANGED <<credentialVars, didVars>>

\* Faulty: the credential may be revoked.
UpdateCredentialMetadataResultAnyStatus(origin, id) ==
  IF ~IsSigned(origin) THEN "BadOrigin"
  ELSE IF ~Exists(id) THEN "CredentialNotFound"
  ELSE IF Credentials[id].issuer # origin THEN "NotAuthorized"
  ELSE Ok

UpdateCredentialMetadataResult(origin, id) ==
  IF ~IsSigned(origin) THEN "BadOrigin"
  ELSE IF ~Exists(id) THEN "CredentialNotFound"
  ELSE IF Credentials[id].issuer # origin THEN "NotAuthorized"
  ELSE IF Credentials[id].status # "Active" THEN "CredentialNotActive"
  ELSE Ok

UpdateCredentialMetadata(origin, id, metadata) ==
  /\ Dispatched(origin, UpdateCredentialMetadataResult(origin, id))
  /\ Credentials' = [Credentials EXCEPT ![id].metadata = metadata]
  /\ UNCHANGED <<indexVars, didVars>>
-----------------------------------------------------------------------------
Expiries == 0..MaxBlock \cup {None}

CredentialCall(origin) ==
  \/ \E holder \in Accounts, hash \in Hashes, type \in CredentialTypes,
        metadata \in Metadata, expires \in Expiries :
       IssueCredential(origin, holder, hash, type, metadata, expires)
  \/ \E id \in CredentialIds : RevokeCredential(origin, id)
  \/ \E hash \in Hashes : VerifyCredential(origin, hash)
  \/ \E id \in CredentialIds, metadata \in Metadata :
       UpdateCredentialMetadata(origin, id, metadata)

CredentialNext ==
  \/ DidNext /\ UNCHANGED credentialVars
  \/ \E origin \in Origins : CredentialCall(origin)

chainVars == <<frameVars, didVars, credentialVars>>

CredentialGenesis == DidGenesis /\ CredentialInit

CredentialSpec == CredentialGenesis /\ [][CredentialNext]_chainVars

\* Aura authors a block in every slot: block production does not stop.
BlockFairness ==
  WF_chainVars(ProduceBlock /\ UNCHANGED <<didVars, credentialVars>>)
-----------------------------------------------------------------------------
\* Types of the five storage items of the pallet.
CredentialTypeOK ==
  /\ DidTypeOK
  /\ Credentials \in [CredentialIds -> Credential \cup {None}]
  /\ CredentialsByHolder \in [Accounts -> Seq(CredentialReference)]
  /\ CredentialsByIssuer \in [Accounts -> Seq(CredentialIds)]
  /\ CredentialByHash \in [Hashes -> CredentialIds \cup {None}]
  /\ NextCredentialId \in 0..CounterMax

\* The counter has not saturated: every id generated so far is unique.
CounterLive == NextCredentialId < CounterMax

\* The ids in use are exactly those the counter has passed: one credential
\* for each value below it, so the next id is fresh and issue_credential
\* never overwrites a credential ("Generate unique credential ID").
OneCredentialPerCount ==
  CounterLive =>
    \A n \in 0..CounterMax :
      Cardinality({id \in CredentialIds : Exists(id) /\ id[1] = n})
        = IF n < NextCredentialId THEN 1 ELSE 0

\* CredentialByHash and Credentials are inverse to each other: a hash leads
\* to the credential that carries it, and every credential is found by its
\* hash, so no document has two credentials.
HashIndexExact ==
  CounterLive =>
    /\ \A hash \in Hashes : CredentialByHash[hash] # None =>
         /\ Exists(CredentialByHash[hash])
         /\ Credentials[CredentialByHash[hash]].credential_hash = hash
    /\ \A id \in CredentialIds : Exists(id) =>
         CredentialByHash[Credentials[id].credential_hash] = id

\* The list of a holder names each credential the holder has once, with its
\* type, and nothing else.
HolderIndexExact ==
  CounterLive =>
    \A who \in Accounts :
      /\ IsInjective(CredentialsByHolder[who])
      /\ Range(CredentialsByHolder[who]) =
           {ReferenceTo(id, Credentials[id].credential_type) :
              id \in {i \in CredentialIds :
                        Exists(i) /\ Credentials[i].holder = who}}

\* The list of an issuer names each credential it issued once, and nothing
\* else.
IssuerIndexExact ==
  CounterLive =>
    \A who \in Accounts :
      /\ IsInjective(CredentialsByIssuer[who])
      /\ Range(CredentialsByIssuer[who]) =
           {id \in CredentialIds :
              Exists(id) /\ Credentials[id].issuer = who}

\* The three indexes and the credentials are in step, also after calls that
\* failed half-way through the writes ("Store credential", "Add to holder's
\* credentials", "Add to issuer's credentials").
IndexesExact == HashIndexExact /\ HolderIndexExact /\ IssuerIndexExact

\* Whatever happens later to their DIDs and to the verification, a credential
\* has an issuer that is a registered institution with a DID, and a holder
\* with a DID: what a verifier looks up to show the parties is never missing.
CredentialHasParties ==
  \A id \in CredentialIds : Exists(id) =>
    LET credential == Credentials[id]
    IN  /\ IsInstitution(credential.issuer) /\ HasDid(credential.issuer)
        /\ HasDid(credential.holder)

\* A credential is never removed; who issued it to whom, for which document
\* and when, and when it expires, is fixed at issuance; only its issuer
\* changes it; a revoked credential does not change at all.
CredentialHistory ==
  [][CounterLive =>
       \A id \in CredentialIds :
         Exists(id) /\ Credentials'[id] # Credentials[id] =>
           /\ Credentials[id].status # "Revoked"
           /\ signer' = Credentials[id].issuer
           /\ Credentials'[id] # None
           /\ Credentials'[id] =
                [Credentials[id] EXCEPT
                   !.status = Credentials'[id].status,
                   !.metadata = Credentials'[id].metadata]
    ]_chainVars

\* The verdict on a document that was found revoked or expired is final: no
\* sequence of calls and blocks makes the credential verify again.
VerdictFinal ==
  [][CounterLive =>
       \A who \in Accounts, hash \in Hashes :
         LET verdict == VerifyCredentialResult(who, hash)
         IN  /\ verdict = "CredentialNotActive" =>
                  VerifyCredentialResult(who, hash)' = verdict
             /\ verdict = "CredentialExpired" =>
                  VerifyCredentialResult(who, hash)'
                    \in {"CredentialExpired", "CredentialNotActive"}
    ]_chainVars

\* A credential with this hash expires before the last block.
WillExpire(hash) ==
  /\ CredentialByHash[hash] # None
  /\ Credentials[CredentialByHash[hash]].expires_at # None
  /\ Credentials[CredentialByHash[hash]].expires_at < MaxBlock

\* Expiry needs no extrinsic: a credential with an expiration block that the
\* chain passes eventually no longer verifies, for every account that asks,
\* and although no call ever changes its status to Expired.
ExpiryTakesEffect ==
  \A hash \in Hashes :
    WillExpire(hash) ~>
      \A who \in Accounts :
        VerifyCredentialResult(who, hash)
          \in {"CredentialExpired", "CredentialNotActive"}
=============================================================================
