----------------------- MODULE CredentialPallet_proofs ----------------------
(***************************************************************************)
(* The credential pallet is correct for all accounts, documents and bounds *)
(* as long as the counter of ids does not saturate, and it implements      *)
(* Ledger together with the did pallet.                                    *)
(***************************************************************************)
EXTENDS LedgerRefinement, DidPallet_proofs

\* One credential for each value the counter has passed.
AtCount(n) == {id \in CredentialIds : Exists(id) /\ id[1] = n}

CountsUsed ==
  \A n \in 0..CounterMax :
    IF n < NextCredentialId
    THEN \E id \in CredentialIds : AtCount(n) = {id}
    ELSE AtCount(n) = {}

\* The state invariants of CredentialPallet together, inductive with the
\* invariant of the did pallet and CountsUsed.
CredentialInv ==
  /\ DidInv
  /\ CredentialTypeOK
  /\ CredentialHasParties
  /\ CounterLive => CountsUsed
  /\ IndexesExact

\* The credential that issue_credential stores.
Issued(issuer, holder, hash, type, metadata, expires) ==
  [credential_hash |-> hash, holder |-> holder, issuer |-> issuer,
   credential_type |-> type, metadata |-> metadata, issued_at |-> now,
   expires_at |-> expires, status |-> "Active"]

\* What revoke_credential and update_credential_metadata do: the issuer
\* replaces a credential that is not revoked by one that differs in the
\* metadata or in being revoked.
SoundAmendment(old, new) ==
  /\ old.status # "Revoked"
  /\ new.status = "Revoked" \/ new.status = old.status
  /\ new = [old EXCEPT !.status = new.status, !.metadata = new.metadata]

Amendment(id) ==
  /\ Exists(id)
  /\ signer' = Credentials[id].issuer
  /\ \E new \in Credential :
       /\ Credentials' = [Credentials EXCEPT ![id] = new]
       /\ SoundAmendment(Credentials[id], new)
  /\ UNCHANGED <<now, indexVars, didVars>>

\* Issuing, from an account.
Issuance(issuer) ==
  \E holder \in Accounts, hash \in Hashes, type \in CredentialTypes,
     metadata \in Metadata, expires \in Expiries :
    IssueCredential(issuer, holder, hash, type, metadata, expires)

\* Nothing of the two pallets changes.
Untouched == signer' \in Accounts /\ UNCHANGED <<now, didVars, credentialVars>>

\* A credential that is there has the fields of its type.
LEMMA CredentialFields ==
  ASSUME CredentialTypeOK, NEW id \in CredentialIds, Exists(id)
  PROVE  Credentials[id] \in Credential
BY DEF CredentialTypeOK, Exists

\* What an amendment leaves alone.
LEMMA AmendmentKeeps ==
  ASSUME NEW old \in Credential, NEW new \in Credential,
         SoundAmendment(old, new)
  PROVE  /\ new.credential_hash = old.credential_hash
         /\ new.holder = old.holder /\ new.issuer = old.issuer
         /\ new.credential_type = old.credential_type
         /\ new.issued_at = old.issued_at /\ new.expires_at = old.expires_at
<1> DEFINE amended ==
      [old EXCEPT !.status = new.status, !.metadata = new.metadata]
<1>1. /\ amended.credential_hash = old.credential_hash
      /\ amended.holder = old.holder /\ amended.issuer = old.issuer
      /\ amended.credential_type = old.credential_type
      /\ amended.issued_at = old.issued_at
      /\ amended.expires_at = old.expires_at
  BY DEF Credential
<1>2. new = amended
  BY DEF SoundAmendment
<1> HIDE DEF amended
<1>3. QED
  BY <1>1, <1>2

\* revoke_credential is an amendment.
LEMMA RevokeAmends ==
  ASSUME CredentialTypeOK, NEW origin \in Origins, NEW id \in CredentialIds,
         RevokeCredential(origin, id)
  PROVE  Amendment(id)
<1> DEFINE old == Credentials[id]
           new == [old EXCEPT !.status = "Revoked"]
<1>1. RevokeCredentialResult(origin, id) = Ok
  BY DEF RevokeCredential, Dispatched
<1>2. Exists(id) /\ old.issuer = origin /\ old.status # "Revoked"
  BY <1>1 DEF RevokeCredentialResult, Ok
<1>3. old \in Credential
  BY <1>2, CredentialFields
<1>4. new \in Credential /\ new.status = "Revoked"
  BY <1>3 DEF Credential, CredentialStatus
<1>5. new = [old EXCEPT !.status = new.status, !.metadata = new.metadata]
  BY <1>3 DEF Credential
<1>6. Credentials' = [Credentials EXCEPT ![id] = new]
  BY DEF RevokeCredential
<1>7. signer' = origin /\ UNCHANGED <<now, indexVars, didVars>>
  BY DEF RevokeCredential, Dispatched
<1> HIDE DEF new
<1>8. SoundAmendment(old, new)
  BY <1>2, <1>4, <1>5 DEF SoundAmendment
<1>9. QED
  BY <1>2, <1>4, <1>6, <1>7, <1>8 DEF Amendment

\* update_credential_metadata is an amendment.
LEMMA UpdateAmends ==
  ASSUME CredentialTypeOK, NEW origin \in Origins, NEW id \in CredentialIds,
         NEW metadata \in Metadata,
         UpdateCredentialMetadata(origin, id, metadata)
  PROVE  Amendment(id)
<1> DEFINE old == Credentials[id]
           new == [old EXCEPT !.metadata = metadata]
<1>1. UpdateCredentialMetadataResult(origin, id) = Ok
  BY DEF UpdateCredentialMetadata, Dispatched
<1>2. Exists(id) /\ old.issuer = origin /\ old.status = "Active"
  BY <1>1 DEF UpdateCredentialMetadataResult, Ok
<1>3. old \in Credential
  BY <1>2, CredentialFields
<1>4. new \in Credential /\ new.status = old.status
  BY <1>3 DEF Credential
<1>5. new = [old EXCEPT !.status = new.status, !.metadata = new.metadata]
  BY <1>3 DEF Credential
<1>6. Credentials' = [Credentials EXCEPT ![id] = new]
  BY DEF UpdateCredentialMetadata
<1>7. signer' = origin /\ UNCHANGED <<now, indexVars, didVars>>
  BY DEF UpdateCredentialMetadata, Dispatched
<1> HIDE DEF new
<1>8. SoundAmendment(old, new)
  BY <1>2, <1>4, <1>5 DEF SoundAmendment
<1>9. QED
  BY <1>2, <1>4, <1>6, <1>7, <1>8 DEF Amendment

\* Every step of the two pallets is one of the did pallet, an issuance, an
\* amendment, or changes nothing but the signer.
LEMMA CredentialSteps ==
  ASSUME CredentialTypeOK, CredentialNext
  PROVE  \/ DidNext /\ UNCHANGED credentialVars
         \/ \E issuer \in Accounts : Issuance(issuer)
         \/ \E id \in CredentialIds : Amendment(id)
         \/ Untouched
<1>1. ASSUME NEW origin \in Origins, NEW holder \in Accounts,
             NEW hash \in Hashes, NEW type \in CredentialTypes,
             NEW metadata \in Metadata, NEW expires \in Expiries,
             IssueCredential(origin, holder, hash, type, metadata, expires)
      PROVE  \E issuer \in Accounts : Issuance(issuer)
  BY <1>1 DEF IssueCredential, Dispatched, IssueCredentialResult, Ok,
              IsSigned, Issuance
<1>2. ASSUME NEW origin \in Origins, NEW hash \in Hashes,
             VerifyCredential(origin, hash)
      PROVE  Untouched
  BY <1>2 DEF VerifyCredential, Dispatched, VerifyCredentialResult, Ok,
              IsSigned, Untouched
<1>3. QED
  BY <1>1, <1>2, RevokeAmends, UpdateAmends
     DEF CredentialNext, CredentialCall
-----------------------------------------------------------------------------
\* The did pallet never takes a DID or an institution away.
LEMMA DidsStay ==
  ASSUME DidInv, DidNext, NEW who \in Accounts
  PROVE  /\ HasDid(who) => HasDid(who)'
         /\ IsInstitution(who) => IsInstitution(who)'
<1>1. /\ DidDocuments'[who] = DidDocuments[who] =>
           (HasDid(who) => HasDid(who)')
      /\ Institutions'[who] = Institutions[who] =>
           (IsInstitution(who) => IsInstitution(who)')
  BY DEF HasDid, IsInstitution
<1>2. /\ DidDocuments'[who] # DidDocuments[who] => HasDid(who)'
      /\ Institutions'[who] # Institutions[who] => IsInstitution(who)'
  BY DocumentsStep, InstitutionsStep, NoneAssumption
     DEF HasDid, IsInstitution
<1>3. QED
  BY <1>1, <1>2

\* A call of the credential pallet leaves the invariant of the did pallet.
LEMMA DidInvKept ==
  ASSUME DidInv, UNCHANGED <<now, didVars>>, signer' \in Origins
  PROVE  DidInv'
BY DEF DidInv, DidTypeOK, FrameTypeOK, HasDid, IsInstitution,
       DocumentInOrder, KeysDistinctAndBounded, InstitutionHasDid, didVars

\* A vector without repetitions that gets an element it does not have.
LEMMA PushInjective ==
  ASSUME NEW T, NEW vec \in Seq(T), NEW elem \in T, NEW bound \in Nat,
         HasRoom(vec, bound), IsInjective(vec), elem \notin Range(vec)
  PROVE  IsInjective(Append(vec, elem))
<1> DEFINE res == Append(vec, elem)
<1>1. /\ DOMAIN res = (DOMAIN vec) \cup {Len(vec) + 1}
      /\ \A i \in DOMAIN vec : res[i] = vec[i] /\ vec[i] # elem
      /\ res[Len(vec) + 1] = elem
  BY PushProperties DEF Range
<1> HIDE DEF res
<1>2. IsInjective(res)
  BY <1>1 DEF IsInjective
<1>3. QED
  BY <1>2 DEF res

\* What issue_credential does to a state in which the invariant holds.
LEMMA IssuanceStores ==
  ASSUME CredentialTypeOK, NEW issuer \in Accounts, NEW holder \in Accounts,
         NEW hash \in Hashes, NEW type \in CredentialTypes,
         NEW metadata \in Metadata, NEW expires \in Expiries,
         IssueCredential(issuer, holder, hash, type, metadata, expires)
  PROVE  LET id == CredentialId(NextCredentialId, issuer, holder)
             credential == Issued(issuer, holder, hash, type, metadata, expires)
             reference == ReferenceTo(id, type)
         IN  /\ id \in CredentialIds /\ id[1] = NextCredentialId
             /\ credential \in Credential
             /\ reference \in CredentialReference
             /\ reference.credential_id = id
             /\ IsInstitution(issuer) /\ Institutions[issuer].verified
             /\ HasDid(issuer) /\ DidDocuments[issuer].active
             /\ HasDid(holder) /\ DidDocuments[holder].active
             /\ CredentialByHash[hash] = None
             /\ HasRoom(CredentialsByHolder[holder], MaxCredentialsPerHolder)
             /\ HasRoom(CredentialsByIssuer[issuer], MaxCredentialsPerHolder)
             /\ NextCredentialId' = CounterAfter(NextCredentialId)
             /\ Credentials' = [Credentials EXCEPT ![id] = credential]
             /\ CredentialsByHolder' = [CredentialsByHolder EXCEPT ![holder] =
                  Append(CredentialsByHolder[holder], reference)]
             /\ CredentialsByIssuer' = [CredentialsByIssuer EXCEPT ![issuer] =
                  Append(CredentialsByIssuer[issuer], id)]
             /\ CredentialByHash' = [CredentialByHash EXCEPT ![hash] = id]
             /\ signer' = issuer
             /\ UNCHANGED <<now, didVars>>
<1> DEFINE id == CredentialId(NextCredentialId, issuer, holder)
           credential == Issued(issuer, holder, hash, type, metadata, expires)
<1>1. id \in CredentialIds /\ id[1] = NextCredentialId
  BY DEF CredentialTypeOK, CredentialIds, CredentialId
<1>2. now \in Nat /\ expires \in Nat \cup {None}
  BY MaxBlockAssumption
     DEF CredentialTypeOK, DidTypeOK, FrameTypeOK, Expiries
<1>3. credential \in Credential
  BY <1>2 DEF Issued, Credential, CredentialStatus
<1>4. /\ ReferenceTo(id, type) \in CredentialReference
      /\ ReferenceTo(id, type).credential_id = id
  BY <1>1 DEF ReferenceTo, CredentialReference
<1>5. /\ IssueCredentialResult(issuer, holder, hash) = Ok
      /\ signer' = issuer /\ now' = now
  BY DEF IssueCredential, Dispatched
<1>6. /\ IsInstitution(issuer) /\ Institutions[issuer].verified
      /\ HasDid(issuer) /\ DidDocuments[issuer].active
      /\ HasDid(holder) /\ DidDocuments[holder].active
      /\ CredentialByHash[hash] = None
      /\ HasRoom(CredentialsByHolder[holder], MaxCredentialsPerHolder)
      /\ HasRoom(CredentialsByIssuer[issuer], MaxCredentialsPerHolder)
  BY <1>5 DEF IssueCredentialResult, Ok
<1>7. QED
  BY <1>1, <1>3, <1>4, <1>5, <1>6 DEF IssueCredential, Issued

\* Issuing keeps the types and the parties.
LEMMA IssuanceTyped ==
  ASSUME CredentialInv, NEW issuer \in Accounts, NEW holder \in Accounts,
         NEW hash \in Hashes, NEW type \in CredentialTypes,
         NEW metadata \in Metadata, NEW expires \in Expiries,
         IssueCredential(issuer, holder, hash, type, metadata, expires)
  PROVE  DidInv' /\ CredentialTypeOK' /\ CredentialHasParties'
<1> DEFINE id == CredentialId(NextCredentialId, issuer, holder)
           credential == Issued(issuer, holder, hash, type, metadata, expires)
           reference == ReferenceTo(id, type)
<1>1. /\ id \in CredentialIds
      /\ credential \in Credential
      /\ reference \in CredentialReference
      /\ IsInstitution(issuer) /\ HasDid(issuer) /\ HasDid(holder)
      /\ HasRoom(CredentialsByHolder[holder], MaxCredentialsPerHolder)
      /\ HasRoom(CredentialsByIssuer[issuer], MaxCredentialsPerHolder)
      /\ NextCredentialId' = CounterAfter(NextCredentialId)
      /\ Credentials' = [Credentials EXCEPT ![id] = credential]
      /\ CredentialsByHolder' = [CredentialsByHolder EXCEPT ![holder] =
           Append(CredentialsByHolder[holder], reference)]
      /\ CredentialsByIssuer' = [CredentialsByIssuer EXCEPT ![issuer] =
           Append(CredentialsByIssuer[issuer], id)]
      /\ CredentialByHash' = [CredentialByHash EXCEPT ![hash] = id]
      /\ signer' = issuer
      /\ UNCHANGED <<now, didVars>>
  BY IssuanceStores DEF CredentialInv
<1>2. credential.issuer = issuer /\ credential.holder = holder
  BY DEF Issued
<1> HIDE DEF id, credential, reference
<1>3. DidInv'
  BY <1>1, DidInvKept DEF CredentialInv, Origins
<1>4. /\ Append(CredentialsByHolder[holder], reference)
           \in Seq(CredentialReference)
      /\ Append(CredentialsByIssuer[issuer], id) \in Seq(CredentialIds)
  BY <1>1, AppendProperties DEF CredentialInv, CredentialTypeOK
<1>5. CounterAfter(NextCredentialId) \in 0..CounterMax
  BY CounterMaxAssumption DEF CredentialInv, CredentialTypeOK, CounterAfter
<1>6. CredentialTypeOK'
  BY <1>1, <1>3, <1>4, <1>5 DEF CredentialInv, CredentialTypeOK, DidInv
<1>7. \A i \in CredentialIds :
        Credentials'[i] = IF i = id THEN credential ELSE Credentials[i]
  BY <1>1 DEF CredentialInv, CredentialTypeOK
<1>8. CredentialHasParties'
  BY <1>1, <1>2, <1>7
     DEF CredentialInv, CredentialHasParties, Exists, HasDid, IsInstitution,
         didVars
<1>9. QED
  BY <1>3, <1>6, <1>8

\* The counter never comes back from saturation.
LEMMA CounterStaysLive ==
  ASSUME NextCredentialId \in 0..CounterMax,
         NextCredentialId' = CounterAfter(NextCredentialId), CounterLive'
  PROVE  CounterLive /\ NextCredentialId' = NextCredentialId + 1
BY CounterMaxAssumption DEF CounterLive, CounterAfter

\* A new id is fresh, and issuing uses up one value of the counter.
LEMMA IssuanceCounted ==
  ASSUME CredentialInv, NEW id \in CredentialIds, id[1] = NextCredentialId,
         NEW credential \in Credential,
         Credentials' = [Credentials EXCEPT ![id] = credential],
         NextCredentialId' = CounterAfter(NextCredentialId),
         CounterLive'
  PROVE  CounterLive /\ ~Exists(id) /\ CountsUsed'
<1>1. NextCredentialId \in 0..CounterMax
  BY DEF CredentialInv, CredentialTypeOK
<1>2. CounterLive /\ NextCredentialId' = NextCredentialId + 1
  BY <1>1, CounterStaysLive
<1>3. CountsUsed
  BY <1>2 DEF CredentialInv
<1>4. AtCount(NextCredentialId) = {}
  BY <1>1, <1>3, CounterMaxAssumption DEF CountsUsed
<1>5. ~Exists(id)
  BY <1>4 DEF AtCount
<1>6. \A i \in CredentialIds :
        /\ i # id => (Exists(i)' <=> Exists(i))
        /\ Exists(id)'
  BY NoCredentialAssumption DEF CredentialInv, CredentialTypeOK, Exists
<1>7. ASSUME NEW n \in 0..CounterMax, n # NextCredentialId
      PROVE  AtCount(n)' = AtCount(n)
  BY <1>6, <1>7 DEF AtCount
<1>8. ASSUME NEW n \in 0..CounterMax, n = NextCredentialId
      PROVE  AtCount(n)' = {id}
  <2>1. \A i \in CredentialIds : (Exists(i)' /\ i[1] = n) <=> i = id
    BY <1>4, <1>6, <1>8 DEF AtCount
  <2>2. QED
    BY <2>1 DEF AtCount
<1>9. ASSUME NEW n \in 0..CounterMax
      PROVE  IF n < NextCredentialId + 1
             THEN \E i \in CredentialIds : AtCount(n)' = {i}
             ELSE AtCount(n)' = {}
  <2>1. CASE n = NextCredentialId
    BY <1>1, <1>8, <2>1
  <2>2. CASE n # NextCredentialId
    <3>1. n < NextCredentialId + 1 <=> n < NextCredentialId
      BY <1>1, <2>2
    <3>2. QED
      BY <1>3, <1>7, <2>2, <3>1 DEF CountsUsed
  <2>3. QED
    BY <2>1, <2>2
<1>10. CountsUsed'
  BY <1>2, <1>9 DEF CountsUsed
<1>11. QED
  BY <1>2, <1>5, <1>10

\* Issuing keeps the three indexes exact.
LEMMA IssuanceIndexed ==
  ASSUME CredentialInv, NEW issuer \in Accounts, NEW holder \in Accounts,
         NEW hash \in Hashes, NEW type \in CredentialTypes,
         NEW metadata \in Metadata, NEW expires \in Expiries,
         IssueCredential(issuer, holder, hash, type, metadata, expires),
         CounterLive'
  PROVE  CountsUsed' /\ IndexesExact'
<1> DEFINE id == CredentialId(NextCredentialId, issuer, holder)
           credential == Issued(issuer, holder, hash, type, metadata, expires)
           reference == ReferenceTo(id, type)
<1>1. /\ id \in CredentialIds /\ id[1] = NextCredentialId
      /\ credential \in Credential
      /\ reference \in CredentialReference
      /\ CredentialByHash[hash] = None
      /\ HasRoom(CredentialsByHolder[holder], MaxCredentialsPerHolder)
      /\ HasRoom(CredentialsByIssuer[issuer], MaxCredentialsPerHolder)
      /\ NextCredentialId' = CounterAfter(NextCredentialId)
      /\ Credentials' = [Credentials EXCEPT ![id] = credential]
      /\ CredentialsByHolder' = [CredentialsByHolder EXCEPT ![holder] =
           Append(CredentialsByHolder[holder], reference)]
      /\ CredentialsByIssuer' = [CredentialsByIssuer EXCEPT ![issuer] =
           Append(CredentialsByIssuer[issuer], id)]
      /\ CredentialByHash' = [CredentialByHash EXCEPT ![hash] = id]
  BY IssuanceStores DEF CredentialInv
<1>2. /\ credential.credential_hash = hash
      /\ credential.holder = holder /\ credential.issuer = issuer
      /\ credential.credential_type = type
  BY DEF Issued
<1>3. reference = ReferenceTo(id, type) /\ reference.credential_id = id
  BY DEF ReferenceTo
<1> HIDE DEF id, credential, reference
<1>4. CounterLive /\ ~Exists(id) /\ CountsUsed'
  BY <1>1, IssuanceCounted
<1>5. /\ HashIndexExact /\ HolderIndexExact /\ IssuerIndexExact
      /\ CredentialTypeOK
  BY DEF CredentialInv, IndexesExact
<1>6. credential # None /\ id # None
  BY <1>1, NoCredentialAssumption
<1>7. /\ \A i \in CredentialIds :
           Credentials'[i] = IF i = id THEN credential ELSE Credentials[i]
      /\ \A h \in Hashes :
           CredentialByHash'[h] = IF h = hash THEN id ELSE CredentialByHash[h]
      /\ \A h \in Hashes : CredentialByHash[h] \in CredentialIds \cup {None}
  BY <1>1, <1>5 DEF CredentialTypeOK
<1>8. HashIndexExact'
  <2>1. ASSUME NEW h \in Hashes, CredentialByHash'[h] # None
        PROVE  /\ Credentials'[CredentialByHash'[h]] # None
               /\ Credentials'[CredentialByHash'[h]].credential_hash = h
    BY <1>1, <1>2, <1>4, <1>5, <1>6, <1>7, <2>1 DEF HashIndexExact, Exists
  <2>2. ASSUME NEW i \in CredentialIds, Credentials'[i] # None
        PROVE  CredentialByHash'[Credentials'[i].credential_hash] = i
    <3>1. CASE i = id
      BY <1>2, <1>7, <3>1
    <3>2. CASE i # id
      <4>1. Exists(i) /\ Credentials'[i] = Credentials[i]
        BY <1>7, <2>2, <3>2 DEF Exists
      <4>2. Credentials[i] \in Credential
        BY <1>5, <4>1, CredentialFields
      <4>3. Credentials[i].credential_hash \in Hashes
        BY <4>2 DEF Credential
      <4>4. CredentialByHash[Credentials[i].credential_hash] = i
        BY <1>4, <1>5, <4>1 DEF HashIndexExact
      <4>5. i # None
        BY NoCredentialAssumption
      <4>6. QED
        BY <1>1, <1>7, <4>1, <4>3, <4>4, <4>5
    <3>3. QED
      BY <3>1, <3>2
  <2>3. QED
    BY <2>1, <2>2 DEF HashIndexExact, Exists
<1>9. HolderIndexExact'
  <2> DEFINE Held(who) == {i \in CredentialIds :
                             Exists(i) /\ Credentials[i].holder = who}
             References(who) == {ReferenceTo(i, Credentials[i].credential_type) :
                                   i \in Held(who)}
             list == CredentialsByHolder[holder]
  <2>1. /\ list \in Seq(CredentialReference) /\ IsInjective(list)
        /\ Range(list) = References(holder)
    BY <1>4, <1>5 DEF CredentialTypeOK, HolderIndexExact
  <2>3. reference \notin Range(list)
    <3>1. \A i \in Held(holder) :
            ReferenceTo(i, Credentials[i].credential_type).credential_id = i
      BY DEF ReferenceTo
    <3>2. id \notin Held(holder)
      BY <1>4
    <3>3. QED
      BY <1>3, <2>1, <3>1, <3>2
  <2>4. /\ IsInjective(Append(list, reference))
        /\ Range(Append(list, reference)) = Range(list) \cup {reference}
    <3>1. /\ reference \in CredentialReference
          /\ HasRoom(list, MaxCredentialsPerHolder)
      BY <1>1
    <3>2. /\ list \in Seq(CredentialReference) /\ IsInjective(list)
          /\ reference \notin Range(list)
      BY <2>1, <2>3
    <3> HIDE DEF list, reference
    <3>3. IsInjective(Append(list, reference))
      BY <3>1, <3>2, PushInjective, MaxCredentialsAssumption
    <3>4. Range(Append(list, reference)) = Range(list) \cup {reference}
      BY <3>1, <3>2, PushProperties, MaxCredentialsAssumption
    <3>5. QED
      BY <3>3, <3>4
  <2>5. \A who \in Accounts :
          Held(who)' = IF who = holder THEN Held(who) \cup {id} ELSE Held(who)
    BY <1>1, <1>2, <1>4, <1>6, <1>7 DEF Exists
  <2>6. /\ ReferenceTo(id, Credentials'[id].credential_type) = reference
        /\ \A i \in CredentialIds : Exists(i) =>
             Credentials'[i].credential_type = Credentials[i].credential_type
    BY <1>1, <1>2, <1>3, <1>4, <1>7
  <2>7. \A who \in Accounts :
          References(who)' =
            IF who = holder THEN References(who) \cup {reference}
            ELSE References(who)
    <3> SUFFICES ASSUME NEW who \in Accounts
                 PROVE  References(who)' =
                          IF who = holder THEN References(who) \cup {reference}
                          ELSE References(who)
      OBVIOUS
    <3>1. References(who)' = {ReferenceTo(i, Credentials'[i].credential_type) :
                                i \in Held(who)'}
      OBVIOUS
    <3>2. \A i \in Held(who) :
            ReferenceTo(i, Credentials'[i].credential_type)
              = ReferenceTo(i, Credentials[i].credential_type)
      BY <2>6
    <3>3. Held(who)' = IF who = holder THEN Held(who) \cup {id} ELSE Held(who)
      BY <2>5
    <3> HIDE DEF Held
    <3>4. QED
      BY <2>6, <3>1, <3>2, <3>3
  <2>8. \A who \in Accounts : CredentialsByHolder'[who] =
          IF who = holder THEN Append(list, reference)
          ELSE CredentialsByHolder[who]
    BY <1>1, <1>5 DEF CredentialTypeOK
  <2>9. \A who \in Accounts :
          IsInjective(CredentialsByHolder[who])
            /\ Range(CredentialsByHolder[who]) = References(who)
    BY <1>4, <1>5 DEF HolderIndexExact
  <2> HIDE DEF References, list
  <2>10. \A who \in Accounts :
           IsInjective(CredentialsByHolder'[who])
             /\ Range(CredentialsByHolder'[who]) = References(who)'
    BY <2>1, <2>4, <2>7, <2>8, <2>9
  <2>11. QED
    BY <2>10 DEF HolderIndexExact, References
<1>10. IssuerIndexExact'
  <2> DEFINE IssuedBy(who) == {i \in CredentialIds :
                                 Exists(i) /\ Credentials[i].issuer = who}
             list == CredentialsByIssuer[issuer]
  <2>1. /\ list \in Seq(CredentialIds) /\ IsInjective(list)
        /\ Range(list) = IssuedBy(issuer)
    BY <1>4, <1>5 DEF CredentialTypeOK, IssuerIndexExact
  <2>2. id \notin Range(list)
    BY <1>4, <2>1
  <2>3. /\ IsInjective(Append(list, id))
        /\ Range(Append(list, id)) = Range(list) \cup {id}
    <3>1. id \in CredentialIds /\ HasRoom(list, MaxCredentialsPerHolder)
      BY <1>1
    <3> HIDE DEF list
    <3>2. IsInjective(Append(list, id))
      BY <2>1, <2>2, <3>1, PushInjective, MaxCredentialsAssumption
    <3>3. Range(Append(list, id)) = Range(list) \cup {id}
      BY <2>1, <2>2, <3>1, PushProperties, MaxCredentialsAssumption
    <3>4. QED
      BY <3>2, <3>3
  <2>4. \A who \in Accounts :
          IssuedBy(who)' = IF who = issuer THEN IssuedBy(who) \cup {id}
                           ELSE IssuedBy(who)
    BY <1>1, <1>2, <1>4, <1>6, <1>7 DEF Exists
  <2>5. \A who \in Accounts : CredentialsByIssuer'[who] =
          IF who = issuer THEN Append(list, id) ELSE CredentialsByIssuer[who]
    BY <1>1, <1>5 DEF CredentialTypeOK
  <2>6. \A who \in Accounts :
          IsInjective(CredentialsByIssuer[who])
            /\ Range(CredentialsByIssuer[who]) = IssuedBy(who)
    BY <1>4, <1>5 DEF IssuerIndexExact
  <2> HIDE DEF IssuedBy, list
  <2>7. \A who \in Accounts :
          IsInjective(CredentialsByIssuer'[who])
            /\ Range(CredentialsByIssuer'[who]) = IssuedBy(who)'
    BY <2>1, <2>3, <2>4, <2>5, <2>6
  <2>8. QED
    BY <2>7 DEF IssuerIndexExact, IssuedBy
<1>11. QED
  BY <1>4, <1>8, <1>9, <1>10 DEF IndexesExact

\* An amendment of a credential: its parties, document and type stay.
LEMMA AmendmentStores ==
  ASSUME CredentialTypeOK, NEW id \in CredentialIds, Amendment(id)
  PROVE  /\ Credentials' \in [CredentialIds -> Credential \cup {None}]
         /\ \A i \in CredentialIds :
              /\ i # id => Credentials'[i] = Credentials[i]
              /\ Exists(i)' <=> Exists(i)
              /\ Exists(i) =>
                   /\ Credentials'[i] \in Credential
                   /\ Credentials'[i].credential_hash
                        = Credentials[i].credential_hash
                   /\ Credentials'[i].holder = Credentials[i].holder
                   /\ Credentials'[i].issuer = Credentials[i].issuer
                   /\ Credentials'[i].credential_type
                        = Credentials[i].credential_type
                   /\ Credentials'[i].expires_at = Credentials[i].expires_at
         /\ SoundAmendment(Credentials[id], Credentials'[id])
<1>1. PICK new \in Credential :
        /\ Credentials' = [Credentials EXCEPT ![id] = new]
        /\ SoundAmendment(Credentials[id], new)
  BY DEF Amendment
<1>2. Exists(id) /\ Credentials[id] \in Credential
  BY CredentialFields DEF Amendment
<1>3. Credentials \in [CredentialIds -> Credential \cup {None}]
  BY DEF CredentialTypeOK
<1>4. \A i \in CredentialIds :
        Credentials'[i] = IF i = id THEN new ELSE Credentials[i]
  BY <1>1, <1>3
<1>5. new # None
  BY NoCredentialAssumption
<1>6. /\ new.credential_hash = Credentials[id].credential_hash
      /\ new.holder = Credentials[id].holder
      /\ new.issuer = Credentials[id].issuer
      /\ new.credential_type = Credentials[id].credential_type
      /\ new.expires_at = Credentials[id].expires_at
  BY <1>1, <1>2, AmendmentKeeps
<1>7. \A i \in CredentialIds :
        Exists(i) => Credentials[i] \in Credential
  BY CredentialFields
<1>8. QED
  BY <1>1, <1>2, <1>3, <1>4, <1>5, <1>6, <1>7 DEF Exists

\* An amendment preserves the invariant.
LEMMA AmendmentPreserves ==
  ASSUME CredentialInv, NEW id \in CredentialIds, Amendment(id)
  PROVE  CredentialInv'
<1>1. /\ Credentials' \in [CredentialIds -> Credential \cup {None}]
      /\ \A i \in CredentialIds :
           /\ Exists(i)' <=> Exists(i)
           /\ Exists(i) =>
                /\ Credentials'[i].credential_hash
                     = Credentials[i].credential_hash
                /\ Credentials'[i].holder = Credentials[i].holder
                /\ Credentials'[i].issuer = Credentials[i].issuer
                /\ Credentials'[i].credential_type
                     = Credentials[i].credential_type
  BY AmendmentStores DEF CredentialInv
<1>2. UNCHANGED <<now, didVars, CredentialsByHolder, CredentialsByIssuer,
                  CredentialByHash, NextCredentialId>>
  BY DEF Amendment, indexVars
<1>3. signer' \in Origins
  <2>1. Credentials[id] \in Credential
    BY CredentialFields DEF CredentialInv, Amendment
  <2>2. QED
    BY <2>1 DEF Amendment, Credential, Origins
<1>4. DidInv'
  BY <1>2, <1>3, DidInvKept DEF CredentialInv
<1>5. CredentialTypeOK'
  BY <1>1, <1>2, <1>4 DEF CredentialInv, CredentialTypeOK, DidInv
<1>6. CredentialHasParties'
  BY <1>1, <1>2
     DEF CredentialInv, CredentialHasParties, HasDid, IsInstitution, didVars
<1>7. CounterLive' => CounterLive
  BY <1>2 DEF CounterLive
<1>8. CounterLive' => CountsUsed'
  <2>1. \A n \in 0..CounterMax : AtCount(n)' = AtCount(n)
    BY <1>1 DEF AtCount
  <2>2. QED
    BY <1>2, <1>7, <2>1 DEF CredentialInv, CountsUsed
<1>9. HashIndexExact'
  <2>1. \A h \in Hashes : CredentialByHash[h] \in CredentialIds \cup {None}
    BY DEF CredentialInv, CredentialTypeOK
  <2>2. QED
    BY <1>1, <1>2, <1>7, <2>1 DEF CredentialInv, IndexesExact, HashIndexExact
<1>10. HolderIndexExact'
  <2> DEFINE Held(who) == {i \in CredentialIds :
                             Exists(i) /\ Credentials[i].holder = who}
  <2>1. \A who \in Accounts :
          /\ Held(who)' = Held(who)
          /\ \A i \in Held(who) :
               Credentials'[i].credential_type = Credentials[i].credential_type
    BY <1>1
  <2>2. \A who \in Accounts :
          {ReferenceTo(i, Credentials[i].credential_type) : i \in Held(who)}
            = {ReferenceTo(i, Credentials'[i].credential_type) :
                 i \in Held(who)'}
    <3> HIDE DEF Held
    <3>1. QED
      BY <2>1
  <2>3. QED
    BY <1>2, <1>7, <2>2 DEF CredentialInv, IndexesExact, HolderIndexExact
<1>11. IssuerIndexExact'
  <2> DEFINE IssuedBy(who) == {i \in CredentialIds :
                                 Exists(i) /\ Credentials[i].issuer = who}
  <2>1. \A who \in Accounts : IssuedBy(who)' = IssuedBy(who)
    BY <1>1
  <2>2. QED
    BY <1>2, <1>7, <2>1 DEF CredentialInv, IndexesExact, IssuerIndexExact
<1>12. QED
  BY <1>4, <1>5, <1>6, <1>8, <1>9, <1>10, <1>11
     DEF CredentialInv, IndexesExact

\* A step that leaves the storage of the pallet, and takes no DID and no
\* institution away, preserves the invariant.
LEMMA StoragePreserves ==
  ASSUME CredentialInv, DidInv', UNCHANGED credentialVars,
         \A who \in Accounts :
           /\ HasDid(who) => HasDid(who)'
           /\ IsInstitution(who) => IsInstitution(who)'
  PROVE  CredentialInv'
<1> USE DEF CredentialInv, credentialVars, indexVars
<1>1. CredentialTypeOK'
  BY DEF CredentialTypeOK, DidInv
<1>2. CredentialHasParties'
  <2>1. ASSUME NEW id \in CredentialIds, Exists(id)
        PROVE  Credentials[id] \in Credential
    BY <2>1, CredentialFields
  <2>2. QED
    BY <2>1 DEF CredentialHasParties, Exists, Credential
<1>3. CounterLive' => CountsUsed'
  BY DEF CounterLive, CountsUsed, AtCount, Exists
<1>4. IndexesExact'
  BY DEF IndexesExact, HashIndexExact, HolderIndexExact, IssuerIndexExact,
         CounterLive, Exists
<1>5. QED
  BY <1>1, <1>2, <1>3, <1>4

\* Every step preserves the invariant.
LEMMA CredentialInvPreserved ==
  ASSUME CredentialInv, [CredentialNext]_chainVars
  PROVE  CredentialInv'
<1>1. CredentialTypeOK /\ DidInv
  BY DEF CredentialInv
<1>2. CASE DidNext /\ UNCHANGED credentialVars
  BY <1>1, <1>2, DidInvPreserved, DidsStay, StoragePreserves
<1>3. ASSUME NEW issuer \in Accounts, Issuance(issuer)
      PROVE  CredentialInv'
  <2>1. PICK holder \in Accounts, hash \in Hashes, type \in CredentialTypes,
             metadata \in Metadata, expires \in Expiries :
          IssueCredential(issuer, holder, hash, type, metadata, expires)
    BY <1>3 DEF Issuance
  <2>2. DidInv' /\ CredentialTypeOK' /\ CredentialHasParties'
    BY <2>1, IssuanceTyped
  <2>3. CounterLive' => CountsUsed' /\ IndexesExact'
    BY <2>1, IssuanceIndexed
  <2>4. ~CounterLive' => IndexesExact'
    BY DEF IndexesExact, HashIndexExact, HolderIndexExact, IssuerIndexExact
  <2>5. QED
    BY <2>2, <2>3, <2>4 DEF CredentialInv
<1>4. ASSUME NEW id \in CredentialIds, Amendment(id)
      PROVE  CredentialInv'
  BY <1>4, AmendmentPreserves
<1>5. CASE Untouched
  <2>1. DidInv'
    BY <1>1, <1>5, DidInvKept DEF Untouched, Origins
  <2>2. QED
    BY <1>5, <2>1, StoragePreserves
       DEF Untouched, didVars, HasDid, IsInstitution
<1>6. CASE UNCHANGED chainVars
  <2>1. DidInv'
    BY <1>1, <1>6, DidInvPreserved DEF chainVars
  <2>2. QED
    BY <1>6, <2>1, StoragePreserves
       DEF chainVars, didVars, HasDid, IsInstitution
<1>7. QED
  BY <1>1, <1>2, <1>3, <1>4, <1>5, <1>6, CredentialSteps

\* The empty chain satisfies the invariant.
LEMMA CredentialInvInitially ==
  ASSUME CredentialGenesis
  PROVE  CredentialInv
<1> USE DEF CredentialGenesis, CredentialInit, Exists
<1>1. DidInv
  BY DidInvInitially DEF DidGenesis
<1>2. CredentialTypeOK
  BY <1>1, CounterMaxAssumption DEF CredentialTypeOK, DidInv
<1>3. \A id \in CredentialIds : ~Exists(id)
  OBVIOUS
<1>4. CredentialHasParties
  BY <1>3 DEF CredentialHasParties
<1>5. CountsUsed
  BY <1>3 DEF CountsUsed, AtCount
<1>6. HashIndexExact
  BY <1>3 DEF HashIndexExact
<1>7. /\ \A who \in Accounts :
           CredentialsByHolder[who] = <<>> /\ CredentialsByIssuer[who] = <<>>
      /\ IsInjective(<<>>) /\ Range(<<>>) = {}
  <2>1. DOMAIN <<>> = {}
    OBVIOUS
  <2>2. IsInjective(<<>>)
    BY <2>1 DEF IsInjective
  <2>3. Range(<<>>) = {}
    BY <2>1 DEF Range
  <2>4. QED
    BY <2>2, <2>3
<1>8. HolderIndexExact /\ IssuerIndexExact
  BY <1>3, <1>7 DEF HolderIndexExact, IssuerIndexExact
<1>9. QED
  BY <1>1, <1>2, <1>4, <1>5, <1>6, <1>8 DEF CredentialInv, IndexesExact

\* In every behaviour of the two pallets, for all accounts, documents and
\* bounds, the invariant holds in every state.
THEOREM CredentialInvariance == CredentialSpec => []CredentialInv
<1>1. CredentialGenesis => CredentialInv
  BY CredentialInvInitially
<1>2. CredentialInv /\ [CredentialNext]_chainVars => CredentialInv'
  BY CredentialInvPreserved
<1>3. QED
  BY <1>1, <1>2, PTL DEF CredentialSpec

\* The storage of the two pallets is always of its type.
THEOREM CredentialTypeCorrect == CredentialSpec => []CredentialTypeOK
<1>1. CredentialInv => CredentialTypeOK
  BY DEF CredentialInv
<1>2. QED
  BY <1>1, CredentialInvariance, PTL

\* The issuer of a credential is an institution with a DID and the holder has
\* a DID, whatever was called since.
THEOREM PartiesCorrect == CredentialSpec => []CredentialHasParties
<1>1. CredentialInv => CredentialHasParties
  BY DEF CredentialInv
<1>2. QED
  BY <1>1, CredentialInvariance, PTL

\* The indexes by hash, by holder and by issuer are exact in every state
\* before the counter saturates.
THEOREM IndexesCorrect == CredentialSpec => []IndexesExact
<1>1. CredentialInv => IndexesExact
  BY DEF CredentialInv
<1>2. QED
  BY <1>1, CredentialInvariance, PTL

\* There is one credential for each value the counter has passed, so a new id
\* is never that of a stored credential.
THEOREM CountingCorrect == CredentialSpec => []OneCredentialPerCount
<1>1. ASSUME CredentialInv, CounterLive, NEW n \in 0..CounterMax
      PROVE  Cardinality(AtCount(n)) = IF n < NextCredentialId THEN 1 ELSE 0
  <2>1. CASE n < NextCredentialId
    BY <1>1, <2>1, FS_Singleton DEF CredentialInv, CountsUsed
  <2>2. CASE ~(n < NextCredentialId)
    BY <1>1, <2>2, FS_EmptySet DEF CredentialInv, CountsUsed
  <2>3. QED
    BY <2>1, <2>2
<1>2. CredentialInv => OneCredentialPerCount
  BY <1>1 DEF OneCredentialPerCount, AtCount
<1>3. QED
  BY <1>2, CredentialInvariance, PTL

\* What happens to a stored credential in a step: nothing, or an amendment.
LEMMA StoredCredentialStep ==
  ASSUME CredentialInv, [CredentialNext]_chainVars, CounterLive,
         NEW id \in CredentialIds, Exists(id)
  PROVE  \/ Credentials'[id] = Credentials[id]
         \/ Amendment(id)
<1>0. CredentialTypeOK
  BY DEF CredentialInv
<1>1. CASE UNCHANGED credentialVars
  BY <1>1 DEF credentialVars
<1>2. ASSUME NEW issuer \in Accounts, Issuance(issuer)
      PROVE  Credentials'[id] = Credentials[id]
  <2>1. PICK holder \in Accounts, hash \in Hashes, type \in CredentialTypes,
             metadata \in Metadata, expires \in Expiries :
          IssueCredential(issuer, holder, hash, type, metadata, expires)
    BY <1>2 DEF Issuance
  <2> DEFINE new == CredentialId(NextCredentialId, issuer, holder)
             credential ==
               Issued(issuer, holder, hash, type, metadata, expires)
  <2>2. /\ new \in CredentialIds /\ new[1] = NextCredentialId
        /\ Credentials' = [Credentials EXCEPT ![new] = credential]
    BY <1>0, <2>1, IssuanceStores
  <2>3. AtCount(NextCredentialId) = {}
    BY CounterMaxAssumption
       DEF CredentialInv, CredentialTypeOK, CountsUsed
  <2> HIDE DEF new, credential
  <2>4. new # id
    BY <2>2, <2>3 DEF AtCount
  <2>5. QED
    BY <1>0, <2>2, <2>4 DEF CredentialTypeOK
<1>3. ASSUME NEW other \in CredentialIds, Amendment(other)
      PROVE  Credentials'[id] = Credentials[id] \/ Amendment(id)
  BY <1>0, <1>3, AmendmentStores
<1>4. CASE Untouched \/ UNCHANGED chainVars
  BY <1>4 DEF Untouched, credentialVars, chainVars
<1>5. QED
  BY <1>0, <1>1, <1>2, <1>3, <1>4, CredentialSteps

\* A credential is changed by its issuer only, in its metadata or by revoking
\* it, and not at all once it is revoked.
THEOREM HistoryCorrect == CredentialSpec => CredentialHistory
<1> DEFINE Changed(id) ==
      /\ Credentials[id].status # "Revoked"
      /\ signer' = Credentials[id].issuer
      /\ Credentials'[id] # None
      /\ Credentials'[id] =
           [Credentials[id] EXCEPT
              !.status = Credentials'[id].status,
              !.metadata = Credentials'[id].metadata]
<1>1. ASSUME CredentialInv, [CredentialNext]_chainVars, CounterLive,
             NEW id \in CredentialIds, Exists(id),
             Credentials'[id] # Credentials[id]
      PROVE  Changed(id)
  <2>1. Amendment(id)
    BY <1>1, StoredCredentialStep
  <2>2. /\ Credentials'[id] # None
        /\ SoundAmendment(Credentials[id], Credentials'[id])
    BY <1>1, <2>1, AmendmentStores DEF CredentialInv, Exists
  <2>3. QED
    BY <2>1, <2>2 DEF Amendment, SoundAmendment
<1>2. CredentialInv /\ [CredentialNext]_chainVars =>
        [CounterLive =>
           \A id \in CredentialIds :
             Exists(id) /\ Credentials'[id] # Credentials[id] => Changed(id)
        ]_chainVars
  BY <1>1
<1>3. QED
  BY <1>2, CredentialInvariance, PTL DEF CredentialSpec, CredentialHistory

\* What a step does to the credential found by a hash: it stays the one found,
\* and it stays as it is or is amended.
LEMMA FoundCredentialStep ==
  ASSUME CredentialInv, [CredentialNext]_chainVars, CounterLive,
         NEW hash \in Hashes, CredentialByHash[hash] # None
  PROVE  LET id == CredentialByHash[hash]
         IN  /\ id \in CredentialIds /\ Exists(id)
             /\ Credentials[id] \in Credential
             /\ CredentialByHash'[hash] = id
             /\ \/ Credentials'[id] = Credentials[id]
                \/ /\ Credentials'[id] \in Credential
                   /\ SoundAmendment(Credentials[id], Credentials'[id])
<1> DEFINE id == CredentialByHash[hash]
<1>0. CredentialTypeOK
  BY DEF CredentialInv
<1>1. id \in CredentialIds /\ Exists(id)
  BY <1>0 DEF CredentialTypeOK, CredentialInv, IndexesExact, HashIndexExact
<1>2. Credentials[id] \in Credential
  BY <1>0, <1>1, CredentialFields
<1>3. \/ Credentials'[id] = Credentials[id]
      \/ Amendment(id)
  BY <1>1, StoredCredentialStep
<1>4. Amendment(id) => /\ Credentials'[id] \in Credential
                       /\ SoundAmendment(Credentials[id], Credentials'[id])
  BY <1>0, <1>1, AmendmentStores
<1>5. CredentialByHash'[hash] = id
  <2>1. CASE UNCHANGED CredentialByHash
    BY <2>1
  <2>2. ASSUME NEW issuer \in Accounts, Issuance(issuer)
        PROVE  CredentialByHash'[hash] = id
    <3>1. PICK holder \in Accounts, h \in Hashes, type \in CredentialTypes,
               metadata \in Metadata, expires \in Expiries :
            IssueCredential(issuer, holder, h, type, metadata, expires)
      BY <2>2 DEF Issuance
    <3> DEFINE new == CredentialId(NextCredentialId, issuer, holder)
    <3>2. /\ CredentialByHash[h] = None
          /\ CredentialByHash' = [CredentialByHash EXCEPT ![h] = new]
      BY <1>0, <3>1, IssuanceStores
    <3> HIDE DEF new
    <3>3. h # hash
      BY <3>2
    <3>4. QED
      BY <1>0, <3>2, <3>3 DEF CredentialTypeOK
  <2>3. QED
    BY <1>0, <2>1, <2>2, CredentialSteps
       DEF credentialVars, indexVars, chainVars, Amendment, Untouched
<1>6. QED
  BY <1>1, <1>2, <1>3, <1>4, <1>5

\* Blocks only follow blocks.
LEMMA BlocksFollow ==
  ASSUME CredentialInv, [CredentialNext]_chainVars
  PROVE  now \in Nat /\ now' \in Nat /\ now' >= now
<1>1. now \in Nat
  BY MaxBlockAssumption
     DEF CredentialInv, CredentialTypeOK, DidTypeOK, FrameTypeOK
<1>2. CASE DidNext
  <2>1. DidInv
    BY DEF CredentialInv
  <2>2. ProduceBlock \/ now' = now
    BY <1>2, <2>1, DidSteps DEF DocumentUpdate, InstitutionUpdate
  <2>3. QED
    BY <1>1, <2>2 DEF ProduceBlock
<1>3. CASE now' = now
  BY <1>1, <1>3
<1>4. QED
  BY <1>2, <1>3, CredentialSteps
     DEF CredentialInv, Issuance, IssueCredential, Dispatched, Amendment,
         Untouched, chainVars, frameVars

\* The verdict on a revoked or an expired document is final.
THEOREM VerdictCorrect == CredentialSpec => VerdictFinal
<1> DEFINE Final(who, hash) ==
      LET verdict == VerifyCredentialResult(who, hash)
      IN  /\ verdict = "CredentialNotActive" =>
               VerifyCredentialResult(who, hash)' = verdict
          /\ verdict = "CredentialExpired" =>
               VerifyCredentialResult(who, hash)'
                 \in {"CredentialExpired", "CredentialNotActive"}
<1>1. ASSUME CredentialInv, [CredentialNext]_chainVars, CounterLive,
             NEW who \in Accounts, NEW hash \in Hashes
      PROVE  Final(who, hash)
  <2> DEFINE id == CredentialByHash[hash]
             old == Credentials[id]
             new == Credentials'[id]
  <2>1. CASE VerifyCredentialResult(who, hash)
               \notin {"CredentialNotActive", "CredentialExpired"}
    BY <2>1
  <2>2. CASE VerifyCredentialResult(who, hash)
               \in {"CredentialNotActive", "CredentialExpired"}
    <3>1. id # None /\ IsSigned(who)
      BY <2>2 DEF VerifyCredentialResult, Ok
    <3>2. /\ Exists(id) /\ old \in Credential /\ old # None
          /\ CredentialByHash'[hash] = id
          /\ new = old \/ (new \in Credential /\ SoundAmendment(old, new))
      BY <1>1, <3>1, FoundCredentialStep, NoCredentialAssumption
    <3>3. /\ new # None
          /\ new.expires_at = old.expires_at
          /\ old.status # "Active" => new.status # "Active"
      BY <3>2, AmendmentKeeps, NoCredentialAssumption DEF SoundAmendment
    <3>4. now \in Nat /\ now' \in Nat /\ now' >= now
      BY <1>1, BlocksFollow
    <3>5. old.expires_at \in Nat \cup {None}
      BY <3>2 DEF Credential
    <3> HIDE DEF id, old, new
    <3>6. VerifyCredentialResult(who, hash) =
            IF old.status # "Active" THEN "CredentialNotActive"
            ELSE IF old.expires_at # None /\ now > old.expires_at
                 THEN "CredentialExpired"
            ELSE Ok
      BY <3>1, <3>2 DEF VerifyCredentialResult, Exists, id, old
    <3>7. VerifyCredentialResult(who, hash)' =
            IF new.status # "Active" THEN "CredentialNotActive"
            ELSE IF new.expires_at # None /\ now' > new.expires_at
                 THEN "CredentialExpired"
            ELSE Ok
      BY <3>1, <3>2, <3>3
         DEF VerifyCredentialResult, Exists, IsSigned, id, new
    <3>8. QED
      BY <2>2, <3>3, <3>4, <3>5, <3>6, <3>7 DEF Ok
  <2>3. QED
    BY <2>1, <2>2
<1>2. CredentialInv /\ [CredentialNext]_chainVars =>
        [CounterLive =>
           \A who \in Accounts, hash \in Hashes : Final(who, hash)]_chainVars
  BY <1>1
<1>3. QED
  BY <1>2, CredentialInvariance, PTL DEF CredentialSpec, VerdictFinal
-----------------------------------------------------------------------------
\* The ledger as the two pallets show it.
didShown == [who \in Accounts |-> DidStatusOf(who)]
institutionShown == [who \in Accounts |-> InstitutionStatusOf(who)]
certificateShown == [hash \in Hashes |-> CertificateOf(hash)]

\* What the ledger shows of the DIDs changes as in Ledger.
LEMMA DocumentShown ==
  ASSUME CredentialInv, NEW who \in Accounts, DocumentUpdate(who)
  PROVE  \/ didShown' = didShown
         \/ didShown[who] = "none"
              /\ didShown' = [didShown EXCEPT ![who] = "active"]
         \/ /\ didShown[who] # "none"
            /\ \E status \in {"active", "inactive"} :
                 didShown' = [didShown EXCEPT ![who] = status]
<1>1. PICK doc \in DidDocument :
        /\ DidDocuments' = [DidDocuments EXCEPT ![who] = doc]
        /\ SoundDocument(who, doc)
  BY DEF DocumentUpdate
<1>2. \A a \in Accounts :
        DidDocuments'[a] = IF a = who THEN doc ELSE DidDocuments[a]
  BY <1>1 DEF CredentialInv, DidInv, DidTypeOK
<1> DEFINE status == IF doc.active THEN "active" ELSE "inactive"
<1>3. didShown' = [didShown EXCEPT ![who] = status]
  BY <1>2, NoneAssumption DEF didShown, DidStatusOf, HasDid
<1>4. /\ didShown[who] = "none" <=> ~HasDid(who)
      /\ HasDid(who) \/ doc.active
  BY <1>1 DEF didShown, DidStatusOf, SoundDocument
<1>5. QED
  BY <1>3, <1>4

\* What the ledger shows of the institutions changes as in Ledger.
LEMMA InstitutionShown ==
  ASSUME CredentialInv, NEW who \in Accounts, InstitutionUpdate(who)
  PROVE  /\ didShown[who] # "none"
         /\ \/ institutionShown[who] = "none"
                 /\ institutionShown' =
                      [institutionShown EXCEPT ![who] = "pending"]
            \/ /\ institutionShown[who] # "none"
               /\ \E status \in {"pending", "verified"} :
                    institutionShown' =
                      [institutionShown EXCEPT ![who] = status]
<1>1. PICK institution \in Institution :
        /\ Institutions' = [Institutions EXCEPT ![who] = institution]
        /\ SoundInstitution(who, institution)
  BY DEF InstitutionUpdate
<1>2. \A a \in Accounts :
        Institutions'[a] = IF a = who THEN institution ELSE Institutions[a]
  BY <1>1 DEF CredentialInv, DidInv, DidTypeOK
<1> DEFINE status == IF institution.verified THEN "verified" ELSE "pending"
<1>3. institutionShown' = [institutionShown EXCEPT ![who] = status]
  BY <1>2, NoneAssumption
     DEF institutionShown, InstitutionStatusOf, IsInstitution
<1>4. /\ institutionShown[who] = "none" <=> ~IsInstitution(who)
      /\ IsInstitution(who) \/ institution.verified = FALSE
  BY <1>1 DEF institutionShown, InstitutionStatusOf, SoundInstitution
<1>5. didShown[who] # "none"
  BY DEF InstitutionUpdate, didShown, DidStatusOf
<1>6. QED
  BY <1>3, <1>4, <1>5

\* What the ledger shows of a document that is found: in a step, nothing of it
\* changes, or its issuer revokes it.
LEMMA FoundShown ==
  ASSUME CredentialInv, NEW hash \in Hashes, CounterLive,
         CredentialByHash[hash] # None
  PROVE  LET credential == Credentials[CredentialByHash[hash]]
         IN  /\ credential \in Credential
             /\ CertificateOf(hash) =
                  [issuer |-> credential.issuer, holder |-> credential.holder,
                   expires |-> credential.expires_at,
                   revoked |-> credential.status = "Revoked"]
             /\ CertificateOf(hash) \in L!Certificate
<1> DEFINE credential == Credentials[CredentialByHash[hash]]
<1>1. credential \in Credential
  BY CredentialFields
     DEF CredentialInv, CredentialTypeOK, IndexesExact, HashIndexExact
<1>2. /\ credential.issuer \in Accounts /\ credential.holder \in Accounts
      /\ credential.expires_at \in Nat \cup {None}
  BY <1>1 DEF Credential
<1> HIDE DEF credential
<1>3. CertificateOf(hash) =
        [issuer |-> credential.issuer, holder |-> credential.holder,
         expires |-> credential.expires_at,
         revoked |-> credential.status = "Revoked"]
  BY DEF CertificateOf, credential
<1>4. CertificateOf(hash) \in L!Certificate
  <2>1. PICK revoked \in BOOLEAN : revoked = (credential.status = "Revoked")
    OBVIOUS
  <2>2. QED
    BY <1>2, <1>3, <2>1 DEF L!Certificate
<1>5. QED
  BY <1>1, <1>3, <1>4 DEF credential

\* An amendment shows as a revocation by the issuer, or not at all.
LEMMA AmendmentShown ==
  ASSUME CredentialInv, CounterLive, NEW id \in CredentialIds, Amendment(id)
  PROVE  \/ certificateShown' = certificateShown
         \/ \E issuer \in Accounts, hash \in Hashes :
              /\ certificateShown[hash] # None
              /\ certificateShown[hash].issuer = issuer
              /\ ~certificateShown[hash].revoked
              /\ certificateShown' =
                   [certificateShown EXCEPT ![hash].revoked = TRUE]
<1> DEFINE old == Credentials[id]
           new == Credentials'[id]
           hash == old.credential_hash
<1>1. /\ Exists(id) /\ CredentialByHash' = CredentialByHash
      /\ CredentialTypeOK
  BY DEF Amendment, indexVars, CredentialInv
<1>2. /\ old \in Credential /\ new \in Credential
      /\ SoundAmendment(old, new)
      /\ \A i \in CredentialIds : i # id => Credentials'[i] = Credentials[i]
  BY <1>1, CredentialFields, AmendmentStores
<1>3. /\ hash \in Hashes /\ CredentialByHash[hash] = id
      /\ \A h \in Hashes : CredentialByHash[h] = id => h = hash
      /\ \A h \in Hashes : CredentialByHash[h] \in CredentialIds \cup {None}
      /\ id # None
  BY <1>1, <1>2, NoCredentialAssumption
     DEF Credential, CredentialInv, CredentialTypeOK, IndexesExact,
         HashIndexExact
<1>4. /\ new.issuer = old.issuer /\ new.holder = old.holder
      /\ new.expires_at = old.expires_at
  BY <1>2, AmendmentKeeps
<1>5. \A h \in Hashes : h # hash => CertificateOf(h)' = CertificateOf(h)
  BY <1>1, <1>2, <1>3 DEF CertificateOf
<1> DEFINE Shown(credential) ==
             [issuer |-> credential.issuer, holder |-> credential.holder,
              expires |-> credential.expires_at,
              revoked |-> credential.status = "Revoked"]
<1>6. /\ CertificateOf(hash) = Shown(old)
      /\ CertificateOf(hash) \in L!Certificate
  BY <1>3, FoundShown
<1>7. ASSUME NEW h \in Hashes, h = hash
      PROVE  CertificateOf(h)' = Shown(new)
  BY <1>1, <1>3, <1>7 DEF CertificateOf
<1> HIDE DEF old, new, hash
<1>8. CASE new.status = old.status
  <2>1. Shown(new) = Shown(old)
    BY <1>4, <1>8
  <2>2. \A h \in Hashes : CertificateOf(h)' = CertificateOf(h)
    BY <1>5, <1>6, <1>7, <2>1
  <2>3. QED
    BY <2>2 DEF certificateShown
<1>9. CASE new.status = "Revoked"
  <2>1. /\ old.status # "Revoked"
        /\ old.issuer \in Accounts
    BY <1>2 DEF SoundAmendment, Credential
  <2>2. Shown(new) = [Shown(old) EXCEPT !.revoked = TRUE]
    <3>1. (new.status = "Revoked") = TRUE
      BY <1>9
    <3>2. Shown(new) =
            [issuer |-> old.issuer, holder |-> old.holder,
             expires |-> old.expires_at, revoked |-> TRUE]
      BY <1>4, <3>1
    <3>3. [Shown(old) EXCEPT !.revoked = TRUE] =
            [issuer |-> old.issuer, holder |-> old.holder,
             expires |-> old.expires_at, revoked |-> TRUE]
      <4>1. PICK flag \in BOOLEAN : flag = (old.status = "Revoked")
        OBVIOUS
      <4>2. Shown(old) =
              [issuer |-> old.issuer, holder |-> old.holder,
               expires |-> old.expires_at, revoked |-> flag]
        BY <4>1
      <4>3. PICK yes \in BOOLEAN : yes = TRUE
        OBVIOUS
      <4>4. [[issuer |-> old.issuer, holder |-> old.holder,
              expires |-> old.expires_at, revoked |-> flag]
               EXCEPT !.revoked = yes]
              = [issuer |-> old.issuer, holder |-> old.holder,
                 expires |-> old.expires_at, revoked |-> yes]
        OBVIOUS
      <4> HIDE DEF Shown
      <4>5. QED
        BY <4>2, <4>3, <4>4
    <3>4. QED
      BY <3>2, <3>3
  <2>3. Shown(old).issuer = old.issuer /\ ~Shown(old).revoked
    BY <2>1
  <2> HIDE DEF Shown
  <2>4. certificateShown[hash] = Shown(old) /\ Shown(old) # None
    BY <1>3, <1>6, CertificateAssumption DEF certificateShown
  <2>5. certificateShown' =
          [certificateShown EXCEPT ![hash] =
             [Shown(old) EXCEPT !.revoked = TRUE]]
    BY <1>3, <1>5, <1>7, <2>2 DEF certificateShown
  <2>6. certificateShown' = [certificateShown EXCEPT ![hash].revoked = TRUE]
    BY <2>4, <2>5
  <2>7. QED
    BY <1>3, <2>1, <2>3, <2>4, <2>6
<1>10. QED
  BY <1>2, <1>8, <1>9 DEF SoundAmendment

\* Issuing shows as a new certificate for a document that had none.
LEMMA IssuanceShown ==
  ASSUME CredentialInv, CounterLive', NEW issuer \in Accounts,
         NEW holder \in Accounts, NEW hash \in Hashes,
         NEW type \in CredentialTypes, NEW metadata \in Metadata,
         NEW expires \in Expiries,
         IssueCredential(issuer, holder, hash, type, metadata, expires)
  PROVE  /\ institutionShown[issuer] = "verified"
         /\ didShown[issuer] = "active" /\ didShown[holder] = "active"
         /\ certificateShown[hash] = None
         /\ certificateShown' = [certificateShown EXCEPT ![hash] =
              [issuer |-> issuer, holder |-> holder, expires |-> expires,
               revoked |-> FALSE]]
         /\ UNCHANGED <<now, didShown, institutionShown>>
<1> DEFINE id == CredentialId(NextCredentialId, issuer, holder)
           credential == Issued(issuer, holder, hash, type, metadata, expires)
<1>1. CredentialTypeOK
  BY DEF CredentialInv
<1>2. /\ id \in CredentialIds /\ id[1] = NextCredentialId
      /\ credential \in Credential
      /\ IsInstitution(issuer) /\ Institutions[issuer].verified
      /\ HasDid(issuer) /\ DidDocuments[issuer].active
      /\ HasDid(holder) /\ DidDocuments[holder].active
      /\ CredentialByHash[hash] = None
      /\ NextCredentialId' = CounterAfter(NextCredentialId)
      /\ Credentials' = [Credentials EXCEPT ![id] = credential]
      /\ CredentialByHash' = [CredentialByHash EXCEPT ![hash] = id]
      /\ UNCHANGED <<now, didVars>>
  BY <1>1, IssuanceStores
<1>3. /\ credential.issuer = issuer /\ credential.holder = holder
      /\ credential.expires_at = expires /\ credential.status = "Active"
  BY DEF Issued
<1> HIDE DEF id, credential
<1>4. CounterLive /\ ~Exists(id)
  BY <1>2, IssuanceCounted
<1>5. /\ institutionShown[issuer] = "verified"
      /\ didShown[issuer] = "active" /\ didShown[holder] = "active"
  BY <1>2 DEF institutionShown, InstitutionStatusOf, didShown, DidStatusOf
<1>6. certificateShown[hash] = None
  BY <1>2 DEF certificateShown, CertificateOf
<1>7. UNCHANGED <<now, didShown, institutionShown>>
  BY <1>2 DEF didVars, didShown, DidStatusOf, HasDid, institutionShown,
              InstitutionStatusOf, IsInstitution
<1>8. /\ \A i \in CredentialIds :
           Credentials'[i] = IF i = id THEN credential ELSE Credentials[i]
      /\ \A h \in Hashes :
           CredentialByHash'[h] = IF h = hash THEN id ELSE CredentialByHash[h]
  BY <1>1, <1>2 DEF CredentialTypeOK
<1>9. ASSUME NEW h \in Hashes, h # hash
      PROVE  CertificateOf(h)' = CertificateOf(h)
  <2>1. CASE CredentialByHash[h] = None
    BY <1>8, <1>9, <2>1 DEF CertificateOf
  <2>2. CASE CredentialByHash[h] # None
    <3>1. Exists(CredentialByHash[h]) /\ CredentialByHash[h] \in CredentialIds
      BY <1>4, <2>2
         DEF CredentialInv, CredentialTypeOK, IndexesExact, HashIndexExact
    <3>2. CredentialByHash'[h] = CredentialByHash[h]
      BY <1>8, <1>9
    <3>3. Credentials'[CredentialByHash[h]] = Credentials[CredentialByHash[h]]
      BY <1>4, <1>8, <3>1
    <3>4. QED
      BY <3>2, <3>3 DEF CertificateOf
  <2>3. QED
    BY <2>1, <2>2
<1>10. ASSUME NEW h \in Hashes, h = hash
       PROVE  CertificateOf(h)' =
                [issuer |-> issuer, holder |-> holder, expires |-> expires,
                 revoked |-> FALSE]
  <2>1. /\ CredentialByHash'[h] = id /\ id # None
        /\ Credentials'[id] = credential
    BY <1>2, <1>8, <1>10, NoCredentialAssumption
  <2>2. (credential.status = "Revoked") = FALSE
    BY <1>3
  <2>3. CertificateOf(h)' =
          [issuer |-> credential.issuer, holder |-> credential.holder,
           expires |-> credential.expires_at,
           revoked |-> credential.status = "Revoked"]
    BY <2>1 DEF CertificateOf
  <2>4. QED
    BY <1>3, <2>2, <2>3
<1>11. certificateShown' = [certificateShown EXCEPT ![hash] =
         [issuer |-> issuer, holder |-> holder, expires |-> expires,
          revoked |-> FALSE]]
  BY <1>9, <1>10 DEF certificateShown
<1>12. QED
  BY <1>5, <1>6, <1>7, <1>11

\* A step of the two pallets is a step of the ledger, or shows nothing.
LEMMA LedgerSimulation ==
  ASSUME CredentialInv, CounterLive, CounterLive', [CredentialNext]_chainVars
  PROVE  [L!LedgerNext]_(L!ledgerVars)
<1> USE DEF didShown, institutionShown, certificateShown
<1>1. ASSUME NEW who \in Accounts, DocumentUpdate(who),
             UNCHANGED credentialVars
      PROVE  [L!LedgerNext]_(L!ledgerVars)
  <2>1. UNCHANGED <<now, institutionShown, certificateShown>>
    BY <1>1 DEF DocumentUpdate, credentialVars, indexVars, CertificateOf,
                InstitutionStatusOf, IsInstitution
  <2>2. CASE didShown' = didShown
    BY <2>1, <2>2 DEF L!ledgerVars
  <2>3. CASE /\ didShown[who] = "none"
             /\ didShown' = [didShown EXCEPT ![who] = "active"]
    <3>1. L!CreateDid(who)
      BY <2>1, <2>3 DEF L!CreateDid
    <3>2. QED
      BY <3>1 DEF L!LedgerNext
  <2>4. ASSUME NEW status \in {"active", "inactive"},
               didShown[who] # "none",
               didShown' = [didShown EXCEPT ![who] = status]
        PROVE  [L!LedgerNext]_(L!ledgerVars)
    <3>1. L!SetDidActive(who, status)
      BY <2>1, <2>4 DEF L!SetDidActive
    <3>2. QED
      BY <3>1 DEF L!LedgerNext
  <2>5. QED
    BY <1>1, <2>2, <2>3, <2>4, DocumentShown
<1>2. ASSUME NEW who \in Accounts, InstitutionUpdate(who),
             UNCHANGED credentialVars
      PROVE  [L!LedgerNext]_(L!ledgerVars)
  <2>1. UNCHANGED <<now, didShown, certificateShown>>
    BY <1>2 DEF InstitutionUpdate, credentialVars, indexVars, CertificateOf,
                DidStatusOf, HasDid
  <2>2. didShown[who] # "none"
    BY <1>2, InstitutionShown
  <2>3. CASE /\ institutionShown[who] = "none"
             /\ institutionShown' =
                  [institutionShown EXCEPT ![who] = "pending"]
    <3>1. L!RegisterInstitution(who)
      BY <2>1, <2>2, <2>3 DEF L!RegisterInstitution
    <3>2. QED
      BY <3>1 DEF L!LedgerNext
  <2>4. ASSUME NEW status \in {"pending", "verified"},
               institutionShown[who] # "none",
               institutionShown' = [institutionShown EXCEPT ![who] = status]
        PROVE  [L!LedgerNext]_(L!ledgerVars)
    <3>1. L!SetInstitution(who, status)
      BY <2>1, <2>4 DEF L!SetInstitution
    <3>2. QED
      BY <3>1 DEF L!LedgerNext
  <2>5. QED
    BY <1>2, <2>3, <2>4, InstitutionShown
<1>3. CASE ProduceBlock /\ UNCHANGED <<didVars, credentialVars>>
  <2>1. UNCHANGED <<didShown, institutionShown, certificateShown>>
    BY <1>3 DEF didVars, credentialVars, indexVars, CertificateOf,
                DidStatusOf, HasDid, InstitutionStatusOf, IsInstitution
  <2>2. L!NextBlock
    BY <1>3, <2>1 DEF ProduceBlock, L!NextBlock
  <2>3. QED
    BY <2>2 DEF L!LedgerNext
<1>4. ASSUME NEW issuer \in Accounts, Issuance(issuer)
      PROVE  [L!LedgerNext]_(L!ledgerVars)
  <2>1. PICK holder \in Accounts, hash \in Hashes, type \in CredentialTypes,
             metadata \in Metadata, expires \in Expiries :
          IssueCredential(issuer, holder, hash, type, metadata, expires)
    BY <1>4 DEF Issuance
  <2>2. L!IssueCredential(issuer, holder, hash, expires)
    BY <2>1, IssuanceShown DEF L!IssueCredential, L!Certified
  <2>3. expires \in 0..MaxBlock \cup {None}
    BY DEF Expiries
  <2>4. QED
    BY <2>2, <2>3 DEF L!LedgerNext
<1>5. ASSUME NEW id \in CredentialIds, Amendment(id)
      PROVE  [L!LedgerNext]_(L!ledgerVars)
  <2>1. UNCHANGED <<now, didShown, institutionShown>>
    BY <1>5 DEF Amendment, didVars, DidStatusOf, HasDid, InstitutionStatusOf,
                IsInstitution
  <2>2. CASE certificateShown' = certificateShown
    BY <2>1, <2>2 DEF L!ledgerVars
  <2>3. ASSUME NEW issuer \in Accounts, NEW hash \in Hashes,
               certificateShown[hash] # None,
               certificateShown[hash].issuer = issuer,
               ~certificateShown[hash].revoked,
               certificateShown' =
                 [certificateShown EXCEPT ![hash].revoked = TRUE]
        PROVE  [L!LedgerNext]_(L!ledgerVars)
    <3>1. L!RevokeCredential(issuer, hash)
      BY <2>1, <2>3 DEF L!RevokeCredential, L!Certified
    <3>2. QED
      BY <3>1 DEF L!LedgerNext
  <2>4. QED
    BY <1>5, <2>2, <2>3, AmendmentShown
<1>6. CASE Untouched \/ UNCHANGED chainVars
  BY <1>6 DEF Untouched, chainVars, frameVars, didVars, credentialVars,
              indexVars, CertificateOf, DidStatusOf, HasDid,
              InstitutionStatusOf, IsInstitution, L!ledgerVars
<1>7. QED
  BY <1>1, <1>2, <1>3, <1>4, <1>5, <1>6, CredentialSteps, DidSteps
     DEF CredentialInv

\* The empty chain shows the empty ledger.
LEMMA LedgerShownInitially ==
  ASSUME CredentialGenesis
  PROVE  L!LedgerInit
BY DEF CredentialGenesis, DidGenesis, FrameInit, DidInit, CredentialInit,
       L!LedgerInit, DidStatusOf, HasDid, InstitutionStatusOf, IsInstitution,
       CertificateOf

\* As long as the counter of ids does not saturate, the did and the
\* credential pallet together implement the ledger that the frontend reads.
THEOREM RefinementCorrect ==
  CredentialSpec /\ []CounterLive => LedgerRefined
<1>1. CredentialGenesis => L!LedgerInit
  BY LedgerShownInitially
<1>2. CredentialInv /\ CounterLive /\ CounterLive' /\
        [CredentialNext]_chainVars => [L!LedgerNext]_(L!ledgerVars)
  BY LedgerSimulation
<1>3. QED
  BY <1>1, <1>2, CredentialInvariance, PTL
     DEF CredentialSpec, LedgerRefined, L!LedgerSpec
=============================================================================
