-------------------------- MODULE LedgerRefinement --------------------------
(***************************************************************************)
(* The did and the credential pallet implement Ledger: keys, names, ids,   *)
(* metadata and the indexes by holder and by issuer are hidden, and so are *)
(* the numbers of the blocks in which things were stored.                  *)
(***************************************************************************)
EXTENDS CredentialPallet

DidStatusOf(who) ==
  IF ~HasDid(who) THEN "none"
  ELSE IF DidDocuments[who].active THEN "active" ELSE "inactive"

InstitutionStatusOf(who) ==
  IF ~IsInstitution(who) THEN "none"
  ELSE IF Institutions[who].verified THEN "verified" ELSE "pending"

CertificateOf(hash) ==
  IF CredentialByHash[hash] = None THEN None
  ELSE LET credential == Credentials[CredentialByHash[hash]]
       IN  [issuer |-> credential.issuer, holder |-> credential.holder,
            expires |-> credential.expires_at,
            revoked |-> credential.status = "Revoked"]

L == INSTANCE Ledger
       WITH block <- now,
            did <- [who \in Accounts |-> DidStatusOf(who)],
            institution <- [who \in Accounts |-> InstitutionStatusOf(who)],
            certificate <- [hash \in Hashes |-> CertificateOf(hash)]

ASSUME CertificateAssumption == None \notin L!Certificate

\* Every behaviour of the two pallets is a behaviour of the ledger the
\* frontend reads: a DID is never lost, a hash is certified at most once and
\* by a verified institution with an active DID for a holder with one, and
\* what happens to it later is that its issuer revokes it.  (As long as the
\* counter that ids are made from does not saturate.)
LedgerRefined == L!LedgerSpec
=============================================================================
