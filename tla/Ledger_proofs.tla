--------------------------- MODULE Ledger_proofs ----------------------------
(***************************************************************************)
(* What the readers of the ledger count on: nothing that they have read of *)
(* a DID, an institution or a certificate is ever taken back.              *)
(***************************************************************************)
EXTENDS RealQueries, TLAPS

\* What a step may do: give a DID, make an institution, certify a document,
\* revoke a certificate.
LedgerGrows ==
  /\ \A who \in Accounts :
       /\ did[who] # "none" => did'[who] # "none"
       /\ institution[who] # "none" => institution'[who] # "none"
  /\ \A hash \in Hashes : Certified(hash) =>
       /\ certificate'[hash] # None
       /\ certificate'[hash].issuer = certificate[hash].issuer
       /\ certificate'[hash].holder = certificate[hash].holder
       /\ certificate'[hash].expires = certificate[hash].expires
       /\ certificate[hash].revoked => certificate'[hash].revoked

\* The empty ledger is of its type.
LEMMA LedgerTypedInitially == LedgerInit => LedgerTypeOK
BY DEF LedgerInit, LedgerTypeOK, DidStatus, InstitutionStatus

\* Calls about a DID or an institution take nothing back.
LEMMA AccountStep ==
  ASSUME LedgerTypeOK, NEW who \in Accounts,
         \/ CreateDid(who)
         \/ \E status \in {"active", "inactive"} : SetDidActive(who, status)
         \/ RegisterInstitution(who)
         \/ \E status \in {"pending", "verified"} : SetInstitution(who, status)
  PROVE  LedgerTypeOK' /\ LedgerGrows
<1> USE DEF LedgerTypeOK, LedgerGrows, Certified
<1>1. CASE CreateDid(who)
  BY <1>1 DEF CreateDid, DidStatus
<1>2. ASSUME NEW status \in {"active", "inactive"}, SetDidActive(who, status)
      PROVE  LedgerTypeOK' /\ LedgerGrows
  BY <1>2 DEF SetDidActive, DidStatus
<1>3. CASE RegisterInstitution(who)
  BY <1>3 DEF RegisterInstitution, InstitutionStatus
<1>4. ASSUME NEW status \in {"pending", "verified"},
             SetInstitution(who, status)
      PROVE  LedgerTypeOK' /\ LedgerGrows
  BY <1>4 DEF SetInstitution, InstitutionStatus
<1>5. QED
  BY <1>1, <1>2, <1>3, <1>4

\* A revocation changes one certificate, and of that one whether it is revoked.
LEMMA RevocationStep ==
  ASSUME LedgerTypeOK, NEW who \in Accounts, NEW hash \in Hashes,
         RevokeCredential(who, hash)
  PROVE  LedgerTypeOK' /\ LedgerGrows
<1> USE DEF LedgerTypeOK, LedgerGrows, Certified
<1>1. [certificate[hash] EXCEPT !.revoked = TRUE] \in Certificate
  BY DEF RevokeCredential, Certificate
<1>2. certificate' = [certificate EXCEPT ![hash] =
        [certificate[hash] EXCEPT !.revoked = TRUE]]
  BY DEF RevokeCredential
<1>3. certificate[hash] \in Certificate
  BY DEF RevokeCredential
<1>4. LedgerTypeOK'
  BY <1>1, <1>2 DEF RevokeCredential
<1>5. \A h \in Hashes : certificate'[h] =
        IF h = hash THEN [certificate[hash] EXCEPT !.revoked = TRUE]
                    ELSE certificate[h]
  BY <1>2
<1>6. /\ [certificate[hash] EXCEPT !.revoked = TRUE] # None
      /\ \A field \in {"issuer", "holder", "expires"} :
           [certificate[hash] EXCEPT !.revoked = TRUE][field]
             = certificate[hash][field]
      /\ [certificate[hash] EXCEPT !.revoked = TRUE].revoked = TRUE
  BY <1>1, <1>3, NoCertificateAssumption DEF Certificate
<1>7. LedgerGrows
  BY <1>5, <1>6 DEF RevokeCredential
<1>8. QED
  BY <1>4, <1>7

\* An issuance certifies a document that was not.
LEMMA IssuanceStep ==
  ASSUME LedgerTypeOK, NEW who \in Accounts, NEW hash \in Hashes,
         NEW holder \in Accounts, NEW expires \in Nat \cup {None},
         IssueCredential(who, holder, hash, expires)
  PROVE  LedgerTypeOK' /\ LedgerGrows /\ certificate'[hash] # None
<1> USE DEF LedgerTypeOK, LedgerGrows, Certified
<1>1. [issuer |-> who, holder |-> holder, expires |-> expires,
       revoked |-> FALSE] \in Certificate
  BY DEF Certificate
<1>2. QED
  BY <1>1, NoCertificateAssumption DEF IssueCredential

\* A step of the ledger takes nothing back.
LEMMA LedgerStep ==
  ASSUME LedgerTypeOK, LedgerNext \/ UNCHANGED ledgerVars
  PROVE  LedgerTypeOK' /\ LedgerGrows
<1>1. CASE UNCHANGED ledgerVars
  BY <1>1 DEF ledgerVars, LedgerTypeOK, LedgerGrows, Certified
<1>2. CASE NextBlock
  BY <1>2 DEF NextBlock, LedgerTypeOK, LedgerGrows, Certified
<1>3. ASSUME NEW who \in Accounts, NEW hash \in Hashes,
             NEW holder \in Accounts, NEW expires \in 0..MaxBlock \cup {None},
             IssueCredential(who, holder, hash, expires)
      PROVE  LedgerTypeOK' /\ LedgerGrows
  <2>1. expires \in Nat \cup {None}
    BY LedgerAssumption
  <2>2. QED
    BY <1>3, <2>1, IssuanceStep
<1>4. QED
  BY <1>1, <1>2, <1>3, AccountStep, RevocationStep DEF LedgerNext
-----------------------------------------------------------------------------
\* A credential as a page got it from the chain is still what the chain says
\* of it, except that it may have been revoked since.
SaidByChain(credential) ==
  /\ credential \in FormattedCredential
  /\ Certified(credential.hash)
  /\ certificate[credential.hash].issuer = credential.issuer
  /\ certificate[credential.hash].holder = credential.holder
  /\ credential.revoked => certificate[credential.hash].revoked

\* What the chain said stays true.
LEMMA SaidStays ==
  ASSUME LedgerGrows, NEW credential, SaidByChain(credential)
  PROVE  SaidByChain(credential)'
BY DEF SaidByChain, FormattedCredential, LedgerGrows, Certified

\* What a formatted credential says is what the chain says now.
LEMMA FormattedSaid ==
  ASSUME LedgerTypeOK, NEW hash \in Hashes, Certified(hash)
  PROVE  /\ SaidByChain(FormatCredentialData(hash))
         /\ FormatCredentialData(hash).revoked = certificate[hash].revoked
<1>1. certificate[hash] \in Certificate
  BY DEF LedgerTypeOK, Certified
<1>2. NormalizeTimestamp(certificate[hash].expires) \in Nat \cup {None}
  BY <1>1 DEF NormalizeTimestamp, Certificate
<1>3. QED
  BY <1>1, <1>2
     DEF FormatCredentialData, SaidByChain, FormattedCredential, Certificate
=============================================================================
