------------------------------- MODULE Ledger -------------------------------
(***************************************************************************)
(* The chain as its readers know it: who has a DID, who is an institution, *)
(* and which document is certified by whom for whom.  LedgerRefinement     *)
(* shows that the did and the credential pallet implement this module; the *)
(* modules of the frontend read and write it.                              *)
(***************************************************************************)
EXTENDS Naturals

CONSTANTS
  Accounts,   \* the accounts of the chain
  Hashes,     \* hashes of documents
  None,       \* nothing is stored
  MaxBlock    \* bound: the last block of a run

ASSUME LedgerAssumption == MaxBlock \in Nat /\ None \notin Accounts

VARIABLES
  block,         \* the number of the block being produced
  did,           \* account => whether it has a DID, and whether it is active
  institution,   \* account => whether it is an institution, and verified
  certificate    \* document hash => None or the credential found under it

ledgerVars == <<block, did, institution, certificate>>
-----------------------------------------------------------------------------
DidStatus == {"none", "active", "inactive"}
InstitutionStatus == {"none", "pending", "verified"}
Certificate ==
  [issuer : Accounts, holder : Accounts, expires : Nat \cup {None},
   revoked : BOOLEAN]

ASSUME NoCertificateAssumption == None \notin Certificate

LedgerInit ==
  /\ block = 0
  /\ did = [who \in Accounts |-> "none"]
  /\ institution = [who \in Accounts |-> "none"]
  /\ certificate = [hash \in Hashes |-> None]

Certified(hash) == certificate[hash] # None

\* verify_credential: the verdict of the chain on a document.
VerdictOnChain(hash) ==
  IF ~Certified(hash) THEN "absent"
  ELSE IF certificate[hash].revoked THEN "revoked"
  ELSE IF certificate[hash].expires # None
          /\ block > certificate[hash].expires
       THEN "expired"
  ELSE "valid"
-----------------------------------------------------------------------------
CreateDid(who) ==
  /\ did[who] = "none"
  /\ did' = [did EXCEPT ![who] = "active"]
  /\ UNCHANGED <<block, institution, certificate>>

SetDidActive(who, status) ==
  /\ did[who] # "none"
  /\ did' = [did EXCEPT ![who] = status]
  /\ UNCHANGED <<block, institution, certificate>>

RegisterInstitution(who) ==
  /\ did[who] # "none"
  /\ institution[who] = "none"
  /\ institution' = [institution EXCEPT ![who] = "pending"]
  /\ UNCHANGED <<block, did, certificate>>

\* By root only.
SetInstitution(who, status) ==
  /\ institution[who] # "none"
  /\ institution' = [institution EXCEPT ![who] = status]
  /\ UNCHANGED <<block, did, certificate>>

IssueCredential(issuer, holder, hash, expires) ==
  /\ institution[issuer] = "verified"
  /\ did[issuer] = "active"
  /\ did[holder] = "active"
  /\ ~Certified(hash)
  /\ certificate' = [certificate EXCEPT ![hash] =
       [issuer |-> issuer, holder |-> holder, expires |-> expires,
        revoked |-> FALSE]]
  /\ UNCHANGED <<block, did, institution>>

\* By the issuer only.
RevokeCredential(issuer, hash) ==
  /\ Certified(hash)
  /\ certificate[hash].issuer = issuer
  /\ ~certificate[hash].revoked
  /\ certificate' = [certificate EXCEPT ![hash].revoked = TRUE]
  /\ UNCHANGED <<block, did, institution>>

NextBlock ==
  /\ block < MaxBlock
  /\ block' = block + 1
  /\ UNCHANGED <<did, institution, certificate>>
-----------------------------------------------------------------------------
LedgerNext ==
  \/ NextBlock
  \/ \E who \in Accounts :
       \/ CreateDid(who)
       \/ \E status \in {"active", "inactive"} : SetDidActive(who, status)
       \/ RegisterInstitution(who)
       \/ \E status \in {"pending", "verified"} : SetInstitution(who, status)
       \/ \E hash \in Hashes :
            \/ RevokeCredential(who, hash)
            \/ \E holder \in Accounts, expires \in 0..MaxBlock \cup {None} :
                 IssueCredential(who, holder, hash, expires)

LedgerSpec == LedgerInit /\ [][LedgerNext]_ledgerVars
-----------------------------------------------------------------------------
\* The types of the ledger.
LedgerTypeOK ==
  /\ block \in Nat
  /\ did \in [Accounts -> DidStatus]
  /\ institution \in [Accounts -> InstitutionStatus]
  /\ certificate \in [Hashes -> Certificate \cup {None}]
=============================================================================
