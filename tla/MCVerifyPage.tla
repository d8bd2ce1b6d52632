---------------------------- MODULE MCVerifyPage ----------------------------
(***************************************************************************)
(* The verification page while credentials are issued, revoked and expire. *)
(* The ledger starts with DIDs for all and one verified institution.       *)
(***************************************************************************)
EXTENDS VerifyPage

CONSTANTS issuer, holder, Expiries

MCLedgerInit ==
  /\ block = 0
  /\ did = [who \in Accounts |-> "active"]
  /\ institution = [who \in Accounts |->
                      IF who = issuer THEN "verified" ELSE "none"]
  /\ certificate = [hash \in Hashes |-> None]

MCLedgerNext ==
  \/ NextBlock
  \/ \E hash \in Hashes :
       \/ \E expires \in Expiries :
            IssueCredential(issuer, holder, hash, expires)
       \/ RevokeCredential(issuer, hash)

MCVerifyInit == MCLedgerInit /\ VerifyInit

MCVerifyNext ==
  \/ MCLedgerNext /\ UNCHANGED verifyVars
  \/ VerifyNext /\ UNCHANGED ledgerVars

MCVerifySpec == MCVerifyInit /\ [][MCVerifyNext]_<<ledgerVars, verifyVars>>

\* A file that is opened is read, and a query that is asked is answered or
\* fails: the provider rejects the requests under way when its socket closes.
FairVerifySpec ==
  MCVerifySpec
    /\ \A l \in Lookups :
         WF_<<ledgerVars, verifyVars>>(LookupGoesOn(l) /\ UNCHANGED ledgerVars)
=============================================================================
