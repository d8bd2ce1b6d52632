---------------------------- MODULE RealQueries -----------------------------
(***************************************************************************)
(* lib/blockchain/realQueries.ts and integration.ts: what the pages of the *)
(* frontend get when they read the ledger.  Each query catches its errors  *)
(* and answers with nothing, so that a page cannot tell a failed query     *)
(* from an absent entry; each operator is the set of answers a query may   *)
(* give at this moment.                                                    *)
(***************************************************************************)
EXTENDS Ledger

CONSTANT Year2000Unix   \* the timestamp from which a number is a time

ASSUME Year2000Assumption == Year2000Unix \in Nat
-----------------------------------------------------------------------------
\* null for an absent entry and for an error.
DidAnswers(who) ==
  {None} \cup {status \in {did[who]} : status # "none"}

InstitutionAnswers(who) ==
  {None} \cup {status \in {institution[who]} : status # "none"}

\* A number below Year2000Unix is taken for a block number and dropped.
\* (Seconds and milliseconds are one unit here.)
NormalizeTimestamp(timestamp) ==
  IF timestamp = None THEN None
  ELSE IF timestamp < Year2000Unix THEN None
  ELSE timestamp

\* Faulty: the status is not read.
FormatCredentialDataActive(hash) ==
  [hash |-> hash, holder |-> certificate[hash].holder,
   issuer |-> certificate[hash].issuer,
   expiresAt |-> NormalizeTimestamp(certificate[hash].expires),
   revoked |-> FALSE]

FormatCredentialData(hash) ==
  [hash |-> hash, holder |-> certificate[hash].holder,
   issuer |-> certificate[hash].issuer,
   expiresAt |-> NormalizeTimestamp(certificate[hash].expires),
   revoked |-> certificate[hash].revoked]

FormattedCredential ==
  [hash : Hashes, holder : Accounts, issuer : Accounts,
   expiresAt : Nat \cup {None}, revoked : BOOLEAN]

\* The index by hash, then the credential it leads to.
CredentialAnswers(hash) ==
  {None} \cup {FormatCredentialData(h) : h \in {g \in {hash} : Certified(g)}}

\* The references of a holder, or the ids of an issuer, each looked up by a
\* query of its own: those whose query fails are left out.
CredentialsByHolderAnswers(who) ==
  SUBSET {FormatCredentialData(hash) :
            hash \in {h \in Hashes :
                        Certified(h) /\ certificate[h].holder = who}}

CredentialsByIssuerAnswers(who) ==
  SUBSET {FormatCredentialData(hash) :
            hash \in {h \in Hashes :
                        Certified(h) /\ certificate[h].issuer = who}}
=============================================================================
