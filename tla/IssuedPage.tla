----------------------------- MODULE IssuedPage -----------------------------
(***************************************************************************)
(* pages/IssuedCredentials.tsx: the list of what an institution issued,    *)
(* fetched from the chain when the page opens, when the DID of the session *)
(* changes and on demand, and revocation from the list or from a dialog    *)
(* that keeps a copy of the credential it was opened for.                  *)
(***************************************************************************)
EXTENDS Extrinsics

CONSTANT Fetches   \* bound: names of the fetches under way at one time

VARIABLES
  issued,         \* credentials: what the page knows of each one
  loading,
  refreshing,
  issuedFetches,  \* fetch => None, or where it stands
  issuedFor,      \* what the effect ran for last: readiness, DID, institution
  filterStatus,   \* all, active or revoked
  revoking,       \* the credential whose button is off
  selected        \* the credential in the dialog, or None

issuedVars == <<issued, loading, refreshing, issuedFetches, issuedFor,
                filterStatus, revoking, selected>>
-----------------------------------------------------------------------------
IssuedFresh ==
  /\ issued = {}
  /\ loading = TRUE
  /\ refreshing = FALSE
  /\ issuedFetches = [fetch \in Fetches |-> None]
  /\ issuedFor = None
  /\ filterStatus = "all"
  /\ revoking = None
  /\ selected = None

\* The page is left.
LeaveIssued ==
  /\ issued' = {}
  /\ loading' = TRUE
  /\ refreshing' = FALSE
  /\ issuedFetches' = [fetch \in Fetches |-> None]
  /\ issuedFor' = None
  /\ filterStatus' = "all"
  /\ revoking' = None
  /\ selected' = None

\* An entry of the list, made from a credential of the chain.
Formatted(credential) ==
  [hash |-> credential.hash, holder |-> credential.holder,
   status |-> IF credential.revoked THEN "revoked" ELSE "active"]

IssuedEntry ==
  [hash : Hashes, holder : Accounts, status : {"active", "revoked"}]

\* fetchIssuedCredentials up to its await.
StartIssuedFetch(refresh) ==
  \E fetch \in {f \in Fetches : issuedFetches[f] = None} :
    issuedFetches' = [issuedFetches EXCEPT ![fetch] =
      [phase |-> "asked", did |-> didStore.did, answer |-> {},
       refresh |-> refresh]]

\* The effect: it runs after a change of isInstitution, isReady or didAddress.
\* (A session that is no institution's is sent to /institution.)
IssuedDependencies == <<IsInstitution, isReady, didStore.did>>

IssuedEffect ==
  /\ IsInstitution
  /\ issuedFor # IssuedDependencies
  /\ issuedFor' = IssuedDependencies
  /\ \/ /\ isReady /\ HasDid
        /\ StartIssuedFetch(FALSE)
        /\ loading' = TRUE
     \/ /\ ~(isReady /\ HasDid)
        /\ UNCHANGED <<issuedFetches, loading>>
  /\ UNCHANGED <<issued, refreshing, filterStatus, revoking, selected>>

\* The page is on the screen with its controls.
IssuedShown == IsInstitution /\ isReady

RefreshIssued ==
  /\ IssuedShown /\ HasDid
  /\ ~refreshing /\ ~loading
  /\ StartIssuedFetch(TRUE)
  /\ refreshing' = TRUE
  /\ loading' = TRUE
  /\ UNCHANGED <<issued, issuedFor, filterStatus, revoking, selected>>

\* getCredentialsByIssuer reads the chain.
IssuedRead(fetch) ==
  /\ issuedFetches[fetch] # None /\ issuedFetches[fetch].phase = "asked"
  /\ \E answer \in
          IF issuedFetches[fetch].did \in Accounts
          THEN CredentialsByIssuerAnswers(issuedFetches[fetch].did)
          ELSE {{}} :
       issuedFetches' = [issuedFetches EXCEPT
         ![fetch].phase = "read",
         ![fetch].answer = {Formatted(credential) : credential \in answer}]
  /\ UNCHANGED <<issued, loading, refreshing, issuedFor, filterStatus,
                 revoking, selected>>

\* The list is replaced by what was read, however long ago.
IssuedFetched(fetch) ==
  /\ issuedFetches[fetch] # None /\ issuedFetches[fetch].phase = "read"
  /\ issued' = issuedFetches[fetch].answer
  /\ loading' = FALSE
  /\ refreshing' = (refreshing /\ ~issuedFetches[fetch].refresh)
  /\ issuedFetches' = [issuedFetches EXCEPT ![fetch] = None]
  /\ UNCHANGED <<issuedFor, filterStatus, revoking, selected>>
-----------------------------------------------------------------------------
\* The list is there when nothing is being loaded.
FilteredCredentials ==
  {entry \in issued : filterStatus \in {"all", entry.status}}

Listed == IF loading THEN {} ELSE FilteredCredentials

SelectFilter(status) ==
  /\ IssuedShown
  /\ filterStatus # status
  /\ filterStatus' = status
  /\ UNCHANGED <<issued, loading, refreshing, issuedFetches, issuedFor,
                 revoking, selected>>

OpenDetails(entry) ==
  /\ IssuedShown
  /\ entry \in Listed
  /\ selected = None
  /\ selected' = entry
  /\ UNCHANGED <<issued, loading, refreshing, issuedFetches, issuedFor,
                 filterStatus, revoking>>

CloseDetails ==
  /\ IssuedShown
  /\ selected # None
  /\ selected' = None
  /\ UNCHANGED <<issued, loading, refreshing, issuedFetches, issuedFor,
                 filterStatus, revoking>>

\* handleRevoke after the question is answered.
HandleRevoke(hash, slot) ==
  /\ account # None
  /\ revoking' = hash
  /\ Send(slot, [name |-> "revokeCredential", by |-> account, hash |-> hash],
          "issued")

RevokeListed(entry, slot) ==
  /\ IssuedShown
  /\ selected = None
  /\ entry \in Listed
  /\ entry.status = "active"
  /\ revoking # entry.hash
  /\ HandleRevoke(entry.hash, slot)
  /\ UNCHANGED <<issued, loading, refreshing, issuedFetches, issuedFor,
                 filterStatus, selected>>

\* The dialog's button asks its copy for the status, and is never off.
RevokeSelected(slot) ==
  /\ IssuedShown
  /\ selected # None
  /\ selected.status = "active"
  /\ HandleRevoke(selected.hash, slot)
  /\ selected' = None
  /\ UNCHANGED <<issued, loading, refreshing, issuedFetches, issuedFor,
                 filterStatus>>

MarkedRevoked(hash) ==
  {IF entry.hash = hash THEN [entry EXCEPT !.status = "revoked"] ELSE entry :
     entry \in issued}

RevokeSucceeds(slot) ==
  /\ Awaits("issued", slot) /\ Finalized(slot)
  /\ issued' = MarkedRevoked(extrinsics[slot].call.hash)
  /\ revoking' = None
  /\ UNCHANGED <<loading, refreshing, issuedFetches, issuedFor,
                 filterStatus, selected>>

\* Faulty: the list is changed whatever the result is.
RevokeFailsMarked(slot) ==
  /\ Awaits("issued", slot) /\ Fails(slot)
  /\ issued' = MarkedRevoked(extrinsics[slot].call.hash)
  /\ revoking' = None
  /\ UNCHANGED <<loading, refreshing, issuedFetches, issuedFor,
                 filterStatus, selected>>

RevokeFails(slot) ==
  /\ Awaits("issued", slot) /\ Fails(slot)
  /\ revoking' = None
  /\ UNCHANGED <<issued, loading, refreshing, issuedFetches, issuedFor,
                 filterStatus, selected>>
-----------------------------------------------------------------------------
IssuedPageNext ==
  \/ /\ \/ IssuedEffect \/ RefreshIssued \/ CloseDetails
        \/ \E fetch \in Fetches : IssuedRead(fetch) \/ IssuedFetched(fetch)
        \/ \E status \in {"all", "active", "revoked"} : SelectFilter(status)
        \/ \E entry \in issued : OpenDetails(entry)
     /\ UNCHANGED extrinsics
  \/ \E slot \in Slots :
       \/ \E entry \in issued : RevokeListed(entry, slot)
       \/ RevokeSelected(slot) \/ RevokeSucceeds(slot) \/ RevokeFails(slot)

IssuedNext == IssuedPageNext /\ UNCHANGED <<ledgerVars, storeVars>>
-----------------------------------------------------------------------------
IssuedTypeOK ==
  /\ issued \subseteq IssuedEntry
  /\ loading \in BOOLEAN /\ refreshing \in BOOLEAN
  /\ issuedFetches \in
       [Fetches -> [phase : {"asked", "read"}, did : Addresses,
                    answer : SUBSET IssuedEntry, refresh : BOOLEAN]
                   \cup {None}]
  /\ revoking \in Hashes \cup {None}
  /\ selected \in IssuedEntry \cup {None}

\* A credential the page shows as revoked is revoked on chain, whatever
\* revocations fail, are discarded or overtake a fetch ("This action cannot
\* be undone"); and every credential shown is one the chain knows.
RevokedShownIsRevoked ==
  \A entry \in issued \cup ({selected} \ {None}) :
    /\ Certified(entry.hash)
    /\ certificate[entry.hash].holder = entry.holder
    /\ entry.status = "revoked" => certificate[entry.hash].revoked
=============================================================================
