-------------------------- MODULE CredentialsPage ---------------------------
(***************************************************************************)
(* pages/Credentials.tsx and CredentialsList.tsx: the credentials issued   *)
(* to the DID of the session, with a status each.  The list lives in a     *)
(* store (credentials.store.ts), so that it outlives the page and the      *)
(* session; what it is searched and sorted by is left out.  What a fetch   *)
(* began with is kept beside the list that it brings: listSource is a      *)
(* history variable, which no action asks for.                             *)
(***************************************************************************)
EXTENDS Extrinsics

CONSTANTS
  ListFetches,   \* bound: names of the fetches under way at one time
  Now            \* Date.now(), in the unit of Year2000Unix

ASSUME NowAssumption == Now \in Nat

VARIABLES
  credentials,      \* the store: what was fetched last
  listLoading,      \* the store: a spinner in place of the list
  listRefreshing,
  listFetches,      \* fetch => None, or where it stands
  listFor,          \* what the effect ran for last
  statusFilter,     \* all, active, revoked or expired
  listSource        \* history: the fetch that the list in the store is from

credentialsStoreVars == <<credentials, listLoading>>
listVars == <<credentialsStoreVars, listRefreshing, listFetches, listFor,
              statusFilter, listSource>>
-----------------------------------------------------------------------------
CredentialsFresh ==
  /\ credentials = {}
  /\ listLoading = FALSE
  /\ listRefreshing = FALSE
  /\ listFetches = [fetch \in ListFetches |-> None]
  /\ listFor = None
  /\ statusFilter = "all"
  /\ listSource = None

\* The page is left; the store stays, and so do the fetches that write to it.
LeaveCredentials ==
  /\ listRefreshing' = FALSE
  /\ listFor' = None
  /\ statusFilter' = "all"
  /\ listFetches' =
       [fetch \in ListFetches |->
          IF listFetches[fetch] = None THEN None
          ELSE [listFetches[fetch] EXCEPT !.refresh = FALSE]]
  /\ UNCHANGED <<credentialsStoreVars, listSource>>

RevokedOnChain ==
  {hash \in Hashes : Certified(hash) /\ certificate[hash].revoked}

\* fetchCredentials up to its await.
StartListFetch(refresh) ==
  /\ \E fetch \in {f \in ListFetches : listFetches[f] = None} :
       listFetches' = [listFetches EXCEPT ![fetch] =
         [phase |-> "asked", did |-> didStore.did, answer |-> {},
          refresh |-> refresh, revokedThen |-> RevokedOnChain]]
  /\ listLoading' = TRUE

ListDependencies == <<account # None, didStore.did, isReady>>

CredentialsEffect ==
  /\ listFor # ListDependencies
  /\ listFor' = ListDependencies
  /\ \/ account # None /\ HasDid /\ isReady /\ StartListFetch(FALSE)
     \/ /\ account = None \/ ~HasDid \/ ~isReady
        /\ UNCHANGED <<listFetches, listLoading>>
  /\ UNCHANGED <<credentials, listRefreshing, statusFilter, listSource>>

\* The three guards of the page.
CredentialsShown == account # None /\ HasDid /\ isReady

RefreshCredentials ==
  /\ CredentialsShown
  /\ ~listRefreshing /\ ~listLoading
  /\ StartListFetch(TRUE)
  /\ listRefreshing' = TRUE
  /\ UNCHANGED <<credentials, listFor, statusFilter, listSource>>

ListRead(fetch) ==
  /\ listFetches[fetch] # None /\ listFetches[fetch].phase = "asked"
  /\ \E answer \in
          IF listFetches[fetch].did \in Accounts
          THEN CredentialsByHolderAnswers(listFetches[fetch].did)
          ELSE {{}} :
       listFetches' = [listFetches EXCEPT ![fetch].phase = "read",
                                          ![fetch].answer = answer]
  /\ UNCHANGED <<credentials, listLoading, listRefreshing, listFor,
                 statusFilter, listSource>>

\* What is kept of a fetch with the list that it brings.
SourceOf(fetch) == [did |-> fetch.did, revokedThen |-> fetch.revokedThen]

\* Faulty: the list is put together from what was there and what came.
ListFetchedMerged(fetch) ==
  /\ listFetches[fetch] # None /\ listFetches[fetch].phase = "read"
  /\ credentials' = credentials \cup listFetches[fetch].answer
  /\ listSource' = SourceOf(listFetches[fetch])
  /\ listLoading' = FALSE
  /\ listRefreshing' = (listRefreshing /\ ~listFetches[fetch].refresh)
  /\ listFetches' = [listFetches EXCEPT ![fetch] = None]
  /\ UNCHANGED <<listFor, statusFilter>>

\* The names of the issuers are there too; the store is replaced.
ListFetched(fetch) ==
  /\ listFetches[fetch] # None /\ listFetches[fetch].phase = "read"
  /\ credentials' = listFetches[fetch].answer
  /\ listSource' = SourceOf(listFetches[fetch])
  /\ listLoading' = FALSE
  /\ listRefreshing' = (listRefreshing /\ ~listFetches[fetch].refresh)
  /\ listFetches' = [listFetches EXCEPT ![fetch] = None]
  /\ UNCHANGED <<listFor, statusFilter>>

\* getStatus of the card.
StatusOf(credential) ==
  IF credential.revoked THEN "revoked"
  ELSE IF credential.expiresAt # None /\ credential.expiresAt < Now
       THEN "expired"
  ELSE "active"

SelectStatus(status) ==
  /\ CredentialsShown
  /\ ~listLoading
  /\ statusFilter # status
  /\ statusFilter' = status
  /\ UNCHANGED <<credentialsStoreVars, listRefreshing, listFetches, listFor,
                 listSource>>

\* The cards under a tab, and the number on it.  An expiration at this very
\* moment puts a credential under neither the active nor the expired tab.
ListedUnder(status) ==
  {credential \in credentials :
     \/ status = "all"
     \/ status = "revoked" /\ credential.revoked
     \/ /\ status = "active" /\ ~credential.revoked
        /\ credential.expiresAt = None \/ credential.expiresAt > Now
     \/ /\ status = "expired" /\ ~credential.revoked
        /\ credential.expiresAt # None /\ credential.expiresAt < Now}

CredentialsNext ==
  /\ \/ CredentialsEffect \/ RefreshCredentials
     \/ \E fetch \in ListFetches : ListRead(fetch) \/ ListFetched(fetch)
     \/ \E status \in {"all", "active", "revoked", "expired"} :
          SelectStatus(status)
  /\ UNCHANGED <<ledgerVars, storeVars, extrinsics>>
-----------------------------------------------------------------------------
\* The list in the store is one answer of the chain, however fetches overlap,
\* pages are left and the session changes meanwhile ("All credentials are
\* fetched directly from the blockchain").  It is the list of one DID, the one
\* its fetch was for; each credential is on chain with that holder and with its
\* issuer; and it is shown as revoked if it was so when the fetch began, and
\* only if it is so now.
HolderSeesChain ==
  \A credential \in credentials :
    /\ Certified(credential.hash)
    /\ certificate[credential.hash].issuer = credential.issuer
    /\ certificate[credential.hash].holder = credential.holder
    /\ credential.holder = listSource.did
    /\ credential.hash \in listSource.revokedThen =>
         /\ StatusOf(credential) = "revoked"
         /\ credential \in ListedUnder("revoked")
    /\ StatusOf(credential) = "revoked"
         \/ credential \in ListedUnder("revoked") =>
         VerdictOnChain(credential.hash) = "revoked"
=============================================================================
