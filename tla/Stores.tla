------------------------------- MODULE Stores -------------------------------
(***************************************************************************)
(* What the pages of the frontend share: whether the api is ready, the     *)
(* account of the wallet (wallet.store.ts) and the DID of the session      *)
(* (did.store.ts, kept by the browser across reloads).                     *)
(***************************************************************************)
EXTENDS RealQueries, FiniteSets

CONSTANT Keys   \* addresses of key pairs that the page makes itself

\* A key pair that is made has an address, and is nobody's account.
ASSUME KeysAssumption == Keys \cap (Accounts \cup {None}) = {}

VARIABLES
  isReady,    \* useBlockchain: api, queries and transactions are there
  account,    \* the account connected, or None
  didStore    \* the DID shown, its status, and whose institution is shown

storeVars == <<isReady, account, didStore>>
-----------------------------------------------------------------------------
Addresses == Accounts \cup Keys

\* hasDID is: did is not None; isInstitution is: institution is not None.  A
\* name stands for the account that registered it.
EmptyDid == [did |-> None, status |-> "none", institution |-> None]

DidStore ==
  [did : Addresses \cup {None}, status : {"none", "active", "inactive"},
   institution : Accounts \cup {None}]

StoresInit ==
  /\ isReady = FALSE
  /\ account = None
  /\ didStore = EmptyDid

HasDid == didStore.did # None
IsInstitution == didStore.institution # None

\* setDID: the fields of the institution stay.
WithDid(store, address) ==
  [store EXCEPT !.did = address, !.status = "active"]

WithStatus(store, status) == [store EXCEPT !.status = status]

WithInstitution(store, who) == [store EXCEPT !.institution = who]
-----------------------------------------------------------------------------
\* The session as a page sees it, one write to the stores at a time.  Session
\* shows that WalletProvider and PolkadotProvider do no more than this.
ApiComes ==
  /\ ~isReady
  /\ isReady' = TRUE
  /\ UNCHANGED <<account, didStore>>

AccountChanges ==
  /\ account' \in Accounts \cup {None}
  /\ UNCHANGED <<isReady, didStore>>

\* What is loaded is on chain; a DID may have changed its status since.
DidLoaded(who, status) ==
  /\ did[who] # "none"
  /\ didStore' = WithStatus(WithDid(didStore, who), status)
  /\ UNCHANGED <<isReady, account>>

InstitutionLoaded(who) ==
  /\ institution[who] # "none"
  /\ didStore' = WithInstitution(didStore, who)
  /\ UNCHANGED <<isReady, account>>

DidCleared ==
  /\ didStore' = EmptyDid
  /\ UNCHANGED <<isReady, account>>

SessionStep ==
  \/ ApiComes \/ AccountChanges \/ DidCleared
  \/ \E who \in Accounts :
       \/ InstitutionLoaded(who)
       \/ \E status \in {"active", "inactive"} : DidLoaded(who, status)
=============================================================================
