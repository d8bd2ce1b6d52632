------------------------------ MODULE Session -------------------------------
(***************************************************************************)
(* PolkadotProvider.tsx, WalletProvider.tsx and the header that shows what *)
(* they know: the connection to the node, the account of the wallet        *)
(* extension and the DID that the chain has for it.  A check of the chain  *)
(* takes two queries; several may be under way, for several accounts, and  *)
(* each one writes to the store as its answers come.                       *)
(***************************************************************************)
EXTENDS Stores

CONSTANTS
  MaxAttempts,   \* bound: calls of the extension under way at one time
  Checks         \* bound: names of the checks of the chain under way

ASSUME MaxAttemptsAssumption == MaxAttempts \in Nat \ {0}

VARIABLES
  connecting,   \* initApi: waiting, connecting, over
  timeout,      \* the timer of five seconds is armed
  apiError,     \* error of the context is set
  attempts,     \* how many calls of the extension wait, that were made with
                \* the api ready (TRUE) or without it (FALSE)
  checks        \* check => None, or where it stands

connectionVars == <<connecting, timeout, apiError>>
sessionVars == <<connectionVars, attempts, checks>>
-----------------------------------------------------------------------------
\* The document is loaded: the effect of WalletProvider asks the extension.
SessionInit ==
  /\ connecting = "waiting"
  /\ timeout = FALSE
  /\ apiError = FALSE
  /\ attempts = [ready \in BOOLEAN |-> IF ready THEN 0 ELSE 1]
  /\ checks = [check \in Checks |-> None]

\* The extension is asked for its accounts.
AskExtension(ready) ==
  /\ attempts[TRUE] + attempts[FALSE] < MaxAttempts
  /\ attempts' = [attempts EXCEPT ![ready] = @ + 1]

ExtensionAnswers(ready) ==
  /\ attempts[ready] > 0
  /\ attempts' = [attempts EXCEPT ![ready] = @ - 1]

\* checkDIDOnBlockchain up to its first await.
StartCheck(who) ==
  \E check \in {c \in Checks : checks[c] = None} :
    checks' = [checks EXCEPT ![check] =
                 [phase |-> "askDid", who |-> who, answer |-> "none"]]
-----------------------------------------------------------------------------
\* After 1.5 s: the library is loaded and the provider made, or this fails.
StartConnecting ==
  /\ connecting = "waiting"
  /\ \/ connecting' = "connecting" /\ timeout' = TRUE /\ UNCHANGED apiError
     \/ connecting' = "over" /\ apiError' = TRUE /\ UNCHANGED timeout
  /\ UNCHANGED <<storeVars, attempts, checks>>

\* Faulty: the handler trusts the error to be there already.
ConnectionTimesOutSilently ==
  /\ timeout
  /\ timeout' = FALSE
  /\ UNCHANGED <<storeVars, connecting, apiError, attempts, checks>>

\* isReady in the handler is that of the first render; create goes on.
ConnectionTimesOut ==
  /\ timeout
  /\ timeout' = FALSE
  /\ apiError' = TRUE
  /\ UNCHANGED <<storeVars, connecting, attempts, checks>>

\* The api is there, in time or late.  Both effects of WalletProvider run.
ApiReady ==
  /\ connecting = "connecting"
  /\ connecting' = "over"
  /\ timeout' = FALSE
  /\ isReady' = TRUE
  /\ AskExtension(TRUE)
  /\ IF account # None THEN StartCheck(account) ELSE UNCHANGED checks
  /\ UNCHANGED <<account, didStore, apiError>>

\* ChainStatus, with the error before the readiness.
ChainStatus ==
  IF ~isReady /\ ~apiError THEN "Connecting..."
  ELSE IF apiError THEN "Offline"
  ELSE "connected"
-----------------------------------------------------------------------------
\* WalletConnect: enableWallet, with the api as it is when it is pressed.
Connect ==
  /\ account = None
  /\ AskExtension(isReady)
  /\ UNCHANGED <<storeVars, connectionVars, checks>>

\* The extension shares accounts: the saved one or the first is connected,
\* and since the user chooses what is shared, it may be any.
ExtensionShares(ready, who) ==
  /\ ExtensionAnswers(ready)
  /\ account' = who
  /\ IF ready THEN StartCheck(who) ELSE UNCHANGED checks
  /\ UNCHANGED <<isReady, didStore, connectionVars>>

\* No extension, no account, or the user refuses.
ExtensionRefuses(ready) ==
  /\ ExtensionAnswers(ready)
  /\ UNCHANGED <<storeVars, connectionVars, checks>>

\* disconnectWallet: the DID of the session stays.
Disconnect ==
  /\ account # None
  /\ account' = None
  /\ UNCHANGED <<isReady, didStore, sessionVars>>
-----------------------------------------------------------------------------
InCheck(check, phase) == checks[check] # None /\ checks[check].phase = phase

CheckGoesOn(check, phase) ==
  checks' = [checks EXCEPT ![check].phase = phase]

CheckEnds(check) == checks' = [checks EXCEPT ![check] = None]

\* The node reads didDocuments, then institutions.
DidRead(check) ==
  /\ InCheck(check, "askDid")
  /\ checks' = [checks EXCEPT ![check].phase = "gotDid",
                              ![check].answer = did[checks[check].who]]
  /\ UNCHANGED <<storeVars, connectionVars, attempts>>

DidFound(check) ==
  /\ InCheck(check, "gotDid")
  /\ checks[check].answer # "none"
  /\ didStore' = WithStatus(WithDid(didStore, checks[check].who),
                            checks[check].answer)
  /\ CheckGoesOn(check, "askInstitution")
  /\ UNCHANGED <<isReady, account, connectionVars, attempts>>

\* A DID stored for this very address is kept.
DidAbsent(check) ==
  /\ InCheck(check, "gotDid")
  /\ checks[check].answer = "none"
  /\ didStore' = IF didStore.did = checks[check].who THEN didStore
                                                      ELSE EmptyDid
  /\ CheckEnds(check)
  /\ UNCHANGED <<isReady, account, connectionVars, attempts>>

InstitutionRead(check) ==
  /\ InCheck(check, "askInstitution")
  /\ checks' = [checks EXCEPT ![check].phase = "gotInstitution",
                   ![check].answer = institution[checks[check].who]]
  /\ UNCHANGED <<storeVars, connectionVars, attempts>>

\* Faulty: an account with a DID is taken for an institution.
InstitutionCheckedAny(check) ==
  /\ InCheck(check, "gotInstitution")
  /\ didStore' = WithInstitution(didStore, checks[check].who)
  /\ CheckEnds(check)
  /\ UNCHANGED <<isReady, account, connectionVars, attempts>>

InstitutionChecked(check) ==
  /\ InCheck(check, "gotInstitution")
  /\ didStore' = IF checks[check].answer = "none" THEN didStore
                 ELSE WithInstitution(didStore, checks[check].who)
  /\ CheckEnds(check)
  /\ UNCHANGED <<isReady, account, connectionVars, attempts>>

\* Faulty: the institution is forgotten when it cannot be read.
CheckFailsForgetting(check) ==
  /\ InCheck(check, "askDid") \/ InCheck(check, "askInstitution")
  /\ didStore' = [didStore EXCEPT !.institution = None]
  /\ CheckEnds(check)
  /\ UNCHANGED <<isReady, account, connectionVars, attempts>>

\* A query fails: what the store says stays.
CheckFails(check) ==
  /\ InCheck(check, "askDid") \/ InCheck(check, "askInstitution")
  /\ CheckEnds(check)
  /\ UNCHANGED <<storeVars, connectionVars, attempts>>
-----------------------------------------------------------------------------
SessionNext ==
  \/ StartConnecting \/ ConnectionTimesOut \/ ApiReady
  \/ Connect \/ Disconnect
  \/ \E ready \in BOOLEAN :
       \/ ExtensionRefuses(ready)
       \/ \E who \in Accounts : ExtensionShares(ready, who)
  \/ \E check \in Checks :
       \/ DidRead(check) \/ DidFound(check) \/ DidAbsent(check)
       \/ InstitutionRead(check) \/ InstitutionChecked(check)
       \/ CheckFails(check)

\* The document is loaded again: only the DID store and the ledger are kept.
Reload ==
  /\ isReady' = FALSE
  /\ account' = None
  /\ connecting' = "waiting"
  /\ timeout' = FALSE
  /\ apiError' = FALSE
  /\ attempts' = [ready \in BOOLEAN |-> IF ready THEN 0 ELSE 1]
  /\ checks' = [check \in Checks |-> None]
  /\ UNCHANGED didStore

\* What the forms write to the store once their extrinsics are final: the keys
\* of a DID, or the institution of the account that registered.
FormsWrite ==
  /\ \/ \E who \in Accounts : InstitutionLoaded(who)
     \/ \E key \in Keys : didStore' = WithDid(didStore, key)
                          /\ UNCHANGED <<isReady, account>>
  /\ UNCHANGED sessionVars

\* The timers fire.
TimersFire == StartConnecting \/ ConnectionTimesOut

\* The session over a ledger on which anything may happen.
SessionGenesis == LedgerInit /\ StoresInit /\ SessionInit

SessionLedgerNext ==
  \/ LedgerNext /\ UNCHANGED <<storeVars, sessionVars>>
  \/ /\ SessionNext \/ FormsWrite \/ Reload
     /\ UNCHANGED ledgerVars

SessionSpec ==
  SessionGenesis /\ [][SessionLedgerNext]_<<ledgerVars, storeVars, sessionVars>>
-----------------------------------------------------------------------------
Check ==
  [phase : {"askDid", "gotDid"}, who : Accounts, answer : DidStatus]
  \cup [phase : {"askInstitution", "gotInstitution"}, who : Accounts,
        answer : DidStatus \cup InstitutionStatus]

SessionTypeOK ==
  /\ isReady \in BOOLEAN
  /\ account \in Accounts \cup {None}
  /\ didStore \in DidStore
  /\ connecting \in {"waiting", "connecting", "over"}
  /\ timeout \in BOOLEAN /\ apiError \in BOOLEAN
  /\ attempts \in [BOOLEAN -> 0..MaxAttempts]
  /\ checks \in [Checks -> Check \cup {None}]

\* What the session shows is on chain: an institution it shows is registered,
\* and an account whose DID it shows has one, whatever checks overtake each
\* other, fail or come late, and however often the document is loaded again
\* (the addresses that the form of a DID makes are another matter).
ShownIsOnChain ==
  /\ IsInstitution => institution[didStore.institution] # "none"
  /\ didStore.did \in Accounts => did[didStore.did] # "none"

\* "Connecting..." does not stay, with or without a node.
ConnectingEnds ==
  ChainStatus = "Connecting..." ~> ChainStatus # "Connecting..."

\* A page sees the stores change in the steps of SessionStep only: what is
\* loaded is on chain at that moment too, a query that fails changes nothing,
\* and an account that changes takes no DID with it.  (Beside these there are
\* a reload and the keys that the form of a DID writes.)
SeenAsSessionStep ==
  [][\/ SessionStep \/ Reload
     \/ \E key \in Keys : didStore' = WithDid(didStore, key)]_storeVars
=============================================================================
