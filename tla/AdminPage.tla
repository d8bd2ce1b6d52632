----------------------------- MODULE AdminPage ------------------------------
(***************************************************************************)
(* pages/AdminVerification.tsx: the list of all institutions, verification *)
(* through sudo and revocation.  Both buttons send the extrinsic without   *)
(* submitTransaction: the handlers act on finality only.                   *)
(***************************************************************************)
EXTENDS Extrinsics

CONSTANT AdminFetches   \* bound: names of the fetches under way at one time

VARIABLES
  institutions,      \* account => none if not listed, pending or verified
  adminLoading,
  adminFetches,      \* fetch => None, asked, or the entries read
  adminFor,          \* whether the effect ran for a ready api
  verifying,         \* the institution whose verify button is off
  revokingInstitution

adminVars == <<institutions, adminLoading, adminFetches, adminFor, verifying,
               revokingInstitution>>
-----------------------------------------------------------------------------
AdminFresh ==
  /\ institutions = [who \in Accounts |-> "none"]
  /\ adminLoading = FALSE
  /\ adminFetches = [fetch \in AdminFetches |-> None]
  /\ adminFor = FALSE
  /\ verifying = None
  /\ revokingInstitution = None

\* The page is left.
LeaveAdmin ==
  /\ institutions' = [who \in Accounts |-> "none"]
  /\ adminLoading' = FALSE
  /\ adminFetches' = [fetch \in AdminFetches |-> None]
  /\ adminFor' = FALSE
  /\ verifying' = None
  /\ revokingInstitution' = None

StartAdminFetch ==
  \E fetch \in {f \in AdminFetches : adminFetches[f] = None} :
    adminFetches' = [adminFetches EXCEPT ![fetch] =
                       [phase |-> "asked", entries |-> <<>>]]

\* The effect on isReady, and the refresh button.
AdminEffect ==
  /\ isReady /\ ~adminFor
  /\ adminFor' = TRUE
  /\ StartAdminFetch
  /\ adminLoading' = TRUE
  /\ UNCHANGED <<institutions, verifying, revokingInstitution>>

\* Without an account the page only asks for the wallet to be connected.
AdminShown == isReady /\ account # None

RefreshInstitutions ==
  /\ AdminShown
  /\ ~adminLoading
  /\ StartAdminFetch
  /\ adminLoading' = TRUE
  /\ UNCHANGED <<institutions, adminFor, verifying, revokingInstitution>>

InstitutionsRead(fetch) ==
  /\ adminFetches[fetch] # None /\ adminFetches[fetch].phase = "asked"
  /\ adminFetches' = [adminFetches EXCEPT
       ![fetch] = [phase |-> "read", entries |-> institution]]
  /\ UNCHANGED <<institutions, adminLoading, adminFor, verifying,
                 revokingInstitution>>

InstitutionsFetched(fetch) ==
  /\ adminFetches[fetch] # None /\ adminFetches[fetch].phase = "read"
  /\ institutions' = adminFetches[fetch].entries
  /\ adminLoading' = FALSE
  /\ adminFetches' = [adminFetches EXCEPT ![fetch] = None]
  /\ UNCHANGED <<adminFor, verifying, revokingInstitution>>

\* The query fails: the list stays as it was.
InstitutionsNotFetched(fetch) ==
  /\ adminFetches[fetch] # None /\ adminFetches[fetch].phase = "asked"
  /\ adminLoading' = FALSE
  /\ adminFetches' = [adminFetches EXCEPT ![fetch] = None]
  /\ UNCHANGED <<institutions, adminFor, verifying, revokingInstitution>>

\* The cards of the two lists; only the pending one gives way to a spinner.
ListedAs(who, status) ==
  /\ AdminShown
  /\ institutions[who] = status
  /\ status = "pending" => ~adminLoading
-----------------------------------------------------------------------------
PressVerify(who, slot) ==
  /\ ListedAs(who, "pending")
  /\ verifying # who
  /\ verifying' = who
  /\ Send(slot, [name |-> "verifyInstitution", by |-> account, who |-> who],
          "admin")
  /\ UNCHANGED <<institutions, adminLoading, adminFetches, adminFor,
                 revokingInstitution, ledgerVars>>

PressRevoke(who, slot) ==
  /\ ListedAs(who, "verified")
  /\ revokingInstitution # who
  /\ revokingInstitution' = who
  /\ Send(slot, [name |-> "revokeInstitution", by |-> account, who |-> who],
          "admin")
  /\ UNCHANGED <<institutions, adminLoading, adminFetches, adminFor,
                 verifying, ledgerVars>>

AdminCalls(slot, name) ==
  Awaits("admin", slot) /\ extrinsics[slot].call.name = name

\* Faulty: the institution is shown as verified when the extrinsic is sent.
VerifySentShown(slot) ==
  /\ AdminCalls(slot, "verifyInstitution")
  /\ SignedAndSent(slot)
  /\ verifying' = None
  /\ institutions' =
       [institutions EXCEPT ![extrinsics[slot].call.who] = "verified"]
  /\ UNCHANGED <<adminLoading, adminFetches, adminFor, revokingInstitution>>

\* signAndSend returns as soon as the extrinsic is in the pool, or throws: the
\* finally clause gives the button back before anything is in a block.
VerifySent(slot) ==
  /\ AdminCalls(slot, "verifyInstitution")
  /\ SignedAndSent(slot)
  /\ verifying' = None
  /\ UNCHANGED <<institutions, adminLoading, adminFetches, adminFor,
                 revokingInstitution>>

VerifyNotSent(slot) ==
  /\ AdminCalls(slot, "verifyInstitution")
  /\ InPhase(slot, "signing") /\ Fails(slot)
  /\ verifying' = None
  /\ UNCHANGED <<institutions, adminLoading, adminFetches, adminFor,
                 revokingInstitution, ledgerVars>>

\* The callback at finality.  sudo reports no error of the call inside it; an
\* error of sudo itself is thrown in the callback, where nobody catches it.
VerifyFinalized(slot) ==
  /\ AdminCalls(slot, "verifyInstitution")
  /\ Finalized(slot)
  /\ institutions' =
       [who \in Accounts |->
          IF who = extrinsics[slot].call.who /\ institutions[who] # "none"
          THEN "verified" ELSE institutions[who]]
  /\ UNCHANGED <<adminLoading, adminFetches, adminFor, verifying,
                 revokingInstitution, ledgerVars>>

VerifyErrorUnseen(slot) ==
  /\ AdminCalls(slot, "verifyInstitution")
  /\ InPhase(slot, "pool") /\ Withdraw(slot)
  /\ UNCHANGED <<adminVars, ledgerVars>>

\* The pallet refuses a revocation that is not root's, and the page says so.
RevocationFails(slot) ==
  /\ AdminCalls(slot, "revokeInstitution")
  /\ Fails(slot)
  /\ revokingInstitution' = None
  /\ UNCHANGED <<institutions, adminLoading, adminFetches, adminFor,
                 verifying, ledgerVars>>
-----------------------------------------------------------------------------
AdminNext ==
  /\ \/ /\ \/ AdminEffect \/ RefreshInstitutions
           \/ \E fetch \in AdminFetches :
                InstitutionsRead(fetch) \/ InstitutionsFetched(fetch)
                  \/ InstitutionsNotFetched(fetch)
        /\ UNCHANGED <<extrinsics, ledgerVars>>
     \/ \E slot \in Slots :
          \/ \E who \in Accounts :
               PressVerify(who, slot) \/ PressRevoke(who, slot)
          \/ VerifySent(slot) \/ VerifyNotSent(slot) \/ VerifyFinalized(slot)
          \/ VerifyErrorUnseen(slot) \/ RevocationFails(slot)
  /\ UNCHANGED storeVars
-----------------------------------------------------------------------------
\* An institution the admin sees as verified is verified on chain: a
\* verification is shown when it is final, not when it is sent ("Success -
\* update local state"), and failed ones are not shown at all.  The chain is
\* one on which root revokes nothing behind the page's back.
VerifiedShownIsVerified ==
  \A who \in Accounts :
    institutions[who] = "verified" => institution[who] = "verified"
=============================================================================
