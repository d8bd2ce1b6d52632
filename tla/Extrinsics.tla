----------------------------- MODULE Extrinsics -----------------------------
(***************************************************************************)
(* The extrinsics that the pages send with the classes of transactions.ts, *)
(* each call one submission of TxSubmission, seen from the page: it hears  *)
(* of a failure or of finality, or of nothing at all when the pool drops   *)
(* the extrinsic.  Forks are left to TxSubmission.  A submission and its   *)
(* extrinsic go on after the page is left.                                 *)
(***************************************************************************)
EXTENDS Stores

CONSTANTS
  Slots,   \* bound: names of the extrinsics under way at one time
  Sudo     \* the account that the chain accepts sudo from

VARIABLE extrinsics   \* slot => None or an extrinsic under way
-----------------------------------------------------------------------------
Phases == {"preparing", "signing", "pool", "block", "unwatched"}

\* An extrinsic: its call, where it stands, the page that sent it and whether
\* that page is still there.
Extrinsic(call, phase, page) ==
  [call |-> call, phase |-> phase, page |-> page, mounted |-> TRUE]

Call ==
  [name : {"createDid", "registerInstitution"}, by : Accounts,
   key : Keys \cup {None}]
  \cup [name : {"issueCredential"}, by : Accounts, holder : Addresses,
        hash : Hashes, expires : Nat \cup {None}]
  \cup [name : {"revokeCredential"}, by : Accounts, hash : Hashes]
  \cup [name : {"verifyInstitution", "revokeInstitution"}, by : Accounts,
        who : Accounts]

ExtrinsicsInit == extrinsics = [slot \in Slots |-> None]

Free(slot) == extrinsics[slot] = None

InPhase(slot, phase) == ~Free(slot) /\ extrinsics[slot].phase = phase

\* The method of DIDTransactions or CredentialTransactions is called.
Send(slot, call, page) ==
  /\ Free(slot)
  /\ extrinsics' =
       [extrinsics EXCEPT ![slot] = Extrinsic(call, "signing", page)]

\* A page submits, and awaits something that the call needs before it sends it.
Prepare(slot, call, page) ==
  /\ Free(slot)
  /\ extrinsics' =
       [extrinsics EXCEPT ![slot] = Extrinsic(call, "preparing", page)]

Withdraw(slot) == extrinsics' = [extrinsics EXCEPT ![slot] = None]

\* What the call does when the chain accepts it.  verifyInstitution is sent
\* through sudo, for an institution of the list, which is never taken off the
\* chain; revokeInstitution is sent as it is, and the pallet wants root.
Accepted(call) ==
  \/ call.name = "createDid" /\ CreateDid(call.by)
  \/ call.name = "registerInstitution" /\ RegisterInstitution(call.by)
  \/ /\ call.name = "issueCredential" /\ call.holder \in Accounts
     /\ IssueCredential(call.by, call.holder, call.hash, call.expires)
  \/ call.name = "revokeCredential" /\ RevokeCredential(call.by, call.hash)
  \/ /\ call.name = "verifyInstitution" /\ call.by = Sudo
     /\ SetInstitution(call.who, "verified")
-----------------------------------------------------------------------------
\* The steps a page does not act on.
SignedAndSent(slot) ==
  /\ InPhase(slot, "signing")
  /\ extrinsics' = [extrinsics EXCEPT ![slot].phase = "pool"]
  /\ UNCHANGED ledgerVars

\* Faulty: whatever the dispatch returns is taken for a success.
IncludedUnchecked(slot) ==
  /\ InPhase(slot, "pool")
  /\ extrinsics' = [extrinsics EXCEPT ![slot].phase = "block"]
  /\ Accepted(extrinsics[slot].call) \/ UNCHANGED ledgerVars

Included(slot) ==
  /\ InPhase(slot, "pool")
  /\ extrinsics' = [extrinsics EXCEPT ![slot].phase = "block"]
  /\ Accepted(extrinsics[slot].call)

\* Invalid, Dropped, Usurped: the callback does nothing.
Discarded(slot) ==
  /\ InPhase(slot, "pool")
  /\ Withdraw(slot)
  /\ UNCHANGED ledgerVars

\* An extrinsic whose page was told of a failure is included, or is not.
UnwatchedEnds(slot) ==
  /\ InPhase(slot, "unwatched")
  /\ Withdraw(slot)
  /\ Accepted(extrinsics[slot].call) \/ UNCHANGED ledgerVars

\* The steps that settle the promise.  The signature is refused, or the chain
\* refuses the call and writes nothing, or the connection breaks when the
\* extrinsic is already in the pool.
Fails(slot) ==
  \/ /\ InPhase(slot, "signing") \/ InPhase(slot, "pool")
     /\ Withdraw(slot)
  \/ /\ InPhase(slot, "signing")
     /\ extrinsics' = [extrinsics EXCEPT ![slot].phase = "unwatched"]

\* What the call needs is not to be had; nothing is sent.
PreparationFails(slot) == InPhase(slot, "preparing") /\ Withdraw(slot)

Finalized(slot) == InPhase(slot, "block") /\ Withdraw(slot)

\* The promise of this slot is awaited on behalf of a page, there or not.
Pending(page, slot) ==
  /\ ~Free(slot)
  /\ extrinsics[slot].page = page
  /\ extrinsics[slot].phase # "unwatched"

Awaits(page, slot) == Pending(page, slot) /\ extrinsics[slot].mounted

\* The page is left; its promises go on, but what they set on the page is lost.
Abandoned ==
  [slot \in Slots |->
     IF Free(slot) THEN None ELSE [extrinsics[slot] EXCEPT !.mounted = FALSE]]

AbandonedFails(slot) ==
  /\ ~Free(slot) /\ ~extrinsics[slot].mounted
  /\ Fails(slot) \/ PreparationFails(slot)
=============================================================================
