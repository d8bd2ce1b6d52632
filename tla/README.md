# Academic verification: specifications and proofs

The repository is a Substrate parachain with three pallets of its own (decentralized
identifiers, credentials, reputation) and a React frontend through which institutions issue
credentials and anybody verifies them. This directory holds TLA+ specifications of that
program, TLC configurations that check them on small instances, and TLAPS proofs.

Contents: [the system](#the-system), [how the code is modelled](#how-the-code-is-modelled),
[modules](#modules), [runs](#runs), [fairness](#fairness), [proofs](#proofs),
[findings](#findings), [observations](#observations), [what is left out](#not-modelled).

## The system

Paths are relative to the root of the repository; `frontend/` abbreviates
`academic-verification-frontend/src/`.

| part | state it keeps | operations | talks to |
|---|---|---|---|
| DID pallet, `pallets/did` | `DidDocuments`, `Institutions`, one entry per account | create, deactivate, reactivate a DID; add and remove keys; register an institution (its account), verify and revoke it (root) | nobody |
| Credential pallet, `pallets/credential` | `Credentials` by id, the indexes `CredentialsByHolder`, `CredentialsByIssuer`, `CredentialByHash`, the counter `NextCredentialId` | issue, revoke, verify, update metadata | reads both maps of the DID pallet |
| Reputation pallet, `pallets/reputation` | two lists of endorsements per account, the flag `HasEndorsed` per pair, a score record per account | endorse, remove an endorsement; record an issuance or a verification, recompute a score | reads the DID documents |
| Runtime, `runtime` | the block number, the bounds of the pallets, sudo | composes the pallets | |
| Template pallet, node | scaffold of the parachain template | | |
| Transaction submission, `frontend/lib/blockchain/transactions.ts` | per call: where it waits, the status shown, a promise | sign and send, follow the extrinsic, settle | wallet extension, node |
| Queries and formatting, `realQueries.ts`, `integration.ts` | none | storage to what a page shows; an error is answered like an absent entry | node |
| API connection, `PolkadotProvider`, `hooks/blockchain`, `ChainStatus` | the api, its error, the timer of five seconds | connect, time out | node |
| Wallet and DID session, `WalletProvider`, `WalletConnect`, `store/wallet.store.ts`, `store/did.store.ts` | selected account; its DID and role, kept by the browser across reloads | connect, disconnect, look the account up on the chain | wallet extension, queries |
| Verification page, `Verify.tsx`, `VerifyCredential.tsx` | input, lookups under way, last verdict, camera, dialogs | type, upload, scan or follow a link; look up | queries |
| Issuing page, `IssueCredential.tsx`, `IssueCredentialForm.tsx` | wizard step, recipient found, document and hash | search, upload and hash, review, submit | queries, submission, session |
| Issued credentials page, `IssuedCredentials.tsx` | the list fetched, filter, credential in the dialog | fetch, filter, revoke | queries, submission, session |
| Credentials page and dashboard, `Credentials.tsx`, `CredentialsList.tsx`, `Dashboard.tsx`, `store/credentials.store.ts` | a list in a store that outlives the page; counts | fetch, filter | queries, session |
| DID and institution pages, `CreateDIDForm.tsx`, `CreateDIDModal.tsx`, `InstitutionRegistration.tsx`, `Institution.tsx`, `AdminVerification.tsx` | keys made in the browser, step of a form, institutions fetched | create a DID, register, verify, revoke | queries, submission, session |
| Site, `App.tsx` | the route | shows one page at a time | |
| Notifications, UI store, other pages | small local lists | | |

What makes it hard, and what must hold:

* **Long histories of legal calls.** The pallets keep the same fact in several places: a
  credential is in a map and in three indexes; an endorsement is a flag, two list entries and
  two counters on two accounts; a total is derived from counters. Each call updates several of
  them, and a push into a bounded list can fail after others were written. *They must agree
  after every sequence of calls, up to full lists.*
* **Facts that go stale.** Calls check DIDs and verifications that other calls take away later.
  *What was issued keeps its parties.*
* **Time.** A credential expires without any call. *Expiry takes effect, and a negative verdict
  stays negative.*
* **The frontend is concurrent.** A submission waits for a user, a pool, blocks that may be
  retracted and a connection that may break; pages wait for answers while the user goes on, leaves,
  changes the account or asks again; several answers may be under way and come in any order, and a
  query that fails looks like an absent entry. *A page does not show as done what is not, says of a
  credential what the chain says, submits a form once while it is open, tells of a success only if its
  call had an effect of its own, and does not wait for ever.*

The `hazards` of `PROJECT.json` list these places one by one, each with its line and the
properties that watch it; what no property covers, in whole or in part, has a note that says why.

## How the code is modelled

* **Storage.** A storage map is a function on its key set; an absent key is `None`. Names of
  storage items, fields, errors and calls are the source's.
* **Calls.** A call `x` has an operator `XResult`, the `DispatchResult` in the current state with
  the checks in the order of the source, and an action `X`, enabled exactly when that result is
  `Ok`, with all its writes. FRAME dispatches a call inside a storage transaction, so a call that
  fails writes nothing: it is a stuttering step, and needs no action. That rollback is built into the
  model: that the indexes and the lists stay in step although a later push of the same call fails is
  FRAME's doing, and no property here could fail on its account. The result
  operators cover the error paths, which several properties are about. Calls run one after the
  other: a block executes its extrinsics in sequence, so a step is a whole call.
* **Origins.** Every call can be tried from every origin (each account and `Root`); `ensure_signed`
  and `ensure_root` are in the results. `signer` remembers the origin of the last call applied, so
  that properties can say who may do something.
* **Data.** Accounts, hashes, metadata are model values. A `blake2_256` digest is its preimage
  (collision-free): the id of a credential is the tuple that is hashed. An institution name is
  empty or not. A comment is its length. Block numbers and counters are bounded naturals.
* **Integers.** `saturating_add`, `saturating_mul`, `saturating_sub` and the cap are the operators
  of `ReputationScore` over `0..U32Max`; `NextCredentialId` saturates at `CounterMax`.
* **The frontend.** A step is what the browser runs in one turn: a handler up to its first `await`,
  what follows an `await`, an effect after its render, a callback. What is captured before an
  `await` is kept in the record of the request (`lookups`, `checks`, `search`, a fetch) and used
  after it, as the closure does. A request has two steps of its own: the node reads the chain, and
  the answer is handled, so that the chain and the user go on in between. A control can be used only
  while the page draws it and it is not disabled; a dialog covers the page under it.
* **Queries** (`RealQueries`). The set of answers that a query may give in the present state:
  the entry, or nothing, because the functions catch their errors and answer `null` or `[]`.
* **Leaving a page** loses its state, so that what comes after is written to nobody; its
  extrinsics, their promises and the fetches that write to a store go on. Reloading the document
  loses everything but the DID store.
* **The chain under the pages** is `Ledger`, not the pallets. `LedgerRefinement` shows that the
  pallets implement it, so what holds of the pages over every behaviour of `Ledger` holds of them
  over the pallets.
* **"Faulty" definitions.** An operator whose comment begins with "Faulty" is in no specification.
  It is the definition after it with a plausible mistake. `PROJECT.json` (`mutants`) pairs each
  with the property that fails when it is put in place of the right one.

## Modules

| module | models | contents |
|---|---|---|
| `FrameSystem` | frame_system and dispatch, external | `now`, `signer`, `Dispatched`, `ProduceBlock` |
| `BoundedVec` | `BoundedVec::try_push`, `retain`, external | `HasRoom`, `Retain` |
| `DidPallet` | `pallets/did/src/lib.rs` | the eight calls; `DidSpec` |
| `CredentialPallet` | `pallets/credential/src/lib.rs`, on top of `DidPallet` | the four calls; `CredentialSpec` interleaves the calls of both pallets and blocks |
| `ReputationScore` | the score record and `calculate_reputation_score` | saturating arithmetic; `WeightedSum`, its definition over the integers |
| `ReputationPallet` | `pallets/reputation/src/lib.rs`, on top of `DidPallet` | the five calls; `ReputationSpec` |
| `Ledger` | what the DID and the credential pallet promise their readers | abstract: who has a DID, who is an institution, which document is certified |
| `LedgerRefinement` | the mapping between the two | `LedgerRefined`, the ledger seen through `CredentialByHash` |
| `ExtrinsicWatch` | the node and @polkadot/api as `transactions.ts` uses them, external | an extrinsic's statuses, forks, reports in transit, the subscription |
| `TxSubmission` | `submitTransaction` | where a submission waits, the status shown, the promise |
| `SubmissionRefinement` | submissions on a ledger, as a page sees them | `OnLedgerSpec`, in which a call takes effect in its block; `SeenByPages`, the steps of `Extrinsics` |
| `RealQueries` | `realQueries.ts`, `integration.ts` | answers of queries; `FormatCredentialData` |
| `Stores` | `wallet.store.ts`, `did.store.ts`, `useBlockchain` | the state the pages share; `SessionStep`, the session as a page sees it |
| `Session` | `PolkadotProvider`, `WalletProvider`, `WalletConnect`, `ChainStatus` | connecting, the extension, overlapping checks of the chain; `SessionSpec` |
| `VerifyPage` | the verification page | lookups, verdict card, camera; `VerifySpec` |
| `Extrinsics` | the methods of `transactions.ts` as the pages await them | extrinsics that outlive their page, what their calls do on the ledger |
| `CreateDidForm`, `RegistrationForm`, `IssuePage`, `IssuedPage`, `AdminPage`, `CredentialsPage`, `InstitutionPage`, `DashboardPage` | a page or form each | its state, its handlers, its effects |
| `Site` | `App.tsx` | the pages above composed: one on the screen at a time, over one ledger, session and set of extrinsics; `SiteSpec` |
| `MCDidPallet`, `MCCredentialPallet`, `MCReputationPallet`, `MCSession`, `MCVerifyPage`, `MCSite` | | constants, symmetry, start states and bounds for TLC |
| `DidPallet_proofs`, `CredentialPallet_proofs`, `ReputationPallet_proofs`, `TxSubmission_proofs`, `Ledger_proofs`, `Session_proofs`, `VerifyPage_proofs`, `Site_proofs` | | theorems and proofs |

The state of a pallet module is its storage, one variable per item. An action stands for the
whole dispatchable: `IssueCredential` reads the DID pallet, advances the counter, writes the
credential and the three indexes in one step. The variables of a page module are its `useState`s
and `useRef`s under their names (prefixed where two pages use one name) plus the requests under
way; its actions are its handlers and effects. `None` stands for `null`, and a bound on requests
under way is a constant set of their names (`Lookups`, `Checks`, `Fetches`, `Slots`). The `map` of
`PROJECT.json` gives the lines of every definition. One variable is of the
specification only: `listSource` remembers for `HolderSeesChain` which fetch the holder's list is from, and no
action asks for it.

In `TxSubmission`, `pc` is where `submitTransaction` waits: for the extension's account, for the
signature and the pool, or for reports. `shown` is the status last given to `onStatusUpdate`,
`result` the promise. Reports arrive later than the node's own changes, so `transit` lets the node
run ahead of what the page knows; `unsub` discards what is in transit. "Gone" stands for the four
statuses that the callback does not look at (Invalid, Dropped, Usurped, FinalityTimeout).
`Extrinsics` is the same submission as a page sees it: a failure with or without effect, finality,
or nothing at all; forks are left to `TxSubmission`. `SubmissionRefinement` puts submissions on a ledger
that retracts no block and maps each to what its page sees: the phase of an extrinsic. That this
is what `Extrinsics` says is proved (`SubmissionSeen`). With forks it is not so, since a
retraction takes back what a call wrote; `Ledger` has no such step, and the pages are modelled
over chains without forks. The flag `mounted` and the discarding of an extrinsic from the pool are freedoms
of `Extrinsics` beyond that: `submitTransaction` does not know whether its page is still there.

The site is composed in two halves, as the browser composes it. `Session` is checked against any
behaviour of the ledger, and `SeenAsSessionStep` shows that it changes the stores in the steps of
`Stores!SessionStep` only; `Site` runs the pages over `SessionStep`, which is far smaller. `SiteSpec`
starts with fresh pages at any route, over any ledger and with any session that the ledger bears
out, and goes on with any step of a page, of the session and of the ledger. That is what is proved
about; the tours of `MCSite` are behaviours of it, in which other users of the chain do only what
matters to the tour (`OthersAct`, some of the steps of `LedgerNext`). The
verification page uses neither the session nor extrinsics and has a specification of its own.

## Runs

| run | checks | shows |
|---|---|---|
| `did` | `DidTypeOK`, `KeysDistinctAndBounded`, `InstitutionHasDid`, `OwnerChangesDid`, `OnlyRootVerifies`, `NoKeyAddedWhileInactive` | no order of the calls of two accounts and root, over two blocks, duplicates a key id, overfills a document, orphans an institution, or lets anyone but the owner (a document) and root (a verification) change it |
| `credential` | `CredentialTypeOK`, `OneCredentialPerCount`, `IndexesExact`, `CredentialHasParties`, `LedgerRefined` | from the empty chain, with all calls of both pallets: the indexes and the counter are exact up to full lists, parties last, and the pallets implement the ledger |
| `credential_time` | `CredentialHistory`, `VerdictFinal`, `ExpiryTakesEffect` | while blocks pass: expiry happens, a negative verdict is never taken back, and a credential is changed by its issuer only, and not once it is revoked |
| `reputation` | `ReputationTypeOK`, `ScoreCurrent`, `ScoreFallsByWithdrawal` | totals are exact and never stale, at the cap and at the width of the integers; a score falls only by a withdrawal |
| `endorsements` | `EndorsementsExact`, `EndorserDecides` | flag, lists and counters of four accounts never drift apart, lists fill up on either side |
| `submission` | `TxTypeOK`, `SuccessIsFinal`, `ShownAgrees`, `FailureExplained`, `VerdictKept`, `FinalizedSettles` | what a page is told is true; a false failure takes a fork or a broken connection; finality settles the promise |
| `session` | `ShownIsOnChain`, `ConnectingEnds`, `SeenAsSessionStep` | checks for two accounts that overlap, fail and outlive the account never make the session show an institution or a DID that is not on chain; "Connecting..." ends with or without a node |
| `verify` | `VerdictHonest`, `ScannerOwnsCamera`, `LookupEnds` | whatever lookups overlap and however the chain goes on, the card says of a credential what the chain says or said since the lookup began; the spinner ends; the camera is the scanner's |
| `pages` | `SiteTypeOK`, `PastStep1Found`, `ReviewedHasHash`, `FormsSubmitOnce`, `TakesEffectOnce`, `RevokedShownIsRevoked`, `HolderSeesChain`, `VerifiedShownIsVerified`, `InstitutionShownExists` | on seven tours of the site: one opening of a form has one submission under way; of submissions for one target no two succeed, and the one that does has an effect that stands; lists show what the chain holds, the holder's the credentials of one DID with every revocation from before it was fetched |
| `submission_unsettled`, `verify_expired`, `issue_recipient` | one documented claim each | the code does otherwise, see [findings](#findings) |

### Bounds, and why they are enough

* *Accounts*: two for the DID and credential pallets. A call concerns at most two accounts (issuer
  and holder, who may be the same), and the properties relate at most two. `endorsements` has four,
  so that with `MaxEndorsements = 2` a list can fill on the endorser's and on the endorsee's side
  independently, with a third account to be refused. The invariants are proved for any number.
* *Lists*: `MaxPublicKeys = 2` with three keys; `MaxCredentialsPerHolder = 2` with three
  hashes in `credential`; so lists get full and one more push is tried. The runtime's bounds
  (10 keys, 100 credentials, 50 endorsements) differ in size only.
* *Counter*: `CounterMax` stands for the largest `u64`. The properties about ids speak of a counter
  that has not saturated (`CounterLive`): 2^64 - 1 credentials are out of reach of the chain, and
  beyond them ids would repeat. `credential` has fewer hashes than counts, `credential_time`
  likewise, so the refinement is checked where it is meant to hold.
* *Time*: blocks `0..MaxBlock`. With two blocks after genesis an expiration can lie in the past, in
  the present, in the future, or nowhere. On the pages, `Now` and `Year2000Unix` put block numbers
  below the least number that `normalizeTimestamp` takes for a time, as they are on the chain.
* *Scores*: the cap is 45 and `U32Max` 60 instead of 1000 and 2^32 - 1, so that three recorded
  issuances (30), two endorsements (40) and their sums cross the cap, and the sum crosses the
  integer width too; the order of cap and saturation matters in this range only. `MaxRecorded`
  bounds how often an issuance or a verification is recorded.
* *Start states*: `SettledSpec` of `MCCredentialPallet` and of `MCReputationPallet` starts where
  every account already has a DID (and a verified institution), which the full
  specification reaches in block 0; it leaves out the calls on keys. The runs `credential` and
  `reputation` start from genesis with every call.
* *Submissions*: two, independent in the code as in the model, with one fork each
  (`MaxForks = 1`): enough for an inclusion, its retraction and an inclusion with the other
  outcome.
* *Session*: two accounts, one an institution and one that becomes one meanwhile; two checks of the
  chain under way, for the same account or for both, two calls of the extension
  (`MaxAttempts = 2`), one reload (`MaxReloads`). `ShownIsOnChain` relates one check to the store,
  so two checks show every overtaking; it is also proved for any number.
* *Verification page*: two lookups under way, enough for an answer to overtake another; one hash,
  because a lookup carries its own and the properties relate one card to the chain; one media
  stream (`Cameras`), which may be asked for, granted late, stopped and left. The invariants are
  proved for any number of each.
* *Site* (`MCSite`): the pages share little (the session, the extrinsics, the ledger), so the run is
  the union of seven **tours**, each over the pages that matter to one another and with the other
  actors of the chain that matter to these pages: `recipient` and `document` (the issuing form,
  once with several addresses typed, once with several files and an expiration), `issued`, `admin`, `holder`, `overview`
  (the institution's page) and `identity` (DID, registration, dashboard). Bounds per tour:
  `MaxExtrinsics` under way (two where two buttons send, or where a form may be left, opened again and
  submitted again), `MaxSessionSteps` (changes of account, of the DID store, of readiness),
  `MaxCertificates` on chain, and `MayFillIn` for what is typed, chosen and filtered.
  The tours of the issuing form and `identity` start with the api connected. In `identity`, where nobody is an
  institution at the start, the session changes to the other account while an extrinsic of a form is in a block
  and not yet final, so that a DID or a registration is settled in another account's session. In `document` a
  credential that expires waits for the block number, the form may be left meanwhile, and the expiration
  (`MCDays`) lies before or after the present block; a document is either submitted twice or the session
  changes, not both. The others change the session at any time. Two fetches may be under way per page, enough for one to overtake the other. Names of
  extrinsics, fetches and documents are symmetric. All nine properties are also proved for any
  number of accounts, extrinsics and fetches, and without tours.
* *Symmetry* is declared where a run has no liveness property.

TLC finds no deadlock in the pallets' runs: blocks end, but calls remain possible
(deactivating and reactivating a DID); nor in `verify`: the page can always be opened or left.
Submissions, the session and the tours end at their bounds, so their runs switch the check off.

## Fairness

* `BlockFairness` (`credential_time`): blocks go on being produced. The chain authors with Aura, one
  slot every 6 seconds, and a block needs no extrinsic. No call is assumed to be made: expiry must work
  when nobody does anything.
* `TxFairness` (`submission`, `submission_unsettled`): a report that reached the browser is given to
  the callback (the event loop), and the node includes and finalizes what is in its pool as long as it
  can. Nothing is assumed of the user, who may never sign, or of forks and disconnections,
  which may happen at any time; `MaxForks` bounds the forks of one extrinsic, as finality does.
* `FairSessionSpec` (`session`): the timers of the browser fire, the 1.5 seconds before connecting
  and the five seconds of an attempt. The node may never answer, and neither may the extension.
* `FairVerifySpec` (`verify`): each lookup goes on, separately: a file that was opened is read, and
  a query is answered or fails, because the provider rejects its requests when the socket
  closes. The user may do nothing, or go on starting lookups while names are free.
* The run `pages` states no liveness: a form waits for the promise of its submission, which
  need not settle (first finding).

## Proofs

All theorems hold for every value of the constants under their named assumptions: accounts are not
`None` or `Root`, `Blake2_256` maps keys to key ids, bounds are naturals (at least one call of the
extension can wait), the bound of the lists and the cap fit in `u32`, no credential is `None`, `None` is no hash of a document and no status of a DID, the addresses of keys made in the browser are neither
anybody's account nor `None`. None assumes the sets finite or the digest injective.

**DID pallet** (`DidPallet_proofs`). `DidInvariance` proves `DidSpec => []DidInv`, from which the three
state invariants of the run `did` follow, and with which its three action properties are proved.
`DidInv` adds `DocumentInOrder` to the three: a document is stored under its controller, and created
no later than it was updated, no later than now. Without it the others are not inductive:
that registration happens after the creation of the DID needs that creation is not in the
future, and that `OwnerChangesDid` stamps the right account needs the controller to be the key. The
argument has three layers. For each call a lemma (`CreateDidUpdates`, `AddPublicKeyUpdates`, ...)
says that it stores one sound document, or one sound institution, of one account. `DocumentStored` and
`InstitutionStored` say that storing one such record keeps the invariant. `DidInvPreserved` joins
them over `DidSteps`. That a pushed or retained list of keys is still distinct and bounded is the
first part of the module. The two pallets that build on this one cite `DidInv` and `DidSteps`.

**Credential pallet** (`CredentialPallet_proofs`). `CredentialInvariance` proves
`CredentialSpec => []CredentialInv`; the state invariants of the runs `credential` and
`credential_time` follow, and `HistoryCorrect` and `VerdictCorrect` prove their action properties.
`CredentialInv` adds `CountsUsed` to the invariants: each value the counter has passed belongs to
exactly one credential and no other value to any. That is what makes an id fresh although
an id is a tuple of the counter and the parties, and a fresh id is what keeps the hash index one to
one and stops an issuance from overwriting. Each call is first shown to be one of three steps: an
issuance, an amendment (`SoundAmendment`: the issuer replaces a credential that is not revoked by one that
differs in metadata or in being revoked), or nothing. `RefinementCorrect` proves
`CredentialSpec /\ []CounterLive => LedgerRefined`: an issuance is `IssueCredential` of the
ledger, an amendment `RevokeCredential` or a stutter, and the calls of the DID pallet
its four other actions or a stutter.

**Reputation pallet** (`ReputationPallet_proofs`). `ReputationInvariance` proves
`ReputationSpec => []ReputationInv`, the conjunction of the state invariants with `DidInv`; the
state invariants of the runs `reputation` and `endorsements` follow, and their two action
properties are proved from it. The parts need one another: a removal decrements both counters
by one, which keeps them equal to the lengths only because the flag is set exactly when both lists
hold one entry for the pair; and a saturating sum is the capped exact sum only because the cap is below
the width of the integers. `EndorsementHasParties` is proved though no run checks it.

**Submission** (`TxSubmission_proofs`). `SubmissionInvariance` proves `TxSpec => []SubmissionInv`; the four
invariants of the run `submission` and `VerdictKept` follow. What makes it inductive is what
a report still in transit says of the node, which has moved on since: a report of finality
is the present state of the extrinsic (`ReportsInStep`), and a report of a failed dispatch means that the
extrinsic cannot take effect unless there was a fork (`FailureStands`). A step changes one
submission only (`OthersKept`), so each lemma is about that one.

`SubmissionSeen` proves `OnLedgerSpec => SeenByPages`: over any ledger without forks, with any calls and other
users, `submitTransaction` does only what `Extrinsics` says, its promise fails where
`Extrinsics` fails and succeeds where it is final. Each step of the detailed specification is one step of the
abstract one or a stutter. The invariant (`EffectInv`) adds to `SubmissionInv` whether the call has taken effect:
a report of a failed dispatch must find the extrinsic still "in the pool", and one of
finality must find it "in a block". The only hypothesis is that `None` is no extrinsic. `SeenByPages` is
stated for the proof; no run checks it.

**Ledger** (`Ledger_proofs`). `LedgerStep`: a step of the ledger keeps its types, never takes a DID or
an institution away, and never undoes a certificate or a revocation. The proofs about the
frontend use little else of the chain. From it come the lemmas about answers of queries: a credential
that the chain once said (`SaidByChain`: these parties, revoked if it was found so) is said by it for ever
(`SaidStays`), and formatting does not change that (`FormattedSaid`).

**Session** (`Session_proofs`). `SessionInvariance` proves `SessionSpec => []SessionInv`, over a ledger on
which anything may happen; `ShownIsOnChain` and `SeenAsSessionStep` follow. The strengthening says of
the checks under way that a positive answer they carry is still true (`AnswerOnChain`), which holds because the ledger
never takes anything away.

**Verification page** (`VerifyPage_proofs`). `VerifyInvariance` proves `VerifySpec => []VerifyInv`, over any
ledger, any number of lookups and cameras; `VerdictHonest` follows. The strengthening says what each lookup
knows in each of its phases (`LookupHonest`): the credential it carries is certified with that holder and
issuer, and was read as revoked if it was revoked when the lookup began. `ScannerOwnsCamera` is
inductive as it stands, which `CameraCorrect` proves.

**Site** (`Site_proofs`). `SiteInvariance` proves `SiteSpec => []SiteInv`, from which seven of the nine
properties of the run `pages` follow. `SiteInv` has a part for each page and one for each thing that
the pages share:

* an extrinsic carries a call of the page that sent it, and once it is in a block its effect
  stands (`EffectStands`), however late the page hears of it, and is shared with no other extrinsic in a
  block (`SameTarget`): together `TakesEffectOnce`, the theorem `EffectsStanding`;
* an extrinsic is awaited only by the page on the screen (`MountedShown`), by at most
  one slot per form (`WaitsForOne`), and only while the form is disabled;
* the recipient found is an account that has a DID, and past the first step there is no search
  under way that could replace it;
* what a fetch carries and what a list shows was said by the chain (`SaidByChain`); what the holder's list
  shows is from one fetch, for one DID, and revoked wherever the chain had revoked it when that fetch
  began.

The argument has three layers. First, what can become of an extrinsic in a step (`ExtrinsicsGoOn`), shown of every
operation of `Extrinsics`. Second, one lemma per action of the site (`NavigateMoves`, `OnIssueMoves`, ...)
that says which part of the state it moves and how; `StepMoves` joins them into `SiteMoves`. Third,
one lemma per part of the invariant, which needs to look only at the moves of its own page
(`DidFormKept`, `SearchKept`, `ListKept`, ...); `SiteInvKept` joins these.

Two theorems close the circle with the other modules. `StoresSeenAsSession` shows that the pages write
to the stores only what `Session` allows for (`FormsWriteStores`), as `SeenAsSessionStep` shows that the
session does only what the pages assume. `NothingTakenBack` shows that the pages' own calls keep `LedgerGrows`,
of which `Session` and `VerifyPage` take the chain to be.

`VerifiedShownIsVerified` and the half of `InstitutionShownExists` that is about verification are
false of a chain on which root revokes an institution while a page shows it; the comments on them
say so, and the tours have no such step. `AdminSeesVerified` and `InstitutionsShownExist` therefore
assume `[][RootRevokesNothing]_ledgerVars` and nothing else, with an invariant (`VerifiedInv`) of their own.
The other half needs no such hypothesis (`ShownInstitutionIsKnown`). That the calls which the pages send
cannot do it is part of the model: the page of the administrator signs with the connected account, and
`revoke_institution` asks for root.

**Model-checked only**: the liveness properties `ExpiryTakesEffect`, `FinalizedSettles`, `ConnectingEnds` and
`LookupEnds`, which the prover cannot handle.

## Findings

1. `submission_unsettled`. `submitTransaction`, "with proper error handling and status updates", ignores
   the statuses of an extrinsic that the node discards: its promise never settles, and the page that
   awaits it stays in its submitting state.
2. `verify_expired`. `formatCredentialData` takes `expiresAt` for a time, and the chain stores a block
   number there; `normalizeTimestamp` answers `null` for numbers that small. So a page never
   shows an expiration, and an expired credential, which the chain refuses, is shown as
   "authentic and active on the blockchain".
3. `issue_recipient`. The form of a credential leaves step 1 when the last search found an active DID,
   whatever address is in the input by then: the credential is issued to an address that was never
   searched for, under the verified mark of another one.

## Observations

Met while modelling; the models behave so, and no property claims otherwise.

* *Pallets.* The bound of the list of the issuer is the one documented "per holder", and no list is ever
  pruned: an institution can issue 100 credentials in its life, then every issuance fails with
  `TooManyCredentials`. `CredentialStatus::Expired` is never assigned; expiry shows in
  `verify_credential` only. Nothing calls `record_credential_issuance`, "called by the credential pallet",
  so `credentials_issued` counts nothing unless root does (issuing and recording are two extrinsics with no
  protocol between them); `record_credential_verification` can be
  called by any account for itself, as often as it likes.
* *Issuing form.* The hash of a removed file may come after it is gone, or after that of its successor, and
  is kept (`IssueCredentialForm.tsx:160-188`): the review shows, and sends, the hash of another
  document. `ReviewedHasHash` states what does hold. An expiration that is not
  in the future is not refused by the form: it gives a block that is past, or a negative number, which the client
  refuses to encode. A form that is left while its submission goes on and opened again may submit the same document
  a second time; the second extrinsic fails in its block, and is paid for (`TakesEffectOnce`). The same is
  true of the forms of DIDs and institutions.
* *Camera.* A camera granted after the scanner dialog was closed, with its page left or still open, finds no
  video element: it is started for nobody and never stopped (`VerifyCredential.tsx:152-177`).
  `ScannerOwnsCamera` speaks of a stream that was stored.
* *Created DID.* After a creation the session shows the address of the keys made in the
  browser (`CreateDIDForm.tsx:206`), while the chain registers the account that signed; the checks of the
  session repair it. The confirmation of the backup survives "Generate New".
* *After leaving.* The continuation of a submission still navigates (`IssueCredential.tsx`,
  `CreateDIDPage.tsx`), so that a user is moved from the page they went to.
* *Stores.* The list of credentials lives in a store: another account sees the list of the one before until its
  own comes, and a late fetch for the previous DID may overwrite it; `HolderSeesChain` says that it is one
  DID's list, not that it is the DID of the session. A session may likewise show the DID of one account with the
  institution of another, when a registration ends after the account was changed.
* *Dashboard and status.* "Active Recipients" counts the distinct `holder`s of ids, which have no such field,
  so it is 1 at most (`Dashboard.tsx:48-55`). The statistics are modelled as they are, and no property is
  about them. `ChainStatus` shows "Offline" when the timer fired although
  the api became ready later. The institution page spins for ever for an institution without a DID address.
* *Administration.* The buttons come back when the extrinsic is sent, not when it is final; an error thrown
  in the callback is caught by nobody; a failure of the call inside `sudo` is not a dispatch error of
  the extrinsic (`AdminVerification.tsx:90-149`). Revocation is sent without `sudo` and always refused.

## Not modelled

* Fees, weights, nonces, XCM, collator selection, sessions and the node: library code configured by the
  runtime. Sudo is the origin `Root`, and on the pages the account `Sudo`. The template pallet is a scaffold
  that no other part reads.
* Collisions of `blake2_256`: the ids and hashes of the model are injective.
* Contents of metadata, names, keys and comments; encoding (hex, SS58, JSON); the events of the pallets (each
  is a function of its call).
* The error paths inside @polkadot/api: a report of a block carries the outcome of the dispatch; what
  the library reports when it cannot fetch the events of a block is not considered.
* Fields that no property tells apart: those of steps 2 and 3 of the issuing form (their validation is
  taken to end within the turn of the click), of the registration form, and the documents attached to a
  registration, which never leave the browser; searching, sorting and exporting lists.
* Code that nothing calls: `addNotification` and with it the list of notifications, `addPublicKey` and
  `removePublicKey` of the DID store, `selectAccount`, `updateCredentialMetadata` and `addPublicKey` of
  `transactions.ts`. `useBalance` displays a balance that nothing else reads.
* Layout, wording and styling of the pages; the home page, the settings, the sidebar.
