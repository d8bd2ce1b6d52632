-------------------------------- MODULE Site --------------------------------
(***************************************************************************)
(* App.tsx: the pages behind the routes, one at a time on the screen, over *)
(* one session, one set of extrinsics and one ledger.  When a page is left *)
(* its state is lost, while its extrinsics, their promises and the fetches *)
(* that write to a store go on.  The effect of a page runs some time after *)
(* the change that calls for it.                                           *)
(***************************************************************************)
EXTENDS CreateDidForm, RegistrationForm, IssuePage, IssuedPage, AdminPage,
        CredentialsPage, InstitutionPage, DashboardPage

VARIABLE route   \* the page on the screen

siteVars == <<ledgerVars, storeVars, extrinsics, didFormVars, regVars,
              issueVars, issuedVars, adminVars, listVars, profileVars,
              dashboardVars, route>>
-----------------------------------------------------------------------------
Routes == {"dashboard", "create-did", "register", "institution", "issue",
           "issued", "admin", "credentials", "other"}

PagesFresh ==
  /\ DidFormFresh /\ RegFresh /\ IssueFresh /\ IssuedFresh /\ AdminFresh
  /\ CredentialsFresh /\ ProfileFresh /\ DashboardFresh

SiteInit == ExtrinsicsInit /\ PagesFresh

PagesLeft ==
  /\ LeaveDidForm /\ LeaveRegistration /\ LeaveIssue /\ LeaveIssued
  /\ LeaveAdmin /\ LeaveCredentials /\ LeaveProfile /\ LeaveDashboard

PagesSame ==
  UNCHANGED <<didFormVars, regVars, issueVars, issuedVars, adminVars,
              listVars, profileVars, dashboardVars, route>>

\* Another page is shown; one that is on the screen already stays as it is.
Show(page) ==
  /\ route' = page
  /\ IF route = page
     THEN UNCHANGED <<didFormVars, regVars, issueVars, issuedVars, adminVars,
                      listVars, profileVars, dashboardVars>>
     ELSE PagesLeft

\* The extrinsics when a page is shown and the promise of one has settled.
SettledBehind(slot, page) ==
  [IF route = page THEN extrinsics ELSE Abandoned EXCEPT ![slot] = None]

Navigate(page) ==
  /\ route # page
  /\ route' = page
  /\ PagesLeft
  /\ extrinsics' = Abandoned
  /\ UNCHANGED <<ledgerVars, storeVars>>
-----------------------------------------------------------------------------
\* The form of a DID is on its page, or in the dialog of the dashboard.
DidFormPage == IF route = "create-did" THEN "create-did" ELSE "dialog"

DidFormShown == route = "create-did" \/ (route = "dashboard" /\ DialogShown)

OnDidForm ==
  /\ DidFormShown
  /\ \/ DidFormNext /\ UNCHANGED extrinsics
     \/ \E slot \in Slots :
          \/ SubmitDid(slot, DidFormPage)
          \/ Awaits(DidFormPage, slot) /\ CreateDidFails(slot)
  /\ UNCHANGED <<ledgerVars, storeVars, regVars, issueVars, issuedVars,
                 adminVars, listVars, profileVars, dashboardVars, route>>

DialogLeft ==
  /\ LeaveDidForm
  /\ UNCHANGED <<regVars, issueVars, issuedVars, adminVars, listVars,
                 profileVars, stats, statsFetches, statsFor, route>>

\* What the dialog has sent is left to the dashboard, which is told of success.
DialogGone ==
  [slot \in Slots |->
     IF Awaits("dialog", slot) THEN [extrinsics[slot] EXCEPT !.page = "dashboard"]
                               ELSE extrinsics[slot]]

\* The dialog is closed, or not drawn any more: its form is gone.
DialogCloses ==
  /\ route = "dashboard" /\ showCreateDID
  /\ showCreateDID' = (showCreateDID /\ ~DialogShown)
  /\ DialogLeft
  /\ extrinsics' = DialogGone
  /\ UNCHANGED <<ledgerVars, storeVars>>

\* A DID is created: the session shows the address of the keys that were
\* made, also when the form is gone.  A form with a page of its own leads on
\* to the dashboard from wherever the user is by then.  A dashboard that is
\* still there closes its dialog, the one the DID is from or one opened since.
DidIsCreated(slot) ==
  /\ \E page \in {"create-did", "dialog", "dashboard"} : Pending(page, slot)
  /\ InPhase(slot, "block")
  /\ didStore' = WithDid(didStore, extrinsics[slot].call.key)
  /\ \/ /\ extrinsics[slot].page = "create-did"
        /\ Show("dashboard")
        /\ extrinsics' = SettledBehind(slot, "dashboard")
     \/ /\ Awaits("dialog", slot) \/ Awaits("dashboard", slot)
        /\ showCreateDID' = FALSE
        /\ DialogLeft
        /\ extrinsics' = [DialogGone EXCEPT ![slot] = None]
     \/ /\ extrinsics[slot].page # "create-did"
        /\ ~extrinsics[slot].mounted
        /\ PagesSame
        /\ Withdraw(slot)
  /\ UNCHANGED <<ledgerVars, isReady, account>>
-----------------------------------------------------------------------------
\* Faulty: the institution is the account that is connected by then.
RegistrationEndsConnected(slot) ==
  /\ Pending("register", slot)
  /\ \/ Finalized(slot) /\ didStore' = WithInstitution(didStore, account)
     \/ Fails(slot) /\ UNCHANGED didStore
  /\ IF extrinsics[slot].mounted THEN RegistrationSettles
                                 ELSE UNCHANGED regVars

\* The promise of a registration settles, with the form there or gone.
RegistrationEnds(slot) ==
  /\ Pending("register", slot)
  /\ Registered(slot) \/ (Fails(slot) /\ UNCHANGED didStore)
  /\ IF extrinsics[slot].mounted THEN RegistrationSettles
                                 ELSE UNCHANGED regVars

OnRegistration ==
  /\ \/ /\ route = "register"
        /\ \/ RegFormNext /\ UNCHANGED extrinsics
           \/ \E slot \in Slots : SubmitRegistration(slot, "register")
        /\ UNCHANGED didStore
     \/ \E slot \in Slots : RegistrationEnds(slot)
  /\ UNCHANGED <<ledgerVars, isReady, account, didFormVars, issueVars,
                 issuedVars, adminVars, listVars, profileVars, dashboardVars,
                 route>>
-----------------------------------------------------------------------------
OnIssue ==
  /\ route = "issue"
  /\ IssueFormShown
  /\ IssueNext
  /\ UNCHANGED <<didFormVars, regVars, issuedVars, adminVars, listVars,
                 profileVars, dashboardVars, route>>

\* The page asks for a DID and an institution, and drops the form when the
\* session shows them no more.
IssueFormVanishes ==
  /\ route = "issue"
  /\ ~IssueFormShown
  /\ LeaveIssue
  /\ extrinsics' = Abandoned
  /\ UNCHANGED <<ledgerVars, storeVars, didFormVars, regVars, issuedVars,
                 adminVars, listVars, profileVars, dashboardVars, route>>

\* onSubmit goes on after its await, whatever is on the screen by then.
IssueGoesOn(slot) ==
  /\ \E days \in Days : IssuePrepared(slot, days)
  /\ UNCHANGED <<ledgerVars, storeVars>>
  /\ PagesSame

\* A credential is issued: on to /institution, from wherever the user is.
IssueSucceeds(slot) ==
  /\ Pending("issue", slot)
  /\ InPhase(slot, "block")
  /\ Show("institution")
  /\ extrinsics' = SettledBehind(slot, "institution")
  /\ UNCHANGED <<ledgerVars, storeVars>>

OnIssued ==
  /\ route = "issued"
  /\ IssuedNext
  /\ UNCHANGED <<didFormVars, regVars, issueVars, adminVars, listVars,
                 profileVars, dashboardVars, route>>

\* The first branch of the effect: a session that shows no institution.
IssuedRedirects ==
  /\ route = "issued"
  /\ ~IsInstitution
  /\ Navigate("institution")

OnAdmin ==
  /\ route = "admin"
  /\ AdminNext
  /\ UNCHANGED <<didFormVars, regVars, issueVars, issuedVars, listVars,
                 profileVars, dashboardVars, route>>

\* Fetches for the store go on when the page is left.
OnCredentials ==
  /\ CredentialsNext
  /\ route # "credentials" => \E fetch \in ListFetches :
                                ListRead(fetch) \/ ListFetched(fetch)
  /\ UNCHANGED <<didFormVars, regVars, issueVars, issuedVars, adminVars,
                 profileVars, dashboardVars, route>>

OnInstitution ==
  /\ route = "institution"
  /\ ProfileNext
  /\ UNCHANGED <<didFormVars, regVars, issueVars, issuedVars, adminVars,
                 listVars, dashboardVars, route>>

OnDashboard ==
  /\ route = "dashboard"
  /\ DashboardNext
  /\ UNCHANGED <<didFormVars, regVars, issueVars, issuedVars, adminVars,
                 listVars, profileVars, route>>
-----------------------------------------------------------------------------
\* What nobody sees: the pool and the chain, and promises of pages that are
\* gone and whose continuation writes nothing but the page.
GoesOnUnseen(slot) ==
  /\ \/ Included(slot) \/ Discarded(slot) \/ UnwatchedEnds(slot)
     \/ SignedAndSent(slot) /\ ~AdminCalls(slot, "verifyInstitution")
     \/ AbandonedFails(slot) /\ extrinsics[slot].page # "register"
          /\ UNCHANGED ledgerVars
     \/ Awaits("dashboard", slot) /\ Fails(slot) /\ UNCHANGED ledgerVars
     \/ /\ \E page \in {"issued", "admin"} :
             Pending(page, slot) /\ ~Awaits(page, slot)
        /\ Finalized(slot)
        /\ UNCHANGED ledgerVars
  /\ UNCHANGED storeVars
  /\ PagesSame

SessionGoesOn ==
  SessionStep /\ UNCHANGED <<ledgerVars, extrinsics>> /\ PagesSame

\* Other actors of the chain, at any time.
ChainGoesOn ==
  LedgerNext /\ UNCHANGED <<storeVars, extrinsics>> /\ PagesSame

SiteNext ==
  \/ \E page \in Routes : Navigate(page)
  \/ OnDidForm \/ DialogCloses
  \/ OnRegistration
  \/ OnIssue \/ IssueFormVanishes
  \/ OnIssued \/ IssuedRedirects
  \/ OnAdmin \/ OnCredentials \/ OnInstitution \/ OnDashboard
  \/ \E slot \in Slots :
       \/ DidIsCreated(slot) \/ GoesOnUnseen(slot)
       \/ IssueGoesOn(slot) \/ IssueSucceeds(slot)

\* The document has been loaded, at any route and over any ledger, with the
\* session that the browser kept, which may have connected since: one that the
\* chain has borne out so far.
SiteGenesis ==
  /\ LedgerTypeOK
  /\ isReady \in BOOLEAN
  /\ account \in Accounts \cup {None}
  /\ didStore \in DidStore
  /\ IsInstitution => institution[didStore.institution] # "none"
  /\ SiteInit
  /\ route \in Routes

\* The site over a session and a chain that go on as they like.
SiteLedgerNext == SiteNext \/ SessionGoesOn \/ ChainGoesOn

SiteSpec == SiteGenesis /\ [][SiteLedgerNext]_siteVars
-----------------------------------------------------------------------------
\* The types of the pages.
SiteTypeOK ==
  /\ route \in Routes
  /\ didStore \in DidStore
  /\ DidFormTypeOK /\ RegTypeOK /\ IssueTypeOK /\ IssuedTypeOK
  /\ institutions \in [Accounts -> InstitutionStatus]
  /\ {verifying, revokingInstitution} \subseteq Accounts \cup {None}

\* One opening of a form has one submission under way: its button is off from
\* the click until the promise settles, also while onSubmit awaits the block
\* number.  (A form that is left and opened again knows nothing of the first
\* submission, and may pay for a second one.)
AwaitedBy(page) == {slot \in Slots : Awaits(page, slot)}

FormsSubmitOnce ==
  /\ \A page \in {"create-did", "dialog", "register", "issue"} :
       Cardinality(AwaitedBy(page)) <= 1
  /\ AwaitedBy("create-did") \cup AwaitedBy("dialog") # {} => didSubmitting
  /\ AwaitedBy("register") # {} => regSubmitting
  /\ AwaitedBy("issue") # {} => isSubmitting /\ step = 5

\* What a call has done once it is in a block, and nothing takes back.
EffectStands(call) ==
  /\ call.name = "createDid" => did[call.by] # "none"
  /\ call.name = "registerInstitution" => institution[call.by] # "none"
  /\ call.name = "issueCredential" =>
       /\ Certified(call.hash)
       /\ certificate[call.hash].holder = call.holder
       /\ certificate[call.hash].issuer = call.by
  /\ call.name = "revokeCredential" =>
       /\ Certified(call.hash) /\ certificate[call.hash].revoked
       /\ certificate[call.hash].issuer = call.by

\* Two calls for the same DID, institution, document or revocation.
SameTarget(call, other) ==
  /\ call.name = other.name
  /\ \/ /\ call.name \in {"createDid", "registerInstitution"}
        /\ call.by = other.by
     \/ /\ call.name \in {"issueCredential", "revokeCredential"}
        /\ call.hash = other.hash

\* A call that its page is about to be told of as a success has had its own
\* effect, which still stands, whatever others did on the chain before and
\* since; and it shares that effect with no other call: of submissions for one
\* target, by a form that was left and opened again or by two pages, no two are
\* in a block, and the later one ends as a failure.
TakesEffectOnce ==
  \A slot \in Slots : InPhase(slot, "block") =>
    /\ EffectStands(extrinsics[slot].call)
    /\ \A other \in Slots \ {slot} : InPhase(other, "block") =>
         ~SameTarget(extrinsics[slot].call, extrinsics[other].call)

\* An institution that the session or its own page shows is one that the chain
\* knows, verified if the page says so, whatever registrations and fetches
\* fail and whichever account is connected when a registration ends (root
\* revokes nothing here).  It need not be the institution of that account.
InstitutionShownExists ==
  /\ IsInstitution => institution[didStore.institution] # "none"
  /\ institutionData # None => institution[institutionData.did] # "none"
  /\ ShownAsVerified => institution[institutionData.did] = "verified"
=============================================================================
