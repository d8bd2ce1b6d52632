------------------------------- MODULE MCSite -------------------------------
(***************************************************************************)
(* Tours of the site.  A run visits the pages of one tour, with a session  *)
(* that changes a few times and other actors of the chain that matter to   *)
(* these pages: every page is met with every change behind it, and the     *)
(* states of one tour are not multiplied by those of another.              *)
(***************************************************************************)
EXTENDS Site, TLC

CONSTANTS issuer, user

VARIABLES
  tour,
  sessionSteps

mcVars == <<siteVars, tour, sessionSteps>>

\* An expiration date that is past, and one to come.
MCDays == {-1, 1}

Tours == {"recipient", "document", "issued", "admin", "holder", "overview",
          "identity"}

IssuingTour == tour \in {"recipient", "document"}

PagesOf ==
  [recipient |-> {"issue", "institution"},
   document  |-> {"issue", "institution"},
   issued    |-> {"issued", "institution"},
   admin     |-> {"admin", "other"},
   holder    |-> {"credentials", "other"},
   overview  |-> {"institution", "other"},
   identity  |-> {"dashboard", "create-did", "register"}]

\* Where a tour starts, who is connected, and what the issuer is on chain.
Start(page, who, status) ==
  [route |-> page, account |-> who, institution |-> status]

Starts ==
  [recipient |-> Start("issue", issuer, "verified"),
   document  |-> Start("issue", issuer, "verified"),
   issued    |-> Start("issued", issuer, "verified"),
   admin     |-> Start("admin", user, "pending"),
   holder    |-> Start("credentials", user, "verified"),
   overview  |-> Start("institution", issuer, "pending"),
   identity  |-> Start("dashboard", user, "none")]

\* Bounds: extrinsics under way at one time, changes of the session (the api's
\* among them), and documents that the chain holds at the end.
MaxExtrinsics ==
  [recipient |-> 1, document |-> 2, issued |-> 2, admin |-> 2, holder |-> 0,
   overview  |-> 0, identity |-> 2]

MaxSessionSteps ==
  [recipient |-> 0, document |-> 1, issued |-> 2, admin |-> 1, holder |-> 3,
   overview  |-> 3, identity |-> 1]

MaxCertificates ==
  [recipient |-> 1, document |-> 1, issued |-> 1, admin |-> 0, holder |-> 1,
   overview  |-> 2, identity |-> 0]

\* Bounds of what is filled in.  Of the two tours of the form of a credential
\* one types several addresses and no expiration, the other one chooses several
\* documents and an expiration; the lists are filtered in one way.
MayFillIn ==
  /\ tour = "recipient" =>
       /\ recipientDID' # issuer
       /\ Cardinality(hashing'
                        \cup ({uploadedDocument', documentHash'} \ {None})) <= 1
       /\ \A slot \in Slots : ~InPhase(slot, "preparing")'
  /\ tour = "document" =>
       /\ recipientDID' \in {None, user}
       /\ \A slot \in Slots :
            (Pending("issue", slot) /\ ~InPhase(slot, "preparing"))' =>
              extrinsics'[slot].call.expires # None
  /\ filterStatus' # "revoked"
  /\ statusFilter' \in {"all", "revoked"}

HasDidAtStart(who) == tour = "identity" => who # user

MCLedgerInit ==
  /\ block = 0
  /\ did = [who \in Accounts |->
              IF HasDidAtStart(who) THEN "active" ELSE "none"]
  /\ institution = [who \in Accounts |->
              IF who = issuer THEN Starts[tour].institution ELSE "none"]
  /\ certificate = [hash \in Hashes |-> None]

\* The session has settled for the account; in most tours the api is still to
\* come, in the others a step of the session is another change.
MCStoresInit ==
  LET who == Starts[tour].account
  IN  /\ isReady = (IssuingTour \/ tour = "identity")
      /\ account = who
      /\ didStore = IF ~HasDidAtStart(who) THEN EmptyDid
                    ELSE [did |-> who, status |-> "active",
                          institution |-> IF who = issuer THEN who ELSE None]

MCSiteInit ==
  /\ tour \in Tours
  /\ MCLedgerInit /\ MCStoresInit /\ SiteInit
  /\ route = Starts[tour].route
  /\ sessionSteps = 0

\* In the tour of the forms of DIDs and institutions the session changes to
\* another account while a form is about to be told of a success; the rest of
\* the store is what the forms make of it.
SessionMay ==
  tour = "identity" => /\ AccountChanges /\ account' = issuer
                       /\ \E slot \in Slots : InPhase(slot, "block")

\* A document is submitted twice, or the session changes.
MayBeUnderWay ==
  IF tour = "document" THEN MaxExtrinsics[tour] - sessionSteps'
                       ELSE MaxExtrinsics[tour]

\* What others do on the chain meanwhile.
OthersAct ==
  /\ \/ /\ tour = "recipient"
        /\ \E status \in {"active", "inactive"} : SetDidActive(user, status)
     \/ /\ tour \in {"issued", "holder", "overview"}
        /\ \E hash \in Hashes :
             \/ IssueCredential(issuer, user, hash, None)
             \/ tour # "overview" /\ RevokeCredential(issuer, hash)
     \/ /\ tour = "overview"
        /\ SetInstitution(issuer, "verified")
     \/ /\ tour = "admin"
        /\ RegisterInstitution(user)
  /\ UNCHANGED <<storeVars, extrinsics>>
  /\ PagesSame

MCSiteNext ==
  /\ \/ /\ SiteNext \/ OthersAct
        /\ UNCHANGED sessionSteps
     \/ /\ sessionSteps < MaxSessionSteps[tour]
        /\ SessionGoesOn
        /\ SessionMay
        /\ sessionSteps' = sessionSteps + 1
  /\ route' \in PagesOf[tour]
  /\ MayFillIn
  /\ tour # "overview" => UNCHANGED profileVars
  /\ Cardinality({slot \in Slots : extrinsics'[slot] # None})
       <= MayBeUnderWay
  /\ Cardinality({hash \in Hashes : certificate'[hash] # None})
       <= MaxCertificates[tour]
  /\ UNCHANGED tour

\* The names of extrinsics, fetches and documents tell nothing.
Symmetry ==
  Permutations(Slots) \cup Permutations(Fetches) \cup Permutations(Hashes)

MCSiteSpec == MCSiteInit /\ [][MCSiteNext]_mcVars
=============================================================================
