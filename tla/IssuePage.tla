----------------------------- MODULE IssuePage ------------------------------
(***************************************************************************)
(* pages/IssueCredential.tsx and IssueCredentialForm.tsx: an institution   *)
(* looks a recipient up, describes a credential, uploads the document,     *)
(* whose hash is computed in the background, reviews and submits.  What    *)
(* the fields of steps 2 and 3 hold is left out; a step that does not      *)
(* accept them does not go on.                                             *)
(***************************************************************************)
EXTENDS Extrinsics, Integers

CONSTANTS
  Days,           \* days from now to an expiration date, which may be past
  BlocksPerDay    \* 14400 in the code

ASSUME DaysAssumption == Days \subseteq Int /\ BlocksPerDay \in Nat

\* null is neither the hash of a document nor the status of a DID.
ASSUME NullAssumption == None \notin Hashes \cup DidStatus

VARIABLES
  step,              \* 1..5
  recipientDID,      \* the address in the input
  recipientInfo,     \* what the last search found, or None
  search,            \* the search under way, while isSearching
  uploadedDocument,  \* the file chosen, named by the hash of its content
  documentHash,      \* the hash that will be sent
  hashing,           \* files whose hash is being computed
  isSubmitting       \* from the click to the end of onSubmit

issueVars == <<step, recipientDID, recipientInfo, search, uploadedDocument,
               documentHash, hashing, isSubmitting>>
formVars == <<step, recipientDID, recipientInfo, search>>
documentVars == <<uploadedDocument, documentHash, hashing>>
-----------------------------------------------------------------------------
IssueFresh ==
  /\ step = 1
  /\ recipientDID = None
  /\ recipientInfo = None
  /\ search = None
  /\ uploadedDocument = None
  /\ documentHash = None
  /\ hashing = {}
  /\ isSubmitting = FALSE

\* The page is left; an onSubmit under way goes on with what it has captured.
LeaveIssue ==
  /\ step' = 1
  /\ recipientDID' = None
  /\ recipientInfo' = None
  /\ search' = None
  /\ uploadedDocument' = None
  /\ documentHash' = None
  /\ hashing' = {}
  /\ isSubmitting' = FALSE

\* The form is on the screen: the page asks for a DID and an institution.
IssueFormShown == HasDid /\ IsInstitution

\* Step 1: the input, and the button beside it, off while a search goes on.
SearchOffered == step = 1 /\ search = None /\ isReady

TypeRecipient(who) ==
  /\ step = 1
  /\ recipientDID' = who
  /\ UNCHANGED <<step, recipientInfo, search, documentVars, isSubmitting>>

\* searchRecipient up to its await.
SearchRecipient ==
  /\ SearchOffered
  /\ recipientDID # None
  /\ search' = [phase |-> "asked", who |-> recipientDID, answer |-> None]
  /\ UNCHANGED <<step, recipientDID, recipientInfo, documentVars, isSubmitting>>

RecipientRead ==
  /\ search # None /\ search.phase = "asked"
  /\ \E answer \in IF search.who \in Accounts THEN DidAnswers(search.who)
                                              ELSE {None} :
       search' = [search EXCEPT !.phase = "read", !.answer = answer]
  /\ UNCHANGED <<step, recipientDID, recipientInfo, documentVars, isSubmitting>>

\* Faulty: an address without a DID is taken for one that has it.
RecipientInfoAny(searched) == [name |-> searched.who, status |-> "active"]

\* Only an active recipient gets a name, its address as it was searched for.
RecipientInfo(searched) ==
  IF searched.answer = "active"
  THEN [name |-> searched.who, status |-> "active"]
  ELSE [name |-> None, status |-> IF searched.answer = None THEN "not_found"
                                  ELSE searched.answer]

RecipientFound ==
  /\ search # None /\ search.phase = "read"
  /\ recipientInfo' = RecipientInfo(search)
  /\ search' = None
  /\ UNCHANGED <<step, recipientDID, documentVars, isSubmitting>>
-----------------------------------------------------------------------------
\* Step 4 offers the file input while there is no document, and then only a
\* button that removes it.
UploadOffered == step = 4 /\ uploadedDocument = None
RemovalOffered == step = 4 /\ uploadedDocument # None

UploadDocument(file) ==
  /\ UploadOffered
  /\ uploadedDocument' = file
  /\ hashing' = hashing \cup {file}
  /\ UNCHANGED <<documentHash, formVars, isSubmitting>>

DocumentHashed(file) ==
  /\ file \in hashing
  /\ hashing' = hashing \ {file}
  /\ documentHash' = file
  /\ UNCHANGED <<uploadedDocument, formVars, isSubmitting>>

HashingFails(file) ==
  /\ file \in hashing
  /\ hashing' = hashing \ {file}
  /\ uploadedDocument' = None
  /\ UNCHANGED <<documentHash, formVars, isSubmitting>>

RemoveDocument ==
  /\ RemovalOffered
  /\ uploadedDocument' = None
  /\ documentHash' = None
  /\ UNCHANGED <<hashing, formVars, isSubmitting>>
-----------------------------------------------------------------------------
RecipientActive == recipientInfo # None /\ recipientInfo.status = "active"

\* Faulty: the hash need not be there yet.
StepCompleteUnhashed ==
  /\ step = 1 => RecipientActive
  /\ step = 4 => uploadedDocument # None

\* What nextStep asks for; in steps 2 and 3, that the fields are valid.
StepComplete ==
  /\ step = 1 => RecipientActive
  /\ step = 4 => uploadedDocument # None /\ documentHash # None

\* Faulty: the last step goes on too.
NextStepAlways ==
  /\ search = None /\ isReady
  /\ StepComplete
  /\ step' = step + 1
  /\ UNCHANGED <<recipientDID, recipientInfo, search, documentVars,
                 isSubmitting>>

\* The buttons under the form: back, and next until the last step.
NextOffered == step < 5 /\ search = None /\ isReady
PrevOffered == step > 1 /\ ~isSubmitting

\* The fields are checked within the turn of the click.
NextStep ==
  /\ NextOffered
  /\ StepComplete
  /\ step' = step + 1
  /\ UNCHANGED <<recipientDID, recipientInfo, search, documentVars,
                 isSubmitting>>

PrevStep ==
  /\ PrevOffered
  /\ step' = step - 1
  /\ UNCHANGED <<recipientDID, recipientInfo, search, documentVars,
                 isSubmitting>>

\* Faulty: the button stays on.
MaySubmitAgain == step = 5 /\ isReady

\* The button of step 5.
MaySubmit == step = 5 /\ isReady /\ ~isSubmitting

\* What step 5 shows of the credential to be issued, for the user to confirm.
Reviewed == [holder |-> recipientDID, hash |-> documentHash]

\* onSubmit with what the form shows.  A credential that expires awaits the
\* block number first; any other one is sent within the turn of the click.
\* With no account connected onSubmit is over within that turn.
SubmitForm(slot, expiring) ==
  LET call == [name |-> "issueCredential", by |-> account,
               holder |-> Reviewed.holder, hash |-> Reviewed.hash,
               expires |-> None]
  IN  /\ MaySubmit
      /\ account # None
      /\ IF expiring THEN Prepare(slot, call, "issue")
                     ELSE Send(slot, call, "issue")
      /\ isSubmitting' = TRUE
      /\ UNCHANGED <<formVars, documentVars>>

\* The block number has come, the days are counted, and the extrinsic is sent,
\* with the page there or gone.  A negative number is no block number: the
\* client refuses it, which is a failure.
IssuePrepared(slot, days) ==
  LET expires == block + days * BlocksPerDay
  IN  /\ InPhase(slot, "preparing")
      /\ expires >= 0
      /\ extrinsics' = [extrinsics EXCEPT ![slot].phase = "signing",
                                          ![slot].call.expires = expires]

\* The promise settles: in both cases the button comes back; after a success
\* the page goes on to /institution.
IssueSettles(slot) ==
  /\ Awaits("issue", slot)
  /\ isSubmitting' = FALSE
  /\ UNCHANGED <<formVars, documentVars>>

IssueFails(slot) ==
  /\ IssueSettles(slot)
  /\ Fails(slot) \/ PreparationFails(slot)
-----------------------------------------------------------------------------
\* Handlers of the form; they write nothing but its state.
IssueFormNext ==
  \/ \E who \in Addresses : TypeRecipient(who)
  \/ SearchRecipient \/ RecipientRead \/ RecipientFound
  \/ \E file \in Hashes :
       UploadDocument(file) \/ DocumentHashed(file) \/ HashingFails(file)
  \/ RemoveDocument
  \/ NextStep \/ PrevStep

IssueNext ==
  /\ \/ IssueFormNext /\ UNCHANGED extrinsics
     \/ \E slot \in Slots :
          \/ \E expiring \in BOOLEAN : SubmitForm(slot, expiring)
          \/ IssueFails(slot)
  /\ UNCHANGED <<ledgerVars, storeVars>>
-----------------------------------------------------------------------------
IssueTypeOK ==
  /\ step \in 1..5
  /\ recipientDID \in Addresses \cup {None}
  /\ recipientInfo \in
       [name : Addresses \cup {None},
        status : {"active", "inactive", "not_found"}] \cup {None}
  /\ search \in [phase : {"asked", "read"}, who : Addresses,
                 answer : {None, "active", "inactive"}] \cup {None}
  /\ uploadedDocument \in Hashes \cup {None}
  /\ documentHash \in Hashes \cup {None}
  /\ hashing \subseteq Hashes
  /\ isSubmitting \in BOOLEAN

\* "They must have an active DID to receive credentials": past step 1 a
\* recipient has been found whose DID is on chain, whatever searches were
\* made, failed, or were answered late (it may be inactive again by then).
PastStep1Found ==
  step > 1 => /\ RecipientActive /\ search = None
              /\ recipientInfo.name \in Accounts
              /\ did[recipientInfo.name] # "none"

\* "Please search and verify the recipient first": the recipient that was
\* verified is the one in the form, to whom the credential will be issued.
PastStep1Verified ==
  step > 1 => recipientInfo.name = recipientDID

\* "Please upload a document": the review is never reached, and nothing is
\* ever submitted, without a hash of a document, however late hashes come and
\* uploads fail (it need not be the hash of the document that is shown).
ReviewedHasHash ==
  /\ step = 5 => documentHash # None
  /\ \A slot \in Slots :
       Pending("issue", slot) => extrinsics[slot].call.hash # None
=============================================================================
