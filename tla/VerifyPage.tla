----------------------------- MODULE VerifyPage -----------------------------
(***************************************************************************)
(* pages/Verify.tsx and VerifyCredential.tsx: a document hash is typed,    *)
(* read from a file, scanned from a QR code or taken from the link that    *)
(* opened the page; the credential is looked up on chain and a verdict is  *)
(* shown.  A lookup takes two queries, one after the other, and nothing    *)
(* stops a second lookup from being started while one is under way.        *)
(***************************************************************************)
EXTENDS RealQueries, FiniteSets

CONSTANTS
  Short,      \* a text of fewer than ten characters
  Now,        \* Date.now(), in the unit of Year2000Unix
  Lookups,    \* bound: names of the lookups under way at one time
  Cameras     \* bound: names of the media streams asked for in a run

ASSUME NowAssumption == Now \in Nat

VARIABLES
  isReady,      \* useBlockchain: the api is connected
  open,         \* the page is mounted
  initialHash,  \* the hash in the link, until the effect on it has run
  method,       \* the tab: hash, file or qr
  hashInput,    \* the text of the input
  isVerifying,  \* the spinner
  result,       \* verificationResult, or None
  lookups,      \* lookup => None, or where it stands and what it knows
  scanner,      \* showQRScanner
  qrCode,       \* the hash in the QR code dialog, or None when it is closed
  camera,       \* streamRef and scanIntervalRef, set while isCameraActive
  asked,        \* calls of getUserMedia that are not answered
  running       \* media streams whose tracks are not stopped

verdictVars == <<initialHash, method, hashInput, isVerifying, result,
                 lookups, qrCode>>
cameraVars == <<scanner, camera, asked, running>>
verifyVars == <<isReady, open, verdictVars, cameraVars>>
-----------------------------------------------------------------------------
Inputs == Hashes \cup {Short}

FreeLookups == {l \in Lookups : lookups[l] = None}

VerifyInit ==
  /\ isReady = FALSE
  /\ open = FALSE
  /\ initialHash = None
  /\ method = "hash"
  /\ hashInput = None
  /\ isVerifying = FALSE
  /\ result = None
  /\ lookups = [l \in Lookups |-> None]
  /\ scanner = FALSE
  /\ qrCode = None
  /\ camera = None
  /\ asked = {}
  /\ running = {}

\* verifyByHash up to its first await.  The lookup keeps, beside what the
\* code keeps, the verdict of the chain at that moment (was).  A short text is
\* refused with a message.
VerifyByHash(hash, l) ==
  IF hash \notin Hashes
  THEN UNCHANGED <<isVerifying, result, lookups>>
  ELSE /\ isVerifying' = TRUE
       /\ result' = None
       /\ lookups' = [lookups EXCEPT ![l] =
            [phase |-> "asked", hash |-> hash, credential |-> None,
             was |-> VerdictOnChain(hash)]]

\* The effect on initialHash and isReady.
AutoVerify(ready, hash) ==
  \/ /\ ready /\ hash \in Hashes
     /\ \E l \in FreeLookups : VerifyByHash(hash, l)
  \/ /\ ~(ready /\ hash \in Hashes)
     /\ UNCHANGED <<isVerifying, result, lookups>>

\* The page is opened, with or without ?hash= in its address.
OpenPage(hash) ==
  /\ ~open
  /\ open' = TRUE
  /\ initialHash' = IF isReady THEN None ELSE hash
  /\ hashInput' = hash
  /\ AutoVerify(isReady, hash)
  /\ UNCHANGED <<isReady, method, qrCode, cameraVars>>

\* The provider's api becomes ready; it never stops being so.
ApiBecomesReady ==
  /\ ~isReady
  /\ isReady' = TRUE
  /\ IF open THEN AutoVerify(TRUE, initialHash)
             ELSE UNCHANGED <<isVerifying, result, lookups>>
  /\ initialHash' = None
  /\ UNCHANGED <<open, method, hashInput, qrCode, cameraVars>>

\* What is on the screen: a spinner until the api is ready, then the tabs,
\* with a dialog over them while one is open.
Interactive == open /\ isReady
Uncovered == Interactive /\ ~scanner /\ qrCode = None

SelectMethod(tab) ==
  /\ Uncovered
  /\ method # tab
  /\ method' = tab
  /\ UNCHANGED <<isReady, open, initialHash, hashInput, isVerifying, result,
                 lookups, qrCode, cameraVars>>

TypeHash(text) ==
  /\ Uncovered
  /\ method = "hash"
  /\ hashInput' = text
  /\ UNCHANGED <<isReady, open, initialHash, method, isVerifying, result,
                 lookups, qrCode, cameraVars>>

\* The form: its button is off while a lookup is under way.
SubmitHash ==
  /\ Uncovered
  /\ method = "hash"
  /\ ~isVerifying
  /\ hashInput \in Inputs
  /\ \E l \in FreeLookups : VerifyByHash(hashInput, l)
  /\ UNCHANGED <<isReady, open, initialHash, method, hashInput, qrCode,
                 cameraVars>>

\* The file input is on at all times.  The file is read first.
UploadFile(hash) ==
  /\ Uncovered
  /\ method = "file"
  /\ \E l \in FreeLookups :
       lookups' = [lookups EXCEPT ![l] =
         [phase |-> "file", hash |-> hash, credential |-> None,
          was |-> "absent"]]
  /\ UNCHANGED <<isReady, open, initialHash, method, hashInput, isVerifying,
                 result, qrCode, cameraVars>>

\* The text of the file is there: a hash in it, or nothing of use.
FileRead(l) ==
  /\ lookups[l] # None /\ lookups[l].phase = "file"
  /\ IF lookups[l].hash \in Hashes
     THEN VerifyByHash(lookups[l].hash, l)
     ELSE /\ lookups' = [lookups EXCEPT ![l] = None]
          /\ UNCHANGED <<isVerifying, result>>
  /\ hashInput' = IF lookups[l].hash = None THEN hashInput
                                            ELSE lookups[l].hash
  /\ UNCHANGED <<isReady, open, initialHash, method, qrCode, cameraVars>>
-----------------------------------------------------------------------------
\* getCredentialByHash reads the chain.
NodeAnswers(l) ==
  /\ lookups[l] # None /\ lookups[l].phase = "asked"
  /\ \E credential \in CredentialAnswers(lookups[l].hash) :
       lookups' = [lookups EXCEPT ![l].phase = "read",
                                  ![l].credential = credential]
  /\ UNCHANGED <<isReady, open, initialHash, method, hashInput, isVerifying,
                 result, qrCode, cameraVars>>

\* Faulty: the spinner is left to the branch of the credential found.
EndLookupSpinning(l, shown) ==
  /\ result' = shown
  /\ isVerifying' = (isVerifying /\ ~shown.found)
  /\ lookups' = [lookups EXCEPT ![l] = None]

\* The result is shown and the spinner taken away, whatever else is under way.
EndLookup(l, shown) ==
  /\ result' = shown
  /\ isVerifying' = FALSE
  /\ lookups' = [lookups EXCEPT ![l] = None]

NotFound(l) ==
  /\ lookups[l] # None /\ lookups[l].phase = "read"
  /\ lookups[l].credential = None
  /\ EndLookup(l, [found |-> FALSE, was |-> lookups[l].was])
  /\ UNCHANGED <<isReady, open, initialHash, method, hashInput, qrCode,
                 cameraVars>>

\* getInstitution is asked for the name of the issuer.
AskIssuerName(l) ==
  /\ lookups[l] # None /\ lookups[l].phase = "read"
  /\ lookups[l].credential # None
  /\ lookups' = [lookups EXCEPT ![l].phase = "naming"]
  /\ UNCHANGED <<isReady, open, initialHash, method, hashInput, isVerifying,
                 result, qrCode, cameraVars>>

Found(l) ==
  /\ lookups[l] # None /\ lookups[l].phase = "naming"
  /\ \E answer \in InstitutionAnswers(lookups[l].credential.issuer) :
       EndLookup(l, [found |-> TRUE, credential |-> lookups[l].credential,
                     named |-> answer # None,
                     was |-> lookups[l].was])
  /\ UNCHANGED <<isReady, open, initialHash, method, hashInput, qrCode,
                 cameraVars>>

\* getVerificationStatus, and the badge beside it: the verdict on the card.
VerificationStatus ==
  IF result = None THEN None
  ELSE IF ~result.found THEN "Credential Not Found"
  ELSE IF result.credential.revoked THEN "Credential Revoked"
  ELSE IF /\ result.credential.expiresAt # None
          /\ result.credential.expiresAt < Now
       THEN "Credential Expired"
  ELSE "Valid Credential"

\* The lower part of the card, with what is said of the credential.
DetailsShown == result # None /\ result.found
-----------------------------------------------------------------------------
\* Hashes for which the page offers a QR code: the input's and the card's.
InputQr == IF method \in {"hash", "qr"} THEN {hashInput} ELSE {}

CardQr == IF DetailsShown THEN {result.credential.hash} ELSE {}

QrOffers == InputQr \cup CardQr

GenerateQRCode(hash) ==
  /\ Uncovered
  /\ hash \in QrOffers \ {None}
  /\ qrCode' = hash
  /\ UNCHANGED <<isReady, open, initialHash, method, hashInput, isVerifying,
                 result, lookups, cameraVars>>

CloseQRCode ==
  /\ Interactive
  /\ qrCode # None
  /\ qrCode' = None
  /\ UNCHANGED <<isReady, open, initialHash, method, hashInput, isVerifying,
                 result, lookups, cameraVars>>

OpenScanner ==
  /\ Uncovered
  /\ method = "qr"
  /\ scanner' = TRUE
  /\ UNCHANGED <<isReady, open, verdictVars, camera, asked, running>>

\* The button is there until a stream has started.
StartCamera(stream) ==
  /\ Interactive /\ scanner
  /\ camera = None
  /\ stream \notin asked \cup running
  /\ asked' = asked \cup {stream}
  /\ UNCHANGED <<isReady, open, verdictVars, scanner, camera, running>>

\* The stream is granted: it runs, and is kept if the video element is there.
CameraGranted(stream) ==
  /\ stream \in asked
  /\ asked' = asked \ {stream}
  /\ running' = running \cup {stream}
  /\ camera' = IF Interactive /\ scanner THEN stream ELSE camera
  /\ UNCHANGED <<isReady, open, verdictVars, scanner>>

CameraRefused(stream) ==
  /\ stream \in asked
  /\ asked' = asked \ {stream}
  /\ UNCHANGED <<isReady, open, verdictVars, scanner, camera, running>>

\* The stream that is kept is stopped, and only that one.
StopCamera ==
  /\ running' = running \ {camera}
  /\ camera' = None

PressStopCamera ==
  /\ Interactive /\ scanner
  /\ camera # None
  /\ StopCamera
  /\ UNCHANGED <<isReady, open, verdictVars, scanner, asked>>

\* Faulty: the dialog is closed and the camera left running.
CloseScannerOnly ==
  /\ Interactive /\ scanner
  /\ scanner' = FALSE
  /\ UNCHANGED <<isReady, open, verdictVars, asked, camera, running>>

\* The cross, Escape or a click beside the dialog.
CloseScanner ==
  /\ Interactive /\ scanner
  /\ StopCamera
  /\ scanner' = FALSE
  /\ UNCHANGED <<isReady, open, verdictVars, asked>>

\* The interval finds a code in the picture: the scanner is closed and the
\* hash looked up.
QRCodeScanned(hash) ==
  /\ Interactive /\ scanner
  /\ camera # None
  /\ StopCamera
  /\ scanner' = FALSE
  /\ hashInput' = hash
  /\ method' = "hash"
  /\ \E l \in FreeLookups : VerifyByHash(hash, l)
  /\ UNCHANGED <<isReady, open, initialHash, qrCode, asked>>

\* The page is left: the camera that is kept is stopped, the answers under way
\* are for nobody, and a permission that is asked for stays asked for.
LeavePage ==
  /\ open
  /\ open' = FALSE
  /\ StopCamera
  /\ initialHash' = None
  /\ method' = "hash"
  /\ hashInput' = None
  /\ isVerifying' = FALSE
  /\ result' = None
  /\ lookups' = [l \in Lookups |-> None]
  /\ scanner' = FALSE
  /\ qrCode' = None
  /\ UNCHANGED <<isReady, asked>>
-----------------------------------------------------------------------------
\* A lookup goes on: its file is read, or the node answers a query of it.
LookupGoesOn(l) ==
  FileRead(l) \/ NodeAnswers(l) \/ NotFound(l) \/ AskIssuerName(l) \/ Found(l)

VerifyNext ==
  \/ ApiBecomesReady
  \/ \E hash \in Inputs \cup {None} :
       OpenPage(hash) \/ UploadFile(hash) \/ TypeHash(hash)
  \/ \E tab \in {"hash", "file", "qr"} : SelectMethod(tab)
  \/ \E text \in Inputs : QRCodeScanned(text)
  \/ SubmitHash
  \/ \E l \in Lookups : LookupGoesOn(l)
  \/ \E hash \in Inputs : GenerateQRCode(hash)
  \/ CloseQRCode
  \/ OpenScanner
  \/ \E stream \in Cameras :
       StartCamera(stream) \/ CameraGranted(stream) \/ CameraRefused(stream)
  \/ PressStopCamera
  \/ CloseScanner
  \/ LeavePage

\* The page over a ledger on which anything may happen.
VerifyGenesis == LedgerInit /\ VerifyInit

VerifyLedgerNext ==
  \/ LedgerNext /\ UNCHANGED verifyVars
  \/ VerifyNext /\ UNCHANGED ledgerVars

VerifySpec == VerifyGenesis /\ [][VerifyLedgerNext]_<<ledgerVars, verifyVars>>
-----------------------------------------------------------------------------
Verdicts == {"absent", "valid", "revoked", "expired"}

Result ==
  [found : {FALSE}, was : Verdicts] \cup
  [found : {TRUE}, credential : FormattedCredential, named : BOOLEAN,
   was : Verdicts]

Lookup ==
  [phase : {"file", "asked", "read", "naming"}, hash : Inputs \cup {None},
   credential : FormattedCredential \cup {None}, was : Verdicts]

\* Types of the page's state; a lookup that waits for a name has a credential.
VerifyTypeOK ==
  /\ isReady \in BOOLEAN /\ open \in BOOLEAN /\ scanner \in BOOLEAN
  /\ initialHash \in Inputs \cup {None}
  /\ method \in {"hash", "file", "qr"}
  /\ hashInput \in Inputs \cup {None}
  /\ isVerifying \in BOOLEAN
  /\ result \in Result \cup {None}
  /\ lookups \in [Lookups -> Lookup \cup {None}]
  /\ qrCode \in Inputs \cup {None}
  /\ camera \in Cameras \cup {None}
  /\ asked \subseteq Cameras /\ running \subseteq Cameras

\* What the card says of a credential is so: it is on chain, for that holder
\* and by that issuer ("All verifications query the blockchain directly"); it
\* is shown as revoked only if it is, and always if it was revoked when the
\* lookup began; an issuer is named only if it is an institution.
VerdictHonest ==
  DetailsShown =>
    LET shown == result.credential
    IN  /\ Certified(shown.hash)
        /\ certificate[shown.hash].issuer = shown.issuer
        /\ certificate[shown.hash].holder = shown.holder
        /\ shown.revoked => certificate[shown.hash].revoked
        /\ result.was = "revoked" => VerificationStatus = "Credential Revoked"
        /\ result.named => institution[shown.issuer] # "none"

\* A stream that the page has stored belongs to a scanner that is on the screen:
\* closing the scanner, a scan and leaving the page all turn it off.  (One that
\* is granted when there is no scanner any more is not stored, and stays on.)
ScannerOwnsCamera ==
  camera # None => open /\ scanner /\ camera \in running

\* The spinner does not stay: every lookup ends, also when the credential is
\* not there or a query fails.
LookupEnds == isVerifying ~> ~isVerifying

\* "This credential has expired" and "authentic and active on the blockchain":
\* a credential the chain no longer verifies when it is looked up, because
\* its block has passed, is not shown as valid.
ExpiredNotShownValid ==
  VerificationStatus = "Valid Credential" => result.was # "expired"
=============================================================================
