-------------------------- MODULE VerifyPage_proofs -------------------------
(***************************************************************************)
(* What the verification page says of a credential is so, for any number   *)
(* of documents, of lookups under way at one time, and of cameras.         *)
(***************************************************************************)
EXTENDS VerifyPage, Ledger_proofs

\* A lookup knows nothing but what the chain said when it was asked, and what
\* was revoked when it began is found revoked.
LookupHonest(l) ==
  lookups[l] # None =>
    /\ lookups[l].phase = "asked" =>
         /\ lookups[l].hash \in Hashes
         /\ lookups[l].was = "revoked" =>
              /\ Certified(lookups[l].hash)
              /\ certificate[lookups[l].hash].revoked
    /\ /\ lookups[l].phase \in {"read", "naming"}
       /\ lookups[l].credential # None
       => /\ SaidByChain(lookups[l].credential)
          /\ lookups[l].was = "revoked" => lookups[l].credential.revoked
    /\ lookups[l].phase = "naming" => lookups[l].credential # None

LookupsTyped == lookups \in [Lookups -> Lookup \cup {None}]

ResultHonest ==
  DetailsShown =>
    /\ SaidByChain(result.credential)
    /\ result.was = "revoked" => result.credential.revoked
    /\ result.named => institution[result.credential.issuer] # "none"

VerifyInv ==
  /\ LedgerTypeOK
  /\ LookupsTyped
  /\ \A l \in Lookups : LookupHonest(l)
  /\ ResultHonest

\* The chain goes on: what it said stays true.
LEMMA ChainGoesOn ==
  ASSUME VerifyInv, LedgerNext \/ UNCHANGED ledgerVars, UNCHANGED verifyVars
  PROVE  VerifyInv'
<1> USE DEF verifyVars, verdictVars, cameraVars
<1>1. LedgerTypeOK' /\ LedgerGrows
  BY LedgerStep DEF VerifyInv
<1>2. LookupsTyped'
  BY DEF VerifyInv, LookupsTyped
<1>3. ASSUME NEW l \in Lookups
      PROVE  LookupHonest(l)'
  <2>1. LookupHonest(l)
    BY DEF VerifyInv
  <2>2. QED
    BY <1>1, <2>1
       DEF LookupHonest, SaidByChain, FormattedCredential, LedgerGrows,
           Certified
<1>4. ResultHonest'
  BY <1>1 DEF VerifyInv, ResultHonest, DetailsShown, SaidByChain,
              FormattedCredential, LedgerGrows, Certified
<1>5. QED
  BY <1>1, <1>2, <1>3, <1>4 DEF VerifyInv

\* A lookup that stays as it is, on a chain that stays as it is.
LEMMA LookupStays ==
  ASSUME UNCHANGED ledgerVars, NEW k \in Lookups, LookupHonest(k),
         lookups'[k] = lookups[k]
  PROVE  LookupHonest(k)'
BY DEF LookupHonest, SaidByChain, Certified, ledgerVars

\* A lookup begins, in place of none or of the reading of a file.
LEMMA LookupBegins ==
  ASSUME VerifyInv, NEW l \in Lookups, NEW hash \in Inputs \cup {None},
         VerifyByHash(hash, l), UNCHANGED ledgerVars
  PROVE  VerifyInv'
<1> USE DEF VerifyInv, ledgerVars
<1>1. LedgerTypeOK'
  BY DEF LedgerTypeOK
<1>2. CASE hash \notin Hashes
  <2>1. UNCHANGED <<result, lookups>>
    BY <1>2 DEF VerifyByHash
  <2>2. QED
    BY <1>1, <2>1 DEF LookupsTyped, LookupHonest, ResultHonest, DetailsShown,
                      SaidByChain, Certified
<1>3. CASE hash \in Hashes
  <2> DEFINE new == [phase |-> "asked", hash |-> hash, credential |-> None,
                     was |-> VerdictOnChain(hash)]
  <2>1. lookups' = [lookups EXCEPT ![l] = new] /\ result' = None
    BY <1>3 DEF VerifyByHash
  <2>2. new \in Lookup
    BY DEF Lookup, VerdictOnChain, Verdicts
  <2>3. new.was = "revoked" => Certified(hash) /\ certificate[hash].revoked
    BY DEF VerdictOnChain
  <2>4. \A k \in Lookups : lookups'[k] = IF k = l THEN new ELSE lookups[k]
    BY <2>1 DEF LookupsTyped
  <2>5. LookupsTyped'
    BY <2>1, <2>2 DEF LookupsTyped
  <2>6. ASSUME NEW k \in Lookups
        PROVE  LookupHonest(k)'
    <3>1. CASE k # l
      BY <2>4, <2>6, <3>1, LookupStays
    <3>2. CASE k = l
      <4>1. lookups'[l] = new
        BY <2>4
      <4>2. /\ new.phase = "asked" /\ new.hash = hash
            /\ (Certified(hash) /\ certificate[hash].revoked)'
                 <=> Certified(hash) /\ certificate[hash].revoked
        BY DEF Certified
      <4>3. QED
        BY <1>3, <2>3, <3>2, <4>1, <4>2 DEF LookupHonest
    <3>3. QED
      BY <3>1, <3>2
  <2>7. ResultHonest'
    BY <2>1 DEF ResultHonest, DetailsShown
  <2>8. QED
    BY <1>1, <2>5, <2>6, <2>7
<1>4. QED
  BY <1>2, <1>3

\* A step that changes no lookup and no result.
LEMMA NothingLookedUp ==
  ASSUME VerifyInv, UNCHANGED <<ledgerVars, lookups, result>>
  PROVE  VerifyInv'
BY DEF VerifyInv, ledgerVars, LedgerTypeOK, LookupsTyped, LookupHonest,
       ResultHonest, DetailsShown, SaidByChain, Certified

\* The page is left: its lookups are for nobody.
LEMMA NothingShown ==
  ASSUME VerifyInv, UNCHANGED ledgerVars, LeavePage
  PROVE  VerifyInv'
BY DEF VerifyInv, ledgerVars, LedgerTypeOK, LookupsTyped, LookupHonest,
       ResultHonest, DetailsShown, LeavePage

\* A lookup ends with what it found.
LEMMA LookupEndsHonestly ==
  ASSUME VerifyInv, UNCHANGED ledgerVars, NEW l \in Lookups, NEW shown,
         EndLookup(l, shown),
         shown.found =>
           /\ SaidByChain(shown.credential)
           /\ shown.was = "revoked" => shown.credential.revoked
           /\ shown.named => institution[shown.credential.issuer] # "none"
  PROVE  VerifyInv'
<1> USE DEF VerifyInv, ledgerVars
<1>1. LedgerTypeOK' /\ LookupsTyped'
  BY DEF LedgerTypeOK, LookupsTyped, EndLookup
<1>2. ASSUME NEW k \in Lookups
      PROVE  LookupHonest(k)'
  <2>1. lookups'[k] = IF k = l THEN None ELSE lookups[k]
    BY DEF EndLookup, LookupsTyped
  <2>2. QED
    BY <2>1 DEF LookupHonest, SaidByChain, Certified
<1>3. ResultHonest'
  BY DEF ResultHonest, DetailsShown, EndLookup, SaidByChain, Certified
<1>4. QED
  BY <1>1, <1>2, <1>3

\* A lookup goes on.
LEMMA LookupPreserves ==
  ASSUME VerifyInv, UNCHANGED ledgerVars, NEW l \in Lookups, LookupGoesOn(l)
  PROVE  VerifyInv'
<1> USE DEF VerifyInv, ledgerVars
<1>1. LedgerTypeOK' /\ LookupHonest(l)
  BY DEF LedgerTypeOK
<1>2. lookups[l] # None /\ lookups[l] \in Lookup
  BY DEF LookupGoesOn, FileRead, NodeAnswers, NotFound, AskIssuerName, Found,
         LookupsTyped
<1>3. ASSUME NEW entry \in Lookup, lookups' = [lookups EXCEPT ![l] = entry],
             UNCHANGED result,
             entry.phase \in {"read", "naming"},
             entry.phase = "naming" => entry.credential # None,
             entry.credential # None =>
               /\ SaidByChain(entry.credential)
               /\ entry.was = "revoked" => entry.credential.revoked
      PROVE  VerifyInv'
  <2>1. LookupsTyped'
    BY <1>3 DEF LookupsTyped
  <2>2. ASSUME NEW k \in Lookups
        PROVE  LookupHonest(k)'
    <3>1. lookups'[k] = IF k = l THEN entry ELSE lookups[k]
      BY <1>3 DEF LookupsTyped
    <3>2. CASE k # l
      BY <2>2, <3>1, <3>2, LookupStays
    <3>3. CASE k = l
      <4>1. lookups'[l] = entry
        BY <3>1, <3>3
      <4>2. SaidByChain(entry.credential) => SaidByChain(entry.credential)'
        BY DEF SaidByChain, Certified
      <4>3. QED
        BY <1>3, <3>3, <4>1, <4>2 DEF LookupHonest
    <3>4. QED
      BY <3>2, <3>3
  <2>3. ResultHonest'
    BY <1>3 DEF ResultHonest, DetailsShown, SaidByChain, Certified
  <2>4. QED
    BY <1>1, <2>1, <2>2, <2>3
<1>4. CASE FileRead(l)
  <2>1. CASE lookups[l].hash \in Hashes
    BY <1>2, <1>4, <2>1, LookupBegins DEF FileRead, Inputs
  <2>2. CASE lookups[l].hash \notin Hashes
    <3>1. lookups' = [lookups EXCEPT ![l] = None] /\ UNCHANGED result
      BY <1>4, <2>2 DEF FileRead
    <3>2. LookupsTyped'
      BY <3>1 DEF LookupsTyped
    <3>3. ASSUME NEW k \in Lookups
          PROVE  LookupHonest(k)'
      <4>1. lookups'[k] = IF k = l THEN None ELSE lookups[k]
        BY <3>1 DEF LookupsTyped
      <4>2. QED
        BY <4>1 DEF LookupHonest, SaidByChain, Certified
    <3>4. ResultHonest'
      BY <3>1 DEF ResultHonest, DetailsShown, SaidByChain, Certified
    <3>5. QED
      BY <1>1, <3>2, <3>3, <3>4
  <2>3. QED
    BY <2>1, <2>2
<1>5. CASE NodeAnswers(l)
  <2>1. PICK credential \in CredentialAnswers(lookups[l].hash) :
          lookups' = [lookups EXCEPT ![l].phase = "read",
                                     ![l].credential = credential]
    BY <1>5 DEF NodeAnswers
  <2> DEFINE entry == [lookups[l] EXCEPT !.phase = "read",
                                         !.credential = credential]
  <2>2. lookups' = [lookups EXCEPT ![l] = entry] /\ UNCHANGED result
    BY <1>5, <2>1 DEF NodeAnswers, LookupsTyped
  <2>3. lookups[l].hash \in Hashes
    BY <1>1, <1>5 DEF NodeAnswers, LookupHonest
  <2>4. credential # None =>
          /\ credential = FormatCredentialData(lookups[l].hash)
          /\ Certified(lookups[l].hash)
    BY <2>1 DEF CredentialAnswers
  <2>5. credential # None =>
          /\ SaidByChain(credential)
          /\ lookups[l].was = "revoked" => credential.revoked
    BY <1>1, <1>5, <2>3, <2>4, FormattedSaid DEF NodeAnswers, LookupHonest
  <2>6. entry \in Lookup
    BY <1>2, <2>5 DEF Lookup, SaidByChain
  <2>7. /\ entry.phase = "read" /\ entry.credential = credential
        /\ entry.was = lookups[l].was
    BY <1>2 DEF Lookup
  <2> HIDE DEF entry
  <2>8. QED
    BY <1>3, <2>2, <2>5, <2>6, <2>7
<1>6. CASE AskIssuerName(l)
  <2> DEFINE entry == [lookups[l] EXCEPT !.phase = "naming"]
  <2>1. lookups' = [lookups EXCEPT ![l] = entry] /\ UNCHANGED result
    BY <1>6 DEF AskIssuerName, LookupsTyped
  <2>2. /\ entry \in Lookup /\ entry.phase = "naming"
        /\ entry.credential = lookups[l].credential
        /\ entry.was = lookups[l].was
    BY <1>2 DEF Lookup
  <2>3. /\ lookups[l].credential # None
        /\ SaidByChain(lookups[l].credential)
        /\ lookups[l].was = "revoked" => lookups[l].credential.revoked
    BY <1>1, <1>6 DEF AskIssuerName, LookupHonest
  <2> HIDE DEF entry
  <2>4. QED
    BY <1>3, <2>1, <2>2, <2>3
<1>7. CASE NotFound(l)
  <2>1. EndLookup(l, [found |-> FALSE, was |-> lookups[l].was])
    BY <1>7 DEF NotFound
  <2>2. QED
    BY <2>1, LookupEndsHonestly
<1>8. CASE Found(l)
  <2>1. PICK answer \in InstitutionAnswers(lookups[l].credential.issuer) :
          EndLookup(l, [found |-> TRUE, credential |-> lookups[l].credential,
                        named |-> answer # None, was |-> lookups[l].was])
    BY <1>8 DEF Found
  <2> DEFINE shown == [found |-> TRUE, credential |-> lookups[l].credential,
                       named |-> answer # None, was |-> lookups[l].was]
  <2>2. answer # None => institution[lookups[l].credential.issuer] # "none"
    BY DEF InstitutionAnswers
  <2>3. /\ SaidByChain(lookups[l].credential)
        /\ lookups[l].was = "revoked" => lookups[l].credential.revoked
    BY <1>1, <1>8 DEF Found, LookupHonest
  <2>4. /\ SaidByChain(shown.credential)
        /\ shown.was = "revoked" => shown.credential.revoked
        /\ shown.named => institution[shown.credential.issuer] # "none"
    BY <2>2, <2>3
  <2>5. EndLookup(l, shown)
    BY <2>1
  <2> HIDE DEF shown
  <2>6. QED
    BY <2>4, <2>5, LookupEndsHonestly
<1>9. QED
  BY <1>4, <1>5, <1>6, <1>7, <1>8 DEF LookupGoesOn

\* The effect on the hash in the link: a lookup, or nothing.
LEMMA AutoVerifyPreserves ==
  ASSUME VerifyInv, UNCHANGED ledgerVars, NEW ready, NEW hash,
         AutoVerify(ready, hash)
  PROVE  VerifyInv'
BY LookupBegins, NothingLookedUp DEF AutoVerify, FreeLookups, Inputs, ledgerVars

LEMMA VerifyInvPreserved ==
  VerifyInv /\ [VerifyLedgerNext]_<<ledgerVars, verifyVars>> => VerifyInv'
<1> SUFFICES ASSUME VerifyInv, [VerifyLedgerNext]_<<ledgerVars, verifyVars>>
             PROVE  VerifyInv'
  OBVIOUS
<1>1. CASE (LedgerNext \/ UNCHANGED ledgerVars) /\ UNCHANGED verifyVars
  BY <1>1, ChainGoesOn
<1>2. CASE VerifyNext /\ UNCHANGED ledgerVars
  <2> USE <1>2 DEF verdictVars, cameraVars
  <2>1. CASE ApiBecomesReady
    BY <2>1, AutoVerifyPreserves, NothingLookedUp DEF ApiBecomesReady
  <2>2. CASE \E hash \in Inputs \cup {None} : OpenPage(hash)
    BY <2>2, AutoVerifyPreserves DEF OpenPage
  <2>3. ASSUME NEW hash \in Inputs \cup {None}, UploadFile(hash)
        PROVE  VerifyInv'
    <3>1. PICK l \in FreeLookups :
            lookups' = [lookups EXCEPT ![l] =
              [phase |-> "file", hash |-> hash, credential |-> None,
               was |-> "absent"]]
      BY <2>3 DEF UploadFile
    <3> DEFINE entry == [phase |-> "file", hash |-> hash, credential |-> None,
                         was |-> "absent"]
    <3>2. entry \in Lookup /\ entry.phase = "file"
      BY DEF Lookup, Verdicts
    <3>3. lookups' = [lookups EXCEPT ![l] = entry] /\ UNCHANGED result
      BY <2>3, <3>1 DEF UploadFile
    <3> HIDE DEF entry
    <3>4. LookupsTyped'
      BY <3>2, <3>3 DEF VerifyInv, LookupsTyped
    <3>5. ASSUME NEW k \in Lookups
          PROVE  LookupHonest(k)'
      <4>1. lookups'[k] = IF k = l THEN entry ELSE lookups[k]
        BY <3>3 DEF VerifyInv, LookupsTyped, FreeLookups
      <4>2. QED
        BY <3>2, <4>1
           DEF VerifyInv, LookupHonest, SaidByChain, Certified, ledgerVars
    <3>6. LedgerTypeOK' /\ ResultHonest'
      BY <3>3 DEF VerifyInv, LedgerTypeOK, ResultHonest, DetailsShown,
                  SaidByChain, Certified, ledgerVars
    <3>7. QED
      BY <3>4, <3>5, <3>6 DEF VerifyInv
  <2>4. CASE \E hash \in Inputs \cup {None} : TypeHash(hash)
    BY <2>4, NothingLookedUp DEF TypeHash
  <2>5. CASE \E tab \in {"hash", "file", "qr"} : SelectMethod(tab)
    BY <2>5, NothingLookedUp DEF SelectMethod
  <2>6. CASE \E text \in Inputs : QRCodeScanned(text)
    BY <2>6, LookupBegins DEF QRCodeScanned, FreeLookups
  <2>7. CASE SubmitHash
    BY <2>7, LookupBegins DEF SubmitHash, FreeLookups
  <2>8. CASE \E l \in Lookups : LookupGoesOn(l)
    BY <2>8, LookupPreserves
  <2>9. CASE (\E hash \in Inputs : GenerateQRCode(hash)) \/ CloseQRCode
    BY <2>9, NothingLookedUp DEF GenerateQRCode, CloseQRCode
  <2>10. CASE OpenScanner \/ PressStopCamera \/ CloseScanner
    BY <2>10, NothingLookedUp DEF OpenScanner, PressStopCamera, CloseScanner
  <2>11. CASE \E stream \in Cameras : \/ StartCamera(stream)
                                      \/ CameraGranted(stream)
                                      \/ CameraRefused(stream)
    BY <2>11, NothingLookedUp DEF StartCamera, CameraGranted, CameraRefused
  <2>12. CASE LeavePage
    BY <2>12, NothingShown
  <2>13. QED
    BY <2>1, <2>2, <2>3, <2>4, <2>5, <2>6, <2>7, <2>8, <2>9, <2>10, <2>11,
       <2>12 DEF VerifyNext
<1>3. QED
  BY <1>1, <1>2 DEF VerifyLedgerNext

\* Whatever lookups overlap, and whatever happens on the chain meanwhile, the
\* lookups and the result know only what the chain has said.
THEOREM VerifyInvariance == VerifySpec => []VerifyInv
<1>1. VerifyGenesis => VerifyInv
  BY LedgerTypedInitially
     DEF VerifyGenesis, VerifyInit, VerifyInv, LookupsTyped, LookupHonest,
         ResultHonest, DetailsShown
<1>2. QED
  BY <1>1, VerifyInvPreserved, PTL DEF VerifySpec

\* The verdict on the card is one that the chain gave for that document.
THEOREM VerdictCorrect == VerifySpec => []VerdictHonest
<1>1. VerifyInv => VerdictHonest
  BY DEF VerifyInv, ResultHonest, SaidByChain, VerdictHonest, DetailsShown,
         VerificationStatus
<1>2. QED
  BY <1>1, VerifyInvariance, PTL

\* A camera the page uses belongs to a scanner on the screen.
THEOREM CameraCorrect == VerifySpec => []ScannerOwnsCamera
<1> USE DEF ScannerOwnsCamera
<1>1. VerifyGenesis => ScannerOwnsCamera
  BY DEF VerifyGenesis, VerifyInit
<1>2. ScannerOwnsCamera /\ [VerifyLedgerNext]_<<ledgerVars, verifyVars>>
        => ScannerOwnsCamera'
  <2> SUFFICES ASSUME ScannerOwnsCamera,
                      [VerifyLedgerNext]_<<ledgerVars, verifyVars>>
               PROVE  ScannerOwnsCamera'
    OBVIOUS
  <2> USE DEF verifyVars, verdictVars, cameraVars
  <2>1. CASE UNCHANGED verifyVars
    BY <2>1
  <2>2. CASE VerifyNext
    <3>1. ASSUME UNCHANGED cameraVars, open => open'
          PROVE  ScannerOwnsCamera'
      BY <3>1
    <3>2. CASE ApiBecomesReady
      BY <3>1, <3>2 DEF ApiBecomesReady
    <3>3. CASE \E hash \in Inputs \cup {None} :
                 OpenPage(hash) \/ UploadFile(hash) \/ TypeHash(hash)
      BY <3>1, <3>3 DEF OpenPage, UploadFile, TypeHash
    <3>4. CASE \/ \E tab \in {"hash", "file", "qr"} : SelectMethod(tab)
               \/ SubmitHash \/ CloseQRCode
               \/ \E hash \in Inputs : GenerateQRCode(hash)
      BY <3>1, <3>4 DEF SelectMethod, SubmitHash, CloseQRCode, GenerateQRCode
    <3>5. CASE \E l \in Lookups : LookupGoesOn(l)
      BY <3>1, <3>5 DEF LookupGoesOn, FileRead, NodeAnswers, NotFound,
                        AskIssuerName, Found
    <3>6. CASE OpenScanner
      BY <3>6 DEF OpenScanner
    <3>7. CASE \E stream \in Cameras : \/ StartCamera(stream)
                                       \/ CameraGranted(stream)
                                       \/ CameraRefused(stream)
      BY <3>7 DEF StartCamera, CameraGranted, CameraRefused, Interactive
    <3>8. CASE \/ \E text \in Inputs : QRCodeScanned(text)
               \/ PressStopCamera \/ CloseScanner \/ LeavePage
      BY <3>8 DEF QRCodeScanned, PressStopCamera, CloseScanner, LeavePage,
                  StopCamera
    <3>9. QED
      BY <2>2, <3>2, <3>3, <3>4, <3>5, <3>6, <3>7, <3>8 DEF VerifyNext
  <2>3. QED
    BY <2>1, <2>2 DEF VerifyLedgerNext
<1>3. QED
  BY <1>1, <1>2, PTL DEF VerifySpec
=============================================================================
