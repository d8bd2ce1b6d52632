--------------------------- MODULE Session_proofs ---------------------------
(***************************************************************************)
(* What the session shows is on chain, for all accounts and any number of  *)
(* checks of the chain under way, and its steps are those the pages see.   *)
(***************************************************************************)
EXTENDS Session, Ledger_proofs

\* What a check has read of the chain is so: DIDs and institutions are never
\* taken off it.
AnswerOnChain(check) ==
  /\ InCheck(check, "gotDid") /\ checks[check].answer # "none" =>
       did[checks[check].who] # "none"
  /\ InCheck(check, "gotInstitution") /\ checks[check].answer # "none" =>
       institution[checks[check].who] # "none"

\* Before the api is ready it is not there: create has not returned.
ReadyIsOver == isReady => connecting = "over"

SessionInv ==
  /\ LedgerTypeOK
  /\ SessionTypeOK
  /\ \A check \in Checks : AnswerOnChain(check)
  /\ ReadyIsOver
  /\ ShownIsOnChain

\* A check is always in one of four phases, and its first answer is about
\* the DID.
LEMMA CheckTyped ==
  ASSUME SessionTypeOK, NEW check \in Checks, checks[check] # None
  PROVE  /\ checks[check] \in Check
         /\ checks[check].who \in Accounts
         /\ InCheck(check, "gotDid") => checks[check].answer \in DidStatus
BY DEF SessionTypeOK, Check, InCheck

\* The stores after the three kinds of writes are of their type.
LEMMA StoreTyped ==
  ASSUME NEW store \in DidStore, NEW address \in Addresses, NEW who \in Accounts,
         NEW status \in {"active", "inactive"}
  PROVE  /\ WithDid(store, address) \in DidStore
         /\ WithStatus(store, status) \in DidStore
         /\ WithInstitution(store, who) \in DidStore
         /\ EmptyDid \in DidStore
BY DEF WithDid, WithStatus, WithInstitution, EmptyDid, DidStore, Addresses

\* The steps of the session, one after the other.
LEMMA SessionTyped ==
  ASSUME LedgerTypeOK, SessionTypeOK,
         SessionNext \/ FormsWrite \/ Reload, UNCHANGED ledgerVars
  PROVE  SessionTypeOK'
<1> USE DEF SessionTypeOK, storeVars, connectionVars, sessionVars
<1>1. CASE StartConnecting
  BY <1>1 DEF StartConnecting
<1>2. CASE ConnectionTimesOut
  BY <1>2 DEF ConnectionTimesOut
<1>3. ASSUME NEW ready \in BOOLEAN, AskExtension(ready)
      PROVE  attempts' \in [BOOLEAN -> 0..MaxAttempts]
  <2>1. /\ attempts[TRUE] \in 0..MaxAttempts /\ attempts[FALSE] \in 0..MaxAttempts
        /\ attempts[ready] = attempts[TRUE] \/ attempts[ready] = attempts[FALSE]
    BY Zenon
  <2>2. attempts[ready] + 1 \in 0..MaxAttempts
    <3> DEFINE with == attempts[TRUE]
               without == attempts[FALSE]
               these == attempts[ready]
    <3>1. with + without < MaxAttempts
      BY <1>3 DEF AskExtension
    <3>2. with \in 0..MaxAttempts /\ without \in 0..MaxAttempts
          /\ (these = with \/ these = without)
      BY <2>1
    <3> HIDE DEF with, without, these
    <3>3. these + 1 \in 0..MaxAttempts
      BY <3>1, <3>2, MaxAttemptsAssumption
    <3>4. QED
      BY <3>3 DEF these
  <2>3. QED
    BY <1>3, <2>2 DEF AskExtension
<1>4. ASSUME NEW who \in Accounts, StartCheck(who)
      PROVE  checks' \in [Checks -> Check \cup {None}]
  <2>1. [phase |-> "askDid", who |-> who, answer |-> "none"] \in Check
    BY DEF Check, DidStatus
  <2>2. QED
    BY <1>4, <2>1 DEF StartCheck
<1>5. CASE ApiReady
  BY <1>3, <1>4, <1>5 DEF ApiReady
<1>6. CASE Connect
  BY <1>3, <1>6 DEF Connect
<1>7. CASE Disconnect
  BY <1>7 DEF Disconnect
<1>8. ASSUME NEW ready \in BOOLEAN, ExtensionAnswers(ready)
      PROVE  attempts' \in [BOOLEAN -> 0..MaxAttempts]
  BY <1>8, MaxAttemptsAssumption DEF ExtensionAnswers
<1>9. CASE \E ready \in BOOLEAN : ExtensionRefuses(ready)
  BY <1>8, <1>9 DEF ExtensionRefuses
<1>10. CASE \E ready \in BOOLEAN, who \in Accounts : ExtensionShares(ready, who)
  BY <1>4, <1>8, <1>10 DEF ExtensionShares
<1>11. ASSUME NEW check \in Checks,
              \/ DidRead(check) \/ DidFound(check) \/ DidAbsent(check)
              \/ InstitutionRead(check) \/ InstitutionChecked(check)
              \/ CheckFails(check)
       PROVE  SessionTypeOK'
  <2>1. CASE DidRead(check)
    <3>1. [checks[check] EXCEPT !.phase = "gotDid",
             !.answer = did[checks[check].who]] \in Check
      BY <2>1, CheckTyped DEF DidRead, InCheck, Check, LedgerTypeOK
    <3>2. checks' = [checks EXCEPT ![check] =
            [checks[check] EXCEPT !.phase = "gotDid",
               !.answer = did[checks[check].who]]]
      BY <2>1 DEF DidRead
    <3>3. QED
      BY <2>1, <3>1, <3>2 DEF DidRead
  <2>2. CASE DidFound(check)
    <3>1. /\ didStore' \in DidStore
          /\ [checks[check] EXCEPT !.phase = "askInstitution"] \in Check
      BY <2>2, CheckTyped, StoreTyped
         DEF DidFound, InCheck, Check, DidStatus, Addresses
    <3>2. checks' = [checks EXCEPT ![check] =
            [checks[check] EXCEPT !.phase = "askInstitution"]]
      BY <2>2 DEF DidFound, CheckGoesOn
    <3>3. QED
      BY <2>2, <3>1, <3>2 DEF DidFound
  <2>3. CASE DidAbsent(check)
    BY <2>3, CheckTyped, StoreTyped DEF DidAbsent, CheckEnds, EmptyDid, DidStore
  <2>4. CASE InstitutionRead(check)
    <3>1. [checks[check] EXCEPT !.phase = "gotInstitution",
             !.answer = institution[checks[check].who]] \in Check
      BY <2>4, CheckTyped DEF InstitutionRead, InCheck, Check, LedgerTypeOK
    <3>2. checks' = [checks EXCEPT ![check] =
            [checks[check] EXCEPT !.phase = "gotInstitution",
               !.answer = institution[checks[check].who]]]
      BY <2>4 DEF InstitutionRead
    <3>3. QED
      BY <2>4, <3>1, <3>2 DEF InstitutionRead
  <2>5. CASE InstitutionChecked(check)
    BY <2>5, CheckTyped
       DEF InstitutionChecked, CheckEnds, InCheck, WithInstitution, DidStore
  <2>6. CASE CheckFails(check)
    BY <2>6 DEF CheckFails, CheckEnds
  <2>7. QED
    BY <1>11, <2>1, <2>2, <2>3, <2>4, <2>5, <2>6
<1>12. CASE FormsWrite
  BY <1>12 DEF FormsWrite, InstitutionLoaded, WithDid, WithInstitution,
               DidStore, Addresses
<1>13. CASE Reload
  <2>1. \A ready \in BOOLEAN : (IF ready THEN 0 ELSE 1) \in 0..MaxAttempts
    BY MaxAttemptsAssumption
  <2>2. attempts' \in [BOOLEAN -> 0..MaxAttempts]
    BY <1>13, <2>1, Zenon DEF Reload
  <2>3. QED
    BY <1>13, <2>2 DEF Reload
<1>14. QED
  BY <1>1, <1>2, <1>5, <1>6, <1>7, <1>9, <1>10, <1>11, <1>12, <1>13
     DEF SessionNext

\* The chain goes on under the session: what was read stays so.
LEMMA ChainGoesOn ==
  ASSUME SessionInv, LedgerNext \/ UNCHANGED ledgerVars,
         UNCHANGED <<storeVars, sessionVars>>
  PROVE  SessionInv'
<1> USE DEF storeVars, sessionVars, connectionVars
<1>1. LedgerTypeOK' /\ LedgerGrows
  BY LedgerStep DEF SessionInv
<1>2. SessionTypeOK' /\ ReadyIsOver'
  BY DEF SessionInv, SessionTypeOK, ReadyIsOver
<1>3. ASSUME NEW check \in Checks
      PROVE  AnswerOnChain(check)'
  <2>1. AnswerOnChain(check) /\ SessionTypeOK
    BY DEF SessionInv
  <2>2. checks[check] # None => checks[check].who \in Accounts
    BY <2>1, CheckTyped
  <2>3. QED
    BY <1>1, <2>1, <2>2 DEF AnswerOnChain, InCheck, LedgerGrows
<1>4. ShownIsOnChain'
  <2>1. didStore.institution \in Accounts \cup {None}
    BY DEF SessionInv, SessionTypeOK, DidStore
  <2>2. QED
    BY <1>1, <2>1 DEF SessionInv, ShownIsOnChain, IsInstitution, LedgerGrows
<1>5. QED
  BY <1>1, <1>2, <1>3, <1>4 DEF SessionInv

\* An answer the session already has, or one that the chain gives now.
LEMMA AnswersKept ==
  ASSUME SessionInv, SessionNext \/ FormsWrite \/ Reload, UNCHANGED ledgerVars,
         NEW check \in Checks
  PROVE  AnswerOnChain(check)'
<1> USE DEF SessionInv, SessionTypeOK, InCheck, AnswerOnChain, ledgerVars,
        storeVars, connectionVars, sessionVars
<1>1. AnswerOnChain(check)
  OBVIOUS
<1>2. ASSUME UNCHANGED checks
      PROVE  AnswerOnChain(check)'
  BY <1>1, <1>2
<1>3. ASSUME NEW who \in Accounts, StartCheck(who)
      PROVE  AnswerOnChain(check)'
  BY <1>1, <1>3 DEF StartCheck
<1>4. ASSUME NEW c \in Checks,
             \/ DidRead(c) \/ DidFound(c) \/ DidAbsent(c)
             \/ InstitutionRead(c) \/ InstitutionChecked(c) \/ CheckFails(c)
      PROVE  AnswerOnChain(check)'
  <2>1. checks[c] # None => checks[c] \in Check
    BY CheckTyped
  <2>2. CASE DidRead(c)
    BY <1>1, <2>1, <2>2 DEF DidRead, Check
  <2>3. CASE DidFound(c)
    BY <1>1, <2>1, <2>3 DEF DidFound, CheckGoesOn, Check
  <2>4. CASE DidAbsent(c) \/ InstitutionChecked(c) \/ CheckFails(c)
    BY <1>1, <2>4 DEF DidAbsent, InstitutionChecked, CheckFails, CheckEnds
  <2>5. CASE InstitutionRead(c)
    BY <1>1, <2>1, <2>5 DEF InstitutionRead, Check
  <2>6. QED
    BY <1>4, <2>2, <2>3, <2>4, <2>5
<1>5. CASE StartConnecting \/ ConnectionTimesOut
  BY <1>2, <1>5 DEF StartConnecting, ConnectionTimesOut
<1>6. CASE ApiReady
  BY <1>2, <1>3, <1>6 DEF ApiReady
<1>7. CASE Connect \/ Disconnect
  BY <1>2, <1>7 DEF Connect, Disconnect
<1>8. CASE \E ready \in BOOLEAN : ExtensionRefuses(ready)
  BY <1>2, <1>8 DEF ExtensionRefuses
<1>9. CASE \E ready \in BOOLEAN, who \in Accounts : ExtensionShares(ready, who)
  BY <1>2, <1>3, <1>9 DEF ExtensionShares
<1>10. CASE FormsWrite
  BY <1>2, <1>10 DEF FormsWrite
<1>11. CASE Reload
  BY <1>11 DEF Reload
<1>12. QED
  BY <1>4, <1>5, <1>6, <1>7, <1>8, <1>9, <1>10, <1>11 DEF SessionNext

\* Every write to the store is one of those that a page may see.
LEMMA StoreSteps ==
  ASSUME SessionInv, SessionNext \/ FormsWrite \/ Reload, UNCHANGED ledgerVars
  PROVE  \/ SessionStep \/ Reload \/ UNCHANGED storeVars
         \/ \E key \in Keys : didStore' = WithDid(didStore, key)
<1> USE DEF storeVars, SessionStep
<1>1. CASE StartConnecting \/ ConnectionTimesOut \/ Connect
  BY <1>1 DEF StartConnecting, ConnectionTimesOut, Connect
<1>2. CASE ApiReady
  BY <1>2 DEF ApiReady, SessionInv, ReadyIsOver, SessionTypeOK, ApiComes
<1>3. CASE Disconnect
  BY <1>3 DEF Disconnect, AccountChanges
<1>4. CASE \E ready \in BOOLEAN : ExtensionRefuses(ready)
  BY <1>4 DEF ExtensionRefuses
<1>5. CASE \E ready \in BOOLEAN, who \in Accounts : ExtensionShares(ready, who)
  BY <1>5 DEF ExtensionShares, AccountChanges
<1>6. ASSUME NEW check \in Checks,
             \/ DidRead(check) \/ DidFound(check) \/ DidAbsent(check)
             \/ InstitutionRead(check) \/ InstitutionChecked(check)
             \/ CheckFails(check)
      PROVE  SessionStep \/ UNCHANGED storeVars
  <2>1. CASE DidRead(check) \/ InstitutionRead(check) \/ CheckFails(check)
    BY <2>1 DEF DidRead, InstitutionRead, CheckFails
  <2>2. CASE DidFound(check)
    <3>1. /\ checks[check].who \in Accounts
          /\ checks[check].answer \in {"active", "inactive"}
      BY <2>2, CheckTyped DEF DidFound, InCheck, SessionInv, DidStatus
    <3>2. did[checks[check].who] # "none"
      BY <2>2 DEF DidFound, SessionInv, AnswerOnChain
    <3>3. DidLoaded(checks[check].who, checks[check].answer)
      BY <2>2, <3>1, <3>2 DEF DidFound, DidLoaded
    <3>4. QED
      BY <3>1, <3>3
  <2>3. CASE DidAbsent(check)
    BY <2>3 DEF DidAbsent, DidCleared
  <2>4. CASE InstitutionChecked(check)
    <3>1. checks[check].who \in Accounts
      BY <2>4, CheckTyped DEF InstitutionChecked, InCheck, SessionInv
    <3>2. checks[check].answer # "none" =>
            institution[checks[check].who] # "none"
      BY <2>4 DEF InstitutionChecked, SessionInv, AnswerOnChain
    <3>3. QED
      BY <2>4, <3>1, <3>2 DEF InstitutionChecked, InstitutionLoaded
  <2>5. QED
    BY <1>6, <2>1, <2>2, <2>3, <2>4
<1>7. CASE FormsWrite
  BY <1>7 DEF FormsWrite
<1>8. QED
  BY <1>1, <1>2, <1>3, <1>4, <1>5, <1>6, <1>7 DEF SessionNext

\* What is written to the store is on chain.
LEMMA ShownPreserved ==
  ASSUME SessionInv, SessionNext \/ FormsWrite \/ Reload, UNCHANGED ledgerVars
  PROVE  ShownIsOnChain'
<1> USE DEF SessionInv, ShownIsOnChain, IsInstitution, ledgerVars
<1>1. didStore \in DidStore
  BY DEF SessionTypeOK
<1>2. CASE UNCHANGED storeVars \/ Reload
  BY <1>2 DEF storeVars, Reload
<1>3. CASE \E key \in Keys : didStore' = WithDid(didStore, key)
  BY <1>1, <1>3, KeysAssumption DEF WithDid, DidStore
<1>4. CASE ApiComes \/ AccountChanges
  BY <1>4 DEF ApiComes, AccountChanges
<1>5. CASE DidCleared
  BY <1>5, LedgerAssumption DEF DidCleared, EmptyDid
<1>6. CASE \E who \in Accounts, status \in {"active", "inactive"} :
             DidLoaded(who, status)
  BY <1>1, <1>6 DEF DidLoaded, WithDid, WithStatus, DidStore
<1>7. CASE \E who \in Accounts : InstitutionLoaded(who)
  BY <1>1, <1>7 DEF InstitutionLoaded, WithInstitution, DidStore
<1>8. QED
  BY <1>2, <1>3, <1>4, <1>5, <1>6, <1>7, StoreSteps DEF SessionStep

\* The api is ready when initApi is over, and stays so until a reload.
LEMMA ReadyPreserved ==
  ASSUME SessionInv, SessionNext \/ FormsWrite \/ Reload
  PROVE  ReadyIsOver'
BY DEF SessionInv, ReadyIsOver, SessionTypeOK, SessionNext, FormsWrite,
       Reload, StartConnecting, ConnectionTimesOut, ApiReady, Connect,
       Disconnect, ExtensionRefuses, ExtensionShares, DidRead, DidFound,
       DidAbsent, InstitutionRead, InstitutionChecked, CheckFails,
       InstitutionLoaded, storeVars, connectionVars, sessionVars

LEMMA SessionInvInitially == SessionGenesis => SessionInv
<1> SUFFICES ASSUME SessionGenesis
             PROVE  SessionInv
  OBVIOUS
<1> USE DEF SessionGenesis, StoresInit, SessionInit
<1>1. LedgerTypeOK
  BY LedgerTypedInitially
<1>2. attempts \in [BOOLEAN -> 0..MaxAttempts]
  <2>1. \A ready \in BOOLEAN : (IF ready THEN 0 ELSE 1) \in 0..MaxAttempts
    BY MaxAttemptsAssumption
  <2>2. QED
    BY <2>1, Zenon
<1>3. SessionTypeOK
  BY <1>2 DEF SessionTypeOK, EmptyDid, DidStore
<1>4. /\ \A check \in Checks : AnswerOnChain(check)
      /\ ReadyIsOver
  BY DEF AnswerOnChain, InCheck, ReadyIsOver
<1>5. ShownIsOnChain
  BY LedgerAssumption DEF ShownIsOnChain, EmptyDid, IsInstitution
<1>6. QED
  BY <1>1, <1>3, <1>4, <1>5 DEF SessionInv

LEMMA SessionInvPreserved ==
  SessionInv /\ [SessionLedgerNext]_<<ledgerVars, storeVars, sessionVars>>
    => SessionInv'
<1> SUFFICES ASSUME SessionInv,
                    [SessionLedgerNext]_<<ledgerVars, storeVars, sessionVars>>
             PROVE  SessionInv'
  OBVIOUS
<1>1. CASE (LedgerNext \/ UNCHANGED ledgerVars)
             /\ UNCHANGED <<storeVars, sessionVars>>
  BY <1>1, ChainGoesOn
<1>2. CASE (SessionNext \/ FormsWrite \/ Reload) /\ UNCHANGED ledgerVars
  <2>1. LedgerTypeOK'
    BY <1>2 DEF SessionInv, LedgerTypeOK, ledgerVars
  <2>2. SessionTypeOK'
    BY <1>2, SessionTyped DEF SessionInv
  <2>3. QED
    BY <1>2, <2>1, <2>2, AnswersKept, ShownPreserved, ReadyPreserved
       DEF SessionInv
<1>3. QED
  BY <1>1, <1>2 DEF SessionLedgerNext

\* Whatever the chain, the extension, the node and the user do, in any order,
\* the state of the session is of its type and what it shows is on chain.
THEOREM SessionInvariance == SessionSpec => []SessionInv
<1>1. SessionGenesis => SessionInv
  BY SessionInvInitially
<1>2. SessionInv /\ [SessionLedgerNext]_<<ledgerVars, storeVars, sessionVars>>
        => SessionInv'
  BY SessionInvPreserved
<1>3. QED
  BY <1>1, <1>2, PTL DEF SessionSpec

\* The DID and the institution that the session shows are on chain.
THEOREM ShownCorrect == SessionSpec => []ShownIsOnChain
<1>1. SessionInv => ShownIsOnChain
  BY DEF SessionInv
<1>2. QED
  BY <1>1, SessionInvariance, PTL

\* Every step of the session is one of those that the modules of the pages
\* assume of it, so that what they show over SessionStep holds over Session.
THEOREM SessionSeenCorrect == SessionSpec => SeenAsSessionStep
<1>1. SessionInv /\ [SessionLedgerNext]_<<ledgerVars, storeVars, sessionVars>>
        => [\/ SessionStep \/ Reload
            \/ \E key \in Keys : didStore' = WithDid(didStore, key)]_storeVars
  <2> SUFFICES ASSUME SessionInv,
                 [SessionLedgerNext]_<<ledgerVars, storeVars, sessionVars>>
               PROVE  [\/ SessionStep \/ Reload
                       \/ \E key \in Keys : didStore' = WithDid(didStore, key)
                      ]_storeVars
    OBVIOUS
  <2>1. CASE (SessionNext \/ FormsWrite \/ Reload) /\ UNCHANGED ledgerVars
    BY <2>1, StoreSteps
  <2>2. CASE UNCHANGED storeVars
    BY <2>2
  <2>3. QED
    BY <2>1, <2>2 DEF SessionLedgerNext, sessionVars
<1>2. QED
  BY <1>1, SessionInvariance, PTL DEF SessionSpec, SeenAsSessionStep
=============================================================================
