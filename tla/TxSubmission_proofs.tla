------------------------ MODULE TxSubmission_proofs -------------------------
(***************************************************************************)
(* The verdict of a submission is right for any number of submissions and  *)
(* of forks; without forks a submission is what the pages take it for.     *)
(***************************************************************************)
EXTENDS SubmissionRefinement, TLAPS

Elements(seq) == {seq[i] : i \in 1..Len(seq)}

\* The reports on their way to the subscriber of s.
Reports(s) == Elements(transit[s])

\* A report is that of a block exactly if it carries an outcome.
BlockHasOutcome(e) == e.status \in InChain <=> e.outcome # "None"

\* After a failed dispatch in a block that was not retracted the extrinsic can
\* no longer take effect under the subscription.
FailureStands(s) ==
  \/ forks[s] > 0
  \/ extrinsic[s].status = "Gone"
  \/ extrinsic[s].outcome = "Err"

\* The subscription and the extrinsic in step with the promise.
InStep(s) ==
  /\ BlockHasOutcome(extrinsic[s])
  /\ pc[s] \in {"called", "injector", "signing"} =>
       /\ extrinsic[s].status = "Unsent"
       /\ watch[s] = "none"
       /\ ~Settled(s)
  /\ watch[s] = "open" => pc[s] = "watching" /\ ~Settled(s)
  /\ pc[s] = "watching" /\ watch[s] # "lost" /\ ~Settled(s) => watch[s] = "open"
  /\ watch[s] # "open" => transit[s] = <<>>
  /\ pc[s] = "caught" =>
       \/ watch[s] = "lost"
       \/ extrinsic[s].status = "Unsent" /\ watch[s] = "none"

\* What the reports on their way still say of the extrinsic.
ReportsInStep(s) ==
  \A r \in Reports(s) :
    /\ BlockHasOutcome(r)
    /\ r.status = "Finalized" => r = extrinsic[s]
    /\ r.outcome = "Err" => FailureStands(s)

\* What a verdict says of the extrinsic.
VerdictInStep(s) ==
  /\ result[s] = "success" <=> shown[s] = "finalized"
  /\ result[s] = "failure" <=> shown[s] = "error"
  /\ result[s] = "success" =>
       extrinsic[s] = [status |-> "Finalized", outcome |-> "Ok"]
  /\ result[s] = "failure" =>
       FailureStands(s) \/ watch[s] = "lost" \/ pc[s] = "caught"

SubmissionInv ==
  /\ TxTypeOK
  /\ \A s \in Submissions : InStep(s) /\ ReportsInStep(s) /\ VerdictInStep(s)
-----------------------------------------------------------------------------
LEMMA AppendElements ==
  ASSUME NEW S, NEW seq \in Seq(S), NEW e \in S
  PROVE  Elements(Append(seq, e)) = Elements(seq) \cup {e}
<1>1. Len(Append(seq, e)) = Len(seq) + 1 /\ Len(seq) \in Nat
  OBVIOUS
<1>2. \A i \in 1..Len(seq) : Append(seq, e)[i] = seq[i]
  OBVIOUS
<1>3. Append(seq, e)[Len(seq) + 1] = e
  OBVIOUS
<1>4. QED
  BY <1>1, <1>2, <1>3 DEF Elements

LEMMA HeadAndTailElements ==
  ASSUME NEW S, NEW seq \in Seq(S), seq # <<>>
  PROVE  /\ Head(seq) \in Elements(seq)
         /\ Head(seq) \in S
         /\ Tail(seq) \in Seq(S)
         /\ Elements(Tail(seq)) \subseteq Elements(seq)
<1>1. Len(seq) \in Nat /\ Len(seq) > 0 /\ Len(Tail(seq)) = Len(seq) - 1
  OBVIOUS
<1>2. \A i \in 1..Len(Tail(seq)) : Tail(seq)[i] = seq[i + 1]
  OBVIOUS
<1>3. Head(seq) = seq[1] /\ Head(seq) \in S /\ Tail(seq) \in Seq(S)
  OBVIOUS
<1>4. QED
  BY <1>1, <1>2, <1>3 DEF Elements

LEMMA NoElements == Elements(<<>>) = {}
BY DEF Elements

\* What a step of one submission leaves as it is for another one.
Kept(q) ==
  /\ extrinsic'[q] = extrinsic[q] /\ forks'[q] = forks[q]
  /\ watch'[q] = watch[q] /\ transit'[q] = transit[q]
  /\ pc'[q] = pc[q] /\ shown'[q] = shown[q] /\ result'[q] = result[q]

LEMMA KeptInStep ==
  ASSUME NEW q \in Submissions, Kept(q),
         InStep(q), ReportsInStep(q), VerdictInStep(q)
  PROVE  InStep(q)' /\ ReportsInStep(q)' /\ VerdictInStep(q)'
BY DEF Kept, InStep, ReportsInStep, VerdictInStep, Reports, FailureStands,
       Settled, BlockHasOutcome

\* A step of s keeps the types.
LEMMA StepTyped ==
  ASSUME TxTypeOK, NEW s \in Submissions,
         SubmissionStep(s) \/ (NodeStep(s) /\ UNCHANGED submissionVars)
  PROVE  TxTypeOK'
<1> USE DEF TxTypeOK, WatchTypeOK
<1> DEFINE Now(status, outcome) == [status |-> status, outcome |-> outcome]
<1>1. \A status \in ExtrinsicStatus, outcome \in Outcome :
        Now(status, outcome) \in Extrinsic
  BY DEF Extrinsic
<1>2. \A report \in Extrinsic :
        Append(transit[s], report) \in ReportQueue /\ <<report>> \in ReportQueue
  BY DEF ReportQueue
<1>3. /\ Now("Ready", "None") \in Extrinsic
      /\ <<Now("Ready", "None")>> \in ReportQueue
      /\ <<>> \in ReportQueue
  BY <1>1, <1>2 DEF ExtrinsicStatus, Outcome, ReportQueue
<1>4. CASE Submit(s) \/ FoundInjector(s) \/ NotSent(s)
  BY <1>4 DEF Submit, FoundInjector, NotSent, Caught, watchVars
<1>5. CASE Sent(s) \/ SentUnanswered(s)
  <2>1. EnterPool(s, "open") \/ EnterPool(s, "lost")
    BY <1>5 DEF Sent, SentUnanswered
  <2>2. /\ extrinsic' = [extrinsic EXCEPT ![s] = Now("Ready", "None")]
        /\ forks' = forks
        /\ \E status \in {"open", "lost"} :
             watch' = [watch EXCEPT ![s] = status]
        /\ \E reports \in {<<Now("Ready", "None")>>, <<>>} :
             transit' = [transit EXCEPT ![s] = reports]
    BY <2>1 DEF EnterPool
  <2>3. WatchTypeOK'
    <3> HIDE DEF Now
    <3>1. QED
      BY <1>3, <2>2
  <2>4. /\ pc' \in [Submissions ->
                      {"called", "injector", "signing", "watching", "caught"}]
        /\ shown' \in [Submissions ->
                      {"idle", "signing", "inBlock", "finalized", "error"}]
        /\ result' \in [Submissions -> {"pending", "success", "failure"}]
    BY <1>5 DEF Sent, SentUnanswered, Caught
  <2>5. QED
    BY <2>3, <2>4
<1>6. CASE Callback(s)
  <2>1. transit[s] \in Seq(Extrinsic) /\ transit[s] # <<>>
    BY <1>6 DEF Callback, ReportQueue
  <2>2. Tail(transit[s]) \in ReportQueue
    BY <2>1, HeadAndTailElements DEF ReportQueue
  <2>3. Verdict(Head(transit[s])) \in {"pending", "success", "failure"}
    BY DEF Verdict
  <2>4. StatusAfter(Head(transit[s]), shown[s]) \in
          {"idle", "signing", "inBlock", "finalized", "error"}
    BY DEF StatusAfter, ShownFor
  <2>5. QED
    BY <1>3, <1>6, <2>2, <2>3, <2>4 DEF Callback, Unsubscribe
<1>7. CASE NodeStep(s) /\ UNCHANGED submissionVars
  <2>1. CASE LoseWatch(s)
    BY <1>3, <1>7, <2>1 DEF LoseWatch, submissionVars
  <2>2. CASE NodeProgress(s) \/ Retract(s) \/ Discard(s)
    <3>1. extrinsic[s].outcome \in Outcome
      BY DEF Extrinsic
    <3>2. PICK status \in ExtrinsicStatus, outcome \in Outcome :
            Becomes(s, status, outcome)
      BY <2>2, <3>1 DEF NodeProgress, Include, Finalize, Retract, Discard,
         ExtrinsicStatus, Outcome
    <3>3. forks' \in [Submissions -> 0..MaxForks]
      BY <2>2, MaxForksAssumption DEF NodeProgress, Include, Finalize,
         Retract, Discard
    <3>4. QED
      BY <1>1, <1>2, <1>7, <3>2, <3>3 DEF Becomes, submissionVars
  <2>3. QED
    BY <1>7, <2>1, <2>2 DEF NodeStep
<1>8. QED
  BY <1>4, <1>5, <1>6, <1>7 DEF SubmissionStep

\* A step of s changes s only.
LEMMA OthersKept ==
  ASSUME TxTypeOK, NEW s \in Submissions, NEW q \in Submissions, q # s,
         SubmissionStep(s) \/ (NodeStep(s) /\ UNCHANGED submissionVars)
  PROVE  Kept(q)
<1> USE DEF TxTypeOK, WatchTypeOK, Kept
<1>1. CASE SubmissionStep(s)
  BY <1>1 DEF SubmissionStep, Submit, FoundInjector, NotSent, Sent,
     SentUnanswered, EnterPool, Caught, Callback, Unsubscribe, watchVars
<1>2. CASE NodeStep(s) /\ UNCHANGED submissionVars
  BY <1>2 DEF NodeStep, NodeProgress, Include, Finalize, Retract, Discard,
     LoseWatch, Becomes, submissionVars
<1>3. QED
  BY <1>1, <1>2

LEMMA SubmissionStepInv ==
  ASSUME SubmissionInv, NEW s \in Submissions, SubmissionStep(s), TxTypeOK'
  PROVE  InStep(s)' /\ ReportsInStep(s)' /\ VerdictInStep(s)'
<1> DEFINE ready == [status |-> "Ready", outcome |-> "None"]
<1>0. InStep(s) /\ ReportsInStep(s) /\ VerdictInStep(s) /\ TxTypeOK
  BY DEF SubmissionInv
<1> USE <1>0 DEF TxTypeOK, WatchTypeOK
<1>1. CASE Submit(s) \/ FoundInjector(s)
  BY <1>1 DEF Submit, FoundInjector, watchVars, InStep, ReportsInStep,
     VerdictInStep, Reports, FailureStands, Settled
<1>2. CASE NotSent(s)
  BY <1>2 DEF NotSent, Caught, watchVars, InStep, ReportsInStep,
     VerdictInStep, Reports, FailureStands, Settled
<1>3. CASE Sent(s)
  <2>1. Reports(s)' = {ready}
    <3>1. transit'[s] = <<ready>>
      BY <1>3 DEF Sent, EnterPool
    <3>2. QED
      BY <3>1 DEF Reports, Elements
  <2>2. extrinsic'[s] = ready /\ watch'[s] = "open"
    BY <1>3 DEF Sent, EnterPool
  <2>3. pc[s] = "signing" /\ pc'[s] = "watching"
        /\ shown' = shown /\ result' = result
    BY <1>3 DEF Sent
  <2>4. QED
    BY <2>1, <2>2, <2>3 DEF InStep, ReportsInStep, VerdictInStep,
       FailureStands, Settled, BlockHasOutcome, InChain
<1>4. CASE SentUnanswered(s)
  <2>1. extrinsic'[s] = ready /\ watch'[s] = "lost" /\ transit'[s] = <<>>
    BY <1>4 DEF SentUnanswered, EnterPool
  <2>2. pc'[s] = "caught" /\ shown'[s] = "error" /\ result'[s] = "failure"
    BY <1>4 DEF SentUnanswered, Caught
  <2>3. QED
    BY <2>1, <2>2, NoElements DEF InStep, ReportsInStep, VerdictInStep,
       Reports, Settled, BlockHasOutcome, InChain
<1>5. CASE Callback(s)
  <2> DEFINE report == Head(transit[s])
  <2>1. /\ pc[s] = "watching" /\ watch[s] = "open" /\ transit[s] # <<>>
        /\ pc' = pc /\ extrinsic' = extrinsic /\ forks' = forks
        /\ ~Settled(s)
    BY <1>5 DEF Callback, InStep
  <2>2. /\ report \in Reports(s)
        /\ report \in Extrinsic
        /\ Elements(Tail(transit[s])) \subseteq Reports(s)
    BY <2>1, HeadAndTailElements DEF Reports, ReportQueue
  <2>3. /\ BlockHasOutcome(report)
        /\ report.status = "Finalized" => report = extrinsic[s]
        /\ report.outcome = "Err" => FailureStands(s)
    BY <2>2 DEF ReportsInStep
  <2>4. /\ shown'[s] = StatusAfter(report, shown[s])
        /\ result'[s] = Verdict(report)
        /\ IF Verdict(report) # "pending"
           THEN watch'[s] = "closed" /\ transit'[s] = <<>>
           ELSE watch'[s] = "open" /\ transit'[s] = Tail(transit[s])
    BY <1>5, <2>1 DEF Callback, Unsubscribe
  <2>5. Reports(s)' \subseteq Reports(s)
    BY <2>2, <2>4, NoElements DEF Reports
  <2>6. InStep(s)'
    BY <2>1, <2>4 DEF InStep, Settled, BlockHasOutcome
  <2>7. ReportsInStep(s)'
    BY <2>1, <2>5 DEF ReportsInStep, FailureStands, BlockHasOutcome
  <2>8. VerdictInStep(s)'
    <3> HIDE DEF report
    <3>1. shown[s] \notin {"finalized", "error"}
      BY <2>1 DEF VerdictInStep, Settled
    <3>2. CASE report.outcome = "Err"
      BY <2>1, <2>3, <2>4, <3>2 DEF VerdictInStep, Verdict, StatusAfter,
         FailureStands
    <3>3. CASE report.outcome # "Err" /\ report.status = "Finalized"
      <4>1. extrinsic[s] = [status |-> "Finalized", outcome |-> "Ok"]
        BY <2>2, <2>3, <3>3 DEF Extrinsic, Outcome, BlockHasOutcome, InChain
      <4>2. result'[s] = "success" /\ shown'[s] = "finalized"
        BY <2>4, <3>3 DEF Verdict, StatusAfter, ShownFor
      <4>3. QED
        BY <2>1, <4>1, <4>2 DEF VerdictInStep
    <3>4. CASE report.outcome # "Err" /\ report.status # "Finalized"
      <4>1. result'[s] = "pending" /\ shown'[s] \notin {"finalized", "error"}
        BY <2>4, <3>1, <3>4 DEF Verdict, StatusAfter, ShownFor
      <4>2. QED
        BY <4>1 DEF VerdictInStep
    <3>5. QED
      BY <3>2, <3>3, <3>4
  <2>9. QED
    BY <2>6, <2>7, <2>8
<1>6. QED
  BY <1>1, <1>2, <1>3, <1>4, <1>5 DEF SubmissionStep

\* The extrinsic of s changes at the node: its failure still stands, a final
\* extrinsic is left as it is, and what is reported is the new state.
LEMMA NodeStepInv ==
  ASSUME SubmissionInv, NEW s \in Submissions,
         NodeStep(s), UNCHANGED submissionVars, TxTypeOK'
  PROVE  InStep(s)' /\ ReportsInStep(s)' /\ VerdictInStep(s)'
<1>0. InStep(s) /\ ReportsInStep(s) /\ VerdictInStep(s) /\ TxTypeOK
  BY DEF SubmissionInv
<1> USE <1>0 DEF TxTypeOK, WatchTypeOK
<1>1. pc' = pc /\ shown' = shown /\ result' = result
  BY DEF submissionVars
<1>2. CASE LoseWatch(s)
  <2>1. /\ watch[s] = "open" /\ watch'[s] = "lost" /\ transit'[s] = <<>>
        /\ extrinsic' = extrinsic /\ forks' = forks
    BY <1>2 DEF LoseWatch
  <2>2. QED
    BY <1>1, <2>1, NoElements DEF InStep, ReportsInStep, VerdictInStep,
       Reports, FailureStands, Settled, BlockHasOutcome
<1>3. CASE NodeProgress(s) \/ Retract(s) \/ Discard(s)
  <2>1. PICK e \in Extrinsic :
          /\ extrinsic'[s] = e
          /\ transit'[s] = IF watch[s] = "open" THEN Append(transit[s], e)
                           ELSE transit[s]
          /\ watch' = watch
          /\ BlockHasOutcome(e) /\ e.status # "Unsent"
    <3>1. extrinsic[s].status = "InBlock" =>
            extrinsic[s].outcome \in {"Ok", "Err"}
      BY DEF InStep, BlockHasOutcome, InChain, Extrinsic, Outcome
    <3>2. PICK status \in ExtrinsicStatus, outcome \in Outcome :
            /\ Becomes(s, status, outcome)
            /\ status \in InChain <=> outcome # "None"
            /\ status # "Unsent"
      BY <1>3, <3>1 DEF NodeProgress, Include, Finalize, Retract, Discard,
         ExtrinsicStatus, Outcome, InChain
    <3> DEFINE e == [status |-> status, outcome |-> outcome]
    <3>3. e \in Extrinsic /\ BlockHasOutcome(e) /\ e.status # "Unsent"
      BY <3>2 DEF Extrinsic, BlockHasOutcome
    <3>4. /\ extrinsic' = [extrinsic EXCEPT ![s] = e]
          /\ transit' = IF watch[s] = "open"
                        THEN [transit EXCEPT ![s] = Append(@, e)]
                        ELSE transit
          /\ watch' = watch
      BY <3>2 DEF Becomes
    <3> HIDE DEF e
    <3>5. QED
      BY <3>3, <3>4
  <2>2. extrinsic[s].status \in {"Ready", "InBlock", "Retracted"}
    BY <1>3 DEF NodeProgress, Include, Finalize, Retract, Discard
  <2>3. FailureStands(s) => FailureStands(s)'
    <3>1. forks[s] > 0 => forks'[s] > 0
      BY <1>3, MaxForksAssumption DEF NodeProgress, Include, Finalize,
         Retract, Discard
    <3>2. CASE Include(s, "Ok") \/ Include(s, "Err")
      BY <3>1, <3>2 DEF Include, FailureStands, InStep, BlockHasOutcome, InChain
    <3>3. CASE Finalize(s) \/ Discard(s)
      BY <3>1, <3>3 DEF Finalize, Discard, Becomes, FailureStands
    <3>4. CASE Retract(s)
      BY <3>4 DEF Retract, FailureStands
    <3>5. QED
      BY <1>3, <3>2, <3>3, <3>4 DEF NodeProgress
  <2>4. Reports(s)' \subseteq Reports(s) \cup {e}
    BY <2>1, AppendElements DEF Reports, ReportQueue
  <2>5. e.outcome = "Err" => FailureStands(s)'
    BY <2>1 DEF FailureStands
  <2>6. InStep(s)'
    BY <1>1, <2>1, <2>2 DEF InStep, Settled
  <2>7. ReportsInStep(s)'
    <3>1. \A r \in Reports(s) : r.status # "Finalized"
      BY <2>2 DEF ReportsInStep
    <3>2. QED
      BY <2>1, <2>3, <2>4, <2>5, <3>1 DEF ReportsInStep, BlockHasOutcome
  <2>8. VerdictInStep(s)'
    BY <1>1, <2>1, <2>2, <2>3 DEF VerdictInStep
  <2>9. QED
    BY <2>6, <2>7, <2>8
<1>4. QED
  BY <1>2, <1>3 DEF NodeStep
-----------------------------------------------------------------------------
LEMMA SubmissionInvPreserved ==
  ASSUME SubmissionInv, [TxNext]_txVars
  PROVE  SubmissionInv'
<1>1. CASE UNCHANGED txVars
  BY <1>1 DEF SubmissionInv, txVars, watchVars, submissionVars, TxTypeOK,
     WatchTypeOK, InStep, ReportsInStep, VerdictInStep, Reports,
     FailureStands, Settled, BlockHasOutcome
<1>2. ASSUME NEW s \in Submissions,
             SubmissionStep(s) \/ (NodeStep(s) /\ UNCHANGED submissionVars)
      PROVE  SubmissionInv'
  <2>1. TxTypeOK'
    BY <1>2, StepTyped DEF SubmissionInv
  <2>2. InStep(s)' /\ ReportsInStep(s)' /\ VerdictInStep(s)'
    BY <1>2, <2>1, SubmissionStepInv, NodeStepInv
  <2>3. ASSUME NEW q \in Submissions, q # s
        PROVE  InStep(q)' /\ ReportsInStep(q)' /\ VerdictInStep(q)'
    BY <1>2, <2>3, OthersKept, KeptInStep DEF SubmissionInv
  <2>4. QED
    BY <2>1, <2>2, <2>3 DEF SubmissionInv
<1>3. QED
  BY <1>1, <1>2 DEF TxNext

LEMMA SubmissionInvInit == TxGenesis => SubmissionInv
<1> SUFFICES ASSUME TxGenesis PROVE SubmissionInv
  OBVIOUS
<1> DEFINE unsent == [status |-> "Unsent", outcome |-> "None"]
<1>1. unsent \in Extrinsic /\ <<>> \in ReportQueue /\ 0 \in 0..MaxForks
  BY MaxForksAssumption DEF Extrinsic, ExtrinsicStatus, Outcome, ReportQueue
<1>2. TxTypeOK
  BY <1>1 DEF TxGenesis, WatchInit, SubmissionInit, TxTypeOK, WatchTypeOK
<1>3. ASSUME NEW s \in Submissions
      PROVE  InStep(s) /\ ReportsInStep(s) /\ VerdictInStep(s)
  BY NoElements DEF TxGenesis, WatchInit, SubmissionInit, InStep,
     ReportsInStep, VerdictInStep, Reports, Settled, BlockHasOutcome, InChain
<1>4. QED
  BY <1>2, <1>3 DEF SubmissionInv

\* The verdict, the status shown and the reports on their way stay in step
\* with the extrinsic at the node.
THEOREM SubmissionInvariance == TxSpec => []SubmissionInv
BY SubmissionInvInit, SubmissionInvPreserved, PTL DEF TxSpec

\* The state of all submissions is always of its type.
THEOREM TxTypeCorrect == TxSpec => []TxTypeOK
<1>1. SubmissionInv => TxTypeOK
  BY DEF SubmissionInv
<1>2. QED
  BY <1>1, SubmissionInvariance, PTL

\* Success is told only of an extrinsic that is final and returned Ok.
THEOREM SuccessCorrect == TxSpec => []SuccessIsFinal
<1>1. SubmissionInv => SuccessIsFinal
  BY DEF SubmissionInv, VerdictInStep, SuccessIsFinal
<1>2. QED
  BY <1>1, SubmissionInvariance, PTL

\* What is shown agrees with how the promise settled.
THEOREM ShownCorrect == TxSpec => []ShownAgrees
<1>1. SubmissionInv => ShownAgrees
  BY DEF SubmissionInv, VerdictInStep, ShownAgrees
<1>2. QED
  BY <1>1, SubmissionInvariance, PTL

\* An extrinsic that took effect was told to have failed only after a fork or
\* a broken connection.
THEOREM FailureCorrect == TxSpec => []FailureExplained
<1>1. ASSUME SubmissionInv, NEW s \in Submissions, result[s] = "failure",
             extrinsic[s] = [status |-> "Finalized", outcome |-> "Ok"]
      PROVE  forks[s] > 0 \/ watch[s] = "lost"
  BY <1>1 DEF SubmissionInv, VerdictInStep, InStep, FailureStands
<1>2. SubmissionInv => FailureExplained
  BY <1>1 DEF FailureExplained
<1>3. QED
  BY <1>2, SubmissionInvariance, PTL

\* After its promise has settled nothing that is shown of a submission changes.
THEOREM VerdictCorrect == TxSpec => VerdictKept
<1>1. ASSUME SubmissionInv, [TxNext]_txVars, NEW s \in Submissions, Settled(s)
      PROVE  result'[s] = result[s] /\ shown'[s] = shown[s]
  <2>1. CASE UNCHANGED txVars
    BY <2>1 DEF txVars, submissionVars
  <2>2. ASSUME NEW q \in Submissions, NodeStep(q), UNCHANGED submissionVars
        PROVE  result'[s] = result[s] /\ shown'[s] = shown[s]
    BY <2>2 DEF submissionVars
  <2>3. ASSUME NEW q \in Submissions, q # s, SubmissionStep(q)
        PROVE  result'[s] = result[s] /\ shown'[s] = shown[s]
    BY <2>3, <1>1, OthersKept DEF SubmissionInv, Kept
  <2>4. ~SubmissionStep(s)
    <3>1. InStep(s)
      BY <1>1 DEF SubmissionInv
    <3>2. QED
      BY <1>1, <3>1 DEF SubmissionStep, Submit, FoundInjector, Sent, NotSent,
         SentUnanswered, Callback, InStep
  <2>5. QED
    BY <1>1, <2>1, <2>2, <2>3, <2>4 DEF TxNext
<1>2. SubmissionInv /\ [TxNext]_txVars =>
        [\A s \in Submissions :
           Settled(s) => result'[s] = result[s] /\ shown'[s] = shown[s]]_txVars
  BY <1>1
<1>3. QED
  BY <1>2, SubmissionInvariance, PTL DEF TxSpec, VerdictKept
-----------------------------------------------------------------------------
\* On a chain without forks a call has taken effect if and only if its
\* extrinsic got into a block with Ok, and no failure of it is reported then.
EffectInStep(s) ==
  /\ forks[s] = 0 /\ extrinsic[s].status # "Retracted"
  /\ effective[s] => /\ extrinsic[s].status \in {"InBlock", "Finalized", "Gone"}
                     /\ extrinsic[s].outcome # "Err"
                     /\ \A r \in Reports(s) : r.outcome # "Err"
  /\ extrinsic[s].outcome = "Ok" => effective[s]
  /\ pc[s] = "watching" /\ watch[s] = "lost" => ~Settled(s)

EffectInv ==
  /\ SubmissionInv
  /\ effective \in [Submissions -> BOOLEAN]
  /\ \A s \in Submissions : EffectInStep(s)

\* A submission on a ledger is a submission.
LEMMA OnLedgerIsTx ==
  ASSUME [OnLedgerNext]_onLedgerVars
  PROVE  [TxNext]_txVars
<1>1. ASSUME NEW s \in Submissions,
             Submits(s) \/ TakesEffect(s) \/ NodeGoesOn(s)
      PROVE  TxNext
  BY <1>1 DEF Submits, TakesEffect, NodeGoesOn, NodeStep, NodeProgress, TxNext
<1>2. CASE OthersGoOn
  BY <1>2 DEF OthersGoOn
<1>3. QED
  BY <1>1, <1>2 DEF OnLedgerNext, onLedgerVars

\* What a step of one submission does to the effect of its call.
LEMMA SubmitsInStep ==
  ASSUME EffectInv, NEW s \in Submissions, Submits(s), SubmissionInv'
  PROVE  EffectInStep(s)'
<1>1. /\ EffectInStep(s) /\ InStep(s)
      /\ effective' = effective /\ SubmissionStep(s)
      /\ TxTypeOK
  BY DEF EffectInv, SubmissionInv, Submits
<1> USE <1>1 DEF TxTypeOK, WatchTypeOK
<1>2. CASE Submit(s) \/ FoundInjector(s) \/ NotSent(s)
  BY <1>2 DEF Submit, FoundInjector, NotSent, Caught, watchVars, EffectInStep,
     Reports, Settled
<1>3. CASE Sent(s) \/ SentUnanswered(s)
  <2>1. /\ extrinsic[s].status = "Unsent"
        /\ extrinsic'[s] = [status |-> "Ready", outcome |-> "None"]
        /\ forks'[s] = forks[s]
        /\ Sent(s) => watch'[s] = "open"
        /\ SentUnanswered(s) => pc'[s] = "caught"
    BY <1>3 DEF Sent, SentUnanswered, EnterPool, Caught
  <2>2. QED
    BY <1>3, <2>1 DEF EffectInStep
<1>4. CASE Callback(s)
  <2>1. /\ extrinsic' = extrinsic /\ forks' = forks /\ pc' = pc
        /\ watch[s] = "open" /\ watch'[s] \in {"open", "closed"}
        /\ transit'[s] \in {<<>>, Tail(transit[s])}
        /\ transit[s] # <<>>
    BY <1>4 DEF Callback, Unsubscribe
  <2>2. Reports(s)' \subseteq Reports(s)
    BY <2>1, NoElements, HeadAndTailElements DEF Reports, ReportQueue
  <2>3. QED
    BY <2>1, <2>2 DEF EffectInStep
<1>5. QED
  BY <1>2, <1>3, <1>4 DEF SubmissionStep

LEMMA NodeInStep ==
  ASSUME EffectInv, NEW s \in Submissions, TakesEffect(s) \/ NodeGoesOn(s)
  PROVE  EffectInStep(s)'
<1>1. /\ EffectInStep(s) /\ InStep(s) /\ ReportsInStep(s) /\ TxTypeOK
      /\ effective \in [Submissions -> BOOLEAN]
      /\ UNCHANGED submissionVars
  BY DEF EffectInv, SubmissionInv, TakesEffect, NodeGoesOn
<1> USE <1>1 DEF TxTypeOK, WatchTypeOK
<1>2. pc' = pc /\ result' = result
  BY DEF submissionVars
<1>3. CASE LoseWatch(s)
  <2>1. /\ extrinsic' = extrinsic /\ forks' = forks /\ effective' = effective
        /\ transit'[s] = <<>> /\ watch[s] = "open"
    <3>1. extrinsic[s]' = extrinsic[s] /\ ~TakesEffect(s)
      BY <1>3 DEF LoseWatch, TakesEffect, Include, Becomes
    <3>2. QED
      BY <1>3, <3>1 DEF LoseWatch, NodeGoesOn
  <2>2. QED
    BY <1>2, <2>1, NoElements DEF EffectInStep, InStep, Reports, Settled
<1>4. ASSUME NEW status \in ExtrinsicStatus, NEW outcome \in Outcome,
             Becomes(s, status, outcome), forks' = forks,
             status \in {"InBlock", "Finalized", "Gone"},
             \A r \in Reports(s) : r.outcome = "Err" => ~effective'[s],
             effective'[s] <=> effective[s] \/ outcome = "Ok",
             outcome = "Err" => ~effective[s]
      PROVE  EffectInStep(s)'
  <2> DEFINE now == [status |-> status, outcome |-> outcome]
  <2>1. /\ extrinsic' = [extrinsic EXCEPT ![s] = now]
        /\ transit' = IF watch[s] = "open"
                      THEN [transit EXCEPT ![s] = Append(@, now)] ELSE transit
        /\ watch' = watch
    BY <1>4 DEF Becomes
  <2>2. now \in Extrinsic /\ now.status = status /\ now.outcome = outcome
    BY DEF Extrinsic
  <2> HIDE DEF now
  <2>3. Reports(s)' \subseteq Reports(s) \cup {now}
    BY <2>1, <2>2, AppendElements DEF Reports, ReportQueue
  <2>4. extrinsic'[s] = now
    BY <2>1
  <2>5. QED
    BY <1>2, <1>4, <2>1, <2>2, <2>3, <2>4 DEF EffectInStep, Settled
<1>5. CASE Include(s, "Ok")
  <2>1. /\ extrinsic[s].status = "Ready" /\ extrinsic[s].outcome = "None"
        /\ ~effective[s]
    BY <1>5 DEF Include, EffectInStep, InStep, BlockHasOutcome, InChain,
       Extrinsic, Outcome
  <2>2. extrinsic'[s].outcome = "Ok"
    BY <1>5 DEF Include, Becomes
  <2>3. TakesEffect(s)
    BY <2>1, <2>2, MaxForksAssumption
       DEF NodeGoesOn, Include, Finalize, Discard, LoseWatch, Becomes
  <2>4. effective'[s]
    BY <2>3 DEF TakesEffect
  <2>5. \A r \in Reports(s) : r.outcome # "Err"
    BY <2>1 DEF ReportsInStep, FailureStands, EffectInStep
  <2>6. QED
    BY <1>4, <1>5, <2>4, <2>5 DEF Include, ExtrinsicStatus, Outcome
<1>6. CASE NodeGoesOn(s) /\ (Include(s, "Err") \/ Finalize(s) \/ Discard(s))
  <2>1. effective' = effective
    BY <1>6 DEF NodeGoesOn
  <2>2. CASE Include(s, "Err")
    <3>1. ~effective[s]
      BY <2>2 DEF Include, EffectInStep
    <3>2. QED
      BY <1>4, <2>1, <2>2, <3>1 DEF Include, ExtrinsicStatus, Outcome
  <2>3. CASE Finalize(s)
    <3>1. /\ Becomes(s, "Finalized", extrinsic[s].outcome)
          /\ forks' = forks /\ extrinsic[s].outcome \in Outcome
      BY <2>3 DEF Finalize, Extrinsic
    <3>2. QED
      BY <1>4, <2>1, <3>1 DEF EffectInStep, ExtrinsicStatus
  <2>4. CASE Discard(s)
    BY <1>4, <2>1, <2>4 DEF Discard, EffectInStep, ExtrinsicStatus, Outcome
  <2>5. QED
    BY <1>6, <2>2, <2>3, <2>4
<1>7. QED
  BY <1>3, <1>5, <1>6 DEF TakesEffect, NodeGoesOn

\* A step of s is one of s only.
LEMMA OthersOnLedgerKept ==
  ASSUME EffectInv, NEW s \in Submissions, NEW q \in Submissions, q # s,
         Submits(s) \/ TakesEffect(s) \/ NodeGoesOn(s)
  PROVE  Kept(q) /\ effective'[q] = effective[q]
<1>1. SubmissionStep(s) \/ (NodeStep(s) /\ UNCHANGED submissionVars)
  BY DEF Submits, TakesEffect, NodeGoesOn, NodeStep, NodeProgress
<1>2. Kept(q)
  BY <1>1, OthersKept DEF EffectInv, SubmissionInv
<1>3. QED
  BY <1>2 DEF EffectInv, Submits, TakesEffect, NodeGoesOn

LEMMA EffectInvPreserved ==
  ASSUME EffectInv, [OnLedgerNext]_onLedgerVars, SubmissionInv'
  PROVE  EffectInv'
<1>1. effective' \in [Submissions -> BOOLEAN]
  BY DEF EffectInv, OnLedgerNext, OthersGoOn, Submits, TakesEffect,
     NodeGoesOn, onLedgerVars
<1>2. ASSUME NEW q \in Submissions, Kept(q), effective'[q] = effective[q]
      PROVE  EffectInStep(q)'
  BY <1>2 DEF EffectInv, EffectInStep, Kept, Reports, Settled
<1>3. CASE UNCHANGED <<txVars, effective>>
  BY <1>1, <1>2, <1>3 DEF Kept, txVars, watchVars, submissionVars, EffectInv
<1>4. ASSUME NEW s \in Submissions,
             Submits(s) \/ TakesEffect(s) \/ NodeGoesOn(s)
      PROVE  EffectInv'
  BY <1>1, <1>2, <1>4, SubmitsInStep, NodeInStep, OthersOnLedgerKept
     DEF EffectInv
<1>5. QED
  BY <1>3, <1>4 DEF OnLedgerNext, OthersGoOn, onLedgerVars

\* The effect of a call agrees with what is known of its extrinsic, on any
\* ledger without forks.
THEOREM EffectInvariance == OnLedgerSpec => []EffectInv
<1>1. OnLedgerSpec => TxSpec
  <2>1. OnLedgerInit => TxGenesis
    BY DEF OnLedgerInit
  <2>2. [OnLedgerNext]_onLedgerVars => [TxNext]_txVars
    BY OnLedgerIsTx
  <2>3. QED
    BY <2>1, <2>2, PTL DEF OnLedgerSpec, TxSpec
<1>2. OnLedgerInit => EffectInv
  <2>1. SUFFICES ASSUME OnLedgerInit PROVE EffectInv
    OBVIOUS
  <2>2. SubmissionInv
    BY <2>1, SubmissionInvInit DEF OnLedgerInit
  <2>3. QED
    BY <2>1, <2>2, NoElements DEF OnLedgerInit, TxGenesis, WatchInit,
       SubmissionInit, EffectInv, EffectInStep, Reports, Settled
<1>3. EffectInv /\ SubmissionInv' /\ [OnLedgerNext]_onLedgerVars => EffectInv'
  BY EffectInvPreserved
<1>4. QED
  BY <1>1, <1>2, <1>3, SubmissionInvariance, PTL DEF OnLedgerSpec
-----------------------------------------------------------------------------
\* One submission is seen to change.
LEMMA OneSeen ==
  ASSUME NEW s \in Submissions, NEW e, Seen(s)' = e,
         \A q \in Submissions : q # s => Seen(q)' = Seen(q)
  PROVE  [q \in Submissions |-> Seen(q)]' =
           [[q \in Submissions |-> Seen(q)] EXCEPT ![s] = e]
OBVIOUS

LEMMA NoneSeen ==
  ASSUME \A q \in Submissions : Seen(q)' = Seen(q)
  PROVE  UNCHANGED [q \in Submissions |-> Seen(q)]
OBVIOUS

LEMMA KeptSeen ==
  ASSUME NEW q \in Submissions, Kept(q), effective'[q] = effective[q]
  PROVE  Seen(q)' = Seen(q)
BY DEF Kept, Seen, SeenAs, Settled

LEMMA PhaseReplaced ==
  ASSUME NEW s, NEW phase, NEW other
  PROVE  [SeenAs(s, phase) EXCEPT !.phase = other] = SeenAs(s, other)
<1>1. PICK there : there = TRUE
  OBVIOUS
<1>2. \A p : SeenAs(s, p) = [call |-> callOf[s], phase |-> p,
                             page |-> pageOf[s], mounted |-> there]
  BY <1>1, Zenon DEF SeenAs
<1>3. QED
  BY <1>2

\* The phases of an extrinsic that is seen.
LEMMA PhaseSeen ==
  ASSUME NoneIsNoExtrinsic, NEW s \in Submissions, NEW phase \in E!Phases,
         Seen(s) = SeenAs(s, phase)
  PROVE  /\ E!InPhase(s, phase)
         /\ \A other : [Seen(s) EXCEPT !.phase = other] = SeenAs(s, other)
<1>1. Seen(s) # None
  BY DEF NoneIsNoExtrinsic
<1>2. Seen(s).phase = phase
  BY DEF SeenAs
<1>3. QED
  BY <1>1, <1>2, PhaseReplaced DEF E!InPhase, E!Free

\* A submission goes on to another phase.
LEMMA PhaseChanges ==
  ASSUME NoneIsNoExtrinsic, NEW s \in Submissions,
         NEW phase \in E!Phases, NEW other \in E!Phases,
         Seen(s) = SeenAs(s, phase), Seen(s)' = SeenAs(s, other),
         \A q \in Submissions : q # s => Seen(q)' = Seen(q)
  PROVE  /\ E!InPhase(s, phase)
         /\ [q \in Submissions |-> Seen(q)]' =
              [[q \in Submissions |-> Seen(q)] EXCEPT ![s].phase = other]
<1>1. /\ E!InPhase(s, phase)
      /\ [Seen(s) EXCEPT !.phase = other] = SeenAs(s, other)
  BY PhaseSeen
<1>2. [q \in Submissions |-> Seen(q)]' =
        [[q \in Submissions |-> Seen(q)] EXCEPT ![s] = SeenAs(s, other)]
  BY OneSeen
<1>3. QED
  BY <1>1, <1>2

\* What the page does.
LEMMA SubmitsSeen ==
  ASSUME NoneIsNoExtrinsic, EffectInv, NEW s \in Submissions, Submits(s),
         \A q \in Submissions : q # s => Seen(q)' = Seen(q)
  PROVE  [SeenNext]_<<seenVars, ledgerVars>>
<1>1. /\ EffectInStep(s) /\ InStep(s) /\ ReportsInStep(s) /\ TxTypeOK
      /\ effective' = effective /\ UNCHANGED ledgerVars /\ SubmissionStep(s)
      /\ effective \in [Submissions -> BOOLEAN]
  BY DEF EffectInv, SubmissionInv, Submits
<1> USE <1>1 DEF TxTypeOK, WatchTypeOK
<1>2. \A phase \in {"signing", "pool", "block", "unwatched"} :
        phase \in E!Phases
  BY DEF E!Phases
<1>3. CASE Submit(s)
  <2>1. Seen(s) = None /\ Seen(s)' = SeenAs(s, "signing")
    BY <1>3 DEF Submit, Seen, SeenAs
  <2>2. E!Send(s, callOf[s], pageOf[s])
    BY <2>1, OneSeen DEF E!Send, E!Free, E!Extrinsic, SeenAs
  <2>3. UNCHANGED result
    BY <1>3 DEF Submit
  <2>4. QED
    BY <2>2, <2>3 DEF SeenNext, SeenStep
<1>4. CASE FoundInjector(s)
  <2>1. Seen(s)' = Seen(s) /\ UNCHANGED result
    BY <1>4 DEF FoundInjector, Seen, SeenAs
  <2>2. QED
    BY <2>1, NoneSeen DEF seenVars
<1>5. CASE Sent(s)
  <2>1. ~effective[s] /\ ~Settled(s)
    BY <1>5 DEF Sent, EffectInStep, InStep
  <2>2. Seen(s) = SeenAs(s, "signing") /\ Seen(s)' = SeenAs(s, "pool")
    BY <1>5, <2>1 DEF Sent, Seen, SeenAs, Settled
  <2>3. E!SignedAndSent(s)
    BY <1>2, <2>2, PhaseChanges DEF E!SignedAndSent, E!ledgerVars, ledgerVars
  <2>4. UNCHANGED result
    BY <1>5 DEF Sent
  <2>5. QED
    BY <2>3, <2>4 DEF SeenNext, SeenStep
<1>6. CASE NotSent(s)
  <2>1. ~Settled(s) /\ watch'[s] = "none"
    BY <1>6 DEF NotSent, InStep, watchVars
  <2>2. Seen(s) = SeenAs(s, "signing") /\ Seen(s)' = None
    BY <1>6, <2>1 DEF NotSent, Caught, Seen, SeenAs
  <2>3. E!Fails(s)
    BY <1>2, <2>2, OneSeen, PhaseSeen DEF E!Fails, E!Withdraw
  <2>4. SettlesWith(s, "failure")
    BY <1>6, <2>1 DEF NotSent, Caught, SettlesWith
  <2>5. QED
    BY <2>3, <2>4 DEF SeenNext, SeenStep
<1>7. CASE SentUnanswered(s)
  <2>1. ~Settled(s) /\ ~effective[s]
    BY <1>7 DEF SentUnanswered, InStep, EffectInStep
  <2>2. Seen(s) = SeenAs(s, "signing") /\ Seen(s)' = SeenAs(s, "unwatched")
    BY <1>7, <2>1 DEF SentUnanswered, EnterPool, Caught, Seen, SeenAs
  <2>3. E!Fails(s)
    BY <1>2, <2>2, PhaseChanges DEF E!Fails
  <2>4. SettlesWith(s, "failure")
    BY <1>7, <2>1 DEF SentUnanswered, Caught, SettlesWith
  <2>5. QED
    BY <2>3, <2>4 DEF SeenNext, SeenStep
<1>8. CASE Callback(s)
  <2> DEFINE report == Head(transit[s])
  <2>1. /\ pc[s] = "watching" /\ watch[s] = "open" /\ ~Settled(s)
        /\ pc' = pc
        /\ result' = [result EXCEPT ![s] = Verdict(report)]
    BY <1>8 DEF Callback, InStep
  <2>2. report \in Reports(s) /\ report \in Extrinsic
    BY <1>8, HeadAndTailElements DEF Callback, Reports, ReportQueue
  <2> HIDE DEF report
  <2>3. CASE Verdict(report) = "pending"
    <3>1. result' = result
      BY <2>1, <2>3 DEF Settled
    <3>2. Seen(s)' = Seen(s)
      BY <2>1, <3>1 DEF Seen, SeenAs, Settled
    <3>3. QED
      BY <3>1, <3>2, NoneSeen DEF seenVars
  <2>4. CASE Verdict(report) = "failure"
    <3>1. ~effective[s]
      BY <2>2, <2>4 DEF Verdict, EffectInStep
    <3>2. Seen(s) = SeenAs(s, "pool") /\ Seen(s)' = None
      BY <2>1, <2>4, <3>1 DEF Seen, SeenAs, Settled
    <3>3. E!Fails(s)
      BY <1>2, <3>2, OneSeen, PhaseSeen DEF E!Fails, E!Withdraw
    <3>4. SettlesWith(s, "failure")
      BY <2>1, <2>4 DEF SettlesWith
    <3>5. QED
      BY <3>3, <3>4 DEF SeenNext, SeenStep
  <2>5. CASE Verdict(report) = "success"
    <3>1. report.status = "Finalized" /\ report.outcome # "Err"
      BY <2>5 DEF Verdict
    <3>2. effective[s]
      BY <2>2, <3>1 DEF ReportsInStep, EffectInStep, BlockHasOutcome,
         InChain, Extrinsic, Outcome
    <3>3. Seen(s) = SeenAs(s, "block") /\ Seen(s)' = None
      BY <2>1, <2>5, <3>2 DEF Seen, SeenAs, Settled
    <3>4. E!Finalized(s)
      BY <1>2, <3>3, OneSeen, PhaseSeen DEF E!Finalized, E!Withdraw
    <3>5. SettlesWith(s, "success")
      BY <2>1, <2>5 DEF SettlesWith
    <3>6. QED
      BY <3>4, <3>5 DEF SeenNext, SeenStep
  <2>6. QED
    BY <2>3, <2>4, <2>5 DEF Verdict
<1>9. QED
  BY <1>3, <1>4, <1>5, <1>6, <1>7, <1>8 DEF SubmissionStep

\* The call takes effect, for a page that waits or for none.
LEMMA EffectSeen ==
  ASSUME NoneIsNoExtrinsic, EffectInv, NEW s \in Submissions, TakesEffect(s),
         \A q \in Submissions : q # s => Seen(q)' = Seen(q)
  PROVE  SeenNext
<1>1. /\ EffectInStep(s) /\ InStep(s) /\ VerdictInStep(s) /\ TxTypeOK
      /\ E!Accepted(callOf[s]) /\ UNCHANGED submissionVars
      /\ Include(s, "Ok")
      /\ effective \in [Submissions -> BOOLEAN]
      /\ effective' = [effective EXCEPT ![s] = TRUE]
  BY DEF EffectInv, SubmissionInv, TakesEffect
<1> USE <1>1 DEF TxTypeOK, WatchTypeOK
<1>2. /\ extrinsic[s].status = "Ready" /\ ~effective[s] /\ effective'[s]
      /\ pc' = pc /\ result' = result /\ watch' = watch
  BY DEF Include, Becomes, EffectInStep, submissionVars
<1>3. ~FailureStands(s)
  BY <1>2 DEF FailureStands, EffectInStep, InStep, BlockHasOutcome, InChain
<1>4. CASE pc[s] = "watching"
  <2>1. ~Settled(s)
    BY <1>2, <1>3, <1>4 DEF VerdictInStep, EffectInStep, Settled
  <2>2. Seen(s) = SeenAs(s, "pool") /\ Seen(s)' = SeenAs(s, "block")
    BY <1>2, <1>4, <2>1 DEF Seen, SeenAs, Settled
  <2>3. "pool" \in E!Phases
    BY DEF E!Phases
  <2>4. E!Included(s)
    BY <2>2, <2>3, OneSeen, PhaseSeen DEF E!Included, SeenAs
  <2>5. QED
    BY <1>2, <2>4 DEF SeenNext, SeenStep
<1>5. CASE pc[s] = "caught" /\ watch[s] = "lost"
  <2>1. Seen(s) = SeenAs(s, "unwatched") /\ Seen(s)' = None
    BY <1>2, <1>5 DEF Seen, SeenAs
  <2>2. "unwatched" \in E!Phases
    BY DEF E!Phases
  <2>3. E!UnwatchedEnds(s)
    BY <2>1, <2>2, OneSeen, PhaseSeen DEF E!UnwatchedEnds, E!Withdraw, SeenAs
  <2>4. QED
    BY <1>2, <2>3 DEF SeenNext, SeenStep
<1>6. QED
  BY <1>2, <1>4, <1>5 DEF InStep

LEMMA OnLedgerSeen ==
  ASSUME NoneIsNoExtrinsic, EffectInv, [OnLedgerNext]_onLedgerVars
  PROVE  [SeenNext]_<<seenVars, ledgerVars>>
<1>1. CASE UNCHANGED <<txVars, effective>>
  <2>1. \A q \in Submissions : Seen(q)' = Seen(q)
    BY <1>1, KeptSeen DEF Kept, txVars, watchVars, submissionVars
  <2>2. UNCHANGED seenVars
    BY <1>1, <2>1, NoneSeen DEF seenVars, txVars, submissionVars
  <2>3. LedgerNext \/ UNCHANGED ledgerVars
    <3>1. ASSUME NEW s \in Submissions,
                 Submits(s) \/ TakesEffect(s) \/ NodeGoesOn(s)
          PROVE  UNCHANGED ledgerVars
      <4>1. ~Include(s, "Ok")
        <5>1. ASSUME Include(s, "Ok") PROVE FALSE
          BY <1>1, <5>1 DEF Include, Becomes, txVars, watchVars, EffectInv,
             SubmissionInv, TxTypeOK, WatchTypeOK
        <5>2. QED
          BY <5>1
      <4>2. QED
        BY <3>1, <4>1 DEF Submits, TakesEffect, NodeGoesOn
    <3>2. QED
      BY <3>1 DEF OnLedgerNext, OthersGoOn, onLedgerVars
  <2>4. QED
    BY <2>2, <2>3 DEF SeenNext
<1>2. ASSUME NEW s \in Submissions,
             Submits(s) \/ TakesEffect(s) \/ NodeGoesOn(s)
      PROVE  [SeenNext]_<<seenVars, ledgerVars>>
  <2>1. \A q \in Submissions : q # s => Seen(q)' = Seen(q)
    BY <1>2, OthersOnLedgerKept, KeptSeen
  <2>2. CASE NodeGoesOn(s)
    <3>1. Seen(s)' = Seen(s)
      <4>1. /\ pc' = pc /\ result' = result /\ effective' = effective
            /\ pc[s] = "caught" => watch'[s] = watch[s]
        <5>1. pc[s] = "caught" => watch[s] # "open"
          BY DEF EffectInv, SubmissionInv, InStep
        <5>2. QED
          BY <2>2, <5>1 DEF NodeGoesOn, submissionVars, Include, Finalize,
             Discard, LoseWatch, Becomes
      <4>2. QED
        BY <4>1 DEF Seen, SeenAs, Settled
    <3>2. UNCHANGED <<seenVars, ledgerVars>>
      BY <2>1, <2>2, <3>1, NoneSeen DEF seenVars, NodeGoesOn, submissionVars
    <3>3. QED
      BY <3>2
  <2>3. QED
    BY <1>2, <2>1, <2>2, SubmitsSeen, EffectSeen
<1>3. QED
  BY <1>1, <1>2 DEF OnLedgerNext, OthersGoOn, onLedgerVars

\* Over a chain without forks the pages see of submitTransaction what
\* Extrinsics says, for any submissions, calls and other users of the chain.
THEOREM SubmissionSeen ==
  NoneIsNoExtrinsic => (OnLedgerSpec => SeenByPages)
<1>1. OnLedgerInit => E!ExtrinsicsInit
  BY DEF OnLedgerInit, TxGenesis, SubmissionInit, E!ExtrinsicsInit, Seen
<1>2. NoneIsNoExtrinsic /\ EffectInv /\ [OnLedgerNext]_onLedgerVars
        => [SeenNext]_<<seenVars, ledgerVars>>
  BY OnLedgerSeen
<1>3. NoneIsNoExtrinsic => []NoneIsNoExtrinsic
  OBVIOUS
<1>4. QED
  BY <1>1, <1>2, <1>3, EffectInvariance, PTL DEF OnLedgerSpec, SeenByPages
=============================================================================
