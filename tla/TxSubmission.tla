---------------------------- MODULE TxSubmission ----------------------------
(***************************************************************************)
(* lib/blockchain/transactions.ts: submitTransaction, through which every  *)
(* page of the frontend that writes to the chain sends its extrinsic.  A   *)
(* submission asks the wallet for a signature, sends the extrinsic, passes *)
(* its progress to onStatusUpdate and settles a promise.                   *)
(***************************************************************************)
EXTENDS ExtrinsicWatch

VARIABLES
  pc,       \* submission => where submitTransaction waits
  shown,    \* submission => the status last passed to onStatusUpdate
  result    \* submission => the promise: pending, or TransactionResult.success

submissionVars == <<pc, shown, result>>
txVars == <<watchVars, submissionVars>>
-----------------------------------------------------------------------------
Settled(s) == result[s] # "pending"

SubmissionInit ==
  /\ pc = [s \in Submissions |-> "called"]
  /\ shown = [s \in Submissions |-> "idle"]
  /\ result = [s \in Submissions |-> "pending"]

\* The promise is created: the first status is passed on, and the browser
\* extension is asked for the account (await web3FromAddress).
Submit(s) ==
  /\ pc[s] = "called"
  /\ pc' = [pc EXCEPT ![s] = "injector"]
  /\ shown' = [shown EXCEPT ![s] = "signing"]
  /\ UNCHANGED <<result, watchVars>>

\* The extension answers; signAndSend asks for the signature.
FoundInjector(s) ==
  /\ pc[s] = "injector"
  /\ pc' = [pc EXCEPT ![s] = "signing"]
  /\ UNCHANGED <<shown, result, watchVars>>

\* The extrinsic is signed and accepted by the pool: signAndSend returns.
Sent(s) ==
  /\ pc[s] = "signing"
  /\ EnterPool(s, "open")
  /\ pc' = [pc EXCEPT ![s] = "watching"]
  /\ UNCHANGED <<shown, result>>

\* The catch clause.
Caught(s) ==
  /\ pc' = [pc EXCEPT ![s] = "caught"]
  /\ shown' = [shown EXCEPT ![s] = "error"]
  /\ result' = [result EXCEPT ![s] = "failure"]

\* No extension has the account, the user refuses to sign, or the pool refuses
\* the extrinsic: an await throws and nothing is in the pool.
NotSent(s) ==
  /\ pc[s] \in {"injector", "signing"}
  /\ Caught(s)
  /\ UNCHANGED watchVars

\* The connection breaks after the extrinsic was sent: signAndSend throws,
\* and the extrinsic is in the pool all the same.
SentUnanswered(s) ==
  /\ pc[s] = "signing"
  /\ EnterPool(s, "lost")
  /\ Caught(s)
-----------------------------------------------------------------------------
\* Faulty: a block is taken for success.
VerdictInBlock(report) ==
  IF report.outcome = "Err" THEN "failure"
  ELSE IF report.status \in InChain THEN "success"
  ELSE "pending"

\* Faulty: what is in a block and not final is a failure.
VerdictImpatient(report) ==
  IF report.status = "Finalized" /\ report.outcome = "Ok" THEN "success"
  ELSE IF report.status \in InChain THEN "failure"
  ELSE "pending"

\* Faulty: the branch of finality is missing.
VerdictWithoutFinality(report) ==
  IF report.outcome = "Err" THEN "failure" ELSE "pending"

\* How the callback of signAndSend settles the promise on a report.
Verdict(report) ==
  IF report.outcome = "Err" THEN "failure"
  ELSE IF report.status = "Finalized" THEN "success"
  ELSE "pending"

\* The status a page is shown for a status of the extrinsic.
ShownFor ==
  [Ready |-> "signing", InBlock |-> "inBlock", Finalized |-> "finalized"]

\* Faulty: the status of the extrinsic is passed on as it is.
StatusAfterRaw(report, status) == report.status

\* Faulty: a dispatch error is passed on before the block it is in.
StatusAfterErrorFirst(report, status) ==
  IF report.status \in DOMAIN ShownFor THEN ShownFor[report.status]
  ELSE IF report.outcome = "Err" THEN "error"
  ELSE status

\* The last status the callback passes to onStatusUpdate on a report.
StatusAfter(report, status) ==
  IF report.outcome = "Err" THEN "error"
  ELSE IF report.status \in DOMAIN ShownFor THEN ShownFor[report.status]
  ELSE status

\* Faulty: the subscription is left open.
UnsubscribeNever(s) ==
  /\ transit' = [transit EXCEPT ![s] = Tail(@)]
  /\ UNCHANGED watch

\* unsub?.(): reports that are still on their way are not delivered.
Unsubscribe(s) ==
  /\ watch' = [watch EXCEPT ![s] = "closed"]
  /\ transit' = [transit EXCEPT ![s] = <<>>]

Callback(s) ==
  /\ pc[s] = "watching" /\ watch[s] = "open" /\ transit[s] # <<>>
  /\ LET report == Head(transit[s])
     IN  /\ shown' = [shown EXCEPT ![s] = StatusAfter(report, @)]
         /\ result' = [result EXCEPT
              ![s] = IF Settled(s) THEN @ ELSE Verdict(report)]
         /\ IF Verdict(report) # "pending"
            THEN Unsubscribe(s)
            ELSE transit' = [transit EXCEPT ![s] = Tail(@)] /\ UNCHANGED watch
  /\ UNCHANGED <<pc, extrinsic, forks>>
-----------------------------------------------------------------------------
SubmissionStep(s) ==
  \/ Submit(s) \/ FoundInjector(s) \/ Sent(s)
  \/ NotSent(s) \/ SentUnanswered(s) \/ Callback(s)

TxGenesis == WatchInit /\ SubmissionInit

TxNext ==
  \E s \in Submissions :
    SubmissionStep(s) \/ (NodeStep(s) /\ UNCHANGED submissionVars)

TxSpec == TxGenesis /\ [][TxNext]_txVars

\* A report that has reached the browser is handed to the callback (the event
\* loop), and the node goes on to include and finalize what is in its pool.
TxFairness ==
  \A s \in Submissions :
    /\ WF_txVars(Callback(s))
    /\ WF_txVars(NodeProgress(s) /\ UNCHANGED submissionVars)

FairTxSpec == TxSpec /\ TxFairness
-----------------------------------------------------------------------------
TxTypeOK ==
  /\ WatchTypeOK
  /\ pc \in [Submissions ->
               {"called", "injector", "signing", "watching", "caught"}]
  /\ shown \in [Submissions ->
                  {"idle", "signing", "inBlock", "finalized", "error"}]
  /\ result \in [Submissions -> {"pending", "success", "failure"}]

\* A page is told of success only when the extrinsic is final and its call
\* returned Ok: success is never taken back by a fork.
SuccessIsFinal ==
  \A s \in Submissions :
    result[s] = "success" =>
      extrinsic[s] = [status |-> "Finalized", outcome |-> "Ok"]

\* What the page shows when the promise settles agrees with the promise, and
\* it shows the end of the submission only then.
ShownAgrees ==
  \A s \in Submissions :
    /\ result[s] = "success" <=> shown[s] = "finalized"
    /\ result[s] = "failure" <=> shown[s] = "error"

\* An extrinsic that takes effect although the page was told that it failed
\* was in a block that was retracted, or its connection broke.
FailureExplained ==
  \A s \in Submissions :
    result[s] = "failure"
      /\ extrinsic[s] = [status |-> "Finalized", outcome |-> "Ok"] =>
        forks[s] > 0 \/ watch[s] = "lost"

\* Once the promise has settled no later report of the node changes it or
\* what the page shows.
VerdictKept ==
  [][\A s \in Submissions :
       Settled(s) => result'[s] = result[s] /\ shown'[s] = shown[s]]_txVars

\* A finalized extrinsic that is still watched settles its promise.
FinalizedSettles ==
  \A s \in Submissions :
    extrinsic[s].status = "Finalized" /\ watch[s] = "open"
      ~> Settled(s) \/ watch[s] = "lost"

\* The documentation of submitTransaction, "Submit a transaction with proper
\* error handling and status updates": while the connection holds, a
\* submission ends in success or in an error.
WatchedSettles ==
  \A s \in Submissions : watch[s] = "open" ~> Settled(s) \/ watch[s] = "lost"
=============================================================================
