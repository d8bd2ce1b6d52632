------------------------ MODULE SubmissionRefinement ------------------------
(***************************************************************************)
(* The submissions of TxSubmission on a ledger, where the call of an       *)
(* extrinsic takes effect in its block: on a chain that retracts no block  *)
(* they implement Extrinsics, over which the pages run.                    *)
(***************************************************************************)
EXTENDS TxSubmission, Stores

CONSTANTS
  callOf,   \* submission => the call it is made for
  pageOf,   \* submission => the page that makes it
  Sudo      \* the account that the chain accepts sudo from

VARIABLE effective   \* submission => whether its call has taken effect

onLedgerVars == <<txVars, ledgerVars, effective>>
-----------------------------------------------------------------------------
\* A submission as its page sees it: nothing before the call and when the
\* promise has settled, unless the extrinsic may still get into a block.
SeenAs(s, phase) ==
  [call |-> callOf[s], phase |-> phase, page |-> pageOf[s], mounted |-> TRUE]

Seen(s) ==
  CASE pc[s] \in {"injector", "signing"} -> SeenAs(s, "signing")
    [] pc[s] = "watching" /\ ~Settled(s) ->
         SeenAs(s, IF effective[s] THEN "block" ELSE "pool")
    [] pc[s] = "caught" /\ watch[s] = "lost" /\ ~effective[s] ->
         SeenAs(s, "unwatched")
    [] OTHER -> None

E == INSTANCE Extrinsics
       WITH Slots <- Submissions,
            extrinsics <- [s \in Submissions |-> Seen(s)]
-----------------------------------------------------------------------------
\* Nothing is said of the stores: whatever happens to them.
OnLedgerInit ==
  /\ TxGenesis
  /\ LedgerTypeOK
  /\ effective = [s \in Submissions |-> FALSE]

Submits(s) ==
  SubmissionStep(s) /\ UNCHANGED <<ledgerVars, effective>>

\* The dispatch returns Ok in the block, and writes what the call writes.
TakesEffect(s) ==
  /\ Include(s, "Ok")
  /\ E!Accepted(callOf[s])
  /\ effective' = [effective EXCEPT ![s] = TRUE]
  /\ UNCHANGED submissionVars

\* The steps that write nothing, a failed dispatch among them: it is rolled
\* back.
NodeGoesOn(s) ==
  /\ Include(s, "Err") \/ Finalize(s) \/ Discard(s) \/ LoseWatch(s)
  /\ UNCHANGED <<submissionVars, ledgerVars, effective>>

OthersGoOn == LedgerNext /\ UNCHANGED <<txVars, effective>>

OnLedgerNext ==
  \/ \E s \in Submissions : Submits(s) \/ TakesEffect(s) \/ NodeGoesOn(s)
  \/ OthersGoOn

OnLedgerSpec == OnLedgerInit /\ [][OnLedgerNext]_onLedgerVars
-----------------------------------------------------------------------------
\* A step of one extrinsic as the pages see it, and when the promise settles.
SettlesWith(s, verdict) ==
  /\ ~Settled(s)
  /\ result' = [result EXCEPT ![s] = verdict]

SeenStep(s) ==
  \/ /\ \/ E!Send(s, callOf[s], pageOf[s]) /\ UNCHANGED ledgerVars
        \/ E!SignedAndSent(s) \/ E!Included(s) \/ E!UnwatchedEnds(s)
     /\ UNCHANGED result
  \/ /\ \/ E!Fails(s) /\ SettlesWith(s, "failure")
        \/ E!Finalized(s) /\ SettlesWith(s, "success")
     /\ UNCHANGED ledgerVars

seenVars == <<[s \in Submissions |-> Seen(s)], result>>

SeenNext ==
  \/ \E s \in Submissions : SeenStep(s)
  \/ LedgerNext /\ UNCHANGED seenVars

\* None is not an extrinsic.
NoneIsNoExtrinsic ==
  \A s \in Submissions, phase \in E!Phases : SeenAs(s, phase) # None

\* What submitTransaction does on a chain without forks is what Extrinsics
\* says: the call writes the ledger once or never, success is told of a call
\* that has done so and an error of one that has not, and after the error
\* only an extrinsic whose connection broke may still do so.
SeenByPages == E!ExtrinsicsInit /\ [][SeenNext]_<<seenVars, ledgerVars>>
=============================================================================
