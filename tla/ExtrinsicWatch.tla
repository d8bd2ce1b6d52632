--------------------------- MODULE ExtrinsicWatch ---------------------------
(***************************************************************************)
(* What transactions.ts uses of the node and of @polkadot/api (neither is  *)
(* part of this repository): an extrinsic is accepted by the pool of the   *)
(* node, included in blocks that may be retracted, and finalized, or it    *)
(* leaves the pool; every change is reported, in order, to the subscriber  *)
(* as long as the subscription is open.  The report of a block carries the *)
(* outcome of the dispatch in that block.                                  *)
(*                                                                         *)
(* "Gone" stands for the statuses Invalid, Dropped, Usurped and            *)
(* FinalityTimeout, which transactions.ts does not tell apart.             *)
(***************************************************************************)
EXTENDS Integers, Sequences

CONSTANTS
  Submissions,  \* the calls of submitTransaction
  MaxForks      \* bound of the model: how often a block is retracted

ASSUME MaxForksAssumption == MaxForks \in Nat

VARIABLES
  extrinsic,  \* submission => status and outcome of its extrinsic
  forks,      \* submission => how often its block was retracted
  watch,      \* submission => state of its subscription
  transit     \* submission => reports on their way to the subscriber

watchVars == <<extrinsic, forks, watch, transit>>

ExtrinsicStatus ==
  {"Unsent", "Ready", "InBlock", "Retracted", "Finalized", "Gone"}
InChain == {"InBlock", "Finalized"}
Outcome == {"None", "Ok", "Err"}
Extrinsic == [status : ExtrinsicStatus, outcome : Outcome]
ReportQueue == Seq(Extrinsic)

WatchTypeOK ==
  /\ extrinsic \in [Submissions -> Extrinsic]
  /\ forks \in [Submissions -> 0..MaxForks]
  /\ watch \in [Submissions -> {"none", "open", "closed", "lost"}]
  /\ transit \in [Submissions -> ReportQueue]

WatchInit ==
  /\ extrinsic =
       [s \in Submissions |-> [status |-> "Unsent", outcome |-> "None"]]
  /\ forks = [s \in Submissions |-> 0]
  /\ watch = [s \in Submissions |-> "none"]
  /\ transit = [s \in Submissions |-> <<>>]

\* The extrinsic of s changes, and its subscriber is told.
Becomes(s, status, outcome) ==
  LET now == [status |-> status, outcome |-> outcome]
  IN  /\ extrinsic' = [extrinsic EXCEPT ![s] = now]
      /\ transit' = IF watch[s] = "open"
                    THEN [transit EXCEPT ![s] = Append(@, now)]
                    ELSE transit
      /\ UNCHANGED watch

\* The pool accepts the extrinsic; the subscription is open, or the
\* connection breaks before the subscriber learns of it.
EnterPool(s, subscription) ==
  LET ready == [status |-> "Ready", outcome |-> "None"]
  IN  /\ extrinsic[s].status = "Unsent"
      /\ extrinsic' = [extrinsic EXCEPT ![s] = ready]
      /\ watch' = [watch EXCEPT ![s] = subscription]
      /\ transit' = [transit EXCEPT
           ![s] = IF subscription = "open" THEN <<ready>> ELSE <<>>]
      /\ UNCHANGED forks

Include(s, outcome) ==
  /\ extrinsic[s].status \in {"Ready", "Retracted"}
  /\ Becomes(s, "InBlock", outcome)
  /\ UNCHANGED forks

Retract(s) ==
  /\ extrinsic[s].status = "InBlock"
  /\ forks[s] < MaxForks
  /\ forks' = [forks EXCEPT ![s] = @ + 1]
  /\ Becomes(s, "Retracted", "None")

Finalize(s) ==
  /\ extrinsic[s].status = "InBlock"
  /\ Becomes(s, "Finalized", extrinsic[s].outcome)
  /\ UNCHANGED forks

Discard(s) ==
  /\ extrinsic[s].status \in {"Ready", "InBlock", "Retracted"}
  /\ Becomes(s, "Gone", "None")
  /\ UNCHANGED forks

\* The connection breaks; a subscription to an extrinsic is not renewed.
LoseWatch(s) ==
  /\ watch[s] = "open"
  /\ watch' = [watch EXCEPT ![s] = "lost"]
  /\ transit' = [transit EXCEPT ![s] = <<>>]
  /\ UNCHANGED <<extrinsic, forks>>

NodeProgress(s) ==
  (\E outcome \in {"Ok", "Err"} : Include(s, outcome)) \/ Finalize(s)

NodeStep(s) == NodeProgress(s) \/ Retract(s) \/ Discard(s) \/ LoseWatch(s)
=============================================================================
