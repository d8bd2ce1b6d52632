----------------------------- MODULE Site_proofs ----------------------------
(***************************************************************************)
(* What the pages of the site show and send is right on every path through *)
(* the site, for any number of extrinsics and fetches under way, any       *)
(* session and any chain.                                                  *)
(*                                                                         *)
(* First what can happen to an extrinsic; then which steps of the site     *)
(* concern a page, and an invariant for each page; they meet in SiteInv.   *)
(***************************************************************************)
EXTENDS Site, Ledger_proofs, FiniteSetTheorems

\* The pages that send; the dashboard takes over what its dialog has sent.
Senders == {"create-did", "dialog", "register", "issue", "issued", "admin"}
Owners == Senders \cup {"dashboard"}

\* Each form and each list sends calls of its own.
SentFrom(call, page) ==
  \/ /\ page \in {"create-did", "dialog", "dashboard"}
     /\ call.name = "createDid" /\ call.key \in Keys
  \/ page = "register" /\ call.name = "registerInstitution"
  \/ page = "issue" /\ call.name = "issueCredential"
  \/ page = "issued" /\ call.name = "revokeCredential"
  \/ /\ page = "admin"
     /\ call.name \in {"verifyInstitution", "revokeInstitution"}

\* Only the form of a credential prepares its call.
ExtrinsicFields ==
  [call : Call, phase : Phases, page : Owners, mounted : BOOLEAN]

ExtrinsicType ==
  {e \in ExtrinsicFields :
     SentFrom(e.call, e.page) /\ (e.phase = "preparing" => e.page = "issue")}

ExtrinsicsTyped == extrinsics \in [Slots -> ExtrinsicType \cup {None}]

ExtrinsicsInv == ExtrinsicsTyped /\ TakesEffectOnce

\* What becomes of an extrinsic in a step: it is over, or goes on for a page
\* that is left or not, or for the dashboard when its dialog is closed.  Its
\* call is settled once it is prepared; it gets into a block by being accepted.
SlotGoesOn(slot) ==
  \/ extrinsics'[slot] = None
  \/ /\ ~Free(slot)
     /\ extrinsics'[slot] \in ExtrinsicType
     /\ \/ extrinsics[slot].phase = "preparing"
        \/ extrinsics'[slot].call = extrinsics[slot].call
     /\ \/ extrinsics'[slot].page = extrinsics[slot].page
        \/ /\ extrinsics[slot].page = "dialog"
           /\ extrinsics'[slot].page = "dashboard"
     /\ extrinsics'[slot].mounted => extrinsics[slot].mounted
     /\ extrinsics[slot].phase = "unwatched" =>
          extrinsics'[slot].phase = "unwatched"
     /\ extrinsics'[slot].phase = "block" =>
          /\ extrinsics[slot].phase # "preparing"
          /\ extrinsics[slot].phase = "block" \/ Accepted(extrinsics[slot].call)

EntersBlock(slot) == ~InPhase(slot, "block") /\ InPhase(slot, "block")'

\* One step gets one of them into a block at most.
ExtrinsicsGoOn ==
  /\ extrinsics' = [slot \in Slots |-> extrinsics'[slot]]
  /\ \A slot \in Slots : SlotGoesOn(slot)
  /\ \A a, b \in Slots : EntersBlock(a) /\ EntersBlock(b) => a = b

\* Somebody who waits goes on waiting at most; nobody waits any more.
Kept(page) == \A slot \in Slots : Awaits(page, slot)' => Awaits(page, slot)
Deserted(page) == \A slot \in Slots : ~Awaits(page, slot)'

\* Where the form of a page is: the dialog is on the dashboard.
Host(page) == IF page = "dialog" THEN "dashboard" ELSE page

\* A page that is there and has sent this extrinsic.
Mounted(slot) == ~Free(slot) /\ extrinsics[slot].mounted

\* An extrinsic under way has the fields that its type gives it.
LEMMA ExtrinsicHasType ==
  ASSUME ExtrinsicsTyped, NEW slot \in Slots, ~Free(slot)
  PROVE  /\ extrinsics[slot] \in ExtrinsicType
         /\ extrinsics[slot] \in ExtrinsicFields
         /\ extrinsics[slot].call \in Call
         /\ SentFrom(extrinsics[slot].call, extrinsics[slot].page)
         /\ extrinsics[slot].phase = "preparing" =>
              extrinsics[slot].page = "issue"
BY DEF ExtrinsicsTyped, ExtrinsicType, ExtrinsicFields, Free

\* It is as good in another phase.
LEMMA PhaseChanged ==
  ASSUME NEW e \in ExtrinsicType, NEW next \in Phases \ {"preparing"},
         NEW moved, moved = [e EXCEPT !.phase = next]
  PROVE  /\ moved \in ExtrinsicType
         /\ moved.call = e.call /\ moved.page = e.page
         /\ moved.phase = next
         /\ moved.mounted <=> e.mounted
<1>1. /\ e \in ExtrinsicFields /\ SentFrom(e.call, e.page)
      /\ e.phase = "preparing" => e.page = "issue"
  BY DEF ExtrinsicType
<1>2. /\ moved \in ExtrinsicFields
      /\ moved.call = e.call /\ moved.page = e.page
      /\ moved.phase = next /\ moved.mounted = e.mounted
  BY <1>1 DEF ExtrinsicFields
<1>3. QED
  BY <1>1, <1>2 DEF ExtrinsicType

\* It is as good when its page is left.
LEMMA PageGone ==
  ASSUME NEW e \in ExtrinsicType,
         NEW left, left = [e EXCEPT !.mounted = FALSE]
  PROVE  /\ left \in ExtrinsicType
         /\ left.call = e.call /\ left.page = e.page
         /\ left.phase = e.phase
         /\ ~left.mounted
<1>1. /\ e \in ExtrinsicFields /\ SentFrom(e.call, e.page)
      /\ e.phase = "preparing" => e.page = "issue"
  BY DEF ExtrinsicType
<1>2. /\ left \in ExtrinsicFields
      /\ left.call = e.call /\ left.page = e.page
      /\ left.phase = e.phase /\ left.mounted = FALSE
  BY <1>1 DEF ExtrinsicFields
<1>3. QED
  BY <1>1, <1>2 DEF ExtrinsicType

\* It is as good on behalf of the dashboard.
LEMMA DialogTakenOver ==
  ASSUME NEW e \in ExtrinsicType, e.page = "dialog",
         NEW taken, taken = [e EXCEPT !.page = "dashboard"]
  PROVE  /\ taken \in ExtrinsicType
         /\ taken.call = e.call /\ taken.page = "dashboard"
         /\ taken.phase = e.phase
         /\ taken.mounted <=> e.mounted
<1>1. /\ e \in ExtrinsicFields /\ SentFrom(e.call, e.page)
      /\ e.phase # "preparing"
  BY DEF ExtrinsicType
<1>2. /\ taken \in ExtrinsicFields
      /\ taken.call = e.call /\ taken.page = "dashboard"
      /\ taken.phase = e.phase /\ taken.mounted = e.mounted
  BY <1>1 DEF ExtrinsicFields, Owners
<1>3. SentFrom(taken.call, taken.page)
  BY <1>1, <1>2 DEF SentFrom
<1>4. QED
  BY <1>1, <1>2, <1>3 DEF ExtrinsicType

\* An extrinsic goes on for good when each one does, and only one gets into a
\* block.
LEMMA AllGoOn ==
  ASSUME extrinsics' = [slot \in Slots |-> extrinsics'[slot]],
         \A slot \in Slots : SlotGoesOn(slot),
         NEW moved, \A slot \in Slots : EntersBlock(slot) => slot = moved
  PROVE  ExtrinsicsGoOn
BY DEF ExtrinsicsGoOn

\* Nothing happens to the extrinsics.
LEMMA ExtrinsicsRest ==
  ASSUME ExtrinsicsTyped, UNCHANGED extrinsics
  PROVE  ExtrinsicsGoOn
<1>1. extrinsics' = [slot \in Slots |-> extrinsics'[slot]]
  BY DEF ExtrinsicsTyped
<1>2. ASSUME NEW slot \in Slots
      PROVE  SlotGoesOn(slot) /\ ~EntersBlock(slot)
  BY ExtrinsicHasType DEF SlotGoesOn, EntersBlock, InPhase, Free
<1>3. QED
  BY <1>1, <1>2, AllGoOn

\* The promise of one settles, or nobody hears of it any more.
LEMMA ExtrinsicEnds ==
  ASSUME ExtrinsicsTyped, NEW slot \in Slots, Withdraw(slot)
  PROVE  ExtrinsicsGoOn
<1>1. extrinsics' = [s \in Slots |-> extrinsics'[s]]
  BY DEF ExtrinsicsTyped, Withdraw
<1>2. ASSUME NEW s \in Slots
      PROVE  SlotGoesOn(s) /\ ~EntersBlock(s)
  <2>1. extrinsics'[s] = IF s = slot THEN None ELSE extrinsics[s]
    BY DEF ExtrinsicsTyped, Withdraw
  <2>2. QED
    BY <2>1, ExtrinsicHasType DEF SlotGoesOn, EntersBlock, InPhase, Free
<1>3. QED
  BY <1>1, <1>2, AllGoOn

\* An extrinsic moves to another phase; into a block only if accepted, and
\* never again to where its page is told of it.
LEMMA ExtrinsicMoves ==
  ASSUME ExtrinsicsTyped, NEW slot \in Slots, ~Free(slot),
         NEW next \in Phases \ {"preparing"},
         extrinsics' = [extrinsics EXCEPT ![slot].phase = next],
         extrinsics[slot].phase \notin {"unwatched", "preparing"},
         next = "block" => Accepted(extrinsics[slot].call)
  PROVE  ExtrinsicsGoOn
<1>1. extrinsics' = [s \in Slots |-> extrinsics'[s]]
  BY DEF ExtrinsicsTyped
<1>2. \A s \in Slots :
        extrinsics'[s] = IF s = slot
                         THEN [extrinsics[slot] EXCEPT !.phase = next]
                         ELSE extrinsics[s]
  BY DEF ExtrinsicsTyped
<1>3. SlotGoesOn(slot)
  <2>1. extrinsics[slot] \in ExtrinsicType
    BY ExtrinsicHasType
  <2>2. extrinsics'[slot] = [extrinsics[slot] EXCEPT !.phase = next]
    BY <1>2
  <2>3. /\ extrinsics'[slot] \in ExtrinsicType
        /\ extrinsics'[slot].call = extrinsics[slot].call
        /\ extrinsics'[slot].page = extrinsics[slot].page
        /\ extrinsics'[slot].phase = next
        /\ extrinsics'[slot].mounted <=> extrinsics[slot].mounted
    BY <2>1, <2>2, PhaseChanged
  <2>4. QED
    BY <2>3 DEF SlotGoesOn
<1>4. ASSUME NEW s \in Slots \ {slot}
      PROVE  SlotGoesOn(s) /\ ~EntersBlock(s)
  <2>1. extrinsics'[s] = extrinsics[s]
    BY <1>2
  <2>2. QED
    BY <2>1, ExtrinsicHasType DEF SlotGoesOn, EntersBlock, InPhase, Free
<1>5. \A s \in Slots : SlotGoesOn(s) /\ (EntersBlock(s) => s = slot)
  BY <1>3, <1>4
<1>6. QED
  BY <1>1, <1>5, AllGoOn

\* The call of a credential with its expiration.
LEMMA CallPrepared ==
  ASSUME NEW call \in Call, call.name = "issueCredential",
         NEW expires \in Nat,
         NEW prepared, prepared = [call EXCEPT !.expires = expires]
  PROVE  prepared \in Call /\ prepared.name = "issueCredential"
BY DEF Call

\* So many blocks before or after this one, unless that is before the first.
LEMMA BlockAhead ==
  ASSUME NEW now \in Nat, NEW days \in Int, NEW length \in Nat,
         now + days * length >= 0
  PROVE  now + days * length \in Nat
<1>1. days * length \in Int
  OBVIOUS
<1>2. QED
  BY <1>1

\* A call that was prepared is sent, with its page there or gone.
LEMMA PreparedGoesOn ==
  ASSUME ExtrinsicsTyped, block \in Nat, NEW slot \in Slots,
         NEW days \in Days, IssuePrepared(slot, days)
  PROVE  ExtrinsicsGoOn
<1> DEFINE expires == block + days * BlocksPerDay
           prepared == [extrinsics[slot].call EXCEPT !.expires = expires]
           signing == [extrinsics[slot] EXCEPT !.phase = "signing",
                                               !.call = prepared]
<1>1. /\ ~Free(slot) /\ extrinsics[slot].phase = "preparing"
      /\ expires >= 0
  BY DEF IssuePrepared, InPhase
<1>2. expires \in Nat
  BY <1>1, BlockAhead, DaysAssumption
<1> HIDE DEF expires
<1>3. /\ extrinsics' = [s \in Slots |-> extrinsics'[s]]
      /\ \A s \in Slots :
           extrinsics'[s] = IF s = slot THEN signing ELSE extrinsics[s]
  BY <1>1, ExtrinsicHasType
     DEF IssuePrepared, ExtrinsicsTyped, ExtrinsicFields, expires
<1>4. /\ extrinsics[slot] \in ExtrinsicFields
      /\ extrinsics[slot].call \in Call
      /\ extrinsics[slot].page = "issue"
      /\ SentFrom(extrinsics[slot].call, "issue")
  BY <1>1, ExtrinsicHasType
<1>5. prepared \in Call /\ prepared.name = "issueCredential"
  BY <1>2, <1>4, CallPrepared DEF SentFrom
<1> HIDE DEF prepared
<1>6. /\ signing \in ExtrinsicFields
      /\ signing.call = prepared /\ signing.page = "issue"
      /\ signing.phase = "signing"
      /\ signing.mounted = extrinsics[slot].mounted
  BY <1>4, <1>5 DEF ExtrinsicFields, Phases
<1> HIDE DEF signing
<1>7. signing \in ExtrinsicType
  BY <1>5, <1>6 DEF ExtrinsicType, SentFrom
<1>8. SlotGoesOn(slot)
  BY <1>1, <1>3, <1>4, <1>6, <1>7 DEF SlotGoesOn
<1>9. ASSUME NEW s \in Slots
      PROVE  SlotGoesOn(s) /\ ~EntersBlock(s)
  BY <1>3, <1>6, <1>8, ExtrinsicHasType
     DEF SlotGoesOn, EntersBlock, InPhase, Free
<1>10. QED
  BY <1>3, <1>9, AllGoOn

\* The page of one is left.
LEMMA LeftGoesOn ==
  ASSUME ExtrinsicsTyped, NEW slot \in Slots, ~Free(slot),
         extrinsics'[slot] = [extrinsics[slot] EXCEPT !.mounted = FALSE]
  PROVE  SlotGoesOn(slot) /\ ~EntersBlock(slot)
<1>1. extrinsics[slot] \in ExtrinsicType
  BY ExtrinsicHasType
<1>2. /\ extrinsics'[slot] \in ExtrinsicType
      /\ extrinsics'[slot].call = extrinsics[slot].call
      /\ extrinsics'[slot].page = extrinsics[slot].page
      /\ extrinsics'[slot].phase = extrinsics[slot].phase
      /\ ~extrinsics'[slot].mounted
  BY <1>1, PageGone
<1>3. QED
  BY <1>2 DEF SlotGoesOn, EntersBlock, InPhase, Free

\* Their page is left.
LEMMA ExtrinsicsAbandoned ==
  ASSUME ExtrinsicsTyped, extrinsics' = Abandoned
  PROVE  ExtrinsicsGoOn
<1>1. extrinsics' = [s \in Slots |-> extrinsics'[s]]
  BY DEF Abandoned
<1>2. ASSUME NEW s \in Slots
      PROVE  SlotGoesOn(s) /\ ~EntersBlock(s)
  <2>1. extrinsics'[s] = IF Free(s) THEN None
                         ELSE [extrinsics[s] EXCEPT !.mounted = FALSE]
    BY DEF Abandoned
  <2>2. CASE Free(s)
    BY <2>1, <2>2 DEF SlotGoesOn, EntersBlock, InPhase, Free
  <2>3. CASE ~Free(s)
    BY <2>1, <2>3, LeftGoesOn
  <2>4. QED
    BY <2>2, <2>3
<1>3. QED
  BY <1>1, <1>2, AllGoOn

\* Their page is left while one of them settles.
LEMMA ExtrinsicsSettledBehind ==
  ASSUME ExtrinsicsTyped, NEW slot \in Slots,
         extrinsics' = [Abandoned EXCEPT ![slot] = None]
  PROVE  ExtrinsicsGoOn
<1>1. extrinsics' = [s \in Slots |-> extrinsics'[s]]
  BY DEF Abandoned
<1>2. ASSUME NEW s \in Slots
      PROVE  SlotGoesOn(s) /\ ~EntersBlock(s)
  <2>1. extrinsics'[s] = IF s = slot \/ Free(s) THEN None
                         ELSE [extrinsics[s] EXCEPT !.mounted = FALSE]
    BY DEF Abandoned
  <2>2. CASE s = slot \/ Free(s)
    BY <2>1, <2>2 DEF SlotGoesOn, EntersBlock, InPhase, Free
  <2>3. CASE s # slot /\ ~Free(s)
    BY <2>1, <2>3, LeftGoesOn
  <2>4. QED
    BY <2>2, <2>3
<1>3. QED
  BY <1>1, <1>2, AllGoOn

\* A dialog that is closed leaves what it has sent to the dashboard.
LEMMA DialogGoesOn ==
  ASSUME ExtrinsicsTyped,
         \/ extrinsics' = DialogGone
         \/ \E slot \in Slots :
              extrinsics' = [DialogGone EXCEPT ![slot] = None]
  PROVE  /\ ExtrinsicsGoOn
         /\ Deserted("dialog")
<1>1. extrinsics' = [s \in Slots |-> extrinsics'[s]]
  BY DEF DialogGone
<1>2. ASSUME NEW s \in Slots
      PROVE  SlotGoesOn(s) /\ ~EntersBlock(s) /\ ~Awaits("dialog", s)'
  <2>1. \/ extrinsics'[s] = None
        \/ /\ Awaits("dialog", s)
           /\ extrinsics'[s] = [extrinsics[s] EXCEPT !.page = "dashboard"]
        \/ ~Awaits("dialog", s) /\ extrinsics'[s] = extrinsics[s]
    BY DEF DialogGone
  <2>2. CASE extrinsics'[s] = None
    BY <2>2 DEF SlotGoesOn, EntersBlock, InPhase, Free, Awaits, Pending
  <2>3. CASE /\ Awaits("dialog", s)
             /\ extrinsics'[s] = [extrinsics[s] EXCEPT !.page = "dashboard"]
    <3>1. ~Free(s) /\ extrinsics[s].page = "dialog"
      BY <2>3 DEF Awaits, Pending
    <3>2. extrinsics[s] \in ExtrinsicType
      BY <3>1, ExtrinsicHasType
    <3>3. /\ extrinsics'[s] \in ExtrinsicType
          /\ extrinsics'[s].call = extrinsics[s].call
          /\ extrinsics'[s].page = "dashboard"
          /\ extrinsics'[s].phase = extrinsics[s].phase
          /\ extrinsics'[s].mounted <=> extrinsics[s].mounted
      BY <2>3, <3>1, <3>2, DialogTakenOver
    <3>4. QED
      BY <3>1, <3>3 DEF SlotGoesOn, EntersBlock, InPhase, Awaits, Pending, Free
  <2>4. CASE ~Awaits("dialog", s) /\ extrinsics'[s] = extrinsics[s]
    BY <2>4, ExtrinsicHasType
       DEF SlotGoesOn, EntersBlock, InPhase, Free, Awaits, Pending
  <2>5. QED
    BY <2>1, <2>2, <2>3, <2>4
<1>3. QED
  BY <1>1, <1>2, AllGoOn DEF Deserted

\* A submission that fails may still be in the pool, where nobody follows it.
LEMMA FailureGoesOn ==
  ASSUME ExtrinsicsTyped, NEW slot \in Slots,
         Fails(slot) \/ PreparationFails(slot)
  PROVE  ExtrinsicsGoOn
<1>1. CASE Withdraw(slot)
  BY <1>1, ExtrinsicEnds
<1>2. CASE /\ InPhase(slot, "signing")
           /\ extrinsics' = [extrinsics EXCEPT ![slot].phase = "unwatched"]
  <2>1. /\ ~Free(slot)
        /\ extrinsics[slot].phase \notin {"unwatched", "preparing"}
        /\ "unwatched" \in Phases \ {"preparing"} /\ "unwatched" # "block"
    BY <1>2 DEF InPhase, Phases
  <2>2. QED
    BY <1>2, <2>1, ExtrinsicMoves
<1>3. QED
  BY <1>1, <1>2 DEF Fails, PreparationFails

LEMMA InclusionGoesOn ==
  ASSUME ExtrinsicsTyped, NEW slot \in Slots,
         Included(slot) \/ SignedAndSent(slot)
  PROVE  ExtrinsicsGoOn
BY ExtrinsicMoves DEF Included, SignedAndSent, InPhase, Phases

\* Whoever waits afterwards has waited before.
LEMMA GoingOnKeeps ==
  ASSUME ExtrinsicsTyped, ExtrinsicsGoOn
  PROVE  /\ ExtrinsicsTyped'
         /\ \A slot \in Slots : Mounted(slot)' =>
              /\ Mounted(slot)
              /\ Host(extrinsics'[slot].page) = Host(extrinsics[slot].page)
         /\ \A page \in Senders : Kept(page)
<1>1. extrinsics' \in [Slots -> ExtrinsicType \cup {None}]
  BY DEF ExtrinsicsGoOn, SlotGoesOn
<1>2. \A slot \in Slots : Mounted(slot)' =>
        /\ Mounted(slot)
        /\ Host(extrinsics'[slot].page) = Host(extrinsics[slot].page)
  BY DEF ExtrinsicsGoOn, SlotGoesOn, Mounted, Free, Host
<1>3. ASSUME NEW page \in Senders, NEW slot \in Slots, Awaits(page, slot)'
      PROVE  Awaits(page, slot)
  BY <1>3 DEF ExtrinsicsGoOn, SlotGoesOn, Awaits, Pending, Free, Senders
<1>4. QED
  BY <1>1, <1>2, <1>3 DEF ExtrinsicsTyped, Kept

\* When the page is left, nobody waits.
LEMMA LeavingDeserts ==
  ASSUME ExtrinsicsTyped,
         \/ extrinsics' = Abandoned
         \/ \E slot \in Slots : extrinsics' = [Abandoned EXCEPT ![slot] = None]
  PROVE  /\ \A slot \in Slots : ~Mounted(slot)'
         /\ \A page \in Senders : Deserted(page)
<1>1. ASSUME NEW slot \in Slots
      PROVE  ~Mounted(slot)'
  <2>1. \/ extrinsics'[slot] = None
        \/ /\ ~Free(slot)
           /\ extrinsics'[slot] = [extrinsics[slot] EXCEPT !.mounted = FALSE]
    BY DEF Abandoned
  <2>2. QED
    BY <2>1, ExtrinsicHasType, PageGone DEF Mounted, Free
<1>2. QED
  BY <1>1 DEF Mounted, Deserted, Awaits, Pending

\* A page sends a call of its own, or prepares it first.
Sends(page, slot) ==
  \E call \in Call :
    /\ SentFrom(call, page)
    /\ \/ Send(slot, call, page)
       \/ page = "issue" /\ Prepare(slot, call, page)

LEMMA SendingAdds ==
  ASSUME ExtrinsicsTyped, NEW page \in Senders, NEW slot \in Slots,
         Sends(page, slot)
  PROVE  /\ ExtrinsicsTyped'
         /\ \A p \in Senders : ~Awaits(p, slot)
         /\ \A s \in Slots \ {slot} : extrinsics'[s] = extrinsics[s]
         /\ ~InPhase(slot, "block")'
         /\ \A s \in Slots : Mounted(s)' =>
              IF s = slot THEN extrinsics'[s].page = page
              ELSE Mounted(s) /\ extrinsics'[s].page = extrinsics[s].page
         /\ \A p \in Senders \ {page} : Kept(p)
         /\ \A s \in Slots : Awaits(page, s)' => s = slot \/ Awaits(page, s)
<1>1. PICK call \in Call, phase \in {"preparing", "signing"} :
        /\ SentFrom(call, page)
        /\ phase = "preparing" => page = "issue"
        /\ Free(slot)
        /\ extrinsics' =
             [extrinsics EXCEPT ![slot] = Extrinsic(call, phase, page)]
  BY DEF Sends, Send, Prepare
<1> DEFINE new == Extrinsic(call, phase, page)
<1>2. /\ new \in ExtrinsicType
      /\ new.phase \in {"preparing", "signing"} /\ new.page = page
  BY <1>1 DEF Extrinsic, ExtrinsicType, ExtrinsicFields, Owners, Phases
<1>3. extrinsics' = [extrinsics EXCEPT ![slot] = new] /\ Free(slot)
  BY <1>1
<1> HIDE DEF new
<1>4. /\ extrinsics' \in [Slots -> ExtrinsicType \cup {None}]
      /\ \A s \in Slots :
           extrinsics'[s] = IF s = slot THEN new ELSE extrinsics[s]
  BY <1>2, <1>3 DEF ExtrinsicsTyped
<1>5. QED
  BY <1>2, <1>3, <1>4
     DEF ExtrinsicsTyped, Awaits, Pending, Free, Mounted, Kept, InPhase
-----------------------------------------------------------------------------
\* The fields of a call.
LEMMA CallFields ==
  ASSUME NEW call \in Call
  PROVE  /\ call.by \in Accounts
         /\ call.name \in {"createDid", "registerInstitution",
              "issueCredential", "revokeCredential", "verifyInstitution",
              "revokeInstitution"}
         /\ call.name \in {"createDid", "registerInstitution"} =>
              call.key \in Keys \cup {None}
         /\ call.name = "issueCredential" =>
              call.hash \in Hashes /\ call.expires \in Nat \cup {None}
         /\ call.name = "revokeCredential" => call.hash \in Hashes
         /\ call.name \in {"verifyInstitution", "revokeInstitution"} =>
              call.who \in Accounts
BY DEF Call

\* A call that the chain accepts has its effect.
LEMMA AcceptedStep ==
  ASSUME LedgerTypeOK, NEW call \in Call, Accepted(call)
  PROVE  LedgerTypeOK' /\ LedgerGrows /\ EffectStands(call)'
<1> USE DEF EffectStands
<1>1. call.by \in Accounts
  BY CallFields
<1>2. CASE call.name = "createDid" /\ CreateDid(call.by)
  <2>1. did'[call.by] # "none"
    BY <1>1, <1>2 DEF CreateDid, LedgerTypeOK
  <2>2. QED
    BY <1>1, <1>2, <2>1, AccountStep
<1>3. CASE call.name = "registerInstitution" /\ RegisterInstitution(call.by)
  <2>1. institution'[call.by] # "none"
    BY <1>1, <1>3 DEF RegisterInstitution, LedgerTypeOK
  <2>2. QED
    BY <1>1, <1>3, <2>1, AccountStep
<1>4. CASE /\ call.name = "issueCredential" /\ call.holder \in Accounts
           /\ IssueCredential(call.by, call.holder, call.hash, call.expires)
  <2>1. call.hash \in Hashes /\ call.expires \in Nat \cup {None}
    BY <1>4, CallFields
  <2>2. /\ LedgerTypeOK' /\ LedgerGrows
        /\ certificate'[call.hash] # None
    BY <1>1, <1>4, <2>1, IssuanceStep
  <2>3. certificate'[call.hash] =
          [issuer |-> call.by, holder |-> call.holder,
           expires |-> call.expires, revoked |-> FALSE]
    BY <1>4, <2>1 DEF IssueCredential, LedgerTypeOK
  <2>4. QED
    BY <1>4, <2>2, <2>3 DEF Certified
<1>5. CASE /\ call.name = "revokeCredential"
           /\ RevokeCredential(call.by, call.hash)
  <2>1. call.hash \in Hashes
    BY <1>5, CallFields
  <2>2. LedgerTypeOK' /\ LedgerGrows
    BY <1>1, <1>5, <2>1, RevocationStep
  <2>3. certificate[call.hash] \in Certificate
    BY <1>5, <2>1 DEF RevokeCredential, Certified, LedgerTypeOK
  <2>4. certificate'[call.hash] =
          [certificate[call.hash] EXCEPT !.revoked = TRUE]
    BY <1>5, <2>1 DEF RevokeCredential, LedgerTypeOK
  <2>5. /\ certificate'[call.hash].revoked
        /\ certificate'[call.hash].issuer = call.by
    BY <1>5, <2>3, <2>4 DEF Certificate, RevokeCredential
  <2>6. Certified(call.hash)'
    BY <1>5, <2>1, <2>2 DEF LedgerGrows, RevokeCredential, Certified
  <2>7. QED
    BY <1>5, <2>2, <2>5, <2>6
<1>6. CASE /\ call.name = "verifyInstitution" /\ call.by = Sudo
           /\ SetInstitution(call.who, "verified")
  <2>1. call.who \in Accounts
    BY <1>6, CallFields
  <2>2. QED
    BY <1>6, <2>1, AccountStep
<1>7. QED
  BY <1>2, <1>3, <1>4, <1>5, <1>6 DEF Accepted

LEMMA EffectStays ==
  ASSUME LedgerGrows, NEW call \in Call, EffectStands(call)
  PROVE  EffectStands(call)'
BY CallFields DEF EffectStands, LedgerGrows, Certified

\* The chain does not accept a call whose target has been reached.
LEMMA TargetTaken ==
  ASSUME NEW call \in Call, NEW other \in Call,
         Accepted(call), EffectStands(other)
  PROVE  ~SameTarget(call, other) /\ ~SameTarget(other, call)
BY DEF Accepted, EffectStands, SameTarget, CreateDid, RegisterInstitution,
       IssueCredential, RevokeCredential

\* An extrinsic that is in a block after a step was accepted with the same
\* call, in this step or before.
LEMMA InBlock ==
  ASSUME ExtrinsicsInv, ExtrinsicsGoOn, NEW slot \in Slots,
         InPhase(slot, "block")'
  PROVE  /\ extrinsics[slot].call \in Call
         /\ extrinsics'[slot].call = extrinsics[slot].call
         /\ \/ /\ EntersBlock(slot)
               /\ Accepted(extrinsics[slot].call)
            \/ /\ InPhase(slot, "block")
               /\ EffectStands(extrinsics[slot].call)
<1>1. /\ ~Free(slot)
      /\ extrinsics'[slot].call = extrinsics[slot].call
      /\ \/ extrinsics[slot].phase = "block"
         \/ Accepted(extrinsics[slot].call)
  BY DEF ExtrinsicsGoOn, SlotGoesOn, InPhase, Free
<1>2. extrinsics[slot].call \in Call
  BY <1>1, ExtrinsicHasType DEF ExtrinsicsInv
<1>3. CASE InPhase(slot, "block")
  BY <1>1, <1>2, <1>3 DEF ExtrinsicsInv, TakesEffectOnce
<1>4. CASE ~InPhase(slot, "block")
  BY <1>1, <1>2, <1>4 DEF EntersBlock, InPhase
<1>5. QED
  BY <1>3, <1>4

\* Extrinsics that go on, over a chain that goes on.
LEMMA EffectsStay ==
  ASSUME ExtrinsicsInv, ExtrinsicsGoOn, LedgerTypeOK, LedgerGrows
  PROVE  ExtrinsicsInv'
<1>1. ExtrinsicsTyped'
  BY GoingOnKeeps DEF ExtrinsicsInv
<1>2. ASSUME NEW slot \in Slots, InPhase(slot, "block")'
      PROVE  EffectStands(extrinsics[slot].call)'
  <2>1. PICK call \in Call :
          /\ extrinsics'[slot].call = call
          /\ Accepted(call) \/ EffectStands(call)
    BY <1>2, InBlock
  <2>2. EffectStands(call)'
    BY <2>1, AcceptedStep, EffectStays
  <2>3. QED
    BY <2>1, <2>2 DEF EffectStands, Certified
<1>3. ASSUME NEW slot \in Slots, NEW other \in Slots \ {slot},
             InPhase(slot, "block")', InPhase(other, "block")'
      PROVE  ~SameTarget(extrinsics[slot].call, extrinsics[other].call)'
  <2>1. PICK call \in Call :
          /\ extrinsics'[slot].call = call /\ extrinsics[slot].call = call
          /\ \/ EntersBlock(slot) /\ Accepted(call)
             \/ InPhase(slot, "block") /\ EffectStands(call)
    BY <1>3, InBlock
  <2>2. PICK second \in Call :
          /\ extrinsics'[other].call = second
          /\ extrinsics[other].call = second
          /\ \/ EntersBlock(other) /\ Accepted(second)
             \/ InPhase(other, "block") /\ EffectStands(second)
    BY <1>3, InBlock
  <2>3. ~(EntersBlock(slot) /\ EntersBlock(other))
    BY <1>3 DEF ExtrinsicsGoOn
  <2>4. ~SameTarget(call, second)
    <3>1. CASE InPhase(slot, "block") /\ InPhase(other, "block")
      BY <1>3, <2>1, <2>2, <3>1 DEF ExtrinsicsInv, TakesEffectOnce
    <3>2. CASE Accepted(call) /\ EffectStands(second)
      BY <3>2, TargetTaken
    <3>3. CASE EffectStands(call) /\ Accepted(second)
      BY <3>3, TargetTaken
    <3>4. QED
      BY <2>1, <2>2, <2>3, <3>1, <3>2, <3>3
  <2>5. QED
    BY <2>1, <2>2, <2>4 DEF SameTarget
<1>4. TakesEffectOnce'
  BY <1>2, <1>3 DEF TakesEffectOnce
<1>5. QED
  BY <1>1, <1>4 DEF ExtrinsicsInv

\* A call that is being signed has no effect yet.
LEMMA EffectsStayWhenSent ==
  ASSUME ExtrinsicsInv, NEW page \in Senders, NEW slot \in Slots,
         Sends(page, slot), UNCHANGED ledgerVars
  PROVE  ExtrinsicsInv'
<1>1. /\ ExtrinsicsTyped'
      /\ \A s \in Slots \ {slot} : extrinsics'[s] = extrinsics[s]
      /\ ~InPhase(slot, "block")'
  BY SendingAdds DEF ExtrinsicsInv
<1>2. \A s \in Slots : InPhase(s, "block")' =>
        InPhase(s, "block") /\ extrinsics'[s] = extrinsics[s]
  BY <1>1 DEF InPhase, Free
<1>3. ASSUME NEW s \in Slots, InPhase(s, "block")'
      PROVE  EffectStands(extrinsics[s].call)'
  BY <1>2, <1>3
     DEF ExtrinsicsInv, TakesEffectOnce, EffectStands, Certified, ledgerVars
<1>4. ASSUME NEW s \in Slots, NEW other \in Slots \ {s},
             InPhase(s, "block")', InPhase(other, "block")'
      PROVE  ~SameTarget(extrinsics[s].call, extrinsics[other].call)'
  BY <1>2, <1>4 DEF ExtrinsicsInv, TakesEffectOnce, SameTarget
<1>5. QED
  BY <1>1, <1>3, <1>4 DEF ExtrinsicsInv, TakesEffectOnce
-----------------------------------------------------------------------------
\* A page that is there is the one on the screen.
MountedShown ==
  \A slot \in Slots : Mounted(slot) => route = Host(extrinsics[slot].page)

StoresInv ==
  /\ isReady \in BOOLEAN
  /\ account \in Accounts \cup {None}
  /\ didStore \in DidStore
  /\ IsInstitution => institution[didStore.institution] # "none"

WaitsForOne(page) == \A a, b \in AwaitedBy(page) : a = b

DidFormInv ==
  /\ DidFormTypeOK
  /\ WaitsForOne("create-did") /\ WaitsForOne("dialog")
  /\ AwaitedBy("create-did") \cup AwaitedBy("dialog") # {} => didSubmitting

RegInv ==
  /\ RegTypeOK
  /\ WaitsForOne("register")
  /\ AwaitedBy("register") # {} => regSubmitting

HasActiveDid(who) == who \in Accounts /\ did[who] # "none"

\* A search goes on in the first step only, for an address that was typed,
\* and what it says of an active DID has been so.
SearchInv ==
  /\ IssueTypeOK
  /\ search # None /\ search.answer = "active" => HasActiveDid(search.who)
  /\ RecipientActive => HasActiveDid(recipientInfo.name)
  /\ search # None => step = 1
  /\ step > 1 => RecipientActive
  /\ search # None \/ recipientInfo # None => recipientDID \in Addresses

SubmitInv ==
  /\ step = 5 => documentHash # None
  /\ WaitsForOne("issue")
  /\ AwaitedBy("issue") # {} => isSubmitting /\ step = 5

\* What an entry says of a credential is so.
EntrySaid(entry) ==
  /\ entry \in IssuedEntry
  /\ Certified(entry.hash)
  /\ certificate[entry.hash].holder = entry.holder
  /\ entry.status = "revoked" => certificate[entry.hash].revoked

IssuedInv ==
  /\ IssuedTypeOK
  /\ \A entry \in issued : EntrySaid(entry)
  /\ selected # None => EntrySaid(selected)
  /\ \A fetch \in Fetches : issuedFetches[fetch] # None =>
       \A entry \in issuedFetches[fetch].answer : EntrySaid(entry)

ListFetch ==
  [phase : {"asked", "read"}, did : Addresses,
   answer : SUBSET FormattedCredential, refresh : BOOLEAN,
   revokedThen : SUBSET Hashes]

\* A credential of the holder that a list is for, as the chain said it since
\* the fetch began.
ListedFor(credential, source) ==
  /\ SaidByChain(credential)
  /\ credential.holder = source.did
  /\ credential.hash \in source.revokedThen => credential.revoked

ListAsks ==
  /\ listFetches \in [ListFetches -> ListFetch \cup {None}]
  /\ \A fetch \in ListFetches : listFetches[fetch] # None =>
       /\ listFetches[fetch].revokedThen \subseteq RevokedOnChain
       /\ \A credential \in listFetches[fetch].answer :
            ListedFor(credential, listFetches[fetch])

ListInv ==
  /\ ListAsks
  /\ \A credential \in credentials : ListedFor(credential, listSource)

\* An answer is that of the query before, a status or a number.
ProfileFetch ==
  [phase : {"asked", "read", "counting", "counted"}, did : Addresses,
   answer : InstitutionStatus \cup {None}
              \cup {Cardinality(hashes) : hashes \in SUBSET Hashes},
   refresh : BOOLEAN]

Known(who) == who \in Accounts /\ institution[who] # "none"

ProfileInv ==
  /\ profileFetches \in [ProfileFetches -> ProfileFetch \cup {None}]
  /\ institutionData # None =>
       /\ institutionData \in [did : Accounts, verified : BOOLEAN]
       /\ Known(institutionData.did)
  /\ \A fetch \in ProfileFetches :
       InFetch(fetch, "read") /\ profileFetches[fetch].answer # "none" =>
         Known(profileFetches[fetch].did)

AdminFetch ==
  [phase : {"asked"}, entries : {<<>>}]
  \cup [phase : {"read"}, entries : [Accounts -> InstitutionStatus]]

AdminInv ==
  /\ institutions \in [Accounts -> InstitutionStatus]
  /\ adminFetches \in [AdminFetches -> AdminFetch \cup {None}]
  /\ {verifying, revokingInstitution} \subseteq Accounts \cup {None}

SiteInv ==
  /\ LedgerTypeOK /\ ExtrinsicsInv /\ StoresInv
  /\ route \in Routes /\ MountedShown
  /\ DidFormInv /\ RegInv /\ SearchInv /\ SubmitInv
  /\ IssuedInv /\ ListInv /\ ProfileInv /\ AdminInv
-----------------------------------------------------------------------------
\* What a step of the site can be for the chain, for the stores, for the
\* extrinsics, for the screen and for each page.
ChainMoves == LedgerTypeOK' /\ LedgerGrows

FormWritesStore(slot) ==
  \/ Pending("register", slot) /\ Registered(slot)
  \/ /\ \E page \in {"create-did", "dialog", "dashboard"} : Pending(page, slot)
     /\ didStore' = WithDid(didStore, extrinsics[slot].call.key)

StoresMove ==
  \/ UNCHANGED storeVars
  \/ SessionStep
  \/ /\ \E slot \in Slots : FormWritesStore(slot)
     /\ UNCHANGED <<isReady, account>>

PageSends ==
  \E page \in Senders, slot \in Slots :
    Sends(page, slot) /\ route = Host(page) /\ UNCHANGED ledgerVars

ExtrinsicsMove == ExtrinsicsGoOn \/ PageSends

ScreenMoves ==
  \/ route' \in Routes /\ \A slot \in Slots : ~Mounted(slot)'
  \/ /\ route' = route
     /\ \A slot \in Slots : Mounted(slot)' =>
          \/ /\ Mounted(slot)
             /\ Host(extrinsics'[slot].page) = Host(extrinsics[slot].page)
          \/ route = Host(extrinsics'[slot].page)

\* The dialog is gone from the dashboard.
DialogIsGone ==
  /\ route = "dashboard" /\ LeaveDidForm
  /\ Kept("create-did") /\ Deserted("dialog")

DidFormMoves ==
  \/ UNCHANGED didFormVars /\ Kept("create-did") /\ Kept("dialog")
  \/ LeaveDidForm /\ Deserted("create-did") /\ Deserted("dialog")
  \/ OnDidForm
  \/ DialogIsGone

RegMoves ==
  \/ UNCHANGED regVars /\ Kept("register")
  \/ LeaveRegistration /\ Deserted("register")
  \/ OnRegistration

IssueMoves ==
  \/ UNCHANGED issueVars /\ Kept("issue")
  \/ LeaveIssue /\ Deserted("issue")
  \/ OnIssue

ListsMove ==
  /\ UNCHANGED issuedVars \/ LeaveIssued \/ IssuedNext
  /\ UNCHANGED adminVars \/ LeaveAdmin \/ AdminNext
  /\ UNCHANGED listVars \/ LeaveCredentials \/ CredentialsNext
  /\ UNCHANGED profileVars \/ LeaveProfile \/ ProfileNext

SiteMoves ==
  /\ ChainMoves /\ StoresMove /\ ExtrinsicsMove /\ ScreenMoves
  /\ DidFormMoves /\ RegMoves /\ IssueMoves /\ ListsMove

\* A chain that rests.
LEMMA ChainRests ==
  ASSUME LedgerTypeOK, UNCHANGED ledgerVars
  PROVE  ChainMoves
BY LedgerStep DEF ChainMoves

\* The extrinsics go on while the screen stays.
LEMMA ScreenStays ==
  ASSUME ExtrinsicsTyped, ExtrinsicsGoOn, route' = route
  PROVE  /\ ExtrinsicsMove /\ ScreenMoves
         /\ \A page \in Senders : Kept(page)
BY GoingOnKeeps DEF ExtrinsicsMove, ScreenMoves

\* A dialog that is not drawn any more, on the page that draws it.
LEMMA DialogGoesAway ==
  ASSUME ExtrinsicsTyped, DialogLeft, route = "dashboard",
         \/ extrinsics' = DialogGone
         \/ \E slot \in Slots :
              extrinsics' = [DialogGone EXCEPT ![slot] = None]
  PROVE  /\ ExtrinsicsMove /\ ScreenMoves
         /\ DidFormMoves /\ RegMoves /\ IssueMoves /\ ListsMove
<1>1. /\ route' = route /\ LeaveDidForm
      /\ UNCHANGED <<regVars, issueVars, issuedVars, adminVars, listVars,
                     profileVars>>
  BY DEF DialogLeft
<1>2. ExtrinsicsGoOn /\ Deserted("dialog")
  BY DialogGoesOn
<1>3. /\ ExtrinsicsMove /\ ScreenMoves
      /\ \A page \in Senders : Kept(page)
  BY <1>1, <1>2, ScreenStays
<1>4. QED
  BY <1>1, <1>2, <1>3
     DEF Senders, DidFormMoves, DialogIsGone, RegMoves, IssueMoves, ListsMove

\* The page on the screen sends something.
LEMMA ScreenSends ==
  ASSUME ExtrinsicsTyped, NEW page \in Senders, NEW slot \in Slots,
         Sends(page, slot), route = Host(page), route' = route,
         UNCHANGED ledgerVars
  PROVE  /\ ExtrinsicsMove /\ ScreenMoves
         /\ \A p \in Senders \ {page} : Kept(p)
<1>1. ExtrinsicsMove
  BY DEF ExtrinsicsMove, PageSends
<1>2. /\ \A s \in Slots : Mounted(s)' =>
           IF s = slot THEN extrinsics'[s].page = page
           ELSE Mounted(s) /\ extrinsics'[s].page = extrinsics[s].page
      /\ \A p \in Senders \ {page} : Kept(p)
  BY SendingAdds
<1>3. ScreenMoves
  BY <1>2 DEF ScreenMoves
<1>4. QED
  BY <1>1, <1>2, <1>3

\* Nothing of a page changes.
LEMMA PagesRest ==
  ASSUME ExtrinsicsTyped, ExtrinsicsGoOn, PagesSame
  PROVE  /\ ExtrinsicsMove /\ ScreenMoves
         /\ DidFormMoves /\ RegMoves /\ IssueMoves /\ ListsMove
<1>1. /\ ExtrinsicsMove /\ ScreenMoves
      /\ \A page \in Senders : Kept(page)
  BY ScreenStays DEF PagesSame
<1>2. QED
  BY <1>1 DEF PagesSame, Senders, DidFormMoves, RegMoves, IssueMoves,
              ListsMove

\* All pages are left.
LEMMA PagesGo ==
  ASSUME ExtrinsicsTyped, PagesLeft, route' \in Routes,
         \/ extrinsics' = Abandoned
         \/ \E slot \in Slots : extrinsics' = [Abandoned EXCEPT ![slot] = None]
  PROVE  /\ ExtrinsicsMove /\ ScreenMoves
         /\ DidFormMoves /\ RegMoves /\ IssueMoves /\ ListsMove
<1>1. /\ \A slot \in Slots : ~Mounted(slot)'
      /\ \A page \in Senders : Deserted(page)
  BY LeavingDeserts
<1>2. ExtrinsicsGoOn
  BY ExtrinsicsAbandoned, ExtrinsicsSettledBehind
<1>3. QED
  BY <1>1, <1>2 DEF ExtrinsicsMove, ScreenMoves, PagesLeft, Senders,
                    DidFormMoves, RegMoves, IssueMoves, ListsMove
-----------------------------------------------------------------------------
\* Now one lemma for each action of the site.  A page that is not concerned
\* stays as it is, or is left.

LEMMA NavigateMoves ==
  ASSUME SiteInv, NEW page \in Routes, Navigate(page)
  PROVE  SiteMoves
<1>1. ExtrinsicsTyped /\ LedgerTypeOK
  BY DEF SiteInv, ExtrinsicsInv
<1>2. /\ UNCHANGED ledgerVars /\ UNCHANGED storeVars
      /\ PagesLeft /\ route' \in Routes /\ extrinsics' = Abandoned
  BY DEF Navigate
<1>3. QED
  BY <1>1, <1>2, ChainRests, PagesGo DEF SiteMoves, StoresMove

LEMMA DidFormSends ==
  ASSUME SiteInv, NEW slot \in Slots, OnDidForm, SubmitDid(slot, DidFormPage)
  PROVE  Sends(DidFormPage, slot)
<1>1. generatedKeys \in Keys /\ account \in Accounts
  BY DEF SiteInv, DidFormInv, DidFormTypeOK, StoresInv, SubmitDid,
         MayCreateDid
<1> DEFINE call == [name |-> "createDid", by |-> account,
                    key |-> generatedKeys]
<1>2. /\ call \in Call
      /\ call.name = "createDid" /\ call.key \in Keys
  BY <1>1 DEF Call
<1>3. Send(slot, call, DidFormPage)
  BY DEF SubmitDid
<1>4. DidFormPage \in {"create-did", "dialog"}
  BY DEF DidFormPage
<1> HIDE DEF call
<1>5. SentFrom(call, DidFormPage)
  BY <1>2, <1>4 DEF SentFrom
<1>6. QED
  BY <1>2, <1>3, <1>5 DEF Sends

LEMMA OnDidFormMoves ==
  ASSUME SiteInv, OnDidForm
  PROVE  SiteMoves
<1>1. ExtrinsicsTyped /\ LedgerTypeOK
  BY DEF SiteInv, ExtrinsicsInv
<1>2. /\ UNCHANGED ledgerVars /\ UNCHANGED storeVars /\ route' = route
      /\ UNCHANGED <<regVars, issueVars, issuedVars, adminVars, listVars,
                     profileVars>>
      /\ route = Host(DidFormPage)
  BY DEF OnDidForm, DidFormShown, DidFormPage, Host
<1>3. /\ ExtrinsicsMove /\ ScreenMoves
      /\ Kept("register") /\ Kept("issue")
  <2>1. CASE ExtrinsicsGoOn
    BY <1>1, <1>2, <2>1, ScreenStays DEF Senders
  <2>2. ASSUME NEW slot \in Slots, SubmitDid(slot, DidFormPage)
        PROVE  <1>3!:
    <3>1. DidFormPage \in Senders \ {"register", "issue"}
      BY DEF DidFormPage, Senders
    <3>2. QED
      BY <1>1, <1>2, <2>2, <3>1, DidFormSends, ScreenSends DEF Senders
  <2>3. QED
    BY <1>1, <2>1, <2>2, ExtrinsicsRest, FailureGoesOn
       DEF OnDidForm, CreateDidFails
<1>4. DidFormMoves
  BY DEF DidFormMoves
<1>5. RegMoves /\ IssueMoves /\ ListsMove
  BY <1>2, <1>3 DEF RegMoves, IssueMoves, ListsMove
<1>6. QED
  BY <1>1, <1>2, <1>3, <1>4, <1>5, ChainRests DEF SiteMoves, StoresMove

LEMMA DialogClosesMoves ==
  ASSUME SiteInv, DialogCloses
  PROVE  SiteMoves
<1>1. ExtrinsicsTyped /\ LedgerTypeOK
  BY DEF SiteInv, ExtrinsicsInv
<1>2. /\ UNCHANGED ledgerVars /\ UNCHANGED storeVars
      /\ route = "dashboard" /\ DialogLeft /\ extrinsics' = DialogGone
  BY DEF DialogCloses
<1>3. QED
  BY <1>1, <1>2, DialogGoesAway, ChainRests DEF SiteMoves, StoresMove

LEMMA DidIsCreatedMoves ==
  ASSUME SiteInv, NEW slot \in Slots, DidIsCreated(slot)
  PROVE  SiteMoves
<1>1. ExtrinsicsTyped /\ LedgerTypeOK
  BY DEF SiteInv, ExtrinsicsInv
<1>2. /\ UNCHANGED ledgerVars
      /\ FormWritesStore(slot) /\ UNCHANGED <<isReady, account>>
  BY DEF DidIsCreated, FormWritesStore
<1>3. /\ ExtrinsicsMove /\ ScreenMoves
      /\ DidFormMoves /\ RegMoves /\ IssueMoves /\ ListsMove
  <2>1. CASE /\ Show("dashboard")
             /\ extrinsics' = SettledBehind(slot, "dashboard")
    <3>1. CASE route = "dashboard"
      <4>1. PagesSame /\ Withdraw(slot)
        BY <2>1, <3>1 DEF Show, PagesSame, SettledBehind, Withdraw,
          DidIsCreated, DialogLeft
      <4>2. QED
        BY <1>1, <4>1, ExtrinsicEnds, PagesRest
    <3>2. CASE route # "dashboard"
      BY <1>1, <2>1, <3>2, PagesGo DEF Show, SettledBehind, Routes
    <3>3. QED
      BY <3>1, <3>2
  <2>2. CASE /\ Awaits("dialog", slot) \/ Awaits("dashboard", slot)
             /\ DialogLeft
             /\ extrinsics' = [DialogGone EXCEPT ![slot] = None]
    <3>1. route = "dashboard"
      BY <2>2 DEF SiteInv, MountedShown, Mounted, Awaits, Pending, Host
    <3>2. QED
      BY <1>1, <2>2, <3>1, DialogGoesAway
  <2>3. CASE PagesSame /\ Withdraw(slot)
    BY <1>1, <2>3, ExtrinsicEnds, PagesRest
  <2>4. QED
    BY <2>1, <2>2, <2>3 DEF DidIsCreated
<1>4. QED
  BY <1>1, <1>2, <1>3, ChainRests DEF SiteMoves, StoresMove

LEMMA RegistrationSends ==
  ASSUME SiteInv, NEW slot \in Slots, SubmitRegistration(slot, "register")
  PROVE  Sends("register", slot)
<1>1. account \in Accounts
  BY DEF SiteInv, StoresInv, SubmitRegistration, MayRegister
<1> DEFINE call == [name |-> "registerInstitution", by |-> account,
                    key |-> None]
<1>2. call \in Call /\ SentFrom(call, "register")
  BY <1>1 DEF Call, SentFrom
<1>3. Send(slot, call, "register")
  BY DEF SubmitRegistration
<1> HIDE DEF call
<1>4. QED
  BY <1>2, <1>3 DEF Sends

LEMMA OnRegistrationMoves ==
  ASSUME SiteInv, OnRegistration
  PROVE  SiteMoves
<1>1. ExtrinsicsTyped /\ LedgerTypeOK
  BY DEF SiteInv, ExtrinsicsInv
<1>2. /\ UNCHANGED ledgerVars /\ UNCHANGED <<isReady, account>>
      /\ route' = route
      /\ UNCHANGED <<didFormVars, issueVars, issuedVars, adminVars, listVars,
                     profileVars>>
  BY DEF OnRegistration
<1>3. StoresMove
  BY <1>2 DEF StoresMove, storeVars, OnRegistration, RegistrationEnds,
              FormWritesStore
<1>4. /\ ExtrinsicsMove /\ ScreenMoves
      /\ \A page \in Senders \ {"register"} : Kept(page)
  <2>1. CASE ExtrinsicsGoOn
    BY <1>1, <1>2, <2>1, ScreenStays
  <2>2. ASSUME NEW slot \in Slots, SubmitRegistration(slot, "register"),
               route = "register"
        PROVE  <1>4!:
    BY <1>1, <1>2, <2>2, RegistrationSends, ScreenSends DEF Senders, Host
  <2>3. QED
    BY <1>1, <2>1, <2>2, ExtrinsicsRest, FailureGoesOn, ExtrinsicEnds
       DEF OnRegistration, RegistrationEnds, Registered, Finalized
<1>5. DidFormMoves /\ RegMoves /\ IssueMoves /\ ListsMove
  BY <1>2, <1>4 DEF Senders, DidFormMoves, RegMoves, IssueMoves, ListsMove
<1>6. QED
  BY <1>1, <1>2, <1>3, <1>4, <1>5, ChainRests DEF SiteMoves

LEMMA IssueSends ==
  ASSUME SiteInv, NEW slot \in Slots, NEW expiring \in BOOLEAN,
         SubmitForm(slot, expiring)
  PROVE  Sends("issue", slot)
<1> DEFINE call == [name |-> "issueCredential", by |-> account,
                    holder |-> recipientDID, hash |-> documentHash,
                    expires |-> None]
<1>1. step = 5 /\ account \in Accounts
  BY DEF SubmitForm, MaySubmit, SiteInv, StoresInv
<1>2. documentHash \in Hashes /\ recipientDID \in Addresses
  BY <1>1 DEF SiteInv, SubmitInv, SearchInv, IssueTypeOK, RecipientActive
<1>3. call \in Call /\ call.name = "issueCredential"
  BY <1>1, <1>2 DEF Call
<1>4. Send(slot, call, "issue") \/ Prepare(slot, call, "issue")
  BY DEF SubmitForm, Reviewed
<1> HIDE DEF call
<1>5. QED
  BY <1>3, <1>4 DEF Sends, SentFrom

LEMMA OnIssueMoves ==
  ASSUME SiteInv, OnIssue
  PROVE  SiteMoves
<1>1. ExtrinsicsTyped /\ LedgerTypeOK
  BY DEF SiteInv, ExtrinsicsInv
<1>2. /\ UNCHANGED ledgerVars /\ UNCHANGED storeVars /\ route' = route
      /\ UNCHANGED <<didFormVars, regVars, issuedVars, adminVars, listVars,
                     profileVars>>
      /\ route = Host("issue")
  BY DEF OnIssue, IssueNext, Host
<1>3. /\ ExtrinsicsMove /\ ScreenMoves
      /\ \A page \in Senders \ {"issue"} : Kept(page)
  <2>1. CASE ExtrinsicsGoOn
    BY <1>1, <1>2, <2>1, ScreenStays
  <2>2. ASSUME NEW slot \in Slots, NEW expiring \in BOOLEAN,
               SubmitForm(slot, expiring)
        PROVE  <1>3!:
    BY <1>1, <1>2, <2>2, IssueSends, ScreenSends DEF Senders
  <2>3. QED
    BY <1>1, <2>1, <2>2, ExtrinsicsRest, FailureGoesOn
       DEF OnIssue, IssueNext, IssueFails
<1>4. DidFormMoves /\ RegMoves /\ IssueMoves /\ ListsMove
  BY <1>2, <1>3 DEF Senders, DidFormMoves, RegMoves, IssueMoves, ListsMove
<1>5. QED
  BY <1>1, <1>2, <1>3, <1>4, ChainRests DEF SiteMoves, StoresMove

LEMMA IssueFormVanishesMoves ==
  ASSUME SiteInv, IssueFormVanishes
  PROVE  SiteMoves
<1>1. ExtrinsicsTyped /\ LedgerTypeOK
  BY DEF SiteInv, ExtrinsicsInv
<1>2. /\ UNCHANGED ledgerVars /\ UNCHANGED storeVars /\ route' = route
      /\ UNCHANGED <<didFormVars, regVars, issuedVars, adminVars, listVars,
                     profileVars>>
      /\ LeaveIssue /\ extrinsics' = Abandoned
  BY DEF IssueFormVanishes
<1>3. /\ ExtrinsicsMove /\ ScreenMoves
      /\ \A page \in Senders : Kept(page)
  BY <1>1, <1>2, ExtrinsicsAbandoned, ScreenStays
<1>4. \A page \in Senders : Deserted(page)
  BY <1>1, <1>2, LeavingDeserts
<1>5. DidFormMoves /\ RegMoves /\ IssueMoves /\ ListsMove
  BY <1>2, <1>3, <1>4
     DEF Senders, DidFormMoves, RegMoves, IssueMoves, ListsMove
<1>6. QED
  BY <1>1, <1>2, <1>3, <1>5, ChainRests DEF SiteMoves, StoresMove

LEMMA IssueGoesOnMoves ==
  ASSUME SiteInv, NEW slot \in Slots, IssueGoesOn(slot)
  PROVE  SiteMoves
<1>1. ExtrinsicsTyped /\ LedgerTypeOK /\ block \in Nat
  BY DEF SiteInv, ExtrinsicsInv, LedgerTypeOK
<1>2. /\ UNCHANGED ledgerVars /\ UNCHANGED storeVars /\ PagesSame
      /\ \E days \in Days : IssuePrepared(slot, days)
  BY DEF IssueGoesOn
<1>3. ExtrinsicsGoOn
  BY <1>1, <1>2, PreparedGoesOn
<1>4. QED
  BY <1>1, <1>2, <1>3, ChainRests, PagesRest DEF SiteMoves, StoresMove

LEMMA IssueSucceedsMoves ==
  ASSUME SiteInv, NEW slot \in Slots, IssueSucceeds(slot)
  PROVE  SiteMoves
<1>1. ExtrinsicsTyped /\ LedgerTypeOK
  BY DEF SiteInv, ExtrinsicsInv
<1>2. /\ UNCHANGED ledgerVars /\ UNCHANGED storeVars
      /\ Show("institution")
      /\ extrinsics' = SettledBehind(slot, "institution")
  BY DEF IssueSucceeds
<1>3. /\ ExtrinsicsMove /\ ScreenMoves
      /\ DidFormMoves /\ RegMoves /\ IssueMoves /\ ListsMove
  <2>1. CASE route = "institution"
    <3>1. PagesSame /\ Withdraw(slot)
      BY <1>2, <2>1 DEF Show, PagesSame, SettledBehind, Withdraw
    <3>2. QED
      BY <1>1, <3>1, ExtrinsicEnds, PagesRest
  <2>2. CASE route # "institution"
    BY <1>1, <1>2, <2>2, PagesGo DEF Show, SettledBehind, Routes
  <2>3. QED
    BY <2>1, <2>2
<1>4. QED
  BY <1>1, <1>2, <1>3, ChainRests DEF SiteMoves, StoresMove

LEMMA IssuedSends ==
  ASSUME SiteInv, NEW slot \in Slots,
         \/ RevokeSelected(slot)
         \/ \E entry \in issued : RevokeListed(entry, slot)
  PROVE  Sends("issued", slot)
<1>1. PICK hash \in Hashes : HandleRevoke(hash, slot)
  BY DEF SiteInv, IssuedInv, EntrySaid, IssuedEntry, RevokeListed,
         RevokeSelected
<1>2. account \in Accounts
  BY <1>1 DEF SiteInv, StoresInv, HandleRevoke
<1> DEFINE call == [name |-> "revokeCredential", by |-> account, hash |-> hash]
<1>3. call \in Call /\ call.name = "revokeCredential"
  BY <1>2 DEF Call
<1>4. Send(slot, call, "issued")
  BY <1>1 DEF HandleRevoke
<1> HIDE DEF call
<1>5. QED
  BY <1>3, <1>4 DEF Sends, SentFrom

LEMMA OnIssuedMoves ==
  ASSUME SiteInv, OnIssued
  PROVE  SiteMoves
<1>1. ExtrinsicsTyped /\ LedgerTypeOK
  BY DEF SiteInv, ExtrinsicsInv
<1>2. /\ UNCHANGED ledgerVars /\ UNCHANGED storeVars /\ route' = route
      /\ UNCHANGED <<didFormVars, regVars, issueVars, adminVars, listVars,
                     profileVars>>
      /\ route = Host("issued") /\ IssuedNext
  BY DEF OnIssued, IssuedNext, Host
<1>3. /\ ExtrinsicsMove /\ ScreenMoves
      /\ \A page \in Senders \ {"issued"} : Kept(page)
  <2>1. CASE ExtrinsicsGoOn
    BY <1>1, <1>2, <2>1, ScreenStays
  <2>2. ASSUME NEW slot \in Slots,
               \/ RevokeSelected(slot)
               \/ \E entry \in issued : RevokeListed(entry, slot)
        PROVE  <1>3!:
    BY <1>1, <1>2, <2>2, IssuedSends, ScreenSends DEF Senders
  <2>3. QED
    BY <1>1, <1>2, <2>1, <2>2, ExtrinsicsRest, FailureGoesOn, ExtrinsicEnds
       DEF IssuedNext, IssuedPageNext, RevokeSucceeds, RevokeFails, Finalized
<1>4. DidFormMoves /\ RegMoves /\ IssueMoves /\ ListsMove
  BY <1>2, <1>3 DEF Senders, DidFormMoves, RegMoves, IssueMoves, ListsMove
<1>5. QED
  BY <1>1, <1>2, <1>3, <1>4, ChainRests DEF SiteMoves, StoresMove

LEMMA AdminSends ==
  ASSUME SiteInv, NEW slot \in Slots, NEW who \in Accounts,
         PressVerify(who, slot) \/ PressRevoke(who, slot)
  PROVE  Sends("admin", slot)
<1>1. account \in Accounts
  BY DEF SiteInv, StoresInv, PressVerify, PressRevoke, ListedAs, AdminShown
<1>2. PICK name \in {"verifyInstitution", "revokeInstitution"} :
        Send(slot, [name |-> name, by |-> account, who |-> who], "admin")
  BY DEF PressVerify, PressRevoke
<1> DEFINE call == [name |-> name, by |-> account, who |-> who]
<1>3. call \in Call /\ call.name = name
  BY <1>1 DEF Call
<1>4. Send(slot, call, "admin")
  BY <1>2
<1> HIDE DEF call
<1>5. QED
  BY <1>3, <1>4 DEF Sends, SentFrom

LEMMA OnAdminMoves ==
  ASSUME SiteInv, OnAdmin
  PROVE  SiteMoves
<1>1. ExtrinsicsTyped /\ LedgerTypeOK
  BY DEF SiteInv, ExtrinsicsInv
<1>2. /\ UNCHANGED storeVars /\ route' = route
      /\ UNCHANGED <<didFormVars, regVars, issueVars, issuedVars, listVars,
                     profileVars>>
      /\ route = Host("admin") /\ AdminNext
  BY DEF OnAdmin, AdminNext, Host
<1>3. UNCHANGED ledgerVars
  BY <1>2 DEF AdminNext, PressVerify, PressRevoke, VerifySent, SignedAndSent,
              VerifyNotSent, VerifyFinalized, VerifyErrorUnseen,
              RevocationFails
<1>4. /\ ExtrinsicsMove /\ ScreenMoves
      /\ \A page \in Senders \ {"admin"} : Kept(page)
  <2>1. CASE ExtrinsicsGoOn
    BY <1>1, <1>2, <2>1, ScreenStays
  <2>2. ASSUME NEW slot \in Slots, NEW who \in Accounts,
               PressVerify(who, slot) \/ PressRevoke(who, slot)
        PROVE  <1>4!:
    BY <1>1, <1>2, <1>3, <2>2, AdminSends, ScreenSends DEF Senders
  <2>3. ASSUME NEW slot \in Slots,
               \/ VerifySent(slot) \/ VerifyNotSent(slot)
               \/ VerifyFinalized(slot) \/ VerifyErrorUnseen(slot)
               \/ RevocationFails(slot)
        PROVE  ExtrinsicsGoOn
    BY <1>1, <2>3, InclusionGoesOn, FailureGoesOn, ExtrinsicEnds
       DEF VerifySent, VerifyNotSent, VerifyFinalized, VerifyErrorUnseen,
           RevocationFails, Finalized
  <2>4. CASE UNCHANGED extrinsics
    BY <1>1, <2>1, <2>4, ExtrinsicsRest
  <2>5. QED
    BY <1>2, <2>1, <2>2, <2>3, <2>4 DEF AdminNext
<1>5. DidFormMoves /\ RegMoves /\ IssueMoves /\ ListsMove
  BY <1>2, <1>4 DEF Senders, DidFormMoves, RegMoves, IssueMoves, ListsMove
<1>6. QED
  BY <1>1, <1>2, <1>3, <1>4, <1>5, ChainRests DEF SiteMoves, StoresMove

\* The pages that only read the chain.
LEMMA ReadersMove ==
  ASSUME SiteInv, OnCredentials \/ OnInstitution \/ OnDashboard
  PROVE  SiteMoves
<1>1. ExtrinsicsTyped /\ LedgerTypeOK
  BY DEF SiteInv, ExtrinsicsInv
<1>2. /\ UNCHANGED ledgerVars /\ UNCHANGED storeVars /\ route' = route
      /\ UNCHANGED extrinsics
      /\ UNCHANGED <<didFormVars, regVars, issueVars, issuedVars, adminVars>>
      /\ UNCHANGED listVars \/ CredentialsNext
      /\ UNCHANGED profileVars \/ ProfileNext
  BY DEF OnCredentials, OnInstitution, OnDashboard, CredentialsNext,
         ProfileNext, DashboardNext
<1>3. /\ ExtrinsicsMove /\ ScreenMoves
      /\ \A page \in Senders : Kept(page)
  BY <1>1, <1>2, ExtrinsicsRest, ScreenStays
<1>4. DidFormMoves /\ RegMoves /\ IssueMoves /\ ListsMove
  BY <1>2, <1>3 DEF Senders, DidFormMoves, RegMoves, IssueMoves, ListsMove
<1>5. QED
  BY <1>1, <1>2, <1>3, <1>4, ChainRests DEF SiteMoves, StoresMove

\* Calls are accepted in a block; whether the page hears of it or not.
LEMMA GoesOnUnseenMoves ==
  ASSUME SiteInv, NEW slot \in Slots, GoesOnUnseen(slot)
  PROVE  SiteMoves
<1>1. ExtrinsicsTyped /\ LedgerTypeOK
  BY DEF SiteInv, ExtrinsicsInv
<1>2. UNCHANGED storeVars /\ PagesSame
  BY DEF GoesOnUnseen
<1>3. ExtrinsicsGoOn
  BY <1>1, InclusionGoesOn, FailureGoesOn, ExtrinsicEnds
     DEF GoesOnUnseen, Discarded, UnwatchedEnds, AbandonedFails, Finalized
<1>4. ~Free(slot)
  BY DEF GoesOnUnseen, Included, Discarded, UnwatchedEnds, SignedAndSent,
         AbandonedFails, Awaits, Pending, InPhase
<1>5. UNCHANGED ledgerVars \/ Accepted(extrinsics[slot].call)
  BY DEF GoesOnUnseen, Included, Discarded, UnwatchedEnds, SignedAndSent
<1>6. PICK call \in Call : call = extrinsics[slot].call
  BY <1>1, <1>4, ExtrinsicHasType
<1>7. ChainMoves
  BY <1>1, <1>5, <1>6, ChainRests, AcceptedStep DEF ChainMoves
<1>8. QED
  BY <1>1, <1>2, <1>3, <1>7, PagesRest DEF SiteMoves, StoresMove

\* The session, or the chain, goes on by itself, or nothing happens.
LEMMA OthersMove ==
  ASSUME SiteInv, SessionGoesOn \/ ChainGoesOn \/ UNCHANGED siteVars
  PROVE  SiteMoves
<1>1. ExtrinsicsTyped /\ LedgerTypeOK
  BY DEF SiteInv, ExtrinsicsInv
<1>2. /\ UNCHANGED extrinsics /\ PagesSame
      /\ LedgerNext \/ UNCHANGED ledgerVars
      /\ SessionStep \/ UNCHANGED storeVars
  BY DEF SessionGoesOn, ChainGoesOn, siteVars, PagesSame
<1>3. QED
  BY <1>1, <1>2, ExtrinsicsRest, PagesRest, LedgerStep
     DEF SiteMoves, StoresMove, ChainMoves

LEMMA StepMoves ==
  ASSUME SiteInv, [SiteLedgerNext]_siteVars
  PROVE  SiteMoves
BY NavigateMoves, OnDidFormMoves, DialogClosesMoves, OnRegistrationMoves,
   OnIssueMoves, IssueFormVanishesMoves, OnIssuedMoves, OnAdminMoves,
   ReadersMove, DidIsCreatedMoves, IssueGoesOnMoves, IssueSucceedsMoves,
   GoesOnUnseenMoves, OthersMove
   DEF SiteLedgerNext, SiteNext, IssuedRedirects, Routes
-----------------------------------------------------------------------------
\* One lemma for each part of the invariant.

LEMMA ExtrinsicsKept ==
  ASSUME SiteInv, SiteMoves
  PROVE  ExtrinsicsInv'
<1>1. CASE ExtrinsicsGoOn
  BY <1>1, EffectsStay DEF SiteInv, SiteMoves, ChainMoves
<1>2. CASE PageSends
  BY <1>2, EffectsStayWhenSent DEF SiteInv, PageSends
<1>3. QED
  BY <1>1, <1>2 DEF SiteMoves, ExtrinsicsMove

LEMMA ScreenKept ==
  ASSUME SiteInv, SiteMoves
  PROVE  route' \in Routes /\ MountedShown'
<1>1. route \in Routes /\ MountedShown /\ ScreenMoves
  BY DEF SiteInv, SiteMoves
<1>2. CASE route' \in Routes /\ \A slot \in Slots : ~Mounted(slot)'
  BY <1>2 DEF MountedShown
<1>3. ASSUME route' = route,
             \A slot \in Slots : Mounted(slot)' =>
               \/ /\ Mounted(slot)
                  /\ Host(extrinsics'[slot].page)
                       = Host(extrinsics[slot].page)
               \/ route = Host(extrinsics'[slot].page)
      PROVE  MountedShown'
  <2>1. ASSUME NEW slot \in Slots, Mounted(slot)'
        PROVE  route' = Host(extrinsics'[slot].page)
    BY <1>1, <1>3, <2>1 DEF MountedShown, Host
  <2>2. QED
    BY <2>1 DEF MountedShown, Host
<1>4. QED
  BY <1>1, <1>2, <1>3 DEF ScreenMoves

\* What the forms write to the store, as Session takes it to be: an institution
\* that is on chain by then, or the address of keys that were made.
FormsWriteStores ==
  \/ \E who \in Accounts : InstitutionLoaded(who)
  \/ \E key \in Keys : didStore' = WithDid(didStore, key)
                        /\ UNCHANGED <<isReady, account>>

LEMMA FormWritesExpected ==
  ASSUME SiteInv, NEW slot \in Slots, FormWritesStore(slot),
         UNCHANGED <<isReady, account>>
  PROVE  FormsWriteStores
<1>1. /\ ExtrinsicsInv /\ ~Free(slot)
      /\ SentFrom(extrinsics[slot].call, extrinsics[slot].page)
      /\ extrinsics[slot].call \in Call
  <2>1. ~Free(slot)
    BY DEF FormWritesStore, Pending
  <2>2. QED
    BY <2>1, ExtrinsicHasType DEF SiteInv, ExtrinsicsInv
<1>2. CASE Pending("register", slot) /\ Registered(slot)
  <2>1. /\ extrinsics[slot].call.by \in Accounts
        /\ extrinsics[slot].call.name = "registerInstitution"
    BY <1>1, <1>2, CallFields DEF Pending, SentFrom
  <2>2. institution[extrinsics[slot].call.by] # "none"
    BY <1>1, <1>2, <2>1
       DEF ExtrinsicsInv, TakesEffectOnce, EffectStands, Registered, Finalized
  <2>3. QED
    BY <1>2, <2>1, <2>2 DEF FormsWriteStores, InstitutionLoaded, Registered
<1>3. CASE /\ \E page \in {"create-did", "dialog", "dashboard"} :
                Pending(page, slot)
           /\ didStore' = WithDid(didStore, extrinsics[slot].call.key)
  BY <1>1, <1>3 DEF Pending, SentFrom, FormsWriteStores
<1>4. QED
  BY <1>2, <1>3 DEF FormWritesStore

\* The store writes keep its type.
LEMMA StoreTyped ==
  ASSUME didStore \in DidStore
  PROVE  /\ \A address \in Addresses : WithDid(didStore, address) \in DidStore
         /\ \A who \in Accounts, status \in {"active", "inactive"} :
              WithStatus(WithDid(didStore, who), status) \in DidStore
         /\ \A who \in Accounts : WithInstitution(didStore, who) \in DidStore
         /\ EmptyDid \in DidStore
         /\ \A address \in Addresses :
              WithDid(didStore, address).institution = didStore.institution
         /\ \A who \in Accounts, status \in {"active", "inactive"} :
              WithStatus(WithDid(didStore, who), status).institution
                = didStore.institution
         /\ \A who \in Accounts : WithInstitution(didStore, who).institution = who
         /\ EmptyDid.institution = None
BY DEF DidStore, WithDid, WithStatus, WithInstitution, EmptyDid, Addresses

LEMMA StoresKept ==
  ASSUME SiteInv, SiteMoves
  PROVE  StoresInv'
<1>1. StoresInv /\ StoresMove /\ LedgerGrows
  BY DEF SiteInv, SiteMoves, ChainMoves
<1>2. ASSUME NEW who \in Accounts, institution[who] # "none"
      PROVE  institution'[who] # "none"
  BY <1>1, <1>2 DEF LedgerGrows
<1>3. /\ isReady \in BOOLEAN /\ account \in Accounts \cup {None}
      /\ didStore \in DidStore
      /\ didStore.institution \in Accounts \cup {None}
      /\ didStore.institution # None =>
           institution'[didStore.institution] # "none"
  BY <1>1, <1>2 DEF StoresInv, DidStore, IsInstitution
<1>4. ASSUME isReady' \in BOOLEAN, account' \in Accounts \cup {None},
             didStore' \in DidStore,
             \/ didStore'.institution = None
             \/ didStore'.institution = didStore.institution
             \/ /\ didStore'.institution \in Accounts
                /\ institution[didStore'.institution] # "none"
      PROVE  StoresInv'
  BY <1>2, <1>3, <1>4 DEF StoresInv, IsInstitution
<1>5. CASE UNCHANGED storeVars
  BY <1>3, <1>4, <1>5 DEF storeVars
<1>6. CASE SessionStep
  <2>1. CASE ApiComes \/ AccountChanges
    BY <1>3, <1>4, <2>1 DEF ApiComes, AccountChanges
  <2>2. CASE DidCleared
    BY <1>3, <1>4, <2>2, StoreTyped DEF DidCleared
  <2>3. ASSUME NEW who \in Accounts, InstitutionLoaded(who)
        PROVE  StoresInv'
    BY <1>3, <1>4, <2>3, StoreTyped DEF InstitutionLoaded
  <2>4. ASSUME NEW who \in Accounts, NEW status \in {"active", "inactive"},
               DidLoaded(who, status)
        PROVE  StoresInv'
    BY <1>3, <1>4, <2>4, StoreTyped DEF DidLoaded
  <2>5. QED
    BY <1>6, <2>1, <2>2, <2>3, <2>4 DEF SessionStep
<1>7. CASE FormsWriteStores
  BY <1>3, <1>4, <1>7, StoreTyped DEF FormsWriteStores, InstitutionLoaded,
     Addresses
<1>8. QED
  BY <1>1, <1>5, <1>6, <1>7, FormWritesExpected DEF StoresMove

\* Who waits for one extrinsic at most, and goes on waiting at most, still
\* does.
LEMMA WaitingKept ==
  ASSUME NEW page, Kept(page) \/ Deserted(page)
  PROVE  /\ WaitsForOne(page) => WaitsForOne(page)'
         /\ AwaitedBy(page)' # {} => AwaitedBy(page) # {}
         /\ Deserted(page) => AwaitedBy(page)' = {}
BY DEF Kept, Deserted, WaitsForOne, AwaitedBy

\* A page that waits for nothing and sends one waits for that one.
LEMMA SendingWaits ==
  ASSUME ExtrinsicsTyped, NEW page \in Senders, NEW slot \in Slots,
         Sends(page, slot), AwaitedBy(page) = {}
  PROVE  WaitsForOne(page)'
<1>1. \A s \in Slots : Awaits(page, s)' => s = slot \/ Awaits(page, s)
  BY SendingAdds
<1>2. QED
  BY <1>1 DEF WaitsForOne, AwaitedBy

\* The one that fails or is withdrawn is not waited for any more; who waited
\* for it alone waits for nothing.
LEMMA WaitingEnds ==
  ASSUME ExtrinsicsTyped, NEW page \in Senders, NEW slot \in Slots,
         Awaits(page, slot), WaitsForOne(page),
         Fails(slot) \/ Withdraw(slot)
  PROVE  Deserted(page)
<1>1. ~Awaits(page, slot)'
  <2>1. \/ extrinsics'[slot] = None
        \/ extrinsics'[slot] = [extrinsics[slot] EXCEPT !.phase = "unwatched"]
    BY DEF ExtrinsicsTyped, Fails, Withdraw
  <2>2. ~Free(slot)
    BY DEF Awaits, Pending
  <2>3. QED
    BY <2>1, <2>2, ExtrinsicHasType, PhaseChanged
       DEF Awaits, Pending, Free, Phases
<1>2. ExtrinsicsGoOn
  BY FailureGoesOn, ExtrinsicEnds
<1>3. Kept(page)
  BY <1>2, GoingOnKeeps
<1>4. QED
  BY <1>1, <1>3 DEF Kept, Deserted, WaitsForOne, AwaitedBy

\* Only the page on the screen waits.
LEMMA ScreenWaits ==
  ASSUME SiteInv, NEW page, route # Host(page)
  PROVE  AwaitedBy(page) = {}
BY DEF SiteInv, MountedShown, Mounted, AwaitedBy, Awaits, Pending

\* The handlers of the form that only write its state.
LEMMA DidFormTyped ==
  ASSUME DidFormTypeOK, DidFormNext
  PROVE  DidFormTypeOK' /\ didSubmitting' = didSubmitting
<1>1. CASE ConfirmBackup
  BY <1>1, Zenon DEF DidFormTypeOK, ConfirmBackup
<1>2. ASSUME NEW key \in Keys, KeysGenerated(key)
      PROVE  DidFormTypeOK' /\ didSubmitting' = didSubmitting
  BY <1>2, KeysAssumption DEF DidFormTypeOK, KeysGenerated
<1>3. CASE GenerateKeys \/ GeneratingFails \/ StartOver
  BY <1>3 DEF DidFormTypeOK, GenerateKeys, GeneratingFails, StartOver
<1>4. QED
  BY <1>1, <1>2, <1>3 DEF DidFormNext

LEMMA DidFormKept ==
  ASSUME SiteInv, SiteMoves
  PROVE  DidFormInv'
<1>1. /\ DidFormTypeOK
      /\ WaitsForOne("create-did") /\ WaitsForOne("dialog")
      /\ ~didSubmitting =>
           AwaitedBy("create-did") = {} /\ AwaitedBy("dialog") = {}
      /\ ExtrinsicsTyped /\ DidFormMoves
  BY DEF SiteInv, DidFormInv, ExtrinsicsInv, SiteMoves
<1>2. CASE UNCHANGED didFormVars /\ Kept("create-did") /\ Kept("dialog")
  <2>1. DidFormTypeOK' /\ didSubmitting' = didSubmitting
    BY <1>1, <1>2 DEF didFormVars, DidFormTypeOK
  <2>2. QED
    BY <1>1, <1>2, <2>1, WaitingKept DEF DidFormInv
<1>3. ASSUME didSubmitting' = FALSE, DidFormTypeOK',
             AwaitedBy("create-did")' = {}, AwaitedBy("dialog")' = {}
      PROVE  DidFormInv'
  BY <1>3 DEF DidFormInv, WaitsForOne
<1>4. LeaveDidForm => DidFormTypeOK' /\ didSubmitting' = FALSE
  BY DEF LeaveDidForm, DidFormTypeOK
<1>5. CASE LeaveDidForm /\ Deserted("create-did") /\ Deserted("dialog")
  BY <1>3, <1>4, <1>5, WaitingKept
<1>6. CASE DidFormNext /\ UNCHANGED extrinsics
  <2>1. Kept("create-did") /\ Kept("dialog")
    BY <1>1, <1>6, ExtrinsicsRest, GoingOnKeeps DEF Senders
  <2>2. QED
    BY <1>1, <1>6, <2>1, DidFormTyped, WaitingKept DEF DidFormInv
\* The form on the screen is the only one.
<1>7. ASSUME NEW page \in {"create-did", "dialog"}, NEW slot \in Slots,
             route = Host(page), Awaits(page, slot),
             Fails(slot) \/ Withdraw(slot)
      PROVE  AwaitedBy("create-did")' = {} /\ AwaitedBy("dialog")' = {}
  <2>1. PICK other \in {"create-did", "dialog"} :
          {page, other} = {"create-did", "dialog"} /\ route # Host(other)
    BY <1>7 DEF Host
  <2>2. Deserted(page)
    BY <1>1, <1>7, WaitingEnds DEF Senders
  <2>3. Kept(other)
    BY <1>1, <1>7, FailureGoesOn, ExtrinsicEnds, GoingOnKeeps DEF Senders
  <2>4. AwaitedBy(other)' = {}
    BY <2>1, <2>3, ScreenWaits, WaitingKept
  <2>5. QED
    BY <2>1, <2>2, <2>4, WaitingKept
<1>8. ASSUME OnDidForm, NEW slot \in Slots, SubmitDid(slot, DidFormPage)
      PROVE  DidFormInv'
  <2>1. /\ AwaitedBy("create-did") = {} /\ AwaitedBy("dialog") = {}
        /\ didSubmitting' = TRUE /\ DidFormTypeOK'
    BY <1>1, <1>8 DEF SubmitDid, MayCreateDid, DidFormTypeOK
  <2>2. PICK page \in {"create-did", "dialog"} : page = DidFormPage
    BY DEF DidFormPage
  <2>3. Sends(page, slot)
    BY <1>8, <2>2, DidFormSends
  <2>4. WaitsForOne(page)'
    BY <1>1, <2>1, <2>3, SendingWaits DEF Senders
  <2>5. \A other \in {"create-did", "dialog"} \ {page} : Kept(other)
    BY <1>1, <2>3, SendingAdds DEF Senders
  <2>6. WaitsForOne("create-did")' /\ WaitsForOne("dialog")'
    BY <1>1, <2>4, <2>5, WaitingKept
  <2>7. QED
    BY <2>1, <2>6 DEF DidFormInv
<1>9. ASSUME OnDidForm, NEW slot \in Slots, Awaits(DidFormPage, slot),
             CreateDidFails(slot)
      PROVE  DidFormInv'
  <2>1. didSubmitting' = FALSE /\ DidFormTypeOK'
    BY <1>1, <1>9 DEF CreateDidFails, DidFormTypeOK
  <2>2. PICK page \in {"create-did", "dialog"} :
          page = DidFormPage /\ route = Host(page)
    BY <1>9 DEF OnDidForm, DidFormShown, DidFormPage, Host
  <2>3. QED
    BY <1>3, <1>7, <1>9, <2>1, <2>2 DEF CreateDidFails
<1>10. CASE DialogIsGone
  <2>1. AwaitedBy("create-did") = {}
    BY <1>10, ScreenWaits DEF DialogIsGone, Host
  <2>2. AwaitedBy("create-did")' = {} /\ AwaitedBy("dialog")' = {}
    BY <1>10, <2>1, WaitingKept DEF DialogIsGone
  <2>3. QED
    BY <1>3, <1>4, <1>10, <2>2 DEF DialogIsGone
<1>11. QED
  BY <1>1, <1>2, <1>5, <1>6, <1>8, <1>9, <1>10 DEF DidFormMoves, OnDidForm

LEMMA RegKept ==
  ASSUME SiteInv, SiteMoves
  PROVE  RegInv'
<1>1. /\ RegTypeOK /\ WaitsForOne("register")
      /\ ~regSubmitting => AwaitedBy("register") = {}
      /\ ExtrinsicsTyped /\ RegMoves
  BY DEF SiteInv, RegInv, ExtrinsicsInv, SiteMoves
<1>2. CASE UNCHANGED regVars /\ Kept("register")
  <2>1. RegTypeOK' /\ regSubmitting' = regSubmitting
    BY <1>1, <1>2 DEF regVars, RegTypeOK
  <2>2. QED
    BY <1>1, <1>2, <2>1, WaitingKept DEF RegInv
<1>3. CASE LeaveRegistration /\ Deserted("register")
  <2>1. RegTypeOK'
    <3>1. regStep' \in 1..4
      BY <1>3 DEF LeaveRegistration
    <3>2. regSubmitting' \in BOOLEAN
      BY <1>3 DEF LeaveRegistration
    <3>3. QED
      BY <3>1, <3>2 DEF RegTypeOK
  <2>2. AwaitedBy("register")' = {}
    BY <1>3, WaitingKept
  <2>3. QED
    BY <2>1, <2>2 DEF RegInv, WaitsForOne
<1>4. CASE RegFormNext /\ UNCHANGED extrinsics
  <2>1. RegTypeOK' /\ regSubmitting' = regSubmitting
    BY <1>1, <1>4 DEF RegFormNext, RegNextStep, RegPrevStep, RegTypeOK
  <2>2. Kept("register")
    BY <1>1, <1>4, ExtrinsicsRest, GoingOnKeeps DEF Senders
  <2>3. QED
    BY <1>1, <2>1, <2>2, WaitingKept DEF RegInv
<1>5. ASSUME NEW slot \in Slots, SubmitRegistration(slot, "register")
      PROVE  RegInv'
  <2>1. /\ AwaitedBy("register") = {}
        /\ regSubmitting' = TRUE /\ RegTypeOK'
    BY <1>1, <1>5 DEF SubmitRegistration, MayRegister, RegTypeOK
  <2>2. Sends("register", slot)
    BY <1>5, RegistrationSends
  <2>3. WaitsForOne("register")'
    BY <1>1, <2>1, <2>2, SendingWaits DEF Senders
  <2>4. QED
    BY <2>1, <2>3 DEF RegInv
<1>6. ASSUME NEW slot \in Slots, RegistrationEnds(slot)
      PROVE  RegInv'
  <2>1. Fails(slot) \/ Withdraw(slot)
    BY <1>6 DEF RegistrationEnds, Registered, Finalized
  <2>2. CASE extrinsics[slot].mounted
    <3>1. RegTypeOK'
      BY <1>1, <1>6, <2>2 DEF RegistrationEnds, RegistrationSettles, RegTypeOK
    <3>2. Awaits("register", slot)
      BY <1>6, <2>2 DEF RegistrationEnds, Awaits
    <3>3. AwaitedBy("register")' = {}
      BY <1>1, <2>1, <3>2, WaitingEnds, WaitingKept DEF Senders
    <3>4. QED
      BY <3>1, <3>3 DEF RegInv, WaitsForOne
  <2>3. CASE ~extrinsics[slot].mounted
    <3>1. RegTypeOK' /\ regSubmitting' = regSubmitting
      BY <1>1, <1>6, <2>3 DEF RegistrationEnds, regVars, RegTypeOK
    <3>2. Kept("register")
      BY <1>1, <2>1, FailureGoesOn, ExtrinsicEnds, GoingOnKeeps DEF Senders
    <3>3. QED
      BY <1>1, <3>1, <3>2, WaitingKept DEF RegInv
  <2>4. QED
    BY <2>2, <2>3
<1>7. QED
  BY <1>1, <1>2, <1>3, <1>4, <1>5, <1>6 DEF RegMoves, OnRegistration
-----------------------------------------------------------------------------
\* The steps of the form of a credential, by what they write.
Searches ==
  \/ \E who \in Addresses : TypeRecipient(who)
  \/ SearchRecipient \/ RecipientRead \/ RecipientFound

HandlesDocument ==
  \/ \E file \in Hashes :
       UploadDocument(file) \/ DocumentHashed(file) \/ HashingFails(file)
  \/ RemoveDocument

ChangesStep == NextStep \/ PrevStep

Submits ==
  \E slot \in Slots :
    \/ \E expiring \in BOOLEAN : SubmitForm(slot, expiring)
    \/ IssueFails(slot)

LEMMA IssueSteps ==
  ASSUME IssueNext
  PROVE  /\ Searches \/ HandlesDocument \/ ChangesStep \/ Submits
         /\ Searches \/ HandlesDocument \/ ChangesStep =>
              UNCHANGED isSubmitting
         /\ Searches \/ HandlesDocument \/ Submits => step' = step
         /\ Searches \/ ChangesStep \/ Submits => UNCHANGED documentVars
         /\ HandlesDocument \/ Submits => UNCHANGED formVars
         /\ HandlesDocument \/ ChangesStep \/ Submits =>
              UNCHANGED <<recipientDID, recipientInfo, search>>
<1>1. Searches \/ HandlesDocument \/ ChangesStep \/ Submits
  BY DEF IssueNext, IssueFormNext, Searches, HandlesDocument, ChangesStep,
         Submits
<1>2. Searches =>
        UNCHANGED isSubmitting /\ step' = step /\ UNCHANGED documentVars
  BY DEF Searches, TypeRecipient, SearchRecipient, RecipientRead,
         RecipientFound
<1>3. HandlesDocument => UNCHANGED isSubmitting /\ UNCHANGED formVars
  BY DEF HandlesDocument, UploadDocument, DocumentHashed, HashingFails,
         RemoveDocument
<1>4. ChangesStep =>
        /\ UNCHANGED isSubmitting /\ UNCHANGED documentVars
        /\ UNCHANGED <<recipientDID, recipientInfo, search>>
  BY DEF ChangesStep, NextStep, PrevStep
<1>5. Submits => UNCHANGED documentVars /\ UNCHANGED formVars
  BY DEF Submits, SubmitForm, IssueFails, IssueSettles
<1>6. UNCHANGED formVars =>
        step' = step /\ UNCHANGED <<recipientDID, recipientInfo, search>>
  BY DEF formVars
<1>7. QED
  BY <1>1, <1>2, <1>3, <1>4, <1>5, <1>6

\* The types of what the form writes.
FormTyped ==
  /\ step \in 1..5
  /\ recipientDID \in Addresses \cup {None}
  /\ recipientInfo \in
       [name : Addresses \cup {None},
        status : {"active", "inactive", "not_found"}] \cup {None}
  /\ search \in [phase : {"asked", "read"}, who : Addresses,
                 answer : {None, "active", "inactive"}] \cup {None}

DocumentTyped ==
  /\ uploadedDocument \in Hashes \cup {None}
  /\ documentHash \in Hashes \cup {None}
  /\ hashing \subseteq Hashes

LEMMA IssueTypeParts ==
  /\ IssueTypeOK <=> FormTyped /\ DocumentTyped /\ isSubmitting \in BOOLEAN
  /\ IssueTypeOK' <=>
       FormTyped' /\ DocumentTyped' /\ isSubmitting' \in BOOLEAN
BY DEF IssueTypeOK, FormTyped, DocumentTyped

LEMMA DocumentKept ==
  ASSUME DocumentTyped, HandlesDocument \/ UNCHANGED documentVars
  PROVE  DocumentTyped'
BY DEF DocumentTyped, HandlesDocument, UploadDocument, DocumentHashed,
       HashingFails, RemoveDocument, documentVars

LEMMA StepKept ==
  ASSUME step \in 1..5, ChangesStep
  PROVE  step' \in 1..5
BY DEF ChangesStep, NextStep, NextOffered, PrevStep, PrevOffered

LEMMA SubmittingKept ==
  ASSUME isSubmitting \in BOOLEAN, Submits \/ UNCHANGED isSubmitting
  PROVE  isSubmitting' \in BOOLEAN
BY DEF Submits, SubmitForm, IssueFails, IssueSettles

\* What is said of a DID by an answer is so when it is given.
LEMMA AnswerSaid ==
  ASSUME SiteInv, RecipientRead
  PROVE  /\ search' \in [phase : {"asked", "read"}, who : Addresses,
                         answer : {None, "active", "inactive"}]
         /\ search'.who = search.who
         /\ search'.answer = "active" => HasActiveDid(search'.who)
<1>1. search \in [phase : {"asked", "read"}, who : Addresses,
                  answer : {None, "active", "inactive"}]
  BY DEF SiteInv, SearchInv, IssueTypeOK, RecipientRead
<1>2. did \in [Accounts -> DidStatus]
  BY DEF SiteInv, LedgerTypeOK
<1>3. PICK answer \in IF search.who \in Accounts THEN DidAnswers(search.who)
                                                 ELSE {None} :
        search' = [search EXCEPT !.phase = "read", !.answer = answer]
  BY DEF RecipientRead
<1>4. /\ answer \in {None, "active", "inactive"}
      /\ answer = "active" => HasActiveDid(search.who)
  BY <1>2, <1>3, NullAssumption
     DEF DidAnswers, DidStatus, HasActiveDid
<1>5. search'.who = search.who /\ search'.answer = answer
  BY <1>1, <1>3
<1>6. QED
  BY <1>1, <1>3, <1>4, <1>5 DEF HasActiveDid

\* A recipient who is shown as active is the one of the search.
LEMMA FoundSaid ==
  ASSUME SiteInv, search # None, recipientInfo' = RecipientInfo(search)
  PROVE  /\ recipientInfo' \in
              [name : Addresses \cup {None},
               status : {"active", "inactive", "not_found"}]
         /\ RecipientActive' => HasActiveDid(recipientInfo'.name)
<1>1. /\ search \in [phase : {"asked", "read"}, who : Addresses,
                     answer : {None, "active", "inactive"}]
      /\ search.answer = "active" => HasActiveDid(search.who)
  BY DEF SiteInv, SearchInv, IssueTypeOK
<1>2. CASE search.answer = "active"
  BY <1>1, <1>2 DEF RecipientInfo
<1>3. CASE search.answer # "active"
  BY <1>1, <1>3 DEF RecipientInfo, RecipientActive
<1>4. QED
  BY <1>2, <1>3

LEMMA ActiveDidStays ==
  ASSUME LedgerGrows, NEW who, HasActiveDid(who)
  PROVE  HasActiveDid(who)'
BY DEF LedgerGrows, HasActiveDid

\* What a search leaves of its part of the invariant.
FoundInv ==
  /\ search # None /\ search.answer = "active" => HasActiveDid(search.who)
  /\ RecipientActive => HasActiveDid(recipientInfo.name)
  /\ search # None => step = 1
  /\ step > 1 => RecipientActive
  /\ search # None \/ recipientInfo # None => recipientDID \in Addresses

LEMMA FormKept ==
  ASSUME SiteInv, LedgerGrows, Searches \/ ChangesStep
  PROVE  FormTyped' /\ FoundInv'
<1>1. FormTyped /\ FoundInv
  BY IssueTypeParts DEF SiteInv, SearchInv, FoundInv
<1>2. \A who : HasActiveDid(who) => HasActiveDid(who)'
  BY ActiveDidStays
<1>3. ASSUME NEW who \in Addresses, TypeRecipient(who)
      PROVE  FormTyped' /\ FoundInv'
  BY <1>1, <1>2, <1>3
     DEF TypeRecipient, FormTyped, FoundInv, RecipientActive, HasActiveDid
<1>4. CASE SearchRecipient
  <2>1. /\ search' \in [phase : {"asked", "read"}, who : Addresses,
                        answer : {None, "active", "inactive"}]
        /\ search'.answer = None /\ step = 1
        /\ recipientDID \in Addresses
    BY <1>1, <1>4 DEF SearchRecipient, SearchOffered, FormTyped
  <2>2. None # "active"
    BY NullAssumption DEF DidStatus
  <2>3. step' = step /\ UNCHANGED <<recipientDID, recipientInfo>>
    BY <1>4 DEF SearchRecipient
  <2>4. QED
    BY <1>1, <1>2, <2>1, <2>2, <2>3
       DEF FormTyped, FoundInv, RecipientActive, HasActiveDid
<1>5. CASE RecipientRead
  <2>1. /\ search # None
        /\ step' = step /\ UNCHANGED <<recipientDID, recipientInfo>>
    BY <1>5 DEF RecipientRead
  <2>2. /\ search' \in [phase : {"asked", "read"}, who : Addresses,
                        answer : {None, "active", "inactive"}]
        /\ search'.answer = "active" => HasActiveDid(search'.who)
    BY <1>5, AnswerSaid
  <2>3. search'.answer = "active" => HasActiveDid(search.who)'
    BY <1>2, <2>2 DEF HasActiveDid
  <2>4. QED
    BY <1>1, <1>2, <2>1, <2>2, <2>3
       DEF FormTyped, FoundInv, RecipientActive, HasActiveDid
<1>6. CASE RecipientFound
  <2>1. /\ search # None /\ search' = None
        /\ step' = step /\ UNCHANGED recipientDID
        /\ recipientInfo' = RecipientInfo(search)
    BY <1>6 DEF RecipientFound
  <2>2. /\ recipientInfo' \in
             [name : Addresses \cup {None},
              status : {"active", "inactive", "not_found"}]
        /\ RecipientActive' => HasActiveDid(recipientInfo'.name)
    BY <2>1, FoundSaid
  <2>3. step = 1 /\ recipientDID \in Addresses
    BY <1>1, <2>1 DEF FoundInv
  <2>4. QED
    BY <1>1, <1>2, <2>1, <2>2, <2>3 DEF FormTyped, FoundInv, HasActiveDid
<1>7. CASE ChangesStep
  <2>1. step' \in 1..5
    BY <1>1, <1>7, StepKept DEF FormTyped
  <2>2. UNCHANGED <<recipientDID, recipientInfo, search>>
    BY <1>7 DEF ChangesStep, NextStep, PrevStep
  <2>3. search = None /\ (step' > 1 => RecipientActive)
    BY <1>1, <1>7
       DEF ChangesStep, NextStep, NextOffered, StepComplete, PrevStep,
           PrevOffered, FoundInv, FormTyped
  <2>4. QED
    BY <1>1, <1>2, <2>1, <2>2, <2>3
       DEF FormTyped, FoundInv, RecipientActive, HasActiveDid
<1>8. QED
  BY <1>3, <1>4, <1>5, <1>6, <1>7 DEF Searches

LEMMA SearchKept ==
  ASSUME SiteInv, SiteMoves
  PROVE  SearchInv'
<1>1. /\ FormTyped /\ FoundInv
      /\ DocumentTyped /\ isSubmitting \in BOOLEAN
  BY IssueTypeParts DEF SiteInv, SearchInv, FoundInv
<1>2. LedgerGrows /\ IssueMoves
  BY DEF SiteMoves, ChainMoves
<1>3. ASSUME UNCHANGED formVars
      PROVE  FormTyped' /\ FoundInv'
  <2>1. \A who : HasActiveDid(who) => HasActiveDid(who)'
    BY <1>2, ActiveDidStays
  <2>2. QED
    BY <1>1, <1>3, <2>1
       DEF formVars, FormTyped, FoundInv, RecipientActive, HasActiveDid
<1>4. ASSUME FormTyped', FoundInv', DocumentTyped', isSubmitting' \in BOOLEAN
      PROVE  SearchInv'
  BY <1>4, IssueTypeParts DEF SearchInv, FoundInv
<1>5. CASE UNCHANGED issueVars
  <2>1. /\ UNCHANGED formVars /\ UNCHANGED documentVars
        /\ UNCHANGED isSubmitting
    BY <1>5 DEF issueVars, formVars, documentVars
  <2>2. QED
    BY <1>1, <1>3, <1>4, <2>1, DocumentKept, SubmittingKept
<1>6. CASE LeaveIssue
  <2>1. FormTyped' /\ FoundInv'
    BY <1>6 DEF LeaveIssue, FormTyped, FoundInv, RecipientActive
  <2>2. DocumentTyped'
    BY <1>6 DEF LeaveIssue, DocumentTyped
  <2>3. isSubmitting' \in BOOLEAN
    BY <1>6 DEF LeaveIssue
  <2>4. QED
    BY <1>4, <2>1, <2>2, <2>3
<1>7. CASE IssueNext
  <2>1. FormTyped' /\ FoundInv'
    BY <1>2, <1>3, <1>7, IssueSteps, FormKept
  <2>2. DocumentTyped' /\ isSubmitting' \in BOOLEAN
    BY <1>1, <1>7, IssueSteps, DocumentKept, SubmittingKept
  <2>3. QED
    BY <1>4, <2>1, <2>2
<1>8. QED
  BY <1>2, <1>5, <1>6, <1>7 DEF IssueMoves, OnIssue

LEMMA SubmitKept ==
  ASSUME SiteInv, SiteMoves
  PROVE  SubmitInv'
<1>1. /\ FormTyped /\ DocumentTyped
      /\ SubmitInv /\ ExtrinsicsTyped
  BY IssueTypeParts DEF SiteInv, SearchInv, ExtrinsicsInv
<1>2. /\ IssueMoves
      /\ AwaitedBy("issue") # {} => isSubmitting /\ step = 5
  BY <1>1 DEF SiteMoves, SubmitInv
<1>3. CASE UNCHANGED issueVars /\ Kept("issue")
  BY <1>1, <1>3, WaitingKept DEF issueVars, SubmitInv
<1>4. CASE LeaveIssue /\ Deserted("issue")
  <2>1. AwaitedBy("issue")' = {} /\ step' = 1
    BY <1>4, WaitingKept DEF LeaveIssue
  <2>2. QED
    BY <2>1 DEF SubmitInv, WaitsForOne
<1>5. CASE IssueNext /\ IssueFormNext /\ UNCHANGED extrinsics
  <2>1. Kept("issue")
    BY <1>1, <1>5, ExtrinsicsRest, GoingOnKeeps DEF Senders
  <2>2. /\ WaitsForOne("issue")'
        /\ AwaitedBy("issue")' # {} => AwaitedBy("issue") # {}
    BY <1>1, <2>1, WaitingKept DEF SubmitInv
  <2>3. CASE Searches
    BY <1>1, <1>2, <1>5, <2>2, <2>3, IssueSteps
       DEF SubmitInv, documentVars
  <2>4. CASE HandlesDocument
    <3>1. step' = 5 => documentHash' # None
      BY <1>1, <1>5, <2>4, IssueSteps, NullAssumption
         DEF SubmitInv, HandlesDocument, UploadDocument, DocumentHashed,
             HashingFails, RemoveDocument, RemovalOffered
    <3>2. QED
      BY <1>1, <1>2, <1>5, <2>2, <2>4, <3>1, IssueSteps DEF SubmitInv
  <2>5. CASE ChangesStep
    <3>1. /\ AwaitedBy("issue") = {}
          /\ step' = 5 => documentHash # None
      BY <1>1, <1>2, <2>5
         DEF ChangesStep, NextStep, NextOffered, StepComplete, PrevStep,
             PrevOffered, FormTyped
    <3>2. QED
      BY <1>1, <1>5, <2>2, <2>5, <3>1, IssueSteps
         DEF SubmitInv, documentVars
  <2>6. QED
    BY <1>5, <2>3, <2>4, <2>5
       DEF IssueFormNext, Searches, HandlesDocument, ChangesStep
<1>6. ASSUME NEW slot \in Slots, NEW expiring \in BOOLEAN,
             SubmitForm(slot, expiring)
      PROVE  SubmitInv'
  <2>1. AwaitedBy("issue") = {} /\ step = 5
    BY <1>2, <1>6 DEF SubmitForm, MaySubmit
  <2>2. WaitsForOne("issue")'
    BY <1>1, <1>6, <2>1, IssueSends, SendingWaits DEF Senders
  <2>3. QED
    BY <1>1, <1>6, <2>1, <2>2
       DEF SubmitForm, SubmitInv, formVars, documentVars
<1>7. ASSUME NEW slot \in Slots, IssueFails(slot)
      PROVE  SubmitInv'
  <2>1. AwaitedBy("issue")' = {}
    BY <1>1, <1>7, WaitingEnds, WaitingKept
       DEF IssueFails, IssueSettles, PreparationFails, SubmitInv, Senders
  <2>2. QED
    BY <1>1, <1>7, <2>1
       DEF IssueFails, IssueSettles, SubmitInv, WaitsForOne, formVars,
           documentVars
<1>8. QED
  BY <1>2, <1>3, <1>4, <1>5, <1>6, <1>7 DEF IssueMoves, OnIssue, IssueNext
-----------------------------------------------------------------------------
\* What a query of the credentials of an account answers is so.
LEMMA AnswersSaid ==
  ASSUME LedgerTypeOK, NEW who,
         NEW answer \in CredentialsByHolderAnswers(who)
                          \cup CredentialsByIssuerAnswers(who)
  PROVE  \A credential \in answer : SaidByChain(credential)
<1>1. ASSUME NEW credential \in answer
      PROVE  SaidByChain(credential)
  <2>1. PICK hash \in Hashes :
          Certified(hash) /\ credential = FormatCredentialData(hash)
    BY DEF CredentialsByHolderAnswers, CredentialsByIssuerAnswers
  <2>2. QED
    BY <2>1, FormattedSaid
<1>2. QED
  BY <1>1

LEMMA EntryStays ==
  ASSUME LedgerGrows, NEW entry, EntrySaid(entry)
  PROVE  EntrySaid(entry)'
BY DEF LedgerGrows, EntrySaid, IssuedEntry, Certified

LEMMA FormattedEntrySaid ==
  ASSUME NEW credential, SaidByChain(credential)
  PROVE  EntrySaid(Formatted(credential))
BY DEF SaidByChain, FormattedCredential, EntrySaid, IssuedEntry, Formatted

\* An entry that is marked after its revocation is final.
LEMMA MarkedSaid ==
  ASSUME NEW hash, Certified(hash), certificate[hash].revoked,
         \A entry \in issued : EntrySaid(entry)
  PROVE  \A entry \in MarkedRevoked(hash) : EntrySaid(entry)
<1>1. ASSUME NEW entry \in issued, entry.hash = hash,
             NEW marked, marked = [entry EXCEPT !.status = "revoked"]
      PROVE  EntrySaid(marked)
  <2>1. entry \in IssuedEntry /\ EntrySaid(entry)
    BY DEF EntrySaid
  <2>2. /\ marked \in IssuedEntry
        /\ marked.hash = entry.hash /\ marked.holder = entry.holder
    BY <1>1, <2>1 DEF IssuedEntry
  <2>3. QED
    BY <1>1, <2>1, <2>2 DEF EntrySaid
<1>2. QED
  BY <1>1 DEF MarkedRevoked

IssuedFetch ==
  [phase : {"asked", "read"}, did : Addresses, answer : SUBSET IssuedEntry,
   refresh : BOOLEAN]

\* The parts of IssuedInv: what is shown, what was asked, and the controls.
IssuedShows ==
  /\ \A entry \in issued : EntrySaid(entry)
  /\ selected # None => EntrySaid(selected)

IssuedAsks ==
  /\ issuedFetches \in [Fetches -> IssuedFetch \cup {None}]
  /\ \A fetch \in Fetches : issuedFetches[fetch] # None =>
       \A entry \in issuedFetches[fetch].answer : EntrySaid(entry)

IssuedControls ==
  /\ loading \in BOOLEAN /\ refreshing \in BOOLEAN
  /\ revoking \in Hashes \cup {None}

LEMMA IssuedParts ==
  /\ IssuedInv => IssuedShows /\ IssuedAsks /\ IssuedControls
  /\ IssuedShows' /\ IssuedAsks' /\ IssuedControls' => IssuedInv'
BY DEF IssuedInv, IssuedTypeOK, IssuedShows, IssuedAsks, IssuedControls,
       EntrySaid, IssuedFetch

LEMMA IssuedShowsKept ==
  ASSUME SiteInv, LedgerGrows, IssuedNext \/ UNCHANGED <<issued, selected>>
  PROVE  IssuedShows'
<1>1. IssuedShows /\ IssuedAsks /\ ExtrinsicsInv
  BY IssuedParts DEF SiteInv
<1>2. \A entry : EntrySaid(entry) => EntrySaid(entry)'
  BY EntryStays
<1>3. ASSUME \A entry \in issued' : EntrySaid(entry),
             selected' # None => EntrySaid(selected')
      PROVE  IssuedShows'
  <2>1. /\ \A entry \in issued' : EntrySaid(entry)'
        /\ selected' # None =>
             \A entry : entry = selected' => EntrySaid(entry)'
    BY <1>2, <1>3
  <2>2. QED
    BY <2>1 DEF IssuedShows, EntrySaid, Certified
<1>4. CASE UNCHANGED <<issued, selected>>
  BY <1>1, <1>3, <1>4 DEF IssuedShows
<1>5. CASE \/ \E fetch \in Fetches : IssuedRead(fetch)
           \/ \E status : SelectFilter(status)
           \/ IssuedEffect \/ RefreshIssued
           \/ \E slot \in Slots : RevokeFails(slot)
           \/ \E entry, slot : RevokeListed(entry, slot)
  BY <1>4, <1>5 DEF IssuedRead, SelectFilter, IssuedEffect, RefreshIssued,
                    RevokeFails, RevokeListed
<1>6. ASSUME NEW fetch \in Fetches, IssuedFetched(fetch)
      PROVE  IssuedShows'
  BY <1>1, <1>3, <1>6 DEF IssuedFetched, IssuedShows, IssuedAsks
<1>7. ASSUME NEW entry \in issued, OpenDetails(entry)
      PROVE  IssuedShows'
  BY <1>1, <1>3, <1>7 DEF OpenDetails, IssuedShows
<1>8. CASE CloseDetails \/ \E slot \in Slots : RevokeSelected(slot)
  BY <1>1, <1>3, <1>8 DEF CloseDetails, RevokeSelected, IssuedShows
<1>9. ASSUME NEW slot \in Slots, RevokeSucceeds(slot)
      PROVE  IssuedShows'
  <2> DEFINE hash == extrinsics[slot].call.hash
  <2>1. InPhase(slot, "block") /\ Awaits("issued", slot)
    BY <1>9 DEF RevokeSucceeds, Finalized
  <2>2. extrinsics[slot].call.name = "revokeCredential"
    BY <1>1, <2>1, ExtrinsicHasType
       DEF ExtrinsicsInv, Awaits, Pending, SentFrom
  <2>3. Certified(hash) /\ certificate[hash].revoked
    BY <1>1, <2>1, <2>2 DEF ExtrinsicsInv, TakesEffectOnce, EffectStands
  <2>4. issued' = MarkedRevoked(hash) /\ selected' = selected
    BY <1>9 DEF RevokeSucceeds
  <2>5. QED
    BY <1>1, <1>3, <2>3, <2>4, MarkedSaid DEF IssuedShows
<1>10. QED
  BY <1>4, <1>5, <1>6, <1>7, <1>8, <1>9 DEF IssuedNext, IssuedPageNext

\* The answer of a query, while the chain goes on.
LEMMA IssuedAsksKept ==
  ASSUME SiteInv, LedgerGrows, IssuedNext \/ UNCHANGED issuedFetches
  PROVE  IssuedAsks'
<1>1. IssuedAsks /\ LedgerTypeOK /\ StoresInv
  BY IssuedParts DEF SiteInv
<1>2. \A entry : EntrySaid(entry) => EntrySaid(entry)'
  BY EntryStays
<1>3. ASSUME issuedFetches' \in [Fetches -> IssuedFetch \cup {None}],
             \A fetch \in Fetches : issuedFetches'[fetch] # None =>
               \A entry \in issuedFetches'[fetch].answer : EntrySaid(entry)
      PROVE  IssuedAsks'
  <2>1. ASSUME NEW fetch \in Fetches, issuedFetches'[fetch] # None,
               NEW entry \in issuedFetches'[fetch].answer
        PROVE  EntrySaid(entry)'
    BY <1>2, <1>3, <2>1
  <2>2. QED
    BY <1>3, <2>1 DEF IssuedAsks, EntrySaid, Certified
<1>4. CASE UNCHANGED issuedFetches
  BY <1>1, <1>3, <1>4 DEF IssuedAsks
<1>5. ASSUME NEW fetch \in Fetches,
             NEW asked \in IssuedFetch \cup {None},
             issuedFetches' = [issuedFetches EXCEPT ![fetch] = asked],
             asked # None => \A entry \in asked.answer : EntrySaid(entry)
      PROVE  IssuedAsks'
  <2>1. /\ issuedFetches' \in [Fetches -> IssuedFetch \cup {None}]
        /\ \A f \in Fetches :
             issuedFetches'[f] = IF f = fetch THEN asked ELSE issuedFetches[f]
    BY <1>1, <1>5 DEF IssuedAsks
  <2>2. QED
    BY <1>1, <1>3, <1>5, <2>1 DEF IssuedAsks
<1>6. ASSUME NEW refresh \in BOOLEAN, HasDid, StartIssuedFetch(refresh)
      PROVE  IssuedAsks'
  <2> DEFINE asked == [phase |-> "asked", did |-> didStore.did, answer |-> {},
                       refresh |-> refresh]
  <2>1. didStore.did \in Addresses
    BY <1>1, <1>6 DEF StoresInv, DidStore, HasDid
  <2>2. asked \in IssuedFetch /\ asked.answer = {}
    BY <2>1 DEF IssuedFetch
  <2>3. PICK fetch \in Fetches :
          issuedFetches' = [issuedFetches EXCEPT ![fetch] = asked]
    BY <1>6 DEF StartIssuedFetch
  <2> HIDE DEF asked
  <2>4. QED
    BY <1>5, <2>2, <2>3
<1>7. ASSUME NEW fetch \in Fetches, IssuedRead(fetch)
      PROVE  IssuedAsks'
  <2>1. PICK answer \in
               IF issuedFetches[fetch].did \in Accounts
               THEN CredentialsByIssuerAnswers(issuedFetches[fetch].did)
               ELSE {{}} :
          issuedFetches' = [issuedFetches EXCEPT
            ![fetch].phase = "read",
            ![fetch].answer = {Formatted(credential) : credential \in answer}]
    BY <1>7 DEF IssuedRead
  <2>2. \A credential \in answer : SaidByChain(credential)
    BY <1>1, AnswersSaid
  <2> DEFINE entries == {Formatted(credential) : credential \in answer}
             read == [issuedFetches[fetch] EXCEPT !.phase = "read",
                                                  !.answer = entries]
  <2>3. \A entry \in entries : EntrySaid(entry)
    BY <2>2, FormattedEntrySaid
  <2>4. issuedFetches' = [issuedFetches EXCEPT ![fetch] = read]
    BY <2>1
  <2>5. issuedFetches[fetch] \in IssuedFetch
    BY <1>1, <1>7 DEF IssuedAsks, IssuedRead
  <2>6. entries \in SUBSET IssuedEntry
    BY <2>3 DEF EntrySaid
  <2> HIDE DEF entries
  <2>7. read \in IssuedFetch /\ read.answer = entries
    BY <2>5, <2>6 DEF IssuedFetch
  <2> HIDE DEF read
  <2>8. QED
    BY <1>5, <2>3, <2>4, <2>7
<1>8. ASSUME NEW fetch \in Fetches, IssuedFetched(fetch)
      PROVE  IssuedAsks'
  BY <1>5, <1>8 DEF IssuedFetched
<1>9. QED
  BY <1>4, <1>6, <1>7, <1>8
     DEF IssuedNext, IssuedPageNext, IssuedEffect, RefreshIssued,
         SelectFilter, OpenDetails, CloseDetails, RevokeListed,
         RevokeSelected, RevokeSucceeds, RevokeFails

LEMMA IssuedControlsKept ==
  ASSUME SiteInv, IssuedNext
  PROVE  IssuedControls'
<1>1. /\ loading \in BOOLEAN /\ refreshing \in BOOLEAN
      /\ revoking \in Hashes \cup {None}
      /\ issued \subseteq IssuedEntry
      /\ selected \in IssuedEntry \cup {None}
  BY DEF SiteInv, IssuedInv, IssuedTypeOK
<1>2. loading' \in BOOLEAN
  BY <1>1
     DEF IssuedNext, IssuedPageNext, IssuedEffect, RefreshIssued, IssuedRead,
         IssuedFetched, SelectFilter, OpenDetails, CloseDetails,
         RevokeListed, RevokeSelected, RevokeSucceeds, RevokeFails
<1>3. refreshing' \in BOOLEAN
  <2>1. CASE \E fetch \in Fetches : IssuedFetched(fetch)
    BY <2>1, Zenon DEF IssuedFetched
  <2>2. CASE ~\E fetch \in Fetches : IssuedFetched(fetch)
    BY <1>1, <2>2
       DEF IssuedNext, IssuedPageNext, IssuedEffect, RefreshIssued,
           IssuedRead, SelectFilter, OpenDetails, CloseDetails, RevokeListed,
           RevokeSelected, RevokeSucceeds, RevokeFails
  <2>3. QED
    BY <2>1, <2>2
<1>4. revoking' \in Hashes \cup {None}
  BY <1>1
     DEF IssuedNext, IssuedPageNext, IssuedEffect, RefreshIssued, IssuedRead,
         IssuedFetched, SelectFilter, OpenDetails, CloseDetails, RevokeListed,
         RevokeSelected, RevokeSucceeds, RevokeFails, HandleRevoke,
         IssuedEntry
<1>5. QED
  BY <1>2, <1>3, <1>4 DEF IssuedControls

LEMMA IssuedKept ==
  ASSUME SiteInv, SiteMoves
  PROVE  IssuedInv'
<1>1. /\ IssuedShows /\ IssuedAsks /\ IssuedControls /\ LedgerGrows
      /\ UNCHANGED issuedVars \/ LeaveIssued \/ IssuedNext
  BY IssuedParts DEF SiteInv, SiteMoves, ChainMoves, ListsMove
<1>2. CASE UNCHANGED issuedVars
  <2>1. IssuedControls'
    BY <1>1, <1>2 DEF issuedVars, IssuedControls
  <2>2. UNCHANGED <<issued, selected>> /\ UNCHANGED issuedFetches
    BY <1>2 DEF issuedVars
  <2>3. QED
    BY <1>1, <2>1, <2>2, IssuedShowsKept, IssuedAsksKept, IssuedParts
<1>3. CASE LeaveIssued
  <2>1. IssuedShows'
    BY <1>3 DEF LeaveIssued, IssuedShows
  <2>2. IssuedAsks'
    BY <1>3 DEF LeaveIssued, IssuedAsks
  <2>3. loading' \in BOOLEAN /\ refreshing' \in BOOLEAN
    BY <1>3 DEF LeaveIssued
  <2>4. IssuedControls'
    BY <1>3, <2>3 DEF LeaveIssued, IssuedControls
  <2>5. QED
    BY <2>1, <2>2, <2>4, IssuedParts
<1>4. CASE IssuedNext
  BY <1>1, <1>4, IssuedShowsKept, IssuedAsksKept, IssuedControlsKept,
     IssuedParts
<1>5. QED
  BY <1>1, <1>2, <1>3, <1>4
-----------------------------------------------------------------------------
\* The list of the holder: its fetches go on when the page is left, and what
\* they found stays so.
LEMMA ListedStays ==
  ASSUME LedgerGrows, NEW credential, NEW source,
         ListedFor(credential, source)
  PROVE  ListedFor(credential, source)'
BY SaidStays DEF ListedFor, SaidByChain, Certified

LEMMA RevokedStays ==
  ASSUME LedgerGrows
  PROVE  RevokedOnChain \subseteq RevokedOnChain'
BY DEF LedgerGrows, RevokedOnChain, Certified

\* A query answers with credentials of the holder it was for, and with what is
\* revoked by then as revoked.
LEMMA HolderAnswerListed ==
  ASSUME LedgerTypeOK, NEW fetch \in ListFetch,
         fetch.revokedThen \subseteq RevokedOnChain,
         NEW answer \in CredentialsByHolderAnswers(fetch.did),
         NEW credential \in answer
  PROVE  ListedFor(credential, fetch)
<1>1. PICK hash \in Hashes :
        /\ Certified(hash) /\ certificate[hash].holder = fetch.did
        /\ credential = FormatCredentialData(hash)
  BY DEF CredentialsByHolderAnswers
<1>2. /\ SaidByChain(credential)
      /\ credential.revoked = certificate[hash].revoked
  BY <1>1, FormattedSaid
<1>3. credential.holder = fetch.did /\ credential.hash = hash
  BY <1>1 DEF FormatCredentialData
<1>4. hash \in fetch.revokedThen => certificate[hash].revoked
  BY DEF RevokedOnChain
<1>5. credential.hash \in fetch.revokedThen => credential.revoked
  BY <1>2, <1>3, <1>4
<1>6. QED
  BY <1>2, <1>3, <1>5 DEF ListedFor

\* What a fetch holds at any time is right.
FetchRight(fetch) ==
  fetch # None =>
    /\ fetch.revokedThen \subseteq RevokedOnChain
    /\ \A credential \in fetch.answer : ListedFor(credential, fetch)

LEMMA ListAsksParts ==
  ListAsks <=>
    /\ listFetches \in [ListFetches -> ListFetch \cup {None}]
    /\ \A fetch \in ListFetches : FetchRight(listFetches[fetch])
BY DEF ListAsks, FetchRight

LEMMA ListAsksKept ==
  ASSUME SiteInv, LedgerGrows,
         \/ UNCHANGED listVars \/ LeaveCredentials \/ CredentialsNext
  PROVE  ListAsks'
<1>1. /\ listFetches \in [ListFetches -> ListFetch \cup {None}]
      /\ \A fetch \in ListFetches : FetchRight(listFetches[fetch])
      /\ LedgerTypeOK /\ StoresInv
  BY ListAsksParts DEF SiteInv, ListInv
<1>2. ASSUME listFetches' \in [ListFetches -> ListFetch \cup {None}],
             \A fetch \in ListFetches : FetchRight(listFetches'[fetch])
      PROVE  ListAsks'
  <2>1. ASSUME NEW fetch \in ListFetches, listFetches'[fetch] # None
        PROVE  /\ listFetches'[fetch].revokedThen \subseteq RevokedOnChain'
               /\ \A credential \in listFetches'[fetch].answer :
                    ListedFor(credential, listFetches[fetch])'
    <3>1. PICK f : f = listFetches'[fetch]
      OBVIOUS
    <3>2. FetchRight(f)
      BY <1>2, <3>1
    <3>3. /\ f.revokedThen \subseteq RevokedOnChain'
          /\ \A credential \in f.answer : ListedFor(credential, f)'
      BY <2>1, <3>1, <3>2, RevokedStays, ListedStays DEF FetchRight
    <3>4. QED
      BY <3>1, <3>3 DEF ListedFor
  <2>2. QED
    BY <1>2, <2>1 DEF ListAsks
<1>3. CASE UNCHANGED listFetches
  BY <1>1, <1>2, <1>3
<1>4. ASSUME NEW fetch \in ListFetches,
             NEW asked \in ListFetch \cup {None}, FetchRight(asked),
             listFetches' = [listFetches EXCEPT ![fetch] = asked]
      PROVE  ListAsks'
  <2>1. /\ listFetches' \in [ListFetches -> ListFetch \cup {None}]
        /\ \A f \in ListFetches :
             listFetches'[f] = IF f = fetch THEN asked ELSE listFetches[f]
    BY <1>1, <1>4
  <2>2. QED
    BY <1>1, <1>2, <1>4, <2>1
<1>5. ASSUME NEW refresh \in BOOLEAN, HasDid, StartListFetch(refresh)
      PROVE  ListAsks'
  <2> DEFINE asked == [phase |-> "asked", did |-> didStore.did, answer |-> {},
                       refresh |-> refresh, revokedThen |-> RevokedOnChain]
  <2>1. didStore.did \in Addresses /\ RevokedOnChain \subseteq Hashes
    BY <1>1, <1>5 DEF StoresInv, DidStore, HasDid, RevokedOnChain
  <2>2. /\ asked \in ListFetch /\ asked.answer = {}
        /\ asked.revokedThen = RevokedOnChain
    BY <2>1 DEF ListFetch
  <2>3. PICK fetch \in ListFetches :
          listFetches' = [listFetches EXCEPT ![fetch] = asked]
    BY <1>5 DEF StartListFetch
  <2> HIDE DEF asked
  <2>4. FetchRight(asked)
    BY <2>2 DEF FetchRight
  <2>5. QED
    BY <1>4, <2>2, <2>3, <2>4
<1>6. ASSUME NEW fetch \in ListFetches, ListRead(fetch)
      PROVE  ListAsks'
  <2>1. PICK answer \in
               IF listFetches[fetch].did \in Accounts
               THEN CredentialsByHolderAnswers(listFetches[fetch].did)
               ELSE {{}} :
          listFetches' = [listFetches EXCEPT ![fetch].phase = "read",
                                             ![fetch].answer = answer]
    BY <1>6 DEF ListRead
  <2>2. /\ listFetches[fetch] \in ListFetch /\ listFetches[fetch] # None
        /\ FetchRight(listFetches[fetch])
    BY <1>1, <1>6 DEF ListRead
  <2>3. \A credential \in answer : ListedFor(credential, listFetches[fetch])
    BY <1>1, <2>1, <2>2, HolderAnswerListed DEF FetchRight
  <2> DEFINE read == [listFetches[fetch] EXCEPT !.phase = "read",
                                                !.answer = answer]
  <2>4. listFetches' = [listFetches EXCEPT ![fetch] = read]
    BY <2>1
  <2>5. answer \in SUBSET FormattedCredential
    BY <2>3 DEF ListedFor, SaidByChain
  <2>6. /\ read \in ListFetch /\ read.answer = answer
        /\ read.did = listFetches[fetch].did
        /\ read.revokedThen = listFetches[fetch].revokedThen
    BY <2>2, <2>5 DEF ListFetch
  <2> HIDE DEF read
  <2>7. FetchRight(read)
    BY <2>2, <2>3, <2>6 DEF FetchRight, ListedFor
  <2>8. QED
    BY <1>4, <2>4, <2>6, <2>7
<1>7. ASSUME NEW fetch \in ListFetches, ListFetched(fetch)
      PROVE  ListAsks'
  BY <1>4, <1>7 DEF ListFetched, FetchRight
<1>8. CASE LeaveCredentials
  <2>1. ASSUME NEW fetch \in ListFetches
        PROVE  /\ listFetches'[fetch] \in ListFetch \cup {None}
               /\ FetchRight(listFetches'[fetch])
    <3>1. listFetches'[fetch] =
            IF listFetches[fetch] = None THEN None
            ELSE [listFetches[fetch] EXCEPT !.refresh = FALSE]
      BY <1>8 DEF LeaveCredentials
    <3>2. CASE listFetches[fetch] = None
      BY <3>1, <3>2 DEF FetchRight
    <3>3. CASE listFetches[fetch] # None
      <4>1. listFetches[fetch] \in ListFetch
        BY <1>1, <3>3
      <4>2. PICK f : f = [listFetches[fetch] EXCEPT !.refresh = FALSE]
        OBVIOUS
      <4>3. /\ f \in ListFetch /\ f.answer = listFetches[fetch].answer
            /\ f.did = listFetches[fetch].did
            /\ f.revokedThen = listFetches[fetch].revokedThen
        BY <4>1, <4>2 DEF ListFetch
      <4>4. FetchRight(f)
        BY <1>1, <3>3, <4>3 DEF FetchRight, ListedFor
      <4>5. QED
        BY <3>1, <3>3, <4>2, <4>3, <4>4
    <3>4. QED
      BY <3>2, <3>3
  <2>2. listFetches' \in [ListFetches -> ListFetch \cup {None}]
    BY <1>8, <2>1 DEF LeaveCredentials
  <2>3. QED
    BY <1>2, <2>1, <2>2
<1>9. QED
  BY <1>3, <1>5, <1>6, <1>7, <1>8
     DEF CredentialsNext, CredentialsEffect, RefreshCredentials,
         CredentialsShown, SelectStatus, listVars

LEMMA ListKept ==
  ASSUME SiteInv, SiteMoves
  PROVE  ListInv'
<1>1. /\ LedgerGrows /\ ListAsks
      /\ \A credential \in credentials : ListedFor(credential, listSource)
      /\ UNCHANGED listVars \/ LeaveCredentials \/ CredentialsNext
  BY DEF SiteInv, SiteMoves, ChainMoves, ListsMove, ListInv
<1>2. ListAsks'
  BY <1>1, ListAsksKept DEF SiteInv
<1>3. \A credential \in credentials' : ListedFor(credential, listSource')
  <2>1. CASE UNCHANGED <<credentials, listSource>>
    BY <1>1, <2>1
  <2>2. ASSUME NEW fetch \in ListFetches, ListFetched(fetch)
        PROVE  \A credential \in credentials' :
                 ListedFor(credential, listSource')
    <3>1. /\ credentials' = listFetches[fetch].answer
          /\ listSource'.did = listFetches[fetch].did
          /\ listSource'.revokedThen = listFetches[fetch].revokedThen
      BY <2>2 DEF ListFetched, SourceOf
    <3>2. \A credential \in listFetches[fetch].answer :
            ListedFor(credential, listFetches[fetch])
      BY <1>1, <2>2 DEF ListAsks, ListFetched
    <3>3. QED
      BY <3>1, <3>2 DEF ListedFor
  <2>3. QED
    BY <1>1, <2>1, <2>2
       DEF CredentialsNext, CredentialsEffect, RefreshCredentials, ListRead,
           SelectStatus, LeaveCredentials, listVars, credentialsStoreVars
<1>4. \A credential \in credentials' : ListedFor(credential, listSource)'
  <2>1. PICK source : source = listSource'
    OBVIOUS
  <2>2. \A credential \in credentials' : ListedFor(credential, source)'
    BY <1>1, <1>3, <2>1, ListedStays
  <2>3. QED
    BY <2>1, <2>2 DEF ListedFor
<1>5. QED
  BY <1>2, <1>4 DEF ListInv
-----------------------------------------------------------------------------
LEMMA KnownStays ==
  ASSUME LedgerGrows, NEW who, Known(who)
  PROVE  Known(who)'
BY DEF LedgerGrows, Known

\* A fetch that has read of an institution is for one that the chain knows.
ReadsKnown(fetch) ==
  fetch # None /\ fetch.phase = "read" /\ fetch.answer # "none" =>
    Known(fetch.did)

ProfileAsks ==
  /\ profileFetches \in [ProfileFetches -> ProfileFetch \cup {None}]
  /\ \A fetch \in ProfileFetches : ReadsKnown(profileFetches[fetch])

LEMMA ProfileAsksKept ==
  ASSUME SiteInv, LedgerGrows,
         \/ UNCHANGED profileVars \/ LeaveProfile \/ ProfileNext
  PROVE  ProfileAsks'
<1>1. ProfileAsks /\ LedgerTypeOK /\ StoresInv
  BY DEF SiteInv, ProfileInv, ProfileAsks, ReadsKnown, InFetch
<1>2. \A who : Known(who) => Known(who)'
  BY KnownStays
<1>3. ASSUME profileFetches' \in [ProfileFetches -> ProfileFetch \cup {None}],
             \A fetch \in ProfileFetches : ReadsKnown(profileFetches'[fetch])
      PROVE  ProfileAsks'
  BY <1>2, <1>3 DEF ProfileAsks, ReadsKnown, Known
<1>4. CASE UNCHANGED profileFetches
  BY <1>1, <1>3, <1>4 DEF ProfileAsks
<1>5. ASSUME NEW fetch \in ProfileFetches,
             NEW asked \in ProfileFetch \cup {None},
             profileFetches' = [profileFetches EXCEPT ![fetch] = asked],
             ReadsKnown(asked)
      PROVE  ProfileAsks'
  <2>1. /\ profileFetches' \in [ProfileFetches -> ProfileFetch \cup {None}]
        /\ \A f \in ProfileFetches :
             profileFetches'[f] = IF f = fetch THEN asked
                                  ELSE profileFetches[f]
    BY <1>1, <1>5 DEF ProfileAsks
  <2>2. QED
    BY <1>1, <1>3, <1>5, <2>1 DEF ProfileAsks
<1>6. ASSUME NEW refresh \in BOOLEAN, HasDid, StartProfileFetch(refresh)
      PROVE  ProfileAsks'
  <2> DEFINE asked == [phase |-> "asked", did |-> didStore.did,
                       answer |-> None, refresh |-> refresh]
  <2>1. didStore.did \in Addresses
    BY <1>1, <1>6 DEF StoresInv, DidStore, HasDid
  <2>2. asked \in ProfileFetch /\ asked.phase = "asked"
    BY <2>1 DEF ProfileFetch
  <2>3. PICK fetch \in ProfileFetches :
          profileFetches' = [profileFetches EXCEPT ![fetch] = asked]
    BY <1>6 DEF StartProfileFetch
  <2> HIDE DEF asked
  <2>4. QED
    BY <1>5, <2>2, <2>3 DEF ReadsKnown
<1>7. ASSUME NEW fetch \in ProfileFetches, profileFetches[fetch] # None,
             NEW next \in {"asked", "read", "counting", "counted"},
             NEW answer \in InstitutionStatus \cup {None}
                  \cup {Cardinality(hashes) : hashes \in SUBSET Hashes},
             profileFetches' = [profileFetches EXCEPT ![fetch].phase = next,
                                                      ![fetch].answer = answer],
             next = "read" /\ answer # "none" =>
               Known(profileFetches[fetch].did)
      PROVE  ProfileAsks'
  <2> DEFINE moved == [profileFetches[fetch] EXCEPT !.phase = next,
                                                    !.answer = answer]
  <2>1. profileFetches[fetch] \in ProfileFetch
    BY <1>1, <1>7 DEF ProfileAsks
  <2>2. /\ moved \in ProfileFetch /\ moved.phase = next
        /\ moved.answer = answer /\ moved.did = profileFetches[fetch].did
    BY <2>1 DEF ProfileFetch
  <2>3. profileFetches' = [profileFetches EXCEPT ![fetch] = moved]
    BY <1>7
  <2> HIDE DEF moved
  <2>4. QED
    BY <1>5, <1>7, <2>2, <2>3 DEF ReadsKnown
<1>8. ASSUME NEW fetch \in ProfileFetches, ProfileRead(fetch)
      PROVE  ProfileAsks'
  <2>1. CASE InFetch(fetch, "asked")
    <3> DEFINE answer == IF profileFetches[fetch].did \in Accounts
                         THEN institution[profileFetches[fetch].did]
                         ELSE "none"
    <3>1. /\ answer \in InstitutionStatus
          /\ answer # "none" => Known(profileFetches[fetch].did)
      BY <1>1 DEF LedgerTypeOK, InstitutionStatus, Known
    <3>2. profileFetches' = [profileFetches EXCEPT ![fetch].phase = "read",
                                                   ![fetch].answer = answer]
      BY <1>8, <2>1 DEF ProfileRead, InFetch
    <3> HIDE DEF answer
    <3>3. QED
      BY <1>7, <2>1, <3>1, <3>2 DEF InFetch
  <2>2. CASE InFetch(fetch, "counting")
    <3> DEFINE answer == IssuedBy(profileFetches[fetch].did)
    <3>1. answer \in {Cardinality(hashes) : hashes \in SUBSET Hashes}
      BY DEF IssuedBy
    <3>2. profileFetches' = [profileFetches EXCEPT ![fetch].phase = "counted",
                                                   ![fetch].answer = answer]
      BY <1>8, <2>2 DEF ProfileRead, InFetch
    <3> HIDE DEF answer
    <3>3. QED
      BY <1>7, <2>2, <3>1, <3>2 DEF InFetch
  <2>3. QED
    BY <1>8, <2>1, <2>2 DEF ProfileRead
<1>9. ASSUME NEW fetch \in ProfileFetches, ProfileFound(fetch)
      PROVE  ProfileAsks'
  <2> DEFINE moved == [profileFetches[fetch] EXCEPT !.phase = "counting"]
  <2>1. profileFetches[fetch] \in ProfileFetch
    BY <1>1, <1>9 DEF ProfileAsks, ProfileFound, InFetch
  <2>2. moved \in ProfileFetch /\ moved.phase = "counting"
    BY <2>1 DEF ProfileFetch
  <2>3. profileFetches' = [profileFetches EXCEPT ![fetch] = moved]
    BY <1>9 DEF ProfileFound
  <2> HIDE DEF moved
  <2>4. QED
    BY <1>5, <2>2, <2>3 DEF ReadsKnown
<1>10. ASSUME NEW fetch \in ProfileFetches, ProfileFetchEnds(fetch)
       PROVE  ProfileAsks'
  BY <1>5, <1>10 DEF ProfileFetchEnds, ReadsKnown
<1>11. CASE LeaveProfile
  BY <1>3, <1>11 DEF LeaveProfile, ReadsKnown
<1>12. QED
  BY <1>4, <1>6, <1>8, <1>9, <1>10, <1>11
     DEF ProfileNext, ProfileEffect, ProfileWanted, RefreshProfile,
         ProfileAbsent, ProfileCounted, ProfileFetchFails, profileVars

LEMMA ProfileKept ==
  ASSUME SiteInv, SiteMoves
  PROVE  ProfileInv'
<1>1. /\ LedgerGrows /\ ProfileAsks
      /\ institutionData # None =>
           /\ institutionData \in [did : Accounts, verified : BOOLEAN]
           /\ Known(institutionData.did)
      /\ UNCHANGED profileVars \/ LeaveProfile \/ ProfileNext
  BY DEF SiteInv, SiteMoves, ChainMoves, ListsMove, ProfileInv, ProfileAsks,
         ReadsKnown, InFetch
<1>2. ProfileAsks'
  BY <1>1, ProfileAsksKept
<1>3. institutionData' # None =>
        /\ institutionData' \in [did : Accounts, verified : BOOLEAN]
        /\ Known(institutionData'.did)
  <2>1. CASE UNCHANGED institutionData
    BY <1>1, <2>1
  <2>2. CASE LeaveProfile
    BY <2>2 DEF LeaveProfile
  <2>3. ASSUME NEW fetch \in ProfileFetches, ProfileFound(fetch)
        PROVE  /\ institutionData' \in [did : Accounts, verified : BOOLEAN]
               /\ Known(institutionData'.did)
    <3>1. Known(profileFetches[fetch].did)
      BY <1>1, <2>3 DEF ProfileFound, ProfileAsks, ReadsKnown, InFetch
    <3>2. PICK verified \in BOOLEAN :
            institutionData' = [did |-> profileFetches[fetch].did,
                                verified |-> verified]
      BY <2>3 DEF ProfileFound
    <3>3. QED
      BY <3>1, <3>2 DEF Known
  <2>4. QED
    BY <1>1, <2>1, <2>2, <2>3
       DEF ProfileNext, ProfileEffect, RefreshProfile, ProfileRead,
           ProfileAbsent, ProfileCounted, ProfileFetchFails, profileVars
<1>4. institutionData' # None => Known(institutionData.did)'
  BY <1>1, <1>3, KnownStays DEF Known
<1>5. QED
  BY <1>2, <1>3, <1>4 DEF ProfileInv, ProfileAsks, ReadsKnown, InFetch
-----------------------------------------------------------------------------
LEMMA AdminFetchesKept ==
  ASSUME SiteInv, AdminNext
  PROVE  adminFetches' \in [AdminFetches -> AdminFetch \cup {None}]
<1>1. /\ adminFetches \in [AdminFetches -> AdminFetch \cup {None}]
      /\ institution \in [Accounts -> InstitutionStatus]
  BY DEF SiteInv, AdminInv, LedgerTypeOK
<1>2. ASSUME NEW fetch \in AdminFetches, NEW asked \in AdminFetch \cup {None},
             adminFetches' = [adminFetches EXCEPT ![fetch] = asked]
      PROVE  adminFetches' \in [AdminFetches -> AdminFetch \cup {None}]
  BY <1>1, <1>2
<1>3. CASE StartAdminFetch
  <2>1. [phase |-> "asked", entries |-> <<>>] \in AdminFetch
    BY DEF AdminFetch
  <2>2. QED
    BY <1>2, <1>3, <2>1 DEF StartAdminFetch
<1>4. ASSUME NEW fetch \in AdminFetches, InstitutionsRead(fetch)
      PROVE  adminFetches' \in [AdminFetches -> AdminFetch \cup {None}]
  <2>1. [phase |-> "read", entries |-> institution] \in AdminFetch
    BY <1>1 DEF AdminFetch
  <2>2. QED
    BY <1>2, <1>4, <2>1 DEF InstitutionsRead
<1>5. CASE \E fetch \in AdminFetches :
             InstitutionsFetched(fetch) \/ InstitutionsNotFetched(fetch)
  BY <1>2, <1>5 DEF InstitutionsFetched, InstitutionsNotFetched
<1>6. QED
  BY <1>1, <1>3, <1>4, <1>5
     DEF AdminNext, AdminEffect, RefreshInstitutions, PressVerify,
         PressRevoke, VerifySent, VerifyNotSent, VerifyFinalized,
         VerifyErrorUnseen, RevocationFails, adminVars

LEMMA AdminShowsKept ==
  ASSUME SiteInv, AdminNext
  PROVE  /\ institutions' \in [Accounts -> InstitutionStatus]
         /\ {verifying, revokingInstitution}' \subseteq Accounts \cup {None}
<1>1. AdminInv
  BY DEF SiteInv
<1>2. {verifying, revokingInstitution}' \subseteq Accounts \cup {None}
  <2>1. /\ verifying \in Accounts \cup {None}
        /\ revokingInstitution \in Accounts \cup {None}
    BY <1>1 DEF AdminInv
  <2>2. /\ verifying' \in Accounts \cup {None}
        /\ revokingInstitution' \in Accounts \cup {None}
    BY <2>1
       DEF AdminNext, AdminEffect, RefreshInstitutions, InstitutionsRead,
           InstitutionsFetched, InstitutionsNotFetched, PressVerify,
           PressRevoke, VerifySent, VerifyNotSent, VerifyFinalized,
           VerifyErrorUnseen, RevocationFails, adminVars
  <2>3. QED
    BY <2>2
<1>3. CASE UNCHANGED institutions
  BY <1>1, <1>2, <1>3 DEF AdminInv
<1>4. ASSUME NEW fetch \in AdminFetches, InstitutionsFetched(fetch)
      PROVE  institutions' \in [Accounts -> InstitutionStatus]
  <2>1. adminFetches[fetch] \in AdminFetch
    BY <1>1, <1>4 DEF AdminInv, InstitutionsFetched
  <2>2. adminFetches[fetch].entries \in [Accounts -> InstitutionStatus]
    BY <1>4, <2>1 DEF AdminFetch, InstitutionsFetched
  <2>3. QED
    BY <1>4, <2>2 DEF InstitutionsFetched
<1>5. ASSUME NEW slot \in Slots, VerifyFinalized(slot)
      PROVE  institutions' \in [Accounts -> InstitutionStatus]
  BY <1>1, <1>5 DEF AdminInv, VerifyFinalized, InstitutionStatus
<1>6. QED
  BY <1>2, <1>3, <1>4, <1>5
     DEF AdminNext, AdminEffect, RefreshInstitutions, InstitutionsRead,
         InstitutionsNotFetched, PressVerify, PressRevoke, VerifySent,
         VerifyNotSent, VerifyErrorUnseen, RevocationFails, adminVars

LEMMA AdminKept ==
  ASSUME SiteInv, SiteMoves
  PROVE  AdminInv'
<1>1. /\ AdminInv
      /\ UNCHANGED adminVars \/ LeaveAdmin \/ AdminNext
  BY DEF SiteInv, SiteMoves, ListsMove
<1>2. CASE UNCHANGED adminVars
  BY <1>1, <1>2 DEF AdminInv, adminVars
<1>3. CASE LeaveAdmin
  BY <1>3 DEF LeaveAdmin, AdminInv, InstitutionStatus
<1>4. CASE AdminNext
  BY <1>4, AdminFetchesKept, AdminShowsKept DEF AdminInv
<1>5. QED
  BY <1>1, <1>2, <1>3, <1>4
-----------------------------------------------------------------------------
\* A page that has just been loaded, over a chain and a session that may be
\* anything the chain bears out.
LEMMA SiteInvInitially ==
  ASSUME SiteGenesis
  PROVE  SiteInv
<1>1. LedgerTypeOK /\ StoresInv /\ route \in Routes
  BY DEF SiteGenesis, StoresInv
<1>2. ExtrinsicsInv /\ MountedShown /\ \A page : AwaitedBy(page) = {}
  BY DEF SiteGenesis, SiteInit, ExtrinsicsInit, ExtrinsicsInv,
         ExtrinsicsTyped, TakesEffectOnce, MountedShown, Mounted, AwaitedBy,
         Awaits, Pending, InPhase, Free
<1>3. \A page : WaitsForOne(page)
  BY <1>2 DEF WaitsForOne
<1>4. /\ DidFormFresh /\ RegFresh /\ IssueFresh /\ IssuedFresh /\ AdminFresh
      /\ CredentialsFresh /\ ProfileFresh
  BY DEF SiteGenesis, SiteInit, PagesFresh
<1>5. DidFormInv
  <2>1. DidFormTypeOK
    BY <1>4 DEF DidFormFresh, DidFormTypeOK
  <2>2. QED
    BY <1>2, <1>3, <2>1 DEF DidFormInv
<1>6. RegInv
  <2>1. regStep \in 1..4
    BY <1>4 DEF RegFresh
  <2>2. regSubmitting \in BOOLEAN
    BY <1>4 DEF RegFresh
  <2>3. QED
    BY <1>2, <1>3, <2>1, <2>2 DEF RegInv, RegTypeOK
<1>7. SearchInv
  <2>1. FormTyped
    BY <1>4 DEF IssueFresh, FormTyped
  <2>2. DocumentTyped
    BY <1>4 DEF IssueFresh, DocumentTyped
  <2>3. isSubmitting \in BOOLEAN
    BY <1>4 DEF IssueFresh
  <2>4. IssueTypeOK
    BY <2>1, <2>2, <2>3, IssueTypeParts
  <2>5. QED
    BY <1>4, <2>4 DEF IssueFresh, SearchInv, RecipientActive
<1>8. SubmitInv
  BY <1>2, <1>3, <1>4 DEF IssueFresh, SubmitInv
<1>9. IssuedInv
  <2>1. loading \in BOOLEAN /\ refreshing \in BOOLEAN
    BY <1>4 DEF IssuedFresh
  <2>2. QED
    BY <1>4, <2>1 DEF IssuedFresh, IssuedInv, IssuedTypeOK
<1>10. ListInv
  BY <1>4 DEF CredentialsFresh, ListInv, ListAsks
<1>11. ProfileInv
  BY <1>4 DEF ProfileFresh, ProfileInv, InFetch
<1>12. AdminInv
  BY <1>4 DEF AdminFresh, AdminInv, InstitutionStatus
<1>13. QED
  BY <1>1, <1>2, <1>5, <1>6, <1>7, <1>8, <1>9, <1>10, <1>11, <1>12
     DEF SiteInv

\* Every step of the site, of the session and of the chain keeps it.
LEMMA SiteInvKept ==
  ASSUME SiteInv, [SiteLedgerNext]_siteVars
  PROVE  SiteInv'
<1>1. SiteMoves
  BY StepMoves
<1>2. LedgerTypeOK'
  BY <1>1 DEF SiteMoves, ChainMoves
<1>3. QED
  BY <1>1, <1>2, ExtrinsicsKept, ScreenKept, StoresKept, DidFormKept, RegKept,
     SearchKept, SubmitKept, IssuedKept, ListKept, ProfileKept, AdminKept
     DEF SiteInv

\* The invariant of the site, over any chain and any session.
THEOREM SiteInvariance == SiteSpec => []SiteInv
<1>1. SiteGenesis => SiteInv
  BY SiteInvInitially
<1>2. SiteInv /\ [SiteLedgerNext]_siteVars => SiteInv'
  BY SiteInvKept
<1>3. QED
  BY <1>1, <1>2, PTL DEF SiteSpec

\* Whoever looks at the stores sees a session of the kind that Session
\* promises, and of the pages no more than the writes it allows for.
THEOREM StoresSeenAsSession ==
  SiteSpec => [][SessionStep \/ FormsWriteStores]_storeVars
<1>1. SiteInv /\ [SiteLedgerNext]_siteVars
        => [SessionStep \/ FormsWriteStores]_storeVars
  BY StepMoves, FormWritesExpected DEF SiteMoves, StoresMove
<1>2. QED
  BY <1>1, SiteInvariance, PTL DEF SiteSpec

\* Whoever looks at the chain sees that nothing is taken back: what one page
\* has read of a DID, an institution or a certificate, no other page undoes.
THEOREM NothingTakenBack == SiteSpec => [][LedgerGrows]_ledgerVars
<1>1. SiteInv /\ [SiteLedgerNext]_siteVars => LedgerGrows
  BY StepMoves DEF SiteMoves, ChainMoves
<1>2. QED
  BY <1>1, SiteInvariance, PTL DEF SiteSpec

\* A call of a page that is in a block has had its effect, which stands as
\* long as the page has not heard of it and is the effect of that call alone.
THEOREM EffectsStanding == SiteSpec => []TakesEffectOnce
<1>1. SiteInv => TakesEffectOnce
  BY DEF SiteInv, ExtrinsicsInv
<1>2. QED
  BY <1>1, SiteInvariance, PTL

\* The types of the pages.
THEOREM SiteTypeInvariance == SiteSpec => []SiteTypeOK
<1>1. SiteInv => SiteTypeOK
  BY DEF SiteInv, SiteTypeOK, StoresInv, DidFormInv, RegInv, SearchInv,
         IssuedInv, AdminInv
<1>2. QED
  BY <1>1, SiteInvariance, PTL

\* A recipient past step 1 has been found, with a DID on chain.
THEOREM RecipientsAreFound == SiteSpec => []PastStep1Found
<1>1. SiteInv => PastStep1Found
  <2>1. SUFFICES ASSUME SiteInv, step > 1
                 PROVE  /\ RecipientActive /\ search = None
                        /\ recipientInfo.name \in Accounts
                        /\ did[recipientInfo.name] # "none"
    BY DEF PastStep1Found
  <2>2. step \in 1..5
    BY <2>1 DEF SiteInv, SearchInv, IssueTypeOK
  <2>3. QED
    BY <2>1, <2>2 DEF SiteInv, SearchInv, HasActiveDid
<1>2. QED
  BY <1>1, SiteInvariance, PTL

\* Nothing is reviewed or submitted without a hash.
THEOREM ReviewsHaveHashes == SiteSpec => []ReviewedHasHash
<1>1. ASSUME SiteInv, NEW slot \in Slots, Pending("issue", slot)
      PROVE  extrinsics[slot].call.hash # None
  <2>1. /\ extrinsics[slot].call \in Call
        /\ extrinsics[slot].call.name = "issueCredential"
    BY <1>1, ExtrinsicHasType DEF SiteInv, ExtrinsicsInv, Pending, SentFrom
  <2>2. extrinsics[slot].call.hash \in Hashes
    BY <2>1, CallFields
  <2>3. QED
    BY <2>2, NullAssumption
<1>2. SiteInv => ReviewedHasHash
  BY <1>1 DEF SiteInv, SubmitInv, ReviewedHasHash
<1>3. QED
  BY <1>2, SiteInvariance, PTL

\* Where all are equal there is one at most.
LEMMA OneAtMost ==
  ASSUME NEW page, WaitsForOne(page)
  PROVE  Cardinality(AwaitedBy(page)) <= 1
<1>1. CASE AwaitedBy(page) = {}
  BY <1>1, FS_EmptySet
<1>2. CASE AwaitedBy(page) # {}
  <2>1. PICK slot \in AwaitedBy(page) : AwaitedBy(page) = {slot}
    BY <1>2 DEF WaitsForOne
  <2>2. Cardinality({slot}) = 1
    BY FS_Singleton
  <2>3. QED
    BY <2>1, <2>2
<1>3. QED
  BY <1>1, <1>2

\* One opening of a form awaits one submission.
THEOREM FormsSubmittingOnce == SiteSpec => []FormsSubmitOnce
<1>1. SiteInv => FormsSubmitOnce
  BY OneAtMost DEF SiteInv, DidFormInv, RegInv, SubmitInv, FormsSubmitOnce
<1>2. QED
  BY <1>1, SiteInvariance, PTL

\* What the institution sees of what it issued is so.
THEOREM RevokedIsRevoked == SiteSpec => []RevokedShownIsRevoked
<1>1. SiteInv => RevokedShownIsRevoked
  BY DEF SiteInv, IssuedInv, EntrySaid, RevokedShownIsRevoked
<1>2. QED
  BY <1>1, SiteInvariance, PTL

\* What the holder sees of a credential is so, and of the DID it was asked for.
THEOREM HoldersSeeTheChain == SiteSpec => []HolderSeesChain
<1>1. SiteInv => HolderSeesChain
  <2>1. SUFFICES ASSUME SiteInv, NEW credential \in credentials
                 PROVE
                   /\ Certified(credential.hash)
                   /\ certificate[credential.hash].issuer = credential.issuer
                   /\ certificate[credential.hash].holder = credential.holder
                   /\ credential.holder = listSource.did
                   /\ credential.hash \in listSource.revokedThen =>
                        /\ StatusOf(credential) = "revoked"
                        /\ credential \in ListedUnder("revoked")
                   /\ StatusOf(credential) = "revoked"
                        \/ credential \in ListedUnder("revoked") =>
                        VerdictOnChain(credential.hash) = "revoked"
    BY DEF HolderSeesChain
  <2>2. ListedFor(credential, listSource)
    BY <2>1 DEF SiteInv, ListInv
  <2>3. \/ StatusOf(credential) = "revoked"
        \/ credential \in ListedUnder("revoked")
        => credential.revoked
    BY DEF StatusOf, ListedUnder
  <2>4. credential.revoked =>
          /\ StatusOf(credential) = "revoked"
          /\ credential \in ListedUnder("revoked")
    BY <2>1 DEF StatusOf, ListedUnder
  <2>5. QED
    BY <2>2, <2>3, <2>4 DEF ListedFor, SaidByChain, VerdictOnChain
<1>2. QED
  BY <1>1, SiteInvariance, PTL

\* An institution that the session or its own page shows is one that the chain
\* knows, whatever root does.
KnownIsShown ==
  /\ IsInstitution => institution[didStore.institution] # "none"
  /\ institutionData # None => institution[institutionData.did] # "none"

THEOREM ShownInstitutionIsKnown == SiteSpec => []KnownIsShown
<1>1. SiteInv => KnownIsShown
  BY DEF SiteInv, StoresInv, ProfileInv, Known, KnownIsShown
<1>2. QED
  BY <1>1, SiteInvariance, PTL
-----------------------------------------------------------------------------
\* Root takes back no verification; the calls of the pages never do.
RootRevokesNothing ==
  \A who \in Accounts :
    institution[who] = "verified" => institution'[who] = "verified"

Verified(who) == institution[who] = "verified"

VerifiesFinally(slot) ==
  InPhase(slot, "block") /\ extrinsics[slot].call.name = "verifyInstitution"
    => Verified(extrinsics[slot].call.who)

ReadsVerified(fetch) ==
  fetch # None /\ fetch.phase = "read" =>
    \A who \in Accounts : fetch.entries[who] = "verified" => Verified(who)

ReadsAsVerified(fetch) ==
  fetch # None /\ fetch.phase = "read" /\ fetch.answer = "verified" =>
    Verified(fetch.did)

\* Whatever has been read, sent or shown of a verification is so.
VerifiedInv ==
  /\ \A slot \in Slots : VerifiesFinally(slot)
  /\ \A who \in Accounts : institutions[who] = "verified" => Verified(who)
  /\ \A fetch \in AdminFetches : ReadsVerified(adminFetches[fetch])
  /\ institutionData # None /\ institutionData.verified =>
       Verified(institutionData.did)
  /\ \A fetch \in ProfileFetches : ReadsAsVerified(profileFetches[fetch])

LEMMA VerifiedStays ==
  ASSUME LedgerTypeOK, RootRevokesNothing \/ UNCHANGED ledgerVars,
         NEW who, Verified(who)
  PROVE  who \in Accounts => Verified(who)'
BY DEF RootRevokesNothing, Verified, ledgerVars

\* A verification that is final is on chain.
LEMMA VerifiesFinallyKept ==
  ASSUME SiteInv, VerifiedInv, SiteMoves, NEW slot \in Slots,
         RootRevokesNothing \/ UNCHANGED ledgerVars
  PROVE  VerifiesFinally(slot)'
<1>1. SUFFICES ASSUME InPhase(slot, "block")',
                      extrinsics'[slot].call.name = "verifyInstitution"
               PROVE  Verified(extrinsics[slot].call.who)'
  BY DEF VerifiesFinally
<1>2. CASE ExtrinsicsGoOn
  <2>1. /\ ~Free(slot) /\ extrinsics'[slot].call = extrinsics[slot].call
        /\ \/ extrinsics[slot].phase = "block"
           \/ Accepted(extrinsics[slot].call)
    BY <1>1, <1>2 DEF ExtrinsicsGoOn, SlotGoesOn, InPhase, Free
  <2>2. PICK call \in Call : call = extrinsics[slot].call
    BY <2>1, ExtrinsicHasType DEF SiteInv, ExtrinsicsInv
  <2>3. call.who \in Accounts /\ call.name = "verifyInstitution"
    BY <1>1, <2>1, <2>2, CallFields
  <2>4. Verified(call.who)'
    <3>1. CASE Accepted(call)
      BY <2>3, <3>1
         DEF Accepted, SetInstitution, Verified, SiteInv, LedgerTypeOK
    <3>2. CASE extrinsics[slot].phase = "block"
      <4>1. Verified(call.who)
        BY <2>1, <2>2, <2>3, <3>2 DEF VerifiedInv, VerifiesFinally, InPhase
      <4>2. QED
        BY <2>3, <4>1, VerifiedStays DEF SiteInv
    <3>3. QED
      BY <2>1, <2>2, <3>1, <3>2
  <2>5. QED
    BY <2>1, <2>2, <2>4 DEF Verified
<1>3. CASE PageSends
  <2>1. PICK page \in Senders, s \in Slots :
          Sends(page, s) /\ UNCHANGED ledgerVars
    BY <1>3 DEF PageSends
  <2>2. s # slot /\ extrinsics'[slot] = extrinsics[slot]
    BY <1>1, <2>1, SendingAdds DEF SiteInv, ExtrinsicsInv
  <2>3. Verified(extrinsics[slot].call.who)
    BY <1>1, <2>2 DEF VerifiedInv, VerifiesFinally, InPhase, Free
  <2>4. QED
    BY <2>1, <2>2, <2>3 DEF Verified, ledgerVars
<1>4. QED
  BY <1>2, <1>3 DEF SiteMoves, ExtrinsicsMove

\* The list of the admin.
LEMMA AdminVerifiedKept ==
  ASSUME SiteInv, VerifiedInv, SiteMoves,
         RootRevokesNothing \/ UNCHANGED ledgerVars
  PROVE  /\ \A who \in Accounts :
              institutions'[who] = "verified" => Verified(who)'
         /\ \A fetch \in AdminFetches : ReadsVerified(adminFetches[fetch])'
<1>1. /\ LedgerTypeOK /\ AdminInv /\ ExtrinsicsInv
      /\ UNCHANGED adminVars \/ LeaveAdmin \/ AdminNext
      /\ \A who \in Accounts : institutions[who] = "verified" => Verified(who)
      /\ \A fetch \in AdminFetches : ReadsVerified(adminFetches[fetch])
  BY DEF SiteInv, SiteMoves, ListsMove, VerifiedInv
<1>2. \A who \in Accounts : Verified(who) => Verified(who)'
  BY <1>1, VerifiedStays
<1>3. ASSUME NEW who \in Accounts, institutions'[who] = "verified"
      PROVE  Verified(who)
  <2>1. CASE UNCHANGED institutions
    BY <1>1, <1>3, <2>1
  <2>2. CASE LeaveAdmin
    BY <1>3, <2>2 DEF LeaveAdmin
  <2>3. ASSUME NEW fetch \in AdminFetches, InstitutionsFetched(fetch)
        PROVE  Verified(who)
    BY <1>1, <1>3, <2>3 DEF InstitutionsFetched, ReadsVerified
  <2>4. ASSUME NEW slot \in Slots, VerifyFinalized(slot)
        PROVE  Verified(who)
    <3>1. \/ who = extrinsics[slot].call.who
          \/ institutions[who] = "verified"
      BY <1>3, <2>4 DEF VerifyFinalized
    <3>2. Verified(extrinsics[slot].call.who)
      BY <2>4
         DEF VerifiedInv, VerifiesFinally, VerifyFinalized, AdminCalls,
             Finalized
    <3>3. QED
      BY <1>1, <3>1, <3>2
  <2>5. QED
    BY <1>1, <2>1, <2>2, <2>3, <2>4
       DEF AdminNext, AdminEffect, RefreshInstitutions, InstitutionsRead,
           InstitutionsNotFetched, PressVerify, PressRevoke, VerifySent,
           VerifyNotSent, VerifyErrorUnseen, RevocationFails, adminVars
<1>4. ASSUME NEW fetch \in AdminFetches
      PROVE  ReadsVerified(adminFetches'[fetch])
  <2>1. CASE UNCHANGED adminFetches
    BY <1>1, <2>1
  <2>2. CASE LeaveAdmin
    BY <2>2 DEF LeaveAdmin, ReadsVerified
  <2>3. ASSUME NEW f \in AdminFetches, NEW asked, ReadsVerified(asked),
               adminFetches' = [adminFetches EXCEPT ![f] = asked]
        PROVE  ReadsVerified(adminFetches'[fetch])
    <3>1. adminFetches'[fetch] = IF fetch = f THEN asked
                                 ELSE adminFetches[fetch]
      BY <1>1, <2>3 DEF AdminInv
    <3>2. QED
      BY <1>1, <2>3, <3>1
  <2>4. CASE StartAdminFetch
    <3>1. ReadsVerified([phase |-> "asked", entries |-> <<>>])
      BY DEF ReadsVerified
    <3>2. QED
      BY <2>3, <2>4, <3>1 DEF StartAdminFetch
  <2>5. ASSUME NEW f \in AdminFetches, InstitutionsRead(f)
        PROVE  ReadsVerified(adminFetches'[fetch])
    <3>1. ReadsVerified([phase |-> "read", entries |-> institution])
      BY DEF ReadsVerified, Verified
    <3>2. QED
      BY <2>3, <2>5, <3>1 DEF InstitutionsRead
  <2>6. CASE \E f \in AdminFetches :
               InstitutionsFetched(f) \/ InstitutionsNotFetched(f)
    <3>1. ReadsVerified(None)
      BY DEF ReadsVerified
    <3>2. QED
      BY <2>3, <2>6, <3>1 DEF InstitutionsFetched, InstitutionsNotFetched
  <2>7. QED
    BY <1>1, <2>1, <2>2, <2>4, <2>5, <2>6
       DEF AdminNext, AdminEffect, RefreshInstitutions, PressVerify,
           PressRevoke, VerifySent, VerifyNotSent, VerifyFinalized,
           VerifyErrorUnseen, RevocationFails, adminVars
<1>5. QED
  BY <1>2, <1>3, <1>4 DEF ReadsVerified, Verified

\* What the page of an institution says of it.
LEMMA ProfileVerifiedKept ==
  ASSUME SiteInv, VerifiedInv, SiteMoves,
         RootRevokesNothing \/ UNCHANGED ledgerVars
  PROVE  /\ institutionData' # None /\ institutionData'.verified =>
              Verified(institutionData.did)'
         /\ \A fetch \in ProfileFetches :
              ReadsAsVerified(profileFetches[fetch])'
<1>1. /\ LedgerTypeOK /\ ProfileInv
      /\ UNCHANGED profileVars \/ LeaveProfile \/ ProfileNext
      /\ institutionData # None /\ institutionData.verified =>
           Verified(institutionData.did)
      /\ \A fetch \in ProfileFetches : ReadsAsVerified(profileFetches[fetch])
  BY DEF SiteInv, SiteMoves, ListsMove, VerifiedInv
<1>2. \A who : Verified(who) /\ who \in Accounts => Verified(who)'
  BY <1>1, VerifiedStays
<1>3. institutionData' # None /\ institutionData'.verified =>
        Verified(institutionData'.did)
  <2>1. CASE UNCHANGED institutionData
    BY <1>1, <2>1
  <2>2. CASE LeaveProfile
    BY <2>2 DEF LeaveProfile
  <2>3. ASSUME NEW fetch \in ProfileFetches, ProfileFound(fetch)
        PROVE  institutionData'.verified => Verified(institutionData'.did)
    <3>1. /\ institutionData'.did = profileFetches[fetch].did
          /\ institutionData'.verified <=>
               profileFetches[fetch].answer = "verified"
      BY <2>3 DEF ProfileFound
    <3>2. QED
      BY <1>1, <2>3, <3>1 DEF ProfileFound, InFetch, ReadsAsVerified
  <2>4. QED
    BY <1>1, <2>1, <2>2, <2>3
       DEF ProfileNext, ProfileEffect, RefreshProfile, ProfileRead,
           ProfileAbsent, ProfileCounted, ProfileFetchFails, profileVars
<1>4. ASSUME NEW fetch \in ProfileFetches
      PROVE  ReadsAsVerified(profileFetches'[fetch])
  <2>1. CASE UNCHANGED profileFetches
    BY <1>1, <2>1
  <2>2. CASE LeaveProfile
    BY <2>2 DEF LeaveProfile, ReadsAsVerified
  <2>3. ASSUME NEW f \in ProfileFetches, NEW asked, ReadsAsVerified(asked),
               profileFetches' = [profileFetches EXCEPT ![f] = asked]
        PROVE  ReadsAsVerified(profileFetches'[fetch])
    <3>1. profileFetches'[fetch] = IF fetch = f THEN asked
                                   ELSE profileFetches[fetch]
      BY <1>1, <2>3 DEF ProfileInv
    <3>2. QED
      BY <1>1, <2>3, <3>1
  <2>4. ASSUME NEW refresh, StartProfileFetch(refresh)
        PROVE  ReadsAsVerified(profileFetches'[fetch])
    <3>1. ReadsAsVerified([phase |-> "asked", did |-> didStore.did,
                           answer |-> None, refresh |-> refresh])
      BY DEF ReadsAsVerified
    <3>2. QED
      BY <2>3, <2>4, <3>1 DEF StartProfileFetch
  <2>5. ASSUME NEW f \in ProfileFetches, ProfileRead(f)
        PROVE  ReadsAsVerified(profileFetches'[fetch])
    <3>1. profileFetches[f] \in ProfileFetch
      BY <1>1, <2>5 DEF ProfileRead, InFetch, ProfileInv
    <3>2. CASE InFetch(f, "asked")
      <4> DEFINE read == [profileFetches[f] EXCEPT !.phase = "read",
            !.answer = IF profileFetches[f].did \in Accounts
                       THEN institution[profileFetches[f].did] ELSE "none"]
      <4>1. /\ read.did = profileFetches[f].did
            /\ read.answer = IF profileFetches[f].did \in Accounts
                             THEN institution[profileFetches[f].did]
                             ELSE "none"
        BY <3>1 DEF ProfileFetch
      <4>2. profileFetches' = [profileFetches EXCEPT ![f] = read]
        BY <2>5, <3>2 DEF ProfileRead, InFetch
      <4> HIDE DEF read
      <4>3. ReadsAsVerified(read)
        BY <4>1 DEF ReadsAsVerified, Verified
      <4>4. QED
        BY <2>3, <4>2, <4>3
    <3>3. CASE InFetch(f, "counting")
      <4> DEFINE counted == [profileFetches[f] EXCEPT !.phase = "counted",
            !.answer = IssuedBy(profileFetches[f].did)]
      <4>1. counted.phase = "counted"
        BY <3>1 DEF ProfileFetch
      <4>2. profileFetches' = [profileFetches EXCEPT ![f] = counted]
        BY <2>5, <3>3 DEF ProfileRead, InFetch
      <4> HIDE DEF counted
      <4>3. QED
        BY <2>3, <4>1, <4>2 DEF ReadsAsVerified
    <3>4. QED
      BY <2>5, <3>2, <3>3 DEF ProfileRead
  <2>6. ASSUME NEW f \in ProfileFetches, ProfileFound(f)
        PROVE  ReadsAsVerified(profileFetches'[fetch])
    <3> DEFINE moved == [profileFetches[f] EXCEPT !.phase = "counting"]
    <3>1. profileFetches[f] \in ProfileFetch
      BY <1>1, <2>6 DEF ProfileFound, InFetch, ProfileInv
    <3>2. moved.phase = "counting"
      BY <3>1 DEF ProfileFetch
    <3>3. profileFetches' = [profileFetches EXCEPT ![f] = moved]
      BY <2>6 DEF ProfileFound
    <3> HIDE DEF moved
    <3>4. QED
      BY <2>3, <3>2, <3>3 DEF ReadsAsVerified
  <2>7. ASSUME NEW f \in ProfileFetches, ProfileFetchEnds(f)
        PROVE  ReadsAsVerified(profileFetches'[fetch])
    <3>1. ReadsAsVerified(None)
      BY DEF ReadsAsVerified
    <3>2. QED
      BY <2>3, <2>7, <3>1 DEF ProfileFetchEnds
  <2>8. QED
    BY <1>1, <2>1, <2>2, <2>4, <2>5, <2>6, <2>7
       DEF ProfileNext, ProfileEffect, RefreshProfile, ProfileAbsent,
           ProfileCounted, ProfileFetchFails, profileVars
\* What is shown or read is of an account.
<1>5. /\ institutionData' # None => institutionData'.did \in Accounts
      /\ \A fetch \in ProfileFetches :
           /\ profileFetches'[fetch] # None
           /\ profileFetches'[fetch].phase = "read"
           /\ profileFetches'[fetch].answer = "verified"
           => profileFetches'[fetch].did \in Accounts
  <2>1. ProfileInv'
    BY ProfileKept
  <2>2. QED
    BY <2>1 DEF ProfileInv, Known, InFetch
<1>6. QED
  BY <1>2, <1>3, <1>4, <1>5 DEF ReadsAsVerified, Verified

LEMMA VerifiedInvKept ==
  ASSUME SiteInv, VerifiedInv, [SiteLedgerNext]_siteVars,
         [RootRevokesNothing]_ledgerVars
  PROVE  VerifiedInv'
<1>1. SiteMoves
  BY StepMoves
<1>2. \A slot \in Slots : VerifiesFinally(slot)'
  BY <1>1, VerifiesFinallyKept
<1>3. QED
  BY <1>1, <1>2, AdminVerifiedKept, ProfileVerifiedKept DEF VerifiedInv

LEMMA VerifiedInvInitially ==
  ASSUME SiteGenesis
  PROVE  VerifiedInv
BY DEF SiteGenesis, SiteInit, PagesFresh, ExtrinsicsInit, AdminFresh,
       ProfileFresh, VerifiedInv, VerifiesFinally, ReadsVerified,
       ReadsAsVerified, InPhase, Free

\* While root takes back no verification, what is known of one stays true.
THEOREM VerifiedInvariance ==
  SiteSpec /\ [][RootRevokesNothing]_ledgerVars => []VerifiedInv
<1>1. SiteGenesis => VerifiedInv
  BY VerifiedInvInitially
<1>2. /\ SiteInv /\ VerifiedInv
      /\ [SiteLedgerNext]_siteVars /\ [RootRevokesNothing]_ledgerVars
      => VerifiedInv'
  BY VerifiedInvKept
<1>3. QED
  BY <1>1, <1>2, SiteInvariance, PTL DEF SiteSpec

\* An institution the admin sees as verified is verified.
THEOREM AdminSeesVerified ==
  SiteSpec /\ [][RootRevokesNothing]_ledgerVars => []VerifiedShownIsVerified
<1>1. VerifiedInv => VerifiedShownIsVerified
  BY DEF VerifiedInv, Verified, VerifiedShownIsVerified
<1>2. QED
  BY <1>1, VerifiedInvariance, PTL

\* An institution that is shown is known to the chain, and verified if its
\* page says so.
THEOREM InstitutionsShownExist ==
  SiteSpec /\ [][RootRevokesNothing]_ledgerVars => []InstitutionShownExists
<1>1. KnownIsShown /\ VerifiedInv => InstitutionShownExists
  BY DEF KnownIsShown, VerifiedInv, Verified, ShownAsVerified,
         InstitutionShownExists
<1>2. QED
  BY <1>1, VerifiedInvariance, ShownInstitutionIsKnown, PTL
=============================================================================
