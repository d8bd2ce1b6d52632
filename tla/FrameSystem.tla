---------------------------- MODULE FrameSystem -----------------------------
(***************************************************************************)
(* What the pallets use of frame_system and of the block execution around  *)
(* them (neither is part of this repository): the block number, the origin *)
(* of an extrinsic, and the dispatch of a call.                            *)
(*                                                                         *)
(* A call is dispatched inside a storage transaction: when it returns an   *)
(* error, everything it wrote is rolled back.  Each call of a pallet is    *)
(* therefore given by the DispatchResult it returns in the current state   *)
(* (an operator ...Result) and by an action that is enabled exactly when   *)
(* that result is Ok; a call that fails is a stuttering step.              *)
(***************************************************************************)
EXTENDS Integers

CONSTANTS
  Accounts,   \* the accounts that sign extrinsics
  Root,       \* the origin of sudo and governance
  None,       \* Rust's Option::None, and an absent key of a storage map
  MaxBlock    \* bound of the model: the last block that is produced

ASSUME OriginAssumption == Root \notin Accounts /\ None \notin Accounts
ASSUME MaxBlockAssumption == MaxBlock \in Nat

VARIABLES
  now,        \* frame_system::Pallet::block_number()
  signer      \* the origin of the last extrinsic that was applied

frameVars == <<now, signer>>

Origins == Accounts \cup {Root}

FrameInit == now = 0 /\ signer = Root
FrameTypeOK == now \in 0..MaxBlock /\ signer \in Origins

Ok == "Ok"

\* ensure_signed(origin)? and ensure_root(origin)?
IsSigned(origin) == origin \in Accounts
IsRoot(origin) == origin = Root

\* The call from origin returns Ok, and is applied in the current block.
Dispatched(origin, result) ==
  /\ result = Ok
  /\ signer' = origin
  /\ UNCHANGED now

\* The next block is produced.
ProduceBlock ==
  /\ now < MaxBlock
  /\ now' = now + 1
  /\ UNCHANGED signer
=============================================================================
