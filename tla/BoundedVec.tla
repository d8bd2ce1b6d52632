----------------------------- MODULE BoundedVec -----------------------------
(***************************************************************************)
(* The three operations the pallets use of Substrate's BoundedVec, which   *)
(* is not part of this repository: the test that try_push makes, the push  *)
(* itself (Append of Sequences) and retain.                                *)
(*                                                                         *)
(* Retain is SelectSeq with its test given as a set, written without       *)
(* recursion so that its properties can be proved (DidPallet_proofs); the  *)
(* module MCDidPallet compares the two on small vectors.                   *)
(***************************************************************************)
EXTENDS Integers, Sequences, FiniteSets, Functions

\* try_push succeeds: one more element fits below the bound.
HasRoom(vec, bound) == Len(vec) < bound

\* The positions whose element retain keeps.
KeptAt(vec, keep) == {i \in DOMAIN vec : vec[i] \in keep}

\* i is the n-th smallest member of the set of positions S.
Rank(S, i) == Cardinality({j \in S : j <= i})

\* retain(|e| e \in keep): the kept elements, in their order.
Retain(vec, keep) ==
  LET kept == KeptAt(vec, keep)
  IN  [n \in 1..Cardinality(kept) |->
         vec[CHOOSE i \in kept : Rank(kept, i) = n]]
=============================================================================
