---------------------------- MODULE MCDidPallet -----------------------------
(***************************************************************************)
(* The did pallet with a few accounts, keys and blocks, and the definition *)
(* of Retain compared with the standard one.                               *)
(***************************************************************************)
EXTENDS DidPallet, SequencesExt

CONSTANTS k1, k2, k3

MCPublicKeys == {k1, k2, k3}

\* An injective hash; the digest of a key is written <<"blake2_256", key>>.
MCBlake2 == [key \in MCPublicKeys |-> <<"blake2_256", key>>]

\* The digests of the keys and one that belongs to no key.
MCKeyIds == {MCBlake2[key] : key \in MCPublicKeys} \cup {<<"blake2_256", None>>}

\* retain keeps the elements that pass the test, in their order and as often
\* as they occur: the definition of BoundedVec, which has no recursion, equals
\* SelectSeq on every vector of at most four of three elements.
ASSUME RetainIsSelectSeq ==
  \A keep \in SUBSET (1..3) : \A vec \in BoundedSeq(1..3, 4) :
    Retain(vec, keep) = SelectSeq(vec, LAMBDA elem : elem \in keep)

MCSymmetry == Permutations(Accounts)
=============================================================================
