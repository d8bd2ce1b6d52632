-------------------------- MODULE DidPallet_proofs --------------------------
(***************************************************************************)
(* The did pallet is correct for all accounts, keys and bounds.  First,    *)
(* what a push and a retain do to a vector, for every vector and bound.    *)
(***************************************************************************)
EXTENDS DidPallet, FiniteSetTheorems, SequenceTheorems, TLAPS

\* The rank of a position of a finite set of positions is between 1 and the
\* size of the set, and ranks grow strictly with the positions.
LEMMA RankStrict ==
  ASSUME NEW S \in SUBSET Int, IsFiniteSet(S), NEW i \in S, NEW j \in S
  PROVE  /\ Rank(S, i) \in 1..Cardinality(S)
         /\ i < j => Rank(S, i) < Rank(S, j)
<1> DEFINE Below(k) == {m \in S : m <= k}
<1>1. \A k \in S : /\ IsFiniteSet(Below(k))
                   /\ Cardinality(Below(k)) \in Nat
                   /\ Cardinality(Below(k)) <= Cardinality(S)
  <2> SUFFICES ASSUME NEW k \in S
               PROVE  /\ IsFiniteSet(Below(k))
                      /\ Cardinality(Below(k)) \in Nat
                      /\ Cardinality(Below(k)) <= Cardinality(S)
    OBVIOUS
  <2>1. Below(k) \in SUBSET S
    OBVIOUS
  <2>2. QED
    BY <2>1, FS_Subset, FS_CardinalityType
<1>2. Cardinality(Below(i)) # 0
  BY <1>1, FS_EmptySet
<1>3. Rank(S, i) \in 1..Cardinality(S)
  <2>1. Cardinality(S) \in Nat
    BY FS_CardinalityType
  <2>2. QED
    BY <1>1, <1>2, <2>1 DEF Rank
<1>4. ASSUME i < j
      PROVE  Rank(S, i) < Rank(S, j)
  <2>0. i \in Int /\ j \in Int /\ \A m \in S : m \in Int
    OBVIOUS
  <2>1. /\ \A m \in Below(i) : m \in Below(j)
        /\ j \in Below(j)
        /\ j \notin Below(i)
    BY <1>4, <2>0
  <2>2. /\ Below(i) \in SUBSET Below(j)
        /\ Cardinality(Below(i)) <= Cardinality(Below(j))
    BY <1>1, <2>1, FS_Subset
  <2>3. Cardinality(Below(i)) # Cardinality(Below(j))
    BY <1>1, <2>1, <2>2, FS_Subset
  <2>4. QED
    BY <1>1, <2>2, <2>3 DEF Rank
<1>5. QED
  BY <1>3, <1>4

\* Different positions have different ranks.
LEMMA RankInjective ==
  ASSUME NEW S \in SUBSET Int, IsFiniteSet(S), NEW i \in S, NEW j \in S,
         Rank(S, i) = Rank(S, j)
  PROVE  i = j
<1>1. Rank(S, i) \in Int /\ i \in Int /\ j \in Int
  BY RankStrict
<1>2. ~(i < j) /\ ~(j < i)
  BY <1>1, RankStrict
<1>3. QED
  BY <1>1, <1>2

\* Every number up to the size of the set is the rank of a position.
LEMMA RankOnto ==
  ASSUME NEW S \in SUBSET Int, IsFiniteSet(S), NEW n \in 1..Cardinality(S)
  PROVE  \E i \in S : Rank(S, i) = n
<1> DEFINE rank == [i \in S |-> Rank(S, i)]
           T == 1..Cardinality(S)
<1>1. Cardinality(S) \in Nat
  BY FS_CardinalityType
<1>2. rank \in [S -> T]
  BY RankStrict
<1>3. rank \in Injection(S, T)
  BY <1>2, RankInjective DEF Injection, IsInjective
<1>4. IsFiniteSet(T) /\ Cardinality(T) = Cardinality(S)
  BY <1>1, FS_Interval
<1>5. rank \in Surjection(S, T)
  BY <1>3, <1>4, FS_Injection
<1>6. PICK i \in S : rank[i] = n
  BY <1>5 DEF Surjection
<1>7. QED
  BY <1>6

\* The interval below a natural number is finite and as long as it says.
LEMMA InitialSegment ==
  ASSUME NEW n \in Nat
  PROVE  IsFiniteSet(1..n) /\ Cardinality(1..n) = n
<1>1. 1 \in Int /\ n \in Int /\ (1 > n <=> n = 0) /\ n - 1 + 1 = n
  OBVIOUS
<1>2. QED
  BY <1>1, FS_Interval

\* What is kept of a vector: a vector of elements of the same kind, made of
\* the kept positions only, each of which it holds at its rank.
LEMMA RetainProperties ==
  ASSUME NEW T, NEW vec \in Seq(T), NEW keep
  PROVE  LET kept == KeptAt(vec, keep)
             res == Retain(vec, keep)
         IN  /\ kept \in SUBSET (1..Len(vec)) /\ IsFiniteSet(kept)
             /\ res \in Seq(T)
             /\ Len(res) = Cardinality(kept)
             /\ Len(res) <= Len(vec)
             /\ \A n \in 1..Len(res) : \E i \in kept :
                  res[n] = vec[i] /\ Rank(kept, i) = n
             /\ \A i \in kept :
                  Rank(kept, i) \in 1..Len(res) /\ res[Rank(kept, i)] = vec[i]
<1> DEFINE kept == KeptAt(vec, keep)
           res == Retain(vec, keep)
           at(n) == CHOOSE i \in kept : Rank(kept, i) = n
<1>1. Len(vec) \in Nat /\ DOMAIN vec = 1..Len(vec)
      /\ \A i \in 1..Len(vec) : vec[i] \in T
  BY LenProperties, ElementOfSeq
<1>2. kept \in SUBSET (1..Len(vec)) /\ kept \in SUBSET Int
  BY <1>1 DEF KeptAt
<1>3. /\ IsFiniteSet(kept)
      /\ Cardinality(kept) \in Nat
      /\ Cardinality(kept) <= Len(vec)
  <2>1. IsFiniteSet(1..Len(vec)) /\ Cardinality(1..Len(vec)) = Len(vec)
    BY <1>1, InitialSegment
  <2>2. QED
    BY <1>2, <2>1, FS_Subset, FS_CardinalityType
<1>4. \A n \in 1..Cardinality(kept) :
        at(n) \in kept /\ Rank(kept, at(n)) = n
  <2> SUFFICES ASSUME NEW n \in 1..Cardinality(kept)
               PROVE  at(n) \in kept /\ Rank(kept, at(n)) = n
    OBVIOUS
  <2>1. \E i \in kept : Rank(kept, i) = n
    BY <1>2, <1>3, RankOnto
  <2> HIDE DEF kept
  <2>2. QED
    BY <2>1
<1>5. res = [n \in 1..Cardinality(kept) |-> vec[at(n)]]
  BY DEF Retain
<1> HIDE DEF kept, res, at
<1>6. \A n \in 1..Cardinality(kept) : res[n] = vec[at(n)] /\ res[n] \in T
  BY <1>1, <1>2, <1>4, <1>5
<1>7. res \in Seq(T) /\ Len(res) = Cardinality(kept)
  <2>1. res \in [1..Cardinality(kept) -> T]
    BY <1>5, <1>6
  <2>2. res \in Seq(T)
    BY <1>3, <2>1, SeqDef
  <2>3. QED
    BY <1>3, <2>1, <2>2, LenProperties
<1>8. \A i \in kept : /\ Rank(kept, i) \in 1..Cardinality(kept)
                      /\ res[Rank(kept, i)] = vec[i]
  <2> SUFFICES ASSUME NEW i \in kept
               PROVE  /\ Rank(kept, i) \in 1..Cardinality(kept)
                      /\ res[Rank(kept, i)] = vec[i]
    OBVIOUS
  <2>1. Rank(kept, i) \in 1..Cardinality(kept)
    BY <1>2, <1>3, RankStrict
  <2>2. at(Rank(kept, i)) = i
    <3>1. /\ at(Rank(kept, i)) \in kept
          /\ Rank(kept, at(Rank(kept, i))) = Rank(kept, i)
      BY <1>4, <2>1
    <3>2. ASSUME NEW j \in kept, Rank(kept, j) = Rank(kept, i)
          PROVE  j = i
      BY <1>2, <1>3, <3>2, RankInjective
    <3>3. QED
      BY <3>1, <3>2
  <2>3. QED
    BY <1>6, <2>1, <2>2
<1>9. \A n \in 1..Len(res) : \E i \in kept :
        res[n] = vec[i] /\ Rank(kept, i) = n
  BY <1>4, <1>6, <1>7
<1>10. QED
  BY <1>2, <1>3, <1>7, <1>8, <1>9 DEF kept, res

\* retain leaves exactly the elements of the vector that are to be kept.
LEMMA RetainRange ==
  ASSUME NEW T, NEW vec \in Seq(T), NEW keep
  PROVE  Range(Retain(vec, keep)) = Range(vec) \cap keep
<1> DEFINE kept == KeptAt(vec, keep)
           res == Retain(vec, keep)
<1>1. /\ DOMAIN res = 1..Len(res) /\ DOMAIN vec = 1..Len(vec)
      /\ \A i \in kept : i \in DOMAIN vec /\ vec[i] \in keep
  BY RetainProperties, LenProperties DEF KeptAt
<1>2. ASSUME NEW x \in Range(res)
      PROVE  x \in Range(vec) \cap keep
  <2>1. PICK n \in 1..Len(res) : x = res[n]
    BY <1>1 DEF Range
  <2>2. PICK i \in kept : res[n] = vec[i]
    BY RetainProperties
  <2>3. QED
    BY <1>1, <2>1, <2>2 DEF Range
<1>3. ASSUME NEW x \in Range(vec), x \in keep
      PROVE  x \in Range(res)
  <2>1. PICK i \in kept : x = vec[i]
    BY <1>3 DEF Range, KeptAt
  <2>2. Rank(kept, i) \in 1..Len(res) /\ res[Rank(kept, i)] = vec[i]
    BY RetainProperties
  <2>3. QED
    BY <1>1, <2>1, <2>2 DEF Range
<1>4. QED
  BY <1>2, <1>3

\* try_push below the bound: the new element comes last, and the rest of the
\* vector is as it was.
LEMMA PushProperties ==
  ASSUME NEW T, NEW vec \in Seq(T), NEW elem \in T, NEW bound \in Nat,
         HasRoom(vec, bound)
  PROVE  /\ Append(vec, elem) \in Seq(T)
         /\ Len(Append(vec, elem)) = Len(vec) + 1
         /\ Len(Append(vec, elem)) <= bound
         /\ DOMAIN Append(vec, elem) = (DOMAIN vec) \cup {Len(vec) + 1}
         /\ Len(vec) + 1 \notin DOMAIN vec
         /\ \A i \in DOMAIN vec : Append(vec, elem)[i] = vec[i]
         /\ Append(vec, elem)[Len(vec) + 1] = elem
         /\ Range(Append(vec, elem)) = Range(vec) \cup {elem}
<1> DEFINE res == Append(vec, elem)
<1>1. /\ Len(vec) \in Nat /\ DOMAIN vec = 1..Len(vec)
      /\ res \in Seq(T) /\ Len(res) = Len(vec) + 1
      /\ \A i \in 1..Len(vec) : res[i] = vec[i]
      /\ res[Len(vec) + 1] = elem
  BY LenProperties, AppendProperties
<1>2. DOMAIN res = 1..(Len(vec) + 1)
  BY <1>1, LenProperties
<1>3. 1..(Len(vec) + 1) = (1..Len(vec)) \cup {Len(vec) + 1}
  BY <1>1
<1> HIDE DEF res
<1>4. Range(res) = Range(vec) \cup {elem}
  BY <1>1, <1>2, <1>3 DEF Range
<1>5. QED
  BY <1>1, <1>2, <1>3, <1>4 DEF HasRoom, res
-----------------------------------------------------------------------------
\* The state invariants of DidPallet together, and what they need to be
\* inductive: a document is stored under its controller, and its block
\* numbers are in order.
DocumentInOrder(who) ==
  LET doc == DidDocuments[who]
  IN  /\ doc.controller = who
      /\ doc.created_at <= doc.updated_at
      /\ doc.updated_at <= now

DidInv ==
  /\ DidTypeOK
  /\ \A who \in Accounts : HasDid(who) => DocumentInOrder(who)
  /\ KeysDistinctAndBounded
  /\ InstitutionHasDid

\* The calls of the pallet, each from the kind of origin it demands.
DidStep ==
  \/ \E origin \in Accounts, key \in PublicKeys, type \in KeyTypes :
       CreateDid(origin, key, type) \/ AddPublicKey(origin, key, type)
  \/ \E origin \in Accounts, keyId \in KeyIds : RemovePublicKey(origin, keyId)
  \/ \E origin \in Accounts : DeactivateDid(origin) \/ ReactivateDid(origin)
  \/ \E origin \in Accounts, name \in Names : RegisterInstitution(origin, name)
  \/ \E who \in Accounts :
       VerifyInstitution(Root, who) \/ RevokeInstitution(Root, who)

\* A call that is applied comes from the kind of origin it demands.
LEMMA AppliedCalls ==
  ASSUME NEW origin \in Origins, DidCall(origin)
  PROVE  DidStep
BY DEF DidCall, DidStep, CreateDid, AddPublicKey, RemovePublicKey,
       DeactivateDid, ReactivateDid, RegisterInstitution, VerifyInstitution,
       RevokeInstitution, Dispatched, CreateDidResult, AddPublicKeyResult,
       RemovePublicKeyResult, OwnDidResult, RegisterInstitutionResult,
       RootOnInstitutionResult, IsSigned, IsRoot, Ok, Origins

\* The keys of one document are within the bound and distinct.
KeysInOrder(keys) ==
  /\ Len(keys) <= MaxPublicKeys
  /\ \A i, j \in DOMAIN keys : keys[i].key_id = keys[j].key_id => i = j

\* What every call on a document does: it stores one document for the account
\* that signs, stamped with the current block, with its keys in order; the first
\* document is active, and a later one is created when the document it replaces
\* was, and has no new key if that is inactive.
SoundDocument(origin, doc) ==
  /\ doc.controller = origin /\ doc.updated_at = now
  /\ doc.created_at <= doc.updated_at
  /\ KeysInOrder(doc.public_keys)
  /\ HasDid(origin) \/ doc.active
  /\ HasDid(origin) =>
       /\ doc.created_at = DidDocuments[origin].created_at
       /\ \/ DidDocuments[origin].active
          \/ Range(doc.public_keys)
               \subseteq Range(DidDocuments[origin].public_keys)

DocumentUpdate(origin) ==
  /\ signer' = origin
  /\ UNCHANGED <<now, Institutions>>
  /\ \E doc \in DidDocument :
       /\ DidDocuments' = [DidDocuments EXCEPT ![origin] = doc]
       /\ SoundDocument(origin, doc)

\* What every call on an institution does: it stores one record for an account
\* with a DID; the first is unverified and made by the account, and afterwards
\* root changes nothing but the verification.
SoundInstitution(who, institution) ==
  /\ institution.did = who
  /\ DidDocuments[who].created_at <= institution.registered_at
  /\ institution.registered_at <= now
  /\ IF IsInstitution(who)
     THEN \E flag \in BOOLEAN :
            institution = [Institutions[who] EXCEPT !.verified = flag]
     ELSE institution.verified = FALSE

InstitutionUpdate(who) ==
  /\ signer' = IF IsInstitution(who) THEN Root ELSE who
  /\ UNCHANGED <<now, DidDocuments>>
  /\ HasDid(who)
  /\ \E institution \in Institution :
       /\ Institutions' = [Institutions EXCEPT ![who] = institution]
       /\ SoundInstitution(who, institution)

\* Such an update of a document preserves the invariant.
LEMMA DocumentStored ==
  ASSUME DidInv, NEW origin \in Accounts, DocumentUpdate(origin)
  PROVE  DidInv'
<1>0. PICK doc \in DidDocument :
        /\ DidDocuments' = [DidDocuments EXCEPT ![origin] = doc]
        /\ SoundDocument(origin, doc)
  BY DEF DocumentUpdate
<1> USE DEF HasDid, IsInstitution
<1>1. DidDocuments \in [Accounts -> DidDocument \cup {None}]
  BY DEF DidInv, DidTypeOK
<1>2. DidTypeOK'
  BY <1>0, <1>1
     DEF DidInv, DidTypeOK, FrameTypeOK, DocumentUpdate, Origins
<1>3. \A who \in Accounts :
        DidDocuments'[who] = IF who = origin THEN doc ELSE DidDocuments[who]
  BY <1>0, <1>1
<1>4. doc # None
  BY NoneAssumption
<1>5. now \in Nat
  BY MaxBlockAssumption DEF DidInv, DidTypeOK, FrameTypeOK
<1>6. (\A who \in Accounts : HasDid(who) => DocumentInOrder(who))'
  BY <1>0, <1>3, <1>5
     DEF DidInv, DocumentInOrder, SoundDocument, DocumentUpdate
<1>7. KeysDistinctAndBounded'
  BY <1>0, <1>3
     DEF DidInv, KeysDistinctAndBounded, KeysInOrder, SoundDocument
<1>8. InstitutionHasDid'
  BY <1>0, <1>3, <1>4
     DEF DidInv, InstitutionHasDid, SoundDocument, DocumentUpdate
<1>9. QED
  BY <1>2, <1>6, <1>7, <1>8 DEF DidInv

\* Such an update of an institution preserves the invariant.
LEMMA InstitutionStored ==
  ASSUME DidInv, NEW who \in Accounts, InstitutionUpdate(who)
  PROVE  DidInv'
<1>0. PICK institution \in Institution :
        /\ Institutions' = [Institutions EXCEPT ![who] = institution]
        /\ SoundInstitution(who, institution)
  BY DEF InstitutionUpdate
<1> USE DEF HasDid, IsInstitution
<1>1. Institutions \in [Accounts -> Institution \cup {None}]
  BY DEF DidInv, DidTypeOK
<1>2. DidTypeOK'
  BY <1>0, <1>1
     DEF DidInv, DidTypeOK, FrameTypeOK, InstitutionUpdate, Origins
<1>3. (\A a \in Accounts : HasDid(a) => DocumentInOrder(a))'
  BY DEF DidInv, DocumentInOrder, InstitutionUpdate
<1>4. KeysDistinctAndBounded'
  BY DEF DidInv, KeysDistinctAndBounded, InstitutionUpdate
<1>5. InstitutionHasDid'
  BY <1>0, <1>1
     DEF DidInv, InstitutionHasDid, InstitutionUpdate, SoundInstitution
<1>6. QED
  BY <1>2, <1>3, <1>4, <1>5 DEF DidInv

\* What the calls on an existing document know of it.
LEMMA OwnDocument ==
  ASSUME DidInv, NEW origin \in Accounts, HasDid(origin)
  PROVE  LET doc == DidDocuments[origin]
         IN  /\ doc \in DidDocument
             /\ doc.controller = origin
             /\ doc.created_at <= doc.updated_at /\ doc.updated_at <= now
             /\ KeysInOrder(doc.public_keys)
             /\ doc.public_keys \in Seq(PublicKeyEntry)
             /\ now \in Nat
<1>1. DidDocuments[origin] \in DidDocument
  BY DEF DidInv, DidTypeOK, HasDid
<1>2. KeysInOrder(DidDocuments[origin].public_keys)
  BY DEF DidInv, KeysDistinctAndBounded, KeysInOrder
<1>3. DocumentInOrder(origin) /\ now \in Nat
  BY MaxBlockAssumption DEF DidInv, DidTypeOK, FrameTypeOK
<1>4. DidDocuments[origin].public_keys \in Seq(PublicKeyEntry)
  BY <1>1 DEF DidDocument
<1>5. QED
  BY <1>1, <1>2, <1>3, <1>4 DEF DocumentInOrder

\* create_did stores a sound document.
LEMMA CreateDidUpdates ==
  ASSUME DidInv, NEW origin \in Accounts, NEW key \in PublicKeys,
         NEW type \in KeyTypes, CreateDid(origin, key, type)
  PROVE  DocumentUpdate(origin)
<1> DEFINE doc ==
      [controller |-> origin, public_keys |-> <<KeyEntry(key, type)>>,
       created_at |-> now, updated_at |-> now, active |-> TRUE]
<1>1. KeyEntry(key, type) \in PublicKeyEntry
  BY KeyAssumption DEF KeyEntry, PublicKeyEntry
<1>2. now \in Nat
  BY MaxBlockAssumption DEF DidInv, DidTypeOK, FrameTypeOK
<1>3. doc \in DidDocument
  BY <1>1, <1>2 DEF DidDocument
<1>4. /\ CreateDidResult(origin) = Ok
      /\ signer' = origin
      /\ DidDocuments' = [DidDocuments EXCEPT ![origin] = doc]
      /\ UNCHANGED <<now, Institutions>>
  BY DEF CreateDid, Dispatched
<1>5. ~HasDid(origin) /\ HasRoom(<<>>, MaxPublicKeys)
  BY <1>4 DEF CreateDidResult, Ok
<1>6. KeysInOrder(doc.public_keys)
  BY <1>5, MaxPublicKeysAssumption DEF HasRoom, KeysInOrder
<1>7. /\ doc.controller = origin /\ doc.updated_at = now
      /\ doc.created_at <= doc.updated_at
      /\ doc.active
  BY <1>2
<1> HIDE DEF doc
<1>8. QED
  BY <1>3, <1>4, <1>5, <1>6, <1>7 DEF DocumentUpdate, SoundDocument

\* add_public_key stores a sound document: the new key differs from the others.
LEMMA AddPublicKeyUpdates ==
  ASSUME DidInv, NEW origin \in Accounts, NEW key \in PublicKeys,
         NEW type \in KeyTypes, AddPublicKey(origin, key, type)
  PROVE  DocumentUpdate(origin)
<1> DEFINE old == DidDocuments[origin]
           entry == KeyEntry(key, type)
           keys == Append(old.public_keys, entry)
           doc == [old EXCEPT !.public_keys = keys, !.updated_at = now]
<1>1. entry \in PublicKeyEntry /\ entry.key_id = Blake2_256[key]
  BY KeyAssumption DEF KeyEntry, PublicKeyEntry
<1>2. /\ AddPublicKeyResult(origin, key) = Ok
      /\ signer' = origin
      /\ UNCHANGED <<now, Institutions>>
  BY DEF AddPublicKey, Dispatched
<1>3. /\ HasDid(origin)
      /\ KeyEntriesWith(origin, Blake2_256[key]) = {}
      /\ HasRoom(old.public_keys, MaxPublicKeys)
  BY <1>2 DEF AddPublicKeyResult, OwnDidResult, Ok
<1>4. /\ old \in DidDocument /\ old.controller = origin
      /\ old.created_at <= old.updated_at /\ old.updated_at <= now
      /\ KeysInOrder(old.public_keys)
      /\ old.public_keys \in Seq(PublicKeyEntry)
      /\ now \in Nat
  BY <1>3, OwnDocument
<1>5. DidDocuments' = [DidDocuments EXCEPT ![origin] = doc]
  BY DEF AddPublicKey
<1>6. /\ keys \in Seq(PublicKeyEntry)
      /\ Len(keys) <= MaxPublicKeys
      /\ DOMAIN keys = DOMAIN old.public_keys \cup {Len(old.public_keys) + 1}
      /\ \A i \in DOMAIN old.public_keys : keys[i] = old.public_keys[i]
      /\ keys[Len(old.public_keys) + 1] = entry
  BY <1>1, <1>3, <1>4, PushProperties, MaxPublicKeysAssumption
<1>7. \A i \in DOMAIN old.public_keys :
        old.public_keys[i].key_id # entry.key_id
  BY <1>1, <1>3 DEF KeyEntriesWith, Range
<1> HIDE DEF keys, entry
<1>8. KeysInOrder(keys)
  BY <1>4, <1>6, <1>7 DEF KeysInOrder
<1>9. doc \in DidDocument
  BY <1>4, <1>6 DEF DidDocument
<1>10. /\ doc.controller = origin /\ doc.updated_at = now
       /\ doc.created_at = old.created_at
       /\ doc.public_keys = keys
       /\ doc.created_at <= doc.updated_at
  BY <1>4 DEF DidDocument
<1>11. old.active
  BY <1>2 DEF AddPublicKeyResult, OwnDidResult, Ok
<1> HIDE DEF doc
<1>12. QED
  BY <1>2, <1>3, <1>5, <1>8, <1>9, <1>10, <1>11 DEF DocumentUpdate, SoundDocument

\* Removing keys from a document leaves its other keys in order.
LEMMA RetainKeepsOrder ==
  ASSUME NEW keys \in Seq(PublicKeyEntry), KeysInOrder(keys), NEW keep
  PROVE  /\ Retain(keys, keep) \in Seq(PublicKeyEntry)
         /\ KeysInOrder(Retain(keys, keep))
<1> DEFINE kept == KeptAt(keys, keep)
           res == Retain(keys, keep)
<1>1. /\ res \in Seq(PublicKeyEntry)
      /\ Len(res) <= Len(keys)
      /\ \A n \in 1..Len(res) : \E i \in kept :
           res[n] = keys[i] /\ Rank(kept, i) = n
  BY RetainProperties
<1>2. /\ DOMAIN res = 1..Len(res) /\ Len(res) \in Nat
      /\ Len(keys) \in Nat
      /\ \A i \in kept : i \in DOMAIN keys
  BY <1>1, LenProperties DEF KeptAt
<1> HIDE DEF res, kept
<1>3. Len(res) <= MaxPublicKeys
  BY <1>1, <1>2, MaxPublicKeysAssumption DEF KeysInOrder
<1>4. ASSUME NEW m \in DOMAIN res, NEW n \in DOMAIN res,
             res[m].key_id = res[n].key_id
      PROVE  m = n
  <2>1. PICK i \in kept : res[m] = keys[i] /\ Rank(kept, i) = m
    BY <1>1, <1>2
  <2>2. PICK j \in kept : res[n] = keys[j] /\ Rank(kept, j) = n
    BY <1>1, <1>2
  <2>3. i = j
    BY <1>2, <1>4, <2>1, <2>2 DEF KeysInOrder
  <2>4. QED
    BY <2>1, <2>2, <2>3
<1>5. QED
  BY <1>1, <1>3, <1>4 DEF KeysInOrder, res

\* remove_public_key stores a sound document, with fewer keys.
LEMMA RemovePublicKeyUpdates ==
  ASSUME DidInv, NEW origin \in Accounts, NEW keyId \in KeyIds,
         RemovePublicKey(origin, keyId)
  PROVE  DocumentUpdate(origin)
<1> DEFINE old == DidDocuments[origin]
           keep == Range(old.public_keys) \ KeyEntriesWith(origin, keyId)
           keys == Retain(old.public_keys, keep)
           doc == [old EXCEPT !.public_keys = keys, !.updated_at = now]
<1>1. /\ RemovePublicKeyResult(origin, keyId) = Ok
      /\ signer' = origin
      /\ UNCHANGED <<now, Institutions>>
  BY DEF RemovePublicKey, Dispatched
<1>2. HasDid(origin)
  BY <1>1 DEF RemovePublicKeyResult, OwnDidResult, Ok
<1>3. /\ old \in DidDocument /\ old.controller = origin
      /\ old.created_at <= old.updated_at /\ old.updated_at <= now
      /\ KeysInOrder(old.public_keys)
      /\ old.public_keys \in Seq(PublicKeyEntry)
      /\ now \in Nat
  BY <1>2, OwnDocument
<1>4. DidDocuments' = [DidDocuments EXCEPT ![origin] = doc]
  BY DEF RemovePublicKey
<1>5. /\ keys \in Seq(PublicKeyEntry) /\ KeysInOrder(keys)
      /\ Range(keys) \subseteq Range(old.public_keys)
  BY <1>3, RetainKeepsOrder, RetainRange
<1> HIDE DEF keys
<1>6. doc \in DidDocument
  BY <1>3, <1>5 DEF DidDocument
<1>7. /\ doc.controller = origin /\ doc.updated_at = now
      /\ doc.created_at = old.created_at
      /\ doc.public_keys = keys
      /\ doc.created_at <= doc.updated_at
  BY <1>3 DEF DidDocument
<1> HIDE DEF doc
<1>8. QED
  BY <1>1, <1>2, <1>4, <1>5, <1>6, <1>7 DEF DocumentUpdate, SoundDocument

\* deactivate_did and reactivate_did store a sound document.
LEMMA ActivationUpdates ==
  ASSUME DidInv, NEW origin \in Accounts,
         DeactivateDid(origin) \/ ReactivateDid(origin)
  PROVE  DocumentUpdate(origin)
<1> DEFINE old == DidDocuments[origin]
           on == [old EXCEPT !.active = TRUE, !.updated_at = now]
           off == [old EXCEPT !.active = FALSE, !.updated_at = now]
           Follows(doc) ==
             /\ doc.controller = origin /\ doc.updated_at = now
             /\ doc.created_at = old.created_at
             /\ doc.public_keys = old.public_keys
<1>1. \/ DidDocuments' = [DidDocuments EXCEPT ![origin] = on]
      \/ DidDocuments' = [DidDocuments EXCEPT ![origin] = off]
  BY DEF DeactivateDid, ReactivateDid
<1>2. /\ OwnDidResult(origin) = Ok
      /\ signer' = origin
      /\ UNCHANGED <<now, Institutions>>
  BY DEF DeactivateDid, ReactivateDid, Dispatched
<1>3. HasDid(origin)
  BY <1>2 DEF OwnDidResult, Ok
<1>4. /\ old \in DidDocument /\ old.controller = origin
      /\ old.created_at <= old.updated_at /\ old.updated_at <= now
      /\ KeysInOrder(old.public_keys)
      /\ now \in Nat
  BY <1>3, OwnDocument
<1>5. on \in DidDocument /\ Follows(on)
  BY <1>4, Zenon DEF DidDocument
<1>6. off \in DidDocument /\ Follows(off)
  BY <1>4, Zenon DEF DidDocument
<1>7. old.created_at <= now
  BY <1>4 DEF DidDocument
<1> HIDE DEF on, off
<1>8. SoundDocument(origin, on) /\ SoundDocument(origin, off)
  BY <1>3, <1>4, <1>5, <1>6, <1>7 DEF SoundDocument
<1>9. QED
  BY <1>1, <1>2, <1>5, <1>6, <1>8 DEF DocumentUpdate

\* register_institution stores a sound, unverified record.
LEMMA RegisterInstitutionUpdates ==
  ASSUME DidInv, NEW origin \in Accounts, NEW name \in Names,
         RegisterInstitution(origin, name)
  PROVE  InstitutionUpdate(origin)
<1> DEFINE institution ==
      [name |-> name, did |-> origin, verified |-> FALSE,
       registered_at |-> now]
<1>1. /\ RegisterInstitutionResult(origin, name) = Ok
      /\ signer' = origin
      /\ UNCHANGED <<now, DidDocuments>>
      /\ Institutions' = [Institutions EXCEPT ![origin] = institution]
  BY DEF RegisterInstitution, Dispatched
<1>2. HasDid(origin) /\ ~IsInstitution(origin)
  BY <1>1 DEF RegisterInstitutionResult, Ok
<1>3. /\ DidDocuments[origin] \in DidDocument
      /\ DidDocuments[origin].created_at <= DidDocuments[origin].updated_at
      /\ DidDocuments[origin].updated_at <= now
      /\ now \in Nat
  BY <1>2, OwnDocument
<1>4. DidDocuments[origin].created_at <= now
  BY <1>3 DEF DidDocument
<1>5. institution \in Institution
  BY <1>3 DEF Institution
<1>6. /\ institution.did = origin
      /\ DidDocuments[origin].created_at <= institution.registered_at
      /\ institution.registered_at <= now
  BY <1>3, <1>4
<1>7. institution.verified = FALSE
  OBVIOUS
<1> HIDE DEF institution
<1>8. QED
  BY <1>1, <1>2, <1>5, <1>6, <1>7 DEF InstitutionUpdate, SoundInstitution

\* verify_institution and revoke_institution change the verification only.
LEMMA VerificationUpdates ==
  ASSUME DidInv, NEW who \in Accounts,
         VerifyInstitution(Root, who) \/ RevokeInstitution(Root, who)
  PROVE  InstitutionUpdate(who)
<1> DEFINE old == Institutions[who]
           verified == [old EXCEPT !.verified = TRUE]
           revoked == [old EXCEPT !.verified = FALSE]
           Follows(institution) ==
             /\ institution.did = who
             /\ institution.registered_at = old.registered_at
<1>1. \/ Institutions' = [Institutions EXCEPT ![who] = verified]
      \/ Institutions' = [Institutions EXCEPT ![who] = revoked]
  BY DEF VerifyInstitution, RevokeInstitution
<1>2. /\ RootOnInstitutionResult(Root, who) = Ok
      /\ signer' = Root
      /\ UNCHANGED <<now, DidDocuments>>
  BY DEF VerifyInstitution, RevokeInstitution, Dispatched
<1>3. IsInstitution(who)
  BY <1>2 DEF RootOnInstitutionResult, Ok
<1>4. /\ old \in Institution
      /\ old.did = who
      /\ HasDid(who)
      /\ DidDocuments[who].created_at <= old.registered_at
      /\ old.registered_at <= now
  BY <1>3 DEF DidInv, DidTypeOK, InstitutionHasDid, IsInstitution
<1>5. verified \in Institution /\ Follows(verified)
  BY <1>4 DEF Institution
<1>6. revoked \in Institution /\ Follows(revoked)
  BY <1>4 DEF Institution
<1>7. /\ \E flag \in BOOLEAN : verified = [old EXCEPT !.verified = flag]
      /\ \E flag \in BOOLEAN : revoked = [old EXCEPT !.verified = flag]
  BY Zenon
<1> HIDE DEF verified, revoked
<1>8. SoundInstitution(who, verified) /\ SoundInstitution(who, revoked)
  BY <1>3, <1>4, <1>5, <1>6, <1>7 DEF SoundInstitution
<1>9. QED
  BY <1>1, <1>2, <1>3, <1>4, <1>5, <1>6, <1>8 DEF InstitutionUpdate

\* The next block leaves the order of the block numbers as it is.
LEMMA ProduceBlockPreserves ==
  ASSUME DidInv, ProduceBlock, UNCHANGED didVars
  PROVE  DidInv'
<1> USE DEF HasDid, IsInstitution, didVars
<1>1. now \in Nat /\ now' = now + 1 /\ now' \in 0..MaxBlock
  BY MaxBlockAssumption DEF ProduceBlock, DidInv, DidTypeOK, FrameTypeOK
<1>2. DidTypeOK'
  BY <1>1 DEF ProduceBlock, DidInv, DidTypeOK, FrameTypeOK
<1>3. (\A who \in Accounts : HasDid(who) => DocumentInOrder(who))'
  BY <1>1 DEF DidInv, DidTypeOK, DocumentInOrder, DidDocument
<1>4. KeysDistinctAndBounded'
  BY DEF DidInv, KeysDistinctAndBounded
<1>5. InstitutionHasDid'
  BY <1>1 DEF DidInv, DidTypeOK, InstitutionHasDid, Institution
<1>6. QED
  BY <1>2, <1>3, <1>4, <1>5 DEF DidInv

\* The invariant holds on the empty chain.
LEMMA DidInvInitially ==
  ASSUME FrameInit, DidInit
  PROVE  DidInv
BY MaxBlockAssumption
   DEF FrameInit, DidInit, DidInv, DidTypeOK, FrameTypeOK, Origins, HasDid,
       IsInstitution, KeysDistinctAndBounded, InstitutionHasDid

\* Every step of the pallet is a block, or one sound update of one account.
LEMMA DidSteps ==
  ASSUME DidInv, DidNext
  PROVE  \/ ProduceBlock /\ UNCHANGED didVars
         \/ \E who \in Accounts : DocumentUpdate(who) \/ InstitutionUpdate(who)
<1>1. CASE ProduceBlock /\ UNCHANGED didVars
  BY <1>1
<1>2. CASE \E origin \in Origins : DidCall(origin)
  <2>1. DidStep
    BY <1>2, AppliedCalls
  <2>2. QED
    BY <2>1, CreateDidUpdates, AddPublicKeyUpdates, RemovePublicKeyUpdates,
       ActivationUpdates, RegisterInstitutionUpdates, VerificationUpdates
       DEF DidStep
<1>3. QED
  BY <1>1, <1>2 DEF DidNext

\* Every step preserves the invariant.
LEMMA DidInvPreserved ==
  ASSUME DidInv, [DidNext]_<<frameVars, didVars>>
  PROVE  DidInv'
<1>1. CASE DidNext
  BY <1>1, DidSteps, DocumentStored, InstitutionStored, ProduceBlockPreserves
<1>2. CASE UNCHANGED <<frameVars, didVars>>
  BY <1>2 DEF frameVars, didVars, DidInv, DidTypeOK, FrameTypeOK, HasDid,
     IsInstitution, DocumentInOrder, KeysDistinctAndBounded,
     InstitutionHasDid
<1>3. QED
  BY <1>1, <1>2

\* In every behaviour of the did pallet, for all accounts, keys and bounds,
\* the invariant holds in every state.
THEOREM DidInvariance == DidSpec => []DidInv
<1>1. DidGenesis => DidInv
  BY DidInvInitially DEF DidGenesis
<1>2. DidInv /\ [DidNext]_<<frameVars, didVars>> => DidInv'
  BY DidInvPreserved
<1>3. QED
  BY <1>1, <1>2, PTL DEF DidSpec

\* The storage of the did pallet is always of its type.
THEOREM DidTypeCorrect == DidSpec => []DidTypeOK
<1>1. DidInv => DidTypeOK
  BY DEF DidInv
<1>2. QED
  BY <1>1, DidInvariance, PTL

\* No sequence of calls gives a document two entries with one key id, or more
\* keys than MaxPublicKeys.
THEOREM KeysCorrect == DidSpec => []KeysDistinctAndBounded
<1>1. DidInv => KeysDistinctAndBounded
  BY DEF DidInv
<1>2. QED
  BY <1>1, DidInvariance, PTL

\* A registered institution always has the DID it was registered under.
THEOREM InstitutionsCorrect == DidSpec => []InstitutionHasDid
<1>1. DidInv => InstitutionHasDid
  BY DEF DidInv
<1>2. QED
  BY <1>1, DidInvariance, PTL

\* What a step may do, for every step from a state in which the invariant
\* holds.
LEMMA DocumentsStep ==
  ASSUME DidInv, [DidNext]_<<frameVars, didVars>>, NEW who \in Accounts,
         DidDocuments'[who] # DidDocuments[who]
  PROVE  /\ signer' = who
         /\ \E doc \in DidDocument :
              DidDocuments'[who] = doc /\ SoundDocument(who, doc)
<1>1. DidDocuments \in [Accounts -> DidDocument \cup {None}]
  BY DEF DidInv, DidTypeOK
<1>2. DidNext
  BY DEF frameVars, didVars
<1>3. ~(ProduceBlock /\ UNCHANGED didVars)
  BY DEF didVars
<1>4. PICK a \in Accounts : DocumentUpdate(a) \/ InstitutionUpdate(a)
  BY <1>2, <1>3, DidSteps
<1>5. DocumentUpdate(a)
  BY <1>4 DEF InstitutionUpdate
<1>6. QED
  BY <1>1, <1>5 DEF DocumentUpdate

\* The same for the institutions.
LEMMA InstitutionsStep ==
  ASSUME DidInv, [DidNext]_<<frameVars, didVars>>, NEW who \in Accounts,
         Institutions'[who] # Institutions[who]
  PROVE  /\ signer' = IF IsInstitution(who) THEN Root ELSE who
         /\ \E institution \in Institution :
              /\ Institutions'[who] = institution
              /\ SoundInstitution(who, institution)
<1>1. Institutions \in [Accounts -> Institution \cup {None}]
  BY DEF DidInv, DidTypeOK
<1>2. DidNext
  BY DEF frameVars, didVars
<1>3. ~(ProduceBlock /\ UNCHANGED didVars)
  BY DEF didVars
<1>4. PICK a \in Accounts : DocumentUpdate(a) \/ InstitutionUpdate(a)
  BY <1>2, <1>3, DidSteps
<1>5. InstitutionUpdate(a)
  BY <1>4 DEF DocumentUpdate
<1>6. QED
  BY <1>1, <1>5 DEF InstitutionUpdate

\* A document changes only by an extrinsic of its own account, which stamps it
\* and keeps its controller and the block it was created in.
THEOREM OwnershipCorrect == DidSpec => OwnerChangesDid
<1> DEFINE Changed(who) ==
      /\ signer' = who
      /\ DidDocuments'[who] # None
      /\ DidDocuments'[who].updated_at = now
      /\ HasDid(who) =>
           /\ DidDocuments'[who].created_at = DidDocuments[who].created_at
           /\ DidDocuments'[who].controller = DidDocuments[who].controller
<1>1. ASSUME DidInv, [DidNext]_<<frameVars, didVars>>, NEW who \in Accounts,
             DidDocuments'[who] # DidDocuments[who]
      PROVE  Changed(who)
  <2>1. PICK doc \in DidDocument :
          DidDocuments'[who] = doc /\ SoundDocument(who, doc)
    BY <1>1, DocumentsStep
  <2>2. signer' = who
    BY <1>1, DocumentsStep
  <2>3. HasDid(who) => DidDocuments[who].controller = who
    BY <1>1 DEF DidInv, DocumentInOrder
  <2>4. QED
    BY <2>1, <2>2, <2>3, NoneAssumption DEF SoundDocument
<1>2. DidInv /\ [DidNext]_<<frameVars, didVars>> =>
        [\A who \in Accounts :
           DidDocuments'[who] # DidDocuments[who] => Changed(who)
        ]_<<frameVars, didVars>>
  BY <1>1
<1>3. QED
  BY <1>2, DidInvariance, PTL DEF DidSpec, OwnerChangesDid

\* Only root verifies an institution or takes the verification back, and it
\* changes nothing else of the record.
THEOREM VerificationCorrect == DidSpec => OnlyRootVerifies
<1> DEFINE Changed(who) ==
      /\ Institutions'[who] # None
      /\ IF IsInstitution(who)
         THEN /\ signer' = Root
              /\ Institutions[who] =
                   [Institutions'[who] EXCEPT !.verified = ~@]
         ELSE signer' = who /\ ~Institutions'[who].verified
<1>1. ASSUME DidInv, [DidNext]_<<frameVars, didVars>>, NEW who \in Accounts,
             Institutions'[who] # Institutions[who]
      PROVE  Changed(who)
  <2>1. PICK institution \in Institution :
          /\ Institutions'[who] = institution
          /\ SoundInstitution(who, institution)
    BY <1>1, InstitutionsStep
  <2>2. signer' = IF IsInstitution(who) THEN Root ELSE who
    BY <1>1, InstitutionsStep
  <2>3. CASE IsInstitution(who)
    <3> DEFINE old == Institutions[who]
    <3>1. old \in Institution
      BY <1>1, <2>3 DEF DidInv, DidTypeOK, IsInstitution
    <3>2. PICK flag \in BOOLEAN : institution = [old EXCEPT !.verified = flag]
      BY <2>1, <2>3 DEF SoundInstitution
    <3>3. old.verified \in BOOLEAN /\ institution # old
      BY <1>1, <2>1, <3>1 DEF Institution
    <3>4. old = [old EXCEPT !.verified = old.verified]
      BY <3>1 DEF Institution
    <3>5. flag # old.verified
      BY <3>2, <3>3, <3>4
    <3>6. old.verified = ~institution.verified
      BY <3>1, <3>2, <3>3, <3>5, Zenon DEF Institution
    <3>7. old = [institution EXCEPT !.verified = old.verified]
      BY <3>1, <3>2 DEF Institution
    <3> HIDE DEF old
    <3>8. old = [institution EXCEPT !.verified = ~@]
      BY <3>6, <3>7
    <3>9. QED
      BY <2>1, <2>2, <2>3, <3>8, NoneAssumption DEF old
  <2>4. CASE ~IsInstitution(who)
    BY <2>1, <2>2, <2>4, NoneAssumption DEF SoundInstitution
  <2>5. QED
    BY <2>3, <2>4
<1>2. DidInv /\ [DidNext]_<<frameVars, didVars>> =>
        [\A who \in Accounts :
           Institutions'[who] # Institutions[who] => Changed(who)
        ]_<<frameVars, didVars>>
  BY <1>1
<1>3. QED
  BY <1>2, DidInvariance, PTL DEF DidSpec, OnlyRootVerifies

\* The keys of an inactive document can only become fewer.
THEOREM InactiveKeysCorrect == DidSpec => NoKeyAddedWhileInactive
<1>1. ASSUME DidInv, [DidNext]_<<frameVars, didVars>>, NEW who \in Accounts,
             HasDid(who), ~DidDocuments[who].active
      PROVE  Range(DidDocuments'[who].public_keys)
               \subseteq Range(DidDocuments[who].public_keys)
  <2>1. CASE DidDocuments'[who] = DidDocuments[who]
    BY <2>1
  <2>2. CASE DidDocuments'[who] # DidDocuments[who]
    BY <1>1, <2>2, DocumentsStep DEF SoundDocument
  <2>3. QED
    BY <2>1, <2>2
<1>2. DidInv /\ [DidNext]_<<frameVars, didVars>> =>
        [\A who \in Accounts :
           HasDid(who) /\ ~DidDocuments[who].active =>
             Range(DidDocuments'[who].public_keys)
                \subseteq Range(DidDocuments[who].public_keys)
        ]_<<frameVars, didVars>>
  BY <1>1
<1>3. QED
  BY <1>2, DidInvariance, PTL DEF DidSpec, NoKeyAddedWhileInactive
=============================================================================
