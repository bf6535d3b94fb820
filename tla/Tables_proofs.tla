---------------------------- MODULE Tables_proofs ---------------------------
(***************************************************************************)
(* What the capped insert of the handoff tables preserves, for every cap,  *)
(* every set of keys and every set of live processes.                      *)
(***************************************************************************)
EXTENDS Tables, FiniteSetTheorems, WellFoundedInduction, TLAPS

\* An insert keeps the table a table (track_process_publication, note_publish,
\* note_scan).
LEMMA InsertType ==
  ASSUME NEW K, NEW V, NEW map \in [K -> V \cup {None}], NEW k \in K,
         NEW v \in V, NEW alive, NEW cap,
         NEW result \in BoundedInserts(map, k, v, alive, cap)
  PROVE  result \in [K -> V \cup {None}]
BY DEF BoundedInserts, Retain, Without

\* What an insert leaves: the entry itself or nothing at the key, and at every
\* other key what was there before or nothing.
LEMMA InsertEntries ==
  ASSUME NEW K, NEW V, NEW map \in [K -> V \cup {None}], NEW k \in K,
         NEW v \in V, NEW alive, NEW cap,
         NEW result \in BoundedInserts(map, k, v, alive, cap), NEW j \in K
  PROVE  result[j] \in {None, IF j = k THEN v ELSE map[j]}
BY DEF BoundedInserts, Retain, Without

\* One element more is at most one more to count.
LEMMA GrowByOne ==
  ASSUME NEW S, IsFiniteSet(S), NEW x
  PROVE  Cardinality(S \cup {x}) <= Cardinality(S) + 1
<1>1. Cardinality(S \cup {x}) = IF x \in S THEN Cardinality(S)
                                ELSE Cardinality(S) + 1
  BY FS_AddElement
<1>2. Cardinality(S) \in Nat
  BY FS_CardinalityType
<1> QED
  BY <1>1, <1>2

\* A map over finitely many keys has a size.
LEMMA KeysFinite ==
  ASSUME NEW K, IsFiniteSet(K), NEW V, NEW map \in [K -> V]
  PROVE  /\ IsFiniteSet(Keys(map))
         /\ Size(map) \in Nat
<1>1. Keys(map) \subseteq K
  BY DEF Keys
<1>2. IsFiniteSet(Keys(map))
  BY <1>1, FS_Subset
<1> QED
  BY <1>2, FS_CardinalityType DEF Size

\* Dropping an entry makes a table smaller by exactly one.
LEMMA WithoutSize ==
  ASSUME NEW K, IsFiniteSet(K), NEW V, NEW map \in [K -> V],
         NEW k \in Keys(map)
  PROVE  Size(Without(map, k)) = Size(map) - 1
<1>1. Keys(Without(map, k)) = Keys(map) \ {k}
  BY DEF Keys, Without
<1>2. IsFiniteSet(Keys(map))
  BY KeysFinite
<1> QED
  BY <1>1, <1>2, FS_RemoveElement DEF Size

\* A table with fewer keys is not larger.
LEMMA SizeMonotone ==
  ASSUME NEW K, IsFiniteSet(K), NEW V, NEW map \in [K -> V],
         NEW W, NEW other \in [K -> W], Keys(other) \subseteq Keys(map)
  PROVE  Size(other) <= Size(map)
<1>1. IsFiniteSet(Keys(map))
  BY KeysFinite
<1> QED
  BY <1>1, FS_Subset DEF Size

\* The cap holds after an insert when it held before.
LEMMA InsertBounded ==
  ASSUME NEW K, IsFiniteSet(K), NEW V, None \notin V,
         NEW map \in [K -> V \cup {None}], NEW k \in K, NEW v \in V,
         NEW alive, NEW cap \in Nat, Size(map) <= cap,
         NEW result \in BoundedInserts(map, k, v, alive, cap)
  PROVE  Size(result) <= cap
<1> DEFINE purged == IF Size(map) >= cap THEN Retain(map, alive) ELSE map
           full   == [purged EXCEPT ![k] = v]
<1>1. purged \in [K -> V \cup {None}] /\ Keys(purged) \subseteq Keys(map)
  BY DEF Retain, Keys
<1>2. full \in [K -> V \cup {None}]
  BY <1>1
<1>3. Keys(full) = Keys(purged) \cup {k}
  BY <1>1 DEF Keys
<1>4. result \in IF Size(full) > cap
                   THEN {Without(full, victim) : victim \in Keys(full)}
                   ELSE {full}
  BY DEF BoundedInserts
<1> HIDE DEF purged, full
<1>5. Size(map) \in Nat /\ Size(purged) \in Nat /\ Size(full) \in Nat
  BY <1>1, <1>2, KeysFinite
<1>6. Size(purged) <= Size(map)
  BY <1>1, SizeMonotone
<1>7. Size(full) <= Size(purged) + 1
  <2>1. IsFiniteSet(Keys(purged))
    BY <1>1, KeysFinite
  <2>2. Cardinality(Keys(purged) \cup {k}) <= Cardinality(Keys(purged)) + 1
    BY <2>1, GrowByOne
  <2> QED
    BY <1>3, <2>2 DEF Size
<1>8. CASE Size(full) > cap
  <2>1. PICK victim \in Keys(full) : result = Without(full, victim)
    BY <1>4, <1>8
  <2>2. Size(result) = Size(full) - 1
    BY <1>2, <2>1, WithoutSize
  <2> QED
    BY <1>5, <1>6, <1>7, <2>2
<1>9. CASE ~(Size(full) > cap)
  BY <1>4, <1>5, <1>9
<1> QED
  BY <1>8, <1>9

\* A table with room keeps all it had and gains the entry.
LEMMA InsertWithRoom ==
  ASSUME NEW K, IsFiniteSet(K), NEW V, None \notin V,
         NEW map \in [K -> V \cup {None}], NEW k \in K, NEW v \in V,
         NEW alive, NEW cap \in Nat, Size(map) < cap,
         NEW result \in BoundedInserts(map, k, v, alive, cap)
  PROVE  result = [map EXCEPT ![k] = v]
<1> DEFINE full == [map EXCEPT ![k] = v]
<1>1. Size(map) \in Nat
  BY KeysFinite
<1>2. Keys(full) = Keys(map) \cup {k}
  BY DEF Keys
<1>3. result \in IF Size(full) > cap
                   THEN {Without(full, victim) : victim \in Keys(full)}
                   ELSE {full}
  <2>1. ~(Size(map) >= cap)
    BY <1>1
  <2> QED
    BY <2>1 DEF BoundedInserts
<1>4. full \in [K -> V \cup {None}]
  OBVIOUS
<1> HIDE DEF full
<1>5. Size(full) \in Nat
  BY <1>4, KeysFinite
<1>6. Size(full) <= Size(map) + 1
  <2>1. IsFiniteSet(Keys(map))
    BY KeysFinite
  <2>2. Cardinality(Keys(map) \cup {k}) <= Cardinality(Keys(map)) + 1
    BY <2>1, GrowByOne
  <2> QED
    BY <1>2, <2>2 DEF Size
<1>7. ~(Size(full) > cap)
  BY <1>1, <1>5, <1>6
<1> QED
  BY <1>3, <1>7 DEF full

\* Only a full table loses a live entry, and only when it holds no dead one.
LEMMA InsertEvicts ==
  ASSUME NEW K, IsFiniteSet(K), NEW V, None \notin V,
         NEW map \in [K -> V \cup {None}], NEW k \in K, NEW v \in V,
         NEW alive, NEW cap \in Nat, Size(map) <= cap,
         NEW result \in BoundedInserts(map, k, v, alive, cap),
         NEW j \in K, map[j] \in alive, map[j] # None, result[j] = None
  PROVE  /\ Size(map) = cap
         /\ \A i \in K : map[i] \in alive \cup {None}
<1> DEFINE purged == IF Size(map) >= cap THEN Retain(map, alive) ELSE map
           full   == [purged EXCEPT ![k] = v]
<1>1. purged \in [K -> V \cup {None}] /\ Keys(purged) \subseteq Keys(map)
  BY DEF Retain, Keys
<1>2. full \in [K -> V \cup {None}] /\ full[j] # None
  BY <1>1 DEF Retain
<1>3. Keys(full) = Keys(purged) \cup {k}
  BY <1>1 DEF Keys
<1>4. result \in IF Size(full) > cap
                   THEN {Without(full, victim) : victim \in Keys(full)}
                   ELSE {full}
  BY DEF BoundedInserts
<1>5. Size(map) >= cap => purged = Retain(map, alive)
  OBVIOUS
<1> HIDE DEF purged, full
<1>6. Size(map) \in Nat /\ Size(purged) \in Nat /\ Size(full) \in Nat
  BY <1>1, <1>2, KeysFinite
<1>7. IsFiniteSet(Keys(map)) /\ IsFiniteSet(Keys(purged))
  BY <1>1, KeysFinite
<1>8. Size(full) > cap
  BY <1>2, <1>4
<1>9. Size(full) <= Size(purged) + 1
  <2>1. Cardinality(Keys(purged) \cup {k}) <= Cardinality(Keys(purged)) + 1
    BY <1>7, GrowByOne
  <2> QED
    BY <1>3, <2>1 DEF Size
<1>10. Size(purged) <= Size(map)
  BY <1>1, SizeMonotone
<1>11. Size(map) = cap /\ Size(purged) = Size(map)
  BY <1>6, <1>8, <1>9, <1>10
<1>12. Keys(purged) = Keys(map)
  BY <1>1, <1>7, <1>11, FS_Subset DEF Size
<1>13. purged = Retain(map, alive)
  BY <1>5, <1>6, <1>11
<1>14. ASSUME NEW i \in K, map[i] # None PROVE map[i] \in alive
  <2>1. i \in Keys(purged)
    BY <1>12, <1>14 DEF Keys
  <2> QED
    BY <1>13, <2>1 DEF Keys, Retain
<1> QED
  BY <1>11, <1>14

-----------------------------------------------------------------------------
\* A nonempty set of numbers has a least one: what the proofs about the first
\* of many, and by a least counterexample, rest on.
LEMMA Least ==
  ASSUME NEW T \in SUBSET Nat, T # {}
  PROVE  \E m \in T : \A n \in T : m <= n
<1> DEFINE R == {ss \in Nat \X Nat : ss[1] < ss[2]}
<1>1. IsWellFoundedOn(R, Nat)
  BY NatLessThanWellFounded DEF OpToRel
<1>2. PICK m \in T : \A y \in T : ~(<<y, m>> \in R)
  BY <1>1, WFMin
<1>3. ASSUME NEW y \in T PROVE m <= y
  <2>1. m \in Nat /\ y \in Nat
    OBVIOUS
  <2>2. ~(y < m)
    BY <1>2, <2>1
  <2> QED
    BY <2>1, <2>2
<1> QED
  BY <1>3
=============================================================================
