---------------------------- MODULE NaturalOrder ----------------------------
(***************************************************************************)
(* The least-number principle as a first-order fact about sets of naturals *)
(* (a proof by induction over a property is one about the set of the       *)
(* naturals that lack it).                                                 *)
(***************************************************************************)
EXTENDS Naturals, FiniteSetTheorems, TLAPS

\* A non-empty set of naturals has a least element: of the initial segments
\* that its elements cut off, which are finite, one is minimal.
LEMMA LeastNatural ==
    ASSUME NEW S \in SUBSET Nat, S # {}
    PROVE  \E m \in S : \A k \in S : m <= k
  <1>. DEFINE Cut(k) == {j \in S : j <= k}
              Cuts   == {Cut(k) : k \in S}
              R      == StrictSubsetOrdering(Nat)
  <1>1. \A k \in S : IsFiniteSet(Cut(k))
    BY FS_BoundedSetOfNaturals
  <1>2. Cuts \subseteq FiniteSubsetsOf(Nat)
    BY <1>1 DEF FiniteSubsetsOf
  <1>3. Cuts # {}
    OBVIOUS
  <1>4. IsWellFoundedOn(R, FiniteSubsetsOf(Nat))
    BY FS_StrictSubsetOrderingWellFounded
  <1>. HIDE DEF Cuts, R
  <1>5. \E x \in Cuts : \A y \in Cuts : ~(<<y, x>> \in R)
    BY <1>2, <1>3, <1>4, WFMin
  <1>. USE DEF Cuts, R
  <1>6. PICK m \in S : \A k \in S : ~(<<Cut(k), Cut(m)>> \in R)
    BY <1>5
  <1>7. ASSUME NEW k \in S, ~(m <= k) PROVE FALSE
    <2>1. m \in Nat /\ k \in Nat /\ k < m
      BY <1>7
    <2>2. \A j \in S : j \in Nat /\ (j <= k => j <= m)
      BY <2>1
    <2>3. m <= m /\ ~(m <= k)
      BY <2>1
    <2>4. Cut(k) \subseteq Cut(m) /\ m \in Cut(m) /\ m \notin Cut(k)
      BY <2>2, <2>3
    <2>5. <<Cut(k), Cut(m)>> \in R
      BY <2>4 DEF StrictSubsetOrdering
    <2>. QED
      BY <2>5, <1>6
  <1>. QED
    BY <1>7
=============================================================================
