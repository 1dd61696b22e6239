------------------------------- MODULE Lemmas -------------------------------
(***************************************************************************)
(* Facts about bounded sets of naturals that several proofs rest on.       *)
(***************************************************************************)
EXTENDS Integers, FiniteSetsExt, WellFoundedInduction, TLAPS

\* A non-empty set of naturals below a bound has a greatest element, which
\* is what Max, the value of a prune mark and of a cursor, chooses.
LEMMA MaxIsGreatest ==
    ASSUME NEW n \in Nat, NEW T, T \subseteq 0..n, T # {}
    PROVE  Max(T) \in T /\ \A y \in T : y <= Max(T)
<1> DEFINE U == {n - x : x \in T}
<1>1. U \subseteq Nat /\ U # {}
  <2>1. \A x \in T : x \in 0..n /\ n - x \in Nat
    OBVIOUS
  <2>2. PICK t \in T : TRUE
    BY Zenon
  <2>3. n - t \in U
    OBVIOUS
  <2> QED BY <2>1, <2>3
<1>2. PICK u \in U : \A v \in U : ~(<<v, u>> \in OpToRel(<, Nat))
  BY <1>1, NatLessThanWellFounded, WFMin, Zenon
<1>3. \A v \in U : u <= v
  <2>1. \A v \in U : ~(v < u)
    BY Zenon, <1>1, <1>2 DEF OpToRel
  <2> QED BY <1>1, <2>1
<1>4. PICK x \in T : u = n - x
  OBVIOUS
<1>5. \A y \in T : x >= y
  <2> TAKE y \in T
  <2>1. n - y \in U
    OBVIOUS
  <2>2. u <= n - y
    BY <1>3, <2>1
  <2> QED BY <1>4, <2>2
<1> QED BY Zenon, <1>5 DEF Max

\* A non-empty set of naturals has a least element.
LEMMA LeastElement ==
    ASSUME NEW T, T \subseteq Nat, T # {}
    PROVE  \E u \in T : \A v \in T : u <= v
<1>1. PICK u \in T : \A v \in T : ~(<<v, u>> \in OpToRel(<, Nat))
  BY NatLessThanWellFounded, WFMin, Zenon
<1>2. \A v \in T : ~(v < u)
  BY Zenon, <1>1 DEF OpToRel
<1>3. \A v \in T : u <= v
  BY <1>2
<1> QED BY <1>3

\* Min, the choice of a device id, returns it.
LEMMA MinIsMember ==
    ASSUME NEW T, T \subseteq Nat, T # {}
    PROVE  Min(T) \in T
BY LeastElement, Zenon DEF Min

\* The mark kept for one key is the greatest of the old mark and the ids
\* deleted under that key.
LEMMA MaxOfMark ==
    ASSUME NEW n \in Nat, NEW S, S \subseteq 1..n, NEW old \in Nat
    PROVE  /\ Max({old} \cup S) \in Nat
           /\ old <= Max({old} \cup S)
           /\ \A e \in S : e <= Max({old} \cup S)
           /\ Max({old} \cup S) = old \/ Max({old} \cup S) \in S
<1>1. {old} \cup S \subseteq 0..(n + old)
  OBVIOUS
<1>2. n + old \in Nat
  OBVIOUS
<1>3. Max({old} \cup S) \in {old} \cup S /\ \A y \in {old} \cup S : y <= Max({old} \cup S)
  BY <1>1, <1>2, MaxIsGreatest, Zenon
<1>4. old \in {old} \cup S
  OBVIOUS
<1>5. {old} \cup S \subseteq Nat
  OBVIOUS
<1>6. Max({old} \cup S) \in Nat
  BY <1>3, <1>5, Zenon
<1>7. old <= Max({old} \cup S)
  BY <1>3, <1>4, Zenon
<1>8. \A e \in S : e <= Max({old} \cup S)
  BY <1>3, Zenon
<1> QED BY <1>3, <1>6, <1>7, <1>8, Zenon
=============================================================================
