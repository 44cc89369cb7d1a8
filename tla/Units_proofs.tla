---------------------------- MODULE Units_proofs ----------------------------
(***************************************************************************)
(* What the proofs of several components need of numbers: the least one of *)
(* a set, and what a change of one account does to the number of units.    *)
(***************************************************************************)
EXTENDS Units, FiniteSetTheorems, WellFoundedInduction, TLAPS

\* Every non-empty set of naturals has a least element.
LEMMA LeastNatural ==
    ASSUME NEW T \in SUBSET Nat, T # {}
    PROVE  \E x \in T : \A y \in T : x <= y
<1>1. IsWellFoundedOn(OpToRel(<, Nat), Nat)
  BY NatLessThanWellFounded
<1>2. PICK x \in T : \A y \in T : ~(<<y, x>> \in OpToRel(<, Nat))
  BY <1>1, WFMin
<1>3. \A y \in T : ~(y < x)
  BY <1>2 DEF OpToRel
<1> QED
  BY <1>3

\* The units are what their definition says.
LEMMA UnitIff ==
    ASSUME NEW S, NEW b \in [S -> Nat]
    PROVE  \A u : u \in Units(b) <=> \E a \in S : \E k \in 1 .. b[a] : u = <<a, k>>
BY DEF Units

\* A credit adds that many units, none of which was there.
LEMMA CreditUnits ==
    ASSUME NEW S, NEW b \in [S -> Nat], NEW a \in S, NEW n \in Nat, NEW c \in [S -> Nat],
           c[a] = b[a] + n, \A x \in S \ {a} : c[x] = b[x], IsFiniteSet(Units(b))
    PROVE  IsFiniteSet(Units(c)) /\ Total(c) = Total(b) + n
<1> USE DEF Total
<1>1. PICK lo, hi : lo = b[a] + 1 /\ hi = b[a] + n
  OBVIOUS
<1>2. lo \in Int /\ hi \in Int /\ b[a] \in Nat
  BY <1>1
<1>3. PICK new : new = {a} \X (lo .. hi)
  OBVIOUS
<1>4. IsFiniteSet(lo .. hi) /\ Cardinality(lo .. hi) = n
  <2>1. IsFiniteSet(lo .. hi) /\ Cardinality(lo .. hi) = IF lo > hi THEN 0 ELSE hi - lo + 1
    BY <1>2, FS_Interval
  <2> QED
    BY <1>1, <1>2, <2>1
<1>5. IsFiniteSet(new) /\ Cardinality(new) = n
  <2>1. IsFiniteSet({a}) /\ Cardinality({a}) = 1
    BY FS_Singleton
  <2>2. IsFiniteSet(new) /\ Cardinality(new) = 1 * Cardinality(lo .. hi)
    BY <1>3, <1>4, <2>1, FS_Product
  <2> QED
    BY <1>4, <2>2
<1>6. \A u : u \in new <=> \E k \in lo .. hi : u = <<a, k>>
  BY <1>3
<1>7. \A x \in S : c[x] = IF x = a THEN b[x] + n ELSE b[x]
  OBVIOUS
<1>8. \A k : k \in 1 .. c[a] <=> k \in 1 .. b[a] \/ k \in lo .. hi
  BY <1>1, <1>2, <1>7
<1>9. \A k : ~(k \in 1 .. b[a] /\ k \in lo .. hi)
  BY <1>1, <1>2
<1>u. /\ \A u : u \in Units(b) <=> \E x \in S : \E k \in 1 .. b[x] : u = <<x, k>>
     /\ \A u : u \in Units(c) <=> \E x \in S : \E k \in 1 .. c[x] : u = <<x, k>>
  BY UnitIff
<1>10. ASSUME NEW u PROVE u \in Units(c) <=> u \in Units(b) \/ u \in new
  <2>1. ASSUME NEW x \in S, NEW k \in 1 .. c[x], u = <<x, k>> PROVE u \in Units(b) \/ u \in new
    <3>1. CASE x = a
      BY <1>6, <1>8, <2>1, <3>1, UnitIff
    <3>2. CASE x # a
      BY <1>7, <2>1, <3>2, UnitIff
    <3> QED
      BY <3>1, <3>2
  <2>2. ASSUME NEW x \in S, NEW k \in 1 .. b[x], u = <<x, k>> PROVE u \in Units(c)
    <3>1. k \in 1 .. c[x]
      BY <1>7, <1>8
    <3> QED
      BY <2>2, <3>1, UnitIff
  <2>3. ASSUME NEW k \in lo .. hi, u = <<a, k>> PROVE u \in Units(c)
    <3>1. k \in 1 .. c[a]
      BY <1>8
    <3> QED
      BY <2>3, <3>1, UnitIff
  <2>4. u \in Units(c) => u \in Units(b) \/ u \in new
    BY <1>u, <2>1
  <2>5. u \in Units(b) => u \in Units(c)
    BY <1>u, <2>2
  <2>6. u \in new => u \in Units(c)
    BY <1>6, <2>3
  <2> QED
    BY <2>4, <2>5, <2>6
<1>11. Units(b) \cap new = {}
  <2> SUFFICES ASSUME NEW u, u \in Units(b), u \in new PROVE FALSE
    OBVIOUS
  <2>1. PICK x \in S : \E k \in 1 .. b[x] : u = <<x, k>>
    BY UnitIff
  <2>2. PICK k \in 1 .. b[x] : u = <<x, k>>
    BY <2>1
  <2>3. PICK l \in lo .. hi : u = <<a, l>>
    BY <1>6
  <2> QED
    BY <1>9, <2>2, <2>3
<1>12. Units(c) = Units(b) \cup new
  BY <1>10
<1>13. /\ IsFiniteSet(Units(b) \cup new)
       /\ Cardinality(Units(b) \cup new) = Total(b) + Cardinality(new) - Cardinality(Units(b) \cap new)
  BY <1>5, FS_Union
<1>14. Cardinality(Units(b) \cap new) = 0 /\ Total(b) \in Nat
  BY <1>11, FS_EmptySet, FS_CardinalityType
<1>15. Cardinality(Units(b) \cup new) = Total(b) + n
  BY <1>5, <1>13, <1>14
<1> QED
  BY <1>12, <1>13, <1>15

\* A debit takes that many, which were there.
LEMMA DebitUnits ==
    ASSUME NEW S, NEW b \in [S -> Nat], NEW a \in S, NEW n \in Nat, n <= b[a], NEW c \in [S -> Nat],
           c[a] = b[a] - n, \A x \in S \ {a} : c[x] = b[x], IsFiniteSet(Units(b))
    PROVE  /\ IsFiniteSet(Units(c)) /\ Total(c) = Total(b) - n
           /\ n <= Total(b)
<1> USE DEF Total
<1>1. b[a] = c[a] + n /\ \A x \in S \ {a} : b[x] = c[x]
  OBVIOUS
<1>2. Units(c) \subseteq Units(b)
  <2>1. \A x \in S : \A k \in 1 .. c[x] : k \in 1 .. b[x]
    <3>1. \A x \in S : c[x] \in Nat /\ b[x] \in Nat /\ c[x] <= b[x]
      OBVIOUS
    <3> QED
      BY <3>1
  <2>2. ASSUME NEW u, u \in Units(c) PROVE u \in Units(b)
    <3>1. PICK x \in S : \E k \in 1 .. c[x] : u = <<x, k>>
      BY <2>2, UnitIff
    <3>2. \E k \in 1 .. b[x] : u = <<x, k>>
      BY <2>1, <3>1
    <3> QED
      BY <3>2, UnitIff
  <2> QED
    BY <2>2
<1>3. IsFiniteSet(Units(c))
  BY <1>2, FS_Subset
<1>4. Total(b) = Total(c) + n
  BY <1>1, <1>3, CreditUnits
<1>5. Total(c) \in Nat /\ Total(b) \in Nat
  BY <1>3, FS_CardinalityType
<1> QED
  BY <1>3, <1>4, <1>5

\* Writing an account moves the total by the difference.
LEMMA WriteUnits ==
    ASSUME NEW S, NEW b \in [S -> Nat], NEW a \in S, NEW n \in Nat, NEW c \in [S -> Nat],
           c[a] = n, \A x \in S \ {a} : c[x] = b[x], IsFiniteSet(Units(b))
    PROVE  IsFiniteSet(Units(c)) /\ b[a] <= Total(b) /\ Total(c) = Total(b) - b[a] + n
<1>1. PICK d : d = [b EXCEPT ![a] = 0]
  OBVIOUS
<1>2. /\ d \in [S -> Nat] /\ d[a] = b[a] - b[a] /\ \A x \in S \ {a} : d[x] = b[x]
      /\ b[a] \in Nat /\ b[a] <= b[a]
  BY <1>1
<1>3. IsFiniteSet(Units(d)) /\ Total(d) = Total(b) - b[a] /\ b[a] <= Total(b)
  BY <1>2, DebitUnits
<1>4. c[a] = d[a] + n /\ \A x \in S \ {a} : c[x] = d[x]
  BY <1>2
<1>5. IsFiniteSet(Units(c)) /\ Total(c) = Total(d) + n
  BY <1>2, <1>3, <1>4, CreditUnits
<1> QED
  BY <1>3, <1>5

\* Empty accounts hold nothing.
LEMMA NoUnits ==
    ASSUME NEW S, NEW b \in [S -> Nat], \A a \in S : b[a] = 0
    PROVE  IsFiniteSet(Units(b)) /\ Total(b) = 0
<1>1. \A a \in S : \A k \in 1 .. b[a] : FALSE
  OBVIOUS
<1>2. Units(b) = {}
  BY <1>1, UnitIff
<1> QED
  BY <1>2, FS_EmptySet DEF Total

\* An empty account holds no unit: opening and closing it changes nothing.
LEMMA EmptyAccount ==
    ASSUME NEW S, NEW b \in [S -> Nat], NEW T, NEW c \in [T -> Nat],
           \A a \in S \cap T : b[a] = c[a], \A a \in S \ T : b[a] = 0, \A a \in T \ S : c[a] = 0
    PROVE  Units(b) = Units(c)
<1>1. \A a \in S : \A k \in 1 .. b[a] : a \in T /\ k \in 1 .. c[a]
  OBVIOUS
<1>2. \A a \in T : \A k \in 1 .. c[a] : a \in S /\ k \in 1 .. b[a]
  OBVIOUS
<1>3. ASSUME NEW u, u \in Units(b) PROVE u \in Units(c)
  <2>1. PICK x \in S : \E k \in 1 .. b[x] : u = <<x, k>>
    BY <1>3, UnitIff
  <2>2. x \in T /\ \E k \in 1 .. c[x] : u = <<x, k>>
    BY <1>1, <2>1
  <2> QED
    BY <2>2, UnitIff
<1>4. ASSUME NEW u, u \in Units(c) PROVE u \in Units(b)
  <2>1. PICK x \in T : \E k \in 1 .. c[x] : u = <<x, k>>
    BY <1>4, UnitIff
  <2>2. x \in S /\ \E k \in 1 .. b[x] : u = <<x, k>>
    BY <1>2, <2>1
  <2> QED
    BY <2>2, UnitIff
<1> QED
  BY <1>3, <1>4
=============================================================================
