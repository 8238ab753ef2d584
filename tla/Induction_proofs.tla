--------------------------- MODULE Induction_proofs ---------------------------
(***************************************************************************)
(* Induction over the naturals in a form that can be cited: about a set    *)
(* and not about an operator, which no prover could be given.              *)
(***************************************************************************)
EXTENDS Integers, FiniteSetsExt, WellFoundedInduction, TLAPS

Smaller == {p \in Nat \X Nat : p[1] < p[2]}

\* Induction, for a set: no least number is missing from it.
LEMMA SetInduction ==
  ASSUME NEW S, 0 \in S, \A n \in Nat : n \in S => n + 1 \in S
  PROVE  Nat \subseteq S
<1> DEFINE T == Nat \ S
<1>1. IsWellFoundedOn(Smaller, Nat)
  BY NatLessThanWellFounded, Zenon DEF OpToRel, Smaller
<1>2. SUFFICES ASSUME T # {} PROVE FALSE
  OBVIOUS
<1>3. PICK x \in T : \A y \in T : ~(<<y, x>> \in Smaller)
  BY <1>1, <1>2, WFMin
<1>4. \A y \in T : ~(y < x)
  BY <1>3 DEF Smaller
<1>5. x # 0 /\ x - 1 \in Nat /\ x - 1 < x
  OBVIOUS
<1>6. x - 1 \in S
  BY <1>4, <1>5
<1> QED
  BY <1>5, <1>6

\* Every set of naturals with a member has a least one.
LEMMA LeastExists ==
  ASSUME NEW S, S \subseteq Nat, S # {}
  PROVE  \E i \in S : \A j \in S : i <= j
<1>1. IsWellFoundedOn(Smaller, Nat)
  BY NatLessThanWellFounded, Zenon DEF OpToRel, Smaller
<1>2. PICK x \in S : \A y \in S : ~(<<y, x>> \in Smaller)
  BY <1>1, WFMin
<1>3. ASSUME NEW y \in S PROVE x <= y
  <2>1. x \in Nat /\ y \in Nat
    OBVIOUS
  <2>2. ~(<<y, x>> \in Smaller)
    BY <1>2
  <2>3. ~(y < x)
    BY <2>1, <2>2 DEF Smaller
  <2> QED
    BY <2>1, <2>3
<1> QED
  BY <1>3

\* The largest of some numbers up to n + 1, which is where a fold over n + 1 positions
\* begins.
LEMMA MaxUpTo ==
  ASSUME NEW n \in Nat, NEW s \in SUBSET (1..n + 1)
  PROVE  /\ n + 1 \in s => Max(s) = n + 1
         /\ n + 1 \notin s => s \in SUBSET (1..n)
<1>1. ASSUME n + 1 \in s PROVE Max(s) = n + 1
  <2>1. \A x \in s : x \in Int /\ x <= n + 1
    OBVIOUS
  <2>2. \A y \in s : n + 1 >= y
    BY <2>1
  <2>3. PICK m : m = Max(s)
    OBVIOUS
  <2>4. m \in s /\ \A y \in s : m >= y
    BY <1>1, <2>2, <2>3, Zenon DEF Max
  <2>5. m \in Int /\ m <= n + 1 /\ m >= n + 1
    BY <1>1, <2>1, <2>4
  <2>6. m = n + 1
    BY <2>5
  <2> QED
    BY <2>3, <2>6
<1>2. ASSUME n + 1 \notin s PROVE s \in SUBSET (1..n)
  BY <1>2
<1> QED
  BY <1>1, <1>2
=============================================================================
