------------------------------ MODULE Induction ------------------------------
(***************************************************************************)
(* Induction over the naturals as facts about sets of naturals, which the   *)
(* provers can use: what is to be shown for every n is that a set of n is   *)
(* everything.  It follows from the least element that the well-foundedness *)
(* of < gives.  Also the least and the greatest element of a set.           *)
(***************************************************************************)
EXTENDS Integers, FiniteSetsExt, WellFoundedInduction, TLAPS

\* A set of naturals that is not empty has a least element.
LEMMA Least ==
  ASSUME NEW T \in SUBSET Nat, T # {}
  PROVE  \E m \in T : \A k \in T : m <= k
<1> DEFINE R == {ss \in Nat \X Nat : ss[1] < ss[2]}
<1>1. IsWellFoundedOn(R, Nat)
  BY NatLessThanWellFounded DEF OpToRel
<1>2. \A x, y \in Nat : <<x, y>> \in R <=> x < y
  OBVIOUS
<1> HIDE DEF R
<1>3. PICK m \in T : \A k \in T : <<k, m>> \notin R
  BY <1>1, WFMin
<1>4. ASSUME NEW k \in T PROVE m <= k
  <2>1. k \in Nat /\ m \in Nat
    OBVIOUS
  <2>2. ~(k < m)
    BY <1>2, <1>3, <2>1
  <2>3. QED
    BY <2>1, <2>2
<1>5. QED
  BY <1>4

\* What holds at first and carries over from each number to the next holds from
\* first on.
LEMMA Upward ==
  ASSUME NEW first \in Nat, NEW P, first \in P,
         \A n \in Nat : n >= first /\ n \in P => n + 1 \in P
  PROVE  \A n \in Nat : n >= first => n \in P
<1> DEFINE T == {n \in Nat : n >= first /\ n \notin P}
<1> SUFFICES ASSUME T # {} PROVE FALSE
  OBVIOUS
<1>1. PICK m \in T : \A k \in T : m <= k
  BY Least
<1>2. m - 1 \in Nat /\ m - 1 >= first
  BY <1>1
<1>3. m - 1 \notin T
  BY <1>1, <1>2
<1>4. QED
  BY <1>1, <1>2, <1>3

\* The same up to last.
LEMMA UpTo ==
  ASSUME NEW first \in Nat, NEW last \in Nat, NEW P, first \in P,
         \A n \in first..last : n + 1 \in first..last /\ n \in P => n + 1 \in P
  PROVE  \A n \in first..last : n \in P
<1> DEFINE Q == {n \in Nat : n <= last => n \in P}
<1>1. first \in Q
  OBVIOUS
<1>2. \A n \in Nat : n >= first /\ n \in Q => n + 1 \in Q
  OBVIOUS
<1> HIDE DEF Q
<1>3. \A n \in Nat : n >= first => n \in Q
  BY <1>1, <1>2, Upward
<1>4. QED
  BY <1>3 DEF Q

\* Min of a set of naturals.
LEMMA MinIs ==
  ASSUME NEW S \in SUBSET Nat, S # {}
  PROVE  Min(S) \in S /\ \A x \in S : Min(S) <= x
BY Least DEF Min

LEMMA MinOf ==
  ASSUME NEW S \in SUBSET Nat, NEW m \in S, \A x \in S : m <= x
  PROVE  Min(S) = m
<1>1. Min(S) \in S /\ \A x \in S : Min(S) <= x
  BY MinIs
<1>2. m \in Nat /\ Min(S) \in Nat
  BY <1>1
<1>3. Min(S) <= m /\ m <= Min(S)
  BY <1>1
<1>4. QED
  BY <1>2, <1>3

\* Max of a set of naturals with a bound.
LEMMA MaxIs ==
  ASSUME NEW S \in SUBSET Nat, S # {}, NEW b \in Nat, \A x \in S : x <= b
  PROVE  Max(S) \in S /\ \A x \in S : x <= Max(S)
<1> DEFINE T == {y \in Nat : b - y \in S}
<1>1. T # {}
  <2>1. PICK x \in S : TRUE
    OBVIOUS
  <2>2. b - x \in T
    BY <2>1
  <2>3. QED
    BY <2>2
<1>2. PICK m \in T : \A k \in T : m <= k
  BY <1>1, Least
<1>3. \A x \in S : x <= b - m
  <2> TAKE x \in S
  <2>1. b - x \in T
    OBVIOUS
  <2>2. QED
    BY <1>2, <2>1
<1>4. \E x \in S : \A y \in S : x >= y
  BY <1>2, <1>3
<1>5. QED
  BY <1>4 DEF Max

LEMMA MaxOf ==
  ASSUME NEW S \in SUBSET Nat, NEW m \in S, \A x \in S : x <= m
  PROVE  Max(S) = m
<1>1. Max(S) \in S /\ \A x \in S : x <= Max(S)
  BY MaxIs
<1>2. m \in Nat /\ Max(S) \in Nat
  BY <1>1
<1>3. Max(S) <= m /\ m <= Max(S)
  BY <1>1
<1>4. QED
  BY <1>2, <1>3
=============================================================================
