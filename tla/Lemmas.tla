------------------------------- MODULE Lemmas -------------------------------
(***************************************************************************)
(* Facts about sequences used as stacks, their top element last, and       *)
(* induction over the natural numbers for a set of them.                   *)
(***************************************************************************)
EXTENDS Integers, Sequences, SequencesExt, SequenceTheorems,
        WellFoundedInduction, TLAPS

(* The last element of a non-empty sequence is one of its elements.         *)
LEMMA LastFacts ==
    ASSUME NEW S, NEW s \in Seq(S), s # << >>
    PROVE  /\ Len(s) \in Nat /\ Len(s) >= 1
           /\ Last(s) = s[Len(s)]
           /\ Last(s) \in S
<1>1. Len(s) \in Nat /\ Len(s) >= 1
    BY EmptySeq, LenProperties
<1>2. s[Len(s)] \in S
    BY <1>1, ElementOfSeq
<1>3. QED BY <1>1, <1>2 DEF Last

(* Front removes the last element and keeps the others.                     *)
LEMMA FrontFacts ==
    ASSUME NEW S, NEW s \in Seq(S), s # << >>
    PROVE  /\ Front(s) \in Seq(S)
           /\ Len(Front(s)) = Len(s) - 1
           /\ \A i \in 1 .. Len(s) - 1 : Front(s)[i] = s[i]
<1>1. Len(s) \in Nat /\ Len(s) >= 1
    BY LastFacts
<1>2. \A i \in 1 .. Len(s) - 1 : s[i] \in S
    BY <1>1, ElementOfSeq
<1> DEFINE n == Len(s) - 1
<1>3. n \in Int /\ n >= 0
    BY <1>1
<1>4. \A i \in 1 .. n : s[i] \in S
    BY <1>2
<1> HIDE DEF n
<1>5. /\ SubSeq(s, 1, n) \in Seq(S)
      /\ Len(SubSeq(s, 1, n)) = IF 1 <= n THEN n - 1 + 1 ELSE 0
      /\ \A i \in 1 .. n - 1 + 1 : SubSeq(s, 1, n)[i] = s[1 + i - 1]
    BY <1>3, <1>4, SubSeqProperties
<1>6. /\ Len(SubSeq(s, 1, n)) = n
      /\ \A i \in 1 .. n : SubSeq(s, 1, n)[i] = s[i]
    BY <1>3, <1>5
<1>7. QED BY <1>5, <1>6 DEF Front, n

(* Replacing the last element keeps the others.                             *)
LEMMA ReplaceLastFacts ==
    ASSUME NEW S, NEW s \in Seq(S), s # << >>, NEW e \in S
    PROVE  /\ [s EXCEPT ![Len(s)] = e] \in Seq(S)
           /\ Len([s EXCEPT ![Len(s)] = e]) = Len(s)
           /\ \A i \in 1 .. Len(s) - 1 : [s EXCEPT ![Len(s)] = e][i] = s[i]
           /\ [s EXCEPT ![Len(s)] = e][Len(s)] = e
<1>1. Len(s) \in 1 .. Len(s) /\ Len(s) \in Nat
    BY LastFacts
<1>2. QED BY <1>1, ExceptSeq

-----------------------------------------------------------------------------

(* A set of naturals with 0 and every successor has them all: what is left   *)
(* out would have a least element.                                          *)
LEMMA SetInduction ==
    ASSUME NEW S \in SUBSET Nat, 0 \in S, \A n \in S : n + 1 \in S
    PROVE  S = Nat
<1> SUFFICES ASSUME Nat \ S # {} PROVE FALSE
    OBVIOUS
<1>1. PICK x \in Nat \ S : \A y \in Nat \ S : ~ (<< y, x >> \in OpToRel(<, Nat))
    BY NatLessThanWellFounded, WFMin
<1>2. x # 0 /\ x - 1 \in Nat
    OBVIOUS
<1>3. << x - 1, x >> \in OpToRel(<, Nat)
    BY <1>2 DEF OpToRel
<1>4. x - 1 \in S
    BY <1>1, <1>2, <1>3
<1>5. QED BY <1>4

(* The same up to a bound.                                                  *)
LEMMA BoundedInduction ==
    ASSUME NEW N \in Nat, NEW S \in SUBSET (0 .. N), 0 \in S,
           \A n \in S : n < N => n + 1 \in S
    PROVE  S = 0 .. N
<1> DEFINE T == {n \in Nat : n <= N => n \in S}
<1>1. T \in SUBSET Nat /\ 0 \in T /\ \A n \in T : n + 1 \in T
    OBVIOUS
<1>2. T = Nat
    <2> HIDE DEF T
    <2>1. QED BY <1>1, SetInduction
<1>3. \A n \in 0 .. N : n \in S
    <2>1. \A n \in Nat : n \in T
        BY <1>2
    <2>2. QED BY <2>1
<1>4. QED BY <1>3

(* The least number of a non-empty set.                                     *)
LEMMA LeastNumber ==
    ASSUME NEW S \in SUBSET Nat, S # {}
    PROVE  \E m \in S : \A n \in S : m <= n
<1>1. PICK m \in S : \A n \in S : ~ (<< n, m >> \in OpToRel(<, Nat))
    BY NatLessThanWellFounded, WFMin
<1>2. \A n \in S : ~ (n < m)
    BY <1>1 DEF OpToRel
<1>3. QED BY <1>2
=============================================================================
