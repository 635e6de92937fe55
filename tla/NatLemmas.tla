----------------------------- MODULE NatLemmas -----------------------------
(***************************************************************************)
(* Facts about numbers, sequences and sizes that the proofs share.         *)
(*                                                                         *)
(* Induction is in the form of least and greatest elements, which needs no *)
(* theorem with an operator parameter: a proof by induction on i becomes   *)
(* a proof that the least (or greatest) i where the claim fails cannot     *)
(* exist.                                                                  *)
(***************************************************************************)
EXTENDS Integers, Sequences, FiniteSetTheorems, TLAPS

(* Every set of naturals with a member has a least one: strict inclusion   *)
(* on the finite sets 1..n is well founded, and 1..n grows with n.         *)
LEMMA LeastElement ==
  ASSUME NEW S, S \subseteq Nat, S # {}
  PROVE  \E least \in S : \A n \in S : least <= n
<1>1. PICK top \in S : TRUE
  OBVIOUS
<1> DEFINE U == 1 .. top
           Initial == {1 .. n : n \in {m \in S : m <= top}}
<1>2. IsWellFoundedOn(StrictSubsetOrdering(U), FiniteSubsetsOf(U))
  BY FS_StrictSubsetOrderingWellFounded
<1>3. Initial \subseteq FiniteSubsetsOf(U) /\ Initial # {}
  <2>1. top \in Nat /\ \A n \in S : n \in Nat
    OBVIOUS
  <2>2. ASSUME NEW I \in Initial PROVE I \in FiniteSubsetsOf(U)
    <3>1. PICK n \in S : n <= top /\ I = 1 .. n
      OBVIOUS
    <3>2. I \subseteq U
      BY <3>1, <2>1
    <3>3. IsFiniteSet(I)
      BY <3>1, <2>1, FS_Interval
    <3> QED BY <3>2, <3>3 DEF FiniteSubsetsOf
  <2>3. (1 .. top) \in Initial
    BY <2>1
  <2> QED BY <2>2, <2>3
<1>4. PICK I \in Initial : \A J \in Initial : ~ (<<J, I>> \in StrictSubsetOrdering(U))
  BY <1>2, <1>3, WFMin
<1>5. PICK least \in S : least <= top /\ I = 1 .. least
  OBVIOUS
<1>6. ASSUME NEW n \in S, n < least PROVE FALSE
  <2>1. n \in Nat /\ least \in Nat /\ top \in Nat
    OBVIOUS
  <2>2. (1 .. n) \in Initial
    BY <1>5, <1>6, <2>1
  <2>3. (1 .. n) \subseteq U /\ I \subseteq U /\ (1 .. n) \subseteq I
    BY <1>5, <1>6, <2>1
  <2>4. least \in I /\ least \notin 1 .. n
    BY <1>5, <1>6, <2>1
  <2>5. <<1 .. n, I>> \in StrictSubsetOrdering(U)
    BY <2>3, <2>4 DEF StrictSubsetOrdering
  <2> QED BY <2>2, <2>5, <1>4
<1>7. \A n \in S : least <= n
  BY <1>6
<1> QED BY <1>5, <1>7

(* Every bounded set of naturals with a member has a greatest one: mirror  *)
(* it below its bound and take the least.                                  *)
LEMMA GreatestElement ==
  ASSUME NEW N \in Nat, NEW S, S \subseteq 0 .. N, S # {}
  PROVE  \E greatest \in S : \A n \in S : n <= greatest
<1> DEFINE Mirror == {m \in 0 .. N : N - m \in S}
<1>1. Mirror \subseteq Nat
  OBVIOUS
<1>2. Mirror # {}
  <2>1. PICK n \in S : TRUE
    OBVIOUS
  <2>2. n \in 0 .. N /\ N - n \in 0 .. N /\ N - (N - n) = n
    BY <2>1
  <2> QED BY <2>2
<1>3. PICK least \in Mirror : \A m \in Mirror : least <= m
  <2> HIDE DEF Mirror
  <2> QED BY <1>1, <1>2, LeastElement
<1>4. N - least \in S /\ least \in 0 .. N
  BY <1>3
<1>5. ASSUME NEW n \in S PROVE n <= N - least
  <2>1. n \in 0 .. N /\ N - n \in 0 .. N /\ N - (N - n) = n
    OBVIOUS
  <2>2. least <= N - n
    BY <2>1, <1>3
  <2> QED BY <2>1, <2>2, <1>4
<1> QED BY <1>4, <1>5

(* A sequence with one element more.                                       *)
LEMMA Appended ==
  ASSUME NEW S, NEW s \in Seq(S), NEW e \in S
  PROVE  /\ Append(s, e) \in Seq(S) /\ Len(s) \in Nat /\ Len(Append(s, e)) = Len(s) + 1
         /\ Append(s, e)[Len(s) + 1] = e /\ \A i \in 1..Len(s) : Append(s, e)[i] = s[i]
         /\ 1..(Len(s) + 1) = 1..Len(s) \union {Len(s) + 1}
OBVIOUS

(* A sequence without its first element.                                   *)
LEMMA Tailed ==
  ASSUME NEW S, NEW s \in Seq(S), s # << >>
  PROVE  /\ Head(s) = s[1] /\ Head(s) \in S /\ Len(s) \in Nat \ {0}
         /\ Tail(s) \in Seq(S) /\ Len(Tail(s)) = Len(s) - 1
         /\ \A i \in 1..Len(Tail(s)) : Tail(s)[i] = s[i + 1]
OBVIOUS

(* How many of a set are m.                                                *)
LEMMA OneOrNone ==
  ASSUME NEW m, NEW S
  PROVE  Cardinality({m} \intersect S) = IF m \in S THEN 1 ELSE 0
<1>1. CASE m \in S
  <2>1. {m} \intersect S = {m}
    BY <1>1
  <2> QED BY <1>1, <2>1, FS_Singleton
<1>2. CASE m \notin S
  <2>1. {m} \intersect S = {}
    BY <1>2
  <2> QED BY <1>2, <2>1, FS_EmptySet
<1> QED BY <1>1, <1>2

(* The size of a set beside that of a smaller one, and of one with an      *)
(* element more or less.                                                   *)
LEMMA Counts ==
  ASSUME NEW S, IsFiniteSet(S), NEW T
  PROVE  /\ Cardinality(S) \in Nat
         /\ T \subseteq S => IsFiniteSet(T) /\ Cardinality(T) \in Nat /\ Cardinality(T) <= Cardinality(S)
         /\ \A t \in S : T \subseteq S \ {t} => Cardinality(T) + 1 <= Cardinality(S)
         /\ \A t : T \subseteq S \union {t} =>
              IsFiniteSet(T) /\ Cardinality(T) \in Nat /\ Cardinality(T) <= Cardinality(S) + 1
<1>1. Cardinality(S) \in Nat
  BY FS_CardinalityType
<1>2. T \subseteq S => IsFiniteSet(T) /\ Cardinality(T) \in Nat /\ Cardinality(T) <= Cardinality(S)
  BY FS_Subset, FS_CardinalityType
<1>3. ASSUME NEW t \in S, T \subseteq S \ {t} PROVE Cardinality(T) + 1 <= Cardinality(S)
  <2>1. IsFiniteSet(S \ {t}) /\ Cardinality(S \ {t}) = Cardinality(S) - 1
    BY FS_RemoveElement
  <2>2. Cardinality(T) <= Cardinality(S \ {t}) /\ IsFiniteSet(T)
    BY <1>3, <2>1, FS_Subset
  <2>3. Cardinality(T) \in Nat
    BY <2>2, FS_CardinalityType
  <2> QED BY <1>1, <2>1, <2>2, <2>3
<1>4. ASSUME NEW t, T \subseteq S \union {t}
      PROVE  IsFiniteSet(T) /\ Cardinality(T) \in Nat /\ Cardinality(T) <= Cardinality(S) + 1
  <2>1. /\ IsFiniteSet(S \union {t})
        /\ Cardinality(S \union {t}) = Cardinality(S) \/ Cardinality(S \union {t}) = Cardinality(S) + 1
    BY FS_AddElement
  <2>2. Cardinality(T) <= Cardinality(S \union {t}) /\ IsFiniteSet(T)
    BY <1>4, <2>1, FS_Subset
  <2>3. Cardinality(T) \in Nat
    BY <2>2, FS_CardinalityType
  <2> QED BY <1>1, <2>1, <2>2, <2>3
<1> QED BY <1>1, <1>2, <1>3, <1>4
=============================================================================
