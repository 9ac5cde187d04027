-------------------------- MODULE ToolNames_proofs --------------------------
(***************************************************************************)
(* What _resolve_collisions of core/normalize.py guarantees for every list *)
(* of candidates.                                                          *)
(***************************************************************************)
EXTENDS ToolNames, TLAPS, FiniteSetTheorems

Equal(candidates, i) == {j \in 1..(i - 1) : candidates[j] = candidates[i]}

LEMMA EqualIsFinite ==
  ASSUME NEW U, NEW c \in Seq(U), NEW i \in DOMAIN c
  PROVE  /\ IsFiniteSet(Equal(c, i))
         /\ Earlier(c, i) \in 0..(i - 1)
         /\ Earlier(c, i) = Cardinality(Equal(c, i))
<1>1. i \in Nat /\ i - 1 \in Int /\ 1 \in Int /\ i >= 1
  OBVIOUS
<1>2. IsFiniteSet(1..(i - 1)) /\ Cardinality(1..(i - 1)) = i - 1
  BY <1>1, FS_Interval
<1>3. Equal(c, i) \subseteq 1..(i - 1)
  BY DEF Equal
<1>4. IsFiniteSet(Equal(c, i)) /\ Cardinality(Equal(c, i)) <= i - 1
  BY <1>2, <1>3, FS_Subset
<1>5. Cardinality(Equal(c, i)) \in Nat
  BY <1>4, FS_CardinalityType
<1>6. Earlier(c, i) = Cardinality(Equal(c, i))
  BY DEF Earlier, Equal
<1>7. Cardinality(Equal(c, i)) \in 0..(i - 1)
  BY <1>1, <1>4, <1>5
<1> QED BY <1>4, <1>6, <1>7

\* A repetition has more equal candidates before it than what it repeats.
LEMMA EarlierGrows ==
  ASSUME NEW U, NEW c \in Seq(U), NEW i \in DOMAIN c, NEW j \in DOMAIN c,
         i < j, c[i] = c[j]
  PROVE  Earlier(c, i) < Earlier(c, j)
<1> DEFINE S == Equal(c, i)
           T == Equal(c, j)
<1>1. IsFiniteSet(S) /\ IsFiniteSet(T)
      /\ Earlier(c, i) = Cardinality(S) /\ Earlier(c, j) = Cardinality(T)
      /\ Earlier(c, i) \in Nat /\ Earlier(c, j) \in Nat
  BY EqualIsFinite
<1>2. i \notin S /\ S \cup {i} \subseteq T
  BY DEF Equal
<1>3. Cardinality(S \cup {i}) = Cardinality(S) + 1
  BY <1>1, <1>2, FS_AddElement
<1>4. Cardinality(S \cup {i}) <= Cardinality(T)
  BY <1>1, <1>2, FS_Subset
<1> QED BY <1>1, <1>3, <1>4

LEMMA AppendSplits ==
  ASSUME NEW S, NEW s \in Seq(S), NEW t \in Seq(S), NEW a \in S, NEW b \in S,
         Append(s, a) = Append(t, b)
  PROVE  s = t /\ a = b
<1>1. Len(s) = Len(t)
  <2>1. Len(Append(s, a)) = Len(s) + 1 /\ Len(Append(t, b)) = Len(t) + 1
    OBVIOUS
  <2>2. Len(s) \in Nat /\ Len(t) \in Nat
    OBVIOUS
  <2> QED BY <2>1, <2>2
<1>2. a = b
  <2>1. Append(s, a)[Len(s) + 1] = a /\ Append(t, b)[Len(t) + 1] = b
    OBVIOUS
  <2> QED BY <2>1, <1>1
<1>3. \A k \in 1..Len(s) : s[k] = t[k]
  <2> TAKE k \in 1..Len(s)
  <2>1. Append(s, a)[k] = s[k] /\ Append(t, b)[k] = t[k]
    BY <1>1
  <2> QED BY <2>1
<1> QED BY <1>1, <1>2, <1>3

(***************************************************************************)
(* _resolve_collisions gives different operations different names, however *)
(* many there are and however often names repeat, unless a candidate is    *)
(* written like another one with a number.  Words are strings; the theorem *)
(* leaves open which others there are.                                    *)
(***************************************************************************)
THEOREM CollisionsResolved ==
  ASSUME NEW Words, STRING \subseteq Words,
         NEW c \in Seq(Seq(Words)), Len(c) < Len(Numerals), ~SuffixClash(c),
         NEW i \in DOMAIN c, NEW j \in DOMAIN c,
         ResolveCollisions(c)[i] = ResolveCollisions(c)[j]
  PROVE  i = j
<1> DEFINE Nth(k) == Numerals[Earlier(c, k) + 1]
<1>1. ASSUME NEW k \in DOMAIN c
      PROVE  /\ Earlier(c, k) \in Nat
             /\ Earlier(c, k) + 1 \in DOMAIN Numerals
             /\ Nth(k) \in Words
             /\ c[k] \in Seq(Words)
  <2>1. Earlier(c, k) \in 0..(k - 1) BY EqualIsFinite
  <2>2. k \in 1..Len(c) /\ Len(c) \in Nat /\ Len(Numerals) \in Nat
    BY NumeralsAssumption
  <2>3. Earlier(c, k) + 1 \in 1..Len(Numerals) BY <2>1, <2>2
  <2>4. c[k] \in Seq(Words) OBVIOUS
  <2>5. Nth(k) \in STRING BY <2>3, NumeralsAssumption
  <2>6. Earlier(c, k) + 1 \in DOMAIN Numerals BY <2>3, NumeralsAssumption
  <2>7. Earlier(c, k) \in Nat BY <2>1, <2>2
  <2> HIDE DEF Nth
  <2> QED BY <2>4, <2>5, <2>6, <2>7
<1>2. ASSUME NEW k \in DOMAIN c, NEW l \in DOMAIN c, c[k] = c[l],
             Earlier(c, k) = Earlier(c, l)
      PROVE  k = l
  <2>1. k \in Nat /\ l \in Nat OBVIOUS
  <2>2. CASE k < l BY <2>2, <1>2, <1>1, EarlierGrows
  <2>3. CASE l < k BY <2>3, <1>2, <1>1, EarlierGrows
  <2> QED BY <2>1, <2>2, <2>3
<1>3. ASSUME NEW k \in DOMAIN c, NEW l \in DOMAIN c, c[k] = Append(c[l], Nth(l))
      PROVE  FALSE
  BY <1>1, <1>3 DEF SuffixClash
<1>4. \A k \in DOMAIN c : ResolveCollisions(c)[k] =
        IF Earlier(c, k) = 0 THEN c[k] ELSE Append(c[k], Nth(k))
  BY DEF ResolveCollisions
<1> HIDE DEF Nth
<1>5. CASE Earlier(c, i) = 0 /\ Earlier(c, j) = 0
  BY <1>5, <1>2, <1>4
<1>6. CASE Earlier(c, i) = 0 /\ Earlier(c, j) # 0
  BY <1>6, <1>3, <1>4
<1>7. CASE Earlier(c, i) # 0 /\ Earlier(c, j) = 0
  BY <1>7, <1>3, <1>4
<1>8. CASE Earlier(c, i) # 0 /\ Earlier(c, j) # 0
  <2>1. Append(c[i], Nth(i)) = Append(c[j], Nth(j))
    BY <1>8, <1>4
  <2>2. c[i] = c[j] /\ Nth(i) = Nth(j)
    <3>1. c[i] \in Seq(Words) /\ c[j] \in Seq(Words)
      BY <1>1
    <3>2. Nth(i) \in Words /\ Nth(j) \in Words
      BY <1>1
    <3>3. \A x, y \in Seq(Words), a, b \in Words :
            Append(x, a) = Append(y, b) => x = y /\ a = b
      BY AppendSplits
    <3> QED BY <2>1, <3>1, <3>2, <3>3
  <2>3. Earlier(c, i) + 1 = Earlier(c, j) + 1
    BY <2>2, <1>1, NumeralsAssumption DEF Nth
  <2> QED BY <2>2, <2>3, <1>1, <1>2
<1> QED BY <1>5, <1>6, <1>7, <1>8
=============================================================================
