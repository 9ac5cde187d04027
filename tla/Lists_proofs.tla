---------------------------- MODULE Lists_proofs ----------------------------
(***************************************************************************)
(* Induction over positions, and what Keep, Fold and FlattenSeq return.    *)
(* A set takes the place of the induction hypothesis: the lemmas are       *)
(* first-order, and so a proof can instantiate them.                       *)
(***************************************************************************)
EXTENDS Lists, WellFoundedInduction, TLAPS

LEMMA LeastOfNat ==
  ASSUME NEW T \in SUBSET Nat, T # {}
  PROVE  \E x \in T : \A y \in T : x <= y
<1> DEFINE R == OpToRel(<, Nat)
<1>1. IsWellFoundedOn(R, Nat) BY NatLessThanWellFounded
<1>2. \A x, y \in Nat : y < x => <<y, x>> \in R BY DEF OpToRel
<1>3. T \subseteq Nat OBVIOUS
<1> HIDE DEF R
<1>4. \E x \in T : \A y \in T : ~(<<y, x>> \in R) BY <1>1, <1>3, WFMin
<1>5. PICK x \in T : \A y \in T : ~(<<y, x>> \in R) BY <1>4
<1>6. \A y \in T : ~(y < x) BY <1>2, <1>3, <1>5
<1> QED BY <1>3, <1>6

LEMMA GreatestIsThere ==
  ASSUME NEW n \in Nat, NEW S \in SUBSET (1..n), S # {}
  PROVE  Max(S) \in S /\ \A y \in S : Max(S) >= y
<1> DEFINE T == {k \in Nat : n - k \in S}
<1>1. PICK x \in S : TRUE OBVIOUS
<1>2. n - x \in T
  <2>1. n - x \in Nat /\ n - (n - x) = x OBVIOUS
  <2> QED BY <2>1
<1>3. PICK k \in T : \A l \in T : k <= l BY <1>2, LeastOfNat
<1>4. \A y \in S : n - k >= y
  <2> SUFFICES ASSUME NEW y \in S PROVE n - k >= y OBVIOUS
  <2>1. n - y \in Nat /\ n - (n - y) = y /\ y \in Nat OBVIOUS
  <2>2. n - y \in T BY <2>1
  <2>3. k <= n - y /\ k \in Nat BY <1>3, <2>2
  <2> QED BY <2>1, <2>3
<1>5. n - k \in S BY <1>3
<1> QED BY <1>4, <1>5 DEF Max

LEMMA NatInduces ==
  ASSUME NEW S, 0 \in S, \A n \in Nat : n \in S => n + 1 \in S
  PROVE  Nat \subseteq S
<1> SUFFICES ASSUME NEW m \in Nat, m \notin S PROVE FALSE OBVIOUS
<1>1. PICK x \in Nat \ S : \A y \in Nat \ S : x <= y BY LeastOfNat
<1>2. x # 0 OBVIOUS
<1>3. x - 1 \in Nat /\ x - 1 \in S BY <1>1, <1>2
<1> QED BY <1>1, <1>3

LEMMA PositionsInduce ==
  ASSUME NEW n \in Nat, NEW S, 0 \in S,
         \A i \in 1..n : i - 1 \in S => i \in S
  PROVE  \A i \in 0..n : i \in S
<1> DEFINE T == {i \in Nat : i <= n => i \in S}
<1>1. 0 \in T OBVIOUS
<1>2. \A i \in Nat : i \in T => i + 1 \in T
  <2> SUFFICES ASSUME NEW i \in Nat, i \in T, i + 1 <= n PROVE i + 1 \in S OBVIOUS
  <2>1. i + 1 \in 1..n /\ (i + 1) - 1 = i /\ i \in S OBVIOUS
  <2> QED BY <2>1
<1> HIDE DEF T
<1>3. Nat \subseteq T BY <1>1, <1>2, NatInduces
<1> USE DEF T
<1> QED BY <1>3

\* f has the values that a loop with body step has at its positions up to m.
Loop(f, m, D, start, step) ==
  /\ f \in [0..m -> D]
  /\ f[0] = start
  /\ \A i \in 1..m : f[i] = step[<<i, f[i - 1]>>]

LEMMA LoopRuns ==
  ASSUME NEW D, NEW start \in D, NEW n \in Nat, NEW step \in [(1..n) \X D -> D]
  PROVE  \E f : Loop(f, n, D, start, step)
<1> DEFINE Runs(f, m) == Loop(f, m, D, start, step)
           S == {m \in 0..n : \E f : Runs(f, m)}
<1> USE DEF Loop
<1>1. 0 \in S
  <2>1. Runs([i \in 0..0 |-> start], 0) OBVIOUS
  <2> HIDE DEF Runs
  <2> QED BY <2>1
<1>2. ASSUME NEW m \in 1..n, m - 1 \in S PROVE m \in S
  <2>1. PICK f : Runs(f, m - 1) BY <1>2
  <2> DEFINE g == [i \in 0..m |-> IF i = m THEN step[<<m, f[m - 1]>>] ELSE f[i]]
  <2>2. m - 1 \in 0..(m - 1) /\ f[m - 1] \in D BY <2>1
  <2>3. \A i \in 0..(m - 1) : g[i] = f[i] /\ f[i] \in D BY <2>1
  <2>4. g[m] = step[<<m, f[m - 1]>>] /\ g[m] \in D BY <2>2
  <2>5. g \in [0..m -> D]
    <3>1. g = [i \in 0..m |-> g[i]] OBVIOUS
    <3>2. \A i \in 0..m : i = m \/ i \in 0..(m - 1) OBVIOUS
    <3> HIDE DEF g
    <3> QED BY <3>1, <3>2, <2>3, <2>4
  <2>6. g[0] = start BY <2>1, <2>3
  <2>7. ASSUME NEW i \in 1..m PROVE g[i] = step[<<i, g[i - 1]>>]
    <3>1. CASE i = m BY <3>1, <2>2, <2>3, <2>4
    <3>2. CASE i # m
      <4>1. i \in 1..(m - 1) /\ i - 1 \in 0..(m - 1) /\ i \in 0..(m - 1) BY <3>2
      <4> HIDE DEF g
      <4> QED BY <4>1, <2>1, <2>3
    <3> QED BY <3>1, <3>2
  <2> HIDE DEF g
  <2>8. Runs(g, m) BY <2>5, <2>6, <2>7
  <2> HIDE DEF Runs
  <2> QED BY <2>8
<1> HIDE DEF S
<1>3. n \in S BY <1>1, <1>2, PositionsInduce
<1> USE DEF S
<1> HIDE DEF Loop
<1> QED BY <1>3

\* Whatever takes such values has its values in D.
LEMMA LoopStaysIn ==
  ASSUME NEW D, NEW start \in D, NEW n \in Nat, NEW step \in [(1..n) \X D -> D],
         NEW v, v[0] = start,
         \A i \in 1..n : v[i - 1] \in D => v[i] = step[<<i, v[i - 1]>>]
  PROVE  \A i \in 0..n : v[i] \in D
<1> DEFINE S == {i \in 0..n : v[i] \in D}
<1>1. 0 \in S OBVIOUS
<1>2. ASSUME NEW i \in 1..n, i - 1 \in S PROVE i \in S
  <2>1. v[i - 1] \in D /\ <<i, v[i - 1]>> \in (1..n) \X D BY <1>2
  <2> QED BY <2>1
<1> HIDE DEF S
<1>3. \A i \in 0..n : i \in S BY <1>1, <1>2, PositionsInduce
<1> USE DEF S
<1> QED BY <1>3

\* An invariant of a loop is a set of positions and values.
LEMMA LoopStaysGood ==
  ASSUME NEW n \in Nat, NEW G, NEW v, <<0, v[0]>> \in G,
         \A i \in 1..n : <<i - 1, v[i - 1]>> \in G => <<i, v[i]>> \in G
  PROVE  \A i \in 0..n : <<i, v[i]>> \in G
<1> DEFINE S == {i \in 0..n : <<i, v[i]>> \in G}
<1>1. 0 \in S OBVIOUS
<1>2. \A i \in 1..n : i - 1 \in S => i \in S OBVIOUS
<1> HIDE DEF S
<1>3. \A i \in 0..n : i \in S BY <1>1, <1>2, PositionsInduce
<1> USE DEF S
<1> QED BY <1>3

(***************************************************************************)
(* Keep.                                                                   *)
(***************************************************************************)

\* What Keep carries along.
Keeping(kept, s, S) ==
  /\ kept[0] = <<>>
  /\ \A i \in 1..Len(s) :
       kept[i] = IF s[i] \in S THEN Append(kept[i - 1], s[i]) ELSE kept[i - 1]

LEMMA KeepRuns ==
  ASSUME NEW T, NEW s \in Seq(T), NEW S
  PROVE  \E kept \in [0..Len(s) -> Seq(T)] :
           Keeping(kept, s, S) /\ Keep(s, S) = kept[Len(s)]
<1> DEFINE n == Len(s)
           D == Seq(T)
           Add(i, k) == IF s[i] \in S THEN Append(k, s[i]) ELSE k
           Body(f) == [i \in 0..n |-> IF i = 0 THEN <<>> ELSE Add(i, f[i - 1])]
           step == [p \in (1..n) \X D |-> Add(p[1], p[2])]
<1>1. n \in Nat /\ <<>> \in D OBVIOUS
<1>2. \A i \in 1..n, k \in D : Add(i, k) \in D OBVIOUS
<1>3. Keep(s, S) = (CHOOSE f : f = Body(f))[n] BY Zenon DEF Keep
<1> HIDE DEF n, D, Add
<1>4. step \in [(1..n) \X D -> D] BY <1>2
<1>5. \A i \in 1..n, k \in D : step[<<i, k>>] = Add(i, k) OBVIOUS
<1> HIDE DEF step
<1>6. PICK f : Loop(f, n, D, <<>>, step) BY <1>1, <1>4, LoopRuns
<1>7. f = Body(f) BY <1>1, <1>5, <1>6 DEF Loop
<1>8. PICK kept : kept = Body(kept) /\ Keep(s, S) = kept[n]
  <2> HIDE DEF Body
  <2> QED BY <1>3, <1>7
<1>9. kept[0] = <<>> /\ \A i \in 1..n : kept[i] = Add(i, kept[i - 1])
  BY <1>1, <1>8
<1>10. \A i \in 1..n : kept[i - 1] \in D => kept[i] = step[<<i, kept[i - 1]>>]
  BY <1>5, <1>9
<1>11. \A i \in 0..n : kept[i] \in D
  BY <1>1, <1>4, <1>9, <1>10, LoopStaysIn
<1>12. kept \in [0..n -> D] BY <1>8, <1>11
<1>13. Keeping(kept, s, S) BY <1>9 DEF Keeping, n, Add
<1> QED BY <1>8, <1>12, <1>13 DEF n, D

LEMMA KeepTyped ==
  ASSUME NEW T, NEW s \in Seq(T), NEW S
  PROVE  Keep(s, S) \in Seq(T)
<1>1. PICK kept \in [0..Len(s) -> Seq(T)] : Keep(s, S) = kept[Len(s)] BY KeepRuns
<1>2. Len(s) \in 0..Len(s) OBVIOUS
<1> QED BY <1>1, <1>2

\* Keep goes on from the prefix that it has been through.
LEMMA KeepAppend ==
  ASSUME NEW T, NEW s \in Seq(T), NEW e \in T, NEW S
  PROVE  Keep(Append(s, e), S) = IF e \in S THEN Append(Keep(s, S), e) ELSE Keep(s, S)
<1> DEFINE t == Append(s, e)
           n == Len(s)
<1>1. t \in Seq(T) /\ Len(t) = n + 1 /\ t[n + 1] = e /\ n \in Nat
      /\ \A i \in 1..n : t[i] = s[i]
  OBVIOUS
<1> HIDE DEF t
<1>2. PICK k \in [0..n -> Seq(T)] : Keeping(k, s, S) /\ Keep(s, S) = k[n]
  BY KeepRuns
<1>3. PICK l \in [0..(n + 1) -> Seq(T)] : Keeping(l, t, S) /\ Keep(t, S) = l[n + 1]
  <2>1. \E l \in [0..Len(t) -> Seq(T)] : Keeping(l, t, S) /\ Keep(t, S) = l[Len(t)]
    BY <1>1, KeepRuns
  <2> QED BY <1>1, <2>1
<1>4. \A i \in 0..n : k[i] = l[i]
  <2> DEFINE Same == {i \in 0..n : k[i] = l[i]}
  <2>1. 0 \in Same BY <1>1, <1>2, <1>3 DEF Keeping
  <2>2. \A i \in 1..n : i - 1 \in Same => i \in Same
    BY <1>1, <1>2, <1>3 DEF Keeping
  <2> HIDE DEF Same
  <2>3. \A i \in 0..n : i \in Same BY <1>1, <2>1, <2>2, PositionsInduce
  <2> USE DEF Same
  <2> QED BY <2>3
<1>5. l[n + 1] = IF e \in S THEN Append(l[n], e) ELSE l[n]
  <2>1. n + 1 \in 1..Len(t) /\ (n + 1) - 1 = n BY <1>1
  <2> QED BY <1>1, <1>3, <2>1 DEF Keeping
<1> QED BY <1>1, <1>2, <1>3, <1>4, <1>5 DEF t

LEMMA KeepEmpty == ASSUME NEW S PROVE Keep(<<>>, S) = <<>>
<1>1. <<>> \in Seq({}) /\ Len(<<>>) = 0 OBVIOUS
<1>2. \E kept \in [0..Len(<<>>) -> Seq({})] :
        Keeping(kept, <<>>, S) /\ Keep(<<>>, S) = kept[Len(<<>>)]
  BY <1>1, KeepRuns
<1> QED BY <1>1, <1>2 DEF Keeping

\* Induction over the prefixes of a list.
LEMMA PrefixGrows ==
  ASSUME NEW T, NEW s \in Seq(T), NEW i \in 1..Len(s)
  PROVE  /\ SubSeq(s, 1, i) = Append(SubSeq(s, 1, i - 1), s[i])
         /\ SubSeq(s, 1, i - 1) \in Seq(T) /\ s[i] \in T
<1>1. SubSeq(s, 1, i - 1) \in Seq(T) /\ Len(SubSeq(s, 1, i - 1)) = i - 1 OBVIOUS
<1>2. SubSeq(s, 1, i) \in Seq(T) /\ Len(SubSeq(s, 1, i)) = i OBVIOUS
<1>3. Append(SubSeq(s, 1, i - 1), s[i]) \in Seq(T)
      /\ Len(Append(SubSeq(s, 1, i - 1), s[i])) = i
  BY <1>1
<1>4. \A j \in 1..i : SubSeq(s, 1, i)[j] = Append(SubSeq(s, 1, i - 1), s[i])[j]
  BY <1>1, <1>2
<1>5. \A a, b \in Seq(T) : Len(a) = Len(b) /\ (\A j \in 1..Len(a) : a[j] = b[j]) => a = b
  OBVIOUS
<1> QED BY <1>1, <1>2, <1>3, <1>4, <1>5

LEMMA WholeIsPrefix ==
  ASSUME NEW T, NEW s \in Seq(T)
  PROVE  SubSeq(s, 1, Len(s)) = s /\ SubSeq(s, 1, 0) = <<>>
OBVIOUS

LEMMA PrefixesInduce ==
  ASSUME NEW T, NEW s \in Seq(T), NEW P, <<>> \in P,
         \A i \in 1..Len(s) : SubSeq(s, 1, i - 1) \in P => SubSeq(s, 1, i) \in P
  PROVE  s \in P
<1> DEFINE S == {i \in 0..Len(s) : SubSeq(s, 1, i) \in P}
<1>1. 0 \in S
  <2>1. SubSeq(s, 1, 0) = <<>> /\ 0 \in 0..Len(s) BY WholeIsPrefix
  <2> QED BY <2>1
<1>2. \A i \in 1..Len(s) : i - 1 \in S => i \in S OBVIOUS
<1>3. Len(s) \in Nat /\ Len(s) \in 0..Len(s) OBVIOUS
<1> HIDE DEF S
<1>4. Len(s) \in S BY <1>1, <1>2, <1>3, PositionsInduce
<1> USE DEF S
<1> QED BY <1>4, WholeIsPrefix

LEMMA KeepShortens ==
  ASSUME NEW T, NEW s \in Seq(T), NEW S
  PROVE  Len(Keep(s, S)) <= Len(s)
<1> DEFINE Good == {t \in Seq(T) : Len(Keep(t, S)) <= Len(t)}
<1>1. <<>> \in Good
  <2>1. Keep(<<>>, S) = <<>> BY KeepEmpty
  <2> QED BY <2>1
<1>2. ASSUME NEW i \in 1..Len(s), SubSeq(s, 1, i - 1) \in Good
      PROVE  SubSeq(s, 1, i) \in Good
  <2> DEFINE t == SubSeq(s, 1, i - 1)
             e == s[i]
  <2>1. SubSeq(s, 1, i) = Append(t, e) /\ t \in Seq(T) /\ e \in T BY PrefixGrows
  <2>2. Len(Keep(t, S)) <= Len(t) BY <1>2
  <2> HIDE DEF t, e
  <2>3. Keep(t, S) \in Seq(T) BY <2>1, KeepTyped
  <2>4. Keep(Append(t, e), S) \in {Keep(t, S), Append(Keep(t, S), e)}
    BY <2>1, KeepAppend
  <2> DEFINE k == Keep(t, S)
             l == Keep(Append(t, e), S)
  <2>5. k \in Seq(T) /\ Len(k) <= Len(t) /\ l \in {k, Append(k, e)} BY <2>2, <2>3, <2>4
  <2> HIDE DEF k, l
  <2>6. Append(t, e) \in Seq(T) /\ Len(Append(t, e)) = Len(t) + 1 /\ Len(t) \in Nat
        /\ Len(Append(k, e)) = Len(k) + 1 /\ Len(k) \in Nat
    BY <2>1, <2>5
  <2>7. Len(l) <= Len(Append(t, e)) BY <2>5, <2>6
  <2> QED BY <2>1, <2>6, <2>7 DEF l
<1> HIDE DEF Good
<1>3. s \in Good BY <1>1, <1>2, PrefixesInduce
<1> USE DEF Good
<1> QED BY <1>3

\* Where the elements that Keep keeps were: all of those in S, in their order.
KeptAt(h, s, S) ==
  /\ h \in [1..Len(Keep(s, S)) -> 1..Len(s)]
  /\ \A k \in 1..Len(Keep(s, S)) : Keep(s, S)[k] = s[h[k]] /\ s[h[k]] \in S
  /\ \A k, l \in 1..Len(Keep(s, S)) : k < l => h[k] < h[l]
  /\ \A i \in 1..Len(s) : s[i] \in S => \E k \in 1..Len(Keep(s, S)) : h[k] = i

LEMMA KeepPositions ==
  ASSUME NEW T, NEW s \in Seq(T), NEW S
  PROVE  \E h : KeptAt(h, s, S)
<1> DEFINE Good == {t \in Seq(T) : \E h : KeptAt(h, t, S)}
<1>1. <<>> \in Good
  <2>1. KeptAt(<<>>, <<>>, S) BY KeepEmpty DEF KeptAt
  <2> QED BY <2>1
<1>2. ASSUME NEW i \in 1..Len(s), SubSeq(s, 1, i - 1) \in Good
      PROVE  SubSeq(s, 1, i) \in Good
  <2> DEFINE t == SubSeq(s, 1, i - 1)
             e == s[i]
  <2>1. SubSeq(s, 1, i) = Append(t, e) /\ t \in Seq(T) /\ e \in T BY PrefixGrows
  <2>2. PICK h : KeptAt(h, t, S) BY <1>2
  <2> HIDE DEF t, e
  <2> DEFINE n == Len(t)
             m == Len(Keep(t, S))
             u == Append(t, e)
  <2>3. n \in Nat /\ u \in Seq(T) /\ Len(u) = n + 1 /\ u[n + 1] = e
        /\ (\A j \in 1..n : u[j] = t[j])
    BY <2>1
  <2>4. Keep(t, S) \in Seq(T) /\ m \in Nat
    <3>1. Keep(t, S) \in Seq(T) BY <2>1, KeepTyped
    <3> QED BY <3>1
  <2>5. Keep(u, S) = IF e \in S THEN Append(Keep(t, S), e) ELSE Keep(t, S)
    BY <2>1, KeepAppend
  <2>6. CASE e \in S
    <3> DEFINE g == [k \in 1..(m + 1) |-> IF k = m + 1 THEN n + 1 ELSE h[k]]
               K == Keep(u, S)
    <3>1. Len(K) = m + 1 /\ K[m + 1] = e /\ \A k \in 1..m : K[k] = Keep(t, S)[k]
      BY <2>4, <2>5, <2>6
    <3>2. g[m + 1] = n + 1 /\ (\A k \in 1..m : g[k] = h[k] /\ h[k] \in 1..n)
      BY <2>2, <2>4 DEF KeptAt
    <3>3. \A k \in 1..(m + 1) : k = m + 1 \/ k \in 1..m BY <2>4
    <3>4. g \in [1..(m + 1) -> 1..(n + 1)]
      <4>1. g = [k \in 1..(m + 1) |-> g[k]] OBVIOUS
      <4> HIDE DEF g
      <4>2. ASSUME NEW k \in 1..(m + 1) PROVE g[k] \in 1..(n + 1)
        <5>1. CASE k = m + 1 BY <5>1, <3>2, <2>3
        <5>2. CASE k \in 1..m BY <5>2, <3>2, <2>3
        <5> QED BY <5>1, <5>2, <3>3
      <4> QED BY <4>1, <4>2
    <3> HIDE DEF g
    <3>5. \A k \in 1..(m + 1) : K[k] = u[g[k]] /\ u[g[k]] \in S
      BY <2>2, <2>3, <2>6, <3>1, <3>2, <3>3 DEF KeptAt
    <3>6. \A k, l \in 1..(m + 1) : k < l => g[k] < g[l]
      BY <2>2, <2>3, <2>4, <3>2, <3>3 DEF KeptAt
    <3>7. ASSUME NEW j \in 1..(n + 1), u[j] \in S
          PROVE  \E k \in 1..(m + 1) : g[k] = j
      <4>1. CASE j = n + 1 BY <4>1, <3>2, <2>4
      <4>2. CASE j # n + 1
        <5>1. j \in 1..n /\ t[j] \in S BY <4>2, <3>7, <2>3
        <5>2. PICK k \in 1..m : h[k] = j BY <5>1, <2>2 DEF KeptAt
        <5>3. k \in 1..(m + 1) BY <2>4
        <5> QED BY <5>2, <5>3, <3>2
      <4> QED BY <4>1, <4>2
    <3>8. KeptAt(g, u, S)
      BY <3>1, <3>4, <3>5, <3>6, <3>7, <2>3 DEF KeptAt
    <3> QED BY <3>8, <2>1, <2>3
  <2>7. CASE e \notin S
    <3>1. Keep(u, S) = Keep(t, S) BY <2>5, <2>7
    <3>2. h \in [1..m -> 1..(n + 1)] BY <2>2, <2>3 DEF KeptAt
    <3>3. \A k \in 1..m : Keep(u, S)[k] = u[h[k]] /\ u[h[k]] \in S
      BY <2>2, <2>3, <3>1 DEF KeptAt
    <3>4. ASSUME NEW j \in 1..(n + 1), u[j] \in S
          PROVE  \E k \in 1..m : h[k] = j
      <4>1. j \in 1..n /\ t[j] \in S BY <2>3, <2>7, <3>4
      <4> QED BY <4>1, <2>2 DEF KeptAt
    <3>5. KeptAt(h, u, S)
      BY <3>1, <3>2, <3>3, <3>4, <2>2, <2>3 DEF KeptAt
    <3> QED BY <3>5, <2>1, <2>3
  <2> QED BY <2>6, <2>7
<1> HIDE DEF Good
<1>3. s \in Good BY <1>1, <1>2, PrefixesInduce
<1> USE DEF Good
<1> QED BY <1>3

\* What keeps a list is a part of it.
LEMMA KeepElements ==
  ASSUME NEW T, NEW s \in Seq(T), NEW S
  PROVE  /\ \A k \in DOMAIN Keep(s, S) :
              Keep(s, S)[k] \in S /\ \E i \in DOMAIN s : Keep(s, S)[k] = s[i]
         /\ \A i \in DOMAIN s :
              s[i] \in S => \E k \in DOMAIN Keep(s, S) : Keep(s, S)[k] = s[i]
<1>1. PICK h : KeptAt(h, s, S) BY KeepPositions
<1>2. DOMAIN Keep(s, S) = 1..Len(Keep(s, S)) /\ DOMAIN s = 1..Len(s)
  <2>1. Keep(s, S) \in Seq(T) BY KeepTyped
  <2> QED BY <2>1
<1>3. \A k \in 1..Len(Keep(s, S)) :
        Keep(s, S)[k] \in S /\ h[k] \in DOMAIN s /\ Keep(s, S)[k] = s[h[k]]
  BY <1>1, <1>2 DEF KeptAt
<1>4. \A i \in 1..Len(s) :
        s[i] \in S => \E k \in 1..Len(Keep(s, S)) : Keep(s, S)[k] = s[i]
  BY <1>1 DEF KeptAt
<1> QED BY <1>2, <1>3, <1>4

LEMMA KeepAll ==
  ASSUME NEW T, NEW s \in Seq(T), NEW S, \A i \in DOMAIN s : s[i] \in S
  PROVE  Keep(s, S) = s
<1> DEFINE Good == {t \in Seq(T) : Keep(t, S) = t}
<1>1. <<>> \in Good BY KeepEmpty
<1>2. ASSUME NEW i \in 1..Len(s), SubSeq(s, 1, i - 1) \in Good
      PROVE  SubSeq(s, 1, i) \in Good
  <2> DEFINE t == SubSeq(s, 1, i - 1)
             e == s[i]
  <2>1. SubSeq(s, 1, i) = Append(t, e) /\ t \in Seq(T) /\ e \in T BY PrefixGrows
  <2>2. e \in S /\ Keep(t, S) = t BY <1>2
  <2> HIDE DEF t, e
  <2>3. Keep(Append(t, e), S) = Append(Keep(t, S), e) BY <2>1, <2>2, KeepAppend
  <2>4. Append(t, e) \in Seq(T) BY <2>1
  <2>5. Append(t, e) \in Good BY <2>2, <2>3, <2>4
  <2> QED BY <2>1, <2>5
<1> HIDE DEF Good
<1>3. s \in Good BY <1>1, <1>2, PrefixesInduce
<1> USE DEF Good
<1> QED BY <1>3

(***************************************************************************)
(* FlattenSeq.                                                             *)
(***************************************************************************)

\* What FlattenSeq carries along.
Flattening(flat, seqs) ==
  /\ flat[1] = seqs[1]
  /\ \A i \in 2..Len(seqs) : flat[i] = flat[i - 1] \o seqs[i]

LEMMA FlattenRuns ==
  ASSUME NEW T, NEW seqs \in Seq(Seq(T)), seqs # <<>>
  PROVE  \E flat \in [1..Len(seqs) -> Seq(T)] :
           Flattening(flat, seqs) /\ FlattenSeq(seqs) = flat[Len(seqs)]
<1> DEFINE n == Len(seqs)
           D == Seq(T)
           Add(i, k) == k \o seqs[i]
           Body(f) == [i \in 1..n |-> IF i = 1 THEN seqs[i] ELSE Add(i, f[i - 1])]
           step == [p \in (1..n) \X D |-> Add(p[1], p[2])]
<1>1. n \in Nat /\ n # 0 /\ <<>> \in D /\ seqs[1] \in D /\ Add(1, <<>>) = seqs[1] OBVIOUS
<1>2. \A i \in 1..n, k \in D : Add(i, k) \in D OBVIOUS
<1>3. FlattenSeq(seqs) = (CHOOSE f : f = Body(f))[n]
  <2>1. Len(seqs) # 0 BY <1>1
  <2> QED BY <2>1, Zenon DEF FlattenSeq
<1> HIDE DEF n, D, Add
<1>4. step \in [(1..n) \X D -> D] BY <1>2
<1>5. \A i \in 1..n, k \in D : step[<<i, k>>] = Add(i, k) OBVIOUS
<1> HIDE DEF step
<1>6. PICK f : Loop(f, n, D, <<>>, step) BY <1>1, <1>4, LoopRuns
<1>7. \E g : g = Body(g)
  <2> DEFINE g == [i \in 1..n |-> f[i]]
  <2>0. 1 \in 1..n /\ 1 - 1 = 0 BY <1>1
  <2>1. g[1] = seqs[1]
    <3>1. f[1] = step[<<1, <<>>>>] BY <2>0, <1>6 DEF Loop
    <3>2. f[1] = Add(1, <<>>) BY <3>1, <2>0, <1>1, <1>5
    <3> QED BY <3>2, <2>0, <1>1
  <2>2. ASSUME NEW i \in 1..n, i # 1 PROVE g[i] = Add(i, g[i - 1])
    <3>1. i - 1 \in 1..n /\ i - 1 \in 0..n BY <1>1, <2>2
    <3> QED BY <3>1, <1>5, <1>6 DEF Loop
  <2>3. g = [i \in 1..n |-> g[i]] OBVIOUS
  <2> HIDE DEF g
  <2>4. g = Body(g) BY <2>1, <2>2, <2>3
  <2> HIDE DEF Body
  <2> QED BY <2>4
<1>8. PICK flat : flat = Body(flat) /\ FlattenSeq(seqs) = flat[n]
  <2> HIDE DEF Body
  <2> QED BY <1>3, <1>7
<1>9. flat[1] = seqs[1] /\ \A i \in 2..n : flat[i] = Add(i, flat[i - 1])
  <2>1. \A i \in 2..n : i \in 1..n /\ i # 1 BY <1>1
  <2>2. 1 \in 1..n BY <1>1
  <2> QED BY <1>8, <2>1, <2>2
<1>10. \A i \in 1..n : flat[i] \in D
  <2> DEFINE v == [i \in 0..n |-> IF i = 0 THEN <<>> ELSE flat[i]]
  <2>1. v[0] = <<>> /\ \A i \in 1..n : v[i] = flat[i] BY <1>1
  <2> HIDE DEF v
  <2>2. ASSUME NEW i \in 1..n, v[i - 1] \in D PROVE v[i] = step[<<i, v[i - 1]>>]
    <3>1. CASE i = 1 BY <3>1, <2>1, <1>1, <1>5, <1>9
    <3>2. CASE i # 1
      <4>1. i \in 2..n /\ i - 1 \in 1..n BY <3>2, <1>1
      <4>2. flat[i] = Add(i, v[i - 1]) BY <4>1, <1>9, <2>1
      <4> QED BY <4>2, <2>1, <2>2, <1>5
    <3> QED BY <3>1, <3>2
  <2>3. \A i \in 0..n : v[i] \in D BY <1>1, <1>4, <2>1, <2>2, LoopStaysIn
  <2> QED BY <2>1, <2>3, <1>1
<1>11. flat \in [1..n -> D] BY <1>8, <1>10
<1>12. Flattening(flat, seqs) BY <1>9 DEF Flattening, n, Add
<1> QED BY <1>8, <1>11, <1>12 DEF n, D

LEMMA FlattenTyped ==
  ASSUME NEW T, NEW seqs \in Seq(Seq(T))
  PROVE  FlattenSeq(seqs) \in Seq(T)
<1>1. CASE seqs = <<>>
  <2>1. FlattenSeq(seqs) = <<>> BY <1>1 DEF FlattenSeq
  <2> QED BY <2>1
<1>2. CASE seqs # <<>>
  <2>1. PICK flat \in [1..Len(seqs) -> Seq(T)] : FlattenSeq(seqs) = flat[Len(seqs)]
    BY <1>2, FlattenRuns
  <2>2. Len(seqs) \in 1..Len(seqs) BY <1>2
  <2> QED BY <2>1, <2>2
<1> QED BY <1>1, <1>2

LEMMA FlattenAppend ==
  ASSUME NEW T, NEW seqs \in Seq(Seq(T)), NEW x \in Seq(T)
  PROVE  FlattenSeq(Append(seqs, x)) = FlattenSeq(seqs) \o x
<1> DEFINE all == Append(seqs, x)
           n == Len(seqs)
<1>1. all \in Seq(Seq(T)) /\ Len(all) = n + 1 /\ all[n + 1] = x /\ n \in Nat /\ all # <<>>
      /\ (\A i \in 1..n : all[i] = seqs[i])
  <2> DEFINE U == Seq(T)
  <2>1. seqs \in Seq(U) /\ x \in U OBVIOUS
  <2> HIDE DEF U
  <2>2. all \in Seq(U) /\ Len(all) = n + 1 /\ all[n + 1] = x /\ n \in Nat
        /\ (\A i \in 1..n : all[i] = seqs[i])
    BY <2>1
  <2>3. all # <<>> BY <2>2
  <2> QED BY <2>2, <2>3 DEF U
<1> HIDE DEF all
<1>2. PICK l \in [1..(n + 1) -> Seq(T)] : Flattening(l, all) /\ FlattenSeq(all) = l[n + 1]
  <2>1. \E l \in [1..Len(all) -> Seq(T)] :
          Flattening(l, all) /\ FlattenSeq(all) = l[Len(all)]
    BY <1>1, FlattenRuns
  <2> QED BY <1>1, <2>1
<1>3. CASE seqs = <<>>
  <2>1. FlattenSeq(seqs) = <<>> /\ n = 0 BY <1>3 DEF FlattenSeq
  <2>2. l[n + 1] = x BY <1>1, <1>2, <2>1 DEF Flattening
  <2> QED BY <2>1, <2>2, <1>2 DEF all
<1>4. CASE seqs # <<>>
  <2>1. n # 0 BY <1>4
  <2>2. PICK k \in [1..n -> Seq(T)] : Flattening(k, seqs) /\ FlattenSeq(seqs) = k[n]
    BY <1>4, FlattenRuns
  <2> DEFINE Same == {i \in 0..n : i = 0 \/ k[i] = l[i]}
  <2>3. 0 \in Same BY <1>1
  <2>4. ASSUME NEW i \in 1..n, i - 1 \in Same PROVE i \in Same
    <3>1. i \in 1..(n + 1) /\ all[i] = seqs[i] BY <1>1
    <3>2. CASE i = 1
      BY <3>1, <3>2, <2>2, <1>2 DEF Flattening
    <3>3. CASE i # 1
      <4>1. i \in 2..n /\ i \in 2..Len(all) /\ k[i - 1] = l[i - 1] BY <3>3, <1>1, <2>4
      <4>2. k[i] = k[i - 1] \o seqs[i] BY <4>1, <2>2 DEF Flattening
      <4>3. l[i] = l[i - 1] \o all[i] BY <4>1, <1>2 DEF Flattening
      <4>4. k[i] = l[i] BY <4>1, <4>2, <4>3, <3>1
      <4> QED BY <4>4
    <3> QED BY <3>2, <3>3
  <2> HIDE DEF Same
  <2>5. n \in Same
    <3>1. n \in Nat /\ n \in 0..n BY <1>1
    <3> HIDE DEF n
    <3>2. \A i \in 0..n : i \in Same BY <3>1, <2>3, <2>4, PositionsInduce
    <3> QED BY <3>1, <3>2
  <2> USE DEF Same
  <2>6. k[n] = l[n] BY <2>1, <2>5
  <2>7. l[n + 1] = l[n] \o x
    <3>1. n + 1 \in 2..Len(all) /\ (n + 1) - 1 = n BY <1>1, <2>1
    <3> QED BY <3>1, <1>1, <1>2 DEF Flattening
  <2> QED BY <2>2, <2>6, <2>7, <1>2 DEF all
<1> QED BY <1>3, <1>4

\* A longer list of lists is flattened to a longer list.
LEMMA FlattenGrows ==
  ASSUME NEW T, NEW seqs \in Seq(Seq(T)), NEW n \in 0..Len(seqs)
  PROVE  LET part == FlattenSeq(SubSeq(seqs, 1, n)) IN
         /\ part \in Seq(T) /\ FlattenSeq(seqs) \in Seq(T)
         /\ Len(part) <= Len(FlattenSeq(seqs))
         /\ \A k \in 1..Len(part) : part[k] = FlattenSeq(seqs)[k]
<1> DEFINE U == Seq(T)
           F(i) == FlattenSeq(SubSeq(seqs, 1, i))
           Extends(b, a) == Len(a) <= Len(b) /\ \A k \in 1..Len(a) : a[k] = b[k]
           N == Len(seqs)
           Good == {i \in 0..N : i >= n => Extends(F(i), F(n))}
<1>1. N \in Nat OBVIOUS
<1>2. \A i \in 0..N : SubSeq(seqs, 1, i) \in Seq(U) OBVIOUS
<1>3. \A i \in 0..N : F(i) \in U BY <1>2, FlattenTyped
<1>4. \A i \in 1..N : F(i) = F(i - 1) \o seqs[i] /\ seqs[i] \in U
  <2> TAKE i \in 1..N
  <2> DEFINE t == SubSeq(seqs, 1, i - 1)
             e == seqs[i]
  <2>1. SubSeq(seqs, 1, i) = Append(t, e) /\ t \in Seq(U) /\ e \in U BY PrefixGrows
  <2> HIDE DEF t, e
  <2>2. FlattenSeq(Append(t, e)) = FlattenSeq(t) \o e BY <2>1, FlattenAppend
  <2> QED BY <2>1, <2>2 DEF t, e
<1>5. 0 \in Good
  <2>1. 0 >= n => n = 0 OBVIOUS
  <2> QED BY <2>1, <1>1, <1>3
<1>6. SubSeq(seqs, 1, N) = seqs
  <2> HIDE DEF U
  <2>1. seqs \in Seq(U) BY DEF U
  <2> QED BY <2>1, WholeIsPrefix
<1>7. N \in 0..N /\ N >= n BY <1>1
<1> HIDE DEF N, F
<1>8. ASSUME NEW i \in 1..N, i - 1 \in Good PROVE i \in Good
  <2>0. i \in 0..N /\ i - 1 \in 0..N /\ n \in 0..N BY <1>1 DEF N
  <2>1. F(i - 1) \in U /\ F(i) \in U /\ F(n) \in U /\ seqs[i] \in U /\ F(i) = F(i - 1) \o seqs[i]
    BY <2>0, <1>3, <1>4
  <2>2. Extends(F(i), F(i - 1))
    <3>1. \A a, b \in U : Extends(a \o b, a) OBVIOUS
    <3> HIDE DEF U, Extends
    <3> QED BY <2>1, <3>1
  <2>3. i >= n => i - 1 >= n \/ i = n OBVIOUS
  <2>4. Extends(F(n), F(n)) BY <2>1
  <2>5. ASSUME i - 1 >= n PROVE Extends(F(i), F(n))
    <3>1. Extends(F(i - 1), F(n)) BY <1>8, <2>5
    <3>2. Len(F(n)) \in Nat /\ Len(F(i)) \in Nat /\ Len(F(i - 1)) \in Nat
      <4>1. \A a \in U : Len(a) \in Nat OBVIOUS
      <4> HIDE DEF U
      <4> QED BY <2>1, <4>1
    <3> QED BY <3>1, <3>2, <2>2
  <2> QED BY <2>3, <2>4, <2>5
<1> HIDE DEF Good
<1>9. N \in Good BY <1>1, <1>5, <1>7, <1>8, PositionsInduce
<1> USE DEF Good
<1>10. Extends(F(N), F(n)) BY <1>7, <1>9
<1>11. F(N) = FlattenSeq(seqs) /\ F(n) = FlattenSeq(SubSeq(seqs, 1, n)) BY <1>6 DEF F
<1>12. F(N) \in Seq(T) /\ F(n) \in Seq(T)
  <2>1. n \in 0..N BY DEF N
  <2> QED BY <2>1, <1>3, <1>7
<1> QED BY <1>10, <1>11, <1>12

LEMMA FlattenSingletons ==
  ASSUME NEW T, NEW s \in Seq(T)
  PROVE  FlattenSeq([i \in DOMAIN s |-> <<s[i]>>]) = s
<1> DEFINE U == Seq(T)
           Ones(t) == [i \in DOMAIN t |-> <<t[i]>>]
           Good == {t \in Seq(T) : FlattenSeq(Ones(t)) = t}
<1>1. <<>> \in Good
  <2>1. Ones(<<>>) = <<>> OBVIOUS
  <2>2. FlattenSeq(<<>>) = <<>> BY DEF FlattenSeq
  <2> QED BY <2>1, <2>2
<1>2. ASSUME NEW i \in 1..Len(s), SubSeq(s, 1, i - 1) \in Good
      PROVE  SubSeq(s, 1, i) \in Good
  <2> DEFINE t == SubSeq(s, 1, i - 1)
             e == s[i]
  <2>1. SubSeq(s, 1, i) = Append(t, e) /\ t \in Seq(T) /\ e \in T BY PrefixGrows
  <2>2. FlattenSeq(Ones(t)) = t BY <1>2
  <2> HIDE DEF t, e
  <2>3. Ones(t) \in Seq(U) /\ <<e>> \in U
    <3>1. \A j \in DOMAIN t : <<t[j]>> \in U BY <2>1
    <3>2. DOMAIN t = 1..Len(t) /\ Len(t) \in Nat BY <2>1
    <3>3. <<e>> \in U BY <2>1
    <3> HIDE DEF U
    <3> QED BY <3>1, <3>2, <3>3
  <2>4. Ones(Append(t, e)) = Append(Ones(t), <<e>>) BY <2>1
  <2> HIDE DEF Ones
  <2>5. FlattenSeq(Append(Ones(t), <<e>>)) = FlattenSeq(Ones(t)) \o <<e>>
    BY <2>3, FlattenAppend
  <2>6. t \o <<e>> = Append(t, e) /\ Append(t, e) \in Seq(T) BY <2>1
  <2> QED BY <2>1, <2>2, <2>4, <2>5, <2>6
<1> HIDE DEF Good
<1>3. s \in Good BY <1>1, <1>2, PrefixesInduce
<1> USE DEF Good
<1> QED BY <1>3
=============================================================================
