---------------------------- MODULE Stages_proofs ----------------------------
(***************************************************************************)
(* What the stages of the pipeline do to every specification that the      *)
(* validator lets through: lemmas about the operators of Normalizer,       *)
(* Schemas, Simplifier and RequestBuilder.                                 *)
(***************************************************************************)
EXTENDS Pipeline, Lists_proofs, ToolNames_proofs

(***************************************************************************)
(* The operations of a specification.                                      *)
(***************************************************************************)

\* The words of names.
Words == STRING \cup Range(HttpMethods)

LEMMA MethodsTyped == HttpMethods \in Seq(Words)
<1> DEFINE h == HttpMethods
<1>1. \A k \in 1..7 : h[k] \in Words BY DEF Words, Range, HttpMethods
<1>2. h = [k \in 1..7 |-> h[k]] BY DEF HttpMethods
<1> HIDE DEF h
<1>3. h \in Seq(Words) BY <1>1, <1>2
<1> QED BY <1>3 DEF h

\* The operations at the path items of a specification, where normalize sees them.
Sites(items) ==
  UNION {{[method |-> m, item |-> items[p], op |-> items[p].ops[m]]
            : m \in DOMAIN items[p].ops} : p \in DOMAIN items}

LEMMA SitesTyped ==
  ASSUME NEW items, ValidItems(items), NEW o \in Sites(items)
  PROVE  /\ o.method \in Words
         /\ ValidItem(o.item)
         /\ o.op \in RawOperations
         /\ Resolved(o.item, o.op)
<1>0. PICK p \in DOMAIN items : \E m \in DOMAIN items[p].ops :
        o = [method |-> m, item |-> items[p], op |-> items[p].ops[m]]
  BY DEF Sites
<1>1. PICK m \in DOMAIN items[p].ops :
        o = [method |-> m, item |-> items[p], op |-> items[p].ops[m]]
  BY <1>0
<1>2. ValidItem(items[p]) BY DEF ValidItems
<1>3. m \in Range(HttpMethods) /\ items[p].ops[m] \in RawOperations
      /\ Resolved(items[p], items[p].ops[m])
  BY <1>2 DEF ValidItem
<1>4. Range(HttpMethods) \subseteq Words BY DEF Words
<1>5. o.method = m /\ o.item = items[p] /\ o.op = items[p].ops[m] BY <1>1
<1> QED BY <1>2, <1>3, <1>4, <1>5

\* The operations of one path item, by place.
SitesOfItem(item) ==
  LET methods == Keep(HttpMethods, DOMAIN item.ops)
  IN  [k \in DOMAIN methods |->
         [method |-> methods[k], item |-> item, op |-> item.ops[methods[k]]]]

LEMMA SitesOfItemTyped ==
  ASSUME NEW items, ValidItems(items), NEW p \in DOMAIN items
  PROVE  SitesOfItem(items[p]) \in Seq(Sites(items))
<1> DEFINE methods == Keep(HttpMethods, DOMAIN items[p].ops)
           Site(k) == [method |-> methods[k], item |-> items[p], op |-> items[p].ops[methods[k]]]
<1>1. HttpMethods \in Seq(Words) BY MethodsTyped
<1>2. methods \in Seq(Words) BY <1>1, KeepTyped
<1>3. \A k \in DOMAIN methods : methods[k] \in DOMAIN items[p].ops BY <1>1, KeepElements
<1>4. \A k \in DOMAIN methods : Site(k) \in Sites(items) BY <1>3 DEF Sites
<1>5. SitesOfItem(items[p]) = [k \in DOMAIN methods |-> Site(k)] BY DEF SitesOfItem
<1>6. DOMAIN methods = 1..Len(methods) /\ Len(methods) \in Nat BY <1>2
<1> HIDE DEF methods, Site
<1> QED BY <1>4, <1>5, <1>6

LEMMA OperationsTyped ==
  ASSUME NEW items, ValidItems(items)
  PROVE  OperationsOf(items) \in Seq(Sites(items))
<1> DEFINE parts == [p \in DOMAIN items |-> SitesOfItem(items[p])]
           U == Seq(Sites(items))
<1>1. DOMAIN items = 1..Len(items) /\ Len(items) \in Nat BY DEF ValidItems
<1>2. OperationsOf(items) = FlattenSeq(parts) BY DEF OperationsOf, SitesOfItem
<1>3. parts \in Seq(U)
  <2>1. \A p \in DOMAIN items : SitesOfItem(items[p]) \in U BY SitesOfItemTyped
  <2> HIDE DEF U
  <2> QED BY <1>1, <2>1
<1> HIDE DEF parts
<1> QED BY <1>2, <1>3, FlattenTyped

LEMMA CandidateTyped ==
  ASSUME NEW o, ValidItem(o.item), o.op \in RawOperations, o.method \in Words
  PROVE  CandidateId(o) \in Seq(Words) /\ CandidateId(o) # <<>>
<1> DEFINE path == o.item.path
           names == [i \in DOMAIN path |-> path[i].name]
           word == Sanitize(FlattenSeq(names))
           N == Seq(Words)
<1>0. \A n \in Names : n \in N
  <2>1. \A S, Q : S \subseteq Q => \A n \in Seq(S) : n \in Seq(Q) OBVIOUS
  <2>2. STRING \subseteq Words BY DEF Words
  <2> HIDE DEF N
  <2> QED BY <2>1, <2>2 DEF Names, N
<1>1. o.op.operationId \in N
  <2>1. o.op.operationId \in Names BY DEF RawOperations
  <2> QED BY <1>0, <2>1
<1>2. names \in Seq(N)
  <2> DEFINE P == [name : Names, variable : BOOLEAN]
  <2>1. path \in Seq(P) BY DEF ValidItem
  <2> HIDE DEF N, path, P
  <2>2. \A i \in 1..Len(path) : path[i].name \in N
    <3> SUFFICES ASSUME NEW i \in 1..Len(path) PROVE path[i].name \in N OBVIOUS
    <3>1. path[i] \in P BY <2>1
    <3> QED BY <1>0, <3>1 DEF P
  <2>3. DOMAIN path = 1..Len(path) /\ Len(path) \in Nat BY <2>1
  <2> QED BY <2>2, <2>3
<1> HIDE DEF names
<1>3. FlattenSeq(names) \in Seq(Words) BY <1>2, FlattenTyped
<1>4. word \in Seq(Words) BY <1>3, KeepTyped DEF Sanitize
<1>5. <<o.method>> \o word \in Seq(Words) /\ <<o.method>> \o word # <<>>
  <2> HIDE DEF word
  <2>1. <<o.method>> \in Seq(Words) /\ Len(<<o.method>>) = 1 OBVIOUS
  <2>2. Len(<<o.method>> \o word) = 1 + Len(word) /\ Len(word) \in Nat BY <1>4, <2>1
  <2> QED BY <1>4, <2>1, <2>2
<1>6. CandidateId(o) = IF o.op.operationId # <<>> THEN o.op.operationId ELSE <<o.method>> \o word
  BY DEF CandidateId, names
<1> HIDE DEF word
<1> QED BY <1>1, <1>5, <1>6

LEMMA CandidatesTyped ==
  ASSUME NEW items, ValidItems(items)
  PROVE  /\ Candidates(items) \in Seq(Seq(Words))
         /\ DOMAIN Candidates(items) = DOMAIN OperationsOf(items)
         /\ \A i \in DOMAIN Candidates(items) : Candidates(items)[i] # <<>>
<1> DEFINE found == OperationsOf(items)
           N == Seq(Words)
<1>1. found \in Seq(Sites(items)) BY OperationsTyped
<1>2. \A i \in DOMAIN found : CandidateId(found[i]) \in N /\ CandidateId(found[i]) # <<>>
  <2> SUFFICES ASSUME NEW i \in DOMAIN found
               PROVE  CandidateId(found[i]) \in N /\ CandidateId(found[i]) # <<>>
    OBVIOUS
  <2>1. found[i] \in Sites(items) BY <1>1
  <2> HIDE DEF found
  <2> QED BY <2>1, SitesTyped, CandidateTyped
<1>3. Candidates(items) = [i \in DOMAIN found |-> CandidateId(found[i])] BY DEF Candidates
<1>4. DOMAIN found = 1..Len(found) /\ Len(found) \in Nat BY <1>1
<1> HIDE DEF found
<1>5. Candidates(items) \in Seq(N)
  <2> HIDE DEF N
  <2> QED BY <1>2, <1>3, <1>4
<1> QED BY <1>2, <1>3, <1>5 DEF found

(***************************************************************************)
(* Dicts.                                                                  *)
(***************************************************************************)

IsDict(d) == \A i, j \in DOMAIN d : d[i].key = d[j].key => i = j

LEMMA PutEntries ==
  ASSUME NEW E, NEW d \in Seq(E), NEW e \in E
  PROVE  /\ Put(d, e) \in Seq(E)
         /\ IsDict(d) => IsDict(Put(d, e))
         /\ Keys(Put(d, e)) = Keys(d) \cup {e.key}
         /\ Range(Put(d, e)) = {x \in Range(d) : x.key # e.key} \cup {e}
         /\ Len(Put(d, e)) = IF e.key \in Keys(d) THEN Len(d) ELSE Len(d) + 1
<1> DEFINE q == Put(d, e)
<1>1. DOMAIN d = 1..Len(d) /\ Len(d) \in Nat /\ \A i \in 1..Len(d) : d[i] \in E
  OBVIOUS
<1>2. CASE e.key \in Keys(d)
  <2>1. q = [i \in DOMAIN d |-> IF d[i].key = e.key THEN e ELSE d[i]] BY <1>2 DEF Put
  <2>2. PICK k \in DOMAIN d : d[k].key = e.key BY <1>2 DEF Keys
  <2> HIDE DEF q
  <2>3. DOMAIN q = DOMAIN d
        /\ \A i \in DOMAIN d : q[i] = IF d[i].key = e.key THEN e ELSE d[i]
    BY <2>1
  <2>4. q \in Seq(E)
    <3>1. \A i \in 1..Len(d) : q[i] \in E BY <1>1, <2>3
    <3>2. q = [i \in 1..Len(d) |-> q[i]] BY <1>1, <2>1, <2>3
    <3> QED BY <1>1, <3>1, <3>2
  <2>5. \A i \in DOMAIN d : q[i].key = d[i].key BY <2>3
  <2>6. IsDict(d) => IsDict(q) BY <2>3, <2>5 DEF IsDict
  <2>7. Keys(q) = Keys(d) \cup {e.key} BY <1>2, <2>3, <2>5 DEF Keys
  <2>8. Range(q) = {x \in Range(d) : x.key # e.key} \cup {e}
    <3>1. ASSUME NEW x \in Range(q) PROVE x \in {y \in Range(d) : y.key # e.key} \cup {e}
      BY <2>3 DEF Range
    <3>2. ASSUME NEW x \in Range(d), x.key # e.key PROVE x \in Range(q)
      BY <2>3, <3>2 DEF Range
    <3>3. e \in Range(q) BY <2>2, <2>3 DEF Range
    <3> QED BY <3>1, <3>2, <3>3
  <2>9. Len(q) = Len(d) BY <1>1, <2>3, <2>4
  <2> QED BY <1>2, <2>4, <2>6, <2>7, <2>8, <2>9 DEF q
<1>3. CASE e.key \notin Keys(d)
  <2> DEFINE n == Len(d)
  <2>1. q = Append(d, e) BY <1>3 DEF Put
  <2> HIDE DEF q
  <2>2. q \in Seq(E) /\ DOMAIN q = 1..(n + 1) /\ q[n + 1] = e
        /\ \A i \in 1..n : q[i] = d[i]
    BY <2>1
  <2>3. \A i \in 1..n : d[i].key # e.key BY <1>1, <1>3 DEF Keys
  <2>4. \A i \in 1..(n + 1) : i = n + 1 \/ i \in 1..n BY <1>1
  <2>5. n + 1 \in 1..(n + 1) /\ 1..n \subseteq 1..(n + 1) BY <1>1
  <2> HIDE DEF n
  <2>6. IsDict(d) => IsDict(q)
    BY <1>1, <2>2, <2>3, <2>4 DEF IsDict, n
  <2>7. Keys(q) = Keys(d) \cup {e.key}
    BY <1>1, <2>2, <2>4, <2>5 DEF Keys, n
  <2>8. Range(q) = {x \in Range(d) : x.key # e.key} \cup {e}
    <3>1. ASSUME NEW x \in Range(q) PROVE x \in {y \in Range(d) : y.key # e.key} \cup {e}
      <4>1. PICK i \in 1..(n + 1) : x = q[i] BY <2>2 DEF Range
      <4>2. CASE i = n + 1 BY <4>1, <4>2, <2>2
      <4>3. CASE i \in 1..n
        <5>1. x = d[i] /\ d[i].key # e.key /\ i \in DOMAIN d
          BY <4>1, <4>3, <1>1, <2>2, <2>3 DEF n
        <5> QED BY <5>1 DEF Range
      <4> QED BY <4>2, <4>3, <2>4
    <3>2. ASSUME NEW x \in Range(d) PROVE x \in Range(q)
      BY <1>1, <2>2, <2>5 DEF Range, n
    <3>3. e \in Range(q) BY <2>2, <2>5 DEF Range
    <3> QED BY <3>1, <3>2, <3>3
  <2>9. Len(q) = Len(d) + 1 BY <1>1, <2>2 DEF n
  <2> QED BY <1>3, <2>2, <2>6, <2>7, <2>8, <2>9 DEF q
<1> QED BY <1>2, <1>3

LEMMA KeepDict ==
  ASSUME NEW E, NEW d \in Seq(E), NEW S
  PROVE  /\ Keep(d, S) \in Seq(E)
         /\ IsDict(d) => IsDict(Keep(d, S))
         /\ Range(Keep(d, S)) = Range(d) \cap S
<1> DEFINE q == Keep(d, S)
<1>1. q \in Seq(E) BY KeepTyped
<1>2. PICK h : KeptAt(h, d, S) BY KeepPositions
<1>3. DOMAIN q = 1..Len(q) /\ DOMAIN d = 1..Len(d) /\ Len(q) \in Nat BY <1>1
<1>4. \A k \in 1..Len(q) : h[k] \in 1..Len(d) /\ q[k] = d[h[k]] BY <1>2 DEF KeptAt
<1>5. \A k, l \in 1..Len(q) : h[k] = h[l] => k = l
  <2> SUFFICES ASSUME NEW k \in 1..Len(q), NEW l \in 1..Len(q), h[k] = h[l] PROVE k = l
    OBVIOUS
  <2>1. ~(k < l) /\ ~(l < k) BY <1>2, <1>4 DEF KeptAt
  <2>2. k \in Int /\ l \in Int BY <1>3
  <2> HIDE DEF q
  <2> QED BY <2>1, <2>2
<1>6. IsDict(d) => IsDict(q)
  <2> HIDE DEF q
  <2> QED BY <1>3, <1>4, <1>5 DEF IsDict
<1>7. Range(q) = Range(d) \cap S
  <2>1. \A k \in DOMAIN q : q[k] \in S /\ \E i \in DOMAIN d : q[k] = d[i] BY KeepElements
  <2>2. \A i \in DOMAIN d : d[i] \in S => \E k \in DOMAIN q : q[k] = d[i] BY KeepElements
  <2> HIDE DEF q
  <2> QED BY <2>1, <2>2 DEF Range
<1> QED BY <1>1, <1>6, <1>7

LEMMA DropEntries ==
  ASSUME NEW E, NEW d \in Seq(E), NEW k
  PROVE  /\ Drop(d, k) \in Seq(E)
         /\ IsDict(d) => IsDict(Drop(d, k))
         /\ Range(Drop(d, k)) = {x \in Range(d) : x.key # k}
<1> DEFINE S == {d[i] : i \in {j \in DOMAIN d : d[j].key # k}}
<1>1. Drop(d, k) = Keep(d, S) BY DEF Drop
<1>2. Range(d) \cap S = {x \in Range(d) : x.key # k} BY DEF Range
<1> HIDE DEF S
<1> QED BY <1>1, <1>2, KeepDict

(***************************************************************************)
(* The parameters of an operation.                                         *)
(***************************************************************************)

Entries == {Keyed(p) : p \in RawParameters}

LEMMA MergeRuns ==
  ASSUME NEW all \in Seq(RawParameters)
  PROVE  \E v \in [0..Len(all) -> Seq(Entries)] :
           /\ v[0] = <<>>
           /\ \A i \in 1..Len(all) : v[i] = Put(v[i - 1], Keyed(all[i]))
           /\ Merged(all) = v[Len(all)]
<1> DEFINE n == Len(all)
           D == Seq(Entries)
           Add(i, d) == Put(d, Keyed(all[i]))
           Body(f) == [i \in 0..n |-> IF i = 0 THEN <<>> ELSE Add(i, f[i - 1])]
           step == [p \in (1..n) \X D |-> Add(p[1], p[2])]
<1>1. n \in Nat /\ <<>> \in D OBVIOUS
<1>2. \A i \in 1..n, d \in D : Add(i, d) \in D
  <2> SUFFICES ASSUME NEW i \in 1..n, NEW d \in Seq(Entries) PROVE Add(i, d) \in D OBVIOUS
  <2>1. all[i] \in RawParameters OBVIOUS
  <2>2. Keyed(all[i]) \in Entries BY <2>1 DEF Entries
  <2> QED BY <2>2, PutEntries
<1>3. Merged(all) = (CHOOSE f : f = Body(f))[n] BY Zenon DEF Merged, Fold
<1> HIDE DEF n, D, Add
<1>4. step \in [(1..n) \X D -> D] BY <1>2
<1>5. \A i \in 1..n, d \in D : step[<<i, d>>] = Add(i, d) OBVIOUS
<1> HIDE DEF step
<1>6. PICK f : Loop(f, n, D, <<>>, step) BY <1>1, <1>4, LoopRuns
<1>7. f = Body(f)
  <2>0. f[0] = <<>> BY <1>6 DEF Loop
  <2>1. f = [i \in 0..n |-> f[i]] BY <1>6 DEF Loop
  <2>2. \A i \in 1..n : i - 1 \in 0..n BY <1>1
  <2>3. \A i \in 1..n : f[i] = Add(i, f[i - 1]) BY <2>2, <1>5, <1>6 DEF Loop
  <2>4. \A i \in 0..n : f[i] = IF i = 0 THEN <<>> ELSE Add(i, f[i - 1])
    <3>1. \A i \in 0..n : i = 0 \/ i \in 1..n BY <1>1
    <3> QED BY <3>1, <2>0, <2>3
  <2> QED BY <2>1, <2>4
<1>8. PICK v : v = Body(v) /\ Merged(all) = v[n]
  <2> HIDE DEF Body
  <2> QED BY <1>3, <1>7
<1>9. v[0] = <<>> /\ \A i \in 1..n : v[i] = Add(i, v[i - 1])
  BY <1>1, <1>8
<1>10. \A i \in 1..n : v[i - 1] \in D => v[i] = step[<<i, v[i - 1]>>]
  BY <1>5, <1>9
<1>11. \A i \in 0..n : v[i] \in D
  BY <1>1, <1>4, <1>9, <1>10, LoopStaysIn
<1>12. v \in [0..n -> D] BY <1>8, <1>11
<1> QED BY <1>8, <1>9, <1>12 DEF n, D, Add

\* MergeParameters loses no path parameter and invents none.
LEMMA MergeFacts ==
  ASSUME NEW a \in Seq(RawParameters), NEW b \in Seq(RawParameters)
  PROVE  LET all == a \o b
             m   == MergeParameters(a, b)
         IN  /\ m \in Seq(RawParameters) /\ Len(m) <= Len(all)
             /\ \A i, j \in DOMAIN m : m[i].name = m[j].name /\ m[i].in = m[j].in => i = j
             /\ \A i \in DOMAIN m : \E k \in DOMAIN all : m[i] = all[k]
             /\ \A k \in DOMAIN all : all[k].in = "path" =>
                  \E i \in DOMAIN m : m[i].name = all[k].name /\ m[i].in = "path"
<1> DEFINE all == a \o b
           m == MergeParameters(a, b)
           E == Entries
<1>1. all \in Seq(RawParameters) OBVIOUS
<1> HIDE DEF all
<1> DEFINE n == Len(all)
<1>2. PICK v \in [0..n -> Seq(E)] :
        /\ v[0] = <<>>
        /\ \A i \in 1..n : v[i] = Put(v[i - 1], Keyed(all[i]))
        /\ Merged(all) = v[n]
  BY <1>1, MergeRuns
<1>3. n \in Nat /\ \A i \in 1..n : all[i] \in RawParameters BY <1>1
<1>4. \A i \in 1..n : Keyed(all[i]) \in E BY <1>3 DEF Entries
<1> DEFINE Good ==
      {i \in 0..n : /\ IsDict(v[i]) /\ Len(v[i]) <= i
                    /\ \A x \in Range(v[i]) : \E k \in 1..i : x = Keyed(all[k])
                    /\ \A k \in 1..i : Keyed(all[k]).key \in Keys(v[i])}
<1>5. 0 \in Good BY <1>2, <1>3 DEF IsDict, Range
<1>6. ASSUME NEW i \in 1..n, i - 1 \in Good PROVE i \in Good
  <2> DEFINE d == v[i - 1]
             e == Keyed(all[i])
  <2>1. i - 1 \in 0..n /\ i \in 0..n /\ 1..(i - 1) \subseteq 1..i
        /\ \A k \in 1..i : k = i \/ k \in 1..(i - 1)
    BY <1>3
  <2>2. d \in Seq(E) /\ e \in E BY <1>2, <1>4, <2>1
  <2>3. v[i] = Put(d, e) BY <1>2
  <2>4. IsDict(d) /\ Len(d) <= i - 1
        /\ (\A x \in Range(d) : \E k \in 1..(i - 1) : x = Keyed(all[k]))
        /\ (\A k \in 1..(i - 1) : Keyed(all[k]).key \in Keys(d))
    BY <1>6
  <2>5. e = Keyed(all[i]) OBVIOUS
  <2> HIDE DEF d, e
  <2>6. IsDict(Put(d, e)) /\ Keys(Put(d, e)) = Keys(d) \cup {e.key}
        /\ Range(Put(d, e)) = {x \in Range(d) : x.key # e.key} \cup {e}
        /\ Len(Put(d, e)) \in {Len(d), Len(d) + 1} /\ Len(d) \in Nat
    BY <2>2, <2>4, PutEntries
  <2>7. \A x \in Range(v[i]) : \E k \in 1..i : x = Keyed(all[k])
    <3> SUFFICES ASSUME NEW x \in Range(v[i]) PROVE \E k \in 1..i : x = Keyed(all[k])
      OBVIOUS
    <3>1. CASE x = e BY <3>1, <2>5
    <3>2. CASE x \in Range(d) BY <3>2, <2>1, <2>4
    <3> QED BY <3>1, <3>2, <2>3, <2>6
  <2>8. \A k \in 1..i : Keyed(all[k]).key \in Keys(v[i]) BY <2>1, <2>3, <2>4, <2>5, <2>6
  <2>9. Len(v[i]) <= i BY <2>3, <2>4, <2>6
  <2> QED BY <2>1, <2>3, <2>6, <2>7, <2>8, <2>9
<1> HIDE DEF Good
<1>7. n \in Good
  <2>1. \A i \in 0..n : i \in Good BY <1>3, <1>5, <1>6, PositionsInduce
  <2> QED BY <2>1, <1>3
<1> USE DEF Good
<1> DEFINE merged == Merged(all)
           S == {e \in Range(merged) : ~(e.param.in = "header" /\ e.param.name \in ReservedHeaders)}
           exposed == Keep(merged, S)
<1>8. merged \in Seq(E) /\ IsDict(merged) /\ Len(merged) <= n
      /\ (\A x \in Range(merged) : \E k \in 1..n : x = Keyed(all[k]))
      /\ (\A k \in 1..n : Keyed(all[k]).key \in Keys(merged))
  BY <1>2, <1>3, <1>7
<1>9. m = [i \in DOMAIN exposed |-> exposed[i].param] BY DEF MergeParameters, all
<1> HIDE DEF Good, m, merged, n
<1>10. S \subseteq Range(merged) OBVIOUS
<1>11. exposed \in Seq(E) /\ IsDict(exposed) /\ Range(exposed) = S
       /\ Len(exposed) <= Len(merged)
  BY <1>8, <1>10, KeepDict, KeepShortens
<1>12. \A x \in S : x \in Range(merged) /\ ~(x.param.in = "header" /\ x.param.name \in ReservedHeaders)
  OBVIOUS
<1>13. \A x \in Range(merged) : x.param.in # "header" => x \in S OBVIOUS
<1> HIDE DEF exposed, S
<1>14. DOMAIN exposed = 1..Len(exposed) /\ Len(exposed) \in Nat /\ Len(merged) \in Nat
  BY <1>8, <1>11
<1>15. \A i \in DOMAIN exposed : \E k \in 1..n : exposed[i] = Keyed(all[k])
  <2> SUFFICES ASSUME NEW i \in DOMAIN exposed PROVE \E k \in 1..n : exposed[i] = Keyed(all[k])
    OBVIOUS
  <2>1. exposed[i] \in Range(exposed) BY DEF Range
  <2> QED BY <2>1, <1>8, <1>11, <1>12
<1>16. \A p : Keyed(p).param = p /\ Keyed(p).key = <<p.name, p.in>> BY DEF Keyed
<1>17. \A i \in DOMAIN exposed :
         /\ \E k \in 1..n : m[i] = all[k]
         /\ m[i] \in RawParameters
         /\ exposed[i].key = <<m[i].name, m[i].in>>
  BY <1>3, <1>9, <1>15, <1>16 DEF n
<1>18. m \in Seq(RawParameters) /\ Len(m) = Len(exposed) /\ DOMAIN m = DOMAIN exposed
  BY <1>9, <1>14, <1>17
<1>19. \A i, j \in DOMAIN m : m[i].name = m[j].name /\ m[i].in = m[j].in => i = j
  <2> SUFFICES ASSUME NEW i \in DOMAIN m, NEW j \in DOMAIN m,
                      m[i].name = m[j].name, m[i].in = m[j].in
               PROVE  i = j
    OBVIOUS
  <2>1. i \in DOMAIN exposed /\ j \in DOMAIN exposed BY <1>18
  <2>2. exposed[i].key = exposed[j].key BY <1>17, <2>1
  <2>3. IsDict(exposed) BY <1>11
  <2> QED BY <2>1, <2>2, <2>3 DEF IsDict
<1>20. ASSUME NEW k \in 1..n, all[k].in = "path"
       PROVE  \E i \in DOMAIN m : m[i].name = all[k].name /\ m[i].in = "path"
  <2>1. PICK j \in DOMAIN merged : merged[j].key = Keyed(all[k]).key BY <1>8 DEF Keys
  <2>2. merged[j] \in Range(merged) BY DEF Range
  <2>3. PICK l \in 1..n : merged[j] = Keyed(all[l]) BY <1>8, <2>2
  <2>4. all[l].name = all[k].name /\ all[l].in = "path" BY <2>1, <2>3, <1>16, <1>20
  <2>5. merged[j] \in S BY <1>13, <1>16, <2>2, <2>3, <2>4
  <2>6. PICK i \in DOMAIN exposed : exposed[i] = merged[j] BY <1>11, <2>5 DEF Range
  <2>7. m[i] = all[l] BY <1>9, <1>16, <2>3, <2>6
  <2> QED BY <1>18, <2>4, <2>6, <2>7
<1>21. DOMAIN all = 1..n BY <1>1 DEF n
<1>22. Len(m) <= Len(all) BY <1>8, <1>11, <1>14, <1>18, <1>3 DEF n
<1> QED BY <1>17, <1>18, <1>19, <1>20, <1>21, <1>22 DEF all, m

(***************************************************************************)
(* Schemas.                                                                *)
(***************************************************************************)

IsValue(v) == v.type = "integer" => v.n \in Int

LEMMA MaximaAre ==
  ASSUME NEW m \in Maxima
  PROVE  m = Absent \/ (m.is = "number" /\ m.n \in Nat /\ m # Absent)
  BY DEF Maxima, Absent

\* What the rewriting makes of one level, and what that level accepts afterwards.
LEMMA LevelKeepsMeaning ==
  ASSUME NEW s, s \in BranchSchemas \cup ParameterSchemas,
         s.exclusiveMaximum \in {Absent, Yes, No},
         NEW v, IsValue(v)
  PROVE  Meets31(v, NormalizeKeywords(s)) <=>
           Meets30(v, s) /\ ~BoundStays(s) /\ (NullOnly(s) => v.type = "null")
<1> DEFINE t == NormalizeKeywords(s)
           Typed30 == s.types = {} \/ v.type \in s.types \/ (s.nullable /\ v.type = "null")
<1>1. s.types \subseteq JsonTypes /\ s.nullable \in BOOLEAN /\ s.maximum \in Maxima
  BY DEF BranchSchemas, ParameterSchemas
<1>2. /\ Absent # Yes /\ Absent # No /\ Yes # No
      /\ Absent.is = "absent" /\ Yes.is = "true" /\ No.is = "false" /\ Null.is = "null"
  BY DEF Absent, Yes, No, Null
<1>3. /\ t.types = IF s.nullable THEN s.types \cup {"null"} ELSE s.types
      /\ t.maximum = IF s.exclusiveMaximum = Yes THEN Absent ELSE s.maximum
      /\ s.exclusiveMaximum = Yes =>
           t.exclusiveMaximum = IF s.maximum = Absent THEN Null ELSE s.maximum
      /\ s.exclusiveMaximum # Yes => t.exclusiveMaximum = s.exclusiveMaximum
  BY DEF NormalizeKeywords, BranchSchemas, ParameterSchemas
<1> HIDE DEF t
<1>4. (t.types = {} \/ v.type \in t.types) <=> Typed30 /\ (NullOnly(s) => v.type = "null")
  BY <1>1, <1>3 DEF NullOnly
<1> HIDE DEF Typed30
<1>5. Meets30(v, s) <=> Typed30 /\ AtMost(v, s.maximum)
                        /\ (s.exclusiveMaximum = Yes => LessThan(v, s.maximum))
  BY DEF Meets30, Typed30
<1>6. CASE s.exclusiveMaximum = Absent
  <2>1. t.maximum = s.maximum /\ t.exclusiveMaximum = Absent BY <1>2, <1>3, <1>6
  <2>2. LessThan(v, Absent) /\ ~BoundStays(s) BY <1>2, <1>6 DEF LessThan, BoundStays
  <2>3. Meets31(v, t) <=> (t.types = {} \/ v.type \in t.types) /\ AtMost(v, s.maximum)
    BY <1>2, <2>1, <2>2 DEF Meets31
  <2> QED BY <1>2, <1>4, <1>5, <1>6, <2>2, <2>3 DEF t
<1>7. CASE s.exclusiveMaximum = No
  <2>1. ~Meets31(v, t) BY <1>2, <1>3, <1>7 DEF Meets31
  <2>2. BoundStays(s) BY <1>7 DEF BoundStays
  <2> QED BY <2>1, <2>2 DEF t
<1>8. CASE s.exclusiveMaximum = Yes /\ s.maximum = Absent
  <2>1. ~Meets31(v, t) BY <1>2, <1>3, <1>8 DEF Meets31
  <2>2. BoundStays(s) BY <1>8 DEF BoundStays
  <2> QED BY <2>1, <2>2 DEF t
<1>9. CASE s.exclusiveMaximum = Yes /\ s.maximum # Absent
  <2>1. s.maximum.is = "number" /\ s.maximum.n \in Nat BY <1>1, <1>9, MaximaAre
  <2>2. LessThan(v, s.maximum) => AtMost(v, s.maximum)
    BY <2>1 DEF LessThan, AtMost, IsValue
  <2>3. AtMost(v, Absent) BY <1>2 DEF AtMost
  <2>4. t.maximum = Absent /\ t.exclusiveMaximum = s.maximum BY <1>3, <1>9
  <2>5. Meets31(v, t) <=> (t.types = {} \/ v.type \in t.types) /\ LessThan(v, s.maximum)
    BY <2>1, <2>3, <2>4 DEF Meets31
  <2>6. ~BoundStays(s) BY <1>2, <1>9 DEF BoundStays
  <2> QED BY <1>4, <1>5, <1>9, <2>2, <2>5, <2>6 DEF t
<1> QED BY <1>6, <1>7, <1>8, <1>9

(***************************************************************************)
(* What _normalize_schema_30_to_31 does to any schema of a 3.0 document,   *)
(* at every level of allOf: it accepts afterwards the values it accepted,  *)
(* but for the ones that the two misreadings of WronglyRefused lose.       *)
(***************************************************************************)
THEOREM SchemaKeepsMeaning ==
  ASSUME NEW s \in ParameterSchemas, Is30(s), NEW v, IsValue(v)
  PROVE  Accepts31(v, NormalizeSchema(s)) <=> Accepts30(v, s) /\ ~WronglyRefused(v, s)
<1> DEFINE t == NormalizeSchema(s)
           Lost(b) == BoundStays(b) \/ (NullOnly(b) /\ v.type # "null")
<1>1. \A i \in DOMAIN s.allOf : s.allOf[i] \in BranchSchemas BY DEF ParameterSchemas
<1>2. \A b \in Branches(s) : Meets31(v, NormalizeKeywords(b)) <=> Meets30(v, b) /\ ~Lost(b)
  <2> SUFFICES ASSUME NEW b \in Branches(s)
               PROVE  Meets31(v, NormalizeKeywords(b)) <=> Meets30(v, b) /\ ~Lost(b)
    OBVIOUS
  <2>1. b \in BranchSchemas \cup ParameterSchemas BY <1>1 DEF Branches
  <2> QED BY <2>1, LevelKeepsMeaning DEF Is30
<1>3. s \in Branches(s) /\ \A i \in DOMAIN s.allOf : s.allOf[i] \in Branches(s) BY DEF Branches
<1>4. /\ t.types = NormalizeKeywords(s).types
      /\ t.maximum = NormalizeKeywords(s).maximum
      /\ t.exclusiveMaximum = NormalizeKeywords(s).exclusiveMaximum
      /\ t.allOf = [i \in DOMAIN s.allOf |-> NormalizeKeywords(s.allOf[i])]
  BY DEF NormalizeSchema, NormalizeKeywords, ParameterSchemas
<1> HIDE DEF t
<1>5. Meets31(v, t) <=> Meets31(v, NormalizeKeywords(s)) BY <1>4 DEF Meets31
<1>6. Accepts31(v, t) <=>
        Meets31(v, t) /\ \A i \in DOMAIN s.allOf : Meets31(v, NormalizeKeywords(s.allOf[i]))
  <2>1. Branches(t) = {t} \cup {NormalizeKeywords(s.allOf[i]) : i \in DOMAIN s.allOf}
    BY <1>4 DEF Branches
  <2> QED BY <2>1 DEF Accepts31
<1>7. Accepts30(v, s) <=> Meets30(v, s) /\ \A i \in DOMAIN s.allOf : Meets30(v, s.allOf[i])
  BY DEF Accepts30, Branches
<1>8. WronglyRefused(v, s) <=> Lost(s) \/ \E i \in DOMAIN s.allOf : Lost(s.allOf[i])
  BY DEF WronglyRefused, Branches
<1> HIDE DEF Lost
<1> QED BY <1>2, <1>3, <1>5, <1>6, <1>7, <1>8 DEF t

\* A rewritten bound is absent, a number, a boolean that stayed or None.
LEMMA LevelTyped ==
  ASSUME NEW s, s \in BranchSchemas \/ s \in ParameterSchemas
  PROVE  /\ s \in BranchSchemas => NormalizeKeywords(s) \in BranchSchemas
         /\ s \in ParameterSchemas => NormalizeKeywords(s) \in ParameterSchemas
<1> DEFINE M == Maxima
           types == IF s.nullable THEN s.types \cup {"null"} ELSE s.types
           maximum == IF s.exclusiveMaximum = Yes THEN Absent ELSE s.maximum
           bound == CASE s.exclusiveMaximum = Yes /\ s.maximum = Absent -> Null
                      [] s.exclusiveMaximum = Yes /\ s.maximum # Absent -> s.maximum
                      [] OTHER -> s.exclusiveMaximum
<1>1. Absent \in M BY DEF Maxima
<1>2. s.types \subseteq JsonTypes /\ s.maximum \in M
      /\ s.exclusiveMaximum \in M \cup {Yes, No, Null}
  BY DEF BranchSchemas, ParameterSchemas
<1>3. NormalizeKeywords(s) = [s EXCEPT !.nullable = FALSE, !.types = types,
                                       !.maximum = maximum, !.exclusiveMaximum = bound]
  BY DEF NormalizeKeywords, BranchSchemas, ParameterSchemas
<1> HIDE DEF M
<1>4. types \subseteq JsonTypes BY <1>2 DEF JsonTypes
<1>5. maximum \in M BY <1>1, <1>2
<1>6. bound \in M \cup {Yes, No, Null}
  <2>1. CASE s.exclusiveMaximum = Yes BY <1>2, <2>1
  <2>2. CASE s.exclusiveMaximum # Yes BY <1>2, <2>2
  <2> QED BY <2>1, <2>2
<1> HIDE DEF types, maximum, bound
<1>7. CASE s \in BranchSchemas
  <2>1. s = [types |-> s.types, nullable |-> s.nullable, maximum |-> s.maximum,
             exclusiveMaximum |-> s.exclusiveMaximum, allOf |-> s.allOf]
        /\ s.allOf = <<>>
    BY <1>7 DEF BranchSchemas
  <2>2. NormalizeKeywords(s) = [types |-> types, nullable |-> FALSE, maximum |-> maximum,
                                exclusiveMaximum |-> bound, allOf |-> <<>>]
    BY ONLY <1>3, <2>1
  <2>3. NormalizeKeywords(s) \in BranchSchemas
    BY <1>4, <1>5, <1>6, <2>2 DEF BranchSchemas, M
  <2>4. NormalizeKeywords(s) \in ParameterSchemas
    BY <1>4, <1>5, <1>6, <2>2 DEF ParameterSchemas, M
  <2> QED BY <2>3, <2>4
<1>8. CASE s \in ParameterSchemas /\ s \notin BranchSchemas
  <2>1. s = [types |-> s.types, nullable |-> s.nullable, maximum |-> s.maximum,
             exclusiveMaximum |-> s.exclusiveMaximum, allOf |-> s.allOf]
        /\ s.allOf \in Seq(BranchSchemas)
    BY <1>8 DEF ParameterSchemas
  <2>2. NormalizeKeywords(s) = [types |-> types, nullable |-> FALSE, maximum |-> maximum,
                                exclusiveMaximum |-> bound, allOf |-> s.allOf]
    BY ONLY <1>3, <2>1
  <2>3. NormalizeKeywords(s) \in ParameterSchemas
    BY <1>4, <1>5, <1>6, <2>1, <2>2 DEF ParameterSchemas, M
  <2> QED BY <1>8, <2>3
<1> QED BY <1>7, <1>8

LEMMA SchemaTyped ==
  ASSUME NEW s \in ParameterSchemas
  PROVE  NormalizeSchema(s) \in ParameterSchemas
<1> DEFINE t == NormalizeKeywords(s)
           B == BranchSchemas
           new == [i \in DOMAIN t.allOf |-> NormalizeKeywords(t.allOf[i])]
<1>1. t \in ParameterSchemas BY LevelTyped
<1>2. t.allOf \in Seq(B) BY <1>1 DEF ParameterSchemas
<1>3. new \in Seq(B)
  <2>1. \A i \in DOMAIN t.allOf : t.allOf[i] \in B
    <3> HIDE DEF B, t
    <3> QED BY <1>2
  <2>2. \A i \in DOMAIN t.allOf : NormalizeKeywords(t.allOf[i]) \in B BY <2>1, LevelTyped
  <2> HIDE DEF B, t
  <2> QED BY <1>2, <2>2
<1>4. NormalizeSchema(s) = [t EXCEPT !.allOf = new] BY DEF NormalizeSchema
<1> HIDE DEF t, new
<1> QED BY <1>1, <1>3, <1>4 DEF ParameterSchemas

\* What the rewriting leaves of a body.
LEMMA FieldTyped ==
  ASSUME NEW f \in BodyFields
  PROVE  /\ NormalizeField(f) \in BodyFields
         /\ NormalizeField(f).name = f.name
         /\ NormalizeField(f).schema = NormalizeSchema(f.schema)
<1>1. NormalizeSchema(f.schema) \in ParameterSchemas BY SchemaTyped DEF BodyFields
<1>2. <<>> \in Seq(RawNames) OBVIOUS
<1> QED BY <1>1, <1>2 DEF NormalizeField, BodyFields

LEMMA VariantTyped ==
  ASSUME NEW v \in Variants
  PROVE  LET w == NormalizeVariant(v)
         IN  /\ w \in Variants
             /\ w.schema = NormalizeSchema(v.schema)
             /\ w.fields = [k \in DOMAIN v.fields |-> NormalizeField(v.fields[k])]
             /\ Len(w.fields) = Len(v.fields)
<1> DEFINE F == BodyFields
           fields == v.fields
           new == [k \in DOMAIN fields |-> NormalizeField(fields[k])]
<1>1. NormalizeSchema(v.schema) \in ParameterSchemas BY SchemaTyped DEF Variants
<1>2. fields \in Seq(F) BY DEF Variants
<1>3. \A k \in DOMAIN fields : fields[k] \in F
  <2> HIDE DEF F, fields
  <2> QED BY <1>2
<1>4. \A k \in DOMAIN fields : NormalizeField(fields[k]) \in F BY <1>3, FieldTyped
<1>5. new \in Seq(F) /\ Len(new) = Len(fields)
  <2> HIDE DEF F, fields
  <2> QED BY <1>2, <1>4
<1>6. NormalizeVariant(v).fields = new /\ NormalizeVariant(v).schema = NormalizeSchema(v.schema)
  BY DEF NormalizeVariant, Variants
<1>7. NormalizeVariant(v) \in Variants
  <2>1. NormalizeVariant(v) = [v EXCEPT !.schema = NormalizeSchema(v.schema),
                                        !.object = v.object /\ ~v.schema.nullable,
                                        !.fields = new]
    BY DEF NormalizeVariant, Variants
  <2>2. (v.object /\ ~v.schema.nullable) \in BOOLEAN BY DEF Variants, ParameterSchemas
  <2> HIDE DEF new, fields
  <2> QED BY <1>1, <1>5, <2>1, <2>2 DEF Variants
<1> QED BY <1>5, <1>6, <1>7

LEMMA BodyTyped ==
  ASSUME NEW raw, NEW version, HasBody(raw), raw.variants \in Seq(Variants),
         raw = [required |-> raw.required, variants |-> raw.variants]
  PROVE  LET new == NormalizeBody(raw, version)
         IN  /\ new.required = raw.required
             /\ new.variants \in Seq(Variants) /\ Len(new.variants) = Len(raw.variants)
             /\ \A j \in DOMAIN raw.variants :
                  new.variants[j] = IF version = "3.0" THEN NormalizeVariant(raw.variants[j])
                                                       ELSE raw.variants[j]
<1> DEFINE V == Variants
           old == raw.variants
           new == [j \in DOMAIN old |-> NormalizeVariant(old[j])]
<1>1. \A j \in DOMAIN old : old[j] \in V
  <2>1. old \in Seq(V) OBVIOUS
  <2> HIDE DEF V, old
  <2> QED BY <2>1
<1>2. \A j \in DOMAIN old : NormalizeVariant(old[j]) \in V BY <1>1, VariantTyped
<1>3. new \in Seq(V) /\ Len(new) = Len(old)
  <2> HIDE DEF V, old
  <2> QED BY <1>2
<1>4. CASE version = "3.0"
  <2>1. NormalizeBody(raw, version) = [raw EXCEPT !.variants = new] BY <1>4 DEF NormalizeBody
  <2>2. NormalizeBody(raw, version) = [required |-> raw.required, variants |-> new] BY <2>1
  <2> QED BY <1>3, <1>4, <2>2
<1>5. CASE version # "3.0"
  <2>1. NormalizeBody(raw, version) = raw BY <1>5 DEF NormalizeBody
  <2> QED BY <1>5, <2>1
<1> QED BY <1>4, <1>5

(***************************************************************************)
(* Keys of arguments.                                                      *)
(***************************************************************************)

\* The words of keys.
KeyWords == STRING \cup {"query", "body"}

ArgumentKeys == Seq(KeyWords)

LEMMA LeastIsThere ==
  ASSUME NEW S \in SUBSET Nat, S # {}
  PROVE  Min(S) \in S
<1>1. \E x \in S : \A y \in S : x <= y BY LeastOfNat
<1> QED BY <1>1 DEF Min

LEMMA AppendIs ==
  ASSUME NEW name \in ArgumentKeys, NEW w \in KeyWords
  PROVE  /\ Append(name, w) \in ArgumentKeys
         /\ Len(Append(name, w)) = Len(name) + 1
         /\ \A k \in 1..Len(name) : Append(name, w)[k] = name[k]
<1> DEFINE W == KeyWords
<1>1. name \in Seq(W) /\ w \in W BY DEF ArgumentKeys
<1> HIDE DEF W
<1>2. Append(name, w) \in Seq(W) /\ Len(Append(name, w)) = Len(name) + 1
      /\ \A k \in 1..Len(name) : Append(name, w)[k] = name[k]
  BY <1>1
<1> QED BY <1>2 DEF ArgumentKeys, W

\* While there are fewer keys than numerals, one of the numbered keys is free.
LEMMA SomeNumberIsFree ==
  ASSUME NEW E, NEW d \in Seq(E), Len(d) + 1 < Len(Numerals),
         NEW candidate \in ArgumentKeys
  PROVE  \E n \in 2..Len(Numerals) : Append(candidate, Numerals[n]) \notin Keys(d)
<1> SUFFICES ASSUME \A n \in 2..Len(Numerals) : Append(candidate, Numerals[n]) \in Keys(d)
             PROVE  FALSE
  OBVIOUS
<1> DEFINE L == Len(Numerals)
           S == 2..L
           T == 1..Len(d)
           Is(n, j) == d[j].key = Append(candidate, Numerals[n])
           f == [n \in S |-> CHOOSE j \in T : Is(n, j)]
<1>1. L \in Nat /\ Len(d) \in Nat /\ DOMAIN d = T /\ DOMAIN Numerals = 1..L
  BY NumeralsAssumption
<1>2. \A n \in S : n \in DOMAIN Numerals /\ Numerals[n] \in STRING
  BY <1>1, NumeralsAssumption
<1>3. \A n \in S : \E j \in T : Is(n, j) BY <1>1 DEF Keys
<1> HIDE DEF Is
<1>4. f \in [S -> T] /\ \A n \in S : Is(n, f[n]) BY <1>3
<1> HIDE DEF f
<1>5. IsFiniteSet(S) /\ Cardinality(S) = L - 1
  <2>1. 2 \in Int /\ L \in Int /\ L >= 2 BY <1>1
  <2>2. IsFiniteSet(S) /\ Cardinality(S) = IF 2 > L THEN 0 ELSE L - 2 + 1
    BY <2>1, FS_Interval
  <2> QED BY <2>1, <2>2
<1>6. IsFiniteSet(T) /\ Cardinality(T) = Len(d)
  <2>1. 1 \in Int /\ Len(d) \in Int BY <1>1
  <2>2. IsFiniteSet(T) /\ Cardinality(T) = IF 1 > Len(d) THEN 0 ELSE Len(d) - 1 + 1
    BY <2>1, FS_Interval
  <2> QED BY <1>1, <2>2
<1>7. Cardinality(T) < Cardinality(S) BY <1>1, <1>5, <1>6
<1> HIDE DEF S, T
<1>8. PICK x, y \in S : x # y /\ f[x] = f[y] BY <1>4, <1>5, <1>6, <1>7, FS_PigeonHole
<1>9. Append(candidate, Numerals[x]) = Append(candidate, Numerals[y])
  BY <1>4, <1>8 DEF Is
<1>10. candidate \in Seq(KeyWords) /\ Numerals[x] \in KeyWords /\ Numerals[y] \in KeyWords
  BY <1>2, <1>8 DEF ArgumentKeys, KeyWords
<1>11. Numerals[x] = Numerals[y] BY <1>9, <1>10, AppendSplits
<1> QED BY <1>2, <1>8, <1>11, NumeralsAssumption

\* _unique_key returns a key that is free and begins with the name.
LEMMA UniqueKeyIsFree ==
  ASSUME NEW E, NEW d \in Seq(E), Len(d) + 1 < Len(Numerals),
         NEW name \in ArgumentKeys, NEW suffix \in KeyWords
  PROVE  LET key == UniqueKey(name, d, suffix)
         IN  /\ key \notin Keys(d)
             /\ key \in ArgumentKeys
             /\ key = name \/ Len(key) > Len(name)
             /\ \A k \in 1..Len(name) : key[k] = name[k]
<1> DEFINE candidate == Append(name, suffix)
           Numbered(n) == Append(candidate, Numerals[n])
           free == {n \in 2..Len(Numerals) : Numbered(n) \notin Keys(d)}
           key == UniqueKey(name, d, suffix)
<1>1. key = CASE name \notin Keys(d) -> name
              [] name \in Keys(d) /\ candidate \notin Keys(d) -> candidate
              [] OTHER -> Numbered(Min(free))
  BY DEF UniqueKey
<1>2. candidate \in ArgumentKeys /\ Len(candidate) = Len(name) + 1
      /\ \A k \in 1..Len(name) : candidate[k] = name[k]
  BY AppendIs
<1>3. Len(name) \in Nat BY DEF ArgumentKeys
<1>4. CASE name \notin Keys(d) BY <1>1, <1>4
<1>5. CASE name \in Keys(d) /\ candidate \notin Keys(d)
  <2>1. key = candidate BY <1>1, <1>5
  <2> HIDE DEF candidate, key
  <2> QED BY <2>1, <1>2, <1>3, <1>5 DEF key
<1>6. CASE name \in Keys(d) /\ candidate \in Keys(d)
  <2>1. key = Numbered(Min(free)) BY <1>1, <1>6
  <2> HIDE DEF candidate, key
  <2>2. free # {} BY <1>2, SomeNumberIsFree
  <2>3. free \in SUBSET Nat
    <3>1. Len(Numerals) \in Nat BY NumeralsAssumption
    <3> QED BY <3>1
  <2> DEFINE m == Min(free)
  <2>4. m \in free BY <2>2, <2>3, LeastIsThere
  <2> HIDE DEF m
  <2>5. m \in 2..Len(Numerals) /\ Numbered(m) \notin Keys(d) BY <2>4
  <2>6. Numerals[m] \in KeyWords
    <3>1. Len(Numerals) \in Nat /\ DOMAIN Numerals = 1..Len(Numerals) BY NumeralsAssumption
    <3>2. m \in DOMAIN Numerals BY <2>5, <3>1
    <3>3. Numerals[m] \in STRING BY <3>2, NumeralsAssumption
    <3> QED BY <3>3 DEF KeyWords
  <2>7. Numbered(m) \in ArgumentKeys /\ Len(Numbered(m)) = Len(candidate) + 1
        /\ \A k \in 1..Len(candidate) : Numbered(m)[k] = candidate[k]
    BY <1>2, <2>6, AppendIs
  <2> HIDE DEF Numbered
  <2>8. key = Numbered(m) BY <2>1 DEF m
  <2>9. \A k \in 1..Len(name) : key[k] = name[k] BY <1>2, <1>3, <2>7, <2>8
  <2>10. Len(key) > Len(name) BY <1>2, <1>3, <2>7, <2>8
  <2> QED BY <2>5, <2>7, <2>8, <2>9, <2>10 DEF key
<1> QED BY <1>4, <1>5, <1>6

(***************************************************************************)
(* The loops of the stages: what holds of the value a loop carries along   *)
(* at each position holds of what it returns.                              *)
(***************************************************************************)

LEMMA WithParametersInduces ==
  ASSUME NEW T, NEW params \in Seq(T),
         NEW D, NEW G \in SUBSET ((0..Len(params)) \X D), <<0, NoArguments>> \in G,
         \A i \in 1..Len(params), d \in D :
           <<i - 1, d>> \in G => <<i, AddParameter(d, params[i])>> \in G
  PROVE  <<Len(params), WithParameters(params)>> \in G
<1> DEFINE n == Len(params)
           start == NoArguments
           Add(i, d) == AddParameter(d, params[i])
           Body(f) == [i \in 0..n |-> IF i = 0 THEN start ELSE Add(i, f[i - 1])]
           step == [p \in (1..n) \X D |->
                      IF <<p[1] - 1, p[2]>> \in G THEN Add(p[1], p[2]) ELSE start]
<1>1. n \in Nat /\ <<0, start>> \in G /\ start \in D OBVIOUS
<1>2. \A i \in 1..n, d \in D : <<i - 1, d>> \in G => <<i, Add(i, d)>> \in G OBVIOUS
<1>3. WithParameters(params) = (CHOOSE f : f = Body(f))[n] BY Zenon DEF WithParameters, Fold
<1>4. \A i, d : <<i, d>> \in G => d \in D OBVIOUS
<1> HIDE DEF n, Add, start
<1>5. step \in [(1..n) \X D -> D]
  <2>1. \A i \in 1..n, d \in D :
          (IF <<i - 1, d>> \in G THEN Add(i, d) ELSE start) \in D
    BY <1>1, <1>2, <1>4
  <2> QED BY <2>1
<1>6. \A i \in 1..n, d \in D : <<i - 1, d>> \in G => step[<<i, d>>] = Add(i, d) OBVIOUS
<1> HIDE DEF step
<1>7. PICK f : Loop(f, n, D, start, step) BY <1>1, <1>5, LoopRuns
<1>8. f[0] = start /\ f = [i \in 0..n |-> f[i]]
      /\ \A i \in 1..n : <<i - 1, f[i - 1]>> \in G => f[i] = Add(i, f[i - 1])
  <2>1. f[0] = start BY <1>7 DEF Loop
  <2>2. f = [i \in 0..n |-> f[i]] BY <1>7 DEF Loop
  <2>3. ASSUME NEW i \in 1..n, <<i - 1, f[i - 1]>> \in G PROVE f[i] = Add(i, f[i - 1])
    BY <2>3, <1>4, <1>6, <1>7 DEF Loop
  <2> QED BY <2>1, <2>2, <2>3
<1>9. \A i \in 0..n : <<i, f[i]>> \in G
  <2>1. \A i \in 1..n : <<i - 1, f[i - 1]>> \in G => <<i, f[i]>> \in G BY <1>2, <1>4, <1>8
  <2>2. <<0, f[0]>> \in G BY <1>1, <1>8
  <2> QED BY <1>1, <2>1, <2>2, LoopStaysGood
<1>10. f = Body(f)
  <2>1. \A i \in 1..n : i - 1 \in 0..n BY <1>1
  <2>2. \A i \in 1..n : f[i] = Add(i, f[i - 1]) BY <2>1, <1>8, <1>9
  <2>3. \A i \in 0..n : f[i] = IF i = 0 THEN start ELSE Add(i, f[i - 1])
    <3>1. \A i \in 0..n : i = 0 \/ i \in 1..n BY <1>1
    <3>2. f[0] = start BY <1>8
    <3> QED BY <3>1, <3>2, <2>2
  <2>4. f = [i \in 0..n |-> f[i]] BY <1>8
  <2> QED BY <2>3, <2>4
<1>11. PICK v : v = Body(v) /\ WithParameters(params) = v[n]
  <2> HIDE DEF Body
  <2> QED BY <1>3, <1>10
<1>12. v[0] = start /\ \A i \in 1..n : v[i] = Add(i, v[i - 1]) BY <1>1, <1>11
<1>13. \A i \in 0..n : <<i, v[i]>> \in G
  <2>1. \A i \in 1..n : <<i - 1, v[i - 1]>> \in G => <<i, v[i]>> \in G BY <1>2, <1>4, <1>12
  <2>2. <<0, v[0]>> \in G BY <1>1, <1>12
  <2> QED BY <1>1, <2>1, <2>2, LoopStaysGood
<1>14. n \in 0..n BY <1>1
<1>15. <<n, v[n]>> \in G BY <1>13, <1>14
<1> QED BY <1>11, <1>15 DEF n

LEMMA WithFieldsInduces ==
  ASSUME NEW T, NEW fields \in Seq(T), NEW s, NEW bodyRequired,
         NEW D, NEW G \in SUBSET ((0..Len(fields)) \X D), <<0, s>> \in G,
         \A i \in 1..Len(fields), d \in D :
           <<i - 1, d>> \in G => <<i, AddField(d, fields[i], bodyRequired)>> \in G
  PROVE  <<Len(fields), WithFields(s, fields, bodyRequired)>> \in G
<1> DEFINE n == Len(fields)
           start == s
           Add(i, d) == AddField(d, fields[i], bodyRequired)
           Body(f) == [i \in 0..n |-> IF i = 0 THEN start ELSE Add(i, f[i - 1])]
           step == [p \in (1..n) \X D |->
                      IF <<p[1] - 1, p[2]>> \in G THEN Add(p[1], p[2]) ELSE start]
<1>1. n \in Nat /\ <<0, start>> \in G /\ start \in D OBVIOUS
<1>2. \A i \in 1..n, d \in D : <<i - 1, d>> \in G => <<i, Add(i, d)>> \in G OBVIOUS
<1>3. WithFields(s, fields, bodyRequired) = (CHOOSE f : f = Body(f))[n] BY Zenon DEF WithFields, Fold
<1>4. \A i, d : <<i, d>> \in G => d \in D OBVIOUS
<1> HIDE DEF n, Add, start
<1>5. step \in [(1..n) \X D -> D]
  <2>1. \A i \in 1..n, d \in D :
          (IF <<i - 1, d>> \in G THEN Add(i, d) ELSE start) \in D
    BY <1>1, <1>2, <1>4
  <2> QED BY <2>1
<1>6. \A i \in 1..n, d \in D : <<i - 1, d>> \in G => step[<<i, d>>] = Add(i, d) OBVIOUS
<1> HIDE DEF step
<1>7. PICK f : Loop(f, n, D, start, step) BY <1>1, <1>5, LoopRuns
<1>8. f[0] = start /\ f = [i \in 0..n |-> f[i]]
      /\ \A i \in 1..n : <<i - 1, f[i - 1]>> \in G => f[i] = Add(i, f[i - 1])
  <2>1. f[0] = start BY <1>7 DEF Loop
  <2>2. f = [i \in 0..n |-> f[i]] BY <1>7 DEF Loop
  <2>3. ASSUME NEW i \in 1..n, <<i - 1, f[i - 1]>> \in G PROVE f[i] = Add(i, f[i - 1])
    BY <2>3, <1>4, <1>6, <1>7 DEF Loop
  <2> QED BY <2>1, <2>2, <2>3
<1>9. \A i \in 0..n : <<i, f[i]>> \in G
  <2>1. \A i \in 1..n : <<i - 1, f[i - 1]>> \in G => <<i, f[i]>> \in G BY <1>2, <1>4, <1>8
  <2>2. <<0, f[0]>> \in G BY <1>1, <1>8
  <2> QED BY <1>1, <2>1, <2>2, LoopStaysGood
<1>10. f = Body(f)
  <2>1. \A i \in 1..n : i - 1 \in 0..n BY <1>1
  <2>2. \A i \in 1..n : f[i] = Add(i, f[i - 1]) BY <2>1, <1>8, <1>9
  <2>3. \A i \in 0..n : f[i] = IF i = 0 THEN start ELSE Add(i, f[i - 1])
    <3>1. \A i \in 0..n : i = 0 \/ i \in 1..n BY <1>1
    <3>2. f[0] = start BY <1>8
    <3> QED BY <3>1, <3>2, <2>2
  <2>4. f = [i \in 0..n |-> f[i]] BY <1>8
  <2> QED BY <2>3, <2>4
<1>11. PICK v : v = Body(v) /\ WithFields(s, fields, bodyRequired) = v[n]
  <2> HIDE DEF Body
  <2> QED BY <1>3, <1>10
<1>12. v[0] = start /\ \A i \in 1..n : v[i] = Add(i, v[i - 1]) BY <1>1, <1>11
<1>13. \A i \in 0..n : <<i, v[i]>> \in G
  <2>1. \A i \in 1..n : <<i - 1, v[i - 1]>> \in G => <<i, v[i]>> \in G BY <1>2, <1>4, <1>12
  <2>2. <<0, v[0]>> \in G BY <1>1, <1>12
  <2> QED BY <1>1, <2>1, <2>2, LoopStaysGood
<1>14. n \in 0..n BY <1>1
<1>15. <<n, v[n]>> \in G BY <1>13, <1>14
<1> QED BY <1>11, <1>15 DEF n

LEMMA FlattenInduces ==
  ASSUME NEW T, NEW s, s.props \in Seq(T),
         NEW D, NEW G \in SUBSET ((0..Len(s.props)) \X D), <<0, [props |-> <<>>, bindings |-> s.bindings]>> \in G,
         \A i \in 1..Len(s.props), d \in D :
           <<i - 1, d>> \in G => <<i, FlattenProperty(d, s.props[i], s.bindings)>> \in G
  PROVE  <<Len(s.props), FlattenProperties(s)>> \in G
<1> DEFINE n == Len(s.props)
           start == [props |-> <<>>, bindings |-> s.bindings]
           Add(i, d) == FlattenProperty(d, s.props[i], s.bindings)
           Body(f) == [i \in 0..n |-> IF i = 0 THEN start ELSE Add(i, f[i - 1])]
           step == [p \in (1..n) \X D |->
                      IF <<p[1] - 1, p[2]>> \in G THEN Add(p[1], p[2]) ELSE start]
<1>1. n \in Nat /\ <<0, start>> \in G /\ start \in D OBVIOUS
<1>2. \A i \in 1..n, d \in D : <<i - 1, d>> \in G => <<i, Add(i, d)>> \in G OBVIOUS
<1>3. FlattenProperties(s) = (CHOOSE f : f = Body(f))[n] BY Zenon DEF FlattenProperties, Fold
<1>4. \A i, d : <<i, d>> \in G => d \in D OBVIOUS
<1> HIDE DEF n, Add, start
<1>5. step \in [(1..n) \X D -> D]
  <2>1. \A i \in 1..n, d \in D :
          (IF <<i - 1, d>> \in G THEN Add(i, d) ELSE start) \in D
    BY <1>1, <1>2, <1>4
  <2> QED BY <2>1
<1>6. \A i \in 1..n, d \in D : <<i - 1, d>> \in G => step[<<i, d>>] = Add(i, d) OBVIOUS
<1> HIDE DEF step
<1>7. PICK f : Loop(f, n, D, start, step) BY <1>1, <1>5, LoopRuns
<1>8. f[0] = start /\ f = [i \in 0..n |-> f[i]]
      /\ \A i \in 1..n : <<i - 1, f[i - 1]>> \in G => f[i] = Add(i, f[i - 1])
  <2>1. f[0] = start BY <1>7 DEF Loop
  <2>2. f = [i \in 0..n |-> f[i]] BY <1>7 DEF Loop
  <2>3. ASSUME NEW i \in 1..n, <<i - 1, f[i - 1]>> \in G PROVE f[i] = Add(i, f[i - 1])
    BY <2>3, <1>4, <1>6, <1>7 DEF Loop
  <2> QED BY <2>1, <2>2, <2>3
<1>9. \A i \in 0..n : <<i, f[i]>> \in G
  <2>1. \A i \in 1..n : <<i - 1, f[i - 1]>> \in G => <<i, f[i]>> \in G BY <1>2, <1>4, <1>8
  <2>2. <<0, f[0]>> \in G BY <1>1, <1>8
  <2> QED BY <1>1, <2>1, <2>2, LoopStaysGood
<1>10. f = Body(f)
  <2>1. \A i \in 1..n : i - 1 \in 0..n BY <1>1
  <2>2. \A i \in 1..n : f[i] = Add(i, f[i - 1]) BY <2>1, <1>8, <1>9
  <2>3. \A i \in 0..n : f[i] = IF i = 0 THEN start ELSE Add(i, f[i - 1])
    <3>1. \A i \in 0..n : i = 0 \/ i \in 1..n BY <1>1
    <3>2. f[0] = start BY <1>8
    <3> QED BY <3>1, <3>2, <2>2
  <2>4. f = [i \in 0..n |-> f[i]] BY <1>8
  <2> QED BY <2>3, <2>4
<1>11. PICK v : v = Body(v) /\ FlattenProperties(s) = v[n]
  <2> HIDE DEF Body
  <2> QED BY <1>3, <1>10
<1>12. v[0] = start /\ \A i \in 1..n : v[i] = Add(i, v[i - 1]) BY <1>1, <1>11
<1>13. \A i \in 0..n : <<i, v[i]>> \in G
  <2>1. \A i \in 1..n : <<i - 1, v[i - 1]>> \in G => <<i, v[i]>> \in G BY <1>2, <1>4, <1>12
  <2>2. <<0, v[0]>> \in G BY <1>1, <1>12
  <2> QED BY <1>1, <2>1, <2>2, LoopStaysGood
<1>14. n \in 0..n BY <1>1
<1>15. <<n, v[n]>> \in G BY <1>13, <1>14
<1> QED BY <1>11, <1>15 DEF n

LEMMA BuildRequestInduces ==
  ASSUME NEW T, NEW bindings \in Seq(T), NEW args,
         NEW D, NEW G \in SUBSET ((0..Len(bindings)) \X D), <<0, <<>>>> \in G,
         \A i \in 1..Len(bindings), d \in D :
           <<i - 1, d>> \in G => <<i, Bind(d, bindings[i], args)>> \in G
  PROVE  <<Len(bindings), BuildRequest(bindings, args)>> \in G
<1> DEFINE n == Len(bindings)
           start == <<>>
           Add(i, d) == Bind(d, bindings[i], args)
           Body(f) == [i \in 0..n |-> IF i = 0 THEN start ELSE Add(i, f[i - 1])]
           step == [p \in (1..n) \X D |->
                      IF <<p[1] - 1, p[2]>> \in G THEN Add(p[1], p[2]) ELSE start]
<1>1. n \in Nat /\ <<0, start>> \in G /\ start \in D OBVIOUS
<1>2. \A i \in 1..n, d \in D : <<i - 1, d>> \in G => <<i, Add(i, d)>> \in G OBVIOUS
<1>3. BuildRequest(bindings, args) = (CHOOSE f : f = Body(f))[n] BY Zenon DEF BuildRequest, Fold
<1>4. \A i, d : <<i, d>> \in G => d \in D OBVIOUS
<1> HIDE DEF n, Add, start
<1>5. step \in [(1..n) \X D -> D]
  <2>1. \A i \in 1..n, d \in D :
          (IF <<i - 1, d>> \in G THEN Add(i, d) ELSE start) \in D
    BY <1>1, <1>2, <1>4
  <2> QED BY <2>1
<1>6. \A i \in 1..n, d \in D : <<i - 1, d>> \in G => step[<<i, d>>] = Add(i, d) OBVIOUS
<1> HIDE DEF step
<1>7. PICK f : Loop(f, n, D, start, step) BY <1>1, <1>5, LoopRuns
<1>8. f[0] = start /\ f = [i \in 0..n |-> f[i]]
      /\ \A i \in 1..n : <<i - 1, f[i - 1]>> \in G => f[i] = Add(i, f[i - 1])
  <2>1. f[0] = start BY <1>7 DEF Loop
  <2>2. f = [i \in 0..n |-> f[i]] BY <1>7 DEF Loop
  <2>3. ASSUME NEW i \in 1..n, <<i - 1, f[i - 1]>> \in G PROVE f[i] = Add(i, f[i - 1])
    BY <2>3, <1>4, <1>6, <1>7 DEF Loop
  <2> QED BY <2>1, <2>2, <2>3
<1>9. \A i \in 0..n : <<i, f[i]>> \in G
  <2>1. \A i \in 1..n : <<i - 1, f[i - 1]>> \in G => <<i, f[i]>> \in G BY <1>2, <1>4, <1>8
  <2>2. <<0, f[0]>> \in G BY <1>1, <1>8
  <2> QED BY <1>1, <2>1, <2>2, LoopStaysGood
<1>10. f = Body(f)
  <2>1. \A i \in 1..n : i - 1 \in 0..n BY <1>1
  <2>2. \A i \in 1..n : f[i] = Add(i, f[i - 1]) BY <2>1, <1>8, <1>9
  <2>3. \A i \in 0..n : f[i] = IF i = 0 THEN start ELSE Add(i, f[i - 1])
    <3>1. \A i \in 0..n : i = 0 \/ i \in 1..n BY <1>1
    <3>2. f[0] = start BY <1>8
    <3> QED BY <3>1, <3>2, <2>2
  <2>4. f = [i \in 0..n |-> f[i]] BY <1>8
  <2> QED BY <2>3, <2>4
<1>11. PICK v : v = Body(v) /\ BuildRequest(bindings, args) = v[n]
  <2> HIDE DEF Body
  <2> QED BY <1>3, <1>10
<1>12. v[0] = start /\ \A i \in 1..n : v[i] = Add(i, v[i - 1]) BY <1>1, <1>11
<1>13. \A i \in 0..n : <<i, v[i]>> \in G
  <2>1. \A i \in 1..n : <<i - 1, v[i - 1]>> \in G => <<i, v[i]>> \in G BY <1>2, <1>4, <1>12
  <2>2. <<0, v[0]>> \in G BY <1>1, <1>12
  <2> QED BY <1>1, <2>1, <2>2, LoopStaysGood
<1>14. n \in 0..n BY <1>1
<1>15. <<n, v[n]>> \in G BY <1>13, <1>14
<1> QED BY <1>11, <1>15 DEF n

(***************************************************************************)
(* Requests.                                                               *)
(***************************************************************************)

SlotKinds == ParamLocations \cup {"body_field", "body_root"}

Slots == [kind : SlotKinds, path : Seq(RawNames)]

\* Neither value is at, above or below the place of the other.
Apart(s, t) ==
  /\ s # t
  /\ s.kind = "body_field" /\ t.kind = "body_field" =>
       ~IsPrefix(s.path, t.path) /\ ~IsPrefix(t.path, s.path)

Separate(bindings) ==
  /\ \A k \in DOMAIN bindings : bindings[k].slot \in Slots
  /\ \A j, k \in DOMAIN bindings : j # k => Apart(bindings[j].slot, bindings[k].slot)

LEMMA BindSets ==
  ASSUME NEW d, NEW b, NEW args, b.key \in args, b.slot \in Slots,
         \A s \in DOMAIN d : Apart(s, b.slot)
  PROVE  Bind(d, b, args) = SetSlot(d, b.slot, b.key)
<1>1. CASE b.slot.kind = "body_field"
  <2> DEFINE gone == {s \in DOMAIN d : s.kind = "body_field"
                        /\ (IsPrefix(s.path, b.slot.path) \/ IsPrefix(b.slot.path, s.path))}
  <2>1. Bind(d, b, args) = SetNested(d, b.slot.path, b.key) BY <1>1 DEF Bind
  <2>2. Slot("body_field", b.slot.path) = b.slot BY <1>1 DEF Slot, Slots
  <2>3. gone = {} BY <1>1 DEF Apart
  <2>4. SetNested(d, b.slot.path, b.key) =
          [s \in (DOMAIN d \ gone) \cup {b.slot} |-> IF s = b.slot THEN b.key ELSE d[s]]
    BY <2>2 DEF SetNested
  <2> HIDE DEF gone
  <2>5. (DOMAIN d \ gone) \cup {b.slot} = DOMAIN d \cup {b.slot} BY <2>3
  <2> QED BY <2>1, <2>4, <2>5 DEF SetSlot
<1>2. CASE b.slot.kind # "body_field" BY <1>2 DEF Bind
<1> QED BY <1>1, <1>2

(***************************************************************************)
(* dispatch puts every argument that is given at the slot of its binding,  *)
(* and no later one overwrites it, if no slot lies within another.         *)
(***************************************************************************)
THEOREM RequestIsExact ==
  ASSUME NEW T, NEW bindings \in Seq(T), Separate(bindings), NEW args
  PROVE  \A k \in DOMAIN bindings : bindings[k].key \in args =>
           /\ bindings[k].slot \in DOMAIN BuildRequest(bindings, args)
           /\ BuildRequest(bindings, args)[bindings[k].slot] = bindings[k].key
<1> DEFINE n == Len(bindings)
           K == {bindings[k].key : k \in 1..n}
           D == UNION {[S -> K] : S \in SUBSET Slots}
           Given(i) == {k \in 1..i : bindings[k].key \in args}
           Exact(i, r) == /\ DOMAIN r = {bindings[k].slot : k \in Given(i)}
                          /\ \A k \in Given(i) : r[bindings[k].slot] = bindings[k].key
           G == {p \in (0..n) \X D : Exact(p[1], p[2])}
<1>1. n \in Nat /\ DOMAIN bindings = 1..n OBVIOUS
<1>2. \A i \in 0..n, d \in D : Exact(i, d) => <<i, d>> \in G OBVIOUS
<1>3. \A i, d : <<i, d>> \in G => i \in 0..n /\ d \in D /\ Exact(i, d) OBVIOUS
<1>4. <<>> \in D /\ Exact(0, <<>>)
  <2>1. <<>> \in [{} -> K] OBVIOUS
  <2>2. Given(0) = {} OBVIOUS
  <2> QED BY <2>1, <2>2
<1>5. ASSUME NEW i \in 1..n, NEW d \in D, <<i - 1, d>> \in G
      PROVE  <<i, Bind(d, bindings[i], args)>> \in G
  <2> DEFINE b == bindings[i]
             r == Bind(d, b, args)
  <2>1. Exact(i - 1, d) BY <1>3, <1>5
  <2>2. \A k \in 1..i : k = i \/ k \in 1..(i - 1) BY <1>1
  <2>3. 1..(i - 1) \subseteq 1..i /\ 1..i \subseteq 1..n /\ i \in 1..i /\ i \notin 1..(i - 1)
        /\ i \in 0..n
    BY <1>1
  <2>4. CASE b.key \notin args
    <3>1. r = d BY <2>4 DEF Bind
    <3>2. Given(i) = Given(i - 1) BY <2>2, <2>3, <2>4
    <3>3. Exact(i, r) BY <2>1, <3>1, <3>2
    <3> QED BY <1>2, <2>3, <3>1, <3>3
  <2>5. CASE b.key \in args
    <3>1. Given(i) = Given(i - 1) \cup {i} /\ i \notin Given(i - 1) BY <2>2, <2>3, <2>5
    <3>2. b.slot \in Slots BY <1>1, <2>3 DEF Separate
    <3>3. \A k \in Given(i - 1) : Apart(bindings[k].slot, b.slot)
      BY <1>1, <2>3 DEF Separate
    <3>4. \A s \in DOMAIN d : Apart(s, b.slot) BY <2>1, <3>3
    <3>5. r = SetSlot(d, b.slot, b.key) BY <2>5, <3>2, <3>4, BindSets
    <3>6. r = [s \in DOMAIN d \cup {b.slot} |-> IF s = b.slot THEN b.key ELSE d[s]]
      BY <3>5 DEF SetSlot
    <3>7. b.key \in K BY <2>3
    <3>8. PICK S \in SUBSET Slots : d \in [S -> K] OBVIOUS
    <3> HIDE DEF K, r, Given
    <3>9. r \in [S \cup {b.slot} -> K] /\ S \cup {b.slot} \in SUBSET Slots
      BY <3>2, <3>6, <3>7, <3>8
    <3>10. r \in D BY <3>9
    <3>11. DOMAIN r = {bindings[k].slot : k \in Given(i)} BY <2>1, <3>1, <3>6
    <3>12. \A k \in Given(i - 1) : bindings[k].slot \in DOMAIN d /\ bindings[k].slot # b.slot
      BY <2>1, <3>3 DEF Apart
    <3>13. \A k \in Given(i) : r[bindings[k].slot] = bindings[k].key
      BY <2>1, <3>1, <3>6, <3>12
    <3> QED BY <1>2, <2>3, <3>10, <3>11, <3>13 DEF r
  <2> QED BY <2>4, <2>5
<1>6. \A i \in 1..n, d \in D : <<i - 1, d>> \in G => <<i, Bind(d, bindings[i], args)>> \in G
  BY <1>5
<1>8. G \in SUBSET ((0..n) \X D) OBVIOUS
<1> HIDE DEF G, D
<1>7. <<0, <<>>>> \in G
  <2> HIDE DEF Exact
  <2>1. 0 \in 0..n BY <1>1
  <2> QED BY <2>1, <1>2, <1>4
<1>9. <<n, BuildRequest(bindings, args)>> \in G
  BY <1>6, <1>7, <1>8, BuildRequestInduces
<1>10. Exact(n, BuildRequest(bindings, args)) BY <1>3, <1>9
<1> QED BY <1>1, <1>10

(***************************************************************************)
(* The arguments that build_argument_map offers.                           *)
(***************************************************************************)

Props == [key : ArgumentKeys, inner : Seq(RawNames), slot : Slots]

Bindings == [key : ArgumentKeys, slot : Slots]

Arguments == [props : Seq(Props), bindings : Seq(Bindings), required : Seq(ArgumentKeys)]

Extends(key, name) ==
  /\ key = name \/ Len(key) > Len(name)
  /\ \A k \in 1..Len(name) : key[k] = name[k]

(***************************************************************************)
(* The arguments s have one property, from P, and one binding each for the *)
(* slots in A, and those for the slots in R are required.                  *)
(***************************************************************************)
Offers(s, P, A, R) ==
  /\ s \in Arguments
  /\ Len(s.props) = Len(s.bindings)
  /\ \A k \in 1..Len(s.bindings) :
       /\ s.props[k].key = s.bindings[k].key
       /\ s.props[k].slot = s.bindings[k].slot
       /\ s.props[k] \in P
       /\ s.bindings[k].slot \in A
  /\ \A j, k \in 1..Len(s.bindings) :
       s.bindings[j].key = s.bindings[k].key \/ s.bindings[j].slot = s.bindings[k].slot => j = k
  /\ \A a \in A : \E k \in 1..Len(s.bindings) : s.bindings[k].slot = a
  /\ IsInjective(s.required)
  /\ \A i \in DOMAIN s.required : s.required[i] \in Keys(s.bindings)
  /\ \A a \in R : \E i \in DOMAIN s.required, k \in 1..Len(s.bindings) :
       s.required[i] = s.bindings[k].key /\ s.bindings[k].slot = a

LEMMA AppendedAt ==
  ASSUME NEW E, NEW d \in Seq(E), NEW e \in E
  PROVE  /\ Append(d, e) \in Seq(E)
         /\ Len(Append(d, e)) = Len(d) + 1 /\ Len(d) \in Nat
         /\ DOMAIN d = 1..Len(d) /\ DOMAIN Append(d, e) = 1..(Len(d) + 1)
         /\ Append(d, e)[Len(d) + 1] = e
         /\ \A k \in 1..Len(d) : Append(d, e)[k] = d[k]
         /\ \A k \in 1..(Len(d) + 1) : k = Len(d) + 1 \/ k \in 1..Len(d)
         /\ 1..Len(d) \subseteq 1..(Len(d) + 1) /\ Len(d) + 1 \in 1..(Len(d) + 1)
         /\ Len(d) + 1 \notin 1..Len(d)
OBVIOUS

\* add_argument takes s to t, and the slots that are required from R to Rs.
Adds(s, t, key, inner, slot, rs, P, A, R, Rs) ==
  /\ Offers(s, P, A, R)
  /\ key \in ArgumentKeys /\ key \notin Keys(s.bindings)
  /\ slot \in Slots /\ slot \notin A
  /\ inner \in Seq(RawNames)
  /\ [key |-> key, inner |-> inner, slot |-> slot] \in P
  /\ \/ rs = Append(s.required, key) /\ Rs = R \cup {slot}
     \/ rs = s.required /\ Rs = R
  /\ t = [props    |-> Put(s.props, [key |-> key, inner |-> inner, slot |-> slot]),
          bindings |-> Put(s.bindings, [key |-> key, slot |-> slot]),
          required |-> rs]

LEMMA AddArgumentOffers ==
  ASSUME NEW s, NEW t, NEW key, NEW inner, NEW slot, NEW rs,
         NEW P, NEW A, NEW R, NEW Rs, Adds(s, t, key, inner, slot, rs, P, A, R, Rs)
  PROVE  Offers(t, P, A \cup {slot}, Rs) /\ Len(t.bindings) = Len(s.bindings) + 1
<1> USE DEF Adds
<1> DEFINE e == [key |-> key, inner |-> inner, slot |-> slot]
           b == [key |-> key, slot |-> slot]
           n == Len(s.bindings)
           ps == Append(s.props, e)
           bs == Append(s.bindings, b)
           m == Len(s.required)
           required == rs = Append(s.required, key) /\ Rs = R \cup {slot}
<1>1. s.props \in Seq(Props) /\ s.bindings \in Seq(Bindings) /\ s.required \in Seq(ArgumentKeys)
      /\ Len(s.props) = n
  BY DEF Offers, Arguments
<1>2. e \in Props /\ b \in Bindings BY DEF Props, Bindings
<1>3. DOMAIN s.props = 1..n /\ DOMAIN s.bindings = 1..n BY <1>1
<1>4. Keys(s.props) = Keys(s.bindings) BY <1>3 DEF Keys, Offers
<1>5. Put(s.props, e) = ps /\ Put(s.bindings, b) = bs BY <1>4 DEF Put
<1>6. t = [props |-> ps, bindings |-> bs, required |-> rs] BY <1>5
<1>7. ps \in Seq(Props) /\ Len(ps) = n + 1 /\ ps[n + 1] = e
      /\ \A k \in 1..n : ps[k] = s.props[k]
  BY <1>1, <1>2, AppendedAt
<1>8. bs \in Seq(Bindings) /\ Len(bs) = n + 1 /\ bs[n + 1] = b /\ DOMAIN bs = 1..(n + 1)
      /\ (\A k \in 1..n : bs[k] = s.bindings[k])
      /\ (\A k \in 1..(n + 1) : k = n + 1 \/ k \in 1..n)
      /\ 1..n \subseteq 1..(n + 1) /\ n + 1 \in 1..(n + 1) /\ n \in Nat
  BY <1>1, <1>2, AppendedAt
<1>9. Append(s.required, key) \in Seq(ArgumentKeys)
      /\ DOMAIN s.required = 1..m /\ DOMAIN Append(s.required, key) = 1..(m + 1)
      /\ Append(s.required, key)[m + 1] = key
      /\ (\A k \in 1..m : Append(s.required, key)[k] = s.required[k])
      /\ (\A k \in 1..(m + 1) : k = m + 1 \/ k \in 1..m)
      /\ 1..m \subseteq 1..(m + 1) /\ m + 1 \in 1..(m + 1)
  BY <1>1, AppendedAt
<1>10. e.key = key /\ e.slot = slot /\ b.key = key /\ b.slot = slot /\ e \in P OBVIOUS
<1>11. \A k \in 1..n : s.bindings[k].key # key /\ s.bindings[k].slot # slot
  BY <1>3 DEF Keys, Offers
<1>12. rs \in Seq(ArgumentKeys)
       /\ \A i \in DOMAIN rs : rs[i] = key \/ \E j \in DOMAIN s.required : rs[i] = s.required[j]
  BY <1>1, <1>9
<1>13. IsInjective(rs)
  <2>1. \A i \in 1..m : s.required[i] # key BY <1>9 DEF Offers
  <2>2. IsInjective(s.required) BY DEF Offers
  <2>3. CASE required
    <3> DEFINE q == Append(s.required, key)
    <3>1. rs = q BY <2>3
    <3> HIDE DEF q
    <3>2. ASSUME NEW i \in DOMAIN q, NEW j \in DOMAIN q, q[i] = q[j] PROVE i = j
      <4>1. i \in 1..(m + 1) /\ j \in 1..(m + 1) BY <1>9 DEF q
      <4>2. CASE i = m + 1 /\ j \in 1..m BY <4>2, <3>2, <2>1, <1>9 DEF q
      <4>3. CASE j = m + 1 /\ i \in 1..m BY <4>3, <3>2, <2>1, <1>9 DEF q
      <4>4. CASE i \in 1..m /\ j \in 1..m
        <5>1. s.required[i] = s.required[j] BY <4>4, <3>2, <1>9 DEF q
        <5> QED BY <5>1, <4>4, <2>2, <1>9 DEF IsInjective
      <4> QED BY <4>1, <4>2, <4>3, <4>4, <1>9
    <3> QED BY <3>1, <3>2 DEF IsInjective
  <2>4. CASE ~required BY <2>2, <2>4
  <2> QED BY <2>3, <2>4
<1>14. Keys(bs) = Keys(s.bindings) \cup {key}
  <2> HIDE DEF bs
  <2> QED BY <1>3, <1>8, <1>10 DEF Keys
<1>15. \A a \in Rs : \E i \in DOMAIN rs, k \in 1..(n + 1) : rs[i] = bs[k].key /\ bs[k].slot = a
  <2>1. ASSUME NEW a \in R
        PROVE  \E i \in DOMAIN rs, k \in 1..(n + 1) : rs[i] = bs[k].key /\ bs[k].slot = a
    <3>1. PICK i \in DOMAIN s.required, k \in 1..n :
            s.required[i] = s.bindings[k].key /\ s.bindings[k].slot = a
      BY DEF Offers
    <3>2. i \in DOMAIN rs /\ rs[i] = s.required[i] BY <1>9
    <3>3. k \in 1..(n + 1) /\ bs[k] = s.bindings[k] BY <1>8
    <3> HIDE DEF bs
    <3> QED BY <3>1, <3>2, <3>3
  <2>2. ASSUME required
        PROVE  \E i \in DOMAIN rs, k \in 1..(n + 1) : rs[i] = bs[k].key /\ bs[k].slot = slot
    <3>1. m + 1 \in DOMAIN rs /\ rs[m + 1] = key BY <1>9, <2>2
    <3>2. n + 1 \in 1..(n + 1) /\ bs[n + 1] = b BY <1>8
    <3> HIDE DEF bs, b
    <3> QED BY <3>1, <3>2, <1>10
  <2> HIDE DEF bs
  <2>3. CASE required BY <2>1, <2>2, <2>3
  <2>4. CASE ~required BY <2>1, <2>4
  <2> QED BY <2>3, <2>4
<1> HIDE DEF ps, bs, e, b
<1>16. t \in Arguments BY <1>6, <1>7, <1>8, <1>12 DEF Arguments
<1>17. t.props = ps /\ t.bindings = bs /\ t.required = rs BY <1>6
<1>18. \A k \in 1..(n + 1) : /\ ps[k].key = bs[k].key /\ ps[k].slot = bs[k].slot
                             /\ ps[k] \in P /\ bs[k].slot \in A \cup {slot}
  <2>1. \A k \in 1..n :
          /\ s.props[k].key = s.bindings[k].key /\ s.props[k].slot = s.bindings[k].slot
          /\ s.props[k] \in P /\ s.bindings[k].slot \in A
    BY DEF Offers
  <2> HIDE DEF n
  <2> SUFFICES ASSUME NEW k \in 1..(n + 1)
               PROVE  /\ ps[k].key = bs[k].key /\ ps[k].slot = bs[k].slot
                      /\ ps[k] \in P /\ bs[k].slot \in A \cup {slot}
    OBVIOUS
  <2>2. CASE k \in 1..n BY ONLY <2>1, <2>2, <1>7, <1>8
  <2>3. CASE k = n + 1 BY ONLY <2>3, <1>7, <1>8, <1>10
  <2> QED BY <2>2, <2>3, <1>8
<1>19. \A j, k \in 1..(n + 1) :
         bs[j].key = bs[k].key \/ bs[j].slot = bs[k].slot => j = k
  <2>1. \A j, k \in 1..n :
          s.bindings[j].key = s.bindings[k].key \/ s.bindings[j].slot = s.bindings[k].slot => j = k
    BY DEF Offers
  <2> HIDE DEF n
  <2> SUFFICES ASSUME NEW j \in 1..(n + 1), NEW k \in 1..(n + 1),
                      bs[j].key = bs[k].key \/ bs[j].slot = bs[k].slot
               PROVE  j = k
    OBVIOUS
  <2>2. CASE j \in 1..n /\ k \in 1..n BY <2>1, <2>2, <1>8
  <2>3. CASE j \in 1..n /\ k = n + 1 BY <2>3, <1>8, <1>10, <1>11
  <2>4. CASE j = n + 1 /\ k \in 1..n BY <2>4, <1>8, <1>10, <1>11
  <2> QED BY <2>2, <2>3, <2>4, <1>8
<1>20. \A a \in A \cup {slot} : \E k \in 1..(n + 1) : bs[k].slot = a
  <2>1. \A a \in A : \E k \in 1..n : s.bindings[k].slot = a BY DEF Offers
  <2>2. \A a \in A : \E k \in 1..(n + 1) : bs[k].slot = a BY ONLY <2>1, <1>8
  <2>3. n + 1 \in 1..(n + 1) /\ bs[n + 1].slot = slot BY <1>8, <1>10
  <2> QED BY ONLY <2>2, <2>3
<1>21. \A i \in DOMAIN rs : rs[i] \in Keys(bs) BY <1>12, <1>14 DEF Offers
<1> HIDE DEF n
<1>22. Offers(t, P, A \cup {slot}, Rs)
  <2>1. Len(t.props) = Len(t.bindings) /\ Len(t.bindings) = n + 1 BY <1>7, <1>8, <1>17
  <2>2. \A k \in 1..(n + 1) :
          /\ t.props[k].key = t.bindings[k].key /\ t.props[k].slot = t.bindings[k].slot
          /\ t.props[k] \in P /\ t.bindings[k].slot \in A \cup {slot}
    BY ONLY <1>17, <1>18
  <2>3. \A j, k \in 1..(n + 1) :
          t.bindings[j].key = t.bindings[k].key \/ t.bindings[j].slot = t.bindings[k].slot => j = k
    BY ONLY <1>17, <1>19
  <2>4. \A a \in A \cup {slot} : \E k \in 1..(n + 1) : t.bindings[k].slot = a
    BY ONLY <1>17, <1>20
  <2>5. IsInjective(t.required) /\ \A i \in DOMAIN t.required : t.required[i] \in Keys(t.bindings)
    BY ONLY <1>13, <1>17, <1>21
  <2>6. \A a \in Rs : \E i \in DOMAIN t.required, k \in 1..(n + 1) :
          t.required[i] = t.bindings[k].key /\ t.bindings[k].slot = a
    BY ONLY <1>15, <1>17
  <2> QED BY ONLY <1>16, <2>1, <2>2, <2>3, <2>4, <2>5, <2>6 DEF Offers
<1> QED BY <1>8, <1>17, <1>22 DEF n

\* What an operation is after the Normalize stage.
SoundOperation(op) ==
  /\ \E T : op.parameters \in Seq(T)
  /\ \A k \in DOMAIN op.parameters :
       /\ op.parameters[k].name \in RawNames
       /\ op.parameters[k].in \in ParamLocations
       /\ op.parameters[k].required \in BOOLEAN
  /\ \A j, k \in DOMAIN op.parameters :
       op.parameters[j].name = op.parameters[k].name
         /\ op.parameters[j].in = op.parameters[k].in => j = k
  /\ Len(op.parameters) + 1 < Len(Numerals)
  /\ op.body # NoBody =>
       /\ op.body.required \in BOOLEAN
       /\ op.body.variants \in Seq(Variants) /\ op.body.variants # <<>>
       /\ LET fields == op.body.variants[1].fields
          IN  /\ \A j, k \in DOMAIN fields : fields[j].name = fields[k].name => j = k
              /\ Len(op.parameters) + Len(fields) + 1 < Len(Numerals)

ParameterProps(op) ==
  {e \in Props : \E k \in DOMAIN op.parameters :
     LET p == op.parameters[k]
     IN  Extends(e.key, p.name) /\ e.inner = <<>> /\ e.slot = Slot(p.in, <<p.name>>)}

FieldProps(op) ==
  {e \in Props : \E f \in Fields(op) :
     Extends(e.key, f.name) /\ e.inner = f.inner /\ e.slot = Slot("body_field", <<f.name>>)}

RootProps == {e \in Props : Extends(e.key, <<"body">>) /\ e.inner = <<>> /\ e.slot.kind = "body_root"}

OperationProps(op) == ParameterProps(op) \cup FieldProps(op) \cup RootProps

\* The slots of the first i of the parameters.
ParameterSlots(params, J) == {Slot(params[k].in, <<params[k].name>>) : k \in J}

LEMMA NameIsKey ==
  ASSUME NEW name \in RawNames
  PROVE  /\ name \in ArgumentKeys /\ name # <<>> /\ name \in Seq(STRING)
         /\ <<name>> \in Seq(RawNames)
<1>1. name \in Seq(STRING) /\ name # <<>> BY DEF RawNames, Names
<1>2. name \in Seq(KeyWords)
  <2> DEFINE W == KeyWords
  <2>1. \A w \in STRING : w \in W BY DEF KeyWords
  <2>2. name = [k \in 1..Len(name) |-> name[k]] /\ Len(name) \in Nat
        /\ \A k \in 1..Len(name) : name[k] \in STRING
    BY <1>1
  <2> HIDE DEF W
  <2>3. \A k \in 1..Len(name) : name[k] \in W BY <2>1, <2>2
  <2>4. name \in Seq(W) BY <2>2, <2>3
  <2> QED BY <2>4 DEF W
<1>3. <<name>> \in Seq(RawNames)
  <2> DEFINE N == RawNames
  <2>1. name \in N OBVIOUS
  <2> HIDE DEF N
  <2>2. <<name>> \in Seq(N) BY <2>1
  <2> QED BY <2>2 DEF N
<1> QED BY <1>1, <1>2, <1>3 DEF ArgumentKeys

\* s can take the k-th parameter.
TakesParameter(op, k, s, slot, A, R, Rs) ==
  /\ k \in DOMAIN op.parameters
  /\ Offers(s, OperationProps(op), A, R)
  /\ Len(s.bindings) + 1 < Len(Numerals)
  /\ slot = Slot(op.parameters[k].in, <<op.parameters[k].name>>) /\ slot \notin A
  /\ op.parameters[k].required => Rs = R \cup {slot}
  /\ ~op.parameters[k].required => Rs = R

LEMMA ParameterOffered ==
  ASSUME NEW op, SoundOperation(op), NEW k, NEW s, NEW slot, NEW A, NEW R, NEW Rs,
         TakesParameter(op, k, s, slot, A, R, Rs)
  PROVE  LET t == AddParameter(s, op.parameters[k])
         IN  /\ Offers(t, OperationProps(op), A \cup {slot}, Rs)
             /\ Len(t.bindings) = Len(s.bindings) + 1
<1> USE DEF TakesParameter
<1> DEFINE p == op.parameters[k]
           key == UniqueKey(p.name, s.bindings, "query")
           e == [key |-> key, inner |-> <<>>, slot |-> slot]
<1>1. p.name \in RawNames /\ p.in \in ParamLocations /\ p.required \in BOOLEAN
  BY DEF SoundOperation
<1>2. s.bindings \in Seq(Bindings) BY DEF Offers, Arguments
<1>3. p.name \in ArgumentKeys /\ <<p.name>> \in Seq(RawNames) BY <1>1, NameIsKey
<1>4. "query" \in KeyWords BY DEF KeyWords
<1>5. key \notin Keys(s.bindings) /\ key \in ArgumentKeys /\ Extends(key, p.name)
  <2> HIDE DEF p
  <2> QED BY <1>2, <1>3, <1>4, UniqueKeyIsFree DEF Extends
<1>6. slot \in Slots BY <1>1, <1>3 DEF Slot, Slots, SlotKinds
<1>7. <<>> \in Seq(RawNames) OBVIOUS
<1>8. e \in OperationProps(op)
  <2> HIDE DEF key
  <2>1. e \in Props BY <1>5, <1>6, <1>7 DEF Props
  <2>2. Extends(e.key, p.name) /\ e.inner = <<>> /\ e.slot = Slot(p.in, <<p.name>>)
    BY <1>5
  <2> HIDE DEF e
  <2>3. e \in ParameterProps(op) BY <2>1, <2>2 DEF ParameterProps
  <2> QED BY <2>3 DEF OperationProps
<1>9. AddParameter(s, p) =
        [props    |-> Put(s.props, [key |-> key, inner |-> <<>>, slot |-> slot]),
         bindings |-> Put(s.bindings, [key |-> key, slot |-> slot]),
         required |-> IF p.required THEN Append(s.required, key) ELSE s.required]
  BY DEF AddParameter, AddArgument
<1> DEFINE rs == IF p.required THEN Append(s.required, key) ELSE s.required
           t == AddParameter(s, p)
<1>10. \/ rs = Append(s.required, key) /\ Rs = R \cup {slot}
       \/ rs = s.required /\ Rs = R
  OBVIOUS
<1>11. t = [props    |-> Put(s.props, [key |-> key, inner |-> <<>>, slot |-> slot]),
            bindings |-> Put(s.bindings, [key |-> key, slot |-> slot]),
            required |-> rs]
  BY <1>9
<1> HIDE DEF key, p, rs, t
<1>12. Offers(t, OperationProps(op), A \cup {slot}, Rs) /\ Len(t.bindings) = Len(s.bindings) + 1
  <2>1. Adds(s, t, key, <<>>, slot, rs, OperationProps(op), A, R, Rs)
    BY <1>5, <1>6, <1>7, <1>8, <1>10, <1>11 DEF Adds
  <2> QED BY <2>1, AddArgumentOffers
<1> QED BY <1>12 DEF p, t

LEMMA NothingOffered ==
  ASSUME NEW P
  PROVE  Offers(NoArguments, P, {}, {}) /\ Len(NoArguments.bindings) = 0
<1>1. NoArguments \in Arguments BY DEF NoArguments, Arguments
<1>2. NoArguments.props = <<>> /\ NoArguments.bindings = <<>> /\ NoArguments.required = <<>>
  BY DEF NoArguments
<1>3. Len(<<>>) = 0 /\ 1..0 = {} /\ DOMAIN <<>> = {} OBVIOUS
<1>4. IsInjective(<<>>) BY <1>3 DEF IsInjective
<1> HIDE DEF NoArguments
<1> QED BY <1>1, <1>2, <1>3, <1>4 DEF Offers

LEMMA ParametersOffered ==
  ASSUME NEW op, SoundOperation(op)
  PROVE  LET params == op.parameters
             s == WithParameters(params)
             needed == {k \in DOMAIN params : params[k].required}
         IN  /\ Offers(s, OperationProps(op), ParameterSlots(params, DOMAIN params),
                       ParameterSlots(params, needed))
             /\ Len(s.bindings) = Len(params)
<1> DEFINE params == op.parameters
           n == Len(params)
           P == OperationProps(op)
           A(i) == ParameterSlots(params, 1..i)
           R(i) == ParameterSlots(params, {k \in 1..i : params[k].required})
           Good(i, s) == Offers(s, P, A(i), R(i)) /\ Len(s.bindings) = i
           D == Arguments
           G == {q \in (0..n) \X D : Good(q[1], q[2])}
<1>1. PICK T : params \in Seq(T) BY DEF SoundOperation
<1>2. n \in Nat /\ DOMAIN params = 1..n BY <1>1
<1>3. \A i \in 0..n, d \in D : Good(i, d) => <<i, d>> \in G OBVIOUS
<1>4. \A i, d : <<i, d>> \in G => i \in 0..n /\ d \in D /\ Good(i, d) OBVIOUS
<1>5. G \in SUBSET ((0..n) \X D) OBVIOUS
<1> HIDE DEF G, P
<1>6. <<0, NoArguments>> \in G
  <2>1. 1..0 = {} /\ 0 \in 0..n BY <1>2
  <2>2. A(0) = {} /\ R(0) = {} BY <2>1 DEF ParameterSlots
  <2>3. Good(0, NoArguments) BY <2>2, NothingOffered
  <2>4. NoArguments \in D BY DEF NoArguments, Arguments
  <2> HIDE DEF Good, D
  <2> QED BY <2>1, <2>3, <2>4, <1>3
<1>7. ASSUME NEW i \in 1..n, NEW d \in D, <<i - 1, d>> \in G
      PROVE  <<i, AddParameter(d, params[i])>> \in G
  <2> DEFINE p == params[i]
             slot == Slot(p.in, <<p.name>>)
             t == AddParameter(d, p)
  <2>1. Good(i - 1, d) BY <1>4, <1>7
  <2>2. (\A k \in 1..i : k = i \/ k \in 1..(i - 1)) /\ 1..(i - 1) \subseteq 1..i /\ i \in 1..i
        /\ 1..i \subseteq 1..n /\ i \notin 1..(i - 1) /\ i \in 0..n /\ i - 1 + 1 = i
        /\ i + 1 < Len(Numerals)
    <3>1. n + 1 < Len(Numerals) /\ Len(Numerals) \in Nat
      BY NumeralsAssumption DEF SoundOperation
    <3> HIDE DEF n
    <3> QED BY <1>2, <3>1
  <2>3. 1..i = (1..(i - 1)) \cup {i} BY <2>2
  <2>4. A(i) = A(i - 1) \cup {slot} BY <2>3 DEF ParameterSlots
  <2>5. (p.required => R(i) = R(i - 1) \cup {slot}) /\ (~p.required => R(i) = R(i - 1))
    <3>1. ASSUME p.required PROVE R(i) = R(i - 1) \cup {slot}
      <4>1. {k \in 1..i : params[k].required} = {k \in 1..(i - 1) : params[k].required} \cup {i}
        BY <2>3, <3>1
      <4> QED BY <4>1 DEF ParameterSlots
    <3>2. ASSUME ~p.required PROVE R(i) = R(i - 1)
      <4>1. {k \in 1..i : params[k].required} = {k \in 1..(i - 1) : params[k].required}
        BY <2>3, <3>2
      <4> QED BY <4>1 DEF ParameterSlots
    <3> QED BY <3>1, <3>2
  <2>6. slot \notin A(i - 1)
    <3> SUFFICES ASSUME NEW k \in 1..(i - 1), slot = Slot(params[k].in, <<params[k].name>>)
                 PROVE  FALSE
      BY DEF ParameterSlots
    <3>1. params[k].in = p.in /\ params[k].name = p.name BY DEF Slot
    <3>2. k \in DOMAIN params /\ i \in DOMAIN params BY <1>2, <2>2
    <3>3. k = i BY <3>1, <3>2 DEF SoundOperation
    <3> QED BY <3>3, <2>2
  <2>7. Len(d.bindings) + 1 < Len(Numerals)
    BY <2>1, <2>2, NumeralsAssumption
  <2>8. Offers(t, P, A(i - 1) \cup {slot}, R(i))
        /\ Len(t.bindings) = Len(d.bindings) + 1
    <3>1. i \in DOMAIN op.parameters BY <1>2
    <3>2. Offers(d, OperationProps(op), A(i - 1), R(i - 1)) BY <2>1 DEF P
    <3>3. slot = Slot(op.parameters[i].in, <<op.parameters[i].name>>) OBVIOUS
    <3>4. (op.parameters[i].required => R(i) = R(i - 1) \cup {slot})
          /\ (~op.parameters[i].required => R(i) = R(i - 1))
      BY <2>5
    <3>5. t = AddParameter(d, op.parameters[i]) OBVIOUS
    <3> HIDE DEF A, R, n, slot, p, t, params
    <3>6. TakesParameter(op, i, d, slot, A(i - 1), R(i - 1), R(i))
      BY <2>6, <2>7, <3>1, <3>2, <3>3, <3>4 DEF TakesParameter
    <3> QED BY <3>5, <3>6, ParameterOffered DEF P
  <2> HIDE DEF t, slot, p
  <2>9. Good(i, t) BY <2>1, <2>2, <2>4, <2>5, <2>8
  <2>10. t \in D BY <2>8 DEF Offers
  <2> HIDE DEF Good, D
  <2> QED BY <2>2, <2>9, <2>10, <1>3 DEF t, p
<1>8. <<n, WithParameters(params)>> \in G
  <2> HIDE DEF D
  <2>1. \A i \in 1..n, d \in D : <<i - 1, d>> \in G => <<i, AddParameter(d, params[i])>> \in G
    BY <1>7
  <2> HIDE DEF params
  <2> QED BY <1>1, <1>5, <1>6, <2>1, WithParametersInduces
<1>9. Good(n, WithParameters(params)) BY <1>4, <1>8
<1> QED BY <1>2, <1>9 DEF P

\* The slots of the fields at the positions J.
FieldSlots(fields, J) == {Slot("body_field", <<fields[k].name>>) : k \in J}

LEMMA FieldsTyped ==
  ASSUME NEW op, SoundOperation(op), op.body # NoBody
  PROVE  LET fields == op.body.variants[1].fields
         IN  /\ op.body.variants[1] \in Variants
             /\ fields \in Seq(BodyFields)
             /\ \A k \in DOMAIN fields : /\ fields[k].name \in RawNames
                                         /\ fields[k].inner \in Seq(RawNames)
                                         /\ fields[k].required \in BOOLEAN
<1> DEFINE v == op.body.variants
           V == Variants
           fields == v[1].fields
           F == BodyFields
<1>1. v \in Seq(V) /\ v # <<>> BY DEF SoundOperation
<1>2. v[1] \in V
  <2> HIDE DEF v, V
  <2> QED BY <1>1
<1>3. fields \in Seq(F) BY <1>2 DEF Variants
<1>4. \A k \in DOMAIN fields : fields[k] \in F
  <2> HIDE DEF F, fields
  <2> QED BY <1>3
<1>5. \A f \in F : f.name \in RawNames /\ f.inner \in Seq(RawNames) /\ f.required \in BOOLEAN
  BY DEF BodyFields
<1> QED BY <1>2, <1>3, <1>4, <1>5

\* s can take the k-th field of the body.
TakesField(op, k, s, slot, A, R, Rs) ==
  LET fields == op.body.variants[1].fields
  IN  /\ op.body # NoBody /\ op.body.variants[1].object
      /\ k \in DOMAIN fields
      /\ Offers(s, OperationProps(op), A, R)
      /\ Len(s.bindings) + 1 < Len(Numerals)
      /\ slot = Slot("body_field", <<fields[k].name>>) /\ slot \notin A
      /\ op.body.required /\ fields[k].required => Rs = R \cup {slot}
      /\ ~(op.body.required /\ fields[k].required) => Rs = R

LEMMA FieldOffered ==
  ASSUME NEW op, SoundOperation(op), NEW k, NEW s, NEW slot, NEW A, NEW R, NEW Rs,
         TakesField(op, k, s, slot, A, R, Rs)
  PROVE  LET t == AddField(s, op.body.variants[1].fields[k], op.body.required)
         IN  /\ Offers(t, OperationProps(op), A \cup {slot}, Rs)
             /\ Len(t.bindings) = Len(s.bindings) + 1
<1> USE DEF TakesField
<1> DEFINE f == op.body.variants[1].fields[k]
           key == UniqueKey(f.name, s.bindings, "body")
           e == [key |-> key, inner |-> f.inner, slot |-> slot]
<1>1. f.name \in RawNames /\ f.inner \in Seq(RawNames) BY FieldsTyped
<1>2. s.bindings \in Seq(Bindings) BY DEF Offers, Arguments
<1>3. f.name \in ArgumentKeys /\ <<f.name>> \in Seq(RawNames)
  <2> HIDE DEF f
  <2> QED BY <1>1, NameIsKey
<1>4. "body" \in KeyWords BY DEF KeyWords
<1>5. key \notin Keys(s.bindings) /\ key \in ArgumentKeys /\ Extends(key, f.name)
  <2> HIDE DEF f
  <2> QED BY <1>2, <1>3, <1>4, UniqueKeyIsFree DEF Extends
<1>6. slot \in Slots BY <1>3 DEF Slot, Slots, SlotKinds
<1>7. e \in OperationProps(op)
  <2>1. f \in Fields(op) BY DEF Fields, Range
  <2>2. slot = Slot("body_field", <<f.name>>) OBVIOUS
  <2> HIDE DEF key, f
  <2>3. e \in Props BY <1>1, <1>5, <1>6 DEF Props
  <2>4. Extends(e.key, f.name) /\ e.inner = f.inner /\ e.slot = Slot("body_field", <<f.name>>)
    BY <1>5, <2>2
  <2> HIDE DEF e
  <2>5. e \in FieldProps(op) BY <2>1, <2>3, <2>4 DEF FieldProps
  <2> QED BY <2>5 DEF OperationProps
<1> DEFINE rs == IF op.body.required /\ f.required THEN Append(s.required, key) ELSE s.required
           t == AddField(s, f, op.body.required)
<1>8. \/ rs = Append(s.required, key) /\ Rs = R \cup {slot}
      \/ rs = s.required /\ Rs = R
  OBVIOUS
<1>9. t = [props    |-> Put(s.props, [key |-> key, inner |-> f.inner, slot |-> slot]),
           bindings |-> Put(s.bindings, [key |-> key, slot |-> slot]),
           required |-> rs]
  BY DEF AddField, AddArgument
<1> HIDE DEF key, f, rs, t
<1>10. Offers(t, OperationProps(op), A \cup {slot}, Rs) /\ Len(t.bindings) = Len(s.bindings) + 1
  <2>1. Adds(s, t, key, f.inner, slot, rs, OperationProps(op), A, R, Rs)
    BY <1>1, <1>5, <1>6, <1>7, <1>8, <1>9 DEF Adds
  <2> QED BY <2>1, AddArgumentOffers
<1> QED BY <1>10 DEF f, t

LEMMA FieldsOffered ==
  ASSUME NEW op, SoundOperation(op), op.body # NoBody, op.body.variants[1].object,
         NEW s, NEW A0, NEW R0, Offers(s, OperationProps(op), A0, R0),
         Len(s.bindings) = Len(op.parameters),
         \A a \in A0 : a.kind # "body_field"
  PROVE  LET fields == op.body.variants[1].fields
             needed == {k \in DOMAIN fields : op.body.required /\ fields[k].required}
         IN  Offers(WithFields(s, fields, op.body.required), OperationProps(op),
                    A0 \cup FieldSlots(fields, DOMAIN fields), R0 \cup FieldSlots(fields, needed))
<1> DEFINE fields == op.body.variants[1].fields
           n == Len(fields)
           P == OperationProps(op)
           Needed(i) == {k \in 1..i : op.body.required /\ fields[k].required}
           A(i) == A0 \cup FieldSlots(fields, 1..i)
           R(i) == R0 \cup FieldSlots(fields, Needed(i))
           Good(i, d) == Offers(d, P, A(i), R(i)) /\ Len(d.bindings) = Len(op.parameters) + i
           D == Arguments
           G == {q \in (0..n) \X D : Good(q[1], q[2])}
<1>1. fields \in Seq(BodyFields) BY FieldsTyped
<1>2. n \in Nat /\ DOMAIN fields = 1..n BY <1>1
<1>3. \A i \in 0..n, d \in D : Good(i, d) => <<i, d>> \in G OBVIOUS
<1>4. \A i, d : <<i, d>> \in G => i \in 0..n /\ d \in D /\ Good(i, d) OBVIOUS
<1>5. G \in SUBSET ((0..n) \X D) OBVIOUS
<1> HIDE DEF G, P
<1>10. PICK T : op.parameters \in Seq(T) BY DEF SoundOperation
<1>11. Len(op.parameters) \in Nat BY <1>10
<1>6. <<0, s>> \in G
  <2>1. 1..0 = {} /\ 0 \in 0..n BY <1>2
  <2>2. A(0) = A0 /\ R(0) = R0 BY <2>1 DEF FieldSlots
  <2>3. Good(0, s)
    <3>1. Offers(s, P, A(0), R(0)) BY <2>2 DEF P
    <3>2. Len(op.parameters) = Len(op.parameters) + 0 BY <1>11
    <3> HIDE DEF A, R
    <3> QED BY <3>1, <3>2
  <2>4. s \in D BY DEF Offers
  <2> HIDE DEF Good, D
  <2> QED BY <2>1, <2>3, <2>4, <1>3
<1>7. ASSUME NEW i \in 1..n, NEW d \in D, <<i - 1, d>> \in G
      PROVE  <<i, AddField(d, fields[i], op.body.required)>> \in G
  <2> DEFINE f == fields[i]
             slot == Slot("body_field", <<f.name>>)
             t == AddField(d, f, op.body.required)
  <2>1. Good(i - 1, d) BY <1>4, <1>7
  <2>2. (\A k \in 1..i : k = i \/ k \in 1..(i - 1)) /\ 1..(i - 1) \subseteq 1..i /\ i \in 1..i
        /\ 1..i \subseteq 1..n /\ i \notin 1..(i - 1) /\ i \in 0..n /\ i - 1 + 1 = i
        /\ Len(op.parameters) + i + 1 < Len(Numerals)
        /\ Len(op.parameters) + (i - 1) + 1 = Len(op.parameters) + i
    <3>2. Len(Numerals) \in Nat BY NumeralsAssumption
    <3>3. Len(op.parameters) + n + 1 < Len(Numerals) BY DEF SoundOperation
    <3>1. Len(op.parameters) + n + 1 < Len(Numerals) /\ Len(Numerals) \in Nat BY <3>2, <3>3
    <3> HIDE DEF n
    <3> QED BY <1>2, <1>11, <3>1
  <2>3. 1..i = (1..(i - 1)) \cup {i} BY <2>2
  <2>4. A(i) = A(i - 1) \cup {slot} BY <2>3 DEF FieldSlots
  <2>5. /\ (op.body.required /\ f.required) => R(i) = R(i - 1) \cup {slot}
        /\ ~(op.body.required /\ f.required) => R(i) = R(i - 1)
    <3>1. ASSUME op.body.required /\ f.required PROVE R(i) = R(i - 1) \cup {slot}
      <4>1. Needed(i) = Needed(i - 1) \cup {i} BY <2>3, <3>1
      <4> HIDE DEF Needed
      <4> QED BY <4>1 DEF FieldSlots
    <3>2. ASSUME ~(op.body.required /\ f.required) PROVE R(i) = R(i - 1)
      <4>1. Needed(i) = Needed(i - 1) BY <2>3, <3>2
      <4> HIDE DEF Needed
      <4> QED BY <4>1
    <3> QED BY <3>1, <3>2
  <2>6. slot \notin A(i - 1)
    <3>1. slot \notin A0 BY DEF Slot
    <3>2. ASSUME NEW k \in 1..(i - 1), slot = Slot("body_field", <<fields[k].name>>)
          PROVE  FALSE
      <4>1. fields[k].name = f.name BY <3>2 DEF Slot
      <4>2. k \in DOMAIN fields /\ i \in DOMAIN fields BY <1>2, <2>2
      <4>3. k = i BY <4>1, <4>2 DEF SoundOperation
      <4> QED BY <4>3, <2>2
    <3> QED BY <3>1, <3>2 DEF FieldSlots
  <2>7. Len(d.bindings) + 1 < Len(Numerals) /\ Len(d.bindings) + 1 = Len(op.parameters) + i
    BY <1>11, <2>1, <2>2, NumeralsAssumption
  <2>8. Offers(t, P, A(i - 1) \cup {slot}, R(i)) /\ Len(t.bindings) = Len(d.bindings) + 1
    <3>1. i \in DOMAIN op.body.variants[1].fields BY <1>2
    <3>2. Offers(d, OperationProps(op), A(i - 1), R(i - 1)) BY <2>1 DEF P
    <3>3. slot = Slot("body_field", <<op.body.variants[1].fields[i].name>>) OBVIOUS
    <3>4. /\ op.body.required /\ op.body.variants[1].fields[i].required => R(i) = R(i - 1) \cup {slot}
          /\ ~(op.body.required /\ op.body.variants[1].fields[i].required) => R(i) = R(i - 1)
      BY <2>5
    <3>5. t = AddField(d, op.body.variants[1].fields[i], op.body.required) OBVIOUS
    <3> HIDE DEF A, R, n, slot, f, t, fields
    <3>6. TakesField(op, i, d, slot, A(i - 1), R(i - 1), R(i))
      BY <2>6, <2>7, <3>1, <3>2, <3>3, <3>4 DEF TakesField
    <3> QED BY <3>5, <3>6, FieldOffered DEF P
  <2> HIDE DEF t, slot, f
  <2>9. Good(i, t) BY <2>2, <2>4, <2>7, <2>8
  <2>10. t \in D BY <2>8 DEF Offers
  <2> HIDE DEF Good, D
  <2> QED BY <2>2, <2>9, <2>10, <1>3 DEF t, f
<1>8. <<n, WithFields(s, fields, op.body.required)>> \in G
  <2> HIDE DEF D
  <2>1. \A i \in 1..n, d \in D :
          <<i - 1, d>> \in G => <<i, AddField(d, fields[i], op.body.required)>> \in G
    BY <1>7
  <2> DEFINE required == op.body.required
  <2>2. \A i \in 1..n, d \in D : <<i - 1, d>> \in G => <<i, AddField(d, fields[i], required)>> \in G
    BY <2>1
  <2> HIDE DEF fields, required
  <2>3. <<n, WithFields(s, fields, required)>> \in G
    BY ONLY <1>1, <1>5, <1>6, <2>2, WithFieldsInduces DEF n
  <2> QED BY <2>3 DEF required
<1>9. Good(n, WithFields(s, fields, op.body.required)) BY <1>4, <1>8
<1> QED BY <1>2, <1>9 DEF P

\* build_argument_map offers each input of the operation once.
LEMMA InputsOffered ==
  ASSUME NEW op, SoundOperation(op)
  PROVE  \E A : /\ Offers(BuildArgumentMap(op), OperationProps(op), A, RequiredInputs(op))
                /\ Inputs(op) \subseteq A
                /\ A \subseteq Inputs(op) \cup {Slot("body_root", <<>>)}
<1> DEFINE params == op.parameters
           fields == op.body.variants[1].fields
           w == WithParameters(params)
           P == OperationProps(op)
           A0 == ParameterSlots(params, DOMAIN params)
           R0 == ParameterSlots(params, {k \in DOMAIN params : params[k].required})
           root == Slot("body_root", <<>>)
<1>1. Offers(w, P, A0, R0) /\ Len(w.bindings) = Len(params) BY ParametersOffered
<1>2. A0 = {Slot(p.in, <<p.name>>) : p \in Range(params)} BY DEF ParameterSlots, Range
<1>3. R0 = {Slot(p.in, <<p.name>>) : p \in {q \in Range(params) : q.required}}
  BY DEF ParameterSlots, Range
<1>4. \A a \in A0 : a.kind \in ParamLocations
  BY DEF ParameterSlots, SoundOperation, Slot
<1>5. \A a \in A0 : a.kind # "body_field" /\ a.kind # "body_root" BY <1>4 DEF ParamLocations
<1>6. CASE op.body = NoBody
  <2>1. BuildArgumentMap(op) = w BY <1>6 DEF BuildArgumentMap
  <2>2. Fields(op) = {} /\ ~RootRequired(op) BY <1>6 DEF Fields, RootRequired
  <2>3. Inputs(op) = A0 BY <1>2, <2>2 DEF Inputs
  <2>4. RequiredInputs(op) = R0 BY <1>3, <2>2 DEF RequiredInputs
  <2> HIDE DEF P, w, A0, R0
  <2> QED BY <1>1, <2>1, <2>3, <2>4 DEF P
<1>7. CASE op.body # NoBody /\ op.body.variants[1].object
  <2> DEFINE needed == {k \in DOMAIN fields : op.body.required /\ fields[k].required}
             A == A0 \cup FieldSlots(fields, DOMAIN fields)
             R == R0 \cup FieldSlots(fields, needed)
  <2>1. BuildArgumentMap(op) = WithFields(w, fields, op.body.required)
    BY <1>7 DEF BuildArgumentMap
  <2>2. Fields(op) = Range(fields) /\ ~RootRequired(op) BY <1>7 DEF Fields, RootRequired
  <2>3. Inputs(op) = A BY <1>2, <2>2 DEF Inputs, FieldSlots, Range
  <2>4. RequiredInputs(op) = R
    <3>1. FieldSlots(fields, needed)
            = {Slot("body_field", <<f.name>>) : f \in {g \in Range(fields) : op.body.required /\ g.required}}
      BY DEF FieldSlots, Range
    <3> HIDE DEF needed, R0
    <3> QED BY <1>3, <2>2, <3>1 DEF RequiredInputs
  <2>5. Offers(WithFields(w, fields, op.body.required), P, A, R)
    <3> HIDE DEF w, A0, R0
    <3> QED BY <1>1, <1>5, <1>7, FieldsOffered
  <2> HIDE DEF P, w, A, R, fields
  <2> QED BY <2>1, <2>3, <2>4, <2>5 DEF P
<1>8. CASE op.body # NoBody /\ ~op.body.variants[1].object
  <2> DEFINE key == UniqueKey(<<"body">>, w.bindings, "query")
             t == BuildArgumentMap(op)
             e == [key |-> key, inner |-> <<>>, slot |-> root]
             rs == IF op.body.required THEN Append(w.required, key) ELSE w.required
             R == RequiredInputs(op)
  <2>1. t = AddArgument(w, key, root, <<>>, op.body.required)
    BY <1>8 DEF BuildArgumentMap
  <2>2. t = [props    |-> Put(w.props, [key |-> key, inner |-> <<>>, slot |-> root]),
             bindings |-> Put(w.bindings, [key |-> key, slot |-> root]),
             required |-> rs]
    BY <2>1 DEF AddArgument
  <2>3. Fields(op) = {} /\ (RootRequired(op) <=> op.body.required) BY <1>8 DEF Fields, RootRequired
  <2>4. Inputs(op) = A0 BY <1>2, <2>3 DEF Inputs
  <2>5. R = IF op.body.required THEN R0 \cup {root} ELSE R0
    <3> HIDE DEF R0
    <3> QED BY <1>3, <2>3 DEF RequiredInputs
  <2>6. \/ rs = Append(w.required, key) /\ R = R0 \cup {root}
        \/ rs = w.required /\ R = R0
    <3> HIDE DEF R, R0, w, key
    <3> QED BY <2>5
  <2>7. <<"body">> \in ArgumentKeys /\ "query" \in KeyWords BY DEF ArgumentKeys, KeyWords
  <2>8. w.bindings \in Seq(Bindings) /\ Len(w.bindings) + 1 < Len(Numerals)
    BY <1>1 DEF Offers, Arguments, SoundOperation
  <2>9. key \notin Keys(w.bindings) /\ key \in ArgumentKeys /\ Extends(key, <<"body">>)
    <3> HIDE DEF w
    <3> QED BY <2>7, <2>8, UniqueKeyIsFree DEF Extends
  <2>10. root \in Slots /\ root \notin A0 /\ root.kind = "body_root"
    BY <1>5 DEF Slot, Slots, SlotKinds
  <2>11. e \in P
    <3> HIDE DEF key, root
    <3>1. e \in Props BY <2>9, <2>10 DEF Props
    <3> QED BY <2>9, <2>10, <3>1 DEF RootProps, OperationProps
  <2> HIDE DEF w, P, A0, R0, key, root, rs, R, t
  <2>12. Adds(w, t, key, <<>>, root, rs, P, A0, R0, R)
    BY <1>1, <2>2, <2>6, <2>9, <2>10, <2>11 DEF Adds
  <2>13. Offers(t, P, A0 \cup {root}, R) BY <2>12, AddArgumentOffers
  <2> QED BY <2>4, <2>13 DEF P, R, t, root
<1> QED BY <1>6, <1>7, <1>8

(***************************************************************************)
(* apply_drop_spec_metadata leaves arguments alone that no keyword names.  *)
(***************************************************************************)

LEMMA KeyIsNoKeyword ==
  ASSUME NEW name \in ArgumentKeys, name # <<>>, ~SpecOnly(name),
         NEW key \in ArgumentKeys, Extends(key, name)
  PROVE  ~SpecOnly(key)
<1>1. Len(name) \in Nat /\ Len(name) # 0 /\ Len(key) \in Nat BY DEF ArgumentKeys
<1>2. 1 \in 1..Len(name) /\ key[1] = name[1]
  <2>1. 1 \in 1..Len(name) BY <1>1
  <2> QED BY <2>1 DEF Extends
<1>3. Len(key) = 1 => key = name BY <1>1 DEF Extends
<1> QED BY <1>2, <1>3 DEF SpecOnly

LEMMA BodyIsNoKeyword == <<"body">> \in ArgumentKeys /\ <<"body">> # <<>> /\ ~SpecOnly(<<"body">>)
<1>1. <<"body">> \in ArgumentKeys BY DEF ArgumentKeys, KeyWords
<1>2. "body" \notin ExtensionWords BY ExtensionAssumption
<1>3. "body" \notin SpecOnlyWords BY DEF SpecOnlyWords
<1>4. <<"body">>[1] = "body" /\ Len(<<"body">>) = 1 /\ <<"body">> # <<>> OBVIOUS
<1> QED BY <1>1, <1>2, <1>3, <1>4 DEF SpecOnly

LEMMA NothingDropped ==
  ASSUME NEW op, SoundOperation(op), ~MetadataClash(op),
         NEW s, NEW A, NEW R, Offers(s, OperationProps(op), A, R)
  PROVE  DropMetadata(s) = s
<1> DEFINE props == s.props
<1>1. s \in Arguments /\ props \in Seq(Props) /\ DOMAIN props = 1..Len(props)
      /\ Len(props) = Len(s.bindings)
  BY DEF Offers, Arguments
<1>2. \A i \in DOMAIN props : props[i] \in Props /\ props[i] \in OperationProps(op)
  <2>1. \A i \in DOMAIN props : props[i] \in OperationProps(op) BY <1>1 DEF Offers
  <2>2. \A i \in DOMAIN props : props[i] \in Props
    <3> DEFINE E == Props
    <3>1. props \in Seq(E) BY <1>1
    <3> HIDE DEF E, props
    <3>2. \A i \in DOMAIN props : props[i] \in E BY <3>1
    <3> QED BY <3>2 DEF E
  <2> QED BY <2>1, <2>2
<1>3. ASSUME NEW e \in Props, e \in OperationProps(op)
      PROVE  ~SpecOnly(e.key) /\ \A i \in DOMAIN e.inner : ~SpecOnly(e.inner[i])
  <2>1. e.key \in ArgumentKeys BY DEF Props
  <2>2. CASE e \in ParameterProps(op)
    <3>1. PICK k \in DOMAIN op.parameters : Extends(e.key, op.parameters[k].name) /\ e.inner = <<>>
      BY <2>2 DEF ParameterProps
    <3> DEFINE name == op.parameters[k].name
    <3>2. name \in RawNames BY DEF SoundOperation
    <3>3. ~SpecOnly(name) BY DEF MetadataClash, Range
    <3>4. Extends(e.key, name) BY <3>1
    <3> HIDE DEF name
    <3>5. ~SpecOnly(e.key) BY <2>1, <3>2, <3>3, <3>4, NameIsKey, KeyIsNoKeyword
    <3>6. DOMAIN e.inner = {} BY <3>1
    <3> QED BY <3>5, <3>6
  <2>3. CASE e \in FieldProps(op)
    <3>1. PICK f \in Fields(op) : Extends(e.key, f.name) /\ e.inner = f.inner
      BY <2>3 DEF FieldProps
    <3>2. f.name \in RawNames
      <4>1. op.body # NoBody /\ f \in Range(op.body.variants[1].fields) BY DEF Fields
      <4>2. \A k \in DOMAIN op.body.variants[1].fields : op.body.variants[1].fields[k].name \in RawNames
        BY <4>1, FieldsTyped
      <4> QED BY <4>1, <4>2 DEF Range
    <3>3. ~SpecOnly(f.name) /\ \A i \in DOMAIN f.inner : ~SpecOnly(f.inner[i])
      BY DEF MetadataClash, Range
    <3>4. ~SpecOnly(e.key) BY <2>1, <3>1, <3>2, <3>3, NameIsKey, KeyIsNoKeyword
    <3> QED BY <3>1, <3>3, <3>4
  <2>4. CASE e \in RootProps
    <3>1. Extends(e.key, <<"body">>) /\ e.inner = <<>> BY <2>4 DEF RootProps
    <3>2. ~SpecOnly(e.key) BY <2>1, <3>1, BodyIsNoKeyword, KeyIsNoKeyword
    <3>3. DOMAIN e.inner = {} BY <3>1
    <3> QED BY <3>2, <3>3
  <2>5. e \in ParameterProps(op) \/ e \in FieldProps(op) \/ e \in RootProps
    BY <1>3 DEF OperationProps
  <2> QED BY <2>2, <2>3, <2>4, <2>5
<1> HIDE DEF props
<1>4. Keep(props, {e \in Range(props) : ~SpecOnly(e.key)}) = props
  <2> DEFINE S == {e \in Range(props) : ~SpecOnly(e.key)}
  <2>1. \A i \in DOMAIN props : props[i] \in S BY <1>2, <1>3 DEF Range
  <2> HIDE DEF S
  <2>2. Keep(props, S) = props BY <1>1, <2>1, KeepAll
  <2> QED BY <2>2 DEF S
<1>5. \A i \in DOMAIN props :
        [props[i] EXCEPT !.inner = Keep(@, {n \in Range(@) : ~SpecOnly(n)})] = props[i]
  <2> SUFFICES ASSUME NEW i \in DOMAIN props
        PROVE [props[i] EXCEPT !.inner = Keep(@, {n \in Range(@) : ~SpecOnly(n)})] = props[i]
    OBVIOUS
  <2> DEFINE e == props[i]
             inner == e.inner
             S == {n \in Range(inner) : ~SpecOnly(n)}
  <2>1. e \in Props BY <1>2
  <2>2. inner \in Seq(RawNames) BY <2>1 DEF Props
  <2>3. \A j \in DOMAIN inner : inner[j] \in S BY <1>2, <1>3 DEF Range
  <2>4. Keep(inner, S) = inner
    <3> HIDE DEF inner, S
    <3> QED BY <2>2, <2>3, KeepAll
  <2> HIDE DEF e
  <2>5. [e EXCEPT !.inner = Keep(inner, S)] = e BY <2>1, <2>4 DEF Props
  <2> QED BY <2>5 DEF e
<1>6. [i \in DOMAIN props |->
        [props[i] EXCEPT !.inner = Keep(@, {n \in Range(@) : ~SpecOnly(n)})]] = props
  <2>1. props = [i \in DOMAIN props |-> props[i]] BY <1>1
  <2> DEFINE F(i) == [props[i] EXCEPT !.inner = Keep(@, {n \in Range(@) : ~SpecOnly(n)})]
  <2>2. \A i \in DOMAIN props : F(i) = props[i] BY <1>5
  <2> HIDE DEF F
  <2>3. [i \in DOMAIN props |-> F(i)] = props BY <2>1, <2>2
  <2> QED BY <2>3 DEF F
<1>7. DropMetadata(s) = [s EXCEPT !.props = props]
  BY <1>4, <1>6, Zenon DEF DropMetadata, props
<1>8. s.props = props BY DEF props
<1> QED BY <1>1, <1>7, <1>8 DEF Arguments

(***************************************************************************)
(* What arguments must be for calls to make complete requests: bindings    *)
(* with places of their own, a binding for each property, a property for   *)
(* each input in A and a required argument for each one in R.              *)
(***************************************************************************)
Within(slot, a) ==
  /\ slot.kind = a.kind
  /\ IsPrefix(a.path, slot.path)
  /\ a.kind # "body_field" => slot = a

Complete(s, A, R) ==
  /\ \E T : s.bindings \in Seq(T)
  /\ Separate(s.bindings)
  /\ \A e \in Range(s.props) : \E k \in DOMAIN s.bindings :
       s.bindings[k].key = e.key /\ s.bindings[k].slot = e.slot
  /\ \A a \in A : \E e \in Range(s.props) : Within(e.slot, a)
  /\ IsInjective(s.required)
  /\ \A a \in R : \E i \in DOMAIN s.required, k \in DOMAIN s.bindings :
       s.required[i] = s.bindings[k].key /\ Within(s.bindings[k].slot, a)

\* The body has no nested slots.
FlatSlots(A) ==
  /\ A \subseteq Slots
  /\ \A a \in A : Len(a.path) <= 1 /\ (a.kind = "body_field" => Len(a.path) = 1)

LEMMA PrefixFacts ==
  ASSUME NEW T, NEW s \in Seq(T), NEW t \in Seq(T)
  PROVE  /\ IsPrefix(s, s)
         /\ IsPrefix(s, t) /\ Len(s) >= 1 => Len(t) >= 1 /\ t[1] = s[1]
         /\ Len(s) = 1 /\ Len(t) = 1 /\ t[1] = s[1] => s = t
         /\ \A x \in T : IsPrefix(s, Append(s, x)) /\ Append(s, x) \in Seq(T)
<1>1. IsPrefix(s, s) BY DEF IsPrefix
<1>2. ASSUME IsPrefix(s, t), Len(s) >= 1 PROVE Len(t) >= 1 /\ t[1] = s[1]
  <2>1. Len(s) <= Len(t) /\ SubSeq(s, 1, Len(s)) = SubSeq(t, 1, Len(s)) BY <1>2 DEF IsPrefix
  <2>2. Len(s) \in Nat /\ Len(t) \in Nat /\ 1 \in 1..Len(s) BY <1>2
  <2>3. SubSeq(s, 1, Len(s))[1] = s[1] BY <1>2
  <2>4. SubSeq(t, 1, Len(s))[1] = t[1] BY <1>2, <2>1
  <2> QED BY <1>2, <2>1, <2>2, <2>3, <2>4
<1>3. ASSUME Len(s) = 1, Len(t) = 1, t[1] = s[1] PROVE s = t BY <1>3
<1>4. ASSUME NEW x \in T PROVE IsPrefix(s, Append(s, x)) /\ Append(s, x) \in Seq(T)
  BY DEF IsPrefix
<1> QED BY <1>1, <1>2, <1>3, <1>4

\* Slots within different flat slots are apart.
LEMMA WithinApart ==
  ASSUME NEW A, FlatSlots(A), NEW a \in A, NEW b \in A, a # b,
         NEW s \in Slots, Within(s, a), NEW t \in Slots, Within(t, b)
  PROVE  Apart(s, t)
<1>1. a \in Slots /\ b \in Slots BY DEF FlatSlots
<1>2. CASE a.kind = "body_field" /\ b.kind = "body_field"
  <2> DEFINE N == RawNames
  <2>1. a.path \in Seq(N) /\ b.path \in Seq(N) /\ s.path \in Seq(N) /\ t.path \in Seq(N)
    BY <1>1 DEF Slots
  <2>2. Len(a.path) = 1 /\ Len(b.path) = 1 BY <1>2 DEF FlatSlots
  <2>3. a.path # b.path BY <1>1, <1>2 DEF Slots
  <2>4. IsPrefix(a.path, s.path) /\ IsPrefix(b.path, t.path) BY DEF Within
  <2> HIDE DEF N
  <2>5. a.path[1] # b.path[1] BY <2>1, <2>2, <2>3, PrefixFacts
  <2>6. s.path[1] = a.path[1] /\ Len(s.path) >= 1 BY <2>1, <2>2, <2>4, PrefixFacts
  <2>7. t.path[1] = b.path[1] /\ Len(t.path) >= 1 BY <2>1, <2>2, <2>4, PrefixFacts
  <2>8. ~IsPrefix(s.path, t.path) BY <2>1, <2>5, <2>6, <2>7, PrefixFacts
  <2>9. ~IsPrefix(t.path, s.path) BY <2>1, <2>5, <2>6, <2>7, PrefixFacts
  <2>10. s # t BY <2>5, <2>6, <2>7
  <2> QED BY <2>8, <2>9, <2>10 DEF Apart
<1>3. CASE a.kind # "body_field" \/ b.kind # "body_field"
  BY <1>1, <1>3 DEF Within, Apart
<1> QED BY <1>2, <1>3

LEMMA LookupIs ==
  ASSUME NEW E, NEW d \in Seq(E), IsDict(d), NEW k \in DOMAIN d
  PROVE  Lookup(d, d[k].key) = d[k] /\ d[k].key \in Keys(d)
<1> DEFINE j == CHOOSE i \in DOMAIN d : d[i].key = d[k].key
<1>1. j \in DOMAIN d /\ d[j].key = d[k].key OBVIOUS
<1>2. j = k BY <1>1 DEF IsDict
<1>3. Lookup(d, d[k].key) = d[j] BY DEF Lookup
<1> QED BY <1>2, <1>3 DEF Keys

LEMMA OffersTyped ==
  ASSUME NEW s, NEW P, NEW A, NEW R, Offers(s, P, A, R)
  PROVE  /\ s = [props |-> s.props, bindings |-> s.bindings, required |-> s.required]
         /\ s.props \in Seq(Props) /\ s.bindings \in Seq(Bindings)
         /\ s.required \in Seq(ArgumentKeys)
         /\ DOMAIN s.props = DOMAIN s.bindings /\ DOMAIN s.props = 1..Len(s.props)
         /\ Len(s.props) \in Nat
         /\ IsDict(s.bindings)
         /\ \A k \in DOMAIN s.props : /\ s.props[k] \in Props
                                      /\ s.props[k].key = s.bindings[k].key
                                      /\ s.props[k].slot = s.bindings[k].slot
                                      /\ s.props[k].slot \in A
                                      /\ Lookup(s.bindings, s.props[k].key) = s.bindings[k]
                                      /\ s.props[k].key \in Keys(s.bindings)
         /\ \A j, k \in DOMAIN s.props :
              s.props[j].key = s.props[k].key \/ s.props[j].slot = s.props[k].slot => j = k
         /\ A \subseteq Slots
<1>1. s \in Arguments /\ Len(s.props) = Len(s.bindings) BY DEF Offers
<1>2. /\ s = [props |-> s.props, bindings |-> s.bindings, required |-> s.required]
      /\ s.props \in Seq(Props) /\ s.bindings \in Seq(Bindings) /\ s.required \in Seq(ArgumentKeys)
  BY <1>1 DEF Arguments
<1>3. DOMAIN s.props = DOMAIN s.bindings /\ DOMAIN s.props = 1..Len(s.props)
      /\ Len(s.props) \in Nat /\ DOMAIN s.bindings = 1..Len(s.bindings)
  BY <1>1, <1>2
<1>4. \A k \in DOMAIN s.props : s.props[k] \in Props
  <2> DEFINE E == Props
             props == s.props
  <2>1. props \in Seq(E) BY <1>2
  <2> HIDE DEF E, props
  <2>2. \A k \in DOMAIN props : props[k] \in E BY <2>1
  <2> QED BY <2>2 DEF E, props
<1>5. \A k \in DOMAIN s.props : /\ s.props[k].key = s.bindings[k].key
                                /\ s.props[k].slot = s.bindings[k].slot
                                /\ s.bindings[k].slot \in A
  BY <1>1, <1>3 DEF Offers
<1>6. \A j, k \in DOMAIN s.bindings :
        s.bindings[j].key = s.bindings[k].key \/ s.bindings[j].slot = s.bindings[k].slot => j = k
  BY <1>3 DEF Offers
<1>7. IsDict(s.bindings) BY <1>6 DEF IsDict
<1>8. \A k \in DOMAIN s.bindings : Lookup(s.bindings, s.bindings[k].key) = s.bindings[k]
                                   /\ s.bindings[k].key \in Keys(s.bindings)
  BY <1>2, <1>7, LookupIs
<1>9. A \subseteq Slots
  <2> SUFFICES ASSUME NEW a \in A PROVE a \in Slots OBVIOUS
  <2>1. PICK k \in 1..Len(s.bindings) : s.bindings[k].slot = a BY DEF Offers
  <2>2. s.props[k] \in Props /\ s.props[k].slot = a BY <1>3, <1>4, <1>5, <2>1
  <2> QED BY <2>2 DEF Props
<1>10. \A k \in DOMAIN s.props : /\ s.props[k].key = s.bindings[k].key
                                 /\ s.props[k].slot = s.bindings[k].slot
                                 /\ s.props[k].slot \in A
                                 /\ Lookup(s.bindings, s.props[k].key) = s.bindings[k]
                                 /\ s.props[k].key \in Keys(s.bindings)
  BY ONLY <1>3, <1>5, <1>8
<1>11. \A j, k \in DOMAIN s.props :
         s.props[j].key = s.props[k].key \/ s.props[j].slot = s.props[k].slot => j = k
  BY ONLY <1>3, <1>5, <1>6
<1> QED BY <1>2, <1>3, <1>4, <1>7, <1>9, <1>10, <1>11

\* Without apply_flatten_wrappers the arguments are complete as they are built.
LEMMA OffersIsComplete ==
  ASSUME NEW s, NEW P, NEW A, NEW R, Offers(s, P, A, R), FlatSlots(A)
  PROVE  Complete(s, A, R)
<1> DEFINE props == s.props
           bindings == s.bindings
           n == Len(bindings)
<1>1. bindings \in Seq(Bindings) /\ DOMAIN bindings = 1..n /\ DOMAIN props = 1..n
      /\ \A k \in 1..n : props[k].key = bindings[k].key /\ props[k].slot = bindings[k].slot
                         /\ bindings[k].slot \in A
  <2>1. DOMAIN bindings = 1..n BY OffersTyped
  <2> QED BY <2>1, OffersTyped
<1>2. \A a \in A : Within(a, a)
  <2> SUFFICES ASSUME NEW a \in A PROVE IsPrefix(a.path, a.path) BY DEF Within
  <2>1. a.path \in Seq(RawNames) BY DEF FlatSlots, Slots
  <2> QED BY <2>1, PrefixFacts
<1>3. Separate(bindings)
  <2>1. ASSUME NEW j \in 1..n, NEW k \in 1..n, j # k PROVE Apart(bindings[j].slot, bindings[k].slot)
    <3> DEFINE a == bindings[j].slot
               b == bindings[k].slot
    <3>1. a \in A /\ b \in A BY <1>1
    <3>2. a # b BY <2>1 DEF Offers
    <3>3. a \in Slots /\ b \in Slots BY <3>1 DEF FlatSlots
    <3> HIDE DEF a, b
    <3>4. Within(a, a) /\ Within(b, b) BY <1>2, <3>1
    <3>5. Apart(a, b) BY <3>1, <3>2, <3>3, <3>4, WithinApart
    <3> QED BY <3>5 DEF a, b
  <2>2. \A k \in 1..n : bindings[k].slot \in Slots BY <1>1 DEF FlatSlots
  <2> HIDE DEF bindings, n
  <2> QED BY <1>1, <2>1, <2>2 DEF Separate
<1>4. \A e \in Range(props) : \E k \in DOMAIN bindings :
        bindings[k].key = e.key /\ bindings[k].slot = e.slot
  BY ONLY <1>1 DEF Range
<1>5. \A a \in A : \E e \in Range(props) : Within(e.slot, a)
  <2> SUFFICES ASSUME NEW a \in A PROVE \E e \in Range(props) : Within(e.slot, a) OBVIOUS
  <2>1. PICK k \in 1..n : bindings[k].slot = a BY DEF Offers
  <2>2. props[k] \in Range(props) /\ props[k].slot = a BY <1>1, <2>1 DEF Range
  <2> QED BY <1>2, <2>2
<1>6. \A a \in R : \E i \in DOMAIN s.required, k \in DOMAIN bindings :
        s.required[i] = bindings[k].key /\ Within(bindings[k].slot, a)
  <2> SUFFICES ASSUME NEW a \in R
               PROVE  \E i \in DOMAIN s.required, k \in DOMAIN bindings :
                        s.required[i] = bindings[k].key /\ Within(bindings[k].slot, a)
    OBVIOUS
  <2>1. PICK i \in DOMAIN s.required, k \in 1..n : s.required[i] = bindings[k].key /\ bindings[k].slot = a
    BY DEF Offers
  <2>2. a \in A BY <1>1, <2>1
  <2> HIDE DEF bindings, n
  <2> QED BY <1>1, <1>2, <2>1, <2>2
<1>7. IsInjective(s.required) BY DEF Offers
<1> QED BY <1>1, <1>3, <1>4, <1>5, <1>6, <1>7 DEF Complete

(***************************************************************************)
(* apply_flatten_wrappers.                                                 *)
(***************************************************************************)

NewKey(e, old) == IF e.inner[1] \in Keys(old) THEN e.key \o e.inner[1] ELSE e.inner[1]

\* What becomes of a property, and its binding.
Unwrapped(e, old) ==
  IF IsWrapper(e, old)
  THEN [key |-> NewKey(e, old), inner |-> <<>>,
        slot |-> Slot("body_field", Append(e.slot.path, e.inner[1]))]
  ELSE e

BindingOf(e) == [key |-> e.key, slot |-> e.slot]

\* No wrapper of s gets a key that is taken or has the name of a parameter.
Unwraps(s, P, A, R) ==
  /\ Offers(s, P, A, R)
  /\ FlatSlots(A)
  /\ \A k \in DOMAIN s.props : IsWrapper(s.props[k], s.bindings) =>
       /\ NewKey(s.props[k], s.bindings) \notin Keys(s.bindings)
       /\ \A j \in DOMAIN s.props : j # k /\ IsWrapper(s.props[j], s.bindings) =>
            NewKey(s.props[j], s.bindings) # NewKey(s.props[k], s.bindings)
       /\ \A a \in A : a.kind # "body_field" => a.path # s.props[k].slot.path

LEMMA UnwrappedIs ==
  ASSUME NEW s, NEW P, NEW A, NEW R, Unwraps(s, P, A, R), NEW k \in DOMAIN s.props
  PROVE  LET e == s.props[k]
             t == Unwrapped(e, s.bindings)
         IN  /\ t \in Props /\ BindingOf(t) \in Bindings
             /\ Within(t.slot, e.slot)
             /\ ~IsWrapper(e, s.bindings) => t = e
             /\ IsWrapper(e, s.bindings) =>
                  e.slot.kind = "body_field" /\ t.key = NewKey(e, s.bindings)
<1> DEFINE e == s.props[k]
           t == Unwrapped(e, s.bindings)
           old == s.bindings
           N == RawNames
           w == e.inner[1]
           path == e.slot.path
<1>1. e \in Props /\ Lookup(old, e.key) = old[k] /\ e.slot = old[k].slot
  BY OffersTyped DEF Unwraps
<1>2. e.slot \in Slots /\ path \in Seq(N) /\ e.inner \in Seq(N) /\ e.key \in ArgumentKeys
  BY <1>1 DEF Props, Slots
<1>3. CASE IsWrapper(e, old)
  <2>1. e.slot.kind = "body_field" /\ Len(e.inner) = 1 BY <1>1, <1>3 DEF IsWrapper
  <2>2. t = [key |-> NewKey(e, old), inner |-> <<>>, slot |-> Slot("body_field", Append(path, w))]
    BY <1>3 DEF Unwrapped
  <2>3. w \in N /\ path \in Seq(N)
    <3> DEFINE inner == e.inner
    <3>1. inner \in Seq(N) /\ Len(inner) = 1 BY <1>2, <2>1
    <3> HIDE DEF inner, N
    <3>2. inner[1] \in N BY <3>1
    <3> QED BY <3>2, <1>2 DEF inner
  <2>4. w \in ArgumentKeys BY <2>3, NameIsKey
  <2>5. NewKey(e, old) \in ArgumentKeys
    <3> DEFINE W == KeyWords
               key == e.key
    <3>1. key \in Seq(W) /\ w \in Seq(W) BY <1>2, <2>4 DEF ArgumentKeys
    <3> HIDE DEF W, key, w
    <3>2. key \o w \in Seq(W) BY <3>1
    <3> QED BY <3>1, <3>2 DEF NewKey, W, key, w, ArgumentKeys
  <2>6. Append(path, w) \in Seq(N) /\ IsPrefix(path, Append(path, w))
    <3> HIDE DEF N, path, w
    <3> QED BY <2>3, PrefixFacts
  <2> HIDE DEF w, path
  <2>7. Slot("body_field", Append(path, w)) \in Slots BY <2>6 DEF Slot, Slots, SlotKinds
  <2>8. <<>> \in Seq(N) OBVIOUS
  <2> HIDE DEF t
  <2>9. t \in Props BY <2>2, <2>5, <2>7, <2>8 DEF Props
  <2>10. BindingOf(t) \in Bindings BY <2>2, <2>5, <2>7 DEF BindingOf, Bindings
  <2>11. Within(t.slot, e.slot) BY <2>1, <2>2, <2>6 DEF Within, Slot, path
  <2> QED BY <1>3, <2>1, <2>2, <2>9, <2>10, <2>11 DEF t
<1>4. CASE ~IsWrapper(e, old)
  <2>1. t = e BY <1>4 DEF Unwrapped
  <2>2. BindingOf(e) \in Bindings BY <1>2 DEF BindingOf, Bindings
  <2>3. IsPrefix(path, path)
    <3> HIDE DEF N, path
    <3> QED BY <1>2, PrefixFacts
  <2>4. Within(e.slot, e.slot) BY <2>3 DEF Within
  <2> QED BY <1>1, <1>4, <2>1, <2>2, <2>4
<1> QED BY <1>3, <1>4

LEMMA UnwrappedKeys ==
  ASSUME NEW s, NEW P, NEW A, NEW R, Unwraps(s, P, A, R),
         NEW j \in DOMAIN s.props, NEW k \in DOMAIN s.props
  PROVE  LET old == s.bindings
             t(i) == Unwrapped(s.props[i], old)
         IN  /\ t(j).key = t(k).key => j = k
             /\ t(j).key = s.props[k].key => j = k /\ ~IsWrapper(s.props[k], old)
<1> DEFINE old == s.bindings
           e(i) == s.props[i]
           t(i) == Unwrapped(e(i), old)
<1>1. \A i \in {j, k} : /\ IsWrapper(e(i), old) => t(i).key = NewKey(e(i), old)
                                                   /\ NewKey(e(i), old) \notin Keys(old)
                        /\ ~IsWrapper(e(i), old) => t(i).key = e(i).key
                        /\ e(i).key \in Keys(old)
  <2> SUFFICES ASSUME NEW i \in {j, k}
        PROVE /\ IsWrapper(e(i), old) => t(i).key = NewKey(e(i), old)
                                         /\ NewKey(e(i), old) \notin Keys(old)
              /\ ~IsWrapper(e(i), old) => t(i).key = e(i).key
              /\ e(i).key \in Keys(old)
    OBVIOUS
  <2>1. i \in DOMAIN s.props OBVIOUS
  <2>2. e(i).key \in Keys(old) BY <2>1, OffersTyped DEF Unwraps
  <2>3. IsWrapper(e(i), old) => NewKey(e(i), old) \notin Keys(old) BY <2>1 DEF Unwraps
  <2>4. IsWrapper(e(i), old) => t(i).key = NewKey(e(i), old) BY <2>1, UnwrappedIs
  <2>5. ~IsWrapper(e(i), old) => t(i) = e(i) BY DEF Unwrapped
  <2> HIDE DEF t, e
  <2> QED BY <2>2, <2>3, <2>4, <2>5
<1>2. e(j).key = e(k).key => j = k BY OffersTyped DEF Unwraps
<1>3. j # k /\ IsWrapper(e(j), old) /\ IsWrapper(e(k), old) => NewKey(e(j), old) # NewKey(e(k), old)
  BY DEF Unwraps
<1> HIDE DEF t, e, old
<1>4. t(j).key = t(k).key => j = k BY <1>1, <1>2, <1>3
<1>5. t(j).key = e(k).key => j = k /\ ~IsWrapper(e(k), old) BY <1>1, <1>2
<1> QED BY <1>4, <1>5 DEF t, e, old

\* Where the loop of apply_flatten_wrappers is after the first i properties.
FlatAt(s, i, d) ==
  LET old == s.bindings
      Became(k) == Unwrapped(s.props[k], old)
  IN  /\ d \in [props : Seq(Props), bindings : Seq(Bindings)]
      /\ IsDict(d.bindings)
      /\ Range(d.props) = {Became(k) : k \in 1..i}
      /\ Range(d.bindings) = {BindingOf(Became(k)) : k \in 1..i}
                               \cup {BindingOf(s.props[k]) : k \in (i + 1)..Len(s.props)}

LEMMA FlattenStep ==
  ASSUME NEW s, NEW P, NEW A, NEW R, Unwraps(s, P, A, R),
         NEW i \in 1..Len(s.props), NEW d, FlatAt(s, i - 1, d)
  PROVE  FlatAt(s, i, FlattenProperty(d, s.props[i], s.bindings))
<1> DEFINE old == s.bindings
           n == Len(s.props)
           E(k) == s.props[k]
           T(k) == Unwrapped(E(k), old)
           Before == {BindingOf(T(k)) : k \in 1..(i - 1)}
           After == {BindingOf(E(k)) : k \in (i + 1)..n}
           new == FlattenProperty(d, E(i), old)
<1>1. n \in Nat /\ DOMAIN s.props = 1..n BY OffersTyped DEF Unwraps
<1>2. /\ \A k \in 1..i : k = i \/ k \in 1..(i - 1)
      /\ 1..(i - 1) \subseteq 1..i /\ i \in 1..i /\ 1..i \subseteq 1..n
      /\ \A k \in i..n : k = i \/ k \in (i + 1)..n
      /\ (i + 1)..n \subseteq i..n /\ i \in i..n /\ i..n \subseteq 1..n
      /\ i \notin 1..(i - 1) /\ i \notin (i + 1)..n /\ i - 1 + 1 = i
  BY <1>1
<1>3. /\ d \in [props : Seq(Props), bindings : Seq(Bindings)] /\ IsDict(d.bindings)
      /\ Range(d.props) = {T(k) : k \in 1..(i - 1)}
      /\ Range(d.bindings) = Before \cup {BindingOf(E(k)) : k \in i..n}
  BY <1>2 DEF FlatAt
<1>4. {BindingOf(E(k)) : k \in i..n} = {BindingOf(E(i))} \cup After BY <1>2
<1>5. Range(d.bindings) = Before \cup {BindingOf(E(i))} \cup After BY <1>3, <1>4
<1>6. {T(k) : k \in 1..i} = {T(k) : k \in 1..(i - 1)} \cup {T(i)} BY <1>2
<1>7. {BindingOf(T(k)) : k \in 1..i} = Before \cup {BindingOf(T(i))} BY <1>2
<1>8. \A k \in 1..n : (T(k).key = T(i).key => k = i) /\ (T(k).key = E(i).key => k = i /\ ~IsWrapper(E(i), old))
  BY <1>1, <1>2, UnwrappedKeys
<1>9. \A k \in 1..n : (E(k).key = E(i).key => k = i)
                      /\ (T(i).key = E(k).key => k = i /\ ~IsWrapper(E(i), old))
  <2>1. \A k \in 1..n : E(k).key = E(i).key => k = i BY <1>1, <1>2, OffersTyped DEF Unwraps
  <2>2. \A k \in 1..n : T(i).key = E(k).key => k = i /\ ~IsWrapper(E(k), old)
    BY <1>1, <1>2, UnwrappedKeys
  <2> HIDE DEF E, T, n
  <2> QED BY <2>1, <2>2
<1>10. T(i) \in Props /\ BindingOf(T(i)) \in Bindings BY <1>1, <1>2, UnwrappedIs
<1>11. \A e : BindingOf(e).key = e.key BY DEF BindingOf
<1>12. d.props \in Seq(Props) /\ d.bindings \in Seq(Bindings)
       /\ d = [props |-> d.props, bindings |-> d.bindings]
  BY <1>3
<1>13. Put(d.props, T(i)) \in Seq(Props) /\ Range(Put(d.props, T(i))) = {T(k) : k \in 1..i}
  <2> DEFINE q == Put(d.props, T(i))
  <2>1. q \in Seq(Props) /\ Range(q) = {x \in Range(d.props) : x.key # T(i).key} \cup {T(i)}
    BY <1>10, <1>12, PutEntries
  <2>2. \A x \in Range(d.props) : x.key # T(i).key
    <3> SUFFICES ASSUME NEW k \in 1..(i - 1) PROVE T(k).key # T(i).key BY <1>3
    <3> HIDE DEF T, n
    <3> QED BY <1>2, <1>8
  <2> HIDE DEF q, T
  <2>3. q \in Seq(Props) /\ Range(q) = {T(k) : k \in 1..i} BY <1>3, <1>6, <2>1, <2>2
  <2> QED BY <2>3 DEF q
<1>14. \A b \in Before : b.key # E(i).key /\ b.key # T(i).key
  <2> SUFFICES ASSUME NEW k \in 1..(i - 1) PROVE T(k).key # E(i).key /\ T(k).key # T(i).key
    BY <1>11
  <2> HIDE DEF T, E, n
  <2> QED BY <1>2, <1>8
<1>15. \A b \in After : b.key # E(i).key /\ b.key # T(i).key
  <2> SUFFICES ASSUME NEW k \in (i + 1)..n PROVE E(k).key # E(i).key /\ E(k).key # T(i).key
    BY <1>11
  <2> HIDE DEF T, E, n
  <2> QED BY <1>2, <1>9
<1>16. CASE IsWrapper(E(i), old)
  <2> DEFINE b == BindingOf(T(i))
             p == Put(d.bindings, b)
             q == Drop(p, E(i).key)
  <2>1. T(i) = [key |-> NewKey(E(i), old), inner |-> <<>>,
                slot |-> Slot("body_field", Append(E(i).slot.path, E(i).inner[1]))]
    BY <1>16 DEF Unwrapped
  <2>2. Lookup(old, E(i).key).slot = E(i).slot
    <3>1. i \in DOMAIN s.props BY <1>1, <1>2
    <3> QED BY <3>1, OffersTyped DEF Unwraps
  <2>3. b = [key |-> NewKey(E(i), old),
             slot |-> Slot("body_field", Append(Lookup(old, E(i).key).slot.path, E(i).inner[1]))]
    BY <2>1, <2>2 DEF BindingOf
  <2>4. new = [props |-> Put(d.props, T(i)), bindings |-> q]
    BY <1>16, <2>1, <2>3 DEF FlattenProperty, NewKey
  <2> HIDE DEF new, T, E, b, old, Before, After, n
  <2>5. b.key = T(i).key /\ b \in Bindings BY <1>10, <1>11 DEF b
  <2>6. p \in Seq(Bindings) /\ IsDict(p) /\ Range(p) = {x \in Range(d.bindings) : x.key # b.key} \cup {b}
    BY <1>3, <1>12, <2>5, PutEntries
  <2>7. BindingOf(E(i)).key = E(i).key /\ E(i).key # T(i).key
    <3>1. i \in 1..n BY <1>2
    <3> QED BY <1>9, <1>11, <1>16, <3>1
  <2>8. Range(p) = Before \cup {BindingOf(E(i))} \cup After \cup {b}
    <3> HIDE DEF p
    <3> QED BY <1>5, <1>14, <1>15, <2>5, <2>6, <2>7
  <2>9. q \in Seq(Bindings) /\ IsDict(q) /\ Range(q) = {x \in Range(p) : x.key # E(i).key}
    <3> HIDE DEF p
    <3> QED BY <2>6, DropEntries
  <2>10. Range(q) = Before \cup {b} \cup After
    <3> HIDE DEF p, q
    <3> QED BY <1>14, <1>15, <2>5, <2>7, <2>8, <2>9
  <2> HIDE DEF q, p
  <2>11. new.props = Put(d.props, T(i)) /\ new.bindings = q
         /\ new \in [props : Seq(Props), bindings : Seq(Bindings)]
    BY <1>13, <2>4, <2>9
  <2>12. Range(new.bindings) = {BindingOf(T(k)) : k \in 1..i} \cup After
    BY <1>7, <2>10, <2>11 DEF b
  <2>13. Range(new.props) = {T(k) : k \in 1..i} BY <1>13, <2>11
  <2>14. IsDict(new.bindings) BY <2>9, <2>11
  <2> QED BY <2>11, <2>12, <2>13, <2>14 DEF FlatAt, new, T, E, old, After, n
<1>17. CASE ~IsWrapper(E(i), old)
  <2>1. T(i) = E(i) BY <1>17 DEF Unwrapped
  <2>2. new = [d EXCEPT !.props = Put(@, E(i))] BY <1>17 DEF FlattenProperty
  <2> HIDE DEF new, T, E, old, Before, After, n
  <2>3. new.props = Put(d.props, T(i)) /\ new.bindings = d.bindings
        /\ new \in [props : Seq(Props), bindings : Seq(Bindings)]
    BY <1>12, <1>13, <2>1, <2>2
  <2>4. Range(new.bindings) = {BindingOf(T(k)) : k \in 1..i} \cup After
    BY <1>5, <1>7, <2>1, <2>3
  <2>5. Range(new.props) = {T(k) : k \in 1..i} BY <1>13, <2>3
  <2>6. IsDict(new.bindings) BY <1>3, <2>3
  <2> QED BY <2>3, <2>4, <2>5, <2>6 DEF FlatAt, new, T, E, old, After, n
<1> QED BY <1>16, <1>17

LEMMA PropertiesFlattened ==
  ASSUME NEW s, NEW P, NEW A, NEW R, Unwraps(s, P, A, R)
  PROVE  FlatAt(s, Len(s.props), FlattenProperties(s))
<1> DEFINE n == Len(s.props)
           D == [props : Seq(Props), bindings : Seq(Bindings)]
           start == [props |-> <<>>, bindings |-> s.bindings]
           G == {q \in (0..n) \X D : FlatAt(s, q[1], q[2])}
<1>1. n \in Nat /\ s.props \in Seq(Props) /\ s.bindings \in Seq(Bindings)
      /\ DOMAIN s.props = 1..n /\ DOMAIN s.bindings = 1..n /\ IsDict(s.bindings)
  BY OffersTyped DEF Unwraps
<1>2. \A i \in 0..n, d \in D : FlatAt(s, i, d) => <<i, d>> \in G OBVIOUS
<1>3. \A i, d : <<i, d>> \in G => i \in 0..n /\ d \in D /\ FlatAt(s, i, d) OBVIOUS
<1>4. G \in SUBSET ((0..n) \X D) OBVIOUS
<1>5. FlatAt(s, 0, start)
  <2>1. start \in D BY <1>1
  <2>2. 1..0 = {} /\ 0 + 1 = 1 OBVIOUS
  <2>3. Range(start.props) = {} BY DEF Range
  <2>4. \A k \in 1..n : s.bindings[k] = BindingOf(s.props[k])
    <3> SUFFICES ASSUME NEW k \in 1..n PROVE s.bindings[k] = BindingOf(s.props[k]) OBVIOUS
    <3>1. s.props[k].key = s.bindings[k].key /\ s.props[k].slot = s.bindings[k].slot
      BY <1>1, OffersTyped DEF Unwraps
    <3>2. s.bindings[k] \in Bindings
      <4> DEFINE bs == s.bindings
                 B == Bindings
      <4>1. bs \in Seq(B) /\ k \in DOMAIN bs BY <1>1
      <4> HIDE DEF B, bs, n
      <4>2. bs[k] \in B BY <4>1
      <4> QED BY <4>2 DEF B, bs
    <3> QED BY <3>1, <3>2 DEF BindingOf, Bindings
  <2>5. Range(s.bindings) = {BindingOf(s.props[k]) : k \in 1..n}
    BY ONLY <1>1, <2>4 DEF Range
  <2>6. start.bindings = s.bindings OBVIOUS
  <2> HIDE DEF start
  <2> QED BY <1>1, <2>1, <2>2, <2>3, <2>5, <2>6 DEF FlatAt
<1>6. start \in D BY <1>1
<1> HIDE DEF G
<1>7. <<0, start>> \in G
  <2>1. 0 \in 0..n BY <1>1
  <2> HIDE DEF start, D, n
  <2> QED BY <1>2, <1>5, <1>6, <2>1
<1>8. \A i \in 1..n, d \in D :
        <<i - 1, d>> \in G => <<i, FlattenProperty(d, s.props[i], s.bindings)>> \in G
  <2> SUFFICES ASSUME NEW i \in 1..n, NEW d \in D, <<i - 1, d>> \in G
               PROVE  <<i, FlattenProperty(d, s.props[i], s.bindings)>> \in G
    OBVIOUS
  <2> DEFINE t == FlattenProperty(d, s.props[i], s.bindings)
  <2>1. FlatAt(s, i - 1, d) BY <1>3
  <2>2. FlatAt(s, i, t) BY <2>1, FlattenStep
  <2>3. t \in D BY <2>2 DEF FlatAt
  <2>4. i \in 0..n BY <1>1
  <2> HIDE DEF t, D, n
  <2> QED BY <1>2, <2>2, <2>3, <2>4 DEF t
<1> HIDE DEF D
<1>9. <<n, FlattenProperties(s)>> \in G
  BY <1>1, <1>4, <1>7, <1>8, FlattenInduces
<1> QED BY <1>3, <1>9

\* Only the binding that a wrapper became is below the wrapper's place.
LEMMA HeirIsUnique ==
  ASSUME NEW s, NEW P, NEW A, NEW R, Unwraps(s, P, A, R),
         NEW k \in DOMAIN s.props, IsWrapper(s.props[k], s.bindings),
         NEW j \in DOMAIN s.props
  PROVE  IsPrefix(s.props[k].slot.path, Unwrapped(s.props[j], s.bindings).slot.path) <=> j = k
<1> DEFINE old == s.bindings
           path == s.props[k].slot.path
           t == Unwrapped(s.props[j], old)
           N == RawNames
           a == s.props[j].slot
           c == s.props[k].slot
<1>1. FlatSlots(A) /\ a \in A /\ c \in A BY OffersTyped DEF Unwraps
<1>2. c.kind = "body_field" BY UnwrappedIs
<1>3. t \in Props /\ Within(t.slot, a) BY UnwrappedIs
<1>4. a \in Slots /\ c \in Slots BY <1>1 DEF FlatSlots
<1>5. t.slot \in Slots BY <1>3 DEF Props
<1>6. path \in Seq(N) /\ Len(path) = 1 BY <1>1, <1>2, <1>4 DEF FlatSlots, Slots
<1>7. a.path \in Seq(N) /\ t.slot.path \in Seq(N) /\ Len(a.path) <= 1
  BY <1>1, <1>4, <1>5 DEF FlatSlots, Slots
<1>8. ASSUME j = k PROVE IsPrefix(path, t.slot.path) BY <1>3, <1>8 DEF Within
<1>9. ASSUME IsPrefix(path, t.slot.path) PROVE j = k
  <2>1. t.slot.path[1] = path[1] /\ Len(t.slot.path) >= 1
    <3> HIDE DEF N, t, path
    <3> QED BY <1>6, <1>7, <1>9, PrefixFacts
  <2>2. CASE a.kind = "body_field"
    <3>1. Len(a.path) = 1 /\ IsPrefix(a.path, t.slot.path) BY <1>1, <1>3, <2>2 DEF FlatSlots, Within
    <3>2. a.path[1] = path[1]
      <4> HIDE DEF N, t, path, a
      <4> QED BY <1>7, <2>1, <3>1, PrefixFacts
    <3>3. a.path = path
      <4> HIDE DEF N, path, a
      <4> QED BY <1>6, <1>7, <3>1, <3>2, PrefixFacts
    <3>4. a = c BY <1>2, <1>4, <2>2, <3>3 DEF Slots
    <3> QED BY <3>4, OffersTyped DEF Unwraps
  <2>3. CASE a.kind # "body_field"
    <3>1. t.slot = a BY <1>3, <2>3 DEF Within
    <3>2. a.path # path BY <1>1, <2>3 DEF Unwraps
    <3>3. Len(a.path) = 1
      <4> HIDE DEF N, a, t
      <4>1. Len(a.path) \in Nat BY <1>7
      <4>2. Len(a.path) >= 1 BY <2>1, <3>1
      <4>3. Len(a.path) <= 1 BY <1>7
      <4>4. \A l \in Nat : l <= 1 /\ l >= 1 => l = 1 OBVIOUS
      <4> QED BY <4>1, <4>2, <4>3, <4>4, Zenon
    <3>4. a.path = path
      <4> HIDE DEF N, path, a, t
      <4> QED BY <1>6, <1>7, <2>1, <3>1, <3>3, PrefixFacts
    <3> QED BY <3>2, <3>4
  <2> QED BY <2>2, <2>3
<1> HIDE DEF t, path
<1> QED BY <1>8, <1>9 DEF t, path, old

\* The key under which the entry of the list of required arguments goes on.
Heirs(r, old, new) ==
  Keep(new, {b \in Range(new) : IsPrefix(Lookup(old, r).slot.path, b.slot.path)})

RequiredKept(r, old, new) ==
  IF r \in Keys(new) THEN <<r>>
  ELSE IF Heirs(r, old, new) # <<>> THEN <<Heirs(r, old, new)[1].key>> ELSE <<>>

LEMMA KeyIsKept ==
  ASSUME NEW s, NEW P, NEW A, NEW R, Unwraps(s, P, A, R),
         NEW new, new \in Seq(Bindings),
         Range(new) = {BindingOf(Unwrapped(s.props[k], s.bindings)) : k \in DOMAIN s.props},
         NEW k \in DOMAIN s.props
  PROVE  RequiredKept(s.props[k].key, s.bindings, new)
           = <<Unwrapped(s.props[k], s.bindings).key>>
<1> DEFINE old == s.bindings
           E(i) == s.props[i]
           T(i) == Unwrapped(E(i), old)
           r == E(k).key
<1>1. Keys(new) = {T(i).key : i \in DOMAIN s.props}
  <2>1. Keys(new) = {x.key : x \in Range(new)} BY DEF Keys, Range
  <2>2. \A i : BindingOf(T(i)).key = T(i).key BY DEF BindingOf
  <2>3. Range(new) = {BindingOf(T(i)) : i \in DOMAIN s.props} OBVIOUS
  <2> HIDE DEF T
  <2>4. \A x \in Keys(new) : \E i \in DOMAIN s.props : x = T(i).key BY ONLY <2>1, <2>2, <2>3
  <2>5. \A i \in DOMAIN s.props : T(i).key \in Keys(new)
    <3> SUFFICES ASSUME NEW i \in DOMAIN s.props PROVE T(i).key \in Keys(new) OBVIOUS
    <3>1. BindingOf(T(i)) \in Range(new) BY ONLY <2>3, i \in DOMAIN s.props
    <3> QED BY ONLY <2>1, <2>2, <3>1
  <2> QED BY ONLY <2>4, <2>5
<1>2. \A i \in DOMAIN s.props : T(i).key = r => i = k /\ ~IsWrapper(E(k), old)
  BY UnwrappedKeys
<1>3. CASE ~IsWrapper(E(k), old)
  <2>1. T(k) = E(k) BY <1>3 DEF Unwrapped
  <2>2. r \in Keys(new) BY <1>1, <2>1
  <2> QED BY <2>1, <2>2 DEF RequiredKept
<1>4. CASE IsWrapper(E(k), old)
  <2> DEFINE path == Lookup(old, r).slot.path
             S == {b \in Range(new) : IsPrefix(path, b.slot.path)}
             heirs == Keep(new, S)
             h == BindingOf(T(k))
  <2>1. r \notin Keys(new)
    <3> HIDE DEF T, E
    <3> QED BY <1>1, <1>2, <1>4
  <2>2. path = E(k).slot.path BY OffersTyped DEF Unwraps
  <2>3. \A i \in DOMAIN s.props : IsPrefix(path, T(i).slot.path) <=> i = k
    BY <1>4, <2>2, HeirIsUnique
  <2>4. \A i : BindingOf(T(i)).slot = T(i).slot /\ BindingOf(T(i)).key = T(i).key BY DEF BindingOf
  <2>5. S = {h}
    <3>1. Range(new) = {BindingOf(T(i)) : i \in DOMAIN s.props} OBVIOUS
    <3> HIDE DEF T, path
    <3> QED BY <2>3, <2>4, <3>1
  <2>6. h \in Range(new) OBVIOUS
  <2> HIDE DEF S, h
  <2>7. Range(heirs) = {h}
    <3>1. Range(heirs) = Range(new) \cap S BY KeepDict
    <3> HIDE DEF heirs
    <3> QED BY <2>5, <2>6, <3>1
  <2>8. (\E i \in DOMAIN heirs : heirs[i] = h) /\ \A i \in DOMAIN heirs : heirs[i] = h
    <3> HIDE DEF heirs
    <3> QED BY ONLY <2>7 DEF Range
  <2>9. heirs \in Seq(Bindings) BY KeepTyped
  <2> HIDE DEF heirs
  <2>10. heirs # <<>> /\ heirs[1] = h
    <3>1. heirs # <<>> BY <2>8
    <3>2. 1 \in DOMAIN heirs BY <2>9, <3>1
    <3> QED BY <2>8, <3>1, <3>2
  <2>11. Heirs(r, old, new) = heirs BY DEF Heirs, heirs, S
  <2>12. RequiredKept(r, old, new) = <<h.key>>
    <3> HIDE DEF r, old
    <3> QED BY <2>1, <2>10, <2>11 DEF RequiredKept
  <2> QED BY <2>4, <2>12 DEF h
<1> QED BY <1>3, <1>4

LEMMA RequiredFlattened ==
  ASSUME NEW s, NEW P, NEW A, NEW R, Unwraps(s, P, A, R),
         NEW new, new \in Seq(Bindings),
         Range(new) = {BindingOf(Unwrapped(s.props[k], s.bindings)) : k \in DOMAIN s.props}
  PROVE  LET q == FlattenRequired(s.required, s.bindings, new)
         IN  /\ DOMAIN q = DOMAIN s.required
             /\ \A i \in DOMAIN q : \E k \in DOMAIN s.props :
                  s.required[i] = s.props[k].key /\ q[i] = Unwrapped(s.props[k], s.bindings).key
<1> DEFINE old == s.bindings
           required == s.required
           T(k) == Unwrapped(s.props[k], old)
           At(i, k) == k \in DOMAIN s.props /\ required[i] = s.props[k].key
           K(i) == CHOOSE k : At(i, k)
           q == [i \in DOMAIN required |-> T(K(i)).key]
           U == ArgumentKeys
<1>1. required \in Seq(U) /\ DOMAIN required = 1..Len(required) /\ Len(required) \in Nat
  BY OffersTyped DEF Unwraps
<1>2. \A i \in DOMAIN required : At(i, K(i))
  <2> SUFFICES ASSUME NEW i \in DOMAIN required PROVE \E k : At(i, k) OBVIOUS
  <2>1. required[i] \in Keys(s.bindings) BY DEF Unwraps, Offers
  <2>2. PICK k \in DOMAIN s.bindings : s.bindings[k].key = required[i] BY <2>1 DEF Keys
  <2>3. k \in DOMAIN s.props /\ s.props[k].key = s.bindings[k].key
    BY <2>2, OffersTyped DEF Unwraps
  <2> QED BY <2>2, <2>3
<1>3. \A k \in DOMAIN s.props : T(k).key \in U
  <2> SUFFICES ASSUME NEW k \in DOMAIN s.props PROVE T(k).key \in U OBVIOUS
  <2>1. T(k) \in Props BY UnwrappedIs
  <2> QED BY <2>1 DEF Props
<1>4. \A k \in DOMAIN s.props : RequiredKept(s.props[k].key, old, new) = <<T(k).key>>
  BY KeyIsKept
<1>5. FlattenRequired(required, old, new)
        = FlattenSeq([i \in DOMAIN required |-> RequiredKept(required[i], old, new)])
  BY Zenon DEF FlattenRequired, RequiredKept, Heirs
<1> HIDE DEF K, T, U
<1>6. q \in Seq(U) /\ DOMAIN q = DOMAIN required
  <2>1. \A i \in DOMAIN required : T(K(i)).key \in U BY <1>2, <1>3
  <2> QED BY <1>1, <2>1
<1>7. \A i \in DOMAIN required : RequiredKept(required[i], old, new) = <<q[i]>>
  BY <1>2, <1>4
<1>8. [i \in DOMAIN required |-> RequiredKept(required[i], old, new)] = [i \in DOMAIN q |-> <<q[i]>>]
  <2> DEFINE F(i) == RequiredKept(required[i], old, new)
  <2>1. \A i \in DOMAIN required : F(i) = <<q[i]>> BY <1>7
  <2> HIDE DEF F, q
  <2>2. [i \in DOMAIN required |-> F(i)] = [i \in DOMAIN q |-> <<q[i]>>] BY <1>6, <2>1
  <2> QED BY <2>2 DEF F
<1>9. FlattenRequired(required, old, new) = q
  <2> HIDE DEF q
  <2> QED BY <1>5, <1>6, <1>8, FlattenSingletons
<1>10. \A i \in DOMAIN required : required[i] = s.props[K(i)].key /\ q[i] = T(K(i)).key
                                  /\ K(i) \in DOMAIN s.props
  BY <1>2
<1> HIDE DEF q, At
<1> QED BY <1>6, <1>9, <1>10 DEF T, old, required

LEMMA FlattenedIsComplete ==
  ASSUME NEW s, NEW P, NEW A, NEW R, Unwraps(s, P, A, R)
  PROVE  Complete(FlattenWrappers(s), A, R)
<1>1. CASE s.props = <<>>
  <2>1. FlattenWrappers(s) = s BY <1>1 DEF FlattenWrappers
  <2> QED BY <2>1, OffersIsComplete DEF Unwraps
<1>2. CASE s.props # <<>>
  <2> DEFINE flat == FlattenProperties(s)
             old == s.bindings
             D == DOMAIN s.props
             E(k) == s.props[k]
             T(k) == Unwrapped(E(k), old)
             bs == flat.bindings
             ps == flat.props
             q == FlattenRequired(s.required, old, bs)
             w == FlattenWrappers(s)
  <2>1. FlatAt(s, Len(s.props), flat) BY PropertiesFlattened
  <2>2. Len(s.props) \in Nat /\ D = 1..Len(s.props) /\ (Len(s.props) + 1)..Len(s.props) = {}
    <3>1. Len(s.props) \in Nat /\ D = 1..Len(s.props) BY OffersTyped DEF Unwraps
    <3>2. \A n \in Nat : (n + 1)..n = {} OBVIOUS
    <3> QED BY <3>1, <3>2
  <2>3. /\ bs \in Seq(Bindings) /\ IsDict(bs)
        /\ Range(ps) = {T(k) : k \in D}
        /\ Range(bs) = {BindingOf(T(k)) : k \in D}
    <3> HIDE DEF flat
    <3> QED BY <2>1, <2>2 DEF FlatAt
  <2>4. w.props = ps /\ w.bindings = bs /\ w.required = q BY <1>2 DEF FlattenWrappers
  <2>5. \A k \in D : /\ T(k) \in Props /\ T(k).slot \in Slots
                     /\ Within(T(k).slot, E(k).slot)
                     /\ E(k).slot \in A
    <3>1. \A k \in D : T(k) \in Props /\ Within(T(k).slot, E(k).slot) BY UnwrappedIs
    <3>2. \A k \in D : T(k).slot \in Slots BY <3>1 DEF Props
    <3>3. \A k \in D : E(k).slot \in A BY OffersTyped DEF Unwraps
    <3> QED BY <3>1, <3>2, <3>3
  <2>6. \A j, k \in D : (E(j).key = E(k).key \/ E(j).slot = E(k).slot => j = k)
                        /\ (T(j).key = T(k).key => j = k)
    <3>1. \A j, k \in D : E(j).key = E(k).key \/ E(j).slot = E(k).slot => j = k
      BY OffersTyped DEF Unwraps
    <3>2. \A j, k \in D : T(j).key = T(k).key => j = k BY UnwrappedKeys
    <3> QED BY <3>1, <3>2
  <2>7. \A k : BindingOf(T(k)).key = T(k).key /\ BindingOf(T(k)).slot = T(k).slot BY DEF BindingOf
  <2>8. FlatSlots(A) BY DEF Unwraps
  <2>9. DOMAIN q = DOMAIN s.required
        /\ \A i \in DOMAIN q : \E k \in D : s.required[i] = E(k).key /\ q[i] = T(k).key
    <3> HIDE DEF flat
    <3> QED BY <2>3, RequiredFlattened
  <2>10. \A a \in A : \E k \in D : E(k).slot = a
    <3>1. \A k \in D : E(k).slot = old[k].slot /\ D = DOMAIN old BY OffersTyped DEF Unwraps
    <3>2. DOMAIN old = 1..Len(old) BY OffersTyped DEF Unwraps
    <3>3. \A a \in A : \E k \in 1..Len(old) : old[k].slot = a BY DEF Unwraps, Offers
    <3>4. D = DOMAIN old BY OffersTyped DEF Unwraps
    <3> QED BY <3>1, <3>2, <3>3, <3>4
  <2>11. IsInjective(s.required)
         /\ \A a \in R : \E i \in DOMAIN s.required, k \in D :
              s.required[i] = E(k).key /\ E(k).slot = a
    <3>1. IsInjective(s.required) BY DEF Unwraps, Offers
    <3>2. \A a \in R : \E i \in DOMAIN s.required, k \in 1..Len(old) :
            s.required[i] = old[k].key /\ old[k].slot = a
      BY DEF Unwraps, Offers
    <3>3. D = DOMAIN old /\ DOMAIN old = 1..Len(old) BY OffersTyped DEF Unwraps
    <3>4. \A k \in D : E(k).key = old[k].key /\ E(k).slot = old[k].slot
      BY OffersTyped DEF Unwraps
    <3> HIDE DEF D, E, old
    <3> QED BY <3>1, <3>2, <3>3, <3>4
  <2> HIDE DEF flat, w, q, ps, bs, T, E, D, old
  <2>12. \A x \in DOMAIN bs : \E k \in D : bs[x] = BindingOf(T(k))
    BY <2>3 DEF Range
  <2>13. \A k \in D : \E x \in DOMAIN bs : bs[x] = BindingOf(T(k))
    <3> SUFFICES ASSUME NEW k \in D PROVE \E x \in DOMAIN bs : bs[x] = BindingOf(T(k)) OBVIOUS
    <3>1. BindingOf(T(k)) \in Range(bs) BY <2>3
    <3> QED BY <3>1 DEF Range
  <2>14. Separate(bs)
    <3>1. \A x \in DOMAIN bs : bs[x].slot \in Slots BY <2>5, <2>7, <2>12
    <3>2. ASSUME NEW x \in DOMAIN bs, NEW y \in DOMAIN bs, x # y PROVE Apart(bs[x].slot, bs[y].slot)
      <4>1. PICK j \in D : bs[x] = BindingOf(T(j)) BY <2>12
      <4>2. PICK k \in D : bs[y] = BindingOf(T(k)) BY <2>12
      <4>3. j # k BY <2>3, <3>2, <4>1, <4>2 DEF IsDict
      <4>4. E(j).slot # E(k).slot BY <2>6, <4>3
      <4>5. Apart(T(j).slot, T(k).slot) BY <2>5, <2>8, <4>4, WithinApart
      <4> QED BY <2>7, <4>1, <4>2, <4>5
    <3> QED BY <3>1, <3>2 DEF Separate
  <2>15. \A e \in Range(ps) : \E k \in DOMAIN bs : bs[k].key = e.key /\ bs[k].slot = e.slot
    <3> SUFFICES ASSUME NEW j \in D
                 PROVE  \E k \in DOMAIN bs : bs[k].key = T(j).key /\ bs[k].slot = T(j).slot
      BY <2>3
    <3> QED BY <2>7, <2>13
  <2>16. \A a \in A : \E e \in Range(ps) : Within(e.slot, a)
    <3> SUFFICES ASSUME NEW a \in A PROVE \E e \in Range(ps) : Within(e.slot, a) OBVIOUS
    <3>1. PICK k \in D : E(k).slot = a BY <2>10
    <3>2. T(k) \in Range(ps) BY <2>3
    <3> QED BY <2>5, <3>1, <3>2
  <2>17. IsInjective(q)
    <3> SUFFICES ASSUME NEW i \in DOMAIN q, NEW j \in DOMAIN q, q[i] = q[j] PROVE i = j
      BY DEF IsInjective
    <3>1. PICK k \in D : s.required[i] = E(k).key /\ q[i] = T(k).key BY <2>9
    <3>2. PICK l \in D : s.required[j] = E(l).key /\ q[j] = T(l).key BY <2>9
    <3>3. k = l BY <2>6, <3>1, <3>2
    <3>4. s.required[i] = s.required[j] BY <3>1, <3>2, <3>3
    <3> QED BY <2>9, <2>11, <3>4 DEF IsInjective
  <2>18. \A a \in R : \E i \in DOMAIN q, x \in DOMAIN bs : q[i] = bs[x].key /\ Within(bs[x].slot, a)
    <3> SUFFICES ASSUME NEW a \in R
                 PROVE  \E i \in DOMAIN q, x \in DOMAIN bs : q[i] = bs[x].key /\ Within(bs[x].slot, a)
      OBVIOUS
    <3>1. PICK i \in DOMAIN s.required, k \in D : s.required[i] = E(k).key /\ E(k).slot = a
      BY <2>11
    <3>2. PICK l \in D : s.required[i] = E(l).key /\ q[i] = T(l).key BY <2>9
    <3>3. l = k BY <2>6, <3>1, <3>2
    <3>4. PICK x \in DOMAIN bs : bs[x] = BindingOf(T(k)) BY <2>13
    <3>5. q[i] = bs[x].key /\ Within(bs[x].slot, a)
      BY <2>5, <2>7, <3>1, <3>2, <3>3, <3>4
    <3> QED BY <2>9, <3>5
  <2>19. Complete(w, A, R)
    BY <2>3, <2>4, <2>14, <2>15, <2>16, <2>17, <2>18 DEF Complete
  <2> QED BY <2>19 DEF w
<1> QED BY <1>1, <1>2

(***************************************************************************)
(* Simplification without clashes.                                         *)
(***************************************************************************)

LEMMA InputsAreFlat ==
  ASSUME NEW op, SoundOperation(op),
         NEW A, A \subseteq Slots, A \subseteq Inputs(op) \cup {Slot("body_root", <<>>)}
  PROVE  FlatSlots(A)
<1> SUFFICES ASSUME NEW a \in A
             PROVE  Len(a.path) <= 1 /\ (a.kind = "body_field" => Len(a.path) = 1)
  BY DEF FlatSlots
<1>1. CASE \E p : a = Slot(p.in, <<p.name>>) BY <1>1 DEF Slot
<1>2. CASE \E f : a = Slot("body_field", <<f.name>>) BY <1>2 DEF Slot
<1>3. CASE a = Slot("body_root", <<>>)
  <2>1. a.path = <<>> /\ a.kind = "body_root" BY <1>3 DEF Slot
  <2>2. Len(<<>>) = 0 OBVIOUS
  <2> QED BY <2>1, <2>2
<1> QED BY <1>1, <1>2, <1>3 DEF Inputs

(***************************************************************************)
(* _simplify_one offers and requires all inputs of an operation, under     *)
(* keys that are bound to slots apart, unless metadata or wrapper names    *)
(* clash under the rule concerned.                                         *)
(***************************************************************************)
THEOREM SimplifiedIsComplete ==
  ASSUME NEW op, SoundOperation(op), NEW rules,
         rules.dropSpecMetadata => ~MetadataClash(op),
         rules.flattenWrappers => ~WrapperClash(op)
  PROVE  Complete(SimplifyOne(op, rules), Inputs(op), RequiredInputs(op))
<1> DEFINE s == BuildArgumentMap(op)
           P == OperationProps(op)
           I == Inputs(op)
           R == RequiredInputs(op)
<1>1. PICK A : Offers(s, P, A, R) /\ I \subseteq A /\ A \subseteq I \cup {Slot("body_root", <<>>)}
  BY InputsOffered
<1>2. A \subseteq Slots BY <1>1, OffersTyped
<1>3. FlatSlots(A) BY <1>1, <1>2, InputsAreFlat
<1>4. DropMetadata(s) = s \/ ~rules.dropSpecMetadata BY <1>1, NothingDropped
<1>5. SimplifyOne(op, rules) = IF rules.flattenWrappers THEN FlattenWrappers(s) ELSE s
  BY <1>4 DEF SimplifyOne
<1>6. \A t : Complete(t, A, R) => Complete(t, I, R) BY <1>1 DEF Complete
<1>7. CASE ~rules.flattenWrappers
  <2>1. Complete(s, A, R) BY <1>1, <1>3, OffersIsComplete
  <2> QED BY <1>5, <1>6, <1>7, <2>1
<1>8. CASE rules.flattenWrappers
  <2> DEFINE old == s.bindings
             W(k) == IsWrapper(s.props[k], old)
  <2>1. ~WrapperClash(op) BY <1>8
  <2>2. \A k \in DOMAIN s.props : W(k) =>
          /\ NewKey(s.props[k], old) \notin Keys(old)
          /\ \A j \in DOMAIN s.props : j # k /\ W(j) => NewKey(s.props[j], old) # NewKey(s.props[k], old)
          /\ \A p \in Range(op.parameters) : <<p.name>> # s.props[k].slot.path
    <3> SUFFICES ASSUME NEW k \in DOMAIN s.props, W(k)
          PROVE /\ NewKey(s.props[k], old) \notin Keys(old)
                /\ \A j \in DOMAIN s.props : j # k /\ W(j) => NewKey(s.props[j], old) # NewKey(s.props[k], old)
                /\ \A p \in Range(op.parameters) : <<p.name>> # s.props[k].slot.path
      OBVIOUS
    <3> DEFINE wrappers == {e \in Range(s.props) : IsWrapper(e, old)}
    <3>1. \A e \in wrappers : /\ NewKey(e, old) \notin Keys(old)
                              /\ \A f \in wrappers \ {e} : NewKey(e, old) # NewKey(f, old)
                              /\ \A p \in Range(op.parameters) : <<p.name>> # e.slot.path
      BY <2>1 DEF WrapperClash, NewKey
    <3>2. \A j \in DOMAIN s.props : W(j) => s.props[j] \in wrappers BY DEF Range
    <3>3. \A j \in DOMAIN s.props : j # k => s.props[j] # s.props[k]
      BY <1>1, OffersTyped
    <3> HIDE DEF wrappers, s, old
    <3> QED BY <3>1, <3>2, <3>3
  <2>3. \A k \in DOMAIN s.props : W(k) => \A a \in A : a.kind # "body_field" => a.path # s.props[k].slot.path
    <3> SUFFICES ASSUME NEW k \in DOMAIN s.props, W(k), NEW a \in A, a.kind # "body_field",
                        a.path = s.props[k].slot.path
                 PROVE  FALSE
      OBVIOUS
    <3>1. s.props[k].slot \in A /\ s.props[k].slot.kind = "body_field"
      <4>1. Lookup(old, s.props[k].key).slot = s.props[k].slot /\ s.props[k].slot \in A
        BY <1>1, OffersTyped
      <4> QED BY <4>1 DEF IsWrapper
    <3>2. Len(a.path) = 1 BY <1>3, <3>1 DEF FlatSlots
    <3>3. a # Slot("body_root", <<>>)
      <4>1. Slot("body_root", <<>>).path = <<>> /\ Len(<<>>) = 0 BY DEF Slot
      <4> QED BY <3>2, <4>1
    <3>4. a \notin {Slot("body_field", <<f.name>>) : f \in Fields(op)} BY DEF Slot
    <3>5. a \in {Slot(p.in, <<p.name>>) : p \in Range(op.parameters)}
      BY <1>1, <3>3, <3>4 DEF Inputs
    <3>6. PICK p \in Range(op.parameters) : a = Slot(p.in, <<p.name>>) BY <3>5
    <3>7. a.path = <<p.name>> BY <3>6 DEF Slot
    <3> QED BY <2>2, <3>7
  <2>4. Unwraps(s, P, A, R) BY <1>1, <1>3, <2>2, <2>3 DEF Unwraps
  <2>5. Complete(FlattenWrappers(s), A, R) BY <2>4, FlattenedIsComplete
  <2> QED BY <1>5, <1>6, <1>8, <2>5
<1> QED BY <1>7, <1>8
=============================================================================
