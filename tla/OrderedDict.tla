---------------------------- MODULE OrderedDict ----------------------------
(***************************************************************************)
(* Python dicts whose order matters: a sequence of records with distinct   *)
(* "key" fields.  Assigning to a key that is there keeps its place.        *)
(***************************************************************************)
EXTENDS Lists

Keys(d) == {d[i].key : i \in DOMAIN d}

Lookup(d, k) == d[CHOOSE i \in DOMAIN d : d[i].key = k]

Put(d, e) == IF e.key \in Keys(d)
             THEN [i \in DOMAIN d |-> IF d[i].key = e.key THEN e ELSE d[i]]
             ELSE Append(d, e)

Drop(d, k) == Keep(d, {d[i] : i \in {j \in DOMAIN d : d[j].key # k}})
=============================================================================
