------------------------- MODULE RVAttributes_proofs -------------------------
(***************************************************************************)
(* Proofs about RVAttributes for any objects, attributes, values and       *)
(* changes by other clients.                                               *)
(***************************************************************************)
EXTENDS RVAttributes, FiniteSetTheorems, TLAPS

Attribute == [name : Name, val : Value \cup {Empty, ErrorPage}]

\* The attributes that the server may hold: an object's have different names.
Proper(as) ==
  /\ as \in [Object -> Seq(Attribute)]
  /\ \A o \in Object : \A i, j \in DOMAIN as[o] : as[o][i].name = as[o][j].name => i = j

\* The attributes with a new one of object o.
Created(as, o, n, v) == [as EXCEPT ![o] = Append(@, Attr(n, v))]

\* What an object has, as a set.
Of(as, o) == Range(as[o])

-----------------------------------------------------------------------------
(* Operators. *)

LEMMA Elements ==
  ASSUME NEW S, NEW s \in Seq(S)
  PROVE  Len(s) \in Nat /\ DOMAIN s = 1 .. Len(s) /\ \A i \in DOMAIN s : s[i] \in S
  OBVIOUS

\* An object's attributes are told apart by their names.
LEMMA AttributesOf ==
  ASSUME NEW as, Proper(as), NEW o \in Object
  PROVE  /\ Of(as, o) \subseteq Attribute
         /\ \A x, y \in Of(as, o) : x.name = y.name => x = y
         /\ \A n : Has(as, o, n) <=> \E x \in Of(as, o) : x.name = n
<1> DEFINE s == as[o]
<1>1. s \in Seq(Attribute) /\ \A i, j \in DOMAIN s : s[i].name = s[j].name => i = j
  BY DEF Proper
<1>2. \A i \in DOMAIN s : s[i] \in Attribute
  BY <1>1, Elements
<1>3. Of(as, o) = {s[i] : i \in DOMAIN s} /\ \A n : Has(as, o, n) <=> \E i \in DOMAIN s : s[i].name = n
  BY DEF Of, Range, Has
<1> HIDE DEF s
<1>4. \A x \in Of(as, o) : \E i \in DOMAIN s : x = s[i]
  BY <1>3
<1>5. \A n : Has(as, o, n) <=> \E x \in Of(as, o) : x.name = n
  BY <1>3, Zenon
<1>6. Of(as, o) \subseteq Attribute
  BY <1>2, <1>4
<1>7. \A x, y \in Of(as, o) : x.name = y.name => x = y
  <2> TAKE x, y \in Of(as, o)
  <2>1. PICK i \in DOMAIN s : x = s[i]
    BY <1>4
  <2>2. PICK j \in DOMAIN s : y = s[j]
    BY <1>4
  <2> QED
    BY <1>1, <2>1, <2>2
<1> QED
  BY <1>5, <1>6, <1>7

LEMMA ValueIs ==
  ASSUME NEW as, Proper(as), NEW o \in Object, NEW n, Has(as, o, n)
  PROVE  /\ Position(as, o, n) \in DOMAIN as[o] /\ as[o][Position(as, o, n)].name = n
         /\ Attr(n, ValueOf(as, o, n)) \in Of(as, o)
<1>1. Position(as, o, n) \in DOMAIN as[o] /\ as[o][Position(as, o, n)].name = n
  BY DEF Has, Position
<1>2. as[o][Position(as, o, n)] \in Attribute
  <2>1. as[o] \in Seq(Attribute)
    BY DEF Proper
  <2> QED
    BY <1>1, <2>1, Elements
<1>3. as[o][Position(as, o, n)] = Attr(n, ValueOf(as, o, n))
  BY <1>1, <1>2 DEF Attribute, Attr, ValueOf
<1> QED
  BY <1>1, <1>3 DEF Of, Range

\* One element less, the others in their order.
LEMMA Removed ==
  ASSUME NEW S, NEW s \in Seq(S), NEW p \in DOMAIN s
  PROVE  /\ RemoveAt(s, p) \in Seq(S) /\ Len(RemoveAt(s, p)) = Len(s) - 1
         /\ \A i \in 1 .. Len(s) - 1 : RemoveAt(s, p)[i] = IF i < p THEN s[i] ELSE s[i + 1]
<1> DEFINE u == SubSeq(s, 1, p - 1)
           v == SubSeq(s, p + 1, Len(s))
<1>1. Len(s) \in Nat /\ p \in 1 .. Len(s) /\ \A i \in 1 .. Len(s) : s[i] \in S
  OBVIOUS
<1>2. u \in Seq(S) /\ Len(u) = p - 1 /\ \A i \in 1 .. p - 1 : u[i] = s[i]
  BY <1>1
<1>3. v \in Seq(S) /\ Len(v) = Len(s) - p /\ \A i \in 1 .. Len(s) - p : v[i] = s[p + i]
  BY <1>1
<1> HIDE DEF u, v
<1>4. u \o v \in Seq(S) /\ Len(u \o v) = Len(s) - 1
  BY <1>1, <1>2, <1>3
<1>5. ASSUME NEW i \in 1 .. Len(s) - 1 PROVE (u \o v)[i] = IF i < p THEN s[i] ELSE s[i + 1]
  <2>1. CASE i < p
    <3>1. (u \o v)[i] = u[i]
      BY <1>1, <1>2, <1>3, <2>1
    <3>2. i \in 1 .. p - 1
      BY <1>1, <2>1
    <3>3. u[i] = s[i]
      BY <1>2, <3>2
    <3> QED
      BY <2>1, <3>1, <3>3
  <2>2. CASE i >= p
    <3>1. (u \o v)[i] = v[i - (p - 1)]
      BY SMTT(30), <1>1, <1>2, <1>3, <2>2
    <3>2. i - (p - 1) \in 1 .. Len(s) - p /\ p + (i - (p - 1)) = i + 1
      BY <1>1, <2>2
    <3> QED
      BY SMTT(30), <1>1, <1>3, <2>2, <3>1, <3>2
  <2>3. i < p \/ i >= p
    BY <1>1
  <2> QED
    BY <2>1, <2>2, <2>3, Zenon
<1> QED
  BY <1>4, <1>5 DEF RemoveAt, u, v

LEMMA WithoutOf ==
  ASSUME NEW as, Proper(as), NEW o \in Object, NEW n
  PROVE  /\ Proper(Without(as, o, n))
         /\ \A x \in Object : Of(Without(as, o, n), x) =
              IF x = o THEN {a \in Of(as, o) : a.name # n} ELSE Of(as, x)
<1>1. CASE ~Has(as, o, n)
  BY ZenonT(40), <1>1, AttributesOf DEF Without
<1>2. CASE Has(as, o, n)
  <2> DEFINE p == Position(as, o, n)
             s == as[o]
             r == RemoveAt(s, p)
             new == Without(as, o, n)
  <2>1. s \in Seq(Attribute) /\ p \in DOMAIN s /\ s[p].name = n
    <3>1. s \in Seq(Attribute)
      BY DEF Proper
    <3> QED
      BY <1>2, <3>1, ValueIs
  <2>2. \A i, j \in DOMAIN s : s[i].name = s[j].name => i = j
    BY DEF Proper
  <2>3. new = [as EXCEPT ![o] = r]
    BY <1>2 DEF Without
  <2> HIDE DEF p, s, new
  <2>4. /\ r \in Seq(Attribute) /\ Len(r) = Len(s) - 1
        /\ \A i \in 1 .. Len(s) - 1 : r[i] = IF i < p THEN s[i] ELSE s[i + 1]
    BY <2>1, Removed
  <2> HIDE DEF r
  <2>5. DOMAIN s = 1 .. Len(s) /\ DOMAIN r = 1 .. Len(s) - 1 /\ Len(s) \in Nat
    BY <2>1, <2>4
  <2>6. \A i, j \in DOMAIN r : r[i].name = r[j].name => i = j
    <3> SUFFICES ASSUME NEW i \in DOMAIN r, NEW j \in DOMAIN r, r[i].name = r[j].name PROVE i = j
      OBVIOUS
    <3> DEFINE old(k) == IF k < p THEN k ELSE k + 1
    <3>1. \A k \in DOMAIN r : r[k] = s[old(k)] /\ old(k) \in DOMAIN s
      BY <2>1, <2>4, <2>5
    <3>2. old(i) = old(j)
      BY <2>2, <3>1
    <3> QED
      BY <2>1, <2>5, <3>2
  <2>7. Range(r) = {a \in Range(s) : a.name # n}
    <3>1. ASSUME NEW i \in DOMAIN r PROVE r[i] \in Range(s) /\ r[i].name # n
      BY SMTT(30), <2>1, <2>2, <2>4, <2>5 DEF Range
    <3>2. ASSUME NEW i \in DOMAIN s, s[i].name # n PROVE \E j \in DOMAIN r : r[j] = s[i]
      <4>1. CASE i < p
        BY <2>1, <2>4, <2>5, <4>1
      <4>2. CASE i > p
        <5>1. i - 1 \in DOMAIN r /\ r[i - 1] = s[i]
          BY <2>1, <2>4, <2>5, <4>2
        <5> QED
          BY <5>1
      <4> QED
        BY <2>1, <2>5, <3>2, <4>1, <4>2
    <3> QED
      BY <3>1, <3>2 DEF Range
  <2>8. Proper(new)
    BY <2>3, <2>4, <2>6 DEF Proper
  <2>9. \A x \in Object : Of(new, x) = IF x = o THEN {a \in Of(as, o) : a.name # n} ELSE Of(as, x)
    BY <2>3, <2>7 DEF Proper, Of, s
  <2> QED
    BY <2>8, <2>9 DEF new
<1> QED
  BY <1>1, <1>2

LEMMA CreatedOf ==
  ASSUME NEW as, Proper(as), NEW o \in Object, NEW n \in Name, ~Has(as, o, n),
         NEW v \in Value \cup {Empty, ErrorPage}
  PROVE  /\ Proper(Created(as, o, n, v))
         /\ \A x \in Object : Of(Created(as, o, n, v), x) =
              IF x = o THEN Of(as, o) \cup {Attr(n, v)} ELSE Of(as, x)
<1> DEFINE s == as[o]
           a == Attr(n, v)
           r == Append(s, a)
           new == Created(as, o, n, v)
<1>1. s \in Seq(Attribute) /\ a \in Attribute /\ a.name = n
  BY DEF Proper, Attribute, Attr
<1>2. \A i, j \in DOMAIN s : s[i].name = s[j].name => i = j
  BY DEF Proper
<1>3. \A i \in DOMAIN s : s[i].name # n
  BY DEF Has
<1>4. new = [as EXCEPT ![o] = r]
  BY DEF Created
<1> HIDE DEF s, a, new
<1>5. /\ r \in Seq(Attribute) /\ DOMAIN r = 1 .. Len(s) + 1 /\ DOMAIN s = 1 .. Len(s) /\ Len(s) \in Nat
      /\ \A i \in 1 .. Len(s) : r[i] = s[i]
      /\ r[Len(s) + 1] = a
  BY <1>1
<1> HIDE DEF r
<1>6. \A i, j \in DOMAIN r : r[i].name = r[j].name => i = j
  BY <1>1, <1>2, <1>3, <1>5
<1>7. Range(r) = Range(s) \cup {a}
  BY <1>5 DEF Range
<1>8. Proper(new)
  BY ZenonT(40), <1>4, <1>5, <1>6 DEF Proper
<1>9. \A x \in Object : Of(new, x) = IF x = o THEN Of(as, o) \cup {a} ELSE Of(as, x)
  BY <1>4, <1>7 DEF Proper, Of, s
<1> QED
  BY <1>8, <1>9 DEF new, a

LEMMA WrittenOf ==
  ASSUME NEW as, Proper(as), NEW o \in Object, NEW n \in Name, Has(as, o, n),
         NEW v \in Value \cup {Empty, ErrorPage}
  PROVE  /\ Proper(Written(as, o, n, v))
         /\ \A x \in Object : Of(Written(as, o, n, v), x) =
              IF x = o THEN {a \in Of(as, o) : a.name # n} \cup {Attr(n, v)} ELSE Of(as, x)
<1> DEFINE s == as[o]
           a == Attr(n, v)
           r == [i \in DOMAIN s |-> IF s[i].name = n THEN a ELSE s[i]]
           new == Written(as, o, n, v)
<1>1. s \in Seq(Attribute) /\ a \in Attribute /\ a.name = n
  BY DEF Proper, Attribute, Attr
<1>2. \A i, j \in DOMAIN s : s[i].name = s[j].name => i = j
  BY DEF Proper
<1>3. \E i \in DOMAIN s : s[i].name = n
  BY DEF Has
<1>4. new = [as EXCEPT ![o] = r]
  BY DEF Written
<1> HIDE DEF s, a, new
<1>5. r \in Seq(Attribute) /\ DOMAIN r = DOMAIN s /\ \A i \in DOMAIN s : r[i].name = s[i].name
  BY <1>1
<1>6. Range(r) = {x \in Range(s) : x.name # n} \cup {a}
  BY <1>1, <1>3 DEF Range
<1> HIDE DEF r
<1>7. \A i, j \in DOMAIN r : r[i].name = r[j].name => i = j
  BY <1>2, <1>5
<1>8. Proper(new)
  BY ZenonT(40), <1>4, <1>5, <1>7 DEF Proper
<1>9. \A x \in Object : Of(new, x) =
        IF x = o THEN {y \in Of(as, o) : y.name # n} \cup {a} ELSE Of(as, x)
  BY <1>4, <1>6 DEF Proper, Of, s
<1> QED
  BY <1>8, <1>9 DEF new, a

\* The k-th smallest exists for each k, and different ones differ.
LEMMA NthIs ==
  ASSUME NEW S \in SUBSET Nat, IsFiniteSet(S)
  PROVE  /\ \A k \in 1 .. Cardinality(S) : Nth(S, k) \in S
         /\ \A k, l \in 1 .. Cardinality(S) : Nth(S, k) = Nth(S, l) => k = l
<1> DEFINE below(i) == {j \in S : j <= i}
           n == Cardinality(S)
           rank == [i \in S |-> Cardinality(below(i))]
<1>1. n \in Nat /\ IsFiniteSet(1 .. n) /\ Cardinality(1 .. n) = n
  BY FS_CardinalityType, FS_Interval
<1>2. \A i \in S : IsFiniteSet(below(i)) /\ below(i) \subseteq S /\ i \in below(i)
  BY FS_Subset
<1>3. \A i \in S : Cardinality(below(i)) \in 1 .. n
  <2> TAKE i \in S
  <2>1. Cardinality(below(i)) \in Nat /\ Cardinality(below(i)) <= n
    BY <1>2, FS_Subset, FS_CardinalityType
  <2>2. Cardinality(below(i)) # 0
    BY <1>2, FS_EmptySet
  <2> QED
    BY <1>1, <2>1, <2>2
<1>4. \A i, j \in S : i < j => Cardinality(below(i)) # Cardinality(below(j))
  <2> SUFFICES ASSUME NEW i \in S, NEW j \in S, i < j
               PROVE  Cardinality(below(i)) # Cardinality(below(j))
    OBVIOUS
  <2>1. ~(j <= i) /\ j <= j /\ \A k \in S : k <= i => k <= j
    OBVIOUS
  <2>2. below(i) \subseteq below(j) /\ j \notin below(i) /\ j \in below(j)
    BY <2>1, Zenon
  <2> HIDE DEF below
  <2> QED
    BY <1>2, <2>2, FS_Subset
<1> HIDE DEF below, n
<1>5. rank \in Injection(S, 1 .. n)
  <2>1. rank \in [S -> 1 .. n]
    BY <1>3
  <2>2. \A i, j \in S : rank[i] = rank[j] => i = j
    <3> SUFFICES ASSUME NEW i \in S, NEW j \in S, rank[i] = rank[j] PROVE i = j
      OBVIOUS
    <3>1. i \in Nat /\ j \in Nat /\ rank[i] = Cardinality(below(i)) /\ rank[j] = Cardinality(below(j))
      OBVIOUS
    <3> QED
      BY <1>4, <3>1
  <2> QED
    BY <2>1, <2>2 DEF Injection, IsInjective
<1>6. rank \in Surjection(S, 1 .. n)
  BY <1>1, <1>5, FS_Injection DEF n
<1>7. \A k \in 1 .. n : \E i \in S : Cardinality(below(i)) = k
  BY <1>6 DEF Surjection
<1>8. \A k \in 1 .. n : Nth(S, k) \in S /\ Cardinality(below(Nth(S, k))) = k
  BY <1>7 DEF Nth, below
<1> QED
  BY <1>8 DEF n

\* The server lists names, each once.
LEMMA ListedIs ==
  ASSUME NEW as, Proper(as), NEW o \in Object, NEW crt \in BOOLEAN
  PROVE  Listed(as, o, crt) \in Seq(Name) /\ IsInjective(Listed(as, o, crt))
<1> DEFINE s == as[o]
<1>1. s \in Seq(Attribute) /\ \A i, j \in DOMAIN s : s[i].name = s[j].name => i = j
  BY DEF Proper
<1>2. CASE crt
  <2> DEFINE r == [i \in DOMAIN s |-> s[i].name]
  <2>1. Listed(as, o, crt) = r
    BY <1>2 DEF Listed
  <2> HIDE DEF s
  <2>2. \A i \in DOMAIN s : s[i].name \in Name
    <3>1. \A i \in DOMAIN s : s[i] \in Attribute
      BY <1>1, Elements
    <3> QED
      BY <3>1 DEF Attribute
  <2>3. r \in Seq(Name)
    BY <1>1, <2>2
  <2>4. IsInjective(r)
    BY <1>1 DEF IsInjective
  <2> QED
    BY <2>1, <2>3, <2>4
<1>3. CASE ~crt
  <2> DEFINE given == {i \in DOMAIN NameOrder : Has(as, o, NameOrder[i])}
             n == Cardinality(given)
             r == [k \in 1 .. n |-> NameOrder[Nth(given, k)]]
  <2>1. Listed(as, o, crt) = r
    BY <1>3 DEF Listed
  <2>2. DOMAIN NameOrder = 1 .. Len(NameOrder) /\ \A i \in DOMAIN NameOrder : NameOrder[i] \in Name
    BY ObjectAssumption, Elements
  <2>3. given \in SUBSET Nat /\ IsFiniteSet(given) /\ given \subseteq DOMAIN NameOrder
    <3>1. Len(NameOrder) \in Nat
      BY ObjectAssumption
    <3>2. given \subseteq 1 .. Len(NameOrder)
      BY <2>2, Zenon
    <3>3. 1 .. Len(NameOrder) \subseteq Nat
      BY <3>1
    <3>4. IsFiniteSet(1 .. Len(NameOrder))
      BY <3>1, FS_Interval
    <3> QED
      BY <2>2, <3>2, <3>3, <3>4, FS_Subset
  <2>4. /\ n \in Nat
        /\ \A k \in 1 .. n : Nth(given, k) \in given
        /\ \A k, l \in 1 .. n : Nth(given, k) = Nth(given, l) => k = l
    BY <2>3, NthIs, FS_CardinalityType
  <2> HIDE DEF given, n
  <2>5. \A k \in 1 .. n : NameOrder[Nth(given, k)] \in Name
    BY <2>2, <2>3, <2>4
  <2>6. r \in Seq(Name)
    BY <2>4, <2>5
  <2>7. IsInjective(r)
    BY ZenonT(40), <2>3, <2>4, ObjectAssumption DEF IsInjective
  <2> QED
    BY <2>1, <2>6, <2>7
<1> QED
  BY <1>2, <1>3

-----------------------------------------------------------------------------
(* The invariant. *)

Running == pc \notin {"idle", "returned", "crashed"}

Shaped ==
  /\ Proper(attrs) /\ Proper(before)
  /\ linked \in Object \cup {Nothing} /\ at \in Object \cup {Nothing}
  /\ call \in Call /\ name \in Name /\ buf \in Value \cup {Empty, ErrorPage}
  /\ pc \in Requests \cup {"idle", "copy", "register", "traverse", "returned", "crashed"}
  /\ pc \notin {"idle", "lookup", "returned"} => at \in Object /\ type # "uninit"
  /\ ret \in {"none", "ok", "fail"} /\ (pc # "returned" => ret = "none")
  /\ rdwr \in BOOLEAN /\ strayed \in BOOLEAN /\ relinked \in BOOLEAN /\ registered \in BOOLEAN
  /\ changes \in Nat

\* Which operations come to a stage.
Staged ==
  /\ pc = "delete" => call.op \in {"delete", "delete_by_idx"}
  /\ pc = "exists" => call.op = "exists"
  /\ pc = "info" => call.op \in {"get_info", "info_by_idx"}
  /\ pc = "list" => call.op \in ByIdx
  /\ pc = "lookup_again" => call.op = "delete_by_idx"
  /\ pc \in {"open", "create", "read", "write", "delete_old"} => call.op = "rename"
  /\ pc \in {"copy", "register", "iter_list", "traverse"} => call.op = "iterate"
  /\ pc = "open_parent" => call.op \in {"iterate", "rename"}
  /\ pc \in {"lookup", "open_parent", "lookup_again", "list"} => call.path
  /\ pc \in {"idle", "lookup"} => at = Nothing
  /\ pc \in {"read", "write", "delete_old"} => rdwr
  /\ pc \in {"lookup", "delete"} /\ call.op = "delete" => rdwr
  /\ pc = "crashed" => call.op # "rename"
  /\ pc = "idle" => call.op = "exists" /\ changes = 0
  /\ call.op \in ByIdx => call.idx # NoIdx
  /\ call.op = "rename" => call.new # call.old

\* Every struct of the call holds one reference to the file, and all are closed at its end;
\* the copy of the file counts as many as the file had.
References ==
  /\ refs \in Nat /\ refs0 \in Nat \ {0} /\ copy \in Nat
  /\ open \subseteq {"parent", "copy", "attr", "renamed"}
  /\ refs = refs0 + Cardinality(open)
  /\ Running => copy \in {0, refs0}
  /\ pc \in {"idle", "lookup", "list", "lookup_again", "delete", "exists", "info",
              "open_parent", "copy"} => open = {} /\ copy = 0
  /\ pc = "open" => open \subseteq {"parent"}
  /\ pc = "create" => open \subseteq {"parent", "attr"}
  /\ pc \in {"create", "read", "write"} => "attr" \in open
  /\ "parent" \in open => call.path
  /\ pc = "returned" /\ (call.op = "iterate" => ret = "ok") => open = {}
  /\ refs0 > 1 => registered

\* What the call is about is what its arguments have named.
Meant ==
  /\ Running => Named(call, attrs, linked) \subseteq named
  /\ call.path /\ ~relinked /\ at # Nothing => at = linked
  /\ ~call.path /\ at # Nothing => at = call.loc
  /\ changes = 0 => ~relinked
  /\ Running /\ call.op \notin ByIdx => name = call.old
  /\ Running /\ call.op \notin ByIdx /\ at # Nothing => <<at, call.old>> \in named
  /\ pc \in {"info", "lookup_again", "delete"} /\ call.op \in ByIdx /\ ~strayed /\ ~relinked =>
       <<at, name>> \in named

\* The object has the attributes it had, and the new one with value w.
Copied(w) ==
  /\ ~Has(before, at, call.new) /\ w \in Value \cup {Empty, ErrorPage}
  /\ \A x \in Object :
       Of(attrs, x) = IF x = at THEN Of(before, at) \cup {Attr(call.new, w)} ELSE Of(before, x)

\* How far a rename has come, as long as nothing else changes the attributes.
Renaming ==
  call.op = "rename" /\ changes = 0 =>
    /\ pc \in {"lookup", "open_parent", "open", "create"} => attrs = before
    /\ pc \in {"create", "read", "write", "delete_old"} => Has(before, at, call.old)
    /\ pc = "write" /\ ~strayed => buf = ValueOf(before, at, call.old)
    /\ pc \in {"read", "write"} => \E w \in Value \cup {Empty, ErrorPage} : Copied(w)
    /\ pc = "delete_old" => Copied(buf) /\ (~strayed => buf = ValueOf(before, at, call.old))

\* The entries of table t from index first on and before index p, in the order asked for.
Reported(t, first, p, dec) ==
  IF dec THEN [i \in 1 .. first - p |-> t[first + 2 - i]] ELSE [i \in 1 .. p - first |-> t[first + i]]

Within(t, first, p, dec) ==
  IF dec THEN first \in 0 .. Len(t) - 1 /\ p \in -1 .. first
  ELSE first \in Nat /\ p \in Nat /\ first <= p /\ (p = first \/ p <= Len(t))

\* The names reported so far are those of the table from the first index to the last.
Traversed ==
  /\ pc \in {"idle", "lookup", "copy", "open_parent", "register", "iter_list"} =>
       seen = <<>> /\ ~strayed
  /\ pc = "traverse" => table \in Seq(Name) /\ table # <<>> /\ IsInjective(table)
  /\ pc = "traverse" /\ changes = 0 => table = Listed(attrs, at, call.crt)
  /\ pc = "traverse" /\ ~strayed =>
       /\ Within(table, FirstPos(table), pos, call.dec)
       /\ seen = Reported(table, FirstPos(table), pos, call.dec)

Inv ==
  /\ Shaped /\ Staged /\ References /\ Meant /\ Renaming /\ Traversed
  /\ RenameSafe /\ NameIsIndexed /\ ExistsTells /\ IterationExact
-----------------------------------------------------------------------------
(* Each action keeps the invariant. *)

LEMMA Initially == Init => Inv
<1> SUFFICES ASSUME Init PROVE Inv
  OBVIOUS
<1>1. Proper(attrs)
  <2>1. attrs \in [Object -> Seq([name : Name, val : Value])]
    BY AttrStatesAssumption DEF Init
  <2>2. ASSUME NEW o \in Object PROVE attrs[o] \in Seq(Attribute)
    <3>1. attrs[o] \in Seq([name : Name, val : Value])
      BY <2>1
    <3>2. \A i \in DOMAIN attrs[o] : attrs[o][i] \in Attribute
      <4>1. \A i \in DOMAIN attrs[o] : attrs[o][i] \in [name : Name, val : Value]
        BY <3>1, Elements
      <4>2. [name : Name, val : Value] \subseteq Attribute
        BY DEF Attribute
      <4> QED
        BY <4>1, <4>2
    <3> QED
      BY <3>1, <3>2
  <2> QED
    BY <2>1, <2>2, AttrStatesAssumption DEF Proper, Init
<1>2. NameOrder[1] \in Name
  BY ObjectAssumption
<1>3. call \in Call
  BY <1>2, ObjectAssumption DEF Init, Call, Op
<1>4. Shaped
  BY <1>1, <1>2, <1>3, ObjectAssumption DEF Shaped, Init
<1>5. References
  BY FS_EmptySet DEF References, Init, Running
<1>6. Staged /\ Meant /\ Renaming /\ Traversed
  BY DEF Staged, Meant, Renaming, Traversed, Init, Running, ByIdx
<1>7. IsInjective(seen)
  BY DEF Init, IsInjective
<1> QED
  BY <1>4, <1>5, <1>6, <1>7
     DEF Inv, RenameSafe, RenameKeepsValue, RenameOverwritesNone, RenamedIsReported, NameIsIndexed,
         ExistsTells, IterationExact, Init

\* Where nothing was deleted yet and nothing is reported as done, no value is lost.
LEMMA KeptSafe ==
  ASSUME Proper(attrs'), Proper(before'), at' \in Object \cup {Nothing}, call' \in Call,
         call'.op = "rename" /\ changes' = 0 =>
           /\ ret' # "ok"
           /\ \A x \in Object : Of(before', x) \subseteq Of(attrs', x)
  PROVE  RenameSafe'
<1> SUFFICES ASSUME call'.op = "rename", changes' = 0 PROVE RenameSafe'
  BY DEF RenameSafe, RenameKeepsValue, RenameOverwritesNone, RenamedIsReported, Undisturbed
<1>1. \A x \in Object : Of(before', x) \subseteq Of(attrs', x)
  OBVIOUS
<1>2. \A x \in Object : \A n : Has(before', x, n) =>
        Attr(n, ValueOf(before', x, n)) \in Of(attrs', x)
  BY <1>1, ValueIs
<1>3. \A x \in Object : \A n : Has(before', x, n) => Has(attrs', x, n)
  <2> SUFFICES ASSUME NEW x \in Object, NEW n, Has(before', x, n) PROVE Has(attrs', x, n)
    OBVIOUS
  <2>1. \E a \in Of(before', x) : a.name = n
    BY AttributesOf
  <2>2. \E a \in Of(attrs', x) : a.name = n
    BY <1>1, <2>1
  <2> QED
    BY <2>2, AttributesOf
<1>4. RenameKeepsValue' /\ RenameOverwritesNone'
  BY <1>2 DEF RenameKeepsValue, RenameOverwritesNone, Of
<1>5. RenamedIsReported'
  BY <1>3 DEF RenamedIsReported
<1> QED
  BY <1>4, <1>5 DEF RenameSafe

\* Before its last step a rename has at most added an attribute.
LEMMA Kept ==
  ASSUME Inv, Running, call.op = "rename", changes = 0
  PROVE  \A x \in Object : Of(before, x) \subseteq Of(attrs, x)
<1>1. pc \in {"lookup", "open_parent", "open", "create", "read", "write", "delete_old"}
  BY DEF Inv, Shaped, Staged, Running, Requests, ByIdx
<1>2. CASE pc \in {"lookup", "open_parent", "open", "create"}
  BY <1>2 DEF Inv, Renaming
<1>3. CASE pc \in {"read", "write", "delete_old"}
  <2>1. \E w : Copied(w)
    BY <1>3 DEF Inv, Renaming
  <2> QED
    BY <2>1 DEF Copied
<1> QED
  BY <1>1, <1>2, <1>3

LEMMA Closing ==
  ASSUME Inv, Running, NEW r \in {"ok", "fail"}, NEW v, Finish(r, v),
         linked' = linked, Proper(attrs'), strayed' \in BOOLEAN
  PROVE  /\ Shaped' /\ Staged' /\ References' /\ Meant' /\ Renaming' /\ Traversed'
         /\ ret' \in {r, "fail"}
         /\ UNCHANGED <<call, at, parent, type, name, table, pos, history>> /\ pc' = "returned"
<1>1. /\ UNCHANGED <<rdwr, call, at, parent, type, name, buf, table, pos, before, refs0, named, relinked,
                     changes>>
      /\ pc' = "returned" /\ ret' \in {r, "fail"}
      /\ registered' = (registered /\ copy # 1)
      /\ refs' = refs - Cardinality(open) /\ open' = {} /\ copy' = IF copy > 0 THEN copy - 1 ELSE 0
  BY DEF Finish, Status, Closed, LastCopy, history
<1>2. Shaped'
  BY <1>1 DEF Inv, Shaped
<1>3. Staged' /\ Renaming' /\ Traversed'
  BY <1>1 DEF Inv, Staged, Renaming, Traversed
<1>4. Meant'
  BY <1>1 DEF Inv, Meant, Running
<1>5. References'
  <2>1. IsFiniteSet({"parent", "copy", "attr", "renamed"})
    <3>1. IsFiniteSet({"parent"} \cup {"copy"} \cup {"attr"} \cup {"renamed"})
      BY FS_Singleton, FS_Union
    <3> QED
      BY <3>1
  <2>2. IsFiniteSet(open) /\ Cardinality(open) \in Nat
    BY <2>1, FS_Subset, FS_CardinalityType DEF Inv, References
  <2>3. refs' = refs0 /\ Cardinality(open') = 0
    BY <1>1, <2>2, FS_EmptySet DEF Inv, References
  <2>4. refs0 > 1 => registered'
    <3>1. refs0 > 1 => registered /\ copy # 1
      BY DEF Inv, References, Running
    <3> QED
      BY <1>1, <3>1
  <2> QED
    BY <1>1, <2>3, <2>4 DEF Inv, References, Running
<1> QED
  BY <1>1, <1>2, <1>3, <1>4, <1>5 DEF history

\* A call that has not returned has told nothing yet.
LEMMA OnTheWay ==
  ASSUME Inv, pc' # "returned", call' = call, strayed => strayed',
         seen' = seen \/ call.op # "iterate"
  PROVE  NameIsIndexed' /\ ExistsTells' /\ IterationExact'
<1>1. NameIsIndexed' /\ ExistsTells'
  BY DEF NameIsIndexed, ExistsTells
<1>2. call.op = "iterate" /\ ~strayed' => IsInjective(seen')
  BY DEF Inv, IterationExact
<1> QED
  BY <1>1, <1>2 DEF IterationExact

\* A refusal tells nothing either.
LEMMA Refused ==
  ASSUME Inv, ret' = "fail", call' = call, strayed => strayed', seen' = seen \/ call.op # "iterate"
  PROVE  NameIsIndexed' /\ ExistsTells' /\ IterationExact'
<1>1. NameIsIndexed' /\ ExistsTells'
  BY DEF NameIsIndexed, ExistsTells
<1>2. call.op = "iterate" /\ ~strayed' => IsInjective(seen')
  BY DEF Inv, IterationExact
<1> QED
  BY <1>1, <1>2 DEF IterationExact

LEMMA Starting == ASSUME Inv, pc = "idle", NEW c \in Call, Start(c) PROVE Inv'
<1>1. /\ call' = c /\ before' = attrs /\ refs0' = refs /\ named' = Named(c, attrs, linked)
      /\ relinked' = FALSE /\ name' = c.old
      /\ UNCHANGED <<attrs, linked, rdwr, buf, refs, copy, registered, open, seen, strayed, changes>>
  BY DEF Start, server, file
<1>2. /\ c.op \in Op /\ c.old \in Name /\ c.path \in BOOLEAN /\ c.loc \in Object
      /\ c.op = "rename" => c.new # c.old
      /\ c.op \in ByIdx => c.path /\ c.idx # NoIdx
  BY DEF Start, Call
<1>3. \/ pc' = "returned" /\ ret' = "fail" /\ UNCHANGED <<at, type>> /\ c.op = "delete"
      \/ pc' = "lookup" /\ c.path /\ at' = Nothing /\ ret' = ret /\ (c.op = "delete" => rdwr)
      \/ /\ pc' = Stage(c) /\ ~c.path /\ at' = c.loc /\ ret' = ret
         /\ type' = (IF c.file THEN "file" ELSE TypeOf[c.loc]) /\ (c.op = "delete" => rdwr)
  BY DEF Start
<1>4. ~c.path => Stage(c) \in {"delete", "exists", "info", "copy", "open"}
  BY <1>2 DEF Stage, Op, ByIdx
<1>5. /\ Proper(attrs) /\ ret = "none" /\ at = Nothing /\ open = {} /\ copy = 0 /\ seen = <<>>
      /\ ~strayed /\ refs = refs0 /\ changes = 0
  <2>1. Proper(attrs) /\ ret = "none" /\ at = Nothing /\ changes = 0
    BY DEF Inv, Shaped, Staged
  <2>2. seen = <<>> /\ ~strayed
    BY DEF Inv, Traversed
  <2>3. open = {} /\ copy = 0
    BY DEF Inv, References
  <2>4. refs = refs0 + 0 /\ refs0 \in Nat
    BY <2>3, FS_EmptySet DEF Inv, References
  <2> QED
    BY <2>1, <2>2, <2>3, <2>4
<1>6. Shaped'
  <2>1. ASSUME pc' \notin {"lookup", "returned"} PROVE at' \in Object /\ type' # "uninit"
    <3>1. at' = c.loc /\ type' \in {"file", "group", "dataset", "datatype"}
      BY <1>2, <1>3, <2>1, ObjectAssumption
    <3> QED
      BY <1>2, <3>1
  <2>2. pc' \in Requests \cup {"copy", "returned"} /\ ret' \in {"none", "fail"}
        /\ (pc' # "returned" => ret' = "none")
    BY <1>3, <1>4, <1>5 DEF Requests
  <2>4. at' \in Object \cup {Nothing}
    BY <1>2, <1>3, <1>5
  <2> QED
    BY <1>1, <1>2, <2>1, <2>2, <2>4 DEF Inv, Shaped
<1>7. Staged'
  <2>1. c.path => pc' \in {"lookup", "returned"}
    BY <1>3
  <2>2. ~c.path /\ pc' = Stage(c) => Staged'
    BY <1>1, <1>2, <1>3 DEF Stage, Op, ByIdx, Staged
  <2>3. pc' \in {"lookup", "returned"} => Staged'
    BY <1>1, <1>2, <1>3, <1>4, <1>5 DEF Staged
  <2> QED
    BY <1>3, <2>2, <2>3
<1>8. References'
  BY <1>1, <1>3, <1>4, <1>5, FS_EmptySet DEF References, Inv, Running
<1>9. Meant'
  <2>1. ~c.path => <<c.loc, c.old>> \in Named(c, attrs, linked) \/ c.op \in ByIdx
    BY <1>2, ObjectAssumption DEF Named
  <2> QED
    BY <1>1, <1>2, <1>3, <1>4, <1>5, <2>1 DEF Meant, Running
<1>10. Renaming' /\ Traversed'
  BY <1>1, <1>3, <1>4, <1>5 DEF Renaming, Traversed
<1>11. RenameSafe'
  <2>1. ret' # "ok"
    BY <1>3, <1>5
  <2> QED
    BY <1>1, <1>5, <1>6, <2>1, KeptSafe DEF Shaped
<1>12. NameIsIndexed' /\ ExistsTells' /\ IterationExact'
  <2>1. ret' # "ok" /\ IsInjective(seen')
    BY <1>1, <1>3, <1>5 DEF IsInjective
  <2> QED
    BY <2>1 DEF NameIsIndexed, ExistsTells, IterationExact
<1> QED
  BY <1>6, <1>7, <1>8, <1>9, <1>10, <1>11, <1>12 DEF Inv

LEMMA LookupKeeps == ASSUME Inv, Lookup PROVE Inv'
<1>1. /\ pc = "lookup" /\ linked # Nothing /\ at' = linked /\ type' = TypeOf[linked]
      /\ pc' = Stage(call)
      /\ UNCHANGED <<attrs, linked, name, buf, refs, copy, registered, open, strayed, rdwr, call, parent,
                     table, pos, seen, ret, value, before, refs0, named, relinked, changes>>
  BY DEF Lookup, GoOn, server, file, history
<1>2. call.path /\ call.op \in Op /\ linked \in Object
  BY <1>1 DEF Inv, Staged, Shaped, Call
<1>3. Stage(call) \in {"delete", "exists", "info", "list", "open_parent"}
  BY <1>2 DEF Stage, Op, ByIdx
<1>4. Shaped'
  <2>1. type' # "uninit" /\ at' \in Object
    BY <1>1, <1>2, ObjectAssumption
  <2> QED
    BY <1>1, <1>3, <2>1 DEF Inv, Shaped, Requests
<1>5. Staged'
  BY <1>1, <1>2, <1>3 DEF Inv, Staged, Stage, Op, ByIdx
<1>6. References'
  BY <1>1, <1>3 DEF Inv, References, Running
<1>7. Meant'
  <2>1. <<linked, call.old>> \in Named(call, attrs, linked) \/ call.op \in ByIdx
    BY <1>1, <1>2 DEF Named
  <2> QED
    BY <1>1, <1>2, <1>3, <2>1 DEF Inv, Meant, Running, Stage
<1>8. Renaming' /\ Traversed'
  BY <1>1, <1>3 DEF Inv, Renaming, Traversed
<1>9. RenameSafe'
  BY <1>1, <1>4, Kept, KeptSafe DEF Inv, Shaped, Running
<1>10. NameIsIndexed' /\ ExistsTells' /\ IterationExact'
  BY <1>1, <1>3, OnTheWay
<1> QED
  BY <1>4, <1>5, <1>6, <1>7, <1>8, <1>9, <1>10 DEF Inv


LEMMA RequestFailsKeeps == ASSUME Inv, RequestFails PROVE Inv'
<1>1. /\ pc \in Requests /\ Finish("fail", "none")
      /\ UNCHANGED <<attrs, linked, seen, strayed>>
  BY DEF RequestFails, server
<1>2. Running /\ Proper(attrs') /\ strayed' \in BOOLEAN
  BY <1>1 DEF Running, Requests, Inv, Shaped
<1>3. /\ Shaped' /\ Staged' /\ References' /\ Meant' /\ Renaming' /\ Traversed' /\ ret' = "fail"
      /\ UNCHANGED <<call, at, before, changes>>
  BY <1>1, <1>2, Closing DEF history
<1>4. RenameSafe'
  BY <1>1, <1>2, <1>3, Kept, KeptSafe DEF Shaped
<1>5. NameIsIndexed' /\ ExistsTells' /\ IterationExact'
  BY <1>1, <1>3, Refused
<1> QED
  BY <1>3, <1>4, <1>5 DEF Inv

LEMMA DeleteKeeps == ASSUME Inv, Delete PROVE Inv'
<1>1. /\ pc \in {"delete", "delete_old"} /\ Has(attrs, at, name)
      /\ attrs' = Without(attrs, at, name) /\ Finish("ok", "none")
      /\ UNCHANGED <<linked, seen, strayed>>
  BY DEF Delete, Deletable
<1>2. /\ Running /\ strayed' \in BOOLEAN /\ at \in Object /\ Proper(attrs) /\ Proper(before)
      /\ call.op \in {"delete", "delete_by_idx", "rename"}
  BY <1>1 DEF Running, Inv, Shaped, Staged
<1>3. Proper(attrs') /\ \A x \in Object : Of(attrs', x) =
        IF x = at THEN {a \in Of(attrs, at) : a.name # name} ELSE Of(attrs, x)
  BY <1>1, <1>2, WithoutOf
<1>4. /\ Shaped' /\ Staged' /\ References' /\ Meant' /\ Renaming' /\ Traversed'
      /\ UNCHANGED <<call, at, type, before, changes>>
  BY <1>1, <1>2, <1>3, Closing DEF history
<1>5. RenameSafe'
  <2> SUFFICES ASSUME call.op = "rename", changes = 0 PROVE RenameSafe'
    BY <1>4 DEF RenameSafe, RenameKeepsValue, RenameOverwritesNone, RenamedIsReported, Undisturbed
  <2>1. /\ Copied(buf) /\ (~strayed => buf = ValueOf(before, at, call.old))
        /\ name = call.old /\ call.new # call.old
    <3>1. pc = "delete_old"
      BY <1>1 DEF Inv, Staged
    <3>2. Copied(buf) /\ (~strayed => buf = ValueOf(before, at, call.old))
      BY <3>1 DEF Inv, Renaming
    <3>3. name = call.old /\ call.new # call.old
      BY <3>1 DEF Inv, Meant, Staged, Running, ByIdx
    <3> QED
      BY <3>2, <3>3
  <2>2. \A x \in Object : Of(attrs', x) =
          IF x = at THEN {a \in Of(before, at) : a.name # call.old} \cup {Attr(call.new, buf)}
          ELSE Of(before, x)
    BY <1>3, <2>1 DEF Copied, Attr
  <2>3. ~Has(attrs', at, call.old)
    BY <1>2, <1>3, <2>1, AttributesOf
  <2>4. RenameKeepsValue'
    BY <1>1, <1>2, <1>4, <2>1, <2>2, <2>3 DEF RenameKeepsValue, Undisturbed, Of
  <2>5. RenameOverwritesNone'
    <3> SUFFICES ASSUME NEW x \in Object, NEW n \in Name, Has(before, x, n), <<x, n>> # <<at, call.old>>
                 PROVE  Attr(n, ValueOf(before, x, n)) \in Of(attrs', x)
      BY <1>4 DEF RenameOverwritesNone, Of
    <3>1. Attr(n, ValueOf(before, x, n)) \in Of(before, x)
      BY <1>2, ValueIs
    <3>2. Attr(n, ValueOf(before, x, n)).name = n
      BY DEF Attr
    <3> QED
      BY <2>2, <3>1, <3>2
  <2>6. RenamedIsReported'
    <3>1. ASSUME ~(call.path /\ type = "datatype") PROVE ret' = "ok"
      <4>1. ~("parent" \in open /\ type = "datatype")
        BY <3>1 DEF Inv, References
      <4> QED
        BY <1>1, <4>1 DEF Finish, Status
    <3> QED
      BY <1>4, <3>1 DEF RenamedIsReported
  <2> QED
    BY <2>4, <2>5, <2>6 DEF RenameSafe
<1>6. NameIsIndexed' /\ ExistsTells' /\ IterationExact'
  BY <1>2, <1>4 DEF NameIsIndexed, ExistsTells, IterationExact
<1> QED
  BY <1>4, <1>5, <1>6 DEF Inv

LEMMA ExistsKeeps == ASSUME Inv, Exists \/ ExistsRefused PROVE Inv'
<1>1. pc = "exists" /\ UNCHANGED <<attrs, linked, seen>> /\ strayed' \in {strayed, TRUE}
  BY DEF Exists, ExistsRefused, server
<1>2. /\ Running /\ strayed' \in BOOLEAN /\ Proper(attrs') /\ call.op = "exists" /\ at \in Object
      /\ call.path \in BOOLEAN
  BY <1>1 DEF Running, Inv, Shaped, Staged, Requests, Call
<1>3. \/ Finish("ok", Has(attrs, at, call.old)) /\ strayed' = strayed
      \/ Finish("ok", FALSE) /\ strayed'
  BY DEF Exists, ExistsRefused
<1>4. /\ Shaped' /\ Staged' /\ References' /\ Meant' /\ Renaming' /\ Traversed'
      /\ UNCHANGED <<call, at, changes>>
  BY <1>1, <1>2, <1>3, Closing DEF history
<1>5. RenameSafe' /\ NameIsIndexed' /\ IterationExact'
  BY <1>2, <1>4 DEF RenameSafe, RenameKeepsValue, RenameOverwritesNone, RenamedIsReported,
                    NameIsIndexed, IterationExact
<1>6. ExistsTells'
  <2> SUFFICES ASSUME changes = 0, ~strayed' PROVE value' = Has(attrs, Target, call.old)
    BY <1>1, <1>4 DEF ExistsTells, Undisturbed, Target
  <2>1. at = Target
    BY <1>2, <1>1, ObjectAssumption DEF Inv, Meant, Target
  <2>2. Finish("ok", Has(attrs, at, call.old))
    BY <1>3
  <2> QED
    BY <2>1, <2>2 DEF Finish
<1> QED
  BY <1>4, <1>5, <1>6 DEF Inv

LEMMA GetInfoKeeps == ASSUME Inv, GetInfo PROVE Inv'
<1>1. /\ pc = "info" /\ Finish("ok", "zeros") /\ strayed' = ~Has(attrs, at, name)
      /\ UNCHANGED <<attrs, linked, seen>>
  BY DEF GetInfo, server
<1>2. Running /\ strayed' \in BOOLEAN /\ Proper(attrs') /\ call.op \in {"get_info", "info_by_idx"}
  BY <1>1 DEF Running, Inv, Shaped, Staged, Has
<1>3. /\ Shaped' /\ Staged' /\ References' /\ Meant' /\ Renaming' /\ Traversed'
      /\ UNCHANGED call
  BY <1>1, <1>2, Closing
<1>4. RenameSafe' /\ NameIsIndexed' /\ ExistsTells' /\ IterationExact'
  BY <1>2, <1>3 DEF RenameSafe, RenameKeepsValue, RenameOverwritesNone, RenamedIsReported,
                    NameIsIndexed, ExistsTells, IterationExact
<1> QED
  BY <1>3, <1>4 DEF Inv


\* The name at the index is one that the arguments name.
LEMMA NameAtIs ==
  ASSUME Inv, pc = "list", NEW s, s = Listed(attrs, at, call.crt), call.idx < Len(s)
  PROVE  NameAt(s) \in Name /\ (~relinked => <<at, NameAt(s)>> \in Named(call, attrs, linked))
<1>1. /\ at \in Object /\ Proper(attrs) /\ call.op \in ByIdx /\ call.path
      /\ call.crt \in BOOLEAN /\ call.idx \in Nat
  <2>1. call \in Call /\ call.idx # NoIdx /\ at \in Object /\ Proper(attrs) /\ call.op \in ByIdx /\ call.path
    BY DEF Inv, Shaped, Staged, Requests
  <2> QED
    BY <2>1, ObjectAssumption DEF Call, NoIdx
<1>2. s \in Seq(Name)
  BY <1>1, ListedIs
<1>3. NameAt(s) \in Name
  BY <1>1, <1>2 DEF NameAt
<1>4. ~relinked => at = linked /\ linked # Nothing
  BY <1>1, ObjectAssumption DEF Inv, Meant
<1>5. ASSUME ~relinked PROVE <<at, NameAt(s)>> \in Named(call, attrs, linked)
  BY <1>1, <1>2, <1>4, <1>5 DEF Named, NameAt
<1> QED
  BY <1>3, <1>5

LEMMA ListKeeps == ASSUME Inv, List PROVE Inv'
<1> DEFINE s == Listed(attrs, at, call.crt)
<1>1. /\ pc = "list" /\ UNCHANGED <<attrs, linked, type, buf, refs, copy, registered, open>>
      /\ \E n \in Name :
           /\ GotName(n)
           /\ \/ call.idx < Len(s) /\ n = NameAt(s) /\ strayed' = strayed
              \/ strayed' = TRUE
  <2>1. \/ call.idx < Len(s) /\ GotName(NameAt(s)) /\ strayed' = strayed
        \/ strayed' = TRUE /\ \E n \in Name : GotName(n)
    BY DEF List
  <2>2. pc = "list" /\ UNCHANGED <<attrs, linked, type, buf, refs, copy, registered, open>>
    BY DEF List, server, file
  <2>3. call.idx < Len(s) => NameAt(s) \in Name
    BY <2>2, NameAtIs
  <2> QED
    BY <2>1, <2>2, <2>3
<1>2. PICK n \in Name :
        /\ GotName(n)
        /\ \/ call.idx < Len(s) /\ n = NameAt(s) /\ strayed' = strayed
           \/ strayed' = TRUE
  BY <1>1
<1>3. /\ UNCHANGED <<attrs, linked, type, buf, refs, copy, registered, open, rdwr, call, parent, at,
                     table, pos, seen, before, refs0, named, relinked, changes>>
      /\ name' = n
      /\ \/ call.op = "get_name" /\ pc' = "returned" /\ ret' = "ok" /\ value' = n
         \/ call.op = "delete_by_idx" /\ pc' = "lookup_again" /\ ret' = ret
         \/ call.op = "info_by_idx" /\ pc' = "info" /\ ret' = ret
  <2>1. call.op \in ByIdx
    BY <1>1 DEF Inv, Staged
  <2> QED
    BY <1>1, <1>2, <2>1 DEF GotName, GoOn, ByIdx, history
<1>4. ~strayed' /\ ~relinked => <<at, n>> \in named
  <2>1. Named(call, attrs, linked) \subseteq named
    BY <1>1 DEF Inv, Meant, Running
  <2> QED
    BY <1>1, <1>2, <2>1, NameAtIs
<1>5. at \in Object /\ type # "uninit" /\ open = {} /\ call.path /\ call.op \in ByIdx
  BY <1>1 DEF Inv, Shaped, Staged, References, Requests
<1>6. strayed' \in BOOLEAN /\ (strayed => strayed')
  <2>1. strayed \in BOOLEAN
    BY DEF Inv, Shaped
  <2>2. strayed' = strayed \/ strayed' = TRUE
    BY <1>2
  <2>3. CASE strayed' = strayed
    BY <2>1, <2>3
  <2>4. CASE strayed' = TRUE
    BY <2>4
  <2> QED
    BY <2>2, <2>3, <2>4
<1> HIDE DEF s
<1>7. Shaped'
  BY <1>1, <1>3, <1>5, <1>6 DEF Inv, Shaped, Requests
<1>8. Staged'
  BY <1>3, <1>5 DEF Inv, Staged, ByIdx
<1>9. References'
  BY <1>1, <1>3, <1>5 DEF Inv, References, Running
<1>10. Meant'
  BY <1>1, <1>3, <1>4, <1>5 DEF Inv, Meant, Running
<1>11. Renaming' /\ Traversed'
  BY <1>3, <1>5 DEF Renaming, Traversed, ByIdx
<1>12. RenameSafe' /\ ExistsTells' /\ IterationExact'
  BY <1>3 DEF RenameSafe, RenameKeepsValue, RenameOverwritesNone, RenamedIsReported, ExistsTells,
              IterationExact
<1>13. NameIsIndexed'
  BY <1>3, <1>4 DEF NameIsIndexed
<1> QED
  BY <1>7, <1>8, <1>9, <1>10, <1>11, <1>12, <1>13 DEF Inv

LEMMA LookupAgainKeeps == ASSUME Inv, LookupAgain PROVE Inv'
<1>1. /\ pc = "lookup_again" /\ linked # Nothing /\ at' = linked /\ type' = TypeOf[linked]
      /\ pc' = "delete"
      /\ UNCHANGED <<attrs, linked, name, buf, refs, copy, registered, open, strayed, rdwr, call, parent,
                     table, pos, seen, ret, value, before, refs0, named, relinked, changes>>
  BY DEF LookupAgain, GoOn, server, file, history
<1>2. call.path /\ call.op = "delete_by_idx" /\ linked \in Object /\ at # Nothing
  BY <1>1, ObjectAssumption DEF Inv, Staged, Shaped, Requests
<1>3. Shaped'
  <2>1. type' # "uninit" /\ at' \in Object
    BY <1>1, <1>2, ObjectAssumption
  <2> QED
    BY <1>1, <2>1 DEF Inv, Shaped, Requests
<1>4. Staged'
  BY <1>1, <1>2 DEF Inv, Staged
<1>5. References'
  BY <1>1 DEF Inv, References, Running
<1>6. Meant'
  BY <1>1, <1>2 DEF Inv, Meant, Running, ByIdx
<1>7. Renaming' /\ Traversed'
  BY <1>1, <1>2 DEF Inv, Renaming, Traversed
<1>8. RenameSafe'
  BY <1>1, <1>2 DEF RenameSafe, RenameKeepsValue, RenameOverwritesNone, RenamedIsReported
<1>9. NameIsIndexed' /\ ExistsTells' /\ IterationExact'
  BY <1>1, OnTheWay
<1> QED
  BY <1>3, <1>4, <1>5, <1>6, <1>7, <1>8, <1>9 DEF Inv


\* A read beyond the names ends the program.
LEMMA CrashKeeps == ASSUME Inv, ListCrashes \/ TraversalCrashes PROVE Inv'
<1>1. /\ pc \in {"list", "traverse"} /\ pc' = "crashed"
      /\ UNCHANGED <<attrs, linked, name, buf, refs, copy, registered, open, strayed, rdwr, call, parent,
                     at, type, table, pos, seen, ret, value, before, refs0, named, relinked, changes>>
  BY DEF ListCrashes, TraversalCrashes, server, file, history
<1>2. call.op # "rename" /\ at \in Object /\ type # "uninit"
  BY <1>1 DEF Inv, Shaped, Staged, Requests, ByIdx
<1>3. Shaped'
  BY <1>1, <1>2 DEF Inv, Shaped
<1>4. Staged' /\ Renaming' /\ Traversed'
  BY <1>1, <1>2 DEF Inv, Staged, Renaming, Traversed
<1>5. References'
  BY <1>1 DEF Inv, References, Running
<1>6. Meant'
  BY <1>1 DEF Inv, Meant, Running
<1>7. RenameSafe'
  BY <1>1, <1>2 DEF RenameSafe, RenameKeepsValue, RenameOverwritesNone, RenamedIsReported
<1>8. NameIsIndexed' /\ ExistsTells' /\ IterationExact'
  BY <1>1, OnTheWay
<1> QED
  BY <1>3, <1>4, <1>5, <1>6, <1>7, <1>8 DEF Inv

LEMMA OpenParentKeeps == ASSUME Inv, OpenParent PROVE Inv'
<1>1. /\ pc = "open_parent" /\ linked # Nothing
      /\ at' = IF call.op = "rename" THEN linked ELSE at
      /\ open' = {"parent"} /\ refs' = refs + 1
      /\ pc' = IF call.op = "rename" THEN "open" ELSE "register"
      /\ UNCHANGED <<attrs, linked, rdwr, call, type, name, buf, copy, registered, table, pos, seen, ret,
                     value, strayed, before, refs0, named, relinked, changes>>
  BY DEF OpenParent, server, history
<1>2. /\ call.path /\ call.op \in {"iterate", "rename"} /\ at \in Object /\ linked \in Object
      /\ type # "uninit" /\ at' \in Object
  BY <1>1 DEF Inv, Shaped, Staged, Requests
<1>3. Shaped'
  BY <1>1, <1>2 DEF Inv, Shaped, Requests
<1>4. Staged'
  BY <1>1, <1>2 DEF Inv, Staged
<1>5. References'
  <2>1. open = {} /\ Cardinality(open) = 0 /\ Cardinality(open') = 1 /\ refs0 \in Nat
    BY <1>1, FS_EmptySet, FS_Singleton DEF Inv, References
  <2>2. refs' = refs0 + Cardinality(open')
    BY <1>1, <2>1 DEF Inv, References
  <2> QED
    BY <1>1, <1>2, <2>1, <2>2 DEF Inv, References, Running
<1>6. Meant'
  <2>1. <<linked, call.old>> \in Named(call, attrs, linked)
    BY <1>1, <1>2 DEF Named, ByIdx
  <2> QED
    BY <1>1, <1>2, <2>1 DEF Inv, Meant, Running, ByIdx
<1>7. Renaming' /\ Traversed'
  BY <1>1, <1>2 DEF Inv, Renaming, Traversed
<1>8. RenameSafe'
  BY <1>1, <1>3, Kept, KeptSafe DEF Inv, Shaped, Running
<1>9. NameIsIndexed' /\ ExistsTells' /\ IterationExact'
  BY <1>1, OnTheWay
<1> QED
  BY <1>3, <1>4, <1>5, <1>6, <1>7, <1>8, <1>9 DEF Inv

LEMMA OpenOldKeeps == ASSUME Inv, OpenOld PROVE Inv'
<1>1. /\ pc = "open" /\ Has(attrs, at, call.old) /\ pc' = "create"
      /\ open' = open \cup {"attr"} /\ refs' = refs + 1
      /\ UNCHANGED <<attrs, linked, rdwr, call, at, parent, type, name, buf, copy, registered, table, pos,
                     seen, ret, value, strayed, before, refs0, named, relinked, changes>>
  BY DEF OpenOld, GoOn, server, history
<1>2. call.op = "rename" /\ at \in Object /\ type # "uninit"
  BY <1>1 DEF Inv, Shaped, Staged, Requests
<1>3. Shaped'
  BY <1>1, <1>2 DEF Inv, Shaped, Requests
<1>4. Staged'
  BY <1>1, <1>2 DEF Inv, Staged
<1>5. References'
  <2>1. open \subseteq {"parent"} /\ IsFiniteSet(open)
    BY <1>1, FS_Singleton, FS_Subset DEF Inv, References
  <2>2. Cardinality(open') = Cardinality(open) + 1 /\ Cardinality(open) \in Nat
    BY <1>1, <2>1, FS_AddElement, FS_CardinalityType
  <2>3. refs' = refs0 + Cardinality(open') /\ refs' \in Nat
    BY <1>1, <2>2 DEF Inv, References
  <2> QED
    BY <1>1, <1>2, <2>1, <2>3 DEF Inv, References, Running
<1>6. Meant'
  BY <1>1, <1>2 DEF Inv, Meant, Running, ByIdx
<1>7. Renaming' /\ Traversed'
  BY <1>1, <1>2 DEF Inv, Renaming, Traversed
<1>8. RenameSafe'
  BY <1>1, <1>3, Kept, KeptSafe DEF Inv, Shaped, Running
<1>9. NameIsIndexed' /\ ExistsTells' /\ IterationExact'
  BY <1>1, OnTheWay
<1> QED
  BY <1>3, <1>4, <1>5, <1>6, <1>7, <1>8, <1>9 DEF Inv


LEMMA CreateNewKeeps == ASSUME Inv, CreateNew PROVE Inv'
<1>1. /\ pc = "create" /\ pc' = "read" /\ rdwr /\ ~Has(attrs, at, call.new)
      /\ attrs' = [attrs EXCEPT ![at] = Append(@, Attr(call.new, Empty))]
      /\ open' = open \cup {"renamed"} /\ refs' = refs + 1
      /\ UNCHANGED <<linked, rdwr, call, at, parent, type, name, buf, copy, registered, table, pos,
                     seen, ret, value, strayed, before, refs0, named, relinked, changes>>
  BY DEF CreateNew, Creatable, Without, GoOn, history
<1>2. /\ call.op = "rename" /\ at \in Object /\ type # "uninit" /\ call.new \in Name
      /\ Proper(attrs) /\ Proper(before)
  BY <1>1 DEF Inv, Shaped, Staged, Requests, Call
<1>3. /\ Proper(attrs')
      /\ \A x \in Object : Of(attrs', x) =
           IF x = at THEN Of(attrs, at) \cup {Attr(call.new, Empty)} ELSE Of(attrs, x)
  <2> DEFINE n == call.new
             new == Created(attrs, at, n, Empty)
  <2>1. n \in Name /\ ~Has(attrs, at, n) /\ Empty \in Value \cup {Empty, ErrorPage}
    BY <1>1, <1>2
  <2> HIDE DEF n
  <2>2. Proper(new) /\ \A x \in Object :
          Of(new, x) = IF x = at THEN Of(attrs, at) \cup {Attr(n, Empty)} ELSE Of(attrs, x)
    BY <1>2, <2>1, CreatedOf
  <2> HIDE DEF new
  <2>3. attrs' = new
    BY <1>1 DEF n, new, Created
  <2> QED
    BY <2>2, <2>3 DEF n
<1>4. Shaped'
  BY <1>1, <1>2, <1>3 DEF Inv, Shaped, Requests
<1>5. Staged'
  BY <1>1, <1>2 DEF Inv, Staged
<1>6. References'
  <2>1. open \subseteq {"parent", "attr"} /\ IsFiniteSet(open)
    <3>1. IsFiniteSet({"parent"} \cup {"attr"})
      BY FS_Singleton, FS_Union
    <3>2. open \subseteq {"parent"} \cup {"attr"}
      BY <1>1 DEF Inv, References
    <3> QED
      BY <3>1, <3>2, FS_Subset
  <2>2. Cardinality(open') = Cardinality(open) + 1 /\ Cardinality(open) \in Nat
    BY <1>1, <2>1, FS_AddElement, FS_CardinalityType
  <2>3. refs' = refs0 + Cardinality(open') /\ refs' \in Nat
    BY <1>1, <2>2 DEF Inv, References
  <2> QED
    BY <1>1, <1>2, <2>1, <2>3 DEF Inv, References, Running
<1>7. Meant'
  BY <1>1, <1>2 DEF Inv, Meant, Running, ByIdx, Named
<1>8. Renaming'
  <2> SUFFICES ASSUME changes = 0
               PROVE  Has(before, at, call.old) /\ \E w \in Value \cup {Empty, ErrorPage} : Copied(w)'
    BY <1>1 DEF Renaming
  <2>1. attrs = before /\ Has(before, at, call.old)
    BY <1>1, <1>2 DEF Inv, Renaming
  <2>2. Copied(Empty)'
    BY <1>1, <1>3, <2>1 DEF Copied
  <2> QED
    BY <2>1, <2>2
<1>9. Traversed'
  BY <1>1 DEF Inv, Traversed
<1>10. RenameSafe'
  <2>1. Running
    BY <1>1 DEF Running
  <2>2. \A x \in Object : Of(attrs, x) \subseteq Of(attrs', x)
    BY <1>3
  <2> QED
    BY <1>1, <1>4, <2>1, <2>2, Kept, KeptSafe DEF Inv, Shaped
<1>11. NameIsIndexed' /\ ExistsTells' /\ IterationExact'
  BY <1>1, OnTheWay
<1> QED
  BY <1>4, <1>5, <1>6, <1>7, <1>8, <1>9, <1>10, <1>11 DEF Inv

LEMMA ReadOldKeeps == ASSUME Inv, ReadOld PROVE Inv'
<1>1. /\ pc = "read" /\ pc' = "write"
      /\ \/ Has(attrs, at, call.old) /\ buf' = ValueOf(attrs, at, call.old) /\ strayed' = strayed
         \/ buf' = ErrorPage /\ strayed' = TRUE
      /\ UNCHANGED <<attrs, linked, rdwr, call, at, parent, type, name, refs, copy, registered, open, table,
                     pos, seen, ret, value, before, refs0, named, relinked, changes>>
  BY DEF ReadOld, GoOn, server, file, history
<1>2. /\ call.op = "rename" /\ at \in Object /\ type # "uninit" /\ call.new # call.old
      /\ Proper(attrs) /\ Proper(before) /\ strayed \in BOOLEAN
  BY <1>1 DEF Inv, Shaped, Staged, Requests
<1>3. strayed' \in BOOLEAN /\ (strayed => strayed')
  <2>1. CASE strayed' = strayed
    BY <1>2, <2>1
  <2>2. CASE strayed' = TRUE
    BY <2>2
  <2> QED
    BY <1>1, <2>1, <2>2
<1>4. buf' \in Value \cup {Empty, ErrorPage}
  <2>1. CASE Has(attrs, at, call.old) /\ buf' = ValueOf(attrs, at, call.old)
    <3>1. Attr(call.old, buf') \in Attribute
      BY <1>2, <2>1, ValueIs, AttributesOf
    <3> QED
      BY <3>1 DEF Attribute, Attr
  <2> QED
    BY <1>1, <2>1
<1>5. Shaped'
  BY <1>1, <1>2, <1>3, <1>4 DEF Inv, Shaped, Requests
<1>6. Staged'
  BY <1>1, <1>2 DEF Inv, Staged
<1>7. References'
  BY <1>1, <1>2 DEF Inv, References, Running
<1>8. Meant'
  BY <1>1, <1>2 DEF Inv, Meant, Running, ByIdx, Named
<1>9. Renaming'
  <2> SUFFICES ASSUME changes = 0
               PROVE  /\ Has(before, at, call.old) /\ \E w \in Value \cup {Empty, ErrorPage} : Copied(w)
                      /\ ~strayed' => buf' = ValueOf(before, at, call.old)
    BY <1>1 DEF Renaming, Copied
  <2>1. Has(before, at, call.old) /\ \E w \in Value \cup {Empty, ErrorPage} : Copied(w)
    BY <1>1, <1>2 DEF Inv, Renaming
  <2>2. ASSUME ~strayed' PROVE buf' = ValueOf(before, at, call.old)
    <3>1. Has(attrs, at, call.old) /\ buf' = ValueOf(attrs, at, call.old)
      BY <1>1, <2>2
    <3>2. Attr(call.old, buf') \in Of(attrs, at)
      BY <1>2, <3>1, ValueIs
    <3>3. Attr(call.old, ValueOf(before, at, call.old)) \in Of(attrs, at)
      BY <1>2, <2>1, ValueIs DEF Copied
    <3>4. Attr(call.old, buf') = Attr(call.old, ValueOf(before, at, call.old))
      <4>1. \A v : Attr(call.old, v).name = call.old
        BY DEF Attr
      <4> QED
        BY <1>2, <3>2, <3>3, <4>1, AttributesOf
    <3> QED
      BY <3>4 DEF Attr
  <2> QED
    BY <2>1, <2>2
<1>10. Traversed'
  BY <1>1 DEF Inv, Traversed
<1>11. RenameSafe'
  BY <1>1, <1>5, Kept, KeptSafe DEF Inv, Shaped, Running
<1>12. NameIsIndexed' /\ ExistsTells' /\ IterationExact'
  BY <1>1, <1>3, OnTheWay
<1> QED
  BY <1>5, <1>6, <1>7, <1>8, <1>9, <1>10, <1>11, <1>12 DEF Inv

LEMMA WriteNewKeeps == ASSUME Inv, WriteNew PROVE Inv'
<1>1. /\ pc = "write" /\ pc' = "delete_old" /\ Has(attrs, at, call.new)
      /\ attrs' = Written(attrs, at, call.new, buf)
      /\ open' = open \ {"attr"} /\ refs' = refs - 1
      /\ UNCHANGED <<linked, rdwr, call, at, parent, type, name, buf, copy, registered, table, pos,
                     seen, ret, value, strayed, before, refs0, named, relinked, changes>>
  BY DEF WriteNew, GoOn, history
<1>2. /\ call.op = "rename" /\ at \in Object /\ type # "uninit" /\ call.new \in Name
      /\ call.new # call.old /\ Proper(attrs) /\ Proper(before)
      /\ buf \in Value \cup {Empty, ErrorPage}
  BY <1>1 DEF Inv, Shaped, Staged, Requests, Call
<1>3. /\ Proper(attrs')
      /\ \A x \in Object : Of(attrs', x) =
           IF x = at THEN {a \in Of(attrs, at) : a.name # call.new} \cup {Attr(call.new, buf)}
           ELSE Of(attrs, x)
  <2> DEFINE n == call.new
  <2>1. n \in Name /\ Has(attrs, at, n)
    BY <1>1, <1>2
  <2> HIDE DEF n
  <2>2. Proper(Written(attrs, at, n, buf))
    BY <1>2, <2>1, WrittenOf
  <2>3. \A x \in Object : Of(Written(attrs, at, n, buf), x) =
          IF x = at THEN {a \in Of(attrs, at) : a.name # n} \cup {Attr(n, buf)} ELSE Of(attrs, x)
    BY <1>2, <2>1, WrittenOf
  <2> QED
    BY <1>1, <2>2, <2>3 DEF n
<1>4. Shaped'
  BY <1>1, <1>2, <1>3 DEF Inv, Shaped, Requests
<1>5. Staged'
  BY <1>1, <1>2 DEF Inv, Staged
<1>6. References'
  <2>1. open \subseteq {"parent", "copy", "attr", "renamed"} /\ IsFiniteSet(open)
    <3>1. IsFiniteSet({"parent"} \cup {"copy"} \cup {"attr"} \cup {"renamed"})
      BY FS_Singleton, FS_Union
    <3>2. open \subseteq {"parent"} \cup {"copy"} \cup {"attr"} \cup {"renamed"}
      BY <1>1 DEF Inv, References
    <3> QED
      BY <3>1, <3>2, FS_Subset
  <2>2. "attr" \in open
    BY <1>1 DEF Inv, References
  <2>3. Cardinality(open') = Cardinality(open) - 1 /\ Cardinality(open) \in Nat /\ Cardinality(open') \in Nat
    BY <1>1, <2>1, <2>2, FS_RemoveElement, FS_CardinalityType
  <2>4. refs' = refs0 + Cardinality(open') /\ refs' \in Nat
    BY <1>1, <2>3 DEF Inv, References
  <2> QED
    BY <1>1, <1>2, <2>1, <2>4 DEF Inv, References, Running
<1>7. Meant'
  BY <1>1, <1>2 DEF Inv, Meant, Running, ByIdx, Named
<1>8. changes = 0 => Has(before, at, call.old) /\ Copied(buf)' /\
                     (~strayed => buf = ValueOf(before, at, call.old))
  <2> SUFFICES ASSUME changes = 0
               PROVE  /\ Has(before, at, call.old) /\ Copied(buf)'
                      /\ (~strayed => buf = ValueOf(before, at, call.old))
    OBVIOUS
  <2>1. Has(before, at, call.old) /\ \E w \in Value \cup {Empty, ErrorPage} : Copied(w)
    BY <1>1, <1>2 DEF Inv, Renaming
  <2>2. ~strayed => buf = ValueOf(before, at, call.old)
    BY <1>1, <1>2 DEF Inv, Renaming
  <2>3. PICK w : Copied(w)
    BY <2>1
  <2>4. \A a \in Of(before, at) : a.name # call.new
    BY <1>2, <2>3, AttributesOf DEF Copied
  <2>5. Of(attrs', at) = Of(before, at) \cup {Attr(call.new, buf)}
    BY <1>2, <1>3, <2>3, <2>4 DEF Copied, Attr
  <2>6. Copied(buf)'
    BY <1>1, <1>2, <1>3, <2>3, <2>5 DEF Copied
  <2> QED
    BY <2>1, <2>2, <2>6
<1>9. Renaming' /\ Traversed'
  BY <1>1, <1>8 DEF Renaming, Traversed
<1>10. RenameSafe'
  <2>1. changes = 0 => \A x \in Object : Of(before, x) \subseteq Of(attrs', x)
    BY <1>1, <1>8 DEF Copied
  <2> QED
    BY <1>1, <1>4, <2>1, KeptSafe DEF Inv, Shaped
<1>11. NameIsIndexed' /\ ExistsTells' /\ IterationExact'
  BY <1>1, OnTheWay
<1> QED
  BY <1>4, <1>5, <1>6, <1>7, <1>9, <1>10, <1>11 DEF Inv


-----------------------------------------------------------------------------
(* Iteration. *)

LEMMA AppendIs ==
  ASSUME NEW S, NEW s \in Seq(S), NEW e \in S
  PROVE  Append(s, e) = [i \in 1 .. Len(s) + 1 |-> IF i = Len(s) + 1 THEN e ELSE s[i]]
<1> DEFINE r == Append(s, e)
<1>1. /\ r \in Seq(S) /\ Len(r) = Len(s) + 1 /\ Len(s) \in Nat
      /\ \A i \in 1 .. Len(s) : r[i] = s[i]
      /\ r[Len(s) + 1] = e
  OBVIOUS
<1> HIDE DEF r
<1>2. r = [i \in 1 .. Len(s) + 1 |-> r[i]]
  BY <1>1
<1>3. \A i \in 1 .. Len(s) + 1 : r[i] = IF i = Len(s) + 1 THEN e ELSE s[i]
  BY <1>1
<1> QED
  BY <1>2, <1>3 DEF r

LEMMA SubSeqIs ==
  ASSUME NEW S, NEW s \in Seq(S), NEW f \in Nat
  PROVE  SubSeq(s, f + 1, Len(s)) = [i \in 1 .. Len(s) - f |-> s[f + i]]
<1>1. Len(s) \in Nat
  OBVIOUS
<1> QED
  BY <1>1

LEMMA ReportedOnce ==
  ASSUME NEW S, NEW t \in Seq(S), IsInjective(t), NEW first, NEW p, NEW dec \in BOOLEAN,
         Within(t, first, p, dec)
  PROVE  IsInjective(Reported(t, first, p, dec))
<1>1. DOMAIN t = 1 .. Len(t) /\ Len(t) \in Nat /\ \A i, j \in 1 .. Len(t) : t[i] = t[j] => i = j
  BY DEF IsInjective
<1>2. CASE dec
  <2>1. first \in 0 .. Len(t) - 1 /\ p \in -1 .. first
    BY <1>2 DEF Within
  <2>2. \A i \in 1 .. first - p : first + 2 - i \in 1 .. Len(t)
    BY <1>1, <2>1
  <2> DEFINE r == [i \in 1 .. first - p |-> t[first + 2 - i]]
  <2>3. ASSUME NEW i \in 1 .. first - p, NEW j \in 1 .. first - p, r[i] = r[j] PROVE i = j
    BY <1>1, <2>1, <2>2, <2>3
  <2> QED
    BY <1>2, <2>3 DEF IsInjective, Reported
<1>3. CASE ~dec
  <2>1. first \in Nat /\ p \in Nat /\ first <= p /\ (p = first \/ p <= Len(t))
    BY <1>3 DEF Within
  <2>2. \A i \in 1 .. p - first : first + i \in 1 .. Len(t)
    BY <1>1, <2>1
  <2> DEFINE r == [i \in 1 .. p - first |-> t[first + i]]
  <2>3. ASSUME NEW i \in 1 .. p - first, NEW j \in 1 .. p - first, r[i] = r[j] PROVE i = j
    BY <1>1, <2>1, <2>2, <2>3
  <2> QED
    BY <1>3, <2>3 DEF IsInjective, Reported
<1> QED
  BY <1>2, <1>3

\* One more entry of the table.
LEMMA ReportedNext ==
  ASSUME NEW S, NEW t \in Seq(S), NEW first, NEW p, NEW dec \in BOOLEAN,
         Within(t, first, p, dec), IF dec THEN p >= 0 ELSE p < Len(t)
  PROVE  LET q == IF dec THEN p - 1 ELSE p + 1
         IN /\ p \in 0 .. Len(t) - 1 /\ Within(t, first, q, dec)
            /\ Append(Reported(t, first, p, dec), t[p + 1]) = Reported(t, first, q, dec)
<1>1. Len(t) \in Nat /\ \A i \in 1 .. Len(t) : t[i] \in S
  BY Elements
<1>2. CASE dec
  <2>1. first \in 0 .. Len(t) - 1 /\ p \in 0 .. first
    BY <1>2 DEF Within
  <2> DEFINE r == [i \in 1 .. first - p |-> t[first + 2 - i]]
             u == [i \in 1 .. first - (p - 1) |-> t[first + 2 - i]]
  <2>2. r \in Seq(S) /\ Len(r) = first - p
    BY <1>1, <2>1
  <2> HIDE DEF r
  <2>3. t[p + 1] \in S
    BY <1>1, <2>1
  <2>4. Append(r, t[p + 1]) = u
    <3>1. Append(r, t[p + 1]) = [i \in 1 .. first - p + 1 |-> IF i = first - p + 1 THEN t[p + 1] ELSE r[i]]
      BY <2>2, <2>3, AppendIs
    <3>2. first - p + 1 = first - (p - 1)
      BY <2>1
    <3> QED
      BY <2>1, <3>1, <3>2 DEF r
  <2> QED
    BY <1>1, <1>2, <2>1, <2>4 DEF Reported, Within, r
<1>3. CASE ~dec
  <2>1. first \in Nat /\ p \in first .. Len(t) - 1
    BY <1>1, <1>3 DEF Within
  <2> DEFINE r == [i \in 1 .. p - first |-> t[first + i]]
             u == [i \in 1 .. (p + 1) - first |-> t[first + i]]
  <2>2. r \in Seq(S) /\ Len(r) = p - first
    BY <1>1, <2>1
  <2> HIDE DEF r
  <2>3. t[p + 1] \in S
    BY <1>1, <2>1
  <2>4. Append(r, t[p + 1]) = u
    <3>1. Append(r, t[p + 1]) = [i \in 1 .. p - first + 1 |-> IF i = p - first + 1 THEN t[p + 1] ELSE r[i]]
      BY <2>2, <2>3, AppendIs
    <3>2. p - first + 1 = (p + 1) - first
      BY <2>1
    <3> QED
      BY <2>1, <3>1, <3>2 DEF r
  <2> QED
    BY <1>1, <1>3, <2>1, <2>4 DEF Reported, Within, r
<1> QED
  BY <1>2, <1>3

\* All of them from the first index on, or back from it.
LEMMA ReportedAll ==
  ASSUME NEW S, NEW t \in Seq(S), NEW first, NEW p, NEW dec \in BOOLEAN,
         Within(t, first, p, dec), IF dec THEN p < 0 ELSE p >= Len(t)
  PROVE  Reported(t, first, p, dec) =
           IF dec THEN Reverse(SubSeq(t, 1, first + 1)) ELSE SubSeq(t, first + 1, Len(t))
<1>1. Len(t) \in Nat
  OBVIOUS
<1>2. CASE dec
  <2>1. first \in 0 .. Len(t) - 1 /\ p = -1
    BY <1>2 DEF Within
  <2> DEFINE n == first + 1
             u == SubSeq(t, 1, n)
  <2>2. n \in 1 .. Len(t)
    BY <1>1, <2>1
  <2>3. Len(u) = n /\ \A i \in 1 .. n : u[i] = t[i]
    BY <1>1, <2>2
  <2>4. first - p = n /\ \A i \in 1 .. n : first + 2 - i = (n - i) + 1
    BY <2>1
  <2> HIDE DEF u, n
  <2>5. Reverse(u) = [i \in 1 .. n |-> u[(n - i) + 1]]
    BY <2>3 DEF Reverse
  <2>6. \A i \in 1 .. n : u[(n - i) + 1] = t[(n - i) + 1]
    BY <2>2, <2>3
  <2>7. Reported(t, first, p, dec) = [i \in 1 .. n |-> t[(n - i) + 1]]
    BY <1>2, <2>4 DEF Reported
  <2>8. Reported(t, first, p, dec) = Reverse(u)
    BY <2>5, <2>6, <2>7
  <2> QED
    BY <1>2, <2>8 DEF u, n
<1>3. CASE ~dec
  <2>1. first \in Nat /\ p \in Nat /\ first <= p /\ (p = first \/ p <= Len(t)) /\ p >= Len(t)
    BY <1>3 DEF Within
  <2>2. Reported(t, first, p, dec) = [i \in 1 .. p - first |-> t[first + i]]
    BY <1>3 DEF Reported
  <2>3. SubSeq(t, first + 1, Len(t)) = [i \in 1 .. Len(t) - first |-> t[first + i]]
    BY <1>1, <2>1, SubSeqIs
  <2>4. 1 .. p - first = 1 .. Len(t) - first
    BY <1>1, <2>1
  <2> QED
    BY <1>3, <2>2, <2>3, <2>4
<1> QED
  BY <1>2, <1>3


LEMMA CopyObjectKeeps == ASSUME Inv, CopyObject PROVE Inv'
<1>1. /\ pc = "copy" /\ pc' = "register"
      /\ \/ copy' = refs /\ UNCHANGED <<refs, open>>
         \/ refs' = refs + 1 /\ open' = {"copy"} /\ UNCHANGED copy
      /\ UNCHANGED <<attrs, linked, rdwr, call, at, type, name, buf, registered, table, pos, seen, ret,
                     value, strayed, before, refs0, named, relinked, changes>>
  BY DEF CopyObject, server, history
<1>2. /\ call.op = "iterate" /\ at \in Object /\ type # "uninit" /\ open = {} /\ copy = 0
      /\ refs0 \in Nat /\ refs \in Nat
  BY <1>1 DEF Inv, Shaped, Staged, Requests, References
<1>3. refs = refs0
  BY <1>2, FS_EmptySet DEF Inv, References
<1>4. Shaped'
  BY <1>1, <1>2 DEF Inv, Shaped, Requests
<1>5. Staged'
  BY <1>1, <1>2 DEF Inv, Staged
<1>6. References'
  <2>1. Cardinality({}) = 0 /\ Cardinality({"copy"}) = 1
    BY FS_EmptySet, FS_Singleton
  <2>2. /\ refs' \in Nat /\ copy' \in {0, refs0} /\ open' \subseteq {"copy"}
        /\ refs' = refs0 + Cardinality(open')
    BY <1>1, <1>2, <1>3, <2>1
  <2> QED
    BY <1>1, <1>2, <2>2 DEF Inv, References, Running
<1>7. Meant'
  BY <1>1, <1>2 DEF Inv, Meant, Running, ByIdx
<1>8. Renaming' /\ Traversed'
  BY <1>1, <1>2 DEF Inv, Renaming, Traversed
<1>9. RenameSafe'
  BY <1>1, <1>4, Kept, KeptSafe DEF Inv, Shaped, Running
<1>10. NameIsIndexed' /\ ExistsTells' /\ IterationExact'
  BY <1>1, OnTheWay
<1> QED
  BY <1>4, <1>5, <1>6, <1>7, <1>8, <1>9, <1>10 DEF Inv

LEMMA RegisterKeeps == ASSUME Inv, Register \/ RegisterFails PROVE Inv'
<1>1. /\ pc = "register"
      /\ \/ pc' = "iter_list" /\ ret' = ret
         \/ pc' = "returned" /\ ret' = "fail"
      /\ UNCHANGED <<attrs, linked, rdwr, call, at, parent, type, name, buf, refs, copy, registered, open,
                     table, pos, seen, value, strayed, before, refs0, named, relinked, changes>>
  BY DEF Register, RegisterFails, GoOn, server, file, history
<1>2. call.op = "iterate" /\ at \in Object /\ type # "uninit"
  BY <1>1 DEF Inv, Shaped, Staged, Requests
<1>3. Shaped'
  BY <1>1, <1>2 DEF Inv, Shaped, Requests
<1>4. Staged'
  BY <1>1, <1>2 DEF Inv, Staged
<1>5. References'
  BY <1>1, <1>2 DEF Inv, References, Running
<1>6. Meant'
  BY <1>1, <1>2 DEF Inv, Meant, Running, ByIdx
<1>7. Renaming' /\ Traversed'
  BY <1>1, <1>2 DEF Inv, Renaming, Traversed
<1>8. RenameSafe'
  BY <1>1, <1>3, Kept, KeptSafe DEF Inv, Shaped, Running
<1>9. NameIsIndexed' /\ ExistsTells' /\ IterationExact'
  BY <1>1, OnTheWay, Refused
<1> QED
  BY <1>3, <1>4, <1>5, <1>6, <1>7, <1>8, <1>9 DEF Inv

\* The iteration is at what the arguments mean, if nothing has changed.
LEMMA AtTarget ==
  ASSUME Inv, Running, at # Nothing, changes = 0
  PROVE  at = Target /\ call.crt \in BOOLEAN /\ call.dec \in BOOLEAN
<1>1. call.path \in BOOLEAN /\ call.crt \in BOOLEAN /\ call.dec \in BOOLEAN
  BY DEF Inv, Shaped, Call
<1> QED
  BY <1>1 DEF Inv, Meant, Target

LEMMA BuildTableKeeps == ASSUME Inv, BuildTable PROVE Inv'
<1> DEFINE s == Listed(attrs, at, call.crt)
<1>1. /\ pc = "iter_list" /\ UNCHANGED <<attrs, linked>>
      /\ \/ s = <<>> /\ Finish("ok", "none") /\ UNCHANGED <<seen, strayed>>
         \/ /\ s # <<>> /\ table' = s /\ pos' = FirstPos(s) /\ pc' = "traverse"
            /\ strayed' = (call.dec /\ FirstPos(s) >= Len(s))
            /\ UNCHANGED <<rdwr, call, at, parent, type, name, buf, refs, copy, registered, open, seen, ret,
                           value, before, refs0, named, relinked, changes>>
  BY DEF BuildTable, server, file, history
<1>2. /\ call.op = "iterate" /\ at \in Object /\ type # "uninit" /\ seen = <<>> /\ ~strayed
      /\ Proper(attrs) /\ Running /\ call.dec \in BOOLEAN /\ call.crt \in BOOLEAN
      /\ call.idx \in Nat \cup {NoIdx}
  <2>1. call \in Call
    BY DEF Inv, Shaped
  <2>2. call.idx \in Nat \cup {NoIdx} /\ call.dec \in BOOLEAN /\ call.crt \in BOOLEAN
    BY <2>1, ObjectAssumption DEF Call
  <2>3. call.op = "iterate" /\ at \in Object /\ type # "uninit" /\ Proper(attrs) /\ Running
    BY <1>1 DEF Inv, Shaped, Staged, Requests, Running
  <2>4. seen = <<>> /\ ~strayed
    BY <1>1 DEF Inv, Traversed
  <2> QED
    BY <2>2, <2>3, <2>4
<1>3. s \in Seq(Name) /\ IsInjective(s)
  BY <1>2, ListedIs
<1>4. CASE s = <<>> /\ Finish("ok", "none") /\ UNCHANGED <<seen, strayed>>
  <2>1. /\ Shaped' /\ Staged' /\ References' /\ Meant' /\ Renaming' /\ Traversed'
        /\ UNCHANGED <<call, at, changes>>
    <3>1. /\ Finish("ok", "none") /\ linked' = linked /\ Proper(attrs') /\ strayed' \in BOOLEAN
          /\ "ok" \in {"ok", "fail"}
      BY <1>1, <1>2, <1>4 DEF Inv, Shaped
    <3> QED
      BY <1>2, <3>1, Closing DEF history
  <2>2. RenameSafe' /\ NameIsIndexed' /\ ExistsTells'
    BY <1>2, <2>1 DEF RenameSafe, RenameKeepsValue, RenameOverwritesNone, RenamedIsReported,
                      NameIsIndexed, ExistsTells
  <2>3. IsInjective(seen')
    BY <1>2, <1>4 DEF IsInjective
  <2>4. changes = 0 => Listed(attrs', Target', call'.crt) = <<>>
    BY <1>1, <1>2, <1>4, <2>1, AtTarget, ObjectAssumption DEF Target
  <2>5. \A m \in Int : SubSeq(<<>>, m, 0) = <<>> \/ m < 1
    <3> TAKE m \in Int
    <3>1. CASE m >= 1
      BY <3>1
    <3> QED
      BY <3>1
  <2>6. Reverse(SubSeq(<<>>, 1, 0)) = <<>>
    BY <2>5 DEF Reverse
  <2>7. IterationExact'
    BY <1>2, <1>4, <2>1, <2>3, <2>4, <2>5, <2>6 DEF IterationExact, Undisturbed, NoIdx
  <2> QED
    BY <2>1, <2>2, <2>7 DEF Inv
<1>5. CASE /\ s # <<>> /\ table' = s /\ pos' = FirstPos(s) /\ pc' = "traverse"
           /\ strayed' = (call.dec /\ FirstPos(s) >= Len(s))
           /\ UNCHANGED <<rdwr, call, at, parent, type, name, buf, refs, copy, registered, open, seen, ret,
                          value, before, refs0, named, relinked, changes>>
  <2>1. Shaped'
    BY <1>1, <1>2, <1>5 DEF Inv, Shaped, Requests
  <2>2. Staged'
    BY <1>1, <1>2, <1>5 DEF Inv, Staged
  <2>3. References'
    BY <1>1, <1>2, <1>5 DEF Inv, References, Running
  <2>4. Meant'
    BY <1>1, <1>2, <1>5 DEF Inv, Meant, Running, ByIdx
  <2>5. Renaming'
    BY <1>2, <1>5 DEF Renaming
  <2>6. Traversed'
    <3>1. ASSUME ~strayed' PROVE Within(s, FirstPos(s), FirstPos(s), call.dec)
      <4> HIDE DEF s
      <4>1. Len(s) \in Nat \ {0}
        BY <1>3, <1>5
      <4>2. ~(call.dec /\ FirstPos(s) >= Len(s))
        BY <1>5, <3>1
      <4> QED
        BY <1>2, <4>1, <4>2 DEF Within, FirstPos, NoIdx
    <3>2. ASSUME ~strayed' PROVE <<>> = Reported(s, FirstPos(s), FirstPos(s), call.dec)
      <4>1. FirstPos(s) \in Int
        BY <1>3, <1>2 DEF FirstPos, NoIdx
      <4>2. 1 .. FirstPos(s) - FirstPos(s) = {}
        BY <4>1
      <4> QED
        BY <1>2, <4>2 DEF Reported
    <3>3. FirstPos(table)' = FirstPos(s)
      BY <1>5 DEF FirstPos
    <3> HIDE DEF s
    <3>4. table' = s /\ pos' = FirstPos(s) /\ call' = call /\ seen' = <<>> /\ pc' = "traverse"
      BY <1>2, <1>5
    <3>5. Listed(attrs', at', call'.crt) = s
      BY <1>1, <1>5 DEF s
    <3> QED
      BY <1>3, <1>5, <3>1, <3>2, <3>3, <3>4, <3>5 DEF Traversed
  <2>7. RenameSafe'
    BY <1>2, <1>5 DEF RenameSafe, RenameKeepsValue, RenameOverwritesNone, RenamedIsReported
  <2>8. NameIsIndexed' /\ ExistsTells' /\ IterationExact'
    BY <1>2, <1>5, OnTheWay
  <2> QED
    BY <2>1, <2>2, <2>3, <2>4, <2>5, <2>6, <2>7, <2>8 DEF Inv
<1> QED
  BY <1>1, <1>4, <1>5


LEMMA CallBackKeeps ==
  ASSUME Inv, NEW answer \in {"continue", "stop", "fail"}, NEW n \in Name, CallBack(answer, n)
  PROVE  Inv'
<1> DEFINE t == table
           first == FirstPos(table)
<1>1. /\ pc = "traverse" /\ ~Over /\ (pos < Len(t) => n = t[pos + 1]) /\ seen' = Append(seen, n)
      /\ UNCHANGED <<attrs, linked, strayed>>
      /\ \/ /\ pos' = IF call.dec THEN pos - 1 ELSE pos + 1
            /\ UNCHANGED <<rdwr, call, pc, at, parent, type, name, buf, refs, copy, registered, open, table,
                           ret, value, before, refs0, named, relinked, changes>>
         \/ Finish("ok", "stopped")
         \/ Finish("fail", "none")
  BY DEF CallBack, After, server, file, history
<1>2. /\ call.op = "iterate" /\ at \in Object /\ type # "uninit" /\ Running /\ call.dec \in BOOLEAN
      /\ t \in Seq(Name) /\ IsInjective(t) /\ Proper(attrs) /\ strayed \in BOOLEAN
  <2>1. call \in Call
    BY DEF Inv, Shaped
  <2>2. call.dec \in BOOLEAN
    BY <2>1 DEF Call
  <2>3. call.op = "iterate" /\ at \in Object /\ type # "uninit" /\ Proper(attrs) /\ strayed \in BOOLEAN
    BY <1>1 DEF Inv, Shaped, Staged, Requests
  <2>4. t \in Seq(Name) /\ IsInjective(t)
    BY <1>1 DEF Inv, Traversed
  <2> QED
    BY <1>1, <2>2, <2>3, <2>4 DEF Running
<1>3. ASSUME ~strayed
      PROVE  LET q == IF call.dec THEN pos - 1 ELSE pos + 1
             IN /\ Within(t, first, q, call.dec) /\ seen' = Reported(t, first, q, call.dec)
                /\ IsInjective(seen')
  <2>1. Within(t, first, pos, call.dec) /\ seen = Reported(t, first, pos, call.dec)
    BY <1>1, <1>3 DEF Inv, Traversed
  <2>2. pos \in Int /\ Len(t) \in Nat
    BY <1>2, <2>1 DEF Within
  <2>3. IF call.dec THEN pos >= 0 ELSE pos < Len(t)
    BY <1>1, <1>2, <2>2 DEF Over
  <2> HIDE DEF t, first
  <2> DEFINE q == IF call.dec THEN pos - 1 ELSE pos + 1
  <2>4. /\ pos \in 0 .. Len(t) - 1 /\ Within(t, first, q, call.dec)
        /\ Append(Reported(t, first, pos, call.dec), t[pos + 1]) = Reported(t, first, q, call.dec)
    BY <1>2, <2>1, <2>3, ReportedNext
  <2>5. n = t[pos + 1]
    BY <1>1, <2>2, <2>4 DEF t
  <2>6. seen' = Reported(t, first, q, call.dec)
    BY <1>1, <2>1, <2>4, <2>5
  <2>7. IsInjective(seen')
    BY <1>2, <2>4, <2>6, ReportedOnce
  <2> QED
    BY <2>4, <2>6, <2>7
<1>4. CASE Finish("ok", "stopped") \/ Finish("fail", "none")
  <2>1. /\ Shaped' /\ Staged' /\ References' /\ Meant' /\ Renaming' /\ Traversed'
        /\ UNCHANGED call
    BY <1>1, <1>2, <1>4, Closing
  <2>2. RenameSafe' /\ NameIsIndexed' /\ ExistsTells'
    BY <1>2, <2>1 DEF RenameSafe, RenameKeepsValue, RenameOverwritesNone, RenamedIsReported,
                      NameIsIndexed, ExistsTells
  <2>3. ret' # "ok" \/ value' = "stopped"
    BY <1>4 DEF Finish, Status
  <2>4. IterationExact'
    BY <1>1, <1>3, <2>3 DEF IterationExact
  <2> QED
    BY <2>1, <2>2, <2>4 DEF Inv
<1>5. CASE /\ pos' = IF call.dec THEN pos - 1 ELSE pos + 1
           /\ UNCHANGED <<rdwr, call, pc, at, parent, type, name, buf, refs, copy, registered, open, table,
                          ret, value, before, refs0, named, relinked, changes>>
  <2>1. Shaped'
    BY <1>1, <1>2, <1>5 DEF Inv, Shaped, Requests
  <2>2. Staged'
    BY <1>1, <1>2, <1>5 DEF Inv, Staged
  <2>3. References'
    BY <1>1, <1>2, <1>5 DEF Inv, References, Running
  <2>4. Meant'
    BY <1>1, <1>2, <1>5 DEF Inv, Meant, Running, ByIdx
  <2>5. Renaming'
    BY <1>2, <1>5 DEF Renaming
  <2>6. Traversed'
    <3>1. FirstPos(table)' = first /\ table' = table /\ call' = call /\ strayed' = strayed
      BY <1>1, <1>5 DEF FirstPos
    <3>2. ~strayed => Within(table', first, pos', call'.dec) /\ seen' = Reported(table', first, pos', call'.dec)
      BY <1>3, <1>5
    <3>3. /\ table \in Seq(Name) /\ table # <<>> /\ IsInjective(table)
          /\ changes = 0 => table = Listed(attrs, at, call.crt)
      BY <1>1 DEF Inv, Traversed
    <3>4. Listed(attrs', at', call'.crt) = Listed(attrs, at, call.crt)
      BY <1>1, <1>5
    <3> HIDE DEF first
    <3> QED
      BY <1>1, <1>5, <3>1, <3>2, <3>3, <3>4 DEF Traversed
  <2>7. RenameSafe'
    BY <1>2, <1>5 DEF RenameSafe, RenameKeepsValue, RenameOverwritesNone, RenamedIsReported
  <2>8. NameIsIndexed' /\ ExistsTells' /\ IterationExact'
    BY <1>1, <1>2, <1>3, <1>5 DEF NameIsIndexed, ExistsTells, IterationExact
  <2> QED
    BY <2>1, <2>2, <2>3, <2>4, <2>5, <2>6, <2>7, <2>8 DEF Inv
<1> QED
  BY <1>1, <1>4, <1>5

LEMMA TraversalEndsKeeps == ASSUME Inv, TraversalEnds PROVE Inv'
<1> DEFINE first == FirstPos(table)
<1>1. /\ pc = "traverse" /\ Over /\ Finish("ok", "none") /\ UNCHANGED <<attrs, linked, seen, strayed>>
  BY DEF TraversalEnds, server
<1>2. /\ call.op = "iterate" /\ at \in Object /\ Running /\ call.dec \in BOOLEAN /\ call.idx \in Nat \cup {NoIdx}
      /\ table \in Seq(Name) /\ table # <<>> /\ Proper(attrs) /\ strayed' \in BOOLEAN
  <2>1. call \in Call
    BY DEF Inv, Shaped
  <2>2. call.dec \in BOOLEAN /\ call.idx \in Nat \cup {NoIdx}
    BY <2>1, ObjectAssumption DEF Call
  <2>3. call.op = "iterate" /\ at \in Object /\ Proper(attrs) /\ strayed' \in BOOLEAN
    BY <1>1 DEF Inv, Shaped, Staged, Requests
  <2>4. table \in Seq(Name) /\ table # <<>>
    BY <1>1 DEF Inv, Traversed
  <2> QED
    BY <1>1, <2>2, <2>3, <2>4 DEF Running
<1>3. /\ Shaped' /\ Staged' /\ References' /\ Meant' /\ Renaming' /\ Traversed'
      /\ UNCHANGED <<call, at, changes>>
  BY <1>1, <1>2, Closing DEF history
<1>4. RenameSafe' /\ NameIsIndexed' /\ ExistsTells'
  BY <1>2, <1>3 DEF RenameSafe, RenameKeepsValue, RenameOverwritesNone, RenamedIsReported,
                    NameIsIndexed, ExistsTells
<1>5. call.op = "iterate" /\ ~strayed' => IsInjective(seen')
  BY <1>1 DEF Inv, IterationExact
<1>6. ASSUME changes = 0, ~strayed
      PROVE  /\ Listed(attrs', Target', call'.crt) = table
             /\ seen' = IF call.dec THEN Reverse(SubSeq(table, 1, first + 1))
                        ELSE SubSeq(table, first + 1, Len(table))
  <2>1. table = Listed(attrs, at, call.crt)
    BY <1>1, <1>6 DEF Inv, Traversed
  <2>2. at = Target
    BY <1>2, <1>6, AtTarget, ObjectAssumption
  <2>3. Listed(attrs', Target', call'.crt) = table
    BY <1>1, <1>3, <2>1, <2>2 DEF Target
  <2>4. Within(table, first, pos, call.dec) /\ seen = Reported(table, first, pos, call.dec)
    BY <1>1, <1>6 DEF Inv, Traversed
  <2>5. IF call.dec THEN pos < 0 ELSE pos >= Len(table)
    BY <1>1 DEF Over
  <2> HIDE DEF first
  <2>6. Reported(table, first, pos, call.dec) =
          IF call.dec THEN Reverse(SubSeq(table, 1, first + 1)) ELSE SubSeq(table, first + 1, Len(table))
    BY <1>2, <2>4, <2>5, ReportedAll
  <2> QED
    BY <1>1, <2>3, <2>4, <2>6
<1>7. ASSUME changes = 0, ~strayed
      PROVE  LET s == Listed(attrs', Target', call'.crt)
                 from == IF call.idx = NoIdx THEN 1 ELSE call.idx + 1
                 last == IF call.idx = NoIdx \/ s = <<>> THEN Len(s) ELSE call.idx + 1
             IN seen' = IF call.dec THEN Reverse(SubSeq(s, 1, last)) ELSE SubSeq(s, from, Len(s))
  <2>1. Len(table) \in Nat
    BY <1>2
  <2>2. CASE call.idx = NoIdx /\ call.dec
    <3>1. first + 1 = Len(table)
      BY <2>1, <2>2 DEF FirstPos
    <3> QED
      BY <1>6, <1>7, <2>2, <3>1
  <2>3. CASE call.idx = NoIdx /\ ~call.dec
    <3>1. first + 1 = 1
      BY <2>3 DEF FirstPos
    <3> QED
      BY <1>6, <1>7, <2>3, <3>1
  <2>4. CASE call.idx # NoIdx
    <3>1. first + 1 = call.idx + 1
      BY <2>4 DEF FirstPos
    <3> QED
      BY <1>2, <1>6, <1>7, <2>4, <3>1
  <2> QED
    BY <1>2, <2>2, <2>3, <2>4
<1>8. IterationExact'
  BY <1>1, <1>3, <1>5, <1>7 DEF IterationExact, Undisturbed
<1> QED
  BY <1>3, <1>4, <1>8 DEF Inv


-----------------------------------------------------------------------------

LEMMA OtherClientKeeps == ASSUME Inv, OtherClient PROVE Inv'
<1>1. /\ Running /\ changes' = changes + 1 /\ named' = named \cup Named(call, attrs', linked')
      /\ UNCHANGED <<rdwr, call, pc, at, parent, type, name, buf, refs, copy, registered, open, table, pos,
                     seen, ret, value, strayed, before, refs0>>
      /\ \/ /\ \E o \in Object, n \in Name, v \in Value :
                 attrs' \in IF Has(attrs, o, n) THEN {Without(attrs, o, n), Written(attrs, o, n, v)}
                            ELSE {Created(attrs, o, n, v)}
            /\ UNCHANGED <<linked, relinked>>
         \/ call.path /\ linked' \in Object \cup {Nothing} /\ relinked' = TRUE /\ UNCHANGED attrs
  BY DEF OtherClient, Running, file, Created
<1>2. Proper(attrs) /\ changes \in Nat /\ changes' \in Nat \ {0} /\ relinked \in BOOLEAN
  BY <1>1 DEF Inv, Shaped
<1>3. Proper(attrs')
  <2>1. CASE \E o \in Object, n \in Name, v \in Value :
                 attrs' \in IF Has(attrs, o, n) THEN {Without(attrs, o, n), Written(attrs, o, n, v)}
                            ELSE {Created(attrs, o, n, v)}
    <3>1. PICK o \in Object, n \in Name, v \in Value :
                 attrs' \in IF Has(attrs, o, n) THEN {Without(attrs, o, n), Written(attrs, o, n, v)}
                            ELSE {Created(attrs, o, n, v)}
      BY <2>1
    <3>2. v \in Value \cup {Empty, ErrorPage}
      OBVIOUS
    <3>3. Proper(Without(attrs, o, n))
      BY <1>2, WithoutOf
    <3>4. Has(attrs, o, n) => Proper(Written(attrs, o, n, v))
      BY <1>2, <3>2, WrittenOf
    <3>5. ~Has(attrs, o, n) => Proper(Created(attrs, o, n, v))
      BY <1>2, <3>2, CreatedOf
    <3> QED
      BY <3>1, <3>3, <3>4, <3>5
  <2> QED
    BY <1>1, <1>2, <2>1
<1>4. Shaped'
  BY ZenonT(40), <1>1, <1>2, <1>3 DEF Inv, Shaped
<1>5. Staged'
  BY <1>1, <1>2 DEF Inv, Staged, Running
<1>6. References'
  BY <1>1 DEF Inv, References, Running
<1>7. Meant'
  BY <1>1, <1>2 DEF Inv, Meant, Running
<1>8. Renaming' /\ Traversed'
  <2>1. FirstPos(table)' = FirstPos(table)
    BY <1>1 DEF FirstPos
  <2> QED
    BY <1>1, <1>2, <2>1 DEF Inv, Renaming, Traversed
<1>9. RenameSafe' /\ NameIsIndexed' /\ ExistsTells' /\ IterationExact'
  <2>1. changes' # 0 /\ pc' # "returned"
    BY <1>1, <1>2 DEF Running
  <2>2. RenameSafe'
    BY <2>1 DEF RenameSafe, RenameKeepsValue, RenameOverwritesNone, RenamedIsReported, Undisturbed
  <2> QED
    BY <1>1, <2>1, <2>2, OnTheWay
<1> QED
  BY <1>4, <1>5, <1>6, <1>7, <1>8, <1>9 DEF Inv

LEMMA Stuttering == ASSUME Inv, UNCHANGED vars PROVE Inv'
<1>1. UNCHANGED <<attrs, linked, rdwr, call, pc, at, parent, type, name, buf, refs, copy, registered, open,
                  table, pos, seen, ret, value, strayed, before, refs0, named, relinked, changes>>
  BY DEF vars, server, file, history
<1>2. Shaped' /\ Staged' /\ References'
  BY <1>1 DEF Inv, Shaped, Staged, References, Running
<1>3. Meant'
  BY <1>1 DEF Inv, Meant, Running
<1>4. Renaming'
  BY <1>1 DEF Inv, Renaming, Copied
<1>5. Traversed'
  <2>1. FirstPos(table)' = FirstPos(table)
    BY <1>1 DEF FirstPos
  <2> QED
    BY <1>1, <2>1 DEF Inv, Traversed
<1>6. RenameSafe' /\ NameIsIndexed'
  BY <1>1 DEF Inv, RenameSafe, RenameKeepsValue, RenameOverwritesNone, RenamedIsReported, Undisturbed,
              NameIsIndexed
<1>7. ExistsTells' /\ IterationExact'
  BY <1>1 DEF Inv, ExistsTells, IterationExact, Undisturbed, Target
<1> QED
  BY <1>2, <1>3, <1>4, <1>5, <1>6, <1>7 DEF Inv

\* Everything the call and the other clients do keeps the invariant.
THEOREM Invariance == Spec => []Inv
<1>1. Inv /\ [Next]_vars => Inv'
  <2> SUFFICES ASSUME Inv, [Next]_vars PROVE Inv'
    OBVIOUS
  <2>1. ASSUME pc = "idle", NEW c \in Call, Start(c) PROVE Inv'
    BY <2>1, Starting
  <2>2. CASE Connector
    BY <2>2, LookupKeeps, RequestFailsKeeps, DeleteKeeps, ListKeeps, CrashKeeps, LookupAgainKeeps,
       ExistsKeeps, GetInfoKeeps, OpenParentKeeps, OpenOldKeeps, CreateNewKeeps, ReadOldKeeps,
       WriteNewKeeps, CopyObjectKeeps, RegisterKeeps, BuildTableKeeps, CallBackKeeps, TraversalEndsKeeps
       DEF Connector
  <2>3. CASE OtherClient
    BY <2>3, OtherClientKeeps
  <2>4. CASE UNCHANGED vars
    BY <2>4, Stuttering
  <2> QED
    BY <2>1, <2>2, <2>3, <2>4 DEF Next
<1> QED
  BY Initially, <1>1, PTL DEF Spec

-----------------------------------------------------------------------------
(* The properties. *)

\* However a rename goes, and wherever the server refuses it, no attribute's value is lost or
\* overwritten, and a rename that was done is reported as done.
THEOREM RenamesAreSafe == Spec => []RenameSafe
<1>1. Inv => RenameSafe
  BY DEF Inv
<1> QED
  BY <1>1, Invariance, PTL

\* On every way out a call has given back its references to the file and left it registered.
THEOREM FileIsKept == Spec => []FileKept
<1>1. Inv => FileKept
  <2> SUFFICES ASSUME Inv PROVE FileKept
    OBVIOUS
  <2>1. References
    BY DEF Inv
  <2>2. ReferencesReturned
    <3>1. open = {} => refs = refs0 + 0 /\ refs0 \in Nat
      BY <2>1, FS_EmptySet DEF References
    <3>2. open = {} => refs = refs0
      BY <3>1
    <3> QED
      BY <2>1, <3>2 DEF References, ReferencesReturned
  <2>3. FileStaysRegistered
    BY <2>1 DEF References, FileStaysRegistered
  <2> QED
    BY <2>2, <2>3 DEF FileKept
<1> QED
  BY <1>1, Invariance, PTL

\* What a call says of names, of existence and of the attributes it iterates over is true.
THEOREM AnswersAreTrue == Spec => []AnswersTrue
<1>1. Inv => AnswersTrue
  <2> SUFFICES ASSUME Inv PROVE AnswersTrue
    OBVIOUS
  <2>1. \A o \in Object : \A a \in Range(attrs[o]) : a.name \in Name /\ a.val \in Value \cup {Empty, ErrorPage}
    <3> SUFFICES ASSUME NEW o \in Object, NEW a \in Of(attrs, o)
                 PROVE  a.name \in Name /\ a.val \in Value \cup {Empty, ErrorPage}
      BY DEF Of
    <3>1. a \in Attribute
      BY AttributesOf DEF Inv, Shaped
    <3> QED
      BY <3>1 DEF Attribute
  <2>2. refs > 0 /\ copy >= 0 /\ open \subseteq {"parent", "copy", "attr", "renamed"}
    <3>1. IsFiniteSet({"parent"} \cup {"copy"} \cup {"attr"} \cup {"renamed"})
      BY FS_Singleton, FS_Union
    <3>2. open \subseteq {"parent"} \cup {"copy"} \cup {"attr"} \cup {"renamed"}
      BY DEF Inv, References
    <3>3. Cardinality(open) \in Nat
      BY <3>1, <3>2, FS_Subset, FS_CardinalityType
    <3> QED
      BY <3>2, <3>3 DEF Inv, References
  <2>3. TypeOK
    BY <2>1, <2>2 DEF Inv, Shaped, TypeOK
  <2> QED
    BY <2>3 DEF Inv, AnswersTrue
<1> QED
  BY <1>1, Invariance, PTL

\* The steps of a call that change attributes.
LEMMA ChangingSteps ==
  ASSUME Next, changes \in Nat, changes' = changes
  PROVE  Delete \/ CreateNew \/ WriteNew \/ attrs' = attrs
<1>1. ASSUME NEW c \in Call, Start(c) PROVE attrs' = attrs
  BY <1>1 DEF Start, server
<1>2. CASE Connector
  <2>1. CASE Lookup \/ RequestFails \/ List \/ ListCrashes \/ LookupAgain \/ Exists \/ ExistsRefused \/ GetInfo
    BY <2>1 DEF Lookup, RequestFails, List, ListCrashes, LookupAgain, Exists, ExistsRefused, GetInfo, server
  <2>2. CASE OpenParent \/ OpenOld \/ ReadOld \/ CopyObject \/ Register \/ RegisterFails \/ BuildTable
    BY <2>2 DEF OpenParent, OpenOld, ReadOld, CopyObject, Register, RegisterFails, BuildTable, server
  <2>3. ASSUME NEW answer, NEW n, CallBack(answer, n) PROVE attrs' = attrs
    BY <2>3 DEF CallBack, server
  <2>4. CASE TraversalCrashes \/ TraversalEnds
    BY <2>4 DEF TraversalCrashes, TraversalEnds, server
  <2> QED
    BY <1>2, <2>1, <2>2, <2>3, <2>4 DEF Connector
<1>3. ~OtherClient
  BY DEF OtherClient
<1> QED
  BY <1>1, <1>2, <1>3 DEF Next

\* Of all steps of a call only its deletion takes a name away, and it is one that was asked for.
LEMMA DeletesNamed ==
  ASSUME Inv, Next, changes' = changes, ~strayed, call.op = "delete_by_idx" => ~relinked,
         NEW o \in Object, NEW n \in Name, Has(attrs, o, n), ~Has(attrs', o, n)
  PROVE  <<o, n>> \in named
<1>1. Proper(attrs) /\ changes \in Nat
  BY DEF Inv, Shaped
<1>2. CASE Delete
  <2>1. /\ pc \in {"delete", "delete_old"} /\ attrs' = Without(attrs, at, name) /\ at \in Object
        /\ Running
    BY <1>2 DEF Delete, Inv, Shaped, Requests, Running
  <2>2. o = at /\ n = name
    <3>1. \A x \in Object : Of(attrs', x) =
            IF x = at THEN {a \in Of(attrs, at) : a.name # name} ELSE Of(attrs, x)
      BY <1>1, <2>1, WithoutOf
    <3>2. Proper(attrs')
      BY <1>1, <2>1, WithoutOf
    <3>3. PICK a \in Of(attrs, o) : a.name = n
      BY <1>1, AttributesOf
    <3>4. a \notin Of(attrs', o)
      BY <3>2, <3>3, AttributesOf
    <3> QED
      BY <3>1, <3>3, <3>4
  <2>3. CASE call.op \in ByIdx
    <3>1. pc = "delete" /\ call.op = "delete_by_idx"
      BY <2>1, <2>3 DEF Inv, Staged, ByIdx
    <3> QED
      BY <2>2, <2>3, <3>1 DEF Inv, Meant
  <2>4. CASE call.op \notin ByIdx
    <3>1. at # Nothing
      BY <2>1, ObjectAssumption
    <3> QED
      BY <2>1, <2>2, <2>4, <3>1 DEF Inv, Meant
  <2> QED
    BY <2>3, <2>4
<1>3. CASE CreateNew
  <2> DEFINE m == call.new
  <2>1. /\ ~Has(attrs, at, m) /\ attrs' = Created(attrs, at, m, Empty)
        /\ at \in Object /\ m \in Name /\ Empty \in Value \cup {Empty, ErrorPage}
    BY <1>3 DEF CreateNew, Creatable, Without, Created, Inv, Shaped, Requests, Call
  <2> HIDE DEF m
  <2>2. Proper(attrs') /\ Of(attrs, o) \subseteq Of(attrs', o)
    BY <1>1, <2>1, CreatedOf
  <2>3. \E a \in Of(attrs, o) : a.name = n
    BY <1>1, AttributesOf
  <2> QED
    BY <2>2, <2>3, AttributesOf
<1>4. CASE WriteNew
  <2> DEFINE m == call.new
  <2>1. /\ Has(attrs, at, m) /\ attrs' = Written(attrs, at, m, buf)
        /\ at \in Object /\ m \in Name /\ buf \in Value \cup {Empty, ErrorPage}
    BY <1>4 DEF WriteNew, Inv, Shaped, Requests, Call
  <2> HIDE DEF m
  <2>2. Proper(attrs') /\ \A x \in Object : Of(attrs', x) =
          IF x = at THEN {a \in Of(attrs, at) : a.name # m} \cup {Attr(m, buf)} ELSE Of(attrs, x)
    BY <1>1, <2>1, WrittenOf
  <2>3. PICK a \in Of(attrs, o) : a.name = n
    BY <1>1, AttributesOf
  <2>4. \E b \in Of(attrs', o) : b.name = n
    <3>1. CASE o = at /\ n = m
      <4>1. Attr(m, buf) \in Of(attrs', o) /\ Attr(m, buf).name = n
        BY <2>2, <3>1 DEF Attr
      <4> QED
        BY <4>1
    <3>2. CASE o # at \/ n # m
      <4>1. a \in Of(attrs', o)
        BY <2>2, <2>3, <3>2
      <4> QED
        BY <2>3, <4>1
    <3> QED
      BY <3>1, <3>2
  <2> QED
    BY <2>2, <2>4, AttributesOf
<1>5. CASE attrs' = attrs
  BY <1>5
<1> QED
  BY <1>1, <1>2, <1>3, <1>4, <1>5, ChangingSteps

\* What a call is asked to delete it deletes, and nothing from a file opened for reading.
THEOREM ChangesAreAsAsked == Spec => ChangesAsAsked
<1>1. Inv /\ [Next]_vars =>
        [changes' = changes /\ ~strayed /\ (call.op = "delete_by_idx" => ~relinked) =>
           \A o \in Object, n \in Name :
             Has(attrs, o, n) /\ ~Has(attrs', o, n) => <<o, n>> \in named]_vars
  BY DeletesNamed
<1>2. Inv /\ [Next]_vars =>
        [~rdwr /\ changes' = changes /\ call.op # "delete_by_idx" => attrs' = attrs]_vars
  <2> SUFFICES ASSUME Inv, Next, ~rdwr, changes' = changes, call.op # "delete_by_idx"
               PROVE  attrs' = attrs
    OBVIOUS
  <2>1. changes \in Nat
    BY DEF Inv, Shaped
  <2>2. ~Delete
    BY DEF Delete, Inv, Staged
  <2>3. ~CreateNew /\ ~WriteNew
    BY DEF CreateNew, Creatable, WriteNew, Inv, Staged
  <2> QED
    BY <2>1, <2>2, <2>3, ChangingSteps
<1>3. Spec => DeletesOnlyNamed
  BY <1>1, Invariance, PTL DEF Spec, DeletesOnlyNamed
<1>4. Spec => ReadOnlyAttributes
  BY <1>2, Invariance, PTL DEF Spec, ReadOnlyAttributes
<1> QED
  BY <1>3, <1>4 DEF ChangesAsAsked
=============================================================================
