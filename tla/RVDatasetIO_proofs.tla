-------------------------- MODULE RVDatasetIO_proofs --------------------------
(***************************************************************************)
(* Proofs about RVDatasetIO for any datasets, extents, selections and      *)
(* transfers.                                                              *)
(***************************************************************************)
EXTENDS RVDatasetIO, FiniteSetTheorems, WellFoundedInduction, TLAPS

(* Numbers, finite sets and sequences. *)

LEMMA Least ==
  ASSUME NEW S, S \subseteq Nat, S # {}
  PROVE  \E m \in S : \A y \in S : m <= y
<1> DEFINE R == OpToRel(<, Nat)
<1>1. IsWellFoundedOn(R, Nat)
  BY NatLessThanWellFounded
<1>2. \A x, y \in Nat : y < x => <<y, x>> \in R
  BY DEF OpToRel
<1> HIDE DEF R
<1>3. PICK m \in S : \A y \in S : <<y, m>> \notin R
  BY <1>1, WFMin
<1>4. \A y \in S : ~(y < m) /\ y \in Nat /\ m \in Nat
  BY <1>2, <1>3
<1>5. \A y \in S : m <= y
  BY <1>4
<1> QED
  BY <1>5

LEMMA Greatest ==
  ASSUME NEW n \in Nat, NEW S, S \subseteq 0 .. n, S # {}
  PROVE  \E m \in S : \A y \in S : y <= m
<1> DEFINE D == {n - k : k \in S}
<1>1. D \subseteq Nat /\ D # {}
  <2>1. \A k \in S : n - k \in Nat
    OBVIOUS
  <2> QED
    BY <2>1
<1>2. PICK d \in D : \A y \in D : d <= y
  <2> HIDE DEF D
  <2> QED
    BY <1>1, Least
<1>3. PICK m \in S : d = n - m
  OBVIOUS
<1>4. \A y \in S : n - y \in D
  OBVIOUS
<1> HIDE DEF D
<1>5. \A y \in S : y <= m
  BY <1>2, <1>3, <1>4
<1> QED
  BY <1>5

\* A set of numbers that has 0, and each number whose predecessor it has.
LEMMA UpTo ==
  ASSUME NEW n \in Nat, NEW T, 0 \in T, \A k \in 1 .. n : k - 1 \in T => k \in T
  PROVE  0 .. n \subseteq T
<1> DEFINE S == {k \in 0 .. n : k \notin T}
<1>1. SUFFICES ASSUME S # {} PROVE FALSE
  OBVIOUS
<1>2. PICK k \in S : \A y \in S : k <= y
  <2>1. S \subseteq Nat
    OBVIOUS
  <2> HIDE DEF S
  <2> QED
    BY <1>1, <2>1, Least
<1>3. k \in 1 .. n /\ k - 1 \in Nat /\ ~(k <= k - 1)
  OBVIOUS
<1>4. k - 1 \notin S
  <2> HIDE DEF S
  <2> QED
    BY <1>2, <1>3
<1> QED
  BY <1>3, <1>4

LEMMA IsSeq ==
  ASSUME NEW n \in Nat, NEW f, f = [j \in 1 .. n |-> f[j]]
  PROVE  Len(f) = n /\ DOMAIN f = 1 .. n
<1> DEFINE S == {f[j] : j \in 1 .. n}
<1>1. [j \in 1 .. n |-> f[j]] \in Seq(S)
  OBVIOUS
<1> QED
  BY <1>1

\* The image of a finite set.
LEMMA ImageFinite ==
  ASSUME NEW S, IsFiniteSet(S), NEW f, DOMAIN f = S
  PROVE  IsFiniteSet({f[x] : x \in S})
<1> DEFINE T == {f[x] : x \in S}
           g == [x \in S |-> f[x]]
<1>1. g \in Surjection(S, T)
  BY DEF Surjection
<1> QED
  BY <1>1, FS_Surjection

\* Functions are no more than their graphs.
LEMMA FunctionsFinite ==
  ASSUME NEW S, IsFiniteSet(S), NEW T, IsFiniteSet(T)
  PROVE  IsFiniteSet([S -> T])
<1> DEFINE graph == [f \in [S -> T] |-> {<<x, f[x]>> : x \in S}]
           P == SUBSET (S \X T)
<1>1. IsFiniteSet(P)
  BY FS_Product, FS_SUBSET
<1>2. graph \in [[S -> T] -> P]
  OBVIOUS
<1>3. \A f, g \in [S -> T] : graph[f] = graph[g] => f = g
  <2> SUFFICES ASSUME NEW f \in [S -> T], NEW g \in [S -> T], graph[f] = graph[g] PROVE f = g
    OBVIOUS
  <2>1. \A x \in S : <<x, f[x]>> \in graph[g]
    OBVIOUS
  <2>2. \A x \in S : f[x] = g[x]
    BY <2>1
  <2> QED
    BY <2>2
<1> HIDE DEF graph, P
<1>4. graph \in Injection([S -> T], P)
  BY <1>2, <1>3 DEF Injection, IsInjective
<1> QED
  BY <1>1, <1>4, FS_Injection

LEMMA CoordsFinite ==
  ASSUME NEW dims \in Seq(Nat \ {0})
  PROVE  IsFiniteSet(Coords(dims))
<1> DEFINE n == Len(dims)
           row(d) == 0 .. (d - 1)
           B == UNION {row(d) : d \in ToSet(dims)}
<1>1. n \in Nat /\ DOMAIN dims = 1 .. n /\ \A k \in 1 .. n : dims[k] \in Nat
  OBVIOUS
<1>2. IsFiniteSet(1 .. n)
  BY <1>1, FS_Interval
<1>3. IsFiniteSet({dims[k] : k \in 1 .. n})
  BY <1>1, <1>2, ImageFinite
<1>4. ToSet(dims) = {dims[k] : k \in 1 .. n} /\ ToSet(dims) \subseteq Nat
  BY <1>1 DEF ToSet
<1>5. IsFiniteSet({row(d) : d \in ToSet(dims)})
  <2> DEFINE D == ToSet(dims)
             f == [d \in D |-> row(d)]
  <2>1. {row(d) : d \in D} = {f[d] : d \in D}
    OBVIOUS
  <2>2. IsFiniteSet(D) /\ DOMAIN f = D
    BY <1>3, <1>4
  <2> HIDE DEF D, f
  <2>3. IsFiniteSet({f[d] : d \in D})
    BY <2>2, ImageFinite
  <2>4. IsFiniteSet({row(d) : d \in D})
    BY <2>1, <2>3
  <2> QED
    BY <2>4 DEF D
<1>6. ASSUME NEW d \in ToSet(dims) PROVE IsFiniteSet(row(d))
  <2>1. 0 \in Int /\ d - 1 \in Int
    BY <1>4
  <2> QED
    BY <2>1, FS_Interval
<1>7. IsFiniteSet(B)
  BY <1>5, <1>6, FS_UNION
<1>8. IsFiniteSet([DOMAIN dims -> B])
  BY <1>1, <1>2, <1>7, FunctionsFinite
<1> QED
  BY <1>8, FS_Subset DEF Coords

-----------------------------------------------------------------------------
(* How the elements of a space are numbered. *)

LEMMA NatTerm ==
  ASSUME NEW x \in Nat, NEW y \in Nat, NEW w \in Nat
  PROVE  x * y + w \in Nat
<1>1. x * y \in Nat
  OBVIOUS
<1> QED
  BY <1>1

\* The numbers that Horner goes through.
HornerFrom(f, n, z, a, b) ==
  /\ f \in [0 .. n -> Nat]
  /\ f[0] = z
  /\ \A k \in 1 .. n : f[k] = f[k - 1] * a[k] + b[k]

LEMMA HornerIs ==
  ASSUME NEW n \in Nat, NEW a \in [1 .. n -> Nat], NEW b \in [1 .. n -> Nat], NEW z \in Nat
  PROVE  \E f : HornerFrom(f, n, z, a, b) /\ Horner(z, a, b) = f[n]
<1> DEFINE Solves(g) == g = [k \in 0 .. n |-> IF k = 0 THEN z ELSE g[k - 1] * a[k] + b[k]]
           T == {m \in 0 .. n : \E f : HornerFrom(f, m, z, a, b)}
<1>1. Len(a) = n
  BY IsSeq
<1>2. 0 \in T
  <2>1. HornerFrom([k \in 0 .. 0 |-> z], 0, z, a, b)
    BY DEF HornerFrom
  <2> QED
    BY <2>1
<1>3. ASSUME NEW m \in 1 .. n, m - 1 \in T PROVE m \in T
  <2>1. PICK f : HornerFrom(f, m - 1, z, a, b)
    BY <1>3
  <2> DEFINE v == f[m - 1] * a[m] + b[m]
             g == [k \in 0 .. m |-> IF k = m THEN v ELSE f[k]]
  <2>2. f \in [0 .. (m - 1) -> Nat] /\ f[0] = z /\ \A k \in 1 .. (m - 1) : f[k] = f[k - 1] * a[k] + b[k]
    BY <2>1 DEF HornerFrom
  <2>3. v \in Nat
    <3>1. m - 1 \in 0 .. (m - 1)
      OBVIOUS
    <3>2. f[m - 1] \in Nat /\ a[m] \in Nat /\ b[m] \in Nat
      BY <2>2, <3>1
    <3> QED
      BY <3>2, NatTerm
  <2>4. v = f[m - 1] * a[m] + b[m]
    OBVIOUS
  <2> HIDE DEF v
  <2>5. g \in [0 .. m -> Nat]
    BY <2>2, <2>3
  <2>6. g[0] = z /\ g[m] = v /\ \A k \in 0 .. (m - 1) : g[k] = f[k]
    BY <2>2
  <2> HIDE DEF g
  <2>7. \A k \in 1 .. m : g[k] = g[k - 1] * a[k] + b[k]
    <3> TAKE k \in 1 .. m
    <3>1. g[k - 1] = f[k - 1]
      BY <2>6
    <3>2. CASE k = m
      BY <2>4, <2>6, <3>1, <3>2
    <3>3. CASE k # m
      <4>1. k \in 1 .. (m - 1) /\ g[k] = f[k]
        BY <2>6, <3>3
      <4>2. f[k] = f[k - 1] * a[k] + b[k]
        BY <2>2, <4>1
      <4> QED
        BY <3>1, <4>1, <4>2
    <3> QED
      BY <3>2, <3>3
  <2>8. HornerFrom(g, m, z, a, b)
    BY <2>2, <2>5, <2>6, <2>7 DEF HornerFrom
  <2> QED
    BY <2>8
<1>4. PICK f : HornerFrom(f, n, z, a, b)
  <2> HIDE DEF T
  <2>1. 0 .. n \subseteq T
    BY <1>2, <1>3, UpTo
  <2>2. n \in T
    BY <2>1
  <2> QED
    BY <2>2 DEF T
<1>5. Solves(f)
  BY <1>4 DEF HornerFrom
<1> DEFINE g == CHOOSE g : Solves(g)
<1>6. Solves(g)
  BY <1>5
<1>7. Horner(z, a, b) = g[n]
  BY <1>1 DEF Horner
<1> HIDE DEF g
<1>8. g[0] = z /\ \A k \in 1 .. n : g[k] = g[k - 1] * a[k] + b[k]
  BY <1>6
<1>9. g = [k \in 0 .. n |-> g[k]]
  BY <1>6
<1>10. \A k \in 0 .. n : g[k] = f[k]
  <2> DEFINE S == {k \in 0 .. n : g[k] = f[k]}
  <2>1. 0 \in S
    BY <1>4, <1>8 DEF HornerFrom
  <2>2. ASSUME NEW k \in 1 .. n, k - 1 \in S PROVE k \in S
    BY <1>4, <1>8, <2>2 DEF HornerFrom
  <2> HIDE DEF S
  <2>3. 0 .. n \subseteq S
    BY <2>1, <2>2, UpTo
  <2> QED
    BY <2>3 DEF S
<1> QED
  BY <1>4, <1>7, <1>10

\* One step of it.
Digit(u, x, w, c) == u \in Nat /\ x \in Nat /\ w \in Nat /\ c \in Nat /\ u = x * w + c

LEMMA Digits ==
  ASSUME NEW x, NEW y, NEW w, NEW c, NEW d, NEW u, NEW v, Digit(u, x, w, c), Digit(v, y, w, d)
  PROVE  /\ x = y /\ c = d => u = v
         /\ x <= y /\ c <= d => u <= v
         /\ x < y /\ c < w => u < v
         /\ x = y /\ d = c + 1 => v = u + 1
         /\ y = x + 1 /\ c = w - 1 /\ d = 0 => v = u + 1
<1>0. x \in Nat /\ y \in Nat /\ w \in Nat /\ c \in Nat /\ d \in Nat /\ u \in Nat /\ v \in Nat
  BY DEF Digit
<1> DEFINE p == x * w
           q == y * w
           r == (x + 1) * w
<1>1. p \in Nat /\ q \in Nat /\ r \in Nat
  BY <1>0
<1>2. r = p + w
  BY <1>0
<1>3. (x <= y => p <= q) /\ (x + 1 <= y => r <= q) /\ (y = x + 1 => q = r) /\ (x = y => p = q)
  <2>1. x <= y => p <= q
    BY <1>0
  <2>2. x + 1 <= y => r <= q
    BY <1>0
  <2> QED
    BY <2>1, <2>2
<1>4. u = p + c /\ v = q + d
  BY DEF Digit
<1> HIDE DEF p, q, r
<1>5. x < y => x + 1 <= y
  BY <1>0
<1>6. x < y /\ c < w => u < v
  BY <1>0, <1>1, <1>2, <1>3, <1>4, <1>5
<1>7. x <= y /\ c <= d => u <= v
  BY <1>0, <1>1, <1>3, <1>4
<1>8. y = x + 1 /\ c = w - 1 /\ d = 0 => v = u + 1
  BY <1>0, <1>1, <1>2, <1>3, <1>4
<1>9. (x = y /\ c = d => u = v) /\ (x = y /\ d = c + 1 => v = u + 1)
  BY <1>0, <1>1, <1>3, <1>4
<1> QED
  BY <1>6, <1>7, <1>8, <1>9

LEMMA DigitZero ==
  ASSUME NEW x, NEW w, NEW c, NEW u, Digit(u, x, w, c)
  PROVE  /\ x > 0 /\ w > 0 => u > 0
         /\ w > 0 /\ u = 0 => x = 0 /\ c = 0
         /\ x = 0 /\ c = 0 => u = 0
<1>0. x \in Nat /\ w \in Nat /\ c \in Nat /\ u \in Nat
  BY DEF Digit
<1> DEFINE p == x * w
<1>1. p \in Nat /\ (x > 0 /\ w > 0 => p > 0) /\ (x = 0 => p = 0)
  <2>1. x * w \in Nat
    BY <1>0
  <2>2. x > 0 /\ w > 0 => x * w > 0
    BY <1>0
  <2>3. x = 0 => x * w = 0
    BY <1>0
  <2> QED
    BY <2>1, <2>2, <2>3
<1>2. u = p + c
  BY DEF Digit
<1> HIDE DEF p
<1> QED
  BY <1>0, <1>1, <1>2

LEMMA HornerStep ==
  ASSUME NEW n \in Nat, NEW a \in [1 .. n -> Nat], NEW b \in [1 .. n -> Nat], NEW z,
         NEW f, HornerFrom(f, n, z, a, b)
  PROVE  \A k \in 1 .. n : Digit(f[k], f[k - 1], a[k], b[k])
<1> TAKE k \in 1 .. n
<1>1. k - 1 \in 0 .. n /\ k \in 0 .. n
  OBVIOUS
<1>2. f \in [0 .. n -> Nat] /\ f[k] = f[k - 1] * a[k] + b[k]
  BY DEF HornerFrom
<1> QED
  BY <1>1, <1>2 DEF Digit

LEMMA DimsAre ==
  ASSUME NEW dims \in Seq(Nat \ {0})
  PROVE  /\ Len(dims) \in Nat /\ DOMAIN dims = 1 .. Len(dims) /\ dims \in [1 .. Len(dims) -> Nat]
         /\ \A k \in 1 .. Len(dims) : dims[k] \in Nat \ {0}
  OBVIOUS

LEMMA LinearIs ==
  ASSUME NEW dims \in Seq(Nat \ {0}), NEW c \in [DOMAIN dims -> Nat]
  PROVE  /\ \E f : HornerFrom(f, Len(dims), 0, dims, c) /\ Linear(dims, c) = f[Len(dims)]
         /\ c \in [1 .. Len(dims) -> Nat]
<1> DEFINE n == Len(dims)
<1>1. n \in Nat /\ DOMAIN dims = 1 .. n /\ dims \in [1 .. n -> Nat]
  BY DimsAre
<1>2. c \in [1 .. n -> Nat]
  BY <1>1
<1> HIDE DEF n
<1>3. \E f : HornerFrom(f, n, 0, dims, c) /\ Horner(0, dims, c) = f[n]
  <2>1. 0 \in Nat
    OBVIOUS
  <2> QED
    BY <1>1, <1>2, <2>1, HornerIs
<1> QED
  BY <1>2, <1>3 DEF Linear, n

\* A space has one element at least, and its elements are numbered below their number.
LEMMA SizeIs ==
  ASSUME NEW dims \in Seq(Nat \ {0})
  PROVE  /\ Size(dims) \in Nat \ {0}
         /\ \A c \in [DOMAIN dims -> Nat] :
              /\ Linear(dims, c) \in Nat
              /\ (\A k \in DOMAIN dims : c[k] < dims[k]) => Linear(dims, c) < Size(dims)
<1> DEFINE n == Len(dims)
           o == [k \in 1 .. n |-> 0]
<1>1. n \in Nat /\ DOMAIN dims = 1 .. n /\ dims \in [1 .. n -> Nat]
      /\ \A k \in 1 .. n : dims[k] \in Nat \ {0}
  BY DimsAre
<1>2. o \in [1 .. n -> Nat] /\ \A k \in 1 .. n : o[k] = 0
  OBVIOUS
<1>3. Size(dims) = Horner(1, dims, o)
  BY <1>1 DEF Size
<1> HIDE DEF o
<1>4. PICK s : HornerFrom(s, n, 1, dims, o) /\ Size(dims) = s[n]
  <2>1. 1 \in Nat
    OBVIOUS
  <2> HIDE DEF n
  <2>2. \E s : HornerFrom(s, n, 1, dims, o) /\ Horner(1, dims, o) = s[n]
    BY <1>1, <1>2, <2>1, HornerIs
  <2> QED
    BY <1>3, <2>2
<1>n. \A c \in [DOMAIN dims -> Nat] : \E f : /\ HornerFrom(f, n, 0, dims, c) /\ Linear(dims, c) = f[n]
                                           /\ c \in [1 .. n -> Nat]
  BY LinearIs
<1> HIDE DEF n
<1>5. \A k \in 1 .. n : /\ Digit(s[k], s[k - 1], dims[k], o[k])
  BY <1>1, <1>2, <1>4, HornerStep
<1>6. s[0] = 1
  BY <1>4 DEF HornerFrom
<1>7. \A k \in 0 .. n : s[k] > 0
  <2> DEFINE T == {k \in 0 .. n : s[k] > 0}
  <2>1. 0 \in T
    BY <1>1, <1>6
  <2>2. ASSUME NEW k \in 1 .. n, k - 1 \in T PROVE k \in T
    <3>1. dims[k] > 0 /\ s[k - 1] > 0
      BY <1>1, <2>2
    <3>2. s[k] > 0
      BY <1>5, <3>1, DigitZero
    <3> QED
      BY <3>2
  <2> HIDE DEF T
  <2>3. 0 .. n \subseteq T
    BY <1>1, <2>1, <2>2, UpTo
  <2> QED
    BY <2>3 DEF T
<1>8. s[n] \in Nat \ {0}
  <2>1. s[n] \in Nat
    BY <1>1, <1>4 DEF HornerFrom
  <2> QED
    BY <1>1, <1>7, <2>1
<1>9. ASSUME NEW c \in [DOMAIN dims -> Nat]
      PROVE  /\ Linear(dims, c) \in Nat
             /\ (\A k \in DOMAIN dims : c[k] < dims[k]) => Linear(dims, c) < Size(dims)
  <2>1. PICK f : HornerFrom(f, n, 0, dims, c) /\ Linear(dims, c) = f[n] /\ c \in [1 .. n -> Nat]
    BY <1>n
  <2>2. Linear(dims, c) \in Nat
    BY <1>1, <2>1 DEF HornerFrom
  <2>3. ASSUME \A k \in DOMAIN dims : c[k] < dims[k] PROVE f[n] < s[n]
    <3> DEFINE T == {k \in 0 .. n : f[k] < s[k]}
    <3>1. 0 \in T
      BY <1>1, <1>6, <2>1 DEF HornerFrom
    <3>2. ASSUME NEW k \in 1 .. n, k - 1 \in T PROVE k \in T
      <4>1. Digit(f[k], f[k - 1], dims[k], c[k])
        BY <1>1, <2>1, HornerStep
      <4>2. c[k] < dims[k] /\ f[k - 1] < s[k - 1]
        BY <1>1, <2>3, <3>2
      <4>3. Digit(s[k], s[k - 1], dims[k], o[k])
        BY <1>5
      <4>4. f[k - 1] < s[k - 1] /\ c[k] < dims[k] => f[k] < s[k]
        BY <4>1, <4>3, Digits
      <4> QED
        BY <4>2, <4>4
    <3> HIDE DEF T
    <3>3. 0 .. n \subseteq T
      BY <1>1, <3>1, <3>2, UpTo
    <3>4. n \in T
      BY <1>1, <3>3
    <3> QED
      BY <3>4 DEF T
  <2> QED
    BY <1>4, <2>1, <2>2, <2>3
<1> QED
  BY <1>4, <1>8, <1>9

\* Greater coordinates have greater numbers.
LEMMA Monotone ==
  ASSUME NEW dims \in Seq(Nat \ {0}), NEW c \in [DOMAIN dims -> Nat], NEW d \in [DOMAIN dims -> Nat],
         \A k \in DOMAIN dims : c[k] <= d[k]
  PROVE  Linear(dims, c) <= Linear(dims, d)
<1> DEFINE n == Len(dims)
<1>1. n \in Nat /\ DOMAIN dims = 1 .. n /\ dims \in [1 .. n -> Nat]
  BY DimsAre
<1>2. PICK f : HornerFrom(f, n, 0, dims, c) /\ Linear(dims, c) = f[n] /\ c \in [1 .. n -> Nat]
  BY LinearIs
<1>3. PICK g : HornerFrom(g, n, 0, dims, d) /\ Linear(dims, d) = g[n] /\ d \in [1 .. n -> Nat]
  BY LinearIs
<1> HIDE DEF n
<1> DEFINE T == {k \in 0 .. n : f[k] <= g[k]}
<1>4. 0 \in T
  BY <1>1, <1>2, <1>3 DEF HornerFrom
<1>5. ASSUME NEW k \in 1 .. n, k - 1 \in T PROVE k \in T
  <2>1. Digit(f[k], f[k - 1], dims[k], c[k])
    BY <1>1, <1>2, HornerStep
  <2>2. Digit(g[k], g[k - 1], dims[k], d[k])
    BY <1>1, <1>3, HornerStep
  <2>3. f[k - 1] <= g[k - 1] /\ c[k] <= d[k]
    BY <1>1, <1>5
  <2>4. f[k - 1] <= g[k - 1] /\ c[k] <= d[k] => f[k] <= g[k]
    BY <2>1, <2>2, Digits
  <2> QED
    BY <2>3, <2>4
<1> HIDE DEF T
<1>6. 0 .. n \subseteq T
  BY <1>1, <1>4, <1>5, UpTo
<1>7. n \in T
  BY <1>1, <1>6
<1> QED
  BY <1>2, <1>3, <1>7 DEF T

\* Only the first element has number 0.
LEMMA AtZero ==
  ASSUME NEW dims \in Seq(Nat \ {0}), NEW c \in [DOMAIN dims -> Nat], Linear(dims, c) = 0
  PROVE  \A k \in DOMAIN dims : c[k] = 0
<1> DEFINE n == Len(dims)
<1>1. n \in Nat /\ DOMAIN dims = 1 .. n /\ dims \in [1 .. n -> Nat]
      /\ \A k \in 1 .. n : dims[k] \in Nat \ {0}
  BY DimsAre
<1>2. PICK f : HornerFrom(f, n, 0, dims, c) /\ Linear(dims, c) = f[n] /\ c \in [1 .. n -> Nat]
  BY LinearIs
<1> HIDE DEF n
<1> DEFINE T == {k \in 0 .. n : f[k] = 0 => \A j \in 1 .. k : c[j] = 0}
<1>3. 0 \in T
  BY <1>1
<1>4. ASSUME NEW k \in 1 .. n, k - 1 \in T PROVE k \in T
  <2>0. (f[k - 1] = 0 => \A j \in 1 .. (k - 1) : c[j] = 0)
    BY <1>4
  <2>1. SUFFICES ASSUME f[k] = 0 PROVE \A j \in 1 .. k : c[j] = 0
    BY <1>1
  <2>2. Digit(f[k], f[k - 1], dims[k], c[k])
    BY <1>1, <1>2, HornerStep
  <2>4. dims[k] > 0
    BY <1>1
  <2>5. c[k] = 0 /\ f[k - 1] = 0
    BY <2>1, <2>2, <2>4, DigitZero
  <2>6. \A j \in 1 .. (k - 1) : c[j] = 0
    BY <2>0, <2>5
  <2> QED
    BY <1>1, <2>5, <2>6
<1> HIDE DEF T
<1>5. 0 .. n \subseteq T
  BY <1>1, <1>3, <1>4, UpTo
<1>6. n \in T
  BY <1>1, <1>5
<1> QED
  BY <1>1, <1>2, <1>6 DEF T

LEMMA ZeroOffset ==
  ASSUME NEW n \in Nat, NEW a \in [1 .. n -> Nat], NEW b \in [1 .. n -> Nat], \A k \in 1 .. n : b[k] = 0
  PROVE  Horner(0, a, b) = 0
<1>1. PICK f : HornerFrom(f, n, 0, a, b) /\ Horner(0, a, b) = f[n]
  BY HornerIs
<1> DEFINE T == {k \in 0 .. n : f[k] = 0}
<1>2. 0 \in T
  BY <1>1 DEF HornerFrom
<1>3. ASSUME NEW k \in 1 .. n, k - 1 \in T PROVE k \in T
  <2>1. Digit(f[k], f[k - 1], a[k], b[k])
    BY <1>1, HornerStep
  <2>2. f[k - 1] = 0 /\ b[k] = 0
    BY <1>3
  <2>3. f[k] = 0
    BY <2>1, <2>2, DigitZero
  <2> QED
    BY <2>3
<1> HIDE DEF T
<1>4. 0 .. n \subseteq T
  BY <1>2, <1>3, UpTo
<1>5. n \in T
  BY <1>4
<1> QED
  BY <1>1, <1>5 DEF T

\* The next element: one further in dimension j, and back to the beginning in all dimensions
\* after it, which were at their ends.
LEMMA Following ==
  ASSUME NEW dims \in Seq(Nat \ {0}), NEW c \in [DOMAIN dims -> Nat], NEW d \in [DOMAIN dims -> Nat],
         NEW j \in DOMAIN dims, d[j] = c[j] + 1,
         \A k \in DOMAIN dims : /\ k < j => d[k] = c[k]
                                /\ k > j => c[k] = dims[k] - 1 /\ d[k] = 0
  PROVE  Linear(dims, d) = Linear(dims, c) + 1
<1> DEFINE n == Len(dims)
<1>1. n \in Nat /\ DOMAIN dims = 1 .. n /\ dims \in [1 .. n -> Nat] /\ j \in 1 .. n
  BY DimsAre
<1>2. PICK f : HornerFrom(f, n, 0, dims, c) /\ Linear(dims, c) = f[n] /\ c \in [1 .. n -> Nat]
  BY LinearIs
<1>3. PICK g : HornerFrom(g, n, 0, dims, d) /\ Linear(dims, d) = g[n] /\ d \in [1 .. n -> Nat]
  BY LinearIs
<1> HIDE DEF n
<1> DEFINE T == {k \in 0 .. n : g[k] = IF k < j THEN f[k] ELSE f[k] + 1}
<1>4. 0 \in T
  BY <1>1, <1>2, <1>3 DEF HornerFrom
<1>5. ASSUME NEW k \in 1 .. n, k - 1 \in T PROVE k \in T
  <2>1. Digit(f[k], f[k - 1], dims[k], c[k])
    BY <1>1, <1>2, HornerStep
  <2>2. Digit(g[k], g[k - 1], dims[k], d[k])
    BY <1>1, <1>3, HornerStep
  <2>3. g[k - 1] = IF k - 1 < j THEN f[k - 1] ELSE f[k - 1] + 1
    BY <1>5
  <2>4. (k < j => d[k] = c[k]) /\ (k > j => c[k] = dims[k] - 1 /\ d[k] = 0)
    BY <1>1
  <2>5. CASE k < j
    <3>1. g[k - 1] = f[k - 1] /\ d[k] = c[k]
      BY <1>1, <2>3, <2>4, <2>5
    <3>2. f[k - 1] = g[k - 1] /\ c[k] = d[k] => f[k] = g[k]
      BY <2>1, <2>2, Digits
    <3> QED
      BY <2>5, <3>1, <3>2
  <2>6. CASE k = j
    <3>1. g[k - 1] = f[k - 1] /\ d[k] = c[k] + 1
      BY <1>1, <2>3, <2>6
    <3>2. f[k - 1] = g[k - 1] /\ d[k] = c[k] + 1 => g[k] = f[k] + 1
      BY <2>1, <2>2, Digits
    <3> QED
      BY <1>1, <2>6, <3>1, <3>2
  <2>7. CASE k > j
    <3>1. g[k - 1] = f[k - 1] + 1 /\ c[k] = dims[k] - 1 /\ d[k] = 0
      BY <1>1, <2>3, <2>4, <2>7
    <3>2. g[k - 1] = f[k - 1] + 1 /\ c[k] = dims[k] - 1 /\ d[k] = 0 => g[k] = f[k] + 1
      BY <2>1, <2>2, Digits
    <3> QED
      BY <1>1, <2>7, <3>1, <3>2
  <2> QED
    BY <1>1, <2>5, <2>6, <2>7
<1> HIDE DEF T
<1>6. 0 .. n \subseteq T
  BY <1>1, <1>4, <1>5, UpTo
<1>7. n \in T
  BY <1>1, <1>6
<1>8. ~(n < j)
  BY <1>1
<1> QED
  BY <1>2, <1>3, <1>7, <1>8 DEF T

-----------------------------------------------------------------------------
(* Selections. *)

\* The elements of a selection are a sequence.
LEMMA ElementsAre ==
  ASSUME NEW sp, IsSpace(sp)
  PROVE  /\ NPoints(sp) \in Nat /\ DOMAIN Elements(sp) = 1 .. NPoints(sp)
         /\ Elements(sp) = <<>> <=> NPoints(sp) = 0
<1> DEFINE s == sp.sel
           E == Elements(sp)
<1>1. sp.dims \in Seq(Nat \ {0}) /\ IsSelection(s, Len(sp.dims))
  BY DEF IsSpace
<1> HIDE DEF s
<1>2. \E n \in Nat : E = [j \in 1 .. n |-> E[j]]
  <2>1. CASE s = AllSel
    <3>1. E = [n \in 1 .. Size(sp.dims) |-> n - 1]
      BY <2>1 DEF Elements, AllSel, s
    <3>2. Size(sp.dims) \in Nat
      BY <1>1, SizeIs
    <3> HIDE DEF E
    <3> QED
      BY <3>1, <3>2
  <2>2. CASE s = NoneSel
    <3>1. E = <<>>
      BY <2>2 DEF Elements, NoneSel, s
    <3>2. <<>> = [j \in 1 .. 0 |-> <<>>[j]]
      OBVIOUS
    <3> QED
      BY <3>1, <3>2
  <2>3. CASE s.type = "points" /\ s.points \in Seq([1 .. Len(sp.dims) -> Nat])
    <3>1. E = [n \in DOMAIN s.points |-> Linear(sp.dims, s.points[n])]
      BY <2>3 DEF Elements, s
    <3>2. DOMAIN s.points = 1 .. Len(s.points) /\ Len(s.points) \in Nat
      BY <2>3
    <3> HIDE DEF E
    <3> QED
      BY <3>1, <3>2
  <2>4. CASE s.type = "hyper"
    <3> DEFINE C == {x \in Coords(sp.dims) : \A k \in DOMAIN x : InBlocks(s, k, x[k])}
               L == {Linear(sp.dims, c) : c \in C}
    <3>1. E = InOrder(L)
      BY <2>4 DEF Elements, s
    <3>2. IsFiniteSet(C)
      BY <1>1, CoordsFinite, FS_Subset
    <3> HIDE DEF C
    <3>3. IsFiniteSet(L)
      <4> DEFINE f == [c \in C |-> Linear(sp.dims, c)]
      <4>1. L = {f[c] : c \in C} /\ DOMAIN f = C
        OBVIOUS
      <4> HIDE DEF f
      <4> QED
        BY <3>2, <4>1, ImageFinite
    <3>4. Cardinality(L) \in Nat
      BY <3>3, FS_CardinalityType
    <3> HIDE DEF E, L
    <3> QED
      BY <3>1, <3>4 DEF InOrder
  <2>5. \/ s = AllSel \/ s = NoneSel \/ s.type = "hyper"
        \/ s.type = "points" /\ s.points \in Seq([1 .. Len(sp.dims) -> Nat])
    BY <1>1 DEF IsSelection
  <2> QED
    BY <2>1, <2>2, <2>3, <2>4, <2>5
<1>3. PICK n \in Nat : E = [j \in 1 .. n |-> E[j]]
  BY <1>2
<1> HIDE DEF E
<1>4. Len(E) = n /\ DOMAIN E = 1 .. n
  BY <1>3, IsSeq
<1>5. E = <<>> <=> n = 0
  <2>1. E = <<>> => n = 0
    BY <1>4
  <2>2. n = 0 => E = <<>>
    BY <1>3, <1>4
  <2> QED
    BY <2>1, <2>2
<1> QED
  BY <1>4, <1>5 DEF NPoints, E

-----------------------------------------------------------------------------
(* Triplets start:stop:step and the blocks of a hyperslab. *)

LEMMA DivMod ==
  ASSUME NEW y \in Nat, NEW t \in Nat \ {0}
  PROVE  /\ y \div t \in Nat /\ y % t \in 0 .. (t - 1)
         /\ y = (y \div t) * t + (y % t)
<1>1. y \div t \in Int /\ y \div t >= 0
  OBVIOUS
<1>2. y % t \in 0 .. (t - 1)
  OBVIOUS
<1>3. y = (y \div t) * t + (y % t)
  OBVIOUS
<1> QED
  BY <1>1, <1>2, <1>3

LEMMA Below ==
  ASSUME NEW n \in Nat, NEW m \in Nat, NEW t \in Nat \ {0}, NEW r \in 0 .. (t - 1)
  PROVE  n <= m <=> n * t + r < m * t + t
<1>1. n <= m => n * t <= m * t
  OBVIOUS
<1>2. m + 1 <= n => (m + 1) * t <= n * t
  OBVIOUS
<1>3. (m + 1) * t = m * t + t
  OBVIOUS
<1>4. n * t \in Int /\ m * t \in Int
  OBVIOUS
<1> QED
  BY <1>1, <1>2, <1>3, <1>4

\* Blocks of one element at every stride.
AtStride(a, t, c, x) == \E n \in 0 .. (c - 1) : x = a + n * t
InSteps(a, t, c, x) == x >= a /\ x < a + t * (c - 1) + 1 /\ (x - a) % t = 0

LEMMA OneElementBlocks ==
  ASSUME NEW a \in Nat, NEW t \in Nat \ {0}, NEW c \in Nat \ {0}, NEW x \in Nat
  PROVE  AtStride(a, t, c, x) <=> InSteps(a, t, c, x)
<1>1. ASSUME NEW n \in 0 .. (c - 1), x = a + n * t
      PROVE  x >= a /\ x < a + t * (c - 1) + 1 /\ (x - a) % t = 0
  <2>1. n * t <= (c - 1) * t /\ n * t \in Nat
    OBVIOUS
  <2>2. x - a = n * t
    BY <1>1, <2>1
  <2>3. (n * t) % t = 0
    OBVIOUS
  <2>4. (c - 1) * t = t * (c - 1) /\ t * (c - 1) \in Nat
    OBVIOUS
  <2> QED
    BY <1>1, <2>1, <2>2, <2>3, <2>4
<1>2. ASSUME x >= a, x < a + t * (c - 1) + 1, (x - a) % t = 0
      PROVE  \E n \in 0 .. (c - 1) : x = a + n * t
  <2> DEFINE n == (x - a) \div t
  <2>1. n \in Nat /\ x - a = n * t + 0
    BY <1>2, DivMod
  <2> HIDE DEF n
  <2>2. n * t + 0 < (c - 1) * t + t
    <3>1. t * (c - 1) = (c - 1) * t /\ t * (c - 1) \in Nat /\ n * t \in Nat
      BY <2>1
    <3> QED
      BY <1>2, <2>1, <3>1
  <2>3. n <= c - 1
    BY <2>1, <2>2, Below
  <2>4. x = a + n * t
    <3>1. n * t \in Nat
      BY <2>1
    <3> QED
      BY <2>1, <3>1
  <2> QED
    BY <2>1, <2>3, <2>4
<1> QED
  BY <1>1, <1>2 DEF AtStride, InSteps

\* Blocks that follow one another.
LEMMA Gapless ==
  ASSUME NEW a \in Nat, NEW b \in Nat \ {0}, NEW c \in Nat \ {0}, NEW x \in Nat
  PROVE  (\E n \in 0 .. (c - 1), m \in 0 .. (b - 1) : x = a + n * b + m)
         <=> x >= a /\ x < a + b * (c - 1) + b
<1>0. b * (c - 1) = (c - 1) * b /\ b * (c - 1) \in Nat
  OBVIOUS
<1>1. ASSUME NEW n \in 0 .. (c - 1), NEW m \in 0 .. (b - 1), x = a + n * b + m
      PROVE  x >= a /\ x < a + b * (c - 1) + b
  <2>1. n * b + m < (c - 1) * b + b
    BY Below
  <2>2. n * b \in Nat
    OBVIOUS
  <2> QED
    BY <1>0, <1>1, <2>1, <2>2
<1>2. ASSUME x >= a, x < a + b * (c - 1) + b
      PROVE  \E n \in 0 .. (c - 1), m \in 0 .. (b - 1) : x = a + n * b + m
  <2> DEFINE n == (x - a) \div b
             m == (x - a) % b
  <2>0. x - a \in Nat
    BY <1>2
  <2>1. n \in Nat /\ m \in 0 .. (b - 1) /\ x - a = n * b + m
    BY <2>0, DivMod
  <2> HIDE DEF n, m
  <2>2. n * b \in Nat
    BY <2>1
  <2>3. n * b + m < (c - 1) * b + b
    BY <1>0, <1>2, <2>1, <2>2
  <2>4. n <= c - 1
    BY <2>1, <2>3, Below
  <2>5. x = a + n * b + m
    BY <2>1, <2>2
  <2>6. n \in 0 .. (c - 1) /\ m \in 0 .. (b - 1)
    BY <2>1, <2>4
  <2> QED
    BY <2>5, <2>6, Zenon
<1> QED
  BY <1>1, <1>2

\* Where triplets can say what is selected, blocks and triplets take in the same coordinates.
ByBlocks(a, t, c, b, x) == \E n \in 0 .. (c - 1), m \in 0 .. (b - 1) : x = a + n * t + m
ByTriplet(a, t, c, b, x) == x >= a /\ x < a + t * (c - 1) + b /\ (x - a) % (t \div b) = 0

LEMMA BlocksAreTriplets ==
  ASSUME NEW a \in Nat, NEW t \in Nat \ {0}, NEW c \in Nat \ {0}, NEW b \in Nat \ {0}, NEW x \in Nat,
         b = 1 \/ (t \div b = 1 /\ (c = 1 \/ t = b))
  PROVE  ByBlocks(a, t, c, b, x) <=> ByTriplet(a, t, c, b, x)
<1> USE DEF ByBlocks, ByTriplet
<1>1. CASE b = 1
  <2>1. t \div b = t
    BY <1>1
  <2>2. ASSUME NEW n \in 0 .. (c - 1), NEW m \in 0 .. (b - 1), x = a + n * t + m
        PROVE  x >= a /\ x < a + t * (c - 1) + b /\ (x - a) % (t \div b) = 0
    <3>1. x = a + n * t
      <4>1. m = 0 /\ n * t \in Int
        BY <1>1
      <4> QED
        BY <2>2, <4>1
    <3>2. AtStride(a, t, c, x)
      BY <3>1 DEF AtStride
    <3>3. InSteps(a, t, c, x)
      BY <3>2, OneElementBlocks
    <3> QED
      BY <1>1, <2>1, <3>3 DEF InSteps
  <2>3. ASSUME x >= a, x < a + t * (c - 1) + b, (x - a) % (t \div b) = 0
        PROVE  \E n \in 0 .. (c - 1), m \in 0 .. (b - 1) : x = a + n * t + m
    <3>1. x >= a /\ x < a + t * (c - 1) + 1 /\ (x - a) % t = 0
      BY <1>1, <2>1, <2>3
    <3>2. PICK n \in 0 .. (c - 1) : x = a + n * t
        BY <3>1, OneElementBlocks
    <3>3. n * t \in Int /\ 0 \in 0 .. (b - 1)
      BY <1>1
    <3>4. x = a + n * t + 0
      BY <3>2, <3>3
    <3> QED
      BY <3>3, <3>4, Zenon
  <2> QED
    BY <2>2, <2>3
<1>2. CASE t \div b = 1 /\ t = b
  <2>1. x >= a => (x - a) % 1 = 0
    OBVIOUS
  <2>2. (\E n \in 0 .. (c - 1), m \in 0 .. (b - 1) : x = a + n * b + m) <=> x >= a /\ x < a + b * (c - 1) + b
    BY Gapless
  <2> QED
    BY <1>2, <2>1, <2>2
<1>3. CASE t \div b = 1 /\ c = 1
  <2>1. x >= a => (x - a) % 1 = 0
    OBVIOUS
  <2>2. t * (c - 1) = 0 /\ 0 .. (c - 1) = {0} /\ 0 * t = 0
    BY <1>3
  <2>3. (\E n \in 0 .. (c - 1), m \in 0 .. (b - 1) : x = a + n * t + m)
        <=> \E m \in 0 .. (b - 1) : x = a + m
    BY <2>2
  <2>4. (\E m \in 0 .. (b - 1) : x = a + m) <=> x >= a /\ x < a + b
    <3>1. ASSUME x >= a, x < a + b PROVE x - a \in 0 .. (b - 1) /\ x = a + (x - a)
      BY <3>1
    <3> QED
      BY <3>1
  <2>5. x < a + t * (c - 1) + b <=> x < a + b
    BY <2>2
  <2>6. (x >= a /\ x < a + b /\ (x - a) % (t \div b) = 0) <=> x >= a /\ x < a + b
    BY <1>3, <2>1
  <2> QED
    BY <2>3, <2>4, <2>5, <2>6, Zenon
<1> QED
  BY <1>1, <1>2, <1>3

\* Asked with triplets that can say it, the server selects what the application selected.
LEMMA AskedIsSelected ==
  ASSUME NEW s, IsSelection(s, Len(Dims)), Expressible(s), s # NoneSel
  PROVE  Asked(Space(s)) = Elements(Space(s))
<1> DEFINE sp == Space(s)
<1>1. Len(Dims) \in Nat /\ DOMAIN Dims = 1 .. Len(Dims) /\ \A k \in DOMAIN Dims : Dims[k] \in Nat
  BY DatasetAssumption
<1>2. sp.sel = s /\ sp.dims = Dims
  BY DEF Space
<1>3. CASE s = AllSel
  <2>1. [sp EXCEPT !.sel = AllSel] = sp
    BY <1>3 DEF Space
  <2> QED
    BY <1>2, <1>3, <2>1 DEF Asked, AllSel
<1>4. CASE s.type = "points"
  BY <1>2, <1>4 DEF Asked
<1>5. CASE s \in [type : {"hyper"}, start : [1 .. Len(Dims) -> Nat], stride : [1 .. Len(Dims) -> Nat \ {0}],
                  count : [1 .. Len(Dims) -> Nat \ {0}], block : [1 .. Len(Dims) -> Nat \ {0}]]
  <2>1. s.type = "hyper" /\ DOMAIN s.start = DOMAIN Dims
    BY <1>1, <1>5
  <2>2. ASSUME NEW c \in Coords(Dims), NEW k \in DOMAIN c
        PROVE  InBlocks(s, k, c[k]) <=> InTriplet(s, k, c[k])
    <3>1. k \in DOMAIN Dims /\ c[k] \in UNION {0 .. (d - 1) : d \in ToSet(Dims)}
      BY <2>2 DEF Coords
    <3>2. c[k] \in Nat
      BY <3>1
    <3>3. s.start[k] \in Nat /\ s.stride[k] \in Nat \ {0} /\ s.count[k] \in Nat \ {0} /\ s.block[k] \in Nat \ {0}
      BY <1>1, <1>5, <3>1
    <3>4. s.block[k] = 1 \/ (s.stride[k] \div s.block[k] = 1 /\ (s.count[k] = 1 \/ s.stride[k] = s.block[k]))
      BY <2>1, <3>1 DEF Expressible, Step
    <3> DEFINE a == s.start[k]
               t == s.stride[k]
               m == s.count[k]
               b == s.block[k]
               x == c[k]
    <3> HIDE DEF a, t, m, b, x
    <3>5. a \in Nat /\ t \in Nat \ {0} /\ m \in Nat \ {0} /\ b \in Nat \ {0} /\ x \in Nat
      BY <3>2, <3>3 DEF a, t, m, b, x
    <3>6. b = 1 \/ (t \div b = 1 /\ (m = 1 \/ t = b))
      BY <3>4 DEF t, m, b
    <3>7. ByBlocks(a, t, m, b, x) <=> ByTriplet(a, t, m, b, x)
      BY <3>5, <3>6, BlocksAreTriplets
    <3> QED
      BY <3>7, Zenon DEF ByBlocks, ByTriplet, InBlocks, InTriplet, Stop, Step, a, t, m, b, x
  <2>3. {c \in Coords(Dims) : \A k \in DOMAIN c : InBlocks(s, k, c[k])}
          = {c \in Coords(Dims) : \A k \in DOMAIN c : InTriplet(s, k, c[k])}
    BY <2>2, Zenon
  <2> QED
    BY ZenonT(40), <1>2, <2>1, <2>3 DEF Asked, Elements
<1> QED
  BY <1>3, <1>4, <1>5 DEF IsSelection

-----------------------------------------------------------------------------
(* Contiguous selections. *)

\* Numbers of which each but the greatest is followed by the next: in order they count up
\* from the least.
LEMMA CountsUp ==
  ASSUME NEW S, IsFiniteSet(S), S \subseteq Nat, S # {},
         \A u \in S : u + 1 \in S \/ \A v \in S : v <= u
  PROVE  \E m \in S : /\ \A v \in S : m <= v
                      /\ \A k \in 1 .. Cardinality(S) : Nth(S, k) = m + k - 1 /\ m + k - 1 \in S
<1> DEFINE N == Cardinality(S)
<1>1. N \in Nat
  BY FS_CardinalityType
<1>2. PICK m \in S : \A v \in S : m <= v
  BY Least
<1>3. m \in Nat
  BY <1>2
<1>4. N > 0
  BY <1>1, FS_EmptySet
<1> DEFINE T == {k \in 0 .. (N - 1) : m + k \in S}
<1>5. 0 \in T
  BY <1>1, <1>3, <1>4
<1>6. ASSUME NEW k \in 1 .. (N - 1), k - 1 \in T PROVE k \in T
  <2>1. m + (k - 1) \in S
    BY <1>6
  <2>2. (m + (k - 1)) + 1 = m + k
    BY <1>1, <1>3
  <2>3. CASE \A v \in S : v <= m + (k - 1)
    <3>1. S \subseteq m .. (m + (k - 1))
      BY <1>2, <2>3
    <3>2. /\ IsFiniteSet(m .. (m + (k - 1)))
          /\ Cardinality(m .. (m + (k - 1))) = (m + (k - 1)) - m + 1
      <4>1. m \in Int /\ m + (k - 1) \in Int /\ ~(m > m + (k - 1))
        BY <1>1, <1>3
      <4> QED
        BY <4>1, FS_Interval
    <3> DEFINE I == m .. (m + (k - 1))
    <3>3. Cardinality(S) <= Cardinality(I)
      <4>1. S \subseteq I /\ IsFiniteSet(I)
        BY <3>1, <3>2
      <4> HIDE DEF I
      <4> QED
        BY <4>1, FS_Subset
    <3>4. (m + (k - 1)) - m + 1 = k
      BY <1>1, <1>3
    <3> HIDE DEF I
    <3>5. N <= k
      BY <3>2, <3>3, <3>4 DEF I
    <3> QED
      BY <1>1, <3>5
  <2>4. CASE m + k \in S
    BY <2>4
  <2> QED
    BY <2>1, <2>2, <2>3, <2>4
<1> HIDE DEF T
<1>7. 0 .. (N - 1) \subseteq T
  <2>1. N - 1 \in Nat
    BY <1>1, <1>4
  <2> HIDE DEF N
  <2> QED
    BY <1>5, <1>6, <2>1, UpTo
<1>8. ASSUME NEW k \in 1 .. N PROVE /\ IsFiniteSet(m .. (m + k - 1)) /\ Cardinality(m .. (m + k - 1)) = k
  <2>1. m \in Int /\ m + k - 1 \in Int /\ ~(m > m + k - 1) /\ (m + k - 1) - m + 1 = k
    BY <1>1, <1>3
  <2>2. /\ IsFiniteSet(m .. (m + k - 1))
        /\ Cardinality(m .. (m + k - 1)) = (m + k - 1) - m + 1
    BY <2>1, FS_Interval
  <2> QED
    BY <2>1, <2>2
<1>9. S = m .. (m + N - 1)
  <2>1. m .. (m + N - 1) \subseteq S
    <3> SUFFICES ASSUME NEW v \in m .. (m + N - 1) PROVE v \in S
      OBVIOUS
    <3>1. v - m \in 0 .. (N - 1) /\ m + (v - m) = v
      BY <1>1, <1>3
    <3>2. v - m \in T
      BY <1>7, <3>1
    <3> QED
      BY <3>1, <3>2 DEF T
  <2>2. Cardinality(m .. (m + N - 1)) = N
    <3>1. N \in 1 .. N
      BY <1>1, <1>4
    <3> QED
      BY <1>8, <3>1
  <2> QED
    BY <2>1, <2>2, FS_Subset
<1>10. ASSUME NEW k \in 1 .. N PROVE Nth(S, k) = m + k - 1 /\ m + k - 1 \in S
  <2>1. ASSUME NEW x \in S PROVE x \in m .. (m + N - 1) /\ {y \in S : y <= x} = m .. x
    BY <1>1, <1>3, <1>9
  <2>2. ASSUME NEW x \in S PROVE Cardinality({y \in S : y <= x}) = k <=> x = m + k - 1
    <3>1. x - m + 1 \in 1 .. N /\ m + (x - m + 1) - 1 = x
      BY <1>1, <1>3, <2>1
    <3>2. Cardinality(m .. x) = x - m + 1
      BY <1>8, <3>1
    <3>3. Cardinality({y \in S : y <= x}) = x - m + 1
      BY <2>1, <3>2
    <3>4. x - m + 1 = k <=> x = m + k - 1
      BY <1>1, <1>3, <3>1
    <3> QED
      BY <3>3, <3>4
  <2>3. m + k - 1 \in S
    BY <1>1, <1>3, <1>9
  <2> QED
    BY <2>2, <2>3 DEF Nth
<1> QED
  BY <1>2, <1>10

\* Coordinates are those below the extents.
LEMMA CoordsAre ==
  ASSUME NEW dims \in Seq(Nat \ {0})
  PROVE  \A c : c \in Coords(dims) <=> c \in [DOMAIN dims -> Nat] /\ \A k \in DOMAIN dims : c[k] < dims[k]
<1> DEFINE B == UNION {0 .. (d - 1) : d \in ToSet(dims)}
<1>1. DOMAIN dims = 1 .. Len(dims) /\ \A k \in DOMAIN dims : dims[k] \in Nat \ {0} /\ dims[k] \in ToSet(dims)
  BY DEF ToSet
<1>2. \A d \in ToSet(dims) : d \in Nat
  BY DEF ToSet
<1>3. B \subseteq Nat
  BY <1>2
<1>4. \A k \in DOMAIN dims : 0 .. (dims[k] - 1) \subseteq B
  BY <1>1
<1> HIDE DEF B
<1>5. ASSUME NEW c \in [DOMAIN dims -> Nat], \A k \in DOMAIN dims : c[k] < dims[k]
      PROVE  c \in [DOMAIN dims -> B]
  <2>1. \A k \in DOMAIN dims : c[k] \in 0 .. (dims[k] - 1)
    BY <1>1, <1>5
  <2> QED
    BY <1>4, <2>1
<1>6. \A c \in [DOMAIN dims -> B] : c \in [DOMAIN dims -> Nat]
  BY <1>3
<1>7. Coords(dims) = {c \in [DOMAIN dims -> B] : \A k \in DOMAIN dims : c[k] < dims[k]}
  BY DEF Coords, B
<1> QED
  BY <1>5, <1>6, <1>7

\* The coordinates that a hyperslab takes in, and their numbers.
Chosen(sp) == {x \in Coords(sp.dims) : \A k \in DOMAIN x : InBlocks(sp.sel, k, x[k])}
Numbers(sp) == {Linear(sp.dims, c) : c \in Chosen(sp)}

IsHyper(s, r) ==
  /\ s \in [type : {"hyper"}, start : [1 .. r -> Nat], stride : [1 .. r -> Nat \ {0}],
            count : [1 .. r -> Nat \ {0}], block : [1 .. r -> Nat \ {0}]]
  /\ \A k \in 1 .. r : s.count[k] > 1 => s.block[k] <= s.stride[k]

LEMMA NumbersAre ==
  ASSUME NEW sp, IsSpace(sp), sp.sel.type = "hyper"
  PROVE  /\ Elements(sp) = InOrder(Numbers(sp))
         /\ IsFiniteSet(Numbers(sp)) /\ Numbers(sp) \subseteq Nat /\ Cardinality(Numbers(sp)) \in Nat
         /\ \A u \in Numbers(sp) : u < Size(sp.dims)
         /\ IsHyper(sp.sel, Len(sp.dims))
<1> DEFINE C == Chosen(sp)
           f == [c \in C |-> Linear(sp.dims, c)]
<1>1. sp.dims \in Seq(Nat \ {0}) /\ IsSelection(sp.sel, Len(sp.dims))
  BY DEF IsSpace
<1>2. Elements(sp) = InOrder(Numbers(sp))
  BY DEF Elements, Numbers, Chosen
<1>3. \A c \in C : Linear(sp.dims, c) \in Nat /\ Linear(sp.dims, c) < Size(sp.dims)
  BY <1>1, CoordsAre, SizeIs DEF Chosen
<1>4. IsFiniteSet(C)
  BY <1>1, CoordsFinite, FS_Subset DEF Chosen
<1>5. IsFiniteSet(Numbers(sp))
  <2>1. Numbers(sp) = {f[c] : c \in C} /\ DOMAIN f = C
    BY DEF Numbers
  <2> HIDE DEF C, f
  <2> QED
    BY <1>4, <2>1, ImageFinite
<1>6. IsHyper(sp.sel, Len(sp.dims))
  BY <1>1 DEF IsSelection, IsHyper, AllSel, NoneSel
<1>7. Cardinality(Numbers(sp)) \in Nat
  BY <1>5, FS_CardinalityType
<1> QED
  BY <1>2, <1>3, <1>5, <1>6, <1>7 DEF Numbers

\* What RV_dataspace_selection_is_contiguous accepts of a hyperslab.
OneRun(s, dims) ==
  /\ \A k \in 1 .. Len(dims) : s.stride[k] <= 1
  /\ \A k \in 1 .. (Len(dims) - 1) : s.count[k] <= 1
  /\ \A k \in 1 .. (Len(dims) - 1) :
       dims[k] > 1 /\ s.count[k] * s.block[k] > 1
         => \A j \in (k + 1) .. Len(dims) : s.start[j] = 0 /\ s.count[j] * s.block[j] = dims[j]

\* At a stride of 1, blocks that do not overlap take in the coordinates from the start on.
LEMMA InRun ==
  ASSUME NEW r \in Nat, NEW s, IsHyper(s, r), NEW k \in 1 .. r, s.stride[k] <= 1, NEW x \in Nat
  PROVE  /\ s.count[k] * s.block[k] \in Nat \ {0} /\ s.start[k] \in Nat
         /\ InBlocks(s, k, x) <=> x >= s.start[k] /\ x < s.start[k] + s.count[k] * s.block[k]
<1> DEFINE a == s.start[k]
           t == s.stride[k]
           c == s.count[k]
           b == s.block[k]
<1>1. a \in Nat /\ t \in Nat \ {0} /\ c \in Nat \ {0} /\ b \in Nat \ {0}
  BY DEF IsHyper
<1>2. t = 1 /\ (c > 1 => b <= t)
  <2>1. t <= 1
    OBVIOUS
  <2>2. c > 1 => b <= t
    BY DEF IsHyper
  <2> HIDE DEF t, c, b
  <2> QED
    BY <1>1, <2>1, <2>2
<1>3. InBlocks(s, k, x) <=> \E n \in 0 .. (c - 1), m \in 0 .. (b - 1) : x = a + n * t + m
  BY DEF InBlocks
<1> HIDE DEF a, t, c, b
<1>4. c = 1 \/ b = 1
  BY <1>1, <1>2
<1>5. c * b \in Nat \ {0}
  BY <1>1, <1>4
<1>6. InBlocks(s, k, x) <=> x >= a /\ x < a + c * b
  <2>1. CASE c = 1
    <3>1. InBlocks(s, k, x) <=> \E m \in 0 .. (b - 1) : x = a + m
      BY <1>1, <1>2, <1>3, <2>1
    <3>2. ASSUME x >= a, x < a + b PROVE x - a \in 0 .. (b - 1) /\ x = a + (x - a)
      BY <1>1, <3>2
    <3>3. (\E m \in 0 .. (b - 1) : x = a + m) <=> x >= a /\ x < a + b
      BY <1>1, <3>2
    <3>4. c * b = b
      BY <1>1, <2>1
    <3> QED
      BY <3>1, <3>3, <3>4
  <2>2. CASE b = 1
    <3>1. InBlocks(s, k, x) <=> \E n \in 0 .. (c - 1), m \in 0 .. (1 - 1) : x = a + n * 1 + m
      BY <1>2, <1>3, <2>2
    <3>2. (\E n \in 0 .. (c - 1), m \in 0 .. (1 - 1) : x = a + n * 1 + m) <=> x >= a /\ x < a + 1 * (c - 1) + 1
      <4>1. 1 \in Nat \ {0}
        OBVIOUS
      <4> QED
        BY <1>1, <4>1, Gapless
    <3>3. a + 1 * (c - 1) + 1 = a + c /\ c * b = c
      BY <1>1, <2>2
    <3> QED
      BY <3>1, <3>2, <3>3
  <2> QED
    BY <1>4, <2>1, <2>2
<1> QED
  BY <1>1, <1>5, <1>6 DEF a, c, b

\* Of the elements that such a hyperslab takes in, each but the last is followed by the next.
LEMMA Successor ==
  ASSUME NEW sp, IsSpace(sp), sp.sel.type = "hyper", OneRun(sp.sel, sp.dims),
         NEW c \in Chosen(sp)
  PROVE  \/ \E d \in Chosen(sp) : Linear(sp.dims, d) = Linear(sp.dims, c) + 1
         \/ \A d \in Chosen(sp) : Linear(sp.dims, d) <= Linear(sp.dims, c)
<1> DEFINE dims == sp.dims
           s == sp.sel
           n == Len(dims)
           e(k) == s.count[k] * s.block[k]
           R(k, x) == x < dims[k] /\ x >= s.start[k] /\ x < s.start[k] + e(k)
           J == {k \in 1 .. n : R(k, c[k] + 1)}
<1>1. /\ dims \in Seq(Nat \ {0}) /\ n \in Nat /\ DOMAIN dims = 1 .. n
      /\ \A k \in 1 .. n : dims[k] \in Nat \ {0}
  BY DimsAre DEF IsSpace
<1>2. IsHyper(s, n) /\ \A k \in 1 .. n : s.stride[k] <= 1
  BY NumbersAre DEF OneRun
<1>3. \A k \in 1 .. n : e(k) \in Nat \ {0} /\ s.start[k] \in Nat
  <2>1. 0 \in Nat
    OBVIOUS
  <2> HIDE DEF n, s
  <2> QED
    BY <1>1, <1>2, <2>1, InRun
<1>4. \A k \in 1 .. (n - 1) : dims[k] > 1 /\ e(k) > 1 => \A j \in (k + 1) .. n : s.start[j] = 0 /\ e(j) = dims[j]
  BY DEF OneRun
<1>5. \A d : d \in Chosen(sp) <=> d \in [1 .. n -> Nat] /\ \A k \in 1 .. n : R(k, d[k])
  <2> TAKE d
  <2>1. d \in Chosen(sp) <=> d \in Coords(dims) /\ \A k \in DOMAIN d : InBlocks(s, k, d[k])
    BY DEF Chosen
  <2>2. d \in Coords(dims) <=> d \in [1 .. n -> Nat] /\ \A k \in 1 .. n : d[k] < dims[k]
    BY <1>1, CoordsAre
  <2> HIDE DEF n, s, dims
  <2>3. ASSUME d \in [1 .. n -> Nat], NEW k \in 1 .. n
        PROVE  InBlocks(s, k, d[k]) <=> d[k] >= s.start[k] /\ d[k] < s.start[k] + e(k)
    <3>1. d[k] \in Nat
      BY <2>3
    <3> QED
      BY <1>1, <1>2, <3>1, InRun
  <2> QED
    BY <2>1, <2>2, <2>3
<1> HIDE DEF e
<1>c. c \in [1 .. n -> Nat] /\ \A k \in 1 .. n : R(k, c[k])
  BY <1>5
<1> HIDE DEF n, s, dims
<1>6. CASE J = {}
  <2> SUFFICES ASSUME NEW d \in Chosen(sp) PROVE Linear(dims, d) <= Linear(dims, c)
    BY DEF dims
  <2>1. d \in [1 .. n -> Nat] /\ \A k \in 1 .. n : R(k, d[k])
    BY <1>5
  <2>2. ASSUME NEW k \in 1 .. n PROVE d[k] <= c[k]
    <3>1. ~R(k, c[k] + 1) /\ R(k, c[k]) /\ R(k, d[k]) /\ c[k] \in Nat /\ d[k] \in Nat
      BY <1>6, <1>c, <2>1
    <3> QED
      BY SMTT(30), <1>1, <1>3, <3>1
  <2> QED
    BY <1>1, <1>c, <2>1, <2>2, Monotone
<1>7. CASE J # {}
  <2>1. PICK j \in J : \A y \in J : y <= j
    <3>1. J \subseteq 0 .. n
      BY <1>1
    <3> HIDE DEF J
    <3> QED
      BY <1>1, <1>7, <3>1, Greatest
  <2>2. j \in 1 .. n /\ R(j, c[j] + 1) /\ R(j, c[j]) /\ c[j] \in Nat
    BY <1>c
  <2>3. dims[j] > 1 /\ e(j) > 1
    BY <1>1, <1>3, <2>2
  <2>4. ASSUME NEW k \in 1 .. n, k > j PROVE s.start[k] = 0 /\ e(k) = dims[k] /\ c[k] = dims[k] - 1
    <3>1. j \in 1 .. (n - 1) /\ k \in (j + 1) .. n
      BY <1>1, <2>2, <2>4
    <3>2. s.start[k] = 0 /\ e(k) = dims[k]
      BY <1>4, <2>3, <3>1
    <3>3. ~R(k, c[k] + 1) /\ R(k, c[k]) /\ c[k] \in Nat
      BY <1>c, <2>1, <2>2, <2>4
    <3> QED
      BY <1>1, <3>2, <3>3
  <2> DEFINE d == [k \in 1 .. n |-> IF k < j THEN c[k] ELSE IF k = j THEN c[j] + 1 ELSE 0]
  <2>5. d \in [1 .. n -> Nat]
    BY <1>c, <2>2
  <2>6. /\ d[j] = c[j] + 1
        /\ \A k \in 1 .. n : (k < j => d[k] = c[k]) /\ (k = j => d[k] = c[j] + 1) /\ (k > j => d[k] = 0)
    BY <1>1, <2>2
  <2> HIDE DEF d
  <2>7. ASSUME NEW k \in 1 .. n PROVE R(k, d[k])
    <3>1. CASE k < j
      BY <1>c, <2>6, <3>1
    <3>2. CASE k = j
      BY <2>2, <2>6, <3>2
    <3>3. CASE k > j
      BY <1>1, <2>4, <2>6, <3>3
    <3> QED
      BY <2>2, <3>1, <3>2, <3>3
  <2>8. d \in Chosen(sp)
    BY <1>5, <2>5, <2>7
  <2>9. Linear(dims, d) = Linear(dims, c) + 1
    <3>1. c \in [DOMAIN dims -> Nat] /\ d \in [DOMAIN dims -> Nat] /\ j \in DOMAIN dims
      BY <1>1, <1>c, <2>2, <2>5
    <3>2. \A k \in DOMAIN dims : /\ k < j => d[k] = c[k]
                                 /\ k > j => c[k] = dims[k] - 1 /\ d[k] = 0
      BY <1>1, <2>4, <2>6
    <3> QED
      BY <1>1, <2>6, <3>1, <3>2, Following
  <2> QED
    BY <2>8, <2>9 DEF dims
<1> QED
  BY <1>6, <1>7

\* A selection that is taken for contiguous: its elements follow one another, and are those
\* of the space.
LEMMA ContiguousIs ==
  ASSUME NEW sp, IsSpace(sp), IsContiguous(sp), NEW k \in 1 .. NPoints(sp)
  PROVE  /\ Elements(sp)[1] \in Nat /\ Elements(sp)[k] = Elements(sp)[1] + k - 1
         /\ sp.sel.type # "points" => Elements(sp)[k] < Size(sp.dims)
         /\ sp.sel.type = "hyper" => Elements(sp)[k] \in Numbers(sp)
<1> DEFINE E == Elements(sp)
           N == NPoints(sp)
<1>1. sp.dims \in Seq(Nat \ {0}) /\ IsSelection(sp.sel, Len(sp.dims))
  BY DEF IsSpace
<1>2. N \in Nat /\ DOMAIN E = 1 .. N /\ (E = <<>> <=> N = 0) /\ N = Len(E)
  BY ElementsAre DEF NPoints
<1>3. \/ sp.sel.type = "all"
      \/ sp.sel.type = "points" /\ sp.sel.points \in Seq([1 .. Len(sp.dims) -> Nat])
      \/ sp.sel.type = "hyper"
  <2>1. sp.sel = NoneSel => N = 0
    BY <1>2 DEF Elements, NoneSel
  <2> HIDE DEF N
  <2> QED
    BY <1>1, <2>1 DEF IsSelection, AllSel, N
<1>4. CASE sp.sel.type = "all"
  <2>1. E = [n \in 1 .. Size(sp.dims) |-> n - 1] /\ Size(sp.dims) \in Nat \ {0}
    BY <1>1, <1>4, SizeIs DEF Elements
  <2>2. N = Size(sp.dims)
    BY <1>2, <2>1, IsSeq
  <2> HIDE DEF E, N
  <2>3. E[k] = k - 1 /\ E[1] = 0 /\ k - 1 < Size(sp.dims)
    BY <2>1, <2>2 DEF N
  <2> QED
    BY <1>2, <1>4, <2>3 DEF E, N
<1>5. CASE sp.sel.type = "points" /\ sp.sel.points \in Seq([1 .. Len(sp.dims) -> Nat])
  <2>1. E = [n \in DOMAIN sp.sel.points |-> Linear(sp.dims, sp.sel.points[n])]
    BY <1>5 DEF Elements
  <2>2. N < 2
    BY <1>5 DEF IsContiguous
  <2> HIDE DEF E, N
  <2>3. k = 1 /\ 1 \in DOMAIN E
    BY <1>2, <2>2 DEF N
  <2>4. 1 \in DOMAIN sp.sel.points
    BY <2>1, <2>3
  <2>5. sp.sel.points[1] \in [DOMAIN sp.dims -> Nat]
    <3>1. DOMAIN sp.dims = 1 .. Len(sp.dims)
      BY <1>1
    <3>2. sp.sel.points[1] \in [1 .. Len(sp.dims) -> Nat]
      BY <1>5, <2>4
    <3> QED
      BY <3>1, <3>2
  <2>6. E[1] \in Nat
    BY <1>1, <2>1, <2>4, <2>5, SizeIs
  <2> QED
    BY <1>5, <2>3, <2>6 DEF E
<1>6. CASE sp.sel.type = "hyper"
  <2> DEFINE S == Numbers(sp)
  <2>1. E = InOrder(S) /\ IsFiniteSet(S) /\ S \subseteq Nat /\ Cardinality(S) \in Nat
        /\ \A u \in S : u < Size(sp.dims)
    BY <1>6, NumbersAre
  <2>2. E = [n \in 1 .. Cardinality(S) |-> Nth(S, n)]
    BY <2>1 DEF InOrder
  <2>3. N = Cardinality(S)
    BY <1>2, <2>1, <2>2, IsSeq
  <2>4. S # {}
    BY <2>3, FS_EmptySet
  <2>5. \A u \in S : u + 1 \in S \/ \A v \in S : v <= u
    <3>1. CASE N < 2
      <4>1. N = 1
        BY <1>2, <3>1
      <4>2. PICK x : S = {x}
        <5> HIDE DEF S, N
        <5> QED
          BY <2>1, <2>3, <4>1, FS_Singleton
      <4> HIDE DEF S
      <4> QED
        BY <2>1, <4>2
    <3>2. CASE ~(N < 2)
      <4>1. OneRun(sp.sel, sp.dims)
        BY <1>6, <3>2 DEF IsContiguous, OneRun
      <4>2. \A c \in Chosen(sp) : \/ \E d \in Chosen(sp) : Linear(sp.dims, d) = Linear(sp.dims, c) + 1
                                 \/ \A d \in Chosen(sp) : Linear(sp.dims, d) <= Linear(sp.dims, c)
        BY <1>6, <4>1, Successor
      <4> QED
        BY <4>2 DEF Numbers
    <3> QED
      BY <3>1, <3>2
  <2> HIDE DEF S, E, N
  <2>6. PICK m \in S : \A n \in 1 .. Cardinality(S) : Nth(S, n) = m + n - 1 /\ m + n - 1 \in S
    BY <2>1, <2>4, <2>5, CountsUp
  <2>7. k \in 1 .. Cardinality(S) /\ 1 \in 1 .. Cardinality(S) /\ m \in Nat
    BY <1>2, <2>1, <2>3 DEF N
  <2>8. E[k] = m + k - 1 /\ E[1] = m + 1 - 1 /\ E[k] \in S
    BY <2>2, <2>6, <2>7
  <2>9. E[1] = m
    BY <2>7, <2>8
  <2> QED
    BY <1>6, <2>1, <2>7, <2>8, <2>9 DEF E, S
<1> QED
  BY <1>3, <1>4, <1>5, <1>6

\* The offset of a selection that has the first element of the space is 0.
LEMMA NoOffset ==
  ASSUME NEW sp, IsSpace(sp), IsContiguous(sp), NPoints(sp) > 0, Elements(sp)[1] = 0
  PROVE  StartToOffset(sp) = 0
<1>1. sp.dims \in Seq(Nat \ {0})
  BY DEF IsSpace
<1>2. CASE sp.sel.type # "hyper"
  BY <1>2 DEF StartToOffset
<1>3. CASE sp.sel.type = "hyper"
  <2> DEFINE S == Numbers(sp)
             s == sp.sel
             n == Len(sp.dims)
             a == [k \in DOMAIN sp.dims |-> sp.dims[k] + s.start[k]]
             b == [k \in DOMAIN sp.dims |-> IF k = 1 THEN s.start[k] ELSE 0]
  <2>1. /\ n \in Nat /\ DOMAIN sp.dims = 1 .. n
        /\ \A k \in 1 .. n : sp.dims[k] \in Nat \ {0}
    BY <1>1, DimsAre
  <2>2. IsHyper(s, n)
    BY <1>3, NumbersAre
  <2>3. 0 \in Numbers(sp)
    <3>1. NPoints(sp) \in Nat
      BY ElementsAre
    <3>2. 1 \in 1 .. NPoints(sp)
      BY <3>1
    <3> QED
      BY <1>3, <3>2, ContiguousIs
  <2>4. PICK c \in Chosen(sp) : Linear(sp.dims, c) = 0
    BY <2>3 DEF Numbers
  <2>5. c \in [DOMAIN sp.dims -> Nat] /\ \A k \in DOMAIN c : InBlocks(s, k, c[k])
    BY <1>1, CoordsAre DEF Chosen
  <2>6. \A k \in DOMAIN sp.dims : c[k] = 0
    BY <1>1, <2>4, <2>5, AtZero
  <2>7. ASSUME NEW k \in 1 .. n PROVE s.start[k] = 0
    <3>1. InBlocks(s, k, 0)
      BY <2>1, <2>5, <2>6
    <3>2. s.start[k] \in Nat /\ s.stride[k] \in Nat /\ s.count[k] \in Nat /\ s.block[k] \in Nat
      BY <2>2 DEF IsHyper
    <3>3. PICK i0 \in 0 .. (s.count[k] - 1), j0 \in 0 .. (s.block[k] - 1) : 0 = s.start[k] + i0 * s.stride[k] + j0
      BY <3>1 DEF InBlocks
    <3> DEFINE p == i0 * s.stride[k]
    <3>4. p \in Nat /\ 0 = s.start[k] + p + j0 /\ j0 \in Nat
      <4>1. i0 \in Nat /\ j0 \in Nat
        BY <3>2
      <4>2. i0 * s.stride[k] \in Nat
        BY <3>2, <4>1
      <4>3. 0 = s.start[k] + p + j0
        BY <3>3, Zenon
      <4> QED
        BY <4>1, <4>2, <4>3
    <3> HIDE DEF p
    <3> QED
      BY <3>2, <3>4
  <2>8. a \in [1 .. n -> Nat] /\ b \in [1 .. n -> Nat] /\ \A k \in 1 .. n : b[k] = 0
    BY <2>1, <2>7
  <2>9. StartToOffset(sp) = Horner(0, a, b)
    BY <1>3 DEF StartToOffset
  <2> HIDE DEF a, b, n
  <2> QED
    BY <2>1, <2>8, <2>9, ZeroOffset
<1> QED
  BY <1>2, <1>3

\* With the right offset, the values of a transfer are those of its elements in memory.
LEMMA SourceIs ==
  ASSUME NEW t, NEW mem, IsSpace(mem), NEW n \in 1 .. NPoints(mem), ~OffsetFails(t, mem),
         \/ ~IsContiguous(mem)
         \/ Elements(mem)[1] = 0
         \/ t.class = "fixed" /\ ~t.conv /\ StartToOffset(mem) = Elements(mem)[1]
  PROVE  SrcAt(t, mem, Offset(t, mem) + n - 1) = Elements(mem)[n]
<1> DEFINE E == Elements(mem)
           N == NPoints(mem)
<1>1. N \in Nat /\ n \in Nat /\ n >= 1 /\ n <= N /\ N > 0
  BY ElementsAre
<1>2. CASE ~IsContiguous(mem)
  <2>1. Offset(t, mem) = 0
    BY <1>2 DEF Offset
  <2>2. SrcAt(t, mem, 0 + n - 1) = E[0 + n - 1 + 1]
    BY <1>2 DEF SrcAt
  <2>3. 0 + n - 1 + 1 = n
    BY <1>1
  <2> QED
    BY <2>1, <2>2, <2>3
<1>3. CASE IsContiguous(mem)
  <2>1. E[1] \in Nat /\ E[n] = E[1] + n - 1 /\ (mem.sel.type # "points" => E[n] < Size(mem.dims))
    BY <1>3, ContiguousIs
  <2>2. Size(mem.dims) \in Nat \ {0}
    BY SizeIs DEF IsSpace
  <2>3. mem.sel.type = "points" => N < 2
    BY <1>3 DEF IsContiguous
  <2>4. \A x : x < Size(mem.dims) /\ (t.conv => x < N) => SrcAt(t, mem, x) = x
    BY <1>3 DEF SrcAt
  <2> HIDE DEF E, N
  <2>5. CASE E[1] = 0
    <3>1. StartToOffset(mem) = 0
      BY <1>1, <1>3, <2>5, NoOffset DEF E, N
    <3>2. Offset(t, mem) = 0
      BY <3>1 DEF Offset
    <3>3. 0 + n - 1 = n - 1 /\ E[n] = n - 1 /\ n - 1 < N
      BY <1>1, <2>1, <2>5
    <3>4. n - 1 < Size(mem.dims)
      BY <1>1, <2>1, <2>2, <2>3, <3>3
    <3> QED
      BY <2>4, <3>2, <3>3, <3>4 DEF E
  <2>6. CASE t.class = "fixed" /\ ~t.conv /\ StartToOffset(mem) = E[1]
    <3>1. Offset(t, mem) = E[1]
      BY <1>3, <2>6 DEF Offset
    <3>2. mem.sel.type # "points"
      BY <1>3, <2>6 DEF OffsetFails
    <3> QED
      BY <2>1, <2>4, <2>6, <3>1, <3>2 DEF E
  <2> QED
    BY <1>3, <2>5, <2>6 DEF E
<1> QED
  BY <1>2, <1>3

-----------------------------------------------------------------------------
(* The inductive invariant. *)

\* The state has the shape that the calls give it; selection_body is never held between steps.
Shaped ==
  /\ dsel = [d \in Dset |-> dsel[d]] /\ \A d \in Dset : IsSelection(dsel[d], Len(Dims))
  /\ pc \in {"idle", "setup", "perform", "crashed"}
  /\ call.op \in {"read", "write"} /\ call.xs \in Seq(Transfers)
  /\ selbody = "null" /\ wlen \in Nat
  /\ DOMAIN bufs = Index

\* The transfers are set up in order, and are sent when all are.
Staged ==
  /\ i \in Nat \ {0}
  /\ pc = "idle" => call.xs = <<>> /\ i = 1
  /\ pc \in {"setup", "crashed"} => i \in Index
  /\ pc = "perform" => i = Len(call.xs) + 1
  /\ added \subseteq 1 .. (i - 1) /\ named \subseteq 1 .. (i - 1) /\ served \subseteq added
  /\ pc # "perform" => served = {}

\* The dataset's own selection is still the one that transfer k left, unless a later
\* transfer, of those set up so far, has left another.
SelectionHeld(k) ==
  LET t == call.xs[k]
  IN /\ t.mem = H5S_ALL
     /\ \A j \in Index : j > k /\ j < i /\ call.xs[j].dset = t.dset
                          /\ (call.xs[j].mem = H5S_ALL \/ call.xs[j].file = H5S_ALL)
                          => FileSel(call.xs[j]) = FileSel(t)
     => dsel[t.dset] = FileSel(t)

\* What the set-up of a transfer has made sure of.
Matched(k) == NPoints(MemSpace(call.xs[k], FileSel(call.xs[k]))) = NPoints(Space(FileSel(call.xs[k])))

SentUnlessEmpty(k) ==
  call.xs[k].class # "varstr" /\ FileElements(call.xs[k]) # <<>> => k \in added

Prepared ==
  pc \in {"setup", "perform"} =>
    \A k \in Index : k < i => SelectionHeld(k) /\ Matched(k) /\ SentUnlessEmpty(k)

\* Only writes that have been let through store anything.
Guarded ==
  /\ pc = "perform" /\ call.op = "write" => Writable
  /\ ~(pc = "perform" /\ call.op = "write") => \A d \in Dset : stored[d] = {}

\* What the requests of a write send is what their transfers have in memory, and those whose
\* offset is an error are not among them.
PackedOne(k) ==
  LET t == call.xs[k]
      mem == MemSpace(t, FileSel(t))
  IN body[k] = Body(t, mem) /\ ~OffsetFails(t, mem)

Packed ==
  call.op = "write" /\ pc \in {"setup", "perform"} =>
    DOMAIN body = Index /\ \A k \in Index : k < i => PackedOne(k)

Inv == Shaped /\ Staged /\ Prepared /\ Guarded /\ FreedOnce /\ ReadExact /\ Packed


-----------------------------------------------------------------------------
(* The arguments of a transfer, and what H5S_ALL makes of them. *)

LEMMA SpaceIs ==
  ASSUME NEW s, IsSelection(s, Len(Dims))
  PROVE  IsSpace(Space(s))
BY DatasetAssumption DEF IsSpace, Space

LEMMA TransferIs ==
  ASSUME NEW t \in Transfers
  PROVE  /\ t.dset \in Dset
         /\ IsSelection(FileSel(t), Len(Dims))
         /\ \A s : IsSelection(s, Len(Dims)) => IsSpace(MemSpace(t, s)) /\ IsSpace(FileSpace(t, s))
<1>1. t.dset \in Dset /\ (t.mem = H5S_ALL \/ IsSpace(t.mem)) /\ (t.file = H5S_ALL \/ IsSelection(t.file, Len(Dims)))
  BY DatasetAssumption
<1>2. IsSelection(AllSel, Len(Dims))
  BY DEF IsSelection
<1>3. IsSelection(FileSel(t), Len(Dims))
  BY <1>1, <1>2 DEF FileSel
<1>4. ASSUME NEW s, IsSelection(s, Len(Dims))
      PROVE  IsSpace(MemSpace(t, s)) /\ IsSpace(FileSpace(t, s))
  BY <1>1, <1>4, SpaceIs DEF MemSpace, FileSpace
<1> QED
  BY <1>1, <1>3, <1>4

LEMMA SelectedIs ==
  ASSUME NEW t \in Transfers, IsSelection(dsel[t.dset], Len(Dims))
  PROVE  /\ IsSelection(Selected(t), Len(Dims))
         /\ t.mem = H5S_ALL \/ t.file = H5S_ALL => Selected(t) = FileSel(t)
         /\ ~(t.mem = H5S_ALL \/ t.file = H5S_ALL) => Selected(t) = dsel[t.dset]
         /\ MemSpace(t, Selected(t)) = MemSpace(t, FileSel(t))
         /\ FileSpace(t, Selected(t)) = Space(FileSel(t))
<1>1. t.file = H5S_ALL \/ IsSelection(t.file, Len(Dims))
  BY DatasetAssumption
<1>2. IsSelection(AllSel, Len(Dims))
  BY DEF IsSelection
<1>3. IsSelection(Selected(t), Len(Dims))
  BY <1>1, <1>2 DEF Selected
<1>4. t.mem = H5S_ALL \/ t.file = H5S_ALL => Selected(t) = FileSel(t)
  BY DEF Selected, FileSel
<1>5. ~(t.mem = H5S_ALL \/ t.file = H5S_ALL) => Selected(t) = dsel[t.dset]
  BY DEF Selected
<1>6. MemSpace(t, Selected(t)) = MemSpace(t, FileSel(t))
  BY <1>4 DEF MemSpace
<1>7. FileSpace(t, Selected(t)) = Space(FileSel(t))
  BY <1>4 DEF FileSpace, FileSel
<1> QED
  BY <1>3, <1>4, <1>5, <1>6, <1>7

-----------------------------------------------------------------------------
(* The steps. *)

\* The set-up of transfer i, for reading or for writing.
LEMMA SetUpOne ==
  ASSUME Inv, pc = "setup", Matches(Cur), call.op = "write" => Writable,
         dsel' = [dsel EXCEPT ![Cur.dset] = Selected(Cur)],
         added \subseteq added', added' \subseteq added \cup {i},
         named' \subseteq named \cup {i},
         selbody' = "null", wlen' \in Nat,
         Cur.class # "varstr" /\ FileElements(Cur) # <<>> => i \in added',
         pc' = NextStage, i' = i + 1, UNCHANGED <<call, results>>, Packed'
  PROVE  Inv'
<1> USE DEF Inv
<1>1. /\ i \in Index /\ call.xs \in Seq(Transfers) /\ Index = 1 .. Len(call.xs) /\ Len(call.xs) \in Nat
      /\ Index' = Index /\ call' = call /\ served' = served /\ bufs' = bufs /\ stored' = stored
  BY DEF Shaped, Staged, Index, results
<1>2. Cur \in Transfers /\ Cur.dset \in Dset
  BY <1>1, TransferIs DEF Cur
<1>3. IsSelection(dsel[Cur.dset], Len(Dims))
  BY <1>2 DEF Shaped
<1>4. /\ IsSelection(Selected(Cur), Len(Dims))
      /\ Cur.mem = H5S_ALL \/ Cur.file = H5S_ALL => Selected(Cur) = FileSel(Cur)
      /\ ~(Cur.mem = H5S_ALL \/ Cur.file = H5S_ALL) => Selected(Cur) = dsel[Cur.dset]
      /\ MemSpace(Cur, Selected(Cur)) = MemSpace(Cur, FileSel(Cur))
      /\ FileSpace(Cur, Selected(Cur)) = Space(FileSel(Cur))
  BY <1>2, <1>3, SelectedIs
<1>5. \A d \in Dset : dsel'[d] = IF d = Cur.dset THEN Selected(Cur) ELSE dsel[d]
  BY DEF Shaped
<1>6. IF i = Len(call.xs) THEN pc' = "perform" /\ i' = Len(call.xs) + 1 ELSE pc' = "setup" /\ i' \in Index
  BY <1>1 DEF NextStage
<1>7. Shaped'
  <2>1. dsel' = [d \in Dset |-> dsel'[d]]
    BY DEF Shaped
  <2>2. \A d \in Dset : IsSelection(dsel'[d], Len(Dims))
    BY <1>4, <1>5 DEF Shaped
  <2> QED
    BY <1>1, <1>6, <2>1, <2>2 DEF Shaped
<1>8. Staged'
  BY <1>1, <1>6 DEF Staged
<1>9. Prepared'
  <2> SUFFICES ASSUME NEW k \in Index, k < i + 1
               PROVE  SelectionHeld(k)' /\ Matched(k)' /\ SentUnlessEmpty(k)'
    BY <1>1 DEF Prepared
  <2> DEFINE t == call.xs[k]
  <2>1. t \in Transfers /\ t.dset \in Dset
    BY <1>1, TransferIs
  <2>2. CASE k = i
    <3>1. t = Cur
      BY <2>2 DEF Cur
    <3>2. SelectionHeld(k)'
      <4>1. t.mem = H5S_ALL => dsel'[t.dset] = FileSel(t)
        BY <1>4, <1>5, <2>1, <3>1
      <4> HIDE DEF t
      <4> QED
        BY <1>1, <4>1 DEF SelectionHeld, FileSel, t
    <3>3. Matched(k)'
      BY <1>1, <1>4, <3>1 DEF Matched, Matches, FileSel, MemSpace, Space
    <3>4. SentUnlessEmpty(k)'
      BY <1>1, <2>2, <3>1 DEF SentUnlessEmpty, FileElements, FileSel, Space
    <3> QED
      BY <3>2, <3>3, <3>4
  <2>3. CASE k < i
    <3>1. SelectionHeld(k) /\ Matched(k) /\ SentUnlessEmpty(k)
      BY <2>3 DEF Prepared
    <3>2. SelectionHeld(k)'
      <4> SUFFICES ASSUME t.mem = H5S_ALL,
                          \A j \in Index : j > k /\ j < i + 1 /\ call.xs[j].dset = t.dset
                             /\ (call.xs[j].mem = H5S_ALL \/ call.xs[j].file = H5S_ALL)
                             => FileSel(call.xs[j]) = FileSel(t)
                   PROVE  dsel'[t.dset] = FileSel(t)
        BY <1>1 DEF SelectionHeld, FileSel
      <4>1. \A j \in Index : j < i => j < i + 1
        BY <1>1
      <4>2. dsel[t.dset] = FileSel(t)
        BY <3>1, <4>1 DEF SelectionHeld
      <4>3. CASE Cur.dset = t.dset /\ (Cur.mem = H5S_ALL \/ Cur.file = H5S_ALL)
        <5>1. FileSel(Cur) = FileSel(t)
          BY <1>1, <2>3, <4>3 DEF Cur
        <5> QED
          BY <1>4, <1>5, <2>1, <4>3, <5>1
      <4>4. CASE ~(Cur.dset = t.dset /\ (Cur.mem = H5S_ALL \/ Cur.file = H5S_ALL))
        BY <1>4, <1>5, <2>1, <4>2, <4>4
      <4> QED
        BY <4>3, <4>4
    <3>3. Matched(k)' /\ SentUnlessEmpty(k)'
      BY <1>1, <3>1 DEF Matched, SentUnlessEmpty, FileElements, FileSel, MemSpace, Space
    <3> QED
      BY <3>2, <3>3
  <2> QED
    BY <1>1, <2>2, <2>3
<1>10. Guarded'
  BY <1>1, <1>6 DEF Guarded, Writable
<1>11. FreedOnce'
  BY <1>6 DEF FreedOnce
<1>12. ReadExact'
  <2>1. served = {}
    BY DEF Staged
  <2> QED
    BY <1>1, <2>1 DEF ReadExact
<1> QED
  BY <1>7, <1>8, <1>9, <1>10, <1>11, <1>12


\* Between calls there is nothing to keep, but a selection in every dataset's dataspace.
LEMMA Returned ==
  ASSUME Inv, Return, dsel' = [d \in Dset |-> dsel'[d]],
         \A d \in Dset : IsSelection(dsel'[d], Len(Dims))
  PROVE  Inv'
<1>1. /\ pc' = "idle" /\ call' = NoCall /\ i' = 1 /\ selbody' = "null" /\ wlen' = 0
      /\ added' = {} /\ named' = {} /\ served' = {} /\ stored' = [d \in Dset |-> {}] /\ bufs' = <<>>
      /\ call'.op = "read" /\ call'.xs = <<>> /\ Index' = {}
  BY DEF Return, NoCall, Index
<1>2. Shaped'
  BY <1>1 DEF Shaped
<1>3. Staged'
  BY <1>1 DEF Staged
<1>4. Prepared' /\ FreedOnce'
  BY <1>1 DEF Prepared, FreedOnce
<1>5. Guarded'
  BY <1>1 DEF Guarded
<1>6. ReadExact' /\ Packed'
  BY <1>1 DEF ReadExact, Packed
<1> QED
  BY <1>2, <1>3, <1>4, <1>5, <1>6 DEF Inv

LEMMA InitInv ==
  ASSUME Init
  PROVE  Inv
<1>1. IsSelection(AllSel, Len(Dims))
  BY DEF IsSelection
<1>2. /\ pc = "idle" /\ i = 1 /\ selbody = "null" /\ wlen = 0 /\ added = {} /\ named = {}
      /\ served = {} /\ stored = [d \in Dset |-> {}] /\ bufs = <<>>
      /\ dsel = [d \in Dset |-> AllSel]
      /\ call.op = "read" /\ call.xs = <<>> /\ Index = {}
  BY DEF Init, NoCall, Index
<1>3. Shaped
  BY <1>1, <1>2 DEF Shaped
<1>4. Staged
  BY <1>2 DEF Staged
<1>5. Prepared /\ FreedOnce
  BY <1>2 DEF Prepared, FreedOnce
<1>6. Guarded
  BY <1>2 DEF Guarded
<1>7. ReadExact /\ Packed
  BY <1>2 DEF ReadExact, Packed
<1> QED
  BY <1>3, <1>4, <1>5, <1>6, <1>7 DEF Inv

LEMMA StartInv ==
  ASSUME Inv, NEW op \in {"read", "write"}, NEW n \in {1, 2}, NEW xs \in [1 .. n -> Transfers], Start(op, xs)
  PROVE  Inv'
<1> USE DEF Inv
<1>1. xs \in Seq(Transfers) /\ DOMAIN xs = 1 .. n /\ Len(xs) = n
  OBVIOUS
<1>2. /\ pc = "idle" /\ pc' = "setup" /\ call'.op = op /\ call'.xs = xs /\ Index' = 1 .. n
      /\ i' = i /\ i = 1 /\ selbody' = selbody /\ wlen' = wlen /\ dsel' = dsel
      /\ added' = added /\ named' = named /\ served' = served /\ stored' = stored
      /\ DOMAIN bufs' = 1 .. n /\ DOMAIN body' = 1 .. n
  BY <1>1 DEF Start, Staged, Index
<1>3. Shaped'
  BY <1>1, <1>2 DEF Shaped
<1>4. Staged'
  BY <1>1, <1>2 DEF Staged
<1>5. Prepared'
  BY <1>2 DEF Prepared
<1>6. Guarded'
  BY <1>2 DEF Guarded
<1>7. FreedOnce'
  BY <1>2 DEF FreedOnce
<1>8. ReadExact'
  BY <1>2 DEF ReadExact, Staged
<1>9. Packed'
  BY <1>2 DEF Packed
<1> QED
  BY <1>3, <1>4, <1>5, <1>6, <1>7, <1>8, <1>9

LEMMA SetUpReadInv ==
  ASSUME Inv, SetUpRead
  PROVE  Inv'
<1>1. Packed'
  BY DEF SetUpRead, Packed
<1> QED
  BY <1>1, SetUpOne DEF SetUpRead, Inv, Shaped, setup, results

LEMMA SetUpWriteInv ==
  ASSUME Inv, SetUpWrite
  PROVE  Inv'
<1> DEFINE mem == MemSpace(Cur, Selected(Cur))
           len == BodyLen(Cur, mem)
<1>1. /\ pc = "setup" /\ call.op = "write" /\ Writable /\ Matches(Cur)
      /\ dsel' = [dsel EXCEPT ![Cur.dset] = Selected(Cur)]
      /\ wlen' = len /\ added' = IF len > 0 THEN added \cup {i} ELSE added
      /\ named \subseteq named' /\ named' \subseteq named \cup {i}
      /\ selbody' = IF Cur.file # H5S_ALL THEN Released ELSE selbody
      /\ pc' = NextStage /\ i' = i + 1 /\ UNCHANGED <<call, results>>
      /\ body' = [body EXCEPT ![i] = Body(Cur, mem)] /\ ~OffsetFails(Cur, mem)
  BY DEF SetUpWrite
<1>2. call.xs \in Seq(Transfers) /\ i \in Index /\ wlen \in Nat /\ selbody = "null"
  BY <1>1 DEF Inv, Shaped, Staged
<1>3. Cur \in Transfers
  BY <1>2 DEF Cur, Index
<1>4. Cur.dset \in Dset /\ IsSelection(FileSel(Cur), Len(Dims))
  BY <1>3, TransferIs
<1>5. IsSelection(dsel[Cur.dset], Len(Dims))
  BY <1>4 DEF Inv, Shaped
<1>6. mem = MemSpace(Cur, FileSel(Cur)) /\ FileSpace(Cur, Selected(Cur)) = Space(FileSel(Cur))
  BY <1>3, <1>5, SelectedIs
<1>7. IsSpace(mem) /\ IsSpace(Space(FileSel(Cur)))
  BY <1>3, <1>4, <1>6, TransferIs, SpaceIs
<1>8. NPoints(mem) = NPoints(Space(FileSel(Cur)))
  BY <1>1, <1>6 DEF Matches
<1> HIDE DEF mem
<1>9. NPoints(mem) \in Nat /\ (FileElements(Cur) # <<>> => NPoints(mem) > 0)
  BY <1>7, <1>8, ElementsAre DEF FileElements
<1>10. len \in Nat /\ (Cur.class # "varstr" /\ FileElements(Cur) # <<>> => len > 0)
  BY <1>2, <1>9 DEF BodyLen
<1> HIDE DEF len
<1>11. selbody' = "null"
  BY <1>1, <1>2 DEF Released
<1>12. Packed'
  <2>1. DOMAIN body = Index /\ \A k \in Index : k < i => PackedOne(k)
    BY <1>1 DEF Inv, Packed
  <2>2. DOMAIN body' = Index' /\ Index' = Index /\ call' = call /\ i' = i + 1
    BY <1>1, <2>1 DEF Index
  <2>3. ASSUME NEW k \in Index, k < i + 1 PROVE PackedOne(k)'
    <3>1. CASE k = i
      <4>1. body'[k] = Body(Cur, mem) /\ call.xs[k] = Cur
        BY <1>1, <1>2, <2>1, <3>1 DEF Cur
      <4> QED
        BY <1>1, <1>6, <2>2, <4>1 DEF PackedOne, Body, OffsetFails
    <3>2. CASE k < i
      <4>1. PackedOne(k) /\ k # i
        BY <1>2, <2>1, <3>2 DEF Index
      <4>2. body'[k] = body[k]
        BY <1>1, <2>1, <4>1
      <4> QED
        BY <2>2, <4>1, <4>2 DEF PackedOne, Body
    <3> QED
      BY <1>2, <2>3, <3>1, <3>2 DEF Index
  <2> QED
    BY <2>2, <2>3 DEF Packed
<1> QED
  BY <1>1, <1>10, <1>11, <1>12, SetUpOne

LEMMA SetUpFailsInv ==
  ASSUME Inv, NEW late \in BOOLEAN, SetUpFails(late)
  PROVE  Inv'
<1> USE DEF Inv
<1>1. /\ pc = "setup" /\ (call.op = "write" => Writable)
      /\ dsel' = IF late THEN [dsel EXCEPT ![Cur.dset] = Selected(Cur)] ELSE dsel
  BY DEF SetUpFails
<1>2. call.xs \in Seq(Transfers) /\ i \in Index /\ selbody = "null"
  BY <1>1 DEF Shaped, Staged
<1>3. Cur \in Transfers
  BY <1>2 DEF Cur, Index
<1>4. IsSelection(dsel[Cur.dset], Len(Dims))
  BY <1>3, TransferIs DEF Shaped
<1>5. IsSelection(Selected(Cur), Len(Dims))
  BY <1>3, <1>4, SelectedIs
<1>6. dsel' = [d \in Dset |-> dsel'[d]] /\ \A d \in Dset : IsSelection(dsel'[d], Len(Dims))
  BY <1>1, <1>5 DEF Shaped
<1>7. CASE Return
  BY <1>6, <1>7, Returned
<1>8. CASE ~Return
  <2>1. /\ pc' = "crashed" /\ Cur.file # H5S_ALL /\ Len(call.xs) > 1
        /\ UNCHANGED <<inputs, setup, results>>
    BY <1>2, <1>8 DEF SetUpFails
  <2>2. /\ call' = call /\ i' = i /\ selbody' = selbody /\ wlen' = wlen /\ added' = added /\ named' = named
        /\ served' = served /\ stored' = stored /\ bufs' = bufs /\ Index' = Index
    BY <2>1 DEF inputs, setup, results, Index
  <2>3. Shaped'
    BY <1>6, <2>1, <2>2 DEF Shaped
  <2>4. Staged'
    BY <1>1, <2>1, <2>2 DEF Staged
  <2>5. Prepared' /\ Packed'
    BY <2>1 DEF Prepared, Packed
  <2>6. Guarded'
    BY <1>1, <2>1, <2>2 DEF Guarded
  <2>7. FreedOnce'
    BY <2>1, <2>2 DEF FreedOnce, Cur
  <2>8. ReadExact'
    BY <1>1, <2>2 DEF ReadExact, Staged
  <2> QED
    BY <2>3, <2>4, <2>5, <2>6, <2>7, <2>8
<1> QED
  BY <1>7, <1>8


\* What the callback of a read puts into the buffer of transfer k.
LEMMA ServedExactly ==
  ASSUME Inv, pc = "perform", NEW k \in Index, ServeRead(k),
         Expressible(FileSel(call.xs[k])), OwnSelection(k)
  PROVE  bufs'[k] = {<<MemElements(call.xs[k])[j], <<call.xs[k].dset, FileElements(call.xs[k])[j]>> >> :
                       j \in DOMAIN FileElements(call.xs[k])}
<1> USE DEF Inv
<1> DEFINE t == call.xs[k]
           asked == Asked(Space(FileSel(t)))
           to == Elements(MemSpace(t, dsel[t.dset]))
           got(j) == IF j <= Len(asked) THEN <<t.dset, asked[j]>> ELSE Junk
           F == FileElements(t)
           M == MemElements(t)
<1>1. call.xs \in Seq(Transfers) /\ Index = 1 .. Len(call.xs) /\ i = Len(call.xs) + 1 /\ DOMAIN bufs = Index
  BY DEF Shaped, Staged, Index
<1>2. t \in Transfers
  BY <1>1
<1>3. IsSelection(FileSel(t), Len(Dims)) /\ IsSpace(MemSpace(t, FileSel(t)))
  BY <1>2, TransferIs
<1>4. k < i /\ \A j \in Index : j < i
  BY <1>1
<1>5. SelectionHeld(k) /\ Matched(k)
  BY <1>4 DEF Prepared
<1>6. t.mem = H5S_ALL => dsel[t.dset] = FileSel(t)
  BY <1>4, <1>5 DEF SelectionHeld, OwnSelection
<1>7. to = M
  BY <1>6 DEF MemSpace, MemElements
<1>8. bufs'[k] = {<<to[j], got(j)>> : j \in DOMAIN to}
  BY <1>1 DEF ServeRead
<1>9. /\ NPoints(MemSpace(t, FileSel(t))) = NPoints(Space(FileSel(t)))
      /\ NPoints(Space(FileSel(t))) \in Nat
      /\ DOMAIN M = 1 .. NPoints(Space(FileSel(t))) /\ DOMAIN F = 1 .. NPoints(Space(FileSel(t)))
      /\ Len(F) = NPoints(Space(FileSel(t)))
  BY <1>3, <1>5, SpaceIs, ElementsAre DEF Matched, MemElements, FileElements, NPoints
<1>10. CASE FileSel(t) = NoneSel
  <2>1. F = <<>>
    BY <1>10 DEF FileElements, Elements, Space, NoneSel
  <2> HIDE DEF F, M, to, got
  <2>2. DOMAIN F = {} /\ DOMAIN M = {}
    BY <1>9, <2>1
  <2> QED
    BY <1>7, <1>8, <2>2 DEF F, M
<1>11. CASE FileSel(t) # NoneSel
  <2>1. asked = F
    BY <1>3, <1>11, AskedIsSelected DEF FileElements
  <2>2. \A j \in DOMAIN F : got(j) = <<t.dset, F[j]>>
    <3> HIDE DEF F, M, asked, to
    <3>1. \A j \in DOMAIN F : j <= Len(asked)
      BY <1>9, <2>1
    <3> QED
      BY <2>1, <3>1
  <2> HIDE DEF F, M, to, got, asked
  <2>3. DOMAIN to = DOMAIN F
    BY <1>7, <1>9
  <2>4. bufs'[k] = {<<M[j], <<t.dset, F[j]>> >> : j \in DOMAIN F}
    BY <1>7, <1>8, <2>2, <2>3
  <2> QED
    BY <2>4 DEF F, M
<1> QED
  BY <1>10, <1>11

\* What the server does with the body of a write.
LEMMA WrittenExactly ==
  ASSUME Inv, pc = "perform", NEW k \in Index, ServeWrite(k)
  PROVE  StoredExactly(k)
<1> USE DEF Inv
<1> DEFINE t == call.xs[k]
           mem == MemSpace(t, FileSel(t))
           asked == Asked(Space(FileSel(t)))
           F == FileElements(t)
           M == MemElements(t)
           N == NPoints(mem)
<1> SUFFICES ASSUME call.op = "write", Expressible(FileSel(t)), OffsetRight(t),
                    t.class = "vlen" => call.xs[1].class = "vlen"
             PROVE  stored' = [stored EXCEPT ![t.dset] =
                                 {p \in @ : p[1] \notin ToSet(F)}
                                   \cup {<<F[j], <<k, M[j]>> >> : j \in LastOf(F)}]
  BY DEF StoredExactly
<1>1. call.xs \in Seq(Transfers) /\ Index = 1 .. Len(call.xs) /\ i = Len(call.xs) + 1
  BY DEF Shaped, Staged, Index
<1>2. t \in Transfers
  BY <1>1
<1>3. IsSelection(FileSel(t), Len(Dims)) /\ IsSpace(mem)
  BY <1>2, TransferIs
<1>4. k < i
  BY <1>1
<1>5. Matched(k) /\ PackedOne(k)
  BY <1>4 DEF Prepared, Packed
<1>6. /\ N = NPoints(Space(FileSel(t))) /\ N \in Nat
      /\ DOMAIN M = 1 .. N /\ DOMAIN F = 1 .. N /\ (M = <<>> <=> N = 0) /\ (F = <<>> <=> N = 0)
  BY <1>3, <1>5, SpaceIs, ElementsAre DEF Matched, MemElements, FileElements
<1>7. body[k] = [n \in 1 .. N |-> SrcAt(t, mem, Offset(t, mem) + n - 1)] /\ ~OffsetFails(t, mem)
  BY <1>5 DEF PackedOne, Body
<1>8. ASSUME NEW n \in 1 .. N PROVE body[k][n] = M[n]
  <2>1. M # <<>>
    BY <1>6, <1>8
  <2>2. \/ ~IsContiguous(mem) \/ Elements(mem)[1] = 0
        \/ t.class = "fixed" /\ ~t.conv /\ StartToOffset(mem) = Elements(mem)[1]
    BY <2>1 DEF OffsetRight, MemElements
  <2> HIDE DEF mem, t
  <2>3. SrcAt(t, mem, Offset(t, mem) + n - 1) = Elements(mem)[n]
    BY <1>3, <1>7, <2>2, SourceIs
  <2> QED
    BY <1>7, <2>3 DEF MemElements, mem
<1>9. FileSel(t) # NoneSel
  <2> SUFFICES ASSUME FileSel(t) = NoneSel PROVE FALSE
    OBVIOUS
  <2>1. F = <<>>
    BY DEF FileElements, Elements, Space, NoneSel
  <2>2. asked = [n \in 1 .. Size(Dims) |-> n - 1]
    BY DEF Asked, Elements, Space, NoneSel, AllSel
  <2>3. Size(Dims) \in Nat \ {0}
    BY DatasetAssumption, SizeIs
  <2> HIDE DEF asked, F, M, mem
  <2>4. Len(asked) = Size(Dims)
    BY <2>2, <2>3, IsSeq
  <2>5. Len(body[k]) = N
    <3> DEFINE b == body[k]
    <3>1. b = [n \in 1 .. N |-> b[n]]
      BY <1>7
    <3> HIDE DEF b, N
    <3>2. Len(b) = N
      BY <1>6, <3>1, IsSeq
    <3> QED
      BY <3>2 DEF b
  <2>6. Len(asked) = Len(body[k])
    BY DEF ServeWrite, asked
  <2> QED
    BY <1>6, <2>1, <2>3, <2>4, <2>5, <2>6
<1>10. asked = F
  BY <1>3, <1>9, AskedIsSelected DEF FileElements
<1>11. stored' = [stored EXCEPT ![t.dset] = {p \in @ : p[1] \notin ToSet(asked)}
                     \cup {<<asked[j], <<k, body[k][j]>> >> : j \in LastOf(asked)}]
  BY DEF ServeWrite
<1> HIDE DEF asked, F, M, mem, t, N
<1>12. LastOf(F) \subseteq 1 .. N
  BY <1>6 DEF LastOf
<1>13. {<<F[j], <<k, body[k][j]>> >> : j \in LastOf(F)} = {<<F[j], <<k, M[j]>> >> : j \in LastOf(F)}
  BY <1>8, <1>12
<1> QED
  BY <1>10, <1>11, <1>13

LEMMA ServeInv ==
  ASSUME Inv, NEW k \in Index, Serve(k)
  PROVE  Inv'
<1> USE DEF Inv
<1>1. /\ pc = "perform" /\ k \in added /\ served' = served \cup {k} /\ pc' = "perform"
      /\ dsel' = dsel /\ call' = call /\ i' = i /\ selbody' = selbody /\ wlen' = wlen
      /\ added' = added /\ named' = named /\ Index' = Index /\ Cur' = Cur
      /\ body' = body
  BY DEF Serve, inputs, setup, Index, Cur
<1>2. DOMAIN bufs' = DOMAIN bufs /\ \A j \in DOMAIN bufs : j # k => bufs'[j] = bufs[j]
  BY DEF Serve, ServeRead, ServeWrite
<1>3. Shaped'
  BY <1>1, <1>2 DEF Shaped
<1>4. Staged'
  BY <1>1 DEF Staged
<1>5. Prepared'
  BY <1>1 DEF Prepared, SelectionHeld, Matched, SentUnlessEmpty, FileElements, FileSel, MemSpace, Space
<1>6. Guarded'
  BY <1>1 DEF Guarded, Writable, Serve, ServeRead, ServeWrite
<1>9. Packed'
  BY <1>1 DEF Packed, PackedOne, Body
<1>7. FreedOnce'
  BY <1>1 DEF FreedOnce
<1>8. ReadExact'
  <2> SUFFICES ASSUME call.op = "read", NEW n \in served \cup {k},
                      Expressible(FileSel(call.xs[n])), OwnSelection(n)
               PROVE  bufs'[n] = {<<MemElements(call.xs[n])[j], <<call.xs[n].dset, FileElements(call.xs[n])[j]>> >> :
                                    j \in DOMAIN FileElements(call.xs[n])}
    BY <1>1 DEF ReadExact, OwnSelection, FileSel, MemElements, FileElements, MemSpace, Space
  <2>1. CASE n = k
    BY <1>1, <2>1, ServedExactly DEF Serve, ServeWrite
  <2>2. CASE n # k
    <3>1. n \in served
      BY <2>2
    <3>2. n \in Index
      BY <1>1, <3>1 DEF Staged, Shaped, Index
    <3>3. bufs'[n] = bufs[n]
      BY <1>2, <2>2, <3>2 DEF Shaped
    <3> QED
      BY <3>1, <3>3 DEF ReadExact
  <2> QED
    BY <2>1, <2>2
<1> QED
  BY <1>3, <1>4, <1>5, <1>6, <1>7, <1>8, <1>9

LEMMA NextInv ==
  ASSUME Inv, [Next]_vars
  PROVE  Inv'
<1>1. dsel = [d \in Dset |-> dsel[d]] /\ \A d \in Dset : IsSelection(dsel[d], Len(Dims))
  BY DEF Inv, Shaped
<1>2. CASE \E op \in {"read", "write"}, n \in {1, 2} : \E xs \in [1 .. n -> Transfers] : Start(op, xs)
  BY <1>2, StartInv
<1>3. CASE RefuseWrite
  <2>1. Return /\ dsel' = dsel
    BY <1>3 DEF RefuseWrite
  <2> QED
    BY <1>1, <2>1, Returned
<1>4. CASE SetUpRead
  BY <1>4, SetUpReadInv
<1>5. CASE SetUpWrite
  BY <1>5, SetUpWriteInv
<1>6. CASE \E late \in BOOLEAN : SetUpFails(late)
  BY <1>6, SetUpFailsInv
<1>7. CASE \E k \in Index : Serve(k)
  BY <1>7, ServeInv
<1>8. CASE PerformEnds
  <2>1. Return /\ dsel' = dsel
    BY <1>8 DEF PerformEnds
  <2> QED
    BY <1>1, <2>1, Returned
<1>9. CASE UNCHANGED vars
  <2>1. /\ dsel' = dsel /\ pc' = pc /\ call' = call /\ i' = i /\ selbody' = selbody /\ wlen' = wlen
        /\ added' = added /\ named' = named /\ served' = served /\ stored' = stored /\ bufs' = bufs
        /\ body' = body
    BY <1>9 DEF vars, inputs, setup, results
  <2>2. Shaped' /\ Staged' /\ Guarded'
    BY <2>1 DEF Inv, Shaped, Staged, Guarded, Index, Writable
  <2>3. Prepared'
    BY <2>1 DEF Inv, Prepared, SelectionHeld, Matched, SentUnlessEmpty, FileElements, FileSel, MemSpace, Space, Index
  <2>4. FreedOnce' /\ ReadExact'
    BY <2>1 DEF Inv, FreedOnce, Cur, ReadExact, OwnSelection, FileSel, MemElements, FileElements, MemSpace, Space, Index
  <2>5. Packed'
    BY <2>1 DEF Inv, Packed, PackedOne, Body, Index
  <2> QED
    BY <2>2, <2>3, <2>4, <2>5 DEF Inv
<1> QED
  BY <1>2, <1>3, <1>4, <1>5, <1>6, <1>7, <1>8, <1>9 DEF Next, Connector

-----------------------------------------------------------------------------
(* The theorems. *)

\* The inductive invariant holds: transfers are set up in order, each with as many elements
\* in memory as in the file, and the requests wait for all of them.
THEOREM Invariance == Spec => []Inv
BY InitInv, NextInv, PTL DEF Spec

\* RV_dataset_read scatters the elements that the application selected, in their order,
\* into the places it selected, whatever order the answers come in and whatever calls came
\* before: where triplets can say what is selected and H5S_ALL means the same to all the
\* transfers of a dataset.
THEOREM ReadsAreExact == Spec => []ReadExact
<1>1. Inv => ReadExact
  BY DEF Inv
<1> QED
  BY <1>1, Invariance, PTL

\* A selection in memory that RV_dataspace_selection_is_contiguous accepts is contiguous: its
\* elements follow one another, in any space and any number of dimensions.
THEOREM ContiguousIsSound == Spec => []ContiguousSound
<1>1. Inv => ContiguousSound
  <2> SUFFICES ASSUME Inv, NEW k \in Index,
                      IsContiguous(MemSpace(call.xs[k], FileSel(call.xs[k]))),
                      NEW j \in 2 .. Len(MemElements(call.xs[k]))
               PROVE  MemElements(call.xs[k])[j] = MemElements(call.xs[k])[j - 1] + 1
    BY DEF ContiguousSound, MemElements
  <2> DEFINE mem == MemSpace(call.xs[k], FileSel(call.xs[k]))
             E == Elements(mem)
  <2>1. call.xs[k] \in Transfers
    BY DEF Inv, Shaped, Index
  <2>2. IsSpace(mem)
    BY <2>1, TransferIs
  <2> HIDE DEF mem
  <2>3. NPoints(mem) \in Nat /\ j \in 2 .. NPoints(mem)
    BY <2>2, ElementsAre DEF MemElements, NPoints, mem
  <2>4. j \in 1 .. NPoints(mem) /\ j - 1 \in 1 .. NPoints(mem)
    BY <2>3
  <2>5. E[1] \in Nat /\ E[j] = E[1] + j - 1
    BY <2>2, <2>4, ContiguousIs DEF mem
  <2>6. E[j - 1] = E[1] + (j - 1) - 1
    BY <2>2, <2>4, ContiguousIs DEF mem
  <2> HIDE DEF E
  <2>7. E[j] = E[j - 1] + 1
    BY <2>3, <2>5, <2>6
  <2> QED
    BY <2>7 DEF E, mem, MemElements
<1> QED
  BY <1>1, Invariance, PTL

\* RV_dataset_write stores what the application selected in its buffer, in its order, in the
\* elements it selected in the dataset, and changes nothing else: where triplets can say what
\* is selected, the offset is that of the selection and sequences are packed by their type.
THEOREM WritesAreExact == Spec => WriteExact
<1>1. Inv /\ [Next]_vars => [\A k \in served' \ served : StoredExactly(k)]_vars
  <2> SUFFICES ASSUME Inv, Next, NEW k \in served' \ served PROVE StoredExactly(k)
    OBVIOUS
  <2>1. \E n \in Index : Serve(n)
    BY DEF Next, Connector, Start, RefuseWrite, Return, SetUpRead, SetUpWrite, SetUpFails, PerformEnds, results
  <2>2. k \in Index /\ Serve(k)
    BY <2>1 DEF Serve
  <2> QED
    BY <2>2, WrittenExactly DEF Serve, ServeRead, StoredExactly
<1> QED
  BY <1>1, Invariance, PTL DEF Spec, WriteExact

\* RV_dataset_read and RV_dataset_write pass over no transfer that has elements, free the
\* selection body at most once unless a write to several datasets fails, and send nothing
\* to a file opened without write intent.
THEOREM SetUpIsSound == Spec => []SetUpSound
<1>1. Inv => SetUpSound
  <2> SUFFICES ASSUME Inv PROVE SetUpSound
    OBVIOUS
  <2> USE DEF Inv
  <2>1. call.xs \in Seq(Transfers) /\ Index = 1 .. Len(call.xs) /\ Len(call.xs) \in Nat
    BY DEF Shaped, Index
  <2>2. \A s : IsSelection(s, Len(Dims)) => s.type \in {"all", "none", "points", "hyper"}
    BY DEF IsSelection, AllSel, NoneSel
  <2>3. 1 .. (i - 1) \subseteq Index
    BY <2>1 DEF Staged, Shaped
  <2>4. TypeOK
    BY <2>2, <2>3 DEF TypeOK, Shaped, Staged
  <2>5. AllSent
    BY <2>1 DEF AllSent, Prepared, SentUnlessEmpty, Staged
  <2>6. ReadOnlyKept
    BY DEF ReadOnlyKept, Guarded, Writable
  <2> QED
    BY <2>4, <2>5, <2>6 DEF SetUpSound
<1> QED
  BY <1>1, Invariance, PTL
=============================================================================
