--------------------------- MODULE RVPaths_proofs ---------------------------
(***************************************************************************)
(* What the recursive functions of RVPaths compute, step by step.          *)
(***************************************************************************)
EXTENDS RVPaths, SequenceTheorems, WellFoundedInduction, TLAPS

LEMMA Least ==
  ASSUME NEW S, S \subseteq Nat, S # {}
  PROVE  \E m \in S : \A y \in S : m <= y
<1> DEFINE R == OpToRel(<, Nat)
<1>1. IsWellFoundedOn(R, Nat)
  BY NatLessThanWellFounded
<1>2. \A x, y \in Nat : y < x => <<y, x>> \in R
  BY DEF OpToRel
<1> HIDE DEF R
<1>3. PICK m \in S : \A y \in S : <<y, m>> \notin R
  BY <1>1, WFMin
<1>4. \A y \in S : ~(y < m) /\ y \in Nat /\ m \in Nat
  BY <1>2, <1>3
<1>5. \A y \in S : m <= y
  BY <1>4
<1> QED
  BY <1>5

\* A set of numbers that has 0, and each number whose predecessor it has.
LEMMA UpTo ==
  ASSUME NEW n \in Nat, NEW T, 0 \in T, \A k \in 1 .. n : k - 1 \in T => k \in T
  PROVE  0 .. n \subseteq T
<1> DEFINE S == {k \in 0 .. n : k \notin T}
<1>1. SUFFICES ASSUME S # {} PROVE FALSE
  OBVIOUS
<1>2. PICK k \in S : \A y \in S : k <= y
  <2>1. S \subseteq Nat
    OBVIOUS
  <2> HIDE DEF S
  <2> QED
    BY <1>1, <2>1, Least
<1>3. k \in 1 .. n /\ k - 1 \in Nat /\ ~(k <= k - 1)
  OBVIOUS
<1>4. k - 1 \notin S
  <2> HIDE DEF S
  <2> QED
    BY <1>2, <1>3
<1> QED
  BY <1>3, <1>4

\* A function whose values follow one from the next.
Follows(f, F, z, n) == f[0] = z /\ \A k \in 1 .. n : f[k] = F[k][f[k - 1]]

LEMMA FollowsExists ==
  ASSUME NEW n \in Nat, NEW V, NEW z \in V, NEW F \in [1 .. n -> [V -> V]]
  PROVE  \E f \in [0 .. n -> V] : Follows(f, F, z, n)
<1> DEFINE T == {m \in 0 .. n : \E f \in [0 .. m -> V] : Follows(f, F, z, m)}
<1>1. 0 \in T
  <2>1. [k \in 0 .. 0 |-> z] \in [0 .. 0 -> V] /\ Follows([k \in 0 .. 0 |-> z], F, z, 0)
    BY DEF Follows
  <2> QED
    BY <2>1
<1>2. ASSUME NEW m \in 1 .. n, m - 1 \in T PROVE m \in T
  <2>1. PICK f \in [0 .. (m - 1) -> V] : Follows(f, F, z, m - 1)
    BY <1>2
  <2> DEFINE v == F[m][f[m - 1]]
             g == [k \in 0 .. m |-> IF k = m THEN v ELSE f[k]]
  <2>2. v \in V /\ v = F[m][f[m - 1]]
    <3>1. m - 1 \in 0 .. (m - 1)
      OBVIOUS
    <3> QED
      BY <3>1
  <2> HIDE DEF v
  <2>3. g \in [0 .. m -> V] /\ g[m] = v /\ \A k \in 0 .. (m - 1) : g[k] = f[k]
    BY <2>2
  <2> HIDE DEF g
  <2>4. \A k \in 1 .. m : g[k] = F[k][g[k - 1]]
    <3> TAKE k \in 1 .. m
    <3>1. g[k - 1] = f[k - 1]
      BY <2>3
    <3>2. CASE k = m
      BY <2>2, <2>3, <3>1, <3>2
    <3>3. CASE k # m
      <4>1. k \in 1 .. (m - 1) /\ g[k] = f[k]
        BY <2>3, <3>3
      <4> QED
        BY <2>1, <3>1, <4>1 DEF Follows
    <3> QED
      BY <3>2, <3>3
  <2>5. Follows(g, F, z, m)
    <3>1. 0 \in 0 .. (m - 1)
      OBVIOUS
    <3> QED
      BY <2>1, <2>3, <2>4, <3>1 DEF Follows
  <2> QED
    BY <2>3, <2>5
<1> HIDE DEF T
<1>3. 0 .. n \subseteq T
  BY <1>1, <1>2, UpTo
<1>4. n \in T
  BY <1>3
<1> QED
  BY <1>4 DEF T

LEMMA FollowsUnique ==
  ASSUME NEW n \in Nat, NEW z, NEW F, NEW f, Follows(f, F, z, n), NEW g, Follows(g, F, z, n)
  PROVE  \A k \in 0 .. n : f[k] = g[k]
<1> DEFINE T == {k \in 0 .. n : f[k] = g[k]}
<1>1. 0 \in T
  BY DEF Follows
<1>2. ASSUME NEW k \in 1 .. n, k - 1 \in T PROVE k \in T
  BY <1>2 DEF Follows
<1> HIDE DEF T
<1>3. 0 .. n \subseteq T
  BY <1>1, <1>2, UpTo
<1> QED
  BY <1>3 DEF T

-----------------------------------------------------------------------------
(* Hard links. *)

LEMMA LinkInType ==
  ASSUME NEW ls \in Links, NEW g, NEW n \in Name
  PROVE  /\ LinkIn(ls, g, n) \in Link \cup {NoLink}
         /\ LinkIn(ls, g, n) # NoLink => g \in Group
  BY DEF LinkIn, Links

LEMMA HardStepType ==
  ASSUME NEW ls \in Links, NEW g, NEW n \in Name
  PROVE  /\ HardStep(ls, g, n) \in Object \cup {Nothing}
         /\ HardStep(ls, g, n) # Nothing => g \in Group
<1> DEFINE l == LinkIn(ls, g, n)
<1>1. /\ l \in Link \cup {NoLink}
      /\ l # NoLink => g \in Group
      /\ HardStep(ls, g, n) = IF l # NoLink /\ l.kind = "hard" THEN l.target ELSE Nothing
  BY LinkInType DEF HardStep
<1> HIDE DEF l
<1>2. l \in Link /\ l.kind = "hard" => l.target \in Object
  BY DEF Link
<1> QED
  BY <1>1, <1>2

LEMMA HardStepsIs ==
  ASSUME NEW ls \in Links, NEW o \in Object, NEW s \in Seq(Name)
  PROVE  /\ HardSteps(ls, o, s) \in [0 .. Len(s) -> Object \cup {Nothing}]
         /\ HardSteps(ls, o, s)[0] = o
         /\ \A i \in 1 .. Len(s) : HardSteps(ls, o, s)[i] = HardStep(ls, HardSteps(ls, o, s)[i - 1], s[i])
<1> DEFINE V == Object \cup {Nothing}
           n == Len(s)
           F == [i \in 1 .. n |-> [x \in V |-> HardStep(ls, x, s[i])]]
           Solves(g) == g = [i \in 0 .. n |-> IF i = 0 THEN o ELSE HardStep(ls, g[i - 1], s[i])]
<1>1. n \in Nat /\ o \in V /\ \A i \in 1 .. n : s[i] \in Name
  OBVIOUS
<1>2. F \in [1 .. n -> [V -> V]]
  BY <1>1, HardStepType
<1>3. \A i \in 1 .. n : \A x \in V : F[i][x] = HardStep(ls, x, s[i])
  OBVIOUS
<1>4. HardSteps(ls, o, s) = CHOOSE g : Solves(g)
  BY DEF HardSteps
<1> HIDE DEF F, V, n
<1>5. PICK f \in [0 .. n -> V] : Follows(f, F, o, n)
  BY <1>1, <1>2, FollowsExists
<1>6. f = [i \in 0 .. n |-> IF i = 0 THEN o ELSE HardStep(ls, f[i - 1], s[i])]
  <2>1. ASSUME NEW i \in 0 .. n PROVE f[i] = IF i = 0 THEN o ELSE HardStep(ls, f[i - 1], s[i])
    <3>1. CASE i = 0
      BY <1>5, <3>1 DEF Follows
    <3>2. CASE i # 0
      <4>1. i \in 1 .. n /\ i - 1 \in 0 .. n
        BY <1>1, <3>2
      <4>2. f[i] = F[i][f[i - 1]] /\ f[i - 1] \in V
        BY <1>5, <4>1 DEF Follows
      <4> QED
        BY <1>3, <3>2, <4>1, <4>2
    <3> QED
      BY <3>1, <3>2
  <2> QED
    BY <2>1
<1>7. Solves(f)
  BY <1>6
<1> DEFINE g == HardSteps(ls, o, s)
<1>8. Solves(g)
  BY <1>4, <1>7
<1>9. g[0] = o /\ \A i \in 1 .. n : g[i] = HardStep(ls, g[i - 1], s[i])
  BY <1>1, <1>8
<1>10. DOMAIN g = 0 .. n /\ g = [i \in 0 .. n |-> g[i]]
  BY <1>8
<1> HIDE DEF g
<1>11. \A i \in 0 .. n : g[i] \in V
  <2> DEFINE T == {i \in 0 .. n : g[i] \in V}
  <2>1. 0 \in T
    BY <1>1, <1>9
  <2>2. ASSUME NEW i \in 1 .. n, i - 1 \in T PROVE i \in T
    <3>1. HardStep(ls, g[i - 1], s[i]) \in V
      BY <1>1, HardStepType DEF V
    <3> QED
      BY <1>9, <3>1
  <2> HIDE DEF T
  <2>3. 0 .. n \subseteq T
    BY <1>1, <2>1, <2>2, UpTo
  <2> QED
    BY <2>3 DEF T
<1> QED
  BY <1>9, <1>10, <1>11 DEF g, n, V

-----------------------------------------------------------------------------
(* Paths. *)

\* Where the hard links end, if they do not lead to the end of the names.
LEMMA FirstOtherIs ==
  ASSUME NEW ls \in Links, NEW o \in Object, NEW s \in Seq(Name),
         NEW at, at = HardSteps(ls, o, s), at[Len(s)] = Nothing
  PROVE  /\ FirstOther(at, s) \in 1 .. Len(s)
         /\ at[FirstOther(at, s)] = Nothing
         /\ at[FirstOther(at, s) - 1] \in Object
<1> DEFINE n == Len(s)
           S == {i \in 0 .. n : at[i] = Nothing}
<1>1. n \in Nat /\ DOMAIN s = 1 .. n /\ Nothing \notin Object
  BY SentinelAssumption
<1>2. at \in [0 .. n -> Object \cup {Nothing}] /\ at[0] = o
  BY HardStepsIs
<1>3. n \in S /\ S \subseteq Nat
  BY <1>1
<1>4. PICK i \in S : \A j \in S : i <= j
  <2> HIDE DEF S
  <2> QED
    BY <1>3, Least
<1>5. i \in 0 .. n /\ at[i] = Nothing /\ i # 0
  BY <1>1, <1>2, <1>4
<1>6. i \in 1 .. n /\ i - 1 \in 0 .. n /\ i - 1 \in Nat /\ ~(i <= i - 1)
  BY <1>1, <1>5
<1>7. i - 1 \notin S
  <2> HIDE DEF S
  <2> QED
    BY <1>4, <1>6
<1>8. i \in DOMAIN s /\ at[i] = Nothing /\ at[i - 1] # Nothing
  BY <1>1, <1>5, <1>6, <1>7
<1> DEFINE j == FirstOther(at, s)
<1>9. j \in DOMAIN s /\ at[j] = Nothing /\ at[j - 1] # Nothing
  BY <1>8 DEF FirstOther
<1> HIDE DEF j
<1>10. j - 1 \in 0 .. n
  BY <1>1, <1>9
<1>11. at[j - 1] \in Object
  BY <1>2, <1>9, <1>10
<1> QED
  BY <1>1, <1>9, <1>11 DEF j

\* The value of the link found there, and the names to be followed from it.
LEMMA ValueIs ==
  ASSUME NEW ls \in Links, NEW o \in Object, NEW s \in Seq(Name),
         NEW at, at = HardSteps(ls, o, s), at[Len(s)] = Nothing,
         NEW i, i = FirstOther(at, s), NEW l, l = LinkIn(ls, at[i - 1], s[i]), l # NoLink
  PROVE  /\ l \in Link /\ l.kind \in {"soft", "external"} /\ l.path \in Path
         /\ at[i - 1] \in Group
         /\ Origin(at[i - 1], l) \in Object
         /\ l.path.names \o SubSeq(s, i + 1, Len(s)) \in Seq(Name)
<1> DEFINE g == at[i - 1]
<1>1. i \in 1 .. Len(s) /\ at[i] = Nothing /\ g \in Object /\ s[i] \in Name
  BY FirstOtherIs
<1>2. l \in Link /\ g \in Group
  BY <1>1, LinkInType
<1>3. HardStep(ls, g, s[i]) = Nothing
  BY <1>1, HardStepsIs
<1> HIDE DEF g
<1>4. l.kind # "hard"
  <2>1. l.kind = "hard" => l.target \in Object
    BY <1>2 DEF Link
  <2>2. l.kind = "hard" => HardStep(ls, g, s[i]) = l.target
    BY DEF HardStep, g
  <2> QED
    BY <1>3, <2>1, <2>2, SentinelAssumption
<1>5. /\ l.kind \in {"soft", "external"} /\ l.path \in Path
      /\ l.kind = "external" => l.file \in File
  BY <1>2, <1>4 DEF Link
<1>6. Origin(g, l) \in Object
  BY <1>2, <1>5, RootAssumption DEF Origin, StartOf, Object
<1>7. l.path.names \in Seq(Name)
  BY <1>5 DEF Path
<1>8. SubSeq(s, i + 1, Len(s)) \in Seq(Name)
  BY <1>1
<1> QED
  BY <1>2, <1>5, <1>6, <1>7, <1>8 DEF g

\* What Walk comes to with k links to be followed, if w tells it for k - 1.
WalkValues == [Object -> [Seq(Name) -> Object \cup {Nothing}]]

WalkFrom(ls, k, w) ==
  [x \in Object |-> [s \in Seq(Name) |->
    LET at == HardSteps(ls, x, s)
        i  == FirstOther(at, s)
        l  == LinkIn(ls, at[i - 1], s[i])
    IN IF at[Len(s)] # Nothing THEN at[Len(s)]
       ELSE IF l = NoLink \/ k = 0 THEN Nothing
       ELSE w[Origin(at[i - 1], l)][l.path.names \o SubSeq(s, i + 1, Len(s))]]]

LEMMA WalkFromType ==
  ASSUME NEW ls \in Links, NEW k, NEW w, k = 0 \/ w \in WalkValues
  PROVE  WalkFrom(ls, k, w) \in WalkValues
<1> SUFFICES ASSUME NEW x \in Object, NEW s \in Seq(Name)
             PROVE  WalkFrom(ls, k, w)[x][s] \in Object \cup {Nothing}
  BY DEF WalkFrom, WalkValues
<1> DEFINE at == HardSteps(ls, x, s)
           i  == FirstOther(at, s)
           l  == LinkIn(ls, at[i - 1], s[i])
           o  == Origin(at[i - 1], l)
           t  == l.path.names \o SubSeq(s, i + 1, Len(s))
<1>1. WalkFrom(ls, k, w)[x][s] = IF at[Len(s)] # Nothing THEN at[Len(s)]
                                 ELSE IF l = NoLink \/ k = 0 THEN Nothing ELSE w[o][t]
  BY DEF WalkFrom
<1>2. at[Len(s)] \in Object \cup {Nothing}
  BY HardStepsIs
<1>3. at[Len(s)] = Nothing /\ l # NoLink => o \in Object /\ t \in Seq(Name)
  BY ValueIs
<1> HIDE DEF at, l, o, t
<1>4. k # 0 /\ o \in Object /\ t \in Seq(Name) => w[o][t] \in Object \cup {Nothing}
  BY DEF WalkValues
<1> QED
  BY <1>1, <1>2, <1>3, <1>4

WalkStep(ls, n) == [k \in 1 .. n |-> [w \in WalkValues |-> WalkFrom(ls, k, w)]]

LEMMA WalkFunction ==
  ASSUME NEW ls \in Links, NEW n \in Nat
  PROVE  \E f \in [0 .. n -> WalkValues] :
           /\ Follows(f, WalkStep(ls, n), WalkFrom(ls, 0, {}), n)
           /\ \A o \in Object, s \in Seq(Name) : Walk(ls, o, s, n) = f[n][o][s]
<1> DEFINE F == WalkStep(ls, n)
           z == WalkFrom(ls, 0, {})
           Solves(g) == g = [k \in 0 .. n |->
             [x \in Object |-> [s \in Seq(Name) |->
               LET at == HardSteps(ls, x, s)
                   i  == FirstOther(at, s)
                   l  == LinkIn(ls, at[i - 1], s[i])
               IN IF at[Len(s)] # Nothing THEN at[Len(s)]
                  ELSE IF l = NoLink \/ k = 0 THEN Nothing
                  ELSE g[k - 1][Origin(at[i - 1], l)][l.path.names \o SubSeq(s, i + 1, Len(s))]]]]
           g == CHOOSE h : Solves(h)
<1>1. \A o \in Object, s \in Seq(Name) : Walk(ls, o, s, n) = g[n][o][s]
  BY DEF Walk
<1>2. \A h : Solves(h) <=> h = [k \in 0 .. n |-> WalkFrom(ls, k, h[k - 1])]
  BY DEF WalkFrom
<1> HIDE DEF Solves
<1>3. \A v : WalkFrom(ls, 0, v) = z
  BY DEF WalkFrom
<1>4. z \in WalkValues /\ F \in [1 .. n -> [WalkValues -> WalkValues]]
  <2>1. z \in WalkValues
    BY WalkFromType
  <2>2. \A k \in 1 .. n, w \in WalkValues : WalkFrom(ls, k, w) \in WalkValues
    BY WalkFromType
  <2> QED
    BY <2>1, <2>2 DEF WalkStep
<1>5. \A k \in 1 .. n, w \in WalkValues : F[k][w] = WalkFrom(ls, k, w)
  BY DEF WalkStep
<1> HIDE DEF F, z
<1>6. PICK f \in [0 .. n -> WalkValues] : Follows(f, F, z, n)
  BY <1>4, FollowsExists
<1>7. f = [k \in 0 .. n |-> WalkFrom(ls, k, f[k - 1])]
  <2>1. ASSUME NEW k \in 0 .. n PROVE f[k] = WalkFrom(ls, k, f[k - 1])
    <3>1. CASE k = 0
      BY <1>3, <1>6, <3>1 DEF Follows
    <3>2. CASE k # 0
      <4>1. k \in 1 .. n /\ k - 1 \in 0 .. n
        BY <3>2
      <4>2. f[k - 1] \in WalkValues
        BY <1>6, <4>1
      <4> QED
        BY <1>5, <1>6, <4>1, <4>2 DEF Follows
    <3> QED
      BY <3>1, <3>2
  <2> QED
    BY <2>1
<1>8. Solves(g)
  BY <1>2, <1>7
<1>9. g = [k \in 0 .. n |-> WalkFrom(ls, k, g[k - 1])]
  BY <1>2, <1>8
<1> HIDE DEF g
<1>10. DOMAIN g = 0 .. n /\ \A k \in 0 .. n : g[k] = WalkFrom(ls, k, g[k - 1])
  BY <1>9
<1>11. \A k \in 0 .. n : g[k] = f[k]
  <2> DEFINE T == {k \in 0 .. n : g[k] = f[k]}
  <2>1. 0 \in T
    BY <1>3, <1>6, <1>10 DEF Follows
  <2>2. ASSUME NEW k \in 1 .. n, k - 1 \in T PROVE k \in T
    <3>1. k \in 0 .. n /\ k - 1 \in 0 .. n /\ f[k - 1] \in WalkValues /\ g[k - 1] = f[k - 1]
      BY <1>6, <2>2
    <3> QED
      BY <1>5, <1>6, <1>10, <3>1 DEF Follows
  <2> HIDE DEF T
  <2>3. 0 .. n \subseteq T
    BY <2>1, <2>2, UpTo
  <2> QED
    BY <2>3 DEF T
<1>12. \A o \in Object, s \in Seq(Name) : Walk(ls, o, s, n) = f[n][o][s]
  BY <1>1, <1>11 DEF g
<1> QED
  BY <1>6, <1>12 DEF F, z

\* One link after the other.
LEMMA WalkIs ==
  ASSUME NEW ls \in Links, NEW n \in Nat, NEW o \in Object, NEW s \in Seq(Name),
         NEW at, at = HardSteps(ls, o, s), NEW i, i = FirstOther(at, s),
         NEW l, l = LinkIn(ls, at[i - 1], s[i])
  PROVE  /\ Walk(ls, o, s, n) \in Object \cup {Nothing}
         /\ Walk(ls, o, s, n) =
              IF at[Len(s)] # Nothing THEN at[Len(s)]
              ELSE IF l = NoLink \/ n = 0 THEN Nothing
              ELSE Walk(ls, Origin(at[i - 1], l), l.path.names \o SubSeq(s, i + 1, Len(s)), n - 1)
<1> DEFINE x == Origin(at[i - 1], l)
           t == l.path.names \o SubSeq(s, i + 1, Len(s))
<1>1. PICK f \in [0 .. n -> WalkValues] :
        /\ Follows(f, WalkStep(ls, n), WalkFrom(ls, 0, {}), n)
        /\ \A y \in Object, u \in Seq(Name) : Walk(ls, y, u, n) = f[n][y][u]
  BY WalkFunction
<1>2. f[n] \in WalkValues /\ Walk(ls, o, s, n) = f[n][o][s]
  BY <1>1
<1>3. Walk(ls, o, s, n) \in Object \cup {Nothing}
  BY <1>2 DEF WalkValues
<1>4. \A k, w : WalkFrom(ls, k, w)[o][s] =
                  IF at[Len(s)] # Nothing THEN at[Len(s)]
                  ELSE IF l = NoLink \/ k = 0 THEN Nothing ELSE w[x][t]
  BY DEF WalkFrom
<1>5. at[Len(s)] = Nothing /\ l # NoLink => x \in Object /\ t \in Seq(Name)
  BY ValueIs
<1> HIDE DEF x, t
<1>6. CASE n = 0
  <2>1. f[n] = WalkFrom(ls, 0, {})
    BY <1>1, <1>6 DEF Follows
  <2> QED
    BY <1>2, <1>3, <1>4, <1>6, <2>1
<1>7. CASE n # 0
  <2>1. n - 1 \in Nat /\ n \in 1 .. n /\ n - 1 \in 0 .. n
    BY <1>7
  <2>2. f[n - 1] \in WalkValues
    BY <1>1, <2>1
  <2>3. f[n] = WalkFrom(ls, n, f[n - 1])
    BY <1>1, <2>1, <2>2 DEF Follows, WalkStep
  <2>4. PICK g \in [0 .. (n - 1) -> WalkValues] :
          /\ Follows(g, WalkStep(ls, n - 1), WalkFrom(ls, 0, {}), n - 1)
          /\ \A y \in Object, u \in Seq(Name) : Walk(ls, y, u, n - 1) = g[n - 1][y][u]
    BY <2>1, WalkFunction
  <2>5. g[n - 1] = f[n - 1]
    <3> DEFINE F == WalkStep(ls, n - 1)
               z == WalkFrom(ls, 0, {})
    <3>3. \A k \in 1 .. (n - 1) : WalkStep(ls, n)[k] = F[k]
      BY DEF WalkStep
    <3>4. Follows(f, F, z, n - 1)
      <4>1. \A k \in 1 .. (n - 1) : k \in 1 .. n
        BY <2>1
      <4> QED
        BY <1>1, <3>3, <4>1 DEF Follows
    <3> HIDE DEF F, z
    <3>5. Follows(g, F, z, n - 1)
      BY <2>4 DEF F, z
    <3> DEFINE m == n - 1
    <3>6. \A k \in 0 .. m : f[k] = g[k]
      <4>1. m \in Nat /\ Follows(f, F, z, m) /\ Follows(g, F, z, m)
        BY <2>1, <3>4, <3>5
      <4> HIDE DEF m
      <4> QED
        BY <4>1, FollowsUnique
    <3>7. n - 1 \in 0 .. (n - 1)
      BY <2>1
    <3> QED
      BY <3>6, <3>7
  <2>6. Walk(ls, o, s, n) = IF at[Len(s)] # Nothing THEN at[Len(s)]
                            ELSE IF l = NoLink THEN Nothing ELSE f[n - 1][x][t]
    BY <1>2, <1>4, <1>7, <2>3
  <2>7. at[Len(s)] = Nothing /\ l # NoLink => f[n - 1][x][t] = Walk(ls, x, t, n - 1)
    BY <1>5, <2>4, <2>5
  <2> QED
    BY <1>3, <1>7, <2>6, <2>7 DEF x, t
<1> QED
  BY <1>6, <1>7

LEMMA WalkHard ==
  ASSUME NEW ls \in Links, NEW n \in Nat, NEW o \in Object, NEW s \in Seq(Name),
         HardSteps(ls, o, s)[Len(s)] # Nothing
  PROVE  Walk(ls, o, s, n) = HardSteps(ls, o, s)[Len(s)]
<1> DEFINE at == HardSteps(ls, o, s)
           i  == FirstOther(at, s)
           l  == LinkIn(ls, at[i - 1], s[i])
           w  == Walk(ls, Origin(at[i - 1], l), l.path.names \o SubSeq(s, i + 1, Len(s)), n - 1)
<1>1. Walk(ls, o, s, n) = IF at[Len(s)] # Nothing THEN at[Len(s)]
                          ELSE IF l = NoLink \/ n = 0 THEN Nothing ELSE w
  BY WalkIs
<1> HIDE DEF w
<1> QED
  BY <1>1

\* An object that hard links lead to is what the path means.
LEMMA MeantIs ==
  ASSUME NEW ls \in Links, NEW o \in Object, NEW p \in Path
  PROVE  /\ Meant(ls, o, p) \in Object \cup {Nothing}
         /\ ByHardLinks(ls, o, p) \in Object \cup {Nothing}
         /\ ByHardLinks(ls, o, p) # Nothing => Meant(ls, o, p) = ByHardLinks(ls, o, p)
<1> DEFINE x  == StartOf(o, p)
           s  == p.names
           at == HardSteps(ls, x, s)
           i  == FirstOther(at, s)
           l  == LinkIn(ls, at[i - 1], s[i])
           y  == Origin(at[i - 1], l)
           t  == l.path.names \o SubSeq(s, i + 1, Len(s))
<1>1. x \in Object /\ s \in Seq(Name) /\ MaxFollow \in Nat /\ 0 \in Nat
  BY RootAssumption, FollowAssumption DEF StartOf, Object, Path
<1>2. \A n \in Nat : /\ Walk(ls, x, s, n) \in Object \cup {Nothing}
                     /\ Walk(ls, x, s, n) = IF at[Len(s)] # Nothing THEN at[Len(s)]
                                            ELSE IF l = NoLink \/ n = 0 THEN Nothing
                                            ELSE Walk(ls, y, t, n - 1)
  <2> HIDE DEF x, s
  <2> QED
    BY <1>1, WalkIs
<1>3. Meant(ls, o, p) = Walk(ls, x, s, MaxFollow) /\ ByHardLinks(ls, o, p) = Walk(ls, x, s, 0)
  BY DEF Meant, ByHardLinks
<1> HIDE DEF x, s, at, l, y, t
<1> QED
  BY <1>1, <1>2, <1>3

LEMMA TypedIs ==
  ASSUME NEW ls \in Links, NEW o \in Object, NEW p \in Path, NEW type
  PROVE  /\ Typed(ls, o, p, type) \in Object \cup {Nothing}
         /\ Typed(ls, o, p, type) # Nothing =>
              /\ TypeOf(Typed(ls, o, p, type)) = (IF type = "file" THEN "group" ELSE type)
              /\ p # Slash => Typed(ls, o, p, type) = Meant(ls, o, p)
<1> DEFINE x == IF p = Slash THEN o ELSE ByHardLinks(ls, o, p)
<1>1. Typed(ls, o, p, type) =
        IF x # Nothing /\ TypeOf(x) = (IF type = "file" THEN "group" ELSE type) THEN x ELSE Nothing
  BY DEF Typed
<1>2. x \in Object \cup {Nothing} /\ (p # Slash /\ x # Nothing => x = Meant(ls, o, p))
  BY MeantIs
<1> HIDE DEF x
<1> QED
  BY <1>1, <1>2

-----------------------------------------------------------------------------
(* Lookups by path from an old server. *)

\* The directory and the last name of a path that has names.
LEMMA DirnameIs ==
  ASSUME NEW p \in Path, p # Dot, p # Slash
  PROVE  /\ p.names # <<>> /\ Len(p.names) \in Nat \ {0}
         /\ Dirname(p) \in Path /\ Basename(p) \in Name
         /\ Dirname(p).abs = p.abs
         /\ Dirname(p).names = SubSeq(p.names, 1, Len(p.names) - 1)
         /\ ~EmptyDirname(p) => Dirname(p) # Dot
<1>1. p = [abs |-> p.abs, names |-> p.names] /\ p.abs \in BOOLEAN /\ p.names \in Seq(Name)
  BY DEF Path
<1>2. p.names # <<>>
  BY <1>1 DEF Dot, Slash
<1>3. Len(p.names) \in Nat \ {0}
  BY <1>1, <1>2
<1>4. Basename(p) \in Name
  BY <1>1, <1>3 DEF Basename, Last
<1>5. /\ SubSeq(p.names, 1, Len(p.names) - 1) \in Seq(Name)
      /\ Len(SubSeq(p.names, 1, Len(p.names) - 1)) = Len(p.names) - 1
  <2> DEFINE s == p.names
  <2>1. s \in Seq(Name) /\ Len(s) \in Nat \ {0}
    BY <1>1, <1>3
  <2> HIDE DEF s
  <2>2. SubSeq(s, 1, Len(s) - 1) \in Seq(Name) /\ Len(SubSeq(s, 1, Len(s) - 1)) = Len(s) - 1
    <3> DEFINE k == Len(s) - 1
    <3>1. k \in Int /\ 1 \in Int /\ \A i \in 1 .. k : s[i] \in Name
      BY <2>1
    <3>2. k \in Nat /\ (1 <= k \/ k = 0)
      <4>1. \A m \in Nat \ {0} : m - 1 \in Nat /\ (1 <= m - 1 \/ m - 1 = 0)
        OBVIOUS
      <4> QED
        BY <2>1, <4>1
    <3> HIDE DEF k
    <3>3. SubSeq(s, 1, k) \in Seq(Name) /\ Len(SubSeq(s, 1, k)) = IF 1 <= k THEN k - 1 + 1 ELSE 0
      BY <3>1, SubSeqProperties
    <3>4. Len(SubSeq(s, 1, k)) = k
      BY <3>2, <3>3
    <3> QED
      BY <3>3, <3>4 DEF k
  <2> QED
    BY <2>2 DEF s
<1>6. Dirname(p) = [abs |-> p.abs, names |-> SubSeq(p.names, 1, Len(p.names) - 1)]
  BY <1>1 DEF Dirname, Front
<1>7. Dirname(p) \in Path
  BY <1>1, <1>5, <1>6 DEF Path
<1>8. ~EmptyDirname(p) => Dirname(p) # Dot
  <2>1. SUFFICES ASSUME Dirname(p) = Dot PROVE EmptyDirname(p)
    OBVIOUS
  <2>2. p.abs = FALSE /\ SubSeq(p.names, 1, Len(p.names) - 1) = <<>>
    BY <1>6, <2>1 DEF Dot
  <2>3. Len(p.names) - 1 = 0
    BY <1>5, <2>2
  <2>4. Len(p.names) = 1
    BY <1>3, <2>3
  <2> QED
    BY <2>2, <2>4 DEF EmptyDirname
<1> QED
  BY <1>2, <1>3, <1>4, <1>6, <1>7, <1>8

\* The group that a path's last name is looked up in, and its link there.
DirOf(ls, x, q) == IF EmptyDirname(q) THEN x ELSE Typed(ls, x, Dirname(q), "group")
LinkOf(ls, x, q) == LinkIn(ls, DirOf(ls, x, q), Basename(q))
FromOf(x, l) == IF l.kind = "soft" THEN x ELSE Root[l.file]

\* What a lookup comes to with k links to be followed, if v tells it for k - 1.
FindValues == [Object -> [Path -> [ObjType -> Object \cup {Nothing}]]]

FindFrom(ls, k, v) ==
  [x \in Object |-> [q \in Path |-> [type \in ObjType |->
    IF q = Dot THEN x
    ELSE IF q = Slash \/ type # "unknown"
    THEN Typed(ls, x, q, IF q = Slash THEN "group" ELSE type)
    ELSE IF LinkOf(ls, x, q) = NoLink THEN Nothing
    ELSE IF LinkOf(ls, x, q).kind = "hard" THEN Typed(ls, x, q, TypeOf(LinkOf(ls, x, q).target))
    ELSE IF k = 0 THEN Nothing
    ELSE v[FromOf(x, LinkOf(ls, x, q))][LinkOf(ls, x, q).path]["unknown"]]]]

LEMMA LinkOfIs ==
  ASSUME NEW ls \in Links, NEW x \in Object, NEW q \in Path, q # Dot, q # Slash,
         NEW l, l = LinkOf(ls, x, q), l # NoLink
  PROVE  /\ l \in Link
         /\ l.kind = "hard" => l.target \in Object
         /\ l.kind # "hard" => /\ l.kind \in {"soft", "external"}
                               /\ l.path \in Path /\ FromOf(x, l) \in Object
<1>1. Basename(q) \in Name
  BY DirnameIs
<1>2. l \in Link
  BY <1>1, LinkInType DEF LinkOf
<1> QED
  BY <1>2, RootAssumption DEF Link, FromOf, Object

LEMMA FindFromType ==
  ASSUME NEW ls \in Links, NEW k, NEW v, k = 0 \/ v \in FindValues
  PROVE  FindFrom(ls, k, v) \in FindValues
<1> SUFFICES ASSUME NEW x \in Object, NEW q \in Path, NEW type \in ObjType
             PROVE  FindFrom(ls, k, v)[x][q][type] \in Object \cup {Nothing}
  BY DEF FindFrom, FindValues
<1> DEFINE l == LinkOf(ls, x, q)
           y == FromOf(x, l)
<1>1. FindFrom(ls, k, v)[x][q][type] =
        IF q = Dot THEN x
        ELSE IF q = Slash \/ type # "unknown"
        THEN Typed(ls, x, q, IF q = Slash THEN "group" ELSE type)
        ELSE IF l = NoLink THEN Nothing
        ELSE IF l.kind = "hard" THEN Typed(ls, x, q, TypeOf(l.target))
        ELSE IF k = 0 THEN Nothing ELSE v[y][l.path]["unknown"]
  BY DEF FindFrom
<1>2. \A t : Typed(ls, x, q, t) \in Object \cup {Nothing}
  BY TypedIs
<1>3. q # Dot /\ q # Slash /\ l # NoLink /\ l.kind # "hard" => l.path \in Path /\ y \in Object
  BY LinkOfIs
<1> HIDE DEF l, y
<1>4. l.path \in Path /\ y \in Object /\ k # 0 => v[y][l.path]["unknown"] \in Object \cup {Nothing}
  BY DEF FindValues, ObjType
<1> QED
  BY <1>1, <1>2, <1>3, <1>4

FindStep(ls, n) == [k \in 1 .. n |-> [v \in FindValues |-> FindFrom(ls, k, v)]]

LEMMA FindFunction ==
  ASSUME NEW ls \in Links, NEW n \in Nat
  PROVE  \E f \in [0 .. n -> FindValues] :
           /\ Follows(f, FindStep(ls, n), FindFrom(ls, 0, {}), n)
           /\ \A o \in Object, p \in Path, want \in ObjType :
                Find(ls, "old", o, p, want, n) = f[n][o][p][want]
<1> DEFINE F == FindStep(ls, n)
           z == FindFrom(ls, 0, {})
           Solves(g) == g = [k \in 0 .. n |->
             [x \in Object |-> [q \in Path |-> [type \in ObjType |->
               LET dir == IF EmptyDirname(q) THEN x ELSE Typed(ls, x, Dirname(q), "group")
                   l   == LinkIn(ls, dir, Basename(q))
               IN IF q = Dot THEN x
                  ELSE IF q = Slash \/ type # "unknown"
                  THEN Typed(ls, x, q, IF q = Slash THEN "group" ELSE type)
                  ELSE IF l = NoLink THEN Nothing
                  ELSE IF l.kind = "hard" THEN Typed(ls, x, q, TypeOf(l.target))
                  ELSE IF k = 0 THEN Nothing
                  ELSE g[k - 1][IF l.kind = "soft" THEN x ELSE Root[l.file]][l.path]["unknown"]]]]]
           g == CHOOSE h : Solves(h)
<1>1. \A o \in Object, p \in Path, want \in ObjType : Find(ls, "old", o, p, want, n) = g[n][o][p][want]
  BY DEF Find
<1>2. \A h : Solves(h) <=> h = [k \in 0 .. n |-> FindFrom(ls, k, h[k - 1])]
  BY DEF FindFrom, LinkOf, DirOf, FromOf
<1> HIDE DEF Solves
<1>3. \A v : FindFrom(ls, 0, v) = z
  BY DEF FindFrom
<1>4. z \in FindValues /\ F \in [1 .. n -> [FindValues -> FindValues]]
  <2>1. z \in FindValues
    BY FindFromType
  <2>2. \A k \in 1 .. n, v \in FindValues : FindFrom(ls, k, v) \in FindValues
    BY FindFromType
  <2> QED
    BY <2>1, <2>2 DEF FindStep
<1>5. \A k \in 1 .. n, v \in FindValues : F[k][v] = FindFrom(ls, k, v)
  BY DEF FindStep
<1> HIDE DEF F, z
<1>6. PICK f \in [0 .. n -> FindValues] : Follows(f, F, z, n)
  BY <1>4, FollowsExists
<1>7. f = [k \in 0 .. n |-> FindFrom(ls, k, f[k - 1])]
  <2>1. ASSUME NEW k \in 0 .. n PROVE f[k] = FindFrom(ls, k, f[k - 1])
    <3>1. CASE k = 0
      BY <1>3, <1>6, <3>1 DEF Follows
    <3>2. CASE k # 0
      <4>1. k \in 1 .. n /\ k - 1 \in 0 .. n
        BY <3>2
      <4>2. f[k - 1] \in FindValues
        BY <1>6, <4>1
      <4> QED
        BY <1>5, <1>6, <4>1, <4>2 DEF Follows
    <3> QED
      BY <3>1, <3>2
  <2> QED
    BY <2>1
<1>8. Solves(g)
  BY <1>2, <1>7
<1>9. g = [k \in 0 .. n |-> FindFrom(ls, k, g[k - 1])]
  BY <1>2, <1>8
<1> HIDE DEF g
<1>10. DOMAIN g = 0 .. n /\ \A k \in 0 .. n : g[k] = FindFrom(ls, k, g[k - 1])
  BY <1>9
<1>11. \A k \in 0 .. n : g[k] = f[k]
  <2> DEFINE T == {k \in 0 .. n : g[k] = f[k]}
  <2>1. 0 \in T
    BY <1>3, <1>6, <1>10 DEF Follows
  <2>2. ASSUME NEW k \in 1 .. n, k - 1 \in T PROVE k \in T
    <3>1. k \in 0 .. n /\ k - 1 \in 0 .. n /\ f[k - 1] \in FindValues /\ g[k - 1] = f[k - 1]
      BY <1>6, <2>2
    <3> QED
      BY <1>5, <1>6, <1>10, <3>1 DEF Follows
  <2> HIDE DEF T
  <2>3. 0 .. n \subseteq T
    BY <2>1, <2>2, UpTo
  <2> QED
    BY <2>3 DEF T
<1>12. \A o \in Object, p \in Path, want \in ObjType : Find(ls, "old", o, p, want, n) = f[n][o][p][want]
  BY <1>1, <1>11 DEF g
<1> QED
  BY <1>6, <1>12 DEF F, z

\* A lookup, one activation after the other.
LEMMA FindIs ==
  ASSUME NEW ls \in Links, NEW n \in Nat, NEW o \in Object, NEW p \in Path, NEW want \in ObjType,
         NEW l, l = LinkOf(ls, o, p)
  PROVE  /\ Find(ls, "old", o, p, want, n) \in Object \cup {Nothing}
         /\ Find(ls, "old", o, p, want, n) =
              IF p = Dot THEN o
              ELSE IF p = Slash \/ want # "unknown"
              THEN Typed(ls, o, p, IF p = Slash THEN "group" ELSE want)
              ELSE IF l = NoLink THEN Nothing
              ELSE IF l.kind = "hard" THEN Typed(ls, o, p, TypeOf(l.target))
              ELSE IF n = 0 THEN Nothing
              ELSE Find(ls, "old", FromOf(o, l), l.path, "unknown", n - 1)
<1> DEFINE y == FromOf(o, l)
           R(q, x) == \* the outcome, with x for the rest
             IF q = Dot THEN o
             ELSE IF q = Slash \/ want # "unknown"
             THEN Typed(ls, o, q, IF q = Slash THEN "group" ELSE want)
             ELSE IF l = NoLink THEN Nothing
             ELSE IF l.kind = "hard" THEN Typed(ls, o, q, TypeOf(l.target))
             ELSE x
<1>1. PICK f \in [0 .. n -> FindValues] :
        /\ Follows(f, FindStep(ls, n), FindFrom(ls, 0, {}), n)
        /\ \A x \in Object, q \in Path, w \in ObjType : Find(ls, "old", x, q, w, n) = f[n][x][q][w]
  BY FindFunction
<1>2. f[n] \in FindValues /\ Find(ls, "old", o, p, want, n) = f[n][o][p][want]
  BY <1>1
<1>3. Find(ls, "old", o, p, want, n) \in Object \cup {Nothing}
  BY <1>2 DEF FindValues
<1>4. \A k, v : FindFrom(ls, k, v)[o][p][want] = R(p, IF k = 0 THEN Nothing ELSE v[y][l.path]["unknown"])
  BY DEF FindFrom
<1>5. p # Dot /\ p # Slash /\ l # NoLink /\ l.kind # "hard" => y \in Object /\ l.path \in Path
  BY LinkOfIs
<1>6. "unknown" \in ObjType
  BY DEF ObjType
<1> HIDE DEF y
<1>7. CASE n = 0
  <2>1. f[n] = FindFrom(ls, 0, {})
    BY <1>1, <1>7 DEF Follows
  <2> QED
    BY <1>2, <1>3, <1>4, <1>7, <2>1
<1>8. CASE n # 0
  <2>1. n - 1 \in Nat /\ n \in 1 .. n /\ n - 1 \in 0 .. n
    BY <1>8
  <2>2. f[n - 1] \in FindValues
    BY <1>1, <2>1
  <2>3. f[n] = FindFrom(ls, n, f[n - 1])
    BY <1>1, <2>1, <2>2 DEF Follows, FindStep
  <2>4. PICK g \in [0 .. (n - 1) -> FindValues] :
          /\ Follows(g, FindStep(ls, n - 1), FindFrom(ls, 0, {}), n - 1)
          /\ \A x \in Object, q \in Path, w \in ObjType : Find(ls, "old", x, q, w, n - 1) = g[n - 1][x][q][w]
    BY <2>1, FindFunction
  <2>5. g[n - 1] = f[n - 1]
    <3> DEFINE F == FindStep(ls, n - 1)
               z == FindFrom(ls, 0, {})
               m == n - 1
    <3>1. \A k \in 1 .. (n - 1) : FindStep(ls, n)[k] = F[k]
      BY DEF FindStep
    <3>2. Follows(f, F, z, n - 1)
      <4>1. \A k \in 1 .. (n - 1) : k \in 1 .. n
        BY <2>1
      <4> QED
        BY <1>1, <3>1, <4>1 DEF Follows
    <3> HIDE DEF F, z
    <3>3. Follows(g, F, z, n - 1)
      BY <2>4 DEF F, z
    <3>4. \A k \in 0 .. m : f[k] = g[k]
      <4>1. m \in Nat /\ Follows(f, F, z, m) /\ Follows(g, F, z, m)
        BY <2>1, <3>2, <3>3
      <4> HIDE DEF m
      <4> QED
        BY <4>1, FollowsUnique
    <3>5. n - 1 \in 0 .. (n - 1)
      BY <2>1
    <3> QED
      BY <3>4, <3>5
  <2>6. Find(ls, "old", o, p, want, n) = R(p, f[n - 1][y][l.path]["unknown"])
    BY <1>2, <1>4, <1>8, <2>3
  <2>7. p # Dot /\ p # Slash /\ l # NoLink /\ l.kind # "hard" =>
          f[n - 1][y][l.path]["unknown"] = Find(ls, "old", y, l.path, "unknown", n - 1)
    BY <1>5, <1>6, <2>4, <2>5
  <2> QED
    BY <1>3, <1>8, <2>6, <2>7 DEF y
<1> QED
  BY <1>7, <1>8

-----------------------------------------------------------------------------
(* Paths whose last link alone is not hard. *)

\* From the first name on that is not that of a hard link there is no object.
LEMMA NothingStays ==
  ASSUME NEW ls \in Links, NEW o \in Object, NEW s \in Seq(Name),
         NEW at, at = HardSteps(ls, o, s), NEW i \in 0 .. Len(s), at[i] = Nothing
  PROVE  \A j \in 0 .. Len(s) : j >= i => at[j] = Nothing
<1> DEFINE n == Len(s)
           T == {j \in 0 .. n : j >= i => at[j] = Nothing}
<1>1. n \in Nat /\ Nothing \notin Group
  BY SentinelAssumption DEF Object
<1>2. at[0] = o /\ \A j \in 1 .. n : at[j] = HardStep(ls, at[j - 1], s[j])
  BY HardStepsIs
<1>3. HardStep(ls, Nothing, {}) = Nothing /\ \A name : HardStep(ls, Nothing, name) = Nothing
  BY <1>1 DEF HardStep, LinkIn
<1>4. 0 \in T
  BY <1>1
<1>5. ASSUME NEW k \in 1 .. n, k - 1 \in T PROVE k \in T
  <2>1. k >= i => k = i \/ k - 1 >= i
    BY <1>1
  <2> QED
    BY <1>2, <1>3, <1>5, <2>1
<1>6. 0 .. n \subseteq T
  <2> HIDE DEF T
  <2> QED
    BY <1>1, <1>4, <1>5, UpTo
<1> QED
  BY <1>6

\* A beginning of the names leads to the same objects.
LEMMA PrefixSteps ==
  ASSUME NEW ls \in Links, NEW o \in Object, NEW s \in Seq(Name), NEW m \in 0 .. Len(s),
         NEW t \in Seq(Name), Len(t) = m, \A i \in 1 .. m : t[i] = s[i]
  PROVE  \A i \in 0 .. m : HardSteps(ls, o, t)[i] = HardSteps(ls, o, s)[i]
<1> DEFINE a == HardSteps(ls, o, s)
           b == HardSteps(ls, o, t)
           T == {i \in 0 .. m : b[i] = a[i]}
<1>1. m \in Nat /\ \A i \in 1 .. m : i \in 1 .. Len(s) /\ i - 1 \in 0 .. m
  OBVIOUS
<1>2. a[0] = o /\ \A i \in 1 .. Len(s) : a[i] = HardStep(ls, a[i - 1], s[i])
  BY HardStepsIs
<1>3. b[0] = o /\ \A i \in 1 .. m : b[i] = HardStep(ls, b[i - 1], t[i])
  BY HardStepsIs
<1> HIDE DEF a, b
<1>4. 0 \in T
  BY <1>1, <1>2, <1>3
<1>5. ASSUME NEW k \in 1 .. m, k - 1 \in T PROVE k \in T
  BY <1>1, <1>2, <1>3, <1>5
<1>6. 0 .. m \subseteq T
  <2> HIDE DEF T
  <2> QED
    BY <1>1, <1>4, <1>5, UpTo
<1> QED
  BY <1>6 DEF a, b

\* Hard links stay within a file.
LEMMA StepsWithin ==
  ASSUME NEW ls \in Links, WithinFiles(ls), NEW o \in Object, NEW s \in Seq(Name),
         NEW at, at = HardSteps(ls, o, s)
  PROVE  \A i \in 0 .. Len(s) : at[i] # Nothing => FileOf[at[i]] = FileOf[o]
<1> DEFINE n == Len(s)
           T == {i \in 0 .. n : at[i] # Nothing => FileOf[at[i]] = FileOf[o]}
<1>1. n \in Nat /\ \A i \in 1 .. n : s[i] \in Name /\ i - 1 \in 0 .. n
  OBVIOUS
<1>2. at[0] = o /\ \A i \in 1 .. n : at[i] = HardStep(ls, at[i - 1], s[i])
  BY HardStepsIs
<1>3. ASSUME NEW x, NEW name \in Name, HardStep(ls, x, name) # Nothing
      PROVE  x \in Group /\ FileOf[HardStep(ls, x, name)] = FileOf[x]
  BY <1>3 DEF HardStep, LinkIn, WithinFiles
<1>4. 0 \in T
  BY <1>1, <1>2
<1>5. ASSUME NEW k \in 1 .. n, k - 1 \in T PROVE k \in T
  <2>1. SUFFICES ASSUME at[k] # Nothing PROVE FileOf[at[k]] = FileOf[o]
    BY <1>1
  <2>2. at[k] = HardStep(ls, at[k - 1], s[k]) /\ s[k] \in Name
    BY <1>1, <1>2
  <2>3. at[k - 1] \in Group /\ FileOf[at[k]] = FileOf[at[k - 1]]
    BY <1>3, <2>1, <2>2
  <2>4. at[k - 1] # Nothing
    BY <2>3, SentinelAssumption DEF Object
  <2> QED
    BY <1>5, <2>3, <2>4
<1>6. 0 .. n \subseteq T
  <2> HIDE DEF T
  <2> QED
    BY <1>1, <1>4, <1>5, UpTo
<1> QED
  BY <1>6

\* With the directory found by hard links, a path means what its last link leads to.
LEMMA LastLink ==
  ASSUME NEW ls \in Links, NEW o \in Object, NEW q \in Path, q # Dot, q # Slash,
         NEW d, d = ByHardLinks(ls, o, Dirname(q)), d # Nothing,
         NEW l, l = LinkIn(ls, d, Basename(q)), NEW n \in Nat
  PROVE  /\ d \in Object
         /\ WithinFiles(ls) => FileOf[d] = FileOf[StartOf(o, q)]
         /\ Walk(ls, StartOf(o, q), q.names, n) =
              IF l = NoLink THEN Nothing
              ELSE IF l.kind = "hard" THEN l.target
              ELSE IF n = 0 THEN Nothing
              ELSE Walk(ls, Origin(d, l), l.path.names, n - 1)
<1> DEFINE x == StartOf(o, q)
           s == q.names
           k == Len(s)
           t == SubSeq(s, 1, k - 1)
           at == HardSteps(ls, x, s)
           i == FirstOther(at, s)
<1>1. /\ s \in Seq(Name) /\ k \in Nat \ {0}
      /\ Dirname(q) \in Path /\ Dirname(q).abs = q.abs /\ Dirname(q).names = t
      /\ Basename(q) = s[k] /\ Basename(q) \in Name
  BY DirnameIs DEF Path, Basename, Last
<1>2. x \in Object
  BY RootAssumption DEF StartOf, Object, Path
<1>3. d = Walk(ls, x, t, 0)
  BY <1>1 DEF ByHardLinks, StartOf
<1> HIDE DEF x, s
<1> DEFINE m == k - 1
<1>4. m \in 0 .. k /\ m \in Nat /\ k - m = 1
  BY <1>1
<1>5. t \in Seq(Name) /\ Len(t) = m /\ \A j \in 1 .. m : t[j] = s[j]
  <2>1. t \in Seq(Name)
    BY <1>1 DEF Path
  <2>2. t = SubSeq(s, 1, m)
    OBVIOUS
  <2> HIDE DEF m
  <2>3. Len(t) = IF 1 <= m THEN m - 1 + 1 ELSE 0
    <3>1. \A j \in 1 .. m : s[j] \in Name
      BY <1>1, <1>4
    <3> QED
      BY <1>1, <1>4, <2>2, <3>1, SubSeqProperties
  <2>4. Len(t) = m
    BY <1>4, <2>3
  <2>5. \A j \in 1 .. m : t[j] = s[j]
    BY <1>1, <1>4, <2>2
  <2> QED
    BY <2>1, <2>4, <2>5
<1> HIDE DEF t
<1>6. HardSteps(ls, x, t)[m] = at[m]
  <2> DEFINE b == HardSteps(ls, x, t)
  <2>1. m \in 0 .. Len(s) /\ m \in 0 .. m
    BY <1>4
  <2> HIDE DEF m
  <2>2. \A j \in 0 .. m : b[j] = at[j]
    BY <1>1, <1>2, <1>5, <2>1, PrefixSteps
  <2> QED
    BY <2>1, <2>2
<1>7. d = at[m]
  <2> DEFINE b == HardSteps(ls, x, t)
             j == FirstOther(b, t)
             g == LinkIn(ls, b[j - 1], t[j])
             w == Walk(ls, Origin(b[j - 1], g), g.path.names \o SubSeq(t, j + 1, Len(t)), 0 - 1)
  <2>1. Walk(ls, x, t, 0) = IF b[Len(t)] # Nothing THEN b[Len(t)]
                            ELSE IF g = NoLink \/ 0 = 0 THEN Nothing ELSE w
    <3>1. 0 \in Nat
      OBVIOUS
    <3> QED
      BY <1>2, <1>5, <3>1, WalkIs
  <2> HIDE DEF w, b, g
  <2>2. d = b[Len(t)]
    BY <1>3, <2>1
  <2> QED
    BY <1>5, <1>6, <2>2 DEF b
<1>8. d \in Object
  <2>1. at \in [0 .. k -> Object \cup {Nothing}]
    BY <1>1, <1>2, HardStepsIs
  <2> QED
    BY <1>4, <1>7, <2>1
<1>9. WithinFiles(ls) => FileOf[d] = FileOf[x]
  <2>1. WithinFiles(ls) => \A j \in 0 .. Len(s) : at[j] # Nothing => FileOf[at[j]] = FileOf[x]
    BY <1>1, <1>2, StepsWithin
  <2> QED
    BY <1>4, <1>7, <2>1
<1>10. at[k] = HardStep(ls, d, s[k])
  <2>1. \A j \in 1 .. Len(s) : at[j] = HardStep(ls, at[j - 1], s[j])
    BY <1>1, <1>2, HardStepsIs
  <2> QED
    BY <1>1, <1>7, <2>1
<1>11. at[k] = IF l # NoLink /\ l.kind = "hard" THEN l.target ELSE Nothing
  BY <1>1, <1>10 DEF HardStep
<1>12. l \in Link \cup {NoLink}
  BY <1>1, LinkInType
<1>13. CASE at[k] # Nothing
  <2>1. Walk(ls, x, s, n) = at[k]
    BY <1>1, <1>2, <1>13, WalkHard
  <2>2. l # NoLink /\ l.kind = "hard" /\ at[k] = l.target
    BY <1>11, <1>13
  <2> QED
    BY <1>8, <1>9, <2>1, <2>2 DEF x, s
<1>14. CASE at[k] = Nothing
  <2>1. l = NoLink \/ l.kind # "hard"
    BY <1>11, <1>12, <1>14, SentinelAssumption DEF Link
  <2>2. i \in 1 .. k /\ at[i] = Nothing /\ at[i - 1] \in Object
    BY <1>1, <1>2, <1>14, FirstOtherIs
  <2> HIDE DEF i
  <2>3. i = k
    <3>1. SUFFICES ASSUME i # k PROVE FALSE
      OBVIOUS
    <3>2. i \in 0 .. k /\ m >= i
      BY <1>1, <1>4, <2>2, <3>1
    <3>3. \A j \in 0 .. Len(s) : j >= i => at[j] = Nothing
      BY <1>1, <1>2, <2>2, <3>2, NothingStays
    <3> QED
      BY <1>4, <1>7, <3>2, <3>3
  <2>4. at[i - 1] = d /\ s[i] = Basename(q)
    BY <1>1, <1>7, <2>3
  <2> DEFINE u == SubSeq(s, i + 1, Len(s))
             y == Origin(d, l)
             r == l.path.names
             w == Walk(ls, y, r \o u, n - 1)
  <2>5. Walk(ls, x, s, n) = IF at[Len(s)] # Nothing THEN at[Len(s)]
                            ELSE IF l = NoLink \/ n = 0 THEN Nothing ELSE w
    <3>1. i = FirstOther(at, s) /\ l = LinkIn(ls, at[i - 1], s[i])
      BY <2>4 DEF i
    <3>2. Walk(ls, x, s, n) =
            IF at[Len(s)] # Nothing THEN at[Len(s)]
            ELSE IF l = NoLink \/ n = 0 THEN Nothing
            ELSE Walk(ls, Origin(at[i - 1], l), l.path.names \o SubSeq(s, i + 1, Len(s)), n - 1)
      BY <1>1, <1>2, <3>1, WalkIs
    <3> QED
      BY <2>4, <3>2
  <2>6. l # NoLink => r \o u = r
    <3>1. SUFFICES ASSUME l # NoLink PROVE r \o u = r
      OBVIOUS
    <3>2. r \in Seq(Name)
      BY <1>12, <2>1, <3>1 DEF Link, Path
    <3>3. u = <<>>
      BY <1>1, <2>3
    <3> HIDE DEF r, u
    <3> QED
      BY <3>2, <3>3
  <2> HIDE DEF u, r, y
  <2>7. Walk(ls, x, s, n) = IF l = NoLink \/ n = 0 THEN Nothing ELSE Walk(ls, y, r, n - 1)
    BY <1>14, <2>5, <2>6
  <2> QED
    BY <1>8, <1>9, <2>1, <2>7 DEF x, s, y, r
<1> QED
  BY <1>13, <1>14

\* With more links that may be followed, the walk comes to the same object.
LEMMA WalkMore ==
  ASSUME NEW ls \in Links, NEW n \in Nat, NEW o \in Object, NEW s \in Seq(Name),
         Walk(ls, o, s, n) # Nothing, NEW m \in Nat, n <= m
  PROVE  Walk(ls, o, s, m) = Walk(ls, o, s, n)
<1> DEFINE T == {k \in Nat : \A x \in Object, t \in Seq(Name), j \in Nat :
                   Walk(ls, x, t, k) # Nothing /\ k <= j => Walk(ls, x, t, j) = Walk(ls, x, t, k)}
<1>1. ASSUME NEW k \in Nat, k = 0 \/ k - 1 \in T PROVE k \in T
  <2> SUFFICES ASSUME NEW x \in Object, NEW t \in Seq(Name), NEW j \in Nat,
                      Walk(ls, x, t, k) # Nothing, k <= j
               PROVE  Walk(ls, x, t, j) = Walk(ls, x, t, k)
    OBVIOUS
  <2> DEFINE at == HardSteps(ls, x, t)
             i == FirstOther(at, t)
             l == LinkIn(ls, at[i - 1], t[i])
             y == Origin(at[i - 1], l)
             u == l.path.names \o SubSeq(t, i + 1, Len(t))
  <2>1. \A h \in Nat : Walk(ls, x, t, h) = IF at[Len(t)] # Nothing THEN at[Len(t)]
                                           ELSE IF l = NoLink \/ h = 0 THEN Nothing
                                           ELSE Walk(ls, y, u, h - 1)
    <3>1. at = HardSteps(ls, x, t) /\ i = FirstOther(at, t) /\ l = LinkIn(ls, at[i - 1], t[i])
      OBVIOUS
    <3> HIDE DEF at, i, l
    <3>3. ASSUME NEW h \in Nat
          PROVE  Walk(ls, x, t, h) =
                   IF at[Len(t)] # Nothing THEN at[Len(t)]
                   ELSE IF l = NoLink \/ h = 0 THEN Nothing
                   ELSE Walk(ls, Origin(at[i - 1], l), l.path.names \o SubSeq(t, i + 1, Len(t)), h - 1)
      BY <3>1, WalkIs
    <3> QED
      BY <3>3
  <2>2. at[Len(t)] = Nothing /\ l # NoLink => y \in Object /\ u \in Seq(Name)
    BY ValueIs
  <2> HIDE DEF at, l, y, u
  <2>3. CASE at[Len(t)] # Nothing
    BY <2>1, <2>3
  <2>4. CASE at[Len(t)] = Nothing
    <3>1. l # NoLink /\ k # 0 /\ Walk(ls, x, t, k) = Walk(ls, y, u, k - 1)
      BY <2>1, <2>4
    <3>2. j # 0 /\ j - 1 \in Nat /\ k - 1 <= j - 1
      BY <3>1
    <3>3. Walk(ls, x, t, j) = Walk(ls, y, u, j - 1)
      BY <2>1, <2>4, <3>1, <3>2
    <3>4. k - 1 \in T
      BY <1>1, <3>1
    <3>5. Walk(ls, y, u, j - 1) = Walk(ls, y, u, k - 1)
      BY <2>2, <2>4, <3>1, <3>2, <3>4
    <3> QED
      BY <3>1, <3>3, <3>5
  <2> QED
    BY <2>3, <2>4
<1>2. n \in T
  <2>1. 0 \in T
    <3> HIDE DEF T
    <3> QED
      BY <1>1
  <2>2. \A k \in 1 .. n : k - 1 \in T => k \in T
    <3> HIDE DEF T
    <3> QED
      BY <1>1
  <2> HIDE DEF T
  <2>3. 0 .. n \subseteq T
    BY <2>1, <2>2, UpTo
  <2> QED
    BY <2>3
<1> QED
  BY <1>2

-----------------------------------------------------------------------------
(* Lookups from the root by an old server. *)

AbsoluteSoft(ls) ==
  \A g \in Group, n \in Name : ls[g][n] # NoLink /\ ls[g][n].kind = "soft" => ls[g][n].path.abs

IsRoot(x) == x = Root[FileOf[x]]

\* The value of a link found from a root is looked up where the server does it.
LEMMA OriginIs ==
  ASSUME NEW ls \in Links, WithinFiles(ls), AbsoluteSoft(ls),
         NEW x \in Object, IsRoot(x), NEW d \in Group, FileOf[d] = FileOf[x],
         NEW n \in Name, NEW l, l = ls[d][n], l # NoLink, l.kind # "hard"
  PROVE  /\ l.kind \in {"soft", "external"} /\ l.path \in Path
         /\ FromOf(x, l) \in Object /\ IsRoot(FromOf(x, l))
         /\ StartOf(FromOf(x, l), l.path) = Origin(d, l)
         /\ IF l.kind = "soft" THEN StartOf(d, l.path) = Origin(d, l)
            ELSE StartOf(Root[l.file], l.path) = Origin(d, l)
<1>1. l \in Link
  BY DEF Links
<1>2. l.kind \in {"soft", "external"} /\ l.path \in Path
  BY <1>1 DEF Link
<1>3. CASE l.kind = "soft"
  <2>1. l.path.abs
    BY <1>3 DEF AbsoluteSoft
  <2> QED
    BY <1>2, <1>3, <2>1 DEF FromOf, Origin, StartOf, IsRoot
<1>4. CASE l.kind = "external"
  <2>1. l.file \in File
    BY <1>1, <1>4 DEF Link
  <2>2. Root[l.file] \in Object /\ FileOf[Root[l.file]] = l.file
    BY <2>1, RootAssumption DEF Object
  <2> QED
    BY <1>2, <1>4, <2>2 DEF FromOf, Origin, StartOf, IsRoot
<1> QED
  BY <1>2, <1>3, <1>4

\* The directory as an old server finds it.
LEMMA DirOfIs ==
  ASSUME NEW ls \in Links, NEW x \in Object, NEW q \in Path, q # Dot, q # Slash, IsRoot(x)
  PROVE  /\ DirOf(ls, x, q) \in Object \cup {Nothing}
         /\ DirOf(ls, x, q) # Nothing => DirOf(ls, x, q) = ByHardLinks(ls, x, Dirname(q))
         /\ ByHardLinks(ls, x, Dirname(q)) \in Group =>
              DirOf(ls, x, q) = ByHardLinks(ls, x, Dirname(q))
<1> DEFINE p == Dirname(q)
           b == ByHardLinks(ls, x, p)
<1>1. p \in Path /\ (~EmptyDirname(q) => p # Dot)
  BY DirnameIs
<1>2. ByHardLinks(ls, x, Dot) = x /\ ByHardLinks(ls, x, Slash) = x
  <2> DEFINE e == Dot.names
  <2>1. e \in Seq(Name) /\ Len(e) = 0 /\ Slash.names = e
    BY DEF Dot, Slash
  <2>2. StartOf(x, Dot) = x /\ StartOf(x, Slash) = x
    BY DEF StartOf, Dot, Slash, IsRoot
  <2> HIDE DEF e
  <2>3. HardSteps(ls, x, e)[Len(e)] = x
    BY <2>1, HardStepsIs
  <2>4. x # Nothing /\ 0 \in Nat
    BY SentinelAssumption
  <2>5. Walk(ls, x, e, 0) = x
    BY <2>1, <2>3, <2>4, WalkHard
  <2>6. ByHardLinks(ls, x, Dot) = Walk(ls, x, e, 0) /\ ByHardLinks(ls, x, Slash) = Walk(ls, x, e, 0)
    BY <2>1, <2>2 DEF ByHardLinks, e
  <2> QED
    BY <2>5, <2>6
<1>3. CASE EmptyDirname(q)
  <2>1. p = Dot
    <3>1. p.abs = FALSE /\ p.names = SubSeq(q.names, 1, Len(q.names) - 1) /\ Len(q.names) = 1
      BY <1>3, DirnameIs DEF EmptyDirname, Path
    <3>2. p.names = <<>>
      BY <3>1
    <3> HIDE DEF p
    <3>3. p = [abs |-> p.abs, names |-> p.names]
      BY <1>1 DEF Path
    <3> QED
      BY <3>1, <3>2, <3>3 DEF Dot
  <2> QED
    BY <1>2, <1>3, <2>1 DEF DirOf
<1>4. CASE ~EmptyDirname(q)
  <2>1. DirOf(ls, x, q) = Typed(ls, x, p, "group")
    BY <1>4 DEF DirOf
  <2>2. Typed(ls, x, p, "group") = IF b # Nothing /\ TypeOf(b) = "group" THEN b ELSE Nothing
    BY <1>2 DEF Typed
  <2>3. b \in Object \cup {Nothing}
    BY <1>1, MeantIs
  <2>4. b \in Group => TypeOf(b) = "group" /\ b # Nothing
    BY SentinelAssumption DEF TypeOf, Object
  <2> HIDE DEF b, p
  <2> QED
    BY <2>1, <2>2, <2>3, <2>4 DEF b, p
<1> QED
  BY <1>3, <1>4

\* From a root both kinds of path start at the same object.
LEMMA FromRoot ==
  ASSUME NEW ls \in Links, NEW x \in Object, IsRoot(x), NEW q \in Path, NEW n \in Nat
  PROVE  /\ StartOf(x, q) = x
         /\ q = Dot \/ q = Slash => Walk(ls, StartOf(x, q), q.names, n) = x
         /\ \A type : Typed(ls, x, q, type) # Nothing =>
              Walk(ls, StartOf(x, q), q.names, n) = Typed(ls, x, q, type)
<1>1. StartOf(x, q) = x
  BY DEF StartOf, IsRoot
<1> DEFINE s == q.names
<1>2. s \in Seq(Name)
  BY DEF Path
<1>3. (q = Dot \/ q = Slash) => Len(s) = 0
  BY DEF Dot, Slash
<1>4. ASSUME q = Dot \/ q = Slash PROVE Walk(ls, x, s, n) = x
  <2> HIDE DEF s
  <2>1. HardSteps(ls, x, s)[Len(s)] = x /\ x # Nothing
    BY <1>2, <1>3, <1>4, HardStepsIs, SentinelAssumption
  <2> QED
    BY <1>2, <2>1, WalkHard
<1>5. ASSUME NEW type, Typed(ls, x, q, type) # Nothing
      PROVE  Walk(ls, x, s, n) = Typed(ls, x, q, type)
  <2>1. CASE q = Slash
    <3>1. Typed(ls, x, q, type) = x
      BY <1>5, <2>1 DEF Typed
    <3> QED
      BY <1>4, <2>1, <3>1
  <2>2. CASE q # Slash
    <3>1. Typed(ls, x, q, type) = Walk(ls, x, s, 0)
      BY <1>1, <1>5, <2>2 DEF Typed, ByHardLinks
    <3> HIDE DEF s
    <3>2. Walk(ls, x, s, 0) # Nothing /\ 0 \in Nat /\ 0 <= n
      BY <1>5, <3>1
    <3>3. Walk(ls, x, s, n) = Walk(ls, x, s, 0)
      BY <1>2, <3>2, WalkMore
    <3> QED
      BY <3>1, <3>3
  <2> QED
    BY <2>1, <2>2
<1> QED
  BY <1>1, <1>4, <1>5

\* What such a lookup finds is what the path means.
LEMMA FindSound ==
  ASSUME NEW ls \in Links, WithinFiles(ls), AbsoluteSoft(ls), NEW n \in Nat,
         NEW x \in Object, IsRoot(x), NEW q \in Path, NEW want \in ObjType,
         Find(ls, "old", x, q, want, n) # Nothing
  PROVE  Walk(ls, StartOf(x, q), q.names, n) = Find(ls, "old", x, q, want, n)
<1> DEFINE W(y, p, k) == Walk(ls, StartOf(y, p), p.names, k)
           T == {k \in Nat : \A y \in Object, p \in Path, w \in ObjType :
                   IsRoot(y) /\ Find(ls, "old", y, p, w, k) # Nothing =>
                     W(y, p, k) = Find(ls, "old", y, p, w, k)}
<1>1. ASSUME NEW k \in Nat, k = 0 \/ k - 1 \in T PROVE k \in T
  <2> SUFFICES ASSUME NEW y \in Object, NEW p \in Path, NEW w \in ObjType, IsRoot(y),
                      Find(ls, "old", y, p, w, k) # Nothing
               PROVE  W(y, p, k) = Find(ls, "old", y, p, w, k)
    OBVIOUS
  <2> DEFINE d == DirOf(ls, y, p)
             l == LinkOf(ls, y, p)
             f == Find(ls, "old", y, p, w, k)
             rest == Find(ls, "old", FromOf(y, l), l.path, "unknown", k - 1)
  <2>1. f = IF p = Dot THEN y
            ELSE IF p = Slash \/ w # "unknown"
            THEN Typed(ls, y, p, IF p = Slash THEN "group" ELSE w)
            ELSE IF l = NoLink THEN Nothing
            ELSE IF l.kind = "hard" THEN Typed(ls, y, p, TypeOf(l.target))
            ELSE IF k = 0 THEN Nothing ELSE rest
    BY FindIs
  <2>2. /\ p = Dot => W(y, p, k) = y
        /\ \A type : Typed(ls, y, p, type) # Nothing => W(y, p, k) = Typed(ls, y, p, type)
    BY FromRoot
  <2> HIDE DEF rest
  <2>3. CASE p = Dot \/ p = Slash \/ w # "unknown" \/ l.kind = "hard"
    <3> HIDE DEF l, f, W
    <3> QED
      BY <2>1, <2>2, <2>3 DEF f
  <2>4. CASE ~(p = Dot \/ p = Slash \/ w # "unknown" \/ l.kind = "hard")
    <3>1. l # NoLink /\ k # 0 /\ f = rest
      <4> HIDE DEF l
      <4> QED
        BY <2>1, <2>4 DEF f
    <3>2. d \in Group /\ l = ls[d][Basename(p)] /\ Basename(p) \in Name
      BY <2>4, <3>1, DirnameIs DEF LinkOf, LinkIn
    <3>3. d # Nothing
      BY <3>2, SentinelAssumption DEF Object
    <3>4. d = ByHardLinks(ls, y, Dirname(p)) /\ l = LinkIn(ls, d, Basename(p))
      BY <2>4, <3>3, DirOfIs DEF LinkOf
    <3> HIDE DEF d, l
    <3>5. FileOf[d] = FileOf[y] /\ W(y, p, k) = Walk(ls, Origin(d, l), l.path.names, k - 1)
      <4>1. StartOf(y, p) = y
        BY FromRoot
      <4> QED
        BY <2>4, <3>1, <3>3, <3>4, <4>1, LastLink
    <3> DEFINE z == FromOf(y, l)
    <3>6. l.path \in Path /\ z \in Object /\ IsRoot(z) /\ StartOf(z, l.path) = Origin(d, l)
      BY <2>4, <3>1, <3>2, <3>5, OriginIs
    <3>7. k - 1 \in T /\ k - 1 \in Nat /\ "unknown" \in ObjType
      BY <1>1, <3>1 DEF ObjType
    <3>8. rest # Nothing /\ rest = Find(ls, "old", z, l.path, "unknown", k - 1)
      BY <3>1 DEF rest
    <3> HIDE DEF z, rest, f
    <3>9. W(z, l.path, k - 1) = rest
      BY <3>6, <3>7, <3>8
    <3> QED
      BY <3>1, <3>5, <3>6, <3>9 DEF f
  <2> QED
    BY <2>3, <2>4
<1>2. n \in T
  <2> HIDE DEF T
  <2>1. 0 \in T
    BY <1>1
  <2>2. \A k \in 1 .. n : k - 1 \in T => k \in T
    BY <1>1
  <2>3. 0 .. n \subseteq T
    BY <2>1, <2>2, UpTo
  <2> QED
    BY <2>3
<1> QED
  BY <1>2

\* The directory of a path is reached by hard links; and so is that of each link's value.
HardDirectory(ls, x, q) ==
  q # Dot /\ q # Slash => ByHardLinks(ls, x, Dirname(q)) # Nothing

HardDirectories(ls) ==
  \A g \in Group, n \in Name :
    ls[g][n] # NoLink /\ ls[g][n].kind # "hard" =>
      HardDirectory(ls, IF ls[g][n].kind = "soft" THEN g ELSE Root[ls[g][n].file], ls[g][n].path)

\* The value of a link is looked up with a directory reached by hard links.
LEMMA ValueDirectory ==
  ASSUME NEW ls \in Links, WithinFiles(ls), AbsoluteSoft(ls), HardDirectories(ls),
         NEW x \in Object, IsRoot(x), NEW d \in Group, FileOf[d] = FileOf[x],
         NEW n \in Name, NEW l, l = ls[d][n], l # NoLink, l.kind # "hard"
  PROVE  HardDirectory(ls, FromOf(x, l), l.path)
<1>1. l.kind \in {"soft", "external"} /\ l.path \in Path
  BY OriginIs
<1> DEFINE p == Dirname(l.path)
<1>2. SUFFICES ASSUME l.path # Dot, l.path # Slash
               PROVE  ByHardLinks(ls, FromOf(x, l), p) # Nothing
  BY DEF HardDirectory
<1>3. ByHardLinks(ls, IF l.kind = "soft" THEN d ELSE Root[l.file], p) # Nothing
  BY <1>2 DEF HardDirectories, HardDirectory
<1>4. CASE l.kind = "soft"
  <2>1. l.path.abs /\ p.abs = l.path.abs
    BY <1>1, <1>2, <1>4, DirnameIs DEF AbsoluteSoft
  <2>2. StartOf(d, p) = StartOf(x, p)
    BY <2>1 DEF StartOf
  <2>3. ByHardLinks(ls, d, p) = ByHardLinks(ls, x, p)
    BY <2>2 DEF ByHardLinks
  <2> QED
    BY <1>3, <1>4, <2>3 DEF FromOf
<1>5. CASE l.kind = "external"
  BY <1>3, <1>5 DEF FromOf
<1> QED
  BY <1>1, <1>4, <1>5

\* One link of such a path is followed.
LEMMA FollowIs ==
  ASSUME NEW ls \in Links, WithinFiles(ls), AbsoluteSoft(ls), HardDirectories(ls),
         NEW x \in Object, IsRoot(x), NEW q \in Path, q # Dot, q # Slash, HardDirectory(ls, x, q),
         NEW n \in Nat, Walk(ls, StartOf(x, q), q.names, n) # Nothing,
         NEW l, l = LinkOf(ls, x, q)
  PROVE  /\ l # NoLink /\ DirOf(ls, x, q) # Nothing
         /\ l.kind = "hard" => Typed(ls, x, q, TypeOf(l.target)) # Nothing
         /\ l.kind # "hard" =>
              /\ n # 0 /\ FromOf(x, l) \in Object /\ IsRoot(FromOf(x, l)) /\ l.path \in Path
              /\ Walk(ls, StartOf(FromOf(x, l), l.path), l.path.names, n - 1) # Nothing
              /\ HardDirectory(ls, FromOf(x, l), l.path)
<1> DEFINE d == ByHardLinks(ls, x, Dirname(q))
           b == LinkIn(ls, d, Basename(q))
           W(k) == Walk(ls, StartOf(x, q), q.names, k)
<1>1. d # Nothing /\ Basename(q) \in Name
  BY DirnameIs DEF HardDirectory
<1>2. /\ d \in Object /\ FileOf[d] = FileOf[StartOf(x, q)]
      /\ \A k \in Nat : W(k) = IF b = NoLink THEN Nothing
                               ELSE IF b.kind = "hard" THEN b.target
                               ELSE IF k = 0 THEN Nothing
                               ELSE Walk(ls, Origin(d, b), b.path.names, k - 1)
  BY <1>1, LastLink
<1>3. FileOf[d] = FileOf[x]
  BY <1>2, FromRoot
<1>4. b # NoLink
  BY <1>2
<1>5. d \in Group /\ b = ls[d][Basename(q)] /\ b \in Link
  BY <1>1, <1>4, LinkInType DEF LinkIn
<1>6. DirOf(ls, x, q) = d
  BY <1>5, DirOfIs
<1>7. l = b
  BY <1>6 DEF LinkOf
<1>8. CASE b.kind = "hard"
  <2>1. W(0) = b.target /\ b.target \in Object /\ b.target # Nothing
    <3>1. b.target \in Object
      BY <1>5, <1>8 DEF Link
    <3> HIDE DEF W, b
    <3> QED
      BY <1>2, <1>4, <1>8, <3>1, SentinelAssumption
  <2>2. ByHardLinks(ls, x, q) = b.target
    BY <2>1 DEF ByHardLinks
  <2> HIDE DEF b
  <2>3. TypeOf(b.target) # "file"
    BY DEF TypeOf
  <2>4. Typed(ls, x, q, TypeOf(b.target)) = b.target
    BY <2>1, <2>2, <2>3 DEF Typed
  <2> QED
    BY <1>1, <1>4, <1>6, <1>7, <1>8, <2>1, <2>4
<1>9. CASE b.kind # "hard"
  <2>1. n # 0 /\ Walk(ls, Origin(d, b), b.path.names, n - 1) # Nothing
    <3> HIDE DEF b
    <3> QED
      BY <1>2, <1>4, <1>9
  <2> HIDE DEF b, d
  <2>2. b.path \in Path /\ FromOf(x, b) \in Object /\ IsRoot(FromOf(x, b))
        /\ StartOf(FromOf(x, b), b.path) = Origin(d, b)
    BY <1>1, <1>3, <1>4, <1>5, <1>9, OriginIs
  <2>3. HardDirectory(ls, FromOf(x, b), b.path)
    BY <1>1, <1>3, <1>4, <1>5, <1>9, ValueDirectory
  <2> QED
    BY <1>1, <1>4, <1>6, <1>7, <1>9, <2>1, <2>2, <2>3
<1> QED
  BY <1>8, <1>9

\* Such a lookup finds what the path means, if as many links may be followed.
LEMMA FindComplete ==
  ASSUME NEW ls \in Links, WithinFiles(ls), AbsoluteSoft(ls), HardDirectories(ls), NEW n \in Nat,
         NEW x \in Object, IsRoot(x), NEW q \in Path, HardDirectory(ls, x, q),
         Walk(ls, StartOf(x, q), q.names, n) # Nothing, NEW m \in Nat, n <= m
  PROVE  Find(ls, "old", x, q, "unknown", m) # Nothing
<1> DEFINE Here(y, p, k) == /\ IsRoot(y) /\ HardDirectory(ls, y, p)
                            /\ Walk(ls, StartOf(y, p), p.names, k) # Nothing
           T == {k \in Nat : \A y \in Object, p \in Path, j \in Nat :
                   Here(y, p, k) /\ k <= j => Find(ls, "old", y, p, "unknown", j) # Nothing}
<1>1. ASSUME NEW k \in Nat, k = 0 \/ k - 1 \in T PROVE k \in T
  <2> SUFFICES ASSUME NEW y \in Object, NEW p \in Path, NEW j \in Nat, Here(y, p, k), k <= j
               PROVE  Find(ls, "old", y, p, "unknown", j) # Nothing
    OBVIOUS
  <2> DEFINE l == LinkOf(ls, y, p)
             f == Find(ls, "old", y, p, "unknown", j)
             z == FromOf(y, l)
             rest == Find(ls, "old", z, l.path, "unknown", j - 1)
  <2>1. f = IF p = Dot THEN y
            ELSE IF p = Slash \/ "unknown" # "unknown"
            THEN Typed(ls, y, p, IF p = Slash THEN "group" ELSE "unknown")
            ELSE IF l = NoLink THEN Nothing
            ELSE IF l.kind = "hard" THEN Typed(ls, y, p, TypeOf(l.target))
            ELSE IF j = 0 THEN Nothing ELSE rest
    <3>1. "unknown" \in ObjType
      BY DEF ObjType
    <3> QED
      BY <3>1, FindIs
  <2>2. y # Nothing /\ Typed(ls, y, Slash, "group") = y
    <3>1. y \in Group
      BY RootAssumption DEF IsRoot, Object
    <3>2. y # Nothing
      BY SentinelAssumption
    <3> QED
      BY <3>1, <3>2 DEF Typed, TypeOf
  <2> HIDE DEF rest
  <2>3. CASE p = Dot \/ p = Slash
    <3> HIDE DEF l, f
    <3> QED
      BY <2>1, <2>2, <2>3 DEF f
  <2>4. CASE p # Dot /\ p # Slash
    <3>1. /\ l # NoLink
          /\ l.kind = "hard" => Typed(ls, y, p, TypeOf(l.target)) # Nothing
          /\ l.kind # "hard" =>
               /\ k # 0 /\ z \in Object /\ IsRoot(z) /\ l.path \in Path
               /\ Walk(ls, StartOf(z, l.path), l.path.names, k - 1) # Nothing
               /\ HardDirectory(ls, z, l.path)
      BY <2>4, FollowIs
    <3> HIDE DEF l, z
    <3>2. CASE l.kind = "hard"
      <4> HIDE DEF f
      <4> QED
        BY <2>1, <2>4, <3>1, <3>2 DEF f
    <3>3. CASE l.kind # "hard"
      <4>1. k - 1 \in T /\ k - 1 \in Nat /\ j # 0 /\ j - 1 \in Nat /\ k - 1 <= j - 1
        BY <1>1, <3>1, <3>3
      <4>2. Here(z, l.path, k - 1)
        BY <3>1, <3>3
      <4> HIDE DEF Here
      <4>3. Find(ls, "old", z, l.path, "unknown", j - 1) # Nothing
        BY <3>1, <3>3, <4>1, <4>2
      <4>4. rest # Nothing
        BY <4>3 DEF rest
      <4> HIDE DEF f
      <4> QED
        BY <2>1, <2>4, <3>1, <3>3, <4>1, <4>4 DEF f
    <3> QED
      BY <3>2, <3>3
  <2> QED
    BY <2>3, <2>4
<1>2. n \in T
  <2> HIDE DEF T
  <2>1. 0 \in T
    BY <1>1
  <2>2. \A k \in 1 .. n : k - 1 \in T => k \in T
    BY <1>1
  <2>3. 0 .. n \subseteq T
    BY <2>1, <2>2, UpTo
  <2> QED
    BY <2>3
<1> QED
  BY <1>2
=============================================================================
