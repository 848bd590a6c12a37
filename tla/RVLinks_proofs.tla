--------------------------- MODULE RVLinks_proofs ---------------------------
(***************************************************************************)
(* Proofs about RVLinks for any links, paths and targets, and any changes  *)
(* by other clients.                                                       *)
(***************************************************************************)
EXTENDS RVLinks, RVPaths_proofs, FiniteSetTheorems

\* Types of the variables.
Typed_OK ==
  /\ links \in Links
  /\ phase \in {"idle", "lookup", "request", "returned"}
  /\ call.op \in Op /\ call.loc \in Group /\ call.path \in Path
  /\ call.link \in Targets \cup {NoLink} /\ call.idx \in Nat /\ call.dec \in BOOLEAN
  /\ phase = "request" => dir \in Object
  /\ target \in Link \cup {NoLink}
  /\ ret \in {"ok", "fail"}

\* What the checks before the first request leave, and what belongs to which call.
Checked ==
  phase \in {"lookup", "request"} =>
    /\ call.op # "get_name" => call.path # Dot /\ call.path # Slash
    /\ call.link # NoLink <=> call.op = "create"
    /\ call.op = "create" => rdwr

\* The meaning of the arguments at this moment has been noted.
Noted ==
  phase \in {"lookup", "request"} =>
    /\ PlaceOf(links, call.loc, call.path) \in places
    /\ AimOf(links, call.link) \in aims

\* What the lookup has found is what the path meant at some moment of the call; and what
\* it means now, if no other client has changed a link.
Looked ==
  phase = "request" =>
    /\ call.op = "create" =>
         /\ dir = call.loc /\ target \in Link
         /\ call.link.kind = "named" /\ version # "old" =>
              target \in {Hard(o) : o \in aims \ {Nothing}}
    /\ call.op \notin {"create", "get_name"} /\ Understood =>
         dir \in places /\ (changes = 0 => dir = PlaceOf(links, call.loc, call.path))

\* The inductive invariant.
Inv == Typed_OK /\ Checked /\ Noted /\ Looked /\ ExistsIsTrue /\ NamesByIndex /\ changes \in Nat

-----------------------------------------------------------------------------
(* What lookups find. *)

LEMMA MeantRoot ==
  ASSUME NEW ls \in Links, NEW o \in Object
  PROVE  Meant(ls, o, Slash) = Root[FileOf[o]]
<1> DEFINE x == Root[FileOf[o]]
<1>1. x \in Object /\ x # Nothing /\ MaxFollow \in Nat
  BY RootAssumption, SentinelAssumption, FollowAssumption DEF Object
<1>2. Slash \in Path /\ Slash.abs = TRUE
  BY DEF Slash, Path
<1> DEFINE s == Slash.names
<1>3. s \in Seq(Name) /\ Len(s) = 0
  BY DEF Slash
<1>4. Meant(ls, o, Slash) = Walk(ls, x, s, MaxFollow)
  BY <1>2 DEF Meant, StartOf
<1> HIDE DEF x, s
<1>5. HardSteps(ls, x, s)[Len(s)] = x
  BY <1>1, <1>3, HardStepsIs
<1>6. Walk(ls, x, s, MaxFollow) = x
  BY <1>1, <1>3, <1>5, WalkHard
<1> QED
  BY <1>4, <1>6 DEF x

LEMMA PlaceOfType ==
  ASSUME NEW ls \in Links, NEW o \in Object, NEW p \in Path
  PROVE  PlaceOf(ls, o, p) \in Object \cup {Nothing}
<1>1. CASE p.names = <<>> \/ EmptyDirname(p)
  BY <1>1 DEF PlaceOf
<1>2. CASE ~(p.names = <<>> \/ EmptyDirname(p))
  <2>1. p # Dot /\ p # Slash
    BY <1>2 DEF Dot, Slash
  <2>2. Dirname(p) \in Path
    BY <2>1, DirnameIs
  <2> QED
    BY <1>2, <2>2, MeantIs DEF PlaceOf
<1> QED
  BY <1>1, <1>2

\* A lookup of a group comes to an object, if to anything.
LEMMA FindGroup ==
  ASSUME NEW ls \in Links, NEW o \in Group, NEW p \in Path,
         NEW x, x = Find(ls, version, o, p, "group", 0)
  PROVE  /\ x \in Object \cup {Nothing}
         /\ x # Nothing /\ p # Dot /\ (version = "old" => o = Root[FileOf[o]]) => x = Meant(ls, o, p)
<1>1. o \in Object /\ "group" \in ObjType /\ 0 \in Nat
  BY DEF Object, ObjType
<1>2. CASE version # "old"
  <2>1. x = Meant(ls, o, p)
    BY <1>2 DEF Find
  <2> QED
    BY <1>1, <2>1, MeantIs
<1>3. CASE version = "old"
  <2>1. /\ x \in Object \cup {Nothing}
        /\ p # Dot => x = Typed(ls, o, p, "group")
    BY <1>1, <1>3, FindIs
  <2>2. ASSUME x # Nothing, p # Dot, o = Root[FileOf[o]] PROVE x = Meant(ls, o, p)
    <3>1. x = Typed(ls, o, p, "group") /\ x # Nothing
      BY <2>1, <2>2
    <3>2. CASE p = Slash
      <4>1. x = o
        BY <3>1, <3>2 DEF Typed
      <4>2. Meant(ls, o, Slash) = Root[FileOf[o]]
        BY <1>1, MeantRoot
      <4> QED
        BY <2>2, <3>2, <4>1, <4>2
    <3>3. CASE p # Slash
      BY <1>1, <3>1, <3>3, TypedIs
    <3> QED
      BY <3>2, <3>3
  <2> QED
    BY <1>3, <2>1, <2>2
<1> QED
  BY <1>2, <1>3

LEMMA DirectoryIs ==
  ASSUME Inv, phase = "lookup", call.op # "create", Directory # Nothing
  PROVE  /\ Directory \in Object
         /\ call.op # "get_name" /\ Understood => Directory = PlaceOf(links, call.loc, call.path)
<1> DEFINE o == call.loc
           p == call.path
           d == Directory
<1>1. /\ links \in Links /\ o \in Group /\ p \in Path /\ d # Nothing
      /\ call.op # "get_name" => p # Dot /\ p # Slash
      /\ Understood <=> (version = "old" => o = Root[FileOf[o]])
  BY DEF Inv, Typed_OK, Checked, Understood
<1>2. d = IF call.op = "get_name" THEN Find(links, version, o, p, "group", 0)
          ELSE IF EmptyDirname(p) THEN o ELSE Find(links, version, o, Dirname(p), "group", 0)
  BY DEF Directory
<1>3. PlaceOf(links, o, p) = IF p.names = <<>> \/ EmptyDirname(p) THEN o ELSE Meant(links, o, Dirname(p))
  BY DEF PlaceOf
<1> HIDE DEF o, p, d
<1>4. CASE call.op = "get_name"
  BY <1>1, <1>2, <1>4, FindGroup DEF d
<1>5. CASE call.op # "get_name" /\ EmptyDirname(p)
  <2>1. d = o /\ PlaceOf(links, o, p) = o /\ o \in Object
    BY <1>1, <1>2, <1>3, <1>5 DEF Object
  <2> QED
    BY <2>1 DEF d, o, p
<1>6. CASE call.op # "get_name" /\ ~EmptyDirname(p)
  <2>1. p.names # <<>> /\ Dirname(p) \in Path /\ Dirname(p) # Dot
    BY <1>1, <1>6, DirnameIs
  <2>2. d = Find(links, version, o, Dirname(p), "group", 0)
    BY <1>2, <1>6
  <2>3. d \in Object \cup {Nothing} /\ (Understood => d = Meant(links, o, Dirname(p)))
    BY <1>1, <2>1, <2>2, FindGroup
  <2>4. PlaceOf(links, o, p) = Meant(links, o, Dirname(p))
    BY <1>3, <1>6, <2>1
  <2> QED
    BY <1>1, <2>3, <2>4 DEF d, o, p
<1> QED
  BY <1>4, <1>5, <1>6

\* The link to be created is a link, and one to what its target means, but for old servers.
LEMMA LinkToCreateIs ==
  ASSUME Inv, phase = "lookup", call.op = "create", LinkToCreate # NoLink
  PROVE  /\ LinkToCreate \in Link
         /\ call.link.kind = "named" /\ version # "old" =>
              LinkToCreate \in {Hard(o) : o \in aims \ {Nothing}}
<1> DEFINE l == call.link
           x == Find(links, version, l.obj, l.path, "unknown", MaxFollow)
<1>1. /\ links \in Links /\ l \in Targets /\ l # NoLink /\ AimOf(links, l) \in aims
  BY DEF Inv, Typed_OK, Checked, Noted
<1>2. l \in Link \/ l \in [kind : {"named"}, obj : Object, path : Path]
  BY <1>1, LinksAssumption
<1>3. LinkToCreate = IF l.kind # "named" THEN l ELSE IF x = Nothing THEN NoLink ELSE Hard(x)
  BY DEF LinkToCreate
<1>4. AimOf(links, l) = IF l.kind = "named" THEN Meant(links, l.obj, l.path) ELSE Nothing
  BY <1>1 DEF AimOf
<1>5. CASE l.kind # "named"
  <2>1. l \in Link
    BY <1>2, <1>5
  <2> QED
    BY <1>3, <1>5, <2>1
<1>6. CASE l.kind = "named"
  <2>1. l.obj \in Object /\ l.path \in Path
    <3>1. l \notin Link
      BY <1>6 DEF Link
    <3> QED
      BY <1>2, <3>1
  <2>2. "unknown" \in ObjType
    BY DEF ObjType
  <2>3. x \in Object \cup {Nothing}
    <3>1. CASE version = "old"
      <4>1. x = Find(links, "old", l.obj, l.path, "unknown", MaxFollow)
        BY <3>1
      <4> HIDE DEF x, l
      <4> QED
        BY <1>1, <2>1, <2>2, <4>1, FindIs, FollowAssumption
    <3>2. CASE version # "old"
      BY <1>1, <2>1, <3>2, MeantIs DEF Find
    <3> QED
      BY <3>1, <3>2
  <2>4. version # "old" => x = Meant(links, l.obj, l.path)
    BY DEF Find
  <2> HIDE DEF x, l
  <2>5. x # Nothing /\ LinkToCreate = Hard(x)
    BY <1>3, <1>6, <2>3
  <2>6. Hard(x) \in Link
    BY <2>3, <2>5 DEF Hard, Link
  <2>7. version # "old" => x \in aims \ {Nothing}
    BY <1>1, <1>4, <1>6, <2>4, <2>5
  <2> QED
    BY <2>5, <2>6, <2>7
<1> QED
  BY <1>5, <1>6

-----------------------------------------------------------------------------
(* The invariant, action by action. *)

LEMMA InitInv == Init => Inv
<1> SUFFICES ASSUME Init PROVE Inv
  OBVIOUS
<1>1. /\ phase = "idle" /\ call.op = "copy" /\ call.loc \in Group /\ call.path = Slash
      /\ call.link = NoLink /\ call.idx = 0 /\ call.dec = FALSE
  BY LinksAssumption DEF Init
<1>2. Slash \in Path
  BY DEF Slash, Path
<1>3. Typed_OK
  BY <1>1, <1>2, LinksAssumption DEF Init, Typed_OK, Op
<1>4. Checked /\ Noted /\ Looked /\ ExistsIsTrue /\ NamesByIndex
  BY <1>1 DEF Checked, Noted, Looked, ExistsIsTrue, NamesByIndex
<1> QED
  BY <1>3, <1>4 DEF Inv, Init

LEMMA StartInv ==
  ASSUME Inv, NEW op \in Op, NEW o \in Group, NEW p \in Paths, NEW l \in Targets \cup {NoLink},
         NEW i \in 0 .. Len(NameOrder), NEW d \in BOOLEAN, Start(op, o, p, l, i, d)
  PROVE  Inv'
<1>1. /\ call' = [op |-> op, loc |-> o, path |-> p, link |-> l, idx |-> i, dec |-> d]
      /\ p.names = <<>> => op = "get_name"
      /\ l # NoLink <=> op = "create"
      /\ phase' = IF Refused(op) THEN "returned" ELSE "lookup"
      /\ ret' = IF Refused(op) THEN "fail" ELSE ret
      /\ places' = {PlaceOf(links, o, p)} /\ aims' = {AimOf(links, l)}
      /\ links' = links /\ version' = version /\ changes' = changes /\ rdwr' = rdwr
      /\ dir' = dir /\ target' = target /\ value' = value
  BY DEF Start, server, History
<1>2. /\ call'.op = op /\ call'.loc = o /\ call'.path = p /\ call'.link = l /\ call'.idx = i /\ call'.dec = d
      /\ p \in Path /\ i \in Nat
  BY <1>1, LinksAssumption
<1>3. phase' \in {"lookup", "returned"} /\ (phase' = "lookup" => ~Refused(op)) /\ (phase' = "returned" => ret' = "fail")
  BY <1>1
<1>4. Typed_OK'
  BY <1>1, <1>2, <1>3 DEF Inv, Typed_OK
<1>5. Checked'
  BY <1>1, <1>2, <1>3 DEF Checked, Refused, Dot, Slash
<1>6. Noted'
  <2>1. PlaceOf(links, o, p)' = PlaceOf(links', o, p) /\ AimOf(links, l)' = AimOf(links', l)
    OBVIOUS
  <2> QED
    BY <1>1, <1>2 DEF Noted
<1>7. Looked' /\ ExistsIsTrue' /\ NamesByIndex'
  BY <1>3 DEF Looked, ExistsIsTrue, NamesByIndex
<1> QED
  BY <1>1, <1>4, <1>5, <1>6, <1>7 DEF Inv

\* A call that fails.
LEMMA GiveUpInv ==
  ASSUME Inv, GiveUp, UNCHANGED <<dir, target>>
  PROVE  Inv'
<1>1. /\ phase' = "returned" /\ ret' = "fail"
      /\ links' = links /\ version' = version /\ changes' = changes /\ call' = call
      /\ dir' = dir /\ target' = target
  BY DEF GiveUp, server
<1>2. Typed_OK'
  BY <1>1 DEF Inv, Typed_OK
<1>3. Checked' /\ Noted' /\ Looked' /\ ExistsIsTrue' /\ NamesByIndex'
  BY <1>1 DEF Checked, Noted, Looked, ExistsIsTrue, NamesByIndex
<1> QED
  BY <1>1, <1>2, <1>3 DEF Inv

LEMMA LookupInv ==
  ASSUME Inv, Lookup
  PROVE  Inv'
<1>1. /\ phase = "lookup" /\ call.op # "create" /\ Directory # Nothing
      /\ dir' = Directory /\ phase' = "request"
      /\ links' = links /\ version' = version /\ changes' = changes /\ rdwr' = rdwr /\ call' = call
      /\ target' = target /\ ret' = ret /\ value' = value /\ places' = places /\ aims' = aims
  BY DEF Lookup, server
<1>2. /\ Directory \in Object
      /\ call.op # "get_name" /\ Understood => Directory = PlaceOf(links, call.loc, call.path)
  BY <1>1, DirectoryIs
<1>3. Typed_OK'
  BY <1>1, <1>2 DEF Inv, Typed_OK
<1>4. Checked'
  BY <1>1 DEF Inv, Checked
<1>5. Noted'
  BY <1>1 DEF Inv, Noted, PlaceOf, AimOf
<1>6. Looked'
  <2>1. /\ Understood' <=> Understood
        /\ PlaceOf(links', call'.loc, call'.path) = PlaceOf(links, call.loc, call.path)
    BY <1>1 DEF Understood
  <2>2. PlaceOf(links, call.loc, call.path) \in places
    BY <1>1 DEF Inv, Noted
  <2> QED
    BY <1>1, <1>2, <2>1, <2>2 DEF Looked
<1>7. ExistsIsTrue' /\ NamesByIndex'
  BY <1>1 DEF ExistsIsTrue, NamesByIndex
<1> QED
  BY <1>1, <1>3, <1>4, <1>5, <1>6, <1>7 DEF Inv

LEMMA PrepareInv ==
  ASSUME Inv, Prepare
  PROVE  Inv'
<1>1. /\ phase = "lookup" /\ call.op = "create" /\ LinkToCreate # NoLink
      /\ dir' = call.loc /\ target' = LinkToCreate /\ phase' = "request"
      /\ links' = links /\ version' = version /\ changes' = changes /\ rdwr' = rdwr /\ call' = call
      /\ ret' = ret /\ value' = value /\ places' = places /\ aims' = aims
  BY DEF Prepare, server
<1>2. /\ LinkToCreate \in Link
      /\ call.link.kind = "named" /\ version # "old" =>
           LinkToCreate \in {Hard(o) : o \in aims \ {Nothing}}
  BY <1>1, LinkToCreateIs
<1>3. Typed_OK'
  BY <1>1, <1>2 DEF Inv, Typed_OK, Object
<1>4. Checked'
  BY <1>1 DEF Inv, Checked
<1>5. Noted'
  BY <1>1 DEF Inv, Noted, PlaceOf, AimOf
<1>6. Looked'
  BY <1>1, <1>2 DEF Looked
<1>7. ExistsIsTrue' /\ NamesByIndex'
  BY <1>1 DEF ExistsIsTrue, NamesByIndex
<1> QED
  BY <1>1, <1>3, <1>4, <1>5, <1>6, <1>7 DEF Inv

\* The last name of a path that is not that of a group's own names.
LEMMA LastName ==
  ASSUME Inv, phase = "request", call.op # "get_name"
  PROVE  Name0 \in Name
<1>1. call.path \in Path /\ call.path # Dot /\ call.path # Slash
  BY DEF Inv, Typed_OK, Checked
<1> QED
  BY <1>1, DirnameIs DEF Name0

\* What the end of a call leaves to be shown.
LEMMA SucceedInv ==
  ASSUME Inv, NEW v, Succeed(v), phase = "request", links' \in Links,
         ExistsIsTrue', NamesByIndex'
  PROVE  Inv'
<1>1. /\ phase' = "returned" /\ ret' = "ok"
      /\ version' = version /\ changes' = changes /\ call' = call
      /\ dir' = dir /\ target' = target
  BY DEF Succeed
<1>2. Typed_OK'
  BY <1>1 DEF Inv, Typed_OK
<1>3. Checked' /\ Noted' /\ Looked'
  BY <1>1 DEF Checked, Noted, Looked
<1> QED
  BY <1>1, <1>2, <1>3 DEF Inv

\* One link is replaced.
LEMMA Replaced ==
  ASSUME NEW ls \in Links, NEW g \in Group, NEW n \in Name, NEW l \in Link \cup {NoLink}
  PROVE  /\ [ls EXCEPT ![g][n] = l] \in Links
         /\ [ls EXCEPT ![g][n] = l][g][n] = l
         /\ \A h \in Group, m \in Name :
              [ls EXCEPT ![g][n] = l][h][m] # ls[h][m] => h = g /\ m = n
  BY DEF Links

LEMMA CreateInv ==
  ASSUME Inv, Create
  PROVE  Inv'
<1>1. /\ phase = "request" /\ call.op = "create" /\ CreateIn \in Group
      /\ links' = [links EXCEPT ![CreateIn][Name0] = target]
      /\ Succeed("none")
  BY DEF Create
<1>2. Name0 \in Name /\ target \in Link \cup {NoLink} /\ links \in Links
  BY <1>1, LastName DEF Inv, Typed_OK
<1>3. links' \in Links
  BY <1>1, <1>2, Replaced
<1>4. ExistsIsTrue' /\ NamesByIndex'
  BY <1>1 DEF Succeed, ExistsIsTrue, NamesByIndex
<1> QED
  BY <1>1, <1>3, <1>4, SucceedInv

LEMMA DeleteInv ==
  ASSUME Inv, Delete
  PROVE  Inv'
<1>1. /\ phase = "request" /\ call.op = "delete" /\ Linked # NoLink
      /\ links' = [links EXCEPT ![dir][Name0] = NoLink]
      /\ Succeed("none")
  BY DEF Delete
<1>2. Name0 \in Name /\ links \in Links /\ dir \in Group
  BY <1>1, LastName DEF Inv, Typed_OK, Linked, LinkIn
<1>3. links' \in Links
  BY <1>1, <1>2, Replaced
<1>4. ExistsIsTrue' /\ NamesByIndex'
  BY <1>1 DEF Succeed, ExistsIsTrue, NamesByIndex
<1> QED
  BY <1>1, <1>3, <1>4, SucceedInv

LEMMA ExistsInv ==
  ASSUME Inv, Exists
  PROVE  Inv'
<1> DEFINE place == PlaceOf(links, call.loc, call.path)
           b == Linked # NoLink
<1>1. phase = "request" /\ call.op = "exists" /\ Succeed(b) /\ links' = links
  BY DEF Exists
<1>2. /\ phase' = "returned" /\ ret' = "ok" /\ value' = b
      /\ version' = version /\ changes' = changes /\ call' = call
  BY <1>1 DEF Succeed
<1>3. ExistsIsTrue'
  <2>1. SUFFICES ASSUME changes = 0, Understood
                 PROVE  b = (place \in Group /\ links[place][Name0] # NoLink)
    <3>1. (Understood' <=> Understood) /\ Name0' = Name0
      BY <1>2 DEF Understood, Name0
    <3>2. PlaceOf(links', call'.loc, call'.path) = place
      BY <1>1, <1>2
    <3> HIDE DEF b, place
    <3> QED
      BY <1>1, <1>2, <2>1, <3>1, <3>2 DEF ExistsIsTrue
  <2>2. dir = place
    BY <1>1, <2>1 DEF Inv, Looked
  <2>3. Linked = IF place \in Group THEN links[place][Name0] ELSE NoLink
    BY <2>2 DEF Linked, LinkIn
  <2> HIDE DEF place
  <2> QED
    BY <2>3
<1>4. NamesByIndex'
  BY <1>1, <1>2 DEF NamesByIndex
<1>5. links' \in Links
  BY <1>1 DEF Inv, Typed_OK
<1> HIDE DEF b
<1> QED
  BY <1>1, <1>3, <1>4, <1>5, SucceedInv

LEMMA GetInfoInv ==
  ASSUME Inv, GetInfo \/ GetVal
  PROVE  Inv'
<1>1. PICK v : phase = "request" /\ call.op \in {"get_info", "get_val"} /\ Succeed(v) /\ links' = links
  BY DEF GetInfo, GetVal
<1>2. ExistsIsTrue' /\ NamesByIndex'
  BY <1>1 DEF Succeed, ExistsIsTrue, NamesByIndex
<1>3. links' \in Links
  BY <1>1 DEF Inv, Typed_OK
<1> QED
  BY <1>1, <1>2, <1>3, SucceedInv

LEMMA OtherClientInv ==
  ASSUME Inv, OtherClient
  PROVE  Inv'
<1>1. /\ phase # "returned" /\ links' \in Links /\ changes' = changes + 1
      /\ places' = IF phase \in {"lookup", "request"}
                   THEN places \cup {PlaceOf(links', call.loc, call.path)} ELSE places
      /\ aims' = aims \cup {AimOf(links', call.link)}
      /\ version' = version /\ rdwr' = rdwr /\ phase' = phase /\ call' = call /\ dir' = dir
      /\ target' = target /\ ret' = ret /\ value' = value
  BY LinksAssumption DEF OtherClient
<1>2. changes' \in Nat /\ changes' # 0
  BY <1>1 DEF Inv
<1>3. Typed_OK'
  BY <1>1 DEF Inv, Typed_OK
<1>4. Checked'
  BY <1>1 DEF Inv, Checked
<1>5. Noted'
  BY <1>1 DEF Noted
<1>6. Looked'
  <2>1. Understood' <=> Understood
    BY <1>1 DEF Understood
  <2>2. phase = "request" => places \subseteq places' /\ aims \subseteq aims'
    BY <1>1
  <2>3. Looked
    BY DEF Inv
  <2> QED
    BY <1>1, <1>2, <2>1, <2>2, <2>3 DEF Looked
<1>7. ExistsIsTrue' /\ NamesByIndex'
  BY <1>1 DEF ExistsIsTrue, NamesByIndex
<1> QED
  BY <1>2, <1>3, <1>4, <1>5, <1>6, <1>7 DEF Inv

-----------------------------------------------------------------------------
(* Names by index. *)

\* The k-th smallest exists for each k, and k of the set are no larger.
LEMMA NthIs ==
  ASSUME NEW S \in SUBSET Nat, IsFiniteSet(S)
  PROVE  \A k \in 1 .. Cardinality(S) :
           Nth(S, k) \in S /\ Cardinality({j \in S : j <= Nth(S, k)}) = k
<1> DEFINE below(i) == {j \in S : j <= i}
           n == Cardinality(S)
           rank == [i \in S |-> Cardinality(below(i))]
<1>1. n \in Nat /\ IsFiniteSet(1 .. n) /\ Cardinality(1 .. n) = n
  BY FS_CardinalityType, FS_Interval
<1>2. \A i \in S : IsFiniteSet(below(i)) /\ below(i) \subseteq S /\ i \in below(i)
  BY FS_Subset
<1>3. \A i \in S : Cardinality(below(i)) \in 1 .. n
  <2> TAKE i \in S
  <2>1. Cardinality(below(i)) \in Nat /\ Cardinality(below(i)) <= n
    BY <1>2, FS_Subset, FS_CardinalityType
  <2>2. Cardinality(below(i)) # 0
    BY <1>2, FS_EmptySet
  <2> QED
    BY <1>1, <2>1, <2>2
<1>4. \A i, j \in S : i < j => Cardinality(below(i)) # Cardinality(below(j))
  <2> SUFFICES ASSUME NEW i \in S, NEW j \in S, i < j
               PROVE  Cardinality(below(i)) # Cardinality(below(j))
    OBVIOUS
  <2>1. ~(j <= i) /\ j <= j /\ \A k \in S : k <= i => k <= j
    OBVIOUS
  <2>2. below(i) \subseteq below(j) /\ j \notin below(i) /\ j \in below(j)
    BY <2>1, Zenon
  <2> HIDE DEF below
  <2> QED
    BY <1>2, <2>2, FS_Subset
<1> HIDE DEF below, n
<1>5. rank \in Injection(S, 1 .. n)
  <2>1. rank \in [S -> 1 .. n]
    BY <1>3
  <2>2. \A i, j \in S : rank[i] = rank[j] => i = j
    <3> SUFFICES ASSUME NEW i \in S, NEW j \in S, rank[i] = rank[j] PROVE i = j
      OBVIOUS
    <3>1. i \in Nat /\ j \in Nat /\ rank[i] = Cardinality(below(i)) /\ rank[j] = Cardinality(below(j))
      OBVIOUS
    <3> QED
      BY <1>4, <3>1
  <2> QED
    BY <2>1, <2>2 DEF Injection, IsInjective
<1>6. rank \in Surjection(S, 1 .. n)
  BY <1>1, <1>5, FS_Injection DEF n
<1>7. \A k \in 1 .. n : \E i \in S : Cardinality(below(i)) = k
  BY <1>6 DEF Surjection
<1>8. \A k \in 1 .. n : Nth(S, k) \in S /\ Cardinality(below(Nth(S, k))) = k
  BY <1>7 DEF Nth, below
<1> QED
  BY <1>8 DEF n, below

LEMMA GetNameInv ==
  ASSUME Inv, GetName
  PROVE  Inv'
<1> DEFINE k == call.idx + 1
           n == Cardinality(Given)
           q == IF call.dec THEN n + 1 - k ELSE k
           m == Nth(Given, q)
           v == NameOrder[m]
<1>1. /\ phase = "request" /\ call.op = "get_name" /\ dir \in Group
      /\ call.idx < Len(Names) /\ Succeed(Names[k]) /\ links' = links
  BY DEF GetName
<1>2. /\ phase' = "returned" /\ ret' = "ok" /\ value' = Names[k]
      /\ version' = version /\ changes' = changes /\ call' = call /\ dir' = dir
  BY <1>1 DEF Succeed
<1>3. DOMAIN NameOrder = 1 .. Len(NameOrder) /\ Len(NameOrder) \in Nat
  BY LinksAssumption
<1>4. Given \in SUBSET Nat /\ IsFiniteSet(Given) /\ Given \subseteq 1 .. Len(NameOrder)
  <2>1. Given \subseteq 1 .. Len(NameOrder)
    BY <1>3 DEF Given
  <2>2. IsFiniteSet(1 .. Len(NameOrder))
    BY <1>3, FS_Interval
  <2>3. IsFiniteSet(Given)
    BY <2>1, <2>2, FS_Subset
  <2>4. Given \subseteq Nat
    BY <1>3, <2>1
  <2> QED
    BY <2>1, <2>3, <2>4
<1>5. n \in Nat
  BY <1>4, FS_CardinalityType
<1>6. Len(Names) = n /\ call.idx \in Nat /\ k \in 1 .. n /\ q \in 1 .. n
  <2>1. Len(Names) = n
    BY <1>5 DEF Names
  <2>2. call.idx \in Nat
    BY DEF Inv, Typed_OK
  <2> QED
    BY <1>1, <1>5, <2>1, <2>2
<1>7. Names[k] = v
  BY <1>6 DEF Names
<1>8. m \in Given /\ Cardinality({j \in Given : j <= m}) = q
  BY <1>4, <1>6, NthIs
<1> DEFINE below == {j \in Given : Before(j, m)}
           earlier == {x \in Name : /\ links[dir][x] # NoLink
                                    /\ \E i, j \in DOMAIN NameOrder :
                                         Before(i, j) /\ NameOrder[i] = x /\ NameOrder[j] = v}
           upto == {j \in Given : j <= m}
<1>9. IsFiniteSet(below) /\ Cardinality(below) = call.idx
  <2>1. IsFiniteSet(upto) /\ upto \subseteq Given /\ Cardinality(upto) = q
    BY <1>4, <1>8, FS_Subset
  <2>2. CASE call.dec
    <3>1. m \in Given /\ \A j \in Given : j \in Nat
      BY <1>4, <1>8
    <3> HIDE DEF m
    <3>2. \A j \in Given : Before(j, m) <=> ~(j <= m)
      BY <2>2, <3>1 DEF Before
    <3>3. below = Given \ upto /\ Given \cap upto = upto
      BY <3>2
    <3> HIDE DEF upto, below
    <3>4. IsFiniteSet(Given \ upto) /\ Cardinality(Given \ upto) = Cardinality(Given) - Cardinality(Given \cap upto)
      BY <1>4, FS_Difference
    <3>5. IsFiniteSet(below) /\ Cardinality(below) = n - Cardinality(upto)
      BY <3>3, <3>4
    <3> QED
      BY <1>5, <1>6, <2>1, <2>2, <3>5
  <2>3. CASE ~call.dec
    <3>1. m \in Given /\ \A j \in Given : j \in Nat
      BY <1>4, <1>8
    <3> HIDE DEF m
    <3>2. \A j \in Given : Before(j, m) <=> j <= m /\ j # m
      BY <2>3, <3>1 DEF Before
    <3>3. m \in upto /\ below = upto \ {m}
      BY <3>1, <3>2
    <3> HIDE DEF upto, below
    <3>4. IsFiniteSet(below) /\ Cardinality(below) = Cardinality(upto) - 1
      BY <2>1, <3>3, FS_RemoveElement
    <3> QED
      BY <1>6, <2>1, <2>3, <3>4
  <2> QED
    BY <2>2, <2>3
<1>10. ExistsBijection(below, earlier)
  <2> DEFINE f == [i \in below |-> NameOrder[i]]
  <2>1. \A i \in below : NameOrder[i] \in earlier
    <3> TAKE i \in below
    <3>1. i \in DOMAIN NameOrder /\ m \in DOMAIN NameOrder /\ Before(i, m) /\ i \in Given
      BY <1>3, <1>4, <1>8
    <3>2. NameOrder[i] \in Name
      BY <3>1, LinksAssumption
    <3>3. links[dir][NameOrder[i]] # NoLink
      BY <3>1 DEF Given
    <3> HIDE DEF m
    <3> QED
      BY <3>1, <3>2, <3>3
  <2>2. \A x \in earlier : \E i \in below : NameOrder[i] = x
    <3> TAKE x \in earlier
    <3>1. PICK i \in DOMAIN NameOrder, j \in DOMAIN NameOrder :
            Before(i, j) /\ NameOrder[i] = x /\ NameOrder[j] = v
      OBVIOUS
    <3>2. m \in DOMAIN NameOrder
      BY <1>3, <1>4, <1>8
    <3>3. j = m
      BY <3>1, <3>2, LinksAssumption DEF IsInjective
    <3>4. i \in Given
      BY <3>1 DEF Given
    <3> HIDE DEF m
    <3> QED
      BY <3>1, <3>3, <3>4
  <2>3. \A i, j \in below : NameOrder[i] = NameOrder[j] => i = j
    BY <1>3, <1>4, LinksAssumption DEF IsInjective
  <2> HIDE DEF below, earlier
  <2>4. f \in [below -> earlier]
    BY <2>1
  <2>5. f \in Bijection(below, earlier)
    BY <2>2, <2>3, <2>4 DEF Bijection, Injection, Surjection, IsInjective
  <2> QED
    BY <2>5 DEF ExistsBijection
<1>11. call.idx = Cardinality(earlier)
  <2> HIDE DEF below, earlier
  <2> QED
    BY <1>9, <1>10, FS_Bijection
<1>12. links[dir][v] # NoLink
  BY <1>8 DEF Given
<1>13. NamesByIndex'
  <2> HIDE DEF m
  <2>1. value' = v /\ links' = links /\ dir' = dir /\ call' = call
    BY <1>1, <1>2, <1>7
  <2>2. \A i, j : Before(i, j)' <=> Before(i, j)
    BY <2>1 DEF Before
  <2> QED
    BY <1>11, <1>12, <2>1, <2>2 DEF NamesByIndex
<1>14. ExistsIsTrue'
  BY <1>1, <1>2 DEF ExistsIsTrue
<1>15. links' \in Links
  BY <1>1 DEF Inv, Typed_OK
<1> QED
  BY <1>1, <1>13, <1>14, <1>15, SucceedInv

-----------------------------------------------------------------------------
(* The theorems. *)

LEMMA NextInv == Inv /\ [Next]_vars => Inv'
<1> SUFFICES ASSUME Inv, [Next]_vars PROVE Inv'
  OBVIOUS
<1>1. CASE UNCHANGED vars
  <2>1. Typed_OK' /\ Checked' /\ Noted'
    BY <1>1 DEF vars, Inv, Typed_OK, Checked, Noted, PlaceOf, AimOf
  <2>2. Looked'
    BY <1>1 DEF vars, Inv, Looked, Understood, PlaceOf
  <2>3. ExistsIsTrue'
    BY <1>1 DEF vars, Inv, ExistsIsTrue, Understood, PlaceOf, Name0
  <2>4. NamesByIndex' /\ changes' \in Nat
    BY <1>1 DEF vars, Inv, NamesByIndex, Before
  <2> QED
    BY <2>1, <2>2, <2>3, <2>4 DEF Inv
<1>2. CASE \E op \in Op, o \in Group, p \in Paths, l \in Targets \cup {NoLink},
              i \in 0 .. Len(NameOrder), d \in BOOLEAN : Start(op, o, p, l, i, d)
  BY <1>2, StartInv
<1>3. CASE LookupFails \/ RequestFails
  BY <1>3, GiveUpInv DEF LookupFails, RequestFails
<1> QED
  BY <1>1, <1>2, <1>3, LookupInv, PrepareInv, CreateInv, DeleteInv, ExistsInv, GetInfoInv,
     GetNameInv, OtherClientInv DEF Next, Connector

\* RV_link_create, RV_link_get and RV_link_specific: the inductive invariant holds for any
\* links, paths and targets.
THEOREM Invariance == Spec => []Inv
<1> QED
  BY InitInv, NextInv, PTL DEF Spec

\* H5Lexists tells the truth about the place its path names, and reading names by index
\* gives each name of a group once and in order, whatever the links.
THEOREM AnswersAreTrue == Spec => []AnswersTrue
<1>1. Inv => AnswersTrue
  <2> SUFFICES ASSUME Inv PROVE TypeOK
    BY DEF Inv, AnswersTrue
  <2>1. \A l \in Link : l.kind \in {"hard", "soft", "external"}
    BY DEF Link
  <2> QED
    BY <2>1 DEF Inv, Typed_OK, TypeOK, Links
<1> QED
  BY <1>1, Invariance, PTL

\* Only a creation and a deletion change links, but for other clients.
LEMMA ChangedBy ==
  ASSUME Inv, Next, links' # links, changes' = changes
  PROVE  Create \/ Delete
<1>1. changes + 1 # changes
  BY DEF Inv
<1>2. ~OtherClient
  BY <1>1 DEF OtherClient
<1>3. ASSUME NEW op, NEW o, NEW p, NEW l, NEW i, NEW d, Start(op, o, p, l, i, d) PROVE FALSE
  BY <1>3 DEF Start, server
<1>4. ~(Lookup \/ Prepare \/ LookupFails \/ Exists \/ GetInfo \/ GetVal \/ GetName \/ RequestFails)
  BY DEF Lookup, Prepare, LookupFails, Exists, GetInfo, GetVal, GetName, RequestFails, GiveUp, server
<1> QED
  BY <1>2, <1>3, <1>4 DEF Next, Connector

\* The link a request changes is the one the path has named.
LEMMA NamedChange ==
  ASSUME Inv, Create \/ Delete, Understood,
         call.op = "create" => version = "long_names" \/ EmptyDirname(call.path),
         NEW g \in Group, NEW n \in Name, links'[g][n] # links[g][n]
  PROVE  g \in places /\ n = Name0
<1>1. links \in Links /\ target \in Link \cup {NoLink}
  BY DEF Inv, Typed_OK
<1>2. CASE Create
  <2>1. /\ phase = "request" /\ call.op = "create" /\ CreateIn \in Group
        /\ links' = [links EXCEPT ![CreateIn][Name0] = target]
    BY <1>2 DEF Create
  <2>2. Name0 \in Name
    BY <2>1, LastName
  <2>3. g = CreateIn /\ n = Name0
    BY <1>1, <2>1, <2>2, Replaced
  <2>4. PlaceOf(links, call.loc, call.path) \in places /\ dir = call.loc
    BY <2>1 DEF Inv, Noted, Looked
  <2>5. CreateIn = PlaceOf(links, call.loc, call.path)
    BY <2>1, <2>4 DEF CreateIn, PlaceOf
  <2> QED
    BY <2>3, <2>4, <2>5
<1>3. CASE Delete
  <2>1. /\ phase = "request" /\ call.op = "delete" /\ Linked # NoLink
        /\ links' = [links EXCEPT ![dir][Name0] = NoLink]
    BY <1>3 DEF Delete
  <2>2. Name0 \in Name /\ dir \in Group
    BY <2>1, LastName DEF Linked, LinkIn
  <2>3. g = dir /\ n = Name0
    BY <1>1, <2>1, <2>2, Replaced
  <2>4. dir \in places
    BY <2>1 DEF Inv, Looked
  <2> QED
    BY <2>3, <2>4
<1> QED
  BY <1>2, <1>3

\* The link a request creates is the one that was prepared.
LEMMA CreatedLink ==
  ASSUME Inv, Create, call.link.kind = "named", version # "old"
  PROVE  links'[CreateIn][Name0] \in {Hard(o) : o \in aims \ {Nothing}}
<1>1. /\ phase = "request" /\ call.op = "create" /\ CreateIn \in Group
      /\ links' = [links EXCEPT ![CreateIn][Name0] = target]
  BY DEF Create
<1>2. Name0 \in Name /\ links \in Links /\ target \in Link \cup {NoLink}
  BY <1>1, LastName DEF Inv, Typed_OK
<1>3. links'[CreateIn][Name0] = target
  BY <1>1, <1>2, Replaced
<1> QED
  BY <1>1, <1>3 DEF Inv, Looked

\* What a call does to the links of any graph is what it was asked for: it changes only the
\* link its path has named, a link created by name leads to what the name has meant, and
\* nothing but a deletion touches a file that was opened for reading.
THEOREM ChangesAreAsked == Spec => ChangesAsAsked
<1> DEFINE A1 == phase = "request" /\ Understood
                   /\ (call.op = "create" => version = "long_names" \/ EmptyDirname(call.path)) =>
                   \A g \in Group, n \in Name :
                     links'[g][n] # links[g][n] /\ changes' = changes =>
                       g \in places /\ n = Name0
           A2 == phase = "request" /\ call.op = "create" /\ call.link.kind = "named" /\ version # "old"
                   /\ links' # links /\ changes' = changes =>
                   links'[CreateIn][Name0] \in {Hard(o) : o \in aims \ {Nothing}}
           A3 == ~rdwr /\ changes' = changes /\ call.op # "delete" => links' = links
<1>1. Inv /\ [Next]_vars => [A1]_vars
  <2> SUFFICES ASSUME Inv, Next, Understood, changes' = changes,
                      call.op = "create" => version = "long_names" \/ EmptyDirname(call.path),
                      NEW g \in Group, NEW n \in Name, links'[g][n] # links[g][n]
               PROVE  g \in places /\ n = Name0
    OBVIOUS
  <2>1. Create \/ Delete
    BY ChangedBy
  <2> QED
    BY <2>1, NamedChange
<1>2. Inv /\ [Next]_vars => [A2]_vars
  <2> SUFFICES ASSUME Inv, Next, call.op = "create", call.link.kind = "named", version # "old",
                      links' # links, changes' = changes
               PROVE  links'[CreateIn][Name0] \in {Hard(o) : o \in aims \ {Nothing}}
    OBVIOUS
  <2>1. Create
    BY ChangedBy DEF Delete
  <2> QED
    BY <2>1, CreatedLink
<1>3. Inv /\ [Next]_vars => [A3]_vars
  <2> SUFFICES ASSUME Inv, Next, ~rdwr, changes' = changes, call.op # "delete", links' # links
               PROVE  FALSE
    OBVIOUS
  <2>1. Create
    BY ChangedBy DEF Delete
  <2> QED
    BY <2>1 DEF Inv, Checked, Create
<1>4. Spec => ChangesOnlyNamed
  BY <1>1, Invariance, PTL DEF Spec, ChangesOnlyNamed
<1>5. Spec => CreatedLeadsToTarget
  BY <1>2, Invariance, PTL DEF Spec, CreatedLeadsToTarget
<1>6. Spec => ReadOnlyUntouched
  BY <1>3, Invariance, PTL DEF Spec, ReadOnlyUntouched
<1> QED
  BY <1>4, <1>5, <1>6 DEF ChangesAsAsked
=============================================================================
