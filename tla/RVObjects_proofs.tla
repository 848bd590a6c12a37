-------------------------- MODULE RVObjects_proofs ---------------------------
(***************************************************************************)
(* Proofs about the objects in memory, the tables they are found in, and   *)
(* the visits that lead from one to the next: about RVObjects for any      *)
(* number of handles, file structs, dataspaces and objects (the counts are *)
(* exact, and the file structs implement RVLifetime), about RVHashTable,   *)
(* the table behind the registry and the sets of visited links, and about  *)
(* RVVisit for any groups, links and calls.                                *)
(***************************************************************************)
EXTENDS RVObjects, RVHashTable, RVVisit, FiniteSetTheorems, SequenceTheorems, WellFoundedInduction,
        TLAPS

\* The inductive invariant.  None of its parts is inductive alone: a count stays
\* natural because a user leaves, a shared dataspace exists because the table's
\* entry is open, and a struct is freed under nobody because the counts are exact.
Inv == TypeOK /\ DomainCounts /\ SpaceCounts /\ RegistryLive /\ RightDomain

SpaceUsers(s) == {h \in Handle : space[h] = s}

-----------------------------------------------------------------------------
(* Sets of users are finite, and what the counts say about them. *)

\* A file struct has finitely many users: the handles are finitely many.
LEMMA FiniteUsers == \A d : IsFiniteSet(Users(d))
<1> SUFFICES ASSUME NEW d PROVE IsFiniteSet(Users(d))
  OBVIOUS
<1>1. IsFiniteSet(Handle \cup {AppFile})
  BY HandleAssumption, FS_AddElement
<1>2. Users(d) \in SUBSET (Handle \cup {AppFile})
  BY DEF Users
<1> QED
  BY <1>1, <1>2, FS_Subset

\* A dataspace is used by finitely many views.
LEMMA FiniteSpaceUsers == \A s : IsFiniteSet(SpaceUsers(s))
<1> SUFFICES ASSUME NEW s PROVE IsFiniteSet(SpaceUsers(s))
  OBVIOUS
<1>1. SpaceUsers(s) \in SUBSET Handle
  BY DEF SpaceUsers
<1> QED
  BY <1>1, HandleAssumption, FS_Subset

\* A struct without references has no users, one with a single reference has one.
LEMMA CountMeaning ==
  ASSUME DomainCounts, NEW d \in Slot
  PROVE  /\ refs[d] = 0 <=> Users(d) = {}
         /\ \A x \in Users(d) : refs[d] = 1 <=> Users(d) = {x}
<1>1. refs[d] = Cardinality(Users(d))
  BY DEF DomainCounts
<1>2. refs[d] = 0 <=> Users(d) = {}
  BY <1>1, FiniteUsers, FS_EmptySet
<1>3. ASSUME NEW x \in Users(d) PROVE refs[d] = 1 <=> Users(d) = {x}
  <2>1. refs[d] = 1 <=> \E y : Users(d) = {y}
    BY <1>1, FiniteUsers, FS_Singleton
  <2> QED
    BY <2>1, <1>3
<1> QED
  BY <1>2, <1>3

\* A struct somebody uses is allocated: its reference count is positive.
LEMMA UsersCounted ==
  ASSUME TypeOK, DomainCounts, NEW d \in Slot, NEW x \in Users(d)
  PROVE  refs[d] \in Nat /\ refs[d] >= 1
<1>1. refs[d] \in Nat
  BY DEF TypeOK
<1>2. refs[d] # 0
  BY CountMeaning
<1> QED
  BY <1>1, <1>2

-----------------------------------------------------------------------------
(* How a step may change the users of file structs. *)

\* User x joins struct d; everything else stays.
Joins(d, x) ==
  /\ x \notin Users(d)
  /\ \A e \in Slot : Users(e)' = IF e = d THEN Users(e) \cup {x} ELSE Users(e)
  /\ refs' = [refs EXCEPT ![d] = @ + 1]

\* User x leaves struct d; everything else stays.
Leaves(d, x) ==
  /\ x \in Users(d)
  /\ \A e \in Slot : Users(e)' = IF e = d THEN Users(e) \ {x} ELSE Users(e)
  /\ refs' = [refs EXCEPT ![d] = @ - 1]

\* ref_count++ together with one new user keeps the counts exact.
LEMMA JoinCounts ==
  ASSUME TypeOK, DomainCounts, NEW d \in Slot, NEW x, Joins(d, x)
  PROVE  refs' \in [Slot -> Nat] /\ DomainCounts'
<1>1. refs' \in [Slot -> Nat]
  BY DEF TypeOK, Joins
<1>2. ASSUME NEW e \in Slot PROVE refs'[e] = Cardinality(Users(e)')
  <2>1. IsFiniteSet(Users(e)) /\ refs[e] = Cardinality(Users(e))
    BY FiniteUsers DEF DomainCounts
  <2>2. CASE e = d
    <3>1. Cardinality(Users(d) \cup {x}) = Cardinality(Users(d)) + 1
      BY <2>1, <2>2, FS_AddElement DEF Joins
    <3>2. refs'[d] = refs[d] + 1
      BY DEF Joins, TypeOK
    <3> QED
      BY <2>1, <2>2, <3>1, <3>2 DEF Joins
  <2>3. CASE e # d
    BY <2>1, <2>3 DEF Joins, TypeOK
  <2> QED
    BY <2>2, <2>3
<1> QED
  BY <1>1, <1>2 DEF DomainCounts

\* RV_file_close together with one user leaving keeps the counts exact.
LEMMA LeaveCounts ==
  ASSUME TypeOK, DomainCounts, NEW d \in Slot, NEW x, Leaves(d, x)
  PROVE  refs' \in [Slot -> Nat] /\ DomainCounts'
<1>1. refs[d] \in Nat /\ refs[d] >= 1
  BY UsersCounted DEF Leaves
<1>2. refs' \in [Slot -> Nat]
  <2>1. refs[d] - 1 \in Nat
    BY <1>1
  <2> QED
    BY <2>1 DEF TypeOK, Leaves
<1>3. ASSUME NEW e \in Slot PROVE refs'[e] = Cardinality(Users(e)')
  <2>1. IsFiniteSet(Users(e)) /\ refs[e] = Cardinality(Users(e))
    BY FiniteUsers DEF DomainCounts
  <2>2. CASE e = d
    <3>1. Cardinality(Users(d) \ {x}) = Cardinality(Users(d)) - 1
      BY <2>1, <2>2, FS_RemoveElement DEF Leaves
    <3>2. refs'[d] = refs[d] - 1
      BY DEF Leaves, TypeOK
    <3> QED
      BY <2>1, <2>2, <3>1, <3>2 DEF Leaves
  <2>3. CASE e # d
    BY <2>1, <2>3 DEF Leaves, TypeOK
  <2> QED
    BY <2>2, <2>3
<1> QED
  BY <1>2, <1>3 DEF DomainCounts

\* A new object joins its struct.
LEMMA BindJoins ==
  ASSUME TypeOK, NEW d \in Slot, NEW h \in Handle, NEW k, Bind(h, k, d),
         held' = held, refs' = [refs EXCEPT ![d] = @ + 1]
  PROVE  Joins(d, h)
<1>1. h \notin Users(d)
  BY NoneAssumption, HandleAssumption DEF Users, Bind
<1>2. ASSUME NEW e \in Slot
      PROVE  Users(e)' = IF e = d THEN Users(e) \cup {h} ELSE Users(e)
  <2>1. \A g \in Handle : domain'[g] = IF g = h THEN d ELSE domain[g]
    BY DEF TypeOK, Bind
  <2>2. domain[h] # e
    BY NoneAssumption DEF Bind
  <2> QED
    BY <2>1, <2>2 DEF Users
<1> QED
  BY <1>1, <1>2 DEF Joins

\* A closed object leaves its struct.
LEMMA UnbindLeaves ==
  ASSUME TypeOK, NEW h \in Handle, IsOpen(h), held' = held,
         domain' = [domain EXCEPT ![h] = None],
         refs' = [refs EXCEPT ![domain[h]] = @ - 1]
  PROVE  domain[h] \in Slot /\ Leaves(domain[h], h)
<1>1. domain[h] \in Slot
  BY DEF TypeOK, IsOpen
<1>2. h \in Users(domain[h])
  BY DEF Users
<1>3. ASSUME NEW e \in Slot
      PROVE  Users(e)' = IF e = domain[h] THEN Users(e) \ {h} ELSE Users(e)
  <2>1. \A g \in Handle : domain'[g] = IF g = h THEN None ELSE domain[g]
    BY DEF TypeOK
  <2>2. None # e /\ h # AppFile
    BY NoneAssumption, HandleAssumption
  <2> QED
    BY <2>1, <2>2 DEF Users
<1> QED
  BY <1>1, <1>2, <1>3 DEF Leaves

-----------------------------------------------------------------------------
(* What a step does to the sharing of dataspaces. *)

SpaceType == /\ space' \in [Handle -> Space \cup {None}]
             /\ spaceRefs' \in [Space -> Nat]
             /\ spaceExtent' \in [Space -> Extent]

\* The number of views of a dataspace is a natural number.
LEMMA SpaceCountNat ==
  ASSUME SpaceCounts, NEW s \in Space, NEW h \in Handle, space[h] = s, TypeOK
  PROVE  spaceRefs[s] \in Nat /\ spaceRefs[s] >= 1
<1>1. spaceRefs[s] = Cardinality(SpaceUsers(s))
  BY DEF SpaceCounts, SpaceUsers
<1>2. h \in SpaceUsers(s)
  BY DEF SpaceUsers
<1>3. Cardinality(SpaceUsers(s)) # 0
  BY <1>2, FiniteSpaceUsers, FS_EmptySet
<1> QED
  BY <1>1, <1>3 DEF TypeOK

\* A new object that is no dataset leaves the dataspaces alone.
LEMMA NoSpace ==
  ASSUME TypeOK, SpaceCounts, NEW h \in Handle, NEW k, k \notin Dataset,
         NEW d \in Slot, Bind(h, k, d), UNCHANGED views
  PROVE  SpaceType /\ SpaceCounts'
<1>1. \A g \in Handle : /\ domain'[g] = IF g = h THEN d ELSE domain[g]
                        /\ uri'[g] = IF g = h THEN k ELSE uri[g]
                        /\ space'[g] = space[g]
  BY DEF TypeOK, Bind, views
<1>2. space[h] = None
  BY DEF SpaceCounts, IsOpen, Bind
<1>3. \A g \in Handle : space'[g] # None <=> domain'[g] # None /\ uri'[g] \in Dataset
  BY <1>1, <1>2 DEF SpaceCounts, IsOpen
<1>4. \A g, f \in Handle : space'[g] = space'[f] /\ space'[g] # None => uri'[g] = uri'[f]
  BY <1>1, <1>2 DEF SpaceCounts
<1>5. \A s \in Space : spaceRefs'[s] = Cardinality({g \in Handle : space'[g] = s})
  BY DEF SpaceCounts, views
<1>6. SpaceType
  BY DEF TypeOK, SpaceType, views
<1>7. Dataset' = Dataset
  BY DEF Dataset
<1> QED
  BY <1>3, <1>4, <1>5, <1>6, <1>7 DEF SpaceCounts, IsOpen

\* A new dataset whose dataspace has been used by s's present users so far: either
\* nobody (a dataspace of its own) or views of the same dataset.
LEMMA TakesSpace ==
  ASSUME TypeOK, SpaceCounts, NEW h \in Handle, NEW u \in Dataset,
         NEW d \in Slot, NEW s \in Space, Bind(h, u, d),
         space' = [space EXCEPT ![h] = s],
         spaceRefs' = [spaceRefs EXCEPT ![s] = @ + 1],
         \A g \in Handle : space[g] = s => uri[g] = u,
         spaceExtent' \in [Space -> Extent]
  PROVE  SpaceType /\ SpaceCounts'
<1>1. \A g \in Handle : /\ domain'[g] = IF g = h THEN d ELSE domain[g]
                        /\ uri'[g] = IF g = h THEN u ELSE uri[g]
                        /\ space'[g] = IF g = h THEN s ELSE space[g]
  BY DEF TypeOK, Bind
<1>2. space[h] = None
  BY DEF SpaceCounts, IsOpen, Bind
<1>3. s # None /\ d # None
  BY NoneAssumption
<1>4. \A g \in Handle : space'[g] # None <=> domain'[g] # None /\ uri'[g] \in Dataset
  BY <1>1, <1>3 DEF SpaceCounts, IsOpen
<1>5. \A g, f \in Handle : space'[g] = space'[f] /\ space'[g] # None => uri'[g] = uri'[f]
  BY <1>1 DEF SpaceCounts
<1>6. ASSUME NEW r \in Space
      PROVE  spaceRefs'[r] = Cardinality({g \in Handle : space'[g] = r})
  <2>1. spaceRefs[r] = Cardinality(SpaceUsers(r)) /\ IsFiniteSet(SpaceUsers(r))
    BY FiniteSpaceUsers DEF SpaceCounts, SpaceUsers
  <2>2. CASE r = s
    <3>1. {g \in Handle : space'[g] = s} = SpaceUsers(s) \cup {h}
      BY <1>1 DEF SpaceUsers
    <3>2. h \notin SpaceUsers(s)
      BY <1>2, <1>3 DEF SpaceUsers
    <3>3. Cardinality(SpaceUsers(s) \cup {h}) = Cardinality(SpaceUsers(s)) + 1
      BY <2>1, <2>2, <3>2, FS_AddElement
    <3>4. spaceRefs'[s] = spaceRefs[s] + 1
      BY DEF TypeOK
    <3> QED
      BY <2>1, <2>2, <3>1, <3>3, <3>4
  <2>3. CASE r # s
    <3>1. {g \in Handle : space'[g] = r} = SpaceUsers(r)
      BY <1>1, <1>2, <2>3, NoneAssumption DEF SpaceUsers
    <3>2. spaceRefs'[r] = spaceRefs[r]
      BY <2>3 DEF TypeOK
    <3> QED
      BY <2>1, <3>1, <3>2
  <2> QED
    BY <2>2, <2>3
<1>7. SpaceType
  <2>1. space' \in [Handle -> Space \cup {None}]
    BY DEF TypeOK
  <2>2. spaceRefs' \in [Space -> Nat]
    BY DEF TypeOK
  <2> QED
    BY <2>1, <2>2 DEF SpaceType
<1>8. Dataset' = Dataset
  BY DEF Dataset
<1> QED
  BY <1>4, <1>5, <1>6, <1>7, <1>8 DEF SpaceCounts, IsOpen

\* A dataspace made for the new view alone is counted once.
LEMMA OwnSpaceCounts ==
  ASSUME TypeOK, SpaceCounts, NEW h \in Handle, NEW u \in Dataset,
         NEW d \in Slot, NEW n \in Extent, Bind(h, u, d), OwnSpace(h, n)
  PROVE  SpaceType /\ SpaceCounts'
<1>1. PICK s \in Space : /\ spaceRefs[s] = 0
                         /\ space' = [space EXCEPT ![h] = s]
                         /\ spaceRefs' = [spaceRefs EXCEPT ![s] = 1]
                         /\ spaceExtent' = [spaceExtent EXCEPT ![s] = n]
  BY DEF OwnSpace
<1>2. \A g \in Handle : space[g] # s
  BY <1>1, SpaceCountNat
<1>3. spaceRefs' = [spaceRefs EXCEPT ![s] = @ + 1]
  BY <1>1 DEF TypeOK
<1>4. spaceExtent' \in [Space -> Extent]
  BY <1>1 DEF TypeOK
<1> QED
  BY <1>1, <1>2, <1>3, <1>4, TakesSpace

\* H5Iinc_ref counts the view that shares the dataspace of another view.
LEMMA ShareSpaceCounts ==
  ASSUME TypeOK, SpaceCounts, NEW h \in Handle, NEW u \in Dataset,
         NEW d \in Slot, NEW g \in Handle, IsOpen(g), uri[g] = u,
         Bind(h, u, d), ShareSpace(h, g)
  PROVE  SpaceType /\ SpaceCounts'
<1>1. space[g] # None
  BY DEF SpaceCounts
<1>2. space[g] \in Space
  BY <1>1 DEF TypeOK
<1>3. \A f \in Handle : space[f] = space[g] => uri[f] = u
  BY <1>1 DEF SpaceCounts
<1>4. spaceExtent' \in [Space -> Extent]
  BY DEF TypeOK, ShareSpace
<1> QED
  BY ZenonT(40), <1>2, <1>3, <1>4, TakesSpace DEF ShareSpace

\* Whichever dataspace RV_dataset_open chooses, the counts stay exact.
LEMMA OpenedSpaceCounts ==
  ASSUME Inv, NEW h \in Handle, NEW u \in Uri, NEW d \in Slot,
         Bind(h, u, d), OpenedSpace(h, u)
  PROVE  SpaceType /\ SpaceCounts'
<1> USE DEF Inv
<1>1. CASE u \notin Dataset
  BY <1>1, NoSpace DEF OpenedSpace
<1>2. CASE u \in Dataset /\ registry[u] # None
  <2>1. registry[u] \in Handle /\ IsOpen(registry[u]) /\ uri[registry[u]] = u
    BY <1>2 DEF RegistryLive, TypeOK, RegistryKey
  <2> QED
    BY <1>2, <2>1, ShareSpaceCounts DEF OpenedSpace
<1>3. CASE u \in Dataset /\ registry[u] = None
  <2>1. extent[u] \in Extent
    BY <1>3 DEF TypeOK
  <2> QED
    BY <1>3, <2>1, OwnSpaceCounts DEF OpenedSpace
<1> QED
  BY <1>1, <1>2, <1>3

-----------------------------------------------------------------------------
(* A new object, whatever call made it. *)

ServerType == exists' \subseteq Uri /\ extent' \in [Dataset -> Extent]

\* Registering a new object leaves every table entry naming an open object.
LEMMA EnterTable ==
  ASSUME Inv, NEW d \in Slot, NEW h \in Handle, NEW k \in RegistryKey, Bind(h, k, d),
         Register(k, h) \/ registry' = registry
  PROVE  registry' \in [RegistryKey -> Handle \cup {None}] /\ RegistryLive'
<1>1. registry' \in [RegistryKey -> Handle \cup {None}]
  BY DEF Inv, TypeOK, Register
<1>2. \A g \in Handle : /\ domain'[g] = IF g = h THEN d ELSE domain[g]
                        /\ uri'[g] = IF g = h THEN k ELSE uri[g]
  BY DEF Inv, TypeOK, Bind
<1>3. ASSUME NEW j \in RegistryKey, registry'[j] # None
      PROVE  domain'[registry'[j]] # None /\ uri'[registry'[j]] = j
  <2>1. CASE registry'[j] = registry[j]
    <3>1. registry[j] \in Handle /\ domain[registry[j]] # None /\ uri[registry[j]] = j
      BY <1>3, <2>1 DEF Inv, TypeOK, RegistryLive, IsOpen
    <3>2. registry[j] # h
      BY <3>1 DEF Bind
    <3> QED
      BY <2>1, <3>1, <3>2, <1>2
  <2>2. CASE registry'[j] # registry[j]
    <3>1. j = k /\ registry'[j] = h
      BY <2>2 DEF Inv, TypeOK, Register
    <3> QED
      BY <3>1, <1>2, NoneAssumption
  <2> QED
    BY <2>1, <2>2
<1> QED
  BY <1>1, <1>3 DEF RegistryLive, IsOpen, RegistryKey

\* What a new object must satisfy for the whole invariant to survive its entry.
LEMMA Enter ==
  ASSUME Inv, NEW d \in Slot, NEW h \in Handle, NEW k \in RegistryKey,
         Bind(h, k, d), held' = held, refs' = [refs EXCEPT ![d] = @ + 1],
         SpaceType, SpaceCounts', Register(k, h) \/ registry' = registry,
         file' \in [Slot -> File \cup {None}], writable' \in [Slot -> BOOLEAN],
         ServerType,
         \A g \in Handle : IsOpen(g) => file'[domain[g]] = file[domain[g]],
         k \in Uri => file'[d] = Home[k]
  PROVE  Inv'
<1>1. refs' \in [Slot -> Nat] /\ DomainCounts'
  BY BindJoins, JoinCounts DEF Inv
<1>2. registry' \in [RegistryKey -> Handle \cup {None}] /\ RegistryLive'
  BY EnterTable
<1>3. domain' \in [Handle -> Slot \cup {None}] /\ uri' \in [Handle -> RegistryKey \cup {None}]
  BY DEF Inv, TypeOK, Bind
<1>4. TypeOK'
  <2>1. held' \subseteq Slot
    BY DEF Inv, TypeOK
  <2> QED
    BY <1>1, <1>2, <1>3, <2>1 DEF TypeOK, SpaceType, ServerType, RegistryKey, Dataset, Extent
<1>5. RightDomain'
  <2>1. ASSUME NEW g \in Handle, domain'[g] # None, uri'[g] \in Uri
        PROVE  file'[domain'[g]] = Home[uri'[g]]
    <3>1. CASE g = h
      BY <2>1, <3>1 DEF Inv, TypeOK, Bind
    <3>2. CASE g # h
      <4>1. domain'[g] = domain[g] /\ uri'[g] = uri[g]
        BY <3>2 DEF Bind, Inv, TypeOK
      <4> QED
        BY <2>1, <4>1 DEF Inv, RightDomain, IsOpen
    <3> QED
      BY <3>1, <3>2
  <2> QED
    BY <2>1 DEF RightDomain, IsOpen
<1> QED
  BY <1>1, <1>2, <1>4, <1>5 DEF Inv

\* A struct just allocated has no users, so its name may be set freely.
LEMMA FreshStruct ==
  ASSUME Inv, NEW d \in Slot, NEW f \in File \cup {None}, NEW w \in BOOLEAN,
         Allocate(d, f, w)
  PROVE  /\ refs' = [refs EXCEPT ![d] = @ + 1]
         /\ file' \in [Slot -> File \cup {None}]
         /\ writable' \in [Slot -> BOOLEAN]
         /\ file'[d] = f
         /\ Users(d) = {}
         /\ \A g \in Handle : IsOpen(g) => file'[domain[g]] = file[domain[g]]
<1>1. refs' = [refs EXCEPT ![d] = @ + 1]
  BY DEF Allocate, Inv, TypeOK
<1>2. /\ file' \in [Slot -> File \cup {None}]
      /\ writable' \in [Slot -> BOOLEAN]
      /\ file'[d] = f
  BY DEF Allocate, Inv, TypeOK
<1>3. Users(d) = {}
  BY CountMeaning DEF Inv, Allocate
<1>4. \A g \in Handle : IsOpen(g) => file'[domain[g]] = file[domain[g]]
  <2> SUFFICES ASSUME NEW g \in Handle, IsOpen(g)
               PROVE  file'[domain[g]] = file[domain[g]]
    OBVIOUS
  <2>1. domain[g] # d
    BY <1>3 DEF Users
  <2>2. domain[g] \in Slot
    BY DEF Inv, TypeOK, IsOpen
  <2> QED
    BY <2>1, <2>2 DEF Allocate, Inv, TypeOK
<1> QED
  BY <1>1, <1>2, <1>3, <1>4

\* RV_group_create, RV_dataset_create and RV_datatype_commit keep the invariant.
LEMMA CreateStep ==
  ASSUME Inv, NEW d \in Slot, NEW h \in Handle, NEW u \in Uri, NEW n \in Extent,
         Create(d, h, u, n)
  PROVE  Inv'
<1>1. Bind(h, u, d) /\ held' = held /\ refs' = [refs EXCEPT ![d] = @ + 1]
  BY DEF Create, Acquire
<1>2. SpaceType /\ SpaceCounts'
  <2>1. CASE u \in Dataset
    BY <1>1, <2>1, OwnSpaceCounts DEF Create, Inv
  <2>2. CASE u \notin Dataset
    BY <1>1, <2>2, NoSpace DEF Create, Inv
  <2> QED
    BY <2>1, <2>2
<1>3. ServerType
  BY DEF Create, Inv, TypeOK, ServerType
<1>4. /\ file' = file /\ file \in [Slot -> File \cup {None}]
      /\ writable' \in [Slot -> BOOLEAN]
      /\ file[d] = Home[u]
      /\ u \in RegistryKey
  BY DEF Create, Acquire, Inv, TypeOK, RegistryKey
<1> QED
  BY <1>1, <1>2, <1>3, <1>4, Enter DEF Create

\* Opening an object of the location's own file keeps the invariant.
LEMMA OpenHereStep ==
  ASSUME Inv, NEW d \in Slot, NEW h \in Handle, NEW u \in Uri, OpenHere(d, h, u)
  PROVE  Inv'
<1>1. Bind(h, u, d) /\ held' = held /\ refs' = [refs EXCEPT ![d] = @ + 1]
  BY DEF OpenHere, Acquire
<1>2. SpaceType /\ SpaceCounts'
  BY <1>1, OpenedSpaceCounts DEF OpenHere
<1>3. ServerType
  BY DEF OpenHere, Inv, TypeOK, ServerType, server
<1>4. /\ file' = file /\ file \in [Slot -> File \cup {None}]
      /\ writable' \in [Slot -> BOOLEAN]
      /\ file[d] = Home[u]
      /\ u \in RegistryKey
  BY DEF OpenHere, Acquire, Inv, TypeOK, RegistryKey
<1> QED
  BY <1>1, <1>2, <1>3, <1>4, Enter DEF OpenHere

\* Opening through an external link, with the new file struct of
\* RV_copy_object_loc_info_callback, keeps the invariant.
LEMMA OpenExternalStep ==
  ASSUME Inv, NEW d \in Slot, NEW e \in Slot, NEW h \in Handle, NEW u \in Uri,
         OpenExternal(d, e, h, u)
  PROVE  Inv'
<1>1. Bind(h, u, e) /\ held' = held /\ Allocate(e, Home[u], writable[d])
  BY DEF OpenExternal
<1>2. Home[u] \in File /\ writable[d] \in BOOLEAN /\ u \in RegistryKey
  BY UriAssumption DEF Inv, TypeOK, RegistryKey
<1>3. SpaceType /\ SpaceCounts'
  BY <1>1, OpenedSpaceCounts DEF OpenExternal
<1>4. ServerType
  BY DEF OpenExternal, Inv, TypeOK, ServerType, server
<1>5. /\ refs' = [refs EXCEPT ![e] = @ + 1]
      /\ file' \in [Slot -> File \cup {None}]
      /\ writable' \in [Slot -> BOOLEAN]
      /\ file'[e] = Home[u]
      /\ \A g \in Handle : IsOpen(g) => file'[domain[g]] = file[domain[g]]
  BY <1>1, <1>2, FreshStruct
<1> QED
  BY <1>1, <1>2, <1>3, <1>4, <1>5, Enter DEF OpenExternal

\* RV_attr_create and RV_attr_open keep the invariant.
LEMMA AttrOpenStep ==
  ASSUME Inv, NEW d \in Slot, NEW h \in Handle, AttrOpen(d, h)
  PROVE  Inv'
<1>1. Bind(h, AttrKey, d) /\ held' = held /\ refs' = [refs EXCEPT ![d] = @ + 1]
  BY DEF AttrOpen, Acquire
<1>2. SpaceType /\ SpaceCounts'
  <2>1. AttrKey \notin Dataset
    BY UriAssumption DEF Dataset
  <2> QED
    BY <1>1, <2>1, NoSpace DEF AttrOpen, Inv
<1>3. ServerType
  BY DEF AttrOpen, Inv, TypeOK, ServerType, server
<1>4. /\ file' = file /\ file \in [Slot -> File \cup {None}]
      /\ writable' \in [Slot -> BOOLEAN]
      /\ AttrKey \in RegistryKey /\ AttrKey \notin Uri
  BY UriAssumption DEF AttrOpen, Acquire, Inv, TypeOK, RegistryKey
<1> QED
  BY <1>1, <1>2, <1>3, <1>4, Enter DEF AttrOpen

\* The struct copied for a callback of H5Aiterate or H5Ovisit keeps the invariant.
LEMMA CopyForCallbackStep ==
  ASSUME Inv, NEW h \in Handle, NEW c \in Handle, CopyForCallback(h, c)
  PROVE  Inv'
<1>1. /\ Bind(c, uri[h], domain[h]) /\ held' = held
      /\ refs' = [refs EXCEPT ![domain[h]] = @ + 1]
  BY DEF CopyForCallback, Acquire
<1>2. domain[h] \in Slot /\ uri[h] \in Uri /\ uri[h] \in RegistryKey
  BY DEF CopyForCallback, IsOpen, Inv, TypeOK, RegistryKey
<1>3. SpaceType /\ SpaceCounts'
  <2>1. CASE uri[h] \in Dataset
    BY <1>1, <1>2, <2>1, ShareSpaceCounts DEF CopyForCallback, Inv
  <2>2. CASE uri[h] \notin Dataset
    BY <1>1, <1>2, <2>2, NoSpace DEF CopyForCallback, Inv
  <2> QED
    BY <2>1, <2>2
<1>4. ServerType
  BY DEF CopyForCallback, Inv, TypeOK, ServerType, server
<1>5. /\ file' = file /\ file \in [Slot -> File \cup {None}]
      /\ writable' \in [Slot -> BOOLEAN]
      /\ registry' = registry
      /\ file[domain[h]] = Home[uri[h]]
  BY <1>2 DEF CopyForCallback, Acquire, Inv, TypeOK, RightDomain
<1> QED
  BY <1>1, <1>2, <1>3, <1>4, <1>5, Enter

-----------------------------------------------------------------------------
(* Closing. *)

\* RV_file_close frees a struct only under its last user, so the others still
\* find the file name in theirs.
LEMMA DropKeepsOthers ==
  ASSUME Inv, NEW d \in Slot, NEW x \in Users(d), Drop(d)
  PROVE  /\ file' \in [Slot -> File \cup {None}]
         /\ writable' \in [Slot -> BOOLEAN]
         /\ \A g \in Handle : IsOpen(g) /\ g # x => file'[domain[g]] = file[domain[g]]
<1>1. file' \in [Slot -> File \cup {None}] /\ writable' \in [Slot -> BOOLEAN]
  BY DEF Drop, Inv, TypeOK
<1>2. ASSUME NEW g \in Handle, IsOpen(g), g # x
      PROVE  file'[domain[g]] = file[domain[g]]
  <2>1. CASE domain[g] = d
    <3>1. g \in Users(d)
      BY <2>1 DEF Users
    <3>2. refs[d] # 1
      BY <3>1, <1>2, CountMeaning DEF Inv
    <3> QED
      BY <3>2 DEF Drop
  <2>2. CASE domain[g] # d
    BY <2>2, <1>2 DEF Drop, Inv, TypeOK, IsOpen
  <2> QED
    BY <2>1, <2>2
<1> QED
  BY <1>1, <1>2

\* H5Sclose in RV_dataset_close takes exactly the closed view out of the count.
LEMMA CloseSpace ==
  ASSUME Inv, NEW h \in Handle, Close(h)
  PROVE  SpaceType /\ SpaceCounts'
<1>1. \A g \in Handle : /\ domain'[g] = IF g = h THEN None ELSE domain[g]
                        /\ uri'[g] = IF g = h THEN None ELSE uri[g]
                        /\ space'[g] = IF g = h THEN None ELSE space[g]
  BY DEF Close, Inv, TypeOK
<1>2. \A g \in Handle : space'[g] # None <=> domain'[g] # None /\ uri'[g] \in Dataset
  BY <1>1 DEF Inv, SpaceCounts, IsOpen
<1>3. \A g, f \in Handle : space'[g] = space'[f] /\ space'[g] # None => uri'[g] = uri'[f]
  BY <1>1 DEF Inv, SpaceCounts
<1>4. space' \in [Handle -> Space \cup {None}]
  BY DEF Close, Inv, TypeOK
<1>5. CASE space[h] = None
  <2>1. UNCHANGED <<spaceRefs, spaceExtent>>
    BY <1>5 DEF Close
  <2>2. ASSUME NEW s \in Space
        PROVE  {g \in Handle : space'[g] = s} = {g \in Handle : space[g] = s}
    BY <1>1, <1>5, NoneAssumption
  <2>3. \A s \in Space : spaceRefs'[s] = Cardinality({g \in Handle : space'[g] = s})
    BY <2>1, <2>2 DEF Inv, SpaceCounts
  <2>4. Dataset' = Dataset
    BY DEF Dataset
  <2> QED
    BY <1>2, <1>3, <1>4, <2>1, <2>3, <2>4 DEF SpaceCounts, SpaceType, IsOpen, Inv, TypeOK
<1>6. CASE space[h] # None
  <2> DEFINE s == space[h]
  <2>1. s \in Space /\ spaceRefs[s] \in Nat /\ spaceRefs[s] >= 1
    BY <1>6, SpaceCountNat DEF Inv, TypeOK
  <2>2. spaceRefs' = [spaceRefs EXCEPT ![s] = @ - 1]
    BY <1>6 DEF Close
  <2>3. spaceRefs' \in [Space -> Nat]
    <3>1. spaceRefs[s] - 1 \in Nat
      BY <2>1
    <3> QED
      BY <2>2, <3>1 DEF Inv, TypeOK
  <2>4. spaceExtent' \in [Space -> Extent]
    BY <1>6, ExtentAssumption DEF Close, Inv, TypeOK, Extent
  <2>5. ASSUME NEW r \in Space
        PROVE  spaceRefs'[r] = Cardinality({g \in Handle : space'[g] = r})
    <3>1. spaceRefs[r] = Cardinality(SpaceUsers(r)) /\ IsFiniteSet(SpaceUsers(r))
      BY FiniteSpaceUsers DEF Inv, SpaceCounts, SpaceUsers
    <3>2. CASE r = s
      <4>1. {g \in Handle : space'[g] = s} = SpaceUsers(s) \ {h}
        BY <1>1, <1>6 DEF SpaceUsers
      <4>2. h \in SpaceUsers(s)
        BY DEF SpaceUsers
      <4>3. Cardinality(SpaceUsers(s) \ {h}) = Cardinality(SpaceUsers(s)) - 1
        BY <3>1, <3>2, <4>2, FS_RemoveElement
      <4>4. spaceRefs'[s] = spaceRefs[s] - 1
        BY <2>1, <2>2 DEF Inv, TypeOK
      <4> QED
        BY <3>1, <3>2, <4>1, <4>3, <4>4
    <3>3. CASE r # s
      <4>1. {g \in Handle : space'[g] = r} = SpaceUsers(r)
        BY <1>1, <3>3, NoneAssumption DEF SpaceUsers
      <4>2. spaceRefs'[r] = spaceRefs[r]
        BY <2>2, <3>3 DEF Inv, TypeOK
      <4> QED
        BY <3>1, <4>1, <4>2
    <3> QED
      BY <3>2, <3>3
  <2>6. Dataset' = Dataset
    BY DEF Dataset
  <2> QED
    BY <1>2, <1>3, <1>4, <2>3, <2>4, <2>5, <2>6 DEF SpaceCounts, SpaceType, IsOpen
<1> QED
  BY <1>5, <1>6

\* The close handlers keep the invariant.
LEMMA CloseStep ==
  ASSUME Inv, NEW h \in Handle, Close(h)
  PROVE  Inv'
<1>1. \A g \in Handle : /\ domain'[g] = IF g = h THEN None ELSE domain[g]
                        /\ uri'[g] = IF g = h THEN None ELSE uri[g]
  BY DEF Close, Inv, TypeOK
<1>2. domain[h] \in Slot /\ Leaves(domain[h], h)
  BY UnbindLeaves DEF Close, Drop, Inv
<1>3. refs' \in [Slot -> Nat] /\ DomainCounts'
  BY <1>2, LeaveCounts DEF Inv
<1>4. h \in Users(domain[h])
  BY DEF Users
<1>5. /\ file' \in [Slot -> File \cup {None}]
      /\ writable' \in [Slot -> BOOLEAN]
      /\ \A g \in Handle : IsOpen(g) /\ g # h => file'[domain[g]] = file[domain[g]]
  BY <1>2, <1>4, DropKeepsOthers DEF Close
<1>6. SpaceType /\ SpaceCounts'
  BY CloseSpace
<1>7. TypeOK'
  <2>1. /\ domain' \in [Handle -> Slot \cup {None}]
        /\ uri' \in [Handle -> RegistryKey \cup {None}]
        /\ registry' \in [RegistryKey -> Handle \cup {None}]
        /\ held' \subseteq Slot
    BY DEF Close, Unregister, Inv, TypeOK
  <2>2. ServerType
    BY DEF Close, Inv, TypeOK, ServerType, server
  <2> QED
    BY <1>3, <1>5, <1>6, <2>1, <2>2 DEF TypeOK, SpaceType, ServerType, RegistryKey, Dataset, Extent
<1>8. RegistryLive'
  <2>1. ASSUME NEW k \in RegistryKey, registry'[k] # None
        PROVE  domain'[registry'[k]] # None /\ uri'[registry'[k]] = k
    <3>1. k # uri[h] /\ registry'[k] = registry[k]
      BY <2>1 DEF Close, Unregister, Inv, TypeOK
    <3>2. registry[k] \in Handle /\ domain[registry[k]] # None /\ uri[registry[k]] = k
      BY <2>1, <3>1 DEF Inv, TypeOK, RegistryLive, IsOpen
    <3> QED
      BY <1>1, <3>1, <3>2
  <2> QED
    BY <2>1 DEF RegistryLive, IsOpen, RegistryKey
<1>9. RightDomain'
  <2>1. ASSUME NEW g \in Handle, domain'[g] # None, uri'[g] \in Uri
        PROVE  file'[domain'[g]] = Home[uri'[g]]
    <3>1. g # h /\ domain'[g] = domain[g] /\ uri'[g] = uri[g]
      BY <1>1, <2>1
    <3> QED
      BY <1>5, <2>1, <3>1 DEF Inv, RightDomain, IsOpen
  <2> QED
    BY <2>1 DEF RightDomain, IsOpen
<1> QED
  BY <1>3, <1>6, <1>7, <1>8, <1>9 DEF Inv

-----------------------------------------------------------------------------
(* Files. *)

\* Steps that touch neither objects nor the table keep what is said of them.
LEMMA ObjectsUntouched ==
  ASSUME Inv, UNCHANGED <<uri, domain, registry, views, server>>,
         refs' \in [Slot -> Nat], DomainCounts', held' \subseteq Slot,
         file' \in [Slot -> File \cup {None}], writable' \in [Slot -> BOOLEAN],
         \A g \in Handle : IsOpen(g) => file'[domain[g]] = file[domain[g]]
  PROVE  Inv'
<1>1. TypeOK'
  BY DEF Inv, TypeOK, views, server, RegistryKey, Dataset, Extent
<1>2. SpaceCounts'
  BY DEF Inv, SpaceCounts, views, IsOpen, Dataset
<1>3. RegistryLive'
  BY DEF Inv, RegistryLive, IsOpen, RegistryKey
<1>4. RightDomain'
  BY DEF Inv, RightDomain, IsOpen
<1> QED
  BY <1>1, <1>2, <1>3, <1>4 DEF Inv

\* RV_file_create, RV_file_open and H5Freopen keep the invariant.
LEMMA FileOpenStep ==
  ASSUME Inv, NEW d \in Slot, NEW f \in File \cup {None}, NEW w \in BOOLEAN,
         FileOpen(d, f, w)
  PROVE  Inv' /\ Joins(d, AppFile)
<1>1. /\ refs' = [refs EXCEPT ![d] = @ + 1]
      /\ file' \in [Slot -> File \cup {None}]
      /\ writable' \in [Slot -> BOOLEAN]
      /\ Users(d) = {}
      /\ \A g \in Handle : IsOpen(g) => file'[domain[g]] = file[domain[g]]
  BY FreshStruct DEF FileOpen
<1>2. \A e \in Slot : Users(e)' = IF e = d THEN Users(e) \cup {AppFile} ELSE Users(e)
  BY DEF FileOpen, Users
<1>3. Joins(d, AppFile)
  BY <1>1, <1>2 DEF Joins
<1>4. refs' \in [Slot -> Nat] /\ DomainCounts'
  BY <1>3, JoinCounts DEF Inv
<1>5. held' \subseteq Slot
  BY DEF FileOpen, Inv, TypeOK
<1> QED
  BY <1>1, <1>3, <1>4, <1>5, ObjectsUntouched DEF FileOpen

\* RV_file_close by the application keeps the invariant.
LEMMA FileCloseStep ==
  ASSUME Inv, NEW d \in Slot, FileClose(d)
  PROVE  Inv' /\ Leaves(d, AppFile)
<1>1. AppFile \in Users(d)
  BY DEF FileClose, Users
<1>2. \A e \in Slot : Users(e)' = IF e = d THEN Users(e) \ {AppFile} ELSE Users(e)
  BY HandleAssumption DEF FileClose, Users
<1>3. Leaves(d, AppFile)
  BY <1>1, <1>2 DEF Leaves, FileClose, Drop
<1>4. refs' \in [Slot -> Nat] /\ DomainCounts'
  BY <1>3, LeaveCounts DEF Inv
<1>5. /\ file' \in [Slot -> File \cup {None}]
      /\ writable' \in [Slot -> BOOLEAN]
      /\ \A g \in Handle : IsOpen(g) => file'[domain[g]] = file[domain[g]]
  BY <1>1, DropKeepsOthers, HandleAssumption DEF FileClose
<1>6. held' \subseteq Slot
  BY DEF FileClose, Inv, TypeOK
<1> QED
  BY <1>3, <1>4, <1>5, <1>6, ObjectsUntouched DEF FileClose

-----------------------------------------------------------------------------
(* Calls that leave the objects as they are: failed ones, and resizing. *)

\* Losing table entries, changing the server or an extent is all such a call does.
LEMMA SameObjects ==
  ASSUME Inv, UNCHANGED <<domains, held, uri, domain, space, spaceRefs>>,
         registry' = registry \/ \E k \in RegistryKey : Unregister(k),
         spaceExtent' \in [Space -> Extent], ServerType
  PROVE  Inv'
<1>1. registry' \in [RegistryKey -> Handle \cup {None}]
  BY DEF Inv, TypeOK, Unregister
<1>2. \A k \in RegistryKey : registry'[k] # None => registry'[k] = registry[k]
  BY DEF Inv, TypeOK, Unregister
<1>3. TypeOK'
  BY <1>1 DEF Inv, TypeOK, domains, ServerType, RegistryKey, Dataset, Extent
<1>4. DomainCounts'
  BY DEF Inv, DomainCounts, Users, domains
<1>5. SpaceCounts'
  BY DEF Inv, SpaceCounts, IsOpen, Dataset
<1>6. RegistryLive'
  BY <1>2 DEF Inv, RegistryLive, IsOpen, RegistryKey
<1>7. RightDomain'
  BY DEF Inv, RightDomain, IsOpen, domains
<1> QED
  BY <1>3, <1>4, <1>5, <1>6, <1>7 DEF Inv

\* A create call that fails after the server carried it out keeps the invariant.
LEMMA CreateFailsStep ==
  ASSUME Inv, NEW d \in Slot, NEW u \in Uri, NEW n \in Extent, CreateFails(d, u, n)
  PROVE  Inv'
<1>1. ServerType /\ spaceExtent' \in [Space -> Extent]
  BY DEF CreateFails, Inv, TypeOK, ServerType, views
<1>2. \E k \in RegistryKey : Unregister(k)
  BY DEF CreateFails, RegistryKey
<1> QED
  BY <1>1, <1>2, SameObjects DEF CreateFails, views

\* An open call that fails once it knows the URI keeps the invariant.
LEMMA OpenFailsStep ==
  ASSUME Inv, NEW d \in Slot, NEW u \in Uri, OpenFails(d, u)
  PROVE  Inv'
<1>1. ServerType /\ spaceExtent' \in [Space -> Extent]
  BY DEF OpenFails, Inv, TypeOK, ServerType, views, server
<1>2. \E k \in RegistryKey : Unregister(k)
  BY DEF OpenFails, RegistryKey
<1> QED
  BY <1>1, <1>2, SameObjects DEF OpenFails, views

\* A failing RV_attr_create or RV_attr_open keeps the invariant.
LEMMA AttrFailsStep ==
  ASSUME Inv, NEW d \in Slot, AttrFails(d)
  PROVE  Inv'
<1>1. ServerType /\ spaceExtent' \in [Space -> Extent]
  BY DEF AttrFails, Inv, TypeOK, ServerType, views, server
<1>2. \E k \in RegistryKey : Unregister(k)
  BY DEF AttrFails, RegistryKey
<1> QED
  BY <1>1, <1>2, SameObjects DEF AttrFails, views

\* Resizing, with or without the local part, keeps the invariant.
LEMMA SetExtentStep ==
  ASSUME Inv, NEW h \in Handle, NEW n \in Extent,
         SetExtent(h, n) \/ SetExtentFails(h, n)
  PROVE  Inv'
<1>1. ServerType
  BY DEF SetExtent, SetExtentFails, Inv, TypeOK, ServerType
<1>2. spaceExtent' \in [Space -> Extent]
  BY DEF SetExtent, SetExtentFails, Inv, TypeOK, views
<1> QED
  BY <1>1, <1>2, SameObjects DEF SetExtent, SetExtentFails, views

-----------------------------------------------------------------------------
(* The handlers, sorted by what they do to the structs. *)

FileChange == \E d \in Slot :
  FileClose(d) \/ \E f \in File \cup {None}, w \in BOOLEAN : FileOpen(d, f, w)

ObjectChange == \E d \in Slot, u \in Uri :
  \/ \E n \in Extent : CreateFails(d, u, n)
  \/ OpenFails(d, u)
  \/ \E h \in Handle : \/ \E n \in Extent : Create(d, h, u, n)
                       \/ OpenHere(d, h, u)
                       \/ \E e \in Slot : OpenExternal(d, e, h, u)

AttrChange == \E d \in Slot : AttrFails(d) \/ \E h \in Handle : AttrOpen(d, h)

HandleChange == \E h \in Handle :
  \/ Close(h)
  \/ \E c \in Handle : CopyForCallback(h, c)
  \/ \E n \in Extent : SetExtent(h, n) \/ SetExtentFails(h, n)

\* Every handler makes one of these changes, each at values of its parameters that
\* the lemmas above and below cover (H5Freopen at the path of an open file).
LEMMA NextChanges ==
  ASSUME Inv, Next
  PROVE  FileChange \/ ObjectChange \/ AttrChange \/ HandleChange
<1>1. CASE FileStep
  <2>1. ASSUME NEW f \in File, RV_file_create(f) PROVE FileChange
    BY <2>1 DEF RV_file_create, FileChange
  <2>2. ASSUME NEW f \in File \cup {None}, NEW w \in BOOLEAN, RV_file_open(f, w)
        PROVE  FileChange
    BY <2>2 DEF RV_file_open, FileChange
  <2>3. ASSUME NEW o \in Slot, RV_file_specific(o) PROVE FileChange
    <3>1. file[o] \in File \cup {None} /\ writable[o] \in BOOLEAN
      BY DEF Inv, TypeOK
    <3> QED
      BY <2>2, <2>3, <3>1 DEF RV_file_specific
  <2> QED
    BY <1>1, <2>1, <2>2, <2>3 DEF FileStep, FileChange
<1>2. CASE ObjectStep
  <2>1. 0 \in Extent
    BY ExtentAssumption DEF Extent
  <2>2. ASSUME NEW d \in Slot, NEW u \in Uri, NEW n \in Extent, Created(d, u, n)
        PROVE  ObjectChange
    BY <2>2 DEF Created, ObjectChange
  <2>3. ASSUME NEW d \in Slot, NEW u \in Uri, Opened(d, u)
        PROVE  ObjectChange
    BY <2>3 DEF Opened, ObjectChange
  <2>4. PICK d \in Slot, u \in Uri : (\E n \in Extent : Created(d, u, n)) \/ Opened(d, u)
    BY <1>2, <2>1 DEF ObjectStep, RV_group_create, RV_datatype_commit, RV_dataset_create,
       RV_object_open, RV_group_open, RV_dataset_open, RV_datatype_open
  <2> QED
    BY <2>2, <2>3, <2>4
<1>3. CASE AttrStep
  BY <1>3 DEF AttrStep, AttrChange, RV_attr_create, RV_attr_open
<1>4. CASE HandleStep
  BY <1>4 DEF HandleStep, HandleChange, RV_group_close, RV_dataset_close,
     RV_datatype_close, RV_attr_close, RV_attr_specific, RV_object_specific,
     RV_dataset_specific
<1> QED
  BY <1>1, <1>2, <1>3, <1>4 DEF Next

-----------------------------------------------------------------------------
(* The invariant. *)

\* Nothing is open at first.
LEMMA InitInv == Init => Inv
<1> SUFFICES ASSUME Init PROVE Inv
  OBVIOUS
<1>1. TypeOK
  BY ExtentAssumption DEF Init, TypeOK, Extent
<1>2. DomainCounts
  <2>1. ASSUME NEW d \in Slot PROVE Users(d) = {}
    BY NoneAssumption DEF Init, Users
  <2> QED
    BY <2>1, FS_EmptySet DEF Init, DomainCounts
<1>3. SpaceCounts
  <2>1. ASSUME NEW s \in Space PROVE {h \in Handle : space[h] = s} = {}
    BY NoneAssumption DEF Init
  <2> QED
    BY <2>1, FS_EmptySet DEF Init, SpaceCounts, IsOpen
<1>4. RegistryLive /\ RightDomain
  BY DEF Init, RegistryLive, RightDomain, IsOpen
<1> QED
  BY <1>1, <1>2, <1>3, <1>4 DEF Inv

\* Every handler of the connector keeps the invariant.
LEMMA NextInv == Inv /\ [Next]_vars => Inv'
<1> SUFFICES ASSUME Inv, [Next]_vars PROVE Inv'
  OBVIOUS
<1>1. CASE FileChange
  BY <1>1, FileOpenStep, FileCloseStep DEF FileChange
<1>2. CASE ObjectChange
  <2>1. PICK d \in Slot, u \in Uri :
          \/ \E n \in Extent : CreateFails(d, u, n)
          \/ OpenFails(d, u)
          \/ \E h \in Handle : \/ \E n \in Extent : Create(d, h, u, n)
                               \/ OpenHere(d, h, u)
                               \/ \E e \in Slot : OpenExternal(d, e, h, u)
    BY <1>2 DEF ObjectChange
  <2> QED
    BY <2>1, CreateFailsStep, OpenFailsStep, CreateStep, OpenHereStep, OpenExternalStep
<1>3. CASE AttrChange
  BY <1>3, AttrOpenStep, AttrFailsStep DEF AttrChange
<1>4. CASE HandleChange
  BY <1>4, CloseStep, CopyForCallbackStep, SetExtentStep DEF HandleChange
<1>5. CASE UNCHANGED vars
  <2>1. ServerType /\ spaceExtent' \in [Space -> Extent]
    BY <1>5 DEF vars, Inv, TypeOK, ServerType
  <2> QED
    BY <1>5, <2>1, SameObjects DEF vars, domains
<1> QED
  BY <1>1, <1>2, <1>3, <1>4, <1>5, NextChanges

\* The conjunction of the four safety properties and the types is inductive: each
\* handler needs all of it (a shared dataspace must belong to an open view, which
\* must be of the file its struct names, which must still be allocated).
THEOREM Invariance == Spec => []Inv
<1> QED
  BY InitInv, NextInv, PTL DEF Spec

\* Every variable keeps its type, through every handler of the connector's
\* open, create, close and resize calls.
THEOREM TypeCorrect == Spec => []TypeOK
<1>1. Inv => TypeOK
  BY DEF Inv
<1> QED
  BY Invariance, <1>1, PTL

\* u.file.ref_count is the number of users of a file struct, for any number of
\* objects, files and external links, in every order of opens, failures and closes.
THEOREM CountsExact == Spec => []DomainCounts
<1>1. Inv => DomainCounts
  BY DEF Inv
<1> QED
  BY Invariance, <1>1, PTL

\* A dataspace id is closed exactly with the last view of the one dataset it
\* belongs to (H5Iinc_ref in RV_dataset_open, H5Sclose in RV_dataset_close).
THEOREM SpacesExact == Spec => []SpaceCounts
<1>1. Inv => SpaceCounts
  BY DEF Inv
<1> QED
  BY Invariance, <1>1, PTL

\* The lookup in RV_dataset_open never yields a struct that was freed.
THEOREM LookupSafe == Spec => []RegistryLive
<1>1. Inv => RegistryLive
  BY DEF Inv
<1> QED
  BY Invariance, <1>1, PTL

\* An open object's domain names the file it lives in.
THEOREM DomainCorrect == Spec => []RightDomain
<1>1. Inv => RightDomain
  BY DEF Inv
<1> QED
  BY Invariance, <1>1, PTL

-----------------------------------------------------------------------------
(* The file structs implement RVLifetime. *)

Alive == {d \in Slot : refs[d] > 0}
Held  == [d \in Slot |-> Users(d)]

\* ref_count++ on a struct in use is a Join of RVLifetime.
LEMMA JoinMaps ==
  ASSUME Inv, NEW d \in Slot, NEW x \in Handle \cup {AppFile}, Joins(d, x), refs[d] # 0
  PROVE  Lifetime!Next
<1>1. d \in Alive /\ x \notin Held[d]
  BY DEF Alive, Held, Joins, Inv, TypeOK
<1>2. Held' = [Held EXCEPT ![d] = @ \cup {x}]
  BY DEF Held, Joins
<1>3. Alive' = Alive
  BY DEF Alive, Joins, Inv, TypeOK
<1>4. Lifetime!Join(d, x)
  BY <1>1, <1>2, <1>3 DEF Lifetime!Join, Alive, Held
<1> QED
  BY <1>4 DEF Lifetime!Next

\* RV_malloc of a struct with its first user is a Start of RVLifetime.
LEMMA StartMaps ==
  ASSUME Inv, NEW d \in Slot, NEW x \in Handle \cup {AppFile}, Joins(d, x), refs[d] = 0
  PROVE  Lifetime!Next
<1>1. d \notin Alive
  BY DEF Alive
<1>2. Held' = [Held EXCEPT ![d] = {x}]
  <2>1. Users(d) = {}
    BY CountMeaning DEF Inv
  <2> QED
    BY <2>1 DEF Held, Joins
<1>3. Alive' = Alive \cup {d}
  BY DEF Alive, Joins, Inv, TypeOK
<1>4. Lifetime!Start(d, x)
  BY <1>1, <1>2, <1>3 DEF Lifetime!Start, Alive, Held
<1> QED
  BY <1>4 DEF Lifetime!Next

\* RV_file_close with a user leaving is a Leave of RVLifetime.
LEMMA LeaveMaps ==
  ASSUME Inv, NEW d \in Slot, NEW x \in Handle \cup {AppFile}, Leaves(d, x)
  PROVE  Lifetime!Next
<1>1. x \in Held[d]
  BY DEF Held, Leaves
<1>2. Held' = [Held EXCEPT ![d] = @ \ {x}]
  BY DEF Held, Leaves
<1>3. refs[d] \in Nat /\ refs[d] >= 1
  BY UsersCounted DEF Inv, Leaves
<1>4. refs[d] = 1 <=> Held[d] = {x}
  BY CountMeaning DEF Inv, Leaves, Held
<1>5. Alive' = IF refs[d] = 1 THEN Alive \ {d} ELSE Alive
  BY <1>3 DEF Alive, Leaves, Inv, TypeOK
<1>6. Lifetime!Leave(d, x)
  BY <1>1, <1>2, <1>4, <1>5 DEF Lifetime!Leave, Alive, Held
<1> QED
  BY <1>6 DEF Lifetime!Next

\* A call that leaves counts and domains alone is a stuttering step of RVLifetime.
LEMMA SameMaps ==
  ASSUME UNCHANGED <<refs, held, domain>>
  PROVE  UNCHANGED Lifetime!vars
BY DEF Lifetime!vars, Users

\* The struct of a location has a user: what the location itself counts for.
LEMMA LocationUsed ==
  ASSUME Inv, NEW d \in Slot, Location(d) \/ AttrLocation(d)
  PROVE  refs[d] # 0
<1>1. Users(d) # {}
  BY DEF Location, AttrLocation, Users
<1> QED
  BY <1>1, CountMeaning DEF Inv

\* Every handler of the connector is a step of RVLifetime, or a stuttering step.
LEMMA StepMaps ==
  ASSUME Inv, [Next]_vars
  PROVE  [Lifetime!Next]_(Lifetime!vars)
<1>1. ASSUME NEW d \in Slot, NEW f \in File \cup {None}, NEW w \in BOOLEAN,
             FileOpen(d, f, w)
      PROVE  Lifetime!Next
  <2>1. Joins(d, AppFile) /\ refs[d] = 0
    BY <1>1, FileOpenStep DEF FileOpen, Allocate
  <2> QED
    BY <2>1, StartMaps
<1>2. ASSUME NEW d \in Slot, FileClose(d)
      PROVE  Lifetime!Next
  BY <1>2, FileCloseStep, LeaveMaps
<1>3. ASSUME NEW d \in Slot, NEW u \in Uri, NEW n \in Extent,
             CreateFails(d, u, n) \/ OpenFails(d, u)
      PROVE  UNCHANGED Lifetime!vars
  BY <1>3, SameMaps DEF CreateFails, OpenFails, domains
<1>4. ASSUME NEW d \in Slot, NEW u \in Uri, NEW h \in Handle, NEW n \in Extent,
             Create(d, h, u, n) \/ OpenHere(d, h, u)
      PROVE  Lifetime!Next
  <2>1. refs[d] # 0
    BY <1>4, LocationUsed DEF Create, OpenHere
  <2>2. PICK k : Bind(h, k, d) /\ held' = held /\ refs' = [refs EXCEPT ![d] = @ + 1]
    BY <1>4 DEF Create, OpenHere, Acquire
  <2>3. Joins(d, h)
    BY <2>2, BindJoins DEF Inv
  <2> QED
    BY <2>1, <2>3, JoinMaps
<1>5. ASSUME NEW d \in Slot, NEW e \in Slot, NEW u \in Uri, NEW h \in Handle,
             OpenExternal(d, e, h, u)
      PROVE  Lifetime!Next
  <2>1. /\ Bind(h, u, e) /\ held' = held
        /\ refs[e] = 0 /\ refs' = [refs EXCEPT ![e] = @ + 1]
    BY <1>5 DEF OpenExternal, Allocate, Inv, TypeOK
  <2>2. Joins(e, h)
    BY <2>1, BindJoins DEF Inv
  <2> QED
    BY <2>1, <2>2, StartMaps
<1>6. ASSUME NEW d \in Slot, NEW h \in Handle, AttrOpen(d, h)
      PROVE  Lifetime!Next
  <2>1. refs[d] # 0 /\ Joins(d, h)
    BY <1>6, LocationUsed, BindJoins DEF AttrOpen, Acquire, Inv
  <2> QED
    BY <2>1, JoinMaps
<1>7. ASSUME NEW h \in Handle, Close(h)
      PROVE  Lifetime!Next
  BY <1>7, UnbindLeaves, LeaveMaps DEF Close, Drop, Inv
<1>8. ASSUME NEW h \in Handle, NEW c \in Handle, CopyForCallback(h, c)
      PROVE  Lifetime!Next
  <2>1. domain[h] \in Slot /\ Joins(domain[h], c)
    BY <1>8, BindJoins DEF CopyForCallback, Acquire, Inv, TypeOK, IsOpen
  <2>2. refs[domain[h]] # 0
    <3>1. h \in Users(domain[h])
      BY DEF Users
    <3> QED
      BY <2>1, <3>1, CountMeaning DEF Inv
  <2> QED
    BY <2>1, <2>2, JoinMaps
<1>9. ASSUME NEW h \in Handle, NEW n \in Extent, SetExtent(h, n) \/ SetExtentFails(h, n)
      PROVE  UNCHANGED Lifetime!vars
  BY <1>9, SameMaps DEF SetExtent, SetExtentFails, domains
<1>10. CASE FileChange
  BY <1>10, <1>1, <1>2 DEF FileChange
<1>11. CASE ObjectChange
  <2>1. PICK d \in Slot, u \in Uri :
          \/ \E n \in Extent : CreateFails(d, u, n)
          \/ OpenFails(d, u)
          \/ \E h \in Handle : \/ \E n \in Extent : Create(d, h, u, n)
                               \/ OpenHere(d, h, u)
                               \/ \E e \in Slot : OpenExternal(d, e, h, u)
    BY <1>11 DEF ObjectChange
  <2>2. 0 \in Extent
    BY ExtentAssumption DEF Extent
  <2> QED
    BY <2>1, <2>2, <1>3, <1>4, <1>5
<1>12. CASE AttrChange
  <2>1. PICK d \in Slot : AttrFails(d) \/ \E h \in Handle : AttrOpen(d, h)
    BY <1>12 DEF AttrChange
  <2>2. AttrFails(d) => UNCHANGED Lifetime!vars
    BY SameMaps DEF AttrFails, domains
  <2> QED
    BY <2>1, <2>2, <1>6
<1>13. CASE HandleChange
  BY <1>13, <1>7, <1>8, <1>9 DEF HandleChange
<1>14. CASE UNCHANGED vars
  BY <1>14, SameMaps DEF vars
<1> QED
  BY <1>10, <1>11, <1>12, <1>13, <1>14, NextChanges

\* The connector's reference counting implements RVLifetime: no call order frees
\* a file struct under an object, or keeps one without users.
THEOREM Refinement == Spec => LifetimeSpec
<1>1. Init => Lifetime!Init
  <2> SUFFICES ASSUME Init PROVE Lifetime!Init
    OBVIOUS
  <2>1. \A d \in Slot : Users(d) = {}
    BY NoneAssumption DEF Init, Users
  <2> QED
    BY <2>1 DEF Init, Lifetime!Init
<1>2. Inv /\ [Next]_vars => [Lifetime!Next]_(Lifetime!vars)
  BY StepMaps
<1> QED
  BY <1>1, <1>2, Invariance, PTL DEF Spec, LifetimeSpec, Lifetime!Spec

-----------------------------------------------------------------------------
(***************************************************************************)
(* RVHashTable: the chained hash table, for any keys, any hash function and *)
(* any list of primes, and that it implements RVMap.                       *)
(***************************************************************************)

(* Sequences. *)

LEMMA Members ==
  ASSUME NEW S, NEW s \in Seq(S)
  PROVE  Len(s) \in Nat /\ DOMAIN s = 1 .. Len(s) /\ \A p \in DOMAIN s : s[p] \in S
OBVIOUS

LEMMA Removed ==
  ASSUME NEW S, NEW s \in Seq(S), NEW p \in DOMAIN s
  PROVE  /\ RemoveAt(s, p) \in Seq(S) /\ Len(RemoveAt(s, p)) = Len(s) - 1
         /\ \A i \in 1 .. Len(s) - 1 : RemoveAt(s, p)[i] = IF i < p THEN s[i] ELSE s[i + 1]
<1> DEFINE u == SubSeq(s, 1, p - 1)
           v == SubSeq(s, p + 1, Len(s))
<1>1. Len(s) \in Nat /\ p \in 1 .. Len(s) /\ \A i \in 1 .. Len(s) : s[i] \in S
  OBVIOUS
<1>2. u \in Seq(S) /\ Len(u) = p - 1 /\ \A i \in 1 .. p - 1 : u[i] = s[i]
  BY <1>1
<1>3. v \in Seq(S) /\ Len(v) = Len(s) - p /\ \A i \in 1 .. Len(s) - p : v[i] = s[p + i]
  BY <1>1
<1> HIDE DEF u, v
<1>4. u \o v \in Seq(S) /\ Len(u \o v) = Len(s) - 1
  BY <1>1, <1>2, <1>3
<1>5. ASSUME NEW i \in 1 .. Len(s) - 1 PROVE (u \o v)[i] = IF i < p THEN s[i] ELSE s[i + 1]
  <2>1. CASE i < p
    <3>1. (u \o v)[i] = u[i]
      BY <1>1, <1>2, <1>3, <2>1
    <3>2. i \in 1 .. p - 1
      BY <1>1, <2>1
    <3>3. u[i] = s[i]
      BY <1>2, <3>2
    <3> QED
      BY <2>1, <3>1, <3>3
  <2>2. CASE i >= p
    <3>1. (u \o v)[i] = v[i - (p - 1)]
      BY SMTT(30), <1>1, <1>2, <1>3, <2>2
    <3>2. i - (p - 1) \in 1 .. Len(s) - p /\ p + (i - (p - 1)) = i + 1
      BY <1>1, <2>2
    <3> QED
      BY SMTT(30), <1>1, <1>3, <2>2, <3>1, <3>2
  <2>3. i < p \/ i >= p
    BY <1>1
  <2> QED
    BY <2>1, <2>2, <2>3, Zenon
<1> QED
  BY <1>4, <1>5 DEF RemoveAt, u, v

-----------------------------------------------------------------------------
(* Chains. *)

Items(c) == {c[p] : p \in DOMAIN c}

\* What a chain of a table of n chains holds: entries that hash to i, one for each key.
ChainSound(c, n, i) ==
  /\ c \in Seq(Entry)
  /\ \A p \in DOMAIN c : HashOf[c[p].key] % n = i /\ c[p].keyOf = c[p].val
  /\ \A p, q \in DOMAIN c : c[p].key = c[q].key => p = q

\* Function u is f, but for e at i.
Changed(u, f, i, e) == DOMAIN u = DOMAIN f /\ u[i] = e /\ \A j \in DOMAIN f : j # i => u[j] = f[j]

\* A walk finds the entry of the key, if there is one.
LEMMA WalkIs ==
  ASSUME NEW c, NEW n, NEW i, ChainSound(c, n, i), NEW k
  PROVE  /\ \A p \in DOMAIN c : c[p].key = k => Walk(c, k) = p
         /\ Walk(c, k) # 0 => Walk(c, k) \in DOMAIN c /\ c[Walk(c, k)].key = k
         /\ Walk(c, k) = 0 <=> \A p \in DOMAIN c : c[p].key # k
<1>1. Len(c) \in Nat /\ DOMAIN c = 1 .. Len(c)
  BY Members DEF ChainSound
<1>2. CASE \A p \in DOMAIN c : c[p].key # k
  BY <1>2 DEF Walk
<1>3. CASE \E p \in DOMAIN c : c[p].key = k
  <2> PICK p \in DOMAIN c : c[p].key = k
    BY <1>3
  <2>1. \A q \in DOMAIN c : c[q].key = k => q = p
    BY DEF ChainSound
  <2>2. \A q \in 1 .. (p - 1) : q \in DOMAIN c /\ q # p
    BY <1>1
  <2>3. \A q \in 1 .. (p - 1) : c[q].key # k
    BY <2>1, <2>2
  <2>4. Walk(c, k) = CHOOSE r \in DOMAIN c : c[r].key = k /\ \A q \in 1 .. (r - 1) : c[q].key # k
    BY <1>3 DEF Walk
  <2>5. Walk(c, k) = p
    BY <2>1, <2>3, <2>4
  <2>6. p # 0
    BY <1>1
  <2> QED
    BY <2>1, <2>5, <2>6
<1> QED
  BY <1>2, <1>3

LEMMA Linked ==
  ASSUME NEW c, NEW n, NEW i, ChainSound(c, n, i),
         NEW e \in Entry, HashOf[e.key] % n = i, e.keyOf = e.val, \A p \in DOMAIN c : c[p].key # e.key
  PROVE  ChainSound(Cons(e, c), n, i) /\ Items(Cons(e, c)) = Items(c) \cup {e}
<1> DEFINE d == Cons(e, c)
<1>1. Len(c) \in Nat /\ DOMAIN c = 1 .. Len(c) /\ c \in Seq(Entry)
  BY Members DEF ChainSound
<1>2. /\ d \in Seq(Entry) /\ Len(d) = Len(c) + 1 /\ d[1] = e
      /\ \A p \in 1 .. Len(c) : d[p + 1] = c[p]
  BY <1>1 DEF Cons
<1>3. DOMAIN d = 1 .. (Len(c) + 1)
  BY <1>1, <1>2
<1> HIDE DEF d
<1>4. \A p \in DOMAIN d : p = 1 \/ (p - 1 \in DOMAIN c /\ d[p] = c[p - 1])
  <2> TAKE p \in DOMAIN d
  <2>1. p = 1 \/ (p - 1 \in 1 .. Len(c) /\ (p - 1) + 1 = p)
    BY <1>1, <1>3
  <2> QED
    BY <1>1, <1>2, <2>1
<1>5. \A p \in DOMAIN d : HashOf[d[p].key] % n = i /\ d[p].keyOf = d[p].val
  BY <1>2, <1>4 DEF ChainSound
<1>6. \A p, q \in DOMAIN d : d[p].key = d[q].key => p = q
  <2> SUFFICES ASSUME NEW p \in DOMAIN d, NEW q \in DOMAIN d, d[p].key = d[q].key PROVE p = q
    OBVIOUS
  <2>1. CASE p = 1 \/ q = 1
    BY <1>2, <1>4, <2>1
  <2>2. CASE p # 1 /\ q # 1
    <3>1. p - 1 = q - 1
      BY <1>4, <2>2 DEF ChainSound
    <3> QED
      BY <1>1, <1>3, <3>1
  <2> QED
    BY <2>1, <2>2
<1>7. Items(d) = Items(c) \cup {e}
  <2>1. Items(d) \subseteq Items(c) \cup {e}
    BY <1>2, <1>4 DEF Items
  <2>2. e \in Items(d)
    BY <1>1, <1>2, <1>3 DEF Items
  <2>3. ASSUME NEW p \in DOMAIN c PROVE c[p] \in Items(d)
    <3>1. p + 1 \in DOMAIN d
      BY <1>1, <1>3
    <3> QED
      BY <1>1, <1>2, <3>1 DEF Items
  <2> QED
    BY <2>1, <2>2, <2>3 DEF Items
<1> QED
  BY <1>2, <1>5, <1>6, <1>7 DEF ChainSound, d

LEMMA Replaced ==
  ASSUME NEW c, NEW n, NEW i, ChainSound(c, n, i), NEW p \in DOMAIN c,
         NEW e \in Entry, e.key = c[p].key, e.keyOf = e.val,
         NEW d \in Seq(Entry), Changed(d, c, p, e)
  PROVE  ChainSound(d, n, i) /\ Items(d) = (Items(c) \ {c[p]}) \cup {e}
<1>1. Len(c) \in Nat /\ DOMAIN c = 1 .. Len(c) /\ c \in Seq(Entry)
  BY Members DEF ChainSound
<1>2. d \in Seq(Entry) /\ DOMAIN d = DOMAIN c /\ d[p] = e /\ \A q \in DOMAIN c : q # p => d[q] = c[q]
  BY DEF Changed
<1>3. ChainSound(d, n, i)
  BY <1>2 DEF ChainSound
<1>4. Items(d) = (Items(c) \ {c[p]}) \cup {e}
  <2>1. \A q \in DOMAIN c : q # p => c[q] # c[p]
    BY DEF ChainSound
  <2> QED
    BY <1>2, <2>1 DEF Items
<1> QED
  BY <1>3, <1>4

LEMMA Unlinked ==
  ASSUME NEW c, NEW n, NEW i, ChainSound(c, n, i), NEW p \in DOMAIN c
  PROVE  ChainSound(RemoveAt(c, p), n, i) /\ Items(RemoveAt(c, p)) = Items(c) \ {c[p]}
<1> DEFINE d == RemoveAt(c, p)
           old(q) == IF q < p THEN q ELSE q + 1
<1>1. Len(c) \in Nat /\ DOMAIN c = 1 .. Len(c) /\ c \in Seq(Entry)
  BY Members DEF ChainSound
<1>2. d \in Seq(Entry) /\ DOMAIN d = 1 .. (Len(c) - 1) /\ \A q \in DOMAIN d : d[q] = c[old(q)]
  <2>1. /\ d \in Seq(Entry) /\ Len(d) = Len(c) - 1
        /\ \A q \in 1 .. Len(c) - 1 : d[q] = IF q < p THEN c[q] ELSE c[q + 1]
    BY <1>1, Removed
  <2> HIDE DEF d
  <2>2. DOMAIN d = 1 .. (Len(c) - 1)
    BY <2>1
  <2>3. ASSUME NEW q \in DOMAIN d PROVE d[q] = c[old(q)]
    BY <2>1, <2>2
  <2> QED
    BY <2>1, <2>2, <2>3
<1> HIDE DEF d
<1>3. \A q \in DOMAIN d : old(q) \in DOMAIN c /\ old(q) # p /\ \A r \in DOMAIN d : old(q) = old(r) => q = r
  BY <1>1, <1>2
<1>4. \A q \in DOMAIN c : q # p => \E r \in DOMAIN d : q = old(r)
  <2> SUFFICES ASSUME NEW q \in DOMAIN c, q # p PROVE \E r \in DOMAIN d : q = old(r)
    OBVIOUS
  <2>1. CASE q < p
    BY <1>1, <1>2, <2>1
  <2>2. CASE q > p
    <3>1. q - 1 \in DOMAIN d /\ old(q - 1) = q
      BY <1>1, <1>2, <2>2
    <3> QED
      BY <3>1
  <2> QED
    BY <1>1, <2>1, <2>2
<1> HIDE DEF old
<1>5. ChainSound(d, n, i)
  <2>1. \A q \in DOMAIN d : HashOf[d[q].key] % n = i /\ d[q].keyOf = d[q].val
    BY <1>2, <1>3 DEF ChainSound
  <2>2. \A q, r \in DOMAIN d : d[q].key = d[r].key => q = r
    BY <1>2, <1>3 DEF ChainSound
  <2> QED
    BY <1>2, <2>1, <2>2 DEF ChainSound
<1>6. Items(d) = Items(c) \ {c[p]}
  <2>1. \A q \in DOMAIN c : q # p => c[q] # c[p]
    BY DEF ChainSound
  <2>2. \A q \in DOMAIN d : d[q] \in Items(c) /\ d[q] # c[p]
    BY <1>2, <1>3, <2>1 DEF Items
  <2>3. \A q \in DOMAIN c : q # p => c[q] \in Items(d)
    BY <1>2, <1>4 DEF Items
  <2> QED
    BY <2>2, <2>3 DEF Items
<1> QED
  BY <1>5, <1>6 DEF d


-----------------------------------------------------------------------------
(* Tables. *)

EntriesOf(t) == UNION {Items(t[i]) : i \in DOMAIN t}

Sound(t, n) ==
  /\ n \in Nat \ {0} /\ DOMAIN t = 0 .. (n - 1)
  /\ \A i \in 0 .. (n - 1) : ChainSound(t[i], n, i)

\* What a lookup finds in a table of n chains.
LookupIn(t, n, k) ==
  LET c == t[HashOf[k] % n]
  IN IF Walk(c, k) = 0 THEN NoValue ELSE c[Walk(c, k)].val

LEMMA HashIs ==
  ASSUME NEW k \in Key, NEW n \in Nat \ {0}
  PROVE  HashOf[k] % n \in 0 .. (n - 1)
<1>1. HashOf[k] \in Nat
  BY HashAssumption
<1> QED
  BY <1>1

\* Entries are told apart by their keys, in the whole table.
LEMMA EntryIs ==
  ASSUME NEW t, NEW n, Sound(t, n), NEW e \in EntriesOf(t)
  PROVE  /\ e \in Entry /\ e.keyOf = e.val
         /\ HashOf[e.key] % n \in DOMAIN t /\ e \in Items(t[HashOf[e.key] % n])
         /\ \A d \in EntriesOf(t) : d.key = e.key => d = e
         /\ LookupIn(t, n, e.key) = e.val
<1>1. ASSUME NEW d \in EntriesOf(t)
      PROVE  /\ d \in Entry /\ d.keyOf = d.val
             /\ HashOf[d.key] % n \in DOMAIN t /\ d \in Items(t[HashOf[d.key] % n])
  <2>1. PICK i \in DOMAIN t : d \in Items(t[i])
    BY DEF EntriesOf
  <2>2. ChainSound(t[i], n, i)
    BY DEF Sound
  <2>3. PICK p \in DOMAIN t[i] : d = t[i][p]
    BY <2>1 DEF Items
  <2>4. d \in Entry
    BY <2>2, <2>3, Members DEF ChainSound
  <2> QED
    BY <2>1, <2>2, <2>3, <2>4 DEF ChainSound
<1> DEFINE i == HashOf[e.key] % n
           c == t[i]
<1>2. i \in DOMAIN t /\ e \in Items(c) /\ ChainSound(c, n, i)
  BY <1>1 DEF Sound
<1> HIDE DEF i, c
<1>3. PICK p \in DOMAIN c : e = c[p]
  BY <1>2 DEF Items
<1>4. ASSUME NEW d \in EntriesOf(t), d.key = e.key PROVE d = e
  <2>1. d \in Items(c)
    BY <1>1, <1>4 DEF c, i
  <2> QED
    BY <1>2, <1>3, <1>4, <2>1 DEF Items, ChainSound
<1>5. LookupIn(t, n, e.key) = e.val
  <2>1. Walk(c, e.key) = p /\ p # 0
    <3>1. Walk(c, e.key) = p
      BY <1>2, <1>3, WalkIs
    <3>2. p # 0
      BY <1>2, Members DEF ChainSound
    <3> QED
      BY <3>1, <3>2
  <2> QED
    BY <1>3, <2>1 DEF LookupIn, c, i
<1> QED
  BY <1>1, <1>4, <1>5

LEMMA NotThere ==
  ASSUME NEW t, NEW n, Sound(t, n), NEW k \in Key, \A e \in EntriesOf(t) : e.key # k
  PROVE  LookupIn(t, n, k) = NoValue /\ Walk(t[HashOf[k] % n], k) = 0
<1> DEFINE i == HashOf[k] % n
<1>1. i \in DOMAIN t /\ ChainSound(t[i], n, i)
  BY HashIs DEF Sound
<1>2. \A p \in DOMAIN t[i] : t[i][p].key # k
  BY <1>1 DEF EntriesOf, Items
<1>3. Walk(t[i], k) = 0
  BY <1>1, <1>2, WalkIs
<1> QED
  BY <1>3 DEF LookupIn

\* One chain is replaced by another.
LEMMA ChainReplaced ==
  ASSUME NEW t, NEW n, Sound(t, n), NEW i \in 0 .. (n - 1), NEW c, ChainSound(c, n, i),
         NEW u, Changed(u, t, i, c)
  PROVE  Sound(u, n) /\ EntriesOf(u) = (EntriesOf(t) \ Items(t[i])) \cup Items(c)
<1>1. DOMAIN u = DOMAIN t /\ DOMAIN t = 0 .. (n - 1) /\ u[i] = c /\ \A j \in 0 .. (n - 1) : j # i => u[j] = t[j]
  BY DEF Sound, Changed
<1>2. Sound(u, n)
  BY <1>1 DEF Sound
<1>3. ASSUME NEW j \in 0 .. (n - 1), j # i, NEW e \in Items(t[j]) PROVE e \notin Items(t[i])
  <2>1. \A k \in 0 .. (n - 1) : \A d \in Items(t[k]) : HashOf[d.key] % n = k
    BY SMTT(30) DEF Sound, ChainSound, Items
  <2> QED
    BY <1>3, <2>1
<1>4. EntriesOf(u) = (EntriesOf(t) \ Items(t[i])) \cup Items(c)
  <2>1. ASSUME NEW e \in EntriesOf(u) PROVE e \in (EntriesOf(t) \ Items(t[i])) \cup Items(c)
    <3>1. PICK j \in 0 .. (n - 1) : e \in Items(u[j])
      BY <1>1 DEF EntriesOf
    <3>2. CASE j = i
      BY <1>1, <3>1, <3>2
    <3>3. CASE j # i
      <4>1. e \in Items(t[j])
        BY <1>1, <3>1, <3>3
      <4> QED
        BY <1>1, <1>3, <3>3, <4>1 DEF EntriesOf
    <3> QED
      BY <3>2, <3>3
  <2>2. ASSUME NEW e \in EntriesOf(t), e \notin Items(t[i]) PROVE e \in EntriesOf(u)
    <3>1. PICK j \in 0 .. (n - 1) : e \in Items(t[j])
      BY <1>1 DEF EntriesOf
    <3>2. j # i
      BY <2>2, <3>1
    <3> QED
      BY <1>1, <3>1, <3>2 DEF EntriesOf
  <2>3. Items(c) \subseteq EntriesOf(u)
    BY <1>1 DEF EntriesOf
  <2> QED
    BY <2>1, <2>2, <2>3
<1> QED
  BY <1>2, <1>4


-----------------------------------------------------------------------------
(* Relinking. *)

\* Counted from the last back, each place of a finite set has its own number.
LEMMA FromLastIs ==
  ASSUME NEW S \in SUBSET (Nat \X Nat), IsFiniteSet(S)
  PROVE  /\ Cardinality(S) \in Nat
         /\ \A k \in 1 .. Cardinality(S) : FromLast(S, k) \in S
         /\ \A k, l \in 1 .. Cardinality(S) : FromLast(S, k) = FromLast(S, l) => k = l
         /\ \A x \in S : \E k \in 1 .. Cardinality(S) : FromLast(S, k) = x
<1> DEFINE from(x) == {y \in S : ~Before(y, x)}
           n == Cardinality(S)
           rank == [x \in S |-> Cardinality(from(x))]
<1>1. n \in Nat /\ IsFiniteSet(1 .. n) /\ Cardinality(1 .. n) = n
  BY FS_CardinalityType, FS_Interval
<1>2. \A x \in S : IsFiniteSet(from(x)) /\ from(x) \subseteq S /\ x \in from(x)
  <2> TAKE x \in S
  <2>1. ~Before(x, x)
    BY DEF Before
  <2> QED
    BY <2>1, FS_Subset
<1>3. \A x \in S : Cardinality(from(x)) \in 1 .. n
  <2> TAKE x \in S
  <2>1. Cardinality(from(x)) \in Nat /\ Cardinality(from(x)) <= n
    BY <1>2, FS_Subset, FS_CardinalityType
  <2>2. Cardinality(from(x)) # 0
    BY <1>2, FS_EmptySet
  <2> QED
    BY <1>1, <2>1, <2>2
<1>4. \A x, y \in S : Before(x, y) => Cardinality(from(x)) # Cardinality(from(y))
  <2> SUFFICES ASSUME NEW x \in S, NEW y \in S, Before(x, y)
               PROVE  Cardinality(from(x)) # Cardinality(from(y))
    OBVIOUS
  <2>1. \A z \in S : Before(z, x) => Before(z, y)
    BY DEF Before
  <2>2. from(y) \subseteq from(x) /\ x \in from(x) /\ x \notin from(y)
    BY <1>2, <2>1, Zenon
  <2> HIDE DEF from
  <2> QED
    BY <1>2, <2>2, FS_Subset
<1>5. \A x, y \in S : x = y \/ Before(x, y) \/ Before(y, x)
  <2> TAKE x, y \in S
  <2>1. x = <<x[1], x[2]>> /\ y = <<y[1], y[2]>> /\ x[1] \in Nat /\ x[2] \in Nat /\ y[1] \in Nat /\ y[2] \in Nat
    OBVIOUS
  <2> QED
    BY <2>1 DEF Before
<1> HIDE DEF from, n
<1>6. rank \in Injection(S, 1 .. n)
  <2>1. rank \in [S -> 1 .. n]
    BY <1>3
  <2>2. \A x, y \in S : rank[x] = rank[y] => x = y
    BY <1>4, <1>5
  <2> QED
    BY <2>1, <2>2 DEF Injection, IsInjective
<1>7. rank \in Surjection(S, 1 .. n)
  BY <1>1, <1>6, FS_Injection DEF n
<1>8. \A k \in 1 .. n : \E x \in S : Cardinality(from(x)) = k
  BY <1>7 DEF Surjection
<1>9. \A k \in 1 .. n : FromLast(S, k) \in S /\ Cardinality(from(FromLast(S, k))) = k
  BY <1>8 DEF FromLast, from
<1>10. \A x \in S : FromLast(S, Cardinality(from(x))) = x
  <2> TAKE x \in S
  <2>1. Cardinality(from(x)) \in 1 .. n
    BY <1>3
  <2> QED
    BY <1>4, <1>5, <1>9, <2>1
<1> QED
  BY <1>1, <1>3, <1>9, <1>10 DEF n

\* The places of a table are as many as its entries.
LEMMA PlacesAre ==
  ASSUME NEW t, NEW n, Sound(t, n)
  PROVE  /\ Places(t) \in SUBSET (Nat \X Nat)
         /\ \A x \in Places(t) : x[1] \in 0 .. (n - 1) /\ x[2] \in DOMAIN t[x[1]] /\ At(t, x) \in EntriesOf(t)
                                 /\ HashOf[At(t, x).key] % n = x[1]
         /\ \A x, y \in Places(t) : At(t, x).key = At(t, y).key => x = y
         /\ \A e \in EntriesOf(t) : \E x \in Places(t) : At(t, x) = e
         /\ IsFiniteSet(EntriesOf(t)) =>
              IsFiniteSet(Places(t)) /\ Cardinality(Places(t)) = Cardinality(EntriesOf(t))
<1>1. ASSUME NEW x \in Places(t)
      PROVE  /\ x = <<x[1], x[2]>> /\ x[1] \in 0 .. (n - 1) /\ x[2] \in DOMAIN t[x[1]] /\ x[2] \in Nat
             /\ At(t, x) \in EntriesOf(t) /\ HashOf[At(t, x).key] % n = x[1]
  <2>1. PICK i \in 0 .. (n - 1) : x \in {i} \X DOMAIN t[i]
    BY DEF Places, Sound
  <2>2. x = <<x[1], x[2]>> /\ x[1] = i /\ x[2] \in DOMAIN t[i]
    BY <2>1
  <2>3. ChainSound(t[i], n, i) /\ i \in DOMAIN t
    BY DEF Sound
  <2>4. x[2] \in Nat
    <3>1. DOMAIN t[i] = 1 .. Len(t[i]) /\ Len(t[i]) \in Nat
      BY <2>3, Members DEF ChainSound
    <3> QED
      BY <2>2, <3>1
  <2> QED
    BY <2>2, <2>3, <2>4 DEF At, EntriesOf, Items, ChainSound
<1>2. \A x, y \in Places(t) : At(t, x).key = At(t, y).key => x = y
  <2> SUFFICES ASSUME NEW x \in Places(t), NEW y \in Places(t), At(t, x).key = At(t, y).key PROVE x = y
    OBVIOUS
  <2>1. x[1] = y[1] /\ x[1] \in 0 .. (n - 1)
    BY <1>1
  <2>2. x[2] = y[2]
    BY <1>1, <2>1 DEF At, Sound, ChainSound
  <2> QED
    BY <1>1, <2>1, <2>2
<1>3. \A e \in EntriesOf(t) : \E x \in Places(t) : At(t, x) = e
  <2> TAKE e \in EntriesOf(t)
  <2>1. PICK i \in DOMAIN t : \E p \in DOMAIN t[i] : e = t[i][p]
    BY DEF EntriesOf, Items
  <2>2. PICK p \in DOMAIN t[i] : e = t[i][p]
    BY <2>1
  <2>3. <<i, p>> \in Places(t) /\ At(t, <<i, p>>) = e
    BY <2>2 DEF Places, At
  <2> QED
    BY <2>3
<1>4. ASSUME IsFiniteSet(EntriesOf(t))
      PROVE  IsFiniteSet(Places(t)) /\ Cardinality(Places(t)) = Cardinality(EntriesOf(t))
  <2> DEFINE f == [x \in Places(t) |-> At(t, x)]
  <2>1. f \in Injection(Places(t), EntriesOf(t))
    <3>1. f \in [Places(t) -> EntriesOf(t)]
      BY <1>1
    <3>2. \A x, y \in Places(t) : f[x] = f[y] => x = y
      BY <1>2
    <3> QED
      BY <3>1, <3>2 DEF Injection, IsInjective
  <2>2. f \in Surjection(Places(t), EntriesOf(t))
    <3>1. \A e \in EntriesOf(t) : \E x \in Places(t) : f[x] = e
      BY <1>3
    <3> QED
      BY <2>1, <3>1 DEF Injection, Surjection
  <2> HIDE DEF f
  <2>3. IsFiniteSet(Places(t))
    BY <1>4, <2>1, FS_Injection
  <2> QED
    BY <2>1, <2>2, <2>3, FS_Surjection
<1> QED
  BY <1>1, <1>2, <1>3, <1>4

\* Enlarging the table loses and doubles no entry, and puts each into its chain.
LEMMA RelinkedSound ==
  ASSUME NEW s, Sound(table, s), IsFiniteSet(EntriesOf(table)), NEW n \in Nat \ {0}
  PROVE  Sound(Relinked(n), n) /\ EntriesOf(Relinked(n)) = EntriesOf(table)
<1> DEFINE moved(i) == {x \in Places(table) : HashOf[At(table, x).key] % n = i}
           c(i) == [k \in 1 .. Cardinality(moved(i)) |-> At(table, FromLast(moved(i), k))]
           u == Relinked(n)
<1>1. /\ Places(table) \in SUBSET (Nat \X Nat) /\ IsFiniteSet(Places(table))
      /\ \A x \in Places(table) : At(table, x) \in EntriesOf(table)
      /\ \A x, y \in Places(table) : At(table, x).key = At(table, y).key => x = y
      /\ \A e \in EntriesOf(table) : \E x \in Places(table) : At(table, x) = e
  BY PlacesAre
<1>2. u = [i \in 0 .. n - 1 |-> c(i)]
  BY DEF Relinked
<1>3. DOMAIN u = 0 .. (n - 1) /\ \A i \in 0 .. (n - 1) : u[i] = c(i)
  BY <1>2
<1>4. ASSUME NEW i \in 0 .. (n - 1)
      PROVE  /\ Cardinality(moved(i)) \in Nat
             /\ \A k \in 1 .. Cardinality(moved(i)) : FromLast(moved(i), k) \in moved(i)
             /\ \A k, l \in 1 .. Cardinality(moved(i)) : FromLast(moved(i), k) = FromLast(moved(i), l) => k = l
             /\ \A x \in moved(i) : \E k \in 1 .. Cardinality(moved(i)) : FromLast(moved(i), k) = x
  <2> DEFINE m == moved(i)
  <2>1. m \subseteq Places(table) /\ IsFiniteSet(m) /\ m \in SUBSET (Nat \X Nat)
    BY <1>1, FS_Subset
  <2> HIDE DEF m
  <2>2. /\ Cardinality(m) \in Nat
        /\ \A k \in 1 .. Cardinality(m) : FromLast(m, k) \in m
        /\ \A k, l \in 1 .. Cardinality(m) : FromLast(m, k) = FromLast(m, l) => k = l
        /\ \A x \in m : \E k \in 1 .. Cardinality(m) : FromLast(m, k) = x
    BY <2>1, FromLastIs
  <2> QED
    BY <2>2 DEF m
<1>5. \A i : \A x \in moved(i) : x \in Places(table) /\ HashOf[At(table, x).key] % n = i
  OBVIOUS
<1>6. \A x \in Places(table) : x \in moved(HashOf[At(table, x).key] % n)
  OBVIOUS
<1> HIDE DEF moved, u
<1>7. ASSUME NEW i \in 0 .. (n - 1)
      PROVE  ChainSound(c(i), n, i) /\ Items(c(i)) = {At(table, x) : x \in moved(i)}
  <2>1. DOMAIN c(i) = 1 .. Cardinality(moved(i)) /\ \A k \in DOMAIN c(i) : c(i)[k] = At(table, FromLast(moved(i), k))
    OBVIOUS
  <2>2. ASSUME NEW k \in DOMAIN c(i)
        PROVE  /\ FromLast(moved(i), k) \in Places(table) /\ c(i)[k] = At(table, FromLast(moved(i), k))
               /\ c(i)[k] \in EntriesOf(table) /\ HashOf[c(i)[k].key] % n = i
    BY <1>1, <1>4, <1>5, <2>1
  <2>3. \A k \in DOMAIN c(i) : c(i)[k] \in Entry /\ c(i)[k].keyOf = c(i)[k].val
    BY <2>2, EntryIs
  <2>4. \A k, l \in DOMAIN c(i) : c(i)[k].key = c(i)[l].key => k = l
    <3> SUFFICES ASSUME NEW k \in DOMAIN c(i), NEW l \in DOMAIN c(i), c(i)[k].key = c(i)[l].key PROVE k = l
      OBVIOUS
    <3>1. FromLast(moved(i), k) = FromLast(moved(i), l)
      BY <1>1, <2>2
    <3> QED
      BY <1>4, <2>1, <3>1
  <2>5. c(i) \in Seq(Entry)
    BY <1>4, <2>1, <2>3
  <2>6. Items(c(i)) = {At(table, x) : x \in moved(i)}
    BY <1>4, <2>1 DEF Items
  <2> QED
    BY <2>2, <2>3, <2>4, <2>5, <2>6 DEF ChainSound
<1> HIDE DEF c
<1>8. Sound(u, n)
  BY <1>3, <1>7 DEF Sound
<1>9. EntriesOf(u) = EntriesOf(table)
  <2>1. EntriesOf(u) \subseteq EntriesOf(table)
    BY <1>1, <1>3, <1>5, <1>7 DEF EntriesOf
  <2>2. ASSUME NEW e \in EntriesOf(table) PROVE e \in EntriesOf(u)
    <3>1. PICK x \in Places(table) : At(table, x) = e
      BY <1>1
    <3> DEFINE i == HashOf[e.key] % n
    <3>2. e.key \in Key
      BY EntryIs DEF Entry
    <3>3. i \in 0 .. (n - 1)
      BY <3>2, HashIs
    <3>4. x \in moved(i)
      BY <1>6, <3>1
    <3> HIDE DEF i
    <3>5. e \in Items(u[i])
      BY <1>3, <1>7, <3>1, <3>3, <3>4
    <3> QED
      BY <1>3, <3>3, <3>5 DEF EntriesOf
  <2> QED
    BY <2>1, <2>2
<1> QED
  BY <1>8, <1>9 DEF u

-----------------------------------------------------------------------------
(* The order in which an iterator returns the keys. *)

\* The keys of a chain from position p on, and those of the chains from i on.
KeysFrom(c, p) == {c[q].key : q \in {q \in DOMAIN c : q >= p}}
KeysOfChains(t, i) == UNION {KeysFrom(t[j], 1) : j \in {j \in DOMAIN t : j >= i}}
RestOf(t, i, p) == KeysFrom(t[i], p) \cup KeysOfChains(t, i + 1)

LEMMA KeysAre ==
  ASSUME NEW t, NEW n, Sound(t, n)
  PROVE  /\ KeysOfChains(t, 0) = {e.key : e \in EntriesOf(t)}
         /\ KeysOfChains(t, 0) = {At(t, x).key : x \in Places(t)}
         /\ KeysOfChains(t, 0) \subseteq Key
         /\ KeysOfChains(t, n) = {}
         /\ \A i \in 0 .. (n - 1) : /\ KeysOfChains(t, i) = RestOf(t, i, 1)
                                    /\ \A p : RestOf(t, i, p) \subseteq KeysOfChains(t, 0)
<1>1. n \in Nat /\ DOMAIN t = 0 .. (n - 1)
  BY DEF Sound
<1>2. \A i \in 0 .. (n - 1) : KeysFrom(t[i], 1) = {e.key : e \in Items(t[i])}
  <2> TAKE i \in 0 .. (n - 1)
  <2>1. DOMAIN t[i] = 1 .. Len(t[i]) /\ Len(t[i]) \in Nat
    BY Members DEF Sound, ChainSound
  <2> QED
    BY <2>1 DEF KeysFrom, Items
<1>3. \A j \in DOMAIN t : j >= 0
  BY <1>1
<1>4. KeysOfChains(t, 0) = {e.key : e \in EntriesOf(t)}
  BY <1>1, <1>2, <1>3 DEF KeysOfChains, EntriesOf
<1>5. {At(t, x).key : x \in Places(t)} = {e.key : e \in EntriesOf(t)}
  <2>1. /\ \A x \in Places(t) : At(t, x) \in EntriesOf(t)
        /\ \A e \in EntriesOf(t) : \E x \in Places(t) : At(t, x) = e
    BY PlacesAre
  <2> QED
    BY <2>1
<1>6. KeysOfChains(t, 0) \subseteq Key
  <2>1. \A e \in EntriesOf(t) : e.key \in Key
    BY EntryIs DEF Entry
  <2> QED
    BY <1>4, <2>1
<1>7. KeysOfChains(t, n) = {}
  <2>1. \A j \in DOMAIN t : ~(j >= n)
    BY <1>1
  <2> QED
    BY <2>1 DEF KeysOfChains
<1>8. ASSUME NEW i \in 0 .. (n - 1)
      PROVE  KeysOfChains(t, i) = RestOf(t, i, 1) /\ \A p : RestOf(t, i, p) \subseteq KeysOfChains(t, 0)
  <2>1. \A j \in DOMAIN t : j >= i <=> j = i \/ j >= i + 1
    BY <1>1
  <2>2. KeysOfChains(t, i) = RestOf(t, i, 1)
    BY <1>1, <2>1 DEF KeysOfChains, RestOf
  <2>3. \A p : KeysFrom(t[i], p) \subseteq KeysFrom(t[i], 1)
    <3>1. DOMAIN t[i] = 1 .. Len(t[i]) /\ Len(t[i]) \in Nat
      BY Members DEF Sound, ChainSound
    <3> QED
      BY <3>1 DEF KeysFrom
  <2>4. KeysFrom(t[i], 1) \subseteq KeysOfChains(t, 0)
    BY <1>1, <1>3 DEF KeysOfChains
  <2>5. KeysOfChains(t, i + 1) \subseteq KeysOfChains(t, 0)
    BY <1>3 DEF KeysOfChains
  <2> QED
    BY <2>2, <2>3, <2>4, <2>5 DEF RestOf
<1> QED
  BY <1>4, <1>5, <1>6, <1>7, <1>8

\* What is left when the iterator passes the entry at position p of chain i.
LEMMA RestIs ==
  ASSUME NEW t, NEW n, Sound(t, n), NEW i \in 0 .. (n - 1), NEW p \in DOMAIN t[i]
  PROVE  LET left == IF p < Len(t[i]) THEN RestOf(t, i, p + 1) ELSE KeysOfChains(t, i + 1)
         IN RestOf(t, i, p) = {t[i][p].key} \cup left /\ t[i][p].key \notin left
<1> DEFINE c == t[i]
           k == c[p].key
<1>1. ChainSound(c, n, i) /\ n \in Nat /\ DOMAIN t = 0 .. (n - 1)
  BY DEF Sound
<1>2. DOMAIN c = 1 .. Len(c) /\ Len(c) \in Nat /\ p \in 1 .. Len(c)
  BY <1>1, Members DEF ChainSound
<1>3. k \notin KeysOfChains(t, i + 1)
  <2> SUFFICES ASSUME k \in KeysOfChains(t, i + 1) PROVE FALSE
    OBVIOUS
  <2>1. PICK j \in DOMAIN t : j >= i + 1 /\ \E q \in DOMAIN t[j] : k = t[j][q].key
    BY DEF KeysOfChains, KeysFrom
  <2>2. HashOf[k] % n = j
    BY <1>1, <2>1 DEF Sound, ChainSound
  <2>3. HashOf[k] % n = i
    BY <1>1 DEF ChainSound
  <2> QED
    BY <1>1, <2>1, <2>2, <2>3
<1> HIDE DEF c
<1>4. \A q \in DOMAIN c : q >= p <=> q = p \/ q >= p + 1
  BY <1>2
<1>5. KeysFrom(c, p) = {k} \cup KeysFrom(c, p + 1)
  BY <1>2, <1>4 DEF KeysFrom
<1>6. k \notin KeysFrom(c, p + 1)
  <2>1. \A q \in DOMAIN c : q >= p + 1 => q # p
    BY <1>2
  <2> QED
    BY <1>1, <1>2, <2>1 DEF KeysFrom, ChainSound
<1>7. ~(p < Len(c)) => KeysFrom(c, p + 1) = {}
  BY <1>2 DEF KeysFrom
<1> QED
  BY <1>3, <1>5, <1>6, <1>7 DEF RestOf, c

\* The head of every non-empty list of naturals in order.
LEMMA NatMin ==
  ASSUME NEW T, T \subseteq Nat, T # {}
  PROVE  \E x \in T : \A y \in T : x <= y
<1> DEFINE R == OpToRel(<, Nat)
<1>1. IsWellFoundedOn(R, Nat)
  BY NatLessThanWellFounded
<1>2. \A x, y \in Nat : y < x => <<y, x>> \in R
  BY DEF OpToRel
<1> HIDE DEF R
<1>3. PICK x \in T : \A y \in T : <<y, x>> \notin R
  BY <1>1, WFMin
<1>4. \A y \in T : ~(y < x)
  BY <1>2, <1>3
<1> QED
  BY <1>4

LEMMA SizeIs ==
  ASSUME NEW t, NEW n, Sound(t, n)
  PROVE  Cardinality(DOMAIN t) = n
<1>1. DOMAIN t = 0 .. (n - 1) /\ n \in Nat \ {0}
  BY DEF Sound
<1>2. Cardinality(0 .. (n - 1)) = n
  BY <1>1, FS_Interval
<1> QED
  BY <1>1, <1>2

\* The search for the next chain stops at the first one with entries, or past the last.
LEMMA NextChainIs ==
  ASSUME NEW n, Sound(table, n), NEW c \in 0 .. n
  PROVE  /\ NextChain(c) \in Nat
         /\ \/ HeadOf(NextChain(c)) = NoEntry /\ KeysOfChains(table, c) = {}
            \/ /\ NextChain(c) \in 0 .. (n - 1)
               /\ 1 \in DOMAIN table[NextChain(c)] /\ HeadOf(NextChain(c)) = table[NextChain(c)][1].key
               /\ KeysOfChains(table, c) = RestOf(table, NextChain(c), 1)
<1> DEFINE T == {i \in c .. n : i = n \/ table[i] # <<>>}
           i == NextChain(c)
<1>1. n \in Nat \ {0} /\ DOMAIN table = 0 .. (n - 1) /\ table_size = n
  BY SizeIs DEF Sound, table_size
<1>2. n \in T /\ T \subseteq Nat
  BY <1>1
<1>3. PICK m \in T : \A y \in T : m <= y
  BY <1>2, NatMin
<1>4. m \in c .. n /\ (m = n \/ table[m] # <<>>) /\ \A j \in c .. m - 1 : table[j] = <<>>
  <2>1. \A j \in c .. m - 1 : j \in c .. n /\ ~(m <= j)
    BY <1>1, <1>2, <1>3
  <2> QED
    BY <1>3, <2>1
<1>5. i \in c .. n /\ (i = n \/ table[i] # <<>>) /\ \A j \in c .. i - 1 : table[j] = <<>>
  BY <1>1, <1>4 DEF NextChain
<1> HIDE DEF i, T
<1>6. i \in Nat
  BY <1>1, <1>5
<1>7. KeysOfChains(table, c) = KeysOfChains(table, i)
  <2>1. \A j \in DOMAIN table : j >= c /\ ~(j >= i) => KeysFrom(table[j], 1) = {}
    <3> SUFFICES ASSUME NEW j \in DOMAIN table, j >= c, ~(j >= i) PROVE KeysFrom(table[j], 1) = {}
      OBVIOUS
    <3>1. j \in c .. i - 1
      BY <1>1, <1>5
    <3> QED
      BY <1>5, <3>1 DEF KeysFrom
  <2>2. \A j \in DOMAIN table : j >= i => j >= c
    BY <1>1, <1>5
  <2>3. KeysOfChains(table, i) \subseteq KeysOfChains(table, c)
    BY <2>2 DEF KeysOfChains
  <2>4. ASSUME NEW k \in KeysOfChains(table, c) PROVE k \in KeysOfChains(table, i)
    <3>1. PICK j \in DOMAIN table : j >= c /\ k \in KeysFrom(table[j], 1)
      BY DEF KeysOfChains
    <3>2. j >= i
      BY <2>1, <3>1
    <3> QED
      BY <3>1, <3>2 DEF KeysOfChains
  <2> QED
    BY <2>3, <2>4
<1>8. CASE i < n
  <2>1. i \in 0 .. (n - 1) /\ table[i] # <<>>
    BY <1>1, <1>5, <1>8
  <2>2. 1 \in DOMAIN table[i]
    BY <2>1 DEF Sound, ChainSound
  <2>3. KeysOfChains(table, i) = RestOf(table, i, 1)
    BY <2>1, KeysAre
  <2>4. HeadOf(i) = table[i][1].key
    BY <1>1, <1>8 DEF HeadOf
  <2> QED
    BY <1>7, <1>8, <1>6, <2>1, <2>2, <2>3, <2>4 DEF i
<1>9. CASE ~(i < n)
  <2>1. i = n
    BY <1>1, <1>5, <1>9
  <2> QED
    BY <1>1, <1>7, <1>9, <1>6, <2>1, KeysAre DEF HeadOf, i
<1> QED
  BY <1>8, <1>9

-----------------------------------------------------------------------------
(* The inductive invariant. *)

\* In table t of n chains, list index p and count m, every entry is in its chain and counted,
\* and the size is the prime of the index, as long as there is one.
Stored(t, n, p, m) ==
  /\ Sound(t, n)
  /\ IsFiniteSet(EntriesOf(t)) /\ m = Cardinality(EntriesOf(t))
  /\ p \in 0 .. MaxIndex
  /\ p < Len(Primes) => n = Primes[p + 1]

\* The iterator is at the entry with its key, and what it has not returned yet is from there on.
InPlace ==
  \/ iter.next = NoEntry /\ iter.seen = iter.all
  \/ /\ iter.chain \in 0 .. (table_size - 1)
     /\ \E p \in DOMAIN table[iter.chain] :
          /\ iter.next = table[iter.chain][p].key
          /\ iter.all = iter.seen \cup RestOf(table, iter.chain, p)
          /\ iter.seen \cap RestOf(table, iter.chain, p) = {}

IterType == [next : Key \cup {NoEntry}, chain : Nat, seen : SUBSET Key, all : SUBSET Key]

TableInv ==
  /\ Stored(table, table_size, prime_index, entries)
  /\ LoadBound
  /\ iter \in IterType
  /\ InPlace

(* The tables after each operation. *)

LEMMA PrimeIs ==
  ASSUME NEW i \in 1 .. Len(Primes)
  PROVE  Primes[i] \in Nat \ {0}
BY PrimesAssumption

\* Growing keeps the entries, and leaves room for one more.
LEMMA GrowIs ==
  ASSUME Stored(table, table_size, prime_index, entries), LoadBound, Grow.index <= MaxIndex
  PROVE  /\ Stored(Grow.chains, Grow.size, Grow.index, entries)
         /\ EntriesOf(Grow.chains) = EntriesOf(table)
         /\ 3 * entries < Grow.size
<1>1. /\ table_size \in Nat \ {0} /\ entries \in Nat /\ prime_index \in 0 .. MaxIndex
      /\ Sound(table, table_size) /\ IsFiniteSet(EntriesOf(table)) /\ entries = Cardinality(EntriesOf(table))
  BY FS_CardinalityType DEF Stored, Sound
<1> DEFINE s == table_size
           p == prime_index + 1
           n == SizeAt(p)
<1>2. CASE ~MustGrow
  <2>1. Grow.chains = table /\ Grow.size = s /\ Grow.index = prime_index
    BY <1>2 DEF Grow
  <2>2. 3 * entries < s
    <3>1. ~((entries * 3) \div s > 0)
      BY <1>2 DEF MustGrow
    <3> HIDE DEF s
    <3> QED
      BY <1>1, <3>1 DEF s
  <2> QED
    BY <2>1, <2>2
<1>3. CASE MustGrow
  <2>1. Grow.chains = Relinked(n) /\ Grow.size = n /\ Grow.index = p
    BY <1>3 DEF Grow
  <2>2. 3 * entries >= s
    <3>1. (entries * 3) \div s > 0
      BY <1>3 DEF MustGrow
    <3> HIDE DEF s
    <3> QED
      BY <1>1, <3>1 DEF s
  <2>3. p \in 0 .. MaxIndex
    BY <1>1, <2>1, BoundAssumption
  <2>4. n \in Nat \ {0} /\ 3 * entries < n /\ (p < Len(Primes) => n = Primes[p + 1])
    <3>1. CASE p < Len(Primes)
      <4>1. /\ Len(Primes) \in Nat /\ p \in 1 .. Len(Primes) - 1 /\ p + 1 \in 1 .. Len(Primes)
        BY <1>1, <3>1, PrimesAssumption
      <4>2. Primes[p] + 2 < Primes[p + 1] /\ s = Primes[p]
        <5>1. prime_index < Len(Primes)
          BY <1>1, <3>1, <4>1
        <5> QED
          BY <4>1, <5>1, PrimesAssumption DEF Stored
      <4>3. n = Primes[p + 1]
        BY <3>1 DEF SizeAt
      <4>4. Primes[p + 1] \in Nat \ {0}
        BY <4>1, PrimeIs
      <4>5. 3 * (entries - 1) < s
        BY DEF LoadBound
      <4> HIDE DEF n, s, p
      <4> QED
        BY <1>1, <4>2, <4>3, <4>4, <4>5 DEF s
    <3>2. CASE ~(p < Len(Primes))
      <4>1. n = entries * 10
        BY <3>2 DEF SizeAt
      <4> HIDE DEF n, s, p
      <4> QED
        BY <1>1, <2>2, <3>2, <4>1 DEF s
    <3> QED
      BY <3>1, <3>2
  <2> HIDE DEF n, p
  <2>5. Sound(Relinked(n), n) /\ EntriesOf(Relinked(n)) = EntriesOf(table)
    BY <1>1, <2>4, RelinkedSound
  <2> QED
    BY <1>1, <2>1, <2>3, <2>4, <2>5 DEF Stored
<1> QED
  BY <1>2, <1>3

New(k, v) == [key |-> k, val |-> v, keyOf |-> v]

LEMMA OverwriteIs ==
  ASSUME NEW x \in Entry, NEW v \in Value
  PROVE  Overwrite(x, x.key, v) = New(x.key, v)
<1> DEFINE y == Overwrite(x, x.key, v)
<1>1. y \in Entry /\ y.key = x.key /\ y.val = v /\ y.keyOf = v
  BY DEF Overwrite, Entry
<1> HIDE DEF y
<1>2. y = [key |-> y.key, val |-> y.val, keyOf |-> y.keyOf]
  BY <1>1 DEF Entry
<1> QED
  BY <1>1, <1>2 DEF New, y

\* Insertion replaces the entry of the key, or adds one.
LEMMA InsertIs ==
  ASSUME Stored(table, table_size, prime_index, entries), LoadBound,
         NEW k \in Key, NEW v \in Value, Insert(k, v)
  PROVE  /\ Stored(table', Grow.size, prime_index', entries')
         /\ 3 * (entries' - 1) < Grow.size
         /\ EntriesOf(table') = {d \in EntriesOf(table) : d.key # k} \cup {New(k, v)}
<1> DEFINE t == Grow.chains
           n == Grow.size
           i == HashOf[k] % n
           c == t[i]
           p == Walk(c, k)
           e == New(k, v)
           old == EntriesOf(table)
<1>1. Grow.index <= MaxIndex /\ prime_index' = Grow.index
  BY DEF Insert
<1>2. Stored(t, n, Grow.index, entries) /\ EntriesOf(t) = old /\ 3 * entries < n
  BY <1>1, GrowIs
<1>3. /\ p # 0 => table' = [t EXCEPT ![i][p] = Overwrite(@, k, v)] /\ entries' = entries
      /\ p = 0 => table' = [t EXCEPT ![i] = Cons(e, @)] /\ entries' = entries + 1
  BY DEF Insert, New
<1> HIDE DEF t, n
<1>4. /\ n \in Nat \ {0} /\ Sound(t, n) /\ i \in 0 .. (n - 1) /\ ChainSound(c, n, i)
      /\ DOMAIN t = 0 .. (n - 1) /\ IsFiniteSet(old) /\ entries = Cardinality(old) /\ entries \in Nat
  <2>1. Sound(t, n) /\ n \in Nat \ {0}
    BY <1>2 DEF Stored, Sound
  <2>2. i \in 0 .. (n - 1)
    BY <2>1, HashIs
  <2>3. ChainSound(t[i], n, i)
    BY <2>1, <2>2 DEF Sound
  <2> QED
    BY <1>2, <2>1, <2>2, <2>3, FS_CardinalityType DEF Stored, Sound
<1>5. e \in Entry /\ e.key = k /\ e.val = v /\ e.keyOf = v
  BY DEF New, Entry
<1>6. \A d \in old : d.key = k => d \in Items(c)
  BY <1>2, <1>4, EntryIs
<1> HIDE DEF e, i, c, old
<1>7. CASE p # 0
  <2>1. p \in DOMAIN c /\ c[p].key = k
    BY <1>4, <1>7, WalkIs
  <2> HIDE DEF p
  <2>2. c[p] \in old /\ \A d \in old : d.key = k <=> d = c[p]
    <3>1. c[p] \in EntriesOf(t)
      BY <1>4, <2>1 DEF EntriesOf, Items, c
    <3> QED
      BY <1>2, <1>4, <2>1, <3>1, EntryIs
  <2>3. Overwrite(c[p], k, v) = e
    <3>1. c[p] \in Entry
      BY <1>2, <1>4, <2>2, EntryIs DEF old
    <3> QED
      BY <2>1, <3>1, OverwriteIs DEF e
  <2> DEFINE d == [c EXCEPT ![p] = e]
  <2>4. table' = [t EXCEPT ![i] = d] /\ entries' = entries
    BY <1>3, <1>7, <2>3 DEF c, p
  <2>5. ChainSound(d, n, i) /\ Items(d) = (Items(c) \ {c[p]}) \cup {e}
    <3>1. e.key = c[p].key /\ e.keyOf = e.val /\ e \in Entry
      BY <1>5, <2>1
    <3>2. d \in Seq(Entry) /\ Changed(d, c, p, e)
      <4>1. c \in Seq(Entry)
        BY <1>4 DEF ChainSound
      <4> QED
        BY <2>1, <3>1, <4>1 DEF Changed
    <3> HIDE DEF d
    <3> QED
      BY <1>4, <2>1, <3>1, <3>2, Replaced
  <2> HIDE DEF d
  <2>6. Sound(table', n) /\ EntriesOf(table') = (old \ Items(c)) \cup Items(d)
    <3>1. Changed(table', t, i, d)
      BY <1>4, <2>4 DEF Changed
    <3>2. Sound(table', n) /\ EntriesOf(table') = (EntriesOf(t) \ Items(t[i])) \cup Items(d)
      BY <1>4, <2>5, <3>1, ChainReplaced
    <3> QED
      BY <1>2, <3>2 DEF c
  <2>7. Items(c) \subseteq old
    BY <1>2, <1>4 DEF EntriesOf, c
  <2>8. EntriesOf(table') = (old \ {c[p]}) \cup {e} /\ e \notin old \ {c[p]}
    <3>1. c[p] \in Items(c)
      BY <2>1 DEF Items
    <3> QED
      BY <1>5, <2>2, <2>5, <2>6, <2>7, <3>1
  <2>9. IsFiniteSet(EntriesOf(table')) /\ Cardinality(EntriesOf(table')) = entries
    <3>1. IsFiniteSet(old \ {c[p]}) /\ Cardinality(old \ {c[p]}) = entries - 1
      BY <1>4, <2>2, FS_RemoveElement
    <3>2. Cardinality((old \ {c[p]}) \cup {e}) = (entries - 1) + 1 /\ IsFiniteSet((old \ {c[p]}) \cup {e})
      BY <2>8, <3>1, FS_AddElement
    <3> QED
      BY <1>4, <2>8, <3>2
  <2>10. EntriesOf(table') = {x \in old : x.key # k} \cup {e}
    BY <2>2, <2>8
  <2>11. 3 * (entries' - 1) < n
    BY <1>2, <1>4, <2>4
  <2> QED
    BY <1>1, <1>2, <1>4, <2>4, <2>6, <2>9, <2>10, <2>11 DEF Stored, n, old, e
<1>8. CASE p = 0
  <2>1. \A q \in DOMAIN c : c[q].key # k
    BY <1>4, <1>8, WalkIs
  <2>2. \A d \in old : d.key # k
    BY <1>6, <2>1 DEF Items
  <2> DEFINE d == Cons(e, c)
  <2>3. table' = [t EXCEPT ![i] = d] /\ entries' = entries + 1
    BY <1>3, <1>8 DEF c, e, i, p
  <2>4. ChainSound(d, n, i) /\ Items(d) = Items(c) \cup {e}
    <3>1. HashOf[e.key] % n = i
      BY <1>5 DEF i
    <3> QED
      BY <1>4, <1>5, <2>1, <3>1, Linked
  <2> HIDE DEF d
  <2>5. Sound(table', n) /\ EntriesOf(table') = (old \ Items(c)) \cup Items(d)
    <3>1. Changed(table', t, i, d)
      BY <1>4, <2>3 DEF Changed
    <3>2. Sound(table', n) /\ EntriesOf(table') = (EntriesOf(t) \ Items(t[i])) \cup Items(d)
      BY <1>4, <2>4, <3>1, ChainReplaced
    <3> QED
      BY <1>2, <3>2 DEF c
  <2>6. EntriesOf(table') = old \cup {e} /\ e \notin old
    <3>1. Items(c) \subseteq old
      BY <1>2, <1>4 DEF EntriesOf, c
    <3> QED
      BY <1>5, <2>2, <2>4, <2>5, <3>1
  <2>7. IsFiniteSet(EntriesOf(table')) /\ Cardinality(EntriesOf(table')) = entries + 1
    BY <1>4, <2>6, FS_AddElement
  <2>8. EntriesOf(table') = {x \in old : x.key # k} \cup {e}
    BY <2>2, <2>6
  <2>9. 3 * (entries' - 1) < n
    BY <1>2, <1>4, <2>3
  <2> QED
    BY <1>1, <1>2, <2>3, <2>5, <2>7, <2>8, <2>9 DEF Stored, n, old, e
<1> QED
  BY <1>7, <1>8

\* Removal takes out the entry of the key.
LEMMA RemoveIs ==
  ASSUME Stored(table, table_size, prime_index, entries), NEW k \in Key, RemoveKey(k)
  PROVE  /\ Stored(table', table_size, prime_index', entries') /\ entries' = entries - 1
         /\ EntriesOf(table') = {d \in EntriesOf(table) : d.key # k}
         /\ Chain(k) \in 0 .. (table_size - 1)
         /\ PositionOf(k) \in DOMAIN table[Chain(k)] /\ table[Chain(k)][PositionOf(k)].key = k
         /\ table' = [table EXCEPT ![Chain(k)] = RemoveAt(@, PositionOf(k))]
<1> DEFINE n == table_size
           i == Chain(k)
           c == table[i]
           p == PositionOf(k)
           old == EntriesOf(table)
<1>1. /\ p # 0 /\ table' = [table EXCEPT ![i] = RemoveAt(c, p)]
      /\ entries' = entries - 1 /\ prime_index' = prime_index
  BY DEF RemoveKey
<1>2. Sound(table, n) /\ n \in Nat \ {0} /\ i = HashOf[k] % n /\ p = Walk(c, k)
  BY DEF Stored, Sound, Chain, PositionOf
<1> HIDE DEF n
<1>3. i \in 0 .. (n - 1) /\ ChainSound(c, n, i)
  <2>1. i \in 0 .. (n - 1)
    BY <1>2, HashIs
  <2> QED
    BY <1>2, <2>1 DEF Sound
<1>4. p \in DOMAIN c /\ c[p].key = k
  BY <1>1, <1>2, <1>3, WalkIs
<1> DEFINE d == RemoveAt(c, p)
<1>5. ChainSound(d, n, i) /\ Items(d) = Items(c) \ {c[p]}
  BY <1>3, <1>4, Unlinked
<1>6. table' = [table EXCEPT ![i] = d]
  BY <1>1
<1> HIDE DEF d, i, c, p, old
<1>7. Sound(table', n) /\ EntriesOf(table') = (old \ Items(c)) \cup Items(d)
  <2>1. Changed(table', table, i, d)
    BY <1>2, <1>3, <1>6 DEF Changed, Sound
  <2>2. Sound(table', n) /\ EntriesOf(table') = (EntriesOf(table) \ Items(table[i])) \cup Items(d)
    BY <1>2, <1>3, <1>5, <2>1, ChainReplaced
  <2> QED
    BY <2>2 DEF c, old
<1>8. c[p] \in old /\ \A x \in old : x.key = k <=> x = c[p]
  <2>1. c[p] \in EntriesOf(table)
    BY <1>2, <1>3, <1>4 DEF EntriesOf, Items, c, Sound
  <2> QED
    BY <1>2, <1>4, <2>1, EntryIs DEF old
<1>9. EntriesOf(table') = old \ {c[p]}
  <2>1. Items(c) \subseteq old /\ c[p] \in Items(c)
    BY <1>2, <1>3, <1>4 DEF EntriesOf, c, old, Sound, Items
  <2> QED
    BY <1>5, <1>7, <2>1
<1>10. IsFiniteSet(EntriesOf(table')) /\ Cardinality(EntriesOf(table')) = entries - 1
  <2>1. IsFiniteSet(old) /\ entries = Cardinality(old)
    BY DEF Stored, old
  <2> QED
    BY <1>8, <1>9, <2>1, FS_RemoveElement
<1>11. EntriesOf(table') = {x \in old : x.key # k}
  BY <1>8, <1>9
<1>12. Stored(table', n, prime_index', entries')
  BY <1>1, <1>7, <1>10 DEF Stored, n
<1> QED
  BY <1>1, <1>3, <1>4, <1>6, <1>11, <1>12 DEF n, i, c, p, d, old

(* The iterator. *)

LEMMA FreshIterator ==
  ASSUME iter' = NoIterator
  PROVE  iter' \in IterType /\ InPlace'
BY DEF NoIterator, IterType, InPlace

\* What the iterator has already returned can be removed under it.
LEMMA RemovedBehind ==
  ASSUME Stored(table, table_size, prime_index, entries), iter \in IterType, InPlace,
         NEW k \in Key, RemoveKey(k), k \in iter.seen
  PROVE  iter' = iter /\ InPlace'
<1> DEFINE n == table_size
           i == Chain(k)
           p == PositionOf(k)
           j == iter.chain
<1>1. iter' = iter
  BY DEF RemoveKey
<1>2. /\ Stored(table', n, prime_index', entries')
      /\ i \in 0 .. (n - 1) /\ p \in DOMAIN table[i] /\ table[i][p].key = k
      /\ table' = [table EXCEPT ![i] = RemoveAt(@, p)]
  BY RemoveIs
<1>3. Sound(table, n) /\ Sound(table', n) /\ table_size' = n /\ n \in Nat /\ DOMAIN table = 0 .. (n - 1)
  <2>1. Sound(table, n) /\ Sound(table', n)
    BY <1>2 DEF Stored
  <2>2. Cardinality(DOMAIN table') = n
    BY <2>1, SizeIs
  <2> QED
    BY <2>1, <2>2 DEF table_size, Sound
<1>4. CASE iter.next = NoEntry /\ iter.seen = iter.all
  BY <1>1, <1>4 DEF InPlace
<1>5. CASE ~(iter.next = NoEntry /\ iter.seen = iter.all)
  <2>1. PICK q \in DOMAIN table[j] : /\ iter.next = table[j][q].key
                                     /\ iter.all = iter.seen \cup RestOf(table, j, q)
                                     /\ iter.seen \cap RestOf(table, j, q) = {}
    BY <1>5 DEF InPlace
  <2>2. j \in 0 .. (n - 1)
    BY <1>5 DEF InPlace
  <2> HIDE DEF i, p, j, n
  <2>3. k \notin RestOf(table, j, q)
    BY <2>1
  <2>4. /\ \A a \in DOMAIN table : a # i => table'[a] = table[a]
        /\ table'[i] = RemoveAt(table[i], p) /\ DOMAIN table' = DOMAIN table
    BY <1>2, <1>3
  <2>5. DOMAIN table[i] = 1 .. Len(table[i]) /\ Len(table[i]) \in Nat /\ table[i] \in Seq(Entry)
    BY <1>2, <1>3, Members DEF Sound, ChainSound
  <2>6. i <= j
    <3> SUFFICES ASSUME i >= j + 1 PROVE FALSE
      BY <1>2, <1>3, <2>2
    <3>1. p >= 1
      BY <1>2, <2>5
    <3>2. k \in KeysFrom(table[i], 1)
      BY <1>2, <3>1 DEF KeysFrom
    <3>3. k \in KeysOfChains(table, j + 1)
      BY <1>2, <1>3, <3>2 DEF KeysOfChains
    <3> QED
      BY <2>3, <3>3 DEF RestOf
  <2>7. KeysOfChains(table', j + 1) = KeysOfChains(table, j + 1)
    <3>1. \A a \in DOMAIN table : a >= j + 1 => table'[a] = table[a]
      BY <1>2, <1>3, <2>2, <2>4, <2>6
    <3> QED
      BY <2>4, <3>1 DEF KeysOfChains
  <2>8. \E r \in DOMAIN table'[j] : table'[j][r].key = table[j][q].key
                                    /\ KeysFrom(table'[j], r) = KeysFrom(table[j], q)
    <3>1. CASE i # j
      BY <1>3, <2>2, <2>4, <3>1
    <3>2. CASE i = j
      <4> DEFINE c == table[i]
                 d == RemoveAt(c, p)
      <4>1. /\ d \in Seq(Entry) /\ Len(d) = Len(c) - 1
            /\ \A a \in 1 .. Len(c) - 1 : d[a] = IF a < p THEN c[a] ELSE c[a + 1]
        BY <1>2, <2>5, Removed
      <4>2. q \in 1 .. Len(c) /\ p \in 1 .. Len(c) /\ Len(c) \in Nat
        BY <1>2, <2>1, <2>5, <3>2
      <4>3. p < q
        <5>1. ~(p >= q)
          BY <1>2, <2>3, <3>2 DEF RestOf, KeysFrom
        <5> QED
          BY <4>2, <5>1
      <4> HIDE DEF d, c
      <4>4. DOMAIN d = 1 .. (Len(c) - 1) /\ DOMAIN c = 1 .. Len(c)
        BY <2>5, <4>1, <4>2 DEF c
      <4>5. q - 1 \in DOMAIN d /\ d[q - 1] = c[q]
        <5>1. q - 1 \in 1 .. Len(c) - 1 /\ ~(q - 1 < p) /\ (q - 1) + 1 = q
          BY <4>2, <4>3
        <5> QED
          BY <4>1, <4>4, <5>1
      <4>6. KeysFrom(d, q - 1) = KeysFrom(c, q)
        <5>1. ASSUME NEW a \in DOMAIN d, a >= q - 1 PROVE a + 1 \in DOMAIN c /\ a + 1 >= q /\ d[a] = c[a + 1]
          <6>1. a \in 1 .. Len(c) - 1 /\ ~(a < p)
            BY <4>2, <4>3, <4>4, <5>1
          <6> QED
            BY <4>1, <4>2, <4>4, <5>1, <6>1
        <5>2. ASSUME NEW a \in DOMAIN c, a >= q PROVE a - 1 \in DOMAIN d /\ a - 1 >= q - 1 /\ d[a - 1] = c[a]
          <6>1. a - 1 \in 1 .. Len(c) - 1 /\ ~(a - 1 < p) /\ (a - 1) + 1 = a
            BY <4>2, <4>3, <4>4, <5>2
          <6> QED
            BY <4>1, <4>2, <4>4, <5>2, <6>1
        <5> QED
          BY <5>1, <5>2 DEF KeysFrom
      <4>7. d = table'[j] /\ c = table[j]
        BY <2>4, <3>2 DEF c, d
      <4> QED
        BY <4>5, <4>6, <4>7
    <3> QED
      BY <3>1, <3>2
  <2>9. PICK r \in DOMAIN table'[j] : table'[j][r].key = table[j][q].key
                                      /\ RestOf(table', j, r) = RestOf(table, j, q)
    BY <2>7, <2>8 DEF RestOf
  <2>10. \E a \in DOMAIN table'[iter'.chain] :
           /\ iter'.next = table'[iter'.chain][a].key
           /\ iter'.all = iter'.seen \cup RestOf(table', iter'.chain, a)
           /\ iter'.seen \cap RestOf(table', iter'.chain, a) = {}
    BY <1>1, <2>1, <2>9 DEF j
  <2> QED
    BY <1>1, <1>3, <2>2, <2>10 DEF InPlace, j
<1> QED
  BY <1>1, <1>4, <1>5

LEMMA FirstReturned ==
  ASSUME Stored(table, table_size, prime_index, entries), Iterate
  PROVE  iter' \in IterType /\ InPlace'
<1> DEFINE n == table_size
           i == NextChain(0)
<1>1. Sound(table, n) /\ n \in Nat /\ 0 \in 0 .. n
  BY DEF Stored, Sound
<1>2. iter' = [next |-> HeadOf(i), chain |-> i, seen |-> {}, all |-> Keys] /\ table' = table
  BY DEF Iterate
<1>3. Keys = KeysOfChains(table, 0) /\ Keys \subseteq Key
  BY <1>1, KeysAre DEF Keys
<1>4. /\ i \in Nat
      /\ \/ HeadOf(i) = NoEntry /\ KeysOfChains(table, 0) = {}
         \/ /\ i \in 0 .. (n - 1) /\ 1 \in DOMAIN table[i] /\ HeadOf(i) = table[i][1].key
            /\ KeysOfChains(table, 0) = RestOf(table, i, 1)
  BY <1>1, NextChainIs
<1>5. table_size' = n
  BY <1>2 DEF table_size
<1> HIDE DEF i, n
<1>6. CASE HeadOf(i) = NoEntry /\ KeysOfChains(table, 0) = {}
  BY <1>2, <1>3, <1>4, <1>6 DEF IterType, InPlace
<1>7. CASE /\ i \in 0 .. (n - 1) /\ 1 \in DOMAIN table[i] /\ HeadOf(i) = table[i][1].key
           /\ KeysOfChains(table, 0) = RestOf(table, i, 1)
  <2>1. HeadOf(i) \in Key
    <3>1. table[i][1] \in Entry
      BY <1>1, <1>7, Members DEF Sound, ChainSound
    <3> QED
      BY <1>7, <3>1 DEF Entry
  <2>2. iter' \in IterType
    BY <1>2, <1>3, <1>4, <2>1 DEF IterType
  <2>3. InPlace'
    BY <1>2, <1>3, <1>5, <1>7 DEF InPlace
  <2> QED
    BY <2>2, <2>3
<1> QED
  BY <1>4, <1>6, <1>7

LEMMA NextReturned ==
  ASSUME Stored(table, table_size, prime_index, entries), iter \in IterType, InPlace, IterNext
  PROVE  iter' \in IterType /\ InPlace'
<1> DEFINE n == table_size
           j == iter.chain
           c == table[j]
           k == iter.next
           i == NextChain(j + 1)
<1>1. Sound(table, n) /\ n \in Nat /\ DOMAIN table = 0 .. (n - 1) /\ table_size' = n /\ table' = table
  BY DEF Stored, Sound, IterNext, table_size
<1>2. k # NoEntry /\ j \in 0 .. (n - 1)
  BY DEF IterNext, InPlace
<1>3. PICK p \in DOMAIN c : k = c[p].key /\ iter.all = iter.seen \cup RestOf(table, j, p)
                            /\ iter.seen \cap RestOf(table, j, p) = {}
  BY DEF IterNext, InPlace
<1>4. iter.seen \subseteq Key /\ iter.all \subseteq Key
  BY DEF IterType
<1>5. /\ iter'.next = Advance[1] /\ iter'.chain = Advance[2]
      /\ iter'.seen = iter.seen \cup {k} /\ iter'.all = iter.all
      /\ iter' = [next |-> Advance[1], chain |-> Advance[2], seen |-> iter.seen \cup {k}, all |-> iter.all]
  BY DEF IterNext, IterType
<1>6. ChainSound(c, n, j) /\ Len(c) \in Nat /\ DOMAIN c = 1 .. Len(c) /\ \A q \in DOMAIN c : c[q] \in Entry
  <2>1. ChainSound(c, n, j)
    BY <1>1, <1>2 DEF Sound
  <2> QED
    BY <2>1, Members DEF ChainSound
<1>7. PositionOf(k) = p
  <2>1. Chain(k) = j
    BY <1>3, <1>6 DEF ChainSound, Chain
  <2>2. Walk(c, k) = p
    BY <1>3, <1>6, WalkIs
  <2> QED
    BY <2>1, <2>2 DEF PositionOf
<1>8. Advance = IF p < Len(c) THEN <<c[p + 1].key, j>> ELSE <<HeadOf(i), i>>
  BY <1>7 DEF Advance
<1>9. k \in Key
  BY <1>3, <1>6 DEF Entry
<1> DEFINE rest == RestOf(table, j, p)
           left == IF p < Len(c) THEN RestOf(table, j, p + 1) ELSE KeysOfChains(table, j + 1)
<1>10. rest = {k} \cup left /\ k \notin left
  BY <1>1, <1>2, <1>3, RestIs
<1>11. iter'.all = iter'.seen \cup left /\ iter'.seen \cap left = {}
  <2> HIDE DEF left
  <2> QED
    BY <1>3, <1>5, <1>10
<1>12. CASE p < Len(c)
  <2>1. p + 1 \in DOMAIN c /\ left = RestOf(table, j, p + 1)
    BY <1>6, <1>12
  <2>2. Advance[1] = c[p + 1].key /\ Advance[2] = j
    BY <1>8, <1>12
  <2>3. c[p + 1].key \in Key
    BY <1>6, <2>1 DEF Entry
  <2> HIDE DEF left, j, c, k, n
  <2>4. iter' \in IterType
    BY <1>2, <1>4, <1>5, <1>9, <2>2, <2>3 DEF IterType
  <2>5. InPlace'
    BY <1>1, <1>2, <1>5, <1>11, <2>1, <2>2 DEF InPlace, c
  <2> QED
    BY <2>4, <2>5
<1>13. CASE ~(p < Len(c))
  <2>1. Advance[1] = HeadOf(i) /\ Advance[2] = i /\ left = KeysOfChains(table, j + 1)
    BY <1>8, <1>13
  <2>2. /\ i \in Nat
        /\ \/ HeadOf(i) = NoEntry /\ KeysOfChains(table, j + 1) = {}
           \/ /\ i \in 0 .. (n - 1) /\ 1 \in DOMAIN table[i] /\ HeadOf(i) = table[i][1].key
              /\ KeysOfChains(table, j + 1) = RestOf(table, i, 1)
    <3>1. j + 1 \in 0 .. n
      BY <1>1, <1>2
    <3> HIDE DEF j, n
    <3> QED
      BY <1>1, <3>1, NextChainIs
  <2> HIDE DEF left, j, c, k, n, i
  <2>3. CASE HeadOf(i) = NoEntry /\ KeysOfChains(table, j + 1) = {}
    <3>1. iter'.next = NoEntry /\ iter'.seen = iter'.all
      BY <1>5, <1>11, <2>1, <2>3
    <3>2. iter' \in IterType
      BY <1>4, <1>5, <1>9, <2>1, <2>2, <2>3 DEF IterType
    <3> QED
      BY <3>1, <3>2 DEF InPlace
  <2>4. CASE /\ i \in 0 .. (n - 1) /\ 1 \in DOMAIN table[i] /\ HeadOf(i) = table[i][1].key
             /\ KeysOfChains(table, j + 1) = RestOf(table, i, 1)
    <3>1. HeadOf(i) \in Key
      <4>1. table[i][1] \in Entry
        BY <1>1, <2>4, Members DEF Sound, ChainSound
      <4> QED
        BY <2>4, <4>1 DEF Entry
    <3>2. iter' \in IterType
      BY <1>4, <1>5, <1>9, <2>1, <2>2, <3>1 DEF IterType
    <3>3. InPlace'
      BY <1>1, <1>5, <1>11, <2>1, <2>4 DEF InPlace
    <3> QED
      BY <3>2, <3>3
  <2> QED
    BY <2>2, <2>3, <2>4
<1> QED
  BY <1>12, <1>13

-----------------------------------------------------------------------------
(* The invariant holds. *)

LEMMA TableInitInv ==
  ASSUME TableInit
  PROVE  TableInv
<1> DEFINE n == Primes[1]
<1>1. n \in Nat \ {0} /\ 0 < Len(Primes)
  BY PrimesAssumption
<1>2. prime_index = 0 /\ entries = 0 /\ table = [i \in 0 .. n - 1 |-> <<>>] /\ iter = NoIterator
  BY DEF TableInit, EmptyTable
<1> HIDE DEF n
<1>3. DOMAIN table = 0 .. (n - 1) /\ \A i \in 0 .. (n - 1) : table[i] = <<>>
  BY <1>2
<1>4. \A i \in 0 .. (n - 1) : ChainSound(table[i], n, i) /\ Items(table[i]) = {}
  <2>1. <<>> \in Seq(Entry) /\ DOMAIN <<>> = {}
    OBVIOUS
  <2>2. ASSUME NEW c, c = <<>>, NEW i PROVE ChainSound(c, n, i) /\ Items(c) = {}
    BY <2>1, <2>2 DEF ChainSound, Items
  <2> QED
    BY <1>3, <2>2
<1>5. Sound(table, n) /\ EntriesOf(table) = {}
  BY <1>1, <1>3, <1>4 DEF Sound, EntriesOf
<1>6. table_size = n
  BY <1>5, SizeIs DEF table_size
<1>7. Stored(table, n, prime_index, entries)
  BY <1>1, <1>2, <1>5, FS_EmptySet, BoundAssumption DEF Stored, n
<1>8. LoadBound
  BY <1>1, <1>2, <1>6 DEF LoadBound
<1>9. iter \in IterType /\ InPlace
  BY <1>2 DEF NoIterator, IterType, InPlace
<1> QED
  BY <1>6, <1>7, <1>8, <1>9 DEF TableInv

\* A table of n chains has that size.
LEMMA StoredIs ==
  ASSUME NEW n, Stored(table', n, prime_index', entries'), 3 * (entries' - 1) < n
  PROVE  Stored(table, table_size, prime_index, entries)' /\ LoadBound'
<1>1. table_size' = n
  <2>1. Cardinality(DOMAIN table') = n
    BY SizeIs DEF Stored
  <2> QED
    BY <2>1 DEF table_size
<1> QED
  BY <1>1 DEF LoadBound

LEMMA StepInv ==
  ASSUME TableInv, [TableNext]_tableVars
  PROVE  TableInv'
<1> USE DEF TableInv
<1>1. ASSUME NEW k \in Key, NEW v \in Value, Insert(k, v) PROVE TableInv'
  <2>1. Stored(table', Grow.size, prime_index', entries') /\ 3 * (entries' - 1) < Grow.size
    BY <1>1, InsertIs
  <2>2. iter' = NoIterator
    BY <1>1 DEF Insert
  <2> QED
    BY <2>1, <2>2, StoredIs, FreshIterator
<1>2. ASSUME NEW k \in Key, InsertCannotLink(k) PROVE TableInv'
  <2>1. /\ Grow.index <= MaxIndex /\ prime_index' = Grow.index /\ table' = Grow.chains
        /\ entries' = entries /\ iter' = NoIterator
    BY <1>2 DEF InsertCannotLink
  <2>2. Stored(table', Grow.size, prime_index', entries') /\ 3 * entries < Grow.size
    BY <2>1, GrowIs
  <2>3. 3 * (entries' - 1) < Grow.size
    <3>1. entries \in Nat /\ Grow.size \in Nat
      BY <2>2, FS_CardinalityType DEF Stored, Sound
    <3> QED
      BY <2>1, <2>2, <3>1
  <2> QED
    BY <2>1, <2>2, <2>3, StoredIs, FreshIterator
<1>3. ASSUME NEW k \in Key, RemoveKey(k) PROVE TableInv'
  <2>1. Stored(table', table_size, prime_index', entries') /\ entries' = entries - 1
    BY <1>3, RemoveIs
  <2>2. 3 * (entries' - 1) < table_size
    <3>1. entries \in Nat /\ table_size \in Nat /\ 3 * (entries - 1) < table_size
      BY FS_CardinalityType DEF Stored, Sound, LoadBound
    <3> QED
      BY <2>1, <3>1
  <2>3. iter' \in IterType /\ InPlace'
    <3>1. CASE k \in iter.seen
      BY <1>3, <3>1, RemovedBehind
    <3>2. CASE k \notin iter.seen
      BY <1>3, <3>2, FreshIterator DEF RemoveKey
    <3> QED
      BY <3>1, <3>2
  <2> QED
    BY <2>1, <2>2, <2>3, StoredIs
<1>4. ASSUME Iterate PROVE TableInv'
  <2>1. UNCHANGED <<table, prime_index, entries>>
    BY <1>4 DEF Iterate
  <2> QED
    BY <1>4, <2>1, FirstReturned DEF table_size, LoadBound
<1>5. ASSUME IterNext PROVE TableInv'
  <2>1. UNCHANGED <<table, prime_index, entries>>
    BY <1>5 DEF IterNext
  <2> QED
    BY <1>5, <2>1, NextReturned DEF table_size, LoadBound
<1>6. ASSUME UNCHANGED tableVars PROVE TableInv'
  BY <1>6 DEF tableVars, table_size, LoadBound, InPlace
<1> QED
  BY <1>1, <1>2, <1>3, <1>4, <1>5, <1>6 DEF TableNext, InsertCannotGrow

LEMMA InvWellFormed ==
  ASSUME TableInv
  PROVE  WellFormed
<1>1. Stored(table, table_size, prime_index, entries) /\ Sound(table, table_size)
  BY DEF TableInv, Stored
<1>2. /\ IsFiniteSet(EntriesOf(table)) /\ entries = Cardinality(EntriesOf(table))
      /\ entries \in Nat /\ prime_index \in 0 .. MaxIndex /\ DOMAIN table = 0 .. table_size - 1
  BY <1>1, FS_CardinalityType DEF Stored, Sound
<1>3. TableTypeOK
  <2>1. \A i \in DOMAIN table : table[i] \in Seq(Entry)
    BY <1>1, <1>2 DEF Sound, ChainSound
  <2> QED
    BY <1>2, <2>1 DEF TableInv, IterType, TableTypeOK
<1>4. Placement
  <2>1. /\ \A x \in Places(table) : HashOf[At(table, x).key] % table_size = x[1]
        /\ \A x, y \in Places(table) : At(table, x).key = At(table, y).key => x = y
        /\ Cardinality(Places(table)) = Cardinality(EntriesOf(table))
    BY <1>1, <1>2, PlacesAre
  <2> QED
    BY <1>2, <2>1 DEF Placement, Chain
<1>5. KeyInValue
  <2>1. \A x \in Places(table) : At(table, x) \in EntriesOf(table)
    BY <1>1, PlacesAre
  <2> QED
    BY <1>1, <2>1, EntryIs DEF KeyInValue
<1> QED
  BY <1>3, <1>4, <1>5 DEF TableInv, WellFormed

LEMMA InvIteration ==
  ASSUME TableInv
  PROVE  IterationExact
<1>1. Sound(table, table_size)
  BY DEF TableInv, Stored
<1>2. Keys = KeysOfChains(table, 0)
  BY <1>1, KeysAre DEF Keys
<1>3. CASE iter.next = NoEntry
  <2>1. iter.seen = iter.all
    <3> SUFFICES ASSUME iter.chain \in 0 .. (table_size - 1), NEW p \in DOMAIN table[iter.chain],
                        iter.next = table[iter.chain][p].key
                 PROVE  FALSE
      BY DEF TableInv, InPlace
    <3>1. table[iter.chain][p] \in Entry
      BY <1>1, Members DEF Sound, ChainSound
    <3>2. table[iter.chain][p].key \in Key
      BY <3>1 DEF Entry
    <3> QED
      BY <1>3, <3>2, NullAssumption
  <2> QED
    BY <1>3, <2>1 DEF IterationExact
<1>4. CASE iter.next # NoEntry
  <2>1. PICK p \in DOMAIN table[iter.chain] :
          /\ iter.next = table[iter.chain][p].key
          /\ iter.seen \cap RestOf(table, iter.chain, p) = {}
    BY <1>4 DEF TableInv, InPlace
  <2>2. iter.chain \in 0 .. (table_size - 1)
    BY <1>4 DEF TableInv, InPlace
  <2>3. iter.next \in RestOf(table, iter.chain, p)
    BY <1>1, <2>1, <2>2, RestIs
  <2>4. RestOf(table, iter.chain, p) \subseteq Keys
    BY <1>1, <1>2, <2>2, KeysAre
  <2> QED
    BY <1>4, <2>1, <2>3, <2>4 DEF IterationExact
<1> QED
  BY <1>3, <1>4

-----------------------------------------------------------------------------
(* The theorems. *)

LEMMA TableInvariance ==
  TableSpec => []TableInv
<1>1. TableInit => TableInv
  BY TableInitInv
<1>2. TableInv /\ [TableNext]_tableVars => TableInv'
  BY StepInv
<1> QED
  BY <1>1, <1>2, PTL DEF TableSpec

\* The table stays sound: each entry is in the chain of its key, once and counted, the chains
\* are short, and no key points into a value that has left the table.
THEOREM TableWellFormed ==
  TableSpec => []WellFormed
<1>1. TableInv => WellFormed
  BY InvWellFormed
<1> QED
  BY <1>1, TableInvariance, PTL

\* An iteration returns every entry once, also when returned entries are removed under it.
THEOREM IterationIsExact ==
  TableSpec => []IterationExact
<1>1. TableInv => IterationExact
  BY InvIteration
<1> QED
  BY <1>1, TableInvariance, PTL

-----------------------------------------------------------------------------
(* The table implements a map. *)

LEMMA LookupIs ==
  ASSUME NEW t, NEW n, Sound(t, n), NEW k \in Key
  PROVE  /\ \A e \in EntriesOf(t) : e.key = k => LookupIn(t, n, k) = e.val
         /\ (\A e \in EntriesOf(t) : e.key # k) => LookupIn(t, n, k) = NoValue
BY EntryIs, NotThere

\* Tables with the same entry of a key, or none, have the same value for it.
LEMMA SameLookup ==
  ASSUME NEW t, NEW n, Sound(t, n), NEW u, NEW m, Sound(u, m), NEW k \in Key,
         \A e \in EntriesOf(t) : e.key = k => e \in EntriesOf(u),
         \A e \in EntriesOf(u) : e.key = k => e \in EntriesOf(t)
  PROVE  LookupIn(t, n, k) = LookupIn(u, m, k)
<1>1. CASE \A e \in EntriesOf(t) : e.key # k
  <2>1. \A e \in EntriesOf(u) : e.key # k
    BY <1>1
  <2> QED
    BY <1>1, <2>1, LookupIs
<1>2. CASE \E e \in EntriesOf(t) : e.key = k
  BY <1>2, LookupIs
<1> QED
  BY <1>1, <1>2

MapOf == [k \in Key |-> Lookup(k)]

LEMMA MapIs ==
  /\ MapOf = [k \in Key |-> LookupIn(table, table_size, k)]
  /\ MapOf' = [k \in Key |-> LookupIn(table', table_size', k)]
BY DEF MapOf, Lookup, LookupIn, PositionOf, Chain

LEMMA MapInit ==
  ASSUME TableInit
  PROVE  MapOf = [k \in Key |-> NoValue]
<1>1. Sound(table, table_size)
  BY TableInitInv DEF TableInv, Stored
<1>2. \A i \in DOMAIN table : Items(table[i]) = {}
  BY DEF TableInit, EmptyTable, Items
<1>3. \A k \in Key : LookupIn(table, table_size, k) = NoValue
  BY <1>1, <1>2, LookupIs DEF EntriesOf
<1> QED
  BY <1>3, MapIs

\* An insertion puts the value under its key and changes no other.
LEMMA InsertPuts ==
  ASSUME TableInv, NEW k \in Key, NEW v \in Value, Insert(k, v)
  PROVE  MapOf' = [MapOf EXCEPT ![k] = v]
<1>1. /\ Sound(table, table_size) /\ Sound(table', Grow.size)
      /\ EntriesOf(table') = {d \in EntriesOf(table) : d.key # k} \cup {New(k, v)}
  BY InsertIs DEF TableInv, Stored
<1>2. table_size' = Grow.size
  BY <1>1, SizeIs DEF table_size
<1>3. LookupIn(table', table_size', k) = v
  <2>1. New(k, v).key = k /\ New(k, v).val = v
    BY DEF New
  <2>2. New(k, v) \in EntriesOf(table')
    BY <1>1
  <2> QED
    BY <1>1, <1>2, <2>1, <2>2, LookupIs
<1>4. ASSUME NEW x \in Key, x # k PROVE LookupIn(table', table_size', x) = LookupIn(table, table_size, x)
  <2>1. /\ \A e \in EntriesOf(table') : e.key = x => e \in EntriesOf(table)
        /\ \A e \in EntriesOf(table) : e.key = x => e \in EntriesOf(table')
    BY <1>1, <1>4 DEF New
  <2> QED
    BY <1>1, <1>2, <2>1, SameLookup
<1>5. MapOf' = [x \in Key |-> LookupIn(table', table_size', x)]
  BY MapIs
<1> QED
  BY <1>3, <1>4, <1>5, MapIs

LEMMA RemoveDrops ==
  ASSUME TableInv, NEW k \in Key, RemoveKey(k)
  PROVE  MapOf[k] # NoValue /\ MapOf' = [MapOf EXCEPT ![k] = NoValue]
<1>1. /\ Sound(table, table_size) /\ Sound(table', table_size)
      /\ EntriesOf(table') = {d \in EntriesOf(table) : d.key # k}
      /\ Chain(k) \in 0 .. (table_size - 1)
      /\ PositionOf(k) \in DOMAIN table[Chain(k)] /\ table[Chain(k)][PositionOf(k)].key = k
  BY RemoveIs DEF TableInv, Stored
<1>2. table_size' = table_size
  BY <1>1, SizeIs DEF table_size
<1>3. LookupIn(table', table_size', k) = NoValue
  BY <1>1, <1>2, LookupIs
<1>4. ASSUME NEW x \in Key, x # k PROVE LookupIn(table', table_size', x) = LookupIn(table, table_size, x)
  BY <1>1, <1>2, <1>4, SameLookup
<1>5. MapOf' = [x \in Key |-> LookupIn(table', table_size', x)]
  BY MapIs
<1>6. LookupIn(table, table_size, k) # NoValue
  <2> DEFINE e == table[Chain(k)][PositionOf(k)]
  <2>1. e \in EntriesOf(table)
    BY <1>1 DEF EntriesOf, Items, Sound
  <2>2. e.val \in Value
    BY <1>1, <2>1, EntryIs DEF Entry
  <2> QED
    BY <1>1, <2>1, <2>2, LookupIs, NullAssumption
<1> QED
  BY <1>3, <1>4, <1>5, <1>6, MapIs

\* Every step of the table is a step of the map, or none.
LEMMA TableStepMaps ==
  ASSUME TableInv, TableInv', [TableNext]_tableVars
  PROVE  [Map!Next]_MapOf
<1>1. ASSUME NEW k \in Key, NEW v \in Value, Insert(k, v) PROVE Map!Next
  BY <1>1, InsertPuts DEF Map!Next, Map!Put, MapOf
<1>2. ASSUME NEW k \in Key, RemoveKey(k) PROVE Map!Next
  BY <1>2, RemoveDrops DEF Map!Next, Map!Drop, MapOf
<1>3. ASSUME Sound(table', table_size'), EntriesOf(table') = EntriesOf(table) PROVE MapOf' = MapOf
  <2>1. Sound(table, table_size)
    BY DEF TableInv, Stored
  <2>2. \A k \in Key : LookupIn(table', table_size', k) = LookupIn(table, table_size, k)
    BY <1>3, <2>1, SameLookup
  <2>3. MapOf' = [k \in Key |-> LookupIn(table', table_size', k)]
    BY MapIs
  <2> QED
    BY <2>2, <2>3, MapIs
<1>4. Sound(table', table_size')
  BY DEF TableInv, Stored
<1>5. ASSUME NEW k \in Key, InsertCannotLink(k) PROVE MapOf' = MapOf
  <2>1. EntriesOf(table') = EntriesOf(table)
    BY <1>5, GrowIs DEF InsertCannotLink, TableInv
  <2> QED
    BY <1>3, <1>4, <2>1
<1>6. ASSUME table' = table PROVE MapOf' = MapOf
  BY <1>3, <1>4, <1>6
<1> QED
  BY <1>1, <1>2, <1>5, <1>6 DEF TableNext, InsertCannotGrow, Iterate, IterNext, tableVars

\* The hash table implements the map its callers rely on: what is found under a key is what
\* was put there last, whatever the table has grown to meanwhile.
THEOREM TableImplementsMap ==
  TableSpec => MapSpec
<1>1. TableInit => Map!Init
  BY MapInit DEF Map!Init, MapOf
<1>2. TableInv /\ TableInv' /\ [TableNext]_tableVars => [Map!Next]_MapOf
  BY TableStepMaps
<1>3. TableSpec => Map!Init /\ [][Map!Next]_MapOf
  BY <1>1, <1>2, TableInvariance, PTL DEF TableSpec
<1>4. MapOf = [k \in Key |-> Lookup(k)]
  BY DEF MapOf
<1> QED
  BY <1>3, <1>4, PTL DEF MapSpec, Map!Spec, MapOf

-----------------------------------------------------------------------------
(***************************************************************************)
(* RVVisit: the tables of links and their traversal, for any groups and    *)
(* links.  The recursion is sound, and the callback is called as often as  *)
(* it should be for each link or object.                                   *)
(***************************************************************************)

Positions == 1 .. Len(CrtTime)
TableEntry == [pos : Positions, hard : BOOLEAN, target : Object \cup {Nil}, sub : BOOLEAN]
BuildFrames == [own : Owner, links : Seq(Link), i : Nat]
TraverseFrames == [own : Owner, i : Nat, over : BOOLEAN]

\* Types, and what an activation is while tables are built and while they are traversed.
VisitTypes ==
  /\ links \in Graphs
  /\ phase \in {"idle", "start", "build", "traverse", "returned", "crashed"}
  /\ call \in Call
  /\ call.idx => ~call.recursive
  /\ call.op = "objects" => call.recursive
  /\ tables \in [Owner -> Seq(TableEntry)]
  /\ visited \subseteq Group /\ executed \subseteq Object
  /\ depth \in [Op -> Nat]
  /\ idx \in Nat /\ ret \in {"ok", "fail"} /\ stopped \in BOOLEAN
  /\ calls \in Nat /\ changes \in Nat
  /\ phase = "build" => stack \in Seq(BuildFrames)
  /\ phase = "traverse" => stack \in Seq(TraverseFrames)
  /\ phase \in {"build", "traverse"} <=> stack # <<>>

\* A call begins without tables.
Fresh ==
  phase \in {"idle", "start"} => tables = NoTables /\ visited = {} /\ executed = {}

\* The activations have tables of their own, and the first one that of the call.
OwnTables ==
  stack # <<>> =>
    /\ stack[1].own = Outermost
    /\ \A j \in 2 .. Len(stack) : stack[j].own \in visited
    /\ \A j, k \in 1 .. Len(stack) : stack[j].own = stack[k].own => j = k

\* The table in an entry is that of a group which has been entered by this entry.
EnteredIn(tb) ==
  /\ ~call.recursive => visited = {}
  /\ \A o \in Owner : \A k \in DOMAIN tb[o] :
       /\ o \in visited \/ o = Outermost
       /\ tb[o][k].hard => tb[o][k].target \in Object
       /\ tb[o][k].sub => tb[o][k].hard /\ tb[o][k].target \in visited
  /\ \A o, u \in Owner : \A k \in DOMAIN tb[o], n \in DOMAIN tb[u] :
       /\ tb[o][k].sub /\ tb[u][n].sub /\ tb[o][k].target = tb[u][n].target => o = u /\ k = n
       /\ o = u /\ tb[o][k].pos = tb[u][n].pos => k = n

Entered == EnteredIn(tables)

\* An activation has processed the links before the next one; that one leads to the group
\* of the activation above, which is in no entry yet.
Builds ==
  phase = "build" =>
    /\ \A j \in 1 .. Len(stack) :
         /\ stack[j].i \in 1 .. Len(stack[j].links) + 1
         /\ Len(stack[j].links) <= Len(CrtTime)
         /\ Len(tables[stack[j].own]) = stack[j].i - 1
         /\ \A k \in DOMAIN tables[stack[j].own] : tables[stack[j].own][k].pos = k
    /\ \A j \in 1 .. Len(stack) - 1 :
         /\ stack[j].i <= Len(stack[j].links)
         /\ stack[j].links[stack[j].i].hard
         /\ stack[j].links[stack[j].i].target = stack[j + 1].own
    /\ \A o \in Owner : \A k \in DOMAIN tables[o], j \in 1 .. Len(stack) :
         tables[o][k].sub => tables[o][k].target # stack[j].own

\* An activation that may be beyond its table: it came from the index of the application.
Astray(f) == call.idx /\ call.dec /\ f.own = Outermost /\ f.i <= idx + 1

\* An activation is at an entry or astray, and below another one at the entry of its table.
Traverses ==
  phase = "traverse" =>
    /\ \A j \in 1 .. Len(stack) :
         /\ stack[j].i >= 1
         /\ stack[j].over \/ stack[j].i \in DOMAIN tables[stack[j].own] \/ Astray(stack[j])
    /\ \A j \in 1 .. Len(stack) - 1 :
         /\ ~stack[j].over
         /\ stack[j].i \in DOMAIN tables[stack[j].own]
         /\ tables[stack[j].own][stack[j].i].sub
         /\ tables[stack[j].own][stack[j].i].target = stack[j + 1].own

\* The static variables are at least as deep as the activations are.
Deep ==
  /\ phase = "idle" <=> calls = 0
  /\ calls <= 1 /\ phase \in {"idle", "start", "build"} => depth = [o \in Op |-> 0]
  /\ phase = "traverse" => /\ depth[call.op] >= Len(stack) - 1
                           /\ calls = 1 => depth[call.op] = Len(stack) - 1

NestInv == VisitTypes /\ Fresh /\ OwnTables /\ Entered /\ Builds /\ Traverses /\ Deep

-----------------------------------------------------------------------------
Owns == {stack[j].own : j \in 1 .. Len(stack)}

\* What H5Ovisit has reported before the tables are traversed: the object it is given.
AtFirst == IF call.op = "objects" THEN [NoReports EXCEPT ![call.start] = 1] ELSE NoReports

\* Entry x of owner o's table is one of the server's links, and the group that it leads to
\* is entered.
EntryCopied(o, x) ==
  /\ x.pos \in DOMAIN links[GroupOf(o)]
  /\ x.hard = links[GroupOf(o)][x.pos].hard
  /\ x.target = links[GroupOf(o)][x.pos].target
  /\ call.recursive /\ x.hard /\ x.target \in Group => x.target \in visited

\* All links of owner o's group are in the table t.
HasAll(o, t) == \A p \in DOMAIN links[GroupOf(o)] : \E k \in DOMAIN t : t[k].pos = p

VisitedReached == \A g \in visited : g \in Reached /\ LeadsTo(g)

\* Entries are the server's links, and each group that they lead to is entered.
Copies ==
  phase \in {"build", "traverse"} /\ changes = 0 =>
    /\ \A o \in Owner : \A k \in DOMAIN tables[o] : EntryCopied(o, tables[o][k])
    /\ \A o \in visited \cup {Outermost} :
         (phase = "build" => o \notin Owns) => HasAll(o, tables[o])
    /\ VisitedReached
    /\ phase = "build" => \A j \in 1 .. Len(stack) : stack[j].links = links[GroupOf(stack[j].own)]

\* Whatever set has the first table, and the tables in its tables' entries, has all.
Tree ==
  phase \in {"build", "traverse"} =>
    \A S \in SUBSET Owner :
      /\ Outermost \in S
      /\ \A o \in S : \A k \in DOMAIN tables[o] : tables[o][k].sub => tables[o][k].target \in S
      /\ phase = "build" => \A j \in 1 .. Len(stack) - 1 : stack[j].own \in S => stack[j + 1].own \in S
      => visited \subseteq S

\* Nothing is reported while tables are built but the object that H5Ovisit is given.
Untouched ==
  /\ phase \in {"start", "build"} => ret = "ok" /\ ~stopped
  /\ phase = "start" => reported = NoReports \/ (call.op = "objects" /\ reported = AtFirst)
  /\ phase = "build" => reported = AtFirst /\ executed = {}
  /\ phase = "traverse" => ret = "ok"

\* The entries that an activation has done with.
Passed(f) == IF f.over THEN DOMAIN tables[f.own]
             ELSE {k \in DOMAIN tables[f.own] : IF call.dec THEN k > f.i ELSE k < f.i}

\* An entry that some activation of stack s has done with, and one that it has entered.
PassedAt(s, o, k) == \E j \in 1 .. Len(s) : s[j].own = o /\ k \in Passed(s[j])
EnteredAt(s, o, k) == \E j \in 1 .. Len(s) - 1 : s[j].own = o /\ k = s[j].i

\* F are the groups whose tables have been traversed: those in the entries that are
\* passed, and in no others.
Traversed(s, F) ==
  /\ \A j \in 1 .. Len(s) : s[j].own \notin F
  /\ \A o \in visited \cup {Outermost} : \A k \in DOMAIN tables[o] : tables[o][k].sub =>
       (tables[o][k].target \in F <=> o \in F \/ PassedAt(s, o, k))

\* The entries that the callback has been called for, or that were passed over.
SeenIn(s, F, o, k) == k \in DOMAIN tables[o] /\ (o \in F \/ PassedAt(s, o, k) \/ EnteredAt(s, o, k))

Seen(s, F) == {x \in Owner \X Nat : SeenIn(s, F, x[1], x[2])}

\* The link at position p of owner o's group is among the entries S.
Among(S, o, p) == \E k \in DOMAIN tables[o] : <<o, k>> \in S /\ tables[o][k].pos = p

\* The counts rep, and the objects ex, when the entries S have been seen.
ReportsAre(rep, ex, S) ==
  /\ call.op = "links" =>
       \A g \in Group, p \in Positions :
         rep[<<g, p>>] = (IF g = call.start /\ Among(S, Outermost, p) THEN 1 ELSE 0)
                           + (IF Among(S, g, p) THEN 1 ELSE 0)
  /\ call.op = "objects" =>
       /\ \A x \in Object : rep[x] = (IF x = call.start THEN 1 ELSE 0) + (IF x \in ex THEN 1 ELSE 0)
       /\ \A x \in Object : x \in ex <=>
            \E s \in S : tables[s[1]][s[2]].hard /\ tables[s[1]][s[2]].target = x

Reporting ==
  phase = "traverse" /\ changes = 0 /\ ~stopped /\ ~call.idx =>
    \E F \in SUBSET visited : /\ Traversed(stack, F)
                              /\ ReportsAre(reported, executed, Seen(stack, F))

Reported == reported \in [LinkId \cup Object -> Nat]

ExactInv == Reported /\ Copies /\ Tree /\ Untouched /\ Reporting /\ ReportsExact
-----------------------------------------------------------------------------
(* The stack, and the tables. *)

LEMMA FrontIs ==
  ASSUME NEW V, NEW s \in Seq(V), s # <<>>
  PROVE  /\ Len(s) \in Nat \ {0} /\ Last(s) = s[Len(s)] /\ Last(s) \in V
         /\ Front(s) \in Seq(V) /\ Len(Front(s)) = Len(s) - 1
         /\ \A i \in 1 .. Len(s) - 1 : Front(s)[i] = s[i]
         /\ Front(s) = <<>> <=> Len(s) = 1
<1>1. Len(s) \in Nat \ {0}
  OBVIOUS
<1>2. Last(s) = s[Len(s)] /\ Last(s) \in V
  BY <1>1 DEF Last
<1> DEFINE k == Len(s) - 1
<1>3. k \in Nat /\ (1 <= k \/ k = 0) /\ k \in Int /\ 1 \in Int
  <2>1. \A m \in Nat \ {0} : m - 1 \in Nat /\ (1 <= m - 1 \/ m - 1 = 0)
    OBVIOUS
  <2>2. k \in Nat /\ (1 <= k \/ k = 0)
    BY <1>1, <2>1
  <2> HIDE DEF k
  <2> QED
    BY <2>2
<1>4. \A i \in 1 .. k : s[i] \in V
  BY <1>1
<1>5. Front(s) = SubSeq(s, 1, k)
  BY DEF Front
<1> HIDE DEF k
<1>6. /\ SubSeq(s, 1, k) \in Seq(V)
      /\ Len(SubSeq(s, 1, k)) = IF 1 <= k THEN k - 1 + 1 ELSE 0
      /\ \A i \in 1 .. k - 1 + 1 : SubSeq(s, 1, k)[i] = s[1 + i - 1]
  BY <1>3, <1>4, SubSeqProperties
<1>7. Len(SubSeq(s, 1, k)) = k /\ \A i \in 1 .. k : SubSeq(s, 1, k)[i] = s[i]
  BY <1>3, <1>6
<1>8. Front(s) = <<>> <=> k = 0
  BY <1>5, <1>6, <1>7
<1>9. k = 0 <=> Len(s) = 1
  BY <1>1 DEF k
<1> QED
  BY <1>1, <1>2, <1>5, <1>6, <1>7, <1>8, <1>9 DEF k

LEMMA FrontOf ==
  ASSUME NEW V, NEW s \in Seq(V), s # <<>>, NEW n, n = Len(s), NEW r, r = Front(s)
  PROVE  /\ n \in Nat \ {0} /\ Last(s) = s[n] /\ r \in Seq(V) /\ Len(r) = n - 1
         /\ r = <<>> <=> n = 1
         /\ \A i \in 1 .. n - 1 : r[i] = s[i]
  BY FrontIs

LEMMA NothingIn ==
  ASSUME NEW V, NEW s \in Seq(V), DOMAIN s = {}
  PROVE  s = <<>> /\ Len(s) = 0
<1>1. Len(s) \in Nat /\ DOMAIN s = 1 .. Len(s)
  OBVIOUS
<1>2. Len(s) = 0
  <2>1. 1 \notin 1 .. Len(s)
    BY <1>1
  <2>2. Len(s) \in Nat
    BY <1>1
  <2> QED
    BY <2>1, <2>2
<1> QED
  BY <1>2

\* Sequence q is s with f added, with f in place of its last element, and with f in place of
\* its last two.
AppendedTo(V, s, f, q) ==
  /\ q \in Seq(V) /\ q # <<>> /\ Len(q) = Len(s) + 1 /\ q[Len(s) + 1] = f
  /\ \A i \in 1 .. Len(s) : q[i] = s[i]

ReplacedIn(V, s, f, q) ==
  /\ q \in Seq(V) /\ q # <<>> /\ Len(q) = Len(s) /\ q[Len(s)] = f
  /\ \A i \in 1 .. Len(s) - 1 : q[i] = s[i]

PoppedFrom(V, s, f, q) ==
  /\ q \in Seq(V) /\ q # <<>> /\ Len(q) = Len(s) - 1 /\ q[Len(s) - 1] = f
  /\ \A i \in 1 .. Len(s) - 2 : q[i] = s[i]

LEMMA Appended ==
  ASSUME NEW V, NEW s \in Seq(V), NEW f \in V, NEW q, q = Append(s, f)
  PROVE  AppendedTo(V, s, f, q)
<1>1. /\ q \in Seq(V) /\ q # <<>> /\ Len(q) = Len(s) + 1 /\ q[Len(s) + 1] = f
      /\ \A i \in 1 .. Len(s) : q[i] = s[i]
  OBVIOUS
<1> QED
  BY <1>1 DEF AppendedTo

LEMMA ReplacedLast ==
  ASSUME NEW V, NEW s \in Seq(V), s # <<>>, NEW f \in V, NEW q, q = Append(Front(s), f)
  PROVE  ReplacedIn(V, s, f, q)
<1> DEFINE r == Front(s)
           m == Len(s)
<1>1. m \in Nat \ {0} /\ r \in Seq(V) /\ Len(r) = m - 1
  BY FrontIs
<1>2. \A i \in 1 .. m - 1 : r[i] = s[i]
  BY FrontIs
<1>3. q = Append(r, f)
  OBVIOUS
<1> HIDE DEF r, m
<1>4. m = Len(r) + 1
  BY <1>1
<1>5. AppendedTo(V, r, f, q)
  BY <1>1, <1>3, Appended
<1>6. /\ q \in Seq(V) /\ q # <<>> /\ Len(q) = m /\ q[m] = f
      /\ \A i \in 1 .. m - 1 : q[i] = s[i]
  BY <1>1, <1>2, <1>4, <1>5 DEF AppendedTo
<1> QED
  BY <1>6 DEF ReplacedIn, m

\* The last of two activations or more leaves the stack, and the one below it goes on.
LEMMA ReplacedCaller ==
  ASSUME NEW V, NEW s \in Seq(V), Len(s) > 1, NEW f \in V, NEW q, q = Append(Front(Front(s)), f)
  PROVE  PoppedFrom(V, s, f, q)
<1> DEFINE r == Front(s)
           n == Len(s)
<1>1. n \in Nat /\ n > 1 /\ s # <<>>
  BY EmptySeq
<1>2. r \in Seq(V) /\ Len(r) = n - 1
  BY <1>1, FrontIs
<1>3. \A i \in 1 .. n - 1 : r[i] = s[i]
  BY <1>1, FrontIs
<1>4. q = Append(Front(r), f)
  OBVIOUS
<1> HIDE DEF r, n
<1>5. r # <<>>
  BY <1>1, <1>2, EmptySeq
<1>6. ReplacedIn(V, r, f, q)
  BY <1>2, <1>4, <1>5, ReplacedLast
<1>7. n - 2 = (n - 1) - 1 /\ \A i \in 1 .. n - 2 : i \in 1 .. (n - 1) - 1 /\ i \in 1 .. n - 1
  BY <1>1
<1>8. /\ q \in Seq(V) /\ q # <<>> /\ Len(q) = n - 1 /\ q[n - 1] = f
      /\ \A i \in 1 .. n - 2 : q[i] = s[i]
  BY <1>2, <1>3, <1>6, <1>7 DEF ReplacedIn
<1> QED
  BY <1>8 DEF PoppedFrom, n

Frames == IF phase = "build" THEN BuildFrames ELSE TraverseFrames

LEMMA StackIs ==
  ASSUME VisitTypes, stack # <<>>, NEW n, n = Len(stack)
  PROVE  /\ phase \in {"build", "traverse"} /\ stack \in Seq(Frames) /\ n \in Nat \ {0}
         /\ Top = stack[n] /\ Top \in Frames
         /\ Below \in Seq(Frames) /\ Len(Below) = n - 1 /\ (Below = <<>> <=> n = 1)
         /\ \A j \in 1 .. n - 1 : Below[j] = stack[j]
<1>1. phase \in {"build", "traverse"} /\ stack \in Seq(Frames)
  BY DEF VisitTypes, Frames
<1> QED
  BY <1>1, FrontIs DEF Top, Below

\* Tables tc are tb with entry e at the end of that of o.
AddedTo(tb, o, e, tc) ==
  /\ tc \in [Owner -> Seq(TableEntry)]
  /\ tc[o] \in Seq(TableEntry) /\ AppendedTo(TableEntry, tb[o], e, tc[o])
  /\ \A u \in Owner : u # o => tc[u] = tb[u]

LEMMA EntryAdded ==
  ASSUME NEW tb, tb \in [Owner -> Seq(TableEntry)], NEW o \in Owner, NEW e \in TableEntry,
         NEW tc, tc = [tb EXCEPT ![o] = Append(@, e)]
  PROVE  AddedTo(tb, o, e, tc)
<1> DEFINE t == tb[o]
           s == Append(t, e)
<1>1. t \in Seq(TableEntry)
  OBVIOUS
<1>2. tc = [tb EXCEPT ![o] = s] /\ s = Append(t, e)
  OBVIOUS
<1> HIDE DEF t, s
<1>3. s \in Seq(TableEntry) /\ AppendedTo(TableEntry, t, e, s)
  <2>1. AppendedTo(TableEntry, t, e, s)
    BY <1>1, <1>2, Appended
  <2> QED
    BY <2>1 DEF AppendedTo
<1>4. tc[o] = s /\ tc \in [Owner -> Seq(TableEntry)] /\ \A u \in Owner : u # o => tc[u] = tb[u]
  BY <1>2, <1>3
<1> QED
  BY <1>3, <1>4 DEF AddedTo, t

LEMMA AddedIs ==
  ASSUME NEW tb, tb \in [Owner -> Seq(TableEntry)], NEW o \in Owner, NEW e, NEW tc, AddedTo(tb, o, e, tc),
         NEW m, m = Len(tb[o]) + 1
  PROVE  /\ tc \in [Owner -> Seq(TableEntry)] /\ m \in Nat \ {0}
         /\ Len(tc[o]) = m /\ DOMAIN tc[o] = 1 .. m /\ DOMAIN tb[o] = 1 .. m - 1
         /\ tc[o][m] = e /\ \A k \in 1 .. m - 1 : tc[o][k] = tb[o][k]
         /\ \A u \in Owner : u # o => tc[u] = tb[u]
<1> DEFINE t == tb[o]
           s == tc[o]
<1>1. /\ tc \in [Owner -> Seq(TableEntry)] /\ \A u \in Owner : u # o => tc[u] = tb[u]
      /\ s \in Seq(TableEntry) /\ AppendedTo(TableEntry, t, e, s) /\ t \in Seq(TableEntry)
  BY DEF AddedTo
<1>2. m = Len(t) + 1
  OBVIOUS
<1> HIDE DEF t, s
<1>3. Len(t) \in Nat /\ DOMAIN t = 1 .. Len(t) /\ DOMAIN s = 1 .. Len(s)
  BY <1>1
<1>4. m \in Nat \ {0} /\ Len(t) = m - 1
  BY <1>2, <1>3
<1>5. /\ Len(s) = m /\ DOMAIN s = 1 .. m /\ DOMAIN t = 1 .. m - 1
      /\ s[m] = e /\ \A k \in 1 .. m - 1 : s[k] = t[k]
  BY <1>1, <1>2, <1>3, <1>4 DEF AppendedTo
<1> QED
  BY <1>1, <1>4, <1>5 DEF t, s

\* Sorting rearranges a table: the entry created at the n-th time is the n-th.
LEMMA SortedIs ==
  ASSUME call \in Call, NEW t \in Seq(TableEntry),
         \A j, k \in DOMAIN t : t[j].pos = t[k].pos => j = k,
         NEW s, s = Sorted(t)
  PROVE  /\ s \in Seq(TableEntry) /\ Len(s) = Len(t) /\ DOMAIN s = DOMAIN t
         /\ \A k \in DOMAIN s : \E j \in DOMAIN t : s[k] = t[j]
         /\ \A j \in DOMAIN t : \E k \in DOMAIN s : s[k] = t[j]
         /\ \A j, k \in DOMAIN s : s[j].pos = s[k].pos => j = k
<1>1. CASE ~call.crt
  BY <1>1 DEF Sorted
<1>2. CASE call.crt
  <2> DEFINE n == Len(t)
             time(j) == CrtTime[t[j].pos]
             rank == [j \in 1 .. n |-> Cardinality(Earlier(t, t[j]))]
  <2>1. n \in Nat /\ DOMAIN t = 1 .. n /\ \A j \in 1 .. n : t[j] \in TableEntry
    OBVIOUS
  <2>2. \A j \in 1 .. n : time(j) \in Nat
    <3>1. \A p \in Positions : CrtTime[p] \in Nat
      BY CrtTimeAssumption DEF Positions
    <3> QED
      BY <2>1, <3>1 DEF TableEntry
  <2>3. \A j, k \in 1 .. n : j # k => time(j) # time(k)
    <3>1. \A p, q \in Positions : CrtTime[p] = CrtTime[q] => p = q
      BY CrtTimeAssumption DEF Positions, IsInjective
    <3>2. \A j \in 1 .. n : t[j].pos \in Positions
      BY <2>1 DEF TableEntry
    <3> QED
      BY <2>1, <3>1, <3>2
  <2>4. \A j \in 1 .. n : Earlier(t, t[j]) = {k \in 1 .. n : time(k) < time(j)}
    BY <2>1 DEF Earlier
  <2>5. s = [k \in 1 .. n |-> CHOOSE x \in ToSet(t) : Cardinality(Earlier(t, x)) = k - 1]
    BY <1>2, <2>1 DEF Sorted
  <2> HIDE DEF time
  <2>6. \A j \in 1 .. n : IsFiniteSet(Earlier(t, t[j])) /\ rank[j] \in Nat /\ rank[j] < n
    <3> SUFFICES ASSUME NEW j \in 1 .. n
                 PROVE  IsFiniteSet(Earlier(t, t[j])) /\ rank[j] \in Nat /\ rank[j] < n
      OBVIOUS
    <3>1. IsFiniteSet(1 .. n) /\ Cardinality(1 .. n) = n
      BY <2>1, FS_Interval
    <3>2. Earlier(t, t[j]) \in SUBSET (1 .. n) /\ j \notin Earlier(t, t[j])
      BY <2>2, <2>4
    <3>3. IsFiniteSet(Earlier(t, t[j])) /\ rank[j] <= n /\ rank[j] # n
      BY <3>1, <3>2, FS_Subset
    <3>4. rank[j] \in Nat
      BY <3>3, FS_CardinalityType
    <3> QED
      BY <2>1, <3>3, <3>4
  <2>7. ASSUME NEW j \in 1 .. n, NEW k \in 1 .. n, time(j) < time(k) PROVE rank[j] < rank[k]
    <3>1. Earlier(t, t[j]) \in SUBSET Earlier(t, t[k])
      BY SMTT(30), <2>2, <2>4, <2>7
    <3>2. j \in Earlier(t, t[k]) /\ j \notin Earlier(t, t[j])
      BY <2>2, <2>4, <2>7
    <3>3. rank[j] <= rank[k] /\ rank[j] # rank[k]
      BY <2>6, <3>1, <3>2, FS_Subset
    <3> QED
      BY <2>6, <3>3
  <2>8. \A j, k \in 1 .. n : rank[j] = rank[k] => j = k
    BY <2>2, <2>3, <2>6, <2>7
  <2>9. \A m \in 0 .. n - 1 : \E j \in 1 .. n : rank[j] = m
    <3>1. rank \in [1 .. n -> 0 .. n - 1]
      BY <2>1, <2>6
    <3>2. rank \in Injection(1 .. n, 0 .. n - 1)
      <4> HIDE DEF rank, n
      <4> QED
        BY <2>8, <3>1 DEF Injection, IsInjective
    <3>3. /\ IsFiniteSet(0 .. n - 1)
          /\ Cardinality(0 .. n - 1) = Cardinality(1 .. n)
      BY <2>1, FS_Interval
    <3> HIDE DEF rank, n
    <3>4. rank \in Surjection(1 .. n, 0 .. n - 1)
      BY <3>2, <3>3, FS_Injection
    <3> QED
      BY <3>4 DEF Surjection
  <2>10. ASSUME NEW k \in 1 .. n PROVE \E j \in 1 .. n : s[k] = t[j] /\ rank[j] = k - 1
    <3>1. k - 1 \in 0 .. n - 1
      BY <2>1
    <3>2. PICK j \in 1 .. n : rank[j] = k - 1
      BY <2>9, <3>1
    <3>3. t[j] \in ToSet(t) /\ Cardinality(Earlier(t, t[j])) = k - 1
      BY <2>1, <3>2 DEF ToSet
    <3>4. s[k] \in ToSet(t) /\ Cardinality(Earlier(t, s[k])) = k - 1
      BY <2>5, <3>3
    <3>5. PICK i \in 1 .. n : s[k] = t[i]
      BY <2>1, <3>4 DEF ToSet
    <3> QED
      BY <3>4, <3>5
  <2>11. s \in Seq(TableEntry) /\ Len(s) = n /\ DOMAIN s = 1 .. n
    <3>1. DOMAIN s = 1 .. n /\ s = [k \in 1 .. n |-> s[k]]
      BY <2>5
    <3>2. \A k \in 1 .. n : s[k] \in TableEntry
      BY <2>1, <2>10
    <3> HIDE DEF n
    <3>3. s \in [1 .. n -> TableEntry]
      BY <3>1, <3>2
    <3> QED
      BY <2>1, <3>3
  <2>12. ASSUME NEW j \in 1 .. n PROVE \E k \in 1 .. n : s[k] = t[j]
    <3> DEFINE m == rank[j] + 1
    <3>1. m \in 1 .. n /\ rank[j] = m - 1
      BY <2>1, <2>6
    <3> HIDE DEF m, rank
    <3>2. PICK i \in 1 .. n : s[m] = t[i] /\ rank[i] = m - 1
      BY <2>10, <3>1
    <3> QED
      BY <2>8, <3>1, <3>2
  <2>13. ASSUME NEW j \in 1 .. n, NEW k \in 1 .. n, s[j].pos = s[k].pos PROVE j = k
    <3>1. PICK a \in 1 .. n : s[j] = t[a] /\ rank[a] = j - 1
      BY <2>10
    <3>2. PICK b \in 1 .. n : s[k] = t[b] /\ rank[b] = k - 1
      BY <2>10
    <3>3. a = b
      BY <2>1, <2>13, <3>1, <3>2
    <3> QED
      BY <3>1, <3>2, <3>3
  <2> QED
    BY ZenonT(40), <2>1, <2>10, <2>11, <2>12, <2>13
<1> QED
  BY <1>1, <1>2 DEF Call

-----------------------------------------------------------------------------
(* The invariant of the recursion: steps between calls, and of other clients. *)

LEMMA NoTablesIs ==
  /\ NoTables \in [Owner -> Seq(TableEntry)]
  /\ \A o \in Owner : NoTables[o] = <<>> /\ DOMAIN NoTables[o] = {}
  BY DEF NoTables

LEMMA VisitInitInv ==
  ASSUME VisitInit
  PROVE  NestInv
<1>1. call \in Call
  BY GroupAssumption DEF VisitInit, Call, Op
<1>2. VisitTypes
  BY <1>1, NoTablesIs DEF VisitInit, VisitTypes, Op
<1>3. Fresh /\ OwnTables /\ Builds /\ Traverses /\ Deep
  BY DEF VisitInit, Fresh, OwnTables, Builds, Traverses, Deep
<1>4. Entered
  BY NoTablesIs DEF VisitInit, Entered, EnteredIn
<1> QED
  BY <1>2, <1>3, <1>4 DEF NestInv

LEMMA StartVisitInv ==
  ASSUME NestInv, NEW c \in Call, NEW i \in 0 .. Len(CrtTime), Start(c, i)
  PROVE  NestInv'
<1>1. VisitTypes'
  <2>1. idx' \in Nat /\ calls' \in Nat
    BY CrtTimeAssumption DEF NestInv, VisitTypes, Start
  <2> QED
    BY <2>1, NoTablesIs DEF NestInv, VisitTypes, Start, NoTables
<1>2. Fresh' /\ OwnTables' /\ Builds' /\ Traverses'
  BY DEF Start, Fresh, OwnTables, Builds, Traverses, NoTables
<1>3. Entered'
  <2>1. tables' = NoTables /\ visited' = {}
    BY DEF Start, NoTables
  <2> QED
    BY <2>1, NoTablesIs DEF Entered, EnteredIn
<1>4. Deep'
  <2>1. calls \in Nat /\ calls' = calls + 1 /\ phase' = "start" /\ depth' = depth
    BY DEF NestInv, VisitTypes, Start
  <2>2. calls <= 0 => depth = [o \in Op |-> 0]
    BY <2>1 DEF NestInv, Deep
  <2> QED
    BY <2>1, <2>2 DEF Deep
<1> QED
  BY <1>1, <1>2, <1>3, <1>4 DEF NestInv

\* The end of a call, however it comes about.
LEMMA ReturnedInv ==
  ASSUME NestInv, phase # "idle", phase' \in {"returned", "crashed"}, stack' = <<>>,
         UNCHANGED <<graph, call, visited, calls>>,
         tables' \in [Owner -> Seq(TableEntry)], Entered', executed' \subseteq Object,
         depth' \in [Op -> Nat], idx' \in Nat, ret' \in {"ok", "fail"}, stopped' \in BOOLEAN
  PROVE  NestInv'
<1>1. VisitTypes'
  BY DEF NestInv, VisitTypes, graph
<1>2. Fresh' /\ OwnTables' /\ Builds' /\ Traverses'
  BY DEF Fresh, OwnTables, Builds, Traverses
<1>3. Deep'
  BY DEF NestInv, Deep
<1> QED
  BY <1>1, <1>2, <1>3 DEF NestInv

LEMMA EnteredStays ==
  ASSUME Entered, UNCHANGED <<call, tables, visited>>
  PROVE  Entered'
  BY DEF Entered, EnteredIn

LEMMA FirstRequestFailsInv ==
  ASSUME NestInv, FirstRequestFails
  PROVE  NestInv'
<1>1. Entered'
  BY EnteredStays DEF NestInv, FirstRequestFails, visits
<1>2. stack = <<>>
  BY DEF NestInv, VisitTypes, FirstRequestFails
<1> QED
  BY <1>1, <1>2, ReturnedInv DEF NestInv, VisitTypes, FirstRequestFails, visits, graph

LEMMA BuildFailsInv ==
  ASSUME NestInv, BuildFails
  PROVE  NestInv'
<1>1. Entered'
  BY EnteredStays DEF NestInv, BuildFails
<1> QED
  BY <1>1, ReturnedInv DEF NestInv, VisitTypes, BuildFails, Building, graph

LEMMA StartObjectInv ==
  ASSUME NestInv, NEW r \in {-1, 0, 1}, StartObject(r)
  PROVE  NestInv'
<1>1. stack = <<>> /\ stack' = <<>> /\ stopped' \in BOOLEAN /\ phase' \in {"start", "returned"} /\ phase = "start"
  BY DEF NestInv, VisitTypes, StartObject, visits
<1>2. Entered'
  BY EnteredStays DEF NestInv, StartObject, visits
<1>3. CASE phase' = "returned"
  BY <1>1, <1>2, <1>3, ReturnedInv DEF NestInv, VisitTypes, StartObject, visits, graph
<1>4. CASE phase' = "start"
  <2>1. VisitTypes'
    BY <1>1, <1>4 DEF NestInv, VisitTypes, StartObject, visits, graph
  <2>2. Fresh' /\ OwnTables' /\ Builds' /\ Traverses'
    BY <1>1, <1>4 DEF NestInv, Fresh, OwnTables, Builds, Traverses, StartObject, visits, NoTables
  <2>3. Deep'
    BY <1>1, <1>4 DEF NestInv, Deep, StartObject
  <2> QED
    BY <1>2, <2>1, <2>2, <2>3 DEF NestInv
<1> QED
  BY <1>1, <1>3, <1>4

LEMMA OtherClientVisitInv ==
  ASSUME NestInv, NEW g \in Group, OtherClient(g)
  PROVE  NestInv'
<1>1. VisitTypes'
  BY DEF NestInv, VisitTypes, OtherClient, visits, BuildFrames, TraverseFrames
<1>2. Fresh' /\ OwnTables' /\ Builds' /\ Traverses' /\ Deep'
  BY DEF NestInv, Fresh, OwnTables, Builds, Traverses, Astray, Deep, OtherClient, visits, NoTables
<1>3. Entered'
  BY EnteredStays DEF NestInv, OtherClient, visits
<1> QED
  BY <1>1, <1>2, <1>3 DEF NestInv

LEMMA StutterVisitInv ==
  ASSUME NestInv, UNCHANGED visitVars
  PROVE  NestInv'
<1>1. VisitTypes'
  BY DEF NestInv, VisitTypes, visitVars, BuildFrames, TraverseFrames
<1>2. Fresh' /\ OwnTables' /\ Builds' /\ Traverses' /\ Deep'
  BY DEF NestInv, Fresh, OwnTables, Builds, Traverses, Astray, Deep, visitVars, NoTables
<1>3. Entered'
  BY EnteredStays DEF NestInv, visitVars
<1> QED
  BY <1>1, <1>2, <1>3 DEF NestInv


-----------------------------------------------------------------------------
(* While tables are built. *)

\* An entry is added to the table of a group that has been entered.
LEMMA EntryEntered ==
  ASSUME NEW tb, tb \in [Owner -> Seq(TableEntry)], EnteredIn(tb),
         NEW o \in Owner, NEW e \in TableEntry, NEW tc, AddedTo(tb, o, e, tc),
         o \in visited \/ o = Outermost,
         e.hard => e.target \in Object,
         e.sub => e.hard /\ e.target \in visited,
         \A u \in Owner : \A k \in DOMAIN tb[u] : tb[u][k].sub /\ e.sub => tb[u][k].target # e.target,
         \A k \in DOMAIN tb[o] : tb[o][k].pos # e.pos
  PROVE  EnteredIn(tc)
<1> DEFINE m == Len(tb[o]) + 1
           Old(u, k) == k \in DOMAIN tb[u] /\ tc[u][k] = tb[u][k] /\ (u = o => k # m)
           Added(u, k) == u = o /\ k = m /\ tc[u][k] = e
<1>0. /\ m \in Nat \ {0} /\ DOMAIN tc[o] = 1 .. m /\ DOMAIN tb[o] = 1 .. m - 1
      /\ tc[o][m] = e /\ \A k \in 1 .. m - 1 : tc[o][k] = tb[o][k]
      /\ \A u \in Owner : u # o => tc[u] = tb[u]
  <2> DEFINE t == tb[o]
             s == tc[o]
  <2>1. /\ s \in Seq(TableEntry) /\ AppendedTo(TableEntry, t, e, s) /\ t \in Seq(TableEntry)
        /\ \A u \in Owner : u # o => tc[u] = tb[u]
    BY DEF AddedTo
  <2>2. m = Len(t) + 1
    OBVIOUS
  <2> HIDE DEF t, s, m
  <2>3. Len(t) \in Nat /\ DOMAIN t = 1 .. Len(t) /\ DOMAIN s = 1 .. Len(s)
    BY <2>1
  <2>4. m \in Nat \ {0} /\ Len(t) = m - 1
    BY <2>2, <2>3
  <2>5. /\ DOMAIN s = 1 .. m /\ DOMAIN t = 1 .. m - 1
        /\ s[m] = e /\ \A k \in 1 .. m - 1 : s[k] = t[k]
    BY <2>1, <2>2, <2>3, <2>4 DEF AppendedTo
  <2> QED
    BY <2>1, <2>4, <2>5 DEF t, s
<1>1. ASSUME NEW u \in Owner, NEW k \in DOMAIN tc[u] PROVE Old(u, k) \/ Added(u, k)
  <2>1. CASE u # o
    BY <1>0, <2>1
  <2>2. CASE u = o /\ k = m
    BY <1>0, <2>2
  <2>3. CASE u = o /\ k # m
    <3>1. k \in 1 .. m - 1
      BY <1>0, <2>3
    <3> QED
      BY <1>0, <2>3, <3>1
  <2> QED
    BY <2>1, <2>2, <2>3
<1> HIDE DEF m
<1>2. \A u \in Owner : \A k \in DOMAIN tc[u] :
        /\ u \in visited \/ u = Outermost
        /\ tc[u][k].hard => tc[u][k].target \in Object
        /\ tc[u][k].sub => tc[u][k].hard /\ tc[u][k].target \in visited
  BY SMTT(30), <1>1 DEF EnteredIn
<1>3. ASSUME NEW u \in Owner, NEW v \in Owner, NEW k \in DOMAIN tc[u], NEW n \in DOMAIN tc[v]
      PROVE  /\ tc[u][k].sub /\ tc[v][n].sub /\ tc[u][k].target = tc[v][n].target => u = v /\ k = n
             /\ u = v /\ tc[u][k].pos = tc[v][n].pos => k = n
  <2>1. CASE Old(u, k) /\ Old(v, n)
    BY <2>1 DEF EnteredIn
  <2>2. CASE Old(u, k) /\ Added(v, n)
    BY <2>2
  <2>3. CASE Added(u, k) /\ Old(v, n)
    BY <2>3
  <2>4. CASE Added(u, k) /\ Added(v, n)
    BY <2>4
  <2> QED
    BY <1>1, <2>1, <2>2, <2>3, <2>4
<1> QED
  BY <1>2, <1>3 DEF EnteredIn

\* Tables tc are tb with the table of o sorted.
SortedTo(tb, o, tc) ==
  /\ EnteredIn(tc) /\ tc \in [Owner -> Seq(TableEntry)] /\ tc[o] = Sorted(tb[o])
  /\ \A u \in Owner : u # o => tc[u] = tb[u]
  /\ \A u \in Owner : \A k \in DOMAIN tc[u] : \E j \in DOMAIN tb[u] : tc[u][k] = tb[u][j]
  /\ \A u \in Owner : \A j \in DOMAIN tb[u] : \E k \in DOMAIN tc[u] : tc[u][k] = tb[u][j]

LEMMA SortedEntered ==
  ASSUME call \in Call, NEW tb, tb \in [Owner -> Seq(TableEntry)], EnteredIn(tb),
         NEW o \in Owner, NEW tc, tc = [tb EXCEPT ![o] = Sorted(tb[o])]
  PROVE  SortedTo(tb, o, tc)
<1> DEFINE t == tb[o]
           s == Sorted(t)
<1>1. t \in Seq(TableEntry) /\ \A j, k \in DOMAIN t : t[j].pos = t[k].pos => j = k
  BY DEF EnteredIn
<1>2. tc = [tb EXCEPT ![o] = s]
  OBVIOUS
<1> HIDE DEF t
<1>3. /\ s \in Seq(TableEntry) /\ Len(s) = Len(t) /\ DOMAIN s = DOMAIN t
      /\ \A k \in DOMAIN s : \E j \in DOMAIN t : s[k] = t[j]
      /\ \A j \in DOMAIN t : \E k \in DOMAIN s : s[k] = t[j]
      /\ \A j, k \in DOMAIN s : s[j].pos = s[k].pos => j = k
  BY <1>1, SortedIs
<1> HIDE DEF s
<1>4. tc[o] = s /\ tb[o] = t /\ tc \in [Owner -> Seq(TableEntry)] /\ \A u \in Owner : u # o => tc[u] = tb[u]
  BY <1>2, <1>3 DEF t
<1>5. ASSUME NEW u \in Owner, NEW k \in DOMAIN tc[u]
      PROVE  \E j \in DOMAIN tb[u] : tc[u][k] = tb[u][j]
  <2>1. CASE u = o
    BY <1>3, <1>4, <2>1
  <2>2. CASE u # o
    BY <1>4, <2>2
  <2> QED
    BY <2>1, <2>2
<1>6. ASSUME NEW u \in Owner, NEW j \in DOMAIN tc[u], NEW k \in DOMAIN tc[u], tc[u][j].pos = tc[u][k].pos
      PROVE  j = k
  <2>1. CASE u = o
    BY <1>3, <1>4, <1>6, <2>1
  <2>2. CASE u # o
    BY <1>4, <1>6, <2>2 DEF EnteredIn
  <2> QED
    BY <2>1, <2>2
<1>7. \A u \in Owner : \A k \in DOMAIN tc[u] :
        /\ u \in visited \/ u = Outermost
        /\ tc[u][k].hard => tc[u][k].target \in Object
        /\ tc[u][k].sub => tc[u][k].hard /\ tc[u][k].target \in visited
  BY <1>5 DEF EnteredIn
<1>8. ASSUME NEW u \in Owner, NEW v \in Owner, NEW k \in DOMAIN tc[u], NEW n \in DOMAIN tc[v],
             tc[u][k].sub, tc[v][n].sub, tc[u][k].target = tc[v][n].target
      PROVE  u = v /\ k = n
  <2>1. PICK i \in DOMAIN tb[u] : tc[u][k] = tb[u][i]
    BY <1>5
  <2>2. PICK j \in DOMAIN tb[v] : tc[v][n] = tb[v][j]
    BY <1>5
  <2>3. u = v /\ i = j
    BY <1>8, <2>1, <2>2 DEF EnteredIn
  <2> QED
    BY SMTT(30), <1>6, <2>1, <2>2, <2>3
<1>9. EnteredIn(tc)
  BY <1>6, <1>7, <1>8 DEF EnteredIn
<1>10. ASSUME NEW u \in Owner, NEW j \in DOMAIN tb[u]
       PROVE  \E k \in DOMAIN tc[u] : tc[u][k] = tb[u][j]
  <2>1. CASE u = o
    BY <1>3, <1>4, <2>1
  <2>2. CASE u # o
    BY <1>4, <2>2
  <2> QED
    BY <2>1, <2>2
<1>11. tc[o] = Sorted(tb[o])
  BY <1>4 DEF s
<1> QED
  BY <1>4, <1>5, <1>9, <1>10, <1>11 DEF SortedTo


LEMMA BuildFrameIs ==
  ASSUME VisitTypes, NEW o \in Owner, NEW f, f = BuildFrame(o)
  PROVE  /\ f \in BuildFrames /\ f.own = o /\ f.i = 1 /\ f.links = links[GroupOf(o)]
         /\ Len(f.links) \in Nat /\ Len(f.links) <= Len(CrtTime)
<1>1. GroupOf(o) \in Group
  BY GroupAssumption DEF GroupOf, Owner, VisitTypes, Call
<1>2. links \in [Group -> Seq(Link)] /\ \A g \in Group : Len(links[g]) <= Len(CrtTime)
  BY GraphAssumption DEF VisitTypes
<1>3. f = [own |-> o, links |-> links[GroupOf(o)], i |-> 1]
  BY DEF BuildFrame
<1>4. links[GroupOf(o)] \in Seq(Link) /\ Len(links[GroupOf(o)]) <= Len(CrtTime)
  BY <1>1, <1>2
<1> QED
  BY <1>3, <1>4 DEF BuildFrames

\* The activation that processes a link.
LEMMA BuildingIs ==
  ASSUME NestInv, phase = "build", NEW n, n = Len(stack)
  PROVE  /\ stack # <<>> /\ stack \in Seq(BuildFrames) /\ n \in Nat \ {0}
         /\ Top = stack[n] /\ Top \in BuildFrames /\ Top.own \in Owner /\ Top.links \in Seq(Link)
         /\ Top.own \in visited \/ Top.own = Outermost
         /\ Top.i \in Nat \ {0} /\ DOMAIN tables[Top.own] = 1 .. Top.i - 1
         /\ Len(tables[Top.own]) = Top.i - 1
         /\ \A k \in DOMAIN tables[Top.own] : tables[Top.own][k].pos = k
         /\ Top.i <= Len(Top.links) =>
              /\ Top.i \in Positions
              /\ CurLink \in Link /\ CurLink.hard \in BOOLEAN /\ CurLink.target \in Object \cup {Nil}
              /\ CurLink.hard => CurLink.target \in Object
<1>1. /\ stack # <<>> /\ stack \in Seq(BuildFrames) /\ n \in Nat \ {0}
      /\ Top = stack[n] /\ Top \in BuildFrames
  BY StackIs DEF NestInv, VisitTypes, Frames
<1>2. Top.own \in Owner /\ Top.links \in Seq(Link) /\ Top.i \in Nat
  BY <1>1 DEF BuildFrames
<1>3. Top.own \in visited \/ Top.own = Outermost
  <2>1. n = 1 \/ n \in 2 .. n
    BY <1>1
  <2> QED
    BY <1>1, <2>1 DEF NestInv, OwnTables
<1>4. /\ Top.i \in 1 .. Len(Top.links) + 1 /\ Len(Top.links) <= Len(CrtTime)
      /\ Len(tables[Top.own]) = Top.i - 1
      /\ \A k \in DOMAIN tables[Top.own] : tables[Top.own][k].pos = k
  <2>1. n \in 1 .. n
    BY <1>1
  <2> QED
    BY <1>1, <2>1 DEF NestInv, Builds
<1>5. tables[Top.own] \in Seq(TableEntry)
  BY <1>2 DEF NestInv, VisitTypes
<1>6. DOMAIN tables[Top.own] = 1 .. Top.i - 1
  BY <1>4, <1>5
<1>7. ASSUME Top.i <= Len(Top.links)
      PROVE  /\ Top.i \in Positions
             /\ CurLink \in Link /\ CurLink.hard \in BOOLEAN /\ CurLink.target \in Object \cup {Nil}
             /\ CurLink.hard => CurLink.target \in Object
  <2>1. Len(Top.links) \in Nat /\ Len(CrtTime) \in Nat
    BY <1>2, CrtTimeAssumption
  <2>2. Top.i \in Positions /\ Top.i \in 1 .. Len(Top.links)
    BY <1>2, <1>4, <1>7, <2>1 DEF Positions
  <2>3. CurLink \in Link
    BY <1>2, <2>2 DEF CurLink
  <2> QED
    BY <2>2, <2>3 DEF Link
<1> QED
  BY <1>1, <1>2, <1>3, <1>4, <1>6, <1>7

LEMMA FirstAnswerInv ==
  ASSUME NestInv, FirstAnswer
  PROVE  NestInv'
<1> DEFINE f == BuildFrame(Outermost)
<1>1. f \in BuildFrames /\ f.own = Outermost /\ f.i = 1 /\ Len(f.links) \in Nat /\ Len(f.links) <= Len(CrtTime)
  BY BuildFrameIs DEF NestInv, Owner
<1>2. stack' = <<f>> /\ phase = "start" /\ phase' = "build" /\ tables = NoTables /\ tables' = tables /\ visited' = visited
      /\ links' = links /\ call' = call /\ depth' = depth /\ calls' = calls /\ visited = {}
  BY DEF FirstAnswer, NestInv, Fresh, graph
<1> HIDE DEF f
<1>3. stack' \in Seq(BuildFrames) /\ Len(stack') = 1 /\ stack'[1] = f /\ stack' # <<>>
  BY <1>1, <1>2
<1>4. VisitTypes'
  BY <1>2, <1>3 DEF NestInv, VisitTypes, FirstAnswer, graph
<1>5. Fresh' /\ Traverses' /\ Deep'
  BY <1>2 DEF NestInv, Fresh, Traverses, Deep
<1>6. OwnTables'
  <2>1. \A j \in 2 .. Len(stack') : FALSE
    BY <1>3
  <2>2. \A j, k \in 1 .. Len(stack') : j = k
    BY <1>3
  <2> QED
    BY <1>1, <1>3, <2>1, <2>2 DEF OwnTables
<1>7. Entered'
  BY <1>2, EnteredStays DEF NestInv
<1>8. Builds'
  <2>1. \A j \in 1 .. Len(stack') : j = 1
    BY <1>3
  <2>2. \A j \in 1 .. Len(stack') - 1 : FALSE
    BY <1>3
  <2>3. \A o \in Owner : tables'[o] = <<>> /\ DOMAIN tables'[o] = {}
    BY <1>2, NoTablesIs
  <2>4. stack'[1].own \in Owner /\ Len(tables'[stack'[1].own]) = 0
    BY <1>1, <1>3, <2>3 DEF Owner
  <2>5. stack'[1].i = 1 /\ 1 \in 1 .. Len(f.links) + 1 /\ 1 - 1 = 0
    BY <1>1, <1>3
  <2>6. \A j \in 1 .. Len(stack') :
         /\ stack'[j].i \in 1 .. Len(stack'[j].links) + 1
         /\ Len(stack'[j].links) <= Len(CrtTime)
         /\ Len(tables'[stack'[j].own]) = stack'[j].i - 1
         /\ \A k \in DOMAIN tables'[stack'[j].own] : tables'[stack'[j].own][k].pos = k
    BY <1>1, <1>3, <2>1, <2>3, <2>4, <2>5
  <2> QED
    BY <2>2, <2>3, <2>6 DEF Builds
<1> QED
  BY <1>4, <1>5, <1>6, <1>7, <1>8 DEF NestInv


\* What becomes of the stack and of the tables when the current link is processed without an
\* activation of its own.
LinkAdded(n, o, e, f, m) ==
  /\ stack # <<>> /\ stack \in Seq(BuildFrames) /\ n \in Nat \ {0}
  /\ Top = stack[n] /\ Top \in BuildFrames /\ o \in Owner /\ Top.links \in Seq(Link)
  /\ o \in visited \/ o = Outermost
  /\ m \in Nat \ {0} /\ m <= Len(Top.links)
  /\ CurLink \in Link /\ (CurLink.hard => CurLink.target \in Object)
  /\ e \in TableEntry /\ e.pos = m /\ ~e.sub /\ e.hard = CurLink.hard /\ e.target = CurLink.target
  /\ f \in BuildFrames /\ f.own = o /\ f.links = Top.links /\ f.i = m + 1
  /\ tables' = [tables EXCEPT ![o] = Append(@, e)]
  /\ phase = "build" /\ phase' = "build" /\ visited' = visited /\ call' = call /\ links' = links
  /\ depth' = depth /\ calls' = calls
  /\ stack' \in Seq(BuildFrames) /\ stack' # <<>> /\ Len(stack') = n /\ stack'[n] = f
  /\ \A j \in 1 .. n - 1 : stack'[j] = stack[j]
  /\ \A j \in 1 .. n : stack'[j].own = stack[j].own /\ stack'[j].links = stack[j].links
  /\ tables' \in [Owner -> Seq(TableEntry)]
  /\ AddedTo(tables, o, e, tables')
  /\ Len(tables'[o]) = m /\ DOMAIN tables'[o] = 1 .. m /\ DOMAIN tables[o] = 1 .. m - 1
  /\ tables'[o][m] = e /\ \A k \in 1 .. m - 1 : tables'[o][k] = tables[o][k] /\ tables[o][k].pos = k
  /\ \A u \in Owner : u # o => tables'[u] = tables[u]

LEMMA AddLinkIs ==
  ASSUME NestInv, AddLink, NEW n, n = Len(stack), NEW o, o = Top.own, NEW e, e = NewEntry(FALSE),
         NEW f, f = [Top EXCEPT !.i = @ + 1], NEW m, m = Top.i
  PROVE  LinkAdded(n, o, e, f, m)
<1>1. /\ stack # <<>> /\ stack \in Seq(BuildFrames) /\ n \in Nat \ {0}
      /\ Top = stack[n] /\ Top \in BuildFrames /\ o \in Owner /\ Top.links \in Seq(Link)
      /\ o \in visited \/ o = Outermost
      /\ m \in Nat \ {0} /\ DOMAIN tables[o] = 1 .. m - 1
      /\ Len(tables[o]) = m - 1
      /\ \A k \in DOMAIN tables[o] : tables[o][k].pos = k
      /\ m <= Len(Top.links)
      /\ m \in Positions
      /\ CurLink \in Link /\ CurLink.hard \in BOOLEAN /\ CurLink.target \in Object \cup {Nil}
      /\ CurLink.hard => CurLink.target \in Object
  BY BuildingIs DEF AddLink, Building
<1>2. /\ e \in TableEntry /\ e.pos = m /\ ~e.sub /\ e.hard = CurLink.hard /\ e.target = CurLink.target
  BY <1>1 DEF NewEntry, TableEntry
<1>3. f \in BuildFrames /\ f.own = o /\ f.links = Top.links /\ f.i = m + 1
  <2>1. Top \in [own : Owner, links : Seq(Link), i : Nat] /\ Top.i + 1 \in Nat
    BY <1>1 DEF BuildFrames
  <2>2. f \in [own : Owner, links : Seq(Link), i : Nat]
    BY <2>1
  <2>3. f.own = Top.own /\ f.links = Top.links /\ f.i = Top.i + 1
    BY <2>1
  <2> QED
    BY <2>2, <2>3 DEF BuildFrames
<1>4. /\ stack' = Append(Front(stack), f) /\ tables' = [tables EXCEPT ![o] = Append(@, e)]
      /\ phase = "build" /\ phase' = "build" /\ visited' = visited /\ call' = call /\ links' = links
      /\ depth' = depth /\ calls' = calls
  BY DEF AddLink, Building, Below, graph
<1>5. o = stack[n].own
  BY <1>1
<1>6. /\ stack' \in Seq(BuildFrames) /\ stack' # <<>> /\ Len(stack') = n /\ stack'[n] = f
      /\ \A j \in 1 .. n - 1 : stack'[j] = stack[j]
  <2>1. ReplacedIn(BuildFrames, stack, f, stack')
    BY <1>1, <1>3, <1>4, ReplacedLast
  <2> QED
    BY <2>1 DEF ReplacedIn
<1>7. /\ tables \in [Owner -> Seq(TableEntry)] /\ o \in Owner
  BY <1>1 DEF NestInv, VisitTypes
<1>8. m = Len(tables[o]) + 1
  BY <1>1
<1>12. AddedTo(tables, o, e, tables')
  BY <1>2, <1>4, <1>7, EntryAdded
<1>9. /\ tables' \in [Owner -> Seq(TableEntry)]
      /\ Len(tables'[o]) = m /\ DOMAIN tables'[o] = 1 .. m /\ DOMAIN tables[o] = 1 .. m - 1
      /\ tables'[o][m] = e /\ \A k \in 1 .. m - 1 : tables'[o][k] = tables[o][k]
      /\ \A u \in Owner : u # o => tables'[u] = tables[u]
  <2>1. /\ tables' \in [Owner -> Seq(TableEntry)] /\ \A u \in Owner : u # o => tables'[u] = tables[u]
        /\ tables'[o] \in Seq(TableEntry)
        /\ AppendedTo(TableEntry, tables[o], e, tables'[o])
    BY <1>12 DEF AddedTo
  <2>2. /\ Len(tables'[o]) = m /\ tables'[o][m] = e
        /\ \A k \in 1 .. Len(tables[o]) : tables'[o][k] = tables[o][k]
    BY <1>8, <2>1 DEF AppendedTo
  <2>3. DOMAIN tables'[o] = 1 .. m /\ DOMAIN tables[o] = 1 .. m - 1
    BY <1>1, <2>1, <2>2
  <2>4. \A k \in 1 .. m - 1 : tables'[o][k] = tables[o][k]
    BY <1>1, <2>2
  <2> QED
    BY <2>1, <2>2, <2>3, <2>4
<1>10. \A j \in 1 .. n : stack'[j].own = stack[j].own /\ stack'[j].links = stack[j].links
  <2>1. \A j \in 1 .. n : j = n \/ j \in 1 .. n - 1
    BY <1>1
  <2> QED
    BY <1>1, <1>3, <1>5, <1>6, <2>1
<1>11. \A k \in 1 .. m - 1 : tables[o][k].pos = k
  BY <1>1
<1> QED
  BY <1>1, <1>2, <1>3, <1>4, <1>6, <1>9, <1>10, <1>11, <1>12 DEF LinkAdded

LEMMA AddLinkInv ==
  ASSUME NestInv, AddLink
  PROVE  NestInv'
<1> DEFINE n == Len(stack)
           o == Top.own
           e == NewEntry(FALSE)
           f == [Top EXCEPT !.i = @ + 1]
           m == Top.i
<1>0. LinkAdded(n, o, e, f, m)
  BY AddLinkIs
<1> HIDE DEF e, f, n, o, m
<1>1. /\ stack # <<>> /\ stack \in Seq(BuildFrames) /\ n \in Nat \ {0}
      /\ Top = stack[n] /\ o \in Owner /\ (o \in visited \/ o = Outermost) /\ Top.links \in Seq(Link)
      /\ m \in Nat \ {0} /\ m <= Len(Top.links)
      /\ CurLink.hard => CurLink.target \in Object
  BY <1>0 DEF LinkAdded
<1>2. /\ e \in TableEntry /\ e.pos = m /\ ~e.sub /\ e.hard = CurLink.hard /\ e.target = CurLink.target
      /\ f.own = o /\ f.links = Top.links /\ f.i = m + 1
  BY <1>0 DEF LinkAdded
<1>4. /\ tables' = [tables EXCEPT ![o] = Append(@, e)]
      /\ phase = "build" /\ phase' = "build" /\ visited' = visited /\ call' = call /\ links' = links
      /\ depth' = depth /\ calls' = calls
  BY <1>0 DEF LinkAdded
<1>5. o = stack[n].own
  BY <1>1 DEF o
<1>6. /\ stack' \in Seq(BuildFrames) /\ stack' # <<>> /\ Len(stack') = n /\ stack'[n] = f
      /\ \A j \in 1 .. n - 1 : stack'[j] = stack[j]
      /\ \A j \in 1 .. n : stack'[j].own = stack[j].own /\ stack'[j].links = stack[j].links
  BY <1>0 DEF LinkAdded
<1>7. /\ tables \in [Owner -> Seq(TableEntry)] /\ EnteredIn(tables)
  BY <1>1 DEF NestInv, VisitTypes, Entered
<1>8. /\ AddedTo(tables, o, e, tables') /\ tables' \in [Owner -> Seq(TableEntry)]
      /\ Len(tables'[o]) = m /\ DOMAIN tables'[o] = 1 .. m /\ DOMAIN tables[o] = 1 .. m - 1
      /\ tables'[o][m] = e /\ \A k \in 1 .. m - 1 : tables'[o][k] = tables[o][k] /\ tables[o][k].pos = k
      /\ \A u \in Owner : u # o => tables'[u] = tables[u]
  BY <1>0 DEF LinkAdded
<1>10. Entered'
  <2>1. \A k \in DOMAIN tables[o] : tables[o][k].pos # e.pos
    BY <1>2, <1>8
  <2>3. /\ tables \in [Owner -> Seq(TableEntry)] /\ EnteredIn(tables) /\ o \in Owner /\ e \in TableEntry
        /\ AddedTo(tables, o, e, tables') /\ (o \in visited \/ o = Outermost)
        /\ (e.hard => e.target \in Object) /\ (e.sub => e.hard /\ e.target \in visited)
        /\ \A u \in Owner : \A k \in DOMAIN tables[u] :
             tables[u][k].sub /\ e.sub => tables[u][k].target # e.target
    BY <1>1, <1>2, <1>7, <1>8
  <2>2. EnteredIn(tables')
    BY <2>1, <2>3, EntryEntered
  <2> QED
    BY <1>4, <2>2 DEF Entered, EnteredIn
<1>11. VisitTypes'
  BY <1>4, <1>6, <1>8 DEF NestInv, VisitTypes, AddLink, graph
<1>13. OwnTables'
  <2>1. 1 \in 1 .. n /\ \A j \in 2 .. n : j \in 1 .. n
    BY <1>1 DEF n
  <2> QED
    BY <1>1, <1>4, <1>6, <1>6, <2>1 DEF NestInv, OwnTables, n
<1>14. Fresh' /\ Traverses' /\ Deep'
  BY <1>4 DEF NestInv, Fresh, Traverses, Deep
<1>15. Builds'
  <2>1. ASSUME NEW j \in 1 .. n
        PROVE  /\ stack'[j].i \in 1 .. Len(stack'[j].links) + 1
               /\ Len(stack'[j].links) <= Len(CrtTime)
               /\ Len(tables'[stack'[j].own]) = stack'[j].i - 1
               /\ \A k \in DOMAIN tables'[stack'[j].own] : tables'[stack'[j].own][k].pos = k
    <3>1. CASE j = n
      <4>1. stack'[j] = f /\ stack'[j].own = o
        BY <1>2, <1>6, <3>1
      <4>2. m + 1 \in 1 .. Len(Top.links) + 1 /\ m + 1 - 1 = m
        BY <1>1
      <4>3. Len(Top.links) <= Len(CrtTime)
        <5>1. Len(stack[j].links) <= Len(CrtTime)
          BY <1>4 DEF NestInv, Builds, n
        <5> QED
          BY <1>1, <3>1, <5>1
      <4>4. \A k \in 1 .. m : k = m \/ k \in 1 .. m - 1
        BY <1>1
      <4>5. \A k \in DOMAIN tables'[o] : tables'[o][k].pos = k
        BY <1>2, <1>8, <4>4
      <4> QED
        <5>1. stack'[j].i = m + 1 /\ stack'[j].links = Top.links
          BY <1>2, <4>1
        <5>2. stack'[j].i \in 1 .. Len(stack'[j].links) + 1 /\ Len(stack'[j].links) <= Len(CrtTime)
          BY <4>2, <4>3, <5>1
        <5>3. Len(tables'[stack'[j].own]) = stack'[j].i - 1
          BY <1>8, <4>1, <4>2, <5>1
        <5> QED
          BY <4>1, <4>5, <5>2, <5>3
    <3>2. CASE j # n
      <4>1. j \in 1 .. n - 1 /\ n \in 1 .. n
        BY <1>1, <3>2 DEF n
      <4>2. stack[j].own # stack[n].own /\ stack[j] \in BuildFrames
        BY <1>1, <3>2, <4>1 DEF NestInv, OwnTables, n
      <4>3. stack'[j] = stack[j] /\ tables'[stack[j].own] = tables[stack[j].own]
        BY <1>5, <1>6, <1>8, <4>1, <4>2 DEF BuildFrames
      <4> QED
        BY <1>4, <4>3 DEF NestInv, Builds, n
    <3> QED
      BY <3>1, <3>2
  <2>2. ASSUME NEW j \in 1 .. n - 1
        PROVE  /\ stack'[j].i <= Len(stack'[j].links)
               /\ stack'[j].links[stack'[j].i].hard
               /\ stack'[j].links[stack'[j].i].target = stack'[j + 1].own
    <3>1. j + 1 \in 1 .. n
      BY <1>1 DEF n
    <3>2. stack'[j] = stack[j] /\ stack'[j + 1].own = stack[j + 1].own
      BY <1>6, <1>6, <3>1
    <3> QED
      BY <1>4, <3>2 DEF NestInv, Builds, n
  <2>3. ASSUME NEW u \in Owner, NEW k \in DOMAIN tables'[u], NEW j \in 1 .. n, tables'[u][k].sub
        PROVE  tables'[u][k].target # stack'[j].own
    <3>1. k \in DOMAIN tables[u] /\ tables'[u][k] = tables[u][k]
      <4>1. CASE u = o
        <5>1. k # m
          BY <1>2, <1>8, <2>3, <4>1
        <5>2. k \in 1 .. m - 1
          BY <1>8, <1>1, <4>1, <5>1
        <5> QED
          BY <1>8, <4>1, <5>2
      <4>2. CASE u # o
        BY <1>8, <4>2
      <4> QED
        BY <4>1, <4>2
    <3> QED
      BY <1>4, <1>6, <2>3, <3>1 DEF NestInv, Builds, n
  <2> QED
    BY <1>6, <2>1, <2>2, <2>3 DEF Builds
<1> QED
  BY <1>10, <1>11, <1>13, <1>14, <1>15 DEF NestInv


\* An activation for the group that the current link leads to.
LEMMA DescendInv ==
  ASSUME NestInv, Descend
  PROVE  NestInv'
<1> DEFINE n == Len(stack)
           t == CurLink.target
           f == BuildFrame(t)
           m == n + 1
<1>1. /\ stack # <<>> /\ stack \in Seq(BuildFrames) /\ n \in Nat \ {0}
      /\ Top = stack[n] /\ Top \in BuildFrames
      /\ Top.i \in Nat \ {0} /\ Top.i <= Len(Top.links)
  BY BuildingIs DEF Descend, Building
<1>2. t \in Group /\ t \notin visited /\ CurLink.hard /\ call.recursive /\ t \in Owner /\ t # Outermost
  BY GroupAssumption DEF Descend, Follows, Owner
<1>3. CurLink = Top.links[Top.i]
  BY DEF CurLink
<1>4. /\ f \in BuildFrames /\ f.own = t /\ f.i = 1
      /\ Len(f.links) \in Nat /\ Len(f.links) <= Len(CrtTime)
  BY <1>2, BuildFrameIs DEF NestInv
<1>5. /\ stack' = Append(stack, f) /\ tables' = tables
      /\ phase = "build" /\ phase' = "build" /\ visited' = visited \cup {t} /\ call' = call /\ links' = links
      /\ depth' = depth /\ calls' = calls
  BY DEF Descend, Building, graph
<1> HIDE DEF f
<1>6. /\ stack' \in Seq(BuildFrames) /\ stack' # <<>> /\ m \in Nat \ {0} /\ Len(stack') = m /\ stack'[m] = f
      /\ \A j \in 1 .. m - 1 : stack'[j] = stack[j]
  BY <1>1, <1>4, <1>5, Appended
<1>7. m - 1 = n /\ \A j \in 1 .. m : j = m \/ j \in 1 .. n
  BY <1>1
<1> HIDE DEF n, m, t
<1>8. /\ \A u \in Owner : \A k \in DOMAIN tables[u] :
           /\ u \in visited \/ u = Outermost
           /\ tables[u][k].hard => tables[u][k].target \in Object
           /\ tables[u][k].sub => tables[u][k].hard /\ tables[u][k].target \in visited
      /\ tables \in [Owner -> Seq(TableEntry)]
  BY DEF NestInv, VisitTypes, Entered, EnteredIn
<1>9. tables[t] = <<>> /\ Len(tables[t]) = 0 /\ DOMAIN tables[t] = {}
  <2>1. DOMAIN tables[t] = {}
    BY <1>2, <1>8
  <2>2. tables[t] \in Seq(TableEntry)
    BY <1>2, <1>8
  <2> QED
    BY <2>1, <2>2, NothingIn
<1>10. \A j \in 1 .. n : stack[j].own = Outermost \/ stack[j].own \in visited
  <2>1. \A j \in 1 .. n : j = 1 \/ j \in 2 .. n
    BY <1>1
  <2> QED
    BY <1>1, <2>1 DEF NestInv, OwnTables, n
<1>11. VisitTypes'
  BY <1>2, <1>5, <1>6 DEF NestInv, VisitTypes, Descend, graph
<1>12. Fresh' /\ Traverses' /\ Deep'
  BY <1>5 DEF NestInv, Fresh, Traverses, Deep
<1>13. Entered'
  BY <1>2, <1>5 DEF NestInv, Entered, EnteredIn
<1>14. OwnTables'
  <2>1. 1 \in 1 .. n
    BY <1>1
  <2>2. stack'[1].own = Outermost
    BY <1>1, <1>6, <1>7, <2>1 DEF NestInv, OwnTables
  <2>3. ASSUME NEW j \in 2 .. m PROVE stack'[j].own \in visited'
    <3>1. j = m \/ j \in 2 .. n
      BY <1>1, <1>6, <1>7, <2>3
    <3>2. CASE j = m
      BY <1>4, <1>5, <1>6, <3>2
    <3>3. CASE j \in 2 .. n
      <4>1. j \in 1 .. n
        BY <1>1, <3>3
      <4> QED
        BY <1>1, <1>5, <1>6, <1>7, <3>3, <4>1 DEF NestInv, OwnTables, n
    <3> QED
      BY <3>1, <3>2, <3>3
  <2>4. ASSUME NEW j \in 1 .. m, NEW k \in 1 .. m, stack'[j].own = stack'[k].own PROVE j = k
    <3>1. \A i \in 1 .. n : stack'[i] = stack[i] /\ stack[i].own # t
      BY <1>2, <1>6, <1>7, <1>10
    <3>2. CASE j \in 1 .. n /\ k \in 1 .. n
      BY <1>1, <2>4, <3>1, <3>2 DEF NestInv, OwnTables, n
    <3> QED
      BY <1>4, <1>6, <1>7, <2>4, <3>1, <3>2
  <2> QED
    BY <1>6, <2>2, <2>3, <2>4 DEF OwnTables
<1>15. Builds'
  <2>1. ASSUME NEW j \in 1 .. m
        PROVE  /\ stack'[j].i \in 1 .. Len(stack'[j].links) + 1
               /\ Len(stack'[j].links) <= Len(CrtTime)
               /\ Len(tables'[stack'[j].own]) = stack'[j].i - 1
               /\ \A k \in DOMAIN tables'[stack'[j].own] : tables'[stack'[j].own][k].pos = k
    <3>1. CASE j = m
      <4>1. 1 \in 1 .. Len(f.links) + 1 /\ 1 - 1 = 0
        BY <1>4
      <4> QED
        BY <1>4, <1>5, <1>6, <1>9, <3>1, <4>1
    <3>2. CASE j \in 1 .. n
      BY <1>5, <1>6, <1>7, <3>2 DEF NestInv, Builds, n
    <3> QED
      BY <1>7, <3>1, <3>2
  <2>2. ASSUME NEW j \in 1 .. m - 1
        PROVE  /\ stack'[j].i <= Len(stack'[j].links)
               /\ stack'[j].links[stack'[j].i].hard
               /\ stack'[j].links[stack'[j].i].target = stack'[j + 1].own
    <3>1. stack'[j] = stack[j] /\ (j = n \/ j \in 1 .. n - 1) /\ j \in Nat
      BY <1>1, <1>6, <1>7
    <3>2. CASE j = n
      <4>1. j + 1 = m
        BY <1>1, <3>2 DEF m
      <4> QED
        BY <1>1, <1>2, <1>3, <1>4, <1>6, <3>1, <3>2, <4>1 DEF t
    <3>3. CASE j \in 1 .. n - 1
      <4>1. j + 1 \in 1 .. n
        BY <1>1, <3>3
      <4>2. stack'[j + 1] = stack[j + 1]
        BY <1>6, <1>7, <4>1
      <4> QED
        BY <1>5, <3>1, <3>3, <4>2 DEF NestInv, Builds, n
    <3> QED
      BY <3>1, <3>2, <3>3
  <2>3. ASSUME NEW u \in Owner, NEW k \in DOMAIN tables[u], NEW j \in 1 .. m, tables[u][k].sub
        PROVE  tables[u][k].target # stack'[j].own
    <3>1. CASE j = m
      BY <1>2, <1>4, <1>6, <1>8, <2>3, <3>1
    <3>2. CASE j \in 1 .. n
      BY <1>5, <1>6, <1>7, <2>3, <3>2 DEF NestInv, Builds, n
    <3> QED
      BY <1>7, <3>1, <3>2
  <2> QED
    BY ZenonT(40), <1>5, <1>6, <2>1, <2>2, <2>3 DEF Builds
<1> QED
  BY <1>11, <1>12, <1>13, <1>14, <1>15 DEF NestInv


\* A complete table is sorted, and its entries stay.
LEMMA SortedTables ==
  ASSUME NestInv, phase = "build", NEW o, o = Top.own,
         NEW tb, tb = [tables EXCEPT ![o] = Sorted(tables[o])]
  PROVE  o \in Owner /\ SortedTo(tables, o, tb)
<1>1. o \in Owner /\ tables \in [Owner -> Seq(TableEntry)] /\ EnteredIn(tables) /\ call \in Call
  BY BuildingIs DEF NestInv, VisitTypes, Entered
<1> QED
  BY <1>1, SortedEntered

\* What becomes of the stack and of the tables when the activation of a complete table
\* ends, and its caller adds the entry.
InnerBuilt(n, m, o, tb, caller, c, k1, e, f) ==
  /\ stack # <<>> /\ stack \in Seq(BuildFrames) /\ n \in Nat \ {0} /\ Top = stack[n] /\ o \in Owner
  /\ n > 1 /\ phase = "build"
  /\ m \in Nat \ {0} /\ m < n /\ m \in 1 .. n /\ n \in 1 .. n /\ n \in 2 .. n /\ m # n /\ m + 1 = n
  /\ m \in 1 .. n - 1
  /\ stack' = Append(Front(Front(stack)), f) /\ tables' = [tb EXCEPT ![c] = Append(@, e)]
  /\ phase' = "build" /\ visited' = visited /\ call' = call /\ links' = links
  /\ depth' = depth /\ calls' = calls
  /\ EnteredIn(tb) /\ tb \in [Owner -> Seq(TableEntry)] /\ SortedTo(tables, o, tb) /\ AddedTo(tb, c, e, tables')
  /\ \A u \in Owner : u # o => tb[u] = tables[u]
  /\ \A u \in Owner : \A k \in DOMAIN tb[u] : \E j \in DOMAIN tables[u] : tb[u][k] = tables[u][j]
  /\ c \in Owner /\ caller.i \in Nat
  /\ f.own = c /\ f.links = caller.links /\ f.i = caller.i + 1
  /\ o = stack[n].own /\ c = stack[m].own /\ Len(stack) = n /\ caller = stack[m]
  /\ o \in visited /\ c # o /\ (c \in visited \/ c = Outermost)
  /\ caller.i \in 1 .. Len(caller.links) /\ Len(caller.links) \in Nat /\ Len(caller.links) <= Len(CrtTime)
  /\ Len(tables[c]) = caller.i - 1 /\ \A k \in DOMAIN tables[c] : tables[c][k].pos = k
  /\ e \in TableEntry
  /\ e.pos = caller.i /\ e.hard /\ e.target = o /\ e.sub
  /\ stack' \in Seq(BuildFrames) /\ stack' # <<>> /\ Len(stack') = m /\ stack'[m] = f
  /\ \A j \in 1 .. m - 1 : stack'[j] = stack[j]
  /\ k1 = caller.i /\ tb[c] = tables[c] /\ k1 \in Nat \ {0}
  /\ tables' \in [Owner -> Seq(TableEntry)]
  /\ Len(tables'[c]) = k1 /\ DOMAIN tables'[c] = 1 .. k1 /\ DOMAIN tb[c] = 1 .. k1 - 1
  /\ tables'[c][k1] = e /\ \A k \in 1 .. k1 - 1 : tables'[c][k] = tb[c][k]
  /\ \A u \in Owner : u # c => tables'[u] = tb[u]
  /\ \A u \in Owner : \A k \in DOMAIN tb[u], j \in 1 .. n : tb[u][k].sub => tb[u][k].target # stack[j].own
  /\ \A j \in 1 .. m : stack'[j].own = stack[j].own /\ stack'[j].links = stack[j].links
  /\ \A j \in 1 .. m : j \in 1 .. n /\ j # n

LEMMA InnerBuiltIs ==
  ASSUME NestInv, TableBuilt, Below # <<>>,
         NEW n, n = Len(stack), NEW m, m = n - 1, NEW o, o = Top.own,
         NEW tb, tb = [tables EXCEPT ![o] = Sorted(tables[o])],
         NEW caller, caller = stack[m], NEW c, c = caller.own, NEW k1, k1 = caller.i,
         NEW e, e = [pos |-> caller.i, hard |-> TRUE, target |-> o, sub |-> TRUE],
         NEW f, f = [caller EXCEPT !.i = @ + 1]
  PROVE  InnerBuilt(n, m, o, tb, caller, c, k1, e, f)
<1>0. phase = "build"
  BY DEF TableBuilt
<1>1. /\ stack # <<>> /\ stack \in Seq(BuildFrames) /\ n \in Nat \ {0} /\ Top = stack[n] /\ o \in Owner
  BY <1>0, BuildingIs
<1>2. n > 1 /\ Last(Below) = caller
  <2>1. n # 1
    BY <1>1, FrontOf DEF Below
  <2>2. n > 1
    BY <1>1, <2>1
  <2>3. /\ Below \in Seq(BuildFrames) /\ Len(Below) = n - 1 /\ \A j \in 1 .. n - 1 : Below[j] = stack[j]
    BY <1>1, FrontOf DEF Below
  <2>4. Last(Below) = Below[n - 1]
    BY <2>3 DEF Last
  <2>5. n - 1 \in 1 .. n - 1
    BY <1>1, <2>2
  <2> QED
    BY <2>2, <2>3, <2>4, <2>5
<1>3. /\ m \in Nat \ {0} /\ m < n /\ m \in 1 .. n /\ n \in 1 .. n /\ n \in 2 .. n /\ m # n /\ m + 1 = n
      /\ m \in 1 .. n - 1
  BY <1>1, <1>2
<1>4. /\ stack' = Append(Front(Front(stack)), f) /\ tables' = [tb EXCEPT ![c] = Append(@, e)]
      /\ phase' = "build" /\ visited' = visited /\ call' = call /\ links' = links
      /\ depth' = depth /\ calls' = calls
  BY <1>0, <1>2 DEF TableBuilt, Below, graph
<1>5. /\ SortedTo(tables, o, tb) /\ EnteredIn(tb) /\ tb \in [Owner -> Seq(TableEntry)]
      /\ \A u \in Owner : u # o => tb[u] = tables[u]
      /\ \A u \in Owner : \A k \in DOMAIN tb[u] : \E j \in DOMAIN tables[u] : tb[u][k] = tables[u][j]
  <2>1. SortedTo(tables, o, tb)
    BY <1>0, SortedTables
  <2> QED
    BY <2>1 DEF SortedTo
<1>6. caller \in BuildFrames /\ c \in Owner /\ caller.i \in Nat
  <2>1. caller \in BuildFrames
    BY <1>1, <1>3
  <2> QED
    BY <2>1 DEF BuildFrames
<1>7. f \in BuildFrames /\ f.own = c /\ f.links = caller.links /\ f.i = caller.i + 1
  BY <1>6 DEF BuildFrames
<1>8. o = stack[n].own /\ c = stack[m].own /\ Len(stack) = n
  BY <1>1
<1>9. /\ o \in visited /\ c # o /\ (c \in visited \/ c = Outermost)
  <2>1. o \in visited /\ c # o
    BY <1>1, <1>3, <1>8 DEF NestInv, OwnTables
  <2>2. m = 1 \/ m \in 2 .. n
    BY <1>1, <1>3
  <2>3. c \in visited \/ c = Outermost
    BY <1>1, <1>8, <2>2 DEF NestInv, OwnTables
  <2> QED
    BY <2>1, <2>3
<1>10. /\ caller.i \in 1 .. Len(caller.links) /\ Len(caller.links) \in Nat /\ Len(caller.links) <= Len(CrtTime)
       /\ Len(tables[c]) = caller.i - 1 /\ \A k \in DOMAIN tables[c] : tables[c][k].pos = k
  <2>1. /\ caller.i \in 1 .. Len(caller.links) + 1 /\ Len(caller.links) <= Len(CrtTime)
        /\ Len(tables[c]) = caller.i - 1 /\ \A k \in DOMAIN tables[c] : tables[c][k].pos = k
    BY <1>0, <1>3, <1>8 DEF NestInv, Builds
  <2>2. caller.i <= Len(caller.links)
    BY <1>0, <1>3, <1>8 DEF NestInv, Builds
  <2>3. Len(caller.links) \in Nat
    BY <1>6 DEF BuildFrames
  <2> QED
    BY <1>6, <2>1, <2>2, <2>3
<1>11. e \in TableEntry
  <2>1. Len(CrtTime) \in Nat
    BY CrtTimeAssumption
  <2>2. caller.i \in Positions
    BY <1>10, <2>1 DEF Positions
  <2>3. o \in Object
    BY <1>9 DEF NestInv, VisitTypes, Object
  <2> QED
    BY <2>2, <2>3 DEF TableEntry
<1>12. /\ e.pos = caller.i /\ e.hard /\ e.target = o /\ e.sub
  OBVIOUS
<1>13. /\ stack' \in Seq(BuildFrames) /\ stack' # <<>> /\ Len(stack') = m /\ stack'[m] = f
       /\ \A j \in 1 .. m - 1 : stack'[j] = stack[j]
  <2>1. /\ stack' \in Seq(BuildFrames) /\ stack' # <<>> /\ Len(stack') = n - 1 /\ stack'[n - 1] = f
        /\ \A j \in 1 .. n - 2 : stack'[j] = stack[j]
    <3>1. PoppedFrom(BuildFrames, stack, f, stack')
      BY <1>1, <1>2, <1>4, <1>7, ReplacedCaller
    <3> QED
      BY <1>8, <3>1 DEF PoppedFrom
  <2>2. m = n - 1 /\ n - 2 = m - 1
    BY <1>1
  <2> QED
    BY <2>1, <2>2
<1>15. k1 = Len(tb[c]) + 1 /\ tb[c] = tables[c] /\ k1 \in Nat \ {0}
  <2>1. tb[c] = tables[c] /\ Len(tables[c]) = k1 - 1
    BY <1>5, <1>6, <1>9, <1>10
  <2>2. k1 \in Nat \ {0}
    <3>1. caller.i \in Nat /\ caller.i \in 1 .. Len(caller.links) /\ Len(caller.links) \in Nat
      BY <1>6, <1>10
    <3> QED
      BY <3>1
  <2>3. \A x : x = k1 - 1 => k1 = x + 1
    BY <2>2
  <2>4. k1 = Len(tb[c]) + 1
    BY <2>1, <2>3, Zenon
  <2> QED
    BY <2>1, <2>2, <2>4
<1>17. AddedTo(tb, c, e, tables')
  BY <1>4, <1>5, <1>6, <1>11, EntryAdded
<1>14. /\ tables' \in [Owner -> Seq(TableEntry)]
       /\ Len(tables'[c]) = k1 /\ DOMAIN tables'[c] = 1 .. k1 /\ DOMAIN tb[c] = 1 .. k1 - 1
       /\ tables'[c][k1] = e /\ \A k \in 1 .. k1 - 1 : tables'[c][k] = tb[c][k]
       /\ \A u \in Owner : u # c => tables'[u] = tb[u]
  <2>1. /\ tables' \in [Owner -> Seq(TableEntry)] /\ \A u \in Owner : u # c => tables'[u] = tb[u]
        /\ tables'[c] \in Seq(TableEntry) /\ tb[c] \in Seq(TableEntry)
        /\ AppendedTo(TableEntry, tb[c], e, tables'[c])
    BY <1>5, <1>6, <1>17 DEF AddedTo
  <2>2. /\ Len(tables'[c]) = k1 /\ tables'[c][k1] = e
        /\ \A k \in 1 .. Len(tb[c]) : tables'[c][k] = tb[c][k]
    BY <1>15, <2>1 DEF AppendedTo
  <2>3. Len(tb[c]) = k1 - 1
    BY <1>15, <2>1
  <2>4. DOMAIN tables'[c] = 1 .. k1 /\ DOMAIN tb[c] = 1 .. k1 - 1
    BY <2>1, <2>2, <2>3
  <2> QED
    BY <2>1, <2>2, <2>3, <2>4
<1>16. \A u \in Owner : \A k \in DOMAIN tb[u], j \in 1 .. n : tb[u][k].sub => tb[u][k].target # stack[j].own
  <2>1. \A u \in Owner : \A k \in DOMAIN tables[u], j \in 1 .. n : tables[u][k].sub => tables[u][k].target # stack[j].own
    BY <1>0, <1>8 DEF NestInv, Builds
  <2> QED
    BY <1>5, <2>1
<1>19. \A j \in 1 .. m : stack'[j].own = stack[j].own /\ stack'[j].links = stack[j].links
  <2>1. \A j \in 1 .. m : j = m \/ j \in 1 .. m - 1
    BY <1>3
  <2> QED
    BY <1>7, <1>8, <1>13, <2>1
<1>20. \A j \in 1 .. m : j \in 1 .. n /\ j # n
  BY <1>1, <1>3
<1> QED
  BY <1>0, <1>1, <1>2, <1>3, <1>4, <1>5, <1>6, <1>7, <1>8, <1>9, <1>10, <1>11, <1>12, <1>13, <1>15, <1>14, <1>16, <1>17, <1>19, <1>20 DEF InnerBuilt

LEMMA InnerBuiltInv ==
  ASSUME NestInv, TableBuilt, Below # <<>>
  PROVE  NestInv'
<1> DEFINE n == Len(stack)
           m == n - 1
           o == Top.own
           tb == [tables EXCEPT ![o] = Sorted(tables[o])]
           caller == stack[m]
           c == caller.own
           k1 == caller.i
           e == [pos |-> caller.i, hard |-> TRUE, target |-> o, sub |-> TRUE]
           f == [caller EXCEPT !.i = @ + 1]
<1>0. InnerBuilt(n, m, o, tb, caller, c, k1, e, f)
  BY InnerBuiltIs
<1> HIDE DEF n, m, o, tb, caller, c, k1, e, f
<1>1. /\ stack # <<>> /\ stack \in Seq(BuildFrames) /\ n \in Nat \ {0} /\ Top = stack[n] /\ o \in Owner
      /\ n > 1 /\ phase = "build"
  BY <1>0 DEF InnerBuilt
<1>3. /\ m \in Nat \ {0} /\ m < n /\ m \in 1 .. n /\ n \in 1 .. n /\ n \in 2 .. n /\ m # n /\ m + 1 = n
      /\ m \in 1 .. n - 1
  BY <1>0 DEF InnerBuilt
<1>4. /\ stack' = Append(Front(Front(stack)), f) /\ tables' = [tb EXCEPT ![c] = Append(@, e)]
      /\ phase' = "build" /\ visited' = visited /\ call' = call /\ links' = links
      /\ depth' = depth /\ calls' = calls
  BY <1>0 DEF InnerBuilt
<1>5. /\ SortedTo(tables, o, tb) /\ AddedTo(tb, c, e, tables') /\ EnteredIn(tb) /\ tb \in [Owner -> Seq(TableEntry)]
      /\ \A u \in Owner : u # o => tb[u] = tables[u]
      /\ \A u \in Owner : \A k \in DOMAIN tb[u] : \E j \in DOMAIN tables[u] : tb[u][k] = tables[u][j]
  BY <1>0 DEF InnerBuilt
<1>6. c \in Owner /\ caller.i \in Nat
  BY <1>0 DEF InnerBuilt
<1>7. f.own = c /\ f.links = caller.links /\ f.i = caller.i + 1
  BY <1>0 DEF InnerBuilt
<1>8. o = stack[n].own /\ c = stack[m].own /\ Len(stack) = n /\ caller = stack[m]
  BY <1>0 DEF InnerBuilt
<1>9. /\ o \in visited /\ c # o /\ (c \in visited \/ c = Outermost)
  BY <1>0 DEF InnerBuilt
<1>10. /\ caller.i \in 1 .. Len(caller.links) /\ Len(caller.links) \in Nat /\ Len(caller.links) <= Len(CrtTime)
       /\ Len(tables[c]) = caller.i - 1 /\ \A k \in DOMAIN tables[c] : tables[c][k].pos = k
  BY <1>0 DEF InnerBuilt
<1>11. e \in TableEntry
  BY <1>0 DEF InnerBuilt
<1>12. /\ e.pos = caller.i /\ e.hard /\ e.target = o /\ e.sub
  BY <1>0 DEF InnerBuilt
<1>13. /\ stack' \in Seq(BuildFrames) /\ stack' # <<>> /\ Len(stack') = m /\ stack'[m] = f
       /\ \A j \in 1 .. m - 1 : stack'[j] = stack[j]
  BY <1>0 DEF InnerBuilt
<1>15. k1 = caller.i /\ tb[c] = tables[c] /\ k1 \in Nat \ {0}
  BY <1>0 DEF InnerBuilt
<1>14. /\ tables' \in [Owner -> Seq(TableEntry)]
       /\ Len(tables'[c]) = k1 /\ DOMAIN tables'[c] = 1 .. k1 /\ DOMAIN tb[c] = 1 .. k1 - 1
       /\ tables'[c][k1] = e /\ \A k \in 1 .. k1 - 1 : tables'[c][k] = tb[c][k]
       /\ \A u \in Owner : u # c => tables'[u] = tb[u]
  BY <1>0 DEF InnerBuilt
<1>16. \A u \in Owner : \A k \in DOMAIN tb[u], j \in 1 .. n : tb[u][k].sub => tb[u][k].target # stack[j].own
  BY <1>0 DEF InnerBuilt
<1>19. \A j \in 1 .. m : stack'[j].own = stack[j].own /\ stack'[j].links = stack[j].links
  BY <1>0 DEF InnerBuilt
<1>20. \A j \in 1 .. m : j \in 1 .. n /\ j # n
  BY <1>0 DEF InnerBuilt
<1>17. Entered'
  <2>1. \A k \in DOMAIN tb[c] : tb[c][k].pos # e.pos
    BY <1>10, <1>12, <1>14, <1>15
  <2>2. \A u \in Owner : \A k \in DOMAIN tb[u] : tb[u][k].sub /\ e.sub => tb[u][k].target # e.target
    BY <1>3, <1>8, <1>12, <1>16
  <2>3. e.target \in Object /\ e.target \in visited
    BY <1>9, <1>12 DEF NestInv, VisitTypes, Object
  <2>4. c \in Owner
    BY <1>6
  <2>6. /\ tb \in [Owner -> Seq(TableEntry)] /\ EnteredIn(tb) /\ e \in TableEntry
        /\ AddedTo(tb, c, e, tables') /\ (c \in visited \/ c = Outermost)
        /\ (e.hard => e.target \in Object) /\ (e.sub => e.hard /\ e.target \in visited)
    BY <1>5, <1>9, <1>11, <1>12, <2>3
  <2>5. EnteredIn(tables')
    BY <2>1, <2>2, <2>4, <2>6, EntryEntered
  <2> QED
    BY <1>4, <2>5 DEF Entered, EnteredIn
<1>18. VisitTypes'
  BY <1>1, <1>4, <1>13, <1>14 DEF NestInv, VisitTypes, TableBuilt, graph
<1>21. OwnTables'
  <2>1. 1 \in 1 .. m /\ \A j \in 2 .. m : j \in 1 .. m /\ j \in 2 .. n
    BY <1>1, <1>3
  <2> QED
    BY <1>1, <1>4, <1>8, <1>13, <1>19, <1>20, <2>1 DEF NestInv, OwnTables
<1>22. Fresh' /\ Traverses' /\ Deep'
  BY <1>1, <1>4 DEF NestInv, Fresh, Traverses, Deep
<1>23. Builds'
  <2>1. ASSUME NEW j \in 1 .. m
        PROVE  /\ stack'[j].i \in 1 .. Len(stack'[j].links) + 1
               /\ Len(stack'[j].links) <= Len(CrtTime)
               /\ Len(tables'[stack'[j].own]) = stack'[j].i - 1
               /\ \A k \in DOMAIN tables'[stack'[j].own] : tables'[stack'[j].own][k].pos = k
    <3>1. CASE j = m
      <4>1. stack'[j] = f /\ stack'[j].own = c
        BY <1>7, <1>13, <3>1
      <4>2. caller.i + 1 \in 1 .. Len(caller.links) + 1 /\ caller.i + 1 - 1 = caller.i
        BY <1>6, <1>10
      <4>3. \A k \in 1 .. k1 : k = k1 \/ k \in 1 .. k1 - 1
        BY <1>15
      <4>4. \A k \in DOMAIN tables'[c] : tables'[c][k].pos = k
        <5>1. \A k \in 1 .. k1 - 1 : tb[c][k].pos = k
          BY <1>10, <1>14, <1>15
        <5> QED
          BY SMTT(30), <1>12, <1>14, <1>15, <4>3, <5>1
      <4>5. stack'[j].i = caller.i + 1 /\ stack'[j].links = caller.links
        BY <1>7, <4>1
      <4>6. stack'[j].i \in 1 .. Len(stack'[j].links) + 1 /\ Len(stack'[j].links) <= Len(CrtTime)
        BY <1>10, <4>2, <4>5
      <4>7. Len(tables'[stack'[j].own]) = stack'[j].i - 1
        BY <1>14, <1>15, <4>1, <4>2, <4>5
      <4> QED
        BY <4>1, <4>4, <4>6, <4>7
    <3>2. CASE j # m
      <4>1. j \in 1 .. m - 1 /\ j \in 1 .. n /\ j # n
        BY <1>1, <1>3, <3>2
      <4>2. stack[j].own # c /\ stack[j].own # o /\ stack[j] \in BuildFrames
        BY <1>1, <1>3, <1>8, <3>2, <4>1 DEF NestInv, OwnTables
      <4>3. stack'[j] = stack[j] /\ tables'[stack[j].own] = tables[stack[j].own]
        BY <1>5, <1>13, <1>14, <4>1, <4>2 DEF BuildFrames
      <4> QED
        BY <1>1, <1>4, <1>8, <4>1, <4>3 DEF NestInv, Builds
    <3> QED
      BY <3>1, <3>2
  <2>2. ASSUME NEW j \in 1 .. m - 1
        PROVE  /\ stack'[j].i <= Len(stack'[j].links)
               /\ stack'[j].links[stack'[j].i].hard
               /\ stack'[j].links[stack'[j].i].target = stack'[j + 1].own
    <3>1. j + 1 \in 1 .. m /\ j \in 1 .. n - 1
      BY <1>1, <1>3
    <3>2. stack'[j] = stack[j] /\ stack'[j + 1].own = stack[j + 1].own
      BY <1>13, <1>19, <3>1
    <3> QED
      BY <1>1, <1>4, <1>8, <3>1, <3>2 DEF NestInv, Builds
  <2>3. ASSUME NEW u \in Owner, NEW k \in DOMAIN tables'[u], NEW j \in 1 .. m, tables'[u][k].sub
        PROVE  tables'[u][k].target # stack'[j].own
    <3>1. (k \in DOMAIN tb[u] /\ tables'[u][k] = tb[u][k]) \/ (u = c /\ k = k1)
      <4>1. CASE u = c /\ k # k1
        <5>1. k \in 1 .. k1 - 1
          BY <1>14, <1>15, <4>1
        <5> QED
          BY <1>14, <4>1, <5>1
      <4>2. CASE u # c
        BY <1>14, <4>2
      <4> QED
        BY <4>1, <4>2
    <3>2. CASE k \in DOMAIN tb[u] /\ tables'[u][k] = tb[u][k]
      BY <1>16, <1>19, <1>20, <2>3, <3>2
    <3>3. CASE u = c /\ k = k1
      <4>1. stack[j].own # stack[n].own
        BY <1>1, <1>3, <1>8, <1>20 DEF NestInv, OwnTables
      <4> QED
        BY <1>8, <1>12, <1>14, <1>19, <3>3, <4>1
    <3> QED
      BY <3>1, <3>2, <3>3
  <2> QED
    BY <1>13, <2>1, <2>2, <2>3 DEF Builds
<1> QED
  BY <1>17, <1>18, <1>21, <1>22, <1>23 DEF NestInv

LEMMA TraverseFrameIs ==
  ASSUME VisitTypes, NEW o \in Owner, NEW t \in Seq(TableEntry), t # <<>>,
         NEW f, f = TraverseFrame(o, t)
  PROVE  /\ f \in TraverseFrames /\ f.own = o /\ ~f.over /\ f.i >= 1
         /\ call.idx => f.i = idx + 1
         /\ ~call.idx => f.i \in DOMAIN t
         /\ ~call.idx /\ call.dec => f.i = Len(t)
         /\ ~call.idx /\ ~call.dec => f.i = 1
<1>1. Len(t) \in Nat \ {0} /\ DOMAIN t = 1 .. Len(t)
  OBVIOUS
<1>2. idx \in Nat /\ call.idx \in BOOLEAN /\ call.dec \in BOOLEAN
  BY DEF VisitTypes, Call
<1> DEFINE i == IF call.idx THEN idx + 1 ELSE IF call.dec THEN Len(t) ELSE 1
<1>3. /\ i \in Nat /\ i >= 1
      /\ call.idx => i = idx + 1
      /\ ~call.idx => i \in 1 .. Len(t)
      /\ ~call.idx /\ call.dec => i = Len(t)
      /\ ~call.idx /\ ~call.dec => i = 1
  <2> DEFINE m == Len(t)
  <2>1. m \in Nat /\ m >= 1 /\ 1 \in 1 .. m /\ m \in 1 .. m
    BY <1>1
  <2>2. i = IF call.idx THEN idx + 1 ELSE IF call.dec THEN m ELSE 1
    OBVIOUS
  <2> HIDE DEF i, m
  <2>3. CASE call.idx
    <3>1. i = idx + 1
      BY <2>2, <2>3
    <3>2. i \in Nat /\ i >= 1
      BY <1>2, <3>1
    <3> QED
      BY <2>3, <3>1, <3>2
  <2>4. CASE ~call.idx /\ call.dec
    <3>1. i = m
      BY <2>2, <2>4
    <3> QED
      BY <2>1, <2>4, <3>1 DEF m
  <2>5. CASE ~call.idx /\ ~call.dec
    <3>1. i = 1
      BY <2>2, <2>5
    <3> QED
      BY <2>1, <2>5, <3>1 DEF m
  <2> QED
    BY <2>3, <2>4, <2>5
<1>4. f = [own |-> o, over |-> FALSE, i |-> i]
  BY DEF TraverseFrame
<1> HIDE DEF i
<1>5. f \in TraverseFrames /\ f.own = o /\ ~f.over /\ f.i = i
  BY <1>3, <1>4 DEF TraverseFrames
<1> QED
  BY <1>1, <1>3, <1>5

\* The first activation of the traversal.
LEMMA OuterBuiltInv ==
  ASSUME NestInv, TableBuilt, Below = <<>>
  PROVE  NestInv'
<1> DEFINE o == Top.own
           tb == [tables EXCEPT ![o] = Sorted(tables[o])]
           t == Sorted(tables[o])
           f == Begun(TraverseFrame(Outermost, t), t)
<1>0. phase = "build" /\ VisitTypes
  BY DEF TableBuilt, NestInv
<1>1. /\ stack # <<>> /\ stack \in Seq(BuildFrames) /\ Top = stack[Len(stack)] /\ o \in Owner
  BY <1>0, BuildingIs
<1>2. Len(stack) = 1 /\ o = Outermost
  <2>1. Len(stack) = 1
    BY <1>1, FrontOf DEF Below
  <2> QED
    BY <1>1, <2>1 DEF NestInv, OwnTables
<1>3. /\ EnteredIn(tb) /\ tb \in [Owner -> Seq(TableEntry)] /\ tb[o] = t
  <2>1. tables \in [Owner -> Seq(TableEntry)] /\ SortedTo(tables, o, tb)
    BY <1>0, <1>1, SortedTables DEF VisitTypes
  <2>2. EnteredIn(tb) /\ tb \in [Owner -> Seq(TableEntry)]
    BY <2>1 DEF SortedTo
  <2>3. tb[o] = t
    BY <1>1, <2>1
  <2> QED
    BY <2>2, <2>3
<1>4. /\ tables' = tb /\ visited' = visited /\ call' = call /\ links' = links /\ executed' = executed
      /\ depth' = depth /\ calls' = calls /\ changes' = changes /\ idx' = idx /\ ret' = ret /\ stopped' = stopped
  BY DEF TableBuilt, graph
<1>5. /\ t = <<>> => stack' = <<>> /\ phase' = "returned"
      /\ t # <<>> => stack' = <<f>> /\ phase' = "traverse"
  BY DEF TableBuilt
<1>6. t \in Seq(TableEntry)
  BY <1>1, <1>3
<1> HIDE DEF tb, t
<1>7. Entered'
  BY <1>3, <1>4 DEF Entered, EnteredIn
<1>8. CASE t = <<>>
  BY <1>0, <1>3, <1>4, <1>5, <1>7, <1>8, ReturnedInv DEF VisitTypes, graph
<1>9. CASE t # <<>>
  <2> DEFINE g == TraverseFrame(Outermost, t)
  <2>1. /\ g \in TraverseFrames /\ g.own = Outermost /\ ~g.over /\ g.i >= 1
        /\ call.idx => g.i = idx + 1
        /\ ~call.idx => g.i \in DOMAIN t
    BY <1>0, <1>6, <1>9, TraverseFrameIs DEF Owner
  <2>2. f = [g EXCEPT !.over = ~call.dec /\ g.i > Len(t)]
    BY DEF Begun
  <2> HIDE DEF f, g
  <2>3. Len(t) \in Nat /\ DOMAIN t = 1 .. Len(t)
    BY <1>6
  <2>4. g.i \in Nat /\ (g.i > Len(t)) \in BOOLEAN
    BY <2>1, <2>3 DEF TraverseFrames
  <2>5. f \in TraverseFrames /\ f.own = Outermost /\ f.i = g.i /\ (f.over <=> ~call.dec /\ g.i > Len(t))
    <3>1. (~call.dec /\ g.i > Len(t)) \in BOOLEAN
      OBVIOUS
    <3> QED
      BY <2>1, <2>2, <3>1 DEF TraverseFrames
  <2>6. f.i >= 1 /\ (f.over \/ f.i \in DOMAIN t \/ Astray(f))
    <3>1. g.i > Len(t) \/ g.i \in DOMAIN t
      BY <2>1, <2>3, <2>4
    <3>2. CASE g.i \in DOMAIN t
      BY <2>1, <2>5, <3>2
    <3>3. CASE g.i > Len(t) /\ ~call.dec
      BY <2>1, <2>5, <3>3
    <3>4. CASE g.i > Len(t) /\ call.dec /\ g.i \notin DOMAIN t
      <4>1. f.own = Outermost /\ call.idx /\ call.dec /\ f.i = idx + 1
        BY <2>1, <2>5, <3>4
      <4>2. f.i <= idx + 1
        BY <1>0, <4>1 DEF VisitTypes
      <4> QED
        BY <2>1, <2>5, <4>1, <4>2 DEF Astray
    <3> QED
      BY <3>1, <3>2, <3>3, <3>4
  <2>7. stack' = <<f>> /\ phase' = "traverse"
    BY <1>5, <1>9
  <2>8. stack' \in Seq(TraverseFrames) /\ Len(stack') = 1 /\ stack'[1] = f /\ stack' # <<>>
    BY <2>5, <2>7
  <2>9. VisitTypes'
    BY <1>0, <1>3, <1>4, <2>7, <2>8 DEF VisitTypes
  <2>10. Fresh' /\ Builds'
    BY <2>7 DEF Fresh, Builds
  <2>11. OwnTables'
    <3>1. \A j \in 2 .. Len(stack') : FALSE
      BY <2>8
    <3>2. \A j, k \in 1 .. Len(stack') : j = k
      BY <2>8
    <3> QED
      BY <2>5, <2>8, <3>1, <3>2 DEF OwnTables
  <2>12. Traverses'
    <3>1. \A j \in 1 .. Len(stack') - 1 : FALSE
      BY <2>8
    <3>2. \A j \in 1 .. Len(stack') : j = 1
      BY <2>8
    <3>3. tables'[Outermost] = t
      BY <1>2, <1>3, <1>4
    <3>4. Astray(f) => Astray(stack[1])'
      BY <1>4, <2>8 DEF Astray
    <3> QED
      BY <2>5, <2>6, <2>8, <3>1, <3>2, <3>3, <3>4 DEF Traverses
  <2>13. Deep'
    <3>1. call.op \in Op /\ depth \in [Op -> Nat] /\ calls \in Nat
      BY <1>0 DEF VisitTypes, Call
    <3>2. depth[call.op] \in Nat /\ (calls = 1 => depth[call.op] = 0)
      BY <1>0, <3>1 DEF NestInv, Deep
    <3> QED
      BY <1>0, <1>4, <2>7, <2>8, <3>1, <3>2 DEF NestInv, Deep
  <2> QED
    BY <1>7, <2>9, <2>10, <2>11, <2>12, <2>13 DEF NestInv
<1> QED
  BY <1>8, <1>9

-----------------------------------------------------------------------------
(* While tables are traversed. *)

\* The activation that is at an entry; the next one is in the table too.
LEMMA TraversingIs ==
  ASSUME NestInv, phase = "traverse", NEW n, n = Len(stack)
  PROVE  /\ stack # <<>> /\ stack \in Seq(TraverseFrames) /\ n \in Nat \ {0}
         /\ Top = stack[n] /\ Top \in TraverseFrames /\ Top.own \in Owner
         /\ Top.own \in visited \/ Top.own = Outermost
         /\ Traversing => /\ Top.i \in DOMAIN tables[Top.own] /\ CurEntry \in TableEntry
                          /\ CurEntry.hard => CurEntry.target \in Object
                          /\ CurEntry.sub => CurEntry.hard /\ CurEntry.target \in visited /\ ~call.idx
         /\ Stray => Astray(Top)
<1>1. /\ stack # <<>> /\ stack \in Seq(TraverseFrames) /\ n \in Nat \ {0}
      /\ Top = stack[n] /\ Top \in TraverseFrames
  BY StackIs DEF NestInv, VisitTypes, Frames
<1>2. Top.own \in Owner /\ Top.i \in Nat
  BY <1>1 DEF TraverseFrames
<1>3. Top.own \in visited \/ Top.own = Outermost
  <2>1. n = 1 \/ n \in 2 .. n
    BY <1>1
  <2> QED
    BY <1>1, <2>1 DEF NestInv, OwnTables
<1>4. Top.i >= 1 /\ (Top.over \/ Top.i \in DOMAIN tables[Top.own] \/ Astray(Top))
  <2>1. n \in 1 .. n
    BY <1>1
  <2> QED
    BY <1>1, <2>1 DEF NestInv, Traverses
<1>5. tables[Top.own] \in Seq(TableEntry)
  BY <1>2 DEF NestInv, VisitTypes
<1>7. Stray => Astray(Top)
  <2>1. ASSUME NEW k \in DOMAIN tables[Top.own] PROVE ~(k > Len(tables[Top.own]))
    BY <1>5
  <2> QED
    BY <1>4, <2>1 DEF Stray
<1>6. ASSUME Traversing
      PROVE  /\ Top.i \in DOMAIN tables[Top.own] /\ CurEntry \in TableEntry
             /\ CurEntry.hard => CurEntry.target \in Object
             /\ CurEntry.sub => CurEntry.hard /\ CurEntry.target \in visited /\ ~call.idx
  <2>1. Top.i \in DOMAIN tables[Top.own] /\ CurEntry = tables[Top.own][Top.i]
    <3>1. Top.i <= Len(tables[Top.own])
      BY <1>6 DEF Traversing
    <3> QED
      BY <1>2, <1>4, <1>5, <3>1 DEF CurEntry
  <2>2. CurEntry \in TableEntry
    BY <1>5, <2>1
  <2>3. /\ CurEntry.hard => CurEntry.target \in Object
        /\ CurEntry.sub => CurEntry.hard /\ CurEntry.target \in visited
    BY <1>2, <2>1 DEF NestInv, Entered, EnteredIn
  <2>4. visited # {} => ~call.idx
    BY DEF NestInv, VisitTypes, Entered, EnteredIn
  <2> QED
    BY <2>1, <2>2, <2>3, <2>4
<1> QED
  BY <1>1, <1>2, <1>3, <1>6, <1>7

LEMMA SteppedIs ==
  ASSUME NestInv, NEW f \in TraverseFrames, f.i \in DOMAIN tables[f.own], NEW g, g = Stepped(f)
  PROVE  /\ g \in TraverseFrames /\ g.own = f.own /\ g.i >= 1
         /\ g.over \/ g.i \in DOMAIN tables[f.own]
         /\ call.dec => IF f.i = 1 THEN g.over ELSE g.i = f.i - 1 /\ (g.over <=> f.over)
         /\ ~call.dec => g.i = f.i + 1 /\ (g.over <=> f.i + 1 > Len(tables[f.own]))
<1>1. f.own \in Owner /\ f.i \in Nat /\ f.over \in BOOLEAN
  BY DEF TraverseFrames
<1>2. tables[f.own] \in Seq(TableEntry)
  BY <1>1 DEF NestInv, VisitTypes
<1> DEFINE m == Len(tables[f.own])
<1>3. m \in Nat /\ DOMAIN tables[f.own] = 1 .. m /\ f.i \in 1 .. m
  BY <1>2
<1> HIDE DEF m
<1>4. CASE call.dec
  <2>1. CASE f.i = 1
    <3>1. g = [f EXCEPT !.over = TRUE]
      BY <1>4, <2>1 DEF Stepped
    <3>2. g \in TraverseFrames /\ g.own = f.own /\ g.i = 1 /\ g.over
      BY <1>1, <2>1, <3>1 DEF TraverseFrames
    <3>3. g.i >= 1
      BY <3>2
    <3> QED
      BY <1>4, <2>1, <3>2, <3>3
  <2>2. CASE f.i # 1
    <3>1. g = [f EXCEPT !.i = @ - 1]
      BY <1>4, <2>2 DEF Stepped
    <3>2. f.i - 1 \in 1 .. m /\ f.i - 1 \in Nat
      BY <1>1, <1>3, <2>2
    <3>3. g \in TraverseFrames /\ g.own = f.own /\ g.i = f.i - 1 /\ g.over = f.over
      BY <1>1, <3>1, <3>2 DEF TraverseFrames
    <3>4. g.i >= 1 /\ g.i \in DOMAIN tables[f.own]
      BY <1>3, <3>2, <3>3
    <3>5. /\ g \in TraverseFrames /\ g.own = f.own
          /\ IF f.i = 1 THEN g.over ELSE g.i = f.i - 1 /\ (g.over <=> f.over)
      BY <2>2, <3>3
    <3> QED
      BY <1>4, <3>4, <3>5
  <2> QED
    BY <2>1, <2>2
<1>5. CASE ~call.dec
  <2>1. g = [f EXCEPT !.i = @ + 1, !.over = f.i + 1 > m]
    BY <1>5 DEF Stepped, m
  <2>2. f.i + 1 \in Nat /\ f.i + 1 >= 1 /\ (f.i + 1 > m \/ f.i + 1 \in 1 .. m) /\ (f.i + 1 > m) \in BOOLEAN
    BY <1>1, <1>3
  <2>3. g \in TraverseFrames /\ g.own = f.own /\ g.i = f.i + 1 /\ (g.over <=> f.i + 1 > m)
    BY <1>1, <2>1, <2>2 DEF TraverseFrames
  <2> QED
    BY <1>3, <1>5, <2>2, <2>3 DEF m
<1> QED
  BY <1>4, <1>5

\* Beyond its table an activation comes nearer to it.
LEMMA StraySteppedIs ==
  ASSUME NestInv, NEW f \in TraverseFrames, f.i >= 1, Astray(f), NEW g, g = Stepped(f)
  PROVE  g \in TraverseFrames /\ g.own = f.own /\ g.i >= 1 /\ Astray(g)
<1>1. f.own \in Owner /\ f.i \in Nat /\ f.over \in BOOLEAN /\ idx \in Nat
  BY DEF TraverseFrames, NestInv, VisitTypes
<1>2. call.idx /\ call.dec /\ f.own = Outermost /\ f.i <= idx + 1
  BY DEF Astray
<1>3. CASE f.i = 1
  <2>1. g = [f EXCEPT !.over = TRUE]
    BY <1>2, <1>3 DEF Stepped
  <2>2. g \in TraverseFrames /\ g.own = f.own /\ g.i = f.i
    BY <1>1, <2>1 DEF TraverseFrames
  <2> QED
    BY <1>2, <2>2 DEF Astray
<1>4. CASE f.i # 1
  <2>1. g = [f EXCEPT !.i = @ - 1]
    BY <1>2, <1>4 DEF Stepped
  <2>2. f.i - 1 \in Nat /\ f.i - 1 >= 1 /\ f.i - 1 <= idx + 1
    BY <1>1, <1>2, <1>4
  <2>3. g \in TraverseFrames /\ g.own = f.own /\ g.i = f.i - 1
    BY <1>1, <2>1, <2>2 DEF TraverseFrames
  <2> QED
    BY <1>2, <2>2, <2>3 DEF Astray
<1> QED
  BY <1>3, <1>4

\* An activation goes on with its next entry, and those above it have ended.
LEMMA SteppedInv ==
  ASSUME NestInv, phase = "traverse", NEW n, n = Len(stack), NEW m \in 1 .. n,
         stack[m].i \in DOMAIN tables[stack[m].own] \/ Astray(stack[m]),
         stack' \in Seq(TraverseFrames), Len(stack') = m, stack'[m] = Stepped(stack[m]),
         \A j \in 1 .. m - 1 : stack'[j] = stack[j],
         UNCHANGED <<graph, phase, call, tables, visited, calls, idx>>,
         depth' \in [Op -> Nat], depth'[call.op] = depth[call.op] - (n - m),
         executed' \subseteq Object, ret' \in {"ok", "fail"}, stopped' \in BOOLEAN
  PROVE  NestInv'
<1>1. stack \in Seq(TraverseFrames) /\ n \in Nat \ {0} /\ stack # <<>>
  BY TraversingIs
<1>2. m \in Nat \ {0} /\ m <= n /\ 1 \in 1 .. m /\ stack' # <<>>
  BY <1>1
<1>3. \A j \in 1 .. n : stack[j] \in TraverseFrames
  BY <1>1
<1>4. /\ stack'[m].own = stack[m].own /\ stack'[m].i >= 1
      /\ stack'[m].over \/ stack'[m].i \in DOMAIN tables[stack[m].own] \/ Astray(stack'[m])
  <2>1. CASE stack[m].i \in DOMAIN tables[stack[m].own]
    BY <1>3, <2>1, SteppedIs
  <2>2. CASE Astray(stack[m])
    <3>1. stack[m].i >= 1
      BY DEF NestInv, Traverses
    <3> QED
      BY <1>3, <2>2, <3>1, StraySteppedIs
  <2> QED
    BY <2>1, <2>2
<1>5. \A j \in 1 .. m : stack'[j].own = stack[j].own
  <2>1. \A j \in 1 .. m : j = m \/ j \in 1 .. m - 1
    BY <1>2
  <2> QED
    BY <1>4, <2>1
<1>6. \A j \in 1 .. m : j \in 1 .. n /\ (j \in 2 .. m => j \in 2 .. n)
  BY <1>1, <1>2
<1>7. VisitTypes'
  BY <1>2 DEF NestInv, VisitTypes, graph
<1>8. Entered'
  BY EnteredStays DEF NestInv
<1>9. Fresh' /\ Builds'
  BY DEF Fresh, Builds
<1>10. OwnTables'
  <2>1. \A j \in 2 .. m : j \in 1 .. m
    BY <1>2
  <2> QED
    BY <1>1, <1>2, <1>5, <1>6, <2>1 DEF NestInv, OwnTables
<1>11. Traverses'
  <2>1. ASSUME NEW j \in 1 .. m
        PROVE  /\ stack'[j].i >= 1
               /\ stack'[j].over \/ stack'[j].i \in DOMAIN tables[stack'[j].own] \/ Astray(stack'[j])
    <3>1. CASE j = m
      BY <1>4, <3>1
    <3>2. CASE j # m
      <4>1. j \in 1 .. m - 1
        BY <1>2, <3>2
      <4> QED
        BY <1>6, <4>1 DEF NestInv, Traverses
    <3> QED
      BY <3>1, <3>2
  <2>2. ASSUME NEW j \in 1 .. m - 1
        PROVE  /\ ~stack'[j].over
               /\ stack'[j].i \in DOMAIN tables[stack'[j].own]
               /\ tables[stack'[j].own][stack'[j].i].sub
               /\ tables[stack'[j].own][stack'[j].i].target = stack'[j + 1].own
    <3>1. j + 1 \in 1 .. m /\ j \in 1 .. n - 1
      BY <1>1, <1>2
    <3>2. stack'[j] = stack[j] /\ stack'[j + 1].own = stack[j + 1].own
      BY <1>5, <3>1
    <3> QED
      BY <3>1, <3>2 DEF NestInv, Traverses
  <2>3. \A j \in 1 .. m : Astray(stack'[j]) => Astray(stack[j])'
    BY DEF Astray
  <2> QED
    BY <2>1, <2>2, <2>3 DEF Traverses
<1>12. Deep'
  <2>1. depth[call.op] \in Nat
    BY DEF NestInv, VisitTypes, Call
  <2>2. depth[call.op] >= n - 1 /\ (calls = 1 => depth[call.op] = n - 1)
    BY DEF NestInv, Deep
  <2>3. depth'[call.op] >= m - 1 /\ (calls = 1 => depth'[call.op] = m - 1)
    BY <1>1, <1>2, <2>1, <2>2
  <2> QED
    BY <2>3 DEF NestInv, Deep
<1> QED
  BY <1>7, <1>8, <1>9, <1>10, <1>11, <1>12 DEF NestInv

\* No activation of the stack is for the group of the current entry's table.
LEMMA NotEntered ==
  ASSUME NestInv, Traversing, CurEntry.sub, NEW j \in 1 .. Len(stack)
  PROVE  stack[j].own # CurEntry.target
<1> DEFINE n == Len(stack)
<1>1. /\ stack \in Seq(TraverseFrames) /\ n \in Nat \ {0} /\ Top = stack[n] /\ Top.own \in Owner
      /\ Top.i \in DOMAIN tables[Top.own] /\ CurEntry.target \in visited
  BY TraversingIs DEF Traversing
<1>2. CurEntry = tables[Top.own][Top.i]
  BY DEF CurEntry
<1>3. CASE j = 1
  BY <1>1, <1>3, GroupAssumption DEF NestInv, OwnTables, VisitTypes
<1>4. CASE j # 1
  <2> DEFINE i == j - 1
  <2>1. i \in 1 .. n - 1 /\ i \in 1 .. n /\ i + 1 = j /\ i # n
    BY <1>1, <1>4
  <2> HIDE DEF i
  <2>2. /\ ~stack[i].over /\ tables[stack[i].own][stack[i].i].sub
        /\ tables[stack[i].own][stack[i].i].target = stack[j].own
    BY <2>1 DEF NestInv, Traverses, Traversing
  <2>3. stack[i].i \in DOMAIN tables[stack[i].own]
    BY <2>1 DEF NestInv, Traverses, Traversing
  <2>4. stack[i].own \in Owner
    <3>1. stack[i] \in TraverseFrames
      BY <1>1, <2>1
    <3> QED
      BY <3>1 DEF TraverseFrames
  <2>5. n \in 1 .. n
    BY <1>1
  <2>6. stack[i].own # Top.own
    BY <1>1, <2>1, <2>5 DEF NestInv, OwnTables
  <2> QED
    BY <1>1, <1>2, <2>2, <2>3, <2>4, <2>6 DEF NestInv, Entered, EnteredIn
<1> QED
  BY <1>3, <1>4

\* An activation for the table in the current entry.
LEMMA EntersInv ==
  ASSUME NestInv, Traversing, Enters, Proceed,
         UNCHANGED <<graph, call, tables, visited, calls>>,
         executed' \subseteq Object, ret' \in {"ok", "fail"}, stopped' \in BOOLEAN
  PROVE  NestInv'
<1> DEFINE n == Len(stack)
           o == CurEntry.target
           t == tables[o]
           f == TraverseFrame(o, t)
           m == n + 1
<1>1. /\ stack # <<>> /\ stack \in Seq(TraverseFrames) /\ n \in Nat \ {0}
      /\ Top = stack[n] /\ ~Top.over /\ CurEntry.sub /\ Top.i \in DOMAIN tables[Top.own]
      /\ o \in visited /\ ~call.idx /\ phase = "traverse"
  BY TraversingIs DEF Traversing, Enters
<1>2. CurEntry = tables[Top.own][Top.i]
  BY DEF CurEntry
<1>3. o \in Owner /\ o # Outermost /\ t \in Seq(TableEntry) /\ t # <<>>
  BY <1>1, GroupAssumption DEF NestInv, VisitTypes, Owner, Enters
<1>4. f \in TraverseFrames /\ f.own = o /\ ~f.over /\ f.i >= 1 /\ f.i \in DOMAIN t
  BY <1>1, <1>3, TraverseFrameIs DEF NestInv
<1>5. /\ stack' = Append(stack, f) /\ depth' = [depth EXCEPT ![call.op] = @ + 1]
      /\ phase' = "traverse" /\ idx' = idx
  BY <1>1 DEF Proceed
<1>6. \A j \in 1 .. n : stack[j].own # o
  BY NotEntered, <1>1
<1> HIDE DEF f
<1>7. /\ stack' \in Seq(TraverseFrames) /\ stack' # <<>> /\ m \in Nat \ {0} /\ Len(stack') = m
      /\ stack'[m] = f /\ \A j \in 1 .. m - 1 : stack'[j] = stack[j]
  BY <1>1, <1>4, <1>5, Appended
<1>8. /\ m - 1 = n /\ \A j \in 1 .. m : j = m \/ j \in 1 .. n
      /\ 1 \in 1 .. n /\ \A j \in 2 .. m : j = m \/ j \in 2 .. n
      /\ \A j \in 2 .. n : j \in 1 .. n
  BY <1>1
<1>9. m # 0 /\ m = n + 1
  BY <1>7
<1>10. Len(stack) = n
  OBVIOUS
<1> HIDE DEF n, m, o, t
<1>11. depth' \in [Op -> Nat] /\ depth'[call.op] = depth[call.op] + 1 /\ depth[call.op] \in Nat
  BY <1>5 DEF NestInv, VisitTypes, Call
<1>12. VisitTypes'
  BY <1>1, <1>5, <1>7, <1>11 DEF NestInv, VisitTypes, graph
<1>13. Entered'
  BY EnteredStays DEF NestInv
<1>14. Fresh' /\ Builds'
  BY <1>5 DEF Fresh, Builds
<1>15. OwnTables'
  <2>1. stack'[1].own = Outermost
    BY <1>1, <1>7, <1>8 DEF NestInv, OwnTables
  <2>2. ASSUME NEW j \in 2 .. m PROVE stack'[j].own \in visited
    <3>1. CASE j = m
      BY <1>1, <1>4, <1>7, <3>1
    <3>2. CASE j \in 2 .. n
      BY <1>1, <1>7, <1>8, <1>10, <3>2 DEF NestInv, OwnTables
    <3> QED
      BY <1>8, <3>1, <3>2
  <2>3. ASSUME NEW j \in 1 .. m, NEW k \in 1 .. m, stack'[j].own = stack'[k].own PROVE j = k
    <3>1. CASE j \in 1 .. n /\ k \in 1 .. n
      BY <1>1, <1>7, <1>8, <1>10, <2>3, <3>1 DEF NestInv, OwnTables
    <3> QED
      BY <1>4, <1>6, <1>7, <1>8, <2>3, <3>1
  <2> QED
    BY <1>7, <2>1, <2>2, <2>3 DEF OwnTables
<1>16. Traverses'
  <2>1. ASSUME NEW j \in 1 .. m
        PROVE  /\ stack'[j].i >= 1
               /\ stack'[j].over \/ stack'[j].i \in DOMAIN tables[stack'[j].own] \/ Astray(stack'[j])
    <3>1. CASE j = m
      BY <1>4, <1>7, <3>1 DEF t
    <3>2. CASE j \in 1 .. n
      BY <1>1, <1>7, <1>8, <1>10, <3>2 DEF NestInv, Traverses
    <3> QED
      BY <1>8, <3>1, <3>2
  <2>2. ASSUME NEW j \in 1 .. n
        PROVE  /\ ~stack'[j].over
               /\ stack'[j].i \in DOMAIN tables[stack'[j].own]
               /\ tables[stack'[j].own][stack'[j].i].sub
               /\ tables[stack'[j].own][stack'[j].i].target = stack'[j + 1].own
    <3>1. stack'[j] = stack[j]
      BY <1>7, <1>8
    <3>2. CASE j = n
      BY <1>1, <1>2, <1>4, <1>7, <1>9, <3>1, <3>2 DEF o
    <3>3. CASE j # n
      <4>1. j \in 1 .. n - 1 /\ j + 1 \in 1 .. n
        BY <1>1, <1>8, <3>3
      <4>2. stack'[j + 1] = stack[j + 1]
        BY <1>7, <1>8, <4>1
      <4> QED
        BY <1>1, <1>10, <3>1, <4>1, <4>2 DEF NestInv, Traverses
    <3> QED
      BY <3>2, <3>3
  <2>3. \A j \in 1 .. m : Astray(stack'[j]) => Astray(stack[j])'
    BY <1>5 DEF Astray
  <2> QED
    BY <1>7, <1>8, <2>1, <2>2, <2>3 DEF Traverses
<1>17. Deep'
  <2>1. depth[call.op] >= n - 1 /\ (calls = 1 => depth[call.op] = n - 1)
    BY <1>1, <1>10 DEF NestInv, Deep
  <2>2. depth'[call.op] >= m - 1 /\ (calls = 1 => depth'[call.op] = m - 1)
    BY <1>1, <1>8, <1>11, <2>1 DEF n
  <2> QED
    BY <1>1, <1>5, <1>7, <2>2 DEF NestInv, Deep
<1> QED
  BY <1>12, <1>13, <1>14, <1>15, <1>16, <1>17 DEF NestInv


LEMMA ProceedInv ==
  ASSUME NestInv, Traversing, Proceed,
         UNCHANGED <<graph, call, tables, visited, calls>>,
         executed' \subseteq Object, ret' \in {"ok", "fail"}, stopped' \in BOOLEAN
  PROVE  NestInv'
<1>1. CASE Enters
  BY <1>1, EntersInv
<1>2. CASE ~Enters
  <2> DEFINE n == Len(stack)
             f == Stepped(Top)
  <2>1. /\ stack # <<>> /\ stack \in Seq(TraverseFrames) /\ n \in Nat \ {0}
        /\ Top = stack[n] /\ Top \in TraverseFrames /\ Top.i \in DOMAIN tables[Top.own]
        /\ phase = "traverse"
    BY TraversingIs DEF Traversing
  <2>2. f \in TraverseFrames
    BY <2>1, SteppedIs
  <2>3. stack' = Append(Front(stack), f) /\ UNCHANGED <<phase, idx, depth>>
    BY <1>2 DEF Proceed, Below
  <2>4. f = Stepped(stack[n])
    BY <2>1
  <2> HIDE DEF f
  <2>5. /\ stack' \in Seq(TraverseFrames) /\ Len(stack') = n /\ stack'[n] = f
        /\ \A j \in 1 .. n - 1 : stack'[j] = stack[j]
    <3>1. ReplacedIn(TraverseFrames, stack, f, stack')
      BY <2>1, <2>2, <2>3, ReplacedLast
    <3> QED
      BY <3>1 DEF ReplacedIn
  <2>6. /\ depth' \in [Op -> Nat] /\ depth'[call.op] = depth[call.op] - (n - n) /\ n \in 1 .. n
    <3>1. depth \in [Op -> Nat] /\ depth[call.op] \in Nat
      BY DEF NestInv, VisitTypes, Call
    <3> QED
      BY <2>1, <2>3, <3>1
  <2>7. stack[n].i \in DOMAIN tables[stack[n].own]
    BY <2>1
  <2> QED
    BY <2>1, <2>3, <2>4, <2>5, <2>6, <2>7, SteppedInv
<1> QED
  BY <1>1, <1>2

LEMMA ActivationEndsInv ==
  ASSUME NestInv, phase = "traverse", ActivationEnds(Top),
         UNCHANGED <<graph, call, tables, visited, calls>>,
         executed' \subseteq Object, ret' \in {"ok", "fail"}, stopped' \in BOOLEAN
  PROVE  NestInv'
<1> DEFINE n == Len(stack)
<1>1. /\ stack # <<>> /\ stack \in Seq(TraverseFrames) /\ n \in Nat \ {0}
      /\ Top = stack[n] /\ Top \in TraverseFrames
  BY TraversingIs
<1>2. depth \in [Op -> Nat] /\ depth[call.op] \in Nat /\ call.op \in Op /\ idx \in Nat
      /\ tables \in [Owner -> Seq(TableEntry)]
  BY DEF NestInv, VisitTypes, Call
<1>3. CASE Below = <<>>
  <2>1. Top.i \in Nat /\ Top.i >= 1
    <3>1. n \in 1 .. n
      BY <1>1
    <3> QED
      BY <1>1, <3>1 DEF NestInv, Traverses, TraverseFrames
  <2>2. Top.i - 1 \in Nat
    BY <2>1
  <2>3. /\ stack' = <<>> /\ phase' = "returned" /\ depth' = depth /\ idx' \in Nat
    BY <1>2, <1>3, <2>2 DEF ActivationEnds
  <2>4. Entered'
    BY EnteredStays DEF NestInv
  <2> QED
    BY <1>2, <2>3, <2>4, ReturnedInv
<1>4. CASE Below # <<>>
  <2> DEFINE m == n - 1
             caller == stack[m]
             f == Stepped(caller)
  <2>1. n # 1
    BY <1>1, <1>4, FrontOf DEF Below
  <2>2. n > 1 /\ m \in 1 .. n /\ m \in 1 .. n - 1
    <3>1. \A x \in Nat \ {0} : x # 1 => x > 1 /\ x - 1 \in 1 .. x /\ x - 1 \in 1 .. x - 1
      OBVIOUS
    <3> HIDE DEF n
    <3> QED
      BY <1>1, <2>1, <3>1
  <2>3. caller \in TraverseFrames /\ caller.i \in DOMAIN tables[caller.own]
    <3>1. caller.i \in DOMAIN tables[caller.own]
      BY <2>2 DEF NestInv, Traverses
    <3> QED
      BY <1>1, <2>2, <3>1
  <2>4. f \in TraverseFrames
    BY <2>3, SteppedIs
  <2>5. Last(Below) = caller
    <3>1. /\ Below \in Seq(TraverseFrames) /\ Len(Below) = n - 1 /\ \A j \in 1 .. n - 1 : Below[j] = stack[j]
      BY <1>1, FrontOf DEF Below
    <3>2. Last(Below) = Below[n - 1]
      BY <3>1 DEF Last
    <3> QED
      BY <2>2, <3>1, <3>2
  <2>6. /\ stack' = Append(Front(Front(stack)), f) /\ depth' = [depth EXCEPT ![call.op] = @ - 1]
        /\ UNCHANGED <<phase, idx>>
    BY <1>4, <2>5 DEF ActivationEnds, Below
  <2>7. f = Stepped(stack[m]) /\ stack[m].i \in DOMAIN tables[stack[m].own]
    BY <2>3
  <2> HIDE DEF f, caller
  <2>8. /\ stack' \in Seq(TraverseFrames) /\ stack' # <<>> /\ Len(stack') = n - 1 /\ stack'[n - 1] = f
        /\ \A i \in 1 .. n - 2 : stack'[i] = stack[i]
    <3>1. PoppedFrom(TraverseFrames, stack, f, stack')
      BY <1>1, <2>2, <2>4, <2>6, ReplacedCaller
    <3> QED
      BY <3>1 DEF PoppedFrom
  <2>9. n - 1 = m /\ n - 2 = m - 1 /\ n - m = 1
    BY <1>1
  <2>10. /\ depth' \in [Op -> Nat] /\ depth'[call.op] = depth[call.op] - (n - m)
    <3>1. depth[call.op] >= n - 1
      BY DEF NestInv, Deep
    <3>2. depth[call.op] - 1 \in Nat
      BY <1>1, <1>2, <2>2, <3>1
    <3> QED
      BY <1>2, <2>6, <2>9, <3>2
  <2>11. \A j \in 1 .. m - 1 : stack'[j] = stack[j]
    BY <2>8, <2>9
  <2>12. Len(stack') = m /\ stack'[m] = f
    BY <2>8, <2>9
  <2> HIDE DEF m
  <2> QED
    BY <2>2, <2>6, <2>7, <2>8, <2>10, <2>11, <2>12, SteppedInv
<1> QED
  BY <1>3, <1>4

LEMMA PassOverInv ==
  ASSUME NestInv, PassOver
  PROVE  NestInv'
<1>1. executed' \subseteq Object /\ ret' \in {"ok", "fail"} /\ stopped' \in BOOLEAN
  BY DEF NestInv, VisitTypes, PassOver
<1> QED
  BY <1>1, ProceedInv DEF PassOver

\* An activation comes to the end of its table.
LEMMA TableDoneInv ==
  ASSUME NestInv, TableDone
  PROVE  NestInv'
<1>1. executed' \subseteq Object /\ ret' \in {"ok", "fail"} /\ stopped' \in BOOLEAN
  BY DEF NestInv, VisitTypes, TableDone
<1> QED
  BY <1>1, ActivationEndsInv DEF TableDone

LEMMA CallbackInv ==
  ASSUME NestInv, NEW r \in {-1, 0, 1}, Callback(r)
  PROVE  NestInv'
<1>0. Traversing /\ phase = "traverse" /\ UNCHANGED <<graph, call, tables, visited, calls>>
  BY DEF Callback, Traversing
<1>1. executed' \subseteq Object
  <2>1. executed \subseteq Object
    BY DEF NestInv, VisitTypes
  <2>2. call.op = "objects" => CurEntry.target \in Object
    BY <1>0, TraversingIs DEF Callback, Executes, Traversing
  <2> QED
    BY <2>1, <2>2 DEF Callback
<1>2. stopped' \in BOOLEAN
  <2>1. (r > 0) \in BOOLEAN /\ stopped \in BOOLEAN
    BY DEF NestInv, VisitTypes
  <2> QED
    BY <2>1 DEF Callback
<1>3. r = 0 \/ r > 0 \/ r < 0
  OBVIOUS
<1>4. CASE r = 0
  <2>1. Proceed /\ ret' = ret
    BY <1>4 DEF Callback
  <2> QED
    BY <1>0, <1>1, <1>2, <2>1, ProceedInv DEF NestInv, VisitTypes
<1>5. CASE r > 0
  <2>1. ActivationEnds(Top) /\ ret' = ret
    <3>1. r # 0 /\ ~(r < 0)
      BY <1>5
    <3>2. CASE r = 1
      BY <3>1, <3>2 DEF Callback
    <3> QED
      BY <1>5, <3>2
  <2> QED
    BY <1>0, <1>1, <1>2, <2>1, ActivationEndsInv DEF NestInv, VisitTypes
<1>6. CASE r < 0
  <2>1. phase' = "returned" /\ ret' = "fail" /\ stack' = <<>> /\ UNCHANGED <<idx, depth>>
    BY <1>6 DEF Callback
  <2>2. Entered'
    BY <1>0, EnteredStays DEF NestInv
  <2> QED
    BY <1>0, <1>1, <1>2, <2>1, <2>2, ReturnedInv DEF NestInv, VisitTypes
<1> QED
  BY <1>3, <1>4, <1>5, <1>6

\* The callback is called for what is beyond the table.
LEMMA CallbackStrayInv ==
  ASSUME NestInv, NEW r \in {-1, 0, 1}, CallbackStray(r)
  PROVE  NestInv'
<1> DEFINE n == Len(stack)
           f == Stepped(Top)
<1>0. Stray /\ phase = "traverse" /\ UNCHANGED <<graph, call, tables, visited, calls, executed>>
  BY DEF CallbackStray, Stray
<1>1. executed' \subseteq Object /\ ret \in {"ok", "fail"}
  BY <1>0 DEF NestInv, VisitTypes
<1>2. stopped' \in BOOLEAN
  <2>1. (r > 0) \in BOOLEAN /\ stopped \in BOOLEAN
    BY DEF NestInv, VisitTypes
  <2> QED
    BY <2>1 DEF CallbackStray
<1>3. CASE r = 0
  <2>1. stack' = Append(Front(stack), f) /\ UNCHANGED <<phase, idx, depth, ret>>
    BY <1>3 DEF CallbackStray, Below
  <2>2. /\ stack # <<>> /\ stack \in Seq(TraverseFrames) /\ n \in Nat \ {0}
        /\ Top = stack[n] /\ Top \in TraverseFrames /\ Astray(Top)
    BY <1>0, TraversingIs
  <2>3. n \in 1 .. n
    BY <2>2
  <2>4. Top.i >= 1
    BY <1>0, <2>2, <2>3 DEF NestInv, Traverses
  <2>5. f \in TraverseFrames
    BY <2>2, <2>4, StraySteppedIs
  <2>6. f = Stepped(stack[n]) /\ Astray(stack[n])
    BY <2>2
  <2> HIDE DEF f
  <2>7. /\ stack' \in Seq(TraverseFrames) /\ Len(stack') = n /\ stack'[n] = f
        /\ \A j \in 1 .. n - 1 : stack'[j] = stack[j]
    <3>1. ReplacedIn(TraverseFrames, stack, f, stack')
      BY <2>1, <2>2, <2>5, ReplacedLast
    <3> QED
      BY <3>1 DEF ReplacedIn
  <2>8. depth' \in [Op -> Nat] /\ depth'[call.op] = depth[call.op] - (n - n)
    <3>1. depth \in [Op -> Nat] /\ depth[call.op] \in Nat
      BY DEF NestInv, VisitTypes, Call
    <3> QED
      BY <2>1, <2>2, <3>1
  <2> QED
    BY <1>0, <1>1, <1>2, <2>1, <2>3, <2>6, <2>7, <2>8, SteppedInv
<1>4. CASE r = 1
  <2>1. ActivationEnds(Top) /\ ret' = ret
    <3>1. r > 0 /\ ~(r = 0) /\ ~(r < 0)
      BY <1>4
    <3> QED
      BY <3>1 DEF CallbackStray
  <2> QED
    BY <1>0, <1>1, <1>2, <2>1, ActivationEndsInv
<1>5. CASE r = -1
  <2>1. phase' = "returned" /\ ret' = "fail" /\ stack' = <<>> /\ UNCHANGED <<idx, depth>>
    <3>1. r < 0 /\ ~(r = 0) /\ ~(r > 0)
      BY <1>5
    <3> QED
      BY <3>1 DEF CallbackStray
  <2>2. Entered'
    BY <1>0, EnteredStays DEF NestInv
  <2> QED
    BY <1>0, <1>1, <1>2, <2>1, <2>2, ReturnedInv DEF NestInv, VisitTypes
<1> QED
  BY <1>3, <1>4, <1>5

LEMMA VisitCrashesInv ==
  ASSUME NestInv, VisitCrashes
  PROVE  NestInv'
<1>1. Entered'
  BY EnteredStays DEF NestInv, VisitCrashes
<1> QED
  BY <1>1, ReturnedInv DEF NestInv, VisitTypes, VisitCrashes, Stray, graph

\* Every step keeps the activations in their tables, or where the index has led them.
LEMMA VisitNextInv ==
  ASSUME NestInv, [VisitNext]_visitVars
  PROVE  NestInv'
<1>1. ASSUME NEW c \in Call, NEW i \in 0 .. Len(CrtTime), Start(c, i) PROVE NestInv'
  BY <1>1, StartVisitInv
<1>2. CASE Connector
  <2>1. CASE FirstAnswer
    BY <2>1, FirstAnswerInv
  <2>2. CASE FirstRequestFails
    BY <2>2, FirstRequestFailsInv
  <2>3. CASE AddLink
    BY <2>3, AddLinkInv
  <2>4. CASE Descend
    BY <2>4, DescendInv
  <2>5. CASE BuildFails
    BY <2>5, BuildFailsInv
  <2>6. CASE TableBuilt
    BY <2>6, InnerBuiltInv, OuterBuiltInv
  <2>7. CASE PassOver
    BY <2>7, PassOverInv
  <2>8. CASE TableDone
    BY <2>8, TableDoneInv
  <2>9. ASSUME NEW r \in {-1, 0, 1}, StartObject(r) PROVE NestInv'
    BY <2>9, StartObjectInv
  <2>10. ASSUME NEW r \in {-1, 0, 1}, Callback(r) PROVE NestInv'
    BY <2>10, CallbackInv
  <2>11. ASSUME NEW r \in {-1, 0, 1}, CallbackStray(r) PROVE NestInv'
    BY <2>11, CallbackStrayInv
  <2>12. CASE VisitCrashes
    BY <2>12, VisitCrashesInv
  <2> QED
    BY <1>2, <2>1, <2>2, <2>3, <2>4, <2>5, <2>6, <2>7, <2>8, <2>9, <2>10, <2>11, <2>12 DEF Connector
<1>3. ASSUME NEW g \in Group, OtherClient(g) PROVE NestInv'
  BY <1>3, OtherClientVisitInv
<1>4. CASE UNCHANGED visitVars
  BY <1>4, StutterVisitInv
<1> QED
  BY <1>1, <1>2, <1>3, <1>4 DEF VisitNext

\* The activations of RV_build_..._table and RV_traverse_..._table are at their entries, and
\* only the first of an iteration with an index may be elsewhere.
THEOREM VisitInvariance == VisitSpec => []NestInv
<1>1. VisitInit => NestInv
  BY VisitInitInv
<1>2. NestInv /\ [VisitNext]_visitVars => NestInv'
  BY VisitNextInv
<1> QED
  BY <1>1, <1>2, PTL DEF VisitSpec

\* The activations above the first one are for different groups.
LEMMA Bounded ==
  ASSUME NestInv
  PROVE  NestingBounded
<1> DEFINE n == Len(stack)
           above == [j \in 2 .. n |-> stack[j].own]
<1>1. IsFiniteSet(Group) /\ Cardinality(Group) \in Nat
  BY GroupAssumption, FS_CardinalityType
<1>2. CASE stack = <<>>
  BY <1>1, <1>2 DEF NestingBounded
<1>3. CASE stack # <<>>
  <2>1. n \in Nat \ {0}
    BY <1>3, StackIs DEF NestInv
  <2>2. \A j \in 2 .. n : stack[j].own \in Group
    BY <1>3 DEF NestInv, OwnTables, VisitTypes
  <2>3. \A j, k \in 2 .. n : stack[j].own = stack[k].own => j = k
    <3>1. \A j \in 2 .. n : j \in 1 .. n
      BY <2>1
    <3> QED
      BY <1>3, <3>1 DEF NestInv, OwnTables
  <2> HIDE DEF n
  <2>4. above \in [2 .. n -> Group]
    BY <2>2
  <2>5. above \in Injection(2 .. n, Group)
    BY <2>3, <2>4 DEF Injection, IsInjective
  <2>6. IsFiniteSet(2 .. n) /\ Cardinality(2 .. n) <= Cardinality(Group)
    BY <1>1, <2>5, FS_Injection
  <2>7. Cardinality(2 .. n) = IF 2 > n THEN 0 ELSE n - 2 + 1
    BY <2>1, FS_Interval
  <2>8. n <= Cardinality(Group) + 1
    BY <1>1, <2>1, <2>6, <2>7
  <2> QED
    BY <2>8 DEF NestingBounded, n
<1> QED
  BY <1>2, <1>3

-----------------------------------------------------------------------------
(* What a call has reported. *)

\* What ReportsExact says of a call that succeeds.
Exactly ==
  /\ call.recursive =>
       IF call.op = "links"
       THEN \A g \in Group : \A p \in DOMAIN links[g] :
              reported[<<g, p>>] = IF g \notin Reached THEN 0
                                   ELSE IF g = call.start /\ LeadsTo(g) THEN 2 ELSE 1
       ELSE \A x \in Object :
              reported[x] = (IF x = call.start THEN 1 ELSE 0) + (IF LeadsTo(x) THEN 1 ELSE 0)
  /\ ~call.recursive =>
       \A x \in LinkId :
         reported[x] = IF x[1] = call.start /\ x[2] \in DOMAIN links[call.start] THEN 1 ELSE 0

\* Tables tb are the links of the groups that hard links lead to, each once.
CopiedIn(tb) ==
  /\ \A o \in Owner : \A k \in DOMAIN tb[o] : EntryCopied(o, tb[o][k])
  /\ \A o \in visited \cup {Outermost} : HasAll(o, tb[o])
  /\ VisitedReached

LEMMA GroupIs ==
  ASSUME VisitTypes
  PROVE  /\ call.start \in Group /\ GroupOf(Outermost) = call.start /\ Outermost \in Owner
         /\ \A g \in Group : g \in Owner /\ g # Outermost /\ GroupOf(g) = g
         /\ visited \subseteq Group
         /\ links \in [Group -> Seq(Link)]
         /\ \A g \in Group : links[g] \in Seq(Link) /\ DOMAIN links[g] \subseteq Positions
<1>1. call.start \in Group /\ visited \subseteq Group
  BY DEF VisitTypes, Call
<1>2. links \in [Group -> Seq(Link)] /\ \A g \in Group : Len(links[g]) <= Len(CrtTime)
  BY GraphAssumption DEF VisitTypes
<1>3. \A g \in Group : links[g] \in Seq(Link) /\ DOMAIN links[g] \subseteq Positions
  <2> SUFFICES ASSUME NEW g \in Group PROVE links[g] \in Seq(Link) /\ DOMAIN links[g] \subseteq Positions
    OBVIOUS
  <2>1. links[g] \in Seq(Link) /\ Len(links[g]) <= Len(CrtTime) /\ Len(CrtTime) \in Nat
    BY <1>2, CrtTimeAssumption
  <2>2. DOMAIN links[g] = 1 .. Len(links[g])
    BY <2>1
  <2> QED
    BY <2>1, <2>2 DEF Positions
<1> QED
  BY <1>1, <1>2, <1>3, GroupAssumption DEF GroupOf, Owner

\* Links lead from the group that a visit starts from to those with tables.
LEMMA ReachedIs ==
  ASSUME VisitTypes, call.recursive, NEW tb, CopiedIn(tb)
  PROVE  /\ Reached = {call.start} \cup visited
         /\ \A g \in Reached : \A l \in ToSet(links[g]) : \E o \in visited \cup {Outermost} :
              \E k \in DOMAIN tb[o] : tb[o][k].hard = l.hard /\ tb[o][k].target = l.target
         /\ \A g \in Group : LeadsTo(g) <=> g \in visited
<1> DEFINE S == {call.start} \cup visited
<1>1. call.start \in Group /\ visited \subseteq Group /\ S \in SUBSET Group
  BY GroupIs
<1>2. ASSUME NEW g \in S, NEW l \in ToSet(links[g])
      PROVE  \E o \in visited \cup {Outermost} : \E k \in DOMAIN tb[o] :
                tb[o][k].hard = l.hard /\ tb[o][k].target = l.target
  <2>1. PICK o \in visited \cup {Outermost} : GroupOf(o) = g
    BY GroupIs
  <2>2. PICK p \in DOMAIN links[g] : l = links[g][p]
    <3>1. links[g] \in Seq(Link)
      BY <1>1, GroupIs
    <3> QED
      BY <3>1 DEF ToSet
  <2>3. PICK k \in DOMAIN tb[o] : tb[o][k].pos = p
    BY <2>1, <2>2 DEF CopiedIn, EntryCopied, HasAll, VisitedReached
  <2>4. o \in Owner
    BY GroupIs
  <2>5. tb[o][k].hard = links[g][p].hard /\ tb[o][k].target = links[g][p].target
    BY <2>1, <2>3, <2>4 DEF CopiedIn, EntryCopied, HasAll, VisitedReached
  <2> HIDE DEF S
  <2>6. tb[o][k].hard = l.hard /\ tb[o][k].target = l.target
    BY <2>2, <2>5
  <2>7. \E x \in DOMAIN tb[o] : tb[o][x].hard = l.hard /\ tb[o][x].target = l.target
    BY <2>6, Zenon
  <2> WITNESS o \in visited \cup {Outermost}
  <2> QED
    BY <2>7
<1>3. ASSUME NEW g \in S, NEW l \in ToSet(links[g]), l.hard, l.target \in Group
      PROVE  l.target \in visited
  <2>1. PICK o \in visited \cup {Outermost} : \E k \in DOMAIN tb[o] :
                tb[o][k].hard = l.hard /\ tb[o][k].target = l.target
    BY <1>2
  <2>2. o \in Owner
    BY GroupIs
  <2> QED
    BY <1>3, <2>1, <2>2 DEF CopiedIn, EntryCopied, HasAll, VisitedReached
<1>4. Closed(S)
  BY <1>3 DEF Closed
<1>5. \A g \in Reached : g \in S
  BY <1>1, <1>4 DEF Reached
<1>6. \A g \in S : g \in Reached
  <2>1. call.start \in Reached
    BY <1>1 DEF Reached
  <2> QED
    BY <2>1 DEF CopiedIn, EntryCopied, HasAll, VisitedReached
<1>7. Reached = S
  BY <1>5, <1>6
<1>8. \A g \in Group : LeadsTo(g) <=> g \in visited
  <2>1. \A g \in visited : LeadsTo(g)
    BY DEF CopiedIn, EntryCopied, HasAll, VisitedReached
  <2>2. ASSUME NEW g \in Group, LeadsTo(g) PROVE g \in visited
    <3>1. PICK l \in ReachedLinks : l.hard /\ l.target = g
      BY <2>2 DEF LeadsTo
    <3>2. PICK h \in S : l \in ToSet(links[h])
      BY <1>7, <3>1 DEF ReachedLinks
    <3> QED
      BY <1>3, <3>1, <3>2
  <2> QED
    BY <2>1, <2>2
<1> QED
  BY <1>2, <1>7, <1>8


\* The callback has been called for each link of the tables tb, or for the objects that
\* its hard links lead to.
ReportsAll(tb) ==
  /\ call.op = "links" =>
       \A g \in Group, p \in Positions :
         reported[<<g, p>>] =
           (IF g = call.start /\ \E k \in DOMAIN tb[Outermost] : tb[Outermost][k].pos = p THEN 1 ELSE 0)
             + (IF \E k \in DOMAIN tb[g] : tb[g][k].pos = p THEN 1 ELSE 0)
  /\ call.op = "objects" =>
       \A x \in Object :
         reported[x] = (IF x = call.start THEN 1 ELSE 0)
           + (IF \E o \in Owner : \E k \in DOMAIN tb[o] : tb[o][k].hard /\ tb[o][k].target = x THEN 1 ELSE 0)

\* A call that has reported all its entries has reported exactly what links lead to.
LEMMA AllReported ==
  ASSUME VisitTypes, NEW tb, tb \in [Owner -> Seq(TableEntry)], EnteredIn(tb), CopiedIn(tb), ReportsAll(tb)
  PROVE  Exactly
<1>1. /\ call.start \in Group /\ visited \subseteq Group /\ Outermost \notin visited
      /\ \A g \in Group : g \in Owner /\ g # Outermost
  BY GroupIs
<1>2. \A p \in DOMAIN links[call.start] : \E k \in DOMAIN tb[Outermost] : tb[Outermost][k].pos = p
  BY GroupIs DEF CopiedIn, EntryCopied, HasAll, VisitedReached
<1>3. \A k \in DOMAIN tb[Outermost] : tb[Outermost][k].pos \in DOMAIN links[call.start]
  BY GroupIs DEF CopiedIn, EntryCopied, HasAll, VisitedReached
<1>4. \A g \in Group : g \notin visited => DOMAIN tb[g] = {}
  BY <1>1 DEF EnteredIn
<1>5. \A g \in visited : \A p \in DOMAIN links[g] : \E k \in DOMAIN tb[g] : tb[g][k].pos = p
  BY <1>1, GroupIs DEF CopiedIn, EntryCopied, HasAll, VisitedReached
<1>6. ASSUME call.recursive, call.op = "links", NEW g \in Group, NEW p \in DOMAIN links[g]
      PROVE  reported[<<g, p>>] = IF g \notin Reached THEN 0
                                  ELSE IF g = call.start /\ LeadsTo(g) THEN 2 ELSE 1
  <2>1. p \in Positions
    BY GroupIs
  <2>2. g \in Reached <=> g = call.start \/ g \in visited
    BY <1>6, ReachedIs
  <2>3. LeadsTo(g) <=> g \in visited
    BY <1>6, ReachedIs
  <2>4. reported[<<g, p>>] =
          (IF g = call.start /\ \E k \in DOMAIN tb[Outermost] : tb[Outermost][k].pos = p THEN 1 ELSE 0)
             + (IF \E k \in DOMAIN tb[g] : tb[g][k].pos = p THEN 1 ELSE 0)
    BY <1>6, <2>1 DEF ReportsAll
  <2>5. g = call.start => \E k \in DOMAIN tb[Outermost] : tb[Outermost][k].pos = p
    BY <1>2, <1>6
  <2>6. (\E k \in DOMAIN tb[g] : tb[g][k].pos = p) <=> g \in visited
    BY <1>4, <1>5, <1>6
  <2>7. reported[<<g, p>>] = (IF g = call.start THEN 1 ELSE 0) + (IF g \in visited THEN 1 ELSE 0)
    BY <2>4, <2>5, <2>6
  <2> QED
    BY <2>2, <2>3, <2>7
<1>7. ASSUME call.recursive, call.op = "objects", NEW x \in Object
      PROVE  reported[x] = (IF x = call.start THEN 1 ELSE 0) + (IF LeadsTo(x) THEN 1 ELSE 0)
  <2>1. ASSUME LeadsTo(x)
        PROVE  \E o \in Owner : \E k \in DOMAIN tb[o] : tb[o][k].hard /\ tb[o][k].target = x
    <3>1. PICK l \in ReachedLinks : l.hard /\ l.target = x
      BY <2>1 DEF LeadsTo
    <3>2. PICK g \in Reached : l \in ToSet(links[g])
      BY <3>1 DEF ReachedLinks
    <3>3. PICK o \in visited \cup {Outermost} :
            \E k \in DOMAIN tb[o] : tb[o][k].hard = l.hard /\ tb[o][k].target = l.target
      <4>1. \A h \in Reached : \A m \in ToSet(links[h]) : \E o \in visited \cup {Outermost} :
               \E k \in DOMAIN tb[o] : tb[o][k].hard = m.hard /\ tb[o][k].target = m.target
        BY <1>7, ReachedIs
      <4> QED
        BY <3>2, <4>1
    <3>4. o \in Owner
      BY GroupIs
    <3> QED
      BY <3>1, <3>3, <3>4
  <2>2. ASSUME NEW o \in Owner, NEW k \in DOMAIN tb[o], tb[o][k].hard, tb[o][k].target = x
        PROVE  LeadsTo(x)
    <3> DEFINE g == GroupOf(o)
               l == links[g][tb[o][k].pos]
    <3>1. o \in visited \/ o = Outermost
      BY DEF EnteredIn
    <3>2. g \in Reached
      BY <1>7, <3>1, GroupIs, ReachedIs
    <3>3. l.hard /\ l.target = x /\ tb[o][k].pos \in DOMAIN links[g]
      BY <2>2 DEF CopiedIn, EntryCopied, HasAll, VisitedReached
    <3>4. g \in Group
      BY <3>2 DEF Reached
    <3>5. l \in ToSet(links[g])
      <4>1. links[g] \in Seq(Link)
        BY <3>4, GroupIs
      <4> QED
        BY <3>3, <4>1 DEF ToSet
    <3> HIDE DEF g, l
    <3>6. l \in ReachedLinks
      BY <3>2, <3>5 DEF ReachedLinks
    <3> QED
      BY <3>3, <3>6 DEF LeadsTo
  <2>3. reported[x] = (IF x = call.start THEN 1 ELSE 0)
           + (IF \E o \in Owner : \E k \in DOMAIN tb[o] : tb[o][k].hard /\ tb[o][k].target = x THEN 1 ELSE 0)
    BY <1>7 DEF ReportsAll
  <2>4. LeadsTo(x) <=> \E o \in Owner : \E k \in DOMAIN tb[o] : tb[o][k].hard /\ tb[o][k].target = x
    BY <2>1, <2>2
  <2> QED
    BY <2>3, <2>4
<1>8. ASSUME ~call.recursive, NEW x \in LinkId
      PROVE  reported[x] = IF x[1] = call.start /\ x[2] \in DOMAIN links[call.start] THEN 1 ELSE 0
  <2>1. PICK g \in Group, p \in Positions : x = <<g, p>>
    <3>1. DOMAIN CrtTime = Positions
      BY CrtTimeAssumption DEF Positions
    <3> QED
      BY <3>1 DEF LinkId
  <2>2. visited = {} /\ call.op = "links"
    BY <1>8 DEF EnteredIn, VisitTypes, Call, Op
  <2>3. reported[x] =
          (IF g = call.start /\ \E k \in DOMAIN tb[Outermost] : tb[Outermost][k].pos = p THEN 1 ELSE 0)
             + (IF \E k \in DOMAIN tb[g] : tb[g][k].pos = p THEN 1 ELSE 0)
    BY <2>1, <2>2 DEF ReportsAll
  <2>4. ~\E k \in DOMAIN tb[g] : tb[g][k].pos = p
    BY <1>4, <2>2
  <2>5. (\E k \in DOMAIN tb[Outermost] : tb[Outermost][k].pos = p) <=> p \in DOMAIN links[call.start]
    BY <1>2, <1>3
  <2>6. x[1] = g /\ x[2] = p
    BY <2>1
  <2>7. reported[x] = (IF g = call.start /\ p \in DOMAIN links[call.start] THEN 1 ELSE 0) + 0
    BY <2>3, <2>4, <2>5
  <2> QED
    BY <2>6, <2>7
<1>9. call.op \in {"links", "objects"}
  BY DEF VisitTypes, Call, Op
<1> QED
  BY <1>6, <1>7, <1>8, <1>9 DEF Exactly

\* Nothing is said of a call that has not ended, and of one that has ended otherwise.
LEMMA ExactlyExact ==
  ASSUME phase' = "returned" /\ ret' = "ok" /\ ~stopped' /\ ~call'.idx /\ changes' = 0 => Exactly,
         phase' = "returned" => UNCHANGED <<links, call, reported>>,
         call'.idx => ~call'.recursive
  PROVE  ReportsExact'
<1>1. CASE phase' = "returned" /\ ret' = "ok" /\ ~stopped' /\ ~call'.idx /\ changes' = 0
  <2>1. Exactly /\ links' = links /\ call' = call /\ reported' = reported
    BY <1>1
  <2>2. Exactly'
    BY <2>1 DEF Exactly, LeadsTo, ReachedLinks, Reached, Closed
  <2> QED
    BY <1>1, <2>2 DEF ReportsExact, VisitExact, ListingExact, Exactly
<1>2. CASE ~(phase' = "returned" /\ ret' = "ok" /\ ~stopped' /\ ~call'.idx /\ changes' = 0)
  BY <1>2 DEF ReportsExact, VisitExact, ListingExact
<1> QED
  BY <1>1, <1>2


LEMMA CountIs ==
  ASSUME Reported, NEW x, NEW c, c = Count(x)
  PROVE  /\ c \in [LinkId \cup Object -> Nat]
         /\ x \in LinkId \cup Object /\ reported[x] < 3 => c[x] = reported[x] + 1
         /\ \A y \in LinkId \cup Object : y # x => c[y] = reported[y]
<1> DEFINE D == LinkId \cup Object
           a == IF reported[x] < 3 THEN reported[x] + 1 ELSE reported[x]
<1>1. reported \in [D -> Nat]
  BY DEF Reported
<1>2. c = [reported EXCEPT ![x] = a]
  BY DEF Count
<1>3. x \in D => a \in Nat /\ (reported[x] < 3 => a = reported[x] + 1)
  BY <1>1
<1> HIDE DEF D, a
<1>4. c \in [D -> Nat]
  BY <1>1, <1>2, <1>3
<1>5. x \in D => c[x] = a
  BY <1>1, <1>2
<1>6. \A y \in D : y # x => c[y] = reported[y]
  BY <1>1, <1>2
<1> QED
  BY <1>3, <1>4, <1>5, <1>6 DEF D

LEMMA NoReportsIs ==
  /\ NoReports \in [LinkId \cup Object -> Nat]
  /\ \A x \in LinkId \cup Object : NoReports[x] = 0
  BY DEF NoReports

\* A call ends.
LEMMA EndsExact ==
  ASSUME phase' = "returned", Reported', ReportsExact'
  PROVE  ExactInv'
  BY DEF ExactInv, Copies, Tree, Untouched, Reporting

\* A call ends without success, or at the application's wish.
LEMMA EndsOtherwise ==
  ASSUME phase' = "returned", Reported', ret' = "fail" \/ stopped'
  PROVE  ExactInv'
  BY EndsExact DEF ReportsExact, VisitExact, ListingExact

LEMMA NotEnded ==
  ASSUME phase' # "returned"
  PROVE  ReportsExact'
  BY DEF ReportsExact, VisitExact, ListingExact

LEMMA VisitInitExact ==
  ASSUME VisitInit
  PROVE  ExactInv
<1>1. Reported
  BY NoReportsIs DEF VisitInit, Reported
<1>2. Copies /\ Tree /\ Untouched /\ Reporting /\ ReportsExact
  BY DEF VisitInit, Copies, Tree, Untouched, Reporting, ReportsExact, VisitExact, ListingExact
<1> QED
  BY <1>1, <1>2 DEF ExactInv

LEMMA StartVisitExact ==
  ASSUME NEW c \in Call, NEW i \in 0 .. Len(CrtTime), Start(c, i)
  PROVE  ExactInv'
<1>1. Reported'
  BY NoReportsIs DEF Start, Reported, NoReports, LinkId, Object
<1>2. Copies' /\ Tree' /\ Reporting' /\ ReportsExact'
  BY NotEnded DEF Start, Copies, Tree, Reporting
<1>3. Untouched'
  BY DEF Start, Untouched, NoReports, LinkId, Object
<1> QED
  BY <1>1, <1>2, <1>3 DEF ExactInv

LEMMA StartObjectExact ==
  ASSUME NestInv, ExactInv, NEW r \in {-1, 0, 1}, StartObject(r)
  PROVE  ExactInv'
<1>1. Reported'
  <2>1. reported' = Count(call.start) /\ Reported
    BY DEF StartObject, ExactInv
  <2>2. reported' \in [LinkId \cup Object -> Nat]
    BY <2>1, CountIs
  <2> QED
    BY <2>2 DEF Reported, LinkId, Object
<1>2. CASE r = 0
  <2>1. phase' = "start" /\ ret' = "ok" /\ ~stopped' /\ call' = call /\ call.op = "objects" /\ reported = NoReports
    <3>1. phase = "start" /\ ~(r < 0) /\ ~(r > 0)
      BY <1>2 DEF StartObject
    <3>2. ret = "ok"
      BY <3>1 DEF ExactInv, Untouched
    <3>3. phase' = phase /\ ret' = ret /\ stopped' = (r > 0) /\ call' = call /\ call.op = "objects" /\ reported = NoReports
      BY <1>2, <3>1 DEF StartObject
    <3> QED
      BY <3>1, <3>2, <3>3
  <2>2. reported' = [NoReports EXCEPT ![call.start] = 1]
    <3>1. call.start \in LinkId \cup Object
      BY DEF NestInv, VisitTypes, Call, Object
    <3>2. NoReports[call.start] = 0
      BY <3>1, NoReportsIs
    <3> QED
      BY <2>1, <3>2 DEF StartObject, Count
  <2>3. Copies' /\ Tree' /\ Reporting' /\ ReportsExact'
    BY <2>1, NotEnded DEF Copies, Tree, Reporting
  <2>4. Untouched'
    BY <2>1, <2>2 DEF Untouched, AtFirst, NoReports, LinkId, Object
  <2> QED
    BY <1>1, <2>3, <2>4 DEF ExactInv
<1>3. CASE r = 1
  <2>1. phase' = "returned" /\ stopped' = (1 > 0)
    BY <1>3 DEF StartObject
  <2>2. 1 > 0
    OBVIOUS
  <2> QED
    BY <1>1, <2>1, <2>2, EndsOtherwise
<1>4. CASE r = -1
  <2>1. phase' = "returned" /\ ret' = "fail"
    BY <1>4 DEF StartObject
  <2> QED
    BY <1>1, <2>1, EndsOtherwise
<1> QED
  BY <1>2, <1>3, <1>4

LEMMA ReportedStays ==
  ASSUME ExactInv, reported' = reported
  PROVE  Reported'
  BY DEF ExactInv, Reported, LinkId, Object

LEMMA FirstRequestFailsExact ==
  ASSUME ExactInv, FirstRequestFails
  PROVE  ExactInv'
  BY ReportedStays, EndsOtherwise DEF FirstRequestFails

LEMMA BuildFailsExact ==
  ASSUME ExactInv, BuildFails
  PROVE  ExactInv'
  BY ReportedStays, EndsOtherwise DEF BuildFails

LEMMA FirstAnswerExact ==
  ASSUME NestInv, ExactInv, FirstAnswer
  PROVE  ExactInv'
<1> DEFINE f == BuildFrame(Outermost)
<1>1. f.own = Outermost /\ f.links = links[GroupOf(Outermost)]
  BY BuildFrameIs DEF NestInv, Owner
<1>2. /\ stack' = <<f>> /\ phase = "start" /\ phase' = "build" /\ tables = NoTables /\ tables' = tables
      /\ links' = links /\ call' = call /\ visited = {} /\ visited' = {} /\ executed' = {}
      /\ reported' = reported /\ ret' = ret /\ stopped' = stopped
  BY DEF FirstAnswer, NestInv, Fresh, graph
<1> HIDE DEF f
<1>3. Len(stack') = 1 /\ stack'[1] = f /\ \A j \in 1 .. Len(stack') : j = 1
  BY <1>2
<1>4. Copies'
  <2>1. \A o \in Owner : DOMAIN tables'[o] = {}
    BY <1>2, NoTablesIs
  <2>2. \A o \in visited' \cup {Outermost} : o \in Owns'
    BY <1>1, <1>2, <1>3 DEF Owns
  <2>3. (\A j \in 1 .. Len(stack) : stack[j].links = links[GroupOf(stack[j].own)])'
    BY <1>1, <1>2, <1>3 DEF GroupOf
  <2> QED
    BY <1>2, <2>1, <2>2, <2>3 DEF Copies, VisitedReached
<1>5. Tree' /\ Reporting' /\ ReportsExact'
  BY <1>2, NotEnded DEF Tree, Reporting
<1>6. Untouched'
  <2>1. ret = "ok" /\ ~stopped /\ (reported = NoReports \/ (call.op = "objects" /\ reported = AtFirst))
    BY <1>2 DEF ExactInv, Untouched
  <2>2. call.op = "objects" => reported # NoReports
    BY DEF FirstAnswer
  <2>3. reported = AtFirst
    BY <2>1, <2>2 DEF AtFirst
  <2>4. AtFirst' = AtFirst
    BY <1>2 DEF AtFirst, NoReports, LinkId, Object
  <2> QED
    BY <1>2, <2>1, <2>3, <2>4 DEF Untouched
<1> QED
  BY <1>2, <1>4, <1>5, <1>6, ReportedStays DEF ExactInv

\* While tables are built, only they and the stack change.
LEMMA BuildsExact ==
  ASSUME ExactInv, phase = "build", phase' = "build", Copies', Tree',
         UNCHANGED <<call, executed, reported, ret, stopped>>
  PROVE  ExactInv'
<1>1. Untouched'
  <2>1. AtFirst' = AtFirst
    BY DEF AtFirst, NoReports, LinkId, Object
  <2> QED
    BY <2>1 DEF ExactInv, Untouched
<1>2. Reporting' /\ ReportsExact'
  BY NotEnded DEF Reporting
<1> QED
  BY <1>1, <1>2, ReportedStays DEF ExactInv

LEMMA OtherClientExact ==
  ASSUME NestInv, ExactInv, NEW g \in Group, OtherClient(g)
  PROVE  ExactInv'
<1>1. changes \in Nat /\ changes' = changes + 1
  BY DEF NestInv, VisitTypes, OtherClient
<1>2. changes' # 0
  BY <1>1
<1>3. Copies' /\ Reporting' /\ ReportsExact'
  BY <1>2 DEF Copies, Reporting, ReportsExact, VisitExact, ListingExact
<1>4. Untouched'
  BY DEF ExactInv, Untouched, OtherClient, visits, AtFirst, NoReports, LinkId, Object
<1>5. Tree'
  BY DEF ExactInv, Tree, OtherClient, visits
<1>6. Reported'
  BY ReportedStays DEF OtherClient
<1> QED
  BY <1>3, <1>4, <1>5, <1>6 DEF ExactInv


\* The groups and the links are the same, and groups with tables stay.
LEMMA GraphStays ==
  ASSUME links' = links, call' = call, visited \subseteq visited'
  PROVE  /\ \A u : GroupOf(u)' = GroupOf(u)
         /\ \A u, x : EntryCopied(u, x) => EntryCopied(u, x)'
         /\ \A u, t : HasAll(u, t) => HasAll(u, t)'
         /\ \A g : g \in Reached /\ LeadsTo(g) => (g \in Reached /\ LeadsTo(g))'
<1>1. \A u : GroupOf(u)' = GroupOf(u)
  BY DEF GroupOf
<1>2. \A u, x : EntryCopied(u, x) => EntryCopied(u, x)'
  BY <1>1 DEF EntryCopied
<1>3. \A u, t : HasAll(u, t) => HasAll(u, t)'
  BY <1>1 DEF HasAll
<1>4. Reached' = Reached
  BY DEF Reached, Closed
<1>5. ReachedLinks' = ReachedLinks
  BY <1>4 DEF ReachedLinks
<1>6. \A g : LeadsTo(g)' <=> LeadsTo(g)
  BY <1>5 DEF LeadsTo
<1> QED
  BY <1>1, <1>2, <1>3, <1>4, <1>6

\* A hard link of a group that is reached leads to a group that is reached too.
LEMMA ReachedOn ==
  ASSUME VisitTypes, NEW g \in Group, g = call.start \/ g \in Reached, NEW p \in DOMAIN links[g],
         links[g][p].hard, links[g][p].target \in Group
  PROVE  links[g][p].target \in Reached /\ LeadsTo(links[g][p].target)
<1> DEFINE l == links[g][p]
           t == l.target
<1>1. g \in Reached
  BY DEF Reached
<1>2. l \in ToSet(links[g])
  <2>1. links[g] \in Seq(Link)
    BY GroupIs
  <2> QED
    BY <2>1 DEF ToSet
<1>3. l.hard /\ t \in Group
  OBVIOUS
<1> HIDE DEF l
<1>4. \A S \in SUBSET Group : call.start \in S /\ Closed(S) => t \in S
  BY <1>1, <1>2, <1>3 DEF Reached, Closed
<1>5. t \in Reached
  BY <1>3, <1>4 DEF Reached
<1>6. LeadsTo(t)
  BY <1>1, <1>2, <1>3 DEF LeadsTo, ReachedLinks
<1> QED
  BY <1>5, <1>6 DEF l

\* While the first request has been answered and no other client has changed a link, an
\* activation processes the links of its group.
LEMMA BuildingExactIs ==
  ASSUME NestInv, ExactInv, phase = "build", changes = 0
  PROVE  /\ \A u \in Owner : \A k \in DOMAIN tables[u] : EntryCopied(u, tables[u][k])
         /\ \A u \in visited \cup {Outermost} : u \notin Owns => HasAll(u, tables[u])
         /\ VisitedReached
         /\ \A j \in 1 .. Len(stack) : stack[j].links = links[GroupOf(stack[j].own)]
         /\ Top.links = links[GroupOf(Top.own)] /\ GroupOf(Top.own) \in Group
         /\ GroupOf(Top.own) = call.start \/ GroupOf(Top.own) \in Reached
<1>1. /\ \A u \in Owner : \A k \in DOMAIN tables[u] : EntryCopied(u, tables[u][k])
      /\ \A u \in visited \cup {Outermost} : u \notin Owns => HasAll(u, tables[u])
      /\ VisitedReached
      /\ \A j \in 1 .. Len(stack) : stack[j].links = links[GroupOf(stack[j].own)]
  BY DEF ExactInv, Copies
<1>2. Len(stack) \in 1 .. Len(stack) /\ Top = stack[Len(stack)] /\ Top.own \in Owner
  BY BuildingIs
<1>3. Top.links = links[GroupOf(Top.own)]
  BY <1>1, <1>2
<1>4. Top.own \in visited \/ Top.own = Outermost
  BY BuildingIs
<1>5. VisitTypes
  BY DEF NestInv
<1>6. GroupOf(Top.own) \in Group /\ (GroupOf(Top.own) = call.start \/ GroupOf(Top.own) \in visited)
  BY <1>4, <1>5, GroupIs
<1> QED
  BY <1>1, <1>3, <1>6 DEF VisitedReached

LEMMA AddLinkExact ==
  ASSUME NestInv, ExactInv, AddLink
  PROVE  ExactInv'
<1> DEFINE n == Len(stack)
           o == Top.own
           e == NewEntry(FALSE)
           f == [Top EXCEPT !.i = @ + 1]
           m == Top.i
<1>0. LinkAdded(n, o, e, f, m)
  BY AddLinkIs
<1>1. m = Top.i /\ o = Top.own /\ n = Len(stack) /\ CurLink = Top.links[m]
  BY DEF CurLink
<1> HIDE DEF e, f, n, o, m
<1>2. /\ n \in Nat \ {0} /\ Top = stack[n] /\ o \in Owner /\ Top.links \in Seq(Link)
      /\ m \in Nat \ {0} /\ m <= Len(Top.links)
      /\ e.pos = m /\ ~e.sub /\ e.hard = CurLink.hard /\ e.target = CurLink.target
      /\ phase = "build" /\ phase' = "build" /\ visited' = visited /\ call' = call /\ links' = links
      /\ Len(stack') = n
      /\ \A j \in 1 .. n : stack'[j].own = stack[j].own /\ stack'[j].links = stack[j].links
  BY <1>0 DEF LinkAdded
<1>3. /\ DOMAIN tables'[o] = 1 .. m /\ DOMAIN tables[o] = 1 .. m - 1
      /\ tables'[o][m] = e /\ \A k \in 1 .. m - 1 : tables'[o][k] = tables[o][k]
      /\ \A u \in Owner : u # o => tables'[u] = tables[u]
  BY <1>0 DEF LinkAdded
<1>4. /\ UNCHANGED <<call, executed, reported, ret, stopped, changes, links, visited>>
  BY DEF AddLink, graph
<1>5. Owns' = Owns /\ o \in Owns
  <2>1. Owns' = {stack'[j].own : j \in 1 .. n} /\ Owns = {stack[j].own : j \in 1 .. n}
    BY <1>1, <1>2 DEF Owns
  <2>2. n \in 1 .. n
    BY <1>2
  <2> QED
    BY <1>1, <1>2, <2>1, <2>2
<1>6. \A u \in Owner : \A k \in DOMAIN tables[u] : k \in DOMAIN tables'[u] /\ tables'[u][k] = tables[u][k]
  <2>1. \A k \in 1 .. m - 1 : k \in 1 .. m
    BY <1>2
  <2> QED
    BY <1>3, <2>1
<1>7. \A u \in Owner : \A k \in DOMAIN tables'[u] :
         (u = o /\ k = m) \/ (k \in DOMAIN tables[u] /\ tables'[u][k] = tables[u][k])
  <2>1. \A k \in 1 .. m : k = m \/ k \in 1 .. m - 1
    BY <1>2
  <2> QED
    BY <1>3, <2>1
<1>8. Copies'
  <2> SUFFICES ASSUME changes = 0
               PROVE  Copies'
    BY <1>4 DEF Copies
  <2>1. /\ \A u \in Owner : \A k \in DOMAIN tables[u] : EntryCopied(u, tables[u][k])
        /\ \A u \in visited \cup {Outermost} : u \notin Owns => HasAll(u, tables[u])
        /\ VisitedReached
        /\ \A j \in 1 .. n : stack[j].links = links[GroupOf(stack[j].own)]
        /\ Top.links = links[GroupOf(o)]
    BY <1>1, <1>2, BuildingExactIs
  <2>2. EntryCopied(o, e)
    <3>1. m \in DOMAIN Top.links
      BY <1>2
    <3>2. ~Follows
      BY DEF AddLink
    <3>3. call.recursive /\ CurLink.hard /\ CurLink.target \in Group => CurLink.target \in visited
      BY <3>2 DEF Follows
    <3> QED
      BY <1>1, <1>2, <2>1, <3>1, <3>3 DEF EntryCopied
  <2>3. /\ \A u : GroupOf(u)' = GroupOf(u)
        /\ \A u, x : EntryCopied(u, x) => EntryCopied(u, x)'
        /\ \A u, t : HasAll(u, t) => HasAll(u, t)'
        /\ \A g : g \in Reached /\ LeadsTo(g) => (g \in Reached /\ LeadsTo(g))'
    BY <1>2, GraphStays
  <2>4. (\A u \in Owner : \A k \in DOMAIN tables[u] : EntryCopied(u, tables[u][k]))'
    <3> SUFFICES ASSUME NEW u \in Owner, NEW k \in DOMAIN tables'[u]
                 PROVE  EntryCopied(u, tables[u][k])'
      BY DEF Owner
    <3>1. EntryCopied(u, tables'[u][k])
      BY <1>3, <1>7, <2>1, <2>2
    <3> DEFINE x == tables'[u][k]
    <3>2. EntryCopied(u, x)
      BY <3>1
    <3> HIDE DEF x
    <3>3. x.pos \in DOMAIN links'[GroupOf(u)']
      BY <3>2, <2>3, <1>2 DEF EntryCopied
    <3>4. /\ x.hard = links'[GroupOf(u)'][x.pos].hard
          /\ x.target = links'[GroupOf(u)'][x.pos].target
          /\ call'.recursive /\ x.hard /\ x.target \in Group => x.target \in visited'
      BY <3>2, <2>3, <1>2 DEF EntryCopied
    <3> QED
      BY <3>3, <3>4 DEF EntryCopied, x
  <2>5. (\A u \in visited \cup {Outermost} : u \notin Owns => HasAll(u, tables[u]))'
    <3>1. \A u \in visited \cup {Outermost} : u \in Owner /\ (u \notin Owns => tables'[u] = tables[u])
      BY <1>3, <1>5, GroupIs DEF NestInv
    <3>2. \A u \in visited \cup {Outermost} : u \notin Owns =>
             \A p \in DOMAIN links[GroupOf(u)] : \E k \in DOMAIN tables'[u] : tables'[u][k].pos = p
      BY <2>1, <3>1 DEF HasAll
    <3> QED
      BY <1>2, <1>5, <2>3, <3>2 DEF HasAll
  <2> QED
    BY <1>2, <2>1, <2>3, <2>4, <2>5 DEF Copies, VisitedReached
<1>9. Tree'
  <2>1. \A S \in SUBSET Owner :
          /\ Outermost \in S
          /\ \A u \in S : \A k \in DOMAIN tables[u] : tables[u][k].sub => tables[u][k].target \in S
          /\ \A j \in 1 .. n - 1 : stack[j].own \in S => stack[j + 1].own \in S
          => visited \subseteq S
    BY <1>1, <1>2 DEF ExactInv, Tree
  <2>2. \A j \in 1 .. n - 1 : stack'[j].own = stack[j].own /\ stack'[j + 1].own = stack[j + 1].own
    <3>1. \A j \in 1 .. n - 1 : j \in 1 .. n /\ j + 1 \in 1 .. n
      BY <1>2
    <3> QED
      BY <1>2, <3>1
  <2>3. ASSUME NEW S \in SUBSET Owner, Outermost \in S,
               \A u \in S : \A k \in DOMAIN tables'[u] : tables'[u][k].sub => tables'[u][k].target \in S,
               \A j \in 1 .. n - 1 : stack'[j].own \in S => stack'[j + 1].own \in S
        PROVE  visited' \subseteq S
    <3>1. \A u \in S : \A k \in DOMAIN tables[u] : tables[u][k].sub => tables[u][k].target \in S
      BY <1>6, <2>3
    <3>2. \A j \in 1 .. n - 1 : stack[j].own \in S => stack[j + 1].own \in S
      BY <2>2, <2>3
    <3> QED
      BY <1>2, <2>1, <2>3, <3>1, <3>2
  <2> QED
    BY <1>2, <2>3 DEF Tree, Owner
<1> QED
  BY <1>2, <1>4, <1>8, <1>9, BuildsExact

LEMMA DescendExact ==
  ASSUME NestInv, ExactInv, Descend
  PROVE  ExactInv'
<1> DEFINE n == Len(stack)
           t == CurLink.target
           f == BuildFrame(t)
           m == n + 1
           o == Top.own
<1>1. /\ stack # <<>> /\ stack \in Seq(BuildFrames) /\ n \in Nat \ {0}
      /\ Top = stack[n] /\ o \in Owner /\ Top.links \in Seq(Link) /\ (o \in visited \/ o = Outermost)
      /\ Top.i \in Nat \ {0} /\ Top.i <= Len(Top.links)
  BY BuildingIs DEF Descend, Building
<1>2. t \in Group /\ t \notin visited /\ CurLink.hard /\ t \in Owner
  BY DEF Descend, Follows, Owner
<1>3. CurLink = Top.links[Top.i] /\ Top.i \in DOMAIN Top.links
  BY <1>1 DEF CurLink
<1>4. f \in BuildFrames /\ f.own = t /\ f.links = links[GroupOf(t)]
  BY <1>2, BuildFrameIs DEF NestInv
<1>5. /\ stack' = Append(stack, f) /\ tables' = tables
      /\ phase = "build" /\ phase' = "build" /\ visited' = visited \cup {t}
      /\ UNCHANGED <<call, executed, reported, ret, stopped, changes, links>>
  BY DEF Descend, Building, graph
<1> HIDE DEF f
<1>6. /\ Len(stack') = m /\ stack'[m] = f /\ \A j \in 1 .. n : stack'[j] = stack[j]
  <2>1. AppendedTo(BuildFrames, stack, f, stack')
    BY <1>1, <1>4, <1>5, Appended
  <2> QED
    BY <2>1 DEF AppendedTo
<1>7. m - 1 = n /\ m \in 1 .. m /\ n \in 1 .. n /\ \A j \in 1 .. m : j = m \/ j \in 1 .. n
  BY <1>1
<1>8. \A j \in 1 .. n : j \in 1 .. m
  BY <1>1
<1>9. n = Len(stack) /\ o = Top.own /\ m = n + 1
  OBVIOUS
<1> HIDE DEF n, m, o, t
<1>10. Owns' = Owns \cup {t} /\ o \in Owns
  <2>1. Owns = {stack[j].own : j \in 1 .. n} /\ Owns' = {stack'[j].own : j \in 1 .. m}
    BY <1>6, <1>9 DEF Owns
  <2> QED
    BY <1>1, <1>4, <1>6, <1>7, <1>8, <1>9, <2>1
<1>11. Copies'
  <2> SUFFICES ASSUME changes = 0
               PROVE  Copies'
    BY <1>5 DEF Copies
  <2>1. /\ \A u \in Owner : \A k \in DOMAIN tables[u] : EntryCopied(u, tables[u][k])
        /\ \A u \in visited \cup {Outermost} : u \notin Owns => HasAll(u, tables[u])
        /\ VisitedReached
        /\ \A j \in 1 .. n : stack[j].links = links[GroupOf(stack[j].own)]
        /\ Top.links = links[GroupOf(o)] /\ GroupOf(o) \in Group
        /\ GroupOf(o) = call.start \/ GroupOf(o) \in Reached
    BY <1>5, <1>9, BuildingExactIs
  <2>2. t \in Reached /\ LeadsTo(t)
    <3>1. /\ Top.i \in DOMAIN links[GroupOf(o)] /\ links[GroupOf(o)][Top.i].hard
          /\ links[GroupOf(o)][Top.i].target = t
      BY <1>2, <1>3, <2>1 DEF t
    <3>2. VisitTypes
      BY DEF NestInv
    <3> QED
      BY <1>2, <2>1, <3>1, <3>2, ReachedOn
  <2>3. /\ \A u : GroupOf(u)' = GroupOf(u)
        /\ \A u, x : EntryCopied(u, x) => EntryCopied(u, x)'
        /\ \A u, y : HasAll(u, y) => HasAll(u, y)'
        /\ \A g : g \in Reached /\ LeadsTo(g) => (g \in Reached /\ LeadsTo(g))'
    BY <1>5, GraphStays
  <2>4. (\A u \in Owner : \A k \in DOMAIN tables[u] : EntryCopied(u, tables[u][k]))'
    <3>1. \A u \in Owner : \A k \in DOMAIN tables[u] : EntryCopied(u, tables[u][k])'
      BY <1>5, <2>1, <2>3 DEF EntryCopied
    <3> QED
      BY <1>5, <3>1 DEF Owner
  <2>5. (\A u \in visited \cup {Outermost} : u \notin Owns => HasAll(u, tables[u]))'
    <3>1. \A u \in visited' \cup {Outermost} : u \notin Owns' =>
             \A p \in DOMAIN links[GroupOf(u)] : \E k \in DOMAIN tables[u] : tables[u][k].pos = p
      BY <1>5, <1>10, <2>1 DEF HasAll
    <3> QED
      BY <1>5, <2>3, <3>1 DEF HasAll
  <2>6. VisitedReached'
    BY <1>5, <2>1, <2>2, <2>3 DEF VisitedReached
  <2>7. (\A j \in 1 .. Len(stack) : stack[j].links = links[GroupOf(stack[j].own)])'
    <3>1. \A j \in 1 .. m : stack'[j].links = links[GroupOf(stack'[j].own)]
      BY <1>4, <1>6, <1>7, <2>1
    <3> QED
      BY <1>5, <1>6, <3>1 DEF GroupOf
  <2> QED
    BY <1>5, <1>6, <2>4, <2>5, <2>6, <2>7 DEF Copies
<1>12. Tree'
  <2>1. \A S \in SUBSET Owner :
          /\ Outermost \in S
          /\ \A u \in S : \A k \in DOMAIN tables[u] : tables[u][k].sub => tables[u][k].target \in S
          /\ \A j \in 1 .. n - 1 : stack[j].own \in S => stack[j + 1].own \in S
          => visited \subseteq S
    BY <1>5, <1>9 DEF ExactInv, Tree
  <2>2. \A j \in 1 .. n - 1 : j \in 1 .. n /\ j + 1 \in 1 .. n
    BY <1>1
  <2>3. ASSUME NEW S \in SUBSET Owner, Outermost \in S,
               \A u \in S : \A k \in DOMAIN tables'[u] : tables'[u][k].sub => tables'[u][k].target \in S,
               \A j \in 1 .. m - 1 : stack'[j].own \in S => stack'[j + 1].own \in S
        PROVE  visited' \subseteq S
    <3>1. \A j \in 1 .. n - 1 : stack[j].own \in S => stack[j + 1].own \in S
      BY <1>6, <1>7, <2>2, <2>3
    <3>2. visited \subseteq S
      BY <1>5, <2>1, <2>3, <3>1
    <3>3. o \in S
      BY <1>1, <2>3, <3>2
    <3>4. stack'[n].own = o /\ stack'[n + 1].own = t /\ n \in 1 .. m - 1
      BY <1>1, <1>4, <1>6, <1>7, <1>9
    <3> QED
      BY <1>5, <2>3, <3>2, <3>3, <3>4
  <2> QED
    BY <1>5, <1>6, <2>3 DEF Tree, Owner
<1> QED
  BY <1>5, <1>11, <1>12, BuildsExact

\* A complete table has all links of its group, and still has when it is sorted.
LEMMA SortedCopied ==
  ASSUME NestInv, ExactInv, phase = "build", changes = 0, Top.i > Len(Top.links),
         NEW tb, SortedTo(tables, Top.own, tb)
  PROVE  /\ \A u \in Owner : \A k \in DOMAIN tb[u] : EntryCopied(u, tb[u][k])
         /\ \A u \in visited \cup {Outermost} : u \notin Owns \/ u = Top.own => HasAll(u, tb[u])
<1> DEFINE o == Top.own
<1>1. /\ \A u \in Owner : \A k \in DOMAIN tb[u] : \E j \in DOMAIN tables[u] : tb[u][k] = tables[u][j]
      /\ \A u \in Owner : \A j \in DOMAIN tables[u] : \E k \in DOMAIN tb[u] : tb[u][k] = tables[u][j]
  BY DEF SortedTo
<1>2. /\ \A u \in Owner : \A k \in DOMAIN tables[u] : EntryCopied(u, tables[u][k])
      /\ \A u \in visited \cup {Outermost} : u \notin Owns => HasAll(u, tables[u])
      /\ Top.links = links[GroupOf(o)]
  BY BuildingExactIs
<1>3. /\ o \in Owner /\ Top.links \in Seq(Link) /\ Top.i \in Nat \ {0}
      /\ DOMAIN tables[o] = 1 .. Top.i - 1
      /\ \A k \in DOMAIN tables[o] : tables[o][k].pos = k
  BY BuildingIs
<1> HIDE DEF o
<1>4. HasAll(o, tables[o])
  <2>1. DOMAIN Top.links = 1 .. Len(Top.links) /\ Len(Top.links) \in Nat
    BY <1>3
  <2>2. \A p \in 1 .. Len(Top.links) : p \in 1 .. Top.i - 1
    BY <1>3, <2>1
  <2> QED
    BY <1>2, <1>3, <2>1, <2>2 DEF HasAll
<1>5. \A u \in Owner : HasAll(u, tables[u]) => HasAll(u, tb[u])
  BY <1>1 DEF HasAll
<1>6. \A u \in visited \cup {Outermost} : u \in Owner
  BY GroupIs DEF NestInv
<1>7. \A u \in Owner : \A k \in DOMAIN tb[u] : EntryCopied(u, tb[u][k])
  BY <1>1, <1>2
<1> QED
  BY <1>2, <1>4, <1>5, <1>6, <1>7 DEF o

LEMMA InnerBuiltExact ==
  ASSUME NestInv, ExactInv, TableBuilt, Below # <<>>
  PROVE  ExactInv'
<1> DEFINE n == Len(stack)
           m == n - 1
           o == Top.own
           tb == [tables EXCEPT ![o] = Sorted(tables[o])]
           caller == stack[m]
           c == caller.own
           k1 == caller.i
           e == [pos |-> caller.i, hard |-> TRUE, target |-> o, sub |-> TRUE]
           f == [caller EXCEPT !.i = @ + 1]
<1>0. InnerBuilt(n, m, o, tb, caller, c, k1, e, f)
  BY InnerBuiltIs
<1>1. n = Len(stack) /\ o = Top.own
  OBVIOUS
<1> HIDE DEF n, m, o, tb, caller, c, k1, e, f
<1>2. /\ n \in Nat \ {0} /\ Top = stack[n] /\ o \in Owner /\ n > 1 /\ phase = "build"
      /\ m \in Nat \ {0} /\ m \in 1 .. n /\ n \in 1 .. n /\ m + 1 = n /\ m \in 1 .. n - 1
      /\ phase' = "build" /\ visited' = visited /\ call' = call /\ links' = links
      /\ SortedTo(tables, o, tb)
      /\ c \in Owner /\ c # o /\ o \in visited
      /\ o = stack[n].own /\ c = stack[m].own /\ caller = stack[m]
      /\ caller.i \in 1 .. Len(caller.links) /\ Len(caller.links) \in Nat
      /\ e.pos = caller.i /\ e.hard /\ e.target = o /\ e.sub
      /\ Len(stack') = m
      /\ \A j \in 1 .. m : stack'[j].own = stack[j].own /\ stack'[j].links = stack[j].links
      /\ \A j \in 1 .. m : j \in 1 .. n /\ j # n
      /\ k1 = caller.i /\ tb[c] = tables[c] /\ k1 \in Nat \ {0}
  BY <1>0 DEF InnerBuilt
<1>3. /\ DOMAIN tables'[c] = 1 .. k1 /\ DOMAIN tb[c] = 1 .. k1 - 1
      /\ tables'[c][k1] = e /\ \A k \in 1 .. k1 - 1 : tables'[c][k] = tb[c][k]
      /\ \A u \in Owner : u # c => tables'[u] = tb[u]
      /\ \A u \in Owner : u # o => tb[u] = tables[u]
  BY <1>0 DEF InnerBuilt
<1>4. UNCHANGED <<call, executed, reported, ret, stopped, changes, links, visited>>
  BY DEF TableBuilt, graph
<1>5. /\ Owns \subseteq Owns' \cup {o} /\ o \notin Owns' /\ c \in Owns'
  <2>1. Owns' = {stack'[j].own : j \in 1 .. m} /\ Owns = {stack[j].own : j \in 1 .. n}
    BY <1>1, <1>2 DEF Owns
  <2>2. \A j \in 1 .. n : j = n \/ j \in 1 .. m
    BY <1>2
  <2>3. \A j \in 1 .. m : stack[j].own # o
    BY <1>1, <1>2 DEF NestInv, OwnTables
  <2>4. m \in 1 .. m
    BY <1>2
  <2> QED
    BY <1>2, <2>1, <2>2, <2>3, <2>4
<1>6. \A u \in Owner : \A k \in DOMAIN tb[u] : k \in DOMAIN tables'[u] /\ tables'[u][k] = tb[u][k]
  <2>1. \A k \in 1 .. k1 - 1 : k \in 1 .. k1
    BY <1>2
  <2> QED
    BY <1>3, <2>1
<1>7. \A u \in Owner : \A k \in DOMAIN tables'[u] :
         (u = c /\ k = k1) \/ (k \in DOMAIN tb[u] /\ tables'[u][k] = tb[u][k])
  <2>1. \A k \in 1 .. k1 : k = k1 \/ k \in 1 .. k1 - 1
    BY <1>2
  <2> QED
    BY <1>3, <2>1
<1>8. caller.links[caller.i].hard /\ caller.links[caller.i].target = o
  <2>1. stack[m + 1] = stack[n]
    BY <1>2
  <2> QED
    BY <1>1, <1>2, <2>1 DEF NestInv, Builds
<1>9. Copies'
  <2> SUFFICES ASSUME changes = 0
               PROVE  Copies'
    BY <1>4 DEF Copies
  <2>1. /\ VisitedReached
        /\ \A j \in 1 .. n : stack[j].links = links[GroupOf(stack[j].own)]
    BY <1>1, <1>2, BuildingExactIs
  <2>2. EntryCopied(c, e)
    <3>1. caller \in BuildFrames
      BY <1>0 DEF InnerBuilt
    <3>2. caller.links \in Seq(Link)
      BY <3>1 DEF BuildFrames
    <3>3. caller.i \in DOMAIN caller.links
      BY <1>2, <3>2
    <3>4. caller.links = links[GroupOf(c)]
      BY <1>2, <2>1
    <3> QED
      BY <1>2, <1>8, <3>3, <3>4 DEF EntryCopied
  <2>3. /\ \A u \in Owner : \A k \in DOMAIN tb[u] : EntryCopied(u, tb[u][k])
        /\ \A u \in visited \cup {Outermost} : u \notin Owns \/ u = o => HasAll(u, tb[u])
    <3>1. Top.i > Len(Top.links) /\ SortedTo(tables, Top.own, tb)
      BY <1>1, <1>2 DEF TableBuilt
    <3> QED
      BY <1>1, <1>2, <3>1, SortedCopied
  <2>4. /\ \A u : GroupOf(u)' = GroupOf(u)
        /\ \A u, x : EntryCopied(u, x) => EntryCopied(u, x)'
        /\ \A u, t : HasAll(u, t) => HasAll(u, t)'
        /\ \A g : g \in Reached /\ LeadsTo(g) => (g \in Reached /\ LeadsTo(g))'
    BY <1>2, GraphStays
  <2>5. (\A u \in Owner : \A k \in DOMAIN tables[u] : EntryCopied(u, tables[u][k]))'
    <3> SUFFICES ASSUME NEW u \in Owner, NEW k \in DOMAIN tables'[u]
                 PROVE  EntryCopied(u, tables[u][k])'
      BY DEF Owner
    <3> DEFINE x == tables'[u][k]
    <3>1. EntryCopied(u, x)
      BY <1>3, <1>7, <2>2, <2>3
    <3> HIDE DEF x
    <3>2. x.pos \in DOMAIN links'[GroupOf(u)']
      BY <3>1, <2>4, <1>2 DEF EntryCopied
    <3>3. /\ x.hard = links'[GroupOf(u)'][x.pos].hard
          /\ x.target = links'[GroupOf(u)'][x.pos].target
          /\ call'.recursive /\ x.hard /\ x.target \in Group => x.target \in visited'
      BY <3>1, <2>4, <1>2 DEF EntryCopied
    <3> QED
      BY <3>2, <3>3 DEF EntryCopied, x
  <2>6. (\A u \in visited \cup {Outermost} : u \notin Owns => HasAll(u, tables[u]))'
    <3>1. \A u \in visited \cup {Outermost} : u \in Owner /\ (u \notin Owns' => tables'[u] = tb[u])
      BY <1>3, <1>5, GroupIs DEF NestInv
    <3>2. \A u \in visited \cup {Outermost} : u \notin Owns' =>
             \A p \in DOMAIN links[GroupOf(u)] : \E k \in DOMAIN tables'[u] : tables'[u][k].pos = p
      BY <1>5, <2>3, <3>1 DEF HasAll
    <3> QED
      BY <1>2, <2>4, <3>2 DEF HasAll
  <2>7. (\A j \in 1 .. Len(stack) : stack[j].links = links[GroupOf(stack[j].own)])'
    <3>1. \A j \in 1 .. m : stack'[j].links = links[GroupOf(stack'[j].own)]
      BY <1>2, <2>1
    <3> QED
      BY <1>2, <3>1 DEF GroupOf
  <2> QED
    BY <1>2, <2>1, <2>4, <2>5, <2>6, <2>7 DEF Copies, VisitedReached
<1>10. Tree'
  <2>1. \A S \in SUBSET Owner :
          /\ Outermost \in S
          /\ \A u \in S : \A k \in DOMAIN tables[u] : tables[u][k].sub => tables[u][k].target \in S
          /\ \A j \in 1 .. n - 1 : stack[j].own \in S => stack[j + 1].own \in S
          => visited \subseteq S
    BY <1>1, <1>2 DEF ExactInv, Tree
  <2>2. \A u \in Owner : \A j \in DOMAIN tables[u] : \E k \in DOMAIN tables'[u] : tables'[u][k] = tables[u][j]
    <3>1. \A u \in Owner : \A j \in DOMAIN tables[u] : \E k \in DOMAIN tb[u] : tb[u][k] = tables[u][j]
      BY <1>2 DEF SortedTo
    <3> QED
      BY <1>6, <3>1
  <2>3. \A j \in 1 .. n - 1 : j = m \/ (j \in 1 .. m - 1 /\ j \in 1 .. m /\ j + 1 \in 1 .. m)
    BY <1>2
  <2>4. ASSUME NEW S \in SUBSET Owner, Outermost \in S,
               \A u \in S : \A k \in DOMAIN tables'[u] : tables'[u][k].sub => tables'[u][k].target \in S,
               \A j \in 1 .. m - 1 : stack'[j].own \in S => stack'[j + 1].own \in S
        PROVE  visited' \subseteq S
    <3>1. \A u \in S : \A k \in DOMAIN tables[u] : tables[u][k].sub => tables[u][k].target \in S
      BY <2>2, <2>4
    <3>2. c \in S => o \in S
      <4>1. k1 \in DOMAIN tables'[c]
        BY <1>2, <1>3
      <4> QED
        BY <1>2, <1>3, <2>4, <4>1
    <3>3. \A j \in 1 .. n - 1 : stack[j].own \in S => stack[j + 1].own \in S
      <4> SUFFICES ASSUME NEW j \in 1 .. n - 1, stack[j].own \in S
                   PROVE  stack[j + 1].own \in S
        OBVIOUS
      <4>1. CASE j = m
        BY <1>2, <3>2, <4>1
      <4>2. CASE j # m
        BY <1>2, <2>3, <2>4, <4>2
      <4> QED
        BY <4>1, <4>2
    <3> QED
      BY <1>2, <2>1, <2>4, <3>1, <3>3
  <2> QED
    BY <1>2, <2>4 DEF Tree, Owner
<1> QED
  BY <1>2, <1>4, <1>9, <1>10, BuildsExact

-----------------------------------------------------------------------------
LEMMA LinkIdIs ==
  \A g \in Group, p \in Positions : <<g, p>> \in LinkId
<1>1. DOMAIN CrtTime = Positions
  BY CrtTimeAssumption DEF Positions
<1> QED
  BY <1>1 DEF LinkId

LEMMA AtFirstIs ==
  ASSUME VisitTypes
  PROVE  /\ call.op = "links" => \A g \in Group, p \in Positions : AtFirst[<<g, p>>] = 0
         /\ call.op = "objects" => \A x \in Object : AtFirst[x] = IF x = call.start THEN 1 ELSE 0
<1>1. call.op = "links" => \A g \in Group, p \in Positions : AtFirst[<<g, p>>] = 0
  BY LinkIdIs, NoReportsIs DEF AtFirst
<1>2. ASSUME call.op = "objects", NEW x \in Object
      PROVE  AtFirst[x] = IF x = call.start THEN 1 ELSE 0
  <2>1. AtFirst = [NoReports EXCEPT ![call.start] = 1]
    BY <1>2 DEF AtFirst
  <2>2. DOMAIN NoReports = LinkId \cup Object /\ x \in LinkId \cup Object /\ NoReports[x] = 0
    BY NoReportsIs
  <2> QED
    BY <2>1, <2>2
<1> QED
  BY <1>1, <1>2

\* The first table is complete, and so are all others.
LEMMA OuterBuiltIs ==
  ASSUME NestInv, TableBuilt, Below = <<>>,
         NEW tb, tb = [tables EXCEPT ![Outermost] = Sorted(tables[Outermost])]
  PROVE  /\ phase = "build" /\ Len(stack) = 1 /\ Top.own = Outermost /\ Owns = {Outermost}
         /\ Top.i > Len(Top.links) /\ SortedTo(tables, Outermost, tb)
         /\ tables' = tb /\ tb[Outermost] = Sorted(tables[Outermost])
         /\ UNCHANGED <<call, executed, reported, ret, stopped, changes, links, visited, idx>>
<1>0. phase = "build" /\ Top.i > Len(Top.links)
  BY DEF TableBuilt
<1>1. /\ stack # <<>> /\ stack \in Seq(BuildFrames) /\ Top = stack[Len(stack)] /\ Top.own \in Owner
  BY <1>0, BuildingIs
<1>2. Len(stack) = 1 /\ Top.own = Outermost
  <2>1. Len(stack) = 1
    BY <1>1, FrontOf DEF Below
  <2> QED
    BY <1>1, <2>1 DEF NestInv, OwnTables
<1>3. Owns = {Outermost}
  <2>1. stack[1].own = Outermost /\ \A j \in 1 .. 1 : j = 1
    BY <1>1, <1>2
  <2>2. 1 \in 1 .. 1
    OBVIOUS
  <2> QED
    BY <1>2, <2>1, <2>2 DEF Owns
<1>4. SortedTo(tables, Outermost, tb)
  BY <1>0, <1>2, SortedTables
<1>5. tb[Outermost] = Sorted(tables[Outermost])
  BY <1>4 DEF SortedTo
<1>6. /\ tables' = tb
      /\ UNCHANGED <<call, executed, reported, ret, stopped, changes, links, visited, idx>>
  BY <1>2 DEF TableBuilt, graph
<1> QED
  BY <1>0, <1>2, <1>3, <1>4, <1>5, <1>6

LEMMA OuterCopied ==
  ASSUME NestInv, ExactInv, TableBuilt, Below = <<>>,
         NEW tb, tb = [tables EXCEPT ![Outermost] = Sorted(tables[Outermost])]
  PROVE  /\ changes = 0 => CopiedIn(tb)
         /\ \A S \in SUBSET Owner :
              /\ Outermost \in S
              /\ \A u \in S : \A k \in DOMAIN tb[u] : tb[u][k].sub => tb[u][k].target \in S
              => visited \subseteq S
<1>1. /\ phase = "build" /\ Len(stack) = 1 /\ Top.own = Outermost /\ Owns = {Outermost}
      /\ Top.i > Len(Top.links) /\ SortedTo(tables, Outermost, tb)
  BY OuterBuiltIs
<1>2. ASSUME changes = 0 PROVE CopiedIn(tb)
  <2>1. /\ \A u \in Owner : \A k \in DOMAIN tb[u] : EntryCopied(u, tb[u][k])
        /\ \A u \in visited \cup {Outermost} : u \notin Owns \/ u = Outermost => HasAll(u, tb[u])
    BY <1>1, <1>2, SortedCopied
  <2>2. VisitedReached
    BY <1>1, <1>2, BuildingExactIs
  <2> QED
    BY <1>1, <2>1, <2>2 DEF CopiedIn
<1>3. ASSUME NEW S \in SUBSET Owner, Outermost \in S,
             \A u \in S : \A k \in DOMAIN tb[u] : tb[u][k].sub => tb[u][k].target \in S
      PROVE  visited \subseteq S
  <2>1. \A u \in S : \A k \in DOMAIN tables[u] : tables[u][k].sub => tables[u][k].target \in S
    <3>1. \A u \in Owner : \A j \in DOMAIN tables[u] : \E k \in DOMAIN tb[u] : tb[u][k] = tables[u][j]
      BY <1>1 DEF SortedTo
    <3> QED
      BY <1>3, <3>1
  <2>2. \A j \in 1 .. Len(stack) - 1 : FALSE
    BY <1>1
  <2> QED
    BY <1>1, <1>3, <2>1, <2>2 DEF ExactInv, Tree
<1> QED
  BY <1>2, <1>3

\* No link leads to a group, and the first table is empty: nothing is to be reported.
LEMMA EmptyBuiltExact ==
  ASSUME NestInv, ExactInv, TableBuilt, Below = <<>>, Sorted(tables[Outermost]) = <<>>
  PROVE  ExactInv'
<1> DEFINE tb == [tables EXCEPT ![Outermost] = Sorted(tables[Outermost])]
<1>1. /\ phase = "build" /\ SortedTo(tables, Outermost, tb) /\ tb[Outermost] = <<>> /\ Top.own = Outermost
      /\ UNCHANGED <<call, executed, reported, ret, stopped, changes, links, visited, idx>>
  BY OuterBuiltIs
<1>2. phase' = "returned"
  BY <1>1 DEF TableBuilt
<1>3. /\ changes = 0 => CopiedIn(tb)
      /\ \A S \in SUBSET Owner :
           /\ Outermost \in S
           /\ \A u \in S : \A k \in DOMAIN tb[u] : tb[u][k].sub => tb[u][k].target \in S
           => visited \subseteq S
  BY OuterCopied
<1> HIDE DEF tb
<1>4. DOMAIN tb[Outermost] = {}
  BY <1>1
<1>5. visited = {}
  <2>1. visited \subseteq {Outermost}
    BY <1>3, <1>4 DEF Owner
  <2> QED
    BY <2>1, GroupAssumption DEF NestInv, VisitTypes
<1>6. EnteredIn(tb) /\ tb \in [Owner -> Seq(TableEntry)]
  BY <1>1 DEF SortedTo
<1>7. \A u \in Owner : DOMAIN tb[u] = {}
  BY <1>4, <1>5, <1>6 DEF EnteredIn
<1>8. reported = AtFirst /\ VisitTypes
  BY <1>1 DEF ExactInv, Untouched, NestInv
<1>9. ReportsAll(tb)
  <2>1. \A g \in Group : DOMAIN tb[g] = {}
    BY <1>7 DEF Owner
  <2>2. call.op = "links" =>
          \A g \in Group, p \in Positions :
            reported[<<g, p>>] =
              (IF g = call.start /\ \E k \in DOMAIN tb[Outermost] : tb[Outermost][k].pos = p THEN 1 ELSE 0)
                + (IF \E k \in DOMAIN tb[g] : tb[g][k].pos = p THEN 1 ELSE 0)
    <3>1. call.op = "links" => \A g \in Group, p \in Positions : reported[<<g, p>>] = 0
      BY <1>8, AtFirstIs
    <3>2. ~\E k \in DOMAIN tb[Outermost] : TRUE
      BY <1>4
    <3>3. 0 + 0 = 0
      OBVIOUS
    <3> QED
      BY <2>1, <3>1, <3>2, <3>3
  <2>3. call.op = "objects" =>
          \A x \in Object :
            reported[x] = (IF x = call.start THEN 1 ELSE 0)
              + (IF \E o \in Owner : \E k \in DOMAIN tb[o] : tb[o][k].hard /\ tb[o][k].target = x THEN 1 ELSE 0)
    BY <1>7, <1>8, AtFirstIs
  <2> QED
    BY <2>2, <2>3 DEF ReportsAll
<1>10. changes = 0 => Exactly
  BY <1>3, <1>6, <1>8, <1>9, AllReported
<1>11. ReportsExact'
  <2>1. call'.idx => ~call'.recursive
    BY <1>1, <1>8 DEF VisitTypes
  <2> QED
    BY <1>1, <1>10, <2>1, ExactlyExact
<1>12. Reported'
  BY <1>1, ReportedStays
<1> QED
  BY <1>2, <1>11, <1>12, EndsExact

\* In the middle of its table an activation has not done with the entry it is at.
LEMMA PassedNone ==
  ASSUME VisitTypes, NEW o \in Owner, NEW f, ~f.over, f.own = o,
         f.i = IF call.dec THEN Len(tables[o]) ELSE 1
  PROVE  Passed(f) = {}
<1>1. tables[o] \in Seq(TableEntry)
  BY DEF VisitTypes
<1> DEFINE n == Len(tables[o])
<1>2. n \in Nat /\ DOMAIN tables[o] = 1 .. n
  BY <1>1
<1> HIDE DEF n
<1>3. \A k \in 1 .. n : ~(k > n) /\ ~(k < 1)
  BY <1>2
<1> QED
  BY <1>2, <1>3 DEF Passed, n

\* The traversal of the first table begins.
LEMMA OuterBuiltExact ==
  ASSUME NestInv, ExactInv, TableBuilt, Below = <<>>, Sorted(tables[Outermost]) # <<>>
  PROVE  ExactInv'
<1> DEFINE tb == [tables EXCEPT ![Outermost] = Sorted(tables[Outermost])]
           t == tb[Outermost]
           g == TraverseFrame(Outermost, t)
           f == Begun(g, t)
<1>1. /\ phase = "build" /\ SortedTo(tables, Outermost, tb) /\ t # <<>> /\ Top.own = Outermost
      /\ tables' = tb /\ t = Sorted(tables[Outermost])
      /\ UNCHANGED <<call, executed, reported, ret, stopped, changes, links, visited, idx>>
  BY OuterBuiltIs
<1>2. stack' = <<f>> /\ phase' = "traverse"
  BY <1>1 DEF TableBuilt
<1>3. /\ changes = 0 => CopiedIn(tb)
      /\ \A S \in SUBSET Owner :
           /\ Outermost \in S
           /\ \A u \in S : \A k \in DOMAIN tb[u] : tb[u][k].sub => tb[u][k].target \in S
           => visited \subseteq S
  BY OuterCopied
<1> HIDE DEF tb
<1>4. EnteredIn(tb) /\ tb \in [Owner -> Seq(TableEntry)] /\ t \in Seq(TableEntry) /\ VisitTypes
  BY <1>1 DEF SortedTo, Owner, NestInv
<1>5. /\ reported = AtFirst /\ executed = {} /\ ret = "ok"
  BY <1>1 DEF ExactInv, Untouched
<1> HIDE DEF t
<1>6. /\ g \in TraverseFrames /\ g.own = Outermost /\ ~g.over
      /\ ~call.idx => g.i \in DOMAIN t
      /\ ~call.idx /\ call.dec => g.i = Len(t)
      /\ ~call.idx /\ ~call.dec => g.i = 1
  <2>1. g = TraverseFrame(Outermost, t) /\ Outermost \in Owner
    BY DEF Owner
  <2> HIDE DEF g
  <2> QED
    BY <1>1, <1>4, <2>1, TraverseFrameIs
<1>7. f = [g EXCEPT !.over = ~call.dec /\ g.i > Len(t)]
  BY DEF Begun
<1> HIDE DEF g, f
<1>8. Len(t) \in Nat /\ DOMAIN t = 1 .. Len(t) /\ g.i \in Nat /\ (~call.dec /\ g.i > Len(t)) \in BOOLEAN
  BY <1>4, <1>6 DEF TraverseFrames
<1>9. f.own = Outermost /\ f.i = g.i /\ (f.over <=> ~call.dec /\ g.i > Len(t))
  BY <1>6, <1>7, <1>8 DEF TraverseFrames
<1>10. Copies'
  <2> SUFFICES ASSUME changes = 0
               PROVE  Copies'
    BY <1>1 DEF Copies
  <2>1. /\ \A u \in Owner : \A k \in DOMAIN tb[u] : EntryCopied(u, tb[u][k])
        /\ \A u \in visited \cup {Outermost} : HasAll(u, tb[u])
        /\ VisitedReached
    BY <1>3 DEF CopiedIn
  <2>2. /\ \A u : GroupOf(u)' = GroupOf(u)
        /\ \A x : x \in Reached /\ LeadsTo(x) => (x \in Reached /\ LeadsTo(x))'
    BY <1>1, GraphStays
  <2>3. (\A u \in Owner : \A k \in DOMAIN tables[u] : EntryCopied(u, tables[u][k]))'
    <3>1. \A u \in Owner : \A k \in DOMAIN tb[u] :
            /\ tb[u][k].pos \in DOMAIN links'[GroupOf(u)']
            /\ tb[u][k].hard = links'[GroupOf(u)'][tb[u][k].pos].hard
            /\ tb[u][k].target = links'[GroupOf(u)'][tb[u][k].pos].target
            /\ call'.recursive /\ tb[u][k].hard /\ tb[u][k].target \in Group => tb[u][k].target \in visited'
      BY <1>1, <2>1, <2>2 DEF EntryCopied
    <3> QED
      BY <1>1, <3>1 DEF EntryCopied, Owner
  <2>4. (\A u \in visited \cup {Outermost} : HasAll(u, tables[u]))'
    BY <1>1, <2>1, <2>2 DEF HasAll
  <2>5. VisitedReached'
    BY <1>1, <2>1, <2>2 DEF VisitedReached
  <2> QED
    BY <1>2, <2>3, <2>4, <2>5 DEF Copies
<1>11. Tree'
  BY <1>1, <1>2, <1>3 DEF Tree, Owner
<1>12. Untouched' /\ Reported'
  BY <1>1, <1>2, <1>5, ReportedStays DEF Untouched
<1>13. Reporting'
  <2> SUFFICES ASSUME ~call.idx
               PROVE  Reporting'
    BY <1>1 DEF Reporting
  <2>1. ~f.over /\ (call.dec => f.i = Len(t)) /\ (~call.dec => f.i = 1)
    <3>1. \A x \in 1 .. Len(t) : ~(x > Len(t))
      BY <1>8
    <3> QED
      BY <1>6, <1>8, <1>9, <3>1
  <2>2. Len(stack') = 1 /\ stack'[1] = f /\ \A j \in 1 .. 1 : j = 1
    BY <1>2
  <2>3. Passed(stack[1])' = {}
    <3>1. \A k \in 1 .. Len(t) : ~(k > Len(t)) /\ ~(k < 1)
      BY <1>8
    <3>2. tables'[Outermost] = t
      BY <1>1 DEF t
    <3> QED
      BY <1>1, <1>8, <1>9, <2>1, <2>2, <3>1, <3>2 DEF Passed
  <2>4. \A o, k : ~PassedAt(stack, o, k)' /\ ~EnteredAt(stack, o, k)'
    <3>1. \A j \in 1 .. 1 - 1 : FALSE
      OBVIOUS
    <3> QED
      BY <2>2, <2>3, <3>1 DEF PassedAt, EnteredAt
  <2>5. Traversed(stack, {})'
    BY <2>4 DEF Traversed
  <2>6. Seen(stack, {})' = {}
    BY <2>4 DEF Seen, SeenIn
  <2>7. \A o, p : ~Among({}, o, p)'
    BY DEF Among
  <2>8. call.op = "links" => \A x \in Group, p \in Positions : reported[<<x, p>>] = 0
    BY <1>4, <1>5, AtFirstIs
  <2>9. call.op = "objects" => \A x \in Object : reported[x] = IF x = call.start THEN 1 ELSE 0
    BY <1>4, <1>5, AtFirstIs
  <2>10. ReportsAre(reported, executed, {})'
    <3>1. call'.op = "links" =>
            \A x \in Group, p \in Positions :
              reported'[<<x, p>>] = (IF x = call'.start /\ Among({}, Outermost, p)' THEN 1 ELSE 0)
                                      + (IF Among({}, x, p)' THEN 1 ELSE 0)
      <4>1. call'.op = "links" => \A x \in Group, p \in Positions : reported'[<<x, p>>] = 0
        BY <1>1, <2>8
      <4>2. 0 + 0 = 0
        OBVIOUS
      <4> QED
        BY <2>7, <4>1, <4>2
    <3>2. call'.op = "objects" =>
            /\ \A x \in Object : reported'[x] = (IF x = call'.start THEN 1 ELSE 0) + (IF x \in executed' THEN 1 ELSE 0)
            /\ \A x \in Object : x \in executed' <=>
                 \E s \in {} : tables'[s[1]][s[2]].hard /\ tables'[s[1]][s[2]].target = x
      BY <1>1, <1>5, <2>9
    <3> QED
      BY <3>1, <3>2 DEF ReportsAre, Object
  <2>11. {} \in SUBSET visited' /\ ReportsAre(reported, executed, Seen(stack, {}))'
    BY <2>6, <2>10 DEF ReportsAre, Among
  <2> QED
    BY <2>5, <2>11 DEF Reporting
<1> QED
  BY <1>2, <1>10, <1>11, <1>12, <1>13, NotEnded DEF ExactInv

-----------------------------------------------------------------------------
(* While tables are traversed, what has been reported grows with the entries passed. *)

\* The tables stay as they are.
LEMMA TraversesExact ==
  ASSUME ExactInv, phase = "traverse", phase' = "traverse", Reported', Reporting', ret' = "ok",
         UNCHANGED <<call, links, tables, visited, changes>>
  PROVE  ExactInv'
<1>1. Copies'
  <2> SUFFICES ASSUME changes = 0
               PROVE  Copies'
    BY DEF Copies
  <2>1. /\ \A u \in Owner : \A k \in DOMAIN tables[u] : EntryCopied(u, tables[u][k])
        /\ \A u \in visited \cup {Outermost} : HasAll(u, tables[u])
        /\ VisitedReached
    BY DEF ExactInv, Copies
  <2>2. /\ \A u : GroupOf(u)' = GroupOf(u)
        /\ \A u, x : EntryCopied(u, x) => EntryCopied(u, x)'
        /\ \A u, t : HasAll(u, t) => HasAll(u, t)'
        /\ \A x : x \in Reached /\ LeadsTo(x) => (x \in Reached /\ LeadsTo(x))'
    BY GraphStays
  <2>3. (\A u \in Owner : \A k \in DOMAIN tables[u] : EntryCopied(u, tables[u][k]))'
    <3>1. \A u \in Owner : \A k \in DOMAIN tables[u] : EntryCopied(u, tables[u][k])'
      BY <2>1, <2>2 DEF EntryCopied
    <3> QED
      BY <3>1 DEF Owner
  <2>4. (\A u \in visited \cup {Outermost} : HasAll(u, tables[u]))'
    BY <2>1, <2>2 DEF HasAll
  <2>5. VisitedReached'
    BY <2>1, <2>2 DEF VisitedReached
  <2> QED
    BY <2>3, <2>4, <2>5 DEF Copies
<1>2. Tree'
  BY DEF ExactInv, Tree, Owner
<1>3. Untouched'
  BY DEF Untouched
<1> QED
  BY <1>1, <1>2, <1>3, NotEnded DEF ExactInv

\* What has to be shown of a step that goes on.
LEMMA ReportingNext ==
  ASSUME UNCHANGED <<call, tables, visited>>, NEW F \in SUBSET visited,
         Traversed(stack', F), ReportsAre(reported', executed', Seen(stack', F))
  PROVE  Reporting'
<1>1. tables' = tables /\ call' = call /\ visited' = visited
  OBVIOUS
<1>2. /\ \A o, k : PassedAt(stack, o, k)' <=> PassedAt(stack', o, k)
      /\ \A o, k : EnteredAt(stack, o, k)' <=> EnteredAt(stack', o, k)
  <2>1. \A o, k : PassedAt(stack, o, k)' <=> PassedAt(stack', o, k)
    BY <1>1 DEF PassedAt, Passed
  <2>2. \A o, k : EnteredAt(stack, o, k)' <=> EnteredAt(stack', o, k)
    BY DEF EnteredAt
  <2> QED
    BY <2>1, <2>2
<1>3. Traversed(stack, F)'
  BY <1>2 DEF Traversed
<1>4. Seen(stack, F)' = Seen(stack', F)
  BY <1>2 DEF Seen, SeenIn, Owner
<1>5. ReportsAre(reported, executed, Seen(stack, F))'
  <2>1. \A o, p : Among(Seen(stack, F), o, p)' <=> Among(Seen(stack', F), o, p)
    BY <1>1, <1>4 DEF Among
  <2>2. call.op = "links" =>
          \A g \in Group, p \in Positions :
            reported'[<<g, p>>] =
              (IF g = call.start /\ Among(Seen(stack', F), Outermost, p) THEN 1 ELSE 0)
                + (IF Among(Seen(stack', F), g, p) THEN 1 ELSE 0)
    BY DEF ReportsAre
  <2>3. call'.op = "links" =>
          \A g \in Group, p \in Positions :
            reported'[<<g, p>>] =
              (IF g = call'.start /\ Among(Seen(stack, F), Outermost, p)' THEN 1 ELSE 0)
                + (IF Among(Seen(stack, F), g, p)' THEN 1 ELSE 0)
    BY <1>1, <2>1, <2>2
  <2>4. call'.op = "objects" =>
          /\ \A x \in Object : reported'[x] = (IF x = call'.start THEN 1 ELSE 0) + (IF x \in executed' THEN 1 ELSE 0)
          /\ \A x \in Object : x \in executed' <=>
               \E s \in Seen(stack, F)' : tables'[s[1]][s[2]].hard /\ tables'[s[1]][s[2]].target = x
    BY <1>1, <1>4 DEF ReportsAre
  <2> QED
    BY <2>3, <2>4 DEF ReportsAre, Object, Positions
<1> QED
  BY <1>1, <1>3, <1>5 DEF Reporting

\* An activation that goes on has passed the entry that it was at.
LEMMA SteppedPassed ==
  ASSUME NestInv, NEW f \in TraverseFrames, ~f.over, f.i \in DOMAIN tables[f.own], NEW g, g = Stepped(f)
  PROVE  /\ \A k : k \in Passed(g) <=> k \in Passed(f) \/ k = f.i
         /\ f.i \notin Passed(f)
<1> DEFINE n == Len(tables[f.own])
<1>1. /\ g.own = f.own /\ (g.over \/ g.i \in DOMAIN tables[f.own])
      /\ call.dec => IF f.i = 1 THEN g.over ELSE g.i = f.i - 1 /\ (g.over <=> f.over)
      /\ ~call.dec => g.i = f.i + 1 /\ (g.over <=> f.i + 1 > n)
  BY SteppedIs
<1>2. tables[f.own] \in Seq(TableEntry)
  BY DEF NestInv, VisitTypes, TraverseFrames
<1>3. n \in Nat /\ DOMAIN tables[f.own] = 1 .. n /\ f.i \in 1 .. n
  BY <1>2
<1> HIDE DEF n
<1> DEFINE i == f.i
<1>4. Passed(f) = {k \in 1 .. n : IF call.dec THEN k > i ELSE k < i}
  BY <1>3 DEF Passed
<1>5. Passed(g) = IF g.over THEN 1 .. n ELSE {k \in 1 .. n : IF call.dec THEN k > g.i ELSE k < g.i}
  BY <1>1, <1>3 DEF Passed
<1>6. i \in 1 .. n
  BY <1>3
<1> HIDE DEF i
<1>7. i \notin Passed(f)
  BY <1>4, <1>6, <1>3
<1>8. CASE call.dec
  <2>1. \A k : k \in Passed(f) <=> k \in 1 .. n /\ k > i
    BY <1>4, <1>8
  <2>2. CASE i = 1
    <3>1. Passed(g) = 1 .. n
      BY <1>1, <1>5, <1>8, <2>2 DEF i
    <3>2. \A k \in 1 .. n : k > 1 \/ k = 1
      BY <1>3
    <3> QED
      BY <1>6, <1>7, <2>1, <2>2, <3>1, <3>2 DEF i
  <2>3. CASE i # 1
    <3>1. g.i = i - 1 /\ ~g.over
      BY <1>1, <1>8, <2>3 DEF i
    <3>2. \A k : k \in Passed(g) <=> k \in 1 .. n /\ k > i - 1
      BY <1>5, <1>8, <3>1
    <3>3. \A k \in 1 .. n : k > i - 1 <=> k > i \/ k = i
      BY <1>3, <1>6
    <3> QED
      BY <1>6, <1>7, <2>1, <3>2, <3>3 DEF i
  <2> QED
    BY <2>2, <2>3
<1>9. CASE ~call.dec
  <2>1. \A k : k \in Passed(f) <=> k \in 1 .. n /\ k < i
    BY <1>4, <1>9
  <2>2. g.i = i + 1 /\ (g.over <=> i + 1 > n)
    BY <1>1, <1>9 DEF i
  <2>3. \A k : k \in Passed(g) <=> k \in 1 .. n /\ (i + 1 > n \/ k < i + 1)
    <3>1. CASE g.over
      BY <1>5, <2>2, <3>1
    <3>2. CASE ~g.over
      BY <1>5, <1>9, <2>2, <3>2
    <3> QED
      BY <3>1, <3>2
  <2>4. \A k \in 1 .. n : (i + 1 > n \/ k < i + 1) <=> k < i \/ k = i
    BY <1>3, <1>6
  <2> QED
    BY <1>6, <1>7, <2>1, <2>3, <2>4 DEF i
<1> QED
  BY <1>8, <1>9

\* The entry that the top activation is at has not been seen.
LEMMA CurrentUnseen ==
  ASSUME NestInv, Traversing, NEW F, Traversed(stack, F)
  PROVE  /\ Top.own \notin F /\ ~PassedAt(stack, Top.own, Top.i) /\ ~EnteredAt(stack, Top.own, Top.i)
         /\ <<Top.own, Top.i>> \notin Seen(stack, F)
<1> DEFINE n == Len(stack)
           o == Top.own
           i == Top.i
<1>1. /\ n \in Nat \ {0} /\ Top = stack[n] /\ Top \in TraverseFrames /\ ~Top.over
      /\ i \in DOMAIN tables[o] /\ stack # <<>> /\ o = stack[n].own
  BY TraversingIs DEF Traversing
<1>2. n \in 1 .. n /\ \A j \in 1 .. n - 1 : j \in 1 .. n /\ j # n
  BY <1>1
<1>3. o \notin F
  BY <1>1, <1>2 DEF Traversed
<1>4. \A j \in 1 .. n : stack[j].own = o => j = n
  BY <1>1, <1>2 DEF NestInv, OwnTables
<1>5. i \notin Passed(Top)
  BY <1>1, SteppedPassed
<1>6. n = Len(stack)
  OBVIOUS
<1> HIDE DEF n, o, i
<1>7. ~PassedAt(stack, o, i)
  BY <1>1, <1>4, <1>5, <1>6 DEF PassedAt
<1>8. ~EnteredAt(stack, o, i)
  BY <1>2, <1>4, <1>6 DEF EnteredAt
<1>9. <<o, i>> \notin Seen(stack, F)
  <2>1. \A x \in Seen(stack, F) : SeenIn(stack, F, x[1], x[2])
    BY DEF Seen
  <2>2. ~SeenIn(stack, F, o, i)
    BY <1>3, <1>7, <1>8 DEF SeenIn
  <2>3. <<o, i>>[1] = o /\ <<o, i>>[2] = i
    OBVIOUS
  <2> QED
    BY <2>1, <2>2, <2>3
<1> QED
  BY <1>3, <1>7, <1>8, <1>9 DEF o, i

\* The pairs of owners and places that are in Seen.
LEMMA SeenIs ==
  ASSUME VisitTypes, NEW s, NEW F
  PROVE  \A o \in Owner : \A k \in DOMAIN tables[o] :
            <<o, k>> \in Seen(s, F) <=> o \in F \/ PassedAt(s, o, k) \/ EnteredAt(s, o, k)
<1> SUFFICES ASSUME NEW o \in Owner, NEW k \in DOMAIN tables[o]
             PROVE  <<o, k>> \in Seen(s, F) <=> o \in F \/ PassedAt(s, o, k) \/ EnteredAt(s, o, k)
  OBVIOUS
<1>1. tables[o] \in Seq(TableEntry)
  BY DEF VisitTypes
<1>2. <<o, k>>[1] = o /\ <<o, k>>[2] = k
  OBVIOUS
<1>3. <<o, k>> \in Seen(s, F) <=> <<o, k>> \in Owner \X Nat /\ SeenIn(s, F, o, k)
  BY <1>2 DEF Seen
<1>4. <<o, k>> \in Owner \X Nat
  BY <1>1
<1> QED
  BY <1>3, <1>4 DEF SeenIn

LEMMA SeenAre ==
  ASSUME VisitTypes, NEW s, NEW F
  PROVE  \A x \in Seen(s, F) : \E o \in Owner : \E k \in DOMAIN tables[o] : x = <<o, k>>
<1> SUFFICES ASSUME NEW x \in Seen(s, F)
             PROVE  \E o \in Owner : \E k \in DOMAIN tables[o] : x = <<o, k>>
  OBVIOUS
<1>1. x \in Owner \X Nat /\ SeenIn(s, F, x[1], x[2])
  BY DEF Seen
<1>2. x = <<x[1], x[2]>> /\ x[1] \in Owner
  BY <1>1
<1>3. x[2] \in DOMAIN tables[x[1]]
  BY <1>1 DEF SeenIn
<1> QED
  BY <1>2, <1>3

\* What is seen when one more entry is.
LEMMA SeenGrows ==
  ASSUME VisitTypes, NEW s, NEW q, NEW F, NEW G, NEW o \in Owner, NEW i \in DOMAIN tables[o],
         \A u \in Owner : \A k \in DOMAIN tables[u] :
           u \in G \/ PassedAt(q, u, k) \/ EnteredAt(q, u, k)
             <=> u \in F \/ PassedAt(s, u, k) \/ EnteredAt(s, u, k) \/ (u = o /\ k = i)
  PROVE  Seen(q, G) = Seen(s, F) \cup {<<o, i>>}
<1> DEFINE A == Seen(q, G)
           B == Seen(s, F)
<1>1. \A u \in Owner : \A k \in DOMAIN tables[u] :
        <<u, k>> \in A <=> u \in G \/ PassedAt(q, u, k) \/ EnteredAt(q, u, k)
  BY SeenIs
<1>2. \A u \in Owner : \A k \in DOMAIN tables[u] :
        <<u, k>> \in B <=> u \in F \/ PassedAt(s, u, k) \/ EnteredAt(s, u, k)
  BY SeenIs
<1>3. \A u \in Owner : \A k \in DOMAIN tables[u] : <<u, k>> \in A <=> <<u, k>> \in B \/ (u = o /\ k = i)
  BY <1>1, <1>2
<1>4. /\ \A x \in A : \E u \in Owner : \E k \in DOMAIN tables[u] : x = <<u, k>>
      /\ \A x \in B : \E u \in Owner : \E k \in DOMAIN tables[u] : x = <<u, k>>
  BY SeenAre
<1> HIDE DEF A, B
<1>5. A = B \cup {<<o, i>>}
  <2>1. \A x \in A : x \in B \cup {<<o, i>>}
    BY <1>3, <1>4
  <2>2. \A x \in B : x \in A
    BY <1>3, <1>4
  <2>3. <<o, i>> \in A
    BY <1>3
  <2> QED
    BY <2>1, <2>2, <2>3
<1> QED
  BY <1>5 DEF A, B

\* The top activation goes on to its next entry.
LEMMA NextPassed ==
  ASSUME NestInv, Traversing, NEW q, ReplacedIn(TraverseFrames, stack, Stepped(Top), q)
  PROVE  /\ \A u, k : PassedAt(q, u, k) <=> PassedAt(stack, u, k) \/ (u = Top.own /\ k = Top.i)
         /\ \A u, k : EnteredAt(q, u, k) <=> EnteredAt(stack, u, k)
         /\ Len(q) = Len(stack) /\ \A j \in 1 .. Len(stack) : q[j].own = stack[j].own
<1> DEFINE n == Len(stack)
           f == Top
           g == Stepped(f)
           o == f.own
           i == f.i
<1>1. /\ n \in Nat \ {0} /\ f = stack[n] /\ f \in TraverseFrames /\ ~f.over /\ i \in DOMAIN tables[o]
  BY TraversingIs DEF Traversing
<1>2. g.own = o /\ \A k : k \in Passed(g) <=> k \in Passed(f) \/ k = i
  BY <1>1, SteppedIs, SteppedPassed
<1>3. Len(q) = n /\ q[n] = g /\ \A j \in 1 .. n - 1 : q[j] = stack[j]
  BY DEF ReplacedIn
<1>4. n \in 1 .. n /\ \A j \in 1 .. n : j = n \/ j \in 1 .. n - 1
  BY <1>1
<1>5. \A j \in 1 .. n - 1 : j \in 1 .. n
  BY <1>1
<1>6. Len(stack) = n /\ f = Top /\ f.own = o /\ f.i = i
  OBVIOUS
<1> HIDE DEF n, f, g, o, i
<1>7. ASSUME NEW u, NEW k
      PROVE  PassedAt(q, u, k) <=> PassedAt(stack, u, k) \/ (u = o /\ k = i)
  <2>1. ASSUME PassedAt(q, u, k) PROVE PassedAt(stack, u, k) \/ (u = o /\ k = i)
    <3>1. PICK j \in 1 .. n : q[j].own = u /\ k \in Passed(q[j])
      BY <1>3, <2>1 DEF PassedAt
    <3>2. CASE j = n
      <4>1. u = o /\ (k \in Passed(f) \/ k = i)
        BY <1>2, <1>3, <3>1, <3>2
      <4> QED
        BY <1>1, <1>4, <1>6, <4>1 DEF PassedAt
    <3>3. CASE j \in 1 .. n - 1
      BY <1>3, <1>5, <1>6, <3>1, <3>3 DEF PassedAt
    <3> QED
      BY <1>4, <3>2, <3>3
  <2>2. ASSUME PassedAt(stack, u, k) PROVE PassedAt(q, u, k)
    <3>1. PICK j \in 1 .. n : stack[j].own = u /\ k \in Passed(stack[j])
      BY <1>6, <2>2 DEF PassedAt
    <3>2. CASE j = n
      <4>1. q[n].own = u /\ k \in Passed(q[n])
        BY <1>1, <1>2, <1>3, <1>6, <3>1, <3>2
      <4> QED
        BY <1>3, <1>4, <4>1 DEF PassedAt
    <3>3. CASE j \in 1 .. n - 1
      BY <1>3, <1>5, <3>1, <3>3 DEF PassedAt
    <3> QED
      BY <1>4, <3>2, <3>3
  <2>3. ASSUME u = o, k = i PROVE PassedAt(q, u, k)
    <3>1. q[n].own = u /\ k \in Passed(q[n])
      BY <1>2, <1>3, <2>3
    <3> QED
      BY <1>3, <1>4, <3>1 DEF PassedAt
  <2> QED
    BY <2>1, <2>2, <2>3
<1>8. ASSUME NEW u, NEW k
      PROVE  EnteredAt(q, u, k) <=> EnteredAt(stack, u, k)
  BY <1>3, <1>6 DEF EnteredAt
<1>9. \A j \in 1 .. n : q[j].own = stack[j].own
  BY <1>1, <1>2, <1>3, <1>4, <1>6
<1> QED
  BY <1>3, <1>6, <1>7, <1>8, <1>9

\* After a step for the entry that the top activation is at, this entry has been seen too.
SeesOne(q, F) ==
  \E G \in SUBSET visited : Traversed(q, G) /\ Seen(q, G) = Seen(stack, F) \cup {<<Top.own, Top.i>>}

\* The entry has no table, or an empty one: the tables traversed are this one too.
LEMMA NextSeen ==
  ASSUME NestInv, Traversing, ~Enters, NEW F \in SUBSET visited, Traversed(stack, F),
         NEW q, ReplacedIn(TraverseFrames, stack, Stepped(Top), q)
  PROVE  SeesOne(q, F)
<1> DEFINE n == Len(stack)
           o == Top.own
           i == Top.i
           t == CurEntry.target
           G == IF CurEntry.sub THEN F \cup {t} ELSE F
<1>1. /\ VisitTypes /\ n \in Nat \ {0} /\ o \in Owner /\ i \in DOMAIN tables[o] /\ CurEntry = tables[o][i]
      /\ CurEntry.sub => t \in visited
      /\ EnteredIn(tables)
  BY TraversingIs DEF Traversing, CurEntry, NestInv, Entered
<1>2. /\ \A u, k : PassedAt(q, u, k) <=> PassedAt(stack, u, k) \/ (u = o /\ k = i)
      /\ \A u, k : EnteredAt(q, u, k) <=> EnteredAt(stack, u, k)
      /\ Len(q) = n /\ \A j \in 1 .. n : q[j].own = stack[j].own
  BY NextPassed
<1>3. CurEntry.sub => \A j \in 1 .. n : stack[j].own # t
  BY NotEntered
<1>4. CurEntry.sub => tables[t] = <<>> /\ DOMAIN tables[t] = {}
  BY DEF Enters
<1>5. \A j \in 1 .. n : stack[j].own \notin F
  BY DEF Traversed
<1>6. \A u \in visited \cup {Outermost} : \A k \in DOMAIN tables[u] : tables[u][k].sub =>
        (tables[u][k].target \in F <=> u \in F \/ PassedAt(stack, u, k))
  BY DEF Traversed
<1>7. visited \cup {Outermost} \subseteq Owner
  BY <1>1, GroupIs
<1>8. CurEntry.sub => \A u \in Owner : \A k \in DOMAIN tables[u] :
        tables[u][k].sub /\ tables[u][k].target = t => u = o /\ k = i
  <2> SUFFICES ASSUME CurEntry.sub, NEW u \in Owner, NEW k \in DOMAIN tables[u],
                      tables[u][k].sub, tables[u][k].target = t
               PROVE  u = o /\ k = i
    OBVIOUS
  <2>1. tables[o][i].sub /\ tables[o][i].target = t
    BY <1>1
  <2> QED
    BY <1>1, <2>1 DEF EnteredIn
<1>9. G \in SUBSET visited
  BY <1>1
<1> DEFINE sub == CurEntry.sub
<1>10. sub \/ ~sub => /\ \A u : u \in G <=> u \in F \/ (sub /\ u = t)
  OBVIOUS
<1>11. sub <=> tables[o][i].sub
  BY <1>1
<1>12. t = tables[o][i].target
  BY <1>1
<1> HIDE DEF n, o, i, t, G, sub
<1>13. Traversed(q, G)
  <2>1. \A j \in 1 .. Len(q) : q[j].own \notin G
    BY <1>2, <1>3, <1>5, <1>10 DEF sub
  <2>2. ASSUME NEW u \in visited \cup {Outermost}, NEW k \in DOMAIN tables[u], tables[u][k].sub
        PROVE  tables[u][k].target \in G <=> u \in G \/ PassedAt(q, u, k)
    <3>1. u \in Owner /\ ~(sub /\ u = t)
      BY <1>4, <1>7, <2>2 DEF sub
    <3>2. u \in G <=> u \in F
      BY <1>10, <3>1
    <3>3. tables[u][k].target \in F <=> u \in F \/ PassedAt(stack, u, k)
      BY <1>6, <2>2
    <3>4. PassedAt(q, u, k) <=> PassedAt(stack, u, k) \/ (u = o /\ k = i)
      BY <1>2
    <3>5. tables[u][k].target \in G <=> tables[u][k].target \in F \/ (sub /\ tables[u][k].target = t)
      BY <1>10
    <3>6. sub /\ tables[u][k].target = t <=> u = o /\ k = i
      BY <1>8, <1>11, <1>12, <2>2, <3>1 DEF sub
    <3> QED
      BY <3>2, <3>3, <3>4, <3>5, <3>6
  <2> QED
    BY <2>1, <2>2 DEF Traversed
<1>14. Seen(q, G) = Seen(stack, F) \cup {<<o, i>>}
  <2>1. ASSUME NEW u \in Owner, NEW k \in DOMAIN tables[u]
        PROVE  u \in G \/ PassedAt(q, u, k) \/ EnteredAt(q, u, k)
                 <=> u \in F \/ PassedAt(stack, u, k) \/ EnteredAt(stack, u, k) \/ (u = o /\ k = i)
    <3>1. ~(sub /\ u = t)
      BY <1>4, <2>1 DEF sub
    <3> QED
      BY <1>2, <1>10, <3>1
  <2> QED
    BY <1>1, <2>1, SeenGrows
<1> QED
  BY <1>9, <1>13, <1>14 DEF SeesOne, o, i

\* The activation of the entry's table has passed no entry of it.
LEMMA EntersPassed ==
  ASSUME NestInv, Traversing, Enters, NEW q,
         AppendedTo(TraverseFrames, stack, TraverseFrame(CurEntry.target, tables[CurEntry.target]), q)
  PROVE  /\ \A u, k : PassedAt(q, u, k) <=> PassedAt(stack, u, k)
         /\ \A u, k : EnteredAt(q, u, k) <=> EnteredAt(stack, u, k) \/ (u = Top.own /\ k = Top.i)
         /\ Len(q) = Len(stack) + 1 /\ q[Len(stack) + 1].own = CurEntry.target
         /\ \A j \in 1 .. Len(stack) : q[j].own = stack[j].own
<1> DEFINE n == Len(stack)
           o == CurEntry.target
           f == TraverseFrame(o, tables[o])
<1>1. /\ n \in Nat \ {0} /\ Top = stack[n] /\ CurEntry.sub /\ o \in visited /\ ~call.idx /\ VisitTypes
  BY TraversingIs DEF Traversing, Enters, NestInv
<1>2. o \in Owner /\ tables[o] \in Seq(TableEntry) /\ tables[o] # <<>>
  BY <1>1, GroupIs DEF VisitTypes, Enters
<1>3. f.own = o /\ ~f.over /\ f.i = IF call.dec THEN Len(tables[o]) ELSE 1
  BY <1>1, <1>2, TraverseFrameIs DEF NestInv
<1>4. Passed(f) = {}
  BY <1>1, <1>2, <1>3, PassedNone
<1>5. Len(q) = n + 1 /\ q[n + 1] = f /\ \A j \in 1 .. n : q[j] = stack[j]
  BY DEF AppendedTo
<1>6. /\ n + 1 \in 1 .. n + 1 /\ \A j \in 1 .. n + 1 : j = n + 1 \/ j \in 1 .. n
      /\ \A j \in 1 .. n : j \in 1 .. n + 1
      /\ (n + 1) - 1 = n /\ \A j \in 1 .. n : j = n \/ j \in 1 .. n - 1
      /\ n \in 1 .. n /\ \A j \in 1 .. n - 1 : j \in 1 .. n
  BY <1>1
<1>7. Len(stack) = n /\ CurEntry.target = o
  OBVIOUS
<1> HIDE DEF n, o, f
<1>8. ASSUME NEW u, NEW k
      PROVE  PassedAt(q, u, k) <=> PassedAt(stack, u, k)
  <2>1. k \notin Passed(q[n + 1])
    BY <1>4, <1>5
  <2> QED
    BY <1>5, <1>6, <1>7, <2>1 DEF PassedAt
<1>9. ASSUME NEW u, NEW k
      PROVE  EnteredAt(q, u, k) <=> EnteredAt(stack, u, k) \/ (u = Top.own /\ k = Top.i)
  <2>1. EnteredAt(q, u, k) <=> \E j \in 1 .. n : stack[j].own = u /\ k = stack[j].i
    BY <1>5, <1>6 DEF EnteredAt
  <2>2. EnteredAt(stack, u, k) <=> \E j \in 1 .. n - 1 : stack[j].own = u /\ k = stack[j].i
    BY <1>7 DEF EnteredAt
  <2> QED
    BY <1>1, <1>6, <2>1, <2>2
<1>10. \A j \in 1 .. n : q[j].own = stack[j].own
  BY <1>5
<1> QED
  BY <1>3, <1>5, <1>7, <1>8, <1>9, <1>10

LEMMA EntersSeen ==
  ASSUME NestInv, Traversing, Enters, NEW F \in SUBSET visited, Traversed(stack, F), NEW q,
         AppendedTo(TraverseFrames, stack, TraverseFrame(CurEntry.target, tables[CurEntry.target]), q)
  PROVE  SeesOne(q, F)
<1> DEFINE n == Len(stack)
           o == Top.own
           i == Top.i
           t == CurEntry.target
<1>1. /\ VisitTypes /\ n \in Nat \ {0} /\ o \in Owner /\ i \in DOMAIN tables[o] /\ CurEntry = tables[o][i]
      /\ CurEntry.sub /\ o \in visited \cup {Outermost}
  BY TraversingIs DEF Traversing, CurEntry, NestInv, Enters
<1>2. /\ \A u, k : PassedAt(q, u, k) <=> PassedAt(stack, u, k)
      /\ \A u, k : EnteredAt(q, u, k) <=> EnteredAt(stack, u, k) \/ (u = o /\ k = i)
      /\ Len(q) = n + 1 /\ q[n + 1].own = t
      /\ \A j \in 1 .. n : q[j].own = stack[j].own
  BY EntersPassed
<1>3. o \notin F /\ ~PassedAt(stack, o, i)
  BY CurrentUnseen
<1>4. t \notin F
  <2>1. tables[o][i].sub => (tables[o][i].target \in F <=> o \in F \/ PassedAt(stack, o, i))
    BY <1>1 DEF Traversed
  <2>2. tables[o][i].sub /\ tables[o][i].target = t
    BY <1>1
  <2> QED
    BY <1>3, <2>1, <2>2
<1>5. \A j \in 1 .. n : stack[j].own \notin F
  BY DEF Traversed
<1>6. \A j \in 1 .. n + 1 : j = n + 1 \/ j \in 1 .. n
  BY <1>1
<1> HIDE DEF n, o, i, t
<1>7. Traversed(q, F)
  <2>1. \A j \in 1 .. Len(q) : q[j].own \notin F
    BY <1>2, <1>4, <1>5, <1>6
  <2>2. \A u \in visited \cup {Outermost} : \A k \in DOMAIN tables[u] : tables[u][k].sub =>
          (tables[u][k].target \in F <=> u \in F \/ PassedAt(q, u, k))
    BY <1>2 DEF Traversed
  <2> QED
    BY <2>1, <2>2 DEF Traversed
<1>8. Seen(q, F) = Seen(stack, F) \cup {<<o, i>>}
  <2>1. \A u \in Owner : \A k \in DOMAIN tables[u] :
          u \in F \/ PassedAt(q, u, k) \/ EnteredAt(q, u, k)
            <=> u \in F \/ PassedAt(stack, u, k) \/ EnteredAt(stack, u, k) \/ (u = o /\ k = i)
    BY <1>2
  <2> QED
    BY <1>1, <2>1, SeenGrows
<1> QED
  BY <1>7, <1>8 DEF SeesOne, o, i

LEMMA ProceedSeen ==
  ASSUME NestInv, Traversing, Proceed, NEW F \in SUBSET visited, Traversed(stack, F)
  PROVE  SeesOne(stack', F)
<1>1. /\ stack # <<>> /\ stack \in Seq(TraverseFrames) /\ Top \in TraverseFrames /\ Top.i \in DOMAIN tables[Top.own]
  BY TraversingIs DEF Traversing
<1>2. CASE Enters
  <2> DEFINE o == CurEntry.target
             f == TraverseFrame(o, tables[o])
  <2>1. o \in Owner /\ tables[o] \in Seq(TableEntry) /\ tables[o] # <<>> /\ VisitTypes
    <3>1. VisitTypes /\ o \in visited
      BY <1>2, TraversingIs DEF Traversing, Enters, NestInv
    <3> QED
      BY <1>2, <3>1, GroupIs DEF VisitTypes, Enters
  <2>2. f \in TraverseFrames
    BY <2>1, TraverseFrameIs
  <2>3. stack' = Append(stack, f)
    BY <1>2 DEF Proceed
  <2>4. AppendedTo(TraverseFrames, stack, f, stack')
    BY <1>1, <2>2, <2>3, Appended
  <2> QED
    BY <1>2, <2>4, EntersSeen
<1>3. CASE ~Enters
  <2> DEFINE f == Stepped(Top)
  <2>1. f \in TraverseFrames
    BY <1>1, SteppedIs
  <2>2. stack' = Append(Front(stack), f)
    BY <1>3 DEF Proceed, Below
  <2>3. ReplacedIn(TraverseFrames, stack, f, stack')
    BY <1>1, <2>1, <2>2, ReplacedLast
  <2> QED
    BY <1>3, <2>3, NextSeen
<1> QED
  BY <1>2, <1>3

\* An activation has ended at the end of its table, and the one below it goes on.
LEMMA CallerPassed ==
  ASSUME NestInv, phase = "traverse", Top.over, NEW n, n = Len(stack), n > 1,
         NEW c, c = stack[n - 1],
         NEW q, PoppedFrom(TraverseFrames, stack, Stepped(c), q)
  PROVE  /\ \A u \in Owner : \A k \in DOMAIN tables[u] :
              PassedAt(q, u, k) \/ u = Top.own <=> PassedAt(stack, u, k) \/ (u = c.own /\ k = c.i)
         /\ \A u, k : EnteredAt(stack, u, k) <=> EnteredAt(q, u, k) \/ (u = c.own /\ k = c.i)
         /\ \A k : ~PassedAt(q, Top.own, k)
         /\ Len(q) = n - 1 /\ \A j \in 1 .. n - 1 : q[j].own = stack[j].own
<1> DEFINE f == Top
           g == Stepped(c)
           o == f.own
           m == n - 1
<1>1. /\ n \in Nat /\ f = stack[n] /\ f \in TraverseFrames /\ f.over /\ o \in Owner
      /\ stack \in Seq(TraverseFrames)
  BY TraversingIs
<1>2. /\ m \in 1 .. n - 1 /\ m \in 1 .. n /\ n \in 1 .. n /\ m # n /\ m + 1 = n
      /\ \A j \in 1 .. n : j = n \/ j = m \/ j \in 1 .. m - 1
      /\ \A j \in 1 .. m - 1 : j \in 1 .. m /\ j \in 1 .. n /\ j # n /\ j # m
      /\ \A j \in 1 .. m : j = m \/ j \in 1 .. m - 1
      /\ \A j \in 1 .. m : j \in 1 .. n /\ j # n
      /\ m \in 1 .. m /\ n - 2 = m - 1
  BY <1>1
<1>3. c = stack[m] /\ c \in TraverseFrames
  BY <1>1, <1>2
<1>4. ~c.over /\ c.i \in DOMAIN tables[c.own]
  BY <1>2, <1>3 DEF NestInv, Traverses
<1>5. g.own = c.own /\ \A k : k \in Passed(g) <=> k \in Passed(c) \/ k = c.i
  BY <1>3, <1>4, SteppedIs, SteppedPassed
<1>6. Len(q) = m /\ q[m] = g /\ \A j \in 1 .. m - 1 : q[j] = stack[j]
  <2>1. Len(q) = n - 1 /\ q[n - 1] = g /\ \A j \in 1 .. n - 2 : q[j] = stack[j]
    BY DEF PoppedFrom
  <2> HIDE DEF g
  <2> QED
    BY <1>2, <2>1
<1>7. Passed(f) = DOMAIN tables[o]
  BY <1>1 DEF Passed
<1>8. \A j \in 1 .. n : stack[j].own = o => j = n
  BY SMTT(30), <1>1, <1>2 DEF NestInv, OwnTables
<1>9. Len(stack) = n /\ Top.own = o
  OBVIOUS
<1> HIDE DEF f, g, o
<1>10. \A j \in 1 .. m : q[j].own = stack[j].own
  <2> HIDE DEF m
  <2> QED
    BY <1>2, <1>3, <1>5, <1>6
<1>11. \A k : ~PassedAt(q, o, k)
  <2> HIDE DEF m
  <2> QED
    BY <1>2, <1>6, <1>8, <1>10 DEF PassedAt
<1>12. ASSUME NEW u \in Owner, NEW k \in DOMAIN tables[u]
       PROVE  PassedAt(q, u, k) \/ u = o <=> PassedAt(stack, u, k) \/ (u = c.own /\ k = c.i)
  <2> HIDE DEF m
  <2> DEFINE P(j) == stack[j].own = u /\ k \in Passed(stack[j])
             Q(j) == q[j].own = u /\ k \in Passed(q[j])
  <2>1. PassedAt(stack, u, k) <=> \E j \in 1 .. n : P(j)
    BY <1>9 DEF PassedAt
  <2>2. PassedAt(q, u, k) <=> \E j \in 1 .. m : Q(j)
    BY <1>6 DEF PassedAt
  <2>3. P(n) <=> u = o
    BY <1>1, <1>7, <1>12 DEF o
  <2>4. Q(m) <=> P(m) \/ (u = c.own /\ k = c.i)
    BY <1>3, <1>5, <1>6
  <2>5. \A j \in 1 .. m - 1 : Q(j) <=> P(j)
    BY <1>6
  <2> HIDE DEF P, Q
  <2>6. (\E j \in 1 .. n : P(j)) <=> P(n) \/ P(m) \/ \E j \in 1 .. m - 1 : P(j)
    BY <1>2
  <2>7. (\E j \in 1 .. m : Q(j)) <=> Q(m) \/ \E j \in 1 .. m - 1 : Q(j)
    BY <1>2
  <2> QED
    BY <2>1, <2>2, <2>3, <2>4, <2>5, <2>6, <2>7
<1>13. ASSUME NEW u, NEW k
       PROVE  EnteredAt(stack, u, k) <=> EnteredAt(q, u, k) \/ (u = c.own /\ k = c.i)
  <2>1. EnteredAt(stack, u, k) <=> \E j \in 1 .. m : stack[j].own = u /\ k = stack[j].i
    BY <1>9 DEF EnteredAt
  <2> HIDE DEF m
  <2>2. EnteredAt(q, u, k) <=> \E j \in 1 .. m - 1 : stack[j].own = u /\ k = stack[j].i
    BY <1>6 DEF EnteredAt
  <2> QED
    BY <1>2, <1>3, <2>1, <2>2
<1> QED
  BY <1>6, <1>9, <1>10, <1>11, <1>12, <1>13

\* The table that has ended is traversed, and no more is seen.
LEMMA CallerSeen ==
  ASSUME NestInv, phase = "traverse", Top.over, NEW n, n = Len(stack), n > 1,
         NEW F \in SUBSET visited, Traversed(stack, F),
         NEW q, PoppedFrom(TraverseFrames, stack, Stepped(stack[n - 1]), q)
  PROVE  \E G \in SUBSET visited : Traversed(q, G) /\ Seen(q, G) = Seen(stack, F)
<1> DEFINE c == stack[n - 1]
           o == Top.own
           G == F \cup {o}
           m == n - 1
<1>1. /\ n \in Nat /\ Top = stack[n] /\ o \in Owner /\ VisitTypes /\ EnteredIn(tables)
      /\ stack \in Seq(TraverseFrames)
  BY TraversingIs DEF NestInv, Entered
<1>2. /\ m \in 1 .. n - 1 /\ m \in 1 .. n /\ n \in 1 .. n /\ n \in 2 .. n /\ m + 1 = n
      /\ \A j \in 1 .. m : j \in 1 .. n /\ j # n
  BY <1>1
<1>3. /\ \A u \in Owner : \A k \in DOMAIN tables[u] :
           PassedAt(q, u, k) \/ u = o <=> PassedAt(stack, u, k) \/ (u = c.own /\ k = c.i)
      /\ \A u, k : EnteredAt(stack, u, k) <=> EnteredAt(q, u, k) \/ (u = c.own /\ k = c.i)
      /\ \A k : ~PassedAt(q, o, k)
      /\ Len(q) = m /\ \A j \in 1 .. m : q[j].own = stack[j].own
  BY CallerPassed
<1>4. /\ c.own \in Owner /\ c.i \in DOMAIN tables[c.own] /\ tables[c.own][c.i].sub
      /\ tables[c.own][c.i].target = o
  <2>1. c = stack[m] /\ o = stack[m + 1].own
    BY <1>1, <1>2
  <2>2. ~stack[m].over /\ tables[stack[m].own][stack[m].i].sub /\ tables[stack[m].own][stack[m].i].target = stack[m + 1].own
    BY <1>2 DEF NestInv, Traverses
  <2>3. stack[m].i \in DOMAIN tables[stack[m].own]
    BY <1>2 DEF NestInv, Traverses
  <2>4. c \in TraverseFrames
    BY <1>1, <1>2, <2>1
  <2> HIDE DEF c, o, m
  <2> QED
    BY <2>1, <2>2, <2>3, <2>4 DEF TraverseFrames
<1>5. o \in visited
  BY <1>1, <1>2 DEF NestInv, OwnTables
<1>6. \A j \in 1 .. n : stack[j].own \notin F
  BY DEF Traversed
<1>7. \A u \in visited \cup {Outermost} : \A k \in DOMAIN tables[u] : tables[u][k].sub =>
        (tables[u][k].target \in F <=> u \in F \/ PassedAt(stack, u, k))
  BY DEF Traversed
<1>8. visited \cup {Outermost} \subseteq Owner
  BY <1>1, GroupIs
<1>9. \A j \in 1 .. m : stack[j].own # o
  BY <1>1, <1>2 DEF NestInv, OwnTables
<1> HIDE DEF c, o
<1>10. \A u \in Owner : \A k \in DOMAIN tables[u] :
         tables[u][k].sub /\ tables[u][k].target = o => u = c.own /\ k = c.i
  <2> SUFFICES ASSUME NEW u \in Owner, NEW k \in DOMAIN tables[u], tables[u][k].sub, tables[u][k].target = o
               PROVE  u = c.own /\ k = c.i
    OBVIOUS
  <2> QED
    BY <1>1, <1>4 DEF EnteredIn
<1>11. \A u : u \in G <=> u \in F \/ u = o
  OBVIOUS
<1>12. G \in SUBSET visited
  BY <1>5
<1> HIDE DEF G, m
<1>13. Traversed(q, G)
  <2>1. \A j \in 1 .. Len(q) : q[j].own \notin G
    BY <1>2, <1>3, <1>6, <1>9, <1>11
  <2>2. ASSUME NEW u \in visited \cup {Outermost}, NEW k \in DOMAIN tables[u], tables[u][k].sub
        PROVE  tables[u][k].target \in G <=> u \in G \/ PassedAt(q, u, k)
    <3>1. u \in Owner
      BY <1>8
    <3>2. PassedAt(q, u, k) \/ u = o <=> PassedAt(stack, u, k) \/ (u = c.own /\ k = c.i)
      BY <1>3, <3>1
    <3>3. tables[u][k].target \in F <=> u \in F \/ PassedAt(stack, u, k)
      BY <1>7, <2>2
    <3>4. tables[u][k].target = o <=> u = c.own /\ k = c.i
      BY <1>4, <1>10, <2>2, <3>1
    <3>5. tables[u][k].target \in G <=> tables[u][k].target \in F \/ tables[u][k].target = o
      BY <1>11
    <3>6. u \in G <=> u \in F \/ u = o
      BY <1>11
    <3> QED
      BY <3>2, <3>3, <3>4, <3>5, <3>6
  <2> QED
    BY <2>1, <2>2 DEF Traversed
<1>14. \A u \in Owner : \A k \in DOMAIN tables[u] :
         u \in G \/ PassedAt(q, u, k) \/ EnteredAt(q, u, k)
           <=> u \in F \/ PassedAt(stack, u, k) \/ EnteredAt(stack, u, k)
  BY <1>3, <1>11
<1>15. Seen(q, G) = Seen(stack, F)
  <2> DEFINE A == Seen(q, G)
             B == Seen(stack, F)
  <2>1. \A u \in Owner : \A k \in DOMAIN tables[u] :
          <<u, k>> \in A <=> u \in G \/ PassedAt(q, u, k) \/ EnteredAt(q, u, k)
    BY <1>1, SeenIs
  <2>2. \A u \in Owner : \A k \in DOMAIN tables[u] :
          <<u, k>> \in B <=> u \in F \/ PassedAt(stack, u, k) \/ EnteredAt(stack, u, k)
    BY <1>1, SeenIs
  <2>3. \A u \in Owner : \A k \in DOMAIN tables[u] : <<u, k>> \in A <=> <<u, k>> \in B
    BY <1>14, <2>1, <2>2
  <2>4. /\ \A x \in A : \E u \in Owner : \E k \in DOMAIN tables[u] : x = <<u, k>>
        /\ \A x \in B : \E u \in Owner : \E k \in DOMAIN tables[u] : x = <<u, k>>
    BY <1>1, SeenAre
  <2> HIDE DEF A, B
  <2>5. \A x \in A : x \in B
    BY <2>3, <2>4
  <2>6. \A x \in B : x \in A
    BY <2>3, <2>4
  <2>7. A = B
    BY <2>5, <2>6
  <2> QED
    BY <2>7 DEF A, B
<1> QED
  BY <1>12, <1>13, <1>15

\* The entry that the top activation is at is reported: a link.
LEMMA LinkReported ==
  ASSUME NestInv, Traversing, call.op = "links", NEW S, S \subseteq Owner \X Nat,
         <<Top.own, Top.i>> \notin S, ReportsAre(reported, executed, S), Reported,
         NEW rep, rep = Count(<<GroupOf(Top.own), CurEntry.pos>>)
  PROVE  ReportsAre(rep, executed, S \cup {<<Top.own, Top.i>>})
<1> DEFINE o == Top.own
           i == Top.i
           T == S \cup {<<o, i>>}
           h == GroupOf(o)
           z == CurEntry.pos
<1>1. /\ VisitTypes /\ o \in Owner /\ i \in DOMAIN tables[o] /\ CurEntry = tables[o][i] /\ z \in Positions
      /\ EnteredIn(tables)
  BY TraversingIs DEF Traversing, CurEntry, NestInv, Entered, TableEntry
<1>2. h \in Group
  BY <1>1, GroupIs DEF Owner
<1>3. <<h, z>> \in LinkId
  BY <1>1, <1>2, LinkIdIs
<1>4. \A g \in Group, p \in Positions :
        reported[<<g, p>>] = (IF g = call.start /\ Among(S, Outermost, p) THEN 1 ELSE 0)
                                + (IF Among(S, g, p) THEN 1 ELSE 0)
  BY DEF ReportsAre
<1>5. z = tables[o][i].pos
  BY <1>1
<1>6. \A u, p : Among(T, u, p) <=> Among(S, u, p) \/ (u = o /\ p = z)
  <2> SUFFICES ASSUME NEW u, NEW p
               PROVE  Among(T, u, p) <=> Among(S, u, p) \/ (u = o /\ p = z)
    OBVIOUS
  <2>1. \A k : <<u, k>> \in T <=> <<u, k>> \in S \/ (u = o /\ k = i)
    OBVIOUS
  <2> HIDE DEF T, o, i, z
  <2> QED
    BY <1>1, <1>5, <2>1 DEF Among
<1>7. ~Among(S, o, z)
  <2>1. ASSUME NEW k \in DOMAIN tables[o], tables[o][k].pos = z PROVE k = i
    <3> HIDE DEF o, i, z
    <3> QED
      BY <1>1, <1>5, <2>1 DEF EnteredIn
  <2> QED
    BY <2>1 DEF Among
<1>8. (o = Outermost => h = call.start) /\ (o # Outermost => h = o)
  BY <1>1, GroupIs DEF Owner, GroupOf
<1>9. Outermost \notin Group
  BY GroupAssumption
<1> HIDE DEF h, z, o, T
<1>10. reported[<<h, z>>] < 2
  <2>1. reported[<<h, z>>] = (IF h = call.start /\ Among(S, Outermost, z) THEN 1 ELSE 0)
                                + (IF Among(S, h, z) THEN 1 ELSE 0)
    BY <1>1, <1>2, <1>4
  <2>2. CASE o = Outermost
    BY <1>7, <2>1, <2>2
  <2>3. CASE o # Outermost
    BY <1>7, <1>8, <2>1, <2>3
  <2> QED
    BY <2>2, <2>3
<1>11. /\ rep[<<h, z>>] = reported[<<h, z>>] + 1
       /\ \A y \in LinkId \cup Object : y # <<h, z>> => rep[y] = reported[y]
  <2>1. rep = Count(<<h, z>>)
    BY DEF h, z, o
  <2>2. reported[<<h, z>>] < 3
    <3>1. reported[<<h, z>>] \in Nat
      BY <1>3 DEF Reported
    <3> QED
      BY <1>10, <3>1
  <2> QED
    BY <1>3, <2>1, <2>2, CountIs
<1>12. ASSUME NEW g \in Group, NEW p \in Positions
       PROVE  rep[<<g, p>>] = (IF g = call.start /\ Among(T, Outermost, p) THEN 1 ELSE 0)
                                + (IF Among(T, g, p) THEN 1 ELSE 0)
  <2>1. reported[<<g, p>>] = (IF g = call.start /\ Among(S, Outermost, p) THEN 1 ELSE 0)
                                + (IF Among(S, g, p) THEN 1 ELSE 0)
    BY <1>4
  <2>2. Among(T, Outermost, p) <=> Among(S, Outermost, p) \/ (Outermost = o /\ p = z)
    BY <1>6
  <2>3. Among(T, g, p) <=> Among(S, g, p) \/ (g = o /\ p = z)
    BY <1>6
  <2>4. CASE g = h /\ p = z
    <3>1. rep[<<g, p>>] = reported[<<g, p>>] + 1
      BY <1>11, <2>4
    <3>2. CASE o = Outermost
      <4>1. g = call.start /\ Among(T, Outermost, p) /\ ~Among(S, Outermost, p)
        BY <1>7, <1>8, <2>2, <2>4, <3>2
      <4>2. Among(T, g, p) <=> Among(S, g, p)
        BY <1>9, <2>3, <3>2
      <4> QED
        BY <2>1, <3>1, <4>1, <4>2
    <3>3. CASE o # Outermost
      <4>1. Among(T, g, p) /\ ~Among(S, g, p)
        BY <1>7, <1>8, <2>3, <2>4, <3>3
      <4>2. Among(T, Outermost, p) <=> Among(S, Outermost, p)
        BY <2>2, <3>3
      <4> QED
        BY <2>1, <3>1, <4>1, <4>2
    <3> QED
      BY <3>2, <3>3
  <2>5. CASE ~(g = h /\ p = z)
    <3>1. <<g, p>> # <<h, z>> /\ <<g, p>> \in LinkId
      BY <2>5, LinkIdIs
    <3>2. rep[<<g, p>>] = reported[<<g, p>>]
      BY <1>11, <3>1
    <3>3. g = call.start => (Among(T, Outermost, p) <=> Among(S, Outermost, p))
      BY <1>8, <2>2, <2>5
    <3>4. Among(T, g, p) <=> Among(S, g, p)
      BY <1>8, <1>9, <2>3, <2>5
    <3> QED
      BY <2>1, <3>2, <3>3, <3>4
  <2> QED
    BY <2>4, <2>5
<1>13. T = S \cup {<<Top.own, Top.i>>}
  BY DEF T, o
<1> QED
  BY ZenonT(40), <1>12, <1>13 DEF ReportsAre

\* What is reported of an object: it is the target of a hard link among the entries.
LEMMA ObjectReported ==
  ASSUME NestInv, Traversing, call.op = "objects", CurEntry.hard, CurEntry.target \notin executed,
         NEW S, S \subseteq Owner \X Nat, ReportsAre(reported, executed, S), Reported,
         NEW rep, rep = Count(CurEntry.target)
  PROVE  ReportsAre(rep, executed \cup {CurEntry.target}, S \cup {<<Top.own, Top.i>>})
<1> DEFINE o == Top.own
           i == Top.i
           T == S \cup {<<o, i>>}
           z == CurEntry.target
           ex == executed \cup {z}
<1>1. z \in Object /\ CurEntry = tables[o][i]
  BY TraversingIs DEF Traversing, CurEntry
<1>2. /\ \A x \in Object : reported[x] = (IF x = call.start THEN 1 ELSE 0) + (IF x \in executed THEN 1 ELSE 0)
      /\ \A x \in Object : x \in executed <=>
           \E s \in S : tables[s[1]][s[2]].hard /\ tables[s[1]][s[2]].target = x
  BY DEF ReportsAre
<1>3. tables[o][i].hard /\ tables[o][i].target = z
  BY <1>1
<1>4. z \notin executed
  OBVIOUS
<1>5. <<o, i>>[1] = o /\ <<o, i>>[2] = i
  OBVIOUS
<1> DEFINE w == <<o, i>>
<1>6. tables[w[1]][w[2]].hard /\ tables[w[1]][w[2]].target = z /\ T = S \cup {w}
  BY <1>3, <1>5
<1> HIDE DEF z, w, T
<1>7. \A x \in Object : x \in ex <=> \E s \in T : tables[s[1]][s[2]].hard /\ tables[s[1]][s[2]].target = x
  <2>1. \A x \in Object : (\E s \in T : tables[s[1]][s[2]].hard /\ tables[s[1]][s[2]].target = x)
           <=> (\E s \in S : tables[s[1]][s[2]].hard /\ tables[s[1]][s[2]].target = x) \/ x = z
    BY <1>6
  <2> QED
    BY <1>2, <2>1
<1>8. /\ rep[z] = reported[z] + 1
      /\ \A y \in LinkId \cup Object : y # z => rep[y] = reported[y]
  <2>1. reported[z] = (IF z = call.start THEN 1 ELSE 0) + 0
    BY <1>1, <1>2, <1>4
  <2>2. reported[z] < 3
    BY <2>1
  <2> QED
    BY <1>1, <2>2, CountIs DEF z
<1>9. ASSUME NEW x \in Object
      PROVE  rep[x] = (IF x = call.start THEN 1 ELSE 0) + (IF x \in ex THEN 1 ELSE 0)
  <2>1. reported[x] = (IF x = call.start THEN 1 ELSE 0) + (IF x \in executed THEN 1 ELSE 0)
    BY <1>2
  <2>2. CASE x = z
    <3>1. rep[x] = reported[x] + 1 /\ x \notin executed /\ x \in ex
      BY <1>4, <1>8, <2>2
    <3> QED
      BY <2>1, <3>1
  <2>3. CASE x # z
    <3>1. rep[x] = reported[x] /\ (x \in ex <=> x \in executed)
      BY <1>8, <2>3
    <3> QED
      BY <2>1, <3>1
  <2> QED
    BY <2>2, <2>3
<1>10. call.op # "links"
  OBVIOUS
<1> QED
  BY <1>7, <1>9, <1>10 DEF ReportsAre, z, T, w

\* An entry that is passed over is no hard link, or leads to an object that is reported.
LEMMA PassedOverReported ==
  ASSUME NestInv, Traversing, ~Executes, NEW S, S \subseteq Owner \X Nat,
         ReportsAre(reported, executed, S)
  PROVE  ReportsAre(reported, executed, S \cup {<<Top.own, Top.i>>})
<1> DEFINE o == Top.own
           i == Top.i
           w == <<o, i>>
           T == S \cup {w}
<1>1. CurEntry = tables[o][i] /\ call.op = "objects" /\ ~(CurEntry.hard /\ CurEntry.target \notin executed)
      /\ (CurEntry.hard => CurEntry.target \in Object)
  BY TraversingIs DEF Traversing, CurEntry, Executes
<1>2. /\ \A x \in Object : reported[x] = (IF x = call.start THEN 1 ELSE 0) + (IF x \in executed THEN 1 ELSE 0)
      /\ \A x \in Object : x \in executed <=>
           \E s \in S : tables[s[1]][s[2]].hard /\ tables[s[1]][s[2]].target = x
  BY <1>1 DEF ReportsAre
<1>3. w[1] = o /\ w[2] = i
  OBVIOUS
<1>4. tables[w[1]][w[2]].hard => tables[w[1]][w[2]].target \in executed
  BY <1>1, <1>3
<1> HIDE DEF w
<1>5. \A x \in Object : x \in executed <=>
        \E s \in T : tables[s[1]][s[2]].hard /\ tables[s[1]][s[2]].target = x
  <2>1. \A x \in Object : (\E s \in T : tables[s[1]][s[2]].hard /\ tables[s[1]][s[2]].target = x)
           <=> (\E s \in S : tables[s[1]][s[2]].hard /\ tables[s[1]][s[2]].target = x)
                 \/ (tables[w[1]][w[2]].hard /\ tables[w[1]][w[2]].target = x)
    OBVIOUS
  <2> QED
    BY <1>2, <1>4, <2>1
<1>6. call.op # "links"
  BY <1>1
<1> QED
  BY <1>2, <1>5, <1>6 DEF ReportsAre, w

-----------------------------------------------------------------------------
LEMMA ProceedReporting ==
  ASSUME NestInv, Traversing, Proceed, UNCHANGED <<call, tables, visited>>,
         NEW F \in SUBSET visited, Traversed(stack, F),
         ReportsAre(reported', executed', Seen(stack, F) \cup {<<Top.own, Top.i>>})
  PROVE  Reporting'
<1>1. SeesOne(stack', F)
  BY ProceedSeen
<1>2. PICK G \in SUBSET visited :
        Traversed(stack', G) /\ Seen(stack', G) = Seen(stack, F) \cup {<<Top.own, Top.i>>}
  BY <1>1 DEF SeesOne
<1>3. ReportsAre(reported', executed', Seen(stack', G))
  BY <1>2
<1> QED
  BY <1>2, <1>3, ReportingNext

LEMMA SeenEntries ==
  ASSUME NEW s, NEW F
  PROVE  Seen(s, F) \subseteq Owner \X Nat
  BY DEF Seen

\* H5Ovisit goes on without a call of the callback.
LEMMA PassOverExact ==
  ASSUME NestInv, ExactInv, PassOver
  PROVE  ExactInv'
<1>1. /\ Traversing /\ Proceed /\ ~Executes /\ phase = "traverse" /\ phase' = "traverse"
      /\ UNCHANGED <<call, links, tables, visited, changes, executed, ret, reported, stopped>>
  BY DEF PassOver, Proceed, Traversing, graph
<1>2. ret' = "ok" /\ Reported'
  BY <1>1, ReportedStays DEF ExactInv, Untouched
<1>3. Reporting'
  <2> SUFFICES ASSUME changes = 0, ~stopped, ~call.idx
               PROVE  Reporting'
    BY <1>1 DEF Reporting
  <2>1. PICK F \in SUBSET visited : Traversed(stack, F) /\ ReportsAre(reported, executed, Seen(stack, F))
    BY <1>1 DEF ExactInv, Reporting
  <2>2. ReportsAre(reported, executed, Seen(stack, F) \cup {<<Top.own, Top.i>>})
    BY <1>1, <2>1, SeenEntries, PassedOverReported
  <2>3. ReportsAre(reported', executed', Seen(stack, F) \cup {<<Top.own, Top.i>>})
    BY <1>1, <2>2
  <2> QED
    BY <1>1, <2>1, <2>3, ProceedReporting
<1> QED
  BY <1>1, <1>2, <1>3, TraversesExact

\* The callback is called for the entry that the top activation is at.
LEMMA CallbackExact ==
  ASSUME NestInv, ExactInv, NEW r \in {-1, 0, 1}, Callback(r)
  PROVE  ExactInv'
<1>1. /\ Traversing /\ Executes /\ phase = "traverse"
      /\ reported' = Count(Subject)
      /\ executed' = IF call.op = "objects" /\ r = 0 THEN executed \cup {CurEntry.target} ELSE executed
      /\ stopped' = (stopped \/ r > 0)
      /\ UNCHANGED <<call, links, tables, visited, changes>>
  BY DEF Callback, Traversing, graph
<1>2. Reported /\ ret = "ok"
  BY <1>1 DEF ExactInv, Untouched
<1>3. Reported'
  <2>1. reported' \in [LinkId \cup Object -> Nat]
    BY <1>1, <1>2, CountIs
  <2> QED
    BY <2>1 DEF Reported, LinkId, Object
<1>4. CASE r = 0
  <2>1. Proceed /\ ret' = ret /\ ~(r > 0)
    BY <1>4 DEF Callback
  <2>2. phase' = "traverse" /\ ret' = "ok"
    BY <1>1, <1>2, <2>1 DEF Proceed
  <2>3. Reporting'
    <3> SUFFICES ASSUME changes = 0, ~stopped, ~call.idx
                 PROVE  Reporting'
      BY <1>1, <2>1 DEF Reporting
    <3>1. PICK F \in SUBSET visited : Traversed(stack, F) /\ ReportsAre(reported, executed, Seen(stack, F))
      BY <1>1 DEF ExactInv, Reporting
    <3>2. <<Top.own, Top.i>> \notin Seen(stack, F)
      BY <1>1, <3>1, CurrentUnseen
    <3>3. ReportsAre(reported', executed', Seen(stack, F) \cup {<<Top.own, Top.i>>})
      <4>1. CASE call.op = "links"
        <5>1. reported' = Count(<<GroupOf(Top.own), CurEntry.pos>>) /\ executed' = executed
          BY <1>1, <4>1 DEF Subject
        <5>2. ReportsAre(reported', executed, Seen(stack, F) \cup {<<Top.own, Top.i>>})
          BY <1>1, <1>2, <3>1, <3>2, <4>1, <5>1, SeenEntries, LinkReported
        <5> QED
          BY <5>1, <5>2
      <4>2. CASE call.op = "objects"
        <5>1. /\ reported' = Count(CurEntry.target) /\ executed' = executed \cup {CurEntry.target}
              /\ CurEntry.hard /\ CurEntry.target \notin executed
          BY <1>1, <1>4, <4>2 DEF Subject, Executes
        <5>2. ReportsAre(reported', executed \cup {CurEntry.target}, Seen(stack, F) \cup {<<Top.own, Top.i>>})
          BY <1>1, <1>2, <3>1, <4>2, <5>1, SeenEntries, ObjectReported
        <5> QED
          BY <5>1, <5>2
      <4>3. call.op \in {"links", "objects"}
        BY DEF NestInv, VisitTypes, Call, Op
      <4> QED
        BY <4>1, <4>2, <4>3
    <3> QED
      BY <1>1, <2>1, <3>1, <3>3, ProceedReporting
  <2> QED
    BY <1>1, <1>3, <2>2, <2>3, TraversesExact
<1>5. CASE r = 1
  <2>1. ActivationEnds(Top) /\ ret' = ret /\ stopped'
    <3>1. r > 0 /\ ~(r = 0) /\ ~(r < 0)
      BY <1>5
    <3> QED
      BY <1>1, <3>1 DEF Callback
  <2>2. CASE Below = <<>>
    BY <1>3, <2>1, <2>2, EndsOtherwise DEF ActivationEnds
  <2>3. CASE Below # <<>>
    <3>1. phase' = "traverse" /\ ret' = "ok"
      BY <1>1, <1>2, <2>1, <2>3 DEF ActivationEnds
    <3>2. Reporting'
      BY <2>1 DEF Reporting
    <3> QED
      BY <1>1, <1>3, <3>1, <3>2, TraversesExact
  <2> QED
    BY <2>2, <2>3
<1>6. CASE r = -1
  <2>1. phase' = "returned" /\ ret' = "fail"
    <3>1. r < 0 /\ ~(r = 0) /\ ~(r > 0)
      BY <1>6
    <3> QED
      BY <3>1 DEF Callback
  <2> QED
    BY <1>3, <2>1, EndsOtherwise
<1> QED
  BY <1>4, <1>5, <1>6

\* Beyond the table nothing is counted, and a call with an index promises nothing.
LEMMA CallbackStrayExact ==
  ASSUME NestInv, ExactInv, NEW r \in {-1, 0, 1}, CallbackStray(r)
  PROVE  ExactInv'
<1>1. /\ Stray /\ phase = "traverse" /\ stopped' = (stopped \/ r > 0)
      /\ UNCHANGED <<call, links, tables, visited, changes, reported>>
  BY DEF CallbackStray, Stray, graph
<1>2. Reported' /\ ret = "ok"
  BY <1>1, ReportedStays DEF ExactInv, Untouched
<1>3. Reporting'
  <2>1. call'.idx
    BY <1>1, TraversingIs DEF Astray
  <2> QED
    BY <2>1 DEF Reporting
<1>4. CASE r = 0
  <2>1. phase' = "traverse" /\ ret' = "ok"
    BY <1>1, <1>2, <1>4 DEF CallbackStray
  <2> QED
    BY <1>1, <1>2, <1>3, <2>1, TraversesExact
<1>5. CASE r = 1
  <2>1. ActivationEnds(Top) /\ ret' = ret /\ stopped'
    <3>1. r > 0 /\ ~(r = 0) /\ ~(r < 0)
      BY <1>5
    <3> QED
      BY <1>1, <3>1 DEF CallbackStray
  <2>2. CASE Below = <<>>
    BY <1>2, <2>1, <2>2, EndsOtherwise DEF ActivationEnds
  <2>3. CASE Below # <<>>
    <3>1. phase' = "traverse" /\ ret' = "ok"
      BY <1>1, <1>2, <2>1, <2>3 DEF ActivationEnds
    <3> QED
      BY <1>1, <1>2, <1>3, <3>1, TraversesExact
  <2> QED
    BY <2>2, <2>3
<1>6. CASE r = -1
  <2>1. phase' = "returned" /\ ret' = "fail"
    <3>1. r < 0 /\ ~(r = 0) /\ ~(r > 0)
      BY <1>6
    <3> QED
      BY <3>1 DEF CallbackStray
  <2> QED
    BY <1>2, <2>1, EndsOtherwise
<1> QED
  BY <1>4, <1>5, <1>6

LEMMA VisitCrashesExact ==
  ASSUME ExactInv, VisitCrashes
  PROVE  ExactInv'
<1>1. phase' = "crashed" /\ reported' = reported
  BY DEF VisitCrashes
<1>2. Reported'
  BY <1>1, ReportedStays DEF ExactInv
<1>3. Copies' /\ Tree' /\ Untouched' /\ Reporting'
  BY <1>1 DEF Copies, Tree, Untouched, Reporting
<1>4. ReportsExact'
  BY <1>1, NotEnded
<1> QED
  BY <1>2, <1>3, <1>4 DEF ExactInv

\* An activation has ended, and there is one below it.
LEMMA InnerDoneExact ==
  ASSUME NestInv, ExactInv, TableDone, Below # <<>>
  PROVE  ExactInv'
<1> DEFINE n == Len(stack)
           f == Stepped(stack[n - 1])
<1>1. /\ phase = "traverse" /\ Top.over /\ phase' = "traverse" /\ stack' = Append(Front(Below), Stepped(Last(Below)))
      /\ UNCHANGED <<call, links, tables, visited, changes, executed, ret, reported, stopped>>
  BY DEF TableDone, ActivationEnds, graph
<1>2. ret' = "ok" /\ Reported'
  BY <1>1, ReportedStays DEF ExactInv, Untouched
<1>3. /\ n \in Nat \ {0} /\ n > 1 /\ stack \in Seq(TraverseFrames) /\ stack # <<>>
      /\ Last(Below) = stack[n - 1] /\ Below = Front(stack)
  <2>1. n \in Nat \ {0} /\ stack \in Seq(TraverseFrames) /\ stack # <<>>
    BY <1>1, TraversingIs
  <2>2. Below \in Seq(TraverseFrames) /\ Len(Below) = n - 1 /\ Below # <<>> /\ n # 1
        /\ \A i \in 1 .. n - 1 : Below[i] = stack[i]
    BY <2>1, FrontOf DEF Below
  <2>3. Last(Below) = Below[n - 1]
    BY <2>2 DEF Last
  <2>4. n > 1 /\ n - 1 \in 1 .. n - 1
    BY <2>1, <2>2
  <2> QED
    BY <2>1, <2>2, <2>3, <2>4 DEF Below
<1>4. PoppedFrom(TraverseFrames, stack, f, stack')
  <2>1. n - 1 \in 1 .. n /\ n - 1 \in 1 .. n - 1
    BY <1>3
  <2>2. stack[n - 1] \in TraverseFrames /\ stack[n - 1].i \in DOMAIN tables[stack[n - 1].own]
    <3>1. stack[n - 1].i \in DOMAIN tables[stack[n - 1].own]
      BY <1>1, <2>1 DEF NestInv, Traverses
    <3> QED
      BY <1>3, <2>1, <3>1
  <2>3. f \in TraverseFrames
    BY <2>2, SteppedIs
  <2>4. stack' = Append(Front(Front(stack)), f)
    BY <1>1, <1>3
  <2>5. Len(stack) > 1 /\ stack \in Seq(TraverseFrames)
    BY <1>3
  <2>6. f = Stepped(stack[n - 1])
    OBVIOUS
  <2> HIDE DEF f, n
  <2>7. PoppedFrom(TraverseFrames, stack, f, stack')
    BY <2>3, <2>4, <2>5, ReplacedCaller
  <2> QED
    BY <2>7
<1>5. Reporting'
  <2> SUFFICES ASSUME changes = 0, ~stopped, ~call.idx
               PROVE  Reporting'
    BY <1>1 DEF Reporting
  <2>1. PICK F \in SUBSET visited : Traversed(stack, F) /\ ReportsAre(reported, executed, Seen(stack, F))
    BY <1>1 DEF ExactInv, Reporting
  <2> DEFINE Called(G) == Traversed(stack', G) /\ Seen(stack', G) = Seen(stack, F)
  <2>2. \E G \in SUBSET visited : Called(G)
    <3>1. n = Len(stack) /\ n > 1 /\ phase = "traverse" /\ Top.over /\ Traversed(stack, F)
      BY <1>1, <1>3, <2>1
    <3>2. PoppedFrom(TraverseFrames, stack, Stepped(stack[n - 1]), stack')
      BY <1>4
    <3> HIDE DEF n, f
    <3> QED
      BY ZenonT(40), <3>1, <3>2, CallerSeen
  <2>3. PICK G \in SUBSET visited : Called(G)
    BY <2>2
  <2>4. ReportsAre(reported', executed', Seen(stack', G))
    BY <1>1, <2>1, <2>3
  <2> QED
    BY <1>1, <2>3, <2>4, ReportingNext
<1> QED
  BY <1>1, <1>2, <1>5, TraversesExact

\* The first activation has ended: the entries of all tables are seen.
LEMMA AllSeen ==
  ASSUME NestInv, ExactInv, phase = "traverse", Top.over, Below = <<>>,
         NEW F \in SUBSET visited, Traversed(stack, F)
  PROVE  \A o \in Owner : \A k \in DOMAIN tables[o] : <<o, k>> \in Seen(stack, F)
<1>1. /\ VisitTypes /\ EnteredIn(tables) /\ stack # <<>> /\ stack \in Seq(TraverseFrames)
      /\ Top = stack[Len(stack)]
  BY TraversingIs DEF NestInv, Entered
<1>2. Len(stack) = 1
  BY <1>1, FrontOf DEF Below
<1>3. Top = stack[1] /\ Top.own = Outermost /\ 1 \in 1 .. Len(stack)
  BY <1>1, <1>2 DEF NestInv, OwnTables
<1>4. Passed(Top) = DOMAIN tables[Outermost]
  BY <1>3 DEF Passed
<1>5. \A k \in DOMAIN tables[Outermost] : PassedAt(stack, Outermost, k)
  BY <1>3, <1>4 DEF PassedAt
<1> DEFINE S == F \cup {Outermost}
<1>6. S \in SUBSET Owner /\ Outermost \notin visited /\ visited \subseteq Owner
  BY <1>1, GroupIs
<1>7. \A u \in S : \A k \in DOMAIN tables[u] : tables[u][k].sub => tables[u][k].target \in S
  BY <1>5 DEF Traversed
<1>8. visited \subseteq S
  <2>1. phase # "build"
    OBVIOUS
  <2> HIDE DEF S
  <2>2. Outermost \in S
    BY DEF S
  <2> QED
    BY <1>6, <1>7, <2>1, <2>2 DEF ExactInv, Tree
<1>9. visited \subseteq F
  BY <1>6, <1>8
<1> SUFFICES ASSUME NEW o \in Owner, NEW k \in DOMAIN tables[o]
             PROVE  <<o, k>> \in Seen(stack, F)
  OBVIOUS
<1>10. o \in visited \/ o = Outermost
  BY <1>1 DEF EnteredIn
<1>11. o \in F \/ PassedAt(stack, o, k)
  BY <1>5, <1>9, <1>10
<1> QED
  BY <1>1, <1>11, SeenIs

\* The visit returns: all has been reported.
LEMMA OuterDoneExact ==
  ASSUME NestInv, ExactInv, TableDone, Below = <<>>
  PROVE  ExactInv'
<1>1. /\ phase = "traverse" /\ Top.over /\ phase' = "returned"
      /\ UNCHANGED <<call, links, tables, visited, changes, executed, ret, reported, stopped>>
      /\ VisitTypes /\ EnteredIn(tables) /\ tables \in [Owner -> Seq(TableEntry)]
  BY DEF TableDone, ActivationEnds, graph, NestInv, VisitTypes, Entered
<1>2. Reported'
  BY <1>1, ReportedStays DEF ExactInv
<1>3. ASSUME changes = 0, ~stopped, ~call.idx
      PROVE  Exactly
  <2>1. PICK F \in SUBSET visited : Traversed(stack, F) /\ ReportsAre(reported, executed, Seen(stack, F))
    BY <1>1, <1>3 DEF ExactInv, Reporting
  <2> DEFINE S == Seen(stack, F)
  <2>2. \A o \in Owner : \A k \in DOMAIN tables[o] : <<o, k>> \in S
    BY <1>1, <2>1, AllSeen
  <2>3. \A x \in S : \E o \in Owner : \E k \in DOMAIN tables[o] : x = <<o, k>>
    BY <1>1, SeenAre
  <2>4. Outermost \in Owner /\ \A g \in Group : g \in Owner
    BY <1>1, GroupIs
  <2>5. ReportsAre(reported, executed, S)
    BY <2>1
  <2> HIDE DEF S
  <2>6. \A o \in Owner : \A p : Among(S, o, p) <=> \E k \in DOMAIN tables[o] : tables[o][k].pos = p
    BY <2>2 DEF Among
  <2>7. call.op = "links" =>
          \A g \in Group, p \in Positions :
            reported[<<g, p>>] =
              (IF g = call.start /\ \E k \in DOMAIN tables[Outermost] : tables[Outermost][k].pos = p THEN 1 ELSE 0)
                + (IF \E k \in DOMAIN tables[g] : tables[g][k].pos = p THEN 1 ELSE 0)
    <3> SUFFICES ASSUME call.op = "links", NEW g \in Group, NEW p \in Positions
                 PROVE  reported[<<g, p>>] =
                          (IF g = call.start /\ \E k \in DOMAIN tables[Outermost] : tables[Outermost][k].pos = p THEN 1 ELSE 0)
                            + (IF \E k \in DOMAIN tables[g] : tables[g][k].pos = p THEN 1 ELSE 0)
      OBVIOUS
    <3>1. reported[<<g, p>>] = (IF g = call.start /\ Among(S, Outermost, p) THEN 1 ELSE 0)
                                  + (IF Among(S, g, p) THEN 1 ELSE 0)
      BY <2>5 DEF ReportsAre
    <3>2. Among(S, Outermost, p) <=> \E k \in DOMAIN tables[Outermost] : tables[Outermost][k].pos = p
      BY <2>4, <2>6
    <3>3. Among(S, g, p) <=> \E k \in DOMAIN tables[g] : tables[g][k].pos = p
      BY <2>4, <2>6
    <3> QED
      BY <3>1, <3>2, <3>3
  <2>8. call.op = "objects" =>
          \A x \in Object :
            reported[x] = (IF x = call.start THEN 1 ELSE 0)
              + (IF \E o \in Owner : \E k \in DOMAIN tables[o] : tables[o][k].hard /\ tables[o][k].target = x THEN 1 ELSE 0)
    <3> SUFFICES ASSUME call.op = "objects", NEW x \in Object
                 PROVE  reported[x] = (IF x = call.start THEN 1 ELSE 0)
                          + (IF \E o \in Owner : \E k \in DOMAIN tables[o] : tables[o][k].hard /\ tables[o][k].target = x THEN 1 ELSE 0)
      OBVIOUS
    <3>1. /\ reported[x] = (IF x = call.start THEN 1 ELSE 0) + (IF x \in executed THEN 1 ELSE 0)
          /\ x \in executed <=> \E s \in S : tables[s[1]][s[2]].hard /\ tables[s[1]][s[2]].target = x
      BY <2>5 DEF ReportsAre
    <3>2. \A o, k : <<o, k>>[1] = o /\ <<o, k>>[2] = k
      OBVIOUS
    <3>3. (\E s \in S : tables[s[1]][s[2]].hard /\ tables[s[1]][s[2]].target = x)
            <=> \E o \in Owner : \E k \in DOMAIN tables[o] : tables[o][k].hard /\ tables[o][k].target = x
      <4>1. ASSUME NEW s \in S, tables[s[1]][s[2]].hard, tables[s[1]][s[2]].target = x
            PROVE  \E o \in Owner : \E k \in DOMAIN tables[o] : tables[o][k].hard /\ tables[o][k].target = x
        <5>1. PICK o \in Owner : \E k \in DOMAIN tables[o] : s = <<o, k>>
          BY <2>3
        <5>2. PICK k \in DOMAIN tables[o] : s = <<o, k>>
          BY <5>1
        <5>3. tables[o][k].hard /\ tables[o][k].target = x
          BY <3>2, <4>1, <5>2
        <5> QED
          BY <5>1, <5>2, <5>3, Zenon
      <4>2. ASSUME NEW o \in Owner, NEW k \in DOMAIN tables[o], tables[o][k].hard, tables[o][k].target = x
            PROVE  \E s \in S : tables[s[1]][s[2]].hard /\ tables[s[1]][s[2]].target = x
        <5>1. <<o, k>> \in S
          BY <2>2
        <5> QED
          BY <3>2, <4>2, <5>1
      <4> QED
        BY <4>1, <4>2
    <3> QED
      BY <3>1, <3>3
  <2>9. ReportsAll(tables)
    BY <2>7, <2>8 DEF ReportsAll
  <2>10. CopiedIn(tables)
    <3>1. phase # "build"
      BY <1>1
    <3> QED
      BY <1>1, <1>3, <3>1 DEF ExactInv, Copies, CopiedIn
  <2> QED
    BY <1>1, <2>9, <2>10, AllReported
<1>4. ReportsExact'
  <2>1. call'.idx => ~call'.recursive
    BY <1>1 DEF VisitTypes
  <2> QED
    BY <1>1, <1>3, <2>1, ExactlyExact
<1> QED
  BY <1>1, <1>2, <1>4, EndsExact

LEMMA StutterExact ==
  ASSUME ExactInv, UNCHANGED visitVars
  PROVE  ExactInv'
<1> USE DEF visitVars
<1>1. Reported' /\ Untouched'
  BY ReportedStays DEF ExactInv, Untouched, AtFirst, NoReports, LinkId, Object
<1>2. Copies'
  BY DEF ExactInv, Copies, EntryCopied, HasAll, VisitedReached, GroupOf, Owner, Owns, Reached, Closed,
         LeadsTo, ReachedLinks
<1>3. Tree'
  BY DEF ExactInv, Tree, Owner
<1>4. Reporting'
  <2> SUFFICES ASSUME phase = "traverse", changes = 0, ~stopped, ~call.idx
               PROVE  Reporting'
    BY DEF Reporting
  <2>1. PICK F \in SUBSET visited : Traversed(stack, F) /\ ReportsAre(reported, executed, Seen(stack, F))
    BY DEF ExactInv, Reporting
  <2>2. stack' = stack /\ reported' = reported /\ executed' = executed
    OBVIOUS
  <2>3. Traversed(stack', F) /\ ReportsAre(reported', executed', Seen(stack', F))
    BY <2>1, <2>2
  <2> QED
    BY <2>3, ReportingNext
<1>5. ReportsExact'
  BY DEF ExactInv, ReportsExact, VisitExact, ListingExact, Reached, Closed, LeadsTo, ReachedLinks, LinkId, Object
<1> QED
  BY <1>1, <1>2, <1>3, <1>4, <1>5 DEF ExactInv

\* Every step keeps the reports what the entries seen make them.
LEMMA VisitNextExact ==
  ASSUME NestInv, ExactInv, [VisitNext]_visitVars
  PROVE  ExactInv'
<1>1. ASSUME NEW c \in Call, NEW i \in 0 .. Len(CrtTime), Start(c, i) PROVE ExactInv'
  BY <1>1, StartVisitExact
<1>2. CASE Connector
  <2>1. CASE FirstAnswer
    BY <2>1, FirstAnswerExact
  <2>2. CASE FirstRequestFails
    BY <2>2, FirstRequestFailsExact
  <2>3. CASE AddLink
    BY <2>3, AddLinkExact
  <2>4. CASE Descend
    BY <2>4, DescendExact
  <2>5. CASE BuildFails
    BY <2>5, BuildFailsExact
  <2>6. CASE TableBuilt
    BY <2>6, InnerBuiltExact, EmptyBuiltExact, OuterBuiltExact
  <2>7. CASE PassOver
    BY <2>7, PassOverExact
  <2>8. CASE TableDone
    BY <2>8, InnerDoneExact, OuterDoneExact
  <2>9. ASSUME NEW r \in {-1, 0, 1}, StartObject(r) PROVE ExactInv'
    BY <2>9, StartObjectExact
  <2>10. ASSUME NEW r \in {-1, 0, 1}, Callback(r) PROVE ExactInv'
    BY <2>10, CallbackExact
  <2>11. ASSUME NEW r \in {-1, 0, 1}, CallbackStray(r) PROVE ExactInv'
    BY <2>11, CallbackStrayExact
  <2>12. CASE VisitCrashes
    BY <2>12, VisitCrashesExact
  <2> QED
    BY <1>2, <2>1, <2>2, <2>3, <2>4, <2>5, <2>6, <2>7, <2>8, <2>9, <2>10, <2>11, <2>12 DEF Connector
<1>3. ASSUME NEW g \in Group, OtherClient(g) PROVE ExactInv'
  BY <1>3, OtherClientExact
<1>4. CASE UNCHANGED visitVars
  BY <1>4, StutterExact
<1> QED
  BY <1>1, <1>2, <1>3, <1>4 DEF VisitNext

\* What the reports are rests on holds in every state.
THEOREM ReportsInvariance == VisitSpec => []ExactInv
<1>1. VisitInit => ExactInv
  BY VisitInitExact
<1>2. NestInv /\ ExactInv /\ [VisitNext]_visitVars => ExactInv'
  BY VisitNextExact
<1> QED
  BY <1>1, <1>2, VisitInvariance, PTL DEF VisitSpec

\* H5Literate, H5Lvisit and H5Ovisit (RV_traverse_link_table, RV_traverse_object_table): a call
\* that succeeds, and that nobody stopped, has called the callback for exactly the links or
\* objects it should have, each as often as it should be.
THEOREM ReportsAreExact == VisitSpec => []ReportsExact
<1>1. ExactInv => ReportsExact
  BY DEF ExactInv
<1> QED
  BY <1>1, ReportsInvariance, PTL

-----------------------------------------------------------------------------
(* Where an iteration may be outside its table. *)

\* All links of the group are in the table: it is no shorter than the group.
LEMMA TableIsWhole ==
  ASSUME NestInv, ExactInv, phase = "traverse", changes = 0
  PROVE  Len(links[call.start]) <= Len(tables[Outermost])
<1> DEFINE m == Len(links[call.start])
           n == Len(tables[Outermost])
           t == tables[Outermost]
           at == [p \in 1 .. m |-> CHOOSE k \in 1 .. n : t[k].pos = p]
<1>1. /\ call.start \in Group /\ GroupOf(Outermost) = call.start /\ Outermost \in Owner
      /\ links \in Graphs /\ tables \in [Owner -> Seq(TableEntry)]
  BY GroupIs DEF NestInv, VisitTypes
<1>2. links[call.start] \in Seq(Link) /\ t \in Seq(TableEntry)
  BY <1>1, GraphAssumption
<1>3. m \in Nat /\ n \in Nat /\ DOMAIN links[call.start] = 1 .. m /\ DOMAIN t = 1 .. n
  BY <1>2
<1>4. HasAll(Outermost, t)
  <2>1. phase # "build" /\ Outermost \in visited \cup {Outermost}
    OBVIOUS
  <2> QED
    BY <2>1 DEF ExactInv, Copies
<1>5. \A p \in 1 .. m : \E k \in 1 .. n : t[k].pos = p
  BY <1>1, <1>3, <1>4 DEF HasAll
<1> HIDE DEF m, n, t
<1>6. \A p \in 1 .. m : at[p] \in 1 .. n /\ t[at[p]].pos = p
  BY <1>5
<1>7. at \in Injection(1 .. m, 1 .. n)
  <2>1. at \in [1 .. m -> 1 .. n]
    BY <1>6
  <2>2. \A p, q \in 1 .. m : at[p] = at[q] => p = q
    BY <1>6
  <2> HIDE DEF at
  <2> QED
    BY <2>1, <2>2 DEF Injection, IsInjective
<1>8. /\ IsFiniteSet(1 .. m) /\ Cardinality(1 .. m) = m
      /\ IsFiniteSet(1 .. n) /\ Cardinality(1 .. n) = n
  BY <1>3, FS_Interval
<1>9. Cardinality(1 .. m) <= Cardinality(1 .. n)
  BY <1>7, <1>8, FS_Injection
<1> QED
  BY <1>8, <1>9 DEF m, n

\* What an activation outside its table says of the index of the application.
LEMMA AstrayBeyond ==
  ASSUME NestInv, ExactInv, phase = "traverse",
         NEW f \in TraverseFrames, Astray(f), f.i > Len(tables[f.own])
  PROVE  StartsBeyond
<1>1. call.idx /\ call.dec /\ f.own = Outermost /\ f.i <= idx + 1
  BY DEF Astray
<1>2. idx \in Nat /\ f.i \in Nat /\ Len(tables[Outermost]) \in Nat /\ Len(links[call.start]) \in Nat
  <2>1. tables[Outermost] \in Seq(TableEntry) /\ call.start \in Group /\ links \in Graphs /\ idx \in Nat
    BY DEF NestInv, VisitTypes, Owner, Call
  <2>2. links[call.start] \in Seq(Link)
    BY <2>1, GraphAssumption
  <2> QED
    BY <2>1, <2>2 DEF TraverseFrames
<1>3. changes = 0 => idx >= Len(links[call.start])
  <2>1. changes = 0 => Len(links[call.start]) <= Len(tables[Outermost])
    BY TableIsWhole
  <2> QED
    BY <1>1, <1>2, <2>1
<1> QED
  BY <1>1, <1>3 DEF StartsBeyond

\* A crash has had its reason.
CrashInv == phase = "crashed" => StartsBeyond

\* Only VisitCrashes crashes.
LEMMA CrashNext ==
  ASSUME NestInv, ExactInv, CrashInv, [VisitNext]_visitVars
  PROVE  CrashInv'
<1>1. ASSUME NEW c \in Call, NEW i \in 0 .. Len(CrtTime), Start(c, i) PROVE phase' # "crashed"
  BY <1>1 DEF Start
<1>2. CASE VisitCrashes
  <2>1. Stray /\ phase = "traverse" /\ UNCHANGED <<links, call, idx, changes>>
    BY <1>2 DEF VisitCrashes, Stray, graph
  <2>2. Top \in TraverseFrames /\ Astray(Top) /\ Top.i > Len(tables[Top.own])
    BY <2>1, TraversingIs DEF Stray
  <2>3. StartsBeyond
    BY <2>1, <2>2, AstrayBeyond
  <2> QED
    BY <2>1, <2>3 DEF CrashInv, StartsBeyond
<1>3. CASE Connector /\ ~VisitCrashes
  <2>1. CASE FirstAnswer \/ FirstRequestFails \/ AddLink \/ Descend \/ BuildFails
    BY <2>1 DEF FirstAnswer, FirstRequestFails, AddLink, Descend, BuildFails, Building, CrashInv
  <2>2. CASE TableBuilt
    BY <2>2 DEF TableBuilt, CrashInv
  <2>3. CASE PassOver
    BY <2>3 DEF PassOver, Proceed, Traversing, CrashInv
  <2>4. CASE TableDone
    BY <2>4 DEF TableDone, ActivationEnds, CrashInv
  <2>5. ASSUME NEW r \in {-1, 0, 1}, StartObject(r) PROVE phase' # "crashed"
    BY <2>5 DEF StartObject
  <2>6. ASSUME NEW r \in {-1, 0, 1}, Callback(r) PROVE phase' # "crashed"
    <3>1. CASE r = 0
      BY <2>6, <3>1 DEF Callback, Traversing, Proceed
    <3>2. CASE r = 1
      BY <2>6, <3>2 DEF Callback, Traversing, ActivationEnds
    <3>3. CASE r = -1
      BY <2>6, <3>3 DEF Callback
    <3> QED
      BY <3>1, <3>2, <3>3
  <2>7. ASSUME NEW r \in {-1, 0, 1}, CallbackStray(r) PROVE phase' # "crashed"
    <3>1. CASE r = 0
      BY <2>7, <3>1 DEF CallbackStray, Stray
    <3>2. CASE r = 1
      BY <2>7, <3>2 DEF CallbackStray, Stray, ActivationEnds
    <3>3. CASE r = -1
      BY <2>7, <3>3 DEF CallbackStray
    <3> QED
      BY <3>1, <3>2, <3>3
  <2> QED
    BY <1>3, <2>1, <2>2, <2>3, <2>4, <2>5, <2>6, <2>7 DEF Connector, CrashInv
<1>4. ASSUME NEW g \in Group, OtherClient(g) PROVE CrashInv'
  <2>1. changes' # 0
    BY <1>4 DEF OtherClient, NestInv, VisitTypes
  <2> QED
    BY <1>4, <2>1 DEF OtherClient, CrashInv, StartsBeyond
<1>5. CASE UNCHANGED visitVars
  BY <1>5 DEF visitVars, CrashInv, StartsBeyond
<1> QED
  BY <1>1, <1>2, <1>3, <1>4, <1>5 DEF VisitNext, CrashInv

LEMMA InvIsSound ==
  ASSUME NestInv, ExactInv, CrashInv
  PROVE  RecursionSound
<1>1. VisitTypeOK
  BY DEF NestInv, VisitTypes, VisitTypeOK
<1>2. DepthIsNesting
  BY DEF NestInv, Deep, DepthIsNesting
<1>3. StraysByIndex
  <2>1. ASSUME phase = "traverse", NEW f \in ToSet(stack)
        PROVE  \/ f.over \/ f.i \in 1 .. Len(tables[f.own])
               \/ f.own = Outermost /\ f.i \in 1 .. idx + 1 /\ StartsBeyond
    <3>1. stack \in Seq(TraverseFrames)
      BY <2>1, TraversingIs
    <3>2. PICK j \in 1 .. Len(stack) : f = stack[j]
      BY <3>1 DEF ToSet
    <3>3. f \in TraverseFrames /\ f.i >= 1 /\ (f.over \/ f.i \in DOMAIN tables[f.own] \/ Astray(f))
      BY <2>1, <3>1, <3>2 DEF NestInv, Traverses
    <3>4. f.own \in Owner /\ f.i \in Nat /\ idx \in Nat
      BY <3>3 DEF TraverseFrames, NestInv, VisitTypes
    <3>5. tables[f.own] \in Seq(TableEntry)
      BY <3>4 DEF NestInv, VisitTypes
    <3>6. Len(tables[f.own]) \in Nat /\ DOMAIN tables[f.own] = 1 .. Len(tables[f.own])
      BY <3>5
    <3>7. CASE f.over \/ f.i \in DOMAIN tables[f.own]
      BY <3>6, <3>7
    <3>8. CASE Astray(f) /\ f.i \notin DOMAIN tables[f.own]
      <4>1. f.i > Len(tables[f.own])
        BY <3>3, <3>4, <3>6, <3>8
      <4>2. f.own = Outermost /\ f.i <= idx + 1
        BY <3>8 DEF Astray
      <4>3. f.i \in 1 .. idx + 1
        BY <3>3, <3>4, <4>2
      <4> QED
        BY <2>1, <3>3, <3>8, <4>1, <4>2, <4>3, AstrayBeyond
    <3> QED
      BY <3>3, <3>7, <3>8
  <2> QED
    BY <2>1 DEF StraysByIndex, CrashInv
<1> QED
  BY <1>1, <1>2, <1>3, Bounded DEF RecursionSound

\* RV_traverse_link_table and RV_traverse_object_table recurse no deeper than there are groups,
\* their static depth tells how deep they are, and they read no entry outside a table, unless
\* the application has given an iteration in decreasing order an index that is not the index of
\* a link in what the server answers: only then can they begin beyond the table.
THEOREM RecursionIsSound == VisitSpec => []RecursionSound
<1>1. VisitInit => CrashInv
  BY DEF VisitInit, CrashInv
<1>2. NestInv /\ ExactInv /\ CrashInv /\ [VisitNext]_visitVars => CrashInv'
  BY CrashNext
<1>3. NestInv /\ ExactInv /\ CrashInv => RecursionSound
  BY InvIsSound
<1> QED
  BY <1>1, <1>2, <1>3, VisitInvariance, ReportsInvariance, PTL DEF VisitSpec
=============================================================================
