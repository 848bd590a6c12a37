----------------------------- MODULE RVObjects -----------------------------
(***************************************************************************)
(* The in-memory objects of the REST VOL connector: the RV_object_t that   *)
(* each open, create and close call of files, groups, datasets, committed  *)
(* datatypes and attributes allocates or frees, the reference count by     *)
(* which objects keep their file struct ("domain") alive, the tables of    *)
(* RV_type_info_array_g, and the dataspace that views of one dataset share.*)
(*                                                                         *)
(* The server is the environment: it says which objects exist, in which    *)
(* file each really lives, and what extent a dataset has.                  *)
(***************************************************************************)
EXTENDS Naturals, FiniteSets

CONSTANTS
  Handle,    \* RV_object_t structs of everything but files
  Slot,      \* RV_object_t structs of files
  Space,     \* dataspace ids
  File,      \* domain paths
  Uri,       \* object ids given by the server
  Kind,      \* what each Uri is: "group", "datatype" or "dataset"
  Home,      \* the domain in which each Uri lives
  MaxExtent, \* bound of a dataset's extent
  AttrKey,   \* the empty URI, under which every attribute is registered
  AppFile,   \* the application's file id, as a user of a file struct
  None

ASSUME HandleAssumption == IsFiniteSet(Handle) /\ AppFile \notin Handle
ASSUME UriAssumption    == /\ Kind \in [Uri -> {"group", "datatype", "dataset"}]
                           /\ Home \in [Uri -> File]
                           /\ AttrKey \notin Uri
ASSUME ExtentAssumption == MaxExtent \in Nat
ASSUME NoneAssumption   == /\ None \notin Handle \cup Slot \cup Space \cup File
                           /\ None \notin Uri \cup {AttrKey}

VARIABLES
  refs,         \* u.file.ref_count of each file struct; 0 when it is not allocated
  file,         \* u.file.filepath_name
  writable,     \* u.file.intent & H5F_ACC_RDWR
  held,         \* file structs the application has a file id of
  uri,          \* URI of each open object
  domain,       \* domain of each open object
  space,        \* u.dataset.space_id
  registry,     \* the tables of RV_type_info_array_g, one entry per key
  spaceRefs,    \* reference count of each dataspace id
  spaceExtent,  \* the extent it describes
  exists,       \* the server's objects
  extent        \* the server's extent of each dataset

vars == <<refs, file, writable, held, uri, domain, space, registry, spaceRefs,
          spaceExtent, exists, extent>>

domains == <<refs, file, writable>>
views   == <<space, spaceRefs, spaceExtent>>
server  == <<exists, extent>>

RegistryKey == Uri \cup {AttrKey}
Dataset == {u \in Uri : Kind[u] = "dataset"}
Extent  == 0 .. MaxExtent

IsOpen(h) == domain[h] # None

\* Who keeps a file struct allocated.
Users(d) == {h \in Handle : domain[h] = d} \cup {x \in {AppFile} : d \in held}

\* Only files and groups can be the location of an open or create call; an
\* attribute's location may be anything but an attribute.
Location(d)     == \/ d \in held
                   \/ \E p \in Handle : /\ domain[p] = d
                                        /\ uri[p] \in Uri
                                        /\ Kind[uri[p]] = "group"
AttrLocation(d) == \/ d \in held
                   \/ \E p \in Handle : domain[p] = d /\ uri[p] \in Uri

TypeOK ==
  /\ refs \in [Slot -> Nat]
  /\ file \in [Slot -> File \cup {None}]
  /\ writable \in [Slot -> BOOLEAN]
  /\ held \subseteq Slot
  /\ uri \in [Handle -> RegistryKey \cup {None}]
  /\ domain \in [Handle -> Slot \cup {None}]
  /\ space \in [Handle -> Space \cup {None}]
  /\ registry \in [RegistryKey -> Handle \cup {None}]
  /\ spaceRefs \in [Space -> Nat]
  /\ spaceExtent \in [Space -> Extent]
  /\ exists \subseteq Uri
  /\ extent \in [Dataset -> Extent]

Init ==
  /\ refs = [d \in Slot |-> 0]
  /\ file = [d \in Slot |-> None]
  /\ writable = [d \in Slot |-> FALSE]
  /\ held = {}
  /\ uri = [h \in Handle |-> None]
  /\ domain = [h \in Handle |-> None]
  /\ space = [h \in Handle |-> None]
  /\ registry = [k \in RegistryKey |-> None]
  /\ spaceRefs = [s \in Space |-> 0]
  /\ spaceExtent = [s \in Space |-> 0]
  /\ exists \in SUBSET Uri
  /\ extent = [u \in Dataset |-> 0]

-----------------------------------------------------------------------------
(* Steps that the handlers share. *)

\* RV_malloc of a file struct for path f, with a reference count of 1.
Allocate(d, f, w) ==
  /\ refs[d] = 0
  /\ refs' = [refs EXCEPT ![d] = 1]
  /\ file' = [file EXCEPT ![d] = f]
  /\ writable' = [writable EXCEPT ![d] = w]

\* parent->domain->u.file.ref_count++
Acquire(d) ==
  /\ refs' = [refs EXCEPT ![d] = @ + 1]
  /\ UNCHANGED <<file, writable>>

\* RV_file_close: the struct goes with the last reference.
Drop(d) ==
  /\ refs' = [refs EXCEPT ![d] = @ - 1]
  /\ file' = IF refs[d] = 1 THEN [file EXCEPT ![d] = None] ELSE file
  /\ writable' = IF refs[d] = 1 THEN [writable EXCEPT ![d] = FALSE] ELSE writable

\* A new object k in struct d.
Bind(h, k, d) ==
  /\ domain[h] = None
  /\ domain' = [domain EXCEPT ![h] = d]
  /\ uri' = [uri EXCEPT ![h] = k]

\* rv_hash_table_insert overwrites an entry that has the same key.
Register(k, h) == registry' = [registry EXCEPT ![k] = h]

\* rv_hash_table_remove: by key, whoever the entry belongs to.
Unregister(k) == registry' = [registry EXCEPT ![k] = None]

\* A dataspace of the object's own, with extent n.
OwnSpace(h, n) ==
  \E s \in Space :
    /\ spaceRefs[s] = 0
    /\ space' = [space EXCEPT ![h] = s]
    /\ spaceRefs' = [spaceRefs EXCEPT ![s] = 1]
    /\ spaceExtent' = [spaceExtent EXCEPT ![s] = n]

\* Mutant: the H5Iinc_ref is forgotten.
ShareSpace_NoIncRef(h, other) ==
  /\ space' = [space EXCEPT ![h] = space[other]]
  /\ UNCHANGED <<spaceRefs, spaceExtent>>

\* H5Iinc_ref of the dataspace of another object.
ShareSpace(h, other) ==
  /\ space' = [space EXCEPT ![h] = space[other]]
  /\ spaceRefs' = [spaceRefs EXCEPT ![space[other]] = @ + 1]
  /\ UNCHANGED spaceExtent

\* The dataspace an opened object gets: that of the view of the dataset the
\* table names, or one made from the server's answer.
OpenedSpace(h, u) ==
  IF u \notin Dataset THEN UNCHANGED views
  ELSE IF registry[u] # None THEN ShareSpace(h, registry[u])
  ELSE OwnSpace(h, extent[u])

-----------------------------------------------------------------------------
(* Files. *)

\* Always a struct of its own, also for a file that is open already.
FileOpen(d, f, w) ==
  /\ Allocate(d, f, w)
  /\ held' = held \cup {d}
  /\ UNCHANGED <<uri, domain, registry, views, server>>

FileClose(d) ==
  /\ d \in held
  /\ Drop(d)
  /\ held' = held \ {d}
  /\ UNCHANGED <<uri, domain, registry, views, server>>

-----------------------------------------------------------------------------
(* Groups, datasets and committed datatypes. *)

\* The object is new on the server, and so is its struct.
Create(d, h, u, n) ==
  /\ Location(d)
  /\ writable[d]
  /\ u \notin exists
  /\ Home[u] = file[d]
  /\ Acquire(d)
  /\ Bind(h, u, d)
  /\ Register(u, h)
  /\ exists' = exists \cup {u}
  /\ IF u \in Dataset
     THEN OwnSpace(h, n) /\ extent' = [extent EXCEPT ![u] = n]
     ELSE UNCHANGED <<views, extent>>
  /\ UNCHANGED held

\* The server created the object, but the call fails: its answer is lost or
\* unusable, and the handler's close takes the reference back.
CreateFails(d, u, n) ==
  /\ Location(d)
  /\ writable[d]
  /\ u \notin exists
  /\ Home[u] = file[d]
  /\ exists' = exists \cup {u}
  /\ extent' = IF u \in Dataset THEN [extent EXCEPT ![u] = n] ELSE extent
  /\ Unregister(u)
  /\ UNCHANGED <<domains, held, uri, domain, views>>

\* Mutant: an object of another file keeps the location's domain.
OpenHere_KeepsDomain(d, h, u) ==
  /\ Location(d)
  /\ u \in exists
  /\ Acquire(d)
  /\ Bind(h, u, d)
  /\ OpenedSpace(h, u)
  /\ Register(u, h)
  /\ UNCHANGED <<held, server>>

\* The path leads to an object within the location's file.
OpenHere(d, h, u) ==
  /\ Location(d)
  /\ u \in exists
  /\ Home[u] = file[d]
  /\ Acquire(d)
  /\ Bind(h, u, d)
  /\ OpenedSpace(h, u)
  /\ Register(u, h)
  /\ UNCHANGED <<held, server>>

\* Mutant: the reference on the location's struct is not given back.
OpenExternal_KeepsRef(d, e, h, u) ==
  /\ Location(d)
  /\ u \in exists
  /\ Home[u] # file[d]
  /\ refs[e] = 0
  /\ refs' = [refs EXCEPT ![e] = 1, ![d] = @ + 1]
  /\ file' = [file EXCEPT ![e] = Home[u]]
  /\ writable' = [writable EXCEPT ![e] = writable[d]]
  /\ Bind(h, u, e)
  /\ OpenedSpace(h, u)
  /\ Register(u, h)
  /\ UNCHANGED <<held, server>>

\* The same when an external link leads to another file:
\* RV_copy_object_loc_info_callback allocates a struct e for that file and
\* gives back the reference the handler took on d.
OpenExternal(d, e, h, u) ==
  /\ Location(d)
  /\ u \in exists
  /\ Home[u] # file[d]
  /\ Allocate(e, Home[u], writable[d])
  /\ Bind(h, u, e)
  /\ OpenedSpace(h, u)
  /\ Register(u, h)
  /\ UNCHANGED <<held, server>>

\* Mutant: the cleanup gives back a reference that was not taken yet.
OpenFails_DropsTwice(d, u) ==
  /\ Location(d)
  /\ u \in exists
  /\ Drop(d)
  /\ Unregister(u)
  /\ UNCHANGED <<held, uri, domain, views, server>>

\* An open call that fails once it knows the URI (a datatype or a property list
\* it cannot decode): the handler's close undoes what it counted, and removes
\* the table entry of that URI.
OpenFails(d, u) ==
  /\ Location(d)
  /\ u \in exists
  /\ Unregister(u)
  /\ UNCHANGED <<domains, held, uri, domain, views, server>>

\* Mutant: the table entry stays.
Close_KeepsEntry(h) ==
  /\ IsOpen(h)
  /\ Drop(domain[h])
  /\ domain' = [domain EXCEPT ![h] = None]
  /\ uri' = [uri EXCEPT ![h] = None]
  /\ space' = [space EXCEPT ![h] = None]
  /\ IF space[h] = None
     THEN UNCHANGED <<spaceRefs, spaceExtent>>
     ELSE /\ spaceRefs' = [spaceRefs EXCEPT ![space[h]] = @ - 1]
          /\ spaceExtent' = IF spaceRefs[space[h]] = 1
                            THEN [spaceExtent EXCEPT ![space[h]] = 0] ELSE spaceExtent
  /\ UNCHANGED <<registry, held, server>>

\* The struct goes, its dataspace loses a user, and so does the file.
Close(h) ==
  /\ IsOpen(h)
  /\ Drop(domain[h])
  /\ Unregister(uri[h])
  /\ domain' = [domain EXCEPT ![h] = None]
  /\ uri' = [uri EXCEPT ![h] = None]
  /\ space' = [space EXCEPT ![h] = None]
  /\ IF space[h] = None
     THEN UNCHANGED <<spaceRefs, spaceExtent>>
     ELSE /\ spaceRefs' = [spaceRefs EXCEPT ![space[h]] = @ - 1]
          /\ spaceExtent' = IF spaceRefs[space[h]] = 1
                            THEN [spaceExtent EXCEPT ![space[h]] = 0] ELSE spaceExtent
  /\ UNCHANGED <<held, server>>

-----------------------------------------------------------------------------
(* Attributes: external links do not lead to them, and their URI stays empty. *)

\* Mutant: the attribute does not count as a user of its file.
AttrOpen_NoRef(d, h) ==
  /\ AttrLocation(d)
  /\ Bind(h, AttrKey, d)
  /\ Register(AttrKey, h)
  /\ UNCHANGED <<domains, held, views, server>>

AttrOpen(d, h) ==
  /\ AttrLocation(d)
  /\ Acquire(d)
  /\ Bind(h, AttrKey, d)
  /\ Register(AttrKey, h)
  /\ UNCHANGED <<held, views, server>>

AttrFails(d) ==
  /\ AttrLocation(d)
  /\ Unregister(AttrKey)
  /\ UNCHANGED <<domains, held, uri, domain, views, server>>

-----------------------------------------------------------------------------
(* Iteration and resizing. *)

\* H5Aiterate and H5Ovisit hand the user's callback a copy of the struct of the
\* object itself: it counts as a user but is in no table.
CopyForCallback(h, c) ==
  /\ IsOpen(h)
  /\ uri[h] \in Uri
  /\ Acquire(domain[h])
  /\ Bind(c, uri[h], domain[h])
  /\ IF uri[h] \in Dataset THEN ShareSpace(c, h) ELSE UNCHANGED views
  /\ UNCHANGED <<held, registry, server>>

\* RV_dataset_specific, H5VL_DATASET_SET_EXTENT: the server first, then the
\* local dataspace.
SetExtent(h, n) ==
  /\ IsOpen(h)
  /\ uri[h] \in Dataset
  /\ writable[domain[h]]
  /\ extent' = [extent EXCEPT ![uri[h]] = n]
  /\ spaceExtent' = [spaceExtent EXCEPT ![space[h]] = n]
  /\ UNCHANGED <<domains, held, uri, domain, space, spaceRefs, registry, exists>>

\* The call fails after the server carried it out.
SetExtentFails(h, n) ==
  /\ IsOpen(h)
  /\ uri[h] \in Dataset
  /\ writable[domain[h]]
  /\ extent' = [extent EXCEPT ![uri[h]] = n]
  /\ UNCHANGED <<domains, held, uri, domain, views, registry, exists>>

-----------------------------------------------------------------------------
(* The handlers, by what they do to the objects. *)

RV_file_create(f)   == \E d \in Slot : FileOpen(d, f, TRUE)
RV_file_open(f, w)  == \E d \in Slot : FileOpen(d, f, w)
RV_file_specific(o) == o \in held /\ RV_file_open(file[o], writable[o])   \* H5Freopen

\* With extent n if it is a dataset.
Created(d, u, n)          == CreateFails(d, u, n) \/ \E h \in Handle : Create(d, h, u, n)
RV_group_create(d, u)     == Kind[u] = "group" /\ Created(d, u, 0)
RV_datatype_commit(d, u)  == Kind[u] = "datatype" /\ Created(d, u, 0)
RV_dataset_create(d, u, n) == Kind[u] = "dataset" /\ Created(d, u, n)

Opened(d, u) == \/ OpenFails(d, u)
                \/ \E h \in Handle : \/ OpenHere(d, h, u)
                                     \/ \E e \in Slot : OpenExternal(d, e, h, u)
RV_group_open(d, u)    == Kind[u] = "group" /\ Opened(d, u)
RV_dataset_open(d, u)  == Kind[u] = "dataset" /\ Opened(d, u)
RV_datatype_open(d, u) == Kind[u] = "datatype" /\ Opened(d, u)

\* H5Oopen asks the server for the type first, and calls one of the three.
RV_object_open(d, u) == RV_group_open(d, u) \/ RV_dataset_open(d, u) \/ RV_datatype_open(d, u)

RV_attr_open(d)   == AttrFails(d) \/ \E h \in Handle : AttrOpen(d, h)
RV_attr_create(d) == writable[d] /\ RV_attr_open(d)

RV_group_close(h)    == uri[h] \in Uri /\ Kind[uri[h]] = "group" /\ Close(h)
RV_dataset_close(h)  == uri[h] \in Dataset /\ Close(h)
RV_datatype_close(h) == uri[h] \in Uri /\ Kind[uri[h]] = "datatype" /\ Close(h)
RV_attr_close(h)     == uri[h] = AttrKey /\ Close(h)

RV_attr_specific(h)       == \E c \in Handle : CopyForCallback(h, c)   \* H5Aiterate
RV_object_specific(h)     == \E c \in Handle : CopyForCallback(h, c)   \* H5Ovisit
RV_dataset_specific(h, n) == SetExtent(h, n) \/ SetExtentFails(h, n)

FileStep ==
  \/ \E f \in File : RV_file_create(f) \/ \E w \in BOOLEAN : RV_file_open(f, w)
  \/ \E d \in Slot : RV_file_specific(d) \/ FileClose(d)

ObjectStep == \E d \in Slot, u \in Uri :
  \/ RV_group_create(d, u)
  \/ RV_datatype_commit(d, u)
  \/ \E n \in Extent : RV_dataset_create(d, u, n)
  \/ RV_object_open(d, u)

AttrStep == \E d \in Slot : RV_attr_create(d) \/ RV_attr_open(d)

HandleStep == \E h \in Handle :
  \/ RV_group_close(h) \/ RV_dataset_close(h) \/ RV_datatype_close(h) \/ RV_attr_close(h)
  \/ RV_attr_specific(h) \/ RV_object_specific(h)
  \/ \E n \in Extent : RV_dataset_specific(h, n)

Next == FileStep \/ ObjectStep \/ AttrStep \/ HandleStep

Spec == Init /\ [][Next]_vars

-----------------------------------------------------------------------------
(* Safety. *)

\* The reference count of a file struct is the number of objects and file ids
\* that point to it, whatever the order of opens, external links, failed calls
\* and closes: no object outlives its file struct, and no struct leaks.
DomainCounts == \A d \in Slot : refs[d] = Cardinality(Users(d))

\* A dataspace id is closed exactly with the last dataset view that uses it,
\* and is shared by views of one dataset only: resizing one dataset never
\* changes the extent of another.
SpaceCounts ==
  /\ \A s \in Space : spaceRefs[s] = Cardinality({h \in Handle : space[h] = s})
  /\ \A h \in Handle : space[h] # None <=> IsOpen(h) /\ uri[h] \in Dataset
  /\ \A g, h \in Handle : space[g] = space[h] /\ space[g] # None => uri[g] = uri[h]

\* What RV_dataset_open finds in the table is an open object with the URI it
\* looked up, never a struct that was freed.
RegistryLive ==
  \A k \in RegistryKey : registry[k] # None => IsOpen(registry[k]) /\ uri[registry[k]] = k

\* An object's struct names the file the object lives in, also when it was
\* reached through external links of several files, and for as long as it is open.
RightDomain ==
  \A h \in Handle : IsOpen(h) /\ uri[h] \in Uri => file[domain[h]] = Home[uri[h]]

-----------------------------------------------------------------------------
(* The file structs live and die as RVLifetime says. *)

Lifetime == INSTANCE RVLifetime
              WITH User  <- Handle \cup {AppFile},
                   alive <- {d \in Slot : refs[d] > 0},
                   users <- [d \in Slot |-> Users(d)]

\* No file struct is freed under an object that uses it, and none outlives its
\* last user (RV_file_close and every handler that counts references).
LifetimeSpec == Lifetime!Spec
=============================================================================
