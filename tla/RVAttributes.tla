----------------------------- MODULE RVAttributes -----------------------------
(***************************************************************************)
(* Operations on the attributes of an object: RV_attr_specific (delete,    *)
(* delete by index, exists, iterate, rename) and RV_attr_get (info and     *)
(* name).  Most take several requests, any of which the server may refuse, *)
(* and between which other clients change attributes and links.  The       *)
(* object is the one the call is made at, or is found by a path.           *)
(***************************************************************************)
EXTENDS Integers, FiniteSets, SequencesExt

CONSTANTS Object, Root,
          TypeOf,       \* "group", "dataset" or "datatype"; the file's handle is to Root
          NameOrder,    \* the attribute names in increasing order
          Value,
          Empty,        \* what an attribute holds that was created and not written
          ErrorPage,    \* the text of an answer that is an error
          Nothing,
          AttrStates,   \* the attributes the objects may have at first
          MaxChanges

VARIABLES
  attrs,       \* at the server: the attributes of each object in creation order
  linked,      \* the object the application's path leads to, or Nothing
  rdwr,        \* the file was opened for writing
  call, pc,    \* the call, and where it is in it
  at,          \* the object whose URI the requests carry
  parent,      \* the object opened by the call, if any
  type,        \* parent_obj_type
  name,        \* the attribute found by index
  buf,         \* the value read
  refs,        \* the file's reference count
  open,        \* the structs the call has opened, each with a reference to the file
  copy,        \* the reference count in the copy of the file's struct, 0 if there is none
  registered,  \* the file is in the registry of open objects
  table, pos, seen,  \* the attribute table, the index in it, the names reported
  ret, value,
  before,      \* history: the attributes when the call began
  refs0,       \* history: the reference count then
  named,       \* history: the attributes the arguments have named since then
  strayed,     \* history: an answer was not what the call took it for
  relinked, changes

server == <<attrs, linked>>
history == <<before, refs0, named, relinked, changes>>
file == <<refs, copy, registered>>
vars == <<server, rdwr, call, pc, at, parent, type, name, buf, file, open, table,
          pos, seen, ret, value, strayed, history>>

Name == Range(NameOrder)
Attr(n, v) == [name |-> n, val |-> v]
Has(as, o, n) == \E i \in DOMAIN as[o] : as[o][i].name = n
Position(as, o, n) == CHOOSE i \in DOMAIN as[o] : as[o][i].name = n
ValueOf(as, o, n) == as[o][Position(as, o, n)].val
Without(as, o, n) ==
  IF Has(as, o, n) THEN [as EXCEPT ![o] = RemoveAt(@, Position(as, o, n))] ELSE as
Written(as, o, n, v) ==
  [as EXCEPT ![o] = [i \in DOMAIN @ |-> IF @[i].name = n THEN Attr(n, v) ELSE @[i]]]

ASSUME ObjectAssumption ==
  /\ Root \in Object /\ Nothing \notin Object
  /\ TypeOf \in [Object -> {"group", "dataset", "datatype"}]
  /\ NameOrder \in Seq(Name) /\ NameOrder # <<>> /\ IsInjective(NameOrder)

\* The attributes of an object have different names.
ASSUME AttrStatesAssumption ==
  \A as \in AttrStates :
    /\ as \in [Object -> Seq([name : Name, val : Value])]
    /\ \A o \in Object : \A i, j \in DOMAIN as[o] : as[o][i].name = as[o][j].name => i = j

\* The k-th smallest of a set of numbers.
Nth(S, k) == CHOOSE i \in S : Cardinality({j \in S : j <= i}) = k

\* The names as the server lists them: in creation order, or else in increasing order.
Listed(as, o, crt) ==
  IF crt THEN [i \in DOMAIN as[o] |-> as[o][i].name]
  ELSE LET given == {i \in DOMAIN NameOrder : Has(as, o, NameOrder[i])}
       IN [k \in 1..Cardinality(given) |-> NameOrder[Nth(given, k)]]

Op == {"delete", "delete_by_idx", "exists", "get_info", "info_by_idx", "get_name",
       "iterate", "rename"}
ByIdx == {"delete_by_idx", "info_by_idx", "get_name"}
NoIdx == -1

Call == [op : Op, loc : Object, file : BOOLEAN, path : BOOLEAN, old : Name, new : Name,
         idx : {NoIdx} \cup 0..Len(NameOrder), crt : BOOLEAN, dec : BOOLEAN]

\* The attributes that the arguments of call c name when the server has as and ln.
Named(c, as, ln) ==
  LET o == IF c.path THEN ln ELSE c.loc
      s == Listed(as, o, c.crt)
  IN CASE o = Nothing -> {}
       [] c.op \in ByIdx /\ o # Nothing ->
            IF c.idx >= Len(s) THEN {}
            ELSE {<<o, IF c.dec THEN s[Len(s) - c.idx] ELSE s[c.idx + 1]>>}
       [] OTHER -> {<<o, c.old>>, <<o, c.new>>}

Init ==
  /\ attrs \in AttrStates
  /\ linked \in Object \cup {Nothing}
  /\ rdwr \in BOOLEAN
  /\ call = [op |-> "exists", loc |-> Root, file |-> FALSE, path |-> FALSE,
              old |-> NameOrder[1], new |-> NameOrder[1], idx |-> NoIdx,
              crt |-> FALSE, dec |-> FALSE]
  /\ pc = "idle"
  /\ at = Nothing /\ parent = Nothing /\ type = "uninit" /\ name = NameOrder[1]
  /\ buf = Empty
  /\ refs \in {1, 2} /\ open = {} /\ copy = 0 /\ registered = TRUE
  /\ table = <<>> /\ pos = 0 /\ seen = <<>>
  /\ ret = "none" /\ value = "none" /\ strayed = FALSE
  /\ before = attrs /\ refs0 = refs /\ named = {} /\ relinked = FALSE /\ changes = 0

-----------------------------------------------------------------------------
\* What the switch on the operation makes of an object that is known or found.
Stage(c) ==
  CASE c.op = "delete" -> "delete"
    [] c.op = "exists" -> "exists"
    [] c.op = "get_info" -> "info"
    [] c.op \in ByIdx -> "list"
    [] c.op = "iterate" -> IF c.path THEN "open_parent" ELSE "copy"
    [] c.op = "rename" -> IF c.path THEN "open_parent" ELSE "open"

\* H5Adelete looks at the file's intent before it looks the object up, H5Arename when it
\* creates the new attribute, H5Adelete_by_idx not at all.
Start(c) ==
  /\ pc = "idle"
  /\ c.file => c.loc = Root /\ ~c.path /\ c.op = "iterate"
  /\ IF c.path THEN c.loc = Root ELSE linked = Nothing   \* the other one does not matter
  /\ c.op \in ByIdx => c.path /\ c.idx # NoIdx
  /\ c.op \notin ByIdx \cup {"iterate"} => c.idx = NoIdx /\ ~c.crt /\ ~c.dec
  /\ c.op = "get_info" /\ ~c.path => Has(attrs, c.loc, c.old)   \* the call is made at it
  /\ c.op \in ByIdx \cup {"iterate"} => c.old = NameOrder[1]
  /\ c.op = "rename" <=> c.new # c.old
  /\ call' = c
  /\ before' = attrs /\ refs0' = refs
  /\ named' = Named(c, attrs, linked) /\ relinked' = FALSE
  /\ name' = c.old
  /\ IF c.op = "delete" /\ ~rdwr THEN pc' = "returned" /\ ret' = "fail" /\ UNCHANGED <<at, type>>
     ELSE /\ pc' = IF c.path THEN "lookup" ELSE Stage(c)
          /\ at' = IF c.path THEN Nothing ELSE c.loc
          /\ type' = IF c.path THEN "uninit" ELSE IF c.file THEN "file" ELSE TypeOf[c.loc]
          /\ UNCHANGED ret
  /\ UNCHANGED <<server, rdwr, parent, buf, file, open, table, pos, seen, value, strayed, changes>>

\* The end of RV_attr_specific: the object handed to callbacks is closed by its type, and
\* so are the attributes and the parent of a rename.  The datatype's case goes on into the
\* default one, which fails.  Closing the copy of a file lowers the copied reference count,
\* and frees the copy and unregisters the file when none is left.
Status_DatasetFallsThrough(r) ==
  IF call.op = "rename" /\ "parent" \in open /\ type \in {"dataset", "datatype"} THEN "fail" ELSE r

Status(r) ==
  IF call.op = "rename" /\ "parent" \in open /\ type = "datatype" THEN "fail" ELSE r

Closed_Attrs == {"attr", "renamed"} \cap open

Closed == open

\* Closing the copy of a file's struct.
LastCopy_Always == copy > 0

LastCopy == copy = 1

Finish(r, v) ==
  /\ pc' = "returned" /\ ret' = Status(r) /\ value' = v
  /\ refs' = refs - Cardinality(Closed) /\ open' = open \ Closed
  /\ copy' = IF copy > 0 THEN copy - 1 ELSE 0
  /\ registered' = (registered /\ ~LastCopy)
  /\ UNCHANGED <<rdwr, call, at, parent, type, name, buf, table, pos, history>>

\* A request of its own stage: pc goes on to s.
GoOn(s) == /\ pc' = s
           /\ UNCHANGED <<rdwr, call, parent, table, pos, seen, ret, value, history>>

Lookup ==
  /\ pc = "lookup" /\ linked # Nothing
  /\ at' = linked /\ type' = TypeOf[linked]
  /\ GoOn(Stage(call))
  /\ UNCHANGED <<server, name, buf, file, open, strayed>>

\* A request the server refuses, or that never gets an answer, and a path that leads
\* nowhere.  Where the answer's code is not looked at, its text has not what is needed.
Requests == {"lookup", "lookup_again", "list", "delete", "exists", "open_parent", "open",
             "create", "read", "write", "delete_old", "iter_list", "info"}

RequestFails_AsksAgain == pc \in Requests /\ UNCHANGED vars

RequestFails ==
  /\ pc \in Requests
  /\ Finish("fail", "none")
  /\ UNCHANGED <<server, seen, strayed>>

-----------------------------------------------------------------------------
\* H5Adelete, and the last step of the others that delete.
Deletable == Has(attrs, at, name)

Delete ==
  /\ pc \in {"delete", "delete_old"} /\ Deletable
  /\ attrs' = Without(attrs, at, name)
  /\ Finish("ok", "none")
  /\ UNCHANGED <<linked, seen, strayed>>

\* RV_copy_attribute_name_by_index.  The index is compared with the number of names while
\* it is still 0; beyond the names the array is read all the same, which crashes the
\* program, finds no name or finds something that is taken for one.
NameAt_Forward(s) == s[call.idx + 1]

NameAt(s) == IF call.dec THEN s[Len(s) - call.idx] ELSE s[call.idx + 1]

GotName(n) ==
  IF call.op = "get_name" THEN name' = n /\ pc' = "returned" /\ ret' = "ok" /\ value' = n
                               /\ UNCHANGED <<rdwr, call, at, parent, table, pos, seen, history>>
  ELSE /\ name' = n /\ UNCHANGED at
       /\ GoOn(IF call.op = "delete_by_idx" THEN "lookup_again" ELSE "info")

List ==
  /\ pc = "list"
  /\ LET s == Listed(attrs, at, call.crt)
     IN /\ s # <<>>
        /\ \/ call.idx < Len(s) /\ GotName(NameAt(s)) /\ UNCHANGED strayed
           \/ call.idx >= Len(s) /\ strayed' = TRUE /\ \E n \in Name : GotName(n)
  /\ UNCHANGED <<server, type, buf, file, open>>

ListCrashes ==
  /\ pc = "list"
  /\ Listed(attrs, at, call.crt) # <<>> /\ call.idx >= Len(Listed(attrs, at, call.crt))
  /\ pc' = "crashed"
  /\ UNCHANGED <<server, rdwr, call, at, parent, type, name, buf, file, open, table, pos,
                 seen, ret, value, strayed, history>>

LookupAgain_Unfound ==
  /\ pc = "lookup_again"
  /\ at' = linked
  /\ GoOn("delete")
  /\ UNCHANGED <<server, type, name, buf, file, open, strayed>>

\* Deletion by index looks the object up again once it has the name; where the path leads
\* nowhere the type is not set, and no request can be made.
LookupAgain ==
  /\ pc = "lookup_again" /\ linked # Nothing
  /\ at' = linked /\ type' = TypeOf[linked]
  /\ GoOn("delete")
  /\ UNCHANGED <<server, name, buf, file, open, strayed>>

\* Any error of the client (4xx) means that there is no such attribute.
Exists_AnyAnswer ==
  /\ pc = "exists"
  /\ Finish("ok", TRUE)
  /\ UNCHANGED <<server, seen, strayed>>

Exists ==
  /\ pc = "exists"
  /\ Finish("ok", Has(attrs, at, call.old))
  /\ UNCHANGED <<server, seen, strayed>>

ExistsRefused ==
  /\ pc = "exists"
  /\ Finish("ok", FALSE)
  /\ strayed' = TRUE
  /\ UNCHANGED <<server, seen>>

\* RV_get_attr_info_callback fills in zeros, whatever the answer is.
GetInfo ==
  /\ pc = "info"
  /\ Finish("ok", "zeros")
  /\ strayed' = ~Has(attrs, at, name)
  /\ UNCHANGED <<server, seen>>

-----------------------------------------------------------------------------
\* H5Arename and H5Aiterate by name open the object in requests of their own; it must
\* be of the type found before.  Iteration keeps the URI found before.
OpenParent ==
  /\ pc = "open_parent" /\ linked # Nothing /\ TypeOf[linked] = type
  /\ parent' = linked
  /\ at' = IF call.op = "rename" THEN linked ELSE at
  /\ open' = {"parent"} /\ refs' = refs + 1
  /\ pc' = IF call.op = "rename" THEN "open" ELSE "register"
  /\ UNCHANGED <<server, rdwr, call, type, name, buf, copy, registered, table, pos, seen,
                 ret, value, strayed, history>>

\* A rename: the attribute is opened, another is created, the value is copied, and the
\* old one is deleted.
OpenOld ==
  /\ pc = "open" /\ Has(attrs, at, call.old)
  /\ open' = open \cup {"attr"} /\ refs' = refs + 1
  /\ GoOn("create")
  /\ UNCHANGED <<server, at, type, name, buf, copy, registered, strayed>>

Creatable_Over == rdwr

Creatable_NoIntent == ~Has(attrs, at, call.new)

Creatable == rdwr /\ ~Has(attrs, at, call.new)

CreateNew ==
  /\ pc = "create" /\ Creatable
  /\ attrs' = [Without(attrs, at, call.new) EXCEPT ![at] = Append(@, Attr(call.new, Empty))]
  /\ open' = open \cup {"renamed"} /\ refs' = refs + 1
  /\ GoOn("read")
  /\ UNCHANGED <<linked, at, type, name, buf, copy, registered, strayed>>

\* RV_attr_read copies the text of any answer, an error's too.
ReadOld ==
  /\ pc = "read"
  /\ \/ /\ Has(attrs, at, call.old)
        /\ buf' = ValueOf(attrs, at, call.old) /\ UNCHANGED strayed
     \/ buf' = ErrorPage /\ strayed' = TRUE
  /\ GoOn("write")
  /\ UNCHANGED <<server, at, type, name, file, open>>

WriteNew_Nothing ==
  /\ pc = "write" /\ Has(attrs, at, call.new)
  /\ open' = open \ {"attr"} /\ refs' = refs - 1
  /\ GoOn("delete_old")
  /\ UNCHANGED <<server, at, type, name, buf, copy, registered, strayed>>

\* The old attribute's struct is closed once the value is written.
WriteNew ==
  /\ pc = "write" /\ Has(attrs, at, call.new)
  /\ attrs' = Written(attrs, at, call.new, buf)
  /\ open' = open \ {"attr"} /\ refs' = refs - 1
  /\ GoOn("delete_old")
  /\ UNCHANGED <<linked, at, type, name, buf, copy, registered, strayed>>

-----------------------------------------------------------------------------
\* H5Aiterate at an object copies its struct for the callback: a file's together with its
\* reference count, others' with a new reference to the file.
CopyObject ==
  /\ pc = "copy"
  /\ IF type = "file" THEN copy' = refs /\ UNCHANGED <<refs, open>>
     ELSE refs' = refs + 1 /\ open' = {"copy"} /\ UNCHANGED copy
  /\ parent' = at
  /\ pc' = "register"
  /\ UNCHANGED <<server, rdwr, call, at, type, name, buf, registered, table, pos, seen, ret,
                 value, strayed, history>>

Register ==
  /\ pc = "register"
  /\ GoOn("iter_list")
  /\ UNCHANGED <<server, at, type, name, buf, file, open, strayed>>

\* Without an identifier the object is not closed, nor the copy or its reference.
RegisterFails ==
  /\ pc = "register"
  /\ pc' = "returned" /\ ret' = "fail"
  /\ UNCHANGED <<server, rdwr, call, at, parent, type, name, buf, file, open, table, pos, seen,
                 value, strayed, history>>

FirstPos_Zero(s) == IF call.idx # NoIdx THEN call.idx ELSE 0

FirstPos(s) == IF call.idx # NoIdx THEN call.idx ELSE IF call.dec THEN Len(s) - 1 ELSE 0

\* RV_build_attr_table, from one answer of the server.
BuildTable ==
  /\ pc = "iter_list"
  /\ LET s == Listed(attrs, at, call.crt)
     IN IF s = <<>> THEN Finish("ok", "none") /\ UNCHANGED <<seen, strayed>>
        ELSE /\ table' = s
             /\ pos' = FirstPos(s)
             /\ strayed' = (call.dec /\ pos' >= Len(s))
             /\ pc' = "traverse"
             /\ UNCHANGED <<rdwr, call, at, parent, type, name, buf, file, open, seen, ret,
                            value, history>>
  /\ UNCHANGED server

\* RV_traverse_attr_table.  In decreasing order the index is not compared with the number
\* of entries, and what is read beyond them crashes the program or is taken for an entry.
\* The index given by the application is not set.
Over == IF call.dec THEN pos < 0 ELSE pos >= Len(table)

After == IF call.dec THEN pos - 1 ELSE pos + 1

\* What the application's callback answers: less than, equal to or greater than 0.
CallBack(answer, n) ==
  /\ pc = "traverse" /\ ~Over
  /\ pos < Len(table) => n = table[pos + 1]
  /\ seen' = Append(seen, n)
  /\ \/ /\ answer = "continue"
        /\ pos' = After
        /\ UNCHANGED <<rdwr, call, pc, at, parent, type, name, buf, file, open, table, ret,
                       value, history>>
     \/ answer = "stop" /\ Finish("ok", "stopped")
     \/ answer = "fail" /\ Finish("fail", "none")
  /\ UNCHANGED <<server, strayed>>

TraversalCrashes ==
  /\ pc = "traverse" /\ ~Over /\ pos >= Len(table)
  /\ pc' = "crashed"
  /\ UNCHANGED <<server, rdwr, call, at, parent, type, name, buf, file, open, table, pos,
                 seen, ret, value, strayed, history>>

TraversalEnds ==
  /\ pc = "traverse" /\ Over
  /\ Finish("ok", "none")
  /\ UNCHANGED <<server, seen, strayed>>

-----------------------------------------------------------------------------
\* Other clients, or the application's callback, write, delete and create attributes,
\* and set links.
OtherClient ==
  /\ pc \notin {"idle", "returned", "crashed"} /\ changes < MaxChanges
  /\ \/ /\ \E o \in Object, n \in Name, v \in Value :
             attrs' \in IF Has(attrs, o, n) THEN {Without(attrs, o, n), Written(attrs, o, n, v)}
                        ELSE {[attrs EXCEPT ![o] = Append(@, Attr(n, v))]}
        /\ UNCHANGED <<linked, relinked>>
     \/ /\ call.path
        /\ linked' \in (Object \cup {Nothing}) \ {linked}
        /\ relinked' = TRUE /\ UNCHANGED attrs
  /\ changes' = changes + 1
  /\ named' = named \cup Named(call, attrs', linked')
  /\ UNCHANGED <<rdwr, call, pc, at, parent, type, name, buf, file, open, table, pos, seen, ret,
                 value, strayed, before, refs0>>

Connector ==
  \/ Lookup \/ RequestFails \/ Delete \/ List \/ ListCrashes \/ LookupAgain
  \/ Exists \/ ExistsRefused \/ GetInfo
  \/ OpenParent \/ OpenOld \/ CreateNew \/ ReadOld \/ WriteNew
  \/ CopyObject \/ Register \/ RegisterFails \/ BuildTable
  \/ \E answer \in {"continue", "stop", "fail"}, n \in Name : CallBack(answer, n)
  \/ TraversalCrashes \/ TraversalEnds

Next == (pc = "idle" /\ \E c \in Call : Start(c)) \/ Connector \/ OtherClient

Spec == Init /\ [][Next]_vars
\* The connector's code runs on its own in the application's thread, requests end and
\* callbacks return.
LiveSpec == Spec /\ WF_vars(Connector)
-----------------------------------------------------------------------------
\* Types of the state: once it has found its object, a call knows its type.
TypeOK ==
  /\ \A o \in Object : \A a \in Range(attrs[o]) :
       a.name \in Name /\ a.val \in Value \cup {Empty, ErrorPage}
  /\ linked \in Object \cup {Nothing}
  /\ call \in Call
  /\ pc \in Requests \cup {"idle", "copy", "register", "traverse", "returned", "crashed"}
  /\ pc \notin {"idle", "lookup", "returned"} => at \in Object /\ type # "uninit"
  /\ buf \in Value \cup {Empty, ErrorPage}
  /\ refs > 0 /\ copy >= 0
  /\ open \subseteq {"parent", "copy", "attr", "renamed"}
  /\ ret \in {"none", "ok", "fail"}

Undisturbed == changes = 0 /\ ~strayed
Target == IF call.path THEN linked ELSE call.loc

\* While an attribute is being renamed, and however the rename fails, its value is under
\* the old name or the new one, if the value read was the attribute's; a rename that
\* succeeds leaves it under the new name alone.
RenameKeepsValue ==
  call.op = "rename" /\ Undisturbed /\ at # Nothing /\ Has(before, at, call.old) =>
    LET holds(n) == Attr(n, ValueOf(before, at, call.old)) \in Range(attrs[at])
    IN /\ holds(call.old) \/ holds(call.new)
       /\ ret = "ok" => holds(call.new) /\ ~Has(attrs, at, call.old)

\* A rename never destroys or overwrites another attribute, that of the new name least.
RenameOverwritesNone ==
  call.op = "rename" /\ changes = 0 =>
    \A o \in Object, n \in Name :
      Has(before, o, n) /\ <<o, n>> # <<at, call.old>> =>
        Attr(n, ValueOf(before, o, n)) \in Range(attrs[o])

\* What a call deletes is an attribute that its arguments have named since it began, by
\* name or by index, also when other clients change attributes and links between its
\* requests; by index, if the path has led to one object.
DeletesOnlyNamed ==
  [][changes' = changes /\ ~strayed /\ (call.op = "delete_by_idx" => ~relinked) =>
       \A o \in Object, n \in Name :
         Has(attrs, o, n) /\ ~Has(attrs', o, n) => <<o, n>> \in named]_vars

\* H5Aget_name_by_idx gives a name that the index has meant since the call began.
NameIsIndexed ==
  pc = "returned" /\ call.op = "get_name" /\ ret = "ok" /\ ~strayed /\ ~relinked =>
    <<at, value>> \in named

\* H5Aexists tells whether the attribute exists, if no error stands for another reason.
ExistsTells ==
  pc = "returned" /\ call.op = "exists" /\ ret = "ok" /\ Undisturbed =>
    value = Has(attrs, Target, call.old)

\* H5Aiterate reports the attributes in the order asked for, from the index on and
\* without omission, and none twice even when the callback or other clients delete or
\* create attributes meanwhile.
IterationExact ==
  /\ call.op = "iterate" /\ ~strayed => IsInjective(seen)
  /\ pc = "returned" /\ call.op = "iterate" /\ ret = "ok" /\ value # "stopped" /\ Undisturbed =>
       LET s == Listed(attrs, Target, call.crt)
           first == IF call.idx = NoIdx THEN 1 ELSE call.idx + 1
           last == IF call.idx = NoIdx \/ s = <<>> THEN Len(s) ELSE call.idx + 1
       IN seen = IF call.dec THEN Reverse(SubSeq(s, 1, last)) ELSE SubSeq(s, first, Len(s))

\* A call gives back every reference to the file that it took, on every way out; an
\* iteration that fails may have been unable to register the object, and keeps it then.
ReferencesReturned ==
  pc = "returned" /\ (call.op = "iterate" => ret = "ok") => refs = refs0

\* Every call returns, whatever the server refuses and other clients do.
AttrCallEnds == pc = "lookup" \/ pc = "copy" \/ pc = "open" ~> pc \in {"returned", "crashed"}

\* A rename that was done is reported as done, but for that of a committed datatype's
\* attribute by path, where the switch that closes the object falls into its default case.
RenamedIsReported ==
  pc = "returned" /\ call.op = "rename" /\ Undisturbed /\ at # Nothing
    /\ ~(call.path /\ type = "datatype")
    /\ Has(before, at, call.old) /\ ~Has(attrs, at, call.old) => ret = "ok"

\* The attributes of a file opened for reading stay as they are, whichever request of a call
\* would change them; H5Adelete_by_idx alone does not look at the file's intent.
ReadOnlyAttributes ==
  [][~rdwr /\ changes' = changes /\ call.op # "delete_by_idx" => attrs' = attrs]_vars

\* Iterating over a file's attributes through a copy of its struct takes the file out of the
\* registry of open objects only if nothing else has it open.
FileStaysRegistered == refs0 > 1 => registered

\* A rename loses and overwrites no value, and says what it did.
RenameSafe == RenameKeepsValue /\ RenameOverwritesNone /\ RenamedIsReported

\* What a call says of attributes is true.
AnswersTrue == TypeOK /\ NameIsIndexed /\ ExistsTells /\ IterationExact

\* A call leaves the file with the references and the registration that it found.
FileKept == ReferencesReturned /\ FileStaysRegistered

\* A call deletes what it was asked to delete, and nothing from a file opened for reading.
ChangesAsAsked == DeletesOnlyNamed /\ ReadOnlyAttributes
=============================================================================
