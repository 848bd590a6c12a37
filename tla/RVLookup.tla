------------------------------ MODULE RVLookup -------------------------------
(***************************************************************************)
(* RV_find_object_by_path.  A server of version 0.8 or later follows all   *)
(* links itself and one request does.  For older servers the function asks *)
(* for the last link of the path, and calls itself: with the directory of  *)
(* the path, with the same path once it knows the object's type, and with  *)
(* the value of a soft or external link.                                   *)
(***************************************************************************)
EXTENDS RVPaths

CONSTANTS Graphs,      \* what the server may hold
          Paths,       \* the paths the application may ask for
          MaxDepth,    \* activations the C stack has room for
          MaxFaults, MaxChanges

\* The C stack has room for every path that the server would follow.
ASSUME LookupAssumption ==
  /\ Group # {}
  /\ Graphs \subseteq Links /\ \A ls \in Graphs : WithinFiles(ls)
  /\ Paths \subseteq Path
  /\ MaxDepth \in Nat /\ MaxDepth >= MaxFollow + 2

VARIABLES
  links,     \* the server's links
  version,   \* "old", "traversing" (0.8.0) or "long_names" (0.8.6)
  phase,     \* "idle", "busy", "returned", "overflow"
  call,      \* [obj, type, path, want]: parent object, path, *target_object_type
  stack,     \* activations
  response,  \* the object or link of the answer in response_buffer
  called,    \* objects the caller's callback was given
  opened,    \* files opened for external links and not closed
  result,    \* [ret, obj, type]
  faults, changes

server == <<links, version, changes>>
vars == <<links, version, phase, call, stack, response, called, opened, result,
          faults, changes>>

Top == Last(stack)
Below == Front(stack)

\* An activation begins: "." is the parent object, of its type, and "/" is a group.
Activation(o, t, p, want, role) ==
  [obj |-> o, kind |-> t, path |-> p, role |-> role, pc |-> "begin", dir |-> o, file |-> FALSE,
   type |-> IF p = Dot THEN t ELSE IF p = Slash THEN "group" ELSE want]

Init ==
  /\ links \in Graphs
  /\ version \in {"old", "traversing", "long_names"}
  /\ phase = "idle" /\ stack = <<>> /\ called = <<>>
  /\ call = [obj |-> CHOOSE o \in Group : TRUE, type |-> "group", path |-> Dot, want |-> "group"]
  /\ response = Nothing
  /\ opened = 0 /\ faults = 0 /\ changes = 0
  /\ result = [ret |-> "ok", obj |-> Nothing, type |-> "unknown"]

\* A caller gives an object it has opened, a path, and the type if it knows it.
Call(o, t, p, want) ==
  /\ phase = "idle"
  /\ t = TypeOf(o) \/ (t = "file" /\ o = Root[FileOf[o]])
  /\ call' = [obj |-> o, type |-> t, path |-> p, want |-> want]
  /\ stack' = <<Activation(o, t, p, want, "call")>>
  /\ phase' = "busy"
  /\ UNCHANGED <<server, response, called, opened, result, faults>>

Busy(pc) == phase = "busy" /\ Top.pc = pc

\* The top activation returns; its caller goes on where it left off, or fails.
Return(ret, type) ==
  IF Below = <<>>
  THEN /\ stack' = <<>>
       /\ phase' = "returned"
       /\ result' = [ret |-> ret, obj |-> IF ret = "ok" THEN response' ELSE Nothing, type |-> type]
  ELSE /\ LET caller == Last(Below)
          IN stack' = Append(Front(Below),
               IF ret = "fail" THEN [caller EXCEPT !.pc = "failed"]
               ELSE IF Top.role = "dir" THEN [caller EXCEPT !.pc = "link", !.dir = response']
               ELSE [caller EXCEPT !.pc = "done", !.type = type])
       /\ UNCHANGED <<phase, result>>

\* Calling itself once more; the C stack may not have room for it.
CallItself(frame, inner) ==
  IF Len(stack) < MaxDepth
  THEN stack' = Below \o <<frame, inner>> /\ UNCHANGED phase
  ELSE stack' = <<>> /\ phase' = "overflow"

\* The decision which request to make.
Begin ==
  /\ Busy("begin")
  /\ IF version # "old" \/ Top.type # "unknown"
     THEN stack' = Append(Below, [Top EXCEPT !.pc = "object"]) /\ UNCHANGED phase
     ELSE IF EmptyDirname(Top.path)
     THEN stack' = Append(Below, [Top EXCEPT !.pc = "link"]) /\ UNCHANGED phase
     ELSE CallItself([Top EXCEPT !.pc = "dir"],
                     Activation(Top.obj, Top.kind, Dirname(Top.path), "group", "dir"))
  /\ UNCHANGED <<server, call, response, called, opened, result, faults>>

\* The answer to the request for the object.
Answer_AtParent ==
  IF version # "old" THEN Meant(links, Top.obj, [Top.path EXCEPT !.abs = FALSE])
  ELSE Typed(links, Top.obj, Top.path, Top.type)

Answer ==
  IF version # "old" THEN Meant(links, Top.obj, Top.path)
  ELSE Typed(links, Top.obj, Top.path, Top.type)

\* The caller's callback reads the response buffer.
CallBack_Always == called' = Append(called, response')

CallBack == called' = IF Top.role = "dir" THEN called ELSE Append(called, response')

AskObject_KeepsType ==
  /\ Busy("object") /\ Answer # Nothing
  /\ response' = Answer
  /\ CallBack
  /\ Return("ok", Top.type)
  /\ UNCHANGED <<server, call, opened, faults>>

\* The class of the object, as the answer has it.
ObjectClass(o) == TypeOf(o)

\* A server that follows links also tells the type of the object.
AskObject ==
  /\ Busy("object") /\ Answer # Nothing
  /\ response' = Answer
  /\ CallBack
  /\ Return("ok", IF version = "old" THEN Top.type ELSE ObjectClass(Answer))
  /\ UNCHANGED <<server, call, opened, faults>>

Fail == stack' = Append(Below, [Top EXCEPT !.pc = "failed"])

NotFound ==
  /\ Busy("object") /\ Answer = Nothing
  /\ Fail
  /\ UNCHANGED <<server, phase, call, response, called, opened, result, faults>>

\* The link at the end of the path, asked of the group found for its directory.
Linked == LinkIn(links, Top.dir, Basename(Top.path))

\* The type of the object a hard link leads to, by the collection it names.
LinkObjType(l) == TypeOf(l.target)

\* The call for what a link leads to.  A hard link gives the type; the value of a soft
\* link is looked up from the same parent object, that of an external link from the
\* file it names.
Following_AsGroup(l) ==
  CASE l.kind = "hard" -> Activation(Top.obj, Top.kind, Top.path, "group", "again")
    [] l.kind = "soft" -> Activation(Top.obj, Top.kind, l.path, "unknown", "again")
    [] l.kind = "external" -> Activation(Root[l.file], "file", l.path, "unknown", "again")

Following_SamePath(l) ==
  CASE l.kind = "hard" -> Activation(Top.obj, Top.kind, Top.path, LinkObjType(l), "again")
    [] l.kind = "soft" -> Activation(Top.obj, Top.kind, Top.path, "unknown", "again")
    [] l.kind = "external" -> Activation(Root[l.file], "file", l.path, "unknown", "again")

Following(l) ==
  CASE l.kind = "hard" -> Activation(Top.obj, Top.kind, Top.path, LinkObjType(l), "again")
    [] l.kind = "soft" -> Activation(Top.obj, Top.kind, l.path, "unknown", "again")
    [] l.kind = "external" -> Activation(Root[l.file], "file", l.path, "unknown", "again")

\* The file of an external link is opened, with requests of its own.
AskLink ==
  /\ Busy("link") /\ Linked # NoLink
  /\ CallItself([Top EXCEPT !.pc = "follow", !.file = (Linked.kind = "external")],
                Following(Linked))
  /\ IF Linked.kind = "external"
     THEN response' = Root[Linked.file] /\ opened' = opened + 1
     ELSE response' = Linked /\ UNCHANGED opened
  /\ UNCHANGED <<server, call, called, result, faults>>

LinkNotFound ==
  /\ Busy("link") /\ Linked = NoLink
  /\ Fail
  /\ UNCHANGED <<server, phase, call, response, called, opened, result, faults>>

\* The connection or the server fails, or the file of an external link cannot be opened.
RequestFails ==
  /\ Busy("object") \/ Busy("link")
  /\ faults < MaxFaults
  /\ faults' = faults + 1
  /\ Fail
  /\ UNCHANGED <<server, phase, call, response, called, opened, result>>

Close_Always == opened' = opened - 1

Close == opened' = IF Top.file THEN opened - 1 ELSE opened

\* The inner call has found the object: the callback is called on its answer again.
Done ==
  /\ Busy("done")
  /\ UNCHANGED response
  /\ CallBack
  /\ Close
  /\ Return("ok", Top.type)
  /\ UNCHANGED <<server, call, faults>>

Failed_LeavesOpen ==
  /\ Busy("failed")
  /\ UNCHANGED <<response, opened>>
  /\ Return("fail", Top.type)
  /\ UNCHANGED <<server, call, called, faults>>

Failed_AsksAgain ==
  /\ Busy("failed")
  /\ stack' = Append(Below, [Top EXCEPT !.pc = "begin"])
  /\ UNCHANGED <<server, call, called, faults, response, opened, phase, result>>

Failed ==
  /\ Busy("failed")
  /\ UNCHANGED response
  /\ Close
  /\ Return("fail", Top.type)
  /\ UNCHANGED <<server, call, called, faults>>

\* Another client changes a link.
OtherClient ==
  /\ changes < MaxChanges
  /\ \E other \in Graphs :
       /\ \E g \in Group, n \in Name :
            /\ other[g][n] # links[g][n]
            /\ other = [links EXCEPT ![g][n] = other[g][n]]
       /\ links' = other
  /\ changes' = changes + 1
  /\ UNCHANGED <<version, phase, call, stack, response, called, opened, result, faults>>

Connector ==
  \/ Begin \/ AskObject \/ NotFound \/ AskLink \/ LinkNotFound \/ RequestFails
  \/ Done \/ Failed

Next ==
  \/ \E o \in Object, t \in {"file", "group", "dataset"}, p \in Paths,
        want \in {"unknown", "group"} : Call(o, t, p, want)
  \/ Connector
  \/ OtherClient

Spec == Init /\ [][Next]_vars

\* The connector's code runs, and every request is answered or fails.
LiveSpec == Spec /\ WF_vars(Connector)
-----------------------------------------------------------------------------
\* Types of the state: an activation is on the stack exactly while a lookup runs.
TypeOK ==
  /\ phase \in {"idle", "busy", "returned", "overflow"}
  /\ phase = "busy" <=> stack # <<>>
  /\ \A f \in ToSet(stack) :
       /\ f.obj \in Object /\ f.dir \in Object
       /\ f.type \in {"unknown", "file", "group", "dataset"}
       /\ f.pc \in {"begin", "dir", "link", "follow", "object", "done", "failed"}
  /\ opened \in Nat
  /\ result.obj \in Object \cup {Nothing}

Quiet == faults = 0 /\ changes = 0
Named == Meant(links, call.obj, call.path)

\* The same with as many links followed as there is room for: the function does not count them.
NamedFar == Walk(links, StartOf(call.obj, call.path), call.path.names, MaxDepth)

SoftLinks == {links[g][n] : g \in Group, n \in Name} \ {NoLink}

\* An old server, asked from the root, that has no relative soft links.
Plain == call.obj = Root[FileOf[call.obj]] /\ \A l \in SoftLinks : l.kind = "soft" => l.path.abs

\* Every soft and external link leads to an object, by way of hard links but for itself.
WellLinked ==
  \A g \in Group, n \in Name :
    LET l == links[g][n]
    IN l # NoLink /\ l.kind # "hard" =>
         /\ Meant(links, g, [abs |-> FALSE, names |-> <<n>>]) # Nothing
         /\ l.path # Dot /\ l.path # Slash =>
              ByHardLinks(links, IF l.kind = "soft" THEN g ELSE Root[l.file], Dirname(l.path)) # Nothing

\* What a lookup finds is what HDF5 means by the path; with an old server if it starts
\* at the root and soft links are absolute.
FindsWhatIsMeant ==
  phase = "returned" /\ result.ret = "ok" /\ changes = 0 /\ (version = "old" => Plain) =>
    result.obj = NamedFar

\* What HDF5 means by the path is found, when nothing fails; with an old server if only
\* the last link of each path is soft, and the caller asked for any type.
FindsAllThatIsMeant ==
  phase = "returned" /\ Quiet /\ Named # Nothing
    /\ (version = "old" => /\ Plain /\ WellLinked /\ call.want = "unknown"
                           /\ call.path # Slash /\ call.path # Dot =>
                                ByHardLinks(links, call.obj, Dirname(call.path)) # Nothing)
    => result.ret = "ok"

\* The requests together come to what Find says of one moment, for every path, object
\* and type asked for.
LookupIsFind ==
  phase = "returned" /\ Quiet =>
    result.obj = Find(links, version, call.obj, call.path, call.want, MaxDepth)

\* The recursion ends when soft links lead to objects.
RecursionEnds == changes = 0 /\ Plain /\ WellLinked => phase # "overflow"

\* The type handed back is that of the object found, whatever another client changes
\* between the requests.
TypeIsOfFound ==
  phase = "returned" /\ result.ret = "ok" =>
    (IF result.type = "file" THEN "group" ELSE result.type) = TypeOf(result.obj)

\* The caller's callback has read the answer about the object found, and no other.
CalledOnFound ==
  phase = "returned" /\ result.ret = "ok" => ToSet(called) = {result.obj}

\* Files opened for external links are closed, whether the lookup succeeds or fails.
FilesClosed == phase = "returned" => opened = 0

\* A lookup comes to an end, also when other clients change links.
LookupEnds == phase = "busy" ~> phase # "busy"

\* A lookup finds what HDF5 means by the path, finds it when nothing fails, and agrees with Find,
\* which stands for a lookup in RVLinks.
FindsExactly == FindsWhatIsMeant /\ FindsAllThatIsMeant /\ LookupIsFind

\* Type and contents that the caller gets are those of the object it gets.
OwnAnswers == TypeIsOfFound /\ CalledOnFound

\* Activations unwind: none is left behind, none goes on for ever in well linked groups, and
\* the files they open are closed again.
StackUnwinds == TypeOK /\ RecursionEnds /\ FilesClosed
=============================================================================
