------------------------------- MODULE RVLinks -------------------------------
(***************************************************************************)
(* Operations on links: RV_link_create, RV_link_get, RV_link_specific      *)
(* (delete and exists).  All but creation look up the directory of the     *)
(* path first and then name the last link to the server, in two requests   *)
(* between which other clients may change links.  H5Lcopy and H5Lmove are  *)
(* refused.                                                                *)
(***************************************************************************)
EXTENDS RVPaths

CONSTANTS Graphs, Paths,
          Targets,     \* the links that may be created: [kind, ...] as in RVPaths,
                       \* or "named", with an object and the path of the target
          NameOrder,   \* the names in increasing order
          MaxChanges

ASSUME LinksAssumption ==
  /\ Group # {}
  /\ Graphs \subseteq Links
  /\ Paths \subseteq Path
  /\ Targets \subseteq Link \cup [kind : {"named"}, obj : Object, path : Path]
  /\ NoLink \notin Targets
  /\ NameOrder \in Seq(Name) /\ IsInjective(NameOrder)

VARIABLES
  links, version,
  rdwr,       \* the file was opened for writing
  phase,      \* "idle", "lookup", "request", "returned"
  call,       \* [op, loc, path, link, idx, dec]
  dir,        \* the group the request is made to
  target,     \* the link to be created
  ret, value, \* the result
  places,     \* the groups the path has placed the link in, since the call began
  aims,       \* the objects the target's path has meant since then
  changes

server == <<links, version, changes>>
vars == <<links, version, rdwr, phase, call, dir, target, ret, value, places,
          aims, changes>>

Op == {"create", "delete", "exists", "get_info", "get_val", "get_name", "copy", "move"}

\* Where HDF5 has the last link of path p, given with object o.
PlaceOf(ls, o, p) ==
  IF p.names = <<>> \/ EmptyDirname(p) THEN o ELSE Meant(ls, o, Dirname(p))

\* What HDF5 means by the target of the link to be created.
AimOf(ls, l) == IF l # NoLink /\ l.kind = "named" THEN Meant(ls, l.obj, l.path) ELSE Nothing

History(ls, o, p, l) == places' = {PlaceOf(ls, o, p)} /\ aims' = {AimOf(ls, l)}

Init ==
  /\ links \in Graphs
  /\ version \in {"old", "traversing", "long_names"}
  /\ rdwr \in BOOLEAN
  /\ phase = "idle"
  /\ call = [op |-> "copy", loc |-> CHOOSE o \in Group : TRUE, path |-> Slash, link |-> NoLink,
             idx |-> 0, dec |-> FALSE]
  /\ dir = Nothing /\ target = NoLink
  /\ ret = "ok" /\ value = "none"
  /\ places = {} /\ aims = {} /\ changes = 0

\* What the checks made before any request turn down.
Refused_NoIntent(op) == op \in {"copy", "move"}

Refused(op) == op \in {"copy", "move"} \/ (op = "create" /\ ~rdwr)

\* A call begins, when none is in progress (see Next).
Start(op, o, p, l, i, d) ==
  /\ p.names = <<>> => op = "get_name"
  /\ l # NoLink <=> op = "create"
  /\ i # 0 \/ d => op = "get_name"
  /\ call' = [op |-> op, loc |-> o, path |-> p, link |-> l, idx |-> i, dec |-> d]
  /\ History(links, o, p, l)
  /\ phase' = IF Refused(op) THEN "returned" ELSE "lookup"
  /\ ret' = IF Refused(op) THEN "fail" ELSE ret
  /\ UNCHANGED <<server, rdwr, dir, target, value>>

GiveUp ==
  /\ phase' = "returned" /\ ret' = "fail"
  /\ UNCHANGED <<server, rdwr, call, value, places, aims>>

\* The directory of the path, or for a name by index the path itself, is found as a group.
Directory ==
  IF call.op = "get_name" THEN Find(links, version, call.loc, call.path, "group", 0)
  ELSE IF EmptyDirname(call.path) THEN call.loc
  ELSE Find(links, version, call.loc, Dirname(call.path), "group", 0)

Lookup_Loc ==
  /\ phase = "lookup" /\ call.op # "create"
  /\ dir' = call.loc /\ phase' = "request"
  /\ UNCHANGED <<server, rdwr, call, target, ret, value, places, aims>>

Lookup ==
  /\ phase = "lookup" /\ call.op # "create"
  /\ dir' = Directory /\ dir' # Nothing
  /\ phase' = "request"
  /\ UNCHANGED <<server, rdwr, call, target, ret, value, places, aims>>

\* Creation: the request is made to the location object whatever the path.  A target
\* given by name is looked up; it and the location must have been opened in one file.
LinkToCreate_AsGiven == call.link

LinkToCreate_Parent == IF call.link.kind = "named" THEN Hard(call.link.obj) ELSE call.link

LinkToCreate ==
  IF call.link.kind # "named" THEN call.link
  ELSE LET o == Find(links, version, call.link.obj, call.link.path, "unknown", MaxFollow)
       IN IF o = Nothing THEN NoLink ELSE Hard(o)

OneFile ==
  CASE call.link.kind = "named" -> FileOf[call.link.obj] = FileOf[call.loc]
    [] call.link.kind = "hard" -> FileOf[call.link.target] = FileOf[call.loc]
    [] call.link.kind \in {"soft", "external"} -> TRUE

Prepare ==
  /\ phase = "lookup" /\ call.op = "create"
  /\ OneFile
  /\ target' = LinkToCreate /\ target' # NoLink
  /\ dir' = call.loc
  /\ phase' = "request"
  /\ UNCHANGED <<server, rdwr, call, ret, value, places, aims>>

LookupFails ==
  /\ phase = "lookup"
  /\ GiveUp
  /\ UNCHANGED <<dir, target>>

-----------------------------------------------------------------------------
\* The second request.  The link in question:
Name0 == Basename(call.path)
Linked == LinkIn(links, dir, Name0)

Succeed(v) ==
  /\ phase' = "returned" /\ ret' = "ok" /\ value' = v
  /\ UNCHANGED <<version, changes, rdwr, call, dir, target, places, aims>>

\* A server that takes names in the body is given the path as the link's name, and
\* creates the link where the path says, if at all; others get its last component.
CreateIn == IF version = "long_names" THEN PlaceOf(links, dir, call.path) ELSE dir

Create ==
  /\ phase = "request" /\ call.op = "create"
  /\ CreateIn \in Group
  /\ links' = [links EXCEPT ![CreateIn][Name0] = target]
  /\ Succeed("none")

Delete ==
  /\ phase = "request" /\ call.op = "delete"
  /\ Linked # NoLink
  /\ links' = [links EXCEPT ![dir][Name0] = NoLink]
  /\ Succeed("none")

\* 404 and 410 mean that there is no link, other errors are failures.
Exists_Always ==
  /\ phase = "request" /\ call.op = "exists"
  /\ Succeed(dir \in Group)
  /\ UNCHANGED links

Exists ==
  /\ phase = "request" /\ call.op = "exists"
  /\ Succeed(Linked # NoLink)
  /\ UNCHANGED links

\* The class of the link, and its value if it is no hard link.
GetInfo ==
  /\ phase = "request" /\ call.op = "get_info" /\ Linked # NoLink
  /\ Succeed(IF Linked.kind = "hard" THEN <<"hard">> ELSE <<Linked.kind, Linked.path>>)
  /\ UNCHANGED links

GetVal ==
  /\ phase = "request" /\ call.op = "get_val" /\ Linked # NoLink /\ Linked.kind # "hard"
  /\ Succeed(<<Linked.kind, Linked.path>>)
  /\ UNCHANGED links

\* The k-th smallest of a set of numbers.
Nth(S, k) == CHOOSE i \in S : Cardinality({j \in S : j <= i}) = k

\* The names of the links of the group, in the order that is asked for.
Given == {i \in DOMAIN NameOrder : links[dir][NameOrder[i]] # NoLink}

Names_Increasing == [k \in 1..Cardinality(Given) |-> NameOrder[Nth(Given, k)]]

Names ==
  [k \in 1..Cardinality(Given) |->
     NameOrder[Nth(Given, IF call.dec THEN Cardinality(Given) + 1 - k ELSE k)]]

GetName ==
  /\ phase = "request" /\ call.op = "get_name" /\ dir \in Group
  /\ call.idx < Len(Names)
  /\ Succeed(Names[call.idx + 1])
  /\ UNCHANGED links

\* The server refuses, there is no such link, or the connection fails; an answer that
\* is an error describes no link, and none is read from it.
RequestFails ==
  /\ phase = "request"
  /\ GiveUp
  /\ UNCHANGED <<dir, target>>

-----------------------------------------------------------------------------
OtherClient ==
  /\ changes < MaxChanges /\ phase # "returned"
  /\ \E other \in Graphs :
       /\ \E g \in Group, n \in Name :
            /\ other[g][n] # links[g][n]
            /\ other = [links EXCEPT ![g][n] = other[g][n]]
       /\ links' = other
  /\ changes' = changes + 1
  /\ places' = IF phase \in {"lookup", "request"}
               THEN places \cup {PlaceOf(links', call.loc, call.path)} ELSE places
  /\ aims' = aims \cup {AimOf(links', call.link)}
  /\ UNCHANGED <<version, rdwr, phase, call, dir, target, ret, value>>

Connector ==
  \/ Lookup \/ Prepare \/ LookupFails
  \/ Create \/ Delete \/ Exists \/ GetInfo \/ GetVal \/ GetName \/ RequestFails

Next ==
  \/ /\ phase = "idle"
     /\ \E op \in Op, o \in Group, p \in Paths, l \in Targets \cup {NoLink},
           i \in 0..Len(NameOrder), d \in BOOLEAN : Start(op, o, p, l, i, d)
  \/ Connector
  \/ OtherClient

Spec == Init /\ [][Next]_vars
-----------------------------------------------------------------------------
\* Types of the state: only links that the server knows are ever stored.
TypeOK ==
  /\ \A g \in Group, n \in Name :
       links[g][n] = NoLink \/ links[g][n].kind \in {"hard", "soft", "external"}
  /\ phase \in {"idle", "lookup", "request", "returned"}
  /\ call.op \in Op /\ call.loc \in Group
  /\ phase = "request" => dir \in Object
  /\ target = NoLink \/ target.kind \in {"hard", "soft", "external"}
  /\ ret \in {"ok", "fail"}

\* The server understands "/" and paths from it as the connector means them: it is not
\* an old one, or the call is made at the root.
Understood == version = "old" => call.loc = Root[FileOf[call.loc]]

\* A call changes no link but the one that its path has named since the call began, also
\* when other clients change the groups on the way; links are created by name alone, or
\* by a server that is given the path.
ChangesOnlyNamed ==
  [][phase = "request" /\ Understood
       /\ (call.op = "create" => version = "long_names" \/ EmptyDirname(call.path)) =>
       \A g \in Group, n \in Name :
         links'[g][n] # links[g][n] /\ changes' = changes =>
           g \in places /\ n = Name0]_vars

\* A hard link that is created leads to an object that the target's path has named
\* since the call began.
CreatedLeadsToTarget ==
  [][phase = "request" /\ call.op = "create" /\ call.link.kind = "named" /\ version # "old"
       /\ links' # links /\ changes' = changes =>
       links'[CreateIn][Name0] \in {Hard(o) : o \in aims \ {Nothing}}]_vars

\* H5Lexists tells the truth about the place that the path names.
ExistsIsTrue ==
  phase = "returned" /\ call.op = "exists" /\ ret = "ok" /\ changes = 0 /\ Understood =>
    LET place == PlaceOf(links, call.loc, call.path)
    IN value = (place \in Group /\ links[place][Name0] # NoLink)

\* The order of names that a call asks for.
Before(i, j) == IF call.dec THEN j < i ELSE i < j

\* Reading the names of a group by index 0, 1, ... gives each of its names once, in
\* increasing or decreasing order as asked for, and fails beyond the last.
NamesByIndex ==
  phase = "returned" /\ call.op = "get_name" /\ ret = "ok" /\ changes = 0 =>
    /\ links[dir][value] # NoLink
    /\ call.idx = Cardinality({n \in Name : /\ links[dir][n] # NoLink
                                            /\ \E i, j \in DOMAIN NameOrder :
                                                 Before(i, j) /\ NameOrder[i] = n /\ NameOrder[j] = value})

\* No call but H5Ldelete, which does not look at the file's intent, changes the links of a
\* file opened without write intent, however its requests interleave with other clients'.
ReadOnlyUntouched ==
  [][~rdwr /\ changes' = changes /\ call.op # "delete" => links' = links]_vars

\* What a call says of links is true.
AnswersTrue == TypeOK /\ ExistsIsTrue /\ NamesByIndex

\* What a call does to links is what it was asked for.
ChangesAsAsked == ChangesOnlyNamed /\ CreatedLeadsToTarget /\ ReadOnlyUntouched
=============================================================================
