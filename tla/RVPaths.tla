------------------------------- MODULE RVPaths -------------------------------
(***************************************************************************)
(* What a server holds, as far as paths are concerned: files, groups with  *)
(* named links, datasets.  A path is absolute or relative and a sequence   *)
(* of names.  The operators say what a path means.                         *)
(***************************************************************************)
EXTENDS Integers, SequencesExt

CONSTANTS File, Group, Dataset, Name,
          Root,        \* the root group of each file
          FileOf,      \* the file of each object
          NoLink,      \* there is no link of this name
          Nothing,     \* no object
          MaxFollow    \* soft and external links the server follows for one path

Object == Group \cup Dataset

ASSUME RootAssumption ==
  /\ Root \in [File -> Group]
  /\ FileOf \in [Object -> File]
  /\ \A f \in File : FileOf[Root[f]] = f

Path == [abs : BOOLEAN, names : Seq(Name)]

Link == [kind : {"hard"}, target : Object]
          \cup [kind : {"soft"}, path : Path]
          \cup [kind : {"external"}, file : File, path : Path]

\* What a server may hold: the link of each name in each group.
Links == [Group -> [Name -> Link \cup {NoLink}]]

\* A hard link leads to an object of its own file.
WithinFiles(ls) ==
  \A g \in Group, n \in Name :
    ls[g][n] # NoLink /\ ls[g][n].kind = "hard" => FileOf[ls[g][n].target] = FileOf[g]

ASSUME SentinelAssumption == Nothing \notin Object /\ NoLink \notin Link
ASSUME FollowAssumption == MaxFollow \in Nat

\* The paths "." and "/".
Dot == [abs |-> FALSE, names |-> <<>>]
Slash == [abs |-> TRUE, names |-> <<>>]

\* H5_rest_basename and H5_rest_dirname; the directory of a single name is empty.
Basename(p) == Last(p.names)
Dirname(p) == [p EXCEPT !.names = Front(@)]
EmptyDirname(p) == ~p.abs /\ Len(p.names) = 1

Hard(o) == [kind |-> "hard", target |-> o]
Soft(p) == [kind |-> "soft", path |-> p]
External(f, p) == [kind |-> "external", file |-> f, path |-> p]

ObjType == {"unknown", "file", "group", "dataset"}
TypeOf(o) == IF o \in Group THEN "group" ELSE "dataset"

\* Where a path starts that is given together with an object.
StartOf(o, p) == IF p.abs THEN Root[FileOf[o]] ELSE o

\* Where the value of the soft or external link l of group g is looked up.
Origin(g, l) == IF l.kind = "soft" THEN StartOf(g, l.path) ELSE Root[l.file]

\* The link of a name in a group, which another object has not.
LinkIn(ls, g, name) == IF g \in Group THEN ls[g][name] ELSE NoLink

HardStep(ls, g, name) ==
  LET l == LinkIn(ls, g, name) IN IF l # NoLink /\ l.kind = "hard" THEN l.target ELSE Nothing

\* The objects that names leads to from o by hard links, one after each name; Nothing
\* from the first name on that is not that of a hard link.
HardSteps(ls, o, names) ==
  LET at[i \in 0..Len(names)] == IF i = 0 THEN o ELSE HardStep(ls, at[i - 1], names[i])
  IN at

\* The first name that is not that of a hard link.
FirstOther(at, names) == CHOOSE i \in DOMAIN names : at[i] = Nothing /\ at[i - 1] # Nothing

\* The object at the end of names, from o, when links are ls and n soft or external
\* links may be followed on the way: the first link that is not hard is replaced by
\* its value.
Walk(ls, o, names, n) ==
  LET walk[k \in 0..n] ==
        [x \in Object |-> [s \in Seq(Name) |->
          LET at == HardSteps(ls, x, s)
              i  == FirstOther(at, s)
              l  == LinkIn(ls, at[i - 1], s[i])
          IN IF at[Len(s)] # Nothing THEN at[Len(s)]
             ELSE IF l = NoLink \/ k = 0 THEN Nothing
             ELSE walk[k - 1][Origin(at[i - 1], l)][l.path.names \o SubSeq(s, i + 1, Len(s))]]]
  IN walk[n][o][names]

\* What HDF5 means by path p from object o; and what is found by hard links alone.
Meant(ls, o, p) == Walk(ls, StartOf(o, p), p.names, MaxFollow)
ByHardLinks(ls, o, p) == Walk(ls, StartOf(o, p), p.names, 0)

\* The answer of an old server to a request for the object at p, from o, of a type:
\* it follows hard links only, and is asked for "/" at the parent object.
Typed(ls, o, p, type) ==
  LET found == IF p = Slash THEN o ELSE ByHardLinks(ls, o, p)
  IN IF found # Nothing /\ TypeOf(found) = (IF type = "file" THEN "group" ELSE type)
     THEN found ELSE Nothing

\* What RV_find_object_by_path comes to if nothing fails and no link changes, with n
\* soft or external links followed at most.
Find(ls, version, o, p, want, n) ==
  LET find[k \in 0..n] ==
        [x \in Object |-> [q \in Path |-> [type \in ObjType |->
          LET dir == IF EmptyDirname(q) THEN x ELSE Typed(ls, x, Dirname(q), "group")
              l   == LinkIn(ls, dir, Basename(q))
          IN IF q = Dot THEN x
             ELSE IF q = Slash \/ type # "unknown"
             THEN Typed(ls, x, q, IF q = Slash THEN "group" ELSE type)
             ELSE IF l = NoLink THEN Nothing
             ELSE IF l.kind = "hard" THEN Typed(ls, x, q, TypeOf(l.target))
             ELSE IF k = 0 THEN Nothing
             ELSE find[k - 1][IF l.kind = "soft" THEN x ELSE Root[l.file]][l.path]["unknown"]]]]
  IN IF version # "old" THEN Meant(ls, o, p) ELSE find[n][o][p][want]
=============================================================================
