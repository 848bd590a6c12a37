------------------------------- MODULE RVVisit -------------------------------
(***************************************************************************)
(* H5Literate, H5Lvisit and H5Ovisit (RV_link_iter_callback,               *)
(* RV_object_iter_callback): a table of links is built from the server's   *)
(* answers, with a table for each group that has not been visited before   *)
(* in the entry of the link that leads to it; then the table is traversed  *)
(* and the application's callback is called for every entry.  Both phases  *)
(* recurse: the stack of calls is in the state.                            *)
(***************************************************************************)
EXTENDS Integers, FiniteSets, SequencesExt

CONSTANTS Group, Leaf,  \* objects with links in them, and without
          Nil,          \* what a dangling soft link points to
          Outermost,    \* owner of the table that is in no other's entry
          Graphs,       \* the link graphs the server may hold
          CrtTime,      \* creation time of a group's first, second, ... link
          MaxCalls,     \* bound on the calls of the application
          MaxChanges    \* bound on the changes other clients make

Object == Group \cup Leaf
Link == [hard : {TRUE}, target : Object] \cup [hard : {FALSE}, target : Object \cup {Nil}]

\* Tables are named by the group whose links are in them; a visit enters the group it
\* starts from twice if links lead back to it.
Owner == Group \cup {Outermost}

ASSUME GroupAssumption == IsFiniteSet(Group) /\ Group # {} /\ Outermost \notin Group
ASSUME CrtTimeAssumption == CrtTime \in Seq(Nat) /\ IsInjective(CrtTime)
ASSUME GraphAssumption ==
  /\ Graphs \subseteq [Group -> Seq(Link)]
  /\ \A G \in Graphs, g \in Group : Len(G[g]) <= Len(CrtTime)

VARIABLES
  links,     \* the server: the links of each group, in the order of their names
  phase,     \* "idle", "start", "build", "traverse", "returned", "crashed"
  call,      \* arguments of the call
  stack,     \* activations of RV_build_..._table, then of RV_traverse_..._table
  tables,    \* the entries of each table: [pos, hard, target, sub]
  visited,   \* visited_link_table: groups with a table
  executed,  \* visited_object_table: objects the callback was called for
  depth,     \* the static variable of each of the two traverse functions
  idx,       \* the application's index, given as idx_p
  ret,       \* "ok" or "fail"
  reported,  \* how often the callback was called for each link and object
  stopped,   \* the callback has asked to stop
  calls, changes

graph == <<links, changes>>
visits == <<visited, executed, stack, tables>>
visitVars == <<links, phase, call, stack, tables, visited, executed, depth, idx, ret,
               reported, stopped, calls, changes>>

Op == {"links", "objects"}

LinkId == {<<g, p>> : g \in Group, p \in DOMAIN CrtTime}

NoReports == [x \in LinkId \cup Object |-> 0]

\* The count stops at 3: nothing is said about more.
Count(x) == [reported EXCEPT ![x] = IF @ < 3 THEN @ + 1 ELSE @]

Top == Last(stack)
Below == Front(stack)
GroupOf(o) == IF o = Outermost THEN call.start ELSE o
CurEntry == tables[Top.own][Top.i]

\* An activation of RV_build_link_table: whose table it fills, the links of the answer,
\* and the next one to process.
BuildFrame(o) == [own |-> o, links |-> links[GroupOf(o)], i |-> 1]

NoTables == [o \in Owner |-> <<>>]

VisitInit ==
  /\ links \in Graphs
  /\ phase = "idle"
  /\ call = [op |-> "links", recursive |-> FALSE, crt |-> FALSE, dec |-> FALSE,
             idx |-> FALSE, start |-> CHOOSE g \in Group : TRUE]
  /\ stack = <<>> /\ tables = NoTables /\ visited = {} /\ executed = {}
  /\ depth = [o \in Op |-> 0]
  /\ idx = 0
  /\ ret = "ok"
  /\ reported = NoReports
  /\ stopped = FALSE
  /\ calls = 0 /\ changes = 0

-----------------------------------------------------------------------------
\* The start of a call.  An index is given only to a call that does not recurse; it is
\* whatever the application likes, or where an earlier call has left off.

Start(c, i) ==
  /\ phase \in {"idle", "returned"} /\ calls < MaxCalls
  /\ c.op = "objects" => c.recursive
  /\ c.idx => ~c.recursive
  /\ ~c.idx => i = 0
  /\ call' = c
  /\ idx' = i
  /\ calls' = calls + 1
  /\ phase' = "start"
  /\ stack' = <<>> /\ tables' = NoTables /\ visited' = {} /\ executed' = {}
  /\ ret' = "ok" /\ stopped' = FALSE
  /\ reported' = NoReports
  /\ UNCHANGED <<links, depth, changes>>

\* H5Ovisit calls the callback for the object it is given; 1 and -1 end the call.
StartObject(r) ==
  /\ phase = "start" /\ call.op = "objects" /\ reported = NoReports
  /\ reported' = Count(call.start)
  /\ phase' = IF r = 0 THEN phase ELSE "returned"
  /\ ret' = IF r < 0 THEN "fail" ELSE ret
  /\ stopped' = (r > 0)
  /\ UNCHANGED <<graph, visits, call, depth, idx, calls>>

\* The first answer arrives.
FirstAnswer ==
  /\ phase = "start"
  /\ call.op = "objects" => reported # NoReports
  /\ phase' = "build"
  /\ stack' = <<BuildFrame(Outermost)>>
  /\ UNCHANGED <<graph, call, tables, visited, executed, depth, idx, ret, reported, stopped,
                 calls>>

\* The first request fails, or its answer is no list of links.
FirstRequestFails ==
  /\ phase = "start"
  /\ phase' = "returned" /\ ret' = "fail"
  /\ UNCHANGED <<graph, visits, call, depth, idx, reported, stopped, calls>>

-----------------------------------------------------------------------------
\* Building the tables.

Building == phase = "build" /\ Top.i <= Len(Top.links)
CurLink == Top.links[Top.i]

NewEntry(sub) ==
  [pos |-> Top.i, hard |-> CurLink.hard, target |-> CurLink.target, sub |-> sub]

Follows_All == call.recursive /\ CurLink.hard /\ CurLink.target \in Group

\* The current link leads to a group that has no table yet.
Follows ==
  /\ call.recursive /\ CurLink.hard /\ CurLink.target \in Group
  /\ CurLink.target \notin visited

\* H5Ovisit looks each object up by path, and fails if a soft link leads nowhere.
Found == call.op = "objects" => CurLink.target # Nil

AddLink_HardOnly ==
  /\ Building /\ Found /\ ~Follows
  /\ tables' = IF CurLink.hard THEN [tables EXCEPT ![Top.own] = Append(@, NewEntry(FALSE))] ELSE tables
  /\ stack' = Append(Below, [Top EXCEPT !.i = @ + 1])
  /\ UNCHANGED <<graph, phase, call, visited, executed, depth, idx, ret, reported,
                 stopped, calls>>

AddLink ==
  /\ Building /\ Found /\ ~Follows
  /\ tables' = [tables EXCEPT ![Top.own] = Append(@, NewEntry(FALSE))]
  /\ stack' = Append(Below, [Top EXCEPT !.i = @ + 1])
  /\ UNCHANGED <<graph, phase, call, visited, executed, depth, idx, ret, reported,
                 stopped, calls>>

Descend ==
  /\ Building /\ Found /\ Follows
  /\ visited' = visited \cup {CurLink.target}
  /\ stack' = Append(stack, BuildFrame(CurLink.target))
  /\ UNCHANGED <<graph, phase, call, tables, executed, depth, idx, ret, reported,
                 stopped, calls>>

\* A lookup or a request fails, or its answer is no list of links.
BuildFails ==
  /\ Building
  /\ call.op = "objects" \/ Follows
  /\ phase' = "returned" /\ ret' = "fail"
  /\ stack' = <<>>
  /\ UNCHANGED <<graph, call, tables, visited, executed, depth, idx, reported, stopped,
                 calls>>

\* Sorting by creation time, when asked for; the server lists links by name.
Earlier(t, x) == {k \in DOMAIN t : CrtTime[t[k].pos] < CrtTime[x.pos]}

Sorted(t) ==
  IF call.crt
  THEN [n \in DOMAIN t |-> CHOOSE x \in ToSet(t) : Cardinality(Earlier(t, x)) = n - 1]
  ELSE t

TraverseFrame(o, t) ==
  [own |-> o, over |-> FALSE,
   i |-> IF call.idx THEN idx + 1 ELSE IF call.dec THEN Len(t) ELSE 1]

Begun_Untested(f, t) == f

\* An index at the end leaves nothing to do in increasing order.  In decreasing order the
\* loop asks last_idx >= 0 of an unsigned index, and begins wherever the index is.
Begun(f, t) == [f EXCEPT !.over = ~call.dec /\ f.i > Len(t)]

\* The table of the top activation is complete: it is in the entry that the activation
\* below then adds, or is traversed.
TableBuilt ==
  /\ phase = "build" /\ Top.i > Len(Top.links)
  /\ LET t      == Sorted(tables[Top.own])
         sorted == [tables EXCEPT ![Top.own] = t]
         caller == Last(Below)
         entry  == [pos |-> caller.i, hard |-> TRUE, target |-> Top.own, sub |-> TRUE]
     IN IF Below # <<>>
        THEN /\ stack' = Append(Front(Below), [caller EXCEPT !.i = @ + 1])
             /\ tables' = [sorted EXCEPT ![caller.own] = Append(@, entry)]
             /\ UNCHANGED phase
        ELSE /\ tables' = sorted
             /\ IF t = <<>>
                THEN stack' = <<>> /\ phase' = "returned"
                ELSE /\ stack' = <<Begun(TraverseFrame(Outermost, t), t)>>
                     /\ phase' = "traverse"
  /\ UNCHANGED <<graph, call, visited, executed, depth, idx, ret, reported, stopped,
                 calls>>

-----------------------------------------------------------------------------
\* Traversing them.

\* The loop's step to the next entry.
Stepped_NoBreak(f) ==
  IF call.dec
  THEN IF f.i = 1 THEN f ELSE [f EXCEPT !.i = @ - 1]
  ELSE [f EXCEPT !.i = @ + 1, !.over = f.i + 1 > Len(tables[f.own])]

Stepped_OnePast(f) ==
  IF call.dec
  THEN IF f.i = 1 THEN [f EXCEPT !.over = TRUE] ELSE [f EXCEPT !.i = @ - 1]
  ELSE [f EXCEPT !.i = @ + 1, !.over = f.i > Len(tables[f.own])]

Stepped(f) ==
  IF call.dec
  THEN IF f.i = 1 THEN [f EXCEPT !.over = TRUE] ELSE [f EXCEPT !.i = @ - 1]
  ELSE [f EXCEPT !.i = @ + 1, !.over = f.i + 1 > Len(tables[f.own])]

Traversing == phase = "traverse" /\ ~Top.over /\ Top.i <= Len(tables[Top.own])

\* The index is beyond the table, at memory that is no entry.
Stray == phase = "traverse" /\ ~Top.over /\ Top.i > Len(tables[Top.own])

\* An activation ends: its caller goes on with the next entry, whether the callback
\* has asked to stop or not.  The first one tells the application where it was.
ActivationEnds_KeepsDepth(f) ==
  IF Below # <<>>
  THEN /\ stack' = Append(Front(Below), Stepped(Last(Below)))
       /\ UNCHANGED <<phase, idx, depth>>
  ELSE /\ stack' = <<>>
       /\ phase' = "returned"
       /\ idx' = IF call.idx /\ depth[call.op] = 0 THEN f.i - 1 ELSE idx
       /\ UNCHANGED depth

ActivationEnds(f) ==
  IF Below # <<>>
  THEN /\ stack' = Append(Front(Below), Stepped(Last(Below)))
       /\ depth' = [depth EXCEPT ![call.op] = @ - 1]
       /\ UNCHANGED <<phase, idx>>
  ELSE /\ stack' = <<>>
       /\ phase' = "returned"
       /\ idx' = IF call.idx /\ depth[call.op] = 0 THEN f.i - 1 ELSE idx
       /\ UNCHANGED depth

\* After the callback has agreed to go on: into the entry's own table, or to the
\* next entry.
Enters == CurEntry.sub /\ tables[CurEntry.target] # <<>>

Proceed ==
  /\ IF Enters
     THEN /\ stack' = Append(stack, TraverseFrame(CurEntry.target, tables[CurEntry.target]))
          /\ depth' = [depth EXCEPT ![call.op] = @ + 1]
     ELSE /\ stack' = Append(Below, Stepped(Top))
          /\ UNCHANGED depth
  /\ UNCHANGED <<phase, idx>>

\* H5Ovisit passes over soft links and over objects it has been at.
Executes_Always == call.op = "objects" => CurEntry.hard

Executes ==
  call.op = "objects" => CurEntry.hard /\ CurEntry.target \notin executed

Subject == IF call.op = "links" THEN <<GroupOf(Top.own), CurEntry.pos>>
           ELSE CurEntry.target

\* The application's callback answers r for the current entry.
Callback(r) ==
  /\ Traversing /\ Executes
  /\ reported' = Count(Subject)
  /\ executed' = IF call.op = "objects" /\ r = 0 THEN executed \cup {CurEntry.target} ELSE executed
  /\ stopped' = (stopped \/ r > 0)
  /\ CASE r = 0 -> Proceed /\ UNCHANGED ret
       [] r > 0 -> ActivationEnds(Top) /\ UNCHANGED ret
       [] r < 0 -> /\ phase' = "returned" /\ ret' = "fail" /\ stack' = <<>>
                   /\ UNCHANGED <<idx, depth>>
  /\ UNCHANGED <<graph, call, tables, visited, calls>>

\* What is beyond the table is taken for an entry: reading it ends the program, or the
\* callback is called for what is no link, or the call fails, and otherwise the loop comes
\* to the table from above.
CallbackStray(r) ==
  /\ Stray
  /\ stopped' = (stopped \/ r > 0)
  /\ CASE r = 0 -> stack' = Append(Below, Stepped(Top)) /\ UNCHANGED <<phase, idx, depth, ret>>
       [] r > 0 -> ActivationEnds(Top) /\ UNCHANGED ret
       [] r < 0 -> /\ phase' = "returned" /\ ret' = "fail" /\ stack' = <<>>
                   /\ UNCHANGED <<idx, depth>>
  /\ UNCHANGED <<graph, call, tables, visited, executed, reported, calls>>

VisitCrashes ==
  /\ Stray
  /\ phase' = "crashed" /\ stack' = <<>>
  /\ UNCHANGED <<graph, call, tables, visited, executed, depth, idx, ret, reported, stopped,
                 calls>>

PassOver ==
  /\ Traversing /\ ~Executes
  /\ Proceed
  /\ UNCHANGED <<graph, call, tables, visited, executed, ret, reported, stopped, calls>>

TableDone ==
  /\ phase = "traverse" /\ Top.over
  /\ ActivationEnds(Top)
  /\ UNCHANGED <<graph, call, tables, visited, executed, ret, reported, stopped, calls>>

-----------------------------------------------------------------------------
\* Another client changes the links of a group.
OtherClient(g) ==
  /\ changes < MaxChanges
  /\ \E other \in Graphs : /\ other # links
                           /\ \A h \in Group \ {g} : other[h] = links[h]
                           /\ links' = other
  /\ changes' = changes + 1
  /\ UNCHANGED <<phase, call, visits, depth, idx, ret, reported, stopped, calls>>

Call == [op : Op, recursive : BOOLEAN, crt : BOOLEAN, dec : BOOLEAN, idx : BOOLEAN, start : Group]

Connector ==
  \/ FirstAnswer \/ FirstRequestFails
  \/ AddLink \/ Descend \/ BuildFails \/ TableBuilt
  \/ PassOver \/ TableDone \/ VisitCrashes
  \/ \E r \in {-1, 0, 1} : StartObject(r) \/ Callback(r) \/ CallbackStray(r)

VisitNext ==
  \/ \E c \in Call, i \in 0..Len(CrtTime) : Start(c, i)
  \/ Connector
  \/ \E g \in Group : OtherClient(g)

VisitSpec == VisitInit /\ [][VisitNext]_visitVars

\* The connector's code runs, and every callback of the application returns.
LiveSpec == VisitSpec /\ WF_visitVars(Connector)

-----------------------------------------------------------------------------
\* The groups that hard links lead to from the one a visit starts from: what is in every
\* set that has that group and all groups that links of its groups lead to.
Closed(S) ==
  \A g \in S : \A l \in ToSet(links[g]) : l.hard /\ l.target \in Group => l.target \in S

Reached == {g \in Group : \A S \in SUBSET Group : call.start \in S /\ Closed(S) => g \in S}
ReachedLinks == UNION {ToSet(links[g]) : g \in Reached}
LeadsTo(x) == \E l \in ReachedLinks : l.hard /\ l.target = x

\* Types of all variables.
VisitTypeOK ==
  /\ phase \in {"idle", "start", "build", "traverse", "returned", "crashed"}
  /\ call \in Call
  /\ visited \subseteq Group /\ executed \subseteq Object
  /\ depth \in [Op -> Nat]
  /\ idx \in Nat /\ ret \in {"ok", "fail"}
  /\ phase \in {"build", "traverse"} <=> stack # <<>>

\* The index that the application gave is beyond the links of the group.
StartsBeyond == call.idx /\ call.dec /\ (changes = 0 => idx >= Len(links[call.start]))

\* An activation in the middle of its table is at an entry of it, but for one reason: the
\* first one of an iteration in decreasing order that was given an index which is not the
\* index of a link, or which was until another client changed the group.  Only then, and
\* at no place beyond that index, is there a read outside the table.
StraysByIndex ==
  /\ phase = "traverse" =>
       \A f \in ToSet(stack) :
         \/ f.over \/ f.i \in 1..Len(tables[f.own])
         \/ f.own = Outermost /\ f.i \in 1..idx + 1 /\ StartsBeyond
  /\ phase = "crashed" => StartsBeyond

\* Cycles of links do not nest for ever: a group is entered once, and only the one
\* the visit started from a second time.
NestingBounded == Len(stack) <= Cardinality(Group) + 1

\* A visit that succeeds and that nobody stopped has reported every link (H5Lvisit)
\* or object (H5Ovisit) that hard links lead to, and no other, once.  The object it
\* started from counts anew if a link leads back to it.
VisitExact ==
  phase = "returned" /\ ret = "ok" /\ ~stopped /\ call.recursive /\ changes = 0 =>
    IF call.op = "links"
    THEN \A g \in Group : \A p \in DOMAIN links[g] :
           reported[<<g, p>>] = IF g \notin Reached THEN 0
                                ELSE IF g = call.start /\ LeadsTo(g) THEN 2 ELSE 1
    ELSE \A x \in Object :
           reported[x] = (IF x = call.start THEN 1 ELSE 0) + (IF LeadsTo(x) THEN 1 ELSE 0)

\* An iteration over one group without an index reports each of its links once.
ListingExact ==
  phase = "returned" /\ ret = "ok" /\ ~stopped /\ ~call.recursive /\ ~call.idx
    /\ changes = 0 =>
    \A x \in LinkId :
      reported[x] = IF x[1] = call.start /\ x[2] \in DOMAIN links[call.start] THEN 1 ELSE 0

\* depth tells nested activations from the first one: as long as no call has failed,
\* it is the number of activations below the current one.
DepthIsNesting ==
  calls = 1 /\ phase = "traverse" => depth[call.op] = Len(stack) - 1

\* A call ends, whatever cycles the links have and however they change.  When the program
\* may crash instead is what StraysByIndex says.
CallReturns == phase = "start" ~> phase \in {"returned", "crashed"}

\* The recursion is sound: it nests no deeper than there are groups, each activation is inside
\* its table unless the application's index never was, and the static variable tells how deep
\* it is.
RecursionSound == VisitTypeOK /\ StraysByIndex /\ NestingBounded /\ DepthIsNesting

\* The callback is called for the links and objects of a call, each as often as it should be.
ReportsExact == VisitExact /\ ListingExact
=============================================================================
