------------------------------- MODULE MCVisit -------------------------------
(* Three groups with two, two and one links at most, and a dataset. *)
EXTENDS RVVisit

CONSTANTS r, a, b, d

MCCrtTime == <<2, 1>>
HardTo(x) == [hard |-> TRUE, target |-> x]
SoftTo(x) == [hard |-> FALSE, target |-> x]

\* Cycles through any of the groups, shared groups and datasets, empty groups.
MCGraphs ==
  {(r :> <<x, y>>) @@ (a :> s) @@ (b :> t) :
     x \in {HardTo(a), SoftTo(b)}, y \in {HardTo(b), HardTo(d), SoftTo(Nil)},
     s \in {<<>>, <<HardTo(r)>>, <<HardTo(b), HardTo(a)>>, <<HardTo(b), HardTo(d)>>},
     t \in {<<>>, <<HardTo(r)>>, <<HardTo(a)>>}}
=============================================================================
