------------------------------- MODULE MCLinks -------------------------------
(* Two files: r and group g with dataset d in the first, root x in the second. *)
EXTENDS RVLinks

CONSTANTS main, other, r, g, d, x, a, b

MCRoot == (main :> r) @@ (other :> x)
MCFileOf == (r :> main) @@ (g :> main) @@ (d :> main) @@ (x :> other)
MCNameOrder == <<a, b>>

Abs(s) == [abs |-> TRUE, names |-> s]
Rel(s) == [abs |-> FALSE, names |-> s]

MCPaths == {Dot, Rel(<<a>>), Rel(<<b>>), Rel(<<a, b>>), Abs(<<b>>), Abs(<<a, b>>), Abs(<<b, a>>)}

MCGraphs ==
  {(r :> (a :> ra @@ b :> rb)) @@ (g :> (a :> NoLink @@ b :> gb)) @@ (x :> (a :> NoLink @@ b :> NoLink)) :
     ra \in {Hard(g), Soft(Abs(<<b>>))},
     rb \in {Hard(g), NoLink, External(other, Slash)},
     gb \in {Hard(d), NoLink}}

MCTargets ==
  {Hard(d), Hard(x), Soft(Rel(<<b>>)), External(other, Slash)}
    \cup {[kind |-> "named", obj |-> o, path |-> p] : o \in {r, g}, p \in {Rel(<<b>>), Abs(<<a>>)}}
=============================================================================
