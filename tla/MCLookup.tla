------------------------------ MODULE MCLookup -------------------------------
(* Two files: in the first a root r, a group g and a dataset d, in the second a
   root x and a dataset y; two names. *)
EXTENDS RVLookup

CONSTANTS main, other, r, g, d, x, y, a, b

MCRoot == (main :> r) @@ (other :> x)
MCFileOf == (r :> main) @@ (g :> main) @@ (d :> main) @@ (x :> other) @@ (y :> other)

Abs(s) == [abs |-> TRUE, names |-> s]
Rel(s) == [abs |-> FALSE, names |-> s]

MCPaths == {[abs |-> c, names |-> s] : c \in BOOLEAN,
            s \in {<<>>, <<a>>, <<b>>, <<a, a>>, <<a, b>>}}

MCGraphs ==
  {(r :> (a :> Hard(g) @@ b :> rb)) @@ (g :> (a :> ga @@ b :> gb)) @@ (x :> (a :> xa @@ b :> Hard(y))) :
     rb \in {Hard(d), Soft(Rel(<<a>>)), Soft(Abs(<<a, a>>)), External(other, Abs(<<a>>))},
     ga \in {Hard(d), Soft(Abs(<<b>>))},
     gb \in {NoLink, External(other, Rel(<<a>>))},
     xa \in {Hard(y), External(main, Abs(<<a>>))}}
=============================================================================
