----------------------------- MODULE RVSelection -----------------------------
(***************************************************************************)
(* Selections in dataspaces: what HDF5 means by them, and the connector's  *)
(* operators on them.  A space is [dims, sel]; its elements are numbered   *)
(* from 0, the last dimension running fastest.                             *)
(***************************************************************************)
EXTENDS Integers, FiniteSets, SequencesExt

AllSel  == [type |-> "all"]
NoneSel == [type |-> "none"]
Points(ps) == [type |-> "points", points |-> ps]
Hyper(start, stride, count, block) ==
  [type |-> "hyper", start |-> start, stride |-> stride, count |-> count, block |-> block]

\* What can be selected in a space of r dimensions; strides, counts and blocks are positive,
\* and blocks do not overlap.
IsSelection(s, r) ==
  \/ s \in {AllSel, NoneSel}
  \/ s \in [type : {"points"}, points : Seq([1..r -> Nat])]
  \/ /\ s \in [type : {"hyper"}, start : [1..r -> Nat], stride : [1..r -> Nat \ {0}],
               count : [1..r -> Nat \ {0}], block : [1..r -> Nat \ {0}]]
     /\ \A k \in 1..r : s.count[k] > 1 => s.block[k] <= s.stride[k]

Coords(dims) ==
  {c \in [DOMAIN dims -> UNION {0..(d - 1) : d \in ToSet(dims)}] : \A k \in DOMAIN dims : c[k] < dims[k]}

\* Starting from z, times each number of a, plus that of b.
Horner(z, a, b) ==
  LET n[k \in 0..Len(a)] == IF k = 0 THEN z ELSE n[k - 1] * a[k] + b[k] IN n[Len(a)]

Size(dims) == Horner(1, dims, [k \in DOMAIN dims |-> 0])
Linear(dims, c) == Horner(0, dims, c)

\* The numbers of a set in increasing order.
Nth(S, k) == CHOOSE x \in S : Cardinality({y \in S : y <= x}) = k
InOrder(S) == [k \in 1..Cardinality(S) |-> Nth(S, k)]

\* Whether a block of a hyperslab takes in coordinate x of dimension k.
InBlocks(s, k, x) ==
  \E n \in 0..(s.count[k] - 1), b \in 0..(s.block[k] - 1) : x = s.start[k] + n * s.stride[k] + b

\* The elements of a selection, in the order in which their values are transferred.
Elements(sp) ==
  LET s == sp.sel
  IN CASE s.type = "all"    -> [n \in 1..Size(sp.dims) |-> n - 1]
       [] s.type = "none"   -> <<>>
       [] s.type = "points" -> [n \in DOMAIN s.points |-> Linear(sp.dims, s.points[n])]
       [] s.type = "hyper"  -> InOrder({Linear(sp.dims, c) :
                                 c \in {x \in Coords(sp.dims) : \A k \in DOMAIN x : InBlocks(s, k, x[k])}})

NPoints(sp) == Len(Elements(sp))

-----------------------------------------------------------------------------
\* RV_convert_dataspace_selection_to_string writes one start:stop:step per dimension.
Stop(s, k) == s.start[k] + s.stride[k] * (s.count[k] - 1) + s.block[k]

Step(s, k) == s.stride[k] \div s.block[k]

\* The server takes no step of 0.
Understood(s) == s.type = "hyper" => \A k \in DOMAIN s.start : Step(s, k) > 0

\* Whether a start:stop:step takes in coordinate x of dimension k.
InTriplet(s, k, x) ==
  x >= s.start[k] /\ x < Stop(s, k) /\ (x - s.start[k]) % Step(s, k) = 0

\* The elements the server selects, asked with the triplets, with the list of points or, for
\* a selection that has no text, with nothing.
Asked(sp) ==
  LET s == sp.sel
  IN CASE s.type \in {"all", "none"} -> Elements([sp EXCEPT !.sel = AllSel])
       [] s.type = "points" -> Elements(sp)
       [] s.type = "hyper"  -> InOrder({Linear(sp.dims, c) :
                                 c \in {x \in Coords(sp.dims) : \A k \in DOMAIN x : InTriplet(s, k, x[k])}})

\* Where triplets can say what is selected: blocks of one element, or without gaps.
Expressible(s) ==
  s.type = "hyper" =>
    \A k \in DOMAIN s.start :
      s.block[k] = 1 \/ (Step(s, k) = 1 /\ (s.count[k] = 1 \/ s.stride[k] = s.block[k]))

-----------------------------------------------------------------------------
\* RV_dataspace_selection_is_contiguous.
IsContiguous_AnyStride(sp) ==
  LET s == sp.sel
      n == Len(sp.dims)
      Whole(k) == s.start[k] = 0 /\ s.count[k] * s.block[k] = sp.dims[k]
  IN \/ NPoints(sp) < 2
     \/ s.type = "all"
     \/ /\ s.type = "hyper"
        /\ \A k \in 1..(n - 1) : s.count[k] <= 1
        /\ \A k \in 1..(n - 1) :
             sp.dims[k] > 1 /\ s.count[k] * s.block[k] > 1 => \A j \in (k + 1)..n : Whole(j)

IsContiguous_AnyRow(sp) ==
  LET s == sp.sel
  IN \/ NPoints(sp) < 2
     \/ s.type = "all"
     \/ /\ s.type = "hyper"
        /\ \A k \in DOMAIN sp.dims : s.stride[k] <= 1

IsContiguous(sp) ==
  LET s == sp.sel
      n == Len(sp.dims)
      Whole(k) == s.start[k] = 0 /\ s.count[k] * s.block[k] = sp.dims[k]
  IN \/ NPoints(sp) < 2
     \/ s.type = "all"
     \/ /\ s.type = "hyper"
        /\ \A k \in 1..n : s.stride[k] <= 1
        /\ \A k \in 1..(n - 1) : s.count[k] <= 1
        /\ \A k \in 1..(n - 1) :
             sp.dims[k] > 1 /\ s.count[k] * s.block[k] > 1 => \A j \in (k + 1)..n : Whole(j)

\* RV_convert_start_to_offset adds each start to the extent before it multiplies.
StartToOffset(sp) ==
  IF sp.sel.type # "hyper" THEN 0
  ELSE Horner(0, [k \in DOMAIN sp.dims |-> sp.dims[k] + sp.sel.start[k]],
                 [k \in DOMAIN sp.dims |-> IF k = 1 THEN sp.sel.start[k] ELSE 0])
=============================================================================
