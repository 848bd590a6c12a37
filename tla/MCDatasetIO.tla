----------------------------- MODULE MCDatasetIO -----------------------------
(* Datasets of two rows and three columns, and selections of two to six elements. *)
EXTENDS RVDatasetIO

CONSTANTS d1, d2, d3

MCDims == <<2, 3>>

One == <<1, 1>>
Row(r) == Hyper(<<r, 0>>, One, <<1, 3>>, One)
Tail2(r) == Hyper(<<r, 1>>, One, <<1, 2>>, One)
Square == Hyper(<<0, 0>>, One, <<2, 2>>, One)
Wide == Hyper(<<0, 0>>, <<1, 4>>, One, <<1, 2>>)
SquareBlock == Hyper(<<0, 1>>, <<2, 2>>, One, <<2, 2>>)
Ends == Hyper(<<0, 0>>, <<1, 2>>, <<1, 2>>, One)
Gapped == Hyper(<<0>>, <<3>>, <<2>>, <<2>>)
NoStride == Hyper(<<1, 0>>, One, One, <<1, 3>>)
Two == Points(<< <<1, 2>>, <<0, 1>> >>)
Twice == Points(<< <<1, 2>>, <<1, 2>> >>)
Single == Points(<< <<1, 1>> >>)

In6(s) == [dims |-> <<6>>, sel |-> s]
In23(s) == [dims |-> MCDims, sel |-> s]
In33(s) == [dims |-> <<3, 3>>, sel |-> s]
Run(at, n) == In6(Hyper(<<at>>, <<1>>, <<n>>, <<1>>))

X(d, mem, file, class, conv) ==
  [dset |-> d, mem |-> mem, file |-> file, class |-> class, conv |-> conv]

MCTransfers ==
  {X(d1, H5S_ALL, s, "fixed", FALSE) : s \in {H5S_ALL, Row(1), Wide, Square, Two, Twice, NoneSel}}
    \cup {X(d1, m, s, "fixed", FALSE) : m \in {Run(0, 2), Run(2, 2), In33(Tail2(1)), In23(Two)},
                                         s \in {Ends, Two}}
    \cup {X(d1, m, H5S_ALL, "fixed", FALSE) : m \in {In33(Hyper(<<1, 0>>, One, <<2, 3>>, One)), Run(0, 6)}}
    \cup {X(d1, In23(Single), Single, "fixed", FALSE), X(d1, Run(1, 3), NoStride, "fixed", FALSE),
          X(d1, H5S_ALL, H5S_ALL, "fixed", TRUE), X(d1, Run(3, 3), Row(0), "fixed", TRUE),
          X(d1, In6(Gapped), SquareBlock, "fixed", TRUE),
          X(d2, H5S_ALL, H5S_ALL, "vlen", FALSE), X(d2, In33(Ends), Ends, "vlen", FALSE),
          X(d2, H5S_ALL, Two, "vlen", FALSE), X(d2, H5S_ALL, Ends, "varstr", FALSE),
          X(d3, H5S_ALL, H5S_ALL, "fixed", FALSE)}
=============================================================================
