----------------------------- MODULE MCAttributes -----------------------------
(* The root group, a dataset and a committed datatype, with up to two attributes. *)
EXTENDS RVAttributes

CONSTANTS r, d, t, a, b, v, w

MCTypeOf == [o \in Object |-> IF o = d THEN "dataset" ELSE IF o = t THEN "datatype" ELSE "group"]
MCNameOrder == <<a, b>>

MCAttrStates ==
  {[o \in Object |-> IF o = r THEN s[1] ELSE IF o = d THEN s[2] ELSE <<Attr(a, w)>>] :
     s \in {<< <<>>, <<Attr(b, w), Attr(a, v)>> >>, << <<Attr(b, v), Attr(a, w)>>, <<Attr(b, v)>> >>}}
=============================================================================
