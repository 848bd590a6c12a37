-------------------------------- MODULE RVMap --------------------------------
(***************************************************************************)
(* What the connector expects of a table: one value per key, the one given *)
(* last, until the key is removed.                                         *)
(***************************************************************************)
CONSTANTS Key, Value,
          NoValue  \* RV_HASH_TABLE_NULL: the key is not in the table

VARIABLE map

Init == map = [k \in Key |-> NoValue]

Put(k, v) == map' = [map EXCEPT ![k] = v]

Drop(k) ==
  /\ map[k] # NoValue
  /\ map' = [map EXCEPT ![k] = NoValue]

Next == \E k \in Key : Drop(k) \/ \E v \in Value : Put(k, v)

Spec == Init /\ [][Next]_map
=============================================================================
