----------------------------- MODULE MCHashTable -----------------------------
(* Four keys that collide in small tables; two primes, then ten times the entries. *)
EXTENDS RVHashTable, TLC

CONSTANTS k1, k2, k3, k4

MCHashOf == (k1 :> 0) @@ (k2 :> 20) @@ (k3 :> 40) @@ (k4 :> 5)
MCPrimes == <<2, 5>>
=============================================================================
