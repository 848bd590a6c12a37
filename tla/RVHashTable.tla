----------------------------- MODULE RVHashTable -----------------------------
(***************************************************************************)
(* The hash table behind the object registry and the sets of visited links *)
(* (util/rest_vol_hash_table.c): chains of entries, growth through a list  *)
(* of primes, and iterators.  An entry's key is a pointer: keyOf names the *)
(* value whose memory holds it (in the registry the key is the URI inside  *)
(* the object).                                                            *)
(***************************************************************************)
EXTENDS Integers, FiniteSets, SequencesExt

CONSTANTS Key, Value,
          NoValue,   \* RV_HASH_TABLE_NULL
          NoEntry,   \* a NULL entry pointer
          HashOf,    \* hash_func
          Primes,    \* hash_table_primes
          MaxIndex   \* bound on prime_index

ASSUME HashAssumption == HashOf \in [Key -> Nat]
ASSUME PrimesAssumption ==
  /\ Primes \in Seq(Nat \ {0})
  /\ Len(Primes) > 0
  /\ \A i \in 1..Len(Primes) - 1 : Primes[i] + 2 < Primes[i + 1]
ASSUME BoundAssumption == MaxIndex \in Nat
ASSUME NullAssumption == NoValue \notin Value /\ NoEntry \notin Key

VARIABLES table,        \* the chains, by index
          prime_index,
          entries,      \* the count of entries
          iter          \* the iterator of the caller, if it has one

tableVars == <<table, prime_index, entries, iter>>

Entry == [key : Key, val : Value, keyOf : Value]

NoIterator == [next |-> NoEntry, chain |-> 0, seen |-> {}, all |-> {}]

table_size == Cardinality(DOMAIN table)
Chain(k) == HashOf[k] % table_size

\* The places of the entries in table t, and the keys found there.
Places(t) == UNION {{i} \X DOMAIN t[i] : i \in DOMAIN t}
At(t, x) == t[x[1]][x[2]]
Keys == {At(table, x).key : x \in Places(table)}

\* Walking chain c for key k comes to the first entry that has it; 0 is its end.
Walk(c, k) ==
  IF \E p \in DOMAIN c : c[p].key = k
  THEN CHOOSE p \in DOMAIN c : c[p].key = k /\ \A q \in 1..(p - 1) : c[q].key # k
  ELSE 0

PositionOf(k) == Walk(table[Chain(k)], k)
Lookup(k) == LET i == PositionOf(k) IN IF i = 0 THEN NoValue ELSE table[Chain(k)][i].val

SizeAt(p) == IF p < Len(Primes) THEN Primes[p + 1] ELSE entries * 10

EmptyTable(n) == [i \in 0..n - 1 |-> <<>>]

Relinked_InPlace(n) ==
  [i \in 0..n - 1 |-> IF i < table_size THEN table[i] ELSE <<>>]

\* hash_table_enlarge walks chain after chain.
Before(x, y) == x[1] < y[1] \/ (x[1] = y[1] /\ x[2] < y[2])

\* The k-th of some places, counted from the last back.
FromLast(S, k) == CHOOSE x \in S : Cardinality({y \in S : ~Before(y, x)}) = k

\* Every entry moves to the head of its new chain, so that the last one moved comes first.
Relinked(n) ==
  [i \in 0..n - 1 |->
     LET moved == {x \in Places(table) : HashOf[At(table, x).key] % n = i}
     IN [k \in 1..Cardinality(moved) |-> At(table, FromLast(moved, k))]]

TableInit ==
  /\ prime_index = 0
  /\ entries = 0
  /\ table = EmptyTable(Primes[1])
  /\ iter = NoIterator

-----------------------------------------------------------------------------
\* Inserting.  The table may grow first; the chain is searched afterwards.

MustGrow_Late == (entries * 3) \div table_size > 1

MustGrow == (entries * 3) \div table_size > 0

Grow ==
  IF MustGrow
  THEN [size |-> SizeAt(prime_index + 1), index |-> prime_index + 1,
        chains |-> Relinked(SizeAt(prime_index + 1))]
  ELSE [size |-> table_size, index |-> prime_index, chains |-> table]

\* The allocation of a larger table fails: everything stays as it was.
InsertCannotGrow ==
  /\ MustGrow
  /\ UNCHANGED tableVars

Overwrite_KeepsKey(e, k, v) == [e EXCEPT !.val = v]

\* The key is there: both pointers of its entry are replaced.
Overwrite(e, k, v) == [e EXCEPT !.val = v, !.keyOf = v]

Insert(k, v) ==
  LET g == Grow
      i == HashOf[k] % g.size
      p == Walk(g.chains[i], k)
      new == [key |-> k, val |-> v, keyOf |-> v]
  IN /\ g.index <= MaxIndex
     /\ prime_index' = g.index
     /\ IF p # 0
        THEN /\ table' = [g.chains EXCEPT ![i][p] = Overwrite(@, k, v)]
             /\ UNCHANGED entries
        ELSE /\ table' = [g.chains EXCEPT ![i] = Cons(new, @)]
             /\ entries' = entries + 1
     /\ iter' = NoIterator

\* The allocation of the entry fails; the table may have grown.
InsertCannotLink(k) ==
  LET g == Grow
  IN /\ Lookup(k) = NoValue
     /\ g.index <= MaxIndex
     /\ prime_index' = g.index
     /\ table' = g.chains
     /\ iter' = NoIterator
     /\ UNCHANGED entries

RemoveKey_CutsChain(k) ==
  LET p == PositionOf(k)
  IN /\ p # 0
     /\ table' = [table EXCEPT ![Chain(k)] = SubSeq(@, 1, p - 1)]
     /\ entries' = entries - 1
     /\ iter' = IF k \in iter.seen THEN iter ELSE NoIterator
     /\ UNCHANGED prime_index

RemoveKey_AlwaysCounts(k) ==
  LET p == PositionOf(k)
  IN /\ table' = IF p = 0 THEN table ELSE [table EXCEPT ![Chain(k)] = RemoveAt(@, p)]
     /\ entries' = entries - 1
     /\ iter' = NoIterator
     /\ UNCHANGED prime_index

\* The entry is unlinked and freed.  A caller that iterates removes only what
\* the iterator has already returned; otherwise its iteration is over.
RemoveKey(k) ==
  LET p == PositionOf(k)
  IN /\ p # 0
     /\ table' = [table EXCEPT ![Chain(k)] = RemoveAt(@, p)]
     /\ entries' = entries - 1
     /\ iter' = IF k \in iter.seen THEN iter ELSE NoIterator
     /\ UNCHANGED prime_index

-----------------------------------------------------------------------------
\* Iterating.  The iterator holds the entry it will return next.

\* The first chain from index c on that has entries, or table_size.
NextChain(c) == CHOOSE i \in c..table_size :
                  /\ i = table_size \/ table[i] # <<>>
                  /\ \A j \in c..i - 1 : table[j] = <<>>

HeadOf(i) == IF i < table_size THEN table[i][1].key ELSE NoEntry

Iterate ==
  LET i == NextChain(0)
  IN /\ iter' = [next |-> HeadOf(i), chain |-> i, seen |-> {}, all |-> Keys]
     /\ UNCHANGED <<table, prime_index, entries>>

Advance_SameChain ==
  LET c == table[iter.chain]
      p == PositionOf(iter.next)
      i == NextChain(iter.chain)
  IN IF p < Len(c) THEN <<c[p + 1].key, iter.chain>> ELSE <<HeadOf(i), i>>

\* The rest of the current chain, then the chains after it.
Advance ==
  LET c == table[iter.chain]
      p == PositionOf(iter.next)
      i == NextChain(iter.chain + 1)
  IN IF p < Len(c) THEN <<c[p + 1].key, iter.chain>> ELSE <<HeadOf(i), i>>

IterNext ==
  /\ iter.next # NoEntry
  /\ iter' = [iter EXCEPT !.next = Advance[1], !.chain = Advance[2],
                          !.seen = @ \cup {iter.next}]
  /\ UNCHANGED <<table, prime_index, entries>>

TableNext ==
  \/ InsertCannotGrow
  \/ \E k \in Key : \/ RemoveKey(k)
                    \/ InsertCannotLink(k)
                    \/ \E v \in Value : Insert(k, v)
  \/ Iterate
  \/ IterNext

TableSpec == TableInit /\ [][TableNext]_tableVars

-----------------------------------------------------------------------------
\* Types of all variables.
TableTypeOK ==
  /\ prime_index \in 0..MaxIndex
  /\ entries \in Nat
  /\ DOMAIN table = 0..table_size - 1
  /\ \A i \in DOMAIN table : table[i] \in Seq(Entry)
  /\ iter.next \in Key \cup {NoEntry}
  /\ iter.seen \subseteq Key /\ iter.all \subseteq Key

\* A lookup walks one chain only: whatever was inserted, removed and relinked
\* before, every key is in its own chain, once, and entries counts them.
Placement ==
  /\ \A x \in Places(table) : Chain(At(table, x).key) = x[1]
  /\ \A x, y \in Places(table) : At(table, x).key = At(table, y).key => x = y
  /\ entries = Cardinality(Places(table))

\* The table grows before it is more than a third full ("Enlarge the table size
\* to prevent this happening").
LoadBound == 3 * (entries - 1) < table_size

\* A key pointer never outlives the object it points into: it always belongs to
\* the value of its own entry.
KeyInValue == \A x \in Places(table) : At(table, x).keyOf = At(table, x).val

\* An iteration is at an entry that still exists, returns nothing twice, and at
\* its end has returned every entry, though returned ones may have been removed.
IterationExact ==
  /\ iter.next # NoEntry => iter.next \in Keys \ iter.seen
  /\ iter.next = NoEntry => iter.seen = iter.all

\* The chained table implements a map; an insertion that fails changes nothing.
Map == INSTANCE RVMap WITH map <- [k \in Key |-> Lookup(k)]
MapSpec == Map!Spec

\* The table is sound: every entry is in the chain of its key, the chains are short enough, the
\* count is right, and no key points into a value that has left the table.
WellFormed == TableTypeOK /\ Placement /\ LoadBound /\ KeyInValue
=============================================================================
