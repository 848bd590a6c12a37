------------------------------- MODULE RVInit -------------------------------
(***************************************************************************)
(* Initialisation and termination of the connector: H5_rest_init, which    *)
(* the HDF5 library calls when the connector is registered, H5rest_init    *)
(* and H5rest_term, which the application calls, and H5_rest_term, which   *)
(* the library calls when it closes the connector.  Any step of the        *)
(* initialisation may fail.  The module also has the count of allocated    *)
(* bytes (RV_TRACK_MEM_USAGE), in which each allocation counts as one.     *)
(***************************************************************************)
EXTENDS Integers, Sequences, FiniteSets

CONSTANTS MaxFails, MaxUnloads, MaxObjects, Width

ASSUME InitAssumption == {MaxFails, MaxUnloads, MaxObjects, Width} \subseteq Nat
ASSUME WidthAssumption == Width > 2   \* a size_t holds the count of what one initialisation allocates

VARIABLES
  registered,    \* the library has the connector
  initialized,   \* H5_rest_initialized_g
  points,        \* the resources that the global variables point to
  live,          \* how many of each resource are allocated
  bytes,         \* H5_rest_curr_alloc_bytes, an unsigned number
  objects,       \* structs that the application keeps open
  fails,         \* initialisations that failed so far
  unloads,       \* times that the library closed the connector
  uncounted      \* H5rest_term has set the count to 0 while memory was allocated

connectorVars == <<registered, initialized, points, live, bytes, objects, fails, unloads, uncounted>>

\* What H5_rest_init acquires, in this order; "options" are those of the curl handle and
\* "messages" those of the error class, which go with it.
Steps == <<"curl", "buffer", "options", "tables", "class", "stack", "messages">>
Resource == {"curl", "buffer", "tables", "class", "stack"}
Counted == {"buffer", "tables"}   \* from RV_malloc and RV_calloc

Mod_Signed(n) == n

\* Counts wrap around.
Mod(n) == n % Width

Acquired(k) == {Steps[i] : i \in 1..(k - 1)} \cap Resource

Allocated == objects + live["buffer"] + live["tables"]

ConnectorInit ==
  /\ registered = FALSE /\ initialized = FALSE /\ points = {}
  /\ live = [r \in Resource |-> 0]
  /\ bytes = 0 /\ objects = 0 /\ fails = 0 /\ unloads = 0 /\ uncounted = FALSE

-----------------------------------------------------------------------------
\* A state of the variables that both functions change.
State == [init : BOOLEAN, points : SUBSET Resource, live : [Resource -> Nat], bytes : Nat, uncounted : BOOLEAN]
Now == [init |-> initialized, points |-> points, live |-> live, bytes |-> bytes, uncounted |-> uncounted]

Release_KeepsPointers(s, R) ==
  [s EXCEPT !.live = [r \in Resource |-> s.live[r] - Cardinality({r} \cap R \cap s.points)],
            !.bytes = Mod(s.bytes - Cardinality(Counted \cap R \cap s.points))]

Release_Uncounted(s, R) ==
  [s EXCEPT !.live = [r \in Resource |-> s.live[r] - Cardinality({r} \cap R \cap s.points)],
            !.points = s.points \ R]

\* Those of the resources R that are pointed to are freed, and the pointers reset.
Release(s, R) ==
  [s EXCEPT !.live = [r \in Resource |-> s.live[r] - Cardinality({r} \cap R \cap s.points)],
            !.bytes = Mod(s.bytes - Cardinality(Counted \cap R \cap s.points)),
            !.points = s.points \ R]

Term_KeepsFlag(s) ==
  IF ~s.init THEN s ELSE Release(s, {"curl", "buffer", "tables"})

Term_KeepsTables(s) ==
  IF ~s.init THEN s ELSE [Release(s, {"curl", "buffer"}) EXCEPT !.init = FALSE]

\* H5_rest_term: nothing if the connector is not initialised.
Term(s) ==
  IF ~s.init THEN s ELSE [Release(s, {"curl", "buffer", "tables"}) EXCEPT !.init = FALSE]

\* H5rest_term: then the bytes still allocated are reported and forgotten, and the error
\* class and stack are released.
PublicTerm(s) ==
  LET t == Term(s)
      left == objects + t.live["buffer"] + t.live["tables"]
      u == [t EXCEPT !.bytes = 0, !.uncounted = @ \/ left > 0]
  IN IF "class" \in u.points THEN Release(u, {"class", "stack"}) ELSE u

\* H5_rest_init up to the failure of step k, or to its end.
Acquire(s, k) ==
  LET R == Acquired(k)
  IN [s EXCEPT !.bytes = Cardinality(R \cap Counted),
               !.points = @ \cup R,
               !.live = [r \in Resource |-> s.live[r] + Cardinality({r} \cap R)],
               !.init = k > Len(Steps),
               !.uncounted = @ \/ objects + s.live["buffer"] + s.live["tables"] > 0]

RestInit(s, k) == IF k > Len(Steps) THEN Acquire(s, k) ELSE PublicTerm(Acquire(s, k))

Becomes(s) ==
  /\ initialized' = s.init /\ points' = s.points /\ live' = s.live
  /\ bytes' = s.bytes /\ uncounted' = s.uncounted

Failing(k) == IF k > Len(Steps) THEN fails' = fails ELSE fails < MaxFails /\ fails' = fails + 1

-----------------------------------------------------------------------------
\* The library loads the connector as a plug-in and initialises it.
Load(k) ==
  /\ ~registered
  /\ Failing(k) /\ Becomes(RestInit(Now, k))
  /\ registered' = (k > Len(Steps))
  /\ UNCHANGED <<objects, unloads>>

\* H5rest_init registers the connector unless the library has it, in which the library
\* initialises it, and initialises it if it still is not; if that fails it calls H5rest_term
\* once more.
H5rest_init(k) ==
  /\ ~initialized
  /\ Failing(k)
  /\ Becomes(IF k > Len(Steps) THEN RestInit(Now, k) ELSE PublicTerm(RestInit(Now, k)))
  /\ registered' = (registered \/ k > Len(Steps))
  /\ UNCHANGED <<objects, unloads>>

\* H5rest_init finds the connector registered and initialised.
H5rest_init_again == registered /\ initialized /\ UNCHANGED connectorVars

\* The connector stays registered.
H5rest_term ==
  /\ Becomes(PublicTerm(Now))
  /\ UNCHANGED <<registered, objects, fails, unloads>>

\* The library closes the connector, after the last object of it, and calls H5_rest_term.
Unload ==
  /\ registered /\ objects = 0 /\ unloads < MaxUnloads
  /\ Becomes(Term(Now))
  /\ registered' = FALSE /\ unloads' = unloads + 1
  /\ UNCHANGED <<objects, fails>>

\* A struct is allocated with RV_malloc, and freed with RV_free.
Open ==
  /\ initialized /\ objects < MaxObjects
  /\ objects' = objects + 1 /\ bytes' = Mod(bytes + 1)
  /\ UNCHANGED <<registered, initialized, points, live, fails, unloads, uncounted>>

Close ==
  /\ objects > 0
  /\ objects' = objects - 1 /\ bytes' = Mod(bytes - 1)
  /\ UNCHANGED <<registered, initialized, points, live, fails, unloads, uncounted>>

ConnectorNext ==
  \/ \E k \in 1..(Len(Steps) + 1) : Load(k) \/ H5rest_init(k)
  \/ H5rest_init_again \/ H5rest_term \/ Unload \/ Open \/ Close

ConnectorSpec == ConnectorInit /\ [][ConnectorNext]_connectorVars

-----------------------------------------------------------------------------
\* Types of the state.
ConnectorTypeOK ==
  /\ registered \in BOOLEAN /\ objects \in 0..MaxObjects
  /\ Now \in State /\ bytes < Width
  /\ fails \in 0..MaxFails /\ unloads \in 0..MaxUnloads

\* An initialised connector has all it needs, none of it freed: whatever initialisations
\* and terminations by library and application came before.
Usable == initialized => points = Resource /\ \A r \in Resource : live[r] > 0

\* A global variable never points to something that is freed.
PointsToLive == \A r \in points : live[r] > 0

\* What is left behind when the connector is not initialised: one of each kind at most per
\* initialisation that failed (H5_rest_init does not release them), and an error class
\* and a stack per closing by the library (H5_rest_term does not release them).
LeftBehind ==
  LET own == IF initialized THEN 1 ELSE 0
  IN /\ \A r \in {"curl", "buffer", "tables"} : live[r] <= fails + own
     /\ \A r \in {"class", "stack"} : live[r] <= unloads + own

\* Unless H5rest_term or H5_rest_init forgot memory that was still allocated, the count is that
\* of the memory allocated, so that H5rest_term reports what is left and nothing else.
CountExact == ~uncounted => bytes = Mod(Allocated)

\* The global variables and the flag of the connector agree with what is allocated.
Consistent == ConnectorTypeOK /\ Usable /\ PointsToLive

\* What is allocated is bounded, and counted where no count was forgotten.
Accounted == LeftBehind /\ CountExact
=============================================================================
