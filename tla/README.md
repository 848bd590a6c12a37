# A verification of the HDF5 REST VOL connector

The connector (`src/src`) is a plug-in of the HDF5 library: it carries out the
calls of an HDF5 application (files, groups, datasets, attributes, links) as HTTP
requests to a server such as HSDS, through libcurl, and parses the JSON answers
with YAJL.  This directory holds TLA+ models of its parts, TLC configurations that
check them, and TLAPS proofs about them.  Every definition of the models is
translated from the C code; `PROJECT.json` ("map") gives the lines each stands for.

In what follows C files are named without `src/src/rest_vol_` and `.c`
(`dataset:570`), `rest_vol:n` is `src/src/rest_vol.c`.

## 1. Inventory

| Component | State it keeps | Operations | Hard about it |
|---|---|---|---|
| Multi-dataset transfer loop (`RV_curl_multi_perform`) | one `dataset_transfer_info` per dataset, `failed_handles_to_retry`, `num_still_running`, `num_prev_running` | attach handles, poll, read messages, retry after 503, deliver, clean up | answers in any order, retries, one failure among several transfers, leaving the loop at the right time |
| 503 backoff | `current_backoff_duration`, `time_of_fail` | grow and randomise, give up at the limit | units, number of attempts |
| Dataset I/O (`RV_dataset_read`, `RV_dataset_write`) | the selection in a dataset's own dataspace; buffers of the call | resolve `H5S_ALL`, name the selection to the server, gather, convert, pack, scatter | a selection that outlives its call, lengths and types carried from one transfer to the next, arithmetic on hyperslabs |
| In-memory objects (`RV_object_t`) | domain pointer, URI, ids; `u.file.ref_count` | open, create, close of each kind, external links, copies for callbacks | reference counts over any order of calls and failures |
| Object registry and hash table (`util/rest_vol_hash_table.c`) | chains, number of entries, prime index; URI to object | insert, look up, remove, enlarge, iterate | entries that outlive their object or belong to another view; growth that fails; keys that point into values |
| Shared easy handle and `response_buffer` | options that stay set between requests; text of the last response | `RV_curl_get`, `_put`, `_post`, `_delete` and direct uses | what one request leaves behind for the next |
| Authentication | user, password or token on the handle | environment, configuration file, Active Directory | credentials belong to the handle, not to a file |
| Files | the file struct, the server's domain | create, truncate, open, reopen, flush, is_accessible, size, delete, close | several requests, one of which fails; other clients |
| Lookup by path (`RV_find_object_by_path`) | none between calls | one request (server 0.8 and later) or recursion over links (older) | link cycles, external files, links changed between requests, the callback run twice |
| Links | none | create, delete, exists, info, value, name by index | two requests per call; other clients |
| Link and object iteration | link and object tables, visited tables, a static depth | build, sort, traverse with the application's callback | cycles, early stop, what a failure leaves in static variables |
| Attributes | as in-memory objects | create, open, read, write, rename, delete, exists, info, iterate | up to eight requests per call; index bounds; copies of structs |
| Init and term | `H5_rest_id_g`, `H5_rest_initialized_g`, curl handle, tables, error classes | register, initialise, terminate, by library or application | failure in the middle; two pairs of functions |
| JSON generation and parsing | none | types, dataspaces, property lists | pure conversions |

The application calls the connector from one thread (the HDF5 library serialises its
callers).  Concurrency is that of the transfers inside one read or write call, and
that of the server, which other clients change between two requests of one call.
Components meet in five places: every handler sends requests through the shared
handle and reads `response_buffer`; objects point to a file struct that they keep
alive by its reference count; `RV_dataset_open` finds other views of a dataset through
the registry, which is a hash table; links, attributes and opens by path begin with a
lookup; and iteration opens and closes objects around the application's callback.

What makes each part correct is stated by the properties of section 3.
`PROJECT.json` ("hazards") lists what is hard to test, line by line, and which
property covers it.

## 2. Modules

| Module | Models |
|---|---|
| `RVCurlMulti`, `RVCurlMulti_proofs` | the transfer loop and the attach and release parts of its two callers |
| `RVBackoff` (proofs in `RVCurlMulti_proofs`) | the arithmetic of the backoff |
| `RVSelection` | selections: what HDF5 means by them (reference), the text sent for them, contiguity, offset |
| `RVDatasetIO`, `RVDatasetIO_proofs` | a read or write call from its arguments to the delivered answers |
| `RVLifetime` | abstract: what reference counting of file structs promises |
| `RVObjects`, `RVObjects_proofs` | in-memory objects, registry, shared dataspaces; implements `RVLifetime` |
| `RVMap` | abstract: what the connector expects of a table |
| `RVHashTable` (proofs in `RVObjects_proofs`) | chains, growth, removal, iterators; implements `RVMap` |
| `RVRequests`, `RVRequests_proofs` | the shared handle, the response buffer, authentication, and handlers of each kind over them |
| `RVPaths`, `RVPaths_proofs` | paths, links, what HDF5 means by a path (reference), and what a whole lookup comes to (`Find`) |
| `RVLookup`, `RVLookup_proofs` | `RV_find_object_by_path`, activation by activation; shown to come to `Find` |
| `RVLinks`, `RVLinks_proofs` | the link operations, which use `Find` for their lookups |
| `RVVisit` (proofs in `RVObjects_proofs`) | H5Literate, H5Lvisit, H5Ovisit |
| `RVAttributes`, `RVAttributes_proofs` | delete, exists, info, name by index, iteration and rename, request by request |
| `RVInit` (proofs in `RVRequests_proofs`) | initialisation, termination, the count of allocated bytes |
| `MC...` | instances for TLC |

The `_proofs` modules hold the theorems of section 4, one for each group of modules that
belong together: the objects in memory, the tables they are found in and the visits
from one to the next; the transfer loop and its backoff; the requests and the state that
they share, with its allocation.

**RVCurlMulti.**  `pc` is the place in the loop: `perform` (inside
`curl_multi_perform`), `read` (the `while` over messages), `retry` (the `for` over
parked handles), `release` (the caller's `done:`), `returned`.  `phase` says where each
easy handle is, `retry` is the set of occupied slots of `failed_handles_to_retry`,
`resp` and `sent` are the response buffer and `bytes_sent`, `msgs` libcurl's queue.
libcurl and the server are external: an attempt ends with 200, 201, 503, another error
status, or a connection that breaks after a 200 status line (`cut`), for which libcurl
still reports 200.  `ReadBusy`, `ReadOK` and `ReadOther` are the three branches on the
response code, `Gate` the condition `num_prev_running != num_still_running` in front of
them, `RetryDue` the rest of the round with any subset of the parked handles being due.
Any libcurl call may fail (`LibraryError`).  The number of 503 answers a transfer bears
is between `MinFails` and `MaxFails`; `RVBackoff` computes them from the code's
constants.

**RVDatasetIO** has one action per transfer that is set up (the body of the `for` loop
over datasets), one per request answered, and one for each way out.  `dsel` is the
selection in the dataspace that the struct of a dataset holds: it is the one thing that
outlives a call, and the code reads its type before it resets it (`SelType`).  Values are
named by where they were when the call began, so that the order of elements and the
buffer they come from are visible.  Element classes are fixed size, sequences (`vlen`)
and variable-length strings (`varstr`); `conv` says that type conversion is needed.
What libcurl does in between is `RVCurlMulti`'s: here the call may end with any of its
requests answered.  Two transfers may name the same dataset; views of a dataset that
share a dataspace behave like that.

**RVObjects.**  Handles are the structs of groups, datasets, datatypes and attributes,
slots those of files.  Each handler is one action with the handler's name; what several
handlers do in the same way is stated once (`OpenHere`, `Close`, ...).  A handler's net
effect is one action, because the application cannot see between its steps.
`OpenFails` and `CreateFails` keep what a failing path leaves behind: the registry
entry removed by URI (whoever owns it) and the object on the server.  The registry is
one map, because the URI determines the type; attributes are all registered under the
empty URI, as in the code.  `CopyForCallback` is the struct that iterations hand to a
callback: it counts as a user, is not registered, and closing it unregisters the
original.  The copy of a *file* struct, which shares the count, is in `RVAttributes`.

**RVHashTable** keeps the chains as sequences.  `keyOf` names the value whose memory
holds an entry's key: in the registry the key is the URI inside the object, so that
overwriting a value has to move the key.  Growth (`Grow`) may fail, as may the
allocation of the entry after it.

**RVRequests** keeps of each libcurl option whether the request in progress has set it
(`own`) or an earlier one (`old`), and of the response buffer whether its text belongs to
the last request.  A handler is a sequence of requests; `Proceed` is its reaction to an
answer, `Reset` the end of the `RV_curl_` functions, `Connect` the choice of connection
information.  The application may change the environment between calls, within one way of
logging in (`Environments`).

**RVPaths, RVLookup, RVLinks.**  `Meant` is what HDF5 means by a path.  It and `Find` are
recursive functions of the number of soft and external links that may still be followed
(`Walk`, `Find`), so that both end whatever the links are.  `RVLookup` keeps the stack of
activations of the recursive C function with the values they hold across requests; between
two of them another client may change a link, and any request may fail.  A server is `old`
(links followed by the connector), `traversing` (0.8.0) or `long_names` (0.8.6).
`LookupIsFind` shows that the requests together come to `Find`, which `RVLinks` then uses as
one step.

**RVVisit** keeps the stack of activations twice: of the functions that build the
nested tables, and of those that traverse them.  A nested table hangs in the entry of
the link that leads to its group, and a group gets one table in a call
(`visited_link_table`); `tables` therefore names a table by its group, and `sub` says
that an entry has one.  The group a visit starts from may get a second one, so that the
first is `Outermost`'s.  The callback may go on, stop or fail.  An iteration may be given
an index, any that is no larger than `CrtTime` is long, whatever is in the group then or
when the answer comes.  In increasing order the loop compares it with the number of links
(`Begun`), in decreasing order it does not: then the loop begins beyond the table (`Stray`),
where a read ends the program (`VisitCrashes`), makes the callback see what is no link, or
makes the call fail (`CallbackStray`).

**RVAttributes** has one action per request.  `named` collects what the arguments have
meant since the call began, `strayed` tells that an answer was taken for something that
it was not (an error page for a value).  `copy` is the reference count inside the
copied file struct.

**RVInit** lets every step of `H5_rest_init` fail, in any sequence of the four functions
except initialising again what is initialised, which the library does not do.

## 3. Runs

State counts are distinct states; times are with two workers.

| Run | Instance | Properties |
|---|---|---|
| `curl_multi` | 3 transfers, uploads of 1 piece, 1 to 2 refusals; 624,000 states, 100 s | `TypeOK`; `HandlePlacement`: a handle is in one place and not touched after clean-up; `RetriesAfresh`: retries send from byte 0 and deliver one answer without the 503 page; `SuccessIsEarned`: what may be left behind when the call succeeds; `AcceptedIsFinal`: no re-send of what was accepted; `CallReturns` |
| `backoff` | the code's constants in units of 10 microseconds, ends and middle of `rand()` | `GivesUpInRange`: 12 to 33 refusals |
| `objects` | 3 handles, 2 file structs, 2 dataspaces, 4 objects in 2 files; 74,000 states, 55 s | `TypeOK`, `DomainCounts`, `SpaceCounts`, `RegistryLive`, `RightDomain`, `LifetimeSpec` (refinement) |
| `hash_table` | 4 colliding keys, 2 values, two primes and beyond | `WellFormed`: placement, load, count, keys inside their values; `IterationExact`; `MapSpec` (refinement) |
| `visit` | 72 graphs on 3 groups and a dataset, one change; 546,000 states, 150 s | `RecursionSound`: the recursion is no deeper than there are groups, the static depth counts it, and nothing outside a table is read but for an index beyond the links in decreasing order; `ReportsExact`: each link or object reached is reported once (the start again if a link leads back); `CallReturns` |
| `lookup` | 32 graphs in 2 files, 10 paths, one failure, one change; 221,000 states, 90 s | `FindsExactly`, `OwnAnswers`: type and contents are those of the object found; `StackUnwinds`: external files closed, recursion ends; `LookupEnds` |
| `links` | 12 graphs, 7 paths, 8 targets, one change; 183,000 states, 20 s | `AnswersTrue`: H5Lexists, and names by index in either order; `ChangesAsAsked`: only the named link changes, a created link leads to its target, nothing changes without write intent |
| `requests` | 2 files, one user, 3 ways to log in; 355,000 states, 70 s | `RequestsOwn`: method, host, body and credentials of a request are its own; `SuccessEarned`; `DomainsExact`; `HandlerReturns` |
| `init` | 2 failures, 2 unloads, 2 objects that outlive the connector, a count of 4 bits | `Consistent`: an initialised connector has all it needs; `Accounted`: what is left behind, and the count |
| `attributes` | 3 objects, 2 names, one change by another client; 389,000 states, 40 s | `RenameSafe`, `AnswersTrue`, `FileKept`, `ChangesAsAsked`, `AttrCallEnds` |
| `dataset_io` | 2x3 datasets, 27 transfers alone and in pairs, one call after the other; 103,000 states, 60 s | `ReadExact`, `WriteExact`: the elements named by the arguments travel, in their order, to the places named, and no other changes; `ContiguousSound`: a memory selection taken for contiguous is; `SetUpSound`: no transfer is passed over, one free, write intent |
| `curl_multi_waits` | 2 transfers | violation: `WaitsForAll`, "waits until all requests on it have finished before returning" (`rest_vol.h:777`) |

Several properties are conjunctions of named parts, each with its own comment in the
module; each part has been broken by a mutation of the code's translation
(`PROJECT.json`, "mutants").

**Exceptions inside properties.**  Where the code does not do in every case what the
property says, the property names the case it leaves out, as narrowly as the model
allows, and section 5 lists what lies behind it.

**Bounds.**  Three transfers let one be parked, one be running and one have finished
at once; a limit of 1 to 2 refusals has rounds below, at and beyond it.  Three handles
make two views and a third object, or a group as the location of both; two file
structs a file opened twice, or an external file.  Four keys overflow two primes and
reach the sizes beyond the list.  The graphs of `visit` have cycles through any group,
shared groups and datasets, empty groups and dangling links, and an index may be that of a
link, one beyond the last, or beyond it once another client has changed the group; those of `lookup` relative and
absolute soft links, chains of external links and an external cycle; `MaxDepth` 8 is more than any
path needs that does not recurse for ever, and reaching it stands for exhausting the C
stack.  One change by another client can fall between any two requests.
In `dataset_io` two rows of three columns are the least in which a row is not a square
and a block can have gaps; selections of one to six elements occur in all four kinds,
in memory spaces of one and two dimensions.  A count of 4 bits wraps within the reach
of two objects and the resources.  Symmetry is used in `objects` only.

**Deadlock** is not checked where a single call is the whole behaviour (`lookup`, `links`,
`visit`, `attributes`), where the program may crash (`dataset_io`), and for the backoff,
which stops when it gives up.  It is checked in the others.

**Fairness.**  The connector's own steps are weakly fair: they run in the application's
thread, and its callbacks return.  In `curl_multi` the answer to each request is
strongly fair, because a request is attempted only while `curl_multi_perform` runs; in
`requests` an answer, a refusal or a broken connection is weakly fair, because the
call blocks in it.  No libcurl timeout is set in the code, so that nothing weaker would
do: a server that takes a request and never answers keeps the call waiting.  Fairness
does not say that the answer is a good one.

## 4. Proofs

TLAPS has checked the following for every value of the constants that the ASSUMEs of
the modules allow.  Each specification of a component has an
inductive invariant, `Inv` (`TableInv`, `NestInv` and `ExactInv`, `BackoffInv`,
`ConnectorInv` where a proofs module has several), with one lemma per action that says
the action keeps it; the results follow.  The invariants were first checked by TLC on the
run's instance.

| Module | Theorems (property of the run) | Inductive invariant |
|---|---|---|
| `RVObjects_proofs`, objects | `TypeCorrect`, `CountsExact`, `SpacesExact`, `LookupSafe`, `DomainCorrect`: the invariants of `objects`; `Refinement`: implements `RVLifetime` | the five together |
| `RVObjects_proofs`, hash table | `TableWellFormed` (`WellFormed`), `IterationIsExact` (`IterationExact`); `TableImplementsMap` (`MapSpec`): implements `RVMap` | which entries the chains hold, and their count (`Stored`); what the iterator has still to return from where it is (`InPlace`) |
| `RVObjects_proofs`, visits | `RecursionIsSound` (`RecursionSound`), `ReportsAreExact` (`ReportsExact`): all of `visit` but liveness | `NestInv`: types (`VisitTypes`), which groups have a table and in which entry it hangs (`OwnTables`, `Entered`), where each activation is (`Builds`, `Traverses`), what the static depth is (`Deep`); `ExactInv`: tables copy the server's links (`Copies`), hang in one tree (`Tree`), and what has been reported is what has been passed (`Reporting`) |
| `RVCurlMulti_proofs`, loop | `TypeCorrect`, `HandlesPlaced`, `RetriesClean`, `SuccessEarned`, `NeverRepeated` (`AcceptedIsFinal`): all of `curl_multi` but liveness | the four invariants, and which attempts may have sent or received anything (`Attempts`, `Undelivered`), that a parked transfer is below its limit (`BelowLimit`), what a read message leaves (`ReadAnswers`), and what `num_prev_running` says of the rounds (`RoundCounts`) |
| `RVCurlMulti_proofs`, backoff | `GivesUpInTime` (`GivesUpInRange`) | the least and the greatest backoff after each number of refusals |
| `RVRequests_proofs`, requests | `SuccessIsEarned` (`SuccessEarned`), `OptionsStayOwn` (`RequestsOwn`), `DomainsAreExact` (`DomainsExact`) | their parts, the shape of a call at each of its requests (`CallShape`), that the method is reset between calls (`MethodReset`), and that the environment keeps to one way of logging in (`OneWay`) |
| `RVRequests_proofs`, initialisation | `GlobalsConsistent` (`Consistent`), `MemoryAccounted` (`Accounted`) | their parts, and that an initialised connector is registered |
| `RVAttributes_proofs` | `RenamesAreSafe`, `FileIsKept`, `AnswersAreTrue`, `ChangesAreAsAsked`: all of `attributes` but liveness | the safe parts, the stages of a call (`Staged`), the references it holds (`References`), what its arguments have meant (`Meant`), where the value of a renamed attribute is (`Renaming`), what an iteration has passed (`Traversed`) |
| `RVDatasetIO_proofs` | `ReadsAreExact`, `WritesAreExact`, `ContiguousIsSound`, `SetUpIsSound`: all of `dataset_io`; `AskedIsSelected` about the text of hyperslabs | `ReadExact`, the order of the set-up (`Staged`), what it has made sure of for each transfer (`Prepared`), the bodies of a write (`Packed`), write intent (`Guarded`) |
| `RVPaths_proofs` | `FindSound`, `FindComplete`: what the recursive lookup comes to, compared with what HDF5 means | none: facts about `Walk` and `Find` |
| `RVLookup_proofs` | `StackIsUnwound` (`StackUnwinds`), `FindsAsMeant` (`FindsExactly`), `AnswersAreOwn` (`OwnAnswers`): all of `lookup` but liveness | what each activation waits for (`StackInv`), what it seeks, knows and has come to (`LookupInv`), how many files are open (`FilesInv`) |
| `RVLinks_proofs` | `AnswersAreTrue` (`AnswersTrue`), `ChangesAreAsked` (`ChangesAsAsked`): all of `links` | what the checks before the first request leave (`Checked`), what the arguments have meant so far (`Noted`), what the lookup has found (`Looked`) |

**Objects.**  None of the five invariants is inductive by itself.  Sharing a dataspace is
safe only if the registry names an open view (`RegistryLive`) of the same dataset, which
has a space that is in use (`SpaceCounts`); a location's struct is in use only because
counts are exact (`DomainCounts`); a struct may be renamed by an allocation only because
nobody uses it; and an object keeps the file name it was opened with only because the
struct is not freed before the last user leaves.  The proof is organised by what a step
does to counts: `JoinCounts` and `LeaveCounts` (one user more or less), `TakesSpace` and
`CloseSpace` (one view more or less), `Enter` (all a new object must satisfy), then one
lemma per action.  The refinement uses `CountMeaning`: a struct with one reference has
one user, so that freeing it is the last user's `Leave`.

**Transfer loop and backoff.**  `SuccessIsEarned` needs to know why the loop was left:
`num_still_running` was 0, and what was still parked then is exactly what `Gate` had
kept from being read or what waits for its backoff.  The bound on retries is a constant
there; the backoff part gives the constant from the code's arithmetic, for any range of
`rand()` and any unit that 10 microseconds are a multiple of.  It compares the backoff
with two tables, the least and the greatest value it can have after n refusals, whose
entries are checked one from the next (`ShortestNext`, `LongestNext`).

**Initialisation.**  `Release` and `Term` run through a list of resources; the lemmas
say what each does to a whole state (`Sound`, `Exact`, `Bounded`), so that the four
functions are compositions of them.  The count of bytes is exact modulo the width of the
counter, whatever that is: it may wrap around, and comes back (`ModAdd`).

**Requests.**  An option that an earlier request set in the shared handle is harmless
because every request sets the options it depends on but the method, and the method is
that of a new handle again between calls (`MethodReset`).  Credentials are those of the file's
own call only because all that is in the environment during a session is of one kind
(`EnvironmentsAssumption`): the code takes what it finds, and keeps it in the handle for
every file.

**Attributes.**  A rename is safe because the value read is that of the old attribute as
long as nobody else changes it, and because nothing is deleted before the new attribute
has been written; the invariant follows the value from one attribute to the other.
Positions in the list of attributes move when another client creates or deletes one,
so that answers are related to what was true at some moment of the call (`named`).

**Dataset I/O.**  A dataset's dataspace has one selection, which the set-up of a later
transfer may replace before the answer to an earlier one is scattered; `SelectionHeld`
says when it is still the one the transfer left.  Memory and file selections have
the same number of elements (`Matched`), and the server is asked for the elements that
the application selected: `BlocksAreTriplets` shows for every start, stride, count and
block that `start:stop:step` takes in the same coordinates wherever `Expressible` holds.
That what is taken for contiguous is contiguous is a fact about numbers: elements are
numbered by the scheme of Horner, a recursion over the dimensions, and the lemmas follow
it step by step (`HornerIs`; `Monotone`, `Following`).  `Successor` finds the element
after a given one, in the last dimension that has room, and `CountsUp` concludes that the
numbers in order are m, m + 1, and so on.  A write is exact because the bytes at its offset are
those of the first element (`SourceIs`), and all of its body is made before it is sent.

**Hash table.**  The proof forgets the chains: `EntriesOf` is the set of entries in all of
them, and one lemma per operation says what it does to that set (`InsertIs`, `RemoveIs`,
`GrowIs`).  Relinking loses nothing because the places of a table, counted from the last
back, are as many as its entries (`FromLastIs`, `PlacesAre`).  Growth leaves room because each
prime is more than 2 above the one before, and beyond the list the size is ten times the
entries.  Removing under an iterator is safe because what it has returned lies before it
in the order of chains and positions (`RemovedBehind`).

**Paths.**  `Walk` and `Find` are shown to satisfy their recursion step by step (`WalkIs`,
`FindIs`), because a recursive function over 0..n is the only one with its defining
equation; properties of them follow by the least number of follows at which they might fail
(`Least`).  More follows than needed change nothing (`WalkMore`).  `FindSound` says that
what the recursion of the connector finds on an old server is what HDF5 means, and
`FindComplete` that it finds all that is meant with as many links followed.  Their
hypotheses are the limits stated in section 5: soft links are absolute and lookups start at
a root (a relative value is looked up from the wrong object), and the directories of paths
are reached by hard links (an old server follows no others).

**Lookup.**  Every activation but those for a directory seeks what the whole call does
(`Seeks`): the connector replaces a link by its value and passes the result down
unchanged.  So what the top one finds is `Find`, and the theorems about `Find` say what
that means.  The stack ends because in well linked groups each follow leaves one link
less on the way to the object (`Nears`); then `MaxDepth` is out of reach, which the
assumption puts one activation beyond the longest way.  Files are closed because as many
are open as activations hold one (`FilesInv`).

**Links.**  A call is a lookup and then a request, and other clients move between the two.
`places` and `aims` collect what the path and the target have meant since the call began,
and the invariant carries them from the lookup to the request: with no change in between
they have one meaning, with changes the request acts on one of those they had.

**Visits.**  `NestInv` follows the one decision that keeps the recursion finite: a group is
put into `visited_link_table` before its links are asked for.  Hence the activations on the
stack have different groups (`OwnTables`), and there are at most as many as groups and the
outermost.  The traversal nests as the tables do: an activation stands at the entry in which
the table of the next one hangs (`Traverses`), and the static depth is one less than the
stack, or more where an earlier call has failed (`Deep`).  Only the first activation of an
iteration with an index can be outside its table (`Astray`), and then beyond its end and at
or before the index.  That the index is beyond the links of the group too, if no other
client has changed it, needs the table to have all of them, which is part of `ExactInv`
(`TableIsWhole`); `RecursionIsSound` is therefore proved from both.  `ExactInv` follows the reports.
Tables are copies of the server's links, whatever their order, and every group that they
lead to is entered (`Copies`), so that the groups with a table are those that links reach.
During the traversal there is a set F of groups whose tables are done with, and what has
been reported is exactly the entries of F, the entries passed, and those entered
(`Reporting`); a step adds one entry, and leaving a table moves its group to F.  When the
outermost table is done, every table is, because all of them hang in one tree below it
(`Tree`).  Both invariants have been checked by TLC on the instance of `visit`.

**Assumptions** are the ASSUMEs of the modules, which TLC evaluates in the runs.  Sets of
handles and transfers are finite, counts are natural numbers, special values (`None`,
`H5S_ALL`, ...) differ from the others where the code tells them apart, and functions
have their types.  Beyond that: `WidthAssumption`, that the count of bytes is wide enough
for what one initialisation allocates, as every `size_t` is; `DrawsAssumption`, that
`rand()` is between 0 and `RAND_MAX`; `EnvironmentsAssumption`, above; `AttrStatesAssumption`,
that the attributes of an object have different names, which the server sees to;
`DatasetAssumption`, that selections have the rank of their dataspaces and that strides,
counts and blocks are positive and blocks do not overlap, which the HDF5 library checks;
`PrimesAssumption`, that the list of sizes of a table grows by more than 2 each time;
`RootAssumption` and `LookupAssumption`, that the root of a file is an object of it, that
hard links stay in their file, which HDF5 demands of a server, and that the C stack has room
for every path that the server itself would follow; `CrtTimeAssumption`, that the links of a group
have different creation times; `GraphAssumption`, that no group has more links than there are
creation times to give.

**Only model-checked.**  Every invariant, action property and refinement that a passing run
checks is stated by a theorem.  What is left to TLC is liveness under fairness
(`CallReturns` of the loop and of visits, `LookupEnds`, `HandlerReturns`, `AttrCallEnds`),
which is beyond the prover; of it, the bounds on nesting and on refusals are proved.  The
run `curl_multi_waits` shows a counterexample, which a theorem cannot.

## 5. What the code does otherwise

`PROJECT.json` ("findings") has the one shown by a run of its own, `curl_multi_waits`:
`RV_curl_multi_perform` leaves its loop when nothing is running, although refused
requests still wait for their backoff (`rest_vol:3891`), and succeeds without them.
The others met while modelling are in the models as the code has them, and are the
exceptions of the properties.

Transfers
* Messages are read only when the number of running requests has changed: if all end in
  the first `curl_multi_perform`, no answer is looked at and the call succeeds (`rest_vol:3703`).
* The result code of a finished transfer is not examined: a connection that broke after
  a 200 status line is delivered like a complete answer (`rest_vol:3707`).  The model
  does the same, and no property tells a `cut` body from a whole one.
* The backoff limit, "30 sec" in the comment, is compared with microseconds and is 3000
  seconds (`rest_vol:35`, `:3749`).

Dataset I/O
* The offset of a contiguous memory selection is `ret * (dims + start)` per dimension, where
  row-major order has `ret * dims + start` (`dataset:5052`).
* The step of a triplet is `stride / block`: a hyperslab with 1 < block < stride is
  asked for as more or fewer elements, and block > stride (a single block) as a step of 0 (`dataset:4182`).
* Without a memory dataspace the dataset's own takes the file selection: of two reads of
  one dataset in one call the first is scattered by the selection of the second (`dataset:570`).
* The selection type is read before the selection is set to "all": a whole-dataset write
  after a point selection is sent as points, without any, and fails (`dataset:926`, `:939`).
* The offset is not applied to sequences, nor before type conversion copies the
  elements (`dataset:1065-1118`); sequences are packed by the first transfer's memory type (`dataset:1108`).
* Variable-length strings leave `write_body_len` as it was: 0 means that the transfer
  is passed over and the write succeeds (`dataset:1105-1128`, `:1327`).
* `selection_body` is freed once per transfer in the clean-up (`dataset:1429`).
* A one-point memory selection counts as contiguous, though "any point selection is
  non-contiguous" (`dataset:4975`), and then fails for want of an offset.
* H5Dget_space returns a copy of the dataspace with whatever selection I/O left in it (`dataset:1505`).

Objects and files
* A table entry is removed by URI whichever view is closed: later views get dataspaces
  of their own, and resizes are not "visible to both views" (`dataset:359`, `:1843`).
* When the connection information cannot be set, `RV_file_close` is given a struct
  whose `obj_type` and `ref_count` were never set (`file:286`).
* The copy of a file struct for H5Aiterate keeps the copied count: closing it takes the
  file out of the registry, or leaks the copy (`attr:1738`).

Shared handle and authentication
* Active Directory authentication leaves POSTFIELDS pointing to a local buffer, and takes over
  the body size of an earlier POST (`rest_vol:1226`, `:1296`).
* Credentials are set on the handle when a file is opened and used for all files (`rest_vol:915`).
* H5Aread and H5Aget_info succeed with any HTTP code and take error pages for values
  (`attr:747`, `:1130`); a rename then writes the page to the new attribute and deletes the
  old one (`attr:2081`).
* With an endpoint and no user name Active Directory is always asked (`rest_vol:757`), and the
  endpoint of `.hscfg` is compared with a NULL string (`rest_vol:849`).

Lookup, links and iteration (the first three with servers before 0.8)
* The value of a relative soft link is looked up from the object the lookup started at
  (`rest_vol:2373`).
* "/" is asked of the location object (`rest_vol:2232`), so that deleting "/name" deletes in it (`link:863`).
* A cycle of soft links recurses without a limit (`rest_vol:2377`).  The model ends it in phase
  `overflow`, and `LookupEnds` takes that for an end: it says that nothing else keeps a lookup
  from ending.
* H5Ldelete and H5Adelete_by_idx do not look at the write intent (`link:901`, `attr:1361`).
* That a hard link stays in its file is checked before its target is resolved through
  external links (`link:166`).
* A failing callback leaves the static depth above 0, and later iterations do not store
  their index (`link:2064`).
* An iteration in decreasing order starts at the index it is given, and its one test is
  `last_idx >= 0` of an unsigned number (`link:2100`, `object:1814`, and `attr:2554` for
  attributes): an index beyond the links, from the application or from an earlier call
  before another client removed links, makes it read outside the table and pass what is
  there to the callback, where increasing order ends at once.  `RecursionSound` names this case (`StartsBeyond`), as
  `strayed` does in `RVAttributes`.
* A positive result of the callback ends only the traversal of its own group: that of the
  group above tests only for a negative result, and goes on with the next link
  (`link:2065`, `:2143`).
* H5Oopen_by_idx in decreasing order computes the position from `u.object.len` of a JSON
  array (`rest_vol:2712`), which is another member of the union than its length.
* A cyclic link keeps its table entry (`link:1879`); the object a visit starts from is
  reported again when a link leads back to it (`object:1740`).
* Error exits of the functions that build tables leave nested tables allocated (`link:1916`).

Attributes, initialisation
* Renaming an attribute of a committed datatype by path is done and reported as a
  failure, for want of a `break` (`attr:2160`).
* The bound of an attribute index is checked while the index is still 0 (`rest_vol:2797`).
* An iteration over attributes in decreasing order starts at the given index, counted from
  the first attribute, and goes down from there (`attr:2554`), so that 0 means one attribute and not
  all of them; `IterationExact` takes this as meant.
* A failed initialisation releases nothing, because the flag that the termination looks
  at is set last (`rest_vol:518`); H5rest_term zeroes the count of bytes while objects
  are open, and closing them wraps it around (`rest_vol:549`).

## 6. Not modelled

* JSON texts of datatypes, dataspaces and property lists (`RV_parse_...`,
  `RV_convert_...`, about a third of the source): conversions without state, whose
  result does not decide what the modelled handlers do next.  Parsing appears where an
  answer that cannot be parsed makes a handler fail.
* Object references, the background buffer of compound subsets and the length of URLs
  in dataset I/O; base64 as a text.
* `H5Fget_obj_count`, `H5Fget_obj_ids`, `H5Dget_...`, `H5Aget_space` and the like, which only
  read local state, and H5Ocopy and the other operations the connector refuses.
* Allocation failures inside the HDF5 library, except where an action names them, and
  the printing and debugging helpers.
* H5Oopen_by_idx, and sorting by creation order in H5Lget_name_by_idx.  The latter takes the
  same table and makes the same test of the index as the orders by name, which `RVLinks`
  has; sorting by time is in `RVVisit`.
* The composition of all parts in one specification: `RVLinks` takes lookups from `RVPaths`,
  and `RVDatasetIO` requests as answered in any order; both are shown by the modules that
  have the detail (`RVLookup`, `RVCurlMulti`).
