----------------------------- MODULE RVDatasetIO -----------------------------
(***************************************************************************)
(* RV_dataset_read and RV_dataset_write: the set-up of one transfer after  *)
(* the other, with the meaning of H5S_ALL, the selections and the bytes    *)
(* that are sent; then the requests, answered in any order, and the        *)
(* delivery of the answers (RV_dataset_read_cb).  How the requests are     *)
(* repeated and when the call gives up is the subject of RVCurlMulti: here *)
(* the call may end with any of them answered.  Values are named by where  *)
(* they were when the call began.                                          *)
(***************************************************************************)
EXTENDS RVSelection

CONSTANTS Dset,
          ReadOnly,    \* the datasets of files opened without write intent
          Dims,        \* the extent of every dataset
          Transfers,   \* the arguments per dataset: [dset, mem, file, class, conv]
          H5S_ALL,     \* given for a memory or file dataspace
          Junk         \* bytes that are no element of the application's buffer

\* A dataspace has the rank of its selection, one given for the file that of the datasets.
IsSpace(sp) == /\ sp \in [dims : Seq(Nat \ {0}), sel : {sp.sel}]
               /\ IsSelection(sp.sel, Len(sp.dims))

ASSUME DatasetAssumption ==
  /\ ReadOnly \subseteq Dset
  /\ Dims \in Seq(Nat \ {0})
  /\ \A t \in Transfers :
       /\ t.dset \in Dset /\ t.class \in {"fixed", "vlen", "varstr"} /\ t.conv \in BOOLEAN
       /\ t.mem = H5S_ALL \/ IsSpace(t.mem)
       /\ t.file = H5S_ALL \/ IsSelection(t.file, Len(Dims))

VARIABLES
  dsel,     \* the selection in the dataspace that a dataset's struct holds
  pc,       \* "idle", "setup", "perform", "crashed"
  call,     \* [op, xs]: "read" or "write", and the transfers
  i,        \* the transfer to set up
  selbody,  \* RV_dataset_write's selection_body: "null", "live" or "freed"
  wlen,     \* its write_body_len, in elements
  added,    \* the transfers whose handle is in the multi handle
  body,     \* what each of them sends: positions in the application's buffer
  named,    \* the transfers that can name their selection to the server
  served,   \* the transfers answered
  stored,   \* what the call has written to each dataset: <<element, value>>
  bufs      \* what it has put into each transfer's buffer

inputs == <<call, i>>
setup == <<selbody, wlen, added, body, named>>
results == <<served, stored, bufs>>
vars == <<dsel, pc, inputs, setup, results>>

NoCall == [op |-> "read", xs |-> <<>>]

Space(s) == [dims |-> Dims, sel |-> s]
Index == DOMAIN call.xs
FileSel(t) == IF t.file = H5S_ALL THEN AllSel ELSE t.file

Init ==
  /\ dsel = [d \in Dset |-> AllSel]
  /\ pc = "idle" /\ call = NoCall /\ i = 1
  /\ selbody = "null" /\ wlen = 0 /\ added = {} /\ body = <<>> /\ named = {}
  /\ served = {} /\ stored = [d \in Dset |-> {}] /\ bufs = <<>>

\* The call returns; of all this only dsel outlives it.
Return ==
  /\ pc' = "idle" /\ call' = NoCall /\ i' = 1
  /\ selbody' = "null" /\ wlen' = 0 /\ added' = {} /\ body' = <<>> /\ named' = {}
  /\ served' = {} /\ stored' = [d \in Dset |-> {}] /\ bufs' = <<>>

Start(op, xs) ==
  /\ pc = "idle"
  /\ pc' = "setup"
  /\ call' = [op |-> op, xs |-> xs]
  /\ body' = [k \in DOMAIN xs |-> <<>>]
  /\ bufs' = [k \in DOMAIN xs |-> {}]
  /\ UNCHANGED <<dsel, i, selbody, wlen, added, named, served, stored>>

-----------------------------------------------------------------------------
\* The set-up of transfer i.

Cur == call.xs[i]

\* A write looks at the intent of all files before it does anything.
Writable_First == call.xs[1].dset \notin ReadOnly

Writable == \A k \in Index : call.xs[k].dset \notin ReadOnly

RefuseWrite ==
  /\ pc = "setup" /\ i = 1 /\ call.op = "write" /\ ~Writable
  /\ Return
  /\ UNCHANGED dsel

\* What H5S_ALL makes of the selection in the dataset's own dataspace.
Selected_KeepsOld(t) ==
  IF t.mem = H5S_ALL /\ t.file # H5S_ALL THEN t.file ELSE dsel[t.dset]

Selected(t) ==
  IF t.file = H5S_ALL THEN AllSel
  ELSE IF t.mem = H5S_ALL THEN t.file
  ELSE dsel[t.dset]

\* The dataspaces in use, once the dataset's own has selection s.
MemSpace(t, s) == IF t.mem = H5S_ALL THEN Space(s) ELSE t.mem
FileSpace(t, s) == IF t.file = H5S_ALL THEN Space(s) ELSE Space(t.file)

Matches(t) == NPoints(MemSpace(t, Selected(t))) = NPoints(FileSpace(t, Selected(t)))

NextStage_OnePast == IF i > Len(call.xs) THEN "perform" ELSE "setup"

NextStage == IF i = Len(call.xs) THEN "perform" ELSE "setup"

SetUpRead ==
  /\ pc = "setup" /\ call.op = "read" /\ Matches(Cur)
  /\ dsel' = [dsel EXCEPT ![Cur.dset] = Selected(Cur)]
  /\ added' = added \cup {i} /\ named' = named \cup {i}
  /\ pc' = NextStage /\ i' = i + 1
  /\ UNCHANGED <<call, selbody, wlen, body, results>>

\* The bytes of a write.  A selection in memory that is not contiguous is gathered, the
\* others are taken from the buffer's beginning; conversion copies as many elements as are
\* written.
SrcAt(t, mem, k) ==
  CASE IsContiguous(mem) -> IF k < Size(mem.dims) /\ (t.conv => k < NPoints(mem)) THEN k ELSE Junk
    [] ~IsContiguous(mem) -> Elements(mem)[k + 1]

\* The offset of a contiguous selection counts for elements of fixed size alone; that of a
\* point is an error.
Offset(t, mem) == IF t.class = "fixed" /\ IsContiguous(mem) THEN StartToOffset(mem) ELSE 0

OffsetFails(t, mem) == t.class = "fixed" /\ mem.sel.type = "points" /\ IsContiguous(mem)

\* Sequences are packed by the memory type of the first transfer, which has to have a base
\* type, and there has to be one.
PackFails(t, mem) == t.class = "vlen" /\ (call.xs[1].class = "fixed" \/ NPoints(mem) = 0)

Body(t, mem) ==
  [k \in 1..NPoints(mem) |-> IF t.class = "vlen" /\ call.xs[1].class # "vlen" THEN Junk
                             ELSE SrcAt(t, mem, Offset(t, mem) + k - 1)]

\* The selection type is read before the selection is set to "all".
SelType(t) == IF t.file = H5S_ALL THEN dsel[t.dset].type ELSE t.file.type

\* write_body_len: variable-length strings leave that of the transfer before, and text that
\* names points is never empty.
BodyLen_Stale(t, mem) == wlen

BodyLen(t, mem) ==
  LET n == IF t.class = "varstr" THEN wlen ELSE NPoints(mem)
  IN IF SelType(t) = "points" THEN n + 1 ELSE n

\* selection_body is freed and set to NULL for the next transfer.
Released_Dangling == "freed"

Released == "null"

\* Points are named in the text of the body; with a selection type of old, there is nothing
\* to name them with, which makes the text too long for its buffer or not JSON.
SetUpWrite ==
  /\ pc = "setup" /\ call.op = "write" /\ Writable /\ Matches(Cur)
  /\ LET s == Selected(Cur)
         mem == MemSpace(Cur, s)
         len == BodyLen(Cur, mem)
     IN /\ ~OffsetFails(Cur, mem) /\ ~PackFails(Cur, mem)
        /\ dsel' = [dsel EXCEPT ![Cur.dset] = s]
        /\ body' = [body EXCEPT ![i] = Body(Cur, mem)]
        /\ wlen' = len
        /\ added' = IF len > 0 THEN added \cup {i} ELSE added
  /\ named' = IF SelType(Cur) = "points" /\ Cur.file = H5S_ALL THEN named ELSE named \cup {i}
  /\ selbody' = IF Cur.file # H5S_ALL THEN Released ELSE selbody
  /\ pc' = NextStage /\ i' = i + 1
  /\ UNCHANGED <<call, results>>

\* A check or an allocation fails, before or after the selection was dealt with.  The end of
\* RV_dataset_write frees selection_body once per transfer.
SetUpFails(late) ==
  /\ pc = "setup" /\ (call.op = "write" => Writable)
  /\ dsel' = IF late THEN [dsel EXCEPT ![Cur.dset] = Selected(Cur)] ELSE dsel
  /\ LET held == IF call.op = "write" /\ late /\ Cur.file # H5S_ALL THEN "live" ELSE selbody
     IN \/ Return
        \/ /\ held = "freed" \/ (held = "live" /\ Len(call.xs) > 1)
           /\ pc' = "crashed"
           /\ UNCHANGED <<inputs, setup, results>>

-----------------------------------------------------------------------------
\* The requests.

\* RV_dataset_read_cb scatters by the memory dataspace as it is now.
ServeRead(k) ==
  LET t == call.xs[k]
      asked == Asked(Space(FileSel(t)))
      to == Elements(MemSpace(t, dsel[t.dset]))
      got(j) == IF j <= Len(asked) THEN <<t.dset, asked[j]>> ELSE Junk
  IN /\ call.op = "read"
     /\ bufs' = [bufs EXCEPT ![k] = {<<to[j], got(j)>> : j \in DOMAIN to}]
     /\ UNCHANGED stored

\* Of places named twice the last ones.
LastOf(E) == {j \in DOMAIN E : \A n \in DOMAIN E : E[n] = E[j] => n <= j}

\* The server takes as many elements as it selects; of elements named twice the last stays.
ServeWrite(k) ==
  LET t == call.xs[k]
      asked == Asked(Space(FileSel(t)))
  IN /\ call.op = "write" /\ k \in named /\ Len(asked) = Len(body[k])
     /\ stored' = [stored EXCEPT ![t.dset] = {p \in @ : p[1] \notin ToSet(asked)}
                     \cup {<<asked[j], <<k, body[k][j]>> >> : j \in LastOf(asked)}]
     /\ UNCHANGED bufs

\* Variable-length strings are sent as they are in memory, which the server refuses, and are
\* not understood when read, which ends the call.
Serve(k) ==
  /\ pc = "perform" /\ k \in added \ served
  /\ call.xs[k].class # "varstr"
  /\ Understood(FileSel(call.xs[k]))
  /\ served' = served \cup {k}
  /\ ServeRead(k) \/ ServeWrite(k)
  /\ UNCHANGED <<dsel, pc, inputs, setup>>

PerformEnds == pc = "perform" /\ Return /\ UNCHANGED dsel

Connector ==
  \/ RefuseWrite \/ SetUpRead \/ SetUpWrite \/ PerformEnds
  \/ \E late \in BOOLEAN : SetUpFails(late)
  \/ \E k \in Index : Serve(k)

Next ==
  \/ pc = "idle" /\ \E op \in {"read", "write"}, n \in {1, 2} :
                      \E xs \in [1..n -> Transfers] : Start(op, xs)
  \/ Connector

Spec == Init /\ [][Next]_vars
-----------------------------------------------------------------------------
\* Types of the state: the transfer to set up is one of the call, and only what was added is served.
TypeOK ==
  /\ \A d \in Dset : dsel[d].type \in {"all", "none", "points", "hyper"}
  /\ pc \in {"idle", "setup", "perform", "crashed"}
  /\ pc \in {"setup", "crashed"} => i \in Index
  /\ selbody \in {"null", "live", "freed"} /\ wlen \in Nat
  /\ added \subseteq Index /\ named \subseteq Index /\ served \subseteq added

\* What the arguments mean: the elements in the file, and those in memory.
FileElements(t) == Elements(Space(FileSel(t)))
MemElements(t) == Elements(MemSpace(t, FileSel(t)))

\* A later transfer of the call has left the selection of this one's dataset alone, or has
\* the same, or this one does not use it.
OwnSelection(k) ==
  LET t == call.xs[k]
  IN t.mem = H5S_ALL =>
       \A j \in Index : j > k /\ call.xs[j].dset = t.dset
                          /\ (call.xs[j].mem = H5S_ALL \/ call.xs[j].file = H5S_ALL)
                          => FileSel(call.xs[j]) = FileSel(t)

\* Each answered read has put the selected elements, in their order, into the selected places
\* of its own buffer and nothing anywhere else, whatever order the answers came in and
\* whatever calls came before: if the triplets can say what is selected, and no other
\* transfer of the call has changed the dataset's own selection meanwhile.
ReadExact ==
  call.op = "read" =>
    \A k \in served :
      LET t == call.xs[k]
      IN Expressible(FileSel(t)) /\ OwnSelection(k) =>
           bufs[k] = {<<MemElements(t)[j], <<t.dset, FileElements(t)[j]>> >> :
                        j \in DOMAIN FileElements(t)}

\* The offset at which a write begins is that of the selection in memory: it is gathered, at
\* the beginning of the buffer, or of a kind for which the offset is computed, and rightly.
OffsetRight(t) ==
  LET mem == MemSpace(t, FileSel(t))
  IN \/ ~IsContiguous(mem)
     \/ Elements(mem) = <<>>
     \/ Elements(mem)[1] = 0
     \/ t.class = "fixed" /\ ~t.conv /\ StartToOffset(mem) = Elements(mem)[1]

\* Each answered write has stored the selected elements of its own buffer, in their order, in
\* the selected elements of its dataset, and has changed no other element and no other
\* dataset; if the triplets and the offset are right, and sequences are packed by their type.
StoredExactly(k) ==
  LET t == call.xs[k]
      E == FileElements(t)
  IN call.op = "write" /\ Expressible(FileSel(t)) /\ OffsetRight(t)
       /\ (t.class = "vlen" => call.xs[1].class = "vlen") =>
       stored' = [stored EXCEPT ![t.dset] =
                    {p \in @ : p[1] \notin ToSet(E)}
                      \cup {<<E[j], <<k, MemElements(t)[j]>> >> : j \in LastOf(E)}]

WriteExact == [][\A k \in served' \ served : StoredExactly(k)]_vars

\* A selection in memory that RV_dataset_write takes for contiguous is: its elements follow
\* one another.
ContiguousSound ==
  \A k \in Index :
    LET mem == MemSpace(call.xs[k], FileSel(call.xs[k]))
        E == Elements(mem)
    IN IsContiguous(mem) => \A j \in 2..Len(E) : E[j] = E[j - 1] + 1

\* When the requests of a call begin, each of its transfers that has elements is among them,
\* variable-length strings apart: none is passed over in silence.
AllSent ==
  pc = "perform" =>
    \A k \in Index : call.xs[k].class # "varstr" /\ FileElements(call.xs[k]) # <<>> => k \in added

\* selection_body is freed twice only when a write to several datasets fails in the set-up of
\* one that has a selection of its own.
FreedOnce ==
  pc = "crashed" => Len(call.xs) > 1 /\ Cur.file # H5S_ALL

\* A write that names a dataset of a file without write intent changes nothing, neither there
\* nor in the other datasets of the call.
ReadOnlyKept ==
  (\E k \in Index : call.xs[k].dset \in ReadOnly) => \A d \in Dset : stored[d] = {}

\* The set-up of a call passes over no transfer, frees its buffer once, and refuses to write to
\* a file opened for reading before anything is sent.
SetUpSound == TypeOK /\ AllSent /\ FreedOnce /\ ReadOnlyKept
=============================================================================
