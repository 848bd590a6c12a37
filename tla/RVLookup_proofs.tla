-------------------------- MODULE RVLookup_proofs --------------------------
(***************************************************************************)
(* Proofs about RVLookup for any links within files, any paths, faults and *)
(* changes, and any depth of the C stack that the assumption admits.       *)
(***************************************************************************)
EXTENDS RVLookup, RVPaths_proofs, FiniteSetTheorems

Kind == {"file", "group", "dataset"}
Class(t) == IF t = "file" THEN "group" ELSE t

Frame == [obj : Object, kind : Kind, path : Path, role : {"call", "dir", "again"},
          pc : {"begin", "dir", "link", "follow", "object", "done", "failed"},
          dir : Object, file : BOOLEAN, type : ObjType]

\* What holds of an activation f by itself, with server version v.
FrameOK(v, f) ==
  /\ Class(f.kind) = TypeOf(f.obj)
  /\ f.pc # "done" => (f.path = Dot => f.type = f.kind) /\ (f.path = Slash => f.type = "group")
  /\ f.pc \in {"dir", "link", "follow"} => v = "old" /\ f.type = "unknown"
  /\ f.pc = "begin" => f.dir = f.obj
  /\ f.pc = "dir" => ~EmptyDirname(f.path)
  /\ f.pc = "object" => v # "old" \/ f.type # "unknown"
  /\ f.file => f.pc \in {"follow", "done", "failed"}
  /\ f.role = "dir" => /\ v = "old" /\ f.type = "group" /\ f.path # Dot
                       /\ f.pc \in {"begin", "object", "failed"}

\* What activation f waits for is what the next one, g, does.
Waits(f, g) ==
  \/ f.pc = "dir" /\ g.role = "dir" /\ g.obj = f.obj /\ g.path = Dirname(f.path)
  \/ f.pc = "follow" /\ g.role = "again"

\* The stack s of a call c.
Shape(v, c, s) ==
  /\ s \in Seq(Frame)
  /\ Len(s) <= MaxDepth
  /\ \A i \in 1 .. Len(s) :
       /\ FrameOK(v, s[i])
       /\ s[i].role = "call" <=> i = 1
       /\ i = 1 => s[i].obj = c.obj /\ s[i].path = c.path
       /\ IF i = Len(s) THEN s[i].pc \notin {"dir", "follow"} ELSE Waits(s[i], s[i + 1])

Sought(ls, v, c) == Find(ls, v, c.obj, c.path, c.want, MaxDepth)

\* As long as no link changes, activation f, the i-th, seeks what the call does; and when all
\* links lead to objects, it has fewer to follow the deeper it is.
Seeks(ls, v, c, f, i) ==
  f.role # "dir" /\ f.pc # "done" =>
    Find(ls, v, f.obj, f.path, f.type, MaxDepth - (i - 1)) = Sought(ls, v, c)

Leads(ls) ==
  \A g \in Group, n \in Name :
    ls[g][n] # NoLink /\ ls[g][n].kind # "hard" =>
      Meant(ls, g, [abs |-> FALSE, names |-> <<n>>]) # Nothing

Lawful(ls, c) == IsRoot(c.obj) /\ AbsoluteSoft(ls) /\ HardDirectories(ls) /\ Leads(ls)

Nears(ls, c, f, i) ==
  Lawful(ls, c) /\ f.role = "again" /\ f.type = "unknown" /\ f.pc # "done" =>
    /\ IsRoot(f.obj) /\ HardDirectory(ls, f.obj, f.path)
    /\ i - 1 <= MaxFollow
    /\ Walk(ls, StartOf(f.obj, f.path), f.path.names, MaxFollow - (i - 1)) # Nothing

\* What the top activation f knows.
Knows(f) ==
  /\ f.pc = "link" /\ changes = 0 => f.dir = DirOf(links, f.obj, f.path)
  /\ f.pc = "failed" /\ Quiet =>
       IF f.role = "dir" THEN Typed(links, f.obj, f.path, "group") = Nothing
       ELSE Sought(links, version, call) = Nothing
  /\ f.pc = "done" =>
       /\ response \in Object /\ called \in Seq(Object) /\ ToSet(called) = {response}
       /\ Class(f.type) = TypeOf(response)
       /\ changes = 0 => response = Sought(links, version, call)
  /\ f.pc # "done" => called = <<>>

\* What the call has come to.
Outcome ==
  /\ result.ret \in {"ok", "fail"}
  /\ result.ret = "ok" =>
       /\ result.obj \in Object /\ ToSet(called) = {result.obj}
       /\ Class(result.type) = TypeOf(result.obj)
       /\ changes = 0 => result.obj = Sought(links, version, call)
  /\ result.ret = "fail" => /\ result.obj = Nothing
                            /\ Quiet => Sought(links, version, call) = Nothing

FilesOf(s) == {i \in 1 .. Len(s) : s[i].file}

\* The inductive invariant: the stack, the lookup and the files.
StackInv ==
  /\ links \in Links /\ WithinFiles(links)
  /\ call.obj \in Object /\ call.path \in Path /\ call.want \in ObjType
  /\ phase \in {"idle", "busy", "returned", "overflow"}
  /\ phase = "busy" <=> stack # <<>>
  /\ Shape(version, call, stack)
  /\ changes \in Nat /\ faults \in Nat

LookupInv ==
  /\ changes = 0 => \A i \in 1 .. Len(stack) : /\ Seeks(links, version, call, stack[i], i)
                                               /\ Nears(links, call, stack[i], i)
  /\ phase = "busy" => Knows(Last(stack))
  /\ phase = "idle" => called = <<>>
  /\ phase = "returned" => Outcome
  /\ result.obj \in Object \cup {Nothing}
  /\ changes = 0 /\ Lawful(links, call) => phase # "overflow"

FilesInv ==
  /\ opened \in Nat
  /\ phase # "overflow" => opened = Cardinality(FilesOf(stack))

Inv == StackInv /\ LookupInv /\ FilesInv

-----------------------------------------------------------------------------
(* The stack. *)

LEMMA FrontIs ==
  ASSUME NEW V, NEW s \in Seq(V), s # <<>>
  PROVE  /\ Len(s) \in Nat \ {0} /\ Last(s) = s[Len(s)] /\ Last(s) \in V
         /\ Front(s) \in Seq(V) /\ Len(Front(s)) = Len(s) - 1
         /\ \A i \in 1 .. Len(s) - 1 : Front(s)[i] = s[i]
         /\ Front(s) = <<>> <=> Len(s) = 1
<1>1. Len(s) \in Nat \ {0}
  OBVIOUS
<1>2. Last(s) = s[Len(s)] /\ Last(s) \in V
  BY <1>1 DEF Last
<1> DEFINE k == Len(s) - 1
<1>3. k \in Nat /\ (1 <= k \/ k = 0) /\ k \in Int /\ 1 \in Int
  <2>1. \A m \in Nat \ {0} : m - 1 \in Nat /\ (1 <= m - 1 \/ m - 1 = 0)
    OBVIOUS
  <2>2. k \in Nat /\ (1 <= k \/ k = 0)
    BY <1>1, <2>1
  <2> HIDE DEF k
  <2> QED
    BY <2>2
<1>4. \A i \in 1 .. k : s[i] \in V
  BY <1>1
<1>5. Front(s) = SubSeq(s, 1, k)
  BY DEF Front
<1> HIDE DEF k
<1>6. /\ SubSeq(s, 1, k) \in Seq(V)
      /\ Len(SubSeq(s, 1, k)) = IF 1 <= k THEN k - 1 + 1 ELSE 0
      /\ \A i \in 1 .. k - 1 + 1 : SubSeq(s, 1, k)[i] = s[1 + i - 1]
  BY <1>3, <1>4, SubSeqProperties
<1>7. Len(SubSeq(s, 1, k)) = k /\ \A i \in 1 .. k : SubSeq(s, 1, k)[i] = s[i]
  BY <1>3, <1>6
<1>8. Front(s) = <<>> <=> k = 0
  BY <1>5, <1>6, <1>7
<1>9. k = 0 <=> Len(s) = 1
  BY <1>1 DEF k
<1> QED
  BY <1>1, <1>2, <1>5, <1>6, <1>7, <1>8, <1>9 DEF k

LEMMA ReplacedTop ==
  ASSUME NEW V, NEW s \in Seq(V), s # <<>>, NEW f \in V
  PROVE  /\ Append(Front(s), f) \in Seq(V)
         /\ Len(Append(Front(s), f)) = Len(s)
         /\ Append(Front(s), f) # <<>>
         /\ Last(Append(Front(s), f)) = f
         /\ Append(Front(s), f)[Len(s)] = f
         /\ \A i \in 1 .. Len(s) - 1 : Append(Front(s), f)[i] = s[i]
<1> DEFINE r == Front(s)
           t == Append(r, f)
<1>1. /\ Len(s) \in Nat \ {0} /\ r \in Seq(V) /\ Len(r) = Len(s) - 1
      /\ \A i \in 1 .. Len(s) - 1 : r[i] = s[i]
  BY FrontIs
<1> HIDE DEF r
<1>2. t \in Seq(V) /\ Len(t) = Len(s) /\ t[Len(s)] = f
  BY <1>1
<1>3. \A i \in 1 .. Len(s) - 1 : t[i] = r[i]
  BY <1>1
<1> HIDE DEF t
<1>4. t # <<>> /\ Last(t) = f
  BY <1>1, <1>2 DEF Last
<1> QED
  BY <1>1, <1>2, <1>3, <1>4 DEF t, r

LEMMA PushedTop ==
  ASSUME NEW V, NEW s \in Seq(V), s # <<>>, NEW f \in V, NEW g \in V
  PROVE  /\ Front(s) \o <<f, g>> \in Seq(V)
         /\ Len(Front(s) \o <<f, g>>) = Len(s) + 1
         /\ Front(s) \o <<f, g>> # <<>>
         /\ Last(Front(s) \o <<f, g>>) = g
         /\ (Front(s) \o <<f, g>>)[Len(s)] = f
         /\ (Front(s) \o <<f, g>>)[Len(s) + 1] = g
         /\ \A i \in 1 .. Len(s) - 1 : (Front(s) \o <<f, g>>)[i] = s[i]
<1> DEFINE r == Front(s)
           p == <<f, g>>
           t == r \o p
<1>1. /\ Len(s) \in Nat \ {0} /\ r \in Seq(V) /\ Len(r) = Len(s) - 1
      /\ \A i \in 1 .. Len(s) - 1 : r[i] = s[i]
  BY FrontIs
<1>2. p \in Seq(V) /\ Len(p) = 2 /\ p[1] = f /\ p[2] = g
  OBVIOUS
<1>3. t = r \o p
  OBVIOUS
<1> HIDE DEF r, p, t
<1>4. /\ r \o p \in Seq(V) /\ Len(r \o p) = Len(r) + Len(p)
      /\ \A i \in 1 .. Len(r) + Len(p) : (r \o p)[i] = IF i <= Len(r) THEN r[i] ELSE p[i - Len(r)]
  BY <1>1, <1>2, ConcatProperties
<1> DEFINE n == Len(s)
<1>5. n \in Nat \ {0} /\ Len(r) = n - 1 /\ \A i \in 1 .. n - 1 : r[i] = s[i]
  BY <1>1
<1> HIDE DEF n
<1>6. Len(t) = n + 1 /\ \A i \in 1 .. n + 1 : t[i] = IF i <= n - 1 THEN r[i] ELSE p[i - (n - 1)]
  BY <1>2, <1>3, <1>4, <1>5
<1>7. n - (n - 1) = 1 /\ (n + 1) - (n - 1) = 2 /\ n \in 1 .. n + 1 /\ n + 1 \in 1 .. n + 1
  BY <1>5
<1>8. t[n] = f /\ t[n + 1] = g
  <2>1. ~(n <= n - 1) /\ ~(n + 1 <= n - 1)
    BY <1>5
  <2> QED
    BY <1>2, <1>6, <1>7, <2>1
<1>9. \A i \in 1 .. n - 1 : t[i] = s[i]
  <2>1. \A i \in 1 .. n - 1 : i \in 1 .. n + 1 /\ i <= n - 1
    BY <1>5
  <2> QED
    BY <1>5, <1>6, <2>1
<1>10. t # <<>> /\ Last(t) = g
  BY <1>5, <1>6, <1>8 DEF Last
<1> QED
  BY <1>3, <1>4, <1>6, <1>8, <1>9, <1>10 DEF n, r, p, t

\* The i-th activation of a stack is as it was, in its place.
LEMMA ShapeIs ==
  ASSUME StackInv, phase = "busy"
  PROVE  /\ stack \in Seq(Frame) /\ stack # <<>> /\ Len(stack) \in Nat \ {0}
         /\ Top = stack[Len(stack)] /\ Top \in Frame
         /\ FrameOK(version, Top) /\ Top.pc \notin {"dir", "follow"}
         /\ Top.role = "call" <=> Len(stack) = 1
         /\ Len(stack) = 1 => Top.obj = call.obj /\ Top.path = call.path
         /\ Below = <<>> <=> Len(stack) = 1
         /\ Len(stack) <= MaxDepth
<1>1. stack \in Seq(Frame) /\ stack # <<>> /\ Shape(version, call, stack)
  BY DEF StackInv, Shape
<1>2. /\ Len(stack) \in Nat \ {0} /\ Top = stack[Len(stack)] /\ Top \in Frame
      /\ Below = <<>> <=> Len(stack) = 1
  BY <1>1, FrontIs DEF Top, Below
<1> DEFINE n == Len(stack)
<1>3. n \in 1 .. Len(stack) /\ (n = 1 <=> Len(stack) = 1)
  BY <1>2
<1> QED
  BY <1>1, <1>2, <1>3 DEF Shape

\* The activation that waits for the top one.
LEMMA CallerIs ==
  ASSUME StackInv, phase = "busy", Below # <<>>, NEW c, c = Last(Below)
  PROVE  /\ Below \in Seq(Frame) /\ Len(Below) = Len(stack) - 1 /\ Len(stack) - 1 \in Nat \ {0}
         /\ \A i \in 1 .. Len(stack) - 1 : Below[i] = stack[i]
         /\ c = stack[Len(stack) - 1] /\ c \in Frame
         /\ FrameOK(version, c) /\ Waits(c, Top)
         /\ c.role = "call" <=> Len(stack) - 1 = 1
<1> DEFINE n == Len(stack)
           m == n - 1
<1>1. stack \in Seq(Frame) /\ stack # <<>> /\ Top = stack[n] /\ n \in Nat \ {0} /\ n # 1
  BY ShapeIs
<1>2. /\ Below \in Seq(Frame) /\ Len(Below) = m
      /\ \A i \in 1 .. m : Below[i] = stack[i]
  BY <1>1, FrontIs DEF Below
<1>3. Last(Below) = Below[Len(Below)] /\ Last(Below) \in Frame
  BY <1>2, FrontIs
<1>4. m \in Nat \ {0} /\ m \in 1 .. m /\ m \in 1 .. n /\ m # n /\ m + 1 = n
  <2>1. \A k \in Nat \ {0, 1} : /\ k - 1 \in Nat \ {0} /\ k - 1 \in 1 .. k - 1 /\ k - 1 \in 1 .. k
                                 /\ k - 1 # k /\ (k - 1) + 1 = k
    OBVIOUS
  <2> HIDE DEF n
  <2> QED
    BY <1>1, <2>1
<1>5. c = stack[m] /\ c \in Frame
  BY <1>2, <1>3, <1>4
<1>6. /\ FrameOK(version, stack[m]) /\ Waits(stack[m], stack[m + 1])
      /\ stack[m].role = "call" <=> m = 1
  <2> HIDE DEF m
  <2> QED
    BY <1>4 DEF StackInv, Shape
<1> HIDE DEF m
<1>7. Waits(c, Top) /\ FrameOK(version, c) /\ (c.role = "call" <=> m = 1)
  BY <1>1, <1>4, <1>5, <1>6
<1> QED
  BY <1>2, <1>4, <1>5, <1>7 DEF m

-----------------------------------------------------------------------------
(* Steps of the stack. *)

Steady == links' = links /\ version' = version /\ changes' = changes /\ call' = call

\* The top of a part r of the stack, all that is left of it, becomes f.
LEMMA NewTop ==
  ASSUME Inv, Steady, phase = "busy", phase' = "busy", faults' \in Nat,
         NEW r \in Seq(Frame), r # <<>>, Len(r) <= Len(stack), \A i \in 1 .. Len(r) : r[i] = stack[i],
         NEW c, c = Last(r), c.pc # "done",
         NEW f \in Frame, FrameOK(version, f), f.pc \notin {"dir", "follow"},
         f.role = c.role, f.obj = c.obj, f.path = c.path,
         f.pc # "done" => f.type = c.type,
         stack' = Append(Front(r), f),
         Knows(Last(stack))', result' = result
  PROVE  StackInv' /\ LookupInv' /\ Last(stack') = f
<1> DEFINE n == Len(r)
<1>1. n \in Nat \ {0} /\ c = r[n] /\ c \in Frame
  BY FrontIs
<1>2. /\ stack' \in Seq(Frame) /\ Len(stack') = n /\ stack' # <<>> /\ Last(stack') = f
      /\ stack'[n] = f /\ \A i \in 1 .. n - 1 : stack'[i] = r[i]
  BY ReplacedTop
<1>3. Shape(version, call, stack) /\ Len(stack) \in Nat /\ n <= Len(stack) /\ MaxDepth \in Nat
  BY LookupAssumption DEF Inv, StackInv, Shape
<1>4. \A i \in 1 .. n : r[i] = stack[i] /\ i \in 1 .. Len(stack)
  BY <1>1, <1>3
<1> HIDE DEF n
<1>5. c = stack[n] /\ n \in 1 .. n
  BY <1>1, <1>4
<1>6. Shape(version, call, stack')
  <2>1. Len(stack') <= MaxDepth
    BY <1>1, <1>2, <1>3 DEF Shape
  <2>2. ASSUME NEW i \in 1 .. n
        PROVE  /\ FrameOK(version, stack'[i])
               /\ stack'[i].role = "call" <=> i = 1
               /\ i = 1 => stack'[i].obj = call.obj /\ stack'[i].path = call.path
               /\ IF i = n THEN stack'[i].pc \notin {"dir", "follow"} ELSE Waits(stack'[i], stack'[i + 1])
    <3>1. /\ FrameOK(version, stack[i])
          /\ stack[i].role = "call" <=> i = 1
          /\ i = 1 => stack[i].obj = call.obj /\ stack[i].path = call.path
          /\ i # Len(stack) => Waits(stack[i], stack[i + 1])
      BY <1>3, <1>4 DEF Shape
    <3>2. CASE i = n
      BY <1>2, <1>5, <3>1, <3>2
    <3>3. CASE i # n
      <4>1. i \in 1 .. n - 1 /\ i + 1 \in 1 .. n /\ i # Len(stack)
        BY <1>1, <1>3, <3>3
      <4>2. stack'[i] = stack[i]
        BY <1>2, <1>4, <4>1
      <4>3. Waits(stack[i], stack[i + 1])
        BY <3>1, <4>1
      <4>4. Waits(stack[i], stack'[i + 1])
        <5>1. CASE i + 1 = n
          <6>1. stack[i + 1] = c /\ stack'[i + 1] = f
            BY <1>2, <1>5, <5>1
          <6> QED
            BY <4>3, <6>1 DEF Waits
        <5>2. CASE i + 1 # n
          <6>1. i + 1 \in 1 .. n - 1
            BY <1>1, <4>1, <5>2
          <6> QED
            BY <1>2, <1>4, <4>1, <4>3, <6>1
        <5> QED
          BY <5>1, <5>2
      <4> QED
        BY <3>1, <3>3, <4>2, <4>4
    <3> QED
      BY <3>2, <3>3
  <2> QED
    BY <1>2, <2>1, <2>2 DEF Shape
<1>7. changes = 0 => \A i \in 1 .. n : /\ Seeks(links, version, call, stack'[i], i)
                                      /\ Nears(links, call, stack'[i], i)
  <2> SUFFICES ASSUME changes = 0, NEW i \in 1 .. n
               PROVE  Seeks(links, version, call, stack'[i], i) /\ Nears(links, call, stack'[i], i)
    OBVIOUS
  <2>1. Seeks(links, version, call, stack[i], i) /\ Nears(links, call, stack[i], i)
    BY <1>4 DEF Inv, LookupInv
  <2>2. CASE i = n
    BY <1>2, <1>5, <2>1, <2>2 DEF Seeks, Nears
  <2>3. CASE i # n
    <3>1. i \in 1 .. n - 1
      BY <1>1, <2>3
    <3> QED
      BY <1>2, <1>4, <2>1, <3>1
  <2> QED
    BY <2>2, <2>3
<1>8. StackInv'
  BY <1>2, <1>6 DEF Inv, StackInv, Steady
<1>9. LookupInv'
  <2>1. result'.obj \in Object \cup {Nothing}
    BY DEF Inv, LookupInv
  <2>2. phase' # "idle" /\ phase' # "returned" /\ phase' # "overflow"
    OBVIOUS
  <2>3. changes' = 0 => \A i \in 1 .. Len(stack') : /\ Seeks(links', version', call', stack'[i], i)
                                                    /\ Nears(links', call', stack'[i], i)
    BY <1>2, <1>7 DEF Steady
  <2> QED
    BY <2>1, <2>2, <2>3 DEF LookupInv
<1> QED
  BY <1>2, <1>8, <1>9

\* One activation more.
LEMMA Pushed ==
  ASSUME Inv, Steady, phase = "busy", phase' = "busy", faults' \in Nat, Len(stack) < MaxDepth,
         NEW f \in Frame, FrameOK(version, f), f.role = Top.role, f.obj = Top.obj, f.path = Top.path,
         f.type = Top.type, Top.pc # "done",
         NEW g \in Frame, FrameOK(version, g), g.role # "call", g.pc = "begin", Waits(f, g),
         stack' = Below \o <<f, g>>,
         changes = 0 => /\ Seeks(links, version, call, g, Len(stack) + 1)
                        /\ Nears(links, call, g, Len(stack) + 1),
         called' = <<>>, result' = result
  PROVE  StackInv' /\ LookupInv' /\ Last(stack') = g
<1> DEFINE n == Len(stack)
<1>1. n \in Nat \ {0} /\ Top = stack[n] /\ stack \in Seq(Frame) /\ stack # <<>> /\ n <= MaxDepth
  BY ShapeIs DEF Inv
<1>2. /\ stack' \in Seq(Frame) /\ Len(stack') = n + 1 /\ stack' # <<>> /\ Last(stack') = g
      /\ stack'[n] = f /\ stack'[n + 1] = g /\ \A i \in 1 .. n - 1 : stack'[i] = stack[i]
  BY <1>1, PushedTop DEF Below
<1>3. Shape(version, call, stack) /\ MaxDepth \in Nat
  BY LookupAssumption DEF Inv, StackInv
<1> HIDE DEF n
<1>4. n + 1 \in Nat /\ n \in 1 .. n /\ n + 1 \in 1 .. n + 1 /\ n + 1 # n /\ n + 1 # 1
  BY <1>1
<1>5. Shape(version, call, stack')
  <2>1. Len(stack') <= MaxDepth
    BY <1>1, <1>2, <1>3 DEF n
  <2>2. ASSUME NEW i \in 1 .. n + 1
        PROVE  /\ FrameOK(version, stack'[i])
               /\ stack'[i].role = "call" <=> i = 1
               /\ i = 1 => stack'[i].obj = call.obj /\ stack'[i].path = call.path
               /\ IF i = n + 1 THEN stack'[i].pc \notin {"dir", "follow"}
                  ELSE Waits(stack'[i], stack'[i + 1])
    <3>1. CASE i = n + 1
      BY <1>2, <1>4, <3>1
    <3>2. CASE i # n + 1
      <4>1. i \in 1 .. n /\ (i # n => i \in 1 .. n - 1 /\ i + 1 \in 1 .. n)
        BY <1>1, <3>2
      <4>2. /\ FrameOK(version, stack[i])
            /\ stack[i].role = "call" <=> i = 1
            /\ i = 1 => stack[i].obj = call.obj /\ stack[i].path = call.path
            /\ i # n => Waits(stack[i], stack[i + 1])
        BY <1>3, <4>1 DEF Shape, n
      <4>3. CASE i = n
        BY <1>1, <1>2, <3>2, <4>2, <4>3
      <4>4. CASE i # n
        <5>1. stack'[i] = stack[i]
          BY <1>2, <4>1, <4>4
        <5>2. Waits(stack[i], stack'[i + 1])
          <6>1. CASE i + 1 = n
            BY <1>1, <1>2, <4>2, <4>4, <6>1 DEF Waits
          <6>2. CASE i + 1 # n
            <7>1. i + 1 \in 1 .. n - 1
              BY <1>1, <4>1, <4>4, <6>2
            <7> QED
              BY <1>2, <4>2, <4>4, <7>1
          <6> QED
            BY <6>1, <6>2
        <5> QED
          BY <3>2, <4>2, <5>1, <5>2
      <4> QED
        BY <4>3, <4>4
    <3> QED
      BY <3>1, <3>2
  <2> QED
    BY <1>2, <2>1, <2>2 DEF Shape
<1>6. changes = 0 => \A i \in 1 .. n + 1 : /\ Seeks(links, version, call, stack'[i], i)
                                          /\ Nears(links, call, stack'[i], i)
  <2> SUFFICES ASSUME changes = 0, NEW i \in 1 .. n + 1
               PROVE  Seeks(links, version, call, stack'[i], i) /\ Nears(links, call, stack'[i], i)
    OBVIOUS
  <2>1. CASE i = n + 1
    BY <1>2, <2>1 DEF n
  <2>2. CASE i # n + 1
    <3>1. i \in 1 .. n /\ (i # n => i \in 1 .. n - 1)
      BY <1>1, <2>2
    <3>2. Seeks(links, version, call, stack[i], i) /\ Nears(links, call, stack[i], i)
      BY <3>1 DEF Inv, LookupInv, n
    <3>3. CASE i = n
      BY <1>1, <1>2, <3>2, <3>3 DEF Seeks, Nears
    <3>4. CASE i # n
      BY <1>2, <3>1, <3>2, <3>4
    <3> QED
      BY <3>3, <3>4
  <2> QED
    BY <2>1, <2>2
<1>7. StackInv'
  BY <1>2, <1>5 DEF Inv, StackInv, Steady
<1>8. LookupInv'
  <2>1. result'.obj \in Object \cup {Nothing}
    BY DEF Inv, LookupInv
  <2>2. changes' = 0 => \A i \in 1 .. Len(stack') : /\ Seeks(links', version', call', stack'[i], i)
                                                    /\ Nears(links', call', stack'[i], i)
    BY <1>2, <1>6 DEF Steady
  <2>3. Knows(Last(stack))'
    BY <1>2 DEF Knows
  <2>4. phase' # "idle" /\ phase' # "returned" /\ phase' # "overflow"
    OBVIOUS
  <2> QED
    BY <2>1, <2>2, <2>3, <2>4 DEF LookupInv
<1> QED
  BY <1>2, <1>7, <1>8

\* The call is over.
LEMMA Emptied ==
  ASSUME Inv, Steady, stack' = <<>>, phase' \in {"returned", "overflow"}, faults' \in Nat,
         result'.obj \in Object \cup {Nothing}, phase' = "returned" => Outcome',
         phase' = "overflow" => ~(changes = 0 /\ Lawful(links, call))
  PROVE  StackInv' /\ LookupInv'
<1>1. Shape(version, call, stack')
  <2>1. <<>> \in Seq(Frame) /\ Len(<<>>) = 0
    OBVIOUS
  <2>2. 0 <= MaxDepth /\ 1 .. 0 = {}
    BY LookupAssumption
  <2> QED
    BY <2>1, <2>2 DEF Shape
<1>2. StackInv'
  BY <1>1 DEF Inv, StackInv, Steady
<1>3. LookupInv'
  <2>1. 1 .. Len(stack') = {}
    <3>1. Len(stack') = 0
      OBVIOUS
    <3> QED
      BY <3>1
  <2>2. phase' # "idle" /\ phase' # "busy"
    OBVIOUS
  <2>3. changes' = 0 /\ Lawful(links', call') => phase' # "overflow"
    BY DEF Steady
  <2> QED
    BY <2>1, <2>2, <2>3 DEF LookupInv
<1> QED
  BY <1>2, <1>3

-----------------------------------------------------------------------------
(* The files that are open. *)

LEMMA FilesFinite ==
  ASSUME NEW s \in Seq(Frame)
  PROVE  IsFiniteSet(FilesOf(s)) /\ Cardinality(FilesOf(s)) \in Nat
<1>1. Len(s) \in Nat
  OBVIOUS
<1>2. IsFiniteSet(1 .. Len(s)) /\ FilesOf(s) \subseteq 1 .. Len(s)
  BY <1>1, FS_Interval DEF FilesOf
<1> QED
  BY <1>2, FS_Subset, FS_CardinalityType

\* An activation that is replaced keeps its file.
LEMMA FilesKept ==
  ASSUME NEW s \in Seq(Frame), s # <<>>, NEW f \in Frame, f.file = Last(s).file
  PROVE  FilesOf(Append(Front(s), f)) = FilesOf(s)
<1> DEFINE t == Append(Front(s), f)
           n == Len(s)
<1>1. /\ n \in Nat \ {0} /\ Last(s) = s[n]
      /\ Len(t) = n /\ t[n] = f /\ \A i \in 1 .. n - 1 : t[i] = s[i]
  BY FrontIs, ReplacedTop
<1> HIDE DEF t, n
<1>2. \A i \in 1 .. n : t[i].file = s[i].file
  <2> SUFFICES ASSUME NEW i \in 1 .. n PROVE t[i].file = s[i].file
    OBVIOUS
  <2>1. i = n \/ i \in 1 .. n - 1
    BY <1>1
  <2> QED
    BY <1>1, <2>1
<1>3. FilesOf(t) = {i \in 1 .. n : t[i].file} /\ FilesOf(s) = {i \in 1 .. n : s[i].file}
  BY <1>1 DEF FilesOf, n
<1> QED
  BY <1>2, <1>3 DEF t

\* Without the last activation there is one file less, if it had one.
LEMMA FilesLeft ==
  ASSUME NEW s \in Seq(Frame), s # <<>>
  PROVE  FilesOf(Front(s)) = FilesOf(s) \ {Len(s)}
<1> DEFINE t == Front(s)
           n == Len(s)
           m == n - 1
<1>1. n \in Nat \ {0} /\ Len(t) = m /\ \A i \in 1 .. m : t[i] = s[i]
  BY FrontIs
<1>2. FilesOf(t) = {i \in 1 .. m : t[i].file} /\ FilesOf(s) = {i \in 1 .. n : s[i].file}
  BY <1>1 DEF FilesOf
<1> HIDE DEF t, n
<1>3. \A i : i \in 1 .. m <=> i \in 1 .. n /\ i # n
  BY <1>1
<1> HIDE DEF m
<1>4. \A i \in 1 .. m : t[i].file = s[i].file
  BY <1>1
<1>5. FilesOf(t) = FilesOf(s) \ {n}
  BY <1>2, <1>3, <1>4
<1> QED
  BY <1>5 DEF t, n

\* One file more.
LEMMA FilesMore ==
  ASSUME NEW s \in Seq(Frame), s # <<>>, ~Last(s).file,
         NEW f \in Frame, NEW g \in Frame, ~g.file
  PROVE  /\ FilesOf(Front(s) \o <<f, g>>) = IF f.file THEN FilesOf(s) \cup {Len(s)} ELSE FilesOf(s)
         /\ Len(s) \notin FilesOf(s)
<1> DEFINE t == Front(s) \o <<f, g>>
           n == Len(s)
<1>1. /\ n \in Nat \ {0} /\ Last(s) = s[n]
      /\ Len(t) = n + 1 /\ t[n] = f /\ t[n + 1] = g /\ \A i \in 1 .. n - 1 : t[i] = s[i]
  <2>1. n \in Nat \ {0} /\ Last(s) = s[n]
    BY FrontIs
  <2>2. Len(t) = n + 1 /\ t[n] = f /\ t[n + 1] = g /\ \A i \in 1 .. n - 1 : t[i] = s[i]
    BY PushedTop
  <2> QED
    BY <2>1, <2>2
<1>2. FilesOf(t) = {i \in 1 .. n + 1 : t[i].file} /\ FilesOf(s) = {i \in 1 .. n : s[i].file}
  BY <1>1 DEF FilesOf
<1> HIDE DEF t, n
<1>3. \A i : /\ i \in 1 .. n + 1 <=> i \in 1 .. n \/ i = n + 1
             /\ i \in 1 .. n <=> i \in 1 .. n - 1 \/ i = n
  BY <1>1
<1>4. n \notin 1 .. n - 1 /\ n + 1 \notin 1 .. n
  BY <1>1
<1>5. \A i : i \in FilesOf(t) <=> (i \in 1 .. n - 1 /\ s[i].file) \/ (i = n /\ f.file)
  BY <1>1, <1>2, <1>3, <1>4
<1>6. \A i : i \in FilesOf(s) <=> i \in 1 .. n - 1 /\ s[i].file
  BY <1>1, <1>2, <1>3, <1>4
<1>7. FilesOf(t) = IF f.file THEN FilesOf(s) \cup {n} ELSE FilesOf(s)
  BY <1>5, <1>6
<1> QED
  BY <1>4, <1>6, <1>7 DEF t, n

\* An activation that returns has closed its file.
LEMMA ClosesFile ==
  ASSUME Inv, phase = "busy", opened' = IF Top.file THEN opened - 1 ELSE opened,
         FilesOf(stack') = FilesOf(stack) \ {Len(stack)}
  PROVE  FilesInv'
<1>1. /\ stack \in Seq(Frame) /\ Top = stack[Len(stack)] /\ Len(stack) \in Nat \ {0}
  BY ShapeIs DEF Inv
<1> DEFINE S == FilesOf(stack)
           n == Len(stack)
<1>2. IsFiniteSet(S) /\ Cardinality(S) \in Nat /\ opened = Cardinality(S)
  BY <1>1, FilesFinite DEF Inv, FilesInv
<1>3. n \in S <=> Top.file
  BY <1>1 DEF FilesOf
<1> HIDE DEF S, n
<1>4. IsFiniteSet(S \ {n}) /\ Cardinality(S \ {n}) = IF n \in S THEN Cardinality(S) - 1 ELSE Cardinality(S)
  BY <1>2, FS_RemoveElement
<1>5. Cardinality(S \ {n}) \in Nat
  BY <1>4, FS_CardinalityType
<1>6. FilesOf(stack') = S \ {n}
  BY DEF S, n
<1> QED
  BY <1>2, <1>3, <1>4, <1>5, <1>6 DEF FilesInv

-----------------------------------------------------------------------------
(* What is asked and found. *)

\* A path that names nothing needs no type.
LEMMA WantIgnored ==
  ASSUME NEW ls \in Links, NEW v, NEW o \in Object, NEW p \in Path, NEW n \in Nat,
         NEW t \in ObjType, NEW w \in ObjType, t = w \/ p = Dot \/ p = Slash
  PROVE  Find(ls, v, o, p, t, n) = Find(ls, v, o, p, w, n)
<1>1. CASE t = w
  BY <1>1
<1>2. CASE v # "old"
  BY <1>2 DEF Find
<1>3. CASE v = "old" /\ (p = Dot \/ p = Slash)
  <2> DEFINE l == LinkOf(ls, o, p)
             rest == Find(ls, "old", FromOf(o, l), l.path, "unknown", n - 1)
             F(z) == Find(ls, "old", o, p, z, n)
  <2>1. \A z \in ObjType :
          F(z) = IF p = Dot THEN o
                 ELSE IF p = Slash \/ z # "unknown"
                 THEN Typed(ls, o, p, IF p = Slash THEN "group" ELSE z)
                 ELSE IF l = NoLink THEN Nothing
                 ELSE IF l.kind = "hard" THEN Typed(ls, o, p, TypeOf(l.target))
                 ELSE IF n = 0 THEN Nothing ELSE rest
    BY FindIs
  <2> HIDE DEF F, l, rest
  <2>2. F(t) = F(w)
    BY <1>3, <2>1
  <2> QED
    BY <1>3, <2>2 DEF F
<1> QED
  BY <1>1, <1>2, <1>3

\* The path "." is the parent object.
LEMMA DotIs ==
  ASSUME NEW ls \in Links, NEW o \in Object, NEW t, Class(t) = TypeOf(o)
  PROVE  Typed(ls, o, Dot, t) = o /\ ByHardLinks(ls, o, Dot) = o
<1> DEFINE s == Dot.names
<1>1. s \in Seq(Name) /\ Len(s) = 0 /\ StartOf(o, Dot) = o /\ Dot # Slash
  BY DEF Dot, StartOf, Slash
<1> HIDE DEF s
<1>2. HardSteps(ls, o, s)[Len(s)] = o /\ o # Nothing /\ 0 \in Nat
  BY <1>1, HardStepsIs, SentinelAssumption
<1>3. Walk(ls, o, s, 0) = o
  BY <1>1, <1>2, WalkHard
<1>4. ByHardLinks(ls, o, Dot) = o
  BY <1>1, <1>3 DEF ByHardLinks, s
<1> QED
  BY <1>1, <1>2, <1>4 DEF Typed, Class

\* The answer about an object is what Find has at this point.
LEMMA AnswerIs ==
  ASSUME Inv, phase = "busy", Top.pc = "object", NEW n \in Nat
  PROVE  /\ Answer \in Object \cup {Nothing}
         /\ version = "old" /\ Answer # Nothing => Class(Top.type) = TypeOf(Answer)
         /\ Find(links, version, Top.obj, Top.path, Top.type, n) = Answer
         /\ version = "old" => Answer = Typed(links, Top.obj, Top.path, Top.type)
<1> DEFINE x == Top.obj
           q == Top.path
           t == Top.type
<1>1. /\ x \in Object /\ q \in Path /\ t \in ObjType
      /\ q = Dot => t = Top.kind
      /\ q = Slash => t = "group"
      /\ version # "old" \/ t # "unknown"
      /\ Class(Top.kind) = TypeOf(x)
  BY ShapeIs DEF Inv, Frame, FrameOK
<1>2. links \in Links
  BY DEF Inv, StackInv
<1>3. Answer = IF version # "old" THEN Meant(links, x, q) ELSE Typed(links, x, q, t)
  BY DEF Answer
<1> HIDE DEF x, q, t
<1>4. CASE version # "old"
  BY <1>1, <1>2, <1>3, <1>4, MeantIs DEF Find, x, q, t
<1>5. CASE version = "old"
  <2>1. Answer = Typed(links, x, q, t)
    BY <1>3, <1>5
  <2>2. /\ Answer \in Object \cup {Nothing}
        /\ Answer # Nothing => TypeOf(Answer) = Class(t)
    BY <1>1, <1>2, <2>1, TypedIs DEF Class
  <2> DEFINE l == LinkOf(links, x, q)
             rest == Find(links, "old", FromOf(x, l), l.path, "unknown", n - 1)
             F == Find(links, "old", x, q, t, n)
  <2>3. F = IF q = Dot THEN x
            ELSE IF q = Slash \/ t # "unknown"
            THEN Typed(links, x, q, IF q = Slash THEN "group" ELSE t)
            ELSE IF l = NoLink THEN Nothing
            ELSE IF l.kind = "hard" THEN Typed(links, x, q, TypeOf(l.target))
            ELSE IF n = 0 THEN Nothing ELSE rest
    BY <1>1, <1>2, FindIs
  <2> HIDE DEF l, rest, F
  <2>4. F = Answer
    <3>1. CASE q = Dot
      <4>1. Typed(links, x, Dot, t) = x
        BY <1>1, <1>2, <3>1, DotIs
      <4> QED
        BY <2>1, <2>3, <3>1, <4>1
    <3>2. CASE q # Dot
      BY <1>1, <1>5, <2>1, <2>3, <3>2
    <3> QED
      BY <3>1, <3>2
  <2> QED
    BY <1>5, <2>1, <2>2, <2>4 DEF F, x, q, t
<1> QED
  BY <1>4, <1>5

\* What an activation at number n seeks, and how many links it may follow.
LEMMA TopSeeks ==
  ASSUME Inv, phase = "busy", changes = 0
  PROVE  /\ Seeks(links, version, call, Top, Len(stack)) /\ Nears(links, call, Top, Len(stack))
         /\ MaxDepth - (Len(stack) - 1) \in Nat \ {0}
<1> DEFINE n == Len(stack)
<1>1. n \in Nat \ {0} /\ n <= MaxDepth /\ Top = stack[n] /\ MaxDepth \in Nat
  BY ShapeIs, LookupAssumption DEF Inv
<1>2. n \in 1 .. Len(stack)
  BY <1>1
<1>3. Seeks(links, version, call, stack[n], n) /\ Nears(links, call, stack[n], n)
  BY <1>2 DEF Inv, LookupInv
<1>4. MaxDepth - (n - 1) \in Nat \ {0}
  <2> HIDE DEF n
  <2> QED
    BY <1>1
<1> QED
  BY <1>1, <1>3, <1>4

-----------------------------------------------------------------------------
(* The invariant, action by action. *)

\* The files after a return.
LEMMA ReturnFiles ==
  ASSUME Inv, phase = "busy", opened' = IF Top.file THEN opened - 1 ELSE opened,
         \/ Below = <<>> /\ stack' = <<>>
         \/ /\ Below # <<>>
            /\ \E h \in Frame : h.file = Last(Below).file /\ stack' = Append(Front(Below), h)
  PROVE  FilesInv'
<1>1. stack \in Seq(Frame) /\ stack # <<>>
  BY ShapeIs DEF Inv
<1>2. FilesOf(Below) = FilesOf(stack) \ {Len(stack)}
  BY <1>1, FilesLeft DEF Below
<1>3. CASE Below = <<>> /\ stack' = <<>>
  BY <1>2, <1>3, ClosesFile
<1>4. CASE Below # <<>>
  <2>1. Below \in Seq(Frame)
    BY <1>4, CallerIs DEF Inv
  <2>2. PICK h \in Frame : h.file = Last(Below).file /\ stack' = Append(Front(Below), h)
    BY <1>4
  <2>3. FilesOf(stack') = FilesOf(Below)
    BY <1>4, <2>1, <2>2, FilesKept
  <2> QED
    BY <1>2, <2>3, ClosesFile
<1> QED
  BY <1>3, <1>4

\* The callback is called on an object once more.
LEMMA CalledAlso ==
  ASSUME NEW s \in Seq(Object), NEW x \in Object
  PROVE  Append(s, x) \in Seq(Object) /\ ToSet(Append(s, x)) = ToSet(s) \cup {x}
<1> DEFINE t == Append(s, x)
           n == Len(s)
<1>1. n \in Nat /\ DOMAIN s = 1 .. n
  OBVIOUS
<1>2. t \in Seq(Object) /\ DOMAIN t = 1 .. n + 1 /\ t[n + 1] = x /\ \A i \in 1 .. n : t[i] = s[i]
  BY <1>1
<1> HIDE DEF t, n
<1>3. \A i : i \in 1 .. n + 1 <=> i \in 1 .. n \/ i = n + 1
  BY <1>1
<1>4. {t[i] : i \in DOMAIN t} = {s[i] : i \in DOMAIN s} \cup {x}
  BY <1>1, <1>2, <1>3
<1> QED
  BY <1>2, <1>4 DEF ToSet, t

\* A return with an answer, but from the lookup of a directory.
LEMMA FoundInv ==
  ASSUME Inv, Steady, phase = "busy", faults' = faults, Top.role # "dir",
         response' \in Object, called' \in Seq(Object), ToSet(called') = {response'},
         changes = 0 => response' = Sought(links, version, call),
         NEW type \in ObjType, Class(type) = TypeOf(response'), Return("ok", type),
         opened' = IF Top.file THEN opened - 1 ELSE opened
  PROVE  Inv'
<1>1. faults' \in Nat
  BY DEF Inv, StackInv
<1>2. CASE Below = <<>>
  <2>1. /\ stack' = <<>> /\ phase' = "returned"
        /\ result' = [ret |-> "ok", obj |-> response', type |-> type]
    BY <1>2 DEF Return
  <2>2. Outcome'
    BY <2>1 DEF Outcome, Steady, Sought
  <2>3. StackInv' /\ LookupInv'
    BY <1>1, <2>1, <2>2, Emptied
  <2>4. FilesInv'
    BY <1>2, <2>1, ReturnFiles
  <2> QED
    BY <2>3, <2>4 DEF Inv
<1>3. CASE Below # <<>>
  <2> DEFINE c == Last(Below)
             f == [c EXCEPT !.pc = "done", !.type = type]
  <2>1. /\ stack' = Append(Front(Below), f) /\ phase' = "busy" /\ result' = result
    BY <1>3 DEF Return
  <2>2. /\ Below \in Seq(Frame) /\ Len(Below) = Len(stack) - 1 /\ Len(stack) \in Nat
        /\ \A i \in 1 .. Len(stack) - 1 : Below[i] = stack[i]
        /\ c \in Frame /\ FrameOK(version, c) /\ Waits(c, Top)
    BY <1>3, CallerIs, ShapeIs DEF Inv
  <2>3. c.pc = "follow"
    BY <2>2 DEF Waits
  <2> HIDE DEF c
  <2>4. /\ f \in Frame /\ f.pc = "done" /\ f.type = type
        /\ f.role = c.role /\ f.obj = c.obj /\ f.path = c.path /\ f.file = c.file
        /\ f.kind = c.kind
    BY <2>2 DEF Frame
  <2> HIDE DEF f
  <2>5. FrameOK(version, f)
    BY <2>2, <2>3, <2>4 DEF FrameOK
  <2>6. Last(stack') = f
    BY <1>3, <2>1, <2>2, <2>4, ReplacedTop
  <2>7. Knows(Last(stack))'
    BY <2>4, <2>6 DEF Knows, Steady, Sought
  <2>8. StackInv' /\ LookupInv'
    <3>1. Len(Below) <= Len(stack) /\ \A i \in 1 .. Len(Below) : Below[i] = stack[i]
      BY <2>2
    <3>2. f.pc \notin {"dir", "follow"} /\ c.pc # "done" /\ (f.pc # "done" => f.type = c.type)
      BY <2>3, <2>4
    <3> QED
      BY <1>1, <1>3, <2>1, <2>2, <2>4, <2>5, <2>7, <3>1, <3>2, NewTop DEF c
  <2>9. FilesInv'
    BY <1>3, <2>1, <2>4, ReturnFiles DEF c
  <2> QED
    BY <2>8, <2>9 DEF Inv
<1> QED
  BY <1>2, <1>3

LEMMA DoneInv ==
  ASSUME Inv, Done
  PROVE  Inv'
<1>1. /\ phase = "busy" /\ Top.pc = "done" /\ response' = response
      /\ called' = IF Top.role = "dir" THEN called ELSE Append(called, response')
      /\ opened' = IF Top.file THEN opened - 1 ELSE opened
      /\ Return("ok", Top.type) /\ Steady /\ faults' = faults
  BY DEF Done, Busy, CallBack, Close, server, Steady
<1>2. Top \in Frame /\ FrameOK(version, Top)
  BY <1>1, ShapeIs DEF Inv
<1>3. Top.role # "dir" /\ Top.type \in ObjType
  BY <1>1, <1>2 DEF FrameOK, Frame
<1>4. /\ response \in Object /\ called \in Seq(Object) /\ ToSet(called) = {response}
      /\ Class(Top.type) = TypeOf(response)
      /\ changes = 0 => response = Sought(links, version, call)
  BY <1>1 DEF Inv, LookupInv, Knows, Top
<1>5. called' = Append(called, response)
  BY <1>1, <1>3
<1>6. called' \in Seq(Object) /\ ToSet(called') = {response}
  BY <1>4, <1>5, CalledAlso
<1> QED
  BY <1>1, <1>3, <1>4, <1>6, FoundInv

LEMMA AskObjectInv ==
  ASSUME Inv, AskObject
  PROVE  Inv'
<1> DEFINE n == MaxDepth - (Len(stack) - 1)
<1>1. /\ phase = "busy" /\ Top.pc = "object" /\ Answer # Nothing /\ response' = Answer
      /\ called' = IF Top.role = "dir" THEN called ELSE Append(called, response')
      /\ Return("ok", IF version = "old" THEN Top.type ELSE TypeOf(Answer))
      /\ Steady /\ faults' = faults /\ opened' = opened
  BY DEF AskObject, Busy, CallBack, server, Steady, ObjectClass
<1>2. Top \in Frame /\ FrameOK(version, Top)
  BY <1>1, ShapeIs DEF Inv
<1>3. opened' = IF Top.file THEN opened - 1 ELSE opened
  BY <1>1, <1>2 DEF FrameOK
<1>4. /\ Answer \in Object
      /\ version = "old" => Class(Top.type) = TypeOf(Answer)
      /\ version = "old" => Answer = Typed(links, Top.obj, Top.path, Top.type)
  <2>1. 0 \in Nat
    OBVIOUS
  <2> QED
    BY <1>1, <2>1, AnswerIs
<1>5. called = <<>>
  BY <1>1 DEF Inv, LookupInv, Knows, Top
<1>6. CASE Top.role # "dir"
  <2> DEFINE t == IF version = "old" THEN Top.type ELSE TypeOf(Answer)
  <2>1. t \in ObjType /\ Class(t) = TypeOf(Answer)
    BY <1>2, <1>4 DEF Frame, TypeOf, ObjType, Class
  <2>2. called' \in Seq(Object) /\ ToSet(called') = {Answer}
    <3>1. called' = Append(<<>>, Answer)
      BY <1>1, <1>5, <1>6
    <3>2. <<>> \in Seq(Object) /\ ToSet(<<>>) = {}
      BY DEF ToSet
    <3>3. Append(<<>>, Answer) \in Seq(Object) /\ ToSet(Append(<<>>, Answer)) = ToSet(<<>>) \cup {Answer}
      BY <1>4, <3>2, CalledAlso
    <3> QED
      BY <3>1, <3>2, <3>3
  <2>3. changes = 0 => Answer = Sought(links, version, call)
    <3>1. SUFFICES ASSUME changes = 0 PROVE Answer = Sought(links, version, call)
      OBVIOUS
    <3>2. n \in Nat /\ Seeks(links, version, call, Top, Len(stack))
      BY <1>1, <3>1, TopSeeks
    <3>3. Find(links, version, Top.obj, Top.path, Top.type, n) = Sought(links, version, call)
      BY <1>1, <1>6, <3>2 DEF Seeks
    <3> HIDE DEF n
    <3>4. Find(links, version, Top.obj, Top.path, Top.type, n) = Answer
      BY <1>1, <3>2, AnswerIs
    <3> QED
      BY <3>3, <3>4
  <2>4. Return("ok", t) /\ t \in ObjType /\ Class(t) = TypeOf(response')
    BY <1>1, <2>1
  <2> HIDE DEF t
  <2> QED
    BY <1>1, <1>3, <1>4, <1>6, <2>2, <2>3, <2>4, FoundInv
<1>7. CASE Top.role = "dir"
  <2> DEFINE c == Last(Below)
             f == [c EXCEPT !.pc = "link", !.dir = response']
  <2>1. Below # <<>>
    BY <1>1, <1>7, ShapeIs DEF Inv
  <2>2. stack' = Append(Front(Below), f) /\ phase' = "busy" /\ result' = result
    BY <1>1, <1>7, <2>1 DEF Return
  <2>3. /\ Below \in Seq(Frame) /\ Len(Below) = Len(stack) - 1 /\ Len(stack) \in Nat
        /\ \A i \in 1 .. Len(stack) - 1 : Below[i] = stack[i]
        /\ c \in Frame /\ FrameOK(version, c) /\ Waits(c, Top)
    BY <1>1, <2>1, CallerIs, ShapeIs DEF Inv
  <2>4. c.pc = "dir" /\ Top.obj = c.obj /\ Top.path = Dirname(c.path)
    BY <1>7, <2>3 DEF Waits
  <2> HIDE DEF c
  <2>5. /\ f \in Frame /\ f.pc = "link" /\ f.type = c.type /\ f.dir = Answer
        /\ f.role = c.role /\ f.obj = c.obj /\ f.path = c.path /\ f.file = c.file /\ f.kind = c.kind
    BY <1>1, <1>4, <2>3 DEF Frame
  <2> HIDE DEF f
  <2>6. FrameOK(version, f) /\ f.role # "dir"
    BY <2>3, <2>4, <2>5 DEF FrameOK
  <2>7. f.dir = DirOf(links, f.obj, f.path)
    <3>1. version = "old" /\ Top.type = "group" /\ ~EmptyDirname(c.path)
      BY <1>2, <1>7, <2>3, <2>4 DEF FrameOK
    <3> QED
      BY <1>4, <2>4, <2>5, <3>1 DEF DirOf
  <2>8. Last(stack') = f
    BY <2>1, <2>2, <2>3, <2>5, ReplacedTop
  <2>9. Knows(Last(stack))'
    <3>1. called' = <<>>
      BY <1>1, <1>5, <1>7
    <3> QED
      BY <1>1, <2>5, <2>7, <2>8, <3>1 DEF Knows, Steady
  <2>10. StackInv' /\ LookupInv'
    <3>1. Len(Below) <= Len(stack) /\ \A i \in 1 .. Len(Below) : Below[i] = stack[i]
      BY <2>3
    <3>2. f.pc \notin {"dir", "follow"} /\ c.pc # "done" /\ (f.pc # "done" => f.type = c.type)
      BY <2>4, <2>5
    <3>3. faults' \in Nat
      BY <1>1 DEF Inv, StackInv
    <3> QED
      BY <1>1, <2>1, <2>2, <2>3, <2>5, <2>6, <2>9, <3>1, <3>2, <3>3, NewTop DEF c
  <2>11. FilesInv'
    BY <1>1, <1>3, <2>1, <2>2, <2>5, ReturnFiles DEF c
  <2> QED
    BY <2>10, <2>11 DEF Inv
<1> QED
  BY <1>6, <1>7

\* Without a directory there is nothing to be found.
LEMMA NoDirectory ==
  ASSUME NEW ls \in Links, NEW o \in Object, NEW p \in Path, p # Dot, p # Slash, NEW n \in Nat,
         LinkOf(ls, o, p) = NoLink
  PROVE  Find(ls, "old", o, p, "unknown", n) = Nothing
<1> DEFINE l == LinkOf(ls, o, p)
           rest == Find(ls, "old", FromOf(o, l), l.path, "unknown", n - 1)
           F == Find(ls, "old", o, p, "unknown", n)
<1>1. "unknown" \in ObjType
  BY DEF ObjType
<1>2. F = IF p = Dot THEN o
          ELSE IF p = Slash \/ "unknown" # "unknown"
          THEN Typed(ls, o, p, IF p = Slash THEN "group" ELSE "unknown")
          ELSE IF l = NoLink THEN Nothing
          ELSE IF l.kind = "hard" THEN Typed(ls, o, p, TypeOf(l.target))
          ELSE IF n = 0 THEN Nothing ELSE rest
  BY <1>1, FindIs
<1>3. l = NoLink
  OBVIOUS
<1> HIDE DEF l, rest, F
<1>4. F = Nothing
  BY <1>2, <1>3
<1> QED
  BY <1>4 DEF F

LEMMA FailedInv ==
  ASSUME Inv, Failed
  PROVE  Inv'
<1>1. /\ phase = "busy" /\ Top.pc = "failed" /\ response' = response /\ called' = called
      /\ opened' = IF Top.file THEN opened - 1 ELSE opened
      /\ Return("fail", Top.type) /\ Steady /\ faults' = faults
  BY DEF Failed, Busy, Close, server, Steady
<1>2. Top \in Frame /\ FrameOK(version, Top) /\ faults' \in Nat
  BY <1>1, ShapeIs DEF Inv, StackInv
<1>3. /\ called = <<>>
      /\ Quiet => IF Top.role = "dir" THEN Typed(links, Top.obj, Top.path, "group") = Nothing
                  ELSE Sought(links, version, call) = Nothing
  BY <1>1 DEF Inv, LookupInv, Knows, Top
<1>4. CASE Below = <<>>
  <2>1. /\ stack' = <<>> /\ phase' = "returned"
        /\ result' = [ret |-> "fail", obj |-> Nothing, type |-> Top.type]
    BY <1>1, <1>4 DEF Return
  <2>2. Top.role # "dir"
    BY <1>1, <1>4, ShapeIs DEF Inv
  <2>3. Outcome'
    BY <1>1, <1>3, <2>1, <2>2 DEF Outcome, Steady, Sought, Quiet
  <2>4. StackInv' /\ LookupInv'
    BY <1>1, <1>2, <2>1, <2>3, Emptied
  <2>5. FilesInv'
    BY <1>1, <1>4, <2>1, ReturnFiles
  <2> QED
    BY <2>4, <2>5 DEF Inv
<1>5. CASE Below # <<>>
  <2> DEFINE c == Last(Below)
             f == [c EXCEPT !.pc = "failed"]
  <2>1. stack' = Append(Front(Below), f) /\ phase' = "busy" /\ result' = result
    BY <1>1, <1>5 DEF Return
  <2>2. /\ Below \in Seq(Frame) /\ Len(Below) = Len(stack) - 1 /\ Len(stack) \in Nat
        /\ \A i \in 1 .. Len(stack) - 1 : Below[i] = stack[i]
        /\ c \in Frame /\ FrameOK(version, c) /\ Waits(c, Top) /\ c = stack[Len(stack) - 1]
        /\ Len(stack) - 1 \in Nat \ {0}
    BY <1>1, <1>5, CallerIs, ShapeIs DEF Inv
  <2>3. c.pc \in {"dir", "follow"}
    BY <2>2 DEF Waits
  <2> HIDE DEF c
  <2>4. /\ f \in Frame /\ f.pc = "failed" /\ f.type = c.type
        /\ f.role = c.role /\ f.obj = c.obj /\ f.path = c.path /\ f.file = c.file /\ f.kind = c.kind
    BY <2>2 DEF Frame
  <2> HIDE DEF f
  <2>5. FrameOK(version, f) /\ f.role # "dir"
    BY <2>2, <2>3, <2>4 DEF FrameOK
  <2>6. Quiet => Sought(links, version, call) = Nothing
    <3>1. CASE c.pc = "follow"
      BY <1>3, <2>2, <3>1 DEF Waits
    <3>2. CASE c.pc = "dir"
      <4>1. SUFFICES ASSUME Quiet PROVE Sought(links, version, call) = Nothing
        OBVIOUS
      <4>2. /\ Top.role = "dir" /\ Top.obj = c.obj /\ Top.path = Dirname(c.path)
            /\ ~EmptyDirname(c.path) /\ version = "old" /\ c.type = "unknown"
            /\ c.path # Dot /\ c.path # Slash
        BY <2>2, <3>2 DEF Waits, FrameOK, Frame, Kind
      <4>3. DirOf(links, c.obj, c.path) = Nothing
        BY <1>3, <4>1, <4>2 DEF DirOf
      <4>4. LinkOf(links, c.obj, c.path) = NoLink
        BY <4>3, SentinelAssumption DEF LinkOf, LinkIn, Object
      <4> DEFINE m == Len(stack) - 1
                 k == MaxDepth - (m - 1)
      <4>5. m \in 1 .. Len(stack) /\ k \in Nat
        <5>1. \A i \in Nat \ {0}, j \in Nat : i - 1 \in Nat \ {0} /\ i <= j =>
                i - 1 \in 1 .. i /\ j - ((i - 1) - 1) \in Nat
          OBVIOUS
        <5>2. Len(stack) \in Nat \ {0} /\ Len(stack) <= MaxDepth /\ MaxDepth \in Nat
          BY <1>1, ShapeIs, LookupAssumption DEF Inv
        <5> QED
          BY <2>2, <5>1, <5>2
      <4>6. Find(links, version, c.obj, c.path, c.type, k) = Sought(links, version, call)
        <5>1. Seeks(links, version, call, c, m)
          <6>1. \A i \in 1 .. Len(stack) : Seeks(links, version, call, stack[i], i)
            BY <4>1 DEF Inv, LookupInv, Quiet
          <6> HIDE DEF m
          <6>2. Seeks(links, version, call, stack[m], m)
            BY <4>5, <6>1
          <6> QED
            BY <2>2, <6>2 DEF m
        <5> QED
          BY <2>4, <2>5, <3>2, <5>1 DEF Seeks
      <4> HIDE DEF k
      <4>7. Find(links, "old", c.obj, c.path, "unknown", k) = Nothing
        <5>1. links \in Links /\ c.obj \in Object /\ c.path \in Path
          BY <2>2 DEF Inv, StackInv, Frame
        <5> QED
          BY <4>2, <4>4, <4>5, <5>1, NoDirectory
      <4> QED
        BY <4>2, <4>6, <4>7
    <3> QED
      BY <2>3, <3>1, <3>2
  <2>7. Last(stack') = f
    BY <1>5, <2>1, <2>2, <2>4, ReplacedTop
  <2>8. Knows(Last(stack))'
    BY <1>1, <1>3, <2>4, <2>5, <2>6, <2>7 DEF Knows, Steady, Sought, Quiet
  <2>9. StackInv' /\ LookupInv'
    <3>1. Len(Below) <= Len(stack) /\ \A i \in 1 .. Len(Below) : Below[i] = stack[i]
      BY <2>2
    <3>2. f.pc \notin {"dir", "follow"} /\ c.pc # "done" /\ (f.pc # "done" => f.type = c.type)
      BY <2>3, <2>4
    <3> QED
      BY <1>1, <1>2, <1>5, <2>1, <2>2, <2>4, <2>5, <2>8, <3>1, <3>2, NewTop DEF c
  <2>10. FilesInv'
    BY <1>1, <1>5, <2>1, <2>4, ReturnFiles DEF c
  <2> QED
    BY <2>9, <2>10 DEF Inv
<1> QED
  BY <1>4, <1>5

\* The top activation goes on, or fails.
LEMMA TopInv ==
  ASSUME Inv, Steady, phase = "busy", phase' = "busy", faults' \in Nat,
         Top.pc \in {"begin", "object", "link"},
         NEW x \in {"object", "link", "failed"},
         FrameOK(version, [Top EXCEPT !.pc = x]), Knows(Last(stack))',
         stack' = Append(Below, [Top EXCEPT !.pc = x]),
         opened' = opened, result' = result
  PROVE  Inv'
<1> DEFINE c == Top
           f == [c EXCEPT !.pc = x]
<1>1. stack \in Seq(Frame) /\ stack # <<>> /\ c \in Frame /\ FrameOK(version, c) /\ Len(stack) \in Nat
  BY ShapeIs DEF Inv
<1>2. /\ f \in Frame /\ f.pc = x /\ f.type = c.type
      /\ f.role = c.role /\ f.obj = c.obj /\ f.path = c.path /\ f.file = c.file
  BY <1>1 DEF Frame
<1>3. FrameOK(version, f) /\ stack' = Append(Front(stack), f) /\ c = Last(stack)
      /\ c.pc \in {"begin", "object", "link"}
  BY DEF Below, Top
<1> HIDE DEF c, f
<1>6. StackInv' /\ LookupInv'
  <2>1. Len(stack) <= Len(stack) /\ \A i \in 1 .. Len(stack) : stack[i] = stack[i]
    BY <1>1
  <2>2. f.pc \notin {"dir", "follow"} /\ c.pc # "done" /\ (f.pc # "done" => f.type = c.type)
    BY <1>2, <1>3
  <2> QED
    BY <1>1, <1>2, <1>3, <2>1, <2>2, NewTop
<1>7. FilesInv'
  <2>1. FilesOf(stack') = FilesOf(stack)
    BY <1>1, <1>2, <1>3, FilesKept
  <2> QED
    BY <2>1 DEF Inv, FilesInv
<1> QED
  BY <1>6, <1>7 DEF Inv

\* A request that fails.
LEMMA FailInv ==
  ASSUME Inv, Steady, phase = "busy", phase' = "busy", Top.pc \in {"object", "link"}, Fail,
         faults' \in Nat, opened' = opened, result' = result, called' = called, response' = response,
         (Quiet /\ faults' = faults) =>
           IF Top.role = "dir" THEN Typed(links, Top.obj, Top.path, "group") = Nothing
           ELSE Sought(links, version, call) = Nothing,
         faults' # faults => faults' # 0
  PROVE  Inv'
<1> DEFINE f == [Top EXCEPT !.pc = "failed"]
<1>1. Top \in Frame /\ FrameOK(version, Top)
  BY ShapeIs DEF Inv
<1>2. /\ f \in Frame /\ f.pc = "failed" /\ f.type = Top.type /\ f.kind = Top.kind
      /\ f.role = Top.role /\ f.obj = Top.obj /\ f.path = Top.path /\ f.file = Top.file
  BY <1>1 DEF Frame
<1>3. FrameOK(version, f)
  <2> HIDE DEF f
  <2> QED
    BY <1>1, <1>2 DEF FrameOK
<1>4. called = <<>>
  BY DEF Inv, LookupInv, Knows, Top
<1>5. Last(stack') = f
  <2>1. stack \in Seq(Frame) /\ stack # <<>> /\ stack' = Append(Front(stack), f)
    BY ShapeIs DEF Inv, Fail, Below
  <2> HIDE DEF f
  <2> QED
    BY <1>2, <2>1, ReplacedTop
<1>6. Knows(Last(stack))'
  <2>1. Quiet' => Quiet /\ faults' = faults
    BY DEF Quiet, Steady
  <2> HIDE DEF f
  <2> QED
    BY <1>2, <1>4, <1>5, <2>1 DEF Knows, Steady, Sought
<1> QED
  BY <1>3, <1>6, TopInv DEF Fail

LEMMA NotFoundInv ==
  ASSUME Inv, NotFound
  PROVE  Inv'
<1>1. /\ phase = "busy" /\ Top.pc = "object" /\ Answer = Nothing /\ Fail
      /\ phase' = phase /\ opened' = opened /\ result' = result /\ called' = called
      /\ response' = response /\ Steady /\ faults' = faults
  BY DEF NotFound, Busy, server, Steady
<1>2. faults' \in Nat
  BY <1>1 DEF Inv, StackInv
<1>3. ASSUME Quiet
      PROVE  IF Top.role = "dir" THEN Typed(links, Top.obj, Top.path, "group") = Nothing
             ELSE Sought(links, version, call) = Nothing
  <2> DEFINE n == MaxDepth - (Len(stack) - 1)
  <2>1. n \in Nat /\ Seeks(links, version, call, Top, Len(stack))
    BY <1>1, <1>3, TopSeeks DEF Quiet
  <2>2. Top.role # "dir" =>
          Find(links, version, Top.obj, Top.path, Top.type, n) = Sought(links, version, call)
    BY <1>1, <2>1 DEF Seeks
  <2> HIDE DEF n
  <2>3. /\ Find(links, version, Top.obj, Top.path, Top.type, n) = Answer
        /\ version = "old" => Answer = Typed(links, Top.obj, Top.path, Top.type)
    BY <1>1, <2>1, AnswerIs
  <2>4. Top.role = "dir" => version = "old" /\ Top.type = "group"
    BY <1>1, ShapeIs DEF Inv, FrameOK
  <2> QED
    BY <1>1, <2>2, <2>3, <2>4
<1> QED
  BY <1>1, <1>2, <1>3, FailInv

LEMMA RequestFailsInv ==
  ASSUME Inv, RequestFails
  PROVE  Inv'
<1>1. /\ phase = "busy" /\ Top.pc \in {"object", "link"} /\ Fail /\ faults' = faults + 1
      /\ phase' = phase /\ opened' = opened /\ result' = result /\ called' = called
      /\ response' = response /\ Steady
  BY DEF RequestFails, Busy, server, Steady
<1>2. faults' \in Nat /\ faults' # 0 /\ faults' # faults
  BY <1>1 DEF Inv, StackInv
<1> QED
  BY <1>1, <1>2, FailInv

\* An activation that asks for a link.
LEMMA AsksLink ==
  ASSUME Inv, phase = "busy", Top.pc = "link"
  PROVE  /\ version = "old" /\ Top.type = "unknown" /\ Top.role # "dir" /\ ~Top.file
         /\ Top \in Frame /\ Top.obj \in Object /\ Top.path \in Path
         /\ Top.path # Dot /\ Top.path # Slash
         /\ called = <<>>
         /\ changes = 0 => Linked = LinkOf(links, Top.obj, Top.path) /\ Top.dir = DirOf(links, Top.obj, Top.path)
<1>1. Top \in Frame /\ FrameOK(version, Top)
  BY ShapeIs DEF Inv
<1>2. Top.obj \in Object /\ Top.path \in Path /\ Top.kind \in Kind
  BY <1>1 DEF Frame
<1>3. called = <<>> /\ (changes = 0 => Top.dir = DirOf(links, Top.obj, Top.path))
  BY DEF Inv, LookupInv, Knows, Top
<1>4. /\ version = "old" /\ Top.type = "unknown" /\ Top.role # "dir" /\ ~Top.file
      /\ Top.path # Dot /\ Top.path # Slash
  BY <1>1, <1>2 DEF FrameOK, Kind
<1> QED
  BY <1>1, <1>2, <1>3, <1>4 DEF Linked, LinkOf

LEMMA LinkNotFoundInv ==
  ASSUME Inv, LinkNotFound
  PROVE  Inv'
<1>1. /\ phase = "busy" /\ Top.pc = "link" /\ Linked = NoLink /\ Fail
      /\ phase' = phase /\ opened' = opened /\ result' = result /\ called' = called
      /\ response' = response /\ Steady /\ faults' = faults
  BY DEF LinkNotFound, Busy, server, Steady
<1>2. faults' \in Nat
  BY <1>1 DEF Inv, StackInv
<1>3. ASSUME Quiet
      PROVE  Top.role # "dir" /\ Sought(links, version, call) = Nothing
  <2> DEFINE n == MaxDepth - (Len(stack) - 1)
             x == Top.obj
             q == Top.path
  <2>1. n \in Nat /\ Seeks(links, version, call, Top, Len(stack))
    BY <1>1, <1>3, TopSeeks DEF Quiet
  <2>2. /\ version = "old" /\ Top.type = "unknown" /\ Top.role # "dir"
        /\ x \in Object /\ q \in Path /\ q # Dot /\ q # Slash
        /\ LinkOf(links, x, q) = NoLink
    BY <1>1, <1>3, AsksLink DEF Quiet
  <2>3. Find(links, version, x, q, "unknown", n) = Sought(links, version, call)
    BY <1>1, <2>1, <2>2 DEF Seeks
  <2> HIDE DEF n, x, q
  <2>4. links \in Links
    BY DEF Inv, StackInv
  <2>5. Find(links, "old", x, q, "unknown", n) = Nothing
    BY <2>1, <2>2, <2>4, NoDirectory
  <2> QED
    BY <2>2, <2>3, <2>5
<1> QED
  BY <1>1, <1>2, <1>3, FailInv

\* The first link that is followed: its group is reached by hard links, and it leads on.
LEMMA FirstFollow ==
  ASSUME NEW ls \in Links, WithinFiles(ls), AbsoluteSoft(ls), HardDirectories(ls), Leads(ls),
         NEW x \in Object, IsRoot(x), NEW q \in Path, q # Dot, q # Slash,
         NEW l, l = LinkOf(ls, x, q), l # NoLink, l.kind # "hard"
  PROVE  /\ MaxFollow # 0 /\ IsRoot(FromOf(x, l)) /\ HardDirectory(ls, FromOf(x, l), l.path)
         /\ Walk(ls, StartOf(FromOf(x, l), l.path), l.path.names, MaxFollow - 1) # Nothing
<1> DEFINE d == DirOf(ls, x, q)
           b == Basename(q)
<1>1. b \in Name /\ d \in Group /\ l = ls[d][b]
  BY DirnameIs DEF LinkOf, LinkIn
<1>2. d # Nothing /\ d \in Object
  BY <1>1, SentinelAssumption DEF Object
<1>3. d = ByHardLinks(ls, x, Dirname(q))
  BY <1>2, DirOfIs
<1> HIDE DEF d, b
<1>4. FileOf[d] = FileOf[x]
  <2>1. 0 \in Nat
    OBVIOUS
  <2>2. FileOf[d] = FileOf[StartOf(x, q)]
    BY <1>2, <1>3, <2>1, LastLink
  <2> QED
    BY <2>1, <2>2, FromRoot
<1>5. /\ IsRoot(FromOf(x, l)) /\ StartOf(FromOf(x, l), l.path) = Origin(d, l)
  BY <1>1, <1>4, OriginIs
<1>6. HardDirectory(ls, FromOf(x, l), l.path)
  BY <1>1, <1>4, ValueDirectory
<1> DEFINE r == [abs |-> FALSE, names |-> <<b>>]
<1>7. /\ r \in Path /\ r # Dot /\ r # Slash /\ Dirname(r) = Dot /\ Basename(r) = b
      /\ StartOf(d, r) = d
  <2>1. r \in Path /\ r.abs = FALSE /\ r.names = <<b>>
    BY <1>1 DEF Path
  <2>2. r # Dot /\ r # Slash
    BY DEF Dot, Slash
  <2>3. Basename(r) = b /\ StartOf(d, r) = d
    BY <2>1 DEF Basename, Last, StartOf
  <2>4. Dirname(r) = Dot
    <3>1. /\ Dirname(r) \in Path /\ Dirname(r).abs = FALSE
          /\ Dirname(r).names = SubSeq(r.names, 1, Len(r.names) - 1) /\ Len(r.names) = 1
      BY <2>1, <2>2, DirnameIs
    <3> HIDE DEF r
    <3>2. Dirname(r).names = <<>>
      <4> DEFINE e == r.names
      <4>1. e \in Seq(Name) /\ Len(e) = 1
        BY <2>1, <3>1 DEF Path
      <4> HIDE DEF e
      <4>2. SubSeq(e, 1, 0) = <<>>
        BY <4>1
      <4>3. Dirname(r).names = SubSeq(e, 1, 0)
        BY <3>1 DEF e
      <4> QED
        BY <4>2, <4>3
    <3>3. Dirname(r) = [abs |-> Dirname(r).abs, names |-> Dirname(r).names]
      BY <3>1 DEF Path
    <3> QED
      BY <3>1, <3>2, <3>3 DEF Dot
  <2> QED
    BY <2>1, <2>2, <2>3, <2>4
<1>8. Meant(ls, d, r) # Nothing
  BY <1>1 DEF Leads
<1> HIDE DEF r
<1>9. ByHardLinks(ls, d, Dirname(r)) = d
  BY <1>2, <1>7, DotIs DEF Class, TypeOf
<1>10. l = LinkIn(ls, d, Basename(r))
  BY <1>1, <1>7 DEF LinkIn
<1>11. Walk(ls, StartOf(d, r), r.names, MaxFollow) =
         IF l = NoLink THEN Nothing
         ELSE IF l.kind = "hard" THEN l.target
         ELSE IF MaxFollow = 0 THEN Nothing
         ELSE Walk(ls, Origin(d, l), l.path.names, MaxFollow - 1)
  BY <1>2, <1>7, <1>9, <1>10, FollowAssumption, LastLink
<1>12. MaxFollow # 0 /\ Walk(ls, Origin(d, l), l.path.names, MaxFollow - 1) # Nothing
  <2>1. Meant(ls, d, r) = Walk(ls, StartOf(d, r), r.names, MaxFollow)
    BY DEF Meant
  <2> QED
    BY <1>8, <1>11, <2>1
<1> QED
  BY <1>5, <1>6, <1>12

\* When all links lead to objects, there is room for each that is followed.
LEMMA RoomLeft ==
  ASSUME Inv, phase = "busy", changes = 0, Lawful(links, call),
         Top.type = "unknown", Top.role # "dir", Top.pc # "done"
  PROVE  Len(stack) < MaxDepth
<1>1. /\ Len(stack) \in Nat \ {0} /\ Top \in Frame
      /\ Top.role = "call" <=> Len(stack) = 1
  BY ShapeIs DEF Inv
<1>2. Nears(links, call, Top, Len(stack))
  BY TopSeeks
<1>3. Top.role = "call" \/ Top.role = "again"
  BY <1>1 DEF Frame
<1> DEFINE n == Len(stack)
<1>4. Top.role = "again" => n - 1 <= MaxFollow
  BY <1>2 DEF Nears
<1>5. n \in Nat \ {0} /\ (n = 1 \/ n - 1 <= MaxFollow)
  BY <1>1, <1>3, <1>4
<1> HIDE DEF n
<1>6. n < MaxDepth
  BY <1>5, LookupAssumption, FollowAssumption
<1> QED
  BY <1>6 DEF n

\* What is followed next is nearer to the object by one link.
LEMMA FollowNears ==
  ASSUME Inv, phase = "busy", Top.pc = "link", changes = 0, Lawful(links, call),
         NEW l, l = Linked, l # NoLink, l.kind # "hard"
  PROVE  /\ IsRoot(FromOf(Top.obj, l)) /\ HardDirectory(links, FromOf(Top.obj, l), l.path)
         /\ Len(stack) <= MaxFollow
         /\ Walk(links, StartOf(FromOf(Top.obj, l), l.path), l.path.names, MaxFollow - Len(stack)) # Nothing
<1> DEFINE x == Top.obj
           q == Top.path
           n == Len(stack)
           y == FromOf(x, l)
           W(k) == Walk(links, StartOf(y, l.path), l.path.names, k)
<1>1. /\ n \in Nat \ {0} /\ Top \in Frame
      /\ Top.role = "call" <=> n = 1
      /\ n = 1 => x = call.obj
  BY ShapeIs DEF Inv
<1>2. /\ Top.type = "unknown" /\ Top.role # "dir" /\ x \in Object /\ q \in Path
      /\ q # Dot /\ q # Slash /\ l = LinkOf(links, x, q)
  BY AsksLink
<1>3. /\ links \in Links /\ WithinFiles(links) /\ AbsoluteSoft(links) /\ HardDirectories(links)
      /\ Leads(links) /\ IsRoot(call.obj)
  BY DEF Inv, StackInv, Lawful
<1>4. MaxFollow \in Nat
  BY FollowAssumption
<1>5. CASE n = 1
  <2>1. IsRoot(x)
    BY <1>1, <1>3, <1>5
  <2> HIDE DEF x, q
  <2>2. MaxFollow # 0 /\ IsRoot(y) /\ HardDirectory(links, y, l.path) /\ W(MaxFollow - 1) # Nothing
    BY <1>2, <1>3, <2>1, FirstFollow
  <2>3. n <= MaxFollow
    BY <1>4, <1>5, <2>2
  <2> QED
    BY <1>5, <2>2, <2>3 DEF x
<1>6. CASE n # 1
  <2> DEFINE m == MaxFollow - (n - 1)
  <2>1. Top.role = "again"
    BY <1>1, <1>2, <1>6 DEF Frame
  <2>2. /\ IsRoot(x) /\ HardDirectory(links, x, q) /\ n - 1 <= MaxFollow
        /\ Walk(links, StartOf(x, q), q.names, m) # Nothing
    <3>1. Nears(links, call, Top, n)
      BY TopSeeks
    <3> QED
      BY <1>2, <2>1, <3>1 DEF Nears
  <2>3. m \in Nat /\ (m # 0 => n <= MaxFollow) /\ m - 1 = MaxFollow - n
    <3> HIDE DEF n
    <3> QED
      BY <1>1, <1>4, <2>2
  <2> HIDE DEF x, q, m
  <2>4. m # 0 /\ IsRoot(y) /\ HardDirectory(links, y, l.path) /\ W(m - 1) # Nothing
    BY <1>2, <1>3, <2>2, <2>3, FollowIs
  <2> QED
    BY <2>3, <2>4 DEF x
<1> QED
  BY <1>5, <1>6

\* No activation is called when there is no more room.
LEMMA OverflowInv ==
  ASSUME Inv, Steady, phase = "busy", stack' = <<>>, phase' = "overflow", faults' = faults,
         Len(stack) >= MaxDepth, Top.type = "unknown", Top.role # "dir", Top.pc # "done",
         opened' \in Nat, result' = result
  PROVE  Inv'
<1>1. ~(changes = 0 /\ Lawful(links, call))
  <2>1. Len(stack) \in Nat /\ MaxDepth \in Nat
    BY ShapeIs, LookupAssumption DEF Inv
  <2>2. ~(Len(stack) < MaxDepth)
    BY <2>1
  <2> QED
    BY <2>2, RoomLeft
<1>2. faults' \in Nat /\ result'.obj \in Object \cup {Nothing}
  BY DEF Inv, StackInv, LookupInv
<1>3. StackInv' /\ LookupInv'
  BY <1>1, <1>2, Emptied
<1>4. FilesInv'
  BY DEF FilesInv
<1> QED
  BY <1>3, <1>4 DEF Inv

LEMMA BeginInv ==
  ASSUME Inv, Begin
  PROVE  Inv'
<1> DEFINE c == Top
           p == c.path
<1>1. /\ phase = "busy" /\ c.pc = "begin" /\ Steady /\ faults' = faults
      /\ opened' = opened /\ result' = result /\ called' = called /\ response' = response
  BY DEF Begin, Busy, server, Steady
<1>2. /\ stack \in Seq(Frame) /\ stack # <<>> /\ Len(stack) \in Nat \ {0}
      /\ c \in Frame /\ FrameOK(version, c) /\ Len(stack) <= MaxDepth /\ c = Last(stack)
  BY <1>1, ShapeIs DEF Inv, Top
<1>3. faults' \in Nat
  BY <1>1 DEF Inv, StackInv
<1>4. called = <<>>
  BY <1>1 DEF Inv, LookupInv, Knows, Top
<1>5. /\ c.obj \in Object /\ c.kind \in Kind /\ p \in Path /\ Class(c.kind) = TypeOf(c.obj)
      /\ c.dir = c.obj /\ ~c.file /\ (c.role = "dir" => version = "old" /\ c.type = "group" /\ p # Dot)
      /\ (p = Dot => c.type = c.kind) /\ (p = Slash => c.type = "group")
  BY <1>1, <1>2 DEF Frame, FrameOK
<1> HIDE DEF c
<1>6. CASE version # "old" \/ c.type # "unknown"
  <2> DEFINE f == [c EXCEPT !.pc = "object"]
  <2>1. stack' = Append(Below, f) /\ phase' = phase
    BY <1>6 DEF Begin, c
  <2>2. /\ f \in Frame /\ f.pc = "object" /\ f.type = c.type /\ f.kind = c.kind
        /\ f.role = c.role /\ f.obj = c.obj /\ f.path = c.path /\ f.file = c.file
    BY <1>2 DEF Frame
  <2> HIDE DEF f
  <2>3. FrameOK(version, f)
    BY <1>1, <1>2, <1>6, <2>2 DEF FrameOK
  <2>4. Last(stack') = f
    BY <1>2, <2>1, <2>2, ReplacedTop DEF Below
  <2>5. Knows(Last(stack))'
    BY <1>1, <1>4, <2>2, <2>4 DEF Knows
  <2> QED
    BY <1>1, <1>3, <2>1, <2>3, <2>5, TopInv DEF f, c
<1>7. CASE version = "old" /\ c.type = "unknown" /\ EmptyDirname(p)
  <2> DEFINE f == [c EXCEPT !.pc = "link"]
  <2>1. stack' = Append(Below, f) /\ phase' = phase
    BY <1>7 DEF Begin, c
  <2>2. /\ f \in Frame /\ f.pc = "link" /\ f.type = c.type /\ f.kind = c.kind /\ f.dir = c.obj
        /\ f.role = c.role /\ f.obj = c.obj /\ f.path = c.path /\ f.file = c.file
    BY <1>2, <1>5 DEF Frame
  <2> HIDE DEF f
  <2>3. FrameOK(version, f)
    BY <1>1, <1>2, <1>5, <1>7, <2>2 DEF FrameOK
  <2>4. Last(stack') = f
    BY <1>2, <2>1, <2>2, ReplacedTop DEF Below
  <2>5. f.dir = DirOf(links, f.obj, f.path)
    BY <1>7, <2>2 DEF DirOf
  <2>6. Knows(Last(stack))'
    BY <1>1, <1>4, <2>2, <2>4, <2>5 DEF Knows, Steady
  <2> QED
    BY <1>1, <1>3, <2>1, <2>3, <2>6, TopInv DEF f, c
<1>8. CASE version = "old" /\ c.type = "unknown" /\ ~EmptyDirname(p)
  <2> DEFINE f == [c EXCEPT !.pc = "dir"]
             r == Dirname(p)
             g == Activation(c.obj, c.kind, r, "group", "dir")
  <2>1. CallItself(f, g) /\ c.role # "dir"
    BY <1>5, <1>8 DEF Begin, c
  <2>2. p # Dot /\ p # Slash
    BY <1>5, <1>8 DEF Kind
  <2>3. r \in Path /\ r # Dot
    BY <1>5, <1>8, <2>2, DirnameIs
  <2>4. /\ f \in Frame /\ f.pc = "dir" /\ f.type = c.type /\ f.kind = c.kind
        /\ f.role = c.role /\ f.obj = c.obj /\ f.path = c.path /\ f.file = c.file
    BY <1>2 DEF Frame
  <2> HIDE DEF r
  <2>5. /\ g \in Frame /\ g.obj = c.obj /\ g.kind = c.kind /\ g.path = r /\ g.role = "dir"
        /\ g.pc = "begin" /\ g.dir = c.obj /\ ~g.file /\ g.type = "group"
    BY <1>5, <2>3 DEF Frame, Activation, ObjType
  <2> HIDE DEF f, g
  <2>6. FrameOK(version, f)
    BY <1>1, <1>2, <1>5, <1>8, <2>1, <2>4 DEF FrameOK
  <2>7. FrameOK(version, g)
    BY <1>5, <1>8, <2>3, <2>5 DEF FrameOK
  <2>8. CASE Len(stack) < MaxDepth
    <3>1. stack' = Below \o <<f, g>> /\ phase' = phase
      BY <2>1, <2>8 DEF CallItself
    <3>2. Waits(f, g)
      BY <2>4, <2>5 DEF Waits, r
    <3>3. Seeks(links, version, call, g, Len(stack) + 1) /\ Nears(links, call, g, Len(stack) + 1)
      BY <2>5 DEF Seeks, Nears
    <3>4. StackInv' /\ LookupInv'
      BY <1>1, <1>3, <1>4, <2>4, <2>5, <2>6, <2>7, <2>8, <3>1, <3>2, <3>3, Pushed DEF c
    <3>5. FilesOf(stack') = FilesOf(stack)
      BY <1>2, <1>5, <2>4, <2>5, <3>1, FilesMore DEF Below
    <3>6. FilesInv'
      BY <1>1, <3>1, <3>5 DEF Inv, FilesInv
    <3> QED
      BY <3>4, <3>6 DEF Inv
  <2>9. CASE ~(Len(stack) < MaxDepth)
    <3>1. stack' = <<>> /\ phase' = "overflow"
      BY <2>1, <2>9 DEF CallItself
    <3>2. Len(stack) >= MaxDepth
      BY <1>2, <2>9, LookupAssumption
    <3>3. opened' \in Nat
      BY <1>1 DEF Inv, FilesInv
    <3> QED
      BY <1>1, <1>8, <2>1, <3>1, <3>2, <3>3, OverflowInv DEF c
  <2> QED
    BY <2>8, <2>9
<1> QED
  BY <1>6, <1>7, <1>8

\* The activation for what a link leads to.
LEMMA FollowingIs ==
  ASSUME Inv, phase = "busy", Top.pc = "link", NEW l, l = Linked, l # NoLink
  PROVE  /\ l \in Link
         /\ Following(l) \in Frame /\ FrameOK(version, Following(l))
         /\ Following(l).role = "again" /\ Following(l).pc = "begin" /\ ~Following(l).file
         /\ l.kind = "hard" =>
              /\ Following(l).obj = Top.obj /\ Following(l).path = Top.path
              /\ Following(l).type = TypeOf(l.target) /\ l.target \in Object
         /\ l.kind # "hard" =>
              /\ Following(l).obj = FromOf(Top.obj, l) /\ Following(l).path = l.path
              /\ Following(l).type = "unknown" \/ l.path = Dot \/ l.path = Slash
<1> DEFINE x == Top.obj
           q == Top.path
           k == Top.kind
           g == Following(l)
<1>1. /\ x \in Object /\ q \in Path /\ k \in Kind /\ q # Dot /\ q # Slash
      /\ Class(k) = TypeOf(x)
  BY AsksLink, ShapeIs DEF Inv, Frame, FrameOK
<1>2. l \in Link
  BY <1>1, DirnameIs, LinkInType DEF Linked, Inv, StackInv
<1> HIDE DEF x, q, k
<1>3. CASE l.kind = "hard"
  <2>1. l.target \in Object
    BY <1>2, <1>3 DEF Link
  <2>2. g = [obj |-> x, kind |-> k, path |-> q, role |-> "again", pc |-> "begin", dir |-> x,
             file |-> FALSE, type |-> TypeOf(l.target)]
    BY <1>1, <1>3 DEF Following, Activation, LinkObjType, x, q, k
  <2>3. TypeOf(l.target) \in {"group", "dataset"}
    BY DEF TypeOf
  <2> HIDE DEF g
  <2>4. g \in Frame
    BY <1>1, <2>2, <2>3 DEF Frame, ObjType
  <2>5. FrameOK(version, g)
    BY <1>1, <2>2 DEF FrameOK
  <2> QED
    BY <1>2, <1>3, <2>1, <2>2, <2>4, <2>5 DEF g, x, q
<1>4. CASE l.kind # "hard"
  <2> DEFINE y == FromOf(x, l)
             h == IF l.kind = "soft" THEN k ELSE "file"
             t == IF l.path = Dot THEN h ELSE IF l.path = Slash THEN "group" ELSE "unknown"
  <2>1. /\ l.kind \in {"soft", "external"} /\ l.path \in Path
        /\ l.kind = "external" => l.file \in File
    BY <1>2, <1>4 DEF Link
  <2>2. g = [obj |-> y, kind |-> h, path |-> l.path, role |-> "again", pc |-> "begin", dir |-> y,
             file |-> FALSE, type |-> t]
    <3>1. CASE l.kind = "soft"
      BY <3>1 DEF Following, Activation, FromOf, x, q, k
    <3>2. CASE l.kind = "external"
      BY <3>2 DEF Following, Activation, FromOf, x, q, k
    <3> QED
      BY <2>1, <3>1, <3>2
  <2>3. y \in Object /\ h \in Kind /\ Class(h) = TypeOf(y)
    <3>1. CASE l.kind = "soft"
      BY <1>1, <3>1 DEF FromOf
    <3>2. CASE l.kind = "external"
      <4>1. Root[l.file] \in Group
        BY <2>1, <3>2, RootAssumption
      <4> QED
        BY <3>2, <4>1 DEF FromOf, Object, Kind, Class, TypeOf
    <3> QED
      BY <2>1, <3>1, <3>2
  <2>4. t \in ObjType /\ (l.path = Dot => t = h) /\ (l.path = Slash => t = "group")
        /\ (t = "unknown" \/ l.path = Dot \/ l.path = Slash)
    <3>1. Dot # Slash
      BY DEF Dot, Slash
    <3> HIDE DEF h
    <3> QED
      BY <2>3, <3>1 DEF Kind, ObjType
  <2>5. y = FromOf(x, l)
    OBVIOUS
  <2> HIDE DEF g, y, h, t
  <2>6. g \in Frame
    BY <2>1, <2>2, <2>3, <2>4 DEF Frame
  <2>7. FrameOK(version, g)
    BY <2>2, <2>3, <2>4 DEF FrameOK
  <2> QED
    BY <1>2, <1>4, <2>2, <2>4, <2>5, <2>6, <2>7 DEF g, x
<1> QED
  BY <1>3, <1>4

\* The inner call seeks what the outer one does.
LEMMA FollowingSeeks ==
  ASSUME Inv, phase = "busy", Top.pc = "link", changes = 0, NEW l, l = Linked, l # NoLink,
         NEW g, g = Following(l)
  PROVE  Seeks(links, version, call, g, Len(stack) + 1) /\ Nears(links, call, g, Len(stack) + 1)
<1> DEFINE x == Top.obj
           q == Top.path
           n == Len(stack)
           k == MaxDepth - (n - 1)
<1>1. /\ l \in Link /\ g \in Frame /\ g.role = "again" /\ g.pc = "begin"
      /\ l.kind = "hard" => /\ g.obj = x /\ g.path = q
                            /\ g.type = TypeOf(l.target) /\ l.target \in Object
      /\ l.kind # "hard" => /\ g.obj = FromOf(x, l) /\ g.path = l.path
                            /\ g.type = "unknown" \/ l.path = Dot \/ l.path = Slash
  BY FollowingIs
<1>2. /\ version = "old" /\ Top.type = "unknown" /\ Top.role # "dir" /\ x \in Object /\ q \in Path
      /\ q # Dot /\ q # Slash /\ l = LinkOf(links, x, q)
  BY AsksLink
<1>3. links \in Links
  BY DEF Inv, StackInv
<1>4. n \in Nat /\ MaxDepth \in Nat
  BY ShapeIs, LookupAssumption DEF Inv
<1>5. k \in Nat \ {0} /\ Seeks(links, version, call, Top, n)
  BY TopSeeks
<1>6. Find(links, "old", x, q, "unknown", k) = Sought(links, version, call)
  BY <1>2, <1>5 DEF Seeks
<1>7. MaxDepth - ((n + 1) - 1) = k - 1 /\ k - 1 \in Nat /\ MaxFollow - ((n + 1) - 1) = MaxFollow - n
      /\ (n + 1) - 1 = n
  <2>1. k \in Nat \ {0}
    BY <1>5
  <2> HIDE DEF n
  <2> QED
    BY <1>4, <2>1, FollowAssumption
<1>8. g.type \in ObjType /\ g.obj \in Object /\ g.path \in Path
  BY <1>1 DEF Frame
<1> DEFINE y == FromOf(x, l)
           rest == Find(links, "old", y, l.path, "unknown", k - 1)
           T == Typed(links, x, q, TypeOf(l.target))
           F(t, m) == Find(links, "old", x, q, t, m)
<1>9. F("unknown", k) = IF l.kind = "hard" THEN T ELSE rest
  <2>1. "unknown" \in ObjType
    BY DEF ObjType
  <2> HIDE DEF k
  <2>2. F("unknown", k) =
          IF q = Dot THEN x
          ELSE IF q = Slash \/ "unknown" # "unknown"
          THEN Typed(links, x, q, IF q = Slash THEN "group" ELSE "unknown")
          ELSE IF l = NoLink THEN Nothing
          ELSE IF l.kind = "hard" THEN T
          ELSE IF k = 0 THEN Nothing ELSE rest
    BY <1>2, <1>3, <1>5, <2>1, FindIs
  <2> HIDE DEF F, T, rest, x, q
  <2> QED
    BY <1>2, <1>5, <2>2
<1>10. Find(links, "old", g.obj, g.path, g.type, k - 1) = F("unknown", k)
  <2>1. CASE l.kind = "hard"
    <3> DEFINE t == g.type
               j == k - 1
    <3>1. t \in ObjType /\ t # "unknown" /\ t = TypeOf(l.target)
      BY <1>1, <1>8, <2>1 DEF TypeOf
    <3>2. j \in Nat
      BY <1>7
    <3> HIDE DEF k, j, t
    <3>3. F(t, j) = IF q = Dot THEN x
                    ELSE IF q = Slash \/ t # "unknown"
                    THEN Typed(links, x, q, IF q = Slash THEN "group" ELSE t)
                    ELSE IF l = NoLink THEN Nothing
                    ELSE IF l.kind = "hard" THEN T
                    ELSE IF j = 0 THEN Nothing
                    ELSE Find(links, "old", FromOf(x, l), l.path, "unknown", j - 1)
      BY <1>2, <1>3, <3>1, <3>2, FindIs
    <3>4. g.obj = x /\ g.path = q
      BY <1>1, <2>1
    <3> HIDE DEF x, q
    <3>5. F(t, j) = T
      <4> HIDE DEF F
      <4> QED
        BY <1>2, <3>1, <3>3
    <3> QED
      BY <1>9, <2>1, <3>4, <3>5 DEF j, t
  <2>2. CASE l.kind # "hard"
    <3>1. g.obj = y /\ g.path = l.path /\ (g.type = "unknown" \/ l.path = Dot \/ l.path = Slash)
      BY <1>1, <2>2
    <3> DEFINE j == k - 1
    <3>2. j \in Nat /\ "unknown" \in ObjType
      BY <1>7 DEF ObjType
    <3> HIDE DEF k, j, x, q, y
    <3>3. Find(links, "old", y, l.path, g.type, j) = Find(links, "old", y, l.path, "unknown", j)
      BY <1>3, <1>8, <3>1, <3>2, WantIgnored
    <3> QED
      BY <1>9, <2>2, <3>1, <3>3 DEF j
  <2> QED
    BY <2>1, <2>2
<1>11. Seeks(links, version, call, g, n + 1)
  <2> DEFINE w == Find(links, "old", g.obj, g.path, g.type, k - 1)
  <2>1. w = Sought(links, version, call)
    BY <1>6, <1>10
  <2>2. Find(links, version, g.obj, g.path, g.type, MaxDepth - ((n + 1) - 1)) = w
    BY <1>2, <1>7
  <2> HIDE DEF w, n, k
  <2> QED
    BY <2>1, <2>2 DEF Seeks
<1>12. Nears(links, call, g, n + 1)
  <2> SUFFICES ASSUME Lawful(links, call), g.type = "unknown"
               PROVE  /\ IsRoot(g.obj) /\ HardDirectory(links, g.obj, g.path)
                      /\ (n + 1) - 1 <= MaxFollow
                      /\ Walk(links, StartOf(g.obj, g.path), g.path.names, MaxFollow - ((n + 1) - 1)) # Nothing
    <3> HIDE DEF n
    <3> QED
      BY DEF Nears
  <2>1. l.kind # "hard"
    BY <1>1 DEF TypeOf
  <2>2. /\ IsRoot(FromOf(x, l)) /\ HardDirectory(links, FromOf(x, l), l.path)
        /\ n <= MaxFollow
        /\ Walk(links, StartOf(FromOf(x, l), l.path), l.path.names, MaxFollow - n) # Nothing
    BY <2>1, FollowNears
  <2>3. g.obj = FromOf(x, l) /\ g.path = l.path
    BY <1>1, <2>1
  <2> HIDE DEF n, x, q
  <2> QED
    BY <1>7, <2>2, <2>3
<1> QED
  BY <1>11, <1>12

LEMMA AskLinkInv ==
  ASSUME Inv, AskLink
  PROVE  Inv'
<1> DEFINE c == Top
           l == Linked
           e == (l.kind = "external")
           f == [c EXCEPT !.pc = "follow", !.file = e]
           g == Following(l)
<1>1. /\ phase = "busy" /\ c.pc = "link" /\ l # NoLink /\ Steady /\ faults' = faults
      /\ result' = result /\ called' = called /\ CallItself(f, g)
      /\ opened' = IF e THEN opened + 1 ELSE opened
  BY DEF AskLink, Busy, server, Steady
<1>2. /\ stack \in Seq(Frame) /\ stack # <<>> /\ Len(stack) \in Nat \ {0}
      /\ c \in Frame /\ FrameOK(version, c) /\ Len(stack) <= MaxDepth /\ c = Last(stack)
  BY <1>1, ShapeIs DEF Inv, Top
<1>3. faults' \in Nat
  BY <1>1 DEF Inv, StackInv
<1>4. called = <<>> /\ c.role # "dir" /\ c.type = "unknown" /\ ~c.file /\ version = "old"
  BY <1>1, AsksLink
<1>5. /\ g \in Frame /\ FrameOK(version, g) /\ g.role = "again" /\ g.pc = "begin" /\ ~g.file
  BY <1>1, FollowingIs
<1>6. changes = 0 =>
        Seeks(links, version, call, g, Len(stack) + 1) /\ Nears(links, call, g, Len(stack) + 1)
  BY <1>1, FollowingSeeks
<1>7. e \in BOOLEAN
  OBVIOUS
<1>8. opened \in Nat /\ opened = Cardinality(FilesOf(stack))
  BY <1>1 DEF Inv, FilesInv
<1> HIDE DEF c, g, l, e
<1>9. /\ f \in Frame /\ f.pc = "follow" /\ f.type = c.type /\ f.kind = c.kind /\ f.file = e
      /\ f.role = c.role /\ f.obj = c.obj /\ f.path = c.path
  BY <1>2, <1>7 DEF Frame
<1> HIDE DEF f
<1>10. FrameOK(version, f)
  BY <1>1, <1>2, <1>4, <1>9 DEF FrameOK
<1>11. CASE Len(stack) < MaxDepth
  <2>1. stack' = Below \o <<f, g>> /\ phase' = phase
    BY <1>1, <1>11 DEF CallItself
  <2>2. Waits(f, g)
    BY <1>5, <1>9 DEF Waits
  <2>3. StackInv' /\ LookupInv'
    BY <1>1, <1>2, <1>3, <1>4, <1>5, <1>6, <1>9, <1>10, <1>11, <2>1, <2>2, Pushed DEF c
  <2>4. FilesInv'
    <3> DEFINE S == FilesOf(stack)
               n == Len(stack)
    <3>1. /\ FilesOf(stack') = IF f.file THEN S \cup {n} ELSE S
          /\ n \notin S
      BY <1>2, <1>4, <1>5, <1>9, <2>1, FilesMore DEF Below
    <3>2. IsFiniteSet(S) /\ Cardinality(S) \in Nat
      BY <1>2, FilesFinite
    <3> HIDE DEF S, n
    <3>3. Cardinality(S \cup {n}) = Cardinality(S) + 1
      BY <3>1, <3>2, FS_AddElement
    <3> QED
      BY <1>1, <1>8, <1>9, <3>1, <3>2, <3>3 DEF FilesInv, S
  <2> QED
    BY <2>3, <2>4 DEF Inv
<1>12. CASE ~(Len(stack) < MaxDepth)
  <2>1. stack' = <<>> /\ phase' = "overflow"
    BY <1>1, <1>12 DEF CallItself
  <2>2. Len(stack) >= MaxDepth
    BY <1>2, <1>12, LookupAssumption
  <2>3. opened' \in Nat
    BY <1>1, <1>8
  <2> QED
    BY <1>1, <1>4, <2>1, <2>2, <2>3, OverflowInv DEF c
<1> QED
  BY <1>11, <1>12

\* Without an activation there is no file.
LEMMA NoFiles == FilesOf(<<>>) = {} /\ Cardinality(FilesOf(<<>>)) = 0
<1>1. Len(<<>>) = 0 /\ 1 .. 0 = {}
  OBVIOUS
<1>2. FilesOf(<<>>) = {}
  BY <1>1 DEF FilesOf
<1> QED
  BY <1>2, FS_EmptySet

LEMMA EmptyShape ==
  ASSUME NEW v, NEW c
  PROVE  Shape(v, c, <<>>)
<1>1. <<>> \in Seq(Frame) /\ Len(<<>>) = 0
  OBVIOUS
<1>2. 0 <= MaxDepth /\ 1 .. 0 = {}
  BY LookupAssumption
<1> QED
  BY <1>1, <1>2 DEF Shape

LEMMA InitInv == Init => Inv
<1> SUFFICES ASSUME Init PROVE Inv
  OBVIOUS
<1> DEFINE o == CHOOSE g \in Group : TRUE
<1>1. o \in Object
  BY LookupAssumption DEF Object
<1>2. call = [obj |-> o, type |-> "group", path |-> Dot, want |-> "group"]
  BY DEF Init
<1>3. Dot \in Path
  <2>1. <<>> \in Seq(Name)
    OBVIOUS
  <2> QED
    BY <2>1 DEF Dot, Path
<1> HIDE DEF o
<1>4. StackInv
  <2>1. links \in Links /\ WithinFiles(links) /\ changes = 0 /\ faults = 0
    BY LookupAssumption DEF Init
  <2>2. phase = "idle" /\ stack = <<>>
    BY DEF Init
  <2>3. call.obj = o /\ call.path = Dot /\ call.want = "group"
    BY <1>2
  <2>4. Shape(version, call, stack)
    BY <2>2, EmptyShape
  <2> QED
    BY <1>1, <1>3, <2>1, <2>2, <2>3, <2>4 DEF StackInv, ObjType
<1>5. LookupInv
  <2>1. /\ phase = "idle" /\ stack = <<>> /\ called = <<>> /\ result.obj = Nothing
    BY DEF Init
  <2>2. 1 .. Len(stack) = {}
    <3>1. Len(stack) = 0
      BY <2>1
    <3> QED
      BY <3>1
  <2> QED
    BY <2>1, <2>2 DEF LookupInv
<1>6. FilesInv
  BY NoFiles DEF Init, FilesInv
<1> QED
  BY <1>4, <1>5, <1>6 DEF Inv

LEMMA CallInv ==
  ASSUME Inv, NEW o \in Object, NEW t \in {"file", "group", "dataset"}, NEW p \in Paths,
         NEW want \in {"unknown", "group"}, Call(o, t, p, want)
  PROVE  Inv'
<1> DEFINE g == Activation(o, t, p, want, "call")
<1>1. /\ phase = "idle" /\ phase' = "busy" /\ stack' = <<g>>
      /\ call' = [obj |-> o, type |-> t, path |-> p, want |-> want]
      /\ t = TypeOf(o) \/ (t = "file" /\ o = Root[FileOf[o]])
      /\ links' = links /\ version' = version /\ changes' = changes /\ response' = response
      /\ called' = called /\ opened' = opened /\ result' = result /\ faults' = faults
  BY DEF Call, server
<1>2. call'.obj = o /\ call'.path = p /\ call'.want = want
  BY <1>1
<1>3. p \in Path /\ want \in ObjType /\ t \in Kind
  BY LookupAssumption DEF ObjType, Kind
<1>4. Class(t) = TypeOf(o)
  <2>1. CASE t = TypeOf(o)
    BY <2>1 DEF TypeOf, Class
  <2>2. CASE t = "file" /\ o = Root[FileOf[o]]
    <3>1. o \in Group
      BY <2>2, RootAssumption
    <3> QED
      BY <2>2, <3>1 DEF TypeOf, Class
  <2> QED
    BY <1>1, <2>1, <2>2
<1>5. Dot # Slash
  BY DEF Dot, Slash
<1>6. /\ g \in Frame /\ g.obj = o /\ g.path = p /\ g.role = "call" /\ g.pc = "begin" /\ ~g.file
      /\ FrameOK(version, g) /\ (g.type = want \/ p = Dot \/ p = Slash)
  <2> DEFINE k == IF p = Dot THEN t ELSE IF p = Slash THEN "group" ELSE want
  <2>1. g = [obj |-> o, kind |-> t, path |-> p, role |-> "call", pc |-> "begin", dir |-> o,
             file |-> FALSE, type |-> k]
    BY DEF Activation
  <2>2. k \in ObjType /\ (p = Dot => k = t) /\ (p = Slash => k = "group")
        /\ (k = want \/ p = Dot \/ p = Slash)
    BY <1>3, <1>5 DEF Kind, ObjType
  <2> HIDE DEF g, k
  <2>3. g \in Frame
    BY <1>3, <2>1, <2>2 DEF Frame
  <2>4. FrameOK(version, g)
    BY <1>4, <2>1, <2>2 DEF FrameOK
  <2> QED
    BY <2>1, <2>2, <2>3, <2>4
<1> HIDE DEF g
<1>7. /\ stack' \in Seq(Frame) /\ Len(stack') = 1 /\ stack'[1] = g /\ stack' # <<>> /\ Last(stack') = g
  <2>1. <<g>> \in Seq(Frame) /\ Len(<<g>>) = 1 /\ <<g>>[1] = g /\ <<g>> # <<>>
    BY <1>6
  <2>2. Last(<<g>>) = g
    BY <2>1, FrontIs
  <2> QED
    BY <1>1, <2>1, <2>2
<1>8. 1 .. 1 = {1} /\ 1 <= MaxDepth /\ MaxDepth - (1 - 1) = MaxDepth /\ MaxDepth \in Nat
  BY LookupAssumption, FollowAssumption
<1>9. StackInv'
  <2>1. Shape(version, call', stack')
    <3>1. \A i \in 1 .. 1 :
            /\ FrameOK(version, stack'[i])
            /\ stack'[i].role = "call" <=> i = 1
            /\ i = 1 => stack'[i].obj = call'.obj /\ stack'[i].path = call'.path
            /\ stack'[i].pc \notin {"dir", "follow"}
      BY <1>2, <1>6, <1>7, <1>8
    <3> QED
      BY <1>7, <1>8, <3>1 DEF Shape
  <2> QED
    BY <1>1, <1>2, <1>3, <1>7, <2>1 DEF Inv, StackInv
<1>10. LookupInv'
  <2>1. Seeks(links, version, call', g, 1)
    <3>1. Find(links, version, o, p, g.type, MaxDepth) = Find(links, version, o, p, want, MaxDepth)
      <4>1. g.type \in ObjType /\ links \in Links
        BY <1>6 DEF Frame, Inv, StackInv
      <4> DEFINE h == g.type
      <4>2. h \in ObjType /\ (h = want \/ p = Dot \/ p = Slash)
        BY <1>6, <4>1
      <4> HIDE DEF h
      <4>3. Find(links, version, o, p, h, MaxDepth) = Find(links, version, o, p, want, MaxDepth)
        BY <1>3, <1>8, <4>1, <4>2, WantIgnored
      <4> QED
        BY <4>3 DEF h
    <3> QED
      BY <1>2, <1>6, <1>8, <3>1 DEF Seeks, Sought
  <2>2. Nears(links, call', g, 1)
    BY <1>6 DEF Nears
  <2>3. \A i \in 1 .. Len(stack') : /\ Seeks(links', version', call', stack'[i], i)
                                    /\ Nears(links', call', stack'[i], i)
    BY <1>1, <1>7, <1>8, <2>1, <2>2
  <2>4. Knows(Last(stack))'
    BY <1>1, <1>6, <1>7 DEF Knows, Inv, LookupInv
  <2>5. result'.obj \in Object \cup {Nothing}
    BY <1>1 DEF Inv, LookupInv
  <2>6. phase' # "idle" /\ phase' # "returned" /\ phase' # "overflow"
    BY <1>1
  <2> QED
    BY <2>3, <2>4, <2>5, <2>6 DEF LookupInv
<1>11. FilesInv'
  <2>1. stack = <<>>
    BY <1>1 DEF Inv, StackInv
  <2>2. opened = 0
    BY <1>1, <2>1, NoFiles DEF Inv, FilesInv
  <2>3. FilesOf(stack') = {}
    BY <1>6, <1>7, <1>8 DEF FilesOf
  <2> QED
    BY <1>1, <2>2, <2>3, FS_EmptySet DEF FilesInv
<1> QED
  BY <1>9, <1>10, <1>11 DEF Inv

LEMMA OtherClientInv ==
  ASSUME Inv, OtherClient
  PROVE  Inv'
<1>1. /\ links' \in Graphs /\ changes' = changes + 1
      /\ version' = version /\ phase' = phase /\ call' = call /\ stack' = stack /\ response' = response
      /\ called' = called /\ opened' = opened /\ result' = result /\ faults' = faults
  BY DEF OtherClient
<1>2. links' \in Links /\ WithinFiles(links')
  BY <1>1, LookupAssumption
<1>3. changes' \in Nat /\ changes' # 0
  BY <1>1 DEF Inv, StackInv
<1>4. StackInv'
  BY <1>1, <1>2, <1>3 DEF Inv, StackInv
<1>5. LookupInv'
  <2>1. phase' = "busy" => Knows(Last(stack))'
    BY <1>1, <1>3 DEF Inv, LookupInv, Knows, Quiet
  <2>2. phase' = "returned" => Outcome'
    BY <1>1, <1>3 DEF Inv, LookupInv, Outcome, Quiet
  <2> QED
    BY <1>1, <1>3, <2>1, <2>2 DEF Inv, LookupInv
<1>6. FilesInv'
  BY <1>1 DEF Inv, FilesInv
<1> QED
  BY <1>4, <1>5, <1>6 DEF Inv

LEMMA StutterInv ==
  ASSUME Inv, UNCHANGED vars
  PROVE  Inv'
BY DEF vars, Inv, StackInv, LookupInv, FilesInv, Knows, Outcome, Quiet

LEMMA NextInv == Inv /\ [Next]_vars => Inv'
<1> SUFFICES ASSUME Inv, [Next]_vars PROVE Inv'
  OBVIOUS
<1>1. CASE \E o \in Object, t \in {"file", "group", "dataset"}, p \in Paths,
              want \in {"unknown", "group"} : Call(o, t, p, want)
  BY <1>1, CallInv
<1>2. CASE Connector
  BY <1>2, BeginInv, AskObjectInv, NotFoundInv, AskLinkInv, LinkNotFoundInv, RequestFailsInv,
     DoneInv, FailedInv DEF Connector
<1>3. CASE OtherClient
  BY <1>3, OtherClientInv
<1>4. CASE UNCHANGED vars
  BY <1>4, StutterInv
<1> QED
  BY <1>1, <1>2, <1>3, <1>4 DEF Next

-----------------------------------------------------------------------------
(* The properties. *)

\* The stack, the lookup and the files are as the invariant has them, after any sequence of calls
\* to RV_find_object_by_path, failing requests and changes by other clients.
THEOREM Invariance == Spec => []Inv
<1> QED
  BY InitInv, NextInv, PTL DEF Spec

\* What the runs' conditions say of the links.
LEMMA PlainIs ==
  ASSUME StackInv, Plain
  PROVE  /\ IsRoot(call.obj) /\ AbsoluteSoft(links)
         /\ WellLinked => Lawful(links, call)
<1>1. IsRoot(call.obj)
  BY DEF Plain, IsRoot
<1>2. AbsoluteSoft(links)
  BY DEF Plain, SoftLinks, AbsoluteSoft
<1>3. WellLinked => HardDirectories(links) /\ Leads(links)
  BY DEF WellLinked, HardDirectories, HardDirectory, Leads
<1> QED
  BY <1>1, <1>2, <1>3 DEF Lawful

\* RV_find_object_by_path, which calls itself for the directory of a path and for what a link
\* leads to: every activation returns to the one that waits for it, a call that has returned has
\* left none of them and no file open, and it does not use up the C stack as long as soft and
\* external links lead to objects.
THEOREM StackIsUnwound == Spec => []StackUnwinds
<1>1. Inv => StackUnwinds
  <2> SUFFICES ASSUME Inv PROVE StackUnwinds
    OBVIOUS
  <2>1. TypeOK
    <3>1. \A f \in ToSet(stack) : f \in Frame
      BY DEF Inv, StackInv, Shape, ToSet
    <3>2. \A f \in Frame :
            /\ f.obj \in Object /\ f.dir \in Object
            /\ f.type \in {"unknown", "file", "group", "dataset"}
            /\ f.pc \in {"begin", "dir", "link", "follow", "object", "done", "failed"}
      BY DEF Frame, ObjType
    <3> QED
      BY <3>1, <3>2 DEF Inv, StackInv, LookupInv, FilesInv, TypeOK
  <2>2. RecursionEnds
    BY PlainIs DEF Inv, LookupInv, RecursionEnds
  <2>3. FilesClosed
    <3> SUFFICES ASSUME phase = "returned" PROVE opened = 0
      BY DEF FilesClosed
    <3>1. stack = <<>>
      BY DEF Inv, StackInv
    <3> QED
      BY <3>1, NoFiles DEF Inv, FilesInv
  <2> QED
    BY <2>1, <2>2, <2>3 DEF StackUnwinds
<1> QED
  BY <1>1, Invariance, PTL

\* The type RV_find_object_by_path hands back is that of the object it found, and the caller's
\* callback has read the answer about that object and no other, whatever else is asked on the way
\* and whatever other clients change between the requests.
THEOREM AnswersAreOwn == Spec => []OwnAnswers
<1>1. Inv => OwnAnswers
  BY DEF Inv, LookupInv, Outcome, Class, OwnAnswers, TypeIsOfFound, CalledOnFound
<1> QED
  BY <1>1, Invariance, PTL

\* RV_find_object_by_path against HDF5's meaning of a path: what it finds is meant, what is meant
\* it finds, and its requests together come to the one function that RVLinks takes for a lookup.
THEOREM FindsAsMeant == Spec => []FindsExactly
<1>1. Inv => FindsExactly
  <2> SUFFICES ASSUME Inv PROVE FindsExactly
    OBVIOUS
  <2> DEFINE o == call.obj
             p == call.path
             W(n) == Walk(links, StartOf(o, p), p.names, n)
  <2>1. links \in Links /\ WithinFiles(links) /\ o \in Object /\ p \in Path /\ call.want \in ObjType
    BY DEF Inv, StackInv
  <2>2. MaxFollow \in Nat /\ MaxDepth \in Nat /\ MaxFollow <= MaxDepth
    BY FollowAssumption, LookupAssumption
  <2>3. Named = W(MaxFollow) /\ NamedFar = W(MaxDepth)
    BY DEF Named, NamedFar, Meant
  <2>4. version # "old" => Sought(links, version, call) = Named
    BY DEF Sought, Find, Named
  <2>5. version = "old" =>
          Sought(links, version, call) = Find(links, "old", o, p, call.want, MaxDepth)
    BY DEF Sought
  <2>6. phase = "returned" => Outcome
    BY DEF Inv, LookupInv
  <2>7. FindsWhatIsMeant
    <3> SUFFICES ASSUME phase = "returned", result.ret = "ok", changes = 0, version = "old" => Plain
                 PROVE  result.obj = W(MaxDepth)
      BY <2>3 DEF FindsWhatIsMeant
    <3>1. result.obj = Sought(links, version, call) /\ result.obj # Nothing
      BY <2>6, SentinelAssumption DEF Outcome
    <3>2. CASE version = "old"
      <4>1. IsRoot(o) /\ AbsoluteSoft(links)
        BY <3>2, PlainIs DEF Inv
      <4> DEFINE F == Find(links, "old", o, p, call.want, MaxDepth)
      <4>2. F # Nothing /\ result.obj = F
        BY <2>5, <3>1, <3>2
      <4>3. W(MaxDepth) = F
        BY <2>1, <2>2, <4>1, <4>2, FindSound
      <4> QED
        BY <4>2, <4>3
    <3>3. CASE version # "old"
      <4> DEFINE x == StartOf(o, p)
                 s == p.names
      <4>1. x \in Object /\ s \in Seq(Name)
        BY <2>1, RootAssumption DEF StartOf, Path, Object
      <4>2. Walk(links, x, s, MaxFollow) # Nothing /\ result.obj = Walk(links, x, s, MaxFollow)
        BY <2>3, <2>4, <3>1, <3>3
      <4> HIDE DEF x, s
      <4>3. Walk(links, x, s, MaxDepth) = Walk(links, x, s, MaxFollow)
        BY <2>1, <2>2, <4>1, <4>2, WalkMore
      <4> QED
        BY <4>2, <4>3 DEF x, s
    <3> QED
      BY <3>2, <3>3
  <2>8. FindsAllThatIsMeant
    <3> SUFFICES ASSUME phase = "returned", Quiet, Named # Nothing, result.ret # "ok",
                        version = "old" => /\ Plain /\ WellLinked /\ call.want = "unknown"
                                           /\ HardDirectory(links, o, p)
                 PROVE  FALSE
      BY DEF FindsAllThatIsMeant, HardDirectory
    <3>1. Sought(links, version, call) = Nothing
      BY <2>6 DEF Outcome
    <3>2. version = "old"
      BY <2>4, <3>1
    <3>3. IsRoot(o) /\ AbsoluteSoft(links) /\ HardDirectories(links) /\ HardDirectory(links, o, p)
      BY <3>2, PlainIs DEF Inv, Lawful
    <3>4. W(MaxFollow) # Nothing
      BY <2>3
    <3>5. Find(links, "old", o, p, "unknown", MaxDepth) # Nothing
      BY <2>1, <2>2, <3>3, <3>4, FindComplete
    <3> QED
      BY <2>5, <3>1, <3>2, <3>5
  <2>9. LookupIsFind
    BY <2>6 DEF LookupIsFind, Outcome, Quiet, Sought
  <2> QED
    BY <2>7, <2>8, <2>9 DEF FindsExactly
<1> QED
  BY <1>1, Invariance, PTL
=============================================================================
