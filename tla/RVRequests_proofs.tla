-------------------------- MODULE RVRequests_proofs --------------------------
(***************************************************************************)
(* Proofs about the state that all requests share: about RVRequests for    *)
(* any number of files, users and ways of setting up the environment, and  *)
(* about RVInit, which allocates that state and frees it.                  *)
(***************************************************************************)
EXTENDS RVRequests, RVInit, FiniteSetTheorems, TLAPS

Verb == {"GET", "PUT", "POST", "DELETE"}   \* the requests of the handlers themselves
Op == FileOp \cup ObjectOp

\* What step, operation and file of a call go together, and that a call in progress has not
\* succeeded yet.
CallShape ==
  /\ call.step = "idle" => call = Idle
  /\ call.step # "idle" => ~last.ok
  /\ call.step \in {"idle", "connect", "crashed"} => ~call.out
  /\ call.step \in {"connect"} \cup Verb \cup Auth => call.op \in Op /\ call.f \in Files
  /\ call.step \in {"connect"} \cup Auth => call.op \in Connecting
  /\ call.step \in Verb => \/ call.step = First(call.op)
                           \/ call.op = "H5Ftruncate" /\ call.step \in {"DELETE", "PUT"}
  /\ call.step \in Verb /\ call.op \notin Connecting => files[call.f] # "closed"
  /\ call.step \in Auth => call.cred = Token

\* What the handle holds between two requests: no method of its own kind is left, except
\* between the two requests of an authentication and, with a token, after them.
MethodReset ==
  /\ call.step \notin {"AUTH1", "AUTH2", "DELETE"} => handle.custom = None
  /\ call.step # "AUTH2" /\ ~call.out => handle.custom = None
  /\ handle.auth = "basic" /\ (~call.out \/ call.step \in {"GET", "DELETE"}) =>
       handle.method = "GET"
  /\ call.step \in Auth => handle.auth = "bearer"

\* The handle authenticates by credentials c.
HandleAs(c) ==
  IF c = Token THEN handle.auth = "bearer" /\ handle.bearer = Token
  ELSE handle.auth = "basic" /\ handle.user = c

\* The environment is set up in the way of s, whose credentials are c: all files have been
\* opened with them, and so does the handle authenticate as soon as one was.
InWay(s, c) ==
  /\ env \in s /\ \A e \in s : e = "none" \/ CredentialOf(e) = c
  /\ \A f \in Files : files[f] \in {c, "closed"}
  /\ call.step \in Verb => call.cred = c
  /\ call.step \in Verb \/ (\E f \in Files : files[f] = c) => HandleAs(c)
  /\ call.step \in Auth => c = Token
  /\ c # Token => handle.auth = "basic"
  /\ c = None => handle.user = None

OneWay == \E s \in Environments, c \in Users \cup {Token, None} : InWay(s, c)

\* The inductive invariant: what went out is right because the options that a request does
\* not set are those of a new handle, and the credentials those of every open file.
Inv ==
  /\ TypeOK /\ SuccessIsAnswered /\ ExtentsAgree /\ SentAsMeant /\ OwnCredentials
  /\ CallShape /\ MethodReset /\ OneWay

HandleRecord ==
  [method : {"GET", "PUT", "POST"}, custom : {None, "DELETE", "POST"}, host : Files \cup {None},
   upload : {"none", "own", "old"}, fields : {"none", "own", "old"}, size : {"strlen", "own", "old"},
   user : Users \cup {None}, auth : {"basic", "bearer"}, bearer : {Token, None}]

CallRecord ==
  [op : Op \cup {None}, f : Files \cup {None}, cred : Credential, out : BOOLEAN,
   step : {"idle", "connect", "crashed"} \cup Verb \cup Auth]

OpenFiles == {f \in Files : files[f] # "closed"}

\* The type invariant by these names, of a state and of its successor.
LEMMA Types ==
  LET Typed == /\ env \in UNION Environments /\ handle \in HandleRecord /\ text \in Text
               /\ files \in [Files -> Credential \cup {"closed"}] /\ call \in CallRecord
               /\ exists \subseteq Files /\ stale \subseteq OpenFiles
  IN (TypeOK <=> Typed) /\ (TypeOK' <=> Typed')
<1>1. {"idle", "connect", "GET", "PUT", "POST", "DELETE", "crashed"} \cup Auth
        = {"idle", "connect", "crashed"} \cup Verb \cup Auth
  BY DEF Verb
<1> QED
  BY <1>1 DEF TypeOK, HandleRecord, CallRecord, OpenFiles, Op

-----------------------------------------------------------------------------
(* Operators. *)

\* The first request of each kind of handler.
LEMMA FirstOf ==
  ASSUME NEW op \in Op
  PROVE  /\ First(op) \in Verb
         /\ First(op) = "DELETE" <=> op = "H5Fdelete"
         /\ First(op) = "PUT" <=> op \in {"H5Fcreate", "H5Fflush", "H5Dset_extent", "H5Awrite"}
         /\ First(op) = "POST" <=> op = "H5Gcreate"
  BY DEF Op, FileOp, ObjectOp, First, Verb

\* Each request sets the method, the host and the body of its own; the rest it leaves.
LEMMA OptionsOf ==
  ASSUME handle \in HandleRecord, files \in [Files -> Credential \cup {"closed"}],
         call.f \in Files, call.step \in Verb \cup Auth
  PROVE  LET h == Options(handle, call)
         IN /\ h \in HandleRecord /\ h.auth = handle.auth /\ h.bearer = handle.bearer
            /\ h.user = handle.user \/ h.user = IF files[call.f] \in Users THEN files[call.f] ELSE None
            /\ h.host = IF call.step \in Auth THEN None ELSE call.f
            /\ h.custom = IF call.step = "DELETE" THEN "DELETE"
                          ELSE IF call.step \in Auth THEN "POST" ELSE handle.custom
            /\ h.method = IF call.step \in Auth THEN "POST"
                          ELSE IF call.step = "DELETE" THEN handle.method ELSE call.step
            /\ call.step = "PUT" => h.upload = IF call.op = "H5Fflush" THEN "none" ELSE "own"
            /\ call.step = "POST" => h.fields = "own" /\ h.size = "own"
<1> USE DEF HandleRecord, Options
<1>1. CASE call.step = "DELETE"
  BY <1>1 DEF RV_curl_delete, Auth
<1>2. CASE call.step = "PUT"
  BY <1>2 DEF RV_curl_put, Auth
<1>3. CASE call.step = "GET"
  BY <1>3 DEF RV_curl_get, RV_file_optional, Auth
<1>4. CASE call.step = "POST"
  BY <1>4 DEF RV_curl_post, Auth
<1>5. CASE call.step \in Auth
  BY <1>5 DEF AuthOptions, Auth
<1> QED
  BY <1>1, <1>2, <1>3, <1>4, <1>5 DEF Verb

\* The parts of a request.
LEMMA WireOf ==
  ASSUME NEW h
  PROVE  /\ Wire(h).method = IF h.custom # None THEN h.custom ELSE h.method
         /\ h.method = "PUT" => Wire(h).body = h.upload
         /\ h.method = "POST" /\ h.size # "old" => Wire(h).body = h.fields
         /\ h.method = "GET" => Wire(h).body = "none"
         /\ Wire(h).host = h.host
         /\ Wire(h).as = IF h.auth = "bearer" THEN h.bearer ELSE h.user
  BY DEF Wire

\* The end of each request undoes its method, and leaves the credentials.
LEMMA ResetOf ==
  ASSUME handle \in HandleRecord, NEW step \in Verb \cup Auth
  PROVE  LET h == Reset(handle, step)
         IN /\ h \in HandleRecord
            /\ h.auth = handle.auth /\ h.bearer = handle.bearer /\ h.user = handle.user
            /\ h.custom = IF step \in {"DELETE", "AUTH2"} THEN None ELSE handle.custom
            /\ h.method = IF step \in {"PUT", "POST"} THEN "GET" ELSE handle.method
<1> USE DEF HandleRecord, Reset, Freed
<1>1. CASE step = "DELETE"
  BY ZenonT(40), <1>1
<1>2. CASE step = "PUT" \/ step = "POST"
  BY ZenonT(40), <1>2
<1>3. CASE step = "GET"
  BY ZenonT(40), <1>3
<1>4. CASE step = "AUTH1"
  BY <1>4
<1>5. CASE step = "AUTH2"
  BY ZenonT(40), <1>5
<1> QED
  BY <1>1, <1>2, <1>3, <1>4, <1>5 DEF Verb, Auth

\* What a request leads to: an authentication to its second half and then to the handler's
\* own first request, a truncation to the next of its requests, all else to the return.
LEMMA ProceedOf ==
  ASSUME NEW code, NEW t, call.op \in Op, call.step \in Verb \cup Auth,
         call.step \in Auth => call.op \in Connecting
  PROVE  LET next == Proceed(call, code, t)
         IN /\ call.step = "AUTH1" => next \in {"AUTH2", "fail"}
            /\ call.step = "AUTH2" => next \in {First(call.op), "fail"}
            /\ call.step \in Verb =>
                 \/ next \in {"return", "fail"}
                 \/ call.op = "H5Ftruncate" /\ next \in {"DELETE", "PUT"}
            /\ next = "return" /\ call.step \in Verb =>
                 /\ call.op = "H5Ftruncate" => call.step \notin {"GET", "DELETE"}
                 /\ \/ call.op = "H5Aread"
                    \/ call.op = "H5Fflush" /\ code = "no content"
                    \/ code = "ok" /\ (call.op \in Parsing => t.kind = "result")
<1> USE DEF Proceed, Verb, Auth
<1>1. CASE call.step \in Auth
  <2>1. call.op \notin {"H5Aread", "H5Fflush"}
    BY <1>1 DEF Connecting
  <2> QED
    BY <1>1, <2>1
<1>2. CASE call.step \in Verb /\ call.op = "H5Ftruncate"
  BY <1>2
<1>3. CASE call.step \in Verb /\ call.op = "H5Aread"
  BY <1>3
<1>4. CASE call.step \in Verb /\ call.op = "H5Fflush"
  BY <1>4
<1>5. CASE call.step \in Verb /\ call.op \notin {"H5Ftruncate", "H5Aread", "H5Fflush"}
  BY <1>5
<1> QED
  BY <1>1, <1>2, <1>3, <1>4, <1>5

-----------------------------------------------------------------------------
(* The initial states, and what happens between two calls. *)

LEMMA InitInv == Init => Inv
<1> SUFFICES ASSUME Init PROVE Inv
  OBVIOUS
<1> USE DEF Init
<1>1. TypeOK
  <2>1. handle \in HandleRecord
    BY DEF NewHandle, HandleRecord
  <2>2. call \in CallRecord
    BY DEF Idle, CallRecord, Credential
  <2>3. text \in Text
    BY DEF NoText, Text
  <2> QED
    BY <2>1, <2>2, <2>3, Types
<1>2. SuccessIsAnswered /\ ExtentsAgree
  BY DEF NoReturn, SuccessIsAnswered, ExtentsAgree
<1>3. SentAsMeant /\ OwnCredentials /\ CallShape
  BY NamesAssumption DEF Idle, NoReturn, SentAsMeant, OwnCredentials, CallShape, Verb, Auth
<1>4. MethodReset
  BY DEF MethodReset, NewHandle, Idle, Auth
<1>5. OneWay
  <2>1. PICK s \in Environments : env \in s
    OBVIOUS
  <2>2. PICK c \in Users \cup {Token, None} : \A e \in s : e = "none" \/ CredentialOf(e) = c
    BY EnvironmentsAssumption
  <2>3. InWay(s, c)
    BY <2>1, <2>2, NamesAssumption DEF InWay, NewHandle, Idle, Verb, Auth
  <2> QED
    BY <2>3 DEF OneWay
<1> QED
  BY <1>1, <1>2, <1>3, <1>4, <1>5 DEF Inv

LEMMA CallInv == ASSUME Inv, NEW f \in Files, NEW op \in Op, Call(op, f) PROVE Inv'
<1> DEFINE step == IF op \in Connecting THEN "connect" ELSE First(op)
           cred == IF op \in Connecting THEN None ELSE files[f]
<1> USE DEF Call
<1>0. /\ call = Idle /\ call' = [op |-> op, f |-> f, out |-> FALSE, step |-> step, cred |-> cred]
      /\ call'.op = op /\ call'.f = f /\ call'.out = FALSE /\ call'.step = step /\ call'.cred = cred
      /\ call.step = "idle" /\ call.out = FALSE
  BY DEF Idle
<1> HIDE DEF step, cred
<1>1. /\ step \in {"connect"} \cup Verb /\ (step = "connect" <=> op \in Connecting)
      /\ step \in Verb => step = First(op) /\ cred = files[f] /\ files[f] # "closed"
      /\ cred \in Credential
  BY FirstOf DEF step, cred, Verb, Inv, TypeOK, Credential
<1>2. TypeOK'
  BY <1>0, <1>1, Types DEF Inv, CallRecord, OpenFiles
<1>3. SuccessIsAnswered' /\ ExtentsAgree' /\ SentAsMeant' /\ OwnCredentials'
  BY <1>0 DEF SuccessIsAnswered, ExtentsAgree, SentAsMeant, OwnCredentials, NoReturn
<1>4. CallShape'
  BY <1>0, <1>1 DEF CallShape, NoReturn, Verb, Auth
<1>5. MethodReset'
  <2>1. step \notin {"AUTH1", "AUTH2"}
    BY <1>1 DEF Verb
  <2>2. handle.custom = None /\ (handle.auth = "basic" => handle.method = "GET")
    BY <1>0 DEF Inv, MethodReset, Auth
  <2> QED
    BY <1>0, <2>1, <2>2 DEF MethodReset, Auth
<1>6. OneWay'
  <2>1. PICK s \in Environments, c \in Users \cup {Token, None} : InWay(s, c)
    BY DEF Inv, OneWay
  <2>2. step \in Verb => cred = c /\ HandleAs(c)
    BY <1>1, <2>1 DEF InWay
  <2>3. step \notin Auth
    BY <1>1 DEF Verb, Auth
  <2>4. InWay(s, c)'
    BY <1>0, <2>1, <2>2, <2>3 DEF InWay, HandleAs
  <2> QED
    BY <2>4 DEF OneWay
<1> QED
  BY <1>2, <1>3, <1>4, <1>5, <1>6 DEF Inv

LEMMA H5FcloseInv == ASSUME Inv, NEW f \in Files, H5Fclose(f) PROVE Inv'
<1> USE DEF H5Fclose
<1>0. call.step = "idle" /\ call.out = FALSE
  BY DEF Idle
<1>1. TypeOK'
  <2>1. files' \in [Files -> Credential \cup {"closed"}] /\ stale' \subseteq OpenFiles'
    BY Types DEF Inv, OpenFiles
  <2> QED
    BY <2>1, Types DEF Inv
<1>2. SuccessIsAnswered' /\ ExtentsAgree'
  BY DEF Inv, SuccessIsAnswered, ExtentsAgree
<1>3. SentAsMeant' /\ OwnCredentials' /\ CallShape' /\ MethodReset'
  BY <1>0 DEF Inv, SentAsMeant, OwnCredentials, CallShape, MethodReset, Verb
<1>4. OneWay'
  <2>1. PICK s \in Environments, c \in Users \cup {Token, None} : InWay(s, c)
    BY DEF Inv, OneWay
  <2>2. c # "closed"
    BY NamesAssumption
  <2>3. \A g \in Files : files'[g] \in {files[g], "closed"}
    BY DEF Inv, TypeOK
  <2>4. InWay(s, c)'
    BY <2>1, <2>2, <2>3 DEF InWay, HandleAs
  <2> QED
    BY <2>4 DEF OneWay
<1> QED
  BY <1>1, <1>2, <1>3, <1>4 DEF Inv

\* The application stays with its way of setting up the environment.
LEMMA SetEnvironmentInv == ASSUME Inv, SetEnvironment PROVE Inv'
<1> USE DEF SetEnvironment
<1>1. TypeOK'
  BY Types DEF Inv, OpenFiles
<1>2. SuccessIsAnswered' /\ ExtentsAgree' /\ SentAsMeant' /\ OwnCredentials' /\ CallShape' /\ MethodReset'
  BY ZenonT(40) DEF Inv, SuccessIsAnswered, ExtentsAgree, SentAsMeant, OwnCredentials, CallShape, MethodReset
<1>3. OneWay'
  <2>1. PICK s \in Environments, c \in Users \cup {Token, None} : InWay(s, c)
    BY DEF Inv, OneWay
  <2>2. PICK t \in Environments : env \in t /\ env' \in t
    OBVIOUS
  <2>3. t = s
    BY <2>1, <2>2, EnvironmentsAssumption DEF InWay
  <2>4. InWay(s, c)'
    BY <2>1, <2>2, <2>3 DEF InWay, HandleAs
  <2> QED
    BY <2>4 DEF OneWay
<1> QED
  BY <1>1, <1>2, <1>3 DEF Inv

LEMMA OtherClientInv == ASSUME Inv, OtherClient PROVE Inv'
<1> USE DEF OtherClient
<1>1. TypeOK'
  BY Types DEF Inv, OpenFiles
<1>2. SuccessIsAnswered' /\ ExtentsAgree' /\ SentAsMeant' /\ OwnCredentials' /\ CallShape' /\ MethodReset'
  BY ZenonT(40) DEF Inv, SuccessIsAnswered, ExtentsAgree, SentAsMeant, OwnCredentials, CallShape, MethodReset
<1>3. OneWay'
  BY DEF Inv, OneWay, InWay, HandleAs
<1> QED
  BY <1>1, <1>2, <1>3 DEF Inv

\* A new process begins with a new handle and no open file.
LEMMA RestartInv == ASSUME Inv, Restart PROVE Inv'
<1> USE DEF Restart
<1>0. call.step = "crashed" /\ ~last.ok /\ call' = Idle /\ Idle.step = "idle" /\ Idle.out = FALSE
  BY DEF Inv, CallShape, Idle
<1>1. TypeOK'
  <2>1. handle' \in HandleRecord
    BY DEF NewHandle, HandleRecord
  <2>2. call' \in CallRecord
    BY DEF Idle, CallRecord, Credential
  <2>3. text' \in Text
    BY DEF NoText, Text
  <2> QED
    BY <2>1, <2>2, <2>3, Types DEF Inv, OpenFiles
<1>2. SuccessIsAnswered' /\ ExtentsAgree' /\ SentAsMeant' /\ OwnCredentials' /\ CallShape'
  BY <1>0 DEF SuccessIsAnswered, ExtentsAgree, SentAsMeant, OwnCredentials, CallShape, Verb, Auth
<1>3. MethodReset'
  BY <1>0 DEF MethodReset, NewHandle, Auth
<1>4. OneWay'
  <2>1. PICK s \in Environments, c \in Users \cup {Token, None} : InWay(s, c)
    BY DEF Inv, OneWay
  <2>2. c # "closed"
    BY NamesAssumption
  <2>3. InWay(s, c)'
    BY <1>0, <2>1, <2>2 DEF InWay, HandleAs, NewHandle, Verb, Auth
  <2> QED
    BY <2>3 DEF OneWay
<1> QED
  BY <1>1, <1>2, <1>3, <1>4 DEF Inv

LEMMA StutterInv == ASSUME Inv, UNCHANGED vars PROVE Inv'
<1> USE DEF vars
<1>1. TypeOK'
  BY Types DEF Inv, OpenFiles
<1>2. SuccessIsAnswered' /\ ExtentsAgree' /\ SentAsMeant' /\ OwnCredentials' /\ CallShape' /\ MethodReset'
  BY ZenonT(40) DEF Inv, SuccessIsAnswered, ExtentsAgree, SentAsMeant, OwnCredentials, CallShape, MethodReset
<1>3. OneWay'
  BY DEF Inv, OneWay, InWay, HandleAs
<1> QED
  BY <1>1, <1>2, <1>3 DEF Inv

-----------------------------------------------------------------------------
(* The connection information and the requests. *)

\* The credentials are found and set in the handle, or a request for a token is next.
LEMMA ConnectedInv ==
  ASSUME Inv, call.step = "connect", NEW h \in HandleRecord, NEW c \in Credential, NEW next,
         Connected(h, c, next), UNCHANGED <<env, text, sent, exists, stale>>,
         h.custom = handle.custom, h.method = handle.method,
         next = First(call.op) \/ (next \in Auth /\ c = Token /\ h.auth = "bearer"),
         h.auth = "basic" => handle.auth = "basic",
         \A s \in Environments, d \in Users \cup {Token, None} : InWay(s, d) =>
            /\ c = d
            /\ next \in Verb \/ (\E f \in Files : files[f] = d) =>
                 IF d = Token THEN h.auth = "bearer" /\ h.bearer = Token
                 ELSE h.auth = "basic" /\ h.user = d
            /\ d # Token => h.auth = "basic"
            /\ d = None => h.user = None
  PROVE  Inv'
<1> USE DEF Connected
<1>0. /\ call.op \in Connecting /\ call.op \in Op /\ call.f \in Files /\ call.out = FALSE /\ ~last.ok
      /\ call \in CallRecord
  BY Types DEF Inv, CallShape, CallRecord
<1>1. /\ call'.step = next /\ call'.cred = c /\ call'.op = call.op /\ call'.f = call.f
      /\ call'.out = FALSE
  BY <1>0 DEF CallRecord
<1>2. next \in Verb \cup Auth /\ (next \in Verb => next = First(call.op))
      /\ (next \in Auth => c = Token /\ h.auth = "bearer") /\ next \notin {"idle", "connect", "crashed"}
  BY <1>0, FirstOf DEF Verb, Auth
<1>3. TypeOK'
  <2>1. call' \in CallRecord
    BY <1>0, <1>2 DEF CallRecord
  <2> QED
    BY <2>1, Types DEF Inv, OpenFiles
<1>4. SuccessIsAnswered' /\ ExtentsAgree' /\ SentAsMeant' /\ OwnCredentials'
  BY <1>1 DEF Inv, SuccessIsAnswered, ExtentsAgree, SentAsMeant, OwnCredentials
<1>5. CallShape'
  BY <1>0, <1>1, <1>2 DEF CallShape
<1>6. MethodReset'
  <2>1. handle.custom = None /\ (handle.auth = "basic" => handle.method = "GET")
    BY <1>0 DEF Inv, MethodReset, Auth
  <2> QED
    BY <1>1, <1>2, <2>1 DEF MethodReset, Verb, Auth
<1>7. OneWay'
  <2>1. PICK s \in Environments, d \in Users \cup {Token, None} : InWay(s, d)
    BY DEF Inv, OneWay
  <2>2. InWay(s, d)'
    BY <1>1, <1>2, <2>1 DEF InWay, HandleAs
  <2> QED
    BY <2>2 DEF OneWay
<1> QED
  BY <1>3, <1>4, <1>5, <1>6, <1>7 DEF Inv

\* The connection information cannot be set: the handler fails with the handle's own
\* credentials, if any file is open, as they were.
LEMMA NotConnectedInv ==
  ASSUME Inv, call.step \in {"connect"} \cup Auth, NotConnected,
         NEW h \in HandleRecord, handle' = h, NEW t \in Text, text' = t,
         UNCHANGED <<env, exists, stale>>,
         h.custom = None, h.method = handle.method, h.auth \in {handle.auth, "bearer"},
         h.bearer = handle.bearer, h.user = handle.user,
         h.auth = "bearer" => handle.auth = "bearer" \/ (CredentialOf(env) = Token /\ env # "none")
  PROVE  Inv'
<1> USE DEF NotConnected, Return
<1>0. /\ call' = Idle /\ Idle.step = "idle" /\ Idle.out = FALSE /\ files' = files
      /\ last' = [op |-> call.op, f |-> call.f, ok |-> FALSE, text |-> text, code |-> "lost"]
      /\ ~last'.ok
  BY DEF Idle
<1>1. TypeOK'
  <2>1. Idle \in CallRecord
    BY DEF Idle, CallRecord, Credential
  <2> QED
    BY <1>0, <2>1, Types DEF Inv, OpenFiles
<1>2. SuccessIsAnswered' /\ ExtentsAgree' /\ SentAsMeant' /\ OwnCredentials' /\ CallShape'
  BY <1>0 DEF SuccessIsAnswered, ExtentsAgree, SentAsMeant, OwnCredentials, CallShape, Verb, Auth
<1>3. MethodReset'
  <2>1. h.auth = "basic" => handle.auth = "basic" /\ call.step = "connect" /\ ~call.out
    BY DEF Inv, MethodReset, CallShape
  <2>2. h.auth = "basic" => h.method = "GET"
    BY <2>1 DEF Inv, MethodReset
  <2> QED
    BY <1>0, <2>2 DEF MethodReset, Auth
<1>4. OneWay'
  <2>1. PICK s \in Environments, c \in Users \cup {Token, None} : InWay(s, c)
    BY DEF Inv, OneWay
  <2>2. c # Token => h.auth = "basic"
    <3>1. c # Token => handle.auth = "basic"
      BY <2>1 DEF InWay
    <3>2. env # "none" => CredentialOf(env) = c
      BY <2>1 DEF InWay
    <3> QED
      BY <3>1, <3>2 DEF HandleRecord
  <2>3. (\E f \in Files : files[f] = c) => HandleAs(c)'
    BY <2>1, <2>2 DEF InWay, HandleAs, HandleRecord
  <2>4. InWay(s, c)'
    BY <1>0, <2>1, <2>2, <2>3 DEF InWay, Verb, Auth
  <2> QED
    BY <2>4 DEF OneWay
<1> QED
  BY <1>1, <1>2, <1>3, <1>4 DEF Inv

\* The connector crashes while it reads its configuration.
LEMMA CrashInv ==
  ASSUME Inv, call.step = "connect", Crash, UNCHANGED <<env, text, sent, exists, stale>>
  PROVE  Inv'
<1> USE DEF Crash
<1>0. call'.step = "crashed" /\ call'.out = FALSE /\ ~last.ok /\ call.out = FALSE
  BY DEF Inv, CallShape, Idle
<1>1. TypeOK'
  <2>1. [Idle EXCEPT !.step = "crashed"] \in CallRecord
    BY DEF Idle, CallRecord, Credential
  <2> QED
    BY <2>1, Types DEF Inv, OpenFiles
<1>2. SuccessIsAnswered' /\ ExtentsAgree' /\ SentAsMeant' /\ OwnCredentials' /\ CallShape'
  BY <1>0 DEF SuccessIsAnswered, ExtentsAgree, SentAsMeant, OwnCredentials, CallShape, Verb, Auth
<1>3. MethodReset'
  BY <1>0 DEF Inv, MethodReset, Auth
<1>4. OneWay'
  BY <1>0 DEF Inv, OneWay, InWay, HandleAs, Verb, Auth
<1> QED
  BY <1>1, <1>2, <1>3, <1>4 DEF Inv

LEMMA ConnectInv == ASSUME Inv, Connect PROVE Inv'
<1> USE DEF Connect
<1>0. /\ call.step = "connect" /\ UNCHANGED <<env, text, sent, exists, stale>>
      /\ handle \in HandleRecord /\ text \in Text
  BY Types DEF Inv
<1>1. CASE env \in Users /\ Connected([handle EXCEPT !.user = env], env, First(call.op))
  <2> DEFINE h == [handle EXCEPT !.user = env]
  <2>1. /\ h \in HandleRecord /\ h.custom = handle.custom /\ h.method = handle.method
        /\ h.auth = handle.auth /\ h.user = env
    BY <1>0, <1>1 DEF HandleRecord
  <2>2. ASSUME NEW s \in Environments, NEW d \in Users \cup {Token, None}, InWay(s, d)
        PROVE  env = d /\ d # Token /\ d # None /\ h.auth = "basic"
    <3>1. env = d
      BY <1>1, <2>2, NamesAssumption DEF InWay, CredentialOf
    <3> QED
      BY <1>1, <2>1, <2>2, <3>1, NamesAssumption DEF InWay
  <2>3. env \in Credential
    BY <1>1 DEF Credential
  <2> HIDE DEF h
  <2>4. Connected(h, env, First(call.op))
    BY <1>1 DEF h
  <2> QED
    BY <1>0, <2>1, <2>2, <2>3, <2>4, ConnectedInv
<1>2. CASE H5_rest_authenticate_with_AD
  <2> DEFINE b == [handle EXCEPT !.auth = "bearer"]
             h == [b EXCEPT !.bearer = Token]
  <2>1. /\ b \in HandleRecord /\ b.custom = handle.custom /\ b.method = handle.method
        /\ b.auth = "bearer" /\ b.user = handle.user /\ b.bearer = handle.bearer
        /\ h \in HandleRecord /\ h.custom = handle.custom /\ h.method = handle.method
        /\ h.auth = "bearer" /\ h.user = handle.user /\ h.bearer = Token
    BY <1>0 DEF HandleRecord
  <2> HIDE DEF b
  <2>2. \/ env = "token" /\ Connected(h, Token, First(call.op))
        \/ env = "expired" /\ handle' = b /\ NotConnected
        \/ env = "secret" /\ Connected(b, Token, "AUTH2")
        \/ env \in {"device", "endpoint"} /\ Connected(b, Token, "AUTH1")
    BY <1>2 DEF H5_rest_authenticate_with_AD, b
  <2> HIDE DEF h
  <2>3. env # "none" /\ CredentialOf(env) = Token
    BY <2>2, NamesAssumption DEF CredentialOf
  <2>4. Token \in Credential /\ Token # None
    BY NamesAssumption DEF Credential
  <2>5. ASSUME NEW s \in Environments, NEW d \in Users \cup {Token, None}, InWay(s, d)
        PROVE  Token = d
    BY <2>3, <2>5 DEF InWay
  <2>6. CASE env = "token" /\ Connected(h, Token, First(call.op))
    BY <1>0, <2>1, <2>4, <2>5, <2>6, ConnectedInv
  <2>7. CASE env = "expired" /\ handle' = b /\ NotConnected
    <3>1. handle.custom = None
      BY <1>0 DEF Inv, MethodReset, CallShape
    <3> QED
      BY <1>0, <2>1, <2>3, <2>7, <3>1, NotConnectedInv
  <2>8. ASSUME NEW next \in Auth, Connected(b, Token, next) PROVE Inv'
    <3>1. next \notin Verb
      BY <2>8 DEF Auth, Verb
    <3>2. ASSUME NEW s \in Environments, NEW d \in Users \cup {Token, None}, InWay(s, d),
                 \E f \in Files : files[f] = d
          PROVE  b.bearer = Token
      BY <2>1, <2>5, <3>2 DEF InWay, HandleAs
    <3> QED
      BY <1>0, <2>1, <2>4, <2>5, <2>8, <3>1, <3>2, ConnectedInv
  <2> QED
    BY <2>2, <2>6, <2>7, <2>8 DEF Auth
<1>3. CASE env = "config" /\ Crash
  BY <1>0, <1>3, CrashInv
<1>4. CASE env = "config" /\ Connected(handle, None, First(call.op))
  <2>1. ASSUME NEW s \in Environments, NEW d \in Users \cup {Token, None}, InWay(s, d)
        PROVE  None = d /\ d # Token /\ handle.auth = "basic" /\ handle.user = None
    <3>1. None = d
      BY <1>4, <2>1, NamesAssumption DEF InWay, CredentialOf
    <3> QED
      BY <2>1, <3>1, NamesAssumption DEF InWay
  <2>2. None \in Credential
    BY DEF Credential
  <2> QED
    BY <1>0, <1>4, <2>1, <2>2, ConnectedInv
<1>5. CASE env = "none" /\ NotConnected /\ UNCHANGED handle
  <2>1. handle.custom = None
    BY <1>0 DEF Inv, MethodReset, CallShape
  <2> DEFINE h == handle
  <2>2. /\ h \in HandleRecord /\ handle' = h /\ text' = text /\ text \in Text /\ NotConnected
        /\ UNCHANGED <<env, exists, stale>> /\ call.step \in {"connect"} \cup Auth
        /\ h.custom = None /\ h.method = handle.method /\ h.auth \in {handle.auth, "bearer"}
        /\ h.bearer = handle.bearer /\ h.user = handle.user
        /\ h.auth = "bearer" => handle.auth = "bearer" \/ (CredentialOf(env) = Token /\ env # "none")
    BY <1>0, <1>5, <2>1
  <2> HIDE DEF h
  <2> QED
    BY <2>2, NotConnectedInv
<1> QED
  BY <1>1, <1>2, <1>3, <1>4, <1>5

\* What a request carries when it goes out.
LEMMA SendInv == ASSUME Inv, Send PROVE Inv'
<1> DEFINE h == Options(handle, call)
<1> USE DEF Send
<1>0. /\ call.step \in Verb \cup Auth /\ ~call.out
      /\ handle' = h /\ sent' = Wire(h)
      /\ text' = IF call.op = "H5Awrite" THEN NoText ELSE text
      /\ call' = [call EXCEPT !.out = TRUE]
      /\ UNCHANGED <<env, files, last, exists, stale>>
  BY DEF Verb
<1>1. /\ handle \in HandleRecord /\ files \in [Files -> Credential \cup {"closed"}]
      /\ call \in CallRecord /\ call.op \in Op /\ call.f \in Files
  BY <1>0, Types DEF Inv, CallShape
<1>2. /\ h \in HandleRecord /\ h.auth = handle.auth /\ h.bearer = handle.bearer
      /\ h.user = handle.user \/ h.user = IF files[call.f] \in Users THEN files[call.f] ELSE None
      /\ h.host = IF call.step \in Auth THEN None ELSE call.f
      /\ h.custom = IF call.step = "DELETE" THEN "DELETE"
                    ELSE IF call.step \in Auth THEN "POST" ELSE handle.custom
      /\ h.method = IF call.step \in Auth THEN "POST"
                    ELSE IF call.step = "DELETE" THEN handle.method ELSE call.step
      /\ call.step = "PUT" => h.upload = IF call.op = "H5Fflush" THEN "none" ELSE "own"
      /\ call.step = "POST" => h.fields = "own" /\ h.size = "own"
  BY <1>0, <1>1, OptionsOf
<1> HIDE DEF h
<1>3. /\ call'.step = call.step /\ call'.cred = call.cred /\ call'.op = call.op
      /\ call'.f = call.f /\ call'.out = TRUE /\ call' \in CallRecord
  BY <1>0, <1>1 DEF CallRecord
<1>4. /\ call.step # "AUTH2" => handle.custom = None
      /\ handle.auth = "basic" => handle.method = "GET" /\ call.step \notin Auth
      /\ call.step \in Auth => handle.auth = "bearer"
  BY <1>0 DEF Inv, MethodReset
<1>5. TypeOK'
  <2>1. text' \in Text
    BY <1>0, Types DEF Inv, NoText, Text
  <2> QED
    BY <1>0, <1>2, <1>3, <2>1, Types DEF Inv, OpenFiles
<1>6. SuccessIsAnswered' /\ ExtentsAgree'
  BY <1>0 DEF Inv, SuccessIsAnswered, ExtentsAgree
<1>7. PICK s \in Environments, c \in Users \cup {Token, None} : InWay(s, c)
  BY DEF Inv, OneWay
<1>8. \/ h.user = handle.user
      \/ h.user = None /\ c \notin Users
      \/ h.user = c
  <2>1. files[call.f] \in {c, "closed"}
    BY <1>1, <1>7 DEF InWay
  <2>2. call.step \in Verb /\ call.op \notin Connecting => files[call.f] = c
    BY <1>0, <2>1 DEF Inv, CallShape
  <2>3. call.op # "H5Fget_filesize" \/ call.step \in Auth => h.user = handle.user
    BY <1>0, <1>1 DEF h, Options, Verb, Auth, RV_curl_delete, RV_curl_put, RV_curl_get, RV_curl_post,
                      AuthOptions, HandleRecord
  <2>4. call.op = "H5Fget_filesize" => call.op \notin Connecting
    BY DEF Connecting
  <2> QED
    BY <1>0, <1>2, <2>2, <2>3, <2>4
<1>9. SentAsMeant'
  <2>1. sent'.method = IF call.step \in Auth THEN "POST" ELSE call.step
    <3>1. sent'.method = IF h.custom # None THEN h.custom ELSE h.method
      BY <1>0, WireOf
    <3> QED
      BY <1>0, <1>2, <1>4, <3>1, NamesAssumption DEF Auth, Verb
  <2>2. sent'.host = IF call.step \in Auth THEN None ELSE call.f
    BY <1>0, <1>2, WireOf
  <2>3. ASSUME call.cred # Token
        PROVE  sent'.body = IF call.step \in {"GET", "DELETE"} \/ (call.op = "H5Fflush" /\ call.step = "PUT")
                            THEN "none" ELSE "own"
    <3>1. call.step \in Verb /\ call.step \notin Auth
      BY <1>0, <2>3 DEF Inv, CallShape, Verb, Auth
    <3>2. handle.auth = "basic" /\ handle.method = "GET"
      BY <1>4, <1>7, <2>3, <3>1 DEF InWay
    <3>3. /\ h.method = "PUT" => sent'.body = h.upload
          /\ h.method = "POST" /\ h.size # "old" => sent'.body = h.fields
          /\ h.method = "GET" => sent'.body = "none"
      BY <1>0, WireOf
    <3> QED
      BY <1>2, <3>1, <3>2, <3>3 DEF Verb
  <2> QED
    BY <1>3, <2>1, <2>2, <2>3 DEF SentAsMeant
<1>10. ASSUME call.step \in Verb \/ \E f \in Files : files[f] = c
       PROVE  IF c = Token THEN h.auth = "bearer" /\ h.bearer = Token
              ELSE h.auth = "basic" /\ h.user = c
  <2>1. HandleAs(c)
    BY <1>7, <1>10 DEF InWay
  <2>2. c \notin Users => c = None \/ c = Token
    OBVIOUS
  <2> QED
    BY <1>2, <1>8, <2>1, <2>2 DEF HandleAs
<1>11. OwnCredentials'
  <2>1. call.step \in Verb => call.cred = c /\ sent'.as = c
    <3>1. sent'.as = IF h.auth = "bearer" THEN h.bearer ELSE h.user
      BY <1>0, WireOf
    <3> QED
      BY <1>7, <1>10, <3>1 DEF InWay
  <2> QED
    BY <1>0, <1>3, <2>1 DEF OwnCredentials
<1>12. CallShape'
  BY <1>0, <1>3 DEF Inv, CallShape, Verb, Auth
<1>13. MethodReset'
  BY <1>0, <1>2, <1>3, <1>4 DEF MethodReset, Verb, Auth
<1>14. OneWay'
  <2>1. c = None => h.user = None
    BY <1>7, <1>8 DEF InWay
  <2>2. c # Token => h.auth = "basic"
    BY <1>2, <1>7 DEF InWay
  <2>3. InWay(s, c)'
    BY <1>0, <1>3, <1>7, <1>10, <2>1, <2>2 DEF InWay, HandleAs
  <2> QED
    BY <2>3 DEF OneWay
<1> QED
  BY <1>5, <1>6, <1>9, <1>11, <1>12, <1>13, <1>14 DEF Inv

-----------------------------------------------------------------------------
(* The end of a request. *)

\* An answer of the server that is taken for a success has come with its own text, except to
\* H5Fflush; a request that is not out can only be lost.
Outcome(code, t) ==
  /\ code \in {"ok", "no content", "error", "lost"} /\ t \in Text
  /\ code = "ok" /\ t.kind = "result" => t.own
  /\ ~call.out => code = "lost"

\* What the handle and the call become when a request is over, with the next step and the
\* handler's result.
LEMMA AfterOf ==
  ASSUME Inv, call.step \in Verb \cup Auth, NEW code, NEW t \in Text, NEW differing,
         After(code, t, differing)
  PROVE  LET next == Proceed(call, code, t)
         IN /\ handle' \in HandleRecord /\ handle'.auth = handle.auth /\ handle'.user = handle.user
            /\ handle'.bearer = handle.bearer \/ handle'.bearer = Token
            /\ call.step = "AUTH2" /\ next # "fail" => handle'.bearer = Token
            /\ call.step \in Verb => handle'.bearer = handle.bearer
            /\ next # "AUTH2" => handle'.custom = None
            /\ handle.auth = "basic" => handle'.method = "GET"
            /\ text' \in Text /\ env' = env
<1> DEFINE next == Proceed(call, code, t)
           step == IF call.step = "AUTH1" /\ next = "fail" THEN "AUTH2" ELSE call.step
           h == Reset(handle, step)
<1>0. /\ handle \in HandleRecord /\ call.op \in Op /\ call \in CallRecord
      /\ call.step \in Auth => call.op \in Connecting
  BY Types DEF Inv, CallShape
<1>1. step \in Verb \cup Auth
  BY DEF Auth
<1>2. /\ handle' = IF call.step = "AUTH2" /\ next # "fail" THEN [h EXCEPT !.bearer = Token] ELSE h
      /\ text' = [t EXCEPT !.own = FALSE] /\ env' = env
  BY DEF After
<1>3. /\ call.step = "AUTH1" => next \in {"AUTH2", "fail"}
      /\ call.step = "AUTH2" => next \in {First(call.op), "fail"}
  BY <1>0, ProceedOf
<1> HIDE DEF next
<1>4. /\ h \in HandleRecord
      /\ h.auth = handle.auth /\ h.bearer = handle.bearer /\ h.user = handle.user
      /\ h.custom = IF step \in {"DELETE", "AUTH2"} THEN None ELSE handle.custom
      /\ h.method = IF step \in {"PUT", "POST"} THEN "GET" ELSE handle.method
  BY <1>0, <1>1, ResetOf
<1> HIDE DEF h
<1>5. next # "AUTH2" => h.custom = None
  <2>1. CASE call.step \in Auth
    BY <1>3, <1>4, <2>1 DEF Auth
  <2>2. CASE call.step \in Verb
    BY <1>4, <2>2 DEF Inv, MethodReset, Verb, Auth
  <2> QED
    BY <2>1, <2>2
<1>6. handle.auth = "basic" => h.method = "GET"
  <2> SUFFICES ASSUME handle.auth = "basic" PROVE h.method = "GET"
    OBVIOUS
  <2>1. call.step \in Verb
    BY DEF Inv, MethodReset, Verb
  <2>2. step = call.step /\ (call.step \in {"GET", "DELETE"} => handle.method = "GET")
    BY <2>1 DEF Inv, MethodReset, Verb
  <2> QED
    BY <1>4, <2>1, <2>2 DEF Verb
<1>7. text' \in Text
  BY <1>2 DEF Text
<1>8. /\ handle' \in HandleRecord /\ handle'.auth = h.auth /\ handle'.user = h.user
      /\ handle'.custom = h.custom /\ handle'.method = h.method
      /\ handle'.bearer = IF call.step = "AUTH2" /\ next # "fail" THEN Token ELSE h.bearer
  BY <1>2, <1>4 DEF HandleRecord
<1> QED
  BY <1>2, <1>4, <1>5, <1>6, <1>7, <1>8 DEF next, Verb

\* The handle authenticates as before, or better.
LEMMA AfterWay ==
  ASSUME Inv, call.step \in Verb \cup Auth, handle' \in HandleRecord,
         handle'.auth = handle.auth, handle'.user = handle.user,
         handle'.bearer = handle.bearer \/ handle'.bearer = Token,
         call.step \in Verb => handle'.bearer = handle.bearer,
         NEW s \in Environments, NEW c \in Users \cup {Token, None}, InWay(s, c), env' = env
  PROVE  /\ env' \in s /\ \A e \in s : e = "none" \/ CredentialOf(e) = c
         /\ call.step \in Verb \/ (\E f \in Files : files[f] = c) => HandleAs(c)'
         /\ c # Token => handle'.auth = "basic"
         /\ c = None => handle'.user = None
  BY DEF InWay, HandleAs

LEMMA ReturnInv ==
  ASSUME Inv, call.step \in Verb, NEW code, NEW t, Outcome(code, t), NEW differing \in SUBSET OpenFiles,
         After(code, t, differing), exists' \subseteq Files,
         Proceed(call, code, t) \in {"return", "fail"}, NEW done \in BOOLEAN,
         NEW good, good = (Proceed(call, code, t) = "return" /\ done), Return(good, code, t),
         stale' = IF Proceed(call, code, t) # "return" \/ ~done \/ call.op # "H5Dset_extent" THEN differing
                  ELSE IF code = "ok" THEN differing \ {call.f} ELSE differing \cup {call.f}
  PROVE  Inv'
<1> DEFINE next == Proceed(call, code, t)
<1> USE DEF Return
<1>0. /\ call' = Idle /\ Idle.step = "idle" /\ Idle.out = FALSE
      /\ last' = [op |-> call.op, f |-> call.f, ok |-> good, text |-> t, code |-> code]
      /\ last'.op = call.op /\ last'.f = call.f /\ last'.ok = good /\ last'.text = t /\ last'.code = code
      /\ call \in CallRecord /\ call.op \in Op /\ call.f \in Files
      /\ code \in {"ok", "no content", "error", "lost"} /\ t \in Text
  BY Types DEF Inv, CallShape, Idle, Verb, Outcome
<1>1. /\ handle' \in HandleRecord /\ handle'.auth = handle.auth /\ handle'.user = handle.user
      /\ handle'.bearer = handle.bearer
      /\ handle'.custom = None
      /\ handle.auth = "basic" => handle'.method = "GET"
      /\ text' \in Text /\ env' = env
  BY <1>0, AfterOf
<1>2. good => /\ call.op = "H5Ftruncate" => call.step \notin {"GET", "DELETE"}
              /\ \/ call.op = "H5Aread"
                 \/ call.op = "H5Fflush" /\ code = "no content"
                 \/ code = "ok" /\ (call.op \in Parsing => t.kind = "result")
  <2>1. call.step \in Auth => call.op \in Connecting
    BY DEF Inv, CallShape
  <2> QED
    BY <1>0, <2>1, ProceedOf
<1> HIDE DEF next
<1>3. /\ files' \in [Files -> Credential \cup {"closed"}]
      /\ \A f \in Files : files[f] # "closed" => files'[f] # "closed"
      /\ call.op \notin Connecting => files' = files
      /\ \A f \in Files : files'[f] \in {files[f], call.cred}
  <2>1. files \in [Files -> Credential \cup {"closed"}] /\ call.cred \in Credential
    BY <1>0, Types DEF Inv, CallRecord
  <2>2. "closed" \notin Credential
    BY NamesAssumption DEF Credential
  <2>3. files' = [files EXCEPT ![call.f] = call.cred] \/ files' = files
    OBVIOUS
  <2>4. call.op \notin Connecting => files' = files
    BY DEF Opening
  <2> QED
    BY <1>0, <2>1, <2>2, <2>3, <2>4
<1>4. TypeOK'
  <2>1. Idle \in CallRecord
    BY DEF Idle, CallRecord, Credential
  <2>2. stale' \subseteq OpenFiles'
    <3>1. differing \subseteq OpenFiles'
      BY <1>3 DEF OpenFiles
    <3>2. call.op = "H5Dset_extent" => call.f \in OpenFiles
      BY <1>0 DEF Inv, CallShape, Connecting, OpenFiles
    <3>3. call.op = "H5Dset_extent" => call.f \in OpenFiles'
      BY <1>3, <3>2 DEF OpenFiles
    <3> QED
      BY <3>1, <3>3
  <2> QED
    BY <1>0, <1>1, <1>3, <2>1, <2>2, Types DEF Inv
<1>5. SuccessIsAnswered'
  <2> SUFFICES ASSUME good, call.op # "H5Aread"
               PROVE  /\ code \in {"ok", "no content"}
                      /\ call.op \in Parsing => t = [own |-> TRUE, kind |-> "result"]
    BY <1>0 DEF SuccessIsAnswered
  <2>1. "H5Fflush" \notin Parsing
    BY DEF Parsing
  <2>2. code \in {"ok", "no content"}
    BY <1>2
  <2>3. call.op \in Parsing => t.kind = "result" /\ t.own = TRUE
    BY <1>0, <1>2, <2>1 DEF Outcome, Text
  <2> QED
    BY <1>0, <2>2, <2>3 DEF Text
<1>6. ExtentsAgree'
  <2> SUFFICES ASSUME good, call.op = "H5Dset_extent" PROVE call.f \notin stale'
    BY <1>0 DEF ExtentsAgree
  <2>1. code = "ok"
    BY <1>2
  <2> QED
    BY <2>1
<1>7. SentAsMeant' /\ OwnCredentials' /\ CallShape'
  BY <1>0 DEF SentAsMeant, OwnCredentials, CallShape, Verb, Auth
<1>8. MethodReset'
  BY <1>0, <1>1 DEF MethodReset, Auth
<1>9. OneWay'
  <2>1. PICK s \in Environments, c \in Users \cup {Token, None} : InWay(s, c)
    BY DEF Inv, OneWay
  <2>2. /\ env' \in s /\ \A e \in s : e = "none" \/ CredentialOf(e) = c
        /\ call.step \in Verb \/ (\E f \in Files : files[f] = c) => HandleAs(c)'
        /\ c # Token => handle'.auth = "basic"
        /\ c = None => handle'.user = None
    BY <1>1, <2>1, AfterWay
  <2>3. \A f \in Files : files'[f] \in {c, "closed"}
    BY <1>3, <2>1 DEF InWay
  <2>4. InWay(s, c)'
    BY <1>0, <2>2, <2>3 DEF InWay, Verb, Auth
  <2> QED
    BY <2>4 DEF OneWay
<1> QED
  BY <1>4, <1>5, <1>6, <1>7, <1>8, <1>9 DEF Inv

\* The handler goes on to its next request.
LEMMA ContinueInv ==
  ASSUME Inv, call.step \in Verb \cup Auth, NEW code, NEW t, Outcome(code, t),
         NEW differing \in SUBSET OpenFiles, After(code, t, differing), exists' \subseteq Files,
         Proceed(call, code, t) \notin {"return", "fail"},
         call' = [call EXCEPT !.step = Proceed(call, code, t), !.out = FALSE],
         stale' = differing, UNCHANGED <<files, last>>
  PROVE  Inv'
<1> DEFINE next == Proceed(call, code, t)
<1>0. /\ call \in CallRecord /\ call.op \in Op /\ call.f \in Files /\ ~last.ok
      /\ call.step \in Auth => call.op \in Connecting /\ call.cred = Token
      /\ t \in Text
  BY Types DEF Inv, CallShape, Outcome, Verb, Auth
<1>1. /\ handle' \in HandleRecord /\ handle'.auth = handle.auth /\ handle'.user = handle.user
      /\ handle'.bearer = handle.bearer \/ handle'.bearer = Token
      /\ call.step = "AUTH2" => handle'.bearer = Token
      /\ call.step \in Verb => handle'.bearer = handle.bearer
      /\ next # "AUTH2" => handle'.custom = None
      /\ handle.auth = "basic" => handle'.method = "GET"
      /\ text' \in Text /\ env' = env
  BY <1>0, AfterOf
<1>2. /\ call.step = "AUTH1" => next = "AUTH2"
      /\ call.step = "AUTH2" => next = First(call.op)
      /\ call.step \in Verb => call.op = "H5Ftruncate" /\ next \in {"DELETE", "PUT"}
  BY <1>0, ProceedOf
<1>3. /\ call'.step = next /\ call'.op = call.op /\ call'.f = call.f /\ call'.cred = call.cred
      /\ call'.out = FALSE
  BY <1>0 DEF CallRecord
<1> HIDE DEF next
<1>4. /\ next \in Verb \cup {"AUTH2"} /\ next \notin {"idle", "connect", "crashed", "AUTH1"}
      /\ next = "AUTH2" => call.step = "AUTH1"
      /\ next \in Verb => \/ next = First(call.op)
                          \/ call.op = "H5Ftruncate" /\ next \in {"DELETE", "PUT"}
      /\ next \in Verb => call.op \in Connecting
  <2>1. CASE call.step = "AUTH1"
    BY <1>2, <2>1 DEF Verb
  <2>2. CASE call.step = "AUTH2"
    BY <1>0, <1>2, <2>2, FirstOf DEF Verb, Auth
  <2>3. CASE call.step \in Verb
    BY <1>2, <2>3 DEF Verb, Connecting
  <2> QED
    BY <2>1, <2>2, <2>3 DEF Auth
<1>5. TypeOK'
  <2>1. call' \in CallRecord
    BY <1>0, <1>4, <1>3 DEF CallRecord, Auth
  <2>2. stale' \subseteq OpenFiles'
    BY DEF OpenFiles
  <2> QED
    BY <1>1, <2>1, <2>2, Types DEF Inv
<1>6. SuccessIsAnswered' /\ ExtentsAgree' /\ SentAsMeant' /\ OwnCredentials'
  BY <1>0, <1>3 DEF SuccessIsAnswered, ExtentsAgree, SentAsMeant, OwnCredentials
<1>7. CallShape'
  BY <1>0, <1>3, <1>4 DEF CallShape, Auth, Verb
<1>8. MethodReset'
  <2>1. handle.auth \in {"basic", "bearer"} /\ (call.step \in Auth => handle.auth = "bearer")
    BY Types DEF Inv, MethodReset, HandleRecord
  <2> QED
    BY <1>1, <1>3, <1>4, <2>1 DEF MethodReset, Auth, Verb
<1>9. OneWay'
  <2>1. PICK s \in Environments, c \in Users \cup {Token, None} : InWay(s, c)
    BY DEF Inv, OneWay
  <2>2. /\ env' \in s /\ \A e \in s : e = "none" \/ CredentialOf(e) = c
        /\ call.step \in Verb \/ (\E f \in Files : files[f] = c) => HandleAs(c)'
        /\ c # Token => handle'.auth = "basic"
        /\ c = None => handle'.user = None
    BY <1>1, <2>1, AfterWay
  <2>3. call.step \in Auth => c = Token /\ handle.auth = "bearer"
    BY <2>1 DEF Inv, InWay, MethodReset
  <2>4. next \in Verb => call'.cred = c /\ HandleAs(c)'
    <3>1. CASE call.step \in Verb
      BY <1>3, <2>1, <2>2, <3>1 DEF InWay
    <3>2. CASE call.step \in Auth
      BY <1>0, <1>1, <1>2, <1>3, <2>3, <3>2 DEF HandleAs, Auth, Verb
    <3> QED
      BY <3>1, <3>2
  <2>5. InWay(s, c)'
    BY <1>3, <1>4, <2>1, <2>2, <2>3, <2>4 DEF InWay, Auth, Verb
  <2> QED
    BY <2>5 DEF OneWay
<1> QED
  BY <1>5, <1>6, <1>7, <1>8, <1>9 DEF Inv

\* An authentication fails, and the handler with it.
LEMMA AfterFailsInv ==
  ASSUME Inv, call.step \in Auth, NEW code, NEW t, Outcome(code, t),
         NEW differing \in SUBSET OpenFiles, After(code, t, differing), exists' \subseteq Files,
         Proceed(call, code, t) = "fail", NotConnected, stale' = differing
  PROVE  Inv'
<1> USE DEF NotConnected, Return
<1>0. /\ call' = Idle /\ Idle.step = "idle" /\ Idle.out = FALSE /\ files' = files
      /\ last' = [op |-> call.op, f |-> call.f, ok |-> FALSE, text |-> text, code |-> "lost"]
      /\ ~last'.ok /\ t \in Text /\ call.step \in Verb \cup Auth /\ handle.auth = "bearer"
  BY DEF Idle, Outcome, Inv, MethodReset
<1>1. /\ handle' \in HandleRecord /\ handle'.auth = handle.auth /\ handle'.user = handle.user
      /\ handle'.bearer = handle.bearer \/ handle'.bearer = Token
      /\ handle'.custom = None /\ text' \in Text /\ env' = env
  BY <1>0, AfterOf
<1>2. TypeOK'
  <2>1. Idle \in CallRecord
    BY DEF Idle, CallRecord, Credential
  <2> QED
    BY <1>0, <1>1, <2>1, Types DEF Inv, OpenFiles
<1>3. SuccessIsAnswered' /\ ExtentsAgree' /\ SentAsMeant' /\ OwnCredentials' /\ CallShape'
  BY <1>0 DEF SuccessIsAnswered, ExtentsAgree, SentAsMeant, OwnCredentials, CallShape, Verb, Auth
<1>4. MethodReset'
  BY <1>0, <1>1 DEF MethodReset, Auth
<1>5. OneWay'
  <2>1. PICK s \in Environments, c \in Users \cup {Token, None} : InWay(s, c)
    BY DEF Inv, OneWay
  <2>2. /\ env' \in s /\ \A e \in s : e = "none" \/ CredentialOf(e) = c
        /\ (\E f \in Files : files[f] = c) => HandleAs(c)'
        /\ c # Token => handle'.auth = "basic"
        /\ c = None => handle'.user = None
    BY <1>0, <1>1, <2>1 DEF InWay, HandleAs
  <2>3. InWay(s, c)'
    BY <1>0, <2>1, <2>2 DEF InWay, Verb, Auth
  <2> QED
    BY <2>3 DEF OneWay
<1> QED
  BY <1>2, <1>3, <1>4, <1>5 DEF Inv

LEMMA AfterInv ==
  ASSUME Inv, call.step \in Verb \cup Auth, NEW code, NEW t, Outcome(code, t),
         NEW differing \in SUBSET OpenFiles, After(code, t, differing), exists' \subseteq Files
  PROVE  Inv'
<1> DEFINE next == Proceed(call, code, t)
<1>1. \/ /\ next \in {"return", "fail"} /\ call.step \notin Auth
         /\ \E done \in Local(next) :
              /\ Return(next = "return" /\ done, code, t)
              /\ stale' = IF next # "return" \/ ~done \/ call.op # "H5Dset_extent" THEN differing
                          ELSE IF code = "ok" THEN differing \ {call.f} ELSE differing \cup {call.f}
      \/ next = "fail" /\ call.step \in Auth /\ NotConnected /\ stale' = differing
      \/ /\ next \notin {"return", "fail"}
         /\ call' = [call EXCEPT !.step = next, !.out = FALSE]
         /\ stale' = differing
         /\ UNCHANGED <<files, last>>
  BY DEF After
<1>2. CASE /\ next \in {"return", "fail"} /\ call.step \notin Auth
           /\ \E done \in Local(next) :
                /\ Return(next = "return" /\ done, code, t)
                /\ stale' = IF next # "return" \/ ~done \/ call.op # "H5Dset_extent" THEN differing
                            ELSE IF code = "ok" THEN differing \ {call.f} ELSE differing \cup {call.f}
  <2>1. PICK done \in Local(next) :
          /\ Return(next = "return" /\ done, code, t)
          /\ stale' = IF next # "return" \/ ~done \/ call.op # "H5Dset_extent" THEN differing
                      ELSE IF code = "ok" THEN differing \ {call.f} ELSE differing \cup {call.f}
    BY <1>2
  <2>2. done \in BOOLEAN
    BY DEF Local
  <2> QED
    BY <1>2, <2>1, <2>2, ReturnInv
<1>3. CASE next = "fail" /\ call.step \in Auth /\ NotConnected /\ stale' = differing
  BY <1>3, AfterFailsInv
<1>4. CASE /\ next \notin {"return", "fail"}
           /\ call' = [call EXCEPT !.step = next, !.out = FALSE]
           /\ stale' = differing
           /\ UNCHANGED <<files, last>>
  BY <1>4, ContinueInv
<1> QED
  BY <1>1, <1>2, <1>3, <1>4

-----------------------------------------------------------------------------
(* What the server does with a request. *)

\* A request that is out belongs to a handler in progress, and carries its own method and
\* domain.
LEMMA OutIs ==
  ASSUME Inv, call.out
  PROVE  /\ call.step \in Verb \cup Auth /\ call.op \in Op /\ call.f \in Files
         /\ call.step \in Verb => sent.method = call.step /\ sent.host = call.f
         /\ call.step \in Auth => sent.method = "POST" /\ sent.host = None
<1>1. call.step \in {"idle", "connect", "crashed"} \cup Verb \cup Auth
  BY Types DEF Inv, CallRecord
<1>2. call.step \in Verb \cup Auth
  BY <1>1 DEF Inv, CallShape
<1> QED
  BY <1>2 DEF Inv, CallShape, SentAsMeant, Verb, Auth

\* The server has no other domains than those of files, and the extents it changes are those
\* of open ones.
LEMMA CarriedOut ==
  ASSUME Inv, call.out
  PROVE  Domains \subseteq Files /\ Extents \in SUBSET OpenFiles
<1>1. /\ call.step \in Verb \cup Auth /\ call.op \in Op /\ call.f \in Files
      /\ call.step \in Verb => sent.method = call.step /\ sent.host = call.f
      /\ call.step \in Auth => sent.method = "POST" /\ sent.host = None
      /\ exists \subseteq Files /\ stale \subseteq OpenFiles
  BY OutIs, Types DEF Inv
<1>2. Domains \subseteq Files
  BY <1>1 DEF Domains
<1>3. ASSUME call.op = "H5Dset_extent", sent.method = "PUT" PROVE sent.host \in OpenFiles
  <2>1. call.step \in Verb /\ call.op \notin Connecting
    BY <1>1, <1>3 DEF Connecting
  <2> QED
    BY <1>1, <2>1 DEF Inv, CallShape, OpenFiles
<1> QED
  BY <1>1, <1>2, <1>3 DEF Extents

LEMMA TextOf ==
  ASSUME Inv
  PROVE  /\ text \in Text /\ [own |-> TRUE, kind |-> "error"] \in Text
         /\ [own |-> TRUE, kind |-> "result"] \in Text
  BY Types DEF Inv, Text

LEMMA NotSentInv == ASSUME Inv, NotSent PROVE Inv'
<1>1. /\ call.step \in Verb \cup Auth /\ After("lost", text, stale)
      /\ exists' \subseteq Files /\ stale \in SUBSET OpenFiles
  BY Types DEF Inv, NotSent, Verb
<1>2. Outcome("lost", text)
  BY TextOf DEF Outcome
<1> QED
  BY <1>1, <1>2, AfterInv

LEMMA AcceptedInv == ASSUME Inv, Accepted PROVE Inv'
<1>1. call.out /\ call.step \in Verb \cup Auth /\ exists' \subseteq Files /\ Extents \in SUBSET OpenFiles
  BY OutIs, CarriedOut DEF Accepted
<1>2. CASE call.op = "H5Fflush"
  <2>1. Outcome("no content", text) /\ After("no content", text, Extents)
    BY <1>1, <1>2, TextOf DEF Outcome, Accepted
  <2> QED
    BY <1>1, <2>1, AfterInv
<1>3. CASE call.op # "H5Fflush"
  <2> DEFINE t == [own |-> TRUE, kind |-> "result"]
  <2>1. Outcome("ok", t) /\ After("ok", t, Extents)
    BY <1>1, <1>3, TextOf DEF Outcome, Accepted
  <2> HIDE DEF t
  <2> QED
    BY <1>1, <2>1, AfterInv
<1> QED
  BY <1>2, <1>3

LEMMA RefusedInv == ASSUME Inv, Refused PROVE Inv'
<1>1. /\ call.out /\ call.step \in Verb \cup Auth /\ exists' \subseteq Files
      /\ stale \in SUBSET OpenFiles
  BY OutIs, Types DEF Inv, Refused
<1>2. PICK t \in {text, [own |-> TRUE, kind |-> "error"]} : After("error", t, stale)
  BY DEF Refused
<1>3. Outcome("error", t)
  BY <1>1, TextOf DEF Outcome
<1> QED
  BY <1>1, <1>2, <1>3, AfterInv

LEMMA BrokenInv == ASSUME Inv, Broken PROVE Inv'
<1>1. PICK t \in {text, [own |-> TRUE, kind |-> "error"]} :
        \/ exists' = exists /\ After("lost", t, stale)
        \/ Acceptable /\ exists' = Domains /\ After("lost", t, Extents)
  BY DEF Broken
<1>2. /\ call.out /\ call.step \in Verb \cup Auth /\ Domains \subseteq Files
      /\ Extents \in SUBSET OpenFiles /\ exists \subseteq Files /\ stale \in SUBSET OpenFiles
  BY OutIs, CarriedOut, Types DEF Inv, Broken
<1>3. Outcome("lost", t)
  BY TextOf DEF Outcome
<1>4. CASE exists' = exists /\ After("lost", t, stale)
  BY <1>2, <1>3, <1>4, AfterInv
<1>5. CASE exists' = Domains /\ After("lost", t, Extents)
  BY <1>2, <1>3, <1>5, AfterInv
<1> QED
  BY <1>1, <1>4, <1>5

-----------------------------------------------------------------------------
(* The theorems. *)

LEMMA NextInv == Inv /\ [Next]_vars => Inv'
<1> SUFFICES ASSUME Inv, [Next]_vars PROVE Inv'
  OBVIOUS
<1>1. CASE Connector
  BY <1>1, ConnectInv, SendInv, NotSentInv DEF Connector
<1>2. CASE Answer
  BY <1>2, AcceptedInv, RefusedInv, BrokenInv DEF Answer
<1>3. CASE \E f \in Files : H5Fclose(f) \/ \E op \in FileOp \cup ObjectOp : Call(op, f)
  BY <1>3, H5FcloseInv, CallInv DEF Op
<1>4. CASE OtherClient \/ SetEnvironment \/ Restart
  BY <1>4, OtherClientInv, SetEnvironmentInv, RestartInv
<1>5. CASE UNCHANGED vars
  BY <1>5, StutterInv
<1> QED
  BY <1>1, <1>2, <1>3, <1>4, <1>5 DEF Next

\* The inductive invariant holds in every state.
THEOREM Invariance == Spec => []Inv
  BY InitInv, NextInv, PTL DEF Spec

\* A handler that succeeds had its last request accepted and its result from that answer,
\* and after H5Dset_extent the dataspace has the server's extent, for any number of files:
\* no text that an earlier handler left in response_buffer is taken for an answer.
THEOREM SuccessIsEarned == Spec => []SuccessEarned
<1>1. Inv => SuccessEarned
  BY DEF Inv, SuccessEarned
<1> QED
  BY <1>1, Invariance, PTL

\* Every request goes out with the method, host, body and credentials of its own call: what
\* the RV_curl_ functions and the authentication leave in the shared handle never changes a
\* later request.
THEOREM OptionsStayOwn == Spec => []RequestsOwn
<1>1. Inv => RequestsOwn
  BY DEF Inv, RequestsOwn
<1> QED
  BY <1>1, Invariance, PTL

\* What is asked of the domains by a handler's own requests.
LEMMA AskedOnly ==
  ASSUME Inv, call.out
  PROVE  /\ Domains \ exists \subseteq (IF call.op \in {"H5Fcreate", "H5Ftruncate"} THEN {call.f} ELSE {})
         /\ exists \ Domains \subseteq (IF call.op \in {"H5Fdelete", "H5Ftruncate"} THEN {call.f} ELSE {})
<1>1. /\ call.step \in Verb \cup Auth /\ call.op \in Op /\ call.f \in Files
      /\ call.step \in Verb => sent.method = call.step /\ sent.host = call.f
  BY OutIs
<1>2. call.step \in Verb => \/ call.step = First(call.op)
                            \/ call.op = "H5Ftruncate" /\ call.step \in {"DELETE", "PUT"}
  BY DEF Inv, CallShape
<1>3. CASE call.step \in Auth \/ call.op \notin FileOp
  BY <1>3 DEF Domains
<1>4. CASE call.step \in Verb \ Auth /\ call.op \in FileOp
  <2>1. Creates => call.op \in {"H5Fcreate", "H5Ftruncate"}
    BY <1>1, <1>2, <1>4, FirstOf DEF Creates, FileOp
  <2>2. sent.method = "DELETE" => call.op \in {"H5Fdelete", "H5Ftruncate"}
    BY <1>1, <1>2, <1>4, FirstOf
  <2> QED
    BY <1>1, <1>4, <2>1, <2>2 DEF Domains, Creates
<1> QED
  BY <1>1, <1>3, <1>4 DEF Verb, Auth

\* Every action but an answer leaves the domains alone, or the call.
LEMMA DomainsChange ==
  ASSUME Inv, [Next]_vars
  PROVE  \/ exists' = exists
         \/ call' = call /\ last' = last
         \/ call.out /\ exists' = Domains /\ (Accepted \/ Broken)
<1>1. CASE Connector
  BY <1>1 DEF Connector, Connect, Send, NotSent
<1>2. CASE Answer
  BY <1>2 DEF Answer, Accepted, Refused, Broken
<1>3. CASE \E f \in Files : H5Fclose(f) \/ \E op \in FileOp \cup ObjectOp : Call(op, f)
  BY <1>3 DEF H5Fclose, Call
<1>4. CASE OtherClient \/ SetEnvironment \/ Restart
  BY <1>4 DEF OtherClient, SetEnvironment, Restart
<1>5. CASE UNCHANGED vars
  BY <1>5 DEF vars
<1> QED
  BY <1>1, <1>2, <1>3, <1>4, <1>5 DEF Next

\* A creation that succeeds does so at the answer "ok" to its PUT.
LEMMA SuccessOf ==
  ASSUME Inv, call.step \in Verb \cup Auth, NEW code, NEW t \in Text, NEW differing,
         After(code, t, differing), last' # last, last'.ok,
         last'.op \in {"H5Fcreate", "H5Ftruncate"}
  PROVE  /\ code = "ok" /\ call.step = "PUT" /\ last'.f = call.f
         /\ call.op \in {"H5Fcreate", "H5Ftruncate"}
<1> DEFINE next == Proceed(call, code, t)
<1>0. /\ call.op \in Op /\ call \in CallRecord
      /\ call.step \in Auth => call.op \in Connecting
  BY Types DEF Inv, CallShape
<1>1. /\ call.step \notin Auth /\ next = "return"
      /\ last'.op = call.op /\ last'.f = call.f
  <2>1. ~NotConnected
    BY DEF NotConnected, Return
  <2>2. /\ next \in {"return", "fail"} /\ call.step \notin Auth
        /\ \E done \in Local(next) : Return(next = "return" /\ done, code, t)
    BY <2>1 DEF After
  <2>3. PICK done \in Local(next) : Return(next = "return" /\ done, code, t)
    BY <2>2
  <2> HIDE DEF next
  <2>4. /\ last'.op = call.op /\ last'.f = call.f
        /\ last'.ok = (next = "return" /\ done)
    BY <2>3 DEF Return
  <2> QED
    BY <2>2, <2>4
<1>2. call.step \in Verb
  BY <1>1
<1>3. call.op \in {"H5Fcreate", "H5Ftruncate"}
  BY <1>1
<1>4. /\ call.op = "H5Ftruncate" => call.step \notin {"GET", "DELETE"}
      /\ code = "ok"
  BY <1>0, <1>1, <1>2, <1>3, ProceedOf
<1>5. call.step = First(call.op) \/ (call.op = "H5Ftruncate" /\ call.step \in {"DELETE", "PUT"})
  BY <1>2 DEF Inv, CallShape
<1>6. call.step = "PUT"
  <2>1. CASE call.op = "H5Fcreate"
    BY <1>5, <2>1, FirstOf DEF Op, FileOp
  <2>2. CASE call.op = "H5Ftruncate"
    BY <1>4, <1>5, <2>2 DEF First
  <2> QED
    BY <1>3, <2>1, <2>2
<1> QED
  BY <1>1, <1>3, <1>4, <1>6

\* A creation that succeeds is the step at which the domain comes to exist.
LEMMA CreationStep ==
  ASSUME Inv, [Next]_vars, last' # last, last'.ok, last'.op \in {"H5Fcreate", "H5Ftruncate"}
  PROVE  exists' \ exists = {last'.f}
<1>0. text \in Text /\ [own |-> TRUE, kind |-> "error"] \in Text
  BY TextOf
<1>1. CASE Connector
  <2>1. ~(Connect \/ Send)
    BY DEF Connect, Connected, Crash, NotConnected, Return, H5_rest_authenticate_with_AD, Send
  <2>2. call.step \in Verb \cup Auth /\ After("lost", text, stale)
    BY <1>1, <2>1 DEF Connector, NotSent, Verb
  <2> QED
    BY <1>0, <2>2, SuccessOf
<1>2. CASE Accepted
  <2>1. /\ call.step \in Verb \cup Auth /\ call.f \in Files
        /\ call.step \in Verb => sent.method = call.step /\ sent.host = call.f
    BY <1>2, OutIs DEF Accepted
  <2> DEFINE t == [own |-> TRUE, kind |-> "result"]
  <2>2. \/ After("no content", text, Extents)
        \/ After("ok", t, Extents)
    BY <1>2 DEF Accepted
  <2>3. t \in Text
    BY TextOf
  <2> HIDE DEF t
  <2>4. /\ call.step = "PUT" /\ last'.f = call.f
        /\ call.op \in {"H5Fcreate", "H5Ftruncate"}
    BY <1>0, <2>1, <2>2, <2>3, SuccessOf
  <2>5. Creates /\ call.step \notin Auth /\ call.op \in FileOp /\ sent.host = call.f
    BY <2>1, <2>4 DEF Creates, FileOp, Verb, Auth
  <2>6. call.f \in Files \ exists /\ exists' = exists \cup {call.f}
    BY <1>2, <2>5 DEF Accepted, Acceptable, Domains
  <2> QED
    BY <2>4, <2>6
<1>3. CASE Refused \/ Broken
  <2>1. call.step \in Verb \cup Auth
    BY <1>3, OutIs DEF Refused, Broken
  <2>2. PICK code \in {"error", "lost"}, t \in Text, d \in {stale, Extents} : After(code, t, d)
    BY <1>0, <1>3 DEF Refused, Broken
  <2> QED
    BY <2>1, <2>2, SuccessOf
<1>4. CASE \E f \in Files : H5Fclose(f) \/ \E op \in FileOp \cup ObjectOp : Call(op, f)
  BY <1>4 DEF H5Fclose, Call, NoReturn
<1>5. CASE OtherClient \/ SetEnvironment \/ Restart \/ UNCHANGED vars
  BY <1>5 DEF OtherClient, SetEnvironment, Restart, vars
<1> QED
  BY <1>1, <1>2, <1>3, <1>4, <1>5 DEF Next, Answer

\* A domain appears on the server, as far as this client's calls go, only by H5Fcreate of it,
\* and disappears only by H5Fdelete or a truncating H5Fcreate of it, whatever requests went
\* before; and a creation without truncation that succeeds has made a domain that was not there.
THEOREM DomainsAreExact == Spec => DomainsExact
<1>1. Inv /\ [Next]_vars =>
        [call' # call =>
           /\ exists' \ exists \subseteq (IF call.op \in {"H5Fcreate", "H5Ftruncate"} THEN {call.f} ELSE {})
           /\ exists \ exists' \subseteq (IF call.op \in {"H5Fdelete", "H5Ftruncate"} THEN {call.f} ELSE {})]_vars
  BY DomainsChange, AskedOnly
<1>2. Inv /\ [Next]_vars =>
        [last' # last /\ last'.ok /\ last'.op \in {"H5Fcreate", "H5Ftruncate"} => exists' \ exists = {last'.f}]_vars
  BY CreationStep
<1>3. Spec => DomainsAsAsked
  BY <1>1, Invariance, PTL DEF Spec, DomainsAsAsked
<1>4. Spec => CreatedAnew
  BY <1>2, Invariance, PTL DEF Spec, CreatedAnew
<1> QED
  BY <1>3, <1>4 DEF DomainsExact

-----------------------------------------------------------------------------
(***************************************************************************)
(* RVInit: initialisation and termination of the connector, for any number *)
(* of failures, of closings by the library and of open objects, and any    *)
(* width of the count of bytes.                                            *)
(***************************************************************************)

\* One member or none.
One(b) == IF b THEN 1 ELSE 0

-----------------------------------------------------------------------------
(* Cardinalities of the small sets, and the arithmetic of the count. *)

\* A set cut down to one member counts 1 or 0.
LEMMA CardSingle == \A x, S : Cardinality({x} \cap S) = One(x \in S)
<1> SUFFICES ASSUME NEW x, NEW S PROVE Cardinality({x} \cap S) = One(x \in S)
  OBVIOUS
<1>1. CASE x \in S
  <2>1. {x} \cap S = {x}
    BY <1>1
  <2>2. Cardinality({x}) = 1
    BY FS_Singleton
  <2> QED
    BY <1>1, <2>1, <2>2 DEF One
<1>2. CASE x \notin S
  <2>1. {x} \cap S = {}
    BY <1>2
  <2> QED
    BY <1>2, <2>1, FS_EmptySet DEF One
<1> QED
  BY <1>1, <1>2

\* Of a set of resources the response buffer and the tables are counted.
LEMMA CardCounted ==
  \A S : Cardinality(Counted \cap S) = One("buffer" \in S) + One("tables" \in S)
<1> SUFFICES ASSUME NEW S
             PROVE  Cardinality(Counted \cap S) = One("buffer" \in S) + One("tables" \in S)
  OBVIOUS
<1>1. /\ Cardinality({"buffer"} \cap S) = One("buffer" \in S)
      /\ Cardinality({"tables"} \cap S) = One("tables" \in S)
  BY CardSingle
<1>2. IsFiniteSet({"buffer"} \cap S) /\ IsFiniteSet({"tables"} \cap S)
  BY FS_Singleton, FS_Intersection
<1>3. ({"buffer"} \cap S) \cap ({"tables"} \cap S) = {}
  OBVIOUS
<1>4. Counted \cap S = ({"buffer"} \cap S) \cup ({"tables"} \cap S)
  BY DEF Counted
<1>5. Cardinality(({"buffer"} \cap S) \cup ({"tables"} \cap S))
        = Cardinality({"buffer"} \cap S) + Cardinality({"tables"} \cap S)
           - Cardinality(({"buffer"} \cap S) \cap ({"tables"} \cap S))
  BY <1>2, FS_Union
<1>6. Cardinality(({"buffer"} \cap S) \cap ({"tables"} \cap S)) = 0
  BY <1>3, FS_EmptySet
<1>7. One("buffer" \in S) \in Nat /\ One("tables" \in S) \in Nat
  BY DEF One
<1>8. Cardinality(Counted \cap S) = One("buffer" \in S) + One("tables" \in S) - 0
  BY <1>1, <1>4, <1>5, <1>6
<1> QED
  BY <1>7, <1>8

\* The count stays within its width.
LEMMA ModRange == \A n \in Int : Mod(n) \in Nat /\ Mod(n) < Width
  BY InitAssumption, WidthAssumption DEF Mod

\* A small count is not changed by the width.
LEMMA ModSmall == \A n \in 0..2 : Mod(n) = n
  BY InitAssumption, WidthAssumption DEF Mod

\* Adding to a count that has wrapped around is adding to the number itself.
LEMMA ModAdd == \A n, d \in Int : Mod(Mod(n) + d) = Mod(n + d)
<1> SUFFICES ASSUME NEW n \in Int, NEW d \in Int PROVE Mod(Mod(n) + d) = Mod(n + d)
  OBVIOUS
<1>1. Width \in Int /\ Width > 0
  BY InitAssumption, WidthAssumption
<1>2. \A m \in Int : \E q \in Int : m = q * Width + Mod(m)
  <2> SUFFICES ASSUME NEW m \in Int PROVE m = (m \div Width) * Width + Mod(m) /\ (m \div Width) \in Int
    OBVIOUS
  <2> QED
    BY <1>1 DEF Mod
<1> DEFINE r == Mod(n)
           s == Mod(r + d)
           t == Mod(n + d)
<1>3. r \in Int /\ s \in Nat /\ s < Width /\ t \in Nat /\ t < Width
  <2>1. r \in Int
    BY ModRange
  <2>2. r + d \in Int /\ n + d \in Int
    BY <2>1
  <2> QED
    BY <2>1, <2>2, ModRange
<1>4. PICK a \in Int : n = a * Width + r
  BY <1>2
<1>5. PICK b \in Int : r + d = b * Width + s
  BY <1>2, <1>3
<1>6. PICK c \in Int : n + d = c * Width + t
  BY <1>2
<1> HIDE DEF r, s, t
<1>7. s - t = (c - a - b) * Width
  BY <1>1, <1>3, <1>4, <1>5, <1>6
<1>8. c - a - b = 0
  BY <1>1, <1>3, <1>7
<1>9. s = t
  BY <1>1, <1>3, <1>7, <1>8
<1> QED
  BY <1>9 DEF r, s, t

-----------------------------------------------------------------------------
(* What initialisation and termination make of a sound state. *)

OwnResource == {"curl", "buffer", "tables"}   \* those that H5_rest_term releases
ErrorResource == {"class", "stack"}           \* those that only H5rest_term releases

\* Types, and what Usable and PointsToLive say, of a state s.
Sound(s) ==
  /\ s \in State /\ s.bytes < Width
  /\ s.init => s.points = Resource
  /\ \A r \in s.points : s.live[r] > 0

\* What CountExact says of a state s, with n objects open.
Exact(s, n) == ~s.uncounted => s.bytes = Mod(n + s.live["buffer"] + s.live["tables"])

\* What is freed is what was pointed to, once each.
LEMMA ReleaseOf ==
  ASSUME NEW s, s \in State, \A r \in s.points : s.live[r] > 0, NEW R \in SUBSET Resource
  PROVE  LET t == Release(s, R)
             F == R \cap s.points
         IN /\ t \in State /\ t.bytes < Width
            /\ t.init = s.init /\ t.uncounted = s.uncounted /\ t.points = s.points \ R
            /\ \A r \in Resource : t.live[r] = s.live[r] - One(r \in F)
            /\ \A r \in t.points : t.live[r] > 0
            /\ t.bytes = Mod(s.bytes - (One("buffer" \in F) + One("tables" \in F)))
<1> DEFINE F == R \cap s.points
           lives == [r \in Resource |-> s.live[r] - One(r \in F)]
           freed == One("buffer" \in F) + One("tables" \in F)
           t == [s EXCEPT !.live = lives, !.bytes = Mod(s.bytes - freed), !.points = s.points \ R]
<1>1. \A r : Cardinality({r} \cap R \cap s.points) = One(r \in F)
  <2> TAKE r
  <2>1. {r} \cap R \cap s.points = {r} \cap F
    OBVIOUS
  <2> QED
    BY <2>1, CardSingle
<1>2. Cardinality(Counted \cap R \cap s.points) = freed
  <2>1. Counted \cap R \cap s.points = Counted \cap F
    OBVIOUS
  <2> QED
    BY <2>1, CardCounted
<1>3. Release(s, R) = t
  BY <1>1, <1>2 DEF Release
<1>4. /\ s.init \in BOOLEAN /\ s.uncounted \in BOOLEAN /\ s.bytes \in Nat
      /\ s.points \in SUBSET Resource /\ s.live \in [Resource -> Nat]
  BY DEF State
<1>5. lives \in [Resource -> Nat]
  <2>1. \A r \in Resource : s.live[r] - One(r \in F) \in Nat
    BY <1>4 DEF One
  <2> QED
    BY <2>1
<1>6. Mod(s.bytes - freed) \in Nat /\ Mod(s.bytes - freed) < Width
  <2>1. s.bytes - freed \in Int
    BY <1>4 DEF One
  <2> QED
    BY <2>1, ModRange
<1>7. /\ t.init = s.init /\ t.uncounted = s.uncounted /\ t.points = s.points \ R
      /\ t.live = lives /\ t.bytes = Mod(s.bytes - freed)
  BY DEF State
<1>8. t \in State
  BY <1>4, <1>5, <1>6 DEF State
<1>9. \A r \in t.points : t.live[r] > 0
  BY <1>4, <1>7 DEF One
<1> QED
  BY <1>3, <1>6, <1>7, <1>8, <1>9

\* H5_rest_term takes each of its own resources once from an initialised connector.
LEMMA TermOf ==
  ASSUME NEW s, Sound(s)
  PROVE  LET t == Term(s)
         IN /\ Sound(t) /\ ~t.init /\ t.uncounted = s.uncounted
            /\ \A r \in OwnResource : t.live[r] = s.live[r] - One(s.init)
            /\ \A r \in ErrorResource : t.live[r] = s.live[r]
            /\ t.points = IF s.init THEN ErrorResource ELSE s.points
            /\ \A n \in Nat : Exact(s, n) => Exact(t, n)
<1>1. CASE ~s.init
  <2>1. Term(s) = s /\ s.live \in [Resource -> Nat]
    BY <1>1 DEF Term, Sound, State
  <2>2. \A r \in OwnResource : s.live[r] = s.live[r] - One(s.init)
    BY <1>1, <2>1 DEF One, OwnResource, Resource
  <2> QED
    BY <1>1, <2>1, <2>2
<1>2. CASE s.init
  <2> DEFINE u == Release(s, OwnResource)
             t == [u EXCEPT !.init = FALSE]
  <2>1. /\ s \in State /\ s.points = Resource /\ OwnResource \in SUBSET Resource
        /\ \A r \in s.points : s.live[r] > 0
    BY <1>2 DEF Sound, OwnResource, Resource
  <2>2. /\ u \in State /\ u.bytes < Width
        /\ u.uncounted = s.uncounted /\ u.points = s.points \ OwnResource
        /\ \A r \in Resource : u.live[r] = s.live[r] - One(r \in OwnResource \cap s.points)
        /\ \A r \in u.points : u.live[r] > 0
        /\ u.bytes = Mod(s.bytes - (One("buffer" \in OwnResource \cap s.points)
                                     + One("tables" \in OwnResource \cap s.points)))
    BY <2>1, ReleaseOf
  <2> HIDE DEF u
  <2>3. /\ t \in State /\ t.init = FALSE /\ t.uncounted = u.uncounted /\ t.points = u.points
        /\ t.live = u.live /\ t.bytes = u.bytes
    BY <2>2 DEF State
  <2>8. Term(s) = t
    BY <1>2 DEF Term, u, OwnResource
  <2> HIDE DEF t
  <2>4. /\ \A r \in OwnResource : t.live[r] = s.live[r] - 1
        /\ \A r \in ErrorResource : t.live[r] = s.live[r]
    <3>1. s.live \in [Resource -> Nat]
      BY <2>1 DEF State
    <3> QED
      BY <2>1, <2>2, <2>3, <3>1 DEF OwnResource, ErrorResource, Resource, One
  <2>5. t.points = ErrorResource
    BY <2>1, <2>2, <2>3 DEF OwnResource, ErrorResource, Resource
  <2>6. t.bytes = Mod(s.bytes - 2)
    BY <2>1, <2>2, <2>3 DEF OwnResource, Resource, One
  <2>7. ASSUME NEW n \in Nat, Exact(s, n) PROVE Exact(t, n)
    <3> SUFFICES ASSUME ~t.uncounted
                 PROVE  t.bytes = Mod(n + t.live["buffer"] + t.live["tables"])
      BY DEF Exact
    <3> DEFINE m == n + s.live["buffer"] + s.live["tables"]
    <3>1. s.bytes = Mod(m)
      BY <2>2, <2>3, <2>7 DEF Exact
    <3>2. s.live["buffer"] \in Nat /\ s.live["tables"] \in Nat
      BY <2>1 DEF State, Resource
    <3>7. t.live["buffer"] = s.live["buffer"] - 1 /\ t.live["tables"] = s.live["tables"] - 1
      BY <2>4 DEF OwnResource
    <3>3. n + t.live["buffer"] + t.live["tables"] = m + (-2) /\ m \in Int
      BY <3>7, <3>2
    <3> HIDE DEF m
    <3>4. Mod(m) \in Nat
      BY <3>3, ModRange
    <3>5. Mod(s.bytes - 2) = Mod(Mod(m) + (-2))
      BY <3>1, <3>4
    <3>8. -2 \in Int
      OBVIOUS
    <3>6. Mod(Mod(m) + (-2)) = Mod(m + (-2))
      BY <3>3, <3>8, ModAdd, ZenonT(20)
    <3> QED
      BY <2>6, <3>3, <3>5, <3>6
  <2>9. One(s.init) = 1
    BY <1>2 DEF One
  <2>10. Sound(t)
    BY <2>2, <2>3 DEF Sound
  <2> QED
    BY <1>2, <2>2, <2>3, <2>4, <2>5, <2>7, <2>8, <2>9, <2>10
<1> QED
  BY <1>1, <1>2 DEF Sound, State

\* H5rest_term releases the error class and stack too, whether or not the connector is
\* initialised, and its count begins anew.
LEMMA PublicTermOf ==
  ASSUME objects \in Nat, NEW s, Sound(s)
  PROVE  LET v == PublicTerm(s)
         IN /\ Sound(v) /\ ~v.init /\ Exact(v, objects)
            /\ \A r \in OwnResource : v.live[r] = s.live[r] - One(s.init)
            /\ \A r \in ErrorResource :
                 v.live[r] = s.live[r] - One("class" \in s.points /\ r \in s.points)
<1> DEFINE t == Term(s)
           left == objects + t.live["buffer"] + t.live["tables"]
           u == [t EXCEPT !.bytes = 0, !.uncounted = @ \/ left > 0]
<1>1. /\ Sound(t) /\ ~t.init
      /\ \A r \in OwnResource : t.live[r] = s.live[r] - One(s.init)
      /\ \A r \in ErrorResource : t.live[r] = s.live[r]
      /\ t.points = IF s.init THEN ErrorResource ELSE s.points
  BY TermOf
<1>2. \A r \in ErrorResource : r \in t.points <=> r \in s.points
  BY <1>1 DEF Sound, ErrorResource, Resource
<1>3. PublicTerm(s) = IF "class" \in u.points THEN Release(u, ErrorResource) ELSE u
  BY DEF PublicTerm, ErrorResource
<1> HIDE DEF t
<1>4. t.live["buffer"] \in Nat /\ t.live["tables"] \in Nat /\ left \in Nat
  <2>1. t.live["buffer"] \in Nat /\ t.live["tables"] \in Nat
    BY <1>1 DEF Sound, State, Resource
  <2> QED
    BY <2>1
<1>5. /\ u \in State /\ ~u.init /\ u.points = t.points /\ u.live = t.live /\ u.bytes = 0
      /\ u.uncounted = (t.uncounted \/ left > 0)
  BY <1>1, <1>4 DEF Sound, State
<1> HIDE DEF u
<1>6. 0 < Width /\ Mod(0) = 0
  BY WidthAssumption, InitAssumption, ModSmall
<1>7. Sound(u) /\ Exact(u, objects)
  <2>1. Sound(u)
    BY <1>1, <1>5, <1>6 DEF Sound
  <2>3. ~u.uncounted => ~(left > 0)
    BY <1>5, Zenon
  <2>2. ~u.uncounted => left = 0
    BY <1>4, <2>3
  <2> QED
    BY <1>5, <1>6, <2>1, <2>2 DEF Exact
<1>8. CASE "class" \notin u.points
  <2>1. PublicTerm(s) = u
    BY <1>3, <1>8
  <2>2. "class" \notin s.points
    BY <1>2, <1>5, <1>8 DEF ErrorResource
  <2>3. \A r \in ErrorResource :
          u.live[r] = s.live[r] - One("class" \in s.points /\ r \in s.points)
    <3>1. \A r \in ErrorResource : u.live[r] = s.live[r] /\ u.live[r] \in Nat
      BY <1>1, <1>5 DEF State, ErrorResource, Resource
    <3> QED
      BY <2>2, <3>1 DEF One
  <2> QED
    BY <1>1, <1>5, <1>7, <2>1, <2>3
<1>9. CASE "class" \in u.points
  <2> DEFINE v == Release(u, ErrorResource)
             F == ErrorResource \cap u.points
  <2>1. /\ v \in State /\ v.bytes < Width
        /\ v.init = u.init /\ v.uncounted = u.uncounted /\ v.points = u.points \ ErrorResource
        /\ \A r \in Resource : v.live[r] = u.live[r] - One(r \in F)
        /\ \A r \in v.points : v.live[r] > 0
        /\ v.bytes = Mod(u.bytes - (One("buffer" \in F) + One("tables" \in F)))
    <3>1. ErrorResource \in SUBSET Resource /\ \A r \in u.points : u.live[r] > 0
      BY <1>7 DEF Sound, ErrorResource, Resource
    <3> QED
      BY <1>5, <3>1, ReleaseOf
  <2>2. "buffer" \notin F /\ "tables" \notin F
    BY DEF ErrorResource
  <2>3. \A r \in ErrorResource : r \in F <=> "class" \in s.points /\ r \in s.points
    BY <1>2, <1>5, <1>9 DEF ErrorResource
  <2>4. PublicTerm(s) = v
    BY <1>3, <1>9
  <2> HIDE DEF v
  <2>5. /\ v.live["buffer"] = u.live["buffer"] /\ v.live["tables"] = u.live["tables"]
        /\ v.bytes = Mod(u.bytes)
    BY <1>4, <1>5, <2>1, <2>2 DEF One, Resource
  <2>6. Exact(v, objects)
    BY <1>5, <1>6, <1>7, <2>1, <2>5 DEF Exact
  <2>7. Sound(v)
    BY <1>5, <2>1 DEF Sound
  <2>8. \A r \in OwnResource : v.live[r] = s.live[r] - One(s.init)
    <3>1. \A r \in OwnResource : r \in Resource /\ r \notin F /\ u.live[r] \in Nat
      BY <1>5 DEF OwnResource, ErrorResource, Resource, State
    <3>2. \A r \in OwnResource : v.live[r] = u.live[r] - 0
      BY <2>1, <3>1 DEF One
    <3> QED
      BY <1>1, <1>5, <3>1, <3>2
  <2>9. \A r \in ErrorResource :
          v.live[r] = s.live[r] - One("class" \in s.points /\ r \in s.points)
    <3>1. \A r \in ErrorResource : r \in Resource
      BY DEF ErrorResource, Resource
    <3> QED
      BY <1>1, <1>5, <2>1, <2>3, <3>1 DEF One
  <2> QED
    BY <1>5, <2>1, <2>4, <2>6, <2>7, <2>8, <2>9
<1> QED
  BY <1>8, <1>9

\* How far an initialisation got tells which resources it acquired.
LEMMA AcquiredBy ==
  ASSUME NEW k \in 1..8
  PROVE  /\ Acquired(k) \in SUBSET Resource
         /\ "curl" \in Acquired(k) <=> k > 1
         /\ "buffer" \in Acquired(k) <=> k > 2
         /\ "tables" \in Acquired(k) <=> k > 4
         /\ "class" \in Acquired(k) <=> k > 5
         /\ "stack" \in Acquired(k) <=> k > 6
<1>1. /\ Steps[1] = "curl" /\ Steps[2] = "buffer" /\ Steps[3] = "options" /\ Steps[4] = "tables"
      /\ Steps[5] = "class" /\ Steps[6] = "stack" /\ Steps[7] = "messages"
  BY DEF Steps
<1>2. \A i \in 1..(k - 1) : i \in {1, 2, 3, 4, 5, 6, 7}
  OBVIOUS
<1> QED
  BY <1>1, <1>2 DEF Acquired, Resource

\* The state in which an initialisation ends adds one of each resource acquired; its count is
\* right unless memory was allocated before.
LEMMA AcquireOf ==
  ASSUME objects \in Nat, NEW s, Sound(s), ~s.init, NEW k \in 1..8
  PROVE  LET t == Acquire(s, k)
         IN /\ Sound(t) /\ t.init = (k > 7) /\ Exact(t, objects)
            /\ t.points = s.points \cup Acquired(k)
            /\ \A r \in Resource : t.live[r] = s.live[r] + One(r \in Acquired(k))
<1> DEFINE R == Acquired(k)
           used == objects + s.live["buffer"] + s.live["tables"]
           lives == [r \in Resource |-> s.live[r] + One(r \in R)]
           counted == One("buffer" \in R) + One("tables" \in R)
           t == [s EXCEPT !.bytes = counted, !.points = @ \cup R, !.live = lives,
                          !.init = k > 7, !.uncounted = @ \/ used > 0]
<1>1. Acquire(s, k) = t
  <2>1. Len(Steps) = 7
    BY DEF Steps
  <2>2. Cardinality(R \cap Counted) = counted
    <3>1. R \cap Counted = Counted \cap R
      OBVIOUS
    <3> QED
      BY <3>1, CardCounted
  <2>3. \A r : Cardinality({r} \cap R) = One(r \in R)
    BY CardSingle
  <2> QED
    BY <2>1, <2>2, <2>3 DEF Acquire
<1>2. /\ s \in State /\ s.uncounted \in BOOLEAN /\ s.points \in SUBSET Resource
      /\ s.live \in [Resource -> Nat]
  BY DEF Sound, State
<1>3. R \in SUBSET Resource
  BY AcquiredBy
<1>4. lives \in [Resource -> Nat] /\ counted \in 0..2 /\ used \in Nat
  <2>1. \A r \in Resource : s.live[r] + One(r \in R) \in Nat
    BY <1>2 DEF One
  <2>2. s.live["buffer"] \in Nat /\ s.live["tables"] \in Nat
    BY <1>2 DEF Resource
  <2> QED
    BY <2>1, <2>2 DEF One
<1>5. /\ t \in State /\ t.init = (k > 7) /\ t.uncounted = (s.uncounted \/ used > 0)
      /\ t.points = s.points \cup R /\ t.live = lives /\ t.bytes = counted
  <2>1. (k > 7) \in BOOLEAN /\ (s.uncounted \/ used > 0) \in BOOLEAN /\ counted \in Nat
    BY <1>4
  <2> HIDE DEF lives, counted, used, R
  <2>2. t \in State
    BY <1>2, <1>3, <1>4, <2>1 DEF State
  <2>3. /\ t.points = s.points \cup R /\ t.live = lives /\ t.bytes = counted
    BY <1>2 DEF State
  <2>4. t.init = (k > 7) /\ t.uncounted = (s.uncounted \/ used > 0)
    BY <1>2, Zenon DEF State
  <2> QED
    BY <2>2, <2>3, <2>4
<1>6. t.init => t.points = Resource
  <2>1. k > 7 => R = Resource
    BY AcquiredBy DEF Resource
  <2> QED
    BY <1>2, <1>5, <2>1
<1>7. \A r \in t.points : t.live[r] > 0
  <2>1. \A r \in s.points \cup R : r \in Resource /\ s.live[r] \in Nat /\ (r \in s.points => s.live[r] > 0)
    BY <1>2, <1>3 DEF Sound
  <2> QED
    BY <1>5, <2>1 DEF One
<1>8. Exact(t, objects)
  <2> SUFFICES ASSUME ~t.uncounted
               PROVE  counted = Mod(objects + lives["buffer"] + lives["tables"])
    BY <1>5 DEF Exact
  <2>1. objects = 0 /\ s.live["buffer"] = 0 /\ s.live["tables"] = 0
    <3>1. s.live["buffer"] \in Nat /\ s.live["tables"] \in Nat /\ ~(used > 0)
      BY <1>2, <1>5 DEF Resource
    <3> QED
      BY <3>1
  <2>2. objects + lives["buffer"] + lives["tables"] = counted
    BY <2>1 DEF Resource, One
  <2> QED
    BY <1>4, <2>2, ModSmall
<1>9. t.bytes < Width
  BY <1>4, <1>5, WidthAssumption, InitAssumption
<1>10. Sound(t)
  BY <1>5, <1>6, <1>7, <1>9 DEF Sound
<1> HIDE DEF t
<1> QED
  BY <1>1, <1>5, <1>8, <1>10

\* An initialisation that fails leaves behind one of each own resource at most, and no error
\* class or stack, whatever was left of those before.
LEMMA RestInitOf ==
  ASSUME objects \in Nat, NEW s, Sound(s), ~s.init, NEW k \in 1..8
  PROVE  LET v == RestInit(s, k)
         IN /\ Sound(v) /\ v.init = (k > 7) /\ Exact(v, objects)
            /\ \A r \in OwnResource : v.live[r] <= s.live[r] + 1
            /\ \A r \in ErrorResource : v.live[r] <= s.live[r] + One(k > 7)
<1> DEFINE t == Acquire(s, k)
<1>1. /\ Sound(t) /\ t.init = (k > 7) /\ Exact(t, objects)
      /\ t.points = s.points \cup Acquired(k)
      /\ \A r \in Resource : t.live[r] = s.live[r] + One(r \in Acquired(k))
  BY AcquireOf
<1>2. RestInit(s, k) = IF k > 7 THEN t ELSE PublicTerm(t)
  <2>1. Len(Steps) = 7
    BY DEF Steps
  <2> QED
    BY <2>1 DEF RestInit
<1> HIDE DEF t
<1>3. \A r \in Resource : s.live[r] \in Nat /\ t.live[r] \in Nat
  BY <1>1 DEF Sound, State
<1>4. OwnResource \in SUBSET Resource /\ ErrorResource \in SUBSET Resource
  BY DEF OwnResource, ErrorResource, Resource
<1>5. CASE k > 7
  <2>1. \A r \in Resource : t.live[r] <= s.live[r] + 1 /\ One(k > 7) = 1
    BY <1>1, <1>3, <1>5 DEF One
  <2> QED
    BY <1>1, <1>2, <1>4, <1>5, <2>1
<1>6. CASE ~(k > 7)
  <2> DEFINE v == PublicTerm(t)
  <2>1. /\ Sound(v) /\ ~v.init /\ Exact(v, objects)
        /\ \A r \in OwnResource : v.live[r] = t.live[r] - One(t.init)
        /\ \A r \in ErrorResource :
             v.live[r] = t.live[r] - One("class" \in t.points /\ r \in t.points)
    BY <1>1, PublicTermOf
  <2> HIDE DEF v
  <2>2. \A r \in OwnResource : v.live[r] <= s.live[r] + 1
    BY <1>1, <1>3, <1>4, <1>6, <2>1 DEF One
  <2>3. ASSUME NEW r \in ErrorResource PROVE v.live[r] <= s.live[r]
    <3>1. r \in Acquired(k) => "class" \in Acquired(k)
      BY <2>3, AcquiredBy DEF ErrorResource
    <3>2. r \in Acquired(k) => "class" \in t.points /\ r \in t.points
      BY <1>1, <3>1
    <3> QED
      BY <1>1, <1>3, <1>4, <2>1, <3>2 DEF One
  <2>4. \A r \in ErrorResource : v.live[r] <= s.live[r] + One(k > 7)
    <3>1. One(k > 7) = 0
      BY <1>6 DEF One
    <3>2. \A r \in ErrorResource : v.live[r] <= s.live[r] + 0
      BY <1>3, <1>4, <2>3
    <3> QED
      BY <3>1, <3>2
  <2>5. v.init = (k > 7) /\ RestInit(s, k) = v
    <3>1. v.init \in BOOLEAN
      BY <2>1 DEF Sound, State
    <3> QED
      BY <1>2, <1>6, <2>1, <3>1 DEF v
  <2> QED
    BY <2>1, <2>2, <2>4, <2>5
<1> QED
  BY <1>5, <1>6

-----------------------------------------------------------------------------
(* The inductive invariant. *)

\* An initialised connector is one that the library has.
Registered == initialized => registered

\* PointsToLive keeps the counts of resources natural when they are released, Usable and
\* Registered say what a termination and an initialisation find.
ConnectorInv == ConnectorTypeOK /\ Usable /\ PointsToLive /\ LeftBehind /\ CountExact /\ Registered

\* What LeftBehind says of a state s, after f failures and u closings by the library.
Bounded(s, f, u) ==
  /\ \A r \in OwnResource : s.live[r] <= f + One(s.init)
  /\ \A r \in ErrorResource : s.live[r] <= u + One(s.init)

\* The state as a record has what the invariant says of the variables.
LEMMA NowSound ==
  ASSUME ConnectorInv
  PROVE  /\ Sound(Now) /\ Exact(Now, objects) /\ Bounded(Now, fails, unloads)
         /\ objects \in Nat /\ fails \in Nat /\ unloads \in Nat
         /\ Now.init = initialized /\ (initialized => registered)
<1>1. /\ Now.init = initialized /\ Now.points = points /\ Now.live = live
      /\ Now.bytes = bytes /\ Now.uncounted = uncounted
  BY DEF Now
<1>2. objects \in Nat /\ fails \in Nat /\ unloads \in Nat
  BY InitAssumption DEF ConnectorInv, ConnectorTypeOK
<1>3. Sound(Now)
  BY <1>1 DEF ConnectorInv, ConnectorTypeOK, Usable, PointsToLive, Sound
<1>4. Exact(Now, objects)
  BY <1>1 DEF ConnectorInv, CountExact, Exact, Allocated
<1>5. Bounded(Now, fails, unloads)
  BY <1>1 DEF ConnectorInv, LeftBehind, Bounded, OwnResource, ErrorResource, One
<1> QED
  BY <1>1, <1>2, <1>3, <1>4, <1>5 DEF ConnectorInv, Registered

\* A step that leads to a sound state, with the bounds kept, keeps the invariant.
LEMMA BecomesInv ==
  ASSUME ConnectorInv, NEW v, Becomes(v), Sound(v), Exact(v, objects),
         UNCHANGED objects, registered' \in BOOLEAN, v.init => registered',
         fails' \in 0..MaxFails, unloads' \in 0..MaxUnloads, Bounded(v, fails', unloads')
  PROVE  ConnectorInv'
<1>1. /\ initialized' = v.init /\ points' = v.points /\ live' = v.live
      /\ bytes' = v.bytes /\ uncounted' = v.uncounted
  BY DEF Becomes
<1>2. Now' = v
  <2>1. v = [init |-> v.init, points |-> v.points, live |-> v.live, bytes |-> v.bytes,
             uncounted |-> v.uncounted]
    BY DEF Sound, State
  <2> QED
    BY <1>1, <2>1 DEF Now
<1>3. ConnectorTypeOK'
  BY <1>1, <1>2 DEF ConnectorInv, ConnectorTypeOK, Sound
<1>4. Usable'
  <2>1. \A r \in v.points : v.live[r] > 0
    BY DEF Sound
  <2> QED
    BY <1>1, <2>1 DEF Usable, Sound
<1>5. PointsToLive'
  BY <1>1 DEF PointsToLive, Sound
<1>6. LeftBehind'
  BY <1>1 DEF LeftBehind, Bounded, OwnResource, ErrorResource, One
<1>7. CountExact' /\ Registered'
  BY <1>1 DEF CountExact, Exact, Allocated, Registered
<1> QED
  BY <1>3, <1>4, <1>5, <1>6, <1>7 DEF ConnectorInv

-----------------------------------------------------------------------------
(* The initial state and the steps. *)

LEMMA ConnectorInitInv == ConnectorInit => ConnectorInv
<1> SUFFICES ASSUME ConnectorInit PROVE ConnectorInv
  OBVIOUS
<1> USE DEF ConnectorInit
<1>1. Now \in State
  BY DEF Now, State
<1>5. MaxObjects \in Nat /\ MaxFails \in Nat /\ MaxUnloads \in Nat /\ 0 < Width
  BY InitAssumption, WidthAssumption
<1>2. ConnectorTypeOK /\ Usable /\ PointsToLive /\ Registered
  <2>2. registered \in BOOLEAN
    OBVIOUS
  <2>3. objects \in 0..MaxObjects /\ fails \in 0..MaxFails /\ unloads \in 0..MaxUnloads
    BY <1>5
  <2>4. bytes < Width
    BY <1>5
  <2>1. ConnectorTypeOK
    BY <1>1, <2>2, <2>3, <2>4, Zenon DEF ConnectorTypeOK
  <2> QED
    BY <2>1 DEF Usable, PointsToLive, Registered
<1>3. LeftBehind
  BY DEF LeftBehind, Resource
<1>4. CountExact
  BY ModSmall DEF CountExact, Allocated, Resource
<1> QED
  BY <1>2, <1>3, <1>4 DEF ConnectorInv

\* An initialisation that succeeds makes one of each resource the connector's own.
LEMMA InitialisedBound ==
  ASSUME ConnectorInv, ~initialized, NEW k \in 1..8, Failing(k), NEW v, Sound(v),
         v.init = (k > 7), unloads' = unloads,
         \A r \in OwnResource : v.live[r] <= Now.live[r] + 1,
         \A r \in ErrorResource : v.live[r] <= Now.live[r] + One(k > 7)
  PROVE  fails' \in 0..MaxFails /\ Bounded(v, fails', unloads')
<1>1. Len(Steps) = 7
  BY DEF Steps
<1>2. fails' = fails + One(~(k > 7)) /\ fails' \in 0..MaxFails
  BY <1>1, InitAssumption DEF Failing, One, ConnectorInv, ConnectorTypeOK
<1>3. /\ \A r \in OwnResource : Now.live[r] <= fails
      /\ \A r \in ErrorResource : Now.live[r] <= unloads
      /\ fails \in Nat /\ unloads \in Nat
      /\ \A r \in OwnResource \cup ErrorResource : Now.live[r] \in Nat /\ v.live[r] \in Nat
  <2>1. Bounded(Now, fails, unloads) /\ Now.init = initialized /\ Sound(Now)
        /\ fails \in Nat /\ unloads \in Nat
    BY NowSound
  <2>2. \A r \in OwnResource \cup ErrorResource : Now.live[r] \in Nat /\ v.live[r] \in Nat
    BY <2>1 DEF Sound, State, OwnResource, ErrorResource, Resource
  <2> QED
    BY <2>1, <2>2 DEF Bounded, One
<1>4. CASE k > 7
  <2>1. One(v.init) = 1 /\ One(k > 7) = 1 /\ One(~(k > 7)) = 0
    BY <1>4 DEF One
  <2> QED
    BY <1>2, <1>3, <2>1 DEF Bounded
<1>5. CASE ~(k > 7)
  <2>1. One(v.init) = 0 /\ One(k > 7) = 0 /\ One(~(k > 7)) = 1
    BY <1>5 DEF One
  <2> QED
    BY <1>2, <1>3, <2>1 DEF Bounded
<1> QED
  BY <1>4, <1>5

LEMMA LoadInv == ASSUME ConnectorInv, NEW k \in 1..8, Load(k) PROVE ConnectorInv'
<1> DEFINE v == RestInit(Now, k)
<1>1. /\ Sound(Now) /\ ~Now.init /\ objects \in Nat /\ ~initialized
  BY NowSound DEF Load
<1>2. /\ Sound(v) /\ v.init = (k > 7) /\ Exact(v, objects)
      /\ \A r \in OwnResource : v.live[r] <= Now.live[r] + 1
      /\ \A r \in ErrorResource : v.live[r] <= Now.live[r] + One(k > 7)
  BY <1>1, RestInitOf
<1> HIDE DEF v
<1>3. /\ Failing(k) /\ Becomes(v) /\ registered' = (k > 7)
      /\ UNCHANGED <<objects, unloads>>
  BY DEF Load, v, Steps
<1>4. fails' \in 0..MaxFails /\ Bounded(v, fails', unloads')
  BY <1>1, <1>2, <1>3, InitialisedBound
<1> QED
  BY <1>2, <1>3, <1>4, BecomesInv DEF ConnectorInv, ConnectorTypeOK

\* When H5rest_init fails it terminates once more, which finds nothing to do.
LEMMA H5rest_initInv == ASSUME ConnectorInv, NEW k \in 1..8, H5rest_init(k) PROVE ConnectorInv'
<1> DEFINE t == RestInit(Now, k)
           v == IF k > 7 THEN t ELSE PublicTerm(t)
<1>1. /\ Sound(Now) /\ ~Now.init /\ objects \in Nat /\ ~initialized
  BY NowSound DEF H5rest_init
<1>2. /\ Sound(t) /\ t.init = (k > 7) /\ Exact(t, objects)
      /\ \A r \in OwnResource : t.live[r] <= Now.live[r] + 1
      /\ \A r \in ErrorResource : t.live[r] <= Now.live[r] + One(k > 7)
  BY <1>1, RestInitOf
<1>3. Failing(k) /\ Becomes(v) /\ UNCHANGED <<objects, unloads>>
      /\ registered' = (registered \/ k > 7)
  BY DEF H5rest_init, Steps
<1> HIDE DEF t
<1>4. /\ Sound(v) /\ v.init = (k > 7) /\ Exact(v, objects)
      /\ \A r \in OwnResource : v.live[r] <= Now.live[r] + 1
      /\ \A r \in ErrorResource : v.live[r] <= Now.live[r] + One(k > 7)
  <2>1. CASE k > 7
    BY <1>2, <2>1
  <2>2. CASE ~(k > 7)
    <3> DEFINE w == PublicTerm(t)
    <3>1. /\ Sound(w) /\ ~w.init /\ Exact(w, objects)
          /\ \A r \in OwnResource : w.live[r] = t.live[r] - One(t.init)
          /\ \A r \in ErrorResource :
               w.live[r] = t.live[r] - One("class" \in t.points /\ r \in t.points)
      BY <1>1, <1>2, PublicTermOf
    <3> HIDE DEF w
    <3>2. \A r \in OwnResource \cup ErrorResource :
            w.live[r] <= t.live[r] /\ t.live[r] \in Nat /\ w.live[r] \in Nat /\ Now.live[r] \in Nat
      <4>1. \A r \in OwnResource \cup ErrorResource :
              t.live[r] \in Nat /\ w.live[r] \in Nat /\ Now.live[r] \in Nat
        BY <1>1, <1>2, <3>1 DEF Sound, State, OwnResource, ErrorResource, Resource
      <4> QED
        BY <3>1, <4>1 DEF One
    <3>3. /\ \A r \in OwnResource : w.live[r] <= Now.live[r] + 1
          /\ \A r \in ErrorResource : w.live[r] <= Now.live[r] + One(k > 7)
      BY <1>2, <3>2 DEF One
    <3>4. w.init = (k > 7)
      BY <2>2, <3>1 DEF Sound, State
    <3>5. v = w
      BY <2>2 DEF w
    <3> QED
      BY <3>1, <3>3, <3>4, <3>5
  <2> QED
    BY <2>1, <2>2
<1> HIDE DEF v
<1>5. fails' \in 0..MaxFails /\ Bounded(v, fails', unloads')
  BY <1>1, <1>3, <1>4, InitialisedBound
<1>6. registered' \in BOOLEAN /\ (v.init => registered')
  BY <1>3, <1>4
<1> QED
  BY <1>3, <1>4, <1>5, <1>6, BecomesInv DEF ConnectorInv, ConnectorTypeOK

\* H5rest_term gives back one of each resource that an initialised connector holds.
LEMMA H5rest_termInv == ASSUME ConnectorInv, H5rest_term PROVE ConnectorInv'
<1> DEFINE v == PublicTerm(Now)
<1>1. /\ Sound(Now) /\ objects \in Nat /\ Bounded(Now, fails, unloads)
      /\ fails \in Nat /\ unloads \in Nat
  BY NowSound
<1>2. /\ Sound(v) /\ ~v.init /\ Exact(v, objects)
      /\ \A r \in OwnResource : v.live[r] = Now.live[r] - One(Now.init)
      /\ \A r \in ErrorResource :
           v.live[r] = Now.live[r] - One("class" \in Now.points /\ r \in Now.points)
  BY <1>1, PublicTermOf
<1> HIDE DEF v
<1>3. Becomes(v) /\ UNCHANGED <<registered, objects, fails, unloads>>
  BY DEF H5rest_term, v
<1>4. \A r \in OwnResource \cup ErrorResource : Now.live[r] \in Nat /\ v.live[r] \in Nat
  BY <1>1, <1>2 DEF Sound, State, OwnResource, ErrorResource, Resource
<1>5. \A r \in OwnResource : v.live[r] <= fails + One(v.init)
  BY <1>1, <1>2, <1>4 DEF Bounded, One
<1>6. \A r \in ErrorResource : v.live[r] <= unloads + One(v.init)
  <2>1. Now.init => Now.points = Resource
    BY <1>1 DEF Sound
  <2>2. Now.init => \A r \in ErrorResource : "class" \in Now.points /\ r \in Now.points
    BY <2>1 DEF ErrorResource, Resource
  <2> QED
    BY <1>1, <1>2, <1>4, <2>2 DEF Bounded, One
<1>7. Bounded(v, fails', unloads')
  BY <1>3, <1>5, <1>6 DEF Bounded
<1> QED
  BY <1>2, <1>3, <1>7, BecomesInv DEF ConnectorInv, ConnectorTypeOK

\* When the library closes the connector, one error class and one stack are left behind.
LEMMA UnloadInv == ASSUME ConnectorInv, Unload PROVE ConnectorInv'
<1> DEFINE v == Term(Now)
<1>1. /\ Sound(Now) /\ Exact(Now, objects) /\ objects \in Nat /\ Bounded(Now, fails, unloads)
      /\ fails \in Nat /\ unloads \in Nat
  BY NowSound
<1>2. /\ Sound(v) /\ ~v.init
      /\ \A r \in OwnResource : v.live[r] = Now.live[r] - One(Now.init)
      /\ \A r \in ErrorResource : v.live[r] = Now.live[r]
      /\ \A n \in Nat : Exact(Now, n) => Exact(v, n)
  BY <1>1, TermOf
<1> HIDE DEF v
<1>3. /\ Becomes(v) /\ registered' = FALSE /\ unloads' = unloads + 1
      /\ unloads < MaxUnloads /\ UNCHANGED <<objects, fails>>
  BY DEF Unload, v
<1>4. \A r \in OwnResource \cup ErrorResource : Now.live[r] \in Nat /\ v.live[r] \in Nat
  BY <1>1, <1>2 DEF Sound, State, OwnResource, ErrorResource, Resource
<1>5. /\ \A r \in OwnResource : v.live[r] <= fails + One(v.init)
      /\ \A r \in ErrorResource : v.live[r] <= (unloads + 1) + One(v.init)
  BY <1>1, <1>2, <1>4 DEF Bounded, One
<1>6. Bounded(v, fails', unloads')
  BY <1>3, <1>5 DEF Bounded
<1>7. fails' \in 0..MaxFails /\ unloads' \in 0..MaxUnloads
  BY <1>3, InitAssumption DEF ConnectorInv, ConnectorTypeOK
<1> QED
  BY <1>1, <1>2, <1>3, <1>6, <1>7, BecomesInv

\* RV_malloc and RV_free: the count moves with what is allocated.
LEMMA AllocationInv ==
  ASSUME ConnectorInv, NEW d \in {1, -1}, objects' = objects + d, objects' \in 0..MaxObjects,
         bytes' = Mod(bytes + d),
         UNCHANGED <<registered, initialized, points, live, fails, unloads, uncounted>>
  PROVE  ConnectorInv'
<1>1. objects \in Nat /\ bytes \in Nat /\ d \in Int /\ live \in [Resource -> Nat]
  <2>1. Now \in State /\ objects \in 0..MaxObjects
    BY DEF ConnectorInv, ConnectorTypeOK
  <2> QED
    BY <2>1 DEF Now, State
<1>2. bytes' \in Nat /\ bytes' < Width
  BY <1>1, ModRange
<1>3. Now' \in State
  <2>1. Now \in State
    BY DEF ConnectorInv, ConnectorTypeOK
  <2> QED
    BY <1>2, <2>1 DEF Now, State
<1>4. ConnectorTypeOK'
  BY <1>2, <1>3 DEF ConnectorInv, ConnectorTypeOK
<1>5. Usable' /\ PointsToLive' /\ LeftBehind' /\ Registered'
  BY DEF ConnectorInv, Usable, PointsToLive, LeftBehind, Registered
<1>6. CountExact'
  <2> SUFFICES ASSUME ~uncounted PROVE bytes' = Mod(Allocated')
    BY DEF CountExact
  <2>1. bytes = Mod(Allocated)
    BY DEF ConnectorInv, CountExact
  <2>2. Allocated \in Int /\ Allocated' = Allocated + d
    BY <1>1 DEF Allocated, Resource
  <2>3. Mod(Mod(Allocated) + d) = Mod(Allocated + d)
    BY <1>1, <2>2, ModAdd
  <2> QED
    BY <2>1, <2>2, <2>3
<1> QED
  BY <1>4, <1>5, <1>6 DEF ConnectorInv

LEMMA OpenInv == ASSUME ConnectorInv, Open PROVE ConnectorInv'
<1>1. objects' = objects + 1 /\ bytes' = Mod(bytes + 1) /\ objects < MaxObjects
  BY DEF Open
<1>2. objects' \in 0..MaxObjects
  BY <1>1, InitAssumption DEF ConnectorInv, ConnectorTypeOK
<1> QED
  BY <1>1, <1>2, AllocationInv DEF Open

LEMMA CloseInv == ASSUME ConnectorInv, Close PROVE ConnectorInv'
<1>0. objects \in Nat /\ bytes \in Nat /\ MaxObjects \in Nat /\ objects <= MaxObjects
  BY InitAssumption DEF ConnectorInv, ConnectorTypeOK, Now, State
<1>1. objects' = objects + (-1) /\ bytes' = Mod(bytes + (-1)) /\ objects > 0
  <2>1. bytes - 1 = bytes + (-1) /\ objects - 1 = objects + (-1)
    BY <1>0
  <2> QED
    BY <2>1 DEF Close
<1>2. objects' \in 0..MaxObjects
  BY <1>0, <1>1
<1> QED
  BY <1>1, <1>2, AllocationInv DEF Close

LEMMA ConnectorStutterInv == ASSUME ConnectorInv, UNCHANGED connectorVars PROVE ConnectorInv'
  BY DEF connectorVars, ConnectorInv, ConnectorTypeOK, Now, Usable, PointsToLive, LeftBehind, CountExact, Allocated, Registered

LEMMA ConnectorNextInv == ConnectorInv /\ [ConnectorNext]_connectorVars => ConnectorInv'
<1> SUFFICES ASSUME ConnectorInv, [ConnectorNext]_connectorVars PROVE ConnectorInv'
  OBVIOUS
<1>1. Len(Steps) + 1 = 8
  BY DEF Steps
<1>2. ASSUME NEW k \in 1..(Len(Steps) + 1), Load(k) \/ H5rest_init(k) PROVE ConnectorInv'
  BY <1>1, <1>2, LoadInv, H5rest_initInv
<1>3. CASE H5rest_init_again \/ UNCHANGED connectorVars
  BY <1>3, ConnectorStutterInv DEF H5rest_init_again
<1>4. CASE H5rest_term \/ Unload
  BY <1>4, H5rest_termInv, UnloadInv
<1>5. CASE Open \/ Close
  BY <1>5, OpenInv, CloseInv
<1> QED
  BY <1>2, <1>3, <1>4, <1>5 DEF ConnectorNext

THEOREM ConnectorInvariance == ConnectorSpec => []ConnectorInv
  BY ConnectorInitInv, ConnectorNextInv, PTL DEF ConnectorSpec

-----------------------------------------------------------------------------
(* The results. *)

\* The connector's flag and pointers agree with what is allocated, whatever sequence of
\* initialisations, failures and terminations by application and library came before: an
\* initialised connector has all that it needs, and nothing points to what is freed.
THEOREM GlobalsConsistent == ConnectorSpec => []Consistent
<1>1. ConnectorInv => Consistent
  BY DEF ConnectorInv, Consistent
<1> QED
  BY <1>1, ConnectorInvariance, PTL

\* Failures and closings leave a bounded number of resources behind, and the count of bytes
\* is that of the memory allocated wherever it was not reset too early.
THEOREM MemoryAccounted == ConnectorSpec => []Accounted
<1>1. ConnectorInv => Accounted
  BY DEF ConnectorInv, Accounted
<1> QED
  BY <1>1, ConnectorInvariance, PTL
=============================================================================
