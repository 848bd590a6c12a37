----------------------------- MODULE RVRequests -----------------------------
(***************************************************************************)
(* The one libcurl handle and the one response buffer that all requests    *)
(* share: RV_curl_get, _put, _post and _delete, the connection information *)
(* and the authentication with Active Directory, and handlers of each kind *)
(* that make requests: the file handlers, H5Dset_extent, H5Aread, H5Awrite *)
(* and a creation by POST.                                                 *)
(*                                                                         *)
(* An option of the handle stays set until another call changes it.  Of a  *)
(* body or a size the model keeps whether the request in progress has set  *)
(* it ("own") or an earlier one has ("old").                               *)
(***************************************************************************)

CONSTANTS Files, Users, Token, None,
          Environments   \* sets of connection information, see Connect: one set for each way of
                         \* setting up the environment, among which the application changes

VARIABLES
  env,      \* what the environment and the configuration files say now
  handle,   \* the options of the easy handle
  text,     \* response_buffer: [own, kind]
  files,    \* the credentials in server_info of each open file, or "closed"
  call,     \* the handler in progress: [op, f, step, cred, out]; out: a request is out
  sent,     \* the request that is out, as it went out
  last,     \* how the last handler returned: [op, f, ok, text, code]
  exists,   \* the domains on the server
  stale     \* the open files with a dataset that has another extent on the server

vars == <<env, handle, text, files, call, sent, last, exists, stale>>

FileOp == {"H5Fcreate", "H5Ftruncate", "H5Fopen", "H5Fis_accessible", "H5Fdelete",
           "H5Fflush", "H5Fget_filesize"}
ObjectOp == {"H5Dset_extent", "H5Aread", "H5Awrite", "H5Gcreate"}
Connecting == {"H5Fcreate", "H5Ftruncate", "H5Fopen", "H5Fis_accessible", "H5Fdelete"}
Opening == Connecting \ {"H5Fdelete"}
Auth == {"AUTH1", "AUTH2"}   \* the requests for a device code and for a token

\* The first request of each handler.
First(op) ==
  CASE op \in {"H5Fcreate", "H5Fflush", "H5Dset_extent", "H5Awrite"} -> "PUT"
    [] op \in {"H5Ftruncate", "H5Fopen", "H5Fis_accessible", "H5Fget_filesize", "H5Aread"} -> "GET"
    [] op = "H5Fdelete" -> "DELETE"
    [] op = "H5Gcreate" -> "POST"

\* The credentials that an environment leads to: a user's, those of the configuration file,
\* which names no user, or a token.
CredentialOf(e) == IF e \in Users THEN e ELSE IF e = "config" THEN None ELSE Token

ASSUME NamesAssumption ==
  /\ None \notin Files \cup Users \cup {Token, "closed"} \cup FileOp \cup ObjectOp
  /\ None \notin {"GET", "PUT", "POST", "DELETE"}
  /\ Token \notin Users /\ "closed" \notin Users \cup {Token}
  /\ Users \cap {"none", "config", "token", "expired", "secret", "device", "endpoint"} = {}

\* Each way of setting up the environment has one kind of credentials, and no two ways meet.
ASSUME EnvironmentsAssumption ==
  /\ \A s \in Environments : \E c \in Users \cup {Token, None} :
       \A e \in s : e = "none" \/ CredentialOf(e) = c
  /\ \A s, t \in Environments : s \cap t # {} => s = t

Idle == [op |-> None, f |-> None, step |-> "idle", cred |-> None, out |-> FALSE]

NewHandle == [method |-> "GET", custom |-> None, host |-> None, upload |-> "none", fields |-> "none",
              size |-> "strlen", user |-> None, auth |-> "basic", bearer |-> None]

NoText == [own |-> FALSE, kind |-> "empty"]
NoReturn == [op |-> None, f |-> None, ok |-> FALSE, text |-> NoText, code |-> "lost"]

-----------------------------------------------------------------------------
(* Options.  What libcurl makes of them is external. *)

\* The request that the options make libcurl send.
Wire(h) ==
  [method |-> IF h.custom # None THEN h.custom ELSE h.method,
   body |-> CASE h.method = "PUT" -> h.upload
              [] h.method = "POST" -> IF h.fields = "own" /\ h.size = "old" THEN "wrong length" ELSE h.fields
              [] OTHER -> "none",
   host |-> h.host,
   as |-> IF h.auth = "bearer" THEN h.bearer ELSE h.user]

Init ==
  /\ env \in UNION Environments
  /\ handle = NewHandle /\ text = NoText
  /\ files = [f \in Files |-> "closed"]
  /\ call = Idle
  /\ sent = Wire(NewHandle)
  /\ last = NoReturn
  /\ exists \in SUBSET Files
  /\ stale = {}

RV_curl_delete(h, f) == [h EXCEPT !.host = f, !.custom = "DELETE"]

RV_curl_put(h, f, upload) == [h EXCEPT !.host = f, !.method = "PUT", !.upload = upload]

RV_curl_get(h, f) == [h EXCEPT !.host = f, !.method = "GET"]

RV_curl_post(h, f) == [h EXCEPT !.host = f, !.method = "POST", !.fields = "own", !.size = "own"]

\* The authentication sets neither a host nor a size; to set CURLOPT_POSTFIELDS makes the
\* method POST.
AuthOptions(h) == [h EXCEPT !.host = None, !.custom = "POST", !.fields = "own", !.method = "POST"]

\* H5Fget_filesize is the one request that sets the credentials of its file.
RV_file_optional(h, f) == [RV_curl_get(h, f) EXCEPT !.user = IF files[f] \in Users THEN files[f] ELSE None]

Options(h, c) ==
  CASE c.step = "DELETE" -> RV_curl_delete(h, c.f)
    [] c.step = "PUT" -> RV_curl_put(h, c.f, IF c.op = "H5Fflush" THEN "none" ELSE "own")
    [] c.step = "GET" /\ c.op = "H5Fget_filesize" -> RV_file_optional(h, c.f)
    [] c.step = "GET" /\ c.op # "H5Fget_filesize" -> RV_curl_get(h, c.f)
    [] c.step = "POST" -> RV_curl_post(h, c.f)
    [] c.step \in Auth -> AuthOptions(h)

\* The pointers that a request leaves in the handle lead to freed memory.
Freed(h) == [h EXCEPT !.host = None,
                      !.upload = IF @ = "own" THEN "old" ELSE @,
                      !.fields = IF @ = "own" THEN "old" ELSE @,
                      !.size = IF @ = "own" THEN "old" ELSE @]

Reset_KeepsUpload(h, step) ==
  CASE step = "DELETE" -> Freed([h EXCEPT !.custom = None])
    [] step = "PUT" -> Freed(h)
    [] step = "POST" -> Freed([h EXCEPT !.method = "GET"])
    [] step = "GET" -> Freed(h)
    [] step = "AUTH1" -> h
    [] step = "AUTH2" -> Freed([h EXCEPT !.custom = None])

Reset_KeepsCustom(h, step) ==
  CASE step = "DELETE" -> Freed(h)
    [] step \in {"PUT", "POST"} -> Freed([h EXCEPT !.method = "GET"])
    [] step = "GET" -> Freed(h)
    [] step = "AUTH1" -> h
    [] step = "AUTH2" -> Freed([h EXCEPT !.custom = None])

\* What "done:" of each request undoes; between the two requests of an authentication
\* there is no "done:".
Reset(h, step) ==
  CASE step = "DELETE" -> Freed([h EXCEPT !.custom = None])
    [] step \in {"PUT", "POST"} -> Freed([h EXCEPT !.method = "GET"])
    [] step = "GET" -> Freed(h)
    [] step = "AUTH1" -> h
    [] step = "AUTH2" -> Freed([h EXCEPT !.custom = None])

-----------------------------------------------------------------------------
(* Handlers. *)

\* A handler begins.  Those of a file that is open use the credentials kept with it.
Call(op, f) ==
  /\ call = Idle
  /\ op \in {"H5Fcreate", "H5Ftruncate", "H5Fopen"} => files[f] = "closed"
  /\ op \notin Connecting => files[f] # "closed"
  /\ call' = [op |-> op, f |-> f, out |-> FALSE,
              step |-> IF op \in Connecting THEN "connect" ELSE First(op),
              cred |-> IF op \in Connecting THEN None ELSE files[f]]
  /\ last' = NoReturn
  /\ UNCHANGED <<env, handle, text, files, sent, exists, stale>>

\* The handler returns.
Return(ok, code, t) ==
  /\ call' = Idle
  /\ last' = [op |-> call.op, f |-> call.f, ok |-> ok, text |-> t, code |-> code]
  /\ files' = IF ok /\ call.op \in Opening \ {"H5Fis_accessible"}
              THEN [files EXCEPT ![call.f] = call.cred] ELSE files

\* The connection information cannot be set.
NotConnected == Return(FALSE, "lost", text)

Crash ==
  /\ call' = [Idle EXCEPT !.step = "crashed"]
  /\ UNCHANGED <<handle, files, last>>

Connected(h, cred, step) ==
  /\ handle' = h
  /\ call' = [call EXCEPT !.step = step, !.cred = cred]
  /\ UNCHANGED <<files, last>>

\* H5_rest_authenticate_with_AD up to its first request: a stored token is used unless it
\* has expired; else a token is asked for, attended or not.
H5_rest_authenticate_with_AD ==
  LET h == [handle EXCEPT !.auth = "bearer"]
  IN \/ env = "token" /\ Connected([h EXCEPT !.bearer = Token], Token, First(call.op))
     \/ env = "expired" /\ handle' = h /\ NotConnected
     \/ env = "secret" /\ Connected(h, Token, "AUTH2")
     \/ env \in {"device", "endpoint"} /\ Connected(h, Token, "AUTH1")

Connect_OnlyStores ==
  /\ call.step = "connect"
  /\ env \in Users /\ Connected(handle, env, First(call.op))
  /\ UNCHANGED <<env, text, sent, exists, stale>>

\* H5_rest_set_connection_information.  A user: endpoint, name and password are in the
\* environment.  "endpoint": only the endpoint is.  "config": the endpoint is in .hscfg; it is
\* compared with the prefix of sockets through base_URL, which is still NULL.
Connect ==
  /\ call.step = "connect"
  /\ \/ env \in Users /\ Connected([handle EXCEPT !.user = env], env, First(call.op))
     \/ H5_rest_authenticate_with_AD
     \/ env = "config" /\ (Crash \/ Connected(handle, None, First(call.op)))
     \/ env = "none" /\ NotConnected /\ UNCHANGED handle
  /\ UNCHANGED <<env, text, sent, exists, stale>>

\* curl_easy_perform begins.  RV_attr_write clears the response buffer first.
Send ==
  /\ call.step \in {"GET", "PUT", "POST", "DELETE"} \cup Auth /\ ~call.out
  /\ handle' = Options(handle, call)
  /\ sent' = Wire(handle')
  /\ text' = IF call.op = "H5Awrite" THEN NoText ELSE text
  /\ call' = [call EXCEPT !.out = TRUE]
  /\ UNCHANGED <<env, files, last, exists, stale>>

Parsing == {"H5Fcreate", "H5Ftruncate", "H5Fopen", "H5Fis_accessible", "H5Fget_filesize", "H5Gcreate"}

Proceed_Unchecked(c, code, t) ==
  CASE c.op = "H5Ftruncate" /\ c.step = "GET" -> IF code = "ok" THEN "DELETE" ELSE "PUT"
    [] c.op = "H5Ftruncate" /\ c.step = "DELETE" -> IF code = "ok" THEN "PUT" ELSE "fail"
    [] OTHER -> IF code # "lost" /\ (c.op \in Parsing => t.kind = "result") THEN "return" ELSE "fail"

Proceed_Again(c, code, t) ==
  IF code = "ok" THEN "return" ELSE IF code = "lost" THEN c.step ELSE "fail"

\* What follows an answer: another request, "return" or "fail".  An answer that is parsed
\* must hold the fields looked for.  RV_attr_read looks at nothing but a failed transfer,
\* H5Fflush at nothing but the code.
Proceed(c, code, t) ==
  CASE c.step = "AUTH1" -> IF code = "ok" /\ t.kind = "result" THEN "AUTH2" ELSE "fail"
    [] c.step = "AUTH2" -> IF code = "ok" /\ t.kind = "result" THEN First(c.op) ELSE "fail"
    [] c.op = "H5Ftruncate" /\ c.step = "GET" -> IF code = "ok" THEN "DELETE" ELSE "PUT"
    [] c.op = "H5Ftruncate" /\ c.step = "DELETE" -> IF code = "ok" THEN "PUT" ELSE "fail"
    [] c.op = "H5Aread" -> IF code # "lost" THEN "return" ELSE "fail"
    [] c.op = "H5Fflush" -> IF code = "no content" THEN "return" ELSE "fail"
    [] OTHER -> IF code = "ok" /\ (c.op \in Parsing => t.kind = "result") THEN "return" ELSE "fail"

\* Once the server has the new extent, RV_dataset_specific sets that of the dataspace; this
\* call of the HDF5 library may fail.
Local(step) == {TRUE} \cup (IF call.op = "H5Dset_extent" /\ step = "return" THEN {FALSE} ELSE {})

\* The rest of a handler once its request is over, with response code and response buffer.
After(code, t, differing) ==
  LET step == Proceed(call, code, t)
      over == Reset(handle, IF call.step = "AUTH1" /\ step = "fail" THEN "AUTH2" ELSE call.step)
  IN /\ handle' = IF call.step = "AUTH2" /\ step # "fail" THEN [over EXCEPT !.bearer = Token] ELSE over
     /\ text' = [t EXCEPT !.own = FALSE]
     /\ sent' = Wire(NewHandle)
     /\ \/ /\ step \in {"return", "fail"} /\ call.step \notin Auth
           /\ \E done \in Local(step) :
                /\ Return(step = "return" /\ done, code, t)
                /\ stale' = IF step # "return" \/ ~done \/ call.op # "H5Dset_extent" THEN differing
                            ELSE IF code = "ok" THEN differing \ {call.f} ELSE differing \cup {call.f}
        \/ step = "fail" /\ call.step \in Auth /\ NotConnected /\ stale' = differing
        \/ /\ step \notin {"return", "fail"}
           /\ call' = [call EXCEPT !.step = step, !.out = FALSE]
           /\ stale' = differing
           /\ UNCHANGED <<files, last>>
     /\ UNCHANGED env

\* A request cannot be set up (its URL is too long, an option is refused): it is not sent.
NotSent ==
  /\ call.step \in {"GET", "PUT", "POST", "DELETE"} \cup Auth /\ ~call.out
  /\ After("lost", text, stale)
  /\ UNCHANGED exists

-----------------------------------------------------------------------------
(* The server, which goes by the request it receives and not by the one that was meant. *)

\* Requests of the file handlers are made to the domain itself.
Creates == call.op \in FileOp \ {"H5Fflush"} /\ sent.method = "PUT"

Acceptable ==
  IF call.step \in Auth THEN TRUE
  ELSE IF Creates THEN sent.host \in Files \ exists
  ELSE sent.host \in exists

\* The domains, and the files with a stale extent, once the request is carried out.
Domains ==
  IF call.step \in Auth \/ call.op \notin FileOp THEN exists
  ELSE IF Creates THEN exists \cup {sent.host}
  ELSE IF sent.method = "DELETE" THEN exists \ {sent.host} ELSE exists

Extents ==
  IF call.op = "H5Dset_extent" /\ sent.method = "PUT" /\ sent.body = "own" THEN stale \cup {sent.host} ELSE stale

\* It is carried out and answered; H5Fflush is answered without a body.
Accepted ==
  /\ call.out /\ Acceptable
  /\ exists' = Domains
  /\ IF call.op = "H5Fflush" THEN After("no content", text, Extents)
     ELSE After("ok", [own |-> TRUE, kind |-> "result"], Extents)

\* It is refused, for whatever reason, with an error page or without.
Refused ==
  /\ call.out
  /\ \E t \in {text, [own |-> TRUE, kind |-> "error"]} : After("error", t, stale)
  /\ UNCHANGED exists

\* The connection breaks, before or after the request is carried out, and perhaps in the
\* middle of the answer.
Broken ==
  /\ call.out
  /\ \E t \in {text, [own |-> TRUE, kind |-> "error"]} :
       \/ exists' = exists /\ After("lost", t, stale)
       \/ Acceptable /\ exists' = Domains /\ After("lost", t, Extents)

OtherClient ==
  /\ \E f \in Files : exists' \in {exists \cup {f}, exists \ {f}} /\ exists' # exists
  /\ UNCHANGED <<env, handle, text, files, call, sent, last, stale>>

H5Fclose_KeepsStale(f) ==
  /\ call = Idle /\ files[f] # "closed"
  /\ files' = [files EXCEPT ![f] = "closed"]
  /\ UNCHANGED <<env, handle, text, call, sent, last, exists, stale>>

H5Fclose(f) ==
  /\ call = Idle /\ files[f] # "closed"
  /\ files' = [files EXCEPT ![f] = "closed"] /\ stale' = stale \ {f}
  /\ UNCHANGED <<env, handle, text, call, sent, last, exists>>

\* The application sets other environment variables, or runs again after a crash.
SetEnvironment ==
  /\ call = Idle
  /\ \E s \in Environments : env \in s /\ env' \in s \ {env}
  /\ UNCHANGED <<handle, text, files, call, sent, last, exists, stale>>

Restart ==
  /\ call.step = "crashed"
  /\ handle' = NewHandle /\ text' = NoText /\ call' = Idle
  /\ files' = [f \in Files |-> "closed"] /\ stale' = {}
  /\ UNCHANGED <<env, sent, last, exists>>

Connector == Connect \/ Send \/ NotSent
Answer == Accepted \/ Refused \/ Broken

Next ==
  \/ Connector \/ Answer
  \/ \E f \in Files : H5Fclose(f) \/ \E op \in FileOp \cup ObjectOp : Call(op, f)
  \/ OtherClient \/ SetEnvironment \/ Restart

Spec == Init /\ [][Next]_vars
LiveSpec == Spec /\ WF_vars(Connector) /\ WF_vars(Answer)

-----------------------------------------------------------------------------
Credential == Users \cup {Token, None}
Text == [own : BOOLEAN, kind : {"empty", "result", "error"}]

\* Types of the state.
TypeOK ==
  /\ env \in UNION Environments
  /\ handle \in [method : {"GET", "PUT", "POST"}, custom : {None, "DELETE", "POST"}, host : Files \cup {None},
                  upload : {"none", "own", "old"}, fields : {"none", "own", "old"}, size : {"strlen", "own", "old"},
                  user : Users \cup {None}, auth : {"basic", "bearer"}, bearer : {Token, None}]
  /\ text \in Text
  /\ files \in [Files -> Credential \cup {"closed"}]
  /\ call \in [op : FileOp \cup ObjectOp \cup {None}, f : Files \cup {None}, cred : Credential, out : BOOLEAN,
                step : {"idle", "connect", "GET", "PUT", "POST", "DELETE", "crashed"} \cup Auth]
  /\ exists \subseteq Files /\ stale \subseteq {f \in Files : files[f] # "closed"}

\* Every request goes out with the method, the host and the body of its own call: no option
\* that an earlier call left in the handle changes it (the resets at the end of the
\* RV_curl_ functions and of RV_dataset_specific).  With a token the body is left out:
\* an authentication takes over the length of an earlier body, and leaves its own behind.
SentAsMeant ==
  call.out =>
    /\ sent.method = IF call.step \in Auth THEN "POST" ELSE call.step
    /\ sent.host = IF call.step \in Auth THEN None ELSE call.f
    /\ call.cred # Token =>
         sent.body = IF call.step \in {"GET", "DELETE"} \/ (call.op = "H5Fflush" /\ call.step = "PUT") THEN "none" ELSE "own"

\* A request about a file is made with the credentials that were found when that file was
\* opened (server_info of the file struct), as long as all files are opened in one way: by
\* one user, or with a token.
OwnCredentials == call.out /\ call.step \notin Auth => sent.as = call.cred

\* A domain is created by H5Fcreate alone, and removed by H5Fdelete and by a truncating
\* H5Fcreate of that domain alone: not by a request that an earlier call's options have
\* turned into another one, nor by a creation without truncation.
DomainsAsAsked ==
  [][call' # call =>
       /\ exists' \ exists \subseteq (IF call.op \in {"H5Fcreate", "H5Ftruncate"} THEN {call.f} ELSE {})
       /\ exists \ exists' \subseteq (IF call.op \in {"H5Fdelete", "H5Ftruncate"} THEN {call.f} ELSE {})]_vars

\* A handler that succeeds had its last request accepted, and took what it returns from the
\* answer to that request, not from text of an earlier one; H5Aread is the exception.
SuccessIsAnswered ==
  last.ok /\ last.op # "H5Aread" =>
    /\ last.code \in {"ok", "no content"}
    /\ last.op \in Parsing => last.text = [own |-> TRUE, kind |-> "result"]

\* After H5Dset_extent succeeds, the dataspace has the extent that the server has, whatever
\* an earlier failure left.
ExtentsAgree ==
  last.op = "H5Dset_extent" /\ last.ok => last.f \notin stale

\* H5Fcreate without truncation succeeds only by creating the domain: a domain that another
\* client created first is not taken for the new one.
CreatedAnew ==
  [][last' # last /\ last'.ok /\ last'.op \in {"H5Fcreate", "H5Ftruncate"} => exists' \ exists = {last'.f}]_vars

\* Every handler returns, if the connection answers or breaks.
HandlerReturns == (call # Idle /\ call.step # "crashed") ~> (call = Idle \/ call.step = "crashed")

\* A request carries what its own call has put into it, and the credentials of its own file.
RequestsOwn == SentAsMeant /\ OwnCredentials

\* Success means that the server did what was asked, and that the connector knows it.
SuccessEarned == TypeOK /\ SuccessIsAnswered /\ ExtentsAgree

\* The domains on the server come and go as the application asks.
DomainsExact == DomainsAsAsked /\ CreatedAnew
=============================================================================
