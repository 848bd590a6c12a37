---------------------------- MODULE RVCurlMulti ----------------------------
(***************************************************************************)
(* One H5Dread/H5Dwrite call of the REST VOL connector on several          *)
(* datasets: RV_curl_multi_perform drives one libcurl easy handle per      *)
(* dataset on a multi handle, retries the requests the server refuses with *)
(* 503, and RV_dataset_read / RV_dataset_write release what is left.       *)
(*                                                                         *)
(* libcurl and the server are the environment: an attempt makes progress   *)
(* only while curl_multi_perform runs.  Time is abstract: each round any   *)
(* subset of the waiting requests may have outlived its backoff.           *)
(***************************************************************************)
EXTENDS Naturals, Sequences, FiniteSets

CONSTANTS
  Transfer,   \* one per dataset of the call
  Chunks,     \* read-callback calls that an upload takes
  MinFails,   \* fewest 503 answers after which the backoff may reach its limit
  MaxFails    \* number of 503 answers at which it has reached the limit for sure

ASSUME TransferAssumption == IsFiniteSet(Transfer) /\ Transfer # {}
ASSUME ChunksAssumption   == Chunks \in Nat \ {0}
ASSUME FailsAssumption    == /\ MinFails \in Nat \ {0}
                             /\ MaxFails \in Nat
                             /\ MinFails <= MaxFails

VARIABLES
  pc,         \* where RV_curl_multi_perform is
  ret,        \* ret_value
  kind,       \* transfer_type of the call's transfers
  phase,      \* what became of each easy handle
  answer,     \* how the last attempt of each transfer ended
  msgs,       \* CURLMSG_DONE messages not read yet
  retry,      \* failed_handles_to_retry, as the set of its occupied slots
  sent,       \* uinfo.bytes_sent, in chunks
  resp,       \* resp_buffer, up to curr_buf_ptr
  fails,      \* 503 answers so far: determines current_backoff_duration
  delivered,  \* what RV_dataset_read_cb was given, call by call
  running,    \* num_still_running
  prev,       \* num_prev_running
  firstRound  \* history: still in the first iteration of the outer loop

vars == <<pc, ret, kind, phase, answer, msgs, retry, sent, resp, fails,
          delivered, running, prev, firstRound>>

loop == <<ret, kind, running, prev, firstRound>>

(***************************************************************************)
(* An answer is the outcome of one attempt: a status line, or "cut" when   *)
(* the connection broke after a 200 status line.                           *)
(***************************************************************************)
Accepted == {"200", "201", "cut"}
Answers  == Accepted \cup {"503", "error"}
Page     == [a \in Answers |-> IF a = "200" THEN "body" ELSE a]

Attempting(t) == phase[t] \in {"queued", "running"}
NumRunning    == Cardinality({t \in Transfer : Attempting(t)})

TypeOK ==
  /\ pc \in {"perform", "read", "retry", "release", "returned"}
  /\ ret \in {"SUCCEED", "FAIL"}
  /\ kind \in {"READ", "WRITE"}
  /\ phase \in [Transfer -> {"absent", "queued", "running", "done", "waiting", "freed"}]
  /\ answer \in [Transfer -> Answers \cup {"none"}]
  /\ msgs \in Seq(Transfer)
  /\ retry \subseteq Transfer
  /\ sent \in [Transfer -> 0 .. Chunks]
  /\ resp \in [Transfer -> Seq({Page[a] : a \in Answers})]
  /\ fails \in [Transfer -> 0 .. MaxFails]
  /\ delivered \in [Transfer -> Seq(Seq({Page[a] : a \in Answers}))]
  /\ running \in Nat
  /\ prev \in Nat
  /\ firstRound \in BOOLEAN

(***************************************************************************)
(* A read attaches every handle; a write attaches only those that have     *)
(* something to send.                                                      *)
(***************************************************************************)
Init ==
  /\ pc = "perform"
  /\ ret = "SUCCEED"
  /\ kind \in {"READ", "WRITE"}
  /\ phase \in [Transfer -> {"absent", "queued"}]
  /\ kind = "READ" => \A t \in Transfer : phase[t] = "queued"
  /\ answer = [t \in Transfer |-> "none"]
  /\ msgs = <<>>
  /\ retry = {}
  /\ sent = [t \in Transfer |-> 0]
  /\ resp = [t \in Transfer |-> <<>>]
  /\ fails = [t \in Transfer |-> 0]
  /\ delivered = [t \in Transfer |-> <<>>]
  /\ running = 0
  /\ prev = 0
  /\ firstRound = TRUE

-----------------------------------------------------------------------------
(* Inside curl_multi_perform. *)

\* Mutant: the callback does not notice the end of the buffer.
Upload_PastEnd(t) ==
  /\ pc = "perform"
  /\ kind = "WRITE"
  /\ Attempting(t)
  /\ sent' = [sent EXCEPT ![t] = @ + 1]
  /\ phase' = [phase EXCEPT ![t] = "running"]
  /\ UNCHANGED <<pc, answer, msgs, retry, resp, fails, delivered, loop>>

\* H5_rest_curl_read_data_callback hands libcurl the next piece of the buffer.
Upload(t) ==
  /\ pc = "perform"
  /\ kind = "WRITE"
  /\ Attempting(t)
  /\ sent[t] < Chunks
  /\ sent' = [sent EXCEPT ![t] = @ + 1]
  /\ phase' = [phase EXCEPT ![t] = "running"]
  /\ UNCHANGED <<pc, answer, msgs, retry, resp, fails, delivered, loop>>

\* The attempt ends: the response text goes through
\* H5_rest_curl_write_data_callback_no_global and a message is queued.  The
\* server accepts an upload only once it has all of it.
Answer(t, a) ==
  /\ pc = "perform"
  /\ Attempting(t)
  /\ kind = "WRITE" /\ a \in Accepted => sent[t] = Chunks
  /\ phase' = [phase EXCEPT ![t] = "done"]
  /\ answer' = [answer EXCEPT ![t] = a]
  /\ resp' = [resp EXCEPT ![t] = Append(@, Page[a])]
  /\ msgs' = Append(msgs, t)
  /\ UNCHANGED <<pc, retry, sent, fails, delivered, loop>>

PerformReturns ==
  /\ pc = "perform"
  /\ running' = NumRunning
  /\ pc' = "read"
  /\ UNCHANGED <<ret, kind, phase, answer, msgs, retry, sent, resp, fails,
                 delivered, prev, firstRound>>

-----------------------------------------------------------------------------
(* The inner loop: messages are looked at only when the number of running  *)
(* requests changed since the previous round.                              *)

Gate == prev # running /\ msgs # <<>>

Reading(t) == pc = "read" /\ Gate /\ t = Head(msgs)

Abort == pc' = "release" /\ ret' = "FAIL"
Carry == pc' = pc /\ ret' = ret

\* Mutant: the write goes on where the refused attempt stopped.
ReadBusy_KeepsBytesSent(t) ==
  /\ Reading(t)
  /\ answer[t] = "503"
  /\ resp' = [resp EXCEPT ![t] = <<>>]
  /\ phase' = [phase EXCEPT ![t] = "waiting"]
  /\ retry' = retry \cup {t}
  /\ msgs' = Tail(msgs)
  /\ fails' = [fails EXCEPT ![t] = @ + 1]
  /\ \/ fails[t] + 1 < MaxFails /\ Carry
     \/ fails[t] + 1 >= MinFails /\ Abort
  /\ UNCHANGED <<kind, answer, sent, delivered, running, prev, firstRound>>

\* Mutant: the text of the 503 page stays in the response buffer.
ReadBusy_KeepsPage(t) ==
  /\ Reading(t)
  /\ answer[t] = "503"
  /\ sent' = [sent EXCEPT ![t] = 0]
  /\ phase' = [phase EXCEPT ![t] = "waiting"]
  /\ retry' = retry \cup {t}
  /\ msgs' = Tail(msgs)
  /\ fails' = [fails EXCEPT ![t] = @ + 1]
  /\ \/ fails[t] + 1 < MaxFails /\ Carry
     \/ fails[t] + 1 >= MinFails /\ Abort
  /\ UNCHANGED <<kind, answer, resp, delivered, running, prev, firstRound>>

\* Mutant: the backoff does not grow, so its limit is never reached.
ReadBusy_NoLimit(t) ==
  /\ Reading(t)
  /\ answer[t] = "503"
  /\ sent' = [sent EXCEPT ![t] = 0]
  /\ resp' = [resp EXCEPT ![t] = <<>>]
  /\ phase' = [phase EXCEPT ![t] = "waiting"]
  /\ retry' = retry \cup {t}
  /\ msgs' = Tail(msgs)
  /\ Carry
  /\ UNCHANGED <<kind, answer, fails, delivered, running, prev, firstRound>>

ReadBusy(t) ==
  /\ Reading(t)
  /\ answer[t] = "503"
  /\ sent' = [sent EXCEPT ![t] = 0]
  /\ resp' = [resp EXCEPT ![t] = <<>>]
  /\ phase' = [phase EXCEPT ![t] = "waiting"]
  /\ retry' = retry \cup {t}
  /\ msgs' = Tail(msgs)
  /\ fails' = [fails EXCEPT ![t] = @ + 1]
  /\ \/ fails[t] + 1 < MaxFails /\ Carry
     \/ fails[t] + 1 >= MinFails /\ Abort
  /\ UNCHANGED <<kind, answer, delivered, running, prev, firstRound>>

\* RV_dataset_read_cb scatters whatever the response buffer holds.
Deliver(t) == delivered' = [delivered EXCEPT ![t] = Append(@, resp[t])]

\* The status line alone decides: the result code of the message is not read.
ReadOK(t) ==
  /\ Reading(t)
  /\ answer[t] \in {"200", "cut"}
  /\ msgs' = Tail(msgs)
  /\ \/ /\ phase' = [phase EXCEPT ![t] = "freed"]
        /\ IF kind = "READ" THEN Deliver(t) ELSE UNCHANGED delivered
        /\ Carry
     \/ /\ kind = "READ"     \* RV_dataset_read_cb fails
        /\ Abort
        /\ UNCHANGED <<phase, delivered>>
  /\ UNCHANGED <<kind, answer, retry, sent, resp, fails, running, prev, firstRound>>

\* Mutant: every answer but 200 and 400 upwards is tried again, 201 included.
ReadOther_Retries(t) ==
  /\ Reading(t)
  /\ answer[t] \in {"201", "error"}
  /\ msgs' = Tail(msgs)
  /\ IF answer[t] = "201"
     THEN /\ Carry
          /\ phase' = [phase EXCEPT ![t] = "waiting"]
          /\ retry' = retry \cup {t}
          /\ sent' = [sent EXCEPT ![t] = 0]
          /\ resp' = [resp EXCEPT ![t] = <<>>]
     ELSE Abort /\ UNCHANGED <<phase, retry, sent, resp>>
  /\ UNCHANGED <<kind, answer, fails, delivered, running, prev, firstRound>>

\* HANDLE_RESPONSE: 201 is no error, and the handle stays where it is.
ReadOther(t) ==
  /\ Reading(t)
  /\ answer[t] \in {"201", "error"}
  /\ msgs' = Tail(msgs)
  /\ IF answer[t] = "201" THEN Carry ELSE Abort
  /\ UNCHANGED <<kind, phase, answer, retry, sent, resp, fails, delivered,
                 running, prev, firstRound>>

\* Mutant: an "if" in place of the "while" over the messages.
ReadEnd_Early ==
  /\ pc = "read"
  /\ pc' = "retry"
  /\ UNCHANGED <<phase, answer, msgs, retry, sent, resp, fails, delivered, loop>>

ReadEnd ==
  /\ pc = "read"
  /\ ~Gate
  /\ pc' = "retry"
  /\ UNCHANGED <<phase, answer, msgs, retry, sent, resp, fails, delivered, loop>>

-----------------------------------------------------------------------------
(* The rest of a round: handles whose backoff is over are added again, and *)
(* the loop goes on while the count taken before that was positive.        *)

\* Mutant: the slot of a handle added again is not cleared.
RetryDue_KeepsSlot(due) ==
  /\ pc = "retry"
  /\ phase' = [t \in Transfer |-> IF t \in due THEN "queued" ELSE phase[t]]
  /\ prev' = running
  /\ IF running > 0
     THEN pc' = "perform" /\ firstRound' = FALSE
     ELSE pc' = "release" /\ UNCHANGED firstRound
  /\ UNCHANGED <<ret, kind, answer, msgs, retry, sent, resp, fails, delivered, running>>

RetryDue(due) ==
  /\ pc = "retry"
  /\ retry' = retry \ due
  /\ phase' = [t \in Transfer |-> IF t \in due THEN "queued" ELSE phase[t]]
  /\ prev' = running
  /\ IF running > 0
     THEN pc' = "perform" /\ firstRound' = FALSE
     ELSE pc' = "release" /\ UNCHANGED firstRound
  /\ UNCHANGED <<ret, kind, answer, msgs, sent, resp, fails, delivered, running>>

\* Any libcurl call of the loop may fail.
LibraryError ==
  /\ pc \in {"perform", "read", "retry"}
  /\ Abort
  /\ UNCHANGED <<kind, phase, answer, msgs, retry, sent, resp, fails, delivered,
                 running, prev, firstRound>>

\* The done: part of the caller: every handle that is left is removed from
\* the multi handle and cleaned up, then the multi handle itself.
Release ==
  /\ pc = "release"
  /\ pc' = "returned"
  /\ phase' = [t \in Transfer |-> "freed"]
  /\ msgs' = <<>>
  /\ retry' = {}
  /\ UNCHANGED <<answer, sent, resp, fails, delivered, loop>>

Returned == pc = "returned" /\ UNCHANGED vars

-----------------------------------------------------------------------------
Network == \E t \in Transfer : Upload(t) \/ \E a \in Answers : Answer(t, a)

Reader == \/ \E t \in Transfer : ReadBusy(t) \/ ReadOK(t) \/ ReadOther(t)
          \/ ReadEnd

Step == PerformReturns \/ Reader \/ (\E due \in SUBSET retry : RetryDue(due)) \/ Release

Next == Network \/ Step \/ LibraryError \/ Returned

Spec == Init /\ [][Next]_vars

(***************************************************************************)
(* The caller's thread keeps running, and a request that is attempted      *)
(* again and again is answered in the end.                                 *)
(***************************************************************************)
Fairness ==
  /\ WF_vars(Step)
  /\ \A t \in Transfer : SF_vars(\E a \in Answers : Answer(t, a))

FairSpec == Spec /\ Fairness

-----------------------------------------------------------------------------
(* Safety. *)

\* An easy handle is in one place only: queued or running in the multi handle,
\* finished with at most one unread message, parked in failed_handles_to_retry,
\* or cleaned up.  A handle that was cleaned up is in none of the tables the
\* loop still walks (the slot cleared by curl_easy_handle = NULL).
HandlePlacement ==
  /\ \A t \in Transfer : phase[t] = "waiting" <=> t \in retry
  /\ \A i \in 1 .. Len(msgs) : phase[msgs[i]] = "done"
  /\ \A i, j \in 1 .. Len(msgs) : msgs[i] = msgs[j] => i = j

\* Whenever a request is about to be attempted, for the first time or after a
\* 503, its upload starts at byte 0 and its response buffer is empty.
RestartFromScratch ==
  \A t \in Transfer : phase[t] = "queued" => sent[t] = 0 /\ resp[t] = <<>>

\* The user's buffer is filled at most once per dataset, from the text of one
\* single attempt: nothing of a 503 page is ever taken for data.
DeliveredOnce ==
  \A t \in Transfer : delivered[t] \in {<<>>, << <<"body">> >>, << <<"cut">> >>}

\* What a successful return means once the loop went round twice: every
\* request was answered 200 and cleaned up, or answered 201, or had nothing to
\* send, or is one the loop gave up waiting for (a backoff still running, or a
\* handle added again in the very last round).
SuccessIsEarned ==
  pc = "release" /\ ret = "SUCCEED" /\ ~firstRound =>
    \A t \in Transfer :
      \/ phase[t] \in {"freed", "absent", "waiting"}
      \/ phase[t] = "queued" /\ answer[t] = "503"
      \/ phase[t] = "done" /\ answer[t] = "201"

\* A request the server accepted is never sent again: its outcome is final.
AcceptedIsFinal ==
  [][\A t \in Transfer : answer[t] \in Accepted => answer'[t] = answer[t]]_vars

\* RV_dataset_read and RV_dataset_write always return.
CallReturns == <>(pc = "returned")

-----------------------------------------------------------------------------
(* What comments of the code claim, and the code does not do. *)

\* rest_vol.h: RV_curl_multi_perform "waits until all requests on it have
\* finished before returning".
WaitsForAll == pc = "release" /\ ret = "SUCCEED" =>
                 \A t \in Transfer : phase[t] \notin {"queued", "running", "waiting"}

\* A retry knows nothing of the attempt before it: it sends the body from the beginning, and
\* what it delivers is one answer, without the page of a refusal.
RetriesAfresh == RestartFromScratch /\ DeliveredOnce
=============================================================================
