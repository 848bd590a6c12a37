------------------------- MODULE RVCurlMulti_proofs --------------------------
(***************************************************************************)
(* Proofs about the loop of RV_curl_multi_perform: about RVCurlMulti for   *)
(* any number of datasets, any number of pieces of an upload and any range *)
(* of the backoff, and about RVBackoff, which says what that range is.     *)
(***************************************************************************)
EXTENDS RVCurlMulti, RVBackoff, FiniteSetTheorems, TLAPS

Looping == pc \in {"perform", "read", "retry"}
Queued(t) == \E i \in 1 .. Len(msgs) : msgs[i] = t

\* What an attempt has left in a transfer's own fields, phase by phase.
Attempts ==
  \A t \in Transfer :
    /\ phase[t] = "absent" => answer[t] = "none"
    /\ phase[t] = "queued" => sent[t] = 0
    /\ Attempting(t) => answer[t] \in {"none", "503"} /\ resp[t] = <<>>
    /\ phase[t] = "waiting" => answer[t] = "503" /\ sent[t] = 0 /\ resp[t] = <<>>
    /\ phase[t] = "done" => answer[t] \in Answers /\ resp[t] = << Page[answer[t]] >>

\* The buffer of a dataset is untouched until its handle is cleaned up.
Undelivered == \A t \in Transfer : phase[t] # "freed" => delivered[t] = <<>>

\* A transfer that may still be refused has not reached the limit of its backoff.
BelowLimit == Looping => \A t \in Transfer : fails[t] < MaxFails

\* The loop runs only while nothing has failed, and a finished transfer whose message is
\* read and that is not cleaned up was answered 201.
ReadAnswers ==
  /\ ret = "FAIL" => ~Looping
  /\ ret = "SUCCEED" /\ pc # "returned" =>
       \A t \in Transfer : phase[t] = "done" /\ ~Queued(t) => answer[t] = "201"

\* The counts of the outer loop: the number of running requests is that of the last call of
\* curl_multi_perform, it was positive whenever the loop went on, and messages are left
\* unread only while it does not change.
RoundCounts ==
  /\ pc \in {"read", "retry"} => running = NumRunning
  /\ Looping /\ ~firstRound => prev > 0
  /\ pc = "retry" => prev = running \/ msgs = <<>>

\* The inductive invariant.  HandlePlacement keeps the messages apart, Attempts and
\* Undelivered say what a delivery finds, and RoundCounts why nothing is unread or running
\* when the loop ends.
Inv ==
  /\ TypeOK /\ HandlePlacement /\ Attempts /\ Undelivered /\ DeliveredOnce
  /\ BelowLimit /\ ReadAnswers /\ RoundCounts /\ SuccessIsEarned

-----------------------------------------------------------------------------
(* Messages. *)

\* Appending a message keeps the earlier ones in their places.
LEMMA AppendedMessage ==
  ASSUME NEW s \in Seq(Transfer), NEW t \in Transfer
  PROVE  /\ Append(s, t) \in Seq(Transfer)
         /\ Len(Append(s, t)) = Len(s) + 1
         /\ \A i \in 1 .. Len(s) : Append(s, t)[i] = s[i]
         /\ Append(s, t)[Len(s) + 1] = t
  OBVIOUS

\* A single entry in an empty buffer.
LEMMA AppendFirst == \A x : Append(<<>>, x) = <<x>>
<1> SUFFICES ASSUME NEW x PROVE Append(<<>>, x) = <<x>>
  OBVIOUS
<1>1. <<>> \in Seq({x}) /\ x \in {x} /\ Len(<<>>) = 0
  OBVIOUS
<1>2. Append(<<>>, x) \in Seq({x}) /\ Len(Append(<<>>, x)) = 1 /\ Append(<<>>, x)[1] = x
  BY <1>1
<1>3. <<x>> \in Seq({x}) /\ Len(<<x>>) = 1 /\ <<x>>[1] = x
  OBVIOUS
<1> QED
  BY <1>2, <1>3

\* Reading a message leaves the others, each one place further ahead.
LEMMA ReadMessage ==
  ASSUME NEW s \in Seq(Transfer), s # <<>>
  PROVE  /\ Head(s) \in Transfer /\ Head(s) = s[1] /\ Len(s) \in Nat /\ Len(s) >= 1
         /\ Tail(s) \in Seq(Transfer) /\ Len(Tail(s)) = Len(s) - 1
         /\ \A i \in 1 .. Len(Tail(s)) : i + 1 \in 1 .. Len(s) /\ Tail(s)[i] = s[i + 1]
  OBVIOUS

\* The message at the head is about a finished transfer, and the only one about it.
LEMMA HeadOfMessages ==
  ASSUME TypeOK, HandlePlacement, NEW t, Reading(t), msgs' = Tail(msgs)
  PROVE  /\ t \in Transfer /\ phase[t] = "done" /\ t \notin retry
         /\ msgs' \in Seq(Transfer)
         /\ \A i \in 1 .. Len(msgs') :
              msgs'[i] \in Transfer \ {t} /\ phase[msgs'[i]] = "done"
         /\ \A i, j \in 1 .. Len(msgs') : msgs'[i] = msgs'[j] => i = j
         /\ \A u \in Transfer : u # t => (Queued(u) <=> Queued(u)')
<1> USE DEF Reading, Gate
<1>1. msgs \in Seq(Transfer) /\ msgs # <<>> /\ t = Head(msgs)
  BY DEF TypeOK
<1>2. /\ t \in Transfer /\ t = msgs[1] /\ Len(msgs) \in Nat /\ Len(msgs) >= 1
      /\ msgs' \in Seq(Transfer) /\ Len(msgs') = Len(msgs) - 1
      /\ \A i \in 1 .. Len(msgs') : i + 1 \in 1 .. Len(msgs) /\ msgs'[i] = msgs[i + 1]
  BY <1>1, ReadMessage
<1>3. phase[t] = "done" /\ t \notin retry
  BY <1>2 DEF HandlePlacement
<1>4. ASSUME NEW i \in 1 .. Len(msgs')
      PROVE  msgs'[i] \in Transfer \ {t} /\ phase[msgs'[i]] = "done"
  <2>1. i + 1 \in 1 .. Len(msgs) /\ msgs'[i] = msgs[i + 1] /\ 1 \in 1 .. Len(msgs) /\ i + 1 # 1
    BY <1>2, <1>4
  <2>2. msgs[i + 1] # msgs[1] /\ phase[msgs[i + 1]] = "done"
    BY <2>1 DEF HandlePlacement
  <2>3. msgs'[i] \in Transfer
    BY <1>2, <1>4
  <2> QED
    BY <2>1, <2>2, <2>3, <1>2
<1>5. ASSUME NEW i \in 1 .. Len(msgs'), NEW j \in 1 .. Len(msgs'), msgs'[i] = msgs'[j]
      PROVE  i = j
  <2>1. i + 1 = j + 1
    BY <1>2, <1>5 DEF HandlePlacement
  <2> QED
    BY <2>1, <1>2
<1>6. ASSUME NEW u \in Transfer, u # t PROVE Queued(u) <=> Queued(u)'
  <2>1. ASSUME NEW i \in 1 .. Len(msgs), msgs[i] = u PROVE Queued(u)'
    <3>1. i # 1
      BY <2>1, <1>6, <1>2
    <3>2. i - 1 \in 1 .. Len(msgs') /\ (i - 1) + 1 = i
      BY <3>1, <1>2
    <3>3. msgs'[i - 1] = u
      BY <3>2, <1>2, <2>1
    <3> QED
      BY <3>2, <3>3 DEF Queued
  <2>2. ASSUME NEW i \in 1 .. Len(msgs'), msgs'[i] = u PROVE Queued(u)
    BY <2>2, <1>2 DEF Queued
  <2> QED
    BY <2>1, <2>2 DEF Queued
<1> QED
  BY <1>2, <1>3, <1>4, <1>5, <1>6

-----------------------------------------------------------------------------
(* The initial states and the steps. *)

LEMMA InitInv == Init => Inv
<1> SUFFICES ASSUME Init PROVE Inv
  OBVIOUS
<1> USE DEF Init
<1>1. TypeOK
  BY ChunksAssumption, FailsAssumption DEF TypeOK, Answers, Accepted
<1>2. HandlePlacement
  BY DEF HandlePlacement
<1>3. Attempts /\ Undelivered /\ DeliveredOnce
  BY DEF Attempts, Undelivered, DeliveredOnce, Attempting
<1>4. BelowLimit
  BY FailsAssumption DEF BelowLimit
<1>5. ReadAnswers /\ RoundCounts /\ SuccessIsEarned
  BY DEF ReadAnswers, RoundCounts, SuccessIsEarned
<1> QED
  BY <1>1, <1>2, <1>3, <1>4, <1>5 DEF Inv

\* H5_rest_curl_read_data_callback stops at the end of the buffer.
LEMMA UploadInv == ASSUME Inv, NEW t \in Transfer, Upload(t) PROVE Inv'
<1> USE DEF Upload, loop
<1>1. TypeOK'
  <2>1. sent[t] + 1 \in 0 .. Chunks
    BY ChunksAssumption DEF Inv, TypeOK
  <2> QED
    BY <2>1 DEF Inv, TypeOK
<1>2. HandlePlacement'
  BY DEF Inv, TypeOK, HandlePlacement, Attempting
<1>3. Attempts' /\ Undelivered' /\ DeliveredOnce'
  BY DEF Inv, TypeOK, Attempts, Undelivered, DeliveredOnce, Attempting
<1>4. BelowLimit' /\ RoundCounts' /\ SuccessIsEarned'
  BY DEF Inv, BelowLimit, Looping, RoundCounts, SuccessIsEarned
<1>5. ReadAnswers'
  BY DEF Inv, TypeOK, ReadAnswers, Looping, Queued, Attempting
<1> QED
  BY <1>1, <1>2, <1>3, <1>4, <1>5 DEF Inv

\* The response of an attempt is the only text in the buffer, and its message the only one.
LEMMA AnswerInv == ASSUME Inv, NEW t \in Transfer, NEW a \in Answers, Answer(t, a) PROVE Inv'
<1> USE DEF Answer, loop
<1>0. /\ msgs' \in Seq(Transfer) /\ Len(msgs') = Len(msgs) + 1 /\ Len(msgs) \in Nat
      /\ \A i \in 1 .. Len(msgs) : msgs'[i] = msgs[i]
      /\ msgs'[Len(msgs) + 1] = t
  BY AppendedMessage DEF Inv, TypeOK
<1>1. TypeOK'
  <2> DEFINE P == {Page[b] : b \in Answers}
  <2>2. resp \in [Transfer -> Seq(P)] /\ Page[a] \in P
    BY DEF Inv, TypeOK
  <2> HIDE DEF P
  <2>3. Append(resp[t], Page[a]) \in Seq(P)
    BY <2>2
  <2>1. resp' \in [Transfer -> Seq(P)]
    BY <2>2, <2>3
  <2> USE DEF P
  <2> QED
    BY <2>1, <1>0 DEF Inv, TypeOK
<1>2. HandlePlacement'
  <2>1. \A u \in Transfer : phase'[u] = "waiting" <=> u \in retry'
    BY DEF Inv, TypeOK, HandlePlacement, Attempting
  <2>2. \A i \in 1 .. Len(msgs) : msgs[i] # t /\ msgs[i] \in Transfer
    BY DEF Inv, TypeOK, HandlePlacement, Attempting
  <2>3. \A i \in 1 .. Len(msgs') : phase'[msgs'[i]] = "done"
    BY <1>0, <2>2 DEF Inv, TypeOK, HandlePlacement
  <2>4. \A i, j \in 1 .. Len(msgs') : msgs'[i] = msgs'[j] => i = j
    BY <1>0, <2>2 DEF Inv, HandlePlacement
  <2> QED
    BY <2>1, <2>3, <2>4 DEF HandlePlacement
<1>3. Attempts' /\ Undelivered' /\ DeliveredOnce'
  <2>1. resp[t] = <<>> /\ Append(resp[t], Page[a]) = << Page[a] >>
    <3>1. resp[t] = <<>>
      BY DEF Inv, Attempts
    <3> QED
      BY <3>1, AppendFirst
  <2>2. Attempts'
    BY <2>1 DEF Inv, TypeOK, Attempts, Attempting
  <2> QED
    BY <2>2 DEF Inv, TypeOK, Undelivered, DeliveredOnce, Attempting
<1>4. BelowLimit' /\ RoundCounts' /\ SuccessIsEarned'
  BY DEF Inv, BelowLimit, Looping, RoundCounts, SuccessIsEarned
<1>5. ReadAnswers'
  <2>1. Queued(t)'
    BY <1>0 DEF Queued
  <2>2. \A u \in Transfer : Queued(u) => Queued(u)'
    BY <1>0 DEF Queued
  <2> QED
    BY <2>1, <2>2 DEF Inv, TypeOK, ReadAnswers, Looping, Attempting
<1> QED
  BY <1>1, <1>2, <1>3, <1>4, <1>5 DEF Inv

LEMMA PerformReturnsInv == ASSUME Inv, PerformReturns PROVE Inv'
<1> USE DEF PerformReturns
<1>1. NumRunning \in Nat
  <2>1. {t \in Transfer : Attempting(t)} \in SUBSET Transfer
    OBVIOUS
  <2> QED
    BY <2>1, TransferAssumption, FS_Subset, FS_CardinalityType DEF NumRunning
<1>2. TypeOK'
  BY <1>1 DEF Inv, TypeOK
<1>3. HandlePlacement' /\ Attempts' /\ Undelivered' /\ DeliveredOnce'
  BY DEF Inv, HandlePlacement, Attempts, Undelivered, DeliveredOnce, Attempting
<1>4. BelowLimit' /\ SuccessIsEarned'
  BY DEF Inv, BelowLimit, Looping, SuccessIsEarned
<1>5. ReadAnswers'
  BY DEF Inv, ReadAnswers, Looping, Queued
<1>6. RoundCounts'
  BY DEF Inv, RoundCounts, Looping, NumRunning, Attempting
<1> QED
  BY <1>2, <1>3, <1>4, <1>5, <1>6 DEF Inv

\* Reading a message neither starts nor ends an attempt.
LEMMA SameRunning ==
  ASSUME TypeOK, NEW t \in Transfer, phase[t] = "done",
         NEW p \in {"done", "waiting", "freed"}, phase' = [phase EXCEPT ![t] = p]
  PROVE  NumRunning' = NumRunning
<1>1. \A u \in Transfer : Attempting(u)' <=> Attempting(u)
  BY DEF TypeOK, Attempting
<1>2. {u \in Transfer : Attempting(u)}' = {u \in Transfer : Attempting(u)}
  BY <1>1
<1> QED
  BY <1>2 DEF NumRunning

\* 503: the fields are reset before the handle is parked, and the backoff grows to its limit
\* at most.
LEMMA ReadBusyInv == ASSUME Inv, NEW t \in Transfer, ReadBusy(t) PROVE Inv'
<1> USE DEF ReadBusy
<1>0. TypeOK /\ HandlePlacement /\ Reading(t) /\ msgs' = Tail(msgs)
  BY DEF Inv
<1>1. /\ phase[t] = "done" /\ t \notin retry
      /\ msgs' \in Seq(Transfer)
      /\ \A i \in 1 .. Len(msgs') : msgs'[i] \in Transfer \ {t} /\ phase[msgs'[i]] = "done"
      /\ \A i, j \in 1 .. Len(msgs') : msgs'[i] = msgs'[j] => i = j
      /\ \A u \in Transfer : u # t => (Queued(u) <=> Queued(u)')
  BY <1>0, HeadOfMessages
<1>2. pc = "read" /\ prev # running
  BY <1>0 DEF Reading, Gate
<1>3. fails[t] + 1 \in 0 .. MaxFails
  BY <1>2, FailsAssumption DEF Inv, TypeOK, BelowLimit, Looping
<1>4. TypeOK'
  <2>0. 0 \in 0 .. Chunks
    BY ChunksAssumption
  <2>1. sent' \in [Transfer -> 0 .. Chunks]
    BY <1>0, <2>0 DEF TypeOK
  <2>3. fails' \in [Transfer -> 0 .. MaxFails]
    BY <1>0, <1>3 DEF TypeOK
  <2> DEFINE P == {Page[a] : a \in Answers}
  <2>4. resp \in [Transfer -> Seq(P)]
    BY <1>0 DEF TypeOK
  <2> HIDE DEF P
  <2>5. resp' \in [Transfer -> Seq(P)]
    BY <2>4
  <2>6. phase' \in [Transfer -> {"absent", "queued", "running", "done", "waiting", "freed"}]
    BY <1>0 DEF TypeOK
  <2>2. pc' \in {"read", "release"} /\ ret' \in {"SUCCEED", "FAIL"}
    BY <1>2, <1>0 DEF TypeOK, Carry, Abort
  <2> QED
    BY <1>0, <1>1, <2>1, <2>2, <2>3, <2>5, <2>6 DEF TypeOK, P
<1>5. HandlePlacement'
  BY <1>0, <1>1 DEF TypeOK, HandlePlacement
<1>6. Attempts' /\ Undelivered' /\ DeliveredOnce'
  BY <1>1 DEF Inv, TypeOK, Attempts, Undelivered, DeliveredOnce, Attempting
<1>7. CASE fails[t] + 1 < MaxFails /\ Carry
  <2>1. BelowLimit'
    BY <1>7, <1>2 DEF Inv, TypeOK, BelowLimit, Looping, Carry
  <2>2. ReadAnswers'
    BY <1>0, <1>1, <1>2, <1>7 DEF Inv, TypeOK, ReadAnswers, Looping, Carry
  <2>3. RoundCounts' /\ SuccessIsEarned'
    BY <1>0, <1>1, <1>2, <1>7, SameRunning DEF Inv, RoundCounts, SuccessIsEarned, Looping, Carry
  <2> QED
    BY <1>4, <1>5, <1>6, <2>1, <2>2, <2>3 DEF Inv
<1>8. CASE Abort
  <2>1. BelowLimit' /\ ReadAnswers' /\ RoundCounts' /\ SuccessIsEarned'
    BY <1>8 DEF Abort, BelowLimit, ReadAnswers, RoundCounts, SuccessIsEarned, Looping
  <2> QED
    BY <1>4, <1>5, <1>6, <2>1 DEF Inv
<1> QED
  BY <1>7, <1>8

\* What RV_dataset_read_cb is given is the text of one answer.
LEMMA DeliverOnce ==
  ASSUME Inv, NEW t \in Transfer, phase[t] = "done", answer[t] \in {"200", "cut"}, Deliver(t)
  PROVE  /\ delivered'[t] \in {<< <<"body">> >>, << <<"cut">> >>}
         /\ \A u \in Transfer : u # t => delivered'[u] = delivered[u]
         /\ delivered' \in [Transfer -> Seq(Seq({Page[a] : a \in Answers}))]
<1>1. delivered[t] = <<>> /\ resp[t] = << Page[answer[t]] >>
  BY DEF Inv, Undelivered, Attempts
<1>2. Page[answer[t]] \in {"body", "cut"}
  BY DEF Page, Answers, Accepted
<1>3. Append(delivered[t], resp[t]) = << resp[t] >>
  BY <1>1, AppendFirst
<1>4. delivered' = [delivered EXCEPT ![t] = << resp[t] >>]
  BY <1>3 DEF Deliver
<1>5. << resp[t] >> \in {<< <<"body">> >>, << <<"cut">> >>}
  BY <1>1, <1>2
<1> DEFINE P == {Page[a] : a \in Answers}
<1>6. resp[t] \in Seq(P) /\ delivered \in [Transfer -> Seq(Seq(P))]
  BY DEF Inv, TypeOK
<1> HIDE DEF P
<1>7. << resp[t] >> \in Seq(Seq(P))
  BY <1>6
<1>8. delivered' \in [Transfer -> Seq(Seq(P))]
  BY <1>4, <1>6, <1>7
<1> QED
  BY <1>4, <1>5, <1>6, <1>8 DEF P

\* 200: the handle is cleaned up after its text is delivered, or the call fails.
LEMMA ReadOKInv == ASSUME Inv, NEW t \in Transfer, ReadOK(t) PROVE Inv'
<1> USE DEF ReadOK
<1>0. TypeOK /\ HandlePlacement /\ Reading(t) /\ msgs' = Tail(msgs)
  BY DEF Inv
<1>1. /\ phase[t] = "done" /\ t \notin retry
      /\ msgs' \in Seq(Transfer)
      /\ \A i \in 1 .. Len(msgs') : msgs'[i] \in Transfer \ {t} /\ phase[msgs'[i]] = "done"
      /\ \A i, j \in 1 .. Len(msgs') : msgs'[i] = msgs'[j] => i = j
      /\ \A u \in Transfer : u # t => (Queued(u) <=> Queued(u)')
  BY <1>0, HeadOfMessages
<1>2. pc = "read" /\ prev # running
  BY <1>0 DEF Reading, Gate
<1>3. CASE /\ phase' = [phase EXCEPT ![t] = "freed"]
           /\ IF kind = "READ" THEN Deliver(t) ELSE UNCHANGED delivered
           /\ Carry
  <2>1. TypeOK'
    <3>1. delivered' \in [Transfer -> Seq(Seq({Page[a] : a \in Answers}))]
      BY <1>0, <1>1, <1>3, DeliverOnce DEF TypeOK
    <3> QED
      BY <1>0, <1>1, <1>3, <3>1 DEF TypeOK, Carry
  <2>2. HandlePlacement'
    BY <1>0, <1>1, <1>3 DEF TypeOK, HandlePlacement
  <2>3. Attempts'
    BY <1>1, <1>3 DEF Inv, TypeOK, Attempts, Attempting
  <2>4. Undelivered' /\ DeliveredOnce'
    <3>1. \A u \in Transfer : u # t => delivered'[u] = delivered[u] /\ phase'[u] = phase[u]
      BY <1>0, <1>1, <1>3, DeliverOnce DEF TypeOK
    <3>2. phase'[t] = "freed" /\ delivered'[t] \in {<<>>, << <<"body">> >>, << <<"cut">> >>}
      BY <1>0, <1>1, <1>3, DeliverOnce DEF Inv, TypeOK, Undelivered
    <3> QED
      BY <3>1, <3>2 DEF Inv, Undelivered, DeliveredOnce
  <2>5. BelowLimit'
    BY <1>2, <1>3 DEF Inv, BelowLimit, Looping, Carry
  <2>6. ReadAnswers'
    BY <1>0, <1>1, <1>2, <1>3 DEF Inv, TypeOK, ReadAnswers, Looping, Carry
  <2>7. RoundCounts' /\ SuccessIsEarned'
    BY <1>0, <1>1, <1>2, <1>3, SameRunning DEF Inv, RoundCounts, SuccessIsEarned, Looping, Carry
  <2> QED
    BY <2>1, <2>2, <2>3, <2>4, <2>5, <2>6, <2>7 DEF Inv
<1>4. CASE Abort /\ UNCHANGED <<phase, delivered>>
  <2>1. TypeOK' /\ HandlePlacement'
    BY <1>0, <1>1, <1>4 DEF TypeOK, HandlePlacement, Abort
  <2>2. Attempts' /\ Undelivered' /\ DeliveredOnce'
    BY <1>4 DEF Inv, Attempts, Undelivered, DeliveredOnce, Attempting
  <2>3. BelowLimit' /\ ReadAnswers' /\ RoundCounts' /\ SuccessIsEarned'
    BY <1>4 DEF Abort, BelowLimit, ReadAnswers, RoundCounts, SuccessIsEarned, Looping
  <2> QED
    BY <2>1, <2>2, <2>3 DEF Inv
<1> QED
  BY <1>3, <1>4

\* Any other answer fails the call, 201 apart, which leaves the handle as it is.
LEMMA ReadOtherInv == ASSUME Inv, NEW t \in Transfer, ReadOther(t) PROVE Inv'
<1> USE DEF ReadOther
<1>0. TypeOK /\ HandlePlacement /\ Reading(t) /\ msgs' = Tail(msgs)
  BY DEF Inv
<1>1. /\ phase[t] = "done"
      /\ msgs' \in Seq(Transfer)
      /\ \A i \in 1 .. Len(msgs') : msgs'[i] \in Transfer \ {t} /\ phase[msgs'[i]] = "done"
      /\ \A i, j \in 1 .. Len(msgs') : msgs'[i] = msgs'[j] => i = j
      /\ \A u \in Transfer : u # t => (Queued(u) <=> Queued(u)')
  BY <1>0, HeadOfMessages
<1>2. pc = "read" /\ prev # running
  BY <1>0 DEF Reading, Gate
<1>3. TypeOK'
  BY <1>0, <1>1 DEF TypeOK, Abort, Carry
<1>4. HandlePlacement' /\ Attempts' /\ Undelivered' /\ DeliveredOnce'
  BY <1>1 DEF Inv, HandlePlacement, Attempts, Undelivered, DeliveredOnce, Attempting
<1>5. CASE answer[t] = "201" /\ Carry
  <2>1. ReadAnswers'
    BY <1>0, <1>1, <1>2, <1>5 DEF Inv, TypeOK, ReadAnswers, Looping, Carry
  <2>2. NumRunning' = NumRunning
    BY DEF NumRunning, Attempting
  <2>3. BelowLimit' /\ RoundCounts' /\ SuccessIsEarned'
    BY <1>2, <1>5, <2>2 DEF Inv, BelowLimit, RoundCounts, SuccessIsEarned, Looping, Carry
  <2> QED
    BY <1>3, <1>4, <2>1, <2>3 DEF Inv
<1>6. CASE Abort
  <2>1. BelowLimit' /\ ReadAnswers' /\ RoundCounts' /\ SuccessIsEarned'
    BY <1>6 DEF Abort, BelowLimit, ReadAnswers, RoundCounts, SuccessIsEarned, Looping
  <2> QED
    BY <1>3, <1>4, <2>1 DEF Inv
<1> QED
  BY <1>5, <1>6

\* The inner loop ends because no message is left or because the count did not change.
LEMMA ReadEndInv == ASSUME Inv, ReadEnd PROVE Inv'
<1> USE DEF ReadEnd, loop
<1>1. TypeOK' /\ HandlePlacement' /\ Attempts' /\ Undelivered' /\ DeliveredOnce'
  BY ZenonT(40) DEF Inv, TypeOK, HandlePlacement, Attempts, Undelivered, DeliveredOnce, Attempting
<1>2. BelowLimit' /\ SuccessIsEarned'
  BY DEF Inv, BelowLimit, SuccessIsEarned, Looping
<1>3. ReadAnswers'
  BY DEF Inv, ReadAnswers, Looping, Queued
<1>4. RoundCounts'
  BY DEF Inv, RoundCounts, Looping, Gate, NumRunning, Attempting
<1> QED
  BY <1>1, <1>2, <1>3, <1>4 DEF Inv

\* No request is running once the count is zero.
LEMMA NoneRunning ==
  ASSUME NumRunning = 0, NEW t \in Transfer
  PROVE  ~Attempting(t)
<1> DEFINE R == {u \in Transfer : Attempting(u)}
<1>1. IsFiniteSet(R)
  BY TransferAssumption, FS_Subset
<1>2. R = {}
  BY <1>1, FS_EmptySet DEF NumRunning
<1> QED
  BY <1>2

\* A handle is added again with its fields reset.  When the loop ends after the first round
\* nothing was running and, the count having changed, every message was read.
LEMMA RetryDueInv == ASSUME Inv, NEW due \in SUBSET retry, RetryDue(due) PROVE Inv'
<1> USE DEF RetryDue
<1>0. /\ \A t \in due : t \in Transfer /\ phase[t] = "waiting"
      /\ \A t \in Transfer : phase'[t] = IF t \in due THEN "queued" ELSE phase[t]
      /\ pc' \in {"perform", "release"}
  BY DEF Inv, TypeOK, HandlePlacement
<1>1. TypeOK'
  <2>1. phase' \in [Transfer -> {"absent", "queued", "running", "done", "waiting", "freed"}]
    BY DEF Inv, TypeOK
  <2> QED
    BY <1>0, <2>1 DEF Inv, TypeOK
<1>2. HandlePlacement'
  <2>1. \A t \in Transfer : phase'[t] = "waiting" <=> t \in retry'
    BY <1>0 DEF Inv, HandlePlacement
  <2>2. \A i \in 1 .. Len(msgs) : msgs[i] \in Transfer \ due
    BY <1>0 DEF Inv, TypeOK, HandlePlacement
  <2> QED
    BY <1>0, <2>1, <2>2 DEF Inv, HandlePlacement
<1>3. Attempts' /\ Undelivered' /\ DeliveredOnce'
  BY <1>0 DEF Inv, Attempts, Undelivered, DeliveredOnce, Attempting
<1>4. BelowLimit'
  BY <1>0 DEF Inv, BelowLimit, Looping
<1>5. ReadAnswers'
  <2>1. ret' = ret /\ ret # "FAIL" /\ pc # "returned"
    BY DEF Inv, ReadAnswers, Looping
  <2>2. \A t \in Transfer : phase'[t] = "done" => phase[t] = "done" /\ (Queued(t)' <=> Queued(t))
    BY <1>0 DEF Queued
  <2> QED
    BY <2>1, <2>2 DEF Inv, TypeOK, ReadAnswers
<1>6. RoundCounts'
  BY DEF Inv, TypeOK, RoundCounts, Looping
<1>7. SuccessIsEarned'
  <2> SUFFICES ASSUME pc' = "release", ~firstRound'
               PROVE  \A t \in Transfer :
                        \/ phase'[t] \in {"freed", "absent", "waiting"}
                        \/ phase'[t] = "queued" /\ answer'[t] = "503"
                        \/ phase'[t] = "done" /\ answer'[t] = "201"
    BY DEF SuccessIsEarned
  <2>1. running = 0 /\ ~firstRound /\ ret = "SUCCEED"
    BY DEF Inv, TypeOK, ReadAnswers, Looping
  <2>2. msgs = <<>>
    BY <2>1 DEF Inv, TypeOK, RoundCounts, Looping
  <2>3. \A t \in Transfer : ~Attempting(t)
    BY <2>1, NoneRunning DEF Inv, RoundCounts
  <2>4. \A t \in Transfer : phase[t] = "done" => answer[t] = "201"
    BY <2>1, <2>2 DEF Inv, ReadAnswers, Queued
  <2> QED
    BY <1>0, <2>3, <2>4 DEF Inv, TypeOK, Attempts, Attempting
<1> QED
  BY <1>1, <1>2, <1>3, <1>4, <1>5, <1>6, <1>7 DEF Inv

LEMMA LibraryErrorInv == ASSUME Inv, LibraryError PROVE Inv'
<1> USE DEF LibraryError, Abort
<1>1. TypeOK' /\ HandlePlacement' /\ Attempts' /\ Undelivered' /\ DeliveredOnce'
  BY ZenonT(40) DEF Inv, TypeOK, HandlePlacement, Attempts, Undelivered, DeliveredOnce, Attempting
<1>2. BelowLimit' /\ ReadAnswers' /\ RoundCounts' /\ SuccessIsEarned'
  BY DEF BelowLimit, ReadAnswers, RoundCounts, SuccessIsEarned, Looping
<1> QED
  BY <1>1, <1>2 DEF Inv

\* The clean-up frees every handle that is left.
LEMMA ReleaseInv == ASSUME Inv, Release PROVE Inv'
<1> USE DEF Release, loop
<1>1. TypeOK'
  <2>1. /\ msgs' \in Seq(Transfer) /\ retry' \subseteq Transfer
        /\ phase' \in [Transfer -> {"absent", "queued", "running", "done", "waiting", "freed"}]
    OBVIOUS
  <2> QED
    BY <2>1 DEF Inv, TypeOK
<1>2. HandlePlacement' /\ Attempts' /\ Undelivered'
  BY DEF HandlePlacement, Attempts, Undelivered, Attempting
<1>3. DeliveredOnce'
  BY DEF Inv, DeliveredOnce
<1>4. BelowLimit' /\ ReadAnswers' /\ RoundCounts' /\ SuccessIsEarned'
  BY DEF BelowLimit, ReadAnswers, RoundCounts, SuccessIsEarned, Looping
<1> QED
  BY <1>1, <1>2, <1>3, <1>4 DEF Inv

LEMMA StutterInv == ASSUME Inv, UNCHANGED vars PROVE Inv'
<1> USE DEF vars
<1>1. TypeOK' /\ HandlePlacement' /\ Attempts' /\ Undelivered' /\ DeliveredOnce'
  BY ZenonT(40) DEF Inv, TypeOK, HandlePlacement, Attempts, Undelivered, DeliveredOnce, Attempting
<1>2. BelowLimit' /\ SuccessIsEarned'
  BY DEF Inv, BelowLimit, SuccessIsEarned, Looping
<1>3. ReadAnswers' /\ RoundCounts'
  BY DEF Inv, ReadAnswers, RoundCounts, Looping, Queued, NumRunning, Attempting
<1> QED
  BY <1>1, <1>2, <1>3 DEF Inv

LEMMA NextInv == Inv /\ [Next]_vars => Inv'
<1> SUFFICES ASSUME Inv, [Next]_vars PROVE Inv'
  OBVIOUS
<1>1. CASE Network
  BY <1>1, UploadInv, AnswerInv DEF Network
<1>2. CASE Reader
  BY <1>2, ReadBusyInv, ReadOKInv, ReadOtherInv, ReadEndInv DEF Reader
<1>3. CASE PerformReturns \/ (\E due \in SUBSET retry : RetryDue(due)) \/ Release
  BY <1>3, PerformReturnsInv, RetryDueInv, ReleaseInv
<1>4. CASE LibraryError
  BY <1>4, LibraryErrorInv
<1>5. CASE Returned \/ UNCHANGED vars
  BY <1>5, StutterInv DEF Returned
<1> QED
  BY <1>1, <1>2, <1>3, <1>4, <1>5 DEF Next, Step

THEOREM Invariance == Spec => []Inv
  BY InitInv, NextInv, PTL DEF Spec

-----------------------------------------------------------------------------
(* The results. *)

\* The variables of RV_curl_multi_perform keep their types: no upload reads beyond its
\* buffer, and no backoff grows beyond its limit.
THEOREM TypeCorrect == Spec => []TypeOK
<1>1. Inv => TypeOK
  BY DEF Inv
<1> QED
  BY <1>1, Invariance, PTL

\* An easy handle is in one of the tables of the loop at most, and not in any once it is
\* cleaned up.
THEOREM HandlesPlaced == Spec => []HandlePlacement
<1>1. Inv => HandlePlacement
  BY DEF Inv
<1> QED
  BY <1>1, Invariance, PTL

\* A retry starts from the first byte with an empty response buffer, and a buffer of the
\* application is filled once, from one answer.
THEOREM RetriesClean == Spec => []RetriesAfresh
<1>1. Inv => RetriesAfresh
  BY DEF Inv, RetriesAfresh, RestartFromScratch, Attempts, Attempting
<1> QED
  BY <1>1, Invariance, PTL

\* A call that returns success after more than one round has accounted for every request,
\* those apart that the loop gave up waiting for.
THEOREM SuccessEarned == Spec => []SuccessIsEarned
<1>1. Inv => SuccessIsEarned
  BY DEF Inv
<1> QED
  BY <1>1, Invariance, PTL

\* A request that the server accepted is not repeated: no step replaces its answer.
THEOREM NeverRepeated == Spec => AcceptedIsFinal
<1>1. Inv /\ [Next]_vars =>
        [\A t \in Transfer : answer[t] \in Accepted => answer'[t] = answer[t]]_vars
  <2> SUFFICES ASSUME Inv, Next, NEW t \in Transfer, answer[t] \in Accepted
               PROVE  answer'[t] = answer[t]
    OBVIOUS
  <2>1. ASSUME NEW u \in Transfer, NEW a \in Answers, Answer(u, a) PROVE answer'[t] = answer[t]
    <3>1. u # t
      BY <2>1 DEF Answer, Inv, Attempts, Accepted
    <3> QED
      BY <2>1, <3>1 DEF Answer, Inv, TypeOK
  <2>2. ASSUME NEW u \in Transfer, Upload(u) PROVE answer' = answer
    BY <2>2 DEF Upload
  <2>3. CASE Reader
    BY <2>3 DEF Reader, ReadBusy, ReadOK, ReadOther, ReadEnd
  <2>4. CASE PerformReturns \/ (\E due \in SUBSET retry : RetryDue(due)) \/ Release
    BY <2>4 DEF PerformReturns, RetryDue, Release
  <2>5. CASE LibraryError \/ Returned
    BY <2>5 DEF LibraryError, Returned, vars
  <2> QED
    BY <2>1, <2>2, <2>3, <2>4, <2>5 DEF Next, Step, Network
<1> QED
  BY <1>1, Invariance, PTL DEF Spec, AcceptedIsFinal

-----------------------------------------------------------------------------
(***************************************************************************)
(* RVBackoff: the backoff of one transfer, for every RAND_MAX, every value *)
(* of rand() and any precision of the clock, that of the code among them.  *)
(***************************************************************************)

\* The shortest and the longest backoff after so many answers, in tens of microseconds: by
\* half as long again each time, and three times as long.
Shortest ==
  <<1000, 1500, 2250, 3375, 5062, 7593, 11389, 17083, 25624, 38436, 57654, 86481, 129721,
    194581, 291871, 437806, 656709, 985063, 1477594, 2216391, 3324586, 4986879, 7480318,
    11220477, 16830715, 25246072, 37869108, 56803662, 85205493, 127808239, 191712358,
    287568537, 431352805>>

Longest ==
  <<2000, 6000, 18000, 54000, 162000, 486000, 1458000, 4374000, 13122000, 39366000,
    118098000, 354294000>>

Limit == 300000000

\* The inductive invariant: the backoff is between these bounds.
BackoffInv ==
  /\ tries \in Nat /\ backoff \in Nat /\ gaveUp \in BOOLEAN
  /\ tries = 0 <=> backoff = 0
  /\ tries = 0 => ~gaveUp
  /\ gaveUp <=> backoff >= BACKOFF_MAX_BEFORE_FAIL
  /\ ~gaveUp /\ tries > 0 => tries \in 1 .. 33 /\ Shortest[tries] * Grain <= backoff
  /\ tries \in 1 .. 11 => backoff <= Longest[tries] * Grain
  /\ gaveUp => tries \in 12 .. 33

\* One bound leads to the next.
LEMMA ShortestNext ==
  ASSUME NEW n \in 1 .. 32
  PROVE  /\ Shortest[n] \in Nat /\ Shortest[n + 1] \in Nat
         /\ 2 * Shortest[n + 1] <= 3 * Shortest[n]
  BY DEF Shortest

LEMMA LongestNext ==
  ASSUME NEW n \in 1 .. 10
  PROVE  /\ Longest[n] \in Nat /\ Longest[n + 1] \in Nat
         /\ Longest[n + 1] = 3 * Longest[n]
  BY DEF Longest

\* By half as long again, rounded down.
LEMMA ScaleOf ==
  ASSUME NEW d \in Nat
  PROVE  Scale(d) \in Nat /\ 3 * d <= 2 * Scale(d) + 1 /\ 2 * Scale(d) <= 3 * d
  BY DEF Scale

\* Randomization lengthens, and at most doubles.
LEMMA SpreadOf ==
  ASSUME NEW d \in Nat, NEW r \in Draws
  PROVE  Spread(d, r) \in Nat /\ d <= Spread(d, r) /\ Spread(d, r) <= 2 * d
  BY DrawsAssumption DEF Spread

\* Multiples of the clock's unit.
LEMMA InGrains ==
  ASSUME NEW a \in Nat, NEW b \in Nat
  PROVE  /\ a * Grain \in Nat
         /\ 2 * a <= 3 * b => 2 * (a * Grain) <= 3 * (b * Grain)
         /\ a = 3 * b => a * Grain = 3 * (b * Grain)
         /\ a <= b <=> a * Grain <= b * Grain
         /\ a < b => a * Grain < b * Grain
         /\ a > 0 => a * Grain > 0
  BY GrainAssumption

\* The loop cannot give up before the 12th answer, and gives up at the 33rd.
LEMMA Ends ==
  /\ BACKOFF_MAX_BEFORE_FAIL = Limit * Grain /\ Limit \in Nat /\ Limit > 0
  /\ \A n \in 1 .. 11 : Longest[n] \in Nat /\ Longest[n] < Limit
  /\ Shortest[33] \in Nat /\ Shortest[33] >= Limit
<1>1. BACKOFF_MAX_BEFORE_FAIL = Limit * Grain
  BY SMT DEF BACKOFF_MAX_BEFORE_FAIL, Limit
<1>2. Limit \in Nat /\ Limit > 0 /\ Shortest[33] \in Nat /\ Shortest[33] >= Limit
  BY SMT DEF Shortest, Limit
<1>3. \A n \in 1 .. 11 : Longest[n] \in Nat /\ Longest[n] < Limit
  BY SMT DEF Longest, Limit
<1> QED
  BY <1>1, <1>2, <1>3

LEMMA BusyInv == ASSUME BackoffInv, NEW r \in Draws, Busy(r) PROVE BackoffInv'
<1> DEFINE d == IF backoff = 0 THEN BACKOFF_INITIAL_DURATION ELSE Scale(backoff)
           limit == BACKOFF_MAX_BEFORE_FAIL
<1>0. 1000 * Grain \in Nat /\ 1000 * Grain > 0 /\ Limit * Grain \in Nat
  BY SMTT(30), Ends, InGrains
<1>1. /\ ~gaveUp /\ backoff' = Spread(d, r) /\ tries' = tries + 1
      /\ (gaveUp' <=> backoff' >= limit) /\ gaveUp' \in BOOLEAN /\ limit \in Nat
      /\ tries \in Nat /\ backoff \in Nat
  <2>1. limit \in Nat
    BY <1>0, Ends
  <2>2. tries \in Nat /\ backoff \in Nat
    BY DEF BackoffInv
  <2> HIDE DEF limit
  <2>3. ~gaveUp /\ backoff' = Spread(d, r) /\ tries' = tries + 1 /\ gaveUp' = (backoff' >= limit)
    BY DEF Busy, limit
  <2>4. (backoff' >= limit) \in BOOLEAN
    OBVIOUS
  <2>5. (gaveUp' <=> backoff' >= limit) /\ gaveUp' \in BOOLEAN
    BY <2>3, <2>4, Zenon
  <2> QED
    BY <2>1, <2>2, <2>3, <2>5
<1>2. d \in Nat /\ d > 0
  BY <1>0, <1>1, ScaleOf DEF BACKOFF_INITIAL_DURATION
<1>3. backoff' \in Nat /\ d <= backoff' /\ backoff' <= 2 * d
  BY <1>1, <1>2, SpreadOf
<1>4. tries \in 0 .. 32
  <2>1. CASE tries = 33
    <3>1. Shortest[33] * Grain <= backoff
      BY <1>1, <2>1 DEF BackoffInv
    <3>2. Limit * Grain <= Shortest[33] * Grain
      BY Ends, InGrains
    <3>3. Shortest[33] * Grain \in Nat
      BY Ends, InGrains
    <3>4. limit <= backoff
      BY <1>0, <1>1, <3>1, <3>2, <3>3, Ends
    <3> QED
      BY <1>1, <3>4 DEF BackoffInv
  <2> QED
    BY <1>1, <2>1 DEF BackoffInv
<1>5. Shortest[tries'] * Grain <= backoff'
  <2>1. CASE tries = 0
    <3>1. d = 1000 * Grain
      BY <2>1 DEF BackoffInv, BACKOFF_INITIAL_DURATION
    <3>2. Shortest[1] = 1000
      BY DEF Shortest
    <3> QED
      BY <1>0, <1>1, <1>3, <2>1, <3>1, <3>2
  <2>2. CASE tries \in 1 .. 32
    <3>1. d = Scale(backoff) /\ Shortest[tries] * Grain <= backoff
      BY <1>1, <2>2 DEF BackoffInv
    <3> DEFINE a == Shortest[tries]  b == Shortest[tries + 1]
    <3>2. a \in Nat /\ b \in Nat /\ 2 * b <= 3 * a
      BY <2>2, ShortestNext
    <3> HIDE DEF a, b
    <3>3. 2 * (b * Grain) <= 3 * (a * Grain) /\ a * Grain \in Nat /\ b * Grain \in Nat
      BY <3>2, InGrains
    <3>4. a * Grain <= backoff
      BY <3>1 DEF a
    <3>5. b * Grain <= Scale(backoff)
      BY <1>1, <3>3, <3>4, ScaleOf
    <3>6. b * Grain <= backoff'
      BY <1>2, <1>3, <3>1, <3>3, <3>5
    <3> QED
      BY <1>1, <3>6 DEF b
  <2> QED
    BY <1>4, <2>1, <2>2
<1>6. tries' \in 1 .. 11 => backoff' <= Longest[tries'] * Grain
  <2>1. CASE tries = 0
    <3>1. d = 1000 * Grain
      BY <2>1 DEF BackoffInv, BACKOFF_INITIAL_DURATION
    <3>2. Longest[1] = 2000
      BY DEF Longest
    <3> QED
      BY <1>0, <1>1, <1>3, <2>1, <3>1, <3>2, GrainAssumption
  <2>2. CASE tries \in 1 .. 10
    <3>1. d = Scale(backoff) /\ backoff <= Longest[tries] * Grain
      BY <1>1, <2>2 DEF BackoffInv
    <3> DEFINE a == Longest[tries]  b == Longest[tries + 1]
    <3>2. a \in Nat /\ b \in Nat /\ b = 3 * a
      BY <2>2, LongestNext
    <3> HIDE DEF a, b
    <3>3. b * Grain = 3 * (a * Grain) /\ a * Grain \in Nat /\ b * Grain \in Nat
      BY <3>2, InGrains
    <3>4. backoff <= a * Grain
      BY <3>1 DEF a
    <3>5. 2 * Scale(backoff) <= b * Grain /\ Scale(backoff) \in Nat
      BY <1>1, <3>3, <3>4, ScaleOf
    <3>6. backoff' <= b * Grain
      BY <1>3, <3>1, <3>3, <3>5
    <3> QED
      BY <1>1, <3>6 DEF b
  <2> QED
    BY <1>1, <1>4, <2>1, <2>2
<1>7. tries' \in 1 .. 33 /\ backoff' > 0
  BY <1>1, <1>2, <1>3, <1>4
<1>8. gaveUp' => tries' >= 12
  <2> DEFINE a == Longest[tries']
  <2>1. CASE tries' \in 1 .. 11
    <3>1. a \in Nat /\ a < Limit /\ Limit \in Nat
      BY <2>1, Ends
    <3>2. backoff' <= a * Grain
      BY <1>6, <2>1
    <3> HIDE DEF a
    <3>3. a * Grain < Limit * Grain /\ a * Grain \in Nat
      BY <3>1, InGrains
    <3>4. ~(backoff' >= limit)
      BY <1>0, <1>3, <3>2, <3>3, Ends
    <3> QED
      BY <1>1, <3>4
  <2>2. CASE tries' \notin 1 .. 11
    BY <1>7, <2>2
  <2> QED
    BY <2>1, <2>2
<1>9. gaveUp' <=> backoff' >= BACKOFF_MAX_BEFORE_FAIL
  BY <1>1
<1> HIDE DEF d, limit
<1>10. tries' # 0 /\ backoff' # 0 /\ tries' \in Nat
  BY <1>3, <1>7
<1>11. gaveUp' => tries' \in 12 .. 33
  BY <1>7, <1>8
<1> QED
  BY <1>1, <1>3, <1>5, <1>6, <1>7, <1>9, <1>10, <1>11 DEF BackoffInv

THEOREM BackoffInvariance == BackoffSpec => []BackoffInv
<1>1. BackoffInit => BackoffInv
  <2> SUFFICES ASSUME BackoffInit PROVE BackoffInv
    OBVIOUS
  <2>1. ~gaveUp /\ gaveUp \in BOOLEAN /\ tries = 0 /\ backoff = 0
    BY DEF BackoffInit
  <2>2. ~(backoff >= BACKOFF_MAX_BEFORE_FAIL)
    BY <2>1, Ends, InGrains
  <2> QED
    BY <2>1, <2>2 DEF BackoffInv
<1>2. BackoffInv /\ [BackoffNext]_backoffVars => BackoffInv'
  <2> SUFFICES ASSUME BackoffInv, [BackoffNext]_backoffVars PROVE BackoffInv'
    OBVIOUS
  <2>1. CASE BackoffNext
    BY <2>1, BusyInv DEF BackoffNext
  <2>2. CASE UNCHANGED backoffVars
    BY <2>2 DEF BackoffInv, backoffVars, BACKOFF_MAX_BEFORE_FAIL
  <2> QED
    BY <2>1, <2>2
<1> QED
  BY <1>1, <1>2, PTL DEF BackoffSpec


\* RV_curl_multi_perform bears 11 answers of 503 for a transfer at the least and 32 at the
\* most before it fails the whole call, whatever rand() returns.
THEOREM GivesUpInTime == BackoffSpec => []GivesUpInRange
<1>1. BackoffInv => GivesUpInRange
  <2> SUFFICES ASSUME BackoffInv PROVE GivesUpInRange
    OBVIOUS
  <2>1. CASE gaveUp
    BY <2>1 DEF BackoffInv, GivesUpInRange
  <2>2. CASE ~gaveUp /\ tries = 33
    <3>1. Shortest[33] * Grain <= backoff /\ backoff \in Nat
      BY <2>2 DEF BackoffInv
    <3>2. Limit * Grain <= Shortest[33] * Grain /\ Shortest[33] * Grain \in Nat
      BY Ends, InGrains
    <3>3. backoff >= BACKOFF_MAX_BEFORE_FAIL
      BY <3>1, <3>2, Ends, InGrains
    <3> QED
      BY <2>2, <3>3 DEF BackoffInv
  <2>3. CASE ~gaveUp /\ tries # 33
    BY <2>3 DEF BackoffInv, GivesUpInRange
  <2> QED
    BY <2>1, <2>2, <2>3
<1> QED
  BY <1>1, BackoffInvariance, PTL
=============================================================================
