----------------------------- MODULE RVBackoff -----------------------------
(***************************************************************************)
(* The backoff that RV_curl_multi_perform computes for one transfer, 503   *)
(* answer after 503 answer, with the constants of rest_vol.c.  Time is in  *)
(* Grains: for the code's microseconds 10 are 10 microseconds; with 1 the  *)
(* limit (3*10^9 microseconds) is a TLC integer, and truncation to whole   *)
(* tens stands for that to whole microseconds.                             *)
(***************************************************************************)
EXTENDS Naturals

CONSTANTS RAND_MAX,
          Draws,   \* the values of rand() tried
          Grain    \* units of time in 10 microseconds

ASSUME DrawsAssumption == RAND_MAX \in Nat \ {0} /\ Draws \subseteq 0 .. RAND_MAX
ASSUME GrainAssumption == Grain \in Nat \ {0}

VARIABLES backoff,  \* current_backoff_duration
          tries,    \* history: 503 answers so far
          gaveUp    \* the call fails with "Unable to reach server"

backoffVars == <<backoff, tries, gaveUp>>

BACKOFF_INITIAL_DURATION == 1000 * Grain
BACKOFF_MAX_BEFORE_FAIL  == 300000000 * Grain

\* Mutant: the backoff stays as it is.
Scale_Constant(d) == d

Scale(d)     == (d * 3) \div 2                          \* BACKOFF_SCALE_FACTOR
Spread(d, r) == (d * (RAND_MAX + r)) \div RAND_MAX     \* 1 + rand() / RAND_MAX

BackoffInit == backoff = 0 /\ tries = 0 /\ gaveUp = FALSE

Busy(r) ==
  /\ ~gaveUp
  /\ backoff' = Spread(IF backoff = 0 THEN BACKOFF_INITIAL_DURATION ELSE Scale(backoff), r)
  /\ gaveUp' = (backoff' >= BACKOFF_MAX_BEFORE_FAIL)
  /\ tries' = tries + 1

BackoffNext == \E r \in Draws : Busy(r)

BackoffSpec == BackoffInit /\ [][BackoffNext]_backoffVars

\* How many 503 answers the retry loop of RV_curl_multi_perform bears for one
\* transfer before it fails the whole call, whatever rand() returns: the range
\* that MinFails and MaxFails stand for in RVCurlMulti.
GivesUpInRange == IF gaveUp THEN tries \in 12 .. 33 ELSE tries \in 0 .. 32
=============================================================================
