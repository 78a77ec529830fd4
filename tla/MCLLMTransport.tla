---------------------------- MODULE MCLLMTransport ----------------------------
(***************************************************************************)
(* Instances of LLMTransport for TLC.  Times are in seconds and small: a   *)
(* backoff of 2, 4, 5, 5 seconds has a doubling, the cap and one jitter.   *)
(***************************************************************************)
EXTENDS LLMTransport

\* No retries; the defaults; two retries with a backoff of their own (the
\* connection test of settings/handler.go has two); a backoff that is at its
\* cap from the start.
MCConfigs ==
    { [maxRetries |-> -1, initial |-> 0, max |-> 0],
      [maxRetries |-> 0, initial |-> 0, max |-> 0],
      [maxRetries |-> 2, initial |-> 1, max |-> 0],
      [maxRetries |-> 3, initial |-> 3, max |-> 3] }

\* A negative wait, none, a short one, and one beyond the cap.
MCRetryAfter == {-1, 0, 1, 8}
=============================================================================
