----------------------------- MODULE LLMTransport -----------------------------
(***************************************************************************)
(* One request to the language model: RoundTrip of the headerTransport in  *)
(* internal/agent/llm.go, which repeats a request that was refused with    *)
(* status 429 or that failed on the way.                                   *)
(*                                                                         *)
(* The other parties are the server behind http.DefaultTransport, which    *)
(* may answer, refuse, fail or stay silent, and the context of the caller, *)
(* which ends at Deadline (AgentTimeout of handler.go).  The inner         *)
(* transport watches that context; RoundTrip, asleep between two attempts, *)
(* does not.  The code's own steps take no time, timers fire on time.      *)
(***************************************************************************)
EXTENDS Integers, Sequences

CONSTANTS
    Configs,                \* the configurations of the transport
    DefaultMaxRetries,
    DefaultInitialBackoff,
    DefaultMaxBackoff,
    RetryAfter,             \* the waits a server may ask for, 0 for none
    LongestRetryAfter,      \* the longest of them
    Deadline                \* when the context of the caller ends

\* MaxRetries -1 means no repetition; 0 stands for the default in all three.
Config == [maxRetries : Nat \union {-1}, initial : Nat, max : Nat]
OrDefault(x, default) == IF x = 0 THEN default ELSE x
Retries(c) == IF c.maxRetries = -1 THEN 0
              ELSE OrDefault(c.maxRetries, DefaultMaxRetries)

ASSUME TransportAssumption ==
    /\ Configs \subseteq Config
    /\ DefaultMaxRetries \in Nat
    /\ DefaultInitialBackoff \in Nat
    /\ DefaultMaxBackoff \in Nat
    /\ RetryAfter \subseteq Int
    /\ LongestRetryAfter \in Nat
    /\ \A a \in RetryAfter : a <= LongestRetryAfter
    /\ Deadline \in Nat
    \* (Arithmetic: the provers have no theory of exponents.)
    /\ \A c \in Configs : \A k \in 0..Retries(c) : 2^k \in Nat

VARIABLES
    cfg,      \* the configuration (never changes)
    pc,       \* where RoundTrip stands
    attempt,  \* its loop counter
    body,     \* what the next reader of req.Body gets
    sent,     \* history: the attempts, what each carried and when
    outcome,  \* history: how each attempt ended
    open,     \* the attempts whose response body is open
    wake,     \* when the sleep ends
    clock,    \* the time
    result    \* what RoundTrip returned, and after which attempt

vars == <<cfg, pc, attempt, body, sent, outcome, open, wake, clock, result>>

Outcome == [kind : {"ok", "limited", "failed"}, after : RetryAfter \union {0},
            at : Nat]

\* strconv.Atoi of "-1" is a number: a server may ask for a negative wait,
\* and a large number of seconds wraps around to one.
parseRetryAfter(o) == o.after

Passthrough == cfg.maxRetries = -1
MaxRetries == Retries(cfg)
InitialBackoff == OrDefault(cfg.initial, DefaultInitialBackoff)
MaxBackoff == OrDefault(cfg.max, DefaultMaxBackoff)

\* Mutant: the cap is forgotten.
calcBackoffUncapped(k, initial, max) == initial * 2^k

\* initial * 2^k, at most max.
calcBackoff(k, initial, max) ==
    LET backoff == initial * 2^k
    IN  IF backoff > max THEN max ELSE backoff

\* The backoff of round k of the loop.
Backoff(k) == calcBackoff(k, InitialBackoff, MaxBackoff)

Nothing == [kind |-> "none", of |-> 0]

Init ==
    /\ cfg \in Configs
    /\ pc = "start"
    /\ attempt = 0
    /\ body = "whole"
    /\ sent = << >>
    /\ outcome = << >>
    /\ open = {}
    /\ wake = 0
    /\ clock = 0
    /\ result = Nothing

-----------------------------------------------------------------------------
Return(kind) ==
    /\ pc' = "returned"
    /\ result' = [kind |-> kind, of |-> Len(sent)]

\* The body is read into memory, unless the transport passes requests on.
ReadBody ==
    /\ pc = "start"
    /\ pc' = "send"
    /\ UNCHANGED <<cfg, attempt, body, sent, outcome, open, wake, clock, result>>

ReadBodyFails ==
    /\ pc = "start" /\ ~Passthrough
    /\ Return("error")
    /\ UNCHANGED <<cfg, attempt, body, sent, outcome, open, wake, clock>>

\* The inner transport takes the request.  It reads the body, unless it fails
\* before it comes to that.
Send ==
    /\ pc = "send"
    /\ sent' = Append(sent, [body |-> body, at |-> clock])
    /\ body' \in {body, "spent"}
    /\ pc' = "flight"
    /\ UNCHANGED <<cfg, attempt, outcome, open, wake, clock, result>>

\* Mutant: the request has lost the context of its caller, so that nothing
\* ends the wait for a silent server.
EndWithoutContext(kind, after) ==
    /\ pc = "flight"
    /\ clock < Deadline
    /\ outcome' = Append(outcome, [kind |-> kind, after |-> after, at |-> clock])
    /\ open' = IF kind = "failed" THEN open ELSE open \union {Len(sent)}
    /\ pc' = "ended"
    /\ UNCHANGED <<cfg, attempt, body, sent, wake, clock, result>>

\* The attempt ends: with an answer, with 429, or with a failure, which is
\* all that can happen once the context has ended.
End(kind, after) ==
    /\ pc = "flight"
    /\ clock >= Deadline => kind = "failed"
    /\ outcome' = Append(outcome, [kind |-> kind, after |-> after, at |-> clock])
    /\ open' = IF kind = "failed" THEN open ELSE open \union {Len(sent)}
    /\ pc' = "ended"
    /\ UNCHANGED <<cfg, attempt, body, sent, wake, clock, result>>

EndAttempt ==
    \/ End("ok", 0)
    \/ \E a \in RetryAfter \union {0} : End("limited", a)
    \/ End("failed", 0)

-----------------------------------------------------------------------------
Ended(kind) == pc = "ended" /\ outcome[Len(outcome)].kind = kind

\* Without retries whatever the inner transport returned is passed on.
PassOn ==
    /\ pc = "ended" /\ Passthrough
    /\ Return(IF Ended("failed") THEN "error" ELSE "response")
    /\ UNCHANGED <<cfg, attempt, body, sent, outcome, open, wake, clock>>

ReturnResponse ==
    /\ Ended("ok") /\ ~Passthrough
    /\ Return("response")
    /\ UNCHANGED <<cfg, attempt, body, sent, outcome, open, wake, clock>>

\* Mutant: a failure does not count as an attempt.
SleepAfterFailureUncounted ==
    /\ Ended("failed") /\ ~Passthrough
    /\ wake' = clock + Backoff(attempt)
    /\ pc' = "asleep"
    /\ UNCHANGED <<cfg, attempt, body, sent, outcome, open, clock, result>>

\* A transport error: sleep, and try again.
SleepAfterFailure ==
    /\ Ended("failed") /\ ~Passthrough
    /\ attempt < MaxRetries
    /\ wake' = clock + Backoff(attempt)
    /\ pc' = "asleep"
    /\ UNCHANGED <<cfg, attempt, body, sent, outcome, open, clock, result>>

GiveUpAfterFailure ==
    /\ Ended("failed") /\ ~Passthrough
    /\ attempt >= MaxRetries
    /\ Return("error")
    /\ UNCHANGED <<cfg, attempt, body, sent, outcome, open, wake, clock>>

\* Mutant: the wait the server asked for is not looked at.
BackoffAfterOwn(o) == Backoff(attempt)

\* The wait after a 429: what the server asked for, else the backoff.
BackoffAfter(o) ==
    IF parseRetryAfter(o) # 0 THEN parseRetryAfter(o) ELSE Backoff(attempt)

\* With up to a quarter of jitter; time.Sleep returns at once from a
\* negative sleep.
WithJitter(b) == IF b <= 0 THEN {0} ELSE b..(b + b \div 4)

\* 429: close the response, sleep, and try again.
SleepAfterLimit ==
    /\ Ended("limited") /\ ~Passthrough
    /\ attempt < MaxRetries
    /\ open' = open \ {Len(sent)}
    /\ \E w \in WithJitter(BackoffAfter(outcome[Len(outcome)])) : wake' = clock + w
    /\ pc' = "asleep"
    /\ UNCHANGED <<cfg, attempt, body, sent, outcome, clock, result>>

GiveUpAfterLimit ==
    /\ Ended("limited") /\ ~Passthrough
    /\ attempt >= MaxRetries
    /\ open' = open \ {Len(sent)}
    /\ Return("error")
    /\ UNCHANGED <<cfg, attempt, body, sent, outcome, wake, clock>>

\* Mutant: the body is not put back.
WakeBodySpent ==
    /\ pc = "asleep" /\ clock >= wake
    /\ attempt' = attempt + 1
    /\ pc' = "send"
    /\ UNCHANGED <<cfg, body, sent, outcome, open, wake, clock, result>>

\* The sleep is over: the next round of the loop, with the body put back.
Wake ==
    /\ pc = "asleep" /\ clock >= wake
    /\ attempt' = attempt + 1
    /\ body' = "whole"
    /\ pc' = "send"
    /\ UNCHANGED <<cfg, sent, outcome, open, wake, clock, result>>

\* Time passes while an attempt is on its way and the context has not ended,
\* and while RoundTrip sleeps.
Tick ==
    /\ \/ pc = "flight" /\ clock < Deadline
       \/ pc = "asleep" /\ clock < wake
    /\ clock' = clock + 1
    /\ UNCHANGED <<cfg, pc, attempt, body, sent, outcome, open, wake, result>>

-----------------------------------------------------------------------------
\* What RoundTrip does by itself.
Loop ==
    \/ ReadBody
    \/ ReadBodyFails
    \/ Send
    \/ PassOn
    \/ ReturnResponse
    \/ SleepAfterFailure
    \/ GiveUpAfterFailure
    \/ SleepAfterLimit
    \/ GiveUpAfterLimit
    \/ Wake

\* The end of the context is an error of the inner transport.
DeadlineFailure == clock >= Deadline /\ End("failed", 0)

Next == Loop \/ EndAttempt \/ Tick

\* The goroutine runs, time passes, and the inner transport watches the
\* context; nothing makes the server answer.
Fairness == WF_vars(Loop) /\ WF_vars(Tick) /\ WF_vars(DeadlineFailure)

Spec == Init /\ [][Next]_vars /\ Fairness
-----------------------------------------------------------------------------
(* What must hold.                                                         *)

\* The loop counter counts the repetitions, and outcomes follow attempts.
TypeOK ==
    /\ cfg \in Configs
    /\ pc \in {"start", "send", "flight", "ended", "asleep", "returned"}
    /\ attempt \in 0..MaxRetries
    /\ body \in {"whole", "spent"}
    /\ sent \in Seq([body : {"whole", "spent"}, at : Nat])
    /\ outcome \in Seq(Outcome)
    /\ open \subseteq 1..Len(sent)
    /\ wake \in Nat /\ clock \in Nat
    /\ result \in [kind : {"none", "response", "error"}, of : Nat]
    /\ pc \in {"start", "send"} => Len(sent) = attempt
    /\ pc \in {"flight", "ended", "asleep"} => Len(sent) = attempt + 1
    /\ pc = "returned" => Len(sent) = result.of
    /\ Len(outcome) = IF pc = "flight" THEN attempt ELSE Len(sent)

\* The model is asked the whole question every time, although an attempt uses
\* the body up.
RepeatsWhole == \A i \in 1..Len(sent) : sent[i].body = "whole"

\* A question the server has answered is not asked again, whoever failed
\* before; the transport gives up only when all its attempts have failed; and
\* of the responses it got the one it returns is open, every other closed.
AnswerIsLast ==
    /\ \A i \in 1..Len(sent) - 1 : outcome[i].kind # "ok"
    /\ result.kind = "error" /\ sent # << >> =>
          /\ Len(sent) = MaxRetries + 1
          /\ \A i \in 1..Len(sent) : outcome[i].kind # "ok"
          /\ open = {}
    /\ result.kind = "response" => open = {Len(sent)}
    /\ pc \in {"send", "flight", "asleep"} => open = {}

\* What is asked and what is answered, over all the attempts of a call.
RepeatsSafely == RepeatsWhole /\ AnswerIsLast

\* Whether a wait of w is right after outcome o of attempt number k.
Asked(o, k, w) ==
    /\ w >= o.after
    /\ o.after = 0 => w >= Backoff(k - 1)
    /\ IF o.after > 0 THEN w <= o.after + o.after \div 4
       ELSE w <= MaxBackoff + MaxBackoff \div 4

\* No attempt comes before the wait the server asked for is over, nor before
\* the backoff if it asked for none; and none comes later than a quarter of
\* that wait, or of the cap, afterwards.
WaitsAsAsked ==
    \A i \in 1..Len(sent) - 1 :
        Asked(outcome[i], i, sent[i + 1].at - outcome[i].at)

\* The context of the caller ends while RoundTrip sleeps or repeats: it does
\* not notice, but it is done after the wait it is in and one backoff for
\* each attempt it has left.
Overtime(k, max) == LongestRetryAfter + LongestRetryAfter \div 4
                       + max \div 4 + k * max

ReturnsSoonAfterDeadline == clock <= Deadline + Overtime(MaxRetries, MaxBackoff)

\* Whatever the server does or does not do, RoundTrip returns.
CallReturns == <>(pc = "returned")
=============================================================================
