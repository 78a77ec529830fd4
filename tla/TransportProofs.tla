---------------------------- MODULE TransportProofs ----------------------------
(***************************************************************************)
(* Proofs about LLMTransport, for all configurations, servers and          *)
(* deadlines.  The invariant has three parts: what the loop knows between  *)
(* two attempts (LoopInv), how long it has waited and will wait (WaitInv), *)
(* and how late it can be (LateInv).                                       *)
(***************************************************************************)
EXTENDS LLMTransport, TLAPS

\* The body is whole before an attempt; every attempt but the one just ended
\* has failed, and only its response may be open.
LoopInv ==
    /\ pc \in {"start", "send"} => body = "whole"
    /\ pc = "start" => sent = << >>
    /\ pc \in {"send", "flight", "asleep"} =>
          /\ open = {}
          /\ \A i \in 1..Len(outcome) : outcome[i].kind # "ok"
    /\ pc = "ended" =>
          /\ open = IF outcome[Len(sent)].kind = "failed" THEN {} ELSE {Len(sent)}
          /\ \A i \in 1..Len(sent) - 1 : outcome[i].kind # "ok"
    /\ pc = "asleep" => ~Passthrough /\ attempt < MaxRetries
    /\ pc # "returned" => result = Nothing
    /\ \A i \in 1..Len(outcome) : outcome[i].kind = "failed" => outcome[i].after = 0

\* The wait under way, or just over, is the one asked for.
WaitInv ==
    /\ pc = "asleep" => clock <= wake /\ Asked(outcome[Len(sent)], Len(sent),
                                               wake - outcome[Len(sent)].at)
    /\ pc = "send" /\ attempt > 0 => Asked(outcome[Len(sent)], Len(sent),
                                           clock - outcome[Len(sent)].at)
    /\ pc = "ended" => outcome[Len(sent)].at = clock

\* An answer comes before the deadline only, so that every wait begun later
\* is a backoff.
LateInv ==
    /\ pc # "asleep" => clock <= Deadline + Overtime(attempt, MaxBackoff)
    /\ pc = "asleep" => wake <= Deadline + Overtime(attempt + 1, MaxBackoff)
    /\ pc = "ended" /\ outcome[Len(sent)].kind # "failed" => clock < Deadline

IInv == LoopInv /\ RepeatsWhole /\ AnswerIsLast /\ WaitInv /\ WaitsAsAsked /\ LateInv

-----------------------------------------------------------------------------
(* The parameters of a configuration.                                      *)

\* The cap bounds every backoff, and without retries there is one attempt.
LEMMA Parameters ==
    ASSUME cfg \in Configs
    PROVE  /\ MaxRetries \in Nat /\ MaxBackoff \in Nat
           /\ Passthrough => MaxRetries = 0
           /\ \A k \in 0..MaxRetries : Backoff(k) \in 0..MaxBackoff
  <1>1. cfg \in Config
    BY TransportAssumption
  <1>2. MaxRetries \in Nat /\ MaxBackoff \in Nat /\ InitialBackoff \in Nat
    BY <1>1, TransportAssumption
    DEF Config, MaxRetries, Retries, MaxBackoff, InitialBackoff, OrDefault
  <1>3. Passthrough => MaxRetries = 0
    BY DEF Passthrough, MaxRetries, Retries
  <1>4. ASSUME NEW k \in 0..MaxRetries PROVE Backoff(k) \in 0..MaxBackoff
    <2>1. 2^k \in Nat
      BY TransportAssumption DEF MaxRetries
    <2>2. InitialBackoff * 2^k \in Nat
      BY <1>2, <2>1
    <2>3. QED
      BY <1>2, <2>2 DEF Backoff, calcBackoff
  <1>5. QED
    BY <1>2, <1>3, <1>4

\* The configuration is fixed, and with it all that is computed from it.
LEMMA Fixed ==
    ASSUME cfg' = cfg
    PROVE  /\ MaxRetries' = MaxRetries /\ MaxBackoff' = MaxBackoff
           /\ InitialBackoff' = InitialBackoff /\ Passthrough' = Passthrough
  BY DEF MaxRetries, MaxBackoff, Passthrough, InitialBackoff

\* One more attempt adds one cap to the overtime.
LEMMA OvertimeStep ==
    ASSUME NEW k \in Nat, NEW max \in Nat
    PROVE  /\ Overtime(k, max) \in Nat
           /\ Overtime(k + 1, max) = Overtime(k, max) + max
           /\ Overtime(k, max) >= LongestRetryAfter + LongestRetryAfter \div 4
                                     + max \div 4
  <1>1. LongestRetryAfter \in Nat
    BY TransportAssumption
  <1>2. k * max \in Nat /\ (k + 1) * max = k * max + max
    OBVIOUS
  <1>3. max \div 4 \in Nat /\ LongestRetryAfter \div 4 \in Nat
    BY <1>1
  <1>4. QED
    BY <1>1, <1>2, <1>3 DEF Overtime

LEMMA OvertimeMonotonic ==
    ASSUME NEW max \in Nat, NEW j \in Nat, NEW k \in Nat, j <= k
    PROVE  Overtime(j, max) <= Overtime(k, max)
  <1>1. LongestRetryAfter \in Nat
    BY TransportAssumption
  <1>2. PICK d \in Nat : k = j + d
    <2>1. k - j \in Nat /\ k = j + (k - j)
      OBVIOUS
    <2>2. QED
      BY <2>1
  <1>3. j * max \in Nat /\ d * max \in Nat /\ k * max = j * max + d * max
    BY <1>2
  <1>4. max \div 4 \in Nat /\ LongestRetryAfter \div 4 \in Nat
    BY <1>1
  <1>5. QED
    BY <1>1, <1>3, <1>4 DEF Overtime

\* The wait a server may ask for.
LEMMA AfterFacts ==
    ASSUME NEW o \in Outcome
    PROVE  o.after \in Int /\ o.after <= LongestRetryAfter /\ o.at \in Nat
  <1>1. RetryAfter \union {0} \subseteq Int
    BY TransportAssumption
  <1>2. \A a \in RetryAfter \union {0} : a <= LongestRetryAfter
    BY TransportAssumption
  <1>3. o.after \in RetryAfter \union {0} /\ o.at \in Nat
    BY DEF Outcome
  <1>4. QED
    BY <1>1, <1>2, <1>3

-----------------------------------------------------------------------------
(* Type correctness.                                                       *)

LEMMA TypeInit == Init => TypeOK
  <1> SUFFICES ASSUME Init PROVE TypeOK
    OBVIOUS
  <1>1. MaxRetries \in Nat
    BY Parameters DEF Init
  <1>2. QED
    BY <1>1 DEF Init, TypeOK, Nothing

\* What a history gains by one entry.
LEMMA AppendFacts ==
    ASSUME NEW S, NEW q \in Seq(S), NEW e \in S
    PROVE  /\ Append(q, e) \in Seq(S) /\ Len(Append(q, e)) = Len(q) + 1
           /\ \A i \in 1..Len(q) : Append(q, e)[i] = q[i]
           /\ Append(q, e)[Len(q) + 1] = e
           /\ Len(q) \in Nat
  OBVIOUS

LEMMA TypeStep == TypeOK /\ LoopInv /\ [Next]_vars => TypeOK'
  <1> SUFFICES ASSUME TypeOK, LoopInv, [Next]_vars PROVE TypeOK'
    OBVIOUS
  <1> DEFINE Attempt == [body : {"whole", "spent"}, at : Nat]
  <1>a. /\ MaxRetries \in Nat
        /\ \A k \in 0..MaxRetries : Backoff(k) \in Nat
        /\ Passthrough => MaxRetries = 0
    BY Parameters DEF TypeOK
  <1>b. cfg' = cfg /\ MaxRetries' = MaxRetries
    BY Fixed DEF Next, vars, Loop, EndAttempt, End, ReadBody, ReadBodyFails, Send,
       PassOn, ReturnResponse, SleepAfterFailure, GiveUpAfterFailure,
       SleepAfterLimit, GiveUpAfterLimit, Wake, Tick
  <1> USE <1>a, <1>b
  <1>1. CASE UNCHANGED vars
    BY <1>1 DEF vars, TypeOK
  <1>2. CASE ReadBody
    BY <1>2 DEF ReadBody, TypeOK
  <1>3. CASE ReadBodyFails
    BY <1>3 DEF ReadBodyFails, Return, TypeOK
  <1>4. CASE Send
    <2>1. sent' \in Seq(Attempt) /\ Len(sent') = Len(sent) + 1
      BY <1>4, AppendFacts DEF Send, TypeOK
    <2>2. QED
      BY <1>4, <2>1 DEF Send, TypeOK
  <1>5. ASSUME EndAttempt PROVE TypeOK'
    <2>1. PICK k \in {"ok", "limited", "failed"}, a \in RetryAfter \union {0} : End(k, a)
      BY <1>5 DEF EndAttempt
    <2>2. outcome' \in Seq(Outcome) /\ Len(outcome') = Len(outcome) + 1
      BY <2>1, AppendFacts DEF End, TypeOK, Outcome
    <2>3. open' \subseteq 1..Len(sent)
      <3>1. open \subseteq 1..Len(sent) /\ Len(sent) \in 1..Len(sent)
        BY <2>1 DEF End, TypeOK
      <3>2. QED
        BY <2>1, <3>1, Zenon DEF End
    <2>4. QED
      BY <2>1, <2>2, <2>3 DEF End, TypeOK
  <1>6. CASE PassOn
    BY <1>6 DEF PassOn, Return, TypeOK
  <1>7. CASE ReturnResponse
    BY <1>7 DEF ReturnResponse, Ended, Return, TypeOK
  <1>8. CASE SleepAfterFailure
    <2>1. wake' \in Nat
      <3>1. attempt \in 0..MaxRetries /\ clock \in Nat
        BY DEF TypeOK
      <3>2. Backoff(attempt) \in Nat
        BY <3>1
      <3>3. QED
        BY <1>8, <3>1, <3>2 DEF SleepAfterFailure
    <2>2. /\ pc = "ended" /\ pc' = "asleep"
          /\ UNCHANGED <<attempt, body, sent, outcome, open, clock, result>>
      BY <1>8 DEF SleepAfterFailure, Ended
    <2>3. QED
      BY <2>1, <2>2 DEF TypeOK
  <1>9. CASE GiveUpAfterFailure
    BY <1>9 DEF GiveUpAfterFailure, Ended, Return, TypeOK
  <1>10. CASE SleepAfterLimit
    <2>1. PICK w \in WithJitter(BackoffAfter(outcome[Len(outcome)])) : wake' = clock + w
      BY <1>10 DEF SleepAfterLimit
    <2>2. w \in Nat
      <3>1. outcome[Len(outcome)] \in Outcome
        BY <1>10 DEF SleepAfterLimit, Ended, TypeOK
      <3>2. BackoffAfter(outcome[Len(outcome)]) \in Int
        <4>1. outcome[Len(outcome)].after \in Int
          BY <3>1, AfterFacts
        <4>2. Backoff(attempt) \in Int
          <5>1. attempt \in 0..MaxRetries
            BY DEF TypeOK
          <5>2. Backoff(attempt) \in Nat
            BY <1>a, <5>1, Zenon
          <5>3. QED
            BY <5>2
        <4>3. QED
          BY <4>1, <4>2 DEF BackoffAfter, parseRetryAfter
      <3>3. QED
        BY <2>1, <3>2 DEF WithJitter
    <2>3. open' \subseteq 1..Len(sent) /\ wake' \in Nat
      <3>1. open' \subseteq open /\ open \subseteq 1..Len(sent) /\ clock \in Nat
        BY <1>10 DEF SleepAfterLimit, TypeOK
      <3>2. QED
        BY <2>1, <2>2, <3>1
    <2>4. /\ pc = "ended" /\ pc' = "asleep"
          /\ UNCHANGED <<attempt, body, sent, outcome, clock, result>>
      BY <1>10 DEF SleepAfterLimit, Ended
    <2>5. QED
      BY <2>3, <2>4 DEF TypeOK
  <1>11. CASE GiveUpAfterLimit
    <2>1. open' \subseteq 1..Len(sent)
      BY <1>11 DEF GiveUpAfterLimit, TypeOK
    <2>2. QED
      BY <1>11, <2>1 DEF GiveUpAfterLimit, Ended, Return, TypeOK
  <1>12. CASE Wake
    BY <1>12 DEF Wake, LoopInv, TypeOK
  <1>13. CASE Tick
    BY <1>13 DEF Tick, TypeOK
  <1>14. QED
    BY <1>1, <1>2, <1>3, <1>4, <1>5, <1>6, <1>7, <1>8, <1>9, <1>10, <1>11, <1>12,
       <1>13 DEF Next, Loop
-----------------------------------------------------------------------------
(* What a repetition sends, and what RoundTrip returns.                    *)

LEMMA LoopInit == Init => LoopInv /\ RepeatsWhole /\ AnswerIsLast
  BY DEF Init, LoopInv, RepeatsWhole, AnswerIsLast, Nothing

LEMMA LoopStep ==
    TypeOK /\ LoopInv /\ RepeatsWhole /\ AnswerIsLast /\ [Next]_vars
        => LoopInv' /\ RepeatsWhole' /\ AnswerIsLast'
  <1> SUFFICES ASSUME TypeOK, LoopInv, RepeatsWhole, AnswerIsLast, [Next]_vars
               PROVE  LoopInv' /\ RepeatsWhole' /\ AnswerIsLast'
    OBVIOUS
  <1> DEFINE Attempt == [body : {"whole", "spent"}, at : Nat]
             Good == LoopInv' /\ RepeatsWhole' /\ AnswerIsLast'
  <1>a. /\ MaxRetries \in Nat /\ attempt \in 0..MaxRetries /\ Len(sent) \in Nat
        /\ Passthrough => MaxRetries = 0
        /\ sent \in Seq(Attempt) /\ outcome \in Seq(Outcome)
    BY Parameters DEF TypeOK
  <1>b. cfg' = cfg /\ MaxRetries' = MaxRetries /\ Passthrough' = Passthrough
    BY Fixed DEF Next, vars, Loop, EndAttempt, End, ReadBody, ReadBodyFails, Send,
       PassOn, ReturnResponse, SleepAfterFailure, GiveUpAfterFailure,
       SleepAfterLimit, GiveUpAfterLimit, Wake, Tick
  <1> USE <1>a, <1>b
  <1>1. CASE UNCHANGED vars
    BY <1>1 DEF vars, LoopInv, RepeatsWhole, AnswerIsLast
  <1>2. CASE ReadBody
    BY <1>2 DEF ReadBody, TypeOK, LoopInv, RepeatsWhole, AnswerIsLast
  <1>3. CASE ReadBodyFails
    BY <1>3 DEF ReadBodyFails, Return, LoopInv, RepeatsWhole, AnswerIsLast
  <1>4. CASE Send
    <2>1. /\ Len(sent') = Len(sent) + 1
          /\ \A i \in 1..Len(sent) : sent'[i] = sent[i]
          /\ sent'[Len(sent) + 1].body = "whole"
      BY <1>4, AppendFacts DEF Send, TypeOK, LoopInv
    <2>2. RepeatsWhole'
      BY <2>1 DEF RepeatsWhole
    <2>3. LoopInv'
      BY <1>4, <2>1 DEF Send, LoopInv
    <2>4. AnswerIsLast'
      BY <1>4, <2>1 DEF Send, TypeOK, LoopInv, AnswerIsLast, Nothing
    <2>5. QED
      BY <2>2, <2>3, <2>4
  <1>5. ASSUME EndAttempt PROVE Good
    <2>1. PICK k \in {"ok", "limited", "failed"}, a \in RetryAfter \union {0} :
             End(k, a) /\ (k = "failed" => a = 0)
      BY <1>5 DEF EndAttempt
    <2>2. /\ Len(outcome') = Len(outcome) + 1 /\ Len(outcome') = Len(sent)
          /\ \A i \in 1..Len(outcome) : outcome'[i] = outcome[i]
          /\ outcome'[Len(sent)] = [kind |-> k, after |-> a, at |-> clock]
      <3>1. [kind |-> k, after |-> a, at |-> clock] \in Outcome
        BY DEF TypeOK, Outcome
      <3>2. QED
        BY <2>1, <3>1, AppendFacts DEF End, TypeOK
    <2>3. RepeatsWhole'
      BY <2>1 DEF End, RepeatsWhole
    <2>4. open' = IF k = "failed" THEN {} ELSE {Len(sent)}
      BY <2>1 DEF End, LoopInv
    <2>5. \A i \in 1..Len(sent) - 1 : outcome'[i].kind # "ok"
      BY <2>1, <2>2 DEF End, LoopInv, TypeOK
    <2>6. LoopInv'
      <3>1. \A i \in 1..Len(outcome') :
               outcome'[i].kind = "failed" => outcome'[i].after = 0
        <4> TAKE i \in 1..Len(outcome')
        <4>1. CASE i \in 1..Len(outcome)
          BY <2>2, <4>1 DEF LoopInv
        <4>2. CASE i = Len(sent)
          BY <2>1, <2>2, <4>2
        <4>3. QED
          BY <2>2, <4>1, <4>2
      <3>2. QED
        <4>1. outcome'[Len(sent')].kind = k /\ sent' = sent /\ pc' = "ended"
          BY <2>1, <2>2 DEF End
        <4>2. open' = IF outcome'[Len(sent')].kind = "failed" THEN {} ELSE {Len(sent')}
          BY <2>4, <4>1
        <4>3. result' = Nothing
          BY <2>1 DEF End, LoopInv
        <4>4. QED
          BY <2>5, <3>1, <4>1, <4>2, <4>3 DEF LoopInv
    <2>7. AnswerIsLast'
      BY <2>1, <2>2, <2>5 DEF End, LoopInv, AnswerIsLast, Nothing
    <2>8. QED
      BY <2>3, <2>6, <2>7
  <1>6. CASE PassOn
    BY <1>6 DEF PassOn, Ended, Return, TypeOK, LoopInv, RepeatsWhole, AnswerIsLast
  <1>7. CASE ReturnResponse
    BY <1>7
    DEF ReturnResponse, Ended, Return, TypeOK, LoopInv, RepeatsWhole, AnswerIsLast
  <1>8. CASE SleepAfterFailure
    BY <1>8
    DEF SleepAfterFailure, Ended, TypeOK, LoopInv, RepeatsWhole, AnswerIsLast, Nothing
  <1>9. CASE GiveUpAfterFailure
    BY <1>9
    DEF GiveUpAfterFailure, Ended, Return, TypeOK, LoopInv, RepeatsWhole, AnswerIsLast
  <1>10. CASE SleepAfterLimit
    BY <1>10
    DEF SleepAfterLimit, Ended, TypeOK, LoopInv, RepeatsWhole, AnswerIsLast, Nothing
  <1>11. CASE GiveUpAfterLimit
    BY <1>11
    DEF GiveUpAfterLimit, Ended, Return, TypeOK, LoopInv, RepeatsWhole, AnswerIsLast
  <1>12. CASE Wake
    BY <1>12 DEF Wake, TypeOK, LoopInv, RepeatsWhole, AnswerIsLast, Nothing
  <1>13. CASE Tick
    BY <1>13 DEF Tick, TypeOK, LoopInv, RepeatsWhole, AnswerIsLast
  <1>14. QED
    BY <1>1, <1>2, <1>3, <1>4, <1>5, <1>6, <1>7, <1>8, <1>9, <1>10, <1>11, <1>12,
       <1>13 DEF Next, Loop

-----------------------------------------------------------------------------
(* How long RoundTrip waits.                                               *)

LEMMA WaitInit == Init => WaitInv /\ WaitsAsAsked
  BY DEF Init, WaitInv, WaitsAsAsked

\* A wait is right in the next state when it is right in this one.
LEMMA AskedFixed ==
    ASSUME cfg' = cfg, NEW o, NEW k, NEW w
    PROVE  Asked(o, k, w)' <=> Asked(o, k, w)
  BY Fixed DEF Asked, Backoff

\* The waits that the loop chooses are right.
LEMMA WaitAfterFailure ==
    ASSUME cfg \in Configs, NEW o \in Outcome, o.after = 0,
           attempt \in 0..MaxRetries
    PROVE  Backoff(attempt) \in Nat /\ Asked(o, attempt + 1, Backoff(attempt))
  <1>1. MaxBackoff \in Nat /\ Backoff(attempt) \in 0..MaxBackoff
    BY Parameters
  <1>2. attempt + 1 - 1 = attempt
    OBVIOUS
  <1>3. Backoff(attempt + 1 - 1) = Backoff(attempt)
    BY <1>2
  <1>4. QED
    BY <1>1, <1>3 DEF Asked

LEMMA WaitAfterLimit ==
    ASSUME cfg \in Configs, NEW o \in Outcome, attempt \in 0..MaxRetries,
           NEW w \in WithJitter(BackoffAfter(o))
    PROVE  /\ w \in Nat /\ Asked(o, attempt + 1, w)
           /\ w <= LongestRetryAfter + LongestRetryAfter \div 4
                      + MaxBackoff \div 4 + MaxBackoff
  <1>1. MaxBackoff \in Nat /\ Backoff(attempt) \in 0..MaxBackoff
    BY Parameters
  <1>2. o.after \in Int /\ o.after <= LongestRetryAfter /\ LongestRetryAfter \in Nat
    BY AfterFacts, TransportAssumption
  <1>3. Backoff(attempt + 1 - 1) = Backoff(attempt)
    <2>1. attempt + 1 - 1 = attempt
      OBVIOUS
    <2>2. QED
      BY <2>1
  <1>4. MaxBackoff \div 4 \in Nat /\ LongestRetryAfter \div 4 \in Nat
    BY <1>1, <1>2
  <1>5. CASE o.after > 0
    <2>1. w \in o.after..(o.after + o.after \div 4)
      BY <1>2, <1>5 DEF BackoffAfter, WithJitter, parseRetryAfter
    <2>2. o.after \div 4 <= LongestRetryAfter \div 4
      BY <1>2, <1>5
    <2>3. QED
      BY <1>1, <1>2, <1>4, <1>5, <2>1, <2>2 DEF Asked
  <1>6. CASE o.after < 0
    <2>1. w = 0
      BY <1>2, <1>6 DEF BackoffAfter, WithJitter, parseRetryAfter
    <2>2. QED
      BY <1>1, <1>2, <1>4, <1>6, <2>1 DEF Asked
  <1>7. CASE o.after = 0
    <2> DEFINE b == Backoff(attempt)
    <2>1. w \in b..(b + b \div 4)
      <3>1. w \in WithJitter(b)
        BY <1>7 DEF BackoffAfter, parseRetryAfter
      <3>2. QED
        BY <1>1, <3>1 DEF WithJitter
    <2>2. b \in Nat /\ b \div 4 <= MaxBackoff \div 4
      BY <1>1
    <2>3. QED
      <3> HIDE DEF b
      <3>1. QED
        BY <1>1, <1>2, <1>3, <1>4, <1>7, <2>1, <2>2 DEF Asked, b
  <1>8. QED
    BY <1>2, <1>5, <1>6, <1>7
\* Every wait that is over, under way or just over is the one asked for.
LEMMA WaitStep ==
    TypeOK /\ LoopInv /\ WaitInv /\ WaitsAsAsked /\ [Next]_vars
        => WaitInv' /\ WaitsAsAsked'
  <1> SUFFICES ASSUME TypeOK, LoopInv, WaitInv, WaitsAsAsked, [Next]_vars
               PROVE  WaitInv' /\ WaitsAsAsked'
    OBVIOUS
  <1> DEFINE Attempt == [body : {"whole", "spent"}, at : Nat]
  <1>a. /\ cfg \in Configs /\ attempt \in 0..MaxRetries /\ MaxRetries \in Nat
        /\ Len(sent) \in Nat /\ clock \in Nat /\ wake \in Nat
        /\ sent \in Seq(Attempt) /\ outcome \in Seq(Outcome)
    BY Parameters DEF TypeOK
  <1>b. cfg' = cfg
    BY DEF Next, vars, Loop, EndAttempt, End, ReadBody, ReadBodyFails, Send,
       PassOn, ReturnResponse, SleepAfterFailure, GiveUpAfterFailure,
       SleepAfterLimit, GiveUpAfterLimit, Wake, Tick
  <1>c. MaxBackoff' = MaxBackoff /\ InitialBackoff' = InitialBackoff
    BY <1>b, Fixed
  <1> USE <1>a, <1>b, <1>c
  \* The last outcome, as long as a wait may depend on it.
  <1>d. pc \in {"ended", "asleep", "send"} /\ Len(sent) > 0
           => /\ outcome[Len(sent)] \in Outcome /\ Len(outcome) = Len(sent)
              /\ outcome[Len(sent)].at \in Nat
    <2> SUFFICES ASSUME pc \in {"ended", "asleep", "send"}, Len(sent) > 0
                 PROVE  outcome[Len(sent)] \in Outcome /\ Len(outcome) = Len(sent)
      BY AfterFacts
    <2>1. Len(outcome) = Len(sent)
      BY DEF TypeOK
    <2>2. QED
      BY <2>1
  <1>e. UNCHANGED <<sent, outcome>> => WaitsAsAsked'
    BY DEF WaitsAsAsked, Asked, Backoff
  <1>1. CASE UNCHANGED vars
    BY <1>1, <1>e DEF vars, WaitInv, Asked, Backoff
  <1>2. CASE ReadBody
    BY <1>2, <1>e DEF ReadBody, WaitInv, TypeOK, LoopInv
  <1>3. CASE ReadBodyFails
    BY <1>3, <1>e DEF ReadBodyFails, Return, WaitInv
  <1>4. CASE Send
    <2>1. /\ Len(sent') = Len(sent) + 1
          /\ \A i \in 1..Len(sent) : sent'[i] = sent[i]
          /\ sent'[Len(sent) + 1].at = clock
      BY <1>4, AppendFacts DEF Send, TypeOK
    <2>2. WaitInv'
      BY <1>4 DEF Send, WaitInv
    <2>3. ASSUME NEW i \in 1..Len(sent') - 1
          PROVE  Asked(outcome[i], i, sent'[i + 1].at - outcome[i].at)
      <3>1. CASE i = Len(sent)
        <4>1. attempt > 0 /\ pc = "send"
          BY <1>4, <2>1, <3>1 DEF Send, TypeOK
        <4>2. QED
          BY <2>1, <3>1, <4>1 DEF WaitInv
      <3>2. CASE i \in 1..Len(sent) - 1
        <4>1. i + 1 \in 1..Len(sent) /\ sent'[i + 1] = sent[i + 1]
          BY <2>1, <3>2
        <4>2. Asked(outcome[i], i, sent[i + 1].at - outcome[i].at)
          BY <3>2 DEF WaitsAsAsked
        <4>3. QED
          BY <4>1, <4>2
      <3>3. QED
        BY <2>1, <3>1, <3>2
    <2>4. WaitsAsAsked'
      BY <1>4, <2>3 DEF Send, WaitsAsAsked, Asked, Backoff
    <2>5. QED
      BY <2>2, <2>4
  <1>5. ASSUME EndAttempt PROVE WaitInv' /\ WaitsAsAsked'
    <2>1. PICK k \in {"ok", "limited", "failed"}, a \in RetryAfter \union {0} : End(k, a)
      BY <1>5 DEF EndAttempt
    <2>2. /\ Len(outcome) = Len(sent) - 1 /\ Len(outcome) \in Nat
          /\ \A i \in 1..Len(outcome) : outcome'[i] = outcome[i]
          /\ outcome'[Len(sent)] = [kind |-> k, after |-> a, at |-> clock]
      <3>1. [kind |-> k, after |-> a, at |-> clock] \in Outcome
        BY DEF TypeOK, Outcome
      <3>2. QED
        BY <2>1, <3>1, AppendFacts DEF End, TypeOK
    <2>3. WaitInv'
      BY <2>1, <2>2 DEF End, WaitInv
    <2>4. WaitsAsAsked'
      BY <2>1, <2>2 DEF End, WaitsAsAsked, Asked, Backoff
    <2>5. QED
      BY <2>3, <2>4
  <1>6. CASE PassOn
    BY <1>6, <1>e DEF PassOn, Return, WaitInv
  <1>7. CASE ReturnResponse
    BY <1>7, <1>e DEF ReturnResponse, Return, WaitInv
  <1>8. CASE SleepAfterFailure
    <2> DEFINE o == outcome[Len(sent)]
    <2>1. /\ o \in Outcome /\ o.after = 0 /\ o.at = clock /\ Len(sent) = attempt + 1
      BY <1>8, <1>d DEF SleepAfterFailure, Ended, TypeOK, LoopInv, WaitInv
    <2>2. Backoff(attempt) \in Nat /\ Asked(o, Len(sent), Backoff(attempt))
      BY <2>1, WaitAfterFailure
    <2>3. wake' - o.at = Backoff(attempt) /\ clock <= wake'
      BY <1>8, <2>1, <2>2 DEF SleepAfterFailure
    <2>4. Asked(o, Len(sent), wake' - o.at)
      BY <2>2, <2>3
    <2>5. WaitInv'
      BY <1>8, <2>3, <2>4 DEF SleepAfterFailure, WaitInv, Asked, Backoff
    <2>6. QED
      BY <1>8, <1>e, <2>5 DEF SleepAfterFailure
  <1>9. CASE GiveUpAfterFailure
    BY <1>9, <1>e DEF GiveUpAfterFailure, Return, WaitInv
  <1>10. CASE SleepAfterLimit
    <2> DEFINE o == outcome[Len(sent)]
    <2>1. /\ o \in Outcome /\ o.at = clock /\ Len(sent) = attempt + 1
          /\ Len(outcome) = Len(sent)
      BY <1>10, <1>d DEF SleepAfterLimit, Ended, TypeOK, WaitInv
    <2>2. PICK w \in WithJitter(BackoffAfter(o)) : wake' = clock + w
      BY <1>10, <2>1 DEF SleepAfterLimit
    <2>3. w \in Nat /\ Asked(o, Len(sent), w)
      BY <2>1, WaitAfterLimit
    <2>4. wake' - o.at = w /\ clock <= wake'
      BY <2>1, <2>2, <2>3
    <2>5. Asked(o, Len(sent), wake' - o.at)
      BY <2>3, <2>4
    <2>6. WaitInv'
      BY <1>10, <2>4, <2>5 DEF SleepAfterLimit, WaitInv, Asked, Backoff
    <2>7. QED
      BY <1>10, <1>e, <2>6 DEF SleepAfterLimit
  <1>11. CASE GiveUpAfterLimit
    BY <1>11, <1>e DEF GiveUpAfterLimit, Return, WaitInv
  <1>12. CASE Wake
    <2>1. clock = wake /\ Asked(outcome[Len(sent)], Len(sent),
                                clock - outcome[Len(sent)].at)
      BY <1>12 DEF Wake, WaitInv
    <2>2. WaitInv'
      BY <1>12, <2>1 DEF Wake, WaitInv, Asked, Backoff
    <2>3. QED
      BY <1>12, <1>e, <2>2 DEF Wake
  <1>13. CASE Tick
    <2>1. WaitInv'
      BY <1>13 DEF Tick, WaitInv, Asked, Backoff
    <2>2. QED
      BY <1>13, <1>e, <2>1 DEF Tick
  <1>14. QED
    BY <1>1, <1>2, <1>3, <1>4, <1>5, <1>6, <1>7, <1>8, <1>9, <1>10, <1>11, <1>12,
       <1>13 DEF Next, Loop
-----------------------------------------------------------------------------
(* How late RoundTrip is.                                                  *)

LEMMA LateInit == Init => LateInv
  <1> SUFFICES ASSUME Init PROVE LateInv
    OBVIOUS
  <1>1. MaxBackoff \in Nat /\ Deadline \in Nat
    BY Parameters, TransportAssumption DEF Init
  <1>2. Overtime(0, MaxBackoff) \in Nat
    BY <1>1, OvertimeStep
  <1>3. QED
    BY <1>1, <1>2 DEF Init, LateInv

LEMMA LateStep == TypeOK /\ LoopInv /\ WaitInv /\ LateInv /\ [Next]_vars => LateInv'
  <1> SUFFICES ASSUME TypeOK, LoopInv, WaitInv, LateInv, [Next]_vars
               PROVE  LateInv'
    OBVIOUS
  <1> DEFINE M == MaxBackoff
             Late(k) == Deadline + Overtime(k, M)
  <1>a. /\ cfg \in Configs /\ attempt \in 0..MaxRetries /\ MaxRetries \in Nat
        /\ attempt \in Nat /\ clock \in Nat /\ Deadline \in Nat /\ M \in Nat
        /\ Len(sent) \in Nat /\ outcome \in Seq(Outcome)
        /\ LongestRetryAfter \in Nat
    BY Parameters, TransportAssumption DEF TypeOK
  <1>b. cfg' = cfg
    BY DEF Next, vars, Loop, EndAttempt, End, ReadBody, ReadBodyFails, Send,
       PassOn, ReturnResponse, SleepAfterFailure, GiveUpAfterFailure,
       SleepAfterLimit, GiveUpAfterLimit, Wake, Tick
  <1>c. MaxBackoff' = MaxBackoff
    BY <1>b, Fixed
  <1>d. /\ Late(attempt) \in Nat /\ Deadline <= Late(attempt)
        /\ Late(attempt + 1) = Late(attempt) + M
        /\ Late(attempt) >= Deadline + LongestRetryAfter + LongestRetryAfter \div 4
                               + M \div 4
    <2>1. /\ Overtime(attempt, M) \in Nat
          /\ Overtime(attempt + 1, M) = Overtime(attempt, M) + M
          /\ Overtime(attempt, M) >= LongestRetryAfter + LongestRetryAfter \div 4
                                        + M \div 4
      BY <1>a, OvertimeStep
    <2>2. LongestRetryAfter \div 4 \in Nat /\ M \div 4 \in Nat
      BY <1>a
    <2>3. QED
      BY <1>a, <2>1, <2>2
  <1> USE <1>a, <1>b, <1>c
  <1>1. CASE UNCHANGED vars
    BY <1>1 DEF vars, LateInv
  <1>2. CASE ReadBody
    BY <1>2 DEF ReadBody, LateInv
  <1>3. CASE ReadBodyFails
    BY <1>3 DEF ReadBodyFails, Return, LateInv
  <1>4. CASE Send
    BY <1>4 DEF Send, LateInv
  <1>5. ASSUME EndAttempt PROVE LateInv'
    <2>1. PICK k \in {"ok", "limited", "failed"}, a \in RetryAfter \union {0} : End(k, a)
      BY <1>5 DEF EndAttempt
    <2>2. outcome'[Len(sent)].kind = k
      <3>1. [kind |-> k, after |-> a, at |-> clock] \in Outcome
        BY DEF TypeOK, Outcome
      <3>2. QED
        BY <2>1, <3>1, AppendFacts DEF End, TypeOK
    <2>3. k # "failed" => clock < Deadline
      BY <2>1 DEF End
    <2>4. QED
      BY <2>1, <2>2, <2>3 DEF End, LateInv
  <1>6. CASE PassOn
    BY <1>6 DEF PassOn, Return, LateInv
  <1>7. CASE ReturnResponse
    BY <1>7 DEF ReturnResponse, Ended, Return, LateInv
  <1>8. CASE SleepAfterFailure
    <2>1. Backoff(attempt) \in 0..M
      BY Parameters
    <2>2. wake' <= Late(attempt) + M
      <3>1. clock <= Late(attempt) /\ wake' = clock + Backoff(attempt)
        BY <1>8 DEF SleepAfterFailure, Ended, LateInv
      <3>2. QED
        BY <1>d, <2>1, <3>1
    <2>3. wake' <= Late(attempt + 1)
      BY <1>d, <2>2
    <2>4. QED
      BY <1>8, <2>3 DEF SleepAfterFailure, LateInv
  <1>9. CASE GiveUpAfterFailure
    BY <1>9 DEF GiveUpAfterFailure, Ended, Return, LateInv
  <1>10. CASE SleepAfterLimit
    <2> DEFINE o == outcome[Len(sent)]
    <2>1. /\ Len(outcome) = Len(sent) /\ o \in Outcome /\ clock < Deadline
      BY <1>10 DEF SleepAfterLimit, Ended, TypeOK, LateInv
    <2>2. PICK w \in WithJitter(BackoffAfter(o)) : wake' = clock + w
      BY <1>10, <2>1 DEF SleepAfterLimit
    <2>3. w \in Nat /\ w <= LongestRetryAfter + LongestRetryAfter \div 4
                                + M \div 4 + M
      BY <2>1, WaitAfterLimit
    <2>4. wake' <= Late(attempt) + M
      <3> HIDE DEF M, Late
      <3>1. LongestRetryAfter \div 4 \in Nat /\ M \div 4 \in Nat
        BY <1>a
      <3>2. QED
        BY <1>d, <2>1, <2>2, <2>3, <3>1
    <2>5. wake' <= Late(attempt + 1)
      BY <1>d, <2>4
    <2>6. QED
      BY <1>10, <2>5 DEF SleepAfterLimit, LateInv
  <1>11. CASE GiveUpAfterLimit
    BY <1>11 DEF GiveUpAfterLimit, Ended, Return, LateInv
  <1>12. CASE Wake
    <2>1. clock = wake
      BY <1>12 DEF Wake, WaitInv, TypeOK
    <2>2. QED
      BY <1>12, <2>1 DEF Wake, LateInv
  <1>13. CASE Tick
    <2>1. pc = "flight" => clock + 1 <= Late(attempt)
      BY <1>13, <1>d DEF Tick
    <2>2. QED
      BY <1>13, <2>1 DEF Tick, LateInv
  <1>14. QED
    BY <1>1, <1>2, <1>3, <1>4, <1>5, <1>6, <1>7, <1>8, <1>9, <1>10, <1>11, <1>12,
       <1>13 DEF Next, Loop

LEMMA LateEnough ==
    TypeOK /\ LoopInv /\ WaitInv /\ LateInv => ReturnsSoonAfterDeadline
  <1> SUFFICES ASSUME TypeOK, LoopInv, WaitInv, LateInv
               PROVE  ReturnsSoonAfterDeadline
    OBVIOUS
  <1> DEFINE M == MaxBackoff
  <1>1. /\ attempt \in 0..MaxRetries /\ MaxRetries \in Nat /\ attempt \in Nat
        /\ M \in Nat /\ Deadline \in Nat /\ clock \in Nat /\ wake \in Nat
    BY Parameters, TransportAssumption DEF TypeOK
  <1>2. Overtime(MaxRetries, M) \in Nat
    BY <1>1, OvertimeStep
  <1>3. CASE pc = "asleep"
    <2>1. attempt + 1 <= MaxRetries /\ attempt + 1 \in Nat
      BY <1>1, <1>3 DEF LoopInv
    <2>2. /\ Overtime(attempt + 1, M) \in Nat
          /\ Overtime(attempt + 1, M) <= Overtime(MaxRetries, M)
      BY <1>1, <2>1, OvertimeStep, OvertimeMonotonic
    <2>3. clock <= wake /\ wake <= Deadline + Overtime(attempt + 1, M)
      BY <1>3 DEF WaitInv, LateInv
    <2>4. QED
      BY <1>1, <1>2, <2>2, <2>3 DEF ReturnsSoonAfterDeadline
  <1>4. CASE pc # "asleep"
    <2>1. /\ Overtime(attempt, M) \in Nat
          /\ Overtime(attempt, M) <= Overtime(MaxRetries, M)
      BY <1>1, OvertimeStep, OvertimeMonotonic
    <2>2. clock <= Deadline + Overtime(attempt, M)
      BY <1>4 DEF LateInv
    <2>3. QED
      BY <1>1, <1>2, <2>1, <2>2 DEF ReturnsSoonAfterDeadline
  <1>5. QED
    BY <1>3, <1>4

-----------------------------------------------------------------------------
(* The theorems.                                                           *)

\* The invariant is inductive.
LEMMA Inductive == Spec => [](TypeOK /\ IInv)
  <1>1. Init => TypeOK /\ IInv
    BY TypeInit, LoopInit, WaitInit, LateInit DEF IInv
  <1>2. TypeOK /\ IInv /\ [Next]_vars => TypeOK' /\ IInv'
    BY TypeStep, LoopStep, WaitStep, LateStep DEF IInv
  <1>3. QED
    BY <1>1, <1>2, PTL DEF Spec

\* The loop counter counts the repetitions, for every configuration.
THEOREM TypeCorrect == Spec => []TypeOK
  BY Inductive, PTL

\* RoundTrip repeats the whole question, asks nothing that has been answered,
\* and leaves no response open but the one it returns.
THEOREM Repeats == Spec => []RepeatsSafely
  <1>1. IInv => RepeatsSafely
    BY DEF IInv, RepeatsSafely
  <1>2. QED
    BY <1>1, Inductive, PTL

\* Between two attempts lies the wait the server asked for, or the backoff,
\* with at most a quarter more.
THEOREM Waits == Spec => []WaitsAsAsked
  <1>1. IInv => WaitsAsAsked
    BY DEF IInv
  <1>2. QED
    BY <1>1, Inductive, PTL

\* However often the server refuses, RoundTrip is done within a fixed time
\* after the deadline of its caller.
THEOREM Late == Spec => []ReturnsSoonAfterDeadline
  <1>1. TypeOK /\ IInv => ReturnsSoonAfterDeadline
    BY LateEnough DEF IInv
  <1>2. QED
    BY <1>1, Inductive, PTL

-----------------------------------------------------------------------------
(* How many steps a call has.                                              *)

\* The steps of the loop there can still be, and the time.
StepsToCome ==
    CASE pc = "start"    -> 4 * MaxRetries + 5
      [] pc = "send"     -> 4 * (MaxRetries - attempt) + 4
      [] pc = "flight"   -> 4 * (MaxRetries - attempt) + 3
      [] pc = "ended"    -> 4 * (MaxRetries - attempt) + 2
      [] pc = "asleep"   -> 4 * (MaxRetries - attempt) + 1
      [] pc = "returned" -> 0

TimeToCome == Deadline + Overtime(MaxRetries, MaxBackoff) - clock

CallRank == StepsToCome + TimeToCome

LEMMA StepsType == TypeOK => StepsToCome \in Nat
  <1>1. SUFFICES ASSUME TypeOK PROVE StepsToCome \in Nat
    OBVIOUS
  <1>2. /\ MaxRetries \in Nat /\ attempt \in Nat /\ attempt <= MaxRetries
        /\ pc \in {"start", "send", "flight", "ended", "asleep", "returned"}
    BY <1>1, Parameters DEF TypeOK
  <1>3. QED
    BY <1>2 DEF StepsToCome

LEMMA TimeType == TypeOK /\ ReturnsSoonAfterDeadline => TimeToCome \in Nat
  <1>1. SUFFICES ASSUME TypeOK, ReturnsSoonAfterDeadline PROVE TimeToCome \in Nat
    OBVIOUS
  <1>2. /\ Overtime(MaxRetries, MaxBackoff) \in Nat /\ Deadline \in Nat
        /\ clock \in Nat
    BY <1>1, Parameters, OvertimeStep, TransportAssumption DEF TypeOK
  <1>3. QED
    BY <1>1, <1>2 DEF ReturnsSoonAfterDeadline, TimeToCome

\* Every step is one of the loop, or one of the clock.
LEMMA StepTakesOne ==
    ASSUME TypeOK, LoopInv, Next
    PROVE  \/ /\ StepsToCome' \in Int /\ StepsToCome' < StepsToCome
              /\ TimeToCome' = TimeToCome
           \/ StepsToCome' = StepsToCome /\ TimeToCome' = TimeToCome - 1
  <1>1. /\ MaxRetries \in Nat /\ MaxBackoff \in Nat
        /\ attempt \in Nat /\ attempt <= MaxRetries
        /\ clock \in Nat /\ Deadline \in Nat
        /\ Overtime(MaxRetries, MaxBackoff) \in Nat
    <2>1. /\ MaxRetries \in Nat /\ MaxBackoff \in Nat /\ attempt \in 0..MaxRetries
          /\ clock \in Nat /\ Deadline \in Nat
      BY Parameters, TransportAssumption DEF TypeOK
    <2>2. Overtime(MaxRetries, MaxBackoff) \in Nat
      BY <2>1, OvertimeStep
    <2>3. QED
      BY <2>1, <2>2
  <1>2. cfg' = cfg
    <2>1. EndAttempt => cfg' = cfg
      BY DEF EndAttempt, End
    <2>2. Loop => cfg' = cfg
      BY DEF Loop, ReadBody, ReadBodyFails, Send, PassOn, ReturnResponse,
         SleepAfterFailure, GiveUpAfterFailure, SleepAfterLimit, GiveUpAfterLimit,
         Wake
    <2>3. Tick => cfg' = cfg
      BY DEF Tick
    <2>4. QED
      BY <2>1, <2>2, <2>3 DEF Next
  <1>3. /\ MaxRetries' = MaxRetries
        /\ Overtime(MaxRetries, MaxBackoff)' = Overtime(MaxRetries, MaxBackoff)
    <2>1. MaxRetries' = MaxRetries /\ MaxBackoff' = MaxBackoff
      BY <1>2, Fixed
    <2>2. QED
      BY <2>1
  <1>4. CASE Tick
    BY <1>1, <1>3, <1>4 DEF Tick, StepsToCome, TimeToCome
  <1>5. ASSUME clock' = clock PROVE TimeToCome' = TimeToCome
    BY <1>3, <1>5 DEF TimeToCome
  <1>6. CASE Loop \/ EndAttempt
    <2>1. clock' = clock
      BY <1>6 DEF Loop, EndAttempt, End, ReadBody, ReadBodyFails, Send, PassOn,
         ReturnResponse, SleepAfterFailure, GiveUpAfterFailure, SleepAfterLimit,
         GiveUpAfterLimit, Wake
    <2>2. \/ pc = "start" /\ pc' = "send" /\ attempt' = attempt
          \/ pc = "send" /\ pc' = "flight" /\ attempt' = attempt
          \/ pc = "flight" /\ pc' = "ended" /\ attempt' = attempt
          \/ pc = "ended" /\ pc' = "asleep" /\ attempt' = attempt
          \/ pc = "asleep" /\ pc' = "send" /\ attempt' = attempt + 1
          \/ pc \in {"start", "ended"} /\ pc' = "returned"
      BY <1>6 DEF Loop, EndAttempt, End, ReadBody, ReadBodyFails, Send, PassOn,
         ReturnResponse, SleepAfterFailure, GiveUpAfterFailure, SleepAfterLimit,
         GiveUpAfterLimit, Wake, Ended, Return
    <2>3. StepsToCome' \in Int /\ StepsToCome' < StepsToCome
      BY <1>1, <1>3, <2>2 DEF StepsToCome
    <2>4. QED
      BY <1>5, <2>1, <2>3
  <1>7. QED
    BY <1>4, <1>6 DEF Next

\* A call has finitely many steps, counting those of the clock: each takes one
\* off a number that the configuration and the deadline fix at the start.  (What
\* is left of CallReturns is that RoundTrip is never stuck before it returns.)
THEOREM StepsRunOut == Spec => [][CallRank' < CallRank /\ CallRank \in Nat]_vars
  <1>1. /\ TypeOK /\ IInv /\ ReturnsSoonAfterDeadline /\ [Next]_vars
           => [CallRank' < CallRank /\ CallRank \in Nat]_vars
    <2>1. SUFFICES ASSUME TypeOK, LoopInv, ReturnsSoonAfterDeadline, Next
                   PROVE  CallRank' < CallRank /\ CallRank \in Nat
      BY DEF IInv
    <2>2. StepsToCome \in Nat /\ TimeToCome \in Nat
      BY <2>1, StepsType, TimeType
    <2>3. QED
      BY <2>1, <2>2, StepTakesOne DEF CallRank
  <1>2. QED
    BY <1>1, Inductive, Late, PTL DEF Spec
=============================================================================
