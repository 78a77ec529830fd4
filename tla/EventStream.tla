------------------------------ MODULE EventStream ------------------------------
(***************************************************************************)
(* The events of one streamed request: the SSEEmitter of                   *)
(* internal/agent/stream.go and the endings of ChatStream and ResumeStream *)
(* (stream.go, handler.go), which both write to the same response.         *)
(*                                                                         *)
(* The agent run is the environment, as the emitter expects it: the host   *)
(* model answers or calls specialists, which run side by side, each a loop *)
(* of model messages and tool calls; the report of a single specialist is  *)
(* the final message, several reports go through the summarizer.  A        *)
(* specialist is a Lambda node of the host's graph (supervisor.go gives it *)
(* Invokable and Streamable), not a tool: its start and its end call back  *)
(* as a Lambda's, of which the emitter takes no notice.                    *)
(*                                                                         *)
(* Each callback is one critical section of the emitter's mutex, and so is *)
(* each chunk of a model stream.  The run is over when Stream and Recv     *)
(* have returned: no callback is called after that.                        *)
(***************************************************************************)
EXTENDS Naturals, Sequences, FiniteSets

CONSTANTS
    Specialists,  \* the specialists the host may call
    Tools,        \* their tools
    MaxCalls      \* bound: tool calls of one specialist

NoTool == "none"

ASSUME EventAssumption ==
    /\ {"host", "summarizer"} \intersect Specialists = {}
    /\ NoTool \notin Tools
    /\ IsFiniteSet(Specialists)
    /\ MaxCalls \in Nat

Nodes == Specialists \union {"host", "summarizer"}

VARIABLES
    \* The request.
    kind,     \* "chat" or "resume"
    intent,   \* the high-risk tool its text asks for, if any
    callIds,  \* whether the model provider gives its tool calls an id
    \* The agent run.
    at,       \* at[n]: where node n stands
    team,     \* the specialists the host has called
    using,    \* using[s]: the tool call of specialist s
    made,     \* made[s]: its tool calls so far
    spoke,    \* spoke[n]: the last message of n has text
    raised,   \* a tool call has been interrupted
    \* The emitter and the response.
    sentThinking, sentAnswer, sentInterrupt,
    emittedCalls,     \* tool names marked in a model stream
    calledToolNames,  \* tools that have been started
    events,           \* the events written so far
    handler   \* "run", then how the run ended, then "returned"

request == <<kind, intent, callIds>>
run == <<at, team, using, made, spoke, raised>>
flags == <<sentThinking, sentAnswer, sentInterrupt, emittedCalls,
           calledToolNames>>
vars == <<request, run, flags, events, handler>>

Step == {"idle", "model", "text", "calls", "waiting", "tool",
         "working", "report", "over", "failed"}

\* An event: its type, and what it is about.
EventTypes == {"thinking", "tool_call", "tool_result", "answer",
               "interrupt", "error", "done"}
Event == [type : EventTypes, of : Nodes \union Tools \union {NoTool},
          final : BOOLEAN]
Simple(type) == [type |-> type, of |-> NoTool, final |-> FALSE]
About(type, x) == [type |-> type, of |-> x, final |-> FALSE]

Emit(e) == events' = Append(events, e)

Init ==
    /\ kind \in {"chat", "resume"}
    /\ intent \in Tools \union {NoTool}
    /\ callIds \in BOOLEAN
    /\ at = [n \in Nodes |-> IF n = "host" THEN "model" ELSE "idle"]
    /\ team = {}
    /\ using = [s \in Specialists |-> NoTool]
    /\ made = [s \in Specialists |-> 0]
    /\ spoke = [n \in Nodes |-> FALSE]
    /\ raised = FALSE
    /\ sentThinking = FALSE /\ sentAnswer = FALSE /\ sentInterrupt = FALSE
    /\ emittedCalls = {} /\ calledToolNames = {}
    /\ events = << >>
    /\ handler = "run"

Goto(n, step) == at' = [at EXCEPT ![n] = step]

\* Node n takes its next step while the request is served.
StepOf(n, from) == handler = "run" /\ at[n] = from

-----------------------------------------------------------------------------
(* The final message.                                                      *)

Running(n) ==
    /\ at[n] \notin {"idle", "waiting", "over", "failed"}
    /\ at[n] = "report" => n \in Specialists

\* The node whose last message is the final message of the run.
Final(n) ==
    \/ n \notin Specialists /\ at[n] = "report"
    \/ team = {n} /\ at[n] = "over"

\* The run is over: with a final message, or with nothing left that runs
\* after a node has failed.
RunOver == \/ \E n \in Nodes : Final(n)
           \/ /\ \E n \in Nodes : at[n] = "failed"
              /\ \A n \in Nodes : ~Running(n)

-----------------------------------------------------------------------------
(* Callbacks of the models.                                                *)

\* OnStart of a chat model: the first one is announced.
OnStartModel(n) ==
    /\ StepOf(n, "model")
    /\ Goto(n, "text")
    /\ IF sentInterrupt \/ sentThinking
       THEN UNCHANGED <<sentThinking, events>>
       ELSE sentThinking' = TRUE /\ Emit(Simple("thinking"))
    /\ UNCHANGED <<request, team, using, made, spoke, raised, sentAnswer,
                   sentInterrupt, emittedCalls, calledToolNames, handler>>

\* The last message of a specialist is its report, of the others the final
\* message; a message before that comes with calls.
MayCall(n) == \/ n = "host" /\ Specialists # {}
              \/ n \in Specialists /\ made[n] < MaxCalls

\* Mutant: the answer is not noted.
OnTextChunkUnnoted(n) ==
    /\ StepOf(n, "text")
    /\ \E last \in BOOLEAN :
          /\ last \/ MayCall(n)
          /\ Goto(n, IF last THEN "report" ELSE "calls")
          /\ spoke' = [spoke EXCEPT ![n] = last]
          /\ IF sentInterrupt THEN UNCHANGED events
             ELSE Emit([type |-> "answer", of |-> n,
                        final |-> last /\ (n \in Specialists => team = {n})])
    /\ UNCHANGED <<request, team, using, made, raised, flags, handler>>

\* A chunk with text; then come calls, or the message ends.  The text is an
\* answer, whoever says it: it would be withheld after the start of a
\* specialist that is a tool, and no specialist is one.
OnTextChunk(n) ==
    /\ StepOf(n, "text")
    /\ \E last \in BOOLEAN :
          /\ last \/ MayCall(n)
          /\ Goto(n, IF last THEN "report" ELSE "calls")
          /\ spoke' = [spoke EXCEPT ![n] = last]
          /\ IF sentInterrupt THEN UNCHANGED <<sentAnswer, events>>
             ELSE /\ sentAnswer' = TRUE
                  /\ Emit([type |-> "answer", of |-> n,
                           final |-> last /\ (n \in Specialists => team = {n})])
    /\ UNCHANGED <<request, team, using, made, raised, sentThinking,
                   sentInterrupt, emittedCalls, calledToolNames, handler>>

\* A message without text.
NoText(n) ==
    /\ StepOf(n, "text")
    /\ \E last \in BOOLEAN :
          /\ last \/ MayCall(n)
          /\ Goto(n, IF last THEN "report" ELSE "calls")
    /\ spoke' = [spoke EXCEPT ![n] = FALSE]
    /\ UNCHANGED <<request, team, using, made, raised, flags, events, handler>>

\* The chunk with the calls of the host, and the start of the specialists it
\* calls.  (It marks their names, which nobody looks up.)
HostCalls ==
    /\ StepOf("host", "calls")
    /\ \E S \in (SUBSET Specialists) \ {{}} :
          /\ team' = S
          /\ at' = [n \in Nodes |-> IF n = "host" THEN "waiting"
                                    ELSE IF n \in S THEN "model" ELSE at[n]]
    /\ UNCHANGED <<request, using, made, spoke, raised, flags, events, handler>>

\* Mutant: the name is marked even if the call has an id.
OnCallChunkByName(s, t) ==
    /\ StepOf(s, "calls")
    /\ Goto(s, "tool")
    /\ using' = [using EXCEPT ![s] = t]
    /\ emittedCalls' = emittedCalls \union {t}
    /\ UNCHANGED <<request, team, made, spoke, raised, sentThinking, sentAnswer,
                   sentInterrupt, calledToolNames, events, handler>>

\* The chunk with a call of a specialist.  It is marked under its id, which
\* nobody looks up, or under its name if it has none.
OnCallChunk(s, t) ==
    /\ StepOf(s, "calls")
    /\ Goto(s, "tool")
    /\ using' = [using EXCEPT ![s] = t]
    /\ emittedCalls' = IF callIds \/ sentInterrupt THEN emittedCalls
                       ELSE emittedCalls \union {t}
    /\ UNCHANGED <<request, team, made, spoke, raised, sentThinking, sentAnswer,
                   sentInterrupt, calledToolNames, events, handler>>

-----------------------------------------------------------------------------
(* Callbacks of tools, and of specialists.                                 *)

\* The report of s is complete: the end of a Lambda, whose stream the emitter
\* closes unread.
SpecialistEnds(s) ==
    /\ s \in Specialists /\ StepOf(s, "report")
    /\ Goto(s, "over")
    /\ UNCHANGED <<request, team, using, made, spoke, raised, flags, events,
                   handler>>

OnStartTool(s) ==
    LET t == using[s] IN
    /\ StepOf(s, "tool")
    /\ Goto(s, "working")
    /\ IF sentInterrupt
       THEN UNCHANGED <<calledToolNames, events>>
       ELSE /\ calledToolNames' = calledToolNames \union {t}
            /\ IF t \in emittedCalls THEN UNCHANGED events
               ELSE Emit(About("tool_call", t))
    /\ UNCHANGED <<request, team, using, made, spoke, raised, sentThinking,
                   sentAnswer, sentInterrupt, emittedCalls, handler>>

OnEndTool(s) ==
    /\ StepOf(s, "working")
    /\ Goto(s, "model")
    /\ made' = [made EXCEPT ![s] = @ + 1]
    /\ IF sentInterrupt THEN UNCHANGED events
       ELSE Emit(About("tool_result", using[s]))
    /\ UNCHANGED <<request, team, using, spoke, raised, flags, handler>>

\* Mutant: the interrupt is announced, the end is left to the handler.
OnErrorInterruptOpen(s) ==
    /\ StepOf(s, "working")
    /\ Goto(s, "failed")
    /\ raised' = TRUE
    /\ sentInterrupt' = TRUE
    /\ IF sentInterrupt THEN UNCHANGED events
       ELSE Emit(Simple("interrupt"))
    /\ UNCHANGED <<request, team, using, made, spoke, sentThinking, sentAnswer,
                   emittedCalls, calledToolNames, handler>>

\* An interrupt that OnError does not see: Stream or Recv returns it.
InterruptUnseen(s) ==
    /\ StepOf(s, "working")
    /\ Goto(s, "failed")
    /\ raised' = TRUE
    /\ UNCHANGED <<request, team, using, made, spoke, flags, events, handler>>

\* OnError with an interrupt: announced, with the end of the stream, once.
\* Only the approval middleware interrupts, always with an ApprovalInfo: the
\* branches for an interrupt without one, here and in the handlers, are left
\* out.
OnErrorInterrupt(s) ==
    /\ StepOf(s, "working")
    /\ Goto(s, "failed")
    /\ raised' = TRUE
    /\ sentInterrupt' = TRUE
    /\ IF sentInterrupt THEN UNCHANGED events
       ELSE events' = events \o <<Simple("interrupt"), Simple("done")>>
    /\ UNCHANGED <<request, team, using, made, spoke, sentThinking, sentAnswer,
                   emittedCalls, calledToolNames, handler>>

\* OnError with any other error is only logged.
OnError(n) ==
    /\ handler = "run" /\ Running(n)
    /\ Goto(n, "failed")
    /\ UNCHANGED <<request, team, using, made, spoke, raised, flags, events,
                   handler>>

\* All reports are in.
StartSummarizer ==
    /\ StepOf("summarizer", "idle")
    /\ Cardinality(team) > 1 /\ \A s \in team : at[s] = "over"
    /\ Goto("summarizer", "model")
    /\ UNCHANGED <<request, team, using, made, spoke, raised, flags, events,
                   handler>>
-----------------------------------------------------------------------------
(* The end of the run, and the endings of ChatStream and ResumeStream.     *)

Outcomes == {"streamInterrupt", "streamError", "recvInterrupt", "recvError",
             "eof"}

\* What Stream returns, or else the Recv at the end of the stream.  An
\* interrupt may be swallowed by the agent if OnError has seen it, and the
\* deadline of the run may pass at any time.
RunEnds(outcome) ==
    /\ handler = "run" /\ RunOver
    /\ \/ outcome \in {"streamInterrupt", "recvInterrupt"} /\ raised
       \/ outcome = "streamError" /\ ~\E n \in Nodes : Final(n)
       \/ outcome = "recvError"
       \/ outcome = "eof" /\ (sentInterrupt \/ \E n \in Nodes : Final(n))
    /\ handler' = outcome
    /\ UNCHANGED <<request, run, flags, events>>

Return(written) ==
    /\ events' = events \o written
    /\ handler' = "returned"
    /\ UNCHANGED <<request, run, flags>>

\* Stream returned the interrupt: the handler announces it, again if OnError
\* has announced it.
StreamInterrupted ==
    /\ handler = "streamInterrupt"
    /\ Return(<<Simple("interrupt"), Simple("done")>>)

StreamFailed ==
    /\ handler = "streamError"
    /\ Return(<<Simple("error"), Simple("done")>>)

Received == handler \in {"recvInterrupt", "recvError", "eof"}

\* Mutant: a callback has kept the emitter's mutex after the interrupt, and
\* the handler waits for it.
EndedByCallbackLocked ==
    /\ Received /\ FALSE
    /\ Return(<< >>)

\* The stream has been read to its end, and OnError has announced an
\* interrupt and the end.
EndedByCallback ==
    /\ Received /\ sentInterrupt
    /\ Return(<< >>)

RecvInterrupted ==
    /\ handler = "recvInterrupt" /\ ~sentInterrupt
    /\ Return(<<Simple("interrupt"), Simple("done")>>)

RecvFailed ==
    /\ handler = "recvError" /\ ~sentInterrupt
    /\ Return(<<Simple("error"), Simple("done")>>)

\* checkIntentRisk, after a chat: the text asks for a high-risk tool the user
\* may execute, and the run has not called it.
IntentRisk == kind = "chat" /\ intent # NoTool /\ intent \notin calledToolNames

\* The stream ends well, but a card is needed.
EndedWithIntent ==
    /\ handler = "eof" /\ ~sentInterrupt
    /\ IntentRisk
    /\ Return(<<Simple("interrupt"), Simple("done")>>)

\* Mutant: the final message is always written.
FallbackAlways(n) ==
    IF spoke[n]
    THEN <<[type |-> "answer", of |-> n, final |-> TRUE]>> ELSE << >>

\* The final message, unless some answer has been written before.
Fallback(n) ==
    IF ~sentAnswer /\ spoke[n]
    THEN <<[type |-> "answer", of |-> n, final |-> TRUE]>> ELSE << >>

\* The stream ends well.
Ended(n) ==
    /\ handler = "eof" /\ ~sentInterrupt /\ Final(n)
    /\ ~IntentRisk
    /\ Return(Fallback(n) \o <<Simple("done")>>)

-----------------------------------------------------------------------------
StepNode(n) ==
    \/ OnStartModel(n)
    \/ OnTextChunk(n)
    \/ NoText(n)
    \/ OnError(n)

StepSpecialist(s) ==
    \/ \E t \in Tools : OnCallChunk(s, t)
    \/ OnStartTool(s)
    \/ OnEndTool(s)
    \/ OnErrorInterrupt(s)
    \/ InterruptUnseen(s)
    \/ SpecialistEnds(s)

RunStep ==
    \/ \E n \in Nodes : StepNode(n)
    \/ \E s \in Specialists : StepSpecialist(s)
    \/ HostCalls
    \/ StartSummarizer
    \/ \E o \in Outcomes : RunEnds(o)

End ==
    \/ StreamInterrupted
    \/ StreamFailed
    \/ EndedByCallback
    \/ RecvInterrupted
    \/ RecvFailed
    \/ EndedWithIntent
    \/ \E n \in Nodes : Ended(n)

Next == RunStep \/ End

\* The goroutines of the run and of the handler are scheduled; the deadline
\* of the run and its limit of steps keep each of them from going on forever.
Fairness == WF_vars(RunStep) /\ WF_vars(End)

Spec == Init /\ [][Next]_vars /\ Fairness

-----------------------------------------------------------------------------
(* What must hold.                                                         *)

Returned == handler = "returned"
Positions(type) == {i \in 1..Len(events) : events[i].type = type}
Last == events[Len(events)].type

\* The run: a tool call under way has a tool, and is within the bound.
RunOK ==
    /\ kind \in {"chat", "resume"}
    /\ intent \in Tools \union {NoTool}
    /\ callIds \in BOOLEAN
    /\ at \in [Nodes -> Step]
    /\ team \subseteq Specialists
    /\ using \in [Specialists -> Tools \union {NoTool}]
    /\ made \in [Specialists -> 0..MaxCalls]
    /\ spoke \in [Nodes -> BOOLEAN]
    /\ raised \in BOOLEAN
    /\ handler \in {"run", "returned"} \union Outcomes
    /\ \A s \in Specialists :
          /\ at[s] \in {"tool", "working"} => using[s] \in Tools
          /\ at[s] \in {"calls", "tool", "working"} => made[s] < MaxCalls

\* The flags of the emitter agree with what has been written.
EmitterOK ==
    /\ events \in Seq(Event)
    /\ emittedCalls \subseteq Tools /\ calledToolNames \subseteq Tools
    /\ sentThinking \in BOOLEAN /\ sentAnswer \in BOOLEAN
    /\ sentInterrupt \in BOOLEAN
    /\ sentInterrupt => raised
    /\ sentThinking <=> Positions("thinking") # {}
    /\ ~Returned => (sentAnswer <=> Positions("answer") # {})

TypeOK == RunOK /\ EmitterOK

\* Whichever way the request ends, the last event is the end of the stream,
\* and a tool call that was interrupted has been announced, or an error
\* instead.  After an interrupt or the end there is nothing but the interrupt
\* again, an error, the end: specialists that still run beside the one that
\* was interrupted write nothing any more.  And a second end is the last
\* event of a request whose first end came from the callback.
EndsOnce ==
    /\ Returned => events # << >> /\ Last = "done"
    /\ Returned /\ raised => Positions("interrupt") \union Positions("error") # {}
    /\ \A i, j \in 1..Len(events) : i < j =>
          /\ events[i].type \in {"interrupt", "done"}
                => events[j].type \in {"interrupt", "done", "error"}
          /\ events[i].type = "done" /\ events[j].type = "done"
                => sentInterrupt /\ Returned /\ j = Len(events)

\* The client learns the final message once, and as the last it is told: when
\* a node has ended the run with text, that text has been shown, also when an
\* interrupt or an error follows; no text of another node and no second copy
\* comes after it, neither from a model that is still streaming nor from the
\* handler, which adds the final message if no answer has been shown.
AnswersShown ==
    LET answers == Positions("answer")
        final == {i \in answers : events[i].final}
    IN  /\ \A n \in Nodes : Final(n) /\ spoke[n] => final # {}
        /\ \A i \in final, j \in answers : j <= i

\* Every result of a tool that is shown comes after the call of that tool has
\* been shown, if the provider gives ids to calls.
ResultsFollowCalls ==
    callIds =>
        \A i \in Positions("tool_result") :
            \E j \in Positions("tool_call") : j < i /\ events[j].of = events[i].of

\* Every request that runs comes to its end.
StreamEnds == <>Returned
=============================================================================
