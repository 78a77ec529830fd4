----------------------------- MODULE EventProofs -----------------------------
(***************************************************************************)
(* Proofs about EventStream, for any number of specialists, tools and tool *)
(* calls: what the emitter has noted agrees with what it has written, the  *)
(* stream ends once, results follow their calls, the final message is      *)
(* shown once, and the run has finitely many steps and is never stuck.     *)
(***************************************************************************)
EXTENDS EventStream, FiniteSetTheorems, TLAPS

\* A step writes some events, or none.
Writes(w) == events' = events \o w

-----------------------------------------------------------------------------
(* What writing does to the stream.                                        *)

LEMMA WrittenOne ==
    ASSUME events \in Seq(Event), NEW e \in Event, events' = Append(events, e)
    PROVE  /\ events' \in Seq(Event) /\ Len(events) \in Nat
           /\ Len(events') = Len(events) + 1
           /\ \A i \in 1..Len(events) : events'[i] = events[i]
           /\ events'[Len(events) + 1] = e
           /\ \A t : Positions(t)' = IF e.type = t
                                     THEN Positions(t) \union {Len(events) + 1}
                                     ELSE Positions(t)
  <1>1. /\ events' \in Seq(Event) /\ Len(events) \in Nat
        /\ Len(events') = Len(events) + 1
        /\ \A i \in 1..Len(events) : events'[i] = events[i]
        /\ events'[Len(events) + 1] = e
    OBVIOUS
  <1>2. 1..Len(events') = 1..Len(events) \union {Len(events) + 1}
    BY <1>1
  <1>3. ASSUME NEW t
        PROVE  Positions(t)' = IF e.type = t
                               THEN Positions(t) \union {Len(events) + 1}
                               ELSE Positions(t)
    BY <1>1, <1>2 DEF Positions
  <1>4. QED
    BY <1>1, <1>3

LEMMA WrittenNone ==
    ASSUME events \in Seq(Event), Writes(<< >>) PROVE events' = events
  BY DEF Writes

LEMMA WrittenTwo ==
    ASSUME events \in Seq(Event), NEW d \in Event, NEW e \in Event,
           Writes(<<d, e>>)
    PROVE  /\ events' \in Seq(Event) /\ Len(events) \in Nat
           /\ Len(events') = Len(events) + 2
           /\ \A i \in 1..Len(events) : events'[i] = events[i]
           /\ events'[Len(events) + 1] = d /\ events'[Len(events) + 2] = e
  BY DEF Writes

\* The events that the emitter and the handlers write.
LEMMA EventKinds ==
    /\ \A t \in EventTypes : Simple(t) \in Event /\ Simple(t).type = t
    /\ \A t \in EventTypes, x \in Specialists \union Tools :
          About(t, x) \in Event /\ About(t, x).type = t /\ About(t, x).of = x
    /\ \A n \in Nodes, f \in BOOLEAN :
          [type |-> "answer", of |-> n, final |-> f] \in Event
    /\ {"thinking", "tool_call", "tool_result", "answer",
        "interrupt", "error", "done"} = EventTypes
  BY DEF Event, EventTypes, Simple, About, Nodes

-----------------------------------------------------------------------------
(* Types.                                                                  *)

\* Every action of the run keeps the types of its variables, and a tool call
\* under way has a tool.
LEMMA RunKept == RunOK /\ [Next]_vars => RunOK'
  <1> SUFFICES ASSUME RunOK, [Next]_vars PROVE RunOK'
    OBVIOUS
  <1> USE EventAssumption DEF RunOK, Step, Outcomes
  <1>1. ASSUME NEW n \in Nodes, OnStartModel(n) PROVE RunOK'
    BY <1>1 DEF OnStartModel, StepOf, Goto, request
  <1>2. ASSUME NEW n \in Nodes, OnTextChunk(n) PROVE RunOK'
    BY <1>2 DEF OnTextChunk, StepOf, Goto, request, MayCall, Nodes
  <1>3. ASSUME NEW n \in Nodes, NoText(n) PROVE RunOK'
    BY <1>3 DEF NoText, StepOf, Goto, request, MayCall, Nodes
  <1>4. ASSUME NEW n \in Nodes, OnError(n) PROVE RunOK'
    BY <1>4 DEF OnError, StepOf, Goto, request
  <1>6. ASSUME NEW s \in Specialists, NEW t \in Tools, OnCallChunk(s, t)
        PROVE  RunOK'
    BY <1>6 DEF OnCallChunk, StepOf, Goto, request, Nodes
  <1>7. ASSUME NEW s \in Specialists, OnStartTool(s) PROVE RunOK'
    BY <1>7 DEF OnStartTool, StepOf, Goto, request, Nodes
  <1>8. ASSUME NEW s \in Specialists, OnEndTool(s) PROVE RunOK'
    BY <1>8 DEF OnEndTool, StepOf, Goto, request, Nodes
  <1>9. ASSUME NEW s \in Specialists,
               OnErrorInterrupt(s) \/ InterruptUnseen(s) \/ SpecialistEnds(s)
        PROVE  RunOK'
    BY <1>9 DEF OnErrorInterrupt, InterruptUnseen, SpecialistEnds, StepOf,
                Goto, request, Nodes
  <1>10. CASE HostCalls
    BY <1>10 DEF HostCalls, StepOf, request, Nodes
  <1>11. CASE StartSummarizer
    BY <1>11 DEF StartSummarizer, StepOf, Goto, request, Nodes
  <1>12. CASE (\E o \in Outcomes : RunEnds(o)) \/ End \/ UNCHANGED vars
    BY <1>12 DEF RunEnds, End, StreamInterrupted, StreamFailed, Return,
                 EndedByCallback, RecvInterrupted, RecvFailed, EndedWithIntent,
                 Ended, run, request, vars
  <1>13. QED
    BY <1>1, <1>2, <1>3, <1>4, <1>6, <1>7, <1>8, <1>9, <1>10, <1>11,
       <1>12 DEF Next, RunStep, StepNode, StepSpecialist

\* What a callback that writes nothing, or one event, changes for the flags.
LEMMA NotedNone ==
    ASSUME EmitterOK, events' = events
    PROVE  /\ events' \in Seq(Event)
           /\ Positions("thinking")' = Positions("thinking")
           /\ Positions("answer")' = Positions("answer")
  BY DEF EmitterOK, Positions

LEMMA NotedOne ==
    ASSUME EmitterOK, NEW e \in Event, Emit(e)
    PROVE  /\ events' \in Seq(Event)
           /\ Positions("thinking")' # {}
                <=> Positions("thinking") # {} \/ e.type = "thinking"
           /\ Positions("answer")' # {}
                <=> Positions("answer") # {} \/ e.type = "answer"
  <1>1. /\ events \in Seq(Event)
        /\ events' = Append(events, e)
    BY DEF EmitterOK, Emit
  <1>2. /\ events' \in Seq(Event)
        /\ \A t : Positions(t)' = IF e.type = t
                                  THEN Positions(t) \union {Len(events) + 1}
                                  ELSE Positions(t)
    BY <1>1, WrittenOne
  <1>3. QED
    BY <1>2

\* An interrupt and the end are neither thinking nor an answer.
LEMMA NotedTwo ==
    ASSUME EmitterOK, NEW d \in Event, NEW e \in Event, Writes(<<d, e>>),
           d.type \notin {"thinking", "answer"},
           e.type \notin {"thinking", "answer"}
    PROVE  /\ events' \in Seq(Event)
           /\ Positions("thinking")' = Positions("thinking")
           /\ Positions("answer")' = Positions("answer")
  <1>1. events \in Seq(Event)
    BY DEF EmitterOK
  <1>2. /\ events' \in Seq(Event) /\ Len(events) \in Nat
        /\ Len(events') = Len(events) + 2
        /\ \A i \in 1..Len(events) : events'[i] = events[i]
        /\ events'[Len(events) + 1] = d /\ events'[Len(events) + 2] = e
    BY <1>1, WrittenTwo
  <1>3. \A i : i \in 1..Len(events') <=>
          i \in 1..Len(events) \/ i = Len(events) + 1 \/ i = Len(events) + 2
    BY <1>2
  <1>4. QED
    BY <1>2, <1>3 DEF Positions

\* Every action keeps the flags true to the stream.
LEMMA EmitterKept == TypeOK /\ [Next]_vars => EmitterOK'
  <1> SUFFICES ASSUME TypeOK, [Next]_vars PROVE EmitterOK'
    OBVIOUS
  <1> USE DEF request, run, flags, Returned, StepOf
  <1>0. EmitterOK /\ RunOK
    BY DEF TypeOK
  <1>1. ASSUME NEW n \in Nodes, OnStartModel(n) PROVE EmitterOK'
    <2>1. CASE sentInterrupt \/ sentThinking
      BY <1>0, <1>1, <2>1, NotedNone DEF OnStartModel, EmitterOK
    <2>2. CASE ~(sentInterrupt \/ sentThinking)
      <3>1. Simple("thinking") \in Event /\ Simple("thinking").type = "thinking"
        BY EventKinds
      <3>2. Emit(Simple("thinking")) /\ sentThinking' = TRUE
        BY <1>1, <2>2 DEF OnStartModel
      <3>3. QED
        BY <1>0, <1>1, <3>1, <3>2, NotedOne DEF OnStartModel, EmitterOK
    <2>3. QED
      BY <2>1, <2>2
  <1>2. ASSUME NEW n \in Nodes, OnTextChunk(n) PROVE EmitterOK'
    <2>1. PICK last \in BOOLEAN :
             IF sentInterrupt THEN UNCHANGED <<sentAnswer, events>>
             ELSE /\ sentAnswer' = TRUE
                  /\ Emit([type |-> "answer", of |-> n,
                           final |-> last /\ (n \in Specialists => team = {n})])
      BY <1>2 DEF OnTextChunk
    <2>2. CASE ~sentInterrupt
      <3> DEFINE e == [type |-> "answer", of |-> n,
                       final |-> last /\ (n \in Specialists => team = {n})]
      <3>1. e \in Event /\ e.type = "answer"
        BY EventKinds
      <3>2. Emit(e) /\ sentAnswer' = TRUE
        BY <2>1, <2>2
      <3> HIDE DEF e
      <3>3. QED
        BY <1>0, <1>2, <3>1, <3>2, NotedOne DEF OnTextChunk, EmitterOK
    <2>3. CASE sentInterrupt
      BY <1>0, <1>2, <2>1, <2>3, NotedNone DEF OnTextChunk, EmitterOK
    <2>4. QED
      BY <2>2, <2>3
  <1>3. ASSUME NEW n \in Nodes, NoText(n) \/ OnError(n) PROVE EmitterOK'
    BY <1>0, <1>3, NotedNone DEF NoText, OnError, EmitterOK
  <1>5. ASSUME NEW s \in Specialists, NEW t \in Tools, OnCallChunk(s, t)
        PROVE  EmitterOK'
    BY <1>0, <1>5, NotedNone DEF OnCallChunk, EmitterOK
  <1>6. ASSUME NEW s \in Specialists, OnStartTool(s) PROVE EmitterOK'
    <2>1. using[s] \in Tools
      BY <1>0, <1>6 DEF OnStartTool, RunOK
    <2>2. CASE sentInterrupt \/ using[s] \in emittedCalls
      <3>1. events' = events /\ calledToolNames' \subseteq Tools
        BY <1>0, <1>6, <2>1, <2>2 DEF OnStartTool, EmitterOK
      <3>2. QED
        BY <1>0, <1>6, <3>1, NotedNone DEF OnStartTool, EmitterOK
    <2>3. CASE ~(sentInterrupt \/ using[s] \in emittedCalls)
      <3>1. /\ About("tool_call", using[s]) \in Event
            /\ About("tool_call", using[s]).type = "tool_call"
        BY <2>1, EventKinds
      <3>2. /\ Emit(About("tool_call", using[s]))
            /\ calledToolNames' \subseteq Tools
        BY <1>0, <1>6, <2>1, <2>3 DEF OnStartTool, EmitterOK
      <3>3. QED
        BY <1>0, <1>6, <3>1, <3>2, NotedOne DEF OnStartTool, EmitterOK
    <2>4. QED
      BY <2>2, <2>3
  <1>7. ASSUME NEW s \in Specialists, OnEndTool(s) PROVE EmitterOK'
    <2>1. using[s] \in Tools
      BY <1>0, <1>7 DEF OnEndTool, RunOK
    <2>2. CASE sentInterrupt
      BY <1>0, <1>7, <2>2, NotedNone DEF OnEndTool, EmitterOK
    <2>3. CASE ~sentInterrupt
      <3>1. /\ About("tool_result", using[s]) \in Event
            /\ About("tool_result", using[s]).type = "tool_result"
        BY <2>1, EventKinds
      <3>2. Emit(About("tool_result", using[s]))
        BY <1>7, <2>3 DEF OnEndTool
      <3>3. QED
        BY <1>0, <1>7, <3>1, <3>2, NotedOne DEF OnEndTool, EmitterOK
    <2>4. QED
      BY <2>2, <2>3
  <1>8. ASSUME NEW s \in Specialists, OnErrorInterrupt(s) PROVE EmitterOK'
    <2>1. CASE sentInterrupt
      BY <1>0, <1>8, <2>1, NotedNone DEF OnErrorInterrupt, EmitterOK
    <2>2. CASE ~sentInterrupt
      <3>1. Writes(<<Simple("interrupt"), Simple("done")>>)
        BY <1>8, <2>2 DEF OnErrorInterrupt, Writes
      <3>2. /\ Simple("interrupt") \in Event /\ Simple("done") \in Event
            /\ Simple("interrupt").type = "interrupt"
            /\ Simple("done").type = "done"
        BY EventKinds
      <3>3. QED
        BY <1>0, <1>8, <3>1, <3>2, NotedTwo DEF OnErrorInterrupt, EmitterOK
    <2>3. QED
      BY <2>1, <2>2
  <1>9. ASSUME NEW s \in Specialists, InterruptUnseen(s) \/ SpecialistEnds(s)
        PROVE  EmitterOK'
    BY <1>0, <1>9, NotedNone DEF InterruptUnseen, SpecialistEnds, EmitterOK
  <1>10. CASE HostCalls \/ StartSummarizer \/ \E o \in Outcomes : RunEnds(o)
    <2>1. handler # "returned"
      BY <1>10 DEF HostCalls, StartSummarizer, RunEnds
    <2>2. QED
      BY <1>0, <1>10, <2>1, NotedNone
         DEF HostCalls, StartSummarizer, RunEnds, EmitterOK
  <1>11. CASE EndedByCallback
    BY <1>0, <1>11, WrittenNone, NotedNone
       DEF EndedByCallback, Return, Writes, EmitterOK
  <1>12. ASSUME NEW d \in {"interrupt", "error"}, Return(<<Simple(d), Simple("done")>>)
         PROVE  EmitterOK'
    <2>1. Writes(<<Simple(d), Simple("done")>>)
      BY <1>12 DEF Return, Writes
    <2>2. /\ Simple(d) \in Event /\ Simple("done") \in Event
          /\ Simple(d).type = d /\ Simple("done").type = "done"
      BY EventKinds
    <2>3. QED
      BY <1>0, <1>12, <2>1, <2>2, NotedTwo DEF Return, EmitterOK
  <1>13. ASSUME NEW n \in Nodes, Ended(n) PROVE EmitterOK'
    <2>1. Simple("done") \in Event /\ Simple("done").type = "done"
      BY EventKinds
    <2>2. CASE ~sentAnswer /\ spoke[n]
      <3> DEFINE e == [type |-> "answer", of |-> n, final |-> TRUE]
      <3>1. e \in Event /\ e.type = "answer"
        BY EventKinds
      <3>2. Return(<<e>> \o <<Simple("done")>>)
        BY <1>13, <2>2 DEF Ended, Fallback
      <3> HIDE DEF e
      <3>3. Writes(<<e, Simple("done")>>)
        BY <1>0, <2>1, <3>1, <3>2 DEF Return, Writes, EmitterOK
      <3>4. /\ events' \in Seq(Event) /\ Len(events) \in Nat
            /\ Len(events') = Len(events) + 2
            /\ \A i \in 1..Len(events) : events'[i] = events[i]
            /\ events'[Len(events) + 1] = e
            /\ events'[Len(events) + 2] = Simple("done")
        BY <1>0, <2>1, <3>1, <3>3, WrittenTwo DEF EmitterOK
      <3>5. Positions("thinking")' = Positions("thinking")
        BY <2>1, <3>1, <3>4 DEF Positions
      <3>6. QED
        BY <1>0, <3>2, <3>4, <3>5 DEF Return, EmitterOK
    <2>3. CASE ~(~sentAnswer /\ spoke[n])
      <3>1. Return(<< >> \o <<Simple("done")>>)
        BY <1>13, <2>3 DEF Ended, Fallback
      <3>2. Emit(Simple("done"))
        BY <1>0, <2>1, <3>1 DEF Return, EmitterOK, Emit
      <3>3. QED
        BY <1>0, <2>1, <3>1, <3>2, NotedOne DEF Return, EmitterOK
    <2>4. QED
      BY <2>2, <2>3
  <1>14. CASE UNCHANGED vars
    BY <1>0, <1>14, NotedNone DEF vars, EmitterOK
  <1>15. QED
    BY <1>1, <1>2, <1>3, <1>5, <1>6, <1>7, <1>8, <1>9, <1>10, <1>11,
       <1>12, <1>13, <1>14
       DEF Next, RunStep, StepNode, StepSpecialist, End, StreamInterrupted,
           StreamFailed, RecvInterrupted, RecvFailed, EndedWithIntent

LEMMA Initially == Init => TypeOK
  <1> SUFFICES ASSUME Init PROVE TypeOK
    OBVIOUS
  <1>1. RunOK
    <2>1. \A s \in Specialists : at[s] = "idle"
      BY EventAssumption DEF Init, Nodes
    <2>2. at \in [Nodes -> Step]
      BY DEF Init, Step
    <2>3. /\ using \in [Specialists -> Tools \union {NoTool}]
          /\ made \in [Specialists -> 0..MaxCalls]
          /\ spoke \in [Nodes -> BOOLEAN]
      BY EventAssumption DEF Init
    <2>4. QED
      BY <2>1, <2>2, <2>3 DEF Init, RunOK
  <1>2. /\ events \in Seq(Event) /\ \A t : Positions(t) = {}
        /\ handler = "run"
    BY DEF Init, Positions
  <1>3. EmitterOK
    BY <1>2 DEF Init, EmitterOK
  <1>4. QED
    BY <1>1, <1>3 DEF TypeOK

\* The run and the emitter keep their types, and the flags of the emitter,
\* which decide what is written next, say what has been written.
THEOREM TypeCorrect == Spec => []TypeOK
  <1>1. TypeOK /\ [Next]_vars => TypeOK'
    BY RunKept, EmitterKept DEF TypeOK
  <1>2. QED
    BY <1>1, Initially, PTL DEF Spec

-----------------------------------------------------------------------------
(* Where the nodes stand: a run that was interrupted has no final message.  *)

TeamInv ==
    /\ \A s \in Specialists : at[s] # "idle" => s \in team
    /\ team # {} => at["host"] = "waiting"
    /\ at["summarizer"] # "idle" =>
          /\ team # {} /\ Cardinality(team) > 1
          /\ \A s \in team : at[s] = "over"
    /\ raised => \E s \in Specialists : at[s] = "failed"

LEMMA InterruptedHasNoFinal ==
    TypeOK /\ TeamInv /\ raised => \A n \in Nodes : ~Final(n)
  BY DEF TypeOK, RunOK, TeamInv, Final, Nodes

LEMMA TeamInit == Init => TeamInv
  BY EventAssumption DEF Init, TeamInv, Nodes

LEMMA TeamKept == TypeOK /\ TeamInv /\ [Next]_vars => TeamInv'
  <1> SUFFICES ASSUME TypeOK, TeamInv, [Next]_vars PROVE TeamInv'
    OBVIOUS
  <1>0. /\ at \in [Nodes -> Step] /\ team \subseteq Specialists
        /\ "host" \in Nodes /\ "summarizer" \in Nodes
        /\ Specialists \subseteq Nodes
        /\ "host" \notin Specialists /\ "summarizer" \notin Specialists
    BY EventAssumption DEF TypeOK, RunOK, Nodes
  \* A node that runs takes a step, and no interrupt is raised.
  <1>1. ASSUME NEW n \in Nodes, NEW step \in Step \ {"idle"}, Goto(n, step),
               at[n] \in {"model", "text", "calls", "tool",
                         "working", "report"},
               UNCHANGED <<team, raised>>
        PROVE  TeamInv'
    BY <1>0, <1>1 DEF Goto, TeamInv, Step
  <1>2. ASSUME NEW n \in Nodes,
               \/ OnStartModel(n) \/ OnTextChunk(n) \/ NoText(n)
        PROVE  TeamInv'
    <2>1. PICK step \in Step \ {"idle"} : Goto(n, step)
      BY <1>2 DEF OnStartModel, OnTextChunk, NoText, Step
    <2>2. at[n] \in {"model", "text"} /\ UNCHANGED <<team, raised>>
      BY <1>2 DEF OnStartModel, OnTextChunk, NoText, StepOf
    <2>3. QED
      BY <1>1, <2>1, <2>2
  <1>3. ASSUME NEW n \in Nodes, OnError(n) PROVE TeamInv'
    <2>1. /\ Goto(n, "failed") /\ UNCHANGED <<team, raised>>
          /\ at[n] \notin {"idle", "waiting", "over", "failed"}
      BY <1>3 DEF OnError, Running
    <2>2. at[n] \in {"model", "text", "calls", "tool", "working",
                    "report"}
      BY <1>0, <2>1 DEF Step
    <2>3. "failed" \in Step \ {"idle"}
      BY DEF Step
    <2>4. QED
      BY <1>1, <2>1, <2>2, <2>3
  <1>4. ASSUME NEW s \in Specialists,
               \/ OnStartTool(s) \/ OnEndTool(s) \/ SpecialistEnds(s)
               \/ \E t \in Tools : OnCallChunk(s, t)
        PROVE  TeamInv'
    <2>1. PICK step \in Step \ {"idle"} : Goto(s, step)
      BY <1>4 DEF OnStartTool, OnEndTool, SpecialistEnds, OnCallChunk, Step
    <2>2. /\ at[s] \in {"tool", "working", "report", "calls"}
          /\ UNCHANGED <<team, raised>>
      BY <1>4 DEF OnStartTool, OnEndTool, SpecialistEnds, OnCallChunk, StepOf
    <2>3. QED
      BY <1>0, <1>1, <2>1, <2>2
  <1>5. ASSUME NEW s \in Specialists, OnErrorInterrupt(s) \/ InterruptUnseen(s)
        PROVE  TeamInv'
    <2>1. at[s] = "working" /\ at' = [at EXCEPT ![s] = "failed"] /\ team' = team
      BY <1>5 DEF OnErrorInterrupt, InterruptUnseen, StepOf, Goto
    <2>2. QED
      BY <1>0, <2>1 DEF TeamInv
  <1>6. CASE HostCalls
    <2>1. at["host"] = "calls" /\ team = {}
      BY <1>6 DEF HostCalls, StepOf, TeamInv
    <2>2. PICK S \in (SUBSET Specialists) \ {{}} :
             /\ team' = S
             /\ at' = [n \in Nodes |-> IF n = "host" THEN "waiting"
                                       ELSE IF n \in S THEN "model" ELSE at[n]]
      BY <1>6 DEF HostCalls
    <2>3. ~raised /\ raised' = raised
      BY <1>6, <2>1 DEF HostCalls, TeamInv
    <2>4. QED
      BY <1>0, <2>1, <2>2, <2>3 DEF TeamInv
  <1>7. CASE StartSummarizer
    <2>1. team # {}
      BY <1>7, FS_EmptySet DEF StartSummarizer
    <2>2. QED
      BY <1>0, <1>7, <2>1 DEF StartSummarizer, StepOf, Goto, TeamInv
  <1>8. CASE (\E o \in Outcomes : RunEnds(o)) \/ End \/ UNCHANGED vars
    <2>1. UNCHANGED <<at, team, raised>>
      BY <1>8 DEF RunEnds, End, StreamInterrupted, StreamFailed, Return,
                  EndedByCallback, RecvInterrupted, RecvFailed,
                  EndedWithIntent, Ended, run, vars
    <2>2. QED
      BY <2>1 DEF TeamInv
  <1>9. QED
    BY <1>2, <1>3, <1>4, <1>5, <1>6, <1>7, <1>8
       DEF Next, RunStep, StepNode, StepSpecialist

-----------------------------------------------------------------------------
(* What the stream holds before the request returns: neither an interrupt  *)
(* nor the end, or both of them last, once OnError has announced them.     *)

Quiet(k) == \A i \in 1..k : events[i].type \notin {"interrupt", "done"}

Announced ==
    /\ Len(events) \in Nat \ {0, 1} /\ Quiet(Len(events) - 2)
    /\ events[Len(events) - 1].type = "interrupt" /\ Last = "done"

QuietInv == ~Returned => IF sentInterrupt THEN Announced ELSE Quiet(Len(events))

\* The shapes of the run's steps: nothing is written, or, before an interrupt
\* has been announced, an event that is none of the endings, or the interrupt
\* with the end.
SilentStep == events' = events /\ sentInterrupt' = sentInterrupt
TalkStep ==
    /\ ~sentInterrupt /\ ~sentInterrupt'
    /\ \E e \in Event : /\ e.type \notin {"interrupt", "done", "error"}
                        /\ events' = Append(events, e)
InterruptStep ==
    /\ ~sentInterrupt /\ sentInterrupt'
    /\ Writes(<<Simple("interrupt"), Simple("done")>>)

LEMMA RunStepShapes ==
    ASSUME TypeOK, RunStep
    PROVE  /\ ~Returned /\ ~Returned'
           /\ SilentStep \/ TalkStep \/ InterruptStep
  <1> USE DEF StepOf, flags, Returned
  <1>0. /\ \A s \in Specialists : at[s] \in {"tool", "working"} => using[s] \in Tools
        /\ sentInterrupt \in BOOLEAN
    BY DEF TypeOK, RunOK, EmitterOK
  <1>1. ~Returned /\ ~Returned'
    BY DEF RunStep, StepNode, StepSpecialist, OnStartModel, OnTextChunk,
           NoText, OnError, OnCallChunk, OnStartTool,
           OnEndTool, OnErrorInterrupt, InterruptUnseen, SpecialistEnds,
           HostCalls, StartSummarizer, RunEnds, Outcomes
  <1>2. ASSUME NEW e \in Event, Emit(e), ~sentInterrupt, ~sentInterrupt',
               e.type \notin {"interrupt", "done", "error"}
        PROVE  TalkStep
    BY <1>2 DEF TalkStep, Emit
  <1>3. ASSUME NEW n \in Nodes, OnStartModel(n) PROVE SilentStep \/ TalkStep
    <2>1. Simple("thinking") \in Event /\ Simple("thinking").type = "thinking"
      BY EventKinds
    <2>2. QED
      BY <1>2, <1>3, <2>1 DEF OnStartModel, SilentStep
  <1>4. ASSUME NEW n \in Nodes, OnTextChunk(n) PROVE SilentStep \/ TalkStep
    <2>1. PICK last \in BOOLEAN :
             IF sentInterrupt THEN UNCHANGED <<sentAnswer, events>>
             ELSE /\ sentAnswer' = TRUE
                  /\ Emit([type |-> "answer", of |-> n,
                           final |-> last /\ (n \in Specialists => team = {n})])
      BY <1>4 DEF OnTextChunk
    <2>2. CASE ~sentInterrupt
      <3> DEFINE e == [type |-> "answer", of |-> n,
                       final |-> last /\ (n \in Specialists => team = {n})]
      <3>1. e \in Event /\ e.type = "answer"
        BY EventKinds
      <3>2. Emit(e) /\ ~sentInterrupt
        BY <2>1, <2>2
      <3> HIDE DEF e
      <3>3. QED
        BY <1>2, <1>4, <3>1, <3>2 DEF OnTextChunk
    <2>3. CASE sentInterrupt
      BY <1>4, <2>1, <2>3 DEF OnTextChunk, SilentStep
    <2>4. QED
      BY <2>2, <2>3
  <1>6. ASSUME NEW s \in Specialists, OnStartTool(s)
        PROVE  SilentStep \/ TalkStep
    <2>1. /\ About("tool_call", using[s]) \in Event
          /\ About("tool_call", using[s]).type = "tool_call"
      BY <1>0, <1>6, EventKinds DEF OnStartTool
    <2>2. QED
      BY <1>2, <1>6, <2>1 DEF OnStartTool, SilentStep
  <1>7. ASSUME NEW s \in Specialists, OnEndTool(s)
        PROVE  SilentStep \/ TalkStep
    <2>1. /\ About("tool_result", using[s]) \in Event
          /\ About("tool_result", using[s]).type = "tool_result"
      BY <1>0, <1>7, EventKinds DEF OnEndTool
    <2>2. QED
      BY <1>2, <1>7, <2>1 DEF OnEndTool, SilentStep
  <1>8. ASSUME NEW s \in Specialists, OnErrorInterrupt(s)
        PROVE  SilentStep \/ InterruptStep
    BY <1>0, <1>8 DEF OnErrorInterrupt, SilentStep, InterruptStep, Writes
  <1>9. ASSUME NEW s \in Specialists,
               \/ InterruptUnseen(s) \/ SpecialistEnds(s)
               \/ \E t \in Tools : OnCallChunk(s, t)
        PROVE  SilentStep
    BY <1>9 DEF InterruptUnseen, SpecialistEnds, OnCallChunk, SilentStep
  <1>10. ASSUME NEW n \in Nodes, NoText(n) \/ OnError(n) PROVE SilentStep
    BY <1>10 DEF NoText, OnError, SilentStep
  <1>11. CASE HostCalls \/ StartSummarizer \/ \E o \in Outcomes : RunEnds(o)
    BY <1>11 DEF HostCalls, StartSummarizer, RunEnds, SilentStep
  <1>12. QED
    BY <1>1, <1>3, <1>4, <1>6, <1>7, <1>8, <1>9, <1>10, <1>11
       DEF RunStep, StepNode, StepSpecialist

\* What the handlers write when they return: nothing, if the end has been
\* announced; an interrupt or an error, and the end; or the end after the final
\* message, of a run that was not interrupted.
Closing ==
    \/ sentInterrupt /\ events' = events
    \/ \E d \in {"interrupt", "error"} : Writes(<<Simple(d), Simple("done")>>)
    \/ ~raised /\ ~sentInterrupt /\ events' = Append(events, Simple("done"))
    \/ /\ ~raised /\ ~sentInterrupt
       /\ \E e \in Event : e.type = "answer" /\ Writes(<<e, Simple("done")>>)

LEMMA EndShapes ==
    ASSUME TypeOK, TeamInv, End
    PROVE  /\ ~Returned /\ Returned' /\ UNCHANGED <<sentInterrupt, raised>>
           /\ Closing
  <1> USE DEF run, flags, Returned
  <1>1. /\ ~Returned /\ Returned' /\ UNCHANGED <<sentInterrupt, raised>>
    BY DEF End, StreamInterrupted, StreamFailed, EndedByCallback, Received,
           RecvInterrupted, RecvFailed, EndedWithIntent, Ended, Return
  <1>2. events \in Seq(Event) /\ Simple("done") \in Event
    BY EventKinds DEF TypeOK, EmitterOK
  <1>3. CASE EndedByCallback
    BY <1>1, <1>2, <1>3 DEF EndedByCallback, Return, Closing
  <1>4. ASSUME NEW d \in {"interrupt", "error"},
               Return(<<Simple(d), Simple("done")>>)
        PROVE  Closing
    BY <1>4 DEF Return, Closing, Writes
  <1>5. ASSUME NEW n \in Nodes, Ended(n) PROVE Closing
    <2>1. ~raised /\ ~sentInterrupt
      BY <1>5, InterruptedHasNoFinal DEF Ended
    <2>2. CASE ~sentAnswer /\ spoke[n]
      <3> DEFINE e == [type |-> "answer", of |-> n, final |-> TRUE]
      <3>1. e \in Event /\ e.type = "answer"
        BY EventKinds
      <3>2. Return(<<e>> \o <<Simple("done")>>)
        BY <1>5, <2>2 DEF Ended, Fallback
      <3> HIDE DEF e
      <3>3. Writes(<<e, Simple("done")>>)
        BY <1>2, <3>1, <3>2 DEF Return, Writes
      <3>4. QED
        BY <2>1, <3>1, <3>3 DEF Closing
    <2>3. CASE ~(~sentAnswer /\ spoke[n])
      <3>1. Return(<< >> \o <<Simple("done")>>)
        BY <1>5, <2>3 DEF Ended, Fallback
      <3>2. events' = Append(events, Simple("done"))
        BY <1>2, <3>1 DEF Return
      <3>3. QED
        BY <2>1, <3>2 DEF Closing
    <2>4. QED
      BY <2>2, <2>3
  <1>6. QED
    BY <1>1, <1>3, <1>4, <1>5
       DEF End, StreamInterrupted, StreamFailed, RecvInterrupted, RecvFailed,
           EndedWithIntent

LEMMA QuietKept ==
    ASSUME TypeOK, TeamInv, QuietInv, [Next]_vars PROVE QuietInv'
  <1>0. events \in Seq(Event) /\ sentInterrupt \in BOOLEAN
    BY DEF TypeOK, EmitterOK
  <1>1. CASE RunStep
    <2>1. ~Returned /\ ~Returned'
      BY <1>1, RunStepShapes
    <2>2. CASE SilentStep
      BY <2>1, <2>2 DEF SilentStep, QuietInv, Announced, Quiet, Last
    <2>3. CASE TalkStep
      <3>1. PICK e \in Event : /\ e.type \notin {"interrupt", "done", "error"}
                               /\ events' = Append(events, e)
        BY <2>3 DEF TalkStep
      <3>2. Quiet(Len(events)) /\ ~sentInterrupt'
        BY <2>1, <2>3 DEF TalkStep, QuietInv
      <3>3. /\ Len(events) \in Nat /\ Len(events') = Len(events) + 1
            /\ \A i \in 1..Len(events) : events'[i] = events[i]
            /\ events'[Len(events) + 1] = e
        BY <1>0, <3>1, WrittenOne
      <3>4. Quiet(Len(events))'
        BY <3>1, <3>2, <3>3 DEF Quiet
      <3>5. QED
        BY <3>2, <3>4 DEF QuietInv
    <2>4. CASE InterruptStep
      <3>1. /\ Simple("interrupt") \in Event /\ Simple("done") \in Event
            /\ Simple("interrupt").type = "interrupt"
            /\ Simple("done").type = "done"
        BY EventKinds
      <3>2. Quiet(Len(events)) /\ sentInterrupt'
        BY <2>1, <2>4 DEF InterruptStep, QuietInv
      <3>3. /\ Len(events) \in Nat /\ Len(events') = Len(events) + 2
            /\ \A i \in 1..Len(events) : events'[i] = events[i]
            /\ events'[Len(events) + 1] = Simple("interrupt")
            /\ events'[Len(events) + 2] = Simple("done")
        BY <1>0, <2>4, <3>1, WrittenTwo DEF InterruptStep
      <3>4. Announced'
        BY <3>1, <3>2, <3>3 DEF Announced, Quiet, Last
      <3>5. QED
        BY <3>2, <3>4 DEF QuietInv
    <2>5. QED
      BY <1>1, <2>2, <2>3, <2>4, RunStepShapes
  <1>2. CASE End
    BY <1>2, EndShapes DEF QuietInv
  <1>3. CASE UNCHANGED vars
    BY <1>3 DEF vars, flags, QuietInv, Announced, Quiet, Last, Returned
  <1>4. QED
    BY <1>1, <1>2, <1>3 DEF Next

\* Before the request returns, the stream may stop where it stands.
LEMMA QuietEndsOnce ==
    TypeOK /\ QuietInv /\ ~Returned => EndsOnce
  <1> SUFFICES ASSUME TypeOK, QuietInv, ~Returned PROVE EndsOnce
    OBVIOUS
  <1>0. Len(events) \in Nat
    BY DEF TypeOK, EmitterOK
  <1>1. CASE sentInterrupt
    BY <1>0, <1>1 DEF QuietInv, Announced, Quiet, Last, EndsOnce
  <1>2. CASE ~sentInterrupt
    BY <1>0, <1>2 DEF QuietInv, Quiet, EndsOnce
  <1>3. QED
    BY <1>1, <1>2

LEMMA ClosedOnce ==
    ASSUME TypeOK, TeamInv, QuietInv, End PROVE EndsOnce'
  <1> DEFINE m == Len(events)
  <1>0. events \in Seq(Event) /\ m \in Nat
    BY DEF TypeOK, EmitterOK
  <1>1. /\ ~Returned /\ Returned' /\ UNCHANGED <<sentInterrupt, raised>>
        /\ Closing
    BY EndShapes
  <1>2. IF sentInterrupt THEN Announced ELSE Quiet(m)
    BY <1>1 DEF QuietInv
  <1>3. \A d \in {"interrupt", "error", "done"} :
           Simple(d) \in Event /\ Simple(d).type = d
    BY EventKinds
  <1>4. CASE sentInterrupt /\ events' = events
    <2>0. /\ m \in Nat \ {0, 1} /\ Last = "done"
          /\ events[m - 1].type = "interrupt"
      BY <1>2, <1>4 DEF Announced
    <2>1. m - 1 \in Positions("interrupt") /\ m # 0
      <3>1. m # 0 /\ m - 1 \in 1..m
        <4> HIDE DEF m
        <4>1. QED
          BY <2>0
      <3>2. QED
        BY <2>0, <3>1 DEF Positions
    <2>2. /\ \A i \in 1..(m - 2) : events[i].type \notin {"interrupt", "done"}
          /\ events[m].type = "done"
      BY <1>0, <1>2, <1>4 DEF Announced, Quiet, Last
    <2>3. ASSUME NEW i \in 1..m, NEW j \in 1..m, i < j
          PROVE  /\ events[i].type \in {"interrupt", "done"} => j = m
                 /\ ~(events[i].type = "done" /\ events[j].type = "done")
      <3>1. i \in 1..(m - 2) \/ (i = m - 1 /\ j = m)
        <4> HIDE DEF m
        <4>1. QED
          BY <1>0, <2>3
      <3>2. QED
        BY <2>0, <2>2, <3>1
    <2>4. /\ events' # << >> /\ Last' = "done" /\ Len(events') = m
          /\ Positions("interrupt")' # {}
      BY <1>0, <1>4, <2>0, <2>1 DEF Last, Positions
    <2>5. QED
      BY <1>1, <1>4, <2>2, <2>3, <2>4 DEF EndsOnce
  <1>5. ASSUME NEW d \in {"interrupt", "error"},
               Writes(<<Simple(d), Simple("done")>>)
        PROVE  EndsOnce'
    <2>1. /\ events' \in Seq(Event) /\ Len(events') = m + 2
          /\ \A i \in 1..m : events'[i] = events[i]
          /\ events'[m + 1].type = d /\ events'[m + 2].type = "done"
      BY <1>0, <1>3, <1>5, WrittenTwo
    <2>2. /\ events' # << >> /\ Last' = "done"
          /\ m + 1 \in Positions(d)'
      BY <1>0, <2>1 DEF Last, Positions
    <2>3. ASSUME NEW i \in 1..(m + 2), NEW j \in 1..(m + 2), i < j
          PROVE  /\ events'[i].type \in {"interrupt", "done"}
                       => events'[j].type \in {"interrupt", "done", "error"}
                 /\ events'[i].type = "done" /\ events'[j].type = "done"
                       => sentInterrupt /\ j = m + 2
      <3>1. CASE sentInterrupt
        <4>1. /\ m \in Nat \ {0, 1}
              /\ \A k \in 1..(m - 2) :
                     events'[k].type \notin {"interrupt", "done"}
              /\ events'[m - 1].type = "interrupt" /\ events'[m].type = "done"
          <5>1. /\ m \in Nat \ {0, 1}
                /\ \A k \in 1..(m - 2) :
                       events[k].type \notin {"interrupt", "done"}
                /\ events[m - 1].type = "interrupt" /\ events[m].type = "done"
            BY <1>2, <3>1 DEF Announced, Quiet, Last
          <5>2. \A k \in 1..m : events'[k] = events[k]
            BY <2>1
          <5> HIDE DEF m
          <5>3. /\ m - 1 \in 1..m /\ m \in 1..m
                /\ \A k \in 1..(m - 2) : k \in 1..m
            BY <5>1
          <5>4. QED
            BY <5>1, <5>2, <5>3
        <4> HIDE DEF m
        <4>2. i \in 1..(m - 2) \/ i \in {m - 1, m, m + 1}
          <5>1. m \in Nat \ {0, 1}
            BY <4>1
          <5>2. i \in 1..(m + 1)
            BY <2>3, <5>1
          <5>3. QED
            BY <5>1, <5>2
        <4>4. CASE i \in 1..(m - 2)
          BY <4>1, <4>4
        <4>5. CASE i = m - 1
          <5>1. j \in {m, m + 1, m + 2}
            BY <2>3, <4>1, <4>5
          <5>2. events'[j].type \in {"done", d} /\ events'[i].type = "interrupt"
            BY <2>1, <4>1, <4>5, <5>1
          <5>3. QED
            BY <5>2
        <4>6. CASE i = m
          <5>1. j \in {m + 1, m + 2}
            BY <2>3, <4>1, <4>6
          <5>2. CASE j = m + 1
            BY <2>1, <5>2
          <5>3. CASE j = m + 2
            BY <2>1, <3>1, <5>3
          <5>4. QED
            BY <5>1, <5>2, <5>3
        <4>7. CASE i = m + 1
          <5>1. j = m + 2
            BY <2>3, <4>1, <4>7
          <5>2. QED
            BY <2>1, <4>7, <5>1
        <4>8. QED
          BY <4>2, <4>4, <4>5, <4>6, <4>7
      <3>2. CASE ~sentInterrupt
        BY <1>0, <1>2, <2>1, <2>3, <3>2 DEF Quiet
      <3>3. QED
        BY <3>1, <3>2
    <2>4. QED
      BY <1>1, <2>1, <2>2, <2>3 DEF EndsOnce
  <1>6. CASE /\ ~raised /\ ~sentInterrupt
             /\ events' = Append(events, Simple("done"))
    <2>1. /\ events' \in Seq(Event) /\ Len(events') = m + 1
          /\ \A i \in 1..m : events'[i] = events[i]
          /\ events'[m + 1].type = "done"
      BY <1>0, <1>3, <1>6, WrittenOne
    <2>2. events' # << >> /\ Last' = "done"
      BY <1>0, <2>1 DEF Last
    <2>3. QED
      BY <1>0, <1>1, <1>2, <1>6, <2>1, <2>2 DEF EndsOnce, Quiet
  <1>7. ASSUME NEW e \in Event, e.type = "answer", ~raised, ~sentInterrupt,
               Writes(<<e, Simple("done")>>)
        PROVE  EndsOnce'
    <2>1. /\ events' \in Seq(Event) /\ Len(events') = m + 2
          /\ \A i \in 1..m : events'[i] = events[i]
          /\ events'[m + 1].type = "answer" /\ events'[m + 2].type = "done"
      BY <1>0, <1>3, <1>7, WrittenTwo
    <2>2. events' # << >> /\ Last' = "done"
      BY <1>0, <2>1 DEF Last
    <2>3. QED
      BY <1>0, <1>1, <1>2, <1>7, <2>1, <2>2 DEF EndsOnce, Quiet
  <1>8. QED
    BY <1>1, <1>4, <1>5, <1>6, <1>7 DEF Closing

\* A request that has returned writes nothing more.
LEMMA ReturnedStays == TypeOK /\ TeamInv /\ Returned /\ Next => FALSE
  BY RunStepShapes, EndShapes DEF Next

StreamInv == TypeOK /\ TeamInv /\ QuietInv /\ EndsOnce

LEMMA StreamInductive == Init => StreamInv
  <1>1. ASSUME Init PROVE QuietInv /\ EndsOnce
    BY <1>1 DEF Init, QuietInv, Quiet, Returned, EndsOnce
  <1>2. QED
    BY <1>1, Initially, TeamInit DEF StreamInv

LEMMA StreamKept == StreamInv /\ [Next]_vars => StreamInv'
  <1> SUFFICES ASSUME StreamInv, [Next]_vars PROVE StreamInv'
    OBVIOUS
  <1>0. TypeOK /\ TeamInv /\ QuietInv /\ EndsOnce
    BY DEF StreamInv
  <1>1. TypeOK' /\ TeamInv' /\ QuietInv'
    BY <1>0, RunKept, EmitterKept, TeamKept, QuietKept DEF TypeOK
  <1>2. EndsOnce'
    <2>1. CASE RunStep
      <3>1. ~Returned'
        BY <1>0, <2>1, RunStepShapes
      <3>2. TypeOK' /\ QuietInv' /\ ~Returned' => EndsOnce'
        BY QuietEndsOnce, PTL
      <3>3. QED
        BY <1>1, <3>1, <3>2
    <2>2. CASE End
      BY <1>0, <2>2, ClosedOnce
    <2>3. CASE UNCHANGED vars
      BY <1>0, <2>3 DEF vars, run, flags, EndsOnce, Last, Positions, Returned
    <2>4. QED
      BY <2>1, <2>2, <2>3 DEF Next
  <1>3. QED
    BY <1>1, <1>2 DEF StreamInv

\* However the agent run ends, and with specialists that still run beside the
\* one that was interrupted, the client reads one end of the stream, the last
\* thing written but for an interrupt that is announced twice.
THEOREM EndsOnceAlways == Spec => []EndsOnce
  <1>1. StreamInv => EndsOnce
    BY DEF StreamInv
  <1>2. QED
    BY <1>1, StreamInductive, StreamKept, PTL DEF Spec

-----------------------------------------------------------------------------
(* Results follow their calls.                                             *)

\* With ids no tool name is ever marked, so that every start is shown, unless
\* an interrupt has been announced.
Shown(t) == \E j \in Positions("tool_call") : events[j].of = t

CallInv ==
    callIds =>
        /\ emittedCalls = {}
        /\ \A s \in Specialists :
              at[s] = "working" /\ handler = "run" /\ ~sentInterrupt
                  => Shown(using[s])

\* An action that writes no result, or one whose call has been shown, keeps
\* the results after their calls.
LEMMA ResultsKept ==
    ASSUME TypeOK, ResultsFollowCalls, NEW e \in Event, Emit(e),
           callIds' = callIds,
           callIds => (e.type = "tool_result" => Shown(e.of))
    PROVE  /\ ResultsFollowCalls'
           /\ \A t : Shown(t) => Shown(t)'
           /\ e.type = "tool_call" => Shown(e.of)'
  <1>1. /\ Len(events) \in Nat /\ Len(events') = Len(events) + 1
        /\ \A i \in 1..Len(events) : events'[i] = events[i]
        /\ events'[Len(events) + 1] = e
    BY WrittenOne DEF TypeOK, EmitterOK, Emit
  <1>2. 1..Len(events') = 1..Len(events) \union {Len(events) + 1}
    BY <1>1
  <1>3. \A t : Shown(t) => Shown(t)'
    BY <1>1, <1>2 DEF Shown, Positions
  <1>4. e.type = "tool_call" => Shown(e.of)'
    BY <1>1, <1>2 DEF Shown, Positions
  <1>5. ASSUME callIds, NEW i \in Positions("tool_result")'
        PROVE  \E j \in Positions("tool_call")' :
                  j < i /\ events'[j].of = events'[i].of
    <2>1. CASE i = Len(events) + 1
      <3>1. PICK j \in Positions("tool_call") : events[j].of = e.of
        BY <1>1, <1>2, <1>5, <2>1 DEF Shown, Positions
      <3>2. QED
        BY <1>1, <1>2, <2>1, <3>1 DEF Positions
    <2>2. CASE i \in 1..Len(events)
      <3>1. i \in Positions("tool_result")
        BY <1>1, <1>5, <2>2 DEF Positions
      <3>2. PICK j \in Positions("tool_call") :
                    j < i /\ events[j].of = events[i].of
        BY <1>5, <3>1 DEF ResultsFollowCalls
      <3>3. QED
        BY <1>1, <1>2, <2>2, <3>2 DEF Positions
    <2>3. QED
      BY <1>2, <1>5, <2>1, <2>2 DEF Positions
  <1>6. QED
    BY <1>3, <1>4, <1>5 DEF ResultsFollowCalls

\* What the interrupt and the handlers write contains neither.
LEMMA ResultsKeptTwo ==
    ASSUME TypeOK, ResultsFollowCalls, NEW d \in Event, NEW e \in Event,
           Writes(<<d, e>>), callIds' = callIds,
           d.type # "tool_result", e.type # "tool_result"
    PROVE  ResultsFollowCalls'
  <1>1. /\ Len(events) \in Nat /\ Len(events') = Len(events) + 2
        /\ \A i \in 1..Len(events) : events'[i] = events[i]
        /\ events'[Len(events) + 1] = d /\ events'[Len(events) + 2] = e
    BY WrittenTwo DEF TypeOK, EmitterOK
  <1>2. \A i : i \in 1..Len(events') <=>
          i \in 1..Len(events) \/ i = Len(events) + 1 \/ i = Len(events) + 2
    BY <1>1
  <1>3. ASSUME callIds, NEW i \in Positions("tool_result")'
        PROVE  \E j \in Positions("tool_call")' :
                  j < i /\ events'[j].of = events'[i].of
    <2>1. i \in Positions("tool_result")
      BY <1>1, <1>2, <1>3 DEF Positions
    <2>2. PICK j \in Positions("tool_call") :
                  j < i /\ events[j].of = events[i].of
      BY <1>3, <2>1 DEF ResultsFollowCalls
    <2>3. QED
      BY <1>1, <1>2, <2>1, <2>2 DEF Positions
  <1>4. QED
    BY <1>3 DEF ResultsFollowCalls

LEMMA CallsKept ==
    ASSUME StreamInv, CallInv, ResultsFollowCalls, [Next]_vars
    PROVE  CallInv' /\ ResultsFollowCalls'
  <1> USE EventAssumption DEF StepOf, request, flags
  <1>0. /\ TypeOK /\ TeamInv /\ at \in [Nodes -> Step]
        /\ using \in [Specialists -> Tools \union {NoTool}]
        /\ Specialists \subseteq Nodes /\ sentInterrupt \in BOOLEAN
        /\ \A s \in Specialists : at[s] \in {"tool", "working"} => using[s] \in Tools
    BY DEF StreamInv, TypeOK, RunOK, EmitterOK, Nodes
  \* A step that starts no tool: nobody else comes to be working.
  <1>1. ASSUME UNCHANGED <<callIds, emittedCalls, sentInterrupt>>,
               handler' = "run" => handler = "run",
               \A t : Shown(t) => Shown(t)',
               \A s \in Specialists : at'[s] = "working" =>
                  at[s] = "working" /\ using'[s] = using[s]
        PROVE  CallInv'
    BY <1>1 DEF CallInv
  <1>2. ASSUME events' = events, callIds' = callIds
        PROVE  ResultsFollowCalls' /\ \A t : Shown(t) => Shown(t)'
    BY <1>2 DEF ResultsFollowCalls, Positions, Shown
  <1>3. ASSUME NEW n \in Nodes, OnStartModel(n) PROVE CallInv' /\ ResultsFollowCalls'
    <2>1. \A s \in Specialists : at'[s] = "working" =>
             at[s] = "working" /\ using'[s] = using[s]
      BY <1>0, <1>3 DEF OnStartModel, Goto
    <2>2. CASE events' = events
      BY <1>1, <1>2, <1>3, <2>1, <2>2 DEF OnStartModel
    <2>3. CASE Emit(Simple("thinking"))
      <3>1. Simple("thinking") \in Event /\ Simple("thinking").type = "thinking"
        BY EventKinds
      <3>2. ResultsFollowCalls' /\ \A t : Shown(t) => Shown(t)'
        BY <1>0, <1>3, <2>3, <3>1, ResultsKept DEF OnStartModel
      <3>3. QED
        BY <1>1, <1>3, <2>1, <3>2 DEF OnStartModel
    <2>4. QED
      BY <1>3, <2>2, <2>3 DEF OnStartModel
  <1>4. ASSUME NEW n \in Nodes, OnTextChunk(n) PROVE CallInv' /\ ResultsFollowCalls'
    <2>1. PICK last \in BOOLEAN :
             /\ Goto(n, IF last THEN "report" ELSE "calls")
             /\ IF sentInterrupt THEN UNCHANGED <<sentAnswer, events>>
                ELSE /\ sentAnswer' = TRUE
                     /\ Emit([type |-> "answer", of |-> n,
                              final |-> last /\ (n \in Specialists => team = {n})])
      BY <1>4 DEF OnTextChunk
    <2>2. \A s \in Specialists : at'[s] = "working" =>
             at[s] = "working" /\ using'[s] = using[s]
      BY <1>0, <1>4, <2>1 DEF OnTextChunk, Goto
    <2>3. CASE sentInterrupt
      BY <1>1, <1>2, <1>4, <2>1, <2>2, <2>3 DEF OnTextChunk
    <2>4. CASE ~sentInterrupt
      <3> DEFINE e == [type |-> "answer", of |-> n,
                       final |-> last /\ (n \in Specialists => team = {n})]
      <3>1. e \in Event /\ e.type = "answer"
        BY EventKinds
      <3>2. Emit(e)
        BY <2>1, <2>4
      <3> HIDE DEF e
      <3>3. ResultsFollowCalls' /\ \A t : Shown(t) => Shown(t)'
        BY <1>0, <1>4, <3>1, <3>2, ResultsKept DEF OnTextChunk
      <3>4. QED
        BY <1>1, <1>4, <2>2, <3>3 DEF OnTextChunk
    <2>5. QED
      BY <2>3, <2>4
  <1>6. ASSUME NEW s \in Specialists, OnStartTool(s)
        PROVE  CallInv' /\ ResultsFollowCalls'
    <2>1. using[s] \in Tools /\ at' = [at EXCEPT ![s] = "working"]
      BY <1>0, <1>6 DEF OnStartTool, Goto
    <2>2. CASE events' = events
      <3>1. callIds => sentInterrupt
        BY <1>6, <2>2, EventKinds, WrittenOne, <2>1
           DEF OnStartTool, CallInv, Emit, TypeOK, EmitterOK
      <3>2. ResultsFollowCalls'
        BY <1>2, <1>6, <2>2 DEF OnStartTool
      <3>3. CallInv'
        BY <1>6, <3>1 DEF OnStartTool, CallInv
      <3>4. QED
        BY <3>2, <3>3
    <2>3. CASE Emit(About("tool_call", using[s]))
      <3> DEFINE e == About("tool_call", using[s])
      <3>1. e \in Event /\ e.type = "tool_call" /\ e.of = using[s]
        BY <2>1 DEF Event, EventTypes, About
      <3>2. Emit(e)
        BY <2>3
      <3> HIDE DEF e
      <3>3. /\ ResultsFollowCalls' /\ \A t : Shown(t) => Shown(t)'
            /\ Shown(using[s])'
        BY <1>0, <1>6, <3>1, <3>2, ResultsKept DEF OnStartTool
      <3>4. \A r \in Specialists : at'[r] = "working" =>
                using'[r] = using[r] /\ (r = s \/ at[r] = "working")
        BY <1>0, <1>6, <2>1 DEF OnStartTool
      <3>5. CallInv'
        BY <1>6, <3>3, <3>4 DEF OnStartTool, CallInv
      <3>6. QED
        BY <3>3, <3>5
    <2>4. QED
      BY <1>6, <2>2, <2>3 DEF OnStartTool
  <1>7. ASSUME NEW s \in Specialists, OnEndTool(s)
        PROVE  CallInv' /\ ResultsFollowCalls'
    <2>1. using[s] \in Tools
      BY <1>0, <1>7 DEF OnEndTool
    <2>2. \A r \in Specialists : at'[r] = "working" =>
             at[r] = "working" /\ using'[r] = using[r]
      BY <1>0, <1>7 DEF OnEndTool, Goto
    <2>3. CASE sentInterrupt
      BY <1>1, <1>2, <1>7, <2>2, <2>3 DEF OnEndTool
    <2>4. CASE ~sentInterrupt
      <3> DEFINE e == About("tool_result", using[s])
      <3>1. e \in Event /\ e.type = "tool_result" /\ e.of = using[s]
        BY <2>1 DEF Event, EventTypes, About
      <3>2. Emit(e) /\ callIds' = callIds
        BY <1>7, <2>4 DEF OnEndTool
      <3> HIDE DEF e
      <3>3. callIds => Shown(e.of)
        BY <1>7, <2>4, <3>1 DEF OnEndTool, CallInv
      <3>4. ResultsFollowCalls' /\ \A t : Shown(t) => Shown(t)'
        BY <1>0, <3>1, <3>2, <3>3, ResultsKept
      <3>5. QED
        BY <1>1, <1>7, <2>2, <3>4 DEF OnEndTool
    <2>5. QED
      BY <2>3, <2>4
  <1>8. ASSUME NEW s \in Specialists, OnErrorInterrupt(s)
        PROVE  CallInv' /\ ResultsFollowCalls'
    <2>1. CallInv'
      BY <1>8 DEF OnErrorInterrupt, CallInv
    <2>2. CASE sentInterrupt
      BY <1>2, <1>8, <2>1, <2>2 DEF OnErrorInterrupt
    <2>3. CASE ~sentInterrupt
      <3>1. /\ Simple("interrupt") \in Event /\ Simple("done") \in Event
            /\ Simple("interrupt").type = "interrupt"
            /\ Simple("done").type = "done"
        BY EventKinds
      <3>2. Writes(<<Simple("interrupt"), Simple("done")>>)
        BY <1>8, <2>3 DEF OnErrorInterrupt, Writes
      <3>3. QED
        BY <1>0, <1>8, <2>1, <3>1, <3>2, ResultsKeptTwo DEF OnErrorInterrupt
    <2>4. QED
      BY <2>2, <2>3
  <1>9. ASSUME NEW s \in Specialists,
               \/ InterruptUnseen(s) \/ SpecialistEnds(s)
               \/ \E t \in Tools : OnCallChunk(s, t)
        PROVE  CallInv' /\ ResultsFollowCalls'
    <2>1. UNCHANGED <<callIds, events, sentInterrupt, handler>>
      BY <1>9 DEF InterruptUnseen, SpecialistEnds, OnCallChunk
    <2>2. callIds => emittedCalls' = emittedCalls
      BY <1>9 DEF InterruptUnseen, SpecialistEnds, OnCallChunk
    <2>3. \A r \in Specialists : at'[r] = "working" =>
             at[r] = "working" /\ using'[r] = using[r]
      BY <1>0, <1>9 DEF InterruptUnseen, SpecialistEnds, OnCallChunk, Goto
    <2>4. QED
      BY <1>2, <2>1, <2>2, <2>3 DEF CallInv
  <1>10. ASSUME NEW n \in Nodes, NoText(n) \/ OnError(n)
         PROVE  CallInv' /\ ResultsFollowCalls'
    <2>1. \A r \in Specialists : at'[r] = "working" =>
             at[r] = "working" /\ using'[r] = using[r]
      BY <1>0, <1>10 DEF NoText, OnError, Goto
    <2>2. QED
      BY <1>1, <1>2, <1>10, <2>1 DEF NoText, OnError
  <1>11. CASE HostCalls \/ StartSummarizer \/ \E o \in Outcomes : RunEnds(o)
    <2>1. \A r \in Specialists : at'[r] = "working" =>
             at[r] = "working" /\ using'[r] = using[r]
      BY <1>0, <1>11 DEF HostCalls, StartSummarizer, RunEnds, Goto, run, Nodes
    <2>2. /\ UNCHANGED <<callIds, emittedCalls, sentInterrupt, events>>
          /\ handler = "run"
      BY <1>11 DEF HostCalls, StartSummarizer, RunEnds
    <2>3. ResultsFollowCalls' /\ \A t : Shown(t) => Shown(t)'
      BY <1>2, <2>2
    <2>4. CallInv'
      BY <1>1, <2>1, <2>2, <2>3
    <2>5. QED
      BY <2>3, <2>4
  <1>12. CASE End
    <2>1. /\ UNCHANGED <<callIds, emittedCalls, sentInterrupt, at, using>>
      BY <1>12 DEF End, StreamInterrupted, StreamFailed, EndedByCallback, run,
                   RecvInterrupted, RecvFailed, EndedWithIntent, Ended, Return
    <2>2. /\ Simple("done") \in Event /\ Simple("done").type = "done"
          /\ \A d \in {"interrupt", "error"} :
                Simple(d) \in Event /\ Simple(d).type = d
      BY EventKinds
    <2>3. Closing
      BY <1>0, <1>12, EndShapes
    <2>4. ResultsFollowCalls'
      <3>1. CASE events' = events
        BY <1>2, <2>1, <3>1
      <3>2. ASSUME NEW d \in {"interrupt", "error"},
                   Writes(<<Simple(d), Simple("done")>>)
            PROVE  ResultsFollowCalls'
        BY <1>0, <2>1, <2>2, <3>2, ResultsKeptTwo
      <3>3. CASE events' = Append(events, Simple("done"))
        BY <1>0, <2>1, <2>2, <3>3, ResultsKept DEF Emit
      <3>4. ASSUME NEW e \in Event, e.type = "answer",
                   Writes(<<e, Simple("done")>>)
            PROVE  ResultsFollowCalls'
        BY <1>0, <2>1, <2>2, <3>4, ResultsKeptTwo
      <3>5. QED
        BY <2>3, <3>1, <3>2, <3>3, <3>4 DEF Closing
    <2>5. CallInv'
      BY <1>0, <1>12, <2>1, EndShapes DEF CallInv, Returned
    <2>6. QED
      BY <2>4, <2>5
  <1>13. CASE UNCHANGED vars
    BY <1>1, <1>2, <1>13 DEF vars, run
  <1>14. QED
    BY <1>3, <1>4, <1>6, <1>7, <1>8, <1>9, <1>10, <1>11, <1>12, <1>13
       DEF Next, RunStep, StepNode, StepSpecialist

LEMMA CallInit == Init => CallInv /\ ResultsFollowCalls
  BY EventAssumption
     DEF Init, CallInv, ResultsFollowCalls, Positions, Nodes

\* With ids, a client that has been shown the result of a tool has been shown
\* its call before, whatever else runs.
THEOREM ResultsFollowCallsAlways == Spec => []ResultsFollowCalls
  <1> DEFINE Inv == StreamInv /\ CallInv /\ ResultsFollowCalls
  <1>1. Init => Inv
    BY StreamInductive, CallInit
  <1>2. Inv /\ [Next]_vars => Inv'
    BY StreamKept, CallsKept
  <1>3. QED
    BY <1>1, <1>2, PTL DEF Spec

-----------------------------------------------------------------------------
(* The final message is shown, once, and last.                             *)

Finals == {i \in Positions("answer") : events[i].final}
Outer == {"host", "summarizer"}

\* Node n has said the last word of the run: nobody has a text to come.
LastWord(n) ==
    \/ n \in Outer /\ at[n] = "report"
    \/ team = {n} /\ at[n] \in {"report", "over", "failed"}

\* A final message that is shown is the last answer, its node has said the last
\* word; and if that word was a text, it is shown.
AnswerInv ==
    /\ \A i \in Finals, j \in Positions("answer") : j <= i
    /\ Finals # {} => \E n \in Nodes : LastWord(n)
    /\ \A n \in Nodes : LastWord(n) /\ at[n] # "failed" /\ spoke[n] => Finals # {}

\* A node that is about to say something finds that nobody has said the last
\* word, and no interrupt announced if it is the one to say it.
LEMMA NoLastWordYet ==
    ASSUME TypeOK, TeamInv, NEW n \in Nodes, at[n] = "text"
    PROVE  /\ \A m \in Nodes : ~LastWord(m)
           /\ n \in Outer \/ team = {n} => ~sentInterrupt
  <1>0. /\ Nodes = Specialists \union Outer
        /\ \A x \in Outer : x \notin Specialists
        /\ team \subseteq Specialists /\ (sentInterrupt => raised)
    BY EventAssumption DEF TypeOK, RunOK, EmitterOK, Nodes, Outer
  <1>1. CASE n = "host"
    <2>1. team = {} /\ \A s \in Specialists : at[s] = "idle"
      BY <1>1 DEF TeamInv
    <2>2. at["summarizer"] = "idle"
      BY <2>1 DEF TeamInv
    <2>3. QED
      BY <1>0, <1>1, <2>1, <2>2 DEF TeamInv, LastWord, Outer
  <1>2. CASE n = "summarizer"
    <2>1. /\ at["host"] = "waiting" /\ Cardinality(team) > 1
          /\ \A s \in Specialists : at[s] \in {"idle", "over"}
      BY <1>2 DEF TeamInv
    <2>2. ASSUME NEW m \in Nodes PROVE team # {m}
      <3>1. Cardinality({m}) = 1
        BY FS_Singleton
      <3>2. QED
        BY <2>1, <3>1
    <2>3. QED
      BY <1>0, <1>2, <2>1, <2>2 DEF TeamInv, LastWord, Outer
  <1>3. CASE n \in Specialists
    <2>1. /\ n \in team /\ at["host"] = "waiting"
          /\ at["summarizer"] = "idle"
      BY <1>3 DEF TeamInv
    <2>2. \A m \in Nodes : ~LastWord(m)
      BY <2>1 DEF LastWord, Outer
    <2>3. team = {n} => ~raised
      BY DEF TeamInv
    <2>4. QED
      BY <1>0, <1>3, <2>2, <2>3
  <1>4. QED
    BY <1>0, <1>1, <1>2, <1>3 DEF Outer

\* No answer is written, and nobody says a last word that is a text.
LEMMA AnswersKept ==
    ASSUME AnswerInv,
           Positions("answer")' = Positions("answer"),
           \A i \in Positions("answer") : events'[i] = events[i],
           \A n \in Nodes : LastWord(n) => LastWord(n)',
           \A n \in Nodes : LastWord(n)' /\ at'[n] # "failed" /\ spoke'[n]
               => LastWord(n) /\ at[n] # "failed" /\ spoke[n]
    PROVE  AnswerInv'
  <1>1. Finals' = Finals
    BY DEF Finals
  <1>2. QED
    BY <1>1 DEF AnswerInv

LEMMA TextKept ==
    ASSUME TypeOK, TeamInv, AnswerInv, NEW n \in Nodes, OnTextChunk(n)
    PROVE  AnswerInv'
  <1>0. /\ at \in [Nodes -> Step] /\ spoke \in [Nodes -> BOOLEAN]
        /\ events \in Seq(Event)
        /\ Nodes = Specialists \union Outer
        /\ \A x \in Outer : x \notin Specialists
        /\ team \subseteq Specialists
    BY EventAssumption DEF TypeOK, RunOK, EmitterOK, Nodes, Outer
  <1>1. PICK last \in BOOLEAN :
           /\ at' = [at EXCEPT ![n] = IF last THEN "report" ELSE "calls"]
           /\ spoke' = [spoke EXCEPT ![n] = last]
           /\ IF sentInterrupt THEN events' = events
              ELSE Emit([type |-> "answer", of |-> n,
                         final |-> last /\ (n \in Specialists => team = {n})])
    BY DEF OnTextChunk, Goto
  <1>2. at[n] = "text" /\ team' = team
    BY DEF OnTextChunk, StepOf
  <1>3. /\ \A m \in Nodes : ~LastWord(m)
        /\ n \in Outer \/ team = {n} => ~sentInterrupt
    BY <1>2, NoLastWordYet
  <1>4. Finals = {}
    BY <1>3 DEF AnswerInv
  \* It may be said by n now, and by nobody else.
  <1>5. ASSUME NEW m \in Nodes, LastWord(m)'
        PROVE  m = n /\ last /\ (n \in Specialists => team = {n})
    <2>1. m = n
      BY <1>0, <1>1, <1>2, <1>3, <1>5 DEF LastWord
    <2>2. QED
      BY <1>0, <1>1, <1>2, <1>5, <2>1 DEF LastWord
  <1>6. CASE sentInterrupt
    <2>1. \A m \in Nodes : ~LastWord(m)'
      BY <1>0, <1>3, <1>5, <1>6
    <2>2. Finals' = {}
      BY <1>1, <1>4, <1>6 DEF Finals, Positions
    <2>3. QED
      BY <2>1, <2>2 DEF AnswerInv
  <1>7. CASE ~sentInterrupt
    <2> DEFINE e == [type |-> "answer", of |-> n,
                     final |-> last /\ (n \in Specialists => team = {n})]
    <2>1. /\ e \in Event /\ e.type = "answer"
          /\ e.final = (last /\ (n \in Specialists => team = {n}))
      BY EventKinds
    <2>2. Emit(e)
      BY <1>1, <1>7
    <2> HIDE DEF e
    <2>3. /\ Len(events) \in Nat
          /\ \A i \in 1..Len(events) : events'[i] = events[i]
          /\ events'[Len(events) + 1] = e
          /\ Positions("answer")' = Positions("answer") \union {Len(events) + 1}
          /\ Positions("answer") \subseteq 1..Len(events)
      BY <1>0, <2>1, <2>2, WrittenOne DEF Emit, Positions
    <2>4. Finals' = IF e.final THEN {Len(events) + 1} ELSE {}
      BY <1>4, <2>3 DEF Finals
    <2>5. \A i \in Finals', j \in Positions("answer")' : j <= i
      BY <2>3, <2>4
    <2>6. Finals' # {} => LastWord(n)'
      BY <1>0, <1>1, <1>2, <2>1, <2>4 DEF LastWord
    <2>7. \A m \in Nodes : LastWord(m)' => Finals' # {}
      BY <1>5, <2>1, <2>4
    <2>8. QED
      BY <2>5, <2>6, <2>7 DEF AnswerInv
  <1>8. QED
    BY <1>6, <1>7

\* Every other step of the run leaves the answers alone.
LEMMA RunAnswers ==
    ASSUME StreamInv, AnswerInv, RunStep
    PROVE  AnswerInv'
  <1> USE DEF StepOf, flags
  <1>0. /\ TypeOK /\ TeamInv /\ at \in [Nodes -> Step]
        /\ spoke \in [Nodes -> BOOLEAN] /\ events \in Seq(Event)
        /\ Nodes = Specialists \union Outer
        /\ \A x \in Outer : x \notin Specialists
        /\ team \subseteq Specialists
        /\ \A s \in Specialists : at[s] \in {"tool", "working"} => using[s] \in Tools
    BY EventAssumption DEF StreamInv, TypeOK, RunOK, EmitterOK, Nodes, Outer
  \* A step that writes nothing, or something else.
  <1>1. ASSUME \/ events' = events
               \/ \E e \in Event : Emit(e) /\ e.type # "answer"
               \/ Writes(<<Simple("interrupt"), Simple("done")>>),
               \A n \in Nodes : LastWord(n) => LastWord(n)',
               \A n \in Nodes : LastWord(n)' /\ at'[n] # "failed" /\ spoke'[n]
                   => LastWord(n) /\ at[n] # "failed" /\ spoke[n]
        PROVE  AnswerInv'
    <2>1. CASE events' = events
      BY <1>1, <2>1, AnswersKept DEF Positions
    <2>2. ASSUME NEW e \in Event, Emit(e), e.type # "answer"
          PROVE  AnswerInv'
      <3>1. /\ Positions("answer")' = Positions("answer")
            /\ \A i \in Positions("answer") : events'[i] = events[i]
        BY <1>0, <2>2, WrittenOne DEF Emit, Positions
      <3>2. QED
        BY <1>1, <3>1, AnswersKept
    <2>3. CASE Writes(<<Simple("interrupt"), Simple("done")>>)
      <3>1. /\ Simple("interrupt") \in Event /\ Simple("done") \in Event
            /\ Simple("interrupt").type = "interrupt"
            /\ Simple("done").type = "done"
        BY EventKinds
      <3>2. \A i \in 1..Len(events) : events'[i] = events[i]
        BY <1>0, <2>3, <3>1, WrittenTwo
      <3>3. Positions("answer")' = Positions("answer")
        BY <1>0, <2>3, <3>1, NotedTwo DEF TypeOK
      <3>4. \A i \in Positions("answer") : events'[i] = events[i]
        BY <3>2 DEF Positions
      <3>5. QED
        BY <1>1, <3>3, <3>4, AnswersKept
    <2>4. QED
      BY <1>1, <2>1, <2>2, <2>3
  \* One node goes on, and not to the end of what it has to say.
  <1>2. ASSUME NEW n \in Nodes, NEW step, at' = [at EXCEPT ![n] = step],
               team' = team, \A m \in Nodes : m # n => spoke'[m] = spoke[m],
               at[n] \notin {"report", "over", "failed"},
               step \in {"report", "over"} => ~spoke'[n]
        PROVE  /\ \A m \in Nodes : LastWord(m) => LastWord(m)'
               /\ \A m \in Nodes : LastWord(m)' /\ at'[m] # "failed" /\ spoke'[m]
                      => LastWord(m) /\ at[m] # "failed" /\ spoke[m]
    BY <1>0, <1>2 DEF LastWord
  <1>3. \A t \in EventTypes \ {"answer"} :
           /\ Simple(t) \in Event /\ Simple(t).type # "answer"
           /\ \A x \in Specialists \union Tools :
                 About(t, x) \in Event /\ About(t, x).type # "answer"
    BY EventKinds
  <1>4. ASSUME NEW n \in Nodes, OnStartModel(n) PROVE AnswerInv'
    <2>1. /\ at[n] = "model" /\ at' = [at EXCEPT ![n] = "text"]
          /\ UNCHANGED <<team, spoke>>
          /\ events' = events \/ Emit(Simple("thinking"))
      BY <1>4 DEF OnStartModel, Goto
    <2>2. QED
      BY <1>1, <1>2, <1>3, <2>1 DEF EventTypes
  <1>5. ASSUME NEW n \in Nodes, NoText(n) PROVE AnswerInv'
    <2>1. PICK step \in Step : at' = [at EXCEPT ![n] = step]
      BY <1>5 DEF NoText, Goto, Step
    <2>2. /\ at[n] = "text" /\ spoke' = [spoke EXCEPT ![n] = FALSE]
          /\ UNCHANGED <<team, events>>
      BY <1>5 DEF NoText
    <2>3. ~spoke'[n] /\ \A m \in Nodes : m # n => spoke'[m] = spoke[m]
      BY <1>0, <2>2
    <2>4. QED
      BY <1>1, <1>2, <2>1, <2>2, <2>3
  <1>6. ASSUME NEW n \in Nodes, OnError(n) PROVE AnswerInv'
    <2>1. /\ at' = [at EXCEPT ![n] = "failed"]
          /\ UNCHANGED <<team, spoke, events>>
          /\ at[n] = "report" => n \in Specialists
      BY <1>6 DEF OnError, Goto, Running
    <2>2. QED
      BY <1>0, <1>1, <2>1 DEF LastWord
  <1>7. ASSUME NEW s \in Specialists, SpecialistEnds(s) PROVE AnswerInv'
    <2>1. /\ at[s] = "report" /\ at' = [at EXCEPT ![s] = "over"]
          /\ UNCHANGED <<team, spoke, events>>
      BY <1>7 DEF SpecialistEnds, Goto
    <2>2. QED
      BY <1>0, <1>1, <2>1 DEF LastWord
  <1>8. ASSUME NEW s \in Specialists, StepSpecialist(s), ~SpecialistEnds(s)
        PROVE  AnswerInv'
    <2>1. /\ UNCHANGED <<team, spoke>>
          /\ at[s] \in {"tool", "working", "calls"}
          /\ \E step \in {"tool", "working", "model", "failed"} :
                at' = [at EXCEPT ![s] = step]
      BY <1>8 DEF StepSpecialist, OnCallChunk, OnStartTool, OnEndTool,
         OnErrorInterrupt, InterruptUnseen, Goto
    <2>2. \/ events' = events
          \/ \E e \in Event : Emit(e) /\ e.type # "answer"
          \/ Writes(<<Simple("interrupt"), Simple("done")>>)
      <3>1. CASE OnStartTool(s) \/ OnEndTool(s)
        <4>1. using[s] \in Tools
          BY <1>0, <3>1 DEF OnStartTool, OnEndTool
        <4>2. \/ events' = events \/ Emit(About("tool_call", using[s]))
              \/ Emit(About("tool_result", using[s]))
          BY <3>1 DEF OnStartTool, OnEndTool
        <4>3. QED
          BY <1>3, <4>1, <4>2 DEF EventTypes
      <3>2. CASE OnErrorInterrupt(s)
        BY <3>2 DEF OnErrorInterrupt, Writes
      <3>3. CASE InterruptUnseen(s) \/ \E t \in Tools : OnCallChunk(s, t)
        BY <3>3 DEF InterruptUnseen, OnCallChunk
      <3>4. QED
        BY <1>8, <3>1, <3>2, <3>3 DEF StepSpecialist
    <2>3. s \in Nodes
      BY <1>0
    <2>4. QED
      BY <1>1, <1>2, <2>1, <2>2, <2>3
  <1>9. CASE HostCalls
    <2>1. at["host"] = "calls" /\ team = {} /\ UNCHANGED <<events, spoke>>
      BY <1>0, <1>9 DEF HostCalls, TeamInv
    <2>2. PICK S \in (SUBSET Specialists) \ {{}} :
             /\ team' = S
             /\ at' = [n \in Nodes |-> IF n = "host" THEN "waiting"
                                       ELSE IF n \in S THEN "model" ELSE at[n]]
      BY <1>9 DEF HostCalls
    <2>3. at["summarizer"] = "idle" /\ "summarizer" \in Nodes
      BY <1>0, <2>1 DEF TeamInv, Nodes
    <2>4. /\ \A n \in Nodes : at'[n] = IF n = "host" THEN "waiting"
                                       ELSE IF n \in S THEN "model" ELSE at[n]
          /\ "summarizer" \notin S
      BY <1>0, <2>2 DEF Outer
    <2>5. \A n \in Nodes : ~LastWord(n) /\ ~LastWord(n)'
      BY <1>0, <2>1, <2>2, <2>3, <2>4 DEF LastWord, Outer
    <2>6. QED
      BY <1>1, <2>1, <2>5
  <1>10. CASE StartSummarizer
    <2>1. /\ at["summarizer"] = "idle" /\ at' = [at EXCEPT !["summarizer"] = "model"]
          /\ UNCHANGED <<events, spoke, team>> /\ "summarizer" \in Nodes
      BY <1>10 DEF StartSummarizer, Goto, Nodes
    <2>2. QED
      BY <1>1, <1>2, <2>1
  <1>11. CASE \E o \in Outcomes : RunEnds(o)
    BY <1>1, <1>11 DEF RunEnds, run, LastWord
  <1>12. QED
    BY <1>0, <1>4, <1>5, <1>6, <1>7, <1>8, <1>9, <1>10, <1>11, TextKept
       DEF RunStep, StepNode

\* The handlers add no answer: if the final message is a text, it has been
\* shown, and sentAnswer says so.
LEMMA EndAnswers ==
    ASSUME StreamInv, AnswerInv, End
    PROVE  AnswerInv'
  <1> USE DEF run, flags
  <1>0. /\ TypeOK /\ TeamInv /\ EmitterOK /\ events \in Seq(Event)
        /\ Nodes = Specialists \union Outer
    BY DEF StreamInv, TypeOK, EmitterOK, Nodes, Outer
  <1>1. ~Returned
    BY <1>0, EndShapes
  <1>2. UNCHANGED <<at, team, spoke>>
    BY DEF End, StreamInterrupted, StreamFailed, EndedByCallback,
           RecvInterrupted, RecvFailed, EndedWithIntent, Ended, Return
  <1>3. ASSUME Positions("answer")' = Positions("answer"),
               \A i \in Positions("answer") : events'[i] = events[i]
        PROVE  AnswerInv'
    BY <1>2, <1>3, AnswersKept DEF LastWord
  <1>4. CASE events' = events
    BY <1>3, <1>4 DEF Positions
  <1>5. ASSUME NEW d \in {"interrupt", "error"},
               Return(<<Simple(d), Simple("done")>>)
        PROVE  AnswerInv'
    <2>1. /\ Simple(d) \in Event /\ Simple("done") \in Event
          /\ Simple(d).type = d /\ Simple("done").type = "done"
      BY EventKinds
    <2>2. Writes(<<Simple(d), Simple("done")>>)
      BY <1>5 DEF Return, Writes
    <2>3. \A i \in Positions("answer") : events'[i] = events[i]
      BY <1>0, <2>1, <2>2, WrittenTwo DEF Positions
    <2>4. Positions("answer")' = Positions("answer")
      BY <1>0, <2>1, <2>2, NotedTwo
    <2>5. QED
      BY <1>3, <2>3, <2>4
  <1>6. ASSUME NEW m \in Nodes, Ended(m) PROVE AnswerInv'
    <2>1. Simple("done") \in Event /\ Simple("done").type = "done"
      BY EventKinds
    <2>2. LastWord(m) /\ at[m] # "failed"
      BY <1>0, <1>6 DEF Ended, Final, LastWord
    <2>3. ~(~sentAnswer /\ spoke[m])
      <3>1. spoke[m] => Finals # {}
        BY <2>2 DEF AnswerInv
      <3>2. QED
        BY <1>0, <1>1, <3>1 DEF EmitterOK, Finals
    <2>4. Return(<< >> \o <<Simple("done")>>)
      BY <1>6, <2>3 DEF Ended, Fallback
    <2>5. events' = Append(events, Simple("done"))
      BY <1>0, <2>1, <2>4 DEF Return
    <2>6. /\ \A i \in 1..Len(events) : events'[i] = events[i]
          /\ Positions("answer")' = Positions("answer")
      BY <1>0, <2>1, <2>5, WrittenOne
    <2>7. QED
      BY <1>3, <2>6 DEF Positions
  <1>7. CASE EndedByCallback
    BY <1>0, <1>4, <1>7 DEF EndedByCallback, Return
  <1>8. QED
    BY <1>5, <1>6, <1>7
       DEF End, StreamInterrupted, StreamFailed, RecvInterrupted, RecvFailed,
           EndedWithIntent

LEMMA AnswerInit == Init => AnswerInv
  <1> SUFFICES ASSUME Init PROVE AnswerInv
    OBVIOUS
  <1>1. Positions("answer") = {} /\ Finals = {}
    BY DEF Init, Positions, Finals
  <1>2. \A n \in Nodes : ~LastWord(n)
    BY DEF Init, LastWord, Outer
  <1>3. QED
    BY <1>1, <1>2 DEF AnswerInv

\* However specialists run side by side and the request ends, a final message
\* with text reaches the client once, and no answer comes after it.
THEOREM AnswersShownAlways == Spec => []AnswersShown
  <1> DEFINE Inv == StreamInv /\ AnswerInv
  <1>1. Init => Inv
    BY StreamInductive, AnswerInit
  <1>2. Inv /\ [Next]_vars => Inv'
    <2> SUFFICES ASSUME StreamInv, AnswerInv, [Next]_vars PROVE AnswerInv'
      BY StreamKept
    <2>1. CASE UNCHANGED vars
      BY <2>1 DEF vars, run, AnswerInv, Finals, Positions, LastWord
    <2>2. QED
      BY <2>1, RunAnswers, EndAnswers DEF Next
  <1>3. Inv => AnswersShown
    <2> SUFFICES ASSUME TypeOK, AnswerInv PROVE AnswersShown
      BY DEF StreamInv
    <2>1. \A n \in Nodes : Final(n) => LastWord(n) /\ at[n] # "failed"
      BY DEF Final, LastWord, Nodes, Outer
    <2>2. QED
      BY <2>1 DEF AnswerInv, AnswersShown, Finals
  <1>4. QED
    BY <1>1, <1>2, <1>3, PTL DEF Spec

-----------------------------------------------------------------------------
(* The run comes to its end: it is never stuck, and its steps run out.     *)

\* The steps a node can still take at a step of its own, left tool calls to go.
NodeSteps(step, left) ==
    CASE step = "idle"    -> 5 * left + 8
      [] step = "model"   -> 5 * left + 7
      [] step = "text"    -> 5 * left + 6
      [] step = "calls"   -> 5 * left + 5
      [] step = "tool"    -> 5 * left + 4
      [] step = "working" -> 5 * left + 3
      [] step \in {"waiting", "report"} -> 1
      [] OTHER -> 0

Left(n) == IF n \in Specialists THEN MaxCalls - made[n] ELSE 0
StepsToCome(n) == NodeSteps(at[n], Left(n))

\* No node has more steps to come than before, and some node fewer.
Shrinks ==
    /\ \A n \in Nodes : StepsToCome(n)' <= StepsToCome(n)
    /\ \E n \in Nodes : StepsToCome(n)' < StepsToCome(n)

LeftOK == \A n \in Nodes : Left(n) \in Nat

LEMMA LeftIs == RunOK => LeftOK
  BY EventAssumption DEF RunOK, Left, LeftOK

LEMMA StepsAre ==
    ASSUME NEW left \in Nat PROVE \A step : NodeSteps(step, left) \in Nat
  BY DEF NodeSteps

\* Forward is down.
LEMMA StepsFall ==
    ASSUME NEW left \in Nat
    PROVE  /\ NodeSteps("model", left) < NodeSteps("idle", left)
           /\ NodeSteps("text", left) < NodeSteps("model", left)
           /\ NodeSteps("calls", left) < NodeSteps("text", left)
           /\ NodeSteps("report", left) < NodeSteps("text", left)
           /\ NodeSteps("waiting", left) < NodeSteps("calls", left)
           /\ NodeSteps("tool", left) < NodeSteps("calls", left)
           /\ NodeSteps("working", left) < NodeSteps("tool", left)
           /\ NodeSteps("over", left) < NodeSteps("report", left)
           /\ \A step \in {"model", "text", "calls", "tool", "working",
                           "report"} :
                 NodeSteps("failed", left) < NodeSteps(step, left)
           /\ left > 0 => NodeSteps("model", left - 1) < NodeSteps("working", left)
  BY DEF NodeSteps

\* One node takes a step, the others stay.
LEMMA OneNode ==
    ASSUME RunOK, RunOK', NEW n \in Nodes, NEW step, Goto(n, step),
           \A m \in Nodes \ {n} : Left(m)' = Left(m),
           NodeSteps(step, Left(n)') < NodeSteps(at[n], Left(n))
    PROVE  Shrinks
  <1>1. at'[n] = step /\ \A m \in Nodes \ {n} : at'[m] = at[m]
    BY DEF RunOK, Goto
  <1>2. \A m \in Nodes \ {n} : StepsToCome(m)' = StepsToCome(m)
    BY <1>1 DEF StepsToCome
  <1>3. StepsToCome(n)' < StepsToCome(n)
    BY <1>1 DEF StepsToCome
  <1>4. \A m \in Nodes : StepsToCome(m) \in Nat
    BY LeftIs, StepsAre DEF StepsToCome, LeftOK
  <1>5. StepsToCome(n)' \in Nat
    <2>1. RunOK' => LeftOK'
      BY LeftIs, PTL
    <2>2. QED
      BY <2>1, StepsAre DEF StepsToCome, LeftOK
  <1>6. QED
    BY <1>2, <1>3, <1>4, <1>5 DEF Shrinks

\* A step that calls no tool to its end.
LEMMA SameLeft ==
    ASSUME RunOK, RunOK', UNCHANGED made, NEW n \in Nodes, NEW step, Goto(n, step),
           \A left \in Nat : NodeSteps(step, left) < NodeSteps(at[n], left)
    PROVE  Shrinks
  <1>1. \A m \in Nodes : Left(m)' = Left(m) /\ Left(m) \in Nat
    BY LeftIs DEF Left, LeftOK
  <1>2. QED
    BY <1>1, OneNode

\* Every step of the run leaves it fewer steps.
LEMMA RunStepShrinks ==
    ASSUME TypeOK, RunOK', TeamInv, RunStep, handler' = "run"
    PROVE  Shrinks
  <1>0. RunOK /\ Specialists \subseteq Nodes /\ "host" \in Nodes /\ "summarizer" \in Nodes
    BY DEF TypeOK, Nodes
  <1>1. ASSUME NEW n \in Nodes, OnStartModel(n) \/ OnTextChunk(n) \/ NoText(n)
        PROVE  Shrinks
    <2>1. /\ UNCHANGED made
          /\ \/ at[n] = "model" /\ Goto(n, "text")
             \/ at[n] = "text" /\ (Goto(n, "report") \/ Goto(n, "calls"))
      BY <1>1 DEF OnStartModel, OnTextChunk, NoText, StepOf
    <2>2. \A left \in Nat :
             /\ NodeSteps("text", left) < NodeSteps("model", left)
             /\ NodeSteps("report", left) < NodeSteps("text", left)
             /\ NodeSteps("calls", left) < NodeSteps("text", left)
      BY StepsFall
    <2>3. QED
      BY <1>0, <2>1, <2>2, SameLeft
  <1>2. ASSUME NEW n \in Nodes, OnError(n) PROVE Shrinks
    <2>1. /\ UNCHANGED made /\ Goto(n, "failed")
          /\ at[n] \in {"model", "text", "calls", "tool", "working",
                       "report"}
      BY <1>0, <1>2 DEF OnError, Running, RunOK, Step
    <2>2. \A left \in Nat :
             \A step \in {"model", "text", "calls", "tool", "working",
                          "report"} :
                NodeSteps("failed", left) < NodeSteps(step, left)
      BY StepsFall
    <2>3. QED
      BY <1>0, <2>1, <2>2, SameLeft
  <1>3. ASSUME NEW s \in Specialists,
               \/ OnStartTool(s) \/ SpecialistEnds(s)
               \/ OnErrorInterrupt(s) \/ InterruptUnseen(s)
               \/ \E t \in Tools : OnCallChunk(s, t)
        PROVE  Shrinks
    <2>1. /\ UNCHANGED made
          /\ \/ at[s] = "tool" /\ Goto(s, "working")
             \/ at[s] = "report" /\ Goto(s, "over")
             \/ at[s] = "working" /\ Goto(s, "failed")
             \/ at[s] = "calls" /\ Goto(s, "tool")
      BY <1>3 DEF OnStartTool, SpecialistEnds,
                  OnErrorInterrupt, InterruptUnseen, OnCallChunk, StepOf
    <2>2. \A left \in Nat :
             /\ NodeSteps("working", left) < NodeSteps("tool", left)
             /\ NodeSteps("over", left) < NodeSteps("report", left)
             /\ NodeSteps("failed", left) < NodeSteps("working", left)
             /\ NodeSteps("tool", left) < NodeSteps("calls", left)
      BY StepsFall
    <2>3. QED
      BY <1>0, <2>1, <2>2, SameLeft
  <1>4. ASSUME NEW s \in Specialists, OnEndTool(s) PROVE Shrinks
    <2>1. at[s] = "working" /\ Goto(s, "model") /\ made' = [made EXCEPT ![s] = @ + 1]
      BY <1>4 DEF OnEndTool, StepOf
    <2>2. /\ Left(s) \in Nat /\ Left(s)' = Left(s) - 1 /\ Left(s)' \in Nat
          /\ \A m \in Nodes \ {s} : Left(m)' = Left(m)
      <3>1. /\ made \in [Specialists -> 0..MaxCalls] /\ MaxCalls \in Nat
            /\ made[s] < MaxCalls
        BY <1>0, <2>1, EventAssumption DEF RunOK
      <3>2. QED
        BY <2>1, <3>1 DEF Left
    <2>3. NodeSteps("model", Left(s)') < NodeSteps("working", Left(s))
      BY <2>2, StepsFall
    <2>4. QED
      BY <1>0, <2>1, <2>2, <2>3, OneNode
  <1>5. CASE HostCalls
    <2>1. /\ at["host"] = "calls" /\ at \in [Nodes -> Step] /\ UNCHANGED made
          /\ \A s \in Specialists : at[s] = "idle"
      BY <1>0, <1>5 DEF HostCalls, StepOf, RunOK, TeamInv
    <2>2. PICK S \in (SUBSET Specialists) \ {{}} :
             at' = [n \in Nodes |-> IF n = "host" THEN "waiting"
                                    ELSE IF n \in S THEN "model" ELSE at[n]]
      BY <1>5 DEF HostCalls
    <2>3. \A n \in Nodes : Left(n) \in Nat /\ Left(n)' = Left(n)
      BY <1>0, <2>1, LeftIs DEF Left, LeftOK
    <2>4. \A left \in Nat :
             /\ NodeSteps("model", left) < NodeSteps("idle", left)
             /\ NodeSteps("waiting", left) < NodeSteps("calls", left)
             /\ \A step : NodeSteps(step, left) \in Nat
      BY StepsFall, StepsAre
    <2>5. StepsToCome("host")' < StepsToCome("host")
      BY <1>0, <2>1, <2>2, <2>3, <2>4 DEF StepsToCome
    <2>6. ASSUME NEW n \in Nodes PROVE StepsToCome(n)' <= StepsToCome(n)
      <3>1. \/ n = "host"
            \/ at[n] = "idle" /\ at'[n] = "model"
            \/ at'[n] = at[n]
        BY <2>1, <2>2
      <3>2. StepsToCome(n) \in Nat /\ StepsToCome(n)' \in Nat
        BY <2>3, <2>4 DEF StepsToCome
      <3>3. CASE n = "host"
        BY <2>5, <3>2, <3>3
      <3>4. CASE at[n] = "idle" /\ at'[n] = "model"
        <4>1. StepsToCome(n)' < StepsToCome(n)
          BY <2>3, <2>4, <3>4 DEF StepsToCome
        <4>2. QED
          BY <3>2, <4>1
      <3>5. CASE at'[n] = at[n]
        <4>1. StepsToCome(n)' = StepsToCome(n)
          BY <2>3, <3>5 DEF StepsToCome
        <4>2. QED
          BY <3>2, <4>1
      <3>6. QED
        BY <3>1, <3>3, <3>4, <3>5
    <2>7. QED
      BY <1>0, <2>5, <2>6 DEF Shrinks
  <1>6. CASE StartSummarizer
    <2>1. at["summarizer"] = "idle" /\ Goto("summarizer", "model") /\ UNCHANGED made
      BY <1>6 DEF StartSummarizer, StepOf
    <2>2. \A left \in Nat : NodeSteps("model", left) < NodeSteps("idle", left)
      BY StepsFall
    <2>3. QED
      BY <1>0, <2>1, <2>2, SameLeft
  <1>7. CASE \E o \in Outcomes : RunEnds(o)
    BY <1>7 DEF RunEnds, Outcomes
  <1>8. QED
    BY <1>1, <1>2, <1>3, <1>4, <1>5, <1>6, <1>7 DEF RunStep, StepNode, StepSpecialist

\* The steps of a request.
GoesOn ==
    \/ handler = "run" /\ handler' = "run" /\ Shrinks
    \/ handler = "run" /\ handler' \in Outcomes /\ UNCHANGED <<at, made>>
    \/ handler \in Outcomes /\ Returned' /\ UNCHANGED <<at, made>>

\* A streamed request has finitely many steps, whoever is scheduled first:
\* while the run goes on every callback leaves some node fewer steps and none
\* more, although a specialist goes around its loop again and again; then the
\* run ends once, the handler returns once, and nothing follows.  (With this
\* and CanGoOnAlways, what is left of StreamEnds is that steps are scheduled.)
THEOREM StepsRunOut ==
    Spec => [][/\ \A n \in Nodes : StepsToCome(n) \in Nat
               /\ GoesOn]_vars
  <1>1. StreamInv /\ [Next]_vars
          => [/\ \A n \in Nodes : StepsToCome(n) \in Nat
              /\ GoesOn]_vars
    <2>1. SUFFICES ASSUME StreamInv, Next
                   PROVE  (\A n \in Nodes : StepsToCome(n) \in Nat) /\ GoesOn
      OBVIOUS
    <2>2. TypeOK /\ RunOK /\ TeamInv /\ RunOK'
      BY <2>1, RunKept DEF StreamInv, TypeOK
    <2>3. \A n \in Nodes : StepsToCome(n) \in Nat
      BY <2>2, LeftIs, StepsAre DEF StepsToCome, LeftOK
    <2>4. ASSUME RunStep PROVE GoesOn
      <3>1. CASE \E o \in Outcomes : RunEnds(o)
        BY <3>1 DEF RunEnds, run, GoesOn
      <3>2. CASE ~\E o \in Outcomes : RunEnds(o)
        <4>1. handler = "run" /\ handler' = "run"
          BY <2>4, <3>2 DEF RunStep, StepNode, StepSpecialist, OnStartModel,
             OnTextChunk, NoText, OnError, OnCallChunk,
             OnStartTool, OnEndTool, OnErrorInterrupt, InterruptUnseen,
             SpecialistEnds, HostCalls, StartSummarizer, StepOf
        <4>2. QED
          BY <2>2, <2>4, <4>1, RunStepShrinks DEF GoesOn
      <3>3. QED
        BY <3>1, <3>2
    <2>5. ASSUME End PROVE GoesOn
      <3>1. handler \in Outcomes /\ Returned' /\ UNCHANGED <<at, made>>
        BY <2>5 DEF End, StreamInterrupted, StreamFailed, EndedByCallback,
           Received, RecvInterrupted, RecvFailed, EndedWithIntent, Ended,
           Return, Returned, run, Outcomes
      <3>2. QED
        BY <3>1 DEF GoesOn
    <2>6. QED
      BY <2>1, <2>3, <2>4, <2>5 DEF Next
  <1>2. QED
    BY <1>1, StreamInductive, StreamKept, PTL DEF Spec

\* Where the nodes stand while others wait for them.
StandInv ==
    /\ at["host"] \notin {"idle", "over"}
    /\ at["host"] = "waiting" => team # {}
    /\ \A s \in team : at[s] # "idle"
    /\ \A n \in Nodes \ {"host"} : at[n] # "waiting"
    /\ at["summarizer"] # "over"
    /\ handler = "eof" => sentInterrupt \/ \E n \in Nodes : Final(n)

LEMMA StandInit == Init => StandInv
  BY EventAssumption DEF Init, StandInv, Nodes

LEMMA StandKept == TypeOK /\ TeamInv /\ StandInv /\ [Next]_vars => StandInv'
  <1> SUFFICES ASSUME TypeOK, TeamInv, StandInv, [Next]_vars PROVE StandInv'
    OBVIOUS
  <1>0. /\ at \in [Nodes -> Step] /\ team \subseteq Specialists
        /\ "host" \in Nodes /\ "summarizer" \in Nodes
        /\ Specialists \subseteq Nodes
        /\ "host" \notin Specialists /\ "summarizer" \notin Specialists
    BY EventAssumption DEF TypeOK, RunOK, Nodes
  <1>1. ASSUME NEW n \in Nodes, NEW step \in Step \ {"idle", "waiting"},
               Goto(n, step), step = "over" => n \in Specialists,
               handler' = "run", UNCHANGED team
        PROVE  StandInv'
    BY <1>0, <1>1 DEF Goto, StandInv
  <1>2. ASSUME NEW n \in Nodes, StepNode(n) PROVE StandInv'
    <2>1. PICK step \in {"text", "report", "calls", "failed"} : Goto(n, step)
      BY <1>2 DEF StepNode, OnStartModel, OnTextChunk, NoText, OnError
    <2>2. handler' = "run" /\ UNCHANGED team
      BY <1>2 DEF StepNode, OnStartModel, OnTextChunk, NoText, OnError, StepOf
    <2>3. QED
      BY <1>1, <2>1, <2>2 DEF Step
  <1>3. ASSUME NEW s \in Specialists, StepSpecialist(s) PROVE StandInv'
    <2>1. PICK step \in {"model", "tool", "working", "failed", "over"} : Goto(s, step)
      BY <1>3 DEF StepSpecialist, OnCallChunk, OnStartTool,
                  OnEndTool, OnErrorInterrupt, InterruptUnseen, SpecialistEnds
    <2>2. handler' = "run" /\ UNCHANGED team
      BY <1>3 DEF StepSpecialist, OnCallChunk, OnStartTool,
                  OnEndTool, OnErrorInterrupt, InterruptUnseen,
                  SpecialistEnds, StepOf
    <2>3. QED
      BY <1>0, <1>1, <2>1, <2>2 DEF Step
  <1>4. CASE HostCalls
    <2>1. handler' = "run"
      BY <1>4 DEF HostCalls, StepOf
    <2>2. PICK S \in (SUBSET Specialists) \ {{}} :
             /\ team' = S
             /\ at' = [n \in Nodes |-> IF n = "host" THEN "waiting"
                                       ELSE IF n \in S THEN "model" ELSE at[n]]
      BY <1>4 DEF HostCalls
    <2>3. /\ at'["host"] = "waiting" /\ at'["summarizer"] = at["summarizer"]
          /\ \A s \in S : at'[s] = "model"
          /\ \A n \in Nodes \ {"host"} : at'[n] = "model" \/ at'[n] = at[n]
          /\ team' = S /\ S # {}
      <3>1. \A n \in Nodes : at'[n] = IF n = "host" THEN "waiting"
                                      ELSE IF n \in S THEN "model" ELSE at[n]
        BY <2>2
      <3>2. QED
        BY <1>0, <2>2, <3>1
    <2>4. \A n \in Nodes \ {"host"} : at'[n] # "waiting"
      BY <2>3 DEF StandInv
    <2>5. at'["summarizer"] # "over" /\ handler' # "eof"
      BY <2>1, <2>3 DEF StandInv
    <2>6. team' # {} /\ \A s \in team' : at'[s] # "idle"
      BY <2>3
    <2>7. QED
      BY <2>3, <2>4, <2>5, <2>6 DEF StandInv
  <1>5. CASE StartSummarizer
    <2>1. Goto("summarizer", "model") /\ handler' = "run" /\ UNCHANGED team
      BY <1>5 DEF StartSummarizer, StepOf
    <2>2. QED
      BY <1>0, <1>1, <2>1 DEF Step
  <1>6. CASE (\E o \in Outcomes : RunEnds(o)) \/ End \/ UNCHANGED vars
    <2>1. UNCHANGED <<at, team, sentInterrupt>>
      BY <1>6 DEF RunEnds, End, StreamInterrupted, StreamFailed, Return,
                  EndedByCallback, RecvInterrupted, RecvFailed,
                  EndedWithIntent, Ended, run, flags, vars
    <2>2. \/ handler' = "eof" => sentInterrupt \/ \E n \in Nodes : Final(n)
          \/ UNCHANGED handler
      BY <1>6 DEF RunEnds, End, StreamInterrupted, StreamFailed, Return,
                  EndedByCallback, RecvInterrupted, RecvFailed,
                  EndedWithIntent, Ended, vars
    <2>3. \A n \in Nodes : Final(n)' <=> Final(n)
      BY <2>1 DEF Final
    <2>4. QED
      BY <2>1, <2>2, <2>3 DEF StandInv
  <1>7. QED
    BY <1>2, <1>3, <1>4, <1>5, <1>6 DEF Next, RunStep

\* Every state but the last has a step: a node that runs, the summarizer if it
\* has all reports, or the end of the run; then, at the end of the stream, what
\* Ended or EndedByCallback waits for.  (The other outcomes wait for nothing.)
CanGoOn ==
    /\ handler = "run" =>
          \/ RunOver \/ \E n \in Nodes : Running(n)
          \/ /\ at["summarizer"] = "idle" /\ Cardinality(team) > 1
             /\ \A s \in team : at[s] = "over"
    /\ handler = "eof" => sentInterrupt \/ \E n \in Nodes : Final(n)

\* The host waits for the specialists, the summarizer for their reports and the
\* handler for the end of the stream: nobody waits for somebody who will not
\* come, whichever of the specialists fails.
THEOREM CanGoOnAlways == Spec => []CanGoOn
  <1> DEFINE Inv == TypeOK /\ TeamInv /\ StandInv
  <1>1. Init => Inv
    BY Initially, TeamInit, StandInit
  <1>2. Inv /\ [Next]_vars => Inv'
    BY RunKept, EmitterKept, TeamKept, StandKept DEF TypeOK
  <1>3. Inv => CanGoOn
    <2> SUFFICES ASSUME TypeOK, TeamInv, StandInv, handler = "run", ~RunOver,
                        \A n \in Nodes : ~Running(n)
                 PROVE  /\ at["summarizer"] = "idle" /\ Cardinality(team) > 1
                        /\ \A s \in team : at[s] = "over"
      BY DEF CanGoOn, StandInv
    <2>0. /\ at \in [Nodes -> Step] /\ team \subseteq Specialists
          /\ Nodes = Specialists \union {"host", "summarizer"}
          /\ "host" \notin Specialists /\ "summarizer" \notin Specialists
      BY EventAssumption DEF TypeOK, RunOK, Nodes
    <2>1. \A n \in Nodes : ~Final(n) /\ at[n] # "failed"
      BY DEF RunOver
    <2>2. \A n \in Nodes : at[n] \in {"idle", "waiting", "over"}
      <3>1. ASSUME NEW n \in Nodes PROVE at[n] # "report"
        BY <2>0, <2>1, <3>1 DEF Running, Final
      <3>2. QED
        BY <2>0, <2>1, <3>1 DEF Running
    <2>3. at["host"] = "waiting" /\ team # {} /\ at["summarizer"] = "idle"
      BY <2>0, <2>2 DEF StandInv
    <2>4. \A s \in team : at[s] = "over"
      BY <2>0, <2>2 DEF StandInv
    <2>5. Cardinality(team) > 1
      <3>1. IsFiniteSet(team) /\ Cardinality(team) \in Nat
        BY <2>0, EventAssumption, FS_Subset, FS_CardinalityType
      <3>2. Cardinality(team) # 0
        BY <2>3, <3>1, FS_EmptySet
      <3>3. ~\E s : team = {s}
        BY <2>0, <2>1, <2>4 DEF Final
      <3>4. Cardinality(team) # 1
        BY <3>1, <3>3, FS_Singleton
      <3>5. QED
        BY <3>1, <3>2, <3>4
    <2>6. QED
      BY <2>3, <2>4, <2>5
  <1>4. QED
    BY <1>1, <1>2, <1>3, PTL DEF Spec
=============================================================================
