----------------------------- MODULE Conversation -----------------------------
(***************************************************************************)
(* What the requests of one thread write into its history: Chat and Resume *)
(* (internal/agent/handler.go), ChatStream (stream.go) and ResumeStream,   *)
(* the MessageCollector that gathers what the specialists say              *)
(* (collector.go, supervisor.go), and the message store                    *)
(* (internal/context/store.go).                                            *)
(*                                                                         *)
(* Every request is a goroutine, and so is every specialist it starts; a   *)
(* specialist of a streamed request goes on being collected while the      *)
(* handler has its answer already.  Each operation of the store and of the *)
(* collector is one critical section.                                      *)
(*                                                                         *)
(* Only the part of the agent the handlers see is here: specialists start, *)
(* return, fail or are interrupted for an approval.  Who may decide on a   *)
(* card is the matter of ApprovalFlow: here a decision is accepted when    *)
(* some request of the thread has been interrupted.                        *)
(***************************************************************************)
EXTENDS Naturals, Sequences

CONSTANTS
    Users,
    Requests,
    Specialists,
    Steps,      \* the kinds of the messages of a specialist, in order: a
                \* message without a tool call is the last of a ReAct agent
    Offered,    \* Offered[r]: the inputs request r may arrive with
    MaxFaults   \* bound: failures of Redis and crashes

NoUser == "nobody"
Handler == "handler"

ChatKinds == {"chat", "chatStream"}
StreamKinds == {"chatStream", "resumeStream"}

\* team: the specialists the supervisor may route the question to.  intent: the
\* text of a streamed chat asks for a high-risk tool the model does not call
\* (see ApprovalFlow).
Input == [kind : ChatKinds \union {"resume", "resumeStream"}, user : Users,
          team : SUBSET Specialists, intent : BOOLEAN]

ASSUME ConversationAssumption ==
    /\ NoUser \notin Users
    /\ Handler \notin Specialists
    /\ Steps \in Seq({"call", "tool", "text"}) /\ Steps # << >>
    /\ \A n \in 1..(Len(Steps) - 1) : Steps[n] # "text"
    /\ Offered \in [Requests -> SUBSET Input]
    /\ MaxFaults \in Nat

\* A message in the history: which request stored it, what it is, and for
\* those of a specialist whose it is and which.
Message == [req : Requests, by : Specialists \union {Handler},
            kind : {"question", "call", "tool", "text", "notice", "answer"},
            no : Nat]

\* Where a handler stores: everything, or all but the texts of specialists;
\* then it tells the client the end, or has nothing to tell.
Storing == {"store", "storeCalls", "storeCallsQuietly"}

Work == {"off", "running", "collected", "done", "failed", "interrupted"}

VARIABLES
    input,      \* input[r]: what request r carries (never changes)
    pc,         \* pc[r]: where the handler of r is
    work,       \* work[r][s]: what specialist s does for r
    got,        \* got[r][s]: how many messages of s have been collected
    collector,  \* collector[r]: the messages collected for r
    batch,      \* batch[r]: what the handler of r has still to store
    log,        \* the history of the thread
    owner,      \* the owner of the thread
    seen,       \* seen[r]: how much of the history r has loaded
    prior,      \* history: the requests that were over when r loaded it
    told,       \* told[r]: how often the client was told that r is over
    early,      \* early[r]: it was told so by the callback, at an interrupt
    late,       \* late[r]: the handler of r did not wait for the collector
    holes,      \* holes[r]: a message of r could not be stored
    faults      \* failures and crashes so far

backend == <<holes, faults>>
vars == <<input, pc, work, got, collector, batch, log, owner, seen, prior,
          told, early, late, backend>>

-----------------------------------------------------------------------------
IsStream(r) == input[r].kind \in StreamKinds

Said(r, kind) == [req |-> r, by |-> Handler, kind |-> kind, no |-> 0]
Step(r, s, n) == [req |-> r, by |-> s, kind |-> Steps[n], no |-> n]

\* Mutant: the collecting goroutine registers itself when it first adds.
PendingLate(r) ==
    \E s \in Specialists : work[r][s] = "collected" /\ got[r][s] > 0

\* The WaitGroup of the collector is not at zero.
Pending(r) == \E s \in Specialists : work[r][s] = "collected"

Init ==
    /\ input \in {f \in [Requests -> UNION {Offered[r] : r \in Requests}] :
                      \A r \in Requests : f[r] \in Offered[r]}
    /\ pc = [r \in Requests |-> "idle"]
    /\ work = [r \in Requests |-> [s \in Specialists |-> "off"]]
    /\ got = [r \in Requests |-> [s \in Specialists |-> 0]]
    /\ collector = [r \in Requests |-> << >>]
    /\ batch = [r \in Requests |-> << >>]
    /\ log = << >>
    /\ owner = NoUser
    /\ seen = [r \in Requests |-> 0]
    /\ prior = [r \in Requests |-> {}]
    /\ told = [r \in Requests |-> 0]
    /\ early = [r \in Requests |-> FALSE]
    /\ late = [r \in Requests |-> FALSE]
    /\ holes = [r \in Requests |-> FALSE]
    /\ faults = 0

Goto(r, step) == pc' = [pc EXCEPT ![r] = step]

Fault == faults < MaxFaults /\ faults' = faults + 1

-----------------------------------------------------------------------------
(* A chat begins: Get, Append, SetOwner.  In Redis each of them may fail,  *)
(* and the chat goes on: without history, message or owner.                *)

\* The requests that have been announced to be over, or died in a crash.
Finished == {q \in Requests : told[q] > 0 \/ pc[q] = "over"}

\* RPUSH, or the Append of the store in memory, which cannot fail.
Push(r, m) ==
    \/ log' = Append(log, m) /\ UNCHANGED backend
    \/ Fault /\ holes' = [holes EXCEPT ![r] = TRUE] /\ UNCHANGED log

\* Mutant: the question counts as loaded.
LoadWithQuestion(r) ==
    /\ pc[r] = "idle" /\ input[r].kind \in ChatKinds
    /\ seen' = [seen EXCEPT ![r] = Len(log) + 1]
    /\ prior' = [prior EXCEPT ![r] = Finished]
    /\ Goto(r, "ask")
    /\ UNCHANGED <<input, work, got, collector, batch, log, owner, told, early,
                   late, backend>>

\* The history that goes into the prompt is what the store holds now.
Load(r) ==
    /\ pc[r] = "idle" /\ input[r].kind \in ChatKinds
    /\ seen' = [seen EXCEPT ![r] = Len(log)]
    /\ prior' = [prior EXCEPT ![r] = Finished]
    /\ Goto(r, "ask")
    /\ UNCHANGED <<input, work, got, collector, batch, log, owner, told, early,
                   late, backend>>

LoadFails(r) ==
    /\ Fault
    /\ pc[r] = "idle" /\ input[r].kind \in ChatKinds
    /\ Goto(r, "ask")
    /\ UNCHANGED <<input, work, got, collector, batch, log, owner, seen, prior,
                   told, early, late, holes>>

Ask(r) ==
    /\ pc[r] = "ask"
    /\ Push(r, Said(r, "question"))
    /\ Goto(r, "own")
    /\ UNCHANGED <<input, work, got, collector, batch, owner, seen, prior, told,
                   early, late>>

\* SetOwner overwrites.
SetOwner(r) ==
    /\ pc[r] = "own"
    /\ Goto(r, "run")
    /\ \/ owner' = input[r].user /\ UNCHANGED backend
       \/ Fault /\ UNCHANGED <<owner, holes>>
    /\ UNCHANGED <<input, work, got, collector, batch, log, seen, prior, told,
                   early, late>>

\* Resume: nothing is loaded, and the decision is not stored.
Decide(r) ==
    /\ pc[r] = "idle" /\ input[r].kind \notin ChatKinds
    /\ \E q \in Requests, s \in Specialists : work[q][s] = "interrupted"
    /\ Goto(r, "run")
    /\ UNCHANGED <<input, work, got, collector, batch, log, owner, seen, prior,
                   told, early, late, backend>>

-----------------------------------------------------------------------------
(* The agent: the supervisor starts specialists, side by side.             *)

Works(r, s, from, to) ==
    /\ work[r][s] = from
    /\ work' = [work EXCEPT ![r][s] = to]

Route(r, s) ==
    /\ pc[r] = "run" /\ s \in input[r].team
    /\ Works(r, s, "off", "running")
    /\ UNCHANGED <<input, pc, got, collector, batch, log, owner, seen, prior, told,
                   early, late, backend>>

Fail(r, s) ==
    /\ pc[r] = "run" /\ Works(r, s, "running", "failed")
    /\ UNCHANGED <<input, pc, got, collector, batch, log, owner, seen, prior, told,
                   early, late, backend>>

\* A tool needs an approval.  If the callback sees the error it sends the
\* interrupt and the end of the stream, once.
Interrupt(r, s) ==
    /\ pc[r] = "run" /\ Works(r, s, "running", "interrupted")
    /\ \/ /\ IsStream(r) /\ ~early[r]
          /\ early' = [early EXCEPT ![r] = TRUE]
          /\ told' = [told EXCEPT ![r] = @ + 1]
       \/ UNCHANGED <<early, told>>
    /\ UNCHANGED <<input, pc, got, collector, batch, log, owner, seen, prior,
                   late, backend>>

\* The specialist's Generate has returned, or its Stream is open: from now on
\* its messages are collected (wrapSpecialistGenerate, wrapSpecialistStream).
Return(r, s) ==
    /\ pc[r] = "run" /\ Works(r, s, "running", "collected")
    /\ UNCHANGED <<input, pc, got, collector, batch, log, owner, seen, prior, told,
                   early, late, backend>>

\* Add, for the next message of s; after the last one the goroutine is done.
Collect(r, s) ==
    LET n == got[r][s] + 1 IN
    /\ work[r][s] = "collected"
    /\ got' = [got EXCEPT ![r][s] = n]
    /\ collector' = [collector EXCEPT ![r] = Append(@, Step(r, s, n))]
    /\ work' = [work EXCEPT ![r][s] = IF n = Len(Steps) THEN "done" ELSE @]
    /\ UNCHANGED <<input, pc, batch, log, owner, seen, prior, told, early, late, backend>>

-----------------------------------------------------------------------------
(* The run of r ends, and the handler stores what has to be stored.        *)

\* A failed run leaves nothing in the history but the question.
FinishError(r) ==
    /\ pc[r] = "run"
    /\ Goto(r, "tell")
    /\ UNCHANGED <<input, work, got, collector, batch, log, owner, seen, prior,
                   told, early, late, backend>>

Stores(r, step, messages) ==
    /\ batch' = [batch EXCEPT ![r] = messages]
    /\ Goto(r, step)
    /\ UNCHANGED <<input, work, got, collector, log, owner, seen, prior, told,
                   early, backend>>

Interrupted(r) == \E s \in Specialists : work[r][s] = "interrupted"

\* What is collected so far, and the notice.
InterruptMessages(r) == Append(collector[r], Said(r, "notice"))

\* Generate returns the interrupt; Resume stores nothing then.
FinishInterrupt(r) ==
    /\ pc[r] = "run" /\ ~IsStream(r) /\ Interrupted(r)
    /\ IF input[r].kind = "resume" THEN Stores(r, "store", << >>)
       ELSE Stores(r, "store", InterruptMessages(r))
    /\ UNCHANGED late

\* Stream returns it, or the stream that has been opened ends with it.  Only
\* in the second case the handler asks whether the callback told the client.
FinishStreamInterrupt(r) ==
    /\ pc[r] = "run" /\ IsStream(r) /\ Interrupted(r)
    /\ \/ IF input[r].kind = "resumeStream" THEN Stores(r, "store", << >>)
          ELSE Stores(r, "storeCalls", InterruptMessages(r))
       \/ Stores(r, IF early[r] THEN "storeCallsQuietly" ELSE "storeCalls",
                 InterruptMessages(r))
    /\ UNCHANGED late

\* The answer is there.  Without streaming all specialists have returned it,
\* and their messages have been collected before.
FinishReply(r) ==
    /\ pc[r] = "run" /\ ~IsStream(r)
    /\ \A s \in Specialists : work[r][s] \in {"off", "done"}
    /\ Stores(r, "store", Append(collector[r], Said(r, "answer")))
    /\ UNCHANGED late

\* Streaming, the collecting goroutines may still be at work.
FinishStream(r) ==
    /\ pc[r] = "run" /\ IsStream(r)
    /\ \A s \in Specialists : work[r][s] \in {"off", "collected", "done"}
    /\ Goto(r, "wait")
    /\ UNCHANGED <<input, work, got, collector, batch, log, owner, seen, prior,
                   told, early, late, backend>>

Endings(r) ==
    IF input[r].kind = "chatStream" /\ input[r].intent
    THEN <<Said(r, "notice"), Said(r, "answer")>>
    ELSE <<Said(r, "answer")>>

\* Mutant: the answer first.
StopWaitingAnswerFirst(r) ==
    /\ pc[r] = "wait"
    /\ late' = [late EXCEPT ![r] = Pending(r)]
    /\ Stores(r, "store", Endings(r) \o collector[r])

\* Mutant: no time limit.
StopWaitingNever(r) ==
    /\ pc[r] = "wait" /\ ~Pending(r)
    /\ UNCHANGED late
    /\ Stores(r, "store", collector[r] \o Endings(r))

\* The handler waits for the collector, for five seconds at most.
StopWaiting(r) ==
    /\ pc[r] = "wait"
    /\ late' = [late EXCEPT ![r] = Pending(r)]
    /\ Stores(r, "store", collector[r] \o Endings(r))

\* Mutant: the end of the stream is sent before the last message is stored.
StoreTellingFirst(r) ==
    /\ pc[r] = "store" /\ batch[r] # << >>
    /\ log' = Append(log, Head(batch[r]))
    /\ batch' = [batch EXCEPT ![r] = Tail(@)]
    /\ told' = [told EXCEPT ![r] =
                   IF @ = 0 /\ Len(batch[r]) = 2 THEN 1 ELSE @]
    /\ UNCHANGED <<input, pc, work, got, collector, owner, seen, prior, early,
                   late, backend>>

\* Append, one message at a time, and on to the next if it fails.
\* storeInterruptMessages skips the texts.
Store(r) ==
    LET m == Head(batch[r]) IN
    /\ pc[r] \in Storing /\ batch[r] # << >>
    /\ IF pc[r] # "store" /\ m.kind = "text" THEN UNCHANGED <<log, backend>>
       ELSE Push(r, m)
    /\ batch' = [batch EXCEPT ![r] = Tail(@)]
    /\ UNCHANGED <<input, pc, work, got, collector, owner, seen, prior, told,
                   early, late>>

\* The client is told that the request is over.  (A second time, if the
\* callback has told it and Stream itself returned the interrupt.)
Tell(r) ==
    /\ \/ pc[r] = "tell"
       \/ pc[r] \in {"store", "storeCalls"} /\ batch[r] = << >>
    /\ told' = [told EXCEPT ![r] = @ + 1]
    /\ Goto(r, "over")
    /\ UNCHANGED <<input, work, got, collector, batch, log, owner, seen, prior,
                   early, late, backend>>

TellNothing(r) ==
    /\ pc[r] = "storeCallsQuietly" /\ batch[r] = << >>
    /\ Goto(r, "over")
    /\ UNCHANGED <<input, work, got, collector, batch, log, owner, seen, prior,
                   told, early, late, backend>>

-----------------------------------------------------------------------------
(* The server stops and starts again: requests under way die, wherever     *)
(* they are.  The history, and the cards of interrupts, survive in Redis.  *)

Crash ==
    /\ Fault
    /\ pc' = [r \in Requests |-> IF pc[r] = "idle" THEN "idle" ELSE "over"]
    /\ batch' = [r \in Requests |-> << >>]
    /\ \E gone \in {{"running", "collected"},
                    {"running", "collected", "interrupted"}} :
          /\ work' = [r \in Requests |-> [s \in Specialists |->
                         IF work[r][s] \in gone THEN "failed" ELSE work[r][s]]]
          /\ IF "interrupted" \in gone
             THEN /\ log' = << >> /\ owner' = NoUser
                  /\ seen' = [r \in Requests |-> 0]
                  /\ prior' = [r \in Requests |-> {}]
             ELSE UNCHANGED <<log, owner, seen, prior>>
    /\ UNCHANGED <<input, got, collector, told, early, late, holes>>

-----------------------------------------------------------------------------
(* GetHistory (internal/context/manager.go) shows the history to the user: *)
(* of the messages that have text, without those of tools.  A message with *)
(* a call may have text or not.                                            *)

Speaking == {"question", "text", "notice", "answer"}
Visible(kinds) == {i \in 1..Len(log) : log[i].kind \in kinds}

\* Another message of the assistant comes directly before message i.
Continues(i, V) ==
    \E j \in V : /\ j < i /\ \A k \in V : k <= j \/ k >= i
                 /\ log[j].kind # "question"

\* Mutant: the first message of the assistant stays.
ShownFirst(kinds) ==
    LET V == Visible(kinds)
    IN  {i \in V : log[i].kind = "question" \/ ~Continues(i, V)}

\* A message of the assistant takes the place of the one directly before it.
Shown(kinds) ==
    LET V == Visible(kinds)
    IN  {i \in V : ~\E j \in V : /\ j > i /\ \A k \in V : k <= i \/ k >= j
                                 /\ log[j].kind # "question" /\ Continues(j, V)}

-----------------------------------------------------------------------------
Handle(r) ==
    \/ Ask(r)
    \/ SetOwner(r)
    \/ FinishError(r)
    \/ FinishInterrupt(r)
    \/ FinishStreamInterrupt(r)
    \/ FinishReply(r)
    \/ FinishStream(r)
    \/ StopWaiting(r)
    \/ Store(r)
    \/ Tell(r)
    \/ TellNothing(r)

Specialist(r, s) ==
    \/ Route(r, s)
    \/ Fail(r, s)
    \/ Interrupt(r, s)
    \/ Return(r, s)
    \/ Collect(r, s)

Next ==
    \/ \E r \in Requests :
          \/ Load(r)
          \/ LoadFails(r)
          \/ Decide(r)
          \/ Handle(r)
          \/ \E s \in Specialists : Specialist(r, s)
    \/ Crash

\* A handler that has started goes on: the run of the agent ends at the
\* latest at AgentTimeout.  Nothing is assumed of clients and specialists.
Spec == Init /\ [][Next]_vars /\ \A r \in Requests : WF_vars(Handle(r))

-----------------------------------------------------------------------------
(* What must hold.                                                         *)

\* Shapes; what a handler has still to store is its own; a request that is
\* not over was announced as over at most by the callback.
TypeOK ==
    /\ input \in [Requests -> Input]
    /\ pc \in [Requests -> {"idle", "ask", "own", "run", "wait", "tell", "over"}
                              \union Storing]
    /\ work \in [Requests -> [Specialists -> Work]]
    /\ got \in [Requests -> [Specialists -> 0..Len(Steps)]]
    /\ collector \in [Requests -> Seq(Message)]
    /\ batch \in [Requests -> Seq(Message)]
    /\ \A r \in Requests :
          /\ \A i \in 1..Len(collector[r]) : collector[r][i].req = r
          /\ \A i \in 1..Len(batch[r]) : batch[r][i].req = r
          /\ \A s \in Specialists :
                /\ work[r][s] \in {"off", "running"} => got[r][s] = 0
                /\ work[r][s] = "collected" => got[r][s] < Len(Steps)
          /\ batch[r] # << >> => pc[r] \in Storing
          /\ pc[r] # "over" => told[r] = IF early[r] THEN 1 ELSE 0
    /\ log \in Seq(Message)
    /\ owner \in Users \union {NoUser}
    /\ seen \in [Requests -> 0..Len(log)]
    /\ prior \in [Requests -> SUBSET Requests]
    /\ told \in [Requests -> 0..2]
    /\ early \in [Requests -> BOOLEAN]
    /\ late \in [Requests -> BOOLEAN]
    /\ holes \in [Requests -> BOOLEAN]
    /\ faults \in 0..MaxFaults

\* However the requests of a thread overlap, what one of them stores is in
\* order: its question first, its answer last, and of every specialist the
\* messages in the order they were said, each once and, if all could be
\* stored, none without the one before it, so that no tool message comes
\* without its call.  A crash between two messages does not change this.
StoredInOrder ==
    \A i \in 1..Len(log) :
        /\ log[i].kind = "question" =>
              \A j \in 1..(i - 1) : log[j].req # log[i].req
        /\ log[i].kind = "answer" =>
              \A j \in (i + 1)..Len(log) : log[j].req # log[i].req
        /\ log[i].by # Handler =>
              /\ \A j \in 1..(i - 1) :
                    log[j].req = log[i].req /\ log[j].by = log[i].by
                       => log[j].no < log[i].no
              /\ log[i].no > 1 /\ ~holes[log[i].req] =>
                    \E j \in 1..(i - 1) :
                        log[j] = Step(log[i].req, log[i].by, log[i].no - 1)

\* A request that has stored its answer and did not run out of patience has
\* stored everything its specialists said, before the answer, if it could.
AnswerComplete ==
    \A i \in 1..Len(log) :
        LET r == log[i].req IN
        log[i].kind = "answer" /\ ~late[r] /\ ~holes[r] =>
            \A s \in Specialists, n \in 1..Len(Steps) :
                work[r][s] # "off" =>
                    \E j \in 1..(i - 1) : log[j] = Step(r, s, n)

\* A chat sent after an earlier request was over has all that request stored
\* in its prompt.  (Not if the end was announced by the callback, which does
\* so before the handler stores the notice.)
NextChatSeesAll ==
    \A r \in Requests : \A q \in prior[r] :
        ~early[q] =>
            \A i \in 1..Len(log) : log[i].req = q => i <= seen[r]

\* No other request of the thread stored anything between the begin and the
\* end of request q.
Alone(q) ==
    \A r \in Requests \ {q} :
        \/ pc[r] = "idle"
        \/ r \in prior[q] /\ ~early[r]
        \/ q \in prior[r] /\ ~early[q]

\* When no other request was under way and all messages could be stored, the
\* user who comes back reads the question and directly after it the answer:
\* not what the specialists said on the way, and nothing in its place.
\* (GetHistory keeps the last of several messages of the assistant, whoever
\* stored them.)
HistoryTells ==
    \A kinds \in {Speaking, Speaking \union {"call"}} :
        \A i, j \in 1..Len(log) :
            /\ log[i].req = log[j].req /\ Alone(log[i].req)
            /\ \A r \in Requests : ~holes[r]
            /\ log[i].kind = "question" /\ log[j].kind = "answer"
            => /\ {i, j} \subseteq Shown(kinds)
               /\ \A k \in Shown(kinds) : k <= i \/ k >= j

\* A request that has reached its handler ends, even if the messages of a
\* specialist never come.
RequestsEnd == \A r \in Requests : pc[r] # "idle" ~> pc[r] = "over"
=============================================================================
