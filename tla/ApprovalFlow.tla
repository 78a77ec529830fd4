----------------------------- MODULE ApprovalFlow -----------------------------
(***************************************************************************)
(* Human approval of high-risk tool calls: the approval cards of           *)
(* internal/hitl/store.go, the middleware chain ACL -> approval -> tool    *)
(* (internal/toolreg/middleware.go, internal/hitl/middleware.go) and the   *)
(* HTTP handlers that use them: Chat, ChatStream, Resume and ResumeStream  *)
(* (internal/agent/handler.go, stream.go), and the readers GetHistory      *)
(* (internal/context/manager.go) and ListCheckpoints.                      *)
(*                                                                         *)
(* Every HTTP request is a process.  A handler is cut into the steps       *)
(* between which another goroutine can run: each ApprovalStore operation   *)
(* is one critical section, except GetApproval, which gives up its read    *)
(* lock before it takes the write lock to delete an expired card (a GET    *)
(* and a DEL in Redis).                                                    *)
(*                                                                         *)
(* Cards live in a heap (the Go pointers): a card is named by its position *)
(* in the order of creation, so 0 is the nil pointer.  All cards have the  *)
(* same time to live, so they expire in the order they were created and    *)
(* the clock is the number of cards that have expired.                     *)
(*                                                                         *)
(* Cards are kept in memory or in Redis.  A command of Redis can fail, and *)
(* the store ignores it; the server can stop at any time and come back,    *)
(* with the cards that are in Redis and without those in memory.           *)
(***************************************************************************)
EXTENDS Naturals, Sequences, SequencesExt

CONSTANTS
    Users,       \* authenticated users
    Threads,     \* conversation threads (chosen by the client)
    Requests,    \* the HTTP requests of a behaviour, each served once
    Tools,       \* the registered tools
    HighRisk,    \* the tools the RiskChecker marks (send_email)
    CanExecute,  \* CanExecute[u]: the tools the role of u may execute
    MaxCalls,    \* tool calls of one agent run (the ReAct step limit)
    MaxFaults,   \* failures of Redis and of the server in a behaviour
    Offered      \* Offered[r]: the inputs request r may arrive with

ChatKinds == {"chat", "chatStream"}
ResumeKinds == {"resume", "resumeStream"}
ReaderKinds == {"history", "checkpoints"}
Decisions == {"approve", "reject", "other"}
NoIntent == "none"

\* What a request carries: for a chat the high-risk tool its text matches
\* (or none), for a resume the decision of the user.
Input == [kind : ChatKinds \union ResumeKinds \union ReaderKinds,
          user : Users, thread : Threads,
          decision : Decisions, intent : HighRisk \union {NoIntent}]

ASSUME ApprovalAssumption ==
    /\ HighRisk \subseteq Tools
    /\ NoIntent \notin Tools
    /\ CanExecute \in [Users -> SUBSET Tools]
    /\ MaxCalls \in Nat
    /\ MaxFaults \in Nat
    /\ Offered \in [Requests -> SUBSET Input]

Card == [thread : Threads, owner : Users, tool : HighRisk, issuer : Requests]

\* Where a handler stands, and how it answered.
Waiting == {"idle", "get", "dropExpired", "check", "remove", "removeExpired",
            "run", "intent"}
Answers == {"reply", "interrupt", "error", "badRequest", "forbidden",
            "notFound", "gone", "shown"}
Over == {"crashed"} \union Answers

VARIABLES
    input,    \* input[r]: what request r carries (never changes)
    pc,       \* pc[r]: the next step of the handler of r, or its answer
    held,     \* held[r]: the card the handler of r has in hand, 0 for none
    calls,    \* calls[r]: the tools the agent run of r has called so far
    store,    \* store[t]: the pending card of thread t, 0 for none
    cards,    \* every card created so far, in order of creation
    expired,  \* how many of the cards have expired
    execs,    \* the tool executions so far: <<request, tool>>
    late,     \* history: <<r, c>> where c had left the store when r arrived
    undeleted, \* history: the requests whose RemoveApproval failed
    faults    \* how many failures there have been

faultVars == <<undeleted, faults>>
vars ==
    <<input, pc, held, calls, store, cards, expired, execs, late, faultVars>>

-----------------------------------------------------------------------------
CardIds == 1..Len(cards)
Expired(c) == c <= expired
InStore(c) == store[cards[c].thread] = c

IsResume(r) == input[r].kind \in ResumeKinds

\* What a handler answers if GetApproval returns nil.
NoCard(r) == IF IsResume(r) THEN "notFound" ELSE "shown"

\* The middleware raised an interrupt in the run of r: it saved a card for it.
Interrupted(r) == \E c \in CardIds : cards[c].issuer = r

\* The decision the handler put into the context of the run of r covers tool
\* t: only the name of the tool is compared.
DecisionCovers(r, t) == IsResume(r) /\ cards[held[r]].tool = t

-----------------------------------------------------------------------------
Init ==
    /\ input \in {f \in [Requests -> UNION {Offered[r] : r \in Requests}] :
                      \A r \in Requests : f[r] \in Offered[r]}
    /\ pc = [r \in Requests |-> "idle"]
    /\ held = [r \in Requests |-> 0]
    /\ calls = [r \in Requests |-> << >>]
    /\ store = [t \in Threads |-> 0]
    /\ cards = << >>
    /\ expired = 0
    /\ execs = {}
    /\ late = {}
    /\ undeleted = {}
    /\ faults = 0

Goto(r, step) == pc' = [pc EXCEPT ![r] = step]

Fault == faults < MaxFaults /\ faults' = faults + 1

\* The request reaches its handler.  ResumeStream refuses a decision other
\* than approve and reject; Resume takes any string.
Arrive(r) ==
    /\ pc[r] = "idle"
    /\ Goto(r, IF input[r].kind \in ChatKinds THEN "run"
               ELSE IF input[r].kind = "resumeStream"
                       /\ input[r].decision \notin {"approve", "reject"}
                    THEN "badRequest"
                    ELSE "get")
    /\ late' = late \union {<<r, c>> : c \in {d \in CardIds : ~InStore(d)}}
    /\ UNCHANGED <<input, held, calls, store, cards, expired, execs, faultVars>>

-----------------------------------------------------------------------------
(* The ApprovalStore.                                                      *)

\* GetApproval under the read lock.  A reader shows the card, if there is one.
\* (ListCheckpoints does the same for the key of each thread if cards are in
\* Redis.)
GetApproval(r) ==
    LET c == store[input[r].thread] IN
    /\ pc[r] = "get"
    /\ \/ /\ c = 0
          /\ Goto(r, NoCard(r))
          /\ UNCHANGED held
       \/ /\ c # 0 /\ Expired(c)
          /\ Goto(r, "dropExpired")
          /\ UNCHANGED held
       \/ /\ c # 0 /\ ~Expired(c) /\ ~IsResume(r)
          /\ Goto(r, "shown")
          /\ UNCHANGED held
       \/ /\ c # 0 /\ ~Expired(c) /\ IsResume(r)
          /\ Goto(r, "check")
          /\ held' = [held EXCEPT ![r] = c]
    /\ UNCHANGED <<input, calls, store, cards, expired, execs, late, faultVars>>

\* Mutant: the write lock is asked for while the read lock is still held.
DropExpiredSelfLocked(r) ==
    /\ pc[r] = "dropExpired" /\ \A q \in Requests : pc[q] # "dropExpired"
    /\ store' = [store EXCEPT ![input[r].thread] = 0]
    /\ Goto(r, NoCard(r))
    /\ UNCHANGED <<input, held, calls, cards, expired, execs, late, faultVars>>

\* The rest of GetApproval, under the write lock: it deletes whatever the
\* thread's slot holds by now, and returns nil.
DropExpired(r) ==
    /\ pc[r] = "dropExpired"
    /\ store' = [store EXCEPT ![input[r].thread] = 0]
    /\ Goto(r, NoCard(r))
    /\ UNCHANGED <<input, held, calls, cards, expired, execs, late, faultVars>>

\* A GET or the DEL after it fails: GetApproval returns nil, as if there were
\* no card.
GetApprovalFails(r) ==
    /\ pc[r] \in {"get", "dropExpired"}
    /\ Fault
    /\ Goto(r, NoCard(r))
    /\ UNCHANGED <<input, held, calls, store, cards, expired, execs, late,
                   undeleted>>

\* Mutant: anyone may decide.
CheckCardAnyUser(r) ==
    /\ pc[r] = "check"
    /\ Goto(r, IF Expired(held[r]) THEN "removeExpired" ELSE "remove")
    /\ UNCHANGED <<input, held, calls, store, cards, expired, execs, late,
                   faultVars>>

\* The handler checks the card it has in hand: owner, then expiry.
CheckCard(r) ==
    LET c == held[r] IN
    /\ pc[r] = "check"
    /\ \/ /\ cards[c].owner # input[r].user
          /\ Goto(r, "forbidden")
          /\ held' = [held EXCEPT ![r] = 0]
       \/ /\ cards[c].owner = input[r].user
          /\ Goto(r, IF Expired(c) THEN "removeExpired" ELSE "remove")
          /\ UNCHANGED held
    /\ UNCHANGED <<input, calls, store, cards, expired, execs, late, faultVars>>

\* RemoveApproval deletes by thread, or Redis fails and nothing is deleted: the
\* handler does not learn of it.  An accepted decision goes on to the agent
\* run, a card found expired is answered with 410.
RemoveApproval(r) ==
    /\ \/ /\ store' = [store EXCEPT ![input[r].thread] = 0]
          /\ UNCHANGED faultVars
       \/ /\ Fault
          /\ undeleted' = undeleted \union {r}
          /\ UNCHANGED store
    /\ \/ /\ pc[r] = "remove"
          /\ Goto(r, "run")
          /\ UNCHANGED held
       \/ /\ pc[r] = "removeExpired"
          /\ Goto(r, "gone")
          /\ held' = [held EXCEPT ![r] = 0]
    /\ UNCHANGED <<input, calls, cards, expired, execs, late>>

\* Mutant: the slot is set before the card exists, and the card gets lost.
AddApprovalDangling(r, t) ==
    /\ store' = [store EXCEPT ![input[r].thread] = Len(cards) + 1]
    /\ UNCHANGED <<cards, faultVars>>

\* AddApproval: a new card of request r for tool t takes the slot of the
\* thread, whatever was in it.  If Redis fails the card is announced all the
\* same, and nobody can decide on it.
AddApproval(r, t) ==
    /\ cards' = Append(cards, [thread |-> input[r].thread,
                               owner |-> input[r].user,
                               tool |-> t, issuer |-> r])
    /\ \/ /\ store' = [store EXCEPT ![input[r].thread] = Len(cards) + 1]
          /\ UNCHANGED faults
       \/ Fault /\ UNCHANGED store
    /\ UNCHANGED undeleted

\* Mutant: the comparison with ExpiresAt is the wrong way round.
CleanupInverted ==
    /\ store' = [t \in Threads |-> IF Expired(store[t]) THEN store[t] ELSE 0]
    /\ UNCHANGED <<input, pc, held, calls, cards, expired, execs, late,
                   faultVars>>

\* One tick of the cleanup goroutine.
Cleanup ==
    /\ store' = [t \in Threads |-> IF Expired(store[t]) THEN 0 ELSE store[t]]
    /\ UNCHANGED <<input, pc, held, calls, cards, expired, execs, late,
                   faultVars>>

\* Redis drops a key whose time to live is over.
TimeToLive(t) ==
    /\ store[t] # 0 /\ Expired(store[t])
    /\ store' = [store EXCEPT ![t] = 0]
    /\ UNCHANGED <<input, pc, held, calls, cards, expired, execs, late,
                   faultVars>>

\* The server stops and comes back: requests under way end without an answer.
\* Cards in Redis are still there, those in memory are not.
Crash ==
    /\ Fault
    /\ pc' = [r \in Requests |-> IF pc[r] \in {"idle"} \union Over
                                 THEN pc[r] ELSE "crashed"]
    /\ held' = [r \in Requests |-> IF pc[r] \in {"check", "removeExpired"}
                                   THEN 0 ELSE held[r]]
    /\ store' \in {store, [t \in Threads |-> 0]}
    /\ UNCHANGED <<input, calls, cards, expired, execs, late, undeleted>>

\* The time to live of the oldest card still valid runs out.
Expire ==
    /\ expired < Len(cards)
    /\ expired' = expired + 1
    /\ UNCHANGED <<input, pc, held, calls, store, cards, execs, late,
                   faultVars>>

-----------------------------------------------------------------------------
(* The agent run: the model calls tools, each call passes ACL, then the    *)
(* approval middleware.  Calls of one batch run side by side, so a run     *)
(* that has been interrupted may still finish other calls.                 *)

Call(r, t) ==
    /\ pc[r] = "run"
    /\ Len(calls[r]) < MaxCalls
    /\ calls' = [calls EXCEPT ![r] = Append(@, t)]
    /\ UNCHANGED <<input, pc, held, expired, late>>

\* The role may not execute the tool: the refusal is fed back as text.
CallDenied(r, t) ==
    /\ Call(r, t)
    /\ t \notin CanExecute[input[r].user]
    /\ UNCHANGED <<store, cards, execs, faultVars>>

\* Mutant: any decision in the context lets the tool run.
CallExecutedAnyDecision(r, t) ==
    /\ Call(r, t)
    /\ t \in CanExecute[input[r].user]
    /\ t \notin HighRisk \/ DecisionCovers(r, t)
    /\ execs' = execs \union {<<r, t>>}
    /\ UNCHANGED <<store, cards, faultVars>>

\* The tool runs: it is not high-risk, or the context holds an approval.
CallExecuted(r, t) ==
    /\ Call(r, t)
    /\ t \in CanExecute[input[r].user]
    /\ \/ t \notin HighRisk
       \/ DecisionCovers(r, t) /\ input[r].decision = "approve"
    /\ execs' = execs \union {<<r, t>>}
    /\ UNCHANGED <<store, cards, faultVars>>

\* The context holds a decision that is not an approval: text is fed back.
CallRejected(r, t) ==
    /\ Call(r, t)
    /\ t \in CanExecute[input[r].user] \intersect HighRisk
    /\ DecisionCovers(r, t) /\ input[r].decision # "approve"
    /\ UNCHANGED <<store, cards, execs, faultVars>>

\* No decision for this tool: save a card and interrupt the run.
CallInterrupted(r, t) ==
    /\ Call(r, t)
    /\ t \in CanExecute[input[r].user] \intersect HighRisk
    /\ ~DecisionCovers(r, t)
    /\ AddApproval(r, t)
    /\ UNCHANGED execs

\* Mutant: a failed run puts its card back so that the user can try again.
FinishRunRestoring(r) ==
    /\ pc[r] = "run"
    /\ Goto(r, "error")
    /\ store' = IF IsResume(r) THEN [store EXCEPT ![input[r].thread] = held[r]]
                ELSE store
    /\ UNCHANGED <<input, held, calls, cards, expired, execs, late, faultVars>>

\* Mutant: the agent swallows the interrupt.
FinishRunSwallowing(r) ==
    /\ pc[r] = "run"
    /\ Goto(r, IF input[r].kind = "chatStream" THEN "intent" ELSE "reply")
    /\ UNCHANGED <<input, held, calls, store, cards, expired, execs, late,
                   faultVars>>

\* Generate or Stream returns: with the interrupt, with an answer, or with
\* an error of the model or of the time limit.
FinishRun(r) ==
    /\ pc[r] = "run"
    /\ \/ Interrupted(r) /\ Goto(r, "interrupt")
       \/ ~Interrupted(r)
          /\ Goto(r, IF input[r].kind = "chatStream" THEN "intent" ELSE "reply")
       \/ Goto(r, "error")
    /\ UNCHANGED <<input, held, calls, store, cards, expired, execs, late,
                   faultVars>>

\* ChatStream only: the text asks for a high-risk tool the model has not
\* called and the user may execute, so a card is saved all the same.
IntentRisk(r) ==
    /\ input[r].intent # NoIntent
    /\ input[r].intent \notin ToSet(calls[r])
    /\ input[r].intent \in CanExecute[input[r].user]

CheckIntentRisk(r) ==
    /\ pc[r] = "intent"
    /\ \/ /\ IntentRisk(r)
          /\ AddApproval(r, input[r].intent)
          /\ Goto(r, "interrupt")
       \/ /\ ~IntentRisk(r)
          /\ Goto(r, "reply")
          /\ UNCHANGED <<store, cards, faultVars>>
    /\ UNCHANGED <<input, held, calls, expired, execs, late>>

-----------------------------------------------------------------------------
Handle(r) ==
    \/ GetApproval(r)
    \/ DropExpired(r)
    \/ GetApprovalFails(r)
    \/ CheckCard(r)
    \/ RemoveApproval(r)
    \/ \E t \in Tools : \/ CallDenied(r, t)
                        \/ CallExecuted(r, t)
                        \/ CallRejected(r, t)
                        \/ CallInterrupted(r, t)
    \/ FinishRun(r)
    \/ CheckIntentRisk(r)

Next ==
    \/ \E r \in Requests : Arrive(r) \/ Handle(r)
    \/ Cleanup
    \/ \E t \in Threads : TimeToLive(t)
    \/ Expire
    \/ Crash

\* The Go scheduler runs every goroutine: a handler that has started goes on,
\* and the cleanup ticker fires again and again (Redis drops what is overdue by
\* itself).  Clients need not send anything, nothing need fail, and no progress
\* of the clock is assumed.
Fairness ==
    /\ \A r \in Requests : WF_vars(Handle(r))
    /\ WF_vars(Cleanup)

Spec == Init /\ [][Next]_vars /\ Fairness
-----------------------------------------------------------------------------
(* What must hold.                                                         *)

\* Every variable keeps its shape; pointers point into the heap.
TypeOK ==
    /\ input \in [Requests -> Input]
    /\ pc \in [Requests -> Waiting \union Over]
    /\ held \in [Requests -> 0..Len(cards)]
    /\ calls \in [Requests -> Seq(Tools)]
    /\ store \in [Threads -> 0..Len(cards)]
    /\ cards \in Seq(Card)
    /\ expired \in 0..Len(cards)
    /\ execs \subseteq Requests \X Tools
    /\ late \subseteq Requests \X CardIds
    /\ undeleted \subseteq Requests
    /\ faults \in Nat

\* The decision r carries was accepted for the card r has in hand.
Granted(r) == held[r] # 0 /\ pc[r] \notin {"check", "removeExpired"}

\* A tool runs only for a user whose role may execute it, and a high-risk
\* tool only inside the run of an accepted approval: the user who started the
\* request that asked for this tool said "approve" to a card of this thread.
\* (ACLToolMiddleware, HumanApprovalMiddleware and the checks of Resume.)
HighRiskApproved ==
    \A e \in execs :
        LET r == e[1]  t == e[2] IN
        /\ t \in CanExecute[input[r].user]
        /\ t \in HighRisk =>
              /\ IsResume(r) /\ Granted(r)
              /\ input[r].decision = "approve"
              /\ cards[held[r]].tool = t
              /\ cards[held[r]].owner = input[r].user
              /\ cards[held[r]].thread = input[r].thread

\* A card only ever asks its owner for something the owner may do, because
\* the ACL check comes before the approval check, and it waits in the slot of
\* its own thread.  (Chain order in react.go; AddApproval's key.)
CardsWellPlaced ==
    /\ \A c \in CardIds : cards[c].tool \in CanExecute[cards[c].owner]
    /\ \A t \in Threads : store[t] # 0 => cards[store[t]].thread = t

\* The agent is run again only after its card has left the store, unless the
\* command that deletes it failed, and the card never comes back, however the
\* run ends and whoever fails.  (README: the card is deleted before Generate is
\* called.)
DeletedBeforeRerun ==
    \A r \in Requests :
        held[r] # 0 /\ pc[r] \in {"run"} \union Answers
            => ~InStore(held[r]) \/ r \in undeleted

\* A decision that arrives when the card has left the store is never accepted
\* for that card: of two decisions sent one after the other's deletion the
\* second is refused.  (DOC-03: the first is valid, later ones get 404.)
LateDecisionRefused == \A r \in Requests : <<r, held[r]>> \notin late

\* A card is good for the run it was accepted for, and for nothing after it.
CardSpent == DeletedBeforeRerun /\ LateDecisionRefused

\* An answer announces a card exactly when there is one: an interrupt is
\* backed by a card of this very request, and a plain reply hides none.
InterruptsAnnounced ==
    \A r \in Requests :
        /\ pc[r] = "interrupt" => Interrupted(r)
        /\ pc[r] = "reply" => ~Interrupted(r)

\* A streamed chat whose text asks for a high-risk tool its user may execute
\* never ends in a plain reply: the model's call or the check after the run
\* leaves a card.  (checkIntentRisk, with the middleware it relies on.)
IntentGated ==
    \A r \in Requests :
        /\ input[r].kind = "chatStream"
        /\ input[r].intent # NoIntent
        /\ input[r].intent \in CanExecute[input[r].user]
        => pc[r] # "reply"

\* Whoever has to decide learns of it, and can decide: cards and answers
\* belong together.
CardsAnnounced == CardsWellPlaced /\ InterruptsAnnounced /\ IntentGated

\* What the gate sees of the flow: of a card its owner and tool, and a decision
\* granted at the moment the handler has checked owner and expiry.
Accepted(r) == IsResume(r) /\ Granted(r) /\ input[r].decision = "approve"

GateCards ==
    [c \in CardIds |-> [owner |-> cards[c].owner, tool |-> cards[c].tool]]
GateGrants ==
    {[req |-> r, card |-> held[r], by |-> input[r].user] :
        r \in {q \in Requests : Accepted(q)}}
GateExecs ==
    {[req |-> e[1], tool |-> e[2], by |-> input[e[1]].user] : e \in execs}

\* The contract of ApprovalGate.
Gate == INSTANCE ApprovalGate WITH
    cards <- GateCards, grants <- GateGrants, execs <- GateExecs

\* The handlers implement the gate.
GateSpec == Gate!Spec

\* Every request that reached its handler is answered or cut off by a crash.
\* (A request is served once: in the end each is over or was never sent.)
RequestsAnswered ==
    <>[](\A r \in Requests : pc[r] \in {"idle"} \union Over)

\* A card that has expired does not stay in the store.  (There are finitely
\* many cards: in the end none in the store has expired.)
ExpiredCardsDropped ==
    <>[](\A t \in Threads : store[t] = 0 \/ ~Expired(store[t]))

\* README, one-time consumption: the agent is not run again a second time for
\* the same card.
OneShot ==
    \A r, s \in Requests :
        /\ held[r] # 0 /\ pc[r] \in {"run"} \union Answers
        /\ held[s] # 0 /\ pc[s] \in {"run"} \union Answers
        /\ held[r] = held[s]
        => r = s
=============================================================================
