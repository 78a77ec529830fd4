# Agent-Basic-Framework: TLA+ models, checks and proofs

The repository is a Go server (gin, eino) around an LLM agent, with a small web
client. A user logs in, chats in a thread, and a supervisor agent routes the
question to specialists that call tools. Tools pass an access-control check;
high-risk tools need the approval of the user. Histories are kept per thread
and cut down to the context window of the model before each call.

The modules here model the parts of the server that hold state shared between
requests, or that transform it in several steps, and say what must stay true
however these steps interleave.

Contents: [inventory](#inventory), [plan](#plan), the modules
([ApprovalFlow](#approvalflow), [SessionStore](#sessionstore),
[ContextProcess](#contextprocess), [Conversation](#conversation),
[MemoryStore](#memorystore), [Settings](#settings),
[LLMTransport](#llmtransport), [EventStream](#eventstream)),
[runs](#runs), [fairness](#fairness), [proofs](#proofs),
[where code and documents differ](#where-code-and-documents-differ),
[what is not modelled](#what-is-not-modelled), [how to run](#how-to-run).

## Inventory

Paths are relative to the repository. "Steps" are the points between which
another goroutine can run.

**Approval store and middleware** (`internal/hitl`). State: one pending
`InterruptCard` per thread, with its owner, tool and expiry. Operations:
`AddApproval`, `GetApproval` (which deletes an expired card, under a second
lock), `RemoveApproval`, `ListApprovals`, a cleanup goroutine. The middleware
lets a high-risk call through only when the context holds an approval for the
name of this tool; otherwise it saves a card and interrupts the run. Hard:
decisions that overlap, expiry between two steps, `RemoveApproval` by thread
rather than by card. Correct means: a high-risk tool runs only under an accepted
approval of its owner; every interrupt the client sees has a card; a card that
was used cannot be used by a decision that comes later.

**HTTP handlers of the agent** (`internal/agent/handler.go`, `stream.go`).
`Chat`, `ChatStream`, `Resume`, `ResumeStream`, and the readers `GetHistory`,
`GetStats`. State: the supervisor (replaced on a change of settings), the stores
they call. Each request is a goroutine; a streamed one also has callbacks that
write to the client, and a goroutine per specialist. Hard: four ways in which an
interrupt can surface; the end of the stream announced by a callback; the wait
for the collector with its limit of five seconds. Correct means: every request
is answered; what a request stores in the history is in order and complete.

**Streams and the emitter** (`SSEEmitter` in `stream.go`). State per request: a
mutex, five flags (two of them, for specialists that are tools, are never set) and
two sets with which the callbacks of models and tools decide what to write; the
handler writes to the same response when the run is over. Hard: specialists run
side by side, what all of them say goes into one stream of answers, the handler
adds the final message if it finds none, a call is announced by its chunk or by
its start. Correct means: one end, last; after an interrupt nothing but ends and
errors; the final message once, and no other text after it; no result without its
call.

**Supervisor, specialists, ReAct agent** (`supervisor.go`, `react.go`,
`collector.go`, `callback.go`). `react.go` builds the chain ACL, approval, tool.
The wrappers in `supervisor.go` put every message of a specialist into the
`MessageCollector` of the request, from a goroutine when streaming.

**Message store** (`internal/context/store.go`). State: messages and owner of
each thread. `Get`, `Append`, `SetOwner`, `GetOwner`, `Clear`; each is one
critical section (memory) or one command (Redis), and the handlers ignore the
error of a command. Hard: requests of one thread interleave their operations; a
message can be missing, and a crash can end a request between two of its own.
Correct means: what a request stores is in order and complete, the next chat sees
it, and its user reads question and answer.

**Context management** (`internal/context/manager.go`, `trim.go`,
`structure.go`, `counter.go`, `summarizer.go`). State: a configuration behind a
lock; `Process` takes a snapshot and is sequential after that: short circuit,
summary, `TrimByToken`, FINAL_GUARD. Hard: three steps cut one list with two
notions of a unit (message, group), at boundaries of token counts that may be
zero. Correct means: no system message is lost, a tool call and its answers stay
together, the end of the conversation stays, nothing is dropped without need.

**Sessions** (`internal/auth/session.go`, `middleware.go`, `handler.go`). State:
a map of sessions with status and times. `Create` (counts, evicts the oldest,
stores), `Get` (marks the overdue), `Renew`, `Delete`, cleanup. Hard: each loads
an entry, changes a copy and stores the copy, with no lock over the three.
Correct means: nobody is authenticated past the maximum lifetime, nobody loses a
session before its end, what has ended stays ended, at most three sessions per user.

**Users, roles, ACL** (`internal/auth`): tables behind a mutex and a role check;
constants of the models. **Tool registry and tools** (`internal/toolreg`):
filled at start; the tools are pure. **Wiring, router, web client**:
straight-line start-up, and the client, which in the models may send anything in
any order.

**LLM transport** (`internal/agent/llm.go`). State of one call: the loop counter,
the body put back for each attempt, the response of the last. `RoundTrip` repeats
on 429 and on errors, after `Retry-After` or a capped exponential with jitter.
Hard: an attempt uses the body up or not, responses must be closed, the sleeps do
not watch the deadline of the caller. Correct means: the whole question every
time, the waits that were asked for, an answer is never asked for again, and the
call ends soon after the deadline whatever the server does.

**Long-term memory** (`internal/memory`). State: per user a map from key to an
entry with an id, and a counter for ids, in memory or in Redis. `Put` of the
Redis store is `HGET`, `INCR` and `HSET`, any of which can fail or be the last
before the server stops; a chat saves several entries one after the other and
ignores errors. Correct means: callers cannot tell the store from a map with
atomic operations, and an id names one entry.

**LLM settings** (`internal/settings`, the callback in `cmd/server/main.go`,
`UpdateConfig` of the context manager). State: the settings in memory and in a
file; the supervisor, the configuration of the context manager and the memory
extractor, each with the model it was built with. `UpdateSettings` resolves a
masked key, saves, and replaces the three one after the other; `UpdateConfig`
reads, merges and stores without a lock over the three. Hard: administrators
that overlap, each step failing, a stop between any two. Correct means: what was
answered as saved is in the file and in use everywhere, what could not be saved
is not used, and the mask of a key is never taken for a key.

`PROJECT.json` lists every component with its status, and the hazards, each at
its line with the properties that would catch it.

## Plan

Done, in this order:

1. `ApprovalFlow`, which composes store, middleware chain and the four handlers,
   and its contract `ApprovalGate`; proofs in `ApprovalProofs`.
2. `SessionStore`; proofs in `SessionProofs`.
3. `ContextProcess`; proofs in `ContextProofs`.
4. `Conversation`: handlers, collector and message store on one thread; proofs
   in `ConversationProofs`.
5. `MemoryStore` and the abstract `MemoryMap` it implements; proofs, the
   refinement among them, in `MemoryProofs`.
6. `Settings`; proofs in `SettingsProofs`.
7. `LLMTransport`; proofs in `TransportProofs`.
8. `EventStream`; proofs in `EventProofs`.
9. `GetHistory` in `Conversation`; failures of Redis and restarts in
   `Conversation` and `ApprovalFlow`.

Next, in this order:

10. The Redis store of sessions, with its sorted set per user.
11. The chat handlers as readers in `Settings`: supervisor and extractor are read
    at different points of a request, around a rebuild.

Bounds of the planned runs: two writers, two values, one reader each.

## ApprovalFlow

Models `internal/hitl/store.go` and `middleware.go`, the ACL middleware of
`internal/toolreg`, the order of the chain in `react.go`, the approval path of the
four handlers, and the two readers of cards (`GetHistory`, `ListCheckpoints`).

| State | Code |
|---|---|
| `pc[r]`, `held[r]` | where the handler of request `r` is, and its variable `card` |
| `calls[r]` | the tool calls of the run of `r` (the emitter's `calledToolNames`) |
| `store[t]`, `cards` | the map of `MemoryApprovalStore`, or the keys in Redis; the cards |
| `expired` | the clock: all cards live equally long, so they expire in order of creation |
| `execs`, `late` | history: tools executed; requests that arrived after a card had left |
| `undeleted`, `faults` | history: requests whose `RemoveApproval` failed; the number of failures |

| Action | Code |
|---|---|
| `Arrive` | the handler binds its input; `ResumeStream` refuses unknown decisions, `Resume` does not |
| `GetApproval`, `DropExpired` | `GetApproval` under the read lock; its deletion under the write lock |
| `CheckCard`, `RemoveApproval` | checks of owner and expiry; removal before the run, or of an expired card |
| `CallDenied`, `CallExecuted`, `CallRejected`, `CallInterrupted` | one tool call through the chain; the last one is `AddApproval` and the interrupt |
| `FinishRun`, `CheckIntentRisk` | `Generate`/`Stream` returns; the check of the text after a streamed chat |
| `Cleanup`, `TimeToLive`, `Expire` | the cleanup goroutine; the TTL of a key in Redis; the passing of time |
| `GetApprovalFails`, `Crash` | a GET or DEL of `GetApproval` fails; the server stops and comes back |

The agent is free to call any tools in any order up to `MaxCalls`. Calls of one
batch run side by side, so a run that was interrupted may still finish others.

One model stands for both stores: a behaviour without failures may be either. When
Redis fails the store does not say so. `AddApproval` then announces a card that is
not there, `GetApproval` finds none, and `RemoveApproval` leaves the card. `Crash`
ends all requests under way and keeps the cards (Redis) or drops them (memory). A
reader goes through `GetApproval` like a decision, and so may delete an expired
card, or the fresh one that has taken its place.

`ApprovalGate` is the promise without threads and stores: cards are issued to
those who may execute, granted by their owner while valid, and a high-risk tool
runs only under a grant. `GateSpec` states that the handlers implement it, with
a grant at the moment the handler has checked owner and expiry. The gate does
not promise that a card is granted once, because the handlers do not keep that
(`OneShot`).

## SessionStore

Models `MemorySessionStore`, `Login`, `Logout` and `AuthMiddleware`. A goroutine
serves one request after the other; each method is cut where it loads (`Scan`,
`Get`, `GetOverdue`, `Renew`, `Logout`, `CleanVisit`) and where it stores what
it has made of the copy (`Store`, `Evict`). `Range` visits one key per step.
`sessions` is the map, `copy[p]` the copy in hand, `found[w]` what `Create` has
collected, `stamp` the time `cleanExpired` read at its start. `LastExpiry` and
`Renewed` are the arithmetic of `Renew`, `Overdue` the comparison of `Get`.

`RedisSessionStore` does GET, change, SET in the same places and adds a TTL to
the key; it is not modelled apart.

## ContextProcess

Models one call of `Process`. A message is its position in the list, so a list
is a set of positions; the operators `Starts`, `Answers` and `From` say what
`groupMessages` and the loops over groups compute, and `CutAt` where the loop of
`TrimByToken` stops, with its special case for the first group. `Summarize`
replaces everything but the recent messages by message 0. `GuardDrop` and
`GuardReturn` are the rounds of FINAL_GUARD.

The model is sequential; what is hard is the arithmetic and the way the steps
feed each other, so TLC takes every list of up to five messages under every kind
of configuration, and the proofs are for lists of any length.

The token counter is a given number per message. That it may fail, in which case
`Process` keeps the list as it is, is not modelled.

## Conversation

Models what the requests of one thread write into its history. `Load`, `Ask` and
`SetOwner` are the three store operations with which a chat begins; a decision
(`Decide`) loads and stores nothing at first. Specialists are started, fail, are
interrupted or return (`Route`, `Fail`, `Interrupt`, `Return`); from then on
`Collect` is one `Add` of the wrapper. The `Finish...` actions are the ways in
which `Generate` or `Stream` ends; `StopWaiting` is the end of the wait for the
collector, for whatever reason; `Store` is one `Append` to the history; `Tell`
and `TellNothing` end the request. `batch[r]` is what remains of the list the
handler is storing, `early[r]` the emitter's `sentInterrupt`.

What a message says is left out; `Steps` gives the kinds of the messages of a
specialist in order. `late[r]` remembers that the handler of `r` stopped waiting
although messages were missing, `prior[r]` which requests were over when `r`
loaded the history.

The store may be the one in memory or the one in Redis. In Redis a command can
fail, and the handlers go on: without history (`LoadFails`), without the message
(`Push`, which notes the hole in `holes[r]`), without the owner (`SetOwner`).
`Crash` stops the server and starts it again, with the Redis store (the history
stays) or the one in memory (it is gone, as are the cards); requests under way are
over, whatever they were about to store, and the client is not told. A message is
stored or not: that go-redis repeats a command when only its answer was lost, and
so may store a message twice, is left out, and so is a history that is empty after
one restart, when Redis was not there, and back after the next.

`GetHistory` reads the log and changes nothing, so it is an operator: `Shown` is
what it shows, `Visible` what it looks at (text, of question or assistant),
`Continues` its rule that of several messages of the assistant in a row the last
one takes the place of the others. Whether a message with a call has text too is
left open: the property takes both cases.

How the modules fit: `ApprovalFlow`, `Conversation` and `EventStream` are three
views of the same four handlers. The first keeps cards and tools, the second
history and collector, the third what the client reads; each reduces the rest to
the moment it needs of it ("some request was interrupted", "the text asks for a
high-risk tool"). They share no state but these moments, so no module composes
them. `ContextProcess` is what happens to the history between `Load` and the run.

## MemoryStore

Models both memory stores and the requests that use them. `redis` is which store
the server chose at start. `entries` and `nextId` are what is stored, `todo[r]`
the operations request `r` has yet to do, `pc[r]` and `held[r]` the point and the
`newEntry` of the `Put` under way, `seen[r]` the answer of the last list,
`lost[r]` the number of errors.

| Action | Code |
|---|---|
| `PutLocked` | `InMemoryMemoryStore.Put`, under its lock |
| `Look`, `LookFails` | `HGET`: found, missing, or an error, which is taken for missing |
| `Draw`, `Write` | `INCR` and `HSET` of `RedisMemoryStore.Put` |
| `Delete`, `List` | one critical section or one command; the list also before a chat |
| `Return`, `Fail` | the operation returns, with an error in the second case |
| `Crash` | stop and start at any point; only Redis keeps anything |

`MemoryMap` is the promise: a map with atomic operations, each of which may fail
with or without effect when the store is durable. `MapSpec` states that both
stores implement it: `Write` is where a `Put` of the Redis store takes effect.
The map keeps contents only. Ids and creation times do not follow it: a `Put`
that overlaps with a `Delete` may bring an id back (see below); what holds of ids
is `IdsDistinct`.

## Settings

Models `SettingsStore`, `UpdateSettings` and `GetSettings`, the callback of
`main.go`, and `UpdateConfig`. A model is represented by the settings it was built
from, a text of a key by the key and whether it is its mask. An administrator
works in a tab, one request at a time; `shown[t]` is what its form holds, however
old.

| Action | Code |
|---|---|
| `View`, `Update` | `GetSettings`; `UpdateSettings` up to `Save`, with `Resolve` for the mask |
| `Save`, `WriteTemp`, `Rename` | `Save`, which holds the lock of the store from the first to the last |
| `RenameFails`, `Truncate`, `Fill` | its fallback: the file is written in place |
| `Rebuild`, `Configure`, `Extract` | `RebuildSupervisor`, `SetConfig` and `SetMemoryExtractor` in the callback; the answer |
| `ReadConfig`, `SetConfig` | `UpdateConfig` |
| `Restart` | the server stops at any point and starts from file and environment |

`current` and `file` are the two copies in the store, `file` being `None` when it
is missing or cut off. `usable`, `alone` and `answered` are history: what was ever
in the file or started with, whether another request overlapped, and the last
settings answered as saved. An update that others overlapped promises nothing:
two of them can leave the file of one and the supervisor of the other, and
`UpdateConfig` can put the old model back.

## LLMTransport

Models `RoundTrip` of one request. `cfg` is the configuration of the transport,
`pc` and `attempt` the loop, `body` what the next reader of `req.Body` gets,
`open` the responses not closed, `wake` the end of the sleep, `clock` the time;
`sent` and `outcome` are history: each attempt with the body it carried and when,
and how it ended.

| Action | Code |
|---|---|
| `ReadBody`, `ReadBodyFails` | the defaults, the body read into memory |
| `Send` | the inner transport takes the request and reads the body, or fails before |
| `EndAttempt` | the server answers, refuses with 429 or fails; only failure after `Deadline` |
| `PassOn` | `MaxRetries` -1: what the inner transport returned is returned |
| `ReturnResponse`, `GiveUpAfterFailure`, `GiveUpAfterLimit` | the returns of the loop |
| `SleepAfterFailure`, `SleepAfterLimit` | `time.Sleep`, with `calcBackoff`, `parseRetryAfter` and the jitter |
| `Wake` | the next round, which puts the body back |
| `Tick` | time passes, in flight or asleep |

The code's own steps take no time and timers fire on time; sleeps count in
seconds where the code has nanoseconds. A server may ask for a negative wait
(`strconv.Atoi` accepts it), which is no wait.

## EventStream

Models the emitter with all its callbacks and the endings of `ChatStream` and
`ResumeStream`. `events` is the response, `handler` where the handler stands and,
between the end of the run and the end of the request, how the run ended. The
flags have the names of the code.

| Action | Code |
|---|---|
| `OnStartModel`, `OnTextChunk`, `NoText` | `OnStart` of a model; a text chunk of its stream, or none |
| `OnCallChunk`, `HostCalls` | the chunk with a tool call (its id or name is marked), or with calls of specialists |
| `SpecialistEnds` | the end of a specialist: its output is closed, nothing is noted or written |
| `OnStartTool`, `OnEndTool` | `OnStart`, `OnEnd` for a tool: call, result |
| `OnErrorInterrupt`, `OnError` | `OnError` with an interrupt, and with anything else |
| `InterruptUnseen`, `StartSummarizer`, `RunEnds` | the run: an interrupt `OnError` does not see, the reports are in, what `Stream` or `Recv` returned |
| `StreamInterrupted` ... `Ended` | the branches of the handlers after that |

The run is the environment: `at[n]` says where host, summarizer or a specialist
stands, `team` whom the host called, `using`, `made` and `spoke` what they do.
Assumed of it: a message is at most one chunk of text and then at most one chunk
of calls, each specialist makes one call at a time, a single report is the final
message and several go through the summarizer, an interrupt that `OnError` did not
see is returned by `Stream` or `Recv`, no callback is called when these have
returned. Each callback, and each chunk, is one critical section of the emitter's
mutex, so a step.

A specialist is a Lambda node of the host's graph: `supervisor.go:79-87` gives eino
its `Invokable` and `Streamable`, and `docs/DOC-03.md:18` calls it so. Its start and
its end therefore do not reach the branches for a specialist that is a tool
(`stream.go:135-146`, `174-178`): `routedToSpecialist` and `specialistCompleted`
keep their `false`, no `routing` event is written, and each text is an answer, of
whichever node. The model has neither the two flags nor the event. What its model
and its tools do calls back from inside the Lambda like anybody else's.

An interrupt without an `ApprovalInfo` (`stream.go:271-273`, `579-580`) is left out:
the only place that interrupts, `internal/hitl/middleware.go:131`, always gives one.

## Runs

| Run | Question | Result |
|---|---|---|
| `approval` | Do checks, removal and middleware hold whatever overlaps, fails or restarts, do the handlers implement the gate, is every request answered and does every expired card go? | holds |
| `approval_one_shot` | Is the agent rerun at most once per card, as the README says? | violated |
| `sessions` | Do the time limits and the end of a session survive overlapping copies? | holds |
| `sessions_limit` | Does the limit hold for overlapping logins? | violated |
| `sessions_logout` | Is a logged-out session never active again? | violated |
| `context` | Is what `Process` drops the right thing, and does it return? | holds |
| `context_pairs` | Does the summary keep calls and answers together? | violated |
| `conversation` | Is the history of a thread in order and complete, does every request end? | holds |
| `memory` | Do both memory stores behave as a map with atomic operations, under errors and restarts? | holds |
| `settings` | Is what was answered as saved really saved and in use, are failures harmless? | holds |
| `transport` | Are retries, waits and bodies right whatever the server does, and does the call end in time? | holds |
| `events` | Does the client read one end, the final message once and last, and every call before its result, however specialists run and fail? | holds |

Properties, by run:

- `approval`: `HighRiskApproved`; `CardSpent` (`DeletedBeforeRerun`: the card has
  left the store before the agent is run again, unless Redis failed to delete it; `LateDecisionRefused`: a decision
  that comes when the card is gone is refused, what remains of "used once" when
  decisions do not overlap); `CardsAnnounced` (`CardsWellPlaced`,
  `InterruptsAnnounced`, `IntentGated`: who is asked, and that a card is behind
  every interrupt); `GateSpec`; `RequestsAnswered`, `ExpiredCardsDropped`. All of
  them with failures of Redis and a crash.
- `sessions`: `KeptInTime` (a session that neither its entry nor a copy about to be
  stored ends before a time `e` is lost before `e` only by eviction or logout:
  renewals that overlap do not bring the end forward, the cleanup with its old clock
  does not take it), `AuthWithinLifetime`, `EndedForGood` (a session that has ended
  while no renewal of it was under way stays ended: what remains of `LogoutFinal`).
- `context`: `WantedKept` (`SystemKept`, `EndKept`), `PairsWhole`,
  `DroppedForSpace`, `FitsOrLastGroup`, `Returns`.
- `conversation`: `StoredInOrder`, `AnswerComplete`, `NextChatSeesAll`,
  `HistoryTells` (a user alone in the thread reads the question and directly after
  it the answer), `RequestsEnd`. All of them with crashes; where a message that
  could not be stored must make a difference, the property says so (`holes`).
- `memory`: `IdsDistinct`, `MapSpec`.
- `settings`: `OnlySavedUsed`, `AnswerHolds` (`AnsweredIsSaved`,
  `AnsweredIsUsed`), `MaskNeverStored`.
- `transport`: `RepeatsSafely` (`RepeatsWhole`: every attempt carries the whole
  body; `AnswerIsLast`: what was answered is not asked again, all responses but
  the one returned are closed), `WaitsAsAsked`, `ReturnsSoonAfterDeadline`,
  `CallReturns`.
- `events`: `EndsOnce`, `AnswersShown` (once a node has ended the run with text,
  that text has been shown, and no other text or second copy follows),
  `ResultsFollowCalls` (if the provider gives ids to calls), `StreamEnds`.

Each component also has a `TypeOK`. Every property of a passing run has a mutant
(an operator beside the one it changes, named after it) that violates it.

Bounds, and why they are enough:

- `ApprovalFlow`: one thread, since no operation touches two. A chat, streamed or
  not, and two decisions, which can race for one card; instead of the second one a
  reader. The plain chat is of the user who may not send mail, since it differs
  from the streamed one only in what follows the run. Two tools, one high-risk as
  in `risk.go`. `MaxCalls` 2, so that a run can go on after an interrupt, a denial
  or an execution, and leave a second card. One failure of Redis or one crash
  (`MaxFaults`), at any point; the proofs are for any number.
- `SessionStore`: TTL 1, renewal below 1, maximum lifetime 3, clock up to 4: a
  session can expire, be renewed twice, the second time up to the cap, be given two
  expiries by renewals that overlap, and pass the cap. (In the runs that find a
  violation 2 and 3.) Two goroutines and the cleaner, two ids, one user, limit 1:
  logins that overlap, eviction, logout against renewal against cleanup. Ids and
  goroutines are symmetric, and the properties of the run are safety properties.
- `ContextProcess`: `MaxLength` 5 is a system message, a call, two answers and
  the question, or two pairs and the question. Sizes 0 to 2 against windows of 2
  and 4 put every boundary (equal, one above, zero) within reach. `GuardRounds`
  is 2 instead of 10, so that lists of five messages can use the rounds up.
- `Conversation`: one request with up to two specialists of two messages each
  and a second request without specialists (a chat) or with one (a decision).
  One of the first may be interrupted while the other is collected; the second
  request can begin before, between and after all stores of the first. One
  failure of Redis or one crash (`MaxFaults`), at any point: after the first crash
  only requests that have not begun are left.
- `MemoryStore`: two users, two keys, two contents, three requests: a chat that
  saves two entries (or one twice), a second request that puts, deletes or puts
  for the other user, a third that lists or puts. So two operations on one key
  can overlap, a third sees what they leave, and the failure of the first entry
  can precede the second. Errors and crashes at any point, without a bound.
- `Settings`: two tabs, one key of usual length (the environment has it too), one
  of 9 to 11 characters, one site, two updates (`MaxUpdates`): one that overlaps
  the other at any point, or follows it from a form that is out of date. Restarts,
  views and changes of the limits are not bounded.
- `LLMTransport`: four configurations (no retries, the defaults, two of their
  own) with waits of 1 to 5 seconds, so that the exponential doubles, meets its cap
  and has a jitter; `Retry-After` negative, none, short, and beyond cap and
  deadline; a deadline of 7 that can pass in flight, asleep, or after the end.
- `EventStream`: two specialists, of whom one, the other or both are called; two
  tools; one tool call for each specialist (`MaxCalls`), so that text can come
  before and after a call. Every interleaving of two specialists and the handler.

Deadlock is checked where requests never run out (`SessionStore`), the cleanup
goroutine runs for ever (`ApprovalFlow`) or the server may always restart
(`MemoryStore`, `Settings`). In `ContextProcess`, `Conversation`, `LLMTransport`
and `EventStream` every request is served once and the system then stops, so it
is not.

## Fairness

- `ApprovalFlow`: a handler that has started goes on (the Go scheduler; the run
  ends at the latest at `AgentTimeout`), and the cleanup ticker fires again and
  again. Nothing is assumed of clients, and time need not pass.
- `SessionStore`: the same for goroutines and the cleanup goroutine. No property
  there needs it today; it says which steps the scheduler owes.
- `ContextProcess`: the goroutine runs on; the model's answer to a summary comes
  or fails, at the latest at `AgentTimeout`.
- `Conversation`: handlers go on, specialists need not: `RequestsEnd` holds
  because of `AgentTimeout` (`FinishError`) and the limit of five seconds
  (`StopWaiting` has no guard on the collector).
- `LLMTransport`: the loop runs on, time passes, and the inner transport notices
  the end of the context (`DeadlineFailure`). The server owes nothing.
- `EventStream`: some goroutine of the run goes on, which for each node includes
  its own failure (the deadline, the limit of steps), and the handler goes on.
- `MemoryStore` and `Settings` state safety only and assume no fairness.

## Proofs

All theorems are proved with tlapm (SMT, Zenon, LS4) for every value of the
constants that satisfies the named assumption of its module
(`ApprovalAssumption`, `SessionAssumption`, `ContextAssumption`,
`ConversationAssumption`, `MemoryAssumption`, `SettingsAssumption`,
`TransportAssumption`, `EventAssumption`: shapes of the inputs, names apart,
finitely many specialists, and `TTL <= MaxLifetime`; the one of the transport also says that the powers of 2 it
uses are natural numbers, since the provers have no theory of exponents). TLC evaluates these on every run.

`ApprovalProofs`. `TypeCorrect` comes first. `StepInv` says where a handler holds
a card and that a card in hand was checked for its owner and belongs to the
thread of the request; with `CardsWellPlaced` it is inductive (`HandlerInv`).
From it `HighRiskApproved` (a run covers a tool only through the card in hand,
which never changes during a run), `DeletedBeforeRerun` and
`LateDecisionRefused`. These two need that a card which has left the store never
comes back (`OutStaysOut`: `AddApproval` only stores new cards) and, for the
second, `LateInv`; together they are `CardSpent`. `InterruptsAnnounced` and
`IntentGated`, the rest of `CardsAnnounced`, follow from
`InterruptInv`: what the calls of a run and the cards it issued have to do with
each other. `ImplementsGate`: `StepGate` shows for each action which step of the
gate it is. An owner's approval that passes the check is `Grant`, a call executed
`Execute`, an interrupt or an intent that leads to a card `Issue`, an expiry
`Expire`, and everything else none; `StepInv` says that the card in hand at an
execution is one the gate has granted.

`OneShotAlone` says what the violation of `OneShot` needs. Two more formulas are
assumed at every state: at most one decision of a thread is between its look-up
and the removal (`DecisionsAlone`), and Redis has deleted what it was told to
(`AllDeleted`). Then a card in use is in one request's hands (`CardAlone`): it
comes into use when `GetApproval` finds it in the store (`ComesIntoUse`), and the
one who used it before has taken it out for good. So the overlap of two decisions
and the deletion that fails are all that can lead to a second run; expiry, cleanup,
crashes and readers of the history cannot.

`SessionProofs`. `TimesInv`: every copy of a session, stored, in hand or found by
`Create`, respects the maximum lifetime (`LifetimeBound`), ends at most one TTL from
now and, if expired, is overdue (`Sound`). It holds of copies rather than of
entries, because a stale copy may be stored at any time. With the comparison in
`Get` it gives the action property `AuthWithinLifetime`. It also says that a renewal
never ends before the entry it was made from, and that the clock of the cleanup is
not ahead; from these, step by step, `KeptInTime`.
`KeysInv`: an id that is being
drawn is not in the map and in one goroutine's hands. It gives `EndedForGood`:
nobody inserts over an ended session, and every other store either writes a
status that is not active or comes from a renewal that was under way.

`SessionsKeepOwner`: `OwnerInv` says that a copy in hand names the user and the
login of the entry it will be stored over. The violated `SessionLimit` and
`LogoutFinal` hold under one more assumption, `MethodsAlone`: no two goroutines
are inside `Create`, `Get`, `Renew` or `Delete` at once, while the cleanup still
runs between any two of their steps. For `LogoutFinalAlone`, a session that is
revoked is over, with no renewal under way (`RevokedOver`). For
`SessionLimitAlone`, `LimitInv` counts claims: the active sessions of a user and
the one somebody is about to store as active number `MaxSessions` at most
(`ClaimsInv`), and `Create`, between its count and its insert, has found all of
them or has ended one (`CreateInv`). So a lock over each method would be enough
for both, and the cleanup needs none.

`ContextProofs`. `CutInv`: what is kept of the base is a `WholeTail`: all system
messages, and the rest from the start of a group on. This is reflexive and
transitive, and each cut makes one of what it is given (`CutStep`), so it holds
after any number of cuts. `PairsWhole` and `EndKept` follow, `SystemKept` with
`BaseInv` (the two are `WantedKept`). `FitsOrLastGroup` is inductive by itself.

`DroppedForSpace` is inductive with `Untrimmed` (until `TrimByToken` runs the list
is the one after the summary) as `SpaceInv`. It compares sums of token counts, and
a sum is a fold of the library that takes its terms in an order of its own.
Induction is possible here without a theorem that takes an operator: a set of
numbers with 0 and all successors is `Nat` (`AllNat`), applied to the set of the
cardinalities up to which all sums exist (`SumsExist`), do not depend on the order
(`SumRemove`) and only grow with the set (`SumMonotone`). `TrimByToken` keeps the
longest end that fits; `FINAL_GUARD` drops a group only when the list with it is
too long, and what was dropped before it only makes that longer. `CanGoOnAlways`:
the cut `TrimByToken` looks for exists and is the only one (`CutExists`,
`CutUnique`), and while `FINAL_GUARD` does not return there is a group to drop.
With `StepsRunOut` (`StepsLeft` goes down at every step) nothing of `Returns` is
left but that `Process` is scheduled. `SeparatedInFrontAlways` bounds the damage
that the violation of `SummaryKeepsPairs` does: an answer whose call went into the
summary stands before everything else that is kept of the conversation, as
`BaseEnd` says of what the summary leaves.

`ConversationProofs`. `TypeOK` carries ownership (what is collected or in a batch
for a request is its own), how far a collector can be, and how often a request
that is not over has been announced. `NextChatSeesAll` needs `PriorInv`: a
request found to be over had been announced, or has died in a crash; unless the
callback announced it, it stores nothing any more. A crash empties the history and
what is known of it together, or keeps both.

`StoredInOrder` is inductive as `OrderInv`, with three parts. `CollectInv`: a
collector holds each specialist's first `got` messages, in order. `LogInv`: until
a request has a batch, nothing but its question is stored. `BatchInv`: what is in
a batch can be stored one message after the other (no question, the answer only
at the end, numbers of a specialist above those stored, each message with its
predecessor before it in history or batch unless there is a hole). For `AnswerComplete`,
`CompleteInv` says of a batch that ends with the answer that batch and history
together hold all messages of every specialist at work.

`HistoryTells` needs `TellsInv`: a request has loaded the history before it stores
anything (`SeenInv`), and stores its question before anything else
(`QuestionInv`). Between the messages of a request that was alone there is then
none of another (`AloneBetween`), and what follows its answer starts with a
question; `Least` names the next message of a view, by which `GetHistory` decides
what to show.

`MemoryProofs`. `IdsInv` adds to `IdsDistinct` that the id a `Put` is about to
write belongs to no entry elsewhere, and that two `Put`s that write the same id
write it to the same place (both found the same entry): without this a `Write`
could break `IdsDistinct`. `ImplementsMap` needs `TypeOK` only: `StepMap` shows
for each action which step of the map it is (`Look`, `LookFails` and `Draw` are
none), using that contents stored are exactly the entries with an id.

`SettingsProofs`. `TypeOK` splits into shapes and the mutual exclusion of `Save`.
`SavedInv` follows settings from the file through the callback and through a
merge of `UpdateConfig` to where they are used. `MaskInv` says of every copy of a
key, in a draft as in the store, that it is no recognisable mask; `Resolve`
keeps it because what it substitutes comes from the store. `AnswerInv` says what
an undisturbed update has achieved at each of its steps, that nothing is
"answered" while an update is between `Save` and its end, and that a merge under
way then holds the model in use; the two parts of `AnswerHolds` are its
conclusions.

`TransportProofs`. `LoopInv` is what the loop knows between attempts: the body is
whole, every earlier attempt has failed or was refused, only the response of the
last may be open; `RepeatsSafely` is inductive with it. `WaitInv` says that the
sleep under way, and the one just over, is the one asked for; it gives
`WaitsAsAsked` for the attempt that follows. `LateInv` bounds the clock by the
attempts that remain: once the deadline has passed each attempt fails at once, so
what is left is the sleep under way and one back-off for each round left. The
bound of `ReturnsSoonAfterDeadline` is then monotonic in the rounds.

`EventProofs`. `TypeOK` carries the agreement of the flags with the events.
`TeamInv` says who can run with whom (nobody called is idle, the summarizer waits
for all, a run with an interrupt has no final message), `QuietInv` that before
the handler returns there is no ending at all in the stream or, if the callback
has announced an interrupt, just that one, last. Every step
appends nothing, one event or two (`RunStepShapes`, `EndShapes`), and the handler
writes at most two; from these shapes `EndsOnce`. `CallInv`, with ids, says that
nothing is marked, so that a tool at work has been announced; it gives
`ResultsFollowCalls`. `AnswersShown` takes `AnswerInv`, which follows the node that
has said the last word of the run (`LastWord`: host or summarizer, or a specialist
called alone). A node about to speak finds that nobody has (`NoLastWordYet`), so no
text comes after the final one, nor a second from the handler, which finds
`sentAnswer` set; and if the last word is a text, no interrupt has been announced
that would keep it back.

`StepsRunOut`, in five of the modules, is the part of termination that the prover
can reach: an action property that every step takes something off a number which
nothing adds to. For a handler of `ApprovalFlow` the number is counted from its
step and the tools it has called (`StepsToCome`); the other requests, the cleanup,
Redis, the clock and crashes never raise it. For a call of the transport it is the
steps of the loop and the ticks of the clock together (`CallRank`), which uses the
bound of `ReturnsSoonAfterDeadline`. For a handler of `Conversation` it is the
stage it has reached and then what is left of its batch. For a stream each node
has its own, which falls although a specialist goes around its loop of model and
tools again and again: `Shrinks` says that no node gains and some node loses. That
the steps open until then are never none is `CanGoOnAlways` in `ContextProofs` and
`EventProofs`; there `StandInv` says where the nodes stand while the host, the
summarizer and the handler wait for them.

Left to TLC: liveness (`RequestsAnswered`, `ExpiredCardsDropped`, `Returns`,
`RequestsEnd`, `CallReturns`, `StreamEnds`), because fairness and `ENABLED` are
out of the prover's reach. Every safety invariant and action property that a
passing run checks is proved, as is the refinement of both abstract
specifications. The rows of `PROJECT.json` without a `property` (`StepsRunOut`,
`CanGoOnAlways`, `OneShotAlone`, ...) state formulas that no run lists.

## Where code and documents differ

With a run that shows it (see "findings" in `PROJECT.json` for the quotations):

- `OneShot`: two decisions that overlap both take the card before either removes
  it, and the agent runs twice with the approval.
- `SessionLimit`: two logins that overlap exceed the limit of sessions.
- `LogoutFinal`: a renewal stores an active copy over a logout.
- `SummaryKeepsPairs`: the summary cuts between messages, not between groups.

Met while modelling, without a run of their own:

- `internal/auth/session.go:93-101` and `178`: a renewal can be lost. One request has
  authenticated just before the expiry; just after it another request, or the
  cleanup, loads the session, overdue; the renewal of the first, which does not
  look at the expiry, stores a later one; then the copy marked expired is stored over
  it. The user is logged out although `docs/DOC-01.md:399` promises a renewal for a
  session with less than five minutes left. `KeptInTime` is about sessions nobody has
  found overdue: `Lasts` has the condition.
- `internal/hitl/store.go:190-193`: the comment promises a Lua script that reads
  and deletes at once; the code sends a DEL, and ignores its error. If the DEL
  fails, the card can be used again until it expires, whatever `README.md:328` says;
  if the SET of `AddApproval` fails, the client is asked about a card that is not
  there. `DeletedBeforeRerun` has the exception (`undeleted`); that no tool runs
  without an approval holds all the same.
- `internal/hitl/store.go:67-75`: between the two locks of `GetApproval` another
  request can store a fresh card, which is then deleted. The model has this step
  (`DropExpired`), and `HighRiskApproved` holds all the same; the user has to
  ask again. `GetHistory` (`manager.go:459`) takes the same way, so that reading a
  thread can delete a card that waits for a decision.
- `docs/DOC-03.md:981` answers a decision on an expired card with 410;
  `GetApproval` returns nil for it, so the answer is 404 unless the card expires
  between look-up and check.
- `internal/context/manager.go:223-257`: FINAL_GUARD may return a list above the
  limit (last group, or ten rounds used up). `docs/DOC-04.md:19` says that it
  makes sure the API does not answer 400; `docs/DOC-04.md:1209` admits the case of
  the ten rounds. `FitsOrLastGroup` states what does hold.
- `manager.go:187-199`: the comment at line 171 says that the recent messages stay
  as they are. If all messages together fit in half of the window (system messages
  or the ratio made the summary due), the search for the cut ends without one and
  the summary takes every message, the newest too. `Recent` has this case.
- `internal/context/store.go:81`: `README.md:392` says the owner of a thread is set
  with its first message. Every chat sets it: a user who chats in the thread of
  another becomes its owner, and the former one no longer reads the history.
- `cmd/server/main.go:202-206`: every update of the LLM settings also resets the
  limits that were set through `/api/context/config` to those of the start.
- `internal/context/manager.go:494`: an `UpdateConfig` that overlaps an update of
  the settings puts the old model back into the context manager.
- `internal/settings/handler.go:206`: a key of 9 to 11 characters has a mask with
  fewer than four stars, which is not recognised; saved from an unchanged form it
  becomes the key. `MaskNeverStored` excludes these keys (`Middle`).
- `internal/settings/store.go:85`: if the file cannot be written, the store keeps
  and shows the new settings, which are neither saved nor used. If the server
  stops or fails in the fallback at line 106, the old file is lost as well.
- `cmd/server/main.go:81-95`: after an update with an empty key the mock is used
  until the next start, then the key of the environment; `AnsweredIsUsed` is about
  what is not empty.
- `internal/memory/store.go:155-200`: a `Put` that overlaps a `Delete` of its key
  may write the old id and creation time back, and an error of `HGET` makes an
  entry that exists get a new id. `MapSpec` holds all the same: it is about the
  contents.
- `stream.go:285`: the callback announces the end before the handler has stored
  the notice; a client that asks at once gets a history without it.
  `NextChatSeesAll` excludes just this case.
- `stream.go:395-400`: if `Stream` itself returns the interrupt after the
  callback has announced it, interrupt and end are sent twice. `EndsOnce` allows
  this one repetition.
- `stream.go:76-80`: the comment announces that text is not written as an answer
  from the start of a specialist to its end, and `docs/DOC-03.md:712` and `836` call
  the `answer` event a piece of the final answer. But the flags for that are set for
  specialists that are tools (`stream.go:135-146`, `174-178`), and
  `supervisor.go:79-87` makes Lambdas of them: what the host says with its calls and
  what a specialist says on its way to its report is written as an answer too. The
  client that puts the pieces together gets all of it, the final message last.
  `AnswersShown` is what holds; the handler's fallback (`stream.go:489-495`) never
  has anything to add, and `routing` events are never sent.
- `stream.go:151`: if the provider gives its calls no id, the chunk marks the name
  of the tool, and `OnStart` takes the call for announced: the client gets results
  without calls. `ResultsFollowCalls` excludes such providers.
- `internal/agent/llm.go:92-120`: `docs/DOC-02.md:764` and `778` limit a run to 180
  seconds. `RoundTrip` sleeps without looking at the context, and after its end
  still tries and sleeps as often as it has retries left: with the defaults up to 31
  seconds, and a `Retry-After` of any length in full.
  `ReturnsSoonAfterDeadline` is what holds.
- `llm.go:113`: a negative `Retry-After` repeats at once; the cap of the back-off
  does not apply to `Retry-After`. (The shift in `calcBackoff` could overflow for
  dozens of retries only; the code has five, and two for the connection test.)
- `internal/context/manager.go:444`: of several messages of the assistant in a row
  `GetHistory` shows the last, whoever stored them: if two requests of a thread
  overlap, an answer that another request's message follows is not shown.
  `HistoryTells` is about requests alone in their thread.
- `handler.go:177`, `stream.go:308`: an `Append` that fails is ignored. The history
  can then hold an answer without its question, which hides the answer before it
  (`manager.go:444`), or a tool message without its call, which the API refuses in
  the prompt of the next chat. `StoredInOrder` and `HistoryTells` have this
  exception.
- `handler.go:390`: the comment announces that the guidance for the decision is
  stored, so that roles alternate; nothing is stored.
- `stream.go:482` stores the notice in a broken encoding, and the comparison in
  `storeInterruptMessages` does not recognise it.

## What is not modelled

- eino: which specialists are chosen, how a graph runs. External; each model states
  what it assumes of a run (above, with its module) and leaves the rest open: which
  specialists are called, what they say and call, in which order and how they fail.
- `RedisSessionStore`, which does GET, change, SET at the same places as the store
  in memory, but lets keys vanish by their TTL instead of a cleanup, counts in a
  sorted set and keeps what it holds over a restart. The fallback to memory at
  start.
- `internal/memory/inject.go`: which entries are found in a text, by patterns or by
  the model; in `MemoryStore` a chat saves any entries. The mock LLM, likewise: the
  model may say anything. `MemoryCheckpointStore`, which nothing uses.
- `internal/memory/store.go:164-167`, an entry in Redis that is not JSON: `Put` is the
  only one that writes entries, and writes them whole.
- The contents of messages, SSE framing, logging, password hashing, the tools.
- Crashes, except in `ApprovalFlow`, `MemoryStore`, `Settings` and `Conversation`: what is in
  memory is lost with the process, and nothing is recovered.
- The web client, `GetStats` and the lists that only read.

## How to run

    tlc -workers 2 -config MCApprovalFlow.cfg MCApprovalFlow
    tlapm ApprovalProofs.tla

and likewise for the other configurations and proof modules. The longest runs are
`conversation`, `approval` and `events` (two to three minutes), `context` and `sessions`
(about one).
