---------------------------- MODULE ContextProcess ----------------------------
(***************************************************************************)
(* One call of Process (internal/context/manager.go): the messages of a    *)
(* thread are cut down to what the model's context window holds.  Short    *)
(* circuit, summary, TrimByToken (trim.go), FINAL_GUARD.                   *)
(*                                                                         *)
(* A message is named by its position in the list Process is given, and 0  *)
(* is the summary.  Every step puts the system messages first and leaves   *)
(* the order of the others alone, with the summary before them, so a list  *)
(* is the set of the messages in it.  The token counter does not fail.     *)
(***************************************************************************)
EXTENDS Naturals, Sequences, FiniteSets, Functions

CONSTANTS
    Histories,     \* the lists Process may be called with
    Configs,       \* the configurations it may find
    SummarySizes,  \* how many tokens a summary may have
    GuardRounds    \* maxGuardIterations

\* plain: a user message, or an assistant message without tool calls.
Message == [kind : {"system", "plain", "call", "tool"}, tokens : Nat]

\* maxMessages and maxTokens: 0 for no limit.  ratio: SummaryThreshold in
\* tenths.  summarizer: whether there is a chat model to make summaries.
Config == [maxMessages : Nat, maxTokens : Nat, ratio : Nat, summarizer : BOOLEAN]

ASSUME ContextAssumption ==
    /\ Histories \subseteq Seq(Message)
    /\ Configs \subseteq Config
    /\ SummarySizes \subseteq Nat
    /\ GuardRounds \in Nat

VARIABLES
    history,  \* the messages Process was called with
    config,   \* the snapshot of the configuration
    pc,       \* the next step
    kept,     \* the list as it is now
    base,     \* the list after the summary step
    summary,  \* the tokens of the summary
    rounds    \* rounds of FINAL_GUARD

vars == <<history, config, pc, kept, base, summary, rounds>>

Positions == 1..Len(history)
Kind(i) == IF i = 0 THEN "plain" ELSE history[i].kind
Size == [i \in {0} \union Positions |-> IF i = 0 THEN summary ELSE history[i].tokens]
Tokens(K) == SumFunctionOnSet(Size, K)

Systems(K) == {i \in K : Kind(i) = "system"}
Others(K) == K \ Systems(K)

\* Message i of list K answers the tool call c: nothing but tool messages
\* stands between them.
Answers(K, c, i) ==
    /\ c \in Others(K) /\ i \in Others(K) /\ c < i
    /\ Kind(c) = "call" /\ Kind(i) = "tool"
    /\ \A j \in Others(K) : c < j /\ j < i => Kind(j) = "tool"

\* Starts of groups when every message is a group of its own.
StartsEach(K) == Others(K)

\* groupMessages: a tool message belongs to the group of the call it answers,
\* every other message starts a group.  A group is named by its first message.
Starts(K) == {i \in Others(K) : \A c \in Others(K) : ~Answers(K, c, i)}

\* The messages from g on.
From(K, g) == {j \in Others(K) : j >= g}

\* KeepFrom without the system messages.
KeepFromNoSystems(K, g) == From(K, g)

\* The list that is left when everything before group g is dropped.
KeepFrom(K, g) == Systems(K) \union From(K, g)

Init ==
    /\ history \in Histories
    /\ config \in Configs
    /\ pc = "measure"
    /\ kept = Positions
    /\ base = Positions
    /\ summary = 0
    /\ rounds = 0

-----------------------------------------------------------------------------
\* There is a limit, and the list exceeds it.
TooLong == ~(config.maxTokens = 0 \/ Tokens(kept) <= config.maxTokens)

\* Steps 1 and 2: return at once when neither limit is exceeded.
Measure ==
    /\ pc = "measure"
    /\ pc' = IF /\ config.maxMessages = 0
                      \/ Cardinality(Starts(kept)) <= config.maxMessages
                /\ ~TooLong
             THEN "done" ELSE "summarize"
    /\ UNCHANGED <<history, config, kept, base, summary, rounds>>

\* Step 3: the summary is due.
SummaryDue ==
    /\ config.summarizer /\ config.ratio > 0 /\ config.maxTokens > 0
    /\ Tokens(kept) > (config.maxTokens * config.ratio) \div 10

\* The messages of the end that fit in half of the window.
Recent == {i \in Others(kept) : Tokens(From(kept, i)) <= config.maxTokens \div 2}

\* The messages that stay as they are.  The loop that looks for the cut finds
\* none when all messages are recent, and then none of them stays.
Retained == IF Recent = Others(kept) THEN {} ELSE Recent

\* summarizeAndTrim: the rest becomes one message.
Summarize ==
    /\ pc = "summarize" /\ SummaryDue
    /\ Others(kept) # Retained
    /\ summary' \in SummarySizes
    /\ kept' = Systems(kept) \union {0} \union Retained
    /\ base' = kept'
    /\ pc' = "trim"
    /\ UNCHANGED <<history, config, rounds>>

\* No summary is due, there is nothing to summarise, or the model failed.
SkipSummary ==
    /\ pc = "summarize"
    /\ pc' = "trim"
    /\ UNCHANGED <<history, config, kept, base, summary, rounds>>

-----------------------------------------------------------------------------
(* Step 4: TrimByToken adds up groups from the end.                        *)

\* CutAt with < in place of <=.
CutAtStrict(K, g) ==
    LET max == config.maxTokens IN
    \/ /\ Tokens(From(K, g)) < max
       /\ \A h \in Starts(K) :
             h < g => Tokens(From(K, h)) >= max /\ Tokens(From(K, g)) > 0
    \/ /\ Tokens(From(K, g)) >= max
       /\ \A h \in Starts(K) : h > g => Tokens(From(K, h)) = 0

\* The loop stops at the first group that does not fit.  That group is taken
\* all the same when nothing has been counted so far.
CutAt(K, g) ==
    LET max == config.maxTokens IN
    \/ /\ Tokens(From(K, g)) <= max
       /\ \A h \in Starts(K) :
             h < g => Tokens(From(K, h)) > max /\ Tokens(From(K, g)) > 0
    \/ /\ Tokens(From(K, g)) > max
       /\ \A h \in Starts(K) : h > g => Tokens(From(K, h)) = 0

Trim ==
    /\ pc = "trim" /\ TooLong
    /\ \/ \E g \in Starts(kept) : CutAt(kept, g) /\ kept' = KeepFrom(kept, g)
       \/ Starts(kept) = {} /\ UNCHANGED kept
    /\ pc' = "guard"
    /\ UNCHANGED <<history, config, base, summary, rounds>>

SkipTrim ==
    /\ pc = "trim" /\ ~TooLong
    /\ pc' = IF config.maxTokens > 0 THEN "guard" ELSE "done"
    /\ UNCHANGED <<history, config, kept, base, summary, rounds>>

-----------------------------------------------------------------------------
(* Step 5: finalGuard.                                                     *)

\* GuardReturn that forgets the system messages.
GuardReturnOthers ==
    /\ pc = "guard"
    /\ \/ Tokens(Others(kept)) <= config.maxTokens
       \/ rounds = GuardRounds
       \/ Cardinality(Starts(kept)) <= 1
    /\ pc' = "done"
    /\ UNCHANGED <<history, config, kept, base, summary, rounds>>

\* GuardReturn that goes back to TrimByToken while the list is too long.
GuardReturnRetrim ==
    /\ pc = "guard"
    /\ \/ ~TooLong /\ pc' = "done"
       \/ TooLong /\ pc' = "trim" /\ Cardinality(Starts(kept)) <= 1
    /\ UNCHANGED <<history, config, kept, base, summary, rounds>>

\* The list fits, the rounds are used up, or there is nothing left to drop.
GuardReturn ==
    /\ pc = "guard"
    /\ \/ ~TooLong
       \/ rounds = GuardRounds
       \/ Cardinality(Starts(kept)) <= 1
    /\ pc' = "done"
    /\ UNCHANGED <<history, config, kept, base, summary, rounds>>

\* One round too many.
GuardDropLate ==
    /\ pc = "guard" /\ TooLong /\ rounds <= GuardRounds
    /\ \E f, g \in Starts(kept) :
          /\ f < g /\ \A h \in Starts(kept) : h < g => h = f
          /\ kept' = KeepFrom(kept, g)
    /\ rounds' = rounds + 1
    /\ UNCHANGED <<history, config, pc, base, summary>>

\* aggressiveDropOldest: all but the first group, unless it is the only one.
GuardDrop ==
    /\ pc = "guard" /\ TooLong /\ rounds < GuardRounds
    /\ \E f, g \in Starts(kept) :
          /\ f < g /\ \A h \in Starts(kept) : h < g => h = f
          /\ kept' = KeepFrom(kept, g)
    /\ rounds' = rounds + 1
    /\ UNCHANGED <<history, config, pc, base, summary>>

-----------------------------------------------------------------------------
Next ==
    \/ Measure
    \/ Summarize
    \/ SkipSummary
    \/ Trim
    \/ SkipTrim
    \/ GuardReturn
    \/ GuardDrop

\* The goroutine that serves the request runs Process to its end; the call of
\* the model for a summary returns (AgentTimeout).
Spec == Init /\ [][Next]_vars /\ WF_vars(Next)

-----------------------------------------------------------------------------
(* What must hold.                                                         *)

\* Shapes; the summary is in the list only if it was made.
TypeOK ==
    /\ history \in Seq(Message)
    /\ config \in Config
    /\ pc \in {"measure", "summarize", "trim", "guard", "done"}
    /\ kept \subseteq {0} \union Positions
    /\ base \subseteq {0} \union Positions
    /\ kept \subseteq base
    /\ summary \in Nat
    /\ rounds \in 0..GuardRounds

\* No step loses a system message.  (DOC-04: system messages are permanent.)
SystemKept == \A i \in Positions : Kind(i) = "system" => i \in kept

\* TrimByToken and FINAL_GUARD never separate a tool call from its answers in
\* the list they are given: kept together or dropped together.
PairsWhole ==
    \A c, i \in base : Answers(base, c, i) => (c \in kept <=> i \in kept)

\* What they keep of the conversation is its end, without a hole, and never
\* nothing: the message the user has just sent is in it, if no summary took it.
EndKept ==
    /\ \A i \in Others(kept), j \in Others(base) : j > i => j \in kept
    /\ Others(base) # {} => Others(kept) # {}

\* What the model must see is still there.
WantedKept == SystemKept /\ EndKept

\* Nothing is dropped needlessly: with the last group dropped the list would
\* have exceeded the window.
DroppedForSpace ==
    \A g \in Starts(base) \ kept :
        Tokens(KeepFrom(base, g)) > config.maxTokens

\* The result exceeds the window only when nothing but system messages and one
\* group is left, or the rounds of FINAL_GUARD were used up.
FitsOrLastGroup ==
    pc = "done" /\ TooLong =>
        rounds = GuardRounds \/ Cardinality(Starts(kept)) <= 1

\* Process returns.
Returns == <>(pc = "done")

\* DOC-04: tool calls and their answers are never separated, not by the
\* summary either.
SummaryKeepsPairs ==
    \A c, i \in Positions :
        Answers(Positions, c, i) /\ i \in kept => c \in kept
=============================================================================
