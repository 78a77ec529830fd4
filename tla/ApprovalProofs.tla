---------------------------- MODULE ApprovalProofs ----------------------------
(***************************************************************************)
(* The safety invariants of ApprovalFlow, for every number of users,       *)
(* threads, requests and tools, that it implements ApprovalGate, and that  *)
(* a request has finitely many steps.                                      *)
(***************************************************************************)
EXTENDS ApprovalFlow, TLAPS

\* Overwriting one slot of a function keeps its type.
LEMMA SetSlot ==
    ASSUME NEW T, NEW S, NEW f \in [T -> S], NEW x, NEW v \in S
    PROVE  [f EXCEPT ![x] = v] \in [T -> S]
  OBVIOUS

\* A pointer into the heap finds a card.
LEMMA CardInHeap == ASSUME TypeOK, NEW c \in CardIds PROVE cards[c] \in Card
  BY DEF TypeOK, CardIds

\* Appending a card leaves the earlier ones where they are.
LEMMA AppendCard ==
    ASSUME TypeOK, NEW r \in Requests, NEW t \in HighRisk, AddApproval(r, t)
    PROVE  /\ cards' \in Seq(Card)
           /\ Len(cards') = Len(cards) + 1
           /\ \A c \in CardIds : cards'[c] = cards[c]
           /\ cards'[Len(cards) + 1].thread = input[r].thread
           /\ cards'[Len(cards) + 1].owner = input[r].user
           /\ cards'[Len(cards) + 1].tool = t
           /\ cards'[Len(cards) + 1].issuer = r
           /\ \/ store' = [store EXCEPT ![input[r].thread] = Len(cards) + 1]
              \/ store' = store
  <1> DEFINE new == [thread |-> input[r].thread, owner |-> input[r].user,
                     tool |-> t, issuer |-> r]
  <1>1. new \in Card
    BY DEF TypeOK, Input, Card
  <1>2. /\ new.thread = input[r].thread
        /\ new.owner = input[r].user
        /\ new.tool = t
        /\ new.issuer = r
    OBVIOUS
  <1>3. cards' = Append(cards, new)
    BY DEF AddApproval
  <1> HIDE DEF new
  <1>4. /\ cards' \in Seq(Card)
        /\ Len(cards') = Len(cards) + 1
        /\ \A c \in CardIds : cards'[c] = cards[c]
        /\ cards'[Len(cards) + 1] = new
    BY <1>1, <1>3 DEF TypeOK, CardIds
  <1>5. QED
    BY <1>2, <1>4 DEF AddApproval

\* So the pointers into the heap stay within it.
LEMMA AppendCardTypes ==
    ASSUME TypeOK, NEW r \in Requests, NEW t \in HighRisk, AddApproval(r, t)
    PROVE  /\ cards' \in Seq(Card)
           /\ store' \in [Threads -> 0..Len(cards')]
           /\ held \in [Requests -> 0..Len(cards')]
           /\ expired \in 0..Len(cards')
           /\ late \subseteq Requests \X CardIds'
           /\ undeleted' \subseteq Requests /\ faults' \in Nat
  <1>1. Len(cards) \in Nat /\ Len(cards') = Len(cards) + 1
    <2>1. Len(cards) \in Nat
      BY DEF TypeOK
    <2>2. Len(cards') = Len(cards) + 1
      BY AppendCard
    <2>3. QED
      BY <2>1, <2>2
  <1>2. 0..Len(cards) \subseteq 0..Len(cards')
    BY <1>1
  <1>3. CardIds \subseteq CardIds'
    BY <1>1 DEF CardIds
  <1>4. store' \in [Threads -> 0..Len(cards')]
    <2>1. store \in [Threads -> 0..Len(cards')]
      BY <1>2 DEF TypeOK
    <2>2. Len(cards) + 1 \in 0..Len(cards')
      BY <1>1
    <2>3. \/ store' = [store EXCEPT ![input[r].thread] = Len(cards) + 1]
          \/ store' = store
      BY AppendCard
    <2>4. QED
      BY <2>1, <2>2, <2>3, SetSlot
  <1>5. undeleted' \subseteq Requests /\ faults' \in Nat
    BY DEF AddApproval, Fault, TypeOK
  <1>6. cards' \in Seq(Card)
    BY AppendCard
  <1>7. /\ held \in [Requests -> 0..Len(cards')]
        /\ expired \in 0..Len(cards')
    BY <1>2 DEF TypeOK
  <1>8. late \subseteq Requests \X CardIds'
    BY <1>3 DEF TypeOK
  <1>9. QED
    BY <1>4, <1>5, <1>6, <1>7, <1>8

\* The answers of a handler that finds no card.
LEMMA NoCardIs == \A r \in Requests : NoCard(r) \in {"notFound", "shown"}
  BY DEF NoCard

\* What a request carries never changes, and only a request that arrives has
\* come too late for anything.
LEMMA Untouched ==
    ASSUME [Next]_vars
    PROVE  /\ input' = input
           /\ late' = late \/ \E r \in Requests : Arrive(r)
  <1>1. ASSUME NEW r \in Requests, Arrive(r) PROVE input' = input
    BY <1>1 DEF Arrive
  <1>2. ASSUME NEW r \in Requests,
               \/ GetApproval(r) \/ GetApprovalFails(r) \/ DropExpired(r)
               \/ CheckCard(r) \/ RemoveApproval(r)
        PROVE  input' = input /\ late' = late
    BY <1>2 DEF GetApproval, GetApprovalFails, DropExpired, CheckCard,
                RemoveApproval
  <1>3. ASSUME NEW r \in Requests,
               \/ FinishRun(r) \/ CheckIntentRisk(r)
               \/ \E t \in Tools : Call(r, t)
        PROVE  input' = input /\ late' = late
    BY <1>3 DEF FinishRun, CheckIntentRisk, Call
  <1>4. CASE \/ Cleanup \/ Expire \/ Crash \/ UNCHANGED vars
             \/ \E t \in Threads : TimeToLive(t)
    BY <1>4 DEF Cleanup, Expire, Crash, TimeToLive, vars
  <1>5. ASSUME NEW r \in Requests, NEW t \in Tools,
               \/ CallDenied(r, t) \/ CallExecuted(r, t)
               \/ CallRejected(r, t) \/ CallInterrupted(r, t)
        PROVE  input' = input /\ late' = late
    BY <1>3, <1>5 DEF CallDenied, CallExecuted, CallRejected, CallInterrupted
  <1>6. QED
    BY <1>1, <1>2, <1>3, <1>4, <1>5 DEF Next, Handle

LEMMA InitTypeOK == Init => TypeOK
  <1>1. SUFFICES ASSUME Init PROVE TypeOK
    OBVIOUS
  <1>2. input \in [Requests -> Input]
    BY <1>1, ApprovalAssumption DEF Init
  <1>3. QED
    BY <1>1, <1>2 DEF Init, TypeOK, Waiting, CardIds

LEMMA NextTypeOK == TypeOK /\ [Next]_vars => TypeOK'
  <1>1. SUFFICES ASSUME TypeOK, [Next]_vars PROVE TypeOK'
    OBVIOUS
  <1>0. Len(cards) \in Nat
    BY <1>1 DEF TypeOK
  <1>2. CASE UNCHANGED vars
    BY <1>1, <1>2 DEF TypeOK, vars, faultVars, CardIds
  <1>3. CASE Cleanup
    BY <1>1, <1>3 DEF TypeOK, Cleanup, CardIds, faultVars
  <1>15. ASSUME NEW t \in Threads, TimeToLive(t) PROVE TypeOK'
    <2>1. store' \in [Threads -> 0..Len(cards)]
      BY <1>0, <1>1, <1>15, SetSlot DEF TypeOK, TimeToLive
    <2>2. QED
      BY <1>1, <1>15, <2>1 DEF TypeOK, TimeToLive, CardIds, faultVars
  <1>16. CASE Crash
    <2>1. store' \in [Threads -> 0..Len(cards)]
      BY <1>0, <1>1, <1>16 DEF TypeOK, Crash
    <2>2. /\ pc' \in [Requests -> Waiting \union Over]
          /\ held' \in [Requests -> 0..Len(cards)]
      BY <1>0, <1>1, <1>16 DEF TypeOK, Crash, Over
    <2>3. QED
      BY <1>1, <1>16, <2>1, <2>2 DEF TypeOK, Crash, Fault, CardIds
  <1>4. CASE Expire
    BY <1>1, <1>4 DEF TypeOK, Expire, CardIds, faultVars
  <1>5. ASSUME NEW r \in Requests, Arrive(r) PROVE TypeOK'
    BY <1>0, <1>1, <1>5
    DEF TypeOK, Arrive, Goto, Waiting, Over, Answers, CardIds, faultVars
  <1>6. ASSUME NEW r \in Requests, GetApproval(r) PROVE TypeOK'
    <2>1. store[input[r].thread] \in 0..Len(cards)
      BY <1>1 DEF TypeOK, Input
    <2>2. QED
      BY <1>0, <1>1, <1>6, <2>1, NoCardIs
      DEF TypeOK, GetApproval, Goto, Waiting, Over, Answers, CardIds, faultVars
  <1>7. ASSUME NEW r \in Requests, DropExpired(r) PROVE TypeOK'
    <2>1. store' \in [Threads -> 0..Len(cards)]
      <3>1. store \in [Threads -> 0..Len(cards)] /\ 0 \in 0..Len(cards)
        BY <1>0, <1>1 DEF TypeOK
      <3>2. store' = [store EXCEPT ![input[r].thread] = 0]
        BY <1>7 DEF DropExpired
      <3>3. QED
        BY <3>1, <3>2, SetSlot
    <2>2. pc' \in [Requests -> Waiting \union Over]
      <3>1. NoCard(r) \in Waiting \union Over
        BY NoCardIs DEF Over, Answers
      <3>2. QED
        BY <1>1, <1>7, <3>1, SetSlot DEF TypeOK, DropExpired, Goto
    <2>3. QED
      BY <1>1, <1>7, <2>1, <2>2 DEF TypeOK, DropExpired, CardIds, faultVars
  <1>17. ASSUME NEW r \in Requests, GetApprovalFails(r) PROVE TypeOK'
    BY <1>0, <1>1, <1>17, NoCardIs
    DEF TypeOK, GetApprovalFails, Fault, Goto, Waiting, Over, Answers, CardIds
  <1>8. ASSUME NEW r \in Requests, CheckCard(r) PROVE TypeOK'
    <2>1. held' \in [Requests -> 0..Len(cards)]
      BY <1>0, <1>1, <1>8 DEF TypeOK, CheckCard
    <2>2. pc' \in [Requests -> Waiting \union Over]
      BY <1>1, <1>8 DEF TypeOK, CheckCard, Goto, Waiting, Over, Answers
    <2>3. QED
      BY <1>1, <1>8, <2>1, <2>2 DEF TypeOK, CheckCard, CardIds, faultVars
  <1>9. ASSUME NEW r \in Requests, RemoveApproval(r) PROVE TypeOK'
    <2>1. store' \in [Threads -> 0..Len(cards)]
      BY <1>0, <1>1, <1>9, SetSlot DEF TypeOK, RemoveApproval
    <2>2. held' \in [Requests -> 0..Len(cards)]
      <3>1. held' = held \/ held' = [held EXCEPT ![r] = 0]
        BY <1>9 DEF RemoveApproval
      <3>2. held \in [Requests -> 0..Len(cards)] /\ 0 \in 0..Len(cards)
        BY <1>0, <1>1 DEF TypeOK
      <3>3. QED
        BY <3>1, <3>2, SetSlot
    <2>3. pc' \in [Requests -> Waiting \union Over]
      BY <1>1, <1>9 DEF TypeOK, RemoveApproval, Goto, Waiting, Over, Answers
    <2>4. undeleted' \subseteq Requests /\ faults' \in Nat
      BY <1>1, <1>9 DEF TypeOK, RemoveApproval, Fault, faultVars
    <2>5. QED
      BY <1>1, <1>9, <2>1, <2>2, <2>3, <2>4 DEF TypeOK, RemoveApproval, CardIds
  <1>10. ASSUME NEW r \in Requests, NEW t \in Tools, Call(r, t),
                UNCHANGED <<store, cards, faultVars>>,
                execs' \subseteq execs \union {<<r, t>>}
         PROVE TypeOK'
    BY <1>1, <1>10 DEF TypeOK, Call, CardIds, faultVars
  <1>11. ASSUME NEW r \in Requests, NEW t \in Tools, CallInterrupted(r, t)
         PROVE TypeOK'
    <2>1. t \in HighRisk /\ AddApproval(r, t) /\ Call(r, t) /\ UNCHANGED execs
      BY <1>11 DEF CallInterrupted
    <2>2. QED
      <3>1. /\ cards' \in Seq(Card) /\ store' \in [Threads -> 0..Len(cards')]
            /\ held \in [Requests -> 0..Len(cards')]
            /\ expired \in 0..Len(cards') /\ late \subseteq Requests \X CardIds'
            /\ undeleted' \subseteq Requests /\ faults' \in Nat
        BY <1>1, <2>1, AppendCardTypes
      <3>2. calls' \in [Requests -> Seq(Tools)]
        BY <1>1, <2>1 DEF TypeOK, Call
      <3>3. QED
        BY <1>1, <2>1, <3>1, <3>2 DEF TypeOK, Call
  <1>12. ASSUME NEW r \in Requests, FinishRun(r) PROVE TypeOK'
    BY <1>1, <1>12
    DEF TypeOK, FinishRun, Goto, Waiting, Over, Answers, CardIds, faultVars
  <1>13. ASSUME NEW r \in Requests, CheckIntentRisk(r) PROVE TypeOK'
    <2>1. CASE IntentRisk(r)
      <3>1. input[r].intent \in HighRisk
        BY <1>1, <2>1 DEF IntentRisk, TypeOK, Input
      <3>2. AddApproval(r, input[r].intent)
        BY <1>13, <2>1 DEF CheckIntentRisk
      <3>3. QED
        BY <1>1, <1>13, <3>1, <3>2, AppendCardTypes
        DEF TypeOK, CheckIntentRisk, Goto, Waiting, Over, Answers
    <2>2. CASE ~IntentRisk(r)
      BY <1>1, <1>13, <2>2
      DEF TypeOK, CheckIntentRisk, Goto, Waiting, Over, Answers, CardIds,
          faultVars
    <2>3. QED
      BY <2>1, <2>2
  <1>14. QED
    BY <1>1, <1>2, <1>3, <1>4, <1>5, <1>6, <1>7, <1>8, <1>9, <1>10, <1>11,
       <1>12, <1>13, <1>15, <1>16, <1>17
    DEF Next, Handle, CallDenied, CallExecuted, CallRejected

\* Every behaviour of the approval flow keeps the types of its variables.
THEOREM TypeCorrect == Spec => []TypeOK
  BY InitTypeOK, NextTypeOK, PTL DEF Spec

-----------------------------------------------------------------------------
(* The inductive invariant.  The properties of ApprovalFlow speak of what  *)
(* a request has done; to be preserved they need what holds at each step   *)
(* of its handler.                                                         *)

\* What each program point of a handler guarantees.
StepInv ==
    \A r \in Requests :
        /\ pc[r] \in {"check", "remove", "removeExpired"} => IsResume(r)
        /\ pc[r] \in {"idle", "get", "dropExpired"} => held[r] = 0
        /\ pc[r] \in {"check", "remove", "removeExpired"} => held[r] # 0
        /\ pc[r] = "run" /\ IsResume(r) => held[r] # 0
        /\ pc[r] = "intent" => input[r].kind = "chatStream"
        /\ held[r] # 0 => /\ IsResume(r)
                          /\ cards[held[r]].thread = input[r].thread
        /\ Granted(r) => cards[held[r]].owner = input[r].user

\* The cards a request came too late for are still out of the store.
LateInv == \A e \in late : ~InStore(e[2])

\* What a new card changes: nothing but its own slot and its own issuer.
LEMMA AddApprovalEffect ==
    ASSUME TypeOK, NEW r \in Requests, NEW t \in HighRisk, AddApproval(r, t)
    PROVE  /\ \A c \in CardIds : InStore(c)' => InStore(c)
           /\ \A q \in Requests : Interrupted(q) => Interrupted(q)'
           /\ \A q \in Requests : q # r /\ Interrupted(q)' => Interrupted(q)
           /\ Interrupted(r)'
  <1>1. /\ Len(cards') = Len(cards) + 1
        /\ \A c \in CardIds : cards'[c] = cards[c]
        /\ cards'[Len(cards) + 1].issuer = r
    BY AppendCard
  <1>0. Len(cards) \in Nat
    BY DEF TypeOK
  <1>2. CardIds' = CardIds \union {Len(cards) + 1}
    BY <1>0, <1>1 DEF CardIds
  <1>3. \A c \in CardIds : InStore(c)' => InStore(c)
    <2>1. SUFFICES ASSUME NEW c \in CardIds, InStore(c)' PROVE InStore(c)
      OBVIOUS
    <2>2. \/ store' = [store EXCEPT ![input[r].thread] = Len(cards) + 1]
          \/ store' = store
      BY AppendCard
    <2>3. cards'[c] = cards[c] /\ c # Len(cards) + 1
      BY <1>0, <1>1 DEF CardIds
    <2>4. cards[c].thread \in Threads
      BY CardInHeap DEF Card
    <2>5. QED
      BY <2>1, <2>2, <2>3, <2>4 DEF InStore, TypeOK
  <1>4. QED
    BY <1>0, <1>1, <1>2, <1>3 DEF Interrupted, CardIds

-----------------------------------------------------------------------------
(* Handlers and their cards.                                               *)

LEMMA NextStepInv ==
    TypeOK /\ CardsWellPlaced /\ StepInv /\ [Next]_vars => StepInv'
  <1>1. SUFFICES ASSUME TypeOK, CardsWellPlaced, StepInv, [Next]_vars
                 PROVE  StepInv'
    OBVIOUS
  <1>2. CASE UNCHANGED vars
    BY <1>1, <1>2 DEF StepInv, vars, Granted, IsResume
  <1>3. CASE Cleanup \/ Expire \/ \E t \in Threads : TimeToLive(t)
    BY <1>1, <1>3 DEF StepInv, Cleanup, TimeToLive, Expire, Granted, IsResume
  <1>15. CASE Crash
    <2>1. /\ UNCHANGED <<input, cards>>
          /\ \A q \in Requests : \/ pc'[q] = pc[q] /\ held'[q] = held[q]
                                 \/ pc'[q] = "crashed" /\ held'[q] = 0
                                 \/ /\ pc'[q] = "crashed" /\ held'[q] = held[q]
                                    /\ pc[q] \notin {"check", "removeExpired"}
      BY <1>1, <1>15 DEF Crash, TypeOK, Over, Answers
    <2>2. QED
      BY <1>1, <2>1 DEF StepInv, Granted, IsResume
  <1>4. ASSUME NEW r \in Requests, Arrive(r) PROVE StepInv'
    <2>1. /\ UNCHANGED <<input, held, cards>> /\ pc[r] = "idle"
          /\ \A q \in Requests \ {r} : pc'[q] = pc[q]
          /\ \/ pc'[r] = "run" /\ ~IsResume(r)
             \/ pc'[r] \in {"badRequest", "get"}
      BY <1>1, <1>4
      DEF Arrive, Goto, TypeOK, IsResume, ChatKinds, ResumeKinds
    <2>2. QED
      BY <1>1, <2>1 DEF StepInv, Granted, IsResume
  <1>5. ASSUME NEW r \in Requests, GetApproval(r) PROVE StepInv'
    <2>1. input[r].thread \in Threads
      BY <1>1 DEF TypeOK, Input
    <2>2. QED
      BY <1>1, <1>5, <2>1, NoCardIs
      DEF StepInv, GetApproval, Goto, Granted, IsResume, TypeOK, CardsWellPlaced
  <1>6. ASSUME NEW r \in Requests, DropExpired(r) PROVE StepInv'
    BY <1>1, <1>6, NoCardIs
    DEF StepInv, DropExpired, Goto, Granted, IsResume, TypeOK
  <1>16. ASSUME NEW r \in Requests, GetApprovalFails(r) PROVE StepInv'
    BY <1>1, <1>16, NoCardIs
    DEF StepInv, GetApprovalFails, Goto, Granted, IsResume, TypeOK
  <1>7. ASSUME NEW r \in Requests, CheckCard(r) PROVE StepInv'
    BY <1>1, <1>7 DEF StepInv, CheckCard, Goto, Granted, IsResume, TypeOK
  <1>8. ASSUME NEW r \in Requests, RemoveApproval(r) PROVE StepInv'
    <2>1. /\ UNCHANGED <<input, cards>>
          /\ \A q \in Requests \ {r} : pc'[q] = pc[q] /\ held'[q] = held[q]
          /\ \/ pc[r] = "remove" /\ pc'[r] = "run" /\ held'[r] = held[r]
             \/ pc[r] = "removeExpired" /\ pc'[r] = "gone" /\ held'[r] = 0
      BY <1>1, <1>8 DEF RemoveApproval, Goto, TypeOK
    <2>2. QED
      BY <1>1, <2>1 DEF StepInv, Granted, IsResume
  <1>9. ASSUME NEW r \in Requests, NEW t \in Tools, Call(r, t),
               UNCHANGED <<store, cards>>
        PROVE  StepInv'
    BY <1>1, <1>9 DEF StepInv, Call, Granted, IsResume
  <1>10. ASSUME NEW r \in Requests, NEW t \in HighRisk, AddApproval(r, t),
                UNCHANGED <<input, held>>,
                \A q \in Requests : \/ pc'[q] = pc[q]
                                    \/ pc[q] = "intent" /\ pc'[q] = "interrupt"
         PROVE  StepInv'
    <2>1. \A c \in CardIds : cards'[c] = cards[c]
      BY <1>1, <1>10, AppendCard
    <2>2. \A q \in Requests : held[q] # 0 => held[q] \in CardIds
      BY <1>1 DEF TypeOK, CardIds
    <2>3. \A q \in Requests :
             held[q] # 0 => cards'[held'[q]] = cards[held[q]]
      BY <1>10, <2>1, <2>2
    <2>4. \A q \in Requests : Granted(q)' => Granted(q)
      BY <1>10 DEF Granted
    <2>5. /\ UNCHANGED <<input, held>>
          /\ \A q \in Requests : pc'[q] # "interrupt" => pc[q] = pc'[q]
      BY <1>10
    <2>6. ASSUME NEW q \in Requests
          PROVE  /\ pc'[q] \in {"check", "remove", "removeExpired"}
                       => IsResume(q)'
                 /\ pc'[q] \in {"idle", "get", "dropExpired"} => held'[q] = 0
                 /\ pc'[q] \in {"check", "remove", "removeExpired"} => held'[q] # 0
                 /\ pc'[q] = "run" /\ IsResume(q)' => held'[q] # 0
                 /\ pc'[q] = "intent" => input'[q].kind = "chatStream"
      BY <1>1, <2>5 DEF StepInv, IsResume
    <2>7. ASSUME NEW q \in Requests
          PROVE  /\ held'[q] # 0 =>
                       /\ IsResume(q)'
                       /\ cards'[held'[q]].thread = input'[q].thread
                 /\ Granted(q)' => cards'[held'[q]].owner = input'[q].user
      BY <1>1, <2>3, <2>4, <2>5 DEF StepInv, IsResume, Granted
    <2>8. QED
      BY <2>6, <2>7 DEF StepInv
  <1>11. ASSUME NEW r \in Requests, FinishRun(r) PROVE StepInv'
    <2>1. /\ UNCHANGED <<input, held, cards>> /\ pc[r] = "run"
          /\ pc'[r] = "intent" => input[r].kind = "chatStream"
          /\ pc'[r] \notin {"idle", "get", "dropExpired", "check", "remove",
                            "removeExpired", "run"}
          /\ \A q \in Requests \ {r} : pc'[q] = pc[q]
      BY <1>1, <1>11 DEF FinishRun, Goto, TypeOK
    <2>2. \A q \in Requests : Granted(q)' => Granted(q)
      BY <2>1 DEF Granted
    <2>3. QED
      BY <1>1, <2>1, <2>2 DEF StepInv, IsResume
  <1>12. ASSUME NEW r \in Requests, NEW t \in Tools, CallInterrupted(r, t)
         PROVE  StepInv'
    BY <1>1, <1>10, <1>12 DEF CallInterrupted, Call
  <1>13. ASSUME NEW r \in Requests, CheckIntentRisk(r) PROVE StepInv'
    <2>1. CASE IntentRisk(r)
      BY <1>1, <1>10, <1>13, <2>1
      DEF CheckIntentRisk, IntentRisk, Goto, TypeOK, Input
    <2>2. CASE ~IntentRisk(r)
      BY <1>1, <1>13, <2>2
      DEF StepInv, CheckIntentRisk, Goto, Granted, IsResume, TypeOK
    <2>3. QED
      BY <2>1, <2>2
  <1>14. QED
    BY <1>1, <1>2, <1>3, <1>4, <1>5, <1>6, <1>7, <1>8, <1>9, <1>11,
       <1>12, <1>13, <1>15, <1>16
    DEF Next, Handle, CallDenied, CallExecuted, CallRejected

LEMMA NextCardsWellPlaced ==
    TypeOK /\ CardsWellPlaced /\ [Next]_vars => CardsWellPlaced'
  <1>1. SUFFICES ASSUME TypeOK, CardsWellPlaced, [Next]_vars
                 PROVE  CardsWellPlaced'
    OBVIOUS
  <1>2. CASE UNCHANGED <<store, cards>>
    BY <1>1, <1>2 DEF CardsWellPlaced, CardIds
  <1>3. CASE Cleanup
    BY <1>1, <1>3 DEF CardsWellPlaced, Cleanup, CardIds, TypeOK
  <1>4. ASSUME NEW r \in Requests, DropExpired(r) \/ RemoveApproval(r)
        PROVE  CardsWellPlaced'
    BY <1>1, <1>4
    DEF CardsWellPlaced, DropExpired, RemoveApproval, CardIds, TypeOK
  <1>9. ASSUME NEW t \in Threads, TimeToLive(t) PROVE CardsWellPlaced'
    BY <1>1, <1>9 DEF CardsWellPlaced, TimeToLive, CardIds, TypeOK
  <1>10. CASE Crash
    BY <1>1, <1>10 DEF CardsWellPlaced, Crash, CardIds, TypeOK
  <1>5. ASSUME NEW r \in Requests, NEW t \in HighRisk, AddApproval(r, t),
               t \in CanExecute[input[r].user]
        PROVE  CardsWellPlaced'
    <2>1. /\ Len(cards') = Len(cards) + 1
          /\ \A c \in CardIds : cards'[c] = cards[c]
          /\ cards'[Len(cards) + 1].tool = t
          /\ cards'[Len(cards) + 1].owner = input[r].user
          /\ cards'[Len(cards) + 1].thread = input[r].thread
          /\ \/ store' = [store EXCEPT ![input[r].thread] = Len(cards) + 1]
             \/ store' = store
      BY <1>1, <1>5, AppendCard
    <2>2. Len(cards) \in Nat
      BY <1>1 DEF TypeOK
    <2>3. CardIds' = CardIds \union {Len(cards) + 1}
      BY <2>1, <2>2 DEF CardIds
    <2>4. \A c \in CardIds' : cards'[c].tool \in CanExecute[cards'[c].owner]
      BY <1>1, <1>5, <2>1, <2>3 DEF CardsWellPlaced
    <2>5. ASSUME NEW u \in Threads, store'[u] # 0
          PROVE  cards'[store'[u]].thread = u
      <3>1. CASE u = input[r].thread /\ store' # store
        BY <1>1, <2>1, <3>1 DEF TypeOK
      <3>2. CASE u # input[r].thread \/ store' = store
        <4>1. store'[u] = store[u] /\ store[u] \in CardIds
          BY <1>1, <2>1, <2>2, <2>5, <3>2 DEF TypeOK, CardIds
        <4>2. QED
          BY <1>1, <2>1, <2>5, <4>1 DEF CardsWellPlaced
      <3>3. QED
        BY <3>1, <3>2
    <2>6. QED
      BY <2>4, <2>5 DEF CardsWellPlaced
  <1>6. ASSUME NEW r \in Requests, NEW t \in Tools, CallInterrupted(r, t)
        PROVE  CardsWellPlaced'
    BY <1>5, <1>6 DEF CallInterrupted
  <1>7. ASSUME NEW r \in Requests, CheckIntentRisk(r) PROVE CardsWellPlaced'
    BY <1>1, <1>2, <1>5, <1>7
    DEF CheckIntentRisk, IntentRisk, TypeOK, Input
  <1>8. QED
    BY <1>1, <1>2, <1>3, <1>4, <1>6, <1>7, <1>9, <1>10
    DEF Next, Handle, vars, Arrive, GetApproval, GetApprovalFails, CheckCard,
        CallDenied, CallExecuted, CallRejected, FinishRun, Expire

\* The part of the invariant the others are built on.
HandlerInv == TypeOK /\ CardsWellPlaced /\ StepInv

LEMMA HandlerInvariant == Spec => []HandlerInv
  <1>1. Init => HandlerInv
    <2>1. SUFFICES ASSUME Init PROVE HandlerInv
      OBVIOUS
    <2>2. TypeOK
      BY <2>1, InitTypeOK
    <2>3. CardsWellPlaced /\ StepInv
      BY <2>1 DEF Init, CardsWellPlaced, StepInv, CardIds, Granted
    <2>4. QED
      BY <2>2, <2>3 DEF HandlerInv
  <1>2. HandlerInv /\ [Next]_vars => HandlerInv'
    BY NextTypeOK, NextCardsWellPlaced, NextStepInv DEF HandlerInv
  <1>3. QED
    BY <1>1, <1>2, PTL DEF Spec

\* ACL before approval: no card asks its owner for a forbidden tool, and every
\* slot holds a card of its own thread.
THEOREM CardsWellPlacedAlways == Spec => []CardsWellPlaced
  BY HandlerInvariant, PTL DEF HandlerInv

-----------------------------------------------------------------------------
(* Executions.                                                             *)

LEMMA NextHighRiskApproved ==
    HandlerInv /\ HighRiskApproved /\ [Next]_vars => HighRiskApproved'
  <1>1. SUFFICES ASSUME HandlerInv, HighRiskApproved, [Next]_vars,
                        NEW e \in execs'
                 PROVE  LET r == e[1]  t == e[2] IN
                        /\ t \in CanExecute[input'[r].user]
                        /\ t \in HighRisk =>
                              /\ IsResume(r)' /\ Granted(r)'
                              /\ input'[r].decision = "approve"
                              /\ cards'[held'[r]].tool = t
                              /\ cards'[held'[r]].owner = input'[r].user
                              /\ cards'[held'[r]].thread = input'[r].thread
    BY DEF HighRiskApproved
  <1> DEFINE Approved == LET r == e[1]  t == e[2] IN
                         /\ t \in CanExecute[input[r].user]
                         /\ t \in HighRisk =>
                               /\ IsResume(r) /\ Granted(r)
                               /\ input[r].decision = "approve"
                               /\ cards[held[r]].tool = t
                               /\ cards[held[r]].owner = input[r].user
                               /\ cards[held[r]].thread = input[r].thread
  <1>2. e \in execs => Approved /\ e[1] \in Requests
    BY <1>1 DEF HighRiskApproved, HandlerInv, TypeOK
  <1>3. input' = input
    BY <1>1, Untouched
  <1>4. CASE UNCHANGED <<cards, execs, held, pc>>
    BY <1>1, <1>2, <1>3, <1>4 DEF Granted, IsResume
  <1>5. ASSUME NEW r \in Requests, UNCHANGED <<cards, execs>>,
               \A q \in Requests \ {r} : pc'[q] = pc[q] /\ held'[q] = held[q],
               Granted(r) => Granted(r)' /\ held'[r] = held[r]
        PROVE  Approved'
    BY <1>1, <1>2, <1>3, <1>5 DEF Granted, IsResume
  <1>6. ASSUME NEW r \in Requests,
               \/ Arrive(r) \/ GetApproval(r) \/ DropExpired(r) \/ CheckCard(r)
               \/ GetApprovalFails(r) \/ RemoveApproval(r) \/ FinishRun(r)
        PROVE  Approved'
    <2>1. UNCHANGED <<cards, execs>>
      BY <1>6 DEF Arrive, GetApproval, DropExpired, CheckCard, RemoveApproval,
                  FinishRun, GetApprovalFails
    <2>2. \A q \in Requests \ {r} : pc'[q] = pc[q] /\ held'[q] = held[q]
      BY <1>1, <1>6 DEF HandlerInv, TypeOK, Goto, Arrive, GetApproval,
                        DropExpired, CheckCard, RemoveApproval, FinishRun,
                        GetApprovalFails
    <2>3. Granted(r) => Granted(r)' /\ held'[r] = held[r]
      BY <1>1, <1>6 DEF HandlerInv, TypeOK, StepInv, Granted, Goto, Arrive,
                        GetApproval, DropExpired, CheckCard, RemoveApproval,
                        FinishRun, GetApprovalFails
    <2>4. QED
      BY <1>5, <2>1, <2>2, <2>3
  <1>7. ASSUME NEW r \in Requests, NEW t \in Tools, CallExecuted(r, t)
        PROVE  Approved'
    <2>1. UNCHANGED <<cards, held, pc>>
      BY <1>7 DEF CallExecuted, Call
    <2>2. CASE e \in execs
      BY <1>1, <1>2, <1>3, <2>1, <2>2 DEF Granted, IsResume
    <2>3. CASE e = <<r, t>>
      <3>1. t \in CanExecute[input[r].user] /\ pc[r] = "run"
        BY <1>7 DEF CallExecuted, Call
      <3>2. t \in HighRisk => /\ IsResume(r) /\ cards[held[r]].tool = t
                              /\ input[r].decision = "approve"
        BY <1>7 DEF CallExecuted, DecisionCovers
      <3>3. IsResume(r) => /\ Granted(r)
                           /\ cards[held[r]].owner = input[r].user
                           /\ cards[held[r]].thread = input[r].thread
        BY <1>1, <3>1 DEF HandlerInv, StepInv, Granted
      <3>4. QED
        BY <1>3, <2>1, <2>3, <3>1, <3>2, <3>3 DEF Granted, IsResume
    <2>4. QED
      BY <1>1, <1>7, <2>2, <2>3 DEF CallExecuted
  <1>8. ASSUME NEW r \in Requests, NEW t \in HighRisk, AddApproval(r, t),
               UNCHANGED <<held, execs>>,
               \A q \in Requests : \/ pc'[q] = pc[q]
                                   \/ pc[q] = "intent" /\ pc'[q] = "interrupt"
        PROVE  Approved'
    <2>1. \A c \in CardIds : cards'[c] = cards[c]
      BY <1>1, <1>8, AppendCard DEF HandlerInv
    <2>2. held[e[1]] # 0 => held[e[1]] \in CardIds
      BY <1>1, <1>2, <1>8 DEF HandlerInv, TypeOK, CardIds
    <2>3. QED
      BY <1>1, <1>2, <1>3, <1>8, <2>1, <2>2 DEF Granted, IsResume
  <1>9. ASSUME NEW r \in Requests, NEW t \in Tools, CallInterrupted(r, t)
        PROVE  Approved'
    BY <1>8, <1>9 DEF CallInterrupted, Call
  <1>10. ASSUME NEW r \in Requests, CheckIntentRisk(r) PROVE Approved'
    <2>1. CASE IntentRisk(r)
      BY <1>1, <1>8, <1>10, <2>1
      DEF CheckIntentRisk, IntentRisk, Goto, HandlerInv, TypeOK, Input
    <2>2. CASE ~IntentRisk(r)
      BY <1>1, <1>5, <1>10, <2>2
      DEF CheckIntentRisk, Goto, HandlerInv, TypeOK, Granted
    <2>3. QED
      BY <2>1, <2>2
  <1>13. CASE Crash
    <2>1. /\ UNCHANGED <<cards, execs>>
          /\ \A q \in Requests : Granted(q) => Granted(q)' /\ held'[q] = held[q]
      BY <1>1, <1>13 DEF Crash, Granted, Over, Answers, HandlerInv, TypeOK
    <2>2. QED
      BY <1>1, <1>2, <1>3, <2>1 DEF Granted, IsResume
  <1>11. Approved'
    BY <1>1, <1>4, <1>6, <1>7, <1>9, <1>10, <1>13
    DEF Next, Handle, vars, CallDenied, CallRejected, Call, Cleanup, TimeToLive,
        Expire
  <1>12. QED
    BY <1>11

\* No tool runs without the right of its user, and no high-risk tool without
\* an accepted approval by the owner of a card for that tool and thread.
THEOREM HighRiskApprovedAlways == Spec => []HighRiskApproved
  <1>1. Init => HighRiskApproved
    BY DEF Init, HighRiskApproved
  <1>2. HandlerInv /\ HighRiskApproved /\ [Next]_vars => HighRiskApproved'
    BY NextHighRiskApproved
  <1>3. QED
    BY <1>1, <1>2, HandlerInvariant, PTL DEF Spec

-----------------------------------------------------------------------------
(* Cards that have left the store.                                         *)

\* No step puts a card that has left the store back into it.
LEMMA OutStaysOut ==
    HandlerInv /\ [Next]_vars => \A c \in CardIds : InStore(c)' => InStore(c)
  <1>1. SUFFICES ASSUME HandlerInv, [Next]_vars, NEW c \in CardIds, InStore(c)'
                 PROVE  InStore(c)
    OBVIOUS
  <1>2. TypeOK /\ c # 0 /\ cards[c].thread \in Threads
    BY <1>1, CardInHeap DEF HandlerInv, CardIds, Card
  <1>3. CASE UNCHANGED <<store, cards>>
    BY <1>1, <1>3 DEF InStore
  <1>4. CASE Cleanup
    BY <1>1, <1>2, <1>4 DEF Cleanup, InStore
  <1>10. CASE Crash \/ \E t \in Threads : TimeToLive(t)
    BY <1>1, <1>2, <1>10 DEF Crash, TimeToLive, InStore, TypeOK
  <1>5. ASSUME NEW r \in Requests, DropExpired(r) \/ RemoveApproval(r)
        PROVE  InStore(c)
    BY <1>1, <1>2, <1>5 DEF DropExpired, RemoveApproval, InStore, TypeOK
  <1>6. ASSUME NEW r \in Requests, NEW t \in HighRisk, AddApproval(r, t)
        PROVE  InStore(c)
    BY <1>1, <1>2, <1>6, AddApprovalEffect
  <1>7. ASSUME NEW r \in Requests, NEW t \in Tools, CallInterrupted(r, t)
        PROVE  InStore(c)
    BY <1>6, <1>7 DEF CallInterrupted
  <1>8. ASSUME NEW r \in Requests, CheckIntentRisk(r) PROVE InStore(c)
    BY <1>2, <1>3, <1>6, <1>8 DEF CheckIntentRisk, IntentRisk, TypeOK, Input
  <1>9. QED
    BY <1>1, <1>3, <1>4, <1>5, <1>7, <1>8, <1>10
    DEF Next, Handle, vars, Arrive, GetApproval, GetApprovalFails, CheckCard,
        CallDenied, CallExecuted, CallRejected, FinishRun, Expire

\* The heap only grows.
LEMMA HeapGrows == HandlerInv /\ [Next]_vars => CardIds \subseteq CardIds'
  <1>1. SUFFICES ASSUME HandlerInv, [Next]_vars PROVE CardIds \subseteq CardIds'
    OBVIOUS
  <1>2. CASE UNCHANGED cards
    BY <1>2 DEF CardIds
  <1>3. ASSUME NEW r \in Requests, NEW t \in HighRisk, AddApproval(r, t)
        PROVE  CardIds \subseteq CardIds'
    <2>1. Len(cards) \in Nat /\ Len(cards') = Len(cards) + 1
      BY <1>1, <1>3, AppendCard DEF HandlerInv, TypeOK
    <2>2. QED
      BY <2>1 DEF CardIds
  <1>4. ASSUME NEW r \in Requests, CheckIntentRisk(r)
        PROVE  CardIds \subseteq CardIds'
    BY <1>1, <1>2, <1>3, <1>4
    DEF CheckIntentRisk, IntentRisk, HandlerInv, TypeOK, Input
  <1>5. QED
    BY <1>1, <1>2, <1>3, <1>4
    DEF Next, Handle, vars, Arrive, GetApproval, DropExpired, CheckCard,
        RemoveApproval, CallDenied, CallExecuted, CallRejected, CallInterrupted,
        FinishRun, Cleanup, Expire, GetApprovalFails, TimeToLive, Crash

LEMMA NextLateInv == HandlerInv /\ LateInv /\ [Next]_vars => LateInv'
  <1>1. SUFFICES ASSUME HandlerInv, LateInv, [Next]_vars, NEW e \in late'
                 PROVE  ~InStore(e[2])'
    BY DEF LateInv
  <1>2. CASE e \in late
    <2>1. e[2] \in CardIds /\ ~InStore(e[2])
      BY <1>1, <1>2 DEF LateInv, HandlerInv, TypeOK
    <2>2. QED
      BY <1>1, <2>1, OutStaysOut
  <1>3. ASSUME NEW r \in Requests, Arrive(r) PROVE ~InStore(e[2])'
    <2>1. UNCHANGED <<store, cards>>
      BY <1>3 DEF Arrive
    <2>2. CASE e \in {<<r, c>> : c \in {d \in CardIds : ~InStore(d)}}
      <3>1. e[2] \in CardIds /\ ~InStore(e[2])
        BY <2>2
      <3>2. QED
        BY <2>1, <3>1 DEF InStore
    <2>3. QED
      BY <1>1, <1>2, <1>3, <2>2 DEF Arrive
  <1>4. CASE UNCHANGED late
    BY <1>1, <1>2, <1>4
  <1>5. QED
    BY <1>1, <1>3, <1>4, Untouched

\* The handler takes a card in hand out of the store, so one it holds was not
\* gone when the request arrived; nor is it one the request came too late for.
LEMMA NextLateDecisionRefused ==
    HandlerInv /\ LateInv /\ LateDecisionRefused /\ [Next]_vars
        => LateDecisionRefused'
  <1>1. SUFFICES ASSUME HandlerInv, LateInv, LateDecisionRefused, [Next]_vars,
                        NEW q \in Requests
                 PROVE  <<q, held'[q]>> \notin late'
    BY DEF LateDecisionRefused
  <1>2. TypeOK /\ StepInv /\ <<q, held[q]>> \notin late
    BY <1>1 DEF HandlerInv, LateDecisionRefused
  <1>3. <<q, 0>> \notin late
    BY <1>2 DEF TypeOK, CardIds
  <1>4. CASE UNCHANGED <<held, late>>
    BY <1>2, <1>4
  <1>5. ASSUME NEW r \in Requests, Arrive(r)
        PROVE  <<q, held'[q]>> \notin late'
    <2>1. held' = held /\ pc[r] = "idle"
      BY <1>5 DEF Arrive
    <2>2. CASE q = r
      <3>1. held[q] = 0
        BY <1>2, <2>1, <2>2 DEF StepInv
      <3>2. QED
        BY <1>3, <1>5, <2>1, <3>1 DEF Arrive, CardIds
    <2>3. CASE q # r
      BY <1>2, <1>5, <2>1, <2>3 DEF Arrive
    <2>4. QED
      BY <2>2, <2>3
  <1>6. ASSUME NEW r \in Requests, GetApproval(r)
        PROVE  <<q, held'[q]>> \notin late'
    <2>1. late' = late
      BY <1>6 DEF GetApproval
    <2>2. CASE q # r \/ held'[r] = held[r]
      BY <1>2, <1>6, <2>1, <2>2 DEF GetApproval, TypeOK
    <2>3. CASE q = r /\ held'[r] # held[r]
      <3>1. store[input[r].thread] # 0 /\ held'[r] = store[input[r].thread]
        BY <1>2, <1>6, <2>3 DEF GetApproval, TypeOK
      <3>2. InStore(held'[r])
        BY <1>1, <3>1 DEF InStore, HandlerInv, CardsWellPlaced, TypeOK, Input
      <3>3. QED
        BY <1>1, <2>1, <2>3, <3>2 DEF LateInv
    <2>4. QED
      BY <2>2, <2>3
  <1>7. ASSUME NEW r \in Requests, CheckCard(r) \/ RemoveApproval(r)
        PROVE  <<q, held'[q]>> \notin late'
    <2>1. late' = late
      BY <1>7 DEF CheckCard, RemoveApproval
    <2>2. held'[q] = held[q] \/ held'[q] = 0
      BY <1>2, <1>7 DEF CheckCard, RemoveApproval, TypeOK
    <2>3. QED
      BY <1>2, <1>3, <2>1, <2>2
  <1>9. CASE Crash
    <2>1. late' = late /\ (held'[q] = held[q] \/ held'[q] = 0)
      BY <1>1, <1>9 DEF Crash
    <2>2. QED
      BY <1>2, <1>3, <2>1
  <1>8. QED
    BY <1>1, <1>4, <1>5, <1>6, <1>7, <1>9
    DEF Next, Handle, vars, DropExpired, CallDenied, CallExecuted, CallRejected,
        CallInterrupted, Call, FinishRun, CheckIntentRisk, Cleanup, Expire,
        GetApprovalFails, TimeToLive

\* A decision that arrives after its card has left the store is not accepted
\* for it.
THEOREM LateDecisionRefusedAlways == Spec => []LateDecisionRefused
  <1>1. Init => LateInv /\ LateDecisionRefused
    BY DEF Init, LateInv, LateDecisionRefused
  <1>2. HandlerInv /\ LateInv /\ LateDecisionRefused /\ [Next]_vars
           => LateInv' /\ LateDecisionRefused'
    BY NextLateInv, NextLateDecisionRefused
  <1>3. QED
    BY <1>1, <1>2, HandlerInvariant, PTL DEF Spec

LEMMA NextDeletedBeforeRerun ==
    HandlerInv /\ DeletedBeforeRerun /\ [Next]_vars => DeletedBeforeRerun'
  <1>1. SUFFICES ASSUME HandlerInv, DeletedBeforeRerun, [Next]_vars,
                        NEW q \in Requests, held'[q] # 0,
                        pc'[q] \in {"run"} \union Answers, q \notin undeleted'
                 PROVE  ~InStore(held[q])'
    BY DEF DeletedBeforeRerun
  <1>2. TypeOK /\ StepInv /\ q \notin undeleted
    <2>1. undeleted \subseteq undeleted'
      <3>1. ASSUME NEW r \in Requests, NEW t, AddApproval(r, t)
            PROVE  undeleted' = undeleted
        BY <3>1 DEF AddApproval
      <3>2. ASSUME NEW r \in Requests, RemoveApproval(r)
            PROVE  undeleted \subseteq undeleted'
        BY <3>2 DEF RemoveApproval, faultVars
      <3>3. ASSUME NEW r \in Requests,
                   \/ CheckIntentRisk(r)
                   \/ \E t \in Tools : CallInterrupted(r, t)
            PROVE  undeleted' = undeleted
        BY <3>1, <3>3 DEF CheckIntentRisk, CallInterrupted, faultVars
      <3>4. ASSUME NEW r \in Requests,
                   \/ Arrive(r) \/ GetApproval(r) \/ GetApprovalFails(r)
                   \/ DropExpired(r) \/ CheckCard(r) \/ FinishRun(r)
                   \/ \E t \in Tools : \/ CallDenied(r, t)
                                       \/ CallExecuted(r, t)
                                       \/ CallRejected(r, t)
            PROVE  undeleted' = undeleted
        BY <3>4
        DEF Arrive, GetApproval, GetApprovalFails, DropExpired, CheckCard,
            FinishRun, CallDenied, CallExecuted, CallRejected, faultVars
      <3>5. CASE \/ Cleanup \/ Expire \/ Crash \/ UNCHANGED vars
                 \/ \E t \in Threads : TimeToLive(t)
        BY <3>5 DEF Cleanup, Expire, Crash, TimeToLive, vars, faultVars
      <3>6. QED
        BY <1>1, <3>2, <3>3, <3>4, <3>5 DEF Next, Handle
    <2>2. QED
      BY <1>1, <2>1 DEF HandlerInv
  <1>3. ASSUME held'[q] = held[q], pc[q] \in {"run"} \union Answers
        PROVE  ~InStore(held[q])'
    <2>1. held[q] \in CardIds
      BY <1>1, <1>2, <1>3 DEF TypeOK, CardIds
    <2>2. ~InStore(held[q])
      BY <1>1, <1>2, <1>3 DEF DeletedBeforeRerun
    <2>3. QED
      BY <1>1, <1>3, <2>1, <2>2, OutStaysOut DEF InStore
  <1>4. CASE held'[q] = held[q] /\ pc'[q] = pc[q]
    BY <1>1, <1>3, <1>4
  <1>5. ASSUME NEW r \in Requests, RemoveApproval(r) PROVE ~InStore(held[q])'
    <2>1. CASE q # r
      BY <1>2, <1>4, <1>5, <2>1 DEF RemoveApproval, Goto, TypeOK
    <2>2. CASE q = r
      <3>1. held'[q] = held[q] /\ held[q] # 0 /\ cards' = cards
            /\ store' = [store EXCEPT ![input[r].thread] = 0]
        BY <1>1, <1>2, <1>5, <2>2 DEF RemoveApproval, TypeOK
      <3>2. cards[held[q]].thread = input[r].thread
        BY <1>2, <2>2, <3>1 DEF StepInv
      <3>3. QED
        BY <1>2, <3>1, <3>2 DEF InStore, TypeOK, Input
    <2>3. QED
      BY <2>1, <2>2
  <1>6. ASSUME NEW r \in Requests,
               \/ Arrive(r) \/ GetApproval(r) \/ DropExpired(r)
               \/ GetApprovalFails(r) \/ CheckCard(r)
        PROVE  ~InStore(held[q])'
    <2>1. CASE q # r
      BY <1>2, <1>4, <1>6, <2>1
      DEF Arrive, GetApproval, DropExpired, GetApprovalFails, CheckCard, Goto,
          TypeOK
    <2>2. CASE q = r
      <3>1. held'[r] = 0 \/ pc'[r] \notin {"run"} \union Answers
        BY <1>2, <1>6
        DEF Arrive, GetApproval, DropExpired, GetApprovalFails, CheckCard, Goto,
            TypeOK, StepInv, IsResume, Answers
      <3>2. QED
        BY <1>1, <2>2, <3>1
    <2>3. QED
      BY <2>1, <2>2
  <1>7. ASSUME NEW r \in Requests, FinishRun(r) PROVE ~InStore(held[q])'
    <2>1. held' = held /\ pc[r] = "run"
          /\ \A p \in Requests \ {r} : pc'[p] = pc[p]
      BY <1>2, <1>7 DEF FinishRun, Goto, TypeOK
    <2>2. QED
      BY <1>1, <1>3, <1>4, <2>1
  <1>8. ASSUME NEW r \in Requests, CheckIntentRisk(r)
        PROVE  ~InStore(held[q])'
    <2>1. held' = held /\ pc[r] = "intent"
          /\ \A p \in Requests \ {r} : pc'[p] = pc[p]
      BY <1>2, <1>8 DEF CheckIntentRisk, Goto, TypeOK
    <2>2. held[r] = 0
      BY <1>2, <2>1 DEF StepInv, IsResume, ResumeKinds
    <2>3. QED
      BY <1>1, <1>4, <2>1, <2>2
  <1>10. CASE Crash
    <2>1. held'[q] = held[q] /\ pc'[q] = pc[q]
      BY <1>1, <1>2, <1>10 DEF Crash, TypeOK, Over, Answers
    <2>2. QED
      BY <1>4, <2>1
  <1>9. QED
    BY <1>1, <1>4, <1>5, <1>6, <1>7, <1>8, <1>10
    DEF Next, Handle, vars, CallDenied, CallExecuted, CallRejected,
        CallInterrupted, Call, Cleanup, TimeToLive, Expire

\* While the agent runs again for a card, and ever after, the card is out of
\* the store.
THEOREM DeletedBeforeRerunAlways == Spec => []DeletedBeforeRerun
  <1>1. Init => DeletedBeforeRerun
    BY DEF Init, DeletedBeforeRerun
  <1>2. HandlerInv /\ DeletedBeforeRerun /\ [Next]_vars => DeletedBeforeRerun'
    BY NextDeletedBeforeRerun
  <1>3. QED
    BY <1>1, <1>2, HandlerInvariant, PTL DEF Spec

-----------------------------------------------------------------------------
(* One approval, one run.  OneShot is not kept by the code: two decisions  *)
(* that have both read the card before either deletes it run the agent     *)
(* twice, and so may a decision whose command to delete the card failed.   *)
(* Nothing else does.                                                      *)

\* Of the decisions on a thread one at a time is between reading the card and
\* deleting it.
Deciding(r) == pc[r] \in {"check", "remove"}

DecisionsAlone ==
    \A r, s \in Requests :
        Deciding(r) /\ Deciding(s) /\ input[r].thread = input[s].thread => r = s

AllDeleted == undeleted = {}

\* A card in somebody's hands is in nobody else's.
InUse(r) == held[r] # 0 /\ pc[r] \in {"check", "remove", "run"} \union Answers

CardAlone ==
    \A r, s \in Requests : InUse(r) /\ InUse(s) /\ held[r] = held[s] => r = s

\* A card comes into use when GetApproval finds it in the store.
LEMMA ComesIntoUse ==
    ASSUME HandlerInv, [Next]_vars, NEW q \in Requests, InUse(q)'
    PROVE  \/ InUse(q) /\ held'[q] = held[q]
           \/ /\ GetApproval(q) /\ pc'[q] = "check"
              /\ held'[q] \in CardIds /\ InStore(held'[q])
              /\ cards[held'[q]].thread = input[q].thread
  <1>1. TypeOK /\ StepInv
    BY DEF HandlerInv
  <1>2. CASE held'[q] = held[q] /\ pc'[q] = pc[q]
    BY <1>2 DEF InUse
  <1>3. ASSUME NEW r \in Requests, GetApproval(r), q # r
        PROVE  InUse(q) /\ held'[q] = held[q]
    BY <1>1, <1>2, <1>3 DEF GetApproval, Goto, TypeOK, InUse
  <1>4. ASSUME GetApproval(q)
        PROVE  /\ pc'[q] = "check" /\ held'[q] \in CardIds /\ InStore(held'[q])
               /\ cards[held'[q]].thread = input[q].thread
    <2>1. held[q] = 0
      BY <1>1, <1>4 DEF GetApproval, StepInv
    <2>2. /\ held'[q] # 0 /\ pc'[q] = "check"
          /\ held'[q] = store[input[q].thread]
      BY <1>1, <1>4, <2>1 DEF GetApproval, Goto, TypeOK, InUse
    <2>3. input[q].thread \in Threads
      BY <1>1 DEF TypeOK, Input
    <2>4. cards[held'[q]].thread = input[q].thread
      BY <2>2, <2>3 DEF HandlerInv, CardsWellPlaced
    <2>5. held'[q] \in CardIds
      BY <1>1, <2>2, <2>3 DEF TypeOK, CardIds
    <2>6. QED
      BY <2>2, <2>4, <2>5 DEF InStore
  <1>5. ASSUME NEW r \in Requests,
               \/ Arrive(r) \/ DropExpired(r) \/ GetApprovalFails(r)
               \/ CheckCard(r) \/ RemoveApproval(r) \/ FinishRun(r)
        PROVE  InUse(q) /\ held'[q] = held[q]
    <2>1. CASE q # r
      BY <1>1, <1>2, <1>5, <2>1
      DEF Arrive, DropExpired, GetApprovalFails, CheckCard, RemoveApproval,
          FinishRun, Goto, TypeOK, InUse
    <2>2. CASE q = r
      <3>1. CASE Arrive(q) \/ DropExpired(q) \/ GetApprovalFails(q)
        BY <1>1, <3>1
        DEF Arrive, DropExpired, GetApprovalFails, StepInv, InUse
      <3>2. CASE CheckCard(q) \/ RemoveApproval(q)
        BY <1>1, <3>2 DEF CheckCard, RemoveApproval, Goto, TypeOK, InUse
      <3>3. CASE FinishRun(q)
        BY <3>3 DEF FinishRun, InUse
      <3>4. QED
        BY <1>5, <2>2, <3>1, <3>2, <3>3
    <2>3. QED
      BY <2>1, <2>2
  <1>6. ASSUME NEW r \in Requests, CheckIntentRisk(r)
        PROVE  InUse(q) /\ held'[q] = held[q]
    <2>1. held' = held /\ pc[r] = "intent"
          /\ \A p \in Requests \ {r} : pc'[p] = pc[p]
      BY <1>1, <1>6 DEF CheckIntentRisk, Goto, TypeOK
    <2>2. held[r] = 0
      BY <1>1, <2>1 DEF StepInv, IsResume, ResumeKinds
    <2>3. QED
      BY <1>2, <2>1, <2>2 DEF InUse
  <1>7. CASE Crash
    <2>1. pc'[q] # "crashed"
      BY DEF InUse, Answers
    <2>2. pc'[q] = pc[q] /\ pc[q] \in {"idle"} \union Over
      BY <1>1, <1>7, <2>1 DEF Crash, TypeOK
    <2>3. pc[q] \notin {"check", "removeExpired"}
      BY <2>2 DEF Over, Answers
    <2>4. held'[q] = held[q]
      BY <1>1, <1>7, <2>3 DEF Crash, TypeOK
    <2>5. QED
      BY <1>2, <2>2, <2>4
  <1>8. QED
    BY <1>2, <1>3, <1>4, <1>5, <1>6, <1>7
    DEF Next, Handle, vars, CallDenied, CallExecuted, CallRejected,
        CallInterrupted, Call, Cleanup, TimeToLive, Expire

LEMMA NextCardAlone ==
    ASSUME HandlerInv, DeletedBeforeRerun, AllDeleted, DecisionsAlone', CardAlone,
           [Next]_vars
    PROVE  CardAlone'
  <1>1. TypeOK /\ StepInv /\ input' = input
    BY Untouched DEF HandlerInv
  <1>2. ASSUME NEW r \in Requests, NEW s \in Requests, r # s,
               GetApproval(r), pc'[r] = "check", held'[r] \in CardIds,
               InStore(held'[r]), cards[held'[r]].thread = input[r].thread,
               InUse(s)', held'[s] = held'[r]
        PROVE  FALSE
    <2>1. pc'[s] = pc[s] /\ held'[s] = held[s]
      BY <1>1, <1>2 DEF GetApproval, Goto, TypeOK
    <2>2. held[s] # 0 /\ cards[held[s]].thread = input[s].thread
      BY <1>1, <1>2, <2>1 DEF InUse, StepInv
    <2>3. pc[s] \notin {"run"} \union Answers
      BY <1>2, <2>1, <2>2 DEF DeletedBeforeRerun, AllDeleted
    <2>4. Deciding(s)' /\ Deciding(r)'
      BY <1>2, <2>1, <2>3 DEF InUse, Deciding
    <2>5. input'[r].thread = input'[s].thread
      BY <1>1, <1>2, <2>1, <2>2
    <2>6. QED
      BY <1>2, <2>4, <2>5 DEF DecisionsAlone
  <1>3. ASSUME NEW r \in Requests, NEW s \in Requests,
               InUse(r)', InUse(s)', held'[r] = held'[s]
        PROVE  r = s
    <2>1. CASE InUse(r) /\ held'[r] = held[r] /\ InUse(s) /\ held'[s] = held[s]
      BY <1>3, <2>1 DEF CardAlone
    <2>2. QED
      BY <1>2, <1>3, <2>1, ComesIntoUse
  <1>4. QED
    BY <1>3 DEF CardAlone

\* OneShot: if decisions on a thread do not overlap between reading the card and
\* deleting it, and every deletion succeeds, the agent is run once for a card,
\* whatever crashes, expires or is asked again meanwhile.
THEOREM OneShotAlone == Spec /\ []DecisionsAlone /\ []AllDeleted => []OneShot
  <1>1. Init => CardAlone
    BY DEF Init, CardAlone, InUse
  <1>2. CardAlone => OneShot
    BY DEF CardAlone, OneShot, InUse
  <1>3. QED
    BY <1>1, <1>2, NextCardAlone, HandlerInvariant, DeletedBeforeRerunAlways, PTL
    DEF Spec

-----------------------------------------------------------------------------
(* Interrupts.                                                             *)

\* Calling one more tool.
LEMMA ToSetAppend ==
    ASSUME NEW S, NEW s \in Seq(S), NEW e \in S
    PROVE  ToSet(Append(s, e)) = ToSet(s) \union {e}
  <1>1. /\ Len(s) \in Nat
        /\ DOMAIN s = 1..Len(s)
        /\ DOMAIN Append(s, e) = 1..(Len(s) + 1)
        /\ \A i \in 1..Len(s) : Append(s, e)[i] = s[i]
        /\ Append(s, e)[Len(s) + 1] = e
    OBVIOUS
  <1>2. DOMAIN Append(s, e) = DOMAIN s \union {Len(s) + 1}
    BY <1>1
  <1>3. QED
    BY <1>1, <1>2 DEF ToSet

\* What the three invariants below say of one request.
CallsOK(q) ==
    /\ input[q].kind = "chatStream"
          => \A t \in ToSet(calls[q]) :
                t \in HighRisk /\ t \in CanExecute[input[q].user]
                   => Interrupted(q)
    /\ pc[q] = "intent" => ~Interrupted(q)
    /\ pc[q] = "interrupt" => Interrupted(q)
    /\ pc[q] = "reply" => ~Interrupted(q)
    /\ /\ input[q].kind = "chatStream"
       /\ input[q].intent # NoIntent
       /\ input[q].intent \in CanExecute[input[q].user]
       => pc[q] # "reply"

InterruptInv == \A q \in Requests : CallsOK(q)

LEMMA NextInterruptInv ==
    HandlerInv /\ InterruptInv /\ [Next]_vars => InterruptInv'
  <1>1. SUFFICES ASSUME HandlerInv, InterruptInv, [Next]_vars, NEW q \in Requests
                 PROVE  CallsOK(q)'
    BY DEF InterruptInv
  <1>2. TypeOK /\ StepInv /\ CallsOK(q)
    BY <1>1 DEF HandlerInv, InterruptInv
  <1>3. cards' = cards => (Interrupted(q)' <=> Interrupted(q))
    BY DEF Interrupted, CardIds
  <1>4. CASE UNCHANGED <<input, cards>> /\ calls'[q] = calls[q] /\ pc'[q] = pc[q]
    BY <1>2, <1>3, <1>4 DEF CallsOK
  <1>5. ASSUME NEW r \in Requests,
               \/ Arrive(r) \/ GetApproval(r) \/ DropExpired(r) \/ CheckCard(r)
               \/ GetApprovalFails(r) \/ RemoveApproval(r)
        PROVE  CallsOK(q)'
    <2>1. UNCHANGED <<input, cards, calls>>
      BY <1>5 DEF Arrive, GetApproval, DropExpired, CheckCard, RemoveApproval,
                  GetApprovalFails
    <2>2. CASE q # r
      BY <1>2, <1>4, <1>5, <2>1, <2>2
      DEF Arrive, GetApproval, DropExpired, CheckCard, RemoveApproval, Goto,
          TypeOK, GetApprovalFails
    <2>3. CASE q = r
      <3>1. pc'[q] \notin {"intent", "interrupt", "reply"}
        BY <1>2, <1>5, <2>3, NoCardIs
        DEF Arrive, GetApproval, DropExpired, CheckCard, RemoveApproval, Goto,
            TypeOK, GetApprovalFails
      <3>2. QED
        BY <1>2, <1>3, <2>1, <3>1 DEF CallsOK
    <2>4. QED
      BY <2>2, <2>3
  <1>6. ASSUME NEW r \in Requests, NEW t \in Tools, Call(r, t),
               UNCHANGED cards,
               input[r].kind = "chatStream"
                  => t \notin HighRisk \/ t \notin CanExecute[input[r].user]
        PROVE  CallsOK(q)'
    <2>1. CASE q # r
      BY <1>2, <1>4, <1>6, <2>1 DEF Call, TypeOK
    <2>2. CASE q = r
      <3>1. ToSet(calls'[q]) = ToSet(calls[q]) \union {t}
        BY <1>2, <1>6, <2>2, ToSetAppend DEF Call, TypeOK
      <3>2. UNCHANGED <<input, pc>>
        BY <1>6 DEF Call
      <3>3. QED
        BY <1>2, <1>3, <1>6, <2>2, <3>1, <3>2 DEF CallsOK
    <2>3. QED
      BY <2>1, <2>2
  <1>7. ASSUME NEW r \in Requests, NEW t \in Tools,
               CallDenied(r, t) \/ CallExecuted(r, t) \/ CallRejected(r, t)
        PROVE  CallsOK(q)'
    BY <1>6, <1>7 DEF CallDenied, CallExecuted, CallRejected, DecisionCovers,
                      IsResume, ResumeKinds
  <1>8. ASSUME NEW r \in Requests, NEW t \in Tools, CallInterrupted(r, t)
        PROVE  CallsOK(q)'
    <2>1. /\ t \in HighRisk /\ AddApproval(r, t) /\ pc[r] = "run"
          /\ UNCHANGED <<input, pc>>
      BY <1>8 DEF CallInterrupted, Call
    <2>2. CASE q # r
      <3>1. Interrupted(q)' <=> Interrupted(q)
        BY <1>2, <2>1, <2>2, AddApprovalEffect
      <3>2. calls'[q] = calls[q]
        BY <1>2, <1>8, <2>2 DEF CallInterrupted, Call, TypeOK
      <3>3. QED
        BY <1>2, <2>1, <3>1, <3>2 DEF CallsOK
    <2>3. CASE q = r
      <3>1. Interrupted(q)'
        BY <1>2, <2>1, <2>3, AddApprovalEffect
      <3>2. QED
        BY <2>1, <2>3, <3>1 DEF CallsOK
    <2>4. QED
      BY <2>2, <2>3
  <1>9. ASSUME NEW r \in Requests, FinishRun(r) PROVE CallsOK(q)'
    <2>1. UNCHANGED <<input, cards, calls>>
      BY <1>9 DEF FinishRun
    <2>2. CASE q # r
      BY <1>2, <1>4, <1>9, <2>1, <2>2 DEF FinishRun, Goto, TypeOK
    <2>3. CASE q = r
      <3>1. \/ Interrupted(q) /\ pc'[q] = "interrupt"
            \/ ~Interrupted(q) /\ pc'[q] = "intent" /\ input[q].kind = "chatStream"
            \/ ~Interrupted(q) /\ pc'[q] = "reply" /\ input[q].kind # "chatStream"
            \/ pc'[q] = "error"
        BY <1>2, <1>9, <2>3 DEF FinishRun, Goto, TypeOK
      <3>2. QED
        BY <1>2, <1>3, <2>1, <3>1 DEF CallsOK
    <2>4. QED
      BY <2>2, <2>3
  <1>10. ASSUME NEW r \in Requests, CheckIntentRisk(r) PROVE CallsOK(q)'
    <2>1. UNCHANGED <<input, calls>> /\ pc[r] = "intent"
      BY <1>10 DEF CheckIntentRisk
    <2>2. CASE IntentRisk(r)
      <3>1. input[r].intent \in HighRisk /\ AddApproval(r, input[r].intent)
        BY <1>2, <1>10, <2>2 DEF CheckIntentRisk, IntentRisk, TypeOK, Input
      <3>2. CASE q # r
        <4>1. Interrupted(q)' <=> Interrupted(q)
          BY <1>2, <3>1, <3>2, AddApprovalEffect
        <4>2. pc'[q] = pc[q]
          BY <1>2, <1>10, <3>2 DEF CheckIntentRisk, Goto, TypeOK
        <4>3. QED
          BY <1>2, <2>1, <4>1, <4>2 DEF CallsOK
      <3>3. CASE q = r
        <4>1. Interrupted(q)'
          BY <1>2, <3>1, <3>3, AddApprovalEffect
        <4>2. pc'[q] = "interrupt"
          BY <1>2, <1>10, <2>2, <3>3 DEF CheckIntentRisk, Goto, TypeOK
        <4>3. QED
          BY <2>1, <4>1, <4>2 DEF CallsOK
      <3>4. QED
        BY <3>2, <3>3
    <2>3. CASE ~IntentRisk(r)
      <3>1. UNCHANGED cards
        BY <1>10, <2>3 DEF CheckIntentRisk
      <3>2. CASE q # r
        BY <1>2, <1>4, <1>10, <2>1, <3>1, <3>2 DEF CheckIntentRisk, Goto, TypeOK
      <3>3. CASE q = r
        <4>1. pc'[q] = "reply"
          BY <1>2, <1>10, <2>3, <3>3 DEF CheckIntentRisk, Goto, TypeOK
        <4>2. input[q].kind = "chatStream" /\ ~Interrupted(q)
          BY <1>2, <2>1, <3>3 DEF StepInv, CallsOK
        <4>3. input[q].intent \in HighRisk \union {NoIntent}
          BY <1>2 DEF TypeOK, Input
        <4>4. ~(/\ input[q].intent # NoIntent
                /\ input[q].intent \in CanExecute[input[q].user])
          BY <1>2, <2>3, <3>3, <4>2, <4>3 DEF IntentRisk, CallsOK
        <4>5. QED
          BY <1>2, <1>3, <2>1, <3>1, <4>1, <4>2, <4>4 DEF CallsOK
      <3>4. QED
        BY <3>2, <3>3
    <2>4. QED
      BY <2>2, <2>3
  <1>11. CASE \/ Cleanup \/ Expire \/ UNCHANGED vars
              \/ \E t \in Threads : TimeToLive(t)
    BY <1>4, <1>11 DEF Cleanup, TimeToLive, Expire, vars
  <1>13. CASE Crash
    <2>1. /\ UNCHANGED <<input, cards, calls>>
          /\ pc'[q] = pc[q] \/ pc'[q] = "crashed"
      BY <1>13 DEF Crash
    <2>2. QED
      BY <1>2, <1>3, <2>1 DEF CallsOK
  <1>12. QED
    BY <1>1, <1>5, <1>7, <1>8, <1>9, <1>10, <1>11, <1>13 DEF Next, Handle

LEMMA InterruptInvariant == Spec => []InterruptInv
  <1>1. Init => InterruptInv
    BY DEF Init, InterruptInv, CallsOK, Interrupted, CardIds, ToSet
  <1>2. HandlerInv /\ InterruptInv /\ [Next]_vars => InterruptInv'
    BY NextInterruptInv
  <1>3. QED
    BY <1>1, <1>2, HandlerInvariant, PTL DEF Spec

\* An interrupt is answered exactly by the requests that saved a card.
THEOREM InterruptsAnnouncedAlways == Spec => []InterruptsAnnounced
  <1>1. InterruptInv => InterruptsAnnounced
    BY DEF InterruptInv, CallsOK, InterruptsAnnounced
  <1>2. QED
    BY <1>1, InterruptInvariant, PTL

\* A streamed chat with a high-risk intent its user may carry out never ends
\* in a plain reply.
THEOREM IntentGatedAlways == Spec => []IntentGated
  <1>1. InterruptInv => IntentGated
    BY DEF InterruptInv, CallsOK, IntentGated
  <1>2. QED
    BY <1>1, InterruptInvariant, PTL

-----------------------------------------------------------------------------
(* The properties the runs check.                                          *)

\* A card that has been accepted is gone before the agent runs again, and no
\* decision that comes after is accepted for it.
THEOREM CardSpentAlways == Spec => []CardSpent
  <1>1. DeletedBeforeRerun /\ LateDecisionRefused => CardSpent
    BY DEF CardSpent
  <1>2. QED
    BY <1>1, DeletedBeforeRerunAlways, LateDecisionRefusedAlways, PTL

\* Every card asks its owner for what the owner may do, every answer tells of
\* the card of its request, and a risky intent leaves a card.
THEOREM CardsAnnouncedAlways == Spec => []CardsAnnounced
  <1>1. CardsWellPlaced /\ InterruptsAnnounced /\ IntentGated => CardsAnnounced
    BY DEF CardsAnnounced
  <1>2. QED
    BY <1>1, CardsWellPlacedAlways, InterruptsAnnouncedAlways, IntentGatedAlways, PTL

-----------------------------------------------------------------------------
(* The handlers implement the gate.                                        *)

\* Append as a function.
LEMMA AppendIs ==
    ASSUME NEW S, NEW f \in Seq(S), NEW e \in S
    PROVE  Append(f, e) = [i \in 1..(Len(f) + 1) |->
                              IF i = Len(f) + 1 THEN e ELSE f[i]]
  <1> DEFINE s == Append(f, e)
  <1>1. /\ s \in Seq(S) /\ Len(s) = Len(f) + 1 /\ Len(f) \in Nat
        /\ \A i \in 1..Len(f) : s[i] = f[i]
        /\ s[Len(f) + 1] = e
    OBVIOUS
  <1> HIDE DEF s
  <1>2. s = [i \in 1..Len(s) |-> s[i]]
    BY <1>1
  <1>3. \A i \in 1..(Len(f) + 1) : s[i] = IF i = Len(f) + 1 THEN e ELSE f[i]
    BY <1>1
  <1>4. QED
    BY <1>1, <1>2, <1>3 DEF s

\* The heap grows by a card: so does the gate's list.
LEMMA GateIssues ==
    ASSUME HandlerInv, NEW r \in Requests, NEW t \in HighRisk, AddApproval(r, t)
    PROVE  GateCards' = Append(GateCards, [owner |-> input[r].user, tool |-> t])
  <1>1. /\ Len(cards') = Len(cards) + 1 /\ Len(cards) \in Nat
        /\ \A c \in CardIds : cards'[c] = cards[c]
        /\ cards'[Len(cards) + 1].owner = input[r].user
        /\ cards'[Len(cards) + 1].tool = t
    BY AppendCard DEF HandlerInv, TypeOK
  <1> DEFINE new == [owner |-> input[r].user, tool |-> t]
             n == Len(cards)
             f == [c \in 1..n |-> [owner |-> cards[c].owner, tool |-> cards[c].tool]]
  <1>2. CardIds' = 1..(n + 1) /\ CardIds = 1..n
    BY <1>1 DEF CardIds
  <1>3. GateCards' = [c \in 1..(n + 1) |-> IF c = n + 1 THEN new ELSE f[c]]
    BY <1>1, <1>2 DEF GateCards
  <1>4. GateCards = f
    BY <1>2 DEF GateCards
  <1> DEFINE S == {f[c] : c \in 1..n} \union {new}
  <1>5. f \in Seq(S) /\ Len(f) = n /\ n \in Nat /\ new \in S
    BY <1>1
  <1> HIDE DEF f, n, new, S
  <1>6. Append(f, new) = [c \in 1..(n + 1) |-> IF c = n + 1 THEN new ELSE f[c]]
    BY <1>5, AppendIs
  <1>7. QED
    BY <1>3, <1>4, <1>6 DEF new

\* A step at which nobody's decision is accepted.
LEMMA GateGrantsKept ==
    ASSUME HandlerInv, input' = input,
           \A q \in Requests : IsResume(q) /\ input[q].decision = "approve" =>
               /\ Granted(q)' <=> Granted(q)
               /\ Granted(q) => held'[q] = held[q]
    PROVE  GateGrants' = GateGrants
  <1>1. \A q \in Requests : /\ Accepted(q)' <=> Accepted(q)
                            /\ Accepted(q) => held'[q] = held[q]
    BY DEF Accepted, IsResume
  <1>2. QED
    BY <1>1 DEF GateGrants

LEMMA StepGate == HandlerInv /\ [Next]_vars => [Gate!Next]_(Gate!gateVars)
  <1> SUFFICES ASSUME HandlerInv, [Next]_vars
               PROVE  [Gate!Next]_(Gate!gateVars)
    OBVIOUS
  <1>0. /\ TypeOK /\ StepInv /\ CardsWellPlaced
        /\ Len(cards) \in Nat /\ expired \in 0..Len(cards)
        /\ pc \in [Requests -> Waiting \union Over]
        /\ held \in [Requests -> 0..Len(cards)]
        /\ input \in [Requests -> Input]
    BY DEF HandlerInv, TypeOK
  <1>1. input' = input
    BY Untouched
  <1>2. ASSUME UNCHANGED <<cards, execs, expired>>, GateGrants' = GateGrants
        PROVE  UNCHANGED Gate!gateVars
    BY <1>1, <1>2 DEF Gate!gateVars, GateCards, GateExecs, CardIds
  \* Steps of a handler that nothing is granted at.
  <1>3. ASSUME NEW r \in Requests, UNCHANGED <<cards, execs, expired>>,
               \A q \in Requests \ {r} : pc'[q] = pc[q] /\ held'[q] = held[q],
               IsResume(r) => /\ Granted(r)' <=> Granted(r)
                              /\ Granted(r) => held'[r] = held[r]
        PROVE  UNCHANGED Gate!gateVars
    BY <1>1, <1>2, <1>3, GateGrantsKept DEF Granted
  <1>4. ASSUME NEW r \in Requests,
               \/ Arrive(r) \/ GetApproval(r) \/ DropExpired(r)
               \/ GetApprovalFails(r) \/ RemoveApproval(r) \/ FinishRun(r)
        PROVE  UNCHANGED Gate!gateVars
    <2>1. /\ UNCHANGED <<cards, execs, expired>>
          /\ \A q \in Requests \ {r} : pc'[q] = pc[q] /\ held'[q] = held[q]
      BY <1>0, <1>4 DEF Arrive, GetApproval, DropExpired, RemoveApproval,
                        FinishRun, Goto, GetApprovalFails
    <2>2. /\ Granted(r)' <=> Granted(r)
          /\ Granted(r) => held'[r] = held[r]
      BY <1>0, <1>4 DEF StepInv, Granted, Goto, Arrive, GetApproval,
                        DropExpired, RemoveApproval, FinishRun,
                        GetApprovalFails, Over, Answers
    <2>3. QED
      BY <1>3, <2>1, <2>2
  <1>5. ASSUME NEW r \in Requests, CheckCard(r)
        PROVE  [Gate!Next]_(Gate!gateVars)
    <2> DEFINE c == held[r]
    <2>1. /\ pc[r] = "check" /\ c # 0 /\ c \in CardIds /\ IsResume(r)
          /\ UNCHANGED <<cards, execs, expired>>
          /\ \A q \in Requests \ {r} : pc'[q] = pc[q] /\ held'[q] = held[q]
      BY <1>0, <1>5 DEF CheckCard, StepInv, CardIds, Goto
    <2>2. ~Granted(r)
      BY <2>1 DEF Granted
    <2>3. CASE /\ cards[c].owner = input[r].user /\ ~Expired(c)
               /\ input[r].decision = "approve"
      <3>1. pc' = [pc EXCEPT ![r] = "remove"] /\ held' = held
        BY <1>5, <2>3 DEF CheckCard, Goto
      <3>2. /\ Accepted(r)' /\ ~Accepted(r)
            /\ \A q \in Requests \ {r} : Accepted(q)' <=> Accepted(q)
        BY <1>0, <1>1, <2>1, <2>2, <2>3, <3>1 DEF Accepted, Granted, IsResume
      <3>3. GateGrants' = GateGrants \union
                             {[req |-> r, card |-> c, by |-> input[r].user]}
        BY <1>1, <3>1, <3>2 DEF GateGrants
      <3>4. \A g \in GateGrants : g.req # r
        BY <3>2 DEF GateGrants
      <3>5. c > expired
        BY <1>0, <2>1, <2>3 DEF Expired, CardIds
      <3>6. GateCards[c].owner = input[r].user /\ GateCards' = GateCards
        BY <2>1, <2>3 DEF GateCards, CardIds
      <3>7. GateExecs' = GateExecs
        BY <1>1, <2>1 DEF GateExecs
      <3>8. c \in 1..Len(GateCards)
        BY <1>0, <2>1 DEF GateCards, CardIds
      <3>9. Gate!Grant(r, c)
        BY <2>1, <3>3, <3>4, <3>5, <3>6, <3>7 DEF Gate!Grant
      <3>10. QED
        BY <3>8, <3>9 DEF Gate!Next
    <2>4. CASE cards[c].owner # input[r].user
      <3>1. pc'[r] = "forbidden" /\ held'[r] = 0
        BY <1>0, <1>5, <2>4 DEF CheckCard, Goto
      <3>2. QED
        BY <1>3, <2>1, <2>2, <3>1 DEF Granted
    <2>5. CASE cards[c].owner = input[r].user /\ Expired(c)
      <3>1. pc'[r] = "removeExpired"
        BY <1>0, <1>5, <2>5 DEF CheckCard, Goto
      <3>2. QED
        BY <1>3, <2>1, <2>2, <3>1 DEF Granted
    <2>6. CASE input[r].decision # "approve"
      <3>1. GateGrants' = GateGrants
        BY <1>1, <2>1, <2>6, GateGrantsKept DEF Granted
      <3>2. QED
        BY <1>2, <2>1, <3>1
    <2>7. QED
      BY <2>3, <2>4, <2>5, <2>6
  <1>6. ASSUME NEW r \in Requests, NEW t \in Tools,
               CallDenied(r, t) \/ CallRejected(r, t)
        PROVE  UNCHANGED Gate!gateVars
    <2>1. UNCHANGED <<cards, execs, expired, pc, held>>
      BY <1>6 DEF CallDenied, CallRejected, Call
    <2>2. QED
      BY <1>3, <2>1 DEF Granted
  <1>7. ASSUME NEW r \in Requests, NEW t \in Tools, CallExecuted(r, t)
        PROVE  [Gate!Next]_(Gate!gateVars)
    <2>1. /\ UNCHANGED <<cards, expired, pc, held>> /\ pc[r] = "run"
          /\ t \in CanExecute[input[r].user]
          /\ t \in HighRisk => DecisionCovers(r, t) /\ input[r].decision = "approve"
          /\ execs' = execs \union {<<r, t>>}
      BY <1>7 DEF CallExecuted, Call
    <2>2. GateGrants' = GateGrants /\ GateCards' = GateCards
      BY <1>1, <2>1, GateGrantsKept DEF Granted, GateCards, CardIds
    <2>3. GateExecs' = GateExecs \union
                          {[req |-> r, tool |-> t, by |-> input[r].user]}
      <3> DEFINE Exec(e) == [req |-> e[1], tool |-> e[2], by |-> input[e[1]].user]
      <3>1. Exec(<<r, t>>) = [req |-> r, tool |-> t, by |-> input[r].user]
        OBVIOUS
      <3>2. /\ GateExecs = {Exec(e) : e \in execs}
            /\ GateExecs' = {Exec(e) : e \in execs \union {<<r, t>>}}
        BY <1>1, <2>1 DEF GateExecs
      <3> HIDE DEF Exec
      <3>3. QED
        BY <3>1, <3>2
    <2>4. ASSUME t \in HighRisk
          PROVE  \E g \in GateGrants : /\ g.req = r /\ g.by = input[r].user
                                       /\ GateCards[g.card].tool = t
      <3>1. IsResume(r) /\ cards[held[r]].tool = t /\ input[r].decision = "approve"
        BY <2>1, <2>4 DEF DecisionCovers
      <3>2. Accepted(r) /\ held[r] \in CardIds
        BY <1>0, <2>1, <3>1 DEF Accepted, Granted, StepInv, CardIds
      <3>3. [req |-> r, card |-> held[r], by |-> input[r].user] \in GateGrants
        BY <3>2 DEF GateGrants
      <3>4. GateCards[held[r]].tool = t
        BY <3>1, <3>2 DEF GateCards
      <3>5. QED
        BY <3>3, <3>4
    <2>5. Gate!Execute(r, input[r].user, t)
      BY <2>1, <2>2, <2>3, <2>4 DEF Gate!Execute
    <2>6. input[r].user \in Users
      BY <1>0 DEF Input
    <2>7. QED
      BY <2>5, <2>6 DEF Gate!Next
  <1>8. ASSUME NEW r \in Requests, NEW t \in HighRisk, AddApproval(r, t),
               t \in CanExecute[input[r].user],
               UNCHANGED <<held, execs, expired>>,
               \A q \in Requests : \/ pc'[q] = pc[q]
                                   \/ pc[q] = "intent" /\ pc'[q] = "interrupt"
        PROVE  [Gate!Next]_(Gate!gateVars)
    <2>1. GateCards' = Append(GateCards, [owner |-> input[r].user, tool |-> t])
      BY <1>8, GateIssues
    <2>2. GateGrants' = GateGrants
      BY <1>1, <1>8, GateGrantsKept DEF Granted
    <2>3. GateExecs' = GateExecs
      BY <1>1, <1>8 DEF GateExecs
    <2>4. Gate!Issue(input[r].user, t)
      BY <1>8, <2>1, <2>2, <2>3 DEF Gate!Issue
    <2>5. input[r].user \in Users /\ t \in Tools
      BY <1>0, ApprovalAssumption DEF Input
    <2>6. QED
      BY <2>4, <2>5 DEF Gate!Next
  <1>9. ASSUME NEW r \in Requests, NEW t \in Tools, CallInterrupted(r, t)
        PROVE  [Gate!Next]_(Gate!gateVars)
    BY <1>8, <1>9 DEF CallInterrupted, Call
  <1>10. ASSUME NEW r \in Requests, CheckIntentRisk(r)
         PROVE  [Gate!Next]_(Gate!gateVars)
    <2>1. /\ UNCHANGED <<held, execs, expired>> /\ pc[r] = "intent"
          /\ \A q \in Requests \ {r} : pc'[q] = pc[q]
          /\ pc'[r] = IF IntentRisk(r) THEN "interrupt" ELSE "reply"
      BY <1>0, <1>10 DEF CheckIntentRisk, Goto
    <2>2. CASE IntentRisk(r)
      <3>1. /\ input[r].intent \in HighRisk
            /\ input[r].intent \in CanExecute[input[r].user]
            /\ AddApproval(r, input[r].intent)
        BY <1>0, <1>10, <2>2 DEF CheckIntentRisk, IntentRisk, Input
      <3>2. QED
        BY <1>8, <2>1, <2>2, <3>1
    <2>3. CASE ~IntentRisk(r)
      <3>1. cards' = cards
        BY <1>10, <2>3 DEF CheckIntentRisk
      <3>2. QED
        BY <1>3, <2>1, <2>3, <3>1 DEF Granted
    <2>4. QED
      BY <2>2, <2>3
  <1>11. CASE Cleanup \/ UNCHANGED vars \/ \E t \in Threads : TimeToLive(t)
    <2>1. UNCHANGED <<cards, execs, expired, pc, held>>
      BY <1>11 DEF Cleanup, TimeToLive, vars
    <2>2. QED
      BY <1>1, <1>2, <2>1, GateGrantsKept DEF Granted
  <1>12. CASE Expire
    <2>1. /\ expired < Len(cards) /\ expired' = expired + 1
          /\ UNCHANGED <<cards, execs, pc, held>>
      BY <1>12 DEF Expire
    <2>2. GateGrants' = GateGrants /\ GateCards' = GateCards
          /\ GateExecs' = GateExecs
      BY <1>1, <2>1, GateGrantsKept DEF Granted, GateCards, GateExecs, CardIds
    <2>3. Len(GateCards) = Len(cards)
      BY <1>0 DEF GateCards, CardIds
    <2>4. QED
      BY <2>1, <2>2, <2>3 DEF Gate!Next, Gate!Expire
  <1>14. CASE Crash
    <2>1. UNCHANGED <<cards, execs, expired>>
      BY <1>14 DEF Crash
    <2>2. \A q \in Requests : /\ Granted(q)' <=> Granted(q)
                              /\ Granted(q) => held'[q] = held[q]
      BY <1>0, <1>14 DEF Crash, Granted, Over, Answers
    <2>3. QED
      BY <1>1, <1>2, <2>1, <2>2, GateGrantsKept
  <1>13. QED
    BY <1>4, <1>5, <1>6, <1>7, <1>9, <1>10, <1>11, <1>12, <1>14 DEF Next, Handle

LEMMA InitGate == Init => Gate!Init
  <1> SUFFICES ASSUME Init PROVE Gate!Init
    OBVIOUS
  <1>1. CardIds = {} /\ execs = {} /\ expired = 0
    BY DEF Init, CardIds
  <1>2. GateCards = << >>
    BY <1>1 DEF GateCards
  <1>3. GateGrants = {}
    BY DEF Init, GateGrants, Accepted, Granted
  <1>4. GateExecs = {}
    BY <1>1 DEF GateExecs
  <1>5. QED
    BY <1>1, <1>2, <1>3, <1>4 DEF Gate!Init

\* Whatever threads, stores and handlers do, seen from outside it is the gate:
\* cards are issued and granted, and tools run, only as it allows.
THEOREM ImplementsGate == Spec => GateSpec
  BY HandlerInvariant, InitGate, StepGate, PTL DEF Spec, GateSpec, Gate!Spec

-----------------------------------------------------------------------------
(* How many steps a request has.                                           *)

\* The steps a handler can still take at a step of its own, n tools called.
StepsFrom(step, n) ==
    CASE step = "idle"        -> MaxCalls + 6
      [] step = "get"         -> MaxCalls + 5
      [] step = "check"       -> MaxCalls + 4
      [] step = "remove"      -> MaxCalls + 3
      [] step = "run"         -> MaxCalls + 2 - n
      [] step \in {"dropExpired", "removeExpired", "intent"} -> 1
      [] OTHER                -> 0

StepsToCome(r) == StepsFrom(pc[r], Len(calls[r]))

CallsBound == \A r \in Requests : Len(calls[r]) <= MaxCalls

\* Two steps of a handler: it calls a tool, or it goes on.
LEMMA HandlerMoves ==
    ASSUME TypeOK, NEW r \in Requests, Arrive(r) \/ Handle(r)
    PROVE  /\ \A q \in Requests \ {r} : pc'[q] = pc[q] /\ calls'[q] = calls[q]
           /\ \/ /\ pc[r] = "run" /\ pc'[r] = "run"
                 /\ Len(calls[r]) < MaxCalls /\ Len(calls'[r]) = Len(calls[r]) + 1
              \/ /\ calls'[r] = calls[r]
                 /\ \/ pc[r] = "idle" /\ pc'[r] \in {"run", "badRequest", "get"}
                    \/ /\ pc[r] = "get"
                       /\ pc'[r] \in Answers \union {"dropExpired", "check"}
                    \/ pc[r] = "check" /\ pc'[r] \in Answers \union {"removeExpired", "remove"}
                    \/ pc[r] = "remove" /\ pc'[r] = "run"
                    \/ pc[r] = "run" /\ pc'[r] \in Answers \union {"intent"}
                    \/ /\ pc[r] \in {"dropExpired", "removeExpired", "intent"}
                       /\ pc'[r] \in Answers
  <1>1. /\ pc \in [Requests -> Waiting \union Over] /\ calls \in [Requests -> Seq(Tools)]
    BY DEF TypeOK
  <1>2. CASE \E t \in Tools : \/ CallDenied(r, t) \/ CallExecuted(r, t)
                              \/ CallRejected(r, t) \/ CallInterrupted(r, t)
    <2>1. PICK t \in Tools : Call(r, t)
      BY <1>2 DEF CallDenied, CallExecuted, CallRejected, CallInterrupted
    <2>2. Len(calls'[r]) = Len(calls[r]) + 1
      BY <1>1, <2>1, AppendIs DEF Call
    <2>3. QED
      BY <1>1, <2>1, <2>2 DEF Call
  <1>3. CASE Arrive(r)
    BY <1>1, <1>3 DEF Arrive, Goto
  <1>4. CASE GetApproval(r) \/ DropExpired(r) \/ GetApprovalFails(r)
    BY <1>1, <1>4, NoCardIs DEF GetApproval, DropExpired, GetApprovalFails, Goto, Answers
  <1>5. CASE CheckCard(r) \/ RemoveApproval(r)
    BY <1>1, <1>5 DEF CheckCard, RemoveApproval, Goto, Answers
  <1>6. CASE FinishRun(r) \/ CheckIntentRisk(r)
    BY <1>1, <1>6 DEF FinishRun, CheckIntentRisk, Goto, Answers
  <1>7. QED
    BY <1>2, <1>3, <1>4, <1>5, <1>6 DEF Handle

\* The other steps call no tool, and end handlers or leave them alone.
LEMMA OthersMove ==
    ASSUME TypeOK, [Next]_vars, ~\E r \in Requests : Arrive(r) \/ Handle(r)
    PROVE  /\ UNCHANGED calls
           /\ \A q \in Requests : pc'[q] = pc[q] \/ pc'[q] = "crashed"
  <1>1. pc \in [Requests -> Waiting \union Over]
    BY DEF TypeOK
  <1>2. CASE Crash
    BY <1>1, <1>2 DEF Crash
  <1>3. CASE UNCHANGED <<pc, calls>>
    BY <1>3
  <1>4. QED
    BY <1>2, <1>3 DEF Next, vars, Cleanup, TimeToLive, Expire

LEMMA CallsBoundAlways == Spec => []CallsBound
  <1>1. Init => CallsBound
    BY ApprovalAssumption DEF Init, CallsBound
  <1>2. TypeOK /\ CallsBound /\ [Next]_vars => CallsBound'
    <2>1. SUFFICES ASSUME TypeOK, CallsBound, [Next]_vars, NEW q \in Requests
                   PROVE  Len(calls'[q]) <= MaxCalls
      BY DEF CallsBound
    <2>2. Len(calls[q]) \in Nat /\ Len(calls[q]) <= MaxCalls /\ MaxCalls \in Nat
      BY <2>1, ApprovalAssumption DEF CallsBound, TypeOK
    <2>3. CASE \E r \in Requests : Arrive(r) \/ Handle(r)
      <3>1. PICK r \in Requests : Arrive(r) \/ Handle(r)
        BY <2>3
      <3>2. \/ calls'[q] = calls[q]
            \/ Len(calls[q]) < MaxCalls /\ Len(calls'[q]) = Len(calls[q]) + 1
        BY <2>1, <3>1, HandlerMoves
      <3>3. QED
        BY <2>2, <3>2
    <2>4. CASE ~\E r \in Requests : Arrive(r) \/ Handle(r)
      BY <2>1, <2>2, <2>4, OthersMove
    <2>5. QED
      BY <2>3, <2>4
  <1>3. QED
    BY <1>1, <1>2, TypeCorrect, PTL DEF Spec

LEMMA StepsType ==
    ASSUME NEW step, NEW n \in Nat, n <= MaxCalls PROVE StepsFrom(step, n) \in Nat
  BY ApprovalAssumption DEF StepsFrom

LEMMA NoStepsLeft ==
    ASSUME NEW step \in Over, NEW n PROVE StepsFrom(step, n) = 0
  BY DEF StepsFrom, Over, Answers

LEMMA HandlerTakesOne ==
    ASSUME TypeOK, CallsBound, NEW r \in Requests, Arrive(r) \/ Handle(r)
    PROVE  StepsToCome(r)' < StepsToCome(r) /\ StepsToCome(r)' \in Nat
  <1> DEFINE n == Len(calls[r])
             m == Len(calls'[r])
  <1>1. MaxCalls \in Nat /\ n \in Nat /\ n <= MaxCalls
    BY ApprovalAssumption DEF TypeOK, CallsBound
  <1>2. /\ StepsToCome(r) = StepsFrom(pc[r], n)
        /\ StepsToCome(r)' = StepsFrom(pc'[r], m)
    BY DEF StepsToCome
  <1>3. /\ StepsFrom("idle", n) = MaxCalls + 6 /\ StepsFrom("get", n) = MaxCalls + 5
        /\ StepsFrom("check", n) = MaxCalls + 4 /\ StepsFrom("remove", n) = MaxCalls + 3
        /\ StepsFrom("run", n) = MaxCalls + 2 - n /\ StepsFrom("run", m) = MaxCalls + 2 - m
        /\ \A step \in {"dropExpired", "removeExpired", "intent"} :
              StepsFrom(step, n) = 1
        /\ \A step \in Answers : StepsFrom(step, n) = 0
    BY NoStepsLeft DEF StepsFrom, Over
  <1> HIDE DEF n, m
  <1>4. CASE /\ pc[r] = "run" /\ pc'[r] = "run"
             /\ n < MaxCalls /\ m = n + 1
    BY <1>1, <1>2, <1>3, <1>4
  <1>5. CASE /\ m = n
             /\ \/ pc[r] = "idle" /\ pc'[r] \in {"run", "badRequest", "get"}
                \/ /\ pc[r] = "get"
                   /\ pc'[r] \in Answers \union {"dropExpired", "check"}
                \/ pc[r] = "check" /\ pc'[r] \in Answers \union {"removeExpired", "remove"}
                \/ pc[r] = "remove" /\ pc'[r] = "run"
                \/ pc[r] = "run" /\ pc'[r] \in Answers \union {"intent"}
                \/ /\ pc[r] \in {"dropExpired", "removeExpired", "intent"}
                   /\ pc'[r] \in Answers
    <2>1. StepsFrom("badRequest", n) = 0
      BY <1>3 DEF Answers
    <2>2. QED
      BY <1>1, <1>2, <1>3, <1>5, <2>1
  <1>6. QED
    BY <1>4, <1>5, HandlerMoves DEF n, m

\* A handler is never held up by another one, whatever the other requests, the
\* cleanup, Redis and the clock do: each of its steps takes one off the number
\* it has left, MaxCalls + 6 when it arrives, and no step of anybody else adds
\* to it.  (What is left of RequestsAnswered is that it is never stuck.)
THEOREM StepsRunOut ==
    Spec => [][\A r \in Requests :
                 /\ StepsToCome(r) \in Nat /\ StepsToCome(r)' <= StepsToCome(r)
                 /\ Arrive(r) \/ Handle(r)
                       => StepsToCome(r)' < StepsToCome(r)]_vars
  <1>1. TypeOK /\ CallsBound /\ [Next]_vars
          => [\A r \in Requests :
                 /\ StepsToCome(r) \in Nat /\ StepsToCome(r)' <= StepsToCome(r)
                 /\ Arrive(r) \/ Handle(r)
                       => StepsToCome(r)' < StepsToCome(r)]_vars
    <2>1. SUFFICES ASSUME TypeOK, CallsBound, [Next]_vars, NEW q \in Requests
                   PROVE  /\ StepsToCome(q) \in Nat
                          /\ StepsToCome(q)' <= StepsToCome(q)
                          /\ Arrive(q) \/ Handle(q)
                                => StepsToCome(q)' < StepsToCome(q)
      OBVIOUS
    <2>9. Len(calls[q]) \in Nat /\ Len(calls[q]) <= MaxCalls
      BY <2>1 DEF TypeOK, CallsBound
    <2>2. StepsToCome(q) \in Nat
      BY <2>9, StepsType DEF StepsToCome
    <2>3. CASE Arrive(q) \/ Handle(q)
      BY <2>1, <2>2, <2>3, HandlerTakesOne
    <2>4. ASSUME calls'[q] = calls[q], pc'[q] = pc[q] \/ pc'[q] = "crashed"
          PROVE  StepsToCome(q)' <= StepsToCome(q)
      <3>1. CASE pc'[q] = "crashed"
        <4>1. StepsToCome(q)' = 0
          BY <3>1, NoStepsLeft DEF StepsToCome, Over
        <4>2. QED
          BY <2>2, <4>1
      <3>2. CASE pc'[q] = pc[q]
        <4>1. StepsToCome(q)' = StepsToCome(q)
          BY <2>4, <3>2 DEF StepsToCome
        <4>2. QED
          BY <2>2, <4>1
      <3>3. QED
        BY <2>4, <3>1, <3>2
    <2>5. CASE /\ ~(Arrive(q) \/ Handle(q))
               /\ \E r \in Requests \ {q} : Arrive(r) \/ Handle(r)
      <3>1. PICK r \in Requests \ {q} : Arrive(r) \/ Handle(r)
        BY <2>5
      <3>2. pc'[q] = pc[q] /\ calls'[q] = calls[q]
        BY <2>1, <3>1, HandlerMoves
      <3>3. QED
        BY <2>2, <2>4, <2>5, <3>2
    <2>6. CASE ~\E r \in Requests : Arrive(r) \/ Handle(r)
      <3>1. UNCHANGED calls /\ (pc'[q] = pc[q] \/ pc'[q] = "crashed")
        BY <2>1, <2>6, OthersMove
      <3>2. QED
        BY <2>1, <2>2, <2>4, <2>6, <3>1
    <2>7. QED
      BY <2>3, <2>5, <2>6
  <1>2. QED
    BY <1>1, TypeCorrect, CallsBoundAlways, PTL DEF Spec
=============================================================================
