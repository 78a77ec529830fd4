-------------------------- MODULE ConversationProofs --------------------------
(***************************************************************************)
(* The safety invariants of Conversation, for every number of requests,    *)
(* specialists and messages, and that a request has finitely many steps.   *)
(***************************************************************************)
EXTENDS Conversation, TLAPS, WellFoundedInduction

\* The messages of the handler and of specialists are messages.
LEMMA SaidMessage ==
    ASSUME NEW r \in Requests, NEW k \in {"question", "notice", "answer"}
    PROVE  Said(r, k) \in Message /\ Said(r, k).req = r
  BY DEF Said, Message

LEMMA StepMessage ==
    ASSUME NEW r \in Requests, NEW s \in Specialists, NEW n \in 1..Len(Steps)
    PROVE  Step(r, s, n) \in Message /\ Step(r, s, n).req = r
  BY ConversationAssumption DEF Step, Message

\* A list of messages that request r may store.
Owned(r, q) == q \in Seq(Message) /\ \A i \in 1..Len(q) : q[i].req = r

LEMMA OwnedAppend ==
    ASSUME NEW r, NEW q, Owned(r, q), NEW m \in Message, m.req = r
    PROVE  Owned(r, Append(q, m))
  BY DEF Owned

LEMMA OwnedTail ==
    ASSUME NEW r, NEW q, Owned(r, q), q # << >>
    PROVE  Owned(r, Tail(q)) /\ Head(q) \in Message /\ Head(q).req = r
  BY DEF Owned

LEMMA OwnedConcat ==
    ASSUME NEW r, NEW p, NEW q, Owned(r, p), Owned(r, q)
    PROVE  Owned(r, p \o q)
  <1>1. p \o q \in Seq(Message) /\ Len(p \o q) = Len(p) + Len(q)
    BY DEF Owned
  <1>2. ASSUME NEW i \in 1..Len(p \o q) PROVE (p \o q)[i].req = r
    <2>1. i <= Len(p) => (p \o q)[i] = p[i]
      BY <1>1 DEF Owned
    <2>2. i > Len(p) => (p \o q)[i] = q[i - Len(p)] /\ i - Len(p) \in 1..Len(q)
      BY <1>1 DEF Owned
    <2>3. Len(p) \in Nat
      BY DEF Owned
    <2>4. QED
      BY <1>1, <2>1, <2>2, <2>3 DEF Owned
  <1>3. QED
    BY <1>1, <1>2 DEF Owned

LEMMA InitTypeOK == Init => TypeOK
  <1>1. SUFFICES ASSUME Init PROVE TypeOK
    OBVIOUS
  <1>2. input \in [Requests -> Input]
    BY <1>1, ConversationAssumption DEF Init
  <1>3. QED
    BY <1>1, <1>2, ConversationAssumption DEF Init, TypeOK, Work, Storing

\* How often a request was announced to be over.
LEMMA ToldOften ==
    ASSUME TypeOK, NEW q \in Requests
    PROVE  /\ told[q] \in 0..2 /\ told[q] \in Nat
           /\ pc[q] # "over" => told[q] \in 0..1
           /\ pc[q] # "over" /\ ~early[q] => told[q] = 0
  <1>1. told \in [Requests -> 0..2]
    BY DEF TypeOK
  <1>2. pc[q] # "over" => told[q] = IF early[q] THEN 1 ELSE 0
    BY DEF TypeOK
  <1>3. QED
    BY <1>1, <1>2

\* What a handler puts together to store.
LEMMA Batches ==
    ASSUME TypeOK, NEW r \in Requests
    PROVE  /\ Owned(r, collector[r]) /\ Owned(r, batch[r]) /\ Owned(r, << >>)
           /\ Owned(r, InterruptMessages(r))
           /\ Owned(r, Append(collector[r], Said(r, "answer")))
           /\ Owned(r, collector[r] \o Endings(r))
  <1>1. Owned(r, collector[r]) /\ Owned(r, batch[r]) /\ Owned(r, << >>)
    BY DEF TypeOK, Owned
  <1>2. Owned(r, InterruptMessages(r))
    BY <1>1, SaidMessage, OwnedAppend DEF InterruptMessages
  <1>3. Owned(r, Append(collector[r], Said(r, "answer")))
    BY <1>1, SaidMessage, OwnedAppend
  <1>4. Owned(r, Endings(r))
    BY SaidMessage DEF Endings, Owned
  <1>5. QED
    BY <1>1, <1>2, <1>3, <1>4, OwnedConcat

\* The handler of r goes on with a batch to store.
LEMMA StoresTypeOK ==
    ASSUME TypeOK, NEW r \in Requests, pc[r] \in {"run", "wait"},
           NEW step \in Storing, NEW q, Owned(r, q), Stores(r, step, q),
           late' \in [Requests -> BOOLEAN]
    PROVE  TypeOK'
  <1>1. /\ batch' = [batch EXCEPT ![r] = q]
        /\ batch' \in [Requests -> Seq(Message)]
    BY DEF TypeOK, Stores, Owned
  <1>2. /\ pc' = [pc EXCEPT ![r] = step]
        /\ pc' \in [Requests -> {"idle", "ask", "own", "run", "wait", "tell",
                                 "over"} \union Storing]
    BY DEF TypeOK, Stores, Goto
  <1>3. ASSUME NEW x \in Requests
        PROVE  /\ \A i \in 1..Len(batch'[x]) : batch'[x][i].req = x
               /\ batch'[x] # << >> => pc'[x] \in Storing
               /\ pc'[x] # "over" => told[x] = IF early[x] THEN 1 ELSE 0
    BY <1>1, <1>2 DEF TypeOK, Owned
  <1>4. QED
    BY <1>1, <1>2, <1>3 DEF TypeOK, Stores, backend

\* A specialist goes on, and nothing else changes.
LEMMA WorksTypeOK ==
    ASSUME TypeOK, NEW r \in Requests, NEW s \in Specialists, NEW from, NEW to,
           <<from, to>> \in {<<"off", "running">>, <<"running", "failed">>,
                              <<"running", "collected">>},
           Works(r, s, from, to),
           UNCHANGED <<input, pc, got, collector, batch, log, owner, seen, prior,
                       told, early, late, backend>>
    PROVE  TypeOK'
  <1>1. /\ work' \in [Requests -> [Specialists -> Work]]
        /\ work' = [work EXCEPT ![r][s] = to]
    BY DEF TypeOK, Works, Work
  <1>2. Len(Steps) \in Nat /\ 0 < Len(Steps)
    BY ConversationAssumption
  <1>3. ASSUME NEW x \in Requests, NEW y \in Specialists
        PROVE  /\ work'[x][y] \in {"off", "running"} => got'[x][y] = 0
               /\ work'[x][y] = "collected" => got'[x][y] < Len(Steps)
    <2>1. CASE x = r /\ y = s
      BY <1>1, <1>2, <2>1 DEF TypeOK, Works
    <2>2. CASE ~(x = r /\ y = s)
      <3>1. work'[x][y] = work[x][y]
        BY <1>1, <2>2 DEF TypeOK
      <3>2. QED
        BY <3>1 DEF TypeOK
    <2>3. QED
      BY <2>1, <2>2
  <1>4. QED
    BY <1>1, <1>3 DEF TypeOK, backend

LEMMA InterruptTypeOK ==
    ASSUME TypeOK, NEW r \in Requests, NEW s \in Specialists, Interrupt(r, s)
    PROVE  TypeOK'
  <1>1. /\ work' \in [Requests -> [Specialists -> Work]]
        /\ work' = [work EXCEPT ![r][s] = "interrupted"]
    BY DEF TypeOK, Interrupt, Works, Work
  <1>2. ASSUME NEW x \in Requests, NEW y \in Specialists
        PROVE  /\ work'[x][y] \in {"off", "running"} => got'[x][y] = 0
               /\ work'[x][y] = "collected" => got'[x][y] < Len(Steps)
    BY <1>1 DEF TypeOK, Interrupt
  <1>3. /\ early' \in [Requests -> BOOLEAN]
        /\ told' \in [Requests -> 0..2]
        /\ \A x \in Requests :
              pc'[x] # "over" => told'[x] = IF early'[x] THEN 1 ELSE 0
    <2>1. CASE UNCHANGED <<early, told>>
      BY <2>1 DEF TypeOK, Interrupt
    <2>2. CASE /\ ~early[r]
               /\ early' = [early EXCEPT ![r] = TRUE]
               /\ told' = [told EXCEPT ![r] = @ + 1]
      <3>1. told[r] = 0
        BY <2>2 DEF TypeOK, Interrupt
      <3>2. told' = [told EXCEPT ![r] = 1]
        BY <2>2, <3>1 DEF TypeOK
      <3>3. QED
        BY <2>2, <3>2 DEF TypeOK, Interrupt
    <2>3. QED
      BY <2>1, <2>2 DEF Interrupt
  <1>4. QED
    BY <1>1, <1>2, <1>3 DEF TypeOK, Interrupt, backend

LEMMA CollectTypeOK ==
    ASSUME TypeOK, NEW r \in Requests, NEW s \in Specialists, Collect(r, s)
    PROVE  TypeOK'
  <1> DEFINE n == got[r][s] + 1
  <1>1. n \in 1..Len(Steps) /\ Len(Steps) \in Nat
    BY ConversationAssumption DEF TypeOK, Collect
  <1>2. /\ got' = [got EXCEPT ![r][s] = n]
        /\ collector' = [collector EXCEPT ![r] = Append(@, Step(r, s, n))]
        /\ work' = [work EXCEPT ![r][s] = IF n = Len(Steps) THEN "done" ELSE @]
        /\ work[r][s] = "collected"
    BY DEF Collect
  <1> HIDE DEF n
  <1>3. got' \in [Requests -> [Specialists -> 0..Len(Steps)]]
    BY <1>1, <1>2 DEF TypeOK
  <1>4. work' \in [Requests -> [Specialists -> Work]]
    BY <1>2 DEF TypeOK, Work
  <1>5. Owned(r, Append(collector[r], Step(r, s, n)))
    <2>1. Owned(r, collector[r])
      BY DEF TypeOK, Owned
    <2>2. Step(r, s, n) \in Message /\ Step(r, s, n).req = r
      BY <1>1, StepMessage
    <2>3. QED
      BY <2>1, <2>2, OwnedAppend
  <1>6. /\ collector' \in [Requests -> Seq(Message)]
        /\ \A x \in Requests :
              \A i \in 1..Len(collector'[x]) : collector'[x][i].req = x
    BY <1>2, <1>5 DEF TypeOK, Owned
  <1>7. ASSUME NEW x \in Requests, NEW y \in Specialists
        PROVE  /\ work'[x][y] \in {"off", "running"} => got'[x][y] = 0
               /\ work'[x][y] = "collected" => got'[x][y] < Len(Steps)
    <2>1. CASE x = r /\ y = s
      BY <1>1, <1>2, <2>1 DEF TypeOK
    <2>2. CASE ~(x = r /\ y = s)
      <3>1. work'[x][y] = work[x][y] /\ got'[x][y] = got[x][y]
        BY <1>2, <2>2 DEF TypeOK
      <3>2. QED
        BY <3>1 DEF TypeOK
    <2>3. QED
      BY <2>1, <2>2
  <1>8. QED
    BY <1>3, <1>4, <1>6, <1>7 DEF TypeOK, Collect, backend

\* A failure is counted.
LEMMA FaultTypeOK == ASSUME TypeOK, Fault PROVE faults' \in 0..MaxFaults
  BY ConversationAssumption DEF TypeOK, Fault

\* The history gets longer by a message, or has a hole.
LEMMA PushTypeOK ==
    ASSUME TypeOK, NEW r \in Requests, NEW m \in Message, Push(r, m)
    PROVE  /\ log' \in Seq(Message) /\ Len(log) \in Nat
           /\ Len(log') \in Nat /\ Len(log) <= Len(log')
           /\ log' = log \/ log' = Append(log, m)
           /\ holes' \in [Requests -> BOOLEAN]
           /\ faults' \in 0..MaxFaults
  <1>1. log \in Seq(Message) /\ holes \in [Requests -> BOOLEAN]
    BY DEF TypeOK
  <1>2. CASE log' = Append(log, m) /\ UNCHANGED backend
    BY <1>1, <1>2 DEF TypeOK, backend
  <1>3. CASE Fault /\ holes' = [holes EXCEPT ![r] = TRUE] /\ UNCHANGED log
    BY <1>1, <1>3, FaultTypeOK
  <1>4. QED
    BY <1>2, <1>3 DEF Push

\* Requests under way are over, and nothing is left to store.
LEMMA CrashTypeOK == ASSUME TypeOK, Crash PROVE TypeOK'
  <1>1. PICK gone \in {{"running", "collected"},
                       {"running", "collected", "interrupted"}} :
           /\ work' = [r \in Requests |-> [s \in Specialists |->
                          IF work[r][s] \in gone THEN "failed" ELSE work[r][s]]]
           /\ IF "interrupted" \in gone
              THEN /\ log' = << >> /\ owner' = NoUser
                   /\ seen' = [r \in Requests |-> 0]
                   /\ prior' = [r \in Requests |-> {}]
              ELSE UNCHANGED <<log, owner, seen, prior>>
    BY DEF Crash
  <1>2. work' \in [Requests -> [Specialists -> Work]]
    BY <1>1 DEF TypeOK, Work
  <1>3. /\ log' \in Seq(Message)
        /\ owner' \in Users \union {NoUser}
        /\ seen' \in [Requests -> 0..Len(log')]
        /\ prior' \in [Requests -> SUBSET Requests]
    <2>1. CASE UNCHANGED <<log, owner, seen, prior>>
      BY <2>1 DEF TypeOK
    <2>2. CASE /\ log' = << >> /\ owner' = NoUser
               /\ seen' = [r \in Requests |-> 0]
               /\ prior' = [r \in Requests |-> {}]
      BY <2>2
    <2>3. QED
      BY <1>1, <2>1, <2>2
  <1>4. /\ pc' = [r \in Requests |-> IF pc[r] = "idle" THEN "idle" ELSE "over"]
        /\ batch' = [r \in Requests |-> << >>]
        /\ Fault
        /\ UNCHANGED <<input, got, collector, told, early, late, holes>>
    BY DEF Crash
  <1>5. faults' \in 0..MaxFaults
    BY <1>4, FaultTypeOK
  <1>6. /\ pc' \in [Requests -> {"idle", "ask", "own", "run", "wait", "tell",
                                 "over"} \union Storing]
        /\ batch' \in [Requests -> Seq(Message)]
    BY <1>4
  <1>7. ASSUME NEW x \in Requests, NEW y \in Specialists
        PROVE  /\ work'[x][y] \in {"off", "running"} => got'[x][y] = 0
               /\ work'[x][y] = "collected" => got'[x][y] < Len(Steps)
    BY <1>1, <1>4 DEF TypeOK
  <1>8. ASSUME NEW x \in Requests
        PROVE  /\ batch'[x] = << >>
               /\ pc'[x] # "over" => told'[x] = IF early'[x] THEN 1 ELSE 0
    BY <1>4 DEF TypeOK
  <1>9. QED
    BY <1>2, <1>3, <1>4, <1>5, <1>6, <1>7, <1>8 DEF TypeOK

LEMMA NextTypeOK == TypeOK /\ [Next]_vars => TypeOK'
  <1>1. SUFFICES ASSUME TypeOK, [Next]_vars PROVE TypeOK'
    OBVIOUS
  <1>2. CASE UNCHANGED vars
    BY <1>1, <1>2 DEF TypeOK, vars, backend
  <1>3. ASSUME NEW r \in Requests, Load(r) PROVE TypeOK'
    <2>1. Len(log) \in Nat /\ log' = log
      BY <1>1, <1>3 DEF TypeOK, Load
    <2>2. seen' \in [Requests -> 0..Len(log')]
      BY <1>1, <1>3, <2>1 DEF TypeOK, Load
    <2>3. prior' \in [Requests -> SUBSET Requests]
      BY <1>1, <1>3 DEF TypeOK, Load, Finished
    <2>4. QED
      BY <1>1, <1>3, <2>1, <2>2, <2>3 DEF TypeOK, Load, Goto, Storing, backend
  <1>4. ASSUME NEW r \in Requests, Decide(r) PROVE TypeOK'
    <2>1. UNCHANGED <<input, work, got, collector, batch, log, owner, seen,
                      prior, told, early, late, holes, faults>>
      BY <1>4 DEF Decide, backend
    <2>2. pc[r] = "idle" /\ pc' = [pc EXCEPT ![r] = "run"]
      BY <1>4 DEF Decide, Goto
    <2>3. QED
      BY <1>1, <2>1, <2>2 DEF TypeOK, Storing
  <1>5. ASSUME NEW r \in Requests, Ask(r) PROVE TypeOK'
    <2>1. /\ log' \in Seq(Message) /\ Len(log) \in Nat
          /\ Len(log') \in Nat /\ Len(log) <= Len(log')
          /\ holes' \in [Requests -> BOOLEAN]
          /\ faults' \in 0..MaxFaults
      BY <1>1, <1>5, SaidMessage, PushTypeOK DEF Ask
    <2>2. seen' \in [Requests -> 0..Len(log')]
      BY <1>1, <1>5, <2>1 DEF TypeOK, Ask
    <2>3. QED
      BY <1>1, <1>5, <2>1, <2>2 DEF TypeOK, Ask, Goto, Storing
  <1>6. ASSUME NEW r \in Requests, SetOwner(r) PROVE TypeOK'
    <2>1. owner' \in Users \union {NoUser}
      BY <1>1, <1>6 DEF TypeOK, SetOwner, Input
    <2>2. holes' = holes /\ faults' \in 0..MaxFaults
      BY <1>1, <1>6, FaultTypeOK DEF TypeOK, SetOwner, backend
    <2>3. QED
      BY <1>1, <1>6, <2>1, <2>2 DEF TypeOK, SetOwner, Goto, Storing
  <1>7. ASSUME NEW r \in Requests, FinishError(r) PROVE TypeOK'
    BY <1>1, <1>7 DEF TypeOK, FinishError, Goto, Storing, backend
  <1>8. ASSUME NEW r \in Requests, FinishInterrupt(r) PROVE TypeOK'
    BY <1>1, <1>8, Batches, StoresTypeOK DEF FinishInterrupt, Storing, TypeOK
  <1>9. ASSUME NEW r \in Requests, FinishStreamInterrupt(r) PROVE TypeOK'
    BY <1>1, <1>9, Batches, StoresTypeOK DEF FinishStreamInterrupt, Storing, TypeOK
  <1>10. ASSUME NEW r \in Requests, FinishReply(r) PROVE TypeOK'
    <2>1. /\ pc[r] \in {"run", "wait"} /\ "store" \in Storing
          /\ Stores(r, "store", Append(collector[r], Said(r, "answer")))
      BY <1>10 DEF FinishReply, Storing
    <2>2. Owned(r, Append(collector[r], Said(r, "answer")))
      BY <1>1, Batches
    <2>3. late' \in [Requests -> BOOLEAN]
      BY <1>1, <1>10 DEF FinishReply, TypeOK
    <2>4. QED
      BY <1>1, <2>1, <2>2, <2>3, StoresTypeOK
  <1>11. ASSUME NEW r \in Requests, FinishStream(r) PROVE TypeOK'
    BY <1>1, <1>11 DEF TypeOK, FinishStream, Goto, Storing, backend
  <1>12. ASSUME NEW r \in Requests, StopWaiting(r) PROVE TypeOK'
    <2>1. late' \in [Requests -> BOOLEAN]
      BY <1>1, <1>12, Zenon DEF TypeOK, StopWaiting, Pending
    <2>2. QED
      BY <1>1, <1>12, <2>1, Batches, StoresTypeOK DEF StopWaiting, Storing
  <1>13. ASSUME NEW r \in Requests, Store(r) PROVE TypeOK'
    <2>1. Owned(r, Tail(batch[r])) /\ Head(batch[r]) \in Message
      BY <1>1, <1>13, Batches, OwnedTail DEF Store
    <2>2. /\ log' \in Seq(Message)
          /\ Len(log) \in Nat /\ Len(log') \in Nat /\ Len(log) <= Len(log')
          /\ holes' \in [Requests -> BOOLEAN]
          /\ faults' \in 0..MaxFaults
      <3>1. CASE UNCHANGED <<log, backend>>
        BY <1>1, <3>1 DEF TypeOK, backend
      <3>2. CASE Push(r, Head(batch[r]))
        BY <1>1, <2>1, <3>2, PushTypeOK
      <3>3. QED
        BY <1>13, <3>1, <3>2 DEF Store
    <2>3. seen' \in [Requests -> 0..Len(log')]
      BY <1>1, <1>13, <2>2 DEF TypeOK, Store
    <2>4. batch' \in [Requests -> Seq(Message)]
      BY <1>1, <1>13, <2>1 DEF TypeOK, Store, Owned
    <2>5. ASSUME NEW x \in Requests
          PROVE  /\ \A i \in 1..Len(batch'[x]) : batch'[x][i].req = x
                 /\ batch'[x] # << >> => pc'[x] \in Storing
      BY <1>1, <1>13, <2>1 DEF TypeOK, Store, Owned
    <2>6. QED
      BY <1>1, <1>13, <2>2, <2>3, <2>4, <2>5 DEF TypeOK, Store
  <1>14. ASSUME NEW r \in Requests, Tell(r) PROVE TypeOK'
    <2>1. told[r] \in 0..1
      <3>1. pc[r] # "over"
        BY <1>14 DEF Tell
      <3>2. QED
        BY <1>1, <3>1, ToldOften
    <2>2. /\ told' \in [Requests -> 0..2]
          /\ \A x \in Requests : x # r => told'[x] = told[x]
      BY <1>1, <1>14, <2>1 DEF TypeOK, Tell
    <2>3. ASSUME NEW x \in Requests
          PROVE  /\ batch'[x] # << >> => pc'[x] \in Storing
                 /\ pc'[x] # "over" => told'[x] = IF early'[x] THEN 1 ELSE 0
      BY <1>1, <1>14, <2>2 DEF TypeOK, Tell, Goto, Storing
    <2>4. pc' \in [Requests -> {"idle", "ask", "own", "run", "wait", "tell",
                                "over"} \union Storing]
      BY <1>1, <1>14 DEF TypeOK, Tell, Goto
    <2>5. QED
      BY <1>1, <1>14, <2>2, <2>3, <2>4 DEF TypeOK, Tell, backend
  <1>15. ASSUME NEW r \in Requests, TellNothing(r) PROVE TypeOK'
    BY <1>1, <1>15 DEF TypeOK, TellNothing, Goto, Storing, backend
  <1>16. ASSUME NEW r \in Requests, NEW s \in Specialists, Specialist(r, s)
         PROVE TypeOK'
    <2>1. ASSUME Route(r, s) PROVE TypeOK'
      BY <1>1, <2>1, WorksTypeOK DEF Route, Work
    <2>2. ASSUME Fail(r, s) PROVE TypeOK'
      BY <1>1, <2>2, WorksTypeOK DEF Fail, Work
    <2>3. ASSUME Interrupt(r, s) PROVE TypeOK'
      BY <1>1, <2>3, InterruptTypeOK
    <2>4. ASSUME Return(r, s) PROVE TypeOK'
      BY <1>1, <2>4, WorksTypeOK DEF Return, Work
    <2>5. ASSUME Collect(r, s) PROVE TypeOK'
      BY <1>1, <2>5, CollectTypeOK
    <2>6. QED
      BY <1>16, <2>1, <2>2, <2>3, <2>4, <2>5 DEF Specialist
  <1>17. ASSUME NEW r \in Requests, LoadFails(r) PROVE TypeOK'
    <2>1. faults' \in 0..MaxFaults
      BY <1>1, <1>17, FaultTypeOK DEF LoadFails
    <2>2. QED
      BY <1>1, <1>17, <2>1 DEF TypeOK, LoadFails, Goto, Storing
  <1>18. CASE Crash
    BY <1>1, <1>18, CrashTypeOK
  <1>19. QED
    BY <1>1, <1>2, <1>3, <1>4, <1>5, <1>6, <1>7, <1>8, <1>9, <1>10, <1>11,
       <1>12, <1>13, <1>14, <1>15, <1>16, <1>17, <1>18 DEF Next, Handle

-----------------------------------------------------------------------------
(* A chat sees all that a request which was over before it has stored.     *)

\* The requests a chat found to be over had been announced to be, or had died.
PriorInv ==
    \A r \in Requests : \A q \in prior[r] : told[q] > 0 \/ pc[q] = "over"

SeesInv == TypeOK /\ PriorInv /\ NextChatSeesAll

\* A step that leaves the history and what is known of it alone, and only adds
\* announcements.
LEMMA QuietStep ==
    ASSUME SeesInv, UNCHANGED <<log, seen, prior>>,
           \A q \in Requests : early[q] => early'[q],
           \A q \in Requests : told[q] <= told'[q],
           \A q \in Requests : pc[q] = "over" => pc'[q] = "over",
           TypeOK'
    PROVE  PriorInv' /\ NextChatSeesAll'
  <1>1. ASSUME NEW r \in Requests, NEW q \in prior'[r]
        PROVE  told'[q] > 0 \/ pc'[q] = "over"
    <2>1. q \in prior[r] /\ q \in Requests
      BY <1>1 DEF SeesInv, TypeOK
    <2>2. told[q] > 0 \/ pc[q] = "over"
      BY <2>1 DEF SeesInv, PriorInv
    <2>3. told[q] \in Nat /\ told'[q] \in Nat
      <3>1. told \in [Requests -> 0..2] /\ told' \in [Requests -> 0..2]
        BY DEF SeesInv, TypeOK
      <3>2. QED
        BY <2>1, <3>1
    <2>4. told[q] <= told'[q] /\ (pc[q] = "over" => pc'[q] = "over")
      BY <2>1
    <2>5. QED
      BY <2>2, <2>3, <2>4
  <1>2. ASSUME NEW r \in Requests, NEW q \in prior'[r], ~early'[q],
               NEW i \in 1..Len(log'), log'[i].req = q
        PROVE  i <= seen'[r]
    <2>1. q \in prior[r] /\ q \in Requests
      BY DEF SeesInv, TypeOK
    <2>2. ~early[q]
      BY <1>2, <2>1
    <2>3. i \in 1..Len(log) /\ log[i].req = q
      BY <1>2
    <2>4. QED
      BY <2>1, <2>2, <2>3 DEF SeesInv, NextChatSeesAll
  <1>3. QED
    BY <1>1, <1>2 DEF PriorInv, NextChatSeesAll

\* A request that is not over stores a message: no chat counts on having seen
\* all of this request, unless the callback announced its end.
LEMMA StoreStep ==
    ASSUME SeesInv, NEW r \in Requests, pc[r] # "over",
           NEW m \in Message, m.req = r,
           log' = log \/ log' = Append(log, m),
           UNCHANGED <<seen, prior, told, early>>,
           \A q \in Requests : pc[q] = "over" => pc'[q] = "over"
    PROVE  PriorInv' /\ NextChatSeesAll'
  <1>1. PriorInv'
    BY DEF SeesInv, PriorInv, TypeOK
  <1>2. ASSUME NEW x \in Requests, NEW q \in prior[x], ~early[q],
               NEW i \in 1..Len(log'), log'[i].req = q
        PROVE  i <= seen[x]
    <2>1. q \in Requests /\ (told[q] > 0 \/ pc[q] = "over")
      BY <1>2 DEF SeesInv, PriorInv, TypeOK
    <2>2. q # r
      BY <1>2, <2>1, ToldOften DEF SeesInv
    <2>3. log \in Seq(Message)
      BY DEF SeesInv, TypeOK
    <2>4. i \in 1..Len(log) /\ log'[i] = log[i]
      BY <1>2, <2>2, <2>3
    <2>5. QED
      BY <1>2, <2>4 DEF SeesInv, NextChatSeesAll
  <1>3. QED
    BY <1>1, <1>2 DEF NextChatSeesAll

LEMMA InitSeesInv == Init => SeesInv
  BY InitTypeOK DEF SeesInv, Init, PriorInv, NextChatSeesAll

LEMMA NextSeesInv == SeesInv /\ [Next]_vars => SeesInv'
  <1>1. SUFFICES ASSUME SeesInv, [Next]_vars PROVE PriorInv' /\ NextChatSeesAll'
    BY NextTypeOK DEF SeesInv
  <1>2. TypeOK /\ TypeOK'
    BY <1>1, NextTypeOK DEF SeesInv
  <1>3. \A q \in Requests : told[q] \in Nat
    BY <1>2, ToldOften
  <1>4. CASE /\ UNCHANGED <<log, seen, prior>>
             /\ \A q \in Requests : early[q] => early'[q]
             /\ \A q \in Requests : told[q] <= told'[q]
             /\ \A q \in Requests : pc[q] = "over" => pc'[q] = "over"
    BY <1>1, <1>2, <1>4, QuietStep
  <1>5. CASE UNCHANGED vars
    BY <1>3, <1>4, <1>5 DEF vars
  <1>6. ASSUME NEW r \in Requests, Load(r) PROVE PriorInv' /\ NextChatSeesAll'
    <2>1. /\ \A x \in Requests \ {r} : prior'[x] = prior[x] /\ seen'[x] = seen[x]
          /\ prior'[r] = Finished /\ seen'[r] = Len(log)
          /\ UNCHANGED <<log, told, early>> /\ Len(log) \in Nat
          /\ \A q \in Requests : pc[q] = "over" => pc'[q] = "over"
      BY <1>2, <1>6 DEF TypeOK, Load, Goto
    <2>2. PriorInv'
      BY <1>1, <1>2, <2>1 DEF SeesInv, PriorInv, Finished, TypeOK
    <2>3. NextChatSeesAll'
      BY <1>1, <2>1 DEF SeesInv, NextChatSeesAll
    <2>4. QED
      BY <2>2, <2>3
  <1>7. ASSUME NEW r \in Requests, Ask(r) PROVE PriorInv' /\ NextChatSeesAll'
    <2>1. /\ pc[r] # "over"
          /\ log' = log \/ log' = Append(log, Said(r, "question"))
          /\ UNCHANGED <<seen, prior, told, early>>
          /\ \A q \in Requests : pc[q] = "over" => pc'[q] = "over"
      BY <1>2, <1>7 DEF TypeOK, Ask, Push, Goto
    <2>2. Said(r, "question") \in Message /\ Said(r, "question").req = r
      BY SaidMessage
    <2>3. QED
      BY <1>1, <2>1, <2>2, StoreStep
  <1>8. ASSUME NEW r \in Requests, Store(r) PROVE PriorInv' /\ NextChatSeesAll'
    <2>1. Head(batch[r]) \in Message /\ Head(batch[r]).req = r
      BY <1>2, <1>8, Batches, OwnedTail DEF Store
    <2>2. /\ pc[r] # "over" /\ UNCHANGED <<seen, prior, told, early>>
          /\ log' = log \/ log' = Append(log, Head(batch[r]))
          /\ pc' = pc
      BY <1>8 DEF Store, Storing, Push
    <2>3. QED
      BY <1>1, <2>1, <2>2, StoreStep
  <1>9. ASSUME NEW r \in Requests, Tell(r) PROVE PriorInv' /\ NextChatSeesAll'
    <2>1. told' = [told EXCEPT ![r] = @ + 1]
      BY <1>9 DEF Tell
    <2>2. told \in [Requests -> 0..2]
      BY <1>2 DEF TypeOK
    <2>3. \A q \in Requests : told[q] <= told'[q]
      BY <2>1, <2>2
    <2>4. /\ UNCHANGED <<log, seen, prior, early>>
          /\ \A q \in Requests : pc[q] = "over" => pc'[q] = "over"
      BY <1>2, <1>9 DEF TypeOK, Tell, Goto
    <2>5. QED
      BY <1>4, <2>3, <2>4
  <1>10. ASSUME NEW r \in Requests, NEW s \in Specialists, Interrupt(r, s)
         PROVE  PriorInv' /\ NextChatSeesAll'
    <2>1. \/ UNCHANGED <<told, early>>
          \/ /\ told' = [told EXCEPT ![r] = @ + 1]
             /\ early' = [early EXCEPT ![r] = TRUE]
      BY <1>10 DEF Interrupt
    <2>2. told \in [Requests -> 0..2] /\ early \in [Requests -> BOOLEAN]
      BY <1>2 DEF TypeOK
    <2>3. /\ \A q \in Requests : early[q] => early'[q]
          /\ \A q \in Requests : told[q] <= told'[q]
      BY <2>1, <2>2
    <2>4. UNCHANGED <<log, seen, prior, pc>>
      BY <1>10 DEF Interrupt
    <2>5. QED
      BY <1>4, <2>3, <2>4
  <1>11. ASSUME NEW r \in Requests,
                \/ LoadFails(r) \/ SetOwner(r) \/ Decide(r) \/ FinishError(r)
                \/ FinishInterrupt(r) \/ FinishStreamInterrupt(r)
                \/ FinishReply(r) \/ FinishStream(r)
                \/ StopWaiting(r) \/ TellNothing(r)
                \/ \E s \in Specialists :
                       Route(r, s) \/ Fail(r, s) \/ Return(r, s) \/ Collect(r, s)
         PROVE  PriorInv' /\ NextChatSeesAll'
    <2>1. UNCHANGED <<log, seen, prior, told, early>>
      BY <1>11 DEF LoadFails, SetOwner, Decide, FinishError, FinishInterrupt,
                   FinishStreamInterrupt, FinishReply, FinishStream, StopWaiting,
                   TellNothing, Route, Fail, Return, Collect, Stores
    <2>2. \A q \in Requests : pc[q] = "over" => pc'[q] = "over"
      <3>1. UNCHANGED pc \/ \E step : pc[r] # "over" /\ pc' = [pc EXCEPT ![r] = step]
        BY <1>11 DEF LoadFails, SetOwner, Decide, FinishError, FinishInterrupt,
                     FinishStreamInterrupt, FinishReply, FinishStream, StopWaiting,
                     TellNothing, Route, Fail, Return, Collect, Stores, Goto
      <3>2. QED
        BY <1>2, <3>1 DEF TypeOK
    <2>3. QED
      BY <1>3, <1>4, <2>1, <2>2
  <1>12. CASE Crash
    <2>1. /\ UNCHANGED <<told, early>>
          /\ \A q \in Requests : pc[q] = "over" => pc'[q] = "over"
      BY <1>12 DEF Crash
    <2>2. CASE UNCHANGED <<log, seen, prior>>
      BY <1>3, <1>4, <2>1, <2>2
    <2>3. CASE log' = << >> /\ prior' = [r \in Requests |-> {}]
      BY <2>3 DEF PriorInv, NextChatSeesAll
    <2>4. QED
      BY <1>12, <2>2, <2>3 DEF Crash
  <1>13. QED
    BY <1>1, <1>5, <1>6, <1>7, <1>8, <1>9, <1>10, <1>11, <1>12
    DEF Next, Handle, Specialist

\* What a request stores, and how far it has come, is well formed, for any
\* number of requests and specialists.
THEOREM TypeCorrect == Spec => []TypeOK
  BY InitTypeOK, NextTypeOK, PTL DEF Spec

\* A chat that is sent after the client was told of the end of a request has
\* all this request stored in its prompt, however the requests overlap.
THEOREM NextChatSeesAllAlways == Spec => []NextChatSeesAll
  <1>1. SeesInv => NextChatSeesAll
    BY DEF SeesInv
  <1>2. QED
    BY <1>1, InitSeesInv, NextSeesInv, PTL DEF Spec

-----------------------------------------------------------------------------
(* What a request stores is in order.                                      *)

\* m is one of the messages a specialist says for r.
IsStep(r, m) ==
    /\ m.by \in Specialists /\ m.no \in 1..Len(Steps)
    /\ m = Step(r, m.by, m.no)

Has(q, m) == \E k \in 1..Len(q) : q[k] = m
Before(q, k, m) == \E j \in 1..(k - 1) : q[j] = m

\* c is what has been collected for r: of each specialist the first g[s]
\* messages, in order.
CollectOK(r, c, g) ==
    /\ \A k \in 1..Len(c) : IsStep(r, c[k]) /\ c[k].no <= g[c[k].by]
    /\ \A j, k \in 1..Len(c) :
          j < k /\ c[j].by = c[k].by => c[j].no < c[k].no
    /\ \A k \in 1..Len(c) :
          c[k].no > 1 => Before(c, k, Step(r, c[k].by, c[k].no - 1))
    /\ \A s \in Specialists, n \in 1..Len(Steps) :
          n <= g[s] => Has(c, Step(r, s, n))

CollectInv ==
    \A r \in Requests :
        /\ CollectOK(r, collector[r], got[r])
        /\ \A s \in Specialists :
              work[r][s] = "done" => got[r][s] = Len(Steps)

\* b can be stored for r, one message after the other, after the history q.
BatchOK(r, b, q, hole) ==
    /\ \A i \in 1..Len(q) : q[i].req = r => q[i].kind # "answer"
    /\ \A k \in 1..Len(b) :
          /\ b[k].kind # "question"
          /\ b[k].kind = "answer" => k = Len(b)
          /\ b[k].by # Handler => IsStep(r, b[k])
    /\ \A j, k \in 1..Len(b) :
          j < k /\ b[j].by = b[k].by /\ b[k].by # Handler => b[j].no < b[k].no
    /\ \A i \in 1..Len(q), k \in 1..Len(b) :
          q[i].req = r /\ q[i].by = b[k].by /\ b[k].by # Handler
             => q[i].no < b[k].no
    /\ \A k \in 1..Len(b) :
          b[k].by # Handler /\ b[k].no > 1 /\ ~hole =>
             \/ Has(q, Step(r, b[k].by, b[k].no - 1))
             \/ Before(b, k, Step(r, b[k].by, b[k].no - 1))

BatchInv == \A r \in Requests :
                batch[r] # << >> => BatchOK(r, batch[r], log, holes[r])

\* Until a request has something to store, only its question is stored.
Begun(r) == pc[r] \notin {"idle", "ask"}
Asked(r) == pc[r] \in {"own", "run", "wait", "tell"}

LogInv ==
    /\ \A i \in 1..Len(log) :
          log[i].by # Handler => IsStep(log[i].req, log[i])
    /\ \A r \in Requests, i \in 1..Len(log) :
          log[i].req = r => Begun(r) /\ (Asked(r) => log[i].kind = "question")

OrderInv == TypeOK /\ CollectInv /\ LogInv /\ StoredInOrder /\ BatchInv

\* What a specialist says is no question and no answer.
LEMMA StepKind ==
    ASSUME NEW r \in Requests, NEW m, IsStep(r, m)
    PROVE  /\ m.kind \in {"call", "tool", "text"} /\ m.req = r
           /\ m.by # Handler /\ m.no \in Nat
           /\ m.kind = "text" => m.no = Len(Steps)
  <1>1. m.no \in 1..Len(Steps) /\ m.kind = Steps[m.no] /\ m.req = r
    BY DEF IsStep, Step
  <1>2. m.by # Handler
    BY ConversationAssumption DEF IsStep
  <1>3. Steps \in Seq({"call", "tool", "text"}) /\ Len(Steps) \in Nat
        /\ \A n \in 1..(Len(Steps) - 1) : Steps[n] # "text"
    BY ConversationAssumption
  <1>4. Steps[m.no] \in {"call", "tool", "text"}
    BY <1>1, <1>3
  <1>5. QED
    BY <1>1, <1>2, <1>3, <1>4

LEMMA StepIsStep ==
    ASSUME NEW r \in Requests, NEW s \in Specialists, NEW n \in 1..Len(Steps)
    PROVE  /\ IsStep(r, Step(r, s, n))
           /\ Step(r, s, n).by = s /\ Step(r, s, n).no = n
  BY DEF IsStep, Step

\* One more message of s is collected.
LEMMA CollectAppend ==
    ASSUME NEW r \in Requests, NEW c \in Seq(Message), NEW s \in Specialists,
           NEW g \in [Specialists -> 0..Len(Steps)], CollectOK(r, c, g),
           NEW n \in 1..Len(Steps), n = g[s] + 1
    PROVE  CollectOK(r, Append(c, Step(r, s, n)), [g EXCEPT ![s] = n])
  <1> DEFINE d == Append(c, Step(r, s, n))
             f == [g EXCEPT ![s] = n]
  <1>1. /\ Len(d) = Len(c) + 1 /\ Len(c) \in Nat
        /\ d[Len(d)] = Step(r, s, n)
        /\ \A k \in 1..Len(c) : d[k] = c[k]
    BY StepMessage
  <1>2. /\ \A t \in Specialists : f[t] = IF t = s THEN n ELSE g[t]
        /\ \A t \in Specialists : g[t] \in 0..Len(Steps)
        /\ Len(Steps) \in Nat
    BY ConversationAssumption
  <1>3. IsStep(r, Step(r, s, n)) /\ Step(r, s, n).by = s /\ Step(r, s, n).no = n
    BY StepIsStep
  <1>4. \A k \in 1..Len(c) : /\ IsStep(r, c[k]) /\ c[k].no <= g[c[k].by]
                             /\ c[k].by \in Specialists /\ c[k].no \in Nat
    BY <1>2 DEF CollectOK, IsStep
  <1> HIDE DEF d, f
  <1>5. ASSUME NEW k \in 1..Len(d)
        PROVE  /\ IsStep(r, d[k]) /\ d[k].no <= f[d[k].by]
               /\ d[k].no > 1 => Before(d, k, Step(r, d[k].by, d[k].no - 1))
    <2>1. CASE k = Len(d)
      <3>1. d[k].no > 1 => Has(c, Step(r, s, n - 1))
        BY <1>1, <1>2, <1>3, <2>1 DEF CollectOK
      <3>2. d[k] = Step(r, s, n) /\ k - 1 = Len(c)
        BY <1>1, <2>1
      <3>3. d[k].no > 1 => Before(d, k, Step(r, d[k].by, d[k].no - 1))
        BY <1>1, <1>3, <3>1, <3>2 DEF Has, Before
      <3>4. IsStep(r, d[k]) /\ d[k].no <= f[d[k].by]
        BY <1>2, <1>3, <3>2
      <3>5. QED
        BY <3>3, <3>4
    <2>2. CASE k # Len(d)
      <3>1. k \in 1..Len(c) /\ d[k] = c[k]
        BY <1>1, <2>2
      <3>2. c[k].no > 1 => Before(c, k, Step(r, c[k].by, c[k].no - 1))
        BY <3>1 DEF CollectOK
      <3>3. IsStep(r, d[k]) /\ d[k].no <= f[d[k].by]
        <4>1. /\ IsStep(r, c[k]) /\ c[k].no <= g[c[k].by]
              /\ c[k].by \in Specialists /\ c[k].no \in Nat
          BY <1>4, <3>1
        <4>2. g[c[k].by] <= f[c[k].by]
          BY <1>2, <4>1
        <4>3. f[c[k].by] \in Nat /\ g[c[k].by] \in Nat
          BY <1>2, <4>1
        <4>4. QED
          BY <3>1, <4>1, <4>2, <4>3
      <3>4. ASSUME NEW m, Before(c, k, m) PROVE Before(d, k, m)
        BY <1>1, <3>1, <3>4 DEF Before
      <3>5. QED
        BY <3>1, <3>2, <3>3, <3>4
    <2>3. QED
      BY <2>1, <2>2
  <1>6. ASSUME NEW j \in 1..Len(d), NEW k \in 1..Len(d), j < k, d[j].by = d[k].by
        PROVE  d[j].no < d[k].no
    <2>1. j \in 1..Len(c) /\ d[j] = c[j]
      BY <1>1, <1>6
    <2>2. CASE k = Len(d)
      BY <1>1, <1>2, <1>3, <1>4, <1>6, <2>1, <2>2
    <2>3. CASE k # Len(d)
      <3>1. k \in 1..Len(c) /\ d[k] = c[k]
        BY <1>1, <2>3
      <3>2. QED
        BY <1>6, <2>1, <3>1 DEF CollectOK
    <2>4. QED
      BY <2>2, <2>3
  <1>7. ASSUME NEW t \in Specialists, NEW x \in 1..Len(Steps), x <= f[t]
        PROVE  Has(d, Step(r, t, x))
    <2>1. CASE t = s /\ x = n
      BY <1>1, <2>1 DEF Has
    <2>2. CASE ~(t = s /\ x = n)
      <3>1. Has(c, Step(r, t, x))
        BY <1>2, <1>7, <2>2 DEF CollectOK
      <3>2. QED
        BY <1>1, <3>1 DEF Has
    <2>3. QED
      BY <2>1, <2>2
  <1>8. QED
    BY <1>5, <1>6, <1>7 DEF CollectOK, d, f

LEMMA NextCollectInv ==
    ASSUME TypeOK, CollectInv, [Next]_vars PROVE CollectInv'
  <1>1. CASE /\ UNCHANGED <<collector, got>>
             /\ \A r \in Requests, s \in Specialists :
                   work'[r][s] = "done" => work[r][s] = "done"
    BY <1>1 DEF CollectInv
  <1>2. ASSUME NEW r \in Requests, NEW s \in Specialists, Collect(r, s)
        PROVE  CollectInv'
    <2> DEFINE n == got[r][s] + 1
    <2>1. n \in 1..Len(Steps) /\ Len(Steps) \in Nat
      BY <1>2, ConversationAssumption DEF TypeOK, Collect
    <2>2. /\ got' = [got EXCEPT ![r][s] = n]
          /\ collector' = [collector EXCEPT ![r] = Append(@, Step(r, s, n))]
          /\ work' = [work EXCEPT ![r][s] = IF n = Len(Steps) THEN "done" ELSE @]
          /\ work[r][s] = "collected" /\ n = got[r][s] + 1
      BY <1>2 DEF Collect
    <2> HIDE DEF n
    <2>3. /\ got \in [Requests -> [Specialists -> 0..Len(Steps)]]
          /\ work \in [Requests -> [Specialists -> Work]]
          /\ collector \in [Requests -> Seq(Message)]
      BY DEF TypeOK
    <2>4. /\ got'[r] = [got[r] EXCEPT ![s] = n]
          /\ collector'[r] = Append(collector[r], Step(r, s, n))
          /\ \A x \in Requests \ {r} : /\ got'[x] = got[x] /\ work'[x] = work[x]
                                       /\ collector'[x] = collector[x]
      BY <2>2, <2>3
    <2>5. CollectOK(r, collector'[r], got'[r])
      <3>1. CollectOK(r, collector[r], got[r])
        BY DEF CollectInv
      <3>2. collector[r] \in Seq(Message) /\ got[r] \in [Specialists -> 0..Len(Steps)]
        BY <2>3
      <3>3. CollectOK(r, Append(collector[r], Step(r, s, n)), [got[r] EXCEPT ![s] = n])
        BY <2>1, <2>2, <3>1, <3>2, CollectAppend
      <3>4. QED
        BY <2>4, <3>3
    <2>6. ASSUME NEW y \in Specialists, work'[r][y] = "done"
          PROVE  got'[r][y] = Len(Steps)
      <3>1. CASE y = s
        BY <2>2, <2>3, <2>6, <3>1
      <3>2. CASE y # s
        <4>1. work[r][y] = "done" /\ got'[r][y] = got[r][y]
          BY <2>2, <2>3, <2>6, <3>2
        <4>2. QED
          BY <4>1 DEF CollectInv
      <3>3. QED
        BY <3>1, <3>2
    <2>7. ASSUME NEW x \in Requests \ {r}
          PROVE  /\ CollectOK(x, collector'[x], got'[x])
                 /\ \A y \in Specialists :
                       work'[x][y] = "done" => got'[x][y] = Len(Steps)
      BY <2>4 DEF CollectInv
    <2>8. QED
      BY <2>5, <2>6, <2>7 DEF CollectInv
  <1>3. ASSUME NEW r \in Requests, NEW s \in Specialists,
               Route(r, s) \/ Fail(r, s) \/ Interrupt(r, s) \/ Return(r, s)
        PROVE  CollectInv'
    <2>1. /\ UNCHANGED <<collector, got>>
          /\ \E to \in Work \ {"done"} : work' = [work EXCEPT ![r][s] = to]
      BY <1>3 DEF Route, Fail, Interrupt, Return, Works, Work
    <2>2. QED
      BY <1>1, <2>1 DEF TypeOK
  <1>4. CASE Crash
    <2>1. /\ UNCHANGED <<collector, got>>
          /\ \A r \in Requests, s \in Specialists :
                work'[r][s] \in {"failed", work[r][s]}
      BY <1>4 DEF Crash
    <2>2. QED
      BY <1>1, <2>1
  <1>5. ASSUME NEW r \in Requests, Load(r) \/ LoadFails(r) \/ Decide(r) \/ Handle(r)
        PROVE  CollectInv'
    <2>1. UNCHANGED <<collector, got, work>>
      BY <1>5 DEF Load, LoadFails, Decide, Handle, Ask, SetOwner, FinishError,
                  FinishInterrupt, FinishStreamInterrupt, FinishReply,
                  FinishStream, StopWaiting, Store, Tell, TellNothing, Stores
    <2>2. QED
      BY <1>1, <2>1
  <1>6. CASE UNCHANGED vars
    BY <1>1, <1>6 DEF vars
  <1>7. QED
    BY <1>2, <1>3, <1>4, <1>5, <1>6 DEF Next, Specialist

\* What a handler adds to what it has collected.
Ends(r, e) ==
    e \in {<<Said(r, "notice")>>, <<Said(r, "answer")>>,
           <<Said(r, "notice"), Said(r, "answer")>>}

LEMMA EndsMessages ==
    ASSUME NEW r \in Requests, NEW e, Ends(r, e)
    PROVE  e \in Seq(Message) /\ Len(e) \in {1, 2}
  <1>1. Said(r, "notice") \in Message /\ Said(r, "answer") \in Message
    BY SaidMessage
  <1>2. CASE e = <<Said(r, "notice")>>
    BY <1>1, <1>2
  <1>3. CASE e = <<Said(r, "answer")>>
    BY <1>1, <1>3
  <1>4. CASE e = <<Said(r, "notice"), Said(r, "answer")>>
    BY <1>1, <1>4
  <1>5. QED
    BY <1>2, <1>3, <1>4 DEF Ends

\* What is collected, and the end the handler adds, can be stored.
LEMMA CollectedBatchOK ==
    ASSUME NEW r \in Requests, NEW c \in Seq(Message), NEW g, NEW e, NEW q,
           NEW hole, CollectOK(r, c, g), Ends(r, e),
           \A i \in 1..Len(q) : q[i].req = r => q[i].kind = "question",
           \A i \in 1..Len(q) : q[i].by # Handler => IsStep(q[i].req, q[i])
    PROVE  BatchOK(r, c \o e, q, hole)
  <1> DEFINE b == c \o e
  <1>1. e \in Seq(Message) /\ Len(e) \in {1, 2}
    BY EndsMessages
  <1>2. /\ Len(b) = Len(c) + Len(e) /\ Len(c) \in Nat
        /\ \A k \in 1..Len(c) : b[k] = c[k]
        /\ \A k \in 1..Len(b) : k > Len(c) => b[k] = e[k - Len(c)]
    BY <1>1
  <1>3. ASSUME NEW k \in 1..Len(b), k > Len(c)
        PROVE  /\ b[k].by = Handler /\ b[k].kind # "question"
               /\ b[k].kind = "answer" => k = Len(b)
    <2>1. ASSUME NEW i \in 1..Len(e)
          PROVE  /\ e[i].by = Handler /\ e[i].kind # "question"
                 /\ e[i].kind = "answer" => i = Len(e)
      <3>1. /\ Said(r, "notice").by = Handler /\ Said(r, "answer").by = Handler
            /\ Said(r, "notice").kind = "notice"
            /\ Said(r, "answer").kind = "answer"
        BY DEF Said
      <3>2. CASE e = <<Said(r, "notice")>>
        BY <3>1, <3>2
      <3>3. CASE e = <<Said(r, "answer")>>
        BY <3>1, <3>3
      <3>4. CASE e = <<Said(r, "notice"), Said(r, "answer")>>
        BY <3>1, <3>4
      <3>5. QED
        BY <3>2, <3>3, <3>4 DEF Ends
    <2>2. k - Len(c) \in 1..Len(e) /\ b[k] = e[k - Len(c)]
      BY <1>1, <1>2, <1>3
    <2>3. QED
      BY <1>1, <1>2, <2>1, <2>2
  <1>4. ASSUME NEW k \in 1..Len(c)
        PROVE  /\ b[k] = c[k] /\ IsStep(r, c[k])
               /\ c[k].kind \in {"call", "tool", "text"} /\ c[k].by # Handler
               /\ c[k].no > 1 => Before(c, k, Step(r, c[k].by, c[k].no - 1))
    BY <1>2, StepKind DEF CollectOK
  <1> HIDE DEF b
  <1>5. ASSUME NEW i \in 1..Len(q), q[i].req = r
        PROVE  q[i].by = Handler /\ q[i].kind # "answer"
    BY <1>5, StepKind
  <1>6. ASSUME NEW k \in 1..Len(b)
        PROVE  /\ b[k].kind # "question"
               /\ b[k].kind = "answer" => k = Len(b)
               /\ b[k].by # Handler => k \in 1..Len(c) /\ IsStep(r, b[k])
    BY <1>2, <1>3, <1>4
  <1>7. ASSUME NEW j \in 1..Len(b), NEW k \in 1..Len(b), j < k,
               b[j].by = b[k].by, b[k].by # Handler
        PROVE  b[j].no < b[k].no
    <2>1. j \in 1..Len(c) /\ k \in 1..Len(c)
      BY <1>6, <1>7
    <2>2. b[j] = c[j] /\ b[k] = c[k]
      BY <1>2, <2>1
    <2>3. QED
      BY <1>7, <2>1, <2>2 DEF CollectOK
  <1>8. ASSUME NEW k \in 1..Len(b), b[k].by # Handler, b[k].no > 1
        PROVE  Before(b, k, Step(r, b[k].by, b[k].no - 1))
    <2>1. k \in 1..Len(c) /\ b[k] = c[k]
      BY <1>2, <1>6, <1>8
    <2>2. Before(c, k, Step(r, b[k].by, b[k].no - 1))
      BY <1>4, <1>8, <2>1
    <2>3. QED
      BY <1>2, <2>1, <2>2 DEF Before
  <1>9. QED
    BY <1>5, <1>6, <1>7, <1>8 DEF BatchOK, b

\* A message is stored: what is left can still be stored.
LEMMA TailBatchOK ==
    ASSUME NEW r \in Requests, NEW b \in Seq(Message), b # << >>,
           NEW q \in Seq(Message), NEW hole, NEW hole2, hole => hole2,
           BatchOK(r, b, q, hole), Head(b).req = r, NEW p,
           \/ p = Append(q, Head(b))
           \/ p = q /\ (hole2 \/ Head(b).kind = "text"),
           Tail(b) # << >>
    PROVE  BatchOK(r, Tail(b), p, hole2)
  <1> DEFINE t == Tail(b)
  <1>1. /\ Len(t) = Len(b) - 1 /\ Len(b) \in Nat
        /\ \A k \in 1..Len(t) : t[k] = b[k + 1]
        /\ \A k \in 1..Len(t) : k + 1 \in 1..Len(b)
        /\ Head(b) = b[1] /\ 1 \in 1..Len(b)
    OBVIOUS
  <1> HIDE DEF t
  <1>2. /\ Len(q) \in Nat
        /\ \A i \in 1..Len(q) : i \in 1..Len(p) /\ p[i] = q[i]
        /\ \A i \in 1..Len(p) : i \in 1..Len(q) \/ p[i] = b[1]
    <2>1. Head(b) \in Message
      BY <1>1
    <2>2. CASE p = Append(q, Head(b))
      BY <1>1, <2>1, <2>2
    <2>3. CASE p = q
      BY <2>3
    <2>4. QED
      BY <2>2, <2>3
  <1>3. t # << >>  /\ Len(b) # 1
    BY <1>1 DEF t
  <1>4. \A i \in 1..Len(p) : p[i].req = r => p[i].kind # "answer"
    BY <1>1, <1>2, <1>3 DEF BatchOK
  <1>5. ASSUME NEW k \in 1..Len(t)
        PROVE  /\ t[k].kind # "question"
               /\ t[k].kind = "answer" => k = Len(t)
               /\ t[k].by # Handler => IsStep(r, t[k])
    <2>1. k + 1 \in 1..Len(b) /\ t[k] = b[k + 1]
      BY <1>1
    <2>2. k + 1 = Len(b) => k = Len(t)
      BY <1>1
    <2>3. QED
      BY <2>1, <2>2 DEF BatchOK
  <1>6. ASSUME NEW j \in 1..Len(t), NEW k \in 1..Len(t), j < k,
               t[j].by = t[k].by, t[k].by # Handler
        PROVE  t[j].no < t[k].no
    <2>1. /\ j + 1 \in 1..Len(b) /\ k + 1 \in 1..Len(b) /\ j + 1 < k + 1
          /\ t[j] = b[j + 1] /\ t[k] = b[k + 1]
      BY <1>1, <1>6
    <2>2. QED
      BY <1>6, <2>1 DEF BatchOK
  <1>7. ASSUME NEW i \in 1..Len(p), NEW k \in 1..Len(t),
               p[i].req = r, p[i].by = t[k].by, t[k].by # Handler
        PROVE  p[i].no < t[k].no
    <2>1. k + 1 \in 1..Len(b) /\ t[k] = b[k + 1] /\ 1 < k + 1
      BY <1>1
    <2>2. CASE i \in 1..Len(q)
      <3>1. q[i].req = r /\ q[i].by = b[k + 1].by /\ b[k + 1].by # Handler
        BY <1>2, <1>7, <2>1, <2>2
      <3>2. q[i].no < b[k + 1].no
        BY <2>1, <2>2, <3>1 DEF BatchOK
      <3>3. QED
        BY <1>2, <2>1, <2>2, <3>2
    <2>3. CASE p[i] = b[1]
      BY <1>1, <1>7, <2>1, <2>3 DEF BatchOK
    <2>4. QED
      BY <1>2, <2>2, <2>3
  <1>8. ASSUME NEW k \in 1..Len(t), t[k].by # Handler, t[k].no > 1, ~hole2
        PROVE  \/ Has(p, Step(r, t[k].by, t[k].no - 1))
               \/ Before(t, k, Step(r, t[k].by, t[k].no - 1))
    <2> DEFINE m == Step(r, t[k].by, t[k].no - 1)
    <2>1. k + 1 \in 1..Len(b) /\ t[k] = b[k + 1]
      BY <1>1
    <2>2. Has(q, m) \/ Before(b, k + 1, m)
      BY <1>8, <2>1 DEF BatchOK
    <2>3. CASE Has(q, m)
      BY <1>2, <2>3 DEF Has
    <2>4. CASE Before(b, k + 1, m)
      <3>1. PICK j \in 1..k : b[j] = m
        BY <2>4 DEF Before
      <3>2. CASE j > 1
        <4>1. j - 1 \in 1..(k - 1) /\ j - 1 \in 1..Len(t) /\ t[j - 1] = b[j]
          BY <1>1, <3>2
        <4>2. QED
          BY <3>1, <4>1 DEF Before
      <3>3. CASE j = 1
        <4>1. Head(b).kind # "text"
          <5>1. IsStep(r, t[k]) /\ t[k].no \in 1..Len(Steps) /\ t[k].by \in Specialists
            BY <1>5, <1>8 DEF IsStep
          <5>2. Len(Steps) \in Nat
            BY ConversationAssumption
          <5>3. t[k].no - 1 \in 1..Len(Steps) /\ t[k].no - 1 # Len(Steps)
            BY <1>8, <5>1, <5>2
          <5>4. IsStep(r, m) /\ m.no = t[k].no - 1
            BY <5>1, <5>3, StepIsStep
          <5>5. QED
            BY <1>1, <3>1, <3>3, <5>3, <5>4, StepKind
        <4>2. p = Append(q, b[1])
          BY <1>1, <1>8, <4>1
        <4>3. b[1] = m /\ Len(p) = Len(q) + 1 /\ p[Len(p)] = b[1]
          BY <3>1, <3>3, <4>2
        <4>4. QED
          BY <1>2, <4>3 DEF Has
      <3>4. QED
        BY <3>2, <3>3
    <2>5. QED
      BY <2>2, <2>3, <2>4
  <1>9. QED
    BY <1>4, <1>5, <1>6, <1>7, <1>8 DEF BatchOK, t

\* The history is left alone, or a message is stored, or could not be.
Stored(r, m) ==
    \/ UNCHANGED <<log, holes>>
    \/ log' = Append(log, m) /\ holes' = holes
    \/ log' = log /\ holes' = [holes EXCEPT ![r] = TRUE]

LEMMA PushStored ==
    ASSUME NEW r, NEW m, Push(r, m) PROVE Stored(r, m)
  BY DEF Push, Stored, backend

\* A message that fits keeps the history in order.
LEMMA AppendInOrder ==
    ASSUME TypeOK, StoredInOrder, NEW r \in Requests, NEW m \in Message,
           m.req = r, Stored(r, m),
           \A i \in 1..Len(log) : log[i].req = r =>
               /\ log[i].kind # "answer" /\ m.kind # "question"
               /\ log[i].by = m.by /\ m.by # Handler => log[i].no < m.no,
           m.by # Handler /\ m.no > 1 /\ ~holes[r] =>
               Has(log, Step(r, m.by, m.no - 1))
    PROVE  StoredInOrder'
  <1>1. /\ log \in Seq(Message) /\ Len(log) \in Nat
        /\ holes \in [Requests -> BOOLEAN]
    BY DEF TypeOK
  <1>2. CASE UNCHANGED <<log, holes>>
    BY <1>2 DEF StoredInOrder
  <1>3. CASE log' = log /\ holes' = [holes EXCEPT ![r] = TRUE]
    <2>1. \A i \in 1..Len(log) : ~holes'[log[i].req] => ~holes[log[i].req]
      BY <1>1, <1>3 DEF Message
    <2>2. QED
      BY <1>3, <2>1 DEF StoredInOrder
  <1>4. CASE log' = Append(log, m) /\ holes' = holes
    <2>1. /\ Len(log') = Len(log) + 1 /\ log'[Len(log')] = m
          /\ \A i \in 1..Len(log) : log'[i] = log[i]
          /\ \A i \in 1..Len(log') : i \in 1..Len(log) \/ i = Len(log')
      BY <1>1, <1>4
    <2>2. ASSUME NEW i \in 1..Len(log'), log'[i].kind = "question",
                 NEW j \in 1..(i - 1)
          PROVE  log'[j].req # log'[i].req
      BY <1>1, <2>1, <2>2 DEF StoredInOrder
    <2>3. ASSUME NEW i \in 1..Len(log'), log'[i].kind = "answer",
                 NEW j \in (i + 1)..Len(log')
          PROVE  log'[j].req # log'[i].req
      <3>1. i \in 1..Len(log)
        BY <1>1, <2>1
      <3>2. QED
        BY <1>1, <2>1, <2>3, <3>1 DEF StoredInOrder
    <2>4. ASSUME NEW i \in 1..Len(log'), log'[i].by # Handler
          PROVE  /\ \A j \in 1..(i - 1) :
                       log'[j].req = log'[i].req /\ log'[j].by = log'[i].by
                          => log'[j].no < log'[i].no
                 /\ log'[i].no > 1 /\ ~holes'[log'[i].req] =>
                       \E j \in 1..(i - 1) :
                           log'[j] = Step(log'[i].req, log'[i].by, log'[i].no - 1)
      <3>1. CASE i \in 1..Len(log)
        <4>1. \A j \in 1..(i - 1) : log'[j] = log[j]
          BY <1>1, <2>1, <3>1
        <4>2. /\ \A j \in 1..(i - 1) :
                    log[j].req = log[i].req /\ log[j].by = log[i].by
                       => log[j].no < log[i].no
              /\ log[i].no > 1 /\ ~holes[log[i].req] =>
                    \E j \in 1..(i - 1) :
                        log[j] = Step(log[i].req, log[i].by, log[i].no - 1)
          BY <2>1, <2>4, <3>1 DEF StoredInOrder
        <4>3. log'[i] = log[i] /\ holes' = holes
          BY <1>4, <2>1, <3>1
        <4>4. QED
          BY <4>1, <4>2, <4>3
      <3>2. CASE i = Len(log')
        <4>1. /\ log'[i] = m /\ i - 1 = Len(log) /\ m.req = r
              /\ \A j \in 1..(i - 1) : log'[j] = log[j]
              /\ holes' = holes
          BY <1>1, <1>4, <2>1, <3>2
        <4>2. QED
          BY <2>4, <4>1 DEF Has
      <3>3. QED
        BY <2>1, <3>1, <3>2
    <2>5. QED
      BY <2>2, <2>3, <2>4 DEF StoredInOrder
  <1>5. QED
    BY <1>2, <1>3, <1>4 DEF Stored

\* What one request stores does not disturb the others.
LEMMA OtherBatchOK ==
    ASSUME TypeOK, NEW r \in Requests, NEW m \in Message, m.req = r,
           Stored(r, m), NEW x \in Requests \ {r}, NEW b,
           BatchOK(x, b, log, holes[x])
    PROVE  BatchOK(x, b, log', holes'[x])
  <1>1. /\ log \in Seq(Message) /\ Len(log) \in Nat
        /\ holes \in [Requests -> BOOLEAN]
    BY DEF TypeOK
  <1>2. holes'[x] = holes[x]
    BY <1>1 DEF Stored
  <1>3. CASE log' = log
    BY <1>2, <1>3
  <1>4. CASE log' = Append(log, m)
    <2>1. /\ Len(log') = Len(log) + 1
          /\ \A i \in 1..Len(log) : i \in 1..Len(log') /\ log'[i] = log[i]
          /\ \A i \in 1..Len(log') : log'[i].req = x =>
                i \in 1..Len(log) /\ log'[i] = log[i]
      BY <1>1, <1>4
    <2>2. \A y : Has(log, y) => Has(log', y)
      BY <2>1 DEF Has
    <2>3. QED
      BY <1>2, <2>1, <2>2 DEF BatchOK
  <1>5. QED
    BY <1>3, <1>4 DEF Stored

\* The history, and what is left to store, stay as they are.
LEMMA QuietOrder ==
    ASSUME OrderInv, UNCHANGED <<log, holes, batch>>,
           \A r \in Requests : /\ Begun(r) => Begun(r)'
                               /\ Asked(r)' => Asked(r) \/ ~Begun(r)
    PROVE  LogInv' /\ StoredInOrder' /\ BatchInv'
  <1>1. LogInv'
    BY DEF OrderInv, LogInv
  <1>2. QED
    BY <1>1 DEF OrderInv, StoredInOrder, BatchInv

\* A handler begins to store what can be stored.
LEMMA StoresOrder ==
    ASSUME OrderInv, NEW r \in Requests, NEW step \in Storing, NEW b,
           pc[r] \in {"run", "wait"}, Stores(r, step, b),
           b # << >> => BatchOK(r, b, log, holes[r])
    PROVE  LogInv' /\ StoredInOrder' /\ BatchInv'
  <1>1. /\ UNCHANGED <<log, holes>>
        /\ batch' = [batch EXCEPT ![r] = b] /\ pc' = [pc EXCEPT ![r] = step]
    BY DEF Stores, Goto, backend
  <1>2. \A x \in Requests : /\ Begun(x) => Begun(x)'
                            /\ Asked(x)' => Asked(x)
    BY <1>1 DEF Begun, Asked, Storing, OrderInv, TypeOK
  <1>3. LogInv' /\ StoredInOrder'
    BY <1>1, <1>2 DEF OrderInv, LogInv, StoredInOrder
  <1>4. BatchInv'
    BY <1>1 DEF OrderInv, BatchInv, TypeOK
  <1>5. QED
    BY <1>3, <1>4

\* A message is stored that fits what has been stored before.
LEMMA StoredLog ==
    ASSUME OrderInv, NEW r \in Requests, NEW m \in Message, m.req = r,
           Stored(r, m), m.by # Handler => IsStep(r, m),
           Begun(r)', Asked(r)' => m.kind = "question",
           \A x \in Requests : /\ Begun(x) => Begun(x)'
                               /\ Asked(x)' => Asked(x) \/ ~Begun(x)
    PROVE  LogInv'
  <1>1. log \in Seq(Message) /\ Len(log) \in Nat
    BY DEF OrderInv, TypeOK
  <1>2. \A i \in 1..Len(log') : \/ i \in 1..Len(log) /\ log'[i] = log[i]
                                \/ log'[i] = m
    BY <1>1 DEF Stored
  <1>3. ASSUME NEW i \in 1..Len(log'), log'[i].by # Handler
        PROVE  IsStep(log'[i].req, log'[i])
    BY <1>2, <1>3 DEF OrderInv, LogInv
  <1>4. ASSUME NEW x \in Requests, NEW i \in 1..Len(log'), log'[i].req = x
        PROVE  Begun(x)' /\ (Asked(x)' => log'[i].kind = "question")
    <2>1. CASE i \in 1..Len(log) /\ log'[i] = log[i]
      BY <1>4, <2>1 DEF OrderInv, LogInv
    <2>2. CASE log'[i] = m
      BY <1>4, <2>2
    <2>3. QED
      BY <1>2, <2>1, <2>2
  <1>5. QED
    BY <1>3, <1>4 DEF LogInv

LEMMA AskOrder ==
    ASSUME OrderInv, NEW r \in Requests, Ask(r)
    PROVE  LogInv' /\ StoredInOrder' /\ BatchInv'
  <1> DEFINE m == Said(r, "question")
  <1>1. m \in Message /\ m.req = r /\ m.by = Handler /\ m.kind = "question"
    BY SaidMessage DEF Said
  <1>2. Stored(r, m) /\ batch' = batch
    BY PushStored DEF Ask
  <1> HIDE DEF m
  <1>3. pc \in [Requests -> {"idle", "ask", "own", "run", "wait", "tell", "over"}
                               \union Storing]
    BY DEF OrderInv, TypeOK
  <1>4. pc[r] = "ask" /\ pc' = [pc EXCEPT ![r] = "own"]
    BY DEF Ask, Goto
  <1>5. /\ \A x \in Requests : /\ Begun(x) => Begun(x)'
                               /\ Asked(x)' => Asked(x) \/ ~Begun(x)
        /\ Begun(r)'
    BY <1>3, <1>4 DEF Begun, Asked
  <1>6. \A i \in 1..Len(log) : log[i].req # r
    BY <1>4 DEF OrderInv, LogInv, Begun
  <1>7. StoredInOrder'
    BY <1>1, <1>2, <1>6, AppendInOrder DEF OrderInv
  <1>8. LogInv'
    BY <1>1, <1>2, <1>5, StoredLog
  <1>9. BatchInv'
    <2>1. batch[r] = << >>
      BY <1>4 DEF OrderInv, TypeOK, Storing
    <2>2. ASSUME NEW x \in Requests, batch'[x] # << >>
          PROVE  BatchOK(x, batch'[x], log', holes'[x])
      <3>1. x \in Requests \ {r} /\ BatchOK(x, batch[x], log, holes[x])
        BY <1>2, <2>1, <2>2 DEF OrderInv, BatchInv
      <3>2. QED
        BY <1>1, <1>2, <3>1, OtherBatchOK DEF OrderInv
    <2>3. QED
      BY <2>2 DEF BatchInv
  <1>10. QED
    BY <1>7, <1>8, <1>9

LEMMA StoreOrder ==
    ASSUME OrderInv, NEW r \in Requests, Store(r)
    PROVE  LogInv' /\ StoredInOrder' /\ BatchInv'
  <1> DEFINE b == batch[r]
             m == Head(batch[r])
  <1>1. /\ batch \in [Requests -> Seq(Message)] /\ b \in Seq(Message) /\ b # << >>
        /\ holes \in [Requests -> BOOLEAN]
        /\ m = b[1] /\ 1 \in 1..Len(b) /\ m \in Message /\ m.req = r
    BY Batches, OwnedTail DEF OrderInv, TypeOK, Store
  <1>2. /\ batch' = [batch EXCEPT ![r] = Tail(b)]
        /\ pc' = pc /\ pc[r] \in Storing
        /\ Stored(r, m)
        /\ log' = log => \/ holes' = [holes EXCEPT ![r] = TRUE]
                         \/ m.kind = "text"
    <2>1. CASE m.kind = "text" /\ UNCHANGED <<log, backend>>
      BY <2>1 DEF Store, Stored, backend
    <2>2. CASE Push(r, m)
      <3>1. log' = log => holes' = [holes EXCEPT ![r] = TRUE]
        BY <1>1, <2>2 DEF Push, OrderInv, TypeOK
      <3>2. QED
        BY <2>2, <3>1, PushStored DEF Store
    <2>3. QED
      BY <2>1, <2>2 DEF Store
  <1>3. BatchOK(r, b, log, holes[r])
    BY <1>1 DEF OrderInv, BatchInv
  <1> HIDE DEF b, m
  <1>4. StoredInOrder'
    <2>1. \A i \in 1..Len(log) : log[i].req = r =>
              /\ log[i].kind # "answer" /\ m.kind # "question"
              /\ log[i].by = m.by /\ m.by # Handler => log[i].no < m.no
      BY <1>1, <1>3 DEF BatchOK
    <2>2. m.by # Handler /\ m.no > 1 /\ ~holes[r] =>
              Has(log, Step(r, m.by, m.no - 1))
      BY <1>1, <1>3 DEF BatchOK, Before
    <2>3. QED
      BY <1>1, <1>2, <2>1, <2>2, AppendInOrder DEF OrderInv
  <1>5. LogInv'
    <2>1. m.by # Handler => IsStep(r, m)
      BY <1>1, <1>3 DEF BatchOK
    <2>2. /\ Begun(r)' /\ ~Asked(r)'
          /\ \A x \in Requests : /\ Begun(x) => Begun(x)'
                                 /\ Asked(x)' => Asked(x)
      BY <1>2 DEF Begun, Asked, Storing
    <2>3. QED
      BY <1>1, <1>2, <2>1, <2>2, StoredLog
  <1>6. BatchInv'
    <2>1. ASSUME Tail(b) # << >> PROVE BatchOK(r, Tail(b), log', holes'[r])
      <3>1. \/ log' = Append(log, m)
            \/ log' = log /\ (holes'[r] \/ m.kind = "text")
        BY <1>1, <1>2 DEF Stored
      <3>2. holes[r] => holes'[r]
        BY <1>1, <1>2 DEF Stored
      <3>3. log \in Seq(Message)
        BY DEF OrderInv, TypeOK
      <3>4. QED
        BY <1>1, <1>3, <2>1, <3>1, <3>2, <3>3, TailBatchOK DEF m, b
    <2>2. ASSUME NEW x \in Requests \ {r}, batch'[x] # << >>
          PROVE  BatchOK(x, batch'[x], log', holes'[x])
      <3>1. BatchOK(x, batch[x], log, holes[x]) /\ batch'[x] = batch[x]
        BY <1>1, <1>2, <2>2 DEF OrderInv, BatchInv
      <3>2. QED
        BY <1>1, <1>2, <3>1, OtherBatchOK DEF OrderInv
    <2>3. batch'[r] = Tail(b)
      BY <1>1, <1>2
    <2>4. QED
      BY <2>1, <2>2, <2>3 DEF BatchInv
  <1>7. QED
    BY <1>4, <1>5, <1>6

LEMMA InitOrderInv == Init => OrderInv
  <1>1. SUFFICES ASSUME Init PROVE OrderInv
    OBVIOUS
  <1>2. log = << >> /\ batch = [r \in Requests |-> << >>]
    BY <1>1 DEF Init
  <1>3. CollectInv
    BY <1>1, ConversationAssumption DEF Init, CollectInv, CollectOK
  <1>4. LogInv /\ StoredInOrder /\ BatchInv
    BY <1>2 DEF LogInv, StoredInOrder, BatchInv
  <1>5. QED
    BY <1>1, <1>3, <1>4, InitTypeOK DEF OrderInv

\* Of a request that has just finished, only the question is stored.
LEMMA FinishBatchOK ==
    ASSUME OrderInv, NEW r \in Requests, pc[r] \in {"run", "wait"}, NEW hole
    PROVE  /\ BatchOK(r, InterruptMessages(r), log, hole)
           /\ BatchOK(r, Append(collector[r], Said(r, "answer")), log, hole)
           /\ BatchOK(r, collector[r] \o Endings(r), log, hole)
  <1>1. /\ collector[r] \in Seq(Message)
        /\ CollectOK(r, collector[r], got[r])
    BY DEF OrderInv, TypeOK, CollectInv
  <1>2. /\ \A i \in 1..Len(log) : log[i].req = r => log[i].kind = "question"
        /\ \A i \in 1..Len(log) : log[i].by # Handler => IsStep(log[i].req, log[i])
    BY DEF OrderInv, LogInv, Asked
  <1>3. \A e : Ends(r, e) => BatchOK(r, collector[r] \o e, log, hole)
    BY <1>1, <1>2, CollectedBatchOK
  <1>4. Ends(r, Endings(r))
    BY DEF Endings, Ends
  <1>5. /\ InterruptMessages(r) = collector[r] \o <<Said(r, "notice")>>
        /\ Append(collector[r], Said(r, "answer"))
              = collector[r] \o <<Said(r, "answer")>>
    BY <1>1, SaidMessage DEF InterruptMessages
  <1>6. Ends(r, <<Said(r, "notice")>>) /\ Ends(r, <<Said(r, "answer")>>)
    BY DEF Ends
  <1>7. QED
    BY <1>3, <1>4, <1>5, <1>6

LEMMA NextOrderInv == OrderInv /\ [Next]_vars => OrderInv'
  <1>1. SUFFICES ASSUME OrderInv, [Next]_vars
                 PROVE  LogInv' /\ StoredInOrder' /\ BatchInv'
    BY NextTypeOK, NextCollectInv DEF OrderInv
  <1>2. pc \in [Requests -> {"idle", "ask", "own", "run", "wait", "tell", "over"}
                               \union Storing]
    BY <1>1 DEF OrderInv, TypeOK
  <1>3. CASE UNCHANGED <<log, holes, batch, pc>>
    BY <1>1, <1>3, QuietOrder DEF Begun, Asked
  <1>4. ASSUME NEW r \in Requests,
               \/ Load(r) \/ LoadFails(r) \/ SetOwner(r) \/ Decide(r)
               \/ FinishError(r) \/ FinishStream(r) \/ Tell(r) \/ TellNothing(r)
        PROVE  LogInv' /\ StoredInOrder' /\ BatchInv'
    <2>1. UNCHANGED <<log, holes, batch>>
      BY <1>4 DEF Load, LoadFails, SetOwner, Decide, FinishError, FinishStream,
                  Tell, TellNothing, backend
    <2>2. \E step : /\ pc' = [pc EXCEPT ![r] = step]
                    /\ \/ pc[r] = "idle" /\ step \in {"ask", "run"}
                       \/ pc[r] = "own" /\ step = "run"
                       \/ pc[r] = "run" /\ step \in {"tell", "wait"}
                       \/ step = "over"
      BY <1>4 DEF Load, LoadFails, SetOwner, Decide, FinishError, FinishStream,
                  Tell, TellNothing, Goto
    <2>3. \A x \in Requests : /\ Begun(x) => Begun(x)'
                              /\ Asked(x)' => Asked(x) \/ ~Begun(x)
      BY <1>2, <2>2 DEF Begun, Asked
    <2>4. QED
      BY <1>1, <2>1, <2>3, QuietOrder
  <1>5. ASSUME NEW r \in Requests,
               FinishInterrupt(r) \/ FinishStreamInterrupt(r) \/ FinishReply(r)
               \/ StopWaiting(r)
        PROVE  LogInv' /\ StoredInOrder' /\ BatchInv'
    <2>1. pc[r] \in {"run", "wait"}
      BY <1>5 DEF FinishInterrupt, FinishStreamInterrupt, FinishReply, StopWaiting
    <2>2. \E step \in Storing :
              \/ Stores(r, step, << >>)
              \/ Stores(r, step, InterruptMessages(r))
              \/ Stores(r, step, Append(collector[r], Said(r, "answer")))
              \/ Stores(r, step, collector[r] \o Endings(r))
      BY <1>5 DEF FinishInterrupt, FinishStreamInterrupt, FinishReply,
                  StopWaiting, Storing
    <2>3. /\ BatchOK(r, InterruptMessages(r), log, holes[r])
          /\ BatchOK(r, Append(collector[r], Said(r, "answer")), log, holes[r])
          /\ BatchOK(r, collector[r] \o Endings(r), log, holes[r])
      BY <1>1, <2>1, FinishBatchOK
    <2>4. QED
      BY <1>1, <2>1, <2>2, <2>3, StoresOrder
  <1>6. ASSUME NEW r \in Requests, NEW s \in Specialists, Specialist(r, s)
        PROVE  LogInv' /\ StoredInOrder' /\ BatchInv'
    <2>1. UNCHANGED <<log, holes, batch, pc>>
      BY <1>6 DEF Specialist, Route, Fail, Interrupt, Return, Collect, backend
    <2>2. QED
      BY <1>3, <2>1
  <1>7. CASE Crash
    <2>1. /\ \A r \in Requests : batch'[r] = << >>
          /\ pc' = [r \in Requests |-> IF pc[r] = "idle" THEN "idle" ELSE "over"]
          /\ holes' = holes /\ (log' = log \/ log' = << >>)
      BY <1>7 DEF Crash
    <2>2. BatchInv'
      BY <2>1 DEF BatchInv
    <2>3. CASE log' = << >>
      BY <2>2, <2>3 DEF LogInv, StoredInOrder
    <2>4. CASE log' = log
      <3>1. \A x \in Requests : (Begun(x) => Begun(x)') /\ ~Asked(x)'
        BY <2>1 DEF Begun, Asked
      <3>2. LogInv' /\ StoredInOrder'
        BY <1>1, <2>1, <2>4, <3>1 DEF OrderInv, LogInv, StoredInOrder
      <3>3. QED
        BY <2>2, <3>2
    <2>5. QED
      BY <2>1, <2>3, <2>4
  <1>8. CASE UNCHANGED vars
    BY <1>3, <1>8 DEF vars, backend
  <1>9. QED
    BY <1>1, <1>4, <1>5, <1>6, <1>7, <1>8, AskOrder, StoreOrder
    DEF Next, Handle

\* However requests, specialists and crashes interleave, what a request has
\* stored is in order.
THEOREM StoredInOrderAlways == Spec => []StoredInOrder
  <1>1. OrderInv => StoredInOrder
    BY DEF OrderInv
  <1>2. QED
    BY <1>1, InitOrderInv, NextOrderInv, PTL DEF Spec

-----------------------------------------------------------------------------
(* An answer comes after all that the specialists said.                    *)

\* r has stored its answer, or is about to.
Answering(r) ==
    \/ \E i \in 1..Len(log) : log[i].req = r /\ log[i].kind = "answer"
    \/ \E k \in 1..Len(batch[r]) : batch[r][k].kind = "answer"

\* Who waits has only specialists that have returned or were not asked; an
\* answer, if the handler did not lose patience, comes when all is collected,
\* and after all of it.
CompleteOK(r) ==
    /\ pc[r] = "wait" =>
          \A s \in Specialists : work[r][s] \in {"off", "collected", "done"}
    /\ Answering(r) /\ ~late[r] =>
          \A s \in Specialists : work[r][s] \in {"off", "done"}
    /\ \A k \in 1..Len(batch[r]) : batch[r][k].kind = "answer" =>
          /\ pc[r] = "store"
          /\ ~late[r] /\ ~holes[r] =>
                \A s \in Specialists, n \in 1..Len(Steps) :
                    work[r][s] # "off" =>
                        \/ Has(log, Step(r, s, n))
                        \/ Has(batch[r], Step(r, s, n))

CompleteInv == \A r \in Requests : CompleteOK(r)

AllInv == OrderInv /\ CompleteInv /\ AnswerComplete

LEMMA LogMessages ==
    ASSUME TypeOK
    PROVE  /\ log \in Seq(Message) /\ Len(log) \in Nat
           /\ \A i \in 1..Len(log) : log[i].req \in Requests
  <1>1. log \in Seq(Message)
    BY DEF TypeOK
  <1>2. \A i \in 1..Len(log) : log[i] \in Message
    BY <1>1
  <1>3. QED
    BY <1>1, <1>2 DEF Message

LEMMA AnsweringWhen ==
    ASSUME OrderInv, NEW r \in Requests, Answering(r)
    PROVE  pc[r] \in Storing \union {"over"}
  <1>1. pc[r] \in {"idle", "ask", "own", "run", "wait", "tell", "over"} \union Storing
    BY DEF OrderInv, TypeOK
  <1>2. CASE \E i \in 1..Len(log) : log[i].req = r /\ log[i].kind = "answer"
    BY <1>1, <1>2 DEF OrderInv, LogInv, Begun, Asked
  <1>3. CASE \E k \in 1..Len(batch[r]) : batch[r][k].kind = "answer"
    <2>1. batch[r] # << >>
      BY <1>3
    <2>2. QED
      BY <2>1 DEF OrderInv, TypeOK
  <1>4. QED
    BY <1>2, <1>3 DEF Answering

\* Only the work for r changes, and r waits for no more than before, or does
\* not answer, or has given up waiting.
LEMMA WorkComplete ==
    ASSUME AllInv, NEW r \in Requests, UNCHANGED <<log, batch, late, holes, pc>>,
           \A x \in Requests \ {r} : work'[x] = work[x],
           pc[r] = "wait" => \A s \in Specialists :
                                 work'[r][s] \in {"off", "collected", "done"},
           Answering(r) => late[r]
    PROVE  CompleteInv' /\ AnswerComplete'
  <1>1. ASSUME NEW x \in Requests
        PROVE  CompleteOK(x)'
    <2>1. CASE x = r
      BY <2>1 DEF AllInv, CompleteInv, CompleteOK, Answering
    <2>2. CASE x # r
      <3>1. work'[x] = work[x] /\ (Answering(x)' => Answering(x))
        BY <2>2 DEF Answering
      <3>2. QED
        BY <3>1 DEF AllInv, CompleteInv, CompleteOK
    <2>3. QED
      BY <2>1, <2>2
  <1>2. AnswerComplete'
    <2>1. ASSUME NEW i \in 1..Len(log), log[i].kind = "answer",
                 ~late[log[i].req], ~holes[log[i].req],
                 NEW s \in Specialists, NEW n \in 1..Len(Steps),
                 work'[log[i].req][s] # "off"
          PROVE  \E j \in 1..(i - 1) : log[j] = Step(log[i].req, s, n)
      <3>1. log[i].req \in Requests
        BY LogMessages DEF AllInv, OrderInv
      <3>2. log[i].req # r
        BY <2>1 DEF Answering
      <3>3. work'[log[i].req] = work[log[i].req]
        BY <3>1, <3>2
      <3>4. work[log[i].req][s] # "off"
        BY <2>1, <3>3
      <3>5. QED
        BY <2>1, <3>4 DEF AllInv, AnswerComplete
    <2>2. QED
      BY <2>1 DEF AnswerComplete
  <1>3. QED
    BY <1>1, <1>2 DEF CompleteInv

\* A message is stored: an answer only after all that has been said.
LEMMA PushComplete ==
    ASSUME AllInv, NEW r \in Requests, NEW m \in Message, m.req = r,
           Stored(r, m), UNCHANGED <<work, late>>,
           m.kind = "answer" /\ ~late[r] /\ ~holes[r] =>
               \A s \in Specialists, n \in 1..Len(Steps) :
                   work[r][s] # "off" => Has(log, Step(r, s, n))
    PROVE  AnswerComplete'
  <1>1. /\ log \in Seq(Message) /\ Len(log) \in Nat
        /\ holes \in [Requests -> BOOLEAN]
        /\ \A i \in 1..Len(log) : log[i].req \in Requests
    BY LogMessages DEF AllInv, OrderInv, TypeOK
  <1>2. \A x \in Requests : ~holes'[x] => ~holes[x]
    BY <1>1 DEF Stored
  <1>3. /\ Len(log') \in Nat
        /\ \A i \in 1..Len(log) : log'[i] = log[i]
        /\ \A i \in 1..Len(log') : \/ i \in 1..Len(log)
                                   \/ i = Len(log) + 1 /\ log'[i] = m
    <2>1. CASE log' = log
      BY <1>1, <2>1
    <2>2. CASE log' = Append(log, m)
      BY <1>1, <2>2
    <2>3. QED
      BY <2>1, <2>2 DEF Stored
  <1>4. ASSUME NEW i \in 1..Len(log'), log'[i].kind = "answer",
               ~late[log'[i].req], ~holes'[log'[i].req],
               NEW s \in Specialists, NEW n \in 1..Len(Steps),
               work[log'[i].req][s] # "off"
        PROVE  \E j \in 1..(i - 1) : log'[j] = Step(log'[i].req, s, n)
    <2>1. CASE i \in 1..Len(log)
      <3>1. \E j \in 1..(i - 1) : log[j] = Step(log[i].req, s, n)
        BY <1>1, <1>2, <1>3, <1>4, <2>1 DEF AllInv, AnswerComplete
      <3>2. QED
        BY <1>1, <1>3, <2>1, <3>1
    <2>2. CASE i = Len(log) + 1 /\ log'[i] = m
      <3>1. Has(log, Step(r, s, n))
        BY <1>2, <1>4, <2>2
      <3>2. QED
        BY <1>1, <1>3, <2>2, <3>1 DEF Has
    <2>3. QED
      BY <1>3, <2>1, <2>2
  <1>5. QED
    BY <1>4 DEF AnswerComplete

\* The invariant of a request for which nothing changes but that the history
\* gets longer.
LEMMA OtherComplete ==
    ASSUME AllInv, NEW x \in Requests, work'[x] = work[x], late'[x] = late[x],
           holes'[x] = holes[x], batch'[x] = batch[x], pc'[x] = pc[x],
           NEW r \in Requests \ {x}, NEW m \in Message, m.req = r, Stored(r, m)
    PROVE  CompleteOK(x)'
  <1>1. log \in Seq(Message) /\ Len(log) \in Nat
    BY DEF AllInv, OrderInv, TypeOK
  <1>2. /\ Len(log') \in Nat /\ Len(log) <= Len(log')
        /\ \A i \in 1..Len(log) : log'[i] = log[i]
        /\ \A i \in 1..Len(log') : i \in 1..Len(log) \/ log'[i] = m
    BY <1>1 DEF Stored
  <1>3. Answering(x)' => Answering(x)
    BY <1>2 DEF Answering
  <1>4. \A y : Has(log, y) => Has(log', y)
    BY <1>1, <1>2 DEF Has
  <1>5. QED
    BY <1>3, <1>4 DEF AllInv, CompleteInv, CompleteOK

\* The handler stores nothing new, and goes on.
LEMMA QuietComplete ==
    ASSUME AllInv, UNCHANGED <<log, batch, late, holes, work>>,
           \A r \in Requests :
               /\ pc'[r] = "wait" =>
                     \A s \in Specialists : work[r][s] \in {"off", "collected", "done"}
               /\ pc[r] = "store" /\ batch[r] # << >> => pc'[r] = "store"
    PROVE  CompleteInv' /\ AnswerComplete'
  <1>1. ASSUME NEW r \in Requests PROVE CompleteOK(r)'
    <2>1. CompleteOK(r) /\ (Answering(r)' => Answering(r))
      BY DEF AllInv, CompleteInv, Answering
    <2>2. \A k \in 1..Len(batch[r]) : batch[r] # << >>
      OBVIOUS
    <2>3. QED
      BY <2>1, <2>2 DEF CompleteOK
  <1>2. AnswerComplete'
    BY DEF AllInv, AnswerComplete
  <1>3. QED
    BY <1>1, <1>2 DEF CompleteInv

\* A handler begins to store b: an answer is in it only when all that has been
\* said is, or its patience is at an end.
LEMMA StoresComplete ==
    ASSUME AllInv, NEW r \in Requests, NEW step \in Storing, NEW b,
           pc[r] \in {"run", "wait"}, Stores(r, step, b),
           late' \in [Requests -> BOOLEAN],
           \A x \in Requests \ {r} : late'[x] = late[x],
           \A k \in 1..Len(b) : b[k].kind = "answer" =>
               /\ step = "store"
               /\ ~late'[r] =>
                     /\ \A s \in Specialists : work[r][s] \in {"off", "done"}
                     /\ \A s \in Specialists, n \in 1..Len(Steps) :
                           work[r][s] # "off" => Has(b, Step(r, s, n))
    PROVE  CompleteInv' /\ AnswerComplete'
  <1>1. /\ UNCHANGED <<log, holes, work>>
        /\ batch' = [batch EXCEPT ![r] = b] /\ pc' = [pc EXCEPT ![r] = step]
        /\ batch \in [Requests -> Seq(Message)]
        /\ pc \in [Requests -> {"idle", "ask", "own", "run", "wait", "tell", "over"}
                               \union Storing]
    BY DEF Stores, Goto, backend, AllInv, OrderInv, TypeOK
  <1>2. \A i \in 1..Len(log) : log[i].req = r => log[i].kind # "answer"
    BY AnsweringWhen DEF AllInv, Answering, Storing
  <1>3. CompleteOK(r)'
    <2>1. batch'[r] = b /\ pc'[r] = step /\ pc'[r] # "wait"
      BY <1>1 DEF Storing
    <2>2. Answering(r)' => \E k \in 1..Len(b) : b[k].kind = "answer"
      BY <1>1, <1>2, <2>1 DEF Answering
    <2>3. Answering(r)' /\ ~late'[r] =>
              \A s \in Specialists : work'[r][s] \in {"off", "done"}
      BY <1>1, <2>2
    <2>4. ASSUME NEW k \in 1..Len(b), b[k].kind = "answer"
          PROVE  /\ step = "store"
                 /\ ~late'[r] =>
                       \A s \in Specialists, n \in 1..Len(Steps) :
                           work'[r][s] # "off" => Has(b, Step(r, s, n))
      BY <1>1, <2>4
    <2>5. QED
      BY <2>1, <2>3, <2>4 DEF CompleteOK
  <1>4. ASSUME NEW x \in Requests \ {r} PROVE CompleteOK(x)'
    <2>1. batch'[x] = batch[x] /\ pc'[x] = pc[x] /\ late'[x] = late[x]
      BY <1>1
    <2>2. Answering(x)' => Answering(x)
      BY <1>1, <2>1 DEF Answering
    <2>3. QED
      BY <1>1, <2>1, <2>2 DEF AllInv, CompleteInv, CompleteOK
  <1>5. AnswerComplete'
    <2>1. ASSUME NEW i \in 1..Len(log), log[i].kind = "answer",
                 ~late'[log[i].req], ~holes[log[i].req],
                 NEW s \in Specialists, NEW n \in 1..Len(Steps),
                 work[log[i].req][s] # "off"
          PROVE  \E j \in 1..(i - 1) : log[j] = Step(log[i].req, s, n)
      <3>1. log[i].req \in Requests \ {r}
        BY <1>2, <2>1, LogMessages DEF AllInv, OrderInv
      <3>2. ~late[log[i].req]
        BY <2>1, <3>1
      <3>3. QED
        BY <2>1, <3>2 DEF AllInv, AnswerComplete
    <2>2. QED
      BY <1>1, <2>1 DEF AnswerComplete
  <1>6. QED
    BY <1>3, <1>4, <1>5 DEF CompleteInv

\* When all is collected that has been said, the collector has it all.
LEMMA AllCollected ==
    ASSUME OrderInv, NEW r \in Requests,
           \A s \in Specialists : work[r][s] \in {"off", "done"},
           NEW e, Ends(r, e), NEW s \in Specialists, NEW n \in 1..Len(Steps),
           work[r][s] # "off"
    PROVE  Has(collector[r] \o e, Step(r, s, n))
  <1>1. got[r][s] = Len(Steps) /\ CollectOK(r, collector[r], got[r])
    BY DEF OrderInv, CollectInv
  <1>2. Len(Steps) \in Nat
    BY ConversationAssumption
  <1>3. Has(collector[r], Step(r, s, n))
    BY <1>1, <1>2 DEF CollectOK
  <1>4. collector[r] \in Seq(Message) /\ e \in Seq(Message)
    BY EndsMessages DEF OrderInv, TypeOK
  <1>5. QED
    BY <1>3, <1>4 DEF Has

\* What is collected is no answer.
LEMMA CollectedNoAnswer ==
    ASSUME OrderInv, NEW r \in Requests, NEW k \in 1..Len(InterruptMessages(r))
    PROVE  InterruptMessages(r)[k].kind # "answer"
  <1>1. collector[r] \in Seq(Message) /\ CollectOK(r, collector[r], got[r])
    BY DEF OrderInv, TypeOK, CollectInv
  <1>2. \A j \in 1..Len(collector[r]) : collector[r][j].kind # "answer"
    BY <1>1, StepKind DEF CollectOK
  <1>3. Said(r, "notice").kind = "notice"
    BY DEF Said
  <1>4. QED
    BY <1>1, <1>2, <1>3, SaidMessage DEF InterruptMessages

\* A request that has not yet something to store does not answer.
LEMMA NotAnswering ==
    ASSUME AllInv, NEW r \in Requests,
           pc[r] \in {"idle", "ask", "own", "run", "wait", "tell"}
    PROVE  ~Answering(r)
  BY AnsweringWhen DEF AllInv, Storing

LEMMA AskComplete ==
    ASSUME AllInv, NEW r \in Requests, Ask(r)
    PROVE  CompleteInv' /\ AnswerComplete'
  <1> DEFINE m == Said(r, "question")
  <1>1. m \in Message /\ m.req = r /\ m.kind = "question"
    BY SaidMessage DEF Said
  <1>2. Stored(r, m) /\ UNCHANGED <<batch, work, late>>
    BY PushStored DEF Ask
  <1> HIDE DEF m
  <1>3. pc[r] = "ask" /\ pc' = [pc EXCEPT ![r] = "own"]
    BY DEF Ask, Goto
  <1>4. AnswerComplete'
    BY <1>1, <1>2, PushComplete
  <1>5. /\ pc \in [Requests -> {"idle", "ask", "own", "run", "wait", "tell", "over"}
                               \union Storing]
        /\ holes \in [Requests -> BOOLEAN] /\ batch[r] = << >>
    BY <1>3 DEF AllInv, OrderInv, TypeOK, Storing
  <1>6. ASSUME NEW x \in Requests \ {r} PROVE CompleteOK(x)'
    <2>1. holes'[x] = holes[x]
      BY <1>2, <1>5 DEF Stored
    <2>2. pc'[x] = pc[x] /\ r \in Requests \ {x}
      BY <1>3, <1>5
    <2>3. QED
      BY <1>1, <1>2, <2>1, <2>2, OtherComplete
  <1>7. CompleteOK(r)'
    <2>1. batch'[r] = << >> /\ pc'[r] = "own"
      BY <1>2, <1>3, <1>5
    <2>2. \A i \in 1..Len(log') : log'[i].req = r => log'[i].kind # "answer"
      <3>1. \A i \in 1..Len(log) : log[i].req = r => log[i].kind # "answer"
        BY <1>3, NotAnswering DEF Answering
      <3>2. log \in Seq(Message)
        BY LogMessages DEF AllInv, OrderInv
      <3>3. QED
        BY <1>1, <1>2, <3>1, <3>2 DEF Stored
    <2>3. ~Answering(r)'
      BY <2>1, <2>2 DEF Answering
    <2>4. QED
      BY <2>1, <2>3 DEF CompleteOK
  <1>8. QED
    BY <1>4, <1>6, <1>7 DEF CompleteInv

LEMMA StoreComplete ==
    ASSUME AllInv, NEW r \in Requests, Store(r)
    PROVE  CompleteInv' /\ AnswerComplete'
  <1> DEFINE b == batch[r]
             m == Head(batch[r])
             t == Tail(batch[r])
  <1>1. /\ batch \in [Requests -> Seq(Message)] /\ b \in Seq(Message) /\ b # << >>
        /\ holes \in [Requests -> BOOLEAN]
        /\ m = b[1] /\ 1 \in 1..Len(b) /\ m \in Message /\ m.req = r
    BY Batches, OwnedTail DEF AllInv, OrderInv, TypeOK, Store
  <1>2. /\ batch' = [batch EXCEPT ![r] = t]
        /\ UNCHANGED <<pc, work, late>>
        /\ Stored(r, m)
        /\ pc[r] = "store" => log' = Append(log, m) \/ holes'[r]
    <2>1. CASE pc[r] # "store" /\ UNCHANGED <<log, backend>>
      BY <2>1 DEF Store, Stored, backend
    <2>2. CASE Push(r, m)
      <3>1. log' = Append(log, m) \/ holes'[r]
        BY <1>1, <2>2 DEF Push
      <3>2. QED
        BY <2>2, <3>1, PushStored DEF Store
    <2>3. QED
      BY <2>1, <2>2 DEF Store
  <1>3. /\ Len(t) = Len(b) - 1 /\ Len(b) \in Nat
        /\ \A k \in 1..Len(t) : k + 1 \in 1..Len(b) /\ t[k] = b[k + 1]
        /\ \A k \in 2..Len(b) : k - 1 \in 1..Len(t) /\ b[k] = t[k - 1]
    BY <1>1
  <1>4. BatchOK(r, b, log, holes[r]) /\ CompleteOK(r)
    BY <1>1 DEF AllInv, OrderInv, BatchInv, CompleteInv
  <1> HIDE DEF b, m, t
  <1>5. AnswerComplete'
    <2>1. ASSUME m.kind = "answer", ~late[r], ~holes[r],
                 NEW s \in Specialists, NEW n \in 1..Len(Steps),
                 work[r][s] # "off"
          PROVE  Has(log, Step(r, s, n))
      <3>1. Len(b) = 1
        BY <1>1, <1>3, <1>4, <2>1 DEF BatchOK
      <3>2. Has(log, Step(r, s, n)) \/ Has(b, Step(r, s, n))
        BY <1>1, <1>4, <2>1 DEF CompleteOK, b
      <3>3. Step(r, s, n).kind # "answer"
        BY StepIsStep, StepKind
      <3>4. QED
        BY <1>1, <2>1, <3>1, <3>2, <3>3 DEF Has
    <2>2. QED
      BY <1>1, <1>2, <2>1, PushComplete
  <1>6. ASSUME NEW x \in Requests \ {r} PROVE CompleteOK(x)'
    <2>1. holes'[x] = holes[x] /\ batch'[x] = batch[x]
      BY <1>1, <1>2 DEF Stored
    <2>2. r \in Requests \ {x}
      OBVIOUS
    <2>3. QED
      BY <1>1, <1>2, <2>1, <2>2, OtherComplete
  <1>7. CompleteOK(r)'
    <2>1. batch'[r] = t
      BY <1>1, <1>2
    <2>2. log \in Seq(Message) /\ Len(log) \in Nat
      BY LogMessages DEF AllInv, OrderInv
    <2>3. /\ \A i \in 1..Len(log') : \/ i \in 1..Len(log) /\ log'[i] = log[i]
                                     \/ log'[i] = m
          /\ \A y : Has(log, y) => Has(log', y)
      <3>1. CASE log' = log
        BY <3>1
      <3>2. CASE log' = Append(log, m)
        BY <2>2, <3>2 DEF Has
      <3>3. QED
        BY <1>2, <3>1, <3>2 DEF Stored
    <2>4. Answering(r)' => Answering(r)
      BY <1>1, <1>3, <2>1, <2>3 DEF Answering, b
    <2>5. ASSUME NEW k \in 1..Len(t), t[k].kind = "answer"
          PROVE  /\ pc[r] = "store"
                 /\ ~late[r] /\ ~holes'[r] =>
                       \A s \in Specialists, n \in 1..Len(Steps) :
                           work[r][s] # "off" =>
                               Has(log', Step(r, s, n)) \/ Has(t, Step(r, s, n))
      <3>1. /\ pc[r] = "store"
            /\ ~late[r] /\ ~holes[r] =>
                  \A s \in Specialists, n \in 1..Len(Steps) :
                      work[r][s] # "off" =>
                          Has(log, Step(r, s, n)) \/ Has(b, Step(r, s, n))
        BY <1>3, <1>4, <2>5 DEF CompleteOK, b
      <3>2. holes[r] => holes'[r]
        BY <1>1, <1>2 DEF Stored
      <3>3. ASSUME NEW y, Has(b, y), ~holes'[r]
            PROVE  Has(log', y) \/ Has(t, y)
        <4>1. PICK j \in 1..Len(b) : b[j] = y
          BY <3>3 DEF Has
        <4>2. CASE j = 1
          <5>1. log' = Append(log, m) /\ m = y
            BY <1>1, <1>2, <3>1, <3>3, <4>1, <4>2
          <5>2. Len(log') \in 1..Len(log') /\ log'[Len(log')] = y
            BY <1>1, <2>2, <5>1
          <5>3. QED
            BY <5>2 DEF Has
        <4>3. CASE j # 1
          BY <1>3, <4>1, <4>3 DEF Has
        <4>4. QED
          BY <4>2, <4>3
      <3>4. QED
        BY <2>3, <3>1, <3>2, <3>3
    <2>6. QED
      BY <1>2, <1>4, <2>1, <2>4, <2>5 DEF CompleteOK
  <1>8. QED
    BY <1>5, <1>6, <1>7 DEF CompleteInv

LEMMA FinishComplete ==
    ASSUME AllInv, NEW r \in Requests,
           FinishInterrupt(r) \/ FinishStreamInterrupt(r) \/ FinishReply(r)
           \/ StopWaiting(r),
           late' \in [Requests -> BOOLEAN]
    PROVE  CompleteInv' /\ AnswerComplete'
  <1>1. pc[r] \in {"run", "wait"}
    BY DEF FinishInterrupt, FinishStreamInterrupt, FinishReply, StopWaiting
  <1>2. OrderInv /\ late \in [Requests -> BOOLEAN] /\ collector[r] \in Seq(Message)
    BY DEF AllInv, OrderInv, TypeOK
  <1>3. CASE FinishInterrupt(r) \/ FinishStreamInterrupt(r)
    <2>1. /\ late' = late
          /\ \E step \in Storing : \/ Stores(r, step, << >>)
                                   \/ Stores(r, step, InterruptMessages(r))
      BY <1>3 DEF FinishInterrupt, FinishStreamInterrupt, Storing
    <2>2. \A k \in 1..Len(InterruptMessages(r)) :
              InterruptMessages(r)[k].kind # "answer"
      BY <1>2, CollectedNoAnswer
    <2>3. \A k \in 1..Len(<< >>) : FALSE
      OBVIOUS
    <2>4. CASE \E step \in Storing : Stores(r, step, << >>)
      BY <1>1, <2>1, <2>3, <2>4, StoresComplete
    <2>5. CASE \E step \in Storing : Stores(r, step, InterruptMessages(r))
      BY <1>1, <2>1, <2>2, <2>5, StoresComplete
    <2>6. QED
      BY <2>1, <2>4, <2>5
  <1>4. CASE FinishReply(r)
    <2> DEFINE e == <<Said(r, "answer")>>
               b == collector[r] \o e
    <2>1. /\ late' = late /\ Ends(r, e)
          /\ Stores(r, "store", Append(collector[r], Said(r, "answer")))
      BY <1>4 DEF FinishReply, Ends
    <2>2. Stores(r, "store", b)
      <3>1. Append(collector[r], Said(r, "answer")) = b
        BY <1>2, SaidMessage
      <3>2. QED
        BY <2>1, <3>1
    <2>3. \A s \in Specialists : work[r][s] \in {"off", "done"}
      <3>1. \A s \in Specialists : work[r][s] \in {"off", "done"}
        BY <1>4 DEF FinishReply
      <3>2. QED
        BY <3>1
    <2> HIDE DEF e
    <2>4. \A s \in Specialists, n \in 1..Len(Steps) :
              work[r][s] # "off" => Has(b, Step(r, s, n))
      BY <1>2, <2>1, <2>3, AllCollected
    <2> HIDE DEF b
    <2>5. QED
      BY <1>1, <2>1, <2>2, <2>3, <2>4, StoresComplete DEF Storing
  <1>5. CASE StopWaiting(r)
    <2> DEFINE e == Endings(r)
               b == collector[r] \o e
    <2>1. /\ late' = [late EXCEPT ![r] = Pending(r)] /\ Ends(r, e)
          /\ Stores(r, "store", b) /\ pc[r] = "wait"
      BY <1>5 DEF StopWaiting, Endings, Ends
    <2>2. late'[r] = Pending(r)
      BY <1>2, <2>1
    <2>3. ASSUME ~late'[r]
          PROVE  \A s \in Specialists : work[r][s] \in {"off", "done"}
      <3>1. \A s \in Specialists : work[r][s] # "collected"
        BY <2>2, <2>3 DEF Pending
      <3>2. \A s \in Specialists : work[r][s] \in {"off", "collected", "done"}
        BY <2>1 DEF AllInv, CompleteInv, CompleteOK
      <3>3. QED
        BY <3>1, <3>2
    <2> HIDE DEF e
    <2>4. ASSUME ~late'[r]
          PROVE  \A s \in Specialists, n \in 1..Len(Steps) :
                     work[r][s] # "off" => Has(b, Step(r, s, n))
      BY <1>2, <2>1, <2>3, <2>4, AllCollected
    <2>5. \A x \in Requests \ {r} : late'[x] = late[x]
      BY <1>2, <2>1
    <2> HIDE DEF b
    <2>6. QED
      BY <1>1, <2>1, <2>3, <2>4, <2>5, StoresComplete DEF Storing
  <1>6. QED
    BY <1>3, <1>4, <1>5

LEMMA CrashComplete ==
    ASSUME AllInv, Crash PROVE CompleteInv' /\ AnswerComplete'
  <1>1. /\ \A r \in Requests : /\ batch'[r] = << >>
                               /\ pc'[r] \in {"idle", "over"}
        /\ UNCHANGED <<late, holes>>
        /\ log' = log \/ log' = << >>
        /\ \A r \in Requests, s \in Specialists :
              \/ work'[r][s] = work[r][s]
              \/ /\ work[r][s] \in {"running", "collected", "interrupted"}
                 /\ work'[r][s] = "failed"
    BY DEF Crash
  <1>2. CASE log' = << >>
    <2>1. \A r \in Requests : ~Answering(r)'
      BY <1>1, <1>2 DEF Answering
    <2>2. QED
      BY <1>1, <1>2, <2>1 DEF CompleteInv, CompleteOK, AnswerComplete
  <1>3. CASE log' = log
    <2>1. \A r \in Requests : Answering(r)' => Answering(r)
      BY <1>1, <1>3 DEF Answering
    <2>2. ASSUME NEW r \in Requests PROVE CompleteOK(r)'
      <3>1. CompleteOK(r)
        BY DEF AllInv, CompleteInv
      <3>2. QED
        BY <1>1, <2>1, <3>1 DEF CompleteOK
    <2>3. AnswerComplete'
      <3>1. ASSUME NEW i \in 1..Len(log), log[i].kind = "answer",
                   ~late[log[i].req], ~holes[log[i].req],
                   NEW s \in Specialists, NEW n \in 1..Len(Steps),
                   work'[log[i].req][s] # "off"
            PROVE  \E j \in 1..(i - 1) : log[j] = Step(log[i].req, s, n)
        <4>1. log[i].req \in Requests
          BY LogMessages DEF AllInv, OrderInv
        <4>2. work[log[i].req][s] # "off"
          BY <1>1, <3>1, <4>1
        <4>3. QED
          BY <3>1, <4>2 DEF AllInv, AnswerComplete
      <3>2. QED
        BY <1>1, <1>3, <3>1 DEF AnswerComplete
    <2>4. QED
      BY <2>2, <2>3 DEF CompleteInv
  <1>4. QED
    BY <1>1, <1>2, <1>3

LEMMA InitAllInv == Init => AllInv
  <1>1. SUFFICES ASSUME Init PROVE AllInv
    OBVIOUS
  <1>2. /\ log = << >> /\ batch = [r \in Requests |-> << >>]
        /\ pc = [r \in Requests |-> "idle"]
    BY <1>1 DEF Init
  <1>3. CompleteInv /\ AnswerComplete
    BY <1>2 DEF CompleteInv, CompleteOK, Answering, AnswerComplete
  <1>4. QED
    BY <1>1, <1>3, InitOrderInv DEF AllInv

LEMMA NextAllInv == AllInv /\ [Next]_vars => AllInv'
  <1>1. SUFFICES ASSUME AllInv, [Next]_vars
                 PROVE  CompleteInv' /\ AnswerComplete'
    BY NextOrderInv DEF AllInv
  <1>2. /\ pc \in [Requests -> {"idle", "ask", "own", "run", "wait", "tell", "over"}
                               \union Storing]
        /\ work \in [Requests -> [Specialists -> Work]]
        /\ late' \in [Requests -> BOOLEAN]
    BY <1>1, NextTypeOK DEF AllInv, OrderInv, TypeOK
  <1>3. ASSUME NEW r \in Requests,
               \/ Load(r) \/ LoadFails(r) \/ SetOwner(r) \/ Decide(r)
               \/ FinishError(r) \/ FinishStream(r) \/ Tell(r) \/ TellNothing(r)
        PROVE  CompleteInv' /\ AnswerComplete'
    <2>1. UNCHANGED <<log, batch, late, holes, work>>
      BY <1>3 DEF Load, LoadFails, SetOwner, Decide, FinishError, FinishStream,
                  Tell, TellNothing, backend
    <2>2. \E step : /\ pc' = [pc EXCEPT ![r] = step]
                    /\ pc[r] = "store" => batch[r] = << >>
                    /\ step = "wait" =>
                          \A s \in Specialists :
                              work[r][s] \in {"off", "collected", "done"}
      BY <1>3 DEF Load, LoadFails, SetOwner, Decide, FinishError, FinishStream,
                  Tell, TellNothing, Goto
    <2>3. ASSUME NEW x \in Requests
          PROVE  /\ pc'[x] = "wait" =>
                       \A s \in Specialists :
                           work[x][s] \in {"off", "collected", "done"}
                 /\ pc[x] = "store" /\ batch[x] # << >> => pc'[x] = "store"
      BY <1>1, <1>2, <2>2 DEF AllInv, CompleteInv, CompleteOK
    <2>4. QED
      BY <1>1, <2>1, <2>3, QuietComplete
  <1>4. ASSUME NEW r \in Requests, NEW s \in Specialists,
               Route(r, s) \/ Fail(r, s) \/ Interrupt(r, s) \/ Return(r, s)
        PROVE  CompleteInv' /\ AnswerComplete'
    <2>1. /\ pc[r] = "run" /\ UNCHANGED <<log, batch, late, holes, pc>>
          /\ \E to : work' = [work EXCEPT ![r][s] = to]
      BY <1>4 DEF Route, Fail, Interrupt, Return, Works, backend
    <2>2. \A x \in Requests \ {r} : work'[x] = work[x]
      BY <1>2, <2>1
    <2>3. ~Answering(r)
      BY <1>1, <2>1, NotAnswering
    <2>4. QED
      BY <1>1, <2>1, <2>2, <2>3, WorkComplete
  <1>5. ASSUME NEW r \in Requests, NEW s \in Specialists, Collect(r, s)
        PROVE  CompleteInv' /\ AnswerComplete'
    <2>1. /\ UNCHANGED <<log, batch, late, holes, pc>>
          /\ work[r][s] = "collected"
          /\ \E to \in {"collected", "done"} : work' = [work EXCEPT ![r][s] = to]
      BY <1>2, <1>5 DEF Collect, backend
    <2>2. \A x \in Requests \ {r} : work'[x] = work[x]
      BY <1>2, <2>1
    <2>3. Answering(r) => late[r]
      BY <1>1, <2>1 DEF AllInv, CompleteInv, CompleteOK
    <2>4. pc[r] = "wait" => \A y \in Specialists :
                                work'[r][y] \in {"off", "collected", "done"}
      BY <1>1, <1>2, <2>1 DEF AllInv, CompleteInv, CompleteOK
    <2>5. QED
      BY <1>1, <2>1, <2>2, <2>3, <2>4, WorkComplete
  <1>6. CASE UNCHANGED vars
    <2>1. UNCHANGED <<log, batch, late, holes, work, pc>>
      BY <1>6 DEF vars, backend
    <2>2. \A r \in Requests :
              pc[r] = "wait" => \A s \in Specialists :
                                    work[r][s] \in {"off", "collected", "done"}
      BY <1>1 DEF AllInv, CompleteInv, CompleteOK
    <2>3. QED
      BY <1>1, <2>1, <2>2, QuietComplete
  <1>7. QED
    BY <1>1, <1>2, <1>3, <1>4, <1>5, <1>6, AskComplete, StoreComplete,
       FinishComplete, CrashComplete
    DEF Next, Handle, Specialist

\* An answer that was not stored in impatience comes after everything that was
\* said for it, as far as it could be stored.
THEOREM AnswerCompleteAlways == Spec => []AnswerComplete
  <1>1. AllInv => AnswerComplete
    BY DEF AllInv
  <1>2. QED
    BY <1>1, InitAllInv, NextAllInv, PTL DEF Spec

-----------------------------------------------------------------------------

\* A non-empty set of numbers has a least.
LEMMA Least ==
    ASSUME NEW T, T \subseteq Nat, T # {}
    PROVE  \E x \in T : \A y \in T : x <= y
  <1> DEFINE R == OpToRel(<, Nat)
  <1>1. IsWellFoundedOn(R, Nat)
    BY NatLessThanWellFounded
  <1>2. \A x, y \in Nat : x < y => <<x, y>> \in R
    BY DEF OpToRel
  <1> HIDE DEF R
  <1>3. PICK x \in T : \A y \in T : ~(<<y, x>> \in R)
    BY <1>1, WFMin
  <1>4. ASSUME NEW y \in T PROVE x <= y
    <2>1. x \in Nat /\ y \in Nat /\ <<y, x>> \notin R
      BY <1>3
    <2>2. ~(y < x)
      BY <1>2, <2>1
    <2>3. QED
      BY <2>1, <2>2
  <1>5. QED
    BY <1>4

-----------------------------------------------------------------------------
(* A user alone in the thread reads question and answer.                   *)

\* What a request has loaded comes before all it stores.
SeenInv == \A i \in 1..Len(log) : seen[log[i].req] < i

\* A chat that has loaded the history stores its question before anything else.
Loaded(r) == prior[r] # {} /\ ~holes[r]

QuestionInv ==
    \A r \in Requests :
        /\ pc[r] = "idle" => prior[r] = {}
        /\ Loaded(r) /\ pc[r] \notin {"idle", "ask", "over"} =>
              Has(log, Said(r, "question"))
        /\ \A i \in 1..Len(log) : Loaded(r) /\ log[i].req = r =>
              \E k \in 1..i : log[k] = Said(r, "question")

TellsInv == OrderInv /\ SeesInv /\ SeenInv /\ QuestionInv

\* Nothing is loaded or stored.
LEMMA QuietTells ==
    ASSUME TellsInv, UNCHANGED <<log, seen, prior, holes>>,
           \A r \in Requests :
               /\ pc'[r] = "idle" => pc[r] = "idle"
               /\ pc'[r] \notin {"idle", "ask", "over"} =>
                     pc[r] \notin {"ask", "over"}
    PROVE  SeenInv' /\ QuestionInv'
  <1>1. SeenInv'
    BY DEF TellsInv, SeenInv
  <1>2. ASSUME NEW r \in Requests
        PROVE  /\ pc'[r] = "idle" => prior'[r] = {}
               /\ Loaded(r)' /\ pc'[r] \notin {"idle", "ask", "over"} =>
                     Has(log', Said(r, "question"))
               /\ \A i \in 1..Len(log') : Loaded(r)' /\ log'[i].req = r =>
                     \E k \in 1..i : log'[k] = Said(r, "question")
    <2>1. Loaded(r)' = Loaded(r)
      BY DEF Loaded
    <2>2. Loaded(r) => pc[r] # "idle"
      BY DEF TellsInv, QuestionInv, Loaded
    <2>3. QED
      BY <2>1, <2>2 DEF TellsInv, QuestionInv
  <1>3. QED
    BY <1>1, <1>2 DEF QuestionInv

\* A message is stored for r, which has its question there, or this is it.
LEMMA StoredTells ==
    ASSUME TellsInv, NEW r \in Requests, NEW m \in Message, m.req = r,
           Stored(r, m), UNCHANGED <<seen, prior>>,
           \A x \in Requests : pc'[x] = "idle" => pc[x] = "idle",
           \A x \in Requests \ {r} : pc'[x] = pc[x],
           \/ Loaded(r) => Has(log, Said(r, "question"))
           \/ m = Said(r, "question") /\ (log' = log => holes'[r])
    PROVE  SeenInv' /\ QuestionInv'
  <1>1. /\ log \in Seq(Message) /\ Len(log) \in Nat
        /\ holes \in [Requests -> BOOLEAN] /\ seen \in [Requests -> 0..Len(log)]
    BY DEF TellsInv, OrderInv, TypeOK
  <1>2. /\ Len(log') \in Nat /\ Len(log) <= Len(log')
        /\ \A i \in 1..Len(log) : log'[i] = log[i]
        /\ \A i \in 1..Len(log') : \/ i \in 1..Len(log)
                                   \/ i = Len(log) + 1 /\ log'[i] = m
    <2>1. CASE log' = log
      BY <1>1, <2>1
    <2>2. CASE log' = Append(log, m)
      BY <1>1, <2>2
    <2>3. QED
      BY <2>1, <2>2 DEF Stored
  <1>3. \A x \in Requests : ~holes'[x] => ~holes[x]
    BY <1>1 DEF Stored
  <1>4. \A x \in Requests : Loaded(x)' => Loaded(x)
    BY <1>3 DEF Loaded
  <1>5. SeenInv'
    <2>1. ASSUME NEW i \in 1..Len(log') PROVE seen[log'[i].req] < i
      <3>1. CASE i \in 1..Len(log)
        BY <1>2, <3>1 DEF TellsInv, SeenInv
      <3>2. CASE i = Len(log) + 1 /\ log'[i] = m
        BY <1>1, <3>2
      <3>3. QED
        BY <1>2, <2>1, <3>1, <3>2
    <2>2. QED
      BY <2>1 DEF SeenInv
  <1>6. ASSUME Loaded(r)' PROVE Has(log', Said(r, "question"))
    <2>1. CASE Has(log, Said(r, "question"))
      BY <1>1, <1>2, <2>1 DEF Has
    <2>2. CASE m = Said(r, "question") /\ (log' = log => holes'[r])
      <3>1. log' = Append(log, m)
        <4>0. ~holes'[r]
          BY <1>6 DEF Loaded
        <4>1. log' # log
          BY <2>2, <4>0
        <4>2. QED
          BY <4>1 DEF Stored
      <3>2. Len(log) + 1 \in 1..Len(log') /\ log'[Len(log) + 1] = m
        BY <1>1, <3>1
      <3>3. QED
        BY <2>2, <3>2 DEF Has
    <2>3. QED
      BY <1>4, <1>6, <2>1, <2>2
  <1>7. ASSUME NEW x \in Requests, NEW i \in 1..Len(log'), Loaded(x)',
               log'[i].req = x
        PROVE  \E k \in 1..i : log'[k] = Said(x, "question")
    <2>1. CASE i \in 1..Len(log)
      <3>1. PICK k \in 1..i : log[k] = Said(x, "question")
        BY <1>2, <1>4, <1>7, <2>1 DEF TellsInv, QuestionInv
      <3>2. k \in 1..Len(log)
        BY <1>1, <2>1, <3>1
      <3>3. log'[k] = log[k]
        BY <1>2, <3>2
      <3>4. QED
        BY <3>1, <3>3
    <2>2. CASE i = Len(log) + 1 /\ log'[i] = m
      <3>1. PICK k \in 1..Len(log') : log'[k] = Said(r, "question")
        BY <1>6, <1>7, <2>2 DEF Has
      <3>2. Len(log') = i
        BY <1>1, <1>2, <2>2
      <3>3. QED
        BY <1>7, <2>2, <3>1, <3>2
    <2>3. QED
      BY <1>2, <1>7, <2>1, <2>2
  <1>8. ASSUME NEW x \in Requests
        PROVE  /\ pc'[x] = "idle" => prior'[x] = {}
               /\ Loaded(x)' /\ pc'[x] \notin {"idle", "ask", "over"} =>
                     Has(log', Said(x, "question"))
    <2>1. pc'[x] = "idle" => prior'[x] = {}
      BY DEF TellsInv, QuestionInv
    <2>2. CASE x = r
      BY <1>6, <2>1, <2>2
    <2>3. CASE x # r
      <3>1. Has(log, Said(x, "question")) => Has(log', Said(x, "question"))
        BY <1>1, <1>2 DEF Has
      <3>2. QED
        BY <1>4, <2>1, <2>3, <3>1 DEF TellsInv, QuestionInv
    <2>4. QED
      BY <2>2, <2>3
  <1>9. QED
    BY <1>5, <1>7, <1>8 DEF QuestionInv

LEMMA InitTellsInv == Init => TellsInv
  <1>1. SUFFICES ASSUME Init PROVE TellsInv
    OBVIOUS
  <1>2. log = << >> /\ prior = [r \in Requests |-> {}]
    BY <1>1 DEF Init
  <1>3. SeenInv /\ QuestionInv
    BY <1>2 DEF SeenInv, QuestionInv, Loaded
  <1>4. QED
    BY <1>1, <1>3, InitOrderInv, InitSeesInv DEF TellsInv

LEMMA NextTellsInv == TellsInv /\ [Next]_vars => TellsInv'
  <1>1. SUFFICES ASSUME TellsInv, [Next]_vars PROVE SeenInv' /\ QuestionInv'
    BY NextOrderInv, NextSeesInv DEF TellsInv
  <1>2. /\ pc \in [Requests -> {"idle", "ask", "own", "run", "wait", "tell", "over"}
                               \union Storing]
        /\ log \in Seq(Message) /\ Len(log) \in Nat
        /\ seen \in [Requests -> 0..Len(log)]
        /\ prior \in [Requests -> SUBSET Requests]
        /\ holes \in [Requests -> BOOLEAN]
    BY <1>1 DEF TellsInv, OrderInv, TypeOK
  <1>3. CASE UNCHANGED <<log, seen, prior, holes, pc>>
    BY <1>1, <1>3, QuietTells
  <1>4. ASSUME NEW r \in Requests, Load(r) PROVE SeenInv' /\ QuestionInv'
    <2>1. /\ pc[r] = "idle" /\ pc' = [pc EXCEPT ![r] = "ask"]
          /\ seen' = [seen EXCEPT ![r] = Len(log)]
          /\ prior' = [prior EXCEPT ![r] = Finished]
          /\ UNCHANGED <<log, holes>>
      BY <1>4 DEF Load, Goto, backend
    <2>2. \A i \in 1..Len(log) : log[i].req # r
      BY <1>1, <2>1 DEF TellsInv, OrderInv, LogInv, Begun
    <2>3. /\ pc'[r] = "ask"
          /\ \A x \in Requests \ {r} : /\ seen'[x] = seen[x] /\ prior'[x] = prior[x]
                                       /\ pc'[x] = pc[x]
      BY <1>2, <2>1
    <2>4. SeenInv'
      <3>1. \A i \in 1..Len(log) : log[i].req \in Requests \ {r}
        BY <1>1, <2>2, LogMessages DEF TellsInv, OrderInv
      <3>2. QED
        BY <1>1, <2>1, <2>3, <3>1 DEF TellsInv, SeenInv
    <2>5. QuestionInv'
      BY <1>1, <2>1, <2>2, <2>3 DEF TellsInv, QuestionInv, Loaded
    <2>6. QED
      BY <2>4, <2>5
  <1>5. ASSUME NEW r \in Requests, Ask(r) PROVE SeenInv' /\ QuestionInv'
    <2> DEFINE m == Said(r, "question")
    <2>1. m \in Message /\ m.req = r
      BY SaidMessage
    <2>2. /\ Stored(r, m) /\ UNCHANGED <<seen, prior>>
          /\ pc' = [pc EXCEPT ![r] = "own"]
      BY <1>5, PushStored DEF Ask, Goto
    <2>3. log' = log => holes'[r]
      BY <1>2, <1>5, <2>1 DEF Ask, Push
    <2> HIDE DEF m
    <2>4. /\ \A x \in Requests : pc'[x] = "idle" => pc[x] = "idle"
          /\ \A x \in Requests \ {r} : pc'[x] = pc[x]
      BY <1>2, <2>2
    <2>5. QED
      BY <1>1, <2>1, <2>2, <2>3, <2>4, StoredTells DEF m
  <1>6. ASSUME NEW r \in Requests, Store(r) PROVE SeenInv' /\ QuestionInv'
    <2> DEFINE m == Head(batch[r])
    <2>1. m \in Message /\ m.req = r
      BY <1>1, <1>6, Batches, OwnedTail DEF TellsInv, OrderInv, Store
    <2>2. /\ Stored(r, m) /\ UNCHANGED <<seen, prior, pc>> /\ pc[r] \in Storing
      <3>1. CASE UNCHANGED <<log, backend>>
        BY <1>6, <3>1 DEF Store, Stored, backend
      <3>2. CASE Push(r, m)
        BY <1>6, <3>2, PushStored DEF Store
      <3>3. QED
        BY <1>6, <3>1, <3>2 DEF Store
    <2> HIDE DEF m
    <2>3. Loaded(r) => Has(log, Said(r, "question"))
      BY <1>1, <2>2 DEF TellsInv, QuestionInv, Storing
    <2>4. QED
      BY <1>1, <2>1, <2>2, <2>3, StoredTells
  <1>7. ASSUME NEW r \in Requests,
               \/ LoadFails(r) \/ SetOwner(r) \/ Decide(r) \/ FinishError(r)
               \/ FinishInterrupt(r) \/ FinishStreamInterrupt(r)
               \/ FinishReply(r) \/ FinishStream(r) \/ StopWaiting(r)
               \/ Tell(r) \/ TellNothing(r)
        PROVE  SeenInv' /\ QuestionInv'
    <2>1. UNCHANGED <<log, seen, prior, holes>>
      BY <1>7 DEF LoadFails, SetOwner, Decide, FinishError, FinishInterrupt,
                  FinishStreamInterrupt, FinishReply, FinishStream, StopWaiting,
                  Tell, TellNothing, Stores, backend
    <2>2. \E step : /\ pc' = [pc EXCEPT ![r] = step] /\ step # "idle"
                    /\ pc[r] \in {"ask", "over"} => step \in {"ask", "over"}
      BY <1>7 DEF LoadFails, SetOwner, Decide, FinishError, FinishInterrupt,
                  FinishStreamInterrupt, FinishReply, FinishStream, StopWaiting,
                  Tell, TellNothing, Stores, Goto, Storing
    <2>3. \A x \in Requests :
              /\ pc'[x] = "idle" => pc[x] = "idle"
              /\ pc'[x] \notin {"idle", "ask", "over"} => pc[x] \notin {"ask", "over"}
      BY <1>2, <2>2
    <2>4. QED
      BY <1>1, <2>1, <2>3, QuietTells
  <1>8. ASSUME NEW r \in Requests, NEW s \in Specialists, Specialist(r, s)
        PROVE  SeenInv' /\ QuestionInv'
    <2>1. UNCHANGED <<log, seen, prior, holes, pc>>
      BY <1>8 DEF Specialist, Route, Fail, Interrupt, Return, Collect, backend
    <2>2. QED
      BY <1>3, <2>1
  <1>9. CASE Crash
    <2>1. /\ \A r \in Requests : /\ pc'[r] \in {"idle", "over"}
                                 /\ pc'[r] = "idle" => pc[r] = "idle"
          /\ holes' = holes
          /\ \/ UNCHANGED <<log, seen, prior>>
             \/ log' = << >> /\ prior' = [r \in Requests |-> {}]
      BY <1>9 DEF Crash
    <2>2. CASE UNCHANGED <<log, seen, prior>>
      BY <1>1, <2>1, <2>2, QuietTells
    <2>3. CASE log' = << >> /\ prior' = [r \in Requests |-> {}]
      BY <2>1, <2>3 DEF SeenInv, QuestionInv, Loaded
    <2>4. QED
      BY <2>1, <2>2, <2>3
  <1>10. CASE UNCHANGED vars
    BY <1>3, <1>10 DEF vars, backend
  <1>11. QED
    BY <1>1, <1>4, <1>5, <1>6, <1>7, <1>8, <1>9, <1>10 DEF Next, Handle

-----------------------------------------------------------------------------
\* Of a request that is alone nothing of another stands between its messages,
\* and what follows the last of them comes after a question.
LEMMA AloneBetween ==
    ASSUME TellsInv, NEW i \in 1..Len(log), NEW j \in 1..Len(log),
           log[i].req = log[j].req, Alone(log[i].req),
           \A r \in Requests : ~holes[r],
           NEW k \in 1..Len(log), i < k, log[k].req # log[i].req
    PROVE  /\ j < k
           /\ \E q \in 1..k : /\ log[q] = Said(log[k].req, "question")
                              /\ j < q
  <1> DEFINE r == log[i].req
             x == log[k].req
  <1>1. r \in Requests /\ x \in Requests /\ x # r /\ Len(log) \in Nat
    BY LogMessages DEF TellsInv, OrderInv
  <1>2. seen[r] \in Nat /\ seen[x] \in Nat /\ seen[r] < i
    <2>1. seen \in [Requests -> 0..Len(log)]
      BY DEF TellsInv, OrderInv, TypeOK
    <2>2. seen[r] < i
      BY DEF TellsInv, SeenInv
    <2>3. QED
      BY <1>1, <2>1, <2>2
  <1>3. pc[x] # "idle"
    <2>1. Begun(x)
      BY <1>1 DEF TellsInv, OrderInv, LogInv
    <2>2. QED
      BY <2>1 DEF Begun
  <1>4. CASE x \in prior[r] /\ ~early[x]
    <2>1. k <= seen[r]
      BY <1>1, <1>4 DEF TellsInv, SeesInv, NextChatSeesAll
    <2>2. QED
      BY <1>1, <1>2, <2>1
  <1>5. CASE r \in prior[x] /\ ~early[r]
    <2>1. j <= seen[x]
      BY <1>1, <1>5 DEF TellsInv, SeesInv, NextChatSeesAll
    <2>2. PICK q \in 1..k : log[q] = Said(x, "question")
      BY <1>1, <1>5 DEF TellsInv, QuestionInv, Loaded
    <2>3. q \in 1..Len(log) /\ log[q].req = x
      BY <1>1, <2>2 DEF Said
    <2>4. seen[x] < q /\ seen[x] < k
      BY <2>3 DEF TellsInv, SeenInv
    <2>5. QED
      BY <1>1, <1>2, <2>1, <2>2, <2>4
  <1>6. \/ x \in prior[r] /\ ~early[x]
        \/ r \in prior[x] /\ ~early[r]
    <2>1. Alone(r)
      OBVIOUS
    <2>2. x \in Requests \ {r}
      BY <1>1
    <2> HIDE DEF r, x
    <2>3. QED
      BY <1>3, <2>1, <2>2 DEF Alone
  <1>7. QED
    BY <1>4, <1>5, <1>6

\* What directly follows a question does not take its place, and takes the place
\* of what it follows only if both are of the assistant.
LEMMA NextVisible ==
    ASSUME NEW V, V \subseteq Nat, NEW k \in V, NEW q \in V, k < q
    PROVE  \E n \in V : k < n /\ n <= q /\ \A y \in V : y <= k \/ y >= n
  <1> DEFINE T == {y \in V : k < y}
  <1>1. T \subseteq Nat /\ T # {}
    OBVIOUS
  <1>2. PICK n \in T : \A y \in T : n <= y
    BY <1>1, Least
  <1>3. n <= q
    BY <1>2
  <1>4. ASSUME NEW y \in V PROVE y <= k \/ y >= n
    <2>1. y \in Nat /\ k \in Nat /\ n \in Nat
      OBVIOUS
    <2>2. CASE k < y
      BY <1>2, <2>2
    <2>3. QED
      BY <2>1, <2>2
  <1>5. QED
    BY <1>2, <1>3, <1>4

LEMMA TellsAll == TellsInv => HistoryTells
  <1>1. SUFFICES ASSUME TellsInv,
                        NEW kinds \in {Speaking, Speaking \union {"call"}},
                        NEW i \in 1..Len(log), NEW j \in 1..Len(log),
                        log[i].req = log[j].req, Alone(log[i].req),
                        \A r \in Requests : ~holes[r],
                        log[i].kind = "question", log[j].kind = "answer"
                 PROVE  /\ {i, j} \subseteq Shown(kinds)
                        /\ \A k \in Shown(kinds) : k <= i \/ k >= j
    BY DEF HistoryTells
  <1> DEFINE V == Visible(kinds)
             r == log[i].req
  <1>2. /\ \A k \in V : k \in 1..Len(log) /\ k \in Nat
        /\ V \subseteq Nat /\ V \subseteq 1..Len(log)
        /\ \A k \in 1..Len(log) : log[k].kind = "question" => k \in V
        /\ i \in V /\ j \in V /\ Len(log) \in Nat
    BY <1>1, LogMessages DEF Visible, Speaking, TellsInv, OrderInv
  <1>3. \A k \in 1..Len(log) : k < i => log[k].req # r
    BY <1>1, <1>2 DEF TellsInv, OrderInv, StoredInOrder
  <1>4. \A k \in 1..Len(log) : k > j => log[k].req # r
    BY <1>1, <1>2 DEF TellsInv, OrderInv, StoredInOrder
  <1>5. i < j
    BY <1>1, <1>2, <1>3
  <1>6. ASSUME NEW k \in V, i < k, k <= j
        PROVE  log[k].req = r /\ log[k].kind # "question"
    <2>1. log[k].req = r
      BY <1>1, <1>2, <1>6, AloneBetween
    <2>2. log[k].kind = "question" => log[i].req # log[k].req
      <3>1. StoredInOrder
        BY <1>1 DEF TellsInv, OrderInv
      <3>2. k \in 1..Len(log) /\ i \in 1..k - 1
        BY <1>2, <1>6
      <3>3. QED
        BY <3>1, <3>2 DEF StoredInOrder
    <2>3. QED
      BY <2>1, <2>2
  <1> HIDE DEF V, r
  <1>7. \A n, m \in V : /\ m < n /\ \A y \in V : y <= m \/ y >= n
                       => (Continues(n, V) <=> log[m].kind # "question")
    BY <1>2 DEF Continues
  <1>8. i \in Shown(kinds)
    <2>1. ASSUME NEW n \in V, n > i, \A y \in V : y <= i \/ y >= n,
                 Continues(n, V)
          PROVE  FALSE
      BY <1>1, <1>2, <1>7, <2>1
    <2>2. QED
      BY <1>2, <2>1 DEF Shown, V
  <1>9. j \in Shown(kinds)
    <2>1. ASSUME NEW n \in V, n > j, \A y \in V : y <= j \/ y >= n,
                 log[n].kind # "question"
          PROVE  FALSE
      <3>1. n \in 1..Len(log) /\ i < n /\ log[n].req # log[i].req
        BY <1>2, <1>4, <1>5, <2>1 DEF r
      <3>2. PICK q \in 1..n : log[q] = Said(log[n].req, "question") /\ j < q
        BY <1>1, <3>1, AloneBetween
      <3>3. q \in V /\ log[q].kind = "question"
        BY <1>2, <3>1, <3>2 DEF Said
      <3>4. q # n /\ q < n
        BY <1>2, <2>1, <3>2, <3>3
      <3>5. QED
        BY <1>2, <2>1, <3>2, <3>3, <3>4
    <2>2. QED
      BY <1>2, <2>1 DEF Shown, V
  <1>10. ASSUME NEW k \in Shown(kinds), ~(k <= i \/ k >= j)
         PROVE  FALSE
    <2>1. k \in V /\ i < k /\ k < j
      BY <1>2, <1>10 DEF Shown, V
    <2>2. PICK n \in V : k < n /\ n <= j /\ \A y \in V : y <= k \/ y >= n
      BY <1>2, <2>1, NextVisible
    <2>3. log[k].kind # "question" /\ log[n].kind # "question"
      BY <1>2, <1>6, <2>1, <2>2
    <2>4. Continues(n, V)
      BY <1>7, <2>1, <2>2, <2>3
    <2>5. QED
      BY <1>10, <2>2, <2>3, <2>4 DEF Shown, V
  <1>11. QED
    BY <1>8, <1>9, <1>10

\* The user of a request that was alone in its thread reads the question and
\* directly after it the answer, whatever specialists, crashes and the other
\* requests of the thread did.
THEOREM HistoryTellsAlways == Spec => []HistoryTells
  BY InitTellsInv, NextTellsInv, TellsAll, PTL DEF Spec
-----------------------------------------------------------------------------
(* A handler comes to its end, whatever the specialists do.                *)

\* How far the handler of a request has got: steps only ever lead down.
Stage(step) ==
    CASE step = "idle" -> 6
      [] step = "ask"  -> 5
      [] step = "own"  -> 4
      [] step = "run"  -> 3
      [] step = "wait" -> 2
      [] step \in Storing \union {"tell"} -> 1
      [] OTHER -> 0

\* The handler of r gets further, or stores the next message of its batch.
Onward(r) ==
    \/ Stage(pc'[r]) < Stage(pc[r])
    \/ /\ pc[r] \in Storing /\ pc'[r] = pc[r]
       /\ batch[r] # << >> /\ batch'[r] = Tail(batch[r])

\* Between two steps of its own nothing is added to what it has still to do.
Resting(r) ==
    \/ pc'[r] = pc[r] /\ batch'[r] = batch[r]
    \/ pc'[r] = "over" /\ batch'[r] = << >>

LEMMA StageTypes ==
    \A step : Stage(step) \in 0..6
  BY DEF Stage

LEMMA HandlerOnward ==
    ASSUME TypeOK, NEW r \in Requests, Load(r) \/ LoadFails(r) \/ Decide(r) \/ Handle(r)
    PROVE  Onward(r) /\ \A q \in Requests \ {r} : pc'[q] = pc[q] /\ batch'[q] = batch[q]
  <1>1. /\ pc \in [Requests -> {"idle", "ask", "own", "run", "wait", "tell", "over"}
                              \union Storing]
        /\ batch \in [Requests -> Seq(Message)]
    BY DEF TypeOK
  <1>2. CASE Load(r) \/ LoadFails(r) \/ Decide(r) \/ Ask(r) \/ SetOwner(r)
    BY <1>1, <1>2 DEF Load, LoadFails, Decide, Ask, SetOwner, Goto, Onward, Stage, Storing
  <1>3. CASE FinishError(r) \/ FinishStream(r)
    BY <1>1, <1>3 DEF FinishError, FinishStream, Goto, Onward, Stage, Storing
  <1>4. ASSUME NEW step \in Storing, NEW messages, Stores(r, step, messages),
               pc[r] \in {"run", "wait"}
        PROVE  Onward(r) /\ \A q \in Requests \ {r} : pc'[q] = pc[q] /\ batch'[q] = batch[q]
    BY <1>1, <1>4 DEF Stores, Goto, Onward, Stage, Storing
  <1>5. CASE \/ FinishInterrupt(r) \/ FinishStreamInterrupt(r)
             \/ FinishReply(r) \/ StopWaiting(r)
    <2>1. /\ pc[r] \in {"run", "wait"}
          /\ \E step \in Storing : \E messages : Stores(r, step, messages)
      BY <1>5 DEF FinishInterrupt, FinishStreamInterrupt, FinishReply, StopWaiting, Storing
    <2>2. QED
      BY <1>4, <2>1
  <1>6. CASE Store(r)
    BY <1>1, <1>6 DEF Store, Onward
  <1>7. CASE Tell(r) \/ TellNothing(r)
    BY <1>1, <1>7 DEF Tell, TellNothing, Goto, Onward, Stage, Storing
  <1>8. QED
    BY <1>2, <1>3, <1>5, <1>6, <1>7 DEF Handle

\* A request takes finitely many steps: its handler goes through its stages
\* once, and stores a batch that only gets shorter; no specialist, no other
\* request and no crash sends it back or gives it more to store.  (So what is
\* left of RequestsEnd is that a handler in the middle always has a step to
\* take and takes it.)
THEOREM StepsRunOut ==
    Spec => [][\A r \in Requests :
                 /\ Onward(r) \/ Resting(r)
                 /\ Handle(r) => Onward(r)]_vars
  <1>1. TypeOK /\ [Next]_vars
          => [\A r \in Requests :
                 /\ Onward(r) \/ Resting(r)
                 /\ Handle(r) => Onward(r)]_vars
    <2>1. SUFFICES ASSUME TypeOK, Next, NEW r \in Requests
                   PROVE  Onward(r) \/ Resting(r)
      BY HandlerOnward
    <2>2. CASE \E q \in Requests : Load(q) \/ LoadFails(q) \/ Decide(q) \/ Handle(q)
      BY <2>1, <2>2, HandlerOnward DEF Resting
    <2>3. CASE \E q \in Requests, s \in Specialists : Specialist(q, s)
      BY <2>3 DEF Specialist, Route, Fail, Interrupt, Return, Collect, Resting
    <2>4. CASE Crash
      <3>1. pc'[r] = "over" \/ (pc[r] = "idle" /\ pc'[r] = pc[r])
        BY <2>1, <2>4 DEF Crash
      <3>2. pc[r] = "idle" => batch[r] = << >>
        <4>1. batch[r] # << >> => pc[r] \in Storing
          BY <2>1 DEF TypeOK
        <4>2. QED
          BY <4>1 DEF Storing
      <3>3. batch'[r] = << >>
        BY <2>1, <2>4 DEF Crash
      <3>4. QED
        BY <3>1, <3>2, <3>3 DEF Resting
    <2>5. QED
      BY <2>1, <2>2, <2>3, <2>4 DEF Next
  <1>2. QED
    BY <1>1, TypeCorrect, PTL DEF Spec
=============================================================================
