----------------------------- MODULE MemoryProofs -----------------------------
(***************************************************************************)
(* Theorems about MemoryStore, for any users, keys, contents, requests and *)
(* lists of operations: type correctness, distinct ids, and the refinement *)
(* of MemoryMap.                                                           *)
(***************************************************************************)
EXTENDS MemoryStore, SequenceTheorems, TLAPS

\* Every request starts with a list of operations.
LEMMA InitTodo ==
    ASSUME NEW f \in {g \in [Requests -> UNION {Offered[r] : r \in Requests}] :
                          \A r \in Requests : g[r] \in Offered[r]}
    PROVE  f \in [Requests -> Seq(Op)]
<1>1. \A r \in Requests : f[r] \in Seq(Op)
  BY MemoryAssumption
<1> QED BY <1>1

\* The operation that is due is an operation, and so are those after it.
LEMMA DueOp ==
    ASSUME NEW s \in Seq(Op), s # << >>
    PROVE  /\ Head(s) \in Op
           /\ Tail(s) \in Seq(Op)
           /\ Head(s).user \in Users
           /\ Head(s).key \in Keys
           /\ Head(s).content \in Contents
           /\ Head(s).wanted \in SUBSET Contents
           /\ <<Head(s).user, Head(s).key>> \in Places
<1>1. Head(s) \in Op /\ Tail(s) \in Seq(Op)
  BY HeadTailProperties
<1> QED BY <1>1 DEF Op, Places

-----------------------------------------------------------------------------
(* Type correctness.                                                       *)

LEMMA InitType == Init => TypeOK
<1> SUFFICES ASSUME Init PROVE TypeOK
  OBVIOUS
<1>1. todo \in [Requests -> Seq(Op)]
  BY InitTodo DEF Init
<1>2. NoEntry \in Entry /\ NoEntry.id = 0 /\ NoEntry.content = None
  BY DEF NoEntry, Entry
<1> QED BY <1>1, <1>2 DEF Init, TypeOK, Steps

\* Shapes of a step of Put and of the other operations, in one place each.
LEMMA StepType == TypeOK /\ [Next]_vars => TypeOK'
<1> SUFFICES ASSUME TypeOK, [Next]_vars PROVE TypeOK'
  OBVIOUS
<1> USE DEF TypeOK
<1>0. ASSUME NEW r \in Requests, todo[r] # << >>
      PROVE  /\ Place(r) \in Places
             /\ Content(r) \in Contents
             /\ Content(r) # None
             /\ Tail(todo[r]) \in Seq(Op)
             /\ Head(todo[r]).wanted \in SUBSET Contents
  BY <1>0, DueOp, MemoryAssumption DEF Place, Content
<1>1. ASSUME NEW r \in Requests, PutLocked(r) PROVE TypeOK'
  <2>1. Place(r) \in Places /\ Content(r) \in Contents /\ Content(r) # None
    BY <1>0, <1>1 DEF PutLocked, At
  <2> DEFINE old == entries[Place(r)]
             new == [id |-> IF old.id = 0 THEN nextId ELSE old.id, content |-> Content(r)]
  <2>2. new \in Entry /\ new.id # 0 /\ new.id < nextId' /\ nextId' \in Nat \ {0} /\ nextId <= nextId'
    BY <1>1, <2>1 DEF PutLocked, Entry
  <2>3. entries' = [entries EXCEPT ![Place(r)] = new]
    BY <1>1 DEF PutLocked
  <2>4. new.content # None
    BY <2>1
  <2> HIDE DEF new
  <2>5. entries' \in [Places -> Entry]
    BY <2>2, <2>3
  <2>6. \A p \in Places : /\ entries'[p].id < nextId'
                          /\ entries'[p].id = 0 <=> entries'[p].content = None
    <3> TAKE p \in Places
    <3>1. entries[p] \in Entry /\ entries[p].id \in Nat
      BY DEF Entry
    <3>2. CASE p = Place(r)
      BY <3>2, <2>2, <2>3, <2>4
    <3>3. CASE p # Place(r)
      <4>1. entries'[p] = entries[p]
        BY <3>3, <2>3
      <4> QED BY <4>1, <3>1, <2>2
    <3> QED BY <3>2, <3>3
  <2>7. \A q \in Requests : pc'[q] # "write"
    BY <1>1 DEF PutLocked, Goto, At
  <2> QED BY <1>1, <2>2, <2>5, <2>6, <2>7 DEF PutLocked, Goto, At, Steps
<1>2. ASSUME NEW r \in Requests, Look(r) \/ LookFails(r) PROVE TypeOK'
  <2>1. Place(r) \in Places /\ entries[Place(r)] \in Entry /\ todo[r] # << >>
    BY <1>0, <1>2 DEF Look, LookFails, At
  <2>2. NoEntry \in Entry
    BY DEF NoEntry, Entry
  <2>3. held' \in [Requests -> Entry]
    BY <1>2, <2>1, <2>2 DEF Look, LookFails
  <2>4. pc'[r] = "write" => held'[r].id \in 1..(nextId' - 1)
    <3>1. SUFFICES ASSUME Look(r), entries[Place(r)].id # 0
                   PROVE  held'[r].id \in 1..(nextId' - 1)
      BY <1>2 DEF Look, LookFails, Goto
    <3>2. entries[Place(r)].id \in Nat
      BY <2>1 DEF Entry
    <3>3. held'[r] = entries[Place(r)] /\ nextId' = nextId
      BY <3>1 DEF Look
    <3>4. entries[Place(r)].id < nextId /\ nextId \in Nat
      BY <1>0, <2>1
    <3> QED BY <3>1, <3>2, <3>3, <3>4
  <2>5. /\ pc' \in [Requests -> Steps]
        /\ \A q \in Requests \ {r} : pc'[q] = pc[q] /\ held'[q] = held[q]
        /\ pc'[r] \in {"draw", "write"}
    BY <1>2 DEF Look, LookFails, Goto, Steps
  <2>6. redis /\ Head(todo[r]).kind = "put"
    BY <1>2 DEF Look, LookFails, At
  <2>7. UNCHANGED <<redis, entries, nextId, todo, seen, lost>>
    BY <1>2 DEF Look, LookFails
  <2> QED BY <2>1, <2>3, <2>4, <2>5, <2>6, <2>7
<1>3. ASSUME NEW r \in Requests, Draw(r) PROVE TypeOK'
  <2>1. held' \in [Requests -> Entry] /\ held'[r].id = nextId
    BY <1>3 DEF Draw, Entry
  <2>2. \A q \in Requests : pc'[q] = "write" => held'[q].id \in 1..(nextId' - 1)
    <3> TAKE q \in Requests
    <3>1. CASE q = r
      BY <3>1, <2>1, <1>3 DEF Draw
    <3>2. CASE q # r
      BY <3>2, <1>3 DEF Draw, Goto
    <3> QED BY <3>1, <3>2
  <2>3. \A p \in Places : entries'[p].id < nextId'
    BY <1>3 DEF Draw, Entry
  <2> QED BY <1>3, <2>1, <2>2, <2>3 DEF Draw, Goto, At, Steps
<1>4. ASSUME NEW r \in Requests, Write(r) PROVE TypeOK'
  <2>1. Place(r) \in Places /\ Content(r) \in Contents /\ Content(r) # None
    BY <1>0, <1>4 DEF Write, At
  <2> DEFINE new == [held[r] EXCEPT !.content = Content(r)]
  <2>2. new \in Entry /\ new.id # 0 /\ new.id < nextId /\ new.content # None
    BY <1>4, <2>1 DEF Write, At, Entry
  <2>3. entries' = [entries EXCEPT ![Place(r)] = new]
    BY <1>4 DEF Write
  <2> HIDE DEF new
  <2>4. entries' \in [Places -> Entry]
    BY <2>2, <2>3
  <2>5. \A p \in Places : /\ entries'[p].id < nextId
                          /\ entries'[p].id = 0 <=> entries'[p].content = None
    BY <2>1, <2>2, <2>3
  <2> QED BY <1>4, <2>4, <2>5 DEF Write, Goto, At, Steps
<1>5. ASSUME NEW r \in Requests, Delete(r) PROVE TypeOK'
  <2>1. NoEntry \in Entry /\ NoEntry.id = 0 /\ NoEntry.content = None
    BY DEF NoEntry, Entry
  <2>2. entries' \in [Places -> Entry]
    BY <1>5, <2>1 DEF Delete
  <2>3. \A p \in Places : entries'[p] = NoEntry \/ entries'[p] = entries[p]
    BY <1>5 DEF Delete
  <2>4. \A p \in Places : /\ entries'[p].id < nextId
                          /\ entries'[p].id = 0 <=> entries'[p].content = None
    <3> TAKE p \in Places
    <3>1. CASE entries'[p] = NoEntry
      BY <3>1, <2>1
    <3>2. CASE entries'[p] = entries[p]
      BY <3>2
    <3> QED BY <3>1, <3>2, <2>3
  <2> QED BY <1>5, <2>2, <2>4 DEF Delete, Goto, At, Steps
<1>6. ASSUME NEW r \in Requests, List(r) PROVE TypeOK'
  <2>1. Head(todo[r]).wanted \in SUBSET Contents
    BY <1>0, <1>6 DEF List, At
  <2>2. seen' \in [Requests -> SUBSET (Keys \X Contents)]
    BY <1>6, <2>1 DEF List
  <2> QED BY <1>6, <2>2 DEF List, Goto, At, Steps
<1>7. ASSUME NEW r \in Requests, Return(r) \/ Fail(r) PROVE TypeOK'
  <2>1. todo[r] # << >> /\ Tail(todo[r]) \in Seq(Op)
    BY <1>0, <1>7 DEF Return, Fail
  <2>2. nextId' \in Nat \ {0} /\ nextId <= nextId'
    BY <1>7 DEF Return, Fail
  <2>3. \A p \in Places : entries'[p].id < nextId'
    BY <1>7, <2>2 DEF Return, Fail, Entry
  <2>4. \A q \in Requests : pc'[q] = "write" => held'[q].id \in 1..(nextId' - 1)
    BY <1>7, <2>2 DEF Return, Fail, Goto
  <2>5. /\ redis' \in BOOLEAN /\ lost' \in [Requests -> Nat]
        /\ todo' \in [Requests -> Seq(Op)] /\ pc' \in [Requests -> Steps]
    <3>1. CASE Return(r)
      BY <3>1, <2>1 DEF Return, Goto, Steps
    <3>2. CASE Fail(r)
      BY <3>2, <2>1 DEF Fail, Goto, Steps
    <3> QED BY <1>7, <3>1, <3>2
  <2>6. \A q \in Requests :
           /\ pc'[q] # "ready" => todo'[q] # << >>
           /\ pc'[q] \in {"draw", "write"} => redis' /\ Head(todo'[q]).kind = "put"
    <3> TAKE q \in Requests
    <3>1. CASE q = r
      BY <3>1, <1>7 DEF Return, Fail, Goto
    <3>2. CASE q # r
      <4>1. pc'[q] = pc[q] /\ todo'[q] = todo[q] /\ redis' = redis
        BY <3>2, <1>7 DEF Return, Fail, Goto
      <4> QED BY <4>1
    <3> QED BY <3>1, <3>2
  <2>7. UNCHANGED <<entries, held, seen>>
    BY <1>7 DEF Return, Fail
  <2> QED BY <2>2, <2>3, <2>4, <2>5, <2>6, <2>7
<1>8. CASE Crash
  <2>1. NoEntry \in Entry /\ NoEntry.id = 0 /\ NoEntry.content = None
    BY DEF NoEntry, Entry
  <2>2. << >> \in Seq(Op)
    OBVIOUS
  <2>3. /\ entries' \in [Places -> Entry]
        /\ nextId' \in Nat \ {0}
        /\ \A p \in Places : /\ entries'[p].id < nextId'
                             /\ entries'[p].id = 0 <=> entries'[p].content = None
    BY <1>8, <2>1 DEF Crash
  <2>4. todo' \in [Requests -> Seq(Op)]
    BY <1>8, <2>2 DEF Crash
  <2> QED BY <1>8, <2>1, <2>3, <2>4 DEF Crash, Steps
<1>9. CASE UNCHANGED vars
  BY <1>9 DEF vars
<1> QED BY <1>1, <1>2, <1>3, <1>4, <1>5, <1>6, <1>7, <1>8, <1>9 DEF Next, Serve

\* What is stored, in hand and still to do keeps its shape, and a Put of the
\* Redis store never writes an entry without a drawn id.
THEOREM TypeCorrect == Spec => []TypeOK
<1> QED BY InitType, StepType, PTL DEF Spec

-----------------------------------------------------------------------------
(* Distinct ids.  A stale copy may be written back at any time, so that no *)
(* id is given twice has to be said of the copies in hand as well.         *)

Writing(r) == pc[r] = "write"

IdsInv ==
    /\ TypeOK
    /\ IdsDistinct
    /\ \A r \in Requests, p \in Places :
          Writing(r) /\ entries[p].id = held[r].id => p = Place(r)
    /\ \A r, s \in Requests :
          Writing(r) /\ Writing(s) /\ held[r].id = held[s].id => Place(r) = Place(s)

LEMMA InitIds == Init => IdsInv
<1> SUFFICES ASSUME Init PROVE IdsInv
  OBVIOUS
<1>1. TypeOK
  BY InitType
<1>2. \A p \in Places : entries[p].id = 0
  BY DEF Init, NoEntry
<1> QED BY <1>1, <1>2 DEF Init, IdsInv, IdsDistinct, Writing

LEMMA StepIds == IdsInv /\ [Next]_vars => IdsInv'
<1> SUFFICES ASSUME IdsInv, [Next]_vars PROVE IdsInv'
  OBVIOUS
<1>t. TypeOK /\ TypeOK'
  BY StepType DEF IdsInv
<1> DEFINE Stored == \A p, q \in Places :
                        entries[p].id = entries[q].id /\ p # q => entries[p].id = 0
           Copied == \A r \in Requests, p \in Places :
                        Writing(r) /\ entries[p].id = held[r].id => p = Place(r)
           Carried == \A r, s \in Requests :
                        Writing(r) /\ Writing(s) /\ held[r].id = held[s].id
                           => Place(r) = Place(s)
<1>i. Stored /\ Copied /\ Carried
  BY DEF IdsInv, IdsDistinct
<1>p. \A r \in Requests : todo[r] # << >> => Place(r) \in Places
  BY <1>t, DueOp DEF TypeOK, Place
<1>n. /\ nextId \in Nat \ {0}
      /\ \A p \in Places : entries[p].id \in Nat /\ entries[p].id < nextId
      /\ \A r \in Requests : Writing(r) => /\ held[r].id \in Nat
                                           /\ held[r].id # 0
                                           /\ held[r].id < nextId
      /\ entries \in [Places -> Entry] /\ held \in [Requests -> Entry]
      /\ pc \in [Requests -> Steps] /\ todo \in [Requests -> Seq(Op)]
  BY <1>t DEF TypeOK, Entry, Writing
<1>1. ASSUME NEW r \in Requests, PutLocked(r) PROVE Stored' /\ Copied' /\ Carried'
  <2>1. \A q \in Requests : ~Writing(q)'
    BY <1>1, <1>t DEF PutLocked, Goto, Writing, TypeOK, At
  <2>2. Place(r) \in Places
    BY <1>1, <1>p DEF PutLocked, At
  <2>3. \A p \in Places \ {Place(r)} : entries'[p] = entries[p]
    BY <1>1, <1>n DEF PutLocked
  <2>4. entries'[Place(r)].id = nextId \/ entries'[Place(r)].id = entries[Place(r)].id
    BY <1>1, <1>n, <2>2 DEF PutLocked
  <2>n. nextId # 0 /\ \A p \in Places : entries[p].id # nextId
    BY <1>n
  <2>5. ASSUME NEW p \in Places \ {Place(r)}
        PROVE  entries'[p].id # entries'[Place(r)].id \/ entries'[p].id = 0
    BY <1>i, <2>n, <2>2, <2>3, <2>4
  <2>6. Stored'
    <3> SUFFICES ASSUME NEW p \in Places, NEW q \in Places,
                        entries'[p].id = entries'[q].id, p # q
                 PROVE  entries'[p].id = 0
      OBVIOUS
    <3>1. CASE p = Place(r)
      BY <3>1, <2>5
    <3>2. CASE q = Place(r)
      BY <3>2, <2>5
    <3>3. CASE p # Place(r) /\ q # Place(r)
      BY <3>3, <1>i, <2>3
    <3> QED BY <3>1, <3>2, <3>3
  <2> QED BY <2>1, <2>6
<1>2. ASSUME NEW r \in Requests, Look(r) \/ LookFails(r)
      PROVE  Stored' /\ Copied' /\ Carried'
  <2>1. Place(r) \in Places /\ UNCHANGED <<entries, todo>>
    BY <1>2, <1>p DEF Look, LookFails, At
  <2>2. Writing(r)' => held'[r].id = entries[Place(r)].id /\ held'[r].id # 0
    BY <1>2, <1>n, <2>1 DEF Look, LookFails, Goto, Writing
  <2>3. \A q \in Requests \ {r} : held'[q] = held[q] /\ (Writing(q)' <=> Writing(q))
    BY <1>2, <1>n DEF Look, LookFails, Goto, Writing
  <2>4. \A q \in Requests : Place(q)' = Place(q)
    BY <2>1 DEF Place
  <2>5. Stored'
    BY <1>i, <2>1
  <2>6. Copied'
    BY <1>i, <2>1, <2>2, <2>3, <2>4
  <2>7. Carried'
    BY <1>i, <2>1, <2>2, <2>3, <2>4
  <2> QED BY <2>5, <2>6, <2>7
<1>3. ASSUME NEW r \in Requests, Draw(r) PROVE Stored' /\ Copied' /\ Carried'
  <2>1. UNCHANGED <<entries, todo>> /\ held'[r].id = nextId
    BY <1>3, <1>n DEF Draw, Entry
  <2>2. \A q \in Requests \ {r} : held'[q] = held[q] /\ (Writing(q)' <=> Writing(q))
    BY <1>3, <1>n DEF Draw, Goto, Writing
  <2>3. \A q \in Requests : Place(q)' = Place(q)
    BY <2>1 DEF Place
  <2>4. Stored'
    BY <1>i, <2>1
  <2>5. Copied'
    BY <1>i, <1>n, <2>1, <2>2, <2>3
  <2>6. Carried'
    <3> SUFFICES ASSUME NEW q \in Requests, NEW s \in Requests, Writing(q)', Writing(s)',
                        held'[q].id = held'[s].id
                 PROVE  Place(q) = Place(s)
      BY <2>3
    <3>1. CASE q # r /\ s # r
      BY <3>1, <1>i, <2>2
    <3>2. CASE q = r /\ s # r
      BY <3>2, <1>n, <2>1, <2>2
    <3>3. CASE q # r /\ s = r
      BY <3>3, <1>n, <2>1, <2>2
    <3> QED BY <3>1, <3>2, <3>3
  <2> QED BY <2>4, <2>5, <2>6
<1>4. ASSUME NEW r \in Requests, Write(r) PROVE Stored' /\ Copied' /\ Carried'
  <2>1. Writing(r) /\ Place(r) \in Places /\ UNCHANGED <<todo, held>>
    BY <1>4, <1>p DEF Write, At, Writing
  <2>2. \A p \in Places \ {Place(r)} : entries'[p] = entries[p]
    BY <1>4, <1>n DEF Write
  <2>3. entries'[Place(r)].id = held[r].id
    BY <1>4, <1>n, <2>1 DEF Write, Entry
  <2>4. \A q \in Requests : Writing(q)' => Writing(q)
    BY <1>4, <1>n DEF Write, Goto, Writing
  <2>5. \A q \in Requests : Place(q)' = Place(q)
    BY <2>1 DEF Place
  <2>6. Stored'
    BY <1>i, <1>n, <2>1, <2>2, <2>3
  <2>7. Copied'
    BY <1>i, <1>n, <2>1, <2>2, <2>3, <2>4, <2>5
  <2>8. Carried'
    BY <1>i, <2>1, <2>4, <2>5
  <2> QED BY <2>6, <2>7, <2>8
<1>5. ASSUME NEW r \in Requests, Delete(r) PROVE Stored' /\ Copied' /\ Carried'
  <2>1. UNCHANGED <<todo, held>>
    BY <1>5 DEF Delete
  <2>2. \A p \in Places : entries'[p] = entries[p] \/ entries'[p].id = 0
    BY <1>5, <1>n DEF Delete, NoEntry
  <2>3. \A q \in Requests : (Writing(q)' => Writing(q)) /\ Place(q)' = Place(q)
    BY <1>5, <1>n, <2>1 DEF Delete, Goto, Writing, Place
  <2>4. Stored'
    BY <1>i, <2>2
  <2>5. Copied'
    BY <1>i, <1>n, <2>1, <2>2, <2>3
  <2>6. Carried'
    BY <1>i, <2>1, <2>3
  <2> QED BY <2>4, <2>5, <2>6
<1>6. ASSUME NEW r \in Requests, List(r) \/ Return(r) \/ Fail(r)
      PROVE  Stored' /\ Copied' /\ Carried'
  <2>1. UNCHANGED <<entries, held>>
    BY <1>6 DEF List, Return, Fail
  <2>2. ~Writing(r)'
    BY <1>6, <1>n DEF List, Return, Fail, Goto, Writing
  <2>3. \A q \in Requests \ {r} : pc'[q] = pc[q] /\ todo'[q] = todo[q]
    BY <1>6, <1>n DEF List, Return, Fail, Goto
  <2>4. \A q \in Requests : Writing(q)' => Writing(q) /\ Place(q)' = Place(q)
    BY <2>2, <2>3 DEF Writing, Place
  <2> QED BY <1>i, <2>1, <2>4
<1>7. ASSUME Crash PROVE Stored' /\ Copied' /\ Carried'
  <2>1. \A q \in Requests : ~Writing(q)'
    BY <1>7 DEF Crash, Writing
  <2>2. entries' = entries \/ \A p \in Places : entries'[p].id = 0
    BY <1>7 DEF Crash, NoEntry
  <2>3. Stored'
    BY <1>i, <2>2
  <2> QED BY <2>1, <2>3
<1>8. ASSUME UNCHANGED vars PROVE Stored' /\ Copied' /\ Carried'
  <2>1. /\ UNCHANGED <<entries, held>>
        /\ \A q \in Requests : Place(q)' = Place(q) /\ (Writing(q)' <=> Writing(q))
    BY <1>8 DEF vars, Writing, Place
  <2> QED BY <1>i, <2>1
<1> HIDE DEF Stored, Copied, Carried
<1>9. Stored' /\ Copied' /\ Carried'
  BY <1>1, <1>2, <1>3, <1>4, <1>5, <1>6, <1>7, <1>8 DEF Next, Serve
<1> QED BY <1>9, <1>t DEF IdsInv, IdsDistinct, Stored, Copied, Carried

\* Two entries never have the same id, whatever Puts and deletions overlap,
\* fail or die half way.
THEOREM IdsDistinctAlways == Spec => []IdsDistinct
<1>1. IdsInv => IdsDistinct
  BY DEF IdsInv
<1> QED BY <1>1, InitIds, StepIds, PTL DEF Spec

-----------------------------------------------------------------------------
(* The refinement of MemoryMap: what a list of entries is to the map is    *)
(* the contents; an operation has been applied when it is done.            *)

MapOf(es) == [p \in Places |-> es[p].content]
AppliedOf(steps) == [r \in Requests |-> steps[r] = "done"]

LEMMA InitMap == Init => Map!Init
<1> SUFFICES ASSUME Init PROVE Map!Init
  OBVIOUS
<1>1. MapOf(entries) = Map!Empty
  BY DEF Init, NoEntry, MapOf, Map!Empty, Map!Places, Places
<1>2. AppliedOf(pc) = [r \in Requests |-> FALSE]
  BY DEF Init, AppliedOf
<1> QED BY <1>1, <1>2 DEF Init, Map!Init, MapOf, AppliedOf

LEMMA StepMap == TypeOK /\ [Next]_vars => [Map!Next]_(Map!mapVars)
<1> SUFFICES ASSUME TypeOK, [Next]_vars PROVE [Map!Next]_(Map!mapVars)
  OBVIOUS
<1>p. \A r \in Requests : todo[r] # << >> => Place(r) \in Places
  BY DueOp DEF TypeOK, Place
<1>v. /\ pc \in [Requests -> Steps] /\ entries \in [Places -> Entry]
      /\ todo \in [Requests -> Seq(Op)]
      /\ \A r \in Requests : pc[r] # "ready" => todo[r] # << >>
  BY DEF TypeOK
<1>d. ASSUME NEW r \in Requests, todo[r] # << >>, pc[r] # "done", Goto(r, "done")
      PROVE  /\ ~AppliedOf(pc)[r]
             /\ AppliedOf(pc') = [AppliedOf(pc) EXCEPT ![r] = TRUE]
  BY <1>d, <1>v DEF Goto, AppliedOf
<1>c. ASSUME NEW r \in Requests, todo[r] # << >>, NEW e \in Entry,
             entries' = [entries EXCEPT ![Place(r)] = e]
      PROVE  MapOf(entries') = [MapOf(entries) EXCEPT ![Place(r)] = e.content]
  BY <1>c, <1>p, <1>v DEF MapOf
<1>1. ASSUME NEW r \in Requests, PutLocked(r) PROVE Map!Put(r)
  <2> DEFINE new == [id |-> IF entries[Place(r)].id = 0 THEN nextId ELSE entries[Place(r)].id,
                     content |-> Content(r)]
  <2>1. todo[r] # << >> /\ pc[r] # "done" /\ Goto(r, "done") /\ Head(todo[r]).kind = "put"
    BY <1>1 DEF PutLocked, At
  <2>2. new \in Entry /\ entries' = [entries EXCEPT ![Place(r)] = new]
    BY <1>1, <2>1, <1>p, DueOp DEF PutLocked, TypeOK, Entry, Content
  <2>3. MapOf(entries') = [MapOf(entries) EXCEPT ![Place(r)] = Content(r)]
    BY <1>c, <2>1, <2>2
  <2> QED BY <2>1, <2>3, <1>d, <1>1
          DEF PutLocked, Map!Put, Map!Due, MapOf, AppliedOf, Place, Content
<1>2. ASSUME NEW r \in Requests, Write(r) PROVE Map!Put(r)
  <2> DEFINE new == [held[r] EXCEPT !.content = Content(r)]
  <2>1. todo[r] # << >> /\ pc[r] # "done" /\ Goto(r, "done") /\ Head(todo[r]).kind = "put"
    BY <1>2 DEF Write, At
  <2>2. /\ new \in Entry /\ new.content = Content(r)
        /\ entries' = [entries EXCEPT ![Place(r)] = new]
    BY <1>2, <2>1, DueOp DEF Write, TypeOK, Entry, Content
  <2>3. MapOf(entries') = [MapOf(entries) EXCEPT ![Place(r)] = Content(r)]
    BY <1>c, <2>1, <2>2
  <2> QED BY <2>1, <2>3, <1>d, <1>2
          DEF Write, Map!Put, Map!Due, MapOf, AppliedOf, Place, Content
<1>3. ASSUME NEW r \in Requests, Delete(r) PROVE Map!Delete(r)
  <2>1. todo[r] # << >> /\ pc[r] # "done" /\ Goto(r, "done") /\ Head(todo[r]).kind = "delete"
    BY <1>3 DEF Delete, At
  <2>2. NoEntry \in Entry /\ NoEntry.content = None
    BY DEF NoEntry, Entry
  <2>3. MapOf(entries') = [MapOf(entries) EXCEPT ![Place(r)] = None]
    BY <1>c, <1>3, <2>1, <2>2 DEF Delete
  <2> QED BY <2>1, <2>3, <1>d, <1>3
          DEF Delete, Map!Delete, Map!Due, MapOf, AppliedOf, Place
<1>4. ASSUME NEW r \in Requests, List(r) PROVE Map!List(r)
  <2>1. todo[r] # << >> /\ pc[r] # "done" /\ Goto(r, "done") /\ Head(todo[r]).kind = "list"
    BY <1>4 DEF List, At
  <2>2. \A k \in Keys : <<Head(todo[r]).user, k>> \in Places
    BY <2>1, <1>v, DueOp DEF Places
  <2>3. \A e \in Keys \X Head(todo[r]).wanted :
           entries[<<Head(todo[r]).user, e[1]>>].content = MapOf(entries)[<<Head(todo[r]).user, e[1]>>]
    BY <2>2 DEF MapOf
  <2>4. UNCHANGED <<redis, entries, todo, lost>>
    BY <1>4 DEF List
  <2>5. seen' = [seen EXCEPT ![r] = {e \in Keys \X Head(todo[r]).wanted :
                                        MapOf(entries)[<<Head(todo[r]).user, e[1]>>] = e[2]}]
    BY <1>4, <2>3 DEF List
  <2> QED BY <2>1, <2>4, <2>5, <1>d DEF Map!List, Map!Due, MapOf, AppliedOf
<1>5. ASSUME NEW r \in Requests, Return(r) PROVE Map!Return(r)
  <2>1. AppliedOf(pc)[r] /\ AppliedOf(pc') = [AppliedOf(pc) EXCEPT ![r] = FALSE]
    BY <1>5, <1>v DEF Return, Goto, AppliedOf
  <2> QED BY <2>1, <1>5 DEF Return, Map!Return, MapOf, AppliedOf
<1>6. ASSUME NEW r \in Requests, Fail(r) PROVE Map!Fail(r)
  <2>1. AppliedOf(pc') = [AppliedOf(pc) EXCEPT ![r] = FALSE]
    BY <1>6, <1>v DEF Fail, Goto, AppliedOf
  <2> QED BY <2>1, <1>6 DEF Fail, Map!Fail, MapOf, AppliedOf
<1>7. ASSUME NEW r \in Requests, Look(r) \/ LookFails(r) \/ Draw(r)
      PROVE  UNCHANGED Map!mapVars
  <2>1. AppliedOf(pc') = AppliedOf(pc)
    BY <1>7, <1>v DEF Look, LookFails, Draw, Goto, At, AppliedOf
  <2>2. UNCHANGED <<redis, entries, todo, seen, lost>>
    BY <1>7 DEF Look, LookFails, Draw
  <2> QED BY <2>1, <2>2 DEF Map!mapVars, AppliedOf
<1>8. ASSUME Crash PROVE Map!Crash
  <2>1. AppliedOf(pc') = [r \in Requests |-> FALSE]
    BY <1>8 DEF Crash, AppliedOf
  <2>2. MapOf(entries') = IF redis THEN MapOf(entries) ELSE Map!Empty
    BY <1>8 DEF Crash, MapOf, NoEntry, Map!Empty, Map!Places, Places
  <2>3. \E under \in SUBSET Requests :
           todo' = [r \in Requests |-> IF r \in under THEN << >> ELSE todo[r]]
    <3> WITNESS {r \in Requests : pc[r] # "ready"} \in SUBSET Requests
    <3> QED BY <1>8 DEF Crash
  <2> QED BY <2>1, <2>2, <2>3, <1>8 DEF Crash, Map!Crash, MapOf, AppliedOf
<1>9. CASE UNCHANGED vars
  BY <1>9 DEF vars, Map!mapVars
<1> QED BY <1>1, <1>2, <1>3, <1>4, <1>5, <1>6, <1>7, <1>8, <1>9 DEF Next, Serve, Map!Next

\* Both stores, with the requests that use them, implement the map with
\* atomic operations: every step of theirs is one of its steps or none.
THEOREM ImplementsMap == Spec => MapSpec
<1>1. Spec => []TypeOK
  BY TypeCorrect
<1> QED BY <1>1, InitMap, StepMap, PTL DEF Spec, MapSpec, Map!Spec
=============================================================================
