------------------------------ MODULE MemoryStore ------------------------------
(***************************************************************************)
(* Long-term memory (internal/memory/store.go) in both implementations,    *)
(* and the requests that use it (internal/memory/handler.go): PutMemory,   *)
(* DeleteMemory, ListMemories, the injection before a chat, and            *)
(* SaveMemoryFromConversation, which after a chat puts the entries it has  *)
(* found one after the other and ignores errors.                           *)
(*                                                                         *)
(* The in-memory store does each operation under its lock.  The Redis      *)
(* store does one command for Delete and List, but three for Put: it       *)
(* looks the entry up, draws an id if there is none, and writes.  A        *)
(* command can fail, also after it was carried out.                        *)
(*                                                                         *)
(* A content stands for value and category, which are always written       *)
(* together; a category that is missing or unknown has been replaced by    *)
(* "fact" before.  A list asks for the contents of its category.           *)
(***************************************************************************)
EXTENDS Naturals, Sequences

CONSTANTS
    Users, Keys, Contents,
    Requests,    \* the requests of a behaviour, each served once
    Offered,     \* Offered[r]: the lists of operations request r may come with
    None         \* no content

Op == [kind : {"put", "delete", "list"}, user : Users, key : Keys,
       content : Contents, wanted : SUBSET Contents]

ASSUME MemoryAssumption ==
    /\ None \notin Contents
    /\ Offered \in [Requests -> SUBSET Seq(Op)]

Places == Users \X Keys
Entry == [id : Nat, content : Contents \union {None}]
NoEntry == [id |-> 0, content |-> None]

VARIABLES
    redis,    \* which store main.go chose: Redis answered its ping
    entries,  \* entries[<<u, k>>]: the stored entry or NoEntry
    nextId,   \* the id that is drawn next
    todo,     \* todo[r]: the operations request r has yet to finish
    pc,       \* pc[r]: where the operation under way is
    held,     \* held[r]: newEntry of the Put under way
    seen,     \* seen[r]: the result of the last List of r
    lost      \* lost[r]: how many operations of r returned an error

vars == <<redis, entries, nextId, todo, pc, held, seen, lost>>

Steps == {"ready", "draw", "write", "done"}

-----------------------------------------------------------------------------
Init ==
    /\ redis \in BOOLEAN
    /\ entries = [p \in Places |-> NoEntry]
    /\ nextId = 1
    /\ todo \in {f \in [Requests -> UNION {Offered[r] : r \in Requests}] :
                     \A r \in Requests : f[r] \in Offered[r]}
    /\ pc = [r \in Requests |-> "ready"]
    /\ held = [r \in Requests |-> NoEntry]
    /\ seen = [r \in Requests |-> {}]
    /\ lost = [r \in Requests |-> 0]

Goto(r, step) == pc' = [pc EXCEPT ![r] = step]
At(r, step, kind) == /\ pc[r] = step
                     /\ todo[r] # << >>
                     /\ Head(todo[r]).kind = kind
Place(r) == <<Head(todo[r]).user, Head(todo[r]).key>>
Content(r) == Head(todo[r]).content

\* Put of the in-memory store: an entry that exists keeps its id.
PutLocked(r) ==
    /\ ~redis
    /\ At(r, "ready", "put")
    /\ LET old == entries[Place(r)]
           new == old.id = 0
       IN  /\ entries' = [entries EXCEPT ![Place(r)] =
                              [id |-> IF new THEN nextId ELSE old.id,
                               content |-> Content(r)]]
           /\ nextId' = IF new THEN nextId + 1 ELSE nextId
    /\ Goto(r, "done")
    /\ UNCHANGED <<redis, todo, held, seen, lost>>

\* HGET of the Redis store.
Look(r) ==
    /\ redis
    /\ At(r, "ready", "put")
    /\ held' = [held EXCEPT ![r] = entries[Place(r)]]
    /\ Goto(r, IF entries[Place(r)].id = 0 THEN "draw" ELSE "write")
    /\ UNCHANGED <<redis, entries, nextId, todo, seen, lost>>

\* Plausible bug: the error of HGET goes on to the write, without an id.
LookFailsUnnumbered(r) ==
    /\ redis
    /\ At(r, "ready", "put")
    /\ held' = [held EXCEPT ![r] = NoEntry]
    /\ Goto(r, "write")
    /\ UNCHANGED <<redis, entries, nextId, todo, seen, lost>>

\* An error of HGET is taken for "does not exist".
LookFails(r) ==
    /\ redis
    /\ At(r, "ready", "put")
    /\ held' = [held EXCEPT ![r] = NoEntry]
    /\ Goto(r, "draw")
    /\ UNCHANGED <<redis, entries, nextId, todo, seen, lost>>

\* Plausible bug: the counter is read and not incremented.
DrawPeeking(r) ==
    /\ At(r, "draw", "put")
    /\ held' = [held EXCEPT ![r].id = nextId]
    /\ Goto(r, "write")
    /\ UNCHANGED <<redis, entries, nextId, todo, seen, lost>>

\* INCR.
Draw(r) ==
    /\ At(r, "draw", "put")
    /\ held' = [held EXCEPT ![r].id = nextId]
    /\ nextId' = nextId + 1
    /\ Goto(r, "write")
    /\ UNCHANGED <<redis, entries, todo, seen, lost>>

\* Plausible bug: an entry that was found is written back as it was.
WriteKeepingContent(r) ==
    /\ At(r, "write", "put")
    /\ entries' = [entries EXCEPT ![Place(r)] =
                       IF held[r].content # None THEN held[r]
                       ELSE [held[r] EXCEPT !.content = Content(r)]]
    /\ Goto(r, "done")
    /\ UNCHANGED <<redis, nextId, todo, held, seen, lost>>

\* HSET: the new content with the id that was found or drawn.
Write(r) ==
    /\ At(r, "write", "put")
    /\ entries' = [entries EXCEPT ![Place(r)] = [held[r] EXCEPT !.content = Content(r)]]
    /\ Goto(r, "done")
    /\ UNCHANGED <<redis, nextId, todo, held, seen, lost>>

Delete(r) ==
    /\ At(r, "ready", "delete")
    /\ entries' = [entries EXCEPT ![Place(r)] = NoEntry]
    /\ Goto(r, "done")
    /\ UNCHANGED <<redis, nextId, todo, held, seen, lost>>

\* List and the injection before a chat: what the user has, of one category
\* or of all.
List(r) ==
    /\ At(r, "ready", "list")
    /\ LET op == Head(todo[r])
       IN  seen' = [seen EXCEPT ![r] =
                        {e \in Keys \X op.wanted : entries[<<op.user, e[1]>>].content = e[2]}]
    /\ Goto(r, "done")
    /\ UNCHANGED <<redis, entries, nextId, todo, held, lost>>

\* The operation returns; the request goes on with its next one.
Return(r) ==
    /\ pc[r] = "done"
    /\ todo' = [todo EXCEPT ![r] = Tail(@)]
    /\ Goto(r, "ready")
    /\ UNCHANGED <<redis, entries, nextId, held, seen, lost>>

\* A Redis command fails: INCR, HSET, HDEL or HGETALL before it is carried
\* out, or any of them after it ("done", and an id that is drawn for nobody).
\* The handler answers with an error, the chat goes on with its next entry.
Fail(r) ==
    /\ redis
    /\ todo[r] # << >>
    /\ pc[r] = "ready" => Head(todo[r]).kind # "put"
    /\ nextId' \in IF pc[r] = "draw" THEN {nextId, nextId + 1} ELSE {nextId}
    /\ todo' = [todo EXCEPT ![r] = Tail(@)]
    /\ lost' = [lost EXCEPT ![r] = @ + 1]
    /\ Goto(r, "ready")
    /\ UNCHANGED <<redis, entries, held, seen>>

\* The server stops and starts again: requests in the middle of an operation
\* are gone, and so is the in-memory store.
Crash ==
    /\ todo' = [r \in Requests |-> IF pc[r] = "ready" THEN todo[r] ELSE << >>]
    /\ pc' = [r \in Requests |-> "ready"]
    /\ held' = [r \in Requests |-> NoEntry]
    /\ entries' = IF redis THEN entries ELSE [p \in Places |-> NoEntry]
    /\ nextId' = IF redis THEN nextId ELSE 1
    /\ UNCHANGED <<redis, seen, lost>>

Serve(r) == \/ PutLocked(r) \/ Look(r) \/ LookFails(r) \/ Draw(r) \/ Write(r)
            \/ Delete(r) \/ List(r) \/ Return(r) \/ Fail(r)

Next == (\E r \in Requests : Serve(r)) \/ Crash

Spec == Init /\ [][Next]_vars

-----------------------------------------------------------------------------
(* Properties.                                                             *)

\* Shapes; ids below the counter belong to entries that exist, and a Put has
\* an id in hand when it writes (RedisMemoryStore.Put, InMemoryMemoryStore.Put).
TypeOK ==
    /\ redis \in BOOLEAN
    /\ entries \in [Places -> Entry]
    /\ nextId \in Nat \ {0}
    /\ todo \in [Requests -> Seq(Op)]
    /\ pc \in [Requests -> Steps]
    /\ held \in [Requests -> Entry]
    /\ seen \in [Requests -> SUBSET (Keys \X Contents)]
    /\ lost \in [Requests -> Nat]
    /\ \A p \in Places : /\ entries[p].id < nextId
                         /\ entries[p].id = 0 <=> entries[p].content = None
    /\ \A r \in Requests :
          /\ pc[r] # "ready" => todo[r] # << >>
          /\ pc[r] \in {"draw", "write"} => redis /\ Head(todo[r]).kind = "put"
          /\ pc[r] = "write" => held[r].id \in 1..(nextId - 1)

\* An id names one entry: two entries never have the same one, although Puts
\* draw them in between each other's look-up and write, some of them fail or
\* die half way, and a Put may write an entry back that was deleted meanwhile.
IdsDistinct ==
    \A p, q \in Places : entries[p].id = entries[q].id /\ p # q => entries[p].id = 0

\* Both stores keep the promise of the interface: a map with atomic
\* operations, although Put of the Redis store is three commands.
Map == INSTANCE MemoryMap WITH
           durable <- redis,
           map <- [p \in Places |-> entries[p].content],
           applied <- [r \in Requests |-> pc[r] = "done"]
MapSpec == Map!Spec

=============================================================================
