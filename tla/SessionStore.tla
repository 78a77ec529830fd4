----------------------------- MODULE SessionStore -----------------------------
(***************************************************************************)
(* Login sessions: MemorySessionStore of internal/auth/session.go and the  *)
(* handlers that use it (Login and Logout of handler.go, AuthMiddleware of *)
(* middleware.go).                                                         *)
(*                                                                         *)
(* The store is a sync.Map.  Every method reads an entry, makes a changed  *)
(* copy and stores the copy; nothing holds a lock from the read to the     *)
(* write, so each of them is a step of its own.  Range, which Create and   *)
(* cleanExpired use, visits one key after the other.  (RedisSessionStore   *)
(* has the same shape: GET, change, SET.)                                  *)
(***************************************************************************)
EXTENDS Naturals, FiniteSets

CONSTANTS
    Users,
    Sids,         \* the session ids that can be drawn
    Workers,      \* goroutines that serve HTTP requests
    Cleaner,      \* the goroutine of startCleanup
    TTL,          \* DefaultSessionTTL
    RenewDelta,   \* SessionRenewDelta
    MaxLifetime,  \* MaxSessionLifetime
    MaxSessions,  \* MaxSessionsPerUser
    MaxTime       \* bound of the clock

ASSUME SessionAssumption ==
    /\ Cleaner \notin Workers
    /\ "none" \notin Sids
    /\ TTL \in Nat /\ RenewDelta \in Nat /\ MaxLifetime \in Nat
    /\ TTL <= MaxLifetime
    /\ MaxSessions \in Nat \ {0}
    /\ MaxTime \in Nat

Procs == Workers \union {Cleaner}
Status == {"active", "expired", "revoked"}
Session == [user : Users, status : Status, created : Nat, expires : Nat]
NoSession == [status |-> "none"]
NoSid == "none"

VARIABLES
    sessions,  \* the sync.Map: sessions[s], or NoSession
    now,       \* the clock
    pc,        \* pc[p]: the next step of p
    sid,       \* sid[p]: the session id p works on, or NoSid
    copy,      \* copy[p]: the copy of a session p has in hand
    left,      \* left[p]: the keys the Range of p has not visited
    found,     \* found[p]: what Create has collected, <<id, session>> pairs
    stamp      \* the time the cleanup pass read at its start

vars == <<sessions, now, pc, sid, copy, left, found, stamp>>

\* The steps at which a process stores its copy.
StoreSteps == {"insert", "expire", "renew", "revoke", "mark"}
Steps == {"idle", "scan", "evict", "authed", "handle", "clean"} \union StoreSteps

\* The steps of a process that works on an entry it has loaded.
Existing == {"authed", "handle", "expire", "renew", "revoke", "mark"}

Init ==
    /\ sessions = [s \in Sids |-> NoSession]
    /\ now = 0
    /\ pc = [p \in Procs |-> "idle"]
    /\ sid = [p \in Procs |-> NoSid]
    /\ copy = [p \in Procs |-> NoSession]
    /\ left = [p \in Procs |-> {}]
    /\ found = [w \in Workers |-> {}]
    /\ stamp = 0

Stored(s) == sessions[s] # NoSession
Active(s) == Stored(s) /\ sessions[s].status = "active"
Overdue(x, t) == t > x.expires

\* p goes on at a step, with session id s and copy x.
Goto(p, step, s, x) ==
    /\ pc' = [pc EXCEPT ![p] = step]
    /\ sid' = [sid EXCEPT ![p] = s]
    /\ copy' = [copy EXCEPT ![p] = x]

\* p will store the entry of s with another status.
PrepareStatus(p, step, s, status) ==
    Goto(p, step, s, [sessions[s] EXCEPT !.status = status])

\* Store, leaving the copy behind.
StoreKeepingCopy(p) ==
    /\ pc[p] \in StoreSteps
    /\ sessions' = [sessions EXCEPT ![sid[p]] = copy[p]]
    /\ CASE pc[p] = "renew" -> Goto(p, "handle", sid[p], copy[p])
         [] pc[p] = "mark" -> Goto(p, "clean", NoSid, NoSession)
         [] OTHER -> Goto(p, "idle", NoSid, NoSession)
    /\ UNCHANGED <<now, left, found, stamp>>

\* The second half of Create, Get, Renew, Delete and of a cleanup callback.
\* Renew is the middleware's: the handler comes after it.
Store(p) ==
    /\ pc[p] \in StoreSteps
    /\ sessions' = [sessions EXCEPT ![sid[p]] = copy[p]]
    /\ CASE pc[p] = "renew" -> Goto(p, "handle", sid[p], NoSession)
         [] pc[p] = "mark" -> Goto(p, "clean", NoSid, NoSession)
         [] OTHER -> Goto(p, "idle", NoSid, NoSession)
    /\ UNCHANGED <<now, left, found, stamp>>

-----------------------------------------------------------------------------
(* Login: NewSession, then Create.                                         *)

\* NewSession draws an id nobody has drawn before (a random UUID).
Fresh(s) == ~Stored(s) /\ \A p \in Procs : sid[p] # s

Login(w, u, s) ==
    /\ pc[w] = "idle" /\ Fresh(s)
    /\ Goto(w, "scan", s, [user |-> u, status |-> "active",
                           created |-> now, expires |-> now + TTL])
    /\ left' = [left EXCEPT ![w] = Sids]
    /\ UNCHANGED <<sessions, now, found, stamp>>

\* Range visits key s: an active session of the same user is collected.
Scan(w, s) ==
    /\ pc[w] = "scan" /\ s \in left[w]
    /\ left' = [left EXCEPT ![w] = @ \ {s}]
    /\ found' = IF Active(s) /\ sessions[s].user = copy[w].user
                THEN [found EXCEPT ![w] = @ \union {<<s, sessions[s]>>}]
                ELSE found
    /\ pc' = [pc EXCEPT ![w] = IF left[w] = {s} THEN "evict" ELSE "scan"]
    /\ UNCHANGED <<sessions, now, sid, copy, stamp>>

\* At the limit the oldest of the sessions found, one of them, is revoked.
Evict(w) ==
    /\ pc[w] = "evict"
    /\ \/ /\ Cardinality(found[w]) >= MaxSessions
          /\ \E f \in found[w] :
                /\ \A g \in found[w] : f[2].created <= g[2].created
                /\ sessions' = [sessions EXCEPT
                                  ![f[1]] = [f[2] EXCEPT !.status = "revoked"]]
       \/ /\ Cardinality(found[w]) < MaxSessions
          /\ UNCHANGED sessions
    /\ found' = [found EXCEPT ![w] = {}]
    /\ pc' = [pc EXCEPT ![w] = "insert"]
    /\ UNCHANGED <<now, sid, copy, left, stamp>>

-----------------------------------------------------------------------------
(* An authenticated request: the middleware's Get and Renew, the handler.  *)

\* Get: a session past its time is stored as expired, and refused.
GetOverdue(w, s) ==
    /\ pc[w] = "idle" /\ Active(s) /\ Overdue(sessions[s], now)
    /\ PrepareStatus(w, "expire", s, "expired")
    /\ UNCHANGED <<sessions, now, left, found, stamp>>

\* Get: the request is authenticated, with a copy of the session in hand.
Get(w, s) ==
    /\ pc[w] = "idle" /\ Active(s) /\ ~Overdue(sessions[s], now)
    /\ Goto(w, "authed", s, sessions[s])
    /\ UNCHANGED <<sessions, now, left, found, stamp>>

LastExpiry(x) == x.created + MaxLifetime

\* Renew without the cap on the new expiry.
RenewedUncapped(x) ==
    IF now > LastExpiry(x) THEN [x EXCEPT !.status = "expired"]
    ELSE [x EXCEPT !.expires = now + TTL]

\* What Renew makes of the session it has loaded.
Renewed(x) ==
    IF now > LastExpiry(x) THEN [x EXCEPT !.status = "expired"]
    ELSE [x EXCEPT !.expires =
             IF now + TTL > LastExpiry(x) THEN LastExpiry(x) ELSE now + TTL]

\* Renew of the middleware's copy, without loading the entry again.
RenewCopy(w) ==
    /\ pc[w] = "authed"
    /\ copy[w].expires < now + RenewDelta
    /\ Goto(w, "renew", sid[w], Renewed(copy[w]))
    /\ UNCHANGED <<sessions, now, left, found, stamp>>

\* The middleware compares the time left of its copy with RenewDelta; Renew
\* loads the entry again and gives up unless it is active.  Its failure does
\* not stop the request.
Renew(w) ==
    LET s == sid[w] IN
    /\ pc[w] = "authed"
    /\ copy[w].expires < now + RenewDelta
    /\ \/ Active(s) /\ Goto(w, "renew", s, Renewed(sessions[s]))
       \/ ~Active(s) /\ Goto(w, "handle", s, NoSession)
    /\ UNCHANGED <<sessions, now, left, found, stamp>>

NoRenew(w) ==
    /\ pc[w] = "authed"
    /\ copy[w].expires >= now + RenewDelta
    /\ Goto(w, "handle", sid[w], NoSession)
    /\ UNCHANGED <<sessions, now, left, found, stamp>>

\* The handler of any request but Logout.
Handle(w) ==
    /\ pc[w] = "handle"
    /\ Goto(w, "idle", NoSid, NoSession)
    /\ UNCHANGED <<sessions, now, left, found, stamp>>

\* Logout: Delete loads the entry, whatever its status, to revoke it.
Logout(w) ==
    /\ pc[w] = "handle"
    /\ PrepareStatus(w, "revoke", sid[w], "revoked")
    /\ UNCHANGED <<sessions, now, left, found, stamp>>

-----------------------------------------------------------------------------
(* cleanExpired: one pass of the cleanup goroutine.                        *)

CleanStart ==
    /\ pc[Cleaner] = "idle"
    /\ left' = [left EXCEPT ![Cleaner] = Sids]
    /\ stamp' = now
    /\ Goto(Cleaner, "clean", NoSid, NoSession)
    /\ UNCHANGED <<sessions, now, found>>

\* Range visits key s, counting from the login and not from the last renewal.
CleanVisitSinceLogin(s) ==
    /\ pc[Cleaner] = "clean" /\ s \in left[Cleaner]
    /\ left' = [left EXCEPT ![Cleaner] = @ \ {s}]
    /\ IF Active(s) /\ stamp > sessions[s].created + TTL
       THEN PrepareStatus(Cleaner, "mark", s, "expired")
       ELSE UNCHANGED <<pc, sid, copy>>
    /\ UNCHANGED <<sessions, now, found, stamp>>

\* Range visits key s: an active session that was overdue when the pass
\* started is stored as expired.
CleanVisit(s) ==
    /\ pc[Cleaner] = "clean" /\ s \in left[Cleaner]
    /\ left' = [left EXCEPT ![Cleaner] = @ \ {s}]
    /\ IF Active(s) /\ Overdue(sessions[s], stamp)
       THEN PrepareStatus(Cleaner, "mark", s, "expired")
       ELSE UNCHANGED <<pc, sid, copy>>
    /\ UNCHANGED <<sessions, now, found, stamp>>

CleanEnd ==
    /\ pc[Cleaner] = "clean" /\ left[Cleaner] = {}
    /\ Goto(Cleaner, "idle", NoSid, NoSession)
    /\ stamp' = 0
    /\ UNCHANGED <<sessions, now, left, found>>

Tick ==
    /\ now < MaxTime
    /\ now' = now + 1
    /\ UNCHANGED <<sessions, pc, sid, copy, left, found, stamp>>

-----------------------------------------------------------------------------
\* The steps a goroutine takes once its request has started.
Continue(w) ==
    \/ \E s \in Sids : Scan(w, s)
    \/ Evict(w)
    \/ Renew(w)
    \/ NoRenew(w)
    \/ Handle(w)
    \/ Logout(w)
    \/ Store(w)

Arrival(w) ==
    \/ \E u \in Users, s \in Sids : Login(w, u, s)
    \/ \E s \in Sids : GetOverdue(w, s) \/ Get(w, s)

Clean ==
    \/ CleanStart
    \/ \E s \in Sids : CleanVisit(s)
    \/ Store(Cleaner)
    \/ CleanEnd

Next ==
    \/ \E w \in Workers : Arrival(w) \/ Continue(w)
    \/ Clean
    \/ Tick

\* Started requests and the cleanup goroutine are scheduled again and again;
\* nothing forces a client to send a request or the clock to advance.
Fairness == (\A w \in Workers : WF_vars(Continue(w))) /\ WF_vars(Clean)

Spec == Init /\ [][Next]_vars /\ Fairness

-----------------------------------------------------------------------------
(* Properties.                                                             *)

\* Type invariant: who has a session in hand, and which.
TypeOK ==
    /\ sessions \in [Sids -> Session \union {NoSession}]
    /\ now \in Nat
    /\ pc \in [Procs -> Steps]
    /\ sid \in [Procs -> Sids \union {NoSid}]
    /\ copy \in [Procs -> Session \union {NoSession}]
    /\ left \in [Procs -> SUBSET Sids]
    /\ found \in [Workers -> SUBSET (Sids \X Session)]
    /\ stamp \in Nat
    /\ \A p \in Procs :
          /\ (copy[p] # NoSession) <=>
                (pc[p] \in StoreSteps \union {"scan", "evict", "authed"})
          /\ (sid[p] # NoSid) <=> (pc[p] \notin {"idle", "clean"})
          /\ pc[p] \in Existing => Stored(sid[p])
    /\ pc[Cleaner] \in {"idle", "clean", "mark"}
    /\ \A w \in Workers : pc[w] \notin {"clean", "mark"}

\* However renewals, logouts and cleanups of a session overlap, no copy of it
\* (stored, in hand, or found by Create) lives past MaxSessionLifetime: Renew
\* caps the expiry, and a stale copy stored later does not undo the cap.
Bounded(x) == x # NoSession => x.expires <= x.created + MaxLifetime

LifetimeBound ==
    /\ \A s \in Sids : Bounded(sessions[s])
    /\ \A p \in Procs : Bounded(copy[p])
    /\ \A w \in Workers : \A f \in found[w] : Bounded(f[2])

\* No request passes the middleware with a session older than
\* MaxSessionLifetime, whoever renewed it and when.
AuthWithinLifetime ==
    [][\A w \in Workers :
         pc[w] = "idle" /\ pc'[w] = "authed"
            => now <= copy'[w].created + MaxLifetime]_vars

\* s is over: stored, not active, and no goroutine has an active copy of it
\* ready to store.
Over(s) ==
    /\ Stored(s) /\ ~Active(s)
    /\ \A p \in Procs :
          sid[p] = s /\ pc[p] \in StoreSteps => copy[p].status # "active"

\* A session that has ended by logout, eviction or expiry while no renewal of
\* it was under way never becomes active again: Renew loads the entry anew
\* and refuses one that is not active.
EndedForGood == [][\A s \in Sids : Over(s) => Over(s)']_vars

\* s lasts until e: it is active, and neither its entry nor any copy about to
\* be stored over it ends it, or lets it end, before e.
Lasts(s, e) ==
    /\ Active(s) /\ sessions[s].expires >= e
    /\ \A p \in Procs :
          sid[p] = s /\ pc[p] \in StoreSteps
             => copy[p].status = "active" /\ copy[p].expires >= e

\* Create has revoked s, or its user is logging out.
EndedOnPurpose(s) ==
    \/ sessions[s].status = "revoked"
    \/ \E w \in Workers : sid[w] = s /\ pc[w] = "revoke"

\* A session that lasts until e is lost before e only on purpose: renewals that
\* overlap and store their copies in any order never bring its end forward,
\* and neither Get nor a cleanup pass, however long ago it read the clock,
\* ends it early.  By this a session that is renewed before each expiry is
\* never lost.  (A session found overdue may be: the copy stored as expired
\* for that goes over a renewal that came late.  It does not last, see Lasts.)
KeptInTime ==
    [][\A s \in Sids, e \in 0..MaxTime :
         Lasts(s, e) /\ now' <= e => Lasts(s, e)' \/ EndedOnPurpose(s)']_vars

\* A user has at most MaxSessionsPerUser active sessions.  (README.md.)
SessionLimit ==
    \A u \in Users :
        Cardinality({s \in Sids : Active(s) /\ sessions[s].user = u}) <= MaxSessions

\* A session that is logged out is never active again.
LogoutFinal ==
    [][\A s \in Sids : Stored(s) /\ sessions[s].status = "revoked"
                          => ~Active(s)']_vars
=============================================================================
