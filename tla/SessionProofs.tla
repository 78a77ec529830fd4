---------------------------- MODULE SessionProofs ----------------------------
(***************************************************************************)
(* The safety properties of SessionStore, for every set of users, session  *)
(* ids and workers, every limit and every lifetime.                        *)
(*                                                                         *)
(* SessionLimit and LogoutFinal, which the code does not keep, are proved  *)
(* of the behaviours in which no two requests are inside a method of the   *)
(* store at the same time.                                                 *)
(***************************************************************************)
EXTENDS SessionStore, FiniteSetTheorems, TLAPS

Entry == Session \union {NoSession}

\* NoSession is told from a session by its status.
LEMMA NoSessionApart == NoSession \notin Session /\ NoSession.status = "none"
  <1>1. NoSession.status = "none"
    BY DEF NoSession
  <1>2. \A x \in Session : x.status # "none"
    BY DEF Session, Status
  <1>3. QED
    BY <1>1, <1>2

\* Changing the status of a session leaves the rest of it alone.
LEMMA WithStatus ==
    ASSUME NEW x \in Session, NEW st \in Status
    PROVE  LET y == [x EXCEPT !.status = st] IN
           /\ y \in Session
           /\ y.status = st
           /\ y.user = x.user
           /\ y.created = x.created
           /\ y.expires = x.expires
  BY DEF Session

\* What Renew stores: the same session, capped or past its lifetime.
LEMMA RenewedSession ==
    ASSUME SessionAssumption, now \in Nat, NEW x \in Session, x.status = "active"
    PROVE  /\ Renewed(x) \in Session
           /\ Renewed(x).status \in {"active", "expired"}
           /\ Bounded(x) => /\ Bounded(Renewed(x))
                            /\ Renewed(x).status = "expired"
                                  => now > Renewed(x).expires
           /\ x.expires <= now + TTL => Renewed(x).expires <= now + TTL
           /\ Bounded(x) /\ x.expires <= now + TTL /\ now <= x.expires
                 => /\ Renewed(x).status = "active"
                    /\ Renewed(x).expires >= x.expires
  <1>0. x.created \in Nat /\ x.expires \in Nat /\ MaxLifetime \in Nat /\ TTL \in Nat
    BY DEF Session, SessionAssumption
  <1>b. Bounded(x) => x.expires <= x.created + MaxLifetime
    BY NoSessionApart DEF Bounded
  <1>1. CASE now > LastExpiry(x)
    <2> DEFINE y == [x EXCEPT !.status = "expired"]
    <2>1. Renewed(x) = y
      BY <1>1 DEF Renewed
    <2>2. /\ y \in Session /\ y.status = "expired"
          /\ y.created = x.created /\ y.expires = x.expires
      BY WithStatus DEF Status
    <2> HIDE DEF y
    <2>3. Bounded(x) => y.expires <= y.created + MaxLifetime /\ now > y.expires
      BY <1>0, <1>b, <1>1, <2>2 DEF LastExpiry
    <2>4. ~(Bounded(x) /\ now <= x.expires)
      BY <1>0, <2>2, <2>3
    <2>5. QED
      BY <2>1, <2>2, <2>3, <2>4 DEF Bounded
  <1>2. CASE ~(now > LastExpiry(x))
    <2> DEFINE e == IF now + TTL > LastExpiry(x) THEN LastExpiry(x) ELSE now + TTL
               y == [x EXCEPT !.expires = e]
    <2>1. Renewed(x) = y
      BY <1>2 DEF Renewed
    <2>2. /\ e \in Nat /\ e <= x.created + MaxLifetime /\ e <= now + TTL
          /\ Bounded(x) /\ x.expires <= now + TTL => e >= x.expires
      BY <1>0, <1>b DEF LastExpiry
    <2> HIDE DEF e
    <2>3. /\ y \in Session /\ y.status = "active"
          /\ y.created = x.created /\ y.expires = e
      BY <2>2 DEF Session
    <2> HIDE DEF y
    <2>4. QED
      BY <2>1, <2>2, <2>3 DEF Bounded
  <1>3. QED
    BY <1>1, <1>2

-----------------------------------------------------------------------------
(* Types.                                                                  *)

\* Where a step of Goto leaves pc, sid and copy.
LEMMA GotoTypes ==
    ASSUME TypeOK, NEW p \in Procs, NEW step \in Steps, NEW s \in Sids \union {NoSid},
           NEW x \in Entry, Goto(p, step, s, x),
           (x # NoSession) <=> (step \in StoreSteps \union {"scan", "evict", "authed"}),
           (s # NoSid) <=> (step \notin {"idle", "clean"}),
           \A k \in Sids : Stored(k) => sessions'[k] # NoSession,
           step \in Existing => sessions'[s] # NoSession,
           p = Cleaner <=> step \in {"clean", "mark"} \/ (p = Cleaner /\ step = "idle")
    PROVE  /\ pc' \in [Procs -> Steps]
           /\ sid' \in [Procs -> Sids \union {NoSid}]
           /\ copy' \in [Procs -> Session \union {NoSession}]
           /\ \A q \in Procs :
                /\ (copy'[q] # NoSession) <=>
                     (pc'[q] \in StoreSteps \union {"scan", "evict", "authed"})
                /\ (sid'[q] # NoSid) <=> (pc'[q] \notin {"idle", "clean"})
                /\ pc'[q] \in Existing => Stored(sid[q])'
           /\ pc'[Cleaner] \in {"idle", "clean", "mark"}
           /\ \A w \in Workers : pc'[w] \notin {"clean", "mark"}
  <1>1. /\ pc \in [Procs -> Steps] /\ sid \in [Procs -> Sids \union {NoSid}]
        /\ copy \in [Procs -> Entry]
    BY DEF TypeOK, Entry
  <1>2. /\ pc' = [pc EXCEPT ![p] = step]
        /\ sid' = [sid EXCEPT ![p] = s]
        /\ copy' = [copy EXCEPT ![p] = x]
    BY DEF Goto
  <1>3. /\ pc' \in [Procs -> Steps] /\ sid' \in [Procs -> Sids \union {NoSid}]
        /\ copy' \in [Procs -> Entry]
    BY <1>1, <1>2
  <1>4. /\ pc'[p] = step /\ sid'[p] = s /\ copy'[p] = x
        /\ \A q \in Procs \ {p} : /\ pc'[q] = pc[q] /\ sid'[q] = sid[q]
                                  /\ copy'[q] = copy[q]
    BY <1>1, <1>2
  <1>5. \A q \in Procs :
          /\ (copy'[q] # NoSession) <=>
               (pc'[q] \in StoreSteps \union {"scan", "evict", "authed"})
          /\ (sid'[q] # NoSid) <=> (pc'[q] \notin {"idle", "clean"})
    BY <1>4 DEF TypeOK
  <1>10. ASSUME NEW q \in Procs, pc'[q] \in Existing PROVE Stored(sid[q])'
    <2>1. CASE q = p
      BY <1>4, <1>10, <2>1 DEF Stored
    <2>2. CASE q # p
      <3>1. pc[q] \in Existing /\ sid'[q] = sid[q]
        BY <1>4, <1>10, <2>2
      <3>2. sid[q] \in Sids /\ Stored(sid[q])
        BY <3>1 DEF TypeOK, Existing
      <3>3. QED
        BY <3>1, <3>2 DEF Stored
    <2>3. QED
      BY <2>1, <2>2
  <1>6. Cleaner \in Procs /\ Cleaner \notin Workers /\ Workers \subseteq Procs
    BY SessionAssumption DEF Procs
  <1>7. pc'[Cleaner] \in {"idle", "clean", "mark"}
    BY <1>4, <1>6 DEF TypeOK
  <1>8. \A w \in Workers : pc'[w] \notin {"clean", "mark"}
    BY <1>4, <1>6 DEF TypeOK
  <1>9. QED
    BY <1>3, <1>5, <1>7, <1>8, <1>10 DEF Entry

LEMMA InitTypeOK == Init => TypeOK
  BY SessionAssumption, NoSessionApart
  DEF Init, TypeOK, Procs, Steps, StoreSteps, NoSid, Existing

\* The entry of a stored session.
LEMMA StoredEntry ==
    ASSUME TypeOK, NEW s \in Sids
    PROVE  /\ sessions[s] \in Entry
           /\ Stored(s) => sessions[s] \in Session
           /\ s # NoSid
  BY SessionAssumption DEF TypeOK, Stored, Entry, NoSid

\* A process at a step that stores has an id and a session in hand.
LEMMA InHand ==
    ASSUME TypeOK, NEW p \in Procs,
           pc[p] \in StoreSteps \union {"scan", "evict", "authed"}
    PROVE  sid[p] \in Sids /\ copy[p] \in Session
  <1>1. pc[p] \notin {"idle", "clean"}
    BY DEF StoreSteps
  <1>2. QED
    BY <1>1 DEF TypeOK

\* A step that only moves p on keeps the types.
LEMMA GotoTypeOK ==
    ASSUME TypeOK, NEW p \in Procs, NEW step \in Steps, NEW s \in Sids \union {NoSid},
           NEW x \in Entry, Goto(p, step, s, x), UNCHANGED <<sessions, found>>,
           now' \in Nat, stamp' \in Nat, left' \in [Procs -> SUBSET Sids],
           (x # NoSession) <=> (step \in StoreSteps \union {"scan", "evict", "authed"}),
           (s # NoSid) <=> (step \notin {"idle", "clean"}),
           step \in Existing => Stored(s),
           p = Cleaner <=> step \in {"clean", "mark"} \/ (p = Cleaner /\ step = "idle")
    PROVE  TypeOK'
  <1>1. /\ \A k \in Sids : Stored(k) => sessions'[k] # NoSession
        /\ step \in Existing => sessions'[s] # NoSession
    BY DEF Stored
  <1>2. /\ pc' \in [Procs -> Steps]
        /\ sid' \in [Procs -> Sids \union {NoSid}]
        /\ copy' \in [Procs -> Session \union {NoSession}]
        /\ \A q \in Procs :
             /\ (copy'[q] # NoSession) <=>
                  (pc'[q] \in StoreSteps \union {"scan", "evict", "authed"})
             /\ (sid'[q] # NoSid) <=> (pc'[q] \notin {"idle", "clean"})
             /\ pc'[q] \in Existing => Stored(sid[q])'
        /\ pc'[Cleaner] \in {"idle", "clean", "mark"}
        /\ \A w \in Workers : pc'[w] \notin {"clean", "mark"}
    BY <1>1, GotoTypes
  <1>3. /\ sessions' \in [Sids -> Session \union {NoSession}]
        /\ found' \in [Workers -> SUBSET (Sids \X Session)]
    BY DEF TypeOK
  <1>4. QED
    BY <1>2, <1>3 DEF TypeOK

\* Storing the copy in hand, p goes on; no entry vanishes.
LEMMA StoreKeepsEntries ==
    ASSUME TypeOK, NEW p \in Procs, Store(p)
    PROVE  /\ pc[p] \in StoreSteps /\ sid[p] \in Sids /\ copy[p] \in Session
           /\ sessions' \in [Sids -> Session \union {NoSession}]
           /\ sessions'[sid[p]] = copy[p]
           /\ \A k \in Sids \ {sid[p]} : sessions'[k] = sessions[k]
           /\ \A k \in Sids : Stored(k) => sessions'[k] # NoSession
           /\ sessions'[sid[p]] # NoSession
  <1>1. pc[p] \in StoreSteps /\ sid[p] \in Sids /\ copy[p] \in Session
    BY InHand DEF Store
  <1>2. sessions' = [sessions EXCEPT ![sid[p]] = copy[p]]
    BY DEF Store
  <1>3. /\ sessions' \in [Sids -> Session \union {NoSession}]
        /\ sessions'[sid[p]] = copy[p]
        /\ \A k \in Sids \ {sid[p]} : sessions'[k] = sessions[k]
    BY <1>1, <1>2 DEF TypeOK
  <1>4. QED
    BY <1>1, <1>3, NoSessionApart DEF Stored

LEMMA StoreTypeOK == ASSUME TypeOK, NEW p \in Procs, Store(p) PROVE TypeOK'
  <1>1. /\ pc[p] \in StoreSteps /\ sid[p] \in Sids /\ copy[p] \in Session
        /\ sessions' \in [Sids -> Session \union {NoSession}]
        /\ \A k \in Sids : Stored(k) => sessions'[k] # NoSession
        /\ sessions'[sid[p]] # NoSession
    BY StoreKeepsEntries
  <1>2. ASSUME NEW step \in {"handle", "clean", "idle"}, NEW s \in Sids \union {NoSid},
               Goto(p, step, s, NoSession),
               (s # NoSid) <=> step = "handle",
               step = "handle" => s = sid[p],
               p = Cleaner <=> step = "clean"
        PROVE  TypeOK'
    <2>1. /\ step \in Steps
          /\ NoSession \in Entry
          /\ step \notin StoreSteps \union {"scan", "evict", "authed"}
          /\ (s # NoSid) <=> (step \notin {"idle", "clean"})
          /\ step \in Existing => sessions'[s] # NoSession
          /\ p = Cleaner <=> step \in {"clean", "mark"} \/ (p = Cleaner /\ step = "idle")
      BY <1>1, <1>2 DEF Steps, StoreSteps, Existing, Entry
    <2>2. /\ pc' \in [Procs -> Steps]
          /\ sid' \in [Procs -> Sids \union {NoSid}]
          /\ copy' \in [Procs -> Session \union {NoSession}]
          /\ \A q \in Procs :
               /\ (copy'[q] # NoSession) <=>
                    (pc'[q] \in StoreSteps \union {"scan", "evict", "authed"})
               /\ (sid'[q] # NoSid) <=> (pc'[q] \notin {"idle", "clean"})
               /\ pc'[q] \in Existing => Stored(sid[q])'
          /\ pc'[Cleaner] \in {"idle", "clean", "mark"}
          /\ \A w \in Workers : pc'[w] \notin {"clean", "mark"}
      BY <1>1, <1>2, <2>1, GotoTypes
    <2>3. QED
      BY <1>1, <2>2 DEF Store, TypeOK
  <1>3. CASE pc[p] = "renew"
    <2>1. Goto(p, "handle", sid[p], NoSession) /\ p # Cleaner
      BY <1>3 DEF Store, TypeOK
    <2>2. sid[p] # NoSid
      BY <1>1, StoredEntry
    <2>3. QED
      BY <1>1, <1>2, <2>1, <2>2
  <1>4. CASE pc[p] = "mark"
    <2>1. Goto(p, "clean", NoSid, NoSession) /\ p = Cleaner
      BY <1>4 DEF Store, TypeOK, Procs
    <2>2. QED
      BY <1>2, <2>1
  <1>5. CASE pc[p] \notin {"renew", "mark"}
    <2>1. Goto(p, "idle", NoSid, NoSession) /\ p # Cleaner
      BY <1>1, <1>5 DEF Store, TypeOK, StoreSteps
    <2>2. QED
      BY <1>2, <2>1
  <1>6. QED
    BY <1>3, <1>4, <1>5

\* The session stored by Evict, if one is, and its key.
LEMMA EvictKeepsEntries ==
    ASSUME TypeOK, NEW w \in Workers, Evict(w)
    PROVE  /\ sessions' \in [Sids -> Session \union {NoSession}]
           /\ \A k \in Sids : Stored(k) => Stored(k)'
           /\ \/ sessions' = sessions
              \/ \E f \in found[w] :
                    /\ f[1] \in Sids /\ f[2] \in Session
                    /\ sessions'[f[1]] \in Session
                    /\ sessions'[f[1]].status = "revoked"
                    /\ sessions'[f[1]].user = f[2].user
                    /\ sessions'[f[1]].created = f[2].created
                    /\ sessions'[f[1]].expires = f[2].expires
                    /\ \A k \in Sids \ {f[1]} : sessions'[k] = sessions[k]
  <1>1. CASE UNCHANGED sessions
    BY <1>1 DEF TypeOK, Stored
  <1>2. ASSUME NEW f \in found[w],
               sessions' = [sessions EXCEPT ![f[1]] = [f[2] EXCEPT !.status = "revoked"]]
        PROVE  /\ sessions' \in [Sids -> Session \union {NoSession}]
               /\ \A k \in Sids : Stored(k) => Stored(k)'
               /\ f[1] \in Sids /\ f[2] \in Session
               /\ sessions'[f[1]] \in Session
               /\ sessions'[f[1]].status = "revoked"
               /\ sessions'[f[1]].user = f[2].user
               /\ sessions'[f[1]].created = f[2].created
               /\ sessions'[f[1]].expires = f[2].expires
               /\ \A k \in Sids \ {f[1]} : sessions'[k] = sessions[k]
    <2> DEFINE y == [f[2] EXCEPT !.status = "revoked"]
    <2>1. f[1] \in Sids /\ f[2] \in Session
      BY DEF TypeOK
    <2>2. /\ y \in Session /\ y.status = "revoked" /\ y.user = f[2].user
          /\ y.created = f[2].created /\ y.expires = f[2].expires
      BY <2>1, WithStatus DEF Status
    <2>3. sessions' = [sessions EXCEPT ![f[1]] = y]
      BY <1>2
    <2> HIDE DEF y
    <2>4. /\ sessions' \in [Sids -> Session \union {NoSession}]
          /\ sessions'[f[1]] = y
          /\ \A k \in Sids \ {f[1]} : sessions'[k] = sessions[k]
      BY <2>1, <2>2, <2>3 DEF TypeOK
    <2>5. \A k \in Sids : Stored(k) => Stored(k)'
      BY <2>2, <2>4, NoSessionApart DEF Stored
    <2>6. QED
      BY <2>1, <2>2, <2>4, <2>5
  <1>3. QED
    BY <1>1, <1>2 DEF Evict

LEMMA WorkerTypeOK ==
    ASSUME TypeOK, NEW w \in Workers, Arrival(w) \/ Continue(w) PROVE TypeOK'
  <1>0. w \in Procs /\ w # Cleaner /\ Cleaner \in Procs /\ NoSession \in Entry
    BY SessionAssumption DEF Procs, Entry
  <1>1. ASSUME NEW u \in Users, NEW s \in Sids, Login(w, u, s) PROVE TypeOK'
    <2> DEFINE x == [user |-> u, status |-> "active",
                     created |-> now, expires |-> now + TTL]
    <2>1. x \in Session
      BY SessionAssumption DEF Session, Status, TypeOK
    <2>2. Goto(w, "scan", s, x)
      BY <1>1 DEF Login
    <2> HIDE DEF x
    <2>3. left' \in [Procs -> SUBSET Sids]
      BY <1>1 DEF Login, TypeOK
    <2>4. x # NoSession /\ x \in Entry /\ s # NoSid
      BY <2>1, NoSessionApart, StoredEntry DEF Entry
    <2>5. now' \in Nat /\ stamp' \in Nat /\ UNCHANGED <<sessions, found>>
      BY <1>1 DEF Login, TypeOK
    <2>6. QED
      BY <1>0, <2>2, <2>3, <2>4, <2>5, GotoTypeOK DEF Steps, StoreSteps, Existing
  <1>2. ASSUME NEW s \in Sids, Scan(w, s) PROVE TypeOK'
    <2>1. left' \in [Procs -> SUBSET Sids]
      BY <1>2 DEF Scan, TypeOK
    <2>2. found' \in [Workers -> SUBSET (Sids \X Session)]
      <3>1. CASE Active(s) /\ sessions[s].user = copy[w].user
        <4>1. <<s, sessions[s]>> \in Sids \X Session
          BY <3>1, StoredEntry DEF Active
        <4>2. QED
          BY <1>2, <3>1, <4>1 DEF Scan, TypeOK
      <3>2. QED
        BY <1>2, <3>1 DEF Scan, TypeOK
    <2>3. /\ pc[w] = "scan"
          /\ pc' = [pc EXCEPT ![w] = IF left[w] = {s} THEN "evict" ELSE "scan"]
          /\ UNCHANGED <<sessions, now, sid, copy, stamp>>
      BY <1>2 DEF Scan
    <2>4. QED
      BY <1>0, <2>1, <2>2, <2>3 DEF TypeOK, Steps, StoreSteps, Existing, Stored
  <1>3. ASSUME Evict(w) PROVE TypeOK'
    <2>1. /\ sessions' \in [Sids -> Session \union {NoSession}]
          /\ \A k \in Sids : Stored(k) => Stored(k)'
      BY <1>3, EvictKeepsEntries
    <2>2. found' \in [Workers -> SUBSET (Sids \X Session)]
      BY <1>3 DEF Evict, TypeOK
    <2>3. /\ pc[w] = "evict" /\ pc' = [pc EXCEPT ![w] = "insert"]
          /\ UNCHANGED <<now, sid, copy, left, stamp>>
      BY <1>3 DEF Evict
    <2>4. \A q \in Procs : pc'[q] \in Existing => Stored(sid[q])'
      <3>1. \A q \in Procs : pc'[q] \in Existing => pc[q] \in Existing
        BY <1>0, <2>3 DEF TypeOK, Existing
      <3>2. \A q \in Procs : pc[q] \in Existing => sid[q] \in Sids
        BY DEF TypeOK, Existing
      <3>3. \A q \in Procs : pc[q] \in Existing => Stored(sid[q])'
        BY <2>1, <2>3, <3>2 DEF TypeOK, Stored
      <3>4. QED
        BY <3>1, <3>3
    <2>5. QED
      BY <1>0, <2>1, <2>2, <2>3, <2>4 DEF TypeOK, Steps, StoreSteps
  <1>4. ASSUME NEW s \in Sids, GetOverdue(w, s) PROVE TypeOK'
    <2>1. Stored(s) /\ [sessions[s] EXCEPT !.status = "expired"] \in Session
      BY <1>4, StoredEntry, WithStatus DEF GetOverdue, Active, Status
    <2>2. s # NoSid /\ [sessions[s] EXCEPT !.status = "expired"] # NoSession
      BY <2>1, NoSessionApart, StoredEntry
    <2>3. Goto(w, "expire", s, [sessions[s] EXCEPT !.status = "expired"])
      BY <1>4 DEF GetOverdue, PrepareStatus
    <2>4. /\ now' \in Nat /\ stamp' \in Nat /\ UNCHANGED <<sessions, found>>
          /\ left' \in [Procs -> SUBSET Sids]
      BY <1>4 DEF GetOverdue, TypeOK
    <2>5. QED
      BY <1>0, <2>1, <2>2, <2>3, <2>4, GotoTypeOK DEF Steps, StoreSteps, Entry
  <1>5. ASSUME NEW s \in Sids, Get(w, s) PROVE TypeOK'
    <2>1. Stored(s) /\ sessions[s] \in Session /\ sessions[s] # NoSession /\ s # NoSid
      BY <1>5, StoredEntry DEF Get, Active, Stored
    <2>2. /\ now' \in Nat /\ stamp' \in Nat /\ UNCHANGED <<sessions, found>>
          /\ left' \in [Procs -> SUBSET Sids]
          /\ Goto(w, "authed", s, sessions[s])
      BY <1>5 DEF Get, TypeOK
    <2>3. QED
      BY <1>0, <2>1, <2>2, GotoTypeOK DEF Steps, StoreSteps, Entry
  <1>6. ASSUME pc[w] \in {"authed", "handle"}
        PROVE  sid[w] \in Sids /\ sid[w] # NoSid /\ Stored(sid[w])
    BY <1>0, <1>6, StoredEntry DEF TypeOK, Existing
  <1>7. ASSUME Renew(w) PROVE TypeOK'
    <2>1. sid[w] \in Sids /\ sid[w] # NoSid /\ Stored(sid[w])
      BY <1>6, <1>7 DEF Renew
    <2>2. /\ now' \in Nat /\ stamp' \in Nat /\ UNCHANGED <<sessions, found>>
          /\ left' \in [Procs -> SUBSET Sids]
      BY <1>7 DEF Renew, TypeOK
    <2>3. CASE Active(sid[w]) /\ Goto(w, "renew", sid[w], Renewed(sessions[sid[w]]))
      <3>1. Renewed(sessions[sid[w]]) \in Session
        BY <2>1, <2>3, StoredEntry, RenewedSession, SessionAssumption
        DEF Active, TypeOK
      <3>2. Renewed(sessions[sid[w]]) # NoSession
        BY <3>1, NoSessionApart
      <3>3. QED
        BY <1>0, <2>1, <2>2, <2>3, <3>1, <3>2, GotoTypeOK DEF Steps, StoreSteps, Entry
    <2>4. CASE Goto(w, "handle", sid[w], NoSession)
      BY <1>0, <2>1, <2>2, <2>4, GotoTypeOK DEF Steps, StoreSteps
    <2>5. QED
      BY <1>7, <2>3, <2>4 DEF Renew
  <1>8. ASSUME NoRenew(w) PROVE TypeOK'
    <2>1. sid[w] \in Sids /\ sid[w] # NoSid /\ Stored(sid[w])
      BY <1>6, <1>8 DEF NoRenew
    <2>2. /\ now' \in Nat /\ stamp' \in Nat /\ UNCHANGED <<sessions, found>>
          /\ left' \in [Procs -> SUBSET Sids]
          /\ Goto(w, "handle", sid[w], NoSession)
      BY <1>8 DEF NoRenew, TypeOK
    <2>3. QED
      BY <1>0, <2>1, <2>2, GotoTypeOK DEF Steps, StoreSteps
  <1>9. ASSUME Handle(w) PROVE TypeOK'
    <2>1. /\ now' \in Nat /\ stamp' \in Nat /\ UNCHANGED <<sessions, found>>
          /\ left' \in [Procs -> SUBSET Sids]
          /\ Goto(w, "idle", NoSid, NoSession)
      BY <1>9 DEF Handle, TypeOK
    <2>2. QED
      BY <1>0, <2>1, GotoTypeOK DEF Steps, StoreSteps, Existing
  <1>10. ASSUME Logout(w) PROVE TypeOK'
    <2>1. sid[w] \in Sids /\ sid[w] # NoSid /\ Stored(sid[w])
      BY <1>6, <1>10 DEF Logout
    <2>2. /\ now' \in Nat /\ stamp' \in Nat /\ UNCHANGED <<sessions, found>>
          /\ left' \in [Procs -> SUBSET Sids]
          /\ Goto(w, "revoke", sid[w], [sessions[sid[w]] EXCEPT !.status = "revoked"])
      BY <1>10 DEF Logout, PrepareStatus, TypeOK
    <2>3. [sessions[sid[w]] EXCEPT !.status = "revoked"] \in Session
      BY <2>1, StoredEntry, WithStatus DEF Status
    <2>4. [sessions[sid[w]] EXCEPT !.status = "revoked"] # NoSession
      BY <2>3, NoSessionApart
    <2>5. QED
      BY <1>0, <2>1, <2>2, <2>3, <2>4, GotoTypeOK DEF Steps, StoreSteps, Entry
  <1>11. QED
    BY <1>0, <1>1, <1>2, <1>3, <1>4, <1>5, <1>7, <1>8, <1>9, <1>10, StoreTypeOK
    DEF Arrival, Continue

LEMMA CleanTypeOK == ASSUME TypeOK, Clean PROVE TypeOK'
  <1>0. Cleaner \in Procs /\ Cleaner \notin Workers /\ NoSession \in Entry
    BY SessionAssumption DEF Procs, Entry
  <1>1. CASE CleanStart
    <2>1. /\ now' \in Nat /\ stamp' \in Nat /\ UNCHANGED <<sessions, found>>
          /\ left' \in [Procs -> SUBSET Sids]
          /\ Goto(Cleaner, "clean", NoSid, NoSession)
      BY <1>1 DEF CleanStart, TypeOK
    <2>2. QED
      BY <1>0, <2>1, GotoTypeOK DEF Steps, StoreSteps, Existing
  <1>2. ASSUME NEW s \in Sids, CleanVisit(s) PROVE TypeOK'
    <2>1. /\ now' \in Nat /\ stamp' \in Nat /\ UNCHANGED <<sessions, found>>
          /\ left' \in [Procs -> SUBSET Sids]
      BY <1>2 DEF CleanVisit, TypeOK
    <2>2. CASE Active(s) /\ Overdue(sessions[s], stamp)
      <3>1. Stored(s) /\ [sessions[s] EXCEPT !.status = "expired"] \in Session
        BY <2>2, StoredEntry, WithStatus DEF Active, Status
      <3>2. s # NoSid /\ [sessions[s] EXCEPT !.status = "expired"] # NoSession
        BY <3>1, NoSessionApart, StoredEntry
      <3>3. Goto(Cleaner, "mark", s, [sessions[s] EXCEPT !.status = "expired"])
        BY <1>2, <2>2 DEF CleanVisit, PrepareStatus
      <3>4. QED
        BY <1>0, <2>1, <3>1, <3>2, <3>3, GotoTypeOK DEF Steps, StoreSteps, Entry
    <2>3. CASE ~(Active(s) /\ Overdue(sessions[s], stamp))
      <3>1. UNCHANGED <<sessions, now, pc, sid, copy, found, stamp>>
        BY <1>2, <2>3 DEF CleanVisit
      <3>2. QED
        BY <2>1, <3>1 DEF TypeOK, Stored
    <2>4. QED
      BY <2>2, <2>3
  <1>3. CASE CleanEnd
    <2>1. /\ now' \in Nat /\ stamp' \in Nat /\ UNCHANGED <<sessions, found>>
          /\ left' \in [Procs -> SUBSET Sids]
          /\ Goto(Cleaner, "idle", NoSid, NoSession)
      BY <1>3 DEF CleanEnd, TypeOK
    <2>2. QED
      BY <1>0, <2>1, GotoTypeOK DEF Steps, StoreSteps, Existing
  <1>4. QED
    BY <1>0, <1>1, <1>2, <1>3, StoreTypeOK DEF Clean

LEMMA NextTypeOK == TypeOK /\ [Next]_vars => TypeOK'
  <1>1. SUFFICES ASSUME TypeOK, [Next]_vars PROVE TypeOK'
    OBVIOUS
  <1>2. CASE UNCHANGED vars
    BY <1>1, <1>2 DEF vars, TypeOK, Stored
  <1>3. CASE Tick
    BY <1>1, <1>3 DEF Tick, TypeOK, Stored
  <1>4. QED
    BY <1>1, <1>2, <1>3, WorkerTypeOK, CleanTypeOK DEF Next

\* Type correctness (TypeOK), which includes that a request past Get works on
\* an entry that is in the map: none ever leaves it.
THEOREM TypeCorrect == Spec => []TypeOK
  <1>1. QED
    BY InitTypeOK, NextTypeOK, PTL DEF Spec

-----------------------------------------------------------------------------
(* Lifetimes.                                                              *)

\* What is known at time t of a copy of a session, wherever it is.
Sound(x, t) ==
    /\ Bounded(x)
    /\ x # NoSession => x.expires <= t + TTL
    /\ x # NoSession /\ x.status = "expired" => t > x.expires

\* The inductive invariant behind the properties about lifetimes.
TimesInv ==
    /\ \A s \in Sids : Sound(sessions[s], now)
    /\ \A p \in Procs : Sound(copy[p], now)
    /\ \A w \in Workers : \A f \in found[w] : Sound(f[2], now)
    /\ stamp <= now

LEMMA SoundStatus ==
    ASSUME NEW x \in Session, NEW t \in Nat, Sound(x, t), NEW st \in Status,
           st = "expired" => t > x.expires
    PROVE  Sound([x EXCEPT !.status = st], t)
  <1> DEFINE y == [x EXCEPT !.status = st]
  <1>1. /\ y \in Session /\ y.status = st
        /\ y.created = x.created /\ y.expires = x.expires
    BY WithStatus
  <1> HIDE DEF y
  <1>2. Sound(y, t)
    BY <1>1, NoSessionApart DEF Sound, Bounded
  <1>3. QED
    BY <1>2 DEF y

LEMMA SoundNoSession == ASSUME NEW t PROVE Sound(NoSession, t)
  BY DEF Sound, Bounded

LEMMA SoundGoto ==
    ASSUME TypeOK, TimesInv, NEW p \in Procs, NEW step, NEW s, NEW x,
           Goto(p, step, s, x), Sound(x, now), UNCHANGED <<sessions, found>>,
           UNCHANGED now, stamp' <= now'
    PROVE  TimesInv'
  <1>1. \A q \in Procs : copy'[q] = IF q = p THEN x ELSE copy[q]
    BY DEF Goto, TypeOK
  <1>2. \A q \in Procs : Sound(copy'[q], now)
    BY <1>1 DEF TimesInv
  <1>3. QED
    BY <1>2 DEF TimesInv

LEMMA SoundStore == ASSUME TypeOK, TimesInv, NEW p \in Procs, Store(p) PROVE TimesInv'
  <1>1. /\ sid[p] \in Sids
        /\ sessions'[sid[p]] = copy[p]
        /\ \A k \in Sids \ {sid[p]} : sessions'[k] = sessions[k]
    BY StoreKeepsEntries
  <1>2. \A s \in Sids : Sound(sessions'[s], now)
    BY <1>1 DEF TimesInv
  <1>3. \A q \in Procs : copy'[q] = IF q = p THEN NoSession ELSE copy[q]
    BY DEF Store, Goto, TypeOK
  <1>4. \A q \in Procs : Sound(copy'[q], now)
    BY <1>3, SoundNoSession DEF TimesInv
  <1>5. QED
    BY <1>2, <1>4 DEF TimesInv, Store

LEMMA SoundWorker ==
    ASSUME TypeOK, TimesInv, NEW w \in Workers, Arrival(w) \/ Continue(w)
    PROVE  TimesInv'
  <1>0. w \in Procs /\ now \in Nat
    BY DEF Procs, TypeOK
  <1>1. ASSUME NEW u \in Users, NEW s \in Sids, Login(w, u, s) PROVE TimesInv'
    <2> DEFINE x == [user |-> u, status |-> "active",
                     created |-> now, expires |-> now + TTL]
    <2>1. Sound(x, now)
      BY <1>0, SessionAssumption DEF Sound, Bounded
    <2>2. Goto(w, "scan", s, x) /\ UNCHANGED <<sessions, now, found, stamp>>
      BY <1>1 DEF Login
    <2>3. stamp' <= now'
      BY <2>2 DEF TimesInv
    <2> HIDE DEF x
    <2>4. QED
      BY <1>0, <2>1, <2>2, <2>3, SoundGoto
  <1>2. ASSUME NEW s \in Sids, Scan(w, s) PROVE TimesInv'
    <2>1. \A v \in Workers : \A f \in found'[v] : f \in found[v] \/ f = <<s, sessions[s]>>
      BY <1>2 DEF Scan, TypeOK
    <2>2. <<s, sessions[s]>>[2] = sessions[s]
      OBVIOUS
    <2>3. \A v \in Workers : \A f \in found'[v] : Sound(f[2], now)
      BY <2>1, <2>2 DEF TimesInv
    <2>4. QED
      BY <1>2, <2>3 DEF Scan, TimesInv
  <1>3. ASSUME Evict(w) PROVE TimesInv'
    <2>1. \A s \in Sids : Sound(sessions'[s], now)
      <3>1. CASE sessions' = sessions
        BY <3>1 DEF TimesInv
      <3>2. ASSUME NEW f \in found[w],
                   f[1] \in Sids, f[2] \in Session,
                   sessions'[f[1]] \in Session,
                   sessions'[f[1]].status = "revoked",
                   sessions'[f[1]].created = f[2].created,
                   sessions'[f[1]].expires = f[2].expires,
                   \A k \in Sids \ {f[1]} : sessions'[k] = sessions[k]
            PROVE  \A s \in Sids : Sound(sessions'[s], now)
        <4>1. Sound(f[2], now)
          BY DEF TimesInv
        <4>2. Sound(sessions'[f[1]], now)
          BY <3>2, <4>1, NoSessionApart DEF Sound, Bounded
        <4>3. QED
          BY <3>2, <4>2 DEF TimesInv
      <3>3. QED
        BY <1>3, <3>1, <3>2, EvictKeepsEntries
    <2>2. \A v \in Workers : \A f \in found'[v] : f \in found[v]
      BY <1>3 DEF Evict, TypeOK
    <2>3. QED
      BY <1>3, <2>1, <2>2 DEF Evict, TimesInv
  <1>4. ASSUME NEW s \in Sids, GetOverdue(w, s) PROVE TimesInv'
    <2>1. sessions[s] \in Session /\ now > sessions[s].expires
      BY <1>4, StoredEntry DEF GetOverdue, Active, Overdue
    <2>2. Sound([sessions[s] EXCEPT !.status = "expired"], now)
      BY <1>0, <2>1, SoundStatus DEF TimesInv, Status
    <2>3. /\ Goto(w, "expire", s, [sessions[s] EXCEPT !.status = "expired"])
          /\ UNCHANGED <<sessions, now, found, stamp>>
      BY <1>4 DEF GetOverdue, PrepareStatus
    <2>4. stamp' <= now'
      BY <2>3 DEF TimesInv
    <2>5. QED
      BY <1>0, <2>2, <2>3, <2>4, SoundGoto
  <1>5. ASSUME NEW s \in Sids, Get(w, s) PROVE TimesInv'
    <2>1. Sound(sessions[s], now) /\ stamp <= now
      BY DEF TimesInv
    <2>2. Goto(w, "authed", s, sessions[s]) /\ UNCHANGED <<sessions, now, found, stamp>>
      BY <1>5 DEF Get
    <2>3. QED
      BY <1>0, <2>1, <2>2, SoundGoto
  <1>6. ASSUME Renew(w) PROVE TimesInv'
    <2>1. sid[w] \in Sids
      BY <1>0, <1>6, InHand DEF Renew
    <2>2. stamp' <= now' /\ UNCHANGED <<sessions, now, found>>
      BY <1>6 DEF Renew, TimesInv
    <2>3. CASE Active(sid[w]) /\ Goto(w, "renew", sid[w], Renewed(sessions[sid[w]]))
      <3>1. sessions[sid[w]] \in Session /\ sessions[sid[w]].status = "active"
        BY <2>1, <2>3, StoredEntry DEF Active
      <3>2. Bounded(sessions[sid[w]]) /\ sessions[sid[w]].expires <= now + TTL
        BY <2>1, <3>1, NoSessionApart DEF TimesInv, Sound
      <3>3. Sound(Renewed(sessions[sid[w]]), now)
        BY <1>0, <3>1, <3>2, RenewedSession, SessionAssumption DEF Sound
      <3>4. QED
        BY <1>0, <2>2, <2>3, <3>3, SoundGoto
    <2>4. CASE Goto(w, "handle", sid[w], NoSession)
      BY <1>0, <2>2, <2>4, SoundGoto, SoundNoSession
    <2>5. QED
      BY <1>6, <2>3, <2>4 DEF Renew
  <1>7. ASSUME NoRenew(w) \/ Handle(w) PROVE TimesInv'
    <2>1. /\ Goto(w, "handle", sid[w], NoSession) \/ Goto(w, "idle", NoSid, NoSession)
          /\ UNCHANGED <<sessions, now, found, stamp>>
      BY <1>7 DEF NoRenew, Handle
    <2>2. stamp' <= now'
      BY <2>1 DEF TimesInv
    <2>3. QED
      BY <1>0, <2>1, <2>2, SoundGoto, SoundNoSession
  <1>8. ASSUME Logout(w) PROVE TimesInv'
    <2>1. sid[w] \in Sids /\ Stored(sid[w])
      BY <1>0, <1>8 DEF Logout, TypeOK, Existing
    <2>2. Sound([sessions[sid[w]] EXCEPT !.status = "revoked"], now)
      BY <1>0, <2>1, StoredEntry, SoundStatus DEF TimesInv, Status
    <2>3. /\ Goto(w, "revoke", sid[w], [sessions[sid[w]] EXCEPT !.status = "revoked"])
          /\ UNCHANGED <<sessions, now, found, stamp>>
      BY <1>8 DEF Logout, PrepareStatus
    <2>4. stamp' <= now'
      BY <2>3 DEF TimesInv
    <2>5. QED
      BY <1>0, <2>2, <2>3, <2>4, SoundGoto
  <1>9. QED
    BY <1>0, <1>1, <1>2, <1>3, <1>4, <1>5, <1>6, <1>7, <1>8, SoundStore
    DEF Arrival, Continue

LEMMA SoundClean == ASSUME TypeOK, TimesInv, Clean PROVE TimesInv'
  <1>0. Cleaner \in Procs /\ now \in Nat /\ stamp \in Nat /\ stamp <= now
    BY DEF Procs, TypeOK, TimesInv
  <1>1. CASE CleanStart \/ CleanEnd
    <2>1. /\ \E step \in {"clean", "idle"} : Goto(Cleaner, step, NoSid, NoSession)
          /\ UNCHANGED <<sessions, now, found>>
          /\ stamp' <= now'
      BY <1>0, <1>1 DEF CleanStart, CleanEnd
    <2>2. QED
      BY <1>0, <2>1, SoundGoto, SoundNoSession
  <1>2. ASSUME NEW s \in Sids, CleanVisit(s) PROVE TimesInv'
    <2>1. UNCHANGED <<sessions, now, found, stamp>> /\ stamp' <= now'
      BY <1>0, <1>2 DEF CleanVisit
    <2>2. CASE Active(s) /\ Overdue(sessions[s], stamp)
      <3>1. sessions[s] \in Session /\ sessions[s].expires \in Nat
        BY <2>2, StoredEntry DEF Active, Session
      <3>2. now > sessions[s].expires
        BY <1>0, <2>2, <3>1 DEF Overdue
      <3>3. Sound([sessions[s] EXCEPT !.status = "expired"], now)
        BY <1>0, <3>1, <3>2, SoundStatus DEF TimesInv, Status
      <3>4. Goto(Cleaner, "mark", s, [sessions[s] EXCEPT !.status = "expired"])
        BY <1>2, <2>2 DEF CleanVisit, PrepareStatus
      <3>5. QED
        BY <1>0, <2>1, <3>3, <3>4, SoundGoto
    <2>3. CASE ~(Active(s) /\ Overdue(sessions[s], stamp))
      <3>1. UNCHANGED <<sessions, now, copy, found, stamp>>
        BY <1>2, <2>3 DEF CleanVisit
      <3>2. QED
        BY <3>1 DEF TimesInv
    <2>4. QED
      BY <2>2, <2>3
  <1>3. QED
    BY <1>0, <1>1, <1>2, SoundStore DEF Clean

LEMMA SoundTick == ASSUME TypeOK, TimesInv, Tick PROVE TimesInv'
  <1>1. ASSUME NEW x \in Entry, Sound(x, now) PROVE Sound(x, now')
    <2>1. x # NoSession => x.expires \in Nat
      BY DEF Entry, Session
    <2>2. now \in Nat /\ now' = now + 1 /\ TTL \in Nat
      BY SessionAssumption DEF Tick, TypeOK
    <2>3. QED
      BY <1>1, <2>1, <2>2 DEF Sound
  <1>2. /\ \A s \in Sids : sessions[s] \in Entry
        /\ \A p \in Procs : copy[p] \in Entry
        /\ \A w \in Workers : \A f \in found[w] : f[2] \in Entry
    BY DEF TypeOK, Entry
  <1>3. stamp' <= now'
    BY DEF Tick, TimesInv, TypeOK
  <1>4. UNCHANGED <<sessions, copy, found>>
    BY DEF Tick
  <1>5. QED
    BY <1>1, <1>2, <1>3, <1>4 DEF TimesInv

LEMMA InitTimesInv == Init => TimesInv
  BY SoundNoSession DEF Init, TimesInv

LEMMA NextTimesInv == TypeOK /\ TimesInv /\ [Next]_vars => TimesInv'
  <1>1. SUFFICES ASSUME TypeOK, TimesInv, [Next]_vars PROVE TimesInv'
    OBVIOUS
  <1>2. CASE UNCHANGED vars
    BY <1>1, <1>2 DEF vars, TimesInv
  <1>3. QED
    BY <1>1, <1>2, SoundWorker, SoundClean, SoundTick DEF Next

LEMMA TimesInvAlways == Spec => []TimesInv
  <1>1. QED
    BY InitTimesInv, NextTimesInv, TypeCorrect, PTL DEF Spec

\* LifetimeBound: no copy of a session outlives MaxSessionLifetime, whatever
\* overlaps, for every TTL and every lifetime at least as long.
THEOREM LifetimeBoundAlways == Spec => []LifetimeBound
  <1>1. TimesInv => LifetimeBound
    BY DEF TimesInv, LifetimeBound, Sound
  <1>2. QED
    BY <1>1, TimesInvAlways, PTL

\* A step of p leaves the other processes where they are.
LEMMA GotoOthers ==
    ASSUME TypeOK, NEW p, NEW step, NEW s, NEW x, Goto(p, step, s, x)
    PROVE  \A q \in Procs \ {p} :
              pc'[q] = pc[q] /\ sid'[q] = sid[q] /\ copy'[q] = copy[q]
  BY DEF Goto, TypeOK

LEMMA StoreOthers ==
    ASSUME TypeOK, NEW p, Store(p)
    PROVE  \A q \in Procs \ {p} :
              pc'[q] = pc[q] /\ sid'[q] = sid[q] /\ copy'[q] = copy[q]
  BY GotoOthers DEF Store

LEMMA OthersStay ==
    ASSUME TypeOK, NEW p \in Procs,
           \/ p \in Workers /\ (Arrival(p) \/ Continue(p))
           \/ p = Cleaner /\ Clean
    PROVE  \A q \in Procs \ {p} :
              pc'[q] = pc[q] /\ sid'[q] = sid[q] /\ copy'[q] = copy[q]
  <1>1. CASE p = Cleaner /\ Clean
    <2>1. CASE CleanStart \/ CleanEnd
      BY <1>1, <2>1, GotoOthers DEF CleanStart, CleanEnd
    <2>2. CASE \E s \in Sids : CleanVisit(s)
      BY <1>1, <2>2, GotoOthers DEF CleanVisit, PrepareStatus
    <2>3. QED
      BY <1>1, <2>1, <2>2, StoreOthers DEF Clean
  <1>2. CASE Arrival(p)
    <2>1. \E step, s, x : Goto(p, step, s, x)
      BY <1>2 DEF Arrival, Login, GetOverdue, Get, PrepareStatus
    <2>2. QED
      BY <2>1, GotoOthers
  <1>3. CASE Continue(p)
    <2>1. CASE (\E s \in Sids : Scan(p, s)) \/ Evict(p)
      BY <2>1 DEF Scan, Evict, TypeOK
    <2>2. CASE Renew(p) \/ NoRenew(p) \/ Handle(p) \/ Logout(p)
      <3>1. \E step, s, x : Goto(p, step, s, x)
        BY <2>2 DEF Renew, NoRenew, Handle, Logout, PrepareStatus
      <3>2. QED
        BY <3>1, GotoOthers
    <2>3. QED
      BY <1>3, <2>1, <2>2, StoreOthers DEF Continue
  <1>4. QED
    BY <1>1, <1>2, <1>3

\* AuthWithinLifetime: the middleware lets nobody in with a session older than
\* MaxSessionLifetime.
THEOREM AuthWithinLifetimeAlways == Spec => AuthWithinLifetime
  <1>1. ASSUME TypeOK, TimesInv, [Next]_vars, NEW w \in Workers,
               pc[w] = "idle", pc'[w] = "authed"
        PROVE  now <= copy'[w].created + MaxLifetime
    <2>0. w \in Procs /\ Cleaner \in Procs /\ w # Cleaner
      BY SessionAssumption DEF Procs
    <2>1. PICK s \in Sids : Get(w, s)
      <3>1. CASE UNCHANGED vars
        BY <1>1, <3>1 DEF vars
      <3>2. CASE Tick
        BY <1>1, <3>2 DEF Tick
      <3>3. CASE Clean
        BY <1>1, <2>0, <3>3, OthersStay
      <3>4. ASSUME NEW v \in Workers, Arrival(v) \/ Continue(v), v # w
            PROVE  pc'[w] = pc[w]
        BY <1>1, <2>0, <3>4, OthersStay DEF Procs
      <3>5. CASE Arrival(w) \/ Continue(w)
        <4>1. ~Continue(w)
          BY <1>1 DEF Continue, Scan, Evict, Renew, NoRenew, Handle, Logout, Store,
                      StoreSteps
        <4>2. \A u \in Users, s \in Sids : ~Login(w, u, s)
          BY <1>1, <2>0 DEF Login, Goto, TypeOK
        <4>3. \A s \in Sids : ~GetOverdue(w, s)
          BY <1>1, <2>0 DEF GetOverdue, PrepareStatus, Goto, TypeOK
        <4>4. QED
          BY <3>5, <4>1, <4>2, <4>3 DEF Arrival
      <3>6. QED
        BY <1>1, <3>1, <3>2, <3>3, <3>4, <3>5 DEF Next
    <2>2. sessions[s] \in Session /\ now <= sessions[s].expires
      BY <1>1, <2>1, StoredEntry DEF Get, Active, Overdue, Session, TypeOK
    <2>3. sessions[s].expires <= sessions[s].created + MaxLifetime
      BY <1>1, <2>2, NoSessionApart DEF TimesInv, Sound, Bounded
    <2>4. copy'[w] = sessions[s]
      BY <1>1, <2>0, <2>1 DEF Get, Goto, TypeOK
    <2>5. now \in Nat /\ MaxLifetime \in Nat
          /\ sessions[s].expires \in Nat /\ sessions[s].created \in Nat
      BY <1>1, <2>2, SessionAssumption DEF TypeOK, Session
    <2>6. QED
      BY <2>2, <2>3, <2>4, <2>5
  <1>2. TypeOK /\ TimesInv /\ [Next]_vars =>
          [\A w \in Workers : pc[w] = "idle" /\ pc'[w] = "authed"
                                 => now <= copy'[w].created + MaxLifetime]_vars
    BY <1>1
  <1>3. QED
    BY <1>2, TypeCorrect, TimesInvAlways, PTL DEF Spec, AuthWithinLifetime

-----------------------------------------------------------------------------
(* Sessions that are over.                                                 *)

\* An id just drawn is in nobody else's hands and not in the map; Create
\* finds only keys of the map.
Drawing == {"scan", "evict", "insert"}

KeysInv ==
    /\ \A w \in Workers : pc[w] \in Drawing =>
          ~Stored(sid[w]) /\ \A q \in Procs \ {w} : sid[q] # sid[w]
    /\ \A w \in Workers : \A f \in found[w] : Stored(f[1])

LEMMA DrawnId ==
    ASSUME TypeOK, NEW w \in Workers, pc[w] \in Drawing
    PROVE  w \in Procs /\ sid[w] \in Sids /\ sid[w] # NoSid
  BY InHand, StoredEntry DEF Drawing, StoreSteps, Procs

\* A step that moves p on to an entry of the map, or to none.
LEMMA KeysGoto ==
    ASSUME TypeOK, KeysInv, NEW p \in Procs, NEW step, NEW s \in Sids \union {NoSid},
           NEW x, Goto(p, step, s, x), UNCHANGED <<sessions, found>>,
           step \notin Drawing, s # NoSid => Stored(s)
    PROVE  KeysInv'
  <1>1. /\ pc'[p] = step /\ sid'[p] = s
        /\ \A q \in Procs \ {p} : pc'[q] = pc[q] /\ sid'[q] = sid[q]
    BY DEF Goto, TypeOK
  <1>2. ASSUME NEW w \in Workers, pc'[w] \in Drawing
        PROVE  ~Stored(sid[w])' /\ \A q \in Procs \ {w} : sid'[q] # sid'[w]
    <2>1. w \in Procs /\ w # p /\ pc[w] \in Drawing /\ sid'[w] = sid[w]
      BY <1>1, <1>2 DEF Procs
    <2>2. ~Stored(sid[w]) /\ \A q \in Procs \ {w} : sid[q] # sid[w]
      BY <2>1 DEF KeysInv
    <2>3. s # sid[w]
      BY <2>1, <2>2, DrawnId
    <2>4. QED
      BY <1>1, <2>1, <2>2, <2>3 DEF Stored
  <1>3. \A w \in Workers : \A f \in found'[w] : Stored(f[1])'
    BY DEF KeysInv, Stored
  <1>4. QED
    BY <1>2, <1>3 DEF KeysInv

LEMMA KeysStore == ASSUME TypeOK, KeysInv, NEW p \in Procs, Store(p) PROVE KeysInv'
  <1>1. /\ pc[p] \in StoreSteps /\ sid[p] \in Sids
        /\ \A k \in Sids \ {sid[p]} : sessions'[k] = sessions[k]
        /\ \A k \in Sids : Stored(k) => sessions'[k] # NoSession
    BY StoreKeepsEntries
  <1>2. /\ pc'[p] \in {"handle", "clean", "idle"} /\ sid'[p] \in {sid[p], NoSid}
        /\ \A q \in Procs \ {p} : pc'[q] = pc[q] /\ sid'[q] = sid[q]
    BY DEF Store, Goto, TypeOK
  <1>3. ASSUME NEW w \in Workers, pc'[w] \in Drawing
        PROVE  ~Stored(sid[w])' /\ \A q \in Procs \ {w} : sid'[q] # sid'[w]
    <2>1. w \in Procs /\ w # p /\ pc[w] \in Drawing /\ sid'[w] = sid[w]
      BY <1>2, <1>3 DEF Procs, Drawing
    <2>2. ~Stored(sid[w]) /\ \A q \in Procs \ {w} : sid[q] # sid[w]
      BY <2>1 DEF KeysInv
    <2>3. sid[w] \in Sids /\ sid[w] # NoSid
      BY <2>1, DrawnId
    <2>4. sessions'[sid[w]] = sessions[sid[w]]
      BY <1>1, <2>1, <2>2, <2>3
    <2>5. QED
      BY <1>2, <2>1, <2>2, <2>3, <2>4 DEF Stored
  <1>4. \A w \in Workers : \A f \in found'[w] : Stored(f[1])'
    <2>1. found' = found
      BY DEF Store
    <2>2. \A w \in Workers : \A f \in found[w] : f[1] \in Sids /\ Stored(f[1])
      BY DEF KeysInv, TypeOK
    <2>3. QED
      BY <1>1, <2>1, <2>2 DEF Stored
  <1>5. QED
    BY <1>3, <1>4 DEF KeysInv

\* What Evict stores is the revoked copy of a key that is in the map.
LEMMA EvictStored ==
    ASSUME TypeOK, KeysInv, NEW w \in Workers, Evict(w)
    PROVE  \A k \in Sids :
              /\ Stored(k) <=> sessions'[k] # NoSession
              /\ sessions'[k] # sessions[k] => sessions'[k].status = "revoked"
  <1>1. CASE sessions' = sessions
    BY <1>1 DEF Stored
  <1>2. ASSUME NEW f \in found[w], f[1] \in Sids,
               sessions'[f[1]] \in Session, sessions'[f[1]].status = "revoked",
               \A k \in Sids \ {f[1]} : sessions'[k] = sessions[k]
        PROVE  \A k \in Sids :
                  /\ Stored(k) <=> sessions'[k] # NoSession
                  /\ sessions'[k] # sessions[k] => sessions'[k].status = "revoked"
    <2>1. Stored(f[1])
      BY DEF KeysInv
    <2>2. QED
      BY <1>2, <2>1, NoSessionApart DEF Stored
  <1>3. QED
    BY <1>1, <1>2, EvictKeepsEntries

\* Whose session it is, and since when.
SameOwner(x, y) == x.user = y.user /\ x.created = y.created

\* The steps of a process with the copy of an entry in hand.
Holding == {"authed", "expire", "renew", "revoke", "mark"}

\* The status of a copy whose storing ends a session.
Ending == [expire |-> "expired", mark |-> "expired", revoke |-> "revoked"]

LEMMA RenewedOwner ==
    ASSUME NEW x \in Session PROVE SameOwner(Renewed(x), x)
  BY DEF Renewed, SameOwner, Session

\* The steps that only move a process on.
LEMMA Moves ==
    ASSUME TypeOK, NEW p \in Procs,
           \/ p \in Workers /\ (\/ \E s \in Sids : GetOverdue(p, s) \/ Get(p, s)
                                \/ Renew(p) \/ NoRenew(p) \/ Handle(p) \/ Logout(p))
           \/ p = Cleaner /\ (CleanStart \/ CleanEnd)
           \/ p = Cleaner /\ \E s \in Sids : CleanVisit(s) /\ ~UNCHANGED pc
    PROVE  /\ UNCHANGED <<sessions, found>>
           /\ \E step \in Steps \ Drawing, s \in Sids \union {NoSid} : \E x :
                 /\ Goto(p, step, s, x)
                 /\ s # NoSid => Stored(s)
                 /\ step \in StoreSteps /\ x.status = "active" => Active(s)
                 /\ step \in Holding => s # NoSid /\ SameOwner(x, sessions[s])
                 /\ step \in DOMAIN Ending => x.status = Ending[step]
  <1>0. p \in Workers => p # Cleaner
    BY SessionAssumption
  <1>1. ASSUME NEW step \in Steps \ Drawing, NEW s \in Sids, Stored(s),
               NEW st \in Status \ {"active"}, PrepareStatus(p, step, s, st),
               step \in DOMAIN Ending => st = Ending[step]
        PROVE  \E x : /\ Goto(p, step, s, x)
                      /\ step \in StoreSteps /\ x.status = "active" => Active(s)
                      /\ step \in Holding => s # NoSid /\ SameOwner(x, sessions[s])
                      /\ step \in DOMAIN Ending => x.status = Ending[step]
    <2> DEFINE x == [sessions[s] EXCEPT !.status = st]
    <2>1. x.status = st /\ SameOwner(x, sessions[s]) /\ s # NoSid
      BY <1>1, StoredEntry, WithStatus DEF SameOwner
    <2>2. Goto(p, step, s, x)
      BY <1>1 DEF PrepareStatus
    <2> HIDE DEF x
    <2>3. QED
      BY <1>1, <2>1, <2>2
  <1>2. CASE \E s \in Sids : GetOverdue(p, s)
    BY <1>1, <1>2 DEF GetOverdue, Active, Status, Steps, StoreSteps, Drawing, Ending
  <1>3. CASE \E s \in Sids : Get(p, s)
    BY <1>3, StoredEntry DEF Get, Active, Steps, StoreSteps, Drawing, SameOwner, Ending
  <1>4. CASE pc[p] \in {"authed", "handle"} /\ (Renew(p) \/ NoRenew(p) \/ Logout(p))
    <2>1. sid[p] \in Sids /\ Stored(sid[p])
      BY <1>4 DEF TypeOK, Existing
    <2>2. CASE Renew(p) \/ NoRenew(p)
      <3>1. SameOwner(Renewed(sessions[sid[p]]), sessions[sid[p]]) /\ sid[p] # NoSid
        BY <2>1, StoredEntry, RenewedOwner
      <3>2. QED
        BY <2>1, <2>2, <3>1 DEF Renew, NoRenew, Steps, StoreSteps, Drawing, Holding, Ending
    <2>3. CASE Logout(p)
      <3>1. PrepareStatus(p, "revoke", sid[p], "revoked") /\ UNCHANGED <<sessions, found>>
        BY <2>3 DEF Logout
      <3>2. QED
        BY <1>1, <2>1, <3>1 DEF Status, Steps, StoreSteps, Drawing, Ending
    <2>4. QED
      BY <1>4, <2>2, <2>3
  <1>5. CASE Handle(p)
    BY <1>5 DEF Handle, Steps, StoreSteps, Drawing, Holding, Ending
  <1>6. CASE p = Cleaner /\ (CleanStart \/ CleanEnd)
    BY <1>6 DEF CleanStart, CleanEnd, Steps, StoreSteps, Drawing, Holding, Ending
  <1>7. CASE p = Cleaner /\ \E s \in Sids : CleanVisit(s) /\ ~UNCHANGED pc
    <2>1. PICK s \in Sids : CleanVisit(s) /\ ~UNCHANGED pc
      BY <1>7
    <2>2. /\ Active(s) /\ PrepareStatus(p, "mark", s, "expired")
          /\ UNCHANGED <<sessions, found>>
      BY <1>7, <2>1 DEF CleanVisit
    <2>3. QED
      BY <1>1, <2>2 DEF Active, Status, Steps, StoreSteps, Drawing, Ending
  <1>8. QED
    BY <1>2, <1>3, <1>4, <1>5, <1>6, <1>7 DEF Renew, NoRenew, Logout

\* None of them is a step of Create.
LeftAlone == \A w \in Workers : left'[w] = left[w]

LEMMA MovesLeft ==
    ASSUME TypeOK, NEW p \in Procs,
           \/ p \in Workers /\ (\/ \E s \in Sids : GetOverdue(p, s) \/ Get(p, s)
                                \/ Renew(p) \/ NoRenew(p) \/ Handle(p) \/ Logout(p))
           \/ p = Cleaner /\ (CleanStart \/ CleanEnd)
           \/ p = Cleaner /\ \E s \in Sids : CleanVisit(s) /\ ~UNCHANGED pc
    PROVE  pc[p] \notin Drawing /\ LeftAlone
  <1>1. pc[p] \in {"idle", "authed", "handle", "clean"}
    BY DEF GetOverdue, Get, Renew, NoRenew, Handle, Logout, CleanStart, CleanEnd,
       CleanVisit
  <1>2. \A w \in Workers : w # Cleaner
    BY SessionAssumption
  <1>3. LeftAlone
    <2>1. CASE left' = left
      BY <2>1 DEF LeftAlone
    <2>2. \A S : left' = [left EXCEPT ![Cleaner] = S] => LeftAlone
      BY <1>2 DEF LeftAlone, TypeOK, Procs
    <2>3. QED
      BY <2>1, <2>2 DEF GetOverdue, Get, Renew, NoRenew, Handle, Logout,
         CleanStart, CleanEnd, CleanVisit
  <1>4. QED
    BY <1>1, <1>3 DEF Drawing

\* The disjuncts of Next, by what they do to ids and entries.
LEMMA NextCases ==
    ASSUME TypeOK, [Next]_vars
    PROVE  \/ UNCHANGED <<sessions, pc, sid, copy, found>> /\ LeftAlone
           \/ \E p \in Procs : Store(p)
           \/ \E w \in Workers, u \in Users, s \in Sids : Login(w, u, s)
           \/ \E w \in Workers : (\E s \in Sids : Scan(w, s)) \/ Evict(w)
           \/ \E p \in Procs :
                 /\ UNCHANGED <<sessions, found>>
                 /\ pc[p] \notin Drawing /\ LeftAlone
                 /\ \E step \in Steps \ Drawing, s \in Sids \union {NoSid} : \E x :
                       /\ Goto(p, step, s, x)
                       /\ s # NoSid => Stored(s)
                       /\ step \in StoreSteps /\ x.status = "active" => Active(s)
                       /\ step \in Holding => s # NoSid /\ SameOwner(x, sessions[s])
                       /\ step \in DOMAIN Ending => x.status = Ending[step]
  <1>1. CASE UNCHANGED vars \/ Tick
    BY <1>1 DEF vars, Tick, LeftAlone
  <1>2. ASSUME NEW w \in Workers, Arrival(w) \/ Continue(w)
        PROVE  \/ Store(w)
               \/ \E u \in Users, s \in Sids : Login(w, u, s)
               \/ (\E s \in Sids : Scan(w, s)) \/ Evict(w)
               \/ \/ \E s \in Sids : GetOverdue(w, s) \/ Get(w, s)
                  \/ Renew(w) \/ NoRenew(w) \/ Handle(w) \/ Logout(w)
    BY <1>2 DEF Arrival, Continue
  <1>3. CASE Clean
    <2>1. CASE CleanStart \/ CleanEnd \/ \E s \in Sids : CleanVisit(s) /\ ~UNCHANGED pc
      BY <2>1, Moves, MovesLeft DEF Procs
    <2>2. CASE \E s \in Sids : CleanVisit(s) /\ UNCHANGED pc
      <3>1. PICK s \in Sids : CleanVisit(s) /\ UNCHANGED pc
        BY <2>2
      <3>2. ~(Active(s) /\ Overdue(sessions[s], stamp))
        BY <3>1, SessionAssumption DEF CleanVisit, PrepareStatus, Goto, TypeOK, Procs
      <3>3. QED
        BY <3>1, <3>2, SessionAssumption DEF CleanVisit, LeftAlone, TypeOK
    <2>3. QED
      BY <1>3, <2>1, <2>2 DEF Clean, Procs
  <1>4. QED
    BY <1>1, <1>2, <1>3, Moves, MovesLeft DEF Next, Procs

LEMMA InitKeysInv == Init => KeysInv
  BY DEF Init, KeysInv, Drawing, Procs

LEMMA NextKeysInv == TypeOK /\ KeysInv /\ [Next]_vars => KeysInv'
  <1>1. SUFFICES ASSUME TypeOK, KeysInv, [Next]_vars PROVE KeysInv'
    OBVIOUS
  <1>2. CASE UNCHANGED <<sessions, pc, sid, copy, found>>
    BY <1>1, <1>2 DEF KeysInv, Stored
  <1>3. ASSUME NEW w \in Workers, NEW u \in Users, NEW s \in Sids, Login(w, u, s)
        PROVE  KeysInv'
    <2>1. /\ ~Stored(s) /\ \A q \in Procs : sid[q] # s
          /\ pc' = [pc EXCEPT ![w] = "scan"] /\ sid' = [sid EXCEPT ![w] = s]
          /\ UNCHANGED <<sessions, found>>
      BY <1>3 DEF Login, Fresh, Goto
    <2>2. /\ pc'[w] = "scan" /\ sid'[w] = s
          /\ \A q \in Procs \ {w} : pc'[q] = pc[q] /\ sid'[q] = sid[q]
      BY <1>1, <2>1 DEF TypeOK, Procs
    <2>3. QED
      BY <1>1, <2>1, <2>2 DEF KeysInv, Stored, Procs
  <1>4. ASSUME NEW w \in Workers, NEW s \in Sids, Scan(w, s) PROVE KeysInv'
    <2>1. \A v \in Workers : pc'[v] \in Drawing => pc[v] \in Drawing
      BY <1>1, <1>4 DEF Scan, TypeOK, Drawing
    <2>2. \A v \in Workers : \A f \in found'[v] :
             f \in found[v] \/ (f = <<s, sessions[s]>> /\ Stored(s))
      BY <1>1, <1>4 DEF Scan, TypeOK, Active
    <2>3. UNCHANGED <<sessions, sid>>
      BY <1>4 DEF Scan
    <2>4. \A v \in Workers : \A f \in found'[v] : Stored(f[1])
      BY <1>1, <2>2 DEF KeysInv
    <2>5. QED
      BY <1>1, <2>1, <2>3, <2>4 DEF KeysInv, Stored
  <1>5. ASSUME NEW w \in Workers, Evict(w) PROVE KeysInv'
    <2>1. \A k \in Sids : Stored(k) <=> sessions'[k] # NoSession
      BY <1>1, <1>5, EvictStored
    <2>2. \A v \in Workers : pc'[v] \in Drawing => pc[v] \in Drawing
      BY <1>1, <1>5 DEF Evict, TypeOK, Drawing
    <2>3. \A v \in Workers : \A f \in found'[v] : f \in found[v]
      BY <1>1, <1>5 DEF Evict, TypeOK
    <2>4. UNCHANGED sid
      BY <1>5 DEF Evict
    <2>5. \A v \in Workers : pc[v] \in Drawing => sid[v] \in Sids
      BY <1>1, DrawnId
    <2>6. \A v \in Workers : \A f \in found[v] : f[1] \in Sids
      BY <1>1 DEF TypeOK
    <2>7. \A v \in Workers : \A f \in found'[v] : Stored(f[1])'
      BY <1>1, <2>1, <2>3, <2>6 DEF KeysInv, Stored
    <2>8. \A v \in Workers : pc'[v] \in Drawing =>
             ~Stored(sid[v])' /\ \A q \in Procs \ {v} : sid'[q] # sid'[v]
      BY <1>1, <2>1, <2>2, <2>4, <2>5 DEF KeysInv, Stored
    <2>9. QED
      BY <2>7, <2>8 DEF KeysInv
  <1>6. QED
    BY <1>1, <1>2, <1>3, <1>4, <1>5, KeysStore, KeysGoto, NextCases

LEMMA KeysInvAlways == Spec => []KeysInv
  <1>1. QED
    BY InitKeysInv, NextKeysInv, TypeCorrect, PTL DEF Spec

LEMMA OverStaysOver ==
    ASSUME TypeOK, KeysInv, [Next]_vars, NEW s \in Sids, Over(s) PROVE Over(s)'
  <1>0. Stored(s) /\ ~Active(s) /\ sessions[s].status # "active"
    BY DEF Over, Active
  <1>1. CASE UNCHANGED <<sessions, pc, sid, copy, found>>
    BY <1>1 DEF Over, Stored, Active
  <1>2. ASSUME NEW p \in Procs, Store(p) PROVE Over(s)'
    <2>1. /\ pc[p] \in StoreSteps /\ sid[p] \in Sids
          /\ sessions'[sid[p]] = copy[p]
          /\ \A k \in Sids \ {sid[p]} : sessions'[k] = sessions[k]
          /\ \A k \in Sids : Stored(k) => sessions'[k] # NoSession
      BY <1>2, StoreKeepsEntries
    <2>2. sessions'[s] # NoSession /\ sessions'[s].status # "active"
      BY <1>0, <2>1 DEF Over
    <2>3. pc'[p] \notin StoreSteps
      BY <1>2 DEF Store, Goto, TypeOK, StoreSteps
    <2>4. \A q \in Procs \ {p} :
             pc'[q] = pc[q] /\ sid'[q] = sid[q] /\ copy'[q] = copy[q]
      BY <1>2, StoreOthers
    <2>5. QED
      BY <2>2, <2>3, <2>4 DEF Over, Stored, Active
  <1>3. ASSUME NEW w \in Workers, NEW u \in Users, NEW k \in Sids, Login(w, u, k)
        PROVE  Over(s)'
    <2>1. UNCHANGED sessions
      BY <1>3 DEF Login
    <2>2. pc'[w] \notin StoreSteps
      BY <1>3 DEF Login, Goto, TypeOK, StoreSteps, Procs
    <2>3. \A q \in Procs \ {w} :
             pc'[q] = pc[q] /\ sid'[q] = sid[q] /\ copy'[q] = copy[q]
      BY <1>3, GotoOthers DEF Login
    <2>4. QED
      BY <2>1, <2>2, <2>3 DEF Over, Stored, Active
  <1>4. ASSUME NEW w \in Workers, NEW k \in Sids, Scan(w, k) PROVE Over(s)'
    <2>1. \A q \in Procs : pc'[q] \in StoreSteps => pc[q] \in StoreSteps
      BY <1>4 DEF Scan, TypeOK, StoreSteps
    <2>2. QED
      BY <1>4, <2>1 DEF Scan, Over, Stored, Active
  <1>5. ASSUME NEW w \in Workers, Evict(w) PROVE Over(s)'
    <2>1. sessions'[s] # NoSession /\ sessions'[s].status # "active"
      BY <1>0, <1>5, EvictStored
    <2>2. sid[w] # s
      BY <1>0, <1>5 DEF Evict, KeysInv, Drawing
    <2>3. \A q \in Procs \ {w} : pc'[q] = pc[q]
      BY <1>5 DEF Evict, TypeOK
    <2>4. UNCHANGED <<sid, copy>>
      BY <1>5 DEF Evict
    <2>5. QED
      BY <2>1, <2>2, <2>3, <2>4 DEF Over, Stored, Active
  <1>6. ASSUME NEW p \in Procs, UNCHANGED <<sessions, found>>,
               NEW step \in Steps \ Drawing, NEW k \in Sids \union {NoSid}, NEW x,
               Goto(p, step, k, x),
               step \in StoreSteps /\ x.status = "active" => Active(k)
        PROVE  Over(s)'
    <2>1. pc'[p] = step /\ sid'[p] = k /\ copy'[p] = x
      BY <1>6 DEF Goto, TypeOK
    <2>2. \A q \in Procs \ {p} :
             pc'[q] = pc[q] /\ sid'[q] = sid[q] /\ copy'[q] = copy[q]
      BY <1>6, GotoOthers
    <2>3. sid'[p] = s /\ pc'[p] \in StoreSteps => copy'[p].status # "active"
      BY <1>0, <1>6, <2>1
    <2>4. QED
      BY <1>6, <2>2, <2>3 DEF Over, Stored, Active
  <1>7. QED
    BY <1>1, <1>2, <1>3, <1>4, <1>5, <1>6, NextCases

\* EndedForGood: a session that ended with no renewal of it under way is never
\* active again, whatever other requests do.
THEOREM EndedForGoodAlways == Spec => EndedForGood
  <1>1. TypeOK /\ KeysInv /\ [Next]_vars
          => [\A s \in Sids : Over(s) => Over(s)']_vars
    BY OverStaysOver
  <1>2. QED
    BY <1>1, TypeCorrect, KeysInvAlways, PTL DEF Spec, EndedForGood
-----------------------------------------------------------------------------
(* Sessions that last.                                                     *)

\* A step that moves p on, with a copy that leaves s its time if it is to be
\* stored over s.
LEMMA LastsGoto ==
    ASSUME TypeOK, NEW s \in Sids, NEW e, Lasts(s, e), UNCHANGED sessions,
           NEW p \in Procs, NEW step, NEW k, NEW x, Goto(p, step, k, x),
           k = s /\ step \in StoreSteps => x.status = "active" /\ x.expires >= e
    PROVE  Lasts(s, e)'
  <1>1. pc'[p] = step /\ sid'[p] = k /\ copy'[p] = x
    BY DEF Goto, TypeOK
  <1>2. \A q \in Procs \ {p} :
           pc'[q] = pc[q] /\ sid'[q] = sid[q] /\ copy'[q] = copy[q]
    BY GotoOthers
  <1>3. QED
    BY <1>1, <1>2 DEF Lasts, Active, Stored

LEMMA LastsStore ==
    ASSUME TypeOK, NEW s \in Sids, NEW e, Lasts(s, e), NEW p \in Procs, Store(p)
    PROVE  Lasts(s, e)'
  <1>1. /\ pc[p] \in StoreSteps /\ sid[p] \in Sids /\ copy[p] \in Session
        /\ sessions'[sid[p]] = copy[p]
        /\ \A k \in Sids \ {sid[p]} : sessions'[k] = sessions[k]
    BY StoreKeepsEntries
  <1>2. Active(s)' /\ sessions'[s].expires >= e
    BY <1>1, NoSessionApart DEF Lasts, Active, Stored
  <1>3. pc'[p] \notin StoreSteps
    BY DEF Store, Goto, TypeOK, StoreSteps
  <1>4. \A q \in Procs \ {p} :
           pc'[q] = pc[q] /\ sid'[q] = sid[q] /\ copy'[q] = copy[q]
    BY StoreOthers
  <1>5. QED
    BY <1>2, <1>3, <1>4 DEF Lasts

\* The steps of Create: nobody draws or inserts the id of an active session,
\* and what it evicts is revoked.
LEMMA LastsCreate ==
    ASSUME TypeOK, KeysInv, NEW s \in Sids, NEW e, Lasts(s, e), NEW w \in Workers,
           \/ \E u \in Users, k \in Sids : Login(w, u, k)
           \/ \E k \in Sids : Scan(w, k)
           \/ Evict(w)
    PROVE  Lasts(s, e)' \/ EndedOnPurpose(s)'
  <1>0. w \in Procs /\ Stored(s)
    BY DEF Procs, Lasts, Active
  <1>1. ASSUME NEW u \in Users, NEW k \in Sids, Login(w, u, k) PROVE Lasts(s, e)'
    <2>1. UNCHANGED sessions /\ \E x : Goto(w, "scan", k, x)
      BY <1>1 DEF Login
    <2>2. QED
      BY <1>0, <2>1, LastsGoto DEF StoreSteps
  <1>2. ASSUME NEW k \in Sids, Scan(w, k) PROVE Lasts(s, e)'
    <2>1. \A q \in Procs : pc'[q] \in StoreSteps => pc[q] \in StoreSteps
      BY <1>2 DEF Scan, TypeOK, StoreSteps
    <2>2. QED
      BY <1>2, <2>1 DEF Scan, Lasts, Active, Stored
  <1>3. CASE Evict(w)
    <2>1. sessions'[s] = sessions[s] \/ EndedOnPurpose(s)'
      BY <1>3, EvictStored DEF EndedOnPurpose
    <2>2. sid[w] # s
      BY <1>0, <1>3 DEF Evict, KeysInv, Drawing
    <2>3. (\A q \in Procs \ {w} : pc'[q] = pc[q]) /\ UNCHANGED <<sid, copy>>
      BY <1>3 DEF Evict, TypeOK
    <2>4. QED
      BY <2>1, <2>2, <2>3 DEF Lasts, Active, Stored
  <1>4. QED
    BY <1>1, <1>2, <1>3

\* The other steps of a request: who finds s overdue is too late to be before
\* e, and a renewal of s ends no earlier than the entry it has loaded.
LEMMA LastsRequest ==
    ASSUME TypeOK, TimesInv, NEW s \in Sids, NEW e \in Nat, Lasts(s, e), now <= e,
           NEW w \in Workers,
           \/ \E k \in Sids : GetOverdue(w, k) \/ Get(w, k)
           \/ Renew(w) \/ NoRenew(w) \/ Handle(w) \/ Logout(w)
    PROVE  Lasts(s, e)' \/ EndedOnPurpose(s)'
  <1>0. /\ w \in Procs /\ now \in Nat /\ TTL \in Nat
        /\ sessions[s] \in Session /\ sessions[s].expires \in Nat
        /\ sessions[s].status = "active" /\ sessions[s].expires >= e
    BY SessionAssumption, StoredEntry DEF Procs, TypeOK, Lasts, Active, Session
  <1>1. ASSUME NEW k \in Sids, GetOverdue(w, k) PROVE Lasts(s, e)'
    <2>1. k # s
      BY <1>0, <1>1 DEF GetOverdue, Overdue
    <2>2. UNCHANGED sessions /\ \E x : Goto(w, "expire", k, x)
      BY <1>1 DEF GetOverdue, PrepareStatus
    <2>3. QED
      BY <1>0, <2>1, <2>2, LastsGoto
  <1>2. ASSUME NEW k \in Sids, Get(w, k) PROVE Lasts(s, e)'
    <2>1. UNCHANGED sessions /\ \E x : Goto(w, "authed", k, x)
      BY <1>2 DEF Get
    <2>2. QED
      BY <1>0, <2>1, LastsGoto DEF StoreSteps
  <1>3. CASE Renew(w)
    <2>1. /\ Renewed(sessions[s]).status = "active"
          /\ Renewed(sessions[s]).expires >= sessions[s].expires
          /\ Renewed(sessions[s]).expires \in Nat
      <3>1. Bounded(sessions[s]) /\ sessions[s].expires <= now + TTL
        BY <1>0, NoSessionApart DEF TimesInv, Sound
      <3>2. now <= sessions[s].expires
        BY <1>0
      <3>3. QED
        BY <1>0, <3>1, <3>2, RenewedSession, SessionAssumption DEF Session
    <2>2. Renewed(sessions[s]).expires >= e
      BY <1>0, <2>1
    <2>3. /\ UNCHANGED sessions
          /\ \/ Goto(w, "renew", sid[w], Renewed(sessions[sid[w]]))
             \/ Goto(w, "handle", sid[w], NoSession)
      BY <1>3 DEF Renew
    <2>4. CASE Goto(w, "renew", sid[w], Renewed(sessions[sid[w]]))
      BY <1>0, <2>1, <2>2, <2>3, <2>4, LastsGoto
    <2>5. CASE Goto(w, "handle", sid[w], NoSession)
      BY <1>0, <2>3, <2>5, LastsGoto DEF StoreSteps
    <2>6. QED
      BY <2>3, <2>4, <2>5
  <1>4. CASE NoRenew(w) \/ Handle(w)
    <2>1. /\ UNCHANGED sessions
          /\ \E step \in {"handle", "idle"} : \E k : Goto(w, step, k, NoSession)
      BY <1>4 DEF NoRenew, Handle
    <2>2. QED
      BY <1>0, <2>1, LastsGoto DEF StoreSteps
  <1>5. CASE Logout(w)
    <2>1. UNCHANGED sessions /\ \E x : Goto(w, "revoke", sid[w], x)
      BY <1>5 DEF Logout, PrepareStatus
    <2>2. CASE sid[w] = s
      <3>1. pc'[w] = "revoke" /\ sid'[w] = s
        BY <1>0, <2>1, <2>2 DEF Goto, TypeOK
      <3>2. QED
        BY <3>1 DEF EndedOnPurpose
    <2>3. CASE sid[w] # s
      BY <1>0, <2>1, <2>3, LastsGoto
    <2>4. QED
      BY <2>2, <2>3
  <1>6. QED
    BY <1>1, <1>2, <1>3, <1>4, <1>5

\* The cleanup read the clock before now, and finds no entry overdue that is
\* not overdue now.
LEMMA LastsClean ==
    ASSUME TypeOK, TimesInv, NEW s \in Sids, NEW e \in Nat, Lasts(s, e), now <= e,
           CleanStart \/ CleanEnd \/ \E k \in Sids : CleanVisit(k)
    PROVE  Lasts(s, e)'
  <1>0. /\ Cleaner \in Procs /\ now \in Nat /\ stamp \in Nat /\ stamp <= now
        /\ sessions[s].expires \in Nat /\ sessions[s].expires >= e
    BY StoredEntry DEF Procs, TypeOK, TimesInv, Lasts, Active, Session
  <1>1. CASE CleanStart \/ CleanEnd
    <2>1. UNCHANGED sessions
          /\ \E step \in {"clean", "idle"} : Goto(Cleaner, step, NoSid, NoSession)
      BY <1>1 DEF CleanStart, CleanEnd
    <2>2. QED
      BY <1>0, <2>1, LastsGoto DEF StoreSteps
  <1>2. ASSUME NEW k \in Sids, CleanVisit(k) PROVE Lasts(s, e)'
    <2>1. CASE UNCHANGED <<sessions, pc, sid, copy>>
      BY <2>1 DEF Lasts, Active, Stored
    <2>2. CASE Overdue(sessions[k], stamp) /\ PrepareStatus(Cleaner, "mark", k, "expired")
      <3>1. k # s
        BY <1>0, <2>2 DEF Overdue
      <3>2. UNCHANGED sessions /\ \E x : Goto(Cleaner, "mark", k, x)
        BY <1>2, <2>2 DEF CleanVisit, PrepareStatus
      <3>3. QED
        BY <1>0, <3>1, <3>2, LastsGoto
    <2>3. QED
      BY <1>2, <2>1, <2>2 DEF CleanVisit
  <1>3. QED
    BY <1>1, <1>2

\* KeptInTime: a session is lost before its time on purpose only, however
\* renewals, logouts, logins and the cleanup overlap, and whatever the
\* lifetimes are.
THEOREM KeptInTimeAlways == Spec => KeptInTime
  <1>1. ASSUME TypeOK, TimesInv, KeysInv, [Next]_vars, NEW s \in Sids,
               NEW e \in 0..MaxTime, Lasts(s, e), now' <= e
        PROVE  Lasts(s, e)' \/ EndedOnPurpose(s)'
    <2>0. e \in Nat /\ now \in Nat /\ now <= e
      <3>1. now' = now \/ now' = now + 1
        BY <1>1 DEF Next, vars, Arrival, Continue, Clean, Tick, Login, GetOverdue,
           Get, Scan, Evict, Renew, NoRenew, Handle, Logout, Store, CleanStart,
           CleanVisit, CleanEnd
      <3>2. QED
        BY <1>1, <3>1, SessionAssumption DEF TypeOK
    <2>1. CASE UNCHANGED vars \/ Tick
      BY <1>1, <2>1 DEF vars, Tick, Lasts, Active, Stored
    <2>2. ASSUME NEW w \in Workers, Arrival(w) \/ Continue(w)
          PROVE  Lasts(s, e)' \/ EndedOnPurpose(s)'
      BY <1>1, <2>0, <2>2, LastsStore, LastsCreate, LastsRequest
         DEF Arrival, Continue, Procs
    <2>3. CASE Clean
      BY <1>1, <2>0, <2>3, LastsStore, LastsClean DEF Clean, Procs
    <2>4. QED
      BY <1>1, <2>1, <2>2, <2>3 DEF Next
  <1>2. TypeOK /\ TimesInv /\ KeysInv /\ [Next]_vars
          => [\A s \in Sids, e \in 0..MaxTime :
                Lasts(s, e) /\ now' <= e
                   => Lasts(s, e)' \/ EndedOnPurpose(s)']_vars
    BY <1>1
  <1>3. QED
    BY <1>2, TypeCorrect, TimesInvAlways, KeysInvAlways, PTL DEF Spec, KeptInTime

-----------------------------------------------------------------------------
(* Whose session it is.                                                    *)

\* Every copy that may still be stored names the owner the entry names.
OwnerInv ==
    /\ \A p \in Procs : pc[p] \in Holding => SameOwner(copy[p], sessions[sid[p]])
    /\ \A w \in Workers : \A f \in found[w] : SameOwner(f[2], sessions[f[1]])

OwnersKept ==
    \A s \in Sids : Stored(s) => Stored(s)' /\ SameOwner(sessions'[s], sessions[s])

\* A new session is stored where none was, every other where its own was.
LEMMA NextOwners ==
    ASSUME TypeOK, KeysInv, OwnerInv, [Next]_vars PROVE OwnersKept
  <1>1. CASE UNCHANGED sessions
    BY <1>1 DEF OwnersKept, SameOwner, Stored
  <1>2. ASSUME NEW p \in Procs, Store(p) PROVE OwnersKept
    <2>1. /\ pc[p] \in StoreSteps /\ sid[p] \in Sids
          /\ sessions'[sid[p]] = copy[p]
          /\ \A k \in Sids \ {sid[p]} : sessions'[k] = sessions[k]
          /\ \A k \in Sids : Stored(k) => sessions'[k] # NoSession
      BY <1>2, StoreKeepsEntries
    <2>2. CASE pc[p] = "insert"
      <3>1. p \in Workers
        BY <2>2 DEF TypeOK, Procs
      <3>2. ~Stored(sid[p])
        BY <2>2, <3>1 DEF KeysInv, Drawing
      <3>3. QED
        BY <2>1, <3>2 DEF OwnersKept, SameOwner, Stored
    <2>3. CASE pc[p] # "insert"
      <3>1. SameOwner(copy[p], sessions[sid[p]])
        BY <2>1, <2>3 DEF OwnerInv, Holding, StoreSteps
      <3>2. QED
        BY <2>1, <3>1 DEF OwnersKept, SameOwner, Stored
    <2>4. QED
      BY <2>2, <2>3
  <1>3. ASSUME NEW w \in Workers, Evict(w) PROVE OwnersKept
    <2>1. \A k \in Sids : Stored(k) => Stored(k)'
      BY <1>3, EvictKeepsEntries
    <2>2. \A f \in found[w] : SameOwner(f[2], sessions[f[1]])
      BY DEF OwnerInv
    <2>3. \A k \in Sids : SameOwner(sessions'[k], sessions[k])
      BY <1>3, <2>2, EvictKeepsEntries DEF SameOwner
    <2>4. QED
      BY <2>1, <2>3 DEF OwnersKept
  <1>4. QED
    BY <1>1, <1>2, <1>3, NextCases DEF Login, Scan

LEMMA NextOwnerInv == TypeOK /\ KeysInv /\ OwnerInv /\ [Next]_vars => OwnerInv'
  <1>1. SUFFICES ASSUME TypeOK, KeysInv, OwnerInv, [Next]_vars PROVE OwnerInv'
    OBVIOUS
  <1>2. \A s \in Sids : Stored(s) => SameOwner(sessions'[s], sessions[s])
    BY <1>1, NextOwners DEF OwnersKept
  <1>3. \A p \in Procs : pc[p] \in Holding =>
           /\ sid[p] \in Sids /\ Stored(sid[p])
           /\ SameOwner(copy[p], sessions'[sid[p]])
    <2>1. \A p \in Procs : pc[p] \in Holding => sid[p] \in Sids /\ Stored(sid[p])
      BY <1>1, InHand DEF TypeOK, Existing, Holding, StoreSteps
    <2>2. QED
      BY <1>1, <1>2, <2>1 DEF OwnerInv, SameOwner
  <1>4. \A w \in Workers : \A f \in found[w] : SameOwner(f[2], sessions'[f[1]])
    <2>1. \A w \in Workers : \A f \in found[w] : f[1] \in Sids /\ Stored(f[1])
      BY <1>1 DEF KeysInv, TypeOK
    <2>2. QED
      BY <1>1, <1>2, <2>1 DEF OwnerInv, SameOwner
  \* What is left is a process that takes a copy in hand, or one more pair.
  <1>5. ASSUME UNCHANGED found,
               \A p \in Procs : pc'[p] \in Holding =>
                  \/ pc[p] \in Holding /\ sid'[p] = sid[p] /\ copy'[p] = copy[p]
                  \/ SameOwner(copy'[p], sessions'[sid'[p]])
        PROVE  OwnerInv'
    BY <1>3, <1>4, <1>5 DEF OwnerInv
  <1>6. CASE UNCHANGED <<sessions, pc, sid, copy, found>>
    BY <1>1, <1>6 DEF OwnerInv
  <1>7. ASSUME NEW p \in Procs, Store(p) PROVE OwnerInv'
    <2>1. pc'[p] \in {"handle", "clean", "idle"} /\ UNCHANGED found
      BY <1>1, <1>7 DEF Store, Goto, TypeOK
    <2>2. \A q \in Procs \ {p} :
             pc'[q] = pc[q] /\ sid'[q] = sid[q] /\ copy'[q] = copy[q]
      BY <1>1, <1>7, StoreOthers
    <2>3. QED
      BY <1>5, <2>1, <2>2 DEF Holding
  <1>8. ASSUME NEW w \in Workers, NEW u \in Users, NEW s \in Sids, Login(w, u, s)
        PROVE  OwnerInv'
    <2>1. pc'[w] = "scan" /\ UNCHANGED found
      BY <1>1, <1>8 DEF Login, Goto, TypeOK, Procs
    <2>2. \A q \in Procs \ {w} :
             pc'[q] = pc[q] /\ sid'[q] = sid[q] /\ copy'[q] = copy[q]
      BY <1>1, <1>8, GotoOthers DEF Login
    <2>3. QED
      BY <1>5, <2>1, <2>2 DEF Holding
  <1>9. ASSUME NEW w \in Workers, (\E s \in Sids : Scan(w, s)) \/ Evict(w)
        PROVE  OwnerInv'
    <2>1. /\ UNCHANGED <<sid, copy>>
          /\ \A p \in Procs : pc'[p] \in Holding => pc[p] \in Holding
      BY <1>1, <1>9 DEF Scan, Evict, TypeOK, Holding
    <2>2. ASSUME NEW v \in Workers, NEW f \in found'[v]
          PROVE  SameOwner(f[2], sessions'[f[1]])
      <3>1. CASE f \in found[v]
        BY <1>4, <3>1
      <3>2. CASE f \notin found[v]
        <4>1. PICK s \in Sids : f = <<s, sessions[s]>> /\ UNCHANGED sessions
          BY <1>1, <1>9, <2>2, <3>2 DEF Scan, Evict, TypeOK
        <4>2. QED
          BY <4>1 DEF SameOwner
      <3>3. QED
        BY <3>1, <3>2
    <2>3. QED
      BY <1>3, <2>1, <2>2 DEF OwnerInv
  <1>10. ASSUME NEW p \in Procs, UNCHANGED <<sessions, found>>,
                NEW step \in Steps \ Drawing, NEW k \in Sids \union {NoSid}, NEW x,
                Goto(p, step, k, x),
                step \in Holding => k # NoSid /\ SameOwner(x, sessions[k])
         PROVE  OwnerInv'
    <2>1. pc'[p] = step /\ sid'[p] = k /\ copy'[p] = x
      BY <1>1, <1>10 DEF Goto, TypeOK
    <2>2. \A q \in Procs \ {p} :
             pc'[q] = pc[q] /\ sid'[q] = sid[q] /\ copy'[q] = copy[q]
      BY <1>1, <1>10, GotoOthers
    <2>3. pc'[p] \in Holding => SameOwner(copy'[p], sessions'[sid'[p]])
      BY <1>10, <2>1
    <2>4. QED
      BY <1>5, <1>10, <2>2, <2>3
  <1>11. QED
    BY <1>1, <1>6, <1>7, <1>8, <1>9, <1>10, NextCases

LEMMA OwnerInvAlways == Spec => []OwnerInv
  <1>1. Init => OwnerInv
    BY DEF Init, OwnerInv, Holding, Procs
  <1>2. QED
    BY <1>1, NextOwnerInv, TypeCorrect, KeysInvAlways, PTL DEF Spec

\* A session belongs to the user who logged in and counts from then: whatever
\* renewals, logouts, evictions and cleanups store over one another, no entry
\* ever names another user or another time of login, or vanishes.
THEOREM SessionsKeepOwner == Spec => [][OwnersKept]_vars
  <1>1. TypeOK /\ KeysInv /\ OwnerInv /\ [Next]_vars => [OwnersKept]_vars
    BY NextOwners
  <1>2. QED
    BY <1>1, TypeCorrect, KeysInvAlways, OwnerInvAlways, PTL DEF Spec
-----------------------------------------------------------------------------
(* Methods that do not overlap.  Neither the limit of sessions nor the end *)
(* of a session by logout is safe in the code as it is: the runs show how  *)
(* two requests inside methods of the store break both.  That is the whole *)
(* reason: with one request in a method at a time, and the cleanup still   *)
(* running whenever it likes, both hold.                                   *)

\* The steps of a request inside Create, Get, Renew or Delete.
InMethod == {"scan", "evict"} \union StoreSteps

MethodsAlone ==
    \A v, w \in Workers : pc[v] \in InMethod /\ pc[w] \in InMethod => v = w

\* Whoever is about to end a session has a copy that says so.
EndingInv ==
    \A p \in Procs : pc[p] \in DOMAIN Ending => copy[p].status = Ending[pc[p]]

LEMMA NextEndingInv == TypeOK /\ EndingInv /\ [Next]_vars => EndingInv'
  <1>1. SUFFICES ASSUME TypeOK, EndingInv, [Next]_vars PROVE EndingInv'
    OBVIOUS
  <1>2. CASE UNCHANGED <<sessions, pc, sid, copy, found>>
    BY <1>1, <1>2 DEF EndingInv
  \* What is left is a step of one process.
  <1>3. ASSUME NEW p \in Procs,
               pc'[p] \in DOMAIN Ending => copy'[p].status = Ending[pc'[p]],
               \A q \in Procs \ {p} :
                  pc'[q] = pc[q] /\ sid'[q] = sid[q] /\ copy'[q] = copy[q]
        PROVE  EndingInv'
    BY <1>1, <1>3 DEF EndingInv
  <1>4. ASSUME NEW p \in Procs, Store(p) PROVE EndingInv'
    <2>1. pc'[p] \in {"handle", "clean", "idle"}
      BY <1>1, <1>4 DEF Store, Goto, TypeOK
    <2>2. QED
      BY <1>1, <1>3, <1>4, <2>1, StoreOthers DEF Ending
  <1>5. ASSUME NEW w \in Workers, NEW u \in Users, NEW s \in Sids, Login(w, u, s)
        PROVE  EndingInv'
    <2>1. w \in Procs /\ pc'[w] = "scan"
      BY <1>1, <1>5 DEF Login, Goto, TypeOK, Procs
    <2>2. \A q \in Procs \ {w} :
             pc'[q] = pc[q] /\ sid'[q] = sid[q] /\ copy'[q] = copy[q]
      BY <1>1, <1>5, GotoOthers DEF Login
    <2>3. QED
      BY <1>3, <2>1, <2>2 DEF Ending
  <1>6. ASSUME NEW w \in Workers, (\E s \in Sids : Scan(w, s)) \/ Evict(w)
        PROVE  EndingInv'
    <2>1. /\ w \in Procs /\ pc'[w] \in {"scan", "evict", "insert"}
          /\ UNCHANGED <<sid, copy>> /\ \A q \in Procs \ {w} : pc'[q] = pc[q]
      BY <1>1, <1>6 DEF Scan, Evict, TypeOK, Procs
    <2>2. QED
      BY <1>3, <2>1 DEF Ending
  <1>7. ASSUME NEW p \in Procs, NEW step, NEW k, NEW x, Goto(p, step, k, x),
               step \in DOMAIN Ending => x.status = Ending[step]
        PROVE  EndingInv'
    <2>1. pc'[p] = step /\ copy'[p] = x
      BY <1>1, <1>7 DEF Goto, TypeOK
    <2>2. QED
      BY <1>1, <1>3, <1>7, <2>1, GotoOthers
  <1>8. QED
    BY <1>1, <1>2, <1>4, <1>5, <1>6, <1>7, NextCases

LEMMA EndingInvAlways == Spec => []EndingInv
  <1>1. Init => EndingInv
    BY DEF Init, EndingInv, Ending, Procs
  <1>2. QED
    BY <1>1, NextEndingInv, TypeCorrect, PTL DEF Spec

\* A session that has been logged out or evicted is over: nobody is renewing it.
RevokedOver == \A s \in Sids : Stored(s) /\ sessions[s].status = "revoked" => Over(s)

LEMMA NextRevokedOver ==
    ASSUME TypeOK, KeysInv, EndingInv, MethodsAlone, RevokedOver, [Next]_vars
    PROVE  RevokedOver'
  <1>1. SUFFICES ASSUME NEW s \in Sids, Stored(s)', sessions'[s].status = "revoked"
                 PROVE  Over(s)'
    BY DEF RevokedOver
  <1>2. CASE Stored(s) /\ sessions[s].status = "revoked"
    BY <1>2, OverStaysOver DEF RevokedOver
  <1>3. CASE ~(Stored(s) /\ sessions[s].status = "revoked")
    <2>1. sessions'[s] # sessions[s]
      BY <1>1, <1>3 DEF Stored
    <2>2. Stored(s)' /\ ~Active(s)'
      BY <1>1 DEF Active
    <2>3. \A q \in Procs : q \notin Workers /\ pc[q] \in StoreSteps
                              => pc[q] = "mark" /\ copy[q].status = "expired"
      BY DEF TypeOK, Procs, StoreSteps, EndingInv, Ending
    <2>4. ASSUME NEW p \in Procs, Store(p) PROVE Over(s)'
      <3>1. /\ pc[p] \in StoreSteps /\ sid[p] = s /\ copy[p].status = "revoked"
        BY <1>1, <2>1, <2>4, StoreKeepsEntries
      <3>2. p \in Workers
        BY <2>3, <3>1
      <3>3. pc'[p] \notin StoreSteps
        BY <2>4 DEF Store, Goto, TypeOK, StoreSteps
      <3>4. \A q \in Procs \ {p} : pc'[q] = pc[q] /\ copy'[q] = copy[q]
        BY <2>4, StoreOthers
      <3>5. \A q \in Workers \ {p} : pc[q] \notin StoreSteps
        BY <3>1, <3>2 DEF MethodsAlone, InMethod
      <3>6. QED
        BY <2>2, <2>3, <3>3, <3>4, <3>5 DEF Over
    <2>5. ASSUME NEW w \in Workers, Evict(w) PROVE Over(s)'
      <3>1. /\ pc[w] = "evict" /\ w \in Procs /\ UNCHANGED <<sid, copy>>
            /\ pc'[w] = "insert" /\ \A q \in Procs \ {w} : pc'[q] = pc[q]
        BY <2>5 DEF Evict, TypeOK, Procs
      <3>2. Stored(s)
        BY <1>1, <2>5, EvictStored DEF Stored
      <3>3. sid[w] # s
        BY <3>1, <3>2 DEF KeysInv, Drawing
      <3>4. \A q \in Workers \ {w} : pc[q] \notin StoreSteps
        BY <3>1 DEF MethodsAlone, InMethod
      <3>5. QED
        BY <2>2, <2>3, <3>1, <3>3, <3>4 DEF Over
    <2>6. QED
      BY <2>1, <2>4, <2>5, NextCases DEF Login, Scan
  <1>4. QED
    BY <1>2, <1>3

LEMMA RevokedOverAlways == Spec /\ []MethodsAlone => []RevokedOver
  <1>1. Init => RevokedOver
    BY NoSessionApart DEF Init, RevokedOver, Stored
  <1>2. TypeOK /\ KeysInv /\ EndingInv /\ MethodsAlone /\ RevokedOver /\ [Next]_vars
          => RevokedOver'
    BY NextRevokedOver
  <1>3. QED
    BY <1>1, <1>2, TypeCorrect, KeysInvAlways, EndingInvAlways, PTL DEF Spec

\* LogoutFinal: with one request in a method at a time, a session that has been
\* logged out is never active again.
THEOREM LogoutFinalAlone == Spec /\ []MethodsAlone => LogoutFinal
  <1>1. TypeOK /\ KeysInv /\ RevokedOver /\ [Next]_vars
          => [\A s \in Sids : Stored(s) /\ sessions[s].status = "revoked"
                                 => ~Active(s)']_vars
    BY OverStaysOver DEF RevokedOver, Over
  <1>2. QED
    BY <1>1, TypeCorrect, KeysInvAlways, RevokedOverAlways, PTL DEF Spec, LogoutFinal
\* w is about to store an active copy.
Renewing(w) == pc[w] = "renew" /\ copy[w].status = "active"

\* The sessions that count against the limit of u: active ones, one about to be
\* stored again as active, and those Create has found.
Claimed(u) ==
    {s \in Sids :
        \/ Active(s) /\ sessions[s].user = u
        \/ \E w \in Workers : Renewing(w) /\ sid[w] = s /\ copy[w].user = u
        \/ \E w \in Workers : \E f \in found[w] : f[1] = s /\ f[2].user = u}

\* What Create knows of its user's sessions.
CreateInv(w) ==
    /\ IsFiniteSet(found[w])
    /\ pc[w] \notin {"scan", "evict"} => found[w] = {}
    /\ pc[w] \in {"scan", "evict"} =>
          /\ \A f \in found[w] : f[2].user = copy[w].user
          /\ \A s \in Sids :
                Active(s) /\ sessions[s].user = copy[w].user
                   => s \in left[w] \/ \E f \in found[w] : f[1] = s
    /\ pc[w] = "evict" => left[w] = {}
    /\ pc[w] = "insert" => Cardinality(Claimed(copy[w].user)) < MaxSessions

ClaimsInv ==
    \A u \in Users : IsFiniteSet(Claimed(u)) /\ Cardinality(Claimed(u)) <= MaxSessions

LimitInv == ClaimsInv /\ \A w \in Workers : CreateInv(w)

\* Fewer claims are within the limit too.
LEMMA FewerClaims ==
    ASSUME LimitInv, \A u \in Users : Claimed(u)' \subseteq Claimed(u)
    PROVE  /\ ClaimsInv'
           /\ \A u \in Users :
                 Cardinality(Claimed(u)) < MaxSessions
                    => Cardinality(Claimed(u)') < MaxSessions
  <1>1. ASSUME NEW u \in Users
        PROVE  /\ IsFiniteSet(Claimed(u)') /\ Cardinality(Claimed(u)') \in Nat
               /\ Cardinality(Claimed(u)) \in Nat
               /\ Cardinality(Claimed(u)') <= Cardinality(Claimed(u))
    <2>1. IsFiniteSet(Claimed(u))
      BY DEF LimitInv, ClaimsInv
    <2>2. IsFiniteSet(Claimed(u)') /\ Cardinality(Claimed(u)') <= Cardinality(Claimed(u))
      BY <2>1, FS_Subset
    <2>3. QED
      BY <2>1, <2>2, FS_CardinalityType
  <1>2. MaxSessions \in Nat
    BY SessionAssumption
  <1>3. \A u \in Users : Cardinality(Claimed(u)) <= MaxSessions
    BY DEF LimitInv, ClaimsInv
  <1>4. QED
    BY <1>1, <1>2, <1>3 DEF ClaimsInv

\* Create knows what it knew while others take sessions away.
LEMMA CreateStays ==
    ASSUME TypeOK, LimitInv, NEW w \in Workers, NEW c, c = copy[w],
           pc'[w] = pc[w], copy'[w] = c, found'[w] = found[w], left'[w] = left[w],
           \A u \in Users : Claimed(u)' \subseteq Claimed(u),
           pc[w] \in {"scan", "evict"} =>
              \A s \in Sids : Active(s)' /\ sessions'[s].user = c.user
                                 => Active(s) /\ sessions[s].user = c.user
    PROVE  CreateInv(w)'
  <1>1. CreateInv(w)
    BY DEF LimitInv
  <1>2. pc[w] = "insert" => c.user \in Users
    BY InHand DEF StoreSteps, Session, Procs
  <1>3. pc[w] = "insert" => Cardinality(Claimed(c.user)') < MaxSessions
    BY <1>1, <1>2, FewerClaims DEF CreateInv
  <1>4. pc'[w] = "insert" => Cardinality(Claimed(copy[w].user)') < MaxSessions
    BY <1>3
  <1>5. QED
    BY <1>1, <1>4 DEF CreateInv

\* The ids that are found are no more than the pairs.
LEMMA FoundIds ==
    ASSUME NEW S, IsFiniteSet(S)
    PROVE  LET T == {f[1] : f \in S}
           IN  IsFiniteSet(T) /\ Cardinality(T) <= Cardinality(S)
  <1> DEFINE T == {f[1] : f \in S}
             g == [f \in S |-> f[1]]
  <1>1. g \in Surjection(S, T)
    BY DEF Surjection
  <1>2. QED
    BY <1>1, FS_Surjection

LEMMA LimitStore ==
    ASSUME TypeOK, KeysInv, EndingInv, MethodsAlone, LimitInv,
           NEW p \in Procs, Store(p)
    PROVE  LimitInv'
  <1> DEFINE x == copy[p]
  <1>1. /\ pc[p] \in StoreSteps /\ sid[p] \in Sids /\ x \in Session
        /\ sessions'[sid[p]] = x
        /\ \A k \in Sids \ {sid[p]} : sessions'[k] = sessions[k]
    BY StoreKeepsEntries
  <1>2. /\ pc'[p] \in {"handle", "clean", "idle"} /\ UNCHANGED <<found, left>>
        /\ \A q \in Procs \ {p} :
              pc'[q] = pc[q] /\ sid'[q] = sid[q] /\ copy'[q] = copy[q]
    BY StoreOthers DEF Store, Goto, TypeOK
  <1>3. \A w \in Workers : w \in Procs
    BY DEF Procs
  <1>4. p \notin Workers => pc[p] = "mark"
    BY <1>1 DEF TypeOK, Procs, StoreSteps
  <1>5. x.status = "active" => pc[p] \in {"insert", "renew"}
    BY <1>1 DEF EndingInv, Ending, StoreSteps
  <1>6. \A w \in Workers : Renewing(w)' =>
           w # p /\ Renewing(w) /\ sid'[w] = sid[w] /\ copy'[w] = copy[w]
    BY <1>2, <1>3 DEF Renewing
  \* Only what p stores may be claimed anew.
  <1>7. ASSUME NEW u \in Users, NEW s \in Claimed(u)', s \notin Claimed(u)
        PROVE  s = sid[p] /\ x.user = u /\ pc[p] = "insert"
    <2>1. s \in Sids /\ Active(s)' /\ sessions'[s].user = u /\ ~(Active(s) /\ sessions[s].user = u)
      BY <1>2, <1>6, <1>7 DEF Claimed
    <2>2. s = sid[p] /\ x.status = "active" /\ x.user = u
      BY <1>1, <2>1 DEF Active, Stored
    <2>3. pc[p] = "renew" => Renewing(p) /\ p \in Workers
      BY <1>4, <2>2 DEF Renewing
    <2>4. pc[p] # "renew"
      BY <1>7, <2>2, <2>3, <2>1 DEF Claimed
    <2>5. QED
      BY <1>5, <2>2, <2>4
  <1>8. CASE p \in Workers
    <2>1. \A w \in Workers \ {p} : pc[w] \notin InMethod
      BY <1>1, <1>8 DEF MethodsAlone, InMethod
    <2>2. \A w \in Workers : pc'[w] \notin InMethod
      BY <1>2, <1>3, <2>1 DEF InMethod, StoreSteps
    <2>3. \A w \in Workers : found[w] = {}
      BY <1>1, <2>1 DEF LimitInv, CreateInv, InMethod, StoreSteps
    <2>4. \A w \in Workers : CreateInv(w)'
      BY <1>2, <2>2, <2>3, FS_EmptySet DEF CreateInv, InMethod, StoreSteps
    <2>5. ASSUME NEW u \in Users
          PROVE  IsFiniteSet(Claimed(u)') /\ Cardinality(Claimed(u)') <= MaxSessions
      <3>1. /\ IsFiniteSet(Claimed(u)) /\ Cardinality(Claimed(u)) <= MaxSessions
            /\ Cardinality(Claimed(u)) \in Nat /\ MaxSessions \in Nat
        BY FS_CardinalityType, SessionAssumption DEF LimitInv, ClaimsInv
      <3>2. CASE Claimed(u)' \subseteq Claimed(u)
        <4>1. /\ IsFiniteSet(Claimed(u)')
              /\ Cardinality(Claimed(u)') <= Cardinality(Claimed(u))
          BY <3>1, <3>2, FS_Subset
        <4>2. Cardinality(Claimed(u)') \in Nat
          BY <4>1, FS_CardinalityType
        <4>3. QED
          BY <3>1, <4>1, <4>2
      <3>3. CASE ~(Claimed(u)' \subseteq Claimed(u))
        <4>1. x.user = u /\ pc[p] = "insert"
          BY <1>7, <3>3
        <4>2. Cardinality(Claimed(u)) < MaxSessions
          BY <1>8, <4>1 DEF LimitInv, CreateInv
        <4>3. Claimed(u)' \subseteq Claimed(u) \union {sid[p]}
          BY <1>7
        <4>4. /\ IsFiniteSet(Claimed(u) \union {sid[p]})
              /\ Cardinality(Claimed(u) \union {sid[p]}) <= Cardinality(Claimed(u)) + 1
          <5> DEFINE C == Claimed(u)
          <5>1. IsFiniteSet(C) /\ Cardinality(C) \in Nat
            BY <3>1
          <5> HIDE DEF C
          <5>2. /\ IsFiniteSet(C \union {sid[p]})
                /\ Cardinality(C \union {sid[p]}) <= Cardinality(C) + 1
            BY <5>1, FS_AddElement
          <5>3. QED
            BY <5>2 DEF C
        <4>5. /\ IsFiniteSet(Claimed(u)')
              /\ Cardinality(Claimed(u)') <= Cardinality(Claimed(u) \union {sid[p]})
          BY <4>3, <4>4, FS_Subset
        <4>6. /\ Cardinality(Claimed(u)') \in Nat
              /\ Cardinality(Claimed(u) \union {sid[p]}) \in Nat
          BY <4>4, <4>5, FS_CardinalityType
        <4>7. QED
          BY <3>1, <4>2, <4>4, <4>5, <4>6
      <3>4. QED
        BY <3>2, <3>3
    <2>6. QED
      BY <2>4, <2>5 DEF LimitInv, ClaimsInv
  <1>9. CASE p \notin Workers
    <2>1. \A u \in Users : Claimed(u)' \subseteq Claimed(u)
      BY <1>4, <1>7, <1>9
    <2>2. x.status # "active"
      BY <1>4, <1>5, <1>9
    <2>3. \A s \in Sids : Active(s)' => sessions'[s] = sessions[s]
      BY <1>1, <2>2 DEF Active
    <2>4. ASSUME NEW w \in Workers PROVE CreateInv(w)'
      <3>1. /\ pc'[w] = pc[w] /\ copy'[w] = copy[w] /\ found'[w] = found[w]
            /\ left'[w] = left[w]
        BY <1>2, <1>3, <1>9
      <3>2. \A s \in Sids : Active(s)' /\ sessions'[s].user = copy[w].user
                               => Active(s) /\ sessions[s].user = copy[w].user
        BY <2>3 DEF Active, Stored
      <3>3. QED
        BY <2>1, <3>1, <3>2, CreateStays
    <2>5. QED
      BY <2>1, <2>4, FewerClaims DEF LimitInv
  <1>10. QED
    BY <1>8, <1>9

LEMMA LimitLogin ==
    ASSUME TypeOK, LimitInv,
           NEW w \in Workers, NEW u \in Users, NEW s \in Sids, Login(w, u, s)
    PROVE  LimitInv'
  <1>1. /\ w \in Procs /\ pc[w] = "idle" /\ pc'[w] = "scan"
        /\ UNCHANGED <<sessions, found>>
        /\ left'[w] = Sids /\ \A v \in Workers \ {w} : left'[v] = left[v]
    BY DEF Login, Goto, TypeOK, Procs
  <1>2. \A q \in Procs \ {w} :
           pc'[q] = pc[q] /\ sid'[q] = sid[q] /\ copy'[q] = copy[q]
    BY GotoOthers DEF Login
  <1>3. \A v \in Workers : Renewing(v)' =>
           Renewing(v) /\ sid'[v] = sid[v] /\ copy'[v] = copy[v]
    BY <1>1, <1>2 DEF Renewing, Procs
  <1>4. \A x \in Users : Claimed(x)' \subseteq Claimed(x)
    BY <1>1, <1>3 DEF Claimed, Active, Stored
  <1>5. CreateInv(w)'
    <2>1. found[w] = {}
      BY <1>1 DEF LimitInv, CreateInv
    <2>2. QED
      BY <1>1, <2>1, FS_EmptySet DEF CreateInv
  <1>6. ASSUME NEW v \in Workers, v # w PROVE CreateInv(v)'
    <2>1. /\ pc'[v] = pc[v] /\ copy'[v] = copy[v] /\ found'[v] = found[v]
          /\ left'[v] = left[v]
      BY <1>1, <1>2, <1>6 DEF Procs
    <2>2. \A k \in Sids : Active(k)' /\ sessions'[k].user = copy[v].user
                             => Active(k) /\ sessions[k].user = copy[v].user
      BY <1>1 DEF Active, Stored
    <2>3. QED
      BY <1>4, <2>1, <2>2, CreateStays
  <1>7. QED
    BY <1>4, <1>5, <1>6, FewerClaims DEF LimitInv

LEMMA LimitScan ==
    ASSUME TypeOK, LimitInv, NEW w \in Workers, NEW s \in Sids, Scan(w, s)
    PROVE  LimitInv'
  <1> DEFINE counts == Active(s) /\ sessions[s].user = copy[w].user
             pair == <<s, sessions[s]>>
  <1>1. /\ pc[w] = "scan" /\ s \in left[w] /\ UNCHANGED <<sessions, sid, copy>>
        /\ left'[w] = left[w] \ {s}
        /\ found'[w] = IF counts THEN found[w] \union {pair} ELSE found[w]
        /\ pc'[w] = (IF left[w] = {s} THEN "evict" ELSE "scan")
    BY DEF Scan, TypeOK, Procs
  <1>2. \A v \in Workers \ {w} :
           pc'[v] = pc[v] /\ left'[v] = left[v] /\ found'[v] = found[v]
    BY DEF Scan, TypeOK, Procs
  <1>3. \A v \in Workers : Renewing(v)' => Renewing(v)
    BY <1>1, <1>2 DEF Renewing
  <1>4. \A x \in Users : Claimed(x)' \subseteq Claimed(x)
    <2>1. ASSUME NEW x \in Users, NEW v \in Workers, NEW f \in found'[v], f[2].user = x,
                 f[1] \in Sids
          PROVE  f[1] \in Claimed(x)
      <3>1. CASE f \in found[v]
        BY <2>1, <3>1 DEF Claimed
      <3>2. CASE f \notin found[v]
        <4>1. counts /\ f = pair
          BY <1>1, <1>2, <2>1, <3>2
        <4>2. QED
          BY <2>1, <4>1 DEF Claimed
      <3>3. QED
        BY <3>1, <3>2
    <2>2. QED
      BY <1>1, <1>3, <2>1 DEF Claimed, Active, Stored
  <1>5. CreateInv(w)'
    <2>1. CreateInv(w)
      BY DEF LimitInv
    <2>2. IsFiniteSet(found'[w])
      <3>1. IsFiniteSet(found[w])
        BY <2>1 DEF CreateInv
      <3>2. IsFiniteSet(found[w] \union {pair})
        BY <3>1, FS_AddElement
      <3>3. QED
        BY <1>1, <3>1, <3>2
    <2>3. \A f \in found'[w] : f[2].user = copy[w].user
      BY <1>1, <2>1 DEF CreateInv
    <2>4. ASSUME NEW k \in Sids, Active(k), sessions[k].user = copy[w].user,
                 k \notin left'[w]
          PROVE  \E f \in found'[w] : f[1] = k
      <3>1. CASE k = s
        <4>1. pair \in found'[w] /\ pair[1] = k
          BY <1>1, <2>4, <3>1
        <4>2. QED
          BY <4>1
      <3>2. CASE k # s
        BY <1>1, <2>1, <2>4, <3>2 DEF CreateInv
      <3>3. QED
        BY <3>1, <3>2
    <2>5. pc'[w] = "evict" => left'[w] = {}
      BY <1>1
    <2>6. QED
      BY <1>1, <2>2, <2>3, <2>4, <2>5 DEF CreateInv, Active, Stored
  <1>6. ASSUME NEW v \in Workers, v # w PROVE CreateInv(v)'
    <2>1. /\ pc'[v] = pc[v] /\ copy'[v] = copy[v] /\ found'[v] = found[v]
          /\ left'[v] = left[v]
      BY <1>1, <1>2, <1>6
    <2>2. \A k \in Sids : Active(k)' /\ sessions'[k].user = copy[v].user
                             => Active(k) /\ sessions[k].user = copy[v].user
      BY <1>1 DEF Active, Stored
    <2>3. QED
      BY <1>4, <2>1, <2>2, CreateStays
  <1>7. QED
    BY <1>4, <1>5, <1>6, FewerClaims DEF LimitInv

LEMMA LimitEvict ==
    ASSUME TypeOK, KeysInv, MethodsAlone, LimitInv, NEW w \in Workers, Evict(w)
    PROVE  LimitInv'
  <1> DEFINE Found == {f[1] : f \in found[w]}
  <1>1. /\ w \in Procs /\ pc[w] = "evict" /\ UNCHANGED <<sid, copy, left>>
        /\ pc'[w] = "insert" /\ found'[w] = {}
        /\ \A v \in Workers \ {w} : pc'[v] = pc[v] /\ found'[v] = found[v]
    BY DEF Evict, TypeOK, Procs
  <1>2. PICK u \in Users : u = copy[w].user
    BY <1>1, InHand DEF Session
  <1>3. CreateInv(w)
    BY DEF LimitInv
  <1>4. \A v \in Workers : ~Renewing(v)
    BY <1>1 DEF MethodsAlone, InMethod, StoreSteps, Renewing
  <1>5. \A v \in Workers : ~Renewing(v)'
    BY <1>1, <1>4 DEF Renewing
  <1>6. \A v \in Workers \ {w} : found[v] = {}
    BY <1>1 DEF MethodsAlone, InMethod, LimitInv, CreateInv
  \* Claims after the step are of sessions active before it and left alone.
  <1>7. \A x \in Users : \A s \in Claimed(x)' :
           /\ s \in Sids /\ Active(s) /\ sessions[s].user = x
           /\ sessions'[s] = sessions[s]
    <2>1. ASSUME NEW x \in Users, NEW s \in Claimed(x)'
          PROVE  s \in Sids /\ Active(s)' /\ sessions'[s].user = x
      BY <1>1, <1>5, <1>6 DEF Claimed
    <2>2. \A s \in Sids : Active(s)' => sessions'[s] = sessions[s]
      BY EvictStored DEF Active
    <2>3. QED
      BY <2>1, <2>2 DEF Active, Stored
  <1>8. \A x \in Users : Claimed(x)' \subseteq Claimed(x)
    BY <1>7 DEF Claimed
  <1>9. Cardinality(Claimed(u)') < MaxSessions
    <2>1. IsFiniteSet(Claimed(u)) /\ Cardinality(Claimed(u)) <= MaxSessions
      BY <1>2 DEF LimitInv, ClaimsInv
    <2>2. CASE Cardinality(found[w]) < MaxSessions
      <3>1. \A s \in Claimed(u)' : s \in Found
        BY <1>1, <1>2, <1>3, <1>7 DEF CreateInv
      <3>2. /\ IsFiniteSet(found[w]) /\ IsFiniteSet(Found)
            /\ Cardinality(Found) <= Cardinality(found[w])
        BY <1>3, FoundIds DEF CreateInv
      <3>3. /\ IsFiniteSet(Claimed(u)')
            /\ Cardinality(Claimed(u)') <= Cardinality(Found)
        <4>1. Claimed(u)' \in SUBSET Found
          BY <3>1
        <4>2. QED
          BY <3>2, <4>1, FS_Subset
      <3>4. /\ Cardinality(found[w]) \in Nat /\ Cardinality(Found) \in Nat
            /\ Cardinality(Claimed(u)') \in Nat /\ MaxSessions \in Nat
        BY <3>2, <3>3, FS_CardinalityType, SessionAssumption
      <3>5. QED
        BY <2>2, <3>2, <3>3, <3>4
    <2>3. CASE ~(Cardinality(found[w]) < MaxSessions)
      <3>1. PICK f \in found[w] :
               sessions' = [sessions EXCEPT ![f[1]] = [f[2] EXCEPT !.status = "revoked"]]
        BY <2>3 DEF Evict
      <3>2. f[1] \in Sids /\ f[2] \in Session /\ f[2].user = u
        <4>1. found[w] \subseteq Sids \X Session
          BY DEF TypeOK
        <4>2. f[2].user = copy[w].user
          BY <1>1, <1>3 DEF CreateInv
        <4>3. QED
          BY <1>2, <4>1, <4>2
      <3>3. f[1] \in Claimed(u)
        BY <3>2 DEF Claimed
      <3>4. sessions'[f[1]].status = "revoked"
        BY <3>1, <3>2 DEF TypeOK, Session
      <3>5. f[1] \notin Claimed(u)'
        <4>1. f[1] \in Claimed(u)' => Active(f[1])'
          BY <1>2, <1>7 DEF Active, Stored
        <4>2. QED
          BY <3>4, <4>1 DEF Active
      <3>6. /\ IsFiniteSet(Claimed(u) \ {f[1]})
            /\ Cardinality(Claimed(u) \ {f[1]}) = Cardinality(Claimed(u)) - 1
        BY <2>1, <3>3, FS_RemoveElement
      <3>7. Claimed(u)' \subseteq Claimed(u) \ {f[1]}
        BY <1>2, <1>8, <3>5
      <3>8. /\ IsFiniteSet(Claimed(u)')
            /\ Cardinality(Claimed(u)') <= Cardinality(Claimed(u) \ {f[1]})
        BY <3>6, <3>7, FS_Subset
      <3>9. /\ Cardinality(Claimed(u)) \in Nat /\ Cardinality(Claimed(u)') \in Nat
            /\ MaxSessions \in Nat
        BY <2>1, <3>8, FS_CardinalityType, SessionAssumption
      <3>10. QED
        BY <2>1, <3>6, <3>8, <3>9
    <2>4. QED
      BY <2>2, <2>3
  <1>10. CreateInv(w)'
    <2>1. pc'[w] = "insert" /\ found'[w] = {} /\ copy' = copy
      BY <1>1
    <2>2. Cardinality(Claimed(copy[w].user))' < MaxSessions
      BY <1>9, <1>2, <2>1
    <2>3. QED
      BY <2>1, <2>2, FS_EmptySet DEF CreateInv
  <1>11. ASSUME NEW v \in Workers, v # w PROVE CreateInv(v)'
    <2>1. pc[v] \notin InMethod
      BY <1>1, <1>11 DEF MethodsAlone, InMethod
    <2>2. QED
      BY <1>1, <1>6, <1>11, <2>1, FS_EmptySet DEF CreateInv, InMethod, StoreSteps
  <1>12. QED
    BY <1>8, <1>10, <1>11, FewerClaims DEF LimitInv

LEMMA LimitGoto ==
    ASSUME TypeOK, LimitInv, NEW p \in Procs, UNCHANGED <<sessions, found>>,
           pc[p] \notin Drawing, LeftAlone,
           NEW step \in Steps \ Drawing, NEW k \in Sids \union {NoSid}, NEW x,
           Goto(p, step, k, x),
           step \in StoreSteps /\ x.status = "active" => Active(k),
           step \in Holding => k # NoSid /\ SameOwner(x, sessions[k])
    PROVE  LimitInv'
  <1>1. pc'[p] = step /\ sid'[p] = k /\ copy'[p] = x
    BY DEF Goto, TypeOK
  <1>2. \A q \in Procs \ {p} :
           pc'[q] = pc[q] /\ sid'[q] = sid[q] /\ copy'[q] = copy[q]
    BY GotoOthers
  <1>3. ASSUME NEW v \in Workers, Renewing(v)'
        PROVE  \/ Renewing(v) /\ sid'[v] = sid[v] /\ copy'[v] = copy[v]
               \/ /\ sid'[v] \in Sids /\ Active(sid'[v])
                  /\ sessions[sid'[v]].user = copy'[v].user
    <2>1. CASE v = p
      <3>1. step = "renew" /\ x.status = "active"
        BY <1>1, <1>3, <2>1 DEF Renewing
      <3>2. Active(k) /\ k \in Sids /\ SameOwner(x, sessions[k])
        BY <3>1 DEF StoreSteps, Holding
      <3>3. QED
        BY <1>1, <2>1, <3>2 DEF SameOwner
    <2>2. CASE v # p
      BY <1>2, <1>3, <2>2 DEF Renewing, Procs
    <2>3. QED
      BY <2>1, <2>2
  <1>4. \A u \in Users : Claimed(u)' \subseteq Claimed(u)
    BY <1>3 DEF Claimed, Active, Stored
  <1>5. ASSUME NEW v \in Workers PROVE CreateInv(v)'
    <2>1. CASE v = p
      <3>1. found[v] = {}
        BY <2>1 DEF LimitInv, CreateInv, Drawing
      <3>2. QED
        BY <1>1, <2>1, <3>1, FS_EmptySet DEF CreateInv, Drawing
    <2>2. CASE v # p
      <3>1. /\ pc'[v] = pc[v] /\ copy'[v] = copy[v] /\ found'[v] = found[v]
            /\ left'[v] = left[v]
        BY <1>2, <2>2 DEF Procs, LeftAlone
      <3>2. \A s \in Sids : Active(s)' /\ sessions'[s].user = copy[v].user
                               => Active(s) /\ sessions[s].user = copy[v].user
        BY DEF Active, Stored
      <3>3. QED
        BY <1>4, <3>1, <3>2, CreateStays
    <2>3. QED
      BY <2>1, <2>2
  <1>6. QED
    BY <1>4, <1>5, FewerClaims DEF LimitInv

LEMMA NextLimitInv ==
    TypeOK /\ KeysInv /\ EndingInv /\ MethodsAlone /\ LimitInv /\ [Next]_vars
       => LimitInv'
  <1>1. SUFFICES ASSUME TypeOK, KeysInv, EndingInv, MethodsAlone, LimitInv, [Next]_vars
                 PROVE  LimitInv'
    OBVIOUS
  <1>2. CASE UNCHANGED <<sessions, pc, sid, copy, found>> /\ LeftAlone
    <2>1. \A u \in Users : Claimed(u)' = Claimed(u)
      BY <1>2 DEF Claimed, Active, Stored, Renewing
    <2>2. ASSUME NEW w \in Workers PROVE CreateInv(w)'
      <3>1. \A s \in Sids : Active(s)' /\ sessions'[s].user = copy[w].user
                               => Active(s) /\ sessions[s].user = copy[w].user
        BY <1>2 DEF Active, Stored
      <3>2. QED
        BY <1>1, <1>2, <2>1, <3>1, CreateStays DEF LeftAlone
    <2>3. QED
      BY <1>1, <2>1, <2>2, FewerClaims DEF LimitInv
  <1>3. QED
    BY <1>1, <1>2, LimitStore, LimitLogin, LimitScan, LimitEvict, LimitGoto, NextCases

\* SessionLimit: with one request in a method at a time nobody has more active
\* sessions than MaxSessionsPerUser, although the cleanup may end the session
\* Create is about to evict, and a renewal may store one again that the cleanup
\* has ended meanwhile.
THEOREM SessionLimitAlone == Spec /\ []MethodsAlone => []SessionLimit
  <1>1. Init => LimitInv
    <2>1. ASSUME Init, NEW u \in Users PROVE Claimed(u) = {}
      BY <2>1 DEF Init, Claimed, Active, Stored, Renewing, Procs
    <2>2. Init => ClaimsInv
      <3>1. \A u \in Users : Init => Claimed(u) = {}
        BY <2>1
      <3>2. /\ IsFiniteSet({}) /\ Cardinality({}) = 0
            /\ MaxSessions \in Nat
        BY FS_EmptySet, SessionAssumption
      <3>3. QED
        BY <3>1, <3>2 DEF ClaimsInv
    <2>3. ASSUME Init, NEW w \in Workers PROVE CreateInv(w)
      <3>1. pc[w] = "idle" /\ found[w] = {}
        BY <2>3 DEF Init, Procs
      <3>2. QED
        BY <3>1, FS_EmptySet DEF CreateInv
    <2>4. QED
      BY <2>2, <2>3 DEF LimitInv
  <1>2. LimitInv => SessionLimit
    <2>1. SUFFICES ASSUME LimitInv, NEW u \in Users
                   PROVE  Cardinality({s \in Sids : Active(s) /\ sessions[s].user = u})
                             <= MaxSessions
      BY DEF SessionLimit
    <2> DEFINE A == {s \in Sids : Active(s) /\ sessions[s].user = u}
    <2>2. IsFiniteSet(Claimed(u)) /\ Cardinality(Claimed(u)) <= MaxSessions
      BY <2>1 DEF LimitInv, ClaimsInv
    <2>3. A \subseteq Claimed(u)
      BY DEF Claimed
    <2>4. IsFiniteSet(A) /\ Cardinality(A) <= Cardinality(Claimed(u))
      BY <2>2, <2>3, FS_Subset
    <2>5. /\ Cardinality(A) \in Nat /\ Cardinality(Claimed(u)) \in Nat
          /\ MaxSessions \in Nat
      BY <2>2, <2>4, FS_CardinalityType, SessionAssumption
    <2>6. QED
      BY <2>2, <2>4, <2>5
  <1>3. QED
    BY <1>1, <1>2, NextLimitInv, TypeCorrect, KeysInvAlways, EndingInvAlways, PTL
    DEF Spec
=============================================================================
