----------------------------- MODULE ApprovalGate -----------------------------
(***************************************************************************)
(* What the approval flow promises, without threads, stores or handlers:   *)
(* a high-risk tool runs only under a grant, a grant is given only by the  *)
(* owner of a card that has not expired, and a card is issued only to a    *)
(* user who may execute its tool.  (README "HITL", docs/DOC-03.md.)        *)
(* That a card is granted at most once is not part of the promise: the     *)
(* handlers do not keep it, see OneShot in ApprovalFlow.                   *)
(***************************************************************************)
EXTENDS Naturals, Sequences

CONSTANTS Users, Requests, Tools, HighRisk, CanExecute

VARIABLES
    cards,    \* the cards issued so far: [owner, tool]
    expired,  \* the first so many cards have expired
    grants,   \* approvals accepted: [req, card, by]
    execs     \* tool executions: [req, tool, by]

gateVars == <<cards, expired, grants, execs>>

Init ==
    /\ cards = << >>
    /\ expired = 0
    /\ grants = {}
    /\ execs = {}

Issue(u, t) ==
    /\ t \in CanExecute[u] \intersect HighRisk
    /\ cards' = Append(cards, [owner |-> u, tool |-> t])
    /\ UNCHANGED <<expired, grants, execs>>

Expire ==
    /\ expired < Len(cards)
    /\ expired' = expired + 1
    /\ UNCHANGED <<cards, grants, execs>>

\* A request is granted one card, by the owner, while the card is valid.
Grant(r, c) ==
    /\ \A g \in grants : g.req # r
    /\ c > expired
    /\ grants' = grants \union {[req |-> r, card |-> c, by |-> cards[c].owner]}
    /\ UNCHANGED <<cards, expired, execs>>

\* A tool runs for a user who may execute it; a high-risk one needs a grant
\* of this request by this user on a card for this tool.
Execute(r, u, t) ==
    /\ t \in CanExecute[u]
    /\ t \in HighRisk =>
          \E g \in grants : g.req = r /\ g.by = u /\ cards[g.card].tool = t
    /\ execs' = execs \union {[req |-> r, tool |-> t, by |-> u]}
    /\ UNCHANGED <<cards, expired, grants>>

Next ==
    \/ \E u \in Users, t \in Tools : Issue(u, t)
    \/ Expire
    \/ \E r \in Requests, c \in 1..Len(cards) : Grant(r, c)
    \/ \E r \in Requests, u \in Users, t \in Tools : Execute(r, u, t)

Spec == Init /\ [][Next]_gateVars
=============================================================================
