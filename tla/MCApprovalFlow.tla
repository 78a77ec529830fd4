---------------------------- MODULE MCApprovalFlow ----------------------------
(***************************************************************************)
(* Instances of ApprovalFlow for TLC.  One high-risk tool, as in the code  *)
(* (risk.go marks send_email only), one low-risk tool; an admin who may    *)
(* send mail, a second admin, a visitor who may not.                       *)
(***************************************************************************)
EXTENDS ApprovalFlow

CONSTANTS admin, visitor, t1, mail, calc, c1, d1, d2

MCCanExecute == [u \in Users |-> IF u = visitor THEN {calc} ELSE {mail, calc}]

Chats(kinds, users, intents) ==
    [kind : kinds, user : users, thread : {t1}, decision : {"other"},
     intent : intents]

Resumes(kinds, users, decisions) ==
    [kind : kinds, user : users, thread : {t1}, decision : decisions,
     intent : {NoIntent}]

\* The inputs of each request: c1 is a chat, d1 and d2 are decisions.
MCOffered ==
    [r \in Requests |->
        CASE r = c1 -> Chats({"chatStream"}, {admin}, {mail})
                       \union Chats({"chat"}, {visitor}, {mail})
          [] r = d1 -> Resumes({"resume"}, {admin}, {"approve"})
          [] r = d2 -> Resumes({"resumeStream"}, {admin}, Decisions)
                       \union Resumes({"resume"}, {visitor}, {"approve"})
                       \union Resumes({"history"}, {admin}, {"other"})]
=============================================================================
