---------------------------- MODULE MCConversation ----------------------------
(***************************************************************************)
(* Instances of Conversation for TLC: a chat whose answer may take two     *)
(* specialists, and another chat or a decision, on one thread.             *)
(***************************************************************************)
EXTENDS Conversation

CONSTANTS u1, c1, c2, s1

MCSteps == <<"call", "text">>

Inputs(kinds, users, teams, intents) ==
    [kind : kinds, user : users, team : teams, intent : intents]

MCOffered ==
    [r \in Requests |->
        CASE r = c1 -> Inputs({"chatStream"}, {u1}, {Specialists}, {FALSE})
                       \union Inputs({"chatStream"}, {u1}, {{s1}}, {TRUE})
                       \union Inputs({"chat"}, {u1}, {{s1}}, {FALSE})
          [] r = c2 -> Inputs(ChatKinds, Users, {{}}, {FALSE})
                       \union Inputs({"resume", "resumeStream"}, Users, {{s1}}, {FALSE})]
=============================================================================
