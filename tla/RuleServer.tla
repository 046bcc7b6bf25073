----------------------------- MODULE RuleServer -----------------------------
(***************************************************************************)
(* What fakedns promises its clients: while it serves, each name has one   *)
(* rule or none and that never changes; a query for a name with a rule is  *)
(* answered by it and by nobody else; any other gets upstream's answer for *)
(* its own name, or none.  A server that has a rule does not go down.      *)
(* Neither the tables nor the one connection that all queries share shows. *)
(***************************************************************************)
EXTENDS Naturals

CONSTANTS Query, Asked

VARIABLES phase,    \* "load", "serve", or "panic" when it is down
          rule,     \* rule[n]: the line a name is answered by, 0 for none
          call      \* call[q]: a query, its name and reply

serverVars == <<phase, rule, call>>

NoReply == [from |-> "nobody"]
Fresh == [st |-> "idle", name |-> <<>>, reply |-> NoReply]

ServerInit ==
    /\ phase = "load" /\ rule = [n \in Asked |-> 0]
    /\ call = [q \in Query |-> Fresh]

OpenDoors ==
    /\ phase = "load" /\ phase' = "serve"
    /\ rule' \in [Asked -> Nat]
    /\ UNCHANGED call

\* While it loads, or when it has no rules at all.
GoDown ==
    /\ phase # "panic" /\ phase' = "panic"
    /\ \A n \in Asked : rule[n] = 0
    /\ UNCHANGED <<rule, call>>

Arrive(q, n) ==
    /\ phase = "serve" /\ call[q] = Fresh
    /\ call' = [call EXCEPT ![q] = [st |-> "open", name |-> n, reply |-> NoReply]]
    /\ UNCHANGED <<phase, rule>>

Open(q) == phase = "serve" /\ call[q].st = "open"
Answer(q, what) ==
    /\ call' = [call EXCEPT ![q] = [@ EXCEPT !.st = "idle", !.reply = what]]
    /\ UNCHANGED <<phase, rule>>

ByRule(q) ==
    /\ Open(q) /\ rule[call[q].name] # 0
    /\ Answer(q, [from |-> "rule", line |-> rule[call[q].name]])

ByUpstream(q) ==
    /\ Open(q) /\ rule[call[q].name] = 0
    /\ \E what \in {NoReply, [from |-> "upstream", name |-> call[q].name]} : Answer(q, what)

ServerNext ==
    \/ OpenDoors \/ GoDown
    \/ \E q \in Query : ByRule(q) \/ ByUpstream(q) \/ \E n \in Asked : Arrive(q, n)

ServerSpec == ServerInit /\ [][ServerNext]_serverVars
=============================================================================
