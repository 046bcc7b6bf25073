---------------------------- MODULE SessionTable ----------------------------
(***************************************************************************)
(* What sshproxy's session list promises, whatever its cleaner does to it  *)
(* without the lock: it is a table of addresses and ages.  A decision      *)
(* drops at most one session and that one old, and admits an address by    *)
(* listing it while the table is within the limit.  The races show only as *)
(* Forget: between two decisions any one session may vanish.               *)
(***************************************************************************)
EXTENDS Integers, FiniteSets, Functions

CONSTANTS User, IP, SessionPerUser, Expiry

VARIABLES table,    \* table[u]: from the addresses listed to their ages
          req       \* the request to be decided, or the last result

tableVars == <<table, req>>

TableInit ==
    /\ table = [u \in User |-> [a \in {} |-> 0]]
    /\ req = [res |-> "none"]

Without(t, v) == Restrict(t, DOMAIN t \ {v})
Renewed(t, ip) == [a \in DOMAIN t |-> IF a = ip THEN 0 ELSE t[a]]
Listing(t, ip) ==
    IF ip \in DOMAIN t THEN t
    ELSE [a \in DOMAIN t \cup {ip} |-> IF a = ip THEN 0 ELSE t[a]]
Old(t) == {a \in DOMAIN t : t[a] > Expiry}

\* With no old session the caller's is renewed; else one old session goes,
\* and the caller's may have been come to before it.
Pruned(t, ip) ==
    IF Old(t) = {} THEN {Renewed(t, ip)}
    ELSE {Without(r, v) : r \in {t, Renewed(t, ip)}, v \in Old(t)}

Ask(u, ip) ==
    /\ req.res # "wait"
    /\ req' = [user |-> u, ip |-> ip, res |-> "wait"]
    /\ UNCHANGED table

Asked(u, ip) == req = [user |-> u, ip |-> ip, res |-> "wait"]

Admit(u, ip) ==
    /\ Asked(u, ip)
    /\ \/ SessionPerUser <= 0 /\ UNCHANGED table
       \/ SessionPerUser > 0 /\ \E t \in Pruned(table[u], ip) :
             /\ Cardinality(DOMAIN t) <= SessionPerUser
             /\ table' = [table EXCEPT ![u] = Listing(t, ip)]
    /\ req' = [res |-> "allow"]

Refuse(u, ip) ==
    /\ Asked(u, ip)
    /\ SessionPerUser > 0
    /\ \E t \in Pruned(table[u], ip) :
          /\ Cardinality(DOMAIN t) > SessionPerUser
          /\ table' = [table EXCEPT ![u] = t]
    /\ req' = [res |-> "drop"]

Forget(u) ==
    /\ req.res # "wait"
    /\ \E v \in DOMAIN table[u] : table' = [table EXCEPT ![u] = Without(@, v)]
    /\ UNCHANGED req

Aged(t) == [a \in DOMAIN t |-> IF t[a] > Expiry THEN t[a] ELSE t[a] + 1]
Pass == table' = [u \in User |-> Aged(table[u])] /\ UNCHANGED req

TableNext ==
    \/ \E u \in User, ip \in IP : Ask(u, ip) \/ Admit(u, ip) \/ Refuse(u, ip)
    \/ \E u \in User : Forget(u)
    \/ Pass

TableSpec == TableInit /\ [][TableNext]_tableVars
=============================================================================
