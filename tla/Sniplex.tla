------------------------------ MODULE Sniplex ------------------------------
(***************************************************************************)
(* sniplex: a TLS multiplexer.  The -u flags "name,backend" go into a map, *)
(* and the map, in Go's random order, into the routes of a tcpproxy, which *)
(* takes the first route that matches a connection: an SNI route matches   *)
(* its name, the route of "default" everything.                            *)
(***************************************************************************)
EXTENDS Naturals, Sequences, SequencesExt

CONSTANTS SNI,          \* names that clients ask for
          Backend,
          FlagMax       \* bound on the flags given

Default == "default"
Close == "close"
Unset == "unset"
ASSUME SniAssumption == FlagMax \in Nat /\ {Close, Unset} \cap Backend = {}

VARIABLES sniPc,        \* "flags", "routes", "run" or "panic"
          flags,        \* the flags read: name and backend, or without comma
          sniDict,      \* name to backend
          routes,       \* in the order in which they are tried
          choice        \* choice[n]: the backend of the last connection for n

sniVars == <<sniPc, flags, sniDict, routes, choice>>

Names == SNI \cup {Default}
Flag == Names \X Backend

SniInit ==
    /\ sniPc = "flags" /\ flags = <<>> /\ routes = <<>>
    /\ sniDict = [n \in Names |-> Unset] /\ choice = [n \in SNI |-> Unset]

\* Mutant: the first flag of a name stays.
ReadFirst ==
    /\ sniPc = "flags" /\ Len(flags) < FlagMax
    /\ \E f \in Flag : /\ flags' = Append(flags, f)
                       /\ sniDict' = [sniDict EXCEPT ![f[1]] = IF @ = Unset THEN f[2] ELSE @]
    /\ UNCHANGED <<sniPc, routes, choice>>
\* A flag without a comma has no second part.
ReadFlag ==
    /\ sniPc = "flags" /\ Len(flags) < FlagMax
    /\ \/ \E f \in Flag : /\ flags' = Append(flags, f)
                          /\ sniDict' = [sniDict EXCEPT ![f[1]] = f[2]]
                          /\ UNCHANGED sniPc
       \/ sniPc' = "panic" /\ UNCHANGED <<flags, sniDict>>
    /\ UNCHANGED <<routes, choice>>

FlagsRead ==
    /\ sniPc = "flags" /\ sniPc' = "routes"
    /\ UNCHANGED <<flags, sniDict, routes, choice>>

InRoutes == {routes[i][1] : i \in 1..Len(routes)}
\* AddRoute or AddSNIRoute for one more name of the map, in any order.
AddARoute(n) ==
    /\ sniPc = "routes" /\ sniDict[n] # Unset /\ n \notin InRoutes
    /\ routes' = Append(routes, <<n, sniDict[n]>>)
    /\ UNCHANGED <<sniPc, flags, sniDict, choice>>

Run ==
    /\ sniPc = "routes" /\ \A n \in Names : sniDict[n] # Unset => n \in InRoutes
    /\ sniPc' = "run"
    /\ UNCHANGED <<flags, sniDict, routes, choice>>

Matches(r, n) == r[1] \in {n, Default}
\* tcpproxy (external): the first route that matches, else the connection is
\* closed.
First(n) ==
    LET m == {i \in 1..Len(routes) : Matches(routes[i], n)}
    IN IF m = {} THEN Close ELSE routes[CHOOSE i \in m : \A j \in m : i <= j][2]
Connect(n) ==
    /\ sniPc = "run"
    /\ choice' = [choice EXCEPT ![n] = First(n)]
    /\ UNCHANGED <<sniPc, flags, sniDict, routes>>

SniNext == ReadFlag \/ FlagsRead \/ Run \/ (\E n \in Names : AddARoute(n)) \/ \E n \in SNI : Connect(n)
SniSpec == SniInit /\ [][SniNext]_sniVars

-----------------------------------------------------------------------------
SniTypeOK ==
    /\ sniPc \in {"flags", "routes", "run", "panic"}
    /\ flags \in Seq(Flag)
    /\ sniDict \in [Names -> Backend \cup {Unset}]
    /\ routes \in Seq(Flag)
    /\ choice \in [SNI -> Backend \cup {Unset, Close}]

LastFlag(n) ==
    LET at == {i \in 1..Len(flags) : flags[i][1] = n}
    IN IF at = {} THEN Unset ELSE flags[CHOOSE i \in at : \A j \in at : j <= i][2]

(* Whatever the order of the routes, a connection goes to the backend that *)
(* the last flag with its name gives or to that of the last "default", and *)
(* is closed only when there is neither (main.go:34-50).                   *)
OwnOrDefault ==
    \A n \in SNI : choice[n] # Unset =>
        IF choice[n] = Close THEN LastFlag(n) = Unset /\ LastFlag(Default) = Unset
        ELSE choice[n] \in {LastFlag(n), LastFlag(Default)}

(* A name that has a flag of its own goes to its backend (main.go:24).     *)
NamedGoesToOwn ==
    \A n \in SNI : choice[n] # Unset /\ LastFlag(n) # Unset => choice[n] = LastFlag(n)
=============================================================================
