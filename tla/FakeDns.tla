------------------------------ MODULE FakeDns ------------------------------
(***************************************************************************)
(* fakedns: a DNS server that answers some names itself, by rules from a   *)
(* file, and asks one upstream for the others.                             *)
(*                                                                         *)
(* Loading puts each line into a map by its name, and a prefix or suffix   *)
(* also into a search tree (suffixes reversed).  The map has one entry per *)
(* name whatever its mode: a later line replaces an earlier one, whose     *)
(* tree entry stays.  A line is known by its number, which stands for its  *)
(* IP.  Queries are handled by concurrent goroutines; those for upstream   *)
(* share one connection under dnsLock.                                     *)
(***************************************************************************)
EXTENDS Naturals, Sequences, SequencesExt, FiniteSets

CONSTANTS Letter, MaxLen,     \* names are sequences of 1 to MaxLen letters
          MaxLines,           \* bound on lines of the rule file
          Query,              \* the goroutines of handleDNS
          Asked               \* the names that are queried

Name == UNION {[1..k -> Letter] : k \in 1..MaxLen}
Mode == {"prefix", "suffix", "fqdn", "other"}
None == 0

\* A line: three fields, or another number of them.
Rule == [name : Name, mode : Mode]
Short == [name |-> <<>>, mode |-> "short"]

ASSUME DnsAssumption == /\ MaxLen \in Nat /\ MaxLines \in Nat /\ Asked \subseteq Name
                        /\ "free" \notin Query

VARIABLES ruleFile,   \* whether the flag -rule is given
          lines,      \* the rule file
          pos,        \* lines loaded
          pc,         \* the program: "load", "serve" or "panic"
          table,      \* routeFQDNs: name to line number, or None
          prefixes, suffixes,   \* keys of routePrefixes, routeSuffixes
          h,          \* h[q]: the goroutine's state, the name it was asked
                      \* for, and its reply
          dnsLock,    \* the goroutine that holds it, or "free"
          conn,       \* the connection to upstream: "up" or "eof"
          wire        \* the name upstream was asked last

vars == <<ruleFile, lines, pos, pc, table, prefixes, suffixes, h, dnsLock, conn, wire>>

Nothing == [from |-> "nobody"]
Idle == [st |-> "idle", name |-> <<>>, reply |-> Nothing]

Init ==
    /\ ruleFile \in BOOLEAN
    /\ lines \in [1..MaxLines -> IF ruleFile THEN Rule \cup {Short} ELSE {Short}]
    /\ pos = 0 /\ pc = "load"
    /\ table = [n \in Name |-> None] /\ prefixes = {} /\ suffixes = {}
    /\ h = [q \in Query |-> Idle]
    /\ dnsLock = "free" /\ conn = "up" /\ wire = <<>>

-----------------------------------------------------------------------------
(* LoadDomainsCsv *)

\* What the map's entry of a name says about mode and IP.
ModeOf(n) == IF table[n] = None THEN "none"
             ELSE LET m == lines[table[n]].mode IN IF m = "other" THEN "fqdn" ELSE m

\* Mutant: numbers lines from 0.
LoadFromZero(l) ==
    /\ table' = [table EXCEPT ![l.name] = pos - 1]
    /\ prefixes' = IF l.mode = "prefix" THEN prefixes \cup {l.name} ELSE prefixes
    /\ suffixes' = IF l.mode = "suffix" THEN suffixes \cup {Reverse(l.name)} ELSE suffixes
\* Mutant: does not reverse suffixes.
LoadUnreversed(l) ==
    /\ table' = [table EXCEPT ![l.name] = pos + 1]
    /\ prefixes' = IF l.mode = "prefix" THEN prefixes \cup {l.name} ELSE prefixes
    /\ suffixes' = IF l.mode = "suffix" THEN suffixes \cup {l.name} ELSE suffixes
Load(l) ==
    /\ table' = [table EXCEPT ![l.name] = pos + 1]
    /\ prefixes' = IF l.mode = "prefix" THEN prefixes \cup {l.name} ELSE prefixes
    /\ suffixes' = IF l.mode = "suffix" THEN suffixes \cup {Reverse(l.name)} ELSE suffixes

\* A line that has not three fields is made one of two, and its third read.
LoadLine ==
    /\ pc = "load" /\ ruleFile /\ pos < Len(lines)
    /\ IF lines[pos + 1] = Short
       THEN pc' = "panic" /\ UNCHANGED <<pos, table, prefixes, suffixes>>
       ELSE Load(lines[pos + 1]) /\ pos' = pos + 1 /\ UNCHANGED pc
    /\ UNCHANGED <<ruleFile, lines, h, dnsLock, conn, wire>>

\* The file cannot be opened.
LoadFails ==
    /\ pc = "load" /\ ruleFile /\ pos = 0
    /\ pc' = "panic"
    /\ UNCHANGED <<ruleFile, lines, pos, table, prefixes, suffixes, h, dnsLock, conn, wire>>

\* Without the flag nothing is loaded, and the trees are not even made.
Serve ==
    /\ pc = "load" /\ (ruleFile => pos = Len(lines))
    /\ pc' = "serve"
    /\ UNCHANGED <<ruleFile, lines, pos, table, prefixes, suffixes, h, dnsLock, conn, wire>>

-----------------------------------------------------------------------------
(* The search trees: the longest key that is a prefix of n, if any (a set  *)
(* of one name or none).                                                   *)
Longest(S) == {k \in S : \A j \in S : Len(j) <= Len(k)}
LongestPrefix(keys, n) == Longest({k \in keys : IsPrefix(k, n)})

ByPrefix(n) == {k \in LongestPrefix(prefixes, n) : ModeOf(k) = "prefix"}
BySuffix(n) == {k \in {Reverse(r) : r \in LongestPrefix(suffixes, Reverse(n))} :
                  ModeOf(k) = "suffix"}

inDomainList(n) == ModeOf(n) # "fqdn" /\ ByPrefix(n) = {} /\ BySuffix(n) = {}

\* Mutant: does not ask the map for the mode of what the tree returned.
ApproperiateTree(n) ==
    IF ModeOf(n) = "fqdn" THEN table[n]
    ELSE IF LongestPrefix(prefixes, n) # {}
         THEN table[CHOOSE k \in LongestPrefix(prefixes, n) : TRUE]
         ELSE IF BySuffix(n) # {} THEN table[CHOOSE k \in BySuffix(n) : TRUE] ELSE None
ApproperiateIP(n) ==
    IF ModeOf(n) = "fqdn" THEN table[n]
    ELSE IF ByPrefix(n) # {} THEN table[CHOOSE k \in ByPrefix(n) : TRUE]
    ELSE IF BySuffix(n) # {} THEN table[CHOOSE k \in BySuffix(n) : TRUE]
    ELSE None

-----------------------------------------------------------------------------
At(q, st) == h[q].st = st
Goto(q, st) == h' = [h EXCEPT ![q].st = st]
Reply(q, what) == h' = [h EXCEPT ![q].st = "idle", ![q].reply = what]

(* A query arrives. *)
Ask(q, n) ==
    /\ pc = "serve" /\ h[q] = Idle
    /\ h' = [h EXCEPT ![q] = [st |-> "asked", name |-> n, reply |-> Nothing]]
    /\ UNCHANGED <<ruleFile, lines, pos, pc, table, prefixes, suffixes, dnsLock, conn, wire>>

(* processQuestion: a rule's IP, or on to upstream. *)
processQuestion(q) ==
    /\ At(q, "asked") /\ ruleFile
    /\ IF inDomainList(h[q].name) THEN Goto(q, "upstream")
       ELSE Reply(q, [from |-> "rule", line |-> ApproperiateIP(h[q].name)])
    /\ UNCHANGED <<ruleFile, lines, pos, pc, table, prefixes, suffixes, dnsLock, conn, wire>>

\* Without trees the search for a prefix ends the program.
NoTrees(q) ==
    /\ At(q, "asked") /\ ~ruleFile
    /\ pc' = "panic"
    /\ UNCHANGED <<ruleFile, lines, pos, table, prefixes, suffixes, h, dnsLock, conn, wire>>

(* performExternalAQuery: lock, query, unlock. *)
\* Mutant: a read lock, which does not exclude.
LockShared == TRUE
LockFree == dnsLock = "free"

Lock(q) ==
    /\ At(q, "upstream") /\ LockFree /\ Goto(q, "locked")
    /\ dnsLock' = q
    /\ UNCHANGED <<ruleFile, lines, pos, pc, table, prefixes, suffixes, conn, wire>>

Send(q) ==
    /\ At(q, "locked") /\ Goto(q, "sent")
    /\ wire' = h[q].name
    /\ UNCHANGED <<ruleFile, lines, pos, pc, table, prefixes, suffixes, dnsLock, conn>>

\* Mutant: returns from the error branch with the lock held.
ReceiveLocked(q) ==
    /\ At(q, "sent")
    /\ \/ conn = "up" /\ Reply(q, [from |-> "upstream", name |-> wire])
          /\ UNCHANGED conn /\ dnsLock' = "free"
       \/ Reply(q, Nothing) /\ UNCHANGED <<conn, dnsLock>>
    /\ UNCHANGED <<ruleFile, lines, pos, pc, table, prefixes, suffixes, wire>>

\* The answer, an error, or EOF: then the connection is made anew but the
\* question is not asked again.  An error leaves the reply without answers.
Receive(q) ==
    /\ At(q, "sent")
    /\ \/ conn = "up" /\ Reply(q, [from |-> "upstream", name |-> wire]) /\ UNCHANGED conn
       \/ Reply(q, Nothing) /\ UNCHANGED conn
       \/ conn = "eof" /\ Reply(q, Nothing) /\ conn' = "up"
    /\ dnsLock' = "free"
    /\ UNCHANGED <<ruleFile, lines, pos, pc, table, prefixes, suffixes, wire>>

(* Upstream closes the connection. *)
Hangup ==
    /\ conn = "up" /\ pc = "serve" /\ conn' = "eof"
    /\ UNCHANGED <<ruleFile, lines, pos, pc, table, prefixes, suffixes, h, dnsLock, wire>>

-----------------------------------------------------------------------------
Handle(q) ==
    pc = "serve" /\ (processQuestion(q) \/ NoTrees(q) \/ Lock(q) \/ Send(q) \/ Receive(q))

Next == \/ LoadLine \/ LoadFails \/ Serve \/ Hangup
        \/ \E q \in Query : Handle(q) \/ \E n \in Asked : Ask(q, n)

Spec == Init /\ [][Next]_vars

(* main loads the file; a goroutine that can run does, and gets the lock   *)
(* when others keep taking it (Go's mutex serves a waiter that starves).   *)
FairSpec == /\ Spec /\ WF_vars(LoadLine \/ Serve)
            /\ \A q \in Query : SF_vars(Handle(q))

-----------------------------------------------------------------------------
TypeOK ==
    /\ ruleFile \in BOOLEAN
    /\ lines \in [1..MaxLines -> Rule \cup {Short}]
    /\ pos \in 0..MaxLines /\ pc \in {"load", "serve", "panic"}
    /\ table \in [Name -> 0..MaxLines]
    /\ prefixes \subseteq Name /\ suffixes \subseteq Name
    /\ \A q \in Query :
          /\ h[q].st \in {"idle", "asked", "upstream", "locked", "sent"}
          /\ h[q].name \in Asked \cup {<<>>}
    /\ dnsLock \in Query \cup {"free"} /\ conn \in {"up", "eof"}
    /\ wire \in Asked \cup {<<>>}

\* What the lines of the file say of a name, read without the tables: lines
\* of mode m that match n, and of these the ones with the longest name.
Matches(i, n) ==
    CASE lines[i].mode = "prefix" -> IsPrefix(lines[i].name, n)
      [] lines[i].mode = "suffix" -> IsSuffix(lines[i].name, n)
      [] OTHER -> lines[i].name = n
Best(modes, n) ==
    LET S == {i \in 1..pos : lines[i].mode \in modes /\ Matches(i, n)}
    IN {i \in S : \A j \in S : Len(lines[j].name) <= Len(lines[i].name)}
Reference(n) ==
    LET Pick(S, e) == IF S # {} THEN CHOOSE i \in S : TRUE ELSE e
    IN Pick(Best({"fqdn", "other"}, n), Pick(Best({"prefix"}, n), Pick(Best({"suffix"}, n), None)))

(* When no two lines have the same name, every name is resolved as the     *)
(* lines say: the full name first, then the longest prefix, then the       *)
(* longest suffix (main.go:77-98, 146-170).                                *)
LookupIsReference ==
    (\A i, j \in 1..pos : lines[i].name = lines[j].name => i = j) =>
        \A n \in Name : ApproperiateIP(n) = Reference(n)

(* Whatever the file, the IP a name is given is that of a line that        *)
(* matches it, and of the last line with that line's name.                 *)
AnswerMatches ==
    \A n \in Name : LET i == ApproperiateIP(n) IN
        i # None => Matches(i, n) /\ \A j \in (i + 1)..pos : lines[j].name # lines[i].name

(* A reply from upstream is for the name that was asked, though all        *)
(* goroutines share a connection (main.go:185-198).                        *)
OwnAnswer ==
    \A q \in Query : h[q].reply.from = "upstream" => h[q].reply.name = h[q].name

(* To its clients fakedns is a RuleServer, however its goroutines take      *)
(* turns: a name that has a line is never asked upstream, one that has none *)
(* gets no address of a line (inDomainList and ApproperiateIP, two searches *)
(* of the tables, agree), each reply is to its own question, and a server   *)
(* that has a rule for a name does not go down (main.go:53-98, 176-215).    *)
Server == INSTANCE RuleServer
    WITH phase <- pc,
         rule <- [n \in Asked |-> IF pc = "serve" THEN ApproperiateIP(n) ELSE None],
         call <- [q \in Query |->
                    [h[q] EXCEPT !.st = IF @ = "idle" THEN "idle" ELSE "open"]]
RepliesSafe == Server!ServerSpec

(* Given a rule file every query is replied to, whatever upstream does     *)
(* (main.go:176-198, 247-268).                                             *)
QueryReplied ==
    \A q \in Query : (ruleFile /\ h[q].st # "idle") ~> h[q].st = "idle"

(* -rule may be left out (main.go:281): then every name is asked upstream. *)
RepliedWithoutRules == \A q \in Query : h[q].st # "idle" ~> h[q].st = "idle"

(* A line that is not valid is taken for a full name (main.go:151).        *)
NoLoadPanic == pos > 0 => pc # "panic"

(* A line whose name a later line repeats in another mode still applies.   *)
RuleApplies ==
    pc = "serve" => \A n \in Name : Reference(n) # None => ApproperiateIP(n) # None

(* An EOF is not passed on to the client: after reconnecting the question  *)
(* is answered (main.go:192).                                              *)
AnsweredAfterReconnect ==
    [][\A q \in Query : (h[q].st = "sent" /\ conn = "eof" /\ conn' = "up")
          => h'[q].reply # Nothing]_vars
=============================================================================
