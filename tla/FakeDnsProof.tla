---------------------------- MODULE FakeDnsProof ----------------------------
(***************************************************************************)
(* For any alphabet, any rule file and any number of queries: the map and  *)
(* the two search trees resolve a name as the lines themselves say, and a  *)
(* reply from upstream is for the name that was asked.                     *)
(*                                                                         *)
(* The first rests on what the tables hold of the lines loaded (Loaded),   *)
(* the second on the lock (Turn): who waits for an answer holds it, and    *)
(* the last name on the wire is its own.  The last part shows that to its  *)
(* clients fakedns is a RuleServer.                                        *)
(***************************************************************************)
EXTENDS FakeDns, TLAPS

Replies == {Nothing} \cup [from : {"rule"}, line : 0..MaxLines]
           \cup [from : {"upstream"}, name : Asked \cup {<<>>}]
Handler == [st : {"idle", "asked", "upstream", "locked", "sent"},
            name : Asked \cup {<<>>}, reply : Replies]

\* Line i is the last one loaded that has the name n.
LastOf(i, n) ==
    /\ i \in 1..pos /\ lines[i].name = n
    /\ \A j \in (i + 1)..pos : lines[j].name # n

Loaded ==
    /\ ruleFile \/ pos = 0
    /\ \A i \in 1..pos : lines[i] \in Rule
    /\ \A n \in Name : IF table[n] = None THEN \A i \in 1..pos : lines[i].name # n
                                           ELSE LastOf(table[n], n)
    /\ \A k : k \in prefixes <=> \E i \in 1..pos : lines[i].mode = "prefix" /\ lines[i].name = k
    /\ \A k : k \in suffixes <=>
          \E i \in 1..pos : lines[i].mode = "suffix" /\ Reverse(lines[i].name) = k

Turn ==
    \A q \in Query : /\ h[q].st \in {"locked", "sent"} => dnsLock = q
                     /\ h[q].st = "sent" => wire = h[q].name
                     /\ h[q].st # "idle" => h[q].name \in Asked

DnsInv == TypeOK /\ h \in [Query -> Handler] /\ Loaded /\ Turn /\ OwnAnswer

-----------------------------------------------------------------------------
(* Names: reversing, and the prefixes of a name.                           *)
LEMMA NameIsSeq ==
    ASSUME NEW s \in Name
    PROVE  s \in Seq(Letter) /\ Len(s) \in 1..MaxLen
  BY DnsAssumption DEF Name

\* Short sequences of labels are names.
LEMMA SeqIsName ==
    ASSUME NEW s \in Seq(Letter), Len(s) \in 1..MaxLen
    PROVE  s \in Name
  BY DnsAssumption DEF Name

\* A name reversed has the same labels, in the other order.
LEMMA ReverseIs ==
    ASSUME NEW s \in Seq(Letter)
    PROVE  /\ Reverse(s) \in Seq(Letter) /\ Len(Reverse(s)) = Len(s)
           /\ Reverse(Reverse(s)) = s
  <1>1. Reverse(s) \in [1..Len(s) -> Letter]
    BY DEF Reverse
  <1>2. Reverse(s) \in Seq(Letter) /\ Len(Reverse(s)) = Len(s)
    BY <1>1
  <1>3. \A i \in 1..Len(s) : Reverse(s)[i] = s[(Len(s) - i) + 1]
    BY DEF Reverse
  <1>4. Reverse(Reverse(s)) = [i \in 1..Len(s) |-> Reverse(s)[(Len(s) - i) + 1]]
    BY <1>2 DEF Reverse
  <1>5. \A i \in 1..Len(s) : Reverse(s)[(Len(s) - i) + 1] = s[i]
    <2> TAKE i \in 1..Len(s)
    <2>1. (Len(s) - i) + 1 \in 1..Len(s) /\ (Len(s) - ((Len(s) - i) + 1)) + 1 = i
      OBVIOUS
    <2> QED BY <1>3, <2>1
  <1>6. s = [i \in 1..Len(s) |-> s[i]]
    OBVIOUS
  <1> QED BY <1>2, <1>4, <1>5, <1>6

\* A name reversed is a name.
LEMMA ReverseName == \A s \in Name : Reverse(s) \in Name
  BY NameIsSeq, ReverseIs, SeqIsName

(* A name has one prefix of each length.                                   *)
LEMMA PrefixOfLength ==
    ASSUME NEW s \in Seq(Letter), NEW t \in Seq(Letter), NEW n \in Seq(Letter),
           IsPrefix(s, n), IsPrefix(t, n), Len(s) = Len(t)
    PROVE  s = t
  <1>1. SubSeq(s, 1, Len(s)) = s /\ SubSeq(t, 1, Len(t)) = t
    OBVIOUS
  <1> QED BY <1>1 DEF IsPrefix

\* The lines of the rule file have their types.
LEMMA LinesAre ==
    ASSUME TypeOK
    PROVE  /\ Len(lines) = MaxLines
           /\ \A i \in 1..MaxLines : lines[i] # Short => lines[i] \in Rule
  BY DnsAssumption DEF TypeOK

\* A rule of a line has the parts of the line.
LEMMA RuleTyped ==
    ASSUME NEW r \in Rule
    PROVE  r.name \in Name /\ r.mode \in Mode
  BY DEF Rule

(* What the trees find is among their keys.                                *)
LEMMA Found ==
    ASSUME TypeOK
    PROVE  \A n \in Name : /\ \A k \in ByPrefix(n) : k \in Name /\ table[k] # None
                           /\ \A k \in BySuffix(n) : k \in Name /\ table[k] # None
  <1> TAKE n \in Name
  <1>1. ASSUME NEW k \in ByPrefix(n) PROVE k \in Name /\ table[k] # None
    <2>1. k \in prefixes /\ ModeOf(k) = "prefix"
      BY <1>1 DEF ByPrefix, LongestPrefix, Longest
    <2> QED BY <2>1 DEF TypeOK, ModeOf
  <1>2. ASSUME NEW k \in BySuffix(n) PROVE k \in Name /\ table[k] # None
    <2>1. PICK r \in suffixes : k = Reverse(r) /\ ModeOf(k) = "suffix"
      BY <1>2 DEF BySuffix, LongestPrefix, Longest
    <2> QED BY <2>1, ReverseName DEF TypeOK, ModeOf
  <1> QED BY <1>1, <1>2

\* What a name resolves to is a line's number or none.
LEMMA IPTyped ==
    ASSUME TypeOK
    PROVE  \A n \in Name : ApproperiateIP(n) \in 0..MaxLines
  <1> TAKE n \in Name
  <1>1. \A k \in Name : table[k] \in 0..MaxLines
    BY DEF TypeOK
  <1>2. None \in 0..MaxLines
    BY DnsAssumption DEF None
  <1>3. ByPrefix(n) # {} => (CHOOSE k \in ByPrefix(n) : TRUE) \in Name
    BY Found
  <1>4. BySuffix(n) # {} => (CHOOSE k \in BySuffix(n) : TRUE) \in Name
    BY Found
  <1> QED BY <1>1, <1>2, <1>3, <1>4 DEF ApproperiateIP

-----------------------------------------------------------------------------
\* Nothing is loaded and nobody has asked.
LEMMA DnsBegins == Init => DnsInv
  <1> SUFFICES ASSUME Init PROVE DnsInv
    OBVIOUS
  <1> USE DEF Init
  <1>1. h \in [Query -> Handler]
    BY DEF Idle, Handler, Replies
  <1>2. TypeOK
    BY DnsAssumption DEF TypeOK, Idle, None
  <1>3. Loaded
    BY DEF Loaded
  <1>4. Turn /\ OwnAnswer
    BY DEF Turn, OwnAnswer, Idle, Nothing
  <1> QED BY <1>1, <1>2, <1>3, <1>4 DEF DnsInv

(* A line goes into the map under its name, and into a tree.               *)
LEMMA LoadStep ==
    ASSUME DnsInv, pc = "load", ruleFile, pos < Len(lines), lines[pos + 1] # Short,
           Load(lines[pos + 1]), pos' = pos + 1,
           UNCHANGED <<pc, ruleFile, lines, h, dnsLock, conn, wire>>
    PROVE  DnsInv'
  <1> DEFINE l == lines[pos + 1]
  <1>1. TypeOK /\ Loaded /\ pos \in Nat /\ pos + 1 \in 1..MaxLines
    BY LinesAre, DnsAssumption DEF DnsInv, TypeOK
  <1>2. l \in Rule /\ l.name \in Name /\ l.mode \in Mode
    BY <1>1, LinesAre, RuleTyped
  <1>3. Reverse(l.name) \in Name
    BY <1>2, ReverseName
  <1>4. TypeOK'
    <2>1. table' \in [Name -> 0..MaxLines] /\ pos' \in 0..MaxLines
      BY <1>1, <1>2, DnsAssumption DEF TypeOK, Load
    <2>2. prefixes' \subseteq Name /\ suffixes' \subseteq Name
      BY <1>1, <1>2, <1>3 DEF TypeOK, Load
    <2> QED BY <1>1, <2>1, <2>2 DEF TypeOK
  <1>5. \A i \in 1..pos' : lines'[i] \in Rule
    BY <1>1, <1>2 DEF Loaded
  <1>6. \A i \in 1..pos' : i \in 1..pos \/ i = pos + 1
    BY <1>1
  <1>7. ASSUME NEW n \in Name
        PROVE  (IF table[n] = None THEN \A i \in 1..pos : lines[i].name # n
                                   ELSE LastOf(table[n], n))'
    <2>1. CASE n = l.name
      <3>1. table'[n] = pos + 1
        BY <2>1, <1>1, <1>2 DEF TypeOK, Load
      <3>2. lines'[pos + 1].name = n /\ pos + 1 \in 1..pos' /\ ((pos + 1) + 1)..pos' = {}
        BY <2>1, <1>1
      <3> QED BY <3>1, <3>2, <1>1 DEF LastOf, None
    <2>2. CASE n # l.name
      <3>1. table'[n] = table[n] /\ lines' = lines
        BY <2>2, <1>1, <1>2 DEF TypeOK, Load
      <3>2. CASE table[n] = None
        <4>1. \A i \in 1..pos : lines[i].name # n
          BY <3>2, <1>1 DEF Loaded
        <4> QED BY <4>1, <3>1, <3>2, <2>2, <1>6
      <3>3. CASE table[n] # None
        <4>1. LastOf(table[n], n)
          BY <3>3, <1>1 DEF Loaded
        <4>2. \A j \in (table[n] + 1)..pos' : j \in (table[n] + 1)..pos \/ j = pos + 1
          BY <4>1, <1>1 DEF LastOf
        <4>3. table[n] \in 1..pos'
          BY <4>1, <1>1 DEF LastOf
        <4> QED BY <4>1, <4>2, <4>3, <3>1, <3>3, <2>2 DEF LastOf
      <3> QED BY <3>2, <3>3
    <2> QED BY <2>1, <2>2
  <1>8. ASSUME NEW k
        PROVE  k \in prefixes' <=> \E i \in 1..pos' : lines'[i].mode = "prefix" /\ lines'[i].name = k
    <2>1. k \in prefixes' <=> k \in prefixes \/ (l.mode = "prefix" /\ k = l.name)
      BY DEF Load
    <2>2. k \in prefixes <=> \E i \in 1..pos : lines[i].mode = "prefix" /\ lines[i].name = k
      BY <1>1 DEF Loaded
    <2>3. pos + 1 \in 1..pos' /\ \A i \in 1..pos : i \in 1..pos'
      BY <1>1
    <2> QED BY <2>1, <2>2, <2>3, <1>6
  <1>9. ASSUME NEW k
        PROVE  k \in suffixes' <=>
                  \E i \in 1..pos' : lines'[i].mode = "suffix" /\ Reverse(lines'[i].name) = k
    <2>1. k \in suffixes' <=> k \in suffixes \/ (l.mode = "suffix" /\ k = Reverse(l.name))
      BY DEF Load
    <2>2. k \in suffixes <=>
             \E i \in 1..pos : lines[i].mode = "suffix" /\ Reverse(lines[i].name) = k
      BY <1>1 DEF Loaded
    <2>3. pos + 1 \in 1..pos' /\ \A i \in 1..pos : i \in 1..pos'
      BY <1>1
    <2> QED BY <2>1, <2>2, <2>3, <1>6
  <1>10. Loaded'
    BY <1>5, <1>7, <1>8, <1>9 DEF Loaded
  <1>11. h' \in [Query -> Handler] /\ Turn' /\ OwnAnswer'
    BY DEF DnsInv, Turn, OwnAnswer
  <1> QED BY <1>4, <1>10, <1>11 DEF DnsInv

(* A step of the handlers leaves the tables.                               *)
LEMMA HandlerStep ==
    ASSUME DnsInv, UNCHANGED <<ruleFile, lines, pos, pc, table, prefixes, suffixes>>,
           NEW q \in Query, NEW r \in Handler, h' = [h EXCEPT ![q] = r],
           wire' \in Asked \cup {<<>>}, dnsLock' \in Query \cup {"free"}, conn' \in {"up", "eof"},
           r.st \in {"locked", "sent"} => dnsLock' = q,
           r.st = "sent" => wire' = r.name, r.st # "idle" => r.name \in Asked,
           \A p \in Query \ {q} : h[p].st \in {"locked", "sent"} => dnsLock' = dnsLock /\ wire' = wire,
           r.reply.from = "upstream" => r.reply.name = r.name
    PROVE  DnsInv'
  <1>1. h' \in [Query -> Handler] /\ h'[q] = r /\ \A p \in Query \ {q} : h'[p] = h[p]
    BY DEF DnsInv
  <1>2. TypeOK'
    <2>1. \A p \in Query : h'[p] \in Handler
      BY <1>1
    <2>2. \A p \in Query : /\ h'[p].st \in {"idle", "asked", "upstream", "locked", "sent"}
                           /\ h'[p].name \in Asked \cup {<<>>}
      BY <2>1 DEF Handler
    <2> QED BY <2>2 DEF DnsInv, TypeOK
  <1>3. Loaded'
    BY DEF DnsInv, Loaded, LastOf
  <1>4. Turn'
    BY <1>1 DEF DnsInv, Turn
  <1>5. OwnAnswer'
    BY <1>1 DEF DnsInv, OwnAnswer
  <1> QED BY <1>1, <1>2, <1>3, <1>4, <1>5 DEF DnsInv

(* Among the goroutines only the one that holds the lock has asked.        *)
LEMMA Alone ==
    ASSUME DnsInv, NEW q \in Query,
           h[q].st \in {"locked", "sent"} \/ dnsLock = "free"
    PROVE  \A p \in Query \ {q} : h[p].st \notin {"locked", "sent"}
  BY DnsAssumption DEF DnsInv, Turn

\* A handler that has its reply writes it.
LEMMA ReplyStep ==
    ASSUME DnsInv, NEW q \in Query, NEW what \in Replies, Reply(q, what),
           UNCHANGED <<ruleFile, lines, pos, pc, table, prefixes, suffixes, wire>>,
           dnsLock' \in Query \cup {"free"}, conn' \in {"up", "eof"},
           \A p \in Query \ {q} : h[p].st \in {"locked", "sent"} => dnsLock' = dnsLock,
           what.from = "upstream" => what.name = h[q].name
    PROVE  DnsInv'
  <1> DEFINE r == [h[q] EXCEPT !.st = "idle", !.reply = what]
  <1>1. h[q] \in Handler
    BY DEF DnsInv
  <1>2. r \in Handler /\ r.st = "idle" /\ r.reply = what /\ r.name = h[q].name
    BY <1>1 DEF Handler
  <1>3. h' = [h EXCEPT ![q] = r]
    BY DEF Reply, DnsInv
  <1>4. wire' \in Asked \cup {<<>>}
    BY DEF DnsInv, TypeOK
  <1> HIDE DEF r
  <1> QED BY <1>2, <1>3, <1>4, HandlerStep

\* A handler that only goes on.
LEMMA GotoStep ==
    ASSUME DnsInv, NEW q \in Query, NEW s \in {"upstream", "locked", "sent"}, Goto(q, s),
           h[q].st # "idle",
           UNCHANGED <<ruleFile, lines, pos, pc, table, prefixes, suffixes, conn>>,
           wire' \in Asked \cup {<<>>}, dnsLock' \in Query \cup {"free"},
           s \in {"locked", "sent"} => dnsLock' = q,
           s = "sent" => wire' = h[q].name,
           \A p \in Query \ {q} : h[p].st \in {"locked", "sent"} => dnsLock' = dnsLock /\ wire' = wire
    PROVE  DnsInv'
  <1> DEFINE r == [h[q] EXCEPT !.st = s]
  <1>1. h[q] \in Handler /\ (h[q].reply.from = "upstream" => h[q].reply.name = h[q].name)
    BY DEF DnsInv, OwnAnswer
  <1>2. r \in Handler /\ r.st = s /\ r.reply = h[q].reply /\ r.name = h[q].name
    BY <1>1 DEF Handler
  <1>3. h' = [h EXCEPT ![q] = r]
    BY DEF Goto, DnsInv
  <1>4. conn' \in {"up", "eof"} /\ h[q].name \in Asked
    BY DEF DnsInv, TypeOK, Turn
  <1> HIDE DEF r
  <1> QED BY <1>1, <1>2, <1>3, <1>4, HandlerStep

\* A client asks, and a handler of its own is started.
LEMMA AskStep ==
    ASSUME DnsInv, NEW q \in Query, NEW n \in Asked, Ask(q, n)
    PROVE  DnsInv'
  <1> DEFINE r == [st |-> "asked", name |-> n, reply |-> Nothing]
  <1>1. r \in Handler /\ r.st = "asked" /\ r.name \in Asked /\ r.reply.from # "upstream"
    BY DEF Handler, Replies, Nothing
  <1>2. h' = [h EXCEPT ![q] = r]
        /\ UNCHANGED <<ruleFile, lines, pos, pc, table, prefixes, suffixes, dnsLock, conn, wire>>
    BY DEF Ask
  <1>3. wire' \in Asked \cup {<<>>} /\ dnsLock' \in Query \cup {"free"} /\ conn' \in {"up", "eof"}
    BY <1>2 DEF DnsInv, TypeOK
  <1> HIDE DEF r
  <1> QED BY <1>1, <1>2, <1>3, HandlerStep

\* A handler looks a question up.
LEMMA QuestionStep ==
    ASSUME DnsInv, NEW q \in Query, processQuestion(q)
    PROVE  DnsInv'
  <1> USE DEF processQuestion
  <1>1. /\ wire \in Asked \cup {<<>>} /\ dnsLock \in Query \cup {"free"}
        /\ conn \in {"up", "eof"} /\ h[q].st = "asked" /\ h[q].name \in Name
    BY DnsAssumption DEF DnsInv, TypeOK, Turn, At
  <1>2. CASE inDomainList(h[q].name)
    BY <1>1, <1>2, GotoStep
  <1>3. CASE ~inDomainList(h[q].name)
    <2> DEFINE what == [from |-> "rule", line |-> ApproperiateIP(h[q].name)]
    <2>1. ApproperiateIP(h[q].name) \in 0..MaxLines
      BY <1>1, IPTyped DEF DnsInv
    <2>2. what \in Replies /\ what.from = "rule"
      BY <2>1 DEF Replies
    <2>3. Reply(q, what)
      BY <1>3
    <2> HIDE DEF what
    <2> QED BY <1>1, <2>2, <2>3, ReplyStep
  <1> QED BY <1>2, <1>3

\* A handler and the upstream it asks.
LEMMA ExchangeStep ==
    ASSUME DnsInv, NEW q \in Query, Lock(q) \/ Send(q) \/ Receive(q)
    PROVE  DnsInv'
  <1>1. /\ wire \in Asked \cup {<<>>} /\ dnsLock \in Query \cup {"free"}
        /\ conn \in {"up", "eof"} /\ h[q] \in Handler
    BY DEF DnsInv, TypeOK
  <1>2. CASE Lock(q)
    <2>1. h[q].st = "upstream" /\ dnsLock = "free" /\ Goto(q, "locked") /\ dnsLock' = q
          /\ UNCHANGED <<ruleFile, lines, pos, pc, table, prefixes, suffixes, conn, wire>>
      BY <1>2 DEF Lock, LockFree, At
    <2>2. \A p \in Query \ {q} : h[p].st \notin {"locked", "sent"}
      BY <2>1, Alone
    <2> QED BY <1>1, <2>1, <2>2, GotoStep
  <1>3. CASE Send(q)
    <2>1. h[q].st = "locked" /\ Goto(q, "sent") /\ wire' = h[q].name
          /\ UNCHANGED <<ruleFile, lines, pos, pc, table, prefixes, suffixes, dnsLock, conn>>
      BY <1>3 DEF Send, At
    <2>2. \A p \in Query \ {q} : h[p].st \notin {"locked", "sent"}
      BY <2>1, Alone
    <2>3. dnsLock' = q /\ wire' \in Asked \cup {<<>>}
      BY <1>1, <2>1 DEF DnsInv, Turn, Handler
    <2> QED BY <2>1, <2>2, <2>3, GotoStep
  <1>4. CASE Receive(q)
    <2>1. h[q].st = "sent" /\ dnsLock' = "free"
          /\ UNCHANGED <<ruleFile, lines, pos, pc, table, prefixes, suffixes, wire>>
      BY <1>4 DEF Receive, At
    <2>2. \A p \in Query \ {q} : h[p].st \notin {"locked", "sent"}
      BY <2>1, Alone
    <2>3. conn' \in {"up", "eof"} /\ wire = h[q].name
      BY <1>1, <1>4, <2>1 DEF Receive, DnsInv, Turn
    <2>4. Nothing \in Replies /\ Nothing.from # "upstream"
      BY DEF Replies, Nothing
    <2>5. CASE Reply(q, Nothing)
      BY <2>1, <2>2, <2>3, <2>4, <2>5, ReplyStep
    <2>6. CASE Reply(q, [from |-> "upstream", name |-> wire])
      <3> DEFINE what == [from |-> "upstream", name |-> wire]
      <3>1. what \in Replies /\ what.name = h[q].name
        BY <1>1, <2>3 DEF Replies
      <3>2. Reply(q, what)
        BY <2>6
      <3> HIDE DEF what
      <3> QED BY <2>1, <2>2, <2>3, <3>1, <3>2, ReplyStep
    <2> QED BY <1>4, <2>5, <2>6 DEF Receive
  <1> QED BY <1>2, <1>3, <1>4

\* The loader, the start of the server, and an upstream that hangs up.
LEMMA LoaderStep ==
    ASSUME DnsInv, LoadLine \/ LoadFails \/ Serve \/ (\E q \in Query : NoTrees(q)) \/ Hangup \/ UNCHANGED vars
    PROVE  DnsInv'
  <1>1. ASSUME UNCHANGED <<ruleFile, lines, pos, table, prefixes, suffixes, h, dnsLock, wire>>,
               pc' \in {"load", "serve", "panic"}, conn' \in {"up", "eof"}
        PROVE  DnsInv'
    <2>1. TypeOK' /\ Loaded'
      BY <1>1 DEF DnsInv, TypeOK, Loaded, LastOf
    <2>2. h' \in [Query -> Handler] /\ Turn' /\ OwnAnswer'
      BY <1>1 DEF DnsInv, Turn, OwnAnswer
    <2> QED BY <2>1, <2>2 DEF DnsInv
  <1>2. pc \in {"load", "serve", "panic"} /\ conn \in {"up", "eof"}
    BY DEF DnsInv, TypeOK
  <1>3. CASE LoadLine
    <2>1. CASE lines[pos + 1] = Short
      BY <1>1, <1>2, <1>3, <2>1 DEF LoadLine
    <2>2. CASE lines[pos + 1] # Short
      BY <1>3, <2>2, LoadStep DEF LoadLine
    <2> QED BY <2>1, <2>2
  <1>4. CASE LoadFails \/ Serve
    BY <1>1, <1>2, <1>4 DEF LoadFails, Serve
  <1>5. CASE Hangup
    BY <1>1, <1>2, <1>5 DEF Hangup
  <1>6. CASE UNCHANGED vars
    BY <1>1, <1>2, <1>6 DEF vars
  <1>7. CASE \E q \in Query : NoTrees(q)
    BY <1>1, <1>2, <1>7 DEF NoTrees
  <1> QED BY <1>3, <1>4, <1>5, <1>6, <1>7

\* Every step keeps the invariant.
LEMMA DnsStep == DnsInv /\ [Next]_vars => DnsInv'
  <1> SUFFICES ASSUME DnsInv, [Next]_vars PROVE DnsInv'
    OBVIOUS
  <1>1. ASSUME NEW q \in Query, Handle(q) PROVE DnsInv'
    BY <1>1, QuestionStep, ExchangeStep, LoaderStep DEF Handle
  <1>2. ASSUME NEW q \in Query, NEW n \in Asked, Ask(q, n) PROVE DnsInv'
    BY <1>2, AskStep
  <1> QED BY <1>1, <1>2, LoaderStep DEF Next

\* The inductive invariant: types, tables of the lines, and whose reply it is.
THEOREM DnsInvHolds == Spec => []DnsInv
  BY DnsBegins, DnsStep, PTL DEF Spec

-----------------------------------------------------------------------------
(* The variables keep their types.                                         *)
THEOREM DnsTypesHold == Spec => []TypeOK
  <1>1. DnsInv => TypeOK
    BY DEF DnsInv
  <1> QED BY <1>1, DnsInvHolds, PTL

(* For any number of goroutines that share the upstream connection, and    *)
(* wherever upstream closes it, a reply from upstream is for the name that *)
(* its own goroutine was asked for.                                        *)
THEOREM OwnAnswerHolds == Spec => []OwnAnswer
  <1>1. DnsInv => OwnAnswer
    BY DEF DnsInv
  <1> QED BY <1>1, DnsInvHolds, PTL

-----------------------------------------------------------------------------
(* What the map says of a name is what its last line says.                 *)
LEMMA MapEntry ==
    ASSUME DnsInv, NEW n \in Name, table[n] # None
    PROVE  /\ LastOf(table[n], n) /\ lines[table[n]] \in Rule
           /\ ModeOf(n) = IF lines[table[n]].mode = "other" THEN "fqdn" ELSE lines[table[n]].mode
  <1>1. LastOf(table[n], n)
    BY DEF DnsInv, Loaded
  <1>2. lines[table[n]] \in Rule
    BY <1>1 DEF DnsInv, Loaded, LastOf
  <1> QED BY <1>1, <1>2 DEF ModeOf

\* A name with a mode has an entry in the table.
LEMMA HasEntry == \A n \in Name : ModeOf(n) # "none" => table[n] # None
  BY DEF ModeOf

(* The three ways to find a line; each is the last of its name.            *)
LEMMA FoundFull ==
    ASSUME DnsInv, NEW n \in Name, ModeOf(n) = "fqdn"
    PROVE  LastOf(table[n], n) /\ Matches(table[n], n)
  <1>1. LastOf(table[n], n) /\ lines[table[n]].mode \in {"fqdn", "other"}
    <2>1. LastOf(table[n], n) /\ lines[table[n]] \in Rule
          /\ ModeOf(n) = IF lines[table[n]].mode = "other" THEN "fqdn" ELSE lines[table[n]].mode
      BY MapEntry, HasEntry
    <2> QED BY <2>1
  <1> QED BY <1>1 DEF Matches, LastOf

\* What the prefix tree finds is of the last line of its name, which matches.
LEMMA FoundPrefix ==
    ASSUME DnsInv, NEW n \in Name, NEW k \in ByPrefix(n)
    PROVE  LastOf(table[k], k) /\ Matches(table[k], n)
  <1>1. k \in Name /\ table[k] # None /\ ModeOf(k) = "prefix" /\ IsPrefix(k, n)
    BY Found DEF DnsInv, ByPrefix, LongestPrefix, Longest
  <1>2. LastOf(table[k], k) /\ lines[table[k]].mode = "prefix"
    BY <1>1, MapEntry
  <1> QED BY <1>1, <1>2 DEF Matches, LastOf

\* What the suffix tree finds is of the last line of its name, which matches.
LEMMA FoundSuffix ==
    ASSUME DnsInv, NEW n \in Name, NEW k \in BySuffix(n)
    PROVE  LastOf(table[k], k) /\ Matches(table[k], n)
  <1>1. k \in Name /\ table[k] # None /\ ModeOf(k) = "suffix"
    BY Found DEF DnsInv, BySuffix
  <1>2. LastOf(table[k], k) /\ lines[table[k]].mode = "suffix"
    BY <1>1, MapEntry
  <1>3. PICK r \in suffixes : k = Reverse(r) /\ IsPrefix(r, Reverse(n))
    BY DEF BySuffix, LongestPrefix, Longest
  <1>4. Reverse(k) = r
    <2>1. r \in Name
      BY DEF DnsInv, TypeOK
    <2> QED BY <1>3, <2>1, NameIsSeq, ReverseIs
  <1>5. IsSuffix(k, n)
    BY <1>3, <1>4 DEF IsSuffix
  <1> QED BY <1>2, <1>5 DEF Matches, LastOf

\* What the tables say of a name is what its line says.
LEMMA AnswersMatch == DnsInv => AnswerMatches
  <1> SUFFICES ASSUME DnsInv, NEW n \in Name, ApproperiateIP(n) # None
               PROVE  \E k : LastOf(ApproperiateIP(n), k) /\ Matches(ApproperiateIP(n), n)
    BY DEF AnswerMatches, LastOf
  <1>1. CASE ModeOf(n) = "fqdn"
    BY <1>1, FoundFull DEF ApproperiateIP
  <1>2. CASE ModeOf(n) # "fqdn" /\ ByPrefix(n) # {}
    <2>1. PICK k \in ByPrefix(n) : ApproperiateIP(n) = table[k]
      BY <1>2 DEF ApproperiateIP
    <2> QED BY <2>1, FoundPrefix
  <1>3. CASE ModeOf(n) # "fqdn" /\ ByPrefix(n) = {} /\ BySuffix(n) # {}
    <2>1. PICK k \in BySuffix(n) : ApproperiateIP(n) = table[k]
      BY <1>3 DEF ApproperiateIP
    <2> QED BY <2>1, FoundSuffix
  <1>4. CASE ModeOf(n) # "fqdn" /\ ByPrefix(n) = {} /\ BySuffix(n) = {}
    BY <1>4 DEF ApproperiateIP
  <1> QED BY <1>1, <1>2, <1>3, <1>4

(* Whatever the rule file: the IP a name is given is that of a line that   *)
(* matches it, the last with its name.                                     *)
THEOREM AnswerMatchesHolds == Spec => []AnswerMatches
  BY AnswersMatch, DnsInvHolds, PTL

-----------------------------------------------------------------------------
(* When no two lines have the same name.                                   *)
Distinct == \A i, j \in 1..pos : lines[i].name = lines[j].name => i = j

\* When no two lines have a name, the map has each line under its own.
LEMMA EntryOfLine ==
    ASSUME DnsInv, Distinct, NEW i \in 1..pos
    PROVE  /\ lines[i].name \in Name /\ lines[i].mode \in Mode
           /\ table[lines[i].name] = i
           /\ ModeOf(lines[i].name) = IF lines[i].mode = "other" THEN "fqdn" ELSE lines[i].mode
  <1> DEFINE n == lines[i].name
  <1>1. n \in Name /\ lines[i].mode \in Mode
    BY RuleTyped DEF DnsInv, Loaded
  <1>2. table[n] # None
    BY <1>1 DEF DnsInv, Loaded
  <1>3. LastOf(table[n], n)
    BY <1>1, <1>2, MapEntry
  <1>4. table[n] = i
    BY <1>3 DEF LastOf, Distinct
  <1> QED BY <1>1, <1>2, <1>4, MapEntry

(* Full names: the line is the one the map has.                            *)
LEMMA BestFull ==
    ASSUME DnsInv, Distinct, NEW n \in Name
    PROVE  Best({"fqdn", "other"}, n) = IF ModeOf(n) = "fqdn" THEN {table[n]} ELSE {}
  <1>1. ASSUME NEW i \in Best({"fqdn", "other"}, n)
        PROVE  ModeOf(n) = "fqdn" /\ i = table[n]
    <2>1. i \in 1..pos /\ lines[i].mode \in {"fqdn", "other"} /\ lines[i].name = n
      BY DEF Best, Matches
    <2> QED BY <2>1, EntryOfLine
  <1>2. ASSUME ModeOf(n) = "fqdn"
        PROVE  table[n] \in Best({"fqdn", "other"}, n)
    <2>1. LastOf(table[n], n) /\ Matches(table[n], n)
      BY <1>2, FoundFull
    <2>2. lines[table[n]].mode \in {"fqdn", "other"} /\ table[n] \in 1..pos
      BY <1>2, <2>1, EntryOfLine DEF LastOf
    <2>3. \A j \in 1..pos : lines[j].mode \in {"fqdn", "other"} /\ Matches(j, n) => lines[j].name = n
      BY DEF Matches
    <2>4. Len(n) <= Len(n)
      BY NameIsSeq
    <2> QED BY <2>1, <2>2, <2>3, <2>4 DEF Best, LastOf
  <1> QED BY <1>1, <1>2

(* Prefixes: the keys found are the names of the best lines.               *)
LEMMA BestPrefix ==
    ASSUME DnsInv, Distinct, NEW n \in Name
    PROVE  /\ \A i \in Best({"prefix"}, n) : lines[i].name \in ByPrefix(n)
           /\ \A k \in ByPrefix(n) : table[k] \in Best({"prefix"}, n)
           /\ \A i, j \in Best({"prefix"}, n) : i = j
  <1>1. \A k : k \in prefixes <=> \E i \in 1..pos : lines[i].mode = "prefix" /\ lines[i].name = k
    BY DEF DnsInv, Loaded
  <1>2. ASSUME NEW i
        PROVE  i \in Best({"prefix"}, n) <=>
                  /\ i \in 1..pos /\ lines[i].mode = "prefix" /\ IsPrefix(lines[i].name, n)
                  /\ \A j \in 1..pos : lines[j].mode = "prefix" /\ IsPrefix(lines[j].name, n)
                        => Len(lines[j].name) <= Len(lines[i].name)
    BY DEF Best, Matches
  <1>3. ASSUME NEW i \in Best({"prefix"}, n) PROVE lines[i].name \in ByPrefix(n)
    <2>1. lines[i].name \in LongestPrefix(prefixes, n)
      BY <1>1, <1>2 DEF LongestPrefix, Longest
    <2>2. ModeOf(lines[i].name) = "prefix"
      BY <1>2, EntryOfLine
    <2> QED BY <2>1, <2>2 DEF ByPrefix
  <1>4. ASSUME NEW k \in ByPrefix(n) PROVE table[k] \in Best({"prefix"}, n)
    <2>1. k \in prefixes /\ IsPrefix(k, n)
          /\ \A c \in prefixes : IsPrefix(c, n) => Len(c) <= Len(k)
      BY DEF ByPrefix, LongestPrefix, Longest
    <2>2. PICK i \in 1..pos : lines[i].mode = "prefix" /\ lines[i].name = k
      BY <1>1, <2>1
    <2>3. table[k] = i
      BY <2>2, EntryOfLine
    <2> QED BY <1>1, <1>2, <2>1, <2>2, <2>3
  <1>5. ASSUME NEW i \in Best({"prefix"}, n), NEW j \in Best({"prefix"}, n) PROVE i = j
    <2>1. i \in 1..pos /\ j \in 1..pos /\ IsPrefix(lines[i].name, n) /\ IsPrefix(lines[j].name, n)
          /\ Len(lines[i].name) <= Len(lines[j].name) /\ Len(lines[j].name) <= Len(lines[i].name)
      BY <1>2
    <2>2. lines[i].name \in Seq(Letter) /\ lines[j].name \in Seq(Letter) /\ n \in Seq(Letter)
      BY <2>1, EntryOfLine, NameIsSeq
    <2>3. Len(lines[i].name) = Len(lines[j].name)
      BY <2>1, <2>2
    <2>4. lines[i].name = lines[j].name
      BY <2>1, <2>2, <2>3, PrefixOfLength
    <2> QED BY <2>1, <2>4 DEF Distinct
  <1> QED BY <1>3, <1>4, <1>5

(* Suffixes: the same, through the reversed tree.                          *)
LEMMA BestSuffix ==
    ASSUME DnsInv, Distinct, NEW n \in Name
    PROVE  /\ \A i \in Best({"suffix"}, n) : lines[i].name \in BySuffix(n)
           /\ \A k \in BySuffix(n) : table[k] \in Best({"suffix"}, n)
           /\ \A i, j \in Best({"suffix"}, n) : i = j
  <1>1. \A k : k \in suffixes <=>
                  \E i \in 1..pos : lines[i].mode = "suffix" /\ Reverse(lines[i].name) = k
    BY DEF DnsInv, Loaded
  <1>2. ASSUME NEW i
        PROVE  i \in Best({"suffix"}, n) <=>
                  /\ i \in 1..pos /\ lines[i].mode = "suffix"
                  /\ IsPrefix(Reverse(lines[i].name), Reverse(n))
                  /\ \A j \in 1..pos :
                        lines[j].mode = "suffix" /\ IsPrefix(Reverse(lines[j].name), Reverse(n))
                        => Len(lines[j].name) <= Len(lines[i].name)
    BY DEF Best, Matches, IsSuffix
  <1>3. \A i \in 1..pos : /\ lines[i].name \in Seq(Letter) /\ Reverse(lines[i].name) \in Seq(Letter)
                          /\ Len(Reverse(lines[i].name)) = Len(lines[i].name)
                          /\ Reverse(Reverse(lines[i].name)) = lines[i].name
    BY EntryOfLine, NameIsSeq, ReverseIs
  <1>4. ASSUME NEW i \in Best({"suffix"}, n) PROVE lines[i].name \in BySuffix(n)
    <2>1. Reverse(lines[i].name) \in LongestPrefix(suffixes, Reverse(n))
      BY <1>1, <1>2, <1>3 DEF LongestPrefix, Longest
    <2>2. ModeOf(lines[i].name) = "suffix" /\ Reverse(Reverse(lines[i].name)) = lines[i].name
      BY <1>2, <1>3, EntryOfLine
    <2> QED BY <2>1, <2>2 DEF BySuffix
  <1>5. ASSUME NEW k \in BySuffix(n) PROVE table[k] \in Best({"suffix"}, n)
    <2>1. PICK r \in suffixes : k = Reverse(r) /\ IsPrefix(r, Reverse(n))
          /\ \A c \in suffixes : IsPrefix(c, Reverse(n)) => Len(c) <= Len(r)
      BY DEF BySuffix, LongestPrefix, Longest
    <2>2. PICK i \in 1..pos : lines[i].mode = "suffix" /\ Reverse(lines[i].name) = r
      BY <1>1
    <2>3. table[k] = i
      BY <1>3, <2>1, <2>2, EntryOfLine
    <2>4. \A j \in 1..pos :
             lines[j].mode = "suffix" /\ IsPrefix(Reverse(lines[j].name), Reverse(n))
             => Len(lines[j].name) <= Len(lines[i].name)
      BY <1>1, <1>3, <2>1, <2>2
    <2> QED BY <1>2, <2>1, <2>2, <2>3, <2>4
  <1>6. ASSUME NEW i \in Best({"suffix"}, n), NEW j \in Best({"suffix"}, n) PROVE i = j
    <2> DEFINE a == Reverse(lines[i].name)
               b == Reverse(lines[j].name)
    <2>1. i \in 1..pos /\ j \in 1..pos /\ IsPrefix(a, Reverse(n)) /\ IsPrefix(b, Reverse(n))
          /\ Len(lines[i].name) <= Len(lines[j].name) /\ Len(lines[j].name) <= Len(lines[i].name)
      BY <1>2
    <2>2. a \in Seq(Letter) /\ b \in Seq(Letter) /\ Reverse(n) \in Seq(Letter)
      BY <1>3, <2>1, NameIsSeq, ReverseIs
    <2>3. Len(a) = Len(b)
      BY <1>3, <2>1
    <2>4. a = b
      BY <2>1, <2>2, <2>3, PrefixOfLength
    <2>5. lines[i].name = lines[j].name
      BY <1>3, <2>1, <2>4
    <2> QED BY <2>1, <2>5 DEF Distinct
  <1> QED BY <1>4, <1>5, <1>6

(* Of a set of one, CHOOSE takes that one.                                 *)
LEMMA TheOnly ==
    ASSUME NEW S, NEW x \in S, \A i, j \in S : i = j
    PROVE  (CHOOSE i \in S : TRUE) = x
  OBVIOUS

\* Tables of lines without duplicates resolve as the lines do.
LEMMA LookupsAgree == DnsInv => LookupIsReference
  <1> SUFFICES ASSUME DnsInv, Distinct, NEW n \in Name
               PROVE  ApproperiateIP(n) = Reference(n)
    BY DEF LookupIsReference, Distinct
  <1> DEFINE F == Best({"fqdn", "other"}, n)
             P == Best({"prefix"}, n)
             S == Best({"suffix"}, n)
  <1>1. F = IF ModeOf(n) = "fqdn" THEN {table[n]} ELSE {}
    BY BestFull
  <1>2. (P = {} <=> ByPrefix(n) = {}) /\ (S = {} <=> BySuffix(n) = {})
    BY BestPrefix, BestSuffix
  <1>3. Reference(n) = IF F # {} THEN CHOOSE i \in F : TRUE
                       ELSE IF P # {} THEN CHOOSE i \in P : TRUE
                       ELSE IF S # {} THEN CHOOSE i \in S : TRUE ELSE None
    BY DEF Reference
  <1>4. ByPrefix(n) # {} => table[CHOOSE k \in ByPrefix(n) : TRUE] = CHOOSE i \in P : TRUE
    <2> SUFFICES ASSUME ByPrefix(n) # {}
                 PROVE  table[CHOOSE k \in ByPrefix(n) : TRUE] = CHOOSE i \in P : TRUE
      OBVIOUS
    <2>1. table[CHOOSE k \in ByPrefix(n) : TRUE] \in P
      BY BestPrefix
    <2> QED BY <2>1, BestPrefix, TheOnly
  <1>5. BySuffix(n) # {} => table[CHOOSE k \in BySuffix(n) : TRUE] = CHOOSE i \in S : TRUE
    <2> SUFFICES ASSUME BySuffix(n) # {}
                 PROVE  table[CHOOSE k \in BySuffix(n) : TRUE] = CHOOSE i \in S : TRUE
      OBVIOUS
    <2>1. table[CHOOSE k \in BySuffix(n) : TRUE] \in S
      BY BestSuffix
    <2> QED BY <2>1, BestSuffix, TheOnly
  <1>6. ModeOf(n) = "fqdn" => (CHOOSE i \in F : TRUE) = table[n]
    BY <1>1
  <1> HIDE DEF F, P, S
  <1> QED BY <1>1, <1>2, <1>3, <1>4, <1>5, <1>6 DEF ApproperiateIP

(* For any rule file in which no two lines have the same name: the map and *)
(* the two search trees resolve every name as a search of the lines would. *)
THEOREM LookupHolds == Spec => []LookupIsReference
  BY LookupsAgree, DnsInvHolds, PTL

-----------------------------------------------------------------------------
(* The promise to clients. *)

\* The two searches of the tables agree: a name is for upstream just when
\* no line gives it an address.
LEMMA SearchesAgree ==
    ASSUME TypeOK, NEW n \in Name
    PROVE  inDomainList(n) <=> ApproperiateIP(n) = None
  <1>1. ByPrefix(n) # {} => table[CHOOSE k \in ByPrefix(n) : TRUE] # None
    BY Found
  <1>2. BySuffix(n) # {} => table[CHOOSE k \in BySuffix(n) : TRUE] # None
    BY Found
  <1>3. ModeOf(n) = "fqdn" => table[n] # None
    BY DEF ModeOf
  <1> QED BY <1>1, <1>2, <1>3 DEF inDomainList, ApproperiateIP

\* Nobody is asked anything before the file is loaded, and who turns to
\* upstream was asked a name without a line.
ServesFirst == pc # "load" \/ h = [q \in Query |-> Idle]
ForUpstream == \A q \in Query :
    h[q].st \in {"upstream", "locked", "sent"} => inDomainList(h[q].name)

\* Tables and main as they are, searches find what they found.
LEMMA SearchesStay ==
    ASSUME UNCHANGED <<ruleFile, lines, table, prefixes, suffixes>>
    PROVE  \A n : inDomainList(n)' = inDomainList(n) /\ ApproperiateIP(n)' = ApproperiateIP(n)
  BY DEF inDomainList, ApproperiateIP, ModeOf, ByPrefix, BySuffix, LongestPrefix

\* Every step keeps both.
LEMMA QuestionsStep ==
    ASSUME DnsInv, ServesFirst, ForUpstream, [Next]_vars
    PROVE  ServesFirst' /\ ForUpstream'
  <1>1. ASSUME UNCHANGED <<ruleFile, lines, table, prefixes, suffixes, h>> PROVE ForUpstream'
    BY <1>1, SearchesStay DEF ForUpstream
  <1>2. CASE LoadLine
    BY <1>2 DEF LoadLine, ServesFirst, ForUpstream, Idle
  <1>3. CASE LoadFails \/ Serve \/ (\E q \in Query : NoTrees(q)) \/ Hangup \/ UNCHANGED vars
    <2>1. UNCHANGED <<ruleFile, lines, table, prefixes, suffixes, h>> /\ (pc # "load" => pc' # "load")
      BY <1>3 DEF LoadFails, Serve, NoTrees, Hangup, vars
    <2> QED BY <1>1, <2>1 DEF ServesFirst
  <1>4. ASSUME NEW q \in Query, NEW r \in Handler, h' = [h EXCEPT ![q] = r], pc = "serve",
               UNCHANGED <<ruleFile, lines, pc, table, prefixes, suffixes>>,
               r.st \in {"upstream", "locked", "sent"} => inDomainList(r.name)
        PROVE  ServesFirst' /\ ForUpstream'
    <2>1. \A p \in Query : h'[p] = IF p = q THEN r ELSE h[p]
      BY <1>4 DEF DnsInv
    <2> QED BY <1>4, <2>1, SearchesStay DEF ServesFirst, ForUpstream
  <1>5. ASSUME NEW q \in Query, NEW n \in Asked, Ask(q, n) PROVE ServesFirst' /\ ForUpstream'
    <2> DEFINE r == [st |-> "asked", name |-> n, reply |-> Nothing]
    <2>1. r \in Handler /\ r.st = "asked"
      BY DEF Handler, Replies
    <2>2. h' = [h EXCEPT ![q] = r] /\ pc = "serve" /\ UNCHANGED <<ruleFile, lines, pc, table, prefixes, suffixes>>
      BY <1>5 DEF Ask
    <2> HIDE DEF r
    <2> QED BY <1>4, <2>1, <2>2
  <1>6. ASSUME NEW q \in Query, Handle(q), ~NoTrees(q) PROVE ServesFirst' /\ ForUpstream'
    <2>1. h[q] \in Handler /\ h[q].st # "idle"
      BY <1>6 DEF Handle, processQuestion, Lock, Send, Receive, At, DnsInv
    <2>2. pc = "serve" /\ UNCHANGED <<ruleFile, lines, pc, table, prefixes, suffixes>>
      BY <1>6, <2>1 DEF Handle, processQuestion, Lock, Send, Receive, ServesFirst, Idle
    <2>3. ASSUME NEW s \in {"upstream", "locked", "sent"}, Goto(q, s), inDomainList(h[q].name)
          PROVE  ServesFirst' /\ ForUpstream'
      <3> DEFINE r == [h[q] EXCEPT !.st = s]
      <3>1. r \in Handler /\ r.name = h[q].name /\ h' = [h EXCEPT ![q] = r]
        BY <2>1, <2>3 DEF Handler, Goto, DnsInv
      <3> HIDE DEF r
      <3> QED BY <1>4, <2>2, <2>3, <3>1
    <2>4. ASSUME NEW what, Reply(q, what) PROVE ServesFirst' /\ ForUpstream'
      <3>1. \A p \in Query : h'[p].st # "idle" => h'[p] = h[p]
        BY <2>1, <2>4 DEF Reply, DnsInv, Handler
      <3>2. pc' = "serve"
        BY <2>2
      <3> QED BY <2>2, <3>1, <3>2, SearchesStay DEF ServesFirst, ForUpstream
    <2>5. CASE processQuestion(q)
      BY <2>3, <2>4, <2>5 DEF processQuestion
    <2>6. CASE Lock(q) \/ Send(q)
      <3>1. inDomainList(h[q].name)
        BY <2>6 DEF ForUpstream, Lock, Send, At
      <3> QED BY <2>3, <2>6, <3>1 DEF Lock, Send
    <2>7. CASE Receive(q)
      BY <2>4, <2>7 DEF Receive
    <2> QED BY <1>6, <2>5, <2>6, <2>7 DEF Handle
  <1>7. ASSUME NEW q \in Query, Handle(q), NoTrees(q) PROVE ServesFirst' /\ ForUpstream'
    BY <1>3, <1>7
  <1> QED BY <1>2, <1>3, <1>5, <1>6, <1>7 DEF Next

\* The server's view of a handler.
CallOf(r) == [r EXCEPT !.st = IF @ = "idle" THEN "idle" ELSE "open"]
Calls == [q \in Query |-> CallOf(h[q])]
Rules == [n \in Asked |-> IF pc = "serve" THEN ApproperiateIP(n) ELSE None]

\* The rules stay while tables and main do.
LEMMA RulesStay ==
    ASSUME UNCHANGED <<ruleFile, lines, pc, table, prefixes, suffixes>>
    PROVE  Rules' = Rules /\ pc' = pc
  BY SearchesStay DEF Rules

\* A handler that changes is a call that changes.
LEMMA OneCall ==
    ASSUME DnsInv, NEW q \in Query, NEW r, h' = [h EXCEPT ![q] = r]
    PROVE  Calls' = [Calls EXCEPT ![q] = CallOf(r)] /\ Calls[q] = CallOf(h[q])
  <1>1. \A p \in Query : h'[p] = IF p = q THEN r ELSE h[p]
    BY DEF DnsInv
  <1>2. Calls' = [p \in Query |-> IF p = q THEN CallOf(r) ELSE CallOf(h[p])]
    BY <1>1 DEF Calls
  <1> QED BY <1>2 DEF Calls

\* A reply ends the call with it.
LEMMA ReplyAnswers ==
    ASSUME DnsInv, pc = "serve", NEW q \in Query, NEW what, h[q].st # "idle", Reply(q, what),
           UNCHANGED <<ruleFile, lines, pc, table, prefixes, suffixes>>
    PROVE  Server!Open(q) /\ Server!Answer(q, what)
  <1> DEFINE r == [h[q] EXCEPT !.st = "idle", !.reply = what]
  <1>1. h[q] \in Handler /\ h' = [h EXCEPT ![q] = r]
    BY DEF Reply, DnsInv
  <1>2. /\ CallOf(r) = [CallOf(h[q]) EXCEPT !.st = "idle", !.reply = what]
        /\ CallOf(h[q]).st = "open"
    BY <1>1 DEF Handler, CallOf
  <1> HIDE DEF r
  <1>3. Calls' = [Calls EXCEPT ![q] = CallOf(r)] /\ Calls[q] = CallOf(h[q])
    BY <1>1, OneCall
  <1>4. /\ Calls' = [Calls EXCEPT ![q] = [Calls[q] EXCEPT !.st = "idle", !.reply = what]]
        /\ Calls[q].st = "open"
    BY <1>2, <1>3
  <1>5. Rules' = Rules /\ pc' = pc
    BY RulesStay
  <1> QED BY <1>4, <1>5 DEF Server!Answer, Server!Open, Calls, CallOf, Rules

\* A handler that goes on leaves its call as it is.
LEMMA GotoStutters ==
    ASSUME DnsInv, NEW q \in Query, NEW s \in {"upstream", "locked", "sent"}, h[q].st # "idle",
           Goto(q, s), UNCHANGED <<ruleFile, lines, pc, table, prefixes, suffixes>>
    PROVE  UNCHANGED <<pc, Rules, Calls>>
  <1> DEFINE r == [h[q] EXCEPT !.st = s]
  <1>1. h[q] \in Handler /\ h' = [h EXCEPT ![q] = r]
    BY DEF Goto, DnsInv
  <1>2. CallOf(r) = CallOf(h[q])
    BY <1>1 DEF Handler, CallOf
  <1> HIDE DEF r
  <1>3. Calls' = [Calls EXCEPT ![q] = CallOf(r)] /\ Calls[q] = CallOf(h[q])
    BY <1>1, OneCall
  <1>4. Calls' = Calls
    BY <1>2, <1>3 DEF Calls
  <1> QED BY <1>4, RulesStay

\* A step of a handler is the call's answer, or none.
LEMMA HandlerServes ==
    ASSUME DnsInv, ServesFirst, ForUpstream, NEW q \in Query, Handle(q), ~NoTrees(q)
    PROVE  \/ UNCHANGED <<pc, Rules, Calls>>
           \/ Server!ByRule(q) \/ Server!ByUpstream(q)
  <1>1. h[q].st # "idle" /\ h[q].name \in Asked /\ h[q].name \in Name
    BY DnsAssumption DEF Handle, processQuestion, Lock, Send, Receive, At, DnsInv, Turn
  <1>2. pc = "serve" /\ UNCHANGED <<ruleFile, lines, pc, table, prefixes, suffixes>>
    BY <1>1 DEF Handle, processQuestion, Lock, Send, Receive, ServesFirst, Idle
  <1>3. /\ Rules[h[q].name] = ApproperiateIP(h[q].name)
        /\ inDomainList(h[q].name) <=> Rules[h[q].name] = 0
    BY <1>1, <1>2, SearchesAgree DEF Rules, None, DnsInv
  <1>4. Calls[q].name = h[q].name
    BY DEF Calls, CallOf, DnsInv, Handler
  <1>5. ASSUME NEW s \in {"upstream", "locked", "sent"}, Goto(q, s)
        PROVE  UNCHANGED <<pc, Rules, Calls>>
    BY <1>1, <1>2, <1>5, GotoStutters
  <1>6. CASE processQuestion(q) /\ ~inDomainList(h[q].name)
    <2>1. PICK what : /\ what = [from |-> "rule", line |-> Rules[Calls[q].name]]
                      /\ Reply(q, what)
      BY <1>3, <1>4, <1>6 DEF processQuestion
    <2>2. Server!Open(q) /\ Server!Answer(q, what)
      BY <1>1, <1>2, <2>1, ReplyAnswers
    <2>3. Rules[Calls[q].name] # 0
      BY <1>3, <1>4, <1>6
    <2>4. Server!Answer(q, [from |-> "rule", line |-> Rules[Calls[q].name]])
      BY <2>1, <2>2 DEF Server!Answer
    <2> QED BY <2>2, <2>3, <2>4 DEF Server!ByRule, Rules, Calls, CallOf
  <1>7. CASE (processQuestion(q) /\ inDomainList(h[q].name)) \/ Lock(q) \/ Send(q)
    BY <1>5, <1>7 DEF processQuestion, Lock, Send
  <1>8. CASE Receive(q)
    <2>1. inDomainList(h[q].name) /\ wire = h[q].name
      BY <1>8 DEF Receive, At, ForUpstream, DnsInv, Turn
    <2>2. PICK what \in {Nothing, [from |-> "upstream", name |-> h[q].name]} : Reply(q, what)
      BY <1>8, <2>1 DEF Receive
    <2>3. Server!Open(q) /\ Server!Answer(q, what)
      BY <1>1, <1>2, <2>2, ReplyAnswers
    <2>4. what \in {Server!NoReply, [from |-> "upstream", name |-> Calls[q].name]}
          /\ Rules[Calls[q].name] = 0
      BY <1>3, <1>4, <2>1, <2>2 DEF Nothing, Server!NoReply
    <2> QED BY <2>3, <2>4 DEF Server!ByUpstream, Rules, Calls, CallOf
  <1> QED BY <1>6, <1>7, <1>8 DEF Handle

\* A server that was given no file has no rule, and goes down when it is asked.
LEMMA WithoutFile ==
    ASSUME DnsInv, pc = "serve", NEW q \in Query, NoTrees(q)
    PROVE  Server!GoDown
  <1>1. pos = 0 /\ pc' = "panic" /\ h' = h
    BY DEF NoTrees, DnsInv, Loaded
  <1>2. prefixes = {} /\ suffixes = {}
    BY <1>1 DEF DnsInv, Loaded
  <1>3. \A n : ByPrefix(n) = {} /\ BySuffix(n) = {}
    BY <1>2 DEF ByPrefix, BySuffix, LongestPrefix, Longest
  <1>4. \A n \in Name : table[n] = None
    BY <1>1 DEF DnsInv, Loaded, LastOf
  <1>5. \A n \in Asked : ApproperiateIP(n) = None
    BY <1>3, <1>4, DnsAssumption DEF ApproperiateIP, ModeOf
  <1>6. Rules = [n \in Asked |-> 0] /\ Rules' = [n \in Asked |-> 0]
    BY <1>1, <1>5 DEF Rules, None
  <1>7. Calls' = Calls
    BY <1>1 DEF Calls
  <1> QED BY <1>1, <1>6, <1>7 DEF Server!GoDown, Rules, Calls, CallOf

\* Every step is one of the server's, or none.
LEMMA ServerStep ==
    ASSUME DnsInv, ServesFirst, ForUpstream, [Next]_vars
    PROVE  [Server!ServerNext]_<<pc, Rules, Calls>>
  <1>1. CASE LoadLine \/ LoadFails
    <2>1. pc = "load" /\ pc' \in {"load", "panic"} /\ h' = h
      BY <1>1 DEF LoadLine, LoadFails
    <2>2. Rules = [n \in Asked |-> 0] /\ Rules' = [n \in Asked |-> 0] /\ Calls' = Calls
      BY <2>1 DEF Rules, Calls, None
    <2>3. pc' = "panic" => Server!GoDown
      BY <2>1, <2>2 DEF Server!GoDown, Rules, Calls, CallOf
    <2> QED BY <2>1, <2>2, <2>3 DEF Server!ServerNext
  <1>2. CASE Serve
    <2>1. pc = "load" /\ pc' = "serve" /\ UNCHANGED <<ruleFile, lines, table, prefixes, suffixes, h>>
      BY <1>2 DEF Serve
    <2>2. Rules' \in [Asked -> Nat]
      <3>1. Rules' = [n \in Asked |-> ApproperiateIP(n)]
        BY <2>1, SearchesStay DEF Rules
      <3>2. \A n \in Asked : ApproperiateIP(n) \in Nat
        BY DnsAssumption, IPTyped DEF DnsInv
      <3> QED BY <3>1, <3>2
    <2>3. Calls' = Calls
      BY <2>1 DEF Calls
    <2> QED BY <2>1, <2>2, <2>3 DEF Server!ServerNext, Server!OpenDoors, Rules, Calls, CallOf
  <1>3. CASE Hangup \/ UNCHANGED vars
    <2>1. UNCHANGED <<ruleFile, lines, pc, table, prefixes, suffixes, h>>
      BY <1>3 DEF Hangup, vars
    <2> QED BY <2>1, RulesStay DEF Calls
  <1>4. ASSUME NEW q \in Query, NEW n \in Asked, Ask(q, n)
        PROVE  Server!Arrive(q, n)
    <2> DEFINE r == [st |-> "asked", name |-> n, reply |-> Nothing]
    <2>1. h' = [h EXCEPT ![q] = r] /\ h[q] = Idle /\ pc = "serve"
          /\ UNCHANGED <<ruleFile, lines, pc, table, prefixes, suffixes>>
      BY <1>4 DEF Ask
    <2>2. /\ CallOf(r) = [st |-> "open", name |-> n, reply |-> Server!NoReply]
          /\ CallOf(Idle) = Server!Fresh
      BY DEF CallOf, Idle, Server!Fresh, Server!NoReply, Nothing
    <2> HIDE DEF r
    <2>3. Calls' = [Calls EXCEPT ![q] = CallOf(r)] /\ Calls[q] = CallOf(Idle)
      BY <2>1, OneCall
    <2>4. Rules' = Rules /\ pc' = pc
      BY <2>1, RulesStay
    <2>5. Calls' = [Calls EXCEPT ![q] = [st |-> "open", name |-> n, reply |-> Server!NoReply]]
          /\ Calls[q] = Server!Fresh
      BY <2>2, <2>3
    <2> QED BY <2>1, <2>4, <2>5 DEF Server!Arrive, Rules, Calls, CallOf
  <1>5. ASSUME NEW q \in Query, Handle(q)
        PROVE  [Server!ServerNext]_<<pc, Rules, Calls>>
    <2>1. CASE NoTrees(q)
      <3>1. Server!GoDown
        BY <1>5, <2>1, WithoutFile DEF Handle
      <3> QED BY <3>1 DEF Server!ServerNext
    <2>2. CASE ~NoTrees(q)
      BY <1>5, <2>2, HandlerServes DEF Server!ServerNext
    <2> QED BY <2>1, <2>2
  <1> QED BY <1>1, <1>2, <1>3, <1>4, <1>5 DEF Next, Server!ServerNext

(* For any rule file and any queries, which one connection serves: a name   *)
(* has the same line or none for as long as fakedns serves, a query for it  *)
(* is answered by that line, or else by upstream's answer to its own        *)
(* question (main.go:53-98, 176-215).                                       *)
THEOREM RepliesHold == Spec => RepliesSafe
  <1>1. Init => ServesFirst /\ ForUpstream /\ Server!ServerInit
    <2> SUFFICES ASSUME Init PROVE ServesFirst /\ ForUpstream /\ Server!ServerInit
      OBVIOUS
    <2>1. pc = "load" /\ h = [q \in Query |-> Idle]
      BY DEF Init
    <2>2. ServesFirst /\ ForUpstream
      BY <2>1 DEF ServesFirst, ForUpstream, Idle
    <2> QED BY <2>1, <2>2 DEF Server!ServerInit, Server!Fresh, Server!NoReply, Idle, Nothing, None
  <1>2. DnsInv /\ ServesFirst /\ ForUpstream /\ [Next]_vars
          => ServesFirst' /\ ForUpstream' /\ [Server!ServerNext]_<<pc, Rules, Calls>>
    BY QuestionsStep, ServerStep
  <1> QED BY <1>1, <1>2, DnsInvHolds, PTL
      DEF Spec, RepliesSafe, Server!ServerSpec, Server!serverVars, Rules, Calls, CallOf
=============================================================================
