------------------------------ MODULE Siemsend ------------------------------
(***************************************************************************)
(* siemsend: lines of stdin are sent to a SIEM by one of four sub-commands.*)
(* sentinel collects BatchSize lines into a JSON array and prints what it  *)
(* could not send; opensearch sends line by line, under the line's number  *)
(* as document ID; elastic hands lines to a bulk indexer with workers of   *)
(* its own; splunk connects to its endpoints and sends nothing.            *)
(*                                                                         *)
(* The program is run again and again: on a further file, or on what       *)
(* sentinel printed (README.md:5, "any error control and/or backup         *)
(* solution can be piped").  A line is its number, whole or, when it has   *)
(* been cut at a "},{" inside it, its left and right part.                 *)
(***************************************************************************)
EXTENDS Integers, Sequences, SequencesExt, FiniteSets

CONSTANTS Files,      \* the input files, sequences of line numbers
          Commands,   \* the sub-commands in use
          BatchSize,
          Endpoint,   \* splunk's endpoints
          Faults,     \* subset of {"setup", "refused", "error", "lost"}
          MaxRuns     \* bound on runs of the program

Line == UNION {Range(Files[k]) : k \in DOMAIN Files}
Parts == {"whole", "left", "right"}
Text == Line \X Parts

\* A line has a number of its own, in all files.
ASSUME SiemAssumption ==
    /\ Files \in Seq(Seq(Nat)) \ {<<>>}
    /\ \A k, m \in 1..Len(Files) : \A i \in 1..Len(Files[k]), j \in 1..Len(Files[m]) :
          Files[k][i] = Files[m][j] => k = m /\ i = j
    /\ BatchSize \in Nat /\ MaxRuns \in Nat \ {0}
    /\ Commands \subseteq {"sentinel", "opensearch", "elastic", "splunk"}
    /\ Faults \subseteq {"setup", "refused", "error", "lost"}

VARIABLES cmd,      \* the sub-command of this run
          pc,       \* "create", "scan", "send", "flush", "close"; "ended",
                    \* "fatal" or "panic": how it ended
          kind,     \* kind[l]: "plain", "nested" (has a "},{" inside), "long"
                    \* (64 KB or more) or "huge" (10 MB or more)
          by,       \* by[k]: the sub-command that file k was given to
          runs,     \* runs so far
          stdin,    \* what this run has still to read
          cnt,      \* lines counted: in the batch, or in the run
          batch,    \* lines collected, or queued in the bulk indexer
          stored,   \* documents in the SIEM, in the order they were made
          out,      \* lines on stdout
          failed,   \* lines elastic's indexer told OnFailure of
          conns     \* splunk's connections

vars == <<cmd, pc, kind, by, runs, stdin, cnt, batch, stored, out, failed, conns>>

Whole(f) == [i \in 1..Len(f) |-> <<f[i], "whole">>]
AutoId == 0           \* an ID the service makes up
Doc == [id : Nat, text : Text]
Docs(b) == [i \in 1..Len(b) |-> [id |-> AutoId, text |-> b[i]]]

Kinds == {"plain", "nested", "long", "huge"}
TooLong(c) == IF c \in {"elastic", "opensearch"} THEN {"huge"} ELSE {"long", "huge"}

Begin(c, in) ==
    /\ cmd' = c /\ stdin' = in /\ cnt' = 0 /\ batch' = <<>>
    /\ pc' = IF c \in {"elastic", "opensearch"} THEN "create" ELSE "scan"
    /\ failed' = {} /\ conns' = [e \in Endpoint |-> "none"]

Init ==
    /\ kind \in [Line -> Kinds]
    /\ cmd \in Commands /\ by = <<cmd>> /\ runs = 1
    /\ stdin = Whole(Files[1]) /\ cnt = 0 /\ batch = <<>>
    /\ pc = IF cmd \in {"elastic", "opensearch"} THEN "create" ELSE "scan"
    /\ stored = <<>> /\ out = <<>> /\ failed = {}
    /\ conns = [e \in Endpoint |-> "none"]

Ended == pc \in {"ended", "fatal", "panic"}

(* The program is run on the next file, or sentinel on what it printed.    *)
RunNext ==
    /\ Ended /\ runs < MaxRuns /\ runs' = runs + 1
    /\ \/ /\ Len(by) < Len(Files)
          /\ \E c \in Commands : /\ by' = Append(by, c)
                                 /\ Begin(c, Whole(Files[Len(by) + 1]))
          /\ UNCHANGED out
       \/ /\ out # <<>> /\ out' = <<>>
          /\ Begin("sentinel", out)
          /\ UNCHANGED by
    /\ UNCHANGED <<kind, stored>>

\* The scanner returns a line, unless the next is too long for its buffer:
\* 64 KB by default, 10 MB in elastic and opensearch.
Fits(t) == t[2] = "whole" => kind[t[1]] \notin TooLong(cmd)
MoreLines == stdin # <<>> /\ Fits(Head(stdin))

-----------------------------------------------------------------------------
(* sentinel *)
At(c, p) == cmd = c /\ pc = p

SentinelScan ==
    /\ At("sentinel", "scan") /\ MoreLines
    /\ stdin' = Tail(stdin) /\ batch' = Append(batch, Head(stdin))
    /\ cnt' = cnt + 1
    /\ pc' = IF cnt + 1 = BatchSize THEN "send" ELSE "scan"
    /\ UNCHANGED <<cmd, kind, by, runs, stored, out, failed, conns>>

\* Mutant: no break at the end.
SentinelSpins ==
    /\ At("sentinel", "scan") /\ ~MoreLines
    /\ pc' = IF batch = <<>> THEN "scan" ELSE "flush"
    /\ UNCHANGED <<cmd, kind, by, runs, stdin, cnt, batch, stored, out, failed, conns>>
\* The end of the input, or of what the scanner can read.
SentinelEnd ==
    /\ At("sentinel", "scan") /\ ~MoreLines
    /\ pc' = IF batch = <<>> THEN "ended" ELSE "flush"
    /\ UNCHANGED <<cmd, kind, by, runs, stdin, cnt, batch, stored, out, failed, conns>>

\* PrintBatch cuts the array at every "},{", inside a line as well.
Printed(b) ==
    FlattenSeq([i \in 1..Len(b) |->
        IF kind[b[i][1]] = "nested" /\ b[i][2] = "whole"
        THEN <<<<b[i][1], "left">>, <<b[i][1], "right">>>> ELSE <<b[i]>>])

\* Mutant: an error with a status code is logged only.
OutcomesSilent == {[arrives |-> TRUE, prints |-> FALSE], [arrives |-> FALSE, prints |-> FALSE]}
\* Whether the batch arrives and whether sendBatch prints it.
Outcomes == {[arrives |-> TRUE, prints |-> FALSE]}
    \cup (IF Faults \cap {"setup", "refused", "error"} # {} THEN {[arrives |-> FALSE, prints |-> TRUE]} ELSE {})
    \cup (IF "lost" \in Faults THEN {[arrives |-> TRUE, prints |-> TRUE]} ELSE {})

\* Mutant: the counter is not reset.
ResetBatch == batch' = <<>> /\ UNCHANGED cnt
\* Mutant: the counter is taken back by a full batch.
ResetSubtracts == batch' = <<>> /\ cnt' = cnt - BatchSize
Reset == batch' = <<>> /\ cnt' = 0

sendBatch ==
    /\ cmd = "sentinel" /\ pc \in {"send", "flush"}
    /\ \E o \in Outcomes :
          /\ stored' = IF o.arrives THEN stored \o Docs(batch) ELSE stored
          /\ out' = IF o.prints THEN out \o Printed(batch) ELSE out
    /\ Reset
    /\ pc' = IF pc = "send" THEN "scan" ELSE "ended"
    /\ UNCHANGED <<cmd, kind, by, runs, stdin, failed, conns>>

-----------------------------------------------------------------------------
(* opensearch *)

\* A request that gets no answer leaves res nil, which is dereferenced.
OpensearchCreate ==
    /\ At("opensearch", "create")
    /\ pc' \in {"scan"} \cup (IF Faults \cap {"setup", "error"} # {} THEN {"fatal", "panic"} ELSE {})
    /\ UNCHANGED <<cmd, kind, by, runs, stdin, cnt, batch, stored, out, failed, conns>>

\* Storing under an ID that exists replaces the document.
PutDoc(s, id, t) ==
    LET doc == [id |-> id, text |-> t]
    IN IF \E i \in 1..Len(s) : s[i].id = id
       THEN [i \in 1..Len(s) |-> IF s[i].id = id THEN doc ELSE s[i]]
       ELSE Append(s, doc)

\* Mutant: refused lines do not count.
OpensearchCountsStored ==
    /\ At("opensearch", "scan") /\ MoreLines
    /\ stdin' = Tail(stdin)
    /\ \E ok \in {TRUE} \cup (IF "refused" \in Faults THEN {FALSE} ELSE {}) :
          /\ cnt' = IF ok THEN cnt + 1 ELSE cnt
          /\ stored' = IF ok THEN PutDoc(stored, cnt + 1, Head(stdin)) ELSE stored
    /\ pc' = "scan"
    /\ UNCHANGED <<cmd, kind, by, runs, batch, out, failed, conns>>

\* A line; then cnt % BatchSize, which panics when BatchSize is 0.
OpensearchLine ==
    /\ At("opensearch", "scan") /\ MoreLines
    /\ stdin' = Tail(stdin) /\ cnt' = cnt + 1
    /\ \/ /\ stored' = PutDoc(stored, cnt + 1, Head(stdin))
          /\ pc' \in (IF BatchSize = 0 THEN {"panic"} ELSE {"scan"})
                     \cup (IF "lost" \in Faults THEN {"panic"} ELSE {})
       \/ /\ "refused" \in Faults /\ UNCHANGED stored
          /\ pc' = IF BatchSize = 0 THEN "panic" ELSE "scan"
       \/ /\ "error" \in Faults /\ UNCHANGED stored /\ pc' = "panic"
    /\ UNCHANGED <<cmd, kind, by, runs, batch, out, failed, conns>>

OpensearchEnd ==
    /\ At("opensearch", "scan") /\ ~MoreLines
    /\ pc' = "ended"
    /\ UNCHANGED <<cmd, kind, by, runs, stdin, cnt, batch, stored, out, failed, conns>>

-----------------------------------------------------------------------------
(* elastic *)
ElasticCreate ==
    /\ At("elastic", "create")
    /\ pc' \in {"scan"} \cup (IF "setup" \in Faults THEN {"fatal"} ELSE {})
    /\ UNCHANGED <<cmd, kind, by, runs, stdin, cnt, batch, stored, out, failed, conns>>

ElasticAdd ==
    /\ At("elastic", "scan")
    /\ IF ~MoreLines THEN pc' = "close" /\ UNCHANGED <<stdin, cnt, batch>>
       ELSE /\ stdin' = Tail(stdin) /\ batch' = Append(batch, Head(stdin))
            /\ cnt' = cnt + 1 /\ UNCHANGED pc
    /\ UNCHANGED <<cmd, kind, by, runs, stored, out, failed, conns>>

\* One of the indexer's workers delivers a line, or fails and only logs it;
\* or the line is stored and the answer lost, which is told as a failure.
ElasticWorker ==
    /\ cmd = "elastic" /\ pc \in {"scan", "close"}
    /\ \E i \in 1..Len(batch) :
          /\ batch' = RemoveAt(batch, i)
          /\ \/ stored' = stored \o Docs(<<batch[i]>>) /\ UNCHANGED failed
             \/ /\ Faults \cap {"refused", "error"} # {}
                /\ failed' = failed \cup {batch[i]} /\ UNCHANGED stored
             \/ /\ "lost" \in Faults
                /\ stored' = stored \o Docs(<<batch[i]>>) /\ failed' = failed \cup {batch[i]}
    /\ UNCHANGED <<cmd, pc, kind, by, runs, stdin, cnt, out, conns>>

\* Mutant: Close does not wait for the workers.
CloseAtOnce ==
    /\ At("elastic", "close")
    /\ pc' = "ended"
    /\ UNCHANGED <<cmd, kind, by, runs, stdin, cnt, batch, stored, out, failed, conns>>
ElasticClose ==
    /\ At("elastic", "close") /\ batch = <<>>
    /\ pc' = "ended"
    /\ UNCHANGED <<cmd, kind, by, runs, stdin, cnt, batch, stored, out, failed, conns>>

-----------------------------------------------------------------------------
(* splunk: one goroutine per endpoint, all writing one map; the main one   *)
(* reads stdin, sends nothing and never returns.                           *)
SplunkScan ==
    /\ At("splunk", "scan") /\ MoreLines
    /\ stdin' = Tail(stdin)
    /\ UNCHANGED <<cmd, pc, kind, by, runs, cnt, batch, stored, out, failed, conns>>

connectSplunkRetry(e) ==
    /\ At("splunk", "scan") /\ conns[e] # "healthy"
    /\ \E h \in {"healthy", "unhealthy"} : conns' = [conns EXCEPT ![e] = h]
    /\ pc' \in {"scan"} \cup (IF Cardinality(Endpoint) > 1 THEN {"fatal"} ELSE {})
    /\ UNCHANGED <<cmd, kind, by, runs, stdin, cnt, batch, stored, out, failed>>

-----------------------------------------------------------------------------
Sentinel == SentinelScan \/ SentinelEnd \/ sendBatch
Opensearch == OpensearchCreate \/ OpensearchLine \/ OpensearchEnd
Elastic == ElasticCreate \/ ElasticAdd \/ ElasticWorker \/ ElasticClose
Splunk == SplunkScan \/ \E e \in Endpoint : connectSplunkRetry(e)

Next == Sentinel \/ Opensearch \/ Elastic \/ Splunk \/ RunNext

Spec == Init /\ [][Next]_vars

(* A run goes on as long as it can; nobody has to run the program again.   *)
FairSpec == Spec /\ WF_vars(Sentinel \/ Opensearch \/ Elastic)

-----------------------------------------------------------------------------
TypeOK ==
    /\ cmd \in Commands
    /\ pc \in {"create", "scan", "send", "flush", "close", "ended", "fatal", "panic"}
    /\ kind \in [Line -> Kinds]
    /\ by \in Seq(Commands) /\ Len(by) <= Len(Files) /\ runs \in 1..MaxRuns
    /\ stdin \in Seq(Text) /\ cnt \in Nat /\ batch \in Seq(Text)
    /\ stored \in Seq(Doc) /\ out \in Seq(Text) /\ failed \subseteq Text
    /\ conns \in [Endpoint -> {"none", "healthy", "unhealthy"}]

StoredTexts == {d.text : d \in Range(stored)}
Somewhere(t) == t \in Range(stdin) \cup Range(batch) \cup StoredTexts \cup Range(out)
Kept(l) == Somewhere(<<l, "whole">>) \/ (Somewhere(<<l, "left">>) /\ Somewhere(<<l, "right">>))

\* Line i of file k comes before one that ends the input of its sub-command.
Readable(k, i) == \A j \in 1..i : kind[Files[k][j]] \notin TooLong(by[k])

(* A line of a file given to sentinel is at any time unread, in the batch, *)
(* in the workspace or on stdout, over any number of runs, unless it comes *)
(* after a line too long for the scanner (sentinel.go:87-155, 166-195).    *)
NothingLost ==
    \A k \in 1..Len(by) : by[k] = "sentinel" =>
        \A i \in 1..Len(Files[k]) :
            Readable(k, i) => Kept(Files[k][i])

(* sentinel's array never holds more than BatchSize lines, and the counter *)
(* that decides this is its length (sentinel.go:174-184).                  *)
BatchBounded ==
    cmd = "sentinel" /\ ~Ended =>
        cnt = Len(batch) /\ (BatchSize > 0 => cnt <= BatchSize)

(* opensearch files every document under the number of its line, whatever  *)
(* was refused before it (opensearch.go:99-114).                           *)
DocIsLine ==
    \A d \in Range(stored) : d.id # AutoId =>
        \E k \in 1..Len(by) : d.id <= Len(Files[k]) /\ d.text = <<Files[k][d.id], "whole">>

(* When elastic has ended, each line of its file that it could read was    *)
(* stored by a worker or its failure told: neither the input's end nor     *)
(* Close leaves one with the workers (elastic.go:119-157).                 *)
ElasticAccounts ==
    At("elastic", "ended") =>
        \A n \in 1..Len(Files[Len(by)]) :
            Readable(Len(by), n) => <<Files[Len(by)][n], "whole">> \in StoredTexts \cup failed

(* Every run but splunk's comes to an end.                                 *)
RunEnds == (cmd # "splunk" /\ ~Ended) ~> Ended

(* What sentinel could not send it prints as the lines it read             *)
(* (README.md:5).                                                          *)
PrintsLines == \A t \in Range(out) : t[2] = "whole"

(* sentinel reads all of its input (README.md:5, "get a stream of JSON     *)
(* lines from stdin, send them").                                          *)
ReadsAll == At("sentinel", "ended") => stdin = <<>>

(* A document that is stored stays (main.go:1).                            *)
DocsStay == [][StoredTexts \subseteq StoredTexts']_vars
=============================================================================
