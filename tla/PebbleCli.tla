----------------------------- MODULE PebbleCli -----------------------------
(***************************************************************************)
(* pebble-cli: "index" puts the lines of stdin into a pebble database in   *)
(* batches of BATCH_SIZE, "remove" deletes the keys on stdin, "query" and  *)
(* "dump" read.  One process at a time has the database open.              *)
(*                                                                         *)
(* Batches are committed without sync and the database is never closed:    *)
(* what pebble's log has not written when the process ends, by itself or   *)
(* killed, is gone.  A batch is whole or not there, and no later one       *)
(* without the earlier ones (pebble, external).                            *)
(***************************************************************************)
EXTENDS Naturals, Sequences, SequencesExt

CONSTANTS Key, Val,
          BATCH_SIZE,
          PebMaxLines,      \* bound on lines given to one run
          PebMaxRuns        \* bound on runs

Absent == "absent"
ASSUME PebbleAssumption ==
    /\ BATCH_SIZE \in Nat \ {0} /\ PebMaxLines \in Nat /\ PebMaxRuns \in Nat
    /\ Absent \notin Val

VARIABLES pebCmd,       \* this run's command
          pebPc,        \* "scan", "finished" or "ended"
          pebRuns,
          disk,         \* the database as it was opened: key to value
          lines,        \* lines read in this run
          batch,        \* the operations of the open batch
          wal,          \* the batches committed in this run
          kept,         \* the lines of all runs that are on disk for good
          found         \* what query or dump printed last

pebVars == <<pebCmd, pebPc, pebRuns, disk, lines, batch, wal, kept, found>>

Op == [key : Key, val : Val \cup {Absent}]
Nowhere == [k \in Key |-> Absent]
Commands == {"index", "remove", "query", "dump"}

\* Operations in order on a map: the last of a key holds.
Applied(d, o) == [d EXCEPT ![o.key] = o.val]
Play(m, ops) ==
    LET map[n \in 0..Len(ops)] == IF n = 0 THEN m ELSE Applied(map[n - 1], ops[n])
    IN map[Len(ops)]
Replay(m, batches) == Play(m, FlattenSeq(batches))
Visible == Replay(disk, wal)

Open(cmd) ==
    /\ pebCmd' = cmd /\ pebPc' = "scan"
    /\ lines' = <<>> /\ batch' = <<>> /\ wal' = <<>> /\ found' = <<>>

PebInit ==
    /\ pebCmd = "dump" /\ pebPc = "ended" /\ pebRuns = 0
    /\ disk = Nowhere /\ lines = <<>> /\ batch = <<>> /\ wal = <<>>
    /\ kept = <<>> /\ found = <<>>

RunPebble ==
    /\ pebPc = "ended" /\ pebRuns < PebMaxRuns /\ pebRuns' = pebRuns + 1
    /\ \E cmd \in Commands : Open(cmd)
    /\ UNCHANGED <<disk, kept>>

-----------------------------------------------------------------------------
\* Commit with Sync: false; an empty batch is nothing.
Commit(b) == wal' = IF b = <<>> THEN wal ELSE Append(wal, b)

\* Mutant: the new batch is taken before the commit, which is then of nothing.
SetLost(o) ==
    /\ batch' = IF (Len(lines) + 1) % BATCH_SIZE = 0 THEN <<>> ELSE Append(batch, o)
    /\ UNCHANGED wal
\* batch.Set; every BATCH_SIZE lines a commit and a new batch.
Set(o) ==
    /\ batch' = IF (Len(lines) + 1) % BATCH_SIZE = 0 THEN <<>> ELSE Append(batch, o)
    /\ IF (Len(lines) + 1) % BATCH_SIZE = 0 THEN Commit(Append(batch, o)) ELSE UNCHANGED wal

Reading(cmd) == pebPc = "scan" /\ pebCmd = cmd

NextLine(o) ==
    /\ Len(lines) < PebMaxLines
    /\ lines' = Append(lines, o)

IndexLine ==
    /\ Reading("index")
    /\ \E k \in Key, v \in Val : NextLine([key |-> k, val |-> v]) /\ Set([key |-> k, val |-> v])
    /\ UNCHANGED <<pebCmd, pebPc, pebRuns, disk, kept, found>>

(* remove: the deletions are collected in a batch that nobody commits.     *)
RemoveLine ==
    /\ Reading("remove")
    /\ \E k \in Key : /\ NextLine([key |-> k, val |-> Absent])
                      /\ batch' = Append(batch, [key |-> k, val |-> Absent])
    /\ UNCHANGED <<pebCmd, pebPc, pebRuns, disk, wal, kept, found>>

Query ==
    /\ Reading("query")
    /\ \E k \in Key : found' = <<[key |-> k, val |-> Visible[k]]>>
    /\ UNCHANGED <<pebCmd, pebPc, pebRuns, disk, lines, batch, wal, kept>>

Dump ==
    /\ Reading("dump") /\ found = <<>>
    /\ found' = SetToSeq({[key |-> k, val |-> Visible[k]] : k \in {j \in Key : Visible[j] # Absent}})
    /\ UNCHANGED <<pebCmd, pebPc, pebRuns, disk, lines, batch, wal, kept>>

Rest == IF pebCmd = "index" THEN Commit(batch) /\ batch' = <<>> ELSE UNCHANGED <<wal, batch>>

\* The end of the input, or a line too long for the scanner, which is the same.
Finish ==
    /\ pebPc = "scan"
    /\ pebPc' = "finished" /\ Rest
    /\ UNCHANGED <<pebCmd, pebRuns, disk, lines, kept, found>>

KeepOldest(n) == SubSeq(wal, 1, n)

(* The process is gone, with the database open: it returned or was killed. *)
Gone ==
    /\ pebPc # "ended" /\ pebPc' = "ended"
    /\ \E n \in 0..Len(wal) :
          /\ disk' = Replay(disk, KeepOldest(n))
          /\ kept' = IF n = Len(wal) THEN kept \o SubSeq(lines, 1, Len(lines) - Len(batch))
                     ELSE kept \o SubSeq(lines, 1, n * BATCH_SIZE)
    /\ UNCHANGED <<pebCmd, pebRuns, lines, batch, wal, found>>

PebNext == RunPebble \/ IndexLine \/ RemoveLine \/ Query \/ Dump \/ Finish \/ Gone

PebSpec == PebInit /\ [][PebNext]_pebVars

-----------------------------------------------------------------------------
PebTypeOK ==
    /\ pebCmd \in Commands /\ pebPc \in {"scan", "finished", "ended"} /\ pebRuns \in 0..PebMaxRuns
    /\ disk \in [Key -> Val \cup {Absent}]
    /\ lines \in Seq(Op) /\ batch \in Seq(Op) /\ wal \in Seq(Seq(Op))
    /\ kept \in Seq(Op) /\ found \in Seq(Op)

(* What index has read is in the committed batches and the open one, in    *)
(* order and each once; all but the last commit are of BATCH_SIZE lines;   *)
(* and when it has finished nothing is left over (main.go:28-49).          *)
NothingDropped ==
    pebCmd = "index" =>
        /\ FlattenSeq(wal) \o batch = lines
        /\ \A n \in 1..Len(wal) - 1 : Len(wal[n]) = BATCH_SIZE
        /\ Len(batch) < BATCH_SIZE
        /\ pebPc = "finished" => batch = <<>>

\* The value of the last line with key k, if any.
LastValue(s, k) ==
    LET at == {i \in 1..Len(s) : s[i].key = k}
    IN IF at = {} THEN Absent ELSE s[CHOOSE i \in at : \A j \in at : j <= i].val

(* Over any number of runs and kills each key has the value of the last    *)
(* line with it among those of a first part of each run's input, cut at a  *)
(* batch (main.go:23-50).                                                  *)
DiskIsLines == \A k \in Key : disk[k] = LastValue(kept, k)

(* No line is lost before the end of the process, and no batch is torn or  *)
(* out of order after it.                                                  *)
LinesKept == NothingDropped /\ DiskIsLines

(* remove removes the keys it is given (flags.go:23).  It never commits    *)
(* the batch they are in (main.go:83-107), so it removes none.             *)
RemoveRemoves ==
    pebCmd = "remove" /\ pebPc = "ended" =>
        \A i \in 1..Len(lines) : disk[lines[i].key] = Absent

(* What index has finished with is in the database (flags.go:12-14).       *)
IndexStays ==
    [][pebPc = "finished" /\ pebPc' = "ended" /\ pebCmd = "index" => disk' = Visible]_pebVars
=============================================================================
