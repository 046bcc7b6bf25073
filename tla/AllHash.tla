------------------------------ MODULE AllHash ------------------------------
(***************************************************************************)
(* allhash: five goroutines hash one file and append to one slice, and     *)
(* main prints the slice when all are done.  md5, sha1 and sha256 copy     *)
(* from the same *os.File, so from one offset: what one of them reads the  *)
(* others do not.  tlsh and ssdeep open the file by its name.              *)
(*                                                                         *)
(* The file is Chunks answers of Read (at most 32 KB each, io.Copy's       *)
(* buffer), known by their numbers; os.File serialises reads.  The append  *)
(* to c.Hashes is not under a lock: once two of them overlap, raced says   *)
(* that nothing is known of the slice (an entry may be lost or             *)
(* overwritten, its header be of two halves), and hashes is left empty.    *)
(***************************************************************************)
EXTENDS Naturals, Sequences

CONSTANTS Chunks,
          Shared,       \* the algorithms that read through f
          Own           \* those that open the file themselves

ASSUME HashAssumption == Chunks \in Nat /\ Shared # {} /\ Shared \cap Own = {}

VARIABLES hashMain,     \* "open", "wait", "printed" or "fatal"
          hashSt,       \* goroutines: "read", "append", "appending", "done",
                        \* "failed"
          offset,       \* chunks read through f
          fed,          \* fed[a]: the chunks a's digest is of
          hashes,       \* c.Hashes, while appends have not met
          raced         \* two appends have met

hashVars == <<hashMain, hashSt, offset, fed, hashes, raced>>

Alg == Shared \cup Own
WholeFile == [k \in 1..Chunks |-> k]

HashInit ==
    /\ hashMain = "open"
    /\ hashSt = [a \in Alg |-> "read"]
    /\ offset = 0
    /\ fed = [a \in Alg |-> <<>>]
    /\ hashes = <<>> /\ raced = FALSE

Running(a, st) == hashMain = "wait" /\ hashSt[a] = st
Moves(a, st) == hashSt' = [hashSt EXCEPT ![a] = st]

-----------------------------------------------------------------------------
OpenFile ==
    /\ hashMain = "open" /\ hashMain' \in {"wait", "fatal"}
    /\ UNCHANGED <<hashSt, offset, fed, hashes, raced>>

\* Mutant: the end of the file is not noticed.
ReadPastEnd(a) ==
    /\ Running(a, "read")
    /\ offset' = offset + 1
    /\ fed' = [fed EXCEPT ![a] = Append(@, offset + 1)]
    /\ UNCHANGED <<hashMain, hashSt, hashes, raced>>
(* io.Copy: a Read returns the next chunk of the file and moves on.        *)
SharedRead(a) ==
    /\ Running(a, "read") /\ offset < Chunks
    /\ offset' = offset + 1
    /\ fed' = [fed EXCEPT ![a] = Append(@, offset + 1)]
    /\ UNCHANGED <<hashMain, hashSt, hashes, raced>>

SharedEof(a) ==
    /\ Running(a, "read") /\ offset = Chunks
    /\ Moves(a, "append")
    /\ UNCHANGED <<hashMain, offset, fed, hashes, raced>>

\* A read that fails ends the program, whatever the others have.
SharedFails(a) ==
    /\ Running(a, "read")
    /\ hashMain' = "fatal"
    /\ UNCHANGED <<hashSt, offset, fed, hashes, raced>>

\* HashFilename and FuzzyFilename: the whole file, or an error that is logged
\* (ssdeep refuses small files).
OwnHash(a) ==
    /\ Running(a, "read")
    /\ \/ Moves(a, "append") /\ fed' = [fed EXCEPT ![a] = WholeFile]
       \/ Moves(a, "failed") /\ UNCHANGED fed
    /\ UNCHANGED <<hashMain, offset, hashes, raced>>

(* c.Hashes = append(c.Hashes, ...): reads the slice, then writes it.      *)
AppendBegin(a) ==
    /\ Running(a, "append")
    /\ Moves(a, "appending")
    /\ raced' = (raced \/ \E b \in Alg : hashSt[b] = "appending")
    /\ hashes' = IF raced' THEN <<>> ELSE hashes
    /\ UNCHANGED <<hashMain, offset, fed>>

AppendEnd(a) ==
    /\ Running(a, "appending")
    /\ Moves(a, "done")
    /\ hashes' = IF raced THEN <<>> ELSE Append(hashes, [alg |-> a, of |-> fed[a]])
    /\ UNCHANGED <<hashMain, offset, fed, raced>>

Finished(a) == hashSt[a] \in {"done", "failed"}

\* Mutant: tlsh and ssdeep are not in the wait group.
WaitShared == \A a \in Shared : Finished(a)
Wait == \A a \in Alg : Finished(a)

\* A header of two halves may end the program when it is read.
PrintHashes ==
    /\ hashMain = "wait" /\ Wait
    /\ hashMain' \in (IF raced THEN {"printed", "fatal"} ELSE {"printed"})
    /\ UNCHANGED <<hashSt, offset, fed, hashes, raced>>

HashNext ==
    \/ \E a \in Shared : SharedRead(a) \/ SharedEof(a) \/ SharedFails(a)
    \/ \E a \in Own : OwnHash(a)
    \/ \E a \in Alg : AppendBegin(a) \/ AppendEnd(a)
    \/ OpenFile \/ PrintHashes

HashSpec == HashInit /\ [][HashNext]_hashVars

(* While one goroutine can go on, one does.                                *)
HashFairSpec == HashSpec /\ WF_hashVars(HashNext)

-----------------------------------------------------------------------------
HashTypeOK ==
    /\ hashMain \in {"open", "wait", "printed", "fatal"}
    /\ hashSt \in [Alg -> {"read", "append", "appending", "done", "failed"}]
    /\ offset \in 0..Chunks
    /\ fed \in [Alg -> Seq(1..Chunks)]
    /\ raced \in BOOLEAN /\ hashes \in Seq([alg : Alg, of : Seq(1..Chunks)])

(* What is printed, if no two appends met, has one entry of each algorithm *)
(* that did not fail and of no other, with the digest as it was when its   *)
(* goroutine ended; tlsh's and ssdeep's are of the whole file              *)
(* (main.go:96-167).                                                       *)
EntryOf(a, i) == hashes[i] = [alg |-> a, of |-> fed[a]]
PrintedOnce ==
    hashMain = "printed" /\ ~raced =>
        /\ \A a \in Alg : hashSt[a] # "failed" =>
              \E i \in 1..Len(hashes) : /\ EntryOf(a, i)
                                        /\ a \in Own => hashes[i].of = WholeFile
                                        /\ \A j \in 1..Len(hashes) : hashes[j].alg = a => i = j
        /\ \A i \in 1..Len(hashes) : hashSt[hashes[i].alg] = "done"
        /\ offset = Chunks

(* The program prints or dies.                                             *)
HashEnds == hashMain = "wait" ~> hashMain # "wait"

(* Every hash that is listed is the given file's (README.md:3-4 of the      *)
(* repository, main.go:1).  The code breaks this: see AtMostOneWhole.      *)
HashesOfFile ==
    hashMain = "printed" /\ ~raced =>
        \A i \in 1..Len(hashes) : hashes[i].of = WholeFile

(* Appends do not meet.                                                    *)
NeverRaced == ~raced
=============================================================================
