---------------------------- MODULE AllHashProof ----------------------------
(***************************************************************************)
(* For every length of the file and all sets of algorithms: what is printed *)
(* has each algorithm once, and of the digests that read the open file     *)
(* through its one offset at most one can be the file's, which is how far  *)
(* the program is from what its README says of it.  HashInv relates the    *)
(* slice to the goroutines' states while no two appends have met, and says *)
(* who has read what of the shared file.                                   *)
(***************************************************************************)
EXTENDS AllHash, TLAPS

\* Where an entry of the slice may come from, and that each has its own.
Listed ==
    ~raced =>
        /\ \A i \in 1..Len(hashes) : /\ hashSt[hashes[i].alg] = "done"
                                     /\ hashes[i].of = fed[hashes[i].alg]
        /\ \A i, j \in 1..Len(hashes) : hashes[i].alg = hashes[j].alg => i = j
        /\ \A a \in Alg : hashSt[a] = "done" => \E i \in 1..Len(hashes) : hashes[i].alg = a

\* What a goroutine has fed its digest once it has left the reading.
LeftHash(a) == hashSt[a] \in {"append", "appending", "done"}
FedAll ==
    /\ \A a \in Own : LeftHash(a) => fed[a] = WholeFile
    /\ \A a \in Shared : hashSt[a] # "failed" /\ (LeftHash(a) => offset = Chunks)

\* Who has what of that which was read through f: a chunk is in one digest
\* and at one place of it, and each digest takes its chunks in order.
ChunkOnce ==
    \A a, b \in Shared : \A i \in 1..Len(fed[a]), j \in 1..Len(fed[b]) :
        fed[a][i] = fed[b][j] => a = b /\ i = j
FileOrder ==
    \A a \in Shared : \A i, j \in 1..Len(fed[a]) : i < j => fed[a][i] < fed[a][j]
ChunkRead ==
    \A k \in 1..offset : \E a \in Shared : \E i \in 1..Len(fed[a]) : fed[a][i] = k
SharedOnce == ChunkOnce /\ FileOrder /\ ChunkRead

\* All that was read through the file is of its first offset chunks.
Within == \A a \in Shared : \A i \in 1..Len(fed[a]) : fed[a][i] <= offset

Ended == hashMain = "printed" => Wait

HashInv == HashTypeOK /\ Within /\ SharedOnce /\ FedAll /\ Listed /\ Ended

-----------------------------------------------------------------------------
(* A sequence with one more element, element by element.                   *)
LEMMA HashAppended ==
    ASSUME NEW S, NEW s \in Seq(S), NEW x \in S
    PROVE  /\ Append(s, x) \in Seq(S) /\ Len(Append(s, x)) = Len(s) + 1
           /\ \A i \in 1..Len(s) : Append(s, x)[i] = s[i]
           /\ Append(s, x)[Len(s) + 1] = x
  OBVIOUS

\* Every element of a sequence is of its set.
LEMMA ElementOf ==
    ASSUME NEW S, NEW s \in Seq(S), NEW i \in 1..Len(s)
    PROVE  s[i] \in S
  OBVIOUS

\* The empty sequence is one of any set.
LEMMA SeqOfNone == ASSUME NEW S PROVE <<>> \in Seq(S)
  OBVIOUS

\* A whole file is a sequence of chunks.
LEMMA WholeFileSeq == WholeFile \in Seq(1..Chunks)
  BY HashAssumption DEF WholeFile

\* An algorithm either reads the shared file or opens its own.
LEMMA AlgParts ==
    /\ Shared \subseteq Alg /\ Own \subseteq Alg
    /\ \A a \in Own : a \notin Shared
  BY HashAssumption DEF Alg

(* An entry of the slice is of an algorithm and of chunks.                 *)
LEMMA EntryTyped ==
    ASSUME HashTypeOK, NEW i \in 1..Len(hashes)
    PROVE  hashes[i] \in [alg : Alg, of : Seq(1..Chunks)] /\ hashes[i].alg \in Alg
  <1>1. hashes \in Seq([alg : Alg, of : Seq(1..Chunks)])
    BY DEF HashTypeOK
  <1>2. hashes[i] \in [alg : Alg, of : Seq(1..Chunks)]
    BY <1>1, ElementOf
  <1> QED BY <1>2

\* Nothing is read when the invariant begins to hold.
LEMMA HashBegins == HashInit => HashInv
  <1> SUFFICES ASSUME HashInit PROVE HashInv
    OBVIOUS
  <1>1. /\ hashMain = "open" /\ hashSt = [a \in Alg |-> "read"] /\ offset = 0
        /\ fed = [a \in Alg |-> <<>>] /\ hashes = <<>> /\ raced = FALSE
    BY DEF HashInit
  <1>2. \A a \in Alg : hashSt[a] = "read" /\ fed[a] = <<>> /\ Len(fed[a]) = 0
    BY <1>1
  <1>3. HashTypeOK
    <2>1. hashes \in Seq([alg : Alg, of : Seq(1..Chunks)])
      BY <1>1, SeqOfNone
    <2>2. <<>> \in Seq(1..Chunks)
      BY SeqOfNone
    <2>3. fed \in [Alg -> Seq(1..Chunks)]
      BY <1>1, <2>2
    <2>4. offset \in 0..Chunks
      BY <1>1, HashAssumption
    <2>5. hashSt \in [Alg -> {"read", "append", "appending", "done", "failed"}]
      BY <1>1
    <2> QED BY <1>1, <2>1, <2>3, <2>4, <2>5 DEF HashTypeOK
  <1>4. Within /\ SharedOnce
    BY <1>1, <1>2, AlgParts DEF Within, SharedOnce, ChunkOnce, FileOrder, ChunkRead
  <1>5. FedAll
    BY <1>2, AlgParts DEF FedAll, LeftHash
  <1>6. Listed
    BY <1>1, <1>2 DEF Listed
  <1>7. Ended
    BY <1>1 DEF Ended
  <1> QED BY <1>3, <1>4, <1>5, <1>6, <1>7 DEF HashInv

-----------------------------------------------------------------------------
(* A read of the shared file hands the next chunk to one digest.           *)
LEMMA ReadStep ==
    ASSUME HashInv, NEW a \in Shared, SharedRead(a)
    PROVE  HashInv'
  <1> DEFINE n == Len(fed[a])
  <1> USE HashAssumption, AlgParts
  <1>1. /\ hashSt \in [Alg -> {"read", "append", "appending", "done", "failed"}]
        /\ offset \in 0..Chunks /\ fed \in [Alg -> Seq(1..Chunks)] /\ a \in Alg
        /\ hashSt[a] = "read" /\ offset < Chunks /\ offset' = offset + 1
        /\ fed' = [fed EXCEPT ![a] = Append(fed[a], offset + 1)]
        /\ hashMain = "wait"
        /\ UNCHANGED <<hashMain, hashSt, hashes, raced>>
    BY DEF HashInv, HashTypeOK, SharedRead, Running
  <1>2. fed[a] \in Seq(1..Chunks) /\ n \in Nat /\ offset + 1 \in 1..Chunks
    BY <1>1
  <1>3. /\ fed'[a] = Append(fed[a], offset + 1) /\ fed'[a] \in Seq(1..Chunks)
        /\ Len(fed'[a]) = n + 1
        /\ \A i \in 1..n : fed'[a][i] = fed[a][i]
        /\ fed'[a][n + 1] = offset + 1
    <2>1. fed'[a] = Append(fed[a], offset + 1)
      BY <1>1
    <2> QED BY <2>1, <1>2, HashAppended
  <1>4. \A b \in Alg : b # a => fed'[b] = fed[b]
    BY <1>1
  <1>5. fed' \in [Alg -> Seq(1..Chunks)]
    BY <1>1, <1>2, <1>3
  <1>6. HashTypeOK'
    BY <1>1, <1>2, <1>5 DEF HashInv, HashTypeOK
  <1>7. Within'
    <2> SUFFICES ASSUME NEW b \in Shared, NEW i \in 1..Len(fed'[b])
                 PROVE  fed'[b][i] <= offset + 1
      BY <1>1 DEF Within
    <2>1. CASE b # a
      <3>1. fed'[b] = fed[b] /\ fed[b][i] <= offset /\ fed[b] \in Seq(1..Chunks)
        BY <2>1, <1>1, <1>4 DEF HashInv, Within
      <3> QED BY <3>1, <1>1
    <2>2. CASE b = a
      <3>1. CASE i = n + 1
        BY <3>1, <2>2, <1>1, <1>3
      <3>2. CASE i # n + 1
        <4>1. i \in 1..n
          BY <3>2, <2>2, <1>2, <1>3
        <4>2. fed'[a][i] = fed[a][i] /\ fed[a][i] <= offset /\ fed[a][i] \in 1..Chunks
          BY <4>1, <1>2, <1>3 DEF HashInv, Within
        <4> QED BY <4>2, <2>2, <1>1
      <3> QED BY <3>1, <3>2
    <2> QED BY <2>1, <2>2
  <1>8. \A b \in Shared : \A i \in 1..Len(fed'[b]) :
           \/ b = a /\ i = n + 1 /\ fed'[b][i] = offset + 1
           \/ i \in 1..Len(fed[b]) /\ fed'[b][i] = fed[b][i] /\ fed[b][i] <= offset
              /\ fed[b][i] \in Nat
    <2> SUFFICES ASSUME NEW b \in Shared, NEW i \in 1..Len(fed'[b])
                 PROVE  \/ b = a /\ i = n + 1 /\ fed'[b][i] = offset + 1
                        \/ i \in 1..Len(fed[b]) /\ fed'[b][i] = fed[b][i] /\ fed[b][i] <= offset
                           /\ fed[b][i] \in Nat
      OBVIOUS
    <2>0. fed[b] \in Seq(1..Chunks)
      BY <1>1
    <2>1. CASE b # a
      <3>1. fed'[b] = fed[b]
        BY <2>1, <1>4
      <3>2. i \in 1..Len(fed[b]) /\ fed[b][i] <= offset /\ fed[b][i] \in 1..Chunks
        BY <3>1, <2>0 DEF HashInv, Within
      <3> QED BY <3>1, <3>2
    <2>2. CASE b = a /\ i = n + 1
      BY <2>2, <1>3
    <2>3. CASE b = a /\ i # n + 1
      <3>1. i \in 1..n
        BY <2>3, <1>2, <1>3
      <3>2. fed[b][i] <= offset /\ fed[b][i] \in 1..Chunks
        BY <3>1, <2>3, <2>0 DEF HashInv, Within
      <3> QED BY <3>1, <3>2, <2>3, <1>3
    <2> QED BY <2>1, <2>2, <2>3
  <1>9. ChunkOnce'
    <2> SUFFICES ASSUME NEW b \in Shared, NEW c \in Shared,
                        NEW i \in 1..Len(fed'[b]), NEW j \in 1..Len(fed'[c]),
                        fed'[b][i] = fed'[c][j]
                 PROVE  b = c /\ i = j
      BY DEF ChunkOnce
    <2>1. CASE i \in 1..Len(fed[b]) /\ fed'[b][i] = fed[b][i] /\ j \in 1..Len(fed[c]) /\ fed'[c][j] = fed[c][j]
      <3>1. fed[b][i] = fed[c][j]
        BY <2>1
      <3>2. ChunkOnce
        BY DEF HashInv, SharedOnce
      <3> QED BY <2>1, <3>1, <3>2 DEF ChunkOnce
    <2>2. CASE b = a /\ i = n + 1 /\ fed'[b][i] = offset + 1
      <3>1. ~(fed'[c][j] = fed[c][j] /\ fed[c][j] <= offset /\ fed[c][j] \in Nat)
        BY <2>2, <1>1
      <3>2. c = a /\ j = n + 1
        BY <3>1, <1>8
      <3> QED BY <2>2, <3>2
    <2>3. CASE c = a /\ j = n + 1 /\ fed'[c][j] = offset + 1
      <3>1. ~(fed'[b][i] = fed[b][i] /\ fed[b][i] <= offset /\ fed[b][i] \in Nat)
        BY <2>3, <1>1
      <3>2. b = a /\ i = n + 1
        BY <3>1, <1>8
      <3> QED BY <2>3, <3>2
    <2> QED BY <2>1, <2>2, <2>3, <1>8
  <1>10. FileOrder'
    <2> SUFFICES ASSUME NEW b \in Shared, NEW i \in 1..Len(fed'[b]), NEW j \in 1..Len(fed'[b]), i < j
                 PROVE  fed'[b][i] < fed'[b][j]
      BY DEF FileOrder
    <2>1. CASE b # a
      BY <2>1, <1>4 DEF HashInv, SharedOnce, FileOrder, Alg
    <2>2. CASE b = a /\ j = n + 1
      <3>1. i \in 1..n /\ fed'[b][j] = offset + 1
        BY <2>2, <1>2, <1>3
      <3>2. fed'[b][i] <= offset /\ fed'[b][i] \in Nat
        <4>1. ~(b = a /\ i = n + 1)
          BY <3>1, <1>2
        <4> QED BY <4>1, <1>8
      <3>3. fed'[b][j] = offset + 1 /\ offset \in Nat
        BY <3>1, <1>1
      <3> QED BY <3>2, <3>3
    <2>3. CASE b = a /\ j # n + 1
      <3>1. i \in 1..n /\ j \in 1..n
        BY <2>3, <1>2, <1>3
      <3> QED BY <3>1, <2>3, <1>3 DEF HashInv, SharedOnce, FileOrder
    <2> QED BY <2>1, <2>2, <2>3
  <1>11. ChunkRead'
    <2> SUFFICES ASSUME NEW k \in 1..(offset + 1)
                 PROVE  \E b \in Shared : \E i \in 1..Len(fed'[b]) : fed'[b][i] = k
      BY <1>1 DEF ChunkRead
    <2>1. CASE k = offset + 1
      <3>1. n + 1 \in 1..Len(fed'[a])
        BY <1>2, <1>3
      <3> QED BY <3>1, <2>1, <1>3
    <2>2. CASE k # offset + 1
      <3>1. k \in 1..offset
        BY <2>2, <1>1
      <3>2. PICK b \in Shared : \E i \in 1..Len(fed[b]) : fed[b][i] = k
        BY <3>1 DEF HashInv, SharedOnce, ChunkRead
      <3>3. PICK i \in 1..Len(fed[b]) : fed[b][i] = k
        BY <3>2
      <3>4. CASE b = a
        <4>1. i \in 1..Len(fed'[a]) /\ fed'[a][i] = k
          BY <3>3, <3>4, <1>2, <1>3
        <4> QED BY <4>1
      <3>5. CASE b # a
        BY <3>3, <3>5, <1>4
      <3> QED BY <3>4, <3>5
    <2> QED BY <2>1, <2>2
  <1>12. FedAll'
    <2>1. \A b \in Own : fed'[b] = fed[b]
      BY <1>4
    <2>2. \A b \in Shared : ~LeftHash(b)
      BY <1>1 DEF HashInv, FedAll
    <2> QED BY <2>1, <2>2, <1>1 DEF HashInv, FedAll, LeftHash
  <1>13. Listed'
    <2>1. ASSUME ~raced, NEW i \in 1..Len(hashes) PROVE hashes[i].alg # a /\ hashes[i].alg \in Alg
      <3>1. hashes[i].alg \in Alg
        BY EntryTyped DEF HashInv
      <3>2. hashSt[hashes[i].alg] = "done"
        BY <2>1 DEF HashInv, Listed
      <3> QED BY <3>1, <3>2, <1>1
    <2> QED BY <2>1, <1>1, <1>4 DEF HashInv, Listed
  <1>14. Ended'
    BY <1>1 DEF HashInv, Ended
  <1> QED BY <1>6, <1>7, <1>9, <1>10, <1>11, <1>12, <1>13, <1>14 DEF HashInv, SharedOnce

-----------------------------------------------------------------------------
\* A goroutine goes on from one state to another; nothing but its own changes.
LEMMA MovesTo ==
    ASSUME HashTypeOK, NEW a \in Alg, NEW st, Moves(a, st)
    PROVE  hashSt'[a] = st /\ \A b \in Alg : b # a => hashSt'[b] = hashSt[b]
  BY DEF HashTypeOK, Moves

\* The end of the shared file, found by one of its readers.
LEMMA EofStep ==
    ASSUME HashInv, NEW a \in Shared, SharedEof(a)
    PROVE  HashInv'
  <1>1. /\ a \in Alg /\ hashSt[a] = "read" /\ offset = Chunks /\ hashMain = "wait"
        /\ hashSt' = [hashSt EXCEPT ![a] = "append"]
        /\ UNCHANGED <<hashMain, offset, fed, hashes, raced>>
    BY AlgParts DEF SharedEof, Running, Moves
  <1>2. HashTypeOK /\ hashSt'[a] = "append" /\ \A b \in Alg : b # a => hashSt'[b] = hashSt[b]
    BY MovesTo, AlgParts DEF HashInv, SharedEof
  <1>3. HashTypeOK'
    BY <1>1 DEF HashInv, HashTypeOK
  <1>4. Within' /\ SharedOnce' /\ Ended'
    BY <1>1 DEF HashInv, Within, SharedOnce, ChunkOnce, FileOrder, ChunkRead, Ended
  <1>5. FedAll'
    BY <1>1, <1>2, AlgParts DEF HashInv, FedAll, LeftHash
  <1>6. Listed'
    <2>1. ASSUME ~raced, NEW i \in 1..Len(hashes) PROVE hashes[i].alg # a /\ hashes[i].alg \in Alg
      <3>1. hashes[i].alg \in Alg
        BY EntryTyped DEF HashInv
      <3>2. hashSt[hashes[i].alg] = "done"
        BY <2>1 DEF HashInv, Listed
      <3> QED BY <3>1, <3>2, <1>1
    <2> QED BY <2>1, <1>1, <1>2 DEF HashInv, Listed
  <1> QED BY <1>3, <1>4, <1>5, <1>6 DEF HashInv

\* A goroutine with a file of its own.
LEMMA OwnStep ==
    ASSUME HashInv, NEW a \in Own, OwnHash(a)
    PROVE  HashInv'
  <1>1. /\ a \in Alg /\ a \notin Shared /\ hashSt[a] = "read" /\ hashMain = "wait"
        /\ hashSt' \in [Alg -> {"read", "append", "appending", "done", "failed"}]
        /\ UNCHANGED <<hashMain, offset, hashes, raced>>
    BY AlgParts DEF HashInv, HashTypeOK, OwnHash, Running, Moves
  <1>2. /\ hashSt'[a] \in {"append", "failed"}
        /\ hashSt'[a] = "append" => fed' = [fed EXCEPT ![a] = WholeFile]
        /\ hashSt'[a] = "failed" => fed' = fed
        /\ \A b \in Alg : b # a => hashSt'[b] = hashSt[b]
    BY MovesTo, AlgParts DEF HashInv, OwnHash
  <1>3. /\ fed \in [Alg -> Seq(1..Chunks)] /\ fed' \in [Alg -> Seq(1..Chunks)]
        /\ \A b \in Alg : b # a => fed'[b] = fed[b]
        /\ hashSt'[a] = "append" => fed'[a] = WholeFile
    BY <1>1, <1>2, WholeFileSeq DEF HashInv, HashTypeOK
  <1>4. HashTypeOK'
    BY <1>1, <1>3 DEF HashInv, HashTypeOK
  <1>5. \A b \in Shared : fed'[b] = fed[b]
    BY <1>1, <1>3, AlgParts
  <1>6. Within' /\ Ended'
    BY <1>1, <1>5 DEF HashInv, Within, Ended
  <1>7. SharedOnce'
    BY <1>1, <1>5 DEF HashInv, SharedOnce, ChunkOnce, FileOrder, ChunkRead
  <1>8. FedAll'
    BY <1>1, <1>2, <1>3, <1>5, AlgParts DEF HashInv, FedAll, LeftHash
  <1>9. Listed'
    <2>1. ASSUME ~raced, NEW i \in 1..Len(hashes) PROVE hashes[i].alg # a /\ hashes[i].alg \in Alg
      <3>1. hashes[i].alg \in Alg
        BY EntryTyped DEF HashInv
      <3>2. hashSt[hashes[i].alg] = "done"
        BY <2>1 DEF HashInv, Listed
      <3> QED BY <3>1, <3>2, <1>1
    <2>2. ASSUME ~raced, NEW i \in 1..Len(hashes)
          PROVE  hashSt'[hashes[i].alg] = "done" /\ hashes[i].of = fed'[hashes[i].alg]
      <3>1. hashSt[hashes[i].alg] = "done" /\ hashes[i].of = fed[hashes[i].alg]
        BY <2>2 DEF HashInv, Listed
      <3> QED BY <3>1, <2>1, <2>2, <1>2, <1>3
    <2>3. ASSUME ~raced, NEW b \in Alg, hashSt'[b] = "done"
          PROVE  \E i \in 1..Len(hashes) : hashes[i].alg = b
      <3>1. hashSt[b] = "done"
        BY <2>3, <1>2
      <3> QED BY <2>3, <3>1 DEF HashInv, Listed
    <2>4. ~raced => \A i, j \in 1..Len(hashes) : hashes[i].alg = hashes[j].alg => i = j
      BY DEF HashInv, Listed
    <2>5. hashes' = hashes /\ raced' = raced
      BY <1>1
    <2> QED BY <2>2, <2>3, <2>4, <2>5 DEF Listed
  <1> QED BY <1>4, <1>6, <1>7, <1>8, <1>9 DEF HashInv

\* A goroutine begins to append its entry; from two that meet on, it is a race.
LEMMA AppendBeginStep ==
    ASSUME HashInv, NEW a \in Alg, AppendBegin(a)
    PROVE  HashInv'
  <1>1. /\ hashSt[a] = "append" /\ hashMain = "wait" /\ (raced => raced')
        /\ hashSt' = [hashSt EXCEPT ![a] = "appending"]
        /\ hashes' = IF raced' THEN <<>> ELSE hashes
        /\ raced' \in BOOLEAN
        /\ UNCHANGED <<hashMain, offset, fed>>
    BY DEF HashInv, HashTypeOK, AppendBegin, Running, Moves
  <1>2. HashTypeOK /\ hashSt'[a] = "appending" /\ \A b \in Alg : b # a => hashSt'[b] = hashSt[b]
    BY MovesTo DEF HashInv, AppendBegin
  <1>3. HashTypeOK'
    BY <1>1 DEF HashInv, HashTypeOK
  <1>4. Within' /\ SharedOnce' /\ Ended'
    BY <1>1 DEF HashInv, Within, SharedOnce, ChunkOnce, FileOrder, ChunkRead, Ended
  <1>5. FedAll'
    BY <1>1, <1>2, AlgParts DEF HashInv, FedAll, LeftHash
  <1>6. ASSUME ~raced' PROVE Listed'
    <2>1. ~raced /\ hashes' = hashes /\ fed' = fed
      BY <1>1, <1>6
    <2>2. \A i \in 1..Len(hashes) : hashes[i].alg # a /\ hashes[i].alg \in Alg
      <3> TAKE i \in 1..Len(hashes)
      <3>1. hashes[i].alg \in Alg
        BY EntryTyped DEF HashInv
      <3>2. hashSt[hashes[i].alg] = "done"
        BY <2>1 DEF HashInv, Listed
      <3> QED BY <3>1, <3>2, <1>1
    <2> QED BY <2>1, <2>2, <1>2 DEF HashInv, Listed
  <1> QED BY <1>3, <1>4, <1>5, <1>6 DEF HashInv, Listed

\* A goroutine ends its append.
LEMMA AppendEndStep ==
    ASSUME HashInv, NEW a \in Alg, AppendEnd(a)
    PROVE  HashInv'
  <1> DEFINE x == [alg |-> a, of |-> fed[a]]
             n == Len(hashes)
  <1>1. /\ hashSt[a] = "appending" /\ hashMain = "wait"
        /\ hashSt' = [hashSt EXCEPT ![a] = "done"]
        /\ hashes' = IF raced THEN <<>> ELSE Append(hashes, x)
        /\ UNCHANGED <<hashMain, offset, fed, raced>>
    BY DEF AppendEnd, Running, Moves
  <1>2. HashTypeOK /\ hashSt'[a] = "done" /\ \A b \in Alg : b # a => hashSt'[b] = hashSt[b]
    BY MovesTo DEF HashInv, AppendEnd
  <1>3. /\ x \in [alg : Alg, of : Seq(1..Chunks)] /\ x.alg = a /\ x.of = fed[a]
        /\ hashes \in Seq([alg : Alg, of : Seq(1..Chunks)]) /\ n \in Nat
    BY <1>2 DEF HashTypeOK
  <1>4. /\ Append(hashes, x) \in Seq([alg : Alg, of : Seq(1..Chunks)])
        /\ Len(Append(hashes, x)) = n + 1
        /\ \A i \in 1..n : Append(hashes, x)[i] = hashes[i]
        /\ Append(hashes, x)[n + 1] = x
    BY <1>3, HashAppended
  <1>5. HashTypeOK'
    <2>1. <<>> \in Seq([alg : Alg, of : Seq(1..Chunks)])
      BY SeqOfNone
    <2>2. hashes' \in Seq([alg : Alg, of : Seq(1..Chunks)])
      BY <1>1, <1>4, <2>1
    <2>3. hashSt' \in [Alg -> {"read", "append", "appending", "done", "failed"}]
      BY <1>1, <1>2 DEF HashTypeOK
    <2> QED BY <1>1, <1>2, <2>2, <2>3 DEF HashTypeOK
  <1>6. Within' /\ SharedOnce' /\ Ended'
    BY <1>1 DEF HashInv, Within, SharedOnce, ChunkOnce, FileOrder, ChunkRead, Ended
  <1>7. FedAll'
    BY <1>1, <1>2, AlgParts DEF HashInv, FedAll, LeftHash
  <1>8. ASSUME ~raced PROVE Listed'
    <2>1. hashes' = Append(hashes, x) /\ fed' = fed
      BY <1>1, <1>8
    <2>2. \A i \in 1..n : /\ hashes'[i] = hashes[i] /\ hashes[i].alg \in Alg /\ hashes[i].alg # a
                          /\ hashes[i].of = fed[hashes[i].alg]
                          /\ hashSt[hashes[i].alg] = "done"
      <3> TAKE i \in 1..n
      <3>1. hashes[i].alg \in Alg
        BY <1>2, EntryTyped
      <3>2. hashSt[hashes[i].alg] = "done" /\ hashes[i].of = fed[hashes[i].alg]
        BY <1>8 DEF HashInv, Listed
      <3> QED BY <3>1, <3>2, <1>1, <1>4, <2>1
    <2>3. hashes'[n + 1] = x /\ Len(hashes') = n + 1
      BY <2>1, <1>4
    <2>4. \A i \in 1..(n + 1) : i \in 1..n \/ i = n + 1
      BY <1>3
    <2>5. \A i \in 1..Len(hashes') : /\ hashSt'[hashes'[i].alg] = "done"
                                     /\ hashes'[i].of = fed'[hashes'[i].alg]
      <3> SUFFICES ASSUME NEW i \in 1..(n + 1)
                   PROVE  /\ hashSt'[hashes'[i].alg] = "done"
                          /\ hashes'[i].of = fed'[hashes'[i].alg]
        BY <2>3
      <3>1. CASE i \in 1..n
        <4> DEFINE b == hashes[i].alg
        <4>1. b \in Alg /\ b # a /\ hashSt[b] = "done" /\ hashes'[i] = hashes[i]
              /\ hashes[i].of = fed[b]
          BY <3>1, <2>2
        <4>2. hashSt'[b] = "done"
          BY <4>1, <1>2
        <4> QED BY <4>1, <4>2, <2>1
      <3>2. CASE i = n + 1
        BY <3>2, <2>1, <2>3, <1>2, <1>3
      <3> QED BY <3>1, <3>2, <2>4
    <2>6. \A i, j \in 1..Len(hashes') : hashes'[i].alg = hashes'[j].alg => i = j
      <3>1. \A i, j \in 1..n : hashes[i].alg = hashes[j].alg => i = j
        BY <1>8 DEF HashInv, Listed
      <3> SUFFICES ASSUME NEW i \in 1..(n + 1), NEW j \in 1..(n + 1),
                          hashes'[i].alg = hashes'[j].alg
                   PROVE  i = j
        BY <2>3
      <3>2. \A k \in 1..n : hashes'[k].alg = hashes[k].alg /\ hashes'[k].alg # a
        BY <2>2
      <3>3. hashes'[n + 1].alg = a
        BY <2>3, <1>3
      <3>4. CASE i \in 1..n /\ j \in 1..n
        BY <3>1, <3>2, <3>4
      <3>5. CASE i = n + 1 \/ j = n + 1
        BY <3>2, <3>3, <3>5, <2>4
      <3> QED BY <3>4, <3>5, <2>4
    <2>7. \A b \in Alg : hashSt'[b] = "done" => \E i \in 1..Len(hashes') : hashes'[i].alg = b
      <3> SUFFICES ASSUME NEW b \in Alg, hashSt'[b] = "done"
                   PROVE  \E i \in 1..Len(hashes') : hashes'[i].alg = b
        OBVIOUS
      <3>1. CASE b = a
        <4>1. n + 1 \in 1..Len(hashes')
          BY <2>3, <1>3
        <4> QED BY <4>1, <3>1, <2>3, <1>3
      <3>2. CASE b # a
        <4>1. PICK i \in 1..n : hashes[i].alg = b
          BY <3>2, <1>2, <1>8 DEF HashInv, Listed
        <4>2. i \in 1..Len(hashes') /\ hashes'[i] = hashes[i]
          BY <4>1, <2>2, <2>3, <1>3
        <4> QED BY <4>1, <4>2
      <3> QED BY <3>1, <3>2
    <2> QED BY <2>5, <2>6, <2>7 DEF Listed
  <1>9. Listed'
    BY <1>8, <1>1 DEF Listed
  <1> QED BY <1>5, <1>6, <1>7, <1>9 DEF HashInv

\* What main does, and an error of a goroutine, leaves the hashes alone.
LEMMA HashMainStep ==
    ASSUME HashInv, \/ OpenFile \/ PrintHashes \/ (\E a \in Shared : SharedFails(a))
                    \/ UNCHANGED hashVars
    PROVE  HashInv'
  <1>1. /\ UNCHANGED <<hashSt, offset, fed, hashes, raced>>
        /\ hashMain' \in {"open", "wait", "printed", "fatal"}
        /\ hashMain' = "printed" => Wait
    BY DEF HashInv, HashTypeOK, Ended, OpenFile, PrintHashes, SharedFails, hashVars
  <1>2. HashTypeOK'
    BY <1>1 DEF HashInv, HashTypeOK
  <1>3. Within' /\ SharedOnce'
    BY <1>1 DEF HashInv, Within, SharedOnce, ChunkOnce, FileOrder, ChunkRead
  <1>4. FedAll' /\ Listed'
    BY <1>1 DEF HashInv, FedAll, LeftHash, Listed
  <1>5. Ended'
    BY <1>1 DEF Ended, Wait, Finished
  <1> QED BY <1>2, <1>3, <1>4, <1>5 DEF HashInv

(* The invariant is inductive.                                             *)
LEMMA HashInvKept == HashInv /\ [HashNext]_hashVars => HashInv'
  <1> SUFFICES ASSUME HashInv, [HashNext]_hashVars PROVE HashInv'
    OBVIOUS
  <1>1. ASSUME NEW a \in Shared, SharedRead(a) PROVE HashInv'
    BY <1>1, ReadStep
  <1>2. ASSUME NEW a \in Shared, SharedEof(a) PROVE HashInv'
    BY <1>2, EofStep
  <1>3. ASSUME NEW a \in Own, OwnHash(a) PROVE HashInv'
    BY <1>3, OwnStep
  <1>4. ASSUME NEW a \in Alg, AppendBegin(a) PROVE HashInv'
    BY <1>4, AppendBeginStep
  <1>5. ASSUME NEW a \in Alg, AppendEnd(a) PROVE HashInv'
    BY <1>5, AppendEndStep
  <1>6. CASE \/ OpenFile \/ PrintHashes \/ (\E a \in Shared : SharedFails(a))
             \/ UNCHANGED hashVars
    BY <1>6, HashMainStep
  <1> QED BY <1>1, <1>2, <1>3, <1>4, <1>5, <1>6 DEF HashNext

\* The inductive invariant: typing, shares of the file, and who is printed.
THEOREM HashInvHolds == HashSpec => []HashInv
  <1>1. HashInit => HashInv
    BY HashBegins
  <1>2. HashInv /\ [HashNext]_hashVars => HashInv'
    BY HashInvKept
  <1> QED BY <1>1, <1>2, PTL DEF HashSpec

(* Of the algorithms that share the open file (main.go:98-135) at most one *)
(* has hashed all of a file that is not empty: with three of them, two of  *)
(* the hashes printed are not the file's, in every run.                    *)
AtMostOneWhole ==
    \A a, b \in Shared : fed[a] = WholeFile /\ fed[b] = WholeFile => a = b
THEOREM AtMostOneWholeHolds == Chunks > 0 => (HashSpec => []AtMostOneWhole)
  <1> SUFFICES ASSUME Chunks > 0 PROVE HashSpec => []AtMostOneWhole
    OBVIOUS
  <1>1. HashInv => AtMostOneWhole
    <2> SUFFICES ASSUME HashInv, NEW a \in Shared, NEW b \in Shared,
                        fed[a] = WholeFile, fed[b] = WholeFile
                 PROVE  a = b
      BY DEF AtMostOneWhole
    <2>1. Len(WholeFile) = Chunks /\ 1 \in 1..Chunks
      BY HashAssumption DEF WholeFile
    <2>2. 1 \in 1..Len(fed[a]) /\ 1 \in 1..Len(fed[b]) /\ fed[a][1] = fed[b][1]
      BY <2>1
    <2> QED BY <2>2 DEF HashInv, SharedOnce, ChunkOnce
  <1> QED BY <1>1, HashInvHolds, PTL

(* What is printed, when no two appends met, has one entry of every        *)
(* algorithm that did not fail (main.go:96-167).                           *)
THEOREM PrintedOnceHolds == HashSpec => []PrintedOnce
  <1>1. HashInv => PrintedOnce
    <2> SUFFICES ASSUME HashInv, hashMain = "printed", ~raced
                 PROVE  /\ \A a \in Alg : hashSt[a] # "failed" =>
                              \E i \in 1..Len(hashes) :
                                 /\ EntryOf(a, i)
                                 /\ a \in Own => hashes[i].of = WholeFile
                                 /\ \A j \in 1..Len(hashes) : hashes[j].alg = a => i = j
                        /\ \A i \in 1..Len(hashes) : hashSt[hashes[i].alg] = "done"
                        /\ offset = Chunks
      BY DEF PrintedOnce
    <2>1. \A a \in Alg : hashSt[a] \in {"done", "failed"}
      BY DEF HashInv, Ended, Wait, Finished
    <2>2. HashTypeOK /\ Listed /\ FedAll
      BY DEF HashInv
    <2>3. ASSUME NEW a \in Alg, hashSt[a] # "failed"
          PROVE  \E i \in 1..Len(hashes) :
                    /\ EntryOf(a, i)
                    /\ a \in Own => hashes[i].of = WholeFile
                    /\ \A j \in 1..Len(hashes) : hashes[j].alg = a => i = j
      <3>1. PICK i \in 1..Len(hashes) : hashes[i].alg = a
        BY <2>1, <2>2, <2>3 DEF Listed
      <3>2. hashes[i].of = fed[a] /\ \A j \in 1..Len(hashes) : hashes[j].alg = a => i = j
        BY <3>1, <2>2 DEF Listed
      <3>3. hashes[i] \in [alg : Alg, of : Seq(1..Chunks)]
        BY <2>2, EntryTyped
      <3>4. EntryOf(a, i)
        BY <3>1, <3>2, <3>3 DEF EntryOf
      <3>5. a \in Own => fed[a] = WholeFile
        BY <2>1, <2>2, <2>3 DEF FedAll, LeftHash
      <3> QED BY <3>2, <3>4, <3>5
    <2>4. \A i \in 1..Len(hashes) : hashSt[hashes[i].alg] = "done"
      BY <2>2 DEF Listed
    <2>5. offset = Chunks
      <3>1. PICK a \in Shared : a \in Alg
        BY HashAssumption, AlgParts
      <3> QED BY <3>1, <2>1, <2>2 DEF FedAll, LeftHash
    <2> QED BY <2>3, <2>4, <2>5
  <1> QED BY <1>1, HashInvHolds, PTL
=============================================================================
