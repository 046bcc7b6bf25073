--------------------------- MODULE SiemsendProof ---------------------------
(***************************************************************************)
(* For any input files, any batch size, any failures and any number of     *)
(* runs: sentinel's batch is bounded and its lines are kept, opensearch    *)
(* numbers documents by line, and elastic accounts for what it read.       *)
(*                                                                         *)
(* The batch printed is a fold over its lines; what it holds is shown by   *)
(* induction, from the least number without the property (Least).          *)
(***************************************************************************)
EXTENDS Siemsend, FiniteSetTheorems, WellFoundedInduction, TLAPS

-----------------------------------------------------------------------------
(* Induction over the numbers in a set.                                    *)
LEMMA Least ==
    ASSUME NEW T \in SUBSET Nat, T # {}
    PROVE  \E m \in T : \A k \in T : m <= k
  <1>1. PICK m \in T : \A k \in T : <<k, m>> \notin OpToRel(<, Nat)
    BY WFMin, NatLessThanWellFounded, Zenon
  <1>2. ASSUME NEW k \in T, k < m PROVE FALSE
    <2>1. <<k, m>> \in Nat \X Nat /\ <<k, m>>[1] < <<k, m>>[2]
      BY <1>2
    <2>2. <<k, m>> \in OpToRel(<, Nat)
      BY <2>1, Zenon DEF OpToRel
    <2> QED BY <1>1, <2>2
  <1>3. \A k \in T : m <= k
    BY <1>2
  <1> QED BY <1>3

\* Induction, for a set of numbers.
LEMMA Induct ==
    ASSUME NEW S, NEW n \in Nat, 0 \in S, \A k \in 0..(n - 1) : k \in S => k + 1 \in S
    PROVE  0..n \subseteq S
  <1> DEFINE T == (0..n) \ S
  <1> SUFFICES ASSUME T # {} PROVE FALSE
    OBVIOUS
  <1>1. PICK m \in T : \A k \in T : m <= k
    <2>1. T \in SUBSET Nat
      OBVIOUS
    <2> HIDE DEF T
    <2> QED BY <2>1, Least
  <1>2. m - 1 \in 0..(n - 1) /\ m - 1 \notin T
    BY <1>1
  <1> QED BY <1>2

-----------------------------------------------------------------------------
(* Putting the sequences of a sequence together. *)

\* Step by step: after i of them.
Flattens(f, s, n) == f = [i \in 1..n |-> IF i = 1 THEN s[i] ELSE f[i - 1] \o s[i]]

\* A function that joins the parts exists for every number of them.
LEMMA FlattenExists ==
    ASSUME NEW s, NEW n \in Nat
    PROVE  \E f : Flattens(f, s, n)
  <1> DEFINE S == {m \in 0..n : \E f : Flattens(f, s, m)}
  <1>1. 0 \in S
    <2>1. Flattens([i \in {} |-> 0], s, 0)
      BY DEF Flattens
    <2> QED BY <2>1
  <1>2. ASSUME NEW m \in 0..(n - 1), m \in S PROVE m + 1 \in S
    <2>1. PICK f : Flattens(f, s, m)
      BY <1>2
    <2> DEFINE g == [i \in 1..(m + 1) |-> IF i <= m THEN f[i] ELSE IF i = 1 THEN s[i] ELSE f[m] \o s[i]]
    <2>2. \A i \in 1..m : f[i] = IF i = 1 THEN s[i] ELSE f[i - 1] \o s[i]
      BY <2>1 DEF Flattens
    <2>3. \A i \in 1..(m + 1) : g[i] = IF i = 1 THEN s[i] ELSE g[i - 1] \o s[i]
      <3> TAKE i \in 1..(m + 1)
      <3>1. CASE i <= m
        <4>1. i = 1 \/ (i - 1 \in 1..(m + 1) /\ i - 1 <= m)
          BY <3>1
        <4> QED BY <2>2, <3>1, <4>1
      <3>2. CASE i = m + 1
        <4>1. i = 1 \/ (i - 1 = m /\ m \in 1..(m + 1))
          BY <3>2
        <4> QED BY <3>2, <4>1
      <3> QED BY <3>1, <3>2
    <2>4. g = [i \in 1..(m + 1) |-> IF i = 1 THEN s[i] ELSE g[i - 1] \o s[i]]
      BY <2>3
    <2>5. Flattens(g, s, m + 1)
      BY <2>4 DEF Flattens
    <2>6. m + 1 \in 0..n
      OBVIOUS
    <2> QED BY <2>5, <2>6
  <1>3. 0..n \subseteq S
    <2> HIDE DEF S
    <2> QED BY <1>1, <1>2, Induct
  <1> QED BY <1>3

\* FlattenSeq is that function.
LEMMA FlattenIs ==
    ASSUME NEW s, NEW n \in Nat \ {0}, Len(s) = n
    PROVE  \E f : Flattens(f, s, n) /\ FlattenSeq(s) = f[n]
  <1> DEFINE g == CHOOSE f : Flattens(f, s, n)
  <1>1. Flattens(g, s, n)
    BY FlattenExists
  <1>2. FlattenSeq(s) = g[n]
    BY DEF FlattenSeq, Flattens
  <1> QED BY <1>1, <1>2

\* An element of a sequence is at one of its places.
LEMMA RangeIs ==
    ASSUME NEW T, NEW s \in Seq(T)
    PROVE  \A x : x \in Range(s) <=> \E i \in 1..Len(s) : x = s[i]
  BY DEF Range

\* What is in two sequences joined is in one of them.
LEMMA RangeOfTwo ==
    ASSUME NEW T, NEW s \in Seq(T), NEW r \in Seq(T)
    PROVE  \A x : x \in Range(s \o r) <=> x \in Range(s) \/ x \in Range(r)
  <1> TAKE x
  <1>1. s \o r \in Seq(T) /\ Len(s \o r) = Len(s) + Len(r)
    OBVIOUS
  <1>2. ASSUME NEW i \in 1..Len(s \o r)
        PROVE  (s \o r)[i] = IF i <= Len(s) THEN s[i] ELSE r[i - Len(s)]
    OBVIOUS
  <1>3. ASSUME x \in Range(s \o r) PROVE x \in Range(s) \/ x \in Range(r)
    <2>1. PICK i \in 1..Len(s \o r) : x = (s \o r)[i]
      BY <1>1, <1>3, RangeIs
    <2>2. i <= Len(s) => i \in 1..Len(s)
      BY <1>1
    <2>3. ~(i <= Len(s)) => i - Len(s) \in 1..Len(r)
      BY <1>1
    <2> QED BY <1>2, <2>1, <2>2, <2>3, RangeIs
  <1>4. ASSUME x \in Range(s) PROVE x \in Range(s \o r)
    <2>1. PICK i \in 1..Len(s) : x = s[i]
      BY <1>4, RangeIs
    <2>2. i \in 1..Len(s \o r) /\ i <= Len(s)
      BY <1>1
    <2> QED BY <1>1, <1>2, <2>1, <2>2, RangeIs
  <1>5. ASSUME x \in Range(r) PROVE x \in Range(s \o r)
    <2>1. PICK i \in 1..Len(r) : x = r[i]
      BY <1>5, RangeIs
    <2>2. i + Len(s) \in 1..Len(s \o r) /\ ~(i + Len(s) <= Len(s)) /\ (i + Len(s)) - Len(s) = i
      BY <1>1
    <2> QED BY <1>1, <1>2, <2>1, <2>2, RangeIs
  <1> QED BY <1>3, <1>4, <1>5

\* What is in a sequence with one more is in it or is the one.
LEMMA RangeOfAppend ==
    ASSUME NEW T, NEW s \in Seq(T), NEW e \in T
    PROVE  \A x : x \in Range(Append(s, e)) <=> x \in Range(s) \/ x = e
  <1>1. <<e>> \in Seq(T) /\ Append(s, e) = s \o <<e>> /\ Range(<<e>>) = {e}
    BY DEF Range
  <1> QED BY <1>1, RangeOfTwo

\* What is in the result: what is in one of the sequences.
LEMMA FlattenHolds ==
    ASSUME NEW T, NEW s \in Seq(Seq(T))
    PROVE  /\ FlattenSeq(s) \in Seq(T)
           /\ \A x : x \in Range(FlattenSeq(s)) <=> \E i \in 1..Len(s) : x \in Range(s[i])
  <1>1. CASE Len(s) = 0
    <2>1. FlattenSeq(s) = <<>>
      BY <1>1 DEF FlattenSeq
    <2>2. <<>> \in Seq(T) /\ Len(<<>>) = 0
      OBVIOUS
    <2>3. \A x : x \notin Range(<<>>)
      BY DEF Range
    <2> QED BY <1>1, <2>1, <2>2, <2>3
  <1>2. CASE Len(s) # 0
    <2> DEFINE n == Len(s)
    <2>1. n \in Nat \ {0}
      BY <1>2
    <2>2. PICK f : Flattens(f, s, n) /\ FlattenSeq(s) = f[n]
      BY <2>1, FlattenIs
    <2> DEFINE Good(m) == /\ f[m] \in Seq(T)
                          /\ \A x : x \in Range(f[m]) <=> \E i \in 1..m : x \in Range(s[i])
               S == {m \in 0..n : m = 0 \/ Good(m)}
    <2>3. ASSUME NEW m \in 0..(n - 1), m \in S PROVE m + 1 \in S
      <3>1. f[m + 1] = IF m = 0 THEN s[1] ELSE f[m] \o s[m + 1]
        <4>1. m + 1 \in 1..n /\ (m + 1) - 1 = m /\ (m + 1 = 1 <=> m = 0)
          OBVIOUS
        <4> HIDE DEF n
        <4> QED BY <4>1, <2>2 DEF Flattens
      <3>2. s[m + 1] \in Seq(T)
        OBVIOUS
      <3>3. CASE m = 0
        <4>1. \A i \in 1..(m + 1) : i = 1
          BY <3>3
        <4> QED BY <3>1, <3>2, <3>3, <4>1
      <3>4. CASE m # 0
        <4>1. Good(m)
          BY <2>3, <3>4
        <4>2. f[m + 1] = f[m] \o s[m + 1]
          BY <3>1, <3>4
        <4>3. f[m + 1] \in Seq(T)
          BY <3>2, <4>1, <4>2
        <4>4. \A x : x \in Range(f[m + 1]) <=> x \in Range(f[m]) \/ x \in Range(s[m + 1])
          BY <3>2, <4>1, <4>2, RangeOfTwo
        <4>5. \A i : i \in 1..(m + 1) <=> i \in 1..m \/ i = m + 1
          OBVIOUS
        <4>6. \A x : x \in Range(f[m + 1]) <=> \E i \in 1..(m + 1) : x \in Range(s[i])
          BY <4>1, <4>4, <4>5
        <4>7. m + 1 \in 0..n
          OBVIOUS
        <4> QED BY <4>3, <4>6, <4>7
      <3> QED BY <3>3, <3>4
    <2>4. 0..n \subseteq S
      <3>1. 0 \in S /\ n \in Nat
        OBVIOUS
      <3> HIDE DEF S, n
      <3> QED BY <2>3, <3>1, Induct
    <2>5. Good(n)
      <3>1. n \in 0..n
        OBVIOUS
      <3> HIDE DEF Good, n
      <3>2. n \in S
        BY <2>4, <3>1
      <3> QED BY <2>1, <3>2
    <2> QED BY <2>2, <2>5
  <1> QED BY <1>1, <1>2

\* What PrintBatch prints of one line, and of a batch.
Pieces(t) == IF kind[t[1]] = "nested" /\ t[2] = "whole"
             THEN <<<<t[1], "left">>, <<t[1], "right">>>> ELSE <<t>>

\* A text is a line and what there is of it.
LEMMA TextIs ==
    \A t \in Text : /\ t[1] \in Line /\ t[2] \in Parts /\ t = <<t[1], t[2]>>
                    /\ <<t[1], "whole">> \in Text /\ <<t[1], "left">> \in Text
                    /\ <<t[1], "right">> \in Text
  BY DEF Text, Parts

\* The parts a line is cut into.
LEMMA PiecesAre ==
    ASSUME NEW t \in Text
    PROVE  /\ Pieces(t) \in Seq(Text)
           /\ \A x : x \in Range(Pieces(t)) <=>
                 IF kind[t[1]] = "nested" /\ t[2] = "whole"
                 THEN x = <<t[1], "left">> \/ x = <<t[1], "right">> ELSE x = t
  <1>1. CASE kind[t[1]] = "nested" /\ t[2] = "whole"
    <2> DEFINE a == <<t[1], "left">>
               b == <<t[1], "right">>
    <2>1. Pieces(t) = <<a, b>> /\ a \in Text /\ b \in Text
      BY <1>1, TextIs DEF Pieces
    <2> HIDE DEF a, b
    <2>2. <<a, b>> \in Seq(Text) /\ Len(<<a, b>>) = 2 /\ <<a, b>>[1] = a /\ <<a, b>>[2] = b
      BY <2>1
    <2>3. \A x : x \in Range(<<a, b>>) <=> x = a \/ x = b
      BY <2>2 DEF Range
    <2> QED BY <1>1, <2>1, <2>2, <2>3 DEF a, b
  <1>2. CASE ~(kind[t[1]] = "nested" /\ t[2] = "whole")
    <2>1. Pieces(t) = <<t>> /\ <<t>> \in Seq(Text) /\ Len(<<t>>) = 1 /\ <<t>>[1] = t
      BY <1>2 DEF Pieces
    <2>2. \A x : x \in Range(<<t>>) <=> x = t
      BY <2>1 DEF Range
    <2> QED BY <1>2, <2>1, <2>2
  <1> QED BY <1>1, <1>2

\* What is printed of a batch is the parts of its texts.
LEMMA PrintedHolds ==
    ASSUME NEW b \in Seq(Text)
    PROVE  /\ Printed(b) \in Seq(Text)
           /\ \A x : x \in Range(Printed(b)) <=> \E i \in 1..Len(b) : x \in Range(Pieces(b[i]))
  <1> DEFINE s == [i \in 1..Len(b) |-> Pieces(b[i])]
  <1>1. Printed(b) = FlattenSeq(s)
    BY DEF Printed, Pieces
  <1>2. \A i \in 1..Len(b) : Pieces(b[i]) \in Seq(Text)
    BY PiecesAre
  <1>3. s \in Seq(Seq(Text)) /\ Len(s) = Len(b) /\ \A i \in 1..Len(b) : s[i] = Pieces(b[i])
    <2> HIDE DEF Pieces
    <2>1. Len(b) \in Nat
      OBVIOUS
    <2> QED BY <1>2, <2>1
  <1> HIDE DEF s
  <1> QED BY <1>1, <1>3, FlattenHolds

(* Documents: one more, or one put in the place of another.                *)
LEMMA PutDocHolds ==
    ASSUME NEW s \in Seq(Doc), NEW id \in Nat, NEW t \in Text
    PROVE  /\ PutDoc(s, id, t) \in Seq(Doc)
           /\ \A i \in 1..Len(PutDoc(s, id, t)) : LET d == PutDoc(s, id, t)[i] IN
                 d = [id |-> id, text |-> t] \/ (i \in 1..Len(s) /\ d = s[i])
           /\ \A i \in 1..Len(s) : s[i].id # id =>
                 i \in 1..Len(PutDoc(s, id, t)) /\ PutDoc(s, id, t)[i] = s[i]
  <1> DEFINE doc == [id |-> id, text |-> t]
  <1>1. doc \in Doc
    BY DEF Doc
  <1> HIDE DEF doc
  <1>2. CASE \E i \in 1..Len(s) : s[i].id = id
    <2> DEFINE r == [i \in 1..Len(s) |-> IF s[i].id = id THEN doc ELSE s[i]]
    <2>1. PutDoc(s, id, t) = r
      BY <1>2 DEF PutDoc, doc
    <2>2. Len(s) \in Nat /\ \A i \in 1..Len(s) : s[i] \in Doc
      OBVIOUS
    <2>3. r \in Seq(Doc) /\ Len(r) = Len(s)
      BY <1>1, <2>2
    <2> QED BY <2>1, <2>3 DEF doc
  <1>3. CASE ~\E i \in 1..Len(s) : s[i].id = id
    <2>1. PutDoc(s, id, t) = Append(s, doc)
      BY <1>3 DEF PutDoc, doc
    <2>2. /\ Append(s, doc) \in Seq(Doc) /\ Len(Append(s, doc)) = Len(s) + 1
          /\ Append(s, doc)[Len(s) + 1] = doc
          /\ \A i \in 1..Len(s) : Append(s, doc)[i] = s[i]
      BY <1>1
    <2> QED BY <2>1, <2>2 DEF doc
  <1> QED BY <1>2, <1>3

\* Documents of a batch are its lines, with no number of their own.
LEMMA DocsHolds ==
    ASSUME NEW b \in Seq(Text)
    PROVE  /\ Docs(b) \in Seq(Doc) /\ Len(Docs(b)) = Len(b)
           /\ \A i \in 1..Len(b) : Docs(b)[i].id = AutoId /\ Docs(b)[i].text = b[i]
  <1>1. \A i \in 1..Len(b) : [id |-> AutoId, text |-> b[i]] \in Doc
    BY DEF Doc, AutoId
  <1>2. Len(b) \in Nat
    OBVIOUS
  <1> QED BY <1>1, <1>2 DEF Docs

\* The lines of a file, each whole.
LEMMA WholeHolds ==
    ASSUME NEW k \in 1..Len(Files)
    PROVE  /\ Whole(Files[k]) \in Seq(Text) /\ Len(Whole(Files[k])) = Len(Files[k])
           /\ Len(Files[k]) \in Nat
           /\ \A i \in 1..Len(Files[k]) : Whole(Files[k])[i] = <<Files[k][i], "whole">>
  <1>1. Files[k] \in Seq(Nat) /\ Len(Files[k]) \in Nat /\ k \in DOMAIN Files
    BY SiemAssumption
  <1>2. \A i \in 1..Len(Files[k]) : Files[k][i] \in Range(Files[k])
    BY <1>1, RangeIs
  <1>3. \A i \in 1..Len(Files[k]) : <<Files[k][i], "whole">> \in Text
    BY <1>1, <1>2 DEF Text, Parts, Line
  <1> QED BY <1>1, <1>3 DEF Whole

\* What is in a file is a line.
LEMMA LineOfFile ==
    \A k \in 1..Len(Files) : \A i \in 1..Len(Files[k]) : Files[k][i] \in Line
  <1> TAKE k \in 1..Len(Files)
  <1>1. Files[k] \in Seq(Nat) /\ k \in DOMAIN Files
    BY SiemAssumption
  <1> QED BY <1>1, RangeIs DEF Line

\* Removing a place leaves the others in order.
LEMMA RemoveHolds ==
    ASSUME NEW T, NEW b \in Seq(T), NEW i \in 1..Len(b)
    PROVE  /\ RemoveAt(b, i) \in Seq(T) /\ Len(RemoveAt(b, i)) = Len(b) - 1
           /\ \A j \in 1..(Len(b) - 1) : RemoveAt(b, i)[j] = IF j < i THEN b[j] ELSE b[j + 1]
  <1> DEFINE p == SubSeq(b, 1, i - 1)
             r == SubSeq(b, i + 1, Len(b))
  <1>1. p \in Seq(T) /\ Len(p) = i - 1 /\ \A j \in 1..(i - 1) : p[j] = b[j]
    OBVIOUS
  <1>2. r \in Seq(T) /\ Len(r) = Len(b) - i /\ \A j \in 1..(Len(b) - i) : r[j] = b[i + j]
    OBVIOUS
  <1>3. RemoveAt(b, i) = p \o r
    BY DEF RemoveAt
  <1> HIDE DEF p, r
  <1>4. p \o r \in Seq(T) /\ Len(p \o r) = Len(b) - 1
    BY <1>1, <1>2
  <1>5. ASSUME NEW j \in 1..(Len(b) - 1)
        PROVE  (p \o r)[j] = IF j < i THEN b[j] ELSE b[j + 1]
    <2>1. (p \o r)[j] = IF j <= Len(p) THEN p[j] ELSE r[j - Len(p)]
      BY <1>1, <1>2, <1>4
    <2>2. j < i => j \in 1..(i - 1)
      OBVIOUS
    <2>3. ~(j < i) => j - (i - 1) \in 1..(Len(b) - i) /\ i + (j - (i - 1)) = j + 1
      OBVIOUS
    <2> QED BY <1>1, <1>2, <2>1, <2>2, <2>3
  <1> QED BY <1>3, <1>4, <1>5

-----------------------------------------------------------------------------
(* Types, and where each sub-command can be.                               *)
States == [sentinel |-> {"scan", "send", "flush", "ended"},
           opensearch |-> {"create", "scan", "ended", "fatal", "panic"},
           elastic |-> {"create", "scan", "close", "ended", "fatal"},
           splunk |-> {"scan", "fatal"}]

Placed ==
    /\ cmd \in {"sentinel", "opensearch", "elastic", "splunk"} /\ pc \in States[cmd]
    /\ by # <<>> /\ (out # <<>> => "sentinel" \in Commands)

\* sentinel's counter and batch, and that only the end of what it can read
\* ends its loop; the same of elastic's.
Counted ==
    /\ cmd = "sentinel" =>
          /\ pc = "ended" => batch = <<>>
          /\ pc # "ended" => cnt = Len(batch)
          /\ pc # "ended" /\ BatchSize > 0 => cnt <= BatchSize /\ (pc = "scan" => cnt < BatchSize)
          /\ pc \in {"flush", "ended"} => ~MoreLines
    /\ cmd = "elastic" =>
          /\ pc = "ended" => batch = <<>>
          /\ pc \in {"close", "ended"} => ~MoreLines

SiemBase == TypeOK /\ Placed /\ Counted

\* Reading takes the first of what is to come.
LEMMA NextLine ==
    ASSUME TypeOK, stdin # <<>>
    PROVE  /\ Head(stdin) \in Text /\ Head(stdin) = stdin[1]
           /\ Tail(stdin) \in Seq(Text) /\ Len(Tail(stdin)) = Len(stdin) - 1 /\ Len(stdin) \in Nat
           /\ \A p \in 1..Len(Tail(stdin)) : Tail(stdin)[p] = stdin[p + 1]
  BY DEF TypeOK

(* The start of a run.                                                     *)
LEMMA BeginBase ==
    ASSUME TypeOK, NEW c \in Commands, NEW in \in Seq(Text), Begin(c, in),
           UNCHANGED <<kind, stored>>, runs' \in 1..MaxRuns, out' \in Seq(Text),
           by' \in Seq(Commands), by' # <<>>, Len(by') <= Len(Files),
           out' # <<>> => "sentinel" \in Commands
    PROVE  SiemBase'
  <1>1. TypeOK'
    BY DEF TypeOK, Begin
  <1>2. c \in {"sentinel", "opensearch", "elastic", "splunk"}
    BY SiemAssumption
  <1>3. Placed'
    BY <1>2 DEF Placed, Begin, States
  <1>4. Counted'
    BY SiemAssumption DEF Counted, Begin
  <1> QED BY <1>1, <1>3, <1>4 DEF SiemBase

\* Nothing is read or stored.
LEMMA BaseBegins == Init => SiemBase
  <1> SUFFICES ASSUME Init PROVE SiemBase
    OBVIOUS
  <1>1. Len(Files) \in Nat /\ Len(Files) >= 1 /\ 1 \in 1..Len(Files)
    BY SiemAssumption
  <1>2. stdin \in Seq(Text)
    BY <1>1, WholeHolds DEF Init
  <1>3. by \in Seq(Commands) /\ Len(by) = 1 /\ by # <<>> /\ runs \in 1..MaxRuns
    BY SiemAssumption DEF Init
  <1>4. TypeOK
    BY <1>1, <1>2, <1>3 DEF TypeOK, Init
  <1>5. cmd \in {"sentinel", "opensearch", "elastic", "splunk"}
    BY SiemAssumption DEF Init
  <1>6. Placed
    BY <1>3, <1>5 DEF Init, Placed, States
  <1>7. Counted
    BY SiemAssumption DEF Init, Counted
  <1> QED BY <1>4, <1>6, <1>7 DEF SiemBase

\* A new run keeps what is stored and begins with its file.
LEMMA RunBase ==
    ASSUME SiemBase, RunNext
    PROVE  SiemBase'
  <1>1. TypeOK /\ Placed /\ runs' \in 1..MaxRuns /\ UNCHANGED <<kind, stored>>
    BY SiemAssumption DEF SiemBase, TypeOK, RunNext
  <1>2. CASE Len(by) < Len(Files) /\ UNCHANGED out
             /\ \E c \in Commands : by' = Append(by, c) /\ Begin(c, Whole(Files[Len(by) + 1]))
    <2>1. PICK c \in Commands : by' = Append(by, c) /\ Begin(c, Whole(Files[Len(by) + 1]))
      BY <1>2
    <2>2. Len(by) + 1 \in 1..Len(Files) /\ by \in Seq(Commands)
      BY <1>1, <1>2, SiemAssumption DEF TypeOK
    <2>3. Whole(Files[Len(by) + 1]) \in Seq(Text)
      BY <2>2, WholeHolds
    <2>4. by' \in Seq(Commands) /\ by' # <<>> /\ Len(by') <= Len(Files)
      BY <2>1, <2>2
    <2> QED BY <1>1, <1>2, <2>1, <2>3, <2>4, BeginBase DEF TypeOK, Placed
  <1>3. CASE out # <<>> /\ out' = <<>> /\ Begin("sentinel", out) /\ UNCHANGED by
    <2>1. "sentinel" \in Commands /\ out \in Seq(Text) /\ by \in Seq(Commands)
          /\ by # <<>> /\ Len(by) <= Len(Files)
      BY <1>1, <1>3 DEF TypeOK, Placed
    <2>2. out' \in Seq(Text) /\ ~(out' # <<>>)
      BY <1>3
    <2> QED BY <1>1, <1>3, <2>1, <2>2, BeginBase
  <1> QED BY <1>2, <1>3 DEF RunNext

\* The types, and the bound of the batch: sentinel.
LEMMA SentinelBase ==
    ASSUME SiemBase, Sentinel
    PROVE  SiemBase'
  <1> USE DEF SiemBase
  <1>1. CASE SentinelScan
    <2>1. cmd = "sentinel" /\ pc = "scan" /\ stdin # <<>>
      BY <1>1 DEF SentinelScan, At, MoreLines
    <2>2. batch' \in Seq(Text) /\ Len(batch') = Len(batch) + 1 /\ stdin' \in Seq(Text)
      BY <1>1, <2>1, NextLine DEF SentinelScan, TypeOK
    <2>3. cnt = Len(batch) /\ cnt' = cnt + 1 /\ cnt \in Nat /\ cmd' = cmd /\ BatchSize \in Nat
          /\ pc' = (IF cnt + 1 = BatchSize THEN "send" ELSE "scan")
          /\ (BatchSize > 0 => cnt < BatchSize)
      BY <1>1, <2>1, SiemAssumption DEF SentinelScan, TypeOK, Counted
    <2>4. TypeOK'
      BY <1>1, <2>2, <2>3 DEF SentinelScan, TypeOK
    <2>5. Placed'
      BY <1>1, <2>1, <2>3 DEF SentinelScan, Placed, States
    <2>6. Counted'
      BY <2>1, <2>2, <2>3 DEF Counted
    <2> QED BY <2>4, <2>5, <2>6
  <1>2. CASE SentinelEnd
    <2>1. cmd = "sentinel" /\ pc = "scan" /\ ~MoreLines
      BY <1>2 DEF SentinelEnd, At
    <2>2. TypeOK'
      BY <1>2 DEF SentinelEnd, TypeOK
    <2>3. Placed'
      BY <1>2, <2>1 DEF SentinelEnd, Placed, States
    <2>4. Counted'
      BY <1>2, <2>1 DEF SentinelEnd, Counted, MoreLines, Fits, TooLong
    <2> QED BY <2>2, <2>3, <2>4
  <1>3. CASE sendBatch
    <2>1. PICK o \in Outcomes : /\ stored' = IF o.arrives THEN stored \o Docs(batch) ELSE stored
                                /\ out' = IF o.prints THEN out \o Printed(batch) ELSE out
      BY <1>3 DEF sendBatch
    <2>2. stored \in Seq(Doc) /\ out \in Seq(Text) /\ batch \in Seq(Text) /\ cmd \in Commands
      BY DEF TypeOK
    <2>3. stored' \in Seq(Doc) /\ out' \in Seq(Text)
      BY <2>1, <2>2, DocsHolds, PrintedHolds
    <2>4. /\ cmd = "sentinel" /\ cmd' = cmd /\ pc \in {"send", "flush"} /\ batch' = <<>> /\ cnt' = 0
          /\ pc' = (IF pc = "send" THEN "scan" ELSE "ended")
          /\ UNCHANGED <<cmd, kind, by, runs, stdin, failed, conns>>
      BY <1>3 DEF sendBatch, Reset
    <2>5. TypeOK'
      BY <2>3, <2>4 DEF TypeOK
    <2>6. Placed'
      BY <2>2, <2>4 DEF Placed, States
    <2>7. Counted'
      BY <2>4, SiemAssumption DEF Counted, MoreLines, Fits, TooLong
    <2> QED BY <2>5, <2>6, <2>7
  <1> QED BY <1>1, <1>2, <1>3 DEF Sentinel

\* The types: opensearch.
LEMMA OpensearchBase ==
    ASSUME SiemBase, Opensearch
    PROVE  SiemBase'
  <1>1. cmd = "opensearch" /\ cmd' = cmd /\ UNCHANGED <<kind, by, runs, batch, out, failed, conns>>
    BY DEF Opensearch, OpensearchCreate, OpensearchLine, OpensearchEnd, At
  <1>2. pc' \in {"scan", "fatal", "panic", "ended"}
    BY DEF Opensearch, OpensearchCreate, OpensearchLine, OpensearchEnd
  <1>3. stdin' \in Seq(Text) /\ cnt' \in Nat /\ stored' \in Seq(Doc)
    <2>1. CASE OpensearchLine
      <3>1. stdin # <<>> /\ stdin' = Tail(stdin) /\ cnt' = cnt + 1
            /\ (stored' = stored \/ stored' = PutDoc(stored, cnt + 1, Head(stdin)))
        BY <2>1 DEF OpensearchLine, MoreLines
      <3>2. Head(stdin) \in Text /\ Tail(stdin) \in Seq(Text) /\ cnt + 1 \in Nat
            /\ stored \in Seq(Doc)
        BY <3>1, NextLine DEF SiemBase, TypeOK
      <3> QED BY <3>1, <3>2, PutDocHolds
    <2>2. CASE OpensearchCreate \/ OpensearchEnd
      BY <2>2 DEF OpensearchCreate, OpensearchEnd, SiemBase, TypeOK
    <2> QED BY <2>1, <2>2 DEF Opensearch
  <1>4. TypeOK'
    BY <1>1, <1>2, <1>3 DEF SiemBase, TypeOK
  <1>5. Placed' /\ Counted'
    BY <1>1, <1>2 DEF SiemBase, Placed, States, Counted
  <1> QED BY <1>4, <1>5 DEF SiemBase

\* The types: elastic and its bulk indexer.
LEMMA ElasticBase ==
    ASSUME SiemBase, Elastic
    PROVE  SiemBase'
  <1>1. cmd = "elastic" /\ UNCHANGED <<cmd, kind, by, runs, out, conns>>
    BY DEF Elastic, ElasticCreate, ElasticAdd, ElasticWorker, ElasticClose, At
  <1>2. pc' \in {"scan", "fatal", "close", "ended"}
    BY DEF Elastic, ElasticCreate, ElasticAdd, ElasticWorker, ElasticClose, At
  <1> USE DEF SiemBase
  <1>3. CASE ElasticCreate \/ ElasticClose
    <2>1. TypeOK'
      BY <1>2, <1>3 DEF TypeOK, ElasticCreate, ElasticClose
    <2>2. Counted'
      BY <1>1, <1>3 DEF Counted, ElasticCreate, ElasticClose, At, MoreLines, Fits, TooLong
    <2> QED BY <1>1, <1>2, <2>1, <2>2 DEF Placed, States
  <1>4. CASE ElasticAdd
    <2>1. CASE ~MoreLines
      <3>1. pc' = "close" /\ UNCHANGED <<stdin, cnt, batch, stored, failed>>
        BY <1>4, <2>1 DEF ElasticAdd
      <3>2. TypeOK' /\ Counted'
        BY <1>1, <2>1, <3>1 DEF TypeOK, Counted, MoreLines, Fits, TooLong
      <3> QED BY <1>1, <1>2, <3>2 DEF Placed, States
    <2>2. CASE MoreLines
      <3>1. /\ stdin # <<>> /\ stdin' = Tail(stdin) /\ batch' = Append(batch, Head(stdin))
            /\ cnt' = cnt + 1 /\ pc = "scan" /\ pc' = pc /\ UNCHANGED <<stored, failed>>
        BY <1>4, <2>2 DEF ElasticAdd, MoreLines, At
      <3>2. TypeOK'
        BY <1>1, <3>1, NextLine DEF TypeOK
      <3>3. Counted'
        BY <1>1, <3>1 DEF Counted
      <3> QED BY <1>1, <1>2, <3>2, <3>3 DEF Placed, States
    <2> QED BY <2>1, <2>2
  <1>5. CASE ElasticWorker
    <2>1. PICK i \in 1..Len(batch) :
             /\ batch' = RemoveAt(batch, i)
             /\ stored' = stored \/ stored' = stored \o Docs(<<batch[i]>>)
             /\ failed' = failed \/ failed' = failed \cup {batch[i]}
      BY <1>5 DEF ElasticWorker
    <2>2. pc \in {"scan", "close"} /\ UNCHANGED <<pc, stdin, cnt>>
      BY <1>5 DEF ElasticWorker
    <2>3. batch' \in Seq(Text) /\ batch[i] \in Text
      BY <2>1, RemoveHolds DEF TypeOK
    <2>4. stored' \in Seq(Doc) /\ failed' \subseteq Text
      <3>1. <<batch[i]>> \in Seq(Text)
        BY <2>3
      <3>2. Docs(<<batch[i]>>) \in Seq(Doc)
        BY <3>1, DocsHolds
      <3>3. stored \in Seq(Doc) /\ failed \subseteq Text
        BY DEF TypeOK
      <3>4. stored \o Docs(<<batch[i]>>) \in Seq(Doc)
        BY <3>2, <3>3
      <3> QED BY <2>1, <2>3, <3>3, <3>4
    <2>5. TypeOK'
      BY <1>1, <2>2, <2>3, <2>4 DEF TypeOK
    <2>6. Counted'
      BY <1>1, <2>2 DEF Counted, MoreLines, Fits, TooLong
    <2> QED BY <1>1, <1>2, <2>5, <2>6 DEF Placed, States
  <1> QED BY <1>3, <1>4, <1>5 DEF Elastic

\* The types: splunk.
LEMMA SplunkBase ==
    ASSUME SiemBase, Splunk \/ UNCHANGED vars
    PROVE  SiemBase'
  <1> USE DEF SiemBase
  <1>1. CASE UNCHANGED vars
    BY <1>1 DEF vars, TypeOK, Placed, Counted, MoreLines, Fits, TooLong
  <1>2. CASE Splunk
    <2>1. cmd = "splunk" /\ UNCHANGED <<cmd, kind, by, runs, cnt, batch, stored, out, failed>>
          /\ pc' \in {"scan", "fatal"}
      BY <1>2 DEF Splunk, SplunkScan, connectSplunkRetry, At
    <2>2. stdin' \in Seq(Text)
      BY <1>2, NextLine DEF Splunk, SplunkScan, connectSplunkRetry, MoreLines, TypeOK
    <2>3. conns' \in [Endpoint -> {"none", "healthy", "unhealthy"}]
      BY <1>2 DEF Splunk, SplunkScan, connectSplunkRetry, TypeOK
    <2>4. TypeOK'
      BY <2>1, <2>2, <2>3 DEF TypeOK
    <2> QED BY <2>1, <2>4 DEF Placed, States, Counted
  <1> QED BY <1>1, <1>2

\* The variables keep their types, and a batch its bound.
THEOREM SiemBaseHolds == Spec => []SiemBase
  <1>1. SiemBase /\ [Next]_vars => SiemBase'
    BY SentinelBase, OpensearchBase, ElasticBase, SplunkBase, RunBase DEF Next
  <1> QED BY <1>1, BaseBegins, PTL DEF Spec

(* The variables keep their types.                                         *)
THEOREM SiemTypesHold == Spec => []TypeOK
  <1>1. SiemBase => TypeOK
    BY DEF SiemBase
  <1> QED BY <1>1, SiemBaseHolds, PTL

(* For any batch size and any input, over any number of runs, sentinel's   *)
(* array is never longer than BatchSize and its counter is its length.     *)
THEOREM BatchBoundedHolds == Spec => []BatchBounded
  <1>1. SiemBase => BatchBounded
    BY DEF SiemBase, Counted, BatchBounded, Ended, Placed, States
  <1> QED BY <1>1, SiemBaseHolds, PTL

-----------------------------------------------------------------------------
(* What opensearch and elastic have still to read are the lines of their   *)
(* file after the first cnt.                                               *)
InOrder ==
    cmd \in {"opensearch", "elastic"} =>
        /\ by[Len(by)] = cmd /\ Len(stdin) + cnt = Len(Files[Len(by)])
        /\ \A p \in 1..Len(stdin) : stdin[p] = <<Files[Len(by)][cnt + p], "whole">>

LineDoc(d) == d.id # AutoId => \E k \in 1..Len(by) : /\ d.id <= Len(Files[k])
                                                  /\ d.text = <<Files[k][d.id], "whole">>
Numbered == \A i \in 1..Len(stored) : LineDoc(stored[i])

SiemOrder == InOrder /\ Numbered

\* The file at work is the last of those given.
LEMMA LastFile ==
    ASSUME SiemBase
    PROVE  /\ by \in Seq(Commands) /\ Len(by) \in 1..Len(Files)
           /\ Files[Len(by)] \in Seq(Nat) /\ Len(Files[Len(by)]) \in Nat
  BY SiemAssumption DEF SiemBase, TypeOK, Placed

(* Reading a line.                                                         *)
LEMMA ReadInOrder ==
    ASSUME SiemBase, InOrder, stdin # <<>>, stdin' = Tail(stdin), cnt' = cnt + 1,
           UNCHANGED <<cmd, by>>
    PROVE  InOrder'
  <1> SUFFICES ASSUME cmd \in {"opensearch", "elastic"} PROVE InOrder'
    BY DEF InOrder
  <1> DEFINE F == Files[Len(by)]
  <1>1. cnt \in Nat /\ Len(stdin) \in Nat /\ Len(stdin') = Len(stdin) - 1 /\ Len(F) \in Nat
        /\ \A p \in 1..Len(stdin') : stdin'[p] = stdin[p + 1]
    BY NextLine, LastFile DEF SiemBase, TypeOK
  <1>2. by[Len(by)] = cmd /\ Len(stdin) + cnt = Len(F)
        /\ \A p \in 1..Len(stdin) : stdin[p] = <<F[cnt + p], "whole">>
    BY DEF InOrder
  <1>3. \A p \in 1..Len(stdin') : stdin'[p] = <<F[cnt' + p], "whole">>
    <2> TAKE p \in 1..Len(stdin')
    <2>1. p + 1 \in 1..Len(stdin) /\ cnt + (p + 1) = cnt' + p
      BY <1>1
    <2> QED BY <1>1, <1>2, <2>1
  <1>4. Len(stdin') + cnt' = Len(F)
    <2>1. Len(stdin') = Len(stdin) - 1 /\ Len(stdin) \in Nat /\ cnt \in Nat
      BY <1>1
    <2>2. Len(stdin) + cnt = Len(F)
      BY <1>2
    <2> HIDE DEF F
    <2> QED BY <2>1, <2>2
  <1> QED BY <1>2, <1>3, <1>4 DEF InOrder

\* The next to be read is the file's line with the next number.
LEMMA FirstInOrder ==
    ASSUME SiemBase, InOrder, cmd \in {"opensearch", "elastic"}, stdin # <<>>
    PROVE  /\ cnt + 1 \in 1..Len(Files[Len(by)])
           /\ Head(stdin) = <<Files[Len(by)][cnt + 1], "whole">>
  <1>1. cnt \in Nat /\ Len(stdin) \in Nat /\ Len(stdin) >= 1 /\ Head(stdin) = stdin[1]
    BY NextLine DEF SiemBase, TypeOK
  <1>2. Len(stdin) + cnt = Len(Files[Len(by)]) /\ Len(Files[Len(by)]) \in Nat
    BY LastFile DEF InOrder
  <1>3. 1 \in 1..Len(stdin)
    BY <1>1
  <1> QED BY <1>1, <1>2, <1>3 DEF InOrder

(* More documents of the service's own numbers, or one of this line.       *)
LEMMA MoreDocs ==
    ASSUME SiemBase, Numbered, NEW b \in Seq(Text), stored' = stored \o Docs(b), by' = by
    PROVE  Numbered'
  <1>1. stored \in Seq(Doc) /\ Docs(b) \in Seq(Doc) /\ Len(Docs(b)) = Len(b)
        /\ \A i \in 1..Len(b) : Docs(b)[i].id = AutoId
    BY DocsHolds DEF SiemBase, TypeOK
  <1> SUFFICES ASSUME NEW i \in 1..Len(stored') PROVE LineDoc(stored'[i])
    BY DEF Numbered, LineDoc
  <1>2. CASE i <= Len(stored)
    <2>1. i \in 1..Len(stored) /\ stored'[i] = stored[i]
      BY <1>1, <1>2
    <2> QED BY <2>1 DEF Numbered
  <1>3. CASE ~(i <= Len(stored))
    <2>1. i - Len(stored) \in 1..Len(b) /\ stored'[i] = Docs(b)[i - Len(stored)]
      BY <1>1, <1>3
    <2> QED BY <1>1, <2>1 DEF LineDoc
  <1> QED BY <1>2, <1>3

\* Nothing is numbered yet.
LEMMA SiemOrderBegins == Init => SiemOrder
  <1> SUFFICES ASSUME Init PROVE SiemOrder
    OBVIOUS
  <1>1. 1 \in 1..Len(Files)
    BY SiemAssumption
  <1>2. Len(by) = 1 /\ by[1] = cmd /\ stdin = Whole(Files[1]) /\ cnt = 0 /\ stored = <<>>
    BY DEF Init
  <1>3. Len(stdin) + cnt = Len(Files[1])
        /\ \A p \in 1..Len(stdin) : stdin[p] = <<Files[1][cnt + p], "whole">>
    <2>1. /\ Len(stdin) = Len(Files[1]) /\ Len(Files[1]) \in Nat
          /\ \A i \in 1..Len(Files[1]) : stdin[i] = <<Files[1][i], "whole">>
      BY <1>1, <1>2, WholeHolds
    <2>2. \A p \in 1..Len(stdin) : cnt + p = p
      BY <1>2, <2>1
    <2> QED BY <1>2, <2>1, <2>2
  <1> QED BY <1>2, <1>3 DEF SiemOrder, InOrder, Numbered

\* A new run numbers its lines from one.
LEMMA RunOrder ==
    ASSUME SiemBase, SiemOrder, RunNext
    PROVE  SiemOrder'
  <1>1. stored' = stored /\ by \in Seq(Commands)
    BY LastFile DEF RunNext
  <1>2. CASE Len(by) < Len(Files)
             /\ \E c \in Commands : by' = Append(by, c) /\ Begin(c, Whole(Files[Len(by) + 1]))
    <2>1. PICK c \in Commands : by' = Append(by, c) /\ Begin(c, Whole(Files[Len(by) + 1]))
      BY <1>2
    <2> DEFINE k == Len(by) + 1
    <2>2. k \in 1..Len(Files) /\ Len(by') = k /\ by'[k] = c
          /\ stdin' = Whole(Files[k]) /\ cnt' = 0 /\ cmd' = c
      BY <1>1, <1>2, <2>1, SiemAssumption DEF Begin
    <2> HIDE DEF k
    <2>3. Len(stdin') + cnt' = Len(Files[k])
          /\ \A p \in 1..Len(stdin') : stdin'[p] = <<Files[k][cnt' + p], "whole">>
      <3>1. /\ Len(stdin') = Len(Files[k]) /\ Len(Files[k]) \in Nat
            /\ \A i \in 1..Len(Files[k]) : stdin'[i] = <<Files[k][i], "whole">>
        BY <2>2, WholeHolds
      <3>2. \A p \in 1..Len(stdin') : cnt' + p = p
        BY <2>2, <3>1
      <3> QED BY <2>2, <3>1, <3>2
    <2>4. InOrder'
      BY <2>2, <2>3 DEF InOrder
    <2>5. \A m \in 1..Len(by) : m \in 1..Len(by')
      BY <1>1, <2>1
    <2>6. Numbered'
      BY <1>1, <2>5 DEF SiemOrder, Numbered, LineDoc
    <2> QED BY <2>4, <2>6 DEF SiemOrder
  <1>3. CASE Begin("sentinel", out) /\ UNCHANGED by
    BY <1>1, <1>3 DEF SiemOrder, InOrder, Numbered, LineDoc, Begin
  <1> QED BY <1>2, <1>3 DEF RunNext

\* opensearch reads a line and numbers it.
LEMMA LineOrder ==
    ASSUME SiemBase, SiemOrder, OpensearchLine
    PROVE  SiemOrder'
  <1>1. /\ cmd = "opensearch" /\ stdin # <<>> /\ stdin' = Tail(stdin) /\ cnt' = cnt + 1
        /\ UNCHANGED <<cmd, by>>
        /\ (stored' = stored \/ stored' = PutDoc(stored, cnt + 1, Head(stdin)))
    BY DEF OpensearchLine, MoreLines, At
  <1>2. InOrder'
    BY <1>1, ReadInOrder DEF SiemOrder
  <1>3. Numbered'
    <2>1. CASE stored' = stored
      BY <1>1, <2>1 DEF SiemOrder, Numbered, LineDoc
    <2>2. CASE stored' = PutDoc(stored, cnt + 1, Head(stdin))
      <3> DEFINE d == [id |-> cnt + 1, text |-> Head(stdin)]
      <3>1. stored \in Seq(Doc) /\ cnt + 1 \in Nat /\ Head(stdin) \in Text
        BY <1>1, NextLine DEF SiemBase, TypeOK
      <3>2. \A i \in 1..Len(stored') : stored'[i] = d \/ (i \in 1..Len(stored) /\ stored'[i] = stored[i])
        BY <2>2, <3>1, PutDocHolds
      <3>3. LineDoc(d)
        <4>1. cnt + 1 \in 1..Len(Files[Len(by)]) /\ Head(stdin) = <<Files[Len(by)][cnt + 1], "whole">>
          BY <1>1, FirstInOrder DEF SiemOrder
        <4>2. Len(by) \in 1..Len(by)
          BY LastFile
        <4> QED BY <4>1, <4>2 DEF LineDoc
      <3> HIDE DEF d
      <3>4. \A i \in 1..Len(stored') : LineDoc(stored'[i])
        BY <3>2, <3>3 DEF SiemOrder, Numbered
      <3> QED BY <1>1, <3>4 DEF Numbered, LineDoc
    <2> QED BY <1>1, <2>1, <2>2
  <1> QED BY <1>2, <1>3 DEF SiemOrder

\* The other programs number nothing.
LEMMA OtherOrder ==
    ASSUME SiemBase, SiemOrder,
           Sentinel \/ OpensearchCreate \/ OpensearchEnd \/ Elastic \/ Splunk \/ UNCHANGED vars
    PROVE  SiemOrder'
  <1>1. ASSUME UNCHANGED <<cmd, by, stdin, cnt, stored>> PROVE SiemOrder'
    BY <1>1 DEF SiemOrder, InOrder, Numbered, LineDoc
  <1>2. CASE OpensearchCreate \/ OpensearchEnd \/ UNCHANGED vars
    BY <1>1, <1>2 DEF OpensearchCreate, OpensearchEnd, vars
  <1>3. CASE Splunk
    BY <1>3 DEF Splunk, SplunkScan, connectSplunkRetry, At, SiemOrder, InOrder, Numbered, LineDoc
  <1>4. CASE SentinelScan \/ SentinelEnd
    BY <1>4 DEF SentinelScan, SentinelEnd, At, SiemOrder, InOrder, Numbered, LineDoc
  <1>5. CASE sendBatch
    <2>1. cmd = "sentinel" /\ UNCHANGED <<cmd, by>>
          /\ (stored' = stored \/ stored' = stored \o Docs(batch))
      BY <1>5 DEF sendBatch
    <2>2. stored' = stored => Numbered'
      BY <2>1 DEF SiemOrder, Numbered, LineDoc
    <2>3. batch \in Seq(Text)
      BY DEF SiemBase, TypeOK
    <2>4. stored' = stored \o Docs(batch) => Numbered'
      BY <2>1, <2>3, MoreDocs DEF SiemOrder
    <2> QED BY <2>1, <2>2, <2>4 DEF SiemOrder, InOrder
  <1>6. CASE ElasticCreate \/ ElasticClose
    BY <1>1, <1>6 DEF ElasticCreate, ElasticClose
  <1>7. CASE ElasticAdd
    <2>1. CASE ~MoreLines
      BY <1>1, <1>7, <2>1 DEF ElasticAdd
    <2>2. CASE MoreLines
      <3>1. stdin # <<>> /\ stdin' = Tail(stdin) /\ cnt' = cnt + 1 /\ UNCHANGED <<cmd, by, stored>>
        BY <1>7, <2>2 DEF ElasticAdd, MoreLines
      <3>2. InOrder'
        BY <3>1, ReadInOrder DEF SiemOrder
      <3> QED BY <3>1, <3>2 DEF SiemOrder, Numbered, LineDoc
    <2> QED BY <2>1, <2>2
  <1>8. CASE ElasticWorker
    <2>1. PICK i \in 1..Len(batch) : stored' = stored \/ stored' = stored \o Docs(<<batch[i]>>)
      BY <1>8 DEF ElasticWorker
    <2>2. UNCHANGED <<cmd, by, stdin, cnt>>
      BY <1>8 DEF ElasticWorker
    <2>3. <<batch[i]>> \in Seq(Text)
      <3>1. batch[i] \in Text
        BY DEF SiemBase, TypeOK
      <3> QED BY <3>1
    <2>4. stored' = stored \o Docs(<<batch[i]>>) => Numbered'
      BY <2>2, <2>3, MoreDocs DEF SiemOrder
    <2> QED BY <1>1, <2>1, <2>2, <2>4 DEF SiemOrder, InOrder
  <1> QED BY <1>2, <1>3, <1>4, <1>5, <1>6, <1>7, <1>8 DEF Sentinel, Elastic

\* A document's number is that of its line, in every run.
THEOREM SiemOrderHolds == Spec => []SiemOrder
  <1>1. SiemBase /\ SiemOrder /\ [Next]_vars => SiemOrder'
    BY RunOrder, LineOrder, OtherOrder DEF Next, Opensearch
  <1> QED BY <1>1, SiemOrderBegins, SiemBaseHolds, PTL DEF Spec

(* For any files, whatever opensearch refuses and however often it is run: *)
(* a document's number is the number of its line.                          *)
THEOREM DocIsLineHolds == Spec => []DocIsLine
  <1>1. SiemBase /\ SiemOrder => DocIsLine
    <2> SUFFICES ASSUME SiemBase, SiemOrder, NEW d \in Range(stored) PROVE LineDoc(d)
      BY DEF DocIsLine, LineDoc
    <2>1. PICK i \in 1..Len(stored) : d = stored[i]
      BY RangeIs DEF SiemBase, TypeOK
    <2> QED BY <2>1 DEF SiemOrder, Numbered
  <1> QED BY <1>1, SiemBaseHolds, SiemOrderHolds, PTL

-----------------------------------------------------------------------------
(* Where the lines of sentinel's files are: to come in this run, in its    *)
(* batch, in the workspace under a number of the service's, or printed.    *)
Good(t) == t[2] = "whole" => kind[t[1]] \notin {"long", "huge"}

Fitting ==
    /\ \A x \in Range(out) : Good(x)
    /\ cmd = "sentinel" => \A x \in Range(batch) : Good(x)

Coming(t) == \E p \in 1..Len(stdin) : stdin[p] = t /\ \A q \in 1..p : Good(stdin[q])
Filed(t) == \E i \in 1..Len(stored) : stored[i].id = AutoId /\ stored[i].text = t
Held(t) == \/ cmd = "sentinel" /\ (Coming(t) \/ t \in Range(batch))
           \/ Filed(t) \/ t \in Range(out)
InHand(l) == Held(<<l, "whole">>) \/ (Held(<<l, "left">>) /\ Held(<<l, "right">>))
LinesHeld ==
    \A k \in 1..Len(by) : by[k] = "sentinel" =>
        \A i \in 1..Len(Files[k]) : Readable(k, i) => InHand(Files[k][i])

SiemKept == Fitting /\ LinesHeld

(* No line is lost by a step when whatever is held stays so, whole or not. *)
LEMMA HeldOn ==
    ASSUME SiemBase, LinesHeld, UNCHANGED <<kind, by>>, \A l \in Line : InHand(l) => InHand(l)'
    PROVE  LinesHeld'
  <1> SUFFICES ASSUME NEW k \in 1..Len(by'), by'[k] = "sentinel",
                      NEW i \in 1..Len(Files[k]), Readable(k, i)'
               PROVE  InHand(Files[k][i])'
    BY DEF LinesHeld
  <1>1. Readable(k, i)
    BY DEF Readable, TooLong
  <1>2. InHand(Files[k][i])
    BY <1>1 DEF LinesHeld
  <1>3. Files[k][i] \in Line
    <2>1. k \in 1..Len(Files)
      BY LastFile, SiemAssumption
    <2> QED BY <2>1, LineOfFile
  <1> QED BY <1>2, <1>3

\* A text stays held when nothing that holds it changes.
LEMMA SameHeld ==
    ASSUME NEW t, Held(t), UNCHANGED <<cmd, kind, stdin, batch, stored, out>>
    PROVE  Held(t)'
  BY DEF Held, Coming, Filed, Good

\* Of sentinel, a line that fits is one its scanner can read.
LEMMA FitsIsGood ==
    ASSUME NEW t, cmd = "sentinel"
    PROVE  Fits(t) <=> Good(t)
  BY DEF Fits, Good, TooLong

(* Documents: what is filed under the service's numbers stays.             *)
LEMMA FiledOn ==
    ASSUME SiemBase,
           \/ \E b \in Seq(Text) : stored' = stored \o Docs(b)
           \/ \E n \in Nat \ {0}, x \in Text : stored' = PutDoc(stored, n, x)
           \/ stored' = stored
    PROVE  \A t : Filed(t) => Filed(t)'
  <1> SUFFICES ASSUME NEW t, NEW i \in 1..Len(stored), stored[i].id = AutoId, stored[i].text = t
               PROVE  \E j \in 1..Len(stored') : stored'[j] = stored[i]
    BY DEF Filed
  <1>1. stored \in Seq(Doc)
    BY DEF SiemBase, TypeOK
  <1>2. ASSUME NEW b \in Seq(Text), stored' = stored \o Docs(b)
        PROVE  \E j \in 1..Len(stored') : stored'[j] = stored[i]
    <2>1. Docs(b) \in Seq(Doc)
      BY DocsHolds
    <2>2. i \in 1..Len(stored \o Docs(b)) /\ (stored \o Docs(b))[i] = stored[i]
      BY <1>1, <2>1
    <2> QED BY <1>2, <2>2
  <1>3. ASSUME NEW n \in Nat \ {0}, NEW x \in Text, stored' = PutDoc(stored, n, x)
        PROVE  \E j \in 1..Len(stored') : stored'[j] = stored[i]
    <2>1. stored[i].id # n
      BY DEF AutoId
    <2>2. i \in 1..Len(stored') /\ stored'[i] = stored[i]
      BY <1>1, <1>3, <2>1, PutDocHolds
    <2> QED BY <2>2
  <1> QED BY <1>2, <1>3

(* sentinel reads a line into its batch.                                   *)
LEMMA ScanKept ==
    ASSUME SiemBase, SiemKept, SentinelScan
    PROVE  SiemKept'
  <1>1. /\ cmd = "sentinel" /\ stdin # <<>> /\ Fits(Head(stdin))
        /\ stdin' = Tail(stdin) /\ batch' = Append(batch, Head(stdin))
        /\ UNCHANGED <<cmd, kind, by, stored, out>>
    BY DEF SentinelScan, At, MoreLines
  <1>2. Good(stdin[1]) /\ Head(stdin) = stdin[1] /\ Head(stdin) \in Text /\ batch \in Seq(Text)
    BY <1>1, NextLine, FitsIsGood DEF SiemBase, TypeOK
  <1>3. \A x : x \in Range(batch') <=> x \in Range(batch) \/ x = stdin[1]
    BY <1>1, <1>2, RangeOfAppend
  <1>4. Fitting'
    BY <1>1, <1>2, <1>3 DEF SiemKept, Fitting, Good
  <1>5. ASSUME NEW t, Held(t) PROVE Held(t)'
    <2>1. CASE t \in Range(batch) \/ Filed(t) \/ t \in Range(out)
      BY <1>1, <1>3, <2>1 DEF Held, Filed
    <2>2. CASE Coming(t)
      <3>1. PICK p \in 1..Len(stdin) : stdin[p] = t /\ \A q \in 1..p : Good(stdin[q])
        BY <2>2 DEF Coming
      <3>2. CASE p = 1
        BY <1>1, <1>3, <3>1, <3>2 DEF Held
      <3>3. CASE p # 1
        <4>1. /\ Len(stdin') = Len(stdin) - 1 /\ Len(stdin) \in Nat
              /\ \A j \in 1..Len(stdin') : stdin'[j] = stdin[j + 1]
          BY <1>1, NextLine DEF SiemBase
        <4>2. p - 1 \in 1..Len(stdin') /\ (p - 1) + 1 = p
          BY <3>3, <4>1
        <4>3. \A q \in 1..(p - 1) : q \in 1..Len(stdin') /\ q + 1 \in 1..p
          BY <4>1, <4>2
        <4>4. stdin'[p - 1] = t /\ \A q \in 1..(p - 1) : Good(stdin'[q])
          BY <3>1, <4>1, <4>2, <4>3
        <4>5. Coming(t)'
          BY <1>1, <4>2, <4>4 DEF Coming, Good
        <4> QED BY <1>1, <4>5 DEF Held
      <3> QED BY <3>2, <3>3
    <2> QED BY <1>5, <2>1, <2>2 DEF Held
  <1>6. LinesHeld'
    BY <1>1, <1>5, HeldOn DEF SiemKept, InHand
  <1> QED BY <1>4, <1>6 DEF SiemKept

(* sentinel sends its batch, or prints it, or both.                        *)
LEMMA SendKept ==
    ASSUME SiemBase, SiemKept, sendBatch
    PROVE  SiemKept'
  <1>1. /\ cmd = "sentinel" /\ batch' = <<>>
        /\ UNCHANGED <<cmd, kind, by, stdin>>
    BY DEF sendBatch, Reset
  <1>2. PICK o \in Outcomes : /\ stored' = IF o.arrives THEN stored \o Docs(batch) ELSE stored
                              /\ out' = IF o.prints THEN out \o Printed(batch) ELSE out
    BY DEF sendBatch
  <1>3. o.arrives \/ o.prints
    BY DEF Outcomes
  <1>4. batch \in Seq(Text) /\ stored \in Seq(Doc) /\ out \in Seq(Text)
        /\ Printed(batch) \in Seq(Text)
    BY PrintedHolds DEF SiemBase, TypeOK
  <1>5. \A x : x \in Range(out') <=> x \in Range(out) \/ (o.prints /\ x \in Range(Printed(batch)))
    BY <1>2, <1>4, RangeOfTwo
  <1>6. \A x : x \in Range(Printed(batch)) <=> \E i \in 1..Len(batch) : x \in Range(Pieces(batch[i]))
    BY <1>4, PrintedHolds
  <1>7. Fitting'
    <2>1. ASSUME NEW x \in Range(Printed(batch)) PROVE Good(x)
      <3>1. PICK i \in 1..Len(batch) : x \in Range(Pieces(batch[i]))
        BY <1>6
      <3>2. batch[i] \in Text /\ Good(batch[i])
        BY <1>1, <1>4, RangeIs DEF SiemKept, Fitting
      <3>3. x = batch[i] \/ x = <<batch[i][1], "left">> \/ x = <<batch[i][1], "right">>
        BY <3>1, <3>2, PiecesAre
      <3> QED BY <3>2, <3>3 DEF Good
    <2>2. \A x \in Range(out') : Good(x)
      BY <1>5, <2>1 DEF SiemKept, Fitting
    <2>3. \A x : x \notin Range(batch')
      BY <1>1 DEF Range
    <2> QED BY <1>1, <2>2, <2>3 DEF Fitting, Good
  <1>8. \A t : Filed(t) => Filed(t)'
    BY <1>2, <1>4, FiledOn
  <1>9. ASSUME NEW t, Held(t), t \notin Range(batch) PROVE Held(t)'
    BY <1>1, <1>5, <1>8, <1>9 DEF Held, Coming, Good
  <1>10. ASSUME NEW t, t \in Range(batch), o.arrives PROVE Held(t)'
    <2>1. PICK i \in 1..Len(batch) : t = batch[i]
      BY <1>4, <1>10, RangeIs
    <2>2. /\ stored' = stored \o Docs(batch) /\ Docs(batch) \in Seq(Doc)
          /\ Len(Docs(batch)) = Len(batch)
          /\ Docs(batch)[i].id = AutoId /\ Docs(batch)[i].text = t
      BY <1>2, <1>4, <1>10, <2>1, DocsHolds
    <2>3. Len(stored) + i \in 1..Len(stored') /\ stored'[Len(stored) + i] = Docs(batch)[i]
      BY <1>4, <2>2
    <2>4. Filed(t)'
      BY <2>2, <2>3 DEF Filed
    <2> QED BY <2>4 DEF Held
  <1>11. ASSUME NEW l \in Line, NEW part, <<l, part>> \in Range(batch), o.prints
         PROVE  \/ Held(<<l, part>>)'
                \/ part = "whole" /\ Held(<<l, "left">>)' /\ Held(<<l, "right">>)'
    <2>1. PICK i \in 1..Len(batch) : <<l, part>> = batch[i]
      BY <1>4, <1>11, RangeIs
    <2>2. batch[i] \in Text /\ batch[i][1] = l /\ batch[i][2] = part
      BY <1>4, <2>1
    <2>3. \A x : x \in Range(Pieces(batch[i])) => Held(x)'
      BY <1>5, <1>6, <1>11 DEF Held
    <2> QED BY <2>1, <2>2, <2>3, PiecesAre
  <1>12. ASSUME NEW l \in Line, InHand(l) PROVE InHand(l)'
    <2>1. CASE o.arrives
      <3>1. \A t : Held(t) => Held(t)'
        BY <1>9, <1>10, <2>1
      <3> QED BY <1>12, <3>1 DEF InHand
    <2>2. CASE o.prints
      <3>1. CASE Held(<<l, "whole">>)
        BY <1>9, <1>11, <2>2, <3>1 DEF InHand
      <3>2. CASE Held(<<l, "left">>) /\ Held(<<l, "right">>)
        <4>1. "left" # "whole" /\ "right" # "whole"
          OBVIOUS
        <4> QED BY <1>9, <1>11, <2>2, <3>2, <4>1 DEF InHand
      <3> QED BY <1>12, <3>1, <3>2 DEF InHand
    <2> QED BY <1>3, <2>1, <2>2
  <1>13. LinesHeld'
    BY <1>1, <1>12, HeldOn DEF SiemKept
  <1> QED BY <1>7, <1>13 DEF SiemKept

(* The end of sentinel's loop, and the steps of the other sub-commands.    *)
LEMMA OtherKept ==
    ASSUME SiemBase, SiemKept,
           SentinelEnd \/ Opensearch \/ Elastic \/ Splunk \/ UNCHANGED vars
    PROVE  SiemKept'
  <1>1. CASE SentinelEnd \/ UNCHANGED vars
    <2>1. UNCHANGED <<cmd, kind, by, stdin, batch, stored, out>>
      BY <1>1 DEF SentinelEnd, vars
    <2>2. \A t : Held(t) => Held(t)'
      BY <2>1, SameHeld
    <2>3. LinesHeld'
      BY <2>1, <2>2, HeldOn DEF SiemKept, InHand
    <2> QED BY <2>1, <2>3 DEF SiemKept, Fitting, Good
  <1>2. CASE Opensearch \/ Elastic \/ Splunk
    <2>1. cmd # "sentinel" /\ UNCHANGED <<cmd, kind, by, out>>
      BY <1>2 DEF Opensearch, OpensearchCreate, OpensearchLine, OpensearchEnd, Elastic,
                  ElasticCreate, ElasticAdd, ElasticWorker, ElasticClose,
                  Splunk, SplunkScan, connectSplunkRetry, At
    <2>2. \A t : Filed(t) => Filed(t)'
      <3>1. CASE OpensearchLine
        <4>1. stored' = stored \/ stored' = PutDoc(stored, cnt + 1, Head(stdin))
          BY <3>1 DEF OpensearchLine
        <4>2. cnt + 1 \in Nat \ {0} /\ Head(stdin) \in Text
          BY <3>1, NextLine DEF OpensearchLine, MoreLines, SiemBase, TypeOK
        <4> QED BY <4>1, <4>2, FiledOn
      <3>2. CASE ElasticWorker
        <4>1. PICK i \in 1..Len(batch) : stored' = stored \/ stored' = stored \o Docs(<<batch[i]>>)
          BY <3>2 DEF ElasticWorker
        <4>2. batch[i] \in Text
          BY DEF SiemBase, TypeOK
        <4>3. <<batch[i]>> \in Seq(Text)
          BY <4>2
        <4> QED BY <4>1, <4>3, FiledOn
      <3>3. CASE OpensearchCreate \/ OpensearchEnd \/ ElasticCreate \/ ElasticAdd \/ ElasticClose \/ Splunk
        <4>1. stored' = stored
          BY <3>3 DEF OpensearchCreate, OpensearchEnd, ElasticCreate, ElasticAdd, ElasticClose,
                      Splunk, SplunkScan, connectSplunkRetry
        <4> QED BY <4>1, FiledOn
      <3> QED BY <1>2, <3>1, <3>2, <3>3 DEF Opensearch, Elastic
    <2>3. \A t : Held(t) => Held(t)'
      BY <2>1, <2>2 DEF Held
    <2>4. LinesHeld'
      BY <2>1, <2>3, HeldOn DEF SiemKept, InHand
    <2> QED BY <2>1, <2>4 DEF SiemKept, Fitting, Good
  <1> QED BY <1>1, <1>2

(* All that is to come is read when it fits the scanner.                   *)
LEMMA ComingFirst ==
    ASSUME NEW k \in 1..Len(Files), NEW i \in 1..Len(Files[k]), stdin = Whole(Files[k]),
           \A j \in 1..i : kind[Files[k][j]] \notin {"long", "huge"}
    PROVE  Coming(<<Files[k][i], "whole">>)
  <1>1. Len(stdin) = Len(Files[k]) /\ Len(Files[k]) \in Nat
        /\ \A j \in 1..Len(Files[k]) : stdin[j] = <<Files[k][j], "whole">>
    BY WholeHolds
  <1>2. \A j \in 1..i : j \in 1..Len(Files[k])
    BY <1>1
  <1>3. \A j \in 1..i : Good(stdin[j])
    BY <1>1, <1>2 DEF Good
  <1> QED BY <1>1, <1>3 DEF Coming

\* A run that has ended has read all that was to come.
LEMMA NoneComing ==
    ASSUME SiemBase, Ended, cmd = "sentinel"
    PROVE  \A t : ~Coming(t) /\ t \notin Range(batch)
  <1>1. pc = "ended" /\ batch = <<>> /\ ~MoreLines
    BY DEF SiemBase, Placed, States, Counted, Ended
  <1>2. \A t : t \notin Range(batch)
    BY <1>1 DEF Range
  <1>3. ASSUME NEW t, Coming(t) PROVE FALSE
    <2>1. PICK p \in 1..Len(stdin) : \A q \in 1..p : Good(stdin[q])
      BY <1>3 DEF Coming
    <2>2. stdin \in Seq(Text) /\ 1 \in 1..p
      BY DEF SiemBase, TypeOK
    <2>3. stdin # <<>> /\ Head(stdin) = stdin[1]
      BY <2>1, <2>2
    <2> QED BY <1>1, <2>1, <2>2, <2>3, FitsIsGood DEF MoreLines
  <1> QED BY <1>2, <1>3

\* A new run: what was held is lost with the process, or was sent.
LEMMA RunKept ==
    ASSUME SiemBase, SiemKept, RunNext
    PROVE  SiemKept'
  <1>1. Ended /\ UNCHANGED <<kind, stored>>
    BY DEF RunNext
  <1>2. \A t : Held(t) => Filed(t) \/ t \in Range(out)
    BY <1>1, NoneComing DEF Held
  <1>3. \A t : Filed(t) => Filed(t)'
    BY <1>1 DEF Filed
  <1>4. by \in Seq(Commands) /\ Len(by) \in 1..Len(Files) /\ out \in Seq(Text)
    BY LastFile DEF SiemBase, TypeOK
  <1>5. batch' = <<>> /\ \A x : x \notin Range(batch')
    BY DEF RunNext, Begin, Range
  <1>6. CASE Len(by) < Len(Files) /\ UNCHANGED out
             /\ \E c \in Commands : by' = Append(by, c) /\ Begin(c, Whole(Files[Len(by) + 1]))
    <2>1. PICK c \in Commands : by' = Append(by, c) /\ Begin(c, Whole(Files[Len(by) + 1]))
      BY <1>6
    <2> DEFINE n == Len(by) + 1
    <2>2. n \in 1..Len(Files) /\ Len(by') = n /\ by'[n] = c
          /\ \A k \in 1..Len(by) : by'[k] = by[k]
      BY <1>4, <1>6, <2>1, SiemAssumption
    <2>3. stdin' = Whole(Files[n]) /\ cmd' = c /\ out' = out
      BY <1>6, <2>1 DEF Begin
    <2>4. Fitting'
      BY <1>1, <1>5, <2>3 DEF SiemKept, Fitting, Good
    <2>5. \A t : Held(t) => Held(t)'
      BY <1>2, <1>3, <2>3 DEF Held
    <2>6. ASSUME NEW k \in 1..Len(by'), by'[k] = "sentinel", NEW i \in 1..Len(Files[k]), Readable(k, i)'
          PROVE  InHand(Files[k][i])'
      <3>1. CASE k = n
        <4>1. \A j \in 1..i : kind'[Files[k][j]] \notin {"long", "huge"}
          BY <2>6 DEF Readable, TooLong
        <4>2. Coming(<<Files[k][i], "whole">>)'
          <5>1. stdin' = Whole(Files[k])
            BY <2>3, <3>1
          <5>2. k \in 1..Len(Files)
            BY <2>2, <3>1
          <5>3. Len(stdin') = Len(Files[k]) /\ Len(Files[k]) \in Nat
                /\ \A j \in 1..Len(Files[k]) : stdin'[j] = <<Files[k][j], "whole">>
            BY <5>1, <5>2, WholeHolds
          <5>4. \A j \in 1..i : j \in 1..Len(Files[k])
            BY <5>3
          <5>5. \A j \in 1..i : Good(stdin[j])'
            BY <4>1, <5>3, <5>4 DEF Good
          <5> QED BY <5>3, <5>5 DEF Coming
        <4>3. cmd' = "sentinel"
          BY <2>2, <2>3, <2>6, <3>1
        <4> QED BY <4>2, <4>3 DEF InHand, Held
      <3>2. CASE k # n
        <4>1. k \in 1..Len(by) /\ by[k] = "sentinel" /\ by'[k] = by[k]
          BY <1>4, <2>2, <2>6, <3>2
        <4>2. Readable(k, i)
          BY <1>1, <2>6, <4>1 DEF Readable, TooLong
        <4>3. InHand(Files[k][i])
          BY <4>1, <4>2 DEF SiemKept, LinesHeld
        <4> QED BY <4>3, <2>5 DEF InHand
      <3> QED BY <3>1, <3>2
    <2>7. LinesHeld'
      BY <2>6 DEF LinesHeld
    <2> QED BY <2>4, <2>7 DEF SiemKept
  <1>7. CASE out # <<>> /\ out' = <<>> /\ Begin("sentinel", out) /\ UNCHANGED by
    <2>1. cmd' = "sentinel" /\ stdin' = out /\ \A x : x \notin Range(out')
      BY <1>7 DEF Begin, Range
    <2>2. Fitting'
      BY <1>5, <2>1 DEF Fitting
    <2>3. ASSUME NEW t \in Range(out) PROVE Held(t)'
      <3>1. PICK p \in 1..Len(out) : out[p] = t
        BY <1>4, RangeIs
      <3>2. \A q \in 1..p : q \in 1..Len(out)
        BY <1>4
      <3>3. \A q \in 1..p : Good(out[q])
        BY <1>4, <3>2, RangeIs DEF SiemKept, Fitting
      <3>4. Coming(t)'
        BY <1>1, <2>1, <3>1, <3>3 DEF Coming, Good
      <3> QED BY <2>1, <3>4 DEF Held
    <2>4. \A t : Held(t) => Held(t)'
      BY <1>2, <1>3, <2>3 DEF Held
    <2>5. LinesHeld'
      BY <1>1, <1>7, <2>4, HeldOn DEF SiemKept, InHand
    <2> QED BY <2>2, <2>5 DEF SiemKept
  <1> QED BY <1>6, <1>7 DEF RunNext

\* No line is given yet.
LEMMA SiemKeptBegins == Init => SiemKept
  <1> SUFFICES ASSUME Init PROVE SiemKept
    OBVIOUS
  <1>1. 1 \in 1..Len(Files)
    BY SiemAssumption
  <1>2. Len(by) = 1 /\ by[1] = cmd /\ stdin = Whole(Files[1]) /\ out = <<>> /\ batch = <<>>
    BY DEF Init
  <1>3. Fitting
    BY <1>2 DEF Fitting, Range
  <1>4. ASSUME by[1] = "sentinel", NEW i \in 1..Len(Files[1]), Readable(1, i)
        PROVE  InHand(Files[1][i])
    <2>1. \A j \in 1..i : kind[Files[1][j]] \notin {"long", "huge"}
      BY <1>4 DEF Readable, TooLong
    <2>2. Coming(<<Files[1][i], "whole">>)
      BY <1>1, <1>2, <2>1, ComingFirst
    <2> QED BY <1>2, <1>4, <2>2 DEF InHand, Held
  <1>5. LinesHeld
    BY <1>2, <1>4 DEF LinesHeld
  <1> QED BY <1>3, <1>5 DEF SiemKept

\* A line that sentinel has read is held, sent, or told as failed.
THEOREM SiemKeptHolds == Spec => []SiemKept
  <1>1. SiemBase /\ SiemKept /\ [Next]_vars => SiemKept'
    BY ScanKept, SendKept, OtherKept, RunKept DEF Next, Sentinel
  <1> QED BY <1>1, SiemKeptBegins, SiemBaseHolds, PTL DEF Spec

(* For any files, batch size and failures, over any number of runs, also   *)
(* of what was printed: a line given to sentinel that its scanner can read *)
(* is always somewhere, whole or as the two parts PrintBatch cut it into.  *)
THEOREM NothingLostHolds == Spec => []NothingLost
  <1>1. SiemBase /\ SiemKept => NothingLost
    <2> SUFFICES ASSUME SiemBase, SiemKept PROVE NothingLost
      OBVIOUS
    <2>1. ASSUME NEW t, Held(t) PROVE Somewhere(t)
      <3>1. Coming(t) => t \in Range(stdin)
        BY RangeIs DEF Coming, SiemBase, TypeOK
      <3>2. Filed(t) => t \in StoredTexts
        BY RangeIs DEF Filed, StoredTexts, SiemBase, TypeOK
      <3> QED BY <2>1, <3>1, <3>2 DEF Held, Somewhere
    <2>2. \A l : InHand(l) => Kept(l)
      BY <2>1 DEF InHand, Kept
    <2> QED BY <2>2 DEF SiemKept, LinesHeld, NothingLost
  <1> QED BY <1>1, SiemBaseHolds, SiemKeptHolds, PTL

-----------------------------------------------------------------------------
(* elastic: each line read is queued, stored or told of.                   *)
LineOf(n) == <<Files[Len(by)][n], "whole">>

Accounted ==
    cmd = "elastic" =>
        \A n \in 1..Len(Files[Len(by)]) :
            n <= cnt => LineOf(n) \in Range(batch) \cup StoredTexts \cup failed

\* Steps that touch no account.
LEMMA AccountOn ==
    ASSUME Accounted, UNCHANGED <<cmd, by, cnt, batch, stored, failed>>
    PROVE  Accounted'
  BY DEF Accounted, LineOf, StoredTexts

\* A line is handed to the indexer.
LEMMA AddAccount ==
    ASSUME SiemBase, InOrder, Accounted, ElasticAdd
    PROVE  Accounted'
  <1>1. CASE ~MoreLines
    BY <1>1, AccountOn DEF ElasticAdd
  <1>2. CASE MoreLines
    <2>1. /\ cmd = "elastic" /\ stdin # <<>> /\ cnt' = cnt + 1
          /\ batch' = Append(batch, Head(stdin)) /\ UNCHANGED <<cmd, by, stored, failed>>
      BY <1>2 DEF ElasticAdd, MoreLines, At
    <2>2. Head(stdin) \in Text /\ batch \in Seq(Text) /\ cnt \in Nat
      BY <2>1, NextLine DEF SiemBase, TypeOK
    <2>3. cnt + 1 \in 1..Len(Files[Len(by)]) /\ Head(stdin) = LineOf(cnt + 1)
      BY <2>1, FirstInOrder DEF LineOf
    <2>4. \A x : x \in Range(batch') <=> x \in Range(batch) \/ x = Head(stdin)
      BY <2>1, <2>2, RangeOfAppend
    <2>5. StoredTexts' = StoredTexts
      BY <2>1 DEF StoredTexts
    <2>6. ASSUME NEW n \in 1..Len(Files[Len(by)]), n <= cnt'
          PROVE  LineOf(n) \in Range(batch') \cup StoredTexts \cup failed
      <3>1. n <= cnt \/ n = cnt + 1
        BY <2>1, <2>2, <2>6
      <3> QED BY <2>1, <2>3, <2>4, <3>1 DEF Accounted
    <2> QED BY <2>1, <2>5, <2>6 DEF Accounted, LineOf
  <1> QED BY <1>1, <1>2

(* A worker takes a line out of the queue: it is stored, told of, or both. *)
LEMMA WorkerAccount ==
    ASSUME SiemBase, Accounted, ElasticWorker
    PROVE  Accounted'
  <1>1. PICK i \in 1..Len(batch) :
           /\ batch' = RemoveAt(batch, i)
           /\ stored' = stored \/ stored' = stored \o Docs(<<batch[i]>>)
           /\ failed' = failed \/ failed' = failed \cup {batch[i]}
           /\ stored' = stored \o Docs(<<batch[i]>>) \/ failed' = failed \cup {batch[i]}
    BY DEF ElasticWorker
  <1>2. cmd = "elastic" /\ UNCHANGED <<cmd, by, cnt>>
    BY DEF ElasticWorker
  <1>3. batch \in Seq(Text) /\ stored \in Seq(Doc) /\ batch[i] \in Text
    BY DEF SiemBase, TypeOK
  <1>4. <<batch[i]>> \in Seq(Text) /\ Len(<<batch[i]>>) = 1 /\ <<batch[i]>>[1] = batch[i]
    BY <1>3
  \* The document of the line comes to those that are there.
  <1>5. PICK d : d = Docs(<<batch[i]>>)
    OBVIOUS
  <1>6. d \in Seq(Doc) /\ Len(d) = 1 /\ d[1].text = batch[i]
    <2>1. 1 \in 1..Len(<<batch[i]>>)
      BY <1>4
    <2> QED BY <1>4, <1>5, <2>1, DocsHolds
  <1>7. \A x : x \in Range(stored \o d) <=> x \in Range(stored) \/ x \in Range(d)
    BY <1>3, <1>6, RangeOfTwo
  <1>8. d[1] \in Range(d)
    <2>1. 1 \in 1..Len(d)
      BY <1>6
    <2> QED BY <1>6, <2>1, RangeIs
  <1>9. StoredTexts \subseteq StoredTexts'
    BY <1>1, <1>5, <1>7 DEF StoredTexts
  <1>10. stored' = stored \o Docs(<<batch[i]>>) => batch[i] \in StoredTexts'
    BY <1>5, <1>6, <1>7, <1>8 DEF StoredTexts
  \* The queue keeps all but that line.
  <1>11. batch' \in Seq(Text) /\ Len(batch') = Len(batch) - 1
         /\ \A j \in 1..(Len(batch) - 1) : batch'[j] = IF j < i THEN batch[j] ELSE batch[j + 1]
    BY <1>1, <1>3, RemoveHolds
  <1>12. ASSUME NEW x \in Range(batch), x # batch[i] PROVE x \in Range(batch')
    <2>1. PICK m \in 1..Len(batch) : x = batch[m]
      BY <1>3, RangeIs
    <2>2. CASE m < i
      <3>1. m \in 1..Len(batch') /\ batch'[m] = x
        BY <1>3, <1>11, <2>1, <2>2
      <3> QED BY <1>11, <3>1, RangeIs
    <2>3. CASE i < m
      <3>1. m - 1 \in 1..Len(batch') /\ batch'[m - 1] = x
        BY <1>3, <1>11, <2>1, <2>3
      <3> QED BY <1>11, <3>1, RangeIs
    <2> QED BY <1>12, <2>1, <2>2, <2>3
  <1>13. ASSUME NEW x \in Range(batch) \cup StoredTexts \cup failed
         PROVE  x \in Range(batch') \cup StoredTexts' \cup failed'
    <2>1. x = batch[i] => x \in StoredTexts' \cup failed'
      BY <1>1, <1>10
    <2> QED BY <1>1, <1>9, <1>12, <2>1
  <1>14. \A n : LineOf(n)' = LineOf(n)
    BY <1>2 DEF LineOf
  <1> QED BY <1>2, <1>13, <1>14 DEF Accounted

\* What of its lines elastic has read is accounted for.
THEOREM SiemAccountHolds == Spec => []Accounted
  <1>1. Init => Accounted
    BY DEF Init, Accounted
  <1>2. ASSUME SiemBase, SiemOrder, Accounted, [Next]_vars PROVE Accounted'
    <2>1. InOrder
      BY <1>2 DEF SiemOrder
    <2>2. CASE RunNext
      \* A new run has read nothing.
      <3>1. cnt' = 0
        BY <2>2 DEF RunNext, Begin
      <3> QED BY <3>1 DEF Accounted
    <2>3. CASE ElasticAdd
      BY <1>2, <2>1, <2>3, AddAccount
    <2>4. CASE ElasticWorker
      BY <1>2, <2>4, WorkerAccount
    <2>5. CASE ElasticCreate \/ ElasticClose \/ UNCHANGED vars
      BY <1>2, <2>5, AccountOn DEF ElasticCreate, ElasticClose, vars
    <2>6. CASE Sentinel \/ Opensearch \/ Splunk
      <3>1. cmd # "elastic" /\ cmd' = cmd
        BY <2>6 DEF Sentinel, SentinelScan, SentinelEnd, sendBatch, Opensearch, OpensearchCreate,
                    OpensearchLine, OpensearchEnd, Splunk, SplunkScan, connectSplunkRetry, At
      <3> QED BY <3>1 DEF Accounted
    <2> QED BY <1>2, <2>2, <2>3, <2>4, <2>5, <2>6 DEF Next, Elastic
  <1> QED BY <1>1, <1>2, SiemBaseHolds, SiemOrderHolds, PTL DEF Spec

(* For any files, whatever the workers' order and the service's failures   *)
(* and lost answers: when elastic has ended, each line it could read was   *)
(* stored or its failure told.                                             *)
THEOREM ElasticAccountsHolds == Spec => []ElasticAccounts
  <1>1. ASSUME SiemBase, InOrder, Accounted PROVE ElasticAccounts
    <2> SUFFICES ASSUME cmd = "elastic", pc = "ended", NEW n \in 1..Len(Files[Len(by)]),
                        Readable(Len(by), n)
                 PROVE  LineOf(n) \in StoredTexts \cup failed
      BY DEF ElasticAccounts, At, LineOf
    <2>1. batch = <<>> /\ ~MoreLines
      BY <1>1 DEF SiemBase, Counted
    <2>2. by[Len(by)] = cmd /\ cnt \in Nat /\ Len(stdin) + cnt = Len(Files[Len(by)])
          /\ Len(stdin) \in Nat /\ stdin \in Seq(Text)
      BY <1>1 DEF InOrder, SiemBase, TypeOK
    \* What is left begins with a line that does not fit, after the n-th.
    <2>3. n <= cnt
      <3>1. CASE stdin = <<>>
        BY <2>2, <3>1
      <3>2. CASE stdin # <<>>
        <4>1. cnt + 1 \in 1..Len(Files[Len(by)]) /\ Head(stdin) = LineOf(cnt + 1)
          BY <1>1, <3>2, FirstInOrder DEF LineOf
        <4>2. kind[Files[Len(by)][cnt + 1]] \in TooLong(by[Len(by)])
          BY <2>1, <2>2, <3>2, <4>1 DEF MoreLines, Fits, LineOf
        <4>3. ~(cnt + 1 \in 1..n)
          BY <4>2 DEF Readable
        <4> QED BY <2>2, <4>1, <4>3
      <3> QED BY <3>1, <3>2
    <2>4. LineOf(n) \notin Range(batch)
      BY <2>1 DEF Range
    <2> QED BY <1>1, <2>3, <2>4 DEF Accounted
  <1> QED BY <1>1, SiemBaseHolds, SiemOrderHolds, SiemAccountHolds, PTL DEF SiemOrder
=============================================================================
