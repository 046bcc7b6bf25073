-------------------------- MODULE ElasticDumpProof --------------------------
(***************************************************************************)
(* For every set of indices, any number of pages and every combination of  *)
(* faults: the dump of each index is DumpStream's.  What has to be known   *)
(* is that the goroutine that has hits in hand, and may write them, holds  *)
(* the page the server handed out last, and that it is not in the file.    *)
(***************************************************************************)
EXTENDS ElasticDump, FiniteSetTheorems, TLAPS

State == {"none", "search", "create", "page", "scroll", "send", "panic", "gone"}
Typed ==
    /\ g \in [Index -> State]
    /\ cursor \in [Index -> Nat]
    /\ hit \in [Index -> [hits : BOOLEAN, next : BOOLEAN]]
    /\ file \in [Index -> Seq(Index \X (Nat \ {0}))]

NoLater(i) == \A n \in 1..Len(file[i]) : file[i][n][2] <= cursor[i]
Fresh(i) == cursor[i] > 0 /\ \A n \in 1..Len(file[i]) : file[i][n][2] < cursor[i]
InHands(i) == g[i] \in {"create", "page"} /\ hit[i].hits

Streams == \A i \in Index : NoLater(i) /\ (InHands(i) => Fresh(i))

StreamInv == Typed /\ Streams

\* What a goroutine changes is of its own index.
OthersStay(i) ==
    \A j \in Index : j # i => /\ g'[j] = g[j] /\ hit'[j] = hit[j]
                              /\ cursor'[j] = cursor[j] /\ file'[j] = file[j]

-----------------------------------------------------------------------------
\* The files are empty at the start.
LEMMA StreamBegins == DumpInit => StreamInv
  <1> SUFFICES ASSUME DumpInit PROVE StreamInv
    OBVIOUS
  <1>1. /\ g = [i \in Index |-> "none"] /\ cursor = [i \in Index |-> 0]
        /\ hit = [i \in Index |-> [hits |-> FALSE, next |-> FALSE]]
        /\ file = [i \in Index |-> <<>>]
    BY DEF DumpInit
  <1>2. <<>> \in Seq(Index \X (Nat \ {0}))
    OBVIOUS
  <1>3. Typed
    BY <1>1, <1>2 DEF Typed, State
  <1>4. \A i \in Index : g[i] = "none" /\ Len(file[i]) = 0
    BY <1>1
  <1>5. Streams
    BY <1>4 DEF Streams, NoLater, InHands
  <1> QED BY <1>3, <1>5 DEF StreamInv

(* An index whose goroutine did nothing is as it was.                      *)
LEMMA OneIndex ==
    ASSUME StreamInv, NEW i \in Index, Typed', OthersStay(i),
           NoLater(i)', InHands(i)' => Fresh(i)'
    PROVE  StreamInv'
  <1> SUFFICES ASSUME NEW j \in Index, j # i
               PROVE  NoLater(j)' /\ (InHands(j)' => Fresh(j)')
    BY DEF StreamInv, Streams
  <1>1. /\ g'[j] = g[j] /\ hit'[j] = hit[j] /\ cursor'[j] = cursor[j]
        /\ file'[j] = file[j]
    BY DEF OthersStay
  <1> QED BY <1>1 DEF StreamInv, Streams, NoLater, InHands, Fresh

(* Nothing but the place of a goroutine changes, or not even that.         *)
LEMMA PlaceOnly ==
    ASSUME StreamInv, NEW i \in Index, NEW st \in State, Goes(i, st),
           InHands(i) \/ st \notin {"create", "page"},
           UNCHANGED <<cursor, hit, file>>
    PROVE  StreamInv'
  <1>1. Typed'
    BY DEF StreamInv, Typed, Goes
  <1>2. OthersStay(i) /\ g'[i] = st
    BY DEF StreamInv, Typed, Goes, OthersStay
  <1>3. NoLater(i)' /\ (InHands(i)' => Fresh(i)')
    BY <1>2 DEF StreamInv, Streams, NoLater, InHands, Fresh
  <1> QED BY <1>1, <1>2, <1>3, OneIndex

(* An answer with hits is of a page that was not handed out before.        *)
LEMMA AnswerGives ==
    ASSUME StreamInv, NEW i \in Index, Answer(i)
    PROVE  /\ cursor' \in [Index -> Nat]
           /\ hit' \in [Index -> [hits : BOOLEAN, next : BOOLEAN]]
           /\ \A j \in Index : j # i => hit'[j] = hit[j] /\ cursor'[j] = cursor[j]
           /\ cursor'[i] \in {cursor[i], cursor[i] + 1}
           /\ hit'[i].hits => cursor'[i] = cursor[i] + 1
  <1> USE DEF InHand, Fetch
  <1>1. cursor \in [Index -> Nat] /\ hit \in [Index -> [hits : BOOLEAN, next : BOOLEAN]]
    BY DEF StreamInv, Typed
  <1>2. CASE Fetch(i) /\ \E hits, next \in BOOLEAN : InHand(i, hits, next)
    BY <1>1, <1>2
  <1>3. CASE UNCHANGED cursor /\ \E next \in BOOLEAN : InHand(i, FALSE, next)
    BY <1>1, <1>3
  <1> QED BY <1>2, <1>3 DEF Answer

\* A goroutine is answered, and goes on with what it got.
LEMMA AnswerStep ==
    ASSUME StreamInv, NEW i \in Index, Answer(i), NEW st \in State, Goes(i, st),
           UNCHANGED file
    PROVE  StreamInv'
  <1>1. Typed'
    BY AnswerGives DEF StreamInv, Typed, Goes
  <1>2. OthersStay(i)
    BY AnswerGives DEF StreamInv, Typed, Goes, OthersStay
  <1>3. cursor[i] \in Nat /\ file[i] \in Seq(Index \X (Nat \ {0})) /\ NoLater(i)
    BY DEF StreamInv, Typed, Streams
  <1>4. \A n \in 1..Len(file[i]) : file[i][n] \in Index \X (Nat \ {0})
    BY <1>3
  <1>5. \A n \in 1..Len(file[i]) : file[i][n][2] \in Nat
    BY <1>4
  <1>a. cursor'[i] \in {cursor[i], cursor[i] + 1} /\ UNCHANGED file
        /\ (hit'[i].hits => cursor'[i] = cursor[i] + 1)
    BY AnswerGives
  <1>6. NoLater(i)'
    BY <1>3, <1>5, <1>a DEF NoLater
  <1>7. hit'[i].hits => Fresh(i)'
    BY <1>3, <1>5, <1>a DEF NoLater, Fresh
  <1> QED BY <1>1, <1>2, <1>6, <1>7, OneIndex DEF InHands

\* A goroutine is not answered, and goes on to tell main.
LEMMA NoAnswerStep ==
    ASSUME StreamInv, NEW i \in Index, NoAnswer(i), UNCHANGED file
    PROVE  StreamInv'
  <1>1. /\ cursor' \in [Index -> Nat] /\ cursor'[i] \in {cursor[i], cursor[i] + 1}
        /\ \A j \in Index : j # i => cursor'[j] = cursor[j]
    <2>1. cursor \in [Index -> Nat]
      BY DEF StreamInv, Typed
    <2>2. CASE Fetch(i)
      BY <2>1, <2>2 DEF Fetch
    <2>3. CASE UNCHANGED cursor
      BY <2>1, <2>3
    <2> QED BY <2>2, <2>3 DEF NoAnswer
  <1>2. g' = [g EXCEPT ![i] = "send"] /\ hit' = hit
    BY DEF NoAnswer, Goes
  <1>3. Typed' /\ OthersStay(i) /\ g'[i] = "send"
    BY <1>1, <1>2 DEF StreamInv, Typed, State, OthersStay
  <1>4. cursor[i] \in Nat /\ file[i] \in Seq(Index \X (Nat \ {0})) /\ NoLater(i)
    BY DEF StreamInv, Typed, Streams
  <1>5. \A n \in 1..Len(file[i]) : file[i][n] \in Index \X (Nat \ {0})
    BY <1>4
  <1>6. \A n \in 1..Len(file[i]) : file[i][n][2] \in Nat
    BY <1>5
  <1>7. NoLater(i)'
    <2>1. \A m \in Nat : m <= cursor[i] => m <= cursor'[i]
      BY <1>1, <1>4
    <2> QED BY <1>4, <1>6, <2>1 DEF NoLater
  <1> QED BY <1>3, <1>7, OneIndex DEF InHands

(* The hits in hand go to the end of the file, and out of hand.            *)
LEMMA PageStep ==
    ASSUME StreamInv, NEW i \in Index, Page(i)
    PROVE  StreamInv'
  <1> DEFINE x == <<i, cursor[i]>>
  <1>1. /\ g[i] = "page" /\ UNCHANGED <<cursor, hit>>
        /\ \E st \in {"scroll", "send"} : Goes(i, st)
        /\ \/ UNCHANGED file
           \/ hit[i].hits /\ file' = [file EXCEPT ![i] = Append(file[i], x)]
    BY DEF Page, At, GoOn, WriteHits
  <1>2. PICK st \in {"scroll", "send"} : Goes(i, st)
    BY <1>1
  <1>3. CASE UNCHANGED file
    BY <1>1, <1>2, <1>3, PlaceOnly DEF State
  <1>4. CASE hit[i].hits /\ file' = [file EXCEPT ![i] = Append(file[i], x)]
    <2>1. Fresh(i) /\ NoLater(i) /\ cursor[i] \in Nat
      BY <1>1, <1>4 DEF StreamInv, Streams, InHands, Typed
    <2>2. file \in [Index -> Seq(Index \X (Nat \ {0}))] /\ x \in Index \X (Nat \ {0})
      BY <2>1 DEF StreamInv, Typed, Fresh
    <2> DEFINE s == file[i]
    <2>3. s \in Seq(Index \X (Nat \ {0}))
      BY <2>2
    <2>4. /\ Append(s, x) \in Seq(Index \X (Nat \ {0})) /\ Len(Append(s, x)) = Len(s) + 1
          /\ \A n \in 1..Len(s) : Append(s, x)[n] = s[n]
          /\ Append(s, x)[Len(s) + 1] = x /\ Len(s) \in Nat
      BY <2>2, <2>3
    <2>5. Typed' /\ g'[i] = st
      BY <1>1, <1>2, <1>4, <2>2, <2>4 DEF StreamInv, Typed, State, Goes
    <2>6. OthersStay(i) /\ file'[i] = Append(s, x)
      BY <1>1, <1>2, <1>4, <2>2 DEF StreamInv, Typed, Goes, OthersStay
    <2>7. \A n \in 1..(Len(s) + 1) : n \in 1..Len(s) \/ n = Len(s) + 1
      BY <2>4
    <2>8. x[2] = cursor[i]
      OBVIOUS
    <2>9. NoLater(i)'
      BY <1>1, <2>1, <2>4, <2>6, <2>7, <2>8 DEF NoLater
    <2> QED BY <2>5, <2>6, <2>9, OneIndex DEF InHands
  <1> QED BY <1>1, <1>3, <1>4

(* What main does, the channel and the crash touch no index's dump.        *)
LEMMA DumpMainStep ==
    ASSUME StreamInv,
           \/ GetIndexList \/ LookAt \/ StartAll \/ Exit \/ UNCHANGED dumpVars
           \/ \E i \in Index : Done(i) \/ Crash(i)
    PROVE  StreamInv' /\ UNCHANGED <<cursor, file>>
  <1>1. CASE StartAll
    <2>1. UNCHANGED <<cursor, hit, file>> /\ g' \in [Index -> State]
      BY <1>1 DEF StartAll, State, StreamInv, Typed
    <2>2. \A i \in Index : g'[i] \in {"create", "page"} => g[i] \in {"create", "page"}
      BY <1>1 DEF StartAll
    <2> QED BY <2>1, <2>2 DEF StreamInv, Typed, Streams, NoLater, InHands, Fresh
  <1>2. CASE GetIndexList \/ LookAt \/ Exit \/ UNCHANGED dumpVars \/ \E i \in Index : Crash(i)
    <2>1. UNCHANGED <<g, cursor, hit, file>>
      BY <1>2 DEF GetIndexList, LookAt, Exit, Crash, dumpVars
    <2> QED BY <2>1 DEF StreamInv, Typed, Streams, NoLater, InHands, Fresh
  <1>3. ASSUME NEW i \in Index, Done(i) PROVE StreamInv' /\ UNCHANGED <<cursor, file>>
    <2>1. UNCHANGED <<cursor, hit, file>> /\ \E st \in {"gone", "panic"} : Goes(i, st)
      BY <1>3 DEF Done
    <2> QED BY <2>1, PlaceOnly DEF State
  <1> QED BY <1>1, <1>2, <1>3

(* The invariant is inductive, and each step is one of the stream's.       *)
LEMMA StreamStep ==
    ASSUME StreamInv, [DumpNext]_dumpVars
    PROVE  StreamInv' /\ [Stream!StreamNext]_<<cursor, file>>
  <1> DEFINE Goal == StreamInv' /\ [Stream!StreamNext]_<<cursor, file>>
  <1>1. ASSUME NEW i \in Index, \/ Fetch(i) \/ UNCHANGED cursor, UNCHANGED file
        PROVE  [Stream!StreamNext]_<<cursor, file>>
    BY <1>1 DEF Fetch, Stream!StreamNext, Stream!Serve
  <1>2. ASSUME NEW i \in Index, Search(i) \/ Scroll(i) PROVE Goal
    <2>1. UNCHANGED file /\ (Fetch(i) \/ UNCHANGED cursor)
      BY <1>2 DEF Search, Scroll, Answer, NoAnswer
    <2>2. NoAnswer(i) \/ (Answer(i) /\ \E st \in State : Goes(i, st))
      BY <1>2 DEF Search, Scroll, State
    <2> QED BY <1>1, <2>1, <2>2, AnswerStep, NoAnswerStep
  <1>3. ASSUME NEW i \in Index, Create(i) PROVE Goal
    <2>1. UNCHANGED <<cursor, hit, file>> /\ g[i] = "create"
          /\ (Goes(i, "page") \/ Goes(i, "send"))
      BY <1>3 DEF Create, At
    <2>2. StreamInv'
      <3>1. Typed' /\ OthersStay(i)
        BY <2>1 DEF StreamInv, Typed, State, Goes, OthersStay
      <3>2. NoLater(i)' /\ (InHands(i)' => Fresh(i)')
        BY <2>1 DEF StreamInv, Streams, NoLater, InHands, Fresh
      <3> QED BY <3>1, <3>2, OneIndex
    <2> QED BY <2>1, <2>2
  <1>4. ASSUME NEW i \in Index, Page(i) PROVE Goal
    <2>1. StreamInv'
      BY <1>4, PageStep
    <2>2. CASE UNCHANGED file
      BY <1>4, <2>1, <2>2 DEF Page
    <2>3. CASE hit[i].hits /\ file' = [file EXCEPT ![i] = Append(@, <<i, cursor[i]>>)]
      <3>1. Fresh(i) /\ UNCHANGED cursor
        BY <1>4, <2>3 DEF StreamInv, Streams, InHands, Page, At
      <3>2. Stream!Keep(i)
        BY <2>3, <3>1 DEF Stream!Keep, Fresh
      <3> QED BY <2>1, <3>2 DEF Stream!StreamNext
    <2> QED BY <1>4, <2>2, <2>3 DEF Page, WriteHits
  <1>5. CASE \/ GetIndexList \/ LookAt \/ StartAll \/ Exit \/ UNCHANGED dumpVars
             \/ \E i \in Index : Done(i) \/ Crash(i)
    BY <1>5, DumpMainStep
  <1> QED BY <1>2, <1>3, <1>4, <1>5 DEF DumpNext

(* Whatever fails, each file is a stream of its own index's pages, in      *)
(* order and none twice (elasticdump.go:42-86).                            *)
THEOREM DumpIsStream == DumpSpec => DumpSafe
  <1>1. DumpInit => StreamInv /\ Stream!StreamInit
    BY StreamBegins DEF DumpInit, Stream!StreamInit
  <1>2. StreamInv /\ [DumpNext]_dumpVars
          => StreamInv' /\ [Stream!StreamNext]_<<cursor, file>>
    BY StreamStep
  <1> QED BY <1>1, <1>2, PTL DEF DumpSpec, DumpSafe, Stream!StreamSpec, Stream!streamVars

-----------------------------------------------------------------------------
\* What is known of an index while all its answers and writes were proper.
Prefix(i, n) == Len(file[i]) = n /\ \A k \in 1..n : file[i][k] = <<i, k>>
Proper(i) ==
    /\ cursor[i] <= Pages[i]
    /\ g[i] \in {"none", "search"} => cursor[i] = 0 /\ Prefix(i, 0)
    /\ g[i] \in {"create", "page"} =>
          /\ hit[i].next
          /\ IF hit[i].hits THEN cursor[i] > 0 /\ Prefix(i, cursor[i] - 1)
             ELSE cursor[i] = Pages[i] /\ Prefix(i, cursor[i])
    /\ g[i] = "scroll" => Prefix(i, cursor[i])
    /\ okay[i] => Prefix(i, Pages[i])
IndexInv(i) ==
    /\ okay[i] => g[i] \in {"send", "gone", "panic"}
    /\ ~bad[i] => Proper(i)

\* Those that have told main, and those the list is still to be made of.
HaveTold == {i \in Index : g[i] \in {"gone", "panic"}}
ListInv ==
    /\ offered \in Seq(Index) /\ indexList \in Seq(Index)
    /\ \A j, k \in 1..Len(offered) : offered[j] = offered[k] => j = k
    /\ \A j \in 1..Len(offered) : offered[j] \notin Range(indexList)
    /\ IsFiniteSet(Range(indexList)) /\ Cardinality(Range(indexList)) = Len(indexList)
    /\ dumpMain = "list" => indexList = <<>>
CountInv ==
    /\ dumpMain \in {"list", "filter"} => \A i \in Index : g[i] = "none"
    /\ \A i \in Index : g[i] # "none" => i \in Range(indexList)
    /\ got = Cardinality(HaveTold)
    /\ dumpMain = "exit" => got = Len(indexList)
    /\ blamed = {} <=> \A i \in HaveTold : okay[i]

ToldTyped ==
    /\ Typed /\ okay \in [Index -> BOOLEAN] /\ bad \in [Index -> BOOLEAN]
    /\ dumpMain \in {"list", "filter", "wait", "exit", "crash"}
ToldInv == ToldTyped /\ ListInv /\ CountInv /\ \A i \in Index : IndexInv(i)

\* Before the first goroutine nobody has told anything.
LEMMA ToldBegins == DumpInit => ToldInv
  <1> SUFFICES ASSUME DumpInit PROVE ToldInv
    OBVIOUS
  <1>1. /\ dumpMain = "list" /\ offered = <<>> /\ indexList = <<>> /\ got = 0 /\ blamed = {}
        /\ g = [i \in Index |-> "none"] /\ okay = [i \in Index |-> FALSE]
        /\ cursor = [i \in Index |-> 0] /\ file = [i \in Index |-> <<>>]
        /\ bad = [i \in Index |-> FALSE]
    BY DEF DumpInit
  <1>2. ToldTyped
    BY <1>1, StreamBegins DEF ToldTyped, StreamInv
  <1>3. Len(<<>>) = 0 /\ <<>> \in Seq(Index) /\ Range(<<>>) = {} /\ HaveTold = {}
    BY <1>1 DEF Range, HaveTold
  <1>4. ListInv
    BY <1>1, <1>3, FS_EmptySet DEF ListInv
  <1>5. CountInv
    BY <1>1, <1>3, FS_EmptySet DEF CountInv
  <1>6. ASSUME NEW i \in Index PROVE IndexInv(i)
    <2>1. g[i] = "none" /\ ~okay[i] /\ cursor[i] = 0 /\ file[i] = <<>> /\ Pages[i] \in Nat
      BY <1>1, DumpAssumption
    <2> QED BY <1>3, <2>1 DEF IndexInv, Proper, Prefix
  <1> QED BY <1>2, <1>4, <1>5, <1>6 DEF ToldInv

\* A step of the goroutine of i up to its send.
Works(i) ==
    /\ dumpMain = "wait" /\ UNCHANGED <<dumpMain, offered, indexList, got, blamed>>
    /\ g[i] \in {"search", "create", "page", "scroll"}
    /\ g'[i] \in {"create", "page", "scroll", "send"}
    /\ \A j \in Index : j # i => /\ g'[j] = g[j] /\ hit'[j] = hit[j] /\ cursor'[j] = cursor[j]
                                 /\ file'[j] = file[j] /\ okay'[j] = okay[j] /\ bad'[j] = bad[j]

\* A goroutine at work changes none of main's counts.
LEMMA WorkKeeps ==
    ASSUME ToldInv, NEW i \in Index, Works(i), ToldTyped', IndexInv(i)'
    PROVE  ToldInv'
  <1>1. HaveTold' = HaveTold /\ \A j \in HaveTold : okay'[j] = okay[j]
    BY DEF Works, HaveTold
  <1>2. ListInv' /\ ListInv /\ CountInv
    BY DEF ToldInv, ListInv, Works
  <1>3. CountInv'
    <2>1. dumpMain' = "wait" /\ UNCHANGED <<indexList, got, blamed>>
      BY DEF Works
    <2>2. \A j \in Index : g'[j] # "none" => g[j] # "none"
      BY DEF Works
    <2> QED BY <1>1, <1>2, <2>1, <2>2 DEF CountInv
  <1>4. ASSUME NEW j \in Index, j # i PROVE IndexInv(j)'
    BY <1>4 DEF Works, ToldInv, IndexInv, Proper, Prefix
  <1> QED BY <1>2, <1>3, <1>4 DEF ToldInv

\* An answer was not proper, or is the next page or that there is none.
LEMMA AnswerIs ==
    ASSUME ToldTyped, NEW i \in Index, Answer(i)
    PROVE  /\ bad' \in [Index -> BOOLEAN]
           /\ \A j \in Index : j # i => /\ hit'[j] = hit[j] /\ cursor'[j] = cursor[j]
                                        /\ bad'[j] = bad[j]
           /\ \/ bad'[i]
              \/ /\ bad'[i] = bad[i] /\ hit'[i].next
                 /\ \/ hit'[i].hits /\ Left(i) /\ cursor'[i] = cursor[i] + 1
                    \/ ~hit'[i].hits /\ ~Left(i) /\ cursor'[i] = cursor[i]
  <1>1. /\ cursor \in [Index -> Nat] /\ bad \in [Index -> BOOLEAN]
        /\ hit \in [Index -> [hits : BOOLEAN, next : BOOLEAN]]
    BY DEF ToldTyped, Typed
  <1>2. CASE Left(i) /\ Fetch(i) /\ InHand(i, TRUE, TRUE) /\ UNCHANGED bad
    BY <1>1, <1>2 DEF Fetch, InHand
  <1>3. CASE ~Left(i) /\ InHand(i, FALSE, TRUE) /\ UNCHANGED <<cursor, bad>>
    BY <1>1, <1>3 DEF InHand
  <1>4. CASE Spoil(i) /\ (Fetch(i) \/ UNCHANGED cursor) /\ \E hits, next \in BOOLEAN : InHand(i, hits, next)
    BY <1>1, <1>4 DEF Fetch, InHand, Spoil
  <1> QED BY <1>2, <1>3, <1>4 DEF Answer

\* What the goroutine of i does to the rest.
LEMMA WorkPlace ==
    ASSUME ToldTyped, NEW i \in Index, NEW st \in State, Goes(i, st)
    PROVE  g'[i] = st /\ \A j \in Index : j # i => g'[j] = g[j]
  BY DEF ToldTyped, Typed, Goes

\* A request without an answer: the goroutine is to tell main.
LEMMA NoAnswerIs ==
    ASSUME ToldInv, NEW i \in Index, NoAnswer(i), ~okay[i], UNCHANGED okay,
           g[i] \in {"search", "create", "page", "scroll"}, dumpMain = "wait",
           UNCHANGED <<dumpMain, offered, indexList, got, blamed, file>>, Typed'
    PROVE  ToldInv'
  <1>1. g'[i] = "send" /\ \A j \in Index : j # i => g'[j] = g[j]
    BY WorkPlace DEF NoAnswer, State, ToldInv
  <1>2. cursor \in [Index -> Nat] /\ Pages[i] \in Nat
    BY DumpAssumption DEF ToldInv, ToldTyped, Typed
  <1>3. /\ \A j \in Index : j # i => cursor'[j] = cursor[j]
        /\ cursor'[i] = cursor[i] \/ (cursor'[i] = cursor[i] + 1 /\ Left(i))
    BY <1>2 DEF NoAnswer, Fetch
  <1>4. UNCHANGED <<hit, bad>>
    BY DEF NoAnswer
  <1>5. ToldTyped' /\ Works(i)
    BY <1>1, <1>3, <1>4 DEF ToldInv, ToldTyped, Works
  <1>6. cursor[i] <= Pages[i] => cursor'[i] <= Pages[i]
    BY <1>2, <1>3 DEF Left
  <1>7. IndexInv(i)'
    BY <1>1, <1>4, <1>6 DEF ToldInv, IndexInv, Proper
  <1> QED BY <1>5, <1>7, WorkKeeps

\* The first page is asked for.
LEMMA ToldSearch == ASSUME ToldInv, Typed', NEW i \in Index, Search(i) PROVE ToldInv'
  <1>1. /\ dumpMain = "wait" /\ g[i] = "search"
        /\ UNCHANGED <<dumpMain, offered, indexList, got, blamed, okay, file>>
    BY DEF Search, At
  <1>2. ~okay[i] /\ IndexInv(i) /\ ToldTyped
    BY <1>1 DEF ToldInv, IndexInv
  <1>3. CASE NoAnswer(i)
    BY <1>1, <1>2, <1>3, NoAnswerIs
  <1>4. CASE Answer(i) /\ Goes(i, "create")
    <2>1. g'[i] = "create" /\ \A j \in Index : j # i => g'[j] = g[j]
      BY <1>2, <1>4, WorkPlace DEF State
    <2>2. /\ bad' \in [Index -> BOOLEAN]
          /\ \A j \in Index : j # i => hit'[j] = hit[j] /\ cursor'[j] = cursor[j] /\ bad'[j] = bad[j]
          /\ \/ bad'[i]
             \/ /\ bad'[i] = bad[i] /\ hit'[i].next
                /\ \/ hit'[i].hits /\ Left(i) /\ cursor'[i] = cursor[i] + 1
                   \/ ~hit'[i].hits /\ ~Left(i) /\ cursor'[i] = cursor[i]
      BY <1>2, <1>4, AnswerIs
    <2>3. ToldTyped' /\ Works(i)
      BY <1>1, <1>2, <2>1, <2>2 DEF ToldTyped, Works
    <2>4. Pages[i] \in Nat
      BY DumpAssumption
    <2>5. ~bad'[i] => Proper(i)'
      <3> SUFFICES ASSUME ~bad'[i] PROVE Proper(i)'
        OBVIOUS
      <3>1. cursor[i] = 0 /\ Prefix(i, 0) /\ cursor[i] <= Pages[i]
        BY <1>1, <1>2, <2>2 DEF IndexInv, Proper
      <3>2. CASE hit'[i].hits /\ hit'[i].next /\ Left(i) /\ cursor'[i] = cursor[i] + 1
        BY <1>1, <1>2, <2>1, <2>4, <3>1, <3>2 DEF Proper, Prefix, Left
      <3>3. CASE ~hit'[i].hits /\ hit'[i].next /\ ~Left(i) /\ cursor'[i] = cursor[i]
        BY <1>1, <1>2, <2>1, <2>4, <3>1, <3>3 DEF Proper, Prefix, Left
      <3> QED BY <2>2, <3>2, <3>3
    <2>6. IndexInv(i)'
      BY <1>1, <1>2, <2>1, <2>5 DEF IndexInv
    <2> QED BY <2>3, <2>6, WorkKeeps
  <1> QED BY <1>3, <1>4 DEF Search

\* The file of an index is created.
LEMMA ToldCreate == ASSUME ToldInv, Typed', NEW i \in Index, Create(i) PROVE ToldInv'
  <1>1. /\ dumpMain = "wait" /\ g[i] = "create"
        /\ UNCHANGED <<dumpMain, offered, indexList, got, blamed, okay, cursor, hit, file, bad>>
    BY DEF Create, At
  <1>2. ~okay[i] /\ IndexInv(i) /\ ToldTyped
    BY <1>1 DEF ToldInv, IndexInv
  <1>3. g'[i] \in {"page", "send"} /\ \A j \in Index : j # i => g'[j] = g[j]
    BY <1>2, WorkPlace DEF Create, State
  <1>4. ToldTyped' /\ Works(i)
    BY <1>1, <1>2, <1>3 DEF ToldTyped, Works
  <1>5. IndexInv(i)'
    BY <1>1, <1>2, <1>3 DEF IndexInv, Proper, Prefix
  <1> QED BY <1>4, <1>5, WorkKeeps

\* A page goes to the file.
LEMMA ToldPage == ASSUME ToldInv, Typed', NEW i \in Index, Page(i) PROVE ToldInv'
  <1>1. /\ dumpMain = "wait" /\ g[i] = "page"
        /\ UNCHANGED <<dumpMain, offered, indexList, got, blamed, cursor, hit>>
    BY DEF Page, At
  <1>2. ~okay[i] /\ IndexInv(i) /\ ToldTyped
    BY <1>1 DEF ToldInv, IndexInv
  <1>3. /\ okay \in [Index -> BOOLEAN] /\ bad \in [Index -> BOOLEAN]
        /\ file \in [Index -> Seq(Index \X (Nat \ {0}))] /\ cursor[i] \in Nat
    BY <1>2 DEF ToldTyped, Typed
  <1>4. /\ g'[i] = IF hit[i].next THEN "scroll" ELSE "send"
        /\ \A j \in Index : j # i => g'[j] = g[j]
    BY <1>2, WorkPlace DEF Page, GoOn, State
  <1>5. /\ okay' \in [Index -> BOOLEAN] /\ \A j \in Index : j # i => okay'[j] = okay[j]
        /\ okay'[i] => ~hit[i].next
    BY <1>2, <1>3 DEF Page, GoOn
  <1>6. /\ bad' \in [Index -> BOOLEAN]
        /\ \A j \in Index : j # i => bad'[j] = bad[j] /\ file'[j] = file[j]
        /\ \/ bad'[i]
           \/ bad'[i] = bad[i] /\ hit[i].hits /\ file'[i] = Append(file[i], <<i, cursor[i]>>)
           \/ bad'[i] = bad[i] /\ ~hit[i].hits /\ file'[i] = file[i]
    BY <1>3 DEF Page, WriteHits, Spoil
  <1>7. ToldTyped' /\ Works(i)
    BY <1>1, <1>2, <1>4, <1>5, <1>6 DEF ToldTyped, Works
  <1>8. ~bad'[i] => Proper(i)'
    <2> SUFFICES ASSUME ~bad'[i] PROVE Proper(i)'
      OBVIOUS
    <2>1. Proper(i)
      BY <1>2, <1>6 DEF IndexInv
    <2>2. hit[i].next /\ g'[i] = "scroll" /\ ~okay'[i] /\ cursor[i] <= Pages[i]
      BY <1>1, <1>4, <1>5, <2>1 DEF Proper
    <2>3. Prefix(i, cursor[i])'
      <3>1. CASE hit[i].hits /\ file'[i] = Append(file[i], <<i, cursor[i]>>)
        <4>1. cursor[i] > 0 /\ Len(file[i]) = cursor[i] - 1
              /\ \A k \in 1..(cursor[i] - 1) : file[i][k] = <<i, k>>
          BY <1>1, <2>1, <3>1 DEF Proper, Prefix
        <4>2. file[i] \in Seq(Index \X (Nat \ {0}))
          BY <1>3
        <4>3. Len(file'[i]) = cursor[i] /\ file'[i][cursor[i]] = <<i, cursor[i]>>
              /\ \A k \in 1..(cursor[i] - 1) : file'[i][k] = file[i][k]
          BY <1>3, <3>1, <4>1, <4>2
        <4>4. \A k \in 1..cursor[i] : k \in 1..(cursor[i] - 1) \/ k = cursor[i]
          BY <1>3
        <4> QED BY <1>1, <4>1, <4>3, <4>4 DEF Prefix
      <3>2. CASE ~hit[i].hits /\ file'[i] = file[i]
        BY <1>1, <2>1, <3>2 DEF Proper, Prefix
      <3> QED BY <1>6, <3>1, <3>2
    <2> QED BY <1>1, <2>2, <2>3 DEF Proper
  <1>9. IndexInv(i)'
    BY <1>2, <1>4, <1>5, <1>8 DEF IndexInv
  <1> QED BY <1>7, <1>9, WorkKeeps

\* The next page is asked for.
LEMMA ToldScroll == ASSUME ToldInv, Typed', NEW i \in Index, Scroll(i) PROVE ToldInv'
  <1>1. /\ dumpMain = "wait" /\ g[i] = "scroll"
        /\ UNCHANGED <<dumpMain, offered, indexList, got, blamed, file>>
    BY DEF Scroll, At
  <1>2. ~okay[i] /\ IndexInv(i) /\ ToldTyped
    BY <1>1 DEF ToldInv, IndexInv
  <1>3. CASE NoAnswer(i) /\ UNCHANGED okay
    BY <1>1, <1>2, <1>3, NoAnswerIs
  <1>4. CASE /\ Answer(i)
             /\ IF hit'[i].hits THEN Goes(i, "page") /\ UNCHANGED okay
                ELSE Goes(i, "send") /\ okay' = [okay EXCEPT ![i] = TRUE]
    <2>1. /\ g'[i] = IF hit'[i].hits THEN "page" ELSE "send"
          /\ \A j \in Index : j # i => g'[j] = g[j]
      BY <1>2, <1>4, WorkPlace DEF State
    <2>2. /\ bad' \in [Index -> BOOLEAN]
          /\ \A j \in Index : j # i => hit'[j] = hit[j] /\ cursor'[j] = cursor[j] /\ bad'[j] = bad[j]
          /\ \/ bad'[i]
             \/ /\ bad'[i] = bad[i] /\ hit'[i].next
                /\ \/ hit'[i].hits /\ Left(i) /\ cursor'[i] = cursor[i] + 1
                   \/ ~hit'[i].hits /\ ~Left(i) /\ cursor'[i] = cursor[i]
      BY <1>2, <1>4, AnswerIs
    <2>3. /\ okay' \in [Index -> BOOLEAN] /\ \A j \in Index : j # i => okay'[j] = okay[j]
          /\ okay'[i] => ~hit'[i].hits
      <3>1. okay \in [Index -> BOOLEAN]
        BY <1>2 DEF ToldTyped
      <3> QED BY <1>2, <1>4, <3>1
    <2>4. ToldTyped' /\ Works(i)
      BY <1>1, <1>2, <2>1, <2>2, <2>3 DEF ToldTyped, Works
    <2>5. Pages[i] \in Nat /\ cursor[i] \in Nat
      BY <1>2, DumpAssumption DEF ToldTyped, Typed
    <2>6. ~bad'[i] => Proper(i)'
      <3> SUFFICES ASSUME ~bad'[i] PROVE Proper(i)'
        OBVIOUS
      <3>1. Prefix(i, cursor[i]) /\ cursor[i] <= Pages[i]
        BY <1>1, <1>2, <2>2 DEF IndexInv, Proper
      <3>2. CASE hit'[i].hits /\ hit'[i].next /\ Left(i) /\ cursor'[i] = cursor[i] + 1
        <4>1. g'[i] = "page" /\ ~okay'[i] /\ cursor'[i] > 0 /\ cursor'[i] <= Pages[i]
              /\ cursor'[i] - 1 = cursor[i]
          BY <2>1, <2>3, <2>5, <3>1, <3>2 DEF Left
        <4>2. \A n : Prefix(i, n) => Len(file'[i]) = n /\ \A k \in 1..n : file'[i][k] = <<i, k>>
          BY <1>1 DEF Prefix
        <4> QED BY <3>1, <3>2, <4>1, <4>2 DEF Proper, Prefix
      <3>3. CASE ~hit'[i].hits /\ hit'[i].next /\ ~Left(i) /\ cursor'[i] = cursor[i]
        <4>1. g'[i] = "send" /\ cursor[i] = Pages[i]
          BY <2>1, <2>5, <3>1, <3>3 DEF Left
        <4> QED BY <1>1, <2>5, <3>1, <3>3, <4>1 DEF Proper, Prefix
      <3> QED BY <2>2, <3>2, <3>3
    <2>7. IndexInv(i)'
      BY <2>1, <2>3, <2>6 DEF IndexInv
    <2> QED BY <2>4, <2>7, WorkKeeps
  <1> QED BY <1>3, <1>4 DEF Scroll

\* Nothing of any index changes.
LEMMA OfIndexStays ==
    ASSUME ToldInv, UNCHANGED <<g, okay, cursor, hit, file, bad>>, NEW i \in Index
    PROVE  IndexInv(i)'
  BY DEF ToldInv, IndexInv, Proper, Prefix

\* main before the goroutines are started.
LEMMA ToldGetList == ASSUME ToldInv, GetIndexList PROVE ToldInv'
  <1>1. dumpMain = "list" /\ UNCHANGED <<indexList, got, blamed, g, okay, cursor, hit, file, bad>>
    BY DEF GetIndexList
  <1>2. ToldTyped' /\ HaveTold' = HaveTold
    BY <1>1 DEF GetIndexList, ToldInv, ToldTyped, Typed, HaveTold
  <1>3. ListInv /\ CountInv /\ indexList = <<>>
    BY <1>1 DEF ToldInv, ListInv
  <1>4. ListInv'
    <2>1. Range(indexList) = {}
      BY <1>3 DEF Range
    <2>2. CASE offered' \in Offers /\ dumpMain' = "filter"
      BY <1>1, <1>3, <2>1, <2>2, DumpAssumption DEF ListInv
    <2>3. CASE dumpMain' = "crash" /\ UNCHANGED offered
      BY <1>1, <1>3, <2>3 DEF ListInv
    <2> QED BY <2>2, <2>3 DEF GetIndexList
  <1>5. CountInv'
    BY <1>1, <1>2, <1>3 DEF CountInv, GetIndexList
  <1> QED BY <1>1, <1>2, <1>4, <1>5, OfIndexStays DEF ToldInv

\* main asks what the next index holds.
LEMMA ToldLookAt == ASSUME ToldInv, LookAt PROVE ToldInv'
  <1>1. /\ dumpMain = "filter" /\ offered # <<>> /\ offered' = Tail(offered)
        /\ UNCHANGED <<dumpMain, got, blamed, g, okay, cursor, hit, file, bad>>
    BY DEF LookAt
  <1>2. ToldTyped' /\ HaveTold' = HaveTold
    BY <1>1 DEF ToldInv, ToldTyped, Typed, HaveTold
  <1>3. ListInv /\ CountInv
    BY DEF ToldInv
  <1> DEFINE h == Head(offered)
             n == Len(offered)
             m == Len(indexList)
  <1>4. offered \in Seq(Index) /\ indexList \in Seq(Index) /\ m \in Nat
    BY <1>3 DEF ListInv
  <1>5. /\ n \in Nat /\ n > 0 /\ h = offered[1] /\ h \in Index
        /\ offered' \in Seq(Index) /\ Len(offered') = n - 1
        /\ \A j \in 1..(n - 1) : offered'[j] = offered[j + 1]
    BY <1>1, <1>4
  <1>6. /\ \A j, k \in 1..n : offered[j] = offered[k] => j = k
        /\ \A j \in 1..n : offered[j] \notin Range(indexList)
    BY <1>3 DEF ListInv
  <1> HIDE DEF h, n, m
  <1>7. h \notin Range(indexList) /\ \A j \in 1..(n - 1) : j + 1 \in 1..n /\ j + 1 # 1
    BY <1>5, <1>6
  <1>8. \A j \in 1..(n - 1) : offered'[j] # h /\ offered'[j] \notin Range(indexList)
    <2>1. 1 \in 1..n
      BY <1>5
    <2> QED BY <1>5, <1>6, <1>7, <2>1
  <1>9. \A j, k \in 1..(n - 1) : offered'[j] = offered'[k] => j = k
    <2> SUFFICES ASSUME NEW j \in 1..(n - 1), NEW k \in 1..(n - 1), offered'[j] = offered'[k]
                 PROVE  j = k
      OBVIOUS
    <2>1. offered[j + 1] = offered[k + 1]
      BY <1>5
    <2>2. j + 1 = k + 1
      BY <1>6, <1>7, <2>1
    <2> QED BY <1>5, <2>2
  <1>10. CASE indexList' = indexList
    <2>1. ListInv'
      BY <1>1, <1>3, <1>5, <1>8, <1>9, <1>10 DEF ListInv
    <2>2. CountInv'
      BY <1>1, <1>2, <1>3, <1>10 DEF CountInv
    <2> QED BY <1>1, <1>2, <2>1, <2>2, OfIndexStays DEF ToldInv
  <1>11. CASE indexList' = Append(indexList, h)
    <2>1. /\ indexList' \in Seq(Index) /\ Len(indexList') = m + 1 /\ DOMAIN indexList' = 1..(m + 1)
          /\ \A k \in 1..m : indexList'[k] = indexList[k]
          /\ indexList'[m + 1] = h /\ DOMAIN indexList = 1..m
      BY <1>4, <1>5, <1>11 DEF m
    <2>2. \A k : k \in 1..(m + 1) <=> k \in 1..m \/ k = m + 1
      BY <1>4
    <2>3. Range(indexList)' = Range(indexList) \cup {h}
      BY <2>1, <2>2 DEF Range
    <2>4. IsFiniteSet(Range(indexList)) /\ Cardinality(Range(indexList)) = m
      BY <1>3 DEF ListInv, m
    <2>5. IsFiniteSet(Range(indexList)') /\ Cardinality(Range(indexList)') = m + 1
      BY <1>7, <2>3, <2>4, FS_AddElement
    <2>6. ListInv'
      BY <1>1, <1>5, <1>8, <1>9, <2>1, <2>3, <2>5 DEF ListInv
    <2>7. CountInv'
      BY <1>1, <1>2, <1>3 DEF CountInv
    <2> QED BY <1>1, <1>2, <2>6, <2>7, OfIndexStays DEF ToldInv
  <1> QED BY <1>10, <1>11 DEF LookAt, h

\* main starts a goroutine of every index it keeps.
LEMMA ToldStart == ASSUME ToldInv, StartAll PROVE ToldInv'
  <1>1. /\ dumpMain = "filter" /\ dumpMain' = "wait"
        /\ UNCHANGED <<offered, indexList, got, blamed, okay, cursor, hit, file, bad>>
        /\ g' = [i \in Index |-> IF i \in Range(indexList) THEN "search" ELSE "none"]
    BY DEF StartAll
  <1>2. \A i \in Index : g[i] = "none" /\ g'[i] \in {"search", "none"}
                         /\ (g'[i] # "none" => i \in Range(indexList))
    BY <1>1 DEF ToldInv, CountInv
  <1>3. ToldTyped' /\ HaveTold' = HaveTold /\ HaveTold = {}
    BY <1>1, <1>2 DEF ToldInv, ToldTyped, Typed, State, HaveTold
  <1>4. ListInv' /\ CountInv'
    BY <1>1, <1>2, <1>3 DEF ToldInv, ListInv, CountInv
  <1>5. ASSUME NEW i \in Index PROVE IndexInv(i)'
    BY <1>1, <1>2 DEF ToldInv, IndexInv, Proper, Prefix
  <1> QED BY <1>3, <1>4, <1>5 DEF ToldInv

\* main takes what a goroutine sends.
LEMMA ToldDone == ASSUME ToldInv, NEW i \in Index, Done(i) PROVE ToldInv'
  <1>1. /\ dumpMain = "wait" /\ g[i] = "send" /\ got' = got + 1
        /\ blamed' = IF okay[i] THEN blamed ELSE blamed \cup {indexList[got + 1]}
        /\ UNCHANGED <<dumpMain, offered, indexList, okay, cursor, hit, file, bad>>
    BY DEF Done, At
  <1>2. ToldTyped /\ ListInv /\ CountInv
    BY DEF ToldInv
  <1>3. g'[i] = (IF okay[i] THEN "gone" ELSE "panic") /\ \A j \in Index : j # i => g'[j] = g[j]
    BY <1>2, WorkPlace DEF Done, State
  <1>4. ToldTyped'
    BY <1>1, <1>2, WorkPlace DEF Done, Goes, State, ToldTyped, Typed
  <1>5. HaveTold' = HaveTold \cup {i} /\ i \notin HaveTold
    BY <1>1, <1>3 DEF HaveTold
  <1>6. HaveTold \in SUBSET Range(indexList) /\ IsFiniteSet(Range(indexList))
    BY <1>2 DEF HaveTold, CountInv, ListInv
  <1>7. IsFiniteSet(HaveTold)
    BY <1>6, FS_Subset
  <1>8. Cardinality(HaveTold') = got + 1
    BY <1>2, <1>5, <1>7, FS_AddElement DEF CountInv
  <1>9. blamed' = {} <=> \A j \in HaveTold' : okay'[j]
    BY <1>1, <1>2, <1>5 DEF CountInv
  <1>10. ListInv'
    BY <1>1, <1>2 DEF ListInv
  <1>11. CountInv'
    BY <1>1, <1>2, <1>3, <1>8, <1>9 DEF CountInv
  <1>12. ASSUME NEW j \in Index PROVE IndexInv(j)'
    <2>1. CASE j # i
      BY <1>1, <1>3, <2>1 DEF ToldInv, IndexInv, Proper, Prefix
    <2>2. CASE j = i
      BY <1>1, <1>3, <2>2 DEF ToldInv, IndexInv, Proper, Prefix
    <2> QED BY <2>1, <2>2
  <1> QED BY <1>4, <1>10, <1>11, <1>12 DEF ToldInv

\* main ends when it has as many answers as goroutines.
LEMMA ToldExit == ASSUME ToldInv, Exit PROVE ToldInv'
  <1>1. /\ dumpMain' = "exit" /\ got = Len(indexList) /\ dumpMain = "wait"
        /\ UNCHANGED <<offered, indexList, got, blamed, g, okay, cursor, hit, file, bad>>
    BY DEF Exit, TakenAll
  <1> QED BY <1>1, OfIndexStays DEF ToldInv, ToldTyped, Typed, ListInv, CountInv, HaveTold

\* A goroutine that panics takes main with it.
LEMMA ToldCrash == ASSUME ToldInv, NEW i \in Index, Crash(i) PROVE ToldInv'
  <1>1. /\ dumpMain' = "crash" /\ dumpMain = "wait"
        /\ UNCHANGED <<offered, indexList, got, blamed, g, okay, cursor, hit, file, bad>>
    BY DEF Crash, At
  <1> QED BY <1>1, OfIndexStays DEF ToldInv, ToldTyped, Typed, ListInv, CountInv, HaveTold

(* Of each index: while its answers and writes were proper its file is the *)
(* first pages; of main: as many answers as goroutines that are done       *)
(* (elasticdump.go:60-134).                                                *)
THEOREM ToldInvHolds == DumpSpec => []ToldInv
  <1>1. DumpInit => ToldInv /\ StreamInv
    BY ToldBegins, StreamBegins
  <1>2. ToldInv /\ StreamInv /\ [DumpNext]_dumpVars => ToldInv' /\ StreamInv'
    <2> SUFFICES ASSUME ToldInv, StreamInv, [DumpNext]_dumpVars PROVE ToldInv' /\ StreamInv'
      OBVIOUS
    <2>1. StreamInv' /\ Typed'
      BY StreamStep DEF StreamInv
    <2>2. ASSUME NEW i \in Index,
                 Search(i) \/ Create(i) \/ Page(i) \/ Scroll(i) \/ Done(i) \/ Crash(i)
          PROVE  ToldInv'
      BY <2>1, <2>2, ToldSearch, ToldCreate, ToldPage, ToldScroll, ToldDone, ToldCrash
    <2>3. CASE GetIndexList \/ LookAt \/ StartAll \/ Exit
      BY <2>1, <2>3, ToldGetList, ToldLookAt, ToldStart, ToldExit
    <2>4. CASE UNCHANGED dumpVars
      <3>1. ToldTyped' /\ ListInv' /\ CountInv'
        BY <2>4 DEF dumpVars, ToldInv, ToldTyped, Typed, ListInv, CountInv, HaveTold
      <3>2. \A i \in Index : IndexInv(i)'
        BY <2>4, OfIndexStays DEF dumpVars
      <3> QED BY <2>1, <3>1, <3>2 DEF ToldInv
    <2> QED BY <2>1, <2>2, <2>3, <2>4 DEF DumpNext
  <1> QED BY <1>1, <1>2, PTL DEF DumpSpec

(* An index told to be done without a fault is complete, and main ends     *)
(* only when every goroutine has told it (elasticdump.go:50-58, 123-133).  *)
THEOREM DumpToldHolds == DumpSpec => []DumpTold
  <1>1. ToldInv => DumpComplete
    <2> SUFFICES ASSUME ToldInv, NEW i \in Index, okay[i], ~bad[i]
                 PROVE  file[i] = [k \in 1..Pages[i] |-> <<i, k>>]
      BY DEF DumpComplete
    <2>1. Len(file[i]) = Pages[i] /\ \A k \in 1..Pages[i] : file[i][k] = <<i, k>>
      BY DEF ToldInv, IndexInv, Proper, Prefix
    <2>2. file[i] \in Seq(Index \X (Nat \ {0}))
      BY DEF ToldInv, ToldTyped, Typed
    <2>3. file[i] = [k \in 1..Len(file[i]) |-> file[i][k]]
      BY <2>2
    <2> QED BY <2>1, <2>3
  <1>2. ToldInv => ExitAfterAll
    <2> SUFFICES ASSUME ToldInv, dumpMain = "exit"
                 PROVE  /\ \A i \in Range(indexList) : g[i] \in {"gone", "panic"}
                        /\ blamed = {} <=> \A i \in Range(indexList) : okay[i]
      BY DEF ExitAfterAll
    <2>1. /\ HaveTold \in SUBSET Range(indexList) /\ IsFiniteSet(Range(indexList))
          /\ Cardinality(HaveTold) = Cardinality(Range(indexList))
      BY DEF ToldInv, CountInv, ListInv, HaveTold
    <2>2. HaveTold = Range(indexList)
      BY <2>1, FS_Subset
    <2>3. \A i \in HaveTold : g[i] \in {"gone", "panic"}
      BY DEF HaveTold
    <2> QED BY <2>2, <2>3 DEF ToldInv, CountInv
  <1> QED BY <1>1, <1>2, ToldInvHolds, PTL DEF DumpTold
=============================================================================
