---------------------------- MODULE ElasticDump ----------------------------
(***************************************************************************)
(* elasticdump: main asks a server for its indices and starts a goroutine  *)
(* for each one it wants; the goroutine writes the index, page by page, to *)
(* a file of its own by Elasticsearch's scroll interface, and tells main   *)
(* over an unbuffered channel, by a deferred send, that it is done.  check *)
(* panics: the deferred send comes first, then the whole program dies.     *)
(*                                                                         *)
(* No status code, read error or write error is looked at.  An answer is   *)
(* proper, another page without hits ("error"), or cut short: the scroll   *)
(* ID comes first in it, so part of the hits or none may follow.           *)
(***************************************************************************)
EXTENDS Naturals, Sequences, SequencesExt

CONSTANTS Index, Pages,     \* the server's indices and their pages of 1000
          Offers,           \* answers to _cat/indices, sequences of indices
          Wanted,           \* those of enough documents, size and a name that
                            \* matches
          Refused, Error, Cut, Disk   \* faults that may happen: no answer,
                                      \* another page, half an answer, a write

ASSUME DumpAssumption ==
    /\ Pages \in [Index -> Nat] /\ Wanted \subseteq Index
    /\ \A o \in Offers : /\ o \in Seq(Index)
                         /\ \A j, k \in 1..Len(o) : o[j] = o[k] => j = k
    /\ {Refused, Error, Cut, Disk} \subseteq BOOLEAN

VARIABLES dumpMain,   \* "list", "filter", "wait", "exit" or "crash"
          offered,    \* what getIndexList has not looked at yet
          indexList,
          got,        \* answers main has taken from the channel
          blamed,     \* indices main has logged an error of
          g,          \* goroutines: "none", "search", "create", "page",
                      \* "scroll", "send", "panic", "gone"
          okay,       \* okay[i]: what the goroutine sends
          cursor,     \* cursor[i]: pages the server has handed out
          hit,        \* hit[i]: the answer in hand: has hits, has a scroll ID
          file,       \* file[i]: the pages written
          bad         \* bad[i]: an answer was not proper or a write failed

dumpVars == <<dumpMain, offered, indexList, got, blamed, g, okay, cursor, hit, file, bad>>

DumpInit ==
    /\ dumpMain = "list" /\ offered = <<>> /\ indexList = <<>> /\ got = 0 /\ blamed = {}
    /\ g = [i \in Index |-> "none"]
    /\ okay = [i \in Index |-> FALSE]
    /\ cursor = [i \in Index |-> 0]
    /\ hit = [i \in Index |-> [hits |-> FALSE, next |-> FALSE]]
    /\ file = [i \in Index |-> <<>>]
    /\ bad = [i \in Index |-> FALSE]

-----------------------------------------------------------------------------
(* getIndexList: the answer, and the loop over it.                         *)
GetIndexList ==
    /\ dumpMain = "list"
    /\ \/ offered' \in Offers /\ dumpMain' = "filter"
       \/ Refused /\ dumpMain' = "crash" /\ UNCHANGED offered
    /\ UNCHANGED <<indexList, got, blamed, g, okay, cursor, hit, file, bad>>

LookAt ==
    /\ dumpMain = "filter" /\ offered # <<>>
    /\ offered' = Tail(offered)
    /\ indexList' = IF Head(offered) \in Wanted THEN Append(indexList, Head(offered)) ELSE indexList
    /\ UNCHANGED <<dumpMain, got, blamed, g, okay, cursor, hit, file, bad>>

\* go indexToJSON, for each index of the list.
StartAll ==
    /\ dumpMain = "filter" /\ offered = <<>>
    /\ dumpMain' = "wait"
    /\ g' = [i \in Index |-> IF i \in Range(indexList) THEN "search" ELSE "none"]
    /\ UNCHANGED <<offered, indexList, got, blamed, okay, cursor, hit, file, bad>>

At(i, st) == dumpMain = "wait" /\ g[i] = st
Goes(i, st) == g' = [g EXCEPT ![i] = st]
InHand(i, hits, next) == hit' = [hit EXCEPT ![i] = [hits |-> hits, next |-> next]]
Spoil(i) == bad' = [bad EXCEPT ![i] = TRUE]

\* The server takes the next page, if there is one.
Fetch(i) == cursor' = [cursor EXCEPT ![i] = @ + 1]
Left(i) == cursor[i] < Pages[i]

(* An answer to _search or to _search/scroll, read and parsed: a page, or  *)
(* an answer without hits when there is none; both with a scroll ID.       *)
Answer(i) ==
    \/ Left(i) /\ Fetch(i) /\ InHand(i, TRUE, TRUE) /\ UNCHANGED bad
    \/ ~Left(i) /\ InHand(i, FALSE, TRUE) /\ UNCHANGED <<cursor, bad>>
    \/ Error /\ InHand(i, FALSE, FALSE) /\ Spoil(i) /\ UNCHANGED cursor
    \/ Cut /\ Left(i) /\ Fetch(i) /\ Spoil(i)
       /\ \E hits, next \in BOOLEAN : (hits => next) /\ InHand(i, hits, next)

\* No answer: check panics.
NoAnswer(i) ==
    /\ Refused /\ Goes(i, "send")
    /\ \/ Left(i) /\ Fetch(i)
       \/ UNCHANGED cursor
    /\ UNCHANGED <<hit, bad>>

(* indexToJSON *)
Search(i) ==
    /\ At(i, "search")
    /\ \/ Answer(i) /\ Goes(i, "create")
       \/ NoAnswer(i)
    /\ UNCHANGED <<dumpMain, offered, indexList, got, blamed, okay, file>>

\* The file is created when the first answer is there; if not, check panics.
Create(i) ==
    /\ At(i, "create")
    /\ \/ Goes(i, "page")
       \/ Disk /\ Goes(i, "send")
    /\ UNCHANGED <<dumpMain, offered, indexList, got, blamed, okay, cursor, hit, file, bad>>

\* Mutant: the answer is written again when there is no scroll ID.
WriteTwice(i) ==
    \/ file' = [file EXCEPT ![i] = @ \o <<<<i, cursor[i]>>, <<i, cursor[i]>>>>] /\ UNCHANGED bad
    \/ Disk /\ Spoil(i) /\ UNCHANGED file
\* The hits go to the file; that this fails is not looked at.
WriteHits(i) ==
    \/ file' = [file EXCEPT ![i] = Append(@, <<i, cursor[i]>>)] /\ UNCHANGED bad
    \/ Disk /\ Spoil(i) /\ UNCHANGED file

\* Mutant: a first page without hits ends it as well, one with hits too.
FirstEnds(i) == Goes(i, "send") /\ okay' = [okay EXCEPT ![i] = TRUE]
\* With a scroll ID the next page is asked for, else it has been a success.
GoOn(i) ==
    IF hit[i].next THEN Goes(i, "scroll") /\ UNCHANGED okay
    ELSE Goes(i, "send") /\ okay' = [okay EXCEPT ![i] = TRUE]

Page(i) ==
    /\ At(i, "page")
    /\ IF hit[i].hits THEN WriteHits(i) ELSE UNCHANGED <<file, bad>>
    /\ GoOn(i)
    /\ UNCHANGED <<dumpMain, offered, indexList, got, blamed, cursor, hit>>

(* getNextScroll, one level of its recursion: the answer; no hits end it.  *)
Scroll(i) ==
    /\ At(i, "scroll")
    /\ \/ /\ Answer(i)
          /\ IF hit'[i].hits THEN Goes(i, "page") /\ UNCHANGED okay
             ELSE Goes(i, "send") /\ okay' = [okay EXCEPT ![i] = TRUE]
       \/ NoAnswer(i) /\ UNCHANGED okay
    /\ UNCHANGED <<dumpMain, offered, indexList, got, blamed, file>>

-----------------------------------------------------------------------------
\* Mutant: a goroutine that panics sends nothing.
DoneOkay(i) ==
    /\ At(i, "send") /\ got < Len(indexList) /\ okay[i]
    /\ got' = got + 1 /\ Goes(i, "gone")
    /\ UNCHANGED <<dumpMain, offered, indexList, blamed, okay, cursor, hit, file, bad>>
(* done <- okay meets main's receive.  The error is told of the index whose *)
(* number the answer has.                                                   *)
Done(i) ==
    /\ At(i, "send") /\ got < Len(indexList)
    /\ got' = got + 1
    /\ blamed' = IF okay[i] THEN blamed ELSE blamed \cup {indexList[got + 1]}
    /\ Goes(i, IF okay[i] THEN "gone" ELSE "panic")
    /\ UNCHANGED <<dumpMain, offered, indexList, okay, cursor, hit, file, bad>>

TakenAll == got = Len(indexList)

Exit ==
    /\ dumpMain = "wait" /\ TakenAll
    /\ dumpMain' = "exit"
    /\ UNCHANGED <<offered, indexList, got, blamed, g, okay, cursor, hit, file, bad>>

\* After its deferred calls the panic ends the program, unless main was faster.
Crash(i) ==
    /\ At(i, "panic")
    /\ dumpMain' = "crash"
    /\ UNCHANGED <<offered, indexList, got, blamed, g, okay, cursor, hit, file, bad>>

DumpNext ==
    \/ GetIndexList \/ LookAt \/ StartAll \/ Exit
    \/ \E i \in Index : Search(i) \/ Create(i) \/ Page(i) \/ Scroll(i) \/ Done(i) \/ Crash(i)

DumpSpec == DumpInit /\ [][DumpNext]_dumpVars

(* While one goroutine can go on, one does; the server answers, or not.    *)
DumpFairSpec == DumpSpec /\ WF_dumpVars(DumpNext)

-----------------------------------------------------------------------------
DumpTypeOK ==
    /\ dumpMain \in {"list", "filter", "wait", "exit", "crash"}
    /\ offered \in Seq(Index) /\ indexList \in Seq(Index) /\ got \in 0..Len(indexList) /\ blamed \subseteq Index
    /\ g \in [Index -> {"none", "search", "create", "page", "scroll", "send", "panic", "gone"}]
    /\ okay \in [Index -> BOOLEAN] /\ bad \in [Index -> BOOLEAN]
    /\ cursor \in [Index -> Nat]
    /\ hit \in [Index -> [hits : BOOLEAN, next : BOOLEAN]]
    /\ file \in [Index -> Seq(Index \X (Nat \ {0}))]

(* Each file is a stream of its own index's pages, in order, each at most  *)
(* once, whatever fails (elasticdump.go:42-86).                            *)
Stream == INSTANCE DumpStream WITH Source <- Index, served <- cursor, kept <- file
DumpSafe == Stream!StreamSpec

(* An index that is told to be done, and all of whose answers and writes   *)
(* were proper, is in its file from the first page to the last, with no    *)
(* page missing (elasticdump.go:50-58, 72-85).                             *)
DumpComplete ==
    \A i \in Index : okay[i] /\ ~bad[i] => file[i] = [k \in 1..Pages[i] |-> <<i, k>>]

(* main ends by itself only when every goroutine has told it, each once,   *)
(* and it has logged an error if one was told (elasticdump.go:123-133).    *)
ExitAfterAll ==
    dumpMain = "exit" =>
        /\ \A i \in Range(indexList) : g[i] \in {"gone", "panic"}
        /\ blamed = {} <=> \A i \in Range(indexList) : okay[i]

(* What the program tells, of an index and at its end, is so as far as it   *)
(* goes: both of the above.                                                *)
DumpTold == DumpComplete /\ ExitAfterAll

(* The program ends: no goroutine is left waiting on the channel.          *)
DumpEnds == dumpMain = "wait" ~> dumpMain \in {"exit", "crash"}

(* The index an error is told of is one that failed (elasticdump.go:130).  *)
BlamedFailed == \A i \in blamed : ~okay[i]

(* An index that is told to be done is complete (elasticdump.go:85; the    *)
(* README: "Download an entire Elastic cluster").                          *)
OkayIsComplete == \A i \in Index : okay[i] => Len(file[i]) = Pages[i]
=============================================================================
