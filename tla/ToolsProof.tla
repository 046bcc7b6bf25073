----------------------------- MODULE ToolsProof -----------------------------
(***************************************************************************)
(* Of the small programs, for any names, backends and flags, any folders   *)
(* and kinds of file, any text, keys and batches, any requests: sniplex    *)
(* routes by the last flag, redlineparser's files are one run's and its    *)
(* readers' rows are the text's, pebble-cli keeps what it commits, and an  *)
(* answer of mhs tells what is in the log.  The last part is of the run    *)
(* that all seven share, with AllHashProof's and ElasticDumpProof's two.   *)
(***************************************************************************)
EXTENDS MCTools, AllHashProof, ElasticDumpProof, FiniteSetTheorems, SequenceTheorems,
         WellFoundedInduction, TLAPS

\* A set of numbers has a least one.
LEMMA LeastOf ==
    ASSUME NEW T \in SUBSET Nat, T # {}
    PROVE  \E m \in T : \A k \in T : m <= k
<1>1. PICK m \in T : \A k \in T : <<k, m>> \notin OpToRel(<, Nat)
  BY WFMin, NatLessThanWellFounded, Zenon
<1>2. ASSUME NEW k \in T, k < m PROVE FALSE
  <2>1. <<k, m>> \in Nat \X Nat /\ <<k, m>>[1] < <<k, m>>[2]
    BY <1>2
  <2>2. <<k, m>> \in OpToRel(<, Nat)
    BY <2>1, Zenon DEF OpToRel
  <2> QED BY <1>1, <2>2
<1>3. \A k \in T : m <= k
  BY <1>2
<1> QED BY <1>3

-----------------------------------------------------------------------------
(* sniplex *)

\* The map holds the last flag of each name that has one.
DictIsLast ==
    \A n \in Names :
        \/ sniDict[n] = Unset /\ \A i \in 1..Len(flags) : flags[i][1] # n
        \/ \E i \in 1..Len(flags) : /\ flags[i] = <<n, sniDict[n]>>
                                    /\ \A j \in 1..Len(flags) : flags[j][1] = n => j <= i

\* The routes are those of the map, all of them when they are tried.
RoutesOfDict ==
    /\ sniPc = "flags" => routes = <<>>
    /\ \A i \in 1..Len(routes) : /\ routes[i][1] \in Names
                                 /\ routes[i][2] = sniDict[routes[i][1]] /\ routes[i][2] # Unset
    /\ sniPc = "run" => \A n \in Names : sniDict[n] # Unset => n \in InRoutes

\* A connection has been sent where the map, which stays, says.
ChoiceOfDict ==
    \A n \in SNI : choice[n] # Unset =>
        /\ sniPc = "run"
        /\ IF choice[n] = Close THEN sniDict[n] = Unset /\ sniDict[Default] = Unset
           ELSE choice[n] \in {sniDict[n], sniDict[Default]}

SniInv == SniTypeOK /\ DictIsLast /\ RoutesOfDict /\ ChoiceOfDict

\* What the last flag of a name gives is in the map.
LEMMA LastIsDict ==
    ASSUME SniTypeOK, DictIsLast, NEW n \in Names
    PROVE  LastFlag(n) = sniDict[n]
<1> DEFINE mine == {i \in 1..Len(flags) : flags[i][1] = n}
<1>1. CASE sniDict[n] = Unset /\ \A i \in 1..Len(flags) : flags[i][1] # n
  <2>1. mine = {}
    BY <1>1
  <2> QED BY <1>1, <2>1 DEF LastFlag
<1>2. ASSUME NEW i \in 1..Len(flags), flags[i] = <<n, sniDict[n]>>,
             \A j \in 1..Len(flags) : flags[j][1] = n => j <= i
      PROVE  LastFlag(n) = sniDict[n]
  <2>1. i \in mine /\ \A j \in mine : j <= i
    BY <1>2
  <2>2. \A k \in mine : k \in Nat
    BY DEF SniTypeOK
  <2>3. \A k \in mine : (\A j \in mine : j <= k) => k = i
    BY <2>1, <2>2
  <2>4. (CHOOSE k \in mine : \A j \in mine : j <= k) = i
    <3> HIDE DEF mine
    <3> QED BY <2>1, <2>3
  <2>5. flags[i][2] = sniDict[n]
    BY <1>2
  <2> QED BY <2>1, <2>4, <2>5 DEF LastFlag
<1> QED BY <1>1, <1>2 DEF DictIsLast

\* The route tried first that matches is the name's or the default.
LEMMA FirstMatches ==
    ASSUME SniTypeOK, RoutesOfDict, sniPc = "run", NEW n \in SNI
    PROVE  \/ First(n) = Close /\ sniDict[n] = Unset /\ sniDict[Default] = Unset
           \/ First(n) \in {sniDict[n], sniDict[Default]} /\ First(n) \in Backend
<1> DEFINE m == {i \in 1..Len(routes) : Matches(routes[i], n)}
<1>1. CASE m = {}
  <2>1. First(n) = Close
    BY <1>1 DEF First
  <2>2. n \notin InRoutes /\ Default \notin InRoutes
    BY <1>1 DEF InRoutes, Matches
  <2> QED BY <2>1, <2>2 DEF RoutesOfDict, Names
<1>2. CASE m # {}
  <2>1. m \in SUBSET Nat
    BY DEF SniTypeOK
  <2>2. \E i \in m : \A j \in m : i <= j
    <3> HIDE DEF m
    <3> QED BY <1>2, <2>1, LeastOf
  <2> DEFINE i == CHOOSE k \in m : \A j \in m : k <= j
  <2>3. i \in m
    <3> HIDE DEF m
    <3> QED BY <2>2
  <2>4. First(n) = routes[i][2]
    BY <1>2 DEF First
  <2> HIDE DEF i
  <2>5. i \in 1..Len(routes) /\ Matches(routes[i], n)
    BY <2>3
  <2>6. routes[i] \in Flag
    BY <2>5 DEF SniTypeOK
  <2>7. routes[i][2] = sniDict[routes[i][1]] /\ routes[i][1] \in {n, Default}
    BY <2>5 DEF RoutesOfDict, Matches
  <2> QED BY <2>4, <2>6, <2>7 DEF Flag
<1> QED BY <1>1, <1>2

\* Before the first flag.
LEMMA SniFirst == SniInit => SniInv
<1> SUFFICES ASSUME SniInit PROVE SniInv
  OBVIOUS
<1>1. SniTypeOK
  BY DEF SniInit, SniTypeOK
<1>2. DictIsLast /\ RoutesOfDict /\ ChoiceOfDict
  BY DEF SniInit, DictIsLast, RoutesOfDict, ChoiceOfDict
<1> QED BY <1>1, <1>2 DEF SniInv

\* A flag is read into the map.
LEMMA SniFlag == ASSUME SniInv, ReadFlag PROVE SniInv'
<1>1. /\ sniPc = "flags" /\ routes = <<>> /\ UNCHANGED <<routes, choice>>
      /\ flags \in Seq(Flag) /\ Len(flags) \in Nat
      /\ sniDict \in [Names -> Backend \cup {Unset}]
  BY DEF SniInv, SniTypeOK, RoutesOfDict, ReadFlag
<1>2. RoutesOfDict' /\ ChoiceOfDict'
  <2>1. \A n \in SNI : choice[n] = Unset
    BY <1>1 DEF SniInv, ChoiceOfDict
  <2>2. sniPc' # "run"
    BY <1>1 DEF ReadFlag
  <2> QED BY <1>1, <2>1, <2>2 DEF RoutesOfDict, ChoiceOfDict
<1>3. ASSUME NEW f \in Flag, flags' = Append(flags, f), sniDict' = [sniDict EXCEPT ![f[1]] = f[2]],
             sniPc' = sniPc
      PROVE  SniTypeOK' /\ DictIsLast'
  <2>1. f[1] \in Names /\ f[2] \in Backend /\ f = <<f[1], f[2]>>
    BY DEF Flag
  <2>2. flags' \in Seq(Flag) /\ sniDict' \in [Names -> Backend \cup {Unset}]
    BY <1>1, <1>3, <2>1
  <2>3. SniTypeOK'
    BY <1>1, <1>3, <2>2 DEF SniInv, SniTypeOK
  <2>4. /\ Len(flags') = Len(flags) + 1 /\ flags'[Len(flags) + 1] = f
        /\ \A i \in 1..Len(flags) : flags'[i] = flags[i]
    BY <1>1, <1>3
  <2>5. ASSUME NEW n \in Names
        PROVE  \/ sniDict'[n] = Unset /\ \A i \in 1..Len(flags') : flags'[i][1] # n
               \/ \E i \in 1..Len(flags') : /\ flags'[i] = <<n, sniDict'[n]>>
                                            /\ \A j \in 1..Len(flags') : flags'[j][1] = n => j <= i
    <3>0. \A j \in 1..Len(flags') : j \in 1..Len(flags) \/ j = Len(flags) + 1
      BY <1>1, <2>4
    <3>1. CASE n = f[1]
      <4>1. sniDict'[n] = f[2]
        BY <1>1, <1>3, <3>1
      <4>2. Len(flags') \in 1..Len(flags') /\ \A j \in 1..Len(flags') : j <= Len(flags')
        BY <1>1, <2>4
      <4>3. flags'[Len(flags')] = <<n, sniDict'[n]>>
        BY <2>1, <2>4, <3>1, <4>1
      <4> QED BY <4>2, <4>3
    <3>2. CASE n # f[1]
      <4>1. sniDict'[n] = sniDict[n]
        BY <1>1, <1>3, <3>2
      <4>2. \A j \in 1..Len(flags') : flags'[j][1] = n => j \in 1..Len(flags) /\ flags[j][1] = n
        BY <2>4, <3>0, <3>2
      <4>3. CASE sniDict[n] = Unset /\ \A i \in 1..Len(flags) : flags[i][1] # n
        BY <4>1, <4>2, <4>3
      <4>4. ASSUME NEW i \in 1..Len(flags), flags[i] = <<n, sniDict[n]>>,
                   \A j \in 1..Len(flags) : flags[j][1] = n => j <= i
            PROVE  \E k \in 1..Len(flags') : /\ flags'[k] = <<n, sniDict'[n]>>
                                             /\ \A j \in 1..Len(flags') : flags'[j][1] = n => j <= k
        <5>1. i \in 1..Len(flags') /\ flags'[i] = <<n, sniDict'[n]>>
          BY <1>1, <2>4, <4>1, <4>4
        <5>2. \A j \in 1..Len(flags') : flags'[j][1] = n => j <= i
          BY <4>2, <4>4
        <5> QED BY <5>1, <5>2
      <4> QED BY <4>3, <4>4 DEF SniInv, DictIsLast
    <3> QED BY <3>1, <3>2
  <2> QED BY <2>3, <2>5 DEF DictIsLast
<1>4. CASE sniPc' = "panic" /\ UNCHANGED <<flags, sniDict>>
  BY <1>1, <1>2, <1>4 DEF SniInv, SniTypeOK, DictIsLast
<1> QED BY <1>2, <1>3, <1>4 DEF ReadFlag, SniInv

\* A route is added for a name of the map.
LEMMA SniRoute == ASSUME SniInv, NEW n \in Names, AddARoute(n) PROVE SniInv'
<1>1. /\ routes' = Append(routes, <<n, sniDict[n]>>) /\ sniDict[n] \in Backend
      /\ sniPc = "routes" /\ UNCHANGED <<sniPc, flags, sniDict, choice>>
      /\ sniDict[n] # Unset /\ <<n, sniDict[n]>> \in Flag
  BY DEF SniInv, SniTypeOK, AddARoute, Flag
<1>2. /\ routes' \in Seq(Flag)
      /\ \A i \in 1..Len(routes') : routes'[i] = <<n, sniDict[n]>>
                                    \/ (i \in 1..Len(routes) /\ routes'[i] = routes[i])
  <2>1. routes \in Seq(Flag) /\ Len(routes) \in Nat
    BY DEF SniInv, SniTypeOK
  <2>2. /\ routes' \in Seq(Flag) /\ Len(routes') = Len(routes) + 1
        /\ routes'[Len(routes) + 1] = <<n, sniDict[n]>>
        /\ \A i \in 1..Len(routes) : routes'[i] = routes[i]
    BY <1>1, <2>1
  <2>3. \A i \in 1..Len(routes') : i \in 1..Len(routes) \/ i = Len(routes) + 1
    BY <2>1, <2>2
  <2>4. ASSUME NEW i \in 1..Len(routes')
        PROVE  routes'[i] = <<n, sniDict[n]>> \/ (i \in 1..Len(routes) /\ routes'[i] = routes[i])
    BY <2>2, <2>3
  <2>5. routes' \in Seq(Flag)
    BY <2>2
  <2> QED BY <2>4, <2>5
<1>3. SniTypeOK' /\ DictIsLast' /\ ChoiceOfDict'
  BY <1>1, <1>2 DEF SniInv, SniTypeOK, DictIsLast, ChoiceOfDict
<1>4. RoutesOfDict'
  BY <1>1, <1>2 DEF SniInv, RoutesOfDict
<1> QED BY <1>3, <1>4 DEF SniInv

\* A connection is routed by its name.
LEMMA SniConnect == ASSUME SniInv, NEW n \in SNI, Connect(n) PROVE SniInv'
<1>1. /\ sniPc = "run" /\ choice' = [choice EXCEPT ![n] = First(n)]
      /\ UNCHANGED <<sniPc, flags, sniDict, routes>>
  BY DEF Connect
<1>2. \/ First(n) = Close /\ sniDict[n] = Unset /\ sniDict[Default] = Unset
      \/ First(n) \in {sniDict[n], sniDict[Default]} /\ First(n) \in Backend
  BY <1>1, FirstMatches DEF SniInv
<1>3. choice \in [SNI -> Backend \cup {Unset, Close}] /\ First(n) \in Backend \cup {Unset, Close}
  BY <1>2 DEF SniInv, SniTypeOK
<1>4. choice'[n] = First(n) /\ \A k \in SNI : k # n => choice'[k] = choice[k]
  BY <1>1, <1>3
<1>5. SniTypeOK' /\ DictIsLast' /\ RoutesOfDict'
  <2>1. choice' \in [SNI -> Backend \cup {Unset, Close}]
    BY <1>1, <1>3
  <2>2. SniTypeOK'
    BY <1>1, <2>1 DEF SniInv, SniTypeOK
  <2>3. DictIsLast'
    BY <1>1 DEF SniInv, DictIsLast
  <2>4. RoutesOfDict'
    BY <1>1 DEF SniInv, RoutesOfDict, InRoutes
  <2> QED BY <2>2, <2>3, <2>4
<1>6. Close \notin Backend
  BY SniAssumption
<1>7. ASSUME NEW k \in SNI, choice'[k] # Unset
      PROVE  IF choice'[k] = Close THEN sniDict[k] = Unset /\ sniDict[Default] = Unset
             ELSE choice'[k] \in {sniDict[k], sniDict[Default]}
  <2>1. CASE k = n
    BY <1>2, <1>4, <1>6, <2>1
  <2>2. CASE k # n
    BY <1>4, <1>7, <2>2 DEF SniInv, ChoiceOfDict
  <2> QED BY <2>1, <2>2
<1> QED BY <1>1, <1>5, <1>7 DEF SniInv, ChoiceOfDict

\* For any flags, any order of the routes and any connections.
THEOREM SniInvHolds == SniSpec => []SniInv
<1>1. ASSUME SniInv, [SniNext]_sniVars PROVE SniInv'
  <2>1. CASE ReadFlag
    BY <1>1, <2>1, SniFlag
  <2>2. CASE FlagsRead
    BY <1>1, <2>2 DEF FlagsRead, SniInv, SniTypeOK, DictIsLast, RoutesOfDict, ChoiceOfDict
  <2>3. CASE Run
    <3>1. /\ sniPc = "routes" /\ sniPc' = "run" /\ UNCHANGED <<flags, sniDict, routes, choice>>
          /\ \A n \in Names : sniDict[n] # Unset => n \in InRoutes
      BY <2>3 DEF Run
    <3>2. SniTypeOK' /\ DictIsLast' /\ ChoiceOfDict'
      BY <1>1, <3>1 DEF SniInv, SniTypeOK, DictIsLast, ChoiceOfDict
    <3>3. InRoutes' = InRoutes
      BY <3>1 DEF InRoutes
    <3>4. RoutesOfDict'
      BY <1>1, <3>1, <3>3 DEF SniInv, RoutesOfDict
    <3> QED BY <3>2, <3>4 DEF SniInv
  <2>4. ASSUME NEW n \in Names, AddARoute(n) PROVE SniInv'
    BY <1>1, <2>4, SniRoute
  <2>5. ASSUME NEW n \in SNI, Connect(n) PROVE SniInv'
    BY <1>1, <2>5, SniConnect
  <2>6. CASE UNCHANGED sniVars
    <3>1. UNCHANGED <<sniPc, flags, sniDict, routes, choice>>
      BY <2>6 DEF sniVars
    <3>2. SniTypeOK' /\ DictIsLast' /\ ChoiceOfDict'
      BY <1>1, <3>1 DEF SniInv, SniTypeOK, DictIsLast, ChoiceOfDict
    <3>3. InRoutes' = InRoutes
      BY <3>1 DEF InRoutes
    <3>4. RoutesOfDict'
      BY <1>1, <3>1, <3>3 DEF SniInv, RoutesOfDict
    <3> QED BY <3>2, <3>4 DEF SniInv
  <2> QED BY <1>1, <2>1, <2>2, <2>3, <2>4, <2>5, <2>6 DEF SniNext
<1> QED BY <1>1, SniFirst, PTL DEF SniSpec

\* Whatever the order of the routes, a connection goes to its name's last
\* backend or to the last default, and is closed only for want of both
\* (main.go:34-50).
THEOREM OwnOrDefaultHolds == SniSpec => []OwnOrDefault
<1>1. SniInv => OwnOrDefault
  <2> SUFFICES ASSUME SniInv, NEW n \in SNI, choice[n] # Unset
               PROVE  IF choice[n] = Close THEN LastFlag(n) = Unset /\ LastFlag(Default) = Unset
                      ELSE choice[n] \in {LastFlag(n), LastFlag(Default)}
    BY DEF OwnOrDefault
  <2>1. LastFlag(n) = sniDict[n] /\ LastFlag(Default) = sniDict[Default]
    BY LastIsDict DEF SniInv, Names
  <2> QED BY <2>1 DEF SniInv, ChoiceOfDict
<1> QED BY <1>1, SniInvHolds, PTL

-----------------------------------------------------------------------------
(* redlineparser *)

\* Kind s has been seen to: told of, or whole and of this run.
Handled(s) == LET o == output[<<Stages[s], uid>>] IN
    Stages[s] \in told \/ (o.whole /\ o.run = rlRun)

\* The run reads rows of its own; what it has written of them is in its file.
RowsInHand ==
    /\ rlPc \in {"create", "rows"} => rows = [i \in 1..Len(rows) |-> <<rlRun, i>>]
    /\ rlPc = "rows" => Out.run = rlRun /\ Len(Out.rows) = written
    /\ rlPc \in {"read", "create"} => written = 0

\* Nothing is of a later run; the kinds before the one at work are seen to,
\* those from it on are not of this run, but the one being written.
StageOrder ==
    /\ \A f \in Kind \X UniqueIDs : output[f].run <= rlRun
    /\ rlRun = 0 => rlPc = "done"
    /\ rlRun > 0 =>
          /\ uid \in UniqueIDs
          /\ \A s \in 1..Len(Stages) :
                /\ s < stage \/ rlPc = "done" => Handled(s)
                /\ s > stage \/ (s = stage /\ rlPc \in {"read", "create", "panic"})
                   => output[<<Stages[s], uid>>].run # rlRun

RlInv == RlTypeOK /\ OneRunPerFile /\ RowsInHand /\ StageOrder

\* What the lemmas below use of the types.
LEMMA RlFacts ==
    ASSUME RlTypeOK
    PROVE  /\ Len(Stages) \in Nat /\ stage \in 1..Len(Stages) /\ Now \in Kind
           /\ \A s \in 1..Len(Stages) : Stages[s] \in Kind /\ (Stages[s] = Now => s = stage)
           /\ \A f \in Kind \X UniqueIDs : /\ output[f].rows \in Seq(RlRow) /\ Len(output[f].rows) \in Nat
                                           /\ output[f].run \in Nat
           /\ rlRun \in Nat /\ RlMaxRuns \in Nat /\ rlRun <= RlMaxRuns
           /\ rows \in Seq(RlRow) /\ Len(rows) \in Nat /\ written \in Nat
           /\ DOMAIN output = Kind \X UniqueIDs
<1>1. Len(Stages) \in Nat
  BY DEF RlTypeOK
<1> QED BY <1>1, RedlineAssumption DEF RlTypeOK, Now, Kind

\* Whoever handles the kind at work goes on with the next, and leaves the
\* others' files and its own as seen to.
LEMMA RlAdvances ==
    ASSUME RlInv, Advance, rlPc # "done", UNCHANGED <<rlRun, uid>>, rlRun > 0,
           NEW f, output' = [output EXCEPT ![<<Now, uid>>] = f], f.run \in {Out.run, rlRun},
           told \subseteq told', \A s \in 1..Len(Stages) : s = stage => Handled(s)'
    PROVE  StageOrder'
<1>1. /\ Len(Stages) \in Nat /\ stage \in 1..Len(Stages) /\ Now \in Kind /\ uid \in UniqueIDs
      /\ DOMAIN output = Kind \X UniqueIDs /\ <<Now, uid>> \in Kind \X UniqueIDs
  BY RlFacts DEF RlInv, StageOrder
<1>2. /\ output'[<<Now, uid>>] = f
      /\ \A h \in Kind \X UniqueIDs : h # <<Now, uid>> => output'[h] = output[h]
  BY <1>1
<1>3. \A s \in 1..Len(Stages) : s # stage => output'[<<Stages[s], uid>>] = output[<<Stages[s], uid>>]
  <2> SUFFICES ASSUME NEW s \in 1..Len(Stages), s # stage
               PROVE  output'[<<Stages[s], uid>>] = output[<<Stages[s], uid>>]
    OBVIOUS
  <2>1. Stages[s] \in Kind /\ Stages[s] # Now
    BY RlFacts DEF RlInv
  <2>2. <<Stages[s], uid>> \in Kind \X UniqueIDs /\ <<Stages[s], uid>> # <<Now, uid>>
    BY <1>1, <2>1
  <2> QED BY <1>2, <2>2
<1>4. \A h \in Kind \X UniqueIDs : output'[h].run <= rlRun'
  BY <1>1, <1>2, RlFacts DEF RlInv, StageOrder, Out
<1>5. \A s \in 1..Len(Stages) : s < stage => Handled(s)'
  BY <1>3 DEF RlInv, StageOrder, Handled
<1>6. \A s \in 1..Len(Stages) : s > stage => output'[<<Stages[s], uid>>].run # rlRun
  BY <1>3 DEF RlInv, StageOrder
<1>7. \/ rlPc' = "read" /\ stage' = stage + 1
      \/ rlPc' = "done" /\ stage' = stage /\ stage = Len(Stages)
  BY <1>1 DEF Advance
<1>8. \A s \in 1..Len(Stages) : s < stage' \/ rlPc' = "done" => Handled(s)'
  BY <1>1, <1>5, <1>7
<1>9. \A s \in 1..Len(Stages) : s > stage' \/ (s = stage' /\ rlPc' = "read") => output'[<<Stages[s], uid>>].run # rlRun
  BY <1>1, <1>6, <1>7
<1> QED BY <1>1, <1>4, <1>7, <1>8, <1>9 DEF StageOrder

\* Before the first run.
LEMMA RlFirst == RlInit => RlInv
<1> SUFFICES ASSUME RlInit PROVE RlInv
  OBVIOUS
<1>1. RlTypeOK
  BY RedlineAssumption DEF RlInit, RlTypeOK, NoFile
<1>2. OneRunPerFile
  BY DEF RlInit, OneRunPerFile, NoFile
<1>3. RowsInHand /\ StageOrder
  BY DEF RlInit, RowsInHand, StageOrder, NoFile
<1> QED BY <1>1, <1>2, <1>3 DEF RlInv

\* A run on what the runs before have left.
LEMMA RlRun == ASSUME RlInv, RunRedline PROVE RlInv'
<1>1. /\ rlRun' = rlRun + 1 /\ rlRun < RlMaxRuns /\ stage' = 1 /\ rlPc' = "create"
      /\ rows' = <<<<rlRun', 1>>>> /\ written' = 0 /\ output' = output /\ told' \in {{}, {"user_info"}}
  BY DEF RunRedline
<1>2. rlRun' \in 1..RlMaxRuns /\ rlRun' > rlRun /\ RlMaxRuns \in Nat /\ rlRun \in Nat
  BY <1>1, RlFacts DEF RlInv
<1>3. uid' \in UniqueIDs
  <2>1. \A h \in HWID \cup {Missing}, d \in Date \cup {Missing} : UniqueID(h, d) \in UniqueIDs
    BY <1>2 DEF UniqueID, UniqueIDs
  <2>2. \E h \in HWID \cup {Missing}, d \in Date \cup {Missing} : uid' = UniqueID(h, d)
    BY DEF RunRedline
  <2> QED BY <2>1, <2>2
<1>4. RlTypeOK'
  <2>1. rows' \in Seq(RlRow) /\ 0 \in 0..Len(rows')
    BY <1>1, <1>2, RedlineAssumption DEF RlRow
  <2>2. stage' \in 1..Len(Stages) /\ told' \subseteq Kind
    BY <1>1, RedlineAssumption, RlFacts DEF RlInv, Kind
  <2>3. rlRun' \in 0..RlMaxRuns /\ rlPc' \in {"read", "create", "rows", "done", "panic"}
    BY <1>1, <1>2
  <2> QED BY <1>1, <1>3, <2>1, <2>2, <2>3 DEF RlInv, RlTypeOK
<1>5. OneRunPerFile'
  BY <1>1 DEF RlInv, OneRunPerFile
<1>6. RowsInHand'
  BY <1>1 DEF RowsInHand
<1>7. StageOrder'
  <2>1. \A f \in Kind \X UniqueIDs : output'[f].run <= rlRun /\ output'[f].run \in Nat
    BY <1>1, RlFacts DEF RlInv, StageOrder
  <2>2. \A f \in Kind \X UniqueIDs : output'[f].run <= rlRun' /\ output'[f].run # rlRun'
    BY <1>2, <2>1
  <2>3. \A s \in 1..Len(Stages) : <<Stages[s], uid'>> \in Kind \X UniqueIDs /\ ~(s < 1)
    BY <1>3, RlFacts DEF RlInv
  <2>4. rlRun' # 0
    BY <1>2
  <2> QED BY <1>1, <1>3, <2>2, <2>3, <2>4 DEF StageOrder
<1> QED BY <1>4, <1>5, <1>6, <1>7 DEF RlInv

\* A change of one file by the run at work: the types, and one run per file.
LEMMA RlReplaces ==
    ASSUME RlInv, rlRun > 0, NEW f, Replace(f), UNCHANGED rlRun,
           f \in [rows : Seq(RlRow), whole : BOOLEAN, run : 0..RlMaxRuns],
           f.rows = [i \in 1..Len(f.rows) |-> <<f.run, i>>]
    PROVE  /\ output' \in [Kind \X UniqueIDs -> [rows : Seq(RlRow), whole : BOOLEAN, run : 0..RlMaxRuns]]
           /\ OneRunPerFile' /\ Out' = output'[<<Now', uid'>>] /\ output'[<<Now, uid>>] = f
           /\ \A h \in Kind \X UniqueIDs : h # <<Now, uid>> => output'[h] = output[h]
<1>1. <<Now, uid>> \in Kind \X UniqueIDs /\ DOMAIN output = Kind \X UniqueIDs
  BY RlFacts DEF RlInv, StageOrder
<1>2. output' = [output EXCEPT ![<<Now, uid>>] = f]
  BY DEF Replace
<1>3. output' \in [Kind \X UniqueIDs -> [rows : Seq(RlRow), whole : BOOLEAN, run : 0..RlMaxRuns]]
  BY <1>1, <1>2 DEF RlInv, RlTypeOK
<1>4. /\ output'[<<Now, uid>>] = f /\ DOMAIN output' = Kind \X UniqueIDs
      /\ \A h \in Kind \X UniqueIDs : h # <<Now, uid>> => output'[h] = output[h]
  BY <1>1, <1>2
<1>5. OneRunPerFile'
  <2> SUFFICES ASSUME NEW h \in Kind \X UniqueIDs
               PROVE  output'[h].rows = [i \in 1..Len(output'[h].rows) |-> <<output'[h].run, i>>]
    BY <1>4 DEF OneRunPerFile
  <2>1. CASE h = <<Now, uid>>
    BY <1>4, <2>1
  <2>2. CASE h # <<Now, uid>>
    <3>1. output[h].rows = [i \in 1..Len(output[h].rows) |-> <<output[h].run, i>>]
      BY <1>1 DEF RlInv, OneRunPerFile
    <3> QED BY <1>4, <2>2, <3>1
  <2> QED BY <2>1, <2>2
<1> QED BY <1>3, <1>4, <1>5 DEF Out

\* What is left of the types when the kind at work is done with.
LEMMA RlAdvanceTypes ==
    ASSUME RlInv, Advance, UNCHANGED <<rlRun, uid>>, told' \in {told, told \cup {Now}},
           output' \in [Kind \X UniqueIDs -> [rows : Seq(RlRow), whole : BOOLEAN, run : 0..RlMaxRuns]]
    PROVE  RlTypeOK' /\ RowsInHand'
<1>1. Len(Stages) \in Nat /\ stage \in 1..Len(Stages) /\ Now \in Kind
  BY RlFacts DEF RlInv
<1>2. stage' \in 1..Len(Stages) /\ rlPc' \in {"read", "done"} /\ rows' = <<>> /\ written' = 0
  BY <1>1 DEF Advance
<1>3. told' \subseteq Kind
  BY <1>1 DEF RlInv, RlTypeOK
<1>4. rows' \in Seq(RlRow) /\ written' \in 0..Len(rows')
  BY <1>2
<1>5. rlPc' \in {"read", "create", "rows", "done", "panic"}
  BY <1>2
<1>6. RlTypeOK'
  BY <1>2, <1>3, <1>4, <1>5 DEF RlInv, RlTypeOK
<1> QED BY <1>2, <1>6 DEF RowsInHand

\* An error of the kind at work, whatever it leaves in the file.
LEMMA RlTells ==
    ASSUME RlInv, Advance, Tell, rlPc # "done", rlRun > 0, UNCHANGED <<rlRun, uid>>,
           \/ UNCHANGED output
           \/ Replace([rows |-> <<>>, whole |-> FALSE, run |-> rlRun])
    PROVE  RlInv'
<1>1. /\ <<Now, uid>> \in Kind \X UniqueIDs /\ DOMAIN output = Kind \X UniqueIDs
      /\ rlRun \in 0..RlMaxRuns
  BY RlFacts DEF RlInv, StageOrder, RlTypeOK
<1>2. told' = told \cup {Now} /\ \A s \in 1..Len(Stages) : s = stage => Handled(s)'
  BY DEF Tell, Now, Handled
<1>3. CASE UNCHANGED output
  <2>1. output' = [output EXCEPT ![<<Now, uid>>] = Out]
    BY <1>1, <1>3 DEF RlInv, RlTypeOK, Out
  <2>2. StageOrder'
    BY <1>2, <2>1, RlAdvances
  <2>3. RlTypeOK' /\ RowsInHand'
    BY <1>2, <1>3, RlAdvanceTypes DEF RlInv, RlTypeOK
  <2>4. OneRunPerFile'
    BY <1>3 DEF RlInv, OneRunPerFile
  <2> QED BY <2>2, <2>3, <2>4 DEF RlInv
<1>4. CASE Replace([rows |-> <<>>, whole |-> FALSE, run |-> rlRun])
  <2> DEFINE f == [rows |-> <<>>, whole |-> FALSE, run |-> rlRun]
  <2>1. /\ f \in [rows : Seq(RlRow), whole : BOOLEAN, run : 0..RlMaxRuns]
        /\ f.rows = [i \in 1..Len(f.rows) |-> <<f.run, i>>] /\ f.run = rlRun
    BY <1>1
  <2>2. output' = [output EXCEPT ![<<Now, uid>>] = f]
    BY <1>4 DEF Replace
  <2> HIDE DEF f
  <2>3. StageOrder'
    BY <1>2, <2>1, <2>2, RlAdvances
  <2>4. /\ output' \in [Kind \X UniqueIDs -> [rows : Seq(RlRow), whole : BOOLEAN, run : 0..RlMaxRuns]]
        /\ OneRunPerFile'
    BY <2>1, <2>2, RlReplaces DEF Replace
  <2>5. RlTypeOK' /\ RowsInHand'
    BY <1>2, <2>4, RlAdvanceTypes
  <2> QED BY <2>3, <2>4, <2>5 DEF RlInv
<1> QED BY <1>3, <1>4

\* A run at work leaves alone what is not of its kind.
LEMMA RlStays ==
    ASSUME RlInv, rlRun > 0, UNCHANGED <<rlRun, uid, stage, told>>,
           rlPc # "done", rlPc' # "done",
           NEW f, output' = [output EXCEPT ![<<Now, uid>>] = f],
           f = Out \/ f.run = rlRun,
           rlPc' \in {"read", "create", "panic"} => f = Out /\ rlPc \in {"read", "create", "panic"}
    PROVE  StageOrder'
<1>1. /\ stage \in 1..Len(Stages) /\ Now \in Kind /\ uid \in UniqueIDs
      /\ DOMAIN output = Kind \X UniqueIDs /\ <<Now, uid>> \in Kind \X UniqueIDs
  BY RlFacts DEF RlInv, StageOrder
<1>2. /\ output'[<<Now, uid>>] = f
      /\ \A h \in Kind \X UniqueIDs : h # <<Now, uid>> => output'[h] = output[h]
  BY <1>1
<1>3. \A s \in 1..Len(Stages) : s # stage => output'[<<Stages[s], uid>>] = output[<<Stages[s], uid>>]
  <2> SUFFICES ASSUME NEW s \in 1..Len(Stages), s # stage
               PROVE  output'[<<Stages[s], uid>>] = output[<<Stages[s], uid>>]
    OBVIOUS
  <2>1. Stages[s] \in Kind /\ Stages[s] # Now
    BY RlFacts DEF RlInv
  <2>2. <<Stages[s], uid>> \in Kind \X UniqueIDs /\ <<Stages[s], uid>> # <<Now, uid>>
    BY <1>1, <2>1
  <2> QED BY <1>2, <2>2
<1>4. f.run <= rlRun
  BY <1>1, RlFacts DEF RlInv, StageOrder, Out
<1>5. \A h \in Kind \X UniqueIDs : output'[h].run <= rlRun'
  BY <1>2, <1>4 DEF RlInv, StageOrder
<1>6. \A s \in 1..Len(Stages) : s < stage => Handled(s)'
  <2> SUFFICES ASSUME NEW s \in 1..Len(Stages), s < stage PROVE Handled(s)'
    OBVIOUS
  <2>1. Handled(s)
    BY DEF RlInv, StageOrder
  <2>2. s # stage
    BY RlFacts DEF RlInv
  <2> QED BY <1>3, <2>1, <2>2 DEF Handled
<1>7. \A s \in 1..Len(Stages) : s > stage => output'[<<Stages[s], uid>>].run # rlRun
  BY <1>1, <1>3 DEF RlInv, StageOrder
<1>8. rlPc' \in {"read", "create", "panic"} => output'[<<Stages[stage], uid>>].run # rlRun
  BY <1>1, <1>2 DEF RlInv, StageOrder, Out, Now
<1> QED BY <1>1, <1>5, <1>6, <1>7, <1>8 DEF StageOrder

\* The readers of a kind give rows, an error or a panic.
LEMMA RlReadKind == ASSUME RlInv, ReadKind PROVE RlInv'
<1>1. /\ rlPc = "read" /\ UNCHANGED <<rlRun, uid, output>> /\ rlRun > 0 /\ rlRun \in 1..RlMaxRuns
      /\ written = 0
  BY RlFacts DEF RlInv, StageOrder, ReadKind, RowsInHand
<1>2. OneRunPerFile'
  BY <1>1 DEF RlInv, OneRunPerFile
<1>3. output' = [output EXCEPT ![<<Now, uid>>] = Out]
  BY <1>1, RlFacts DEF RlInv, RlTypeOK, StageOrder, Out
<1>4. ASSUME NEW n \in 0..MaxRows, rows' = [i \in 1..n |-> <<rlRun, i>>], rlPc' = "create",
             UNCHANGED <<stage, written, told>>
      PROVE  RlInv'
  <2>1. n \in Nat /\ rows' \in Seq(RlRow) /\ Len(rows') = n
    BY <1>1, <1>4, RedlineAssumption DEF RlRow
  <2>2. RlTypeOK'
    BY <1>1, <1>4, <2>1 DEF RlInv, RlTypeOK
  <2>3. RowsInHand'
    BY <1>1, <1>4, <2>1 DEF RowsInHand
  <2>4. StageOrder'
    BY <1>1, <1>3, <1>4, RlStays
  <2> QED BY <1>2, <2>2, <2>3, <2>4 DEF RlInv
<1>5. CASE ReadFails
  BY <1>1, <1>5, RlTells DEF ReadFails
<1>6. CASE rlPc' = "panic" /\ UNCHANGED <<stage, rows, written, told>>
  <2>1. RlTypeOK' /\ RowsInHand'
    BY <1>1, <1>6 DEF RlInv, RlTypeOK, RowsInHand
  <2>2. StageOrder'
    BY <1>1, <1>3, <1>6, RlStays
  <2> QED BY <1>2, <2>1, <2>2 DEF RlInv
<1> QED BY <1>4, <1>5, <1>6 DEF ReadKind

\* The file of a kind is created, or cannot be.
LEMMA RlCreate == ASSUME RlInv, CreateFile PROVE RlInv'
<1>1. /\ rlPc = "create" /\ UNCHANGED <<rlRun, uid>> /\ rlRun > 0 /\ rlRun \in 0..RlMaxRuns
      /\ written = 0
  BY RlFacts DEF RlInv, StageOrder, CreateFile, RowsInHand
<1> DEFINE f == [rows |-> <<>>, whole |-> FALSE, run |-> rlRun]
<1>2. CASE Replace(f) /\ rlPc' = "rows" /\ UNCHANGED <<stage, rows, written, told>>
  <2>1. /\ f \in [rows : Seq(RlRow), whole : BOOLEAN, run : 0..RlMaxRuns]
        /\ f.rows = [i \in 1..Len(f.rows) |-> <<f.run, i>>] /\ f.run = rlRun /\ Len(f.rows) = 0
    BY <1>1
  <2> HIDE DEF f
  <2>2. /\ output' \in [Kind \X UniqueIDs -> [rows : Seq(RlRow), whole : BOOLEAN, run : 0..RlMaxRuns]]
        /\ OneRunPerFile' /\ Out' = f
    BY <1>1, <1>2, <2>1, RlReplaces DEF Now
  <2>3. RlTypeOK'
    BY <1>1, <1>2, <2>2 DEF RlInv, RlTypeOK
  <2>4. RowsInHand'
    BY <1>1, <1>2, <2>1, <2>2 DEF RlInv, RowsInHand
  <2>5. StageOrder'
    BY <1>1, <1>2, <2>1, RlStays DEF Replace
  <2> QED BY <2>2, <2>3, <2>4, <2>5 DEF RlInv
<1>3. CASE Fails /\ (UNCHANGED output \/ Replace(f))
  BY <1>1, <1>3, RlTells DEF Fails
<1> QED BY <1>2, <1>3 DEF CreateFile

\* A row is written.
LEMMA RlWriteRow == ASSUME RlInv, WriteRow PROVE RlInv'
<1>1. /\ rlPc = "rows" /\ UNCHANGED <<rlRun, uid>> /\ rlRun > 0 /\ rlRun \in 0..RlMaxRuns
      /\ written < Len(rows) /\ Len(rows) \in Nat /\ written \in Nat /\ rows \in Seq(RlRow)
      /\ <<Now, uid>> \in Kind \X UniqueIDs
  BY RlFacts DEF RlInv, StageOrder, WriteRow, RlTypeOK
<1>2. /\ Out \in [rows : Seq(RlRow), whole : BOOLEAN, run : 0..RlMaxRuns] /\ Out.run = rlRun
      /\ Len(Out.rows) = written /\ Out.rows = [i \in 1..written |-> <<rlRun, i>>]
      /\ rows = [i \in 1..Len(rows) |-> <<rlRun, i>>]
  BY <1>1, RlFacts DEF RlInv, RlTypeOK, RowsInHand, OneRunPerFile, Out
<1> DEFINE f == [Out EXCEPT !.rows = Append(@, rows[written + 1])]
<1>3. CASE Replace(f) /\ written' = written + 1 /\ UNCHANGED <<rlPc, stage, rows, told>>
  <2>1. rows[written + 1] = <<rlRun, written + 1>> /\ rows[written + 1] \in RlRow
    BY <1>1, <1>2
  <2>2. f.run = rlRun /\ f.whole = Out.whole /\ f.rows = Append(Out.rows, <<rlRun, written + 1>>)
    BY <1>2, <2>1
  <2>0. f \in [rows : {f.rows}, whole : {f.whole}, run : {f.run}]
    BY <1>2
  <2> HIDE DEF f
  <2> DEFINE o == Out.rows
  <2>11. o \in Seq(RlRow) /\ Len(o) = written /\ f.rows = Append(o, <<rlRun, written + 1>>)
    BY <1>2, <2>2
  <2>12. \A i \in 1..written : o[i] = <<rlRun, i>>
    BY <1>2
  <2> HIDE DEF o
  <2>3. f.rows \in Seq(RlRow) /\ Len(f.rows) = written + 1
    BY <2>1, <2>11
  <2>4. \A i \in 1..(written + 1) : f.rows[i] = <<rlRun, i>>
    BY <1>1, <2>11, <2>12
  <2>5. f.rows = [i \in 1..Len(f.rows) |-> <<f.run, i>>]
    <3>1. f.rows = [i \in 1..(written + 1) |-> f.rows[i]]
      BY <2>3
    <3> QED BY <2>2, <2>3, <2>4, <3>1
  <2>6. f \in [rows : Seq(RlRow), whole : BOOLEAN, run : 0..RlMaxRuns]
    BY <1>1, <1>2, <2>0, <2>2, <2>3
  <2>7. /\ output' \in [Kind \X UniqueIDs -> [rows : Seq(RlRow), whole : BOOLEAN, run : 0..RlMaxRuns]]
        /\ OneRunPerFile' /\ Out' = f
    BY <1>1, <1>3, <2>5, <2>6, RlReplaces DEF Now
  <2>8. RlTypeOK'
    BY <1>1, <1>3, <2>7 DEF RlInv, RlTypeOK
  <2>9. RowsInHand'
    BY <1>1, <1>2, <1>3, <2>2, <2>3, <2>7 DEF RlInv, RowsInHand
  <2>10. StageOrder'
    BY <1>1, <1>3, <2>2, RlStays DEF Replace
  <2> QED BY <2>7, <2>8, <2>9, <2>10 DEF RlInv
<1>4. CASE Fails /\ UNCHANGED output
  BY <1>1, <1>4, RlTells DEF Fails
<1> QED BY <1>3, <1>4 DEF WriteRow

\* Writing ends: done, or with an error.
LEMMA RlWriteStop == ASSUME RlInv, WriteStop PROVE RlInv'
<1>1. /\ rlPc = "rows" /\ UNCHANGED <<rlRun, uid>> /\ rlRun > 0 /\ rlRun \in 0..RlMaxRuns
      /\ <<Now, uid>> \in Kind \X UniqueIDs
  BY RlFacts DEF RlInv, StageOrder, WriteStop, RlTypeOK
<1>2. /\ Out \in [rows : Seq(RlRow), whole : BOOLEAN, run : 0..RlMaxRuns] /\ Out.run = rlRun
      /\ Out.rows = [i \in 1..Len(Out.rows) |-> <<Out.run, i>>]
  BY <1>1, RlFacts DEF RlInv, RlTypeOK, RowsInHand, OneRunPerFile, Out
<1> DEFINE f == [Out EXCEPT !.whole = TRUE]
<1>3. CASE Replace(f) /\ Advance /\ UNCHANGED told
  <2>1. /\ f \in [rows : Seq(RlRow), whole : BOOLEAN, run : 0..RlMaxRuns] /\ f.run = rlRun /\ f.whole
        /\ f.rows = [i \in 1..Len(f.rows) |-> <<f.run, i>>]
    BY <1>2
  <2> HIDE DEF f
  <2>2. /\ output' \in [Kind \X UniqueIDs -> [rows : Seq(RlRow), whole : BOOLEAN, run : 0..RlMaxRuns]]
        /\ OneRunPerFile' /\ output'[<<Now, uid>>] = f
    BY <1>1, <1>3, <2>1, RlReplaces
  <2>3. \A s \in 1..Len(Stages) : s = stage => Handled(s)'
    BY <1>1, <2>1, <2>2 DEF Handled, Now
  <2>4. StageOrder'
    BY <1>1, <1>3, <2>1, <2>3, RlAdvances DEF Replace
  <2>5. RlTypeOK' /\ RowsInHand'
    BY <1>1, <1>3, <2>2, RlAdvanceTypes
  <2> QED BY <2>2, <2>4, <2>5 DEF RlInv
<1>4. CASE Fails /\ UNCHANGED output
  BY <1>1, <1>4, RlTells DEF Fails
<1> QED BY <1>3, <1>4 DEF WriteStop

\* For any folders and kinds, any number of runs, and errors anywhere.
THEOREM RlInvHolds == RlSpec => []RlInv
<1>1. ASSUME RlInv, [RlNext]_rlVars PROVE RlInv'
  <2>1. CASE RlWork
    BY <1>1, <2>1, RlReadKind, RlCreate, RlWriteRow, RlWriteStop DEF RlWork
  <2>2. CASE RunRedline
    BY <1>1, <2>2, RlRun
  <2>3. CASE UNCHANGED rlVars
    <3>1. UNCHANGED <<rlPc, rlRun, stage, uid, rows, written, output, told>>
      BY <2>3 DEF rlVars
    <3>2. RlTypeOK' /\ OneRunPerFile'
      BY <1>1, <3>1 DEF RlInv, RlTypeOK, OneRunPerFile
    <3>3. RowsInHand' /\ StageOrder'
      BY <1>1, <3>1 DEF RlInv, RowsInHand, StageOrder, Handled, Out, Now
    <3> QED BY <3>2, <3>3 DEF RlInv
  <2> QED BY <1>1, <2>1, <2>2, <2>3 DEF RlNext
<1> QED BY <1>1, RlFirst, PTL DEF RlSpec

\* A file holds the first rows of one run, a run that ends has each kind whole
\* or told of, one that panics has left nothing half-written of its own
\* (main.go:120-206, 564-629).
THEOREM FilesOfRunsHold == RlSpec => []FilesOfRuns
<1>1. RlInv => FilesOfRuns
  <2> SUFFICES ASSUME RlInv PROVE FilesOfRuns
    OBVIOUS
  <2>1. WholeOrTold
    <3> SUFFICES ASSUME rlPc = "done", rlRun > 0, NEW k \in Kind
                 PROVE  k \in told \/ (output[<<k, uid>>].whole /\ output[<<k, uid>>].run = rlRun)
      BY DEF WholeOrTold
    <3>1. PICK s \in 1..Len(Stages) : k = Stages[s]
      BY DEF Kind
    <3>2. Handled(s)
      BY DEF RlInv, StageOrder
    <3> QED BY <3>1, <3>2 DEF Handled
  <2>2. PanicKeepsOrder
    <3> SUFFICES ASSUME rlPc = "panic", NEW s \in 1..Len(Stages)
                 PROVE  /\ s < stage => Handled(s)
                        /\ s >= stage => output[<<Stages[s], uid>>].run # rlRun
      BY DEF PanicKeepsOrder, Handled
    <3>1. rlRun > 0 /\ stage \in Nat /\ s \in Nat
      BY RlFacts DEF RlInv, StageOrder
    <3>2. s >= stage <=> s > stage \/ s = stage
      BY <3>1
    <3> QED BY <3>1, <3>2 DEF RlInv, StageOrder
  <2> QED BY <2>1, <2>2 DEF RlInv, FilesOfRuns
<1> QED BY <1>1, RlInvHolds, PTL

-----------------------------------------------------------------------------
(* mhs *)

Increasing(q) == \A i, j \in Logged(q) : i < j => events[i][2] < events[j][2]
LoggedLines(q) == {events[i][2] : i \in Logged(q)}
EventsOf(b, u) == {n \in 1..u : b[n] = "event"}
NoBad(b, u) == \A n \in 1..u : b[n] # "bad"

\* A request before its lines, among them, and answered.
Before(q) == at[q] = 1 /\ status[q] = 0 /\ Logged(q) = {} /\ ask[q].body = <<>>
Among(q) == LET b == ask[q].body IN
    /\ status[q] = 0 /\ ask[q].path \in {"event", "validate", "bulk"}
    /\ at[q] <= Len(b) + 1 /\ NoBad(b, at[q] - 1)
    /\ ask[q].path # "event" => NoBad(b, Len(b))
    /\ LoggedLines(q) = EventsOf(b, at[q] - 1)
    /\ \A i \in Logged(q) : events[i][2] < at[q]
After(q) == LET b == ask[q].body IN
    \/ Logged(q) = {} /\ status[q] \in {400, 403, 404, 405, 500}
       /\ (status[q] = 400 => ask[q].path \notin {"event", "raw"})
    \/ status[q] = 200 /\ Logged(q) = {} /\ ask[q].path = "health" /\ b = <<>>
    \/ status[q] = 200 /\ ask[q].path = "raw" /\ \E i \in Logged(q) : Logged(q) = {i}
    \/ status[q] = 200 /\ ask[q].path # "raw" /\ LoggedLines(q) = EventsOf(b, Len(b)) /\ NoBad(b, Len(b))
    \/ /\ status[q] = 400 /\ ask[q].path = "event"
       /\ \E m \in 1..Len(b) : b[m] = "bad" /\ NoBad(b, m - 1) /\ LoggedLines(q) = EventsOf(b, m - 1)

ReqInv(q) ==
    /\ Increasing(q)
    /\ mhsSt[q] \in {"idle", "auth", "handle", "body"} => Before(q)
    /\ mhsSt[q] = "body" => ask[q].path \notin {"health", "other"}
    /\ mhsSt[q] = "lines" => Among(q)
    /\ mhsSt[q] = "answered" => After(q)

MhsInv == MhsTypeOK /\ \A q \in Request : ReqInv(q)

\* Bodies are short sequences of lines.
LEMMA BodyFacts ==
    ASSUME NEW b \in Bodies
    PROVE  Len(b) \in Nat /\ Len(b) <= BodyMax /\ \A n \in 1..Len(b) : b[n] \in LineKinds
<1>1. PICK n \in 0..BodyMax : b \in [1..n -> LineKinds]
  BY DEF Bodies
<1>2. n \in Nat /\ n <= BodyMax
  BY MhsAssumption
<1> QED BY <1>1, <1>2

\* The empty body is one of them.
LEMMA EmptyBody == <<>> \in Bodies /\ Len(<<>>) = 0
<1>1. <<>> \in [1..0 -> LineKinds] /\ 0 \in 0..BodyMax
  BY MhsAssumption
<1> QED BY <1>1 DEF Bodies

\* An entry at the end of the log is there for its request alone.
LEMMA LogGrows ==
    ASSUME MhsTypeOK, NEW p \in Request, NEW x, events' = Append(events, <<p, x>>), NEW q \in Request
    PROVE  /\ Logged(q)' = IF p = q THEN Logged(q) \cup {Len(events) + 1} ELSE Logged(q)
           /\ \A i \in Logged(q) : events'[i] = events[i] /\ i <= Len(events) /\ i \in Nat
           /\ events'[Len(events) + 1] = <<p, x>> /\ Len(events) \in Nat
<1> DEFINE n == Len(events)
<1>1. events \in Seq(Request \X (0..BodyMax)) /\ n \in Nat
  BY DEF MhsTypeOK
<1>2. Len(events') = n + 1 /\ events'[n + 1] = <<p, x>> /\ \A i \in 1..n : events'[i] = events[i]
  BY <1>1
<1>3. \A i : i \in 1..(n + 1) <=> i \in 1..n \/ i = n + 1
  BY <1>1
<1> HIDE DEF n
<1>4. Logged(q)' = {i \in 1..(n + 1) : events'[i][1] = q}
  BY <1>2 DEF Logged
<1>5. Logged(q) = {i \in 1..n : events[i][1] = q}
  BY DEF Logged, n
<1>6. Logged(q)' = IF p = q THEN Logged(q) \cup {n + 1} ELSE Logged(q)
  BY <1>2, <1>3, <1>4, <1>5
<1>7. \A i \in Logged(q) : events'[i] = events[i] /\ i <= n /\ i \in Nat
  BY <1>1, <1>2, <1>5
<1> QED BY <1>1, <1>2, <1>6, <1>7 DEF n

\* What happens to other requests leaves one alone.
LEMMA ReqFrame ==
    ASSUME MhsInv, NEW q \in Request,
           ask'[q] = ask[q], mhsSt'[q] = mhsSt[q], at'[q] = at[q], status'[q] = status[q],
           \/ events' = events
           \/ \E p \in Request, x \in 0..BodyMax : p # q /\ events' = Append(events, <<p, x>>)
    PROVE  ReqInv(q)'
<1>1. Logged(q)' = Logged(q) /\ \A i \in Logged(q) : events'[i] = events[i]
  <2>1. CASE events' = events
    BY <2>1 DEF Logged
  <2>2. ASSUME NEW p \in Request, NEW x \in 0..BodyMax, p # q, events' = Append(events, <<p, x>>)
        PROVE  Logged(q)' = Logged(q) /\ \A i \in Logged(q) : events'[i] = events[i]
    BY <2>2, LogGrows DEF MhsInv
  <2> QED BY <2>1, <2>2
<1>2. Increasing(q)' = Increasing(q) /\ LoggedLines(q)' = LoggedLines(q)
  BY <1>1 DEF Increasing, LoggedLines
<1>3. ReqInv(q)
  BY DEF MhsInv
<1>4. Before(q)' = Before(q)
  BY <1>1 DEF Before
<1>5. Among(q) => Among(q)'
  BY <1>1, <1>2 DEF Among
<1>6. After(q)' = After(q)
  BY <1>1, <1>2 DEF After
<1> QED BY <1>2, <1>3, <1>4, <1>5, <1>6 DEF ReqInv

\* A step of request p, of which the log has the entry x or none.
Touches(p) ==
    /\ \A q \in Request : q # p => /\ ask'[q] = ask[q] /\ mhsSt'[q] = mhsSt[q]
                                   /\ at'[q] = at[q] /\ status'[q] = status[q]
    /\ events' = events \/ \E x \in 0..BodyMax : events' = Append(events, <<p, x>>)

\* The invariant is one of each request and one of the log.
LEMMA ReqStep ==
    ASSUME MhsInv, NEW p \in Request, Touches(p), MhsTypeOK', ReqInv(p)'
    PROVE  MhsInv'
<1>1. ASSUME NEW q \in Request, q # p PROVE ReqInv(q)'
  BY <1>1, ReqFrame DEF Touches
<1> QED BY <1>1 DEF MhsInv

\* Before the first request.
LEMMA MhsFirst == MhsInit => MhsInv
<1> SUFFICES ASSUME MhsInit PROVE MhsInv
  OBVIOUS
<1>1. MhsTypeOK
  BY EmptyBody, MhsAssumption DEF MhsInit, MhsTypeOK, NoAsk, Paths
<1>2. ASSUME NEW q \in Request PROVE ReqInv(q)
  BY DEF MhsInit, NoAsk, ReqInv, Increasing, Before, Logged
<1> QED BY <1>1, <1>2 DEF MhsInv

\* What the types say of one request.
LEMMA ReqTypes ==
    ASSUME MhsTypeOK, NEW q \in Request
    PROVE  /\ ask[q] \in [path : Paths, method : {"GET", "POST"}, token : BOOLEAN, body : Bodies]
           /\ ask[q].path \in Paths /\ ask[q].body \in Bodies
           /\ mhsSt[q] \in {"idle", "auth", "handle", "body", "lines", "answered"}
           /\ at[q] \in 1..BodyMax + 1 /\ at[q] \in Nat /\ BodyMax \in Nat
           /\ Len(ask[q].body) \in Nat /\ Len(ask[q].body) <= BodyMax
<1>1. ask[q] \in [path : Paths, method : {"GET", "POST"}, token : BOOLEAN, body : Bodies]
  BY DEF MhsTypeOK
<1>2. ask[q].body \in Bodies
  BY <1>1
<1> QED BY <1>1, <1>2, BodyFacts, MhsAssumption DEF MhsTypeOK

Codes == {200, 400, 403, 404, 405, 500}

\* A request that arrives, is let through, refused or answered, and logs
\* nothing: what is left of the types.
Ask == [path : Paths, method : {"GET", "POST"}, token : BOOLEAN, body : Bodies]
Quiet(q, st, a) ==
    /\ Turns(q, st) /\ UNCHANGED <<at, events>>
    /\ ask' = [ask EXCEPT ![q] = a]
    /\ status' = status \/ \E c \in Codes : status' = [status EXCEPT ![q] = c]

\* A step that logs nothing keeps the types.
LEMMA QuietTypes ==
    ASSUME MhsTypeOK, NEW q \in Request, NEW st \in {"auth", "handle", "body", "lines", "answered"},
           NEW a \in Ask, Quiet(q, st, a)
    PROVE  /\ MhsTypeOK' /\ Touches(q) /\ mhsSt'[q] = st /\ ask'[q] = a
           /\ Logged(q)' = Logged(q) /\ LoggedLines(q)' = LoggedLines(q)
           /\ Increasing(q)' = Increasing(q)
<1>1. /\ mhsSt' = [mhsSt EXCEPT ![q] = st]
      /\ DOMAIN mhsSt = Request /\ DOMAIN status = Request /\ DOMAIN ask = Request
      /\ UNCHANGED <<at, events>> /\ ask' = [ask EXCEPT ![q] = a]
      /\ status' = status \/ \E c \in Codes : status' = [status EXCEPT ![q] = c]
  BY DEF Quiet, Turns, MhsTypeOK
<1>2. mhsSt' \in [Request -> {"idle", "auth", "handle", "body", "lines", "answered"}]
  BY <1>1 DEF MhsTypeOK
<1>3. status' \in [Request -> {0, 200, 400, 403, 404, 405, 500}]
  <2>1. status \in [Request -> {0, 200, 400, 403, 404, 405, 500}]
    BY DEF MhsTypeOK
  <2>2. \A c \in Codes :
           [status EXCEPT ![q] = c] \in [Request -> {0, 200, 400, 403, 404, 405, 500}]
    BY <2>1 DEF Codes
  <2> QED BY <1>1, <2>1, <2>2
<1>4. ask' \in [Request -> [path : Paths, method : {"GET", "POST"}, token : BOOLEAN, body : Bodies]]
  BY <1>1 DEF MhsTypeOK, Ask
<1>5. MhsTypeOK'
  BY <1>1, <1>2, <1>3, <1>4 DEF MhsTypeOK
<1>6. Touches(q) /\ mhsSt'[q] = st /\ ask'[q] = a
  BY <1>1 DEF Touches
<1>7. Logged(q)' = Logged(q) /\ LoggedLines(q)' = LoggedLines(q) /\ Increasing(q)' = Increasing(q)
  BY <1>1 DEF Logged, LoggedLines, Increasing
<1> QED BY <1>5, <1>6, <1>7

\* A request arrives.
LEMMA MhsArrive == ASSUME MhsInv, NEW q \in Request, Arrive(q) PROVE MhsInv'
<1>1. PICK p \in Paths, m \in {"GET", "POST"}, t \in BOOLEAN :
         ask' = [ask EXCEPT ![q] = [path |-> p, method |-> m, token |-> t, body |-> <<>>]]
  BY DEF Arrive
<1> DEFINE a == [path |-> p, method |-> m, token |-> t, body |-> <<>>]
<1>2. a \in Ask /\ a.body = <<>>
  BY EmptyBody DEF Ask
<1>3. mhsSt[q] = "idle" /\ UNCHANGED <<at, status, events>> /\ Quiet(q, "auth", a)
  BY <1>1 DEF Arrive, In, Quiet
<1> HIDE DEF a
<1>4. /\ MhsTypeOK' /\ Touches(q) /\ mhsSt'[q] = "auth" /\ ask'[q] = a
      /\ Logged(q)' = Logged(q) /\ Increasing(q)' = Increasing(q)
  BY <1>2, <1>3, QuietTypes DEF MhsInv
<1>5. Before(q) /\ Increasing(q)
  BY <1>3 DEF MhsInv, ReqInv
<1>6. ReqInv(q)'
  BY <1>2, <1>3, <1>4, <1>5 DEF ReqInv, Before
<1> QED BY <1>4, <1>6, ReqStep

\* An answer while nothing is logged, which is 200 of health alone.
Refusal(q, c) ==
    /\ mhsSt[q] \in {"auth", "handle", "body"} /\ Respond(q, c) /\ UNCHANGED <<ask, at, events>>
    /\ c # 400 /\ (c = 200 => ask[q].path = "health")

\* A request that is answered with nothing of it in the log.
LEMMA RefusedFrom ==
    ASSUME MhsInv, NEW q \in Request, NEW c \in Codes, Refusal(q, c)
    PROVE  MhsInv'
<1>1. /\ mhsSt[q] \in {"auth", "handle", "body"} /\ UNCHANGED <<ask, at, events>>
      /\ Turns(q, "answered") /\ status' = [status EXCEPT ![q] = c]
      /\ c # 400 /\ (c = 200 => ask[q].path = "health")
  BY DEF Refusal, Respond
<1>2. Before(q) /\ Increasing(q)
  BY <1>1 DEF MhsInv, ReqInv
<1>3. ask' = [ask EXCEPT ![q] = ask[q]] /\ status'[q] = c /\ ask[q] \in Ask
  BY <1>1, ReqTypes DEF MhsInv, MhsTypeOK, Ask
<1>4. Quiet(q, "answered", ask[q])
  BY <1>1, <1>3 DEF Quiet
<1>5. /\ MhsTypeOK' /\ Touches(q) /\ mhsSt'[q] = "answered" /\ ask'[q] = ask[q]
      /\ Logged(q)' = Logged(q) /\ Increasing(q)' = Increasing(q)
  BY <1>3, <1>4, QuietTypes DEF MhsInv
<1>6. After(q)'
  BY <1>1, <1>2, <1>3, <1>5 DEF Before, After, Codes
<1>7. ReqInv(q)'
  BY <1>2, <1>5, <1>6 DEF ReqInv
<1> QED BY <1>5, <1>7, ReqStep

\* The token is looked at.
LEMMA MhsAuth == ASSUME MhsInv, NEW q \in Request, tokenAuth(q) PROVE MhsInv'
<1>1. mhsSt[q] = "auth" /\ UNCHANGED <<ask, at, events>>
  BY DEF tokenAuth, In
<1>2. CASE Respond(q, 403)
  <2>1. Refusal(q, 403) /\ 403 \in Codes
    BY <1>1, <1>2 DEF Refusal, Codes
  <2> QED BY <2>1, RefusedFrom
<1>3. CASE Turns(q, "handle") /\ UNCHANGED status
  <2>1. Before(q) /\ Increasing(q)
    BY <1>1 DEF MhsInv, ReqInv
  <2>2. ask' = [ask EXCEPT ![q] = ask[q]] /\ ask[q] \in Ask
    BY <1>1, ReqTypes DEF MhsInv, MhsTypeOK, Ask
  <2>3. Quiet(q, "handle", ask[q])
    BY <1>1, <1>3, <2>2 DEF Quiet
  <2>4. /\ MhsTypeOK' /\ Touches(q) /\ mhsSt'[q] = "handle" /\ ask'[q] = ask[q]
        /\ Logged(q)' = Logged(q) /\ Increasing(q)' = Increasing(q)
    BY <2>2, <2>3, QuietTypes DEF MhsInv
  <2>5. ReqInv(q)'
    BY <1>1, <1>3, <2>1, <2>4 DEF ReqInv, Before
  <2> QED BY <2>4, <2>5, ReqStep
<1> QED BY <1>2, <1>3 DEF tokenAuth

\* A request whose body is not read.
LEMMA MhsNoBody == ASSUME MhsInv, NEW q \in Request, NoBody(q) PROVE MhsInv'
<1>1. mhsSt[q] = "handle" /\ UNCHANGED <<ask, at, events>>
  BY DEF NoBody, In, Routed
<1>2. PICK c \in {200, 404, 405} : Respond(q, c) /\ (c = 200 => ask[q].path = "health")
  BY DEF NoBody, Routed
<1>3. c \in Codes /\ Refusal(q, c)
  BY <1>1, <1>2 DEF Refusal, Codes
<1> QED BY <1>3, RefusedFrom

\* The handler turns to the body.
LEMMA MhsReadBody == ASSUME MhsInv, NEW q \in Request, ReadBody(q) PROVE MhsInv'
<1>1. /\ mhsSt[q] = "handle" /\ Turns(q, "body") /\ UNCHANGED <<ask, at, status, events>>
      /\ ask[q].path \notin {"health", "other"}
  BY DEF ReadBody, Posted, Routed, In
<1>2. Before(q) /\ Increasing(q)
  BY <1>1 DEF MhsInv, ReqInv
<1>3. ask' = [ask EXCEPT ![q] = ask[q]] /\ ask[q] \in Ask
  BY <1>1, ReqTypes DEF MhsInv, MhsTypeOK, Ask
<1>4. Quiet(q, "body", ask[q])
  BY <1>1, <1>3 DEF Quiet
<1>5. /\ MhsTypeOK' /\ Touches(q) /\ mhsSt'[q] = "body" /\ ask'[q] = ask[q]
      /\ Logged(q)' = Logged(q) /\ Increasing(q)' = Increasing(q)
  BY <1>3, <1>4, QuietTypes DEF MhsInv
<1>6. ReqInv(q)'
  BY <1>1, <1>2, <1>5 DEF ReqInv, Before
<1> QED BY <1>5, <1>6, ReqStep

\* The body does not come.
LEMMA MhsBodyFails == ASSUME MhsInv, NEW q \in Request, BodyFails(q) PROVE MhsInv'
<1>1. Refusal(q, 500) /\ 500 \in Codes
  BY DEF BodyFails, In, Refusal, Codes
<1> QED BY <1>1, RefusedFrom

\* A body read from which nothing is logged yet.
Takes(q, st, b) ==
    /\ mhsSt[q] = "body" /\ ask[q].path \in {"event", "validate", "bulk"} /\ b \in Bodies
    /\ ask' = [ask EXCEPT ![q].body = b] /\ UNCHANGED <<at, events>>
    /\ \/ st = "lines" /\ Turns(q, st) /\ UNCHANGED status /\ (ask[q].path # "event" => NoBad(b, Len(b)))
       \/ st = "answered" /\ Respond(q, 400) /\ ask[q].path # "event"

\* A body is taken, to be logged whole or by its lines.
LEMMA MhsTakes ==
    ASSUME MhsInv, NEW q \in Request, NEW st, NEW b, Takes(q, st, b)
    PROVE  MhsInv'
<1> DEFINE a == [ask[q] EXCEPT !.body = b]
<1>1. /\ mhsSt[q] = "body" /\ ask[q].path \in {"event", "validate", "bulk"} /\ b \in Bodies
      /\ ask' = [ask EXCEPT ![q].body = b] /\ UNCHANGED <<at, events>>
      /\ \/ st = "lines" /\ Turns(q, st) /\ UNCHANGED status /\ (ask[q].path # "event" => NoBad(b, Len(b)))
         \/ st = "answered" /\ Respond(q, 400) /\ ask[q].path # "event"
  BY DEF Takes
<1>2. ask[q] \in Ask
  BY ReqTypes DEF MhsInv, Ask
<1>3. a \in Ask /\ a.body = b /\ a.path = ask[q].path
  BY <1>1, <1>2 DEF Ask
<1>4. ask' = [ask EXCEPT ![q] = a]
  BY <1>1
<1> HIDE DEF a
<1>5. st \in {"lines", "answered"} /\ Quiet(q, st, a)
  <2>1. /\ st \in {"lines", "answered"} /\ Turns(q, st)
        /\ status' = status \/ status' = [status EXCEPT ![q] = 400]
    BY <1>1 DEF Respond
  <2>2. status' = status \/ \E c \in Codes : status' = [status EXCEPT ![q] = c]
    BY <2>1 DEF Codes
  <2> QED BY <1>1, <1>4, <2>1, <2>2 DEF Quiet
<1>6. /\ MhsTypeOK' /\ Touches(q) /\ mhsSt'[q] = st /\ ask'[q] = a
      /\ Logged(q)' = Logged(q) /\ LoggedLines(q)' = LoggedLines(q)
      /\ Increasing(q)' = Increasing(q)
  BY <1>3, <1>5, QuietTypes DEF MhsInv
<1>7. Before(q) /\ Increasing(q)
  BY <1>1 DEF MhsInv, ReqInv
<1>8. LoggedLines(q) = {} /\ EventsOf(b, 0) = {} /\ NoBad(b, 0)
  BY <1>7 DEF Before, LoggedLines, EventsOf, NoBad
<1>9. Len(b) \in Nat
  BY <1>1, BodyFacts
<1>10. CASE st = "lines"
  <2>1. status'[q] = 0 /\ at'[q] = 1 /\ (ask[q].path # "event" => NoBad(b, Len(b)))
    BY <1>1, <1>7, <1>10 DEF Before
  <2>2. Logged(q)' = {}
    BY <1>6, <1>7 DEF Before
  <2>3. Among(q)'
    BY <1>1, <1>3, <1>6, <1>8, <1>9, <2>1, <2>2 DEF Among
  <2>4. ReqInv(q)'
    BY <1>6, <1>7, <1>10, <2>3 DEF ReqInv
  <2> QED BY <1>6, <2>4, ReqStep
<1>11. CASE st = "answered"
  <2>1. status'[q] = 400 /\ ask[q].path # "event"
    BY <1>1, <1>11 DEF Respond, MhsInv, MhsTypeOK
  <2>2. After(q)'
    BY <1>1, <1>3, <1>6, <1>7, <2>1 DEF After, Before
  <2>3. ReqInv(q)'
    BY <1>6, <1>7, <1>11, <2>2 DEF ReqInv
  <2> QED BY <1>6, <2>3, ReqStep
<1> QED BY <1>5, <1>10, <1>11

\* An entry at the end of the log, and the types.
LEMMA LogTypes ==
    ASSUME MhsTypeOK, NEW p \in Request, NEW x \in 0..BodyMax, events' = Append(events, <<p, x>>)
    PROVE  events' \in Seq(Request \X (0..BodyMax))
<1>1. events \in Seq(Request \X (0..BodyMax)) /\ <<p, x>> \in Request \X (0..BodyMax)
  BY DEF MhsTypeOK
<1> QED BY <1>1

\* A raw body, logged whole.
LEMMA MhsRaw ==
    ASSUME MhsInv, NEW q \in Request, NEW b \in Bodies, mhsSt[q] = "body", ask[q].path = "raw",
           ask' = [ask EXCEPT ![q].body = b], Respond(q, 200), UNCHANGED at,
           events' = Append(events, <<q, 0>>)
    PROVE  MhsInv'
<1>1. MhsTypeOK /\ Before(q) /\ 0 \in 0..BodyMax
  BY MhsAssumption DEF MhsInv, ReqInv
<1>2. events' \in Seq(Request \X (0..BodyMax))
  BY <1>1, LogTypes
<1>3. mhsSt' = [mhsSt EXCEPT ![q] = "answered"] /\ status' = [status EXCEPT ![q] = 200]
  BY DEF Respond, Turns
<1>4. MhsTypeOK'
  <2>1. \A r \in Request : ask[r] \in Ask
    BY <1>1 DEF MhsTypeOK, Ask
  <2>2. [ask[q] EXCEPT !.body = b] \in Ask
    BY <2>1 DEF Ask
  <2>3. ask' = [ask EXCEPT ![q] = [ask[q] EXCEPT !.body = b]] /\ ask \in [Request -> Ask]
    BY <1>1 DEF MhsTypeOK, Ask
  <2>4. ask' \in [Request -> Ask]
    BY <2>2, <2>3
  <2>5. ask' \in [Request -> [path : Paths, method : {"GET", "POST"}, token : BOOLEAN, body : Bodies]]
    BY <2>4 DEF Ask
  <2> QED BY <1>1, <1>2, <1>3, <2>5 DEF MhsTypeOK
<1>5. Touches(q)
  BY <1>1, <1>3 DEF Touches, MhsTypeOK
<1>6. /\ mhsSt'[q] = "answered" /\ status'[q] = 200 /\ ask'[q].path = "raw"
  BY <1>1, <1>3 DEF MhsTypeOK
<1>7. Logged(q)' = Logged(q) \cup {Len(events) + 1} /\ Logged(q) = {}
  BY <1>1, LogGrows DEF Before
<1>8. \E i \in Logged(q)' : Logged(q)' = {i}
  BY <1>7
<1>9. After(q)'
  BY <1>6, <1>8 DEF After
<1>10. \A i, j \in Logged(q)' : i = j
  BY <1>7
<1>11. Increasing(q)'
  <2>1. \A i \in Nat : ~(i < i)
    OBVIOUS
  <2>2. Len(events) + 1 \in Nat
    BY <1>1 DEF MhsTypeOK
  <2> QED BY <1>7, <2>1, <2>2 DEF Increasing
<1>12. ReqInv(q)'
  BY <1>6, <1>9, <1>11 DEF ReqInv
<1> QED BY <1>4, <1>5, <1>12, ReqStep

\* A request's body is read.
LEMMA MhsBody == ASSUME MhsInv, NEW q \in Request, Body(q) PROVE MhsInv'
<1>1. PICK b \in Bodies :
         /\ ask' = [ask EXCEPT ![q].body = b]
         /\ IF ask[q].path = "raw"
            THEN Respond(q, 200) /\ events' = Append(events, <<q, 0>>)
            ELSE /\ IF Parses(ask[q].path, b) THEN Turns(q, "lines") /\ UNCHANGED status
                    ELSE Respond(q, 400)
                 /\ UNCHANGED events
  BY DEF Body
<1>2. /\ mhsSt[q] = "body" /\ UNCHANGED at
      /\ ask[q].path # "health" /\ ask[q].path # "other"
  BY DEF Body, In, MhsInv, ReqInv
<1>3. ask[q].path \in Paths
  BY ReqTypes DEF MhsInv
<1>4. CASE ask[q].path = "raw"
  BY <1>1, <1>2, <1>4, MhsRaw
<1>5. CASE ask[q].path # "raw"
  <2>1. ask[q].path \in {"event", "validate", "bulk"}
    BY <1>2, <1>3, <1>5 DEF Paths
  <2>2. CASE Parses(ask[q].path, b)
    <3>1. ask[q].path # "event" => "bad" \notin Range(b)
      BY <2>1, <2>2 DEF Parses
    <3>2. "bad" \notin Range(b) => NoBad(b, Len(b))
      <4>1. PICK n \in 0..BodyMax : b \in [1..n -> LineKinds]
        BY DEF Bodies
      <4>2. DOMAIN b = 1..n /\ Len(b) = n
        BY <4>1, MhsAssumption
      <4> QED BY <4>2 DEF Range, NoBad
    <3>3. Takes(q, "lines", b)
      BY <1>1, <1>2, <1>5, <2>1, <2>2, <3>1, <3>2 DEF Takes
    <3> QED BY <3>3, MhsTakes
  <2>3. CASE ~Parses(ask[q].path, b)
    <3>1. ask[q].path # "event"
      BY <2>3 DEF Parses
    <3>2. Takes(q, "answered", b)
      BY <1>1, <1>2, <1>5, <2>1, <2>3, <3>1 DEF Takes
    <3> QED BY <3>2, MhsTakes
  <2> QED BY <2>2, <2>3
<1> QED BY <1>4, <1>5

\* One line more of a body.
LEMMA LineMore ==
    ASSUME NEW b, NEW n \in Nat, n > 0
    PROVE  /\ EventsOf(b, n) = EventsOf(b, n - 1) \cup (IF b[n] = "event" THEN {n} ELSE {})
           /\ NoBad(b, n) <=> NoBad(b, n - 1) /\ b[n] # "bad"
<1>1. \A i : i \in 1..n <=> i \in 1..(n - 1) \/ i = n
  OBVIOUS
<1> QED BY <1>1 DEF EventsOf, NoBad

\* The loop at a line that is no error.
LEMMA MhsGoesOn ==
    ASSUME MhsInv, NEW q \in Request, mhsSt[q] = "lines", at[q] <= Len(ask[q].body),
           at' = [at EXCEPT ![q] = @ + 1], UNCHANGED <<ask, mhsSt, status>>,
           \/ AtLine(q) = "blank" /\ UNCHANGED events
           \/ AtLine(q) = "event" /\ events' = Append(events, <<q, at[q]>>)
    PROVE  MhsInv'
<1> DEFINE n == at[q]
           b == ask[q].body
<1>1. /\ MhsTypeOK /\ Among(q) /\ Increasing(q)
      /\ n \in Nat /\ n > 0 /\ n \in 0..BodyMax /\ n + 1 \in 1..BodyMax + 1 /\ Len(b) \in Nat
  BY ReqTypes DEF MhsInv, ReqInv
<1>2. at'[q] = n + 1 /\ at' \in [Request -> 1..BodyMax + 1]
  BY <1>1 DEF MhsTypeOK
<1>3. events' \in Seq(Request \X (0..BodyMax))
  BY <1>1, LogTypes DEF MhsTypeOK
<1>4. MhsTypeOK'
  BY <1>1, <1>2, <1>3 DEF MhsTypeOK
<1>5. Touches(q)
  <2>1. \A r \in Request : r # q => at'[r] = at[r]
    BY <1>1 DEF MhsTypeOK
  <2>2. events' = events \/ \E x \in 0..BodyMax : events' = Append(events, <<q, x>>)
    BY <1>1
  <2> QED BY <2>1, <2>2 DEF Touches
<1>6. /\ EventsOf(b, n) = EventsOf(b, n - 1) \cup (IF b[n] = "event" THEN {n} ELSE {})
      /\ NoBad(b, n) <=> NoBad(b, n - 1) /\ b[n] # "bad"
  BY <1>1, LineMore
<1>7. AtLine(q) = b[n]
  BY DEF AtLine
<1> HIDE DEF n, b
<1>8. /\ status[q] = 0 /\ ask[q].path \in {"event", "validate", "bulk"}
      /\ NoBad(b, n - 1) /\ (ask[q].path # "event" => NoBad(b, Len(b)))
      /\ LoggedLines(q) = EventsOf(b, n - 1)
      /\ \A i \in Logged(q) : events[i][2] < n
  BY <1>1 DEF Among, n, b
<1>9. \A m \in Nat : m < n => m < n + 1
  BY <1>1
<1>10. \A i \in Logged(q) : events[i][2] \in Nat /\ i \in 1..Len(events)
  BY <1>1 DEF MhsTypeOK, Logged
<1>11. /\ LoggedLines(q)' = EventsOf(b, n) /\ Increasing(q)'
       /\ \A i \in Logged(q)' : events'[i][2] < n + 1
  <2>1. CASE AtLine(q) = "blank" /\ UNCHANGED events
    <3>1. Logged(q)' = Logged(q) /\ LoggedLines(q)' = LoggedLines(q) /\ Increasing(q)' = Increasing(q)
      BY <2>1 DEF Logged, LoggedLines, Increasing
    <3>2. EventsOf(b, n) = EventsOf(b, n - 1)
      BY <1>6, <1>7, <2>1
    <3> QED BY <1>1, <1>8, <1>9, <1>10, <2>1, <3>1, <3>2
  <2>2. CASE AtLine(q) = "event" /\ events' = Append(events, <<q, at[q]>>)
    <3> DEFINE k == Len(events) + 1
    <3>1. /\ Logged(q)' = Logged(q) \cup {k}
          /\ \A i \in Logged(q) : events'[i] = events[i] /\ i <= Len(events) /\ i \in Nat
          /\ events'[k] = <<q, n>> /\ Len(events) \in Nat
      BY <1>1, <2>2, LogGrows DEF n
    <3>2. \A i \in Logged(q) : i < k /\ ~(k < i)
      BY <3>1
    <3>3. ~(k < k) /\ events'[k][2] = n
      BY <3>1
    <3> HIDE DEF k
    <3>4. LoggedLines(q)' = LoggedLines(q) \cup {n}
      BY <3>1, <3>3 DEF LoggedLines
    <3>5. LoggedLines(q)' = EventsOf(b, n)
      BY <1>6, <1>7, <1>8, <2>2, <3>4
    <3>6. \A i \in Logged(q) : events'[i][2] < n
      BY <1>8, <3>1
    <3>7. ASSUME NEW i \in Logged(q)', NEW j \in Logged(q)', i < j
          PROVE  events'[i][2] < events'[j][2]
      <4>1. i \in Logged(q)
        BY <3>1, <3>2, <3>3, <3>7
      <4>2. CASE j = k
        BY <3>3, <3>6, <4>1, <4>2
      <4>3. CASE j \in Logged(q)
        BY <1>1, <3>1, <3>7, <4>1, <4>3 DEF Increasing
      <4> QED BY <3>1, <4>2, <4>3
    <3>8. \A i \in Logged(q)' : events'[i][2] < n + 1
      <4>1. n < n + 1
        BY <1>1
      <4>2. \A i \in Logged(q) : events'[i][2] < n + 1
        BY <1>9, <1>10, <3>1, <3>6
      <4> QED BY <3>1, <3>3, <4>1, <4>2
    <3> QED BY <3>5, <3>7, <3>8 DEF Increasing
  <2> QED BY <2>1, <2>2
<1>12. NoBad(b, n) /\ n + 1 <= Len(b) + 1 /\ n + 1 - 1 = n
  BY <1>1, <1>6, <1>7, <1>8 DEF n, b
<1>13. ask'[q] = ask[q] /\ mhsSt'[q] = "lines" /\ status'[q] = 0 /\ ask'[q].body = b
  BY <1>8 DEF b
<1>14. Among(q)'
  <2>1. at'[q] - 1 = n /\ at'[q] <= Len(b) + 1
    BY <1>1, <1>2, <1>12
  <2>2. \A i \in Logged(q)' : events'[i][2] < at'[q]
    BY <1>2, <1>11
  <2> QED BY <1>8, <1>11, <1>12, <1>13, <2>1, <2>2 DEF Among
<1>15. ReqInv(q)'
  BY <1>11, <1>13, <1>14 DEF ReqInv
<1> QED BY <1>4, <1>5, <1>15, ReqStep

\* The end of the loop: a bad line, or none left.
LEMMA MhsEnds ==
    ASSUME MhsInv, NEW q \in Request, mhsSt[q] = "lines", UNCHANGED <<ask, events>>,
           \/ /\ at[q] <= Len(ask[q].body) /\ AtLine(q) = "bad" /\ Respond(q, 400)
              /\ at' = [at EXCEPT ![q] = @ + 1]
           \/ at[q] > Len(ask[q].body) /\ Respond(q, 200) /\ UNCHANGED at
    PROVE  MhsInv'
<1> DEFINE n == at[q]
           b == ask[q].body
<1>1. /\ MhsTypeOK /\ Among(q) /\ Increasing(q)
      /\ n \in Nat /\ n > 0 /\ n <= BodyMax + 1 /\ Len(b) \in Nat /\ Len(b) <= BodyMax /\ BodyMax \in Nat
  BY ReqTypes DEF MhsInv, ReqInv
<1>2. /\ ask[q].path \in {"event", "validate", "bulk"} /\ n <= Len(b) + 1
      /\ NoBad(b, n - 1) /\ (ask[q].path # "event" => NoBad(b, Len(b)))
      /\ LoggedLines(q) = EventsOf(b, n - 1)
  BY <1>1 DEF Among
<1>3. PICK c \in {200, 400} : mhsSt' = [mhsSt EXCEPT ![q] = "answered"] /\ status' = [status EXCEPT ![q] = c]
  BY DEF Respond, Turns
<1>4. at' \in [Request -> 1..BodyMax + 1] /\ \A r \in Request : r # q => at'[r] = at[r]
  <2>1. at \in [Request -> 1..BodyMax + 1]
    BY <1>1 DEF MhsTypeOK
  <2>2. n <= Len(b) => n + 1 \in 1..BodyMax + 1
    <3> HIDE DEF n, b
    <3> QED BY <1>1
  <2>3. at' = at \/ (n <= Len(b) /\ at' = [at EXCEPT ![q] = n + 1])
    OBVIOUS
  <2> HIDE DEF n, b
  <2> QED BY <2>1, <2>2, <2>3
<1>5. MhsTypeOK'
  <2>1. mhsSt' \in [Request -> {"idle", "auth", "handle", "body", "lines", "answered"}]
    BY <1>1, <1>3 DEF MhsTypeOK
  <2>2. status' \in [Request -> {0, 200, 400, 403, 404, 405, 500}]
    <3>1. status \in [Request -> {0, 200, 400, 403, 404, 405, 500}]
      BY <1>1 DEF MhsTypeOK
    <3>2. c \in {0, 200, 400, 403, 404, 405, 500}
      OBVIOUS
    <3> QED BY <1>3, <3>1, <3>2
  <2> QED BY <1>1, <1>4, <2>1, <2>2 DEF MhsTypeOK
<1>6. Touches(q)
  BY <1>1, <1>3, <1>4 DEF Touches, MhsTypeOK
<1>7. mhsSt'[q] = "answered" /\ ask'[q] = ask[q]
  BY <1>1, <1>3 DEF MhsTypeOK
<1>8. Logged(q)' = Logged(q) /\ LoggedLines(q)' = LoggedLines(q) /\ Increasing(q)' = Increasing(q)
  BY DEF Logged, LoggedLines, Increasing
<1>9. ASSUME n <= Len(b), AtLine(q) = "bad", Respond(q, 400)
      PROVE  ReqInv(q)'
  <2>1. status'[q] = 400 /\ b[n] = "bad" /\ n \in 1..Len(b)
    BY <1>1, <1>9 DEF Respond, MhsTypeOK, AtLine
  <2>2. ask[q].path = "event"
    BY <1>2, <2>1 DEF NoBad
  <2> HIDE DEF n, b
  <2>3. ask'[q].body = b
    BY <1>7 DEF b
  <2>4. After(q)'
    BY <1>2, <1>7, <1>8, <2>1, <2>2, <2>3 DEF After
  <2> QED BY <1>1, <1>7, <1>8, <2>4 DEF ReqInv
<1>10. ASSUME n > Len(b), Respond(q, 200)
       PROVE  ReqInv(q)'
  <2>1. status'[q] = 200 /\ n - 1 = Len(b)
    BY <1>1, <1>2, <1>10 DEF Respond, MhsTypeOK
  <2> HIDE DEF n, b
  <2>2. ask'[q].body = b
    BY <1>7 DEF b
  <2>3. After(q)'
    BY <1>2, <1>7, <1>8, <2>1, <2>2 DEF After
  <2> QED BY <1>1, <1>7, <1>8, <2>3 DEF ReqInv
<1>11. ReqInv(q)'
  BY <1>9, <1>10
<1> QED BY <1>5, <1>6, <1>11, ReqStep

\* A line of a body of events.
LEMMA MhsLine == ASSUME MhsInv, NEW q \in Request, HandleLine(q) PROVE MhsInv'
<1>1. mhsSt[q] = "lines" /\ at[q] <= Len(ask[q].body) /\ at' = [at EXCEPT ![q] = @ + 1] /\ UNCHANGED ask
  BY DEF HandleLine, In
<1>2. CASE AtLine(q) = "bad" /\ BadLine(q) /\ UNCHANGED events
  BY <1>1, <1>2, MhsEnds DEF BadLine
<1>3. CASE \/ AtLine(q) = "blank" /\ UNCHANGED <<mhsSt, status, events>>
           \/ AtLine(q) = "event" /\ events' = Append(events, <<q, at[q]>>) /\ UNCHANGED <<mhsSt, status>>
  BY <1>1, <1>3, MhsGoesOn
<1> QED BY <1>2, <1>3 DEF HandleLine

\* The last line is behind.
LEMMA MhsDone == ASSUME MhsInv, NEW q \in Request, LinesDone(q) PROVE MhsInv'
<1>1. mhsSt[q] = "lines" /\ at[q] > Len(ask[q].body) /\ Respond(q, 200) /\ UNCHANGED <<ask, at, events>>
  BY DEF LinesDone, In
<1> QED BY <1>1, MhsEnds

(* Every request is before its lines, among them or answered, and in each  *)
(* of these the log holds just the lines behind it (main.go:60-183).       *)
THEOREM MhsInvHolds == MhsSpec => []MhsInv
<1>1. MhsInv /\ [MhsNext]_mhsVars => MhsInv'
  <2> SUFFICES ASSUME MhsInv, [MhsNext]_mhsVars PROVE MhsInv'
    OBVIOUS
  <2>1. CASE MhsNext
    BY <2>1, MhsArrive, MhsAuth, MhsNoBody, MhsReadBody, MhsBodyFails, MhsBody, MhsLine, MhsDone
      DEF MhsNext, FromClient, InHandler
  <2>2. CASE UNCHANGED mhsVars
    <3>1. MhsTypeOK'
      BY <2>2 DEF mhsVars, MhsInv, MhsTypeOK
    <3>2. ASSUME NEW q \in Request PROVE ReqInv(q)'
      BY <2>2, ReqFrame DEF mhsVars
    <3> QED BY <3>1, <3>2 DEF MhsInv
  <2> QED BY <2>1, <2>2
<1> QED BY MhsFirst, <1>1, PTL DEF MhsSpec

\* The first bad line is the one bad line with none before it.
LEMMA FirstBadIs ==
    ASSUME NEW b \in Bodies, NEW m \in 1..Len(b), b[m] = "bad", NoBad(b, m - 1)
    PROVE  FirstBad(b) = m
<1> DEFINE Is(n) == /\ n <= Len(b) => b[n] = "bad"
                    /\ \A k \in 1..n - 1 : b[k] # "bad"
<1>1. Len(b) \in Nat /\ m \in 1..Len(b) + 1
  BY BodyFacts
<1>2. Is(m)
  BY DEF NoBad
<1>3. ASSUME NEW n \in 1..Len(b) + 1, Is(n) PROVE n = m
  <2>1. ~(n < m)
    BY <1>1, <1>3 DEF NoBad
  <2>2. ~(m < n)
    BY <1>1, <1>3
  <2> QED BY <1>1, <2>1, <2>2
<1>4. FirstBad(b) = CHOOSE n \in 1..Len(b) + 1 : Is(n)
  BY DEF FirstBad
<1> HIDE DEF Is
<1> QED BY <1>1, <1>2, <1>3, <1>4

(* An answer tells which of a request's events are in the log.             *)
THEOREM AnswerTellsLogHolds == MhsSpec => []AnswerTellsLog
<1>1. ASSUME MhsInv, NEW q \in Request, status[q] # 0
      PROVE  LET b == ask[q].body
                 upto == CASE status[q] = 200 -> Len(b)
                           [] status[q] = 400 /\ ask[q].path = "event" -> FirstBad(b) - 1
                           [] OTHER -> 0
             IN IF ask[q].path = "raw"
                THEN IF status[q] = 200 THEN \E i \in Logged(q) : Logged(q) = {i} ELSE Logged(q) = {}
                ELSE /\ {events[i][2] : i \in Logged(q)} = {n \in 1..upto : b[n] = "event"}
                     /\ \A i, j \in Logged(q) : i < j => events[i][2] < events[j][2]
                     /\ status[q] = 200 => \A n \in 1..Len(b) : b[n] # "bad"
  <2> DEFINE b == ask[q].body
             upto == CASE status[q] = 200 -> Len(b)
                       [] status[q] = 400 /\ ask[q].path = "event" -> FirstBad(b) - 1
                       [] OTHER -> 0
  <2>1. ReqInv(q) /\ mhsSt[q] \in {"idle", "auth", "handle", "body", "lines", "answered"}
        /\ b \in Bodies /\ Len(b) \in Nat
    BY <1>1, ReqTypes DEF MhsInv
  <2>2. After(q) /\ Increasing(q)
    BY <1>1, <2>1 DEF ReqInv, Before, Among
  <2>3. upto = IF status[q] = 200 THEN Len(b)
               ELSE IF status[q] = 400 /\ ask[q].path = "event" THEN FirstBad(b) - 1 ELSE 0
    OBVIOUS
  <2>4. Logged(q) = {} => LoggedLines(q) = {}
    BY DEF LoggedLines
  <2>5. EventsOf(b, 0) = {} /\ Len(<<>>) = 0 /\ NoBad(b, 0)
    BY DEF EventsOf, NoBad
  <2> HIDE DEF upto
  <2>6. ask[q].path # "raw" => LoggedLines(q) = EventsOf(b, upto) /\ (status[q] = 200 => NoBad(b, Len(b)))
    <3>1. CASE Logged(q) = {} /\ status[q] \in {400, 403, 404, 405, 500}
               /\ (status[q] = 400 => ask[q].path \notin {"event", "raw"})
      <4>1. upto = 0 /\ status[q] # 200
        BY <2>3, <3>1
      <4> QED BY <2>4, <2>5, <3>1, <4>1
    <3>2. CASE status[q] = 200 /\ Logged(q) = {} /\ ask[q].path = "health" /\ b = <<>>
      BY <2>3, <2>4, <2>5, <3>2
    <3>3. CASE status[q] = 200 /\ ask[q].path = "raw" /\ \E i \in Logged(q) : Logged(q) = {i}
      BY <3>3
    <3>4. CASE status[q] = 200 /\ ask[q].path # "raw" /\ LoggedLines(q) = EventsOf(b, Len(b)) /\ NoBad(b, Len(b))
      BY <2>3, <3>4
    <3>5. ASSUME status[q] = 400, ask[q].path = "event",
                 NEW m \in 1..Len(b), b[m] = "bad", NoBad(b, m - 1), LoggedLines(q) = EventsOf(b, m - 1)
          PROVE  LoggedLines(q) = EventsOf(b, upto) /\ status[q] # 200
      <4>1. FirstBad(b) = m
        BY <2>1, <3>5, FirstBadIs
      <4>2. upto = m - 1
        BY <2>3, <3>5, <4>1
      <4> QED BY <3>5, <4>2
    <3> QED BY <2>2, <3>1, <3>2, <3>3, <3>4, <3>5 DEF After
  <2>7. ask[q].path = "raw" => IF status[q] = 200 THEN \E i \in Logged(q) : Logged(q) = {i} ELSE Logged(q) = {}
    BY <2>2 DEF After
  <2> QED BY <2>2, <2>6, <2>7 DEF LoggedLines, EventsOf, NoBad, Increasing, upto
<1>2. MhsInv => AnswerTellsLog
  BY <1>1 DEF AnswerTellsLog
<1> QED BY MhsInvHolds, <1>2, PTL

-----------------------------------------------------------------------------
(* redlineparser's readers: rows from the lines of a file, however many.   *)
\* The last line of a set of lines is one of them and follows the others.
LEMMA LastLineIs ==
    ASSUME NEW S \in SUBSET Nat, NEW m \in S, \A k \in S : k <= m
    PROVE  LastLine(S) = m
<1>1. \A n \in S : (\A k \in S : k <= n) => n = m
  OBVIOUS
<1>2. (CHOOSE n \in S : \A k \in S : k <= n) = m
  BY <1>1
<1> QED BY <1>2 DEF LastLine

\* The last of some lines of a text is one of them; of none it is 0.
LEMMA LastLineOf ==
    ASSUME NEW n \in Nat, NEW S \in SUBSET (1..n)
    PROVE  /\ LastLine(S) \in S \cup {0}
           /\ S # {} => LastLine(S) \in S /\ \A k \in S : k <= LastLine(S)
<1>1. CASE S = {}
  BY <1>1 DEF LastLine
<1>2. CASE S # {}
  <2> DEFINE T == {n - k : k \in S}
  <2>1. T \in SUBSET Nat
    OBVIOUS
  <2>6. T # {}
    BY <1>2
  <2>2. PICK d \in T : \A k \in T : d <= k
    <3> HIDE DEF T
    <3> QED BY <2>1, <2>6, LeastOf
  <2>3. PICK m \in S : d = n - m
    BY <2>2
  <2>4. \A k \in S : k <= m
    <3>1. SUFFICES ASSUME NEW k \in S PROVE k <= m
      OBVIOUS
    <3>2. n - k \in T
      OBVIOUS
    <3>3. n - m <= n - k
      BY <2>2, <2>3, <3>2
    <3> QED BY <3>3
  <2>5. LastLine(S) = m
    <3>1. S \in SUBSET Nat
      OBVIOUS
    <3> QED BY <2>4, <3>1, LastLineIs
  <2> QED BY <2>4, <2>5
<1> QED BY <1>1, <1>2

\* What Append does.
LEMMA Appended ==
    ASSUME NEW S, NEW s \in Seq(S), NEW t \in S
    PROVE  /\ Append(s, t) \in Seq(S) /\ Len(Append(s, t)) = Len(s) + 1
           /\ Append(s, t)[Len(s) + 1] = t /\ \A n \in 1..Len(s) : Append(s, t)[n] = s[n]
OBVIOUS

\* The last of a sequence with one more is the one.
LEMMA LastAppended ==
    ASSUME NEW S, NEW s \in Seq(S), NEW t \in S
    PROVE  Append(s, t)[Len(Append(s, t))] = t
BY Appended

\* A line more leaves the blocks before it where they are.
LEMMA BlockStays ==
    ASSUME NEW U, NEW s \in Seq(U), NEW t \in U, NEW r, NEW e \in Nat, e <= Len(s) + 1
    PROVE  BlockOf(Append(s, t), r, e) = BlockOf(s, r, e)
<1>1. \A n \in 1..e - 1 : Append(s, t)[n] = s[n]
  OBVIOUS
<1>2. {n \in 1..e - 1 : Append(s, t)[n] = Closing(r)} = {n \in 1..e - 1 : s[n] = Closing(r)}
  BY <1>1
<1> QED BY <1>2 DEF BlockOf

\* A line that closes a block begins the next.
LEMMA BlockGrows ==
    ASSUME NEW U, NEW s \in Seq(U), NEW t \in U, NEW r
    PROVE  BlockOf(Append(s, t), r, Len(s) + 2)
               = IF t = Closing(r) THEN Len(s) + 1 ELSE BlockOf(s, r, Len(s) + 1)
<1> DEFINE S == {n \in 1..Len(s) + 1 : Append(s, t)[n] = Closing(r)}
<1>1. BlockOf(Append(s, t), r, Len(s) + 2) = LastLine(S)
  <2>1. 1..(Len(s) + 2) - 1 = 1..Len(s) + 1
    OBVIOUS
  <2> QED BY <2>1, Zenon DEF BlockOf
<1>2. CASE t = Closing(r)
  <2>1. Len(s) + 1 \in S /\ \A k \in S : k <= Len(s) + 1
    BY <1>2
  <2>2. S \in SUBSET Nat
    <3>1. 1..Len(s) + 1 \in SUBSET Nat
      OBVIOUS
    <3> QED BY <3>1
  <2>3. LastLine(S) = Len(s) + 1
    <3> HIDE DEF S
    <3> QED BY <2>1, <2>2, LastLineIs
  <2> QED BY <1>1, <1>2, <2>3
<1>3. CASE t # Closing(r)
  <2>1. \A n \in 1..Len(s) : Append(s, t)[n] = s[n]
    OBVIOUS
  <2>2. Append(s, t)[Len(s) + 1] = t
    BY Appended
  <2>3. S = {n \in 1..Len(s) : s[n] = Closing(r)}
    <3>1. \A n \in 1..Len(s) + 1 : n \in 1..Len(s) \/ n = Len(s) + 1
      OBVIOUS
    <3>2. 1..Len(s) \subseteq 1..Len(s) + 1
      OBVIOUS
    <3>3. Len(s) + 1 \notin 1..Len(s)
      OBVIOUS
    <3> QED BY <1>3, <2>1, <2>2, <3>1, <3>2, <3>3
  <2>4. 1..(Len(s) + 1) - 1 = 1..Len(s)
    OBVIOUS
  <2> QED BY <1>1, <1>3, <2>3, <2>4, Zenon DEF BlockOf
<1> QED BY <1>2, <1>3

\* A block begins within the lines before its end.
LEMMA BlockIn ==
    ASSUME NEW s, NEW r, NEW e \in Nat \ {0}
    PROVE  BlockOf(s, r, e) \in 0..e - 1
<1> DEFINE S == {n \in 1..e - 1 : s[n] = Closing(r)}
<1>1. LastLine(S) \in S \cup {0}
  BY LastLineOf, e - 1 \in Nat
<1> QED BY <1>1 DEF BlockOf

\* What a field has does not change with lines behind.
LEMMA LastStays ==
    ASSUME NEW U, NEW s \in Seq(U), NEW t \in U, NEW r, NEW f, NEW lo \in Nat,
           NEW hi \in Nat, hi <= Len(s) + 1
    PROVE  LastIn(Append(s, t), r, f, lo, hi) = LastIn(s, r, f, lo, hi)
<1> DEFINE Of(u) == {n \in lo + 1 .. hi - 1 : u[n] = f \/ (f = EmptyField(r) /\ u[n] = "none")}
           m == LastLine(Of(s))
<1>1. Of(Append(s, t)) = Of(s)
  OBVIOUS
<1>2. Of(s) \in SUBSET (1..Len(s))
  OBVIOUS
<1>3. m \in Of(s) \cup {0}
  <2>1. Len(s) \in Nat
    OBVIOUS
  <2> HIDE DEF Of
  <2> QED BY <1>2, <2>1, LastLineOf
<1>4. m # 0 => Append(s, t)[m] = s[m]
  BY <1>2, <1>3
<1> QED BY <1>1, <1>4 DEF LastIn

\* What it has with the line that is added.
LEMMA LastGrows ==
    ASSUME NEW U, NEW s \in Seq(U), NEW t \in U, NEW r, NEW f, NEW lo \in 0..Len(s)
    PROVE  LastIn(Append(s, t), r, f, lo, Len(s) + 2)
             = IF t = f THEN Len(s) + 1
               ELSE IF f = EmptyField(r) /\ t = "none" THEN 0 ELSE LastIn(s, r, f, lo, Len(s) + 1)
<1> DEFINE u == Append(s, t)
           Of(v, hi) == {n \in lo + 1 .. hi - 1 : v[n] = f \/ (f = EmptyField(r) /\ v[n] = "none")}
<1>1. u \in Seq(U) /\ Len(u) = Len(s) + 1 /\ u[Len(s) + 1] = t /\ \A n \in 1..Len(s) : u[n] = s[n]
  OBVIOUS
<1>2. LastIn(u, r, f, lo, Len(s) + 2)
        = LET m == LastLine(Of(u, Len(s) + 2)) IN IF m # 0 /\ u[m] = f THEN m ELSE 0
  BY DEF LastIn
<1>3. CASE t = f \/ (f = EmptyField(r) /\ t = "none")
  <2>1. Of(u, Len(s) + 2) \in SUBSET Nat /\ Len(s) + 1 \in Of(u, Len(s) + 2)
    BY <1>1, <1>3
  <2>2. \A k \in Of(u, Len(s) + 2) : k <= Len(s) + 1
    OBVIOUS
  <2>3. LastLine(Of(u, Len(s) + 2)) = Len(s) + 1
    <3> HIDE DEF Of
    <3> QED BY <2>1, <2>2, LastLineIs
  <2> QED BY <1>1, <1>2, <1>3, <2>3
<1>4. CASE t # f /\ ~(f = EmptyField(r) /\ t = "none")
  <2>1. Of(u, Len(s) + 2) = Of(u, Len(s) + 1)
    BY <1>1, <1>4
  <2>2. LastIn(u, r, f, lo, Len(s) + 2) = LastIn(u, r, f, lo, Len(s) + 1)
    BY <1>2, <2>1 DEF LastIn
  <2>3. LastIn(u, r, f, lo, Len(s) + 1) = LastIn(s, r, f, lo, Len(s) + 1)
    <3>1. lo \in Nat /\ Len(s) + 1 \in Nat /\ Len(s) + 1 <= Len(s) + 1
      OBVIOUS
    <3> QED BY <3>1, LastStays
  <2> QED BY <1>4, <2>2, <2>3
<1> QED BY <1>3, <1>4

\* Behind the last line there is nothing.
LEMMA LastNone ==
    ASSUME NEW s, NEW r, NEW f, NEW lo \in Nat
    PROVE  LastIn(s, r, f, lo, lo + 1) = 0
BY DEF LastIn, LastLine

\* A line says what it said with a line more.
LEMMA SaysStays ==
    ASSUME NEW U, NEW s \in Seq(U), NEW t \in U, NEW r, NEW n \in 1..Len(s)
    PROVE  Says(Append(s, t), r, n) <=> Says(s, r, n)
<1>1. Append(s, t)[n] = s[n] /\ (n > 1 => Append(s, t)[n - 1] = s[n - 1])
  OBVIOUS
<1> QED BY <1>1 DEF Says

\* Nor is there a row with a line more that was not there.
LEMMA RowStays ==
    ASSUME NEW U, NEW s \in Seq(U), NEW t \in U, NEW r, NEW e \in 1..Len(s) + 1
    PROVE  HasRow(Append(s, t), r, e) <=> HasRow(s, r, e)
<1>1. BlockOf(Append(s, t), r, e) = BlockOf(s, r, e)
  <2>1. e \in Nat /\ e <= Len(s) + 1
    OBVIOUS
  <2> QED BY <2>1, BlockStays
<1>2. BlockOf(s, r, e) \in 0..e - 1
  BY BlockIn
<1>3. LastIn(Append(s, t), r, "Name", BlockOf(s, r, e), e) = LastIn(s, r, "Name", BlockOf(s, r, e), e)
  BY <1>2, LastStays
<1>4. \A n \in BlockOf(s, r, e) + 1 .. e - 1 : Says(Append(s, t), r, n) <=> Says(s, r, n)
  <2>1. \A n \in BlockOf(s, r, e) + 1 .. e - 1 : n \in 1..Len(s)
    BY <1>2
  <2>2. \A n \in 1..Len(s) : Says(Append(s, t), r, n) <=> Says(s, r, n)
    BY SaysStays
  <2> QED BY <2>1, <2>2
<1> QED BY <1>1, <1>2, <1>3, <1>4 DEF HasRow

-----------------------------------------------------------------------------
\* Rows of a text s of reader r: the lines they end at, those that lines
\* make, and the fields.
Ends(made) == {made[n].end : n \in 1..Len(made)}
Rising(made) == \A n \in 1..Len(made) - 1 : made[n].end < made[n + 1].end
MadeBy(s, r) ==
    IF r \in {"installed_software", "cookies"} THEN {n \in 1..Len(s) : s[n] = "line"}
    ELSE {n \in 1..Len(s) : s[n] = Closing(r) /\ HasRow(s, r, n)}
Makes(s, r, t) ==
    IF r \in {"installed_software", "cookies"} THEN t = "line"
    ELSE t = Closing(r) /\ HasRow(s, r, Len(s) + 1)
RowFrom(s, r, made, f, n) ==
    IF r = "user_info" THEN 0
    ELSE IF f # "Value" THEN BlockOf(s, r, made[n].end)
    ELSE IF n = 1 THEN 0 ELSE made[n - 1].end
FieldsOf(s, r, made) == \A n \in 1..Len(made) : \A f \in Fields(r) :
    made[n].fields[f] = LastIn(s, r, f, RowFrom(s, r, made, f, n), made[n].end)
\* Where what a field has in the entry being collected may be from.
From(s, r, made, f) ==
    IF r = "user_info" THEN 0
    ELSE IF f # "Value" THEN BlockOf(s, r, Len(s) + 1)
    ELSE IF made = <<>> THEN 0 ELSE made[Len(made)].end

\* The line that is added makes a row or does not.
LEMMA MadeGrows ==
    ASSUME NEW U, NEW s \in Seq(U), NEW t \in U, NEW r
    PROVE  MadeBy(Append(s, t), r) = MadeBy(s, r) \cup (IF Makes(s, r, t) THEN {Len(s) + 1} ELSE {})
<1> DEFINE u == Append(s, t)
<1>1. /\ Len(s) \in Nat /\ Len(u) = Len(s) + 1 /\ u[Len(s) + 1] = t
      /\ \A n \in 1..Len(s) : u[n] = s[n]
  BY Appended
<1>2. \A n \in 1..Len(s) + 1 : HasRow(u, r, n) <=> HasRow(s, r, n)
  BY RowStays
<1>3. \A n : n \in 1..Len(s) + 1 <=> n \in 1..Len(s) \/ n = Len(s) + 1
  BY <1>1
<1> HIDE DEF u
<1>4. ASSUME NEW n PROVE n \in MadeBy(u, r) <=> n \in MadeBy(s, r) \/ (Makes(s, r, t) /\ n = Len(s) + 1)
  <2>1. CASE n \in 1..Len(s)
    BY <1>1, <1>2, <1>3, <2>1 DEF MadeBy
  <2>2. CASE n = Len(s) + 1
    <3>1. n \notin 1..Len(s)
      BY <1>1, <2>2
    <3> QED BY <1>1, <1>2, <1>3, <2>2, <3>1 DEF MadeBy, Makes
  <2>3. CASE n \notin 1..Len(s) /\ n # Len(s) + 1
    BY <1>1, <1>3, <2>3 DEF MadeBy
  <2> QED BY <2>1, <2>2, <2>3
<1> QED BY <1>4 DEF u

\* Rows stay what they are with a line more.
LEMMA FieldsStay ==
    ASSUME NEW U, NEW s \in Seq(U), NEW t \in U, NEW r, NEW V, NEW made \in Seq(V),
           FieldsOf(s, r, made),
           \A n \in 1..Len(made) : made[n].end \in 1..Len(s) + 1
    PROVE  FieldsOf(Append(s, t), r, made)
<1>1. ASSUME NEW n \in 1..Len(made), NEW f \in Fields(r)
      PROVE  made[n].fields[f] = LastIn(Append(s, t), r, f, RowFrom(Append(s, t), r, made, f, n), made[n].end)
  <2>1. made[n].end \in Nat \ {0} /\ made[n].end <= Len(s) + 1
    OBVIOUS
  <2>2. BlockOf(Append(s, t), r, made[n].end) = BlockOf(s, r, made[n].end)
    BY <2>1, BlockStays
  <2>3. BlockOf(s, r, made[n].end) \in Nat
    BY <2>1, BlockIn
  <2>4. n # 1 => made[n - 1].end \in Nat
    <3>1. n # 1 => n - 1 \in 1..Len(made)
      OBVIOUS
    <3> QED BY <3>1
  <2>5. RowFrom(Append(s, t), r, made, f, n) = RowFrom(s, r, made, f, n)
    BY <2>2 DEF RowFrom
  <2>6. RowFrom(s, r, made, f, n) \in Nat
    BY <2>3, <2>4 DEF RowFrom
  <2>7. LastIn(Append(s, t), r, f, RowFrom(s, r, made, f, n), made[n].end)
          = LastIn(s, r, f, RowFrom(s, r, made, f, n), made[n].end)
    BY <2>1, <2>6, LastStays
  <2> QED BY <2>5, <2>7 DEF FieldsOf
<1> QED BY <1>1 DEF FieldsOf

\* A row more.
LEMMA FieldsAdd ==
    ASSUME NEW s, NEW r, NEW V, NEW made \in Seq(V), NEW x \in V, FieldsOf(s, r, made),
           x.end = Len(s) + 1, r # "user_info",
           \A f \in Fields(r) : x.fields[f] = LastIn(s, r, f, From(s, r, made, f), Len(s) + 1)
    PROVE  FieldsOf(s, r, Append(made, x))
<1> DEFINE all == Append(made, x)
<1>1. /\ Len(made) \in Nat /\ Len(all) = Len(made) + 1 /\ all[Len(made) + 1] = x
      /\ \A n \in 1..Len(made) : all[n] = made[n]
  OBVIOUS
<1>2. made = <<>> <=> Len(made) = 0
  OBVIOUS
<1> HIDE DEF all
<1>3. ASSUME NEW n \in 1..Len(made), NEW f \in Fields(r)
      PROVE  all[n].fields[f] = LastIn(s, r, f, RowFrom(s, r, all, f, n), all[n].end)
  <2>1. all[n] = made[n] /\ (n # 1 => all[n - 1] = made[n - 1])
    <3>1. n # 1 => n - 1 \in 1..Len(made)
      OBVIOUS
    <3> QED BY <1>1, <3>1
  <2>2. RowFrom(s, r, all, f, n) = RowFrom(s, r, made, f, n)
    BY <2>1 DEF RowFrom
  <2> QED BY <2>1, <2>2 DEF FieldsOf
<1>4. ASSUME NEW f \in Fields(r)
      PROVE  x.fields[f] = LastIn(s, r, f, RowFrom(s, r, all, f, Len(made) + 1), x.end)
  <2>1. Len(made) # 0 => all[Len(made)] = made[Len(made)]
    BY <1>1
  <2>2. (Len(made) + 1) - 1 = Len(made) /\ (Len(made) + 1 = 1 <=> Len(made) = 0)
    BY <1>1
  <2>3. RowFrom(s, r, all, f, Len(made) + 1) = From(s, r, made, f)
    BY <1>1, <1>2, <2>1, <2>2 DEF RowFrom, From
  <2> QED BY <2>3
<1>5. \A n \in 1..Len(all) : n \in 1..Len(made) \/ n = Len(made) + 1
  BY <1>1
<1> QED BY <1>1, <1>3, <1>4, <1>5 DEF FieldsOf, all

\* A row behind the others ends where it says.
LEMMA EndsAdd ==
    ASSUME NEW V, NEW made \in Seq(V), NEW x \in V, Rising(made),
           \A n \in 1..Len(made) : made[n].end \in Nat /\ made[n].end < x.end
    PROVE  Ends(Append(made, x)) = Ends(made) \cup {x.end} /\ Rising(Append(made, x))
<1> DEFINE all == Append(made, x)
<1>1. /\ Len(made) \in Nat /\ Len(all) = Len(made) + 1 /\ all[Len(made) + 1] = x
      /\ \A n \in 1..Len(made) : all[n] = made[n]
  OBVIOUS
<1> HIDE DEF all
<1>2. \A n : n \in 1..Len(all) <=> n \in 1..Len(made) \/ n = Len(made) + 1
  BY <1>1
<1>3. Ends(all) = Ends(made) \cup {x.end}
  BY <1>1, <1>2 DEF Ends
<1>4. ASSUME NEW n \in 1..Len(all) - 1 PROVE all[n].end < all[n + 1].end
  <2>1. n \in 1..Len(made)
    BY <1>1
  <2>2. CASE n = Len(made)
    BY <1>1, <2>1, <2>2
  <2>3. CASE n # Len(made)
    <3>1. n \in 1..Len(made) - 1 /\ n + 1 \in 1..Len(made)
      BY <1>1, <2>1, <2>3
    <3> QED BY <1>1, <2>1, <3>1 DEF Rising
  <2> QED BY <2>2, <2>3
<1> QED BY <1>3, <1>4 DEF Rising, all

-----------------------------------------------------------------------------
Kinds == {"HWID", "Log date", "URL", "Password", "Name", "Value", "ID", "CommandLine", "line",
          "none", "other", "long", "no space", "===", ""}
Names6 == {"user_info", "passwords", "autofills", "installed_software", "processes", "cookies"}
RowOf(r) == [fields : [Fields(r) -> Nat], end : Nat \ {0}]
RpTyped ==
    /\ reader \in Names6 /\ rpPc \in {"scan", "file", "error", "panic", "end"}
    /\ text \in Seq(Kinds) /\ any \in BOOLEAN
    /\ entry \in [Fields(reader) -> Nat] /\ fresh \in Seq(RowOf(reader))

\* The rows of the lines read of a file.
RowsMade ==
    /\ IF reader = "user_info" THEN fresh = <<>> ELSE Ends(fresh) = MadeBy(text, reader)
    /\ Rising(fresh)
    /\ ~Single => FieldsOf(text, reader, fresh)
    /\ \A n \in 1..Len(fresh) : fresh[n].end <= Len(text)
\* The entry being collected, and whether there is anything in it.
Collected ==
    /\ ~Single => \A f \in Fields(reader) :
           entry[f] = LastIn(text, reader, f, From(text, reader, fresh, f), Len(text) + 1)
    /\ Blocks => (any <=> \E n \in BlockOf(text, reader, Len(text) + 1) + 1 .. Len(text) : Says(text, reader, n))
RpInv ==
    /\ RpTyped
    /\ rpPc = "scan" => RowsMade /\ Collected
    /\ rpPc = "file" => Directory
    /\ rpPc # "scan" => RowsOfText

\* The kinds of line that are fields of a reader.
LEMMA FieldKinds ==
    ASSUME NEW r \in Names6, NEW f \in Fields(r)
    PROVE  /\ f \in Kinds /\ f \notin {"", "===", "none", "other"}
           /\ r \in {"passwords", "processes", "user_info"} => f # "Value"
           /\ r \in {"passwords", "processes", "autofills", "user_info"} => f # "line"
<1>1. r \in {"user_info", "passwords"} => f \in {"HWID", "Log date", "URL", "Password"}
  BY DEF Fields
<1>2. r \in {"autofills", "processes"} => f \in {"Name", "Value", "ID", "CommandLine"}
  BY DEF Fields
<1>3. r = "processes" => f \in {"Name", "ID", "CommandLine"}
  BY DEF Fields
<1>4. r \in {"installed_software", "cookies"} => f = "line"
  BY DEF Fields
<1> QED BY <1>1, <1>2, <1>3, <1>4 DEF Names6, Kinds

\* A row ends at a line.
LEMMA RowEnd ==
    ASSUME NEW r, NEW made \in Seq(RowOf(r)), NEW n \in 1..Len(made)
    PROVE  made[n].end \in Nat \ {0}
<1>1. made[n] \in RowOf(r)
  OBVIOUS
<1> QED BY <1>1 DEF RowOf

\* The readers, spelled out.
LEMMA Readers6 == Readers = Names6
BY DEF Readers, Order, Names6, Range

\* Where an entry is collected from is before the line that is read.
LEMMA FromIn ==
    ASSUME RpTyped, RowsMade, NEW f
    PROVE  From(text, reader, fresh, f) \in 0..Len(text)
<1>1. Len(text) \in Nat
  BY DEF RpTyped
<1>2. BlockOf(text, reader, Len(text) + 1) \in 0..(Len(text) + 1) - 1
  <2>1. Len(text) + 1 \in Nat \ {0}
    BY <1>1
  <2> QED BY <2>1, BlockIn
<1>3. fresh # <<>> => fresh[Len(fresh)].end \in 0..Len(text)
  <2>1. fresh # <<>> => Len(fresh) \in 1..Len(fresh)
    BY DEF RpTyped
  <2>2. \A n \in 1..Len(fresh) : fresh[n].end \in Nat
    BY RowEnd DEF RpTyped
  <2> QED BY <1>1, <2>1, <2>2 DEF RowsMade
<1> QED BY <1>1, <1>2, <1>3 DEF From

\* A line that makes no row.
LEMMA NoRow ==
    ASSUME RpTyped, RowsMade, NEW t \in Kinds, ~Makes(text, reader, t),
           text' = Append(text, t), reader' = reader, fresh' = fresh
    PROVE  RowsMade'
<1>1. text \in Seq(Kinds) /\ fresh \in Seq(RowOf(reader))
  BY DEF RpTyped
<1>2. Len(text') = Len(text) + 1 /\ Len(text) \in Nat
  BY <1>1
<1>3. \A n \in 1..Len(fresh) : fresh[n].end \in Nat \ {0} /\ fresh[n].end <= Len(text)
  BY <1>1, RowEnd DEF RowsMade
<1>4. MadeBy(text', reader) = MadeBy(text, reader)
  <2>1. MadeBy(text', reader)
          = MadeBy(text, reader) \cup (IF Makes(text, reader, t) THEN {Len(text) + 1} ELSE {})
    BY <1>1, MadeGrows
  <2> QED BY <2>1
<1>5. ~Single => FieldsOf(text', reader, fresh)
  <2>1. \A n \in 1..Len(fresh) : fresh[n].end \in 1..Len(text) + 1
    BY <1>2, <1>3
  <2> QED BY <1>1, <2>1, FieldsStay DEF RowsMade
<1>6. \A n \in 1..Len(fresh) : fresh[n].end <= Len(text')
  BY <1>2, <1>3
<1> QED BY <1>4, <1>5, <1>6 DEF RowsMade, Single

\* A line that makes one.
LEMMA OneRow ==
    ASSUME RpTyped, RowsMade, NEW t \in Kinds, Makes(text, reader, t), reader # "user_info",
           NEW x \in RowOf(reader), x.end = Len(text) + 1,
           ~Single => \A f \in Fields(reader) :
               x.fields[f] = LastIn(text, reader, f, From(text, reader, fresh, f), Len(text) + 1),
           text' = Append(text, t), reader' = reader, fresh' = Append(fresh, x)
    PROVE  RowsMade'
<1>1. text \in Seq(Kinds) /\ fresh \in Seq(RowOf(reader)) /\ fresh' \in Seq(RowOf(reader))
  BY DEF RpTyped
<1>2. Len(text') = Len(text) + 1 /\ Len(text) \in Nat
  BY <1>1
<1>3. \A n \in 1..Len(fresh) : fresh[n].end \in Nat \ {0} /\ fresh[n].end <= Len(text)
  BY <1>1, RowEnd DEF RowsMade
<1>4. MadeBy(text', reader) = MadeBy(text, reader) \cup {Len(text) + 1}
  BY <1>1, MadeGrows
<1>5. Ends(fresh') = Ends(fresh) \cup {x.end} /\ Rising(fresh')
  <2>1. \A n \in 1..Len(fresh) : fresh[n].end \in Nat /\ fresh[n].end < x.end
    BY <1>2, <1>3
  <2> QED BY <1>1, <2>1, EndsAdd DEF RowsMade
<1>6. \A n \in 1..Len(fresh') : fresh'[n].end \in 1..Len(text) + 1
  <2>1. \A n \in 1..Len(fresh') : fresh'[n] = x \/ \E m \in 1..Len(fresh) : fresh'[n] = fresh[m]
    BY <1>1
  <2> QED BY <1>2, <1>3, <2>1
<1>7. ~Single => FieldsOf(text', reader, fresh')
  <2>1. ~Single => FieldsOf(text, reader, fresh')
    BY <1>1, FieldsAdd DEF RowsMade
  <2> QED BY <1>1, <1>6, <2>1, FieldsStay
<1>8. \A n \in 1..Len(fresh') : fresh'[n].end <= Len(text')
  BY <1>2, <1>6
<1> QED BY <1>4, <1>5, <1>7, <1>8 DEF RowsMade, Single

\* What is collected with a line that closes no block.
LEMMA EntryGrows ==
    ASSUME RpTyped, RowsMade, Collected, NEW t \in Kinds, t # Closing(reader), ~Single,
           text' = Append(text, t), reader' = reader, fresh' = fresh
    PROVE  \A c \in Fields(reader) :
             LastIn(text', reader', c, From(text', reader', fresh', c), Len(text') + 1)
               = IF t = c THEN Len(text) + 1
                 ELSE IF c = EmptyField(reader) /\ t = "none" THEN 0 ELSE entry[c]
<1>1. text \in Seq(Kinds) /\ Len(text') + 1 = Len(text) + 2
  BY DEF RpTyped
<1>2. BlockOf(text', reader, Len(text) + 2) = BlockOf(text, reader, Len(text) + 1)
  BY <1>1, BlockGrows
<1>3. SUFFICES ASSUME NEW c \in Fields(reader)
               PROVE LastIn(text', reader, c, From(text', reader, fresh, c), Len(text) + 2)
               = IF t = c THEN Len(text) + 1
                 ELSE IF c = EmptyField(reader) /\ t = "none" THEN 0 ELSE entry[c]
  BY <1>1
<1>4. From(text', reader, fresh, c) = From(text, reader, fresh, c)
  BY <1>1, <1>2 DEF From
<1>5. From(text, reader, fresh, c) \in 0..Len(text)
  BY FromIn
<1>6. LastIn(text', reader, c, From(text, reader, fresh, c), Len(text) + 2)
        = IF t = c THEN Len(text) + 1
          ELSE IF c = EmptyField(reader) /\ t = "none" THEN 0
          ELSE LastIn(text, reader, c, From(text, reader, fresh, c), Len(text) + 1)
  BY <1>1, <1>5, LastGrows
<1> QED BY <1>4, <1>6 DEF Collected

\* Whether anything was read with a line that closes no block.
LEMMA AnyGrows ==
    ASSUME RpTyped, Collected, NEW t \in Kinds, t # Closing(reader), Blocks,
           text' = Append(text, t), reader' = reader
    PROVE  (\E n \in BlockOf(text', reader', Len(text') + 1) + 1 .. Len(text') : Says(text', reader', n))
               <=> (any \/ Says(text', reader', Len(text')))
<1>1. text \in Seq(Kinds) /\ Len(text') + 1 = Len(text) + 2
  BY DEF RpTyped
<1>2. BlockOf(text', reader, Len(text) + 2) = BlockOf(text, reader, Len(text) + 1)
  BY <1>1, BlockGrows
<1>3. BlockOf(text, reader, Len(text) + 1) \in 0..Len(text)
  <2>1. Len(text) + 1 \in Nat \ {0} /\ (Len(text) + 1) - 1 = Len(text)
    BY <1>1
  <2> QED BY <2>1, BlockIn
<1> DEFINE b == BlockOf(text, reader, Len(text) + 1)
<1>4. /\ Len(text') = Len(text) + 1
      /\ \A n \in 1..Len(text) : Says(text', reader, n) <=> Says(text, reader, n)
  BY <1>1, Appended, SaysStays
<1>5. \A n : n \in b + 1 .. Len(text) + 1 <=> n \in b + 1 .. Len(text) \/ n = Len(text) + 1
  BY <1>1, <1>3
<1>6. \A n \in b + 1 .. Len(text) : n \in 1..Len(text)
  BY <1>3
<1>7. any <=> \E n \in b + 1 .. Len(text) : Says(text, reader, n)
  BY DEF Collected
<1>8. Len(text') + 1 = Len(text) + 2 /\ reader' = reader
  BY <1>1
<1> HIDE DEF b
<1>9. (\E n \in b + 1 .. Len(text') : Says(text', reader, n)) <=> (any \/ Says(text', reader, Len(text')))
  BY <1>4, <1>5, <1>6, <1>7
<1> QED BY <1>2, <1>8, <1>9 DEF b

\* A line that closes no block and makes no row.
LEMMA OpenLine ==
    ASSUME RpInv, NEW t \in Kinds, Line(t), UNCHANGED <<rpPc, fresh>>, t # Closing(reader),
           Single => t # "line", entry' \in [Fields(reader) -> Nat], any' \in BOOLEAN,
           ~Single => \A c \in Fields(reader) :
               entry'[c] = IF t = c THEN Len(text) + 1
                           ELSE IF c = EmptyField(reader) /\ t = "none" THEN 0 ELSE entry[c],
           Blocks => (any' <=> any \/ Says(text', reader, Len(text')))
    PROVE  RpInv'
<1>1. /\ RpTyped /\ RowsMade /\ Collected /\ rpPc = "scan"
      /\ text' = Append(text, t) /\ reader' = reader /\ fresh' = fresh /\ rpPc' = rpPc
  BY DEF RpInv, Line
<1>2. RpTyped'
  <2>1. text' \in Seq(Kinds)
    BY <1>1, Appended DEF RpTyped
  <2> QED BY <1>1, <2>1 DEF RpTyped
<1>3. ~Makes(text, reader, t)
  BY DEF Makes, Single
<1>4. RowsMade'
  BY <1>1, <1>3, NoRow
<1>5. Collected'
  <2>1. ~Single => \A c \in Fields(reader) :
             entry'[c] = LastIn(text', reader', c, From(text', reader', fresh', c), Len(text') + 1)
    BY <1>1, EntryGrows
  <2>2. Blocks => (any' <=> \E n \in BlockOf(text', reader', Len(text') + 1) + 1 .. Len(text') : Says(text', reader', n))
    BY <1>1, AnyGrows
  <2>3. (Single <=> Single') /\ (Blocks <=> Blocks')
    BY <1>1 DEF Single, Blocks
  <2> QED BY <1>1, <2>1, <2>2, <2>3 DEF Collected
<1> QED BY <1>1, <1>2, <1>4, <1>5 DEF RpInv

\* A key and its value.
LEMMA AtField == ASSUME RpInv, FieldLine PROVE RpInv'
<1>1. RpTyped /\ reader \in Names6 /\ ~Single /\ any' = TRUE /\ UNCHANGED <<rpPc, fresh>>
  BY DEF RpInv, RpTyped, FieldLine
<1>2. entry \in [Fields(reader) -> Nat] /\ Len(text) + 1 \in Nat
  BY <1>1 DEF RpTyped
<1>3. Closing(reader) \in {"", "==="}
  BY DEF Closing
<1>6. ASSUME NEW t \in Kinds, Line(t), t # "" PROVE Says(text', reader, Len(text'))
  <2>1. text' = Append(text, t)
    BY <1>6 DEF Line
  <2>2. text'[Len(text')] = t
    BY <1>1, <2>1, LastAppended, Zenon DEF RpTyped
  <2> QED BY <1>6, <2>2 DEF Says
<1>4. ASSUME NEW f \in Fields(reader), Line(f), entry' = [entry EXCEPT ![f] = Len(text) + 1]
      PROVE  RpInv'
  <2>1. f \in Kinds /\ f \notin {"", "===", "none"}
    BY <1>1, FieldKinds
  <2>2. \A c \in Fields(reader) : entry'[c] = IF f = c THEN Len(text) + 1 ELSE entry[c]
    BY <1>2, <1>4
  <2>3. entry' \in [Fields(reader) -> Nat]
    BY <1>2, <1>4
  <2> QED BY <1>1, <1>3, <1>4, <1>6, <2>1, <2>2, <2>3, OpenLine
<1>5. ASSUME "none" \in Others(reader), Line("none"), entry' = [entry EXCEPT ![EmptyField(reader)] = 0]
      PROVE  RpInv'
  <2>1. EmptyField(reader) \in Fields(reader)
    BY <1>1, <1>5 DEF Names6, Fields, EmptyField, Others
  <2>2. \A c \in Fields(reader) : c # "none" /\ entry'[c] = IF c = EmptyField(reader) THEN 0 ELSE entry[c]
    BY <1>1, <1>2, <1>5, FieldKinds
  <2>3. entry' \in [Fields(reader) -> Nat]
    BY <1>2, <1>5
  <2>4. "none" \in Kinds
    BY DEF Kinds
  <2> QED BY <1>1, <1>3, <1>5, <1>6, <2>2, <2>3, <2>4, OpenLine
<1> QED BY <1>4, <1>5 DEF FieldLine

\* A line that is skipped.
LEMMA AtSkipped == ASSUME RpInv, SkippedLine PROVE RpInv'
<1>1. /\ RpTyped /\ reader \in Names6 /\ UNCHANGED <<rpPc, fresh, entry>>
      /\ entry \in [Fields(reader) -> Nat] /\ any \in BOOLEAN /\ text \in Seq(Kinds)
  BY DEF RpInv, RpTyped, SkippedLine
<1>2. PICK t \in {"other", ""} : Line(t) /\ (t = "" => Blocks)
  BY DEF SkippedLine
<1>3. t \in Kinds
  BY DEF Kinds
<1>4. any' = (any \/ (Blocks /\ Says(text', reader, Len(text'))))
  BY DEF SkippedLine
<1>5. \A c \in Fields(reader) : t # c
  BY <1>1, FieldKinds
<1>6. t # Closing(reader)
  BY <1>2 DEF Closing, Blocks
<1>7. any' \in BOOLEAN /\ (Blocks => (any' <=> any \/ Says(text', reader, Len(text'))))
  BY <1>1, <1>4 DEF Says
<1> QED BY <1>1, <1>2, <1>3, <1>5, <1>6, <1>7, OpenLine

\* An entry is worth a row when its block is.
LEMMA WorthIsRow ==
    ASSUME RpTyped, Collected, reader \in {"autofills", "passwords", "processes"}
    PROVE  Worth <=> HasRow(text, reader, Len(text) + 1)
<1>1. CASE reader = "autofills"
  <2>1. "Name" \in Fields(reader) /\ ~Single /\ Closing(reader) = ""
    BY <1>1 DEF Fields, Single, Closing
  <2>2. entry["Name"] = LastIn(text, reader, "Name", BlockOf(text, reader, Len(text) + 1), Len(text) + 1)
    BY <1>1, <2>1 DEF Collected, From
  <2> QED BY <1>1, <2>1, <2>2 DEF Worth, HasRow
<1>2. CASE reader \in {"passwords", "processes"}
  <2>1. Blocks /\ Closing(reader) = "===" /\ reader # "autofills"
    BY <1>2 DEF Blocks, Closing
  <2>2. (Len(text) + 1) - 1 = Len(text)
    BY DEF RpTyped
  <2> QED BY <2>1, <2>2 DEF Worth, HasRow, Collected
<1> QED BY <1>1, <1>2

\* A line that is a row.
LEMMA AtRow == ASSUME RpInv, RowLine PROVE RpInv'
<1> DEFINE x == Row([f \in {"line"} |-> Len(text) + 1])
<1>1. /\ RpTyped /\ RowsMade /\ Collected /\ rpPc = "scan" /\ rpPc' = "scan" /\ Single
      /\ text' = Append(text, "line") /\ reader' = reader /\ fresh' = Append(fresh, x)
      /\ UNCHANGED <<entry, any>>
  BY DEF RpInv, RowLine, Line
<1>2. Len(text) + 1 \in Nat \ {0} /\ "line" \in Kinds
  <2>1. Len(text) + 1 \in Nat \ {0}
    BY <1>1 DEF RpTyped
  <2> QED BY <2>1 DEF Kinds
<1>3. Fields(reader) = {"line"} /\ reader # "user_info"
  BY <1>1 DEF Single, Fields
<1>4. x \in RowOf(reader) /\ x.end = Len(text) + 1
  BY <1>2, <1>3 DEF RowOf, Row
<1> HIDE DEF x
<1>5. RowsMade'
  <2>1. Makes(text, reader, "line")
    BY <1>1 DEF Makes, Single
  <2> QED BY <1>1, <1>2, <1>3, <1>4, <2>1, OneRow
<1>6. RpTyped'
  <2>1. text' \in Seq(Kinds) /\ fresh' \in Seq(RowOf(reader))
    BY <1>1, <1>2, <1>4, Appended DEF RpTyped
  <2> QED BY <1>1, <2>1 DEF RpTyped
<1>7. Collected'
  BY <1>1 DEF Collected, Single, Blocks
<1> QED BY <1>1, <1>5, <1>6, <1>7 DEF RpInv

\* The line between two entries.
LEMMA AtClose == ASSUME RpInv, CloseLine PROVE RpInv'
<1> DEFINE t == Closing(reader)
           x == Row(entry)
<1>1. /\ RpTyped /\ RowsMade /\ Collected /\ rpPc = "scan" /\ rpPc' = "scan" /\ reader' = reader
      /\ reader \in {"autofills", "passwords", "processes"} /\ any' = FALSE
      /\ text' = Append(text, t)
      /\ fresh' = (IF Worth THEN Append(fresh, x) ELSE fresh)
      /\ entry' = (IF Worth \/ Blocks THEN Blank(reader) ELSE entry)
  BY DEF RpInv, CloseLine, Line, Closing, Blocks, NewEntry
<1>2. /\ text \in Seq(Kinds) /\ fresh \in Seq(RowOf(reader)) /\ entry \in [Fields(reader) -> Nat]
      /\ Len(text) \in Nat /\ t \in Kinds /\ reader \in Names6
  <2>1. /\ text \in Seq(Kinds) /\ fresh \in Seq(RowOf(reader)) /\ entry \in [Fields(reader) -> Nat]
        /\ reader \in Names6
    BY <1>1 DEF RpTyped
  <2>2. Len(text) \in Nat
    BY <2>1
  <2>3. t \in Kinds
    BY DEF Closing, Kinds
  <2> QED BY <2>1, <2>2, <2>3
<1>3. ~Single /\ reader # "user_info" /\ (Blocks <=> reader # "autofills")
  BY <1>1 DEF Single, Blocks
<1>4. Makes(text, reader, t) <=> Worth
  BY <1>1, <1>3, WorthIsRow DEF Makes, Single
<1>5. x \in RowOf(reader) /\ x.end = Len(text) + 1 /\ x.fields = entry
  BY <1>2 DEF RowOf, Row
<1> HIDE DEF x, t
<1>6. RowsMade'
  <2>1. CASE Worth
    BY <1>1, <1>2, <1>3, <1>4, <1>5, <2>1, OneRow DEF Collected
  <2>2. CASE ~Worth
    BY <1>1, <1>2, <1>4, <2>2, NoRow
  <2> QED BY <2>1, <2>2
<1>7. RpTyped'
  <2>1. text' \in Seq(Kinds) /\ Len(text') = Len(text) + 1
    BY <1>1, <1>2, Appended
  <2>2. fresh' \in Seq(RowOf(reader))
    BY <1>1, <1>2, <1>5
  <2>3. entry' \in [Fields(reader) -> Nat]
    BY <1>1, <1>2 DEF Blank
  <2> QED BY <1>1, <2>1, <2>2, <2>3 DEF RpTyped
<1>8. BlockOf(text', reader, Len(text') + 1) = Len(text')
  <2>1. Len(text') = Len(text) + 1 /\ Len(text') + 1 = Len(text) + 2
    BY <1>1, <1>2, Appended
  <2> QED BY <1>1, <1>2, <2>1, BlockGrows DEF t
<1>9. ASSUME NEW c \in Fields(reader)
      PROVE  entry'[c] = LastIn(text', reader, c, From(text', reader, fresh', c), Len(text') + 1)
  <2>1. Len(text') \in Nat /\ Len(text') = Len(text) + 1 /\ Len(text') + 1 = Len(text) + 2
    BY <1>1, <1>2, Appended
  <2>2. LastIn(text', reader, c, Len(text'), Len(text') + 1) = 0
    BY <2>1, LastNone
  <2>3. CASE c # "Value"
    <3>1. From(text', reader, fresh', c) = Len(text')
      BY <1>3, <1>8, <2>3 DEF From
    <3>2. ~Worth /\ ~Blocks => c = "Name" /\ entry[c] = 0
      BY <1>1, <1>3, <2>3 DEF Worth, Fields
    <3> QED BY <1>1, <2>2, <3>1, <3>2 DEF Blank
  <2>4. CASE c = "Value" /\ Worth
    <3>1. fresh' # <<>> /\ fresh'[Len(fresh')] = x
      <4>1. fresh' = Append(fresh, x)
        BY <1>1, <2>4
      <4>2. Len(fresh) \in Nat /\ Len(fresh') = Len(fresh) + 1 /\ fresh'[Len(fresh) + 1] = x
        BY <1>2, <1>5, <4>1, Appended
      <4> QED BY <4>2
    <3>2. From(text', reader, fresh', c) = Len(text')
      BY <1>3, <1>5, <2>1, <2>4, <3>1 DEF From
    <3> QED BY <1>1, <2>2, <2>4, <3>2 DEF Blank
  <2>5. CASE c = "Value" /\ ~Worth
    <3>1. reader = "autofills" /\ ~Blocks /\ t = "" /\ EmptyField(reader) = "Name"
      BY <1>1, <1>2, <1>3, <2>5, FieldKinds DEF t, Closing, EmptyField
    <3>2. From(text', reader, fresh', c) = From(text, reader, fresh, c)
      BY <1>1, <1>3, <2>5 DEF From
    <3>3. From(text, reader, fresh, c) \in 0..Len(text)
      BY <1>1, FromIn
    <3>4. LastIn(text', reader, c, From(text, reader, fresh, c), Len(text) + 2)
            = LastIn(text, reader, c, From(text, reader, fresh, c), Len(text) + 1)
      <4>1. t # c /\ c # EmptyField(reader)
        BY <2>5, <3>1
      <4>2. LastIn(Append(text, t), reader, c, From(text, reader, fresh, c), Len(text) + 2)
            = IF t = c THEN Len(text) + 1
              ELSE IF c = EmptyField(reader) /\ t = "none" THEN 0
              ELSE LastIn(text, reader, c, From(text, reader, fresh, c), Len(text) + 1)
        BY <1>2, <3>3, LastGrows
      <4> QED BY <1>1, <4>1, <4>2
    <3> QED BY <1>1, <1>3, <2>1, <2>5, <3>1, <3>2, <3>4 DEF Collected
  <2> QED BY <2>3, <2>4, <2>5
<1>10. Collected'
  <2>1. ~ \E n \in Len(text') + 1 .. Len(text') : Says(text', reader', n)
    <3>1. Len(text') \in Nat
      BY <1>1, <1>2, Appended
    <3>2. \A n : n \notin Len(text') + 1 .. Len(text')
      BY <3>1
    <3> QED BY <3>2, Zenon
  <2> QED BY <1>1, <1>8, <1>9, <2>1 DEF Collected
<1> QED BY <1>1, <1>6, <1>7, <1>10 DEF RpInv

\* The rows that are made are the text's.
LEMMA EndRow == ASSUME RpInv, EndOfFile PROVE RpInv'
<1>1. /\ RpTyped /\ RowsMade /\ Collected /\ rpPc = "scan" /\ UNCHANGED <<reader, text, entry, any>>
      /\ rpPc' = (IF Directory THEN "file" ELSE "end") /\ reader \in Names6
      /\ fresh' = (IF Single THEN fresh ELSE IF reader = "user_info" THEN <<Row(entry)>> ELSE FinalRow)
  BY DEF RpInv, EndOfFile, RpTyped
<1> DEFINE x == Row(entry)
           end == Len(text) + 1
<1>2. /\ text \in Seq(Kinds) /\ fresh \in Seq(RowOf(reader)) /\ entry \in [Fields(reader) -> Nat]
      /\ Len(text) \in Nat
  BY <1>1 DEF RpTyped
<1>3. x \in RowOf(reader) /\ x.end = end /\ x.fields = entry
  BY <1>2 DEF RowOf, Row
<1>4. Rising(fresh) /\ \A n \in 1..Len(fresh) : fresh[n].end \in Nat /\ fresh[n].end < x.end
  BY <1>1, <1>2, <1>3, RowEnd DEF RowsMade
<1> HIDE DEF x
<1>5. ASSUME ~Single
      PROVE  \A f \in Fields(reader) : x.fields[f] = LastIn(text, reader, f, From(text, reader, fresh, f), end)
  BY <1>1, <1>3, <1>5 DEF Collected
<1>6. CASE Single
  <2>1. fresh' = fresh /\ reader # "user_info"
    BY <1>1, <1>6 DEF Single
  <2>2. RowsOfText'
    BY <1>1, <1>4, <1>6, <2>1
       DEF RowsMade, RowsOfText, RowsAreBlocks, FieldsOfBlock, RowEnds, Single, MadeBy, Ends, Rising
  <2> QED BY <1>1, <1>2, <2>1, <2>2 DEF RpInv, RpTyped, Directory
<1>7. CASE reader = "user_info"
  <2>1. fresh = <<>> /\ fresh' = <<x>> /\ ~Single
    BY <1>1, <1>7 DEF Single, RowsMade, x
  <2>2. \A f \in Fields(reader) : fresh'[1].fields[f] = LastIn(text, reader, f, 0, fresh'[1].end)
    BY <1>3, <1>5, <1>7, <2>1 DEF From
  <2>3. RowsOfText'
    BY <1>1, <1>7, <2>1, <2>2 DEF RowsOfText, RowsAreBlocks, FieldsOfBlock, FromLine
  <2>4. fresh' \in Seq(RowOf(reader))
    BY <1>3, <2>1
  <2> QED BY <1>1, <1>2, <2>3, <2>4 DEF RpInv, RpTyped, Directory
<1>8. CASE reader \in {"autofills", "passwords", "processes"}
  <2>1. /\ fresh' = (IF Worth THEN Append(fresh, x) ELSE fresh) /\ reader # "user_info" /\ ~Single
    BY <1>1, <1>8 DEF Single, FinalRow, x
  <2>2. Worth <=> HasRow(text, reader, end)
    BY <1>1, <1>8, WorthIsRow
  <2>9. Ends(Append(fresh, x)) = Ends(fresh) \cup {x.end} /\ Rising(Append(fresh, x))
    BY <1>2, <1>3, <1>4, EndsAdd
  <2>3. Ends(fresh') = MadeBy(text, reader) \cup (IF HasRow(text, reader, end) THEN {end} ELSE {})
    BY <1>1, <1>3, <2>1, <2>2, <2>9 DEF RowsMade
  <2>4. Rising(fresh')
    BY <1>4, <2>1, <2>9
  <2>5. FieldsOf(text, reader, fresh')
    BY <1>1, <1>2, <1>3, <1>5, <2>1, FieldsAdd DEF RowsMade
  <2>6. RowsAreBlocks'
    BY <1>1, <2>1, <2>3, <2>4
       DEF RowsAreBlocks, RowEnds, Single, MadeBy, Ends, Rising, AtEnd
  <2>7. FieldsOfBlock'
    BY <1>1, <2>1, <2>5 DEF FieldsOfBlock, FromLine, FieldsOf, RowFrom
  <2>8. fresh' \in Seq(RowOf(reader))
    BY <1>2, <1>3, <2>1
  <2> QED BY <1>1, <1>2, <2>6, <2>7, <2>8 DEF RpInv, RpTyped, Directory, RowsOfText
<1> QED BY <1>1, <1>6, <1>7, <1>8 DEF Names6, Single

\* A file, or a reader, begins.
LEMMA Empty ==
    ASSUME reader' \in Names6, text' = <<>>, fresh' = <<>>, entry' = Blank(reader'),
           reader' \in {"passwords", "processes"} => any' = FALSE
    PROVE  RowsMade' /\ Collected' /\ RowsOfText'
<1>1. BlockOf(text', reader', 1) = 0
  BY BlockIn
<1>2. \A f : From(text', reader', fresh', f) = 0
  BY <1>1 DEF From
<1>3. \A f : LastIn(text', reader', f, 0, 1) = 0
  BY LastNone
<1>4. reader' \in {"user_info", "installed_software", "cookies"} \/ ~HasRow(text', reader', 1)
  <2>1. CASE reader' \in {"passwords", "processes"}
    <3>1. Closing(reader') = "===" /\ 0 + 1 .. 1 - 1 = {}
      BY <2>1 DEF Closing
    <3> QED BY <1>1, <3>1 DEF HasRow
  <2>2. CASE reader' = "autofills"
    BY <1>1, <1>3, <2>2 DEF HasRow, Closing
  <2> QED BY <2>1, <2>2 DEF Names6
<1>5. /\ Ends(fresh') = {} /\ MadeBy(text', reader') = {} /\ Rising(fresh')
      /\ FieldsOf(text', reader', fresh')
  BY DEF Ends, MadeBy, Rising, FieldsOf
<1>6. RowsMade'
  BY <1>5 DEF RowsMade
<1>7. Collected'
  <2>1. Len(text') = 0 /\ Len(text') + 1 = 1 /\ 0 + 1 .. 0 = {}
    OBVIOUS
  <2>2. \A f \in Fields(reader') :
           entry'[f] = LastIn(text', reader', f, From(text', reader', fresh', f), Len(text') + 1)
    BY <1>2, <1>3, <2>1 DEF Blank
  <2>3. ~ \E n \in BlockOf(text', reader', Len(text') + 1) + 1 .. Len(text') : Says(text', reader', n)
    BY <1>1, <2>1
  <2> QED BY <2>2, <2>3 DEF Collected, Blocks
<1>8. RowsOfText'
  BY <1>4 DEF RowsOfText, RowsAreBlocks, FieldsOfBlock, RowEnds, Single
<1> QED BY <1>6, <1>7, <1>8

\* A blank entry is an entry.
LEMMA BlankIs == ASSUME NEW r PROVE Blank(r) \in [Fields(r) -> Nat]
BY DEF Blank

\* The next file of a directory, and the next reader.
LEMMA Following == ASSUME RpInv, NextFile \/ NextReader PROVE RpInv'
<1>1. RpTyped /\ any \in BOOLEAN /\ reader \in Names6 /\ (rpPc = "file" => Directory)
  BY DEF RpInv, RpTyped
<1>2. text' = <<>> /\ fresh' = <<>> /\ entry' = Blank(reader') /\ rpPc' \in {"scan", "end"}
  BY DEF NextFile, NextReader, NewEntry
<1>3. reader' \in Names6 /\ any' \in BOOLEAN
  <2>1. CASE NextFile
    BY <1>1, <2>1 DEF NextFile
  <2>2. CASE NextReader
    <3>1. PICK n \in 1..Len(Order) - 1 : reader' = Order[n + 1]
      BY <2>2 DEF NextReader
    <3>2. n \in {1, 2, 3, 4, 5}
      BY DEF Order
    <3>3. Order[n + 1] \in Names6
      BY <3>2 DEF Order, Names6
    <3> QED BY <2>2, <3>1, <3>3 DEF NextReader
  <2> QED BY <2>1, <2>2
<1>4. reader' \in {"passwords", "processes"} => any' = FALSE
  BY <1>1 DEF NextFile, NextReader, Directory
<1>5. RowsMade' /\ Collected' /\ RowsOfText'
  BY <1>2, <1>3, <1>4, Empty
<1>6. RpTyped'
  BY <1>2, <1>3, BlankIs DEF RpTyped
<1> QED BY <1>2, <1>5, <1>6 DEF RpInv

\* The readers that give up: a panic keeps the rows, an error none.
LEMMA GivesUp == ASSUME RpInv, NoSpace \/ TooLong PROVE RpInv'
<1>1. /\ RpTyped /\ RowsMade /\ rpPc = "scan" /\ reader' = reader /\ UNCHANGED <<entry, any>>
      /\ text \in Seq(Kinds) /\ reader \in Names6
  BY DEF RpInv, RpTyped, NoSpace, TooLong, Line
<1>2. CASE NoSpace
  <2>1. /\ reader = "installed_software" /\ text' = Append(text, "no space") /\ rpPc' = "panic"
        /\ fresh' = fresh /\ "no space" \in Kinds
    BY <1>2 DEF NoSpace, Line, Kinds
  <2>2. RowsMade'
    BY <1>1, <2>1, NoRow DEF Makes
  <2>3. RowsOfText'
    BY <1>1, <2>1, <2>2
       DEF RowsMade, RowsOfText, RowsAreBlocks, FieldsOfBlock, RowEnds, Single, MadeBy, Ends, Rising
  <2>4. text' \in Seq(Kinds)
    BY <1>1, <2>1, Appended
  <2> QED BY <1>1, <2>1, <2>3, <2>4 DEF RpInv, RpTyped
<1>3. CASE TooLong
  <2>1. /\ text' = Append(text, "long") /\ rpPc' = (IF Directory THEN "file" ELSE "error")
        /\ fresh' = <<>> /\ "long" \in Kinds
    BY <1>3 DEF TooLong, Line, Kinds
  <2>2. text' \in Seq(Kinds) /\ Len(text) + 1 \in 1..Len(text') /\ text'[Len(text) + 1] = "long"
    BY <1>1, <2>1, Appended
  <2>3. "long" \in Range(text')
    BY <2>2 DEF Range
  <2>4. RowsOfText'
    BY <2>1, <2>3 DEF RowsOfText, RowsAreBlocks, FieldsOfBlock
  <2> QED BY <1>1, <2>1, <2>2, <2>4 DEF RpInv, RpTyped, Directory
<1> QED BY <1>2, <1>3

\* What is being read has the rows of its lines.
LEMMA RpInvSays == RpInv => RowsOfText
<1>1. SUFFICES ASSUME RpInv, rpPc = "scan" PROVE RowsOfText
  BY DEF RpInv
<1>2. RowsMade
  BY <1>1 DEF RpInv
<1> QED BY <1>1, <1>2
   DEF RowsMade, RowsOfText, RowsAreBlocks, FieldsOfBlock, RowEnds, Single, MadeBy, Ends, Rising,
       AtEnd, FromLine, FieldsOf, RowFrom

\* Whatever the lines, fields are collected and rows made as the text says.
THEOREM RpInvHolds == RpSpec => []RpInv
<1>1. RpInit => RpInv
  <2>1. SUFFICES ASSUME RpInit PROVE RpInv
    OBVIOUS
  <2>2. RpTyped
    <3>1. entry \in [Fields(reader) -> Nat]
      BY <2>1, BlankIs DEF RpInit
    <3>2. reader \in Names6 /\ rpPc = "scan" /\ any = FALSE
      BY <2>1 DEF RpInit, Names6
    <3>3. text \in Seq(Kinds) /\ fresh \in Seq(RowOf(reader))
      BY <2>1 DEF RpInit
    <3> QED BY <3>1, <3>2, <3>3 DEF RpTyped
  <2>3. /\ reader = "user_info" /\ text = <<>> /\ fresh = <<>> /\ entry = Blank(reader) /\ rpPc = "scan"
    BY <2>1 DEF RpInit
  <2>4. RowsMade
    BY <2>3 DEF RowsMade, Rising, FieldsOf
  <2>5. Collected
    <3>1. \A f \in Fields(reader) : LastIn(text, reader, f, 0, 1) = 0
      BY LastNone
    <3> QED BY <2>3, <3>1 DEF Collected, From, Blank, Blocks
  <2> QED BY <2>2, <2>3, <2>4, <2>5 DEF RpInv
<1>2. RpInv /\ [RpNext]_rpVars => RpInv'
  <2>1. SUFFICES ASSUME RpInv, [RpNext]_rpVars PROVE RpInv'
    OBVIOUS
  <2>2. CASE FieldLine
    BY <2>1, <2>2, AtField
  <2>3. CASE CloseLine
    BY <2>1, <2>3, AtClose
  <2>4. CASE RowLine
    BY <2>1, <2>4, AtRow
  <2>5. CASE SkippedLine
    BY <2>1, <2>5, AtSkipped
  <2>6. CASE NoSpace \/ TooLong
    BY <2>1, <2>6, GivesUp
  <2>7. CASE EndOfFile
    BY <2>1, <2>7, EndRow
  <2>8. CASE NextFile \/ NextReader
    BY <2>1, <2>8, Following
  <2>9. CASE UNCHANGED rpVars
    <3>1. /\ reader' = reader /\ rpPc' = rpPc /\ text' = text /\ entry' = entry
          /\ any' = any /\ fresh' = fresh
      BY <2>9 DEF rpVars
    <3>2. (RpTyped' <=> RpTyped) /\ (Directory' <=> Directory)
      BY <3>1 DEF RpTyped, Directory
    <3>3. (RowsMade' <=> RowsMade) /\ (Collected' <=> Collected)
      BY <3>1 DEF RowsMade, Collected, Single, Blocks
    <3>4. RowsAreBlocks' <=> RowsAreBlocks
      BY <3>1 DEF RowsAreBlocks, RowEnds, AtEnd, Single
    <3>5. FieldsOfBlock' <=> FieldsOfBlock
      BY <3>1 DEF FieldsOfBlock, FromLine, Single
    <3> QED BY <2>1, <3>1, <3>2, <3>3, <3>4, <3>5 DEF RpInv, RowsOfText
  <2> QED BY <2>1, <2>2, <2>3, <2>4, <2>5, <2>6, <2>7, <2>8, <2>9 DEF RpNext
<1> QED BY <1>1, <1>2, PTL DEF RpSpec

\* The rows of a file are its blocks that have something to say, and their
\* fields the last lines with their keys (main.go:287-335, 360-406, 409-560).
THEOREM RowsOfTextHold == RpSpec => []RowsOfText
BY RpInvHolds, RpInvSays, PTL

-----------------------------------------------------------------------------
(* pebble-cli *)

\* What holds of 0 and with each number of the next holds up to n.
LEMMA Induct ==
    ASSUME NEW S, NEW n \in Nat, 0 \in S, \A k \in 0..(n - 1) : k \in S => k + 1 \in S
    PROVE  0..n \subseteq S
  <1> DEFINE T == (0..n) \ S
  <1> SUFFICES ASSUME T # {} PROVE FALSE
    OBVIOUS
  <1>1. PICK m \in T : \A k \in T : m <= k
    <2>1. T \in SUBSET Nat
      OBVIOUS
    <2> HIDE DEF T
    <2> QED BY <2>1, LeastOf
  <1>2. m - 1 \in 0..(n - 1) /\ m - 1 \notin T
    BY <1>1
  <1> QED BY <1>2

-----------------------------------------------------------------------------
(* Putting the sequences of a sequence together. *)

\* Step by step: after i of them.
Flattens(f, s, n) == f = [i \in 1..n |-> IF i = 1 THEN s[i] ELSE f[i - 1] \o s[i]]

\* A function that joins the parts exists for every number of them.
LEMMA FlattenExists ==
    ASSUME NEW s, NEW n \in Nat
    PROVE  \E f : Flattens(f, s, n)
  <1> DEFINE S == {m \in 0..n : \E f : Flattens(f, s, m)}
  <1>1. 0 \in S
    <2>1. Flattens([i \in {} |-> 0], s, 0)
      BY DEF Flattens
    <2> QED BY <2>1
  <1>2. ASSUME NEW m \in 0..(n - 1), m \in S PROVE m + 1 \in S
    <2>1. PICK f : Flattens(f, s, m)
      BY <1>2
    <2> DEFINE h == [i \in 1..(m + 1) |-> IF i <= m THEN f[i] ELSE IF i = 1 THEN s[i] ELSE f[m] \o s[i]]
    <2>2. \A i \in 1..m : f[i] = IF i = 1 THEN s[i] ELSE f[i - 1] \o s[i]
      BY <2>1 DEF Flattens
    <2>3. \A i \in 1..(m + 1) : h[i] = IF i = 1 THEN s[i] ELSE h[i - 1] \o s[i]
      <3> TAKE i \in 1..(m + 1)
      <3>1. CASE i <= m
        <4>1. i = 1 \/ (i - 1 \in 1..(m + 1) /\ i - 1 <= m)
          BY <3>1
        <4> QED BY <2>2, <3>1, <4>1
      <3>2. CASE i = m + 1
        <4>1. i = 1 \/ (i - 1 = m /\ m \in 1..(m + 1))
          BY <3>2
        <4> QED BY <3>2, <4>1
      <3> QED BY <3>1, <3>2
    <2>4. h = [i \in 1..(m + 1) |-> IF i = 1 THEN s[i] ELSE h[i - 1] \o s[i]]
      BY <2>3
    <2>5. Flattens(h, s, m + 1)
      BY <2>4 DEF Flattens
    <2>6. m + 1 \in 0..n
      OBVIOUS
    <2> QED BY <2>5, <2>6
  <1>3. 0..n \subseteq S
    <2> HIDE DEF S
    <2> QED BY <1>1, <1>2, Induct
  <1> QED BY <1>3

\* FlattenSeq is that function.
LEMMA FlattenIs ==
    ASSUME NEW s, NEW n \in Nat \ {0}, Len(s) = n
    PROVE  \E f : Flattens(f, s, n) /\ FlattenSeq(s) = f[n]
  <1> DEFINE h == CHOOSE f : Flattens(f, s, n)
  <1>1. Flattens(h, s, n)
    BY FlattenExists
  <1>2. FlattenSeq(s) = h[n]
    BY DEF FlattenSeq, Flattens
  <1> QED BY <1>1, <1>2

\* One more, or none, put together.
LEMMA FlattenGrows ==
    ASSUME NEW T, NEW s \in Seq(Seq(T)), NEW b \in Seq(T), FlattenSeq(s) \in Seq(T)
    PROVE  FlattenSeq(Append(s, b)) = FlattenSeq(s) \o b
<1> DEFINE n == Len(s)
           u == Append(s, b)
<1>1. /\ n \in Nat /\ Len(u) = n + 1 /\ u[n + 1] = b /\ \A i \in 1..n : u[i] = s[i]
  OBVIOUS
<1>6. n + 1 \in Nat \ {0}
  BY <1>1
<1> HIDE DEF n, u
<1>2. PICK f : Flattens(f, u, n + 1) /\ FlattenSeq(u) = f[n + 1]
  BY <1>1, <1>6, FlattenIs
<1>3. \A i \in 1..n + 1 : f[i] = IF i = 1 THEN u[i] ELSE f[i - 1] \o u[i]
  BY <1>2 DEF Flattens
<1>4. CASE n = 0
  <2>1. s = <<>> /\ FlattenSeq(s) = <<>>
    BY <1>4 DEF n, FlattenSeq
  <2>2. f[1] = b
    BY <1>1, <1>3, <1>4
  <2> QED BY <1>2, <1>4, <2>1, <2>2, ConcatEmptySeq DEF u
<1>5. CASE n # 0
  <2>1. PICK h : Flattens(h, s, n) /\ FlattenSeq(s) = h[n]
    BY <1>1, <1>5, FlattenIs DEF n
  <2>2. \A i \in 1..n : h[i] = IF i = 1 THEN s[i] ELSE h[i - 1] \o s[i]
    BY <2>1 DEF Flattens
  <2> DEFINE S == {i \in 0..n : i = 0 \/ f[i] = h[i]}
  <2>3. 0 \in S
    BY <1>1
  <2>4. ASSUME NEW k \in 0..(n - 1), k \in S PROVE k + 1 \in S
    <3>1. k + 1 \in 1..n /\ k + 1 \in 1..n + 1 /\ (k + 1) - 1 = k /\ (k + 1 = 1 <=> k = 0)
      BY <1>1
    <3>2. u[k + 1] = s[k + 1]
      BY <1>1, <3>1
    <3>3. f[k + 1] = IF k = 0 THEN u[k + 1] ELSE f[k] \o u[k + 1]
      BY <1>3, <3>1
    <3>4. h[k + 1] = IF k = 0 THEN s[k + 1] ELSE h[k] \o s[k + 1]
      BY <2>2, <3>1
    <3>5. f[k + 1] = h[k + 1]
      BY <2>4, <3>2, <3>3, <3>4
    <3> QED BY <1>1, <3>1, <3>5
  <2>5. n \in S
    <3> HIDE DEF S
    <3>1. 0..n \subseteq S
      BY <1>1, <2>3, <2>4, Induct
    <3> QED BY <1>1, <3>1
  <2>6. f[n + 1] = f[n] \o u[n + 1]
    <3>1. n + 1 \in 1..n + 1 /\ (n + 1) - 1 = n /\ n + 1 # 1
      BY <1>1, <1>5
    <3> QED BY <1>3, <3>1
  <2>7. f[n] = h[n]
    BY <1>5, <2>5
  <2> QED BY <1>1, <1>2, <2>1, <2>6, <2>7 DEF u
<1> QED BY <1>4, <1>5

-----------------------------------------------------------------------------
\* Step by step: the map after n operations.
Plays(f, m, ops) ==
    f = [n \in 0..Len(ops) |-> IF n = 0 THEN m ELSE Applied(f[n - 1], ops[n])]

\* Such a function exists for any operations.
LEMMA PlayExists ==
    ASSUME NEW m, NEW ops \in Seq(Op)
    PROVE  \E f : Plays(f, m, ops)
<1> DEFINE N == Len(ops)
           P(f, k) == f = [n \in 0..k |-> IF n = 0 THEN m ELSE Applied(f[n - 1], ops[n])]
           S == {k \in 0..N : \E f : P(f, k)}
<1>0. N \in Nat
  OBVIOUS
<1>1. 0 \in S
  <2>1. P([n \in 0..0 |-> m], 0)
    OBVIOUS
  <2>2. 0 \in 0..N
    BY <1>0
  <2> QED BY <2>1, <2>2
<1>2. ASSUME NEW k \in 0..(N - 1), k \in S PROVE k + 1 \in S
  <2>1. PICK f : P(f, k)
    BY <1>2
  <2> DEFINE h == [n \in 0..k + 1 |-> IF n <= k THEN f[n] ELSE Applied(f[k], ops[n])]
  <2>2. \A n \in 0..k : f[n] = IF n = 0 THEN m ELSE Applied(f[n - 1], ops[n])
    BY <2>1
  <2>3. \A n \in 0..k + 1 : h[n] = IF n = 0 THEN m ELSE Applied(h[n - 1], ops[n])
    <3> TAKE n \in 0..k + 1
    <3>1. CASE n <= k
      <4>1. n = 0 \/ (n - 1 \in 0..k + 1 /\ n - 1 <= k)
        BY <3>1
      <4> QED BY <2>2, <3>1, <4>1
    <3>2. CASE n = k + 1
      <4>1. n # 0 /\ n - 1 = k /\ k \in 0..k + 1
        BY <3>2
      <4> QED BY <3>2, <4>1
    <3> QED BY <3>1, <3>2
  <2>4. P(h, k + 1)
    BY <2>3
  <2>5. k + 1 \in 0..N
    BY <1>0
  <2> QED BY <2>4, <2>5
<1>3. N \in S
  <2> HIDE DEF S, N
  <2>1. 0..N \subseteq S
    BY <1>0, <1>1, <1>2, Induct
  <2> QED BY <1>0, <2>1
<1> QED BY <1>3 DEF Plays

\* Play is the last value of such a function.
LEMMA PlayIs ==
    ASSUME NEW m, NEW ops \in Seq(Op)
    PROVE  \E f : Plays(f, m, ops) /\ Play(m, ops) = f[Len(ops)]
<1> DEFINE h == CHOOSE f : Plays(f, m, ops)
<1>1. Plays(h, m, ops)
  BY PlayExists
<1>2. Play(m, ops) = h[Len(ops)]
  BY DEF Play, Plays
<1> QED BY <1>1, <1>2

\* One operation more, at the end of two parts.
LEMMA JoinGrows ==
    ASSUME NEW T, NEW s \in Seq(T), NEW t \in Seq(T), NEW o \in T
    PROVE  s \o Append(t, o) = Append(s \o t, o)
<1>1. <<o>> \in Seq(T) /\ Append(t, o) = t \o <<o>> /\ s \o t \in Seq(T)
  BY AppendIsConcat, ConcatProperties
<1>2. s \o (t \o <<o>>) = (s \o t) \o <<o>>
  BY <1>1, ConcatAssociative
<1>3. (s \o t) \o <<o>> = Append(s \o t, o)
  BY <1>1, AppendIsConcat
<1> QED BY <1>1, <1>2, <1>3

\* A first part that is one longer.
LEMMA PartGrows ==
    ASSUME NEW T, NEW s \in Seq(T), NEW n \in 0..Len(s) - 1
    PROVE  /\ SubSeq(s, 1, n) \in Seq(T)
           /\ SubSeq(s, 1, n + 1) = Append(SubSeq(s, 1, n), s[n + 1])
<1>1. n + 1 \in Int /\ 1 \in Int /\ 1 <= n + 1 /\ (n + 1) - 1 = n /\ n \in Int
  OBVIOUS
<1>2. \A i \in 1..n + 1 : s[i] \in T
  OBVIOUS
<1>3. SubSeq(s, 1, n) \in Seq(T)
  BY <1>1, <1>2, SubSeqProperties
<1>4. SubSeq(s, 1, n + 1) \in Seq(T) /\ Len(SubSeq(s, 1, n + 1)) = n + 1
      /\ \A i \in 1..n + 1 : SubSeq(s, 1, n + 1)[i] = s[i]
  OBVIOUS
<1>5. /\ Append(SubSeq(s, 1, n), s[n + 1]) \in Seq(T)
      /\ Len(Append(SubSeq(s, 1, n), s[n + 1])) = n + 1
      /\ \A i \in 1..n + 1 : Append(SubSeq(s, 1, n), s[n + 1])[i] = s[i]
  OBVIOUS
<1>6. SubSeq(s, 1, n + 1) = Append(SubSeq(s, 1, n), s[n + 1])
  BY <1>4, <1>5, SeqEqual
<1> QED BY <1>3, <1>6

\* The last value of a key with one operation more.
LEMMA LastValueGrows ==
    ASSUME NEW s \in Seq(Op), NEW o \in Op, NEW k
    PROVE  LastValue(Append(s, o), k) = IF o.key = k THEN o.val ELSE LastValue(s, k)
<1> DEFINE u == Append(s, o)
           n == Len(s)
           Here(t) == {i \in 1..Len(t) : t[i].key = k}
<1>1. n \in Nat /\ Len(u) = n + 1 /\ u[n + 1] = o /\ \A i \in 1..n : u[i] = s[i]
  BY Appended
<1>2. \A t : LastValue(t, k) = IF Here(t) = {} THEN Absent ELSE t[LastLine(Here(t))].val
  BY DEF LastValue, LastLine
<1>3. Here(s) \in SUBSET (1..n)
  OBVIOUS
<1>4. CASE o.key = k
  <2>1. n + 1 \in Here(u) /\ Here(u) \in SUBSET Nat /\ \A i \in Here(u) : i <= n + 1
    BY <1>1, <1>4
  <2>2. LastLine(Here(u)) = n + 1
    <3> HIDE DEF Here
    <3> QED BY <2>1, LastLineIs
  <2> HIDE DEF Here, u
  <2>3. LastValue(u, k) = u[n + 1].val
    BY <1>2, <2>1, <2>2
  <2> QED BY <1>1, <1>4, <2>3 DEF u
<1>5. CASE o.key # k
  <2>1. \A i : i \in 1..n + 1 <=> i \in 1..n \/ i = n + 1
    BY <1>1
  <2>2. Here(u) = Here(s)
    <3> HIDE DEF u, n
    <3> QED BY <1>1, <1>5, <2>1 DEF n
  <2>3. Here(s) # {} => LastLine(Here(s)) \in 1..n
    <3> HIDE DEF Here, n
    <3> QED BY <1>1, <1>3, LastLineOf
  <2>4. Here(s) # {} => u[LastLine(Here(s))] = s[LastLine(Here(s))]
    BY <1>1, <2>3
  <2> HIDE DEF Here, u
  <2>5. LastValue(u, k) = LastValue(s, k)
    BY <1>2, <2>2, <2>4
  <2> QED BY <1>5, <2>5 DEF u
<1> QED BY <1>4, <1>5

\* What a database may hold.
Map == [Key -> Val \cup {Absent}]

\* Operations played on what some lines have left are those lines' and these.
LEMMA PlayLast ==
    ASSUME NEW m \in Map, NEW s \in Seq(Op), NEW ops \in Seq(Op), \A k \in Key : m[k] = LastValue(s, k)
    PROVE  Play(m, ops) \in Map /\ \A k \in Key : Play(m, ops)[k] = LastValue(s \o ops, k)
<1>1. PICK f : Plays(f, m, ops) /\ Play(m, ops) = f[Len(ops)]
  BY PlayIs
<1> DEFINE N == Len(ops)
           T(n) == s \o SubSeq(ops, 1, n)
           S == {n \in 0..N : f[n] \in Map /\ \A k \in Key : f[n][k] = LastValue(T(n), k)}
<1>2. N \in Nat /\ T(0) = s /\ T(N) = s \o ops
  <2>1. SubSeq(ops, 1, 0) = <<>> /\ SubSeq(ops, 1, N) = ops
    OBVIOUS
  <2> QED BY <2>1, ConcatEmptySeq
<1>3. \A n \in 0..N : f[n] = IF n = 0 THEN m ELSE Applied(f[n - 1], ops[n])
  BY <1>1 DEF Plays
<1>4. \A n \in 0..N - 1 : T(n) \in Seq(Op) /\ T(n + 1) = Append(T(n), ops[n + 1]) /\ ops[n + 1] \in Op
  <2> TAKE n \in 0..N - 1
  <2>1. /\ SubSeq(ops, 1, n) \in Seq(Op) /\ ops[n + 1] \in Op
        /\ SubSeq(ops, 1, n + 1) = Append(SubSeq(ops, 1, n), ops[n + 1])
    BY PartGrows
  <2> QED BY <2>1, JoinGrows, ConcatProperties
<1> HIDE DEF N, T
<1>5. 0 \in S
  BY <1>2, <1>3
<1>6. ASSUME NEW n \in 0..(N - 1), n \in S PROVE n + 1 \in S
  <2>1. n + 1 \in 0..N /\ n + 1 # 0 /\ (n + 1) - 1 = n
    BY <1>2
  <2>2. f[n + 1] = Applied(f[n], ops[n + 1])
    BY <1>3, <2>1
  <2>3. f[n] \in Map /\ \A k \in Key : f[n][k] = LastValue(T(n), k)
    BY <1>6
  <2>4. ops[n + 1].key \in Key /\ ops[n + 1].val \in Val \cup {Absent}
    BY <1>4 DEF Op
  <2>5. f[n + 1] \in Map
    BY <2>2, <2>3, <2>4 DEF Applied, Map
  <2>6. ASSUME NEW k \in Key PROVE f[n + 1][k] = LastValue(T(n + 1), k)
    <3>1. f[n + 1][k] = IF ops[n + 1].key = k THEN ops[n + 1].val ELSE f[n][k]
      BY <2>2, <2>3 DEF Applied, Map
    <3>2. LastValue(T(n + 1), k) = IF ops[n + 1].key = k THEN ops[n + 1].val ELSE LastValue(T(n), k)
      <4>1. T(n) \in Seq(Op) /\ ops[n + 1] \in Op /\ T(n + 1) = Append(T(n), ops[n + 1])
        BY <1>4
      <4>2. LastValue(Append(T(n), ops[n + 1]), k) = IF ops[n + 1].key = k THEN ops[n + 1].val ELSE LastValue(T(n), k)
        BY <4>1, LastValueGrows
      <4> QED BY <4>1, <4>2
    <3> QED BY <2>3, <3>1, <3>2
  <2> QED BY <2>1, <2>5, <2>6
<1>7. N \in S
  <2> HIDE DEF S
  <2>1. 0..N \subseteq S
    BY <1>2, <1>5, <1>6, Induct
  <2> QED BY <1>2, <2>1
<1> QED BY <1>1, <1>2, <1>7 DEF N

-----------------------------------------------------------------------------
\* The remainder is what is left beside a multiple.
LEMMA ModIs ==
    ASSUME NEW B \in Nat \ {0}, NEW w \in Nat, NEW r \in 0..B - 1
    PROVE  (w * B + r) % B = r
<1> DEFINE x == w * B + r
           q == x \div B
           m == x % B
<1>1. x \in Nat /\ w * B \in Nat
  OBVIOUS
<1> HIDE DEF x
<1>2. q \in Int /\ m \in 0..B - 1 /\ x = B * q + m
  BY <1>1
<1> HIDE DEF q, m
<1>3. (w - q) * B = m - r
  BY <1>1, <1>2 DEF x
<1>4. w - q \in Int /\ \A k \in Int : k >= 1 => k * B >= B /\ (0 - k) * B <= 0 - B
  BY <1>2
<1>5. w - q = 0
  BY <1>2, <1>3, <1>4
<1> QED BY <1>2, <1>3, <1>5 DEF x, m

\* The lines that n of the commits are, and that commits and batch share
\* the lines out.
CutAt(l, b, w, n) == IF n = Len(w) THEN Len(l) - Len(b) ELSE n * BATCH_SIZE
Parts(l, b, w) ==
    /\ \A n \in 0..Len(w) : /\ CutAt(l, b, w, n) \in 0..Len(l)
                            /\ FlattenSeq(SubSeq(w, 1, n)) = SubSeq(l, 1, CutAt(l, b, w, n))
    /\ l = SubSeq(l, 1, Len(l) - Len(b)) \o b

\* First parts are as before with one more behind.
LEMMA PartStays ==
    ASSUME NEW T, NEW s \in Seq(T), NEW t \in T, NEW n \in 0..Len(s)
    PROVE  SubSeq(Append(s, t), 1, n) = SubSeq(s, 1, n)
<1>1. /\ SubSeq(s, 1, n) \in Seq(T) /\ Len(SubSeq(s, 1, n)) = n
      /\ \A i \in 1..n : SubSeq(s, 1, n)[i] = s[i]
  OBVIOUS
<1>2. /\ SubSeq(Append(s, t), 1, n) \in Seq(T) /\ Len(SubSeq(Append(s, t), 1, n)) = n
      /\ \A i \in 1..n : SubSeq(Append(s, t), 1, n)[i] = s[i]
  OBVIOUS
<1> QED BY <1>1, <1>2, SeqEqual

\* The first part that is everything.
LEMMA AllOf == ASSUME NEW T, NEW s \in Seq(T) PROVE SubSeq(s, 1, Len(s)) = s
OBVIOUS

\* The one with nothing.
LEMMA NoneOf == ASSUME NEW s PROVE SubSeq(s, 1, 0) = <<>>
OBVIOUS

\* A first part is a sequence of its length.
LEMMA PartIs ==
    ASSUME NEW T, NEW s \in Seq(T), NEW n \in 0..Len(s)
    PROVE  SubSeq(s, 1, n) \in Seq(T) /\ Len(SubSeq(s, 1, n)) = n
OBVIOUS

\* A line more.
LEMMA PartsLine ==
    ASSUME NEW l \in Seq(Op), NEW b \in Seq(Op), NEW w \in Seq(Seq(Op)), NEW o \in Op, Parts(l, b, w)
    PROVE  Parts(Append(l, o), Append(b, o), w)
<1> DEFINE c == Len(l) - Len(b)
<1>1. /\ Len(l) \in Nat /\ Len(b) \in Nat /\ Len(w) \in Nat
      /\ Len(Append(l, o)) = Len(l) + 1 /\ Len(Append(b, o)) = Len(b) + 1
  OBVIOUS
<1>2. ASSUME NEW n \in 0..Len(w)
      PROVE  /\ CutAt(Append(l, o), Append(b, o), w, n) \in 0..Len(l) + 1
             /\ FlattenSeq(SubSeq(w, 1, n)) = SubSeq(Append(l, o), 1, CutAt(Append(l, o), Append(b, o), w, n))
  <2>1. CutAt(Append(l, o), Append(b, o), w, n) = CutAt(l, b, w, n)
    BY <1>1 DEF CutAt
  <2>2. CutAt(l, b, w, n) \in 0..Len(l) /\ FlattenSeq(SubSeq(w, 1, n)) = SubSeq(l, 1, CutAt(l, b, w, n))
    BY DEF Parts
  <2>3. SubSeq(Append(l, o), 1, CutAt(l, b, w, n)) = SubSeq(l, 1, CutAt(l, b, w, n))
    BY <2>2, PartStays
  <2> QED BY <1>1, <2>1, <2>2, <2>3
<1>3. c \in 0..Len(l) /\ l = SubSeq(l, 1, c) \o b
  BY <1>1 DEF Parts, CutAt
<1>4. SubSeq(Append(l, o), 1, c) = SubSeq(l, 1, c) /\ SubSeq(l, 1, c) \in Seq(Op)
  <2> HIDE DEF c
  <2> QED BY <1>3, PartStays, PartIs
<1>5. Append(l, o) = SubSeq(Append(l, o), 1, c) \o Append(b, o)
  <2> DEFINE p == SubSeq(l, 1, c)
  <2> HIDE DEF c, p
  <2>1. p \in Seq(Op) /\ l = p \o b /\ SubSeq(Append(l, o), 1, c) = p
    BY <1>3, <1>4 DEF p
  <2>2. p \o Append(b, o) = Append(p \o b, o)
    BY <2>1, JoinGrows
  <2> QED BY <2>1, <2>2
<1>6. Len(Append(l, o)) - Len(Append(b, o)) = c
  BY <1>1
<1> QED BY <1>1, <1>2, <1>5, <1>6 DEF Parts

\* A commit.
LEMMA PartsCommit ==
    ASSUME NEW l \in Seq(Op), NEW b \in Seq(Op), NEW w \in Seq(Seq(Op)), Parts(l, b, w),
           Len(l) - Len(b) = Len(w) * BATCH_SIZE
    PROVE  Parts(l, <<>>, Append(w, b))
<1> DEFINE u == Append(w, b)
           c == Len(l) - Len(b)
<1>1. /\ Len(l) \in Nat /\ Len(b) \in Nat /\ Len(w) \in Nat /\ u \in Seq(Seq(Op))
      /\ Len(u) = Len(w) + 1 /\ Len(<<>>) = 0
  OBVIOUS
<1>2. ASSUME NEW n \in 0..Len(w)
      PROVE  /\ CutAt(l, <<>>, u, n) \in 0..Len(l)
             /\ FlattenSeq(SubSeq(u, 1, n)) = SubSeq(l, 1, CutAt(l, <<>>, u, n))
  <2>1. CutAt(l, <<>>, u, n) = CutAt(l, b, w, n)
    BY <1>1 DEF CutAt
  <2>2. SubSeq(u, 1, n) = SubSeq(w, 1, n)
    BY PartStays
  <2> QED BY <2>1, <2>2 DEF Parts
<1>3. c \in 0..Len(l) /\ l = SubSeq(l, 1, c) \o b /\ FlattenSeq(SubSeq(w, 1, Len(w))) = SubSeq(l, 1, c)
  BY <1>1 DEF Parts, CutAt
<1>4. FlattenSeq(w) = SubSeq(l, 1, c) /\ SubSeq(l, 1, c) \in Seq(Op)
  <2> HIDE DEF c
  <2> QED BY <1>3, AllOf, PartIs
<1>5. FlattenSeq(u) = l
  BY <1>3, <1>4, FlattenGrows
<1>6. SubSeq(u, 1, Len(u)) = u /\ SubSeq(l, 1, Len(l)) = l
  <2> HIDE DEF u
  <2> QED BY <1>1, AllOf
<1> HIDE DEF u
<1>7. CutAt(l, <<>>, u, Len(u)) = Len(l)
  BY <1>1 DEF CutAt
<1>8. \A n \in 0..Len(u) : n \in 0..Len(w) \/ n = Len(u)
  BY <1>1
<1>9. l = SubSeq(l, 1, Len(l) - Len(<<>>)) \o <<>>
  <2>1. Len(l) - Len(<<>>) = Len(l)
    BY <1>1
  <2> QED BY <1>6, <2>1, ConcatEmptySeq
<1>10. \A n \in 0..Len(u) : /\ CutAt(l, <<>>, u, n) \in 0..Len(l)
                            /\ FlattenSeq(SubSeq(u, 1, n)) = SubSeq(l, 1, CutAt(l, <<>>, u, n))
  <2>1. ASSUME NEW n \in 0..Len(u), n = Len(u)
        PROVE  /\ CutAt(l, <<>>, u, n) \in 0..Len(l)
               /\ FlattenSeq(SubSeq(u, 1, n)) = SubSeq(l, 1, CutAt(l, <<>>, u, n))
    <3>1. CutAt(l, <<>>, u, n) = Len(l) /\ FlattenSeq(SubSeq(u, 1, n)) = l
      BY <1>5, <1>6, <1>7, <2>1
    <3> QED BY <1>1, <1>6, <3>1
  <2> QED BY <1>2, <1>8, <2>1
<1> QED BY <1>9, <1>10 DEF Parts, u

-----------------------------------------------------------------------------
PebTyped ==
    /\ pebCmd \in Commands /\ pebPc \in {"scan", "finished", "ended"}
    /\ disk \in Map /\ kept \in Seq(Op)
    /\ lines \in Seq(Op) /\ batch \in Seq(Op) /\ wal \in Seq(Seq(Op))

\* While index reads, every commit is of BATCH_SIZE lines.
FullBatches ==
    pebCmd = "index" /\ pebPc = "scan" =>
        /\ Len(lines) - Len(batch) = Len(wal) * BATCH_SIZE
        /\ \A n \in 1..Len(wal) : Len(wal[n]) = BATCH_SIZE

PebInv == PebTyped /\ Parts(lines, batch, wal) /\ FullBatches /\ LinesKept

\* What has been read is the commits and the open batch.
LEMMA PartsSay ==
    ASSUME NEW l \in Seq(Op), NEW b \in Seq(Op), NEW w \in Seq(Seq(Op)), Parts(l, b, w)
    PROVE  FlattenSeq(w) \o b = l
<1>1. FlattenSeq(SubSeq(w, 1, Len(w))) = SubSeq(l, 1, Len(l) - Len(b))
  BY DEF Parts, CutAt
<1> QED BY <1>1, AllOf DEF Parts

\* Nothing is shared out at the beginning of a run.
LEMMA NoParts == Parts(<<>>, <<>>, <<>>)
<1>1. Len(<<>>) = 0 /\ Len(<<>>) - Len(<<>>) = 0 /\ <<>> \in Seq(Op)
  OBVIOUS
<1>2. FlattenSeq(<<>>) = <<>>
  BY DEF FlattenSeq
<1>3. <<>> \o <<>> = <<>>
  BY ConcatEmptySeq
<1>4. \A n \in 0..0 : CutAt(<<>>, <<>>, <<>>, n) = 0 /\ SubSeq(<<>>, 1, n) = <<>>
  BY <1>1, NoneOf DEF CutAt
<1>5. \A n \in 0..0 : CutAt(<<>>, <<>>, <<>>, n) \in 0..0
  BY <1>4
<1>6. \A n \in 0..0 : FlattenSeq(SubSeq(<<>>, 1, n)) = SubSeq(<<>>, 1, CutAt(<<>>, <<>>, <<>>, n))
  <2>1. SubSeq(<<>>, 1, 0) = <<>>
    BY NoneOf
  <2> QED BY <1>2, <1>4, <2>1
<1>7. <<>> = SubSeq(<<>>, 1, Len(<<>>) - Len(<<>>)) \o <<>>
  BY <1>1, <1>3, NoneOf
<1> QED BY <1>1, <1>5, <1>6, <1>7 DEF Parts

\* A line that index puts into the open batch, or with which it commits it.
LEMMA IndexKeeps == ASSUME PebInv, IndexLine PROVE PebInv'
<1>1. PICK o \in Op : NextLine(o) /\ Set(o)
  BY DEF IndexLine, Op
<1>2. PebTyped /\ Parts(lines, batch, wal) /\ FullBatches /\ NothingDropped /\ DiskIsLines
  BY DEF PebInv, LinesKept
<1>3. /\ pebCmd = "index" /\ pebPc = "scan" /\ pebCmd' = pebCmd /\ pebPc' = pebPc
      /\ disk' = disk /\ kept' = kept /\ lines' = Append(lines, o)
  BY <1>1 DEF IndexLine, Reading, NextLine
<1>4. /\ lines \in Seq(Op) /\ batch \in Seq(Op) /\ wal \in Seq(Seq(Op))
      /\ Append(lines, o) \in Seq(Op) /\ Append(batch, o) \in Seq(Op)
      /\ Len(Append(batch, o)) = Len(batch) + 1 /\ Len(Append(lines, o)) = Len(lines) + 1
      /\ Append(batch, o) # <<>> /\ Len(wal) \in Nat /\ Len(batch) \in Nat /\ Len(lines) \in Nat
  <2>1. lines \in Seq(Op) /\ batch \in Seq(Op) /\ wal \in Seq(Seq(Op))
    BY <1>2 DEF PebTyped
  <2>2. Len(wal) \in Nat /\ Len(batch) \in Nat /\ Len(lines) \in Nat
    BY <2>1
  <2>3. /\ Append(lines, o) \in Seq(Op) /\ Append(batch, o) \in Seq(Op)
        /\ Len(Append(batch, o)) = Len(batch) + 1 /\ Len(Append(lines, o)) = Len(lines) + 1
    BY <2>1, Appended
  <2>4. Append(batch, o) # <<>>
    BY <2>2, <2>3
  <2> QED BY <2>1, <2>2, <2>3, <2>4
<1>5. Parts(Append(lines, o), Append(batch, o), wal)
  BY <1>2, <1>4, PartsLine
<1>6. /\ Len(lines) - Len(batch) = Len(wal) * BATCH_SIZE
      /\ \A n \in 1..Len(wal) : Len(wal[n]) = BATCH_SIZE
      /\ Len(batch) < BATCH_SIZE /\ BATCH_SIZE \in Nat \ {0}
  BY <1>2, <1>3, PebbleAssumption DEF FullBatches, NothingDropped
<1>7. DiskIsLines'
  BY <1>2, <1>3 DEF DiskIsLines
<1>8. CASE (Len(lines) + 1) % BATCH_SIZE = 0
  <2>1. batch' = <<>> /\ wal' = Append(wal, Append(batch, o))
    BY <1>1, <1>4, <1>8 DEF Set, Commit
  <2>2. Len(batch) + 1 = BATCH_SIZE
    <3>1. Len(lines) + 1 = Len(wal) * BATCH_SIZE + (Len(batch) + 1)
      <4>1. Len(wal) * BATCH_SIZE \in Int
        BY <1>4, <1>6
      <4> QED BY <1>4, <1>6, <4>1
    <3>2. SUFFICES ASSUME Len(batch) + 1 \in 0..BATCH_SIZE - 1 PROVE FALSE
      BY <1>4, <1>6
    <3>3. (Len(wal) * BATCH_SIZE + (Len(batch) + 1)) % BATCH_SIZE = Len(batch) + 1
      BY <1>4, <1>6, <3>2, ModIs
    <3> QED BY <1>4, <1>8, <3>1, <3>3
  <2>3. /\ wal' \in Seq(Seq(Op)) /\ Len(wal') = Len(wal) + 1 /\ wal'[Len(wal) + 1] = Append(batch, o)
        /\ \A n \in 1..Len(wal) : wal'[n] = wal[n]
    BY <1>4, <2>1, Appended
  <2>4. Parts(lines', batch', wal')
    <3>1. Len(Append(lines, o)) - Len(Append(batch, o)) = Len(wal) * BATCH_SIZE
      BY <1>4, <1>6
    <3> QED BY <1>3, <1>4, <1>5, <2>1, <3>1, PartsCommit
  <2>5. \A n \in 1..Len(wal') : Len(wal'[n]) = BATCH_SIZE
    <3>1. \A n \in 1..Len(wal') : n \in 1..Len(wal) \/ n = Len(wal) + 1
      BY <1>4, <2>3
    <3>2. Len(wal'[Len(wal) + 1]) = BATCH_SIZE
      BY <1>4, <2>2, <2>3
    <3> QED BY <1>6, <2>3, <3>1, <3>2
  <2>6. Len(lines') - Len(batch') = Len(wal') * BATCH_SIZE
    <3>1. (Len(wal) + 1) * BATCH_SIZE = Len(wal) * BATCH_SIZE + BATCH_SIZE
      BY <1>4, <1>6
    <3>2. Len(lines') = Len(lines) + 1 /\ Len(batch') = 0
      BY <1>3, <1>4, <2>1
    <3>3. Len(wal) * BATCH_SIZE \in Int
      BY <1>4, <1>6
    <3>4. Len(lines) + 1 - 0 = Len(wal) * BATCH_SIZE + BATCH_SIZE
      <4> DEFINE p == Len(wal) * BATCH_SIZE
      <4>1. p \in Int /\ Len(lines) - Len(batch) = p
        BY <1>6, <3>3
      <4> HIDE DEF p
      <4>2. Len(lines) + 1 - 0 = p + BATCH_SIZE
        BY <1>4, <1>6, <2>2, <4>1
      <4> QED BY <4>2 DEF p
    <3> QED BY <2>3, <3>1, <3>2, <3>4
  <2>7. FlattenSeq(wal') \o batch' = lines'
    <3>1. lines' \in Seq(Op) /\ batch' \in Seq(Op)
      BY <1>3, <1>4, <2>1
    <3> QED BY <2>3, <2>4, <3>1, PartsSay
  <2>8. NothingDropped'
    <3>1. Len(batch') < BATCH_SIZE
      BY <1>6, <2>1
    <3>2. \A n \in 1..Len(wal') - 1 : n \in 1..Len(wal')
      BY <1>4, <2>3
    <3> QED BY <1>3, <2>1, <2>5, <2>7, <3>1, <3>2 DEF NothingDropped
  <2>9. PebTyped'
    BY <1>2, <1>3, <1>4, <2>1, <2>3 DEF PebTyped
  <2> QED BY <1>7, <2>4, <2>5, <2>6, <2>8, <2>9 DEF PebInv, FullBatches, LinesKept
<1>9. CASE (Len(lines) + 1) % BATCH_SIZE # 0
  <2>1. batch' = Append(batch, o) /\ wal' = wal
    BY <1>1, <1>9 DEF Set
  <2>2. Len(batch) + 1 < BATCH_SIZE
    <3>1. SUFFICES ASSUME Len(batch) + 1 = BATCH_SIZE PROVE FALSE
      BY <1>4, <1>6
    <3>2. ((Len(wal) + 1) * BATCH_SIZE + 0) % BATCH_SIZE = 0
      <4>1. Len(wal) + 1 \in Nat /\ 0 \in 0..BATCH_SIZE - 1
        BY <1>4, <1>6
      <4> QED BY <1>6, <4>1, ModIs
    <3>3. (Len(wal) + 1) * BATCH_SIZE = Len(wal) * BATCH_SIZE + BATCH_SIZE /\ Len(wal) * BATCH_SIZE \in Int
      BY <1>4, <1>6
    <3>4. Len(lines) + 1 = (Len(wal) + 1) * BATCH_SIZE + 0
      <4> DEFINE p == Len(wal) * BATCH_SIZE
                 r == (Len(wal) + 1) * BATCH_SIZE
      <4>1. p \in Int /\ Len(lines) - Len(batch) = p /\ r = p + BATCH_SIZE
        BY <1>6, <3>3
      <4> HIDE DEF p, r
      <4>2. Len(lines) + 1 = r + 0
        BY <1>4, <1>6, <3>1, <4>1
      <4> QED BY <4>2 DEF r
    <3> QED BY <1>9, <3>2, <3>4
  <2>3. Parts(lines', batch', wal')
    BY <1>3, <1>5, <2>1
  <2>4. FlattenSeq(wal') \o batch' = lines'
    BY <1>3, <1>4, <2>1, <2>3, PartsSay
  <2>5. NothingDropped'
    BY <1>2, <1>3, <1>4, <2>1, <2>2, <2>4 DEF NothingDropped
  <2>6. FullBatches'
    <3>1. Len(lines') - Len(batch') = Len(lines) - Len(batch)
      BY <1>3, <1>4, <2>1
    <3> QED BY <1>6, <2>1, <3>1 DEF FullBatches
  <2>7. PebTyped'
    BY <1>2, <1>3, <1>4, <2>1 DEF PebTyped
  <2> QED BY <1>7, <2>3, <2>5, <2>6, <2>7 DEF PebInv, LinesKept
<1> QED BY <1>8, <1>9

\* The input's end: what is left is committed.
LEMMA FinishKeeps == ASSUME PebInv, Finish PROVE PebInv'
<1>1. PebTyped /\ Parts(lines, batch, wal) /\ FullBatches /\ NothingDropped /\ DiskIsLines
  BY DEF PebInv, LinesKept
<1>2. /\ pebPc = "scan" /\ pebPc' = "finished" /\ Rest /\ pebCmd' = pebCmd
      /\ disk' = disk /\ lines' = lines /\ kept' = kept
  BY DEF Finish
<1>3. lines \in Seq(Op) /\ batch \in Seq(Op) /\ wal \in Seq(Seq(Op)) /\ Len(wal) \in Nat
  BY <1>1 DEF PebTyped
<1>4. DiskIsLines' /\ FullBatches'
  BY <1>1, <1>2 DEF DiskIsLines, FullBatches
<1>5. CASE pebCmd # "index"
  <2>1. wal' = wal /\ batch' = batch
    BY <1>2, <1>5 DEF Rest
  <2>2. NothingDropped'
    BY <1>2, <1>5 DEF NothingDropped
  <2> QED BY <1>1, <1>2, <1>4, <2>1, <2>2 DEF PebInv, LinesKept, PebTyped
<1>6. CASE pebCmd = "index"
  <2>1. batch' = <<>> /\ wal' = IF batch = <<>> THEN wal ELSE Append(wal, batch)
    BY <1>2, <1>6 DEF Rest, Commit
  <2>2. /\ Len(lines) - Len(batch) = Len(wal) * BATCH_SIZE
        /\ \A n \in 1..Len(wal) : Len(wal[n]) = BATCH_SIZE
    BY <1>1, <1>2, <1>6 DEF FullBatches
  <2>3. Parts(lines', batch', wal')
    BY <1>1, <1>2, <1>3, <2>1, <2>2, PartsCommit
  <2>4. wal' \in Seq(Seq(Op)) /\ \A n \in 1..Len(wal') - 1 : Len(wal'[n]) = BATCH_SIZE
    <3>1. CASE batch = <<>>
      <4>1. wal' = wal /\ \A n \in 1..Len(wal) - 1 : n \in 1..Len(wal)
        BY <1>3, <2>1, <3>1
      <4> QED BY <1>3, <2>2, <4>1
    <3>2. CASE batch # <<>>
      <4>1. /\ wal' \in Seq(Seq(Op)) /\ Len(wal') = Len(wal) + 1
            /\ \A n \in 1..Len(wal) : wal'[n] = wal[n]
        BY <1>3, <2>1, <3>2, Appended
      <4>2. Len(wal') - 1 = Len(wal)
        BY <1>3, <4>1
      <4> QED BY <2>2, <4>1, <4>2
    <3> QED BY <3>1, <3>2
  <2>5. lines' \in Seq(Op) /\ batch' \in Seq(Op)
    BY <1>2, <1>3, <2>1
  <2>6. FlattenSeq(wal') \o batch' = lines'
    BY <2>3, <2>4, <2>5, PartsSay
  <2>7. Len(batch') < BATCH_SIZE
    BY <2>1, PebbleAssumption
  <2>8. NothingDropped'
    BY <2>1, <2>4, <2>6, <2>7 DEF NothingDropped
  <2>9. PebTyped'
    BY <1>1, <1>2, <2>4, <2>5 DEF PebTyped
  <2> QED BY <1>4, <2>3, <2>8, <2>9 DEF PebInv, LinesKept
<1> QED BY <1>5, <1>6

\* The end of the process: the oldest commits are on disk.
LEMMA GoneKeeps == ASSUME PebInv, Gone PROVE PebInv'
<1>1. PebTyped /\ Parts(lines, batch, wal) /\ FullBatches /\ NothingDropped /\ DiskIsLines
  BY DEF PebInv, LinesKept
<1>2. /\ pebPc' = "ended" /\ pebCmd' = pebCmd /\ lines' = lines /\ batch' = batch /\ wal' = wal
  BY DEF Gone
<1>3. PICK n \in 0..Len(wal) :
         /\ disk' = Replay(disk, KeepOldest(n))
         /\ kept' = IF n = Len(wal) THEN kept \o SubSeq(lines, 1, Len(lines) - Len(batch))
                    ELSE kept \o SubSeq(lines, 1, n * BATCH_SIZE)
  BY DEF Gone
<1> DEFINE part == SubSeq(lines, 1, CutAt(lines, batch, wal, n))
<1>4. kept' = kept \o part
  BY <1>3 DEF CutAt
<1>5. FlattenSeq(SubSeq(wal, 1, n)) = part /\ part \in Seq(Op)
  <2>1. lines \in Seq(Op)
    BY <1>1 DEF PebTyped
  <2>2. CutAt(lines, batch, wal, n) \in 0..Len(lines) /\ FlattenSeq(SubSeq(wal, 1, n)) = part
    BY <1>1 DEF Parts
  <2> QED BY <2>1, <2>2, PartIs
<1>6. disk' = Play(disk, part)
  BY <1>3, <1>5 DEF Replay, KeepOldest
<1> HIDE DEF part
<1>7. disk \in Map /\ kept \in Seq(Op) /\ \A k \in Key : disk[k] = LastValue(kept, k)
  BY <1>1 DEF PebTyped, DiskIsLines
<1>8. disk' \in Map /\ \A k \in Key : disk'[k] = LastValue(kept \o part, k)
  BY <1>5, <1>6, <1>7, PlayLast
<1>9. kept' \in Seq(Op)
  BY <1>4, <1>5, <1>7, ConcatProperties
<1>10. DiskIsLines'
  BY <1>4, <1>8 DEF DiskIsLines
<1>11. NothingDropped'
  BY <1>1, <1>2 DEF NothingDropped
<1>12. PebTyped'
  BY <1>1, <1>2, <1>8, <1>9 DEF PebTyped
<1> QED BY <1>1, <1>2, <1>10, <1>11, <1>12 DEF PebInv, LinesKept, FullBatches

\* A run begins.
LEMMA RunKeeps == ASSUME PebInv, RunPebble PROVE PebInv'
<1>1. PebTyped /\ DiskIsLines
  BY DEF PebInv, LinesKept
<1>2. /\ pebCmd' \in Commands /\ pebPc' = "scan" /\ lines' = <<>> /\ batch' = <<>> /\ wal' = <<>>
      /\ disk' = disk /\ kept' = kept
  BY DEF RunPebble, Open
<1>3. DiskIsLines'
  BY <1>1, <1>2 DEF DiskIsLines
<1>4. Parts(lines', batch', wal')
  BY <1>2, NoParts
<1>5. FlattenSeq(wal') \o batch' = lines'
  <2>1. lines' \in Seq(Op) /\ batch' \in Seq(Op) /\ wal' \in Seq(Seq(Op))
    BY <1>2
  <2> QED BY <1>4, <2>1, PartsSay
<1>6. Len(<<>>) = 0 /\ 1..0 = {} /\ 1..(0 - 1) = {} /\ 0 - 0 = 0 * BATCH_SIZE /\ 0 < BATCH_SIZE
  BY PebbleAssumption
<1>7. NothingDropped' /\ FullBatches'
  BY <1>2, <1>5, <1>6 DEF NothingDropped, FullBatches
<1>8. PebTyped'
  BY <1>1, <1>2 DEF PebTyped
<1> QED BY <1>3, <1>4, <1>7, <1>8 DEF PebInv, LinesKept

\* remove, query and dump.
LEMMA OthersKeep == ASSUME PebInv, RemoveLine \/ Query \/ Dump PROVE PebInv'
<1>1. PebTyped /\ Parts(lines, batch, wal) /\ DiskIsLines
  BY DEF PebInv, LinesKept
<1>2. /\ pebCmd # "index" /\ pebCmd' = pebCmd /\ pebPc' = pebPc
      /\ disk' = disk /\ kept' = kept /\ wal' = wal
  BY DEF RemoveLine, Query, Dump, Reading
<1>3. DiskIsLines' /\ NothingDropped' /\ FullBatches'
  BY <1>1, <1>2 DEF DiskIsLines, NothingDropped, FullBatches
<1>4. CASE RemoveLine
  <2>1. PICK k \in Key : /\ lines' = Append(lines, [key |-> k, val |-> Absent])
                         /\ batch' = Append(batch, [key |-> k, val |-> Absent])
    BY <1>4 DEF RemoveLine, NextLine
  <2>2. [key |-> k, val |-> Absent] \in Op
    BY DEF Op
  <2>3. lines \in Seq(Op) /\ batch \in Seq(Op) /\ wal \in Seq(Seq(Op))
    BY <1>1 DEF PebTyped
  <2>4. Parts(lines', batch', wal')
    BY <1>1, <1>2, <2>1, <2>2, <2>3, PartsLine
  <2>5. lines' \in Seq(Op) /\ batch' \in Seq(Op)
    BY <2>1, <2>2, <2>3, Appended
  <2>6. PebTyped'
    BY <1>1, <1>2, <2>5 DEF PebTyped
  <2> QED BY <1>3, <2>4, <2>6 DEF PebInv, LinesKept
<1>5. CASE Query \/ Dump
  <2>1. lines' = lines /\ batch' = batch
    BY <1>5 DEF Query, Dump
  <2> QED BY <1>1, <1>2, <1>3, <2>1 DEF PebInv, LinesKept, PebTyped
<1> QED BY <1>4, <1>5

\* Commits and open batch share out the lines read, at multiples of
\* BATCH_SIZE, and the disk is what the kept lines leave.
THEOREM PebInvHolds == PebSpec => []PebInv
<1>1. PebInit => PebInv
  <2>1. SUFFICES ASSUME PebInit PROVE PebInv
    OBVIOUS
  <2>2. /\ pebCmd = "dump" /\ pebPc = "ended" /\ disk = Nowhere
        /\ lines = <<>> /\ batch = <<>> /\ wal = <<>> /\ kept = <<>>
    BY <2>1 DEF PebInit
  <2>3. disk \in Map /\ \A k \in Key : disk[k] = Absent
    BY <2>2 DEF Nowhere, Map
  <2>4. \A k : LastValue(<<>>, k) = Absent
    <3>1. 1..Len(<<>>) = {}
      OBVIOUS
    <3> QED BY <3>1 DEF LastValue
  <2>5. DiskIsLines
    BY <2>2, <2>3, <2>4 DEF DiskIsLines
  <2>6. NothingDropped /\ FullBatches
    BY <2>2 DEF NothingDropped, FullBatches
  <2>7. Parts(lines, batch, wal)
    BY <2>2, NoParts
  <2>8. PebTyped
    BY <2>2, <2>3 DEF PebTyped, Commands
  <2> QED BY <2>5, <2>6, <2>7, <2>8 DEF PebInv, LinesKept
<1>2. PebInv /\ [PebNext]_pebVars => PebInv'
  <2>1. SUFFICES ASSUME PebInv, [PebNext]_pebVars PROVE PebInv'
    OBVIOUS
  <2>2. CASE RunPebble
    BY <2>1, <2>2, RunKeeps
  <2>3. CASE IndexLine
    BY <2>1, <2>3, IndexKeeps
  <2>4. CASE RemoveLine \/ Query \/ Dump
    BY <2>1, <2>4, OthersKeep
  <2>5. CASE Finish
    BY <2>1, <2>5, FinishKeeps
  <2>6. CASE Gone
    BY <2>1, <2>6, GoneKeeps
  <2>7. CASE UNCHANGED pebVars
    <3>1. /\ pebCmd' = pebCmd /\ pebPc' = pebPc /\ disk' = disk /\ lines' = lines
          /\ batch' = batch /\ wal' = wal /\ kept' = kept
      BY <2>7 DEF pebVars
    <3>2. DiskIsLines' /\ NothingDropped' /\ FullBatches' /\ PebTyped'
      BY <2>1, <3>1 DEF PebInv, LinesKept, DiskIsLines, NothingDropped, FullBatches, PebTyped
    <3> QED BY <2>1, <3>1, <3>2 DEF PebInv, LinesKept
  <2> QED BY <2>1, <2>2, <2>3, <2>4, <2>5, <2>6, <2>7 DEF PebNext
<1> QED BY <1>1, <1>2, PTL DEF PebSpec

\* For any keys, values, batch size and number of runs and kills: nothing
\* that index read is left out of its batches, and each key on disk has the
\* value of its last line among those kept.
THEOREM LinesKeptHolds == PebSpec => []LinesKept
<1>1. PebInv => LinesKept
  BY DEF PebInv
<1> QED BY <1>1, PebInvHolds, PTL

-----------------------------------------------------------------------------
(* The types of all seven, as the run that they share checks them. *)

\* Of redlineparser's readers beside what RpInv says: lines are of the
\* reader's kinds, and a file at work is one of the directory.
RpRest ==
    /\ text \in Seq(Fields(reader) \cup Others(reader)) /\ table \in Nat
    /\ files \in 0..RpMaxFiles
    /\ rpPc \in {"scan", "file"} => files < RpMaxFiles

\* A line keeps it.
LEMMA RpLineKeeps ==
    ASSUME RpRest, NEW t \in Fields(reader) \cup Others(reader), Line(t)
    PROVE  RpRest'
<1>1. /\ rpPc = "scan" /\ reader' = reader /\ files' = files /\ table' = table
      /\ text' = Append(text, t)
  BY DEF Line
<1>2. text' \in Seq(Fields(reader) \cup Others(reader))
  <2>1. text \in Seq(Fields(reader) \cup Others(reader))
    BY DEF RpRest
  <2> QED BY <1>1, <2>1, Appended
<1> QED BY <1>1, <1>2 DEF RpRest

\* Every step keeps it.
LEMMA RpRestKeeps == ASSUME RpInv, RpRest, [RpNext]_rpVars PROVE RpRest'
<1>1. reader \in Names6
  BY DEF RpInv, RpTyped
<1>2. /\ Others(reader) \subseteq {"none", "other", "long", "===", "", "no space"}
      /\ "other" \in Others(reader)
      /\ reader = "autofills" => "" \in Others(reader)
      /\ reader \in {"passwords", "processes"} => "===" \in Others(reader) /\ "" \in Others(reader)
      /\ reader = "installed_software" => "no space" \in Others(reader)
  BY <1>1 DEF Names6, Others
<1>3. CASE FieldLine
  <2>1. \E t \in Fields(reader) \cup Others(reader) : Line(t)
    BY <1>3 DEF FieldLine
  <2> QED BY <2>1, RpLineKeeps
<1>4. CASE CloseLine
  <2>1. \E t \in Fields(reader) \cup Others(reader) : Line(t)
    BY <1>2, <1>4 DEF CloseLine, Blocks
  <2> QED BY <2>1, RpLineKeeps
<1>5. CASE RowLine
  <2>1. "line" \in Fields(reader)
    BY <1>5 DEF RowLine, Single, Fields
  <2> QED BY <1>5, <2>1, RpLineKeeps DEF RowLine
<1>6. CASE SkippedLine
  <2>1. \E t \in Fields(reader) \cup Others(reader) : Line(t)
    BY <1>2, <1>6 DEF SkippedLine, Blocks
  <2> QED BY <2>1, RpLineKeeps
<1>7. CASE NoSpace \/ TooLong
  <2>1. \E t \in Fields(reader) \cup Others(reader) : Line(t)
    BY <1>2, <1>7 DEF NoSpace, TooLong
  <2> QED BY <2>1, RpLineKeeps
<1>8. CASE EndOfFile
  BY <1>8 DEF EndOfFile, RpRest
<1>9. CASE NextFile
  <2>1. /\ text' = <<>> /\ reader' = reader /\ files' = files + 1 /\ table' = table + Len(fresh)
        /\ rpPc = "file" /\ rpPc' \in (IF files' < RpMaxFiles THEN {"scan"} ELSE {"end"})
    BY <1>9 DEF NextFile
  <2>2. Len(fresh) \in Nat
    BY DEF RpInv, RpTyped
  <2>3. files + 1 \in 0..RpMaxFiles
    BY <2>1, ParseAssumption DEF RpRest
  <2> QED BY <2>1, <2>2, <2>3 DEF RpRest
<1>10. CASE NextReader
  BY <1>10, ParseAssumption DEF NextReader, RpRest
<1>11. CASE UNCHANGED rpVars
  BY <1>11 DEF rpVars, RpRest
<1> QED BY <1>3, <1>4, <1>5, <1>6, <1>7, <1>8, <1>9, <1>10, <1>11 DEF RpNext

\* Redlineparser's readers keep their types.
THEOREM RpTypesHold == RpSpec => []RpTypeOK
<1>1. RpInit => RpRest
  BY ParseAssumption DEF RpInit, RpRest
<1>2. RpInv /\ RpRest /\ [RpNext]_rpVars => RpRest'
  BY RpRestKeeps
<1>3. RpInv /\ RpRest => RpTypeOK
  <2>1. Names6 = Readers
    BY DEF Names6, Readers, Order, Range
  <2> QED BY <2>1 DEF RpInv, RpTyped, RpRest, RpTypeOK, RowOf
<1> QED BY <1>1, <1>2, <1>3, RpInvHolds, PTL DEF RpSpec

-----------------------------------------------------------------------------
\* The numbers of the indices' goroutines: main has taken no more answers
\* than the list has, and blames indices.
DumpRest == got \in 0..Len(indexList) /\ blamed \subseteq Index

\* elasticdump keeps its types.
THEOREM DumpTypesHold == DumpSpec => []DumpTypeOK
<1>1. DumpInit => DumpRest
  BY DEF DumpInit, DumpRest
<1>2. ToldInv /\ DumpRest /\ [DumpNext]_dumpVars => DumpRest'
  <2> SUFFICES ASSUME ToldInv, DumpRest, [DumpNext]_dumpVars PROVE DumpRest'
    OBVIOUS
  <2>1. indexList \in Seq(Index) /\ offered \in Seq(Index) /\ Len(indexList) \in Nat
    BY DEF ToldInv, ListInv
  <2>2. CASE LookAt
    <3>1. offered # <<>> /\ got' = got /\ blamed' = blamed
          /\ indexList' = IF Head(offered) \in Wanted THEN Append(indexList, Head(offered)) ELSE indexList
      BY <2>2 DEF LookAt
    <3>2. Len(indexList') >= Len(indexList) /\ Len(indexList') \in Nat
      BY <2>1, <3>1
    <3> QED BY <2>1, <3>1, <3>2 DEF DumpRest
  <2>3. ASSUME NEW i \in Index, Done(i) PROVE DumpRest'
    <3>1. got < Len(indexList) /\ got' = got + 1 /\ indexList' = indexList
          /\ blamed' = IF okay[i] THEN blamed ELSE blamed \cup {indexList[got + 1]}
      BY <2>3 DEF Done
    <3>2. got + 1 \in 1..Len(indexList)
      BY <2>1, <3>1 DEF DumpRest
    <3>3. indexList[got + 1] \in Index
      BY <2>1, <3>2
    <3> QED BY <3>1, <3>2, <3>3 DEF DumpRest
  <2>4. ASSUME NEW i \in Index, Search(i) \/ Create(i) \/ Page(i) \/ Scroll(i) \/ Crash(i)
        PROVE  DumpRest'
    BY <2>4 DEF Search, Create, Page, Scroll, Crash, DumpRest
  <2>5. CASE GetIndexList \/ StartAll \/ Exit \/ UNCHANGED dumpVars
    BY <2>5 DEF GetIndexList, StartAll, Exit, dumpVars, DumpRest
  <2> QED BY <2>2, <2>3, <2>4, <2>5 DEF DumpNext
<1>3. ToldInv /\ DumpRest => DumpTypeOK
  BY DEF ToldInv, ToldTyped, Typed, ListInv, DumpRest, DumpTypeOK, State
<1> QED BY <1>1, <1>2, <1>3, ToldInvHolds, PTL DEF DumpSpec

-----------------------------------------------------------------------------
\* The keys of some lines are finitely many.
LEMMA KeysFinite ==
    ASSUME NEW s \in Seq(Op)
    PROVE  IsFiniteSet({s[i].key : i \in 1..Len(s)})
<1> DEFINE N == Len(s)
           T == {s[i].key : i \in 1..N}
           f == [i \in 1..N |-> s[i].key]
<1>1. N \in Nat
  OBVIOUS
<1>2. IsFiniteSet(1..N)
  BY <1>1, FS_Interval
<1>3. f \in Surjection(1..N, T)
  BY DEF Surjection
<1> QED BY <1>2, <1>3, FS_Surjection

\* What the commits hold are lines.
LEMMA WalHolds ==
    ASSUME NEW l \in Seq(Op), NEW b \in Seq(Op), NEW w \in Seq(Seq(Op)), Parts(l, b, w)
    PROVE  FlattenSeq(w) \in Seq(Op)
<1>1. FlattenSeq(SubSeq(w, 1, Len(w))) = SubSeq(l, 1, Len(l) - Len(b)) /\ Len(l) - Len(b) \in 0..Len(l)
  BY DEF Parts, CutAt
<1>2. SubSeq(l, 1, Len(l) - Len(b)) \in Seq(Op)
  BY <1>1, PartIs
<1> QED BY <1>1, <1>2, AllOf

\* What is on disk and in the log is that of some lines.
LEMMA VisibleIs ==
    ASSUME PebInv
    PROVE  \E s \in Seq(Op) : Visible \in Map /\ \A k \in Key : Visible[k] = LastValue(s, k)
<1>1. /\ disk \in Map /\ kept \in Seq(Op) /\ lines \in Seq(Op) /\ wal \in Seq(Seq(Op))
      /\ \A k \in Key : disk[k] = LastValue(kept, k)
  BY DEF PebInv, PebTyped, LinesKept, DiskIsLines
<1>2. FlattenSeq(wal) \in Seq(Op)
  <2>1. batch \in Seq(Op) /\ Parts(lines, batch, wal)
    BY DEF PebInv, PebTyped
  <2> QED BY <1>1, <2>1, WalHolds
<1>3. /\ Play(disk, FlattenSeq(wal)) \in Map
      /\ \A k \in Key : Play(disk, FlattenSeq(wal))[k] = LastValue(kept \o FlattenSeq(wal), k)
  BY <1>1, <1>2, PlayLast
<1>4. kept \o FlattenSeq(wal) \in Seq(Op)
  BY <1>1, <1>2, ConcatProperties
<1> QED BY <1>3, <1>4 DEF Visible, Replay

\* So finitely many keys have a value, and dump can put them in an order.
LEMMA DumpPrints == ASSUME PebInv, Dump PROVE found' \in Seq(Op)
<1>1. PICK s \in Seq(Op) : Visible \in Map /\ \A k \in Key : Visible[k] = LastValue(s, k)
  BY VisibleIs
<1> DEFINE K == {j \in Key : Visible[j] # Absent}
           f == [k \in K |-> [key |-> k, val |-> Visible[k]]]
           R == {[key |-> k, val |-> Visible[k]] : k \in K}
<1>2. K \subseteq {s[i].key : i \in 1..Len(s)}
  <2> SUFFICES ASSUME NEW k \in Key, LastValue(s, k) # Absent
               PROVE  \E i \in 1..Len(s) : s[i].key = k
    BY <1>1
  <2> QED BY DEF LastValue
<1>3. IsFiniteSet(K)
  BY <1>2, KeysFinite, FS_Subset
<1>4. IsFiniteSet(R)
  <2>1. f \in Surjection(K, R)
    BY DEF Surjection
  <2> QED BY <1>3, <2>1, FS_Surjection
<1>5. R \subseteq Op
  BY <1>1 DEF Op, Map
<1>6. found' = SetToSeq(R)
  BY DEF Dump
<1> HIDE DEF R
<1>7. SetToSeq(R) \in [1..Cardinality(R) -> R] /\ Cardinality(R) \in Nat
  <2>1. \E h \in [1..Cardinality(R) -> R] : IsInjective(h)
    BY <1>4, FS_CardinalityType DEF ExistsBijection, Bijection, Injection
  <2> QED BY <1>4, <2>1, FS_CardinalityType DEF SetToSeq
<1> QED BY <1>5, <1>6, <1>7

\* pebble-cli keeps its types.
THEOREM PebTypesHold == PebSpec => []PebTypeOK
<1> DEFINE R == pebRuns \in 0..PebMaxRuns /\ found \in Seq(Op)
<1>1. PebInit => R
  BY PebbleAssumption DEF PebInit
<1>2. PebInv /\ R /\ [PebNext]_pebVars => R'
  <2> SUFFICES ASSUME PebInv, R, [PebNext]_pebVars PROVE R'
    OBVIOUS
  <2>1. CASE RunPebble
    BY <2>1, PebbleAssumption DEF RunPebble, Open
  <2>2. CASE Query
    <3>1. Visible \in Map
      BY VisibleIs
    <3>2. PICK k \in Key : found' = <<[key |-> k, val |-> Visible[k]]>>
      BY <2>2 DEF Query
    <3>3. [key |-> k, val |-> Visible[k]] \in Op
      BY <3>1 DEF Map, Op
    <3> QED BY <2>2, <3>2, <3>3 DEF Query
  <2>3. CASE Dump
    BY <2>3, DumpPrints DEF Dump
  <2>4. CASE IndexLine \/ RemoveLine \/ Finish \/ Gone \/ UNCHANGED pebVars
    BY <2>4 DEF IndexLine, RemoveLine, Finish, Gone, pebVars
  <2> QED BY <2>1, <2>2, <2>3, <2>4 DEF PebNext
<1>3. PebInv /\ R => PebTypeOK
  BY DEF PebInv, PebTyped, PebTypeOK, Map
<1> QED BY <1>1, <1>2, <1>3, PebInvHolds, PTL DEF PebSpec

-----------------------------------------------------------------------------
\* The run in which one program is at work is a run of each of the seven.
LEMMA EachRuns ==
    ToolsSpec => /\ HashSpec /\ DumpSpec /\ PebSpec /\ RlSpec
                 /\ RpSpec /\ MhsSpec /\ SniSpec
<1>1. ToolsInit => /\ HashInit /\ DumpInit /\ PebInit /\ RlInit
                   /\ RpInit /\ MhsInit /\ SniInit
  BY DEF ToolsInit
<1>2. [ToolsNext]_toolVars =>
          /\ [HashNext]_hashVars /\ [DumpNext]_dumpVars /\ [PebNext]_pebVars /\ [RlNext]_rlVars
          /\ [RpNext]_rpVars /\ [MhsNext]_mhsVars /\ [SniNext]_sniVars
  BY DEF ToolsNext, toolVars, Hash, ElasticD, Peb, Rl, Rp, Hec, Sni
<1> QED BY <1>1, <1>2, PTL
    DEF ToolsSpec, HashSpec, DumpSpec, PebSpec, RlSpec, RpSpec, MhsSpec, SniSpec

\* The types of the seven programs, for all values of their constants.
THEOREM ToolsTypesHold == ToolsSpec => []ToolsTypeOK
<1>1. HashInv => HashTypeOK
  BY DEF HashInv
<1>2. RlInv => RlTypeOK
  BY DEF RlInv
<1>3. MhsInv => MhsTypeOK
  BY DEF MhsInv
<1>4. SniInv => SniTypeOK
  BY DEF SniInv
<1>5. HashTypeOK /\ DumpTypeOK /\ PebTypeOK /\ RlTypeOK /\ RpTypeOK /\ MhsTypeOK /\ SniTypeOK
        => ToolsTypeOK
  BY DEF ToolsTypeOK
<1> QED BY <1>1, <1>2, <1>3, <1>4, <1>5, EachRuns, HashInvHolds, DumpTypesHold, PebTypesHold,
           RlInvHolds, RpTypesHold, MhsInvHolds, SniInvHolds, PTL
=============================================================================
