-------------------------- MODULE GopherchainProof --------------------------
(***************************************************************************)
(* For any threads, any calls that may fail and any number of runs: the    *)
(* user is told to go ahead only when the engine runs, and then only a     *)
(* signal ends the run; main's calls are made inside the named namespace,  *)
(* and only its own run removes the name.                                  *)
(*                                                                         *)
(* What makes these inductive is that the steps done are exactly those     *)
(* before main's own (Progress), and that no goroutine is ever on main's   *)
(* thread (Apart), so main stays where netns.NewNamed put it.              *)
(***************************************************************************)
EXTENDS Gopherchain, TLAPS

Before(n) == {Steps[k] : k \in 1..(n - 1)}

Progress ==
    /\ pc = "run" => done = Before(at)
    /\ pc = "return" => "ns" \in done
    /\ pc = "off" => done = {}

EngineUp == at > 9 \/ Told => st["engine"] = "running"

Apart == \A r \in Routine : on[r] # "main" /\ (st[r] # "none" => on[r] \in Thread)

GopherInv == TypeOK /\ Progress /\ EngineUp /\ Apart /\ NamedWhileSetUp

-----------------------------------------------------------------------------
(* The list of main's calls.                                               *)
LEMMA StepsAre ==
    /\ Len(Steps) = 17 /\ Ready = 18
    /\ \A k \in 1..17 : Steps[k] \in Step
    /\ Steps[1] = "ns" /\ Steps[9] = "engine"
  BY DEF Steps, Ready, Step, Range

(* Each call has one place in the list.                                    *)
LEMMA OnlyNs == \A k \in 1..17 : Steps[k] = "ns" => k = 1
  BY DEF Steps

\* The engine is started by one step alone.
LEMMA OnlyEngine == \A k \in 1..17 : Steps[k] = "engine" => k = 9
  BY DEF Steps

\* The user is told by one step alone, late.
LEMMA OnlyTell == \A k \in 1..17 : Steps[k] = "tell" => k = 16
  BY DEF Steps

\* The step main is at is the one its counter says.
LEMMA AtIs ==
    /\ \A s : At(s) => at \in 1..17 /\ Steps[at] = s
    /\ At("ns") => at = 1
    /\ At("engine") => at = 9
  BY StepsAre, OnlyNs, OnlyEngine DEF At

(* The user is told by the sixteenth call, no sooner.                      *)
LEMMA TellIsLate ==
    ASSUME NEW n \in 0..Ready, "tell" \in Before(n)
    PROVE  n > 16
  BY StepsAre, OnlyTell DEF Before

(* When the user has been told, main is past the engine's step.            *)
LEMMA ToldLate == TypeOK /\ Progress /\ pc = "run" /\ Told => at > 16
  BY TellIsLate DEF TypeOK, Progress, Told

\* At the beginning none is.
LEMMA NothingBefore == Before(1) = {}
  BY DEF Before

\* Going on adds the step that was taken.
LEMMA OneMore ==
    ASSUME NEW n \in 1..17
    PROVE  Before(n + 1) = Before(n) \cup {Steps[n]}
  <1>1. 1..((n + 1) - 1) = 1..(n - 1) \cup {n}
    OBVIOUS
  <1> QED BY <1>1 DEF Before

(* From the second call on, the namespace is there.                        *)
LEMMA NsFirst == \A n \in Nat : n > 1 => "ns" \in Before(n)
  <1> SUFFICES ASSUME NEW n \in Nat, n > 1 PROVE "ns" \in Before(n)
    OBVIOUS
  <1>1. 1 \in 1..(n - 1)
    OBVIOUS
  <1> QED BY <1>1, StepsAre DEF Before

-----------------------------------------------------------------------------
\* A machine on which nothing has run.
LEMMA GopherBegins == Init => GopherInv
  <1> SUFFICES ASSUME Init PROVE GopherInv
    OBVIOUS
  <1> USE DEF Init
  <1>1. TypeOK
    <2>1. /\ ns \in [Thread \cup {"main"} -> {"host", "new"}]
          /\ on \in [Routine -> Thread \cup {"none"}]
          /\ st \in [Routine -> {"none", "begun", "set", "running"}]
          /\ where \in [Routine -> {"none", "host", "new"}]
      BY DEF AllHost, NoRoutine
    <2>2. runs \in 1..MaxRuns /\ at \in 0..Ready
      BY GopherAssumption, StepsAre
    <2>3. named \in BOOLEAN
      BY Zenon
    <2>4. done \subseteq Step /\ (pc = "run" <=> at # 0)
      OBVIOUS
    <2> QED BY <2>1, <2>2, <2>3, <2>4 DEF TypeOK
  <1>2. Progress /\ NamedWhileSetUp
    BY NothingBefore DEF Progress, NamedWhileSetUp
  <1>3. EngineUp /\ Apart
    BY StepsAre DEF EngineUp, Told, Apart, NoRoutine
  <1> QED BY <1>1, <1>2, <1>3 DEF GopherInv

(* The end of a process leaves a name, or none, and nothing else.          *)
LEMMA EndStep ==
    ASSUME GopherInv, NEW how \in {"return", "signal", "fatal", "kill"}, End(how),
           named' \in BOOLEAN
    PROVE  GopherInv'
  <1>1. TypeOK'
    BY StepsAre DEF GopherInv, TypeOK, End, AllHost, NoRoutine, Routine
  <1>2. Progress' /\ NamedWhileSetUp'
    BY DEF End, Progress, NamedWhileSetUp
  <1>3. EngineUp' /\ Apart'
    BY DEF End, EngineUp, Told, Apart, NoRoutine
  <1> QED BY <1>1, <1>2, <1>3 DEF GopherInv

(* main gives up: from its second call on, with deferred calls to make.    *)
LEMMA GiveUpStep ==
    ASSUME GopherInv, pc = "run", at > 1, GiveUp,
           UNCHANGED <<ended, named, done, ns, dialed, where, runs>>,
           st' \in [Routine -> {"none", "begun", "set", "running"}],
           st'["engine"] = st["engine"],
           on' \in [Routine -> Thread \cup {"none"}], Apart'
    PROVE  GopherInv'
  <1>1. TypeOK'
    BY StepsAre DEF GopherInv, TypeOK, GiveUp
  <1>2. Progress'
    BY NsFirst, StepsAre DEF GopherInv, TypeOK, Progress, GiveUp
  <1>3. EngineUp' /\ NamedWhileSetUp'
    BY StepsAre DEF GopherInv, GiveUp, EngineUp, Told, NamedWhileSetUp
  <1> QED BY <1>1, <1>2, <1>3 DEF GopherInv

(* main goes on to the next call.                                          *)
LEMMA SucceedsStep ==
    ASSUME GopherInv, NEW s, At(s), Succeeds(s),
           named' = TRUE, ns' \in [Thread \cup {"main"} -> {"host", "new"}],
           ns'["main"] = "new",
           UNCHANGED <<ended, dialed, where, runs>>,
           st' \in [Routine -> {"none", "begun", "set", "running"}],
           on' \in [Routine -> Thread \cup {"none"}], Apart',
           at >= 9 => st'["engine"] = "running"
    PROVE  GopherInv'
  <1>1. at \in 1..17 /\ Steps[at] = s /\ s \in Step /\ at' = at + 1 /\ done' = done \cup {s}
        /\ pc' = pc /\ pc = "run"
    BY AtIs, StepsAre DEF GopherInv, TypeOK, Succeeds
  <1>2. TypeOK'
    BY <1>1, StepsAre DEF GopherInv, TypeOK
  <1>3. done' = Before(at')
    BY <1>1, OneMore DEF GopherInv, Progress
  <1>4. Progress'
    BY <1>1, <1>3 DEF Progress
  <1>5. Told' => at' > 16
    BY <1>2, <1>3, TellIsLate DEF TypeOK, Told
  <1>6. EngineUp' /\ NamedWhileSetUp'
    BY <1>1, <1>5 DEF EngineUp, NamedWhileSetUp
  <1> QED BY <1>2, <1>4, <1>6 DEF GopherInv

(* Past the first call, main is in the namespace and the name is there.    *)
LEMMA Inside ==
    ASSUME GopherInv, NEW s, At(s), s # "ns"
    PROVE  pc = "run" /\ at \in 2..17 /\ named = TRUE /\ ns["main"] = "new"
  <1>1. at \in 1..17 /\ at # 1 /\ pc = "run"
    BY AtIs, StepsAre DEF GopherInv, TypeOK
  <1>2. "ns" \in done
    BY <1>1, NsFirst DEF GopherInv, Progress
  <1> QED BY <1>1, <1>2 DEF GopherInv, NamedWhileSetUp, TypeOK

\* A namespace with the name is made or found.
LEMMA NewNamedStep == GopherInv /\ NewNamed => GopherInv'
  <1> SUFFICES ASSUME GopherInv, NewNamed PROVE GopherInv'
    OBVIOUS
  <1>1. CASE End("return") /\ UNCHANGED named
    BY <1>1, EndStep DEF GopherInv, TypeOK
  <1>2. CASE Succeeds("ns") /\ named' = TRUE /\ ns' = [ns EXCEPT !["main"] = "new"]
             /\ UNCHANGED <<ended, on, st, where, dialed, runs>>
    <2>1. At("ns") /\ at = 1
      BY AtIs DEF NewNamed
    <2>2. ns' \in [Thread \cup {"main"} -> {"host", "new"}] /\ ns'["main"] = "new"
      BY <1>2 DEF GopherInv, TypeOK
    <2>3. Apart'
      BY <1>2 DEF GopherInv, Apart
    <2> QED BY <1>2, <2>1, <2>2, <2>3, SucceedsStep DEF GopherInv, TypeOK
  <1> QED BY <1>1, <1>2 DEF NewNamed

\* A call of the set-up that goes to the kernel.
LEMMA NetlinkStep == GopherInv /\ Netlink => GopherInv'
  <1> SUFFICES ASSUME GopherInv, NEW s \in Step \ {"ns", "engine", "dns", "tell", "notify"}, At(s),
                      Fails(s) \/ (Succeeds(s) /\ UNCHANGED <<ns, named>>),
                      UNCHANGED <<ended, on, st, where, dialed, runs>>
               PROVE  GopherInv'
    BY DEF Netlink
  <1>1. pc = "run" /\ at \in 2..17 /\ named = TRUE /\ ns["main"] = "new"
    BY Inside
  <1>2. Apart' /\ at # 9
    BY AtIs, StepsAre DEF GopherInv, Apart
  <1>3. CASE Fails(s)
    BY <1>1, <1>2, <1>3, GiveUpStep DEF Fails, GopherInv, TypeOK
  <1>4. CASE Succeeds(s) /\ UNCHANGED <<ns, named>>
    BY <1>1, <1>2, <1>4, SucceedsStep DEF GopherInv, TypeOK, EngineUp
  <1> QED BY <1>3, <1>4

\* The engine is started, or fails.
LEMMA EngineStepStep == GopherInv /\ EngineStep => GopherInv'
  <1> SUFFICES ASSUME GopherInv, EngineStep PROVE GopherInv'
    OBVIOUS
  <1>1. pc = "run" /\ at = 9 /\ named = TRUE /\ ns["main"] = "new" /\ At("engine")
    BY Inside, AtIs DEF EngineStep
  <1>2. CASE st["engine"] = "running" /\ Succeeds("engine") /\ UNCHANGED <<on, st>>
    <2>1. Apart'
      BY <1>2 DEF GopherInv, Apart
    <2> QED BY <1>1, <1>2, <2>1, SucceedsStep DEF GopherInv, TypeOK, EngineStep
  <1>3. CASE /\ st["engine"] = "none" /\ st' = [st EXCEPT !["engine"] = "begun"]
             /\ \E t \in Thread : on' = [on EXCEPT !["engine"] = t]
             /\ UNCHANGED <<pc, at, done>>
    <2>1. UNCHANGED <<pc, at, done, ended, named, ns, where, dialed, runs>>
      BY <1>3 DEF EngineStep
    <2>2. TypeOK'
      BY <1>3, <2>1 DEF GopherInv, TypeOK, Routine
    <2>3. Apart'
      BY <1>3, GopherAssumption DEF GopherInv, TypeOK, Apart, Routine
    <2>4. ~Told
      BY <1>1, ToldLate DEF GopherInv
    <2>5. Progress' /\ NamedWhileSetUp' /\ EngineUp'
      BY <2>1, <1>1, <2>4 DEF GopherInv, Progress, NamedWhileSetUp, EngineUp, Told
    <2> QED BY <2>2, <2>3, <2>5 DEF GopherInv
  <1> QED BY <1>2, <1>3 DEF EngineStep

\* The resolver is started, or fails.
LEMMA DnsStepStep == GopherInv /\ DnsStep => GopherInv'
  <1> SUFFICES ASSUME GopherInv, DnsStep PROVE GopherInv'
    OBVIOUS
  <1>1. pc = "run" /\ at \in 2..17 /\ named = TRUE /\ ns["main"] = "new" /\ At("dns")
    BY Inside DEF DnsStep
  <1>2. at # 9
    BY <1>1, AtIs, StepsAre
  <1>3. /\ on' \in [Routine -> Thread \cup {"none"}] /\ Apart'
        /\ st' \in [Routine -> {"none", "begun", "set", "running"}]
        /\ st'["engine"] = st["engine"]
    <2>1. CASE UNCHANGED <<on, st>>
      BY <2>1 DEF GopherInv, TypeOK, Apart, Routine
    <2>2. CASE /\ st' = [st EXCEPT !["dns"] = "begun"]
               /\ \E t \in Thread : on' = [on EXCEPT !["dns"] = t]
      BY <2>2, GopherAssumption DEF GopherInv, TypeOK, Apart, Routine
    <2> QED BY <2>1, <2>2 DEF DnsStep, setupMagicDNS
  <1>4. UNCHANGED <<ended, where, dialed, runs>>
    BY DEF DnsStep
  <1>5. CASE Fails("dns")
    BY <1>1, <1>3, <1>4, <1>5, GiveUpStep DEF Fails
  <1>6. CASE Succeeds("dns") /\ UNCHANGED <<ns, named>>
    BY <1>1, <1>2, <1>3, <1>4, <1>6, SucceedsStep DEF GopherInv, TypeOK, EngineUp
  <1> QED BY <1>5, <1>6 DEF DnsStep, setupMagicDNS, NoResolver

\* The user is told, or main waits for a signal from here on.
LEMMA TellNotifyStep == GopherInv /\ (Tell \/ Notify) => GopherInv'
  <1> SUFFICES ASSUME GopherInv, NEW s \in {"tell", "notify"}, At(s), Succeeds(s),
                      UNCHANGED <<ended, named, ns, on, st, where, dialed, runs>>
               PROVE  GopherInv'
    BY DEF Tell, Notify
  <1>1. pc = "run" /\ at \in 2..17 /\ named = TRUE /\ ns["main"] = "new"
    BY Inside
  <1>2. Apart' /\ at # 9
    BY <1>1, AtIs, StepsAre DEF GopherInv, Apart
  <1> QED BY <1>1, <1>2, SucceedsStep DEF GopherInv, TypeOK, EngineUp

(* The goroutines and the scheduler leave main's thread and place alone.   *)
LEMMA RoutineStep ==
    ASSUME GopherInv, NEW r \in Routine, SetNs(r) \/ Run(r) \/ Migrate(r)
    PROVE  GopherInv'
  <1> USE DEF GopherInv
  <1>1. CASE SetNs(r)
    <2>1. ns' = ns \/ ns' = [ns EXCEPT ![on[r]] = "new"]
      BY <1>1 DEF SetNs
    <2>2. on[r] # "main"
      BY DEF Apart
    <2>3. ns' \in [Thread \cup {"main"} -> {"host", "new"}] /\ ns'["main"] = ns["main"]
      BY <2>1, <2>2 DEF TypeOK
    <2>4. TypeOK' /\ EngineUp'
      BY <1>1, <2>3 DEF SetNs, TypeOK, EngineUp, Told
    <2> QED BY <1>1, <2>3, <2>4 DEF SetNs, Progress, Apart, NamedWhileSetUp
  <1>2. CASE Run(r)
    <2>1. CASE End("fatal") /\ UNCHANGED named
      BY <2>1, EndStep DEF TypeOK
    <2>2. CASE /\ st' = [st EXCEPT ![r] = "running"]
               /\ where' = [where EXCEPT ![r] = ns[on[r]]]
               /\ UNCHANGED <<pc, at, ended, named, done, ns, on, dialed, runs>>
      <3>1. on[r] \in Thread
        BY <1>2 DEF Run, Apart
      <3>2. TypeOK' /\ EngineUp'
        BY <2>2, <3>1 DEF TypeOK, EngineUp, Told
      <3>3. Apart'
        BY <2>2, <3>1 DEF Apart, TypeOK
      <3> QED BY <2>2, <3>2, <3>3 DEF Progress, NamedWhileSetUp
    <2> QED BY <1>2, <2>1, <2>2 DEF Run
  <1>3. CASE Migrate(r)
    <2>1. TypeOK' /\ Apart'
      BY <1>3, GopherAssumption DEF Migrate, TypeOK, Apart
    <2> QED BY <1>3, <2>1 DEF Migrate, Progress, EngineUp, Told, NamedWhileSetUp
  <1> QED BY <1>1, <1>2, <1>3

\* A signal, the end of the run, or an end without the deferred calls.
LEMMA SignalStep == GopherInv /\ (Interrupt \/ Return \/ Kill) => GopherInv'
  <1> SUFFICES ASSUME GopherInv, Interrupt \/ Return \/ Kill PROVE GopherInv'
    OBVIOUS
  <1>1. CASE /\ \E how \in {"return", "signal", "kill"} : End(how)
             /\ named' \in BOOLEAN
    BY <1>1, EndStep
  <1>2. CASE /\ at = Ready /\ GiveUp
             /\ UNCHANGED <<ended, named, done, ns, on, st, where, dialed, runs>>
    <2>1. pc = "run" /\ at > 1 /\ Apart'
      BY <1>2, StepsAre DEF GopherInv, TypeOK, Apart
    <2> QED BY <1>2, <2>1, GiveUpStep DEF GopherInv, TypeOK
  <1> QED BY <1>1, <1>2 DEF Interrupt, Return, Kill, GopherInv, TypeOK

\* A run on what the runs before have left.
LEMMA StartStep == GopherInv /\ Start => GopherInv'
  <1> SUFFICES ASSUME GopherInv, Start PROVE GopherInv'
    OBVIOUS
  <1>1. TypeOK'
    BY GopherAssumption, StepsAre DEF GopherInv, TypeOK, Start
  <1>2. Progress' /\ EngineUp'
    BY NothingBefore, StepsAre DEF GopherInv, Progress, EngineUp, Told, Start, Off
  <1> QED BY <1>1, <1>2 DEF GopherInv, Apart, NamedWhileSetUp, Start

(* The invariant is inductive.                                             *)
LEMMA GopherInvKept == GopherInv /\ [Next]_vars => GopherInv'
  <1> SUFFICES ASSUME GopherInv, [Next]_vars PROVE GopherInv'
    OBVIOUS
  <1>1. CASE Main
    BY <1>1, NewNamedStep, NetlinkStep, EngineStepStep, DnsStepStep, TellNotifyStep, SignalStep DEF Main
  <1>2. CASE Routines \/ \E r \in Routine : Migrate(r)
    BY <1>2, RoutineStep DEF Routines
  <1>3. CASE Dial
    <2>1. dialed' \in {"none", "host", "new"}
      BY <1>3 DEF Dial, GopherInv, TypeOK
    <2> QED BY <1>3, <2>1 DEF Dial, GopherInv, TypeOK, Progress, EngineUp, Told, Apart, NamedWhileSetUp
  <1>4. CASE Interrupt \/ Kill
    BY <1>4, SignalStep
  <1>5. CASE Start
    BY <1>5, StartStep
  <1>6. CASE UNCHANGED vars
    BY <1>6 DEF vars, GopherInv, TypeOK, Progress, EngineUp, Told, Apart, NamedWhileSetUp
  <1> QED BY <1>1, <1>2, <1>3, <1>4, <1>5, <1>6 DEF Next

-----------------------------------------------------------------------------
(* The invariant: types, progress, the engine, the threads and the name.   *)
THEOREM GopherInvHolds == Spec => []GopherInv
  <1>1. Init => GopherInv
    BY GopherBegins
  <1>2. GopherInv /\ [Next]_vars => GopherInv'
    BY GopherInvKept
  <1> QED BY <1>1, <1>2, PTL DEF Spec

(* Every variable keeps its type, over any number of runs.                 *)
THEOREM TypesHold == Spec => []TypeOK
  <1>1. GopherInv => TypeOK
    BY DEF GopherInv
  <1> QED BY <1>1, GopherInvHolds, PTL

(* Every call of main's set-up is made inside the named namespace, however *)
(* the scheduler moves the goroutines (main.go:74-86).                     *)
THEOREM InsideHolds == Spec => []NamedWhileSetUp
  <1>1. GopherInv => NamedWhileSetUp
    BY DEF GopherInv
  <1> QED BY <1>1, GopherInvHolds, PTL

\* Who ends a process as a return, and who takes a name away.
LEMMA ReturnStep ==
    ASSUME GopherInv, [Next]_vars
    PROVE  /\ ~Off /\ Off' /\ ended' = "return" /\ named' => at = 1
           /\ named /\ ~named' => pc = "return" /\ "ns" \in done
  <1>1. CASE NewNamed
    BY <1>1, AtIs DEF NewNamed, End, Succeeds
  <1>2. CASE Return
    BY <1>2 DEF Return, GopherInv, Progress
  <1>3. ASSUME Netlink \/ EngineStep \/ DnsStep \/ Tell \/ Notify \/ Dial \/ Start
               \/ UNCHANGED vars \/ (\E r \in Routine : SetNs(r) \/ Migrate(r))
        PROVE  UNCHANGED <<named>> /\ (Off \/ ~Off')
    <2>1. \A s : Fails(s) \/ Succeeds(s) => (Off \/ ~Off')
      BY DEF Fails, Succeeds, GiveUp, Off
    <2> QED BY <1>3, <2>1 DEF Netlink, EngineStep, DnsStep, setupMagicDNS, NoResolver, Fails,
               Tell, Notify, Dial, Start, vars, SetNs, Migrate, Off
  <1>4. ASSUME Interrupt \/ Kill \/ \E r \in Routine : Run(r)
        PROVE  UNCHANGED named /\ (Off \/ ~Off' \/ ended' # "return")
    BY <1>4 DEF Interrupt, Kill, Run, End, GiveUp, Off
  <1> QED BY <1>1, <1>2, <1>3, <1>4 DEF Next, Main, Routines

(* Over all runs and however they end: a run that returns leaves no name   *)
(* but one it found (main.go:85), and a name is removed only by the        *)
(* deferred call of the run that made it.                                  *)
THEOREM NameHolds == Spec => NameIsOwn
  <1>1. GopherInv /\ [Next]_vars
          => /\ [(~Off /\ Off' /\ ended' = "return" /\ named') => at = 1]_vars
             /\ [named /\ ~named' => pc = "return" /\ "ns" \in done]_vars
    BY ReturnStep
  <1>2. Spec => []GopherInv
    BY GopherInvHolds
  <1> QED BY <1>1, <1>2, PTL DEF Spec, NameIsOwn, NameOnlyLeaked, OwnNameOnly

(* Who ends a run whose user has been told: a signal, by itself or through *)
(* main, which then waits for nothing else.                                *)
LEMMA ToldStep ==
    ASSUME GopherInv, [Next]_vars, Told, pc = "run"
    PROVE  (pc' = "return" => Notified) /\ (Off' => ended' \in {"signal", "kill"})
  <1>1. at > 16 /\ at \in Nat
    BY ToldLate, StepsAre DEF GopherInv, TypeOK
  <1>2. \A s : At(s) => s = "notify"
    BY <1>1, AtIs DEF Steps
  <1>3. CASE Main
    BY <1>2, <1>3 DEF Main, NewNamed, Netlink, EngineStep, DnsStep, Tell, Notify, Return, Succeeds, Off
  <1>4. CASE Routines
    <2>1. ASSUME NEW r \in Routine, Run(r) PROVE pc' = pc
      BY <1>1, <2>1 DEF Run, GopherInv, EngineUp
    <2> QED BY <1>4, <2>1 DEF Routines, SetNs, Off
  <1>5. CASE Dial \/ UNCHANGED vars \/ Start \/ \E r \in Routine : Migrate(r)
    BY <1>5 DEF Dial, vars, Start, Migrate, Off
  <1>6. CASE Interrupt \/ Kill
    BY <1>6 DEF Interrupt, Kill, End, GiveUp, Off
  <1> QED BY <1>3, <1>4, <1>5, <1>6 DEF Next

(* Once the user is told to use the namespace (main.go:233-257), it is     *)
(* there and its engine runs, until the run's own end; and only a signal   *)
(* ends the run, whichever calls fail and wherever goroutines run.         *)
THEOREM ToldHolds == Spec => ToldUntilSignal
  <1>1. GopherInv /\ [Next]_vars
          => [(Told' => IsUp') /\ (Told /\ pc = "run" => EndsBySignal)]_vars
    <2> SUFFICES ASSUME GopherInv, [Next]_vars
                 PROVE  (Told' => IsUp') /\ (Told /\ pc = "run" => EndsBySignal)
      OBVIOUS
    <2>1. ASSUME Told' PROVE IsUp'
      <3>1. GopherInv' /\ done' # {}
        BY <2>1, GopherInvKept DEF Told
      <3> QED BY <2>1, <3>1 DEF GopherInv, EngineUp, NamedWhileSetUp, IsUp
    <2>2. Told /\ pc = "run" => EndsBySignal
      BY ToldStep DEF EndsBySignal
    <2> QED BY <2>1, <2>2
  <1>2. Spec => []GopherInv
    BY GopherInvHolds
  <1> QED BY <1>1, <1>2, PTL DEF Spec, ToldUntilSignal
=============================================================================
