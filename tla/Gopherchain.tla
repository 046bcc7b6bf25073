----------------------------- MODULE Gopherchain -----------------------------
(***************************************************************************)
(* gopherchain: makes a named network namespace whose traffic goes through *)
(* a TUN device to a proxy.  main sets it up call by call on a locked OS   *)
(* thread that is in the new namespace; a goroutine runs the tun2socks     *)
(* engine, another the DNS listener.  Each of these moves its own thread   *)
(* to the namespace but does not lock it, so the scheduler may continue it *)
(* on another thread.                                                      *)
(*                                                                         *)
(* What is set up inside the namespace goes with it; its name, a mount     *)
(* under /run/netns, stays until it is deleted, also when the program is   *)
(* killed.  The program is run again and again.                            *)
(***************************************************************************)
EXTENDS Naturals, Sequences, FiniteSets, SequencesExt

CONSTANTS Thread,       \* OS threads other than main's
          Magic,        \* whether magicdns may be given: subset of BOOLEAN
          Failing,      \* what may fail: steps of the set-up, netns.Set in the
                        \* goroutines ("set") and engine.Start ("start")
          MaxRuns       \* bound on runs of the program

\* The calls of main, in order.
Steps == <<"ns", "device", "link", "addr", "lo", "loaddr", "up", "loup", "engine",
           "routes", "default", "rule1", "rule2", "ipv6", "dns", "tell", "notify">>
Step == Range(Steps)
Ready == Len(Steps) + 1
Routine == {"engine", "dns"}

ASSUME GopherAssumption ==
    /\ Magic \subseteq BOOLEAN /\ MaxRuns \in Nat \ {0}
    /\ Failing \subseteq Step \cup {"set", "start"} /\ "main" \notin Thread

VARIABLES pc,       \* main: "run", "return" (deferred calls) or "off"
          at,       \* the step main is at, or Ready; 0 after that
          ended,    \* how the last run ended: "none", "return", "signal",
                    \* "fatal" or "kill"
          named,    \* the namespace has its name in /run/netns
          done,     \* steps done in this run's namespace
          ns,       \* ns[t]: the namespace a thread is in, "host" or "new"
          on,       \* on[r]: the thread a goroutine runs on
          st,       \* st[r]: "none", "begun", "set" or "running"
          where,    \* where[r]: the namespace the engine or listener is in
          dialed,   \* the namespace the last connection to the proxy left from
          runs

vars == <<pc, at, ended, named, done, ns, on, st, where, dialed, runs>>

Off == pc = "off"
Notified == "notify" \in done
Told == "tell" \in done

\* A process: all its threads in the host's namespace, no goroutine.
AllHost == [t \in Thread \cup {"main"} |-> "host"]
NoRoutine == [r \in Routine |-> "none"]

Init == pc = "run" /\ at = 1 /\ ended = "none" /\ named = FALSE /\ runs = 1
        /\ done = {} /\ ns = AllHost /\ on = NoRoutine /\ st = NoRoutine
        /\ where = NoRoutine /\ dialed = "none"

Start ==
    /\ Off /\ runs < MaxRuns /\ runs' = runs + 1
    /\ pc' = "run" /\ at' = 1 /\ ended' = "none"
    /\ UNCHANGED <<named, done, ns, on, st, where, dialed>>

(* The process is over: the kernel drops its threads and what they hold.   *)
End(how) ==
    /\ pc' = "off" /\ at' = 0 /\ ended' = how
    /\ done' = {} /\ ns' = AllHost /\ on' = NoRoutine /\ st' = NoRoutine
    /\ where' = NoRoutine /\ dialed' = "none"
    /\ UNCHANGED runs

-----------------------------------------------------------------------------
(* main *)
\* Mutant: stays at its step.
GiveUpHere == pc' = "return" /\ UNCHANGED at
GiveUp == pc' = "return" /\ at' = 0
Fails(s) == s \in Failing /\ GiveUp /\ UNCHANGED <<done, ns, named>>
Succeeds(s) == at' = at + 1 /\ done' = done \cup {s} /\ UNCHANGED pc

At(s) == at \in 1..Len(Steps) /\ Steps[at] = s

\* Mutant: makes the namespace without entering it.
NewNamedOutside ==
    /\ At("ns")
    /\ IF named THEN End("return") /\ UNCHANGED named
       ELSE /\ Succeeds("ns") /\ named' = TRUE
            /\ UNCHANGED <<ns, ended, on, st, where, dialed, runs>>
\* netns.NewNamed: main's thread leaves for the new namespace.  It fails when
\* the name is taken; no deferred call is set up yet.
NewNamed ==
    /\ At("ns")
    /\ IF named THEN End("return") /\ UNCHANGED named
       ELSE \/ "ns" \in Failing /\ End("return") /\ UNCHANGED named
            \/ /\ Succeeds("ns") /\ named' = TRUE
               /\ ns' = [ns EXCEPT !["main"] = "new"]
               /\ UNCHANGED <<ended, on, st, where, dialed, runs>>

\* A netlink call in the namespace, as is each of the steps named here.
Netlink ==
    /\ \E s \in Step \ {"ns", "engine", "dns", "tell", "notify"} :
          At(s) /\ (Fails(s) \/ (Succeeds(s) /\ UNCHANGED <<ns, named>>))
    /\ UNCHANGED <<ended, on, st, where, dialed, runs>>

\* Mutant: does not wait for the engine.
EngineGo ==
    /\ At("engine")
    /\ st' = [st EXCEPT !["engine"] = "begun"]
    /\ \E t \in Thread : on' = [on EXCEPT !["engine"] = t]
    /\ Succeeds("engine")
    /\ UNCHANGED <<ended, named, ns, where, dialed, runs>>

\* go NewTUN(...); <-TUNReady
EngineStep ==
    /\ At("engine")
    /\ \/ /\ st["engine"] = "none" /\ st' = [st EXCEPT !["engine"] = "begun"]
          /\ \E t \in Thread : on' = [on EXCEPT !["engine"] = t]
          /\ UNCHANGED <<pc, at, done>>
       \/ st["engine"] = "running" /\ Succeeds("engine") /\ UNCHANGED <<on, st>>
    /\ UNCHANGED <<ended, named, ns, where, dialed, runs>>

\* NewDNSClient: no resolver can be made from the given address.
NoResolver == Fails("dns")

\* The resolver, the listener's goroutine, then the nftables rules that send
\* the namespace's queries to it.
setupMagicDNS ==
    \/ NoResolver /\ UNCHANGED <<on, st>>
    \/ /\ st' = [st EXCEPT !["dns"] = "begun"]
       /\ \E t \in Thread : on' = [on EXCEPT !["dns"] = t]
       /\ Fails("dns") \/ (Succeeds("dns") /\ UNCHANGED <<ns, named>>)

\* Only when the flag is given.
DnsStep ==
    /\ At("dns")
    /\ \/ FALSE \in Magic /\ Succeeds("dns") /\ UNCHANGED <<ns, named, on, st>>
       \/ TRUE \in Magic /\ setupMagicDNS
    /\ UNCHANGED <<ended, where, dialed, runs>>

\* The table that tells the user how to enter the namespace.
Tell ==
    /\ At("tell") /\ Succeeds("tell")
    /\ UNCHANGED <<ended, named, ns, on, st, where, dialed, runs>>

\* From here on an interrupt no longer ends the process.
Notify ==
    /\ At("notify") /\ Succeeds("notify")
    /\ UNCHANGED <<ended, named, ns, on, st, where, dialed, runs>>

\* Mutant: the process exits without the deferred calls.
ReturnOnly == pc = "return" /\ End("return") /\ UNCHANGED named
\* The deferred calls, then the end of the process.
Return == pc = "return" /\ named' = FALSE /\ End("return")

-----------------------------------------------------------------------------
\* Mutant: the goroutine returns when netns.Set fails.
SetNsReturns(r) ==
    /\ st[r] = "begun"
    /\ \/ ns' = [ns EXCEPT ![on[r]] = "new"] /\ st' = [st EXCEPT ![r] = "set"]
       \/ "set" \in Failing /\ UNCHANGED ns /\ st' = [st EXCEPT ![r] = "over"]
    /\ UNCHANGED <<pc, at, ended, named, done, on, where, dialed, runs>>
(* The goroutines.  netns.Set may fail, which is only logged. *)
SetNs(r) ==
    /\ st[r] = "begun" /\ st' = [st EXCEPT ![r] = "set"]
    /\ ns' \in {[ns EXCEPT ![on[r]] = "new"]} \cup (IF "set" \in Failing THEN {ns} ELSE {})
    /\ UNCHANGED <<pc, at, ended, named, done, on, where, dialed, runs>>

\* engine.Start exits the process when it fails; a listener that fails is
\* only printed.
Run(r) ==
    /\ st[r] = "set"
    /\ \/ /\ st' = [st EXCEPT ![r] = "running"]
          /\ where' = [where EXCEPT ![r] = ns[on[r]]]
          /\ UNCHANGED <<pc, at, ended, named, done, ns, on, dialed, runs>>
       \/ r = "engine" /\ "start" \in Failing /\ End("fatal") /\ UNCHANGED named

\* The scheduler continues a goroutine on another thread.
Migrate(r) ==
    /\ st[r] \in {"begun", "set"}
    /\ \E t \in Thread \ {on[r]} : on' = [on EXCEPT ![r] = t]
    /\ UNCHANGED <<pc, at, ended, named, done, ns, st, where, dialed, runs>>

\* The engine connects to the proxy, from a goroutine on any thread.
Dial ==
    /\ st["engine"] = "running"
    /\ \E t \in Thread : dialed' = ns[t]
    /\ UNCHANGED <<pc, at, ended, named, done, ns, on, st, where, runs>>

-----------------------------------------------------------------------------
(* SIGINT or SIGTERM, which main waits for in the end; and SIGKILL. *)
Interrupt ==
    /\ ~Off
    /\ IF ~Notified THEN End("signal") /\ UNCHANGED named
       ELSE /\ at = Ready /\ GiveUp
            /\ UNCHANGED <<ended, named, done, ns, on, st, where, dialed, runs>>

Kill == ~Off /\ End("kill") /\ UNCHANGED named

-----------------------------------------------------------------------------
Main == NewNamed \/ Netlink \/ EngineStep \/ DnsStep \/ Tell \/ Notify \/ Return
Routines == \E r \in Routine : SetNs(r) \/ Run(r)

Next == \/ Main \/ Routines \/ Dial \/ Interrupt \/ Kill \/ Start
        \/ \E r \in Routine : Migrate(r)

Spec == Init /\ [][Next]_vars

(* main and its goroutines run when they can; signals need not come.       *)
FairSpec == Spec /\ WF_vars(Main) /\ \A r \in Routine : WF_vars(SetNs(r) \/ Run(r))

-----------------------------------------------------------------------------
TypeOK ==
    /\ pc \in {"run", "return", "off"} /\ at \in 0..Ready
    /\ pc = "run" <=> at # 0
    /\ ended \in {"none", "return", "signal", "fatal", "kill"}
    /\ named \in BOOLEAN /\ done \subseteq Step
    /\ ns \in [Thread \cup {"main"} -> {"host", "new"}]
    /\ on \in [Routine -> Thread \cup {"none"}]
    /\ st \in [Routine -> {"none", "begun", "set", "running"}]
    /\ where \in [Routine -> {"none", "host", "new"}]
    /\ dialed \in {"none", "host", "new"} /\ runs \in 1..MaxRuns

(* Once the user is told to use the namespace and to press Ctrl+C to       *)
(* delete it (main.go:233-257), the name is there and the engine runs, and *)
(* only a signal ends that: no goroutine can still end the process, and    *)
(* main returns only after the interrupt it waits for.                     *)
IsUp == named /\ st["engine"] = "running"
EndsBySignal == (pc' = "return" => Notified) /\ (Off' => ended' \in {"signal", "kill"})
ToldUntilSignal == [][(Told' => IsUp') /\ (Told /\ pc = "run" => EndsBySignal)]_vars

(* A running program's namespace has its name; every call of main is made  *)
(* inside it (main.go:74-86).                                              *)
NamedWhileSetUp == done # {} => named /\ ns["main"] = "new"

(* A run that returns, from whichever step, leaves no name behind, unless  *)
(* it found one: then an earlier run was killed, interrupted before        *)
(* main.go:261, or ended by the engine (main.go:85).                       *)
NameOnlyLeaked ==
    [][(~Off /\ Off' /\ ended' = "return" /\ named') => at = 1]_vars

(* A name, once there, is removed only by the deferred call of the run     *)
(* that made it; no later run takes over or deletes another's.             *)
OwnNameOnly == [][named /\ ~named' => pc = "return" /\ "ns" \in done]_vars

(* Over all runs and however they end, the name is its own run's: both of   *)
(* the above.                                                              *)
NameIsOwn == NameOnlyLeaked /\ OwnNameOnly

(* main does not hang: it comes to be ready, or the process ends.          *)
ComesUp == at = 1 ~> (at = Ready \/ Off)

(* Ctrl+C deletes the namespace and exits (main.go:250, 259).              *)
InterruptDeletes == ended = "signal" => ~named

(* The goroutines work in the namespace they set, as main does by locking  *)
(* its thread "so we don't accidentally switch namespaces" (main.go:74).   *)
EngineInside == st["engine"] = "running" => where["engine"] = "new"

(* The engine reaches its proxy through the host.                          *)
DialsOutside == dialed # "new"
=============================================================================
