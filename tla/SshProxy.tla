------------------------------ MODULE SshProxy ------------------------------
(***************************************************************************)
(* sshproxy: an SSH server for port forwarding that limits how many        *)
(* addresses each user connects from.  activeSessions maps a user to a     *)
(* slice of (IP, last use); every login and every forwarding request asks  *)
(* connPolicy, under rwLock.  A cleaner goroutine wakes every 10 s, reads  *)
(* the map and the slices without the lock, and takes it only to remove    *)
(* the entry at the index it found.                                        *)
(*                                                                         *)
(* A slice is a backing array and a length: removing shifts in place,      *)
(* appending reallocates only at capacity, and the cleaner's loop keeps    *)
(* the array and the length it started with.  Time is counted in ticks;    *)
(* the age of an entry stops one past Expiry (30 s).                       *)
(***************************************************************************)
EXTENDS Integers, Sequences, FiniteSets

CONSTANTS User, IP,
          SessionPerUser,   \* session_per_user; 0 or less: no limit
          Expiry            \* ticks in 30 s

ASSUME SshAssumption == SessionPerUser \in Int /\ Expiry \in Nat

VARIABLES active,   \* active[u]: the user's slice, or NoEntry: not in the map
          conns,    \* conns[u]: addresses with an open SSH connection
          req,      \* the request in connPolicy, which holds the lock, with
                    \* the result "wait"; else the result of the last one
          pc,       \* the cleaner: "sleep", "users", "scan" or "lock"
          todo,     \* users its map iteration has still to visit
          at,       \* the user and index it is at, and the length it read
          view,     \* the array it reads: Live, or a replaced one's content
          crash     \* "no", or what ended the program: "index", "map"

vars == <<active, conns, req, pc, todo, at, view, crash>>

Age == 0..(Expiry + 1)
Entry == [ip : IP, age : Age]
Blank == [ip |-> "none", age |-> Expiry + 1]     \* zero value of ipTime
Slice == [arr : Seq(Entry \cup {Blank}), len : Nat]
NoEntry == [arr |-> <<>>, len |-> 0]    \* a slice in the map has an array
Live == <<>>

Expired(e) == e.age > Expiry
InMap(u) == active[u] # NoEntry
Used(sl) == SubSeq(sl.arr, 1, sl.len)
Holds(sl, ip) == \E i \in 1..sl.len : sl.arr[i].ip = ip
Locked == req.res = "wait"

Init ==
    /\ active = [u \in User |-> NoEntry]
    /\ conns = [u \in User |-> {}]
    /\ req = [res |-> "none"]
    /\ pc = "sleep" /\ todo = {} /\ at = [i |-> 0] /\ view = Live
    /\ crash = "no"

-----------------------------------------------------------------------------
(* Slices. *)

\* append(s[:i], s[i+1:]...): the entries after i move down one place; the
\* array and what lies beyond the new length stay.
RemoveAt(sl, i) ==
    [arr |-> [j \in 1..Len(sl.arr) |->
                 IF i <= j /\ j < sl.len THEN sl.arr[j + 1] ELSE sl.arr[j]],
     len |-> sl.len - 1]

Full(sl) == sl.len = Len(sl.arr)
\* Mutant: no new array at capacity.
ExtendInPlace(sl, e) ==
    [arr |-> [j \in 1..Len(sl.arr) |-> IF j = sl.len + 1 THEN e ELSE sl.arr[j]],
     len |-> sl.len + 1]
\* append(s, e): in place while there is room, else a new array, twice as big.
Extend(sl, e) ==
    [arr |-> [j \in 1..(IF Full(sl) THEN 2 * sl.len ELSE Len(sl.arr)) |->
                 IF j = sl.len + 1 THEN e
                 ELSE IF j <= Len(sl.arr) THEN sl.arr[j] ELSE Blank],
     len |-> sl.len + 1]

\* The entries of ip among the first n get a new timestamp.
Refresh(sl, ip, n) ==
    [sl EXCEPT !.arr = [j \in 1..Len(sl.arr) |->
        IF j <= n /\ sl.arr[j].ip = ip THEN [ip |-> ip, age |-> 0] ELSE sl.arr[j]]]

-----------------------------------------------------------------------------
(* A password that is right, or a request of an open connection to forward *)
(* to an address that is not local, enters connPolicy.                     *)
Enter(u, ip) ==
    /\ crash = "no" /\ ~Locked
    /\ \E k \in {"login"} \cup (IF ip \in conns[u] THEN {"forward"} ELSE {}) :
          req' = [user |-> u, ip |-> ip, kind |-> k, res |-> "wait"]
    /\ UNCHANGED <<active, conns, pc, todo, at, view, crash>>

\* The loop over the user's sessions refreshes the caller's and ends at the
\* first expired one, which it removes.  (One element: the slice it leaves.)
\* Mutant: removes the last entry instead of the old one.
SweptLast(sl, ip) ==
    IF \E i \in 1..sl.len : Expired(sl.arr[i])
    THEN {RemoveAt(Refresh(sl, ip, sl.len), sl.len)} ELSE {Refresh(sl, ip, sl.len)}
Swept(sl, ip) ==
    LET old == {i \in 1..sl.len : Expired(sl.arr[i])}
    IN IF old = {} THEN {Refresh(sl, ip, sl.len)}
       ELSE {RemoveAt(Refresh(sl, ip, i), i) : i \in {k \in old : \A j \in old : k <= j}}

\* The array the cleaner reads may be the one that is replaced.
Reallocated(u, new) ==
    pc \in {"scan", "lock"} /\ at.user = u /\ view = Live
        /\ InMap(u) /\ Len(new.arr) # Len(active[u].arr)

Finish(u, ip, new, res) ==
    /\ active' = [active EXCEPT ![u] = new]
    /\ view' = IF Reallocated(u, new) THEN active[u].arr ELSE view
    /\ req' = [res |-> res]
    /\ conns' = IF req.kind = "login" /\ res = "allow"
                THEN [conns EXCEPT ![u] = @ \cup {ip}] ELSE conns

\* Mutant: off by one.
TooManyOffByOne(sl) == sl.len > SessionPerUser + 1
TooMany(sl) == sl.len > SessionPerUser

\* Mutant: no second look for the address.
AddAlways(sl, e) == Extend(sl, e)
\* Mutant: allows without adding.
AddNever(sl, e) == sl
AddNew(sl, e) == IF Holds(sl, e.ip) THEN sl ELSE Extend(sl, e)

(* connPolicy, from after Lock to the deferred Unlock. *)
connPolicy(u, ip) ==
    /\ crash = "no" /\ Locked /\ req.user = u /\ req.ip = ip
    /\ IF SessionPerUser <= 0 THEN Finish(u, ip, active[u], "allow")
       ELSE LET mine == [ip |-> ip, age |-> 0] IN
            IF ~InMap(u) THEN Finish(u, ip, [arr |-> <<mine>>, len |-> 1], "allow")
            ELSE \E sl \in Swept(active[u], ip) :
                    IF TooMany(sl) THEN Finish(u, ip, sl, "drop")
                    ELSE Finish(u, ip, AddNew(sl, mine), "allow")
    /\ UNCHANGED <<pc, todo, at, crash>>

(* The client closes its connection, or IdleTimeout does. *)
Disconnect(u, ip) ==
    /\ crash = "no" /\ ip \in conns[u]
    /\ conns' = [conns EXCEPT ![u] = @ \ {ip}]
    /\ UNCHANGED <<active, req, pc, todo, at, view, crash>>

-----------------------------------------------------------------------------
(* The cleaner. *)

\* Reading the map while a handler is inside connPolicy, which may be writing
\* it, is a fatal error when the runtime detects it.
ReadsMap == crash' \in (IF Locked THEN {"no", "map"} ELSE {"no"})

WakeUp ==
    /\ crash = "no" /\ pc = "sleep"
    /\ ReadsMap
    /\ todo' = {u \in User : InMap(u)} /\ pc' = "users"
    /\ UNCHANGED <<active, conns, req, at, view>>

\* Mutant: starts at Go index 1.
NextUserFromOne(u) ==
    /\ crash = "no" /\ pc = "users" /\ u \in todo
    /\ ReadsMap
    /\ todo' = todo \ {u} /\ pc' = "scan" /\ view' = Live
    /\ at' = [user |-> u, i |-> 2, len |-> active[u].len]
    /\ UNCHANGED <<active, conns, req>>

\* The next user of the map, in any order: the slice is read now.
NextUser(u) ==
    /\ crash = "no" /\ pc = "users" /\ u \in todo
    /\ ReadsMap
    /\ todo' = todo \ {u} /\ pc' = "scan" /\ view' = Live
    /\ at' = [user |-> u, i |-> 1, len |-> active[u].len]
    /\ UNCHANGED <<active, conns, req>>

Sleep ==
    /\ crash = "no" /\ pc = "users" /\ todo = {}
    /\ pc' = "sleep"
    /\ UNCHANGED <<active, conns, req, todo, at, view, crash>>

Seen == IF view = Live THEN active[at.user].arr[at.i] ELSE view[at.i]

\* The inner loop is over: what it read is forgotten.
Leave == pc' = "users" /\ at' = [i |-> 0] /\ view' = Live

\* One iteration: an expired entry makes it wait for the lock.
Scan ==
    /\ crash = "no" /\ pc = "scan"
    /\ \/ at.i > at.len /\ Leave
       \/ at.i <= at.len /\ Expired(Seen) /\ pc' = "lock" /\ UNCHANGED <<at, view>>
       \/ at.i <= at.len /\ ~Expired(Seen) /\ at' = [at EXCEPT !.i = @ + 1]
          /\ UNCHANGED <<pc, view>>
    /\ UNCHANGED <<active, conns, req, todo, crash>>

\* With the lock it removes what is at that index of the slice there is now;
\* s[i+1:] panics when the slice has become too short.
Remove ==
    /\ crash = "no" /\ pc = "lock" /\ ~Locked
    /\ IF at.i > active[at.user].len
       THEN crash' = "index" /\ UNCHANGED <<active, pc, at, view>>
       ELSE /\ active' = [active EXCEPT ![at.user] = RemoveAt(@, at.i)]
            /\ Leave /\ UNCHANGED crash
    /\ UNCHANGED <<conns, req, todo>>

(* Time passes for every timestamp. *)
Older(a) == [j \in DOMAIN a |-> [a[j] EXCEPT !.age = IF @ > Expiry THEN @ ELSE @ + 1]]
Tick ==
    /\ crash = "no"
    /\ active' = [u \in User |-> [active[u] EXCEPT !.arr = Older(@)]]
    /\ view' = Older(view)
    /\ UNCHANGED <<conns, req, pc, todo, at, crash>>

-----------------------------------------------------------------------------
Cleaner == WakeUp \/ (\E u \in User : NextUser(u)) \/ Sleep \/ Scan \/ Remove
Policy == \E u \in User, ip \in IP : connPolicy(u, ip)

Next == \/ Policy \/ Cleaner \/ Tick
        \/ \E u \in User, ip \in IP : Enter(u, ip) \/ Disconnect(u, ip)

Spec == Init /\ [][Next]_vars

(* The cleaner's goroutine and the holder of the lock run; the cleaner is   *)
(* served when it waits for the lock (Go's mutex hands over to a waiter     *)
(* that starves, hence SF); nobody has to connect or to leave.              *)
FairSpec == Spec /\ WF_vars(Policy) /\ SF_vars(Remove)
                 /\ WF_vars(WakeUp \/ (\E u \in User : NextUser(u)) \/ Sleep \/ Scan)

-----------------------------------------------------------------------------
TypeOK ==
    /\ active \in [User -> Slice]
    /\ \A u \in User : active[u].len <= Len(active[u].arr)
    /\ conns \in [User -> SUBSET IP]
    /\ req \in [res : {"none", "allow", "drop"}] \cup
           [user : User, ip : IP, kind : {"login", "forward"}, res : {"wait"}]
    /\ pc \in {"sleep", "users", "scan", "lock"}
    /\ todo \subseteq User
    /\ at \in [i : {0}] \cup [user : User, i : Nat \ {0}, len : Nat]
    /\ pc \in {"scan", "lock"} => at.i # 0
    /\ view \in Seq(Entry \cup {Blank})
    /\ crash \in {"no", "index", "map"}

(* However logins, expiry and both removals interleave, a user's list never *)
(* outgrows the limit by more than one (main.go:102 tests before 116 adds). *)
SessionBound == SessionPerUser > 0 =>
    \A u \in User : active[u].len <= SessionPerUser + 1

(* No address is in a user's list twice: the sweep, the shift in place and  *)
(* the cleaner's blind removal never duplicate one (main.go:86-119, 155).   *)
DistinctIPs ==
    \A u \in User : \A i, j \in 1..active[u].len :
        active[u].arr[i].ip = active[u].arr[j].ip => i = j

(* A request that is let through leaves its address in the list.            *)
Decided(res) == Locked /\ ~Locked' /\ req'.res = res
GrantListed ==
    [][SessionPerUser > 0 /\ Decided("allow") => Holds(active'[req.user], req.ip)]_vars

(* connPolicy evicts no session younger than 30 s, its own or another's     *)
(* (main.go:92-97).                                                         *)
PolicyKeepsFresh ==
    [][\A res \in {"allow", "drop"} : Decided(res) =>
         \A i \in 1..active[req.user].len : LET e == active[req.user].arr[i] IN
            ~Expired(e) => Holds(active'[req.user], e.ip)]_vars

(* To its callers a list is a table from addresses to ages (the slice's     *)
(* order and array do not show): whatever the cleaner reads and removes by a *)
(* stale index, each step is one of SessionTable's, the cleaner's never     *)
(* more than the loss of one session between two decisions.                 *)
Listed(sl) == {sl.arr[i].ip : i \in 1..sl.len}
Tabled(sl) ==
    [a \in Listed(sl) |-> sl.arr[CHOOSE i \in 1..sl.len : sl.arr[i].ip = a].age]
Table == INSTANCE SessionTable
    WITH table <- [u \in User |-> Tabled(active[u])],
         req <- IF Locked THEN [user |-> req.user, ip |-> req.ip, res |-> "wait"] ELSE req
TableSafe == Table!TableSpec

(* What is in the list past its 30 s is removed or renewed in the end,      *)
(* while the program runs: the cleaner finds it though its index is stale.  *)
ListedOld(u, ip) == \E i \in 1..active[u].len :
                       active[u].arr[i].ip = ip /\ Expired(active[u].arr[i])
ExpiredGoes ==
    \A u \in User, ip \in IP : ListedOld(u, ip) ~> (~ListedOld(u, ip) \/ crash # "no")

(* A user has open connections from at most session_per_user addresses      *)
(* (main.go:2).                                                             *)
SessionLimit == SessionPerUser > 0 =>
    \A u \in User : Cardinality(conns[u]) <= SessionPerUser

(* An allowed request renews the timestamp of its address (main.go:87).     *)
GrantRenews ==
    [][SessionPerUser > 0 /\ Decided("allow") =>
         LET sl == active'[req.user]
         IN \E i \in 1..sl.len : sl.arr[i] = [ip |-> req.ip, age |-> 0]]_vars

(* The cleaner removes only sessions older than 30 s (main.go:151-154).     *)
CleanerKeepsFresh ==
    [][pc = "lock" /\ pc' = "users" => Expired(active[at.user].arr[at.i])]_vars

(* The cleaner goes on cleaning up (main.go:145): its index never ends the  *)
(* program.                                                                 *)
NoIndexPanic == crash # "index"

(* An address whose session is in the list and not expired is let in        *)
(* (main.go:85-90).                                                         *)
KnownIsAllowed ==
    [][Decided("drop") =>
         ~\E i \in 1..active[req.user].len :
             active[req.user].arr[i].ip = req.ip /\ ~Expired(active[req.user].arr[i])]_vars
=============================================================================
