--------------------------- MODULE SshProxyProof ---------------------------
(***************************************************************************)
(* For every set of users and addresses, every limit and every expiry: no  *)
(* user's list outgrows the limit by more than one, and no address is in   *)
(* it twice.  IndInv is inductive: both facts need the types, since what   *)
(* the cleaner removes by a stale index is still a cell of the list.  The  *)
(* last part shows that to its callers a list is SessionTable's table.     *)
(***************************************************************************)
EXTENDS SshProxy, FiniteSetTheorems, TLAPS

Cell == Entry \cup {Blank}
Good(sl) == sl \in Slice /\ sl.len <= Len(sl.arr)
Distinct(sl) == \A i, j \in 1..sl.len : sl.arr[i].ip = sl.arr[j].ip => i = j
Within(sl) == SessionPerUser > 0 => sl.len <= SessionPerUser + 1

Fine(sl) == Good(sl) /\ Distinct(sl)

IndInv == TypeOK /\ DistinctIPs /\ SessionBound

-----------------------------------------------------------------------------
(* A function on 1..n is a sequence of length n.                           *)
LEMMA FunctionIsSeq ==
    ASSUME NEW S, NEW n \in Nat, NEW f \in [1..n -> S]
    PROVE  f \in Seq(S) /\ Len(f) = n
  BY SMT

\* A cell nobody has written is one of the cells, and expired.
LEMMA BlankCell == Blank \in Cell /\ Blank.age = Expiry + 1
  BY DEF Cell, Blank

(* A cell has an age, and making it older or new leaves its address.       *)
LEMMA CellAges ==
    ASSUME NEW e \in Cell
    PROVE  /\ [e EXCEPT !.age = IF @ > Expiry THEN @ ELSE @ + 1] \in Cell
           /\ [e EXCEPT !.age = IF @ > Expiry THEN @ ELSE @ + 1].ip = e.ip
  <1>1. CASE e \in Entry
    BY <1>1, SshAssumption DEF Cell, Entry, Age
  <1>2. CASE e = Blank
    BY <1>2, SshAssumption DEF Cell, Blank
  <1> QED BY <1>1, <1>2 DEF Cell

(* Time passing keeps an array's length and its addresses.                 *)
LEMMA OlderFine ==
    ASSUME NEW a \in Seq(Cell)
    PROVE  /\ Older(a) \in Seq(Cell) /\ Len(Older(a)) = Len(a)
           /\ \A j \in 1..Len(a) : Older(a)[j].ip = a[j].ip
  <1>1. DOMAIN a = 1..Len(a) /\ Len(a) \in Nat /\ \A j \in 1..Len(a) : a[j] \in Cell
    OBVIOUS
  <1>2. Older(a) \in [1..Len(a) -> Cell]
    BY <1>1, CellAges DEF Older
  <1>3. \A j \in 1..Len(a) : Older(a)[j].ip = a[j].ip
    BY <1>1, CellAges DEF Older
  <1> QED BY <1>1, <1>2, <1>3, FunctionIsSeq

(* Removing entry i of a list keeps its array's length, shortens it by one *)
(* and leaves what it holds distinct.                                      *)
LEMMA RemoveFine ==
    ASSUME NEW sl, Fine(sl), NEW i \in 1..sl.len
    PROVE  Fine(RemoveAt(sl, i)) /\ RemoveAt(sl, i).len = sl.len - 1
  <1> DEFINE m == RemoveAt(sl, i)
  <1>1. sl.len \in Nat /\ sl.arr \in Seq(Cell) /\ sl.len <= Len(sl.arr) /\ Len(sl.arr) \in Nat
    BY DEF Fine, Good, Slice, Cell
  <1>2. m.arr \in [1..Len(sl.arr) -> Cell] /\ m.len = sl.len - 1
    BY <1>1 DEF RemoveAt
  <1>3. m.arr \in Seq(Cell) /\ Len(m.arr) = Len(sl.arr)
    BY <1>1, <1>2, FunctionIsSeq
  <1>4. m \in [arr : Seq(Cell), len : Nat]
    BY <1>1, <1>2, <1>3 DEF RemoveAt
  <1>5. \A j \in 1..m.len : m.arr[j] = sl.arr[IF i <= j THEN j + 1 ELSE j]
    BY <1>1, <1>2 DEF RemoveAt
  <1>6. Distinct(m)
    <2> SUFFICES ASSUME NEW j \in 1..m.len, NEW k \in 1..m.len, m.arr[j].ip = m.arr[k].ip
                 PROVE  j = k
      BY DEF Distinct
    <2> DEFINE p(x) == IF i <= x THEN x + 1 ELSE x
    <2>1. p(j) \in 1..sl.len /\ p(k) \in 1..sl.len
      BY <1>1, <1>2
    <2>2. sl.arr[p(j)].ip = sl.arr[p(k)].ip
      BY <1>5
    <2>3. p(j) = p(k)
      BY <2>1, <2>2 DEF Fine, Distinct
    <2> QED BY <2>3, <1>1, <1>2
  <1> QED BY <1>1, <1>2, <1>3, <1>4, <1>6 DEF Fine, Good, Slice, Cell

(* A new timestamp changes no address.                                     *)
LEMMA RefreshFine ==
    ASSUME NEW sl, Fine(sl), NEW ip \in IP, NEW n \in Nat
    PROVE  Fine(Refresh(sl, ip, n)) /\ Refresh(sl, ip, n).len = sl.len
  <1> DEFINE m == Refresh(sl, ip, n)
  <1>1. sl \in [arr : Seq(Cell), len : Nat] /\ sl.len <= Len(sl.arr) /\ Len(sl.arr) \in Nat
    BY DEF Fine, Good, Slice, Cell
  <1>a. [ip |-> ip, age |-> 0] \in Cell
    BY SshAssumption DEF Cell, Entry, Age
  <1>2. m.arr \in [1..Len(sl.arr) -> Cell] /\ m.len = sl.len
    BY <1>1, <1>a DEF Refresh
  <1>3. m.arr \in Seq(Cell) /\ Len(m.arr) = Len(sl.arr)
    BY <1>1, <1>2, FunctionIsSeq
  <1>4. m \in [arr : Seq(Cell), len : Nat]
    BY <1>1, <1>2, <1>3 DEF Refresh
  <1>5. \A j \in 1..sl.len : m.arr[j].ip = sl.arr[j].ip
    BY <1>1 DEF Refresh
  <1>6. Distinct(m)
    BY <1>1, <1>2, <1>5 DEF Fine, Distinct
  <1> QED BY <1>1, <1>2, <1>3, <1>4, <1>6 DEF Fine, Good, Slice, Cell

(* Appending an address the list does not hold.                            *)
LEMMA ExtendFine ==
    ASSUME NEW sl, Fine(sl), NEW e \in Entry, ~Holds(sl, e.ip), sl.arr # <<>>
    PROVE  Fine(Extend(sl, e)) /\ Extend(sl, e).len = sl.len + 1
  <1> DEFINE m == Extend(sl, e)
             n == IF Full(sl) THEN 2 * sl.len ELSE Len(sl.arr)
  <1>1. sl \in [arr : Seq(Cell), len : Nat] /\ sl.len <= Len(sl.arr) /\ Len(sl.arr) \in Nat
    BY DEF Fine, Good, Slice, Cell
  <1>2. n \in Nat /\ sl.len + 1 <= n
    BY <1>1 DEF Full
  <1>3. m.arr \in [1..n -> Cell] /\ m.len = sl.len + 1
    BY <1>1, <1>2, BlankCell DEF Extend, Cell
  <1>4. m.arr \in Seq(Cell) /\ Len(m.arr) = n
    BY <1>2, <1>3, FunctionIsSeq
  <1>5. m \in [arr : Seq(Cell), len : Nat]
    BY <1>1, <1>3, <1>4 DEF Extend
  <1>6. m.arr[sl.len + 1] = e /\ \A j \in 1..sl.len : m.arr[j] = sl.arr[j]
    BY <1>1, <1>2 DEF Extend
  <1>7. Distinct(m)
    <2> SUFFICES ASSUME NEW j \in 1..sl.len + 1, NEW k \in 1..sl.len + 1,
                        m.arr[j].ip = m.arr[k].ip
                 PROVE  j = k
      BY <1>3 DEF Distinct
    <2> HIDE DEF m, n
    <2>1. \A i \in 1..sl.len : m.arr[i].ip # e.ip
      BY <1>6 DEF Holds
    <2>2. CASE j = sl.len + 1 \/ k = sl.len + 1
      BY <1>1, <1>6, <2>1, <2>2
    <2>3. CASE j \in 1..sl.len /\ k \in 1..sl.len
      BY <1>6, <2>3 DEF Fine, Distinct
    <2> QED BY <1>1, <2>2, <2>3
  <1> QED BY <1>1, <1>2, <1>3, <1>4, <1>5, <1>7 DEF Fine, Good, Slice, Cell

(* The sweep leaves a list no longer than it was.                          *)
LEMMA SweptFine ==
    ASSUME NEW sl, Fine(sl), NEW ip \in IP, NEW new \in Swept(sl, ip)
    PROVE  Fine(new) /\ new.len <= sl.len /\ (sl.arr # <<>> => new.arr # <<>>)
  <1>1. sl.len \in Nat /\ Len(sl.arr) \in Nat /\ sl.arr \in Seq(Cell)
    BY DEF Fine, Good, Slice, Cell
  <1>2. CASE new = Refresh(sl, ip, sl.len)
    <2>1. Len(new.arr) = Len(sl.arr)
      BY <1>1, <1>2, RefreshFine DEF Refresh, Fine, Good, Slice
    <2> QED BY <1>1, <1>2, <2>1, RefreshFine DEF Fine, Good, Slice
  <1>3. CASE \E i \in 1..sl.len : new = RemoveAt(Refresh(sl, ip, i), i)
    <2> PICK i \in 1..sl.len : new = RemoveAt(Refresh(sl, ip, i), i)
      BY <1>3
    <2> DEFINE r == Refresh(sl, ip, i)
    <2>1. Fine(r) /\ r.len = sl.len
      BY <1>1, RefreshFine
    <2>2. Fine(new) /\ new.len = sl.len - 1
      BY <2>1, RemoveFine
    <2>3. DOMAIN r.arr = 1..Len(sl.arr)
      BY DEF Refresh
    <2>4. DOMAIN new.arr = 1..Len(r.arr)
      BY DEF RemoveAt
    <2>5. Len(r.arr) = Len(sl.arr)
      BY <2>1, <2>3, <1>1 DEF Fine, Good, Slice
    <2> QED BY <1>1, <2>2, <2>4, <2>5
  <1> QED BY <1>2, <1>3 DEF Swept

-----------------------------------------------------------------------------
\* IndInv, by the variables it speaks of.
Lists == \A u \in User : Fine(active[u]) /\ Within(active[u])
Request == req \in [res : {"none", "allow", "drop"}] \cup
               [user : User, ip : IP, kind : {"login", "forward"}, res : {"wait"}]
CleanerOK ==
    /\ pc \in {"sleep", "users", "scan", "lock"}
    /\ todo \subseteq User
    /\ at \in [i : {0}] \cup [user : User, i : Nat \ {0}, len : Nat]
    /\ pc \in {"scan", "lock"} => at.i # 0
    /\ view \in Seq(Cell)
    /\ crash \in {"no", "index", "map"}
Inv == /\ active \in [User -> Slice] /\ Lists
       /\ conns \in [User -> SUBSET IP]
       /\ Request
       /\ CleanerOK

\* The invariant by its parts.
LEMMA InvIsIndInv == IndInv <=> Inv
  BY DEF IndInv, TypeOK, DistinctIPs, SessionBound, Inv, Lists, Request, CleanerOK,
         Fine, Good, Distinct, Within, Cell

\* A user without a list has a list that is fine.
LEMMA NoEntryFine == NoEntry \in Slice /\ Fine(NoEntry) /\ Within(NoEntry)
  <1>1. NoEntry \in Slice /\ Good(NoEntry)
    BY DEF NoEntry, Slice, Good
  <1>2. Distinct(NoEntry)
    BY DEF NoEntry, Distinct
  <1> QED BY <1>1, <1>2, SshAssumption DEF Fine, Within, NoEntry

\* Nobody is connected.
LEMMA InitInv == Init => Inv
  <1> SUFFICES ASSUME Init PROVE Inv
    OBVIOUS
  <1>1. active \in [User -> Slice] /\ Lists
    BY NoEntryFine DEF Init, Lists
  <1>2. conns \in [User -> SUBSET IP] /\ Request
    BY DEF Init, Request
  <1>3. CleanerOK
    BY DEF Init, CleanerOK, Live
  <1> QED BY <1>1, <1>2, <1>3 DEF Inv

(* A list in the map has an array, so there is room to double.             *)
LEMMA InMapHasArray ==
    ASSUME Inv, NEW u \in User, InMap(u)
    PROVE  active[u].arr # <<>>
  <1>1. active[u] \in [arr : Seq(Cell), len : Nat] /\ active[u].len <= Len(active[u].arr)
    BY DEF Inv, Lists, Fine, Good, Slice, Cell
  <1> SUFFICES ASSUME active[u].arr = <<>> PROVE FALSE
    OBVIOUS
  <1>2. active[u].len = 0
    BY <1>1
  <1>3. active[u] = [arr |-> <<>>, len |-> 0]
    BY <1>1, <1>2
  <1> QED BY <1>3 DEF InMap, NoEntry

(* Finishing a request with a fine list keeps the invariant.               *)
LEMMA FinishInv ==
    ASSUME Inv, NEW u \in User, NEW ip \in IP, NEW new, NEW res \in {"allow", "drop"},
           Fine(new), Within(new), Finish(u, ip, new, res),
           UNCHANGED <<pc, todo, at, crash>>
    PROVE  Inv'
  <1>1. active' \in [User -> Slice] /\ \A v \in User : active'[v] = IF v = u THEN new ELSE active[v]
    BY DEF Inv, Finish, Fine, Good
  <1>2. Lists'
    BY <1>1 DEF Inv, Lists
  <1>3. conns' \in [User -> SUBSET IP]
    BY DEF Inv, Finish
  <1>4. Request'
    BY DEF Finish, Request
  <1>5. view' \in Seq(Cell)
    BY DEF Inv, CleanerOK, Finish, Lists, Fine, Good, Slice, Cell
  <1>6. CleanerOK'
    BY <1>5 DEF Inv, CleanerOK
  <1> QED BY <1>1, <1>2, <1>3, <1>4, <1>6 DEF Inv

(* connPolicy: the limit is tested before the one address is added.        *)
LEMMA connPolicyInv ==
    ASSUME Inv, NEW u \in User, NEW ip \in IP, connPolicy(u, ip)
    PROVE  Inv'
  <1> DEFINE mine == [ip |-> ip, age |-> 0]
  <1>1. mine \in Entry /\ mine \in Cell /\ mine.ip = ip
    BY SshAssumption DEF Entry, Age, Cell
  <1>2. Fine(active[u]) /\ Within(active[u])
    BY DEF Inv, Lists
  <1>u. UNCHANGED <<pc, todo, at, crash>>
    BY DEF connPolicy
  <1>3. CASE SessionPerUser <= 0
    <2>1. Finish(u, ip, active[u], "allow")
      BY <1>3 DEF connPolicy
    <2> QED BY <1>2, <1>u, <2>1, FinishInv
  <1>4. CASE ~(SessionPerUser <= 0) /\ ~InMap(u)
    <2> DEFINE one == [arr |-> <<mine>>, len |-> 1]
    <2>1. Finish(u, ip, one, "allow")
      BY <1>4 DEF connPolicy
    <2>2. Fine(one) /\ Within(one)
      <3> HIDE DEF mine
      <3>1. <<mine>> \in Seq(Cell) /\ Len(<<mine>>) = 1
        BY <1>1
      <3>2. Good(one)
        BY <3>1 DEF Good, Slice, Cell
      <3>3. Distinct(one)
        BY DEF Distinct
      <3>4. Within(one)
        BY SshAssumption DEF Within
      <3> QED BY <3>2, <3>3, <3>4 DEF Fine
    <2> QED BY <1>u, <2>1, <2>2, FinishInv
  <1>5. CASE ~(SessionPerUser <= 0) /\ InMap(u)
    <2>1. PICK sl \in Swept(active[u], ip) :
             IF TooMany(sl) THEN Finish(u, ip, sl, "drop")
             ELSE Finish(u, ip, AddNew(sl, mine), "allow")
      BY <1>5 DEF connPolicy
    <2>2. Fine(sl) /\ sl.len <= active[u].len /\ sl.arr # <<>>
      BY <1>2, <1>5, InMapHasArray, SweptFine
    <2>3. sl.len \in Nat /\ active[u].len \in Nat
      BY <1>2, <2>2 DEF Fine, Good, Slice
    <2>4. Within(sl)
      BY <1>2, <2>2, <2>3, SshAssumption DEF Within
    <2>5. CASE TooMany(sl)
      BY <1>u, <2>1, <2>2, <2>4, <2>5, FinishInv
    <2>6. CASE ~TooMany(sl) /\ Holds(sl, ip)
      <3>1. Finish(u, ip, sl, "allow")
        BY <1>1, <2>1, <2>6 DEF AddNew
      <3> QED BY <1>u, <2>2, <2>4, <3>1, FinishInv
    <2>7. CASE ~TooMany(sl) /\ ~Holds(sl, ip)
      <3> DEFINE ext == Extend(sl, mine)
      <3>1. Finish(u, ip, ext, "allow")
        BY <1>1, <2>1, <2>7 DEF AddNew
      <3> HIDE DEF mine
      <3>2. Fine(ext) /\ ext.len = sl.len + 1
        BY <1>1, <2>2, <2>7, ExtendFine
      <3>3. Within(ext)
        BY <2>3, <2>7, <3>2, SshAssumption DEF Within, TooMany
      <3> HIDE DEF ext
      <3> QED BY <1>u, <3>1, <3>2, <3>3, FinishInv
    <2> QED BY <2>5, <2>6, <2>7
  <1> QED BY <1>3, <1>4, <1>5

(* The cleaner's removal, whatever its index finds.                        *)
LEMMA RemoveInv ==
    ASSUME Inv, Remove
    PROVE  Inv'
  <1> DEFINE u == at.user
  <1>1. pc = "lock" /\ at.i # 0 /\ at \in [user : User, i : Nat \ {0}, len : Nat]
    BY DEF Inv, CleanerOK, Remove
  <1>2. u \in User /\ at.i \in Nat /\ Fine(active[u]) /\ Within(active[u])
    BY <1>1 DEF Inv, Lists
  <1>3. active[u].len \in Nat
    BY <1>2 DEF Fine, Good, Slice
  <1>4. CASE at.i > active[u].len
    BY <1>4 DEF Inv, Remove, Lists, Request, CleanerOK
  <1>5. CASE ~(at.i > active[u].len)
    <2> DEFINE new == RemoveAt(active[u], at.i)
    <2>1. active' = [active EXCEPT ![u] = new]
      BY <1>5 DEF Remove
    <2>2. at.i \in 1..active[u].len
      BY <1>1, <1>2, <1>3, <1>5
    <2>3. Fine(new) /\ new.len = active[u].len - 1
      BY <1>2, <2>2, RemoveFine
    <2>4. Within(new)
      BY <1>2, <1>3, <2>3, SshAssumption DEF Within
    <2> HIDE DEF new
    <2>5. active' \in [User -> Slice] /\ \A v \in User : active'[v] = IF v = u THEN new ELSE active[v]
      BY <1>2, <2>1, <2>3 DEF Inv, Fine, Good
    <2>6. Lists'
      BY <2>3, <2>4, <2>5 DEF Inv, Lists
    <2>7. conns' \in [User -> SUBSET IP] /\ Request'
      BY DEF Inv, Remove, Request
    <2>8. CleanerOK'
      BY <1>5 DEF Inv, CleanerOK, Remove, Leave, Live
    <2> QED BY <2>5, <2>6, <2>7, <2>8 DEF Inv
  <1> QED BY <1>4, <1>5

(* Time passing.                                                           *)
LEMMA TickInv ==
    ASSUME Inv, Tick
    PROVE  Inv'
  <1>1. ASSUME NEW u \in User
        PROVE  active'[u] \in Slice /\ Fine(active'[u]) /\ Within(active'[u])
    <2> DEFINE sl == active[u]  a == sl.arr  b == Older(a)
    <2>1. sl \in [arr : Seq(Cell), len : Nat] /\ Fine(sl) /\ Within(sl) /\ sl.len <= Len(a)
      BY DEF Inv, Lists, Fine, Good, Slice, Cell
    <2>2. b \in Seq(Cell) /\ Len(b) = Len(a) /\ \A j \in 1..Len(a) : b[j].ip = a[j].ip
      BY <2>1, OlderFine
    <2>3. active'[u] = [sl EXCEPT !.arr = b]
      BY DEF Tick
    <2>4. active'[u].arr = b /\ active'[u].len = sl.len /\ active'[u] \in [arr : Seq(Cell), len : Nat]
      <3> HIDE DEF b
      <3> QED BY <2>1, <2>2, <2>3
    <2>5. Distinct(active'[u])
      BY <2>1, <2>2, <2>4 DEF Fine, Distinct
    <2>6. active'[u] \in Slice
      BY <2>4 DEF Slice, Cell
    <2> QED BY <2>1, <2>2, <2>4, <2>5, <2>6 DEF Fine, Good, Within
  <1>2. active' \in [User -> Slice]
    <2>1. active' = [u \in User |-> active'[u]]
      BY DEF Tick
    <2> QED BY <1>1, <2>1
  <1>3. Lists'
    BY <1>1 DEF Lists
  <1>4. view' \in Seq(Cell)
    BY OlderFine DEF Inv, CleanerOK, Tick
  <1>5. CleanerOK'
    BY <1>4 DEF Inv, CleanerOK, Tick
  <1>6. conns' \in [User -> SUBSET IP] /\ Request'
    BY DEF Inv, Request, Tick
  <1> QED BY <1>2, <1>3, <1>5, <1>6 DEF Inv

\* Every step keeps the invariant.
LEMMA NextInv == Inv /\ [Next]_vars => Inv'
  <1> SUFFICES ASSUME Inv, [Next]_vars PROVE Inv'
    OBVIOUS
  <1>1. ASSUME NEW u \in User, NEW ip \in IP, Enter(u, ip) PROVE Inv'
    <2>1. Request'
      BY <1>1 DEF Enter, Request
    <2> QED BY <1>1, <2>1 DEF Inv, Lists, CleanerOK, Enter
  <1>2. ASSUME NEW u \in User, NEW ip \in IP, connPolicy(u, ip) PROVE Inv'
    BY <1>2, connPolicyInv
  <1>3. ASSUME NEW u \in User, NEW ip \in IP, Disconnect(u, ip) PROVE Inv'
    <2>1. conns' \in [User -> SUBSET IP]
      BY <1>3 DEF Inv, Disconnect
    <2> QED BY <1>3, <2>1 DEF Inv, Lists, CleanerOK, Request, Disconnect
  <1>4. CASE WakeUp
    BY <1>4 DEF Inv, Lists, CleanerOK, Request, WakeUp, ReadsMap
  <1>5. ASSUME NEW u \in User, NextUser(u) PROVE Inv'
    <2>1. active[u].len \in Nat
      BY DEF Inv, Lists, Fine, Good, Slice
    <2>2. CleanerOK'
      BY <1>5, <2>1 DEF Inv, CleanerOK, NextUser, ReadsMap, Live
    <2> QED BY <1>5, <2>2 DEF Inv, Lists, Request, NextUser
  <1>6. CASE Sleep
    BY <1>6 DEF Inv, Lists, CleanerOK, Request, Sleep
  <1>7. CASE Scan
    <2>1. CleanerOK'
      <3>1. at \in [user : User, i : Nat \ {0}, len : Nat]
        BY <1>7 DEF Inv, CleanerOK, Scan
      <3>2. CASE at' = [at EXCEPT !.i = @ + 1] /\ UNCHANGED <<pc, view>>
        <4>1. at' \in [user : User, i : Nat \ {0}, len : Nat] /\ at'.i # 0
          BY <3>1, <3>2
        <4> QED BY <1>7, <3>2, <4>1 DEF Inv, CleanerOK, Scan
      <3>3. CASE Leave
        BY <1>7, <3>3 DEF Inv, CleanerOK, Scan, Leave, Live
      <3>4. CASE pc' = "lock" /\ UNCHANGED <<at, view>>
        BY <1>7, <3>4 DEF Inv, CleanerOK, Scan
      <3> QED BY <1>7, <3>2, <3>3, <3>4 DEF Scan
    <2> QED BY <1>7, <2>1 DEF Inv, Lists, Request, Scan
  <1>8. CASE Remove
    BY <1>8, RemoveInv
  <1>9. CASE Tick
    BY <1>9, TickInv
  <1>10. CASE UNCHANGED vars
    BY <1>10 DEF Inv, Lists, Request, CleanerOK, vars
  <1> QED BY <1>1, <1>2, <1>3, <1>4, <1>5, <1>6, <1>7, <1>8, <1>9, <1>10
          DEF Next, Policy, Cleaner

-----------------------------------------------------------------------------
(* The inductive invariant: the types, the bound and distinctness.         *)
THEOREM IndInvHolds == Spec => []IndInv
  <1>1. Inv /\ [Next]_vars => Inv'
    BY NextInv
  <1>2. Spec => []Inv
    BY <1>1, InitInv, PTL DEF Spec
  <1> QED BY <1>2, InvIsIndInv, PTL

(* Every variable keeps its type; a slice is never longer than its array.  *)
THEOREM TypesHold == Spec => []TypeOK
  <1>1. IndInv => TypeOK
    BY DEF IndInv
  <1> QED BY <1>1, IndInvHolds, PTL

(* connPolicy's test at main.go:102 and addition at 116, whatever the      *)
(* cleaner does to the list: at most session_per_user + 1 entries.         *)
THEOREM BoundHolds == Spec => []SessionBound
  <1>1. IndInv => SessionBound
    BY DEF IndInv
  <1> QED BY <1>1, IndInvHolds, PTL

(* No address is twice in a user's list, so its length counts addresses.   *)
THEOREM DistinctHolds == Spec => []DistinctIPs
  <1>1. IndInv => DistinctIPs
    BY DEF IndInv
  <1> QED BY <1>1, IndInvHolds, PTL

-----------------------------------------------------------------------------
(* What was appended is in the list.                                       *)
LEMMA ExtendHolds ==
    ASSUME NEW sl, Fine(sl), NEW e \in Entry, ~Holds(sl, e.ip), sl.arr # <<>>
    PROVE  Holds(Extend(sl, e), e.ip)
  <1> DEFINE n == IF Full(sl) THEN 2 * sl.len ELSE Len(sl.arr)
  <1>1. sl.len \in Nat /\ Len(sl.arr) \in Nat /\ sl.len <= Len(sl.arr)
    BY DEF Fine, Good, Slice
  <1>2. Extend(sl, e).len = sl.len + 1
    BY DEF Extend
  <1>3. sl.len + 1 \in 1..n
    <2>1. Extend(sl, e).len <= Len(Extend(sl, e).arr)
      BY ExtendFine DEF Fine, Good
    <2>2. sl.arr \in Seq(Cell) /\ Len(sl.arr) > 0
      BY DEF Fine, Good, Slice, Cell
    <2> QED BY <1>1, <2>2 DEF Full
  <1>4. Extend(sl, e).arr[sl.len + 1] = e
    BY <1>1, <1>3 DEF Extend
  <1> QED BY <1>1, <1>2, <1>4 DEF Holds

(* Only connPolicy answers a request.                                      *)
LEMMA OnlyPolicyDecides ==
    ASSUME Inv, [Next]_vars, NEW res \in {"allow", "drop"}, Decided(res)
    PROVE  \E u \in User, ip \in IP :
              connPolicy(u, ip) /\ req.user = u /\ req.ip = ip
  <1>1. ASSUME NEW u \in User, NEW ip \in IP, Enter(u, ip) PROVE FALSE
    BY <1>1 DEF Enter, Decided
  <1>2. ASSUME UNCHANGED req PROVE FALSE
    BY <1>2 DEF Decided, Locked
  <1>3. ASSUME Cleaner \/ Tick \/ UNCHANGED vars
               \/ \E u \in User, ip \in IP : Disconnect(u, ip)
        PROVE  UNCHANGED req
    BY <1>3 DEF Cleaner, WakeUp, NextUser, Sleep, Scan, Remove, Tick, Disconnect, vars
  <1>4. ASSUME Policy
        PROVE  \E u \in User, ip \in IP : connPolicy(u, ip) /\ req.user = u /\ req.ip = ip
    BY <1>4 DEF Policy, connPolicy
  <1> QED BY <1>1, <1>2, <1>3, <1>4 DEF Next

(* A request that is let through is in the list.                           *)
LEMMA GrantStep ==
    ASSUME Inv, [Next]_vars, SessionPerUser > 0, Decided("allow")
    PROVE  Holds(active'[req.user], req.ip)
  <1> PICK u \in User, ip \in IP : connPolicy(u, ip) /\ req.user = u /\ req.ip = ip
    BY OnlyPolicyDecides
  <1> DEFINE mine == [ip |-> ip, age |-> 0]
  <1>1. mine \in Entry /\ mine.ip = ip
    BY SshAssumption DEF Entry, Age
  <1>2. ~(SessionPerUser <= 0) /\ Fine(active[u])
    BY SshAssumption DEF Inv, Lists
  <1>3. ASSUME NEW new, NEW res, Finish(u, ip, new, res)
        PROVE  active'[u] = new /\ res = "allow"
    BY <1>3 DEF Inv, Finish, Decided
  <1> SUFFICES Holds(active'[u], ip)
    OBVIOUS
  <1>4. CASE ~InMap(u)
    <2>1. active'[u] = [arr |-> <<mine>>, len |-> 1]
      BY <1>2, <1>3, <1>4 DEF connPolicy
    <2> QED BY <2>1 DEF Holds
  <1>5. CASE InMap(u)
    <2>1. PICK sl \in Swept(active[u], ip) :
             IF TooMany(sl) THEN Finish(u, ip, sl, "drop")
             ELSE Finish(u, ip, AddNew(sl, mine), "allow")
      BY <1>2, <1>5 DEF connPolicy
    <2>2. ~TooMany(sl) /\ active'[u] = AddNew(sl, mine)
      BY <1>3, <2>1
    <2>3. Fine(sl) /\ sl.arr # <<>>
      BY <1>2, <1>5, InMapHasArray, SweptFine
    <2>4. CASE Holds(sl, ip)
      BY <1>1, <2>2, <2>4 DEF AddNew
    <2>5. CASE ~Holds(sl, ip)
      <3> HIDE DEF mine
      <3>1. Holds(Extend(sl, mine), ip)
        BY <1>1, <2>3, <2>5, ExtendHolds
      <3> QED BY <1>1, <2>2, <2>5, <3>1 DEF AddNew
    <2> QED BY <2>4, <2>5
  <1> QED BY <1>4, <1>5

(* Whoever is let in is listed (main.go:79, 116), for any limit, users and *)
(* addresses, however the cleaner and expiry interfere before.             *)
THEOREM GrantHolds == Spec => GrantListed
  <1>1. Inv /\ [Next]_vars => [SessionPerUser > 0 /\ Decided("allow") =>
                                 Holds(active'[req.user], req.ip)]_vars
    BY GrantStep
  <1>2. Spec => []Inv
    BY InitInv, NextInv, PTL DEF Spec
  <1> QED BY <1>1, <1>2, PTL DEF Spec, GrantListed

-----------------------------------------------------------------------------
(* The sweep leaves the address of every entry that has not expired.       *)
LEMMA SweptKeeps ==
    ASSUME NEW sl, Fine(sl), NEW ip \in IP, NEW new \in Swept(sl, ip),
           NEW k \in 1..sl.len, ~Expired(sl.arr[k])
    PROVE  Holds(new, sl.arr[k].ip)
  <1>1. sl.len \in Nat /\ Len(sl.arr) \in Nat /\ sl.len <= Len(sl.arr)
    BY DEF Fine, Good, Slice
  <1>2. ASSUME NEW n \in Nat, NEW j \in 1..sl.len
        PROVE  /\ Refresh(sl, ip, n).arr[j].ip = sl.arr[j].ip
               /\ Refresh(sl, ip, n).len = sl.len
    BY <1>1 DEF Refresh
  <1>3. CASE new = Refresh(sl, ip, sl.len)
    BY <1>1, <1>2, <1>3 DEF Holds
  <1>4. CASE \E i \in 1..sl.len : Expired(sl.arr[i]) /\ new = RemoveAt(Refresh(sl, ip, i), i)
    <2> PICK i \in 1..sl.len : Expired(sl.arr[i]) /\ new = RemoveAt(Refresh(sl, ip, i), i)
      BY <1>4
    <2> DEFINE r == Refresh(sl, ip, i)
               m == IF k < i THEN k ELSE k - 1
    <2>1. i # k
      OBVIOUS
    <2>2. Fine(r) /\ r.len = sl.len
      BY RefreshFine
    <2>3. r.len \in Nat /\ Len(r.arr) \in Nat /\ r.len <= Len(r.arr)
      BY <2>2 DEF Fine, Good, Slice
    <2>4. m \in 1..(sl.len - 1) /\ m \in 1..Len(r.arr)
      BY <1>1, <2>1, <2>2, <2>3
    <2>5. new.len = sl.len - 1
      BY <2>2 DEF RemoveAt
    <2>6. new.arr[m] = r.arr[k]
      BY <2>1, <2>2, <2>3, <2>4 DEF RemoveAt
    <2>7. r.arr[k].ip = sl.arr[k].ip
      BY <1>2
    <2> QED BY <2>4, <2>5, <2>6, <2>7 DEF Holds
  <1> QED BY <1>3, <1>4 DEF Swept

(* Adding takes no address away.                                           *)
LEMMA AddKeeps ==
    ASSUME NEW sl, Fine(sl), NEW e, NEW a, Holds(sl, a)
    PROVE  Holds(AddNew(sl, e), a)
  <1>1. sl.len \in Nat /\ Len(sl.arr) \in Nat /\ sl.len <= Len(sl.arr)
    BY DEF Fine, Good, Slice
  <1>2. PICK i \in 1..sl.len : sl.arr[i].ip = a
    BY DEF Holds
  <1>3. Extend(sl, e).len = sl.len + 1 /\ Extend(sl, e).arr[i] = sl.arr[i]
    BY <1>1 DEF Extend, Full
  <1>4. i \in 1..(sl.len + 1)
    BY <1>1
  <1>5. Holds(Extend(sl, e), a)
    BY <1>2, <1>3, <1>4 DEF Holds
  <1> QED BY <1>5 DEF AddNew

\* A decision keeps the sessions that are not expired.
LEMMA KeepStep ==
    ASSUME Inv, [Next]_vars, NEW res \in {"allow", "drop"}, Decided(res),
           NEW i \in 1..active[req.user].len, ~Expired(active[req.user].arr[i])
    PROVE  Holds(active'[req.user], active[req.user].arr[i].ip)
  <1> PICK u \in User, ip \in IP : connPolicy(u, ip) /\ req.user = u /\ req.ip = ip
    BY OnlyPolicyDecides
  <1> DEFINE a == active[u].arr[i].ip
             mine == [ip |-> ip, age |-> 0]
  <1>1. Fine(active[u]) /\ active[u].len \in Nat /\ i \in 1..active[u].len
    BY DEF Inv, Lists, Fine, Good, Slice
  <1>2. ASSUME NEW new, NEW r, Finish(u, ip, new, r)
        PROVE  active'[u] = new
    BY <1>2 DEF Inv, Finish
  <1>3. Holds(active[u], a)
    BY <1>1 DEF Holds
  <1>4. InMap(u)
    BY <1>1 DEF InMap, NoEntry
  <1>5. CASE SessionPerUser <= 0
    BY <1>2, <1>3, <1>5 DEF connPolicy
  <1>6. CASE ~(SessionPerUser <= 0)
    <2>1. PICK sl \in Swept(active[u], ip) :
             IF TooMany(sl) THEN Finish(u, ip, sl, "drop")
             ELSE Finish(u, ip, AddNew(sl, mine), "allow")
      BY <1>4, <1>6 DEF connPolicy
    <2>2. Fine(sl) /\ Holds(sl, a)
      BY <1>1, SweptFine, SweptKeeps
    <2>3. Holds(AddNew(sl, mine), a)
      BY <2>2, AddKeeps
    <2> QED BY <1>2, <2>1, <2>2, <2>3
  <1> QED BY <1>5, <1>6

(* connPolicy drops no session that is not 30 s old (main.go:92-97): the   *)
(* only place that does is the cleaner.                                    *)
THEOREM KeepsFreshHolds == Spec => PolicyKeepsFresh
  <1> DEFINE A == \A res \in {"allow", "drop"} : Decided(res) =>
                 \A i \in 1..active[req.user].len : LET e == active[req.user].arr[i] IN
                    ~Expired(e) => Holds(active'[req.user], e.ip)
  <1>1. Inv /\ [Next]_vars => A
    BY KeepStep
  <1>2. Spec => []Inv
    BY InitInv, NextInv, PTL DEF Spec
  <1>3. Inv /\ [Next]_vars => [A]_vars
    BY <1>1
  <1> QED BY <1>2, <1>3, PTL DEF Spec, PolicyKeepsFresh

-----------------------------------------------------------------------------
(* A list as a table. *)

\* What the list's entries say is what its table says.
LEMMA TabledIs ==
    ASSUME NEW sl, Fine(sl)
    PROVE  /\ DOMAIN Tabled(sl) = Listed(sl)
           /\ \A i \in 1..sl.len : /\ sl.arr[i].ip \in Listed(sl)
                                   /\ Tabled(sl)[sl.arr[i].ip] = sl.arr[i].age
  <1>1. ASSUME NEW i \in 1..sl.len
        PROVE  /\ sl.arr[i].ip \in Listed(sl)
               /\ Tabled(sl)[sl.arr[i].ip] = sl.arr[i].age
    <2> DEFINE a == sl.arr[i].ip
               k == CHOOSE j \in 1..sl.len : sl.arr[j].ip = a
    <2>1. k \in 1..sl.len /\ sl.arr[k].ip = a
      OBVIOUS
    <2>2. k = i
      BY <2>1 DEF Fine, Distinct
    <2>3. a \in Listed(sl)
      BY DEF Listed
    <2>4. Tabled(sl)[a] = sl.arr[k].age
      BY <2>3 DEF Tabled
    <2> QED BY <2>2, <2>3, <2>4
  <1> QED BY <1>1 DEF Tabled

\* A table with the list's addresses that says what its entries say is its.
LEMMA TableOf ==
    ASSUME NEW sl, Fine(sl), NEW t, t = [a \in Listed(sl) |-> t[a]],
           \A i \in 1..sl.len : t[sl.arr[i].ip] = sl.arr[i].age
    PROVE  Tabled(sl) = t
  <1>1. ASSUME NEW a \in Listed(sl) PROVE Tabled(sl)[a] = t[a]
    <2>1. PICK i \in 1..sl.len : sl.arr[i].ip = a
      BY DEF Listed
    <2> QED BY <2>1, TabledIs
  <1>2. Tabled(sl) = [a \in Listed(sl) |-> Tabled(sl)[a]]
    BY DEF Tabled
  <1> QED BY <1>1, <1>2

\* The table's module counts as ours does.
LEMMA SameCount == \A S : Table!Cardinality(S) = Cardinality(S)
  BY DEF Table!Cardinality, Cardinality

\* A list is as long as its table is large.
LEMMA TableSize ==
    ASSUME NEW sl, Fine(sl)
    PROVE  Cardinality(DOMAIN Tabled(sl)) = sl.len
  <1> DEFINE n == sl.len
             f == [i \in 1..n |-> sl.arr[i].ip]
  <1>1. n \in Nat
    BY DEF Fine, Good, Slice
  <1>2. f \in Bijection(1..n, Listed(sl))
    <2>1. f \in [1..n -> Listed(sl)]
      BY DEF Listed
    <2>2. \A i, j \in 1..n : f[i] = f[j] => i = j
      BY DEF Fine, Distinct
    <2>3. \A a \in Listed(sl) : \E i \in 1..n : f[i] = a
      BY DEF Listed
    <2> HIDE DEF f
    <2> QED BY <2>1, <2>2, <2>3, Zenon DEF Bijection, Injection, Surjection, IsInjective
  <1>3. ExistsBijection(1..n, Listed(sl))
    BY <1>2 DEF ExistsBijection
  <1>4. Cardinality(Listed(sl)) = n
    BY <1>1, <1>3, FS_CountingElements
  <1> QED BY <1>4, TabledIs

\* Removing an entry takes its address out of the table.
LEMMA RemoveTable ==
    ASSUME NEW sl, Fine(sl), NEW i \in 1..sl.len
    PROVE  Tabled(RemoveAt(sl, i)) = Table!Without(Tabled(sl), sl.arr[i].ip)
  <1> DEFINE m == RemoveAt(sl, i)
             t == Table!Without(Tabled(sl), sl.arr[i].ip)
             p(j) == IF i <= j THEN j + 1 ELSE j
  <1>1. sl.len \in Nat /\ Len(sl.arr) \in Nat /\ sl.len <= Len(sl.arr) /\ i \in 1..sl.len
    BY DEF Fine, Good, Slice
  <1>2. Fine(m) /\ m.len = sl.len - 1
    BY RemoveFine
  <1>3. \A j \in 1..m.len : m.arr[j] = sl.arr[p(j)] /\ p(j) \in 1..sl.len /\ p(j) # i
    BY <1>1, <1>2 DEF RemoveAt
  <1>4. t = [a \in Listed(sl) \ {sl.arr[i].ip} |-> Tabled(sl)[a]]
    BY TabledIs DEF Table!Without, Table!Restrict
  <1>5. Listed(m) = Listed(sl) \ {sl.arr[i].ip}
    <2>1. ASSUME NEW j \in 1..m.len PROVE m.arr[j].ip \in Listed(sl) \ {sl.arr[i].ip}
      <3>1. m.arr[j].ip \in Listed(sl)
        BY <1>3, TabledIs
      <3>2. sl.arr[p(j)].ip # sl.arr[i].ip
        BY <1>3 DEF Fine, Distinct
      <3> QED BY <1>3, <3>1, <3>2
    <2>2. ASSUME NEW k \in 1..sl.len, sl.arr[k].ip # sl.arr[i].ip
          PROVE  \E j \in 1..m.len : m.arr[j].ip = sl.arr[k].ip
      <3> DEFINE j == IF k < i THEN k ELSE k - 1
      <3>1. j \in 1..m.len /\ p(j) = k
        BY <1>1, <1>2, <2>2
      <3> QED BY <1>3, <3>1
    <2> HIDE DEF m
    <2> QED BY <2>1, <2>2 DEF Listed
  <1> HIDE DEF m
  <1>6. \A j \in 1..m.len : t[m.arr[j].ip] = m.arr[j].age
    <2> SUFFICES ASSUME NEW j \in 1..m.len PROVE t[m.arr[j].ip] = m.arr[j].age
      OBVIOUS
    <2>1. m.arr[j].ip \in Listed(m)
      BY <1>2, TabledIs
    <2>2. t[m.arr[j].ip] = Tabled(sl)[sl.arr[p(j)].ip]
      BY <1>3, <1>4, <1>5, <2>1
    <2> QED BY <1>3, <2>2, TabledIs
  <1>7. t = [a \in Listed(m) |-> t[a]]
    BY <1>4, <1>5
  <1> HIDE DEF t
  <1>8. Tabled(m) = t
    BY <1>2, <1>6, <1>7, TableOf
  <1> QED BY <1>8 DEF m, t

\* Refreshing the caller's entries among the first n renews its session, or
\* changes nothing when its entry is further back.
LEMMA RefreshTable ==
    ASSUME NEW sl, Fine(sl), NEW ip \in IP, NEW n \in 0..sl.len
    PROVE  /\ Tabled(Refresh(sl, ip, n)) \in {Tabled(sl), Table!Renewed(Tabled(sl), ip)}
           /\ n = sl.len => Tabled(Refresh(sl, ip, n)) = Table!Renewed(Tabled(sl), ip)
           /\ \A i \in 1..sl.len : Refresh(sl, ip, n).arr[i].ip = sl.arr[i].ip
  <1> DEFINE m == Refresh(sl, ip, n)
             t == Table!Renewed(Tabled(sl), ip)
  <1>1. sl.len \in Nat /\ Len(sl.arr) \in Nat /\ sl.len <= Len(sl.arr) /\ n \in Nat
    BY DEF Fine, Good, Slice
  <1>2. Fine(m) /\ m.len = sl.len
    BY <1>1, RefreshFine
  <1>3. \A i \in 1..sl.len :
           /\ m.arr[i].ip = sl.arr[i].ip
           /\ m.arr[i].age = IF i <= n /\ sl.arr[i].ip = ip THEN 0 ELSE sl.arr[i].age
    BY <1>1 DEF Refresh
  <1>4. Listed(m) = Listed(sl)
    <2> HIDE DEF m
    <2> QED BY <1>2, <1>3 DEF Listed
  <1> HIDE DEF m
  <1>5. t = [a \in Listed(m) |-> t[a]] /\ \A a \in Listed(m) : t[a] = IF a = ip THEN 0 ELSE Tabled(sl)[a]
    BY <1>4, TabledIs DEF Table!Renewed
  <1>6. CASE \A i \in 1..sl.len : sl.arr[i].ip = ip => i <= n
    <2>1. \A i \in 1..m.len : t[m.arr[i].ip] = m.arr[i].age
      <3> SUFFICES ASSUME NEW i \in 1..sl.len PROVE t[m.arr[i].ip] = m.arr[i].age
        BY <1>2
      <3>1. m.arr[i].ip \in Listed(m) /\ Tabled(sl)[sl.arr[i].ip] = sl.arr[i].age
        BY <1>2, TabledIs
      <3> QED BY <1>3, <1>5, <1>6, <3>1
    <2> HIDE DEF t
    <2> QED BY <1>2, <1>3, <1>5, <2>1, TableOf DEF m, t
  <1>7. CASE \E k \in 1..sl.len : sl.arr[k].ip = ip /\ n < k
    <2> PICK k \in 1..sl.len : sl.arr[k].ip = ip /\ n < k
      BY <1>7
    <2>1. \A i \in 1..sl.len : i <= n => sl.arr[i].ip # ip
      BY <1>1 DEF Fine, Distinct
    <2>2. \A i \in 1..m.len : Tabled(sl)[m.arr[i].ip] = m.arr[i].age
      BY <1>2, <1>3, <2>1, TabledIs
    <2>3. Tabled(sl) = [a \in Listed(m) |-> Tabled(sl)[a]]
      BY <1>4 DEF Tabled
    <2>4. Tabled(m) = Tabled(sl)
      BY <1>2, <2>2, <2>3, TableOf
    <2> QED BY <1>1, <1>3, <2>4 DEF m
  <1> QED BY <1>1, <1>6, <1>7

\* Adding lists the address with age 0, unless it is listed.
LEMMA AddTable ==
    ASSUME NEW sl, Fine(sl), NEW ip \in IP, sl.arr # <<>>
    PROVE  Tabled(AddNew(sl, [ip |-> ip, age |-> 0])) = Table!Listing(Tabled(sl), ip)
  <1> DEFINE e == [ip |-> ip, age |-> 0]
             m == Extend(sl, e)
             t == Table!Listing(Tabled(sl), ip)
  <1>1. Holds(sl, ip) <=> ip \in Listed(sl)
    BY DEF Holds, Listed
  <1>2. CASE Holds(sl, ip)
    BY <1>1, <1>2, TabledIs DEF AddNew, Table!Listing
  <1>3. CASE ~Holds(sl, ip)
    <2>1. e \in Entry /\ e.ip = ip /\ e.age = 0
      BY SshAssumption DEF Entry, Age
    <2>2. sl.len \in Nat /\ Len(sl.arr) \in Nat /\ sl.len <= Len(sl.arr)
      BY DEF Fine, Good, Slice
    <2> HIDE DEF e
    <2>3. Fine(m) /\ m.len = sl.len + 1
      BY <1>3, <2>1, ExtendFine
    <2>4. \A i \in 1..sl.len : m.arr[i] = sl.arr[i]
      BY <2>2 DEF Extend, Full
    <2>5. m.arr[sl.len + 1] = e
      <3>1. sl.len + 1 <= Len(m.arr) /\ Len(m.arr) \in Nat /\ m.arr \in Seq(Cell)
        BY <2>3 DEF Fine, Good, Slice, Cell
      <3>2. sl.len + 1 \in DOMAIN m.arr
        BY <2>2, <3>1
      <3> QED BY <2>2, <3>2 DEF Extend
    <2> HIDE DEF m
    <2>6. \A i \in 1..m.len : i \in 1..sl.len \/ i = sl.len + 1
      BY <2>2, <2>3
    <2>7. Listed(m) = Listed(sl) \cup {ip}
      <3>1. 1..m.len = 1..sl.len \cup {sl.len + 1}
        BY <2>2, <2>3
      <3> QED BY <2>1, <2>4, <2>5, <3>1 DEF Listed
    <2>8. t = [a \in Listed(m) |-> IF a = ip THEN 0 ELSE Tabled(sl)[a]]
      BY <1>1, <1>3, <2>7, TabledIs DEF Table!Listing
    <2>9. \A i \in 1..m.len : t[m.arr[i].ip] = m.arr[i].age
      <3>1. ASSUME NEW i \in 1..sl.len PROVE t[m.arr[i].ip] = m.arr[i].age
        <4>1. sl.arr[i].ip # ip /\ sl.arr[i].ip \in Listed(m)
          BY <1>3, <2>7, TabledIs DEF Holds
        <4> QED BY <2>4, <2>8, <4>1, TabledIs
      <3>2. t[m.arr[sl.len + 1].ip] = m.arr[sl.len + 1].age
        BY <2>1, <2>5, <2>7, <2>8
      <3> QED BY <2>6, <3>1, <3>2
    <2>10. t = [a \in Listed(m) |-> t[a]]
      BY <2>8
    <2> HIDE DEF t
    <2>11. Tabled(m) = t
      BY <2>3, <2>9, <2>10, TableOf
    <2> QED BY <1>3, <2>1, <2>11 DEF AddNew, m, t, e
  <1> QED BY <1>2, <1>3

\* The sweep prunes the table: the caller's session is renewed, or one that
\* is old goes.
LEMMA SweptTable ==
    ASSUME NEW sl, Fine(sl), NEW ip \in IP, NEW new \in Swept(sl, ip)
    PROVE  Tabled(new) \in Table!Pruned(Tabled(sl), ip)
  <1> DEFINE t == Tabled(sl)
  <1>1. sl.len \in Nat /\ sl.len \in 0..sl.len
    BY DEF Fine, Good, Slice
  <1>2. CASE \A i \in 1..sl.len : ~Expired(sl.arr[i])
    <2>1. new = Refresh(sl, ip, sl.len)
      BY <1>2 DEF Swept
    <2>2. Tabled(new) = Table!Renewed(t, ip)
      BY <1>1, <2>1, RefreshTable
    <2>3. Table!Old(t) = {}
      <3> SUFFICES ASSUME NEW a \in Listed(sl), t[a] > Expiry PROVE FALSE
        BY TabledIs DEF Table!Old
      <3>1. PICK i \in 1..sl.len : sl.arr[i].ip = a
        BY DEF Listed
      <3> QED BY <1>2, <3>1, TabledIs DEF Expired
    <2> QED BY <2>2, <2>3 DEF Table!Pruned
  <1>3. CASE \E i \in 1..sl.len : Expired(sl.arr[i])
    <2>1. PICK i \in 1..sl.len : Expired(sl.arr[i]) /\ new = RemoveAt(Refresh(sl, ip, i), i)
      BY <1>3 DEF Swept
    <2> DEFINE r == Refresh(sl, ip, i)
               v == sl.arr[i].ip
    <2>2. i \in 0..sl.len /\ i \in Nat
      BY <1>1
    <2>3. Fine(r) /\ r.len = sl.len
      BY <2>2, RefreshFine
    <2>4. Tabled(r) \in {t, Table!Renewed(t, ip)} /\ r.arr[i].ip = v
      BY <2>2, RefreshTable
    <2>5. Tabled(new) = Table!Without(Tabled(r), v)
      BY <2>1, <2>3, <2>4, RemoveTable
    <2>6. v \in Table!Old(t)
      BY <2>1, TabledIs DEF Table!Old, Expired
    <2>7. Tabled(new) \in {Table!Without(s, w) : s \in {t, Table!Renewed(t, ip)}, w \in Table!Old(t)}
      BY <2>4, <2>5, <2>6
    <2> QED BY <2>6, <2>7 DEF Table!Pruned
  <1> QED BY <1>2, <1>3

\* Time makes the sessions of the table older.
LEMMA OlderTable ==
    ASSUME NEW sl, Fine(sl), NEW m, Fine(m), m.len = sl.len, m.arr = Older(sl.arr)
    PROVE  Tabled(m) = Table!Aged(Tabled(sl))
  <1> DEFINE t == Table!Aged(Tabled(sl))
  <1>1. sl.len \in Nat /\ sl.arr \in Seq(Cell) /\ Len(sl.arr) \in Nat /\ sl.len <= Len(sl.arr)
    BY DEF Fine, Good, Slice, Cell
  <1>2. \A i \in 1..sl.len : sl.arr[i] \in Cell /\ i \in DOMAIN sl.arr
    BY <1>1
  <1>3. \A e \in Cell : [e EXCEPT !.age = IF @ > Expiry THEN @ ELSE @ + 1].age
                          = IF e.age > Expiry THEN e.age ELSE e.age + 1
    BY DEF Cell, Entry, Blank
  <1>4. \A i \in 1..sl.len : /\ m.arr[i].ip = sl.arr[i].ip
                             /\ m.arr[i].age = IF sl.arr[i].age > Expiry THEN sl.arr[i].age
                                               ELSE sl.arr[i].age + 1
    BY <1>2, <1>3, CellAges DEF Older
  <1>5. Listed(m) = Listed(sl)
    BY <1>4 DEF Listed
  <1>6. t = [a \in Listed(m) |-> IF Tabled(sl)[a] > Expiry THEN Tabled(sl)[a] ELSE Tabled(sl)[a] + 1]
    BY <1>5, TabledIs DEF Table!Aged
  <1>7. \A i \in 1..m.len : t[m.arr[i].ip] = m.arr[i].age
    BY <1>4, <1>5, <1>6, TabledIs
  <1>8. t = [a \in Listed(m) |-> t[a]]
    BY <1>6
  <1> HIDE DEF t
  <1>9. Tabled(m) = t
    BY <1>7, <1>8, TableOf
  <1> QED BY <1>9 DEF t

-----------------------------------------------------------------------------
(* Each step is one of the table's. *)

\* The tables, and the request or last result, without the kind of request.
Tables == [u \in User |-> Tabled(active[u])]
Asking == IF Locked THEN [user |-> req.user, ip |-> req.ip, res |-> "wait"] ELSE req

\* One list that changes is one table that changes.
LEMMA OneTable ==
    ASSUME Inv, NEW u \in User, NEW new, active' = [active EXCEPT ![u] = new]
    PROVE  Tables' = [Tables EXCEPT ![u] = Tabled(new)] /\ Tables[u] = Tabled(active[u])
  <1>1. \A w \in User : active'[w] = IF w = u THEN new ELSE active[w]
    BY DEF Inv
  <1>2. Tables' = [w \in User |-> IF w = u THEN Tabled(new) ELSE Tabled(active[w])]
    BY <1>1 DEF Tables
  <1> QED BY <1>2 DEF Tables

\* A decision admits or refuses.
LEMMA PolicyTable ==
    ASSUME Inv, NEW u \in User, NEW ip \in IP, connPolicy(u, ip)
    PROVE  (Table!Admit(u, ip) \/ Table!Refuse(u, ip))
  <1> DEFINE mine == [ip |-> ip, age |-> 0]
  <1>1. Table!Asked(u, ip) /\ Asking = [user |-> u, ip |-> ip, res |-> "wait"]
    BY DEF connPolicy, Table!Asked, Asking
  <1>2. ASSUME NEW new, NEW res \in {"allow", "drop"}, Finish(u, ip, new, res)
        PROVE  /\ Asking' = [res |-> res]
               /\ Tables' = [Tables EXCEPT ![u] = Tabled(new)] /\ Tables[u] = Tabled(active[u])
    <2>1. Asking' = [res |-> res]
      BY <1>2 DEF Finish, Asking, Locked
    <2>2. active' = [active EXCEPT ![u] = new]
      BY <1>2 DEF Finish
    <2> QED BY <2>1, <2>2, OneTable
  <1>3. Fine(active[u])
    BY DEF Inv, Lists
  <1>4. ASSUME NEW sl, Fine(sl), sl.arr # <<>>, SessionPerUser > 0, sl.len <= SessionPerUser,
               Tabled(sl) \in Table!Pruned(Tabled(active[u]), ip),
               NEW new, Tabled(new) = Table!Listing(Tabled(sl), ip), Finish(u, ip, new, "allow")
        PROVE  Table!Admit(u, ip)
    <2>1. Cardinality(DOMAIN Tabled(sl)) <= SessionPerUser
      BY <1>4, TableSize
    <2>2. /\ Asking' = [res |-> "allow"]
          /\ Tables' = [Tables EXCEPT ![u] = Table!Listing(Tabled(sl), ip)]
          /\ Tables[u] = Tabled(active[u])
      BY <1>2, <1>4
    <2>3. \E t \in Table!Pruned(Tables[u], ip) :
             /\ Cardinality(DOMAIN t) <= SessionPerUser
             /\ Tables' = [Tables EXCEPT ![u] = Table!Listing(t, ip)]
      BY <1>4, <2>1, <2>2
    <2> QED BY <1>1, <1>4, <2>2, <2>3, SameCount DEF Table!Admit, Tables, Asking
  <1>5. CASE SessionPerUser <= 0
    <2>1. Finish(u, ip, active[u], "allow")
      BY <1>5 DEF connPolicy
    <2>2. active' = active
      BY <2>1 DEF Finish, Inv
    <2>3. Tables' = Tables /\ Asking' = [res |-> "allow"]
      BY <1>2, <2>1, <2>2 DEF Tables
    <2> QED BY <1>1, <1>5, <2>3 DEF Table!Admit, Tables, Asking
  <1>6. CASE SessionPerUser > 0 /\ ~InMap(u)
    <2>1. Finish(u, ip, [arr |-> <<mine>>, len |-> 1], "allow")
      BY <1>6, SshAssumption DEF connPolicy
    <2> DEFINE one == [arr |-> <<mine>>, len |-> 1]
    <2>2. active[u] = NoEntry /\ Fine(NoEntry) /\ NoEntry.len = 0 /\ Listed(NoEntry) = {}
      BY <1>6, NoEntryFine DEF InMap, NoEntry, Listed
    <2>3. DOMAIN Tabled(NoEntry) = {} /\ Table!Old(Tabled(NoEntry)) = {}
      BY <2>2, TabledIs DEF Table!Old
    <2>4. /\ Table!Pruned(Tabled(NoEntry), ip) = {Table!Renewed(Tabled(NoEntry), ip)}
          /\ Table!Renewed(Tabled(NoEntry), ip) = Tabled(NoEntry)
      <3>1. Tabled(NoEntry) = [a \in {} |-> 0]
        BY <2>2 DEF Tabled
      <3> QED BY <2>3, <3>1 DEF Table!Pruned, Table!Renewed
    <2>5. Tabled(one) = Table!Listing(Tabled(NoEntry), ip)
      <3>1. Listed(one) = {ip}
        BY DEF Listed
      <3>2. Tabled(one) = [a \in {ip} |-> 0]
        BY <3>1 DEF Tabled
      <3>3. Table!Listing(Tabled(NoEntry), ip) = [a \in {ip} |-> 0]
        BY <2>3 DEF Table!Listing
      <3> QED BY <3>2, <3>3
    <2>6. Cardinality(DOMAIN Tabled(NoEntry)) <= SessionPerUser
      BY <1>6, <2>2, TableSize, SshAssumption
    <2>7. /\ Asking' = [res |-> "allow"] /\ Tables' = [Tables EXCEPT ![u] = Tabled(one)]
          /\ Tables[u] = Tabled(NoEntry)
      BY <1>2, <2>1, <2>2
    <2>8. \E t \in Table!Pruned(Tables[u], ip) :
             /\ Cardinality(DOMAIN t) <= SessionPerUser
             /\ Tables' = [Tables EXCEPT ![u] = Table!Listing(t, ip)]
      BY <2>4, <2>5, <2>6, <2>7
    <2> QED BY <1>1, <1>6, <2>7, <2>8, SameCount DEF Table!Admit, Tables, Asking
  <1>7. CASE SessionPerUser > 0 /\ InMap(u)
    <2>1. PICK sl \in Swept(active[u], ip) :
             IF TooMany(sl) THEN Finish(u, ip, sl, "drop")
             ELSE Finish(u, ip, AddNew(sl, mine), "allow")
      BY <1>7, SshAssumption DEF connPolicy
    <2>2. Fine(sl) /\ sl.arr # <<>> /\ sl.len \in Nat
      BY <1>3, <1>7, InMapHasArray, SweptFine DEF Fine, Good, Slice
    <2>3. Tabled(sl) \in Table!Pruned(Tabled(active[u]), ip)
      BY <1>3, SweptTable
    <2>4. CASE TooMany(sl)
      <3>1. Cardinality(DOMAIN Tabled(sl)) > SessionPerUser
        BY <2>2, <2>4, TableSize DEF TooMany
      <3>2. /\ Asking' = [res |-> "drop"] /\ Tables' = [Tables EXCEPT ![u] = Tabled(sl)]
            /\ Tables[u] = Tabled(active[u])
        BY <1>2, <2>1, <2>4
      <3>3. \E t \in Table!Pruned(Tables[u], ip) :
               /\ Cardinality(DOMAIN t) > SessionPerUser
               /\ Tables' = [Tables EXCEPT ![u] = t]
        BY <2>3, <3>1, <3>2
      <3> QED BY <1>1, <1>7, <3>2, <3>3, SameCount DEF Table!Refuse, Tables, Asking
    <2>5. CASE ~TooMany(sl)
      <3>1. Finish(u, ip, AddNew(sl, mine), "allow") /\ sl.len <= SessionPerUser
        BY <2>1, <2>2, <2>5, SshAssumption DEF TooMany
      <3>2. Tabled(AddNew(sl, mine)) = Table!Listing(Tabled(sl), ip)
        BY <2>2, AddTable
      <3> HIDE DEF mine
      <3> QED BY <1>4, <1>7, <2>2, <2>3, <3>1, <3>2
    <2> QED BY <2>4, <2>5
  <1> QED BY <1>5, <1>6, <1>7, SshAssumption

\* The cleaner's removal forgets one session, whichever it finds.
LEMMA RemoveForgets ==
    ASSUME Inv, Remove
    PROVE  UNCHANGED <<Tables, Asking>> \/ \E u \in User : Table!Forget(u)
  <1> DEFINE u == at.user
  <1>1. u \in User /\ at.i \in Nat \ {0} /\ Fine(active[u]) /\ active[u].len \in Nat
    BY DEF Inv, CleanerOK, Remove, Lists, Fine, Good, Slice
  <1>2. ~Locked /\ UNCHANGED req
    BY DEF Remove
  <1>3. Asking' = Asking /\ Asking.res # "wait"
    BY <1>2 DEF Asking, Locked
  <1>4. CASE at.i > active[u].len
    BY <1>3, <1>4 DEF Remove, Tables
  <1>5. CASE ~(at.i > active[u].len)
    <2>1. active' = [active EXCEPT ![u] = RemoveAt(active[u], at.i)] /\ at.i \in 1..active[u].len
      BY <1>1, <1>5 DEF Remove
    <2>2. /\ Tables' = [Tables EXCEPT ![u] = Tabled(RemoveAt(active[u], at.i))]
          /\ Tables[u] = Tabled(active[u])
      BY <1>1, <2>1, OneTable
    <2>3. Tabled(RemoveAt(active[u], at.i))
             = Table!Without(Tabled(active[u]), active[u].arr[at.i].ip)
      BY <1>1, <2>1, RemoveTable
    <2>4. active[u].arr[at.i].ip \in DOMAIN Tabled(active[u])
      BY <1>1, <2>1, TabledIs
    <2>5. Table!Forget(u)
      BY <1>3, <2>2, <2>3, <2>4 DEF Table!Forget, Tables, Asking
    <2> QED BY <1>1, <2>5
  <1> QED BY <1>4, <1>5

\* Time passes for the tables.
LEMMA TickPasses == ASSUME Inv, Tick PROVE Table!Pass
  <1>1. Inv'
    BY TickInv
  <1>2. ASSUME NEW u \in User PROVE Tabled(active'[u]) = Table!Aged(Tabled(active[u]))
    <2>1. active'[u] = [active[u] EXCEPT !.arr = Older(active[u].arr)]
      BY DEF Tick
    <2>2. Fine(active[u]) /\ Fine(active'[u]) /\ active[u] \in [arr : Seq(Cell), len : Nat]
      BY <1>1 DEF Inv, Lists, Slice, Cell
    <2>3. active'[u].len = active[u].len /\ active'[u].arr = Older(active[u].arr)
      BY <2>1, <2>2
    <2> QED BY <2>2, <2>3, OlderTable
  <1>3. Tables' = [u \in User |-> Table!Aged(Tables[u])]
    BY <1>2 DEF Tables
  <1>4. Asking' = Asking
    BY DEF Tick, Asking, Locked
  <1> QED BY <1>3, <1>4 DEF Table!Pass, Tables, Asking

\* Every step is one of the table's, or none.
LEMMA TableStep ==
    ASSUME Inv, [Next]_vars
    PROVE  [Table!TableNext]_<<Tables, Asking>>
  <1>1. ASSUME NEW u \in User, NEW ip \in IP, Enter(u, ip) PROVE Table!Ask(u, ip)
    <2>1. Asking.res # "wait" /\ Asking' = [user |-> u, ip |-> ip, res |-> "wait"]
      BY <1>1 DEF Enter, Asking, Locked
    <2>2. Tables' = Tables
      BY <1>1 DEF Enter, Tables
    <2> QED BY <2>1, <2>2 DEF Table!Ask, Tables, Asking
  <1>2. CASE \/ WakeUp \/ Sleep \/ Scan \/ UNCHANGED vars
             \/ \E u \in User : NextUser(u)
             \/ \E u \in User, ip \in IP : Disconnect(u, ip)
    <2>1. UNCHANGED <<active, req>>
      BY <1>2 DEF WakeUp, Sleep, Scan, NextUser, Disconnect, vars
    <2> QED BY <2>1 DEF Tables, Asking, Locked
  <1>3. CASE Policy
    BY <1>3, PolicyTable DEF Policy, Table!TableNext
  <1>4. CASE Remove
    BY <1>4, RemoveForgets DEF Table!TableNext
  <1>5. CASE Tick
    BY <1>5, TickPasses DEF Table!TableNext
  <1> QED BY <1>1, <1>2, <1>3, <1>4, <1>5 DEF Next, Cleaner, Table!TableNext

(* However connPolicy, expiry and the unlocked cleaner interleave on the    *)
(* slices, callers see a table of addresses from which a decision takes at  *)
(* most one session, that old, and the cleaner any one between decisions    *)
(* (main.go:62-124, 145-162).                                               *)
THEOREM TableHolds == Spec => TableSafe
  <1>1. Init => Table!TableInit
    <2> SUFFICES ASSUME Init PROVE Table!TableInit
      OBVIOUS
    <2>1. Tabled(NoEntry) = [a \in {} |-> 0]
      <3>1. Listed(NoEntry) = {}
        BY DEF Listed, NoEntry
      <3> QED BY <3>1 DEF Tabled
    <2>2. ~Locked /\ req = [res |-> "none"] /\ active = [u \in User |-> NoEntry]
      BY DEF Init, Locked
    <2> QED BY <2>1, <2>2 DEF Table!TableInit
  <1>2. Inv /\ [Next]_vars => [Table!TableNext]_<<Tables, Asking>>
    BY TableStep
  <1>3. Spec => []Inv
    BY InitInv, NextInv, PTL DEF Spec
  <1> QED BY <1>1, <1>2, <1>3, PTL DEF Spec, TableSafe, Table!TableSpec, Table!tableVars, Tables, Asking
=============================================================================
