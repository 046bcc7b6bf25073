-------------------------------- MODULE Mhs --------------------------------
(***************************************************************************)
(* mhs: a server that takes Splunk HEC requests and logs their events.     *)
(* Each request is handled by a goroutine of its own; the log is shared.   *)
(* A body is a sequence of lines: an event, "blank", or "bad" (not a JSON  *)
(* object).  validate takes one event, validate_bulk an array: there, too, *)
(* "bad" stands for anything else.                                         *)
(***************************************************************************)
EXTENDS Naturals, Sequences, SequencesExt

CONSTANTS Request,
          BodyMax           \* bound on lines of a body

ASSUME MhsAssumption == BodyMax \in Nat

VARIABLES ask,          \* ask[q]: path, method, whether the token is right, body
          mhsSt,        \* "idle", "auth", "handle", "body" (reading it),
                        \* "lines" or "answered"
          at,         \* at[q]: the line the loop is at
          status,       \* status[q]: as WriteHeader had it, 0 before
          events        \* the log: pairs of request and line, 0 for a whole body

mhsVars == <<ask, mhsSt, at, status, events>>

Paths == {"event", "raw", "validate", "bulk", "health", "other"}
LineKinds == {"event", "blank", "bad"}
Bodies == UNION {[1..n -> LineKinds] : n \in 0..BodyMax}
NoAsk == [path |-> "other", method |-> "GET", token |-> FALSE, body |-> <<>>]

MhsInit ==
    /\ ask = [q \in Request |-> NoAsk]
    /\ mhsSt = [q \in Request |-> "idle"]
    /\ at = [q \in Request |-> 1]
    /\ status = [q \in Request |-> 0]
    /\ events = <<>>

In(q, st) == mhsSt[q] = st
Turns(q, st) == mhsSt' = [mhsSt EXCEPT ![q] = st]

Arrive(q) ==
    /\ In(q, "idle")
    /\ \E p \in Paths, m \in {"GET", "POST"}, t \in BOOLEAN :
          ask' = [ask EXCEPT ![q] = [path |-> p, method |-> m, token |-> t, body |-> <<>>]]
    /\ Turns(q, "auth")
    /\ UNCHANGED <<at, status, events>>

Respond(q, code) == Turns(q, "answered") /\ status' = [status EXCEPT ![q] = code]

\* tokenAuth; health and unknown paths are not under it.
tokenAuth(q) ==
    /\ In(q, "auth")
    /\ IF ask[q].path \in {"health", "other"} \/ ask[q].token
       THEN Turns(q, "handle") /\ UNCHANGED status
       ELSE Respond(q, 403)
    /\ UNCHANGED <<ask, at, events>>

MethodOf(q) == IF ask[q].path = "health" THEN "GET" ELSE "POST"

Routed(q) == In(q, "handle") /\ ask[q].path # "other"
Posted(q) == Routed(q) /\ ask[q].path # "health" /\ ask[q].method = "POST"

\* What is refused or answered without a body: the mux, the method, health.
NoBody(q) ==
    /\ \/ In(q, "handle") /\ ask[q].path = "other" /\ Respond(q, 404)
       \/ Routed(q) /\ ask[q].method # MethodOf(q) /\ Respond(q, 405)
       \/ Routed(q) /\ ask[q].path = "health" /\ ask[q].method = "GET" /\ Respond(q, 200)
    /\ UNCHANGED <<ask, at, events>>

\* Whether json.Unmarshal takes the whole body, and for how many events.
Parses(path, b) ==
    CASE path = "event" -> TRUE
      [] path = "validate" -> "bad" \notin Range(b) /\ \E n \in 1..Len(b) : \A k \in 1..Len(b) : b[k] = "event" <=> k = n
      [] path = "bulk" -> "bad" \notin Range(b)

(* io.ReadAll waits for the client, without a limit of time: the server has *)
(* no ReadTimeout (main.go:39).                                            *)
ReadBody(q) == Posted(q) /\ Turns(q, "body") /\ UNCHANGED <<ask, at, status, events>>

\* The connection is closed or fails before the end of the body.
BodyFails(q) == In(q, "body") /\ Respond(q, 500) /\ UNCHANGED <<ask, at, events>>

(* The body has been read: raw logs it, the others go over its events.     *)
Body(q) ==
    /\ In(q, "body")
    /\ \E b \in Bodies :
          /\ ask' = [ask EXCEPT ![q].body = b]
          /\ IF ask[q].path = "raw"
             THEN Respond(q, 200) /\ events' = Append(events, <<q, 0>>)
             ELSE /\ IF Parses(ask[q].path, b) THEN Turns(q, "lines") /\ UNCHANGED status
                     ELSE Respond(q, 400)
                  /\ UNCHANGED events
    /\ UNCHANGED at

AtLine(q) == ask[q].body[at[q]]
\* Mutant: a bad line is skipped.
BadSkips(q) == UNCHANGED <<mhsSt, status>>
BadLine(q) == Respond(q, 400)

\* One turn of a loop over lines or events: the first bad line ends it.
HandleLine(q) ==
    /\ In(q, "lines") /\ at[q] <= Len(ask[q].body)
    /\ at' = [at EXCEPT ![q] = @ + 1]
    /\ \/ AtLine(q) = "blank" /\ UNCHANGED <<mhsSt, status, events>>
       \/ AtLine(q) = "event" /\ events' = Append(events, <<q, at[q]>>) /\ UNCHANGED <<mhsSt, status>>
       \/ AtLine(q) = "bad" /\ BadLine(q) /\ UNCHANGED events
    /\ UNCHANGED ask

LinesDone(q) ==
    /\ In(q, "lines") /\ at[q] > Len(ask[q].body)
    /\ Respond(q, 200)
    /\ UNCHANGED <<ask, at, events>>

FromClient(q) == Arrive(q) \/ BodyFails(q) \/ Body(q)
InHandler(q) == tokenAuth(q) \/ NoBody(q) \/ ReadBody(q) \/ HandleLine(q) \/ LinesDone(q)

MhsNext == \E q \in Request : FromClient(q) \/ InHandler(q)
MhsSpec == MhsInit /\ [][MhsNext]_mhsVars

(* A handler goes on when it can; a client need not send its body.         *)
MhsWork == \E q \in Request : InHandler(q)
MhsFairSpec == MhsSpec /\ WF_mhsVars(MhsWork)

-----------------------------------------------------------------------------
MhsTypeOK ==
    /\ ask \in [Request -> [path : Paths, method : {"GET", "POST"}, token : BOOLEAN, body : Bodies]]
    /\ mhsSt \in [Request -> {"idle", "auth", "handle", "body", "lines", "answered"}]
    /\ at \in [Request -> 1..BodyMax + 1]
    /\ status \in [Request -> {0, 200, 400, 403, 404, 405, 500}]
    /\ events \in Seq(Request \X (0..BodyMax))

\* The places of a request's entries in the log.
Logged(q) == {i \in 1..Len(events) : events[i][1] = q}
FirstBad(b) == CHOOSE n \in 1..Len(b) + 1 : /\ n <= Len(b) => b[n] = "bad"
                                            /\ \A k \in 1..n - 1 : b[k] # "bad"

(* The answer tells which of a request's events are in the log, whatever   *)
(* the other requests log in between: after 200 all of them, after 400 by  *)
(* the event handler those before the first bad line, after any other      *)
(* answer none; each once and in order (main.go:60-183).                   *)
AnswerTellsLog ==
    \A q \in Request : status[q] # 0 =>
        LET b == ask[q].body
            upto == CASE status[q] = 200 -> Len(b)
                      [] status[q] = 400 /\ ask[q].path = "event" -> FirstBad(b) - 1
                      [] OTHER -> 0
        IN IF ask[q].path = "raw"
           THEN IF status[q] = 200 THEN \E i \in Logged(q) : Logged(q) = {i} ELSE Logged(q) = {}
           ELSE /\ {events[i][2] : i \in Logged(q)} = {n \in 1..upto : b[n] = "event"}
                /\ \A i, j \in Logged(q) : i < j => events[i][2] < events[j][2]
                /\ status[q] = 200 => \A n \in 1..Len(b) : b[n] # "bad"

(* Every request is answered, but for one whose client stops in the middle *)
(* of the body: for that one alone its handler waits, and answers once the *)
(* body is there or its connection is gone (main.go:69, 110, 132, 161).    *)
RequestAnswered ==
    \A q \in Request : ~In(q, "idle") ~> In(q, "answered") \/ In(q, "body")

(* A request that is refused leaves nothing in the log (main.go:90).       *)
RefusedLeavesNothing ==
    \A q \in Request : status[q] \notin {0, 200} => Logged(q) = {}
=============================================================================
