------------------------------- MODULE Tunnel -------------------------------
(***************************************************************************)
(* sctptunnel: TCP connections multiplexed over one SCTP association.      *)
(*                                                                         *)
(* The client accepts TCP connections and gives each a random unused SCTP  *)
(* stream number (SID); the server dials its upstream at the first message *)
(* of an unknown SID.  On each side a reader goroutine takes messages off  *)
(* the association and pushes them into the stream's bounded channel In,   *)
(* and one pipe() goroutine per connection moves data both ways.           *)
(*                                                                         *)
(* Data are chunks: chunk <<s, k>> is the k-th read of the TCP peer of     *)
(* connection s; all chunks have one length.  The server's reader reuses   *)
(* one array for every message and queues slices of it: an element Shared  *)
(* stands for such a slice, buf for the array.                             *)
(***************************************************************************)
EXTENDS Naturals, Sequences, FiniteSets, FiniteSetsExt

CONSTANTS Sid,        \* stream numbers; stream entries are never removed
          Writes,     \* Writes[d, s]: chunks the TCP peer of s on side d writes
          InCap,      \* capacity of a stream's channel In (1024)
          NetCap,     \* messages the association holds in one direction
          Closing,    \* sides whose TCP peers may close or reset
          Faults      \* subset of {"assoc", "dial"}: what may fail

Side == {"client", "server"}
Peer(d) == IF d = "client" THEN "server" ELSE "client"
End == Side \X Sid

Eof    == <<"eof", 0>>      \* the nil slice getChannel sends on an error
Shared == <<"buf", 0>>      \* a slice of the server's array
Torn   == <<"torn", 0>>     \* a mixture of messages

ASSUME TunnelAssumption ==
    /\ Writes \in [End -> Nat]
    /\ InCap \in Nat \ {0}
    /\ NetCap \in Nat \ {0}
    /\ Closing \subseteq Side
    /\ Faults \subseteq {"assoc", "dial"}
    /\ Sid \cap {"eof", "buf", "torn"} = {}

VARIABLES assoc,   \* the association: "up" or "down"
          rdr,     \* rdr[d]: the reader goroutine, "open" or "closed"
          buf,     \* content of the server's array
          net,     \* net[d, s]: messages on stream s on their way to side d
          pend,    \* pend[d, s]: the slice the reader is blocked on sending
          inq,     \* inq[d, s]: the stream's channel In
          ch1,     \* ch1[d, s]: offered on the stream's getChannel channel
          b1,      \* b1[d, s]: pipe's b1, being written to the TCP peer
          out,     \* out[d, s]: what the TCP peer of side d received
          ch2,     \* ch2[d, s]: offered on the TCP peer's getChannel channel
          b2,      \* b2[d, s]: pipe's b2, being written to the stream
          nread,   \* nread[d, s]: chunks read from the TCP peer so far
          hnd      \* hnd[d, s]: the connection's handler goroutine

vars == <<assoc, rdr, buf, net, pend, inq, ch1, b1, out, ch2, b2, nread, hnd>>

Chunk == Sid \X Nat
Empty == [e \in End |-> <<>>]

\* Queue q[e] with x at its end, without its head.
Put(q, e, x) == [q EXCEPT ![e] = Append(@, x)]
Drop(q, e)   == [q EXCEPT ![e] = Tail(@)]

Init ==
    /\ assoc = "up" /\ rdr = [d \in Side |-> "open"] /\ buf = Torn
    /\ net = Empty /\ pend = Empty /\ inq = Empty /\ ch1 = Empty /\ b1 = Empty
    /\ out = Empty /\ ch2 = Empty /\ b2 = Empty
    /\ nread = [e \in End |-> 0]
    /\ hnd = [e \in End |-> "none"]

Known(d, s) == hnd[d, s] # "none"             \* s is in the streams map
\* Mutant: does not wait for its own writes.
AtSelectBusy(d, s) == hnd[d, s] = "pipe"
AtSelect(d, s) == hnd[d, s] = "pipe" /\ b1[d, s] = <<>> /\ b2[d, s] = <<>>
ReaderIdle(d) == rdr[d] = "open" /\ \A s \in Sid : pend[d, s] = <<>>
InFlight(d) == MapThenSumSet(LAMBDA s : Len(net[d, s]), Sid)

-----------------------------------------------------------------------------
(* The client accepts a connection: the random SID is one not in the map.  *)
Accept(s) ==
    /\ ~Known("client", s)
    /\ hnd' = [hnd EXCEPT ![<<"client", s>>] = "pipe"]
    /\ UNCHANGED <<assoc, rdr, buf, net, pend, inq, ch1, b1, out, ch2, b2, nread>>

\* What a side queues for message m: the client a fresh slice that holds m,
\* the server a slice of its one array.
Elem(d, m) == IF d = "client" THEN m ELSE Shared

(* SCTPRead returns a message of stream s; the reader finds or creates the *)
(* stream and goes on to send the slice to its channel.                    *)
Recv(d, s) ==
    /\ assoc = "up" /\ ReaderIdle(d) /\ net[d, s] # <<>>
    /\ net' = Drop(net, <<d, s>>)
    /\ IF d = "server"
       THEN /\ buf' = Head(net[d, s])
            /\ hnd' = IF Known(d, s) THEN hnd ELSE [hnd EXCEPT ![<<d, s>>] = "dial"]
       ELSE UNCHANGED <<buf, hnd>>
    /\ pend' = IF d = "server" \/ Known(d, s)
               THEN Put(pend, <<d, s>>, Elem(d, Head(net[d, s]))) ELSE pend
    /\ UNCHANGED <<assoc, rdr, inq, ch1, b1, out, ch2, b2, nread>>

\* Mutant: never blocks, drops when the channel is full.
EnqueueOrDrop(d, s) ==
    /\ pend[d, s] # <<>>
    /\ inq' = IF Len(inq[d, s]) < InCap THEN Put(inq, <<d, s>>, Head(pend[d, s])) ELSE inq
    /\ pend' = Drop(pend, <<d, s>>)
    /\ UNCHANGED <<assoc, rdr, buf, net, ch1, b1, out, ch2, b2, nread, hnd>>

(* s.In <- b: blocks while the channel is full. *)
Enqueue(d, s) ==
    /\ pend[d, s] # <<>> /\ Len(inq[d, s]) < InCap
    /\ inq' = Put(inq, <<d, s>>, Head(pend[d, s]))
    /\ pend' = Drop(pend, <<d, s>>)
    /\ UNCHANGED <<assoc, rdr, buf, net, ch1, b1, out, ch2, b2, nread, hnd>>

(* SCTPRead fails: the reader closes the association and returns. *)
RecvErr(d) ==
    /\ assoc = "down" /\ ReaderIdle(d)
    /\ rdr' = [rdr EXCEPT ![d] = "closed"]
    /\ UNCHANGED <<assoc, buf, net, pend, inq, ch1, b1, out, ch2, b2, nread, hnd>>

(* The server dials the upstream of a new stream; when that fails it keeps *)
(* reading the stream and throws the data away.                            *)
Dial(s) ==
    /\ hnd["server", s] = "dial"
    /\ \E r \in {"pipe"} \cup (IF "dial" \in Faults THEN {"discard"} ELSE {}) :
          hnd' = [hnd EXCEPT ![<<"server", s>>] = r]
    /\ UNCHANGED <<assoc, rdr, buf, net, pend, inq, ch1, b1, out, ch2, b2, nread>>

Discard(s) ==
    /\ hnd["server", s] = "discard" /\ inq["server", s] # <<>>
    /\ inq' = Drop(inq, <<"server", s>>)
    /\ UNCHANGED <<assoc, rdr, buf, net, pend, ch1, b1, out, ch2, b2, nread, hnd>>

\* Mutant: leaves the slice in the channel.
StreamPeek(d, s) ==
    /\ hnd[d, s] \in {"pipe", "done"} /\ ch1[d, s] = <<>> /\ inq[d, s] # <<>>
    /\ ch1' = Put(ch1, <<d, s>>, Head(inq[d, s]))
    /\ UNCHANGED <<assoc, rdr, buf, net, inq, pend, b1, out, ch2, b2, nread, hnd>>

(* The stream's getChannel goroutine: <-s.In, then copy, then offer.  It   *)
(* outlives pipe(), blocked for ever on its offer.                         *)
StreamRead(d, s) ==
    /\ hnd[d, s] \in {"pipe", "done"} /\ ch1[d, s] = <<>> /\ inq[d, s] # <<>>
    /\ ch1' = Put(ch1, <<d, s>>, Head(inq[d, s]))
    /\ inq' = Drop(inq, <<d, s>>)
    /\ UNCHANGED <<assoc, rdr, buf, net, pend, b1, out, ch2, b2, nread, hnd>>

\* What a copy of the server's array yields: its content, or a mixture when
\* the reader may be writing the next message into it at the same time.
BufContents == {buf} \cup
    IF assoc = "up" /\ ReaderIdle("server") /\ InFlight("server") > 0
    THEN {Torn} ELSE {}

CopySlice(s) ==
    /\ ch1["server", s] = <<Shared>>
    /\ \E x \in BufContents : ch1' = [ch1 EXCEPT ![<<"server", s>>] = <<x>>]
    /\ UNCHANGED <<assoc, rdr, buf, net, pend, inq, b1, out, ch2, b2, nread, hnd>>

(* The TCP peer's getChannel goroutine: a chunk, or nil at end or error. *)
TcpRead(d, s) ==
    /\ hnd[d, s] = "pipe" /\ ch2[d, s] = <<>>
    /\ \/ /\ nread[d, s] < Writes[d, s]
          /\ nread' = [nread EXCEPT ![<<d, s>>] = @ + 1]
          /\ ch2' = Put(ch2, <<d, s>>, <<s, nread[d, s] + 1>>)
       \/ /\ d \in Closing
          /\ ch2' = Put(ch2, <<d, s>>, Eof)
          /\ UNCHANGED nread
    /\ UNCHANGED <<assoc, rdr, buf, net, pend, inq, ch1, b1, out, b2, hnd>>

-----------------------------------------------------------------------------
(* pipe(): one goroutine that selects, then writes what it received. *)
SelectStream(d, s) ==
    /\ AtSelect(d, s) /\ ch1[d, s] # <<>> /\ Head(ch1[d, s]) # Shared
    /\ b1' = Put(b1, <<d, s>>, Head(ch1[d, s]))
    /\ ch1' = Drop(ch1, <<d, s>>)
    /\ UNCHANGED <<assoc, rdr, buf, net, pend, inq, out, ch2, b2, nread, hnd>>

SelectTcp(d, s) ==
    /\ AtSelect(d, s) /\ ch2[d, s] # <<>>
    /\ ch2' = Drop(ch2, <<d, s>>)
    /\ IF Head(ch2[d, s]) = Eof
       THEN hnd' = [hnd EXCEPT ![<<d, s>>] = "done"] /\ UNCHANGED b2
       ELSE b2' = Put(b2, <<d, s>>, Head(ch2[d, s])) /\ UNCHANGED hnd
    /\ UNCHANGED <<assoc, rdr, buf, net, pend, inq, ch1, b1, out, nread>>

\* Mutant: no return after an error of Write.
WriteTcpGoesOn(d, s) ==
    /\ hnd[d, s] = "pipe" /\ b1[d, s] # <<>>
    /\ b1' = Drop(b1, <<d, s>>)
    /\ out' = Put(out, <<d, s>>, Head(b1[d, s])) \/ (d \in Closing /\ UNCHANGED out)
    /\ UNCHANGED <<assoc, rdr, buf, net, pend, inq, ch1, ch2, b2, nread, hnd>>

WriteTcp(d, s) ==
    /\ hnd[d, s] = "pipe" /\ b1[d, s] # <<>>
    /\ b1' = Drop(b1, <<d, s>>)
    /\ \/ out' = Put(out, <<d, s>>, Head(b1[d, s])) /\ UNCHANGED hnd
       \/ d \in Closing /\ hnd' = [hnd EXCEPT ![<<d, s>>] = "done"] /\ UNCHANGED out
    /\ UNCHANGED <<assoc, rdr, buf, net, pend, inq, ch1, ch2, b2, nread>>

\* Mutant: does not wait for room.
WriteSctpOrDrop(d, s) ==
    /\ hnd[d, s] = "pipe" /\ b2[d, s] # <<>>
    /\ b2' = Drop(b2, <<d, s>>)
    /\ net' = IF InFlight(Peer(d)) < NetCap
              THEN Put(net, <<Peer(d), s>>, Head(b2[d, s])) ELSE net
    /\ UNCHANGED <<assoc, rdr, buf, pend, inq, ch1, b1, out, ch2, nread, hnd>>

\* Mutant: on a lost association it goes on waiting.
WriteSctpHangs(d, s) ==
    /\ hnd[d, s] = "pipe" /\ b2[d, s] # <<>> /\ assoc = "up" /\ InFlight(Peer(d)) < NetCap
    /\ b2' = Drop(b2, <<d, s>>)
    /\ net' = Put(net, <<Peer(d), s>>, Head(b2[d, s]))
    /\ UNCHANGED <<assoc, rdr, buf, pend, inq, ch1, b1, out, ch2, nread, hnd>>

(* SCTPWrite blocks while the association has no room. *)
WriteSctp(d, s) ==
    /\ hnd[d, s] = "pipe" /\ b2[d, s] # <<>>
    /\ b2' = Drop(b2, <<d, s>>)
    /\ \/ /\ assoc = "up" /\ InFlight(Peer(d)) < NetCap
          /\ net' = Put(net, <<Peer(d), s>>, Head(b2[d, s]))
          /\ UNCHANGED hnd
       \/ /\ assoc = "down"
          /\ hnd' = [hnd EXCEPT ![<<d, s>>] = "done"]
          /\ UNCHANGED net
    /\ UNCHANGED <<assoc, rdr, buf, pend, inq, ch1, b1, out, ch2, nread>>

(* The network or either kernel aborts the association. *)
AssocDown ==
    /\ "assoc" \in Faults /\ assoc = "up"
    /\ assoc' = "down"
    /\ UNCHANGED <<rdr, buf, net, pend, inq, ch1, b1, out, ch2, b2, nread, hnd>>

-----------------------------------------------------------------------------
EndStep(d, s) ==
    \/ Recv(d, s) \/ Enqueue(d, s) \/ StreamRead(d, s)
    \/ SelectStream(d, s) \/ SelectTcp(d, s) \/ WriteTcp(d, s) \/ WriteSctp(d, s)

\* The program's own steps.
Progress ==
    \/ \E d \in Side, s \in Sid : EndStep(d, s)
    \/ \E d \in Side : RecvErr(d)
    \/ \E s \in Sid : Dial(s) \/ Discard(s) \/ CopySlice(s)

\* The TCP peers' and the network's.
Environment ==
    \/ AssocDown
    \/ \E s \in Sid : Accept(s)
    \/ \E d \in Side, s \in Sid : TcpRead(d, s)

Next == Progress \/ Environment

Spec == Init /\ [][Next]_vars

(* Every goroutine that can run eventually does.  One conjunct is enough:  *)
(* each step uses up a message, a chunk or a handler state, so a behaviour *)
(* has finitely many of them and none can be passed over for ever.         *)
FairSpec == Spec /\ WF_vars(Progress)

-----------------------------------------------------------------------------
Slots(S) == {q \in Seq(S) : Len(q) <= 1}

(* Types; a reader blocks on at most one stream and pipe() writes one      *)
(* chunk at a time (getChannel's unbuffered channels, the select loop).    *)
TypeOK ==
    /\ assoc \in {"up", "down"}
    /\ rdr \in [Side -> {"open", "closed"}]
    /\ buf \in Chunk \cup {Torn}
    /\ net \in [End -> Seq(Chunk)]
    /\ pend \in [End -> Slots(Chunk \cup {Shared})]
    /\ inq \in [End -> Seq(Chunk \cup {Shared})]
    /\ ch1 \in [End -> Slots(Chunk \cup {Shared, Torn})]
    /\ b1 \in [End -> Slots(Chunk \cup {Torn})]
    /\ out \in [End -> Seq(Chunk \cup {Torn})]
    /\ ch2 \in [End -> Slots(Chunk \cup {Eof})]
    /\ b2 \in [End -> Slots(Chunk)]
    /\ nread \in [End -> Nat]
    /\ hnd \in [End -> {"none", "dial", "pipe", "discard", "done"}]

\* q holds consecutive chunks of s, the first of them chunk o + 1.
Run(q, s, o) == \A i \in 1..Len(q) : q[i] = <<s, o + i>>

InOrder(d) == \A s \in Sid : Run(out[<<d, s>>], s, 0)

(* Download: what a TCP client of the tunnel receives on connection s is   *)
(* what the upstream of s wrote, in order, without gap or repetition,      *)
(* whatever closes or fails (client.go:58-80 gives every message an array  *)
(* of its own).                                                            *)
ClientInOrder == InOrder("client")

\* The two ends of connection s.
Cl(s) == <<"client", s>>
Sv(s) == <<"server", s>>

\* The data of s that the server has sent, then with what it is sending: from
\* the oldest, already with the TCP client, to the newest.
Downstream(s) ==
    out[Cl(s)] \o (b1[Cl(s)] \o (ch1[Cl(s)] \o (inq[Cl(s)] \o
        (pend[Cl(s)] \o net[Cl(s)]))))
Download(s) == Downstream(s) \o b2[Sv(s)]

\* What the server has read is in the download path, or on offer to pipe, and
\* what was lost when the server's handler ended was the end of it.
DownSource(s) ==
    LET n == Len(Download(s)) IN
    IF hnd[Sv(s)] = "done" THEN n <= nread[Sv(s)]
    ELSE \/ ch2[Sv(s)] \in {<<>>, <<Eof>>} /\ nread[Sv(s)] = n
         \/ ch2[Sv(s)] = << <<s, n + 1>> >> /\ nread[Sv(s)] = n + 1

\* Nothing of s moves before the connection is accepted.
Started(s) ==
    hnd[Cl(s)] = "none" =>
        hnd[Sv(s)] = "none" /\ net[Cl(s)] = <<>> /\ net[Sv(s)] = <<>>

(* Until the client's handler ends, the seven places that hold download    *)
(* data of s hold one unbroken run of its chunks, and what was written to  *)
(* the TCP client stays in order afterwards (stream.go:84-140,             *)
(* client.go:58-80).  The inductive strengthening of ClientInOrder.        *)
DownInFlight ==
    /\ ClientInOrder
    /\ \A s \in Sid :
          /\ Started(s)
          /\ hnd[Cl(s)] # "done" => Run(Download(s), s, 0) /\ DownSource(s)

(* Upload: the same for the upstream; server.go:43-71 reuses one array.    *)
ServerInOrder == InOrder("server")

(* What the upstream of s receives was written by the TCP client of s, or  *)
(* is a mixture: "each connection comes with a stream ID that identifies   *)
(* the TCP connection" (server.go:41).                                     *)
UploadStaysOwn ==
    \A s \in Sid : \A i \in 1..Len(out["server", s]) :
        out["server", s][i] # Torn => out["server", s][i][1] = s

(* The reuse of the array can only run ahead: a chunk of s delivered at    *)
(* position i is never an older one than chunk i (server.go:49, 71).       *)
NeverOlder ==
    \A s \in Sid : \A i \in 1..Len(out["server", s]) :
        out["server", s][i][1] = s => out["server", s][i][2] >= i

\* Download as a byte stream: what is read from the upstream goes in, what
\* is written to the TCP client comes out.
Down == INSTANCE ByteStream WITH sent <- [s \in Sid |-> nread[Sv(s)]],
                                 rcvd <- [s \in Sid |-> out[Cl(s)]]

(* Download never invents, reorders or repeats, as an implementation of    *)
(* the abstract byte stream (whatever closes or fails).                    *)
DownSafe == Down!Safety

\* All that was read from the TCP peers of side Peer(d) was written to those of d.
Settled(d) == \A s \in Sid : Len(out[d, s]) = nread[Peer(d), s]

\* One side's TCP peers have written no more than a channel In takes, so that
\* the other side's reader never had to wait.  Once false it stays so.
OneSided == \E d \in Side : \A s \in Sid : nread[d, s] <= InCap

\* No handler has ended and nothing has failed.  Once false it stays so.
Calm == assoc = "up" /\ \A e \in End : hnd[e] \notin {"discard", "done"}

(* In both directions and on every connection nothing is lost and nothing  *)
(* stops, however the queues fill and connections hold up each other, if   *)
(* one side writes no more than InCap chunks to a connection.  If neither  *)
(* is so short the pipes can block each other: see DuplexDelivers          *)
(* (stream.go:84-140).                                                     *)
Delivered == <>[](OneSided /\ Calm => \A d \in Side : Settled(d))

(* Both directions of a connection that both peers use are delivered       *)
(* (main.go:16, "like socat").                                             *)
DuplexDelivers == <>[]\A d \in Side : Settled(d)

(* An accepted connection is connected through to the upstream even when   *)
(* the upstream is to speak first.                                         *)
AcceptedIsDialed ==
    \A s \in Sid : hnd["client", s] # "none" ~> hnd["server", s] # "none"

(* The end of a client's connection reaches the upstream's.                *)
EndPropagates ==
    \A s \in Sid : (hnd["client", s] = "done" /\ hnd["server", s] = "pipe")
                       ~> hnd["server", s] = "done"

(* What closes or fails, a reader that stays blocked on a full channel, and *)
(* with it every connection of the association, is blocked by a stream      *)
(* whose own handler has ended and which nobody will read again             *)
(* (stream.go:89), unless both sides write more than a channel takes.       *)
ReaderReleased ==
    <>[](OneSided => \A d \in Side, s \in Sid : pend[d, s] # <<>> => hnd[d, s] = "done")

(* No reader stays blocked, whatever closes: no stream is left unread.     *)
NoReaderStays == <>[]\A d \in Side, s \in Sid : pend[d, s] = <<>>
=============================================================================
