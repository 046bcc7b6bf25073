---------------------------- MODULE TunnelProof ----------------------------
(***************************************************************************)
(* For every set of stream numbers, every amount of traffic, every         *)
(* capacity and every failure, download through the tunnel is a byte       *)
(* stream.                                                                 *)
(***************************************************************************)
EXTENDS Tunnel, SequenceTheorems, TLAPS

-----------------------------------------------------------------------------
(* Queues. *)

\* Put keeps a family of queues a family of queues and changes one of them.
LEMMA PutFacts ==
    ASSUME NEW T, NEW q \in [End -> Seq(T)], NEW e \in End, NEW x \in T
    PROVE  /\ Put(q, e, x) \in [End -> Seq(T)]
           /\ Put(q, e, x)[e] = Append(q[e], x)
           /\ \A f \in End : f # e => Put(q, e, x)[f] = q[f]
BY DEF Put

\* Drop takes the head of one non-empty queue of a family.
LEMMA DropFacts ==
    ASSUME NEW T, NEW q \in [End -> Seq(T)], NEW e \in End, q[e] # <<>>
    PROVE  /\ Head(q[e]) \in T
           /\ Drop(q, e) \in [End -> Seq(T)]
           /\ Drop(q, e)[e] = Tail(q[e])
           /\ \A f \in End : f # e => Drop(q, e)[f] = q[f]
BY DEF Drop

\* An empty slot can be filled and a full one emptied.
LEMMA SlotFacts ==
    ASSUME NEW T, NEW q \in [End -> Slots(T)], NEW e \in End
    PROVE  /\ q \in [End -> Seq(T)]
           /\ \A x \in T : q[e] = <<>> => Put(q, e, x) \in [End -> Slots(T)]
           /\ q[e] # <<>> => Drop(q, e) \in [End -> Slots(T)]
<1>1. q \in [End -> Seq(T)]
  BY DEF Slots
<1>2. ASSUME NEW x \in T, q[e] = <<>> PROVE Put(q, e, x) \in [End -> Slots(T)]
  <2>1. Append(<<>>, x) \in Slots(T)
    BY DEF Slots
  <2> QED BY <1>2, <2>1 DEF Put
<1>3. ASSUME q[e] # <<>> PROVE Drop(q, e) \in [End -> Slots(T)]
  <2>1. Tail(q[e]) \in Slots(T)
    BY <1>3 DEF Slots
  <2> QED BY <2>1 DEF Drop
<1> QED BY <1>1, <1>2, <1>3

\* Moving the head of a queue to the end of the one before it does not change
\* the two put together.
LEMMA Slide ==
    ASSUME NEW T, NEW b \in Seq(T), NEW a \in Seq(T), NEW r \in Seq(T), a # <<>>
    PROVE  Append(b, Head(a)) \o (Tail(a) \o r) = b \o (a \o r)
<1> DEFINE h == <<Head(a)>>  t == Tail(a)
<1>1. h \in Seq(T) /\ t \in Seq(T) /\ a = h \o t /\ Append(b, Head(a)) = b \o h
  BY HeadTailProperties, AppendIsConcat
<1> HIDE DEF h
<1>4. t \o r \in Seq(T)
  BY <1>1, ConcatProperties
<1> HIDE DEF t
<1>2. (b \o h) \o (t \o r) = b \o (h \o (t \o r))
  BY <1>1, <1>4, ConcatAssociative, SMTT(30)
<1>6. h \in Seq(T) /\ t \in Seq(T)
  BY <1>1
<1>3. (h \o t) \o r = h \o (t \o r)
  BY ONLY <1>6, r \in Seq(T), ConcatAssociative, SMTT(30)
<1>5. Append(b, Head(a)) \o (t \o r) = b \o (a \o r)
  BY <1>1, <1>2, <1>3
<1> QED BY <1>5 DEF t

\* The beginning of a run is a run.
LEMMA RunPrefix ==
    ASSUME NEW T, NEW a \in Seq(T), NEW b \in Seq(T), NEW s, Run(a \o b, s, 0)
    PROVE  Run(a, s, 0)
BY DEF Run

\* A run of n chunks grows by chunk n + 1.
LEMMA RunGrows ==
    ASSUME NEW T, NEW a \in Seq(T), NEW s, Run(a, s, 0), NEW x, x = <<s, Len(a) + 1>>
    PROVE  Run(Append(a, x), s, 0) /\ Len(Append(a, x)) = Len(a) + 1
BY DEF Run

-----------------------------------------------------------------------------
(* Types. *)

\* The marks are no chunks.
LEMMA Marks == /\ Eof \notin Chunk /\ Shared \notin Chunk /\ Torn \notin Chunk
               /\ Shared # Torn
BY TunnelAssumption DEF Eof, Shared, Torn, Chunk

\* An end is a side and a stream number.
LEMMA EndIsPair == \A d \in Side, s \in Sid : <<d, s>> \in End
BY DEF End

\* Every stream operation of one end keeps the types.
LEMMA TypeEndStep ==
    ASSUME TypeOK, NEW d \in Side, NEW s \in Sid, EndStep(d, s)
    PROVE  TypeOK'
<1> DEFINE e == <<d, s>>
<1> e \in End /\ Peer(d) \in Side /\ <<Peer(d), s>> \in End
  BY DEF End, Side, Peer
<1> USE DEF TypeOK
<1>1. CASE Recv(d, s)
  <2>1. Head(net[e]) \in Chunk /\ net' \in [End -> Seq(Chunk)]
    BY <1>1, DropFacts DEF Recv
  <2>2. pend[e] = <<>> /\ Elem(d, Head(net[e])) \in Chunk \cup {Shared}
    BY <1>1, <2>1 DEF Recv, ReaderIdle, Elem
  <2>3. pend' \in [End -> Slots(Chunk \cup {Shared})]
    <3>1. Put(pend, e, Elem(d, Head(net[e]))) \in [End -> Slots(Chunk \cup {Shared})]
      BY <2>2, SlotFacts
    <3> QED BY <1>1, <3>1 DEF Recv
  <2>4. buf' \in Chunk \cup {Torn} /\ hnd' \in [End -> {"none", "dial", "pipe", "discard", "done"}]
    BY <1>1, <2>1 DEF Recv
  <2> QED BY <1>1, <2>1, <2>3, <2>4 DEF Recv
<1>2. CASE Enqueue(d, s)
  <2>1. pend \in [End -> Seq(Chunk \cup {Shared})] /\ pend' \in [End -> Slots(Chunk \cup {Shared})]
    BY <1>2, SlotFacts DEF Enqueue
  <2>2. Head(pend[e]) \in Chunk \cup {Shared}
    BY <1>2, <2>1, DropFacts DEF Enqueue
  <2>3. inq' \in [End -> Seq(Chunk \cup {Shared})]
    BY <1>2, <2>2, PutFacts DEF Enqueue
  <2> QED BY <1>2, <2>1, <2>3 DEF Enqueue
<1>3. CASE StreamRead(d, s)
  <2>1. Head(inq[e]) \in Chunk \cup {Shared, Torn} /\ inq' \in [End -> Seq(Chunk \cup {Shared})]
    <3>1. inq[e] # <<>> /\ inq' = Drop(inq, e)
      BY <1>3 DEF StreamRead
    <3>2. Head(inq[e]) \in Chunk \cup {Shared} /\ inq' \in [End -> Seq(Chunk \cup {Shared})]
      BY <3>1, DropFacts
    <3> QED BY <3>2
  <2>2. ch1' \in [End -> Slots(Chunk \cup {Shared, Torn})]
    BY <1>3, <2>1, SlotFacts DEF StreamRead
  <2> QED BY <1>3, <2>1, <2>2 DEF StreamRead
<1>4. CASE SelectStream(d, s)
  <2>1. ch1 \in [End -> Seq(Chunk \cup {Shared, Torn})] /\ ch1' \in [End -> Slots(Chunk \cup {Shared, Torn})]
    <3>1. ch1[e] # <<>> /\ ch1' = Drop(ch1, e)
      BY <1>4 DEF SelectStream
    <3> QED BY <3>1, SlotFacts
  <2>2. Head(ch1[e]) \in Chunk \cup {Torn}
    <3>1. ch1[e] # <<>> /\ Head(ch1[e]) # Shared
      BY <1>4 DEF SelectStream
    <3>2. Head(ch1[e]) \in Chunk \cup {Shared, Torn}
      BY <2>1, <3>1, DropFacts
    <3> QED BY <3>1, <3>2
  <2>3. b1' \in [End -> Slots(Chunk \cup {Torn})]
    <3>1. b1[e] = <<>> /\ b1' = Put(b1, e, Head(ch1[e]))
      BY <1>4 DEF SelectStream, AtSelect
    <3> QED BY <2>2, <3>1, SlotFacts
  <2> QED BY <1>4, <2>1, <2>3 DEF SelectStream
<1>5. CASE SelectTcp(d, s)
  <2>1. ch2 \in [End -> Seq(Chunk \cup {Eof})] /\ ch2' \in [End -> Slots(Chunk \cup {Eof})]
    BY <1>5, SlotFacts DEF SelectTcp
  <2>2. Head(ch2[e]) \in Chunk \cup {Eof}
    BY <1>5, <2>1, DropFacts DEF SelectTcp
  <2>3. Head(ch2[e]) # Eof => Put(b2, e, Head(ch2[e])) \in [End -> Slots(Chunk)]
    BY <1>5, <2>2, SlotFacts DEF SelectTcp, AtSelect
  <2>4. b2' \in [End -> Slots(Chunk)] /\ hnd' \in [End -> {"none", "dial", "pipe", "discard", "done"}]
    BY <1>5, <2>3 DEF SelectTcp
  <2> QED BY <1>5, <2>1, <2>4 DEF SelectTcp
<1>6. CASE WriteTcp(d, s)
  <2>1. b1 \in [End -> Seq(Chunk \cup {Torn})] /\ b1' \in [End -> Slots(Chunk \cup {Torn})]
    BY <1>6, SlotFacts DEF WriteTcp
  <2>2. Put(out, e, Head(b1[e])) \in [End -> Seq(Chunk \cup {Torn})]
    BY <1>6, <2>1, DropFacts, PutFacts DEF WriteTcp
  <2>3. /\ out' \in [End -> Seq(Chunk \cup {Torn})]
        /\ hnd' \in [End -> {"none", "dial", "pipe", "discard", "done"}]
    BY <1>6, <2>2 DEF WriteTcp
  <2> QED BY <1>6, <2>1, <2>3 DEF WriteTcp
<1>7. CASE WriteSctp(d, s)
  <2>1. b2 \in [End -> Seq(Chunk)] /\ b2' \in [End -> Slots(Chunk)]
    BY <1>7, SlotFacts DEF WriteSctp
  <2>2. Put(net, <<Peer(d), s>>, Head(b2[e])) \in [End -> Seq(Chunk)]
    BY <1>7, <2>1, DropFacts, PutFacts DEF WriteSctp
  <2>3. net' \in [End -> Seq(Chunk)] /\ hnd' \in [End -> {"none", "dial", "pipe", "discard", "done"}]
    BY <1>7, <2>2 DEF WriteSctp
  <2> QED BY <1>7, <2>1, <2>3 DEF WriteSctp
<1> QED BY <1>1, <1>2, <1>3, <1>4, <1>5, <1>6, <1>7 DEF EndStep

\* So does every step.
LEMMA TypeNext == TypeOK /\ [Next]_vars => TypeOK'
<1> SUFFICES ASSUME TypeOK, [Next]_vars PROVE TypeOK'
  OBVIOUS
<1>1. ASSUME NEW d \in Side, NEW s \in Sid, EndStep(d, s) PROVE TypeOK'
  BY <1>1, TypeEndStep
<1>2. ASSUME NEW d \in Side, RecvErr(d) PROVE TypeOK'
  BY <1>2 DEF RecvErr, TypeOK
<1>3. ASSUME NEW s \in Sid, Dial(s) PROVE TypeOK'
  BY <1>3 DEF Dial, TypeOK, End, Side
<1>4. ASSUME NEW s \in Sid, Discard(s) PROVE TypeOK'
  <2>1. inq' \in [End -> Seq(Chunk \cup {Shared})]
    BY <1>4, DropFacts DEF Discard, TypeOK, End, Side
  <2> QED BY <1>4, <2>1 DEF Discard, TypeOK
<1>5. ASSUME NEW s \in Sid, CopySlice(s) PROVE TypeOK'
  <2>1. BufContents \subseteq Chunk \cup {Torn}
    BY DEF BufContents, TypeOK
  <2>2. \A x \in BufContents : <<x>> \in Slots(Chunk \cup {Shared, Torn})
    BY <2>1 DEF Slots
  <2>3. ch1' \in [End -> Slots(Chunk \cup {Shared, Torn})]
    <3>1. PICK x \in BufContents : ch1' = [ch1 EXCEPT ![<<"server", s>>] = <<x>>]
      BY <1>5 DEF CopySlice
    <3>2. <<x>> \in Slots(Chunk \cup {Shared, Torn})
      BY <2>2
    <3> QED BY <3>1, <3>2 DEF TypeOK
  <2>4. UNCHANGED <<assoc, rdr, buf, net, pend, inq, b1, out, ch2, b2, nread, hnd>>
    BY <1>5 DEF CopySlice
  <2> QED BY <2>3, <2>4 DEF TypeOK
<1>6. CASE AssocDown
  BY <1>6 DEF AssocDown, TypeOK
<1>7. ASSUME NEW s \in Sid, Accept(s) PROVE TypeOK'
  BY <1>7 DEF Accept, TypeOK
<1>8. ASSUME NEW d \in Side, NEW s \in Sid, TcpRead(d, s) PROVE TypeOK'
  <2> DEFINE e == <<d, s>>
  <2> e \in End /\ nread \in [End -> Nat] /\ ch2 \in [End -> Slots(Chunk \cup {Eof})]
    BY DEF TypeOK, End
  <2>1. nread[e] + 1 \in Nat /\ nread' \in [End -> Nat]
    <3>1. nread' = nread \/ nread' = [nread EXCEPT ![e] = nread[e] + 1]
      BY <1>8 DEF TcpRead
    <3>2. nread[e] + 1 \in Nat
      OBVIOUS
    <3> QED BY <3>1, <3>2
  <2>2. ch2' \in [End -> Slots(Chunk \cup {Eof})]
    <3> DEFINE x == <<s, nread[e] + 1>>
    <3>1. ch2[e] = <<>> /\ (ch2' = Put(ch2, e, x) \/ ch2' = Put(ch2, e, Eof))
      BY <1>8 DEF TcpRead
    <3>2. x \in Chunk
      BY <2>1 DEF Chunk
    <3>3. ASSUME NEW y \in Chunk \cup {Eof} PROVE Put(ch2, e, y) \in [End -> Slots(Chunk \cup {Eof})]
      BY <3>1, SlotFacts
    <3> QED BY <3>1, <3>2, <3>3
  <2> QED BY <1>8, <2>1, <2>2 DEF TcpRead, TypeOK
<1>9. CASE UNCHANGED vars
  BY <1>9 DEF vars, TypeOK
<1> QED BY <1>1, <1>2, <1>3, <1>4, <1>5, <1>6, <1>7, <1>8, <1>9
        DEF Next, Progress, Environment

\* Every value stays of its type, and no reader and no pipe() ever holds more
\* than one message (stream.go:84-140), for all constants.
THEOREM TypesHold == Spec => []TypeOK
<1>1. Init => TypeOK
  BY DEF Init, TypeOK, Empty, Slots, End, Side
<1> QED BY <1>1, TypeNext, PTL DEF Spec

\* The same at the end, and an addition at the end of the last queue.
LEMMA SlideLast ==
    ASSUME NEW T, NEW b \in Seq(T), NEW a \in Seq(T), a # <<>>
    PROVE  Append(b, Head(a)) \o Tail(a) = b \o a
<1>1. <<>> \in Seq(T) /\ a \o <<>> = a /\ Tail(a) \in Seq(T) /\ Tail(a) \o <<>> = Tail(a)
  BY HeadTailProperties, ConcatEmptySeq, EmptySeq
<1>2. Append(b, Head(a)) \o (Tail(a) \o <<>>) = b \o (a \o <<>>)
  BY <1>1, Slide
<1> QED BY <1>1, <1>2

\* Appending to the second of two sequences joined.
LEMMA AppendLast ==
    ASSUME NEW T, NEW b \in Seq(T), NEW a \in Seq(T), NEW x \in T
    PROVE  b \o Append(a, x) = Append(b \o a, x)
<1>1. <<x>> \in Seq(T) /\ Append(a, x) = a \o <<x>> /\ b \o a \in Seq(T)
  BY AppendIsConcat, ConcatProperties
<1>2. b \o (a \o <<x>>) = (b \o a) \o <<x>>
  BY <1>1, ConcatAssociative
<1> QED BY <1>1, <1>2, AppendIsConcat

-----------------------------------------------------------------------------
(* Download in flight: the parts a step leaves alone. *)

\* The part of DownInFlight about one connection's data.
Flow(s) == /\ Run(out[Cl(s)], s, 0)
           /\ hnd[Cl(s)] # "done" => Run(Download(s), s, 0) /\ DownSource(s)

\* A step that does not disturb it.
Still(s) == /\ out'[Cl(s)] = out[Cl(s)]
            /\ b1'[Cl(s)] = b1[Cl(s)]
            /\ ch1'[Cl(s)] = ch1[Cl(s)]
            /\ inq'[Cl(s)] = inq[Cl(s)]
            /\ pend'[Cl(s)] = pend[Cl(s)]
            /\ net'[Cl(s)] = net[Cl(s)]
            /\ b2'[Sv(s)] = b2[Sv(s)]
            /\ ch2'[Sv(s)] = ch2[Sv(s)]
            /\ nread'[Sv(s)] = nread[Sv(s)]
            /\ hnd[Cl(s)] = "done" => hnd'[Cl(s)] = "done"
            /\ hnd[Sv(s)] = "done" => hnd'[Sv(s)] = "done"

Item == Chunk \cup {Eof, Shared, Torn}

\* The places of the download path hold sequences of items.
LEMMA PathTypes ==
    ASSUME TypeOK, NEW s \in Sid
    PROVE  /\ out[Cl(s)] \in Seq(Item) /\ b1[Cl(s)] \in Seq(Item)
           /\ ch1[Cl(s)] \in Seq(Item) /\ inq[Cl(s)] \in Seq(Item)
           /\ pend[Cl(s)] \in Seq(Item) /\ net[Cl(s)] \in Seq(Item)
           /\ b2[Sv(s)] \in Seq(Item) /\ nread[Sv(s)] \in Nat
           /\ Downstream(s) \in Seq(Item) /\ Download(s) \in Seq(Item)
<1>1. Cl(s) \in End /\ Sv(s) \in End
  BY DEF End, Side, Cl, Sv
<1>2. /\ out[Cl(s)] \in Seq(Chunk \cup {Torn})
      /\ inq[Cl(s)] \in Seq(Chunk \cup {Shared})
      /\ net[Cl(s)] \in Seq(Chunk)
      /\ nread[Sv(s)] \in Nat
  BY <1>1 DEF TypeOK
<1>3. /\ b1[Cl(s)] \in Seq(Chunk \cup {Torn})
      /\ ch1[Cl(s)] \in Seq(Chunk \cup {Shared, Torn})
      /\ pend[Cl(s)] \in Seq(Chunk \cup {Shared})
      /\ b2[Sv(s)] \in Seq(Chunk)
  BY <1>1 DEF TypeOK, Slots
<1>4. /\ Chunk \subseteq Item /\ Chunk \cup {Torn} \subseteq Item
      /\ Chunk \cup {Shared} \subseteq Item /\ Chunk \cup {Shared, Torn} \subseteq Item
  BY DEF Item
<1>5. /\ out[Cl(s)] \in Seq(Item) /\ inq[Cl(s)] \in Seq(Item) /\ net[Cl(s)] \in Seq(Item)
      /\ b1[Cl(s)] \in Seq(Item) /\ ch1[Cl(s)] \in Seq(Item)
      /\ pend[Cl(s)] \in Seq(Item) /\ b2[Sv(s)] \in Seq(Item)
  BY <1>2, <1>3, <1>4, SeqMonotonic
<1>6. \A p, q \in Seq(Item) : p \o q \in Seq(Item)
  BY ConcatProperties
<1> QED BY <1>2, <1>5, <1>6 DEF Downstream, Download

\* What the TCP client has received is the beginning of the download path.
LEMMA OutIsPrefix ==
    ASSUME TypeOK, NEW s \in Sid
    PROVE  \E r \in Seq(Item) : Download(s) = out[Cl(s)] \o r
<1> DEFINE r0 == out[Cl(s)]  r2 == b2[Sv(s)]
           r1 == b1[Cl(s)] \o (ch1[Cl(s)] \o (inq[Cl(s)] \o (pend[Cl(s)] \o net[Cl(s)])))
<1>1. r0 \in Seq(Item) /\ r1 \in Seq(Item) /\ r2 \in Seq(Item)
  BY PathTypes, ConcatProperties
<1>2. Download(s) = (r0 \o r1) \o r2
  BY DEF Download, Downstream
<1> HIDE DEF r0, r1, r2
<1>3. (r0 \o r1) \o r2 = r0 \o (r1 \o r2) /\ r1 \o r2 \in Seq(Item)
  BY <1>1, ConcatAssociative, ConcatProperties
<1> QED BY <1>2, <1>3, Zenon DEF r0

\* A step that does not disturb one connection's flow keeps it.
LEMMA FlowFrame ==
    ASSUME TypeOK, NEW s \in Sid, Flow(s), Still(s) PROVE Flow(s)'
<1>1. Downstream(s)' = Downstream(s) /\ Download(s)' = Download(s)
  BY DEF Still, Downstream, Download, Cl, Sv
<1>2. Len(Download(s)) \in Nat /\ nread[Sv(s)] \in Nat
  BY PathTypes, LenProperties
<1>3. DownSource(s) => DownSource(s)'
  BY <1>1, <1>2 DEF DownSource, Still, Cl, Sv
<1> QED BY <1>1, <1>3 DEF Flow, Still, Run, Cl

\* The two ends of a connection differ, and those of two connections.
LEMMA EndsDiffer ==
    /\ \A s \in Sid : Cl(s) \in End /\ Sv(s) \in End
    /\ \A s, t \in Sid : Cl(s) # Sv(t) /\ (s # t => Cl(s) # Cl(t) /\ Sv(s) # Sv(t))
BY DEF Cl, Sv, End, Side

\* Every variable indexed by the ends has them as its domain.
LEMMA Domains == TypeOK => /\ DOMAIN net = End /\ DOMAIN pend = End /\ DOMAIN inq = End
                           /\ DOMAIN ch1 = End /\ DOMAIN b1 = End /\ DOMAIN out = End
                           /\ DOMAIN ch2 = End /\ DOMAIN b2 = End /\ DOMAIN nread = End
                           /\ DOMAIN hnd = End
BY DEF TypeOK

\* Steps of one connection leave the others alone.
LEMMA StillOthers ==
    ASSUME TypeOK, NEW d \in Side, NEW s \in Sid, NEW t \in Sid, s # t,
           EndStep(d, s) \/ TcpRead(d, s)
    PROVE  Still(t)
<1> DEFINE e == <<d, s>>  g == <<Peer(d), s>>
<1>1. e \in End /\ g \in End /\ e # Cl(t) /\ e # Sv(t) /\ g # Cl(t) /\ g # Sv(t)
  BY DEF End, Side, Peer, Cl, Sv
<1>2. Cl(t) \in End /\ Sv(t) \in End
  BY EndsDiffer
<1> USE Domains, <1>1, <1>2 DEF Put, Drop
<1>3. CASE Recv(d, s)
  BY <1>3 DEF Recv, Still
<1>4. CASE Enqueue(d, s)
  BY <1>4 DEF Enqueue, Still
<1>5. CASE StreamRead(d, s)
  BY <1>5 DEF StreamRead, Still
<1>6. CASE SelectStream(d, s)
  BY <1>6 DEF SelectStream, Still
<1>7. CASE SelectTcp(d, s)
  BY <1>7 DEF SelectTcp, Still
<1>8. CASE WriteTcp(d, s)
  BY <1>8 DEF WriteTcp, Still
<1>9. CASE WriteSctp(d, s)
  BY <1>9 DEF WriteSctp, Still
<1>10. CASE TcpRead(d, s)
  BY <1>10 DEF TcpRead, Still
<1> QED BY <1>3, <1>4, <1>5, <1>6, <1>7, <1>8, <1>9, <1>10 DEF EndStep

\* The server's download of its own, and the client's upload, do not touch
\* the download path of s.
LEMMA StillUpload ==
    ASSUME TypeOK, NEW s \in Sid,
           \/ Recv("server", s) \/ Enqueue("server", s) \/ StreamRead("server", s)
           \/ SelectStream("server", s) \/ WriteTcp("server", s)
           \/ SelectTcp("client", s) \/ WriteSctp("client", s) \/ TcpRead("client", s)
    PROVE  Still(s)
<1>1. /\ Cl(s) \in End /\ Sv(s) \in End /\ Cl(s) # Sv(s)
      /\ Cl(s) = <<"client", s>> /\ Sv(s) = <<"server", s>> /\ Peer("client") = "server"
  BY EndsDiffer DEF Cl, Sv, Peer
<1> USE Domains, <1>1 DEF Put, Drop
<1>2. CASE Recv("server", s)
  <2>1. hnd[Sv(s)] = "done" => hnd' = hnd
    BY <1>2 DEF Recv, Known
  <2> QED BY <1>2, <2>1 DEF Recv, Still
<1>3. CASE Enqueue("server", s)
  BY <1>3 DEF Enqueue, Still
<1>4. CASE StreamRead("server", s)
  BY <1>4 DEF StreamRead, Still
<1>5. CASE SelectStream("server", s)
  BY <1>5 DEF SelectStream, Still
<1>6. CASE WriteTcp("server", s)
  BY <1>6 DEF WriteTcp, Still
<1>7. CASE SelectTcp("client", s)
  BY <1>7 DEF SelectTcp, Still
<1>8. CASE WriteSctp("client", s)
  BY <1>8 DEF WriteSctp, Still
<1>9. CASE TcpRead("client", s)
  BY <1>9 DEF TcpRead, Still
<1> QED BY <1>2, <1>3, <1>4, <1>5, <1>6, <1>7, <1>8, <1>9

\* Nor do the steps that move no data of the client's connections.
LEMMA StillRest ==
    ASSUME TypeOK, NEW s \in Sid, NEW t \in Sid,
           \/ \E d \in Side : RecvErr(d)
           \/ Dial(s) \/ Discard(s) \/ CopySlice(s) \/ AssocDown \/ Accept(s) \/ UNCHANGED vars
    PROVE  Still(t)
<1>1. /\ Cl(s) \in End /\ Sv(s) \in End /\ Cl(t) \in End /\ Sv(t) \in End /\ Cl(t) # Sv(s)
      /\ Cl(s) = <<"client", s>> /\ Sv(s) = <<"server", s>>
      /\ (s # t => Cl(s) # Cl(t) /\ Sv(s) # Sv(t)) /\ Cl(s) # Sv(t)
  BY EndsDiffer DEF Cl, Sv
<1> USE Domains, <1>1 DEF Put, Drop
<1>2. CASE \E d \in Side : RecvErr(d)
  BY <1>2 DEF RecvErr, Still
<1>3. CASE Dial(s)
  <2>1. hnd[Sv(t)] = "done" => hnd'[Sv(t)] = "done"
    BY <1>3 DEF Dial
  <2> QED BY <1>3, <2>1 DEF Dial, Still
<1>4. CASE Discard(s)
  BY <1>4 DEF Discard, Still
<1>5. CASE CopySlice(s)
  BY <1>5 DEF CopySlice, Still
<1>6. CASE AssocDown
  BY <1>6 DEF AssocDown, Still
<1>7. CASE Accept(s)
  <2>1. hnd[Cl(t)] = "done" => hnd'[Cl(t)] = "done"
    BY <1>7 DEF Accept, Known
  <2> QED BY <1>7, <2>1 DEF Accept, Still
<1>8. CASE UNCHANGED vars
  BY <1>8 DEF vars, Still
<1> QED BY <1>2, <1>3, <1>4, <1>5, <1>6, <1>7, <1>8

-----------------------------------------------------------------------------
(* Download in flight: the steps that move it. *)

\* A step at the client moves the head of one place to the end of the next.
LEMMA ClientMoves ==
    ASSUME TypeOK, TypeOK', NEW s \in Sid, Started(s),
           \/ Recv("client", s) \/ Enqueue("client", s) \/ StreamRead("client", s)
           \/ SelectStream("client", s)
           \/ WriteTcp("client", s) /\ hnd' = hnd
    PROVE  /\ Downstream(s)' = Downstream(s)
           /\ UNCHANGED <<b2, ch2, nread, hnd>>
           /\ out' = out \/ (WriteTcp("client", s) /\ hnd[Cl(s)] # "done")
<1> DEFINE c == Cl(s)
<1>1. c \in End /\ c = <<"client", s>>
  BY EndsDiffer DEF Cl
<1>2. /\ out[c] \in Seq(Item) /\ b1[c] \in Seq(Item) /\ ch1[c] \in Seq(Item)
      /\ inq[c] \in Seq(Item) /\ pend[c] \in Seq(Item) /\ net[c] \in Seq(Item)
  BY PathTypes
<1>3. \A p, q \in Seq(Item) : p \o q \in Seq(Item)
  BY ConcatProperties
<1>rest. /\ pend[c] \o net[c] \in Seq(Item)
         /\ inq[c] \o (pend[c] \o net[c]) \in Seq(Item)
         /\ ch1[c] \o (inq[c] \o (pend[c] \o net[c])) \in Seq(Item)
  BY <1>2, <1>3
<1>4. Downstream(s)' = out'[c] \o (b1'[c] \o (ch1'[c] \o (inq'[c] \o (pend'[c] \o net'[c]))))
  BY DEF Downstream, Cl
<1>5. Downstream(s) = out[c] \o (b1[c] \o (ch1[c] \o (inq[c] \o (pend[c] \o net[c]))))
  BY DEF Downstream
<1> HIDE DEF c
<1>6. CASE Recv("client", s)
  <2>1. /\ net[c] # <<>> /\ net'[c] = Tail(net[c])
        /\ pend'[c] = Append(pend[c], Head(net[c]))
        /\ UNCHANGED <<hnd, inq, ch1, b1, out, ch2, b2, nread>>
    BY <1>1, <1>6, Domains DEF Recv, Started, Known, Elem, Put, Drop, Cl
  <2>2. pend'[c] \o net'[c] = pend[c] \o net[c]
    BY <1>2, <2>1, SlideLast
  <2> QED BY <1>4, <1>5, <2>1, <2>2
<1>7. CASE Enqueue("client", s)
  <2>1. /\ pend[c] # <<>> /\ pend'[c] = Tail(pend[c])
        /\ inq'[c] = Append(inq[c], Head(pend[c]))
        /\ UNCHANGED <<hnd, net, ch1, b1, out, ch2, b2, nread>>
    BY <1>1, <1>7, Domains DEF Enqueue, Put, Drop
  <2>2. inq'[c] \o (pend'[c] \o net'[c]) = inq[c] \o (pend[c] \o net[c])
    <3> DEFINE b == inq[c]  a == pend[c]  r == net[c]
    <3>1. Append(b, Head(a)) \o (Tail(a) \o r) = b \o (a \o r)
      <4>1. b \in Seq(Item) /\ a \in Seq(Item) /\ r \in Seq(Item) /\ a # <<>>
        BY <1>2, <1>rest, <2>1
      <4> HIDE DEF a, b, r
      <4> QED BY <4>1, Slide
    <3>2. /\ inq'[c] = Append(b, Head(a)) /\ pend'[c] = Tail(a)
          /\ net'[c] = r
      BY <2>1
    <3> QED BY <3>1, <3>2, Zenon
  <2> QED BY <1>4, <1>5, <2>1, <2>2
<1>8. CASE StreamRead("client", s)
  <2>1. /\ inq[c] # <<>> /\ inq'[c] = Tail(inq[c])
        /\ ch1'[c] = Append(ch1[c], Head(inq[c]))
        /\ UNCHANGED <<hnd, net, pend, b1, out, ch2, b2, nread>>
    BY <1>1, <1>8, Domains DEF StreamRead, Put, Drop
  <2>2. ch1'[c] \o (inq'[c] \o (pend'[c] \o net'[c])) = ch1[c] \o (inq[c] \o (pend[c] \o net[c]))
    <3> DEFINE b == ch1[c]  a == inq[c]  r == pend[c] \o net[c]
    <3>1. Append(b, Head(a)) \o (Tail(a) \o r) = b \o (a \o r)
      <4>1. b \in Seq(Item) /\ a \in Seq(Item) /\ r \in Seq(Item) /\ a # <<>>
        BY <1>2, <1>rest, <2>1
      <4> HIDE DEF a, b, r
      <4> QED BY <4>1, Slide
    <3>2. /\ ch1'[c] = Append(b, Head(a)) /\ inq'[c] = Tail(a)
          /\ pend'[c] \o net'[c] = r
      BY <2>1
    <3> QED BY <3>1, <3>2, Zenon
  <2> QED BY <1>4, <1>5, <2>1, <2>2
<1>9. CASE SelectStream("client", s)
  <2>1. /\ ch1[c] # <<>> /\ ch1'[c] = Tail(ch1[c])
        /\ b1'[c] = Append(b1[c], Head(ch1[c]))
        /\ UNCHANGED <<hnd, net, pend, inq, out, ch2, b2, nread>>
    BY <1>1, <1>9, Domains DEF SelectStream, Put, Drop
  <2>2. b1'[c] \o (ch1'[c] \o (inq'[c] \o (pend'[c] \o net'[c])))
            = b1[c] \o (ch1[c] \o (inq[c] \o (pend[c] \o net[c])))
    <3> DEFINE b == b1[c]  a == ch1[c]  r == inq[c] \o (pend[c] \o net[c])
    <3>1. Append(b, Head(a)) \o (Tail(a) \o r) = b \o (a \o r)
      <4>1. b \in Seq(Item) /\ a \in Seq(Item) /\ r \in Seq(Item) /\ a # <<>>
        BY <1>2, <1>rest, <2>1
      <4> HIDE DEF a, b, r
      <4> QED BY <4>1, Slide
    <3>2. /\ b1'[c] = Append(b, Head(a)) /\ ch1'[c] = Tail(a)
          /\ inq'[c] \o (pend'[c] \o net'[c]) = r
      BY <2>1
    <3> QED BY <3>1, <3>2, Zenon
  <2> QED BY <1>4, <1>5, <2>1, <2>2
<1>10. CASE WriteTcp("client", s) /\ hnd' = hnd
  <2>1. hnd[c] = "pipe" /\ b1[c] # <<>>
    BY <1>1, <1>10 DEF WriteTcp
  <2>2. ~(hnd' = [hnd EXCEPT ![c] = "done"])
    BY <1>1, <1>10, <2>1, Domains
  <2>3. /\ b1'[c] = Tail(b1[c]) /\ out'[c] = Append(out[c], Head(b1[c]))
        /\ UNCHANGED <<hnd, net, pend, inq, ch1, ch2, b2, nread>>
    BY <1>1, <1>10, <2>2, Domains DEF WriteTcp, Put, Drop
  <2>4. Downstream(s)' = Downstream(s)
    <3> DEFINE b == out[c]  a == b1[c]  r == ch1[c] \o (inq[c] \o (pend[c] \o net[c]))
    <3>1. Append(b, Head(a)) \o (Tail(a) \o r) = b \o (a \o r)
      <4>1. b \in Seq(Item) /\ a \in Seq(Item) /\ r \in Seq(Item) /\ a # <<>>
        BY <1>2, <1>rest, <2>1
      <4> HIDE DEF a, b, r
      <4> QED BY <4>1, Slide
    <3>2. /\ out'[c] = Append(b, Head(a)) /\ b1'[c] = Tail(a)
          /\ ch1'[c] \o (inq'[c] \o (pend'[c] \o net'[c])) = r
      BY <2>3
    <3> QED BY <1>4, <1>5, <3>1, <3>2, Zenon
  <2> QED BY <1>10, <2>1, <2>3, <2>4 DEF c
<1> QED BY <1>6, <1>7, <1>8, <1>9, <1>10

\* Of the download: the client's side moves a message on.
LEMMA FlowClient ==
    ASSUME TypeOK, TypeOK', NEW s \in Sid, Started(s), Flow(s),
           \/ Recv("client", s) \/ Enqueue("client", s) \/ StreamRead("client", s)
           \/ SelectStream("client", s) \/ WriteTcp("client", s)
    PROVE  Flow(s)'
<1>1. CASE WriteTcp("client", s) /\ hnd' # hnd
  <2>1. out' = out /\ hnd'[Cl(s)] = "done"
    BY <1>1, EndsDiffer, Domains DEF WriteTcp, Cl
  <2> QED BY <2>1 DEF Flow, Run, Cl
<1>2. CASE ~(WriteTcp("client", s) /\ hnd' # hnd)
  <2>1. /\ Downstream(s)' = Downstream(s)
        /\ UNCHANGED <<b2, ch2, nread, hnd>>
        /\ out' = out \/ (WriteTcp("client", s) /\ hnd[Cl(s)] # "done")
    BY <1>2, ClientMoves
  <2>2. Download(s)' = Download(s)
    BY <2>1 DEF Download, Sv
  <2>3. Run(Download(s), s, 0) => Run(Download(s)', s, 0)
    BY <2>2
  <2>4. DownSource(s) => DownSource(s)'
    BY <2>1, <2>2 DEF DownSource, Sv
  <2>5. CASE out' = out
    BY <2>1, <2>3, <2>4, <2>5 DEF Flow, Run, Cl
  <2>6. CASE hnd[Cl(s)] # "done"
    <3>1. Run(Download(s)', s, 0) /\ DownSource(s)'
      BY <2>3, <2>4, <2>6 DEF Flow
    <3>2. \E r \in Seq(Item) : Download(s)' = out'[Cl(s)] \o r
      <4>1. (\E r \in Seq(Item) : Download(s) = out[Cl(s)] \o r)'
        BY OutIsPrefix, PTL
      <4> QED BY <4>1 DEF Item, Chunk, Eof, Shared, Torn, Cl
    <3>3. out'[Cl(s)] \in Seq(Item)
      BY EndsDiffer, SeqMonotonic DEF TypeOK, Item
    <3>4. Run(out'[Cl(s)], s, 0)
      BY <3>1, <3>2, <3>3, RunPrefix
    <3> QED BY <3>1, <3>4 DEF Flow, Run, Cl
  <2> QED BY <2>1, <2>5, <2>6
<1> QED BY <1>1, <1>2

\* What filling an empty slot and emptying a full one gives.
LEMMA OneSlot ==
    /\ \A x : Append(<<>>, x) = <<x>>
    /\ \A x : Head(<<x>>) = x /\ Tail(<<x>>) = <<>>
    /\ \A T : \A q \in Slots(T) : q # <<>> => Tail(q) = <<>>
<1>1. ASSUME NEW T, NEW q \in Slots(T), q # <<>> PROVE Tail(q) = <<>>
  <2>1. q \in Seq(T) /\ Len(q) <= 1
    BY DEF Slots
  <2>2. Tail(q) \in Seq(T) /\ Len(Tail(q)) = Len(q) - 1 /\ Len(q) \in Nat
    BY <1>1, <2>1, HeadTailProperties, LenProperties
  <2>3. Len(Tail(q)) = 0
    BY <1>1, <2>1, <2>2, EmptySeq
  <2> QED BY <2>2, <2>3, EmptySeq
<1> QED BY <1>1

\* The server reads its upstream into the end of the download path.
LEMMA FlowTcpRead ==
    ASSUME TypeOK, NEW s \in Sid, Flow(s), TcpRead("server", s)
    PROVE  Flow(s)'
<1>1. Sv(s) \in End /\ Cl(s) \in End /\ Sv(s) = <<"server", s>>
  BY EndsDiffer DEF Sv
<1>2. /\ hnd[Sv(s)] = "pipe" /\ ch2[Sv(s)] = <<>>
      /\ UNCHANGED <<net, pend, inq, ch1, b1, out, b2, hnd>>
      /\ \/ nread'[Sv(s)] = nread[Sv(s)] + 1 /\ ch2'[Sv(s)] = << <<s, nread[Sv(s)] + 1>> >>
         \/ nread'[Sv(s)] = nread[Sv(s)] /\ ch2'[Sv(s)] = <<Eof>>
  <2> DEFINE v == Sv(s)
  <2>1. /\ hnd[v] = "pipe" /\ ch2[v] = <<>>
        /\ UNCHANGED <<net, pend, inq, ch1, b1, out, b2, hnd>>
        /\ \/ nread'[v] = nread[v] + 1 /\ ch2'[v] = Append(ch2[v], <<s, nread[v] + 1>>)
           \/ nread'[v] = nread[v] /\ ch2'[v] = Append(ch2[v], Eof)
    BY <1>1, Domains DEF TcpRead, Put
  <2>2. \A x : Append(ch2[v], x) = <<x>>
    BY <2>1, OneSlot, Zenon
  <2> QED BY <2>1, <2>2
<1>3. Download(s)' = Download(s) /\ Len(Download(s)) \in Nat /\ nread[Sv(s)] \in Nat
  BY <1>2, PathTypes, LenProperties DEF Download, Downstream, Cl, Sv
<1>4. DownSource(s) => DownSource(s)'
  <2>1. DownSource(s) => nread[Sv(s)] = Len(Download(s))
    BY <1>2 DEF DownSource
  <2> QED BY <1>2, <1>3, <2>1 DEF DownSource, Sv
<1> QED BY <1>2, <1>3, <1>4 DEF Flow, Run, Cl

\* pipe at the server takes what was read, or ends.
LEMMA FlowSelectTcp ==
    ASSUME TypeOK, NEW s \in Sid, Flow(s), SelectTcp("server", s)
    PROVE  Flow(s)'
<1> DEFINE v == Sv(s)  x == Head(ch2[v])  n == Len(Download(s))
<1>1. v \in End /\ Cl(s) \in End /\ v = <<"server", s>> /\ v # Cl(s)
  BY EndsDiffer DEF Sv
<1>2. /\ hnd[v] = "pipe" /\ b2[v] = <<>> /\ ch2[v] # <<>> /\ ch2'[v] = Tail(ch2[v])
      /\ UNCHANGED <<net, pend, inq, ch1, b1, out, nread>> /\ hnd'[Cl(s)] = hnd[Cl(s)]
      /\ \/ x = Eof /\ hnd'[v] = "done" /\ b2'[v] = b2[v]
         \/ x # Eof /\ hnd' = hnd /\ b2'[v] = <<x>>
  <2>1. /\ hnd[v] = "pipe" /\ b2[v] = <<>> /\ ch2[v] # <<>>
        /\ UNCHANGED <<net, pend, inq, ch1, b1, out, nread>>
    BY <1>1 DEF SelectTcp, AtSelect
  <2>2. ch2'[v] = Tail(ch2[v])
    BY <1>1, Domains DEF SelectTcp, Drop
  <2>3. CASE x = Eof
    BY <1>1, <2>1, <2>2, <2>3, Domains DEF SelectTcp
  <2>4. CASE x # Eof
    <3>1. hnd' = hnd /\ b2'[v] = Append(b2[v], x)
      BY <1>1, <2>4, Domains DEF SelectTcp, Put
    <3>2. Append(b2[v], x) = <<x>>
      BY <2>1, OneSlot, Zenon
    <3> QED BY <2>1, <2>2, <2>4, <3>1, <3>2
  <2> QED BY <2>3, <2>4
<1>3. /\ Downstream(s)' = Downstream(s) /\ Downstream(s) \in Seq(Item)
      /\ n \in Nat /\ nread[v] \in Nat
  BY <1>2, PathTypes, LenProperties DEF Downstream, Cl
<1>4. Download(s) = Downstream(s)
  BY <1>2, <1>3, ConcatEmptySeq DEF Download
<1>5. Download(s)' = Downstream(s) \o b2'[v]
  BY <1>3 DEF Download, Sv
<1>6. CASE x = Eof
  <2>1. Download(s)' = Download(s)
    BY <1>2, <1>3, <1>4, <1>5, <1>6, ConcatEmptySeq
  <2>2. DownSource(s) => n <= nread[v]
    BY <1>2, <1>3 DEF DownSource
  <2>3. DownSource(s) => DownSource(s)'
    BY <1>2, <1>6, <2>1, <2>2 DEF DownSource, Sv
  <2> QED BY <1>2, <2>1, <2>3 DEF Flow, Run, Cl
<1>7. CASE x # Eof
  <2>1. DownSource(s) => ch2[v] = << <<s, n + 1>> >> /\ nread[v] = n + 1
    BY <1>2, <1>7 DEF DownSource
  <2>2. ASSUME DownSource(s), Run(Download(s), s, 0)
        PROVE  Run(Download(s)', s, 0) /\ DownSource(s)'
    <3>1. x = <<s, n + 1>> /\ ch2'[v] = <<>> /\ hnd'[v] # "done" /\ nread'[v] = n + 1
      <4>1. ch2[v] = << <<s, n + 1>> >> /\ nread[v] = n + 1
        BY <2>1, <2>2
      <4>2. Head(ch2[v]) = <<s, n + 1>> /\ Tail(ch2[v]) = <<>>
        <5> DEFINE y == <<s, n + 1>>
        <5>1. ch2[v] = <<y>>
          BY <4>1
        <5> HIDE DEF y
        <5>2. Head(ch2[v]) = y /\ Tail(ch2[v]) = <<>>
          BY <5>1, OneSlot, Zenon
        <5> QED BY <5>2 DEF y
      <4> QED BY <1>2, <1>7, <4>1, <4>2
    <3>2. x \in Item
      <4>1. Chunk \cup {Eof} \subseteq Item
        BY DEF Item
      <4>2. ch2[v] \in Seq(Chunk \cup {Eof})
        BY <1>1 DEF TypeOK, Slots
      <4> QED BY <1>2, <4>1, <4>2
    <3>3. Download(s)' = Append(Download(s), x)
      BY <1>2, <1>3, <1>4, <1>5, <1>7, <3>2, AppendIsConcat
    <3>4. Run(Download(s)', s, 0) /\ Len(Download(s)') = n + 1
      BY <1>3, <1>4, <2>2, <3>1, <3>3, RunGrows
    <3> QED BY <3>1, <3>4 DEF DownSource, Sv
  <2> QED BY <1>2, <2>2 DEF Flow, Run, Cl
<1> QED BY <1>6, <1>7

\* pipe at the server hands it to the association, or fails and loses it.
LEMMA FlowWriteSctp ==
    ASSUME TypeOK, NEW s \in Sid, Flow(s), WriteSctp("server", s)
    PROVE  Flow(s)'
<1> DEFINE v == Sv(s)  c == Cl(s)  x == Head(b2[v])
<1>1. v \in End /\ c \in End /\ v # c /\ v = <<"server", s>> /\ c = <<"client", s>> /\ Peer("server") = "client"
  BY EndsDiffer DEF Sv, Cl, Peer
<1>2. /\ hnd[v] = "pipe" /\ b2[v] # <<>> /\ b2'[v] = Tail(b2[v])
      /\ UNCHANGED <<pend, inq, ch1, b1, out, ch2, nread>> /\ hnd'[c] = hnd[c]
      /\ \/ net'[c] = Append(net[c], x) /\ hnd' = hnd
         \/ net' = net /\ hnd'[v] = "done"
  BY <1>1, Domains DEF WriteSctp, Put, Drop
<1>3. /\ out[c] \in Seq(Item) /\ b1[c] \in Seq(Item) /\ ch1[c] \in Seq(Item)
      /\ inq[c] \in Seq(Item) /\ pend[c] \in Seq(Item) /\ net[c] \in Seq(Item)
      /\ b2[v] \in Seq(Item) /\ Downstream(s) \in Seq(Item) /\ Download(s) \in Seq(Item)
      /\ nread[v] \in Nat
  BY PathTypes
<1>4. x \in Item
  BY <1>2, <1>3
<1>5. Download(s)' = Downstream(s)' \o Tail(b2[v])
  BY <1>2 DEF Download, Sv
<1>6. CASE net'[c] = Append(net[c], x) /\ hnd' = hnd
  <2>1. Downstream(s)' = Append(Downstream(s), x)
    <3>1. \A b, a \in Seq(Item) : b \o Append(a, x) = Append(b \o a, x) /\ b \o a \in Seq(Item)
      BY <1>4, AppendLast, ConcatProperties
    <3>2. Downstream(s)' = out[c] \o (b1[c] \o (ch1[c] \o (inq[c] \o (pend[c] \o Append(net[c], x)))))
      BY <1>2, <1>6 DEF Downstream, Cl
    <3> HIDE DEF c, x
    <3>3. pend[c] \o Append(net[c], x) = Append(pend[c] \o net[c], x) /\ pend[c] \o net[c] \in Seq(Item)
      BY <1>3, <3>1, Zenon
    <3>4. /\ inq[c] \o Append(pend[c] \o net[c], x) = Append(inq[c] \o (pend[c] \o net[c]), x)
          /\ inq[c] \o (pend[c] \o net[c]) \in Seq(Item)
      BY <1>3, <3>1, <3>3, Zenon
    <3>5. /\ ch1[c] \o Append(inq[c] \o (pend[c] \o net[c]), x)
                = Append(ch1[c] \o (inq[c] \o (pend[c] \o net[c])), x)
          /\ ch1[c] \o (inq[c] \o (pend[c] \o net[c])) \in Seq(Item)
      BY <1>3, <3>1, <3>4, Zenon
    <3>6. /\ b1[c] \o Append(ch1[c] \o (inq[c] \o (pend[c] \o net[c])), x)
                = Append(b1[c] \o (ch1[c] \o (inq[c] \o (pend[c] \o net[c]))), x)
          /\ b1[c] \o (ch1[c] \o (inq[c] \o (pend[c] \o net[c]))) \in Seq(Item)
      BY <1>3, <3>1, <3>5, Zenon
    <3>7. out[c] \o Append(b1[c] \o (ch1[c] \o (inq[c] \o (pend[c] \o net[c]))), x)
                = Append(out[c] \o (b1[c] \o (ch1[c] \o (inq[c] \o (pend[c] \o net[c])))), x)
      BY <1>3, <3>1, <3>6, Zenon
    <3> QED BY <3>2, <3>3, <3>4, <3>5, <3>6, <3>7, Zenon DEF Downstream, c
  <2>2. Download(s)' = Download(s)
    <3> HIDE DEF x
    <3>1. Append(Downstream(s), Head(b2[v])) \o Tail(b2[v]) = Downstream(s) \o b2[v]
      BY <1>2, <1>3, SlideLast
    <3> QED BY <1>5, <2>1, <3>1 DEF Download, x
  <2>3. DownSource(s) => DownSource(s)'
    BY <1>2, <1>6, <2>2 DEF DownSource, Sv
  <2> QED BY <1>2, <2>2, <2>3 DEF Flow, Run, Cl
<1>7. CASE net' = net /\ hnd'[v] = "done"
  <2>1. Downstream(s)' = Downstream(s)
    BY <1>2, <1>7 DEF Downstream, Cl
  <2>2. Tail(b2[v]) = <<>>
    <3>1. b2[v] \in Slots(Chunk)
      BY <1>1 DEF TypeOK
    <3> QED BY <1>2, <3>1, OneSlot
  <2>3. Download(s)' = Downstream(s)
    BY <1>3, <1>5, <2>1, <2>2, ConcatEmptySeq
  <2>4. /\ Run(Download(s), s, 0) => Run(Download(s)', s, 0)
        /\ Len(Download(s)') <= Len(Download(s)) /\ Len(Download(s)) \in Nat
        /\ Len(Download(s)') \in Nat
    BY <1>3, <2>3, RunPrefix, ConcatProperties, LenProperties DEF Download
  <2>5. DownSource(s) => DownSource(s)'
    <3>1. DownSource(s) => Len(Download(s)) <= nread[v]
      BY <1>2, <1>3, <2>4 DEF DownSource
    <3>2. DownSource(s) => Len(Download(s)') <= nread[v]
      BY <1>3, <2>4, <3>1
    <3> QED BY <1>2, <1>7, <3>2 DEF DownSource, Sv
  <2> QED BY <1>2, <2>4, <2>5 DEF Flow, Run, Cl
<1> QED BY <1>2, <1>6, <1>7

-----------------------------------------------------------------------------
(* The theorems. *)

\* Nothing of a connection exists before the client accepts it.
LEMMA StartedNext ==
    ASSUME TypeOK, NEW t \in Sid, Started(t), [Next]_vars
    PROVE  Started(t)'
<1> DEFINE c == Cl(t)  v == Sv(t)
<1>1. c \in End /\ v \in End /\ c = <<"client", t>> /\ v = <<"server", t>>
  BY EndsDiffer DEF Cl, Sv
<1>2. Started(t)' = (hnd'[c] = "none" => hnd'[v] = "none" /\ net'[c] = <<>> /\ net'[v] = <<>>)
  BY DEF Started, Cl, Sv
<1> SUFFICES ASSUME hnd'[c] = "none"
             PROVE  hnd'[v] = "none" /\ net'[c] = <<>> /\ net'[v] = <<>>
  BY <1>2
<1>3. ASSUME hnd[c] = "none" PROVE hnd[v] = "none" /\ net[c] = <<>> /\ net[v] = <<>>
  BY <1>3 DEF Started
<1> USE Domains, <1>1
<1>4. ASSUME NEW d \in Side, NEW s \in Sid, EndStep(d, s)
      PROVE  hnd'[v] = "none" /\ net'[c] = <<>> /\ net'[v] = <<>>
  <2>1. <<d, s>> \in End /\ <<Peer(d), s>> \in End /\ <<d, s>> \in {c, v} \cup (End \ {c, v})
    BY DEF End, Side, Peer
  <2>2. s = t => <<d, s>> \in {c, v} /\ <<Peer(d), s>> \in {c, v}
    BY DEF Side, Peer
  <2>3. s # t => <<d, s>> \notin {c, v} /\ <<Peer(d), s>> \notin {c, v}
    OBVIOUS
  <2>4. CASE Recv(d, s)
    BY <1>3, <2>1, <2>2, <2>3, <2>4 DEF Recv, Drop, Known
  <2>5. CASE SelectTcp(d, s)
    BY <1>3, <2>1, <2>2, <2>3, <2>5 DEF SelectTcp, AtSelect
  <2>6. CASE WriteTcp(d, s)
    BY <1>3, <2>1, <2>2, <2>3, <2>6 DEF WriteTcp
  <2>7. CASE WriteSctp(d, s)
    BY <1>3, <2>1, <2>2, <2>3, <2>7 DEF WriteSctp, Put
  <2>8. CASE Enqueue(d, s) \/ StreamRead(d, s) \/ SelectStream(d, s)
    BY <1>3, <2>8 DEF Enqueue, StreamRead, SelectStream
  <2> QED BY <1>4, <2>4, <2>5, <2>6, <2>7, <2>8 DEF EndStep
<1>5. ASSUME NEW s \in Sid, Accept(s)
      PROVE  hnd'[v] = "none" /\ net'[c] = <<>> /\ net'[v] = <<>>
  <2>1. Cl(s) \in End /\ Cl(s) = <<"client", s>> /\ Cl(s) # v
    BY EndsDiffer DEF Cl
  <2> QED BY <1>3, <1>5, <2>1 DEF Accept
<1>6. ASSUME NEW s \in Sid, Dial(s)
      PROVE  hnd'[v] = "none" /\ net'[c] = <<>> /\ net'[v] = <<>>
  <2>1. Sv(s) \in End /\ Sv(s) = <<"server", s>> /\ Sv(s) # c
    BY EndsDiffer DEF Sv
  <2> QED BY <1>3, <1>6, <2>1 DEF Dial
<1>7. ASSUME UNCHANGED <<hnd, net>>
      PROVE  hnd'[v] = "none" /\ net'[c] = <<>> /\ net'[v] = <<>>
  BY <1>3, <1>7
<1>8. /\ \A s \in Sid : Discard(s) \/ CopySlice(s) => UNCHANGED <<hnd, net>>
      /\ \A d \in Side : RecvErr(d) => UNCHANGED <<hnd, net>>
      /\ \A d \in Side, s \in Sid : TcpRead(d, s) => UNCHANGED <<hnd, net>>
      /\ AssocDown \/ UNCHANGED vars => UNCHANGED <<hnd, net>>
  BY DEF Discard, CopySlice, RecvErr, TcpRead, AssocDown, vars
<1> QED BY <1>4, <1>5, <1>6, <1>7, <1>8 DEF Next, Progress, Environment

\* The inductive step.
LEMMA FlowNext ==
    ASSUME TypeOK, TypeOK', NEW t \in Sid, Started(t), Flow(t), [Next]_vars
    PROVE  Flow(t)'
<1>1. ASSUME NEW d \in Side, NEW s \in Sid, EndStep(d, s) \/ TcpRead(d, s) PROVE Flow(t)'
  <2>1. CASE s # t
    BY <1>1, <2>1, StillOthers, FlowFrame
  <2>2. CASE s = t /\ d = "client"
    BY <1>1, <2>2, FlowClient, StillUpload, FlowFrame DEF EndStep
  <2>3. CASE s = t /\ d = "server"
    BY <1>1, <2>3, FlowTcpRead, FlowSelectTcp, FlowWriteSctp, StillUpload, FlowFrame DEF EndStep
  <2> QED BY <2>1, <2>2, <2>3 DEF Side
<1>2. ASSUME NEW d \in Side, RecvErr(d) PROVE Flow(t)'
  BY <1>2, StillRest, FlowFrame
<1>3. ASSUME NEW s \in Sid, Dial(s) \/ Discard(s) \/ CopySlice(s) \/ Accept(s) PROVE Flow(t)'
  BY <1>3, StillRest, FlowFrame
<1>4. CASE AssocDown \/ UNCHANGED vars
  BY <1>4, StillRest, FlowFrame
<1> QED BY <1>1, <1>2, <1>3, <1>4 DEF Next, Progress, Environment

\* Of the download: nothing has moved at the start.
LEMMA FlowInit == Init => DownInFlight
<1> SUFFICES ASSUME Init, NEW s \in Sid
             PROVE  Run(out[<<"client", s>>], s, 0) /\ Started(s) /\ Run(Download(s), s, 0) /\ DownSource(s)
  BY DEF DownInFlight, ClientInOrder, InOrder
<1>1. Cl(s) \in End /\ Sv(s) \in End /\ Cl(s) = <<"client", s>>
  BY EndsDiffer DEF Cl
<1>2. /\ out[Cl(s)] = <<>> /\ b1[Cl(s)] = <<>> /\ ch1[Cl(s)] = <<>> /\ inq[Cl(s)] = <<>>
      /\ pend[Cl(s)] = <<>> /\ net[Cl(s)] = <<>> /\ b2[Sv(s)] = <<>> /\ ch2[Sv(s)] = <<>>
      /\ net[Sv(s)] = <<>> /\ nread[Sv(s)] = 0 /\ hnd[Sv(s)] = "none"
  BY <1>1 DEF Init, Empty
<1>3. Download(s) = <<>>
  <2>1. <<>> \o <<>> = <<>>
    OBVIOUS
  <2> QED BY <1>2, <2>1, Zenon DEF Download, Downstream
<1>4. Len(Download(s)) = 0
  BY <1>3
<1>5. Run(<<>>, s, 0)
  BY DEF Run
<1>6. Run(Download(s), s, 0) /\ Run(out[<<"client", s>>], s, 0)
  BY <1>1, <1>2, <1>3, <1>5, Zenon
<1> QED BY <1>2, <1>4, <1>6 DEF Started, DownSource

\* Download through the tunnel holds one unbroken run of each connection's
\* chunks, for any traffic, capacities, closings and failures.
THEOREM DownloadInFlight == Spec => []DownInFlight
<1>1. DownInFlight /\ TypeOK /\ TypeOK' /\ [Next]_vars => DownInFlight'
  <2> SUFFICES ASSUME DownInFlight, TypeOK, TypeOK', [Next]_vars, NEW s \in Sid
               PROVE  Started(s)' /\ Flow(s)'
    BY DEF DownInFlight, ClientInOrder, InOrder, Flow, Cl, Run
  <2>1. Started(s) /\ Flow(s)
    BY DEF DownInFlight, ClientInOrder, InOrder, Flow, Cl
  <2> QED BY <2>1, StartedNext, FlowNext
<1> QED BY <1>1, FlowInit, TypesHold, PTL DEF Spec

\* So what a TCP client of the tunnel receives is what its upstream wrote, in
\* order, without gap, repetition or another connection's data.
THEOREM DownloadInOrder == Spec => []ClientInOrder
<1>1. DownInFlight => ClientInOrder
  BY DEF DownInFlight
<1> QED BY <1>1, DownloadInFlight, PTL

-----------------------------------------------------------------------------
(* Download implements the abstract byte stream. *)

\* What the abstract variables are.
Sent == [s \in Sid |-> nread[Sv(s)]]
Rcvd == [s \in Sid |-> out[Cl(s)]]

\* Steps other than a read of an upstream and a write to a TCP client stutter.
LEMMA Stutters ==
    ASSUME TypeOK, [Next]_vars,
           \A s \in Sid : ~TcpRead("server", s) /\ ~WriteTcp("client", s)
    PROVE  Sent' = Sent /\ Rcvd' = Rcvd
<1> SUFFICES ASSUME NEW t \in Sid PROVE nread'[Sv(t)] = nread[Sv(t)] /\ out'[Cl(t)] = out[Cl(t)]
  BY DEF Sent, Rcvd, Cl, Sv
<1>1. ASSUME NEW d \in Side, NEW s \in Sid, WriteTcp(d, s)
      PROVE  nread' = nread /\ out'[Cl(t)] = out[Cl(t)]
  <2>1. <<d, s>> # Cl(t) /\ Cl(t) \in End /\ <<d, s>> \in End
    BY <1>1 DEF Cl, End, Side
  <2> QED BY <1>1, <2>1, Domains DEF WriteTcp, Put
<1>2. ASSUME NEW d \in Side, NEW s \in Sid, TcpRead(d, s)
      PROVE  out' = out /\ nread'[Sv(t)] = nread[Sv(t)]
  <2>1. <<d, s>> # Sv(t) /\ Sv(t) \in End /\ <<d, s>> \in End
    BY <1>2 DEF Sv, End, Side
  <2> QED BY <1>2, <2>1, Domains DEF TcpRead
<1>3. ASSUME NEW d \in Side, NEW s \in Sid, EndStep(d, s), ~WriteTcp(d, s) PROVE nread' = nread /\ out' = out
  BY <1>3 DEF EndStep, Recv, Enqueue, StreamRead, SelectStream, SelectTcp, WriteSctp
<1>4. /\ \A s \in Sid : Dial(s) \/ Discard(s) \/ CopySlice(s) \/ Accept(s) => nread' = nread /\ out' = out
      /\ \A d \in Side : RecvErr(d) => nread' = nread /\ out' = out
      /\ AssocDown \/ UNCHANGED vars => nread' = nread /\ out' = out
  BY DEF Dial, Discard, CopySlice, Accept, RecvErr, AssocDown, vars
<1> QED BY <1>1, <1>2, <1>3, <1>4 DEF Next, Progress, Environment

\* A read of the upstream of s is a Send.
LEMMA ReadSends ==
    ASSUME TypeOK, NEW s \in Sid, TcpRead("server", s)
    PROVE  Rcvd' = Rcvd /\ (Sent' = Sent \/ Sent' = [Sent EXCEPT ![s] = @ + 1])
<1>1. \A t \in Sid : Sv(t) \in End /\ (t # s => Sv(t) # Sv(s))
  BY EndsDiffer
<1>2. out' = out /\ (nread' = nread \/ nread' = [nread EXCEPT ![Sv(s)] = @ + 1])
  BY DEF TcpRead, Sv
<1>3. Rcvd' = Rcvd
  BY <1>2 DEF Rcvd, Cl
<1>4. \A t \in Sid : nread' = nread \/ nread'[Sv(t)] = IF t = s THEN nread[Sv(t)] + 1 ELSE nread[Sv(t)]
  BY <1>1, <1>2, Domains
<1>5. Sent' = [t \in Sid |-> nread'[Sv(t)]]
  BY DEF Sent, Sv
<1> QED BY <1>2, <1>3, <1>4, <1>5 DEF Sent

\* A write to the TCP client of s is a Deliver, or fails.
LEMMA WriteDelivers ==
    ASSUME TypeOK, TypeOK', DownInFlight, DownInFlight', NEW s \in Sid, WriteTcp("client", s)
    PROVE  /\ Sent' = Sent
           /\ \/ Rcvd' = Rcvd
              \/ /\ Len(Rcvd[s]) < Sent[s]
                 /\ Rcvd' = [Rcvd EXCEPT ![s] = Append(@, <<s, Len(@) + 1>>)]
<1> DEFINE c == Cl(s)  x == Head(b1[c])
<1>1. c \in End /\ c = <<"client", s>> /\ \A t \in Sid : Cl(t) \in End /\ (t # s => Cl(t) # c)
  BY EndsDiffer DEF Cl
<1>2. nread' = nread /\ hnd[c] = "pipe"
  BY <1>1 DEF WriteTcp
<1>3. Sent' = Sent
  BY <1>2 DEF Sent, Sv
<1>4. CASE out' = out
  BY <1>3, <1>4 DEF Rcvd, Cl
<1>5. CASE out' # out
  <2>1. out' = Put(out, c, x) /\ hnd' = hnd
    BY <1>1, <1>5 DEF WriteTcp
  <2>2. out'[c] = Append(out[c], x) /\ \A t \in Sid : t # s => out'[Cl(t)] = out[Cl(t)]
    BY <1>1, <2>1, Domains DEF Put
  <2>3. out[c] \in Seq(Item) /\ nread[Sv(s)] \in Nat
    BY PathTypes
  <2>4. /\ Len(out[c]) \in Nat /\ Len(Append(out[c], x)) = Len(out[c]) + 1
        /\ Append(out[c], x)[Len(out[c]) + 1] = x
    BY <2>3
  <2>5. x = <<s, Len(out[c]) + 1>>
    <3>1. Run(out'[c], s, 0)
      BY <1>1 DEF DownInFlight, ClientInOrder, InOrder, Run
    <3>2. out'[c][Len(out[c]) + 1] = <<s, 0 + (Len(out[c]) + 1)>>
      BY <2>2, <2>4, <3>1 DEF Run
    <3>3. 0 + (Len(out[c]) + 1) = Len(out[c]) + 1
      BY <2>4
    <3> QED BY <2>2, <2>4, <3>2, <3>3
  <2>6. Len(out[c]) < nread[Sv(s)]
    <3>1. DownSource(s)'
      BY <1>2, <2>1 DEF DownInFlight, Cl
    <3>2. Len(Download(s)') <= nread[Sv(s)] /\ Len(Download(s)') \in Nat
      <4>1. Download(s)' \in Seq(Item)
        <5>1. (Download(s) \in Seq(Item))'
          BY PathTypes, PTL
        <5> QED BY <5>1 DEF Item, Chunk, Eof, Shared, Torn
      <4>2. Len(Download(s)') \in Nat
        BY <4>1, LenProperties
      <4>3. Len(Download(s)') <= nread'[Sv(s)]
        BY <1>2, <2>3, <3>1, <4>2 DEF DownSource, Sv
      <4> QED BY <1>2, <4>2, <4>3
    <3>3. Len(out'[c]) <= Len(Download(s)')
      <4>1. out'[c] \in Seq(Item)
        BY <1>1, SeqMonotonic DEF TypeOK, Item
      <4>2. (\E r \in Seq(Item) : Download(s) = out[Cl(s)] \o r)'
        BY OutIsPrefix, PTL
      <4>3. PICK r \in Seq(Item) : Download(s)' = out'[c] \o r
        BY <4>2 DEF Item, Chunk, Eof, Shared, Torn, Cl
      <4> HIDE DEF c
      <4>4. Len(out'[c] \o r) = Len(out'[c]) + Len(r) /\ Len(r) \in Nat /\ Len(out'[c]) \in Nat
        BY <4>1, ConcatProperties, LenProperties
      <4> QED BY <4>3, <4>4
    <3>4. Len(out'[c]) = Len(out[c]) + 1
      BY <2>2, <2>4
    <3> QED BY <2>3, <2>4, <3>2, <3>3, <3>4
  <2>7. Rcvd' = [t \in Sid |-> out'[Cl(t)]]
    BY DEF Rcvd, Cl
  <2>8. \A t \in Sid : out'[Cl(t)] = IF t = s THEN Append(out[c], x) ELSE out[Cl(t)]
    BY <2>2
  <2>9. Rcvd' = [Rcvd EXCEPT ![s] = Append(out[c], x)]
    BY <2>7, <2>8 DEF Rcvd
  <2>10. Rcvd[s] = out[c] /\ Sent[s] = nread[Sv(s)]
    BY DEF Rcvd, Sent
  <2> QED BY <1>3, <2>5, <2>6, <2>9, <2>10
<1> QED BY <1>4, <1>5

\* The tunnel's download implements the abstract byte stream's safety: each
\* step is a Send, a Deliver of the next chunk sent, or a stutter.
THEOREM DownloadIsByteStream == Spec => DownSafe
<1> USE DEF Down!Init, Down!Next, Down!vars, Down!Send, Down!Deliver
<1>1. Init => Down!Init
  <2> SUFFICES ASSUME Init PROVE Down!Init
    OBVIOUS
  <2>1. \A s \in Sid : nread[Sv(s)] = 0 /\ out[Cl(s)] = <<>>
    BY EndsDiffer DEF Init, Empty
  <2> QED BY <2>1
<1>2. TypeOK /\ TypeOK' /\ DownInFlight /\ DownInFlight' /\ [Next]_vars => [Down!Next]_(Down!vars)
  <2> SUFFICES ASSUME TypeOK, TypeOK', DownInFlight, DownInFlight', [Next]_vars
               PROVE  \/ Sent' = Sent /\ Rcvd' = Rcvd
                      \/ \E s \in Sid :
                           \/ /\ Sent' = [Sent EXCEPT ![s] = @ + 1] /\ Rcvd' = Rcvd
                           \/ /\ Len(Rcvd[s]) < Sent[s]
                              /\ Rcvd' = [Rcvd EXCEPT ![s] = Append(@, <<s, Len(@) + 1>>)]
                              /\ Sent' = Sent
    BY DEF Sent, Rcvd
  <2>1. CASE \A s \in Sid : ~TcpRead("server", s) /\ ~WriteTcp("client", s)
    BY <2>1, Stutters
  <2>2. ASSUME NEW s \in Sid, TcpRead("server", s)
        PROVE  Rcvd' = Rcvd /\ (Sent' = Sent \/ Sent' = [Sent EXCEPT ![s] = @ + 1])
    BY <2>2, ReadSends
  <2>3. ASSUME NEW s \in Sid, WriteTcp("client", s)
        PROVE  /\ Sent' = Sent
               /\ \/ Rcvd' = Rcvd
                  \/ /\ Len(Rcvd[s]) < Sent[s]
                     /\ Rcvd' = [Rcvd EXCEPT ![s] = Append(@, <<s, Len(@) + 1>>)]
    BY <2>3, WriteDelivers
  <2> QED BY <2>1, <2>2, <2>3
<1> QED BY <1>1, <1>2, TypesHold, DownloadInFlight, PTL DEF Spec, DownSafe, Down!Safety

-----------------------------------------------------------------------------
(* Upload: the array runs ahead, never behind. *)

\* x is not an older chunk of s than chunk i.
NotOlder(x, s, i) == x[1] = s => x[2] >= i

\* Messages of s that the server has taken off the association.
UpCount(s) == Len(out[Sv(s)]) + Len(b1[Sv(s)]) + Len(ch1[Sv(s)]) + Len(inq[Sv(s)]) + Len(pend[Sv(s)])

\* Stream s carries chunks of s; the server queues nothing but its array.
OwnChunks(s) ==
    /\ \A i \in 1..Len(net[Sv(s)]) : net[Sv(s)][i][1] = s
    /\ \A i \in 1..Len(b2[Cl(s)]) : b2[Cl(s)][i][1] = s
    /\ \A i \in 1..Len(ch2[Cl(s)]) : ch2[Cl(s)][i] = Eof \/ ch2[Cl(s)][i][1] = s
SharedOnly(s) ==
    /\ \A i \in 1..Len(pend[Sv(s)]) : pend[Sv(s)][i] = Shared
    /\ \A i \in 1..Len(inq[Sv(s)]) : inq[Sv(s)][i] = Shared

\* What is on its way is the next chunk after those taken; what the array
\* holds of s is the last of them; a copy is as new as its place.
UpQueue(s) ==
    /\ Run(net[Sv(s)], s, UpCount(s))
    /\ buf[1] = s => buf[2] = UpCount(s)
    /\ \A i \in 1..Len(b1[Sv(s)]) : NotOlder(b1[Sv(s)][i], s, Len(out[Sv(s)]) + 1)
    /\ \A i \in 1..Len(ch1[Sv(s)]) : NotOlder(ch1[Sv(s)][i], s, Len(out[Sv(s)]) + Len(b1[Sv(s)]) + 1)

UpSent(s) == UpCount(s) + Len(net[Sv(s)])
UpSource(s) ==
    /\ hnd[Cl(s)] = "none" =>
          UpSent(s) = 0 /\ b2[Cl(s)] = <<>> /\ ch2[Cl(s)] = <<>> /\ nread[Cl(s)] = 0
    /\ hnd[Cl(s)] = "pipe" =>
          /\ \A i \in 1..Len(b2[Cl(s)]) : b2[Cl(s)][i] = <<s, UpSent(s) + 1>>
          /\ \/ ch2[Cl(s)] \in {<<>>, <<Eof>>} /\ nread[Cl(s)] = UpSent(s) + Len(b2[Cl(s)])
             \/ /\ ch2[Cl(s)] = << <<s, nread[Cl(s)]>> >>
                /\ nread[Cl(s)] = UpSent(s) + Len(b2[Cl(s)]) + 1

OutNotOlder(s) == \A i \in 1..Len(out[Sv(s)]) : NotOlder(out[Sv(s)][i], s, i)
Live(s) == hnd[Sv(s)] \notin {"discard", "done"}
UpInv(s) == OwnChunks(s) /\ SharedOnly(s) /\ OutNotOlder(s) /\ (Live(s) => UpQueue(s) /\ UpSource(s))

UpInFlight == \A s \in Sid : UpInv(s)

\* A step that leaves the upload of s alone.
UpStill(s) ==
    /\ out'[Sv(s)] = out[Sv(s)] /\ b1'[Sv(s)] = b1[Sv(s)] /\ ch1'[Sv(s)] = ch1[Sv(s)]
    /\ inq'[Sv(s)] = inq[Sv(s)] /\ pend'[Sv(s)] = pend[Sv(s)] /\ net'[Sv(s)] = net[Sv(s)]
    /\ b2'[Cl(s)] = b2[Cl(s)] /\ ch2'[Cl(s)] = ch2[Cl(s)] /\ nread'[Cl(s)] = nread[Cl(s)]
    /\ buf' = buf \/ buf'[1] # s
    /\ hnd'[Cl(s)] \in {hnd[Cl(s)], "done"}
    /\ hnd'[Sv(s)] \notin {"discard", "done"} => hnd[Sv(s)] \notin {"discard", "done"}

\* Of the upload: a step that leaves its queues alone.
LEMMA UpFrame ==
    ASSUME NEW s \in Sid, UpInv(s), UpStill(s)
    PROVE  UpInv(s)'
<1>1. UpCount(s)' = UpCount(s)
  BY DEF UpCount, UpStill, Sv
<1>2. OwnChunks(s)' /\ SharedOnly(s)' /\ OutNotOlder(s)'
  BY DEF UpInv, OwnChunks, SharedOnly, OutNotOlder, NotOlder, UpStill, Sv, Cl
<1>3. ASSUME Live(s)' PROVE UpQueue(s)' /\ UpSource(s)'
  <2>1. UpQueue(s) /\ UpSource(s)
    BY <1>3 DEF UpInv, Live, UpStill, Sv
  <2>2. UpQueue(s)'
    BY <1>1, <2>1 DEF UpQueue, Run, NotOlder, UpStill, Sv
  <2>3. UpSent(s)' = UpSent(s)
    BY <1>1 DEF UpSent, UpStill, Sv
  <2>4. UpSource(s)'
    BY <2>1, <2>3 DEF UpSource, UpStill, Cl
  <2> QED BY <2>2, <2>4
<1> QED BY <1>2, <1>3 DEF UpInv

\* A sum of five, whatever its parts are.
LEMMA Five ==
    ASSUME NEW a \in Nat, NEW b \in Nat, NEW c \in Nat, NEW d \in Nat, NEW e \in Nat
    PROVE  a + b + c + d + e \in Nat
OBVIOUS

\* Lengths of the places of the upload path.
LEMMA UpTypes ==
    ASSUME TypeOK, NEW s \in Sid
    PROVE  /\ Sv(s) \in End /\ Cl(s) \in End /\ Sv(s) # Cl(s)
           /\ out[Sv(s)] \in Seq(Chunk \cup {Torn}) /\ Len(out[Sv(s)]) \in Nat
           /\ b1[Sv(s)] \in Slots(Chunk \cup {Torn}) /\ Len(b1[Sv(s)]) \in Nat
           /\ ch1[Sv(s)] \in Slots(Chunk \cup {Shared, Torn}) /\ Len(ch1[Sv(s)]) \in Nat
           /\ inq[Sv(s)] \in Seq(Chunk \cup {Shared}) /\ Len(inq[Sv(s)]) \in Nat
           /\ pend[Sv(s)] \in Slots(Chunk \cup {Shared}) /\ Len(pend[Sv(s)]) \in Nat
           /\ net[Sv(s)] \in Seq(Chunk) /\ Len(net[Sv(s)]) \in Nat
           /\ b2[Cl(s)] \in Slots(Chunk) /\ Len(b2[Cl(s)]) \in Nat
           /\ ch2[Cl(s)] \in Slots(Chunk \cup {Eof}) /\ nread[Cl(s)] \in Nat
           /\ UpCount(s) \in Nat /\ UpSent(s) \in Nat
<1>1. Sv(s) \in End /\ Cl(s) \in End /\ Sv(s) # Cl(s)
  BY EndsDiffer
<1>2. /\ out[Sv(s)] \in Seq(Chunk \cup {Torn}) /\ b1[Sv(s)] \in Slots(Chunk \cup {Torn})
      /\ ch1[Sv(s)] \in Slots(Chunk \cup {Shared, Torn}) /\ inq[Sv(s)] \in Seq(Chunk \cup {Shared})
      /\ pend[Sv(s)] \in Slots(Chunk \cup {Shared}) /\ net[Sv(s)] \in Seq(Chunk)
      /\ b2[Cl(s)] \in Slots(Chunk) /\ ch2[Cl(s)] \in Slots(Chunk \cup {Eof}) /\ nread[Cl(s)] \in Nat
  BY <1>1 DEF TypeOK
<1>3. \A T : \A q \in Seq(T) : Len(q) \in Nat
  BY LenProperties
<1>4. \A T : \A q \in Slots(T) : Len(q) \in Nat
  BY <1>3 DEF Slots
<1>5. /\ Len(out[Sv(s)]) \in Nat /\ Len(b1[Sv(s)]) \in Nat /\ Len(ch1[Sv(s)]) \in Nat
      /\ Len(inq[Sv(s)]) \in Nat /\ Len(pend[Sv(s)]) \in Nat /\ Len(net[Sv(s)]) \in Nat
      /\ Len(b2[Cl(s)]) \in Nat
  BY <1>2, <1>3, <1>4
<1>6. UpCount(s) \in Nat
  BY <1>5, Five DEF UpCount
<1>7. UpSent(s) \in Nat
  BY <1>5, <1>6 DEF UpSent
<1> QED BY <1>1, <1>2, <1>5, <1>6, <1>7

\* The count after a step that adds a message, or moves one on.
LEMMA UpSum ==
    ASSUME TypeOK, NEW s \in Sid
    PROVE  /\ /\ UNCHANGED <<out, b1, ch1, inq>>
              /\ Len(pend[Sv(s)]) = 0 /\ Len(pend'[Sv(s)]) = 1
              => UpCount(s)' = UpCount(s) + 1
           /\ /\ UNCHANGED <<out, b1, ch1>>
              /\ Len(pend[Sv(s)]) = 1 /\ Len(pend'[Sv(s)]) = 0 /\ Len(inq'[Sv(s)]) = Len(inq[Sv(s)]) + 1
              => UpCount(s)' = UpCount(s)
           /\ /\ UNCHANGED <<out, b1, pend>>
              /\ Len(inq'[Sv(s)]) = Len(inq[Sv(s)]) - 1 /\ Len(inq[Sv(s)]) # 0
              /\ Len(ch1[Sv(s)]) = 0 /\ Len(ch1'[Sv(s)]) = 1
              => UpCount(s)' = UpCount(s)
           /\ /\ UNCHANGED <<out, inq, pend>>
              /\ Len(ch1[Sv(s)]) = 1 /\ Len(ch1'[Sv(s)]) = 0 /\ Len(b1[Sv(s)]) = 0 /\ Len(b1'[Sv(s)]) = 1
              => UpCount(s)' = UpCount(s)
           /\ /\ UNCHANGED <<ch1, inq, pend>>
              /\ Len(b1[Sv(s)]) = 1 /\ Len(b1'[Sv(s)]) = 0 /\ Len(out'[Sv(s)]) = Len(out[Sv(s)]) + 1
              => UpCount(s)' = UpCount(s)
           /\ Len(ch1[Sv(s)]) = 1 => UpCount(s) >= Len(out[Sv(s)]) + Len(b1[Sv(s)]) + 1
<1> DEFINE a == Len(out[Sv(s)])  b == Len(b1[Sv(s)])  c == Len(ch1[Sv(s)])
           d == Len(inq[Sv(s)])  e == Len(pend[Sv(s)])
<1>0. a \in Nat /\ b \in Nat /\ c \in Nat /\ d \in Nat /\ e \in Nat
  BY UpTypes
<1>1. UpCount(s) = a + b + c + d + e
  BY DEF UpCount
<1>2. \A f, g, h, i, j :
         /\ Len(out'[Sv(s)]) = f /\ Len(b1'[Sv(s)]) = g /\ Len(ch1'[Sv(s)]) = h
         /\ Len(inq'[Sv(s)]) = i /\ Len(pend'[Sv(s)]) = j
         => UpCount(s)' = f + g + h + i + j
  BY DEF UpCount, Sv
<1> HIDE DEF a, b, c, d, e
<1>3. ASSUME Len(out'[Sv(s)]) = a, Len(b1'[Sv(s)]) = b, Len(ch1'[Sv(s)]) = c,
             Len(inq'[Sv(s)]) = d, e = 0, Len(pend'[Sv(s)]) = 1
      PROVE  UpCount(s)' = UpCount(s) + 1
  <2>1. UpCount(s)' = a + b + c + d + 1
    BY <1>2, <1>3
  <2> QED BY <1>0, <1>1, <1>3, <2>1
<1>4. ASSUME Len(out'[Sv(s)]) = a, Len(b1'[Sv(s)]) = b, Len(ch1'[Sv(s)]) = c,
             Len(inq'[Sv(s)]) = d + 1, e = 1, Len(pend'[Sv(s)]) = 0
      PROVE  UpCount(s)' = UpCount(s)
  <2>1. UpCount(s)' = a + b + c + (d + 1) + 0
    BY <1>2, <1>4
  <2> QED BY <1>0, <1>1, <1>4, <2>1
<1>5. ASSUME Len(out'[Sv(s)]) = a, Len(b1'[Sv(s)]) = b, c = 0, Len(ch1'[Sv(s)]) = 1,
             d # 0, Len(inq'[Sv(s)]) = d - 1, Len(pend'[Sv(s)]) = e
      PROVE  UpCount(s)' = UpCount(s)
  <2>1. UpCount(s)' = a + b + 1 + (d - 1) + e
    BY <1>2, <1>5
  <2> QED BY <1>0, <1>1, <1>5, <2>1
<1>6. ASSUME Len(out'[Sv(s)]) = a, b = 0, Len(b1'[Sv(s)]) = 1, c = 1, Len(ch1'[Sv(s)]) = 0,
             Len(inq'[Sv(s)]) = d, Len(pend'[Sv(s)]) = e
      PROVE  UpCount(s)' = UpCount(s)
  <2>1. UpCount(s)' = a + 1 + 0 + d + e
    BY <1>2, <1>6
  <2> QED BY <1>0, <1>1, <1>6, <2>1
<1>7. ASSUME Len(out'[Sv(s)]) = a + 1, b = 1, Len(b1'[Sv(s)]) = 0, Len(ch1'[Sv(s)]) = c,
             Len(inq'[Sv(s)]) = d, Len(pend'[Sv(s)]) = e
      PROVE  UpCount(s)' = UpCount(s)
  <2>1. UpCount(s)' = (a + 1) + 0 + c + d + e
    BY <1>2, <1>7
  <2> QED BY <1>0, <1>1, <1>7, <2>1
<1>8. c = 1 => UpCount(s) >= a + b + 1
  BY <1>0, <1>1
<1>9. /\ out' = out => Len(out'[Sv(s)]) = a
      /\ b1' = b1 => Len(b1'[Sv(s)]) = b
      /\ ch1' = ch1 => Len(ch1'[Sv(s)]) = c
      /\ inq' = inq => Len(inq'[Sv(s)]) = d
      /\ pend' = pend => Len(pend'[Sv(s)]) = e
  BY DEF a, b, c, d, e
<1>10. /\ a = Len(out[Sv(s)]) /\ b = Len(b1[Sv(s)]) /\ c = Len(ch1[Sv(s)])
       /\ d = Len(inq[Sv(s)]) /\ e = Len(pend[Sv(s)])
  BY DEF a, b, c, d, e
<1> QED BY <1>3, <1>4, <1>5, <1>6, <1>7, <1>8, <1>9, <1>10

\* Taking the head of a queue, and putting one at an end.
LEMMA Heads ==
    ASSUME NEW T, NEW q \in Seq(T), q # <<>>
    PROVE  /\ Len(q) \in Nat /\ 1 \in 1..Len(q) /\ Head(q) = q[1] /\ Head(q) \in T
           /\ Len(Tail(q)) = Len(q) - 1
           /\ \A i \in 1..Len(Tail(q)) : i + 1 \in 1..Len(q) /\ Tail(q)[i] = q[i + 1]
OBVIOUS

\* What Append makes of a sequence, place by place.
LEMMA Ends ==
    ASSUME NEW T, NEW q \in Seq(T), NEW x
    PROVE  /\ Len(q) \in Nat /\ Len(Append(q, x)) = Len(q) + 1
           /\ \A i \in 1..Len(Append(q, x)) : IF i = Len(q) + 1 THEN Append(q, x)[i] = x
                                              ELSE i \in 1..Len(q) /\ Append(q, x)[i] = q[i]
<1>1. q \in Seq(T \cup {x}) /\ x \in T \cup {x}
  BY SeqMonotonic
<1> QED BY <1>1

\* A slot that is not empty holds one item.
LEMMA FullSlot ==
    ASSUME NEW T, NEW q \in Slots(T), q # <<>>
    PROVE  /\ Len(q) = 1 /\ Head(q) = q[1] /\ Head(q) \in T
           /\ Tail(q) = <<>> /\ Len(Tail(q)) = 0 /\ \A i \in 1..Len(q) : i = 1
<1>1. q \in Seq(T) /\ Len(q) <= 1
  BY DEF Slots
<1>2. Len(q) \in Nat /\ 1 \in 1..Len(q) /\ Head(q) = q[1] /\ Head(q) \in T
  BY <1>1, Heads
<1>3. Len(q) = 1
  <2>1. \A n \in Nat : n <= 1 /\ 1 \in 1..n => n = 1
    OBVIOUS
  <2> QED BY <1>1, <1>2, <2>1
<1>5. Tail(q) \in Seq(T) /\ Len(Tail(q)) = 0
  BY <1>1, <1>3
<1>6. Tail(q) = <<>>
  BY <1>5, EmptySeq
<1> QED BY <1>2, <1>3, <1>5, <1>6

\* The first element of an empty sequence.
LEMMA NewSlot ==
    ASSUME NEW q, q = <<>>, NEW x
    PROVE  /\ Append(q, x) = <<x>> /\ Len(q) = 0 /\ Len(Append(q, x)) = 1
           /\ \A i \in 1..Len(Append(q, x)) : Append(q, x)[i] = x
OBVIOUS

-----------------------------------------------------------------------------
(* The steps that move an upload. *)

\* The reader takes a message of s: its array is the next chunk.
LEMMA UpRecv ==
    ASSUME TypeOK, NEW s \in Sid, UpInv(s), Recv("server", s)
    PROVE  UpInv(s)'
<1>1. Sv(s) \in End /\ Cl(s) \in End /\ Sv(s) # Cl(s) /\ Sv(s) = <<"server", s>>
  BY UpTypes DEF Sv
<1>2. /\ pend[Sv(s)] = <<>> /\ net[Sv(s)] # <<>> /\ net'[Sv(s)] = Tail(net[Sv(s)])
      /\ buf' = Head(net[Sv(s)]) /\ pend'[Sv(s)] = Append(pend[Sv(s)], Shared)
      /\ hnd'[Cl(s)] = hnd[Cl(s)] /\ (hnd'[Sv(s)] = hnd[Sv(s)] \/ hnd[Sv(s)] = "none")
      /\ UNCHANGED <<inq, ch1, b1, out, ch2, b2, nread>>
  BY <1>1, Domains DEF Recv, Put, Drop, ReaderIdle, Elem, Known
<1>3. /\ Len(pend'[Sv(s)]) = 1 /\ Len(pend[Sv(s)]) = 0 /\ Len(net[Sv(s)]) \in Nat
      /\ \A i \in 1..Len(pend'[Sv(s)]) : pend'[Sv(s)][i] = Shared
      /\ 1 \in 1..Len(net[Sv(s)]) /\ Head(net[Sv(s)]) = net[Sv(s)][1]
      /\ Len(net'[Sv(s)]) = Len(net[Sv(s)]) - 1
      /\ \A i \in 1..Len(net'[Sv(s)]) : i + 1 \in 1..Len(net[Sv(s)]) /\ net'[Sv(s)][i] = net[Sv(s)][i + 1]
  BY <1>2, UpTypes, Heads, NewSlot
<1>4. UpCount(s)' = UpCount(s) + 1 /\ UpCount(s) \in Nat
  BY <1>2, <1>3, UpTypes, UpSum
<1>7. UpSent(s)' = UpSent(s)
  <2>1. UpSent(s)' = UpCount(s)' + Len(net'[Sv(s)])
    BY DEF UpSent, Sv
  <2> QED BY <1>3, <1>4, <2>1 DEF UpSent
<1>5. OwnChunks(s)' /\ SharedOnly(s)' /\ OutNotOlder(s)'
  <2>1. OwnChunks(s)'
    <3>1. \A i \in 1..Len(net'[Sv(s)]) : net'[Sv(s)][i][1] = s
      BY <1>3 DEF UpInv, OwnChunks
    <3> QED BY <1>2, <3>1 DEF UpInv, OwnChunks, Sv, Cl
  <2>2. SharedOnly(s)'
    BY <1>2, <1>3 DEF UpInv, SharedOnly, Sv
  <2>3. OutNotOlder(s)'
    BY <1>2 DEF UpInv, OutNotOlder, NotOlder, Sv
  <2> QED BY <2>1, <2>2, <2>3
<1>6. ASSUME Live(s)' PROVE UpQueue(s)' /\ UpSource(s)'
  <2>1. UpQueue(s) /\ UpSource(s)
    BY <1>2, <1>6 DEF UpInv, Live, Sv
  <2>2. Run(net[Sv(s)], s, UpCount(s))' /\ buf'[2] = UpCount(s)'
    <3>1. \A i \in 1..Len(net[Sv(s)]) : net[Sv(s)][i] = <<s, UpCount(s) + i>>
      BY <2>1 DEF UpQueue, Run
    <3>2. buf' = <<s, UpCount(s) + 1>>
      BY <1>2, <1>3, <3>1
    <3>3. \A i \in 1..Len(net'[Sv(s)]) : net'[Sv(s)][i] = <<s, (UpCount(s) + 1) + i>>
      <4> TAKE i \in 1..Len(net'[Sv(s)])
      <4>1. net'[Sv(s)][i] = <<s, UpCount(s) + (i + 1)>>
        BY <1>3, <3>1
      <4>2. i \in Nat /\ UpCount(s) + (i + 1) = (UpCount(s) + 1) + i
        BY <1>3, <1>4
      <4> QED BY <4>1, <4>2
    <3> QED BY <1>4, <3>2, <3>3 DEF Run, Sv
  <2>3. UpQueue(s)'
    BY <1>2, <2>1, <2>2 DEF UpQueue, NotOlder, Sv
  <2>4. UpSource(s)'
    BY <1>2, <1>7, <2>1 DEF UpSource, Cl
  <2> QED BY <2>3, <2>4
<1> QED BY <1>5, <1>6 DEF UpInv

\* What is taken stays as many when it moves on, and what was copied stays as
\* new as its place.
LEMMA UpMoves ==
    ASSUME TypeOK, NEW s \in Sid, UpInv(s), UpCount(s)' = UpCount(s),
           UNCHANGED <<buf, net, ch2, b2, nread>>, hnd'[Cl(s)] = hnd[Cl(s)],
           SharedOnly(s)', OutNotOlder(s)', Live(s)' => Live(s),
           Live(s) /\ UpQueue(s) =>
              /\ \A i \in 1..Len(b1'[Sv(s)]) : NotOlder(b1'[Sv(s)][i], s, Len(out'[Sv(s)]) + 1)
              /\ \A i \in 1..Len(ch1'[Sv(s)]) :
                    NotOlder(ch1'[Sv(s)][i], s, Len(out'[Sv(s)]) + Len(b1'[Sv(s)]) + 1)
    PROVE  UpInv(s)'
<1>1. OwnChunks(s)'
  BY DEF UpInv, OwnChunks, Sv, Cl
<1>2. ASSUME Live(s)' PROVE UpQueue(s)' /\ UpSource(s)'
  <2>1. Live(s) /\ UpQueue(s) /\ UpSource(s)
    BY <1>2 DEF UpInv
  <2>2. UpQueue(s)'
    BY <2>1 DEF UpQueue, Run, NotOlder, Sv
  <2>3. UpSent(s)' = UpSent(s)
    BY DEF UpSent, Sv
  <2>4. UpSource(s)'
    BY <2>1, <2>3 DEF UpSource, Cl
  <2> QED BY <2>2, <2>4
<1> QED BY <1>1, <1>2 DEF UpInv

\* Of the upload: the server's reader takes a message and queues it.
LEMMA UpEnqueue ==
    ASSUME TypeOK, NEW s \in Sid, UpInv(s), Enqueue("server", s) \/ StreamRead("server", s)
    PROVE  UpInv(s)'
<1>1. Sv(s) \in End /\ Cl(s) \in End /\ Sv(s) = <<"server", s>>
  BY UpTypes DEF Sv
<1>2. UNCHANGED <<buf, net, b1, out, ch2, b2, nread, hnd>>
  BY DEF Enqueue, StreamRead
<1>3. CASE Enqueue("server", s)
  <2>1. /\ pend[Sv(s)] # <<>> /\ inq'[Sv(s)] = Append(inq[Sv(s)], Head(pend[Sv(s)]))
        /\ pend'[Sv(s)] = Tail(pend[Sv(s)]) /\ ch1' = ch1
    BY <1>1, <1>3, Domains DEF Enqueue, Put, Drop
  <2>2. /\ Len(pend[Sv(s)]) = 1 /\ Len(pend'[Sv(s)]) = 0 /\ Head(pend[Sv(s)]) = pend[Sv(s)][1]
    BY <2>1, UpTypes, FullSlot
  <2>3. /\ Len(inq'[Sv(s)]) = Len(inq[Sv(s)]) + 1
        /\ \A i \in 1..Len(inq'[Sv(s)]) : IF i = Len(inq[Sv(s)]) + 1 THEN inq'[Sv(s)][i] = Head(pend[Sv(s)])
                                          ELSE i \in 1..Len(inq[Sv(s)]) /\ inq'[Sv(s)][i] = inq[Sv(s)][i]
    BY <2>1, UpTypes, Ends
  <2>4. UpCount(s)' = UpCount(s)
    BY <1>2, <2>1, <2>2, <2>3, UpTypes, UpSum
  <2>5. SharedOnly(s)'
    <3>1. /\ \A i \in 1..Len(pend[Sv(s)]) : pend[Sv(s)][i] = Shared
          /\ \A i \in 1..Len(inq[Sv(s)]) : inq[Sv(s)][i] = Shared
      BY DEF UpInv, SharedOnly
    <3>2. Head(pend[Sv(s)]) = Shared
      BY <2>2, <3>1
    <3>3. \A i \in 1..Len(inq'[Sv(s)]) : inq'[Sv(s)][i] = Shared
      BY <2>3, <3>1, <3>2
    <3>4. \A i \in 1..Len(pend'[Sv(s)]) : pend'[Sv(s)][i] = Shared
      BY <2>2
    <3> QED BY <3>3, <3>4 DEF SharedOnly, Sv
  <2>6. OutNotOlder(s)' /\ (Live(s)' => Live(s))
    BY <1>2 DEF UpInv, OutNotOlder, NotOlder, Live, Sv
  <2>7. UpQueue(s) =>
            /\ \A i \in 1..Len(b1'[Sv(s)]) : NotOlder(b1'[Sv(s)][i], s, Len(out'[Sv(s)]) + 1)
            /\ \A i \in 1..Len(ch1'[Sv(s)]) :
                  NotOlder(ch1'[Sv(s)][i], s, Len(out'[Sv(s)]) + Len(b1'[Sv(s)]) + 1)
    BY <1>2, <2>1 DEF UpQueue
  <2> QED BY <1>2, <2>4, <2>5, <2>6, <2>7, UpMoves
<1>4. CASE StreamRead("server", s)
  <2>1. /\ ch1[Sv(s)] = <<>> /\ inq[Sv(s)] # <<>> /\ inq'[Sv(s)] = Tail(inq[Sv(s)])
        /\ ch1'[Sv(s)] = Append(ch1[Sv(s)], Head(inq[Sv(s)])) /\ pend' = pend
    BY <1>1, <1>4, Domains DEF StreamRead, Put, Drop
  <2>2. /\ Head(inq[Sv(s)]) = inq[Sv(s)][1] /\ 1 \in 1..Len(inq[Sv(s)]) /\ Len(inq[Sv(s)]) # 0
        /\ Len(inq'[Sv(s)]) = Len(inq[Sv(s)]) - 1
        /\ \A i \in 1..Len(inq'[Sv(s)]) : i + 1 \in 1..Len(inq[Sv(s)]) /\ inq'[Sv(s)][i] = inq[Sv(s)][i + 1]
    BY <2>1, UpTypes, Heads
  <2>3. /\ Len(ch1[Sv(s)]) = 0 /\ Len(ch1'[Sv(s)]) = 1
        /\ \A i \in 1..Len(ch1'[Sv(s)]) : ch1'[Sv(s)][i] = Shared
    BY <2>1, <2>2, NewSlot DEF UpInv, SharedOnly
  <2>4. UpCount(s)' = UpCount(s)
    BY <1>2, <2>1, <2>2, <2>3, UpTypes, UpSum
  <2>5. SharedOnly(s)'
    BY <2>1, <2>2 DEF UpInv, SharedOnly, Sv
  <2>6. OutNotOlder(s)' /\ (Live(s)' => Live(s))
    BY <1>2 DEF UpInv, OutNotOlder, NotOlder, Live, Sv
  <2>7. Shared[1] # s
    BY TunnelAssumption DEF Shared
  <2> QED BY <1>2, <2>3, <2>4, <2>5, <2>6, <2>7, UpMoves DEF UpQueue, NotOlder
<1> QED BY <1>3, <1>4

\* The copy is of the array, as new as the last message taken, or torn.
LEMMA UpCopy ==
    ASSUME TypeOK, NEW s \in Sid, UpInv(s), CopySlice(s)
    PROVE  UpInv(s)'
<1>1. Sv(s) \in End /\ Cl(s) \in End /\ Sv(s) = <<"server", s>>
  BY UpTypes DEF Sv
<1>2. UNCHANGED <<buf, net, pend, inq, b1, out, ch2, b2, nread, hnd>>
  BY DEF CopySlice
<1>3. PICK x \in BufContents : ch1[Sv(s)] = <<Shared>> /\ ch1'[Sv(s)] = <<x>>
  BY <1>1, Domains DEF CopySlice
<1>4. /\ Len(ch1[Sv(s)]) = 1 /\ Len(ch1'[Sv(s)]) = 1
      /\ \A i \in 1..Len(ch1'[Sv(s)]) : ch1'[Sv(s)][i] = x
  BY <1>3
<1>5. UpCount(s)' = UpCount(s) /\ UpCount(s) >= Len(out[Sv(s)]) + Len(b1[Sv(s)]) + 1
  <2>1. UpCount(s)' = UpCount(s)
    BY <1>2, <1>4 DEF UpCount, Sv
  <2>2. UpCount(s) >= Len(out[Sv(s)]) + Len(b1[Sv(s)]) + 1
    BY <1>4, UpSum
  <2> QED BY <2>1, <2>2
<1>6. SharedOnly(s)' /\ OutNotOlder(s)' /\ (Live(s)' => Live(s))
  BY <1>2 DEF UpInv, SharedOnly, OutNotOlder, NotOlder, Live, Sv
<1>7. x = buf \/ (x = Torn /\ Torn[1] # s)
  BY TunnelAssumption DEF BufContents, Torn
<1>8. UpQueue(s) => NotOlder(x, s, Len(out[Sv(s)]) + Len(b1[Sv(s)]) + 1)
  BY <1>5, <1>7 DEF UpQueue, NotOlder
<1> QED BY <1>2, <1>4, <1>5, <1>6, <1>8, UpMoves DEF UpQueue

\* Of the upload: the server's pipe takes a message from its reader.
LEMMA UpSelect ==
    ASSUME TypeOK, NEW s \in Sid, UpInv(s), SelectStream("server", s)
    PROVE  UpInv(s)'
<1>1. Sv(s) \in End /\ Cl(s) \in End /\ Sv(s) = <<"server", s>>
  BY UpTypes DEF Sv
<1>2. UNCHANGED <<buf, net, pend, inq, out, ch2, b2, nread, hnd>>
  BY DEF SelectStream
<1>3. /\ b1[Sv(s)] = <<>> /\ ch1[Sv(s)] # <<>> /\ ch1'[Sv(s)] = Tail(ch1[Sv(s)])
      /\ b1'[Sv(s)] = Append(b1[Sv(s)], Head(ch1[Sv(s)]))
  BY <1>1, Domains DEF SelectStream, AtSelect, Put, Drop
<1>4. /\ Len(ch1[Sv(s)]) = 1 /\ Len(ch1'[Sv(s)]) = 0 /\ Head(ch1[Sv(s)]) = ch1[Sv(s)][1]
  BY <1>3, UpTypes, FullSlot
<1>5. /\ Len(b1[Sv(s)]) = 0 /\ Len(b1'[Sv(s)]) = 1
      /\ \A i \in 1..Len(b1'[Sv(s)]) : b1'[Sv(s)][i] = ch1[Sv(s)][1]
  BY <1>3, <1>4, NewSlot
<1>6. UpCount(s)' = UpCount(s)
  BY <1>2, <1>4, <1>5, UpTypes, UpSum
<1>7. SharedOnly(s)' /\ OutNotOlder(s)' /\ (Live(s)' => Live(s))
  BY <1>2 DEF UpInv, SharedOnly, OutNotOlder, NotOlder, Live, Sv
<1>8. UpQueue(s) => NotOlder(ch1[Sv(s)][1], s, Len(out[Sv(s)]) + 1)
  <2>1. Len(out[Sv(s)]) + Len(b1[Sv(s)]) + 1 = Len(out[Sv(s)]) + 1
    <3>1. \A n \in Nat : n + 0 + 1 = n + 1
      OBVIOUS
    <3>2. Len(out[Sv(s)]) \in Nat /\ Len(b1[Sv(s)]) = 0
      BY <1>5, UpTypes
    <3> QED BY <3>1, <3>2
  <2>2. 1 \in 1..Len(ch1[Sv(s)])
    BY <1>4
  <2>3. UpQueue(s) => NotOlder(ch1[Sv(s)][1], s, Len(out[Sv(s)]) + Len(b1[Sv(s)]) + 1)
    BY <2>2 DEF UpQueue
  <2> QED BY <2>1, <2>3
<1>9. UpQueue(s) =>
          /\ \A i \in 1..Len(b1'[Sv(s)]) : NotOlder(b1'[Sv(s)][i], s, Len(out'[Sv(s)]) + 1)
          /\ \A i \in 1..Len(ch1'[Sv(s)]) :
                NotOlder(ch1'[Sv(s)][i], s, Len(out'[Sv(s)]) + Len(b1'[Sv(s)]) + 1)
  BY <1>2, <1>4, <1>5, <1>8
<1> QED BY <1>2, <1>6, <1>7, <1>9, UpMoves

\* Of the upload: the server's pipe writes it to the upstream.
LEMMA UpWrite ==
    ASSUME TypeOK, NEW s \in Sid, UpInv(s), WriteTcp("server", s)
    PROVE  UpInv(s)'
<1>1. Sv(s) \in End /\ Cl(s) \in End /\ Sv(s) = <<"server", s>> /\ Sv(s) # Cl(s)
  BY UpTypes DEF Sv
<1>2. UNCHANGED <<buf, net, pend, inq, ch1, ch2, b2, nread>> /\ hnd'[Cl(s)] = hnd[Cl(s)]
  BY <1>1, Domains DEF WriteTcp
<1>3. hnd[Sv(s)] = "pipe" /\ b1[Sv(s)] # <<>> /\ b1'[Sv(s)] = Tail(b1[Sv(s)])
  BY <1>1, Domains DEF WriteTcp, Drop
<1>4. /\ Len(b1[Sv(s)]) = 1 /\ Len(b1'[Sv(s)]) = 0 /\ Head(b1[Sv(s)]) = b1[Sv(s)][1]
  BY <1>3, UpTypes, FullSlot
<1>5. UpQueue(s) /\ OutNotOlder(s) /\ SharedOnly(s)
  BY <1>3 DEF UpInv, Live
<1>6. CASE out'[Sv(s)] = Append(out[Sv(s)], Head(b1[Sv(s)])) /\ hnd' = hnd
  <2>1. /\ Len(out'[Sv(s)]) = Len(out[Sv(s)]) + 1
        /\ \A i \in 1..Len(out'[Sv(s)]) : IF i = Len(out[Sv(s)]) + 1 THEN out'[Sv(s)][i] = Head(b1[Sv(s)])
                                          ELSE i \in 1..Len(out[Sv(s)]) /\ out'[Sv(s)][i] = out[Sv(s)][i]
    BY <1>6, UpTypes, Ends
  <2>2. UpCount(s)' = UpCount(s)
    BY <1>2, <1>4, <2>1, UpTypes, UpSum
  <2>3. NotOlder(Head(b1[Sv(s)]), s, Len(out[Sv(s)]) + 1)
    BY <1>4, <1>5 DEF UpQueue
  <2>4. \A i \in 1..Len(out'[Sv(s)]) : NotOlder(out'[Sv(s)][i], s, i)
    BY <1>5, <2>1, <2>3 DEF OutNotOlder
  <2>5. SharedOnly(s)' /\ OutNotOlder(s)' /\ (Live(s)' => Live(s))
    BY <1>2, <1>5, <1>6, <2>4 DEF SharedOnly, OutNotOlder, NotOlder, Live, Sv
  <2>6. Len(out'[Sv(s)]) + Len(b1'[Sv(s)]) + 1 = Len(out[Sv(s)]) + Len(b1[Sv(s)]) + 1
    BY <1>4, <2>1, UpTypes
  <2>7. UpQueue(s) =>
            /\ \A i \in 1..Len(b1'[Sv(s)]) : NotOlder(b1'[Sv(s)][i], s, Len(out'[Sv(s)]) + 1)
            /\ \A i \in 1..Len(ch1'[Sv(s)]) :
                  NotOlder(ch1'[Sv(s)][i], s, Len(out'[Sv(s)]) + Len(b1'[Sv(s)]) + 1)
    BY <1>2, <1>4, <2>6 DEF UpQueue
  <2> QED BY <1>2, <2>2, <2>5, <2>7, UpMoves
<1>7. CASE out' = out /\ hnd'[Sv(s)] = "done"
  <2>1. ~Live(s)' /\ OutNotOlder(s)' /\ SharedOnly(s)' /\ OwnChunks(s)'
    BY <1>2, <1>5, <1>7 DEF UpInv, Live, OutNotOlder, NotOlder, SharedOnly, OwnChunks, Sv, Cl
  <2> QED BY <2>1 DEF UpInv
<1>8. \/ out'[Sv(s)] = Append(out[Sv(s)], Head(b1[Sv(s)])) /\ hnd' = hnd
      \/ out' = out /\ hnd'[Sv(s)] = "done"
  BY <1>1, Domains DEF WriteTcp, Put
<1> QED BY <1>6, <1>7, <1>8

\* The client's TCP peer is read into the end of the upload path.
LEMMA UpTcpRead ==
    ASSUME TypeOK, NEW s \in Sid, UpInv(s), TcpRead("client", s)
    PROVE  UpInv(s)'
<1>1. Sv(s) \in End /\ Cl(s) \in End /\ Cl(s) = <<"client", s>>
  BY UpTypes DEF Cl
<1>2. UNCHANGED <<buf, net, pend, inq, ch1, b1, out, b2, hnd>> /\ hnd[Cl(s)] = "pipe"
  BY <1>1 DEF TcpRead
<1>3. \/ nread'[Cl(s)] = nread[Cl(s)] + 1 /\ ch2'[Cl(s)] = << <<s, nread[Cl(s)] + 1>> >>
      \/ nread'[Cl(s)] = nread[Cl(s)] /\ ch2'[Cl(s)] = <<Eof>>
  <2>1. /\ ch2[Cl(s)] = <<>>
        /\ \/ nread'[Cl(s)] = nread[Cl(s)] + 1 /\ ch2'[Cl(s)] = Append(ch2[Cl(s)], <<s, nread[Cl(s)] + 1>>)
           \/ nread'[Cl(s)] = nread[Cl(s)] /\ ch2'[Cl(s)] = Append(ch2[Cl(s)], Eof)
    BY <1>1, Domains DEF TcpRead, Put
  <2>2. \A x : Append(ch2[Cl(s)], x) = <<x>>
    BY <2>1, OneSlot, Zenon
  <2> QED BY <2>1, <2>2
<1>4. ch2[Cl(s)] = <<>>
  BY <1>1 DEF TcpRead
<1>5. UpCount(s)' = UpCount(s) /\ UpSent(s)' = UpSent(s)
  BY <1>2 DEF UpCount, UpSent, Sv
<1>6. OwnChunks(s)' /\ SharedOnly(s)' /\ OutNotOlder(s)'
  <2>1. SharedOnly(s)' /\ OutNotOlder(s)'
    BY <1>2 DEF UpInv, SharedOnly, OutNotOlder, NotOlder, Sv
  <2>2. \A i \in 1..Len(ch2'[Cl(s)]) : ch2'[Cl(s)][i] = Eof \/ ch2'[Cl(s)][i][1] = s
    BY <1>3
  <2>3. OwnChunks(s)'
    BY <1>2, <2>2 DEF UpInv, OwnChunks, Sv, Cl
  <2> QED BY <2>1, <2>3
<1>7. ASSUME Live(s)' PROVE UpQueue(s)' /\ UpSource(s)'
  <2>1. UpQueue(s) /\ UpSource(s)
    BY <1>2, <1>7 DEF UpInv, Live, Sv
  <2>2. UpQueue(s)'
    BY <1>2, <1>5, <2>1 DEF UpQueue, Run, NotOlder, Sv
  <2>3. nread[Cl(s)] = UpSent(s) + Len(b2[Cl(s)])
    BY <1>2, <1>4, <2>1 DEF UpSource
  <2>4. /\ ch2'[Cl(s)] = << <<s, nread'[Cl(s)]>> >> \/ ch2'[Cl(s)] = <<Eof>>
        /\ ch2'[Cl(s)] = << <<s, nread'[Cl(s)]>> >> \/ nread'[Cl(s)] = nread[Cl(s)]
        /\ nread'[Cl(s)] \in {nread[Cl(s)], nread[Cl(s)] + 1}
    BY <1>3
  <2>5. UpSource(s)'
    BY <1>2, <1>3, <1>5, <2>1, <2>3, UpTypes DEF UpSource, Cl
  <2> QED BY <2>2, <2>5
<1> QED BY <1>6, <1>7 DEF UpInv

\* Of the upload: the client's pipe takes what was read from TCP.
LEMMA UpSelectTcp ==
    ASSUME TypeOK, NEW s \in Sid, UpInv(s), SelectTcp("client", s)
    PROVE  UpInv(s)'
<1>1. Sv(s) \in End /\ Cl(s) \in End /\ Cl(s) = <<"client", s>> /\ Sv(s) # Cl(s)
  BY UpTypes DEF Cl
<1>2. /\ UNCHANGED <<buf, net, pend, inq, ch1, b1, out, nread>> /\ hnd'[Sv(s)] = hnd[Sv(s)]
      /\ hnd[Cl(s)] = "pipe" /\ b2[Cl(s)] = <<>> /\ ch2[Cl(s)] # <<>>
      /\ ch2'[Cl(s)] = Tail(ch2[Cl(s)])
  BY <1>1, Domains DEF SelectTcp, AtSelect, Drop
<1>3. Len(ch2[Cl(s)]) = 1 /\ Head(ch2[Cl(s)]) = ch2[Cl(s)][1] /\ ch2'[Cl(s)] = <<>> /\ Len(ch2'[Cl(s)]) = 0
  BY <1>2, UpTypes, FullSlot
<1>4. \/ Head(ch2[Cl(s)]) = Eof /\ hnd'[Cl(s)] = "done" /\ b2' = b2
      \/ Head(ch2[Cl(s)]) # Eof /\ hnd' = hnd /\ b2'[Cl(s)] = Append(b2[Cl(s)], Head(ch2[Cl(s)]))
  BY <1>1, Domains DEF SelectTcp, Put
<1>5. UpCount(s)' = UpCount(s) /\ UpSent(s)' = UpSent(s)
  BY <1>2 DEF UpCount, UpSent, Sv
<1>6. ASSUME b2'[Cl(s)] = Append(b2[Cl(s)], Head(ch2[Cl(s)]))
      PROVE  /\ Len(b2[Cl(s)]) = 0 /\ Len(b2'[Cl(s)]) = 1
             /\ \A i \in 1..Len(b2'[Cl(s)]) : b2'[Cl(s)][i] = ch2[Cl(s)][1]
  BY <1>2, <1>3, <1>6, NewSlot
<1>7. OwnChunks(s)' /\ SharedOnly(s)' /\ OutNotOlder(s)'
  <2>1. SharedOnly(s)' /\ OutNotOlder(s)'
    BY <1>2 DEF UpInv, SharedOnly, OutNotOlder, NotOlder, Sv
  <2>2. ch2[Cl(s)][1] = Eof \/ ch2[Cl(s)][1][1] = s
    BY <1>3 DEF UpInv, OwnChunks
  <2>3. OwnChunks(s)'
    BY <1>2, <1>3, <1>4, <1>6, <2>2 DEF UpInv, OwnChunks, Sv, Cl
  <2> QED BY <2>1, <2>3
<1>8. ASSUME Live(s)' PROVE UpQueue(s)' /\ UpSource(s)'
  <2>1. UpQueue(s) /\ UpSource(s)
    BY <1>2, <1>8 DEF UpInv, Live, Sv
  <2>2. UpQueue(s)'
    BY <1>2, <1>5, <2>1 DEF UpQueue, Run, NotOlder, Sv
  <2>3. CASE hnd'[Cl(s)] = "done"
    <3>1. UpSource(s)'
      BY <2>3 DEF UpSource, Cl
    <3> QED BY <2>2, <3>1
  <2>4. CASE Head(ch2[Cl(s)]) # Eof /\ hnd' = hnd /\ b2'[Cl(s)] = Append(b2[Cl(s)], Head(ch2[Cl(s)]))
    <3>1. ch2[Cl(s)] = << <<s, nread[Cl(s)]>> >> /\ nread[Cl(s)] = UpSent(s) + Len(b2[Cl(s)]) + 1
      BY <1>2, <1>3, <2>1, <2>4 DEF UpSource
    <3>2. \A i \in 1..Len(b2'[Cl(s)]) : b2'[Cl(s)][i] = <<s, nread[Cl(s)]>>
      BY <1>6, <2>4, <3>1
    <3>3. nread[Cl(s)] = UpSent(s) + 1 /\ UpSent(s) \in Nat
      BY <1>6, <2>4, <3>1, UpTypes
    <3>4. nread'[Cl(s)] = UpSent(s)' + Len(b2'[Cl(s)]) /\ ch2'[Cl(s)] = <<>>
      BY <1>2, <1>3, <1>5, <1>6, <2>4, <3>3
    <3>5. \A i \in 1..Len(b2'[Cl(s)]) : b2'[Cl(s)][i] = <<s, UpSent(s)' + 1>>
      BY <1>5, <3>2, <3>3
    <3>6. hnd'[Cl(s)] = "pipe"
      BY <1>2, <2>4
    <3>7. UpSource(s)'
      BY <3>4, <3>5, <3>6 DEF UpSource, Cl
    <3> QED BY <2>2, <3>7
  <2> QED BY <1>4, <2>2, <2>3, <2>4
<1> QED BY <1>7, <1>8 DEF UpInv

\* Of the upload: the client's pipe sends it on the stream.
LEMMA UpWriteSctp ==
    ASSUME TypeOK, NEW s \in Sid, UpInv(s), WriteSctp("client", s)
    PROVE  UpInv(s)'
<1>1. Sv(s) \in End /\ Cl(s) \in End /\ Cl(s) = <<"client", s>> /\ Sv(s) # Cl(s)
      /\ Sv(s) = <<Peer("client"), s>>
  BY UpTypes DEF Cl, Sv, Peer
<1>2. /\ UNCHANGED <<buf, pend, inq, ch1, b1, out, ch2, nread>> /\ hnd'[Sv(s)] = hnd[Sv(s)]
      /\ hnd[Cl(s)] = "pipe" /\ b2[Cl(s)] # <<>> /\ b2'[Cl(s)] = Tail(b2[Cl(s)])
  BY <1>1, Domains DEF WriteSctp, Drop
<1>3. Len(b2[Cl(s)]) = 1 /\ Head(b2[Cl(s)]) = b2[Cl(s)][1] /\ Len(b2'[Cl(s)]) = 0
  BY <1>2, UpTypes, FullSlot
<1>4. \/ net'[Sv(s)] = Append(net[Sv(s)], Head(b2[Cl(s)])) /\ hnd' = hnd
      \/ net' = net /\ hnd'[Cl(s)] = "done"
  BY <1>1, Domains DEF WriteSctp, Put
<1>5. ASSUME net'[Sv(s)] = Append(net[Sv(s)], Head(b2[Cl(s)]))
      PROVE  /\ Len(net'[Sv(s)]) = Len(net[Sv(s)]) + 1
             /\ \A i \in 1..Len(net'[Sv(s)]) :
                   IF i = Len(net[Sv(s)]) + 1 THEN net'[Sv(s)][i] = b2[Cl(s)][1]
                   ELSE i \in 1..Len(net[Sv(s)]) /\ net'[Sv(s)][i] = net[Sv(s)][i]
  BY <1>3, <1>5, UpTypes, Ends
<1>6. UpCount(s)' = UpCount(s)
  BY <1>2 DEF UpCount, Sv
<1>7. OwnChunks(s)' /\ SharedOnly(s)' /\ OutNotOlder(s)'
  <2>1. SharedOnly(s)' /\ OutNotOlder(s)'
    BY <1>2 DEF UpInv, SharedOnly, OutNotOlder, NotOlder, Sv
  <2>2. b2[Cl(s)][1][1] = s
    BY <1>3 DEF UpInv, OwnChunks
  <2>3. \A i \in 1..Len(net'[Sv(s)]) : net'[Sv(s)][i][1] = s
    BY <1>4, <1>5, <2>2 DEF UpInv, OwnChunks
  <2>4. \A i \in 1..Len(b2'[Cl(s)]) : b2'[Cl(s)][i][1] = s
    BY <1>3
  <2>5. \A i \in 1..Len(ch2'[Cl(s)]) : ch2'[Cl(s)][i] = Eof \/ ch2'[Cl(s)][i][1] = s
    BY <1>2 DEF UpInv, OwnChunks
  <2>6. OwnChunks(s)'
    BY <2>3, <2>4, <2>5 DEF OwnChunks, Sv, Cl
  <2> QED BY <2>1, <2>6
<1>8. ASSUME Live(s)' PROVE UpQueue(s)' /\ UpSource(s)'
  <2>1. UpQueue(s) /\ UpSource(s)
    BY <1>2, <1>8 DEF UpInv, Live, Sv
  <2>2. UpCount(s) \in Nat /\ Len(net[Sv(s)]) \in Nat
    BY UpTypes
  <2>3. CASE net' = net /\ hnd'[Cl(s)] = "done"
    <3>1. UpQueue(s)'
      BY <1>2, <1>6, <2>1, <2>3 DEF UpQueue, Run, NotOlder, Sv
    <3> QED BY <2>3, <3>1 DEF UpSource, Cl
  <2>4. CASE net'[Sv(s)] = Append(net[Sv(s)], Head(b2[Cl(s)])) /\ hnd' = hnd
    <3>1. b2[Cl(s)][1] = <<s, UpSent(s) + 1>>
      BY <1>2, <1>3, <2>1 DEF UpSource
    <3>2. UpSent(s) + 1 = UpCount(s) + (Len(net[Sv(s)]) + 1)
      BY <2>2 DEF UpSent
    <3>3. \A i \in 1..Len(net'[Sv(s)]) : net'[Sv(s)][i] = <<s, UpCount(s) + i>>
      BY <1>5, <2>1, <2>4, <3>1, <3>2 DEF UpQueue, Run
    <3>4. UpQueue(s)'
      BY <1>2, <1>6, <2>1, <3>3 DEF UpQueue, Run, NotOlder, Sv
    <3>5. UpSent(s)' = UpSent(s) + 1
      BY <1>5, <1>6, <2>2, <2>4 DEF UpSent, Sv
    <3>6. UpSent(s)' + Len(b2'[Cl(s)]) = UpSent(s) + Len(b2[Cl(s)])
      <4>1. \A n \in Nat : (n + 1) + 0 = n + 1
        OBVIOUS
      <4>2. UpSent(s) \in Nat
        BY UpTypes
      <4> QED BY <1>3, <3>5, <4>1, <4>2
    <3>7. /\ \A i \in 1..Len(b2'[Cl(s)]) : b2'[Cl(s)][i] = <<s, UpSent(s)' + 1>>
          /\ hnd'[Cl(s)] = "pipe"
      BY <1>2, <1>3, <2>4
    <3>8. \/ ch2'[Cl(s)] \in {<<>>, <<Eof>>} /\ nread'[Cl(s)] = UpSent(s)' + Len(b2'[Cl(s)])
          \/ /\ ch2'[Cl(s)] = << <<s, nread'[Cl(s)]>> >>
             /\ nread'[Cl(s)] = UpSent(s)' + Len(b2'[Cl(s)]) + 1
      BY <1>2, <2>1, <3>6 DEF UpSource
    <3>9. UpSource(s)'
      BY <3>7, <3>8 DEF UpSource, Cl
    <3> QED BY <3>4, <3>9
  <2> QED BY <1>4, <2>3, <2>4
<1> QED BY <1>7, <1>8 DEF UpInv

\* Of the upload: a stream is accepted or its messages discarded.
LEMMA UpAccept ==
    ASSUME TypeOK, NEW s \in Sid, UpInv(s), Accept(s) \/ Discard(s)
    PROVE  UpInv(s)'
<1>1. Sv(s) \in End /\ Cl(s) \in End /\ Cl(s) = <<"client", s>> /\ Sv(s) # Cl(s) /\ Sv(s) = <<"server", s>>
  BY UpTypes DEF Cl, Sv
<1>2. CASE Accept(s)
  <2>1. /\ UNCHANGED <<buf, net, pend, inq, ch1, b1, out, ch2, b2, nread>> /\ hnd'[Sv(s)] = hnd[Sv(s)]
        /\ hnd[Cl(s)] = "none" /\ hnd'[Cl(s)] = "pipe"
    BY <1>1, <1>2, Domains DEF Accept, Known
  <2>2. OwnChunks(s)' /\ SharedOnly(s)' /\ OutNotOlder(s)'
    BY <2>1 DEF UpInv, OwnChunks, SharedOnly, OutNotOlder, NotOlder, Sv, Cl
  <2>3. UpCount(s)' = UpCount(s) /\ UpSent(s)' = UpSent(s)
    BY <2>1 DEF UpCount, UpSent, Sv
  <2>4. ASSUME Live(s)' PROVE UpQueue(s)' /\ UpSource(s)'
    <3>1. UpQueue(s) /\ UpSource(s)
      BY <2>1, <2>4 DEF UpInv, Live, Sv
    <3>2. UpQueue(s)'
      BY <2>1, <2>3, <3>1 DEF UpQueue, Run, NotOlder, Sv
    <3>3. UpSent(s) = 0 /\ b2[Cl(s)] = <<>> /\ ch2[Cl(s)] = <<>> /\ nread[Cl(s)] = 0 /\ Len(b2[Cl(s)]) = 0
      BY <2>1, <3>1 DEF UpSource
    <3>4. UpSource(s)'
      BY <2>1, <2>3, <3>3 DEF UpSource, Cl
    <3> QED BY <3>2, <3>4
  <2> QED BY <2>2, <2>4 DEF UpInv
<1>3. CASE Discard(s)
  <2>1. /\ UNCHANGED <<buf, net, pend, ch1, b1, out, ch2, b2, nread, hnd>> /\ hnd[Sv(s)] = "discard"
        /\ inq[Sv(s)] # <<>> /\ inq'[Sv(s)] = Tail(inq[Sv(s)])
    BY <1>1, <1>3, Domains DEF Discard, Drop
  <2>2. \A i \in 1..Len(inq'[Sv(s)]) : inq'[Sv(s)][i] = Shared
    <3>1. \A i \in 1..Len(inq'[Sv(s)]) : i + 1 \in 1..Len(inq[Sv(s)]) /\ inq'[Sv(s)][i] = inq[Sv(s)][i + 1]
      BY <2>1, UpTypes, Heads
    <3> QED BY <3>1 DEF UpInv, SharedOnly
  <2>3. OwnChunks(s)' /\ SharedOnly(s)' /\ OutNotOlder(s)' /\ ~Live(s)'
    BY <2>1, <2>2 DEF UpInv, OwnChunks, SharedOnly, OutNotOlder, NotOlder, Live, Sv, Cl
  <2> QED BY <2>3 DEF UpInv
<1> QED BY <1>2, <1>3

-----------------------------------------------------------------------------
(* The steps that leave it alone. *)

\* Another connection's: the array is then of another stream.
LEMMA UpOthers ==
    ASSUME TypeOK, NEW d \in Side, NEW s \in Sid, NEW t \in Sid, s # t, OwnChunks(s),
           EndStep(d, s) \/ TcpRead(d, s)
    PROVE  UpStill(t)
<1> DEFINE e == <<d, s>>  g == <<Peer(d), s>>
<1>1. e \in End /\ g \in End /\ e # Cl(t) /\ e # Sv(t) /\ g # Cl(t) /\ g # Sv(t)
  BY DEF End, Side, Peer, Cl, Sv
<1>2. Cl(t) \in End /\ Sv(t) \in End
  BY EndsDiffer
<1> USE Domains, <1>1, <1>2 DEF Put, Drop
<1>3. CASE Recv(d, s)
  <2>1. buf' = buf \/ buf'[1] # t
    <3>1. CASE d = "server"
      <4>1. net[Sv(s)] # <<>> /\ buf' = Head(net[Sv(s)])
        BY <1>3, <3>1 DEF Recv, Sv
      <4>2. 1 \in 1..Len(net[Sv(s)]) /\ Head(net[Sv(s)]) = net[Sv(s)][1]
        BY <4>1, UpTypes, Heads
      <4>3. net[Sv(s)][1][1] = s
        BY <4>2 DEF OwnChunks
      <4> QED BY <4>1, <4>2, <4>3
    <3>2. CASE d # "server"
      BY <1>3, <3>2 DEF Recv
    <3> QED BY <3>1, <3>2
  <2> QED BY <1>3, <2>1 DEF Recv, UpStill
<1>4. CASE Enqueue(d, s)
  BY <1>4 DEF Enqueue, UpStill
<1>5. CASE StreamRead(d, s)
  BY <1>5 DEF StreamRead, UpStill
<1>6. CASE SelectStream(d, s)
  BY <1>6 DEF SelectStream, UpStill
<1>7. CASE SelectTcp(d, s)
  BY <1>7 DEF SelectTcp, UpStill
<1>8. CASE WriteTcp(d, s)
  BY <1>8 DEF WriteTcp, UpStill
<1>9. CASE WriteSctp(d, s)
  BY <1>9 DEF WriteSctp, UpStill
<1>10. CASE TcpRead(d, s)
  BY <1>10 DEF TcpRead, UpStill
<1> QED BY <1>3, <1>4, <1>5, <1>6, <1>7, <1>8, <1>9, <1>10 DEF EndStep

\* The connection's own download.
LEMMA UpDownload ==
    ASSUME TypeOK, NEW s \in Sid,
           \/ Recv("client", s) \/ Enqueue("client", s) \/ StreamRead("client", s)
           \/ SelectStream("client", s) \/ WriteTcp("client", s)
           \/ SelectTcp("server", s) \/ WriteSctp("server", s) \/ TcpRead("server", s)
    PROVE  UpStill(s)
<1>1. /\ Cl(s) \in End /\ Sv(s) \in End /\ Cl(s) # Sv(s)
      /\ Cl(s) = <<"client", s>> /\ Sv(s) = <<"server", s>> /\ Peer("server") = "client"
  BY EndsDiffer DEF Cl, Sv, Peer
<1> USE Domains, <1>1 DEF Put, Drop
<1>2. CASE Recv("client", s)
  BY <1>2 DEF Recv, UpStill
<1>3. CASE Enqueue("client", s)
  BY <1>3 DEF Enqueue, UpStill
<1>4. CASE StreamRead("client", s)
  BY <1>4 DEF StreamRead, UpStill
<1>5. CASE SelectStream("client", s)
  BY <1>5 DEF SelectStream, UpStill
<1>6. CASE WriteTcp("client", s)
  BY <1>6 DEF WriteTcp, UpStill
<1>7. CASE SelectTcp("server", s)
  <2>1. hnd[Sv(s)] = "pipe"
    BY <1>7 DEF SelectTcp, AtSelect
  <2> QED BY <1>7, <2>1 DEF SelectTcp, UpStill
<1>8. CASE WriteSctp("server", s)
  BY <1>8 DEF WriteSctp, UpStill
<1>9. CASE TcpRead("server", s)
  BY <1>9 DEF TcpRead, UpStill
<1> QED BY <1>2, <1>3, <1>4, <1>5, <1>6, <1>7, <1>8, <1>9

\* Of the upload: steps that leave it alone.
LEMMA UpRest ==
    ASSUME TypeOK, NEW s \in Sid, NEW t \in Sid,
           \/ \E d \in Side : RecvErr(d)
           \/ Dial(s) \/ AssocDown \/ UNCHANGED vars
           \/ s # t /\ (Discard(s) \/ CopySlice(s) \/ Accept(s))
    PROVE  UpStill(t)
<1>1. /\ Cl(s) \in End /\ Sv(s) \in End /\ Cl(t) \in End /\ Sv(t) \in End /\ Cl(t) # Sv(s)
      /\ Cl(s) = <<"client", s>> /\ Sv(s) = <<"server", s>>
      /\ (s # t => Cl(s) # Cl(t) /\ Sv(s) # Sv(t)) /\ Cl(s) # Sv(t)
  BY EndsDiffer DEF Cl, Sv
<1> USE Domains, <1>1 DEF Put, Drop
<1>2. CASE \E d \in Side : RecvErr(d)
  BY <1>2 DEF RecvErr, UpStill
<1>3. CASE Dial(s)
  <2>1. hnd[Sv(s)] = "dial"
    BY <1>3 DEF Dial
  <2> QED BY <1>3, <2>1 DEF Dial, UpStill
<1>4. CASE s # t /\ Discard(s)
  BY <1>4 DEF Discard, UpStill
<1>5. CASE s # t /\ CopySlice(s)
  BY <1>5 DEF CopySlice, UpStill
<1>6. CASE AssocDown
  BY <1>6 DEF AssocDown, UpStill
<1>7. CASE s # t /\ Accept(s)
  BY <1>7 DEF Accept, UpStill
<1>8. CASE UNCHANGED vars
  BY <1>8 DEF vars, UpStill
<1> QED BY <1>2, <1>3, <1>4, <1>5, <1>6, <1>7, <1>8

\* Of the upload: every step.
LEMMA UpNext ==
    ASSUME TypeOK, UpInFlight, NEW t \in Sid, [Next]_vars
    PROVE  UpInv(t)'
<1>0. UpInv(t) /\ \A s \in Sid : OwnChunks(s)
  BY DEF UpInFlight, UpInv
<1>1. ASSUME NEW d \in Side, NEW s \in Sid, EndStep(d, s) \/ TcpRead(d, s) PROVE UpInv(t)'
  <2>1. CASE s # t
    BY <1>0, <1>1, <2>1, UpOthers, UpFrame
  <2>2. CASE s = t /\ d = "client"
    BY <1>0, <1>1, <2>2, UpTcpRead, UpSelectTcp, UpWriteSctp, UpDownload, UpFrame DEF EndStep
  <2>3. CASE s = t /\ d = "server"
    BY <1>0, <1>1, <2>3, UpRecv, UpEnqueue, UpSelect, UpWrite, UpDownload, UpFrame DEF EndStep
  <2> QED BY <2>1, <2>2, <2>3 DEF Side
<1>2. ASSUME NEW d \in Side, RecvErr(d) PROVE UpInv(t)'
  BY <1>0, <1>2, UpRest, UpFrame
<1>3. ASSUME NEW s \in Sid, Dial(s) \/ Discard(s) \/ CopySlice(s) \/ Accept(s) PROVE UpInv(t)'
  BY <1>0, <1>3, UpRest, UpFrame, UpAccept, UpCopy
<1>4. CASE AssocDown \/ UNCHANGED vars
  BY <1>0, <1>4, UpRest, UpFrame
<1> QED BY <1>1, <1>2, <1>3, <1>4 DEF Next, Progress, Environment

\* Of the upload: nothing has moved at the start.
LEMMA UpInit == Init => UpInFlight
<1> SUFFICES ASSUME Init, NEW s \in Sid PROVE UpInv(s)
  BY DEF UpInFlight
<1>1. Cl(s) \in End /\ Sv(s) \in End
  BY EndsDiffer
<1>2. /\ out[Sv(s)] = <<>> /\ b1[Sv(s)] = <<>> /\ ch1[Sv(s)] = <<>> /\ inq[Sv(s)] = <<>>
      /\ pend[Sv(s)] = <<>> /\ net[Sv(s)] = <<>> /\ b2[Cl(s)] = <<>> /\ ch2[Cl(s)] = <<>>
      /\ nread[Cl(s)] = 0 /\ hnd[Cl(s)] = "none" /\ buf = Torn
  BY <1>1 DEF Init, Empty
<1>3. UpCount(s) = 0 /\ UpSent(s) = 0
  BY <1>2 DEF UpCount, UpSent
<1>4. Torn[1] # s
  BY TunnelAssumption DEF Torn
<1>5. OwnChunks(s) /\ SharedOnly(s) /\ OutNotOlder(s)
  BY <1>2 DEF OwnChunks, SharedOnly, OutNotOlder
<1>6. UpQueue(s) /\ UpSource(s)
  BY <1>2, <1>3, <1>4 DEF UpQueue, UpSource, Run
<1> QED BY <1>5, <1>6 DEF UpInv

\* For any traffic, capacities, closings and failures: the messages of s that
\* the server has taken are in its five places, one for one, and its array
\* holds none but the last of them.
THEOREM UploadInFlight == Spec => []UpInFlight
<1>1. UpInFlight /\ TypeOK /\ [Next]_vars => UpInFlight'
  <2> SUFFICES ASSUME UpInFlight, TypeOK, [Next]_vars, NEW s \in Sid PROVE UpInv(s)'
    BY DEF UpInFlight
  <2> QED BY UpNext
<1> QED BY <1>1, UpInit, TypesHold, PTL DEF Spec

\* So a chunk of s that the upstream of s gets in place i is never an older one
\* than chunk i, though its array is used again (server.go:49, 71).
THEOREM UploadNeverOlder == Spec => []NeverOlder
<1>1. UpInFlight => NeverOlder
  <2> SUFFICES ASSUME UpInFlight, NEW s \in Sid, NEW i \in 1..Len(out["server", s]),
                      out["server", s][i][1] = s
               PROVE  out["server", s][i][2] >= i
    BY DEF NeverOlder
  <2>1. OutNotOlder(s) /\ Sv(s) = <<"server", s>>
    BY DEF UpInFlight, UpInv, Sv
  <2> QED BY <2>1 DEF OutNotOlder, NotOlder
<1> QED BY <1>1, UploadInFlight, PTL
=============================================================================
