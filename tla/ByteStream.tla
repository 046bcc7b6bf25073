----------------------------- MODULE ByteStream -----------------------------
(***************************************************************************)
(* What one direction of a tunnelled TCP connection promises: the bytes    *)
(* that went in come out, in order, each once.  Chunk k of connection s is *)
(* the pair <<s, k>>.                                                      *)
(***************************************************************************)
EXTENDS Naturals, Sequences

CONSTANT Sid            \* the connections

VARIABLES sent,         \* sent[s]: how many chunks went in
          rcvd          \* rcvd[s]: the chunks that came out

vars == <<sent, rcvd>>

Init == /\ sent = [s \in Sid |-> 0]
        /\ rcvd = [s \in Sid |-> <<>>]

Send(s) == /\ sent' = [sent EXCEPT ![s] = @ + 1]
           /\ UNCHANGED rcvd

Deliver(s) == /\ Len(rcvd[s]) < sent[s]
              /\ rcvd' = [rcvd EXCEPT ![s] = Append(@, <<s, Len(@) + 1>>)]
              /\ UNCHANGED sent

Next == \E s \in Sid : Send(s) \/ Deliver(s)

\* Nothing is invented, reordered or repeated.
Safety == Init /\ [][Next]_vars
=============================================================================
