----------------------------- MODULE DumpStream -----------------------------
(***************************************************************************)
(* What the dump of an index promises whatever fails: the server hands out *)
(* the pages of each source in order, and a file keeps a page only while   *)
(* it is the last one handed out, and once.  Pages may be missing; none is *)
(* out of place, repeated or another source's.                             *)
(***************************************************************************)
EXTENDS Naturals, Sequences

CONSTANT Source

VARIABLES served,       \* served[i]: pages handed out
          kept          \* kept[i]: the file, a sequence of pages <<i, number>>

streamVars == <<served, kept>>

StreamInit == /\ served = [i \in Source |-> 0]
              /\ kept = [i \in Source |-> <<>>]

Serve(i) == /\ served' = [served EXCEPT ![i] = @ + 1]
            /\ UNCHANGED kept

Keep(i) == /\ served[i] > 0
           /\ \A n \in 1..Len(kept[i]) : kept[i][n][2] < served[i]
           /\ kept' = [kept EXCEPT ![i] = Append(@, <<i, served[i]>>)]
           /\ UNCHANGED served

StreamNext == \E i \in Source : Serve(i) \/ Keep(i)

StreamSpec == StreamInit /\ [][StreamNext]_streamVars
=============================================================================
