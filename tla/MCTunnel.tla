------------------------------ MODULE MCTunnel ------------------------------
(* Instances of Tunnel for TLC: how many chunks the TCP peers write.       *)
EXTENDS Tunnel

W(c, s) == [e \in End |-> IF e[1] = "client" THEN c ELSE s]

Up2Down0 == W(2, 0)
Up3Down3 == W(3, 3)
Up5Down5 == W(5, 5)

\* One connection with three chunks up and two down, the others with one up.
Busy == CHOOSE s \in Sid : TRUE
BusyAndOthers == [e \in End |-> IF e[2] = Busy THEN W(3, 2)[e] ELSE W(1, 0)[e]]
=============================================================================
