--------------------------- MODULE MCGopherchain ---------------------------
(* Instances of Gopherchain for TLC. *)
EXTENDS Gopherchain

AnyStep == Step \cup {"set", "start"}
=============================================================================
