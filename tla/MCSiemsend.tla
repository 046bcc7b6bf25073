---------------------------- MODULE MCSiemsend ----------------------------
(* Instances of Siemsend for TLC. *)
EXTENDS Siemsend

TwoFiles == << <<1, 2, 3>>, <<4>> >>
=============================================================================
