----------------------------- MODULE MCSshProxy -----------------------------
(* Instances of SshProxy for TLC. *)
EXTENDS SshProxy
=============================================================================
