----------------------------- MODULE MCFakeDns -----------------------------
(* Instances of FakeDns for TLC. *)
EXTENDS FakeDns

Letters == {"a", "b"}
AskedNames == {<<"a", "b">>, <<"b">>}
=============================================================================
