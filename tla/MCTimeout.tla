----------------------------- MODULE MCTimeout ------------------------------
(* Timeout with two objects and two retries. *)
EXTENDS Timeout

MCObjects == {"a", "b"}
=============================================================================
