---------------------------- MODULE MCReadStream ----------------------------
(* Instances of ReadStream for TLC. *)
EXTENDS ReadStream
=============================================================================
