--------------------------- MODULE MCWriteStream ----------------------------
(* Instances of WriteStream for TLC. *)
EXTENDS WriteStream
=============================================================================
