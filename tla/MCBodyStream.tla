---------------------------- MODULE MCBodyStream ----------------------------
(* BodyStream for TLC: a body of N chunks, batches of up to MaxBatch. *)
EXTENDS BodyStream
=============================================================================
