-------------------------- MODULE MCRequestPipeline ---------------------------
(* Small instances of RequestPipeline. *)
EXTENDS RequestPipeline, TLC
=============================================================================
