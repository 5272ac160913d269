---------------------------- MODULE MCUnitOfWork ------------------------------
(* Small instances of UnitOfWork. *)
EXTENDS UnitOfWork, TLC
=============================================================================
