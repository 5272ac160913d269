---------------------------- MODULE MCRepository ------------------------------
(* Small instances of Repository, and of the pages it returns. *)
EXTENDS Repository, TLC
===============================================================================
