--------------------------- MODULE MCFeatureFlags -----------------------------
(* Small instances of FeatureFlags. *)
EXTENDS FeatureFlags, TLC
===============================================================================
