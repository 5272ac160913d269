---------------------------- MODULE MCIdempotency ----------------------------
(* Instances of Idempotency for TLC.  Workers are interchangeable, so the runs *)
(* that check safety only may use Symmetry.                                    *)
EXTENDS Idempotency, TLC

Symmetry == Permutations(Workers)

AllFaults == FaultKinds

\* Nothing fails and nobody interferes; processing may outlive the marker's TTL.
SlowProcessing == {"slow"}
=============================================================================
