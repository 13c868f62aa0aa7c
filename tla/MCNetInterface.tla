--------------------------- MODULE MCNetInterface ---------------------------
(* NetInterface for TLC: pids are interchangeable in the safety runs. *)
EXTENDS NetInterface, TLC

PidSymmetry == Permutations(Pids)
=============================================================================
