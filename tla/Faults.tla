------------------------------- MODULE Faults -------------------------------
(* What goes wrong, counted over the whole system so that a run can allow   *)
(* any few mishaps in any combination.                                      *)
EXTENDS Naturals

CONSTANT MaxFaults  \* bound on mishaps

ASSUME FaultsAssumption == MaxFaults \in Nat

VARIABLE faults

Fault == faults < MaxFaults /\ faults' = faults + 1
=============================================================================
