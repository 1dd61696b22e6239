----------------------------- MODULE MC_Account -----------------------------
(* Instances of Account.  Devices and slots are alike. *)
EXTENDS Account, TLC

CONSTANTS d1, r1, q1, q2

Alike == Permutations(Enrolled) \cup Permutations(Reserved) \cup Permutations(Slots)

=============================================================================
