----------------------------- MODULE MC_MlsGroup -----------------------------
(* Instances of MlsGroup.  Account alice has two devices, bob has one.      *)
EXTENDS MlsGroup

CONSTANTS alice, bob

OwnerOf == [d \in Devices |-> IF d <= 2 THEN alice ELSE bob]

=============================================================================
