----------------------------- MODULE MC_PushWake -----------------------------
(* Instances of PushWake.  Events, devices, rows and registrations are alike. *)
EXTENDS PushWake, TLC

CONSTANTS e1, e2, d1, d2, s1, s2, old, new

Alike ==
    Permutations(Events) \cup Permutations(Devices) \cup Permutations(SubIds) \cup Permutations(Creds)

=============================================================================
