------------------------------ MODULE MlsOrder ------------------------------
(***************************************************************************)
(* What the server promises the devices of an MLS group: one sequence of   *)
(* commits, each built on all the ones before it, sent by a device that    *)
(* was in the group at the time, and a roster that is exactly what the     *)
(* commits make of it.                                                     *)
(***************************************************************************)
EXTENDS Naturals, FiniteSets

CONSTANT Devices
VARIABLES
    history,  \* the commits by their position in the group's log
    group     \* the devices in the group

Commits == [sender : Devices, base : Nat, added : SUBSET Devices, removed : SUBSET Devices]

\* c is stored at position k, after all the commits so far.
Store(k, c) ==
    /\ \A j \in DOMAIN history : j < k
    /\ history' = [j \in DOMAIN history \cup {k} |-> IF j = k THEN c ELSE history[j]]

Commit(k, c) ==
    /\ c.base = Cardinality(DOMAIN history)
    /\ c.sender \in group
    /\ c.removed \subseteq group \ {c.sender}
    /\ c.added \cap group = {}
    /\ Store(k, c)
    /\ group' = (group \ c.removed) \cup c.added

\* The first device records the group, with or without a first commit.
Found(s) == group = {} /\ group' = {s} /\ UNCHANGED history

FoundWith(k, c) ==
    /\ group = {} /\ DOMAIN history = {}
    /\ c.base = 0 /\ c.removed = {} /\ c.sender \notin c.added
    /\ Store(k, c)
    /\ group' = {c.sender} \cup c.added

Init == DOMAIN history = {} /\ group = {}

Next ==
    \/ \E s \in Devices : Found(s)
    \/ \E k \in DOMAIN history' \ DOMAIN history :
          /\ history'[k] \in Commits
          /\ Commit(k, history'[k]) \/ FoundWith(k, history'[k])

Spec == Init /\ [][Next]_<<history, group>>

=============================================================================
