------------------------------ MODULE MC_Blobs ------------------------------
(* Instances of Blobs: the keys of each kind of upload. *)
EXTENDS Blobs

CONSTANTS u1, h1

=============================================================================
