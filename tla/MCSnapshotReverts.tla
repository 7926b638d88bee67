--------------------------- MODULE MCSnapshotReverts ---------------------------
(* Instances of SnapshotReverts for TLC. *)
EXTENDS SnapshotReverts

CONSTANTS c1, c2, v1, v2, v3, v4, v5, v6

OneClaim == [c \in {c1} |-> v1]
TwoClaims == (c1 :> v1) @@ (c2 :> v2)

=============================================================================
