---------------------------- MODULE MCAutoValidation ----------------------------
(* Instances of AutoValidation for TLC. *)
EXTENDS AutoValidation, TLC

CONSTANTS c1, c2, s1, s2, s3, st, r1, r2

\* Two snapshots of one claim, one of the other.
Volumes == [s \in {s1, s2, s3} |-> IF s = s3 THEN c2 ELSE c1]
Alike == Permutations({s1, s2}) \cup Permutations({r1, r2})
Both == [t \in {st} |-> {c1, c2}]
=============================================================================
