---------------------------- MODULE MCValidationRuns ----------------------------
(* Instances of ValidationRuns for TLC. *)
EXTENDS ValidationRuns

CONSTANTS c1, c2, r1, r2

\* Bound: a second request or a fault, not both.
OneMore == requests + faults <= 2

=============================================================================
