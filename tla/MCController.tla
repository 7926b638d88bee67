------------------------------ MODULE MCController ------------------------------
(* Instances of Controller for TLC. *)
EXTENDS Controller

CONSTANTS r1, n1, t1, t2

Lists == {{"snapshot", "service", "pod", "job", "vs"}, {"pvc"}, {"sts", "pv"}, {"vr"}, {"sr"}}
===========================================================================
