--------------------------- MODULE MCValidatedRevert ---------------------------
(* Instances of ValidatedRevert for TLC. *)
EXTENDS ValidatedRevert

CONSTANTS s0, t0, s1

Web == <<"web">>
Prefix == <<"test">>
Zero == <<"data", "web", "0">>
One == <<"data", "web", "1">>
Both == <<Zero, One>>
Services == <<[group |-> "", version |-> "v1", kind |-> "Service", name |-> Web]>>

Volumes == [n \in {Zero, One} |->
    IF n = Zero THEN [kind |-> "cinder", id |-> <<"a", "-", "b">>]
    ELSE [kind |-> "AWSElasticBlockStore", id |-> <<"a", "/", "/", "b">>]]

\* Two snapshots of one claim, the second perhaps of a namesake of it.
Owners == [s \in {s0, t0, s1} |-> IF s = s1 THEN One ELSE Zero]

\* Everything up to the second of three seconds, and from then on.
BeforeAndAfter == {[from |-> None, to |-> 2], [from |-> 2, to |-> None]}

=============================================================================
