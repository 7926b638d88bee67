------------------------------- MODULE KeyedWork -------------------------------
(***************************************************************************)
(* What a queue and its workers promise to the code that processes keys:   *)
(* a key that is marked is given to a worker some time, never to two at    *)
(* once, and a mark made while it is processed is kept for afterwards.     *)
(* SnapshotReverts and ValidationRuns are written on this promise: their   *)
(* "dirty" is membership in marked, their worker is not idle while busy    *)
(* has the key.                                                            *)
(***************************************************************************)
EXTENDS FiniteSets

CONSTANTS Keys, Workers

VARIABLES
    marked,  \* keys to be processed
    busy     \* the worker that processes each key that is being processed

vars == <<marked, busy>>

Held(k) == \E w \in Workers : <<w, k>> \in busy

\* An event, or an error of the attempt.
Mark(k) == marked' = marked \cup {k} /\ UNCHANGED busy

\* The mark is taken, or one made by an error before is left for another attempt.
Begin(w, k) ==
    /\ k \in marked /\ ~Held(k) /\ \A l \in Keys : <<w, l>> \notin busy
    /\ busy' = busy \cup {<<w, k>>}
    /\ marked' \in {marked, marked \ {k}}

End(w, k) ==
    /\ <<w, k>> \in busy
    /\ busy' = busy \ {<<w, k>>}
    /\ UNCHANGED marked

\* The process ends and with it all that is in memory.
Lose == marked' = {} /\ busy' = {}

Init == marked = {} /\ busy = {}

Next == \/ Lose
        \/ \E k \in Keys : \/ Mark(k)
                          \/ \E w \in Workers : Begin(w, k) \/ End(w, k)

Spec == Init /\ [][Next]_vars
=============================================================================
