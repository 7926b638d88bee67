---------------------------- MODULE RevertRequests ----------------------------
(***************************************************************************)
(* What a SnapshotRevert promises to the user who sets spec.action.type:   *)
(* a revert or an undo goes through its phases one at a time and in order, *)
(* on the newest entry of the history and on no other; the action becomes  *)
(* "idle" only at the end of the last phase, and a request made meanwhile  *)
(* is not lost; a claim of the application is taken away only while the    *)
(* application is down.  Retries, lost calls, restarts and caches are not  *)
(* seen here.                                                              *)
(***************************************************************************)
EXTENDS Naturals, SequencesExt

CONSTANT KeepStatus  \* entries kept in the history, 0 for all

VARIABLES
    action,   \* what is asked for: "idle", "latest" or "undo"
    history,  \* entries with the state of their revert, the newest last
    claims,   \* claims that are there and not about to go
    down      \* the application has no replicas and no pods

vars == <<action, history, claims, down>>

State == IF history = <<>> THEN "none" ELSE Last(history).state

Kept(q) == IF KeepStatus # 0 /\ Len(q) > KeepStatus
           THEN SubSeq(q, Len(q) - KeepStatus + 1, Len(q)) ELSE q

\* The newest entry goes on to state s.
Becomes(s) == history' = [history EXCEPT ![Len(history)].state = s]

\* A request, at any time, even in the middle of another action.
Ask(a) == action' = a /\ UNCHANGED history

\* A revert begins with an entry of its own.
Begin ==
    /\ action = "latest" /\ State \in {"none", "finished"}
    /\ \E e \in Range(history') :
         e.state = "init" /\ e.replicas # 0 /\ history' = Kept(Append(history, e))
    /\ UNCHANGED action

\* A revert that has begun, and the undo of one that is over, stop the application.
Stop ==
    /\ \/ action = "latest" /\ State = "init"
       \/ action = "undo" /\ State = "finished"
    /\ down /\ Becomes("paused")
    /\ UNCHANGED action

\* The claims are swapped.
Swap ==
    /\ State = "paused"
    /\ \/ action = "latest" /\ Becomes("reverted")
       \/ action = "undo" /\ Becomes("undone")
    /\ UNCHANGED action

\* The application is up again: the entry of a revert stays, that of an undo goes.
Finish ==
    /\ \/ action = "latest" /\ State = "reverted" /\ Becomes("finished")
       \/ action = "undo" /\ State = "undone" /\ history' = Front(history)
    /\ action' = "idle"

Request == /\ \/ \E a \in {"latest", "undo"} : Ask(a)
              \/ Begin \/ Stop \/ Swap \/ Finish
           /\ UNCHANGED <<claims, down>>

\* Pods come and go, claims are made and deleted.
Application ==
    /\ State = "paused" => down'
    /\ down \/ claims \subseteq claims'
    /\ UNCHANGED <<action, history>>

Init == action = "idle" /\ history = <<>> /\ ~down

Next == Request \/ Application

Spec == Init /\ [][Next]_vars
=============================================================================
