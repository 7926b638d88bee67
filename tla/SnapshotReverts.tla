---------------------------- MODULE SnapshotReverts ----------------------------
(***************************************************************************)
(* One SnapshotRevert resource and the worker that reconciles it           *)
(* (pkg/manager/reverts.go, controller.go, controller_kube_calls.go).      *)
(*                                                                         *)
(* The worker reads informer caches and writes to the API server.  An      *)
(* update is accepted only if the object it was made from is still         *)
(* current; patches, creations and deletions carry no version.  Any call   *)
(* may be lost, and so may its reply; the process may crash between any    *)
(* two steps.  An attempt ends with an error or with the put of the        *)
(* resource in its next state; either way the key comes back.              *)
(***************************************************************************)
EXTENDS Cluster

CONSTANTS
    KeepStatus,   \* spec.keepStatus: entries kept in the history, 0 for all
    FaultyCalls,  \* the calls (worker steps) that may fail
    SwitchMidway, \* the user may change spec.action.type before it is "idle"
    MaxFaults,    \* bound: lost calls, early timeouts and crashes
    MaxRequests   \* bound: user requests

Calls == {"pause", "fix", "delete", "avail", "create",
          "undoDelete", "undoCreate", "unpause", "put"}

Waits == {"pauseWait", "bindWait", "undoWait", "readyWait"}

ASSUME RevertsAssumption ==
    /\ KeepStatus \in Nat
    /\ FaultyCalls \subseteq Calls
    /\ SwitchMidway \in BOOLEAN
    /\ MaxFaults \in Nat /\ MaxRequests \in Nat

VARIABLES
    rev,       \* the SnapshotRevert: spec.action.type and status.reverts
    crev,      \* its copy in the informer cache
    crevNew,   \* the cached copy is the current version
    dirty,     \* the key waits in revertWorkqueue
    wk,        \* the worker: program counter and locals of the attempt
    requests,  \* user requests so far
    faults     \* faults so far

revVars == <<rev, crev, crevNew>>
wkVars  == <<wk, dirty>>
vars    == <<clusterVars, revVars, wkVars, requests, faults>>

----------------------------------------------------------------------------
(* Data *)

\* SnapshotRevertDetails; oldClaims keeps the name and the volume of each claim.
Recorded == [claim : Claims, vol : Vols \cup {NoVol}]
States == {"init", "paused", "reverted", "undone", "finished"}
Details == [state : States, replicas : {0, Replicas}, old : Seq(Recorded)]
Reverts == [action : {"idle", "latest", "undo"}, reverts : Seq(Details)]

\* The last entry is the one in progress, or the latest finished one.
Latest(r) == Last(r.reverts)
StateOf(r) == IF r.reverts = <<>> THEN "none" ELSE Latest(r).state
WithState(r, s) == [r EXCEPT !.reverts[Len(r.reverts)].state = s]

IdleWk == [pc |-> "idle", copy |-> [action |-> "idle", reverts |-> <<>>],
           fresh |-> FALSE, i |-> 1, sel |-> [c \in Claims |-> 0], seen |-> 0]

Workers == [pc : Calls \cup Waits \cup {"idle"}, copy : Reverts, fresh : BOOLEAN,
            i : Nat \ {0}, sel : [Claims -> 0..MaxSnaps], seen : {0, Replicas}]

\* The claims recorded by the entry in progress, and the one the worker is at.
Old == Latest(wk.copy).old
Cur == Old[wk.i]
Loops == {"fix", "delete", "avail", "create", "undoDelete", "undoCreate"}

\* No step of the worker reads an entry or a recorded claim that is not there.
WorkerOK ==
    /\ wk \in Workers
    /\ wk.pc \notin {"idle", "put"} => wk.copy.reverts # <<>>
    /\ wk.pc \in Loops => wk.i <= Len(Old)

TypeOK ==
    /\ ClusterTypeOK
    /\ rev \in Reverts /\ crev \in Reverts
    /\ crevNew \in BOOLEAN /\ dirty \in BOOLEAN
    /\ WorkerOK
    /\ requests \in 0..MaxRequests /\ faults \in 0..MaxFaults

----------------------------------------------------------------------------
(* How a call of the worker ends *)

Fault == faults < MaxFaults /\ faults' = faults + 1

\* processNextRevert: an error puts the key back.
Error == wk' = IdleWk /\ dirty' = TRUE

\* The call took effect; its reply arrives and the worker goes on as w, or
\* the reply is lost and the attempt ends with an error.
Reply(call, w) ==
    \/ wk' = w /\ UNCHANGED <<dirty, faults>>
    \/ call \in FaultyCalls /\ Fault /\ Error

Refused == Error /\ UNCHANGED faults

Goto(pc) == [wk EXCEPT !.pc = pc]

\* The end of ProcessSnapshotRevert: "latest" keeps the last KeepStatus entries.
Trim(q) == IF KeepStatus # 0 /\ Len(q) > KeepStatus
           THEN SubSeq(q, Len(q) - KeepStatus + 1, Len(q))
           ELSE q

ToPut(r, fresh) == [IdleWk EXCEPT !.pc = "put", !.copy = r, !.fresh = fresh]

Finish(r) ==
    LET kept == IF wk.copy.action = "latest" THEN [r EXCEPT !.reverts = Trim(@)] ELSE r
    IN  wk' = ToPut(kept, wk.fresh)

----------------------------------------------------------------------------
(* processNextRevert and the dispatch of processLatest and processUndo     *)

Start(w) ==
    /\ wk.pc = "idle" /\ dirty
    /\ dirty' = FALSE
    /\ wk' = w
    /\ UNCHANGED <<clusterVars, revVars, requests, faults>>

Attempt(pc, r) == [IdleWk EXCEPT !.pc = pc, !.copy = r, !.fresh = crevNew]

Latestly == crev.action = "latest"
Undoing == crev.action = "undo"

\* Action "idle", or "undo" with nothing to undo: the resource is put unchanged.
StartNothing ==
    /\ crev.action = "idle" \/ (Undoing /\ crev.reverts = <<>>)
    /\ Start(ToPut(crev, crevNew))

\* initDetails: a new entry starts after none, or after a finished one.
\* Mutant: also after one not finished yet.
NeedsEntryM(r) == StateOf(r) \in {"none", "finished", "reverted"}
NeedsEntry(r) == StateOf(r) \in {"none", "finished"}

CachedClaims == {c \in Claims : cpvc[c].here}

\* init: record the replicas and the claims, listed in any order.
StartInit ==
    /\ Latestly /\ NeedsEntry(crev)
    /\ csts # 0
    /\ \E order \in SetToSeqs(CachedClaims) :
         LET old == [i \in DOMAIN order |-> [claim |-> order[i], vol |-> cpvc[order[i]].vol]]
             details == [state |-> "init", replicas |-> csts, old |-> old]
         IN  Start(ToPut([crev EXCEPT !.reverts = Trim(Append(@, details))], crevNew))

\* pause: skip the patch when the cached StatefulSet has no replicas.
\* Mutant: an undo that is done pauses again.
StartPauseM ==
    /\ \/ Latestly /\ StateOf(crev) = "init"
       \/ Undoing /\ StateOf(crev) \in {"finished", "undone"}
    /\ Start(Attempt(IF csts # 0 THEN "pause" ELSE "pauseWait", crev))
StartPause ==
    /\ \/ Latestly /\ StateOf(crev) = "init"
       \/ Undoing /\ StateOf(crev) = "finished"
    /\ Start(Attempt(IF csts # 0 THEN "pause" ELSE "pauseWait", crev))

HasSnapshots(old) == \A i \in DOMAIN old : snaps[old[i].claim] > 0

\* Mutant: a revert that is done is done again.
SwapsM == StateOf(crev) \in {"paused", "reverted"}
Swaps == StateOf(crev) = "paused"

\* revertSnapshots: pick the newest snapshot of each recorded claim.
StartRevert ==
    /\ Latestly /\ Swaps
    /\ HasSnapshots(Latest(crev).old)
    /\ Start([Attempt(IF Latest(crev).old = <<>> THEN "bindWait" ELSE "fix", crev)
                EXCEPT !.sel = snaps])

StartUndo ==
    /\ Undoing /\ Swaps
    /\ Start(Attempt(IF Latest(crev).old = <<>> THEN "undoWait" ELSE "undoDelete", crev))

StartUnpause ==
    /\ \/ Latestly /\ StateOf(crev) = "reverted"
       \/ Undoing /\ StateOf(crev) = "undone"
    /\ Start([Attempt("unpause", crev) EXCEPT !.seen = csts])

\* The attempts that fail before any call: the key goes back to the queue.
StartRejected ==
    /\ \/ Latestly /\ NeedsEntry(crev) /\ csts = 0
       \/ Latestly /\ Swaps /\ ~HasSnapshots(Latest(crev).old)
       \/ Latestly /\ StateOf(crev) = "undone"
       \/ Undoing /\ StateOf(crev) \in {"init", "reverted"}
    /\ wk.pc = "idle" /\ dirty
    /\ UNCHANGED vars

----------------------------------------------------------------------------
(* pause and unpause *)

\* SetStsReplica(0): a patch, whatever the cache showed.
Pause ==
    /\ wk.pc = "pause"
    /\ SetReplicas(0)
    /\ Reply("pause", Goto("pauseWait"))
    /\ UNCHANGED <<revVars, pods, cpods, pvcVars, pvVars, disk, snaps, requests>>

\* Mutant: do not wait for the pods.
PodsDeletedM == TRUE
PodsDeleted == Listed(cpods) = {}

Paused ==
    /\ wk.pc = "pauseWait" /\ PodsDeleted
    /\ Finish(WithState(wk.copy, "paused"))
    /\ UNCHANGED <<clusterVars, revVars, dirty, requests, faults>>

\* Mutant: the replicas the StatefulSet has now, not those recorded by init.
TargetM == wk.seen
Target == Latest(wk.copy).replicas

\* SetStsReplica(details.Replicas): its error is overwritten, never returned.
Unpause ==
    /\ wk.pc = "unpause"
    /\ \/ SetReplicas(Target) /\ UNCHANGED faults
       \/ "unpause" \in FaultyCalls /\ Fault /\ UNCHANGED <<replicas, csts>>
    /\ wk' = Goto("readyWait")
    /\ UNCHANGED <<revVars, dirty, pods, cpods, pvcVars, pvVars, disk, snaps, requests>>

\* PodsReady compares with the replicas read before the patch.
PodsReady ==
    /\ Cardinality(Listed(cpods)) = wk.seen
    /\ \A c \in Listed(cpods) : cpods[c] = "running"

\* The action becomes "idle"; an undo also drops the entry it has undone.
Unpaused ==
    /\ wk.pc = "readyWait" /\ PodsReady
    /\ LET done == [WithState(wk.copy, "finished") EXCEPT !.action = "idle"]
       IN  Finish(IF wk.copy.action = "undo"
                  THEN [done EXCEPT !.reverts = Front(@)] ELSE done)
    /\ UNCHANGED <<clusterVars, revVars, dirty, requests, faults>>

----------------------------------------------------------------------------
(* revertSnapshots: for each recorded claim, fix the reclaim policy, delete *)
(* the claim and free its volume; then create the claims from snapshots.    *)

\* UpdatePV of the cached object v, already overwritten in place with obj:
\* refused if the cached version is old, lost, or stored.
UpdatePV(call, v, obj, w) ==
    LET stored == [live |-> TRUE, policy |-> obj.policy, ref |-> obj.ref]
        same == stored = pv[v]
    IN  \/ /\ cpv[v].new
           /\ pv' = [pv EXCEPT ![v] = stored]
           /\ cpv' = [cpv EXCEPT ![v] = [obj EXCEPT !.new = same \/ "pv" \in Prompt]]
           /\ Reply(call, w)
        \/ /\ ~cpv[v].new
           /\ cpv' = [cpv EXCEPT ![v] = obj]
           /\ Refused /\ UNCHANGED pv
        \/ /\ call \in FaultyCalls /\ Fault /\ Error
           /\ cpv' = [cpv EXCEPT ![v] = obj]
           /\ UNCHANGED pv

\* GetPV: not in the cache, and for a claim that recorded no volume.
NoPv(v) == v \notin {u \in Vols : cpv[u].live}

\* fixReclaimPolicy: nothing to do if the cached policy is already Retain.
\* Mutant: any policy will do.
RetainedM(v) == TRUE
Retained(v) == cpv[v].policy = "Retain"

Fix ==
    /\ wk.pc = "fix"
    /\ LET v == Cur.vol
       IN  \/ NoPv(v) /\ Refused /\ UNCHANGED pvVars
           \/ /\ ~NoPv(v) /\ Retained(v)
              /\ wk' = Goto("delete")
              /\ UNCHANGED <<dirty, faults, pvVars>>
           \/ /\ ~NoPv(v) /\ ~Retained(v)
              /\ UpdatePV("fix", v, [cpv[v] EXCEPT !.policy = "Retain"], Goto("delete"))
    /\ UNCHANGED <<revVars, appVars, pvcVars, disk, snaps, requests>>

\* DeletePVC: nothing to do for a claim the cache does not list; the finalizer
\* keeps a deleted claim until its pod is gone.
DeletePVC(call, c, w) ==
    \/ /\ ~cpvc[c].here
       /\ wk' = w
       /\ UNCHANGED <<dirty, faults, pvcVars, pvVars>>
    \/ /\ cpvc[c].here /\ ~pvc[c].here
       /\ Refused /\ UNCHANGED <<pvcVars, pvVars>>
    \/ /\ cpvc[c].here /\ pvc[c].here
       /\ Reply(call, w)
       /\ IF Finalizer
          THEN SetPvc([pvc EXCEPT ![c].dying = TRUE]) /\ UNCHANGED pvVars
          ELSE Release(c)

Delete ==
    /\ wk.pc = "delete"
    /\ DeletePVC("delete", Cur.claim, Goto("avail"))
    /\ UNCHANGED <<revVars, appVars, disk, snaps, requests>>

\* Go on with the next recorded claim at step pc, or after the last one at next.
NextClaim(pc, next) == IF wk.i < Len(Old) THEN [wk EXCEPT !.i = @ + 1, !.pc = pc]
                       ELSE [wk EXCEPT !.i = 1, !.pc = next]

Freed(p) == [p EXCEPT !.ref = "free"]

\* availablePV: clear claimRef, so that another claim may take the volume.
Avail ==
    /\ wk.pc = "avail"
    /\ IF NoPv(Cur.vol)
       THEN Refused /\ UNCHANGED pvVars
       ELSE UpdatePV("avail", Cur.vol, Freed(cpv[Cur.vol]), NextClaim("fix", "create"))
    /\ UNCHANGED <<revVars, appVars, pvcVars, disk, snaps, requests>>

CreatePVC(call, c, p, w) ==
    \/ pvc[c].here /\ Refused /\ UNCHANGED pvcVars
    \/ ~pvc[c].here /\ SetPvc([pvc EXCEPT ![c] = p]) /\ Reply(call, w)

\* AttachSnapshot: the claim names its snapshot and no volume.
AttachSnapshot(snap) == [NoPvc EXCEPT !.here = TRUE, !.snap = snap]

Create ==
    /\ wk.pc = "create"
    /\ CreatePVC("create", Cur.claim, AttachSnapshot(wk.sel[Cur.claim]),
                 NextClaim("create", "bindWait"))
    /\ UNCHANGED <<revVars, appVars, pvVars, disk, snaps, requests>>

\* Mutant: only the last claim counts.
PvcsBoundM == Old = <<>> \/ cpvc[Old[Len(Old)].claim].bound
PvcsBound == \A i \in DOMAIN Old : cpvc[Old[i].claim].here /\ cpvc[Old[i].claim].bound

Bound(wait, state) ==
    /\ wk.pc = wait /\ PvcsBound
    /\ Finish(WithState(wk.copy, state))
    /\ UNCHANGED <<clusterVars, revVars, dirty, requests, faults>>

\* Mutant: the state stays "paused".
RevertedM == Bound("bindWait", "paused")
Reverted == Bound("bindWait", "reverted")

----------------------------------------------------------------------------
(* undoRevertSnapshots: delete every recorded claim, then create each again *)
(* with the volume it had.                                                  *)

UndoDelete ==
    /\ wk.pc = "undoDelete"
    /\ DeletePVC("undoDelete", Cur.claim, NextClaim("undoDelete", "undoCreate"))
    /\ UNCHANGED <<revVars, appVars, disk, snaps, requests>>

\* undo: the claim as it was recorded, with its volumeName.
\* Mutant: without it.
UndoM(vol) == [NoPvc EXCEPT !.here = TRUE]
Undo(vol) == [NoPvc EXCEPT !.here = TRUE, !.vol = vol]

UndoCreate ==
    /\ wk.pc = "undoCreate"
    /\ CreatePVC("undoCreate", Cur.claim, Undo(Cur.vol),
                 NextClaim("undoCreate", "undoWait"))
    /\ UNCHANGED <<revVars, appVars, pvVars, disk, snaps, requests>>

\* Mutant: a state that no phase knows.
UndoneM == Bound("undoWait", "undo")
Undone == Bound("undoWait", "undone")

----------------------------------------------------------------------------
(* The end of an attempt: UpdateRevert with the resource in its next state *)

\* Mutant: a put overwrites whatever is there.
AcceptedM == TRUE
Accepted == wk.fresh

\* Accepted if the copy was made from the current version.  A put
\* that changes nothing makes no version and no event.
Put ==
    /\ wk.pc = "put"
    /\ IF Accepted
       THEN LET told == wk.copy # rev /\ "revert" \in Prompt
            IN  /\ rev' = wk.copy
                /\ crev' = IF told THEN wk.copy ELSE crev
                /\ crevNew' = (crevNew /\ (told \/ wk.copy = rev))
                /\ wk' = IdleWk
                /\ \/ dirty' = (dirty \/ told) /\ UNCHANGED faults
                   \/ "put" \in FaultyCalls /\ Fault /\ dirty' = TRUE
       ELSE Refused /\ UNCHANGED revVars
    /\ UNCHANGED <<clusterVars, requests>>

----------------------------------------------------------------------------
(* Failures *)

\* The call never reaches the API server.  (Unpause and UpdatePV have a branch
\* of their own: one ignores the error, the other has written its cache.)
CallLost ==
    /\ wk.pc \in FaultyCalls \ {"fix", "avail", "unpause"}
    /\ Fault /\ Error
    /\ UNCHANGED <<clusterVars, revVars, requests>>

WaitOver ==
    \/ wk.pc = "pauseWait" /\ PodsDeleted
    \/ wk.pc \in {"bindWait", "undoWait"} /\ PvcsBound
    \/ wk.pc = "readyWait" /\ PodsReady

\* The process restarts: its caches are filled again, every resource is queued.
Crash ==
    /\ Fault /\ Error
    /\ crev' = rev /\ crevNew' = TRUE
    /\ csts' = replicas /\ cpods' = pods /\ cpvc' = pvc
    /\ cpv' = [v \in Vols |-> Cached(pv[v], TRUE)]
    /\ UNCHANGED <<rev, replicas, pods, pvc, pv, disk, snaps, requests>>

----------------------------------------------------------------------------
(* The user: kubectl patch of spec.action.type *)

Request(a) ==
    /\ requests < MaxRequests /\ requests' = requests + 1
    /\ a # rev.action
    /\ SwitchMidway \/ rev.action = "idle" \/ (rev.action = "undo" /\ rev.reverts = <<>>)
    /\ rev' = [rev EXCEPT !.action = a]
    /\ IF "revert" \in Prompt
       THEN crev' = rev' /\ crevNew' = TRUE /\ dirty' = TRUE
       ELSE crevNew' = FALSE /\ UNCHANGED <<crev, dirty>>
    /\ wk' = [wk EXCEPT !.fresh = FALSE]
    /\ UNCHANGED <<clusterVars, faults>>

----------------------------------------------------------------------------
\* Volumes named by the resource, its cached copy and the worker's copy.
RecordedVols(r) == {o.vol : o \in UNION {Range(r.reverts[j].old) : j \in DOMAIN r.reverts}}
Taken == UNION {RecordedVols(r) : r \in {rev, crev, wk.copy}}

\* wait.PollImmediate gives up after ten minutes: when the cluster has long come
\* to rest, or early, which counts as a fault.
Timeout ==
    /\ wk.pc \in Waits /\ ~WaitOver
    /\ Error
    /\ IF AtRest THEN UNCHANGED faults ELSE Fault
    /\ UNCHANGED <<clusterVars, revVars, requests>>

\* The revert informer.  It may skip versions: those that no attempt reads.
SyncRevert ==
    /\ ~crevNew
    /\ crev' = rev /\ crevNew' = TRUE /\ dirty' = TRUE
    /\ UNCHANGED <<clusterVars, rev, wk, requests, faults>>

\* The hourly resync calls the update handler without an update.
Resync ==
    /\ ~dirty /\ dirty' = TRUE
    /\ UNCHANGED <<clusterVars, revVars, wk, requests, faults>>

----------------------------------------------------------------------------

Init ==
    /\ ClusterInit
    /\ rev = [action |-> "idle", reverts |-> <<>>] /\ crev = rev
    /\ crevNew = TRUE /\ dirty = TRUE
    /\ wk = IdleWk
    /\ requests = 0 /\ faults = 0

Starts == \/ StartNothing \/ StartInit \/ StartPause \/ StartRevert
          \/ StartUndo \/ StartUnpause \/ StartRejected

Steps == \/ Pause \/ Paused \/ Unpause \/ Unpaused
         \/ Fix \/ Delete \/ Avail \/ Create \/ Reverted
         \/ UndoDelete \/ UndoCreate \/ Undone \/ Put

Rest == UNCHANGED <<revVars, wkVars, requests, faults>>

Environment ==
    /\ Sync \/ Controllers(Taken)
    /\ Rest

Next == \/ Starts \/ Steps \/ CallLost \/ Timeout \/ Crash
        \/ SyncRevert \/ Resync \/ Environment
        \/ \E a \in {"latest", "undo"} : Request(a)

Spec == Init /\ [][Next]_vars

\* Fairness: the worker runs (its key is queued again after every error and
\* every event), watches deliver, the cluster's controllers work, the
\* SnapshotPolicy takes snapshots.  Faults and user requests may stop.
Fairness ==
    /\ WF_vars(Starts) /\ WF_vars(Steps) /\ WF_vars(Timeout)
    /\ WF_vars(SyncRevert) /\ WF_vars(SyncSts /\ Rest)
    /\ \A v \in Vols : WF_vars(SyncPv(v) /\ Rest) /\ WF_vars(Reclaim(v) /\ Rest)
    /\ \A c \in Claims :
         /\ WF_vars(SyncPod(c) /\ Rest) /\ WF_vars(SyncPvc(c) /\ Rest)
         /\ WF_vars((CreatePod(c) \/ RunPod(c) \/ DeletePod(c)) /\ Rest)
         /\ WF_vars((RemovePvc(c) \/ BindFree(c) \/ Provision(c, Taken)) /\ Rest)
         /\ WF_vars(TakeSnapshot(c) /\ Rest)

LiveSpec == Spec /\ Fairness

----------------------------------------------------------------------------
(* Properties *)

Deleted(c) == pvc[c].here /\ ~pvc[c].dying /\ (pvc'[c].dying \/ ~pvc'[c].here)

\* A claim is deleted only while the StatefulSet has no replicas and no pod is
\* left: pause ends before revertSnapshots or undoRevertSnapshots begins, across
\* retries, lost replies, stale resources and crashes.
SwapOnlyWhenDown == [][\A c \in Claims : Deleted(c) => AppDown]_vars

\* The volume of every claim recorded for an undo still exists: reclaim policies
\* are fixed before claims are deleted (fixReclaimPolicy before DeletePVC).
OldVolumesKept == \A v \in RecordedVols(rev) \ {NoVol} : pv[v].live

\* When a revert is recorded as "reverted", every recorded claim is bound to a
\* volume made from a snapshot that nothing has written to since.
HoldsSnapshot(c) ==
    /\ pvc[c].here /\ pvc[c].bound /\ pv[pvc[c].vol].ref = c
    /\ disk[pvc[c].vol].data > 0
RevertLands ==
    [][StateOf(rev) = "paused" /\ StateOf(rev') = "reverted"
         => \A o \in Range(Latest(rev').old) : HoldsSnapshot(o.claim)]_vars

\* When an undo drops its entry, every claim it recorded is back on the volume
\* it had: the entry is the only record of that volume.
UndoRestores ==
    [][rev.action = "undo" /\ Len(rev'.reverts) < Len(rev.reverts)
         => \A o \in Range(Latest(rev).old) :
              pvc[o.claim].bound /\ pvc[o.claim].vol = o.vol /\ pv[o.vol].ref = o.claim]_vars

\* An action that is over has given the StatefulSet its replicas back (unpause).
FinishedMeansUp == rev.action = "idle" => replicas = Replicas

\* What the worker promises to the user (RevertRequests): each phase once, in order
\* and on the newest entry, no request overwritten by the put of an attempt made
\* before it (UpdateRevert's version check), no claim deleted under a pod.
Present == {c \in Claims : pvc[c].here /\ ~pvc[c].dying}
User == INSTANCE RevertRequests
          WITH action <- rev.action, history <- rev.reverts, claims <- Present, down <- AppDown
KeepsPromise == User!Spec

\* Only the last entry of the history is ever in progress: initDetails starts a
\* new one only after a finished one, and undo reaches a finished one.
EarlierFinished(r) == \A j \in 1..(Len(r.reverts) - 1) : r.reverts[j].state = "finished"
HistoryFinished == \A r \in {rev, crev, wk.copy} : EarlierFinished(r)

\* Why claims are only deleted while the StatefulSet is down: "paused" is read
\* from, put in, and acted on only when it is, and a worker about to scale up
\* works from a resource that no version still shows as "paused".
Swapping == Loops \cup {"bindWait", "undoWait"}
Settled == {"reverted", "undone"}

PausedMeansDown ==
    /\ \A r \in {rev, crev} : StateOf(r) = "paused" => AppDown
    /\ wk.pc = "put" /\ StateOf(wk.copy) = "paused" => AppDown
    /\ wk.pc \in Swapping => AppDown
    /\ wk.pc = "pauseWait" => replicas = 0

OneBehind ==
    /\ crevNew => crev = rev
    /\ wk.fresh => crevNew
    /\ StateOf(crev) \in Settled => StateOf(rev) # "paused"
    /\ wk.pc = "unpause" => StateOf(crev) # "paused" /\ StateOf(rev) # "paused"
    /\ wk.fresh /\ wk.pc \in {"pause", "pauseWait"} => StateOf(crev) \notin Settled
    /\ wk.fresh /\ wk.pc = "put" /\ StateOf(crev) \in Settled => StateOf(wk.copy) # "paused"

\* Claims that have been swapped are deleted again only by a stale attempt, whose
\* put is refused, and no longer once the action is over (the version checked by
\* UpdateRevert is one put old at most): a phase that is done is done again only
\* from a copy that still reads "paused".
DoneAgain == ~wk.fresh /\ StateOf(wk.copy) = "paused" /\ StateOf(rev) \in Settled
RestoredKept ==
    [][\A c \in Claims : Deleted(c) => StateOf(rev) = "paused" \/ DoneAgain]_vars

\* A request to revert, and one to undo a finished revert, comes to an end.
LatestCompletes == rev.action = "latest" ~> rev.action = "idle"
UndoCompletes == (rev.action = "undo" /\ rev.reverts # <<>>) ~> rev.action = "idle"
=============================================================================
