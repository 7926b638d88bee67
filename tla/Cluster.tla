-------------------------------- MODULE Cluster --------------------------------
(***************************************************************************)
(* What snapshot-manager acts on: a StatefulSet with one pod and one claim *)
(* (PVC) per replica, the volumes (PV) behind the claims, and the informer *)
(* caches the manager reads them from (variables named c...).  The         *)
(* StatefulSet controller, the volume binder and the snapshot provisioner  *)
(* are not in this repository; they are modelled as far as                 *)
(* pkg/manager/reverts.go depends on them.                                 *)
(***************************************************************************)
EXTENDS Naturals, FiniteSets, SequencesExt

CONSTANTS
    Claims,     \* the claims of the StatefulSet, one per replica
    Vols,       \* names of volumes, those of the claims and those to provision
    NoVol,      \* "", the volumeName of a claim that is not bound
    Orig,       \* the volume each claim is first bound to
    Replicas,   \* spec.replicas of the StatefulSet at the start
    Prompt,     \* caches that see a write before the manager's next read
    Finalizer,  \* pvc-protection: a deleted claim lingers until released
    MaxSnaps    \* bound: snapshots of one claim

Caches == {"revert", "sts", "pods", "pvc", "pv"}

ASSUME ClusterAssumption ==
    /\ IsFiniteSet(Claims) /\ Claims # {}
    /\ {"free", "released"} \cap Claims = {}
    /\ NoVol \notin Vols
    /\ Orig \in [Claims -> Vols]
    /\ \A c, d \in Claims : Orig[c] = Orig[d] => c = d
    /\ Replicas = Cardinality(Claims)
    /\ Prompt \subseteq Caches
    /\ Finalizer \in BOOLEAN
    /\ MaxSnaps \in Nat

VARIABLES
    replicas,  \* spec.replicas of the StatefulSet
    csts,      \* the same in the informer cache
    pods,      \* pod of each claim: absent, pending or running
    cpods,
    pvc,       \* PersistentVolumeClaims
    cpvc,
    pv,        \* PersistentVolumes: policy and claimRef
    cpv,       \* cached PVs, which the manager also writes in place
    disk,      \* storage class and contents of each volume
    snaps      \* number of snapshots taken of each claim; the last is the newest

appVars == <<replicas, csts, pods, cpods>>
pvcVars == <<pvc, cpvc>>
pvVars == <<pv, cpv>>
clusterVars == <<appVars, pvcVars, pvVars, disk, snaps>>

NoPvc == [here |-> FALSE, vol |-> NoVol, bound |-> FALSE, snap |-> 0, dying |-> FALSE]

\* snap is the snapshot of the annotation, 0 for a claim without one.
Pvcs == [here : BOOLEAN, vol : Vols \cup {NoVol}, bound : BOOLEAN,
         snap : 0..MaxSnaps, dying : BOOLEAN]

\* ref: the claim bound to the volume, "free" when claimRef is nil, "released"
\* when it names a claim that no longer exists.
Pvs == [live : BOOLEAN, policy : {"Retain", "Delete"},
        ref : Claims \cup {"free", "released"}]
CachedPvs == [live : BOOLEAN, policy : {"Retain", "Delete"},
              ref : Claims \cup {"free", "released"}, new : BOOLEAN]
Cached(p, new) == [live |-> p.live, policy |-> p.policy, ref |-> p.ref, new |-> new]

\* data: the snapshot a volume was provisioned from while nothing has written
\* to it since, 0 for any other contents.
Disks == [class : {"std", "snap"}, data : 0..MaxSnaps]

PodStates == {"absent", "pending", "running"}
Listed(view) == {c \in Claims : view[c] # "absent"}
AppDown == replicas = 0 /\ Listed(pods) = {}

ClusterTypeOK ==
    /\ replicas \in {0, Replicas} /\ csts \in {0, Replicas}
    /\ pods \in [Claims -> PodStates] /\ cpods \in [Claims -> PodStates]
    /\ pvc \in [Claims -> Pvcs] /\ cpvc \in [Claims -> Pvcs]
    /\ pv \in [Vols -> Pvs] /\ cpv \in [Vols -> CachedPvs]
    /\ disk \in [Vols -> Disks]
    /\ snaps \in [Claims -> 0..MaxSnaps]

----------------------------------------------------------------------------
(* Writes to the API server.  A Prompt cache sees a write at once.         *)

SetReplicas(n) ==
    /\ replicas' = n
    /\ csts' = IF "sts" \in Prompt THEN n ELSE csts

SetPods(f) ==
    /\ pods' = f
    /\ cpods' = IF "pods" \in Prompt THEN f ELSE cpods

SetPvc(f) ==
    /\ pvc' = f
    /\ cpvc' = IF "pvc" \in Prompt THEN f ELSE cpvc

SetPv(f) ==
    /\ pv' = f
    /\ cpv' = [v \in Vols |->
                 IF f[v] = pv[v] THEN cpv[v]
                 ELSE IF "pv" \in Prompt THEN Cached(f[v], TRUE)
                 ELSE [cpv[v] EXCEPT !.new = FALSE]]

\* A claim leaves the API server: its volume keeps a claimRef to a claim gone.
Release(c) ==
    /\ SetPvc([pvc EXCEPT ![c] = NoPvc])
    /\ IF pvc[c].bound /\ pv[pvc[c].vol].ref = c
       THEN SetPv([pv EXCEPT ![pvc[c].vol].ref = "released"])
       ELSE UNCHANGED pvVars

----------------------------------------------------------------------------
(* Informers *)

SyncSts ==
    /\ csts # replicas /\ csts' = replicas
    /\ UNCHANGED <<replicas, pods, cpods, pvcVars, pvVars, disk, snaps>>

SyncPod(c) ==
    /\ cpods[c] # pods[c] /\ cpods' = [cpods EXCEPT ![c] = pods[c]]
    /\ UNCHANGED <<replicas, csts, pods, pvcVars, pvVars, disk, snaps>>

SyncPvc(c) ==
    /\ cpvc[c] # pvc[c] /\ cpvc' = [cpvc EXCEPT ![c] = pvc[c]]
    /\ UNCHANGED <<appVars, pvc, pvVars, disk, snaps>>

SyncPv(v) ==
    /\ ~cpv[v].new /\ cpv' = [cpv EXCEPT ![v] = Cached(pv[v], TRUE)]
    /\ UNCHANGED <<appVars, pvcVars, pv, disk, snaps>>

----------------------------------------------------------------------------
(* The cluster: StatefulSet controller, kubelet, volume binder, snapshots    *)

CanCreatePod(c) == replicas # 0 /\ pods[c] = "absent"
CanRunPod(c) == pods[c] = "pending" /\ pvc[c].here /\ pvc[c].bound /\ ~pvc[c].dying
CanDeletePod(c) == replicas = 0 /\ pods[c] # "absent"
CanRemovePvc(c) == pvc[c].here /\ pvc[c].dying /\ pods[c] # "running"

\* A missing claim is made again from the volumeClaimTemplate, blank.
CreatePod(c) ==
    /\ CanCreatePod(c)
    /\ SetPods([pods EXCEPT ![c] = "pending"])
    /\ IF pvc[c].here THEN UNCHANGED pvcVars
       ELSE SetPvc([pvc EXCEPT ![c] = [NoPvc EXCEPT !.here = TRUE]])
    /\ UNCHANGED <<replicas, csts, pvVars, disk, snaps>>

\* A pod that runs writes to its volume.
RunPod(c) ==
    /\ CanRunPod(c)
    /\ SetPods([pods EXCEPT ![c] = "running"])
    /\ disk' = [disk EXCEPT ![pvc[c].vol].data = 0]
    /\ UNCHANGED <<replicas, csts, pvcVars, pvVars, snaps>>

DeletePod(c) ==
    /\ CanDeletePod(c)
    /\ SetPods([pods EXCEPT ![c] = "absent"])
    /\ UNCHANGED <<replicas, csts, pvcVars, pvVars, disk, snaps>>

RemovePvc(c) ==
    /\ CanRemovePvc(c)
    /\ Release(c)
    /\ UNCHANGED <<appVars, disk, snaps>>

ClassOf(p) == IF p.snap = 0 THEN "std" ELSE "snap"

\* Provisioned volumes get names never used: of the finite set Vols, one that
\* nothing names any more (taken: the names recorded outside the cluster).
UnusedVols(taken) ==
    {v \in Vols \ taken : /\ ~pv[v].live /\ ~cpv[v].live
                          /\ \A c \in Claims : v # pvc[c].vol /\ v # cpvc[c].vol}

\* The binder: the volume a claim names, if it is free; otherwise any free
\* volume of the class, and a new one only if there is none.
Free(p) == {v \in Vols : /\ pv[v].live /\ pv[v].ref = "free"
                         /\ v = p.vol \/ (p.vol = NoVol /\ disk[v].class = ClassOf(p))}

Unbound(c) == pvc[c].here /\ ~pvc[c].bound /\ ~pvc[c].dying

BindTo(c, v) == SetPvc([pvc EXCEPT ![c].bound = TRUE, ![c].vol = v])

BindFree(c) ==
    /\ Unbound(c)
    /\ \E v \in Free(pvc[c]) : BindTo(c, v) /\ SetPv([pv EXCEPT ![v].ref = c])
    /\ UNCHANGED <<appVars, disk, snaps>>

\* A new volume holds the contents of the snapshot; its policy is Delete, the
\* default of a StorageClass.
Provision(c, taken) ==
    /\ Unbound(c)
    /\ pvc[c].vol = NoVol /\ Free(pvc[c]) = {} /\ UnusedVols(taken) # {}
    /\ LET v == CHOOSE u \in UnusedVols(taken) : TRUE
       IN  /\ BindTo(c, v)
           /\ SetPv([pv EXCEPT ![v] = [live |-> TRUE, policy |-> "Delete", ref |-> c]])
           /\ disk' = [disk EXCEPT ![v] = [class |-> ClassOf(pvc[c]), data |-> pvc[c].snap]]
    /\ UNCHANGED <<appVars, snaps>>

\* A bound claim whose volume lost its claimRef is bound to it again.
Rebind(c) ==
    /\ pvc[c].here /\ pvc[c].bound
    /\ pv[pvc[c].vol].live /\ pv[pvc[c].vol].ref = "free"
    /\ SetPv([pv EXCEPT ![pvc[c].vol].ref = c])
    /\ UNCHANGED <<appVars, pvcVars, disk, snaps>>

Reclaim(v) ==
    /\ pv[v].live /\ pv[v].policy = "Delete" /\ pv[v].ref = "released"
    /\ SetPv([pv EXCEPT ![v].live = FALSE])
    /\ UNCHANGED <<appVars, pvcVars, disk, snaps>>

TakeSnapshot(c) ==
    /\ snaps[c] < MaxSnaps /\ pvc[c].here /\ pvc[c].bound
    /\ snaps' = [snaps EXCEPT ![c] = @ + 1]
    /\ UNCHANGED <<appVars, pvcVars, pvVars, disk>>

----------------------------------------------------------------------------
\* Nothing is left to do for the controllers and the caches of pods and claims:
\* the only claims not bound are those that name a volume they cannot have.
AtRest ==
    /\ cpods = pods /\ cpvc = pvc
    /\ \A c \in Claims :
         /\ ~CanCreatePod(c) /\ ~CanRunPod(c) /\ ~CanDeletePod(c) /\ ~CanRemovePvc(c)
         /\ Unbound(c) => pvc[c].vol # NoVol /\ Free(pvc[c]) = {}

ClusterInit ==
    /\ replicas = Replicas /\ csts = Replicas
    /\ pods = [c \in Claims |-> "running"] /\ cpods = pods
    /\ pvc = [c \in Claims |-> [NoPvc EXCEPT !.here = TRUE, !.vol = Orig[c], !.bound = TRUE]]
    /\ cpvc = pvc
    /\ pv = [v \in Vols |->
               [live |-> v \in Range(Orig), policy |-> "Delete",
                ref |-> IF v \in Range(Orig) THEN CHOOSE c \in Claims : Orig[c] = v ELSE "released"]]
    /\ cpv = [v \in Vols |-> Cached(pv[v], TRUE)]
    /\ disk = [v \in Vols |-> [class |-> "std", data |-> 0]]
    /\ snaps = [c \in Claims |-> 0]

Sync == \/ SyncSts
        \/ \E c \in Claims : SyncPod(c) \/ SyncPvc(c)
        \/ \E v \in Vols : SyncPv(v)

Controllers(taken) ==
    \/ \E c \in Claims :
         \/ CreatePod(c) \/ RunPod(c) \/ DeletePod(c) \/ RemovePvc(c)
         \/ BindFree(c) \/ Provision(c, taken) \/ Rebind(c) \/ TakeSnapshot(c)
    \/ \E v \in Vols : Reclaim(v)
=============================================================================
