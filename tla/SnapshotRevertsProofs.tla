------------------------- MODULE SnapshotRevertsProofs -------------------------
(***************************************************************************)
(* What TLAPS proves of SnapshotReverts, for any number of claims and      *)
(* volumes, any KeepStatus, any faults and any number of requests.         *)
(***************************************************************************)
EXTENDS SnapshotReverts, SequenceTheorems, FiniteSetTheorems, TLAPS

----------------------------------------------------------------------------
(* Lemmas about the data *)

\* The number of replicas is a positive number.
LEMMA ReplicasNat == Replicas \in Nat /\ Replicas # 0
  BY ClusterAssumption, FS_CardinalityType, FS_EmptySet

\* setState changes the last entry's state and nothing else.
LEMMA StateChange ==
    ASSUME NEW r \in Reverts, r.reverts # <<>>, NEW s \in States
    PROVE  LET q == WithState(r, s)
           IN  /\ q \in Reverts
               /\ Len(q.reverts) = Len(r.reverts)
               /\ q.reverts # <<>>
               /\ q.action = r.action
               /\ StateOf(q) = s
               /\ \A j \in 1..(Len(r.reverts) - 1) : q.reverts[j] = r.reverts[j]
<1> DEFINE n == Len(r.reverts)
           d == [r.reverts[n] EXCEPT !.state = s]
           f == [r.reverts EXCEPT ![n] = d]
           q == WithState(r, s)
<1>1. r.reverts \in Seq(Details) /\ n \in Nat \ {0} /\ r.action \in {"idle", "latest", "undo"}
  BY DEF Reverts
<1>2. d \in Details /\ d.state = s
  <2>1. r.reverts[n] \in Details
    BY <1>1
  <2> HIDE DEF n
  <2> QED
    BY <2>1 DEF Details
<1>3. f \in Seq(Details) /\ Len(f) = n /\ f[n] = d /\ \A j \in 1..(n - 1) : f[j] = r.reverts[j]
  BY <1>1, <1>2
<1>4. q = [r EXCEPT !.reverts = f]
  BY DEF WithState
<1>5. q \in Reverts /\ q.reverts = f /\ q.action = r.action
  BY <1>1, <1>3, <1>4 DEF Reverts
<1>6. f # <<>>
  BY <1>1, <1>3
<1>7. StateOf(q) = s
  BY <1>1, <1>2, <1>3, <1>5, <1>6 DEF StateOf, Latest, Last
<1> QED
  BY <1>3, <1>5, <1>6, <1>7

\* A history no longer than spec.keepStatus.
Fits(q) == KeepStatus # 0 => Len(q) <= KeepStatus

\* Trimming the history keeps its last entry, adds none, and changes nothing in
\* one that fits.
LEMMA TrimKeepsLast ==
    ASSUME NEW S, NEW q \in Seq(S)
    PROVE  /\ Trim(q) \in Seq(S)
           /\ Trim(q) = <<>> <=> q = <<>>
           /\ q # <<>> => Last(Trim(q)) = Last(q)
           /\ Len(Trim(q)) <= Len(q) /\ Fits(Trim(q)) /\ (Fits(q) => Trim(q) = q)
           /\ \A j \in 1..(Len(Trim(q)) - 1) : \E k \in 1..(Len(q) - 1) : Trim(q)[j] = q[k]
<1>1. CASE KeepStatus # 0 /\ Len(q) > KeepStatus
  <2> DEFINE m == Len(q) - KeepStatus
             t == SubSeq(q, m + 1, Len(q))
  <2>1. Trim(q) = t
    BY <1>1 DEF Trim
  <2>2. m \in Nat /\ m \in 1..(Len(q) - 1) /\ KeepStatus \in Nat \ {0} /\ Len(q) \in Nat
    BY <1>1, RevertsAssumption
  <2>3. t \in Seq(S) /\ Len(t) = KeepStatus /\ \A j \in 1..KeepStatus : t[j] = q[m + j]
    BY <2>2
  <2>4. t # <<>> /\ q # <<>> /\ t[KeepStatus] = q[Len(q)]
    <3>1. m + KeepStatus = Len(q) /\ KeepStatus \in 1..KeepStatus
      BY <2>2, RevertsAssumption
    <3>2. t[KeepStatus] = q[m + KeepStatus]
      BY <2>3, <3>1
    <3>3. Len(<<>>) # KeepStatus /\ Len(q) # 0
      BY <2>2
    <3> HIDE DEF t, m
    <3> QED
      BY <2>3, <3>1, <3>2, <3>3
  <2>5. Last(t) = Last(q)
    BY <2>3, <2>4 DEF Last
  <2>6. ASSUME NEW j \in 1..(Len(t) - 1)
        PROVE  \E k \in 1..(Len(q) - 1) : t[j] = q[k]
    <3>1. m + j \in 1..(Len(q) - 1) /\ t[j] = q[m + j]
      BY <2>2, <2>3
    <3> QED
      BY <3>1
  <2> QED
    <3>1. Len(t) <= Len(q) /\ Fits(t) /\ ~Fits(q)
      BY <2>2, <2>3 DEF Fits
    <3> HIDE DEF t
    <3> QED
      BY <2>1, <2>3, <2>4, <2>5, <2>6, <3>1
<1>2. CASE ~(KeepStatus # 0 /\ Len(q) > KeepStatus)
  BY <1>2, RevertsAssumption DEF Trim, Fits
<1> QED
  BY <1>1, <1>2

\* The worker between two attempts, and about to put r.
LEMMA ToPutTypes ==
    ASSUME NEW r \in Reverts, NEW b \in BOOLEAN
    PROVE  /\ IdleWk \in Workers
           /\ ToPut(r, b) \in Workers
           /\ ToPut(r, b).pc = "put" /\ ToPut(r, b).copy = r /\ ToPut(r, b).fresh = b
<1>1. [action |-> "idle", reverts |-> <<>>] \in Reverts
  BY DEF Reverts
<1>2. [c \in Claims |-> 0] \in [Claims -> 0..MaxSnaps]
  BY ClusterAssumption
<1>3. IdleWk \in Workers
  BY <1>1, <1>2 DEF IdleWk, Workers
<1> QED
  BY <1>3 DEF ToPut, Workers, Calls

\* What Finish leaves in the worker: the resource to put, with the same last
\* entry as r and no earlier entry that r does not have.
LEMMA FinishPuts ==
    ASSUME wk \in Workers, NEW r \in Reverts, Finish(r)
    PROVE  /\ wk' \in Workers
           /\ wk'.pc = "put" /\ wk'.fresh = wk.fresh
           /\ StateOf(wk'.copy) = StateOf(r)
           /\ Fits(r.reverts) => wk'.copy = r
           /\ \A j \in 1..(Len(wk'.copy.reverts) - 1) :
                \E k \in 1..(Len(r.reverts) - 1) : wk'.copy.reverts[j] = r.reverts[k]
<1> DEFINE t == [r EXCEPT !.reverts = Trim(@)]
           kept == IF wk.copy.action = "latest" THEN t ELSE r
<1>1. r.reverts \in Seq(Details)
  BY DEF Reverts
<1>2. t \in Reverts /\ t.reverts = Trim(r.reverts)
  BY <1>1, TrimKeepsLast DEF Reverts
<1>3. StateOf(t) = StateOf(r)
  BY <1>1, <1>2, TrimKeepsLast DEF StateOf, Latest
<1>4. \A j \in 1..(Len(t.reverts) - 1) :
        \E k \in 1..(Len(r.reverts) - 1) : t.reverts[j] = r.reverts[k]
  BY <1>1, <1>2, TrimKeepsLast
<1>5. kept \in Reverts /\ StateOf(kept) = StateOf(r) /\ (Fits(r.reverts) => kept = r)
  <2>1. Fits(r.reverts) => t = r
    <3>1. [r EXCEPT !.reverts = r.reverts] = r
      BY DEF Reverts
    <3> QED
      BY <1>1, <3>1, TrimKeepsLast
  <2> QED
    BY <1>2, <1>3, <2>1
<1>6. \A j \in 1..(Len(kept.reverts) - 1) :
        \E k \in 1..(Len(r.reverts) - 1) : kept.reverts[j] = r.reverts[k]
  BY <1>4
<1> HIDE DEF t, kept
<1>7. wk' = ToPut(kept, wk.fresh)
  BY DEF Finish, kept, t
<1>8. wk' \in Workers /\ wk'.pc = "put" /\ wk'.fresh = wk.fresh /\ wk'.copy = kept
  BY <1>5, <1>7, ToPutTypes DEF Workers
<1> QED
  BY <1>5, <1>6, <1>8

----------------------------------------------------------------------------
(* Types: the cluster and its controllers *)

LEMMA NoPvcType == NoPvc \in Pvcs /\ NoPvc.vol = NoVol
  BY ClusterAssumption DEF NoPvc, Pvcs

\* A write of claims, of volumes, of pods or of the replicas keeps the types of
\* the API server and of the cache that may see it.
LEMMA SetPvcType ==
    ASSUME ClusterTypeOK, NEW f \in [Claims -> Pvcs], SetPvc(f)
    PROVE  pvc' \in [Claims -> Pvcs] /\ cpvc' \in [Claims -> Pvcs]
  BY DEF ClusterTypeOK, SetPvc

LEMMA SetPvType ==
    ASSUME ClusterTypeOK, NEW f \in [Vols -> Pvs], SetPv(f)
    PROVE  pv' \in [Vols -> Pvs] /\ cpv' \in [Vols -> CachedPvs]
<1>1. \A v \in Vols : Cached(f[v], TRUE) \in CachedPvs
  BY DEF Pvs, CachedPvs, Cached
<1>2. \A v \in Vols : cpv[v] \in CachedPvs /\ [cpv[v] EXCEPT !.new = FALSE] \in CachedPvs
  <2>1. \A v \in Vols : cpv[v] \in CachedPvs
    BY DEF ClusterTypeOK
  <2> QED
    BY <2>1 DEF CachedPvs
<1> QED
  BY <1>1, <1>2 DEF SetPv

LEMMA SetPodsType ==
    ASSUME ClusterTypeOK, NEW f \in [Claims -> PodStates], SetPods(f)
    PROVE  pods' \in [Claims -> PodStates] /\ cpods' \in [Claims -> PodStates]
  BY DEF ClusterTypeOK, SetPods

LEMMA SetReplicasType ==
    ASSUME ClusterTypeOK, NEW n \in {0, Replicas}, SetReplicas(n)
    PROVE  replicas' \in {0, Replicas} /\ csts' \in {0, Replicas}
  BY DEF ClusterTypeOK, SetReplicas

LEMMA ReleaseType ==
    ASSUME ClusterTypeOK, NEW c \in Claims, Release(c)
    PROVE  /\ pvc' \in [Claims -> Pvcs] /\ cpvc' \in [Claims -> Pvcs]
           /\ pv' \in [Vols -> Pvs] /\ cpv' \in [Vols -> CachedPvs]
<1> DEFINE f == [pvc EXCEPT ![c] = NoPvc]
           g == [pv EXCEPT ![pvc[c].vol].ref = "released"]
<1>1. f \in [Claims -> Pvcs] /\ SetPvc(f)
  BY NoPvcType DEF Release, ClusterTypeOK
<1>2. \A v \in Vols : pv[v] \in Pvs /\ [pv[v] EXCEPT !.ref = "released"] \in Pvs
  BY DEF ClusterTypeOK, Pvs
<1>3. g \in [Vols -> Pvs]
  BY <1>2 DEF ClusterTypeOK
<1>4. CASE SetPv(g)
  BY <1>1, <1>3, <1>4, SetPvcType, SetPvType
<1>5. CASE UNCHANGED pvVars
  BY <1>1, <1>5, SetPvcType DEF pvVars, ClusterTypeOK
<1> QED
  BY <1>4, <1>5 DEF Release

LEMMA SyncTypes ==
    ASSUME ClusterTypeOK, Sync
    PROVE  ClusterTypeOK'
<1>1. CASE SyncSts
  BY <1>1 DEF SyncSts, ClusterTypeOK, pvcVars, pvVars
<1>2. ASSUME NEW c \in Claims, SyncPod(c) PROVE ClusterTypeOK'
  BY <1>2 DEF SyncPod, ClusterTypeOK, pvcVars, pvVars
<1>3. ASSUME NEW c \in Claims, SyncPvc(c) PROVE ClusterTypeOK'
  BY <1>3 DEF SyncPvc, ClusterTypeOK, appVars, pvVars
<1>4. ASSUME NEW v \in Vols, SyncPv(v) PROVE ClusterTypeOK'
  <2>1. Cached(pv[v], TRUE) \in CachedPvs
    BY DEF ClusterTypeOK, Pvs, CachedPvs, Cached
  <2>2. cpv' \in [Vols -> CachedPvs]
    BY <1>4, <2>1 DEF SyncPv, ClusterTypeOK
  <2> QED
    BY <1>4, <2>2 DEF SyncPv, ClusterTypeOK, appVars, pvcVars
<1> QED
  BY <1>1, <1>2, <1>3, <1>4 DEF Sync

\* Binding: the claim gets the volume, the volume's claimRef the claim.
LEMMA BindType ==
    ASSUME ClusterTypeOK, NEW c \in Claims, NEW v \in Vols,
           NEW p \in Pvs, BindTo(c, v), SetPv([pv EXCEPT ![v] = p])
    PROVE  /\ pvc' \in [Claims -> Pvcs] /\ cpvc' \in [Claims -> Pvcs]
           /\ pv' \in [Vols -> Pvs] /\ cpv' \in [Vols -> CachedPvs]
<1> DEFINE f == [pvc EXCEPT ![c].bound = TRUE, ![c].vol = v]
           g == [pv EXCEPT ![v] = p]
<1>1. f \in [Claims -> Pvcs]
  <2> DEFINE h == [pvc EXCEPT ![c].bound = TRUE]
  <2>1. pvc \in [Claims -> Pvcs]
    BY DEF ClusterTypeOK
  <2>2. [pvc[c] EXCEPT !.bound = TRUE] \in Pvcs
    BY <2>1 DEF Pvcs
  <2>3. h \in [Claims -> Pvcs]
    BY <2>1, <2>2
  <2> HIDE DEF h
  <2>4. [h[c] EXCEPT !.vol = v] \in Pvcs
    BY <2>3 DEF Pvcs
  <2>5. [h EXCEPT ![c].vol = v] \in [Claims -> Pvcs]
    BY <2>3, <2>4
  <2> QED
    BY <2>5 DEF h
<1>2. g \in [Vols -> Pvs]
  BY DEF ClusterTypeOK
<1> HIDE DEF f, g
<1>3. SetPvc(f) /\ SetPv(g)
  BY DEF BindTo, f, g
<1> QED
  BY <1>1, <1>2, <1>3, SetPvcType, SetPvType

LEMMA ControllersTypes ==
    ASSUME ClusterTypeOK, NEW taken, Controllers(taken)
    PROVE  ClusterTypeOK'
<1>1. ASSUME NEW c \in Claims, CreatePod(c) PROVE ClusterTypeOK'
  <2>1. [pods EXCEPT ![c] = "pending"] \in [Claims -> PodStates]
    BY DEF ClusterTypeOK, PodStates
  <2>2. [pvc EXCEPT ![c] = [NoPvc EXCEPT !.here = TRUE]] \in [Claims -> Pvcs]
    <3>1. [NoPvc EXCEPT !.here = TRUE] \in Pvcs
      BY NoPvcType DEF Pvcs
    <3> QED
      BY <3>1 DEF ClusterTypeOK
  <2>3. pods' \in [Claims -> PodStates] /\ cpods' \in [Claims -> PodStates]
    BY <1>1, <2>1, SetPodsType DEF CreatePod
  <2>4. pvc' \in [Claims -> Pvcs] /\ cpvc' \in [Claims -> Pvcs]
    BY <1>1, <2>2, SetPvcType DEF CreatePod, ClusterTypeOK, pvcVars
  <2> QED
    BY <1>1, <2>3, <2>4 DEF CreatePod, ClusterTypeOK, pvVars
<1>2. ASSUME NEW c \in Claims, RunPod(c) PROVE ClusterTypeOK'
  <2>1. [pods EXCEPT ![c] = "running"] \in [Claims -> PodStates]
    BY DEF ClusterTypeOK, PodStates
  <2>2. pods' \in [Claims -> PodStates] /\ cpods' \in [Claims -> PodStates]
    BY <1>2, <2>1, SetPodsType DEF RunPod
  <2>3. disk' \in [Vols -> Disks]
    <3>1. 0 \in 0..MaxSnaps
      BY ClusterAssumption
    <3>2. \A v \in Vols : [disk[v] EXCEPT !.data = 0] \in Disks
      BY <3>1 DEF ClusterTypeOK, Disks
    <3> QED
      BY <1>2, <3>2 DEF RunPod, ClusterTypeOK
  <2> QED
    BY <1>2, <2>2, <2>3 DEF RunPod, ClusterTypeOK, pvcVars, pvVars
<1>3. ASSUME NEW c \in Claims, DeletePod(c) PROVE ClusterTypeOK'
  <2>1. [pods EXCEPT ![c] = "absent"] \in [Claims -> PodStates]
    BY DEF ClusterTypeOK, PodStates
  <2>2. pods' \in [Claims -> PodStates] /\ cpods' \in [Claims -> PodStates]
    BY <1>3, <2>1, SetPodsType DEF DeletePod
  <2> QED
    BY <1>3, <2>2 DEF DeletePod, ClusterTypeOK, pvcVars, pvVars
<1>4. ASSUME NEW c \in Claims, RemovePvc(c) PROVE ClusterTypeOK'
  BY <1>4, ReleaseType DEF RemovePvc, ClusterTypeOK, appVars
<1>5. ASSUME NEW c \in Claims, BindFree(c) PROVE ClusterTypeOK'
  <2>1. PICK v \in Free(pvc[c]) : BindTo(c, v) /\ SetPv([pv EXCEPT ![v].ref = c])
    BY <1>5 DEF BindFree
  <2>2. v \in Vols /\ pv[v] \in Pvs
    BY DEF Free, ClusterTypeOK
  <2>3. [pv[v] EXCEPT !.ref = c] \in Pvs
    BY <2>2 DEF Pvs
  <2>4. SetPv([pv EXCEPT ![v] = [pv[v] EXCEPT !.ref = c]])
    BY <2>1
  <2> QED
    BY <1>5, <2>1, <2>2, <2>3, <2>4, BindType DEF BindFree, ClusterTypeOK, appVars
<1>6. ASSUME NEW c \in Claims, Provision(c, taken) PROVE ClusterTypeOK'
  <2> DEFINE v == CHOOSE u \in UnusedVols(taken) : TRUE
             p == [live |-> TRUE, policy |-> "Delete", ref |-> c]
             d == [class |-> ClassOf(pvc[c]), data |-> pvc[c].snap]
  <2>1. v \in Vols
    BY <1>6 DEF Provision, UnusedVols
  <2>2. p \in Pvs
    BY DEF Pvs
  <2>3. d \in Disks
    BY DEF ClusterTypeOK, Pvcs, Disks, ClassOf
  <2> HIDE DEF p, d, v
  <2>4. BindTo(c, v) /\ SetPv([pv EXCEPT ![v] = p]) /\ disk' = [disk EXCEPT ![v] = d]
    BY <1>6 DEF Provision, p, d, v
  <2>5. disk' \in [Vols -> Disks]
    BY <2>1, <2>3, <2>4 DEF ClusterTypeOK
  <2> QED
    BY <1>6, <2>1, <2>2, <2>4, <2>5, BindType DEF Provision, ClusterTypeOK, appVars
<1>7. ASSUME NEW c \in Claims, Rebind(c) PROVE ClusterTypeOK'
  <2>1. \A v \in Vols : [pv[v] EXCEPT !.ref = c] \in Pvs
    BY DEF ClusterTypeOK, Pvs
  <2>2. [pv EXCEPT ![pvc[c].vol].ref = c] \in [Vols -> Pvs]
    BY <2>1 DEF ClusterTypeOK
  <2>3. pv' \in [Vols -> Pvs] /\ cpv' \in [Vols -> CachedPvs]
    BY <1>7, <2>2, SetPvType DEF Rebind
  <2> QED
    BY <1>7, <2>3 DEF Rebind, ClusterTypeOK, appVars, pvcVars
<1>8. ASSUME NEW c \in Claims, TakeSnapshot(c) PROVE ClusterTypeOK'
  <2>1. snaps' \in [Claims -> 0..MaxSnaps]
    BY <1>8, ClusterAssumption DEF TakeSnapshot, ClusterTypeOK
  <2> QED
    BY <1>8, <2>1 DEF TakeSnapshot, ClusterTypeOK, appVars, pvcVars, pvVars
<1>9. ASSUME NEW v \in Vols, Reclaim(v) PROVE ClusterTypeOK'
  <2>1. [pv EXCEPT ![v].live = FALSE] \in [Vols -> Pvs]
    BY DEF ClusterTypeOK, Pvs
  <2>2. pv' \in [Vols -> Pvs] /\ cpv' \in [Vols -> CachedPvs]
    BY <1>9, <2>1, SetPvType DEF Reclaim
  <2> QED
    BY <1>9, <2>2 DEF Reclaim, ClusterTypeOK, appVars, pvcVars
<1> QED
  BY <1>1, <1>2, <1>3, <1>4, <1>5, <1>6, <1>7, <1>8, <1>9 DEF Controllers

----------------------------------------------------------------------------
(* Types: the steps of the worker *)

\* A call has ended: the worker goes on as w, or the attempt is over.
Ended(w) ==
    /\ wk' = w \/ wk' = IdleWk
    /\ dirty' \in BOOLEAN /\ faults' \in 0..MaxFaults

LEMMA CallEnds ==
    ASSUME TypeOK, NEW w, NEW call,
           Reply(call, w) \/ Refused \/ (Fault /\ Error) \/ (wk' = w /\ UNCHANGED <<dirty, faults>>)
    PROVE  Ended(w)
<1>1. dirty \in BOOLEAN /\ faults \in 0..MaxFaults /\ MaxFaults \in Nat
  BY RevertsAssumption DEF TypeOK
<1>2. Fault => faults' \in 0..MaxFaults
  BY <1>1 DEF Fault
<1> QED
  BY <1>1, <1>2 DEF Reply, Refused, Error, Ended

LEMMA IdleOK ==
    ASSUME wk' = IdleWk
    PROVE  WorkerOK' /\ wk'.pc = "idle" /\ wk'.fresh = FALSE /\ wk'.copy.reverts = <<>>
<1>1. [action |-> "idle", reverts |-> <<>>] \in Reverts
  BY DEF Reverts
<1>2. IdleWk \in Workers
  BY <1>1, ToPutTypes
<1> QED
  BY <1>2 DEF WorkerOK, IdleWk, Loops

LEMMA GotoOK ==
    ASSUME WorkerOK, wk.pc \notin {"idle", "put"}, NEW p \in Calls \cup Waits,
           p \in Loops => wk.pc \in Loops, wk' = Goto(p)
    PROVE  WorkerOK' /\ wk'.pc = p /\ wk'.copy = wk.copy /\ wk'.fresh = wk.fresh
<1>1. /\ wk' \in Workers /\ wk'.pc = p /\ wk'.i = wk.i
      /\ wk'.copy = wk.copy /\ wk'.fresh = wk.fresh
  BY DEF WorkerOK, Workers, Goto
<1> QED
  BY <1>1 DEF WorkerOK, Old

LEMMA NextClaimOK ==
    ASSUME WorkerOK, wk.pc \in Loops, NEW p \in Loops, NEW n \in Loops \cup Waits,
           wk' = NextClaim(p, n)
    PROVE  WorkerOK' /\ wk'.pc \in {p, n} /\ wk'.copy = wk.copy /\ wk'.fresh = wk.fresh
<1>1. Len(Old) \in Nat
  <2>1. wk.copy.reverts # <<>> /\ wk.copy.reverts \in Seq(Details)
    BY DEF WorkerOK, Workers, Reverts, Loops
  <2>2. Latest(wk.copy) \in Details
    BY <2>1 DEF Latest, Last
  <2> QED
    BY <2>2 DEF Old, Details
<1>2. wk.i \in Nat \ {0} /\ wk.i <= Len(Old) /\ wk \in Workers
  BY DEF WorkerOK, Workers
<1>3. p \in Calls /\ n \in Calls \cup Waits
  BY DEF Loops, Calls
<1>4. CASE wk.i < Len(Old)
  <2>1. wk' = [wk EXCEPT !.i = wk.i + 1, !.pc = p]
    BY <1>4 DEF NextClaim
  <2>2. wk.i + 1 \in Nat \ {0} /\ wk.i + 1 <= Len(Old)
    BY <1>1, <1>2, <1>4
  <2>3. /\ wk' \in Workers /\ wk'.pc = p /\ wk'.i = wk.i + 1
        /\ wk'.copy = wk.copy /\ wk'.fresh = wk.fresh
    BY <1>2, <1>3, <2>1, <2>2 DEF Workers
  <2> QED
    BY <2>2, <2>3 DEF WorkerOK, Old, Loops
<1>5. CASE ~(wk.i < Len(Old))
  <2>1. wk' = [wk EXCEPT !.i = 1, !.pc = n]
    BY <1>5 DEF NextClaim
  <2>2. 1 \in Nat \ {0} /\ 1 <= Len(Old)
    BY <1>1, <1>2
  <2>3. /\ wk' \in Workers /\ wk'.pc = n /\ wk'.i = 1
        /\ wk'.copy = wk.copy /\ wk'.fresh = wk.fresh
    BY <1>2, <1>3, <2>1, <2>2 DEF Workers
  <2> QED
    BY <2>2, <2>3 DEF WorkerOK, Old, Loops
<1> QED
  BY <1>4, <1>5

\* UpdatePV, DeletePVC and CreatePVC keep the types of what they write, and end.
LEMMA UpdatePVType ==
    ASSUME TypeOK, NEW v \in Vols, NEW obj \in CachedPvs, NEW w, NEW call,
           UpdatePV(call, v, obj, w)
    PROVE  pv' \in [Vols -> Pvs] /\ cpv' \in [Vols -> CachedPvs] /\ Ended(w)
<1> DEFINE stored == [live |-> TRUE, policy |-> obj.policy, ref |-> obj.ref]
           b == stored = pv[v] \/ "pv" \in Prompt
           cached == [obj EXCEPT !.new = b]
<1>1. stored \in Pvs
  BY DEF CachedPvs, Pvs
<1>2. b \in BOOLEAN
  OBVIOUS
<1> HIDE DEF b
<1>3. cached \in CachedPvs
  BY <1>2 DEF CachedPvs
<1>4. pv \in [Vols -> Pvs] /\ cpv \in [Vols -> CachedPvs]
  BY DEF TypeOK, ClusterTypeOK
<1>5. \/ pv' = [pv EXCEPT ![v] = stored] /\ cpv' = [cpv EXCEPT ![v] = cached] /\ Reply(call, w)
      \/ cpv' = [cpv EXCEPT ![v] = obj] /\ pv' = pv /\ (Refused \/ (Fault /\ Error))
  BY DEF UpdatePV, b
<1> HIDE DEF stored, cached
<1>6. Ended(w)
  BY <1>5, CallEnds
<1> QED
  BY <1>1, <1>3, <1>4, <1>5, <1>6

LEMMA DeletePVCType ==
    ASSUME TypeOK, NEW c \in Claims, NEW w, NEW call, DeletePVC(call, c, w)
    PROVE  /\ pvc' \in [Claims -> Pvcs] /\ cpvc' \in [Claims -> Pvcs]
           /\ pv' \in [Vols -> Pvs] /\ cpv' \in [Vols -> CachedPvs]
           /\ Ended(w)
<1> DEFINE f == [pvc EXCEPT ![c].dying = TRUE]
<1>1. ClusterTypeOK
  BY DEF TypeOK
<1>2. f \in [Claims -> Pvcs]
  <2>1. pvc \in [Claims -> Pvcs]
    BY <1>1 DEF ClusterTypeOK
  <2>2. [pvc[c] EXCEPT !.dying = TRUE] \in Pvcs
    BY <2>1 DEF Pvcs
  <2> QED
    BY <2>1, <2>2
<1>3. \/ wk' = w /\ UNCHANGED <<dirty, faults>>
      \/ Refused
      \/ Reply(call, w)
  BY DEF DeletePVC
<1>4. Ended(w)
  BY <1>3, CallEnds
<1>5. \/ UNCHANGED <<pvcVars, pvVars>>
      \/ SetPvc(f) /\ UNCHANGED pvVars
      \/ Release(c)
  BY DEF DeletePVC
<1> HIDE DEF f
<1>6. CASE UNCHANGED <<pvcVars, pvVars>>
  BY <1>1, <1>4, <1>6 DEF pvcVars, pvVars, ClusterTypeOK
<1>7. CASE SetPvc(f) /\ UNCHANGED pvVars
  BY <1>1, <1>2, <1>4, <1>7, SetPvcType DEF pvVars, ClusterTypeOK
<1>8. CASE Release(c)
  BY <1>1, <1>4, <1>8, ReleaseType
<1> QED
  BY <1>5, <1>6, <1>7, <1>8

LEMMA CreatePVCType ==
    ASSUME TypeOK, NEW c \in Claims, NEW p \in Pvcs, NEW w, NEW call, CreatePVC(call, c, p, w)
    PROVE  /\ pvc' \in [Claims -> Pvcs] /\ cpvc' \in [Claims -> Pvcs]
           /\ Ended(w)
<1>1. ClusterTypeOK
  BY DEF TypeOK
<1>2. [pvc EXCEPT ![c] = p] \in [Claims -> Pvcs]
  BY <1>1 DEF ClusterTypeOK
<1>3. Refused \/ Reply(call, w)
  BY DEF CreatePVC
<1>4. Ended(w)
  BY <1>3, CallEnds
<1>5. CASE UNCHANGED pvcVars
  BY <1>1, <1>4, <1>5 DEF pvcVars, ClusterTypeOK
<1>6. CASE SetPvc([pvc EXCEPT ![c] = p])
  BY <1>1, <1>2, <1>4, <1>6, SetPvcType
<1> QED
  BY <1>5, <1>6 DEF CreatePVC

\* The recorded claim the worker is at.
LEMMA CurType ==
    ASSUME TypeOK, wk.pc \in Loops
    PROVE  Cur \in Recorded
<1>1. wk.copy.reverts # <<>> /\ wk.copy.reverts \in Seq(Details)
  BY DEF TypeOK, WorkerOK, Workers, Reverts, Loops
<1>2. Latest(wk.copy) \in Details
  BY <1>1 DEF Latest, Last
<1>3. Old \in Seq(Recorded)
  BY <1>2 DEF Old, Details
<1>4. wk.i \in 1..Len(Old)
  BY <1>3 DEF TypeOK, WorkerOK, Workers
<1> QED
  BY <1>3, <1>4 DEF Cur

\* The steps that swap claims.
SwapStep == Fix \/ Delete \/ Avail \/ Create \/ UndoDelete \/ UndoCreate

\* What such a step leaves: either the attempt is over, or the worker is still
\* swapping or waiting for the last claim, with the same copy of the resource.
GoesOn ==
    \/ wk' = IdleWk
    \/ wk'.pc \in Swapping /\ wk'.copy = wk.copy /\ wk'.fresh = wk.fresh

LEMMA EndedOK ==
    ASSUME TypeOK, wk.pc \in Loops, NEW w, Ended(w),
           \/ \E p \in Loops : (w = Goto(p))
           \/ \E p \in Loops, n \in Loops \cup (Waits \cap Swapping) : w = NextClaim(p, n)
    PROVE  GoesOn /\ WorkerOK' /\ dirty' \in BOOLEAN /\ faults' \in 0..MaxFaults
<1>1. CASE wk' = IdleWk
  BY <1>1, IdleOK DEF Ended, GoesOn
<1>2. ASSUME NEW p \in Loops, wk' = Goto(p)
      PROVE  GoesOn /\ WorkerOK'
  <2>1. p \in Calls /\ wk.pc \notin {"idle", "put"}
    BY DEF Loops, Calls
  <2> QED
    BY <1>2, <2>1, GotoOK DEF GoesOn, Swapping, TypeOK
<1>3. ASSUME NEW p \in Loops, NEW n \in Loops \cup (Waits \cap Swapping), wk' = NextClaim(p, n)
      PROVE  GoesOn /\ WorkerOK'
  BY <1>3, NextClaimOK DEF GoesOn, Swapping, TypeOK
<1> QED
  BY <1>1, <1>2, <1>3 DEF Ended

LEMMA SwapSteps ==
    ASSUME TypeOK, SwapStep
    PROVE  /\ wk.pc \in Loops /\ GoesOn
           /\ ClusterTypeOK' /\ WorkerOK' /\ dirty' \in BOOLEAN /\ faults' \in 0..MaxFaults
           /\ UNCHANGED <<revVars, appVars, requests>>
<1> DEFINE Goal == /\ GoesOn
                   /\ ClusterTypeOK' /\ WorkerOK' /\ dirty' \in BOOLEAN /\ faults' \in 0..MaxFaults
                   /\ UNCHANGED <<revVars, appVars, requests>>
<1>1. wk.pc \in Loops
  BY DEF SwapStep, Fix, Delete, Avail, Create, UndoDelete, UndoCreate, Loops
<1>2. ClusterTypeOK /\ Cur.claim \in Claims /\ Cur.vol \in Vols \cup {NoVol}
  BY <1>1, CurType DEF TypeOK, Recorded
<1>3. \A v \in Vols : cpv[v] \in CachedPvs
  BY <1>2 DEF ClusterTypeOK
<1>4. ~NoPv(Cur.vol) => Cur.vol \in Vols
  BY DEF NoPv
<1>5. /\ {"fix", "delete", "avail", "create", "undoDelete", "undoCreate"} \subseteq Loops
      /\ {"bindWait", "undoWait"} \subseteq Loops \cup (Waits \cap Swapping)
  BY DEF Loops, Waits, Swapping
<1>6. ASSUME Fix PROVE Goal
  <2>1. UNCHANGED <<revVars, appVars, pvcVars, disk, snaps, requests>>
    BY <1>6 DEF Fix
  <2>2. CASE NoPv(Cur.vol)
    <3>1. Refused /\ UNCHANGED pvVars
      BY <1>6, <2>2 DEF Fix
    <3>2. Ended(Goto("delete"))
      BY <3>1, CallEnds
    <3> QED
      BY <1>1, <1>2, <1>5, <2>1, <3>1, <3>2, EndedOK DEF ClusterTypeOK, appVars, pvcVars, pvVars
  <2>3. CASE ~NoPv(Cur.vol) /\ Retained(Cur.vol)
    <3>1. wk' = Goto("delete") /\ UNCHANGED <<dirty, faults, pvVars>>
      BY <1>6, <2>3 DEF Fix
    <3>2. Ended(Goto("delete"))
      BY <3>1, CallEnds
    <3> QED
      BY <1>1, <1>2, <1>5, <2>1, <3>1, <3>2, EndedOK DEF ClusterTypeOK, appVars, pvcVars, pvVars
  <2>4. CASE ~NoPv(Cur.vol) /\ ~Retained(Cur.vol)
    <3> DEFINE obj == [cpv[Cur.vol] EXCEPT !.policy = "Retain"]
    <3>1. obj \in CachedPvs
      BY <1>3, <1>4, <2>4 DEF CachedPvs
    <3>2. UpdatePV("fix", Cur.vol, obj, Goto("delete"))
      BY <1>6, <2>4 DEF Fix
    <3> HIDE DEF obj
    <3>3. /\ pv' \in [Vols -> Pvs] /\ cpv' \in [Vols -> CachedPvs]
          /\ Ended(Goto("delete"))
      BY <1>4, <2>4, <3>1, <3>2, UpdatePVType
    <3> QED
      BY <1>1, <1>2, <1>5, <2>1, <3>3, EndedOK DEF ClusterTypeOK, appVars, pvcVars
  <2> QED
    BY <2>2, <2>3, <2>4
<1>7. ASSUME Delete PROVE Goal
  <2>1. DeletePVC("delete", Cur.claim, Goto("avail"))
        /\ UNCHANGED <<revVars, appVars, disk, snaps, requests>>
    BY <1>7 DEF Delete
  <2>2. /\ pvc' \in [Claims -> Pvcs] /\ cpvc' \in [Claims -> Pvcs]
        /\ pv' \in [Vols -> Pvs] /\ cpv' \in [Vols -> CachedPvs]
        /\ Ended(Goto("avail"))
    BY <1>2, <2>1, DeletePVCType
  <2> QED
    BY <1>1, <1>2, <1>5, <2>1, <2>2, EndedOK DEF ClusterTypeOK, appVars
<1>8. ASSUME Avail PROVE Goal
  <2> DEFINE w == NextClaim("fix", "create")
  <2>1. UNCHANGED <<revVars, appVars, pvcVars, disk, snaps, requests>>
    BY <1>8 DEF Avail
  <2>2. CASE NoPv(Cur.vol)
    <3>1. Refused /\ UNCHANGED pvVars
      BY <1>8, <2>2 DEF Avail
    <3>2. Ended(w)
      BY <3>1, CallEnds
    <3> QED
      BY <1>1, <1>2, <1>5, <2>1, <3>1, <3>2, EndedOK DEF ClusterTypeOK, appVars, pvcVars, pvVars
  <2>3. CASE ~NoPv(Cur.vol)
    <3>1. Freed(cpv[Cur.vol]) \in CachedPvs
      BY <1>3, <1>4, <2>3 DEF CachedPvs, Freed
    <3>2. UpdatePV("avail", Cur.vol, Freed(cpv[Cur.vol]), w)
      BY <1>8, <2>3 DEF Avail
    <3>3. /\ pv' \in [Vols -> Pvs] /\ cpv' \in [Vols -> CachedPvs]
          /\ Ended(w)
      BY <1>4, <2>3, <3>1, <3>2, UpdatePVType
    <3> QED
      BY <1>1, <1>2, <1>5, <2>1, <3>3, EndedOK DEF ClusterTypeOK, appVars, pvcVars
  <2> QED
    BY <2>2, <2>3
<1>9. ASSUME Create PROVE Goal
  <2> DEFINE w == NextClaim("create", "bindWait")
             p == AttachSnapshot(wk.sel[Cur.claim])
  <2>1. p \in Pvcs
    <3>1. wk.sel[Cur.claim] \in 0..MaxSnaps
      BY <1>2 DEF TypeOK, WorkerOK, Workers
    <3> QED
      BY <3>1, NoPvcType DEF AttachSnapshot, Pvcs
  <2>2. CreatePVC("create", Cur.claim, p, w)
        /\ UNCHANGED <<revVars, appVars, pvVars, disk, snaps, requests>>
    BY <1>9 DEF Create
  <2> HIDE DEF p
  <2>3. pvc' \in [Claims -> Pvcs] /\ cpvc' \in [Claims -> Pvcs] /\ Ended(w)
    BY <1>2, <2>1, <2>2, CreatePVCType
  <2> QED
    BY <1>1, <1>2, <1>5, <2>2, <2>3, EndedOK DEF ClusterTypeOK, appVars, pvVars
<1>10. ASSUME UndoDelete PROVE Goal
  <2> DEFINE w == NextClaim("undoDelete", "undoCreate")
  <2>1. DeletePVC("undoDelete", Cur.claim, w)
        /\ UNCHANGED <<revVars, appVars, disk, snaps, requests>>
    BY <1>10 DEF UndoDelete
  <2>2. /\ pvc' \in [Claims -> Pvcs] /\ cpvc' \in [Claims -> Pvcs]
        /\ pv' \in [Vols -> Pvs] /\ cpv' \in [Vols -> CachedPvs]
        /\ Ended(w)
    BY <1>2, <2>1, DeletePVCType
  <2> QED
    BY <1>1, <1>2, <1>5, <2>1, <2>2, EndedOK DEF ClusterTypeOK, appVars
<1>11. ASSUME UndoCreate PROVE Goal
  <2> DEFINE w == NextClaim("undoCreate", "undoWait")
  <2>1. Undo(Cur.vol) \in Pvcs
    BY <1>2, NoPvcType DEF Undo, Pvcs
  <2>2. CreatePVC("undoCreate", Cur.claim, Undo(Cur.vol), w)
        /\ UNCHANGED <<revVars, appVars, pvVars, disk, snaps, requests>>
    BY <1>11 DEF UndoCreate
  <2>3. pvc' \in [Claims -> Pvcs] /\ cpvc' \in [Claims -> Pvcs] /\ Ended(w)
    BY <1>2, <2>1, <2>2, CreatePVCType
  <2> QED
    BY <1>1, <1>2, <1>5, <2>2, <2>3, EndedOK DEF ClusterTypeOK, appVars, pvVars
<1> QED
  BY <1>1, <1>6, <1>7, <1>8, <1>9, <1>10, <1>11 DEF SwapStep

----------------------------------------------------------------------------
(* Types: the start of an attempt *)

\* A state names an entry: a resource that has a state has a history.
LEMMA HasEntry ==
    ASSUME NEW r \in Reverts, StateOf(r) # "none"
    PROVE  r.reverts # <<>> /\ Latest(r) \in Details
<1>1. r.reverts # <<>> /\ r.reverts \in Seq(Details)
  BY DEF StateOf, Reverts
<1> QED
  BY <1>1 DEF Latest, Last

LEMMA AttemptOK ==
    ASSUME TypeOK, NEW p \in Calls \cup Waits, p # "put", StateOf(crev) # "none",
           p \in Loops => Latest(crev).old # <<>>,
           NEW s \in [Claims -> 0..MaxSnaps], NEW n \in {0, Replicas},
           wk' = [Attempt(p, crev) EXCEPT !.sel = s, !.seen = n]
    PROVE  WorkerOK' /\ wk'.pc = p /\ wk'.copy = crev /\ wk'.fresh = crevNew
<1>1. crev \in Reverts /\ crevNew \in BOOLEAN
  BY DEF TypeOK
<1>2. IdleWk \in Workers /\ IdleWk.i = 1
  BY <1>1, ToPutTypes DEF IdleWk
<1>3. wk' \in Workers /\ wk'.pc = p /\ wk'.copy = crev /\ wk'.fresh = crevNew /\ wk'.i = 1
  BY <1>1, <1>2 DEF Attempt, Workers
<1>4. crev.reverts # <<>> /\ Latest(crev) \in Details
  BY <1>1, HasEntry
<1>5. p \in Loops => 1 <= Len(Latest(crev).old)
  BY <1>4 DEF Details
<1> QED
  BY <1>3, <1>4, <1>5 DEF WorkerOK, Old

\* The replicas of the cache may be read, and the snapshots picked: both have
\* the types of the worker's fields for them.
LEMMA AttemptFields ==
    ASSUME TypeOK, NEW p
    PROVE  /\ Attempt(p, crev) = [Attempt(p, crev) EXCEPT !.sel = IdleWk.sel, !.seen = IdleWk.seen]
           /\ [Attempt(p, crev) EXCEPT !.sel = snaps]
                = [Attempt(p, crev) EXCEPT !.sel = snaps, !.seen = IdleWk.seen]
           /\ [Attempt(p, crev) EXCEPT !.seen = csts]
                = [Attempt(p, crev) EXCEPT !.sel = IdleWk.sel, !.seen = csts]
           /\ IdleWk.sel \in [Claims -> 0..MaxSnaps] /\ IdleWk.seen \in {0, Replicas}
           /\ snaps \in [Claims -> 0..MaxSnaps] /\ csts \in {0, Replicas}
<1>1. IdleWk.sel \in [Claims -> 0..MaxSnaps] /\ IdleWk.seen \in {0, Replicas}
  BY ClusterAssumption DEF IdleWk
<1>2. snaps \in [Claims -> 0..MaxSnaps] /\ csts \in {0, Replicas}
  BY DEF TypeOK, ClusterTypeOK
<1> QED
  BY <1>1, <1>2 DEF Attempt, IdleWk

LEMMA StartNothingOK ==
    ASSUME TypeOK, StartNothing
    PROVE  WorkerOK' /\ wk'.pc = "put" /\ wk'.copy = crev /\ wk'.fresh = crevNew
<1>1. wk' = ToPut(crev, crevNew) /\ crev \in Reverts /\ crevNew \in BOOLEAN
  BY DEF StartNothing, Start, TypeOK
<1> QED
  BY <1>1, ToPutTypes DEF WorkerOK, Loops

LEMMA StartPauseOK ==
    ASSUME TypeOK, StartPause
    PROVE  /\ WorkerOK' /\ wk'.copy = crev /\ wk'.fresh = crevNew
           /\ wk'.pc \in {"pause", "pauseWait"} /\ (csts # 0 => wk'.pc = "pause")
           /\ StateOf(crev) \in {"init", "finished"}
<1> DEFINE p == IF csts # 0 THEN "pause" ELSE "pauseWait"
<1>1. wk' = Attempt(p, crev) /\ StateOf(crev) \in {"init", "finished"}
  BY DEF StartPause, Start
<1>2. /\ p \in Calls \cup Waits /\ p # "put" /\ p \notin Loops
      /\ StateOf(crev) # "none"
  BY <1>1 DEF Calls, Waits, Loops
<1> HIDE DEF p
<1>3. wk' = [Attempt(p, crev) EXCEPT !.sel = IdleWk.sel, !.seen = IdleWk.seen]
  BY <1>1, AttemptFields
<1>4. IdleWk.sel \in [Claims -> 0..MaxSnaps] /\ IdleWk.seen \in {0, Replicas}
  BY AttemptFields
<1>5. WorkerOK' /\ wk'.pc = p /\ wk'.copy = crev /\ wk'.fresh = crevNew
  BY <1>2, <1>3, <1>4, AttemptOK
<1> QED
  BY <1>1, <1>5 DEF p

LEMMA StartSwapOK ==
    ASSUME TypeOK, StartRevert \/ StartUndo
    PROVE  /\ WorkerOK' /\ wk'.copy = crev /\ wk'.fresh = crevNew
           /\ wk'.pc \in Swapping /\ StateOf(crev) = "paused"
<1>1. StateOf(crev) = "paused"
  BY DEF StartRevert, StartUndo, Swaps
<1>2. ASSUME StartRevert
      PROVE  WorkerOK' /\ wk'.copy = crev /\ wk'.fresh = crevNew /\ wk'.pc \in Swapping
  <2> DEFINE p == IF Latest(crev).old = <<>> THEN "bindWait" ELSE "fix"
  <2>1. wk' = [Attempt(p, crev) EXCEPT !.sel = snaps]
    BY <1>2 DEF StartRevert, Start
  <2>2. /\ p \in Calls \cup Waits /\ p # "put" /\ p \in Swapping
        /\ p \in Loops => Latest(crev).old # <<>>
    BY DEF Calls, Waits, Loops, Swapping
  <2> HIDE DEF p
  <2> QED
    <3>1. wk' = [Attempt(p, crev) EXCEPT !.sel = snaps, !.seen = IdleWk.seen]
      BY <2>1, AttemptFields
    <3>2. snaps \in [Claims -> 0..MaxSnaps] /\ IdleWk.seen \in {0, Replicas}
      BY AttemptFields
    <3> QED
      BY <1>1, <2>2, <3>1, <3>2, AttemptOK
<1>3. ASSUME StartUndo
      PROVE  WorkerOK' /\ wk'.copy = crev /\ wk'.fresh = crevNew /\ wk'.pc \in Swapping
  <2> DEFINE p == IF Latest(crev).old = <<>> THEN "undoWait" ELSE "undoDelete"
  <2>1. wk' = Attempt(p, crev)
    BY <1>3 DEF StartUndo, Start
  <2>2. /\ p \in Calls \cup Waits /\ p # "put" /\ p \in Swapping
        /\ p \in Loops => Latest(crev).old # <<>>
    BY DEF Calls, Waits, Loops, Swapping
  <2> HIDE DEF p
  <2> QED
    <3>1. wk' = [Attempt(p, crev) EXCEPT !.sel = IdleWk.sel, !.seen = IdleWk.seen]
      BY <2>1, AttemptFields
    <3>2. IdleWk.sel \in [Claims -> 0..MaxSnaps] /\ IdleWk.seen \in {0, Replicas}
      BY AttemptFields
    <3> QED
      BY <1>1, <2>2, <3>1, <3>2, AttemptOK
<1> QED
  BY <1>1, <1>2, <1>3

LEMMA StartUnpauseOK ==
    ASSUME TypeOK, StartUnpause
    PROVE  /\ WorkerOK' /\ wk'.copy = crev /\ wk'.fresh = crevNew
           /\ wk'.pc = "unpause" /\ StateOf(crev) \in Settled
<1>1. wk' = [Attempt("unpause", crev) EXCEPT !.seen = csts] /\ StateOf(crev) \in Settled
  BY DEF StartUnpause, Start, Settled
<1>2. /\ "unpause" \in Calls \cup Waits /\ "unpause" \notin Loops /\ "unpause" # "put"
      /\ StateOf(crev) # "none"
  BY <1>1 DEF Calls, Loops, Settled
<1>3. wk' = [Attempt("unpause", crev) EXCEPT !.sel = IdleWk.sel, !.seen = csts]
  BY <1>1, AttemptFields
<1>4. IdleWk.sel \in [Claims -> 0..MaxSnaps] /\ csts \in {0, Replicas}
  BY AttemptFields
<1> QED
  BY <1>1, <1>2, <1>3, <1>4, AttemptOK

\* init adds one entry, "init", after those the resource has.
LEMMA StartInitOK ==
    ASSUME TypeOK, StartInit
    PROVE  /\ WorkerOK' /\ wk'.pc = "put" /\ wk'.fresh = crevNew /\ StateOf(wk'.copy) = "init"
           /\ wk'.copy.action = crev.action /\ Fits(wk'.copy.reverts)
           /\ \A j \in 1..(Len(wk'.copy.reverts) - 1) :
                \E k \in 1..Len(crev.reverts) : wk'.copy.reverts[j] = crev.reverts[k]
<1> DEFINE Recording(order) ==
             [i \in DOMAIN order |-> [claim |-> order[i], vol |-> cpvc[order[i]].vol]]
<1>1. PICK order \in SetToSeqs(CachedClaims) :
        wk' = ToPut([crev EXCEPT !.reverts = Trim(Append(@,
                       [state |-> "init", replicas |-> csts, old |-> Recording(order)]))], crevNew)
  BY DEF StartInit, Start
<1>2. Recording(order) \in Seq(Recorded)
  <2> DEFINE n == Cardinality(CachedClaims)
  <2>1. CachedClaims \subseteq Claims /\ IsFiniteSet(CachedClaims)
    BY ClusterAssumption, FS_Subset DEF CachedClaims
  <2>2. n \in Nat
    BY <2>1, FS_CardinalityType
  <2>3. order \in [1..n -> Claims]
    BY <2>1 DEF SetToSeqs
  <2>4. \A i \in 1..n : [claim |-> order[i], vol |-> cpvc[order[i]].vol] \in Recorded
    BY <2>3 DEF TypeOK, ClusterTypeOK, Pvcs, Recorded
  <2>5. Recording(order) \in [1..n -> Recorded]
    BY <2>3, <2>4
  <2> QED
    BY <2>2, <2>5
<1> DEFINE d == [state |-> "init", replicas |-> csts, old |-> Recording(order)]
           h == Append(crev.reverts, d)
           copy == [crev EXCEPT !.reverts = Trim(h)]
<1> HIDE DEF Recording
<1>3. d \in Details /\ d.state = "init"
  BY <1>2 DEF Details, States, TypeOK, ClusterTypeOK
<1>4. crev.reverts \in Seq(Details) /\ crev \in Reverts /\ crevNew \in BOOLEAN
  BY DEF TypeOK, Reverts
<1>5. wk' = ToPut(copy, crevNew)
  BY <1>1
<1> HIDE DEF d
<1>6. /\ h \in Seq(Details) /\ h # <<>> /\ Last(h) = d /\ Len(h) = Len(crev.reverts) + 1
      /\ \A k \in 1..Len(crev.reverts) : h[k] = crev.reverts[k]
  BY <1>3, <1>4 DEF Last
<1> HIDE DEF h
<1>7. /\ Trim(h) \in Seq(Details) /\ Trim(h) # <<>> /\ Last(Trim(h)) = d /\ Fits(Trim(h))
      /\ \A j \in 1..(Len(Trim(h)) - 1) : \E k \in 1..(Len(h) - 1) : Trim(h)[j] = h[k]
  <2>1. /\ Trim(h) \in Seq(Details) /\ (Trim(h) = <<>> <=> h = <<>>)
        /\ h # <<>> => Last(Trim(h)) = Last(h)
        /\ Fits(Trim(h))
        /\ \A j \in 1..(Len(Trim(h)) - 1) : \E k \in 1..(Len(h) - 1) : Trim(h)[j] = h[k]
    <3>1. h \in Seq(Details)
      BY <1>6
    <3> QED
      BY <3>1, TrimKeepsLast
  <2> QED
    BY <1>6, <2>1
<1>8. copy \in Reverts /\ copy.reverts = Trim(h) /\ copy.action = crev.action
  BY <1>4, <1>7 DEF Reverts
<1>9. StateOf(copy) = "init"
  BY <1>3, <1>7, <1>8 DEF StateOf, Latest
<1>10. \A j \in 1..(Len(copy.reverts) - 1) :
         \E k \in 1..Len(crev.reverts) : copy.reverts[j] = crev.reverts[k]
  <2>1. Len(h) - 1 = Len(crev.reverts)
    BY <1>4, <1>6
  <2> QED
    BY <1>6, <1>7, <1>8, <2>1
<1> HIDE DEF copy
<1>11. wk' \in Workers /\ wk'.pc = "put" /\ wk'.copy = copy /\ wk'.fresh = crevNew
  BY <1>4, <1>5, <1>8, ToPutTypes
<1>12. wk'.copy.action = crev.action /\ Fits(wk'.copy.reverts)
  BY <1>7, <1>8, <1>11
<1> QED
  BY <1>9, <1>10, <1>11, <1>12 DEF WorkerOK, Loops

----------------------------------------------------------------------------
(* Types: pause, unpause and the ends of the waits *)

\* The copy of a worker that is between the start and the put of an attempt.
LEMMA CopyType ==
    ASSUME TypeOK, wk.pc \notin {"idle", "put"}
    PROVE  wk.copy \in Reverts /\ wk.copy.reverts # <<>> /\ Latest(wk.copy) \in Details
<1>1. wk.copy \in Reverts /\ wk.copy.reverts # <<>> /\ wk.copy.reverts \in Seq(Details)
  BY DEF TypeOK, WorkerOK, Workers, Reverts
<1> QED
  BY <1>1 DEF Latest, Last

LEMMA PauseOK ==
    ASSUME TypeOK, Pause
    PROVE  /\ ClusterTypeOK' /\ WorkerOK' /\ dirty' \in BOOLEAN /\ faults' \in 0..MaxFaults
           /\ replicas' = 0 /\ wk.pc = "pause"
           /\ \/ wk' = IdleWk
              \/ wk'.pc = "pauseWait" /\ wk'.copy = wk.copy /\ wk'.fresh = wk.fresh
<1>1. replicas' = 0 /\ wk.pc = "pause" /\ ClusterTypeOK
  BY DEF Pause, SetReplicas, TypeOK
<1>2. replicas' \in {0, Replicas} /\ csts' \in {0, Replicas}
  BY <1>1, SetReplicasType DEF Pause
<1>3. ClusterTypeOK'
  BY <1>1, <1>2 DEF Pause, ClusterTypeOK, pvcVars, pvVars
<1>4. Ended(Goto("pauseWait"))
  BY CallEnds DEF Pause
<1>5. CASE wk' = IdleWk
  BY <1>1, <1>3, <1>4, <1>5, IdleOK DEF Ended
<1>6. CASE wk' = Goto("pauseWait")
  <2>1. "pauseWait" \in Calls \cup Waits /\ "pauseWait" \notin Loops
    BY DEF Waits, Loops
  <2> QED
    BY <1>1, <1>3, <1>4, <1>6, <2>1, GotoOK DEF Ended, TypeOK
<1> QED
  BY <1>4, <1>5, <1>6 DEF Ended

LEMMA UnpauseOK ==
    ASSUME TypeOK, Unpause
    PROVE  /\ ClusterTypeOK' /\ WorkerOK' /\ faults' \in 0..MaxFaults
           /\ wk.pc = "unpause" /\ wk'.pc = "readyWait"
           /\ wk'.copy = wk.copy /\ wk'.fresh = wk.fresh
<1>1. wk.pc = "unpause" /\ wk' = Goto("readyWait") /\ ClusterTypeOK
  BY DEF Unpause, TypeOK
<1>2. faults' \in 0..MaxFaults
  <2>1. faults \in 0..MaxFaults /\ MaxFaults \in Nat
    BY RevertsAssumption DEF TypeOK
  <2> QED
    BY <2>1 DEF Unpause, Fault
<1>3. Target \in {0, Replicas}
  BY <1>1, CopyType DEF Target, Details
<1>4. replicas' \in {0, Replicas} /\ csts' \in {0, Replicas}
  BY <1>1, <1>3, SetReplicasType DEF Unpause, ClusterTypeOK
<1>5. ClusterTypeOK'
  BY <1>1, <1>4 DEF Unpause, ClusterTypeOK, pvcVars, pvVars
<1>6. "readyWait" \in Calls \cup Waits /\ "readyWait" \notin Loops
  BY DEF Waits, Loops
<1> QED
  BY <1>1, <1>2, <1>5, <1>6, GotoOK DEF TypeOK

\* A wait that ends in state s: the resource to put is in that state, and its
\* earlier entries are earlier entries of the copy.
LEMMA FinishState ==
    ASSUME TypeOK, wk.pc \notin {"idle", "put"}, NEW s \in States, Finish(WithState(wk.copy, s))
    PROVE  /\ WorkerOK' /\ wk'.pc = "put" /\ wk'.fresh = wk.fresh /\ StateOf(wk'.copy) = s
           /\ Fits(wk.copy.reverts) => Fits(wk'.copy.reverts) /\ wk'.copy.action = wk.copy.action
           /\ \A j \in 1..(Len(wk'.copy.reverts) - 1) :
                \E k \in 1..(Len(wk.copy.reverts) - 1) : wk'.copy.reverts[j] = wk.copy.reverts[k]
<1> DEFINE q == WithState(wk.copy, s)
<1>1. wk \in Workers /\ wk.copy \in Reverts /\ wk.copy.reverts # <<>>
  BY CopyType DEF TypeOK, WorkerOK
<1>2. /\ q \in Reverts /\ Len(q.reverts) = Len(wk.copy.reverts) /\ StateOf(q) = s
      /\ q.action = wk.copy.action
      /\ \A j \in 1..(Len(wk.copy.reverts) - 1) : q.reverts[j] = wk.copy.reverts[j]
  BY <1>1, StateChange
<1>3. Finish(q)
  OBVIOUS
<1> HIDE DEF q
<1>4. /\ wk' \in Workers /\ wk'.pc = "put" /\ wk'.fresh = wk.fresh
      /\ StateOf(wk'.copy) = StateOf(q) /\ (Fits(q.reverts) => wk'.copy = q)
      /\ \A j \in 1..(Len(wk'.copy.reverts) - 1) :
           \E k \in 1..(Len(q.reverts) - 1) : wk'.copy.reverts[j] = q.reverts[k]
  BY <1>1, <1>2, <1>3, FinishPuts
<1>5. WorkerOK'
  BY <1>4 DEF WorkerOK, Loops
<1>6. Fits(wk.copy.reverts) => Fits(wk'.copy.reverts) /\ wk'.copy.action = wk.copy.action
  BY <1>2, <1>4 DEF Fits
<1> QED
  BY <1>2, <1>4, <1>5, <1>6

\* The end of unpause: finished, or, for an undo, the entry before, if any.
LEMMA UnpausedOK ==
    ASSUME TypeOK, Unpaused
    PROVE  /\ WorkerOK' /\ wk.pc = "readyWait" /\ wk'.pc = "put" /\ wk'.fresh = wk.fresh
           /\ \A j \in 1..(Len(wk'.copy.reverts) - 1) :
                \E k \in 1..(Len(wk.copy.reverts) - 1) : wk'.copy.reverts[j] = wk.copy.reverts[k]
           /\ \/ StateOf(wk'.copy) \in {"finished", "none"}
              \/ \E k \in 1..(Len(wk.copy.reverts) - 1) : StateOf(wk'.copy) = wk.copy.reverts[k].state
<1> DEFINE q == WithState(wk.copy, "finished")
           done == [q EXCEPT !.action = "idle"]
           n == Len(wk.copy.reverts)
           Earlier(r) == /\ r \in Reverts
                         /\ \A j \in 1..(Len(r.reverts) - 1) :
                              \E k \in 1..(n - 1) : r.reverts[j] = wk.copy.reverts[k]
                         /\ \/ StateOf(r) \in {"finished", "none"}
                            \/ \E k \in 1..(n - 1) : StateOf(r) = wk.copy.reverts[k].state
           res == IF wk.copy.action = "undo" THEN [done EXCEPT !.reverts = Front(@)] ELSE done
<1>1. wk.pc = "readyWait" /\ Finish(res)
  BY DEF Unpaused
<1>2. wk \in Workers /\ wk.copy \in Reverts /\ wk.copy.reverts # <<>>
  BY <1>1, CopyType DEF TypeOK, WorkerOK
<1>3. /\ q \in Reverts /\ Len(q.reverts) = n /\ q.reverts # <<>> /\ StateOf(q) = "finished"
      /\ \A j \in 1..(n - 1) : q.reverts[j] = wk.copy.reverts[j]
  BY <1>2, StateChange DEF States
<1> HIDE DEF q
<1>4. done \in Reverts /\ done.reverts = q.reverts
  BY <1>3 DEF Reverts
<1>5. StateOf(done) = "finished"
  BY <1>3, <1>4 DEF StateOf, Latest
<1>6. Earlier(done)
  BY <1>3, <1>4, <1>5
<1> HIDE DEF done
<1>7. n \in Nat \ {0}
  BY <1>2 DEF Reverts
<1> HIDE DEF n
<1>8. Earlier([done EXCEPT !.reverts = Front(@)])
  <2> DEFINE f == Front(done.reverts)
             r == [done EXCEPT !.reverts = f]
  <2>1. done.reverts \in Seq(Details) /\ Len(done.reverts) = n
    BY <1>3, <1>4 DEF Reverts
  <2>2. f \in Seq(Details) /\ Len(f) = n - 1 /\ \A j \in 1..(n - 1) : f[j] = done.reverts[j]
    BY <1>7, <2>1 DEF Front
  <2> HIDE DEF f
  <2>3. r \in Reverts /\ r.reverts = f
    BY <1>4, <2>2 DEF Reverts
  <2> HIDE DEF r
  <2>4. \A j \in 1..(n - 1) : r.reverts[j] = wk.copy.reverts[j]
    BY <1>3, <1>4, <2>2, <2>3
  <2>5. CASE n - 1 = 0
    <3>1. r.reverts = <<>>
      BY <2>2, <2>3, <2>5, EmptySeq
    <3> QED
      BY <2>2, <2>3, <2>5, <3>1 DEF r, f, StateOf
  <2>6. CASE n - 1 # 0
    <3>1. n - 1 \in 1..(n - 1) /\ r.reverts # <<>>
      BY <1>7, <2>2, <2>3, <2>6, EmptySeq
    <3>2. StateOf(r) = wk.copy.reverts[n - 1].state
      BY <2>2, <2>3, <2>4, <3>1 DEF StateOf, Latest, Last
    <3>3. \A j \in 1..(Len(r.reverts) - 1) : j \in 1..(n - 1)
      BY <1>7, <2>2, <2>3
    <3>4. Earlier(r)
      BY <2>3, <2>4, <3>1, <3>2, <3>3
    <3> QED
      BY <3>4 DEF r, f
  <2> QED
    BY <2>5, <2>6
<1>9. Earlier(res)
  BY <1>6, <1>8
<1> HIDE DEF res
<1>10. /\ wk' \in Workers /\ wk'.pc = "put" /\ wk'.fresh = wk.fresh
       /\ StateOf(wk'.copy) = StateOf(res)
       /\ \A j \in 1..(Len(wk'.copy.reverts) - 1) :
            \E k \in 1..(Len(res.reverts) - 1) : wk'.copy.reverts[j] = res.reverts[k]
  BY <1>1, <1>2, <1>9, FinishPuts
<1>11. WorkerOK'
  BY <1>10 DEF WorkerOK, Loops
<1> QED
  BY <1>1, <1>9, <1>10, <1>11 DEF n

\* What the put of the resource does to its versions.
LEMMA PutOK ==
    ASSUME TypeOK, Put
    PROVE  /\ wk.pc = "put" /\ wk' = IdleWk /\ WorkerOK'
           /\ dirty' \in BOOLEAN /\ faults' \in 0..MaxFaults
           /\ UNCHANGED <<clusterVars, requests>>
           /\ \/ UNCHANGED revVars
              \/ /\ wk.fresh /\ rev' = wk.copy
                 /\ \/ crev' = wk.copy /\ crevNew' = crevNew
                    \/ crev' = crev /\ crevNew' = FALSE
                    \/ crev' = crev /\ crevNew' = crevNew /\ rev' = rev
           /\ rev' \in Reverts /\ crev' \in Reverts /\ crevNew' \in BOOLEAN
<1> DEFINE told == wk.copy # rev /\ "revert" \in Prompt
<1>1. /\ wk.copy \in Reverts /\ rev \in Reverts /\ crev \in Reverts /\ crevNew \in BOOLEAN
      /\ dirty \in BOOLEAN /\ faults \in 0..MaxFaults /\ MaxFaults \in Nat
      /\ told \in BOOLEAN
  BY RevertsAssumption DEF TypeOK, WorkerOK, Workers
<1>2. Fault => faults' \in 0..MaxFaults
  BY <1>1 DEF Fault
<1>3. wk.pc = "put" /\ wk' = IdleWk /\ UNCHANGED <<clusterVars, requests>>
  BY DEF Put, Refused, Error
<1>4. WorkerOK'
  BY <1>3, IdleOK
<1>5. CASE Accepted
  <2>1. /\ rev' = wk.copy
        /\ crev' = IF told THEN wk.copy ELSE crev
        /\ crevNew' = (crevNew /\ (told \/ wk.copy = rev))
        /\ \/ dirty' = (dirty \/ told) /\ UNCHANGED faults
           \/ Fault /\ dirty' = TRUE
    BY <1>5 DEF Put
  <2> HIDE DEF told
  <2>2. dirty' \in BOOLEAN /\ faults' \in 0..MaxFaults /\ crevNew' \in BOOLEAN
    BY <1>1, <1>2, <2>1
  <2>3. CASE told
    BY <1>1, <1>3, <1>4, <1>5, <2>1, <2>2, <2>3 DEF Accepted
  <2>4. CASE ~told /\ wk.copy = rev
    BY <1>1, <1>3, <1>4, <1>5, <2>1, <2>2, <2>4 DEF Accepted
  <2>5. CASE ~told /\ wk.copy # rev
    BY <1>1, <1>3, <1>4, <1>5, <2>1, <2>2, <2>5 DEF Accepted
  <2> QED
    BY <2>3, <2>4, <2>5
<1>6. CASE ~Accepted
  BY <1>1, <1>3, <1>4, <1>6 DEF Put, Refused, Error, revVars
<1> QED
  BY <1>5, <1>6

LEMMA CrashType ==
    ASSUME TypeOK, Crash
    PROVE  ClusterTypeOK'
<1>1. \A v \in Vols : Cached(pv[v], TRUE) \in CachedPvs
  BY DEF TypeOK, ClusterTypeOK, Pvs, CachedPvs, Cached
<1>2. cpv' \in [Vols -> CachedPvs]
  BY <1>1 DEF Crash
<1> QED
  BY <1>2 DEF Crash, TypeOK, ClusterTypeOK

----------------------------------------------------------------------------
(* Type correctness *)

LEMMA TypeInit == Init => TypeOK
<1> SUFFICES ASSUME Init PROVE TypeOK
  OBVIOUS
<1>1. Range(Orig) \subseteq Vols /\ MaxSnaps \in Nat /\ MaxFaults \in Nat /\ MaxRequests \in Nat
  BY ClusterAssumption, RevertsAssumption DEF Range
<1>2. pods \in [Claims -> PodStates] /\ cpods = pods
  BY DEF Init, ClusterInit, PodStates
<1>3. pvc \in [Claims -> Pvcs] /\ cpvc = pvc
  <2>1. \A c \in Claims : Orig[c] \in Vols
    BY ClusterAssumption
  <2>2. \A c \in Claims : [NoPvc EXCEPT !.here = TRUE, !.vol = Orig[c], !.bound = TRUE] \in Pvcs
    BY <2>1, NoPvcType DEF Pvcs
  <2> QED
    BY <2>2 DEF Init, ClusterInit
<1>4. pv \in [Vols -> Pvs]
  <2>1. \A v \in Range(Orig) : (CHOOSE c \in Claims : Orig[c] = v) \in Claims
    BY ClusterAssumption DEF Range
  <2>2. \A v \in Vols :
          [live |-> v \in Range(Orig), policy |-> "Delete",
           ref |-> IF v \in Range(Orig) THEN CHOOSE c \in Claims : Orig[c] = v ELSE "released"] \in Pvs
    BY <2>1 DEF Pvs
  <2> QED
    BY <2>2 DEF Init, ClusterInit
<1>5. cpv \in [Vols -> CachedPvs]
  <2>1. \A v \in Vols : Cached(pv[v], TRUE) \in CachedPvs
    BY <1>4 DEF Pvs, CachedPvs, Cached
  <2> QED
    BY <2>1 DEF Init, ClusterInit
<1>6. disk \in [Vols -> Disks] /\ snaps \in [Claims -> 0..MaxSnaps]
  <2>1. 0 \in 0..MaxSnaps
    BY <1>1
  <2> QED
    BY <2>1 DEF Init, ClusterInit, Disks
<1>7. ClusterTypeOK
  BY <1>2, <1>3, <1>4, <1>5, <1>6 DEF Init, ClusterInit, ClusterTypeOK
<1>8. rev \in Reverts /\ crev = rev
  BY DEF Init, Reverts
<1>9. WorkerOK
  BY <1>8, ToPutTypes DEF Init, WorkerOK, IdleWk, Loops
<1> QED
  BY <1>1, <1>7, <1>8, <1>9 DEF Init, TypeOK

\* What a step leaves alone keeps its type.
LEMMA ClusterSame ==
    ASSUME ClusterTypeOK, UNCHANGED clusterVars
    PROVE  ClusterTypeOK'
  BY DEF ClusterTypeOK, clusterVars, appVars, pvcVars, pvVars

LEMMA WorkerSame ==
    ASSUME WorkerOK, wk' = wk
    PROVE  WorkerOK'
  BY DEF WorkerOK, Old

\* Every start of an attempt, as a whole.
LEMMA StartsOK ==
    ASSUME TypeOK, Starts
    PROVE  /\ UNCHANGED <<clusterVars, revVars, requests, faults>>
           /\ WorkerOK' /\ dirty' \in BOOLEAN
<1>1. CASE StartNothing
  BY <1>1, StartNothingOK DEF StartNothing, Start
<1>2. CASE StartInit
  BY <1>2, StartInitOK DEF StartInit, Start
<1>3. CASE StartPause
  BY <1>3, StartPauseOK DEF StartPause, Start
<1>4. CASE StartRevert \/ StartUndo
  BY <1>4, StartSwapOK DEF StartRevert, StartUndo, Start
<1>5. CASE StartUnpause
  BY <1>5, StartUnpauseOK DEF StartUnpause, Start
<1>6. CASE StartRejected
  BY <1>6, WorkerSame DEF StartRejected, vars, wkVars, TypeOK
<1> QED
  BY <1>1, <1>2, <1>3, <1>4, <1>5, <1>6 DEF Starts

\* The ends of the waits, all but the last, leave everything but the worker alone.
LEMMA WaitsOK ==
    ASSUME TypeOK, Paused \/ Reverted \/ Undone
    PROVE  /\ UNCHANGED <<clusterVars, revVars, dirty, requests, faults>>
           /\ WorkerOK' /\ wk'.pc = "put" /\ wk'.fresh = wk.fresh
           /\ \/ Paused /\ wk.pc = "pauseWait" /\ StateOf(wk'.copy) = "paused"
              \/ wk.pc \in Swapping /\ StateOf(wk'.copy) \in Settled
           /\ Fits(wk.copy.reverts) => Fits(wk'.copy.reverts) /\ wk'.copy.action = wk.copy.action
           /\ \A j \in 1..(Len(wk'.copy.reverts) - 1) :
                \E k \in 1..(Len(wk.copy.reverts) - 1) : wk'.copy.reverts[j] = wk.copy.reverts[k]
<1>1. CASE Paused
  BY <1>1, FinishState DEF Paused, States
<1>2. CASE Reverted
  BY <1>2, FinishState DEF Reverted, Bound, States, Settled, Swapping
<1>3. CASE Undone
  BY <1>3, FinishState DEF Undone, Bound, States, Settled, Swapping
<1> QED
  BY <1>1, <1>2, <1>3

LEMMA TypeStep == TypeOK /\ [Next]_vars => TypeOK'
<1> SUFFICES ASSUME TypeOK, [Next]_vars PROVE TypeOK'
  OBVIOUS
<1>1. /\ ClusterTypeOK /\ WorkerOK /\ rev \in Reverts /\ crev \in Reverts
      /\ crevNew \in BOOLEAN /\ dirty \in BOOLEAN
      /\ requests \in 0..MaxRequests /\ faults \in 0..MaxFaults
      /\ MaxRequests \in Nat /\ MaxFaults \in Nat
  BY RevertsAssumption DEF TypeOK
<1>2. Fault => faults' \in 0..MaxFaults
  BY <1>1 DEF Fault
<1>3. CASE Starts
  BY <1>1, <1>3, StartsOK, ClusterSame DEF TypeOK, revVars
<1>4. CASE Steps
  <2>1. CASE SwapStep
    BY <1>1, <2>1, SwapSteps DEF TypeOK, revVars
  <2>2. CASE Pause
    BY <1>1, <2>2, PauseOK DEF TypeOK, Pause, revVars
  <2>3. CASE Unpause
    BY <1>1, <2>3, UnpauseOK DEF TypeOK, Unpause, revVars
  <2>4. CASE Paused \/ Reverted \/ Undone
    BY <1>1, <2>4, WaitsOK, ClusterSame DEF TypeOK, revVars
  <2>5. CASE Unpaused
    BY <1>1, <2>5, UnpausedOK, ClusterSame DEF TypeOK, Unpaused, revVars
  <2>6. CASE Put
    BY <1>1, <2>6, PutOK, ClusterSame DEF TypeOK
  <2> QED
    BY <1>4, <2>1, <2>2, <2>3, <2>4, <2>5, <2>6 DEF Steps, SwapStep
<1>5. CASE CallLost
  BY <1>1, <1>2, <1>5, IdleOK, ClusterSame DEF TypeOK, CallLost, Error, revVars
<1>6. CASE Timeout
  BY <1>1, <1>2, <1>6, IdleOK, ClusterSame DEF TypeOK, Timeout, Error, revVars
<1>7. CASE Crash
  BY <1>1, <1>2, <1>7, IdleOK, CrashType DEF TypeOK, Crash, Error
<1>8. CASE SyncRevert
  BY <1>1, <1>8, ClusterSame, WorkerSame DEF TypeOK, SyncRevert
<1>9. CASE Resync
  BY <1>1, <1>9, ClusterSame, WorkerSame DEF TypeOK, Resync, revVars
<1>10. CASE Environment
  BY <1>1, <1>10, SyncTypes, ControllersTypes, WorkerSame
     DEF TypeOK, Environment, Rest, revVars, wkVars
<1>11. ASSUME NEW a \in {"latest", "undo"}, Request(a) PROVE TypeOK'
  <2>1. rev' \in Reverts /\ rev'.reverts = rev.reverts
    BY <1>1, <1>11 DEF Request, Reverts
  <2>2. crev' \in Reverts /\ crevNew' \in BOOLEAN /\ dirty' \in BOOLEAN
    BY <1>1, <1>11, <2>1 DEF Request
  <2>3. WorkerOK'
    BY <1>1, <1>11 DEF Request, WorkerOK, Workers, Old
  <2>4. requests' \in 0..MaxRequests
    BY <1>1, <1>11 DEF Request
  <2> QED
    BY <1>1, <1>11, <2>1, <2>2, <2>3, <2>4, ClusterSame DEF TypeOK, Request
<1>12. CASE UNCHANGED vars
  BY <1>1, <1>12, ClusterSame, WorkerSame DEF TypeOK, vars, revVars, wkVars
<1> QED
  BY <1>3, <1>4, <1>5, <1>6, <1>7, <1>8, <1>9, <1>10, <1>11, <1>12 DEF Next

\* Type correctness: the resource, its cached copy, the worker and the cluster keep
\* their types, and the worker never reads an entry of the history or a recorded
\* claim that is not there (details := &Reverts[len(Reverts)-1] never panics).
THEOREM TypeCorrect == Spec => []TypeOK
  BY TypeInit, TypeStep, PTL DEF Spec

----------------------------------------------------------------------------
(* The history: only its last entry is ever in progress *)

LEMMA HistoryInit == Init => HistoryFinished
  BY DEF Init, IdleWk, HistoryFinished, EarlierFinished

LEMMA IdleHistory ==
    ASSUME wk' = IdleWk
    PROVE  EarlierFinished(wk'.copy)
  BY IdleOK DEF EarlierFinished

LEMMA HistoryStep == TypeOK /\ HistoryFinished /\ [Next]_vars => HistoryFinished'
<1> SUFFICES ASSUME TypeOK, HistoryFinished, [Next]_vars
             PROVE  EarlierFinished(rev') /\ EarlierFinished(crev') /\ EarlierFinished(wk'.copy)
  BY DEF HistoryFinished, EarlierFinished
<1>1. EarlierFinished(rev) /\ EarlierFinished(crev) /\ EarlierFinished(wk.copy)
  BY DEF HistoryFinished
<1>2. CASE Starts
  <2>1. rev' = rev /\ crev' = crev
    BY <1>2, StartsOK DEF revVars
  <2>2. CASE StartInit
    <3>1. \A k \in 1..Len(crev.reverts) : crev.reverts[k].state = "finished"
      <4>1. StateOf(crev) \in {"none", "finished"} /\ crev.reverts \in Seq(Details)
        BY <2>2 DEF StartInit, NeedsEntry, TypeOK, Reverts
      <4>2. CASE crev.reverts = <<>>
        BY <4>2
      <4>3. CASE crev.reverts # <<>>
        <5>1. StateOf(crev) = crev.reverts[Len(crev.reverts)].state /\ Len(crev.reverts) \in Nat \ {0}
          BY <4>1, <4>3, EmptySeq DEF StateOf, Latest, Last
        <5>2. crev.reverts[Len(crev.reverts)] \in Details /\ "none" \notin States
          BY <4>1, <5>1 DEF States
        <5>3. crev.reverts[Len(crev.reverts)].state = "finished"
          BY <4>1, <5>1, <5>2 DEF Details
        <5>4. \A k \in 1..Len(crev.reverts) : k = Len(crev.reverts) \/ k \in 1..(Len(crev.reverts) - 1)
          BY <5>1
        <5> QED
          BY <1>1, <5>3, <5>4 DEF EarlierFinished
      <4> QED
        BY <4>2, <4>3
    <3> QED
      BY <1>1, <2>1, <2>2, <3>1, StartInitOK DEF EarlierFinished
  <2>3. CASE ~StartInit /\ ~StartRejected
    <3>1. wk'.copy = crev
      BY <1>2, <2>3, StartNothingOK, StartPauseOK, StartSwapOK, StartUnpauseOK DEF Starts
    <3> QED
      BY <1>1, <2>1, <3>1
  <2>4. CASE StartRejected
    BY <1>1, <2>4 DEF StartRejected, vars, revVars, wkVars
  <2> QED
    BY <2>2, <2>3, <2>4
<1>3. CASE SwapStep
  <2>1. rev' = rev /\ crev' = crev /\ GoesOn
    BY <1>3, SwapSteps DEF revVars
  <2> QED
    BY <1>1, <2>1, IdleHistory DEF GoesOn
<1>4. CASE Pause
  <2>1. rev' = rev /\ crev' = crev
    BY <1>4 DEF Pause, revVars
  <2> QED
    BY <1>1, <1>4, <2>1, PauseOK, IdleHistory
<1>5. CASE Unpause
  <2>1. rev' = rev /\ crev' = crev
    BY <1>5 DEF Unpause, revVars
  <2> QED
    BY <1>1, <1>5, <2>1, UnpauseOK
<1>6. CASE Paused \/ Reverted \/ Undone \/ Unpaused
  <2>1. rev' = rev /\ crev' = crev
    BY <1>6 DEF Paused, Reverted, Undone, Unpaused, Bound, revVars
  <2>2. \A j \in 1..(Len(wk'.copy.reverts) - 1) :
          \E k \in 1..(Len(wk.copy.reverts) - 1) : wk'.copy.reverts[j] = wk.copy.reverts[k]
    BY <1>6, WaitsOK, UnpausedOK
  <2> QED
    BY <1>1, <2>1, <2>2 DEF EarlierFinished
<1>7. CASE Put
  BY <1>1, <1>7, PutOK, IdleHistory DEF revVars
<1>8. CASE CallLost \/ Timeout \/ Crash
  <2>1. wk' = IdleWk /\ rev' = rev /\ crev' \in {rev, crev}
    BY <1>8 DEF CallLost, Timeout, Crash, Error, revVars
  <2> QED
    BY <1>1, <2>1, IdleHistory
<1>9. CASE SyncRevert \/ Resync \/ Environment \/ UNCHANGED vars
  <2>1. wk' = wk /\ rev' = rev /\ crev' \in {rev, crev}
    BY <1>9 DEF SyncRevert, Resync, Environment, Rest, vars, revVars, wkVars
  <2> QED
    BY <1>1, <2>1
<1>10. ASSUME NEW a \in {"latest", "undo"}, Request(a)
       PROVE  EarlierFinished(rev') /\ EarlierFinished(crev') /\ EarlierFinished(wk'.copy)
  <2>1. rev \in Reverts /\ wk \in Workers
    BY DEF TypeOK, WorkerOK
  <2>2. rev'.reverts = rev.reverts /\ wk'.copy = wk.copy /\ crev' \in {rev', crev}
    BY <1>10, <2>1 DEF Request, Reverts, Workers
  <2> QED
    BY <1>1, <2>2 DEF EarlierFinished
<1> QED
  BY <1>2, <1>3, <1>4, <1>5, <1>6, <1>7, <1>8, <1>9, <1>10 DEF Next, Steps, SwapStep

\* Only the last entry of the history is in progress: in the resource, in the
\* cached copy and in the worker's (initDetails, undo and the trim by KeepStatus).
THEOREM HistoryCorrect == Spec => []HistoryFinished
<1>1. Init => TypeOK /\ HistoryFinished
  BY TypeInit, HistoryInit
<1>2. TypeOK /\ HistoryFinished /\ [Next]_vars => (TypeOK /\ HistoryFinished)'
  BY TypeStep, HistoryStep
<1> QED
  BY <1>1, <1>2, PTL DEF Spec

----------------------------------------------------------------------------
(* The cached resource is at most one accepted put behind *)

\* The state of the resource a worker leaves unpause with is never "paused".
LEMMA UnpausedState ==
    ASSUME TypeOK, HistoryFinished, Unpaused
    PROVE  StateOf(wk'.copy) # "paused"
<1>1. \A k \in 1..(Len(wk.copy.reverts) - 1) : wk.copy.reverts[k].state = "finished"
  BY DEF HistoryFinished, EarlierFinished
<1> QED
  BY <1>1, UnpausedOK

LEMMA BehindInit == Init => OneBehind
  BY DEF Init, IdleWk, OneBehind, StateOf, Settled

\* A worker that is idle, or at a step no clause of OneBehind speaks of, keeps it.
LEMMA BehindQuiet ==
    ASSUME OneBehind, UNCHANGED revVars,
           wk'.fresh => wk.fresh,
           wk'.pc \notin {"unpause", "pause", "pauseWait", "put"}
    PROVE  OneBehind'
  BY DEF OneBehind, revVars, StateOf, Latest

LEMMA IdleQuiet ==
    ASSUME wk' = IdleWk
    PROVE  wk'.fresh = FALSE /\ wk'.pc \notin {"unpause", "pause", "pauseWait", "put"}
  BY IdleOK

LEMMA SwappingQuiet ==
    ASSUME wk'.pc \in Swapping
    PROVE  wk'.pc \notin {"unpause", "pause", "pauseWait", "put"}
  BY DEF Swapping, Loops

LEMMA BehindStarts == TypeOK /\ OneBehind /\ Starts => OneBehind'
<1> SUFFICES ASSUME TypeOK, OneBehind, Starts PROVE OneBehind'
  OBVIOUS
<1>1. /\ rev' = rev /\ crev' = crev /\ crevNew' = crevNew
      /\ StateOf(rev') = StateOf(rev) /\ StateOf(crev') = StateOf(crev)
  BY StartsOK DEF revVars
<1>2. /\ crevNew => crev = rev
      /\ StateOf(crev) \in Settled => StateOf(rev) # "paused"
      /\ "paused" \notin Settled /\ "init" \notin Settled /\ "finished" \notin Settled
  BY DEF OneBehind, Settled
<1>3. CASE StartNothing
  BY <1>1, <1>2, <1>3, StartNothingOK DEF OneBehind
<1>4. CASE StartInit
  BY <1>1, <1>2, <1>4, StartInitOK DEF OneBehind
<1>5. CASE StartPause
  BY <1>1, <1>2, <1>5, StartPauseOK DEF OneBehind
<1>6. CASE StartRevert \/ StartUndo
  BY <1>1, <1>2, <1>6, StartSwapOK, SwappingQuiet DEF OneBehind
<1>7. CASE StartUnpause
  BY <1>1, <1>2, <1>7, StartUnpauseOK DEF OneBehind
<1>8. CASE StartRejected
  BY <1>1, <1>8 DEF StartRejected, vars, wkVars, OneBehind
<1> QED
  BY <1>3, <1>4, <1>5, <1>6, <1>7, <1>8 DEF Starts

LEMMA BehindStep == TypeOK /\ HistoryFinished /\ OneBehind /\ [Next]_vars => OneBehind'
<1> SUFFICES ASSUME TypeOK, HistoryFinished, OneBehind, [Next]_vars PROVE OneBehind'
  OBVIOUS
<1>1. CASE SwapStep
  BY <1>1, SwapSteps, BehindQuiet, IdleQuiet, SwappingQuiet DEF GoesOn
<1>2. CASE Pause
  <2>1. rev' = rev /\ crev' = crev /\ crevNew' = crevNew /\ UNCHANGED revVars
    BY <1>2 DEF Pause, revVars
  <2>2. CASE wk' = IdleWk
    BY <2>1, <2>2, BehindQuiet, IdleQuiet
  <2>3. CASE wk'.pc = "pauseWait" /\ wk'.fresh = wk.fresh /\ wk.pc = "pause"
    BY <2>1, <2>3 DEF OneBehind, StateOf, Latest
  <2> QED
    BY <1>2, <2>2, <2>3, PauseOK
<1>3. CASE Unpause
  <2>1. UNCHANGED revVars
    BY <1>3 DEF Unpause
  <2> QED
    BY <1>3, <2>1, UnpauseOK, BehindQuiet
<1>4. CASE Paused \/ Reverted \/ Undone \/ Unpaused
  <2>1. rev' = rev /\ crev' = crev /\ crevNew' = crevNew
    BY <1>4 DEF Paused, Reverted, Undone, Unpaused, Bound, revVars
  <2>2. /\ wk'.pc = "put" /\ wk'.fresh = wk.fresh
        /\ StateOf(wk'.copy) # "paused" \/ wk.pc = "pauseWait"
    BY <1>4, WaitsOK, UnpausedOK, UnpausedState DEF Settled
  <2> QED
    BY <2>1, <2>2 DEF OneBehind, StateOf, Latest
<1>5. CASE Put
  <2>1. wk' = IdleWk /\ wk'.fresh = FALSE /\ wk'.pc \notin {"unpause", "pause", "pauseWait", "put"}
    BY <1>5, PutOK, IdleQuiet
  <2>2. CASE UNCHANGED revVars
    BY <2>1, <2>2, BehindQuiet
  <2>3. CASE wk.fresh /\ rev' = wk.copy /\ crev' = wk.copy /\ crevNew' = crevNew
    <3>1. StateOf(crev') = StateOf(rev')
      BY <2>3
    <3> QED
      BY <2>1, <2>3, <3>1 DEF OneBehind, Settled
  <2>4. CASE wk.fresh /\ rev' = wk.copy /\ crev' = crev /\ crevNew' = FALSE
    <3>1. StateOf(crev') = StateOf(crev) /\ StateOf(rev') = StateOf(wk.copy) /\ wk.pc = "put"
      BY <1>5, <2>4, PutOK
    <3> QED
      BY <2>1, <2>4, <3>1 DEF OneBehind
  <2>5. CASE rev' = rev /\ crev' = crev /\ crevNew' = crevNew
    BY <2>1, <2>5, BehindQuiet DEF revVars
  <2> QED
    BY <1>5, <2>2, <2>3, <2>4, <2>5, PutOK
<1>6. CASE CallLost \/ Timeout
  <2>1. wk' = IdleWk /\ UNCHANGED revVars
    BY <1>6 DEF CallLost, Timeout, Error
  <2> QED
    BY <2>1, BehindQuiet, IdleQuiet
<1>7. CASE Crash
  <2>1. wk' = IdleWk /\ rev' = rev /\ crev' = rev /\ crevNew' = TRUE
    BY <1>7 DEF Crash, Error
  <2>2. StateOf(rev') = StateOf(rev) /\ StateOf(crev') = StateOf(rev)
    BY <2>1
  <2> QED
    BY <2>1, <2>2, IdleQuiet DEF OneBehind, Settled
<1>8. CASE SyncRevert
  <2>1. ~crevNew /\ wk' = wk /\ rev' = rev /\ crev' = rev /\ crevNew' = TRUE
    BY <1>8 DEF SyncRevert
  <2>2. StateOf(rev') = StateOf(rev) /\ StateOf(crev') = StateOf(rev)
    BY <2>1
  <2> QED
    BY <2>1, <2>2 DEF OneBehind, Settled
<1>9. CASE Resync \/ Environment \/ UNCHANGED vars
  <2>1. wk' = wk /\ rev' = rev /\ crev' = crev /\ crevNew' = crevNew
    BY <1>9 DEF Resync, Environment, Rest, vars, revVars, wkVars
  <2> QED
    BY <2>1 DEF OneBehind, StateOf, Latest
<1>10. ASSUME NEW a \in {"latest", "undo"}, Request(a) PROVE OneBehind'
  <2>1. rev \in Reverts /\ wk \in Workers
    BY DEF TypeOK, WorkerOK
  <2>2. StateOf(rev') = StateOf(rev)
    BY <1>10, <2>1 DEF Request, StateOf, Latest, Reverts
  <2>3. wk'.fresh = FALSE /\ wk'.pc = wk.pc
    BY <1>10, <2>1 DEF Request, Workers
  <2>4. \/ crev' = rev' /\ crevNew' = TRUE /\ StateOf(crev') = StateOf(rev')
        \/ crev' = crev /\ crevNew' = FALSE /\ StateOf(crev') = StateOf(crev)
    BY <1>10 DEF Request
  <2> QED
    BY <2>2, <2>3, <2>4 DEF OneBehind, Settled
<1> QED
  BY <1>1, <1>2, <1>3, <1>4, <1>5, <1>6, <1>7, <1>8, <1>9, <1>10, BehindStarts DEF Next, Steps, SwapStep

\* The cached resource is never more than one accepted put behind the one in the
\* API server, and a worker about to scale up works from neither being "paused":
\* UpdateRevert is refused for a copy made from an older version.
THEOREM BehindCorrect == Spec => []OneBehind
<1>1. Init => TypeOK /\ HistoryFinished /\ OneBehind
  BY TypeInit, HistoryInit, BehindInit
<1>2. TypeOK /\ HistoryFinished /\ OneBehind /\ [Next]_vars => (TypeOK /\ HistoryFinished /\ OneBehind)'
  BY TypeStep, HistoryStep, BehindStep
<1> QED
  BY <1>1, <1>2, PTL DEF Spec

----------------------------------------------------------------------------
(* An action becomes "idle" only at its own end *)

\* An action becomes "idle" only at its own end: a revert finishes its entry, from
\* "reverted", an undo drops it, and neither changes anything else.  A request made
\* while the put of another action is on its way is not overwritten by it
\* (UpdateRevert's version check).
Ends(r, s) ==
    s.action = "idle" =>
      /\ r.action = "latest" => /\ StateOf(r) = "reverted"
                                /\ s = [WithState(r, "finished") EXCEPT !.action = "idle"]
      /\ r.action = "undo" => r.reverts # <<>> /\ s.reverts = Front(r.reverts)
ActionEnds == [][Ends(rev, rev')]_vars

\* No version of the history is longer than spec.keepStatus.
AllFit == Fits(rev.reverts) /\ Fits(crev.reverts) /\ Fits(wk.copy.reverts)

\* A copy whose version is current is the resource, until it is put; what is put
\* then is the resource unchanged in its action, or with the action at its end.
CopyCurrent ==
    /\ wk.fresh /\ wk.pc # "put" => wk.copy = rev
    /\ wk.pc \in {"unpause", "readyWait"} =>
         (wk.copy.action = "latest" => StateOf(wk.copy) = "reverted")
    /\ wk.fresh /\ wk.pc = "put" => Ends(rev, wk.copy)

EndsInv == TypeOK /\ HistoryFinished /\ OneBehind /\ AllFit /\ CopyCurrent

LEMMA EmptyFits == Fits(<<>>) /\ (wk' = IdleWk => Fits(wk'.copy.reverts))
<1>1. Fits(<<>>)
  BY RevertsAssumption DEF Fits
<1> QED
  BY <1>1 DEF IdleWk

\* The same action before and after is no end of an action.
LEMMA EndsSame == ASSUME NEW r, NEW s, s.action = r.action PROVE Ends(r, s)
  BY DEF Ends

\* The end of unpause finishes the entry of a revert, and drops that of an undo.
LEMMA UnpausedEnds ==
    ASSUME TypeOK, Unpaused, Fits(wk.copy.reverts)
    PROVE  /\ Fits(wk'.copy.reverts)
           /\ wk.copy.action = "latest" =>
                wk'.copy = [WithState(wk.copy, "finished") EXCEPT !.action = "idle"]
           /\ wk.copy.action = "undo" => wk'.copy.reverts = Front(wk.copy.reverts)
<1> DEFINE q == WithState(wk.copy, "finished")
           done == [q EXCEPT !.action = "idle"]
           n == Len(wk.copy.reverts)
           dropped == [done EXCEPT !.reverts = Front(@)]
           res == IF wk.copy.action = "undo" THEN dropped ELSE done
<1>1. wk.pc = "readyWait" /\ Finish(res)
  BY DEF Unpaused
<1>2. wk \in Workers /\ wk.copy \in Reverts /\ wk.copy.reverts # <<>>
  BY <1>1, CopyType DEF TypeOK, WorkerOK
<1>3. wk.copy.reverts \in Seq(Details) /\ n \in Nat \ {0}
  BY <1>2 DEF Reverts
<1>4. /\ q \in Reverts /\ Len(q.reverts) = n
      /\ \A j \in 1..(n - 1) : q.reverts[j] = wk.copy.reverts[j]
  BY <1>2, StateChange DEF States
<1>5. done \in Reverts /\ done.reverts = q.reverts /\ done.reverts \in Seq(Details)
  <2> HIDE DEF q
  <2> QED
    BY <1>4 DEF Reverts
<1> HIDE DEF done, q
<1>6. Front(done.reverts) = Front(wk.copy.reverts)
  <2> DEFINE f == Front(done.reverts)
             g == Front(wk.copy.reverts)
  <2>1. /\ f \in Seq(Details) /\ Len(f) = n - 1
        /\ \A j \in 1..(n - 1) : f[j] = done.reverts[j]
    BY <1>3, <1>4, <1>5 DEF Front
  <2>2. /\ g \in Seq(Details) /\ Len(g) = n - 1
        /\ \A j \in 1..(n - 1) : g[j] = wk.copy.reverts[j]
    BY <1>3 DEF Front
  <2> HIDE DEF f, g, n
  <2>3. f = g
    BY <1>4, <1>5, <2>1, <2>2, SeqEqual
  <2> QED
    BY <2>3 DEF f, g
<1>7. /\ dropped \in Reverts /\ dropped.reverts = Front(wk.copy.reverts)
      /\ Len(dropped.reverts) = n - 1
  <2>1. Front(wk.copy.reverts) \in Seq(Details) /\ Len(Front(wk.copy.reverts)) = n - 1
    BY <1>3 DEF Front
  <2> QED
    BY <1>5, <1>6, <2>1 DEF Reverts
<1> HIDE DEF dropped
<1>8. Fits(dropped.reverts) /\ Fits(done.reverts)
  BY <1>3, <1>4, <1>5, <1>7, RevertsAssumption DEF Fits
<1>9. res \in Reverts /\ Fits(res.reverts)
  BY <1>5, <1>7, <1>8
<1> HIDE DEF res
<1>10. wk'.copy = res
  BY <1>1, <1>2, <1>9, FinishPuts
<1> QED
  BY <1>7, <1>9, <1>10 DEF res, done, q

LEMMA EndsInit == Init => EndsInv
<1> SUFFICES ASSUME Init PROVE AllFit /\ CopyCurrent
  BY TypeInit, HistoryInit, BehindInit DEF EndsInv
<1>1. wk.pc = "idle" /\ ~wk.fresh
  BY DEF Init, IdleWk
<1>2. rev.reverts = <<>> /\ crev.reverts = <<>> /\ wk.copy.reverts = <<>>
  BY DEF Init, IdleWk
<1> QED
  BY <1>1, <1>2, EmptyFits DEF AllFit, CopyCurrent

LEMMA EndsStarts == EndsInv /\ Starts => AllFit' /\ CopyCurrent'
<1> SUFFICES ASSUME EndsInv, Starts PROVE AllFit' /\ CopyCurrent'
  OBVIOUS
<1>1. TypeOK /\ AllFit /\ CopyCurrent /\ (crevNew => crev = rev)
  BY DEF EndsInv, OneBehind
<1>2. rev' = rev /\ crev' = crev
  BY <1>1, StartsOK DEF revVars
<1>3. CASE StartInit
  <2>1. /\ wk'.pc = "put" /\ wk'.fresh = crevNew /\ wk'.copy.action = crev.action
        /\ Fits(wk'.copy.reverts)
    BY <1>1, <1>3, StartInitOK
  <2>2. wk'.fresh => Ends(rev', wk'.copy)
    BY <1>1, <1>2, <2>1, EndsSame
  <2> QED
    BY <1>1, <1>2, <2>1, <2>2 DEF AllFit, CopyCurrent
<1>4. CASE StartUnpause
  <2>1. wk'.pc = "unpause" /\ wk'.copy = crev /\ wk'.fresh = crevNew
    BY <1>1, <1>4, StartUnpauseOK
  <2>2. wk'.copy.action = "latest" => StateOf(wk'.copy) = "reverted"
    BY <1>4, <2>1 DEF StartUnpause, Latestly, Undoing
  <2> QED
    BY <1>1, <1>2, <2>1, <2>2 DEF AllFit, CopyCurrent
<1>5. CASE StartNothing
  <2>1. wk'.pc = "put" /\ wk'.copy = crev /\ wk'.fresh = crevNew
    BY <1>1, <1>5, StartNothingOK
  <2>2. wk'.fresh => Ends(rev', wk'.copy)
    BY <1>1, <1>2, <2>1, EndsSame
  <2> QED
    BY <1>1, <1>2, <2>1, <2>2 DEF AllFit, CopyCurrent
<1>6. CASE StartPause \/ StartRevert \/ StartUndo
  <2>1. /\ wk'.copy = crev /\ wk'.fresh = crevNew
        /\ wk'.pc \in {"pause", "pauseWait"} \cup Swapping
    BY <1>1, <1>6, StartPauseOK, StartSwapOK
  <2>2. wk'.pc \notin {"put", "unpause", "readyWait"}
    BY <2>1 DEF Swapping, Loops
  <2> QED
    BY <1>1, <1>2, <2>1, <2>2 DEF AllFit, CopyCurrent
<1>7. CASE StartRejected
  BY <1>1, <1>7 DEF StartRejected, vars, wkVars, revVars, AllFit, CopyCurrent, StateOf, Latest
<1> QED
  BY <1>3, <1>4, <1>5, <1>6, <1>7 DEF Starts

\* A step that leaves the resource and its cached copy alone, and the worker idle
\* or with its copy at a step CopyCurrent says no more of.
LEMMA EndsQuiet ==
    ASSUME AllFit, CopyCurrent, rev' = rev, crev' = crev,
           \/ wk' = IdleWk
           \/ /\ wk'.copy = wk.copy /\ wk'.fresh = wk.fresh /\ wk.pc # "put"
              /\ wk'.pc \notin {"put", "unpause", "readyWait"}
    PROVE  AllFit' /\ CopyCurrent'
<1>1. CASE wk' = IdleWk
  <2>1. ~wk'.fresh /\ wk'.pc \notin {"put", "unpause", "readyWait"}
    BY <1>1 DEF IdleWk
  <2> QED
    BY <1>1, <2>1, EmptyFits DEF AllFit, CopyCurrent
<1>2. CASE /\ wk'.copy = wk.copy /\ wk'.fresh = wk.fresh /\ wk.pc # "put"
           /\ wk'.pc \notin {"put", "unpause", "readyWait"}
  BY <1>2 DEF AllFit, CopyCurrent
<1> QED
  BY <1>1, <1>2

LEMMA EndsStep == EndsInv /\ [Next]_vars => AllFit' /\ CopyCurrent'
<1> SUFFICES ASSUME EndsInv, [Next]_vars PROVE AllFit' /\ CopyCurrent'
  OBVIOUS
<1>0. TypeOK /\ AllFit /\ CopyCurrent /\ OneBehind
  BY DEF EndsInv
<1>1. CASE SwapStep
  <2>1. rev' = rev /\ crev' = crev /\ GoesOn
    BY <1>0, <1>1, SwapSteps DEF revVars
  <2>2. wk.pc # "put"
    BY <1>1 DEF SwapStep, Fix, Delete, Avail, Create, UndoDelete, UndoCreate
  <2>3. wk'.pc \in Swapping => wk'.pc \notin {"put", "unpause", "readyWait"}
    BY DEF Swapping, Loops
  <2> QED
    BY <1>0, <2>1, <2>2, <2>3, EndsQuiet DEF GoesOn
<1>2. CASE Pause
  <2>1. rev' = rev /\ crev' = crev
    BY <1>2 DEF Pause, revVars
  <2> QED
    BY <1>0, <1>2, <2>1, PauseOK, EndsQuiet
<1>3. CASE Unpause
  <2>1. rev' = rev /\ crev' = crev
    BY <1>3 DEF Unpause, revVars
  <2>2. /\ wk.pc = "unpause" /\ wk'.pc = "readyWait"
        /\ wk'.copy = wk.copy /\ wk'.fresh = wk.fresh
    BY <1>0, <1>3, UnpauseOK
  <2>3. StateOf(wk'.copy) = StateOf(wk.copy)
    BY <2>2
  <2> QED
    BY <1>0, <2>1, <2>2, <2>3 DEF AllFit, CopyCurrent
<1>4. CASE Paused \/ Reverted \/ Undone
  <2>1. rev' = rev /\ crev' = crev
    BY <1>4 DEF Paused, Reverted, Undone, Bound, revVars
  <2>2. wk.pc # "put"
    BY <1>4 DEF Paused, Reverted, Undone, Bound
  <2>3. /\ wk'.pc = "put" /\ wk'.fresh = wk.fresh
        /\ Fits(wk'.copy.reverts) /\ wk'.copy.action = wk.copy.action
    BY <1>0, <1>4, WaitsOK DEF AllFit
  <2>4. wk'.fresh => Ends(rev', wk'.copy)
    BY <1>0, <2>1, <2>2, <2>3, EndsSame DEF CopyCurrent
  <2> QED
    BY <1>0, <2>1, <2>3, <2>4 DEF AllFit, CopyCurrent
<1>5. CASE Unpaused
  <2>1. rev' = rev /\ crev' = crev
    BY <1>5 DEF Unpaused, revVars
  <2>2. wk.pc = "readyWait" /\ wk'.pc = "put" /\ wk'.fresh = wk.fresh
    BY <1>0, <1>5, UnpausedOK
  <2>3. wk.copy.reverts # <<>>
    BY <1>0, <2>2, CopyType
  <2>4. /\ Fits(wk'.copy.reverts)
        /\ wk.copy.action = "latest" =>
             wk'.copy = [WithState(wk.copy, "finished") EXCEPT !.action = "idle"]
        /\ wk.copy.action = "undo" => wk'.copy.reverts = Front(wk.copy.reverts)
    BY <1>0, <1>5, UnpausedEnds DEF AllFit
  <2>5. wk'.fresh => Ends(rev', wk'.copy)
    BY <1>0, <2>1, <2>2, <2>3, <2>4 DEF CopyCurrent, Ends
  <2> QED
    BY <1>0, <2>1, <2>2, <2>4, <2>5 DEF AllFit, CopyCurrent
<1>6. CASE Put
  <2>1. wk' = IdleWk /\ ~wk'.fresh /\ wk'.pc \notin {"put", "unpause", "readyWait"}
    BY <1>0, <1>6, PutOK DEF IdleWk
  <2>2. rev' \in {rev, wk.copy} /\ crev' \in {crev, wk.copy}
    BY <1>0, <1>6, PutOK DEF revVars
  <2> QED
    BY <1>0, <2>1, <2>2, EmptyFits DEF AllFit, CopyCurrent
<1>7. CASE CallLost \/ Timeout \/ Crash
  <2>1. wk' = IdleWk /\ rev' = rev /\ crev' \in {rev, crev}
    BY <1>7 DEF CallLost, Timeout, Crash, Error, revVars
  <2>2. ~wk'.fresh /\ wk'.pc \notin {"put", "unpause", "readyWait"}
    BY <2>1 DEF IdleWk
  <2> QED
    BY <1>0, <2>1, <2>2, EmptyFits DEF AllFit, CopyCurrent
<1>8. CASE SyncRevert \/ Resync \/ Environment \/ UNCHANGED vars
  <2>1. wk' = wk /\ rev' = rev /\ crev' \in {rev, crev}
    BY <1>8 DEF SyncRevert, Resync, Environment, Rest, vars, revVars, wkVars
  <2>2. StateOf(wk'.copy) = StateOf(wk.copy)
    BY <2>1
  <2> QED
    BY <1>0, <2>1, <2>2 DEF AllFit, CopyCurrent
<1>9. ASSUME NEW a \in {"latest", "undo"}, Request(a)
      PROVE  AllFit' /\ CopyCurrent'
  <2>1. rev \in Reverts /\ wk \in Workers
    BY <1>0 DEF TypeOK, WorkerOK
  <2>2. rev'.reverts = rev.reverts /\ crev' \in {rev', crev}
    BY <1>9, <2>1 DEF Request, Reverts
  <2>3. wk'.copy = wk.copy /\ wk'.pc = wk.pc /\ ~wk'.fresh
    BY <1>9, <2>1 DEF Request, Workers
  <2>4. StateOf(wk'.copy) = StateOf(wk.copy)
    BY <2>3
  <2> QED
    BY <1>0, <2>2, <2>3, <2>4 DEF AllFit, CopyCurrent
<1> QED
  BY <1>1, <1>2, <1>3, <1>4, <1>5, <1>6, <1>7, <1>8, <1>9, EndsStarts
     DEF Next, Steps, SwapStep

\* Only a put changes the action to "idle", and one that is accepted.
LEMMA OnlyEnds == EndsInv /\ [Next]_vars => [Ends(rev, rev')]_vars
<1> SUFFICES ASSUME EndsInv, [Next]_vars PROVE Ends(rev, rev')
  OBVIOUS
<1>0. TypeOK /\ CopyCurrent
  BY DEF EndsInv
<1>1. CASE Put
  <2>1. wk.pc = "put" /\ (rev' = rev \/ (wk.fresh /\ rev' = wk.copy))
    BY <1>0, <1>1, PutOK DEF revVars
  <2> QED
    BY <1>0, <2>1, EndsSame DEF CopyCurrent
<1>2. ASSUME NEW a \in {"latest", "undo"}, Request(a) PROVE Ends(rev, rev')
  <2>1. rev'.action # "idle"
    BY <1>0, <1>2 DEF Request, TypeOK, Reverts
  <2> QED
    BY <2>1 DEF Ends
<1>3. CASE ~Put /\ ~(\E a \in {"latest", "undo"} : Request(a))
  <2>1. Starts => rev' = rev
    BY <1>0, StartsOK DEF revVars
  <2>2. SwapStep => rev' = rev
    BY <1>0, SwapSteps DEF revVars
  <2>3. Pause \/ Unpause \/ Paused \/ Reverted \/ Undone \/ Unpaused => rev' = rev
    BY DEF Pause, Unpause, Paused, Reverted, Undone, Unpaused, Bound, revVars
  <2>4. CallLost \/ Timeout \/ Crash \/ SyncRevert \/ Resync \/ Environment \/ UNCHANGED vars
          => rev' = rev
    BY DEF CallLost, Timeout, Crash, SyncRevert, Resync, Environment, Rest, vars, revVars
  <2>5. rev' = rev
    BY <1>3, <2>1, <2>2, <2>3, <2>4 DEF Next, Steps, SwapStep
  <2> QED
    BY <2>5, EndsSame
<1> QED
  BY <1>1, <1>2, <1>3

\* A revert becomes "idle" by finishing its entry, an undo by dropping it, and
\* neither changes anything else of the resource: UpdateRevert is refused if
\* anybody has written since, so no request is overwritten.
THEOREM EndsCorrect == Spec => ActionEnds
<1>1. Init => EndsInv
  BY EndsInit
<1>2. EndsInv /\ [Next]_vars => EndsInv'
  BY EndsStep, TypeStep, HistoryStep, BehindStep DEF EndsInv
<1>3. EndsInv /\ [Next]_vars => [Ends(rev, rev')]_vars
  BY OnlyEnds
<1> QED
  BY <1>1, <1>2, <1>3, PTL DEF Spec, ActionEnds

----------------------------------------------------------------------------
(* "paused" means that the StatefulSet is down, if its caches are prompt *)

\* The caches of the StatefulSet and of its pods see every write at once.
CachesAgree == csts = replicas /\ cpods = pods

\* What the rest of the cluster does to a StatefulSet: it stays down when it is.
LEMMA ControllersDown ==
    ASSUME {"sts", "pods"} \subseteq Prompt, ClusterTypeOK, CachesAgree,
           NEW taken, Sync \/ Controllers(taken)
    PROVE  /\ CachesAgree' /\ replicas' = replicas
           /\ AppDown => AppDown'
<1> DEFINE Goal == CachesAgree' /\ replicas' = replicas /\ (AppDown => AppDown')
<1>1. CASE UNCHANGED appVars
  BY <1>1 DEF appVars, CachesAgree, AppDown, Listed
<1>2. ASSUME NEW c \in Claims, CreatePod(c) PROVE Goal
  BY <1>2 DEF CreatePod, CanCreatePod, SetPods, CachesAgree, AppDown
<1>3. ASSUME NEW c \in Claims, RunPod(c) PROVE Goal
  <2>1. c \in Listed(pods)
    BY <1>3 DEF RunPod, CanRunPod, Listed
  <2> QED
    BY <1>3, <2>1 DEF RunPod, SetPods, CachesAgree, AppDown
<1>4. ASSUME NEW c \in Claims, DeletePod(c) PROVE Goal
  <2>1. c \in Listed(pods)
    BY <1>4 DEF DeletePod, CanDeletePod, Listed
  <2> QED
    BY <1>4, <2>1 DEF DeletePod, SetPods, CachesAgree, AppDown
<1>5. CASE Sync
  <2>1. UNCHANGED appVars
    BY <1>5 DEF Sync, SyncSts, SyncPod, SyncPvc, SyncPv, CachesAgree, appVars
  <2> QED
    BY <1>1, <2>1
<1>6. CASE \/ \E c \in Claims : RemovePvc(c) \/ BindFree(c) \/ Provision(c, taken)
                              \/ Rebind(c) \/ TakeSnapshot(c)
           \/ \E v \in Vols : Reclaim(v)
  BY <1>1, <1>6 DEF RemovePvc, BindFree, Provision, Rebind, TakeSnapshot, Reclaim
<1> QED
  BY <1>2, <1>3, <1>4, <1>5, <1>6 DEF Controllers

Down == TypeOK /\ HistoryFinished /\ OneBehind /\ CachesAgree /\ PausedMeansDown

LEMMA DownInit == Init => Down
<1> SUFFICES ASSUME Init PROVE CachesAgree /\ PausedMeansDown
  BY TypeInit, HistoryInit, BehindInit DEF Down
<1>1. CachesAgree
  BY DEF Init, ClusterInit, CachesAgree
<1>2. StateOf(rev) = "none" /\ StateOf(crev) = "none"
  BY DEF Init, StateOf
<1>3. wk.pc = "idle" /\ "idle" \notin Swapping
  BY DEF Init, IdleWk, Swapping, Loops
<1> QED
  BY <1>1, <1>2, <1>3 DEF PausedMeansDown

LEMMA DownStep ==
    ASSUME {"sts", "pods"} \subseteq Prompt, Down, [Next]_vars
    PROVE  Down'
<1> SUFFICES CachesAgree' /\ PausedMeansDown'
  BY TypeStep, HistoryStep, BehindStep DEF Down
<1>1. /\ TypeOK /\ ClusterTypeOK /\ HistoryFinished /\ OneBehind
      /\ CachesAgree /\ PausedMeansDown
  BY DEF Down, TypeOK
<1>2. UNCHANGED appVars => CachesAgree' /\ AppDown' = AppDown /\ replicas' = replicas
  BY <1>1 DEF appVars, CachesAgree, AppDown, Listed
<1>3. wk' = IdleWk => wk'.pc = "idle" /\ "idle" \notin Swapping
  BY IdleOK DEF Swapping, Loops
<1>4. \A r \in {rev, crev} : StateOf(r) = "paused" => AppDown
  BY <1>1 DEF PausedMeansDown
<1>5. CASE Starts
  <2>1. UNCHANGED appVars /\ rev' = rev /\ crev' = crev
    BY <1>1, <1>5, StartsOK DEF clusterVars, revVars
  <2>2. \A r \in {rev', crev'} : StateOf(r) = "paused" => AppDown'
    BY <1>2, <1>4, <2>1
  <2>3. CASE StartNothing
    BY <1>1, <1>2, <2>1, <2>2, <2>3, StartNothingOK DEF PausedMeansDown, Swapping, Loops
  <2>4. CASE StartInit
    BY <1>1, <1>2, <2>1, <2>2, <2>4, StartInitOK DEF PausedMeansDown, Swapping, Loops
  <2>5. CASE StartPause
    <3>1. wk'.pc = "pauseWait" => replicas' = 0
      BY <1>1, <1>2, <2>1, <2>5, StartPauseOK DEF CachesAgree
    <3>2. wk'.pc # "put" /\ wk'.pc \notin Swapping
      BY <1>1, <2>5, StartPauseOK DEF Swapping, Loops
    <3> QED
      BY <1>2, <2>1, <2>2, <3>1, <3>2 DEF PausedMeansDown
  <2>6. CASE StartRevert \/ StartUndo
    <3>1. AppDown' /\ wk'.pc \notin {"put", "pauseWait"}
      BY <1>1, <1>2, <1>4, <2>1, <2>6, StartSwapOK, SwappingQuiet
    <3> QED
      BY <1>2, <2>1, <2>2, <3>1 DEF PausedMeansDown
  <2>7. CASE StartUnpause
    BY <1>1, <1>2, <2>1, <2>2, <2>7, StartUnpauseOK DEF PausedMeansDown, Swapping, Loops
  <2>8. CASE StartRejected
    BY <1>1, <1>2, <2>1, <2>2, <2>8 DEF StartRejected, vars, wkVars, PausedMeansDown
  <2> QED
    BY <1>5, <2>3, <2>4, <2>5, <2>6, <2>7, <2>8 DEF Starts
<1>6. CASE SwapStep
  <2>1. UNCHANGED appVars /\ rev' = rev /\ crev' = crev /\ GoesOn /\ wk.pc \in Swapping
    BY <1>1, <1>6, SwapSteps DEF revVars, Swapping
  <2>2. AppDown'
    BY <1>1, <1>2, <2>1 DEF PausedMeansDown
  <2>3. wk'.pc # "pauseWait"
    BY <1>3, <2>1, SwappingQuiet DEF GoesOn
  <2> QED
    BY <1>2, <2>1, <2>2, <2>3 DEF PausedMeansDown
<1>7. CASE Pause
  <2>1. replicas' = 0 /\ csts' = 0 /\ pods' = pods /\ cpods' = cpods /\ rev' = rev /\ crev' = crev
    BY <1>7 DEF Pause, SetReplicas, revVars
  <2>2. CachesAgree' /\ (AppDown => AppDown')
    BY <1>1, <2>1 DEF CachesAgree, AppDown, Listed
  <2>3. wk'.pc \in {"idle", "pauseWait"} /\ wk'.pc \notin Swapping
    BY <1>1, <1>3, <1>7, PauseOK DEF Swapping, Loops
  <2> QED
    BY <1>4, <2>1, <2>2, <2>3 DEF PausedMeansDown
<1>8. CASE Unpause
  <2>1. /\ csts' = replicas' \/ UNCHANGED <<replicas, csts>>
        /\ pods' = pods /\ cpods' = cpods /\ rev' = rev /\ crev' = crev
    BY <1>8 DEF Unpause, SetReplicas, revVars
  <2>2. CachesAgree'
    BY <1>1, <2>1 DEF CachesAgree
  <2>3. StateOf(rev') # "paused" /\ StateOf(crev') # "paused"
    BY <1>1, <1>8, <2>1, UnpauseOK DEF OneBehind
  <2>4. wk'.pc = "readyWait" /\ "readyWait" \notin Swapping
    BY <1>1, <1>8, UnpauseOK DEF Swapping, Loops
  <2> QED
    BY <2>2, <2>3, <2>4 DEF PausedMeansDown
<1>9. CASE Paused \/ Reverted \/ Undone \/ Unpaused
  <2>1. UNCHANGED appVars /\ rev' = rev /\ crev' = crev
    BY <1>9 DEF Paused, Reverted, Undone, Unpaused, Bound, revVars, clusterVars
  <2>2. wk'.pc = "put" /\ (StateOf(wk'.copy) # "paused" \/ Paused)
    BY <1>1, <1>9, WaitsOK, UnpausedOK, UnpausedState DEF Settled
  <2>3. Paused => AppDown
    BY <1>1 DEF Paused, PodsDeleted, CachesAgree, PausedMeansDown, AppDown
  <2>4. "put" \notin Swapping
    BY DEF Swapping, Loops
  <2> QED
    BY <1>2, <1>4, <2>1, <2>2, <2>3, <2>4 DEF PausedMeansDown
<1>10. CASE Put
  <2>1. /\ UNCHANGED appVars /\ wk' = IdleWk /\ wk.pc = "put"
        /\ rev' \in {rev, wk.copy} /\ crev' \in {crev, wk.copy}
    BY <1>1, <1>10, PutOK DEF clusterVars, revVars
  <2>2. StateOf(wk.copy) = "paused" => AppDown
    BY <1>1, <2>1 DEF PausedMeansDown
  <2>3. \A r \in {rev', crev'} : StateOf(r) = "paused" => AppDown'
    BY <1>2, <1>4, <2>1, <2>2
  <2> QED
    BY <1>2, <1>3, <2>1, <2>3 DEF PausedMeansDown
<1>11. CASE CallLost \/ Timeout
  <2>1. UNCHANGED appVars /\ rev' = rev /\ crev' = crev /\ wk' = IdleWk
    BY <1>11 DEF CallLost, Timeout, Error, clusterVars, revVars
  <2> QED
    BY <1>2, <1>3, <1>4, <2>1 DEF PausedMeansDown
<1>12. CASE Crash
  <2>1. replicas' = replicas /\ pods' = pods /\ csts' = replicas /\ cpods' = pods
        /\ rev' = rev /\ crev' = rev /\ wk' = IdleWk
    BY <1>12 DEF Crash, Error
  <2>2. CachesAgree' /\ AppDown' = AppDown
    BY <2>1 DEF CachesAgree, AppDown, Listed
  <2> QED
    BY <1>3, <1>4, <2>1, <2>2 DEF PausedMeansDown
<1>13. CASE SyncRevert \/ Resync \/ UNCHANGED vars
  <2>1. UNCHANGED appVars /\ rev' = rev /\ crev' \in {rev, crev} /\ wk' = wk
    BY <1>13 DEF SyncRevert, Resync, vars, clusterVars, revVars, wkVars
  <2> QED
    BY <1>1, <1>2, <1>4, <2>1 DEF PausedMeansDown
<1>14. CASE Environment
  <2>1. rev' = rev /\ crev' = crev /\ wk' = wk
    BY <1>14 DEF Environment, Rest, revVars, wkVars
  <2>2. CachesAgree' /\ replicas' = replicas /\ (AppDown => AppDown')
    BY <1>1, <1>14, ControllersDown DEF Environment
  <2> QED
    BY <1>1, <2>1, <2>2 DEF PausedMeansDown
<1>15. ASSUME NEW a \in {"latest", "undo"}, Request(a) PROVE CachesAgree' /\ PausedMeansDown'
  <2>1. rev \in Reverts /\ wk \in Workers
    BY <1>1 DEF TypeOK, WorkerOK
  <2>2. StateOf(rev') = StateOf(rev)
    BY <1>15, <2>1 DEF Request, StateOf, Latest, Reverts
  <2>3. UNCHANGED appVars /\ wk'.pc = wk.pc /\ wk'.copy = wk.copy /\ crev' \in {crev, rev'}
    BY <1>15, <2>1 DEF Request, Workers, clusterVars
  <2>4. \A r \in {rev', crev'} : StateOf(r) = "paused" => AppDown'
    BY <1>2, <1>4, <2>2, <2>3
  <2> QED
    BY <1>1, <1>2, <2>3, <2>4 DEF PausedMeansDown
<1> QED
  BY <1>5, <1>6, <1>7, <1>8, <1>9, <1>10, <1>11, <1>12, <1>13, <1>14, <1>15
     DEF Next, Steps, SwapStep

\* Whatever shows or is about to put "paused", and whatever deletes or creates a
\* claim, does so while the StatefulSet has no replicas and no pod.
THEOREM PausedCorrect ==
    ASSUME {"sts", "pods"} \subseteq Prompt
    PROVE  Spec => []PausedMeansDown
<1>1. Init => Down
  BY DownInit
<1>2. Down /\ [Next]_vars => Down'
  BY DownStep
<1>3. Down => PausedMeansDown
  BY DEF Down
<1> QED
  BY <1>1, <1>2, <1>3, PTL DEF Spec

----------------------------------------------------------------------------
(* Claims are deleted only while the StatefulSet is down *)

\* The controllers, and the creation of a claim, mark no claim for deletion.
LEMMA ControllersDeleteNone ==
    ASSUME NEW taken, Sync \/ Controllers(taken), NEW c \in Claims, ClusterTypeOK
    PROVE  ~Deleted(c)
<1> SUFFICES ASSUME pvc[c].here, ~pvc[c].dying
             PROVE  pvc'[c].here /\ ~pvc'[c].dying
  BY DEF Deleted
<1>1. pvc \in [Claims -> Pvcs]
  BY DEF ClusterTypeOK
<1>2. CASE pvc' = pvc
  BY <1>2
<1>3. ASSUME NEW d \in Claims, CreatePod(d) PROVE pvc'[c].here /\ ~pvc'[c].dying
  <2>1. CASE pvc[d].here
    BY <1>3, <2>1 DEF CreatePod, pvcVars
  <2>2. CASE ~pvc[d].here
    <3>1. pvc' = [pvc EXCEPT ![d] = [NoPvc EXCEPT !.here = TRUE]] /\ c # d
      BY <1>3, <2>2 DEF CreatePod, SetPvc
    <3> QED
      BY <1>1, <3>1
  <2> QED
    BY <2>1, <2>2
<1>4. ASSUME NEW d \in Claims, RemovePvc(d) PROVE pvc'[c].here /\ ~pvc'[c].dying
  <2>1. pvc' = [pvc EXCEPT ![d] = NoPvc] /\ c # d
    BY <1>4 DEF RemovePvc, CanRemovePvc, Release, SetPvc
  <2> QED
    BY <1>1, <2>1
<1>5. ASSUME NEW d \in Claims, NEW v, BindTo(d, v) PROVE pvc'[c].here /\ ~pvc'[c].dying
  <2>1. pvc' = [pvc EXCEPT ![d].bound = TRUE, ![d].vol = v]
    BY <1>5 DEF BindTo, SetPvc
  <2> QED
    BY <1>1, <2>1 DEF Pvcs
<1>6. CASE \E d \in Claims : BindFree(d) \/ Provision(d, taken)
  BY <1>5, <1>6 DEF BindFree, Provision
<1>7. CASE \/ \E d \in Claims : RunPod(d) \/ DeletePod(d) \/ Rebind(d) \/ TakeSnapshot(d)
           \/ \E v \in Vols : Reclaim(v)
           \/ Sync
  <2>1. pvc' = pvc
    BY <1>7 DEF RunPod, DeletePod, Rebind, TakeSnapshot, Reclaim, pvcVars,
                Sync, SyncSts, SyncPod, SyncPvc, SyncPv
  <2> QED
    BY <1>2, <2>1
<1> QED
  BY <1>3, <1>4, <1>6, <1>7 DEF Controllers

LEMMA SwapSafe ==
    ASSUME Down, [Next]_vars
    PROVE  \A c \in Claims : Deleted(c) => AppDown
<1> SUFFICES ASSUME NEW c \in Claims PROVE Deleted(c) => AppDown
  OBVIOUS
<1>1. TypeOK /\ ClusterTypeOK /\ PausedMeansDown
  BY DEF Down, TypeOK
<1>2. pvc' = pvc => ~Deleted(c)
  BY DEF Deleted
<1>3. CASE SwapStep
  BY <1>1, <1>3, SwapSteps DEF PausedMeansDown, Swapping
<1>4. CASE Environment
  BY <1>1, <1>4, ControllersDeleteNone DEF Environment
<1>5. CASE ~SwapStep /\ ~Environment
  <2>1. CASE Starts
    BY <1>1, <2>1, StartsOK, <1>2 DEF clusterVars, pvcVars
  <2>2. CASE Pause \/ Paused \/ Unpause \/ Unpaused \/ Reverted \/ Undone \/ Put
    <3>1. pvc' = pvc
      BY <2>2, <1>1, PutOK
         DEF Pause, Paused, Unpause, Unpaused, Reverted, Undone, Bound, clusterVars, pvcVars
    <3> QED
      BY <1>2, <3>1
  <2>3. CASE CallLost \/ Timeout \/ Crash \/ SyncRevert \/ Resync \/ UNCHANGED vars
    <3>1. pvc' = pvc
      BY <2>3 DEF CallLost, Timeout, Crash, SyncRevert, Resync, vars, clusterVars, pvcVars
    <3> QED
      BY <1>2, <3>1
  <2>4. ASSUME NEW a \in {"latest", "undo"}, Request(a) PROVE ~Deleted(c)
    BY <1>2, <2>4 DEF Request, clusterVars, pvcVars
  <2> QED
    BY <1>5, <2>1, <2>2, <2>3, <2>4 DEF Next, Steps, SwapStep
<1> QED
  BY <1>3, <1>4, <1>5

\* A claim is deleted only while the StatefulSet has no replicas and no pod, for any
\* number of claims, of requests, even in the middle of an action, and of faults,
\* provided that the caches of the StatefulSet and of the pods see the writes made
\* before an attempt; the cache of the SnapshotRevert itself may lag.
THEOREM SwapsCorrect ==
    ASSUME {"sts", "pods"} \subseteq Prompt
    PROVE  Spec => SwapOnlyWhenDown
<1>1. Init => Down
  BY DownInit
<1>2. Down /\ [Next]_vars => Down'
  BY DownStep
<1>3. Down /\ [Next]_vars => [\A c \in Claims : Deleted(c) => AppDown]_vars
  BY SwapSafe
<1> QED
  BY <1>1, <1>2, <1>3, PTL DEF Spec, SwapOnlyWhenDown

=============================================================================
