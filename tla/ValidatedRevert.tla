----------------------------- MODULE ValidatedRevert -----------------------------
(***************************************************************************)
(* Which snapshot goes where when a revert validates first: getSnapshots   *)
(* picks them for the ValidationRun and again at each attempt of           *)
(* revertSnapshots (pkg/manager/reverts.go); the run puts its snapshots    *)
(* into claims and objects that kustomization.go and KustomizeClaims       *)
(* rename, tests them and labels them (validator.go, validator_helper.go). *)
(*                                                                         *)
(* Of the rest this module has what the choice and the names depend on.    *)
(* The calls of the scale-down and the scale-up, and volumes, are in       *)
(* SnapshotReverts; the calls of a run, other runs of its strategy and the *)
(* lag of its cache are in ValidationRuns.                                 *)
(*                                                                         *)
(* Snapshots come and go: a SnapshotPolicy takes them and, with its        *)
(* retention, has them deleted.  A user may edit the window between two    *)
(* attempts; an edit during one makes its put fail (SnapshotReverts), like *)
(* one between this attempt and the next after a lost reply.               *)
(***************************************************************************)
EXTENDS Naturals, FiniteSets, SequencesExt

CONSTANTS
    OldClaims,    \* status.oldClaims: names, split at "-"
    Name,         \* the name of the StatefulSet, split at "-"
    Template,     \* statefulSet.claim of the strategy
    NamePrefix,   \* kustomization.namePrefix, split at "-"
    AdditionalResources,
    VolumeSource, \* the volume source of each old claim: its kind and id
    Snaps,        \* snapshots there may be
    Of,           \* the name of the claim each is of
    Foreign,      \* those that may be of a claim of that name in another namespace
    None,         \* no snapshot, no bound of the window
    Windows,      \* pairs fromTime, toTime a user may ask for
    MaxLabel,     \* characters a label may have: 63, LabelValueMaxLength
    MaxTime,      \* bound: seconds from the first snapshot to the last
    MaxFaults     \* bound: lost calls, crashes, deleted snapshots, edits of the window

Live == Range(OldClaims)

ASSUME ValidatedAssumption ==
    /\ OldClaims \in Seq(Seq(STRING)) /\ OldClaims # <<>> /\ IsInjective(OldClaims)
    /\ IsFiniteSet(Snaps) /\ Of \in [Snaps -> Live] /\ Foreign \subseteq Snaps
    /\ None \notin Snaps \cup Nat
    /\ \A w \in Windows : {w.from, w.to} \subseteq Nat \cup {None}
    /\ MaxLabel \in Nat /\ MaxTime \in Nat /\ MaxFaults \in Nat

\* One claim template, as the strategy has room for one; and a new name.
ASSUME StrategyAssumption ==
    /\ Template \in STRING /\ Name \in Seq(STRING)
    /\ \A n \in Live : n = <<Template>> \o Name \o <<Last(n)>>
    /\ NamePrefix \in Seq(STRING) \ {<<>>}

VARIABLES
    foreign,   \* snapshots of another namespace
    window,    \* spec.action.fromTime and toTime
    time,      \* creationTimestamp of each snapshot, 0 while the cache does not list it
    dropped,   \* snapshots that are deleted
    state,     \* state of the entry of status.reverts
    wk,        \* the worker of the SnapshotRevert
    run,       \* the ValidationRun
    claim,     \* claims, by name
    cclaim,    \* the claims of the StatefulSet in the cache
    app,       \* kustomized objects
    labelled,  \* snapshots with a label "validated-..."
    \* What happened, for the properties.
    tested,    \* pairs: a claim, and the snapshot that was tested in its place
    changed,   \* since the run was made, a snapshot of the window was listed, one of
               \* the run was deleted, or the window was edited
    faults

snapVars == <<foreign, window, time, dropped, changed>>
claimVars == <<claim, cclaim>>
runVars == <<run, app, labelled, tested>>
vars == <<snapVars, state, wk, runVars, claimVars, faults>>

----------------------------------------------------------------------------
(* Names *)

\* The renamed StatefulSet looks for these, one per pod.
NewName == NamePrefix \o Name
LookedFor(n) == <<Head(n)>> \o NewName \o <<Last(n)>>

\* KustomizeClaims: statefulSet.claim, the new name, and what follows the last "-".
\* Mutants: the prefix is forgotten; the id is looked for in the wrong place.
UnprefixedM(n) == <<Template>> \o Name \o <<Last(n)>>
KustomizedNameM(n) == <<Template>> \o NewName \o <<n[Len(n) - 1]>>
KustomizedName(n) == <<Template>> \o NewName \o <<Last(n)>>

Names == Live \cup {KustomizedName(n) : n \in Live} \cup {LookedFor(n) : n \in Live}

\* GetKustResources, and the file of each: Id.
StatefulSet == [group |-> "apps", version |-> "v1", kind |-> "StatefulSet", name |-> Name]
GetKustResources == <<StatefulSet>> \o AdditionalResources
Id(r) == SelectSeq(<<r.group, r.version, r.kind>>, LAMBDA part : part # "") \o r.name

\* getYamlObjectMap: what kustomize renders, one object for each file.
Rendered == {Id(r) : r \in Range(GetKustResources)}

----------------------------------------------------------------------------
(* Labels: getId and sanitizeLabel *)

KnownSources == {"cinder", "GCEPersistentDisk", "AWSElasticBlockStore", "HostPath",
    "Glusterfs", "NFS", "RBD", "ISCSI", "CephFS", "Flocker", "AzureFile", "VsphereVolume",
    "Quobyte", "AzureDisk", "PhotonPersistentDisk", "PortworxVolume", "Local", "StorageOS", "CSI"}

\* An id is a sequence of letters, "-", and "/" for any other character: each
\* stretch of what is not a letter becomes one "-".  Mutant: ids stay as they are.
SanitizeLabelM(id) == id
SanitizeLabel(id) ==
    FoldLeft(LAMBDA value, ch :
               IF ch \notin {"-", "/"} THEN Append(value, ch)
               ELSE IF value # <<>> /\ Last(value) = "-" THEN value ELSE Append(value, "-"),
             <<>>, id)

\* A label the API server takes.
ValidLabel(value) ==
    /\ Len(value) <= MaxLabel
    /\ value # <<>> => /\ "/" \notin Range(value)
                       /\ Head(value) # "-" /\ Last(value) # "-"

CanLabel(n) ==
    /\ VolumeSource[n].kind \in KnownSources
    /\ ValidLabel(SanitizeLabel(VolumeSource[n].id))

----------------------------------------------------------------------------
(* Data *)

NoSnaps == [n \in Live |-> None]
SnapMaps == [Live -> Snaps \cup {None}]

\* snap: the annotation, None for a claim of before.
ClaimRecords == [here : BOOLEAN, snap : Snaps \cup {None}, bound : BOOLEAN]
NoClaim == [here |-> FALSE, snap |-> None, bound |-> FALSE]
OldClaim == [here |-> TRUE, snap |-> None, bound |-> TRUE]
NewClaim(s) == [here |-> TRUE, snap |-> s, bound |-> FALSE]

\* How far the run is: made, kustomized, its claims and objects made, its job done,
\* validated; cleanup asked for, and done.
Phases == {"none", "made", "kustomized", "init", "tested", "validated", "cleanup", "gone"}

TypeOK ==
    /\ foreign \subseteq Foreign /\ window \in Windows
    /\ time \in [Snaps -> 0..MaxTime] /\ dropped \subseteq Snaps
    /\ state \in {"init", "paused", "reverted", "finished"}
    /\ wk \in [pc : {"idle", "delete", "create", "wait"}, i : DOMAIN OldClaims, sel : SnapMaps]
    /\ run \in [phase : Phases, map : SnapMaps, objects : [Live -> Names \cup {None}]]
    /\ run.phase # "none" => run.map \in [Live -> Snaps]
    /\ claim \in [Names -> ClaimRecords] /\ cclaim \in [Live -> ClaimRecords]
    /\ app \subseteq Rendered
    /\ labelled \subseteq Snaps /\ tested \subseteq Live \X Snaps
    /\ changed \in BOOLEAN /\ faults \in 0..MaxFaults

Fault == faults < MaxFaults /\ faults' = faults + 1

----------------------------------------------------------------------------
(* getSnapshots *)

IsBetween(pre, target, post) ==
    (pre # None => pre <= target) /\ (post # None => target <= post)

Seen == {s \in Snaps : time[s] # 0}
Listed == Seen \ dropped

InWindow(s) == IsBetween(window.from, time[s], window.to)

\* The loop over what ListSnapshots returns, in any order.  Mutant: the first stays.
LaterM(prev, s) == IF InWindow(s) /\ prev = None THEN s ELSE prev
Later(prev, s) == IF InWindow(s) /\ (prev = None \/ time[s] > time[prev]) THEN s ELSE prev
LatestOf(n) == {FoldLeft(Later, None, snaps) : snaps \in SetToSeqs({s \in Listed : Of[s] = n})}

\* What it may return; with a claim that has no snapshot it returns an error.
GetSnapshots ==
    LET latest == [n \in Live |-> LatestOf(n)]
    IN  {m \in [Live -> Snaps] : \A n \in Live : m[n] \in latest[n]}

----------------------------------------------------------------------------
(* The validation of the snapshots.  Each step is one or more phases of     *)
(* ValidationRuns.                                                          *)

RunRest == UNCHANGED <<snapVars, state, wk, cclaim>>

\* initRun and CreateValidationRun.  Mutant: any snapshot of the claim will do.
InitRunM == {m \in [Live -> Listed] : \A n \in Live : Of[m[n]] = n}
InitRun == GetSnapshots
CreateRun ==
    /\ state = "init" /\ run.phase = "none"
    /\ \E m \in InitRun : run' = [run EXCEPT !.phase = "made", !.map = m]
    /\ UNCHANGED <<snapVars, state, wk, app, labelled, tested, claimVars, faults>>

\* kustomize: getClaims finds each claim of the map in the cache.
Kustomize ==
    /\ run.phase = "made" /\ \A n \in Live : cclaim[n].here
    /\ run' = [run EXCEPT !.phase = "kustomized",
                          !.objects = [n \in Live |-> KustomizedName(n)]]
    /\ UNCHANGED <<app, labelled, tested, claim, faults>> /\ RunRest

\* init: createSnapshotPVCs, where a claim that exists is taken for the one to be
\* made, and createObjects.
CreateSnapshotPVCs ==
    [n \in Names |-> IF n \in Range(run.objects) /\ ~claim[n].here
                     THEN NewClaim(run.map[CHOOSE c \in Live : run.objects[c] = n])
                     ELSE claim[n]]
CreateObjects ==
    /\ run.phase = "kustomized"
    /\ claim' = CreateSnapshotPVCs /\ app' = Rendered
    /\ run' = [run EXCEPT !.phase = "init"]
    /\ UNCHANGED <<labelled, tested, faults>> /\ RunRest

\* The pods of the renamed StatefulSet run, with a new claim where there is none,
\* and the validation job succeeds.
Test ==
    /\ run.phase = "init" /\ Id(StatefulSet) \in app
    /\ \A n \in Live : claim[LookedFor(n)].here => claim[LookedFor(n)].bound
    /\ tested' = {<<n, claim[LookedFor(n)].snap>> : n \in Live} \cap (Live \X Snaps)
    /\ run' = [run EXCEPT !.phase = "tested"]
    /\ UNCHANGED <<app, labelled, claim, faults>> /\ RunRest

\* LabelSnapshot, with the snapshot of this name in the namespace of the run.  It
\* writes into the labels the snapshot has: those modelled here have some.
LabelSnapshot(n) ==
    /\ run.phase = "tested" /\ CanLabel(n)
    /\ run.map[n] \in Listed \ (foreign \cup labelled)
    /\ labelled' = labelled \cup {run.map[n]}
    /\ UNCHANGED <<run, app, tested, claim, faults>> /\ RunRest

Validated ==
    /\ run.phase = "tested" /\ Range(run.map) \subseteq labelled
    /\ run' = [run EXCEPT !.phase = "validated"]
    /\ UNCHANGED <<app, labelled, tested, claim, faults>> /\ RunRest

\* cleanup: the claims by name, the objects with the run that owns them.
Cleanup ==
    /\ run.phase = "cleanup"
    /\ run' = [run EXCEPT !.phase = "gone"] /\ app' = {}
    /\ claim' = [n \in Names |-> IF n \in Range(run.objects) THEN NoClaim ELSE claim[n]]
    /\ UNCHANGED <<labelled, tested, faults>> /\ RunRest

----------------------------------------------------------------------------
(* The revert *)

RevertRest == UNCHANGED <<snapVars, runVars, cclaim>>
Cur == OldClaims[wk.i]
Idle == [wk EXCEPT !.pc = "idle", !.i = 1]
\* Mutant: one claim too many.
NextClaimM(after) == IF wk.i <= Len(OldClaims) THEN [wk EXCEPT !.i = @ + 1]
                     ELSE [wk EXCEPT !.i = 1, !.pc = after]
NextClaim(after) == IF wk.i < Len(OldClaims) THEN [wk EXCEPT !.i = @ + 1]
                    ELSE [wk EXCEPT !.i = 1, !.pc = after]

\* A call that took effect: the worker goes on, or its reply is lost.
Reply(w) ==
    \/ wk' = w /\ UNCHANGED faults
    \/ wk' = Idle /\ Fault
Error == wk' = Idle /\ UNCHANGED faults

\* The end of runValidation, and pause.
Pause ==
    /\ state = "init" /\ run.phase = "validated"
    /\ run' = [run EXCEPT !.phase = "cleanup"] /\ state' = "paused"
    /\ UNCHANGED <<snapVars, wk, app, labelled, tested, claimVars, faults>>

\* revertSnapshots.
StartRevert ==
    /\ state = "paused" /\ wk.pc = "idle"
    /\ \E m \in GetSnapshots : wk' = [pc |-> "delete", i |-> 1, sel |-> m]
    /\ UNCHANGED <<state, claim, faults>> /\ RevertRest

\* DeletePVC: one the cache does not list is not there; one that is gone is an error.
DeletePVC ==
    /\ wk.pc = "delete"
    /\ IF ~cclaim[Cur].here THEN wk' = NextClaim("create") /\ UNCHANGED <<claim, faults>>
       ELSE IF claim[Cur].here
            THEN claim' = [claim EXCEPT ![Cur] = NoClaim] /\ Reply(NextClaim("create"))
            ELSE Error /\ UNCHANGED claim
    /\ UNCHANGED state /\ RevertRest

\* CreatePVC of AttachSnapshot.  Mutant: that the claim exists is no error.
CreatePVCM ==
    /\ wk.pc = "create"
    /\ claim' = IF claim[Cur].here THEN claim ELSE [claim EXCEPT ![Cur] = NewClaim(wk.sel[Cur])]
    /\ Reply(NextClaim("wait"))
    /\ UNCHANGED state /\ RevertRest
CreatePVC ==
    /\ wk.pc = "create"
    /\ IF claim[Cur].here
       THEN Error /\ UNCHANGED claim
       ELSE claim' = [claim EXCEPT ![Cur] = NewClaim(wk.sel[Cur])] /\ Reply(NextClaim("wait"))
    /\ UNCHANGED state /\ RevertRest

\* PvcsBound, and the put of the state.
Reverted ==
    /\ wk.pc = "wait" /\ \A n \in Live : cclaim[n].here /\ cclaim[n].bound
    /\ \/ state' = "reverted" /\ UNCHANGED faults
       \/ Fault /\ UNCHANGED state
    /\ wk' = Idle
    /\ UNCHANGED claim /\ RevertRest

\* The wait gives up: early, or because a claim will not be bound.
Unbindable(n) == claim[n].here /\ ~claim[n].bound /\ claim[n].snap \in foreign \cup dropped
Hopeless == \E n \in Live : cclaim[n] = claim[n] /\ Unbindable(n)
Timeout ==
    /\ wk.pc = "wait"
    /\ wk' = Idle
    /\ \/ Hopeless /\ UNCHANGED faults
       \/ Fault
    /\ UNCHANGED <<state, claim>> /\ RevertRest

CallLost ==
    /\ wk.pc \in {"delete", "create"} /\ Fault /\ wk' = Idle
    /\ UNCHANGED <<state, claim>> /\ RevertRest

\* unpause: the pods run, so their claims are bound.
Unpause ==
    /\ state = "reverted" /\ \A n \in Live : claim[n].here /\ claim[n].bound
    /\ state' = "finished"
    /\ UNCHANGED <<wk, claim, faults>> /\ RevertRest

----------------------------------------------------------------------------
(* The cluster, the caches, and crashes *)

Rest == UNCHANGED <<foreign, state, runVars>>

\* The cache lists a snapshot, which may be older than others it lists, or taken
\* within the same second.
ListSnapshot(s) ==
    /\ time[s] = 0
    /\ \E t \in 1..MaxTime :
         /\ time' = [time EXCEPT ![s] = t]
         /\ changed' = (changed \/ (run.phase # "none" /\ IsBetween(window.from, t, window.to)))
    /\ UNCHANGED <<window, dropped, wk, claimVars, faults>> /\ Rest

\* By a user, or by the retention of the SnapshotPolicy.
DropSnapshot(s) ==
    /\ s \in Listed /\ Fault
    /\ dropped' = dropped \cup {s}
    /\ changed' = (changed \/ (run.phase # "none" /\ s \in Range(run.map)))
    /\ UNCHANGED <<window, time, wk, claimVars>> /\ Rest

EditWindow ==
    /\ wk.pc = "idle" /\ Fault
    /\ window' \in Windows \ {window}
    /\ changed' = (changed \/ run.phase # "none")
    /\ UNCHANGED <<time, dropped, wk, claimVars>> /\ Rest

SyncClaim(n) ==
    /\ cclaim[n] # claim[n] /\ cclaim' = [cclaim EXCEPT ![n] = claim[n]]
    /\ UNCHANGED <<window, time, dropped, changed, wk, claim, faults>> /\ Rest

\* The provisioner finds a snapshot by its name in the namespace of the claim.
Bind(n) ==
    /\ claim[n].here /\ ~claim[n].bound /\ claim[n].snap \notin foreign \cup dropped
    /\ claim' = [claim EXCEPT ![n].bound = TRUE]
    /\ UNCHANGED <<window, time, dropped, changed, wk, cclaim, faults>> /\ Rest

\* The process stops, and starts with full caches.
Crash ==
    /\ Fault /\ wk' = Idle
    /\ cclaim' = [n \in Live |-> claim[n]]
    /\ UNCHANGED <<window, time, dropped, changed, claim>> /\ Rest

----------------------------------------------------------------------------

Init ==
    /\ foreign \in SUBSET Foreign /\ window \in Windows
    /\ time = [s \in Snaps |-> 0] /\ dropped = {}
    /\ state = "init" /\ wk = [pc |-> "idle", i |-> 1, sel |-> NoSnaps]
    /\ run = [phase |-> "none", map |-> NoSnaps, objects |-> NoSnaps]
    /\ claim = [n \in Names |-> IF n \in Live THEN OldClaim ELSE NoClaim]
    /\ cclaim = [n \in Live |-> claim[n]]
    /\ app = {} /\ labelled = {} /\ tested = {}
    /\ changed = FALSE /\ faults = 0

StepRun ==
    \/ CreateRun \/ Kustomize \/ CreateObjects \/ Test \/ Validated \/ Cleanup
    \/ \E n \in Live : LabelSnapshot(n)

Attempt == StartRevert \/ DeletePVC \/ CreatePVC \/ Reverted \/ Unpause \/ Pause

Next ==
    \/ StepRun \/ Attempt \/ Timeout \/ CallLost \/ Crash \/ EditWindow
    \/ \E s \in Snaps : ListSnapshot(s) \/ DropSnapshot(s)
    \/ \E n \in Live : SyncClaim(n)
    \/ \E n \in Names : Bind(n)

Spec == Init /\ [][Next]_vars

\* Workers and watches run, the provisioner binds what it can.
Fairness ==
    /\ WF_vars(StepRun) /\ WF_vars(Attempt)
    /\ \A n \in Live : WF_vars(SyncClaim(n))
    /\ \A n \in Names : WF_vars(Bind(n))

LiveSpec == Spec /\ Fairness

----------------------------------------------------------------------------
(* Properties *)

\* Whatever the order in which the cache lists them, each claim gets one of the
\* newest listed snapshots of its name in the window, the bounds included.
Newest(n) ==
    LET found == {s \in Listed : /\ Of[s] = n
                                 /\ window.from = None \/ window.from <= time[s]
                                 /\ window.to = None \/ time[s] <= window.to}
    IN  {s \in found : \A o \in found : time[o] <= time[s]}
PickNewest ==
    [][/\ run'.map # run.map => \A n \in Live : run'.map[n] \in Newest(n)
       /\ wk'.sel # wk.sel => \A n \in Live : wk'.sel[n] \in Newest(n)]_vars

\* A revert that took several attempts restores all its claims from what the last
\* one has picked, never some from an earlier pick.
OneSet ==
    state \in {"reverted", "finished"} => \A n \in Live : claim[n].here /\ claim[n].snap = wk.sel[n]

\* What is restored is what was validated, unless since the run was made a snapshot
\* of the window was listed, one of the run was deleted, or the window was edited;
\* or two of one claim have the same time.
Tie == \E s, o \in Seen : s # o /\ Of[s] = Of[o] /\ time[s] = time[o]
RestoresValidated ==
    state = "finished" => changed \/ Tie \/ \A n \in Live : claim[n].snap = run.map[n]

\* A labelled snapshot was tested, in the place of the claim it is of.
LabelsTested == \A s \in labelled : <<Of[s], s>> \in tested

\* A claim of the StatefulSet is deleted by the revert that was paused for it, not
\* by the cleanup of a run.
LiveKept ==
    [][\A n \in Live : claim[n].here /\ ~claim'[n].here => state = "paused" /\ wk.pc = "delete"]_vars

\* A revert ends when each claim keeps a snapshot in its window, none is of another
\* namespace, and the ids of the volumes start and end with a letter and are no longer
\* than a label may be, with one character for what is between two letters; unless a
\* snapshot was deleted, which the run may wait for.
Candidates == {s \in Listed : InWindow(s)}
Letters(id) == {i \in DOMAIN id : id[i] \notin {"-", "/"}}
Kept(id) == {i \in DOMAIN id : i = 1 \/ {i - 1, i} \cap Letters(id) # {}}
Plain(n) == LET id == VolumeSource[n].id
            IN  /\ VolumeSource[n].kind \in KnownSources
                /\ {1, Len(id)} \subseteq Letters(id)
                /\ Cardinality(Kept(id)) <= MaxLabel
Ends ==
    (/\ \A n \in Live : Plain(n)
     /\ <>[](\A n \in Live : \E s \in Candidates : Of[s] = n))
    => <>(state = "finished" \/ Candidates \cap foreign # {} \/ dropped # {})
=============================================================================
