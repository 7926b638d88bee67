------------------------- MODULE ValidatedRevertProofs -------------------------
(***************************************************************************)
(* What TLAPS proves of ValidatedRevert, for any number of claims and      *)
(* snapshots, any windows and resources, any faults: that a run keeps away *)
(* from the claims of the StatefulSet and labels what it has tested, that  *)
(* getSnapshots picks the newest, that a revert of many attempts restores  *)
(* the choice of one, and what has been validated.                         *)
(***************************************************************************)
EXTENDS ValidatedRevert, FiniteSetTheorems, WellFoundedInduction, TLAPS

----------------------------------------------------------------------------
(* Names *)

\* A kustomized claim has a longer name than those of the StatefulSet.
LEMMA NamesApart == \A n, m \in Live : KustomizedName(n) # m
<1>. SUFFICES ASSUME NEW n \in Live, NEW m \in Live PROVE KustomizedName(n) # m
  OBVIOUS
<1>1. n \in Seq(STRING) /\ m \in Seq(STRING)
  BY ValidatedAssumption DEF Live, Range
<1>2. /\ Name \in Seq(STRING) /\ NamePrefix \in Seq(STRING) /\ NamePrefix # <<>>
      /\ Template \in STRING /\ m = <<Template>> \o Name \o <<Last(m)>>
  BY StrategyAssumption, Zenon
<1>3. \A x : Len(<<Template>> \o Name \o <<x>>) = Len(Name) + 2
  BY <1>2
<1>4. \A x : Len(<<Template>> \o (NamePrefix \o Name) \o <<x>>) = Len(NamePrefix) + Len(Name) + 2
  BY <1>2
<1>5. Len(NamePrefix) > 0 /\ Len(Name) \in Nat /\ Len(NamePrefix) \in Nat
  BY <1>2
<1>6. Len(m) = Len(Name) + 2
  BY <1>2, <1>3
<1>7. Len(KustomizedName(n)) = Len(NamePrefix) + Len(Name) + 2
  BY <1>4 DEF KustomizedName, NewName
<1>. QED BY <1>5, <1>6, <1>7

LEMMA SomeClaims ==
    /\ Len(OldClaims) \in Nat \ {0} /\ DOMAIN OldClaims = 1..Len(OldClaims)
    /\ \A i \in 1..Len(OldClaims) : OldClaims[i] \in Live
    /\ \A n \in Live : \E i \in 1..Len(OldClaims) : OldClaims[i] = n
    /\ \A i, j \in 1..Len(OldClaims) : OldClaims[i] = OldClaims[j] => i = j
  BY ValidatedAssumption DEF Live, Range, IsInjective

----------------------------------------------------------------------------
(* Types *)

LEMMA InitType == Init => TypeOK
<1>. SUFFICES ASSUME Init PROVE TypeOK
  OBVIOUS
<1>1. 1 \in DOMAIN OldClaims
  BY SomeClaims
<1>2. /\ NoClaim \in ClaimRecords /\ OldClaim \in ClaimRecords /\ NoSnaps \in SnapMaps
  BY DEF NoClaim, OldClaim, ClaimRecords, NoSnaps, SnapMaps
<1>3. Live \subseteq Names
  BY DEF Names
<1>4. claim \in [Names -> ClaimRecords] /\ cclaim \in [Live -> ClaimRecords]
  BY <1>2, <1>3 DEF Init
<1>5. /\ run \in [phase : Phases, map : SnapMaps, objects : [Live -> Names \cup {None}]]
      /\ wk \in [pc : {"idle", "delete", "create", "wait"}, i : DOMAIN OldClaims, sel : SnapMaps]
  BY <1>1, <1>2 DEF Init, Phases, NoSnaps
<1>6. /\ faults \in 0..MaxFaults /\ time \in [Snaps -> 0..MaxTime]
      /\ foreign \subseteq Foreign /\ window \in Windows /\ run.phase = "none"
  BY ValidatedAssumption DEF Init
<1>. QED BY <1>4, <1>5, <1>6 DEF Init, TypeOK

WkRecords == [pc : {"idle", "delete", "create", "wait"}, i : DOMAIN OldClaims, sel : SnapMaps]

LEMMA Moves ==
    ASSUME wk \in WkRecords, NEW after \in {"create", "wait"}
    PROVE  NextClaim(after) \in WkRecords /\ Idle \in WkRecords /\ Cur \in Live
<1>1. wk.i \in 1..Len(OldClaims)
  BY SomeClaims DEF WkRecords
<1>0. 1 \in DOMAIN OldClaims
  BY SomeClaims
<1>2. Idle \in WkRecords
  BY <1>0 DEF WkRecords, Idle
<1>3. Cur \in Live
  BY <1>1, SomeClaims DEF Cur
<1>4. CASE wk.i < Len(OldClaims)
  <2>1. wk.i + 1 \in DOMAIN OldClaims
    BY <1>1, <1>4, SomeClaims
  <2>2. [wk EXCEPT !.i = @ + 1] \in WkRecords
    BY <2>1 DEF WkRecords
  <2>. QED BY <1>2, <1>3, <1>4, <2>2 DEF NextClaim
<1>5. CASE ~(wk.i < Len(OldClaims))
  <2>1. [wk EXCEPT !.i = 1, !.pc = after] \in WkRecords
    BY <1>0 DEF WkRecords
  <2>. QED BY <1>2, <1>3, <1>5, <2>1 DEF NextClaim
<1>. QED BY <1>4, <1>5

LEMMA RunType == TypeOK /\ StepRun => TypeOK'
<1>. SUFFICES ASSUME TypeOK, StepRun PROVE TypeOK'
  OBVIOUS
<1>. USE DEF TypeOK, RunRest, snapVars, claimVars
<1>0. \A n \in Live : KustomizedName(n) \in Names /\ n \in Names
  BY DEF Names
<1>1. CASE CreateRun
  <2>1. PICK m \in GetSnapshots : run' = [run EXCEPT !.phase = "made", !.map = m]
    BY <1>1 DEF CreateRun, InitRun
  <2>2. m \in SnapMaps /\ m \in [Live -> Snaps]
    BY <2>1 DEF GetSnapshots, SnapMaps
  <2>. QED BY <1>1, <2>1, <2>2 DEF CreateRun, Phases
<1>2. CASE Kustomize
  BY <1>0, <1>2 DEF Kustomize, Phases
<1>3. CASE CreateObjects
  <2>1. \A n \in Names : CreateSnapshotPVCs[n] \in ClaimRecords
    <3>. SUFFICES ASSUME NEW n \in Names, n \in Range(run.objects)
                  PROVE  NewClaim(run.map[CHOOSE c \in Live : run.objects[c] = n]) \in ClaimRecords
      BY DEF CreateSnapshotPVCs
    <3>1. \E c \in Live : run.objects[c] = n
      BY DEF Range
    <3>2. (CHOOSE c \in Live : run.objects[c] = n) \in Live
      BY <3>1
    <3>. QED BY <3>2 DEF NewClaim, ClaimRecords, SnapMaps
  <2>2. CreateSnapshotPVCs \in [Names -> ClaimRecords]
    BY <2>1 DEF CreateSnapshotPVCs
  <2>. QED BY <1>3, <2>2 DEF CreateObjects, Phases
<1>4. CASE Test
  BY <1>4 DEF Test, Phases
<1>5. CASE Validated
  BY <1>5 DEF Validated, Phases
<1>6. CASE Cleanup
  <2>1. claim' \in [Names -> ClaimRecords]
    BY <1>6 DEF Cleanup, NoClaim, ClaimRecords
  <2>. QED BY <1>6, <2>1 DEF Cleanup, Phases
<1>7. ASSUME NEW n \in Live, LabelSnapshot(n) PROVE TypeOK'
  <2>1. run.map[n] \in Snaps
    BY <1>7 DEF LabelSnapshot
  <2>. QED BY <1>7, <2>1 DEF LabelSnapshot
<1>. QED BY <1>1, <1>2, <1>3, <1>4, <1>5, <1>6, <1>7 DEF StepRun

LEMMA RevertType ==
    ASSUME TypeOK,
           StartRevert \/ DeletePVC \/ CreatePVC \/ Reverted \/ Unpause \/ Pause
             \/ Timeout \/ CallLost
    PROVE  TypeOK'
<1>. USE DEF TypeOK, RevertRest, snapVars, runVars, claimVars
<1>. DEFINE Moved == wk' \in WkRecords /\ faults' \in 0..MaxFaults
            Sized == /\ claim' \in [Names -> ClaimRecords]
                     /\ state' \in {"init", "paused", "reverted", "finished"}
<1>1. wk \in WkRecords /\ MaxFaults \in Nat /\ Live \subseteq Names
  BY ValidatedAssumption DEF WkRecords, Names
<1>2. /\ Idle \in WkRecords /\ Cur \in Live
      /\ NextClaim("create") \in WkRecords /\ NextClaim("wait") \in WkRecords
  BY <1>1, Moves
<1>3. \A w \in WkRecords : Reply(w) => Moved
  BY <1>1, <1>2 DEF Reply, Fault
<1>4. Error => Moved
  BY <1>2 DEF Error
<1>5. CASE StartRevert
  <2>1. PICK m \in GetSnapshots : wk' = [pc |-> "delete", i |-> 1, sel |-> m]
    BY <1>5 DEF StartRevert
  <2>2. m \in SnapMaps /\ 1 \in DOMAIN OldClaims
    BY SomeClaims DEF GetSnapshots, SnapMaps
  <2>3. wk' \in WkRecords
    BY <2>1, <2>2 DEF WkRecords
  <2>. QED BY <1>5, <2>3 DEF StartRevert, WkRecords
<1>6. CASE DeletePVC
  <2>1. Moved
    BY <1>2, <1>3, <1>4, <1>6 DEF DeletePVC
  <2>2. claim' = claim \/ claim' = [claim EXCEPT ![Cur] = NoClaim]
    BY <1>6 DEF DeletePVC
  <2>3. NoClaim \in ClaimRecords
    BY DEF NoClaim, ClaimRecords
  <2>4. state' = state
    BY <1>6 DEF DeletePVC
  <2>5. Sized
    BY <1>1, <1>2, <2>2, <2>3, <2>4
  <2>. QED BY <1>6, <2>1, <2>5 DEF DeletePVC, WkRecords
<1>7. CASE CreatePVC
  <2>1. Moved
    BY <1>2, <1>3, <1>4, <1>7 DEF CreatePVC
  <2>2. NewClaim(wk.sel[Cur]) \in ClaimRecords
    BY <1>1, <1>2 DEF NewClaim, ClaimRecords, WkRecords, SnapMaps
  <2>3. Sized
    BY <1>1, <1>2, <1>7, <2>2 DEF CreatePVC
  <2>. QED BY <1>7, <2>1, <2>3 DEF CreatePVC, WkRecords
<1>8. CASE Reverted
  <2>1. Moved
    BY <1>1, <1>2, <1>8 DEF Reverted, Fault
  <2>. QED BY <1>8, <2>1 DEF Reverted, WkRecords
<1>9. CASE Unpause
  BY <1>9 DEF Unpause
<1>10. CASE Pause
  BY <1>10 DEF Pause, Phases
<1>11. CASE Timeout
  <2>1. Moved
    BY <1>1, <1>2, <1>11 DEF Timeout, Fault
  <2>. QED BY <1>11, <2>1 DEF Timeout, WkRecords
<1>12. CASE CallLost
  <2>1. Moved
    BY <1>1, <1>2, <1>12 DEF CallLost, Fault
  <2>. QED BY <1>12, <2>1 DEF CallLost, WkRecords
<1>. QED BY <1>5, <1>6, <1>7, <1>8, <1>9, <1>10, <1>11, <1>12

LEMMA ClusterType ==
    ASSUME TypeOK,
           \/ Crash \/ EditWindow
           \/ \E s \in Snaps : ListSnapshot(s) \/ DropSnapshot(s)
           \/ \E n \in Live : SyncClaim(n)
           \/ \E n \in Names : Bind(n)
    PROVE  TypeOK'
<1>. USE DEF TypeOK, Rest, snapVars, runVars, claimVars
<1>1. wk \in WkRecords /\ MaxFaults \in Nat /\ MaxTime \in Nat /\ Live \subseteq Names
  BY ValidatedAssumption DEF WkRecords, Names
<1>2. CASE Crash
  <2>1. wk' \in WkRecords /\ faults' \in 0..MaxFaults
    BY <1>1, <1>2, Moves DEF Crash, Fault
  <2>2. cclaim' \in [Live -> ClaimRecords]
    BY <1>1, <1>2 DEF Crash
  <2>. QED BY <1>2, <2>1, <2>2 DEF Crash, WkRecords
<1>3. ASSUME NEW s \in Snaps, ListSnapshot(s) PROVE TypeOK'
  BY <1>1, <1>3 DEF ListSnapshot
<1>4. ASSUME NEW n \in Live, SyncClaim(n) PROVE TypeOK'
  BY <1>1, <1>4 DEF SyncClaim
<1>5. ASSUME NEW n \in Names, Bind(n) PROVE TypeOK'
  <2>1. claim' = [claim EXCEPT ![n] = [claim[n] EXCEPT !.bound = TRUE]]
    BY <1>5 DEF Bind
  <2>2. [claim[n] EXCEPT !.bound = TRUE] \in ClaimRecords
    <3>1. claim[n] \in ClaimRecords
      OBVIOUS
    <3>. QED BY <3>1 DEF ClaimRecords
  <2>3. claim' \in [Names -> ClaimRecords]
    BY <2>1, <2>2
  <2>. QED BY <1>5, <2>3 DEF Bind
<1>6. ASSUME NEW s \in Snaps, DropSnapshot(s) PROVE TypeOK'
  BY <1>1, <1>6 DEF DropSnapshot, Fault
<1>7. CASE EditWindow
  BY <1>1, <1>7 DEF EditWindow, Fault
<1>. QED BY <1>2, <1>3, <1>4, <1>5, <1>6, <1>7

LEMMA TypeStep == TypeOK /\ [Next]_vars => TypeOK'
<1>1. TypeOK /\ UNCHANGED vars => TypeOK'
  BY DEF TypeOK, vars, snapVars, runVars, claimVars
<1>2. Next <=> \/ StepRun
               \/ StartRevert \/ DeletePVC \/ CreatePVC \/ Reverted \/ Unpause \/ Pause
                    \/ Timeout \/ CallLost
               \/ \/ Crash \/ EditWindow
                  \/ \E s \in Snaps : ListSnapshot(s) \/ DropSnapshot(s)
                  \/ \E n \in Live : SyncClaim(n)
                  \/ \E n \in Names : Bind(n)
  BY Zenon DEF Next, Attempt
<1>. QED BY <1>1, <1>2, RunType, RevertType, ClusterType

\* Types are kept for any claims and faults, and the worker of a revert stays within
\* the list of claims it goes through.
THEOREM TypeCorrect == Spec => []TypeOK
  BY InitType, TypeStep, PTL DEF Spec

----------------------------------------------------------------------------
(* The claims of the StatefulSet, and those of the run *)

\* What a run names its claims, and how far the revert may be.
RunOK ==
    /\ run.phase \notin {"none", "made"} => \A n \in Live : run.objects[n] = KustomizedName(n)
    /\ run.phase \in {"cleanup", "gone"} <=> state # "init"

\* Nothing but the revert takes a claim of the StatefulSet away, and nothing else
\* than the revert and the binder changes one.
LEMMA RunKeepsLive ==
    ASSUME TypeOK, RunOK, StepRun
    PROVE  RunOK' /\ \A n \in Live : claim'[n] = claim[n]
<1>. USE DEF RunRest, snapVars, claimVars
<1>1. Live \subseteq Names
  BY DEF Names
<1>2. CASE CreateRun
  <2>1. PICK m \in GetSnapshots : run' = [run EXCEPT !.phase = "made", !.map = m]
    BY <1>2 DEF CreateRun, InitRun
  <2>2. run'.phase = "made" /\ run.phase = "none"
    BY <1>2, <2>1 DEF CreateRun, TypeOK
  <2>. QED BY <1>2, <2>2 DEF CreateRun, RunOK
<1>3. CASE Kustomize
  <2>1. /\ run'.phase = "kustomized" /\ run.phase = "made"
        /\ run'.objects = [n \in Live |-> KustomizedName(n)]
    BY <1>3 DEF Kustomize, TypeOK
  <2>. QED BY <1>3, <2>1 DEF Kustomize, RunOK
<1>4. CASE CreateObjects
  <2>1. run'.phase = "init" /\ run.phase = "kustomized" /\ run'.objects = run.objects
    BY <1>4 DEF CreateObjects, TypeOK
  <2>2. \A n \in Live : n \notin Range(run.objects)
    BY <2>1, NamesApart DEF RunOK, Range, TypeOK
  <2>3. \A n \in Live : claim'[n] = claim[n]
    BY <1>1, <1>4, <2>2 DEF CreateObjects, CreateSnapshotPVCs
  <2>. QED BY <1>4, <2>1, <2>3 DEF CreateObjects, RunOK
<1>5. CASE Test
  <2>1. run'.phase = "tested" /\ run.phase = "init" /\ run'.objects = run.objects
    BY <1>5 DEF Test, TypeOK
  <2>. QED BY <1>5, <2>1 DEF Test, RunOK
<1>6. CASE Validated
  <2>1. run'.phase = "validated" /\ run.phase = "tested" /\ run'.objects = run.objects
    BY <1>6 DEF Validated, TypeOK
  <2>. QED BY <1>6, <2>1 DEF Validated, RunOK
<1>7. CASE Cleanup
  <2>1. run'.phase = "gone" /\ run.phase = "cleanup" /\ run'.objects = run.objects
    BY <1>7 DEF Cleanup, TypeOK
  <2>2. \A n \in Live : n \notin Range(run.objects)
    BY <2>1, NamesApart DEF RunOK, Range, TypeOK
  <2>3. \A n \in Live : claim'[n] = claim[n]
    BY <1>1, <1>7, <2>2 DEF Cleanup
  <2>. QED BY <1>7, <2>1, <2>3 DEF Cleanup, RunOK
<1>8. ASSUME NEW n \in Live, LabelSnapshot(n) PROVE RunOK' /\ UNCHANGED claim
  BY <1>8 DEF LabelSnapshot, RunOK
<1>. QED BY <1>2, <1>3, <1>4, <1>5, <1>6, <1>7, <1>8 DEF StepRun

LEMMA BindKeeps ==
    ASSUME TypeOK, NEW n \in Names, Bind(n)
    PROVE  \A m \in Live : claim'[m].here = claim[m].here /\ claim'[m].snap = claim[m].snap
<1>1. claim' = [claim EXCEPT ![n] = [claim[n] EXCEPT !.bound = TRUE]]
  BY DEF Bind
<1>2. claim[n] \in ClaimRecords /\ claim \in [Names -> ClaimRecords] /\ Live \subseteq Names
  BY DEF TypeOK, Names
<1>3. LET b == [claim[n] EXCEPT !.bound = TRUE]
      IN  b.here = claim[n].here /\ b.snap = claim[n].snap
  BY <1>2 DEF ClaimRecords
<1>. QED BY <1>1, <1>2, <1>3

----------------------------------------------------------------------------
(* The choice of one attempt *)

Landed(k) == \A j \in 1..k : /\ claim[OldClaims[j]].here
                             /\ claim[OldClaims[j]].snap = wk.sel[OldClaims[j]]

\* Once an attempt creates claims, those it has been at hold what it has picked.
Swap ==
    /\ wk.pc # "idle" => state = "paused"
    /\ wk.pc = "create" => Landed(wk.i - 1)
    /\ wk.pc = "wait" => Landed(Len(OldClaims))
    /\ state \in {"reverted", "finished"} => Landed(Len(OldClaims))

LEMMA IdleFields ==
    wk \in WkRecords => Idle.pc = "idle" /\ Idle.sel = wk.sel /\ Idle.i = 1
  BY DEF WkRecords, Idle

LEMMA Undisturbed ==
    ASSUME TypeOK, Swap, state' = state,
           wk' = wk \/ (wk'.pc = "idle" /\ wk'.sel = wk.sel),
           \A m \in Live : claim'[m].here = claim[m].here /\ claim'[m].snap = claim[m].snap
    PROVE  Swap'
<1>1. wk.i \in 1..Len(OldClaims)
  BY SomeClaims DEF TypeOK
<1>2. \A k \in 0..Len(OldClaims) : Landed(k) => Landed(k)'
  BY SomeClaims DEF Landed
<1>3. wk.i - 1 \in 0..Len(OldClaims) /\ Len(OldClaims) \in 0..Len(OldClaims)
  BY <1>1, SomeClaims
<1>. QED BY <1>2, <1>3 DEF Swap

LEMMA DeleteSwap == TypeOK /\ Swap /\ DeletePVC => Swap'
<1>. SUFFICES ASSUME TypeOK, Swap, DeletePVC PROVE Swap'
  OBVIOUS
<1>1. wk \in WkRecords /\ state' = state /\ state = "paused"
  BY DEF TypeOK, WkRecords, DeletePVC, Swap
<1>2. wk'.pc \in {"idle", "delete"} \/ (wk'.pc = "create" /\ wk'.i = 1)
  <2>1. wk' = Idle \/ wk' = NextClaim("create")
    BY DEF DeletePVC, Reply, Error
  <2>2. NextClaim("create").pc = "delete"
          \/ (NextClaim("create").pc = "create" /\ NextClaim("create").i = 1)
    BY <1>1 DEF NextClaim, WkRecords, DeletePVC
  <2>. QED BY <1>1, <2>1, <2>2, IdleFields
<1>3. Landed(0)'
  BY DEF Landed
<1>. QED BY <1>1, <1>2, <1>3 DEF Swap

LEMMA CreateSwap == TypeOK /\ Swap /\ CreatePVC => Swap'
<1>. SUFFICES ASSUME TypeOK, Swap, CreatePVC PROVE Swap'
  OBVIOUS
<1>1. wk \in WkRecords /\ state' = state /\ state = "paused" /\ wk.pc = "create"
  BY DEF TypeOK, WkRecords, CreatePVC, Swap
<1>2. wk.i \in 1..Len(OldClaims) /\ Live \subseteq Names /\ Len(OldClaims) \in Nat
  BY <1>1, SomeClaims DEF WkRecords, Names
<1>3. CASE wk' = Idle
  BY <1>1, <1>3, IdleFields DEF Swap
<1>4. CASE wk' = NextClaim("wait") /\ wk' # Idle
  <2>1. claim' = [claim EXCEPT ![Cur] = NewClaim(wk.sel[Cur])]
    BY <1>4 DEF CreatePVC, Error
  <2>2. wk'.sel = wk.sel
    BY <1>1, <1>4 DEF NextClaim, WkRecords
  <2>3. ASSUME NEW j \in 1..wk.i
        PROVE  /\ claim'[OldClaims[j]].here
               /\ claim'[OldClaims[j]].snap = wk.sel[OldClaims[j]]
    <3>1. OldClaims[j] \in Names /\ j \in 1..Len(OldClaims)
      BY <1>2, SomeClaims
    <3>2. CASE j = wk.i
      BY <2>1, <3>1, <3>2 DEF TypeOK, Cur, NewClaim
    <3>3. CASE j # wk.i
      <4>1. OldClaims[j] # Cur
        BY <1>2, <3>1, <3>3, SomeClaims DEF Cur
      <4>2. j \in 1..(wk.i - 1)
        BY <1>2, <3>3
      <4>3. claim[OldClaims[j]].here /\ claim[OldClaims[j]].snap = wk.sel[OldClaims[j]]
        BY <1>1, <4>2 DEF Swap, Landed
      <4>. QED BY <2>1, <3>1, <4>1, <4>3 DEF TypeOK
    <3>. QED BY <3>2, <3>3
  <2>4. CASE wk.i < Len(OldClaims)
    <3>1. wk'.pc = "create" /\ wk'.i = wk.i + 1
      BY <1>1, <1>4, <2>4 DEF NextClaim, WkRecords
    <3>2. wk'.i - 1 = wk.i
      BY <1>2, <3>1
    <3>3. wk'.pc = "create" => Landed(wk.i - 1)'
      BY <2>2, <2>3, <3>2 DEF Landed
    <3>. QED BY <1>1, <3>1, <3>3 DEF Swap
  <2>5. CASE ~(wk.i < Len(OldClaims))
    <3>1. wk'.pc = "wait" /\ wk.i = Len(OldClaims)
      BY <1>1, <1>2, <1>4, <2>5 DEF NextClaim, WkRecords
    <3>2. Landed(Len(OldClaims))'
      BY <2>2, <2>3, <3>1 DEF Landed
    <3>. QED BY <1>1, <3>1, <3>2 DEF Swap
  <2>. QED BY <2>4, <2>5
<1>. QED BY <1>3, <1>4 DEF CreatePVC, Reply, Error

LEMMA RestSwap ==
    ASSUME TypeOK, Swap, StartRevert \/ Reverted \/ Timeout \/ CallLost \/ Unpause
    PROVE  Swap'
<1>. USE DEF RevertRest, snapVars, runVars, claimVars
<1>1. wk \in WkRecords
  BY DEF TypeOK, WkRecords
<1>2. CASE StartRevert
  <2>1. state' = state /\ state = "paused" /\ wk'.pc = "delete"
    BY <1>2 DEF StartRevert
  <2>. QED BY <2>1 DEF Swap
<1>3. CASE Reverted
  <2>1. wk'.pc = "idle" /\ wk'.sel = wk.sel /\ Landed(Len(OldClaims)) /\ claim' = claim
    BY <1>1, <1>3, IdleFields DEF Reverted, Swap
  <2>2. Landed(Len(OldClaims))'
    BY <2>1 DEF Landed
  <2>. QED BY <2>1, <2>2 DEF Swap
<1>4. CASE Timeout
  BY <1>1, <1>4, IdleFields, Undisturbed DEF Timeout
<1>5. CASE CallLost
  BY <1>1, <1>5, IdleFields, Undisturbed DEF CallLost
<1>6. CASE Unpause
  <2>1. Landed(Len(OldClaims))' /\ wk' = wk /\ wk.pc = "idle"
    BY <1>1, <1>6 DEF Unpause, Swap, Landed, WkRecords
  <2>. QED BY <2>1 DEF Swap
<1>. QED BY <1>2, <1>3, <1>4, <1>5, <1>6

----------------------------------------------------------------------------
(* The invariant, and what follows *)

Inv == TypeOK /\ RunOK /\ Swap

LEMMA InitInv == Init => Inv
<1>1. Init => RunOK
  BY DEF Init, RunOK
<1>2. Init => Swap
  BY DEF Init, Swap
<1>. QED BY <1>1, <1>2, InitType DEF Inv

\* A step changes the claims of the StatefulSet as the revert or the binder does, or
\* not at all.
LEMMA InvStep ==
    ASSUME Inv, [Next]_vars
    PROVE  /\ RunOK' /\ Swap'
           /\ DeletePVC \/ \A n \in Live : claim[n].here => claim'[n].here
<1>. USE DEF Inv, RevertRest, Rest, snapVars, runVars, claimVars
<1>1. wk \in WkRecords
  BY DEF TypeOK, WkRecords
<1>2. CASE StepRun
  <2>1. RunOK' /\ \A n \in Live : claim'[n] = claim[n]
    BY <1>2, RunKeepsLive
  <2>2. state' = state /\ wk' = wk
    BY <1>2 DEF StepRun, CreateRun, Kustomize, CreateObjects, Test, Validated, Cleanup,
                LabelSnapshot, RunRest
  <2>. QED BY <2>1, <2>2, Undisturbed
<1>3. CASE DeletePVC
  BY <1>3, DeleteSwap DEF DeletePVC, RunOK
<1>4. CASE CreatePVC
  <2>1. \A n \in Live : claim[n].here => claim'[n].here
    <3>1. claim' = claim \/ claim' = [claim EXCEPT ![Cur] = NewClaim(wk.sel[Cur])]
      BY <1>4 DEF CreatePVC
    <3>. QED BY <3>1 DEF NewClaim, TypeOK, Names
  <2>. QED BY <1>4, <2>1, CreateSwap DEF CreatePVC, RunOK
<1>5. CASE Pause
  <2>1. run'.phase = "cleanup" /\ run'.objects = run.objects /\ run.phase = "validated"
    BY <1>5 DEF Pause, TypeOK
  <2>2. state = "init" /\ state' = "paused" /\ wk' = wk /\ claim' = claim
    BY <1>5 DEF Pause
  <2>3. RunOK'
    BY <2>1, <2>2 DEF RunOK
  <2>4. Swap'
    BY <1>1, <2>2 DEF Swap, WkRecords
  <2>. QED BY <2>2, <2>3, <2>4
<1>6. CASE StartRevert \/ Reverted \/ Timeout \/ CallLost \/ Unpause
  <2>1. claim' = claim /\ run' = run /\ (state' = "init" <=> state = "init")
    BY <1>6 DEF StartRevert, Reverted, Timeout, CallLost, Unpause, Swap
  <2>. QED BY <1>6, <2>1, RestSwap DEF RunOK
<1>7. CASE Crash
  <2>1. claim' = claim /\ run' = run /\ state' = state /\ wk' = Idle
    BY <1>7 DEF Crash
  <2>. QED BY <1>1, <2>1, IdleFields, Undisturbed DEF RunOK
<1>8. CASE \/ \E s \in Snaps : ListSnapshot(s) \/ DropSnapshot(s)
           \/ \E n \in Live : SyncClaim(n)
           \/ EditWindow \/ UNCHANGED vars
  <2>1. claim' = claim /\ run' = run /\ state' = state /\ wk' = wk
    BY <1>8 DEF ListSnapshot, DropSnapshot, EditWindow, SyncClaim, vars
  <2>. QED BY <2>1, Undisturbed DEF RunOK
<1>9. ASSUME NEW n \in Names, Bind(n)
      PROVE  RunOK' /\ Swap' /\ \A m \in Live : claim[m].here => claim'[m].here
  <2>1. run' = run /\ state' = state /\ wk' = wk
    BY <1>9 DEF Bind
  <2>2. \A m \in Live : claim'[m].here = claim[m].here /\ claim'[m].snap = claim[m].snap
    BY <1>9, BindKeeps
  <2>. QED BY <2>1, <2>2, Undisturbed DEF RunOK
<1>. QED BY <1>2, <1>3, <1>4, <1>5, <1>6, <1>7, <1>8, <1>9 DEF Next, Attempt

LEMMA Invariance == Spec => []Inv
<1>1. Inv /\ [Next]_vars => Inv'
  BY TypeStep, InvStep DEF Inv
<1>. QED BY <1>1, InitInv, PTL DEF Spec

\* However many attempts a revert took and whatever they left behind, all its claims
\* are restored from what the last attempt picked.
THEOREM OneSetCorrect == Spec => []OneSet
<1>1. Inv => OneSet
  BY SomeClaims DEF Inv, Swap, Landed, OneSet
<1>. QED BY <1>1, Invariance, PTL

\* With a prefix that is not empty and one claim template, nothing but the revert
\* takes a claim of the StatefulSet away.
THEOREM LiveCorrect == Spec => LiveKept
<1>1. Inv /\ [Next]_vars => [\A n \in Live : claim[n].here /\ ~claim'[n].here
                                             => state = "paused" /\ wk.pc = "delete"]_vars
  <2>. SUFFICES ASSUME Inv, [Next]_vars, NEW n \in Live, claim[n].here /\ ~claim'[n].here
                PROVE  state = "paused" /\ wk.pc = "delete"
    OBVIOUS
  <2>1. DeletePVC
    BY InvStep
  <2>. QED BY <2>1 DEF DeletePVC, Inv, Swap
<1>. QED BY <1>1, Invariance, PTL DEF Spec, LiveKept

----------------------------------------------------------------------------
(* Loops.  The library's induction theorems take operators; that strict     *)
(* inclusion of finite sets is well-founded does not, and serves as well.   *)

LEMMA Steps ==
    ASSUME NEW n \in Nat, NEW S, 0 \in S, \A k \in 0..(n - 1) : k \in S => k + 1 \in S
    PROVE  \A k \in 0..n : k \in S
<1>. SUFFICES ASSUME NEW b \in 0..n, b \notin S PROVE FALSE
  OBVIOUS
<1>. DEFINE T == {0..k : k \in {j \in 0..n : j \notin S}}
            R == StrictSubsetOrdering(Nat)
            F == FiniteSubsetsOf(Nat)
<1>1. IsWellFoundedOn(R, F)
  BY FS_StrictSubsetOrderingWellFounded
<1>2. T \subseteq F
  <2>. SUFFICES ASSUME NEW k \in 0..n PROVE 0..k \in F
    OBVIOUS
  <2>1. IsFiniteSet(0..k)
    BY FS_Interval
  <2>. QED BY <2>1 DEF FiniteSubsetsOf
<1>3. T # {}
  OBVIOUS
<1>. HIDE DEF F, R
<1>4. PICK t \in T : \A u \in T : ~ (<<u, t>> \in R)
  <2>. HIDE DEF T
  <2>. QED BY <1>1, <1>2, <1>3, WFMin
<1>5. PICK m \in 0..n : m \notin S /\ t = 0..m
  BY <1>4
<1>6. m # 0 /\ m - 1 \in 0..(n - 1)
  BY <1>5
<1>7. m - 1 \notin S
  BY <1>5, <1>6
<1>8. 0..(m - 1) \in T /\ m - 1 \in 0..n
  BY <1>6, <1>7
<1>9. 0..(m - 1) \subseteq 0..m /\ 0..(m - 1) # 0..m
  <2>1. m \in 0..m /\ m \notin 0..(m - 1)
    BY <1>6
  <2>. QED BY <2>1, <1>6
<1>10. <<0..(m - 1), t>> \in R
  BY <1>5, <1>9 DEF R, StrictSubsetOrdering
<1>. QED BY <1>4, <1>8, <1>10

LEMMA MaxOfLast ==
    ASSUME NEW k \in Nat, NEW s \in SUBSET (1..(k + 1)), k + 1 \in s
    PROVE  Max(s) = k + 1
<1>1. \A y \in s : k + 1 >= y
  OBVIOUS
<1>2. \A x \in s : (\A y \in s : x >= y) => x = k + 1
  <2>. SUFFICES ASSUME NEW x \in s, \A y \in s : x >= y PROVE x = k + 1
    OBVIOUS
  <2>1. x >= k + 1 /\ x \in 1..(k + 1)
    OBVIOUS
  <2>. QED BY <2>1
<1>. QED BY <1>1, <1>2 DEF Max

\* The equation by which Folds defines a fold to the left.
Folding(g, D, seq) ==
    g = [s \in SUBSET D |-> IF s = {} THEN None ELSE Later(g[s \ {Max(s)}], seq[Max(s)])]

LEMMA FoldDefined ==
    ASSUME NEW seq, NEW n \in Nat
    PROVE  \E g : Folding(g, 1..n, seq)
<1>. DEFINE S == {k \in 0..n : \E g : Folding(g, 1..k, seq)}
<1>1. 0 \in S
  <2>. DEFINE g == [s \in SUBSET (1..0) |-> None]
  <2>1. SUBSET (1..0) = {{}}
    OBVIOUS
  <2>2. Folding(g, 1..0, seq)
    BY <2>1 DEF Folding
  <2>. QED BY <2>2
<1>2. ASSUME NEW k \in 0..(n - 1), k \in S PROVE k + 1 \in S
  <2>1. PICK g : Folding(g, 1..k, seq)
    BY <1>2
  <2>. DEFINE h == [s \in SUBSET (1..(k + 1)) |->
                      IF k + 1 \in s THEN Later(g[s \ {k + 1}], seq[k + 1]) ELSE g[s]]
              next(s) == IF s = {} THEN None ELSE Later(h[s \ {Max(s)}], seq[Max(s)])
  <2>2. ASSUME NEW s \in SUBSET (1..(k + 1)) PROVE h[s] = next(s)
    <3>1. CASE k + 1 \in s
      <4>1. Max(s) = k + 1 /\ s # {}
        BY <3>1, MaxOfLast
      <4>2. h[s \ {k + 1}] = g[s \ {k + 1}]
        OBVIOUS
      <4>. QED BY <3>1, <4>1, <4>2
    <3>2. CASE k + 1 \notin s
      <4>1. s \in SUBSET (1..k) /\ h[s] = g[s]
        BY <3>2
      <4>2. h[s \ {Max(s)}] = g[s \ {Max(s)}]
        BY <3>2
      <4>3. g[s] = IF s = {} THEN None ELSE Later(g[s \ {Max(s)}], seq[Max(s)])
        BY <2>1, <4>1 DEF Folding
      <4>. QED BY <4>1, <4>2, <4>3
    <3>. QED BY <3>1, <3>2
  <2>3. Folding(h, 1..(k + 1), seq)
    <3>1. h = [s \in SUBSET (1..(k + 1)) |-> h[s]]
      OBVIOUS
    <3>2. h = [s \in SUBSET (1..(k + 1)) |-> next(s)]
      <4>. HIDE DEF h
      <4>. QED BY <2>2, <3>1
    <3>. HIDE DEF h
    <3>. QED BY <3>2 DEF Folding
  <2>. QED BY <2>3
<1>3. \A k \in 0..n : k \in S
  <2>. HIDE DEF S
  <2>. QED BY <1>1, <1>2, Steps
<1>. QED BY <1>3

\* A fold is a loop that starts with None and takes one element after the other.
LEMMA FoldLoop ==
    ASSUME NEW n \in Nat, NEW seq, DOMAIN seq = 1..n
    PROVE  \E g : /\ g[0] = None
                  /\ \A k \in 0..(n - 1) : g[k + 1] = Later(g[k], seq[k + 1])
                  /\ FoldLeft(Later, None, seq) = g[n]
<1>. DEFINE it == CHOOSE g : Folding(g, 1..n, seq)
            g == [k \in 0..n |-> it[1..k]]
<1>1. FoldLeft(Later, None, seq) = it[1..n]
  BY Zenon DEF FoldLeft, MapThenFoldSet, Folding
<1>2. Folding(it, 1..n, seq)
  <2>1. \E f : Folding(f, 1..n, seq)
    BY FoldDefined
  <2>. QED BY <2>1, Zenon
<1>. HIDE DEF it
<1>3. g[0] = None
  <2>1. 1..0 = {} /\ {} \in SUBSET (1..n)
    OBVIOUS
  <2>2. it[{}] = None
    BY <1>2, <2>1 DEF Folding
  <2>. QED BY <2>1, <2>2
<1>4. ASSUME NEW k \in 0..(n - 1) PROVE g[k + 1] = Later(g[k], seq[k + 1])
  <2>1. 1..(k + 1) \in SUBSET (1..n) /\ k + 1 \in 1..(k + 1) /\ k \in 0..n /\ k + 1 \in 0..n
    OBVIOUS
  <2>2. Max(1..(k + 1)) = k + 1
    BY <2>1, MaxOfLast
  <2>3. (1..(k + 1)) \ {k + 1} = 1..k
    OBVIOUS
  <2>4. it[1..(k + 1)] = Later(it[1..k], seq[k + 1])
    BY <1>2, <2>1, <2>2, <2>3 DEF Folding
  <2>. QED BY <2>1, <2>4
<1>5. FoldLeft(Later, None, seq) = g[n]
  BY <1>1
<1>. HIDE DEF g
<1>. QED BY <1>3, <1>4, <1>5, Zenon

----------------------------------------------------------------------------
(* What getSnapshots picks *)

Within(S) == {s \in S : InWindow(s)}
Best(x, S) ==
    IF x = None THEN Within(S) = {}
    ELSE x \in Within(S) /\ \A o \in Within(S) : time[o] <= time[x]

LEMMA LaterBest ==
    ASSUME TypeOK, NEW S \in SUBSET Snaps, NEW x, Best(x, S), NEW s \in Snaps
    PROVE  Best(Later(x, s), S \cup {s})
<1>1. \A o \in Snaps : time[o] \in Nat
  BY ValidatedAssumption DEF TypeOK
<1>2. Within(S \cup {s}) = IF InWindow(s) THEN Within(S) \cup {s} ELSE Within(S)
  BY DEF Within
<1>3. Within(S) \subseteq Snaps /\ s # None
  BY ValidatedAssumption DEF Within
<1>4. CASE InWindow(s) /\ x = None
  BY <1>1, <1>2, <1>3, <1>4 DEF Best, Later
<1>5. CASE InWindow(s) /\ x # None
  <2>1. x \in Snaps /\ time[x] \in Nat /\ time[s] \in Nat
    BY <1>1, <1>3, <1>5 DEF Best
  <2>2. CASE time[s] > time[x]
    BY <1>1, <1>2, <1>3, <1>5, <2>1, <2>2 DEF Best, Later
  <2>3. CASE ~(time[s] > time[x])
    <3>1. Later(x, s) = x /\ time[s] <= time[x]
      BY <2>1, <2>3, <1>5 DEF Later
    <3>2. x \in Within(S) \cup {s} /\ \A o \in Within(S) \cup {s} : time[o] <= time[x]
      BY <1>5, <3>1 DEF Best
    <3>. QED BY <1>2, <1>5, <3>1, <3>2 DEF Best
  <2>. QED BY <2>2, <2>3
<1>6. CASE ~InWindow(s)
  BY <1>2, <1>6 DEF Best, Later
<1>. QED BY <1>4, <1>5, <1>6

LEMMA LoopBest ==
    ASSUME TypeOK, NEW n \in Nat, NEW seq \in [1..n -> Snaps]
    PROVE  Best(FoldLeft(Later, None, seq), {seq[i] : i \in 1..n})
<1>1. PICK g : /\ g[0] = None
               /\ \A k \in 0..(n - 1) : g[k + 1] = Later(g[k], seq[k + 1])
               /\ FoldLeft(Later, None, seq) = g[n]
  BY FoldLoop, Zenon
<1>. DEFINE Upto(k) == {seq[i] : i \in 1..k}
            S == {k \in 0..n : Best(g[k], Upto(k))}
<1>2. 0 \in S
  <2>1. Upto(0) = {}
    OBVIOUS
  <2>2. Best(g[0], {})
    BY <1>1 DEF Best, Within
  <2>. QED BY <2>1, <2>2
<1>3. ASSUME NEW k \in 0..(n - 1), k \in S PROVE k + 1 \in S
  <2>1. Upto(k + 1) = Upto(k) \cup {seq[k + 1]} /\ Upto(k) \in SUBSET Snaps /\ seq[k + 1] \in Snaps
    OBVIOUS
  <2>2. Best(Later(g[k], seq[k + 1]), Upto(k + 1))
    BY <1>3, <2>1, LaterBest
  <2>. QED BY <1>1, <2>2
<1>4. n \in S
  <2>. HIDE DEF S
  <2>1. \A k \in 0..n : k \in S
    BY <1>2, <1>3, Steps
  <2>. QED BY <2>1
<1>. QED BY <1>1, <1>4

LEMMA AllInSequence ==
    ASSUME NEW S, IsFiniteSet(S), NEW seq \in SetToSeqs(S)
    PROVE  \E n \in Nat : seq \in [1..n -> S] /\ {seq[i] : i \in 1..n} = S
<1>. DEFINE n == Cardinality(S)
<1>1. n \in Nat /\ IsFiniteSet(1..n) /\ Cardinality(1..n) = n
  BY FS_CardinalityType, FS_Interval
<1>2. seq \in [1..n -> S] /\ \A i, j \in 1..n : i # j => seq[i] # seq[j]
  BY DEF SetToSeqs
<1>3. seq \in Injection(1..n, S)
  BY <1>2 DEF Injection, IsInjective
<1>4. seq \in Surjection(1..n, S)
  BY <1>1, <1>3, FS_Injection
<1>5. \A s \in S : \E i \in 1..n : seq[i] = s
  BY <1>4 DEF Surjection
<1>. QED BY <1>1, <1>2, <1>5

LEMMA LatestNewest ==
    ASSUME TypeOK, NEW n \in Live, NEW x \in LatestOf(n), x # None
    PROVE  x \in Newest(n)
<1>. DEFINE S == {s \in Listed : Of[s] = n}
<1>1. S \in SUBSET Snaps /\ IsFiniteSet(S)
  BY ValidatedAssumption, FS_Subset DEF Listed, Seen
<1>2. PICK seq \in SetToSeqs(S) : x = FoldLeft(Later, None, seq)
  BY DEF LatestOf
<1>3. PICK k \in Nat : seq \in [1..k -> S] /\ {seq[i] : i \in 1..k} = S
  BY <1>1, <1>2, AllInSequence
<1>4. Best(x, S)
  <2>1. seq \in [1..k -> Snaps]
    BY <1>1, <1>3
  <2>2. Best(FoldLeft(Later, None, seq), {seq[i] : i \in 1..k})
    BY <2>1, LoopBest
  <2>. QED BY <1>2, <1>3, <2>2
<1>5. Within(S) = {s \in Listed : /\ Of[s] = n
                                  /\ window.from = None \/ window.from <= time[s]
                                  /\ window.to = None \/ time[s] <= window.to}
  BY DEF Within, InWindow, IsBetween
<1>. QED BY <1>4, <1>5 DEF Best, Newest

\* The newest listed snapshot in the window, for each claim.
Sure(m) == \A n \in Live : m[n] \in Newest(n)

LEMMA PickSure == ASSUME TypeOK, NEW m \in GetSnapshots PROVE Sure(m)
<1>. SUFFICES ASSUME NEW n \in Live PROVE m[n] \in Newest(n)
  BY DEF Sure
<1>1. m[n] \in Snaps /\ m[n] \in LatestOf(n)
  BY DEF GetSnapshots
<1>2. m[n] # None
  BY <1>1, ValidatedAssumption
<1>. QED BY <1>1, <1>2, LatestNewest

LEMMA NewestIs ==
    ASSUME NEW n \in Live, NEW s \in Newest(n)
    PROVE  s \in Listed /\ Of[s] = n
  BY DEF Newest

\* What changes what has been picked.
LEMMA WhoPicks ==
    ASSUME TypeOK, [Next]_vars
    PROVE  /\ run'.map # run.map \/ (run.phase = "none" /\ run'.phase # "none") => CreateRun
           /\ wk'.sel # wk.sel \/ (wk.pc = "idle" /\ wk'.pc # "idle") => StartRevert
           /\ state' # state => Pause \/ Reverted \/ Unpause
<1>. USE DEF RunRest, RevertRest, Rest, snapVars, runVars, claimVars
<1>1. wk \in WkRecords /\ Idle.sel = wk.sel /\ Idle.pc = "idle"
  BY IdleFields DEF TypeOK, WkRecords
<1>2. \A after \in {"create", "wait"} : NextClaim(after).sel = wk.sel
  BY <1>1 DEF NextClaim, WkRecords
<1>3. CASE StepRun
  <2>1. CASE CreateRun
    BY <2>1 DEF CreateRun
  <2>2. CASE Kustomize \/ CreateObjects \/ Test \/ Validated \/ Cleanup
    BY <2>2 DEF Kustomize, CreateObjects, Test, Validated, Cleanup, TypeOK
  <2>3. CASE \E n \in Live : LabelSnapshot(n)
    BY <2>3 DEF LabelSnapshot
  <2>. QED BY <1>3, <2>1, <2>2, <2>3 DEF StepRun
<1>4. CASE StartRevert
  BY <1>4 DEF StartRevert
<1>5. CASE DeletePVC
  <2>1. wk' = Idle \/ wk' = NextClaim("create")
    BY <1>5 DEF DeletePVC, Reply, Error
  <2>. QED BY <1>1, <1>2, <1>5, <2>1 DEF DeletePVC
<1>6. CASE CreatePVC
  <2>1. wk' = Idle \/ wk' = NextClaim("wait")
    BY <1>6 DEF CreatePVC, Reply, Error
  <2>. QED BY <1>1, <1>2, <1>6, <2>1 DEF CreatePVC
<1>7. CASE Reverted \/ Unpause \/ Pause
  BY <1>1, <1>7 DEF Reverted, Unpause, Pause, TypeOK
<1>8. CASE Timeout \/ CallLost \/ Crash
  BY <1>1, <1>8 DEF Timeout, CallLost, Crash
<1>9. CASE \/ \E s \in Snaps : ListSnapshot(s) \/ DropSnapshot(s)
           \/ \E n \in Live : SyncClaim(n)
           \/ \E n \in Names : Bind(n)
           \/ EditWindow \/ UNCHANGED vars
  BY <1>9 DEF ListSnapshot, DropSnapshot, EditWindow, SyncClaim, Bind, vars
<1>. QED BY <1>3, <1>4, <1>5, <1>6, <1>7, <1>8, <1>9 DEF Next, Attempt

\* getSnapshots picks the newest snapshot of the window for each claim, in whatever
\* order the cache lists them, for any number of them.
THEOREM PickCorrect == Spec => PickNewest
<1>1. Inv /\ [Next]_vars => [/\ run'.map # run.map => \A n \in Live : run'.map[n] \in Newest(n)
                             /\ wk'.sel # wk.sel => \A n \in Live : wk'.sel[n] \in Newest(n)]_vars
  <2>. SUFFICES ASSUME Inv, [Next]_vars
                PROVE  /\ run'.map # run.map => \A n \in Live : run'.map[n] \in Newest(n)
                       /\ wk'.sel # wk.sel => \A n \in Live : wk'.sel[n] \in Newest(n)
    OBVIOUS
  <2>1. TypeOK
    BY DEF Inv
  <2>2. CASE CreateRun
    <3>1. PICK m \in GetSnapshots : run' = [run EXCEPT !.phase = "made", !.map = m]
      BY <2>2 DEF CreateRun, InitRun
    <3>2. run'.map = m /\ Sure(m)
      BY <2>1, <3>1, PickSure DEF TypeOK
    <3>3. wk' = wk
      BY <2>2 DEF CreateRun
    <3>. QED BY <3>2, <3>3 DEF Sure
  <2>3. CASE StartRevert
    <3>1. PICK m \in GetSnapshots : wk' = [pc |-> "delete", i |-> 1, sel |-> m]
      BY <2>3 DEF StartRevert
    <3>2. wk'.sel = m /\ Sure(m) /\ run' = run
      BY <2>1, <2>3, <3>1, PickSure DEF StartRevert, RevertRest, runVars
    <3>. QED BY <3>2 DEF Sure
  <2>. QED BY <2>1, <2>2, <2>3, WhoPicks
<1>. QED BY <1>1, Invariance, PTL DEF Spec, PickNewest

----------------------------------------------------------------------------
(* What is restored *)

\* One snapshot as good as another: of the same claim, and of the same time.
Equal(x, y) == x \in Seen /\ y \in Seen /\ Of[x] = Of[y] /\ time[x] = time[y]

\* Unless something came in between, what the run holds stays the newest, and what is
\* picked again is as good.
StaysSure ==
    \/ changed
    \/ /\ run.phase # "none" => Sure(run.map)
       /\ wk.pc # "idle" \/ state \in {"reverted", "finished"} =>
            \A n \in Live : Equal(run.map[n], wk.sel[n])

\* What may happen to the snapshots while that stays so.
Harmless ==
    \/ UNCHANGED <<time, window, dropped, changed>>
    \/ run.phase # "none" /\ \E s \in Snaps : ListSnapshot(s)
    \/ run.phase # "none" /\ \E s \in Snaps : DropSnapshot(s)

LEMMA NewestStays ==
    ASSUME TypeOK, run.phase # "none", ~changed', Harmless, Sure(run.map)
    PROVE  \A n \in Live : run.map[n] \in Newest(n)'
<1>. SUFFICES ASSUME NEW n \in Live PROVE run.map[n] \in Newest(n)'
  OBVIOUS
<1>. DEFINE x == run.map[n]
            found == {o \in Listed : /\ Of[o] = n
                                     /\ window.from = None \/ window.from <= time[o]
                                     /\ window.to = None \/ time[o] <= window.to}
<1>1. x \in found /\ \A o \in found : time[o] <= time[x]
  BY DEF Sure, Newest
<1>2. ASSUME x \in found', \A o \in found' : o \in found /\ time'[o] = time[o]
      PROVE  x \in Newest(n)'
  <2>. HIDE DEF found, x
  <2>1. x \in found' /\ \A o \in found' : time'[o] <= time'[x]
    BY <1>1, <1>2
  <2>2. Newest(n)' = {s \in found' : \A o \in found' : time'[o] <= time'[s]}
    BY DEF Newest, found
  <2>. QED BY <2>1, <2>2
<1>3. CASE UNCHANGED <<time, window, dropped, changed>>
  BY <1>1, <1>2, <1>3 DEF Listed, Seen
<1>4. ASSUME NEW s \in Snaps, ListSnapshot(s) PROVE x \in Newest(n)'
  <2>1. PICK t \in 1..MaxTime :
          /\ time' = [time EXCEPT ![s] = t]
          /\ changed' = (changed \/ (run.phase # "none" /\ IsBetween(window.from, t, window.to)))
    BY <1>4 DEF ListSnapshot
  <2>2. /\ ~IsBetween(window.from, t, window.to) /\ time[s] = 0
        /\ window' = window /\ dropped' = dropped
    BY <1>4, <2>1 DEF ListSnapshot
  <2>3. time'[s] = t /\ t # 0 /\ \A o \in Snaps \ {s} : time'[o] = time[o]
    BY <2>1 DEF TypeOK
  <2>4. s \notin found /\ s \notin found'
    BY <2>2, <2>3 DEF IsBetween, Listed, Seen
  <2>5. \A o \in Snaps \ {s} : o \in found <=> o \in found'
    BY <2>2, <2>3 DEF Listed, Seen
  <2>6. found \subseteq Snaps /\ found' \subseteq Snaps
    BY DEF Listed, Seen
  <2>. QED BY <1>1, <1>2, <2>3, <2>4, <2>5, <2>6
<1>5. ASSUME NEW s \in Snaps, DropSnapshot(s) PROVE x \in Newest(n)'
  <2>1. /\ dropped' = dropped \cup {s} /\ window' = window /\ time' = time
        /\ s \notin Range(run.map)
    BY <1>5 DEF DropSnapshot
  <2>2. DOMAIN run.map = Live
    BY DEF TypeOK, SnapMaps
  <2>3. x # s
    BY <2>1, <2>2 DEF Range
  <2>4. found' = found \ {s}
    BY <2>1 DEF Listed, Seen
  <2>. QED BY <1>1, <1>2, <2>1, <2>3, <2>4
<1>. QED BY <1>3, <1>4, <1>5 DEF Harmless

\* Times do not change once a snapshot is listed.
LEMMA EqualStays ==
    ASSUME TypeOK, Harmless, NEW x, NEW y, Equal(x, y)
    PROVE  Equal(x, y)'
<1>1. x \in Snaps /\ y \in Snaps /\ time[x] # 0 /\ time[y] # 0 /\ Of[x] = Of[y] /\ time[x] = time[y]
  BY DEF Equal, Seen
<1>2. \A o \in Snaps : time[o] # 0 => time'[o] = time[o]
  BY DEF Harmless, ListSnapshot, DropSnapshot, TypeOK
<1>. QED BY <1>1, <1>2 DEF Equal, Seen

LEMMA SureEqual ==
    ASSUME TypeOK, NEW m, NEW k, Sure(m), Sure(k), NEW n \in Live
    PROVE  Equal(m[n], k[n])
<1>1. m[n] \in Newest(n) /\ k[n] \in Newest(n)
  BY DEF Sure
<1>2. /\ m[n] \in Seen /\ k[n] \in Seen /\ Of[m[n]] = n /\ Of[k[n]] = n
      /\ time[m[n]] <= time[k[n]] /\ time[k[n]] <= time[m[n]]
  BY <1>1 DEF Newest, Listed
<1>3. time[m[n]] \in Nat /\ time[k[n]] \in Nat
  BY <1>2, ValidatedAssumption DEF TypeOK, Seen
<1>. QED BY <1>2, <1>3 DEF Equal

LEMMA SureStep ==
    ASSUME Inv, StaysSure, [Next]_vars
    PROVE  StaysSure'
<1>. USE DEF RunRest, RevertRest, Rest, snapVars, runVars, claimVars
<1>1. TypeOK /\ RunOK /\ Swap /\ wk \in WkRecords
  BY DEF Inv, TypeOK, WkRecords
<1>. SUFFICES ASSUME ~changed'
              PROVE  /\ run'.phase # "none" => Sure(run.map)'
                     /\ wk'.pc # "idle" \/ state' \in {"reverted", "finished"} =>
                          \A n \in Live : Equal(run.map[n], wk.sel[n])'
  BY DEF StaysSure
<1>2. \/ UNCHANGED <<time, window, dropped, changed>>
      \/ \E s \in Snaps : ListSnapshot(s) \/ DropSnapshot(s)
      \/ EditWindow
  BY DEF Next, StepRun, Attempt, CreateRun, Kustomize, CreateObjects, Test, Validated, Cleanup,
         LabelSnapshot, StartRevert, DeletePVC, CreatePVC, Reverted, Unpause, Pause, Timeout,
         CallLost, Crash, SyncClaim, Bind, vars
<1>3. ~changed
  BY <1>2 DEF ListSnapshot, DropSnapshot, EditWindow
<1>4. /\ run.phase # "none" => Sure(run.map)
      /\ wk.pc # "idle" \/ state \in {"reverted", "finished"} =>
           \A n \in Live : Equal(run.map[n], wk.sel[n])
  BY <1>3 DEF StaysSure
<1>5. run.phase # "none" => Harmless
  BY <1>2 DEF Harmless, EditWindow
<1>6. ASSUME NEW m, Sure(m), UNCHANGED <<time, window, dropped>>
      PROVE  Sure(m)'
  BY <1>6 DEF Sure, Newest, Listed, Seen
<1>7. ASSUME run'.phase # "none" PROVE Sure(run.map)'
  <2>1. CASE CreateRun
    <3>1. PICK m \in GetSnapshots : run' = [run EXCEPT !.phase = "made", !.map = m]
      BY <2>1 DEF CreateRun, InitRun
    <3>2. run'.map = m /\ Sure(m) /\ UNCHANGED <<time, window, dropped>>
      BY <1>1, <2>1, <3>1, PickSure DEF CreateRun, TypeOK
    <3>3. Sure(m)'
      BY <1>6, <3>2
    <3>. QED BY <3>2, <3>3 DEF Sure
  <2>2. CASE ~CreateRun
    <3>1. run'.map = run.map /\ run.phase # "none"
      BY <1>1, <1>7, <2>2, WhoPicks
    <3>2. \A n \in Live : run.map[n] \in Newest(n)'
      BY <1>1, <1>4, <1>5, <3>1, NewestStays
    <3>. QED BY <3>1, <3>2 DEF Sure
  <2>. QED BY <2>1, <2>2
<1>8. ASSUME wk'.pc # "idle" \/ state' \in {"reverted", "finished"}, NEW n \in Live
      PROVE  Equal(run.map[n], wk.sel[n])'
  <2>1. CASE StartRevert
    <3>1. PICK m \in GetSnapshots : wk' = [pc |-> "delete", i |-> 1, sel |-> m]
      BY <2>1 DEF StartRevert
    <3>2. wk'.sel = m /\ Sure(m) /\ run' = run /\ time' = time
      BY <1>1, <2>1, <3>1, PickSure DEF StartRevert
    <3>3. run.phase # "none"
      BY <1>1, <2>1 DEF StartRevert, RunOK
    <3>4. Equal(run.map[n], m[n])
      BY <1>1, <1>4, <3>2, <3>3, SureEqual
    <3>. QED BY <3>2, <3>4 DEF Equal, Seen
  <2>2. CASE ~StartRevert
    <3>1. PICK x, y : x = run.map[n] /\ y = wk.sel[n]
      OBVIOUS
    <3>2. wk'.sel = wk.sel /\ (wk'.pc # "idle" => wk.pc # "idle")
      BY <1>1, <2>2, WhoPicks
    <3>3. wk.pc # "idle" \/ state \in {"reverted", "finished"}
      BY <1>1, <1>8, <3>2, WhoPicks DEF Reverted, Unpause, Pause
    <3>4. run.phase # "none" /\ Equal(x, y)
      BY <1>1, <1>4, <3>1, <3>3 DEF Swap, RunOK
    <3>5. run'.map = run.map
      <4>1. ~CreateRun
        BY <3>4 DEF CreateRun
      <4>. QED BY <1>1, <4>1, WhoPicks
    <3>6. Equal(x, y)'
      BY <1>1, <1>5, <3>4, EqualStays
    <3>. QED BY <3>1, <3>2, <3>5, <3>6 DEF Equal
  <2>. QED BY <2>1, <2>2
<1>. QED BY <1>7, <1>8

\* The second choice of snapshots is the same as the first: what is restored is what was
\* validated, whatever else is listed, deleted and edited, unless the window got another
\* snapshot in between, lost one of the run or was edited, or time does not decide.
THEOREM RestoresCorrect == Spec => []RestoresValidated
<1>1. Init => StaysSure
  BY DEF Init, StaysSure
<1>2. Inv /\ StaysSure => RestoresValidated
  <2>. SUFFICES ASSUME Inv, StaysSure, state = "finished", ~changed, ~Tie, NEW n \in Live
                PROVE  claim[n].snap = run.map[n]
    BY DEF RestoresValidated
  <2>1. claim[n].snap = wk.sel[n]
    <3>1. Landed(Len(OldClaims))
      BY DEF Inv, Swap
    <3>. QED BY <3>1, SomeClaims DEF Landed
  <2>2. Equal(run.map[n], wk.sel[n])
    BY DEF StaysSure
  <2>3. wk.sel[n] = run.map[n]
    BY <2>2 DEF Tie, Equal
  <2>. QED BY <2>1, <2>3
<1>3. Inv /\ StaysSure /\ [Next]_vars => StaysSure'
  BY SureStep
<1>. QED BY <1>1, <1>2, <1>3, Invariance, PTL DEF Spec

----------------------------------------------------------------------------
(* What is labelled *)

LEMMA FirstStays ==
    ASSUME NEW S, NEW t \in S, NEW s \in Seq(S)
    PROVE  \A x : (<<t>> \o s \o <<x>>)[1] = t
<1>. DEFINE p == <<t>> \o s
<1>1. p \in Seq(S) /\ Len(p) = Len(s) + 1 /\ Len(s) \in Nat /\ p[1] = t
  OBVIOUS
<1>. HIDE DEF p
<1>2. \A x : (p \o <<x>>)[1] = t
  BY <1>1
<1>. QED BY <1>2 DEF p

\* The pods of the renamed StatefulSet look for the claims of the run, and no two claims
\* are renamed to one.
LEMMA NamesMeet ==
    /\ \A n \in Live : LookedFor(n) = KustomizedName(n) /\ KustomizedName(n) \in Names
    /\ \A n, m \in Live : KustomizedName(n) = KustomizedName(m) => n = m
<1>1. /\ Name \in Seq(STRING) /\ NamePrefix \in Seq(STRING) /\ Template \in STRING
      /\ \A n \in Live : n = <<Template>> \o Name \o <<Last(n)>>
  BY StrategyAssumption, Zenon
<1>2. NewName \in Seq(STRING)
  BY <1>1 DEF NewName
<1>3. \A x : (<<Template>> \o Name \o <<x>>)[1] = Template
  BY <1>1, FirstStays
<1>4. ASSUME NEW n \in Live PROVE LookedFor(n) = KustomizedName(n)
  <2>1. n \in Seq(STRING) /\ n[1] = Template
    <3>1. n = <<Template>> \o Name \o <<Last(n)>>
      BY <1>1
    <3>. QED BY <1>3, <3>1, ValidatedAssumption DEF Live, Range
  <2>2. n # <<>>
    <3>1. \A x : Len(<<Template>> \o Name \o <<x>>) = Len(Name) + 2 /\ Len(Name) \in Nat
      BY <1>1
    <3>2. Len(n) = Len(Name) + 2 /\ Len(Name) \in Nat
      BY <1>1, <3>1, Zenon
    <3>3. Len(n) # 0
      BY <3>2
    <3>. QED BY <3>3
  <2>. QED BY <2>1, <2>2 DEF LookedFor, KustomizedName
<1>5. \A x : (<<Template>> \o NewName \o <<x>>)[Len(NewName) + 2] = x
  BY <1>1, <1>2
<1>6. ASSUME NEW n \in Live, NEW m \in Live, KustomizedName(n) = KustomizedName(m)
      PROVE  n = m
  <2>1. /\ KustomizedName(n)[Len(NewName) + 2] = Last(n)
        /\ KustomizedName(m)[Len(NewName) + 2] = Last(m)
    BY <1>5, Zenon DEF KustomizedName
  <2>2. Last(n) = Last(m)
    BY <1>6, <2>1
  <2>. QED BY <1>1, <2>2, Zenon
<1>. QED BY <1>4, <1>6 DEF Names

Ran == {"tested", "validated", "cleanup", "gone"}

\* The claims of the run hold the snapshots of its map, each in the place of the claim it
\* is of, from when they are made until they are tested.
Tests ==
    /\ run.phase # "none" => \A n \in Live : Of[run.map[n]] = n
    /\ run.phase \in {"none", "made", "kustomized"} =>
         \A n \in Live : ~claim[KustomizedName(n)].here
    /\ run.phase = "init" => \A n \in Live : claim[KustomizedName(n)].snap = run.map[n]
    /\ run.phase \in Ran => \A n \in Live : <<n, run.map[n]>> \in tested
    /\ labelled # {} => run.phase \in Ran
    /\ LabelsTested

LEMMA TestsKept ==
    ASSUME TypeOK, Tests, UNCHANGED runVars,
           \A n \in Live : /\ claim'[KustomizedName(n)].here = claim[KustomizedName(n)].here
                           /\ claim'[KustomizedName(n)].snap = claim[KustomizedName(n)].snap
    PROVE  Tests'
  BY DEF Tests, runVars, LabelsTested

LEMMA RunTests ==
    ASSUME TypeOK, RunOK, Tests, StepRun
    PROVE  Tests'
<1>. USE DEF RunRest, snapVars, claimVars
<1>1. CASE CreateRun
  <2>1. PICK m \in GetSnapshots : run' = [run EXCEPT !.phase = "made", !.map = m]
    BY <1>1 DEF CreateRun, InitRun
  <2>2. run'.phase = "made" /\ run'.map = m /\ run.phase = "none"
    BY <1>1, <2>1 DEF CreateRun, TypeOK
  <2>3. \A n \in Live : Of[m[n]] = n
    BY <2>1, PickSure, NewestIs DEF Sure
  <2>4. labelled' = {}
    BY <1>1, <2>2 DEF CreateRun, Tests, Ran
  <2>. QED BY <1>1, <2>2, <2>3, <2>4 DEF CreateRun, Tests, Ran, LabelsTested
<1>2. CASE Kustomize
  <2>1. run'.phase = "kustomized" /\ run'.map = run.map /\ run.phase = "made"
    BY <1>2 DEF Kustomize, TypeOK
  <2>. QED BY <1>2, <2>1 DEF Kustomize, Tests, Ran, LabelsTested
<1>3. CASE CreateObjects
  <2>1. run'.phase = "init" /\ run'.map = run.map /\ run.phase = "kustomized"
    BY <1>3 DEF CreateObjects, TypeOK
  <2>2. \A n \in Live : run.objects[n] = KustomizedName(n)
    BY <2>1 DEF RunOK
  <2>3. ASSUME NEW n \in Live PROVE claim'[KustomizedName(n)].snap = run.map[n]
    <3>1. KustomizedName(n) \in Names /\ KustomizedName(n) \in Range(run.objects)
      BY <2>2, NamesMeet DEF Range, TypeOK
    <3>2. ~claim[KustomizedName(n)].here
      BY <2>1 DEF Tests
    <3>3. (CHOOSE c \in Live : run.objects[c] = KustomizedName(n)) = n
      BY <2>2, NamesMeet
    <3>4. claim'[KustomizedName(n)] = NewClaim(run.map[n])
      BY <1>3, <3>1, <3>2, <3>3 DEF CreateObjects, CreateSnapshotPVCs
    <3>. QED BY <3>4 DEF NewClaim
  <2>. QED BY <1>3, <2>1, <2>3 DEF CreateObjects, Tests, Ran, LabelsTested
<1>4. CASE Test
  <2>1. run'.phase = "tested" /\ run'.map = run.map /\ run.phase = "init"
    BY <1>4 DEF Test, TypeOK
  <2>2. ASSUME NEW n \in Live PROVE <<n, run.map[n]>> \in tested'
    <3>1. claim[LookedFor(n)].snap = run.map[n]
      BY <2>1, NamesMeet DEF Tests
    <3>2. run.map[n] \in Snaps
      BY <2>1 DEF TypeOK
    <3>. QED BY <1>4, <3>1, <3>2 DEF Test
  <2>3. labelled' = {}
    BY <1>4, <2>1 DEF Test, Tests, Ran
  <2>. QED BY <1>4, <2>1, <2>2, <2>3 DEF Test, Tests, Ran, LabelsTested
<1>5. CASE Validated
  <2>1. run'.phase = "validated" /\ run'.map = run.map /\ run.phase = "tested"
    BY <1>5 DEF Validated, TypeOK
  <2>. QED BY <1>5, <2>1 DEF Validated, Tests, Ran, LabelsTested
<1>6. CASE Cleanup
  <2>1. run'.phase = "gone" /\ run'.map = run.map /\ run.phase = "cleanup"
    BY <1>6 DEF Cleanup, TypeOK
  <2>. QED BY <1>6, <2>1 DEF Cleanup, Tests, Ran, LabelsTested
<1>7. ASSUME NEW n \in Live, LabelSnapshot(n) PROVE Tests'
  <2>1. run' = run /\ tested' = tested /\ claim' = claim /\ run.phase = "tested"
        /\ labelled' = labelled \cup {run.map[n]}
    BY <1>7 DEF LabelSnapshot
  <2>2. <<Of[run.map[n]], run.map[n]>> \in tested
    BY <2>1 DEF Tests, Ran
  <2>. QED BY <2>1, <2>2 DEF Tests, Ran, LabelsTested
<1>. QED BY <1>1, <1>2, <1>3, <1>4, <1>5, <1>6, <1>7 DEF StepRun

LEMMA TestsStep ==
    ASSUME Inv, Tests, [Next]_vars
    PROVE  Tests'
<1>. USE DEF RevertRest, Rest, snapVars, runVars, claimVars
<1>1. TypeOK /\ RunOK /\ wk \in WkRecords
  BY DEF Inv, TypeOK, WkRecords
<1>2. Cur \in Live
  BY <1>1, Moves
<1>3. CASE StepRun
  BY <1>1, <1>3, RunTests
<1>4. CASE DeletePVC \/ CreatePVC
  <2>1. UNCHANGED runVars
    BY <1>4 DEF DeletePVC, CreatePVC
  <2>2. \A n \in Names \ {Cur} : claim'[n] = claim[n]
    BY <1>1, <1>4 DEF DeletePVC, CreatePVC, TypeOK
  <2>3. \A n \in Live : KustomizedName(n) \in Names \ {Cur}
    BY <1>2, NamesApart, NamesMeet
  <2>. QED BY <1>1, <2>1, <2>2, <2>3, TestsKept
<1>5. CASE Pause
  <2>1. run'.phase = "cleanup" /\ run'.map = run.map /\ run.phase = "validated"
    BY <1>1, <1>5 DEF Pause, TypeOK
  <2>. QED BY <1>5, <2>1 DEF Pause, Tests, Ran, LabelsTested
<1>6. ASSUME NEW n \in Names, Bind(n) PROVE Tests'
  <2>1. UNCHANGED runVars /\ claim[n].here
    BY <1>6 DEF Bind
  <2>2. claim' = [claim EXCEPT ![n] = [claim[n] EXCEPT !.bound = TRUE]]
    BY <1>6 DEF Bind
  <2>3. \A m \in Names : claim'[m].here = claim[m].here /\ claim'[m].snap = claim[m].snap
    <3>1. claim[n] \in ClaimRecords /\ claim \in [Names -> ClaimRecords]
      BY <1>1 DEF TypeOK
    <3>2. LET b == [claim[n] EXCEPT !.bound = TRUE]
          IN  b.here = claim[n].here /\ b.snap = claim[n].snap
      BY <3>1 DEF ClaimRecords
    <3>. QED BY <2>2, <3>1, <3>2
  <2>. QED BY <1>1, <2>1, <2>3, NamesMeet, TestsKept
<1>7. CASE \/ StartRevert \/ Reverted \/ Unpause \/ Timeout \/ CallLost \/ Crash \/ EditWindow
           \/ \E s \in Snaps : ListSnapshot(s) \/ DropSnapshot(s)
           \/ \E n \in Live : SyncClaim(n)
           \/ UNCHANGED vars
  <2>1. UNCHANGED runVars /\ claim' = claim
    BY <1>7 DEF StartRevert, Reverted, Unpause, Timeout, CallLost, Crash, ListSnapshot,
                DropSnapshot, EditWindow, SyncClaim, vars
  <2>. QED BY <1>1, <2>1, TestsKept
<1>. QED BY <1>3, <1>4, <1>5, <1>6, <1>7 DEF Next, Attempt

\* A snapshot gets its label after it was tested in the place of the claim it is of, for
\* any number of claims, whatever binds and is lost in between.
THEOREM LabelsCorrect == Spec => []LabelsTested
<1>1. Init => Tests
  <2>. SUFFICES ASSUME Init PROVE Tests
    OBVIOUS
  <2>1. \A n \in Live : KustomizedName(n) \in Names /\ KustomizedName(n) \notin Live
    BY NamesApart, NamesMeet
  <2>2. \A n \in Live : ~claim[KustomizedName(n)].here
    BY <2>1 DEF Init, NoClaim
  <2>. QED BY <2>2 DEF Init, Tests, Ran, LabelsTested
<1>2. Tests => LabelsTested
  BY DEF Tests
<1>3. Inv /\ Tests /\ [Next]_vars => Tests'
  BY TestsStep
<1>. QED BY <1>1, <1>2, <1>3, Invariance, PTL DEF Spec

----------------------------------------------------------------------------
(* What is a label *)

\* One character of sanitizeLabel.
Clean(value, ch) ==
    IF ch \notin {"-", "/"} THEN Append(value, ch)
    ELSE IF value # <<>> /\ Last(value) = "-" THEN value ELSE Append(value, "-")

Cleaning(g, D, id) ==
    g = [s \in SUBSET D |-> IF s = {} THEN <<>> ELSE Clean(g[s \ {Max(s)}], id[Max(s)])]

LEMMA CleaningDefined ==
    ASSUME NEW id, NEW n \in Nat
    PROVE  \E g : Cleaning(g, 1..n, id)
<1>. DEFINE S == {k \in 0..n : \E g : Cleaning(g, 1..k, id)}
<1>1. 0 \in S
  <2>. DEFINE g == [s \in SUBSET (1..0) |-> <<>>]
  <2>1. SUBSET (1..0) = {{}}
    OBVIOUS
  <2>2. Cleaning(g, 1..0, id)
    BY <2>1 DEF Cleaning
  <2>. QED BY <2>2
<1>2. ASSUME NEW k \in 0..(n - 1), k \in S PROVE k + 1 \in S
  <2>1. PICK g : Cleaning(g, 1..k, id)
    BY <1>2
  <2>. DEFINE h == [s \in SUBSET (1..(k + 1)) |->
                      IF k + 1 \in s THEN Clean(g[s \ {k + 1}], id[k + 1]) ELSE g[s]]
              next(s) == IF s = {} THEN <<>> ELSE Clean(h[s \ {Max(s)}], id[Max(s)])
  <2>2. ASSUME NEW s \in SUBSET (1..(k + 1)) PROVE h[s] = next(s)
    <3>1. CASE k + 1 \in s
      <4>1. Max(s) = k + 1 /\ s # {}
        BY <3>1, MaxOfLast
      <4>2. h[s \ {k + 1}] = g[s \ {k + 1}]
        OBVIOUS
      <4>. QED BY <3>1, <4>1, <4>2
    <3>2. CASE k + 1 \notin s
      <4>1. s \in SUBSET (1..k) /\ h[s] = g[s]
        BY <3>2
      <4>2. h[s \ {Max(s)}] = g[s \ {Max(s)}]
        BY <3>2
      <4>3. g[s] = IF s = {} THEN <<>> ELSE Clean(g[s \ {Max(s)}], id[Max(s)])
        BY <2>1, <4>1 DEF Cleaning
      <4>. QED BY <4>1, <4>2, <4>3
    <3>. QED BY <3>1, <3>2
  <2>3. Cleaning(h, 1..(k + 1), id)
    <3>1. h = [s \in SUBSET (1..(k + 1)) |-> h[s]]
      OBVIOUS
    <3>2. h = [s \in SUBSET (1..(k + 1)) |-> next(s)]
      <4>. HIDE DEF h
      <4>. QED BY <2>2, <3>1
    <3>. HIDE DEF h
    <3>. QED BY <3>2 DEF Cleaning
  <2>. QED BY <2>3
<1>3. \A k \in 0..n : k \in S
  <2>. HIDE DEF S
  <2>. QED BY <1>1, <1>2, Steps
<1>. QED BY <1>3

LEMMA CleanLoop ==
    ASSUME NEW n \in Nat, NEW id, DOMAIN id = 1..n
    PROVE  \E g : /\ g[0] = <<>>
                  /\ \A k \in 0..(n - 1) : g[k + 1] = Clean(g[k], id[k + 1])
                  /\ SanitizeLabel(id) = g[n]
<1>. DEFINE it == CHOOSE g : Cleaning(g, 1..n, id)
            g == [k \in 0..n |-> it[1..k]]
<1>1. SanitizeLabel(id) = it[1..n]
  BY Zenon DEF SanitizeLabel, FoldLeft, MapThenFoldSet, Cleaning, Clean
<1>2. Cleaning(it, 1..n, id)
  <2>1. \E f : Cleaning(f, 1..n, id)
    BY CleaningDefined
  <2>. QED BY <2>1, Zenon
<1>. HIDE DEF it
<1>3. g[0] = <<>>
  <2>1. 1..0 = {} /\ {} \in SUBSET (1..n)
    OBVIOUS
  <2>2. it[{}] = <<>>
    BY <1>2, <2>1 DEF Cleaning
  <2>. QED BY <2>1, <2>2
<1>4. ASSUME NEW k \in 0..(n - 1) PROVE g[k + 1] = Clean(g[k], id[k + 1])
  <2>1. 1..(k + 1) \in SUBSET (1..n) /\ k + 1 \in 1..(k + 1) /\ k \in 0..n /\ k + 1 \in 0..n
    OBVIOUS
  <2>2. Max(1..(k + 1)) = k + 1
    BY <2>1, MaxOfLast
  <2>3. (1..(k + 1)) \ {k + 1} = 1..k
    OBVIOUS
  <2>4. it[1..(k + 1)] = Clean(it[1..k], id[k + 1])
    BY <1>2, <2>1, <2>2, <2>3 DEF Cleaning
  <2>. QED BY <2>1, <2>4
<1>5. SanitizeLabel(id) = g[n]
  BY <1>1
<1>. HIDE DEF g
<1>. QED BY <1>3, <1>4, <1>5, Zenon

Cleaned(ch) == IF ch \in {"-", "/"} THEN "-" ELSE ch

\* Those of the first k characters that leave one behind.
KeptTo(id, k) == {i \in 1..k : i = 1 \/ {i - 1, i} \cap Letters(id) # {}}

LEMMA KeptNext ==
    ASSUME NEW id, NEW k \in Nat
    PROVE  LET more == k = 0 \/ {k, k + 1} \cap Letters(id) # {} IN
           Cardinality(KeptTo(id, k + 1)) =
             IF more THEN Cardinality(KeptTo(id, k)) + 1 ELSE Cardinality(KeptTo(id, k))
<1>1. IsFiniteSet(KeptTo(id, k)) /\ k + 1 \notin KeptTo(id, k)
  <2>1. IsFiniteSet(1..k) /\ KeptTo(id, k) \subseteq 1..k
    BY FS_Interval DEF KeptTo
  <2>2. k + 1 \notin 1..k
    OBVIOUS
  <2>. QED BY <2>1, <2>2, FS_Subset
<1>2. CASE k = 0 \/ {k, k + 1} \cap Letters(id) # {}
  <2>1. KeptTo(id, k + 1) = KeptTo(id, k) \cup {k + 1}
    <3>1. \A i : i \in 1..(k + 1) <=> i \in 1..k \/ i = k + 1
      OBVIOUS
    <3>2. k + 1 - 1 = k
      OBVIOUS
    <3>3. k + 1 = 1 \/ {(k + 1) - 1, k + 1} \cap Letters(id) # {}
      BY <1>2, <3>2
    <3>. QED BY <3>1, <3>3 DEF KeptTo
  <2>. QED BY <1>1, <1>2, <2>1, FS_AddElement
<1>3. CASE ~(k = 0 \/ {k, k + 1} \cap Letters(id) # {})
  <2>1. KeptTo(id, k + 1) = KeptTo(id, k)
    <3>1. \A i : i \in 1..(k + 1) <=> i \in 1..k \/ i = k + 1
      OBVIOUS
    <3>2. k + 1 # 1 /\ k + 1 - 1 = k
      BY <1>3
    <3>3. ~(k + 1 = 1 \/ {(k + 1) - 1, k + 1} \cap Letters(id) # {})
      BY <1>3, <3>2
    <3>. QED BY <3>1, <3>3 DEF KeptTo
  <2>. QED BY <1>3, <2>1
<1>. QED BY <1>2, <1>3

\* What is left of the first k characters.
Left(value, id, k) ==
    /\ Len(value) = Cardinality(KeptTo(id, k))
    /\ IF k = 0 THEN value = <<>>
       ELSE /\ value # <<>> /\ \A i \in 1..Len(value) : value[i] # "/"
            /\ value[1] = Cleaned(id[1])
            /\ value[Len(value)] = Cleaned(id[k])

LEMMA CleanLeft ==
    ASSUME NEW C, "-" \in C, NEW n \in Nat, NEW id \in [1..n -> C],
           NEW k \in 0..(n - 1), NEW value \in Seq(C), Left(value, id, k)
    PROVE  Clean(value, id[k + 1]) \in Seq(C) /\ Left(Clean(value, id[k + 1]), id, k + 1)
<1>. DEFINE c == id[k + 1]
            w == Append(value, Cleaned(c))
<1>1. /\ c \in C /\ Cleaned(c) \in C /\ Cleaned(c) # "/" /\ k + 1 # 0
      /\ k \in Nat /\ k + 1 \in DOMAIN id
  BY DEF Cleaned
<1>2. Len(value) \in Nat /\ (value # <<>> => Len(value) >= 1 /\ Last(value) = value[Len(value)])
  BY DEF Last
<1>3. k # 0 => /\ value # <<>> /\ Last(value) = Cleaned(id[k]) /\ k \in DOMAIN id
  BY <1>1, <1>2 DEF Left
<1>4. LET more == k = 0 \/ {k, k + 1} \cap Letters(id) # {} IN
       /\ more => Clean(value, c) = w /\ Cardinality(KeptTo(id, k + 1)) = Len(value) + 1
       /\ ~more => /\ Clean(value, c) = value /\ Cardinality(KeptTo(id, k + 1)) = Len(value)
                   /\ value # <<>> /\ Last(value) = "-" /\ Cleaned(c) = "-"
  <2>1. Len(value) = Cardinality(KeptTo(id, k))
    BY DEF Left
  <2>2. k = 0 => value = <<>>
    BY DEF Left
  <2>3. k + 1 \in Letters(id) <=> c \notin {"-", "/"}
    BY <1>1 DEF Letters
  <2>4. k # 0 => (k \in Letters(id) <=> Last(value) # "-")
    BY <1>3 DEF Letters, Cleaned
  <2>5. k = 0 \/ {k, k + 1} \cap Letters(id) # {} => Clean(value, c) = w
    BY <2>2, <2>3, <2>4 DEF Clean, Cleaned
  <2>6. ~(k = 0 \/ {k, k + 1} \cap Letters(id) # {}) =>
            Clean(value, c) = value /\ value # <<>> /\ Last(value) = "-" /\ Cleaned(c) = "-"
    BY <1>3, <2>3, <2>4 DEF Clean, Cleaned
  <2>. HIDE DEF w, c
  <2>. QED BY <1>1, <2>1, <2>5, <2>6, KeptNext
<1>5. \/ Clean(value, c) = w /\ Cardinality(KeptTo(id, k + 1)) = Len(value) + 1
      \/ /\ Clean(value, c) = value /\ Cardinality(KeptTo(id, k + 1)) = Len(value)
         /\ value # <<>> /\ Last(value) = "-" /\ Cleaned(c) = "-"
  <2>. HIDE DEF w, c
  <2>. QED BY <1>4
<1>. HIDE DEF c
<1>6. ASSUME Cardinality(KeptTo(id, k + 1)) = Len(value) + 1
      PROVE  w \in Seq(C) /\ Left(w, id, k + 1)
  <2>1. /\ w \in Seq(C) /\ Len(w) = Len(value) + 1 /\ w[Len(value) + 1] = Cleaned(c)
        /\ \A i \in 1..Len(value) : w[i] = value[i]
    BY <1>1, <1>2
  <2>. HIDE DEF w
  <2>2. w # <<>>
    <3>1. Len(w) # 0
      BY <1>2, <2>1
    <3>. QED BY <3>1
  <2>3. \A i \in 1..Len(w) : w[i] # "/"
    <3>. SUFFICES ASSUME NEW i \in 1..Len(w) PROVE w[i] # "/"
      OBVIOUS
    <3>1. CASE i \in 1..Len(value)
      <4>1. k # 0
        BY <3>1 DEF Left
      <4>. QED BY <2>1, <3>1, <4>1 DEF Left
    <3>2. CASE i \notin 1..Len(value)
      <4>1. i = Len(value) + 1
        BY <1>2, <2>1, <3>2
      <4>. QED BY <1>1, <2>1, <4>1
    <3>. QED BY <3>1, <3>2
  <2>4. w[1] = Cleaned(id[1])
    <3>1. CASE k = 0
      <4>1. Len(value) = 0
        BY <3>1 DEF Left
      <4>. QED BY <2>1, <3>1, <4>1 DEF c
    <3>2. CASE k # 0
      <4>1. value # <<>> /\ value[1] = Cleaned(id[1])
        BY <3>2 DEF Left
      <4>2. 1 \in 1..Len(value)
        BY <1>2, <4>1
      <4>. QED BY <2>1, <4>1, <4>2
    <3>. QED BY <3>1, <3>2
  <2>. QED BY <1>1, <1>6, <2>1, <2>2, <2>3, <2>4 DEF Left, c
<1>7. CASE /\ Clean(value, c) = value /\ Cardinality(KeptTo(id, k + 1)) = Len(value)
           /\ value # <<>> /\ Last(value) = "-" /\ Cleaned(c) = "-"
  <2>1. k # 0
    BY <1>7 DEF Left
  <2>2. Left(value, id, k + 1)
    BY <1>1, <1>2, <1>7, <2>1 DEF Left, c
  <2>. QED BY <1>7, <2>2 DEF c
<1>. QED BY <1>5, <1>6, <1>7 DEF c

LEMMA SanitizedLeft ==
    ASSUME NEW C, "-" \in C, NEW id \in Seq(C)
    PROVE  SanitizeLabel(id) \in Seq(C) /\ Left(SanitizeLabel(id), id, Len(id))
<1>. DEFINE n == Len(id)
<1>1. n \in Nat /\ DOMAIN id = 1..n /\ id \in [1..n -> C]
  OBVIOUS
<1>. HIDE DEF n
<1>2. PICK g : /\ g[0] = <<>>
               /\ \A k \in 0..(n - 1) : g[k + 1] = Clean(g[k], id[k + 1])
               /\ SanitizeLabel(id) = g[n]
  BY <1>1, CleanLoop, Zenon
<1>. DEFINE S == {k \in 0..n : g[k] \in Seq(C) /\ Left(g[k], id, k)}
<1>3. 0 \in S
  <2>1. <<>> \in Seq(C) /\ 0 \in 0..n
    BY <1>1
  <2>2. Left(<<>>, id, 0)
    <3>1. KeptTo(id, 0) = {}
      BY DEF KeptTo
    <3>. QED BY <3>1, FS_EmptySet DEF Left
  <2>. QED BY <1>2, <2>1, <2>2
<1>4. ASSUME NEW k \in 0..(n - 1), k \in S PROVE k + 1 \in S
  <2>1. k \in 0..n /\ k + 1 \in 0..n
    BY <1>1
  <2>2. Clean(g[k], id[k + 1]) \in Seq(C) /\ Left(Clean(g[k], id[k + 1]), id, k + 1)
    BY <1>1, <1>4, CleanLeft
  <2>. QED BY <1>2, <2>1, <2>2
<1>5. n \in S
  <2>. HIDE DEF S
  <2>. QED BY <1>1, <1>3, <1>4, Steps
<1>. QED BY <1>2, <1>5 DEF n

\* The API server takes the label of a volume exactly when its id starts and ends with a
\* letter and has no more letters, and stretches of other characters, than a label may
\* have characters: sanitizeLabel makes one character of a stretch, and cuts nothing off.
THEOREM SanitizeCorrect ==
    ASSUME NEW n \in Live, NEW C, "-" \in C, VolumeSource[n].id \in Seq(C) \ {<<>>}
    PROVE  CanLabel(n) <=> Plain(n)
<1>. DEFINE id == VolumeSource[n].id
            value == SanitizeLabel(id)
<1>1. /\ id \in Seq(C) /\ id # <<>> /\ Len(id) \in Nat /\ Len(id) # 0
      /\ DOMAIN id = 1..Len(id) /\ {1, Len(id)} \subseteq DOMAIN id
  OBVIOUS
<1>. HIDE DEF id
<1>2. value \in Seq(C) /\ Left(value, id, Len(id))
  BY <1>1, SanitizedLeft
<1>. HIDE DEF value
<1>3. /\ value # <<>> /\ "/" \notin Range(value)
      /\ Head(value) = Cleaned(id[1]) /\ Last(value) = Cleaned(id[Len(id)])
  <2>1. /\ value # <<>> /\ \A i \in 1..Len(value) : value[i] # "/"
        /\ value[1] = Cleaned(id[1]) /\ value[Len(value)] = Cleaned(id[Len(id)])
    BY <1>1, <1>2 DEF Left
  <2>. QED BY <1>1, <1>2, <2>1 DEF Range, Last
<1>4. Len(value) = Cardinality(Kept(id))
  <2>1. KeptTo(id, Len(id)) = Kept(id)
    BY <1>1 DEF KeptTo, Kept
  <2>. QED BY <1>2, <2>1 DEF Left
<1>5. ValidLabel(value) <=> {1, Len(id)} \subseteq Letters(id) /\ Cardinality(Kept(id)) <= MaxLabel
  <2>1. \A i \in DOMAIN id : i \in Letters(id) <=> Cleaned(id[i]) # "-"
    BY DEF Letters, Cleaned
  <2>2. {1, Len(id)} \subseteq Letters(id) <=> Head(value) # "-" /\ Last(value) # "-"
    BY <1>1, <1>3, <2>1
  <2>. QED BY <1>3, <1>4, <2>2 DEF ValidLabel
<1>. QED BY <1>5 DEF CanLabel, Plain, id, value
=============================================================================
