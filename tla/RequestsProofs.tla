----------------------------- MODULE RequestsProofs -----------------------------
(***************************************************************************)
(* What a user who asks for a revert or an undo may rely on                *)
(* (ProcessSnapshotRevert, pkg/manager/reverts.go): the worker implements  *)
(* RevertRequests, in which there are no retries, caches or faults, and an *)
(* action that is over has given the StatefulSet its replicas back         *)
(* (unpause), if no call of unpause is lost: with one that is,             *)
(* FinishedMeansUp fails (UnpauseLost.cfg).                                *)
(***************************************************************************)
EXTENDS VolumesProofs

----------------------------------------------------------------------------
(* The put of an attempt is the next phase of the resource *)

\* The phase an attempt may go through with resource r.
MayStop(r) == \/ r.action = "latest" /\ StateOf(r) = "init"
              \/ r.action = "undo" /\ StateOf(r) = "finished"
MaySwap(r, a) == r.action = a /\ StateOf(r) = "paused"
MayFinish(r) == \/ r.action = "latest" /\ StateOf(r) = "reverted"
                \/ r.action = "undo" /\ StateOf(r) = "undone"

\* What the put of an attempt may make of resource r.
Begins(r, s) ==
    /\ r.action = "latest" /\ StateOf(r) \in {"none", "finished"} /\ s.action = "latest"
    /\ \E d \in Details :
         d.state = "init" /\ d.replicas # 0 /\ s.reverts = Trim(Append(r.reverts, d))
Stops(r, s) == MayStop(r) /\ s = WithState(r, "paused")
SwapsTo(r, s) == \/ MaySwap(r, "latest") /\ s = WithState(r, "reverted")
                 \/ MaySwap(r, "undo") /\ s = WithState(r, "undone")
Finishes(r, s) ==
    /\ MayFinish(r) /\ s.action = "idle"
    /\ r.action = "latest" => s = [WithState(r, "finished") EXCEPT !.action = "idle"]
    /\ r.action = "undo" => s.reverts = Front(r.reverts)
Moves(r, s) == s = r \/ Begins(r, s) \/ Stops(r, s) \/ SwapsTo(r, s) \/ Finishes(r, s)

\* The worker is at the phase its copy of the resource is in, whether the copy is
\* current or not, and what it is about to put on a current one is the next phase.
InPhase ==
    /\ wk.pc \in {"pause", "pauseWait"} => MayStop(wk.copy)
    /\ wk.pc \in Reverting => MaySwap(wk.copy, "latest")
    /\ wk.pc \in UndoSteps => MaySwap(wk.copy, "undo")
    /\ wk.pc \in {"unpause", "readyWait"} => MayFinish(wk.copy)
    /\ wk.fresh /\ wk.pc = "put" => Moves(rev, wk.copy)

PhaseInv == EndsInv /\ InPhase

\* The put of the next phase is a step that the user is promised, if the resource is
\* said to be "paused" only when the application is down.
LEMMA MoveAllowed ==
    ASSUME rev \in Reverts, rev' \in Reverts, Moves(rev, rev'),
           UNCHANGED <<pvc, replicas, pods>>,
           StateOf(rev') = "paused" => AppDown
    PROVE  [User!Next]_(User!vars)
<1>1. Present' = Present /\ AppDown' = AppDown
  BY DEF Present, AppDown, Listed
<1>2. User!State = StateOf(rev)
  BY DEF User!State, User!Last, StateOf, Latest, Last
<1>3. ASSUME rev.reverts # <<>>, NEW s \in States
      PROVE  /\ WithState(rev, s).reverts = [rev.reverts EXCEPT ![Len(rev.reverts)].state = s]
             /\ WithState(rev, s).action = rev.action /\ StateOf(WithState(rev, s)) = s
  <2>1. WithState(rev, s).reverts = [rev.reverts EXCEPT ![Len(rev.reverts)].state = s]
    BY DEF WithState, Reverts
  <2> QED
    BY <1>3, <2>1, StateChange
<1>4. StateOf(rev) # "none" => rev.reverts # <<>>
  BY HasEntry
<1>5. {"paused", "reverted", "undone", "finished"} \subseteq States
  BY DEF States
<1>6. CASE rev' = rev
  BY <1>1, <1>6 DEF User!vars
<1>7. CASE Begins(rev, rev')
  <2>1. PICK d \in Details :
          d.state = "init" /\ d.replicas # 0 /\ rev'.reverts = Trim(Append(rev.reverts, d))
    BY <1>7 DEF Begins
  <2> DEFINE h == Append(rev.reverts, d)
  <2>2. h \in Seq(Details) /\ h # <<>> /\ Last(h) = d
    BY DEF Reverts, Last
  <2>3. rev'.reverts = User!Kept(h)
    BY <2>1 DEF User!Kept, Trim
  <2>4. d \in Range(rev'.reverts)
    <3> HIDE DEF h
    <3>1. Trim(h) \in Seq(Details) /\ Trim(h) # <<>> /\ Last(Trim(h)) = d
      BY <2>2, TrimKeepsLast
    <3>2. Len(Trim(h)) \in DOMAIN Trim(h) /\ Trim(h)[Len(Trim(h))] = d
      BY <3>1 DEF Last
    <3> QED
      BY <2>1, <3>2 DEF Range, h
  <2>5. rev'.action = rev.action /\ rev.action = "latest" /\ User!State \in {"none", "finished"}
    BY <1>2, <1>7 DEF Begins
  <2>6. User!Begin
    BY <2>1, <2>3, <2>4, <2>5 DEF User!Begin, User!Range, Range, h
  <2> QED
    BY <1>1, <2>6 DEF User!Next, User!Request
<1>8. CASE Stops(rev, rev')
  <2>1. MayStop(rev) /\ rev' = WithState(rev, "paused") /\ rev.reverts # <<>>
    BY <1>4, <1>8 DEF Stops, MayStop
  <2>2. User!Becomes("paused") /\ rev'.action = rev.action /\ AppDown
    BY <1>3, <1>5, <2>1 DEF User!Becomes
  <2>3. User!Stop
    BY <1>2, <2>1, <2>2 DEF User!Stop, MayStop
  <2> QED
    BY <1>1, <2>3 DEF User!Next, User!Request
<1>9. CASE SwapsTo(rev, rev')
  <2>1. rev.reverts # <<>> /\ StateOf(rev) = "paused"
    BY <1>4, <1>9 DEF SwapsTo, MaySwap
  <2>2. /\ rev'.action = rev.action
        /\ \/ rev.action = "latest" /\ User!Becomes("reverted")
           \/ rev.action = "undo" /\ User!Becomes("undone")
    BY <1>3, <1>5, <1>9, <2>1 DEF SwapsTo, MaySwap, User!Becomes
  <2>3. User!Swap
    BY <1>2, <2>1, <2>2 DEF User!Swap
  <2> QED
    BY <1>1, <2>3 DEF User!Next, User!Request
<1>10. CASE Finishes(rev, rev')
  <2>1. rev'.action = "idle" /\ rev.reverts # <<>>
    BY <1>4, <1>10 DEF Finishes, MayFinish
  <2>2. CASE rev.action = "latest" /\ StateOf(rev) = "reverted"
    <3>1. rev' = [WithState(rev, "finished") EXCEPT !.action = "idle"]
      BY <1>10, <2>2 DEF Finishes
    <3>2. rev'.reverts = WithState(rev, "finished").reverts
      <4>1. WithState(rev, "finished") \in Reverts
        BY <1>5, <2>1, StateChange
      <4> QED
        BY <3>1, <4>1 DEF Reverts
    <3>3. User!Becomes("finished")
      BY <1>3, <1>5, <2>1, <3>2 DEF User!Becomes
    <3> QED
      BY <1>1, <1>2, <2>1, <2>2, <3>3 DEF User!Finish, User!Next, User!Request
  <2>3. CASE rev.action = "undo" /\ StateOf(rev) = "undone"
    <3>1. rev'.reverts = Front(rev.reverts)
      BY <1>10, <2>3 DEF Finishes
    <3> QED
      BY <1>1, <1>2, <2>1, <2>3, <3>1
         DEF User!Finish, User!Front, Front, User!Next, User!Request
  <2> QED
    BY <1>10, <2>2, <2>3 DEF Finishes, MayFinish
<1> QED
  BY <1>6, <1>7, <1>8, <1>9, <1>10 DEF Moves

\* Nothing is said of a worker between two attempts.
LEMMA InPhaseIdle ==
    ASSUME wk' = IdleWk \/ wk'.pc = "idle"
    PROVE  InPhase'
<1>1. wk'.pc = "idle"
  BY IdleOK
<1> QED
  BY <1>1 DEF InPhase, Reverting, UndoSteps

\* A step from which the worker goes on as it was, or a request has come between.
LEMMA InPhaseSame ==
    ASSUME InPhase, wk'.pc = wk.pc, wk'.copy = wk.copy,
           ~wk'.fresh \/ (wk'.fresh = wk.fresh /\ rev' = rev)
    PROVE  InPhase'
<1>1. \A a : MayStop(wk'.copy) = MayStop(wk.copy) /\ MaySwap(wk'.copy, a) = MaySwap(wk.copy, a)
  OBVIOUS
<1>2. MayFinish(wk'.copy) = MayFinish(wk.copy)
  OBVIOUS
<1>3. wk'.fresh => Moves(rev', wk'.copy) = Moves(rev, wk.copy) /\ wk.fresh
  OBVIOUS
<1> QED
  BY <1>1, <1>2, <1>3 DEF InPhase

\* init puts the resource with a new entry, for a StatefulSet that has replicas.
LEMMA InitBegins ==
    ASSUME TypeOK, StartInit
    PROVE  Begins(crev, wk'.copy)
<1> DEFINE Recording(order) ==
             [i \in DOMAIN order |-> [claim |-> order[i], vol |-> cpvc[order[i]].vol]]
<1>1. PICK order \in SetToSeqs(CachedClaims) :
        wk' = ToPut([crev EXCEPT !.reverts = Trim(Append(@,
                       [state |-> "init", replicas |-> csts, old |-> Recording(order)]))], crevNew)
  BY DEF StartInit, Start
<1>2. Recording(order) \in Seq(Recorded)
  <2> DEFINE n == Cardinality(CachedClaims)
  <2>1. CachedClaims \subseteq Claims /\ IsFiniteSet(CachedClaims)
    BY ClusterAssumption, FS_Subset DEF CachedClaims
  <2>2. n \in Nat
    BY <2>1, FS_CardinalityType
  <2>3. order \in [1..n -> Claims]
    BY <2>1 DEF SetToSeqs
  <2>4. \A i \in 1..n : [claim |-> order[i], vol |-> cpvc[order[i]].vol] \in Recorded
    BY <2>3 DEF TypeOK, ClusterTypeOK, Pvcs, Recorded
  <2>5. Recording(order) \in [1..n -> Recorded]
    BY <2>3, <2>4
  <2> QED
    BY <2>2, <2>5
<1> DEFINE d == [state |-> "init", replicas |-> csts, old |-> Recording(order)]
           copy == [crev EXCEPT !.reverts = Trim(Append(crev.reverts, d))]
<1> HIDE DEF Recording
<1>3. d \in Details /\ d.state = "init" /\ d.replicas # 0
  BY <1>2 DEF Details, States, TypeOK, ClusterTypeOK, StartInit
<1>4. wk' = ToPut(copy, crevNew)
  BY <1>1
<1> HIDE DEF d
<1>5. copy.reverts = Trim(Append(crev.reverts, d)) /\ copy.action = crev.action
  BY DEF TypeOK, Reverts
<1> HIDE DEF copy
<1>6. wk'.copy = copy
  BY <1>4 DEF ToPut, IdleWk
<1>7. crev.action = "latest" /\ StateOf(crev) \in {"none", "finished"}
  BY DEF StartInit, Latestly, NeedsEntry
<1> QED
  BY <1>3, <1>5, <1>6, <1>7 DEF Begins

LEMMA InPhaseStarts == PhaseInv /\ Starts => InPhase'
<1> SUFFICES ASSUME PhaseInv, Starts PROVE InPhase'
  OBVIOUS
<1>1. TypeOK /\ InPhase /\ (crevNew => crev = rev)
  BY DEF PhaseInv, EndsInv, OneBehind
<1>2. rev' = rev
  BY <1>1, StartsOK DEF revVars
<1>3. CASE StartNothing
  <2>1. wk'.pc = "put" /\ wk'.copy = crev /\ wk'.fresh = crevNew
    BY <1>1, <1>3, StartNothingOK
  <2>2. wk'.fresh => Moves(rev', wk'.copy)
    BY <1>1, <1>2, <2>1 DEF Moves
  <2> QED
    BY <2>1, <2>2 DEF InPhase, Reverting, UndoSteps
<1>4. CASE StartInit
  <2>1. wk'.pc = "put" /\ wk'.fresh = crevNew /\ Begins(crev, wk'.copy)
    BY <1>1, <1>4, StartInitOK, InitBegins
  <2>2. wk'.fresh => Moves(rev', wk'.copy)
    BY <1>1, <1>2, <2>1 DEF Moves
  <2> QED
    BY <2>1, <2>2 DEF InPhase, Reverting, UndoSteps
<1>5. CASE StartPause
  <2>1. wk'.pc \in {"pause", "pauseWait"} /\ wk'.copy = crev
    BY <1>1, <1>5, StartPauseOK
  <2>2. MayStop(wk'.copy)
    BY <1>5, <2>1 DEF StartPause, Latestly, Undoing, MayStop
  <2> QED
    BY <2>1, <2>2 DEF InPhase, Reverting, UndoSteps
<1>6. CASE StartRevert \/ StartUndo
  <2>1. /\ wk'.copy = crev
        /\ \/ wk'.pc \in Reverting /\ MaySwap(crev, "latest")
           \/ wk'.pc \in UndoSteps /\ MaySwap(crev, "undo")
    BY <1>1, <1>6, StartMoves DEF Reverting, UndoSteps, MaySwap
  <2>2. wk'.pc \notin {"put", "pause", "pauseWait", "unpause", "readyWait"}
    BY <2>1 DEF Reverting, UndoSteps
  <2>3. \A a : MaySwap(wk'.copy, a) = MaySwap(crev, a)
    BY <2>1
  <2> QED
    BY <2>1, <2>2, <2>3, StepSets DEF InPhase
<1>7. CASE StartUnpause
  <2>1. wk'.pc = "unpause" /\ wk'.copy = crev
    BY <1>1, <1>7, StartUnpauseOK
  <2>2. MayFinish(wk'.copy)
    BY <1>7, <2>1 DEF StartUnpause, Latestly, Undoing, MayFinish
  <2> QED
    BY <2>1, <2>2 DEF InPhase, Reverting, UndoSteps
<1>8. CASE StartRejected
  BY <1>1, <1>2, <1>8, InPhaseSame DEF StartRejected, vars, wkVars
<1> QED
  BY <1>3, <1>4, <1>5, <1>6, <1>7, <1>8 DEF Starts

LEMMA InPhaseStep == PhaseInv /\ [Next]_vars => InPhase'
<1> SUFFICES ASSUME PhaseInv, [Next]_vars PROVE InPhase'
  OBVIOUS
<1>0. TypeOK /\ AllFit /\ CopyCurrent /\ InPhase
  BY DEF PhaseInv, EndsInv
<1>1. ASSUME wk.pc \notin {"idle", "put"}, wk'.pc = "put", rev' = rev, wk'.fresh = wk.fresh,
             Moves(wk.copy, wk'.copy)
      PROVE  InPhase'
  <2>1. wk'.fresh => rev' = wk.copy
    BY <1>0, <1>1 DEF CopyCurrent
  <2>2. wk'.fresh => Moves(rev', wk'.copy)
    BY <1>1, <2>1
  <2> QED
    BY <1>1, <2>2 DEF InPhase, Reverting, UndoSteps
<1>2. CASE Starts
  BY <1>2, InPhaseStarts
<1>3. CASE SwapStep
  <2>1. CASE wk' = IdleWk
    BY <2>1, InPhaseIdle
  <2>2. CASE wk' # IdleWk
    <3>1. /\ wk'.copy = wk.copy
          /\ \/ wk'.pc \in Reverting /\ MaySwap(wk.copy, "latest")
             \/ wk'.pc \in UndoSteps /\ MaySwap(wk.copy, "undo")
      BY <1>0, <1>3, <2>2, SwapStays DEF InPhase
    <3>2. wk'.pc \notin {"put", "pause", "pauseWait", "unpause", "readyWait"}
      BY <3>1 DEF Reverting, UndoSteps
    <3>3. \A a : MaySwap(wk'.copy, a) = MaySwap(wk.copy, a)
      BY <3>1
    <3> QED
      BY <3>1, <3>2, <3>3, StepSets DEF InPhase
  <2> QED
    BY <2>1, <2>2
<1>4. CASE Pause
  <2>1. CASE wk' = IdleWk
    BY <2>1, InPhaseIdle
  <2>2. CASE wk'.pc = "pauseWait" /\ wk'.copy = wk.copy
    <3>1. MayStop(wk.copy) /\ MayStop(wk'.copy) = MayStop(wk.copy)
      BY <1>0, <1>4, <2>2 DEF Pause, InPhase
    <3> QED
      BY <2>2, <3>1 DEF InPhase, Reverting, UndoSteps
  <2> QED
    BY <1>0, <1>4, <2>1, <2>2, PauseOK
<1>5. CASE Unpause
  <2>1. wk.pc = "unpause" /\ wk'.pc = "readyWait" /\ wk'.copy = wk.copy
    BY <1>0, <1>5, UnpauseOK
  <2>2. MayFinish(wk.copy) /\ MayFinish(wk'.copy) = MayFinish(wk.copy)
    BY <1>0, <2>1 DEF InPhase
  <2> QED
    BY <2>1, <2>2 DEF InPhase, Reverting, UndoSteps
<1>6. CASE Paused \/ Reverted \/ Undone
  <2>1. rev' = rev
    BY <1>6 DEF Paused, Reverted, Undone, Bound, revVars
  <2>2. /\ wk'.pc = "put" /\ wk'.fresh = wk.fresh
        /\ \/ wk.pc = "pauseWait" /\ wk'.copy = WithState(wk.copy, "paused")
           \/ wk.pc = "bindWait" /\ wk'.copy = WithState(wk.copy, "reverted")
           \/ wk.pc = "undoWait" /\ wk'.copy = WithState(wk.copy, "undone")
    BY <1>0, <1>6, WaitsPut
  <2>3. Moves(wk.copy, wk'.copy)
    BY <1>0, <2>2 DEF InPhase, Reverting, UndoSteps, Moves, Stops, SwapsTo
  <2> QED
    BY <1>1, <2>1, <2>2, <2>3
<1>7. CASE Unpaused
  <2>1. rev' = rev
    BY <1>7 DEF Unpaused, revVars
  <2>2. wk.pc = "readyWait" /\ wk'.pc = "put" /\ wk'.fresh = wk.fresh
    BY <1>0, <1>7, UnpausedOK
  <2>3. Finishes(wk.copy, wk'.copy)
    <3>1. MayFinish(wk.copy)
      BY <1>0, <2>2 DEF InPhase
    <3> QED
      BY <1>0, <1>7, <3>1, UnpausedEnds, UnpausedIdle DEF AllFit, Finishes
  <2> QED
    BY <1>1, <2>1, <2>2, <2>3 DEF Moves
<1>8. CASE Put \/ CallLost \/ Timeout \/ Crash
  <2>1. wk' = IdleWk
    BY <1>0, <1>8, PutOK DEF CallLost, Timeout, Crash, Error
  <2> QED
    BY <2>1, InPhaseIdle
<1>9. CASE SyncRevert \/ Resync \/ Environment \/ UNCHANGED vars
  <2>1. wk' = wk /\ rev' = rev
    BY <1>9 DEF SyncRevert, Resync, Environment, Rest, vars, revVars, wkVars
  <2> QED
    BY <1>0, <2>1, InPhaseSame
<1>10. ASSUME NEW a \in {"latest", "undo"}, Request(a) PROVE InPhase'
  <2>1. wk'.copy = wk.copy /\ wk'.pc = wk.pc /\ ~wk'.fresh
    BY <1>0, <1>10 DEF Request, TypeOK, WorkerOK, Workers
  <2> QED
    BY <1>0, <2>1, InPhaseSame
<1> QED
  BY <1>2, <1>3, <1>4, <1>5, <1>6, <1>7, <1>8, <1>9, <1>10 DEF Next, Steps, SwapStep

LEMMA PhaseInit == Init => PhaseInv
  BY EndsInit, InPhaseIdle DEF PhaseInv, Init, IdleWk, InPhase, Reverting, UndoSteps

LEMMA PhaseStep == PhaseInv /\ [Next]_vars => PhaseInv'
  BY InPhaseStep, EndsStep, TypeStep, HistoryStep, BehindStep DEF PhaseInv, EndsInv

----------------------------------------------------------------------------
(* The worker implements RevertRequests *)

\* The step of the abstract specification that each step of the model is.
LEMMA UserStep ==
    ASSUME {"sts", "pods"} \subseteq Prompt, PhaseInv, Down, [Next]_vars
    PROVE  [User!Next]_(User!vars)
<1>0. TypeOK /\ InPhase /\ rev \in Reverts
  BY DEF PhaseInv, EndsInv, TypeOK
<1>1. PausedMeansDown /\ PausedMeansDown' /\ rev' \in Reverts
  BY DownStep, TypeStep DEF Down, TypeOK
<1>2. CASE rev' = rev
  <2>1. AppDown \/ Present \subseteq Present'
    <3> SUFFICES ASSUME ~AppDown, NEW c \in Present PROVE c \in Present'
      OBVIOUS
    <3>1. c \in Claims /\ pvc[c].here /\ ~pvc[c].dying /\ ~Deleted(c)
      BY SwapSafe DEF Present
    <3> QED
      BY <3>1 DEF Deleted, Present
  <2>2. StateOf(rev) = "paused" => AppDown'
    BY <1>1, <1>2 DEF PausedMeansDown
  <2>3. User!State = StateOf(rev)
    BY DEF User!State, User!Last, StateOf, Latest, Last
  <2>4. User!Application
    BY <1>2, <2>1, <2>2, <2>3 DEF User!Application
  <2> QED
    BY <2>4 DEF User!Next
<1>3. CASE Put /\ rev' # rev
  <2>1. wk.pc = "put" /\ wk.fresh /\ rev' = wk.copy /\ UNCHANGED clusterVars
    BY <1>0, <1>3, PutOK DEF revVars
  <2>2. Moves(rev, rev')
    BY <1>0, <2>1 DEF InPhase
  <2>3. StateOf(rev') = "paused" => AppDown
    BY <1>1, <2>1 DEF PausedMeansDown
  <2> QED
    BY <1>0, <1>1, <2>1, <2>2, <2>3, MoveAllowed DEF clusterVars, appVars, pvcVars
<1>4. ASSUME NEW a \in {"latest", "undo"}, Request(a) PROVE [User!Next]_(User!vars)
  <2>1. rev'.action = a /\ rev'.reverts = rev.reverts
    BY <1>0, <1>4 DEF Request, Reverts
  <2>2. Present' = Present /\ AppDown' = AppDown
    BY <1>4 DEF Request, clusterVars, appVars, pvcVars, Present, AppDown, Listed
  <2>3. User!Ask(a)
    BY <2>1 DEF User!Ask
  <2> QED
    BY <2>2, <2>3 DEF User!Next, User!Request
<1>5. ASSUME ~Put, ~(\E a \in {"latest", "undo"} : Request(a)) PROVE rev' = rev
  <2>1. Starts => rev' = rev
    BY <1>0, StartsOK DEF revVars
  <2>2. SwapStep => rev' = rev
    BY <1>0, SwapSteps DEF revVars
  <2>3. Pause \/ Unpause \/ Paused \/ Reverted \/ Undone \/ Unpaused => rev' = rev
    BY DEF Pause, Unpause, Paused, Reverted, Undone, Unpaused, Bound, revVars
  <2>4. CallLost \/ Timeout \/ Crash \/ SyncRevert \/ Resync \/ Environment \/ UNCHANGED vars
          => rev' = rev
    BY DEF CallLost, Timeout, Crash, SyncRevert, Resync, Environment, Rest, vars, revVars
  <2> QED
    BY <1>5, <2>1, <2>2, <2>3, <2>4 DEF Next, Steps, SwapStep
<1> QED
  BY <1>2, <1>3, <1>4, <1>5

LEMMA UserInit == Init => User!Init
<1> SUFFICES ASSUME Init PROVE User!Init
  OBVIOUS
<1>1. rev.action = "idle" /\ rev.reverts = <<>> /\ replicas # 0
  BY ReplicasNat DEF Init, ClusterInit
<1> QED
  BY <1>1 DEF User!Init, AppDown

\* The worker implements what the user is promised, RevertRequests: phases in order and
\* on the newest entry only, the history trimmed to spec.keepStatus, an action "idle"
\* only at its end, no request overwritten, no claim deleted under a pod.  It does so
\* for any number of claims, requests (even in the middle of an action), lost calls and
\* replies, restarts, and for a cache of the SnapshotRevert that lags, provided that the
\* caches of the StatefulSet and of the pods see the writes made before an attempt.
THEOREM Refines ==
    ASSUME {"sts", "pods"} \subseteq Prompt
    PROVE  Spec => KeepsPromise
<1>1. Init => PhaseInv /\ Down /\ User!Init
  BY PhaseInit, DownInit, UserInit
<1>2. PhaseInv /\ Down /\ [Next]_vars => PhaseInv' /\ Down'
  BY PhaseStep, DownStep
<1>3. PhaseInv /\ Down /\ [Next]_vars => [User!Next]_(User!vars)
  BY UserStep
<1> QED
  BY <1>1, <1>2, <1>3, PTL DEF Spec, KeepsPromise, User!Spec

----------------------------------------------------------------------------
(* A revert or an undo that is over has given the replicas back *)

\* Every entry of every version of the history records the replicas of a
\* StatefulSet that was up.
Up == {d \in Details : d.replicas = Replicas}
AllUp(r) == r.reverts \in Seq(Up)
RecordedUp == AllUp(rev) /\ AllUp(crev) /\ AllUp(wk.copy)

\* A version that no worker starts to scale down from.
Over(r) == r.action = "idle" \/ StateOf(r) \in Settled

\* The StatefulSet is up from the patch of unpause to the put of the action's end,
\* and nothing scales it down before the next request: the cached copy is over too.
Raised ==
    /\ rev.action = "idle" => replicas = Replicas /\ wk.pc # "pause" /\ Over(crev)
    /\ wk.pc = "readyWait" => replicas = Replicas
    /\ wk.pc \notin {"idle", "put"} => wk.copy.action # "idle"
    /\ wk.fresh /\ wk.pc \in {"unpause", "readyWait"} => StateOf(crev) \in Settled
    /\ wk.fresh /\ wk.pc = "put" /\ wk.copy.action = "idle" => replicas = Replicas /\ Over(crev)

UpInv == TypeOK /\ HistoryFinished /\ OneBehind /\ RecordedUp /\ Raised

----------------------------------------------------------------------------
(* The recorded replicas *)

LEMMA EmptyUp == <<>> \in Seq(Up) /\ AllUp(IdleWk.copy)
<1>1. <<>> \in Seq(Up)
  OBVIOUS
<1>2. IdleWk.copy.reverts = <<>>
  BY DEF IdleWk
<1> QED
  BY <1>1, <1>2 DEF AllUp

LEMMA LatestUp ==
    ASSUME NEW r, AllUp(r), r.reverts # <<>>
    PROVE  Latest(r).replicas = Replicas
<1>1. Last(r.reverts) \in Up
  BY DEF AllUp, Last
<1> QED
  BY <1>1 DEF Latest, Up

LEMMA WithStateUp ==
    ASSUME NEW r \in Reverts, r.reverts # <<>>, AllUp(r), NEW s \in States
    PROVE  AllUp(WithState(r, s)) /\ WithState(r, s).reverts # <<>>
<1> DEFINE n == Len(r.reverts)
           d == [r.reverts[n] EXCEPT !.state = s]
           f == [r.reverts EXCEPT ![n] = d]
<1>1. n \in Nat \ {0} /\ r.reverts[n] \in Up /\ r.reverts \in Seq(Up)
  BY DEF AllUp
<1>2. d \in Up
  <2> HIDE DEF n
  <2> QED
    BY <1>1 DEF Up, Details
<1>3. f \in Seq(Up) /\ Len(f) = n
  <2> HIDE DEF d
  <2> QED
    BY <1>1, <1>2
<1>4. f # <<>>
  BY <1>1, <1>3
<1>5. WithState(r, s).reverts = f
  BY DEF WithState, Reverts
<1> QED
  BY <1>3, <1>4, <1>5 DEF AllUp

\* What Finish leaves to put has the action of r, and entries of r only.
LEMMA FinishUp ==
    ASSUME NEW r \in Reverts, AllUp(r), Finish(r)
    PROVE  /\ AllUp(wk'.copy) /\ wk'.copy.action = r.action
           /\ wk'.pc = "put" /\ wk'.fresh = wk.fresh
<1> DEFINE t == [r EXCEPT !.reverts = Trim(@)]
           kept == IF wk.copy.action = "latest" THEN t ELSE r
<1>1. t.reverts \in Seq(Up) /\ t.action = r.action
  <2>1. Trim(r.reverts) \in Seq(Up)
    BY TrimKeepsLast DEF AllUp
  <2> QED
    BY <2>1 DEF Reverts
<1>2. AllUp(kept) /\ kept.action = r.action
  BY <1>1 DEF AllUp
<1> HIDE DEF kept
<1>3. wk' = ToPut(kept, wk.fresh)
  BY DEF Finish, kept
<1> QED
  BY <1>2, <1>3 DEF ToPut, IdleWk

LEMMA WaitsUp ==
    ASSUME TypeOK, AllUp(wk.copy), Paused \/ Reverted \/ Undone
    PROVE  AllUp(wk'.copy) /\ wk'.copy.action = wk.copy.action
<1>1. wk.pc \notin {"idle", "put"}
  BY DEF Paused, Reverted, Undone, Bound
<1>2. PICK s \in States : Finish(WithState(wk.copy, s))
  BY DEF Paused, Reverted, Undone, Bound, States
<1>3. wk.copy \in Reverts /\ wk.copy.reverts # <<>>
  BY <1>1, CopyType
<1>4. /\ WithState(wk.copy, s) \in Reverts /\ AllUp(WithState(wk.copy, s))
      /\ WithState(wk.copy, s).action = wk.copy.action
  BY <1>3, StateChange, WithStateUp
<1> QED
  BY <1>2, <1>4, FinishUp

LEMMA FrontUp ==
    ASSUME NEW S, NEW q \in Seq(S), q # <<>>
    PROVE  Front(q) \in Seq(S)
  BY DEF Front

LEMMA UnpausedUp ==
    ASSUME TypeOK, AllUp(wk.copy), Unpaused
    PROVE  AllUp(wk'.copy) /\ wk'.fresh = wk.fresh /\ wk'.pc = "put" /\ wk.pc = "readyWait"
<1> DEFINE q == WithState(wk.copy, "finished")
           done == [q EXCEPT !.action = "idle"]
           dropped == [done EXCEPT !.reverts = Front(@)]
           res == IF wk.copy.action = "undo" THEN dropped ELSE done
<1>1. wk.pc = "readyWait" /\ Finish(res)
  BY DEF Unpaused
<1>2. wk.copy \in Reverts /\ wk.copy.reverts # <<>>
  BY <1>1, CopyType
<1>3. q \in Reverts /\ q.reverts \in Seq(Up) /\ q.reverts # <<>> /\ q.reverts \in Seq(Details)
  BY <1>2, StateChange, WithStateUp DEF AllUp, States, Reverts
<1> HIDE DEF q
<1>4. done \in Reverts /\ done.reverts = q.reverts
  BY <1>3 DEF Reverts
<1> HIDE DEF done
<1>5. Front(done.reverts) \in Seq(Up) /\ Front(done.reverts) \in Seq(Details)
  BY <1>3, <1>4, FrontUp
<1>6. dropped \in Reverts /\ dropped.reverts \in Seq(Up)
  BY <1>4, <1>5 DEF Reverts
<1> HIDE DEF dropped
<1>7. res \in Reverts /\ AllUp(res)
  BY <1>3, <1>4, <1>6 DEF AllUp
<1> HIDE DEF res
<1> QED
  BY <1>1, <1>7, FinishUp

\* init records the replicas of a cached StatefulSet that has some.
LEMMA InitUp ==
    ASSUME TypeOK, AllUp(crev), StartInit
    PROVE  AllUp(wk'.copy)
<1>1. PICK d \in Details : d.replicas # 0 /\ wk'.copy.reverts = Trim(Append(crev.reverts, d))
  BY InitBegins DEF Begins
<1>2. d \in Up
  BY <1>1 DEF Up, Details
<1> DEFINE h == Append(crev.reverts, d)
<1>3. h \in Seq(Up)
  BY <1>2 DEF AllUp
<1> HIDE DEF h
<1>4. Trim(h) \in Seq(Up)
  BY <1>3, TrimKeepsLast
<1> QED
  BY <1>1, <1>4 DEF AllUp, h

LEMMA StartsUp == ASSUME TypeOK, RecordedUp, Starts PROVE RecordedUp'
<1>1. rev' = rev /\ crev' = crev
  BY StartsOK DEF revVars
<1>2. CASE StartInit
  BY <1>1, <1>2, InitUp DEF RecordedUp, AllUp
<1>3. CASE ~StartInit /\ ~StartRejected
  <2>1. wk'.copy = crev
    BY <1>3, StartNothingOK, StartPauseOK, StartSwapOK, StartUnpauseOK DEF Starts
  <2> QED
    BY <1>1, <2>1 DEF RecordedUp, AllUp
<1>4. CASE StartRejected
  BY <1>4 DEF StartRejected, vars, revVars, wkVars, RecordedUp, AllUp
<1> QED
  BY <1>2, <1>3, <1>4

LEMMA RecordedStep == TypeOK /\ RecordedUp /\ [Next]_vars => RecordedUp'
<1> SUFFICES ASSUME TypeOK, RecordedUp, [Next]_vars PROVE RecordedUp'
  OBVIOUS
<1>1. CASE SwapStep
  <2>1. rev' = rev /\ crev' = crev /\ GoesOn
    BY <1>1, SwapSteps DEF revVars
  <2> QED
    BY <2>1, EmptyUp DEF GoesOn, RecordedUp, AllUp
<1>2. CASE Pause
  <2>1. rev' = rev /\ crev' = crev
    BY <1>2 DEF Pause, revVars
  <2> QED
    BY <1>2, <2>1, PauseOK, EmptyUp DEF RecordedUp, AllUp
<1>3. CASE Unpause
  <2>1. rev' = rev /\ crev' = crev
    BY <1>3 DEF Unpause, revVars
  <2> QED
    BY <1>3, <2>1, UnpauseOK DEF RecordedUp, AllUp
<1>4. CASE Paused \/ Reverted \/ Undone \/ Unpaused
  <2>1. rev' = rev /\ crev' = crev
    BY <1>4 DEF Paused, Reverted, Undone, Unpaused, Bound, revVars
  <2>2. AllUp(wk'.copy)
    BY <1>4, WaitsUp, UnpausedUp DEF RecordedUp
  <2> QED
    BY <2>1, <2>2 DEF RecordedUp, AllUp
<1>5. CASE Put
  <2>1. wk' = IdleWk /\ rev' \in {rev, wk.copy} /\ crev' \in {crev, wk.copy}
    BY <1>5, PutOK DEF revVars
  <2> QED
    BY <2>1, EmptyUp DEF RecordedUp, AllUp
<1>6. CASE CallLost \/ Timeout \/ Crash
  <2>1. wk' = IdleWk /\ rev' = rev /\ crev' \in {rev, crev}
    BY <1>6 DEF CallLost, Timeout, Crash, Error, revVars
  <2> QED
    BY <2>1, EmptyUp DEF RecordedUp, AllUp
<1>7. CASE SyncRevert \/ Resync \/ Environment \/ UNCHANGED vars
  <2>1. wk' = wk /\ rev' = rev /\ crev' \in {rev, crev}
    BY <1>7 DEF SyncRevert, Resync, Environment, Rest, vars, revVars, wkVars
  <2> QED
    BY <2>1 DEF RecordedUp, AllUp
<1>8. ASSUME NEW a \in {"latest", "undo"}, Request(a) PROVE RecordedUp'
  <2>1. rev \in Reverts /\ wk \in Workers
    BY DEF TypeOK, WorkerOK
  <2>2. rev'.reverts = rev.reverts /\ wk'.copy = wk.copy /\ crev' \in {rev', crev}
    BY <1>8, <2>1 DEF Request, Reverts, Workers
  <2> QED
    BY <2>2 DEF RecordedUp, AllUp
<1> QED
  BY <1>1, <1>2, <1>3, <1>4, <1>5, <1>6, <1>7, <1>8, StartsUp DEF Next, Steps, SwapStep

----------------------------------------------------------------------------
(* The StatefulSet is up when the action is over *)

\* The rest of the cluster never changes the replicas of the StatefulSet.
LEMMA ReplicasKept == ASSUME Environment PROVE replicas' = replicas
<1>1. Sync => replicas' = replicas
  BY DEF Sync, SyncSts, SyncPod, SyncPvc, SyncPv, appVars
<1>2. Controllers(Taken) => replicas' = replicas
  BY DEF Controllers, CreatePod, RunPod, DeletePod, RemovePvc, BindFree, Provision, Rebind,
         TakeSnapshot, Reclaim, appVars
<1> QED
  BY <1>1, <1>2 DEF Environment

\* A step that leaves the versions and the replicas alone, and the worker idle or
\* on its way at a step Raised says no more of.
LEMMA RaisedQuiet ==
    ASSUME Raised, rev' = rev, crev' = crev, replicas' = replicas,
           \/ wk' = IdleWk
           \/ /\ wk'.copy.action = wk.copy.action /\ wk.pc \notin {"idle", "put"}
              /\ wk'.pc \notin {"pause", "unpause", "readyWait"}
    PROVE  Raised'
<1>1. Over(crev') = Over(crev) /\ StateOf(crev') = StateOf(crev)
  BY DEF Over, StateOf, Latest
<1>2. CASE wk' = IdleWk
  <2>1. ~wk'.fresh /\ wk'.pc = "idle"
    BY <1>2 DEF IdleWk
  <2> QED
    BY <1>1, <2>1 DEF Raised, Over, StateOf, Latest
<1>3. CASE /\ wk'.copy.action = wk.copy.action /\ wk.pc \notin {"idle", "put"}
           /\ wk'.pc \notin {"pause", "unpause", "readyWait"}
  BY <1>1, <1>3 DEF Raised, Over, StateOf, Latest
<1> QED
  BY <1>2, <1>3

LEMMA RaisedStarts == ASSUME UpInv, Starts PROVE Raised'
<1>1. /\ TypeOK /\ RecordedUp /\ Raised
      /\ crevNew => crev = rev
  BY DEF UpInv, OneBehind
<1>2. rev' = rev /\ crev' = crev /\ replicas' = replicas
  BY <1>1, StartsOK DEF revVars, clusterVars, appVars
<1>3. Over(crev') = Over(crev) /\ StateOf(crev') = StateOf(crev)
  BY <1>2 DEF Over, StateOf, Latest
<1>4. rev'.action = "idle" => replicas' = Replicas /\ Over(crev')
  BY <1>1, <1>2, <1>3 DEF Raised
<1>5. CASE StartNothing
  <2>1. wk'.pc = "put" /\ wk'.copy = crev /\ wk'.fresh = crevNew
    BY <1>1, <1>5, StartNothingOK
  <2> QED
    BY <1>1, <1>2, <1>3, <1>4, <2>1 DEF Raised
<1>6. CASE StartInit
  <2>1. wk'.pc = "put" /\ wk'.copy.action = "latest"
    BY <1>1, <1>6, StartInitOK DEF StartInit, Latestly
  <2> QED
    BY <1>4, <2>1 DEF Raised
<1>7. CASE StartPause
  <2>1. wk'.pc \in {"pause", "pauseWait"} /\ wk'.copy = crev /\ StateOf(crev) \notin Settled
    BY <1>1, <1>7, StartPauseOK DEF Settled
  <2>2. crev.action # "idle"
    BY <1>7 DEF StartPause, Latestly, Undoing
  <2>3. rev.action # "idle"
    BY <1>1, <2>1, <2>2 DEF Raised, Over
  <2> QED
    BY <1>2, <2>1, <2>2, <2>3 DEF Raised
<1>8. CASE StartRevert \/ StartUndo
  <2>1. wk'.pc \in Swapping /\ wk'.copy = crev
    BY <1>1, <1>8, StartSwapOK
  <2>2. crev.action # "idle"
    BY <1>8 DEF StartRevert, StartUndo, Latestly, Undoing
  <2>3. wk'.pc \notin {"idle", "put", "pause", "unpause", "readyWait"}
    BY <2>1 DEF Swapping, Loops
  <2> QED
    BY <1>4, <2>1, <2>2, <2>3 DEF Raised
<1>9. CASE StartUnpause
  <2>1. wk'.pc = "unpause" /\ wk'.copy = crev /\ StateOf(crev) \in Settled
    BY <1>1, <1>9, StartUnpauseOK
  <2>2. crev.action # "idle"
    BY <1>9 DEF StartUnpause, Latestly, Undoing
  <2> QED
    BY <1>3, <1>4, <2>1, <2>2 DEF Raised
<1>10. CASE StartRejected
  BY <1>1, <1>3, <1>10 DEF StartRejected, vars, wkVars, revVars, clusterVars, appVars, Raised
<1> QED
  BY <1>5, <1>6, <1>7, <1>8, <1>9, <1>10 DEF Starts

LEMMA RaisedStep ==
    ASSUME "unpause" \notin FaultyCalls, UpInv, [Next]_vars
    PROVE  Raised'
<1>0. /\ TypeOK /\ RecordedUp /\ Raised
      /\ crevNew => crev = rev
      /\ wk.fresh => crevNew
  BY DEF UpInv, OneBehind
<1>1. CASE SwapStep
  <2>1. rev' = rev /\ crev' = crev /\ replicas' = replicas /\ GoesOn /\ wk.pc \in Loops
    BY <1>0, <1>1, SwapSteps DEF revVars, appVars
  <2>2. wk.pc \notin {"idle", "put"}
    BY <2>1 DEF Loops
  <2>3. wk'.pc \in Swapping => wk'.pc \notin {"pause", "unpause", "readyWait"}
    BY DEF Swapping, Loops
  <2> QED
    BY <1>0, <2>1, <2>2, <2>3, RaisedQuiet DEF GoesOn
<1>2. CASE Pause
  <2>1. rev' = rev /\ crev' = crev
    BY <1>2 DEF Pause, revVars
  <2>2. rev.action # "idle" /\ wk.copy.action # "idle"
    BY <1>0, <1>2, PauseOK DEF Raised
  <2>3. CASE wk' = IdleWk
    <3>1. ~wk'.fresh /\ wk'.pc = "idle"
      BY <2>3 DEF IdleWk
    <3> QED
      BY <2>1, <2>2, <3>1 DEF Raised
  <2>4. CASE wk'.pc = "pauseWait" /\ wk'.copy = wk.copy
    BY <2>1, <2>2, <2>4 DEF Raised
  <2> QED
    BY <1>0, <1>2, <2>3, <2>4, PauseOK
<1>3. CASE Unpause
  <2>1. /\ wk.pc = "unpause" /\ wk'.pc = "readyWait"
        /\ wk'.copy = wk.copy /\ wk'.fresh = wk.fresh
    BY <1>0, <1>3, UnpauseOK
  <2>2. wk.copy.reverts # <<>>
    BY <1>0, <2>1, CopyType
  <2>3. replicas' = Replicas
    BY <1>0, <1>3, <2>2, LatestUp DEF Unpause, SetReplicas, Target, RecordedUp
  <2>4. rev' = rev /\ crev' = crev
    BY <1>3 DEF Unpause, revVars
  <2>5. Over(crev') = Over(crev) /\ StateOf(crev') = StateOf(crev)
    BY <2>4 DEF Over, StateOf, Latest
  <2> QED
    BY <1>0, <2>1, <2>3, <2>4, <2>5 DEF Raised
<1>4. CASE Paused \/ Reverted \/ Undone
  <2>1. rev' = rev /\ crev' = crev /\ replicas' = replicas
    BY <1>4 DEF Paused, Reverted, Undone, Bound, revVars, clusterVars, appVars
  <2>2. wk.pc \notin {"idle", "put"}
    BY <1>4 DEF Paused, Reverted, Undone, Bound
  <2>3. wk'.pc = "put" /\ wk'.copy.action = wk.copy.action
    BY <1>0, <1>4, WaitsOK, WaitsUp DEF RecordedUp
  <2> QED
    BY <1>0, <2>1, <2>2, <2>3, RaisedQuiet
<1>5. CASE Unpaused
  <2>1. rev' = rev /\ crev' = crev /\ replicas' = replicas
    BY <1>5 DEF Unpaused, revVars, clusterVars, appVars
  <2>2. wk.pc = "readyWait" /\ wk'.pc = "put" /\ wk'.fresh = wk.fresh
    BY <1>0, <1>5, UnpausedOK
  <2>3. Over(crev') = Over(crev) /\ StateOf(crev') = StateOf(crev)
    BY <2>1 DEF Over, StateOf, Latest
  <2>4. wk'.fresh => Over(crev')
    BY <1>0, <2>2, <2>3 DEF Raised, Over
  <2> QED
    BY <1>0, <2>1, <2>2, <2>3, <2>4 DEF Raised
<1>6. CASE Put
  <2>1. /\ wk.pc = "put" /\ ~wk'.fresh /\ wk'.pc = "idle"
        /\ replicas' = replicas
    BY <1>0, <1>6, PutOK DEF IdleWk, clusterVars, appVars
  <2>2. CASE rev' = rev /\ crev' = crev
    BY <1>0, <1>6, <2>1, <2>2, PutOK, RaisedQuiet
  <2>3. CASE wk.fresh /\ rev' = wk.copy /\ crev' \in {wk.copy, crev}
    <3>1. rev'.action = "idle" => replicas' = Replicas /\ Over(crev)
      BY <1>0, <2>1, <2>3 DEF Raised
    <3>2. rev'.action = "idle" => Over(crev')
      <4>1. CASE crev' = crev
        BY <3>1, <4>1 DEF Over, StateOf, Latest
      <4>2. CASE crev' = rev'
        BY <4>2 DEF Over
      <4> QED
        BY <2>3, <4>1, <4>2
    <3> QED
      BY <2>1, <3>1, <3>2 DEF Raised
  <2> QED
    BY <1>0, <1>6, <2>2, <2>3, PutOK DEF revVars
<1>7. CASE CallLost \/ Timeout
  <2>1. rev' = rev /\ crev' = crev /\ replicas' = replicas /\ wk' = IdleWk
    BY <1>7 DEF CallLost, Timeout, Error, revVars, clusterVars, appVars
  <2> QED
    BY <1>0, <2>1, RaisedQuiet
<1>8. CASE Crash
  <2>1. /\ rev' = rev /\ crev' = rev /\ replicas' = replicas
        /\ ~wk'.fresh /\ wk'.pc = "idle"
    BY <1>8 DEF Crash, Error, IdleWk
  <2> QED
    BY <1>0, <2>1 DEF Raised, Over
<1>9. CASE SyncRevert
  <2>1. /\ rev' = rev /\ crev' = rev /\ replicas' = replicas /\ wk' = wk /\ ~wk.fresh
    BY <1>0, <1>9 DEF SyncRevert, clusterVars, appVars
  <2> QED
    BY <1>0, <2>1 DEF Raised, Over
<1>10. CASE Resync \/ Environment \/ UNCHANGED vars
  <2>1. rev' = rev /\ crev' = crev /\ wk' = wk /\ replicas' = replicas
    BY <1>10, ReplicasKept
       DEF Resync, Environment, Rest, vars, revVars, wkVars, clusterVars, appVars
  <2>2. Over(crev') = Over(crev) /\ StateOf(crev') = StateOf(crev)
    BY <2>1 DEF Over, StateOf, Latest
  <2> QED
    BY <1>0, <2>1, <2>2 DEF Raised
<1>11. ASSUME NEW a \in {"latest", "undo"}, Request(a) PROVE Raised'
  <2>1. rev \in Reverts /\ wk \in Workers
    BY <1>0 DEF TypeOK, WorkerOK
  <2>2. rev'.action # "idle" /\ replicas' = replicas
    BY <1>11, <2>1 DEF Request, Reverts, clusterVars, appVars
  <2>3. wk'.copy = wk.copy /\ wk'.pc = wk.pc /\ ~wk'.fresh
    BY <1>11, <2>1 DEF Request, Workers
  <2> QED
    BY <1>0, <2>2, <2>3 DEF Raised
<1> QED
  BY <1>1, <1>2, <1>3, <1>4, <1>5, <1>6, <1>7, <1>8, <1>9, <1>10, <1>11, RaisedStarts
     DEF Next, Steps, SwapStep

LEMMA UpInit == Init => UpInv
<1> SUFFICES ASSUME Init PROVE RecordedUp /\ Raised
  BY TypeInit, HistoryInit, BehindInit DEF UpInv
<1>1. /\ rev = [action |-> "idle", reverts |-> <<>>] /\ crev = rev
      /\ wk.pc = "idle" /\ ~wk.fresh /\ replicas = Replicas
      /\ wk = IdleWk
  BY DEF Init, IdleWk, ClusterInit
<1>2. rev.reverts = <<>> /\ rev.action = "idle"
  BY <1>1
<1>3. RecordedUp
  BY <1>1, <1>2, EmptyUp DEF RecordedUp, AllUp
<1>4. Raised
  BY <1>1, <1>2 DEF Raised, Over
<1> QED
  BY <1>3, <1>4

\* When the action is "idle" the StatefulSet has its replicas back, for any number of
\* claims, requests, faults and restarts, however old the caches are, and even if the
\* user changes the action midway, provided that no call of unpause is lost: only its
\* error is overwritten.
THEOREM FinishedCorrect ==
    ASSUME "unpause" \notin FaultyCalls
    PROVE  Spec => []FinishedMeansUp
<1>1. Init => UpInv
  BY UpInit
<1>2. UpInv /\ [Next]_vars => UpInv'
  BY TypeStep, HistoryStep, BehindStep, RecordedStep, RaisedStep DEF UpInv
<1>3. UpInv => FinishedMeansUp
  BY DEF UpInv, Raised, FinishedMeansUp
<1> QED
  BY <1>1, <1>2, <1>3, PTL DEF Spec

=============================================================================
