----------------------------- MODULE VolumesProofs -----------------------------
(***************************************************************************)
(* What a revert and an undo do to claims and volumes (revertSnapshots and *)
(* undoRevertSnapshots, pkg/manager/reverts.go): swapped claims are        *)
(* deleted again only by a stale attempt, an undo ends with every claim on *)
(* the volume it had, no recorded volume is reclaimed, and what is         *)
(* "reverted" holds the snapshots.  A theorem that needs a cache to see    *)
(* the worker's own writes at once names it.                               *)
(***************************************************************************)
EXTENDS SnapshotRevertsProofs

----------------------------------------------------------------------------
(* Where the worker goes *)

\* The attempt goes on, with the same copy, at step pc and recorded claim i.
At(pc, i) == wk'.pc = pc /\ wk'.i = i /\ wk'.copy = wk.copy /\ wk'.fresh = wk.fresh

\* It goes on with the next recorded claim, or after the last one at next.
Onward(pc, next) ==
    \/ wk.i < Len(Old) /\ At(pc, wk.i + 1)
    \/ wk.i = Len(Old) /\ At(next, 1)

LEMMA GotoMoves ==
    ASSUME TypeOK, NEW p \in Calls \cup Waits, wk' = Goto(p)
    PROVE  At(p, wk.i)
  BY DEF TypeOK, WorkerOK, Workers, Goto, At

LEMMA OldType ==
    ASSUME TypeOK, wk.pc \notin {"idle", "put"}
    PROVE  Old \in Seq(Recorded) /\ Len(Old) \in Nat /\ DOMAIN Old = 1..Len(Old)
<1>1. Old \in Seq(Recorded)
  BY CopyType DEF Old, Details
<1> QED
  BY <1>1

\* The place of the worker in the list of recorded claims.
LEMMA PlaceType ==
    ASSUME TypeOK, wk.pc \in Loops
    PROVE  /\ wk.i \in 1..Len(Old) /\ Len(Old) \in Nat /\ DOMAIN Old = 1..Len(Old)
           /\ Cur = Old[wk.i] /\ Cur \in Recorded /\ Old \in Seq(Recorded)
<1>1. wk.pc \notin {"idle", "put"}
  BY DEF Loops
<1>2. wk.i \in Nat \ {0} /\ wk.i <= Len(Old)
  BY DEF TypeOK, WorkerOK, Workers
<1> QED
  BY <1>1, <1>2, OldType, CurType DEF Cur

LEMMA NextClaimMoves ==
    ASSUME TypeOK, wk.pc \in Loops, NEW p \in Calls \cup Waits, NEW n \in Calls \cup Waits,
           wk' = NextClaim(p, n)
    PROVE  Onward(p, n)
<1>1. wk.i \in 1..Len(Old) /\ Len(Old) \in Nat /\ wk \in Workers
  BY PlaceType DEF TypeOK, WorkerOK
<1>2. CASE wk.i < Len(Old)
  <2>1. wk' = [wk EXCEPT !.i = wk.i + 1, !.pc = p]
    BY <1>2 DEF NextClaim
  <2> QED
    BY <1>1, <1>2, <2>1 DEF Onward, At, Workers
<1>3. CASE wk.i = Len(Old)
  <2>1. wk' = [wk EXCEPT !.i = 1, !.pc = n]
    BY <1>1, <1>3 DEF NextClaim
  <2> QED
    BY <1>1, <1>3, <2>1 DEF Onward, At, Workers
<1> QED
  BY <1>1, <1>2, <1>3

\* A call of a loop leaves the worker idle or where the loop goes next.
LEMMA SwapMoves ==
    ASSUME TypeOK, SwapStep
    PROVE  \/ wk' = IdleWk
           \/ Fix /\ wk.pc = "fix" /\ At("delete", wk.i)
           \/ Delete /\ wk.pc = "delete" /\ At("avail", wk.i)
           \/ Avail /\ wk.pc = "avail" /\ Onward("fix", "create")
           \/ Create /\ wk.pc = "create" /\ Onward("create", "bindWait")
           \/ UndoDelete /\ wk.pc = "undoDelete" /\ Onward("undoDelete", "undoCreate")
           \/ UndoCreate /\ wk.pc = "undoCreate" /\ Onward("undoCreate", "undoWait")
<1>1. wk.pc \in Loops
  BY SwapSteps
<1>2. {"delete", "avail", "fix", "create", "bindWait", "undoDelete", "undoCreate", "undoWait"}
        \subseteq Calls \cup Waits
  BY DEF Calls, Waits
<1>3. CASE Fix
  <2>1. wk.pc = "fix" /\ (wk' = IdleWk \/ wk' = Goto("delete"))
    BY <1>3 DEF Fix, UpdatePV, Reply, Refused, Error
  <2> QED
    BY <1>2, <1>3, <2>1, GotoMoves
<1>4. CASE Delete
  <2>1. wk.pc = "delete" /\ (wk' = IdleWk \/ wk' = Goto("avail"))
    BY <1>4 DEF Delete, DeletePVC, Reply, Refused, Error
  <2> QED
    BY <1>2, <1>4, <2>1, GotoMoves
<1>5. CASE Avail
  <2>1. wk.pc = "avail" /\ (wk' = IdleWk \/ wk' = NextClaim("fix", "create"))
    BY <1>5 DEF Avail, UpdatePV, Reply, Refused, Error
  <2> QED
    BY <1>1, <1>2, <1>5, <2>1, NextClaimMoves
<1>6. CASE Create
  <2>1. wk.pc = "create" /\ (wk' = IdleWk \/ wk' = NextClaim("create", "bindWait"))
    BY <1>6 DEF Create, CreatePVC, Reply, Refused, Error
  <2> QED
    BY <1>1, <1>2, <1>6, <2>1, NextClaimMoves
<1>7. CASE UndoDelete
  <2>1. wk.pc = "undoDelete" /\ (wk' = IdleWk \/ wk' = NextClaim("undoDelete", "undoCreate"))
    BY <1>7 DEF UndoDelete, DeletePVC, Reply, Refused, Error
  <2> QED
    BY <1>1, <1>2, <1>7, <2>1, NextClaimMoves
<1>8. CASE UndoCreate
  <2>1. wk.pc = "undoCreate" /\ (wk' = IdleWk \/ wk' = NextClaim("undoCreate", "undoWait"))
    BY <1>8 DEF UndoCreate, CreatePVC, Reply, Refused, Error
  <2> QED
    BY <1>1, <1>2, <1>8, <2>1, NextClaimMoves
<1> QED
  BY <1>3, <1>4, <1>5, <1>6, <1>7, <1>8 DEF SwapStep

\* revertSnapshots starts with the first recorded claim, if there is one, and so
\* does undoRevertSnapshots.
LEMMA StartMoves ==
    ASSUME TypeOK, StartRevert \/ StartUndo
    PROVE  /\ wk'.copy = crev /\ wk'.fresh = crevNew /\ wk'.i = 1 /\ StateOf(crev) = "paused"
           /\ \/ /\ StartRevert /\ crev.action = "latest"
                 /\ wk'.pc = IF Latest(crev).old = <<>> THEN "bindWait" ELSE "fix"
              \/ /\ StartUndo /\ crev.action = "undo"
                 /\ wk'.pc = IF Latest(crev).old = <<>> THEN "undoWait" ELSE "undoDelete"
<1>1. wk'.copy = crev /\ wk'.fresh = crevNew /\ StateOf(crev) = "paused"
  BY StartSwapOK
<1>2. CASE StartRevert
  <2> DEFINE p == IF Latest(crev).old = <<>> THEN "bindWait" ELSE "fix"
  <2>1. crev.action = "latest" /\ wk' = [Attempt(p, crev) EXCEPT !.sel = snaps]
    BY <1>2 DEF StartRevert, Start, Latestly
  <2>2. wk'.pc = p /\ wk'.i = 1
    <3> HIDE DEF p
    <3> QED
      BY <2>1 DEF Attempt, IdleWk
  <2> QED
    BY <1>1, <1>2, <2>1, <2>2
<1>3. CASE StartUndo
  <2> DEFINE p == IF Latest(crev).old = <<>> THEN "undoWait" ELSE "undoDelete"
  <2>1. crev.action = "undo" /\ wk' = Attempt(p, crev)
    BY <1>3 DEF StartUndo, Start, Undoing
  <2>2. wk'.pc = p /\ wk'.i = 1
    <3> HIDE DEF p
    <3> QED
      BY <2>1 DEF Attempt, IdleWk
  <2> QED
    BY <1>1, <1>3, <2>1, <2>2
<1> QED
  BY <1>2, <1>3

----------------------------------------------------------------------------
(* A prompt cache of the SnapshotRevert *)

\* The cache of the SnapshotRevert sees every write at once.
Seen == crevNew /\ crev = rev

\* The worker's copy has the history of the resource until it is put, and a worker
\* that swaps claims works from a revert that is "paused".
InStep ==
    /\ wk.pc \notin {"idle", "put"} => wk.copy.reverts = rev.reverts
    /\ wk.pc \in Swapping => StateOf(wk.copy) = "paused"

StepInv == TypeOK /\ Seen /\ InStep

LEMMA SeenStep ==
    ASSUME "revert" \in Prompt, TypeOK, Seen, [Next]_vars
    PROVE  Seen'
<1>1. CASE UNCHANGED revVars
  BY <1>1 DEF revVars, Seen
<1>2. CASE Put
  <2>1. CASE Accepted
    <3> DEFINE told == wk.copy # rev /\ "revert" \in Prompt
    <3>1. /\ rev' = wk.copy
          /\ crev' = IF told THEN wk.copy ELSE crev
          /\ crevNew' = (crevNew /\ (told \/ wk.copy = rev))
      BY <1>2, <2>1 DEF Put
    <3>2. CASE wk.copy = rev
      BY <3>1, <3>2 DEF Seen
    <3>3. CASE wk.copy # rev
      BY <3>1, <3>3 DEF Seen
    <3> QED
      BY <3>2, <3>3
  <2>2. CASE ~Accepted
    BY <1>1, <1>2, <2>2 DEF Put
  <2> QED
    BY <2>1, <2>2
<1>3. ASSUME NEW a \in {"latest", "undo"}, Request(a) PROVE Seen'
  BY <1>3 DEF Request, Seen
<1>4. CASE Crash
  BY <1>4 DEF Crash, Seen
<1>5. CASE SyncRevert
  BY <1>5 DEF SyncRevert, Seen
<1>6. CASE \/ Starts \/ SwapStep
  BY <1>1, <1>6, StartsOK, SwapSteps
<1>7. CASE \/ Pause \/ Paused \/ Unpause \/ Unpaused \/ Reverted \/ Undone
           \/ CallLost \/ Timeout \/ Resync \/ Environment \/ UNCHANGED vars
  <2>1. UNCHANGED revVars
    BY <1>7 DEF Pause, Paused, Unpause, Unpaused, Reverted, Undone, Bound,
                CallLost, Timeout, Resync, Environment, Rest, vars, revVars
  <2> QED
    BY <1>1, <2>1
<1> QED
  BY <1>2, <1>3, <1>4, <1>5, <1>6, <1>7 DEF Next, Steps, SwapStep

LEMMA SwappingAttempts == "idle" \notin Swapping /\ "put" \notin Swapping /\ Loops \subseteq Swapping
  BY DEF Swapping, Loops

LEMMA InStepStep ==
    ASSUME TypeOK, Seen, InStep, [Next]_vars
    PROVE  InStep'
<1>1. ASSUME wk'.pc \in {"idle", "put"} PROVE InStep'
  BY <1>1, SwappingAttempts DEF InStep
<1>2. ASSUME rev'.reverts = rev.reverts, wk'.copy = wk.copy, wk.pc \notin {"idle", "put"},
             wk'.pc \in Swapping => wk.pc \in Swapping
      PROVE  InStep'
  BY <1>2 DEF InStep, StateOf, Latest
<1>3. CASE Starts
  <2>1. rev' = rev /\ crev = rev
    BY <1>3, StartsOK DEF revVars, Seen
  <2>2. CASE StartNothing \/ StartInit
    BY <1>1, <2>2, StartNothingOK, StartInitOK
  <2>3. CASE StartPause \/ StartUnpause
    <3>1. wk'.copy = crev /\ wk'.pc \notin Swapping
      BY <2>3, StartPauseOK, StartUnpauseOK DEF Swapping, Loops
    <3> QED
      BY <2>1, <3>1 DEF InStep
  <2>4. CASE StartRevert \/ StartUndo
    <3>1. wk'.copy = crev /\ StateOf(crev) = "paused"
      BY <2>4, StartMoves
    <3> QED
      BY <2>1, <3>1 DEF InStep
  <2>5. CASE StartRejected
    BY <1>1, <2>5 DEF StartRejected, vars, wkVars
  <2> QED
    BY <1>3, <2>2, <2>3, <2>4, <2>5 DEF Starts
<1>4. CASE SwapStep
  <2>1. rev' = rev /\ wk.pc \in Loops /\ (wk' = IdleWk \/ wk'.copy = wk.copy)
    BY <1>4, SwapSteps DEF revVars, GoesOn
  <2>2. wk' = IdleWk => wk'.pc = "idle"
    BY IdleOK
  <2> QED
    BY <1>1, <1>2, <2>1, <2>2, SwappingAttempts
<1>5. CASE Pause \/ Unpause
  <2>1. rev' = rev
    BY <1>5 DEF Pause, Unpause, revVars
  <2>2. \/ wk' = IdleWk /\ wk'.pc = "idle"
        \/ /\ wk'.copy = wk.copy /\ wk.pc \in {"pause", "unpause"}
           /\ wk'.pc \in {"pauseWait", "readyWait"}
    BY <1>5, PauseOK, UnpauseOK, IdleOK
  <2>3. {"pauseWait", "readyWait"} \cap Swapping = {}
    BY DEF Swapping, Loops
  <2> QED
    BY <1>1, <1>2, <2>1, <2>2, <2>3
<1>6. CASE Paused \/ Reverted \/ Undone \/ Unpaused
  BY <1>1, <1>6, WaitsOK, UnpausedOK
<1>7. CASE Put \/ CallLost \/ Timeout \/ Crash
  <2>1. wk' = IdleWk
    BY <1>7, PutOK DEF CallLost, Timeout, Crash, Error
  <2> QED
    BY <1>1, <2>1, IdleOK
<1>8. CASE SyncRevert \/ Resync \/ Environment \/ UNCHANGED vars
  <2>1. wk' = wk /\ rev' = rev
    BY <1>8 DEF SyncRevert, Resync, Environment, Rest, vars, revVars, wkVars
  <2> QED
    BY <2>1 DEF InStep
<1>9. ASSUME NEW a \in {"latest", "undo"}, Request(a) PROVE InStep'
  <2>1. rev \in Reverts /\ wk \in Workers
    BY DEF TypeOK, WorkerOK
  <2>2. rev'.reverts = rev.reverts /\ wk'.copy = wk.copy /\ wk'.pc = wk.pc
    BY <1>9, <2>1 DEF Request, Reverts, Workers
  <2> QED
    BY <1>1, <1>2, <2>2
<1> QED
  BY <1>3, <1>4, <1>5, <1>6, <1>7, <1>8, <1>9 DEF Next, Steps, SwapStep

LEMMA StepInit == Init => StepInv
<1> SUFFICES ASSUME Init PROVE Seen /\ InStep
  BY TypeInit DEF StepInv
<1>1. wk.pc = "idle" /\ crevNew /\ crev = rev
  BY DEF Init, IdleWk
<1> QED
  BY <1>1, SwappingAttempts DEF Seen, InStep

LEMMA StepStep == ASSUME "revert" \in Prompt, StepInv, [Next]_vars PROVE StepInv'
  BY TypeStep, SeenStep, InStepStep DEF StepInv

\* Only the worker deletes claims, at the steps that swap them.
LEMMA OnlySwapsDelete ==
    ASSUME TypeOK, [Next]_vars, NEW c \in Claims, Deleted(c)
    PROVE  SwapStep
<1>1. pvc' # pvc
  BY DEF Deleted
<1>2. ~Environment
  BY ControllersDeleteNone DEF Environment, TypeOK
<1>3. ~Starts /\ ~Put
  BY <1>1, StartsOK, PutOK DEF clusterVars, pvcVars
<1>4. ~(Pause \/ Paused \/ Unpause \/ Unpaused \/ Reverted \/ Undone)
  BY <1>1 DEF Pause, Paused, Unpause, Unpaused, Reverted, Undone, Bound, clusterVars, pvcVars
<1>5. ~(CallLost \/ Timeout \/ Crash \/ SyncRevert \/ Resync \/ UNCHANGED vars)
  BY <1>1 DEF CallLost, Timeout, Crash, SyncRevert, Resync, vars, clusterVars, pvcVars
<1>6. ~(\E a \in {"latest", "undo"} : Request(a))
  BY <1>1 DEF Request, clusterVars, pvcVars
<1> QED
  BY <1>2, <1>3, <1>4, <1>5, <1>6 DEF Next, Steps, SwapStep

----------------------------------------------------------------------------
(* A claim that has been swapped is swapped again only by a stale attempt *)

Midway == {"paused"} \cup Settled

\* A cached "paused" is at most one phase old, and so is the copy of a worker that
\* swaps claims; a fresh copy is in the state of the resource until it is put.
Redo ==
    /\ StateOf(crev) = "paused" => StateOf(rev) \in Midway
    /\ wk.pc \in Swapping => StateOf(wk.copy) = "paused" /\ StateOf(rev) \in Midway
    /\ wk.pc \in {"unpause", "readyWait"} => StateOf(wk.copy) \in Settled
    /\ wk.fresh /\ wk.pc \notin {"idle", "put"} => StateOf(wk.copy) = StateOf(rev)
    /\ wk.fresh /\ wk.pc = "put" /\ StateOf(rev) = "paused" => StateOf(wk.copy) \in Midway

RedoInv == TypeOK /\ HistoryFinished /\ OneBehind /\ Redo

LEMMA RedoSets ==
    /\ "paused" \in Midway /\ Settled \subseteq Midway /\ "paused" \notin Settled
    /\ Swapping \cap {"pause", "pauseWait", "unpause", "readyWait"} = {}
    /\ "idle" \notin Swapping /\ "put" \notin Swapping /\ Loops \subseteq Swapping
  BY DEF Midway, Settled, Swapping, Loops

\* An idle worker, or one that goes on with its copy to a step of the same kind.
LEMMA RedoQuiet ==
    ASSUME Redo, StateOf(rev') = StateOf(rev),
           StateOf(crev') = "paused" => StateOf(rev) \in Midway,
           \/ wk'.pc = "idle"
           \/ /\ wk'.copy = wk.copy /\ (wk'.fresh => wk.fresh)
              /\ wk'.pc = "put" <=> wk.pc = "put"
              /\ wk.pc # "idle"
              /\ wk'.pc \in Swapping => wk.pc \in Swapping
              /\ wk'.pc \in {"unpause", "readyWait"} => wk.pc \in {"unpause", "readyWait"}
    PROVE  Redo'
<1>1. CASE wk'.pc = "idle"
  BY <1>1, RedoSets DEF Redo
<1>2. CASE wk'.pc # "idle"
  <2>1. StateOf(wk'.copy) = StateOf(wk.copy)
    BY <1>2
  <2> QED
    BY <1>2, <2>1 DEF Redo
<1> QED
  BY <1>1, <1>2

LEMMA RedoStarts == ASSUME RedoInv, Starts PROVE Redo'
<1>1. /\ TypeOK /\ Redo /\ (crevNew => crev = rev)
      /\ rev' = rev /\ crev' = crev
      /\ StateOf(rev') = StateOf(rev) /\ StateOf(crev') = StateOf(crev)
  BY StartsOK DEF RedoInv, OneBehind, revVars
<1>2. /\ StateOf(crev) = "paused" => StateOf(rev) \in Midway
      /\ crevNew => StateOf(crev) = StateOf(rev)
  BY <1>1 DEF Redo
<1>3. CASE StartNothing
  <2>1. wk'.pc = "put" /\ StateOf(wk'.copy) = StateOf(crev) /\ (wk'.fresh => crevNew)
    BY <1>1, <1>3, StartNothingOK
  <2> QED
    BY <1>1, <1>2, <2>1, RedoSets DEF Redo
<1>4. CASE StartInit
  <2>1. wk'.pc = "put" /\ StateOf(crev) \in {"none", "finished"} /\ (wk'.fresh => crevNew)
    BY <1>1, <1>4, StartInitOK DEF StartInit, NeedsEntry
  <2> QED
    BY <1>1, <1>2, <2>1, RedoSets DEF Redo
<1>5. CASE StartPause
  <2>1. /\ wk'.pc \in {"pause", "pauseWait"} /\ StateOf(wk'.copy) = StateOf(crev)
        /\ wk'.fresh => crevNew
    BY <1>1, <1>5, StartPauseOK
  <2> QED
    BY <1>1, <1>2, <2>1, RedoSets DEF Redo
<1>6. CASE StartRevert \/ StartUndo
  <2>1. /\ wk'.pc \in Swapping /\ StateOf(wk'.copy) = "paused" /\ StateOf(crev) = "paused"
        /\ wk'.fresh => crevNew
    BY <1>1, <1>6, StartSwapOK
  <2> QED
    BY <1>1, <1>2, <2>1, RedoSets DEF Redo
<1>7. CASE StartUnpause
  <2>1. /\ wk'.pc = "unpause" /\ StateOf(wk'.copy) = StateOf(crev) /\ StateOf(crev) \in Settled
        /\ wk'.fresh => crevNew
    BY <1>1, <1>7, StartUnpauseOK
  <2> QED
    BY <1>1, <1>2, <2>1, RedoSets DEF Redo
<1>8. CASE StartRejected
  BY <1>1, <1>2, <1>8 DEF StartRejected, vars, wkVars, Redo
<1> QED
  BY <1>3, <1>4, <1>5, <1>6, <1>7, <1>8 DEF Starts

LEMMA RedoStep == ASSUME RedoInv, [Next]_vars PROVE Redo'
<1>0. TypeOK /\ Redo /\ OneBehind /\ (StateOf(crev) = "paused" => StateOf(rev) \in Midway)
  BY DEF RedoInv, Redo
<1>1. CASE SwapStep
  <2>1. /\ rev' = rev /\ crev' = crev /\ wk.pc \in Loops
        /\ wk'.pc = "idle" \/ (/\ wk'.copy = wk.copy /\ wk'.fresh = wk.fresh
                               /\ wk'.pc \in Swapping)
    BY <1>0, <1>1, SwapSteps, IdleOK DEF GoesOn, revVars
  <2> QED
    BY <1>0, <2>1, RedoQuiet, RedoSets
<1>2. CASE Pause \/ Unpause
  <2>1. rev' = rev /\ crev' = crev
    BY <1>2 DEF Pause, Unpause, revVars
  <2>2. \/ wk'.pc = "idle"
        \/ /\ wk'.copy = wk.copy /\ wk'.fresh = wk.fresh
           /\ \/ wk.pc = "pause" /\ wk'.pc = "pauseWait"
              \/ wk.pc = "unpause" /\ wk'.pc = "readyWait"
    BY <1>0, <1>2, PauseOK, UnpauseOK, IdleOK
  <2> QED
    BY <1>0, <2>1, <2>2, RedoQuiet, RedoSets
<1>3. CASE Paused \/ Reverted \/ Undone
  <2>1. /\ rev' = rev /\ crev' = crev
        /\ StateOf(rev') = StateOf(rev) /\ StateOf(crev') = StateOf(crev)
    BY <1>0, <1>3, WaitsOK DEF revVars
  <2>2. wk'.pc = "put" /\ StateOf(wk'.copy) \in Midway
    BY <1>0, <1>3, WaitsOK, RedoSets
  <2> QED
    BY <1>0, <2>1, <2>2, RedoSets DEF Redo
<1>4. CASE Unpaused
  <2>1. /\ rev' = rev /\ crev' = crev
        /\ StateOf(rev') = StateOf(rev) /\ StateOf(crev') = StateOf(crev)
    BY <1>4 DEF Unpaused, revVars
  <2>2. wk.pc = "readyWait" /\ wk'.pc = "put" /\ wk'.fresh = wk.fresh
    BY <1>0, <1>4, UnpausedOK
  <2>3. wk.fresh => StateOf(rev) # "paused"
    BY <1>0, <2>2, RedoSets DEF Redo
  <2> QED
    BY <1>0, <2>1, <2>2, <2>3, RedoSets DEF Redo
<1>5. CASE Put
  <2>1. wk.pc = "put" /\ wk'.pc = "idle"
    BY <1>0, <1>5, PutOK, IdleOK
  <2>2. CASE UNCHANGED revVars
    BY <1>0, <2>1, <2>2, RedoQuiet DEF revVars
  <2>3. CASE wk.fresh /\ rev' = wk.copy /\ crev' = wk.copy
    <3>1. StateOf(crev') = StateOf(rev')
      BY <2>3
    <3> QED
      BY <2>1, <3>1, RedoSets DEF Redo
  <2>4. CASE wk.fresh /\ rev' = wk.copy /\ crev' = crev
    <3>1. crev = rev /\ StateOf(crev') = StateOf(rev) /\ StateOf(rev') = StateOf(wk.copy)
      BY <1>0, <2>4 DEF OneBehind
    <3> QED
      BY <1>0, <2>1, <2>4, <3>1, RedoSets DEF Redo
  <2> QED
    BY <1>0, <1>5, <2>2, <2>3, <2>4, PutOK
<1>6. CASE CallLost \/ Timeout
  <2>1. wk'.pc = "idle" /\ rev' = rev /\ crev' = crev
    BY <1>6, IdleOK DEF CallLost, Timeout, Error, revVars
  <2> QED
    BY <1>0, <2>1, RedoQuiet
<1>7. CASE Crash
  <2>1. wk'.pc = "idle" /\ rev' = rev /\ crev' = rev
    BY <1>7, IdleOK DEF Crash, Error
  <2>2. StateOf(rev') = StateOf(rev) /\ StateOf(crev') = StateOf(rev)
    BY <2>1
  <2> QED
    BY <1>0, <2>1, <2>2, RedoQuiet, RedoSets
<1>8. CASE SyncRevert
  <2>1. wk' = wk /\ rev' = rev /\ crev' = rev
    BY <1>8 DEF SyncRevert
  <2>2. StateOf(rev') = StateOf(rev) /\ StateOf(crev') = StateOf(rev)
    BY <2>1
  <2> QED
    BY <1>0, <2>1, <2>2, RedoSets, RedoQuiet
<1>9. CASE Resync \/ Environment \/ UNCHANGED vars
  <2>1. wk' = wk /\ rev' = rev /\ crev' = crev
    BY <1>9 DEF Resync, Environment, Rest, vars, revVars, wkVars
  <2> QED
    BY <1>0, <2>1, RedoQuiet
<1>10. ASSUME NEW a \in {"latest", "undo"}, Request(a) PROVE Redo'
  <2>1. rev \in Reverts /\ wk \in Workers
    BY <1>0 DEF TypeOK, WorkerOK
  <2>2. StateOf(rev') = StateOf(rev)
    BY <1>10, <2>1 DEF Request, StateOf, Latest, Reverts
  <2>3. wk'.fresh = FALSE /\ wk'.pc = wk.pc /\ wk'.copy = wk.copy
    BY <1>10, <2>1 DEF Request, Workers
  <2>4. StateOf(crev') = StateOf(rev) \/ StateOf(crev') = StateOf(crev)
    BY <1>10, <2>2 DEF Request
  <2> QED
    BY <1>0, <2>2, <2>3, <2>4, RedoSets, RedoQuiet
<1> QED
  BY <1>1, <1>2, <1>3, <1>4, <1>5, <1>6, <1>7, <1>8, <1>9, <1>10, RedoStarts
     DEF Next, Steps, SwapStep

LEMMA RestoredStep ==
    ASSUME RedoInv, [Next]_vars, NEW c \in Claims, Deleted(c)
    PROVE  StateOf(rev) = "paused" \/ DoneAgain
<1>1. TypeOK /\ Redo /\ SwapStep
  BY OnlySwapsDelete DEF RedoInv
<1>2. wk.pc \in Loops
  BY <1>1, SwapSteps
<1>3. /\ StateOf(wk.copy) = "paused" /\ StateOf(rev) \in Midway
      /\ wk.fresh => StateOf(wk.copy) = StateOf(rev)
  BY <1>1, <1>2, RedoSets DEF Redo
<1> QED
  BY <1>3 DEF DoneAgain, Midway

\* A claim is deleted only when the revert in progress is "paused", or by an
\* attempt that read "paused" before the last put, whose own put is refused; once
\* the action is over no claim is deleted before the next request.  This holds
\* however long the cache of the SnapshotRevert lags (UpdateRevert's version check
\* lets it lag by one put), whatever is lost or crashes and whatever the user asks.
THEOREM RestoredCorrect == Spec => RestoredKept
<1>1. Init => RedoInv
  <2> SUFFICES ASSUME Init PROVE RedoInv
    OBVIOUS
  <2>1. wk.pc = "idle" /\ crev = rev /\ wk = IdleWk
    BY DEF Init, IdleWk
  <2>2. StateOf(crev) = "none"
    BY DEF Init, StateOf
  <2> QED
    BY <2>1, <2>2, TypeInit, HistoryInit, BehindInit, RedoSets DEF RedoInv, Redo
<1>2. RedoInv /\ [Next]_vars => RedoInv'
  BY RedoStep, TypeStep, HistoryStep, BehindStep DEF RedoInv
<1>3. RedoInv /\ [Next]_vars
        => [\A c \in Claims : Deleted(c) => StateOf(rev) = "paused" \/ DoneAgain]_vars
  BY RestoredStep
<1> QED
  BY <1>1, <1>2, <1>3, PTL DEF Spec, RestoredKept

----------------------------------------------------------------------------
(* One request at a time *)

Reverting == {"fix", "delete", "avail", "create", "bindWait"}
UndoSteps == {"undoDelete", "undoCreate", "undoWait"}

\* From the start of an attempt to its put, nothing changes the resource, and the
\* worker is at steps of the resource's own action; an action becomes "idle" only
\* with its entry finished, and an undo drops only an entry that is "undone".
OwnAction ==
    /\ wk.pc \notin {"idle", "put"} => wk.copy = rev /\ wk.fresh /\ rev.action # "idle"
    /\ rev.action = "idle" => StateOf(rev) \in {"none", "finished"}
    /\ wk.pc = "put" /\ wk.copy.action = "idle" => StateOf(wk.copy) \in {"none", "finished"}
    /\ wk.pc \in Reverting => wk.copy.action = "latest"
    /\ wk.pc \in UndoSteps => wk.copy.action = "undo"
    /\ wk.pc \in {"unpause", "readyWait"} /\ wk.copy.action = "undo" => StateOf(wk.copy) = "undone"
    /\ wk.pc = "put" /\ wk.fresh /\ rev.action = "undo" /\ Len(wk.copy.reverts) < Len(rev.reverts)
         => StateOf(rev) = "undone"

OwnInv == EndsInv /\ Seen /\ InStep /\ OwnAction

\* A wait that ends in state s puts the copy with its last entry in that state.
LEMMA WaitPuts ==
    ASSUME TypeOK, AllFit, wk.pc \notin {"idle", "put"}, NEW s \in States,
           Finish(WithState(wk.copy, s))
    PROVE  /\ wk'.pc = "put" /\ wk'.fresh = wk.fresh /\ wk'.copy = WithState(wk.copy, s)
           /\ wk'.copy.action = wk.copy.action /\ StateOf(wk'.copy) = s
           /\ Len(wk'.copy.reverts) = Len(wk.copy.reverts)
<1> DEFINE q == WithState(wk.copy, s)
<1>1. wk \in Workers /\ wk.copy \in Reverts /\ wk.copy.reverts # <<>>
  BY CopyType DEF TypeOK, WorkerOK
<1>2. /\ q \in Reverts /\ Len(q.reverts) = Len(wk.copy.reverts)
      /\ q.action = wk.copy.action /\ StateOf(q) = s
  BY <1>1, StateChange
<1>3. Fits(q.reverts)
  BY <1>2 DEF AllFit, Fits
<1>4. Finish(q)
  OBVIOUS
<1> HIDE DEF q
<1>5. wk'.pc = "put" /\ wk'.fresh = wk.fresh /\ wk'.copy = q
  BY <1>1, <1>2, <1>3, <1>4, FinishPuts
<1> QED
  BY <1>2, <1>5 DEF q

\* Which wait ends in which state.
LEMMA WaitsPut ==
    ASSUME TypeOK, AllFit, Paused \/ Reverted \/ Undone
    PROVE  /\ wk'.pc = "put" /\ wk'.fresh = wk.fresh
           /\ wk'.copy.action = wk.copy.action
           /\ Len(wk'.copy.reverts) = Len(wk.copy.reverts)
           /\ \/ /\ wk.pc = "pauseWait" /\ wk'.copy = WithState(wk.copy, "paused")
                 /\ StateOf(wk'.copy) = "paused"
              \/ /\ wk.pc = "bindWait" /\ wk'.copy = WithState(wk.copy, "reverted")
                 /\ StateOf(wk'.copy) = "reverted" /\ PvcsBound
              \/ /\ wk.pc = "undoWait" /\ wk'.copy = WithState(wk.copy, "undone")
                 /\ StateOf(wk'.copy) = "undone" /\ PvcsBound
<1>1. {"paused", "reverted", "undone"} \subseteq States
  BY DEF States
<1>2. CASE Paused
  <2>1. wk.pc = "pauseWait" /\ Finish(WithState(wk.copy, "paused"))
    BY <1>2 DEF Paused
  <2> QED
    BY <1>1, <2>1, WaitPuts
<1>3. CASE Reverted
  <2>1. wk.pc = "bindWait" /\ PvcsBound /\ Finish(WithState(wk.copy, "reverted"))
    BY <1>3 DEF Reverted, Bound
  <2> QED
    BY <1>1, <2>1, WaitPuts
<1>4. CASE Undone
  <2>1. wk.pc = "undoWait" /\ PvcsBound /\ Finish(WithState(wk.copy, "undone"))
    BY <1>4 DEF Undone, Bound
  <2> QED
    BY <1>1, <2>1, WaitPuts
<1> QED
  BY <1>2, <1>3, <1>4

\* The end of unpause puts the resource with action "idle".
LEMMA UnpausedIdle ==
    ASSUME TypeOK, Unpaused
    PROVE  wk'.copy.action = "idle"
<1> DEFINE q == WithState(wk.copy, "finished")
           done == [q EXCEPT !.action = "idle"]
           dropped == [done EXCEPT !.reverts = Front(@)]
           res == IF wk.copy.action = "undo" THEN dropped ELSE done
           kept == IF wk.copy.action = "latest" THEN [res EXCEPT !.reverts = Trim(@)] ELSE res
<1>1. wk.pc = "readyWait" /\ Finish(res)
  BY DEF Unpaused
<1>2. q \in Reverts
  BY <1>1, CopyType, StateChange DEF States
<1> HIDE DEF q
<1>3. done.action = "idle" /\ dropped.action = "idle"
  BY <1>2 DEF Reverts
<1>4. DOMAIN done = {"action", "reverts"} /\ DOMAIN dropped = {"action", "reverts"}
  BY <1>2 DEF Reverts
<1> HIDE DEF done, dropped
<1>5. kept.action = "idle"
  BY <1>3, <1>4
<1> HIDE DEF kept
<1>6. wk' = ToPut(kept, wk.fresh)
  BY <1>1 DEF Finish, kept, res
<1> QED
  BY <1>5, <1>6 DEF ToPut, IdleWk

\* The steps of the two actions, and those of neither.
LEMMA StepSets ==
    /\ Reverting \cap UndoSteps = {} /\ Swapping = Reverting \cup UndoSteps
    /\ {"idle", "put", "pause", "pauseWait", "unpause", "readyWait"} \cap Swapping = {}
  BY DEF Reverting, UndoSteps, Swapping, Loops

\* A call of a loop stays within the steps of its action.
LEMMA SwapStays ==
    ASSUME TypeOK, SwapStep
    PROVE  /\ rev' = rev
           /\ \/ wk' = IdleWk
              \/ /\ wk'.copy = wk.copy /\ wk'.fresh = wk.fresh
                 /\ \/ wk.pc \in Reverting /\ wk'.pc \in Reverting
                    \/ wk.pc \in UndoSteps /\ wk'.pc \in UndoSteps
<1>1. rev' = rev
  BY SwapSteps DEF revVars
<1> QED
  BY <1>1, SwapMoves DEF Onward, At, Reverting, UndoSteps

LEMMA OwnStep ==
    ASSUME "revert" \in Prompt, ~SwitchMidway, OwnInv, [Next]_vars
    PROVE  OwnAction'
<1>0. TypeOK /\ AllFit /\ HistoryFinished /\ Seen /\ InStep /\ OwnAction /\ rev \in Reverts
  BY DEF OwnInv, EndsInv, TypeOK
<1>1. ASSUME wk'.pc = "idle", rev'.action = "idle" => StateOf(rev') \in {"none", "finished"}
      PROVE  OwnAction'
  BY <1>1, StepSets DEF OwnAction
<1>2. ASSUME wk'.pc = "put", rev' = rev,
             wk'.copy.action = "idle" => StateOf(wk'.copy) \in {"none", "finished"},
             \/ wk'.copy.action # "undo" /\ rev.action # "undo"
             \/ Len(wk'.copy.reverts) >= Len(rev.reverts)
             \/ StateOf(rev) = "undone"
      PROVE  OwnAction'
  <2>1. Len(wk'.copy.reverts) >= Len(rev.reverts) => ~(Len(wk'.copy.reverts) < Len(rev.reverts))
    <3>1. Len(rev.reverts) \in Nat
      BY <1>0 DEF Reverts
    <3>2. WorkerOK'
      BY <1>0, TypeStep DEF TypeOK
    <3>3. Len(wk'.copy.reverts) \in Nat
      BY <3>2 DEF WorkerOK, Workers, Reverts
    <3> QED
      BY <3>1, <3>3
  <2> QED
    BY <1>0, <1>2, <2>1, StepSets DEF OwnAction
<1>3. ASSUME wk'.pc \notin {"idle", "put"}, rev' = rev, wk'.copy = rev, wk'.fresh, rev.action # "idle",
             wk'.pc \in Reverting => rev.action = "latest",
             wk'.pc \in UndoSteps => rev.action = "undo",
             wk'.pc \in {"unpause", "readyWait"} /\ rev.action = "undo" => StateOf(rev) = "undone"
      PROVE  OwnAction'
  BY <1>0, <1>3 DEF OwnAction
<1>4. wk' = IdleWk => wk'.pc = "idle"
  BY IdleOK
<1>5. CASE Starts
  <2>1. rev' = rev /\ crev = rev /\ crevNew
    BY <1>0, <1>5, StartsOK DEF revVars, Seen
  <2>2. CASE StartNothing
    <3>1. wk'.pc = "put" /\ wk'.copy = rev /\ Len(rev.reverts) >= Len(rev.reverts)
      BY <1>0, <2>1, <2>2, StartNothingOK DEF Reverts
    <3> QED
      BY <1>0, <1>2, <2>1, <3>1 DEF OwnAction
  <2>3. CASE StartInit
    <3>1. wk'.pc = "put" /\ wk'.copy.action = "latest" /\ rev.action = "latest"
      BY <1>0, <2>1, <2>3, StartInitOK DEF StartInit, Latestly
    <3> QED
      BY <1>2, <2>1, <3>1
  <2>4. CASE StartPause
    <3>1. wk'.pc \in {"pause", "pauseWait"} /\ wk'.copy = rev /\ wk'.fresh /\ rev.action # "idle"
      BY <1>0, <2>1, <2>4, StartPauseOK DEF StartPause, Latestly, Undoing
    <3> QED
      BY <1>3, <2>1, <3>1, StepSets
  <2>5. CASE StartRevert \/ StartUndo
    <3>1. /\ wk'.copy = rev /\ wk'.fresh
          /\ \/ rev.action = "latest" /\ wk'.pc \in Reverting
             \/ rev.action = "undo" /\ wk'.pc \in UndoSteps
      BY <1>0, <2>1, <2>5, StartMoves DEF Reverting, UndoSteps
    <3> QED
      BY <1>3, <2>1, <3>1, StepSets
  <2>6. CASE StartUnpause
    <3>1. /\ wk'.pc = "unpause" /\ wk'.copy = rev /\ wk'.fresh
          /\ \/ rev.action = "latest"
             \/ rev.action = "undo" /\ StateOf(rev) = "undone"
      BY <1>0, <2>1, <2>6, StartUnpauseOK DEF StartUnpause, Latestly, Undoing
    <3> QED
      BY <1>3, <2>1, <3>1, StepSets
  <2>7. CASE StartRejected
    BY <1>0, <1>1, <2>1, <2>7 DEF StartRejected, vars, wkVars, OwnAction
  <2> QED
    BY <1>5, <2>2, <2>3, <2>4, <2>5, <2>6, <2>7 DEF Starts
<1>6. CASE SwapStep
  <2>1. wk.pc \notin {"idle", "put"}
    BY <1>0, <1>6, SwapSteps DEF Loops
  <2>2. CASE wk' = IdleWk
    BY <1>0, <1>1, <1>4, <1>6, <2>2, SwapStays DEF OwnAction
  <2>3. CASE wk' # IdleWk
    BY <1>0, <1>3, <1>6, <2>1, <2>3, SwapStays, StepSets DEF OwnAction
  <2> QED
    BY <2>2, <2>3
<1>7. CASE Pause
  <2>1. rev' = rev /\ wk.pc = "pause"
    BY <1>7 DEF Pause, revVars
  <2>2. CASE wk' = IdleWk
    BY <1>0, <1>1, <1>4, <2>1, <2>2 DEF OwnAction
  <2>3. CASE wk'.pc = "pauseWait" /\ wk'.copy = wk.copy /\ wk'.fresh = wk.fresh
    BY <1>0, <1>3, <2>1, <2>3, StepSets DEF OwnAction
  <2> QED
    BY <1>0, <1>7, <2>2, <2>3, PauseOK
<1>8. CASE Unpause
  <2>1. /\ rev' = rev /\ wk.pc = "unpause" /\ wk'.pc = "readyWait"
        /\ wk'.copy = wk.copy /\ wk'.fresh = wk.fresh
    BY <1>0, <1>8, UnpauseOK DEF Unpause, revVars
  <2> QED
    BY <1>0, <1>3, <2>1, StepSets DEF OwnAction
<1>9. CASE Paused \/ Reverted \/ Undone
  <2>1. rev' = rev /\ wk.pc \notin {"idle", "put"}
    BY <1>9 DEF Paused, Reverted, Undone, Bound, revVars
  <2>2. wk.copy = rev /\ rev.action # "idle"
    BY <1>0, <2>1 DEF OwnAction
  <2>3. wk'.pc = "put" /\ wk'.copy.action = rev.action /\ Len(wk'.copy.reverts) >= Len(rev.reverts)
    BY <1>0, <1>9, <2>2, WaitsPut DEF Reverts
  <2> QED
    BY <1>2, <2>1, <2>2, <2>3
<1>10. CASE Unpaused
  <2>1. rev' = rev /\ wk.pc = "readyWait" /\ wk'.pc = "put"
    BY <1>0, <1>10, UnpausedOK DEF Unpaused, revVars
  <2>2. wk.copy = rev /\ rev.action # "idle"
    BY <1>0, <2>1 DEF OwnAction
  <2>3. StateOf(wk'.copy) \in {"none", "finished"}
    <3>1. \A k \in 1..(Len(wk.copy.reverts) - 1) : wk.copy.reverts[k].state = "finished"
      BY <1>0 DEF HistoryFinished, EarlierFinished
    <3> QED
      BY <1>0, <1>10, <3>1, UnpausedOK
  <2>4. wk'.copy.action = "idle"
    BY <1>0, <1>10, UnpausedIdle
  <2>5. rev.action = "undo" => StateOf(rev) = "undone"
    BY <1>0, <2>1, <2>2 DEF OwnAction
  <2> QED
    BY <1>2, <2>1, <2>3, <2>4, <2>5
<1>11. CASE Put
  <2>1. wk' = IdleWk /\ wk.pc = "put" /\ rev' \in {rev, wk.copy}
    BY <1>0, <1>11, PutOK DEF revVars
  <2> QED
    BY <1>0, <1>1, <1>4, <2>1 DEF OwnAction
<1>12. CASE CallLost \/ Timeout \/ Crash
  <2>1. wk' = IdleWk /\ rev' = rev
    BY <1>12 DEF CallLost, Timeout, Crash, Error, revVars
  <2> QED
    BY <1>0, <1>1, <1>4, <2>1 DEF OwnAction
<1>13. CASE SyncRevert \/ Resync \/ Environment \/ UNCHANGED vars
  <2>1. wk' = wk /\ rev' = rev
    BY <1>13 DEF SyncRevert, Resync, Environment, Rest, vars, revVars, wkVars
  <2> QED
    BY <1>0, <2>1 DEF OwnAction
<1>14. ASSUME NEW a \in {"latest", "undo"}, Request(a) PROVE OwnAction'
  <2>1. wk \in Workers /\ (wk.pc \notin {"idle", "put"} => wk.copy.reverts # <<>>)
    BY <1>0 DEF TypeOK, WorkerOK
  <2>2. wk.pc \in {"idle", "put"}
    BY <1>0, <1>14, <2>1 DEF Request, OwnAction, InStep
  <2>3. /\ rev'.action = a /\ rev'.action # "idle"
        /\ wk'.pc = wk.pc /\ wk'.copy = wk.copy /\ wk'.fresh = FALSE
    BY <1>0, <1>14, <2>1 DEF Request, Reverts, Workers
  <2> QED
    BY <1>0, <2>2, <2>3, StepSets DEF OwnAction
<1> QED
  BY <1>5, <1>6, <1>7, <1>8, <1>9, <1>10, <1>11, <1>12, <1>13, <1>14
     DEF Next, Steps, SwapStep

LEMMA OwnInit == Init => OwnInv
<1> SUFFICES ASSUME Init PROVE OwnAction
  BY EndsInit, StepInit DEF OwnInv, StepInv
<1>1. wk.pc = "idle" /\ StateOf(rev) = "none"
  BY DEF Init, IdleWk, StateOf
<1> QED
  BY <1>1, StepSets DEF OwnAction

LEMMA OwnInvStep ==
    ASSUME "revert" \in Prompt, ~SwitchMidway, OwnInv, [Next]_vars
    PROVE  OwnInv'
<1>1. EndsInv'
  BY EndsStep, TypeStep, HistoryStep, BehindStep DEF OwnInv, EndsInv
<1>2. Seen' /\ InStep'
  BY SeenStep, InStepStep DEF OwnInv, EndsInv
<1> QED
  BY <1>1, <1>2, OwnStep DEF OwnInv

----------------------------------------------------------------------------
(* The recorded claims, from init to the end of the swap *)

\* The entry may record claims that fixReclaimPolicy has not come to yet.
Replacing(r) == r.action = "latest" /\ StateOf(r) \in {"init", "paused"}

\* The recorded claims of an entry are in S, each with one volume.
EntryIn(d, S) ==
    /\ \A k \in DOMAIN d.old : d.old[k] \in S
    /\ \A k, l \in DOMAIN d.old : d.old[k].claim = d.old[l].claim => d.old[k].vol = d.old[l].vol

\* Every recorded claim is in S, but those of a revert in progress in T.
RecordsIn(r, S, T) ==
    \A j \in 1..Len(r.reverts) :
      EntryIn(r.reverts[j], IF j = Len(r.reverts) /\ Replacing(r) THEN T ELSE S)

\* revertSnapshots takes the recorded claims to S one by one, at fixReclaimPolicy.
Walk(S, T) ==
    /\ RecordsIn(rev, S, T)
    /\ wk.pc = "put" /\ wk.fresh => RecordsIn(wk.copy, S, T)
    /\ wk.pc = "fix" => \A k \in 1..(wk.i - 1) : Old[k] \in S
    /\ wk.pc \in {"delete", "avail"} => \A k \in 1..wk.i : Old[k] \in S
    /\ wk.pc \in {"create", "bindWait"} => \A k \in DOMAIN Old : Old[k] \in S

LEMMA EntryGrows ==
    ASSUME NEW d, NEW S, NEW S2, S \subseteq S2, EntryIn(d, S)
    PROVE  EntryIn(d, S2)
  BY DEF EntryIn

\* The entries of a resource with the same recorded claims.
LEMMA RecordsGrow ==
    ASSUME NEW r, NEW S, NEW T, NEW S2, NEW T2, S \subseteq S2, RecordsIn(r, S, T),
           Replacing(r) => EntryIn(Latest(r), T2)
    PROVE  RecordsIn(r, S2, T2)
<1> SUFFICES ASSUME NEW j \in 1..Len(r.reverts)
             PROVE  EntryIn(r.reverts[j], IF j = Len(r.reverts) /\ Replacing(r) THEN T2 ELSE S2)
  BY DEF RecordsIn
<1>1. CASE j = Len(r.reverts) /\ Replacing(r)
  BY <1>1 DEF Latest, Last
<1>2. CASE ~(j = Len(r.reverts) /\ Replacing(r))
  <2>1. EntryIn(r.reverts[j], S)
    BY <1>2 DEF RecordsIn
  <2> QED
    BY <1>2, <2>1, EntryGrows
<1> QED
  BY <1>1, <1>2

\* setState keeps the recorded claims of every entry.
LEMMA StateOld ==
    ASSUME NEW r \in Reverts, r.reverts # <<>>, NEW s \in States
    PROVE  LET q == WithState(r, s)
           IN  /\ q \in Reverts /\ Len(q.reverts) = Len(r.reverts) /\ q.action = r.action
               /\ \A j \in 1..Len(r.reverts) : q.reverts[j].old = r.reverts[j].old
<1> DEFINE n == Len(r.reverts)
           d == [r.reverts[n] EXCEPT !.state = s]
           f == [r.reverts EXCEPT ![n] = d]
           q == WithState(r, s)
<1>1. r.reverts \in Seq(Details) /\ n \in Nat \ {0}
  BY DEF Reverts
<1>2. d.old = r.reverts[n].old
  <2>1. r.reverts[n] \in Details
    BY <1>1
  <2> HIDE DEF n
  <2> QED
    BY <2>1 DEF Details
<1>3. q.reverts = f
  BY DEF WithState, Reverts
<1>4. \A j \in 1..n : f[j] = IF j = n THEN d ELSE r.reverts[j]
  <2> HIDE DEF d
  <2> QED
    BY <1>1
<1>5. q \in Reverts /\ Len(q.reverts) = n /\ q.action = r.action
  BY StateChange
<1> HIDE DEF q, f, d
<1>6. \A j \in 1..n : q.reverts[j].old = r.reverts[j].old
  BY <1>2, <1>3, <1>4
<1> QED
  BY <1>5, <1>6 DEF q

LEMMA StateRecords ==
    ASSUME NEW r \in Reverts, r.reverts # <<>>, NEW s \in States, NEW S, NEW T, S \subseteq T,
           RecordsIn(r, S, T), Replacing(WithState(r, s)) \/ EntryIn(Latest(r), S)
    PROVE  RecordsIn(WithState(r, s), S, T)
<1> DEFINE q == WithState(r, s)
           n == Len(r.reverts)
<1>1. /\ Len(q.reverts) = n /\ n \in Nat \ {0}
      /\ \A j \in 1..n : q.reverts[j].old = r.reverts[j].old
  BY StateOld DEF Reverts
<1>2. Replacing(q) \/ EntryIn(Latest(r), S)
  OBVIOUS
<1>3. Latest(r) = r.reverts[n]
  BY DEF Latest, Last
<1> HIDE DEF q, n
<1> SUFFICES ASSUME NEW j \in 1..n
             PROVE  EntryIn(q.reverts[j], IF j = n /\ Replacing(q) THEN T ELSE S)
  BY <1>1 DEF q, RecordsIn
<1>4. EntryIn(r.reverts[j], IF j = n /\ Replacing(r) THEN T ELSE S)
  BY DEF RecordsIn, n
<1>5. EntryIn(r.reverts[j], IF j = n /\ Replacing(q) THEN T ELSE S)
  BY <1>2, <1>3, <1>4, EntryGrows
<1> QED
  BY <1>1, <1>5 DEF EntryIn

\* Once the swap is over nothing is in progress: the same entries, or all but the last.
LEMMA DoneRecords ==
    ASSUME NEW r \in Reverts, r.reverts # <<>>, NEW S, NEW T, RecordsIn(r, S, T), ~Replacing(r),
           NEW q, ~Replacing(q), Len(q.reverts) <= Len(r.reverts), Len(q.reverts) \in Nat,
           \A j \in 1..Len(q.reverts) : q.reverts[j].old = r.reverts[j].old
    PROVE  RecordsIn(q, S, T)
<1>1. Len(r.reverts) \in Nat
  BY DEF Reverts
<1> SUFFICES ASSUME NEW j \in 1..Len(q.reverts) PROVE EntryIn(q.reverts[j], S)
  BY DEF RecordsIn
<1>2. j \in 1..Len(r.reverts)
  BY <1>1
<1>3. EntryIn(r.reverts[j], S)
  BY <1>2 DEF RecordsIn
<1> QED
  BY <1>3 DEF EntryIn

\* unpause ends with the recorded claims of the copy, or without those of the undo.
LEMMA UnpausedRecords ==
    ASSUME TypeOK, AllFit, Unpaused, wk.copy.action # "idle", ~Replacing(wk.copy),
           NEW S, NEW T, RecordsIn(wk.copy, S, T)
    PROVE  RecordsIn(wk'.copy, S, T)
<1> DEFINE n == Len(wk.copy.reverts)
<1>1. wk.pc = "readyWait" /\ wk.copy \in Reverts /\ wk.copy.reverts # <<>>
  BY CopyType DEF Unpaused
<1>2. wk.copy.reverts \in Seq(Details) /\ n \in Nat \ {0} /\ wk.copy.action \in {"latest", "undo"}
  BY <1>1 DEF Reverts
<1>3. ~Replacing(wk'.copy)
  BY UnpausedIdle DEF Replacing
<1>4. CASE wk.copy.action = "latest"
  <2> DEFINE q == WithState(wk.copy, "finished")
  <2>1. wk'.copy = [q EXCEPT !.action = "idle"]
    BY <1>4, UnpausedEnds DEF AllFit
  <2>2. q \in Reverts /\ Len(q.reverts) = n /\ \A j \in 1..n : q.reverts[j].old = wk.copy.reverts[j].old
    BY <1>1, StateOld DEF States
  <2> HIDE DEF q
  <2>3. wk'.copy.reverts = q.reverts
    BY <2>1, <2>2 DEF Reverts
  <2>4. n \in Nat /\ n <= n
    BY <1>2
  <2> HIDE DEF n
  <2> QED
    BY <1>1, <1>3, <2>2, <2>3, <2>4, DoneRecords DEF n
<1>5. CASE wk.copy.action = "undo"
  <2>1. wk'.copy.reverts = Front(wk.copy.reverts)
    BY <1>5, UnpausedEnds DEF AllFit
  <2>2. /\ Len(wk'.copy.reverts) = n - 1
        /\ \A j \in 1..(n - 1) : wk'.copy.reverts[j] = wk.copy.reverts[j]
    BY <1>2, <2>1 DEF Front
  <2>3. n - 1 \in Nat /\ n - 1 <= n
    BY <1>2
  <2> HIDE DEF n
  <2> QED
    BY <1>1, <1>3, <2>2, <2>3, DoneRecords DEF n
<1> QED
  BY <1>2, <1>4, <1>5

\* init adds the cached claims and their volumes to the history.
LEMMA InitRecords ==
    ASSUME TypeOK, StartInit, ~Replacing(crev), NEW S, NEW T, RecordsIn(crev, S, T),
           \A c \in CachedClaims : [claim |-> c, vol |-> cpvc[c].vol] \in T
    PROVE  RecordsIn(wk'.copy, S, T)
<1> DEFINE Recording(order) ==
             [i \in DOMAIN order |-> [claim |-> order[i], vol |-> cpvc[order[i]].vol]]
<1>1. PICK order \in SetToSeqs(CachedClaims) :
        wk' = ToPut([crev EXCEPT !.reverts = Trim(Append(@,
                       [state |-> "init", replicas |-> csts, old |-> Recording(order)]))], crevNew)
  BY DEF StartInit, Start
<1> DEFINE d == [state |-> "init", replicas |-> csts, old |-> Recording(order)]
           h == Append(crev.reverts, d)
           t == Trim(h)
           copy == [crev EXCEPT !.reverts = t]
<1>2. EntryIn(d, T)
  <2> DEFINE n == Cardinality(CachedClaims)
  <2>1. CachedClaims \subseteq Claims /\ IsFiniteSet(CachedClaims)
    BY ClusterAssumption, FS_Subset DEF CachedClaims
  <2>2. order \in [1..n -> CachedClaims]
    BY <2>1 DEF SetToSeqs
  <2>3. \A i \in DOMAIN order :
          order[i] \in CachedClaims /\ Recording(order)[i] = [claim |-> order[i], vol |-> cpvc[order[i]].vol]
    BY <2>2
  <2>4. DOMAIN Recording(order) = DOMAIN order
    OBVIOUS
  <2>5. d.old = Recording(order)
    OBVIOUS
  <2> HIDE DEF Recording, d
  <2> QED
    BY <2>3, <2>4, <2>5 DEF EntryIn
<1>3. wk'.copy = copy
  <2> HIDE DEF d, Recording
  <2>1. wk' = ToPut(copy, crevNew)
    BY <1>1 DEF d, Recording
  <2> QED
    BY <2>1 DEF ToPut, IdleWk
<1> DEFINE Entries == {d} \cup {crev.reverts[j] : j \in 1..Len(crev.reverts)}
<1> HIDE DEF d
<1>4. /\ h \in Seq(Entries) /\ h # <<>> /\ Last(h) = d /\ Len(h) - 1 = Len(crev.reverts)
      /\ \A j \in 1..Len(crev.reverts) : h[j] = crev.reverts[j]
  <2>1. crev.reverts \in Seq(Entries) /\ d \in Entries
    BY DEF TypeOK, Reverts
  <2> HIDE DEF Entries
  <2> QED
    BY <2>1 DEF Last
<1> HIDE DEF h, Entries
<1>5. /\ t \in Seq(Entries) /\ t # <<>> /\ Last(t) = d
      /\ \A j \in 1..(Len(t) - 1) : \E k \in 1..Len(crev.reverts) : t[j] = crev.reverts[k]
  <2>1. /\ t \in Seq(Entries) /\ (t = <<>> <=> h = <<>>)
        /\ h # <<>> => Last(t) = Last(h)
        /\ \A j \in 1..(Len(t) - 1) : \E k \in 1..(Len(h) - 1) : t[j] = h[k]
    <3>1. h \in Seq(Entries)
      BY <1>4
    <3> QED
      BY <3>1, TrimKeepsLast
  <2> QED
    BY <1>4, <2>1
<1> HIDE DEF t
<1>6. copy.reverts = t
  BY DEF TypeOK, Reverts
<1> HIDE DEF copy
<1>7. Replacing(wk'.copy)
  BY StartInitOK DEF StartInit, Latestly, Replacing
<1> SUFFICES ASSUME NEW j \in 1..Len(t)
             PROVE  EntryIn(t[j], IF j = Len(t) THEN T ELSE S)
  BY <1>3, <1>6, <1>7 DEF RecordsIn
<1>8. CASE j = Len(t)
  BY <1>2, <1>5, <1>8 DEF Last
<1>9. CASE j # Len(t)
  <2>1. j \in 1..(Len(t) - 1)
    BY <1>5, <1>9
  <2>2. PICK k \in 1..Len(crev.reverts) : t[j] = crev.reverts[k]
    BY <1>5, <2>1
  <2>3. EntryIn(crev.reverts[k], S)
    BY DEF RecordsIn
  <2> QED
    BY <1>9, <2>2, <2>3
<1> QED
  BY <1>8, <1>9

LEMMA LatestRecords ==
    ASSUME NEW r \in Reverts, r.reverts # <<>>, NEW S, NEW T, RecordsIn(r, S, T)
    PROVE  EntryIn(Latest(r), IF Replacing(r) THEN T ELSE S)
<1>1. Len(r.reverts) \in 1..Len(r.reverts) /\ Latest(r) = r.reverts[Len(r.reverts)]
  BY EmptySeq DEF Reverts, Latest, Last
<1> QED
  BY <1>1 DEF RecordsIn

\* A request is made between two attempts, or while a put that changes nothing is
\* on its way, and never while an entry is in progress.
LEMMA RequestRests ==
    ASSUME ~SwitchMidway, OwnInv, NEW a \in {"latest", "undo"}, Request(a)
    PROVE  /\ wk.pc \in {"idle", "put"} /\ wk'.pc = wk.pc /\ wk'.copy = wk.copy /\ ~wk'.fresh
           /\ rev'.action = a /\ rev'.reverts = rev.reverts
           /\ StateOf(rev) \in {"none", "finished"} /\ StateOf(rev') = StateOf(rev)
           /\ UNCHANGED clusterVars
<1>1. /\ wk \in Workers /\ rev \in Reverts /\ (wk.pc \notin {"idle", "put"} => wk.copy.reverts # <<>>)
      /\ OwnAction /\ InStep
  BY DEF OwnInv, EndsInv, TypeOK, WorkerOK
<1>2. rev.action = "idle" \/ rev.reverts = <<>>
  BY DEF Request
<1>3. wk.pc \in {"idle", "put"}
  BY <1>1, <1>2 DEF OwnAction, InStep
<1>4. StateOf(rev) \in {"none", "finished"}
  BY <1>1, <1>2 DEF OwnAction, StateOf
<1>5. rev'.action = a /\ rev'.reverts = rev.reverts
  BY <1>1 DEF Request, Reverts
<1>6. wk'.pc = wk.pc /\ wk'.copy = wk.copy /\ ~wk'.fresh
  BY <1>1 DEF Request, Workers
<1> QED
  BY <1>3, <1>4, <1>5, <1>6 DEF Request, StateOf, Latest

\* A step takes the recorded claims from S to S2, if fixReclaimPolicy does so for the
\* one it is at, and those in progress from T to T2, if init reads them from T2.
LEMMA WalkStep ==
    ASSUME "revert" \in Prompt, ~SwitchMidway, OwnInv, [Next]_vars,
           NEW S, NEW T, NEW S2, NEW T2, Walk(S, T), S \subseteq S2, S2 \subseteq T2,
           Replacing(rev) => EntryIn(Latest(rev), T2),
           wk.pc = "put" /\ wk.fresh /\ Replacing(wk.copy) => EntryIn(Latest(wk.copy), T2),
           Fix /\ wk'.pc = "delete" => Cur \in S2,
           StartInit => \A c \in CachedClaims : [claim |-> c, vol |-> cpvc[c].vol] \in T2
    PROVE  Walk(S2, T2)'
<1>0. TypeOK /\ AllFit /\ CopyCurrent /\ Seen /\ InStep /\ OwnAction /\ rev \in Reverts
  BY DEF OwnInv, EndsInv, TypeOK
<1>1. RecordsIn(rev, S2, T2) /\ (wk.pc = "put" /\ wk.fresh => RecordsIn(wk.copy, S2, T2))
  BY RecordsGrow DEF Walk
<1> DEFINE Steady == {"put", "fix", "delete", "avail", "create", "bindWait"}
<1>2. ASSUME RecordsIn(rev', S2, T2), wk'.pc \notin Steady PROVE Walk(S2, T2)'
  BY <1>2 DEF Walk
<1>3. ASSUME rev' = rev, wk'.pc = "put", wk'.fresh => RecordsIn(wk'.copy, S2, T2)
      PROVE  Walk(S2, T2)'
  BY <1>1, <1>3 DEF Walk
<1>4. wk' = IdleWk => wk'.pc \notin Steady
  BY IdleOK
<1>5. CASE Starts
  <2>1. rev' = rev /\ crev = rev
    BY <1>0, <1>5, StartsOK DEF revVars, Seen
  <2>2. CASE StartNothing
    <3>1. wk'.pc = "put" /\ wk'.copy = rev
      BY <1>0, <2>1, <2>2, StartNothingOK
    <3> QED
      BY <1>1, <1>3, <2>1, <3>1
  <2>3. CASE StartInit
    <3>1. wk'.pc = "put" /\ ~Replacing(crev)
      BY <1>0, <2>3, StartInitOK DEF StartInit, NeedsEntry, Replacing
    <3>2. RecordsIn(crev, S2, T2)
      BY <1>1, <2>1
    <3>3. RecordsIn(wk'.copy, S2, T2)
      BY <1>0, <2>3, <3>1, <3>2, InitRecords
    <3> QED
      BY <1>3, <2>1, <3>1, <3>3
  <2>4. CASE StartPause \/ StartUnpause
    <3>1. wk'.pc \notin Steady
      BY <1>0, <2>4, StartPauseOK, StartUnpauseOK
    <3> QED
      BY <1>1, <1>2, <2>1, <3>1
  <2>5. CASE StartRevert \/ StartUndo
    <3>1. /\ wk'.copy = rev /\ wk'.i = 1
          /\ wk'.pc = (IF Latest(rev).old = <<>> THEN "bindWait" ELSE "fix")
               \/ wk'.pc \notin Steady
      BY <1>0, <2>1, <2>5, StartMoves
    <3>2. Old' = Latest(rev).old
      BY <3>1 DEF Old, Latest
    <3>3. wk'.pc \notin {"put", "delete", "avail", "create"}
      BY <3>1
    <3>4. wk'.pc = "fix" => \A k \in 1..(wk'.i - 1) : Old'[k] \in S2
      BY <3>1
    <3>5. wk'.pc = "bindWait" => \A k \in DOMAIN Old' : Old'[k] \in S2
      BY <3>1, <3>2
    <3> QED
      BY <1>1, <2>1, <3>3, <3>4, <3>5 DEF Walk
  <2>6. CASE StartRejected
    <3>1. wk' = wk /\ wk.pc = "idle"
      BY <2>6 DEF StartRejected, vars, wkVars
    <3> QED
      BY <1>1, <1>2, <2>1, <3>1
  <2> QED
    BY <1>5, <2>2, <2>3, <2>4, <2>5, <2>6 DEF Starts
<1>6. CASE SwapStep
  <2>1. rev' = rev
    BY <1>0, <1>6, SwapSteps DEF revVars
  <2>2. /\ wk.i \in 1..Len(Old) /\ Len(Old) \in Nat /\ DOMAIN Old = 1..Len(Old) /\ Cur = Old[wk.i]
    BY <1>0, <1>6, SwapSteps, PlaceType
  <2>3. wk'.copy = wk.copy => Old' = Old
    BY DEF Old, Latest
  <2>4. CASE wk' = IdleWk \/ UndoDelete \/ UndoCreate
    <3>1. wk'.pc \notin Steady
      BY <1>0, <1>4, <1>6, <2>4, SwapMoves DEF Onward, At, UndoDelete, UndoCreate
    <3> QED
      BY <1>1, <1>2, <2>1, <3>1
  <2>5. CASE Fix /\ wk.pc = "fix" /\ At("delete", wk.i)
    <3>1. \A k \in 1..wk.i : Old[k] \in S2
      <4>1. \A k \in 1..wk.i : k = wk.i \/ k \in 1..(wk.i - 1)
        BY <2>2
      <4>2. Cur \in S2
        BY <2>5 DEF At
      <4> QED
        BY <2>2, <2>5, <4>1, <4>2 DEF Walk
    <3> QED
      BY <1>1, <2>1, <2>3, <2>5, <3>1 DEF Walk, At
  <2>6. CASE Delete /\ wk.pc = "delete" /\ At("avail", wk.i)
    BY <1>1, <2>1, <2>3, <2>6 DEF Walk, At
  <2>7. CASE Avail /\ wk.pc = "avail" /\ Onward("fix", "create")
    <3>1. \A k \in 1..wk.i : Old[k] \in S2
      BY <2>7 DEF Walk
    <3>2. CASE At("fix", wk.i + 1)
      <4>1. wk'.i - 1 = wk.i
        BY <2>2, <3>2 DEF At
      <4> QED
        BY <1>1, <2>1, <2>3, <3>1, <3>2, <4>1 DEF Walk, At
    <3>3. CASE wk.i = Len(Old) /\ At("create", 1)
      BY <1>1, <2>1, <2>2, <2>3, <3>1, <3>3 DEF Walk, At
    <3> QED
      BY <2>7, <3>2, <3>3 DEF Onward
  <2>8. CASE Create /\ wk.pc = "create" /\ Onward("create", "bindWait")
    <3>1. \A k \in DOMAIN Old : Old[k] \in S2
      BY <2>8 DEF Walk
    <3>2. wk'.pc \in {"create", "bindWait"} /\ wk'.copy = wk.copy
      BY <2>8 DEF Onward, At
    <3> QED
      BY <1>1, <2>1, <2>3, <3>1, <3>2 DEF Walk
  <2> QED
    BY <1>0, <1>6, <2>4, <2>5, <2>6, <2>7, <2>8, SwapMoves
<1>7. CASE Pause \/ Unpause
  <2>1. rev' = rev
    BY <1>7 DEF Pause, Unpause, revVars
  <2>2. wk'.pc \notin Steady
    BY <1>0, <1>4, <1>7, PauseOK, UnpauseOK
  <2> QED
    BY <1>1, <1>2, <2>1, <2>2
<1>8. CASE Paused \/ Reverted \/ Undone
  <2>1. rev' = rev /\ wk.pc \notin {"idle", "put"}
    BY <1>8 DEF Paused, Reverted, Undone, Bound, revVars
  <2>2. wk.copy = rev /\ wk.copy.reverts # <<>>
    BY <1>0, <2>1, CopyType DEF OwnAction
  <2>3. EntryIn(Latest(rev), IF Replacing(rev) THEN T2 ELSE S2)
    BY <1>0, <1>1, <2>2, LatestRecords
  <2>4. PICK s \in States : wk'.pc = "put" /\ wk'.copy = WithState(rev, s)
                            /\ (Replacing(WithState(rev, s)) \/ EntryIn(Latest(rev), S2))
    <3>1. {"paused", "reverted", "undone"} \subseteq States
      BY DEF States
    <3>2. CASE wk.pc = "pauseWait" /\ wk'.copy = WithState(wk.copy, "paused")
      <4>1. wk'.pc = "put" /\ StateOf(wk'.copy) = "paused" /\ wk'.copy.action = rev.action
        BY <1>0, <1>8, <2>2, <3>2, WaitsPut
      <4>2. Replacing(wk'.copy) \/ ~Replacing(rev)
        BY <4>1 DEF Replacing
      <4> QED
        BY <2>2, <2>3, <3>1, <3>2, <4>1, <4>2
    <3>3. CASE wk.pc = "bindWait" /\ wk'.copy = WithState(wk.copy, "reverted")
      <4>1. \A k \in DOMAIN Old : Old[k] \in S2
        BY <3>3 DEF Walk
      <4>2. EntryIn(Latest(rev), S2)
        BY <2>2, <2>3, <4>1 DEF EntryIn, Old
      <4> QED
        BY <1>0, <1>8, <2>2, <3>1, <3>3, <4>2, WaitsPut
    <3>4. CASE wk.pc = "undoWait" /\ wk'.copy = WithState(wk.copy, "undone")
      <4>1. ~Replacing(rev)
        BY <1>0, <2>2, <3>4 DEF OwnAction, UndoSteps, Replacing
      <4> QED
        BY <1>0, <1>8, <2>2, <2>3, <3>1, <3>4, <4>1, WaitsPut
    <3> QED
      BY <1>0, <1>8, <3>2, <3>3, <3>4, WaitsPut
  <2>5. RecordsIn(wk'.copy, S2, T2)
    BY <1>0, <1>1, <2>2, <2>4, StateRecords
  <2> QED
    BY <1>3, <2>1, <2>4, <2>5
<1>9. CASE Unpaused
  <2>1. rev' = rev /\ wk.pc = "readyWait" /\ wk'.pc = "put"
    BY <1>0, <1>9, UnpausedOK DEF Unpaused, revVars
  <2>2. wk.copy = rev /\ rev.action # "idle"
    BY <1>0, <2>1 DEF OwnAction
  <2>3. ~Replacing(rev)
    BY <1>0, <2>1, <2>2 DEF CopyCurrent, Replacing
  <2>4. RecordsIn(wk'.copy, S2, T2)
    BY <1>0, <1>1, <1>9, <2>2, <2>3, UnpausedRecords
  <2> QED
    BY <1>3, <2>1, <2>4
<1>10. CASE Put
  <2>1. wk' = IdleWk /\ wk.pc = "put" /\ (rev' = rev \/ (wk.fresh /\ rev' = wk.copy))
    BY <1>0, <1>10, PutOK DEF revVars
  <2> QED
    BY <1>1, <1>2, <1>4, <2>1
<1>11. CASE CallLost \/ Timeout \/ Crash
  <2>1. wk' = IdleWk /\ rev' = rev
    BY <1>11 DEF CallLost, Timeout, Crash, Error, revVars
  <2> QED
    BY <1>1, <1>2, <1>4, <2>1
<1>12. CASE SyncRevert \/ Resync \/ Environment \/ UNCHANGED vars
  <2>1. wk' = wk /\ rev' = rev
    BY <1>12 DEF SyncRevert, Resync, Environment, Rest, vars, revVars, wkVars
  <2>2. Old' = Old
    BY <2>1 DEF Old, Latest
  <2> QED
    BY <1>1, <2>1, <2>2 DEF Walk
<1>13. ASSUME NEW a \in {"latest", "undo"}, Request(a) PROVE Walk(S2, T2)'
  <2>1. /\ wk'.pc \in {"idle", "put"} /\ ~wk'.fresh
        /\ rev'.reverts = rev.reverts /\ ~Replacing(rev) /\ ~Replacing(rev')
    BY <1>13, RequestRests DEF Replacing
  <2>2. RecordsIn(rev', S2, T2)
    BY <1>1, <2>1 DEF RecordsIn
  <2> QED
    BY <2>1, <2>2 DEF Walk
<1> QED
  BY <1>5, <1>6, <1>7, <1>8, <1>9, <1>10, <1>11, <1>12, <1>13 DEF Next, Steps, SwapStep

----------------------------------------------------------------------------
(* What the steps do to claims and volumes *)

\* The cache of the claims sees every write at once.
ClaimsSeen == cpvc = pvc

\* Neither the claims nor the volumes change in the API server.
Still == pvc' = pvc /\ cpvc' = cpvc /\ pv' = pv /\ cpv' = cpv

\* Only calls of the loops, and the rest of the cluster, write claims or volumes.
LEMMA OnlySwapsWrite ==
    ASSUME TypeOK, [Next]_vars
    PROVE  Still \/ SwapStep \/ Environment \/ Crash
<1>1. Starts \/ Put => Still
  BY StartsOK, PutOK DEF clusterVars, pvcVars, pvVars, Still
<1>2. Pause \/ Paused \/ Unpause \/ Unpaused \/ Reverted \/ Undone => Still
  BY DEF Pause, Paused, Unpause, Unpaused, Reverted, Undone, Bound, clusterVars, pvcVars, pvVars, Still
<1>3. CallLost \/ Timeout \/ SyncRevert \/ Resync \/ UNCHANGED vars => Still
  BY DEF CallLost, Timeout, SyncRevert, Resync, vars, clusterVars, pvcVars, pvVars, Still
<1>4. (\E a \in {"latest", "undo"} : Request(a)) => Still
  BY DEF Request, clusterVars, pvcVars, pvVars, Still
<1> QED
  BY <1>1, <1>2, <1>3, <1>4 DEF Next, Steps, SwapStep

\* A call of a loop deletes or creates one claim, or writes one volume.
LEMMA SwapWrites ==
    ASSUME TypeOK, SwapStep
    PROVE  \/ UNCHANGED <<pvcVars, pvVars>>
           \/ (Fix \/ Avail) /\ UNCHANGED pvcVars
           \/ (Delete \/ UndoDelete) /\ cpvc[Cur.claim].here /\ pvc[Cur.claim].here
                /\ (Release(Cur.claim) \/ (SetPvc([pvc EXCEPT ![Cur.claim].dying = TRUE]) /\ UNCHANGED pvVars))
           \/ Create /\ ~pvc[Cur.claim].here /\ UNCHANGED pvVars
                /\ SetPvc([pvc EXCEPT ![Cur.claim] = AttachSnapshot(wk.sel[Cur.claim])])
           \/ UndoCreate /\ ~pvc[Cur.claim].here /\ UNCHANGED pvVars
                /\ SetPvc([pvc EXCEPT ![Cur.claim] = Undo(Cur.vol)])
<1>1. Fix \/ Avail => UNCHANGED pvcVars
  BY DEF Fix, Avail
<1>2. ASSUME NEW w, NEW call, DeletePVC(call, Cur.claim, w)
      PROVE  \/ UNCHANGED <<pvcVars, pvVars>>
             \/ cpvc[Cur.claim].here /\ pvc[Cur.claim].here
                  /\ (Release(Cur.claim) \/ (SetPvc([pvc EXCEPT ![Cur.claim].dying = TRUE]) /\ UNCHANGED pvVars))
  BY <1>2 DEF DeletePVC
<1>3. ASSUME NEW w, NEW call, NEW p, CreatePVC(call, Cur.claim, p, w)
      PROVE  \/ UNCHANGED pvcVars
             \/ ~pvc[Cur.claim].here /\ SetPvc([pvc EXCEPT ![Cur.claim] = p])
  BY <1>3 DEF CreatePVC
<1>4. CASE Delete \/ UndoDelete
  BY <1>2, <1>4 DEF Delete, UndoDelete
<1>5. CASE Create
  BY <1>3, <1>5 DEF Create
<1>6. CASE UndoCreate
  BY <1>3, <1>6 DEF UndoCreate
<1> QED
  BY <1>1, <1>4, <1>5, <1>6 DEF SwapStep

\* What the rest of the cluster does to claims and volumes.
Blank == [NoPvc EXCEPT !.here = TRUE]

LEMMA ClusterWrites ==
    ASSUME ClusterTypeOK, Environment
    PROVE  \/ pvc' = pvc /\ pv' = pv
           \/ \E c \in Claims :
                \/ ~pvc[c].here /\ SetPvc([pvc EXCEPT ![c] = Blank]) /\ pv' = pv
                \/ pvc[c].here /\ pvc[c].dying /\ Release(c)
                \/ BindFree(c)
                \/ Provision(c, Taken)
                \/ Rebind(c)
           \/ \E v \in Vols : Reclaim(v)
<1>1. Sync => pvc' = pvc /\ pv' = pv
  BY DEF Sync, SyncSts, SyncPod, SyncPvc, SyncPv, pvcVars, pvVars
<1>2. ASSUME NEW c \in Claims, CreatePod(c)
      PROVE  \/ pvc' = pvc /\ pv' = pv
             \/ ~pvc[c].here /\ SetPvc([pvc EXCEPT ![c] = Blank]) /\ pv' = pv
  BY <1>2 DEF CreatePod, pvcVars, pvVars, Blank
<1>3. ASSUME NEW c \in Claims, RunPod(c) \/ DeletePod(c) \/ TakeSnapshot(c)
      PROVE  pvc' = pvc /\ pv' = pv
  BY <1>3 DEF RunPod, DeletePod, TakeSnapshot, pvcVars, pvVars
<1>4. ASSUME NEW c \in Claims, RemovePvc(c)
      PROVE  pvc[c].here /\ pvc[c].dying /\ Release(c)
  BY <1>4 DEF RemovePvc, CanRemovePvc
<1> QED
  BY <1>1, <1>2, <1>3, <1>4 DEF Environment, Controllers

LEMMA ClaimsSeenStep ==
    ASSUME "pvc" \in Prompt, TypeOK, ClaimsSeen, [Next]_vars
    PROVE  ClaimsSeen'
<1>1. ASSUME NEW f, SetPvc(f) PROVE ClaimsSeen'
  BY <1>1 DEF SetPvc, ClaimsSeen
<1>2. UNCHANGED pvcVars => ClaimsSeen'
  BY DEF pvcVars, ClaimsSeen
<1>3. Still \/ Crash => ClaimsSeen'
  BY DEF Still, Crash, ClaimsSeen
<1>4. ASSUME SwapStep PROVE ClaimsSeen'
  BY <1>1, <1>2, <1>4, SwapWrites DEF Release
<1>5. ASSUME NEW c \in Claims,
             \/ CreatePod(c) \/ RunPod(c) \/ DeletePod(c) \/ RemovePvc(c)
             \/ BindFree(c) \/ Provision(c, Taken) \/ Rebind(c) \/ TakeSnapshot(c)
      PROVE  ClaimsSeen'
  BY <1>1, <1>2, <1>5 DEF CreatePod, RunPod, DeletePod, RemovePvc, Release, BindFree, BindTo,
                          Provision, Rebind, TakeSnapshot
<1>6. ASSUME Sync \/ \E v \in Vols : Reclaim(v) PROVE ClaimsSeen'
  BY <1>2, <1>6 DEF Sync, SyncSts, SyncPod, SyncPvc, SyncPv, Reclaim, ClaimsSeen
<1> QED
  BY <1>3, <1>4, <1>5, <1>6, OnlySwapsWrite DEF Environment, Controllers

----------------------------------------------------------------------------
(* UndoRestores: an undo that is over has given every claim its volume back *)

\* Recorded claims with a volume.  fixReclaimPolicy fails for the others, so that
\* only a revert in progress may hold one.
WithVolume == {o \in Recorded : o.vol \in Vols}
Named == Walk(WithVolume, Recorded)

\* The entry in progress is one of the entries.
LEMMA WalkLatest ==
    ASSUME TypeOK, NEW S, NEW T, Walk(S, T)
    PROVE  /\ rev.reverts # <<>> => EntryIn(Latest(rev), IF Replacing(rev) THEN T ELSE S)
           /\ wk.pc = "put" /\ wk.fresh /\ wk.copy.reverts # <<>>
                => EntryIn(Latest(wk.copy), IF Replacing(wk.copy) THEN T ELSE S)
<1>1. rev \in Reverts /\ wk.copy \in Reverts
  BY DEF TypeOK, WorkerOK, Workers
<1> QED
  BY <1>1, LatestRecords DEF Walk

LEMMA ReplacingEntry ==
    ASSUME NEW r, Replacing(r)
    PROVE  r.reverts # <<>>
  BY DEF Replacing, StateOf

LEMMA FixNames ==
    ASSUME TypeOK, Fix, wk'.pc = "delete"
    PROVE  Cur \in WithVolume /\ cpv[Cur.vol].live
<1>1. wk.pc = "fix" /\ Cur \in Recorded
  BY CurType DEF Fix, Loops
<1>2. ~NoPv(Cur.vol)
  BY DEF Fix, Refused, Error, IdleWk
<1> QED
  BY <1>1, <1>2 DEF NoPv, WithVolume

LEMMA NamedInit == Init => Named
<1> SUFFICES ASSUME Init PROVE Named
  OBVIOUS
<1>1. rev.reverts = <<>> /\ wk.pc = "idle"
  BY DEF Init, IdleWk
<1> QED
  BY <1>1 DEF Named, Walk, RecordsIn

LEMMA NamedStep ==
    ASSUME "revert" \in Prompt, ~SwitchMidway, OwnInv, Named, [Next]_vars
    PROVE  Named'
<1>1. TypeOK
  BY DEF OwnInv, EndsInv
<1>2. Walk(WithVolume, Recorded) /\ WithVolume \subseteq Recorded
  BY DEF Named, WithVolume
<1>3. /\ Replacing(rev) => EntryIn(Latest(rev), Recorded)
      /\ wk.pc = "put" /\ wk.fresh /\ Replacing(wk.copy) => EntryIn(Latest(wk.copy), Recorded)
  BY <1>1, <1>2, WalkLatest, ReplacingEntry
<1>4. Fix /\ wk'.pc = "delete" => Cur \in WithVolume
  BY <1>1, FixNames
<1>5. \A c \in CachedClaims : [claim |-> c, vol |-> cpvc[c].vol] \in Recorded
  BY <1>1 DEF TypeOK, ClusterTypeOK, CachedClaims, Pvcs, Recorded
<1>6. Walk(WithVolume, Recorded)'
  BY <1>2, <1>3, <1>4, <1>5, WalkStep
<1> QED
  BY <1>6 DEF Named

\* A claim made again with the volume it had: the volume is its own once bound.
Back(o) ==
    /\ o.vol \in Vols
    /\ pvc[o.claim].here /\ ~pvc[o.claim].dying /\ pvc[o.claim].vol = o.vol
    /\ pvc[o.claim].bound => pv[o.vol].ref = o.claim

\* The cluster binds such a claim to its volume, and takes no volume from it.
LEMMA BackKept ==
    ASSUME ClusterTypeOK, Environment, NEW o \in Recorded, Back(o)
    PROVE  Back(o)' /\ (pvc[o.claim].bound => pvc'[o.claim].bound)
<1> DEFINE d == o.claim
<1>0. /\ d \in Claims /\ o.vol \in Vols /\ o.vol # NoVol
      /\ pvc \in [Claims -> Pvcs] /\ pv \in [Vols -> Pvs] /\ d \notin {"free", "released"}
      /\ pvc[d].here /\ ~pvc[d].dying /\ pvc[d].vol = o.vol /\ (pvc[d].bound => pv[o.vol].ref = d)
  BY ClusterAssumption DEF Back, Recorded, ClusterTypeOK
<1> SUFFICES /\ pvc'[d].here /\ ~pvc'[d].dying /\ pvc'[d].vol = o.vol
             /\ pvc'[d].bound => pv'[o.vol].ref = d
             /\ pvc[d].bound => pvc'[d].bound
  BY <1>0 DEF Back
<1> HIDE DEF d
<1>1. CASE pvc' = pvc /\ pv' = pv
  BY <1>0, <1>1
<1>2. ASSUME NEW c \in Claims, ~pvc[c].here, SetPvc([pvc EXCEPT ![c] = Blank]), pv' = pv
      PROVE  pvc'[d] = pvc[d] /\ pv' = pv
  BY <1>0, <1>2 DEF SetPvc
<1>3. ASSUME NEW c \in Claims, pvc[c].dying, Release(c)
      PROVE  pvc'[d] = pvc[d] /\ (pvc[d].bound => pv'[o.vol].ref = d)
  <2>1. pvc' = [pvc EXCEPT ![c] = NoPvc]
    BY <1>3 DEF Release, SetPvc
  <2>2. pv' = pv \/ (pv[pvc[c].vol].ref = c /\ pv' = [pv EXCEPT ![pvc[c].vol].ref = "released"])
    BY <1>3 DEF Release, SetPv, pvVars
  <2> QED
    BY <1>0, <1>3, <2>1, <2>2
<1>4. ASSUME NEW c \in Claims, BindFree(c)
      PROVE  /\ pvc'[d].here /\ ~pvc'[d].dying /\ pvc'[d].vol = o.vol
             /\ pvc'[d].bound => pv'[o.vol].ref = d
             /\ pvc[d].bound => pvc'[d].bound
  <2>1. PICK v \in Vols : /\ pv[v].ref = "free" /\ (v = pvc[c].vol \/ pvc[c].vol = NoVol)
                          /\ pvc' = [pvc EXCEPT ![c].bound = TRUE, ![c].vol = v]
                          /\ pv' = [pv EXCEPT ![v].ref = c]
    BY <1>4 DEF BindFree, Free, BindTo, SetPvc, SetPv
  <2>2. ~pvc[c].bound
    BY <1>4 DEF BindFree, Unbound
  <2>3. CASE c = d
    BY <1>0, <2>1, <2>3 DEF Pvcs, Pvs
  <2>4. CASE c # d
    BY <1>0, <2>1, <2>4 DEF Pvcs, Pvs
  <2> QED
    BY <2>3, <2>4
<1>5. ASSUME NEW c \in Claims, Provision(c, Taken)
      PROVE  pvc'[d] = pvc[d] /\ pv'[o.vol] = pv[o.vol]
  <2>1. PICK v \in UnusedVols(Taken) :
          /\ pvc' = [pvc EXCEPT ![c].bound = TRUE, ![c].vol = v]
          /\ pv' = [pv EXCEPT ![v] = [live |-> TRUE, policy |-> "Delete", ref |-> c]]
    BY <1>5 DEF Provision, BindTo, SetPvc, SetPv
  <2>2. pvc[c].vol = NoVol /\ v # pvc[d].vol
    BY <1>0, <1>5, <2>1 DEF Provision, UnusedVols
  <2> QED
    BY <1>0, <2>1, <2>2
<1>6. ASSUME NEW c \in Claims, Rebind(c)
      PROVE  pvc' = pvc /\ (pvc[d].bound => pv'[o.vol].ref = d)
  <2>1. pvc' = pvc /\ pv[pvc[c].vol].ref = "free" /\ pv' = [pv EXCEPT ![pvc[c].vol].ref = c]
    BY <1>6 DEF Rebind, SetPv, pvcVars
  <2> QED
    BY <1>0, <2>1
<1>7. ASSUME NEW v \in Vols, Reclaim(v)
      PROVE  pvc' = pvc /\ pv'[o.vol].ref = pv[o.vol].ref
  BY <1>0, <1>7 DEF Reclaim, SetPv, pvcVars
<1> QED
  BY <1>0, <1>1, <1>2, <1>3, <1>4, <1>5, <1>6, <1>7, ClusterWrites

\* Once an undo is "undone" its claims are bound to the volumes they had.
Restored(r) ==
    r.action = "undo" /\ StateOf(r) = "undone" =>
      \A k \in DOMAIN Latest(r).old :
        Back(Latest(r).old[k]) /\ pvc[Latest(r).old[k].claim].bound

\* undoRevertSnapshots makes the claims again one by one, and waits for all.
Restoring ==
    /\ wk.pc = "undoCreate" => \A k \in 1..(wk.i - 1) : Back(Old[k])
    /\ wk.pc = "undoWait" => \A k \in DOMAIN Old : Back(Old[k])
    /\ Restored(rev)
    /\ wk.pc = "put" /\ wk.fresh => Restored(wk.copy)

LEMMA RestoredStays ==
    ASSUME ClusterTypeOK, NEW r \in Reverts, Restored(r), (pvc' = pvc /\ pv' = pv) \/ Environment
    PROVE  Restored(r)'
<1>1. CASE pvc' = pvc /\ pv' = pv
  BY <1>1 DEF Restored, Back
<1>2. ASSUME Environment, r.action = "undo", StateOf(r) = "undone", NEW k \in DOMAIN Latest(r).old
      PROVE  Back(Latest(r).old[k])' /\ pvc'[Latest(r).old[k].claim].bound
  <2>1. Latest(r).old[k] \in Recorded
    <3>1. Latest(r) \in Details
      BY <1>2, HasEntry
    <3> QED
      BY <1>2, <3>1 DEF Details
  <2> QED
    BY <1>2, <2>1, BackKept DEF Restored
<1> QED
  BY <1>1, <1>2 DEF Restored

LEMMA RestoringInit == Init => Restoring
<1> SUFFICES ASSUME Init PROVE Restoring
  OBVIOUS
<1>1. wk.pc = "idle" /\ StateOf(rev) = "none"
  BY DEF Init, IdleWk, StateOf
<1> QED
  BY <1>1 DEF Restoring, Restored

LEMMA RestoringStep ==
    ASSUME "revert" \in Prompt, ~SwitchMidway, OwnInv, ClaimsSeen, Named, Restoring, [Next]_vars
    PROVE  Restoring'
<1>0. /\ TypeOK /\ ClusterTypeOK /\ AllFit /\ Seen /\ InStep /\ OwnAction
      /\ rev \in Reverts /\ wk.copy \in Reverts /\ Restored(rev)
  BY DEF OwnInv, EndsInv, TypeOK, WorkerOK, Workers, Restoring
<1> DEFINE Same == pvc' = pvc /\ pv' = pv
<1>1. PICK r \in Reverts : r = rev
  BY <1>0
<1>2. PICK q \in Reverts : q = wk.copy
  BY <1>0
<1>3. ASSUME Same \/ Environment PROVE Restored(r)' /\ (Restored(q) => Restored(q)')
  BY <1>0, <1>1, <1>3, RestoredStays
<1>4. ASSUME Same, rev' = rev, wk'.pc \notin {"undoCreate", "undoWait", "put"}
      PROVE  Restoring'
  BY <1>1, <1>3, <1>4 DEF Restoring
<1>5. ASSUME Same, rev' = rev, wk'.pc = "put",
             wk'.copy.action # "undo" \/ StateOf(wk'.copy) # "undone" \/ wk'.copy = rev
      PROVE  Restoring'
  <2>1. Restored(rev)'
    BY <1>1, <1>3, <1>5
  <2>2. Restored(wk.copy)'
    <3>1. CASE wk'.copy = rev
      BY <1>1, <1>3, <1>5, <3>1
    <3>2. CASE wk'.copy.action # "undo" \/ StateOf(wk'.copy) # "undone"
      BY <3>2 DEF Restored, StateOf, Latest
    <3> QED
      BY <1>5, <3>1, <3>2
  <2> QED
    BY <1>5, <2>1, <2>2 DEF Restoring
<1>6. wk' = IdleWk => wk'.pc = "idle"
  BY IdleOK
<1>7. CASE Starts
  <2>1. rev' = rev /\ crev = rev /\ Same
    BY <1>0, <1>7, StartsOK DEF revVars, clusterVars, pvcVars, pvVars, Seen
  <2>2. CASE StartNothing
    BY <1>0, <1>5, <2>1, <2>2, StartNothingOK
  <2>3. CASE StartInit
    <3>1. wk'.pc = "put" /\ wk'.copy.action = "latest"
      BY <1>0, <2>3, StartInitOK DEF StartInit, Latestly
    <3> QED
      BY <1>5, <2>1, <3>1
  <2>4. CASE StartPause \/ StartUnpause
    BY <1>0, <1>4, <2>1, <2>4, StartPauseOK, StartUnpauseOK
  <2>5. CASE StartRevert \/ StartUndo
    <3>1. /\ wk'.copy = rev
          /\ (wk'.pc = "undoWait" /\ Latest(rev).old = <<>>) \/ wk'.pc \notin {"undoCreate", "undoWait", "put"}
      BY <1>0, <2>1, <2>5, StartMoves
    <3>2. CASE wk'.pc = "undoWait" /\ Latest(rev).old = <<>>
      <4>1. Old' = <<>>
        BY <3>1, <3>2 DEF Old, Latest
      <4> QED
        BY <1>1, <1>3, <2>1, <3>2, <4>1 DEF Restoring
    <3> QED
      BY <1>4, <2>1, <3>1, <3>2
  <2>6. CASE StartRejected
    BY <1>4, <2>1, <2>6 DEF StartRejected, vars, wkVars
  <2> QED
    BY <1>7, <2>2, <2>3, <2>4, <2>5, <2>6 DEF Starts
<1>8. CASE SwapStep
  <2>1. rev' = rev /\ wk.pc \in Loops
    BY <1>0, <1>8, SwapSteps DEF revVars
  <2>2. wk.copy = rev /\ StateOf(rev) = "paused"
    BY <1>0, <2>1, SwappingAttempts DEF OwnAction, InStep
  <2>3. Restored(rev)'
    BY <2>1, <2>2 DEF Restored, StateOf, Latest
  <2>4. CASE wk'.pc \notin {"undoCreate", "undoWait", "put"}
    BY <2>3, <2>4 DEF Restoring
  <2>5. CASE UndoDelete /\ Onward("undoDelete", "undoCreate")
    <3>1. wk'.pc = "undoDelete" \/ (wk'.pc = "undoCreate" /\ wk'.i = 1)
      BY <2>5 DEF Onward, At
    <3>2. wk'.pc = "undoCreate" => \A k \in 1..(wk'.i - 1) : Back(Old[k])'
      BY <3>1
    <3> QED
      BY <2>3, <3>1, <3>2 DEF Restoring
  <2>6. CASE UndoCreate /\ wk.pc = "undoCreate" /\ Onward("undoCreate", "undoWait")
    <3>0. /\ wk.i \in 1..Len(Old) /\ Len(Old) \in Nat /\ DOMAIN Old = 1..Len(Old)
          /\ Cur = Old[wk.i] /\ Cur \in Recorded /\ Old \in Seq(Recorded)
      BY <1>0, <2>1, PlaceType
    <3>1. /\ wk'.copy = wk.copy /\ wk'.pc \in {"undoCreate", "undoWait"}
          /\ wk'.pc = "undoCreate" => wk'.i = wk.i + 1
          /\ wk'.pc = "undoWait" => wk.i = Len(Old)
      BY <2>6 DEF Onward, At
    <3>2. Old' = Old
      BY <3>1 DEF Old, Latest
    <3>3. ~pvc[Cur.claim].here /\ pvc' = [pvc EXCEPT ![Cur.claim] = Undo(Cur.vol)] /\ pv' = pv
      BY <1>6, <2>6, <3>1 DEF UndoCreate, CreatePVC, Refused, Error, SetPvc, pvVars
    <3>4. Cur.vol \in Vols
      <4>1. ~Replacing(rev) /\ rev.reverts # <<>>
        BY <1>0, <2>2, <2>6, StepSets DEF OwnAction, Replacing, StateOf, UndoSteps
      <4>2. EntryIn(Latest(rev), WithVolume)
        BY <1>0, <4>1, WalkLatest DEF Named
      <4> QED
        BY <2>2, <3>0, <4>2 DEF EntryIn, Old, WithVolume
    <3>5. ASSUME NEW k \in 1..wk.i PROVE Back(Old[k])'
      <4>1. PICK o \in Recorded : o = Old[k]
        BY <3>0
      <4>2. CASE k = wk.i
        <5>1. pvc'[o.claim] = Undo(o.vol) /\ o.vol \in Vols
          BY <1>0, <3>0, <3>3, <3>4, <4>1, <4>2 DEF ClusterTypeOK, Recorded
        <5>2. Back(o)'
          BY <5>1 DEF Back, Undo, NoPvc
        <5> QED
          BY <3>2, <4>1, <5>2
      <4>3. CASE k # wk.i
        <5>1. k \in 1..(wk.i - 1)
          BY <3>0, <4>3
        <5>2. Back(o)
          BY <2>6, <4>1, <5>1 DEF Restoring
        <5>3. pvc'[o.claim] = pvc[o.claim]
          BY <1>0, <3>0, <3>3, <5>2 DEF Back, ClusterTypeOK, Recorded
        <5>4. Back(o)'
          BY <3>3, <5>2, <5>3 DEF Back
        <5> QED
          BY <3>2, <4>1, <5>4
      <4> QED
        BY <4>2, <4>3
    <3> QED
      BY <2>3, <3>0, <3>1, <3>2, <3>5 DEF Restoring
  <2> QED
    BY <1>0, <1>6, <1>8, <2>4, <2>5, <2>6, SwapMoves DEF At, Onward
<1>9. CASE Pause \/ Unpause
  <2>1. rev' = rev /\ Same
    BY <1>9 DEF Pause, Unpause, revVars, pvcVars, pvVars
  <2> QED
    BY <1>0, <1>4, <1>6, <1>9, <2>1, PauseOK, UnpauseOK
<1>10. CASE Paused \/ Reverted \/ Undone
  <2>1. rev' = rev /\ Same
    BY <1>10 DEF Paused, Reverted, Undone, Bound, revVars, clusterVars, pvcVars, pvVars
  <2>2. CASE wk.pc \in {"pauseWait", "bindWait"}
    BY <1>0, <1>5, <1>10, <2>1, <2>2, WaitsPut
  <2>3. CASE wk.pc = "undoWait"
    <3>1. /\ wk'.pc = "put" /\ wk'.copy = WithState(wk.copy, "undone") /\ PvcsBound
          /\ wk.copy.reverts # <<>>
      BY <1>0, <1>10, <2>3, WaitsPut, CopyType
    <3>2. Latest(wk'.copy).old = Old
      <4>1. /\ Len(wk'.copy.reverts) = Len(wk.copy.reverts)
            /\ \A j \in 1..Len(wk.copy.reverts) : wk'.copy.reverts[j].old = wk.copy.reverts[j].old
        BY <1>0, <3>1, StateOld DEF States
      <4>2. Len(wk.copy.reverts) \in 1..Len(wk.copy.reverts)
        BY <1>0, <3>1, EmptySeq DEF Reverts
      <4> QED
        BY <4>1, <4>2 DEF Old, Latest, Last
    <3>3. \A k \in DOMAIN Old : Back(Old[k]) /\ pvc[Old[k].claim].bound
      BY <2>3, <3>1 DEF Restoring, PvcsBound, ClaimsSeen
    <3>4. Restored(wk.copy)'
      BY <2>1, <3>2, <3>3 DEF Restored, Back
    <3> QED
      BY <1>1, <1>3, <2>1, <3>1, <3>4 DEF Restoring
  <2> QED
    BY <1>0, <1>10, <2>2, <2>3, WaitsPut
<1>11. CASE Unpaused
  <2>1. rev' = rev /\ Same
    BY <1>11 DEF Unpaused, revVars, clusterVars, pvcVars, pvVars
  <2>2. wk'.pc = "put" /\ wk'.copy.action = "idle"
    BY <1>0, <1>11, UnpausedOK, UnpausedIdle
  <2> QED
    BY <1>5, <2>1, <2>2
<1>12. CASE Put
  <2>1. /\ wk' = IdleWk /\ wk.pc = "put" /\ Same
        /\ rev' = rev \/ (wk.fresh /\ rev' = wk.copy)
    BY <1>0, <1>12, PutOK DEF revVars, clusterVars, pvcVars, pvVars
  <2>2. Restored(rev)'
    BY <1>1, <1>2, <1>3, <2>1 DEF Restoring
  <2> QED
    BY <1>6, <2>1, <2>2 DEF Restoring
<1>13. CASE CallLost \/ Timeout \/ Crash
  <2>1. wk' = IdleWk /\ rev' = rev /\ Same
    BY <1>13 DEF CallLost, Timeout, Crash, Error, revVars, clusterVars, pvcVars, pvVars
  <2> QED
    BY <1>4, <1>6, <2>1
<1>14. CASE SyncRevert \/ Resync \/ Environment \/ UNCHANGED vars
  <2>1. wk' = wk /\ rev' = rev /\ (Same \/ Environment)
    BY <1>14 DEF SyncRevert, Resync, Environment, Rest, vars, revVars, wkVars, clusterVars, pvcVars, pvVars
  <2>2. Old' = Old
    BY <2>1 DEF Old, Latest
  <2>3. ASSUME wk.pc \in {"undoCreate", "undoWait"}, NEW k \in DOMAIN Old, Back(Old[k]) PROVE Back(Old[k])'
    <3>1. Old \in Seq(Recorded)
      BY <1>0, <2>3, OldType
    <3>2. PICK o \in Recorded : o = Old[k]
      BY <2>3, <3>1
    <3>3. Back(o)'
      <4>1. CASE Same
        BY <2>3, <3>2, <4>1 DEF Back
      <4>2. CASE Environment
        BY <1>0, <2>3, <3>2, <4>2, BackKept
      <4> QED
        BY <2>1, <4>1, <4>2
    <3> QED
      BY <2>2, <3>2, <3>3
  <2>4. wk.pc = "undoCreate" => \A k \in 1..(wk.i - 1) : Back(Old[k])'
    <3> SUFFICES ASSUME wk.pc = "undoCreate", NEW k \in 1..(wk.i - 1) PROVE Back(Old[k])'
      OBVIOUS
    <3>1. wk.i \in 1..Len(Old) /\ Len(Old) \in Nat /\ DOMAIN Old = 1..Len(Old)
      BY <1>0, PlaceType DEF Loops
    <3>2. k \in DOMAIN Old
      BY <3>1
    <3> QED
      BY <2>3, <3>2 DEF Restoring
  <2>5. wk.pc = "undoWait" => \A k \in DOMAIN Old : Back(Old[k])'
    BY <2>3 DEF Restoring
  <2>6. Restored(rev)' /\ (wk.pc = "put" /\ wk.fresh => Restored(wk.copy)')
    BY <1>1, <1>2, <1>3, <2>1 DEF Restoring
  <2> QED
    BY <2>1, <2>2, <2>4, <2>5, <2>6 DEF Restoring
<1>15. ASSUME NEW a \in {"latest", "undo"}, Request(a) PROVE Restoring'
  <2>1. /\ wk'.pc \in {"idle", "put"} /\ ~wk'.fresh
        /\ StateOf(rev') \in {"none", "finished"}
    BY <1>15, RequestRests
  <2> QED
    BY <2>1 DEF Restoring, Restored, StateOf, Latest
<1> QED
  BY <1>7, <1>8, <1>9, <1>10, <1>11, <1>12, <1>13, <1>14, <1>15 DEF Next, Steps, SwapStep

UndoInv == OwnInv /\ ClaimsSeen /\ Named /\ Restoring

\* Only a put takes an entry from the history.
LEMMA RestoresStep ==
    ASSUME UndoInv, [Next]_vars, rev.action = "undo", Len(rev'.reverts) < Len(rev.reverts),
           NEW o \in Range(Latest(rev).old)
    PROVE  pvc[o.claim].bound /\ pvc[o.claim].vol = o.vol /\ pv[o.vol].ref = o.claim
<1>0. /\ TypeOK /\ Restored(rev) /\ OwnAction /\ rev \in Reverts
      /\ ~(Len(rev.reverts) < Len(rev.reverts))
  BY DEF UndoInv, OwnInv, EndsInv, TypeOK, Restoring, Reverts
<1>1. Put
  <2>1. rev'.reverts # rev.reverts
    BY <1>0
  <2>2. ~Starts
    BY <1>0, <2>1, StartsOK DEF revVars
  <2>3. ~SwapStep
    BY <1>0, <2>1, SwapSteps DEF revVars
  <2>4. ~(Pause \/ Paused \/ Unpause \/ Unpaused \/ Reverted \/ Undone)
    BY <2>1 DEF Pause, Paused, Unpause, Unpaused, Reverted, Undone, Bound, revVars
  <2>5. ~(CallLost \/ Timeout \/ Crash \/ SyncRevert \/ Resync \/ Environment \/ UNCHANGED vars)
    BY <2>1 DEF CallLost, Timeout, Crash, SyncRevert, Resync, Environment, Rest, vars, revVars
  <2>6. ~(\E a \in {"latest", "undo"} : Request(a))
    BY <1>0, <2>1 DEF Request, Reverts
  <2> QED
    BY <2>2, <2>3, <2>4, <2>5, <2>6 DEF Next, Steps, SwapStep
<1>2. wk.pc = "put" /\ wk.fresh /\ rev' = wk.copy
  BY <1>0, <1>1, PutOK DEF revVars
<1>3. StateOf(rev) = "undone"
  BY <1>0, <1>2 DEF OwnAction
<1>4. PICK k \in DOMAIN Latest(rev).old : o = Latest(rev).old[k]
  BY DEF Range
<1> QED
  BY <1>0, <1>3, <1>4 DEF Restored, Back

\* UndoRestores holds of every number of claims, snapshots, requests and faults,
\* of every order of recording them, with lost calls and replies, early timeouts
\* and crashes anywhere.  It is assumed that an attempt begins with the resource and
\* the claims as they are, and that the action is not changed halfway.
THEOREM UndoCorrect ==
    ASSUME {"revert", "pvc"} \subseteq Prompt, ~SwitchMidway
    PROVE  Spec => UndoRestores
<1>0. "revert" \in Prompt /\ "pvc" \in Prompt /\ ~SwitchMidway
  OBVIOUS
<1>1. Init => UndoInv
  BY OwnInit, NamedInit, RestoringInit DEF UndoInv, ClaimsSeen, Init, ClusterInit
<1>2. UndoInv /\ [Next]_vars => UndoInv'
  <2>1. ASSUME UndoInv, [Next]_vars PROVE OwnInv' /\ ClaimsSeen' /\ Named' /\ Restoring'
    BY <1>0, <2>1, OwnInvStep, ClaimsSeenStep, NamedStep, RestoringStep DEF UndoInv, OwnInv, EndsInv
  <2> QED
    BY <2>1 DEF UndoInv
<1>3. UndoInv /\ [Next]_vars =>
        [rev.action = "undo" /\ Len(rev'.reverts) < Len(rev.reverts)
           => \A o \in Range(Latest(rev).old) :
                pvc[o.claim].bound /\ pvc[o.claim].vol = o.vol /\ pv[o.vol].ref = o.claim]_vars
  BY RestoresStep
<1> QED
  BY <1>1, <1>2, <1>3, PTL DEF Spec, UndoRestores

----------------------------------------------------------------------------
(* OldVolumesKept: the volumes of recorded claims are never reclaimed *)

\* The cache shows of every volume whether it is there and what its policy is.  Its
\* claimRef may differ: availablePV writes it to the cached object first.
PvSeen ==
    \A v \in Vols : cpv[v].new /\ cpv[v].live = pv[v].live /\ cpv[v].policy = pv[v].policy

\* A volume that the cluster does not reclaim, whoever releases it.
Kept(v) == v \in Vols /\ pv[v].live /\ pv[v].policy = "Retain"

\* The volume of a claim is kept, or bound to the claim; so is the volume of a
\* recorded claim that is there and not to be deleted.
Good(c) ==
    pvc[c].here /\ pvc[c].vol # NoVol =>
      Kept(pvc[c].vol) \/ (pvc[c].bound /\ pv[pvc[c].vol].live /\ pv[pvc[c].vol].ref = c)
Held(o) ==
    /\ o.vol \in Vols
    /\ pvc[o.claim].here /\ pvc[o.claim].bound /\ ~pvc[o.claim].dying /\ pvc[o.claim].vol = o.vol
    /\ pv[o.vol].live /\ pv[o.vol].ref = o.claim

KeptRecs == {o \in Recorded : Kept(o.vol)}
SafeRecs == {o \in Recorded : o.vol = NoVol \/ Kept(o.vol) \/ Held(o)}
KeptWalk == Walk(KeptRecs, SafeRecs)

\* What fixReclaimPolicy and availablePV store.
LEMMA UpdateStores ==
    ASSUME "pv" \in Prompt, ClusterTypeOK, PvSeen, NEW v \in Vols, NEW obj \in CachedPvs, NEW w,
           NEW call, UpdatePV(call, v, obj, w), obj.new, obj.live = pv[v].live, pv[v].live,
           obj.policy = pv[v].policy \/ call \notin FaultyCalls
    PROVE  /\ PvSeen'
           /\ \/ pv' = pv /\ wk' = IdleWk
              \/ pv' = [pv EXCEPT ![v] = [live |-> TRUE, policy |-> obj.policy, ref |-> obj.ref]]
<1> DEFINE stored == [live |-> TRUE, policy |-> obj.policy, ref |-> obj.ref]
           same == stored = pv[v]
<1>0. pv \in [Vols -> Pvs] /\ cpv \in [Vols -> CachedPvs] /\ cpv[v].new /\ pv[v].live
  BY DEF ClusterTypeOK, PvSeen
<1>1. CASE /\ pv' = [pv EXCEPT ![v] = stored]
           /\ cpv' = [cpv EXCEPT ![v] = [obj EXCEPT !.new = same \/ "pv" \in Prompt]]
  <2> DEFINE n == [obj EXCEPT !.new = same \/ "pv" \in Prompt]
  <2>1. n.new /\ n.live /\ n.policy = obj.policy
    BY <1>0 DEF CachedPvs
  <2>2. n.live = stored.live /\ stored.policy = obj.policy
    BY <1>0, <2>1
  <2>3. pv' = [pv EXCEPT ![v] = stored] /\ cpv' = [cpv EXCEPT ![v] = n]
    BY <1>1
  <2> HIDE DEF n, stored
  <2>4. ASSUME NEW u \in Vols
        PROVE  cpv'[u].new /\ cpv'[u].live = pv'[u].live /\ cpv'[u].policy = pv'[u].policy
    <3>1. CASE u = v
      BY <1>0, <2>3, <2>1, <2>2, <3>1
    <3>2. CASE u # v
      BY <1>0, <2>3, <3>2 DEF PvSeen
    <3> QED
      BY <3>1, <3>2
  <2> QED
    BY <2>3, <2>4 DEF PvSeen, stored
<1>2. CASE call \in FaultyCalls /\ Error /\ cpv' = [cpv EXCEPT ![v] = obj] /\ pv' = pv
  <2>1. obj.policy = pv[v].policy
    BY <1>2
  <2> QED
    BY <1>0, <1>2, <2>1 DEF PvSeen, Error
<1> QED
  BY <1>0, <1>1, <1>2 DEF UpdatePV

\* A call that writes a volume leaves it kept.
LEMMA VolumeCalls ==
    ASSUME "pv" \in Prompt, "fix" \notin FaultyCalls, TypeOK, PvSeen, Fix \/ Avail,
           wk.pc = "avail" => Kept(Cur.vol)
    PROVE  /\ PvSeen' /\ UNCHANGED pvcVars
           /\ \/ pv' = pv /\ (Fix /\ wk'.pc = "delete" => Kept(Cur.vol))
              \/ Cur.vol \in Vols /\ \E n \in Pvs : /\ n.live /\ n.policy = "Retain"
                                                   /\ pv' = [pv EXCEPT ![Cur.vol] = n]
<1> DEFINE v == Cur.vol
<1>0. ClusterTypeOK /\ pv \in [Vols -> Pvs] /\ cpv \in [Vols -> CachedPvs] /\ UNCHANGED pvcVars
  BY DEF TypeOK, ClusterTypeOK, Fix, Avail
<1>1. UNCHANGED pvVars => PvSeen' /\ pv' = pv
  BY DEF pvVars, PvSeen
<1>2. wk' = IdleWk => wk'.pc # "delete"
  BY IdleOK
<1>3. ~NoPv(v) => /\ v \in Vols /\ cpv[v].new /\ cpv[v].live /\ pv[v].live
                  /\ cpv[v].policy = pv[v].policy /\ cpv[v] \in CachedPvs
  BY <1>0 DEF NoPv, PvSeen
<1>4. CASE Fix
  <2>1. CASE NoPv(v)
    BY <1>0, <1>1, <1>2, <1>4, <2>1 DEF Fix, Refused, Error
  <2>2. CASE ~NoPv(v) /\ Retained(v)
    BY <1>0, <1>1, <1>3, <1>4, <2>2 DEF Fix, Retained, Kept
  <2>3. CASE ~NoPv(v) /\ ~Retained(v)
    <3> DEFINE obj == [cpv[v] EXCEPT !.policy = "Retain"]
    <3>1. UpdatePV("fix", v, obj, Goto("delete"))
      BY <1>4, <2>3 DEF Fix
    <3>2. /\ obj \in CachedPvs /\ obj.new /\ obj.live = pv[v].live /\ obj.policy = "Retain"
      BY <1>3, <2>3 DEF CachedPvs
    <3>3. [live |-> TRUE, policy |-> obj.policy, ref |-> obj.ref] \in Pvs
      BY <3>2 DEF Pvs, CachedPvs
    <3> HIDE DEF obj
    <3>4. /\ PvSeen'
          /\ \/ pv' = pv /\ wk' = IdleWk
             \/ pv' = [pv EXCEPT ![v] = [live |-> TRUE, policy |-> obj.policy, ref |-> obj.ref]]
      BY <1>0, <1>3, <2>3, <3>1, <3>2, UpdateStores
    <3>5. CASE pv' = pv /\ wk' = IdleWk
      BY <1>0, <1>2, <3>4, <3>5
    <3>6. CASE pv' = [pv EXCEPT ![v] = [live |-> TRUE, policy |-> obj.policy, ref |-> obj.ref]]
      BY <1>0, <1>3, <2>3, <3>2, <3>3, <3>4, <3>6
    <3> QED
      BY <3>4, <3>5, <3>6
  <2> QED
    BY <2>1, <2>2, <2>3
<1>5. CASE Avail
  <2>0. wk.pc = "avail" /\ Kept(v) /\ ~Fix
    BY <1>5 DEF Avail, Fix
  <2>1. CASE NoPv(v)
    BY <1>0, <1>1, <1>5, <2>0, <2>1 DEF Avail
  <2>2. CASE ~NoPv(v)
    <3> DEFINE obj == Freed(cpv[v])
    <3>1. UpdatePV("avail", v, obj, NextClaim("fix", "create"))
      BY <1>5, <2>2 DEF Avail
    <3>2. /\ obj \in CachedPvs /\ obj.new /\ obj.live = pv[v].live /\ obj.policy = pv[v].policy
      BY <1>3, <2>2 DEF CachedPvs, Freed
    <3>3. [live |-> TRUE, policy |-> obj.policy, ref |-> obj.ref] \in Pvs
      BY <3>2 DEF Pvs, CachedPvs
    <3> HIDE DEF obj
    <3>4. /\ PvSeen'
          /\ \/ pv' = pv /\ wk' = IdleWk
             \/ pv' = [pv EXCEPT ![v] = [live |-> TRUE, policy |-> obj.policy, ref |-> obj.ref]]
      BY <1>0, <1>3, <2>2, <3>1, <3>2, UpdateStores
    <3>5. obj.policy = "Retain"
      BY <2>0, <3>2 DEF Kept
    <3>6. CASE pv' = [pv EXCEPT ![v] = [live |-> TRUE, policy |-> obj.policy, ref |-> obj.ref]]
      BY <1>0, <1>3, <2>2, <3>3, <3>4, <3>5, <3>6
    <3> QED
      BY <1>0, <2>0, <3>4, <3>6
  <2> QED
    BY <2>1, <2>2
<1> QED
  BY <1>4, <1>5

LEMMA CurKept ==
    ASSUME TypeOK, KeptWalk, wk.pc \in {"delete", "avail"}
    PROVE  Kept(Cur.vol)
<1>1. wk.i \in 1..Len(Old) /\ Cur = Old[wk.i]
  BY PlaceType DEF Loops
<1> QED
  BY <1>1 DEF KeptWalk, Walk, KeptRecs

\* A recorded claim that an undo makes again: its entry is not in progress.
LEMMA UndoKept ==
    ASSUME TypeOK, OwnAction, KeptWalk, wk.pc \in {"undoDelete", "undoCreate"}
    PROVE  Kept(Cur.vol)
<1>1. wk.i \in DOMAIN Old /\ Cur = Old[wk.i]
  BY PlaceType DEF Loops
<1>2. wk.copy = rev /\ ~Replacing(rev) /\ rev.reverts # <<>>
  BY CopyType DEF OwnAction, UndoSteps, Replacing
<1>3. PICK S, T : S = KeptRecs /\ T = SafeRecs
  OBVIOUS
<1>4. Walk(S, T)
  BY <1>3 DEF KeptWalk
<1>5. EntryIn(Latest(rev), S)
  BY <1>2, <1>4, WalkLatest
<1> QED
  BY <1>1, <1>2, <1>3, <1>5 DEF EntryIn, Old, KeptRecs

\* What one step writes: the volume of the current claim, kept from now on;
\* a claim gone or marked; a claim made; or what the cluster does.
Gone(c) ==
    /\ pvc[c].here /\ pvc' = [pvc EXCEPT ![c] = NoPvc]
    /\ \/ pv' = pv
       \/ pv[pvc[c].vol].ref = c /\ pv' = [pv EXCEPT ![pvc[c].vol].ref = "released"]
Made(c, p) == ~pvc[c].here /\ pvc' = [pvc EXCEPT ![c] = p] /\ pv' = pv
KeptNow == /\ wk.pc \in {"fix", "avail"} /\ Cur.vol \in Vols /\ pvc' = pvc
           /\ \E n \in Pvs : n.live /\ n.policy = "Retain" /\ pv' = [pv EXCEPT ![Cur.vol] = n]
Swapped ==
    \/ wk.pc \in {"delete", "undoDelete"} /\ Gone(Cur.claim)
    \/ /\ wk.pc \in {"delete", "undoDelete"} /\ pvc[Cur.claim].here
       /\ pvc' = [pvc EXCEPT ![Cur.claim].dying = TRUE] /\ pv' = pv
    \/ \E p \in Pvcs : Made(Cur.claim, p) /\ ~p.dying /\ (p.vol = NoVol \/ Kept(p.vol))
       /\ wk.pc \in {"create", "undoCreate"}
ByCluster(c) ==
    \/ pvc[c].dying /\ Gone(c)
    \/ Made(c, Blank)
    \/ \E v \in Vols :
         /\ pvc[c].here /\ ~pvc[c].bound /\ ~pvc[c].dying /\ pvc' = [pvc EXCEPT ![c].bound = TRUE, ![c].vol = v]
         /\ \/ /\ pv[v].live /\ pv[v].ref = "free" /\ (v = pvc[c].vol \/ pvc[c].vol = NoVol)
               /\ pv' = [pv EXCEPT ![v].ref = c]
            \/ /\ pvc[c].vol = NoVol /\ ~pv[v].live /\ \A d \in Claims : v # pvc[d].vol
               /\ pv' = [pv EXCEPT ![v] = [live |-> TRUE, policy |-> "Delete", ref |-> c]]
    \/ /\ pvc' = pvc /\ pvc[c].bound /\ pv[pvc[c].vol].ref = "free"
       /\ pv' = [pv EXCEPT ![pvc[c].vol].ref = c]
Reclaimed(v) ==
    /\ pv[v].policy = "Delete" /\ pv[v].ref = "released" /\ pvc' = pvc
    /\ pv' = [pv EXCEPT ![v].live = FALSE]

LEMMA ReleaseGone ==
    ASSUME NEW c, pvc[c].here, Release(c)
    PROVE  Gone(c)
  BY DEF Release, SetPvc, SetPv, pvVars, Gone

LEMMA Writes ==
    ASSUME "pv" \in Prompt, "fix" \notin FaultyCalls, TypeOK, OwnAction, PvSeen, KeptWalk, [Next]_vars
    PROVE  \/ pvc' = pvc /\ pv' = pv
           \/ KeptNow
           \/ Swapped
           \/ \E c \in Claims : ByCluster(c)
           \/ \E v \in Vols : Reclaimed(v)
<1>1. CASE Still \/ Crash
  BY <1>1 DEF Still, Crash
<1>2. CASE SwapStep
  <2>0. Cur \in Recorded
    BY <1>2, SwapSteps, CurType
  <2>1. CASE UNCHANGED <<pvcVars, pvVars>>
    BY <2>1 DEF pvcVars, pvVars
  <2>2. CASE Fix \/ Avail
    <3>1. wk.pc \in {"fix", "avail"} /\ (wk.pc = "avail" => Kept(Cur.vol))
      BY <2>2, CurKept DEF Fix, Avail
    <3> QED
      BY <2>2, <3>1, VolumeCalls DEF KeptNow, pvcVars
  <2>3. CASE /\ Delete \/ UndoDelete
             /\ pvc[Cur.claim].here
             /\ Release(Cur.claim) \/ (SetPvc([pvc EXCEPT ![Cur.claim].dying = TRUE]) /\ UNCHANGED pvVars)
    <3>1. wk.pc \in {"delete", "undoDelete"}
      BY <2>3 DEF Delete, UndoDelete
    <3> QED
      BY <2>3, <3>1, ReleaseGone DEF Swapped, SetPvc, pvVars
  <2>4. CASE /\ Create /\ ~pvc[Cur.claim].here /\ UNCHANGED pvVars
             /\ SetPvc([pvc EXCEPT ![Cur.claim] = AttachSnapshot(wk.sel[Cur.claim])])
    <3>1. wk.sel[Cur.claim] \in 0..MaxSnaps
      BY <2>0 DEF TypeOK, WorkerOK, Workers, Recorded
    <3>2. /\ AttachSnapshot(wk.sel[Cur.claim]) \in Pvcs /\ ~AttachSnapshot(wk.sel[Cur.claim]).dying
          /\ AttachSnapshot(wk.sel[Cur.claim]).vol = NoVol
      BY <3>1 DEF AttachSnapshot, NoPvc, Pvcs
    <3>3. Made(Cur.claim, AttachSnapshot(wk.sel[Cur.claim])) /\ wk.pc = "create"
      BY <2>4 DEF Made, SetPvc, pvVars, Create
    <3> QED
      BY <3>2, <3>3 DEF Swapped
  <2>5. CASE /\ UndoCreate /\ ~pvc[Cur.claim].here /\ UNCHANGED pvVars
             /\ SetPvc([pvc EXCEPT ![Cur.claim] = Undo(Cur.vol)])
    <3>1. wk.pc = "undoCreate" /\ Kept(Cur.vol)
      BY <2>5, UndoKept DEF UndoCreate
    <3>2. Undo(Cur.vol) \in Pvcs /\ ~Undo(Cur.vol).dying /\ Undo(Cur.vol).vol = Cur.vol
      <4>1. ASSUME NEW v \in Vols \cup {NoVol}
            PROVE  Undo(v) \in Pvcs /\ ~Undo(v).dying /\ Undo(v).vol = v
        <5>1. NoPvc \in Pvcs /\ ~NoPvc.dying
          BY NoPvcType DEF NoPvc
        <5> QED
          BY <5>1 DEF Undo, Pvcs
      <4> QED
        BY <2>0, <4>1 DEF Recorded
    <3>3. Made(Cur.claim, Undo(Cur.vol))
      BY <2>5 DEF Made, SetPvc, pvVars
    <3> QED
      BY <3>1, <3>2, <3>3 DEF Swapped
  <2> QED
    BY <1>2, <2>1, <2>2, <2>3, <2>4, <2>5, SwapWrites
<1>3. CASE Environment
  <2>1. CASE pvc' = pvc /\ pv' = pv
    BY <2>1
  <2>2. ASSUME NEW c \in Claims, ~pvc[c].here, SetPvc([pvc EXCEPT ![c] = Blank]), pv' = pv
        PROVE  ByCluster(c)
    BY <2>2 DEF ByCluster, Made, SetPvc
  <2>3. ASSUME NEW c \in Claims, pvc[c].here, pvc[c].dying, Release(c)
        PROVE  ByCluster(c)
    BY <2>3, ReleaseGone DEF ByCluster
  <2>4. ASSUME NEW c \in Claims, BindFree(c)
        PROVE  ByCluster(c)
    BY <2>4 DEF ByCluster, BindFree, Unbound, Free, BindTo, SetPvc, SetPv
  <2>5. ASSUME NEW c \in Claims, Provision(c, Taken)
        PROVE  ByCluster(c)
    <3>1. PICK v \in UnusedVols(Taken) :
            /\ pvc' = [pvc EXCEPT ![c].bound = TRUE, ![c].vol = v]
            /\ pv' = [pv EXCEPT ![v] = [live |-> TRUE, policy |-> "Delete", ref |-> c]]
      BY <2>5 DEF Provision, BindTo, SetPvc, SetPv
    <3> QED
      BY <2>5, <3>1 DEF ByCluster, Provision, Unbound, UnusedVols
  <2>6. ASSUME NEW c \in Claims, Rebind(c)
        PROVE  ByCluster(c)
    BY <2>6 DEF ByCluster, Rebind, SetPv, pvcVars
  <2>7. ASSUME NEW v \in Vols, Reclaim(v)
        PROVE  Reclaimed(v)
    BY <2>7 DEF Reclaimed, Reclaim, SetPv, pvcVars
  <2> QED
    BY <1>3, <2>1, <2>2, <2>3, <2>4, <2>5, <2>6, <2>7, ClusterWrites DEF TypeOK
<1> QED
  BY <1>1, <1>2, <1>3, OnlySwapsWrite

\* A volume once kept stays kept.
LEMMA KeptStays ==
    ASSUME "pv" \in Prompt, "fix" \notin FaultyCalls, TypeOK, OwnAction, PvSeen, KeptWalk, [Next]_vars,
           NEW v, Kept(v)
    PROVE  Kept(v)'
<1>0. pv \in [Vols -> Pvs] /\ v \in Vols /\ pv[v].live /\ pv[v].policy = "Retain" /\ pv[v] \in Pvs
  BY DEF TypeOK, ClusterTypeOK, Kept
<1> SUFFICES pv'[v].live /\ pv'[v].policy = "Retain"
  BY <1>0 DEF Kept
<1>1. CASE pvc' = pvc /\ pv' = pv
  BY <1>0, <1>1
<1>2. CASE KeptNow
  BY <1>0, <1>2 DEF KeptNow
<1>3. ASSUME NEW c, Gone(c)
      PROVE  pv'[v].live /\ pv'[v].policy = "Retain"
  BY <1>0, <1>3 DEF Gone, Pvs
<1>4. CASE Swapped
  BY <1>0, <1>3, <1>4 DEF Swapped, Made
<1>5. ASSUME NEW c \in Claims, ByCluster(c)
      PROVE  pv'[v].live /\ pv'[v].policy = "Retain"
  <2>1. CASE \E u \in Vols :
               /\ pvc' = [pvc EXCEPT ![c].bound = TRUE, ![c].vol = u]
               /\ \/ pv' = [pv EXCEPT ![u].ref = c]
                  \/ ~pv[u].live /\ pv' = [pv EXCEPT ![u] = [live |-> TRUE, policy |-> "Delete", ref |-> c]]
    BY <1>0, <2>1 DEF Pvs
  <2>2. CASE pv' = [pv EXCEPT ![pvc[c].vol].ref = c]
    BY <1>0, <2>2 DEF Pvs
  <2> QED
    BY <1>0, <1>3, <1>5, <2>1, <2>2 DEF ByCluster, Made
<1>6. ASSUME NEW u \in Vols, Reclaimed(u)
      PROVE  pv'[v].live /\ pv'[v].policy = "Retain"
  BY <1>0, <1>6 DEF Reclaimed, Pvs
<1> QED
  BY <1>1, <1>2, <1>4, <1>5, <1>6, Writes

LEMMA GoodStays ==
    ASSUME "pv" \in Prompt, "fix" \notin FaultyCalls, TypeOK, OwnAction, PvSeen, KeptWalk, [Next]_vars,
           NEW c \in Claims, Good(c)
    PROVE  Good(c)'
<1>0. /\ pv \in [Vols -> Pvs] /\ pvc \in [Claims -> Pvcs] /\ c \notin {"free", "released"}
      /\ NoVol \notin Vols /\ pvc[c].vol \in Vols \cup {NoVol}
  BY ClusterAssumption DEF TypeOK, ClusterTypeOK, Pvcs
<1>1. \A v : Kept(v) => Kept(v)'
  BY KeptStays
<1> DEFINE u == pvc[c].vol
           Mine == pvc[c].bound /\ pv[u].live /\ pv[u].ref = c
           MineNext == pvc'[c].bound /\ pv'[u].live /\ pv'[u].ref = c
<1>2. ASSUME pvc'[c] = pvc[c], u \in Vols /\ Mine => MineNext \/ Kept(u)'
      PROVE  Good(c)'
  BY <1>0, <1>1, <1>2 DEF Good
<1>3. CASE pvc' = pvc /\ pv' = pv
  BY <1>2, <1>3
<1>4. CASE KeptNow
  <2>1. PICK n \in Pvs : n.live /\ n.policy = "Retain" /\ pv' = [pv EXCEPT ![Cur.vol] = n]
    BY <1>4 DEF KeptNow
  <2>2. u = Cur.vol => Kept(u)'
    BY <1>0, <1>4, <2>1 DEF KeptNow, Kept
  <2>3. u # Cur.vol => pv'[u] = pv[u]
    BY <1>0, <2>1
  <2> QED
    BY <1>2, <1>4, <2>2, <2>3 DEF KeptNow
<1>5. ASSUME NEW d, Gone(d)
      PROVE  Good(c)'
  <2>1. CASE c = d
    BY <1>0, <1>5, <2>1 DEF Gone, Good, NoPvc
  <2>2. CASE c # d
    BY <1>0, <1>2, <1>5, <2>2 DEF Gone, Pvs
  <2> QED
    BY <2>1, <2>2
<1>6. ASSUME NEW d, NEW p, Made(d, p), p.vol = NoVol \/ Kept(p.vol)
      PROVE  Good(c)'
  <2>1. CASE c = d
    <3>1. pvc'[c] = p
      BY <1>0, <1>6, <2>1 DEF Made
    <3> QED
      BY <1>1, <1>6, <3>1 DEF Good
  <2>2. CASE c # d
    BY <1>0, <1>2, <1>6, <2>2 DEF Made
  <2> QED
    BY <2>1, <2>2
<1>7. CASE Swapped
  <2>1. CASE pvc' = [pvc EXCEPT ![Cur.claim].dying = TRUE] /\ pv' = pv
    <3>1. /\ pvc'[c].here = pvc[c].here /\ pvc'[c].vol = pvc[c].vol /\ pvc'[c].bound = pvc[c].bound
      BY <1>0, <2>1 DEF Pvcs
    <3> QED
      BY <1>1, <2>1, <3>1 DEF Good
  <2> QED
    BY <1>5, <1>6, <1>7, <2>1 DEF Swapped
<1>8. ASSUME NEW d \in Claims, ByCluster(d)
      PROVE  Good(c)'
  <2>1. ASSUME NEW v \in Vols, pvc' = [pvc EXCEPT ![d].bound = TRUE, ![d].vol = v],
               ~pvc[d].bound,
               \/ pv[v].live /\ pv[v].ref = "free" /\ pv' = [pv EXCEPT ![v].ref = d]
               \/ /\ \A e \in Claims : v # pvc[e].vol
                  /\ pv' = [pv EXCEPT ![v] = [live |-> TRUE, policy |-> "Delete", ref |-> d]]
        PROVE  Good(c)'
    <3>1. CASE c = d
      <4>1. pvc'[c].vol = v /\ pvc'[c].bound /\ pv'[v].live /\ pv'[v].ref = c
        BY <1>0, <2>1, <3>1 DEF Pvcs, Pvs
      <4> QED
        BY <4>1 DEF Good
    <3>2. CASE c # d
      BY <1>0, <1>2, <2>1, <3>2 DEF Pvs
    <3> QED
      BY <3>1, <3>2
  <2>2. CASE pvc' = pvc /\ pv[pvc[d].vol].ref = "free" /\ pv' = [pv EXCEPT ![pvc[d].vol].ref = d]
    BY <1>0, <1>2, <2>2 DEF Pvs
  <2>3. Blank.vol = NoVol
    BY NoPvcType DEF Blank, Pvcs
  <2> QED
    BY <1>5, <1>6, <1>8, <2>1, <2>2, <2>3 DEF ByCluster
<1>9. ASSUME NEW v \in Vols, Reclaimed(v)
      PROVE  Good(c)'
  BY <1>0, <1>2, <1>9 DEF Reclaimed, Pvs
<1> QED
  BY <1>3, <1>4, <1>7, <1>8, <1>9, Writes

\* A recorded claim that no step of this kind deletes is held, or its volume kept.
LEMMA HeldStays ==
    ASSUME "pv" \in Prompt, "fix" \notin FaultyCalls, TypeOK, OwnAction, PvSeen, KeptWalk, [Next]_vars,
           NEW o \in Recorded, Held(o), ~(wk.pc \in {"delete", "undoDelete"} /\ Cur.claim = o.claim)
    PROVE  Held(o)' \/ Kept(o.vol)'
<1> DEFINE c == o.claim
           u == o.vol
<1>0. /\ pv \in [Vols -> Pvs] /\ pvc \in [Claims -> Pvcs] /\ c \in Claims /\ c \notin {"free", "released"}
      /\ u \in Vols /\ u # NoVol /\ pvc[c].here /\ pvc[c].bound /\ ~pvc[c].dying /\ pvc[c].vol = u
      /\ pv[u].live /\ pv[u].ref = c
  BY ClusterAssumption DEF TypeOK, ClusterTypeOK, Held, Recorded
<1>1. ASSUME pvc'[c] = pvc[c], pv'[u].live, pv'[u].ref = c
      PROVE  Held(o)'
  BY <1>0, <1>1 DEF Held
<1>2. CASE pvc' = pvc /\ pv' = pv
  BY <1>0, <1>1, <1>2
<1>3. CASE KeptNow
  <2>1. PICK n \in Pvs : n.live /\ n.policy = "Retain" /\ pv' = [pv EXCEPT ![Cur.vol] = n]
    BY <1>3 DEF KeptNow
  <2>2. CASE u = Cur.vol
    BY <1>0, <1>3, <2>1, <2>2 DEF KeptNow, Kept
  <2>3. CASE u # Cur.vol
    BY <1>0, <1>1, <1>3, <2>1, <2>3 DEF KeptNow
  <2> QED
    BY <2>2, <2>3
<1>4. ASSUME NEW d, d # c, Gone(d)
      PROVE  Held(o)'
  BY <1>0, <1>1, <1>4 DEF Gone, Pvs
<1>5. ASSUME NEW d, NEW p, Made(d, p)
      PROVE  Held(o)'
  BY <1>0, <1>1, <1>5 DEF Made
<1>6. CASE Swapped
  <2>1. CASE pvc' = [pvc EXCEPT ![Cur.claim].dying = TRUE] /\ pv' = pv /\ Cur.claim # c
    BY <1>0, <1>1, <2>1
  <2> QED
    BY <1>4, <1>5, <1>6, <2>1 DEF Swapped
<1>7. ASSUME NEW d \in Claims, ByCluster(d)
      PROVE  Held(o)'
  <2>1. ASSUME NEW v \in Vols, pvc' = [pvc EXCEPT ![d].bound = TRUE, ![d].vol = v], ~pvc[d].bound,
               \/ pv[v].ref = "free" /\ pv' = [pv EXCEPT ![v].ref = d]
               \/ /\ \A e \in Claims : v # pvc[e].vol
                  /\ pv' = [pv EXCEPT ![v] = [live |-> TRUE, policy |-> "Delete", ref |-> d]]
        PROVE  Held(o)'
    BY <1>0, <1>1, <2>1 DEF Pvs
  <2>2. CASE pvc' = pvc /\ pv[pvc[d].vol].ref = "free" /\ pv' = [pv EXCEPT ![pvc[d].vol].ref = d]
    BY <1>0, <1>1, <2>2 DEF Pvs
  <2>3. pvc[d].dying => d # c
    BY <1>0
  <2> QED
    BY <1>4, <1>5, <1>7, <2>1, <2>2, <2>3 DEF ByCluster
<1>8. ASSUME NEW v \in Vols, Reclaimed(v)
      PROVE  Held(o)'
  BY <1>0, <1>1, <1>8 DEF Reclaimed, Pvs
<1> QED
  BY <1>2, <1>3, <1>6, <1>7, <1>8, Writes

LEMMA SetPvSees ==
    ASSUME "pv" \in Prompt, PvSeen, NEW f, SetPv(f)
    PROVE  PvSeen'
<1> SUFFICES ASSUME NEW v \in Vols
             PROVE  cpv'[v].new /\ cpv'[v].live = pv'[v].live /\ cpv'[v].policy = pv'[v].policy
  BY DEF PvSeen
<1>1. pv' = f /\ cpv'[v] = IF f[v] = pv[v] THEN cpv[v] ELSE Cached(f[v], TRUE)
  BY DEF SetPv
<1> QED
  BY <1>1 DEF PvSeen, Cached

LEMMA PvSeenStep ==
    ASSUME "pv" \in Prompt, "fix" \notin FaultyCalls, TypeOK, PvSeen, KeptWalk, [Next]_vars
    PROVE  PvSeen'
<1>1. UNCHANGED pvVars => PvSeen'
  BY DEF pvVars, PvSeen
<1>2. ASSUME NEW f, SetPv(f) PROVE PvSeen'
  BY <1>2, SetPvSees
<1>3. CASE Still
  BY <1>3 DEF Still, PvSeen
<1>4. CASE Crash
  BY <1>4 DEF Crash, PvSeen, Cached
<1>5. CASE SwapStep
  <2>1. CASE Fix \/ Avail
    <3>1. wk.pc = "avail" => Kept(Cur.vol)
      BY CurKept
    <3> QED
      BY <2>1, <3>1, VolumeCalls
  <2>2. ASSUME NEW c, Release(c) PROVE PvSeen'
    BY <1>1, <1>2, <2>2 DEF Release
  <2> QED
    BY <1>1, <1>5, <2>1, <2>2, SwapWrites
<1>6. CASE Environment
  <2>1. CASE Sync
    BY <1>1, <2>1 DEF Sync, SyncSts, SyncPod, SyncPvc, SyncPv, PvSeen, Cached
  <2>2. ASSUME NEW c \in Claims,
               CreatePod(c) \/ RunPod(c) \/ DeletePod(c) \/ TakeSnapshot(c)
        PROVE  PvSeen'
    BY <1>1, <2>2 DEF CreatePod, RunPod, DeletePod, TakeSnapshot
  <2>3. ASSUME NEW c \in Claims, RemovePvc(c)
        PROVE  PvSeen'
    BY <1>1, <1>2, <2>3 DEF RemovePvc, Release
  <2>4. ASSUME NEW c \in Claims, BindFree(c) \/ Provision(c, Taken) \/ Rebind(c)
        PROVE  PvSeen'
    BY <1>2, <2>4 DEF BindFree, Provision, Rebind
  <2>5. ASSUME NEW v \in Vols, Reclaim(v)
        PROVE  PvSeen'
    BY <1>2, <2>5 DEF Reclaim
  <2> QED
    BY <1>6, <2>1, <2>2, <2>3, <2>4, <2>5 DEF Environment, Controllers
<1> QED
  BY <1>3, <1>4, <1>5, <1>6, OnlySwapsWrite

\* A claim that lingers is one that the worker, or its next attempt, makes again:
\* the entry in progress records it.
Doomed(c) ==
    /\ StateOf(rev) = "paused" /\ wk.pc \in {"idle"} \cup Loops
    /\ \E k \in DOMAIN Latest(rev).old :
         /\ Latest(rev).old[k].claim = c
         /\ wk.pc \in {"create", "undoCreate"} => k >= wk.i
DyingDoomed == \A c \in Claims : pvc[c].dying => Doomed(c)

\* Only the worker makes a claim linger.
LEMMA DyingBefore ==
    ASSUME "pv" \in Prompt, "fix" \notin FaultyCalls, OwnInv, PvSeen, KeptWalk, DyingDoomed, [Next]_vars,
           NEW c \in Claims, pvc'[c].dying
    PROVE  Doomed(c)
<1>0. TypeOK /\ OwnAction /\ InStep /\ pvc \in [Claims -> Pvcs]
  BY DEF OwnInv, EndsInv, TypeOK, ClusterTypeOK
<1>1. pvc[c].dying \/ (wk.pc \in {"delete", "undoDelete"} /\ c = Cur.claim)
  <2>1. ~NoPvc.dying /\ ~Blank.dying
    BY DEF NoPvc, Blank
  <2>2. CASE Swapped
    BY <1>0, <2>1, <2>2 DEF Swapped, Gone, Made
  <2>3. ASSUME NEW d \in Claims, ByCluster(d) PROVE pvc[c].dying
    BY <1>0, <2>1, <2>3 DEF ByCluster, Gone, Made, Pvcs
  <2> QED
    BY <1>0, <2>2, <2>3, Writes DEF KeptNow, Reclaimed
<1>2. CASE wk.pc \in {"delete", "undoDelete"} /\ c = Cur.claim
  <2>1. wk.pc \in Loops /\ wk.pc \in Swapping /\ wk.pc \notin {"idle", "put"}
    BY <1>2 DEF Loops, Swapping
  <2>2. wk.i \in DOMAIN Old /\ Cur = Old[wk.i]
    BY <1>0, <2>1, PlaceType
  <2>3. wk.copy = rev /\ StateOf(rev) = "paused"
    BY <1>0, <2>1 DEF OwnAction, InStep
  <2> QED
    BY <1>2, <2>1, <2>2, <2>3 DEF Doomed, Old
<1> QED
  BY <1>1, <1>2 DEF DyingDoomed

LEMMA MadeAlive ==
    \A s, v : ~AttachSnapshot(s).dying /\ ~Undo(v).dying
<1>1. NoPvc \in Pvcs /\ ~NoPvc.dying
  BY NoPvcType DEF NoPvc
<1> QED
  BY <1>1 DEF AttachSnapshot, Undo, Pvcs

LEMMA DoomedStep ==
    ASSUME "pv" \in Prompt, "fix" \notin FaultyCalls, ~SwitchMidway, OwnInv, PvSeen, KeptWalk, DyingDoomed,
           [Next]_vars
    PROVE  DyingDoomed'
<1> SUFFICES ASSUME NEW c \in Claims, pvc'[c].dying
             PROVE  Doomed(c)'
  BY DEF DyingDoomed
<1>0. /\ TypeOK /\ OwnAction /\ InStep /\ Seen
      /\ StateOf(rev) = "paused" /\ wk.pc \in {"idle"} \cup Loops
  BY DyingBefore DEF OwnInv, EndsInv, Doomed
<1>1. PICK k \in DOMAIN Latest(rev).old :
        Latest(rev).old[k].claim = c /\ (wk.pc \in {"create", "undoCreate"} => k >= wk.i)
  BY DyingBefore DEF Doomed
<1>2. ASSUME rev' = rev, wk'.pc \in {"idle"} \cup Loops,
             wk'.pc \in {"create", "undoCreate"} => k >= wk'.i
      PROVE  Doomed(c)'
  <2>1. Latest(rev') = Latest(rev) /\ StateOf(rev') = "paused"
    BY <1>0, <1>2
  <2> QED
    BY <1>1, <1>2, <2>1 DEF Doomed
<1>3. wk' = IdleWk => wk'.pc = "idle"
  BY IdleOK
<1>4. CASE Starts
  <2>1. rev' = rev /\ crev = rev /\ wk.pc = "idle"
    BY <1>0, <1>4, StartsOK DEF revVars, Seen, Starts, StartNothing, StartInit, StartPause, StartRevert,
                                StartUndo, StartUnpause, StartRejected, Start
  <2>2. ~(StartNothing \/ StartInit \/ StartPause \/ StartUnpause)
    BY <1>0, <2>1 DEF StartNothing, StartInit, StartPause, StartUnpause, NeedsEntry, Undoing, OwnAction,
                      StateOf
  <2>3. CASE StartRevert \/ StartUndo
    <3>1. Latest(rev).old # <<>>
      BY <1>1
    <3>2. wk'.pc \in {"fix", "undoDelete"}
      BY <1>0, <2>1, <2>3, <3>1, StartMoves
    <3> QED
      BY <1>2, <2>1, <3>2 DEF Loops
  <2>4. CASE StartRejected
    BY <1>2, <2>1, <2>4 DEF StartRejected, vars, wkVars
  <2> QED
    BY <1>4, <2>2, <2>3, <2>4 DEF Starts
<1>5. CASE SwapStep
  <2>0. /\ rev' = rev /\ wk.pc \in Loops /\ wk.pc \notin {"idle", "put"}
    BY <1>0, <1>5, SwapSteps DEF revVars, Loops
  <2>1. wk.copy = rev
    BY <1>0, <2>0 DEF OwnAction
  <2>2. /\ wk.i \in 1..Len(Old) /\ Len(Old) \in Nat /\ DOMAIN Old = 1..Len(Old)
        /\ Cur = Old[wk.i] /\ Cur \in Recorded
    BY <1>0, <2>0, PlaceType
  <2>3. k \in 1..Len(Old) /\ Old[k].claim = c
    BY <1>1, <2>1, <2>2 DEF Old
  <2>4. CASE wk' = IdleWk
    BY <1>2, <1>3, <2>0, <2>4
  <2>5. CASE At("delete", wk.i) \/ At("avail", wk.i)
    BY <1>2, <2>0, <2>5 DEF At, Loops
  <2>6. CASE Onward("fix", "create") \/ Onward("undoDelete", "undoCreate")
    <3>1. \/ wk'.pc \in {"fix", "undoDelete"}
          \/ wk'.pc \in {"create", "undoCreate"} /\ wk'.i = 1
      BY <2>6 DEF Onward, At
    <3>2. k >= 1
      BY <2>2, <2>3
    <3> QED
      BY <1>2, <2>0, <3>1, <3>2 DEF Loops
  <2>7. CASE \/ Create /\ wk.pc = "create" /\ Onward("create", "bindWait")
             \/ UndoCreate /\ wk.pc = "undoCreate" /\ Onward("undoCreate", "undoWait")
    <3>1. wk' # IdleWk
      BY <1>3, <2>7 DEF Onward, At
    <3>2. PICK p : pvc' = [pvc EXCEPT ![Cur.claim] = p] /\ ~p.dying
      <4>1. CASE Create
        <5>1. pvc' = [pvc EXCEPT ![Cur.claim] = AttachSnapshot(wk.sel[Cur.claim])]
          BY <3>1, <4>1 DEF Create, CreatePVC, Refused, Error, SetPvc
        <5> QED
          BY <5>1, MadeAlive
      <4>2. CASE UndoCreate
        <5>1. pvc' = [pvc EXCEPT ![Cur.claim] = Undo(Cur.vol)]
          BY <3>1, <4>2 DEF UndoCreate, CreatePVC, Refused, Error, SetPvc
        <5> QED
          BY <5>1, MadeAlive
      <4> QED
        BY <2>7, <4>1, <4>2
    <3>3. c # Cur.claim
      BY <1>0, <3>2 DEF TypeOK, ClusterTypeOK
    <3>4. k >= wk.i /\ k # wk.i
      BY <1>1, <2>2, <2>3, <2>7, <3>3
    <3>5. k >= wk.i + 1 /\ wk.i # Len(Old)
      BY <2>2, <2>3, <3>4
    <3>6. wk'.pc \in {"create", "undoCreate"} /\ wk'.i = wk.i + 1
      BY <2>7, <3>5 DEF Onward, At
    <3> QED
      BY <1>2, <2>0, <3>5, <3>6 DEF Loops
  <2> QED
    BY <1>0, <1>5, <2>4, <2>5, <2>6, <2>7, SwapMoves
<1>6. ~(Pause \/ Paused \/ Unpause \/ Unpaused \/ Reverted \/ Undone \/ Put)
  BY <1>0 DEF Pause, Paused, Unpause, Unpaused, Reverted, Undone, Bound, Put, Loops
<1>7. CASE CallLost \/ Timeout \/ Crash
  <2>1. wk' = IdleWk /\ rev' = rev
    BY <1>7 DEF CallLost, Timeout, Crash, Error, revVars
  <2> QED
    BY <1>2, <1>3, <2>1
<1>8. CASE SyncRevert \/ Resync \/ Environment \/ UNCHANGED vars
  <2>1. wk' = wk /\ rev' = rev
    BY <1>8 DEF SyncRevert, Resync, Environment, Rest, vars, revVars, wkVars
  <2> QED
    BY <1>0, <1>1, <1>2, <2>1
<1>9. ~(\E a \in {"latest", "undo"} : Request(a))
  BY <1>0, RequestRests
<1> QED
  BY <1>4, <1>5, <1>6, <1>7, <1>8, <1>9 DEF Next, Steps, SwapStep

AllGood == \A c \in Claims : Good(c)
KeptInv == OwnInv /\ ClaimsSeen /\ PvSeen /\ AllGood /\ DyingDoomed /\ KeptWalk

LEMMA KeptInit == Init => KeptInv
<1> SUFFICES ASSUME Init PROVE KeptInv
  OBVIOUS
<1>0. /\ rev.reverts = <<>> /\ wk.pc = "idle" /\ ClusterInit
      /\ pvc = [c \in Claims |-> [NoPvc EXCEPT !.here = TRUE, !.vol = Orig[c], !.bound = TRUE]]
  BY DEF Init, IdleWk, ClusterInit
<1>1. OwnInv /\ TypeOK
  BY OwnInit, TypeInit
<1>2. ClaimsSeen /\ PvSeen
  BY <1>0 DEF ClusterInit, ClaimsSeen, PvSeen, Cached
<1>3. ASSUME NEW c \in Claims PROVE Good(c) /\ ~pvc[c].dying
  <2>1. /\ Orig[c] \in Vols /\ Orig[c] \in Range(Orig) /\ NoPvc \in Pvcs /\ ~NoPvc.dying
    BY NoPvcType, ClusterAssumption DEF Range, NoPvc
  <2>2. pvc[c].bound /\ pvc[c].vol = Orig[c] /\ ~pvc[c].dying
    BY <1>0, <2>1 DEF Pvcs
  <2>3. (CHOOSE d \in Claims : Orig[d] = Orig[c]) = c
    BY ClusterAssumption
  <2>4. pv[Orig[c]].live /\ pv[Orig[c]].ref = c
    BY <1>0, <2>1, <2>3 DEF ClusterInit
  <2> QED
    BY <2>2, <2>4 DEF Good
<1>4. KeptWalk
  <2>1. rev.reverts = <<>> /\ wk.pc = "idle"
    BY <1>0
  <2>2. PICK S, T : S = KeptRecs /\ T = SafeRecs
    OBVIOUS
  <2>3. Walk(S, T)
    BY <2>1 DEF Walk, RecordsIn
  <2> QED
    BY <2>2, <2>3 DEF KeptWalk
<1> QED
  BY <1>1, <1>2, <1>3, <1>4 DEF KeptInv, AllGood, DyingDoomed

\* The recorded claims of a revert in progress are safe after every step: a claim
\* is deleted when the volume of its record is kept, and an entry records a
\* claim with one volume only.
LEMMA EntrySafe ==
    ASSUME "pv" \in Prompt, "fix" \notin FaultyCalls, KeptInv, [Next]_vars,
           NEW d \in Details, EntryIn(d, SafeRecs), wk.pc \in {"delete", "undoDelete"} => d = Latest(rev),
           NEW k \in DOMAIN d.old
    PROVE  d.old[k] \in SafeRecs'
<1>0. TypeOK /\ OwnAction /\ PvSeen /\ KeptWalk
  BY DEF KeptInv, OwnInv, EndsInv
<1>1. PICK o \in Recorded : o = d.old[k] /\ (o.vol = NoVol \/ Kept(o.vol) \/ Held(o))
  BY DEF EntryIn, SafeRecs
<1>2. Kept(o.vol) => Kept(o.vol)'
  BY <1>0, KeptStays
<1>3. CASE Held(o) /\ wk.pc \in {"delete", "undoDelete"} /\ Cur.claim = o.claim
  <2>1. Kept(Cur.vol)
    BY <1>0, <1>3, CurKept, UndoKept
  <2>2. wk.pc \notin {"idle", "put"} /\ wk.pc \in Loops
    BY <1>3 DEF Loops
  <2>3. wk.i \in DOMAIN d.old /\ Cur = d.old[wk.i]
    BY <1>0, <1>3, <2>2, PlaceType DEF OwnAction, Old
  <2>4. o.vol = Cur.vol
    BY <1>1, <1>3, <2>3 DEF EntryIn
  <2> QED
    BY <1>1, <1>2, <2>1, <2>4 DEF SafeRecs
<1>4. CASE Held(o) /\ ~(wk.pc \in {"delete", "undoDelete"} /\ Cur.claim = o.claim)
  <2>1. Held(o)' \/ Kept(o.vol)'
    BY <1>0, <1>4, HeldStays
  <2> QED
    BY <1>1, <2>1 DEF SafeRecs
<1> QED
  BY <1>1, <1>2, <1>3, <1>4 DEF SafeRecs

\* initDetails records claims that are there for good: bound, or to no volume, or
\* to one that is kept.
LEMMA InitSafe ==
    ASSUME KeptInv, StartInit, NEW c \in CachedClaims
    PROVE  [claim |-> c, vol |-> cpvc[c].vol] \in SafeRecs'
<1>0. /\ TypeOK /\ ClaimsSeen /\ crev = rev /\ c \in Claims /\ cpvc[c].here /\ Good(c)
  BY DEF KeptInv, OwnInv, EndsInv, Seen, AllGood, CachedClaims
<1>1. StateOf(rev) # "paused"
  BY <1>0 DEF StartInit, NeedsEntry
<1>2. cpvc = pvc /\ ~pvc[c].dying /\ pvc[c].vol \in Vols \cup {NoVol}
  BY <1>0, <1>1 DEF KeptInv, DyingDoomed, Doomed, ClaimsSeen, TypeOK, ClusterTypeOK, Pvcs
<1>3. pvc' = pvc /\ pv' = pv
  BY DEF StartInit, Start, clusterVars, pvcVars, pvVars
<1>4. PICK o : o = [claim |-> c, vol |-> pvc[c].vol]
  OBVIOUS
<1>5. o \in Recorded /\ o.claim = c /\ o.vol = pvc[c].vol
  BY <1>0, <1>2, <1>4 DEF Recorded
<1>6. o.vol = NoVol \/ Kept(o.vol)' \/ Held(o)'
  BY <1>0, <1>2, <1>3, <1>5 DEF Good, Held, Kept
<1> QED
  BY <1>2, <1>4, <1>5, <1>6 DEF SafeRecs

LEMMA KeptWalkStep ==
    ASSUME "revert" \in Prompt, "pv" \in Prompt, ~SwitchMidway, "fix" \notin FaultyCalls,
           KeptInv, [Next]_vars
    PROVE  KeptWalk'
<1>0. /\ TypeOK /\ OwnInv /\ OwnAction /\ InStep /\ PvSeen /\ KeptWalk
      /\ rev \in Reverts /\ wk.copy \in Reverts
  BY DEF KeptInv, OwnInv, EndsInv, TypeOK, WorkerOK, Workers
<1>1. PICK S, T : S = KeptRecs /\ T = SafeRecs
  OBVIOUS
<1>2. PICK S2, T2 : S2 = KeptRecs' /\ T2 = SafeRecs'
  OBVIOUS
<1>3. Walk(S, T)
  BY <1>0, <1>1 DEF KeptWalk
<1>4. S \subseteq S2 /\ S2 \subseteq T2
  <2>1. ASSUME NEW o \in Recorded, Kept(o.vol) PROVE Kept(o.vol)'
    BY <1>0, <2>1, KeptStays
  <2> QED
    BY <1>1, <1>2, <2>1 DEF KeptRecs, SafeRecs
<1>5. Replacing(rev) => EntryIn(Latest(rev), T2)
  <2> SUFFICES ASSUME Replacing(rev) PROVE EntryIn(Latest(rev), T2)
    OBVIOUS
  <2>1. EntryIn(Latest(rev), T) /\ rev.reverts # <<>>
    BY <1>0, <1>3, WalkLatest, ReplacingEntry
  <2>2. PICK d \in Details : d = Latest(rev)
    BY <1>0, HasEntry, <2>1 DEF StateOf, Replacing
  <2>3. \A k \in DOMAIN d.old : d.old[k] \in SafeRecs'
    BY <1>0, <1>1, <2>1, <2>2, EntrySafe
  <2> QED
    BY <1>2, <2>1, <2>2, <2>3 DEF EntryIn
<1>6. wk.pc = "put" /\ wk.fresh /\ Replacing(wk.copy) => EntryIn(Latest(wk.copy), T2)
  <2> SUFFICES ASSUME wk.pc = "put", wk.fresh, Replacing(wk.copy) PROVE EntryIn(Latest(wk.copy), T2)
    OBVIOUS
  <2>1. EntryIn(Latest(wk.copy), T) /\ wk.copy.reverts # <<>>
    BY <1>0, <1>3, WalkLatest, ReplacingEntry
  <2>2. PICK d \in Details : d = Latest(wk.copy)
    BY <1>0, HasEntry, <2>1 DEF StateOf, Replacing
  <2>3. \A k \in DOMAIN d.old : d.old[k] \in SafeRecs'
    BY <1>0, <1>1, <2>1, <2>2, EntrySafe
  <2> QED
    BY <1>2, <2>1, <2>2, <2>3 DEF EntryIn
<1>7. Fix /\ wk'.pc = "delete" => Cur \in S2
  <2> SUFFICES ASSUME Fix, wk'.pc = "delete" PROVE Cur \in S2
    OBVIOUS
  <2>1. Cur \in Recorded /\ Cur.vol \in Vols /\ wk.pc # "avail"
    BY <1>0, FixNames DEF WithVolume, Fix
  <2>2. pv \in [Vols -> Pvs]
    BY <1>0 DEF TypeOK, ClusterTypeOK
  <2>3. PICK o \in Recorded : o = Cur
    BY <2>1
  <2>4. Kept(o.vol)'
    BY <1>0, <2>1, <2>2, <2>3, VolumeCalls DEF Kept
  <2> QED
    BY <1>2, <2>3, <2>4 DEF KeptRecs
<1>8. StartInit => \A c \in CachedClaims : [claim |-> c, vol |-> cpvc[c].vol] \in T2
  BY <1>2, InitSafe
<1>9. Walk(S2, T2)'
  BY <1>0, <1>3, <1>4, <1>5, <1>6, <1>7, <1>8, WalkStep
<1> QED
  BY <1>2, <1>9 DEF KeptWalk

LEMMA KeptStep ==
    ASSUME {"revert", "pvc", "pv"} \subseteq Prompt, ~SwitchMidway, "fix" \notin FaultyCalls,
           KeptInv, [Next]_vars
    PROVE  KeptInv'
<1>0. /\ "revert" \in Prompt /\ "pvc" \in Prompt /\ "pv" \in Prompt
      /\ TypeOK /\ OwnInv /\ OwnAction /\ ClaimsSeen /\ PvSeen /\ DyingDoomed /\ KeptWalk
  BY DEF KeptInv, OwnInv, EndsInv
<1>1. OwnInv' /\ ClaimsSeen'
  BY <1>0, OwnInvStep, ClaimsSeenStep
<1>2. PvSeen'
  BY <1>0, PvSeenStep
<1>3. AllGood'
  BY <1>0, GoodStays DEF KeptInv, AllGood
<1>4. DyingDoomed'
  BY <1>0, DoomedStep
<1>5. KeptWalk'
  BY <1>0, KeptWalkStep
<1> QED
  BY <1>1, <1>2, <1>3, <1>4, <1>5 DEF KeptInv

LEMMA KeptMeans == KeptInv => OldVolumesKept
<1> SUFFICES ASSUME KeptInv, NEW v \in RecordedVols(rev), v # NoVol
             PROVE  pv[v].live
  BY DEF OldVolumesKept
<1>1. rev \in Reverts /\ DOMAIN rev.reverts = 1..Len(rev.reverts)
  BY DEF KeptInv, OwnInv, EndsInv, TypeOK, Reverts
<1>2. PICK j \in DOMAIN rev.reverts : \E u \in Range(rev.reverts[j].old) : v = u.vol
  BY DEF RecordedVols
<1>3. PICK k \in DOMAIN rev.reverts[j].old : v = rev.reverts[j].old[k].vol
  BY <1>2 DEF Range
<1>4. rev.reverts[j].old[k] \in KeptRecs \cup SafeRecs
  BY <1>1, <1>3 DEF KeptInv, KeptWalk, Walk, RecordsIn, EntryIn
<1> QED
  BY <1>3, <1>4 DEF KeptRecs, SafeRecs, Kept, Held

\* OldVolumesKept holds of every number of claims, volumes, snapshots, requests and
\* faults and of every length of the history.  It is assumed, beyond what
\* UndoCorrect assumes, that the cache shows the volumes as they are and that no
\* update of a reclaim policy is lost: a lost one looks stored to the next attempt.
THEOREM KeptCorrect ==
    ASSUME {"revert", "pvc", "pv"} \subseteq Prompt, ~SwitchMidway, "fix" \notin FaultyCalls
    PROVE  Spec => []OldVolumesKept
<1>1. Init => KeptInv
  BY KeptInit
<1>2. KeptInv /\ [Next]_vars => KeptInv'
  BY KeptStep
<1>3. KeptInv => OldVolumesKept
  BY KeptMeans
<1> QED
  BY <1>1, <1>2, <1>3, PTL DEF Spec

----------------------------------------------------------------------------
(* RevertLands: what is "reverted" holds the snapshots *)

\* No volume that is free would satisfy a claim made from a snapshot.
NoSpare == \A v \in Vols : pv[v].live /\ pv[v].ref = "free" => disk[v].class = "std"

\* A claim made from a snapshot, whose volume, if it has one, is its own and holds it.
NewClaim(c) ==
    /\ pvc[c].here /\ ~pvc[c].dying /\ pvc[c].snap > 0
    /\ ~pvc[c].bound => pvc[c].vol = NoVol
    /\ pvc[c].bound => /\ pvc[c].vol \in Vols /\ pv[pvc[c].vol].ref = c
                       /\ disk[pvc[c].vol].data > 0

\* While nothing runs, the cluster binds such a claim to a new volume made from its
\* snapshot, and nothing writes to that.
LEMMA NewClaimKept ==
    ASSUME ClusterTypeOK, NoSpare, AppDown, Environment, NEW d \in Claims, NewClaim(d)
    PROVE  NewClaim(d)' /\ (pvc[d].bound => pvc'[d].bound)
<1> DEFINE u == pvc[d].vol
<1>0. /\ pvc \in [Claims -> Pvcs] /\ pv \in [Vols -> Pvs] /\ disk \in [Vols -> Disks]
      /\ d \notin {"free", "released"} /\ NoVol \notin Vols
      /\ pvc[d].here /\ ~pvc[d].dying /\ pvc[d].snap > 0 /\ (~pvc[d].bound => u = NoVol)
      /\ pvc[d].bound => u \in Vols /\ pv[u].ref = d /\ disk[u].data > 0
  BY ClusterAssumption DEF NewClaim, ClusterTypeOK
<1>1. ASSUME pvc'[d] = pvc[d], pvc[d].bound => pv'[u].ref = d /\ disk'[u].data > 0
      PROVE  NewClaim(d)' /\ (pvc[d].bound => pvc'[d].bound)
  BY <1>0, <1>1 DEF NewClaim
<1>2. CASE UNCHANGED <<pvcVars, pv, disk>>
  BY <1>0, <1>1, <1>2 DEF pvcVars
<1>3. ASSUME NEW c \in Claims, CreatePod(c) \/ RunPod(c) PROVE FALSE
  BY <1>3 DEF AppDown, Listed, CreatePod, CanCreatePod, RunPod, CanRunPod
<1>4. ASSUME NEW c \in Claims, RemovePvc(c)
      PROVE  pvc'[d] = pvc[d] /\ disk' = disk /\ (pvc[d].bound => pv'[u].ref = d)
  <2>1. /\ pvc' = [pvc EXCEPT ![c] = NoPvc] /\ disk' = disk /\ c # d
        /\ pv' = pv \/ (pv[pvc[c].vol].ref = c /\ pv' = [pv EXCEPT ![pvc[c].vol].ref = "released"])
    BY <1>0, <1>4 DEF RemovePvc, CanRemovePvc, Release, SetPvc, SetPv, pvVars
  <2> QED
    BY <1>0, <2>1
<1>5. ASSUME NEW c \in Claims, BindFree(c)
      PROVE  NewClaim(d)' /\ (pvc[d].bound => pvc'[d].bound)
  <2>1. PICK v \in Free(pvc[c]) : /\ pvc' = [pvc EXCEPT ![c].bound = TRUE, ![c].vol = v]
                                  /\ pv' = [pv EXCEPT ![v].ref = c] /\ disk' = disk
    BY <1>5 DEF BindFree, BindTo, SetPvc, SetPv
  <2>2. ~pvc[c].bound /\ v \in Vols /\ pv[v].live /\ pv[v].ref = "free"
    BY <1>5, <2>1 DEF BindFree, Unbound, Free
  <2>3. c # d
    <3> SUFFICES ASSUME c = d PROVE FALSE
      OBVIOUS
    <3>1. disk[v].class = "snap"
      BY <1>0, <2>1, <2>2 DEF Free, ClassOf
    <3> QED
      BY <2>2, <3>1 DEF NoSpare
  <2> QED
    BY <1>0, <1>1, <2>1, <2>2, <2>3
<1>6. ASSUME NEW c \in Claims, Provision(c, Taken)
      PROVE  NewClaim(d)' /\ (pvc[d].bound => pvc'[d].bound)
  <2>1. PICK v \in UnusedVols(Taken) :
          /\ pvc' = [pvc EXCEPT ![c].bound = TRUE, ![c].vol = v]
          /\ pv' = [pv EXCEPT ![v] = [live |-> TRUE, policy |-> "Delete", ref |-> c]]
          /\ disk' = [disk EXCEPT ![v] = [class |-> ClassOf(pvc[c]), data |-> pvc[c].snap]]
    BY <1>6 DEF Provision, BindTo, SetPvc, SetPv
  <2>2. ~pvc[c].bound /\ pvc[c].vol = NoVol /\ v \in Vols /\ v # u
    BY <1>6, <2>1 DEF Provision, Unbound, UnusedVols
  <2>3. CASE c = d
    <3>1. pvc'[d] = [pvc[d] EXCEPT !.bound = TRUE, !.vol = v]
      BY <1>0, <2>1, <2>3
    <3>2. pvc'[d].here /\ ~pvc'[d].dying /\ pvc'[d].snap > 0 /\ pvc'[d].bound /\ pvc'[d].vol = v
      BY <1>0, <3>1 DEF Pvcs
    <3>3. pv'[v].ref = d /\ disk'[v].data > 0
      BY <1>0, <2>1, <2>2, <2>3
    <3> QED
      BY <2>2, <3>2, <3>3 DEF NewClaim
  <2>4. CASE c # d
    BY <1>0, <1>1, <2>1, <2>2, <2>4
  <2> QED
    BY <2>3, <2>4
<1>7. ASSUME NEW c \in Claims, Rebind(c)
      PROVE  pvc' = pvc /\ disk' = disk /\ (pvc[d].bound => pv'[u].ref = d)
  <2>1. /\ pvc' = pvc /\ disk' = disk
        /\ pv[pvc[c].vol].ref = "free" /\ pv' = [pv EXCEPT ![pvc[c].vol].ref = c]
    BY <1>7 DEF Rebind, SetPv, pvcVars
  <2> QED
    BY <1>0, <2>1
<1>8. ASSUME NEW v \in Vols, Reclaim(v)
      PROVE  pvc' = pvc /\ disk' = disk /\ (pvc[d].bound => pv'[u].ref = pv[u].ref)
  BY <1>0, <1>8 DEF Reclaim, SetPv, pvcVars
<1>9. ASSUME NEW c \in Claims, DeletePod(c) \/ TakeSnapshot(c)
      PROVE  UNCHANGED <<pvcVars, pv, disk>>
  BY <1>9 DEF DeletePod, TakeSnapshot, pvVars
<1>10. ASSUME Sync
       PROVE  pvc' = pvc /\ pv' = pv /\ disk' = disk
  BY <1>10 DEF Sync, SyncSts, SyncPod, SyncPvc, SyncPv, pvcVars, pvVars
<1>11. ASSUME Sync \/ (\E c \in Claims : RemovePvc(c) \/ Rebind(c)) \/ \E v \in Vols : Reclaim(v)
       PROVE  NewClaim(d)' /\ (pvc[d].bound => pvc'[d].bound)
  BY <1>0, <1>1, <1>4, <1>7, <1>8, <1>10, <1>11
<1> QED
  BY <1>2, <1>3, <1>5, <1>6, <1>9, <1>11 DEF Environment, Controllers

\* Each recorded claim has a snapshot, was made from it, and at last is bound.
Landed == \A k \in DOMAIN Old : NewClaim(Old[k].claim) /\ pvc[Old[k].claim].bound
Landing ==
    /\ wk.pc \in Reverting => \A k \in DOMAIN Old : wk.sel[Old[k].claim] > 0
    /\ wk.pc = "create" => \A k \in 1..(wk.i - 1) : NewClaim(Old[k].claim)
    /\ wk.pc = "bindWait" => \A k \in DOMAIN Old : NewClaim(Old[k].claim)
    /\ wk.pc = "put" /\ wk.fresh /\ StateOf(wk.copy) = "reverted" /\ StateOf(rev) = "paused"
         => Landed

LandInv == Down /\ EndsInv /\ ClaimsSeen /\ Landing

\* The recorded claims of an entry are claims.
LEMMA OldClaims ==
    ASSUME TypeOK, wk.pc \notin {"idle", "put"} \/ StateOf(wk.copy) # "none"
    PROVE  /\ DOMAIN Old = 1..Len(Old) /\ Len(Old) \in Nat
           /\ \A k \in DOMAIN Old : Old[k] \in Recorded /\ Old[k].claim \in Claims
<1>1. Old \in Seq(Recorded)
  <2>1. CASE wk.pc \notin {"idle", "put"}
    BY <2>1, OldType
  <2>2. CASE StateOf(wk.copy) # "none"
    BY <2>2, HasEntry DEF TypeOK, WorkerOK, Workers, Old, Details
  <2> QED
    BY <2>1, <2>2
<1>2. \A k \in 1..Len(Old) : Old[k] \in Recorded
  BY <1>1
<1> QED
  BY <1>1, <1>2 DEF Recorded

\* Where the worker stays, a claim it has made stays too.
LEMMA LandingStays ==
    ASSUME TypeOK, PausedMeansDown, Landing,
           wk'.pc = wk.pc, wk'.copy = wk.copy, wk'.i = wk.i, wk'.sel = wk.sel,
           wk'.fresh => wk.fresh, StateOf(rev') = StateOf(rev),
           \A c \in Claims : AppDown /\ NewClaim(c) => NewClaim(c)' /\ (pvc[c].bound => pvc'[c].bound)
    PROVE  Landing'
<1>1. Old' = Old
  BY DEF Old, Latest
<1>2. ASSUME wk.pc \in Swapping, NEW k \in DOMAIN Old, NewClaim(Old[k].claim)
      PROVE  NewClaim(Old[k].claim)'
  <2>1. AppDown /\ wk.pc \notin {"idle", "put"}
    BY <1>2, StepSets DEF PausedMeansDown
  <2>2. PICK c \in Claims : c = Old[k].claim
    BY <1>2, <2>1, OldClaims
  <2>3. NewClaim(c)'
    BY <1>2, <2>1, <2>2
  <2> QED
    BY <1>1, <2>2, <2>3
<1>3. wk.pc = "create" => \A k \in 1..(wk.i - 1) : k \in DOMAIN Old
  <2> SUFFICES ASSUME wk.pc = "create" PROVE \A k \in 1..(wk.i - 1) : k \in DOMAIN Old
    OBVIOUS
  <2>1. wk.i \in 1..Len(Old) /\ Len(Old) \in Nat /\ DOMAIN Old = 1..Len(Old)
    BY PlaceType DEF Loops
  <2> QED
    BY <2>1
<1>4. wk.pc = "create" => \A k \in 1..(wk.i - 1) : NewClaim(Old[k].claim)'
  BY <1>2, <1>3 DEF Landing, Swapping, Loops
<1>5. wk.pc = "bindWait" => \A k \in DOMAIN Old : NewClaim(Old[k].claim)'
  BY <1>2 DEF Landing, Swapping
<1>6. ASSUME wk.pc = "put", wk'.fresh, StateOf(wk.copy) = "reverted", StateOf(rev) = "paused"
      PROVE  Landed'
  <2>1. AppDown /\ Landed
    BY <1>6 DEF PausedMeansDown, Landing
  <2> SUFFICES ASSUME NEW k \in DOMAIN Old
               PROVE  NewClaim(Old[k].claim)' /\ pvc'[Old[k].claim].bound
    BY <1>1 DEF Landed
  <2>2. PICK c \in Claims : c = Old[k].claim
    BY <1>6, OldClaims
  <2>3. NewClaim(c)' /\ pvc'[c].bound
    BY <2>1, <2>2 DEF Landed
  <2> QED
    BY <1>1, <2>2, <2>3
<1>7. StateOf(wk.copy)' = StateOf(wk.copy) /\ StateOf(rev)' = StateOf(rev)
  BY DEF StateOf, Latest
<1> QED
  BY <1>1, <1>4, <1>5, <1>6, <1>7 DEF Landing

\* A call of a loop keeps the snapshots that were picked.
LEMMA SelStays ==
    ASSUME TypeOK, SwapStep
    PROVE  wk' = IdleWk \/ wk'.sel = wk.sel
<1>1. ASSUME NEW p PROVE Goto(p).sel = wk.sel
  BY DEF TypeOK, WorkerOK, Workers, Goto
<1>2. ASSUME NEW p, NEW n PROVE NextClaim(p, n).sel = wk.sel
  <2>1. wk \in Workers
    BY DEF TypeOK, WorkerOK
  <2>2. /\ [wk EXCEPT !.i = wk.i + 1, !.pc = p].sel = wk.sel
        /\ [wk EXCEPT !.i = 1, !.pc = n].sel = wk.sel
    BY <2>1 DEF Workers
  <2> QED
    BY <2>2 DEF NextClaim
<1>3. CASE Fix
  BY <1>1, <1>3 DEF Fix, UpdatePV, Reply, Refused, Error
<1>4. CASE Delete \/ UndoDelete
  BY <1>1, <1>2, <1>4 DEF Delete, UndoDelete, DeletePVC, Reply, Refused, Error
<1>5. CASE Avail
  BY <1>2, <1>5 DEF Avail, UpdatePV, Reply, Refused, Error
<1>6. CASE Create \/ UndoCreate
  BY <1>2, <1>6 DEF Create, UndoCreate, CreatePVC, Reply, Refused, Error
<1> QED
  BY <1>3, <1>4, <1>5, <1>6 DEF SwapStep

LEMMA LandingSwap ==
    ASSUME TypeOK, Landing, SwapStep
    PROVE  Landing'
<1>1. ASSUME wk'.pc \notin Reverting \cup {"put"} PROVE Landing'
  BY <1>1 DEF Landing, Reverting
<1>2. wk.pc \in Loops /\ (wk' = IdleWk => wk'.pc = "idle")
  BY SwapSteps, IdleOK
<1>3. CASE wk' = IdleWk \/ UndoDelete \/ UndoCreate
  <2>1. wk'.pc = "idle" \/ wk'.pc \in UndoSteps
    BY <1>2, <1>3, SwapMoves DEF Onward, At, UndoSteps, UndoDelete, UndoCreate
  <2> QED
    BY <1>1, <2>1, StepSets DEF Reverting
<1>4. CASE wk' # IdleWk /\ (Fix \/ Delete \/ Avail \/ Create)
  <2>1. /\ wk.pc \in Reverting /\ wk'.copy = wk.copy /\ wk'.sel = wk.sel
        /\ \/ wk'.pc \in {"fix", "delete", "avail"}
           \/ wk'.pc = "create" /\ wk'.i = 1
           \/ Create /\ wk.pc = "create" /\ Onward("create", "bindWait")
    BY <1>2, <1>4, SwapMoves, SelStays DEF Onward, At, Reverting, Fix, Delete, Avail, Create
  <2>2. Old' = Old
    BY <2>1 DEF Old, Latest
  <2>3. \A k \in DOMAIN Old : wk.sel[Old[k].claim] > 0
    BY <2>1 DEF Landing
  <2>4. CASE wk'.pc \in {"fix", "delete", "avail"} \/ (wk'.pc = "create" /\ wk'.i = 1)
    BY <2>1, <2>2, <2>3, <2>4 DEF Landing
  <2>5. CASE Create /\ wk.pc = "create" /\ Onward("create", "bindWait")
    <3>0. /\ wk.i \in 1..Len(Old) /\ Len(Old) \in Nat /\ DOMAIN Old = 1..Len(Old)
          /\ Cur = Old[wk.i] /\ Cur \in Recorded /\ Cur.claim \in Claims
      BY <1>2, PlaceType DEF Recorded
    <3>1. /\ wk'.pc \in {"create", "bindWait"}
          /\ wk'.pc = "create" => wk'.i = wk.i + 1
          /\ wk'.pc = "bindWait" => wk.i = Len(Old)
      BY <2>5 DEF Onward, At
    <3>2. /\ ~pvc[Cur.claim].here /\ pv' = pv /\ disk' = disk
          /\ pvc' = [pvc EXCEPT ![Cur.claim] = AttachSnapshot(wk.sel[Cur.claim])]
      BY <1>4, <2>5 DEF Create, CreatePVC, Refused, Error, SetPvc, pvVars
    <3>3. ASSUME NEW k \in 1..wk.i PROVE NewClaim(Old[k].claim)'
      <4>1. PICK c \in Claims : c = Old[k].claim
        BY <1>2, <3>0, OldClaims DEF Loops
      <4>2. CASE c = Cur.claim
        <5>1. wk.sel[c] > 0
          BY <2>3, <3>0, <4>2
        <5>2. pvc'[c] = AttachSnapshot(wk.sel[c])
          BY <3>2, <4>2 DEF TypeOK, ClusterTypeOK
        <5>3. NewClaim(c)'
          BY <5>1, <5>2 DEF NewClaim, AttachSnapshot, NoPvc
        <5> QED
          BY <2>2, <4>1, <5>3
      <4>3. CASE c # Cur.claim
        <5>1. k \in 1..(wk.i - 1)
          BY <3>0, <4>1, <4>3
        <5>2. NewClaim(c)
          BY <2>5, <4>1, <5>1 DEF Landing
        <5>3. pvc'[c] = pvc[c]
          BY <3>2, <4>3 DEF TypeOK, ClusterTypeOK
        <5>4. NewClaim(c)'
          BY <3>2, <5>2, <5>3 DEF NewClaim
        <5> QED
          BY <2>2, <4>1, <5>4
      <4> QED
        BY <4>2, <4>3
    <3> QED
      BY <2>1, <2>2, <2>3, <3>0, <3>1, <3>3 DEF Landing
  <2> QED
    BY <2>1, <2>4, <2>5
<1> QED
  BY <1>3, <1>4 DEF SwapStep

LEMMA LandingStep ==
    ASSUME TypeOK, HistoryFinished, OneBehind, AllFit, PausedMeansDown, ClaimsSeen, NoSpare,
           Landing, [Next]_vars
    PROVE  Landing'
<1>0. rev \in Reverts /\ wk.copy \in Reverts /\ wk \in Workers /\ ClusterTypeOK
  BY DEF TypeOK, WorkerOK, Workers
<1>1. ASSUME wk'.pc \notin Reverting \cup {"put"} PROVE Landing'
  BY <1>1 DEF Landing, Reverting
<1>2. ASSUME wk'.pc = "put",
             \/ StateOf(wk'.copy) # "reverted" \/ StateOf(rev') # "paused"
             \/ wk'.fresh => wk'.copy = rev'
      PROVE  Landing'
  <2>1. StateOf(wk.copy)' = StateOf(wk'.copy) /\ StateOf(rev)' = StateOf(rev')
    BY DEF StateOf, Latest
  <2>2. ~(wk'.fresh /\ StateOf(wk'.copy) = "reverted" /\ StateOf(rev') = "paused")
    BY <1>2
  <2> QED
    BY <1>2, <2>1, <2>2 DEF Landing, Reverting
<1>3. wk' = IdleWk => Landing'
  BY <1>1, IdleOK, StepSets DEF Reverting
<1>4. ASSUME pvc' = pvc, pv' = pv, disk' = disk, NEW c
      PROVE  NewClaim(c) => NewClaim(c)' /\ (pvc[c].bound => pvc'[c].bound)
  BY <1>4 DEF NewClaim
<1>5. CASE Starts
  <2>1. rev' = rev /\ (crevNew => crev = rev)
    BY <1>0, <1>5, StartsOK DEF revVars, OneBehind
  <2>2. CASE StartNothing
    BY <1>2, <2>1, <2>2, StartNothingOK
  <2>3. CASE StartInit
    BY <1>2, <2>3, StartInitOK
  <2>4. CASE StartPause \/ StartUnpause
    BY <1>1, <2>4, StartPauseOK, StartUnpauseOK DEF Reverting
  <2>5. CASE StartUndo
    <3>1. wk'.pc \in {"undoWait", "undoDelete"}
      BY <2>5, StartMoves DEF StartRevert, Latestly, StartUndo, Undoing
    <3> QED
      BY <1>1, <3>1 DEF Reverting
  <2>6. CASE StartRevert
    <3> DEFINE p == IF Latest(crev).old = <<>> THEN "bindWait" ELSE "fix"
    <3>1. /\ HasSnapshots(Latest(crev).old) /\ wk' = [Attempt(p, crev) EXCEPT !.sel = snaps]
      BY <2>6 DEF StartRevert, Start
    <3>2. wk'.pc = p /\ wk'.copy = crev /\ wk'.sel = snaps
      <4> HIDE DEF p
      <4> QED
        BY <3>1 DEF Attempt, IdleWk
    <3>3. Old' = Latest(crev).old
      BY <3>2 DEF Old, Latest
    <3>4. \A k \in DOMAIN Old' : wk'.sel[Old'[k].claim] > 0
      BY <3>1, <3>2, <3>3 DEF HasSnapshots
    <3>5. wk'.pc = "bindWait" => DOMAIN Old' = {}
      BY <3>2, <3>3
    <3> QED
      BY <3>2, <3>4, <3>5 DEF Landing
  <2>7. CASE StartRejected
    BY <1>4, <2>7, LandingStays DEF StartRejected, vars, revVars, wkVars, clusterVars, pvcVars, pvVars
  <2> QED
    BY <1>5, <2>2, <2>3, <2>4, <2>5, <2>6, <2>7 DEF Starts
<1>6. CASE SwapStep
  BY <1>6, LandingSwap
<1>7. CASE Pause \/ Unpause
  BY <1>1, <1>3, <1>7, PauseOK, UnpauseOK DEF Reverting
<1>8. CASE Paused \/ Reverted \/ Undone
  <2>1. /\ wk'.pc = "put" /\ (StateOf(wk'.copy) = "reverted" => wk.pc = "bindWait" /\ PvcsBound
             /\ wk'.copy = WithState(wk.copy, "reverted"))
    BY <1>8, WaitsPut
  <2>2. CASE StateOf(wk'.copy) # "reverted"
    BY <1>2, <2>1, <2>2
  <2>3. CASE StateOf(wk'.copy) = "reverted"
    <3>1. wk.copy.reverts # <<>>
      BY <2>1, <2>3, CopyType
    <3>2. Old' = Old
      <4>1. /\ Len(wk'.copy.reverts) = Len(wk.copy.reverts)
            /\ \A j \in 1..Len(wk.copy.reverts) : wk'.copy.reverts[j].old = wk.copy.reverts[j].old
        BY <1>0, <2>1, <2>3, <3>1, StateOld DEF States
      <4>2. Len(wk.copy.reverts) \in 1..Len(wk.copy.reverts)
        BY <1>0, <3>1, EmptySeq DEF Reverts
      <4> QED
        BY <4>1, <4>2 DEF Old, Latest, Last
    <3>3. \A k \in DOMAIN Old : NewClaim(Old[k].claim) /\ pvc[Old[k].claim].bound
      BY <2>1, <2>3 DEF Landing, PvcsBound, ClaimsSeen
    <3>4. pvc' = pvc /\ pv' = pv /\ disk' = disk
      BY <1>8 DEF Paused, Reverted, Undone, Bound, clusterVars, pvcVars, pvVars
    <3>5. Landed'
      BY <1>4, <3>2, <3>3, <3>4 DEF Landed
    <3> QED
      BY <2>1, <3>5 DEF Landing, Reverting
  <2> QED
    BY <2>2, <2>3
<1>9. CASE Unpaused
  <2>1. \A k \in 1..(Len(wk.copy.reverts) - 1) : wk.copy.reverts[k].state = "finished"
    BY DEF HistoryFinished, EarlierFinished
  <2>2. wk'.pc = "put" /\ StateOf(wk'.copy) # "reverted"
    BY <1>9, <2>1, UnpausedOK
  <2> QED
    BY <1>2, <2>2
<1>10. CASE Put \/ CallLost \/ Timeout \/ Crash
  BY <1>3, <1>10, PutOK DEF CallLost, Timeout, Crash, Error
<1>11. CASE SyncRevert \/ Resync \/ UNCHANGED vars
  <2>1. wk' = wk /\ rev' = rev /\ pvc' = pvc /\ pv' = pv /\ disk' = disk
    BY <1>11 DEF SyncRevert, Resync, vars, revVars, wkVars, clusterVars, pvcVars, pvVars
  <2> QED
    BY <1>4, <2>1, LandingStays
<1>12. CASE Environment
  <2>1. wk' = wk /\ rev' = rev
    BY <1>12 DEF Environment, Rest, revVars, wkVars
  <2>2. \A c \in Claims : AppDown /\ NewClaim(c) => NewClaim(c)' /\ (pvc[c].bound => pvc'[c].bound)
    BY <1>0, <1>12, NewClaimKept
  <2> QED
    BY <2>1, <2>2, LandingStays
<1>13. ASSUME NEW a \in {"latest", "undo"}, Request(a) PROVE Landing'
  <2>1. /\ wk'.pc = wk.pc /\ wk'.copy = wk.copy /\ wk'.i = wk.i /\ wk'.sel = wk.sel /\ ~wk'.fresh
        /\ pvc' = pvc /\ pv' = pv /\ disk' = disk
    BY <1>0, <1>13 DEF Request, Workers, clusterVars, pvcVars, pvVars
  <2>2. StateOf(rev') = StateOf(rev)
    BY <1>0, <1>13 DEF Request, StateOf, Latest, Reverts
  <2> QED
    BY <1>4, <2>1, <2>2, LandingStays
<1> QED
  BY <1>5, <1>6, <1>7, <1>8, <1>9, <1>10, <1>11, <1>12, <1>13 DEF Next, Steps, SwapStep

LEMMA LandInit == Init => LandInv
<1> SUFFICES ASSUME Init PROVE Landing
  BY DownInit, EndsInit DEF LandInv, ClaimsSeen, Init, ClusterInit
<1>1. wk.pc = "idle"
  BY DEF Init, IdleWk
<1> QED
  BY <1>1 DEF Landing, Reverting

LEMMA LandStep ==
    ASSUME {"sts", "pods", "pvc"} \subseteq Prompt, LandInv, NoSpare, [Next]_vars
    PROVE  LandInv'
<1>1. /\ {"sts", "pods"} \subseteq Prompt /\ "pvc" \in Prompt
      /\ Down /\ EndsInv /\ ClaimsSeen /\ Landing
      /\ TypeOK /\ HistoryFinished /\ OneBehind /\ AllFit /\ PausedMeansDown
  BY DEF LandInv, Down, EndsInv
<1>2. Down' /\ ClaimsSeen' /\ Landing'
  BY <1>1, DownStep, ClaimsSeenStep, LandingStep
<1>3. EndsInv'
  BY <1>1, <1>2, EndsStep DEF EndsInv, Down
<1> QED
  BY <1>2, <1>3 DEF LandInv

\* Only a put records "reverted" for what was "paused".
LEMMA LandsStep ==
    ASSUME LandInv, [Next]_vars, StateOf(rev) = "paused", StateOf(rev') = "reverted",
           NEW o \in Range(Latest(rev').old)
    PROVE  HoldsSnapshot(o.claim)
<1>0. TypeOK /\ rev \in Reverts /\ Landing
  BY DEF LandInv, Down, TypeOK
<1>1. Put
  <2>1. StateOf(rev') # StateOf(rev)
    OBVIOUS
  <2>2. ~Starts /\ ~SwapStep
    BY <1>0, <2>1, StartsOK, SwapSteps DEF revVars
  <2>3. ~(Pause \/ Paused \/ Unpause \/ Unpaused \/ Reverted \/ Undone)
    BY <2>1 DEF Pause, Paused, Unpause, Unpaused, Reverted, Undone, Bound, revVars
  <2>4. ~(CallLost \/ Timeout \/ Crash \/ SyncRevert \/ Resync \/ Environment \/ UNCHANGED vars)
    BY <2>1 DEF CallLost, Timeout, Crash, SyncRevert, Resync, Environment, Rest, vars, revVars
  <2>5. ~(\E a \in {"latest", "undo"} : Request(a))
    BY <1>0, <2>1 DEF Request, Reverts, StateOf, Latest
  <2> QED
    BY <2>2, <2>3, <2>4, <2>5 DEF Next, Steps, SwapStep
<1>2. wk.pc = "put" /\ wk.fresh /\ rev' = wk.copy
  BY <1>0, <1>1, PutOK DEF revVars
<1>3. Landed /\ Old = Latest(rev').old
  BY <1>0, <1>2 DEF Landing, Old
<1>4. PICK k \in DOMAIN Old : o = Old[k]
  BY <1>3 DEF Range
<1> QED
  BY <1>3, <1>4 DEF Landed, NewClaim, HoldsSnapshot

\* RevertLands holds of every number of claims, volumes, snapshots, requests and
\* faults, of any old version of the resource and even if the action is changed
\* midway, as long as no spare volume is of the class of the restored ones: the binder
\* gives such a volume to a new claim, whatever the claim is to be made from.  The
\* caches of the StatefulSet, its pods and the claims see the worker's writes.
THEOREM LandsCorrect ==
    ASSUME {"sts", "pods", "pvc"} \subseteq Prompt
    PROVE  Spec /\ []NoSpare => RevertLands
<1>1. Init => LandInv
  BY LandInit
<1>2. LandInv /\ NoSpare /\ [Next]_vars => LandInv'
  BY LandStep
<1>3. LandInv /\ [Next]_vars =>
        [StateOf(rev) = "paused" /\ StateOf(rev') = "reverted"
           => \A o \in Range(Latest(rev').old) : HoldsSnapshot(o.claim)]_vars
  BY LandsStep
<1> QED
  BY <1>1, <1>2, <1>3, PTL DEF Spec, RevertLands

----------------------------------------------------------------------------
(* In a first revert no spare volume is of the restored ones' class *)

\* No claim has been made from a snapshot.
Untouched == (\A c \in Claims : pvc[c].snap = 0) /\ \A v \in Vols : disk[v].class = "std"

\* With one request, the history is empty until its first entry.
First(r) ==
    /\ r.action = "undo" => r.reverts = <<>>
    /\ r.action = "latest" => StateOf(r) # "finished"
OneRequest ==
    /\ requests = 0 => rev.reverts = <<>>
    /\ rev.action # "idle" => requests # 0
    /\ First(rev)
    /\ wk.pc = "put" /\ wk.fresh => First(wk.copy) /\ (wk.copy.reverts = <<>> => rev.reverts = <<>>)
                                    /\ (wk.copy.action # "idle" => requests # 0)
                                    /\ (requests = 0 => wk.copy.reverts = <<>>)

StdRecs == {o \in Recorded : o.vol = NoVol \/ disk[o.vol].class = "std"}
Originals == Walk(StdRecs, StdRecs)

FirstInv ==
    OwnInv /\ ClaimsSeen /\ OneRequest /\ (rev.reverts = <<>> => Untouched) /\ Originals /\ NoSpare

LEMMA OneRequestStep ==
    ASSUME "revert" \in Prompt, ~SwitchMidway, MaxRequests <= 1, OwnInv, OneRequest, [Next]_vars
    PROVE  OneRequest'
<1>0. /\ TypeOK /\ AllFit /\ Seen /\ OwnAction /\ rev \in Reverts /\ wk.copy \in Reverts
      /\ wk \in Workers /\ requests \in Nat
  BY DEF OwnInv, EndsInv, TypeOK, WorkerOK, Workers
<1>1. ASSUME wk'.pc # "put" \/ ~wk'.fresh, rev' = rev, requests' = requests PROVE OneRequest'
  BY <1>1 DEF OneRequest, First, StateOf, Latest
<1>2. ASSUME rev' = rev, requests' = requests, First(wk'.copy), wk'.copy.reverts = <<>> => rev.reverts = <<>>,
             wk'.copy.action # "idle" => rev.action # "idle", wk'.copy.reverts # <<>> => requests # 0
      PROVE  OneRequest'
  BY <1>2 DEF OneRequest, First, StateOf, Latest
<1>3. wk' = IdleWk => wk'.pc = "idle"
  BY IdleOK
<1>4. wk.pc \notin {"idle", "put"} =>
        wk.copy = rev /\ rev.action = "latest" /\ requests # 0 /\ wk.copy.reverts # <<>>
  <2>1. rev.action \in {"idle", "latest", "undo"}
    BY <1>0 DEF Reverts
  <2> QED
    BY <1>0, <2>1, CopyType DEF OwnAction, OneRequest, First
<1>5. CASE Starts
  <2>1. rev' = rev /\ crev = rev /\ requests' = requests
    BY <1>0, <1>5, StartsOK DEF revVars, Seen
  <2>2. CASE StartNothing
    <3>1. wk'.copy = rev
      BY <1>0, <2>1, <2>2, StartNothingOK
    <3> QED
      BY <1>2, <2>1, <3>1 DEF OneRequest
  <2>3. CASE StartInit
    <3>1. wk'.copy.action = "latest" /\ rev.action = "latest" /\ StateOf(wk'.copy) = "init"
      BY <1>0, <2>1, <2>3, StartInitOK DEF StartInit, Latestly
    <3>2. wk'.copy.reverts # <<>>
      BY <3>1 DEF StateOf
    <3> QED
      BY <1>2, <2>1, <3>1, <3>2 DEF OneRequest, First
  <2>4. CASE StartPause \/ StartUnpause \/ StartRevert \/ StartUndo
    <3>1. wk'.pc # "put"
      BY <1>0, <2>4, StartPauseOK, StartUnpauseOK, StartMoves
    <3> QED
      BY <1>1, <2>1, <3>1
  <2>5. CASE StartRejected
    BY <1>1, <2>1, <2>5 DEF StartRejected, vars, wkVars
  <2> QED
    BY <1>5, <2>2, <2>3, <2>4, <2>5 DEF Starts
<1>6. CASE SwapStep
  <2>1. rev' = rev /\ requests' = requests /\ wk'.pc # "put"
    BY <1>0, <1>3, <1>6, SwapSteps, SwappingQuiet DEF revVars, GoesOn
  <2> QED
    BY <1>1, <2>1
<1>7. CASE Pause \/ Unpause
  <2>1. rev' = rev /\ requests' = requests
    BY <1>7 DEF Pause, Unpause, revVars
  <2> QED
    BY <1>0, <1>1, <1>3, <1>7, <2>1, PauseOK, UnpauseOK
<1>8. CASE Paused \/ Reverted \/ Undone
  <2>1. rev' = rev /\ requests' = requests
    BY <1>8 DEF Paused, Reverted, Undone, Bound, revVars
  <2>2. /\ wk.pc \notin {"idle", "put"} /\ StateOf(wk'.copy) \in {"paused", "reverted", "undone"}
        /\ wk'.copy.action = wk.copy.action
    BY <1>0, <1>8, WaitsPut
  <2>3. wk'.copy.reverts # <<>>
    BY <2>2 DEF StateOf
  <2> QED
    BY <1>2, <1>4, <2>1, <2>2, <2>3 DEF First
<1>9. CASE Unpaused
  <2>1. rev' = rev /\ requests' = requests
    BY <1>9 DEF Unpaused, revVars
  <2>2. wk.pc = "readyWait" /\ wk'.copy.action = "idle"
    BY <1>0, <1>9, UnpausedOK, UnpausedIdle
  <2>3. wk'.copy.reverts # <<>>
    <3>1. wk'.copy = [WithState(wk.copy, "finished") EXCEPT !.action = "idle"]
      BY <1>0, <1>4, <1>9, <2>2, UnpausedEnds DEF AllFit
    <3>2. WithState(wk.copy, "finished") \in Reverts /\ WithState(wk.copy, "finished").reverts # <<>>
      BY <1>0, <1>4, <2>2, StateChange DEF States
    <3> QED
      BY <3>1, <3>2 DEF Reverts
  <2> QED
    BY <1>2, <1>4, <2>1, <2>2, <2>3 DEF First
<1>10. CASE Put
  <2>1. wk'.pc = "idle" /\ requests' = requests /\ (rev' = rev \/ (wk.pc = "put" /\ wk.fresh /\ rev' = wk.copy))
    BY <1>0, <1>3, <1>10, PutOK DEF revVars
  <2> QED
    BY <2>1 DEF OneRequest, First, StateOf, Latest
<1>11. CASE CallLost \/ Timeout \/ Crash
  <2>1. wk'.pc = "idle" /\ rev' = rev /\ requests' = requests
    BY <1>3, <1>11 DEF CallLost, Timeout, Crash, Error, revVars
  <2> QED
    BY <1>1, <2>1
<1>12. CASE SyncRevert \/ Resync \/ Environment \/ UNCHANGED vars
  <2>1. wk' = wk /\ rev' = rev /\ requests' = requests
    BY <1>12 DEF SyncRevert, Resync, Environment, Rest, vars, revVars, wkVars
  <2> QED
    BY <2>1 DEF OneRequest, First, StateOf, Latest
<1>13. ASSUME NEW a \in {"latest", "undo"}, Request(a) PROVE OneRequest'
  <2>1. requests = 0 /\ requests' # 0
    BY <1>0, <1>13, RevertsAssumption DEF Request
  <2>2. rev'.reverts = <<>> /\ ~wk'.fresh
    BY <1>0, <1>13, <2>1 DEF Request, Reverts, Workers, OneRequest
  <2> QED
    BY <2>1, <2>2 DEF OneRequest, First, StateOf
<1> QED
  BY <1>5, <1>6, <1>7, <1>8, <1>9, <1>10, <1>11, <1>12, <1>13 DEF Next, Steps, SwapStep

\* The class of a volume is set when it is provisioned, from the claim's.
LEMMA ClassStays ==
    ASSUME TypeOK, [Next]_vars, NEW v \in Vols
    PROVE  \/ disk'[v].class = disk[v].class
           \/ \E c \in Claims : /\ v \in UnusedVols(Taken) /\ disk'[v].class = ClassOf(pvc[c])
                                /\ pv'[v].ref = c
<1> DEFINE Same == disk'[v].class = disk[v].class
           New == \E c \in Claims : /\ v \in UnusedVols(Taken) /\ disk'[v].class = ClassOf(pvc[c])
                                    /\ pv'[v].ref = c
<1>0. disk \in [Vols -> Disks] /\ disk[v] \in Disks /\ pv \in [Vols -> Pvs]
  BY DEF TypeOK, ClusterTypeOK
<1>1. Starts \/ Put => disk' = disk
  BY StartsOK, PutOK DEF clusterVars
<1>2. Pause \/ Paused \/ Unpause \/ Unpaused \/ Reverted \/ Undone => disk' = disk
  BY DEF Pause, Paused, Unpause, Unpaused, Reverted, Undone, Bound, clusterVars
<1>3. CallLost \/ Timeout \/ Crash \/ SyncRevert \/ Resync \/ UNCHANGED vars => disk' = disk
  BY DEF CallLost, Timeout, Crash, SyncRevert, Resync, vars, clusterVars
<1>4. SwapStep => disk' = disk
  BY DEF SwapStep, Fix, Delete, Avail, Create, UndoDelete, UndoCreate
<1>5. (\E a \in {"latest", "undo"} : Request(a)) => disk' = disk
  BY DEF Request, clusterVars
<1>6. ASSUME NEW c \in Claims, RunPod(c) PROVE Same
  BY <1>0, <1>6 DEF RunPod, Disks
<1>7. ASSUME NEW c \in Claims, Provision(c, Taken) PROVE Same \/ New
  <2>1. PICK u \in UnusedVols(Taken) :
          /\ pv' = [pv EXCEPT ![u] = [live |-> TRUE, policy |-> "Delete", ref |-> c]]
          /\ disk' = [disk EXCEPT ![u] = [class |-> ClassOf(pvc[c]), data |-> pvc[c].snap]]
    BY <1>7 DEF Provision, BindTo, SetPvc, SetPv
  <2> QED
    BY <1>0, <2>1
<1>8. ASSUME NEW c \in Claims, CreatePod(c) \/ DeletePod(c) \/ RemovePvc(c) \/ BindFree(c)
                                 \/ Rebind(c) \/ TakeSnapshot(c)
      PROVE  disk' = disk
  BY <1>8 DEF CreatePod, DeletePod, RemovePvc, BindFree, Rebind, TakeSnapshot
<1>9. ASSUME Sync \/ \E u \in Vols : Reclaim(u)
      PROVE  disk' = disk
  BY <1>9 DEF Sync, SyncSts, SyncPod, SyncPvc, SyncPv, Reclaim
<1>10. CASE Environment
  BY <1>6, <1>7, <1>8, <1>9, <1>10 DEF Environment, Controllers
<1> QED
  BY <1>1, <1>2, <1>3, <1>4, <1>5, <1>10 DEF Next, Steps, SwapStep

\* Only fixReclaimPolicy and availablePV, by what is in the cache, free a volume.
LEMMA WhoFrees ==
    ASSUME TypeOK, [Next]_vars, NEW v \in Vols, pv'[v].live, pv'[v].ref = "free"
    PROVE  (pv[v].live /\ pv[v].ref = "free") \/ ((Fix \/ Avail) /\ v = Cur.vol)
<1>0. /\ pv \in [Vols -> Pvs] /\ pvc \in [Claims -> Pvcs] /\ ClusterTypeOK
      /\ \A c \in Claims : c # "free"
  BY ClusterAssumption DEF TypeOK, ClusterTypeOK
<1> DEFINE Goal == pv[v].live /\ pv[v].ref = "free"
<1>1. CASE pv' = pv
  BY <1>1
<1>2. ASSUME NEW c, Release(c) PROVE Goal
  <2>1. pv' = pv \/ pv' = [pv EXCEPT ![pvc[c].vol].ref = "released"]
    BY <1>2 DEF Release, SetPv, pvVars
  <2> QED
    BY <1>0, <2>1 DEF Pvs
<1>3. CASE SwapStep
  <2>1. CASE Fix \/ Avail
    <3>1. pv' = pv \/ \E n : pv' = [pv EXCEPT ![Cur.vol] = n]
      BY <2>1 DEF Fix, Avail, UpdatePV, pvVars
    <3> QED
      BY <1>0, <2>1, <3>1
  <2> QED
    BY <1>1, <1>2, <1>3, <2>1, SwapWrites DEF pvVars
<1>4. CASE Environment
  <2>1. ASSUME NEW c \in Claims, BindFree(c) \/ Rebind(c) PROVE Goal
    <3>1. \E u : pv' = [pv EXCEPT ![u].ref = c]
      BY <2>1 DEF BindFree, Rebind, SetPv
    <3> QED
      BY <1>0, <3>1 DEF Pvs
  <2>2. ASSUME NEW c \in Claims, Provision(c, Taken) PROVE Goal
    <3>1. \E u \in Vols : pv' = [pv EXCEPT ![u] = [live |-> TRUE, policy |-> "Delete", ref |-> c]]
      BY <2>2 DEF Provision, SetPv, UnusedVols
    <3> QED
      BY <1>0, <3>1 DEF Pvs
  <2>3. ASSUME NEW u \in Vols, Reclaim(u) PROVE Goal
    <3>1. pv' = [pv EXCEPT ![u].live = FALSE]
      BY <2>3 DEF Reclaim, SetPv
    <3> QED
      BY <1>0, <3>1 DEF Pvs
  <2> QED
    BY <1>0, <1>1, <1>2, <1>4, <2>1, <2>2, <2>3, ClusterWrites
<1> QED
  BY <1>1, <1>3, <1>4, OnlySwapsWrite DEF Still, Crash

\* Only Create makes a claim from a snapshot.
LEMMA SnapStays ==
    ASSUME TypeOK, [Next]_vars, NEW d \in Claims, pvc'[d].snap # pvc[d].snap
    PROVE  SwapStep \/ pvc'[d].snap = 0
<1>0. pvc \in [Claims -> Pvcs] /\ ClusterTypeOK
  BY DEF TypeOK, ClusterTypeOK
<1>1. CASE Environment
  <2>1. ASSUME NEW c \in Claims, ~pvc[c].here, SetPvc([pvc EXCEPT ![c] = Blank]) PROVE pvc'[d].snap = 0
    BY <1>0, <2>1 DEF SetPvc, Blank, NoPvc
  <2>2. ASSUME NEW c \in Claims, Release(c) PROVE pvc'[d].snap = 0
    BY <1>0, <2>2 DEF Release, SetPvc, NoPvc
  <2>3. ASSUME NEW c \in Claims, BindFree(c) \/ Provision(c, Taken) PROVE FALSE
    <3>1. \E v : pvc' = [pvc EXCEPT ![c].bound = TRUE, ![c].vol = v]
      BY <2>3 DEF BindFree, Provision, BindTo, SetPvc
    <3> QED
      BY <1>0, <3>1 DEF Pvcs
  <2>4. ASSUME NEW c \in Claims, Rebind(c) PROVE FALSE
    BY <2>4 DEF Rebind, pvcVars
  <2>5. ASSUME NEW v \in Vols, Reclaim(v) PROVE FALSE
    BY <2>5 DEF Reclaim, pvcVars
  <2> QED
    BY <1>0, <1>1, <2>1, <2>2, <2>3, <2>4, <2>5, ClusterWrites
<1> QED
  BY <1>1, OnlySwapsWrite DEF Still, Crash

LEMMA UntouchedStep ==
    ASSUME FirstInv, [Next]_vars, rev'.reverts = <<>>
    PROVE  Untouched'
<1>0. /\ TypeOK /\ OneRequest /\ OwnAction /\ rev \in Reverts
      /\ rev.reverts = <<>> => Untouched
  BY DEF FirstInv, OwnInv, EndsInv, TypeOK
<1>1. rev.reverts = <<>>
  <2>1. Starts \/ SwapStep => rev' = rev
    BY <1>0, StartsOK, SwapSteps DEF revVars
  <2>2. Pause \/ Paused \/ Unpause \/ Unpaused \/ Reverted \/ Undone => rev' = rev
    BY DEF Pause, Paused, Unpause, Unpaused, Reverted, Undone, Bound, revVars
  <2>3. CallLost \/ Timeout \/ Crash \/ SyncRevert \/ Resync \/ Environment \/ UNCHANGED vars => rev' = rev
    BY DEF CallLost, Timeout, Crash, SyncRevert, Resync, Environment, Rest, vars, revVars
  <2>4. (\E a \in {"latest", "undo"} : Request(a)) => rev'.reverts = rev.reverts
    BY <1>0 DEF Request, Reverts
  <2>5. Put => rev' = rev \/ (wk.pc = "put" /\ wk.fresh /\ rev' = wk.copy)
    BY <1>0, PutOK DEF revVars
  <2> QED
    BY <1>0, <2>1, <2>2, <2>3, <2>4, <2>5 DEF Next, Steps, SwapStep, OneRequest
<1>2. ~SwapStep
  <2> SUFFICES ASSUME SwapStep PROVE FALSE
    OBVIOUS
  <2>1. wk.pc \notin {"idle", "put"}
    BY <1>0, SwapSteps, SwappingAttempts
  <2>2. wk.copy = rev /\ wk.copy.reverts # <<>>
    BY <1>0, <2>1, CopyType DEF OwnAction
  <2> QED
    BY <1>1, <2>2
<1>3. \A d \in Claims : pvc'[d].snap = 0
  BY <1>0, <1>1, <1>2, SnapStays DEF Untouched
<1>4. ASSUME NEW v \in Vols PROVE disk'[v].class = "std"
  BY <1>0, <1>1, ClassStays DEF Untouched, ClassOf
<1> QED
  BY <1>3, <1>4 DEF Untouched

\* The volume of a recorded claim is taken.
LEMMA TakenRecords ==
    ASSUME NEW r \in Reverts, r \in {rev, crev, wk.copy}, NEW S, NEW T, RecordsIn(r, S, T)
    PROVE  LET R(X) == {o \in X : o.vol \in Taken} IN RecordsIn(r, R(S), R(T))
<1> DEFINE R(X) == {o \in X : o.vol \in Taken}
<1> SUFFICES ASSUME NEW j \in 1..Len(r.reverts), NEW X, EntryIn(r.reverts[j], X)
             PROVE  EntryIn(r.reverts[j], R(X))
  BY DEF RecordsIn
<1>1. j \in DOMAIN r.reverts
  BY DEF Reverts
<1>2. ASSUME NEW k \in DOMAIN r.reverts[j].old PROVE r.reverts[j].old[k].vol \in Taken
  <2>1. r.reverts[j].old[k] \in Range(r.reverts[j].old)
    BY DEF Range
  <2>2. r.reverts[j].old[k].vol \in RecordedVols(r)
    BY <1>1, <2>1 DEF RecordedVols
  <2> QED
    BY <2>2 DEF Taken
<1> QED
  BY <1>2 DEF EntryIn

\* What the entry in progress records is original, whatever the worker is at.
LEMMA CurOriginal ==
    ASSUME FirstInv, wk.pc \notin {"idle", "put"}
    PROVE  \A k \in DOMAIN Old : Old[k] \in StdRecs /\ Old[k].vol \in Taken
<1>1. TypeOK /\ wk.copy = rev /\ rev \in Reverts /\ RecordsIn(rev, StdRecs, StdRecs)
  BY DEF FirstInv, OwnInv, EndsInv, TypeOK, OwnAction, Originals, Walk
<1>2. rev.reverts # <<>>
  BY <1>1, CopyType
<1> DEFINE S == {o \in StdRecs : o.vol \in Taken}
<1>3. RecordsIn(rev, S, S)
  BY <1>1, TakenRecords
<1> HIDE DEF S
<1>4. EntryIn(Latest(rev), S)
  BY <1>1, <1>2, <1>3, LatestRecords
<1> QED
  BY <1>1, <1>4 DEF EntryIn, Old, S

LEMMA OriginalsStep ==
    ASSUME "revert" \in Prompt, ~SwitchMidway, FirstInv, [Next]_vars
    PROVE  Originals'
<1>0. /\ TypeOK /\ OwnInv /\ OwnAction /\ OneRequest /\ Seen /\ rev \in Reverts /\ wk.copy \in Reverts
      /\ rev.reverts = <<>> => Untouched
      /\ Walk(StdRecs, StdRecs)
  BY DEF FirstInv, OwnInv, EndsInv, TypeOK, WorkerOK, Workers, Originals
<1> DEFINE S == {o \in StdRecs : o.vol \in Taken}
<1>1. PICK X : X = StdRecs'
  OBVIOUS
<1>2. S \subseteq X
  <2> SUFFICES ASSUME NEW o \in S PROVE o \in X
    OBVIOUS
  <2>1. o \in Recorded /\ o.vol \in Taken /\ (o.vol = NoVol \/ (o.vol \in Vols /\ disk[o.vol].class = "std"))
    BY DEF StdRecs, Recorded
  <2>2. o.vol = NoVol \/ disk'[o.vol].class = "std"
    BY <1>0, <2>1, ClassStays DEF UnusedVols
  <2> QED
    BY <1>1, <2>1, <2>2 DEF StdRecs
<1>3. RecordsIn(rev, S, S) /\ (wk.pc = "put" /\ wk.fresh => RecordsIn(wk.copy, S, S))
  BY <1>0, TakenRecords DEF Walk
<1>4. wk.pc \notin {"idle", "put"} => \A k \in DOMAIN Old : Old[k] \in S
  BY CurOriginal DEF FirstInv
<1>5. wk.pc \in Loops => \A k \in 1..wk.i : k \in DOMAIN Old
  <2>1. wk.pc \in Loops => wk.i \in 1..Len(Old) /\ Len(Old) \in Nat /\ DOMAIN Old = 1..Len(Old)
    BY <1>0, PlaceType
  <2> QED
    BY <2>1
<1>6. wk.pc \in Loops => \A k \in 1..(wk.i - 1) : k \in 1..wk.i
  BY <1>0 DEF TypeOK, WorkerOK, Workers
<1> HIDE DEF S
<1>7. Walk(S, S)
  BY <1>3, <1>4, <1>5, <1>6 DEF Walk, Loops
<1>8. /\ rev.reverts # <<>> => EntryIn(Latest(rev), S)
      /\ wk.pc = "put" /\ wk.fresh /\ wk.copy.reverts # <<>> => EntryIn(Latest(wk.copy), S)
  BY <1>0, <1>7, WalkLatest
<1>9. /\ Replacing(rev) => EntryIn(Latest(rev), X)
      /\ wk.pc = "put" /\ wk.fresh /\ Replacing(wk.copy) => EntryIn(Latest(wk.copy), X)
  BY <1>2, <1>8, ReplacingEntry, EntryGrows
<1>10. Fix /\ wk'.pc = "delete" => Cur \in X
  <2> SUFFICES ASSUME Fix PROVE Cur \in X
    OBVIOUS
  <2>1. wk.pc = "fix" /\ wk.i \in DOMAIN Old
    BY <1>0, PlaceType DEF Fix, Loops
  <2> QED
    BY <1>2, <1>4, <2>1 DEF Cur
<1>11. StartInit => \A c \in CachedClaims : [claim |-> c, vol |-> cpvc[c].vol] \in X
  <2> SUFFICES ASSUME StartInit, NEW c \in CachedClaims
               PROVE  [claim |-> c, vol |-> cpvc[c].vol] \in X
    OBVIOUS
  <2>1. rev.action = "latest" /\ StateOf(rev) \in {"none", "finished"}
    BY <1>0 DEF StartInit, Latestly, NeedsEntry, Seen
  <2>2. Untouched
    <3>1. rev.reverts # <<>> => Latest(rev) \in Details
      BY <1>0 DEF Reverts, Latest, Last
    <3>2. StateOf(rev) = "none"
      BY <1>0, <2>1 DEF OneRequest, First
    <3> QED
      BY <1>0, <3>1, <3>2 DEF StateOf, Details, States
  <2>3. disk' = disk
    BY <1>0, StartsOK DEF Starts, clusterVars
  <2>4. c \in Claims /\ cpvc[c].vol \in Vols \cup {NoVol}
    BY <1>0 DEF TypeOK, ClusterTypeOK, CachedClaims, Pvcs
  <2> QED
    BY <1>1, <2>2, <2>3, <2>4 DEF StdRecs, Recorded, Untouched
<1>12. Walk(X, X)'
  BY <1>0, <1>2, <1>7, <1>9, <1>10, <1>11, WalkStep
<1> QED
  BY <1>1, <1>12 DEF Originals

LEMMA NoSpareStep ==
    ASSUME FirstInv, [Next]_vars
    PROVE  NoSpare'
<1>0. TypeOK /\ NoSpare /\ (\A c \in Claims : c # "free")
  BY ClusterAssumption DEF FirstInv, OwnInv, EndsInv
<1> SUFFICES ASSUME NEW v \in Vols, pv'[v].live, pv'[v].ref = "free"
             PROVE  disk'[v].class = "std"
  BY DEF NoSpare
<1>1. disk'[v].class = disk[v].class
  BY <1>0, ClassStays
<1>2. CASE pv[v].live /\ pv[v].ref = "free"
  BY <1>0, <1>1, <1>2 DEF NoSpare
<1>3. CASE (Fix \/ Avail) /\ v = Cur.vol
  <2>1. wk.pc \in Loops /\ wk.i \in DOMAIN Old
    BY <1>0, <1>3, PlaceType DEF Fix, Avail, Loops
  <2>2. Cur \in StdRecs
    BY <2>1, CurOriginal DEF Cur, Loops
  <2> QED
    BY <1>1, <1>3, <2>2, ClusterAssumption DEF StdRecs
<1> QED
  BY <1>0, <1>2, <1>3, WhoFrees

LEMMA FirstInit == Init => FirstInv
<1> SUFFICES ASSUME Init PROVE FirstInv
  OBVIOUS
<1>1. rev.reverts = <<>> /\ rev.action = "idle" /\ wk.pc = "idle" /\ StateOf(rev) = "none"
  BY DEF Init, IdleWk, StateOf
<1>2. OneRequest /\ Originals
  BY <1>1 DEF OneRequest, First, Originals, Walk, RecordsIn
<1>3. Untouched /\ ClaimsSeen
  BY DEF Init, ClusterInit, Untouched, NoPvc, ClaimsSeen
<1>4. NoSpare
  BY <1>3 DEF NoSpare, Untouched
<1> QED
  BY <1>2, <1>3, <1>4, OwnInit DEF FirstInv

LEMMA FirstStep ==
    ASSUME {"revert", "pvc"} \subseteq Prompt, ~SwitchMidway, MaxRequests <= 1, FirstInv, [Next]_vars
    PROVE  FirstInv'
<1>1. "revert" \in Prompt /\ "pvc" \in Prompt /\ OwnInv /\ ClaimsSeen /\ OneRequest /\ TypeOK
  BY DEF FirstInv, OwnInv, EndsInv
<1>2. OwnInv' /\ ClaimsSeen' /\ OneRequest'
  BY <1>1, OwnInvStep, ClaimsSeenStep, OneRequestStep
<1>3. rev'.reverts = <<>> => Untouched'
  BY UntouchedStep
<1>4. Originals' /\ NoSpare'
  BY <1>1, OriginalsStep, NoSpareStep
<1> QED
  BY <1>2, <1>3, <1>4 DEF FirstInv

\* RevertLands holds of a first revert: the volumes it frees are the originals.  A
\* second revert frees those of the first, which its own claims may then get.
THEOREM FirstLands ==
    ASSUME {"revert", "sts", "pods", "pvc"} \subseteq Prompt, ~SwitchMidway, MaxRequests <= 1
    PROVE  Spec => RevertLands
<1>1. Init => FirstInv
  BY FirstInit
<1>2. FirstInv /\ [Next]_vars => FirstInv'
  BY FirstStep
<1>3. FirstInv => NoSpare
  BY DEF FirstInv
<1>4. Spec /\ []NoSpare => RevertLands
  BY LandsCorrect
<1> QED
  BY <1>1, <1>2, <1>3, <1>4, PTL DEF Spec
=============================================================================
