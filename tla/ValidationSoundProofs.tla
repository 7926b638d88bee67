------------------------- MODULE ValidationSoundProofs -------------------------
(***************************************************************************)
(* What a label "validated", a validated revert and a cleanup are worth:   *)
(* for any number of claims, runs and requests, any lost calls and         *)
(* restarts, caches however old, and runs of one strategy that meet.       *)
(*                                                                         *)
(* The kustomized claims have the same names for every run: a run that     *)
(* took a claim of another one for its own, or lost one to another's       *)
(* cleanup, has clashed, and its job may have tested other snapshots.      *)
(* What is proved is that nothing else can make a label or a validation    *)
(* untrue.                                                                 *)
(***************************************************************************)
EXTENDS ValidationRunsProofs

\* The strategy has a validation job: without one, runs succeed untested.
HasJob == "validation" \in Hooks

----------------------------------------------------------------------------
(* The inductive invariant *)

Done(r) == job[r]["validation"] = "succeeded"

\* A run that was never made has left nothing.
Unmade(r) ==
    run[r].snap = 0 =>
      /\ ~run[r].here /\ run[r].phase = 0
      /\ ~crun[r].here /\ crun[r].phase = 0
      /\ wk[r].pc = "idle" /\ job[r]["validation"] = "absent"

\* Every version of a run, and every claim made for it, has the run's snapshots.
Snaps ==
    /\ \A r \in Runs : /\ crun[r].here => crun[r].snap = run[r].snap
                       /\ wk[r].pc # "idle" => wk[r].base.snap = run[r].snap
    /\ \A c \in Claims : claim[c].here => /\ claim[c].run \in Runs
                                          /\ claim[c].snap = run[claim[c].run].snap
                                          /\ claim[c].snap # 0

\* Nobody works from a version that is ahead of the run.
Ahead(a, b) == a.phase <= b.phase /\ (a.cleanup => b.cleanup)
Behind(r) == /\ crun[r].here => Ahead(crun[r], run[r])
             /\ wk[r].pc # "idle" => Ahead(wk[r].base, run[r])

\* A run that has finished its validation has a job that succeeded, and is deleted
\* only after that and when it was asked to clean up.
Cleans(w) == w.pc \in {"deleteRun", "deleteClaim"}
Finished(r) ==
    /\ run[r].phase >= ValidationFinished \/ crun[r].phase >= ValidationFinished => Done(r)
    /\ wk[r].pc # "idle" /\ wk[r].base.phase >= ValidationFinished => Done(r)
    /\ wk[r].pc = "label" => Done(r)
    /\ wk[r].pc = "put" /\ wk[r].copy.phase >= ValidationFinished => Done(r)
    /\ Cleans(wk[r]) => wk[r].base.phase >= CleanupStarted /\ wk[r].base.cleanup

\* Until then a run that has not clashed keeps the claims it has made or found, and
\* past init they are all its own.
Owns(r, c) == claim[c].here /\ claim[c].run = r
Alone(r) == r \notin clashed /\ run[r].here /\ ~Done(r)
Past(r) == \/ run[r].phase >= InitFinished \/ crun[r].phase >= InitFinished
           \/ wk[r].pc \in Midway \ {"claim"}
           \/ wk[r].pc = "put" /\ wk[r].copy.phase >= InitFinished
           \/ job[r]["validation"] # "absent"
Claimed(r) ==
    Alone(r) =>
      /\ \A c \in Claims : Owns(r, c) => ~claim[c].dying
      /\ wk[r].pc = "claim" => \A j \in 1..(wk[r].i - 1) : Owns(r, wk[r].base.claims[j])
      /\ Past(r) => \A c \in Claims : Owns(r, c)

\* Its job has succeeded on its snapshots, and only then are they labelled.
Earned ==
    /\ \A r \in Runs : Done(r) => r \in clashed \/ Claims \X {run[r].snap} \subseteq tested
    /\ LabelsEarned /\ \A x \in labelled : x[2] # 0

\* A run made since the request has snapshots as new as the request.
Recent ==
    /\ rq.since <= newest
    /\ rq.pc = "create" => rq.snap >= rq.since
    /\ rq.pc # "idle" =>
         \A r \in Runs : run[r].snap # 0 => r \in rq.before \/ run[r].snap >= rq.since
    /\ rq.pc \in {"ask", "pause"} => Done(rq.run)

SoundInv == /\ Inv /\ Snaps /\ Earned /\ Recent
            /\ \A r \in Runs : Unmade(r) /\ Behind(r) /\ Finished(r) /\ Claimed(r)

----------------------------------------------------------------------------
(* What a step may do to a run, to its worker and to the rest *)

\* The run in the API server: deleted, put, made, or asked to clean up.
RunMove(r) ==
    \/ run'[r] = run[r]
    \/ /\ wk[r].pc = "deleteRun" /\ ~run'[r].here
       /\ run'[r].snap = run[r].snap /\ run'[r].phase = run[r].phase
       /\ run'[r].cleanup = run[r].cleanup
    \/ wk[r].pc = "put" /\ run[r] = wk[r].base /\ run'[r] = wk[r].copy
    \/ /\ rq.pc = "create" /\ rq' # rq /\ run[r].snap = 0
       /\ run'[r].snap = rq.snap /\ run'[r].here /\ run'[r].phase = 0
    \/ /\ rq.pc = "ask" /\ run[r].here /\ run'[r].here
       /\ run'[r].snap = run[r].snap /\ run'[r].phase = run[r].phase /\ run'[r].cleanup

\* The worker of the run: it begins with the cached run, or goes on with its copy.
Begins(r) ==
    /\ wk[r].pc = "idle" /\ crun[r].here /\ wk'[r].base = crun[r]
    /\ wk'[r].pc \in {"put", "claim", "job", "deleteRun"} /\ wk'[r].i = 1
    /\ wk'[r].pc = "put" /\ wk'[r].copy.phase >= ValidationFinished
         => crun[r].phase >= ValidationFinished
    /\ wk'[r].pc = "put" /\ wk'[r].copy.phase >= InitFinished => crun[r].phase >= InitFinished
    /\ wk'[r].pc \in {"job", "deleteRun"} => crun[r].phase >= InitFinished
    /\ wk'[r].pc = "deleteRun" => crun[r].cleanup /\ crun[r].phase >= CleanupStarted
Continues(r) ==
    /\ wk[r].pc \notin {"idle", "put"}
    /\ wk'[r].base = wk[r].base /\ wk'[r].copy = wk[r].copy
    /\ Cleans(wk'[r]) => Cleans(wk[r])
    /\ wk'[r].pc = "label" => wk[r].pc = "label" \/ Done(r)
    /\ wk'[r].pc = "put" => wk[r].pc = "label" \/ Cleans(wk[r]) \/ wk[r].base.phase # ValidationStarted
    /\ wk'[r].pc = "claim" => wk[r].pc = "claim" /\ wk'[r].i = wk[r].i + 1
    /\ wk[r].pc = "claim" =>
         /\ wk'[r].pc = "claim" \/ wk[r].i >= Len(wk[r].base.claims)
         /\ LET c == Cur(r) IN claim'[c].here /\ (claim'[c].run = r \/ r \in clashed')
WorkMove(r) ==
    \/ wk'[r] = wk[r] \/ wk'[r] = IdleWk
    \/ (Begins(r) \/ Continues(r)) /\ crun'[r] = crun[r]

CacheMove(r) == crun'[r] = crun[r] \/ (crun'[r] = run[r] /\ run'[r] = run[r])

\* A claim: made for a run, or what it was; lost to a clash, with its run, or to the
\* cleanup of its run.
Kept(c) == claim'[c].here /\ claim'[c].run = claim[c].run /\ claim'[c].snap = claim[c].snap
Taken(r) == r \in clashed' \/ ~run[r].here \/ wk[r].pc = "deleteClaim"
ClaimMove(c) ==
    /\ claim'[c].here =>
         \/ claim[c].here /\ Kept(c)
         \/ /\ ~claim'[c].dying
            /\ \E r \in Runs : /\ wk[r].pc = "claim"
                              /\ claim'[c].run = r /\ claim'[c].snap = wk[r].base.snap
    /\ claim[c].here /\ ~claim[c].dying =>
         (Kept(c) /\ ~claim'[c].dying) \/ Taken(claim[c].run)

\* The jobs and what they have tested.
JobMove(r) ==
    /\ Done(r) => Done(r)'
    /\ Done(r)' => \/ Done(r)
                   \/ /\ run[r].here /\ run' = run /\ job[r]["validation"] # "absent"
                      /\ \A c \in Claims : claim[c].here /\ <<c, claim[c].snap>> \in tested'
    /\ job'[r]["validation"] # "absent" => job[r]["validation"] # "absent" \/ wk[r].pc = "job"
LabelMove ==
    /\ tested \subseteq tested'
    /\ \A x \in labelled' : \/ x \in labelled
                            \/ \E r \in Runs : /\ wk[r].pc = "label"
                                               /\ x \in Claims \X {wk[r].base.snap}
RestMove == /\ \A c \in Claims : ClaimMove(c)
            /\ (\A r \in Runs : JobMove(r)) /\ LabelMove
            /\ newest <= newest' /\ clashed \subseteq clashed'

\* The revert.
RevertMove ==
    \/ rq' = rq
    \/ /\ rq.pc = "idle" /\ rq'.pc = "start" /\ rq'.since = newest
       /\ rq'.before = Runs \ Unused /\ run' = run
    \/ /\ rq.pc # "idle" /\ rq'.since = rq.since /\ rq'.before = rq.before
       /\ \/ rq'.pc \in {"start", "match", "poll"}
          \/ rq.pc = "match" /\ rq'.pc = "create" /\ rq'.snap = newest
          \/ rq'.pc \in {"ask", "pause"} /\ crun[rq'.run].phase >= ValidationFinished
          \/ rq.pc = "ask" /\ rq'.pc = "pause" /\ rq'.run = rq.run
    \/ rq'.pc = "idle" /\ rq'.since = 0

----------------------------------------------------------------------------
(* Every step is one of those *)

LEMMA RunMoves == ASSUME Inv, [Next]_vars PROVE \A r \in Runs : RunMove(r)
<1> SUFFICES ASSUME NEW r \in Runs PROVE RunMove(r)
  OBVIOUS
<1>1. run \in [Runs -> RunRecords]
  BY DEF Inv, RunsInv
<1>2. CASE UNCHANGED run
  BY <1>2 DEF RunMove
<1>3. ASSUME NEW q \in Runs, DeleteRun(q) PROVE RunMove(r)
  <2>1. \/ run' = run
        \/ run' = [run EXCEPT ![q] = [run[q] EXCEPT !.here = FALSE]] /\ wk[q].pc = "deleteRun"
    BY <1>3 DEF DeleteRun, At
  <2>2. run[r] \in RunRecords
    BY <1>1
  <2> QED
    BY <1>1, <2>1, <2>2 DEF RunMove, RunRecords
<1>4. ASSUME NEW q \in Runs, Put(q) PROVE RunMove(r)
  <2>1. \/ run' = run
        \/ /\ run[q] = wk[q].base /\ run' = [run EXCEPT ![q] = wk[q].copy]
           /\ wk[q].pc = "put"
    BY <1>4 DEF Put, At, Accepted
  <2> QED
    BY <1>1, <2>1 DEF RunMove
<1>5. CASE CreateRun
  <2> DEFINE b == [NoRun EXCEPT !.here = TRUE, !.snap = rq.snap]
             u == CHOOSE v \in Unused : TRUE
  <2>1. rq.pc = "create" /\ Unused # {} /\ run' = [run EXCEPT ![u] = b]
    BY <1>5 DEF CreateRun
  <2>2. u \in Runs /\ run[u].snap = 0
    BY <2>1 DEF Unused
  <2>3. b.here /\ b.snap = rq.snap /\ b.phase = 0
    BY DEF NoRun
  <2>4. PICK q : RqReply("create", [rq EXCEPT !.pc = "poll", !.run = q])
    BY <1>5 DEF CreateRun
  <2>5. rq \in Reverts
    BY DEF Inv, RevertInv, RevertOK
  <2>6. rq' # rq
    BY <2>1, <2>4, <2>5 DEF RqReply, RqError, ToRq, IdleRq, Reverts
  <2> HIDE DEF b, u
  <2> QED
    BY <1>1, <2>1, <2>2, <2>3, <2>6 DEF RunMove
<1>6. CASE AskCleanup
  <2> DEFINE b == [rq.base EXCEPT !.cleanup = TRUE]
  <2>1. /\ rq.pc = "ask"
        /\ \/ run' = run
           \/ run[rq.run] = rq.base /\ run' = [run EXCEPT ![rq.run] = b]
    BY <1>6 DEF AskCleanup, Accepted
  <2>2. rq.run \in Runs /\ rq.base \in RunRecords /\ rq.base.here
    BY <2>1 DEF Inv, RevertInv, RevertOK, Reverts
  <2>3. b.here /\ b.snap = rq.base.snap /\ b.phase = rq.base.phase /\ b.cleanup
    BY <2>2 DEF RunRecords
  <2> HIDE DEF b
  <2> QED
    BY <1>1, <2>1, <2>2, <2>3 DEF RunMove
<1> QED
  BY <1>2, <1>3, <1>4, <1>5, <1>6, WhoWritesRuns DEF RunWrites

LEMMA CacheMoves == ASSUME Inv, [Next]_vars PROVE \A r \in Runs : CacheMove(r)
<1> SUFFICES ASSUME NEW r \in Runs PROVE CacheMove(r)
  OBVIOUS
<1>1. crun \in [Runs -> RunRecords]
  BY DEF Inv, RunsInv
<1>2. CASE UNCHANGED crun
  BY <1>2 DEF CacheMove
<1>3. CASE Crash
  BY <1>3 DEF Crash, CacheMove
<1>4. ASSUME NEW q \in Runs, SyncRun(q) PROVE CacheMove(r)
  <2>1. crun' = [crun EXCEPT ![q] = run[q]] /\ run' = run
    BY <1>4 DEF SyncRun
  <2> QED
    BY <1>1, <2>1 DEF CacheMove
<1> QED
  BY <1>2, <1>3, <1>4, WhoWritesCache

\* A worker that turns to its next claim keeps its copy of the run.
LEMMA NextKeeps ==
    ASSUME NEW r \in Runs, wk[r] \in Workers, NEW after
    PROVE  LET v == NextClaim(r, after)
           IN  /\ v.base = wk[r].base /\ v.copy = wk[r].copy
               /\ \/ v.pc = wk[r].pc /\ v.i = wk[r].i + 1
                  \/ v.pc = after /\ wk[r].i >= Len(wk[r].base.claims)
<1>1. wk[r].i \in Nat /\ Len(wk[r].base.claims) \in Nat
  BY DEF Workers, RunRecords
<1> QED
  BY <1>1 DEF NextClaim, Workers

\* The worker of run r takes a step, or fails.
WorkerStep(r) == StartRun(r) \/ StepRun(r) \/ CallLost(r) \/ Timeout(r)

LEMMA WorkerBegins ==
    ASSUME Inv, NEW r \in Runs, StartRun(r)
    PROVE  (wk'[r] = IdleWk \/ Begins(r)) /\ crun' = crun
<1> DEFINE a == crun[r]
<1>1. a \in RunRecords /\ wk \in [Runs -> Workers]
  BY DEF Inv, RunsInv, WorkInv
<1>2. ASSUME NEW w, Start(r, w)
      PROVE  wk'[r] = w /\ crun' = crun /\ wk[r].pc = "idle"
  BY <1>1, <1>2 DEF Start, Goto, At, runVars
<1>3. /\ Advance(a).cleanup = a.cleanup /\ Advance(a).phase = a.phase + 1
      /\ a.phase \in 0..CleanupFinished
  BY <1>1 DEF Advance, RunRecords
<1>4. ASSUME NEW pc, NEW copy
      PROVE  /\ Attempt(r, pc, copy).pc = pc /\ Attempt(r, pc, copy).base = crun[r]
             /\ Attempt(r, pc, copy).copy = copy /\ Attempt(r, pc, copy).i = 1
  BY DEF Attempt
<1>5. CASE StartNothing(r)
  BY <1>2, <1>5 DEF StartNothing
<1>6. CASE StartMark(r)
  <2>1. /\ a.here
        /\ a.phase \in {0, KustFinished, InitFinished, PreValidationFinished, ValidationFinished}
        /\ Start(r, Attempt(r, "put", Advance(a)))
    BY <1>6 DEF StartMark
  <2>2. /\ a.phase + 1 >= ValidationFinished => a.phase >= ValidationFinished
        /\ a.phase + 1 >= InitFinished => a.phase >= InitFinished
    BY <2>1 DEF KustFinished, InitFinished, PreValidationFinished, ValidationFinished
  <2>3. /\ wk'[r].pc = "put" /\ wk'[r].base = a /\ wk'[r].copy = Advance(a)
        /\ crun' = crun /\ wk[r].pc = "idle" /\ wk'[r].i = 1
    BY <1>2, <1>4, <2>1
  <2> QED
    BY <1>3, <2>1, <2>2, <2>3 DEF Begins
<1>7. CASE StartKust(r)
  <2>1. PICK order \in SetToSeqs(Claims) :
          Start(r, Attempt(r, "put", [Advance(a) EXCEPT !.claims = order]))
    BY <1>7 DEF StartKust
  <2> DEFINE b == [Advance(a) EXCEPT !.claims = order]
  <2>2. a.here /\ a.phase = 1
    BY <1>7 DEF StartKust, KustStarted
  <2>3. b.cleanup = a.cleanup /\ b.phase = a.phase + 1
    BY <1>1 DEF Advance, RunRecords
  <2> HIDE DEF b
  <2>4. /\ wk'[r].pc = "put" /\ wk'[r].base = a /\ wk'[r].copy = b
        /\ crun' = crun /\ wk[r].pc = "idle" /\ wk'[r].i = 1
    BY <1>2, <1>4, <2>1 DEF b
  <2>5. ~(b.phase >= ValidationFinished) /\ ~(b.phase >= InitFinished)
    BY <2>2, <2>3 DEF ValidationFinished, InitFinished
  <2> QED
    BY <2>2, <2>3, <2>4, <2>5 DEF Begins
<1>8. CASE StartInit(r) \/ StartHook(r) \/ StartCleanup(r)
  <2>1. PICK pc \in {"claim", "job", "deleteRun"} :
          /\ a.here /\ Start(r, Attempt(r, pc, Advance(a)))
          /\ pc = "deleteRun" => a.cleanup /\ a.phase >= CleanupStarted
          /\ pc # "claim" => a.phase >= InitFinished
    BY <1>8 DEF StartInit, StartHook, StartCleanup, CleanupStarted, InitFinished,
                PreValidationStarted, ValidationStarted
  <2>2. /\ wk'[r].pc = pc /\ wk'[r].base = a /\ wk'[r].copy = Advance(a)
        /\ crun' = crun /\ wk[r].pc = "idle" /\ wk'[r].i = 1
    BY <1>2, <1>4, <2>1
  <2> QED
    BY <1>3, <2>1, <2>2 DEF Begins
<1> QED
  BY <1>5, <1>6, <1>7, <1>8 DEF StartRun

LEMMA WorkerContinues ==
    ASSUME Inv, HasJob, NEW r \in Runs, StepRun(r)
    PROVE  (wk'[r] = IdleWk \/ Continues(r)) /\ crun' = crun
<1> DEFINE w == wk[r]
<1>1. wk \in [Runs -> Workers] /\ w \in Workers
  BY DEF Inv, WorkInv
<1>2. ASSUME NEW v, Goto(r, v) PROVE wk'[r] = v
  BY <1>1, <1>2 DEF Goto
<1>3. ASSUME NEW v, NEW call, Reply(r, call, v) PROVE wk'[r] = v \/ wk'[r] = IdleWk
  BY <1>2, <1>3 DEF Reply, Error
<1>4. ASSUME NEW pc
      PROVE  [w EXCEPT !.pc = pc].pc = pc /\ [w EXCEPT !.pc = pc].base = w.base
             /\ [w EXCEPT !.pc = pc].copy = w.copy
  BY <1>1 DEF Workers
<1> USE DEF runVars, At, Cleans
<1>5. CASE CreateClaim(r)
  <2> DEFINE c == Cur(r)
             b == [NoClaim EXCEPT !.here = TRUE, !.run = r, !.snap = wk[r].base.snap]
  <2>1. w.pc = "claim" /\ crun' = crun /\ (wk'[r] = NextClaim(r, "bindWait") \/ wk'[r] = IdleWk)
    BY <1>3, <1>5 DEF CreateClaim
  <2>2. c \in Claims /\ claim \in [Claims -> ClaimRecords]
    BY <2>1, CurOK DEF Inv, WorkInv, Visits, RestInv
  <2>3. \/ claim[c].here /\ claim' = claim /\ clashed' = clashed \cup ({r} \ {claim[c].run})
        \/ claim' = [claim EXCEPT ![c] = b]
    BY <1>5 DEF CreateClaim
  <2>4. b.here /\ b.run = r
    BY DEF NoClaim
  <2> HIDE DEF b, c
  <2>5. claim'[c].here /\ (claim'[c].run = r \/ r \in clashed')
    BY <2>2, <2>3, <2>4
  <2> QED
    BY <1>1, <2>1, <2>5, NextKeeps DEF Continues, c
<1>6. CASE BindWait(r)
  <2>1. w.pc = "bindWait" /\ crun' = crun /\ wk'[r] = [w EXCEPT !.pc = "objects"]
    BY <1>2, <1>6 DEF BindWait
  <2> QED
    BY <1>4, <2>1 DEF Continues
<1>7. CASE CreateObjects(r)
  <2>1. /\ w.pc = "objects" /\ crun' = crun
        /\ wk'[r] = [w EXCEPT !.pc = "job"] \/ wk'[r] = IdleWk
    BY <1>3, <1>7 DEF CreateObjects
  <2> QED
    BY <1>4, <2>1 DEF Continues
<1>8. CASE SkipJob(r)
  <2>1. w.pc = "job" /\ crun' = crun /\ wk'[r] = AfterJob(r) /\ Hook(r) \notin Hooks
    BY <1>2, <1>8 DEF SkipJob
  <2>2. w.base.phase # ValidationStarted
    BY <2>1 DEF HasJob, Hook, HookOf, ValidationStarted, InitStarted, PreValidationStarted
  <2> QED
    BY <1>4, <2>1, <2>2 DEF AfterJob, Continues
<1>9. CASE CreateJob(r)
  <2>1. /\ w.pc = "job" /\ crun' = crun
        /\ wk'[r] = [w EXCEPT !.pc = "jobWait"] \/ wk'[r] = IdleWk
    BY <1>3, <1>9 DEF CreateJob
  <2> QED
    BY <1>4, <2>1 DEF Continues
<1>10. CASE JobWait(r)
  <2>1. w.pc = "jobWait" /\ crun' = crun /\ wk'[r] = AfterJob(r) /\ JobDone(r)
    BY <1>2, <1>10 DEF JobWait
  <2>2. w.base.phase = ValidationStarted => Done(r)
    BY <2>1 DEF JobDone, Done, Hook, HookOf, ValidationStarted, InitStarted, PreValidationStarted
  <2> QED
    BY <1>4, <2>1, <2>2 DEF AfterJob, Continues
<1>11. CASE Label(r)
  <2>1. w.pc = "label" /\ crun' = crun /\ (wk'[r] = NextClaim(r, "put") \/ wk'[r] = IdleWk)
    BY <1>3, <1>11 DEF Label
  <2> QED
    BY <1>1, <2>1, NextKeeps DEF Continues
<1>12. CASE DeleteRun(r)
  <2>1. w.pc = "deleteRun" /\ crun' = crun /\ wk'[r] = [w EXCEPT !.pc = "deleteClaim"]
    BY <1>2, <1>12 DEF DeleteRun
  <2> QED
    BY <1>4, <2>1 DEF Continues
<1>13. CASE DeleteClaim(r)
  <2>1. w.pc = "deleteClaim" /\ crun' = crun /\ wk'[r] = NextClaim(r, "put")
    BY <1>2, <1>13 DEF DeleteClaim
  <2> QED
    BY <1>1, <2>1, NextKeeps DEF Continues
<1>14. CASE Put(r)
  BY <1>2, <1>3, <1>14 DEF Put, Error
<1> QED
  BY <1>5, <1>6, <1>7, <1>8, <1>9, <1>10, <1>11, <1>12, <1>13, <1>14 DEF StepRun

\* A worker's step is of its own run only.
LEMMA Elsewhere ==
    ASSUME Inv, NEW q \in Runs, WorkerStep(q), NEW r \in Runs, r # q
    PROVE  wk'[r] = wk[r]
<1>1. wk \in [Runs -> Workers]
  BY DEF Inv, WorkInv
<1>2. \A w : Goto(q, w) => wk'[r] = wk[r]
  BY <1>1 DEF Goto
<1>3. \A w, call : Reply(q, call, w) => wk'[r] = wk[r]
  BY <1>2 DEF Reply, Error
<1>4. Error(q) => wk'[r] = wk[r]
  BY <1>2 DEF Error
<1>5. StartRun(q) => wk'[r] = wk[r]
  BY <1>2 DEF StartRun, StartNothing, StartMark, StartKust, StartInit, StartHook,
              StartCleanup, Start
<1>6. StepRun(q) => wk'[r] = wk[r]
  BY <1>2, <1>3, <1>4
     DEF StepRun, CreateClaim, BindWait, CreateObjects, SkipJob, CreateJob, JobWait,
         Label, DeleteRun, DeleteClaim, Put
<1>7. CallLost(q) \/ Timeout(q) => wk'[r] = wk[r]
  BY <1>4 DEF CallLost, Timeout
<1> QED
  BY <1>5, <1>6, <1>7 DEF WorkerStep

LEMMA WorkMoves == ASSUME Inv, HasJob, [Next]_vars PROVE \A r \in Runs : WorkMove(r)
<1> SUFFICES ASSUME NEW r \in Runs PROVE WorkMove(r)
  OBVIOUS
<1>1. wk \in [Runs -> Workers]
  BY DEF Inv, WorkInv
<1>2. UNCHANGED wk => WorkMove(r)
  BY DEF WorkMove
<1>3. ASSUME NEW q \in Runs, WorkerStep(q) PROVE WorkMove(r)
  <2>1. CASE r # q
    BY <1>3, <2>1, Elsewhere DEF WorkMove
  <2>2. CASE r = q /\ StartRun(q)
    BY <2>2, WorkerBegins DEF WorkMove
  <2>3. CASE r = q /\ StepRun(q)
    BY <2>3, WorkerContinues DEF WorkMove
  <2>4. CASE r = q /\ (CallLost(q) \/ Timeout(q))
    <3>1. wk' = [wk EXCEPT ![r] = IdleWk]
      BY <2>4 DEF CallLost, Timeout, Error, Goto
    <3> QED
      BY <1>1, <3>1 DEF WorkMove
  <2> QED
    BY <1>3, <2>1, <2>2, <2>3, <2>4 DEF WorkerStep
<1>4. ASSUME NEW q \in Runs, SyncRun(q) \/ Resync(q) PROVE WorkMove(r)
  BY <1>2, <1>4 DEF SyncRun, Resync
<1>5. ASSUME NEW c \in Claims, SyncClaim(c) PROVE WorkMove(r)
  BY <1>2, <1>5 DEF SyncClaim
<1>6. StepRevert \/ RqFails \/ Request => WorkMove(r)
  BY <1>2 DEF StepRevert, CheckMissing, MatchRun, CreateRun, PollRun, AskCleanup, Paused,
              RqFails, Request, RqRest
<1>7. Crash => WorkMove(r)
  BY DEF Crash, WorkMove
<1>8. Cluster => WorkMove(r)
  BY <1>2 DEF Cluster, TakeSnapshots, CollectApp, BindClaim, RemoveClaim, CollectClaim,
              JobSucceeds, ClusterRest
<1>9. UNCHANGED vars => WorkMove(r)
  BY <1>2 DEF vars
<1> QED
  BY <1>3, <1>4, <1>5, <1>6, <1>7, <1>8, <1>9 DEF Next, WorkerStep

LEMMA RevertMoves == ASSUME Inv, [Next]_vars PROVE RevertMove
<1>1. rq \in Reverts
  BY DEF Inv, RevertInv, RevertOK
<1>2. ASSUME rq.pc # "idle", RqError PROVE RevertMove
  <2>1. rq' = [IdleRq EXCEPT !.pc = "start", !.since = rq.since, !.before = rq.before]
    BY <1>2 DEF RqError, ToRq
  <2>2. rq'.pc = "start" /\ rq'.since = rq.since /\ rq'.before = rq.before
    BY <2>1 DEF IdleRq
  <2> QED
    BY <1>2, <2>2 DEF RevertMove
<1>3. /\ \A pc : RqGoto(pc) => /\ rq'.pc = pc /\ rq'.since = rq.since
                               /\ rq'.before = rq.before /\ rq'.run = rq.run
      /\ \A pc, r : ToRq([rq EXCEPT !.pc = pc, !.run = r])
                      => rq'.pc = pc /\ rq'.since = rq.since /\ rq'.before = rq.before /\ rq'.run = r
      /\ \A pc, n : ToRq([rq EXCEPT !.pc = pc, !.snap = n])
                      => rq'.pc = pc /\ rq'.since = rq.since /\ rq'.before = rq.before /\ rq'.snap = n
      /\ \A pc, b : ToRq([rq EXCEPT !.pc = pc, !.base = b])
                      => /\ rq'.pc = pc /\ rq'.since = rq.since /\ rq'.before = rq.before
                         /\ rq'.run = rq.run
  BY <1>1 DEF RqGoto, ToRq, Reverts
<1> USE DEF runVars
<1>5. UNCHANGED rq => RevertMove
  BY DEF RevertMove
<1>6. ASSUME NEW r \in Runs, WorkerStep(r) PROVE RevertMove
  <2>1. UNCHANGED rq
    BY <1>6 DEF WorkerStep, CallLost, Timeout,
         StartRun, StartNothing, StartMark, StartKust, StartInit, StartHook, StartCleanup, Start,
         StepRun, CreateClaim, BindWait, CreateObjects, SkipJob, CreateJob, JobWait,
         Label, DeleteRun, DeleteClaim, Put
  <2> QED
    BY <1>5, <2>1
<1>7. ASSUME NEW r \in Runs, SyncRun(r) \/ Resync(r) PROVE RevertMove
  BY <1>5, <1>7 DEF SyncRun, Resync
<1>8. ASSUME NEW c \in Claims, SyncClaim(c) PROVE RevertMove
  BY <1>5, <1>8 DEF SyncClaim
<1>9. Cluster => RevertMove
  BY <1>5 DEF Cluster, TakeSnapshots, CollectApp, BindClaim, RemoveClaim, CollectClaim,
              JobSucceeds, ClusterRest
<1>10. CASE CheckMissing
  <2>1. rq.pc = "start"
    BY <1>10 DEF CheckMissing
  <2>2. CASE RqGoto("match")
    BY <1>3, <2>1, <2>2 DEF RevertMove
  <2>3. ASSUME NEW r \in Matching, Enough(r), ToRq([rq EXCEPT !.pc = "pause", !.run = r])
        PROVE  RevertMove
    <3>1. rq'.pc = "pause" /\ rq'.since = rq.since /\ rq'.before = rq.before /\ rq'.run = r
      BY <1>3, <2>3
    <3> QED
      BY <2>1, <2>3, <3>1 DEF RevertMove, Enough, Validated
  <2> QED
    BY <1>10, <2>2, <2>3 DEF CheckMissing
<1>11. CASE MatchRun
  <2>1. rq.pc = "match"
    BY <1>11 DEF MatchRun
  <2>2. CASE \E r \in Matching : ToRq([rq EXCEPT !.pc = "poll", !.run = r])
    BY <1>3, <2>1, <2>2 DEF RevertMove
  <2>3. CASE ToRq([rq EXCEPT !.pc = "create", !.snap = newest])
    BY <1>3, <2>1, <2>3 DEF RevertMove
  <2> QED
    BY <1>11, <2>2, <2>3 DEF MatchRun
<1>12. CASE CreateRun
  <2>1. PICK r : rq.pc = "create" /\ RqReply("create", [rq EXCEPT !.pc = "poll", !.run = r])
    BY <1>12 DEF CreateRun
  <2>2. CASE RqError
    BY <1>2, <2>1, <2>2
  <2>3. CASE ToRq([rq EXCEPT !.pc = "poll", !.run = r])
    BY <1>3, <2>1, <2>3 DEF RevertMove
  <2> QED
    BY <2>1, <2>2, <2>3 DEF RqReply
<1>13. CASE PollRun
  <2>1. rq.pc = "poll"
    BY <1>13 DEF PollRun
  <2>2. CASE RqError
    BY <1>2, <2>1, <2>2
  <2>3. CASE Validated(rq.run) /\ ToRq([rq EXCEPT !.pc = "ask", !.base = crun[rq.run]])
    <3>1. rq'.pc = "ask" /\ rq'.since = rq.since /\ rq'.before = rq.before /\ rq'.run = rq.run
      BY <1>3, <2>3
    <3> QED
      BY <2>1, <2>3, <3>1 DEF RevertMove, Validated
  <2> QED
    BY <1>13, <2>2, <2>3 DEF PollRun
<1>14. CASE AskCleanup
  <2>1. rq.pc = "ask" /\ (RqError \/ RqGoto("pause"))
    BY <1>14 DEF AskCleanup, RqReply, RqGoto
  <2>2. CASE RqGoto("pause")
    BY <1>3, <2>1, <2>2 DEF RevertMove
  <2> QED
    BY <1>2, <2>1, <2>2
<1>15. CASE Paused
  <2>1. rq' = IdleRq
    BY <1>15 DEF Paused, ToRq
  <2>2. rq'.pc = "idle" /\ rq'.since = 0
    BY <2>1 DEF IdleRq
  <2> QED
    BY <2>2 DEF RevertMove
<1>16. CASE RqFails
  <2>1. RqError /\ rq.pc # "idle"
    BY <1>16, ValidationAssumption DEF RqFails, RunCalls, RevertCalls
  <2> QED
    BY <1>2, <2>1
<1>17. CASE Request
  <2>1. /\ rq.pc = "idle" /\ run' = run
        /\ rq' = [IdleRq EXCEPT !.pc = "start", !.since = newest, !.before = Runs \ Unused]
    BY <1>17 DEF Request, ToRq
  <2>2. rq'.pc = "start" /\ rq'.since = newest /\ rq'.before = Runs \ Unused
    BY <2>1 DEF IdleRq
  <2> QED
    BY <2>1, <2>2 DEF RevertMove
<1>18. CASE Crash
  <2>1. (rq.pc = "idle" /\ rq' = rq) \/ (rq.pc # "idle" /\ RqError)
    BY <1>18 DEF Crash
  <2> QED
    BY <1>2, <1>5, <2>1
<1> QED
  BY <1>5, <1>6, <1>7, <1>8, <1>9, <1>10, <1>11, <1>12, <1>13, <1>14, <1>15, <1>16, <1>17,
     <1>18 DEF Next, StepRevert, WorkerStep, vars

\* The steps that leave the claims, the jobs, the labels and the snapshots alone.
RestSame == UNCHANGED <<claim, job, tested, labelled, clashed, newest>>

LEMMA SameMoves == ASSUME Inv, RestSame PROVE RestMove
<1>1. newest \in Nat
  BY ValidationAssumption DEF Inv, RevertInv, RevertOK
<1> QED
  BY <1>1 DEF RestSame, RestMove, ClaimMove, Kept, JobMove, LabelMove, Done

\* A claim that is bound, marked for deletion or removed is nobody else's.
LEMMA TouchedClaim ==
    ASSUME claim \in [Claims -> ClaimRecords], NEW c \in Claims, NEW b,
           claim' = [claim EXCEPT ![c] = b],
           b.here => claim[c].here /\ b.run = claim[c].run /\ b.snap = claim[c].snap,
           claim[c].here /\ ~claim[c].dying => (b.here /\ ~b.dying) \/ Taken(claim[c].run)
    PROVE  \A d \in Claims : ClaimMove(d)
  BY DEF ClaimMove, Kept

LEMMA RestMoves == ASSUME Inv, HasJob, [Next]_vars PROVE RestMove
<1> USE DEF runVars, claimVars, testVars, At
<1>1. /\ claim \in [Claims -> ClaimRecords] /\ wk \in [Runs -> Workers]
      /\ job \in [Runs -> [Hooks -> {"absent", "created", "succeeded"}]]
      /\ newest \in Nat /\ "validation" \in Hooks
  BY ValidationAssumption DEF Inv, RestInv, WorkInv, RevertInv, RevertOK, HasJob
<1>2. ASSUME UNCHANGED <<job, tested, labelled, newest>>, clashed \subseteq clashed',
             \A c \in Claims : ClaimMove(c)
      PROVE  RestMove
  BY <1>1, <1>2 DEF RestMove, JobMove, LabelMove, Done
<1>4. ASSUME UNCHANGED <<claim, clashed, newest>>, LabelMove, \A r \in Runs : JobMove(r)
      PROVE  RestMove
  BY <1>1, <1>4 DEF RestMove, ClaimMove, Kept
<1>5. ASSUME NEW r \in Runs, CreateClaim(r) PROVE RestMove
  <2> DEFINE b == [NoClaim EXCEPT !.here = TRUE, !.run = r, !.snap = wk[r].base.snap]
             c == Cur(r)
  <2>1. /\ UNCHANGED <<job, tested, labelled, newest>> /\ wk[r].pc = "claim"
        /\ clashed \subseteq clashed'
        /\ \/ claim' = claim
           \/ ~claim[c].here /\ claim' = [claim EXCEPT ![c] = b]
    BY <1>5 DEF CreateClaim
  <2>2. b.run = r /\ b.snap = wk[r].base.snap /\ ~b.dying
    BY DEF NoClaim
  <2> HIDE DEF b, c
  <2>3. ASSUME NEW d \in Claims PROVE ClaimMove(d)
    BY <1>1, <2>1, <2>2 DEF ClaimMove, Kept
  <2> QED
    BY <1>2, <2>1, <2>3
<1>6. ASSUME NEW r \in Runs, DeleteClaim(r) PROVE RestMove
  <2> DEFINE c == Cur(r)
             b == [claim[c] EXCEPT !.dying = TRUE]
  <2>1. /\ UNCHANGED <<job, tested, labelled, newest>> /\ wk[r].pc = "deleteClaim"
        /\ clashed \subseteq clashed'
        /\ \/ claim' = claim
           \/ /\ claim[c].here /\ claim' = [claim EXCEPT ![c] = b]
              /\ clashed' = clashed \cup ({claim[c].run} \ {r})
    BY <1>6 DEF DeleteClaim
  <2>2. c \in Claims
    BY <2>1, CurOK DEF Inv, WorkInv, Visits
  <2>3. b.run = claim[c].run /\ b.snap = claim[c].snap
    BY <1>1, <2>2 DEF ClaimRecords
  <2> HIDE DEF b, c
  <2>4. claim' = claim => \A d \in Claims : ClaimMove(d)
    BY DEF ClaimMove, Kept
  <2>5. claim' # claim => Taken(claim[c].run)
    BY <2>1 DEF Taken
  <2>6. \A d \in Claims : ClaimMove(d)
    BY <1>1, <2>1, <2>2, <2>3, <2>4, <2>5, TouchedClaim
  <2> QED
    BY <1>2, <2>1, <2>6
<1>7. ASSUME NEW r \in Runs, CreateObjects(r) PROVE RestMove
  <2>1. UNCHANGED <<claim, job, tested, labelled, newest>> /\ clashed \subseteq clashed'
    BY <1>7 DEF CreateObjects
  <2>2. \A c \in Claims : ClaimMove(c)
    BY <2>1 DEF ClaimMove, Kept
  <2> QED
    BY <1>2, <2>1, <2>2
<1>8. ASSUME NEW r \in Runs, CreateJob(r) PROVE RestMove
  <2>1. /\ UNCHANGED <<claim, labelled, tested, clashed, newest>> /\ Hook(r) \in Hooks
        /\ wk[r].pc = "job"
        /\ \/ job' = job
           \/ /\ job[r][Hook(r)] = "absent"
              /\ job' = [job EXCEPT ![r] = [job[r] EXCEPT ![Hook(r)] = "created"]]
    BY <1>8 DEF CreateJob
  <2>2. ASSUME NEW q \in Runs
        PROVE  /\ job'[q]["validation"] = "succeeded" <=> job[q]["validation"] = "succeeded"
               /\ job'[q]["validation"] # "absent" =>
                    job[q]["validation"] # "absent" \/ wk[q].pc = "job"
    BY <1>1, <2>1
  <2>3. LabelMove /\ \A q \in Runs : JobMove(q)
    BY <2>1, <2>2 DEF LabelMove, JobMove, Done
  <2> QED
    BY <1>4, <2>1, <2>3
<1>9. ASSUME NEW r \in Runs, Label(r) PROVE RestMove
  <2>1. /\ UNCHANGED <<claim, job, tested, clashed, newest>> /\ wk[r].pc = "label"
        /\ labelled' = labelled \cup {<<Cur(r), wk[r].base.snap>>}
    BY <1>9 DEF Label
  <2>2. Cur(r) \in Claims
    BY <2>1, CurOK DEF Inv, WorkInv, Visits
  <2>3. LabelMove /\ \A q \in Runs : JobMove(q)
    BY <2>1, <2>2 DEF LabelMove, JobMove, Done
  <2> QED
    BY <1>4, <2>1, <2>3
<1>10. ASSUME NEW r \in Runs, NEW h \in Hooks, JobSucceeds(r, h) PROVE RestMove
  <2>1. /\ UNCHANGED <<claim, labelled, clashed, newest, run>> /\ run[r].here
        /\ \A c \in Claims : claim[c].here
        /\ job[r][h] = "created"
        /\ job' = [job EXCEPT ![r] = [job[r] EXCEPT ![h] = "succeeded"]]
        /\ tested' = IF h = "validation" THEN tested \cup {<<c, claim[c].snap>> : c \in Claims}
                     ELSE tested
    BY <1>10 DEF JobSucceeds, Serving, ClusterRest
  <2>2. ASSUME NEW q \in Runs PROVE JobMove(q)
    <3>1. /\ Done(q) => Done(q)'
          /\ job'[q]["validation"] # "absent" => job[q]["validation"] # "absent"
      BY <1>1, <2>1 DEF Done
    <3>2. ASSUME Done(q)', ~Done(q)
          PROVE  q = r /\ h = "validation" /\ job[q]["validation"] # "absent"
      BY <1>1, <2>1, <3>2 DEF Done
    <3> QED
      BY <2>1, <3>1, <3>2 DEF JobMove
  <2> QED
    BY <1>4, <2>1, <2>2 DEF LabelMove
<1>11. ASSUME NEW c \in Claims, BindClaim(c) \/ RemoveClaim(c) \/ CollectClaim(c) PROVE RestMove
  <2>1. UNCHANGED <<job, tested, labelled, clashed, newest>>
    BY <1>11 DEF BindClaim, RemoveClaim, CollectClaim, ClusterRest
  <2>2. claim[c] \in ClaimRecords
    BY <1>1
  <2>3. ASSUME BindClaim(c) PROVE \A d \in Claims : ClaimMove(d)
    <3> DEFINE b == [claim[c] EXCEPT !.bound = TRUE]
    <3>1. claim' = [claim EXCEPT ![c] = b] /\ claim[c].here
      BY <2>3 DEF BindClaim
    <3>2. /\ b.here = claim[c].here /\ b.run = claim[c].run /\ b.snap = claim[c].snap
          /\ b.dying = claim[c].dying
      BY <2>2 DEF ClaimRecords
    <3> HIDE DEF b
    <3> QED
      BY <1>1, <3>1, <3>2, TouchedClaim
  <2>4. ASSUME RemoveClaim(c) PROVE \A d \in Claims : ClaimMove(d)
    <3>1. claim' = [claim EXCEPT ![c] = NoClaim] /\ claim[c].dying /\ ~NoClaim.here
      BY <2>4 DEF RemoveClaim, NoClaim
    <3> QED
      BY <1>1, <3>1, TouchedClaim
  <2>5. ASSUME CollectClaim(c) PROVE \A d \in Claims : ClaimMove(d)
    <3> DEFINE b == [claim[c] EXCEPT !.dying = TRUE]
    <3>1. claim' = [claim EXCEPT ![c] = b] /\ claim[c].here /\ Taken(claim[c].run)
      BY <2>5 DEF CollectClaim, Gone, Taken
    <3>2. b.run = claim[c].run /\ b.snap = claim[c].snap
      BY <2>2 DEF ClaimRecords
    <3> HIDE DEF b
    <3> QED
      BY <1>1, <3>1, <3>2, TouchedClaim
  <2>6. clashed \subseteq clashed' /\ \A d \in Claims : ClaimMove(d)
    BY <1>11, <2>1, <2>3, <2>4, <2>5
  <2> QED
    BY <1>2, <2>1, <2>6
<1>12. CASE CollectApp
  BY <1>12, SameMoves DEF CollectApp, ClusterRest, RestSame
<1>13. CASE TakeSnapshots
  BY <1>1, <1>13 DEF TakeSnapshots, ClusterRest, RestMove, ClaimMove, Kept, JobMove, LabelMove, Done
<1>14. ASSUME NEW r \in Runs,
              \/ StartRun(r) \/ CallLost(r) \/ Timeout(r) \/ SyncRun(r) \/ Resync(r)
              \/ BindWait(r) \/ SkipJob(r) \/ JobWait(r) \/ DeleteRun(r) \/ Put(r)
       PROVE  RestMove
  <2>1. RestSame
    BY <1>14 DEF RestSame, CallLost, Timeout, SyncRun, Resync, BindWait, SkipJob, JobWait,
         DeleteRun, Put,
         StartRun, StartNothing, StartMark, StartKust, StartInit, StartHook, StartCleanup, Start
  <2> QED
    BY <2>1, SameMoves
<1>15. ASSUME NEW c \in Claims, SyncClaim(c) PROVE RestMove
  BY <1>15, SameMoves DEF SyncClaim, RestSame
<1>16. CASE StepRevert \/ RqFails \/ Request \/ Crash \/ UNCHANGED vars
  <2>1. RestSame
    BY <1>16 DEF RestSame, vars, StepRevert, CheckMissing, MatchRun, CreateRun, PollRun,
         AskCleanup, Paused, RqFails, Request, RqRest, Crash
  <2> QED
    BY <2>1, SameMoves
<1> QED
  BY <1>5, <1>6, <1>7, <1>8, <1>9, <1>10, <1>11, <1>12, <1>13, <1>14, <1>15, <1>16
     DEF Next, StepRun, Cluster

----------------------------------------------------------------------------
(* The invariant is kept, part by part *)

Moving == /\ Inv /\ Inv' /\ RevertMove /\ RestMove
          /\ \A r \in Runs : RunMove(r) /\ WorkMove(r) /\ CacheMove(r)

LEMMA PhaseNat == ASSUME NEW a \in RunRecords PROVE a.phase \in Nat
  BY DEF RunRecords, CleanupFinished

LEMMA PhasesNat ==
    ASSUME Inv, NEW r \in Runs
    PROVE  /\ run[r].phase \in Nat /\ crun[r].phase \in Nat
           /\ wk[r].base.phase \in Nat /\ wk[r].copy.phase \in Nat
           /\ WorkerOK(wk[r])
<1>1. /\ run[r] \in RunRecords /\ crun[r] \in RunRecords /\ WorkerOK(wk[r])
      /\ wk[r].base \in RunRecords /\ wk[r].copy \in RunRecords
  BY DEF Inv, RunsInv, WorkInv, Workers
<1> QED
  BY <1>1, PhaseNat

\* A run keeps its snapshots once it has been made.
LEMMA SnapKept ==
    ASSUME Moving, NEW r \in Runs, run[r].snap # 0
    PROVE  run'[r].snap = run[r].snap
<1>1. RunMove(r) /\ WorkerOK(wk[r])
  BY DEF Moving, Inv, WorkInv
<1>2. wk[r].pc = "put" => wk[r].copy.snap = wk[r].base.snap
  BY <1>1 DEF WorkerOK, Moves
<1> QED
  BY <1>1, <1>2 DEF RunMove

\* A run that appears is a new one: nothing is known of it.
LEMMA NewRun ==
    ASSUME Moving, Snaps, NEW r \in Runs, Unmade(r), ~run[r].here, run'[r].here
    PROVE  /\ rq.pc = "create" /\ rq' # rq /\ run[r].snap = 0 /\ run'[r].snap = rq.snap
           /\ run'[r].phase = 0 /\ wk[r].pc = "idle" /\ wk'[r].pc = "idle"
           /\ ~crun[r].here /\ crun'[r].phase = 0 /\ ~crun'[r].here
           /\ job'[r]["validation"] = "absent"
           /\ \A c \in Claims : ~Owns(r, c)'
<1>1. /\ RunMove(r) /\ WorkMove(r) /\ CacheMove(r) /\ JobMove(r) /\ WorkerOK(wk[r])
      /\ \A c \in Claims : ClaimMove(c)
  BY DEF Moving, Inv, WorkInv, RestMove
<1>2. rq.pc = "create" /\ rq' # rq /\ run[r].snap = 0 /\ run'[r].snap = rq.snap /\ run'[r].phase = 0
  <2>1. wk[r].pc = "put" => wk[r].base.here
    BY <1>1 DEF WorkerOK
  <2> QED
    BY <1>1, <2>1 DEF RunMove
<1>3. wk[r].pc = "idle" /\ ~crun[r].here /\ crun[r].phase = 0 /\ job[r]["validation"] = "absent"
  BY <1>2 DEF Unmade
<1>4. wk'[r].pc = "idle"
  BY <1>1, <1>3 DEF WorkMove, Begins, Continues, IdleWk
<1>5. crun'[r].phase = 0 /\ ~crun'[r].here /\ job'[r]["validation"] = "absent"
  BY <1>1, <1>2, <1>3 DEF CacheMove, JobMove
<1>6. ASSUME NEW c \in Claims PROVE ~Owns(r, c)'
  <2>1. ~(claim[c].here /\ claim[c].run = r)
    BY <1>2 DEF Snaps
  <2> QED
    BY <1>1, <1>3, <2>1 DEF ClaimMove, Kept, Owns
<1> QED
  BY <1>2, <1>3, <1>4, <1>5, <1>6

LEMMA UnmadeStep == ASSUME Moving, Snaps, NEW r \in Runs, Unmade(r) PROVE Unmade(r)'
<1> SUFFICES ASSUME run'[r].snap = 0
             PROVE  /\ ~run'[r].here /\ run'[r].phase = 0
                    /\ ~crun'[r].here /\ crun'[r].phase = 0
                    /\ wk'[r].pc = "idle" /\ job'[r]["validation"] = "absent"
  BY DEF Unmade
<1>1. run[r].snap = 0
  BY SnapKept
<1>2. /\ RunMove(r) /\ WorkMove(r) /\ CacheMove(r) /\ JobMove(r)
      /\ rq.pc = "create" => rq.snap # 0
  BY DEF Moving, Inv, RestMove, RevertInv, RevertOK
<1>3. /\ ~run[r].here /\ run[r].phase = 0 /\ ~crun[r].here /\ crun[r].phase = 0
      /\ wk[r].pc = "idle" /\ job[r]["validation"] = "absent"
  BY <1>1 DEF Unmade
<1>4. run'[r] = run[r]
  BY <1>2, <1>3 DEF RunMove
<1>5. wk'[r].pc = "idle"
  BY <1>2, <1>3 DEF WorkMove, Begins, Continues, IdleWk
<1> QED
  BY <1>2, <1>3, <1>4, <1>5 DEF CacheMove, JobMove

LEMMA SnapsStep == ASSUME Moving, Snaps PROVE Snaps'
<1>1. ASSUME NEW r \in Runs, crun'[r].here PROVE crun'[r].snap = run'[r].snap
  <2>1. CacheMove(r) /\ RunOK(crun[r])
    BY DEF Moving, Inv, RunsInv
  <2>2. CASE crun'[r] = crun[r]
    BY <1>1, <2>1, <2>2, SnapKept DEF Snaps, RunOK
  <2> QED
    BY <2>1, <2>2 DEF CacheMove
<1>2. ASSUME NEW r \in Runs, wk'[r].pc # "idle" PROVE wk'[r].base.snap = run'[r].snap
  <2>1. WorkMove(r) /\ WorkerOK(wk[r]) /\ RunOK(crun[r])
    BY DEF Moving, Inv, RunsInv, WorkInv
  <2>2. crun[r].here => crun[r].snap = run'[r].snap
    BY <2>1, SnapKept DEF Snaps, RunOK
  <2>3. wk[r].pc # "idle" => wk[r].base.snap = run'[r].snap
    BY <2>1, SnapKept DEF Snaps, WorkerOK, RunOK
  <2> QED
    BY <1>2, <2>1, <2>2, <2>3 DEF WorkMove, Begins, Continues, IdleWk
<1>3. ASSUME NEW c \in Claims, claim'[c].here
      PROVE  /\ claim'[c].run \in Runs
             /\ claim'[c].snap = run'[claim'[c].run].snap /\ claim'[c].snap # 0
  <2>1. ClaimMove(c)
    BY DEF Moving, RestMove
  <2>2. CASE claim[c].here /\ Kept(c)
    BY <2>2, SnapKept DEF Snaps, Kept
  <2>3. ASSUME NEW r \in Runs, wk[r].pc = "claim", claim'[c].run = r,
               claim'[c].snap = wk[r].base.snap
        PROVE  claim'[c].snap = run'[r].snap /\ claim'[c].snap # 0
    <3>1. wk[r].base.snap = run[r].snap /\ wk[r].base.snap # 0
      BY <2>3 DEF Moving, Inv, WorkInv, WorkerOK, RunOK, Snaps
    <3> QED
      BY <2>3, <3>1, SnapKept
  <2> QED
    BY <1>3, <2>1, <2>2, <2>3 DEF ClaimMove
<1> QED
  BY <1>1, <1>2, <1>3 DEF Snaps

\* A run moves forward, unless it is new.
LEMMA BehindStep ==
    ASSUME Moving, Snaps, NEW r \in Runs, Unmade(r), Behind(r)
    PROVE  Behind(r)'
<1>1. RunMove(r) /\ WorkMove(r) /\ CacheMove(r)
  BY DEF Moving
<1>2. /\ run[r].phase \in Nat /\ crun[r].phase \in Nat /\ WorkerOK(wk[r])
      /\ wk[r].base.phase \in Nat /\ wk[r].copy.phase \in Nat
      /\ run'[r].phase \in Nat /\ run'[r] \in RunRecords
  BY PhasesNat DEF Moving, Inv, RunsInv, RunRecords
<1>3. CASE run[r].snap = 0
  <2>1. ~crun[r].here /\ wk[r].pc = "idle" /\ ~run[r].here
    BY <1>3 DEF Unmade
  <2>2. wk'[r].pc = "idle" /\ ~crun'[r].here
    BY <1>1, <2>1 DEF WorkMove, Begins, Continues, IdleWk, CacheMove
  <2> QED
    BY <2>2 DEF Behind
<1>4. CASE run[r].snap # 0
  <2>1. wk[r].pc = "put" => Ahead(wk[r].base, wk[r].copy)
    <3>1. wk[r].pc = "put" => Moves(wk[r].base, wk[r].copy)
      BY <1>2 DEF WorkerOK
    <3> QED
      BY <1>2, <3>1 DEF Moves, Ahead
  <2>2. Ahead(run[r], run'[r])
    BY <1>1, <1>2, <1>4, <2>1 DEF RunMove, Ahead
  <2>3. ASSUME NEW a, a.phase \in Nat, Ahead(a, run[r]) PROVE Ahead(a, run'[r])
    BY <1>2, <2>2, <2>3 DEF Ahead
  <2>4. crun[r].here => Ahead(crun[r], run'[r])
    BY <1>2, <2>3 DEF Behind
  <2>5. crun'[r].here => Ahead(crun'[r], run'[r])
    <3>1. Ahead(run[r], run[r])
      BY <1>2 DEF Ahead
    <3> QED
      BY <1>1, <2>4, <3>1 DEF CacheMove
  <2>6. wk'[r].pc # "idle" => Ahead(wk'[r].base, run'[r])
    <3>1. wk[r].pc # "idle" => Ahead(wk[r].base, run'[r])
      BY <1>2, <2>3 DEF Behind
    <3> QED
      BY <1>1, <2>4, <3>1 DEF WorkMove, Begins, Continues, IdleWk
  <2> QED
    BY <2>5, <2>6 DEF Behind
<1> QED
  BY <1>3, <1>4

\* A job that has succeeded stays so.
LEMMA DoneKept == ASSUME Moving, NEW r \in Runs, Done(r) PROVE Done(r)'
  BY DEF Moving, RestMove, JobMove

LEMMA FinishedStep ==
    ASSUME Moving, NEW r \in Runs, Finished(r)
    PROVE  Finished(r)'
<1>1. Done(r) => Done(r)'
  BY DoneKept
<1>2. RunMove(r) /\ WorkMove(r) /\ CacheMove(r) /\ WorkerOK(wk[r])
  BY DEF Moving, Inv, WorkInv
<1>8. wk[r].base.phase \in Nat
  BY PhasesNat DEF Moving
<1>3. ASSUME run'[r].phase >= ValidationFinished PROVE Done(r)
  BY <1>2, <1>3 DEF RunMove, Finished, ValidationFinished
<1>4. ASSUME crun'[r].phase >= ValidationFinished PROVE Done(r)
  BY <1>2, <1>4 DEF CacheMove, Finished
<1>5. CASE wk'[r] = wk[r] \/ wk'[r] = IdleWk
  <2>1. /\ wk'[r].pc # "idle" /\ wk'[r].base.phase >= ValidationFinished => Done(r)
        /\ wk'[r].pc = "label" => Done(r)
        /\ wk'[r].pc = "put" /\ wk'[r].copy.phase >= ValidationFinished => Done(r)
        /\ Cleans(wk'[r]) => wk'[r].base.phase >= CleanupStarted /\ wk'[r].base.cleanup
    BY <1>5 DEF Finished, IdleWk, Cleans
  <2> QED
    BY <1>1, <1>3, <1>4, <2>1 DEF Finished, Done, Cleans
<1>6. CASE Begins(r)
  <2>1. crun[r].phase >= ValidationFinished => Done(r)
    BY DEF Finished
  <2> QED
    BY <1>1, <1>3, <1>4, <1>6, <2>1 DEF Finished, Done, Begins, Cleans
<1>7. CASE Continues(r)
  <2>1. ASSUME wk'[r].pc = "put", wk'[r].copy.phase >= ValidationFinished PROVE Done(r)
    <3>1. CASE wk[r].pc = "label"
      BY <3>1 DEF Finished
    <3>2. CASE Cleans(wk[r])
      <4>1. wk[r].pc # "idle" /\ wk[r].base.phase >= ValidationFinished
        BY <1>8, <3>2 DEF Finished, Cleans, CleanupStarted, ValidationFinished
      <4> QED
        BY <4>1 DEF Finished
    <3>3. CASE wk[r].base.phase # ValidationStarted
      <4>1. /\ wk[r].copy.phase >= ValidationFinished /\ wk[r].pc # "idle"
            /\ Moves(wk[r].base, wk[r].copy)
            /\ wk[r].copy.phase \in 0..CleanupFinished /\ wk[r].base.phase \in 0..CleanupFinished
        BY <1>2, <1>7, <2>1 DEF Continues, WorkerOK, Workers, RunRecords
      <4>2. wk[r].copy.phase \in {wk[r].base.phase, wk[r].base.phase + 1}
        BY <4>1 DEF Moves
      <4>3. wk[r].base.phase >= ValidationFinished
        BY <3>3, <4>1, <4>2 DEF ValidationStarted, ValidationFinished, CleanupFinished
      <4> QED
        BY <4>1, <4>3 DEF Finished
    <3> QED
      BY <1>7, <2>1, <3>1, <3>2, <3>3 DEF Continues
  <2>2. /\ wk'[r].base.phase >= ValidationFinished => Done(r)
        /\ wk'[r].pc = "label" => Done(r)
        /\ Cleans(wk'[r]) => wk'[r].base.phase >= CleanupStarted /\ wk'[r].base.cleanup
    BY <1>7 DEF Continues, Finished
  <2> QED
    BY <1>1, <1>3, <1>4, <2>1, <2>2 DEF Finished, Done, Cleans
<1> QED
  BY <1>2, <1>5, <1>6, <1>7 DEF WorkMove

\* A run that is past init owns all claims: its own steps and the others' leave them.
LEMMA ClaimedStep ==
    ASSUME Moving, Snaps, NEW r \in Runs, Unmade(r), Finished(r), Claimed(r)
    PROVE  Claimed(r)'
<1> SUFFICES ASSUME Alone(r)'
             PROVE  /\ \A c \in Claims : Owns(r, c)' => ~claim'[c].dying
                    /\ wk'[r].pc = "claim" =>
                         \A j \in 1..(wk'[r].i - 1) :
                            claim'[wk'[r].base.claims[j]].here /\ claim'[wk'[r].base.claims[j]].run = r
                    /\ Past(r)' => \A c \in Claims : Owns(r, c)'
  BY DEF Claimed, Owns
<1>1. r \notin clashed' /\ r \notin clashed /\ run'[r].here /\ ~Done(r)
  BY DoneKept DEF Alone, Moving, RestMove
<1>2. /\ RunMove(r) /\ WorkMove(r) /\ CacheMove(r) /\ JobMove(r)
      /\ \A c \in Claims : ClaimMove(c)
  BY DEF Moving, RestMove
<1>3. CASE ~run[r].here
  <2>1. /\ run'[r].phase = 0 /\ wk'[r].pc = "idle" /\ crun'[r].phase = 0
        /\ job'[r]["validation"] = "absent" /\ \A c \in Claims : ~Owns(r, c)'
    BY <1>1, <1>3, NewRun
  <2>2. ~Past(r)'
    BY <2>1 DEF Past, Midway, InitFinished
  <2> QED
    BY <2>1, <2>2
<1>4. CASE run[r].here
  <2>1. Alone(r)
    BY <1>1, <1>4 DEF Alone
  <2>2. /\ WorkerOK(wk[r]) /\ wk[r] \in Workers
        /\ wk[r].base.phase \in Nat
    BY PhasesNat DEF Moving, Inv, WorkInv
  <2>3. wk[r].pc # "deleteClaim"
    <3>1. Cleans(wk[r]) => wk[r].base.phase >= ValidationFinished /\ wk[r].pc # "idle"
      BY <2>2 DEF Finished, Cleans, CleanupStarted, ValidationFinished
    <3> QED
      BY <1>1, <3>1 DEF Finished, Cleans
  <2>4. ~Taken(r)
    BY <1>1, <1>4, <2>3 DEF Taken
  <2>5. ASSUME NEW c \in Claims, claim[c].here, claim[c].run = r
        PROVE  claim'[c].here /\ claim'[c].run = r
    <3>1. ~claim[c].dying
      BY <2>1, <2>5 DEF Claimed, Owns
    <3> QED
      BY <1>2, <2>4, <2>5, <3>1 DEF ClaimMove, Kept
  <2>6. ASSUME NEW c \in Claims, Owns(r, c)' PROVE ~claim'[c].dying
    <3>1. CASE claim[c].here /\ Kept(c)
      <4>1. claim[c].run = r
        BY <2>6, <3>1 DEF Owns, Kept
      <4>2. ~claim[c].dying
        BY <2>1, <3>1, <4>1 DEF Claimed, Owns
      <4> QED
        BY <1>2, <2>4, <3>1, <4>1, <4>2 DEF ClaimMove
    <3>2. CASE ~(claim[c].here /\ Kept(c))
      BY <1>2, <2>6, <3>2 DEF ClaimMove, Owns
    <3> QED
      BY <3>1, <3>2
  <2>7. ASSUME wk[r].pc = "claim", NEW j \in 1..wk[r].i, Continues(r)
        PROVE  claim'[wk[r].base.claims[j]].here /\ claim'[wk[r].base.claims[j]].run = r
    <3>1. wk[r].base.claims \in Seq(Claims) /\ wk[r].i \in Nat \ {0} /\ wk[r].i <= Len(wk[r].base.claims)
      BY <2>2, <2>7 DEF WorkerOK, Workers, RunRecords, Visits
    <3>2. CASE j = wk[r].i
      BY <1>1, <2>7, <3>2 DEF Continues, Cur
    <3>3. CASE j # wk[r].i
      <4> DEFINE q == wk[r].base.claims
                 c == q[j]
      <4>1. j \in 1..(wk[r].i - 1) /\ j \in 1..Len(q)
        BY <3>1, <3>3
      <4>2. c \in Claims
        <5>1. q \in Seq(Claims)
          BY <3>1
        <5> HIDE DEF q
        <5> QED
          BY <4>1, <5>1
      <4>3. claim[c].here /\ claim[c].run = r
        BY <2>1, <2>7, <4>1 DEF Claimed, Owns
      <4> HIDE DEF c
      <4>4. claim'[c].here /\ claim'[c].run = r
        BY <2>5, <4>2, <4>3
      <4> QED
        BY <4>4 DEF c
    <3> QED
      BY <3>2, <3>3
  <2>8. ASSUME wk'[r].pc = "claim", NEW j \in 1..(wk'[r].i - 1)
        PROVE  claim'[wk'[r].base.claims[j]].here /\ claim'[wk'[r].base.claims[j]].run = r
    <3>1. CASE wk'[r] = wk[r]
      <4> DEFINE q == wk[r].base.claims
                 c == q[j]
      <4>1. q \in Seq(Claims) /\ wk[r].i \in Nat \ {0} /\ wk[r].i <= Len(q)
        BY <2>2, <2>8, <3>1 DEF WorkerOK, Workers, RunRecords, Visits
      <4>2. j \in 1..Len(q) /\ j \in 1..(wk[r].i - 1)
        BY <2>8, <3>1, <4>1
      <4>3. c \in Claims
        <5> HIDE DEF q
        <5> QED
          BY <4>1, <4>2
      <4>4. claim[c].here /\ claim[c].run = r
        BY <2>1, <2>8, <3>1, <4>2 DEF Claimed, Owns
      <4> HIDE DEF c
      <4>5. claim'[c].here /\ claim'[c].run = r
        BY <2>5, <4>3, <4>4
      <4> QED
        BY <3>1, <4>5 DEF c
    <3>2. CASE wk'[r] = IdleWk \/ Begins(r)
      <4>1. wk'[r].i = 1
        BY <3>2 DEF Begins, IdleWk
      <4> QED
        BY <4>1, <2>8
    <3>3. CASE Continues(r)
      <4>1. wk[r].pc = "claim" /\ wk'[r].i = wk[r].i + 1 /\ wk'[r].base = wk[r].base
        BY <2>8, <3>3 DEF Continues
      <4>2. j \in 1..wk[r].i
        BY <2>2, <2>8, <4>1 DEF Workers
      <4> QED
        BY <2>7, <3>3, <4>1, <4>2
    <3> QED
      BY <1>2, <3>1, <3>2, <3>3 DEF WorkMove
  <2>9. ASSUME Past(r) PROVE \A c \in Claims : Owns(r, c)'
    BY <2>1, <2>5, <2>9 DEF Claimed, Owns
  <2>10. ASSUME wk[r].pc = "claim", Continues(r), wk'[r].pc # "claim"
         PROVE  \A c \in Claims : Owns(r, c)'
    <3> DEFINE q == wk[r].base.claims
    <3>1. q \in Seq(Claims) /\ wk[r].i \in Nat \ {0} /\ wk[r].i <= Len(q) /\ wk[r].i >= Len(q)
      BY <2>2, <2>10 DEF WorkerOK, Workers, RunRecords, Visits, Continues
    <3>2. Claims \subseteq Range(q)
      BY <2>2, <2>10 DEF WorkerOK, RunOK, Midway, RunPcs, RunCalls
    <3> SUFFICES ASSUME NEW c \in Claims PROVE claim'[c].here /\ claim'[c].run = r
      BY DEF Owns
    <3> HIDE DEF q
    <3>3. PICK j \in 1..Len(q) : q[j] = c
      BY <3>1, <3>2 DEF Range
    <3>4. j \in 1..wk[r].i
      BY <3>1
    <3>5. claim'[q[j]].here /\ claim'[q[j]].run = r
      BY <2>7, <2>10, <3>4 DEF q
    <3> QED
      BY <3>3, <3>5
  <2>11. ASSUME Past(r)' PROVE \A c \in Claims : Owns(r, c)'
    <3>1. CASE run'[r].phase >= InitFinished
      BY <1>2, <2>2, <2>9, <3>1, <1>4 DEF RunMove, Past, InitFinished
    <3>2. CASE crun'[r].phase >= InitFinished
      BY <1>2, <2>9, <3>2 DEF CacheMove, Past
    <3>3. CASE job'[r]["validation"] # "absent"
      BY <1>2, <2>9, <3>3 DEF JobMove, Past, Midway, RunPcs, RunCalls
    <3>4. CASE \/ wk'[r].pc \in Midway \ {"claim"}
               \/ wk'[r].pc = "put" /\ wk'[r].copy.phase >= InitFinished
      <4>1. CASE wk'[r] = wk[r] \/ wk'[r] = IdleWk
        BY <2>9, <3>4, <4>1 DEF Past, IdleWk, Midway
      <4>2. CASE Begins(r)
        BY <2>9, <3>4, <4>2 DEF Past, Begins, Midway
      <4>3. CASE Continues(r)
        <5>1. wk[r].pc \in RunPcs /\ wk[r].pc \notin {"idle", "put"}
          BY <2>2, <4>3 DEF Workers, Continues
        <5>2. wk[r].pc = "claim" \/ Past(r)
          BY <5>1 DEF Past, Midway
        <5>3. wk'[r].pc # "claim"
          BY <3>4
        <5> QED
          BY <2>9, <2>10, <4>3, <5>2, <5>3
      <4> QED
        BY <1>2, <4>1, <4>2, <4>3 DEF WorkMove
    <3> QED
      BY <2>11, <3>1, <3>2, <3>3, <3>4 DEF Past
  <2> QED
    BY <2>6, <2>8, <2>11
<1> QED
  BY <1>3, <1>4

LEMMA EarnedStep ==
    ASSUME Moving, Snaps, Earned, \A r \in Runs : Unmade(r) /\ Finished(r) /\ Claimed(r)
    PROVE  Earned'
<1>1. tested \subseteq tested' /\ clashed \subseteq clashed' /\ clashed \subseteq Runs
  BY DEF Moving, RestMove, LabelMove, Inv, RestInv
<1>2. ASSUME NEW r \in Runs, Done(r)', r \notin clashed'
      PROVE  Claims \X {run'[r].snap} \subseteq tested'
  <2>1. CASE Done(r) /\ run[r].snap # 0
    BY <1>1, <1>2, <2>1, SnapKept DEF Earned
  <2>2. CASE ~Done(r)
    <3>1. /\ run[r].here /\ run' = run /\ job[r]["validation"] # "absent"
          /\ \A c \in Claims : claim[c].here /\ <<c, claim[c].snap>> \in tested'
      BY <1>2, <2>2 DEF Moving, RestMove, JobMove
    <3>2. Alone(r) /\ Past(r)
      BY <1>1, <1>2, <2>2, <3>1 DEF Alone, Past
    <3>3. ASSUME NEW c \in Claims PROVE claim[c].snap = run[r].snap
      <4>1. claim[c].here /\ claim[c].run = r
        BY <3>2 DEF Claimed, Owns
      <4> QED
        BY <4>1 DEF Snaps
    <3> QED
      BY <3>1, <3>3
  <2>3. CASE Done(r) /\ run[r].snap = 0
    BY <2>3 DEF Unmade, Done
  <2> QED
    BY <2>1, <2>2, <2>3
<1>3. ASSUME NEW x \in labelled'
      PROVE  /\ x[2] # 0
             /\ x \in tested' \/ \E r \in clashed' : run'[r].snap = x[2]
  <2>1. CASE x \in labelled
    <3>1. x[2] # 0 /\ (x \in tested \/ \E r \in clashed : run[r].snap = x[2])
      BY <2>1 DEF Earned, LabelsEarned
    <3> QED
      BY <1>1, <3>1, SnapKept
  <2>2. ASSUME NEW r \in Runs, wk[r].pc = "label", x \in Claims \X {wk[r].base.snap}
        PROVE  /\ x[2] # 0
               /\ x \in tested' \/ \E q \in clashed' : run'[q].snap = x[2]
    <3>1. wk[r].base.snap = run[r].snap /\ run[r].snap # 0 /\ x[2] = run[r].snap
      BY <2>2 DEF Snaps, Moving, Inv, WorkInv, WorkerOK, RunOK
    <3>2. r \in clashed \/ Claims \X {run[r].snap} \subseteq tested
      BY <2>2 DEF Finished, Earned
    <3>3. run'[r].snap = run[r].snap
      BY <3>1, SnapKept
    <3> QED
      BY <1>1, <2>2, <3>1, <3>2, <3>3
  <2> QED
    BY <2>1, <2>2 DEF Moving, RestMove, LabelMove
<1> QED
  BY <1>2, <1>3 DEF Earned, LabelsEarned

LEMMA RecentStep ==
    ASSUME Moving, Recent, \A r \in Runs : Finished(r)
    PROVE  Recent'
<1>1. /\ newest \in Nat /\ newest' \in Nat /\ newest <= newest' /\ rq.since \in Nat
      /\ rq'.since \in Nat
  BY ValidationAssumption
     DEF Moving, Inv, RevertInv, RevertOK, Reverts, RestMove
<1>2. RevertMove /\ rq.since <= newest
  BY DEF Moving, Recent
<1>3. rq'.since <= newest'
  BY <1>1, <1>2 DEF RevertMove
<1>4. ASSUME rq'.pc = "create" PROVE rq'.snap >= rq'.since
  BY <1>1, <1>2, <1>4 DEF RevertMove, Recent
<1>5. ASSUME rq'.pc # "idle", NEW r \in Runs, run'[r].snap # 0
      PROVE  r \in rq'.before \/ run'[r].snap >= rq'.since
  <2>1. CASE run[r].snap # 0
    <3>1. run'[r].snap = run[r].snap
      BY <2>1, SnapKept
    <3>2. CASE rq.pc = "idle" /\ rq' # rq
      <4>1. rq'.before = Runs \ Unused
        BY <1>2, <1>5, <3>2 DEF RevertMove
      <4> QED
        BY <2>1, <4>1 DEF Unused
    <3>3. CASE rq.pc # "idle" \/ rq' = rq
      <4>1. rq.pc # "idle" /\ rq'.since = rq.since /\ rq'.before = rq.before
        BY <1>2, <1>5, <3>3 DEF RevertMove
      <4> QED
        BY <2>1, <3>1, <4>1 DEF Recent
    <3> QED
      BY <3>2, <3>3
  <2>2. CASE run[r].snap = 0
    <3>1. wk[r].pc = "put" => wk[r].copy.snap = wk[r].base.snap
      BY DEF Moving, Inv, WorkInv, WorkerOK, Moves
    <3>2. rq.pc = "create" /\ rq' # rq /\ run'[r].snap = rq.snap
      BY <1>5, <2>2, <3>1 DEF Moving, RunMove
    <3>3. rq'.since = rq.since
      BY <1>2, <1>5, <3>2 DEF RevertMove
    <3> QED
      BY <3>2, <3>3 DEF Recent
  <2> QED
    BY <2>1, <2>2
<1>6. ASSUME rq'.pc \in {"ask", "pause"} PROVE job'[rq'.run]["validation"] = "succeeded"
  <2>1. rq'.run \in Runs
    BY <1>6 DEF Moving, Inv, RevertInv, RevertOK
  <2>2. CASE rq.pc \in {"ask", "pause"} /\ rq'.run = rq.run
    BY <2>1, <2>2 DEF Recent, Moving, RestMove, JobMove, Done
  <2>3. CASE crun[rq'.run].phase >= ValidationFinished
    BY <2>1, <2>3 DEF Finished, Moving, RestMove, JobMove, Done
  <2> QED
    BY <1>2, <1>6, <2>2, <2>3 DEF RevertMove
<1> QED
  BY <1>3, <1>4, <1>5, <1>6 DEF Recent, Done

LEMMA SoundMoves == ASSUME HasJob, SoundInv, [Next]_vars PROVE Moving
<1>1. Inv /\ Inv'
  BY StepInv DEF SoundInv
<1> QED
  BY <1>1, RunMoves, WorkMoves, CacheMoves, RevertMoves, RestMoves DEF Moving

LEMMA SoundStep == ASSUME HasJob PROVE SoundInv /\ [Next]_vars => SoundInv'
<1> SUFFICES ASSUME SoundInv, [Next]_vars PROVE SoundInv'
  OBVIOUS
<1>1. /\ Snaps /\ Earned /\ Recent
      /\ \A r \in Runs : Unmade(r) /\ Behind(r) /\ Finished(r) /\ Claimed(r)
  BY DEF SoundInv
<1>2. Moving
  BY SoundMoves
<1>3. Snaps' /\ Earned' /\ Recent'
  BY <1>1, <1>2, SnapsStep, EarnedStep, RecentStep
<1>4. \A r \in Runs : Unmade(r)' /\ Behind(r)' /\ Finished(r)' /\ Claimed(r)'
  BY <1>1, <1>2, UnmadeStep, BehindStep, FinishedStep, ClaimedStep
<1> QED
  BY <1>2, <1>3, <1>4 DEF SoundInv, Moving

LEMMA SoundInit == ASSUME HasJob PROVE Init => SoundInv
<1> SUFFICES ASSUME Init PROVE SoundInv
  OBVIOUS
<1>1. Inv
  BY InitInv
<1>2. ASSUME NEW r \in Runs
      PROVE  /\ ~run[r].here /\ ~crun[r].here /\ run[r].phase = 0 /\ crun[r].phase = 0
             /\ wk[r].pc = "idle" /\ job[r]["validation"] = "absent"
             /\ run[r].snap = 0 /\ ~Done(r)
    BY DEF Init, NoRun, IdleWk, HasJob, Done
<1>3. \A c \in Claims : ~claim[c].here
  BY DEF Init, NoClaim
<1>4. rq.pc = "idle" /\ rq.since = 0 /\ newest = 0 /\ labelled = {}
  BY DEF Init, IdleRq
<1>5. Snaps /\ Earned /\ Recent
  BY <1>2, <1>3, <1>4 DEF Snaps, Recent, Earned, LabelsEarned
<1>6. \A r \in Runs : Unmade(r) /\ Behind(r) /\ Finished(r) /\ Claimed(r)
  BY <1>2, <1>3 DEF Unmade, Behind, Finished, Claimed, Alone, Cleans, ValidationFinished
<1> QED
  BY <1>1, <1>5, <1>6 DEF SoundInv

LEMMA SoundAlways == ASSUME HasJob PROVE Spec => []SoundInv
<1>1. Init => SoundInv
  BY SoundInit
<1>2. SoundInv /\ [Next]_vars => SoundInv'
  BY SoundStep
<1> QED
  BY <1>1, <1>2, PTL DEF Spec

----------------------------------------------------------------------------
(* The theorems *)

\* A label "validated" (LabelSnapshot) is untrue only by a clash: whatever calls fail,
\* restarts happen and caches show, a snapshot is labelled after a validation job has
\* succeeded on its data, or by a run that was given an object of another run, or lost
\* a claim to another's cleanup.
THEOREM LabelsTrue == ASSUME HasJob PROVE Spec => []LabelsEarned
<1>1. SoundInv => LabelsEarned
  BY DEF SoundInv, Earned
<1> QED
  BY <1>1, SoundAlways, PTL

\* A revert leaves "init" (missingValidation, runValidation) only by a run whose
\* snapshots have passed their validation, unless it has clashed, and that is as new as
\* the request, unless it was made before it: however often the revert starts over, and
\* however many runs it has made meanwhile.
THEOREM RevertsValidated == ASSUME HasJob PROVE Spec => []ValidatedBefore
<1>1. SoundInv => ValidatedBefore
  <2> SUFFICES ASSUME SoundInv, rq.pc = "pause"
               PROVE  LET r == rq.run
                      IN  /\ r \in clashed \/ Claims \X {run[r].snap} \subseteq tested
                          /\ r \in rq.before \/ run[r].snap >= rq.since
    BY DEF ValidatedBefore
  <2>1. rq.run \in Runs /\ Done(rq.run)
    BY DEF SoundInv, Recent, Inv, RevertInv, RevertOK
  <2>2. run[rq.run].snap # 0
    BY <2>1 DEF SoundInv, Unmade, Done
  <2> QED
    BY <2>1, <2>2 DEF SoundInv, Earned, Recent
<1> QED
  BY <1>1, SoundAlways, PTL

----------------------------------------------------------------------------
(* What is deleted *)

\* Two steps mark a claim for deletion: a cleanup's, and the garbage collector's.
Marks(c) == claim[c].here /\ ~claim[c].dying /\ claim'[c].dying

LEMMA WhoMarksClaims ==
    ASSUME Inv, [Next]_vars, NEW c \in Claims, Marks(c)
    PROVE  \/ \E r \in Runs : DeleteClaim(r)
           \/ CollectClaim(c)
<1> USE DEF runVars, claimVars, testVars
<1>1. claim \in [Claims -> ClaimRecords] /\ claim' # claim
  BY DEF Inv, RestInv, Marks
<1>2. ~Crash /\ ~StepRevert /\ ~RqFails /\ ~Request /\ ~(UNCHANGED vars)
  BY <1>1 DEF Crash, StepRevert, CheckMissing, MatchRun, CreateRun, PollRun, AskCleanup,
              Paused, RqFails, Request, RqRest, vars
<1>3. ASSUME NEW r \in Runs
      PROVE  ~(\/ StartRun(r) \/ CallLost(r) \/ Timeout(r) \/ SyncRun(r) \/ Resync(r)
               \/ BindWait(r) \/ CreateObjects(r) \/ SkipJob(r) \/ CreateJob(r) \/ JobWait(r)
               \/ Label(r) \/ DeleteRun(r) \/ Put(r))
  BY <1>1 DEF CallLost, Timeout, SyncRun, Resync, BindWait, CreateObjects, SkipJob, CreateJob,
       JobWait, Label, DeleteRun, Put,
       StartRun, StartNothing, StartMark, StartKust, StartInit, StartHook, StartCleanup, Start
<1>4. ASSUME NEW r \in Runs, CreateClaim(r) PROVE FALSE
  <2> DEFINE b == [NoClaim EXCEPT !.here = TRUE, !.run = r, !.snap = wk[r].base.snap]
  <2>1. claim' = claim \/ (claim' = [claim EXCEPT ![Cur(r)] = b] /\ ~claim[Cur(r)].here)
    BY <1>4 DEF CreateClaim
  <2> HIDE DEF b
  <2> QED
    BY <1>1, <2>1 DEF Marks
<1>5. ASSUME NEW d \in Claims, SyncClaim(d) PROVE FALSE
  BY <1>1, <1>5 DEF SyncClaim
<1>6. ASSUME NEW d \in Claims, BindClaim(d) \/ RemoveClaim(d) PROVE FALSE
  <2>1. PICK b \in {[claim[d] EXCEPT !.bound = TRUE], NoClaim} :
          claim' = [claim EXCEPT ![d] = b]
    BY <1>6 DEF BindClaim, RemoveClaim
  <2>2. b.dying => claim[d].dying
    BY <1>1, <2>1 DEF ClaimRecords, NoClaim
  <2> QED
    BY <1>1, <2>1, <2>2 DEF Marks
<1>7. ASSUME NEW d \in Claims, CollectClaim(d) PROVE d = c
  <2> DEFINE b == [claim[d] EXCEPT !.dying = TRUE]
  <2>1. claim' = [claim EXCEPT ![d] = b]
    BY <1>7 DEF CollectClaim
  <2> HIDE DEF b
  <2> QED
    BY <1>1, <2>1 DEF Marks
<1>8. ~TakeSnapshots /\ ~CollectApp /\ \A r \in Runs : \A h \in Hooks : ~JobSucceeds(r, h)
  BY <1>1 DEF TakeSnapshots, CollectApp, JobSucceeds
<1> QED
  BY <1>2, <1>3, <1>4, <1>5, <1>6, <1>7, <1>8 DEF Next, StepRun, Cluster

\* Only a run that has finished its validation, and that a revert has asked to clean up,
\* is deleted or makes its worker delete claims (cleanup, DeletePVC): whatever the worker
\* has read, and whenever it has read it.
THEOREM OnlyDue == ASSUME HasJob PROVE Spec => CleanupsDue
<1> DEFINE Keeps == /\ \A r \in Runs : run[r].here /\ ~run'[r].here => Due(r)
                    /\ \A c \in Claims : claim[c].here /\ ~claim[c].dying /\ claim'[c].dying =>
                         Gone(claim[c].run) \/ \E q \in Runs : Due(q)
<1>1. ASSUME SoundInv, NEW r \in Runs, Cleans(wk[r]) PROVE Due(r)
  <2>1. wk[r].base.phase >= CleanupStarted /\ wk[r].base.cleanup /\ wk[r].pc # "idle"
    <3>1. Finished(r)
      BY <1>1 DEF SoundInv
    <3> QED
      BY <1>1, <3>1 DEF Finished, Cleans
  <2>2. Ahead(wk[r].base, run[r])
    BY <1>1, <2>1 DEF SoundInv, Behind
  <2>3. wk[r].base.phase \in Nat /\ run[r].phase \in Nat
    BY PhasesNat, <1>1 DEF SoundInv
  <2> QED
    BY <2>1, <2>2, <2>3 DEF Due, Ahead, CleanupStarted
<1>2. SoundInv /\ [Next]_vars => [Keeps]_vars
  <2> SUFFICES ASSUME SoundInv, [Next]_vars PROVE Keeps
    OBVIOUS
  <2>1. Moving /\ Inv
    BY SoundMoves DEF SoundInv
  <2>2. ASSUME NEW r \in Runs, run[r].here, ~run'[r].here PROVE Due(r)
    <3>1. wk[r].pc = "put" => wk[r].copy.here
      BY <2>1, PhasesNat DEF WorkerOK
    <3>2. wk[r].pc = "deleteRun"
      BY <2>1, <2>2, <3>1 DEF Moving, RunMove
    <3> QED
      BY <1>1, <3>2 DEF Cleans
  <2>3. ASSUME NEW c \in Claims, Marks(c)
        PROVE  Gone(claim[c].run) \/ \E q \in Runs : Due(q)
    <3>1. CASE \E r \in Runs : DeleteClaim(r)
      <4>1. PICK r \in Runs : wk[r].pc = "deleteClaim"
        BY <3>1 DEF DeleteClaim, At
      <4> QED
        BY <1>1, <4>1 DEF Cleans
    <3>2. CASE CollectClaim(c)
      BY <3>2 DEF CollectClaim
    <3> QED
      BY <2>1, <2>3, <3>1, <3>2, WhoMarksClaims
  <2> QED
    BY <2>2, <2>3 DEF Marks
<1>3. Spec => []SoundInv
  BY SoundAlways
<1> HIDE DEF Keeps
<1>4. Spec => [][Keeps]_vars
  BY <1>2, <1>3, PTL DEF Spec
<1> QED
  BY <1>4 DEF Keeps, CleanupsDue
=============================================================================
