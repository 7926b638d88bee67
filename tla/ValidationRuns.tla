----------------------------- MODULE ValidationRuns -----------------------------
(***************************************************************************)
(* The validation of the snapshots a revert is about to use: the worker of *)
(* a SnapshotRevert in state "init" (missingValidation and runValidation,  *)
(* pkg/manager/reverts.go), which makes a ValidationRun and asks for its   *)
(* cleanup, and the workers that take a run through its phases             *)
(* (pkg/manager/validator.go, validator_helper.go).  The queue hands a run *)
(* to one worker at a time; two runs may be worked on at once.             *)
(*                                                                         *)
(* Both kinds of workers read informer caches, which lag, and write to the *)
(* API server.  A run's phase and cleanup flag only move forward, so that  *)
(* a version of it is identified by its contents: an update is accepted if *)
(* the run is still what the update was made from.                         *)
(***************************************************************************)
EXTENDS Naturals, FiniteSets, SequencesExt

CONSTANTS
    Claims,      \* the kustomized claims, one per claim of the StatefulSet
    Runs,        \* names of runs, made from a UUID
    Nobody,      \* no run
    Hooks,       \* the jobs the strategy defines
    FaultyCalls, \* the calls that may fail
    MaxSnaps,    \* bound: sets of snapshots taken
    MaxFaults,   \* bound: lost calls, early timeouts, crashes, retries before a new run is listed
    MaxRequests  \* bound: reverts requested

RunCalls == {"claim", "objects", "job", "label", "deleteRun", "deleteClaim", "put"}
RevertCalls == {"create", "ask", "pause"}

ASSUME ValidationAssumption ==
    /\ IsFiniteSet(Claims) /\ Claims # {}
    /\ Nobody \notin Runs
    /\ Hooks \subseteq {"init", "pre", "validation"}
    /\ FaultyCalls \subseteq RunCalls \cup RevertCalls
    /\ MaxSnaps \in Nat /\ MaxFaults \in Nat /\ MaxRequests \in Nat

VARIABLES
    run,       \* ValidationRuns in the API server
    crun,      \* the same in the informer cache
    dirty,     \* the key of the run waits in validationRunWorkqueue
    wk,        \* the worker of each run: program counter and locals
    rq,        \* the worker of the SnapshotRevert
    claim,     \* kustomized claims; their names do not depend on the run
    cclaim,    \* the same in the informer cache
    app,       \* the run that owns the kustomized StatefulSet, or Nobody
    job,       \* the hook jobs of each run
    newest,    \* the newest set of snapshots: one of each claim
    labelled,  \* snapshots with the label "validated-...-volume"
    tested,    \* snapshots that a validation job has succeeded on
    clashed,   \* history: runs that were given an object of another run, or lost a
               \* claim to the cleanup of another
    requests,  \* reverts requested so far
    faults     \* faults so far

runVars == <<run, crun>>
claimVars == <<claim, cclaim>>
testVars == <<app, job, labelled, tested, clashed>>
vars == <<runVars, dirty, wk, rq, claimVars, testVars, newest, requests, faults>>

----------------------------------------------------------------------------
(* Data *)

\* Status: how many of the ten timestamps are set, KustStarted the first.
KustStarted == 1
KustFinished == 2
InitStarted == 3
InitFinished == 4
PreValidationStarted == 5
PreValidationFinished == 6
ValidationStarted == 7
ValidationFinished == 8
CleanupStarted == 9
CleanupFinished == 10

\* snap: the set of snapshots of ClaimsToSnapshots, 0 for a run never made.
\* claims: Objects.Claims, in the order of a map's iteration.
RunRecords == [here : BOOLEAN, phase : 0..CleanupFinished, snap : 0..MaxSnaps,
               cleanup : BOOLEAN, claims : Seq(Claims)]
NoRun == [here |-> FALSE, phase |-> 0, snap |-> 0, cleanup |-> FALSE, claims |-> <<>>]

NoClaim == [here |-> FALSE, run |-> Nobody, snap |-> 0, bound |-> FALSE, dying |-> FALSE]
ClaimRecords == [here : BOOLEAN, run : Runs \cup {Nobody}, snap : 0..MaxSnaps,
                 bound : BOOLEAN, dying : BOOLEAN]

IdleWk == [pc |-> "idle", base |-> NoRun, copy |-> NoRun, i |-> 1]
RunPcs == RunCalls \cup {"idle", "bindWait", "jobWait"}
\* since, before: the newest snapshots, and the runs ever made, at the request.
IdleRq == [pc |-> "idle", run |-> Nobody, base |-> NoRun, snap |-> 0, since |-> 0,
           before |-> {}]
RevertPcs == RevertCalls \cup {"idle", "start", "match", "poll"}

TypeOK ==
    /\ run \in [Runs -> RunRecords] /\ crun \in [Runs -> RunRecords]
    /\ dirty \in [Runs -> BOOLEAN]
    /\ wk \in [Runs -> [pc : RunPcs, base : RunRecords, copy : RunRecords, i : Nat \ {0}]]
    /\ \A r \in Runs : wk[r].pc \in {"claim", "label", "deleteClaim"} =>
                         wk[r].i <= Len(wk[r].base.claims)
    /\ rq \in [pc : RevertPcs, run : Runs \cup {Nobody}, base : RunRecords,
               snap : 0..MaxSnaps, since : 0..MaxSnaps, before : SUBSET Runs]
    /\ rq.pc \in {"poll", "ask", "pause"} => rq.run \in Runs
    /\ claim \in [Claims -> ClaimRecords] /\ cclaim \in [Claims -> ClaimRecords]
    /\ app \in Runs \cup {Nobody}
    /\ job \in [Runs -> [Hooks -> {"absent", "created", "succeeded"}]]
    /\ newest \in 0..MaxSnaps
    /\ labelled \subseteq Claims \X (0..MaxSnaps) /\ tested \subseteq Claims \X (0..MaxSnaps)
    /\ clashed \subseteq Runs
    /\ requests \in 0..MaxRequests /\ faults \in 0..MaxFaults

----------------------------------------------------------------------------
(* How the calls of a run's worker end *)

Fault == faults < MaxFaults /\ faults' = faults + 1

Goto(r, w) == wk' = [wk EXCEPT ![r] = w]

\* processNextValidation: an error puts the key back.
Error(r) == Goto(r, IdleWk) /\ dirty' = [dirty EXCEPT ![r] = TRUE]

\* The call took effect and the worker goes on as w, or the reply is lost.
Reply(r, call, w) ==
    \/ Goto(r, w) /\ UNCHANGED <<dirty, faults>>
    \/ call \in FaultyCalls /\ Fault /\ Error(r)

At(r, pc) == wk[r].pc = pc

\* The claim the worker is at, and the next step: the next claim, or after.
\* Mutant: one claim too many.
Cur(r) == wk[r].base.claims[wk[r].i]
NextClaimM(r, after) ==
    IF wk[r].i <= Len(wk[r].base.claims) THEN [wk[r] EXCEPT !.i = @ + 1]
    ELSE [wk[r] EXCEPT !.i = 1, !.pc = after]
NextClaim(r, after) ==
    IF wk[r].i < Len(wk[r].base.claims) THEN [wk[r] EXCEPT !.i = @ + 1]
    ELSE [wk[r] EXCEPT !.i = 1, !.pc = after]

\* The run with the next timestamp set.
Advance(c) == [c EXCEPT !.phase = @ + 1]

----------------------------------------------------------------------------
(* processNextValidation and the dispatch of ProcessValidationRun *)

Start(r, w) ==
    /\ At(r, "idle") /\ dirty[r]
    /\ dirty' = [dirty EXCEPT ![r] = FALSE]
    /\ Goto(r, w)
    /\ UNCHANGED <<runVars, rq, claimVars, testVars, newest, requests, faults>>

Attempt(r, pc, copy) == [pc |-> pc, base |-> crun[r], copy |-> copy, i |-> 1]

\* The key is not in the cache any more, the run waits for its cleanup to be
\* asked for, or it is done.
StartNothing(r) ==
    /\ \/ ~crun[r].here
       \/ crun[r].phase = CleanupStarted /\ ~crun[r].cleanup
       \/ crun[r].phase = CleanupFinished
    /\ Start(r, IdleWk)

\* The phases that only record that the next one starts: beforeKust, beforeInit,
\* beforePreValidation, beforeValidation, beforeCleanup.
StartMark(r) ==
    /\ crun[r].here
    /\ crun[r].phase \in {0, KustFinished, InitFinished, PreValidationFinished, ValidationFinished}
    /\ Start(r, Attempt(r, "put", Advance(crun[r])))

\* kust: the claims to make, named after those of the StatefulSet.
StartKust(r) ==
    /\ crun[r].here /\ crun[r].phase = KustStarted
    /\ \E order \in SetToSeqs(Claims) :
         Start(r, Attempt(r, "put", [Advance(crun[r]) EXCEPT !.claims = order]))

StartInit(r) ==
    /\ crun[r].here /\ crun[r].phase = InitStarted
    /\ Start(r, Attempt(r, "claim", Advance(crun[r])))

StartHook(r) ==
    /\ crun[r].here /\ crun[r].phase \in {PreValidationStarted, ValidationStarted}
    /\ Start(r, Attempt(r, "job", Advance(crun[r])))

\* Mutant: the run is not asked whether it may be cleaned up.
StartCleanupM(r) ==
    /\ crun[r].here /\ crun[r].phase = CleanupStarted
    /\ Start(r, Attempt(r, "deleteRun", Advance(crun[r])))
StartCleanup(r) ==
    /\ crun[r].here /\ crun[r].phase = CleanupStarted /\ crun[r].cleanup
    /\ Start(r, Attempt(r, "deleteRun", Advance(crun[r])))

----------------------------------------------------------------------------
(* init: createSnapshotPVCs, createObjects *)

\* CreatePVC: that the claim exists already is no error.
\* Mutant: it is one.
CreateClaimM(r) ==
    /\ At(r, "claim")
    /\ IF claim[Cur(r)].here
       THEN Error(r) /\ UNCHANGED <<claim, faults>>
       ELSE /\ claim' = [claim EXCEPT ![Cur(r)] =
                           [NoClaim EXCEPT !.here = TRUE, !.run = r, !.snap = wk[r].base.snap]]
            /\ Reply(r, "claim", NextClaim(r, "bindWait"))
    /\ UNCHANGED <<runVars, rq, cclaim, testVars, newest, requests>>
CreateClaim(r) ==
    /\ At(r, "claim")
    /\ Reply(r, "claim", NextClaim(r, "bindWait"))
    /\ LET c == Cur(r)
       IN  IF claim[c].here
           THEN clashed' = clashed \cup ({r} \ {claim[c].run}) /\ UNCHANGED claim
           ELSE /\ claim' = [claim EXCEPT ![c] = [NoClaim EXCEPT !.here = TRUE, !.run = r,
                                                                !.snap = wk[r].base.snap]]
                /\ UNCHANGED clashed
    /\ UNCHANGED <<runVars, rq, cclaim, app, job, labelled, tested, newest, requests>>

\* pvcToPtr gives PvcsBound the address of its loop variable for every claim:
\* only the last one is looked at.
PvcsBound(claims) ==
    LET last == Last(claims) IN cclaim[last].here /\ cclaim[last].bound

BindWait(r) ==
    /\ At(r, "bindWait") /\ PvcsBound(wk[r].base.claims)
    /\ Goto(r, [wk[r] EXCEPT !.pc = "objects"])
    /\ UNCHANGED <<runVars, dirty, rq, claimVars, testVars, newest, requests, faults>>

\* CreateUnstructuredObject: that the object exists already is no error.
CreateObjects(r) ==
    /\ At(r, "objects")
    /\ Reply(r, "objects", [wk[r] EXCEPT !.pc = "job"])
    /\ app' = IF app = Nobody THEN r ELSE app
    /\ clashed' = clashed \cup ({r} \ {app'})
    /\ UNCHANGED <<runVars, rq, claimVars, job, labelled, tested, newest, requests>>

----------------------------------------------------------------------------
(* createJob: the hooks of init, preValidation and validation *)

HookOf(phase) == CASE phase = InitStarted -> "init"
                   [] phase = PreValidationStarted -> "pre"
                   [] OTHER -> "validation"
Hook(r) == HookOf(wk[r].base.phase)

\* After its job, validation labels the snapshots; the others put the run.
AfterJob(r) == IF wk[r].base.phase = ValidationStarted
               THEN [wk[r] EXCEPT !.pc = "label"] ELSE [wk[r] EXCEPT !.pc = "put"]

SkipJob(r) ==
    /\ At(r, "job") /\ Hook(r) \notin Hooks
    /\ Goto(r, AfterJob(r))
    /\ UNCHANGED <<runVars, dirty, rq, claimVars, testVars, newest, requests, faults>>

CreateJob(r) ==
    /\ At(r, "job") /\ Hook(r) \in Hooks
    /\ Reply(r, "job", [wk[r] EXCEPT !.pc = "jobWait"])
    /\ job' = IF job[r][Hook(r)] = "absent" THEN [job EXCEPT ![r][Hook(r)] = "created"] ELSE job
    /\ UNCHANGED <<runVars, rq, claimVars, app, labelled, tested, clashed, newest, requests>>

\* Mutant: a job that exists is good enough.
JobDoneM(r) == job[r][Hook(r)] # "absent"
JobDone(r) == job[r][Hook(r)] = "succeeded"

JobWait(r) ==
    /\ At(r, "jobWait") /\ JobDone(r)
    /\ Goto(r, AfterJob(r))
    /\ UNCHANGED <<runVars, dirty, rq, claimVars, testVars, newest, requests, faults>>

\* LabelSnapshot, for each claim the snapshot the run names.
Label(r) ==
    /\ At(r, "label")
    /\ Reply(r, "label", NextClaim(r, "put"))
    /\ labelled' = labelled \cup {<<Cur(r), wk[r].base.snap>>}
    /\ UNCHANGED <<runVars, rq, claimVars, app, job, tested, clashed, newest, requests>>

----------------------------------------------------------------------------
(* cleanup: the errors of its deletions are ignored *)

DeleteRun(r) ==
    /\ At(r, "deleteRun")
    /\ \/ run' = [run EXCEPT ![r].here = FALSE] /\ UNCHANGED faults
       \/ "deleteRun" \in FaultyCalls /\ Fault /\ UNCHANGED run
    /\ Goto(r, [wk[r] EXCEPT !.pc = "deleteClaim"])
    /\ UNCHANGED <<crun, dirty, rq, claimVars, testVars, newest, requests>>

\* DeletePVC: by name, if the cache lists it.
DeleteClaim(r) ==
    /\ At(r, "deleteClaim")
    /\ LET c == Cur(r)
           found == cclaim[c].here /\ claim[c].here
       IN  \/ /\ found /\ claim' = [claim EXCEPT ![c].dying = TRUE]
              /\ clashed' = clashed \cup ({claim[c].run} \ {r})
              /\ UNCHANGED faults
           \/ ~found /\ UNCHANGED <<claim, clashed, faults>>
           \/ "deleteClaim" \in FaultyCalls /\ Fault /\ UNCHANGED <<claim, clashed>>
    /\ Goto(r, NextClaim(r, "put"))
    /\ UNCHANGED <<runVars, dirty, rq, cclaim, app, job, labelled, tested, newest, requests>>

----------------------------------------------------------------------------
(* UpdateValidationRun *)

\* Mutant: an update overwrites whatever is there.
AcceptedM(r, base) == run[r].here
Accepted(r, base) == run[r] = base

Put(r) ==
    /\ At(r, "put")
    /\ IF Accepted(r, wk[r].base)
       THEN run' = [run EXCEPT ![r] = wk[r].copy] /\ Reply(r, "put", IdleWk)
       ELSE Error(r) /\ UNCHANGED <<run, faults>>
    /\ UNCHANGED <<crun, rq, claimVars, testVars, newest, requests>>

\* The call never reaches the API server.
CallLost(r) ==
    /\ wk[r].pc \in FaultyCalls \ {"deleteRun", "deleteClaim"}
    /\ Fault /\ Error(r)
    /\ UNCHANGED <<runVars, rq, claimVars, testVars, newest, requests>>

\* wait.PollImmediate gives up.
Timeout(r) ==
    /\ \/ At(r, "bindWait") /\ ~PvcsBound(wk[r].base.claims)
       \/ At(r, "jobWait") /\ ~JobDone(r)
    /\ Fault /\ Error(r)
    /\ UNCHANGED <<runVars, rq, claimVars, testVars, newest, requests>>

StartRun(r) == \/ StartNothing(r) \/ StartMark(r) \/ StartKust(r) \/ StartInit(r)
               \/ StartHook(r) \/ StartCleanup(r)

StepRun(r) == \/ CreateClaim(r) \/ BindWait(r) \/ CreateObjects(r)
              \/ SkipJob(r) \/ CreateJob(r) \/ JobWait(r) \/ Label(r)
              \/ DeleteRun(r) \/ DeleteClaim(r) \/ Put(r)

----------------------------------------------------------------------------
(* The revert's side: processLatest in state "init"                          *)

ToRq(w) == rq' = w
RqGoto(pc) == ToRq([rq EXCEPT !.pc = pc])

\* processNextRevert: an error ends the attempt, the next one starts over.
RqError == ToRq([IdleRq EXCEPT !.pc = "start", !.since = rq.since, !.before = rq.before])

RqReply(call, w) ==
    \/ ToRq(w) /\ UNCHANGED faults
    \/ call \in FaultyCalls /\ Fault /\ RqError

RqRest == UNCHANGED <<wk, claimVars, testVars, newest>>

Validated(r) == crun[r].phase >= ValidationFinished

\* MatchRun: any run of the strategy that the cache lists.
Matching == {r \in Runs : crun[r].here}

\* missingValidation: a run that has finished, whichever it is, is enough.
\* Mutant: so is one that has not.
EnoughM(r) == TRUE
Enough(r) == Validated(r)
CheckMissing ==
    /\ rq.pc = "start"
    /\ \/ \E r \in Matching : Enough(r) /\ ToRq([rq EXCEPT !.pc = "pause", !.run = r])
       \/ Matching = {} /\ RqGoto("match")
       \/ \E r \in Matching : ~Enough(r) /\ RqGoto("match")
    /\ UNCHANGED <<runVars, dirty, requests, faults>> /\ RqRest

\* runValidation: join the run of the strategy, or make one of the newest
\* snapshots.
MatchRun ==
    /\ rq.pc = "match"
    /\ \/ \E r \in Matching : ToRq([rq EXCEPT !.pc = "poll", !.run = r])
       \/ Matching = {} /\ ToRq([rq EXCEPT !.pc = "create", !.snap = newest])
    /\ UNCHANGED <<runVars, dirty, requests, faults>> /\ RqRest

Unused == {r \in Runs : run[r].snap = 0}

CreateRun ==
    /\ rq.pc = "create" /\ Unused # {}
    /\ LET r == CHOOSE u \in Unused : TRUE
       IN  /\ run' = [run EXCEPT ![r] = [NoRun EXCEPT !.here = TRUE, !.snap = rq.snap]]
           /\ RqReply("create", [rq EXCEPT !.pc = "poll", !.run = r])
    /\ UNCHANGED <<crun, dirty, requests>> /\ RqRest

\* The poll, and the read of the run after it: an error if the cache does not list
\* the run, because it is gone or because it is new; then the next attempt may be
\* just as early, and make another.
PollRun ==
    /\ rq.pc = "poll"
    /\ \/ /\ crun[rq.run].here /\ Validated(rq.run)
          /\ ToRq([rq EXCEPT !.pc = "ask", !.base = crun[rq.run]]) /\ UNCHANGED faults
       \/ ~crun[rq.run].here /\ ~run[rq.run].here /\ RqError /\ UNCHANGED faults
       \/ ~crun[rq.run].here /\ run[rq.run].here /\ RqError /\ Fault
    /\ UNCHANGED <<runVars, dirty, requests>> /\ RqRest

AskCleanup ==
    /\ rq.pc = "ask"
    /\ IF Accepted(rq.run, rq.base)
       THEN /\ run' = [run EXCEPT ![rq.run] = [rq.base EXCEPT !.cleanup = TRUE]]
            /\ RqReply("ask", [rq EXCEPT !.pc = "pause"])
       ELSE RqError /\ UNCHANGED <<run, faults>>
    /\ UNCHANGED <<crun, dirty, requests>> /\ RqRest

\* pause puts the revert in its next state, and validation is not looked at any
\* more; or it fails.
Paused ==
    /\ rq.pc = "pause"
    /\ ToRq(IdleRq)
    /\ UNCHANGED <<runVars, dirty, requests, faults>> /\ RqRest

RqFails ==
    /\ \/ rq.pc \in FaultyCalls
       \/ rq.pc = "poll" /\ crun[rq.run].here /\ ~Validated(rq.run)
    /\ Fault /\ RqError
    /\ UNCHANGED <<runVars, dirty, requests>> /\ RqRest

StepRevert == CheckMissing \/ MatchRun \/ CreateRun \/ PollRun \/ AskCleanup \/ Paused

\* The user requests a revert of an application with snapshots.
Request ==
    /\ rq.pc = "idle" /\ requests < MaxRequests /\ newest > 0
    /\ ToRq([IdleRq EXCEPT !.pc = "start", !.since = newest, !.before = Runs \ Unused])
    /\ requests' = requests + 1
    /\ UNCHANGED <<runVars, dirty, faults>> /\ RqRest

----------------------------------------------------------------------------
(* Informers, restarts, the cluster *)

\* The update handler queues the key, the delete handler does not.
\* Mutant: a change of the spec alone is ignored.
SyncRunM(r) ==
    /\ crun[r] # run[r]
    /\ crun' = [crun EXCEPT ![r] = run[r]]
    /\ dirty' = [dirty EXCEPT ![r] = @ \/ (run[r].here /\ run[r].cleanup = crun[r].cleanup)]
    /\ UNCHANGED <<run, wk, rq, claimVars, testVars, newest, requests, faults>>
SyncRun(r) ==
    /\ crun[r] # run[r]
    /\ crun' = [crun EXCEPT ![r] = run[r]]
    /\ dirty' = [dirty EXCEPT ![r] = @ \/ run[r].here]
    /\ UNCHANGED <<run, wk, rq, claimVars, testVars, newest, requests, faults>>

SyncClaim(c) ==
    /\ cclaim[c] # claim[c]
    /\ cclaim' = [cclaim EXCEPT ![c] = claim[c]]
    /\ UNCHANGED <<runVars, dirty, wk, rq, claim, testVars, newest, requests, faults>>

\* The hourly resync calls the update handler without an update.
Resync(r) ==
    /\ crun[r].here /\ ~dirty[r] /\ dirty' = [dirty EXCEPT ![r] = TRUE]
    /\ UNCHANGED <<runVars, wk, rq, claimVars, testVars, newest, requests, faults>>

\* The process restarts: its caches are filled again, every resource is queued.
Crash ==
    /\ Fault
    /\ wk' = [r \in Runs |-> IdleWk] /\ dirty' = [r \in Runs |-> run[r].here]
    /\ crun' = run /\ cclaim' = claim
    /\ IF rq.pc = "idle" THEN UNCHANGED rq ELSE RqError
    /\ UNCHANGED <<run, claim, testVars, newest, requests>>

ClusterRest == UNCHANGED <<runVars, dirty, wk, rq, cclaim, labelled, clashed,
                         requests, faults>>

TakeSnapshots ==
    /\ newest < MaxSnaps /\ newest' = newest + 1
    /\ UNCHANGED <<claim, app, job, tested>> /\ ClusterRest

BindClaim(c) ==
    /\ claim[c].here /\ ~claim[c].bound /\ ~claim[c].dying
    /\ claim' = [claim EXCEPT ![c].bound = TRUE]
    /\ UNCHANGED <<app, job, tested, newest>> /\ ClusterRest

\* A deleted claim stays while the application's pods use it.
RemoveClaim(c) ==
    /\ claim[c].dying /\ app = Nobody
    /\ claim' = [claim EXCEPT ![c] = NoClaim]
    /\ UNCHANGED <<app, job, tested, newest>> /\ ClusterRest

Gone(r) == r \in Runs /\ ~run[r].here

\* The garbage collector deletes what a deleted run owns.
CollectClaim(c) ==
    /\ claim[c].here /\ ~claim[c].dying /\ Gone(claim[c].run)
    /\ claim' = [claim EXCEPT ![c].dying = TRUE]
    /\ UNCHANGED <<app, job, tested, newest>> /\ ClusterRest

CollectApp ==
    /\ Gone(app)
    /\ app' = Nobody
    /\ UNCHANGED <<claim, job, tested, newest>> /\ ClusterRest

\* The hooks work with the application, which needs its claims.
Serving == app # Nobody /\ \A c \in Claims : claim[c].here /\ claim[c].bound

JobSucceeds(r, h) ==
    /\ job[r][h] = "created" /\ run[r].here /\ Serving
    /\ job' = [job EXCEPT ![r][h] = "succeeded"]
    /\ tested' = IF h = "validation" THEN tested \cup {<<c, claim[c].snap>> : c \in Claims}
                 ELSE tested
    /\ UNCHANGED <<claim, app, newest>> /\ ClusterRest

Cluster == \/ TakeSnapshots \/ CollectApp
           \/ \E c \in Claims : BindClaim(c) \/ RemoveClaim(c) \/ CollectClaim(c)
           \/ \E r \in Runs : \E h \in Hooks : JobSucceeds(r, h)

----------------------------------------------------------------------------

Init ==
    /\ run = [r \in Runs |-> NoRun] /\ crun = run
    /\ dirty = [r \in Runs |-> FALSE] /\ wk = [r \in Runs |-> IdleWk]
    /\ rq = IdleRq
    /\ claim = [c \in Claims |-> NoClaim] /\ cclaim = claim
    /\ app = Nobody /\ job = [r \in Runs |-> [h \in Hooks |-> "absent"]]
    /\ newest = 0 /\ labelled = {} /\ tested = {} /\ clashed = {}
    /\ requests = 0 /\ faults = 0

Next ==
    \/ \E r \in Runs : \/ StartRun(r) \/ StepRun(r) \/ CallLost(r) \/ Timeout(r)
                      \/ SyncRun(r) \/ Resync(r)
    \/ \E c \in Claims : SyncClaim(c)
    \/ StepRevert \/ RqFails \/ Request \/ Crash \/ Cluster

Spec == Init /\ [][Next]_vars

\* Fairness: workers run, an error queues the key again, watches deliver, the
\* cluster's controllers work, jobs succeed.
Fairness ==
    /\ \A r \in Runs : WF_vars(StartRun(r)) /\ WF_vars(StepRun(r)) /\ WF_vars(SyncRun(r))
    /\ \A r \in Runs : \A h \in Hooks : WF_vars(JobSucceeds(r, h))
    /\ \A c \in Claims : /\ WF_vars(SyncClaim(c)) /\ WF_vars(CollectClaim(c))
                         /\ WF_vars(BindClaim(c)) /\ WF_vars(RemoveClaim(c))
    /\ WF_vars(StepRevert) /\ WF_vars(CollectApp)

LiveSpec == Spec /\ Fairness

----------------------------------------------------------------------------
(* Properties *)

\* No update of a run is lost: while a run exists, a step sets its next timestamp
\* or its cleanup flag and nothing else but, in kust, its claims, whichever worker
\* takes the step and however old the run it has read (UpdateValidationRun's
\* version check).
Moves(a, b) ==
    /\ \/ b.cleanup = a.cleanup /\ b.phase \in {a.phase, a.phase + 1}
       \/ b.phase = a.phase /\ b.cleanup
    /\ b.snap = a.snap
    /\ b.claims # a.claims => a.phase = KustStarted
NothingLost == [][\A r \in Runs : run[r].here /\ run'[r].here => Moves(run[r], run'[r])]_vars

\* A label "validated" is true: a validation job has succeeded on an application that
\* runs on that snapshot's data.  The one way to a label that is not is a run that was
\* given an object of another run, or lost a claim to another's cleanup, which happens
\* because the names do not depend on the run and "already exists" is no error.
LabelsEarned == \A x \in labelled \ tested : \E r \in clashed : run[r].snap = x[2]

\* A revert leaves "init" by a run whose snapshots have passed their validation, and
\* are at least as new as the request unless the run was made before it: missingValidation
\* takes any finished run of the strategy, but never one that was overtaken by snapshots
\* since the request or is not finished, however stale the cache.
ValidatedBefore ==
    rq.pc = "pause" =>
      LET r == rq.run
      IN  /\ r \in clashed \/ Claims \X {run[r].snap} \subseteq tested
          /\ r \in rq.before \/ run[r].snap >= rq.since

\* Nothing that is under test is taken away: while its run exists, a claim is marked for
\* deletion only by the cleanup of a run, its own or another that shares its name, that
\* has finished its validation and that a revert has asked to clean up; and only such a
\* run is deleted (cleanup's first test, DeletePVC by name).
Due(r) == run[r].cleanup /\ run[r].phase >= CleanupStarted
CleanupsDue ==
    [][/\ \A r \in Runs : run[r].here /\ ~run'[r].here => Due(r)
       /\ \A c \in Claims : claim[c].here /\ ~claim[c].dying /\ claim'[c].dying =>
            Gone(claim[c].run) \/ \E q \in Runs : Due(q)]_vars

\* When init has finished all claims of the run are bound.
InitBindsClaims ==
    [][\A r \in Runs : run[r].phase = InitStarted /\ run'[r].phase = InitFinished =>
         \A c \in Range(run[r].claims) : claim[c].here /\ claim[c].bound]_vars

\* A requested revert gets past its validation, unless two runs have clashed: a run
\* whose application was another's waits in vain once that is gone.
ValidationEnds == []<>(rq.pc = "idle" \/ clashed # {})

\* A cleanup that was asked for ends: nothing is left of the run, or, if the call
\* that deletes it was lost, it is recorded as cleaned up.  The application of another
\* run may hold claims of this one, if they have clashed.
Left(r) == run[r].here \/ app = r \/ \E c \in Claims : claim[c].run = r
CleanupEnds ==
    []<>(\A r \in Runs : run[r].cleanup => ~Left(r) \/ run[r].phase = CleanupFinished \/ clashed # {})
=============================================================================
