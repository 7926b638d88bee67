# Verification of snapshot-manager

TLA+ models, TLC runs and TLAPS proofs for snapshot-manager, the Kubernetes
controller that reverts a StatefulSet to VolumeSnapshots, undoes such a revert
and validates snapshots. Line numbers refer to the commit these files are kept
beside; paths without a directory are in `pkg/manager/`.

Run a configuration with `tlc -config X.cfg M`, where M is

- `MCValidationRuns` for `RunsMeet.cfg`, `Validation.cfg` and `InitBinds.cfg`,
- `MCController`, `MCAutoValidation` and `MCValidatedRevert` for the configuration
  of that name,
- `MCSnapshotReverts` for all others.

Check the proofs with `tlapm M.tla` for each of the eight modules `...Proofs`.
`PROJECT.json` lists every run, the lines each definition models, a mutant of the code
for each property, the findings and the hazards.

## 1. Inventory

| Component | State it keeps | Operations | What makes it correct |
|---|---|---|---|
| Snapshot reverts (`reverts.go`, `types.go`) | `spec.action.type` and `status.reverts` of a SnapshotRevert: a list of entries, each with a state, the replicas and the claims before the revert | `init`, `pause`, `revertSnapshots`, `undoRevertSnapshots`, `unpause`, dispatched by `processLatest` and `processUndo`; one put of the resource ends each attempt | claims are swapped only while nothing runs; no original volume is lost while an undo may need it; "reverted" and an undo mean what they say; an action comes to an end |
| Workers and queues (`controller.go`, vendored `workqueue`) | three queues: keys queued, keys being processed, keys to be queued again, now or after a delay; whether each is shut down | event handlers and resync `Add`; `processNext...` `Get`, process, `AddRateLimited` or `Forget`, `Done`; `Run` waits for caches, starts workers, shuts queues down | no event is lost; one worker at a time for a key; errors are retried; no attempt before the caches it lists have synced |
| Calls and caches (`controller_kube_calls.go`) | informer caches | reads from a cache; writes to the API server (update with a version check, patch, create, delete) | nothing unsafe follows from a cache that lags |
| Cluster controllers (external) | replicas, pods, claims, volumes, snapshots | StatefulSet controller, kubelet, binder, pvc-protection, provisioner, SnapshotPolicy | assumed; see 3.2 |
| Validation runs (`validator.go`, `validator_helper.go`) | ten timestamps of a ValidationRun, the objects it created, one mutex per run | `ProcessValidationRun`: one phase per attempt; jobs and claims waited for; cleanup; delayed removal of the mutex | phases in order, each done at least once and recorded after; a snapshot is labelled only after its validation job succeeded; cleanup only when asked for |
| Validation before a revert (`reverts.go` 177-272) | none of its own | `missingValidation`, `runValidation`, `initRun` | no claim is swapped before the validation of the snapshots ended |
| Automatic validation (`ProcessSnapshot`) | runs that wait for their snapshots | `updateRun` fills a run with snapshots as they come | no entry of a run is lost, a run starts with a snapshot per claim, a label is earned (nothing queues a snapshot, the body of `enqueueSnapshot` is commented out: that any snapshot comes into a run is not promised) |
| Kustomization (`kustomization.go`, `types.go` 104-133) | none | renders objects and claims for a run | the claims get the names the renamed StatefulSet will look for |
| Volume identity | none | `getId`, `sanitizeLabel` | the API server takes the label, if the id is short enough and begins and ends well |
| Program entry (`main.go`) | whether the process runs and was told to stop | starts the controller with two workers per queue, exits when `Run` returns | what was in memory comes back with the next process |
| Generated clients (`pkg/client`) | the informers of a factory, and which were started | `InformerFor`, `Start`, list and watch; the verbs of the API | an informer per type, started once, after its handlers are registered |
| kubectl plugin | none | patches of `spec.action.type` | - |

How they interact: a user (or the plugin) patches `spec.action.type`. The informer
of SnapshotReverts puts the key into `revertWorkqueue`. A worker takes it, reads the
resource **from the cache**, does one phase through calls to the API server, waits
by polling caches where a phase must wait, and puts the resource with its next
state. The put is itself an event that queues the key for the next phase. An error
queues the key again; the next attempt starts the same phase from its beginning,
with whatever the failed one has left behind. Nothing is locked: the only shared
state is the API server, and the only atomic step is the version check of an update.

What is hard, and hence modelled: every cache may lag, by any amount and
independently; any call may be lost, or take effect with its reply lost; waits time
out; the process restarts between any two calls; the user changes the request at any
moment; two objects named alike (a claim and its successor) and volumes that pass
from one to the other under a binder that works concurrently.

## 2. Plan

| # | Module | Models | State |
|---|---|---|---|
| 1 | `Cluster` | StatefulSet, pods, claims, volumes, their caches, the cluster's controllers | done |
| 2 | `SnapshotReverts` (EXTENDS `Cluster`) | the reconciliation of one SnapshotRevert, call by call, with queue, faults and user | done |
| 3 | `SnapshotRevertsProofs` | type correctness, history, staleness, ends of actions, swap-only-when-down | done |
| 4 | `ValidationRuns` | the phases of `ProcessValidationRun` call by call, for several runs, and the worker of a revert in "init" | done, 3.8 lists what is left out |
| 5 | `ValidationRunsProofs` | type correctness, no lost update of a run | done |
| 6 | `KeyedWork` | the abstract specification of queues and workers: keys are marked, given to one worker at a time, marked again | done |
| 7 | `WorkQueue`, `Controller` (EXTENDS `WorkQueue`) | main, informers, event handlers, queues, workers, the mutex of a run; refines 6 | done |
| 8 | `ControllerProofs` | the invariants of 7 and the refinement | done |
| 9 | `ValidatedRevert` | 2 and 4 joined at what they share: which snapshots are picked, twice, what they are tested as, under which names, and what is restored | done |
| 10 | `ValidatedRevertProofs` | type correctness, one pick per revert, live claims kept by a cleanup, what is picked, restored and labelled | done |
| 11 | `AutoValidation` | `ProcessSnapshot`, with several workers and the runs they share | done |
| 12 | `AutoValidationProofs` | its safety properties | done |
| 13 | `RequestsProofs` (EXTENDS 15) | the refinement of 16, and that a revert that is over has given the replicas back | done |
| 14 | `ValidationSoundProofs` (EXTENDS 5) | labels that were earned, validation before a revert, cleanups that were due, also when runs meet | done |
| 15 | `VolumesProofs` (EXTENDS 3) | claims and volumes: who may swap a claim again, exact undos, old volumes, what "reverted" holds | done |
| 16 | `RevertRequests` | the abstract specification of 2: what a user who asks for a revert or an undo is promised, without retries, caches and faults; refined by 2 | done |

Two abstract specifications are shown to be implemented. `RevertRequests` is what
`SnapshotReverts` promises to its user, see 3.3. `KeyedWork` is how the modules fit
together: `SnapshotReverts` (its `dirty` and `wk`), `ValidationRuns` and
`AutoValidation` are written on its promise for their keys, and `Controller` is shown to
keep it. `ValidatedRevert` takes the phases of `ValidationRuns` for granted and composes
them with the swap of `SnapshotReverts`.

What no module states and a later one could: that reverts and undos together are a stack of
volumes, under the conditions 3.4 finds (`UndoRestores` and `OldVolumesKept` are its two halves).

## 3. What is modelled

### 3.1 `SnapshotReverts`: the code

| State | Code |
|---|---|
| `rev` | the SnapshotRevert in the API server: `action` is `spec.action.type`, `reverts` is `status.reverts` (each entry: `state`, `replicas`, `old` = name and volume of `oldClaims`) |
| `crev`, `crevNew` | its copy in the informer cache, and whether that is the current version |
| `dirty` | the key is queued, or will be when the worker is done with it |
| `wk` | the worker between two calls: `pc`; `copy`, the DeepCopy it edits; `fresh`, whether that copy's version is still current, which is what the API server compares when it is put; `i`, the loop index; `sel`, the snapshots picked; `seen`, the replicas it read |
| `requests`, `faults` | counters that bound the user and the failures |

An attempt is one action for the dispatch up to the first call (`StartInit`,
`StartPause`, `StartRevert`, `StartUndo`, `StartUnpause`, `StartNothing`,
`StartRejected`), then one action per call or wait, then `Put`. Local work between
two calls (`setState`, the trim to `keepStatus`, dropping the undone entry, setting the action
to "idle") belongs to the action of the call it follows, see `Finish`. The guards of
the `Start` actions are the conditions of `processLatest` and `processUndo`;
`StartRejected` is the combinations for which they return an error before they have
done anything.

| Phase | Actions | Code |
|---|---|---|
| init | `StartInit`, `Put` | `init`, `initDetails`, `reverts.go` 29-62 |
| pause | `StartPause`, `Pause`, `Paused`, `Put` | 64-81 |
| revert | `StartRevert`, per claim `Fix`, `Delete`, `Avail`, then per claim `Create`, then `Reverted`, `Put` | 83-126, 392-409 |
| undo | `StartUndo`, per claim `UndoDelete`, then per claim `UndoCreate`, then `Undone`, `Put` | 128-159 |
| unpause | `StartUnpause`, `Unpause`, `Unpaused`, `Put` | 161-175 |

How calls fail: `Reply` is a call that took effect, whose reply may be lost;
`CallLost` is one that never arrived; both end the attempt (`Error`) and queue the
key. Two calls differ and have branches of their own. `Unpause`: the error of the
patch is overwritten by the next statement, so a lost patch goes on. `UpdatePV`:
`fixReclaimPolicy` and `availablePV` change the object the lister returned, that is
the one in the cache, so the cache keeps the change when the update is refused or
lost. `Timeout` ends a wait: for free once nothing more can happen by itself
(`AtRest`), otherwise it is a fault. `Crash` restarts the process with full caches.

### 3.2 `Cluster`: what it acts on

External code, modelled from how `reverts.go` depends on it. A claim names a volume
(`volumeName`) or none, may carry the snapshot annotation, and is bound or not; a
volume has a reclaim policy and a `claimRef` (a claim, none, or one that is gone).
The binder gives an unbound claim the volume it names if that is free, otherwise any
free volume of its class, otherwise a new one made from its snapshot. A deleted claim
lingers while its pod runs (`Finalizer`); when it goes its volume is released, and
deleted if its policy is "Delete". A StatefulSet that is up makes missing pods, and a
missing claim along with a new pod. It does not repair the claim of a pod that exists
already, as in the Kubernetes releases of this code's vendored client. A running pod writes to its volume (`data` becomes 0). Volume names
are not reused while anything still mentions them (`Taken`), so a finite set is
enough.

Every cache may lag: `Sync...` actions bring it up to date. A cache in `Prompt` sees
a write before the worker's next step; it lets a run ask what depends on one cache
without the interleavings of the others.

### 3.3 Properties

| Property | Says | Kind |
|---|---|---|
| `TypeOK` | types; and no step of the worker reads a history entry or a claim that is not there (a Go panic) | invariant |
| `SwapOnlyWhenDown` | a claim is deleted only while the StatefulSet has no replicas and no pods | action |
| `OldVolumesKept` | every volume recorded for an undo exists | invariant |
| `RevertLands` | when "reverted" is recorded, every recorded claim is bound to a volume that holds a snapshot | action |
| `UndoRestores` | when an undo drops its entry, each claim is back on the volume it had | action |
| `RestoredKept` | a claim is deleted while the resource says "paused", or by an attempt that still reads "paused" after "reverted" or "undone" was put, whose own put will be refused | action |
| `FinishedMeansUp` | when the action is "idle" the StatefulSet has its replicas | invariant |
| `KeepsPromise` | the worker implements `RevertRequests`: phases in order on the newest entry, "idle" only at the end of an action, no request overwritten, no claim deleted under a pod | refinement |
| `HistoryFinished` | only the last entry of the history is in progress, in every copy of the resource | invariant |
| `OneBehind` | the cache is at most one accepted put behind; a worker about to scale up works from a resource no version shows as "paused" | invariant |
| `PausedMeansDown` | whatever says "paused", or acts on it, does so while the StatefulSet is down | invariant |
| `LatestCompletes`, `UndoCompletes` | a requested action comes to an end | liveness |

`RevertRequests` has the variables `action` and `history` (the resource), `claims` (the
claims that are there and not about to go, `Present`) and `down` (`AppDown`). Its steps are
the user's `Ask`, one step per phase (`Begin`, `Stop`, `Swap`, `Finish`), each with its
guard on the action and on the newest entry, and `Application`, in which pods and claims
come and go. An attempt that fails, is repeated or works from an old copy is no step of it.

### 3.4 Runs

Runs that hold:

| Run | Instance | What it shows |
|---|---|---|
| `stale_resource` | 1 claim, 2 requests at any time, 1 fault at any call, the cache of the resource lags | the refinement of `RevertRequests`, undos included, the invariants its proof uses, and which claims a stale attempt can delete. This cache may be as stale as it likes: the version check protects the state machine |
| `stale_caches` | 1 claim, 1 revert, all caches lag, all interleavings, no fault | original volume kept, swap only when down, in a first revert. Restarts and lost calls are in the other runs and in `SwapsCorrect`, which has prompt caches of the StatefulSet and its pods |
| `history` | 1 claim, 3 requests, `KeepStatus` 2, each after the last has finished, 2 faults in calls other than the policy and the scale-up | reverts on reverts and undos: volumes kept, undos exact, replicas given back |
| `two_claims` | 2 claims, 1 revert, 1 fault | both claims restored before "reverted", also after an attempt that stopped between them; the revert ends in spite of the fault |

Runs that are expected to find a violation, each a finding of `PROJECT.json`:

| Run | Property | Short story |
|---|---|---|
| `policy_lost` | `OldVolumesKept` | the update of the policy fails after the cached object was changed; the retry sees "Retain" and goes on |
| `second_revert` | `RevertLands` | a freed volume of the first revert matches the claim of the second |
| `init_unbound` | `InitBindsClaims` | see 3.8 |

Four more configurations are kept for what the passing runs exclude. They are not among
the runs of `PROJECT.json`:

| Configuration | Property | |
|---|---|---|
| `UnpauseLost.cfg` | `FinishedMeansUp` is violated | the scale-up patch fails, its error is overwritten (`reverts.go:168`), and the wait uses the old count 0: the action is recorded as finished with no replicas |
| `UndoMidway.cfg` | `OldVolumesKept` is violated | an undo of a revert that is "paused" deletes claims whose volumes still have policy "Delete" (`reverts.go:309`) |
| `UndoRetried.cfg` | `UndoCompletes` is violated | a retried undo deletes the claim it has created (`reverts.go:141`), whose volume is released and cannot be bound again |
| `UndoLive.cfg` | `UndoCompletes` holds | with 2 claims, no fault and no claim that lingers |

The lists fit together: each run that holds excludes, by a named constant, what
the run that fails is about. `FaultyCalls` without "fix" and "unpause" excludes
`policy_lost` and `UnpauseLost.cfg`; `SwitchMidway = FALSE` excludes `UndoMidway.cfg`;
only one revert in `two_claims` excludes `second_revert`.
`stale_resource` excludes none of the faults.

Two more exclusions are caches that must not lag where the code trusts them. With the
StatefulSet not in `Prompt` and two requests, `SwapOnlyWhenDown` fails: an undo
requested right after a revert reads the StatefulSet from before its scale-up, skips
the patch (`reverts.go:70`) and deletes claims under pods. With the SnapshotRevert not
in `Prompt`, `LatestCompletes` fails: an attempt that still reads "paused" after
"reverted" was put deletes the restored claim, its creation is refused while it
lingers, and the StatefulSet comes up without it. That attempt is in `stale_resource`;
`RestoredKept` says that it is the only kind that can, and `two_claims`, whose
`LatestCompletes` is about all other delays, has a prompt cache of the resource.

### 3.5 Bounds

- `Claims`: one claim shows every interleaving of the worker with the rest; two are
  needed for attempts that stop between claims and for volumes that go to the wrong
  claim. Three add no new position in the loops.
- `MaxRequests`: two requests are a revert and its undo, or a change of mind; three
  are needed for an undo that leaves an older entry, and a revert on top of a revert.
- `MaxFaults`: one fault can be at any call, wait or as a restart; two can hit an
  attempt and its retry.
- `MaxSnaps`: one snapshot of each claim, taken at any time, enough to tell restored
  data from other data. Which snapshot is picked is the matter of `ValidatedRevert`.
- `KeepStatus`: 0 (no trim), and 2 with three requests, so that the third revert trims and an undo of the second one leaves an entry.
- `Vols`: one more than can be in use at once, given that names come back when
  nothing mentions them.

### 3.6 Fairness

`LiveSpec` assumes weak fairness of: the worker's steps and starts (workers run in a
loop, an error queues the key again, see `runWorker` and `processNextRevert`), the
end of a wait (`wait.PollImmediate` has a deadline), delivery by the watches, and
each controller of the cluster. `Crash`, `CallLost`, early timeouts and requests have
none and are bounded. `Resync` has none: nothing may depend on the hourly resync.
`Rebind` has none either.

### 3.7 Left out

Namespaces and label selectors (one application; see the hazard at
`controller_kube_calls.go:226`); several SnapshotReverts
of one StatefulSet and several managers; a StatefulSet
that is scaled by somebody else, and one whose claims are not one per replica; a
SnapshotRevert without `statefulSet`; a negative `KeepStatus`, which nothing validates and with
which `setState` panics; fields of a claim other than name, class,
volume and annotation; volumes whose provisioner fails. Several keys and workers,
delays and the deletion of a resource are in `Controller`, `fromTime` and `toTime` in
`ValidatedRevert`.

### 3.8 `ValidationRuns`

| State | Code |
|---|---|
| `run`, `crun` | the ValidationRuns in the API server and in the cache: `phase` counts the timestamps of `status` that are set, `snap` is the set of snapshots of `claimsToSnapshots`, `cleanup` is `spec.cleanup`, `claims` is `objects.claims` in the order a map gave them |
| `dirty` | the key of the run is in `validationRunWorkqueue` |
| `wk` | the worker of each run between two calls: `pc`; `base`, the cached run the attempt started from; `copy`, what it will put; `i`, the loop index |
| `rq` | the worker of a SnapshotRevert in state "init"; `since` and `before`, the newest snapshots and the runs there had been when it was requested |
| `claim`, `cclaim` | the kustomized claims and their cache: the run that owns them, the snapshots they are made of, bound, being deleted |
| `app`, `job` | the kustomized application (one owner) and the hook jobs of each run |
| `labelled`, `tested` | which snapshots carry the label; which ones a validation job has succeeded on (history) |
| `clashed` | history: the runs that were given an object of another run, as their own or to wait for, or lost a claim to the cleanup of another |

| Code | Actions |
|---|---|
| `beforeKust` and the four like it (`validator.go` 36-45, 60-64, 88-92, 108-112, 149-153) | `StartMark`, `Put` |
| `kust` (47-58) | `StartKust`, `Put` |
| `init` (66-86), `createSnapshotPVCs`, `createObjects`, `createJob` | `StartInit`, per claim `CreateClaim`, `BindWait`, `CreateObjects`, `SkipJob` or `CreateJob` and `JobWait`, `Put` |
| `preValidation`, `validation` (94-147) | `StartHook`, `SkipJob` or `CreateJob` and `JobWait`, for `validation` per claim `Label`, `Put` |
| `cleanup` (155-167) | `StartNothing` while it was not asked for; `StartCleanup`, `DeleteRun`, per claim `DeleteClaim`, `Put` |
| `missingValidation`, `runValidation`, `initRun` (`reverts.go` 177-272) | `CheckMissing`, `MatchRun`, `CreateRun`, `PollRun`, `AskCleanup` |
| `pause`, after which the state is no longer "init" | `Paused` |

Calls fail as in `SnapshotReverts`: `Reply`, `CallLost`, `Timeout`, `Crash`; in the
revert's worker `RqReply` and `RqFails`. The two deletions of `cleanup` have a branch
of their own for a call that fails, because their errors are ignored.

Three abstractions to know. A version of a run is identified by its contents: nothing
but a worker and `AskCleanup` changes it, each only forward, so that two versions with
the same contents are the same version, and `Accepted` compares contents where the
API server compares `resourceVersion`. The worker of a run reads a job's success from
the API server: a success is never taken back, so a late cache only delays it. The
set of snapshots of a run is one number; that each claim's snapshot is the newest of
its own is a property of `ValidatedRevert`.

| Property | Says | Kind |
|---|---|---|
| `TypeOK` | types; a worker never indexes a claim the list does not have | invariant |
| `LabelsEarned` | a labelled snapshot is one a validation job succeeded on, unless its run has clashed | invariant |
| `ValidatedBefore` | a revert leaves "init" by a run whose snapshots were tested, unless it has clashed, and which are as new as the request, unless the run was made before it | invariant |
| `NothingLost` | an update of a run sets one timestamp or the cleanup flag and keeps the rest, whatever was read | action |
| `CleanupsDue` | a run, or a claim of a run that exists, is deleted only by the cleanup of a run that has finished its validation and was asked to clean up | action |
| `InitBindsClaims` | after init, every claim is bound | action |
| `ValidationEnds` | a requested revert gets past its validation, unless runs have clashed | liveness |
| `CleanupEnds` | after a cleanup was asked for nothing is left of the run, or it is recorded as cleaned up, unless runs have clashed | liveness |

What the code does not guarantee, and the model therefore does:

- A second run of a strategy. `GetRun` right after the create may fail because the
  cache does not show the run yet; the retry comes after milliseconds, and if the cache
  still lags it creates another (`reverts.go:208-224`). A retry of `PollRun` before the
  new run is listed counts as a fault, to bound it.
- A run that is made while the one before it is cleaned up: the reply of the update
  that asks for the cleanup is lost, or the process restarts in the pause after it, and
  the retry finds the run gone (`reverts.go:239`).
- Two runs with the same claims: the kustomized names do not depend on the run, a
  claim or an object that exists is no error, and a cleanup deletes by name. A run may
  take the claims of another for its own, those of a run that is going too, and its job
  then tests other snapshots than it labels (`validator_helper.go:208`).
- A revert that is content with the run of an earlier one: `missingValidation` takes
  any finished run of the strategy (`reverts.go:197`). So does one that finds a run
  whose deletion was lost and which stays with `CleanupFinished` set.

So there is no property that a strategy has one run, and no document of the repository says so.
What the properties state is that nothing else goes wrong: a label or a validation can be
untrue only for a run that has `clashed`, and only a run from before the request can be older than it.

| Run | Instance | What it shows |
|---|---|---|
| `runs_meet` | 1 claim, 2 runs, a validation job, 2 sets of snapshots; a second request, or 1 fault at any call | all safety properties, with second runs, lost replies, restarts, shared claims, and a second revert that finds the run of the first at any point of its cleanup |
| `validation` | 1 claim, 2 runs, init and validation jobs, 1 set of snapshots, 1 request, 1 fault | `ValidationEnds`, `CleanupEnds` |
| `init_unbound` | 2 claims, 2 runs, 2 requests, no fault | expected violation of `InitBindsClaims`: `pvcToPtr`, `validator_helper.go:226` |

`OneMore` in `MCValidationRuns` is the constraint that a second request and a fault do not come
together. One claim is enough for runs to meet: they meet at each name. One fault is what a second
run takes, be it a retry with a late cache, a lost reply or a restart; more faults,
claims, runs, requests and sets of snapshots at a time are the matter of the proofs. Two
sets of snapshots tell the newest from an older one.

Fairness (`LiveSpec`): weak fairness of the workers (an error queues the key again,
`controller.go:297`), of the watches, of the controllers that bind, remove and collect
claims and collect the application, and of each job's success. That jobs succeed is
an assumption on the application under test: a job that fails for good keeps the
revert in "init" by design. Requests, snapshots, faults and `Resync` have none.
Deadlock is not checked: when every request is done and every run cleaned up nothing
is left to do.

Left out: a strategy without `hooks`, whose pointer is nil and read without a test
(`validator.go:81`), so that the worker panics; the mutex of a run and its removal (they are
in `Controller`, which shows that nobody ever waits for it); errors of reads before a phase's first effect; claims the
StatefulSet controller makes again for the kustomized application while they are
deleted; jobs that fail; a run made or edited by hand, for which `beforeKust` can
find a claim without a snapshot.

### 3.9 `Controller`, `WorkQueue` and `KeyedWork`

| State | Code |
|---|---|
| `main`, `stop` | how far `main` and `Run` are; `stopCh` |
| `started`, `synced` | the informers that run, those whose `HasSynced` is true |
| `obj`, `cobj` | whether each object exists in the API server and in its cache, and its version |
| `notify` | handler calls an informer has still to make |
| `q` | `snapshotWorkqueue`, `validationRunWorkqueue`, `revertWorkqueue`: the fields of the vendored queue, and the keys whose delay runs |
| `worker` | the goroutines of `runWorker`: the key each has, the version it has read, whether it holds the mutex that is in the map |
| `mutexes`, `timers` | `validator.mutex` for runs, and the goroutines that sleep before they remove one |
| `handled` | history: the newest version of an object an attempt has succeeded on |

| Code | Actions |
|---|---|
| `main`, `NewController`, `Run` | `NewController`, `StartFactory`, `Run`, `StartWorkers`, `Signal`, `RunReturns`, `Exit`, `Crash` |
| informers (`factory.go`, `snapshotrevert.go` and its like) | `Sync` for the first list, `Watch`, `Resync` |
| handlers (`controller.go` 112-200), removal of a mutex (`validator.go` 208-215) | `HandleChange`, `HandleDelete`, `RemoveMutex` |
| `processNext...` (245-333) | `Get`, `Leave`, `Read`, `Lock`, `Succeed`, `Fail`, `Finish` |
| `AddRateLimited` and the delaying queue | `Fail`, `Retry` |

An attempt only succeeds or fails here; what it writes is an `Update` by anybody. The
two factories start concurrently with `Run`. Each queue operation holds the queue's
lock, so that it is one step: `WorkQueue` has an operator for each. `StopCh` closed
stops informers; `Run` then shuts down two of the three queues, and `main` returns
without waiting for workers, so that the process ends with attempts in the middle
(`Exit`). A restart finds an empty process and the same objects.

| Property | Says | Kind |
|---|---|---|
| `TypeOK` | types; a key is only in the queue of its kind | invariant |
| `OneWorkerPerKey` | no two workers have one key | invariant |
| `Remembered` | a version in the cache that no attempt has succeeded on has a handler call, a queue entry, a delay or a worker that stands for it | invariant |
| `KeepsPromise` | the refinement of `KeyedWork`: `marked` is dirty or delayed, `busy` is what the workers have | refinement |
| `Handled` | in the end the last version of each existing object has been processed | liveness |
| `NeverContended`, `ListsSynced` | nobody waits for the mutex of a run, although it may be removed while it is held; no attempt lists from a cache before its first sync | invariants, as theorems |

The run `controller` has one SnapshotRevert and one ValidationRun, two workers for
each queue as `main` asks for, one change, deletion or resync and one failed attempt,
signal or crash. Two workers are what contention for a key takes; a change while the
key is processed and an error at the same time are what the dirty mark and the delay
are for. The informers list in five groups in any order (`Together`), chosen so that
those that are not waited for, the claims, and each kind of key are apart. More keys,
workers, changes and faults are the matter of the proofs. The queue of snapshots has
no keys, as in the code.

Fairness: goroutines are scheduled; `main` is started again when it has gone (a
Deployment restarts it); a started informer lists and watches; an attempt ends, one
way or the other; a delay passes. `Fail` by itself is bounded by `MaxFaults`: an
attempt that fails for good never handles its object, whatever the queue does. While
the caches of StatefulSets and volumes have not synced it fails without being counted.
Deadlock is not checked: the system rests when all is handled.

### 3.10 `AutoValidation`

The program hands no snapshot to `ProcessSnapshot`: the body of `enqueueSnapshot`, which
would queue them, is commented out (`controller.go` 186-200), and only the tests call
it. The module is about that function as it is written. Anyone may hand over any snapshot
that was taken, at any time, again, or nobody ever does; there is no fairness and no
liveness property, and nothing here says that a snapshot is validated.

| State | Code |
|---|---|
| `taken` | the snapshots that exist |
| `wk` | the worker of a snapshot between the read of the cache and the write: `strategy`, whose mutex it holds; the `run` it will update or that it makes; `base`, what it read |
| `run`, `crun` | the runs and their cache: owner, the phases that matter, `map` for `claimsToSnapshots`, `objects` for the snapshots the claims were made of |
| `claims`, `cclaims` | the claims of the StatefulSets and their cache |
| `labelled`, `tested` | as in `ValidationRuns` |
| `late`, `lagged` | history: snapshots that came into a run after its claims were made; whether a run was made while the cache did not list another |

`Begin` is `ProcessSnapshot` up to its write: `getStrategyForSnapshot`, the mutex,
`getRunForStrategy`, the check of `updateRun`. `Create`, `Update` and `CallLost` are the
write. `BeforeKust`, `Kust` and `Validate` are what `ProcessValidationRun` does with the
map of the same run at the same time. An attempt that fails before its write is no
step: no pod mounts the claim, no strategy selects it, the run has not its claim.

| Property | Says | Kind |
|---|---|---|
| `OneRun` | a strategy has one run, unless one was made while the cache did not list the other | invariant |
| `StartedComplete` | a run that has started has a snapshot for each of its claims | invariant, as a theorem |
| `LabelsEarned` | a labelled snapshot was tested, or came late | invariant |
| `EntriesKept` | no update takes a claim or a snapshot out of a run | action |

The exceptions are what the code does not guard against: `MatchRun` reads a cache, so
that the mutex of a strategy does not keep a second run away; `updateRun` does not
look at the phase of a run, so that a snapshot taken during a validation is labelled
for it.

The run `auto_validation` has two claims, one of which may come later, two snapshots
of one and one of the other, two workers and two runs: what it takes for
two workers to be in `ProcessSnapshot` for one strategy, for a snapshot to replace
another and for a second run. Lost writes, restarts and deletions of runs are not bounded.
The two snapshots of one claim, and the names of the runs, are symmetric. Snapshots are not
deleted here.

### 3.11 `ValidatedRevert`

What decides which snapshot goes where, from the choice of snapshots to the restored
claims, with the names and labels in between.

| State | Code |
|---|---|
| `window`, `time`, `dropped`, `foreign` | `fromTime` and `toTime`; the creation times of the snapshots that were listed; those that are deleted; those of another namespace |
| `state`, `wk` | the state of the revert's entry; its worker in `revertSnapshots`, with `sel`, what this attempt picked |
| `run` | the ValidationRun: how far it is, `map` and `objects` (the kustomized names) |
| `claim`, `cclaim`, `app` | claims by name, those of the StatefulSet in the cache, the kustomized objects |
| `labelled`, `tested` | labels; history: what was tested in the place of which claim |
| `changed` | history: since the run was made a snapshot of the window was listed, one of the run was deleted, or the window was edited |

`GetSnapshots` is the loop of `getSnapshots` over the listed snapshots in every order;
it is called by `CreateRun` (`initRun`) and by each `StartRevert`. `KustomizedName`,
`GetKustResources`, `Id`, `SanitizeLabel` and `KnownSources` are the pure code of
`types.go` and `validator_helper.go`: a name is a sequence of its parts between dashes, an
id a sequence of letters, dashes and other characters. `LookedFor` is what the renamed
StatefulSet asks for. The steps of a run are one or more phases of `ValidationRuns`
each; a deleted claim is gone at once (`SnapshotReverts` has the claims that linger),
and the cache of the revert itself is prompt.

Snapshots come and go: `ListSnapshot` and `DropSnapshot`, the latter by a user or the
retention of the SnapshotPolicy (the repository's README, 76-91). `getSnapshots` picks among those that are
listed, `LabelSnapshot` fails for one that is gone, and a claim made from one is not
bound. `EditWindow` changes `fromTime` and `toTime` between two attempts; an edit during
one makes its put fail, which is a lost call and then an edit. Deletions and edits
count as faults. A label may have `MaxLabel` characters: 63 in the vendored
`validation.go` (88-106), three in the run, where an id of three letters is then as long as may be.

| Property | Says | Kind |
|---|---|---|
| `PickNewest` | each pick is, for each claim, a newest listed snapshot in the window, whatever the order of the list | action |
| `OneSet` | what is recorded as "reverted" is from one pick, that of the last attempt | invariant |
| `RestoresValidated` | what is restored is what was validated, unless since the run was made a snapshot of the window was listed, one of the run was deleted, the window was edited, or two snapshots of a claim have the same second | invariant |
| `LabelsTested` | a labelled snapshot was tested in the place of the claim it is of | invariant |
| `LiveKept` | only the paused revert deletes claims of the StatefulSet, never the cleanup of a run | action |
| `Ends` | the revert ends if each claim keeps a snapshot in the window, none there is of another namespace, none was deleted, and ids make labels: they begin and end with a letter and, cleaned, are no longer than a label | liveness |

The run `validated_revert` has two claims, so that an attempt can stop between them,
two snapshots of the first, one of them perhaps of a claim of the same name in another
namespace, three seconds and two windows whose bound is the second one, so that each
bound is met, and one fault, deletion or edit. The ids have a dash and two characters in a row that a
label may not have.

What the assumptions leave to the user of the code: a strategy has one claim template
and a prefix (`StrategyAssumption`). Without a prefix a kustomized claim has the name
of a live one: it exists, it is "created", and the cleanup deletes it. With two
templates two claims get one name. A HostPath starts with "/", its label would start
with "-" and is refused for ever, and so is an id of more than 63 characters: nothing
shortens it. A snapshot of the run that is deleted before it is labelled leaves the revert in
"init". A snapshot of another namespace that is picked
leaves the revert waiting with the application scaled down. A snapshot without any label is outside the model:
`LabelSnapshot` writes into its nil map and the worker panics (`controller_kube_calls.go:212`).

## 4. What is proved

### 4.1 `SnapshotRevertsProofs`

It holds for any number of claims and volumes, any `KeepStatus`,
any `FaultyCalls`, `MaxFaults`, `MaxRequests`, with or without `Finalizer` and
`SwitchMidway`, from `ClusterAssumption` and `RevertsAssumption` alone:

- `TypeCorrect`: `Spec => []TypeOK`.
- `HistoryCorrect`: `Spec => []HistoryFinished`. Inductive with `TypeOK`.
- `BehindCorrect`: `Spec => []OneBehind`. Inductive with the two above. It holds
  whatever caches lag.
- `EndsCorrect`: `Spec => ActionEnds`: an action becomes "idle" only at its own end, with
  nothing else changed, and a request made meanwhile is not overwritten, whatever caches
  lag. Inductive with the three above, `AllFit` (no
  version of the history is longer than `keepStatus`) and `CopyCurrent` (a copy that is
  still current is the resource itself until the worker has edited it for the put).

and, when the caches of the StatefulSet and its pods are prompt,

- `PausedCorrect`: `Spec => []PausedMeansDown`,
- `SwapsCorrect`: `Spec => SwapOnlyWhenDown`.

3.4 says what happens without this assumption. Under the same assumption
`RequestsProofs` proves the refinement,

- `Refines`: `Spec => KeepsPromise`,

and, if no call of unpause is lost,

- `FinishedCorrect`: `Spec => []FinishedMeansUp`,

whatever caches lag; `UnpauseLost.cfg` is the counterexample without the assumption.

The argument for `Refines`. The only concrete steps that change the resource are the
user's `Request`, which is `Ask`, and an accepted `Put`. The invariant `InPhase` says at
which phase a worker at each step is: its copy may pause at `pause` and `pauseWait`, may be
swapped in the two loops and their waits, may be finished at `unpause` and `readyWait`,
whether the copy is current or not; and what a worker is about to put on a current
version is the next phase of it (`Moves`). `CopyCurrent` is what carries a phase from the
copy to the resource, `AllFit` what makes the trim at the end of an attempt change
nothing but a history with a new entry. `MoveAllowed` turns each of the `Moves` into the
step of `RevertRequests`; that the application is down when "paused" is put, and while it
stays so, is `PausedMeansDown`, and that no other step takes a claim away under a pod is
`SwapSafe`. Every other step is a step of the `Application` or a stutter.

The invariant of `FinishedCorrect` is `UpInv`. `RecordedUp`: every entry of every version of the history
records the replicas of a StatefulSet that was up, so that unpause has the right number
to patch; this holds because `init`, the only phase that writes a new entry, fails
when the cached StatefulSet has none. `Raised`: from the patch of
unpause to the end of the action the StatefulSet is up, and no worker can start a pause
from a copy that is older than that end (`Over` of the cached version; this is where
`OneBehind` is needed).

The argument for `SwapsCorrect`. A claim is deleted by `Delete` and `UndoDelete`,
whose guard says `wk.pc \in Swapping`; `PausedMeansDown` says that the StatefulSet is
then down. Why this is inductive: a worker gets there only from a resource that says
"paused", which is put only by a worker that has seen no replicas and no pods. What
could break it is a scale-up while some copy still says "paused". `Unpause` is the
only scale-up; `OneBehind` says that a worker at `unpause` works from "reverted" or
"undone" and that then neither the resource nor the cache says "paused" any more. That
in turn needs that an older worker's put of "paused" is refused, which is the version
check (`wk.fresh => crevNew`, `crevNew => crev = rev`), and that dropping or trimming
entries never uncovers an entry that is in progress, which is `HistoryFinished`. The
conjunction, with `CachesAgree` for the prompt caches, is `Down`.

Layout: lemmas on the data first (what `WithState`, `Trim`, `Front` do to a history),
then one section per invariant, each with a lemma per group of actions and one `...Step`
lemma, then the theorem.

`VolumesProofs` is about claims and volumes, each time for any number of claims,
volumes and faults and any `KeepStatus`:

| Theorem | Says | Assumes | Without it |
|---|---|---|---|
| `RestoredCorrect` | `Spec => RestoredKept` | nothing | |
| `UndoCorrect` | `Spec => UndoRestores` | the worker sees the resource it has put and the claims it has written; the action is not changed midway | `undoWait` sees an old claim of the same name bound; an undo of half a revert drops an entry that `revertSnapshots` has got nowhere with |
| `KeptCorrect` | `Spec => []OldVolumesKept` | also the volumes it has updated; no update of a policy is lost | `UndoMidway.cfg`, `policy_lost`; a cached volume that still says "Retain" or is missing is not fixed |
| `LandsCorrect` | `Spec /\ []NoSpare => RevertLands` | the worker sees the StatefulSet, pods and claims it has written; no free volume has the class of the restored ones (`NoSpare`) | `second_revert`; a pod that starts writes to the volume; `bindWait` sees an old claim bound |
| `FirstLands` | `Spec => RevertLands` | also the resource it has put; one request | `second_revert` |

The version check is what makes the state machine independent of caches
(`HistoryCorrect`, `BehindCorrect`); nothing like it protects claims and volumes, and
that is why most of these assume caches that those do not. `LandsCorrect` needs no such cache
of the resource, and holds if the action is changed midway: the version check does
protect what is recorded as "reverted".

The frame of `UndoCorrect`, `KeptCorrect` and `FirstLands` is `Walk(S, T)`, about the
recorded claims in each version of the resource: T holds of all that are recorded, S of
those of entries that are finished and of those in the entry in progress that the loop
of `revertSnapshots` has passed `fixReclaimPolicy` with. `WalkStep` reduces the
induction to what a new entry records and what one call does to the claim the loop is
at, and covers trims, undos, refused puts, restarts and retries once for all.

- For `KeptCorrect`, S is "the volume exists with policy Retain" and T is "no volume,
  or kept, or still held by its claim, which is not to be deleted" (`KeptWalk`). What
  could break it is a volume that goes while it has policy "Delete" (`KeptStays`,
  `HeldStays`), and the cluster removes a volume only when the last claim on it goes. Only
  the worker deletes claims, the one it is at, after `fixReclaimPolicy`
  (`DyingDoomed`: a claim that lingers is one of the entry in progress). So `init` only
  records claims that are there to stay, on volumes that are theirs (`AllGood`).
- For `UndoCorrect`, S is "a volume is recorded" (`Named`), because
  `fixReclaimPolicy` fails for a claim that had none; an undo of a claim without a
  volume would be satisfied with any. `Restoring` says that claims the undo has
  created name the volume recorded; the wait then sees them bound, to that volume.
- For `RestoredCorrect`, `Redo`: a cached "paused", and the copy of a worker that swaps,
  is at most one phase old (this comes from `OneBehind`), and a copy that is still
  current is in the state of the resource until it is put. So a worker that deletes a claim
  when the resource is no longer "paused" has a copy whose version is not current.
- With a prompt cache of the resource this cannot happen: `InStep`, that an attempt in a
  swap works from the current resource until its own put, serves the theorems that assume one.
- For `LandsCorrect`, `Landing`: behind the worker at `create` are claims that were made
  from the snapshots this attempt has picked, each unbound or bound to a volume that is
  its own and was made from it (`NewClaim`). Nothing writes to it because the
  application is down from "paused" to the accepted put of "reverted"
  (`PausedMeansDown`). For `FirstLands`, `Originals`: all recorded volumes are of the
  original class, so that those `availablePV` frees are no spares.

Only model-checked: liveness.

### 4.2 `ValidationRunsProofs`

It holds for any number of claims and runs, any hooks, faults and requests,
from `ValidationAssumption` alone:

- `TypeCorrect`: `Spec => []TypeOK`.
- `UpdatesKept`: `Spec => NothingLost`.

The invariant `Inv` has a part for each group of variables. What makes it inductive:
`RunOK` (a kustomized run names at least one claim, so that the loops have a first
one; a run that exists was made of snapshots, so that a name that is unused is not
that of a run) and `WorkerOK` (what a worker is about to put is one move, `Moves`,
away from what it has read). `UpdatesKept` then needs only the four steps that write
a run (`WhoWritesRuns`): `Put` is accepted only if the run is still what the worker
has read, and then moves as `WorkerOK` says; `AskCleanup` sets one flag under the same
condition; `CreateRun` takes an unused name; `DeleteRun` ends the run.

`ValidationSoundProofs` assumes `HasJob`, that the strategy has a validation job: without
one a run succeeds without having tested anything, by design. All calls may be lost, the
process may restart, the caches may be of any age, and any number of runs may meet. Then

- `LabelsTrue`: `Spec => []LabelsEarned`,
- `RevertsValidated`: `Spec => []ValidatedBefore`,
- `OnlyDue`: `Spec => CleanupsDue` (which needs `HasJob` only because the invariant is shared),

from one invariant, `SoundInv`. Its parts depend on each other:

- `Snaps`: every version of a run, and every claim made for it, has the snapshots the run
  was made with.
- `Unmade`, `Behind`: a name not yet used has left nothing anywhere, and nobody works from
  a version that is ahead of the run. So a new run is not taken for further than it is.
- `Finished`: whoever has a phase after validation, in the API server, in the cache or with
  a worker, comes after a validation job of that run that has succeeded; and a cleanup
  after the request for it.
- `Claimed`: until its job has succeeded, a run that exists and has not clashed owns the
  claims its worker has passed, and all of them once it is past init, and none of them is
  going. A claim leaves it only with the run, or by a cleanup: its own, which `Finished`
  rules out so early, or another's, and then it has clashed.
- `Earned`: a validation job of a run that has not clashed has therefore tested that run's
  snapshots, and only such a job is followed by labels.
- `Recent`: the snapshots of a run made since the request are as new as the request.

The proof first says what a step may do to one run, worker, cached run or claim and to
the revert (`RunMove`, `WorkMove`, `CacheMove`, `ClaimMove`, `RevertMove`, ...), and shows
once that every action is one of these; each part of the invariant is then kept by the
moves alone.

Only model-checked: liveness.

### 4.3 `ControllerProofs`

It holds for any keys, workers, bounds and any grouping of the informers' first lists,
from `ControllerAssumption` alone:

- `TypeCorrect`, `OneAtATime` (`OneWorkerPerKey`), `MutexFree` (`NeverContended`),
  `ListsCorrect` (`ListsSynced`): `Spec => []...`, all from one inductive invariant `Inv`.
- `RememberedCorrect`: `Spec => []Remembered`, inductive with `Inv` and `VersionInv`.
- `Refines`: `Spec => KeepsPromise`, step by step.

`Inv` says of each queue that it is `Sound` (no key is queued twice; a key is in
`queue` exactly if it is dirty and not processed), of the workers that no two have one
key and that what each queue calls `processing` is what its workers have (`HeldInv`).
The first section proves of each queue operation that it keeps `Sound` and what it
does to the sets; the rest uses only these lemmas. `Get` then takes a key that is not
processed, hence with nobody. `Remembered` needs that versions only grow
(`VersionInv`), so that a worker that has read the version in the cache either
succeeds on it or leaves a delay, and that an event that comes after its read has
marked the key.

### 4.4 `ValidatedRevertProofs`

From `ValidatedAssumption` and `StrategyAssumption`, for any number of claims,
snapshots, windows, deletions, edits, faults and any `MaxLabel`:

- `TypeCorrect`: `Spec => []TypeOK`.
- `OneSetCorrect`: `Spec => []OneSet`. The invariant is `Swap`: a worker that creates
  has behind it claims that hold what it has picked. A claim of an earlier attempt does
  not survive to be taken for one of this: `CreatePVC` fails if it exists.
- `LiveCorrect`: `Spec => LiveKept`. `RunOK` says that the objects of a run have
  kustomized names, and `NamesApart` that these are longer than any live name.
- `PickCorrect`: `Spec => PickNewest`. `LoopBest` is the loop of `getSnapshots`: after
  each snapshot of the list it holds one of the newest of those it has seen in the
  window, or None while there were none (`Best`, `LaterBest`).
- `RestoresCorrect`: `Spec => []RestoresValidated`. The invariant is `StaysSure`: unless
  something has `changed`, what the run picked is among the newest still, and what the
  revert has picked is `Equal` to it, of the same claim and time. `Harmless` says which
  listings, deletions and edits do not set `changed`, and `NewestStays` that they leave
  the newest of a window the newest: a deleted snapshot that is not of the run takes
  nothing from them. Two of one claim and time that are not the same are a `Tie`.
- `LabelsCorrect`: `Spec => []LabelsTested`. `Tests` follows the snapshots of the map
  into the claims of the run and from there to the test. It needs that no claim of
  those names exists before, that nothing but the binder touches them until they are
  tested, that no two claims of the map get one name, and that the renamed pods look for
  the very names that were made (`NamesMeet`): both forget what is between the template
  and the last dash.
- `SanitizeCorrect`: `CanLabel(n) <=> Plain(n)` for an id of any length: what
  `sanitizeLabel` makes of it is a label exactly when its first and its last character
  are letters and no more than `MaxLabel` characters remain, a stretch between two letters
  counted as one. `Left` is what remains of a part of the id, `KeptTo` the places that
  stand for it, counted one by one (`KeptNext`). So the condition of `Ends` on ids
  cannot be weaker.

The provers have no induction over data, and the library's induction theorems take an
operator, which they cannot instantiate. `Steps`, induction up to a number, is proved
here from the well-foundedness of strict inclusion on finite sets, which takes none;
`FoldDefined` and `CleaningDefined` build the functions that the folds of the library
choose, so that `FoldLoop` and `CleanLoop` are the two loops as steps.

### 4.5 `AutoValidationProofs`

From `AutoAssumption`, for any claims, snapshots, strategies, runs, workers, losses and restarts:
`TypeCorrect`, `OneRunCorrect`, `StartedCorrect`, `LabelsCorrect`, `EntriesCorrect`. The
invariant `Inv` has `RecordOK` for every version of a run there is, in the API server,
in the cache, and in the hands of a worker (started means complete; once kustomized,
what the map says is what the objects hold or is late), `Alone` (no two workers of one
strategy write) and `MakersOK` (while a worker makes a run, its strategy has none or
the cache lagged). `InvCorrect` states it.

Only model-checked, in 4.3 and 4.4: liveness.

### 4.6 What stays with TLC

Liveness under fairness in every module, for which the provers have no rule. Every
invariant and every action property of a passing run is stated by a theorem, those of
4.1 under the conditions of its table.

## 5. Not modelled

- `zz_generated.deepcopy.go`, the verbs of the generated clients that nothing uses, and
  their fakes: generated, without behaviour of their own. A DeepCopy is a value in TLA+;
  that the code copies before it edits (and where it does not: `reverts.go:403`) is
  modelled where it happens.
- The text kustomize renders, patches, common labels and annotations: a pure
  transformation by a library.
- The construction of clients and flags in `main.go`.
- `CreateStatefulSet`, `CreateService` and `GetService`, which nothing calls.
- Two managers, or two SnapshotReverts of one StatefulSet: nothing in the code relates
  them, so that any property would be false at once.
- A SnapshotRevert without `statefulSet`, for which each action is a put of what was
  read; a run edited by hand; the panics 3.7, 3.8 and 3.11 name; more than one namespace, but for snapshots in 3.11.
