------------------------------- MODULE Controller -------------------------------
(***************************************************************************)
(* The process around the two reconcilers: main, the informers and their   *)
(* event handlers, the three work queues, and the workers that take keys   *)
(* from them (main.go, pkg/manager/controller.go, the informer factories   *)
(* of pkg/client), with the mutex of a validation run (validator.go).      *)
(*                                                                         *)
(* What an attempt does with its object is the matter of SnapshotReverts   *)
(* and ValidationRuns.  Here it only succeeds or fails; the updates it     *)
(* makes are among the changes anybody may make to the object.             *)
(***************************************************************************)
EXTENDS FiniteSets, WorkQueue

CONSTANTS
    Reverts, Runs, Snaps,  \* keys of the objects of each kind
    NoKey,                 \* no key
    Threads,               \* the workers of one queue; main asks for two
    Together,              \* bound: sets of informers that list at the same moment
    MaxChanges,            \* bound: changes to objects, and resyncs
    MaxFaults              \* bound: attempts that fail by themselves, signals, crashes

Keys == Reverts \cup Runs \cup Snaps
Kinds == {"revert", "validation", "snapshot"}
KeysOf == [kind \in Kinds |-> CASE kind = "revert" -> Reverts
                                [] kind = "validation" -> Runs
                                [] kind = "snapshot" -> Snaps]

KindOf(k) == CHOOSE kind \in Kinds : k \in KeysOf[kind]
Workers == Kinds \X Threads
Queue(w) == w[1]

\* The informers, by the factory that starts them; Run starts that of snapshots.
KubeInformers == {"sts", "service", "pod", "pvc", "pv", "job"}
SvInformers == {"vs", "vr", "sr"}
Informers == KubeInformers \cup SvInformers \cup {"snapshot"}
InformerOf == [kind \in Kinds |-> CASE kind = "revert" -> "sr"
                                    [] kind = "validation" -> "vr"
                                    [] kind = "snapshot" -> "snapshot"]

\* What Run waits for.
Awaited == {"service", "snapshot", "pod", "pvc", "job", "vs", "vr", "sr"}

ASSUME ControllerAssumption ==
    /\ IsFiniteSet(Keys) /\ IsFiniteSet(Threads)
    /\ Reverts \cap Runs = {} /\ Reverts \cap Snaps = {} /\ Runs \cap Snaps = {}
    /\ NoKey \notin Keys
    /\ UNION Together = Informers
    /\ MaxChanges \in Nat /\ MaxFaults \in Nat

VARIABLES
    main,     \* where main is: "gone" while the process does not run
    stop,     \* stopCh is closed
    started,  \* informers that run
    synced,   \* informers that have listed their objects once
    obj,      \* the objects in the API server
    cobj,     \* the same in the informer caches
    notify,   \* calls of the event handlers that a cache has caused and are to come
    q,        \* the work queues
    worker,   \* the workers
    handled,  \* the newest version of each object an attempt has succeeded on
    mutexes,  \* runs with a mutex in the validator's map
    timers,   \* runs whose mutex is to be removed when a minute is over
    changes, faults  \* counters

processVars == <<main, stop, started, synced>>
cacheVars == <<cobj, notify>>
mutexVars == <<mutexes, timers>>
vars == <<processVars, obj, cacheVars, q, worker, handled, mutexVars, changes, faults>>

Objects == [here : BOOLEAN, ver : Nat]
Absent == [here |-> FALSE, ver |-> 0]

\* saw: the version read; mine: it holds the mutex that is in the map.
WorkerPcs == {"none", "idle", "got", "lock", "attempt", "done"}
WorkerStates == [pc : WorkerPcs, key : Keys \cup {NoKey}, saw : Nat, mine : BOOLEAN]
At(pc) == [pc |-> pc, key |-> NoKey, saw |-> 0, mine |-> FALSE]

TypeOK ==
    /\ main \in {"gone", "new", "waiting", "serving", "returned"}
    /\ stop \in BOOLEAN
    /\ started \subseteq Informers /\ synced \subseteq started
    /\ obj \in [Keys -> Objects] /\ cobj \in [Keys -> Objects]
    /\ notify \in [Keys -> SUBSET {"changed", "deleted"}]
    /\ \A kind \in Kinds : q[kind] \in QueueRecords(KeysOf[kind])
    /\ worker \in [Workers -> WorkerStates]
    /\ \A w \in Workers : worker[w].key \in KeysOf[Queue(w)] \cup {NoKey}
    /\ handled \in [Keys -> Nat]
    /\ mutexes \subseteq Runs /\ timers \subseteq Runs
    /\ changes \in 0..MaxChanges /\ faults \in 0..MaxFaults

----------------------------------------------------------------------------
(* The process *)

NoProcess ==
    /\ main = "gone" /\ stop = FALSE /\ started = {} /\ synced = {}
    /\ cobj = [k \in Keys |-> Absent] /\ notify = [k \in Keys |-> {}]
    /\ q = [kind \in Kinds |-> EmptyQueue]
    /\ worker = [w \in Workers |-> At("none")]
    /\ handled = [k \in Keys |-> 0]
    /\ mutexes = {} /\ timers = {}

Gone ==
    /\ main' = "gone" /\ stop' = FALSE /\ started' = {} /\ synced' = {}
    /\ cobj' = [k \in Keys |-> Absent] /\ notify' = [k \in Keys |-> {}]
    /\ q' = [kind \in Kinds |-> EmptyQueue]
    /\ worker' = [w \in Workers |-> At("none")]
    /\ handled' = [k \in Keys |-> 0]
    /\ mutexes' = {} /\ timers' = {}

\* Informers are requested and handlers registered before a factory starts.
NewController ==
    /\ main = "gone" /\ main' = "new"
    /\ UNCHANGED <<stop, started, synced, obj, cacheVars, q, worker, handled, mutexVars,
                   changes, faults>>

\* Start runs what was requested and does not run yet.
StartFactory(informers) ==
    /\ main # "gone" /\ ~stop /\ ~(informers \subseteq started)
    /\ started' = started \cup informers
    /\ UNCHANGED <<main, stop, synced, obj, cacheVars, q, worker, handled, mutexVars,
                   changes, faults>>

Run ==
    /\ main = "new" /\ main' = "waiting"
    /\ started' = started \cup {"snapshot"}
    /\ UNCHANGED <<stop, synced, obj, cacheVars, q, worker, handled, mutexVars,
                   changes, faults>>

StartWorkers ==
    /\ main = "waiting" /\ Awaited \subseteq synced
    /\ main' = "serving"
    /\ worker' = [w \in Workers |-> At("idle")]
    /\ UNCHANGED <<stop, started, synced, obj, cacheVars, q, handled, mutexVars,
                   changes, faults>>

Signal ==
    /\ main # "gone" /\ ~stop /\ faults < MaxFaults
    /\ stop' = TRUE /\ faults' = faults + 1
    /\ UNCHANGED <<main, started, synced, obj, cacheVars, q, worker, handled, mutexVars, changes>>

\* Run shuts down two of the three queues on its way out.
RunReturns ==
    /\ main \in {"waiting", "serving"} /\ stop
    /\ main' = "returned"
    /\ q' = [kind \in Kinds |-> IF kind = "revert" THEN q[kind] ELSE ShutDown(q[kind])]
    /\ UNCHANGED <<stop, started, synced, obj, cacheVars, worker, handled, mutexVars,
                   changes, faults>>

\* main returns and waits for nobody.
Exit == main = "returned" /\ Gone /\ UNCHANGED <<obj, changes, faults>>

Crash ==
    /\ main # "gone" /\ faults < MaxFaults /\ faults' = faults + 1
    /\ Gone /\ UNCHANGED <<obj, changes>>

----------------------------------------------------------------------------
(* Objects, informers and event handlers *)

Update(k) ==
    /\ changes < MaxChanges /\ changes' = changes + 1
    /\ obj' = [obj EXCEPT ![k] = [here |-> TRUE, ver |-> @.ver + 1]]
    /\ UNCHANGED <<processVars, cacheVars, q, worker, handled, mutexVars, faults>>

Remove(k) ==
    /\ obj[k].here /\ changes < MaxChanges /\ changes' = changes + 1
    /\ obj' = [obj EXCEPT ![k] = [here |-> FALSE, ver |-> @.ver + 1]]
    /\ UNCHANGED <<processVars, cacheVars, q, worker, handled, mutexVars, faults>>

\* The handler calls that bringing the cache of an object up to date causes.
\* Two that are pending and alike count as one: the second has no effect.
Events(k) ==
    IF obj[k].here THEN {"changed"} ELSE IF cobj[k].here THEN {"deleted"} ELSE {}

\* The first list.  Nobody reads the cache before it is complete.
Sync(is) ==
    /\ is \subseteq started \ synced /\ ~stop
    /\ synced' = synced \cup is
    /\ cobj' = [k \in Keys |-> IF InformerOf[KindOf(k)] \in is THEN obj[k] ELSE cobj[k]]
    /\ notify' = [k \in Keys |-> IF InformerOf[KindOf(k)] \in is THEN notify[k] \cup Events(k)
                                 ELSE notify[k]]
    /\ UNCHANGED <<main, stop, started, obj, q, worker, handled, mutexVars,
                   changes, faults>>

\* Later events; several of one object may come as one, after a watch has broken.
Watch(k) ==
    /\ InformerOf[KindOf(k)] \in synced /\ ~stop /\ cobj[k] # obj[k]
    /\ cobj' = [cobj EXCEPT ![k] = obj[k]]
    /\ notify' = [notify EXCEPT ![k] = @ \cup Events(k)]
    /\ UNCHANGED <<processVars, obj, q, worker, handled, mutexVars, changes, faults>>

\* Every hour.
Resync(k) ==
    /\ InformerOf[KindOf(k)] \in synced /\ ~stop /\ cobj[k].here
    /\ "changed" \notin notify[k] /\ changes < MaxChanges /\ changes' = changes + 1
    /\ notify' = [notify EXCEPT ![k] = @ \cup {"changed"}]
    /\ UNCHANGED <<processVars, obj, cobj, q, worker, handled, mutexVars, faults>>

\* enqueueSnapshotRevert and enqueueValidatorRun; the body of enqueueSnapshot is
\* commented out.  Mutant: a run goes to the queue of the reverts.
EnqueueM(k) ==
    IF k \in Snaps THEN UNCHANGED q ELSE q' = [q EXCEPT !["revert"] = Add(@, k)]
Enqueue(k) ==
    IF k \in Snaps THEN UNCHANGED q ELSE q' = [q EXCEPT ![KindOf(k)] = Add(@, k)]

\* AddFunc and UpdateFunc.
HandleChange(k) ==
    /\ "changed" \in notify[k]
    /\ notify' = [notify EXCEPT ![k] = @ \ {"changed"}]
    /\ Enqueue(k)
    /\ UNCHANGED <<processVars, obj, cobj, worker, handled, mutexVars, changes, faults>>

\* scheduleValidatorRunDelete; the other informers have no DeleteFunc.
HandleDelete(k) ==
    /\ "deleted" \in notify[k]
    /\ notify' = [notify EXCEPT ![k] = @ \ {"deleted"}]
    /\ timers' = IF k \in Runs THEN timers \cup {k} ELSE timers
    /\ UNCHANGED <<processVars, obj, cobj, q, worker, handled, mutexes, changes, faults>>

\* The mutex leaves the map, held or not.
RemoveMutex(k) ==
    /\ k \in timers /\ timers' = timers \ {k}
    /\ mutexes' = mutexes \ {k}
    /\ worker' = [w \in Workers |-> IF worker[w].key = k THEN [worker[w] EXCEPT !.mine = FALSE]
                                    ELSE worker[w]]
    /\ UNCHANGED <<processVars, obj, cacheVars, q, handled, changes, faults>>

----------------------------------------------------------------------------
(* Workers: processNextRevert, processNextValidation, processNextSnapshot *)

Goto(w, state) == worker' = [worker EXCEPT ![w] = state]

Get(w) ==
    LET kind == Queue(w) IN
    /\ worker[w].pc = "idle" /\ q[kind].queue # <<>>
    /\ q' = [q EXCEPT ![kind] = Take(@)]
    /\ Goto(w, [pc |-> "got", key |-> Head(q[kind].queue), saw |-> 0, mine |-> FALSE])
    /\ UNCHANGED <<processVars, obj, cacheVars, handled, mutexVars, changes, faults>>

\* Get says that the queue is shut down, once it is empty.
Leave(w) ==
    /\ worker[w].pc = "idle" /\ q[Queue(w)].down /\ q[Queue(w)].queue = <<>>
    /\ Goto(w, At("none"))
    /\ UNCHANGED <<processVars, obj, cacheVars, q, handled, mutexVars, changes, faults>>

\* GetByKey; an object that is gone is forgotten.  Only a run has a mutex.
Read(w) ==
    LET k == worker[w].key IN
    /\ worker[w].pc = "got"
    /\ Goto(w, [worker[w] EXCEPT
                 !.pc = IF ~cobj[k].here THEN "done" ELSE IF k \in Runs THEN "lock" ELSE "attempt",
                 !.saw = cobj[k].ver])
    /\ UNCHANGED <<processVars, obj, cacheVars, q, handled, mutexVars, changes, faults>>

\* LoadOrStore, then Lock, which waits for a holder of the mutex in the map.
Free(k) == \A w \in Workers : worker[w].key = k => ~worker[w].mine
Lock(w) ==
    LET k == worker[w].key IN
    /\ worker[w].pc = "lock" /\ Free(k)
    /\ mutexes' = mutexes \cup {k}
    /\ Goto(w, [worker[w] EXCEPT !.pc = "attempt", !.mine = TRUE])
    /\ UNCHANGED <<processVars, obj, cacheVars, q, handled, timers, changes, faults>>

Succeed(w) ==
    /\ worker[w].pc = "attempt"
    /\ handled' = [handled EXCEPT ![worker[w].key] = worker[w].saw]
    /\ Goto(w, [worker[w] EXCEPT !.pc = "done", !.mine = FALSE])
    /\ UNCHANGED <<processVars, obj, cacheVars, q, mutexVars, changes, faults>>

\* A StatefulSet or a volume is not found while its cache has not synced, or
\* anything else goes wrong.  Mutant: the key is not queued again.
FailM(w) ==
    /\ worker[w].pc = "attempt"
    /\ \/ ~({"sts", "pv"} \subseteq synced) /\ UNCHANGED faults
       \/ faults < MaxFaults /\ faults' = faults + 1
    /\ Goto(w, [worker[w] EXCEPT !.pc = "done", !.mine = FALSE])
    /\ UNCHANGED <<processVars, obj, cacheVars, q, handled, mutexVars, changes>>
Fail(w) ==
    /\ worker[w].pc = "attempt"
    /\ \/ ~({"sts", "pv"} \subseteq synced) /\ UNCHANGED faults
       \/ faults < MaxFaults /\ faults' = faults + 1
    /\ q' = [q EXCEPT ![Queue(w)] = AddRateLimited(@, worker[w].key)]
    /\ Goto(w, [worker[w] EXCEPT !.pc = "done", !.mine = FALSE])
    /\ UNCHANGED <<processVars, obj, cacheVars, handled, mutexVars, changes>>

\* The deferred call.
Finish(w) ==
    /\ worker[w].pc = "done"
    /\ q' = [q EXCEPT ![Queue(w)] = Done(@, worker[w].key)]
    /\ Goto(w, At("idle"))
    /\ UNCHANGED <<processVars, obj, cacheVars, handled, mutexVars, changes, faults>>

\* The delay after an error is over.
Retry(k) ==
    /\ CanRipen(q[KindOf(k)], k)
    /\ q' = [q EXCEPT ![KindOf(k)] = Ripen(@, k)]
    /\ UNCHANGED <<processVars, obj, cacheVars, worker, handled, mutexVars,
                   changes, faults>>

----------------------------------------------------------------------------

Init ==
    /\ NoProcess
    /\ obj \in [Keys -> {Absent, [here |-> TRUE, ver |-> 1]}]
    /\ changes = 0 /\ faults = 0

ProcessNext ==
    \/ NewController \/ Run \/ StartWorkers \/ Signal \/ RunReturns \/ Exit \/ Crash
    \/ StartFactory(KubeInformers) \/ StartFactory(SvInformers)
    \/ \E is \in Together : Sync(is)

KeyNext(k) ==
    \/ Update(k) \/ Remove(k) \/ Watch(k) \/ Resync(k)
    \/ HandleChange(k) \/ HandleDelete(k) \/ RemoveMutex(k) \/ Retry(k)

WorkerNext(w) ==
    \/ Get(w) \/ Leave(w) \/ Read(w) \/ Lock(w) \/ Succeed(w) \/ Fail(w) \/ Finish(w)

Next == ProcessNext \/ (\E k \in Keys : KeyNext(k)) \/ (\E w \in Workers : WorkerNext(w))

Spec == Init /\ [][Next]_vars

\* The process is restarted when it has gone, goroutines are scheduled, watches
\* deliver and an attempt ends.  Changes, faults, signals and the resync are free.
Fairness ==
    /\ WF_vars(NewController) /\ WF_vars(Run) /\ WF_vars(StartWorkers)
    /\ WF_vars(RunReturns) /\ WF_vars(Exit)
    /\ WF_vars(StartFactory(KubeInformers)) /\ WF_vars(StartFactory(SvInformers))
    /\ \A is \in Together : WF_vars(Sync(is))
    /\ \A k \in Keys : WF_vars(Watch(k)) /\ WF_vars(HandleChange(k)) /\ WF_vars(Retry(k))
    /\ \A w \in Workers : /\ WF_vars(Get(w)) /\ WF_vars(Read(w)) /\ WF_vars(Lock(w))
                          /\ WF_vars(Succeed(w) \/ Fail(w)) /\ WF_vars(Finish(w))

LiveSpec == Spec /\ Fairness

----------------------------------------------------------------------------
(* Properties *)

Busy(w, k) == worker[w].key = k
Waiting(k) ==
    LET own == q[KindOf(k)] IN
    Queued(own, k) \/ k \in own.later \/ k \in own.dirty \cap own.processing

\* No two workers have one key, whatever events, errors and deletions come
\* while it is processed: the reconcilers run once per object at a time.
OneWorkerPerKey ==
    \A k \in Keys : \A v, w \in Workers : Busy(v, k) /\ Busy(w, k) => v = w

\* Nobody waits for the mutex of a run, and nobody enters without it when the
\* map has lost it: it may be removed while it is held because the queue keeps
\* workers apart without it.
NeverContended ==
    \A w \in Workers : worker[w].pc = "lock" => Free(worker[w].key)
                       /\ \A v \in Workers \ {w} : worker[v].key # worker[w].key

\* A version in the cache that no attempt has succeeded on is not forgotten: a
\* handler will be called, the key is in the queue or will be put there after a
\* delay or when the worker that has it is done, or a worker is about to read
\* that version or has read it and not ended.
Remembered ==
    \A k \in Reverts \cup Runs :
        cobj[k].here /\ handled[k] # cobj[k].ver /\ ~q[KindOf(k)].down =>
            \/ "changed" \in notify[k] \/ Waiting(k)
            \/ \E w \in Workers : /\ Busy(w, k)
                                  /\ \/ worker[w].pc = "got"
                                     \/ worker[w].pc \in {"lock", "attempt"}
                                        /\ worker[w].saw = cobj[k].ver

\* The caches an attempt lists, taking what is not there for not existing, are
\* synced before the first one.  Of the StatefulSet and volume caches, which are
\* not waited for, it only gets objects by name, and not found is an error.
Listed == {"pod", "pvc", "vs", "vr", "snapshot"}
ListsSynced ==
    \A w \in Workers : worker[w].pc = "attempt" =>
        Listed \cup {InformerOf[Queue(w)]} \subseteq synced

\* What the reconcilers are written on, for each queue by itself and all together.
Marked == {k \in Keys : k \in q[KindOf(k)].dirty \cup q[KindOf(k)].later}
Holding == {h \in Workers \X Keys : Busy(h[1], h[2])}
KW == INSTANCE KeyedWork WITH marked <- Marked, busy <- Holding
KeepsPromise == KW!Spec

\* Every object that exists is processed in its last version some time: whatever
\* attempts fail, caches lag, and wherever the process is stopped and restarted.
Handled ==
    \A k \in Reverts \cup Runs : <>[](obj[k].here => handled[k] = obj[k].ver)
=============================================================================
