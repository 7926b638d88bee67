----------------------------- MODULE AutoValidation -----------------------------
(***************************************************************************)
(* Snapshots that validate themselves: ProcessSnapshot writes each new     *)
(* snapshot into the ValidationRun of its strategy, made when there is     *)
(* none, and the run starts when every claim has a snapshot                *)
(* (pkg/manager/validator.go, validator_helper.go).  In the program no     *)
(* snapshot reaches it: the body of enqueueSnapshot, which would put them  *)
(* into the queue, is commented out, and only the tests call it.  Here     *)
(* anyone may hand over any snapshot at any time, once or again, or nobody *)
(* ever does, and what is stated is safety: it is about ProcessSnapshot as *)
(* it is written.                                                          *)
(*                                                                         *)
(* A key is with one worker at a time (KeyedWork).  An attempt that fails  *)
(* before it has written anything leaves no trace and is no step; whether  *)
(* its key is tried again is left open, like the first time.  What a run   *)
(* goes through is the matter of ValidationRuns; here it is what the two   *)
(* share.                                                                  *)
(***************************************************************************)
EXTENDS Naturals, FiniteSets, Functions

CONSTANTS
    Claims,       \* claims the StatefulSets have or will have
    Snaps,        \* snapshots that will be taken
    ClaimOf,      \* the claim of each snapshot
    Strategies,   \* strategies with autoTrigger
    Selects,      \* the claims whose pods match the StatefulSet of each strategy
    Runs,         \* names of runs, made from a UUID
    None,         \* no snapshot, no strategy or no run
    Threads       \* workers of the queue of snapshots

ASSUME AutoAssumption ==
    /\ IsFiniteSet(Snaps) /\ IsFiniteSet(Runs)
    /\ ClaimOf \in [Snaps -> Claims] /\ Selects \in [Strategies -> SUBSET Claims]
    /\ None \notin Snaps \cup Runs \cup Strategies
    /\ Threads \in Nat

VARIABLES
    claims,    \* claims that exist
    cclaims,   \* claims the cache lists
    taken,     \* snapshots that exist
    wk,        \* the worker of each snapshot
    run,       \* ValidationRuns in the API server
    crun,      \* the same in the informer cache
    labelled,  \* snapshots labelled as validated
    tested,    \* snapshots whose data a validation has run on
    \* What happened, for the properties.
    late,      \* snapshots that came into a run after its claims were made
    lagged     \* a run was made because the cache did not list the one there is

clusterVars == <<claims, cclaims, taken>>
runVars == <<run, crun>>
labelVars == <<labelled, tested>>
noteVars == <<late, lagged>>
vars == <<clusterVars, wk, runVars, labelVars, noteVars>>

----------------------------------------------------------------------------
(* Data *)

\* The phases of ValidationRuns that matter here.
New == 0
KustStarted == 1
KustFinished == 2
ValidationFinished == 3

\* ClaimsToSnapshots and Objects.Claims.
Maps(values) == UNION {[dom -> values] : dom \in SUBSET Claims}
NoMap == [c \in {} |-> None]
RunRecords == [here : BOOLEAN, owner : Strategies \cup {None}, phase : 0..3,
               map : Maps(Snaps \cup {None}), objects : Maps(Snaps)]
NoRun == [here |-> FALSE, owner |-> None, phase |-> New, map |-> NoMap, objects |-> NoMap]

\* run: the run it updates, None for one it makes; base: what it has read of it.
Idle == [pc |-> "idle", strategy |-> None, run |-> None, base |-> NoRun]

TypeOK ==
    /\ claims \subseteq Claims /\ cclaims \subseteq claims
    /\ taken \subseteq Snaps
    /\ wk \in [Snaps -> [pc : {"idle", "write"}, strategy : Strategies \cup {None},
                         run : Runs \cup {None}, base : RunRecords]]
    /\ \A s \in Snaps : wk[s].pc = "write" => ClaimOf[s] \in DOMAIN wk[s].base.map
    /\ run \in [Runs -> RunRecords] /\ crun \in [Runs -> RunRecords]
    /\ labelled \subseteq taken /\ tested \subseteq taken
    /\ late \subseteq taken /\ lagged \in BOOLEAN

----------------------------------------------------------------------------
(* ProcessSnapshot *)

Goto(s, w) == wk' = [wk EXCEPT ![s] = w]

\* getLabelSelector: the selector of the StatefulSet of a strategy.
Matches(st, c) == c \in Selects[st]

\* getStrategyForSnapshot: the pod that mounts the claim, findPod, has the labels of
\* the claim; any strategy that selects it may be the first the cache lists.  While
\* no pod is listed, one that is replaced or scaled down, an attempt fails.
Found(s) == {st \in Strategies : Matches(st, ClaimOf[s])}

\* The mutex of the strategy.  Mutant: there is none.
FreeM(st) == TRUE
Free(st) == \A t \in Snaps : ~(wk[t].pc = "write" /\ wk[t].strategy = st)

Belongs(r, st) == crun[r].here /\ crun[r].owner = st

\* initRun: the claims the selector lists, none with a snapshot.
NewRun(st) == [NoRun EXCEPT !.here = TRUE, !.owner = st,
                            !.map = [c \in {d \in cclaims : Matches(st, d)} |-> None]]

\* The names bound the runs that are made.
Made == {r \in Runs : run[r] # NoRun}
Making == {s \in Snaps : wk[s].pc = "write" /\ wk[s].run = None}

\* getRunForStrategy and the check of updateRun: a run without the claim is an
\* error.  A worker that waits for the mutex has done nothing yet.
\* Mutant: there is no check, and the claim is added.
PrepareM(s, st, r, base) == Goto(s, [pc |-> "write", strategy |-> st, run |-> r, base |-> base])
Prepare(s, st, r, base) ==
    /\ ClaimOf[s] \in DOMAIN base.map
    /\ Goto(s, [pc |-> "write", strategy |-> st, run |-> r, base |-> base])

Begin(s) ==
    /\ s \in taken /\ wk[s].pc = "idle"
    /\ Cardinality({t \in Snaps : wk[t].pc # "idle"}) < Threads
    /\ \E st \in Found(s) :
         /\ Free(st)
         /\ \/ \E r \in Runs : Belongs(r, st) /\ Prepare(s, st, r, crun[r]) /\ UNCHANGED lagged
            \/ /\ \A r \in Runs : ~Belongs(r, st)
               /\ Cardinality(Made) + Cardinality(Making) < Cardinality(Runs)
               /\ Prepare(s, st, None, NewRun(st))
               /\ lagged' = (lagged \/ \E r \in Runs : run[r].here /\ run[r].owner = st)
    /\ UNCHANGED <<clusterVars, runVars, labelVars, late>>

\* The API server refuses what was made from an older version.  Versions are told
\* apart by what they say: one that says the same again gives the same update.
\* Mutant: it does not.
AcceptedM(r, base) == run[r].here
Accepted(r, base) == run[r].here /\ run[r] = base

\* updateRun: the run with the snapshot in the place of its claim.
Copy(s) == [wk[s].base EXCEPT !.map[ClaimOf[s]] = s]

Create(s) ==
    /\ wk[s].pc = "write" /\ wk[s].run = None
    /\ \E r \in Runs : /\ run[r] = NoRun /\ crun[r] = NoRun
                      /\ run' = [run EXCEPT ![r] = Copy(s)]
    /\ Goto(s, Idle)
    /\ UNCHANGED <<clusterVars, crun, labelVars, late, lagged>>

Update(s) ==
    LET r == wk[s].run IN
    /\ wk[s].pc = "write" /\ r # None
    /\ IF Accepted(r, wk[s].base)
       THEN /\ run' = [run EXCEPT ![r] = Copy(s)]
            /\ late' = IF wk[s].base.phase >= KustFinished THEN late \cup {s} ELSE late
       ELSE UNCHANGED <<run, late>>
    /\ Goto(s, Idle)
    /\ UNCHANGED <<clusterVars, crun, labelVars, lagged>>

\* The write does not reach the API server.
CallLost(s) ==
    /\ wk[s].pc = "write" /\ Goto(s, Idle)
    /\ UNCHANGED <<clusterVars, runVars, labelVars, noteVars>>

----------------------------------------------------------------------------
(* ProcessValidationRun, as far as ClaimsToSnapshots goes.  A put that is   *)
(* refused is repeated from a newer version.                                *)

RunRest == UNCHANGED <<clusterVars, wk, crun, noteVars>>

Put(r, copy) == Accepted(r, crun[r]) /\ run' = [run EXCEPT ![r] = copy]

\* beforeKust.
Complete(map) == \A c \in DOMAIN map : map[c] # None
BeforeKust(r) ==
    /\ crun[r].here /\ crun[r].phase = New /\ Complete(crun[r].map)
    /\ Put(r, [crun[r] EXCEPT !.phase = KustStarted])
    /\ UNCHANGED labelVars /\ RunRest

\* kust: each claim that is to hold a snapshot is made after the claim it is of.
Kust(r) ==
    /\ crun[r].here /\ crun[r].phase = KustStarted /\ DOMAIN crun[r].map \subseteq cclaims
    /\ Put(r, [crun[r] EXCEPT !.phase = KustFinished, !.objects = crun[r].map])
    /\ UNCHANGED labelVars /\ RunRest

\* From init to validation: the jobs run on the objects, the labels go to the
\* snapshots of ClaimsToSnapshots, before the put and whether or not it is refused.
\* Mutant: kust is not waited for.
KustomizedM(r) == crun[r].phase \in {KustStarted, KustFinished}
Kustomized(r) == crun[r].phase = KustFinished
Validate(r) ==
    /\ crun[r].here /\ Kustomized(r)
    /\ tested' = tested \cup Range(crun[r].objects)
    /\ labelled' = labelled \cup Range(crun[r].map)
    /\ \/ Put(r, [crun[r] EXCEPT !.phase = ValidationFinished])
       \/ ~Accepted(r, crun[r]) /\ UNCHANGED run
    /\ RunRest

----------------------------------------------------------------------------
(* The cluster, the caches, and crashes *)

Rest == UNCHANGED <<wk, labelVars, noteVars>>

\* The StatefulSet is scaled up.
AddClaim(c) ==
    /\ c \notin claims /\ claims' = claims \cup {c}
    /\ UNCHANGED <<cclaims, taken, runVars>> /\ Rest

ListClaim(c) ==
    /\ c \in claims \ cclaims /\ cclaims' = cclaims \cup {c}
    /\ UNCHANGED <<claims, taken, runVars>> /\ Rest

\* enqueueSnapshot: nothing is queued.
TakeSnapshot(s) ==
    /\ s \notin taken /\ ClaimOf[s] \in claims
    /\ taken' = taken \cup {s}
    /\ UNCHANGED <<claims, cclaims, runVars>> /\ Rest

SyncRun(r) ==
    /\ crun[r] # run[r] /\ crun' = [crun EXCEPT ![r] = run[r]]
    /\ UNCHANGED <<clusterVars, run>> /\ Rest

\* A user, or the cleanup after a revert that has joined it.
DeleteRun(r) ==
    /\ run[r].here /\ run' = [run EXCEPT ![r].here = FALSE]
    /\ UNCHANGED <<clusterVars, crun>> /\ Rest

\* The manager starts again.
Crash ==
    /\ wk' = [s \in Snaps |-> Idle]
    /\ crun' = run /\ cclaims' = claims
    /\ UNCHANGED <<claims, taken, run, labelVars, noteVars>>

----------------------------------------------------------------------------

Init ==
    /\ claims \in SUBSET Claims \ {{}} /\ cclaims = claims
    /\ taken = {} /\ wk = [s \in Snaps |-> Idle]
    /\ run = [r \in Runs |-> NoRun] /\ crun = run
    /\ labelled = {} /\ tested = {} /\ late = {} /\ lagged = FALSE

Write(s) == Create(s) \/ Update(s)
StepRun(r) == BeforeKust(r) \/ Kust(r) \/ Validate(r)

Next ==
    \/ \E s \in Snaps : Begin(s) \/ Write(s) \/ CallLost(s) \/ TakeSnapshot(s)
    \/ \E r \in Runs : StepRun(r) \/ SyncRun(r) \/ DeleteRun(r)
    \/ \E c \in Claims : AddClaim(c) \/ ListClaim(c)
    \/ Crash

Spec == Init /\ [][Next]_vars

----------------------------------------------------------------------------
(* Properties *)

\* Workers of one strategy make one run, unless the cache does not list the run
\* that another has just made: the mutex does not help against that.
OneRun ==
    lagged \/ \A r, t \in Runs : run[r].here /\ run[t].here /\ run[r].owner = run[t].owner => r = t

\* A run that has started has a snapshot of each of its claims, also while late
\* workers still update it.
StartedComplete == \A r \in Runs : run[r].phase # New => None \notin Range(run[r].map)

\* Nobody takes a snapshot or a claim out of a run again, whatever older version
\* of the run an update was made from.
EntriesKept ==
    [][\A r \in Runs : run[r].here /\ run'[r].here =>
         /\ DOMAIN run'[r].map = DOMAIN run[r].map
         /\ \A c \in DOMAIN run[r].map : run[r].map[c] # None => run'[r].map[c] # None]_vars

\* A label is on a snapshot that was validated, or on one that came into the run
\* after its claims were made: updateRun does not look at the phase of a run.
LabelsEarned == labelled \subseteq tested \cup late
=============================================================================
