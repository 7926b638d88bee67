-------------------------- MODULE ValidationRunsProofs --------------------------
(***************************************************************************)
(* What TLAPS proves of ValidationRuns, for any number of claims and runs, *)
(* any hooks, any faults and any number of requests, whatever the caches   *)
(* show.                                                                   *)
(***************************************************************************)
EXTENDS ValidationRuns, SequenceTheorems, FiniteSetTheorems, TLAPS

----------------------------------------------------------------------------
(* The inductive invariant, a part for each group of variables *)

\* A kustomized run names all claims; a run is made of snapshots.
RunOK(a) == /\ a.phase >= KustFinished => a.claims # <<>> /\ Claims \subseteq Range(a.claims)
            /\ a.here => a.snap # 0

RunsInv == /\ run \in [Runs -> RunRecords] /\ crun \in [Runs -> RunRecords]
           /\ \A r \in Runs : RunOK(run[r]) /\ RunOK(crun[r])

\* The steps that visit each claim, and those of a run that is kustomized.
Visits == {"claim", "label", "deleteClaim"}
Midway == RunPcs \ {"idle", "put"}

Workers == [pc : RunPcs, base : RunRecords, copy : RunRecords, i : Nat \ {0}]

\* What the worker is about to put is one move away from what it has read.
WorkerOK(w) ==
    /\ w \in Workers /\ RunOK(w.base) /\ RunOK(w.copy)
    /\ w.pc # "idle" => w.base.here /\ w.copy.here /\ Moves(w.base, w.copy)
    /\ w.pc \in Midway => w.base.phase >= KustFinished
    /\ IF w.pc \in Visits THEN w.i <= Len(w.base.claims) ELSE w.i = 1

WorkInv == /\ wk \in [Runs -> Workers] /\ \A r \in Runs : WorkerOK(wk[r])
           /\ dirty \in [Runs -> BOOLEAN]

Reverts == [pc : RevertPcs, run : Runs \cup {Nobody}, base : RunRecords,
            snap : 0..MaxSnaps, since : 0..MaxSnaps, before : SUBSET Runs]

\* A revert is requested, and a run made, when there are snapshots.
RevertOK(q, n) ==
    /\ q \in Reverts /\ RunOK(q.base) /\ n \in 0..MaxSnaps
    /\ q.pc \in {"poll", "ask", "pause"} => q.run \in Runs
    /\ q.pc # "idle" => n # 0
    /\ q.pc = "create" => q.snap # 0
    /\ q.pc = "ask" => q.base.here

RevertInv == RevertOK(rq, newest)

RestInv ==
    /\ claim \in [Claims -> ClaimRecords] /\ cclaim \in [Claims -> ClaimRecords]
    /\ \A c \in Claims : claim[c].here => claim[c].run \in Runs
    /\ app \in Runs \cup {Nobody}
    /\ job \in [Runs -> [Hooks -> {"absent", "created", "succeeded"}]]
    /\ labelled \subseteq Claims \X (0..MaxSnaps) /\ tested \subseteq Claims \X (0..MaxSnaps)
    /\ clashed \subseteq Runs
    /\ requests \in 0..MaxRequests /\ faults \in 0..MaxFaults

Inv == RunsInv /\ WorkInv /\ RevertInv /\ RestInv

LEMMA InvTypes == Inv => TypeOK
  BY DEF Inv, RunsInv, WorkInv, RevertInv, RevertOK, Reverts, RestInv, WorkerOK, Workers,
         Visits, TypeOK

----------------------------------------------------------------------------
(* Lemmas about the data *)

LEMMA NoRunOK == NoRun \in RunRecords /\ RunOK(NoRun)
  BY ValidationAssumption DEF NoRun, RunRecords, RunOK, KustFinished, CleanupFinished

LEMMA IdleOK == WorkerOK(IdleWk) /\ IdleWk \in Workers
  BY NoRunOK DEF IdleWk, WorkerOK, Workers, RunPcs, RunCalls, Midway, Visits

\* kust lists every claim.
LEMMA OrderOK ==
    ASSUME NEW order \in SetToSeqs(Claims)
    PROVE  order \in Seq(Claims) /\ order # <<>> /\ Claims \subseteq Range(order)
<1> DEFINE n == Cardinality(Claims)
<1>1. n \in Nat /\ n # 0
  BY ValidationAssumption, FS_CardinalityType, FS_EmptySet
<1>2. order \in [1..n -> Claims]
  BY DEF SetToSeqs
<1>3. order \in Seq(Claims) /\ Len(order) = n
  BY <1>1, <1>2
<1>4. Len(<<>>) = 0
  OBVIOUS
<1>5. order \in Injection(1..n, Claims)
  BY DEF SetToSeqs, Injection, IsInjective
<1>6. order \in Surjection(1..n, Claims)
  <2>1. Cardinality(1..n) = n
    BY <1>1, FS_Interval
  <2> HIDE DEF n
  <2> QED
    BY <1>5, <2>1, FS_Injection, ValidationAssumption DEF n
<1>7. Claims \subseteq Range(order)
  BY <1>2, <1>6 DEF Surjection, Range
<1> HIDE DEF n
<1> QED
  BY <1>1, <1>3, <1>4, <1>7

\* Setting the next timestamp is a move, if the run is kustomized or not about to be.
LEMMA AdvanceOK ==
    ASSUME NEW a \in RunRecords, RunOK(a), a.here, a.phase < CleanupFinished, a.phase # KustStarted
    PROVE  /\ Advance(a) \in RunRecords /\ RunOK(Advance(a))
           /\ Advance(a).here /\ Moves(a, Advance(a))
  BY DEF Advance, RunRecords, RunOK, Moves, CleanupFinished, KustStarted, KustFinished

LEMMA KustOK ==
    ASSUME NEW a \in RunRecords, RunOK(a), a.here, a.phase = KustStarted,
           NEW order \in SetToSeqs(Claims)
    PROVE  LET b == [Advance(a) EXCEPT !.claims = order]
           IN  b \in RunRecords /\ RunOK(b) /\ b.here /\ Moves(a, b)
<1> DEFINE b == [Advance(a) EXCEPT !.claims = order]
<1>1. order \in Seq(Claims) /\ order # <<>> /\ Claims \subseteq Range(order)
  BY OrderOK
<1>2. /\ b \in RunRecords /\ b.here /\ b.claims = order /\ b.phase = a.phase + 1
      /\ b.snap = a.snap /\ b.cleanup = a.cleanup
  <2> DEFINE d == Advance(a)
  <2>1. /\ d \in RunRecords /\ d.here /\ d.phase = a.phase + 1
        /\ d.snap = a.snap /\ d.cleanup = a.cleanup
    BY DEF Advance, RunRecords, KustStarted, CleanupFinished
  <2> HIDE DEF d
  <2>2. b = [d EXCEPT !.claims = order]
    BY DEF d
  <2> QED
    BY <1>1, <2>1, <2>2 DEF RunRecords
<1> HIDE DEF b
<1>3. RunOK(b) /\ Moves(a, b)
  BY <1>1, <1>2 DEF RunRecords, RunOK, Moves, KustStarted, KustFinished
<1> QED
  BY <1>2, <1>3 DEF b

\* A worker with the same run, further on.
LEMMA FurtherOK ==
    ASSUME NEW w, WorkerOK(w), w.pc \in Midway, NEW v, v \in Workers,
           v.base = w.base, v.copy = w.copy, v.pc # "idle",
           IF v.pc \in Visits THEN v.i <= Len(v.base.claims) ELSE v.i = 1
    PROVE  WorkerOK(v)
<1>1. w.pc # "idle"
  BY DEF Midway
<1>2. RunOK(v.base) /\ RunOK(v.copy) /\ v.base.here /\ v.copy.here /\ Moves(v.base, v.copy)
  BY <1>1 DEF WorkerOK
<1>3. v.base.phase >= KustFinished
  BY DEF WorkerOK
<1> QED
  BY <1>2, <1>3 DEF WorkerOK

\* The next claim is one of the run's.
LEMMA NextClaimOK ==
    ASSUME NEW r \in Runs, WorkerOK(wk[r]), wk[r].pc \in Visits,
           NEW after \in RunPcs \ (Visits \cup {"idle"})
    PROVE  WorkerOK(NextClaim(r, after))
<1> DEFINE w == wk[r]
           n == Len(w.base.claims)
           v == NextClaim(r, after)
<1>1. /\ w \in Workers /\ w.i \in Nat \ {0} /\ w.pc \in Midway
      /\ w.base.claims \in Seq(Claims)
  BY DEF WorkerOK, Workers, RunRecords, Visits, Midway, RunPcs, RunCalls
<1>2. n \in Nat
  BY <1>1
<1>3. v \in Workers /\ v.base = w.base /\ v.copy = w.copy /\ v.pc # "idle"
  <2>1. v = [w EXCEPT !.i = @ + 1] \/ v = [w EXCEPT !.i = 1, !.pc = after]
    BY DEF NextClaim
  <2>2. w.pc # "idle" /\ after # "idle" /\ after \in RunPcs
    BY <1>1 DEF Midway
  <2>3. w.i + 1 \in Nat \ {0} /\ 1 \in Nat \ {0}
    BY <1>1
  <2> HIDE DEF v, w
  <2> QED
    BY <1>1, <2>1, <2>2, <2>3 DEF Workers
<1>4. IF v.pc \in Visits THEN v.i <= n ELSE v.i = 1
  <2> HIDE DEF n
  <2>1. CASE w.i < n
    <3>1. v = [w EXCEPT !.i = @ + 1]
      BY <2>1 DEF NextClaim, n
    <3>2. v.pc = w.pc /\ v.i = w.i + 1
      BY <1>1, <3>1 DEF Workers
    <3> QED
      BY <1>1, <1>2, <2>1, <3>2
  <2>2. CASE ~(w.i < n)
    <3>1. v = [w EXCEPT !.i = 1, !.pc = after]
      BY <2>2 DEF NextClaim, n
    <3>2. v.pc = after /\ v.i = 1
      BY <1>1, <3>1 DEF Workers
    <3> QED
      BY <3>2
  <2> QED
    BY <2>1, <2>2
<1> HIDE DEF v
<1>5. WorkerOK(v)
  BY <1>1, <1>3, <1>4, FurtherOK
<1> QED
  BY <1>5 DEF v

\* The claim the worker is at is one of the run's, in a loop over them.
LEMMA CurOK ==
    ASSUME NEW r \in Runs, WorkerOK(wk[r]), wk[r].pc \in Visits
    PROVE  Cur(r) \in Claims
<1> DEFINE s == wk[r].base.claims
           i == wk[r].i
<1>1. s \in Seq(Claims) /\ i \in Nat \ {0} /\ i <= Len(s)
  BY DEF WorkerOK, Workers, RunRecords
<1> HIDE DEF s, i
<1>2. i \in 1..Len(s)
  BY <1>1
<1>3. s[i] \in Claims
  BY <1>1, <1>2
<1> QED
  BY <1>3 DEF Cur, s, i

\* A step to the next call, in the same attempt.
LEMMA SamePlace ==
    ASSUME NEW w, WorkerOK(w), w.pc \in Midway \ Visits, NEW pc \in RunPcs, pc # "idle"
    PROVE  WorkerOK([w EXCEPT !.pc = pc])
<1> DEFINE v == [w EXCEPT !.pc = pc]
<1>1. w \in Workers /\ w.i = 1 /\ w.base.phase >= KustFinished /\ RunOK(w.base)
  BY DEF WorkerOK
<1>2. v \in Workers /\ v.pc = pc /\ v.base = w.base /\ v.copy = w.copy /\ v.i = w.i
  BY <1>1 DEF Workers
<1>3. v.i <= Len(v.base.claims)
  <2> DEFINE s == w.base.claims
  <2>1. s \in Seq(Claims) /\ s # <<>>
    BY <1>1 DEF RunOK, Workers, RunRecords
  <2> HIDE DEF s
  <2>2. Len(s) >= 1
    BY <2>1
  <2> QED
    BY <1>1, <1>2, <2>2 DEF s
<1> HIDE DEF v
<1>4. WorkerOK(v)
  BY <1>1, <1>2, <1>3, FurtherOK
<1> QED
  BY <1>4 DEF v

\* An attempt starts at the first claim of the cached run.
LEMMA AttemptOK ==
    ASSUME NEW r \in Runs, crun[r] \in RunRecords, RunOK(crun[r]), crun[r].here,
           NEW pc \in {"put", "claim", "job", "deleteRun"}, NEW copy \in RunRecords,
           RunOK(copy), copy.here, Moves(crun[r], copy),
           pc # "put" => crun[r].phase >= KustFinished
    PROVE  WorkerOK(Attempt(r, pc, copy))
<1> DEFINE v == Attempt(r, pc, copy)
           s == crun[r].claims
<1>1. v \in Workers /\ v.pc = pc /\ v.base = crun[r] /\ v.copy = copy /\ v.i = 1
  BY DEF Attempt, Workers, RunPcs, RunCalls
<1>2. pc \in Visits => 1 <= Len(s)
  <2>1. s \in Seq(Claims) /\ (pc # "put" => s # <<>>)
    BY DEF RunRecords, RunOK
  <2> HIDE DEF s
  <2>2. s # <<>> => Len(s) >= 1
    BY <2>1
  <2> QED
    BY <2>1, <2>2 DEF Visits
<1> HIDE DEF v
<1>3. v.pc # "idle" /\ (v.pc \in Midway => v.pc # "put")
  BY <1>1 DEF Midway
<1>4. IF v.pc \in Visits THEN v.i <= Len(v.base.claims) ELSE v.i = 1
  BY <1>1, <1>2
<1> QED
  BY <1>1, <1>3, <1>4 DEF WorkerOK, v

----------------------------------------------------------------------------
(* The invariant's parts over a step *)

\* The steps that change the ValidationRuns, and those that change the cache of them.
RunWrites == \/ \E r \in Runs : DeleteRun(r) \/ Put(r)
             \/ CreateRun \/ AskCleanup

LEMMA WhoWritesRuns == [Next]_vars => UNCHANGED run \/ RunWrites
<1> SUFFICES ASSUME [Next]_vars PROVE UNCHANGED run \/ RunWrites
  OBVIOUS
<1> USE DEF runVars
<1>1. ASSUME NEW r \in Runs, StartRun(r) PROVE UNCHANGED run
  BY <1>1 DEF StartRun, StartNothing, StartMark, StartKust, StartInit, StartHook,
              StartCleanup, Start
<1>2. ASSUME NEW r \in Runs, StepRun(r) PROVE UNCHANGED run \/ RunWrites
  BY <1>2 DEF StepRun, CreateClaim, BindWait, CreateObjects, SkipJob, CreateJob, JobWait,
              Label, DeleteClaim, RunWrites
<1>3. ASSUME NEW r \in Runs, CallLost(r) \/ Timeout(r) \/ SyncRun(r) \/ Resync(r)
      PROVE  UNCHANGED run
  BY <1>3 DEF CallLost, Timeout, SyncRun, Resync
<1>4. ASSUME NEW c \in Claims, SyncClaim(c) PROVE UNCHANGED run
  BY <1>4 DEF SyncClaim
<1>5. StepRevert => UNCHANGED run \/ RunWrites
  BY DEF StepRevert, CheckMissing, MatchRun, PollRun, Paused, RunWrites
<1>6. RqFails \/ Request \/ Crash => UNCHANGED run
  BY DEF RqFails, Request, Crash
<1>7. Cluster => UNCHANGED run
  BY DEF Cluster, TakeSnapshots, CollectApp, BindClaim, RemoveClaim, CollectClaim,
         JobSucceeds, ClusterRest
<1>8. UNCHANGED vars => UNCHANGED run
  BY DEF vars
<1> QED
  BY <1>1, <1>2, <1>3, <1>4, <1>5, <1>6, <1>7, <1>8 DEF Next

LEMMA WhoWritesCache ==
    [Next]_vars => UNCHANGED crun \/ Crash \/ \E r \in Runs : SyncRun(r)
<1> SUFFICES ASSUME [Next]_vars PROVE UNCHANGED crun \/ Crash \/ \E r \in Runs : SyncRun(r)
  OBVIOUS
<1> USE DEF runVars
<1>1. ASSUME NEW r \in Runs, StartRun(r) PROVE UNCHANGED crun
  BY <1>1 DEF StartRun, StartNothing, StartMark, StartKust, StartInit, StartHook,
              StartCleanup, Start
<1>2. ASSUME NEW r \in Runs, StepRun(r) PROVE UNCHANGED crun
  BY <1>2 DEF StepRun, CreateClaim, BindWait, CreateObjects, SkipJob, CreateJob, JobWait,
              Label, DeleteRun, DeleteClaim, Put
<1>3. ASSUME NEW r \in Runs, CallLost(r) \/ Timeout(r) \/ Resync(r) PROVE UNCHANGED crun
  BY <1>3 DEF CallLost, Timeout, Resync
<1>4. ASSUME NEW c \in Claims, SyncClaim(c) PROVE UNCHANGED crun
  BY <1>4 DEF SyncClaim
<1>5. StepRevert => UNCHANGED crun
  BY DEF StepRevert, CheckMissing, MatchRun, CreateRun, PollRun, AskCleanup, Paused
<1>6. RqFails \/ Request => UNCHANGED crun
  BY DEF RqFails, Request
<1>7. Cluster => UNCHANGED crun
  BY DEF Cluster, TakeSnapshots, CollectApp, BindClaim, RemoveClaim, CollectClaim,
         JobSucceeds, ClusterRest
<1>8. UNCHANGED vars => UNCHANGED crun
  BY DEF vars
<1> QED
  BY <1>1, <1>2, <1>3, <1>4, <1>5, <1>6, <1>7, <1>8 DEF Next

LEMMA MovesStay == ASSUME NEW a PROVE Moves(a, a)
  BY DEF Moves

\* Whoever writes a run writes a well formed one, and moves it at most one step.
LEMMA WritesMove ==
    ASSUME Inv, RunWrites
    PROVE  /\ run' \in [Runs -> RunRecords] /\ \A r \in Runs : RunOK(run'[r])
           /\ \A r \in Runs : run[r].here /\ run'[r].here => Moves(run[r], run'[r])
<1> DEFINE Good == /\ run' \in [Runs -> RunRecords] /\ \A r \in Runs : RunOK(run'[r])
                   /\ \A r \in Runs : run[r].here /\ run'[r].here => Moves(run[r], run'[r])
<1>1. run \in [Runs -> RunRecords] /\ \A r \in Runs : RunOK(run[r])
  BY DEF Inv, RunsInv
<1>2. ASSUME NEW q \in Runs, NEW b \in RunRecords, RunOK(b),
             run[q].here /\ b.here => Moves(run[q], b), run' = [run EXCEPT ![q] = b]
      PROVE  Good
  <2>1. \A r \in Runs : run'[r] = IF r = q THEN b ELSE run[r]
    BY <1>1, <1>2
  <2> QED
    BY <1>1, <1>2, <2>1, MovesStay
<1>3. run' = run => Good
  BY <1>1, MovesStay
<1> HIDE DEF Good
<1>4. ASSUME NEW r \in Runs, DeleteRun(r) PROVE Good
  <2> DEFINE b == [run[r] EXCEPT !.here = FALSE]
  <2>1. b \in RunRecords /\ ~b.here /\ b.phase = run[r].phase /\ b.claims = run[r].claims
    BY <1>1 DEF RunRecords
  <2>2. RunOK(b)
    BY <1>1, <2>1 DEF RunOK
  <2>3. run' = run \/ run' = [run EXCEPT ![r] = b]
    BY <1>4 DEF DeleteRun
  <2> HIDE DEF b
  <2> QED
    BY <1>2, <1>3, <2>1, <2>2, <2>3
<1>5. ASSUME NEW r \in Runs, Put(r) PROVE Good
  <2> DEFINE w == wk[r]
  <2>1. w \in Workers /\ RunOK(w.copy) /\ Moves(w.base, w.copy)
    BY <1>5 DEF Inv, WorkInv, WorkerOK, Put, At
  <2>2. w.copy \in RunRecords
    BY <2>1 DEF Workers
  <2>3. run' = run \/ (run[r] = w.base /\ run' = [run EXCEPT ![r] = w.copy])
    BY <1>5 DEF Put, Accepted
  <2> HIDE DEF w
  <2> QED
    BY <1>2, <1>3, <2>1, <2>2, <2>3
<1>6. CreateRun => Good
  <2> SUFFICES ASSUME CreateRun PROVE Good
    OBVIOUS
  <2> DEFINE q == CHOOSE u \in Unused : TRUE
             b == [NoRun EXCEPT !.here = TRUE, !.snap = rq.snap]
  <2>1. q \in Unused /\ rq.snap # 0 /\ rq.snap \in 0..MaxSnaps
    BY DEF CreateRun, Inv, RevertInv, RevertOK, Reverts
  <2>2. q \in Runs /\ run[q].snap = 0
    BY <2>1 DEF Unused
  <2>3. ~run[q].here
    BY <1>1, <2>2 DEF RunOK
  <2>4. b \in RunRecords /\ b.snap # 0 /\ b.phase = 0
    BY <2>1, NoRunOK DEF NoRun, RunRecords
  <2>5. RunOK(b)
    BY <2>4 DEF RunOK, KustFinished
  <2>6. run' = [run EXCEPT ![q] = b]
    BY DEF CreateRun
  <2> HIDE DEF q, b
  <2> QED
    BY <1>2, <2>2, <2>3, <2>4, <2>5, <2>6
<1>7. AskCleanup => Good
  <2> SUFFICES ASSUME AskCleanup PROVE Good
    OBVIOUS
  <2> DEFINE a == rq.base
             b == [a EXCEPT !.cleanup = TRUE]
  <2>1. a \in RunRecords /\ RunOK(a) /\ rq.run \in Runs
    BY DEF AskCleanup, Inv, RevertInv, RevertOK, Reverts
  <2>2. /\ b \in RunRecords /\ b.cleanup /\ b.phase = a.phase /\ b.snap = a.snap
        /\ b.claims = a.claims /\ b.here = a.here
    BY <2>1 DEF RunRecords
  <2>3. run' = run \/ (run[rq.run] = a /\ run' = [run EXCEPT ![rq.run] = b])
    BY DEF AskCleanup, Accepted
  <2> HIDE DEF a, b
  <2>4. RunOK(b) /\ Moves(a, b)
    BY <2>1, <2>2 DEF RunOK, Moves
  <2> QED
    BY <1>2, <1>3, <2>1, <2>2, <2>3, <2>4
<1>8. Good
  BY <1>4, <1>5, <1>6, <1>7 DEF RunWrites
<1> QED
  BY <1>8 DEF Good

LEMMA RunsStep == Inv /\ [Next]_vars => RunsInv'
<1> SUFFICES ASSUME Inv, [Next]_vars PROVE RunsInv'
  OBVIOUS
<1>1. /\ run \in [Runs -> RunRecords] /\ crun \in [Runs -> RunRecords]
      /\ \A r \in Runs : RunOK(run[r]) /\ RunOK(crun[r])
  BY DEF Inv, RunsInv
<1>2. run' \in [Runs -> RunRecords] /\ \A r \in Runs : RunOK(run'[r])
  BY <1>1, WhoWritesRuns, WritesMove
<1>3. crun' \in [Runs -> RunRecords] /\ \A r \in Runs : RunOK(crun'[r])
  <2>1. CASE UNCHANGED crun
    BY <1>1, <2>1
  <2>2. CASE Crash
    BY <1>1, <2>2 DEF Crash
  <2>3. CASE \E r \in Runs : SyncRun(r)
    <3>1. PICK r \in Runs : crun' = [crun EXCEPT ![r] = run[r]]
      BY <2>3 DEF SyncRun
    <3>2. \A q \in Runs : crun'[q] = IF q = r THEN run[r] ELSE crun[q]
      BY <1>1, <3>1
    <3> QED
      BY <1>1, <3>1, <3>2
  <2> QED
    BY <2>1, <2>2, <2>3, WhoWritesCache
<1> QED
  BY <1>2, <1>3 DEF RunsInv

\* How a call ends keeps the workers well formed.
LEMMA GotoOK ==
    ASSUME WorkInv, NEW r \in Runs, NEW w, WorkerOK(w), Goto(r, w),
           dirty' \in [Runs -> BOOLEAN]
    PROVE  WorkInv'
<1>1. w \in Workers
  BY DEF WorkerOK
<1>2. wk' = [wk EXCEPT ![r] = w] /\ wk \in [Runs -> Workers] /\ \A q \in Runs : WorkerOK(wk[q])
  BY DEF Goto, WorkInv
<1>3. wk' \in [Runs -> Workers] /\ \A q \in Runs : wk'[q] = IF q = r THEN w ELSE wk[q]
  BY <1>1, <1>2
<1>4. \A q \in Runs : WorkerOK(wk'[q])
  BY <1>2, <1>3
<1> QED
  BY <1>3, <1>4 DEF WorkInv

LEMMA ErrorOK == ASSUME WorkInv, NEW r \in Runs, Error(r) PROVE WorkInv'
<1>1. dirty' \in [Runs -> BOOLEAN]
  BY DEF Error, WorkInv
<1> QED
  BY <1>1, IdleOK, GotoOK DEF Error

LEMMA ReplyOK ==
    ASSUME WorkInv, NEW r \in Runs, NEW w, WorkerOK(w), NEW call, Reply(r, call, w)
    PROVE  WorkInv'
<1>1. CASE Goto(r, w) /\ UNCHANGED dirty
  <2>1. dirty' \in [Runs -> BOOLEAN]
    BY <1>1 DEF WorkInv
  <2> QED
    BY <1>1, <2>1, GotoOK
<1>2. CASE Error(r)
  BY <1>2, ErrorOK
<1> QED
  BY <1>1, <1>2 DEF Reply

LEMMA StartOK ==
    ASSUME WorkInv, NEW r \in Runs, NEW w, WorkerOK(w), Start(r, w)
    PROVE  WorkInv'
<1>1. dirty' \in [Runs -> BOOLEAN]
  BY DEF Start, WorkInv
<1> QED
  BY <1>1, GotoOK DEF Start

\* An attempt starts with what the phase of the cached run calls for.
LEMMA StartRunOK == ASSUME Inv, NEW r \in Runs, StartRun(r) PROVE WorkInv'
<1> DEFINE a == crun[r]
<1>1. WorkInv /\ a \in RunRecords /\ RunOK(a)
  BY DEF Inv, RunsInv
<1>2. CASE StartNothing(r)
  BY <1>1, <1>2, IdleOK, StartOK DEF StartNothing
<1>3. ASSUME a.here, a.phase < CleanupFinished, a.phase # KustStarted,
             NEW pc \in {"put", "claim", "job", "deleteRun"},
             pc # "put" => a.phase >= KustFinished,
             Start(r, Attempt(r, pc, Advance(a)))
      PROVE  WorkInv'
  <2>1. /\ Advance(a) \in RunRecords /\ RunOK(Advance(a))
        /\ Advance(a).here /\ Moves(a, Advance(a))
    BY <1>1, <1>3, AdvanceOK
  <2>2. WorkerOK(Attempt(r, pc, Advance(a)))
    BY <1>1, <1>3, <2>1, AttemptOK
  <2> QED
    BY <1>1, <1>3, <2>2, StartOK
<1>4. CASE StartMark(r)
  <2>1. /\ a.here /\ a.phase < CleanupFinished /\ a.phase # KustStarted
        /\ Start(r, Attempt(r, "put", Advance(a)))
    BY <1>4 DEF StartMark, KustStarted, KustFinished, InitFinished, PreValidationFinished,
                ValidationFinished, CleanupFinished
  <2> QED
    BY <1>3, <2>1
<1>5. CASE StartKust(r)
  <2>1. PICK order \in SetToSeqs(Claims) :
          Start(r, Attempt(r, "put", [Advance(a) EXCEPT !.claims = order]))
    BY <1>5 DEF StartKust
  <2> DEFINE b == [Advance(a) EXCEPT !.claims = order]
  <2>2. a.here /\ a.phase = KustStarted
    BY <1>5 DEF StartKust
  <2>3. b \in RunRecords /\ RunOK(b) /\ b.here /\ Moves(a, b)
    BY <1>1, <2>2, KustOK
  <2> HIDE DEF b
  <2>4. WorkerOK(Attempt(r, "put", b))
    BY <1>1, <2>2, <2>3, AttemptOK
  <2>5. Start(r, Attempt(r, "put", b))
    BY <2>1 DEF b
  <2> QED
    BY <1>1, <2>4, <2>5, StartOK
<1>6. CASE StartInit(r)
  <2>1. /\ a.here /\ a.phase < CleanupFinished /\ a.phase # KustStarted
        /\ a.phase >= KustFinished /\ Start(r, Attempt(r, "claim", Advance(a)))
    BY <1>6 DEF StartInit, KustStarted, KustFinished, InitStarted, CleanupFinished
  <2> QED
    BY <1>3, <2>1
<1>7. CASE StartHook(r)
  <2>1. /\ a.here /\ a.phase < CleanupFinished /\ a.phase # KustStarted
        /\ a.phase >= KustFinished /\ Start(r, Attempt(r, "job", Advance(a)))
    BY <1>7 DEF StartHook, KustStarted, KustFinished, PreValidationStarted,
                ValidationStarted, CleanupFinished
  <2> QED
    BY <1>3, <2>1
<1>8. CASE StartCleanup(r)
  <2>1. /\ a.here /\ a.phase < CleanupFinished /\ a.phase # KustStarted
        /\ a.phase >= KustFinished /\ Start(r, Attempt(r, "deleteRun", Advance(a)))
    BY <1>8 DEF StartCleanup, KustStarted, KustFinished, CleanupStarted, CleanupFinished
  <2> QED
    BY <1>3, <2>1
<1> QED
  BY <1>2, <1>4, <1>5, <1>6, <1>7, <1>8 DEF StartRun

\* Every later step of the attempt stays in it or ends it.
LEMMA StepRunOK == ASSUME Inv, NEW r \in Runs, StepRun(r) PROVE WorkInv'
<1>1. WorkInv /\ WorkerOK(wk[r]) /\ (UNCHANGED dirty => dirty' \in [Runs -> BOOLEAN])
  BY DEF Inv, WorkInv
<1> USE DEF At
<1>2. ASSUME wk[r].pc \in Visits, NEW after \in {"bindWait", "put"}
      PROVE  WorkerOK(NextClaim(r, after))
  <2>1. after \in RunPcs \ (Visits \cup {"idle"})
    BY DEF RunPcs, RunCalls, Visits
  <2> QED
    BY <1>1, <1>2, <2>1, NextClaimOK
<1>3. ASSUME wk[r].pc \in {"bindWait", "objects", "job", "jobWait", "deleteRun"},
             NEW pc \in RunPcs, pc # "idle"
      PROVE  WorkerOK([wk[r] EXCEPT !.pc = pc])
  <2>1. wk[r].pc \in Midway \ Visits
    BY <1>3 DEF Midway, Visits, RunPcs, RunCalls
  <2> QED
    BY <1>1, <1>3, <2>1, SamePlace
<1>4. ASSUME wk[r].pc \in {"job", "jobWait"} PROVE WorkerOK(AfterJob(r))
  <2>1. "label" \in RunPcs /\ "put" \in RunPcs
    BY DEF RunPcs, RunCalls
  <2> QED
    BY <1>3, <1>4, <2>1 DEF AfterJob
<1>5. CASE CreateClaim(r)
  BY <1>1, <1>2, <1>5, ReplyOK DEF CreateClaim, Visits
<1>6. CASE BindWait(r)
  <2>1. WorkerOK([wk[r] EXCEPT !.pc = "objects"])
    BY <1>3, <1>6 DEF BindWait, RunPcs, RunCalls
  <2> QED
    BY <1>1, <1>6, <2>1, GotoOK DEF BindWait
<1>7. CASE CreateObjects(r)
  <2>1. WorkerOK([wk[r] EXCEPT !.pc = "job"])
    BY <1>3, <1>7 DEF CreateObjects, RunPcs, RunCalls
  <2> QED
    BY <1>1, <1>7, <2>1, ReplyOK DEF CreateObjects
<1>8. CASE SkipJob(r) \/ JobWait(r)
  BY <1>1, <1>4, <1>8, GotoOK DEF SkipJob, JobWait
<1>9. CASE CreateJob(r)
  <2>1. WorkerOK([wk[r] EXCEPT !.pc = "jobWait"])
    BY <1>3, <1>9 DEF CreateJob, RunPcs, RunCalls
  <2> QED
    BY <1>1, <1>9, <2>1, ReplyOK DEF CreateJob
<1>10. CASE Label(r)
  BY <1>1, <1>2, <1>10, ReplyOK DEF Label, Visits
<1>11. CASE DeleteRun(r)
  <2>1. WorkerOK([wk[r] EXCEPT !.pc = "deleteClaim"])
    BY <1>3, <1>11 DEF DeleteRun, RunPcs, RunCalls
  <2> QED
    BY <1>1, <1>11, <2>1, GotoOK DEF DeleteRun
<1>12. CASE DeleteClaim(r)
  BY <1>1, <1>2, <1>12, GotoOK DEF DeleteClaim, Visits
<1>13. CASE Put(r)
  <2>1. Reply(r, "put", IdleWk) \/ Error(r)
    BY <1>13 DEF Put
  <2> QED
    BY <1>1, <2>1, IdleOK, ReplyOK, ErrorOK
<1> QED
  BY <1>5, <1>6, <1>7, <1>8, <1>9, <1>10, <1>11, <1>12, <1>13 DEF StepRun

LEMMA WorkStep == Inv /\ [Next]_vars => WorkInv'
<1> SUFFICES ASSUME Inv, [Next]_vars PROVE WorkInv'
  OBVIOUS
<1>1. WorkInv /\ run \in [Runs -> RunRecords]
  BY DEF Inv, RunsInv
<1>2. UNCHANGED <<wk, dirty>> => WorkInv'
  BY <1>1 DEF WorkInv
<1>3. ASSUME UNCHANGED wk, dirty' \in [Runs -> BOOLEAN] PROVE WorkInv'
  BY <1>1, <1>3 DEF WorkInv
<1>4. ASSUME NEW r \in Runs, CallLost(r) \/ Timeout(r) PROVE WorkInv'
  BY <1>1, <1>4, ErrorOK DEF CallLost, Timeout
<1>5. ASSUME NEW r \in Runs, SyncRun(r) \/ Resync(r) PROVE WorkInv'
  <2>1. dirty \in [Runs -> BOOLEAN] /\ run[r].here \in BOOLEAN
    BY <1>1 DEF WorkInv, RunRecords
  <2>2. dirty' \in [Runs -> BOOLEAN]
    <3>1. CASE SyncRun(r)
      <4> DEFINE b == (dirty[r] \/ run[r].here)
      <4>1. b \in BOOLEAN
        OBVIOUS
      <4>2. dirty' = [dirty EXCEPT ![r] = b]
        BY <3>1 DEF SyncRun
      <4> HIDE DEF b
      <4> QED
        BY <2>1, <4>1, <4>2
    <3>2. CASE Resync(r)
      BY <2>1, <3>2 DEF Resync
    <3> QED
      BY <1>5, <3>1, <3>2
  <2> QED
    BY <1>3, <1>5, <2>2 DEF SyncRun, Resync
<1>6. ASSUME NEW c \in Claims, SyncClaim(c) PROVE WorkInv'
  BY <1>2, <1>6 DEF SyncClaim
<1>7. StepRevert \/ RqFails \/ Request => WorkInv'
  BY <1>2 DEF StepRevert, CheckMissing, MatchRun, CreateRun, PollRun, AskCleanup, Paused,
              RqFails, Request, RqRest
<1>8. Crash => WorkInv'
  <2> SUFFICES ASSUME Crash PROVE WorkInv'
    OBVIOUS
  <2>1. wk' = [r \in Runs |-> IdleWk] /\ dirty' = [r \in Runs |-> run[r].here]
    BY DEF Crash
  <2>2. \A r \in Runs : run[r].here \in BOOLEAN
    BY <1>1 DEF RunRecords
  <2> QED
    BY <2>1, <2>2, IdleOK DEF WorkInv
<1>9. Cluster => WorkInv'
  BY <1>2 DEF Cluster, TakeSnapshots, CollectApp, BindClaim, RemoveClaim, CollectClaim,
              JobSucceeds, ClusterRest
<1>10. UNCHANGED vars => WorkInv'
  BY <1>2 DEF vars
<1> QED
  BY <1>4, <1>5, <1>6, <1>7, <1>8, <1>9, <1>10, StartRunOK, StepRunOK DEF Next

LEMMA RevertStep == Inv /\ [Next]_vars => RevertInv'
<1> SUFFICES ASSUME Inv, [Next]_vars PROVE RevertInv'
  OBVIOUS
<1>1. RevertOK(rq, newest)
  BY DEF Inv, RevertInv
<1>2. RevertOK(rq', newest') => RevertInv'
  BY DEF RevertInv
<1>3. /\ rq \in Reverts /\ newest \in 0..MaxSnaps /\ rq.since \in 0..MaxSnaps
      /\ rq.before \in SUBSET Runs
      /\ NoRun \in RunRecords /\ 0 \in 0..MaxSnaps
  BY <1>1, NoRunOK, ValidationAssumption DEF RevertOK, Reverts
<1>4. rq' = rq /\ newest' = newest => RevertInv'
  BY <1>1, <1>2
<1>5. \A r \in Runs : run[r] \in RunRecords /\ crun[r] \in RunRecords /\ RunOK(crun[r])
  <2>1. run \in [Runs -> RunRecords] /\ crun \in [Runs -> RunRecords]
    BY DEF Inv, RunsInv
  <2>2. \A r \in Runs : RunOK(crun[r])
    BY DEF Inv, RunsInv
  <2> QED
    BY <2>1, <2>2
<1>6. {"idle", "start", "match", "poll", "create", "ask", "pause"} \subseteq RevertPcs
  BY DEF RevertPcs, RevertCalls
<1>7. rq.pc # "idle" /\ RqError /\ newest' = newest => RevertInv'
  <2> SUFFICES ASSUME rq.pc # "idle", RqError, newest' = newest PROVE RevertInv'
    OBVIOUS
  <2> DEFINE q == [IdleRq EXCEPT !.pc = "start", !.since = rq.since, !.before = rq.before]
  <2>2. q \in Reverts /\ q.pc = "start" /\ q.base = NoRun
    BY <1>3, <1>6 DEF IdleRq, Reverts
  <2>3. rq' = q
    BY DEF RqError, ToRq
  <2> HIDE DEF q
  <2>4. RevertOK(q, newest)
    BY <1>1, <2>2, NoRunOK DEF RevertOK
  <2> QED
    BY <1>2, <2>3, <2>4
<1>8. ASSUME rq.pc # "idle", newest' = newest, NEW pc \in {"pause", "match"}, RqGoto(pc),
             pc = "pause" => rq.pc = "ask"
      PROVE  RevertInv'
  <2> DEFINE q == [rq EXCEPT !.pc = pc]
  <2>1. q \in Reverts /\ q.pc = pc /\ q.base = rq.base /\ q.run = rq.run
    BY <1>3, <1>6 DEF Reverts
  <2>2. rq' = q
    BY <1>8 DEF RqGoto, ToRq
  <2> HIDE DEF q
  <2>3. RevertOK(q, newest)
    BY <1>1, <1>8, <2>1 DEF RevertOK
  <2> QED
    BY <1>2, <1>8, <2>2, <2>3
<1>9. ASSUME NEW q \in Reverts, rq.pc # "idle", q.pc \in {"poll", "pause"}, q.run \in Runs, q.base = rq.base,
             rq' = q, newest' = newest
      PROVE  RevertInv'
  <2>1. RevertOK(q, newest)
    BY <1>1, <1>9 DEF RevertOK
  <2> QED
    BY <1>2, <1>9, <2>1
<1>10. CASE CheckMissing
  <2>1. rq.pc = "start" /\ newest' = newest
    BY <1>10 DEF CheckMissing, RqRest
  <2>2. CASE RqGoto("match")
    BY <1>8, <2>1, <2>2
  <2>3. ASSUME NEW r \in Runs, ToRq([rq EXCEPT !.pc = "pause", !.run = r]) PROVE RevertInv'
    <3> DEFINE q == [rq EXCEPT !.pc = "pause", !.run = r]
    <3>1. q \in Reverts /\ q.pc = "pause" /\ q.run = r /\ q.base = rq.base
      BY <1>3, <1>6 DEF Reverts
    <3>2. rq' = q
      BY <2>3 DEF ToRq
    <3> HIDE DEF q
    <3> QED
      BY <1>9, <2>1, <3>1, <3>2
  <2> QED
    BY <1>10, <2>2, <2>3 DEF CheckMissing, Matching
<1>11. CASE MatchRun
  <2>1. rq.pc = "match" /\ newest' = newest
    BY <1>11 DEF MatchRun, RqRest
  <2>2. CASE \E r \in Runs : rq' = [rq EXCEPT !.pc = "poll", !.run = r]
    <3>1. PICK r \in Runs : rq' = [rq EXCEPT !.pc = "poll", !.run = r]
      BY <2>2
    <3> DEFINE q == [rq EXCEPT !.pc = "poll", !.run = r]
    <3>2. q \in Reverts /\ q.pc = "poll" /\ q.run = r /\ q.base = rq.base
      BY <1>3, <1>6 DEF Reverts
    <3> HIDE DEF q
    <3> QED
      BY <1>9, <2>1, <3>1, <3>2 DEF q
  <2>3. CASE rq' = [rq EXCEPT !.pc = "create", !.snap = newest]
    <3> DEFINE q == [rq EXCEPT !.pc = "create", !.snap = newest]
    <3>1. q \in Reverts /\ q.pc = "create" /\ q.base = rq.base /\ q.snap = newest
      BY <1>3, <1>6 DEF Reverts
    <3>2. rq' = q
      BY <2>3
    <3> HIDE DEF q
    <3>3. RevertOK(q, newest)
      BY <1>1, <2>1, <3>1 DEF RevertOK
    <3> QED
      BY <1>2, <2>1, <3>2, <3>3
  <2> QED
    BY <1>11, <2>2, <2>3 DEF MatchRun, Matching, ToRq
<1>12. CASE CreateRun
  <2>1. rq.pc = "create" /\ newest' = newest
    BY <1>12 DEF CreateRun, RqRest
  <2> DEFINE r == CHOOSE u \in Unused : TRUE
             q == [rq EXCEPT !.pc = "poll", !.run = r]
  <2>2. r \in Runs
    BY <1>12 DEF CreateRun, Unused
  <2>3. q \in Reverts /\ q.pc = "poll" /\ q.run = r /\ q.base = rq.base
    <3> HIDE DEF r
    <3> QED
      BY <1>3, <1>6, <2>2 DEF Reverts
  <2>4. rq' = q \/ RqError
    BY <1>12 DEF CreateRun, RqReply, ToRq
  <2> HIDE DEF q, r
  <2> QED
    BY <1>7, <1>9, <2>1, <2>2, <2>3, <2>4
<1>13. CASE PollRun
  <2>1. rq.pc = "poll" /\ newest' = newest
    BY <1>13 DEF PollRun, RqRest
  <2>2. CASE crun[rq.run].here /\ rq' = [rq EXCEPT !.pc = "ask", !.base = crun[rq.run]]
    <3> DEFINE b == crun[rq.run]
               q == [rq EXCEPT !.pc = "ask", !.base = b]
    <3>1. b \in RunRecords /\ RunOK(b) /\ rq.run \in Runs /\ b.here
      BY <1>1, <1>5, <2>1, <2>2 DEF RevertOK
    <3>2. rq' = q
      BY <2>2
    <3> HIDE DEF b
    <3>3. q \in Reverts /\ q.pc = "ask" /\ q.run = rq.run /\ q.base = b
      BY <1>3, <1>6, <3>1 DEF Reverts
    <3> HIDE DEF q
    <3>4. RevertOK(q, newest)
      BY <1>1, <2>1, <3>1, <3>3 DEF RevertOK
    <3> QED
      BY <1>2, <2>1, <3>2, <3>4
  <2>3. CASE RqError
    BY <1>7, <2>1, <2>3
  <2> QED
    BY <1>13, <2>2, <2>3 DEF PollRun, ToRq
<1>14. CASE AskCleanup
  <2>1. rq.pc = "ask" /\ newest' = newest /\ (RqGoto("pause") \/ RqError)
    BY <1>14 DEF AskCleanup, RqReply, RqRest, RqGoto
  <2> QED
    BY <1>7, <1>8, <2>1
<1>15. CASE Paused
  <2>1. rq' = IdleRq /\ newest' = newest
    BY <1>15 DEF Paused, ToRq, RqRest
  <2>2. IdleRq \in Reverts /\ IdleRq.pc = "idle" /\ IdleRq.base = NoRun
    BY <1>3, <1>6 DEF IdleRq, Reverts
  <2>3. RevertOK(IdleRq, newest)
    BY <1>1, <2>2, NoRunOK DEF RevertOK
  <2> QED
    BY <1>2, <2>1, <2>3
<1>16. CASE RqFails
  <2>1. newest' = newest /\ RqError
    BY <1>16 DEF RqFails, RqRest
  <2>2. rq.pc # "idle"
    BY <1>16, ValidationAssumption DEF RqFails, RunCalls, RevertCalls
  <2> QED
    BY <1>7, <2>1, <2>2
<1>17. CASE Request
  <2> DEFINE q == [IdleRq EXCEPT !.pc = "start", !.since = newest, !.before = Runs \ Unused]
  <2>1. rq' = q /\ newest' = newest /\ newest # 0
    BY <1>3, <1>17 DEF Request, ToRq, RqRest
  <2>2. q \in Reverts /\ q.pc = "start" /\ q.base = NoRun
    BY <1>3, <1>6 DEF IdleRq, Reverts
  <2> HIDE DEF q
  <2>3. RevertOK(q, newest)
    BY <1>1, <2>1, <2>2, NoRunOK DEF RevertOK
  <2> QED
    BY <1>2, <2>1, <2>3
<1>18. CASE Crash
  <2>1. newest' = newest /\ (rq' = rq \/ (rq.pc # "idle" /\ RqError))
    BY <1>18 DEF Crash, testVars
  <2> QED
    BY <1>4, <1>7, <2>1
<1>19. CASE Cluster
  <2>1. CASE TakeSnapshots
    <3>1. rq' = rq /\ newest' = newest + 1 /\ newest < MaxSnaps
      BY <2>1 DEF TakeSnapshots, ClusterRest
    <3>2. newest' \in 0..MaxSnaps /\ newest' # 0
      BY <1>3, <3>1, ValidationAssumption
    <3>3. RevertOK(rq, newest')
      BY <1>1, <3>2 DEF RevertOK
    <3> QED
      BY <1>2, <3>1, <3>3
  <2>2. CASE ~TakeSnapshots
    BY <1>4, <1>19, <2>2 DEF Cluster, CollectApp, BindClaim, RemoveClaim, CollectClaim,
                             JobSucceeds, ClusterRest
  <2> QED
    BY <2>1, <2>2
<1>20. ASSUME NEW r \in Runs, StartRun(r) PROVE RevertInv'
  BY <1>4, <1>20 DEF StartRun, StartNothing, StartMark, StartKust, StartInit, StartHook,
                     StartCleanup, Start
<1>21. ASSUME NEW r \in Runs, StepRun(r) PROVE RevertInv'
  BY <1>4, <1>21 DEF StepRun, CreateClaim, BindWait, CreateObjects, SkipJob, CreateJob,
                     JobWait, Label, DeleteRun, DeleteClaim, Put
<1>22. ASSUME NEW r \in Runs, CallLost(r) \/ Timeout(r) \/ SyncRun(r) \/ Resync(r)
       PROVE  RevertInv'
  BY <1>4, <1>22 DEF CallLost, Timeout, SyncRun, Resync
<1>23. ASSUME NEW c \in Claims, SyncClaim(c) PROVE RevertInv'
  BY <1>4, <1>23 DEF SyncClaim
<1>24. UNCHANGED vars => RevertInv'
  BY <1>4 DEF vars
<1> QED
  BY <1>10, <1>11, <1>12, <1>13, <1>14, <1>15, <1>16, <1>17, <1>18, <1>19, <1>20,
     <1>21, <1>22, <1>23, <1>24 DEF Next, StepRevert

\* What a step does to a claim, to its hooks and to the application is well typed.
LEMMA RestStep == Inv /\ [Next]_vars => RestInv'
<1> SUFFICES ASSUME Inv, [Next]_vars PROVE RestInv'
  OBVIOUS
<1> DEFINE others == <<claim, cclaim, app, job, labelled, tested, clashed, requests>>
<1>1. /\ claim \in [Claims -> ClaimRecords] /\ cclaim \in [Claims -> ClaimRecords]
      /\ \A c \in Claims : claim[c].here => claim[c].run \in Runs
      /\ app \in Runs \cup {Nobody}
      /\ job \in [Runs -> [Hooks -> {"absent", "created", "succeeded"}]]
      /\ labelled \subseteq Claims \X (0..MaxSnaps) /\ tested \subseteq Claims \X (0..MaxSnaps)
      /\ clashed \subseteq Runs
      /\ requests \in 0..MaxRequests /\ faults \in 0..MaxFaults
  BY DEF Inv, RestInv
<1>2. \A r \in Runs : WorkerOK(wk[r]) /\ wk[r] \in Workers
  BY DEF Inv, WorkInv, WorkerOK
<1>3. /\ UNCHANGED faults => faults' \in 0..MaxFaults
      /\ Fault => faults' \in 0..MaxFaults
      /\ \A r, call, w : Reply(r, call, w) => faults' \in 0..MaxFaults
      /\ \A call, w : RqReply(call, w) => faults' \in 0..MaxFaults
  <2>1. Fault => faults' \in 0..MaxFaults
    BY <1>1, ValidationAssumption DEF Fault
  <2> QED
    BY <1>1, <2>1 DEF Reply, RqReply
<1>4. ASSUME faults' \in 0..MaxFaults, UNCHANGED others PROVE RestInv'
  BY <1>1, <1>4 DEF RestInv
<1>5. ASSUME faults' \in 0..MaxFaults, claim' \in [Claims -> ClaimRecords],
             \A c \in Claims : claim'[c].here => claim'[c].run \in Runs,
             clashed' \subseteq Runs,
             UNCHANGED <<cclaim, app, job, labelled, tested, requests>>
      PROVE  RestInv'
  BY <1>1, <1>5 DEF RestInv
<1>6. ASSUME NEW c \in Claims, NEW b \in ClaimRecords, b.here => b.run \in Runs,
             claim' = claim \/ claim' = [claim EXCEPT ![c] = b]
      PROVE  /\ claim' \in [Claims -> ClaimRecords]
             /\ \A d \in Claims : claim'[d].here => claim'[d].run \in Runs
  BY <1>1, <1>6
<1>7. ASSUME NEW c \in Claims
      PROVE  LET b == [claim[c] EXCEPT !.dying = TRUE]
             IN  b \in ClaimRecords /\ (b.here => b.run \in Runs)
  <2>1. claim[c] \in ClaimRecords
    BY <1>1
  <2> QED
    BY <1>1, <2>1 DEF ClaimRecords
<1>8. NoClaim \in ClaimRecords /\ ~NoClaim.here
  BY ValidationAssumption DEF NoClaim, ClaimRecords
<1> USE DEF runVars, claimVars, testVars
<1>9. ASSUME NEW r \in Runs, StartRun(r) PROVE RestInv'
  <2>1. UNCHANGED others /\ UNCHANGED faults
    BY <1>9 DEF StartRun, StartNothing, StartMark, StartKust, StartInit, StartHook,
                StartCleanup, Start
  <2> QED
    BY <1>3, <1>4, <2>1
<1>10. ASSUME NEW r \in Runs, CreateClaim(r) PROVE RestInv'
  <2> DEFINE c == Cur(r)
             b == [NoClaim EXCEPT !.here = TRUE, !.run = r, !.snap = wk[r].base.snap]
  <2>1. c \in Claims
    BY <1>2, <1>10, CurOK DEF CreateClaim, At, Visits
  <2>2. wk[r].base.snap \in 0..MaxSnaps
    BY <1>2 DEF Workers, RunRecords
  <2>3. b \in ClaimRecords /\ (b.here => b.run \in Runs)
    <3> DEFINE d == NoClaim
               n == wk[r].base.snap
    <3>1. d \in ClaimRecords /\ n \in 0..MaxSnaps
      BY <1>8, <2>2
    <3>2. b = [d EXCEPT !.here = TRUE, !.run = r, !.snap = n]
      OBVIOUS
    <3> HIDE DEF b, d, n
    <3> QED
      BY <3>1, <3>2 DEF ClaimRecords
  <2>4. claim' = claim \/ claim' = [claim EXCEPT ![c] = b]
    BY <1>10 DEF CreateClaim
  <2> HIDE DEF b, c
  <2>5. /\ claim' \in [Claims -> ClaimRecords]
        /\ \A d \in Claims : claim'[d].here => claim'[d].run \in Runs
    BY <1>6, <2>1, <2>3, <2>4
  <2>7. clashed' \subseteq Runs
    BY <1>1, <1>10 DEF CreateClaim
  <2>6. faults' \in 0..MaxFaults
    BY <1>3, <1>10 DEF CreateClaim
  <2> QED
    BY <1>5, <1>10, <2>5, <2>6, <2>7 DEF CreateClaim
<1>11. ASSUME NEW r \in Runs, DeleteClaim(r) PROVE RestInv'
  <2> DEFINE c == Cur(r)
             b == [claim[c] EXCEPT !.dying = TRUE]
  <2>1. c \in Claims
    BY <1>2, <1>11, CurOK DEF DeleteClaim, At, Visits
  <2>2. b \in ClaimRecords /\ (b.here => b.run \in Runs)
    BY <1>7, <2>1
  <2>6. clashed' \subseteq Runs
    BY <1>1, <1>11, <2>1 DEF DeleteClaim
  <2>3. claim' = claim \/ claim' = [claim EXCEPT ![c] = b]
    BY <1>11 DEF DeleteClaim
  <2> HIDE DEF b, c
  <2>4. /\ claim' \in [Claims -> ClaimRecords]
        /\ \A d \in Claims : claim'[d].here => claim'[d].run \in Runs
    BY <1>6, <2>1, <2>2, <2>3
  <2>5. faults' \in 0..MaxFaults
    BY <1>3, <1>11 DEF DeleteClaim
  <2> QED
    BY <1>5, <1>11, <2>4, <2>5, <2>6 DEF DeleteClaim
<1>12. ASSUME NEW r \in Runs, CreateObjects(r) PROVE RestInv'
  <2>1. faults' \in 0..MaxFaults
    BY <1>3, <1>12 DEF CreateObjects
  <2>2. app' \in Runs \cup {Nobody}
    BY <1>1, <1>12 DEF CreateObjects
  <2>3. clashed' \subseteq Runs
    BY <1>1, <1>12 DEF CreateObjects
  <2> QED
    BY <1>1, <1>12, <2>1, <2>2, <2>3 DEF CreateObjects, RestInv
<1>13. ASSUME NEW r \in Runs, NEW h \in Hooks, NEW v \in {"created", "succeeded"},
              job' = job \/ job' = [job EXCEPT ![r][h] = v]
       PROVE  job' \in [Runs -> [Hooks -> {"absent", "created", "succeeded"}]]
  <2> DEFINE Jobs == [Hooks -> {"absent", "created", "succeeded"}]
             j == [job[r] EXCEPT ![h] = v]
  <2>1. job[r] \in Jobs
    BY <1>1
  <2>2. j \in Jobs
    BY <2>1
  <2>3. job \in [Runs -> Jobs] /\ (job' = job \/ job' = [job EXCEPT ![r] = j])
    BY <1>1, <1>13
  <2> HIDE DEF j, Jobs
  <2>4. job' \in [Runs -> Jobs]
    BY <2>2, <2>3
  <2> QED
    BY <2>4 DEF Jobs
<1>14. ASSUME NEW r \in Runs, CreateJob(r) PROVE RestInv'
  <2>1. faults' \in 0..MaxFaults
    BY <1>3, <1>14 DEF CreateJob
  <2> DEFINE h == Hook(r)
  <2>2. h \in Hooks /\ (job' = job \/ job' = [job EXCEPT ![r][h] = "created"])
    BY <1>14 DEF CreateJob
  <2> HIDE DEF h
  <2>3. job' \in [Runs -> [Hooks -> {"absent", "created", "succeeded"}]]
    BY <1>13, <2>2
  <2> QED
    BY <1>1, <1>14, <2>1, <2>3 DEF CreateJob, RestInv
<1>15. ASSUME NEW r \in Runs, Label(r) PROVE RestInv'
  <2>1. faults' \in 0..MaxFaults
    BY <1>3, <1>15 DEF Label
  <2>2. Cur(r) \in Claims /\ wk[r].base.snap \in 0..MaxSnaps
    <3>1. Cur(r) \in Claims
      BY <1>2, <1>15, CurOK DEF Label, At, Visits
    <3>2. wk[r].base.snap \in 0..MaxSnaps
      BY <1>2 DEF Workers, RunRecords
    <3> QED
      BY <3>1, <3>2
  <2>3. labelled' \subseteq Claims \X (0..MaxSnaps)
    BY <1>1, <1>15, <2>2 DEF Label
  <2> QED
    BY <1>1, <1>15, <2>1, <2>3 DEF Label, RestInv
<1>16. ASSUME NEW r \in Runs, BindWait(r) \/ SkipJob(r) \/ JobWait(r) \/ DeleteRun(r) \/ Put(r)
       PROVE  RestInv'
  <2>1. faults' \in 0..MaxFaults
    BY <1>3, <1>16 DEF BindWait, SkipJob, JobWait, DeleteRun, Put
  <2>2. UNCHANGED others
    BY <1>16 DEF BindWait, SkipJob, JobWait, DeleteRun, Put
  <2> QED
    BY <1>4, <2>1, <2>2
<1>17. ASSUME NEW r \in Runs, CallLost(r) \/ Timeout(r) \/ SyncRun(r) \/ Resync(r)
       PROVE  RestInv'
  BY <1>3, <1>4, <1>17 DEF CallLost, Timeout, SyncRun, Resync
<1>18. ASSUME NEW cc, cc \in [Claims -> ClaimRecords], cclaim' = cc, faults' \in 0..MaxFaults,
              UNCHANGED <<claim, app, job, labelled, tested, clashed, requests>>
       PROVE  RestInv'
  BY <1>1, <1>18 DEF RestInv
<1>19. ASSUME NEW c \in Claims, SyncClaim(c) PROVE RestInv'
  <2>1. [cclaim EXCEPT ![c] = claim[c]] \in [Claims -> ClaimRecords]
    BY <1>1
  <2> QED
    BY <1>3, <1>18, <1>19, <2>1 DEF SyncClaim
<1>20. StepRevert => RestInv'
  BY <1>3, <1>4 DEF StepRevert, CheckMissing, MatchRun, CreateRun, PollRun, AskCleanup,
                    Paused, RqRest
<1>21. RqFails => RestInv'
  BY <1>3, <1>4 DEF RqFails, RqRest
<1>22. Request => RestInv'
  <2> SUFFICES ASSUME Request PROVE RestInv'
    OBVIOUS
  <2>1. requests' \in 0..MaxRequests
    BY <1>1, ValidationAssumption DEF Request
  <2> QED
    BY <1>1, <2>1 DEF Request, RqRest, RestInv
<1>23. Crash => RestInv'
  BY <1>1, <1>3, <1>18 DEF Crash
<1>24. ASSUME NEW c \in Claims, BindClaim(c) \/ RemoveClaim(c) \/ CollectClaim(c)
       PROVE  RestInv'
  <2>1. claim[c] \in ClaimRecords
    BY <1>1
  <2>2. /\ [claim[c] EXCEPT !.bound = TRUE] \in ClaimRecords
        /\ [claim[c] EXCEPT !.bound = TRUE].here => [claim[c] EXCEPT !.bound = TRUE].run \in Runs
    BY <1>1, <2>1 DEF ClaimRecords
  <2>3. /\ claim' \in [Claims -> ClaimRecords]
        /\ \A d \in Claims : claim'[d].here => claim'[d].run \in Runs
    BY <1>6, <1>7, <1>8, <1>24, <2>2 DEF BindClaim, RemoveClaim, CollectClaim
  <2> QED
    BY <1>1, <1>3, <1>5, <1>24, <2>3 DEF BindClaim, RemoveClaim, CollectClaim, ClusterRest
<1>25. TakeSnapshots => RestInv'
  BY <1>3, <1>4 DEF TakeSnapshots, ClusterRest
<1>26. CollectApp => RestInv'
  BY <1>1, <1>3 DEF CollectApp, ClusterRest, RestInv
<1>27. ASSUME NEW r \in Runs, NEW h \in Hooks, JobSucceeds(r, h) PROVE RestInv'
  <2>1. job' \in [Runs -> [Hooks -> {"absent", "created", "succeeded"}]]
    BY <1>13, <1>27 DEF JobSucceeds
  <2>2. \A c \in Claims : claim[c].snap \in 0..MaxSnaps
    BY <1>1 DEF ClaimRecords
  <2>3. tested' \subseteq Claims \X (0..MaxSnaps)
    <3>1. tested' = tested \/ tested' = tested \cup {<<c, claim[c].snap>> : c \in Claims}
      BY <1>27 DEF JobSucceeds
    <3> QED
      BY <1>1, <2>2, <3>1
  <2> QED
    BY <1>1, <1>3, <1>27, <2>1, <2>3 DEF JobSucceeds, ClusterRest, RestInv
<1>28. Cluster => RestInv'
  BY <1>24, <1>25, <1>26, <1>27 DEF Cluster
<1>29. UNCHANGED vars => RestInv'
  BY <1>3, <1>4 DEF vars
<1> QED
  BY <1>9, <1>10, <1>11, <1>12, <1>14, <1>15, <1>16, <1>17, <1>19, <1>20, <1>21, <1>22,
     <1>23, <1>28, <1>29 DEF Next, StepRun

----------------------------------------------------------------------------

LEMMA InitInv == Init => Inv
<1> SUFFICES ASSUME Init PROVE Inv
  OBVIOUS
<1>1. 0 \in 0..MaxSnaps /\ 0 \in 0..MaxRequests /\ 0 \in 0..MaxFaults
  BY ValidationAssumption
<1>2. RunsInv
  BY NoRunOK DEF Init, RunsInv
<1>3. WorkInv
  BY IdleOK DEF Init, WorkInv
<1>4. RevertInv
  <2>1. IdleRq \in Reverts /\ IdleRq.pc = "idle" /\ IdleRq.base = NoRun
    BY <1>1, NoRunOK DEF IdleRq, Reverts, RevertPcs
  <2> QED
    BY <1>1, <2>1, NoRunOK DEF Init, RevertInv, RevertOK
<1>5. RestInv
  <2>1. NoClaim \in ClaimRecords /\ ~NoClaim.here
    BY <1>1 DEF NoClaim, ClaimRecords
  <2> QED
    BY <1>1, <2>1 DEF Init, RestInv
<1> QED
  BY <1>2, <1>3, <1>4, <1>5 DEF Inv

LEMMA StepInv == Inv /\ [Next]_vars => Inv'
  BY RunsStep, WorkStep, RevertStep, RestStep DEF Inv

\* The variables keep their types; a worker that visits the claims of a run stays
\* within the list it has read (createSnapshotPVCs, validation, cleanup).
THEOREM TypeCorrect == Spec => []TypeOK
<1>1. Spec => []Inv
  BY InitInv, StepInv, PTL DEF Spec
<1> QED
  BY <1>1, InvTypes, PTL

\* No worker loses the update of another one: for any claims and runs, however stale
\* the caches, and whatever calls fail, a run in the API server moves by one
\* timestamp, or gets its cleanup flag, and keeps the rest (UpdateValidationRun).
THEOREM UpdatesKept == Spec => NothingLost
<1> DEFINE Kept == \A r \in Runs : run[r].here /\ run'[r].here => Moves(run[r], run'[r])
<1>1. Inv /\ [Next]_vars => [Kept]_vars
  <2> SUFFICES ASSUME Inv, [Next]_vars PROVE Kept
    OBVIOUS
  <2>1. CASE UNCHANGED run
    BY <2>1, MovesStay
  <2>2. CASE RunWrites
    BY <2>2, WritesMove
  <2> QED
    BY <2>1, <2>2, WhoWritesRuns
<1>2. Spec => []Inv
  BY InitInv, StepInv, PTL DEF Spec
<1> HIDE DEF Kept
<1>3. Spec => [][Kept]_vars
  BY <1>1, <1>2, PTL DEF Spec
<1> QED
  BY <1>3 DEF Kept, NothingLost
=============================================================================
