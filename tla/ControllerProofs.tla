---------------------------- MODULE ControllerProofs ----------------------------
(***************************************************************************)
(* What TLAPS proves of Controller, for any number of keys and workers,    *)
(* any changes, failures, signals and crashes.                             *)
(***************************************************************************)
EXTENDS Controller, TLAPS

----------------------------------------------------------------------------
(* A queue by itself *)

\* No key is queued twice; queued are those to be processed that nobody processes.
Sound(o, S) ==
    /\ o \in QueueRecords(S)
    /\ \A i, j \in 1..Len(o.queue) : o.queue[i] = o.queue[j] => i = j
    /\ \A k \in S : Queued(o, k) <=> k \in o.dirty \ o.processing

LEMMA EmptySound == ASSUME NEW S PROVE Sound(EmptyQueue, S)
  BY DEF Sound, EmptyQueue, QueueRecords, Queued

LEMMA AppendSound ==
    ASSUME NEW S, NEW s \in Seq(S), NEW k \in S,
           \A i, j \in 1..Len(s) : s[i] = s[j] => i = j,
           ~(\E i \in 1..Len(s) : s[i] = k)
    PROVE  /\ Append(s, k) \in Seq(S)
           /\ \A i, j \in 1..Len(Append(s, k)) : Append(s, k)[i] = Append(s, k)[j] => i = j
           /\ \A l \in S : (\E i \in 1..Len(Append(s, k)) : Append(s, k)[i] = l)
                             <=> l = k \/ (\E i \in 1..Len(s) : s[i] = l)
<1>. DEFINE t == Append(s, k)
<1>1. /\ t \in Seq(S) /\ Len(t) = Len(s) + 1 /\ Len(s) \in Nat
      /\ t[Len(s) + 1] = k /\ \A i \in 1..Len(s) : t[i] = s[i]
  OBVIOUS
<1>. HIDE DEF t
<1>2. \A i, j \in 1..Len(t) : t[i] = t[j] => i = j
  BY <1>1
<1>3. ASSUME NEW l \in S
      PROVE  (\E i \in 1..Len(t) : t[i] = l) <=> l = k \/ (\E i \in 1..Len(s) : s[i] = l)
  BY <1>1
<1>. QED BY <1>1, <1>2, <1>3 DEF t

LEMMA AddSound ==
    ASSUME NEW S, NEW o, Sound(o, S), NEW k \in S
    PROVE  /\ Sound(Add(o, k), S)
           /\ Add(o, k).processing = o.processing /\ Add(o, k).later = o.later
           /\ Add(o, k).down = o.down
           /\ o.down => Add(o, k).dirty = o.dirty
           /\ ~o.down => Add(o, k).dirty = o.dirty \cup {k}
<1>1. CASE o.down \/ k \in o.dirty
  BY <1>1 DEF Add, Sound, QueueRecords
<1>2. CASE ~(o.down \/ k \in o.dirty) /\ k \in o.processing
  BY <1>2 DEF Add, Sound, QueueRecords, Queued
<1>3. CASE ~(o.down \/ k \in o.dirty) /\ k \notin o.processing
  <2>1. /\ o.queue \in Seq(S) /\ \A i, j \in 1..Len(o.queue) : o.queue[i] = o.queue[j] => i = j
        /\ ~(\E i \in 1..Len(o.queue) : o.queue[i] = k)
    BY <1>3 DEF Sound, QueueRecords, Queued
  <2>2. Add(o, k) = [o EXCEPT !.dirty = @ \cup {k}, !.queue = Append(@, k)]
    BY <1>3 DEF Add, Sound, QueueRecords
  <2>. DEFINE t == Append(o.queue, k)
  <2>3. /\ t \in Seq(S) /\ \A i, j \in 1..Len(t) : t[i] = t[j] => i = j
        /\ \A l \in S : (\E i \in 1..Len(t) : t[i] = l)
                          <=> l = k \/ (\E i \in 1..Len(o.queue) : o.queue[i] = l)
    BY <2>1, AppendSound
  <2>. DEFINE a == Add(o, k)
  <2>. HIDE DEF t
  <2>4. /\ a \in QueueRecords(S) /\ a.queue = t /\ a.dirty = o.dirty \cup {k}
        /\ a.processing = o.processing /\ a.later = o.later /\ a.down = o.down
    <3>1. o \in QueueRecords(S) /\ a = [o EXCEPT !.dirty = @ \cup {k}, !.queue = t]
      BY <2>2 DEF t, Sound
    <3>. HIDE DEF a
    <3>. QED BY <2>3, <3>1 DEF QueueRecords
  <2>. HIDE DEF a
  <2>5. \A l \in S : Queued(a, l) <=> l \in a.dirty \ a.processing
    BY <1>3, <2>3, <2>4 DEF Sound, Queued
  <2>6. Sound(a, S)
    BY <2>3, <2>4, <2>5 DEF Sound
  <2>. QED BY <1>3, <2>4, <2>6 DEF a
<1>. QED BY <1>1, <1>2, <1>3

LEMMA TakeSound ==
    ASSUME NEW S, NEW o, Sound(o, S), o.queue # <<>>
    PROVE  LET k == Head(o.queue) IN
           /\ k \in S /\ k \in o.dirty \ o.processing
           /\ Sound(Take(o), S)
           /\ Take(o).processing = o.processing \cup {k} /\ Take(o).later = o.later
           /\ Take(o).down = o.down /\ Take(o).dirty = o.dirty \ {k}
<1>. DEFINE s == o.queue
            k == Head(s)
            t == Tail(s)
<1>1. /\ s \in Seq(S) /\ s # <<>> /\ \A i, j \in 1..Len(s) : s[i] = s[j] => i = j
      /\ \A l \in S : (\E i \in 1..Len(s) : s[i] = l) <=> l \in o.dirty \ o.processing
  BY DEF Sound, QueueRecords, Queued
<1>2. /\ k \in S /\ k = s[1] /\ t \in Seq(S) /\ Len(s) \in Nat \ {0} /\ Len(t) = Len(s) - 1
      /\ \A i \in 1..Len(t) : t[i] = s[i + 1]
  BY <1>1
<1>3. Take(o) = [o EXCEPT !.queue = t, !.dirty = @ \ {k}, !.processing = @ \cup {k}]
  BY DEF Take, Sound, QueueRecords
<1>4. o \in QueueRecords(S)
  BY DEF Sound
<1>. HIDE DEF s, k, t
<1>5. k \in o.dirty \ o.processing
  BY <1>1, <1>2
<1>6. \A i, j \in 1..Len(t) : t[i] = t[j] => i = j
  BY <1>1, <1>2
<1>7. ASSUME NEW l \in S
      PROVE  (\E i \in 1..Len(t) : t[i] = l) <=> l # k /\ (\E i \in 1..Len(s) : s[i] = l)
  <2>1. ASSUME NEW i \in 1..Len(t), t[i] = l
        PROVE  l # k /\ (\E j \in 1..Len(s) : s[j] = l)
    BY <2>1, <1>1, <1>2
  <2>2. ASSUME l # k, NEW i \in 1..Len(s), s[i] = l
        PROVE  \E j \in 1..Len(t) : t[j] = l
    <3>1. i - 1 \in 1..Len(t) /\ t[i - 1] = l
      BY <2>2, <1>2
    <3>. QED BY <3>1
  <2>. QED BY <2>1, <2>2
<1>. DEFINE a == Take(o)
<1>8. /\ a \in QueueRecords(S) /\ a.queue = t /\ a.dirty = o.dirty \ {k}
      /\ a.processing = o.processing \cup {k} /\ a.later = o.later /\ a.down = o.down
  <2>1. a = [o EXCEPT !.queue = t, !.dirty = @ \ {k}, !.processing = @ \cup {k}]
    BY <1>3
  <2>. HIDE DEF a
  <2>. QED BY <1>2, <1>4, <2>1 DEF QueueRecords
<1>. HIDE DEF a
<1>9. \A l \in S : Queued(a, l) <=> l \in a.dirty \ a.processing
  BY <1>1, <1>7, <1>8 DEF Queued
<1>10. Sound(a, S)
  BY <1>6, <1>8, <1>9 DEF Sound
<1>. QED BY <1>2, <1>5, <1>8, <1>10 DEF a, k, s

LEMMA DoneSound ==
    ASSUME NEW S, NEW o, Sound(o, S), NEW k \in S, k \in o.processing
    PROVE  /\ Sound(Done(o, k), S)
           /\ Done(o, k).processing = o.processing \ {k} /\ Done(o, k).later = o.later
           /\ Done(o, k).down = o.down /\ Done(o, k).dirty = o.dirty
<1>1. o \in QueueRecords(S) /\ ~Queued(o, k)
  BY DEF Sound
<1>2. CASE k \notin o.dirty
  BY <1>1, <1>2 DEF Done, Sound, QueueRecords, Queued
<1>3. CASE k \in o.dirty
  <2>. DEFINE t == Append(o.queue, k)
  <2>1. /\ t \in Seq(S) /\ \A i, j \in 1..Len(t) : t[i] = t[j] => i = j
        /\ \A l \in S : (\E i \in 1..Len(t) : t[i] = l)
                          <=> l = k \/ (\E i \in 1..Len(o.queue) : o.queue[i] = l)
    BY <1>1, AppendSound DEF Sound, QueueRecords, Queued
  <2>2. Done(o, k) = [o EXCEPT !.processing = @ \ {k}, !.queue = t]
    BY <1>1, <1>3 DEF Done, QueueRecords
  <2>. DEFINE a == Done(o, k)
  <2>. HIDE DEF t
  <2>3. /\ a \in QueueRecords(S) /\ a.queue = t /\ a.dirty = o.dirty
        /\ a.processing = o.processing \ {k} /\ a.later = o.later /\ a.down = o.down
    BY <1>1, <2>1, <2>2 DEF QueueRecords
  <2>. HIDE DEF a
  <2>4. \A l \in S : Queued(a, l) <=> l \in a.dirty \ a.processing
    BY <1>3, <2>1, <2>3 DEF Sound, Queued
  <2>5. Sound(a, S)
    BY <2>1, <2>3, <2>4 DEF Sound
  <2>. QED BY <2>3, <2>5 DEF a
<1>. QED BY <1>2, <1>3

LEMMA LaterSound ==
    ASSUME NEW S, NEW o, Sound(o, S), NEW k \in S
    PROVE  /\ Sound(AddRateLimited(o, k), S)
           /\ AddRateLimited(o, k).queue = o.queue /\ AddRateLimited(o, k).dirty = o.dirty
           /\ AddRateLimited(o, k).processing = o.processing
           /\ AddRateLimited(o, k).down = o.down
           /\ o.down => AddRateLimited(o, k).later = o.later
           /\ ~o.down => AddRateLimited(o, k).later = o.later \cup {k}
<1>. DEFINE a == AddRateLimited(o, k)
<1>1. o \in QueueRecords(S) /\ a = IF o.down THEN o ELSE [o EXCEPT !.later = @ \cup {k}]
  BY DEF AddRateLimited, Sound
<1>. HIDE DEF a
<1>2. /\ a \in QueueRecords(S) /\ a.queue = o.queue /\ a.dirty = o.dirty
      /\ a.processing = o.processing /\ a.down = o.down
      /\ a.later = IF o.down THEN o.later ELSE o.later \cup {k}
  BY <1>1 DEF QueueRecords
<1>3. Sound(a, S)
  BY <1>2 DEF Sound, Queued
<1>. QED BY <1>2, <1>3 DEF a

LEMMA RipenSound ==
    ASSUME NEW S, NEW o, Sound(o, S), NEW k \in S, ~o.down
    PROVE  /\ Sound(Ripen(o, k), S)
           /\ Ripen(o, k).processing = o.processing /\ Ripen(o, k).later = o.later \ {k}
           /\ Ripen(o, k).down = o.down /\ Ripen(o, k).dirty = o.dirty \cup {k}
<1>1. PICK p : p = [o EXCEPT !.later = @ \ {k}]
  OBVIOUS
<1>2. o \in QueueRecords(S) /\ Ripen(o, k) = Add(p, k)
  BY <1>1 DEF Sound, Ripen
<1>3. /\ p \in QueueRecords(S) /\ p.queue = o.queue /\ p.down = o.down /\ p.dirty = o.dirty
      /\ p.processing = o.processing /\ p.later = o.later \ {k}
  BY <1>1, <1>2 DEF QueueRecords
<1>4. Sound(p, S)
  BY <1>3 DEF Sound, Queued
<1>5. /\ Sound(Add(p, k), S)
      /\ Add(p, k).processing = p.processing /\ Add(p, k).later = p.later
      /\ Add(p, k).down = p.down /\ Add(p, k).dirty = p.dirty \cup {k}
  BY <1>3, <1>4, AddSound
<1>. QED BY <1>2, <1>3, <1>5

LEMMA DownSound ==
    ASSUME NEW S, NEW o, Sound(o, S)
    PROVE  Sound(ShutDown(o), S) /\ ShutDown(o) = [o EXCEPT !.down = TRUE]
  BY DEF ShutDown, Sound, QueueRecords, Queued

----------------------------------------------------------------------------
(* The inductive invariant *)

LEMMA KeysFacts ==
    /\ KeysOf["revert"] = Reverts /\ KeysOf["validation"] = Runs /\ KeysOf["snapshot"] = Snaps
    /\ \A k \in Keys : KindOf(k) \in Kinds /\ k \in KeysOf[KindOf(k)]
    /\ \A kind \in Kinds : KeysOf[kind] \subseteq Keys
                          /\ \A k \in KeysOf[kind] : KindOf(k) = kind
    /\ \A w \in Workers : Queue(w) \in Kinds
    /\ NoKey \notin Keys
<1>1. /\ KeysOf["revert"] = Reverts /\ KeysOf["validation"] = Runs /\ KeysOf["snapshot"] = Snaps
  BY DEF KeysOf, Kinds
<1>2. ASSUME NEW kind \in Kinds, NEW k \in KeysOf[kind]
      PROVE  k \in Keys /\ KindOf(k) = kind
  <2>1. \A other \in Kinds : k \in KeysOf[other] => other = kind
    BY <1>1, <1>2, ControllerAssumption DEF Kinds
  <2>2. k \in Keys
    BY <1>1, <1>2 DEF Kinds, Keys
  <2>. QED BY <1>2, <2>1, <2>2 DEF KindOf
<1>3. ASSUME NEW k \in Keys PROVE KindOf(k) \in Kinds /\ k \in KeysOf[KindOf(k)]
  <2>1. \E kind \in Kinds : k \in KeysOf[kind]
    BY <1>1 DEF Kinds, Keys
  <2>. QED BY <2>1 DEF KindOf
<1>4. \A w \in Workers : Queue(w) \in Kinds
  BY DEF Workers, Queue
<1>. QED BY <1>1, <1>2, <1>3, <1>4, ControllerAssumption

RestInv ==
    /\ main \in {"gone", "new", "waiting", "serving", "returned"}
    /\ stop \in BOOLEAN
    /\ started \subseteq Informers /\ synced \subseteq started
    /\ obj \in [Keys -> Objects] /\ cobj \in [Keys -> Objects]
    /\ notify \in [Keys -> SUBSET {"changed", "deleted"}]
    /\ handled \in [Keys -> Nat]
    /\ mutexes \subseteq Runs /\ timers \subseteq Runs
    /\ changes \in 0..MaxChanges /\ faults \in 0..MaxFaults

QueuesInv ==
    /\ q = [kind \in Kinds |-> q[kind]]
    /\ \A kind \in Kinds : Sound(q[kind], KeysOf[kind])

\* A worker has a key of its queue, or none; only an attempt holds a mutex.
WorkerOK(w, s) ==
    /\ s \in WorkerStates /\ s.key \in KeysOf[Queue(w)] \cup {NoKey}
    /\ s.key = NoKey <=> s.pc \in {"none", "idle"}
    /\ s.mine => s.pc = "attempt"
    /\ s.pc = "lock" => s.key \in Runs

WorkersInv ==
    /\ worker \in [Workers -> WorkerStates]
    /\ \A w \in Workers : WorkerOK(w, worker[w])
    /\ \A v, w \in Workers : worker[v].key = worker[w].key /\ worker[v].key # NoKey => v = w

\* What is being processed is what the workers have.
HeldInv == \A k \in Keys : k \in q[KindOf(k)].processing
                          <=> \E w \in Workers : worker[w].key = k

\* Workers start when the caches have synced.
ServeInv ==
    /\ main \in {"gone", "new", "waiting"} => \A w \in Workers : worker[w] = At("none")
    /\ \A w \in Workers : worker[w].pc # "none" => Awaited \subseteq synced

\* Nobody goes back to an older version.
VersionInv ==
    /\ \A k \in Keys : handled[k] <= cobj[k].ver /\ cobj[k].ver <= obj[k].ver
    /\ \A w \in Workers : worker[w].pc \in {"lock", "attempt"} =>
          /\ handled[worker[w].key] <= worker[w].saw
          /\ worker[w].saw <= cobj[worker[w].key].ver

WorkInv == QueuesInv /\ WorkersInv /\ HeldInv
Inv == RestInv /\ WorkInv /\ ServeInv

LEMMA InvTypes == Inv => TypeOK
  BY KeysFacts DEF Inv, RestInv, WorkInv, QueuesInv, WorkersInv, WorkerOK, Sound, TypeOK

----------------------------------------------------------------------------
(* The process, the objects and the caches *)

LEMMA RestInit == Init => RestInv
<1>. SUFFICES ASSUME Init PROVE RestInv
  OBVIOUS
<1>1. Absent \in Objects /\ [here |-> TRUE, ver |-> 1] \in Objects
  BY DEF Absent, Objects
<1>2. obj \in [Keys -> Objects] /\ cobj \in [Keys -> Objects]
  BY <1>1 DEF Init, NoProcess
<1>3. changes \in 0..MaxChanges /\ faults \in 0..MaxFaults
  BY ControllerAssumption DEF Init
<1>. QED BY <1>2, <1>3 DEF Init, NoProcess, RestInv

LEMMA RestStep == ASSUME RestInv, WorkersInv, Next PROVE RestInv'
<1>. USE DEF RestInv
<1>1. CASE ProcessNext
  <2>1. CASE NewController
    BY <2>1 DEF NewController, cacheVars, mutexVars
  <2>2. CASE Run
    BY <2>2 DEF Run, cacheVars, mutexVars, Informers
  <2>3. CASE StartWorkers
    BY <2>3 DEF StartWorkers, cacheVars, mutexVars
  <2>4. CASE Signal
    BY <2>4, ControllerAssumption DEF Signal, cacheVars, mutexVars
  <2>5. CASE RunReturns
    BY <2>5 DEF RunReturns, cacheVars, mutexVars
  <2>6. CASE Exit
    BY <2>6 DEF Exit, Gone, Objects, Absent
  <2>7. CASE Crash
    <3>1. faults' \in 0..MaxFaults
      BY <2>7, ControllerAssumption DEF Crash
    <3>. QED BY <2>7, <3>1 DEF Crash, Gone, Objects, Absent
  <2>8. CASE StartFactory(KubeInformers) \/ StartFactory(SvInformers)
    BY <2>8 DEF StartFactory, cacheVars, mutexVars, Informers
  <2>9. ASSUME NEW is \in Together, Sync(is) PROVE RestInv'
    <3>1. is \subseteq Informers
      BY ControllerAssumption
    <3>2. \A k \in Keys : Events(k) \subseteq {"changed", "deleted"}
      BY DEF Events
    <3>. QED BY <2>9, <3>1, <3>2 DEF Sync, mutexVars
  <2>. QED BY <1>1, <2>1, <2>2, <2>3, <2>4, <2>5, <2>6, <2>7, <2>8, <2>9 DEF ProcessNext
<1>2. ASSUME NEW k \in Keys, KeyNext(k) PROVE RestInv'
  <2>1. CASE Update(k) \/ Remove(k)
    <3>1. changes' \in 0..MaxChanges
      BY <2>1, ControllerAssumption DEF Update, Remove
    <3>2. obj' \in [Keys -> Objects]
      <4>1. \A b \in BOOLEAN : [here |-> b, ver |-> obj[k].ver + 1] \in Objects
        BY DEF Objects
      <4>. QED BY <2>1, <4>1 DEF Update, Remove
    <3>. QED BY <2>1, <3>1, <3>2 DEF Update, Remove, processVars, cacheVars, mutexVars
  <2>2. CASE Watch(k)
    BY <2>2 DEF Watch, Events, processVars, mutexVars
  <2>3. CASE Resync(k)
    BY <2>3, ControllerAssumption DEF Resync, processVars, mutexVars
  <2>4. CASE HandleChange(k)
    BY <2>4 DEF HandleChange, processVars, mutexVars
  <2>5. CASE HandleDelete(k)
    BY <2>5 DEF HandleDelete, processVars
  <2>6. CASE RemoveMutex(k)
    BY <2>6 DEF RemoveMutex, processVars, cacheVars
  <2>7. CASE Retry(k)
    BY <2>7 DEF Retry, processVars, cacheVars, mutexVars
  <2>. QED BY <1>2, <2>1, <2>2, <2>3, <2>4, <2>5, <2>6, <2>7 DEF KeyNext
<1>3. ASSUME NEW w \in Workers, WorkerNext(w) PROVE RestInv'
  <2>1. WorkerOK(w, worker[w])
    BY DEF WorkersInv
  <2>2. CASE Get(w) \/ Leave(w) \/ Read(w) \/ Finish(w)
    BY <2>2 DEF Get, Leave, Read, Finish, processVars, cacheVars, mutexVars
  <2>3. CASE Lock(w)
    BY <2>1, <2>3 DEF Lock, WorkerOK, processVars, cacheVars
  <2>4. CASE Succeed(w)
    <3>1. worker[w].key \in Keys /\ worker[w].saw \in Nat
      BY <2>1, <2>4, KeysFacts DEF Succeed, WorkerOK, WorkerStates
    <3>. QED BY <2>4, <3>1 DEF Succeed, processVars, cacheVars, mutexVars
  <2>5. CASE Fail(w)
    BY <2>5, ControllerAssumption DEF Fail, processVars, cacheVars, mutexVars
  <2>. QED BY <1>3, <2>2, <2>3, <2>4, <2>5 DEF WorkerNext
<1>. QED BY <1>1, <1>2, <1>3 DEF Next

----------------------------------------------------------------------------
(* The queues and the workers *)

\* One queue changes.
LEMMA QueueAt ==
    ASSUME QueuesInv, NEW kind \in Kinds, NEW o, Sound(o, KeysOf[kind]),
           q' = [q EXCEPT ![kind] = o]
    PROVE  /\ QueuesInv' /\ q'[kind] = o
           /\ \A other \in Kinds \ {kind} : q'[other] = q[other]
<1>1. q = [x \in Kinds |-> q[x]]
  BY DEF QueuesInv
<1>2. q' = [x \in Kinds |-> IF x = kind THEN o ELSE q[x]]
  BY <1>1
<1>3. q' = [x \in Kinds |-> q'[x]]
  BY <1>2
<1>4. q'[kind] = o /\ \A other \in Kinds \ {kind} : q'[other] = q[other]
  BY <1>2
<1>. QED BY <1>3, <1>4 DEF QueuesInv

\* A worker goes on with the key it has; what is being processed stays.
LEMMA Relabel ==
    ASSUME WorkInv, QueuesInv', NEW w \in Workers, NEW s, WorkerOK(w, s),
           s.key = worker[w].key, worker' = [worker EXCEPT ![w] = s],
           \A kind \in Kinds : q'[kind].processing = q[kind].processing
    PROVE  WorkInv' /\ \A v \in Workers : worker'[v].key = worker[v].key
<1>1. /\ worker' \in [Workers -> WorkerStates]
      /\ worker'[w] = s /\ \A v \in Workers \ {w} : worker'[v] = worker[v]
  BY DEF WorkInv, WorkersInv, WorkerOK
<1>2. \A v \in Workers : worker'[v].key = worker[v].key
  BY <1>1
<1>3. \A v \in Workers : WorkerOK(v, worker[v])'
  BY <1>1 DEF WorkInv, WorkersInv, WorkerOK
<1>4. WorkersInv'
  BY <1>1, <1>2, <1>3 DEF WorkInv, WorkersInv
<1>5. HeldInv'
  BY <1>2, KeysFacts DEF WorkInv, HeldInv
<1>. QED BY <1>2, <1>4, <1>5 DEF WorkInv

\* No queue and no worker changes.
LEMMA WorkSame == ASSUME WorkInv, UNCHANGED <<q, worker>> PROVE WorkInv'
  BY DEF WorkInv, QueuesInv, WorkersInv, HeldInv, WorkerOK

LEMMA WorkInit == NoProcess => WorkInv /\ ServeInv
<1>. SUFFICES ASSUME NoProcess PROVE WorkInv /\ ServeInv
  OBVIOUS
<1>1. QueuesInv
  BY EmptySound DEF NoProcess, QueuesInv
<1>2. \A w \in Workers : worker[w] = At("none")
  BY DEF NoProcess
<1>3. At("none") \in WorkerStates
  BY DEF At, WorkerStates, WorkerPcs
<1>4. WorkersInv
  BY <1>2, <1>3 DEF NoProcess, WorkersInv, WorkerOK, At
<1>5. HeldInv
  BY <1>2, KeysFacts DEF NoProcess, HeldInv, At, EmptyQueue
<1>6. \A w \in Workers : worker[w].pc = "none"
  BY <1>2 DEF At
<1>7. ServeInv
  BY <1>2, <1>6 DEF ServeInv
<1>. QED BY <1>1, <1>4, <1>5, <1>7 DEF WorkInv

LEMMA GoneIsNoProcess == Gone => NoProcess'
  BY DEF Gone, NoProcess

LEMMA WorkProcess == ASSUME WorkInv, ServeInv, ProcessNext PROVE WorkInv' /\ ServeInv'
<1>1. CASE NewController \/ Run \/ Signal
        \/ StartFactory(KubeInformers) \/ StartFactory(SvInformers)
  <2>1. UNCHANGED <<q, worker, synced>>
    BY <1>1 DEF NewController, Run, Signal, StartFactory
  <2>2. main' \in {"gone", "new", "waiting"} => main \in {"gone", "new", "waiting"}
    BY <1>1 DEF NewController, Run, Signal, StartFactory
  <2>. QED BY <2>1, <2>2, WorkSame DEF ServeInv
<1>2. CASE StartWorkers
  <2>1. /\ UNCHANGED <<q, synced>> /\ main' = "serving" /\ Awaited \subseteq synced
        /\ worker' = [w \in Workers |-> At("idle")]
        /\ \A w \in Workers : worker[w] = At("none")
    BY <1>2 DEF StartWorkers, ServeInv
  <2>2. At("idle") \in WorkerStates
    BY DEF At, WorkerStates, WorkerPcs
  <2>3. WorkersInv'
    BY <2>1, <2>2 DEF WorkersInv, WorkerOK, At
  <2>4. \A w \in Workers : worker'[w].key = worker[w].key
    BY <2>1 DEF At
  <2>5. QueuesInv' /\ HeldInv'
    BY <2>1, <2>4 DEF WorkInv, QueuesInv, HeldInv
  <2>6. ServeInv'
    BY <2>1 DEF ServeInv
  <2>. QED BY <2>3, <2>5, <2>6 DEF WorkInv
<1>3. CASE RunReturns
  <2>1. /\ UNCHANGED <<worker, synced>> /\ main' = "returned"
        /\ q' = [kind \in Kinds |-> IF kind = "revert" THEN q[kind] ELSE ShutDown(q[kind])]
    BY <1>3 DEF RunReturns
  <2>2. \A kind \in Kinds : Sound(q'[kind], KeysOf[kind])
                            /\ q'[kind].processing = q[kind].processing
    BY <2>1, DownSound DEF WorkInv, QueuesInv, ShutDown
  <2>3. QueuesInv'
    BY <2>1, <2>2 DEF QueuesInv
  <2>4. WorkersInv'
    BY <2>1 DEF WorkInv, WorkersInv, WorkerOK
  <2>5. HeldInv'
    BY <2>1, <2>2, KeysFacts DEF WorkInv, HeldInv
  <2>6. ServeInv'
    BY <2>1 DEF ServeInv
  <2>. QED BY <2>3, <2>4, <2>5, <2>6 DEF WorkInv
<1>4. CASE Exit \/ Crash
  <2>1. NoProcess'
    BY <1>4, GoneIsNoProcess DEF Exit, Crash
  <2>. QED BY <2>1, WorkInit, PTL
<1>5. ASSUME NEW is \in Together, Sync(is) PROVE WorkInv' /\ ServeInv'
  <2>1. UNCHANGED <<q, worker, main>> /\ synced \subseteq synced'
    BY <1>5 DEF Sync
  <2>. QED BY <2>1, WorkSame DEF ServeInv
<1>. QED BY <1>1, <1>2, <1>3, <1>4, <1>5 DEF ProcessNext

LEMMA WorkKey ==
    ASSUME WorkInv, ServeInv, NEW k \in Keys, KeyNext(k)
    PROVE  WorkInv' /\ ServeInv'
<1>. DEFINE kind == KindOf(k)
<1>1. kind \in Kinds /\ k \in KeysOf[kind] /\ Sound(q[kind], KeysOf[kind])
  BY KeysFacts DEF WorkInv, QueuesInv
<1>. HIDE DEF kind
\* A step that changes the queue of the key only, and not what is processed.
<1>2. ASSUME NEW o, Sound(o, KeysOf[kind]), o.processing = q[kind].processing,
             q' = [q EXCEPT ![kind] = o], UNCHANGED <<worker, main, synced>>
      PROVE  WorkInv' /\ ServeInv'
  <2>1. QueuesInv' /\ \A x \in Kinds : q'[x].processing = q[x].processing
    BY <1>1, <1>2, QueueAt DEF WorkInv
  <2>2. WorkersInv'
    BY <1>2 DEF WorkInv, WorkersInv, WorkerOK
  <2>3. HeldInv'
    BY <1>2, <2>1, KeysFacts DEF WorkInv, HeldInv
  <2>. QED BY <1>2, <2>1, <2>2, <2>3 DEF WorkInv, ServeInv
<1>3. CASE Update(k) \/ Remove(k) \/ Watch(k) \/ Resync(k) \/ HandleDelete(k)
  <2>1. UNCHANGED <<q, worker, main, synced>>
    BY <1>3 DEF Update, Remove, Watch, Resync, HandleDelete, processVars
  <2>. QED BY <2>1, WorkSame DEF ServeInv
<1>4. CASE HandleChange(k)
  <2>1. UNCHANGED <<worker, main, synced>>
    BY <1>4 DEF HandleChange, processVars
  <2>2. CASE UNCHANGED q
    BY <2>1, <2>2, WorkSame DEF ServeInv
  <2>3. CASE q' = [q EXCEPT ![kind] = Add(@, k)]
    <3>1. q' = [q EXCEPT ![kind] = Add(q[kind], k)]
      BY <1>1, <2>3 DEF WorkInv, QueuesInv
    <3>2. /\ Sound(Add(q[kind], k), KeysOf[kind])
          /\ Add(q[kind], k).processing = q[kind].processing
      BY <1>1, AddSound
    <3>. QED BY <1>2, <2>1, <3>1, <3>2
  <2>. QED BY <1>4, <2>2, <2>3 DEF HandleChange, Enqueue, kind
<1>5. CASE RemoveMutex(k)
  <2>1. /\ UNCHANGED <<q, main, synced>>
        /\ worker' = [w \in Workers |->
                         IF worker[w].key = k THEN [worker[w] EXCEPT !.mine = FALSE] ELSE worker[w]]
    BY <1>5 DEF RemoveMutex, processVars
  <2>2. \A w \in Workers : /\ worker'[w].key = worker[w].key /\ worker'[w].pc = worker[w].pc
                           /\ WorkerOK(w, worker'[w])
                           /\ worker[w].key # k => worker'[w] = worker[w]
    BY <2>1 DEF WorkInv, WorkersInv, WorkerOK, WorkerStates
  <2>3. WorkersInv'
    <3>1. worker' \in [Workers -> WorkerStates]
      BY <2>1, <2>2 DEF WorkerOK
    <3>2. \A w \in Workers : WorkerOK(w, worker[w])'
      BY <2>2 DEF WorkerOK
    <3>. QED BY <2>2, <3>1, <3>2 DEF WorkInv, WorkersInv
  <2>4. QueuesInv' /\ HeldInv'
    BY <2>1, <2>2 DEF WorkInv, QueuesInv, HeldInv
  <2>5. \A w \in Workers : worker[w] = At("none") => worker'[w] = At("none")
    BY <2>2, KeysFacts DEF At
  <2>. QED BY <2>1, <2>2, <2>3, <2>4, <2>5 DEF WorkInv, ServeInv
<1>6. CASE Retry(k)
  <2>1. ~q[kind].down /\ q' = [q EXCEPT ![kind] = Ripen(q[kind], k)]
    BY <1>1, <1>6 DEF Retry, CanRipen, kind
  <2>2. /\ Sound(Ripen(q[kind], k), KeysOf[kind])
        /\ Ripen(q[kind], k).processing = q[kind].processing
    BY <1>1, <2>1, RipenSound
  <2>. QED BY <1>2, <1>6, <2>1, <2>2 DEF Retry, processVars
<1>. QED BY <1>3, <1>4, <1>5, <1>6 DEF KeyNext

LEMMA WorkWorker ==
    ASSUME RestInv, WorkInv, ServeInv, NEW w \in Workers, WorkerNext(w)
    PROVE  WorkInv' /\ ServeInv'
<1>. DEFINE kind == Queue(w)
            k == worker[w].key
<1>1. kind \in Kinds /\ WorkerOK(w, worker[w]) /\ Sound(q[kind], KeysOf[kind])
  BY KeysFacts DEF WorkInv, QueuesInv, WorkersInv
<1>2. \A v \in Workers \ {w} : worker'[v] = worker[v]
  BY DEF WorkInv, WorkersInv, WorkerNext, Get, Leave, Read, Lock, Succeed, Fail, Finish, Goto
<1>3. UNCHANGED <<main, synced>>
  BY DEF WorkerNext, Get, Leave, Read, Lock, Succeed, Fail, Finish, processVars
<1>4. main \notin {"gone", "new", "waiting"} /\ Awaited \subseteq synced
  <2>1. worker[w].pc # "none"
    BY DEF WorkerNext, Get, Leave, Read, Lock, Succeed, Fail, Finish
  <2>2. worker[w] # At("none")
    BY <2>1 DEF At
  <2>. QED BY <2>1, <2>2 DEF ServeInv
<1>5. ServeInv'
  BY <1>3, <1>4 DEF ServeInv
<1>. HIDE DEF kind, k
<1>6. CASE Get(w)
  <2>. DEFINE h == Head(q[kind].queue)
              o == Take(q[kind])
  <2>1. /\ k = NoKey /\ q[kind].queue # <<>> /\ q' = [q EXCEPT ![kind] = o]
        /\ worker' = [worker EXCEPT ![w] = [pc |-> "got", key |-> h, saw |-> 0, mine |-> FALSE]]
    BY <1>1, <1>6 DEF Get, Goto, WorkerOK, kind, k
  <2>2. /\ h \in KeysOf[kind] /\ h \notin q[kind].processing /\ Sound(o, KeysOf[kind])
        /\ o.processing = q[kind].processing \cup {h}
    BY <1>1, <2>1, TakeSound
  <2>. HIDE DEF h, o
  <2>3. h \in Keys /\ KindOf(h) = kind /\ h # NoKey
    BY <1>1, <2>2, KeysFacts
  <2>4. QueuesInv' /\ q'[kind] = o /\ \A x \in Kinds \ {kind} : q'[x] = q[x]
    BY <1>1, <2>1, <2>2, QueueAt DEF WorkInv
  <2>5. \A v \in Workers : worker[v].key # h
    BY <2>2, <2>3 DEF WorkInv, HeldInv
  <2>6. /\ worker' \in [Workers -> WorkerStates] /\ worker'[w].key = h
        /\ WorkerOK(w, worker'[w])
    <3>1. [pc |-> "got", key |-> h, saw |-> 0, mine |-> FALSE] \in WorkerStates
      BY <2>3 DEF WorkerStates, WorkerPcs
    <3>. QED BY <2>1, <2>2, <2>3, <3>1 DEF WorkInv, WorkersInv, WorkerOK, kind
  <2>7. WorkersInv'
    BY <1>2, <2>5, <2>6 DEF WorkInv, WorkersInv, WorkerOK
  <2>8. HeldInv'
    <3>. SUFFICES ASSUME NEW l \in Keys
                  PROVE  l \in q'[KindOf(l)].processing <=> \E v \in Workers : worker'[v].key = l
      BY DEF HeldInv
    <3>1. l \in q[KindOf(l)].processing <=> \E v \in Workers : worker[v].key = l
      BY DEF WorkInv, HeldInv
    <3>2. l \in q'[KindOf(l)].processing <=> l = h \/ l \in q[KindOf(l)].processing
      BY <2>2, <2>3, <2>4, KeysFacts
    <3>3. (\E v \in Workers : worker'[v].key = l)
            <=> l = h \/ \E v \in Workers : worker[v].key = l
      <4>1. worker[w].key \notin Keys
        BY <2>1, KeysFacts DEF k
      <4>. QED BY <1>2, <2>6, <4>1
    <3>. QED BY <3>1, <3>2, <3>3
  <2>. QED BY <1>5, <2>4, <2>7, <2>8 DEF WorkInv
<1>7. CASE Leave(w) \/ Read(w) \/ Lock(w) \/ Succeed(w)
  <2>1. PICK s : worker' = [worker EXCEPT ![w] = s] /\ WorkerOK(w, s) /\ s.key = worker[w].key
    <3>1. CASE Leave(w)
      <4>1. worker' = [worker EXCEPT ![w] = At("none")] /\ worker[w].key = NoKey
        BY <1>1, <3>1 DEF Leave, Goto, WorkerOK
      <4>2. WorkerOK(w, At("none")) /\ At("none").key = NoKey
        BY DEF WorkerOK, At, WorkerStates, WorkerPcs
      <4>. QED BY <4>1, <4>2
    <3>2. CASE Read(w)
      <4>. DEFINE t(pc, saw) == [worker[w] EXCEPT !.pc = pc, !.saw = saw]
      <4>1. worker[w].key \in Keys /\ worker[w].key # NoKey
        BY <1>1, <3>2, KeysFacts DEF Read, WorkerOK
      <4>2. cobj[worker[w].key].ver \in Nat
        BY <4>1 DEF RestInv, Objects
      <4>3. \E pc \in {"done", "attempt", "lock"} :
              /\ pc = "lock" => worker[w].key \in Runs
              /\ worker' = [worker EXCEPT ![w] = t(pc, cobj[worker[w].key].ver)]
        BY <3>2 DEF Read, Goto
      <4>4. ~worker[w].mine
        BY <1>1, <3>2 DEF Read, WorkerOK
      <4>5. ASSUME NEW pc \in {"done", "attempt", "lock"}, pc = "lock" => worker[w].key \in Runs
            PROVE  /\ WorkerOK(w, t(pc, cobj[worker[w].key].ver))
                   /\ t(pc, cobj[worker[w].key].ver).key = worker[w].key
        BY <1>1, <4>1, <4>2, <4>4, <4>5 DEF WorkerOK, WorkerStates, WorkerPcs
      <4>. HIDE DEF t
      <4>. QED BY <4>3, <4>5
    <3>3. CASE Lock(w)
      <4>. DEFINE t == [worker[w] EXCEPT !.pc = "attempt", !.mine = TRUE]
      <4>1. worker' = [worker EXCEPT ![w] = t]
        BY <3>3 DEF Lock, Goto
      <4>2. WorkerOK(w, t) /\ t.key = worker[w].key
        BY <1>1, <3>3 DEF Lock, WorkerOK, WorkerStates, WorkerPcs
      <4>. HIDE DEF t
      <4>. QED BY <4>1, <4>2
    <3>4. CASE Succeed(w)
      <4>. DEFINE t == [worker[w] EXCEPT !.pc = "done", !.mine = FALSE]
      <4>1. worker' = [worker EXCEPT ![w] = t]
        BY <3>4 DEF Succeed, Goto
      <4>2. WorkerOK(w, t) /\ t.key = worker[w].key
        BY <1>1, <3>4 DEF Succeed, WorkerOK, WorkerStates, WorkerPcs
      <4>. HIDE DEF t
      <4>. QED BY <4>1, <4>2
    <3>. QED BY <1>7, <3>1, <3>2, <3>3, <3>4
  <2>2. UNCHANGED q
    BY <1>7 DEF Leave, Read, Lock, Succeed
  <2>3. QueuesInv'
    BY <2>2 DEF WorkInv, QueuesInv
  <2>. QED BY <1>5, <2>1, <2>2, <2>3, Relabel
<1>8. CASE Fail(w)
  <2>1. /\ q' = [q EXCEPT ![kind] = AddRateLimited(q[kind], k)] /\ worker[w].pc = "attempt"
        /\ worker' = [worker EXCEPT ![w] = [worker[w] EXCEPT !.pc = "done", !.mine = FALSE]]
    BY <1>1, <1>8 DEF Fail, Goto, kind, k
  <2>2. k \in KeysOf[kind]
    BY <1>1, <2>1 DEF WorkerOK, kind, k
  <2>3. /\ Sound(AddRateLimited(q[kind], k), KeysOf[kind])
        /\ AddRateLimited(q[kind], k).processing = q[kind].processing
    BY <1>1, <2>2, LaterSound
  <2>4. QueuesInv' /\ \A x \in Kinds : q'[x].processing = q[x].processing
    BY <1>1, <2>1, <2>3, QueueAt DEF WorkInv
  <2>5. PICK s : s = [worker[w] EXCEPT !.pc = "done", !.mine = FALSE]
    OBVIOUS
  <2>6. WorkerOK(w, s) /\ s.key = worker[w].key
    BY <1>1, <2>1, <2>5 DEF WorkerOK, WorkerStates, WorkerPcs
  <2>. QED BY <1>5, <2>1, <2>4, <2>5, <2>6, Relabel
<1>9. CASE Finish(w)
  <2>1. /\ q' = [q EXCEPT ![kind] = Done(q[kind], k)] /\ worker[w].pc = "done"
        /\ worker' = [worker EXCEPT ![w] = At("idle")]
    BY <1>1, <1>9 DEF Finish, Goto, kind, k
  <2>2. k \in KeysOf[kind] /\ k \in Keys /\ KindOf(k) = kind /\ k # NoKey
    BY <1>1, <2>1, KeysFacts DEF WorkerOK, kind, k
  <2>3. k \in q[kind].processing
    BY <2>2 DEF WorkInv, HeldInv, k
  <2>4. /\ Sound(Done(q[kind], k), KeysOf[kind])
        /\ Done(q[kind], k).processing = q[kind].processing \ {k}
    BY <1>1, <2>2, <2>3, DoneSound
  <2>5. /\ QueuesInv' /\ q'[kind].processing = q[kind].processing \ {k}
        /\ \A x \in Kinds \ {kind} : q'[x] = q[x]
    BY <1>1, <2>1, <2>4, QueueAt DEF WorkInv
  <2>6. /\ worker' \in [Workers -> WorkerStates] /\ worker'[w].key = NoKey
        /\ WorkerOK(w, worker'[w])
    BY <2>1 DEF WorkInv, WorkersInv, WorkerOK, At, WorkerStates, WorkerPcs
  <2>7. WorkersInv'
    BY <1>2, <2>6 DEF WorkInv, WorkersInv, WorkerOK
  <2>8. HeldInv'
    <3>. SUFFICES ASSUME NEW l \in Keys
                  PROVE  l \in q'[KindOf(l)].processing <=> \E v \in Workers : worker'[v].key = l
      BY DEF HeldInv
    <3>1. l \in q[KindOf(l)].processing <=> \E v \in Workers : worker[v].key = l
      BY DEF WorkInv, HeldInv
    <3>2. l \in q'[KindOf(l)].processing <=> l # k /\ l \in q[KindOf(l)].processing
      BY <2>2, <2>5, KeysFacts
    <3>3. (\E v \in Workers : worker'[v].key = l)
            <=> l # k /\ \E v \in Workers : worker[v].key = l
      <4>1. \A v \in Workers \ {w} : worker[v].key # k
        BY <2>2 DEF WorkInv, WorkersInv, k
      <4>2. l # NoKey
        BY KeysFacts
      <4>. QED BY <1>2, <2>6, <4>1, <4>2 DEF k
    <3>. QED BY <3>1, <3>2, <3>3
  <2>. QED BY <1>5, <2>5, <2>7, <2>8 DEF WorkInv
<1>. QED BY <1>6, <1>7, <1>8, <1>9 DEF WorkerNext

LEMMA InvInit == Init => Inv
  BY RestInit, WorkInit DEF Init, Inv

LEMMA InvStep == ASSUME Inv, [Next]_vars PROVE Inv'
<1>1. CASE UNCHANGED vars
  <2>1. RestInv' /\ ServeInv'
    BY <1>1 DEF Inv, RestInv, ServeInv, vars, processVars, cacheVars, mutexVars
  <2>. QED BY <1>1, <2>1, WorkSame DEF Inv, vars
<1>2. CASE Next
  <2>1. RestInv'
    BY <1>2, RestStep DEF Inv, WorkInv
  <2>2. WorkInv' /\ ServeInv'
    BY <1>2, WorkProcess, WorkKey, WorkWorker DEF Inv, Next
  <2>. QED BY <2>1, <2>2 DEF Inv
<1>. QED BY <1>1, <1>2

LEMMA InvCorrect == Spec => []Inv
  BY InvInit, InvStep, PTL DEF Spec

----------------------------------------------------------------------------
(* Types, exclusion, and what a worker may take for granted *)

\* Every variable keeps its type: above all, a key is only ever in the queue of
\* its kind and with a worker of that queue.
THEOREM TypeCorrect == Spec => []TypeOK
  BY InvCorrect, InvTypes, PTL

\* The reconcilers never run twice at once for one object, with any number of
\* workers, whatever handlers, retries, shutdowns and restarts do in between.
THEOREM OneAtATime == Spec => []OneWorkerPerKey
<1>1. Inv => OneWorkerPerKey
  BY KeysFacts DEF Inv, WorkInv, WorkersInv, OneWorkerPerKey, Busy
<1>. QED BY <1>1, InvCorrect, PTL

\* The mutex of a run is never waited for, also not after its removal from the
\* map while a worker held it.
THEOREM MutexFree == Spec => []NeverContended
<1>1. Inv => NeverContended
  <2>. SUFFICES ASSUME Inv, NEW w \in Workers, worker[w].pc = "lock"
                PROVE  /\ Free(worker[w].key)
                       /\ \A v \in Workers \ {w} : worker[v].key # worker[w].key
    BY DEF NeverContended
  <2>1. WorkerOK(w, worker[w])
    BY DEF Inv, WorkInv, WorkersInv
  <2>2. worker[w].key # NoKey /\ ~worker[w].mine
    BY <2>1 DEF WorkerOK
  <2>3. \A v \in Workers \ {w} : worker[v].key # worker[w].key
    BY <2>2 DEF Inv, WorkInv, WorkersInv
  <2>. QED BY <2>2, <2>3 DEF Free
<1>. QED BY <1>1, InvCorrect, PTL

\* No attempt takes a list for complete before the cache it is from has synced.
THEOREM ListsCorrect == Spec => []ListsSynced
<1>1. Inv => ListsSynced
  BY KeysFacts DEF Inv, ServeInv, ListsSynced, Listed, Awaited, InformerOf, Kinds
<1>. QED BY <1>1, InvCorrect, PTL

----------------------------------------------------------------------------
(* Nobody goes back to an older version *)

LEMMA VersionStep == ASSUME Inv, VersionInv, Next PROVE VersionInv'
<1>. USE DEF VersionInv
<1>1. /\ obj \in [Keys -> Objects] /\ cobj \in [Keys -> Objects] /\ handled \in [Keys -> Nat]
      /\ \A k \in Keys : obj[k].ver \in Nat /\ cobj[k].ver \in Nat /\ handled[k] \in Nat
  BY DEF Inv, RestInv, Objects
<1>2. \A w \in Workers : worker[w].pc \in {"got", "lock", "attempt"} => worker[w].key \in Keys
  BY KeysFacts DEF Inv, WorkInv, WorkersInv, WorkerOK
<1>3. worker \in [Workers -> WorkerStates]
  BY DEF Inv, WorkInv, WorkersInv
<1>4. CASE ProcessNext
  <2>1. CASE Exit \/ Crash
    BY <1>1, <2>1 DEF Exit, Crash, Gone, At, Absent
  <2>2. CASE StartWorkers
    BY <2>2 DEF StartWorkers, cacheVars, At
  <2>3. ASSUME NEW is \in Together, Sync(is) PROVE VersionInv'
    <3>1. /\ UNCHANGED <<obj, handled, worker>> /\ cobj' \in [Keys -> Objects]
          /\ \A k \in Keys : cobj'[k] \in {obj[k], cobj[k]}
      BY <1>1, <2>3 DEF Sync
    <3>2. \A k \in Keys : cobj[k].ver <= cobj'[k].ver /\ cobj'[k].ver <= obj[k].ver
      BY <1>1, <3>1
    <3>3. \A k \in Keys : cobj'[k].ver \in Nat
      BY <3>1 DEF Objects
    <3>4. \A w \in Workers : worker[w].saw \in Nat
      BY <1>3 DEF WorkerStates
    <3>. QED BY <1>1, <1>2, <3>1, <3>2, <3>3, <3>4
  <2>4. CASE NewController \/ Run \/ Signal \/ RunReturns
               \/ StartFactory(KubeInformers) \/ StartFactory(SvInformers)
    BY <2>4 DEF NewController, Run, Signal, RunReturns, StartFactory, cacheVars
  <2>. QED BY <1>4, <2>1, <2>2, <2>3, <2>4 DEF ProcessNext
<1>5. ASSUME NEW k \in Keys, KeyNext(k) PROVE VersionInv'
  <2>1. CASE Update(k) \/ Remove(k)
    <3>1. /\ UNCHANGED <<cobj, handled, worker>>
          /\ \E b \in BOOLEAN : obj' = [obj EXCEPT ![k] = [here |-> b, ver |-> obj[k].ver + 1]]
      BY <2>1 DEF Update, Remove, cacheVars
    <3>2. \A l \in Keys : obj[l].ver <= obj'[l].ver /\ obj'[l].ver \in Nat
      BY <1>1, <3>1
    <3>. QED BY <1>1, <3>1, <3>2
  <2>2. CASE Watch(k)
    <3>1. /\ UNCHANGED <<obj, handled, worker>> /\ cobj' = [cobj EXCEPT ![k] = obj[k]]
      BY <2>2 DEF Watch
    <3>2. \A l \in Keys : /\ cobj[l].ver <= cobj'[l].ver /\ cobj'[l].ver <= obj[l].ver
                          /\ cobj'[l].ver \in Nat
      BY <1>1, <3>1
    <3>3. \A w \in Workers : worker[w].saw \in Nat
      BY <1>3 DEF WorkerStates
    <3>. QED BY <1>1, <1>2, <3>1, <3>2, <3>3
  <2>3. CASE Resync(k) \/ HandleChange(k) \/ HandleDelete(k) \/ Retry(k)
    BY <2>3 DEF Resync, HandleChange, HandleDelete, Retry, cacheVars
  <2>4. CASE RemoveMutex(k)
    <3>1. /\ UNCHANGED <<obj, cobj, handled>>
          /\ \A w \in Workers : /\ worker'[w].pc = worker[w].pc /\ worker'[w].key = worker[w].key
                               /\ worker'[w].saw = worker[w].saw
      BY <1>3, <2>4 DEF RemoveMutex, cacheVars, WorkerStates
    <3>. QED BY <3>1
  <2>. QED BY <1>5, <2>1, <2>2, <2>3, <2>4 DEF KeyNext
<1>6. ASSUME NEW w \in Workers, WorkerNext(w) PROVE VersionInv'
  <2>1. UNCHANGED <<obj, cobj>> /\ \A v \in Workers \ {w} : worker'[v] = worker[v]
    BY <1>3, <1>6 DEF WorkerNext, Get, Leave, Read, Lock, Succeed, Fail, Finish, Goto, cacheVars
  <2>2. CASE Get(w) \/ Leave(w) \/ Finish(w) \/ Fail(w)
    <3>1. UNCHANGED handled
      BY <2>2 DEF Get, Leave, Finish, Fail
    <3>2. \E s : /\ worker' = [worker EXCEPT ![w] = s]
                 /\ s.pc \notin {"lock", "attempt"}
      <4>1. CASE Get(w)
        <5>1. PICK h : worker' = [worker EXCEPT
                         ![w] = [pc |-> "got", key |-> h, saw |-> 0, mine |-> FALSE]]
          BY <4>1 DEF Get, Goto
        <5>2. PICK s : s = [pc |-> "got", key |-> h, saw |-> 0, mine |-> FALSE]
          OBVIOUS
        <5>3. worker' = [worker EXCEPT ![w] = s]
          BY <5>1, <5>2
        <5>4. s.pc = "got"
          BY <5>2
        <5>. QED BY <5>3, <5>4
      <4>2. CASE Leave(w) \/ Finish(w)
        BY <4>2 DEF Leave, Finish, Goto, At
      <4>3. CASE Fail(w)
        <5>1. worker' = [worker EXCEPT ![w] = [worker[w] EXCEPT !.pc = "done", !.mine = FALSE]]
          BY <4>3 DEF Fail, Goto
        <5>2. worker[w] \in WorkerStates
          BY <1>3
        <5>3. [worker[w] EXCEPT !.pc = "done", !.mine = FALSE].pc = "done"
          BY <5>2 DEF WorkerStates
        <5>. QED BY <5>1, <5>3
      <4>. QED BY <2>2, <4>1, <4>2, <4>3
    <3>3. worker'[w].pc \notin {"lock", "attempt"}
      BY <1>3, <3>2
    <3>. QED BY <2>1, <3>1, <3>3
  <2>3. CASE Read(w)
    <3>1. UNCHANGED handled /\ worker[w].key \in Keys
      BY <1>2, <2>3 DEF Read
    <3>2. PICK pc : worker' = [worker EXCEPT ![w] = [worker[w] EXCEPT
                                 !.pc = pc, !.saw = cobj[worker[w].key].ver]]
      BY <2>3 DEF Read, Goto
    <3>3. /\ worker'[w].key = worker[w].key
          /\ worker'[w].saw = cobj[worker[w].key].ver
      BY <1>3, <3>2 DEF WorkerStates
    <3>. QED BY <1>1, <2>1, <3>1, <3>3
  <2>4. CASE Lock(w)
    <3>1. /\ UNCHANGED handled /\ worker'[w].key = worker[w].key
          /\ worker'[w].saw = worker[w].saw /\ worker[w].pc = "lock"
      BY <1>3, <2>4 DEF Lock, Goto, WorkerStates
    <3>. QED BY <2>1, <3>1
  <2>5. CASE Succeed(w)
    <3>. DEFINE k == worker[w].key
    <3>1. /\ handled' = [handled EXCEPT ![k] = worker[w].saw] /\ k \in Keys
          /\ worker'[w].pc = "done" /\ worker[w].pc = "attempt"
      BY <1>2, <1>3, <2>5 DEF Succeed, Goto, WorkerStates
    <3>2. \A v \in Workers \ {w} : worker[v].key # k
      BY <3>1, KeysFacts DEF Inv, WorkInv, WorkersInv
    <3>. QED BY <1>1, <2>1, <3>1, <3>2
  <2>. QED BY <1>6, <2>2, <2>3, <2>4, <2>5 DEF WorkerNext
<1>. QED BY <1>4, <1>5, <1>6 DEF Next

LEMMA VersionCorrect == Spec => []VersionInv
<1>1. ASSUME Init PROVE VersionInv
  <2>1. \A w \in Workers : worker[w].pc = "none"
    BY <1>1 DEF Init, NoProcess, At
  <2>2. \A k \in Keys : handled[k] = 0 /\ cobj[k].ver = 0 /\ obj[k].ver \in {0, 1}
    BY <1>1 DEF Init, NoProcess, Absent
  <2>. QED BY <2>1, <2>2 DEF VersionInv
<1>2. ASSUME Inv, VersionInv, [Next]_vars PROVE VersionInv'
  <2>1. CASE UNCHANGED vars
    <3>1. UNCHANGED <<obj, cobj, handled, worker>>
      BY <2>1 DEF vars, cacheVars
    <3>. QED BY <1>2, <3>1 DEF VersionInv
  <2>. QED BY <1>2, <2>1, VersionStep
<1>. QED BY <1>1, <1>2, InvCorrect, PTL DEF Spec

----------------------------------------------------------------------------
(* What is marked *)

LEMMA MarkedIs ==
    \A k \in Keys : k \in Marked <=> k \in q[KindOf(k)].dirty \cup q[KindOf(k)].later
  BY DEF Marked

LEMMA WaitingIsMarked == ASSUME WorkInv, NEW k \in Keys PROVE Waiting(k) <=> k \in Marked
<1>1. Queued(q[KindOf(k)], k) <=> k \in q[KindOf(k)].dirty \ q[KindOf(k)].processing
  BY KeysFacts DEF WorkInv, QueuesInv, Sound
<1>. QED BY <1>1, MarkedIs DEF Waiting

\* One queue changes.
LEMMA MarkedAt ==
    ASSUME WorkInv, NEW kind \in Kinds, NEW o, q' = [q EXCEPT ![kind] = o],
           o.down = q[kind].down
    PROVE  /\ \A l \in Keys : KindOf(l) = kind => (l \in Marked' <=> l \in o.dirty \cup o.later)
           /\ \A l \in Keys : KindOf(l) # kind => (l \in Marked' <=> l \in Marked)
           /\ \A other \in Kinds : q'[other].down = q[other].down
<1>1. q' = [x \in Kinds |-> IF x = kind THEN o ELSE q[x]]
  BY DEF WorkInv, QueuesInv
<1>2. q'[kind] = o /\ \A x \in Kinds \ {kind} : q'[x] = q[x]
  BY <1>1
<1>. QED BY <1>2, KeysFacts DEF Marked

LEMMA MarksChange ==
    ASSUME WorkInv, NEW k \in Keys, HandleChange(k)
    PROVE  /\ Marked' \in {Marked, Marked \cup {k}}
           /\ k \in Reverts \cup Runs => q[KindOf(k)].down \/ k \in Marked'
           /\ \A x \in Kinds : q'[x].down = q[x].down
<1>. DEFINE kind == KindOf(k)
            o == Add(q[kind], k)
<1>1. kind \in Kinds /\ k \in KeysOf[kind] /\ Sound(q[kind], KeysOf[kind])
  BY KeysFacts DEF WorkInv, QueuesInv
<1>2. CASE k \in Snaps
  <2>1. UNCHANGED q /\ k \notin Reverts \cup Runs
    BY <1>2, ControllerAssumption DEF HandleChange, Enqueue
  <2>2. Marked' = Marked
    BY <2>1 DEF Marked
  <2>. QED BY <2>1, <2>2
<1>3. CASE k \notin Snaps
  <2>1. q' = [q EXCEPT ![kind] = o]
    BY <1>1, <1>3 DEF HandleChange, Enqueue, WorkInv, QueuesInv
  <2>2. /\ o.later = q[kind].later /\ o.down = q[kind].down
        /\ q[kind].down => o.dirty = q[kind].dirty
        /\ ~q[kind].down => o.dirty = q[kind].dirty \cup {k}
    BY <1>1, AddSound
  <2>. HIDE DEF kind, o
  <2>3. /\ \A l \in Keys : KindOf(l) = kind => (l \in Marked' <=> l \in o.dirty \cup o.later)
        /\ \A l \in Keys : KindOf(l) # kind => (l \in Marked' <=> l \in Marked)
        /\ \A x \in Kinds : q'[x].down = q[x].down
    BY <1>1, <2>1, <2>2, MarkedAt
  <2>4. Marked \subseteq Keys /\ Marked' \subseteq Keys
    BY DEF Marked
  <2>5. CASE q[kind].down
    BY <2>2, <2>3, <2>4, <2>5, MarkedIs DEF kind
  <2>6. CASE ~q[kind].down
    BY <2>2, <2>3, <2>4, <2>6, MarkedIs DEF kind
  <2>. QED BY <2>5, <2>6
<1>. QED BY <1>2, <1>3

LEMMA MarksRetry ==
    ASSUME WorkInv, NEW k \in Keys, Retry(k)
    PROVE  Marked' = Marked /\ \A x \in Kinds : q'[x].down = q[x].down
<1>. DEFINE kind == KindOf(k)
            o == Ripen(q[kind], k)
<1>1. kind \in Kinds /\ k \in KeysOf[kind] /\ Sound(q[kind], KeysOf[kind])
  BY KeysFacts DEF WorkInv, QueuesInv
<1>2. /\ q' = [q EXCEPT ![kind] = o] /\ k \in q[kind].later /\ ~q[kind].down
  BY <1>1 DEF Retry, CanRipen, WorkInv, QueuesInv
<1>3. o.later = q[kind].later \ {k} /\ o.down = q[kind].down /\ o.dirty = q[kind].dirty \cup {k}
  BY <1>1, <1>2, RipenSound
<1>. HIDE DEF kind, o
<1>4. /\ \A l \in Keys : KindOf(l) = kind => (l \in Marked' <=> l \in o.dirty \cup o.later)
      /\ \A l \in Keys : KindOf(l) # kind => (l \in Marked' <=> l \in Marked)
      /\ \A x \in Kinds : q'[x].down = q[x].down
  BY <1>1, <1>2, <1>3, MarkedAt
<1>5. Marked \subseteq Keys /\ Marked' \subseteq Keys
  BY DEF Marked
<1>. QED BY <1>2, <1>3, <1>4, <1>5, MarkedIs DEF kind

LEMMA MarksGet ==
    ASSUME WorkInv, NEW w \in Workers, Get(w)
    PROVE  \E h \in Keys :
             /\ h \in Marked /\ Marked' \in {Marked, Marked \ {h}}
             /\ worker' = [worker EXCEPT ![w] = [pc |-> "got", key |-> h, saw |-> 0, mine |-> FALSE]]
             /\ worker[w].pc = "idle" /\ worker[w].key = NoKey
             /\ \A v \in Workers : worker[v].key # h
             /\ \A x \in Kinds : q'[x].down = q[x].down
<1>. DEFINE kind == Queue(w)
            h == Head(q[kind].queue)
            o == Take(q[kind])
<1>1. kind \in Kinds /\ WorkerOK(w, worker[w]) /\ Sound(q[kind], KeysOf[kind])
  BY KeysFacts DEF WorkInv, QueuesInv, WorkersInv
<1>2. /\ worker[w].pc = "idle" /\ q[kind].queue # <<>> /\ q' = [q EXCEPT ![kind] = o]
      /\ worker' = [worker EXCEPT ![w] = [pc |-> "got", key |-> h, saw |-> 0, mine |-> FALSE]]
  BY <1>1 DEF Get, Goto
<1>3. /\ h \in KeysOf[kind] /\ h \in q[kind].dirty \ q[kind].processing
      /\ o.later = q[kind].later /\ o.down = q[kind].down /\ o.dirty = q[kind].dirty \ {h}
  BY <1>1, <1>2, TakeSound
<1>4. worker[w].key = NoKey
  BY <1>1, <1>2 DEF WorkerOK
<1>. HIDE DEF kind, h, o
<1>5. h \in Keys /\ KindOf(h) = kind
  BY <1>1, <1>3, KeysFacts
<1>6. \A v \in Workers : worker[v].key # h
  BY <1>3, <1>5 DEF WorkInv, HeldInv
<1>7. /\ \A l \in Keys : KindOf(l) = kind => (l \in Marked' <=> l \in o.dirty \cup o.later)
      /\ \A l \in Keys : KindOf(l) # kind => (l \in Marked' <=> l \in Marked)
      /\ \A x \in Kinds : q'[x].down = q[x].down
  BY <1>1, <1>2, <1>3, MarkedAt
<1>8. Marked \subseteq Keys /\ Marked' \subseteq Keys
  BY DEF Marked
<1>9. h \in Marked
  BY <1>3, <1>5, MarkedIs
<1>10. Marked' \in {Marked, Marked \ {h}}
  <2>1. CASE h \in q[kind].later
    BY <1>3, <1>5, <1>7, <1>8, <2>1, MarkedIs
  <2>2. CASE h \notin q[kind].later
    BY <1>3, <1>5, <1>7, <1>8, <2>2, MarkedIs
  <2>. QED BY <2>1, <2>2
<1>. QED BY <1>2, <1>4, <1>5, <1>6, <1>7, <1>9, <1>10

LEMMA MarksFail ==
    ASSUME WorkInv, NEW w \in Workers, Fail(w)
    PROVE  LET k == worker[w].key IN
           /\ k \in Keys /\ Marked' \in {Marked, Marked \cup {k}}
           /\ q[KindOf(k)].down \/ k \in Marked'
           /\ \A x \in Kinds : q'[x].down = q[x].down
<1>. DEFINE kind == Queue(w)
            k == worker[w].key
            o == AddRateLimited(q[kind], k)
<1>1. kind \in Kinds /\ WorkerOK(w, worker[w]) /\ Sound(q[kind], KeysOf[kind])
  BY KeysFacts DEF WorkInv, QueuesInv, WorkersInv
<1>2. q' = [q EXCEPT ![kind] = o] /\ worker[w].pc = "attempt"
  BY <1>1 DEF Fail
<1>3. k \in KeysOf[kind]
  BY <1>1, <1>2 DEF WorkerOK
<1>4. /\ o.dirty = q[kind].dirty /\ o.down = q[kind].down
      /\ q[kind].down => o.later = q[kind].later
      /\ ~q[kind].down => o.later = q[kind].later \cup {k}
  BY <1>1, <1>3, LaterSound
<1>. HIDE DEF kind, k, o
<1>5. k \in Keys /\ KindOf(k) = kind
  BY <1>1, <1>3, KeysFacts
<1>6. /\ \A l \in Keys : KindOf(l) = kind => (l \in Marked' <=> l \in o.dirty \cup o.later)
      /\ \A l \in Keys : KindOf(l) # kind => (l \in Marked' <=> l \in Marked)
      /\ \A x \in Kinds : q'[x].down = q[x].down
  BY <1>1, <1>2, <1>4, MarkedAt
<1>7. Marked \subseteq Keys /\ Marked' \subseteq Keys
  BY DEF Marked
<1>8. CASE q[kind].down
  <2>1. Marked' = Marked
    BY <1>4, <1>6, <1>7, <1>8, MarkedIs
  <2>. QED BY <1>5, <1>6, <1>8, <2>1 DEF k
<1>9. CASE ~q[kind].down
  <2>1. Marked' = Marked \cup {k}
    BY <1>4, <1>5, <1>6, <1>7, <1>9, MarkedIs
  <2>. QED BY <1>5, <1>6, <2>1 DEF k
<1>. QED BY <1>8, <1>9

LEMMA MarksFinish ==
    ASSUME WorkInv, NEW w \in Workers, Finish(w)
    PROVE  /\ Marked' = Marked /\ worker[w].key \in Keys
           /\ \A x \in Kinds : q'[x].down = q[x].down
<1>. DEFINE kind == Queue(w)
            k == worker[w].key
            o == Done(q[kind], k)
<1>1. kind \in Kinds /\ WorkerOK(w, worker[w]) /\ Sound(q[kind], KeysOf[kind])
  BY KeysFacts DEF WorkInv, QueuesInv, WorkersInv
<1>2. q' = [q EXCEPT ![kind] = o] /\ worker[w].pc = "done"
  BY <1>1 DEF Finish
<1>3. k \in KeysOf[kind] /\ k \in Keys /\ KindOf(k) = kind
  BY <1>1, <1>2, KeysFacts DEF WorkerOK
<1>4. k \in q[kind].processing
  BY <1>3 DEF WorkInv, HeldInv
<1>5. o.dirty = q[kind].dirty /\ o.down = q[kind].down /\ o.later = q[kind].later
  BY <1>1, <1>3, <1>4, DoneSound
<1>. HIDE DEF kind, o
<1>6. /\ \A l \in Keys : KindOf(l) = kind => (l \in Marked' <=> l \in o.dirty \cup o.later)
      /\ \A l \in Keys : KindOf(l) # kind => (l \in Marked' <=> l \in Marked)
      /\ \A x \in Kinds : q'[x].down = q[x].down
  BY <1>1, <1>2, <1>5, MarkedAt
<1>7. Marked \subseteq Keys /\ Marked' \subseteq Keys
  BY DEF Marked
<1>8. Marked' = Marked
  BY <1>5, <1>6, <1>7, MarkedIs
<1>. QED BY <1>3, <1>6, <1>8

LEMMA MarksReturn ==
    ASSUME WorkInv, RunReturns
    PROVE  Marked' = Marked /\ \A x \in Kinds : q[x].down => q'[x].down
<1>1. q' = [x \in Kinds |-> IF x = "revert" THEN q[x] ELSE ShutDown(q[x])]
  BY DEF RunReturns
<1>2. \A x \in Kinds : /\ q'[x].dirty = q[x].dirty /\ q'[x].later = q[x].later
                       /\ q[x].down => q'[x].down
  <2>1. \A x \in Kinds : q[x] \in QueueRecords(KeysOf[x])
    BY DEF WorkInv, QueuesInv, Sound
  <2>. QED BY <1>1, <2>1 DEF ShutDown, QueueRecords
<1>. QED BY <1>2, KeysFacts DEF Marked

----------------------------------------------------------------------------
(* Nothing is forgotten *)

\* What stands for a version of an object that no attempt has succeeded on.
Kept(k) ==
    \/ "changed" \in notify[k] \/ k \in Marked
    \/ \E w \in Workers : /\ worker[w].key = k
                          /\ \/ worker[w].pc = "got"
                             \/ worker[w].pc \in {"lock", "attempt"} /\ worker[w].saw = cobj[k].ver
Unhandled(k) == cobj[k].here /\ handled[k] # cobj[k].ver /\ ~q[KindOf(k)].down
KeptInv == \A k \in Reverts \cup Runs : Unhandled(k) => Kept(k)

LEMMA KeptIsRemembered == WorkInv => (KeptInv <=> Remembered)
<1>. SUFFICES ASSUME WorkInv PROVE KeptInv <=> Remembered
  OBVIOUS
<1>1. \A k \in Reverts \cup Runs : k \in Keys
  BY DEF Keys
<1>2. \A k \in Reverts \cup Runs : Waiting(k) <=> k \in Marked
  BY <1>1, WaitingIsMarked
<1>. QED BY <1>2 DEF KeptInv, Kept, Unhandled, Remembered, Busy

\* Steps that keep the marks, the shutdowns, the versions and the workers.
LEMMA KeptSame ==
    ASSUME WorkInv, KeptInv, UNCHANGED <<cobj, handled>>,
           \A k \in Keys : "changed" \in notify[k] => "changed" \in notify'[k],
           Marked \subseteq Marked', \A x \in Kinds : q[x].down => q'[x].down,
           \A w \in Workers : worker'[w].key = worker[w].key /\ worker'[w].pc = worker[w].pc
                              /\ worker'[w].saw = worker[w].saw
    PROVE  KeptInv'
<1>. SUFFICES ASSUME NEW k \in Reverts \cup Runs, Unhandled(k)' PROVE Kept(k)'
  BY DEF KeptInv
<1>1. k \in Keys /\ KindOf(k) \in Kinds
  BY KeysFacts DEF Keys
<1>2. Unhandled(k)
  BY <1>1 DEF Unhandled
<1>3. Kept(k)
  BY <1>2 DEF KeptInv
<1>. QED BY <1>1, <1>3 DEF Kept

LEMMA KeptProcess == ASSUME Inv, KeptInv, ProcessNext PROVE KeptInv'
<1>1. WorkInv /\ ServeInv
  BY DEF Inv
<1>2. CASE NewController \/ Run \/ Signal
        \/ StartFactory(KubeInformers) \/ StartFactory(SvInformers)
  <2>1. UNCHANGED <<cobj, notify, handled, q, worker>>
    BY <1>2 DEF NewController, Run, Signal, StartFactory, cacheVars
  <2>2. Marked' = Marked
    BY <2>1 DEF Marked
  <2>. QED BY <1>1, <2>1, <2>2, KeptSame
<1>3. CASE StartWorkers
  <2>1. /\ UNCHANGED <<cobj, notify, handled, q>>
        /\ \A w \in Workers : worker[w].key = NoKey
    BY <1>1, <1>3 DEF StartWorkers, cacheVars, ServeInv, At
  <2>2. Marked' = Marked
    BY <2>1 DEF Marked
  <2>. SUFFICES ASSUME NEW k \in Reverts \cup Runs, Unhandled(k)' PROVE Kept(k)'
    BY DEF KeptInv
  <2>3. Unhandled(k) /\ k # NoKey
    BY <2>1, KeysFacts DEF Unhandled, Keys
  <2>. QED BY <2>1, <2>2, <2>3 DEF KeptInv, Kept
<1>4. CASE RunReturns
  <2>1. UNCHANGED <<cobj, notify, handled, worker>>
    BY <1>4 DEF RunReturns, cacheVars
  <2>. QED BY <1>1, <1>4, <2>1, MarksReturn, KeptSame
<1>5. CASE Exit \/ Crash
  <2>1. cobj' = [k \in Keys |-> Absent]
    BY <1>5 DEF Exit, Crash, Gone
  <2>2. \A k \in Reverts \cup Runs : ~cobj'[k].here
    BY <2>1 DEF Absent, Keys
  <2>. QED BY <2>2 DEF KeptInv, Unhandled
<1>6. ASSUME NEW is \in Together, Sync(is) PROVE KeptInv'
  <2>1. UNCHANGED <<handled, q, worker>>
    BY <1>6 DEF Sync
  <2>2. Marked' = Marked
    BY <2>1 DEF Marked
  <2>. SUFFICES ASSUME NEW k \in Reverts \cup Runs, Unhandled(k)' PROVE Kept(k)'
    BY DEF KeptInv
  <2>3. k \in Keys
    BY DEF Keys
  <2>4. CASE InformerOf[KindOf(k)] \in is
    <3>1. cobj'[k] = obj[k] /\ notify'[k] = notify[k] \cup Events(k)
      BY <1>6, <2>3, <2>4 DEF Sync
    <3>2. "changed" \in Events(k)
      BY <3>1 DEF Unhandled, Events
    <3>. QED BY <3>1, <3>2 DEF Kept
  <2>5. CASE InformerOf[KindOf(k)] \notin is
    <3>1. cobj'[k] = cobj[k] /\ notify'[k] = notify[k]
      BY <1>6, <2>3, <2>5 DEF Sync
    <3>2. Unhandled(k)
      BY <2>1, <3>1 DEF Unhandled
    <3>. QED BY <2>1, <2>2, <3>1, <3>2 DEF Kept, KeptInv
  <2>. QED BY <2>4, <2>5
<1>. QED BY <1>2, <1>3, <1>4, <1>5, <1>6 DEF ProcessNext

LEMMA KeptKey == ASSUME Inv, KeptInv, NEW k \in Keys, KeyNext(k) PROVE KeptInv'
<1>1. WorkInv /\ RestInv /\ notify \in [Keys -> SUBSET {"changed", "deleted"}]
  BY DEF Inv, RestInv
<1>2. CASE Update(k) \/ Remove(k)
  <2>1. UNCHANGED <<cobj, notify, handled, q, worker>>
    BY <1>2 DEF Update, Remove, cacheVars
  <2>2. Marked' = Marked
    BY <2>1 DEF Marked
  <2>. QED BY <1>1, <2>1, <2>2, KeptSame
<1>3. CASE Resync(k) \/ HandleDelete(k)
  <2>1. UNCHANGED <<cobj, handled, q, worker>>
    BY <1>3 DEF Resync, HandleDelete
  <2>2. \A l \in Keys : "changed" \in notify[l] => "changed" \in notify'[l]
    BY <1>1, <1>3 DEF Resync, HandleDelete
  <2>3. Marked' = Marked
    BY <2>1 DEF Marked
  <2>. QED BY <1>1, <2>1, <2>2, <2>3, KeptSame
<1>4. CASE Watch(k)
  <2>1. UNCHANGED <<handled, q, worker>>
    BY <1>4 DEF Watch
  <2>2. Marked' = Marked
    BY <2>1 DEF Marked
  <2>. SUFFICES ASSUME NEW l \in Reverts \cup Runs, Unhandled(l)' PROVE Kept(l)'
    BY DEF KeptInv
  <2>3. l \in Keys
    BY DEF Keys
  <2>4. CASE l = k
    <3>1. cobj'[k] = obj[k] /\ notify'[k] = notify[k] \cup Events(k)
      BY <1>1, <1>4 DEF Watch, RestInv
    <3>2. "changed" \in Events(k)
      BY <2>4, <3>1 DEF Unhandled, Events
    <3>. QED BY <2>4, <3>1, <3>2 DEF Kept
  <2>5. CASE l # k
    <3>1. cobj'[l] = cobj[l] /\ notify'[l] = notify[l]
      BY <1>1, <1>4, <2>3, <2>5 DEF Watch, RestInv
    <3>2. Unhandled(l)
      BY <2>1, <3>1 DEF Unhandled
    <3>. QED BY <2>1, <2>2, <3>1, <3>2 DEF Kept, KeptInv
  <2>. QED BY <2>4, <2>5
<1>5. CASE HandleChange(k)
  <2>1. /\ UNCHANGED <<cobj, handled, worker>>
        /\ \A l \in Keys \ {k} : notify'[l] = notify[l]
    BY <1>1, <1>5 DEF HandleChange
  <2>2. /\ Marked \subseteq Marked'
        /\ k \in Reverts \cup Runs => q[KindOf(k)].down \/ k \in Marked'
        /\ \A x \in Kinds : q'[x].down = q[x].down
    BY <1>1, <1>5, MarksChange
  <2>. SUFFICES ASSUME NEW l \in Reverts \cup Runs, Unhandled(l)' PROVE Kept(l)'
    BY DEF KeptInv
  <2>3. l \in Keys /\ KindOf(l) \in Kinds
    BY KeysFacts DEF Keys
  <2>4. Unhandled(l) /\ ~q[KindOf(l)].down
    BY <2>1, <2>2, <2>3 DEF Unhandled
  <2>5. CASE l = k
    BY <2>2, <2>4, <2>5 DEF Kept
  <2>6. CASE l # k
    BY <2>1, <2>2, <2>3, <2>4, <2>6 DEF Kept, KeptInv
  <2>. QED BY <2>5, <2>6
<1>6. CASE RemoveMutex(k)
  <2>1. /\ UNCHANGED <<cobj, notify, handled, q>>
        /\ \A w \in Workers : worker'[w].key = worker[w].key /\ worker'[w].pc = worker[w].pc
                             /\ worker'[w].saw = worker[w].saw
    BY <1>1, <1>6 DEF RemoveMutex, cacheVars, WorkInv, WorkersInv, WorkerStates
  <2>2. Marked' = Marked
    BY <2>1 DEF Marked
  <2>. QED BY <1>1, <2>1, <2>2, KeptSame
<1>7. CASE Retry(k)
  <2>1. UNCHANGED <<cobj, notify, handled, worker>>
    BY <1>7 DEF Retry, cacheVars
  <2>. QED BY <1>1, <1>7, <2>1, MarksRetry, KeptSame
<1>. QED BY <1>2, <1>3, <1>4, <1>5, <1>6, <1>7 DEF KeyNext

LEMMA KeptWorker ==
    ASSUME Inv, VersionInv, KeptInv, NEW w \in Workers, WorkerNext(w)
    PROVE  KeptInv'
<1>1. /\ WorkInv /\ worker \in [Workers -> WorkerStates] /\ handled \in [Keys -> Nat]
      /\ UNCHANGED <<cobj, notify>> /\ \A v \in Workers \ {w} : worker'[v] = worker[v]
      /\ \A u, v \in Workers : worker[u].key = worker[v].key /\ worker[u].key # NoKey => u = v
  <2>1. UNCHANGED <<cobj, notify>>
    BY DEF WorkerNext, Get, Leave, Read, Lock, Succeed, Fail, Finish, cacheVars
  <2>2. worker \in [Workers -> WorkerStates]
    BY DEF Inv, WorkInv, WorkersInv
  <2>3. \A v \in Workers \ {w} : worker'[v] = worker[v]
    BY <2>2 DEF WorkerNext, Get, Leave, Read, Lock, Succeed, Fail, Finish, Goto
  <2>. QED BY <2>1, <2>2, <2>3 DEF Inv, RestInv, WorkInv, WorkersInv
<1>. SUFFICES ASSUME NEW k \in Reverts \cup Runs, Unhandled(k)' PROVE Kept(k)'
  BY DEF KeptInv
<1>2. k \in Keys /\ KindOf(k) \in Kinds /\ k # NoKey
  BY KeysFacts DEF Keys
\* The worker has another key, or none of the states that count.
<1>3. ASSUME Unhandled(k), Marked \subseteq Marked' \/ k \in Marked' \/ k \notin Marked,
             ~(worker[w].key = k /\ worker[w].pc \in {"got", "lock", "attempt"})
      PROVE  Kept(k)'
  <2>1. Kept(k)
    BY <1>3 DEF KeptInv
  <2>2. CASE "changed" \in notify[k] \/ k \in Marked
    BY <1>1, <1>3, <2>2 DEF Kept
  <2>3. CASE \E v \in Workers : /\ worker[v].key = k
                                /\ \/ worker[v].pc = "got"
                                   \/ worker[v].pc \in {"lock", "attempt"}
                                      /\ worker[v].saw = cobj[k].ver
    <3>1. PICK v \in Workers : /\ worker[v].key = k
                              /\ \/ worker[v].pc = "got"
                                 \/ worker[v].pc \in {"lock", "attempt"}
                                    /\ worker[v].saw = cobj[k].ver
      BY <2>3
    <3>2. v # w
      BY <1>3, <3>1
    <3>. QED BY <1>1, <3>1, <3>2 DEF Kept
  <2>. QED BY <2>1, <2>2, <2>3 DEF Kept
<1>4. CASE Get(w)
  <2>1. PICK h \in Keys :
          /\ h \in Marked /\ Marked' \in {Marked, Marked \ {h}}
          /\ worker' = [worker EXCEPT ![w] = [pc |-> "got", key |-> h, saw |-> 0, mine |-> FALSE]]
          /\ worker[w].pc = "idle" /\ worker[w].key = NoKey
          /\ \A x \in Kinds : q'[x].down = q[x].down
    BY <1>1, <1>4, MarksGet
  <2>2. worker'[w].key = h /\ worker'[w].pc = "got"
    BY <1>1, <2>1
  <2>3. CASE k = h
    BY <2>2, <2>3 DEF Kept
  <2>4. CASE k # h
    <3>1. Unhandled(k)
      BY <1>1, <1>2, <1>4, <2>1 DEF Get, Unhandled
    <3>2. k \in Marked' \/ k \notin Marked
      BY <2>1, <2>4
    <3>. QED BY <1>2, <1>3, <2>1, <3>1, <3>2
  <2>. QED BY <2>3, <2>4
<1>5. CASE Leave(w)
  <2>1. UNCHANGED <<handled, q>> /\ worker[w].pc = "idle"
    BY <1>5 DEF Leave
  <2>2. Marked' = Marked /\ Unhandled(k)
    BY <1>1, <2>1 DEF Marked, Unhandled
  <2>. QED BY <1>3, <2>1, <2>2
<1>6. CASE Read(w)
  <2>1. UNCHANGED <<handled, q>>
    BY <1>6 DEF Read
  <2>2. Marked' = Marked /\ Unhandled(k)
    BY <1>1, <2>1 DEF Marked, Unhandled
  <2>3. CASE worker[w].key = k
    <3>1. PICK pc \in {"lock", "attempt"} : worker' = [worker EXCEPT ![w] = [worker[w] EXCEPT
                                 !.pc = pc, !.saw = cobj[k].ver]]
      BY <1>6, <2>2, <2>3 DEF Read, Goto, Unhandled
    <3>2. /\ worker'[w].key = k /\ worker'[w].saw = cobj[k].ver
          /\ worker'[w].pc \in {"lock", "attempt"}
      BY <1>1, <2>3, <3>1 DEF WorkerStates
    <3>. QED BY <1>1, <3>2 DEF Kept
  <2>4. CASE worker[w].key # k
    BY <1>3, <2>2, <2>4
  <2>. QED BY <2>3, <2>4
<1>7. CASE Lock(w)
  <2>1. UNCHANGED <<handled, q>>
    BY <1>7 DEF Lock
  <2>2. Marked' = Marked /\ Unhandled(k)
    BY <1>1, <2>1 DEF Marked, Unhandled
  <2>3. CASE worker[w].key = k
    <3>1. /\ worker'[w].key = k /\ worker'[w].saw = worker[w].saw /\ worker[w].pc = "lock"
          /\ worker'[w].pc = "attempt"
      BY <1>1, <1>7, <2>3 DEF Lock, Goto, WorkerStates
    <3>2. Kept(k)
      BY <2>2 DEF KeptInv
    <3>3. CASE worker[w].saw = cobj[k].ver
      BY <1>1, <3>1, <3>3 DEF Kept
    <3>4. CASE worker[w].saw # cobj[k].ver
      <4>1. "changed" \in notify[k] \/ k \in Marked
        BY <1>1, <1>2, <2>3, <3>1, <3>2, <3>4 DEF Kept
      <4>. QED BY <1>1, <2>2, <4>1 DEF Kept
    <3>. QED BY <3>3, <3>4
  <2>4. CASE worker[w].key # k
    BY <1>3, <2>2, <2>4
  <2>. QED BY <2>3, <2>4
<1>8. CASE Succeed(w)
  <2>1. UNCHANGED q /\ handled' = [handled EXCEPT ![worker[w].key] = worker[w].saw]
        /\ worker[w].pc = "attempt"
    BY <1>8 DEF Succeed
  <2>2. Marked' = Marked
    BY <2>1 DEF Marked
  <2>3. CASE worker[w].key # k
    <3>1. Unhandled(k)
      BY <1>1, <1>2, <2>1, <2>3 DEF Unhandled
    <3>. QED BY <1>3, <2>2, <2>3, <3>1
  <2>4. CASE worker[w].key = k
    <3>1. cobj[k].here /\ worker[w].saw # cobj[k].ver /\ ~q[KindOf(k)].down
      BY <1>1, <1>2, <2>1, <2>4 DEF Unhandled
    \* Nobody has succeeded on a version and read an older one afterwards.
    <3>2. handled[k] # cobj[k].ver
      <4>1. handled[k] <= worker[w].saw /\ worker[w].saw <= cobj[k].ver
        BY <2>1, <2>4 DEF VersionInv
      <4>2. handled[k] \in Nat /\ worker[w].saw \in Nat /\ cobj[k].ver \in Nat
        BY <1>1, <1>2 DEF Inv, RestInv, Objects, WorkerStates
      <4>. QED BY <3>1, <4>1, <4>2
    <3>3. Kept(k)
      BY <3>1, <3>2 DEF KeptInv, Unhandled
    <3>4. "changed" \in notify[k] \/ k \in Marked
      BY <1>1, <1>2, <2>1, <2>4, <3>1, <3>3 DEF Kept
    <3>. QED BY <1>1, <2>2, <3>4 DEF Kept
  <2>. QED BY <2>3, <2>4
<1>9. CASE Fail(w)
  <2>1. UNCHANGED handled
    BY <1>9 DEF Fail
  <2>2. LET l == worker[w].key IN
        /\ Marked' \in {Marked, Marked \cup {l}}
        /\ q[KindOf(l)].down \/ l \in Marked'
        /\ \A x \in Kinds : q'[x].down = q[x].down
    BY <1>1, <1>9, MarksFail
  <2>3. Unhandled(k) /\ Marked \subseteq Marked' /\ ~q[KindOf(k)].down
    BY <1>1, <1>2, <2>1, <2>2 DEF Unhandled
  <2>4. CASE worker[w].key = k
    BY <2>2, <2>3, <2>4 DEF Kept
  <2>5. CASE worker[w].key # k
    BY <1>3, <2>3, <2>5
  <2>. QED BY <2>4, <2>5
<1>10. CASE Finish(w)
  <2>1. UNCHANGED handled /\ worker[w].pc = "done"
    BY <1>10 DEF Finish
  <2>2. Marked' = Marked /\ \A x \in Kinds : q'[x].down = q[x].down
    BY <1>1, <1>10, MarksFinish
  <2>3. Unhandled(k)
    BY <1>1, <1>2, <2>1, <2>2 DEF Unhandled
  <2>. QED BY <1>3, <2>1, <2>2, <2>3
<1>. QED BY <1>4, <1>5, <1>6, <1>7, <1>8, <1>9, <1>10 DEF WorkerNext

\* A version of an object that its informer has delivered is not forgotten before
\* an attempt has succeeded on it, or the process has ended.
THEOREM RememberedCorrect == Spec => []Remembered
<1>1. Init => KeptInv
  BY DEF Init, NoProcess, KeptInv, Unhandled, Absent, Keys
<1>2. ASSUME Inv, VersionInv, KeptInv, [Next]_vars PROVE KeptInv'
  <2>1. CASE UNCHANGED vars
    <3>1. UNCHANGED <<cobj, notify, handled, q, worker>>
      BY <2>1 DEF vars, cacheVars
    <3>2. Marked' = Marked
      BY <3>1 DEF Marked
    <3>. QED BY <1>2, <3>1, <3>2 DEF KeptInv, Kept, Unhandled
  <2>. QED BY <1>2, <2>1, KeptProcess, KeptKey, KeptWorker DEF Next
<1>3. Inv /\ KeptInv => Remembered
  BY KeptIsRemembered DEF Inv
<1>. QED BY <1>1, <1>2, <1>3, InvCorrect, VersionCorrect, PTL DEF Spec

----------------------------------------------------------------------------
(* The queues and the workers keep the promise of KeyedWork *)

LEMMA HoldingIs ==
    \A w \in Workers, k \in Keys : <<w, k>> \in Holding <=> worker[w].key = k
  BY DEF Holding, Busy

LEMMA HoldingSame ==
    ASSUME \A w \in Workers : worker'[w].key = worker[w].key PROVE Holding' = Holding
  BY DEF Holding, Busy

LEMMA PromiseInit == Init => KW!Init
<1>. SUFFICES ASSUME Init PROVE KW!Init
  OBVIOUS
<1>1. \A k \in Keys : k \notin Marked
  BY KeysFacts DEF Init, NoProcess, EmptyQueue, Marked
<1>2. \A w \in Workers : worker[w].key \notin Keys
  BY KeysFacts DEF Init, NoProcess, At
<1>. QED BY <1>1, <1>2 DEF KW!Init, Marked, Holding, Busy

LEMMA PromiseStep == ASSUME Inv, Next PROVE [KW!Next]_(KW!vars)
<1>1. WorkInv /\ ServeInv /\ worker \in [Workers -> WorkerStates]
  BY DEF Inv, WorkInv, WorkersInv
<1>2. ASSUME Marked' = Marked, \A w \in Workers : worker'[w].key = worker[w].key
      PROVE  UNCHANGED KW!vars
  BY <1>2, HoldingSame DEF KW!vars
<1>3. CASE ProcessNext
  <2>1. CASE Exit \/ Crash
    <3>1. NoProcess'
      BY <2>1, GoneIsNoProcess DEF Exit, Crash
    <3>2. Marked' = {}
      BY <3>1, KeysFacts DEF NoProcess, EmptyQueue, Marked
    <3>3. Holding' = {}
      BY <3>1, KeysFacts DEF NoProcess, At, Holding, Busy
    <3>. QED BY <3>2, <3>3 DEF KW!Next, KW!Lose
  <2>2. CASE RunReturns
    <3>1. Marked' = Marked /\ UNCHANGED worker
      BY <1>1, <2>2, MarksReturn DEF RunReturns
    <3>. QED BY <1>2, <3>1
  <2>3. CASE StartWorkers
    <3>1. /\ UNCHANGED q /\ worker' = [w \in Workers |-> At("idle")]
          /\ \A w \in Workers : worker[w] = At("none")
      BY <1>1, <2>3 DEF StartWorkers, ServeInv
    <3>2. Marked' = Marked /\ \A w \in Workers : worker'[w].key = worker[w].key
      BY <3>1 DEF Marked, At
    <3>. QED BY <1>2, <3>2
  <2>4. CASE \/ NewController \/ Run \/ Signal \/ \E is \in Together : Sync(is)
             \/ StartFactory(KubeInformers) \/ StartFactory(SvInformers)
    <3>1. UNCHANGED <<q, worker>>
      BY <2>4 DEF NewController, Run, Signal, StartFactory, Sync
    <3>2. Marked' = Marked
      BY <3>1 DEF Marked
    <3>. QED BY <1>2, <3>1, <3>2
  <2>. QED BY <1>3, <2>1, <2>2, <2>3, <2>4 DEF ProcessNext
<1>4. ASSUME NEW k \in Keys, KeyNext(k) PROVE [KW!Next]_(KW!vars)
  <2>1. CASE Update(k) \/ Remove(k) \/ Watch(k) \/ Resync(k) \/ HandleDelete(k)
    <3>1. UNCHANGED <<q, worker>>
      BY <2>1 DEF Update, Remove, Watch, Resync, HandleDelete
    <3>2. Marked' = Marked
      BY <3>1 DEF Marked
    <3>. QED BY <1>2, <3>1, <3>2
  <2>2. CASE HandleChange(k)
    <3>1. Marked' \in {Marked, Marked \cup {k}} /\ UNCHANGED worker
      BY <1>1, <2>2, MarksChange DEF HandleChange
    <3>2. Holding' = Holding
      BY <3>1, HoldingSame
    <3>. QED BY <3>1, <3>2 DEF KW!Next, KW!Mark, KW!vars
  <2>3. CASE RemoveMutex(k)
    <3>1. UNCHANGED q /\ \A w \in Workers : worker'[w].key = worker[w].key
      BY <1>1, <2>3 DEF RemoveMutex, WorkerStates
    <3>2. Marked' = Marked
      BY <3>1 DEF Marked
    <3>. QED BY <1>2, <3>1, <3>2
  <2>4. CASE Retry(k)
    <3>1. Marked' = Marked /\ UNCHANGED worker
      BY <1>1, <2>4, MarksRetry DEF Retry
    <3>. QED BY <1>2, <3>1
  <2>. QED BY <1>4, <2>1, <2>2, <2>3, <2>4 DEF KeyNext
<1>5. ASSUME NEW w \in Workers, WorkerNext(w) PROVE [KW!Next]_(KW!vars)
  <2>1. WorkerOK(w, worker[w]) /\ \A v \in Workers \ {w} : worker'[v] = worker[v]
    BY <1>1, <1>5 DEF WorkerNext, Get, Leave, Read, Lock, Succeed, Fail, Finish, Goto,
                      WorkInv, WorkersInv
  <2>2. CASE Get(w)
    <3>1. PICK h \in Keys :
            /\ h \in Marked /\ Marked' \in {Marked, Marked \ {h}}
            /\ worker' = [worker EXCEPT ![w] = [pc |-> "got", key |-> h, saw |-> 0, mine |-> FALSE]]
            /\ worker[w].key = NoKey /\ \A v \in Workers : worker[v].key # h
      BY <1>1, <2>2, MarksGet
    <3>2. worker'[w].key = h
      BY <1>1, <3>1
    <3>3. Holding' = Holding \cup {<<w, h>>}
      BY <2>1, <3>1, <3>2, KeysFacts DEF Holding, Busy
    <3>4. ~KW!Held(h) /\ \A l \in Keys : <<w, l>> \notin Holding
      BY <3>1, HoldingIs, KeysFacts DEF KW!Held
    <3>. QED BY <3>1, <3>3, <3>4 DEF KW!Next, KW!Begin
  <2>3. CASE Finish(w)
    <3>1. Marked' = Marked /\ worker[w].key \in Keys /\ worker'[w].key = NoKey
      BY <1>1, <2>3, MarksFinish DEF Finish, Goto, At
    <3>2. <<w, worker[w].key>> \in Holding
      BY <3>1, HoldingIs
    <3>3. Holding' = Holding \ {<<w, worker[w].key>>}
      BY <2>1, <3>1, KeysFacts DEF Holding, Busy
    <3>. QED BY <3>1, <3>2, <3>3 DEF KW!Next, KW!End
  <2>4. CASE Fail(w)
    <3>1. /\ worker[w].key \in Keys
          /\ Marked' \in {Marked, Marked \cup {worker[w].key}}
      BY <1>1, <2>4, MarksFail
    <3>2. worker'[w].key = worker[w].key
      BY <1>1, <2>4 DEF Fail, Goto, WorkerStates
    <3>3. Holding' = Holding
      BY <2>1, <3>2, HoldingSame
    <3>. QED BY <3>1, <3>3 DEF KW!Next, KW!Mark, KW!vars
  <2>5. CASE Leave(w) \/ Read(w) \/ Lock(w) \/ Succeed(w)
    <3>1. UNCHANGED q
      BY <2>5 DEF Leave, Read, Lock, Succeed
    <3>2. worker'[w].key = worker[w].key
      <4>1. CASE Leave(w)
        BY <1>1, <2>1, <4>1 DEF Leave, Goto, At, WorkerOK
      <4>2. CASE Read(w)
        BY <1>1, <4>2 DEF Read, Goto, WorkerStates
      <4>3. CASE Lock(w)
        BY <1>1, <4>3 DEF Lock, Goto, WorkerStates
      <4>4. CASE Succeed(w)
        BY <1>1, <4>4 DEF Succeed, Goto, WorkerStates
      <4>. QED BY <2>5, <4>1, <4>2, <4>3, <4>4
    <3>3. Marked' = Marked
      BY <3>1 DEF Marked
    <3>. QED BY <1>2, <2>1, <3>2, <3>3
  <2>. QED BY <1>5, <2>2, <2>3, <2>4, <2>5 DEF WorkerNext
<1>. QED BY <1>3, <1>4, <1>5 DEF Next

\* Every step of the queues, handlers, workers and the process is one KeyedWork
\* allows: what the two reconcilers are modelled on holds for any number of
\* objects and workers.
THEOREM Refines == Spec => KeepsPromise
<1>1. Init => KW!Init
  BY PromiseInit
<1>2. ASSUME Inv, [Next]_vars PROVE [KW!Next]_(KW!vars)
  <2>1. CASE UNCHANGED vars
    <3>1. UNCHANGED <<q, worker>>
      BY <2>1 DEF vars
    <3>. QED BY <3>1 DEF KW!vars, Marked, Holding, Busy
  <2>. QED BY <1>2, <2>1, PromiseStep
<1>. QED BY <1>1, <1>2, InvCorrect, PTL DEF Spec, KeepsPromise, KW!Spec
=============================================================================
