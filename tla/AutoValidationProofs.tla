-------------------------- MODULE AutoValidationProofs --------------------------
(***************************************************************************)
(* What TLAPS proves of AutoValidation, for any number of claims,          *)
(* snapshots, strategies, runs and workers, any losses and restarts.       *)
(***************************************************************************)
EXTENDS AutoValidation, TLAPS

----------------------------------------------------------------------------
(* Data *)

LEMMA MapFacts ==
    \A V : \A m : m \in Maps(V) <=> m \in [DOMAIN m -> V] /\ DOMAIN m \subseteq Claims
  BY DEF Maps

LEMMA NoRunType == NoRun \in RunRecords
<1>1. NoMap \in [{} -> Snaps] /\ NoMap \in [{} -> Snaps \cup {None}]
  BY DEF NoMap
<1>2. NoMap \in Maps(Snaps) /\ NoMap \in Maps(Snaps \cup {None})
  BY <1>1 DEF Maps
<1>. QED BY <1>2 DEF NoRun, RunRecords, New

WkRecords == [pc : {"idle", "write"}, strategy : Strategies \cup {None},
              run : Runs \cup {None}, base : RunRecords]

LEMMA IdleType == Idle \in WkRecords /\ Idle.pc = "idle" /\ Idle.base = NoRun
  BY NoRunType DEF Idle, WkRecords

\* What an update makes of the run it was made from.
LEMMA CopyFacts ==
    ASSUME TypeOK, NEW s \in Snaps, wk[s].pc = "write"
    PROVE  LET b == wk[s].base  c == ClaimOf[s]
           IN  /\ Copy(s) \in RunRecords
               /\ Copy(s).here = b.here /\ Copy(s).owner = b.owner
               /\ Copy(s).phase = b.phase /\ Copy(s).objects = b.objects
               /\ DOMAIN Copy(s).map = DOMAIN b.map /\ Copy(s).map[c] = s
               /\ \A d \in DOMAIN b.map : d # c => Copy(s).map[d] = b.map[d]
<1>. DEFINE b == wk[s].base
            c == ClaimOf[s]
            m == [b.map EXCEPT ![c] = s]
<1>1. b \in RunRecords /\ c \in DOMAIN b.map /\ b.map \in Maps(Snaps \cup {None})
  BY DEF TypeOK, RunRecords
<1>2. Copy(s) = [b EXCEPT !.map = m]
  BY <1>1 DEF Copy, RunRecords
<1>3. b.map \in [DOMAIN b.map -> Snaps \cup {None}] /\ DOMAIN b.map \subseteq Claims
  BY <1>1, MapFacts
<1>4. /\ m \in [DOMAIN b.map -> Snaps \cup {None}] /\ DOMAIN m = DOMAIN b.map /\ m[c] = s
      /\ \A d \in DOMAIN b.map : d # c => m[d] = b.map[d]
  BY <1>1, <1>3
<1>5. m \in Maps(Snaps \cup {None})
  BY <1>3, <1>4, MapFacts
<1>. HIDE DEF m
<1>6. /\ [b EXCEPT !.map = m] \in RunRecords /\ [b EXCEPT !.map = m].map = m
      /\ [b EXCEPT !.map = m].here = b.here /\ [b EXCEPT !.map = m].owner = b.owner
      /\ [b EXCEPT !.map = m].phase = b.phase /\ [b EXCEPT !.map = m].objects = b.objects
  BY <1>1, <1>5 DEF RunRecords
<1>. QED BY <1>2, <1>4, <1>6

----------------------------------------------------------------------------
(* The invariant *)

\* What a run, or a version of it that somebody has read, says: complete when it has
\* started; and tested with what its map says, but for what came late.
RecordOK(x, tk, lt) ==
    /\ Range(x.map) \subseteq tk \cup {None} /\ Range(x.objects) \subseteq tk
    /\ x.phase # New => None \notin Range(x.map)
    /\ x.phase >= KustFinished => Range(x.map) \subseteq Range(x.objects) \cup lt
RecordsOK ==
    /\ \A r \in Runs : RecordOK(run[r], taken, late) /\ RecordOK(crun[r], taken, late)
    /\ \A s \in Snaps : /\ RecordOK(wk[s].base, taken, late)
                        /\ wk[s].pc = "write" => s \in taken

\* The mutex of a strategy, and what the worker that makes a run has seen.
Alone ==
    \A s, t \in Snaps :
       wk[s].pc = "write" /\ wk[t].pc = "write" /\ wk[s].strategy = wk[t].strategy => s = t
MakersOK ==
    \A s \in Snaps : wk[s].pc = "write" /\ wk[s].run = None =>
       /\ wk[s].base.phase = New /\ wk[s].base.owner = wk[s].strategy
       /\ lagged \/ \A r \in Runs : ~(run[r].here /\ run[r].owner = wk[s].strategy)

Inv == TypeOK /\ RecordsOK /\ Alone /\ MakersOK /\ OneRun

LEMMA RecordMonotone ==
    \A x, A, B, C, D : RecordOK(x, A, B) /\ A \subseteq C /\ B \subseteq D => RecordOK(x, C, D)
  BY DEF RecordOK

LEMMA NoRunOK == \A A, B : RecordOK(NoRun, A, B)
<1>1. Range(NoMap) = {}
  BY DEF NoMap, Range
<1>. QED BY <1>1 DEF RecordOK, NoRun, New, KustFinished

\* TypeOK without the records' fields.
LEMMA TypeFacts ==
    TypeOK <=>
      /\ claims \subseteq Claims /\ cclaims \subseteq claims
      /\ taken \subseteq Snaps
      /\ wk \in [Snaps -> WkRecords]
      /\ \A s \in Snaps : wk[s].pc = "write" => ClaimOf[s] \in DOMAIN wk[s].base.map
      /\ run \in [Runs -> RunRecords] /\ crun \in [Runs -> RunRecords]
      /\ labelled \subseteq taken /\ tested \subseteq taken
      /\ late \subseteq taken /\ lagged \in BOOLEAN
  BY DEF TypeOK, WkRecords

LEMMA InitInv == Init => Inv
<1>. SUFFICES ASSUME Init PROVE Inv
  OBVIOUS
<1>1. \A s \in Snaps : wk[s] = Idle
  BY DEF Init
<1>2. \A r \in Runs : run[r] = NoRun /\ crun[r] = NoRun
  BY DEF Init
<1>3. TypeOK
  <2>1. wk \in [Snaps -> WkRecords] /\ run \in [Runs -> RunRecords] /\ crun \in [Runs -> RunRecords]
    BY IdleType, NoRunType DEF Init
  <2>2. \A s \in Snaps : wk[s].pc = "write" => ClaimOf[s] \in DOMAIN wk[s].base.map
    BY <1>1, IdleType
  <2>4. claims \subseteq Claims /\ cclaims \subseteq claims
    BY DEF Init
  <2>5. /\ taken \subseteq Snaps
        /\ labelled \subseteq taken /\ tested \subseteq taken /\ late \subseteq taken
        /\ lagged \in BOOLEAN
    BY DEF Init
  <2>. QED BY <2>1, <2>2, <2>4, <2>5, TypeFacts
<1>4. RecordsOK
  BY <1>1, <1>2, NoRunOK, IdleType DEF RecordsOK
<1>5. \A s \in Snaps : wk[s].pc # "write"
  BY <1>1, IdleType
<1>6. Alone /\ MakersOK
  BY <1>5 DEF Alone, MakersOK
<1>7. OneRun
  BY <1>2 DEF OneRun, NoRun
<1>. QED BY <1>3, <1>4, <1>6, <1>7 DEF Inv

----------------------------------------------------------------------------
(* Steps *)

\* A step in which workers stay where they are or become idle, and runs keep their
\* owner or disappear.
LEMMA MutexKept ==
    ASSUME Inv, lagged => lagged',
           \A r \in Runs : run'[r].here => run[r].here /\ run'[r].owner = run[r].owner,
           \A s \in Snaps : wk'[s] = wk[s] \/ wk'[s] = Idle
    PROVE  Alone' /\ MakersOK' /\ OneRun'
<1>1. \A s \in Snaps : wk'[s].pc = "write" => wk'[s] = wk[s]
  BY IdleType
<1>2. Alone'
  BY <1>1 DEF Inv, Alone
<1>3. MakersOK'
  BY <1>1 DEF Inv, MakersOK
<1>4. OneRun'
  BY DEF Inv, OneRun
<1>. QED BY <1>2, <1>3, <1>4

\* The records that somebody has are those somebody had, or are given.
LEMMA RecordsKept ==
    ASSUME RecordsOK, taken \subseteq taken', late \subseteq late', NEW x,
           RecordOK(x, taken', late'),
           \A r \in Runs : /\ run'[r] = run[r] \/ run'[r] = x
                           /\ crun'[r] \in {crun[r], run[r]},
           \A s \in Snaps : \/ wk'[s] = wk[s]
                            \/ wk'[s] = Idle
    PROVE  RecordsOK'
<1>1. \A z : RecordOK(z, taken, late) => RecordOK(z, taken', late')
  BY RecordMonotone
<1>2. \A r \in Runs : RecordOK(run'[r], taken', late') /\ RecordOK(crun'[r], taken', late')
  BY <1>1 DEF RecordsOK
<1>3. ASSUME NEW s \in Snaps
      PROVE  /\ RecordOK(wk'[s].base, taken', late')
             /\ wk'[s].pc = "write" => s \in taken'
  <2>1. CASE wk'[s] = wk[s]
    BY <1>1, <2>1 DEF RecordsOK
  <2>2. CASE wk'[s] = Idle
    BY <2>2, IdleType, NoRunOK
  <2>. QED BY <2>1, <2>2
<1>. QED BY <1>2, <1>3 DEF RecordsOK

\* The steps of a run's phases: what was read is still there, and is written back
\* with its claims and owner.
LEMMA PutFacts ==
    ASSUME TypeOK, NEW r \in Runs, NEW x \in RunRecords, Put(r, x),
           x.owner = crun[r].owner, x.map = crun[r].map
    PROVE  /\ run[r] = crun[r] /\ run' \in [Runs -> RunRecords] /\ run'[r] = x
           /\ \A t \in Runs : t # r => run'[t] = run[t]
           /\ \A t \in Runs : run'[t].here => run[t].here /\ run'[t].owner = run[t].owner
           /\ \A t \in Runs : run'[t].map = run[t].map
<1>1. run[r].here /\ run[r] = crun[r] /\ run' = [run EXCEPT ![r] = x]
  BY DEF Put, Accepted
<1>2. run \in [Runs -> RunRecords]
  BY TypeFacts
<1>. QED BY <1>1, <1>2

LEMMA PhaseFacts ==
    ASSUME NEW x \in RunRecords, NEW p \in 0..3
    PROVE  LET y == [x EXCEPT !.phase = p] IN
           /\ y \in RunRecords /\ y.here = x.here /\ y.owner = x.owner /\ y.phase = p
           /\ y.map = x.map /\ y.objects = x.objects
  BY DEF RunRecords

LEMMA ObjectsFacts ==
    ASSUME NEW x \in RunRecords, NEW p \in 0..3, NEW m \in Maps(Snaps)
    PROVE  LET y == [x EXCEPT !.phase = p, !.objects = m] IN
           /\ y \in RunRecords /\ y.here = x.here /\ y.owner = x.owner /\ y.phase = p
           /\ y.map = x.map /\ y.objects = m
  BY DEF RunRecords

\* A worker that is done, whether or not with success.
LEMMA ReplyFacts ==
    ASSUME TypeOK, RecordsOK, NEW s \in Snaps, wk[s].pc = "write", Goto(s, Idle)
    PROVE  /\ wk' \in [Snaps -> WkRecords] /\ wk'[s] = Idle
           /\ \A t \in Snaps : t # s => wk'[t] = wk[t]
           /\ \A t \in Snaps : wk'[t].pc = "write" => ClaimOf[t] \in DOMAIN wk'[t].base.map
<1>1. wk \in [Snaps -> WkRecords]
  BY TypeFacts
<1>2. wk' \in [Snaps -> WkRecords] /\ wk'[s] = Idle /\ \A t \in Snaps : t # s => wk'[t] = wk[t]
  BY <1>1, IdleType DEF Goto
<1>3. \A t \in Snaps : wk'[t].pc = "write" => ClaimOf[t] \in DOMAIN wk'[t].base.map
  BY <1>2, IdleType, TypeFacts
<1>. QED BY <1>2, <1>3

LEMMA NewRunFacts ==
    ASSUME TypeOK, NEW st \in Strategies
    PROVE  /\ NewRun(st) \in RunRecords /\ NewRun(st).owner = st /\ NewRun(st).phase = New
           /\ \A A, B : RecordOK(NewRun(st), A, B)
<1>. DEFINE m == [c \in {d \in cclaims : Matches(st, d)} |-> None]
<1>1. cclaims \subseteq Claims
  BY TypeFacts
<1>2. m \in Maps(Snaps \cup {None})
  <2>1. m \in [DOMAIN m -> Snaps \cup {None}] /\ DOMAIN m \subseteq Claims
    BY <1>1
  <2>. HIDE DEF m
  <2>. QED BY <2>1, MapFacts
<1>3. Range(m) \subseteq {None}
  BY DEF Range
<1>. HIDE DEF m
<1>4. /\ NewRun(st) \in RunRecords /\ NewRun(st).owner = st /\ NewRun(st).map = m
      /\ NewRun(st).phase = New /\ NewRun(st).objects = NoMap
  <2>1. NewRun(st) = [NoRun EXCEPT !.here = TRUE, !.owner = st, !.map = m]
    BY DEF NewRun, m
  <2>. QED BY <2>1, <1>2, NoRunType DEF RunRecords, NoRun
<1>5. Range(NoMap) = {}
  BY DEF NoMap, Range
<1>. QED BY <1>3, <1>4, <1>5 DEF RecordOK, New, KustFinished

\* A worker takes the mutex of a strategy.
LEMMA PrepareStep ==
    ASSUME Inv, NEW s \in Snaps, NEW st \in Strategies, NEW r \in Runs \cup {None},
           NEW base \in RunRecords, RecordOK(base, taken, late),
           s \in taken, wk[s].pc = "idle", Free(st), Prepare(s, st, r, base),
           r = None => base.owner = st /\ base.phase = New,
           lagged => lagged', lagged' \in BOOLEAN,
           r = None => lagged' \/ \A t \in Runs : ~(run[t].here /\ run[t].owner = st),
           UNCHANGED <<clusterVars, runVars, labelVars, late>>
    PROVE  Inv'
<1>1. /\ claims' = claims /\ cclaims' = cclaims /\ taken' = taken
      /\ run' = run /\ crun' = crun /\ labelled' = labelled /\ tested' = tested
      /\ late' = late
  BY DEF clusterVars, runVars, labelVars
<1>. DEFINE w == [pc |-> "write", strategy |-> st, run |-> r, base |-> base]
<1>2. /\ ClaimOf[s] \in DOMAIN base.map
      /\ wk' = [wk EXCEPT ![s] = w]
  BY DEF Prepare, Goto
<1>3. /\ w \in WkRecords /\ w.pc = "write" /\ w.strategy = st
      /\ w.run = r /\ w.base = base
  BY DEF WkRecords
<1>. HIDE DEF w
<1>4. wk \in [Snaps -> WkRecords]
  BY TypeFacts DEF Inv
<1>5. wk' \in [Snaps -> WkRecords] /\ wk'[s] = w /\ \A t \in Snaps : t # s => wk'[t] = wk[t]
  BY <1>2, <1>3, <1>4
<1>6. TypeOK'
  <2>1. \A t \in Snaps : wk'[t].pc = "write" => ClaimOf[t] \in DOMAIN wk'[t].base.map
    BY <1>2, <1>3, <1>5, TypeFacts DEF Inv
  <2>. QED BY <1>1, <1>5, <2>1, TypeFacts DEF Inv, TypeOK, WkRecords
<1>7. RecordsOK'
  <2>2. \A t \in Snaps : RecordOK(wk'[t].base, taken, late) /\ (wk'[t].pc = "write" => t \in taken)
    BY <1>3, <1>5 DEF Inv, RecordsOK
  <2>. QED BY <1>1, <2>2 DEF Inv, RecordsOK
<1>8. Alone'
  <2>1. \A t \in Snaps : wk[t].pc = "write" => wk[t].strategy # st
    BY DEF Free
  <2>. QED BY <1>3, <1>5, <2>1 DEF Inv, Alone
<1>9. MakersOK'
  <2>. SUFFICES ASSUME NEW t \in Snaps, wk'[t].pc = "write", wk'[t].run = None
                PROVE  /\ wk'[t].base.phase = New /\ wk'[t].base.owner = wk'[t].strategy
                       /\ lagged' \/ \A q \in Runs : ~(run[q].here /\ run[q].owner = wk'[t].strategy)
    BY <1>1 DEF MakersOK
  <2>1. CASE t = s
    BY <1>3, <1>5, <2>1
  <2>2. CASE t # s
    BY <1>5, <2>2 DEF Inv, MakersOK
  <2>. QED BY <2>1, <2>2
<1>10. OneRun'
  BY <1>1 DEF Inv, OneRun
<1>. QED BY <1>6, <1>7, <1>8, <1>9, <1>10 DEF Inv

LEMMA BeginStep == ASSUME Inv, NEW s \in Snaps, Begin(s) PROVE Inv'
<1>1. PICK st \in Found(s) :
        /\ Free(st)
        /\ \/ \E r \in Runs : Belongs(r, st) /\ Prepare(s, st, r, crun[r]) /\ UNCHANGED lagged
           \/ /\ Prepare(s, st, None, NewRun(st))
              /\ lagged' = (lagged \/ \E r \in Runs : run[r].here /\ run[r].owner = st)
  BY Zenon DEF Begin
<1>2. /\ s \in taken /\ wk[s].pc = "idle"
      /\ UNCHANGED <<clusterVars, runVars, labelVars, late>>
  BY Zenon DEF Begin
<1>3. st \in Strategies /\ TypeOK /\ RecordsOK /\ lagged \in BOOLEAN
  BY TypeFacts DEF Found, Inv
<1>4. None \notin Runs
  BY AutoAssumption
<1>5. CASE \E r \in Runs : Belongs(r, st) /\ Prepare(s, st, r, crun[r]) /\ UNCHANGED lagged
  <2>1. PICK r \in Runs : Prepare(s, st, r, crun[r]) /\ UNCHANGED lagged
    BY <1>5
  <2>2. crun[r] \in RunRecords /\ RecordOK(crun[r], taken, late)
    BY <1>3, TypeFacts DEF RecordsOK
  <2>. QED BY <1>1, <1>2, <1>3, <1>4, <2>1, <2>2, PrepareStep
<1>6. CASE /\ Prepare(s, st, None, NewRun(st))
           /\ lagged' = (lagged \/ \E r \in Runs : run[r].here /\ run[r].owner = st)
  <2>1. /\ NewRun(st) \in RunRecords /\ NewRun(st).owner = st /\ NewRun(st).phase = New
        /\ RecordOK(NewRun(st), taken, late)
    BY <1>3, NewRunFacts
  <2>2. lagged' \in BOOLEAN /\ (lagged => lagged')
    BY <1>6
  <2>3. lagged' \/ \A t \in Runs : ~(run[t].here /\ run[t].owner = st)
    BY <1>6
  <2>. QED BY <1>1, <1>2, <1>3, <1>6, <2>1, <2>2, <2>3, PrepareStep
<1>. QED BY <1>1, <1>5, <1>6

\* What a worker writes is no worse than what it has read, but for a snapshot that
\* comes late.
LEMMA CopyOK ==
    ASSUME TypeOK, NEW s \in Snaps, wk[s].pc = "write", NEW lt,
           RecordOK(wk[s].base, taken, late), s \in taken, late \subseteq lt,
           wk[s].base.phase >= KustFinished => s \in lt
    PROVE  RecordOK(Copy(s), taken, lt)
<1>. DEFINE b == wk[s].base
            c == ClaimOf[s]
            x == Copy(s)
<1>1. /\ x.phase = b.phase /\ x.objects = b.objects
      /\ DOMAIN x.map = DOMAIN b.map /\ x.map[c] = s
      /\ \A d \in DOMAIN b.map : d # c => x.map[d] = b.map[d]
  BY CopyFacts
<1>2. Range(x.map) \subseteq Range(b.map) \cup {s}
  BY <1>1 DEF Range
<1>3. s # None
  BY AutoAssumption
<1>. HIDE DEF x, b
<1>4. RecordOK(b, taken, late)
  BY DEF b
<1>5. Range(x.map) \subseteq taken \cup {None} /\ Range(x.objects) \subseteq taken
  BY <1>1, <1>2, <1>4 DEF RecordOK
<1>6. x.phase # New => None \notin Range(x.map)
  BY <1>1, <1>2, <1>3, <1>4 DEF RecordOK
<1>7. x.phase >= KustFinished => Range(x.map) \subseteq Range(x.objects) \cup lt
  BY <1>1, <1>2, <1>4 DEF RecordOK, b
<1>8. RecordOK(x, taken, lt)
  BY <1>5, <1>6, <1>7 DEF RecordOK
<1>. QED BY <1>8 DEF x

LEMMA CreateStep == ASSUME Inv, NEW s \in Snaps, Create(s) PROVE Inv'
<1>1. PICK r \in Runs : /\ run[r] = NoRun /\ crun[r] = NoRun
                        /\ run' = [run EXCEPT ![r] = Copy(s)]
  BY Zenon DEF Create
<1>2. /\ wk[s].pc = "write" /\ wk[s].run = None /\ Goto(s, Idle)
      /\ UNCHANGED <<clusterVars, crun, labelVars, late, lagged>>
  BY Zenon DEF Create
<1>3. /\ claims' = claims /\ cclaims' = cclaims /\ taken' = taken /\ crun' = crun
      /\ labelled' = labelled /\ tested' = tested /\ late' = late /\ lagged' = lagged
  BY <1>2 DEF clusterVars, labelVars
<1>. DEFINE b == wk[s].base
            c == ClaimOf[s]
<1>4. /\ Copy(s) \in RunRecords /\ Copy(s).owner = b.owner
      /\ Copy(s).phase = b.phase /\ Copy(s).objects = b.objects
      /\ DOMAIN Copy(s).map = DOMAIN b.map /\ Copy(s).map[c] = s
      /\ \A d \in DOMAIN b.map : d # c => Copy(s).map[d] = b.map[d]
  BY <1>2, CopyFacts DEF Inv
<1>5. /\ wk' \in [Snaps -> WkRecords] /\ wk'[s] = Idle
      /\ \A t \in Snaps : t # s => wk'[t] = wk[t]
      /\ \A t \in Snaps : wk'[t].pc = "write" => ClaimOf[t] \in DOMAIN wk'[t].base.map
  BY <1>2, ReplyFacts DEF Inv
<1>6. /\ run' \in [Runs -> RunRecords] /\ run'[r] = Copy(s)
      /\ \A t \in Runs : t # r => run'[t] = run[t]
  BY <1>1, <1>4, TypeFacts DEF Inv
<1>7. TypeOK'
  BY <1>3, <1>5, <1>6, TypeFacts DEF Inv, TypeOK, WkRecords
<1>8. s \in taken /\ RecordOK(b, taken, late)
  BY <1>2 DEF Inv, RecordsOK
<1>9. RecordOK(Copy(s), taken, late)
  <2>1. b.phase = New
    BY <1>2 DEF Inv, MakersOK
  <2>2. ~(b.phase >= KustFinished)
    BY <2>1 DEF New, KustFinished
  <2>. QED BY <1>2, <1>8, <2>2, CopyOK DEF Inv
<1>10. RecordsOK'
  BY <1>3, <1>5, <1>6, <1>9, RecordsKept, Zenon DEF Inv
<1>11. Alone'
  BY <1>5, IdleType DEF Inv, Alone
<1>12. b.owner = wk[s].strategy /\ (lagged \/ \A t \in Runs : ~(run[t].here /\ run[t].owner = b.owner))
  BY <1>2 DEF Inv, MakersOK
<1>13. MakersOK'
  <2>. SUFFICES ASSUME NEW t \in Snaps, wk'[t].pc = "write", wk'[t].run = None
                PROVE  /\ wk'[t].base.phase = New /\ wk'[t].base.owner = wk'[t].strategy
                       /\ lagged \/ \A q \in Runs : ~(run'[q].here /\ run'[q].owner = wk'[t].strategy)
    BY <1>3 DEF MakersOK
  <2>1. t # s /\ wk'[t] = wk[t]
    BY <1>5, IdleType
  <2>2. wk[t].strategy # wk[s].strategy
    BY <1>2, <2>1 DEF Inv, Alone
  <2>3. /\ wk[t].base.phase = New /\ wk[t].base.owner = wk[t].strategy
        /\ lagged \/ \A q \in Runs : ~(run[q].here /\ run[q].owner = wk[t].strategy)
    BY <2>1 DEF Inv, MakersOK
  <2>. QED BY <1>4, <1>6, <1>12, <2>1, <2>2, <2>3
<1>14. OneRun'
  <2>1. CASE lagged
    BY <1>3, <2>1 DEF OneRun
  <2>2. CASE ~lagged
    <3>1. \A q \in Runs : q # r /\ run'[q].here => run'[q].owner # run'[r].owner
      BY <1>4, <1>6, <1>12, <2>2
    <3>. QED BY <1>6, <2>2, <3>1 DEF Inv, OneRun
  <2>. QED BY <2>1, <2>2
<1>. QED BY <1>7, <1>10, <1>11, <1>13, <1>14 DEF Inv

\* A worker that ends without a change of the records.
LEMMA GiveUp ==
    ASSUME Inv, NEW s \in Snaps, wk[s].pc = "write",
           Goto(s, Idle),
           UNCHANGED <<clusterVars, runVars, labelVars, noteVars>>
    PROVE  Inv'
<1>1. /\ claims' = claims /\ cclaims' = cclaims /\ taken' = taken /\ run' = run /\ crun' = crun
      /\ labelled' = labelled /\ tested' = tested /\ late' = late /\ lagged' = lagged
  BY DEF clusterVars, runVars, labelVars, noteVars
<1>2. /\ wk' \in [Snaps -> WkRecords] /\ wk'[s] = Idle
      /\ \A t \in Snaps : t # s => wk'[t] = wk[t]
      /\ \A t \in Snaps : wk'[t].pc = "write" => ClaimOf[t] \in DOMAIN wk'[t].base.map
  BY ReplyFacts DEF Inv
<1>3. TypeOK'
  BY <1>1, <1>2, TypeFacts DEF Inv, TypeOK, WkRecords
<1>4. RecordsOK'
  BY <1>1, <1>2, NoRunOK, RecordsKept DEF Inv
<1>5. Alone' /\ MakersOK' /\ OneRun'
  BY <1>1, <1>2, MutexKept
<1>. QED BY <1>3, <1>4, <1>5 DEF Inv

LEMMA CallLostStep == ASSUME Inv, NEW s \in Snaps, CallLost(s) PROVE Inv'
  BY GiveUp DEF CallLost

LEMMA UpdateStep == ASSUME Inv, NEW s \in Snaps, Update(s) PROVE Inv'
<1>. DEFINE r == wk[s].run
            b == wk[s].base
<1>1. /\ wk[s].pc = "write" /\ r # None
      /\ UNCHANGED <<clusterVars, crun, labelVars, lagged>>
  BY DEF Update
<1>2. r \in Runs
  <2>1. wk[s] \in WkRecords
    BY TypeFacts DEF Inv
  <2>. QED BY <1>1, <2>1 DEF WkRecords
<1>3. CASE ~Accepted(r, b)
  <2>1. Goto(s, Idle) /\ UNCHANGED <<run, late>>
    BY <1>3 DEF Update
  <2>2. UNCHANGED <<clusterVars, runVars, labelVars, noteVars>>
    BY <1>1, <2>1 DEF runVars, noteVars
  <2>. QED BY <1>1, <2>1, <2>2, GiveUp
<1>4. CASE Accepted(r, b)
  <2>1. /\ run' = [run EXCEPT ![r] = Copy(s)] /\ Goto(s, Idle)
        /\ late' = IF b.phase >= KustFinished THEN late \cup {s} ELSE late
    BY <1>4 DEF Update
  <2>2. /\ claims' = claims /\ cclaims' = cclaims /\ taken' = taken /\ crun' = crun
        /\ labelled' = labelled /\ tested' = tested /\ lagged' = lagged
    BY <1>1 DEF clusterVars, labelVars
  <2>3. /\ Copy(s) \in RunRecords /\ Copy(s).owner = b.owner /\ Copy(s).here = b.here
    BY <1>1, CopyFacts DEF Inv
  <2>4. /\ wk' \in [Snaps -> WkRecords] /\ wk'[s] = Idle
        /\ \A t \in Snaps : t # s => wk'[t] = wk[t]
        /\ \A t \in Snaps : wk'[t].pc = "write" => ClaimOf[t] \in DOMAIN wk'[t].base.map
    BY <1>1, <2>1, ReplyFacts DEF Inv
  <2>5. /\ run' \in [Runs -> RunRecords] /\ run'[r] = Copy(s)
        /\ \A t \in Runs : t # r => run'[t] = run[t]
    BY <1>2, <2>1, <2>3, TypeFacts DEF Inv
  <2>6. s \in taken /\ RecordOK(b, taken, late)
    BY <1>1 DEF Inv, RecordsOK
  <2>7. late \subseteq late' /\ late' \subseteq taken /\ (b.phase >= KustFinished => s \in late')
    BY <2>1, <2>6, TypeFacts DEF Inv
  <2>8. TypeOK'
    BY <2>2, <2>4, <2>5, <2>7, TypeFacts DEF Inv, TypeOK, WkRecords
  <2>9. RecordOK(Copy(s), taken, late')
    BY <1>1, <2>6, <2>7, CopyOK DEF Inv
  <2>10. RecordsOK'
    BY <2>2, <2>4, <2>5, <2>7, <2>9, RecordsKept, Zenon DEF Inv
  <2>11. run[r] = b
    BY <1>4 DEF Accepted
  <2>12. \A t \in Runs : run'[t].here => run[t].here /\ run'[t].owner = run[t].owner
    BY <2>3, <2>5, <2>11
  <2>13. Alone' /\ MakersOK' /\ OneRun'
    BY <2>2, <2>4, <2>12, MutexKept
  <2>. QED BY <2>8, <2>10, <2>13 DEF Inv
<1>. QED BY <1>3, <1>4

\* A put of a run's phase.
LEMMA PutStep ==
    ASSUME Inv, NEW r \in Runs, NEW x \in RunRecords, Put(r, x),
           x.owner = crun[r].owner, x.map = crun[r].map, RecordOK(x, taken, late),
           UNCHANGED <<clusterVars, wk, crun, noteVars>>,
           labelled' \subseteq taken, tested' \subseteq taken
    PROVE  Inv'
<1>1. /\ claims' = claims /\ cclaims' = cclaims /\ taken' = taken /\ crun' = crun
      /\ wk' = wk /\ late' = late /\ lagged' = lagged
  BY DEF clusterVars, noteVars
<1>2. /\ run' \in [Runs -> RunRecords] /\ run'[r] = x
      /\ \A t \in Runs : t # r => run'[t] = run[t]
      /\ \A t \in Runs : run'[t].here => run[t].here /\ run'[t].owner = run[t].owner
  BY PutFacts DEF Inv
<1>3. TypeOK'
  BY <1>1, <1>2, TypeFacts DEF Inv, TypeOK, WkRecords
<1>4. RecordsOK'
  BY <1>1, <1>2, RecordsKept, Zenon DEF Inv
<1>5. Alone' /\ MakersOK' /\ OneRun'
  BY <1>1, <1>2, MutexKept
<1>. QED BY <1>3, <1>4, <1>5 DEF Inv

LEMMA BeforeKustStep == ASSUME Inv, NEW r \in Runs, BeforeKust(r) PROVE Inv'
<1>. DEFINE x == crun[r]
            y == [x EXCEPT !.phase = KustStarted]
<1>1. /\ Complete(x.map) /\ Put(r, y)
      /\ UNCHANGED labelVars /\ UNCHANGED <<clusterVars, wk, crun, noteVars>>
  BY DEF BeforeKust, RunRest
<1>2. x \in RunRecords /\ RecordOK(x, taken, late)
  BY TypeFacts DEF Inv, RecordsOK
<1>3. KustStarted \in 0..3 /\ ~(KustStarted >= KustFinished)
  BY DEF KustStarted, KustFinished
<1>4. /\ y \in RunRecords /\ y.owner = x.owner /\ y.phase = KustStarted
      /\ y.map = x.map /\ y.objects = x.objects
  BY <1>2, <1>3, PhaseFacts
<1>5. None \notin Range(x.map)
  BY <1>1 DEF Complete, Range
<1>6. RecordOK(y, taken, late)
  BY <1>2, <1>3, <1>4, <1>5 DEF RecordOK
<1>7. labelled' \subseteq taken /\ tested' \subseteq taken
  BY <1>1, TypeFacts DEF Inv, labelVars
<1>. QED BY <1>1, <1>4, <1>6, <1>7, PutStep

LEMMA KustStep == ASSUME Inv, NEW r \in Runs, Kust(r) PROVE Inv'
<1>. DEFINE x == crun[r]
            y == [x EXCEPT !.phase = KustFinished, !.objects = x.map]
<1>1. /\ x.phase = KustStarted /\ Put(r, y)
      /\ UNCHANGED labelVars /\ UNCHANGED <<clusterVars, wk, crun, noteVars>>
  BY DEF Kust, RunRest
<1>2. x \in RunRecords /\ RecordOK(x, taken, late)
  BY TypeFacts DEF Inv, RecordsOK
<1>3. KustFinished \in 0..3 /\ KustStarted # New
  BY DEF KustStarted, KustFinished, New
<1>4. None \notin Range(x.map)
  BY <1>1, <1>2, <1>3 DEF RecordOK
<1>5. x.map \in Maps(Snaps)
  <2>1. x.map \in [DOMAIN x.map -> Snaps \cup {None}] /\ DOMAIN x.map \subseteq Claims
    <3>1. x.map \in Maps(Snaps \cup {None})
      BY <1>2 DEF RunRecords
    <3>. QED BY <3>1, MapFacts
  <2>2. \A c \in DOMAIN x.map : x.map[c] # None
    BY <1>4 DEF Range
  <2>3. x.map \in [DOMAIN x.map -> Snaps]
    BY <2>1, <2>2
  <2>. QED BY <2>1, <2>3, MapFacts
<1>6. /\ y \in RunRecords /\ y.owner = x.owner /\ y.phase = KustFinished
      /\ y.map = x.map /\ y.objects = x.map
  <2>1. x.map \in Maps(Snaps) /\ x \in RunRecords /\ KustFinished \in 0..3
    BY <1>2, <1>3, <1>5
  <2>2. /\ y.here = x.here /\ y.owner = x.owner /\ y.phase = KustFinished
        /\ y.map = x.map /\ y.objects = x.map
    BY <2>1 DEF RunRecords
  <2>3. y \in RunRecords
    BY <2>1 DEF RunRecords
  <2>. QED BY <2>2, <2>3
<1>7. RecordOK(y, taken, late)
  BY <1>2, <1>4, <1>6 DEF RecordOK
<1>8. labelled' \subseteq taken /\ tested' \subseteq taken
  BY <1>1, TypeFacts DEF Inv, labelVars
<1>. QED BY <1>1, <1>6, <1>7, <1>8, PutStep

\* What validation labels has been tested, or is late.
LEMMA ValidateLabels ==
    ASSUME Inv, NEW r \in Runs, Validate(r)
    PROVE  /\ labelled' = labelled \cup Range(crun[r].map)
           /\ tested' = tested \cup Range(crun[r].objects)
           /\ Range(crun[r].map) \subseteq taken /\ Range(crun[r].objects) \subseteq taken
           /\ Range(crun[r].map) \subseteq Range(crun[r].objects) \cup late
           /\ UNCHANGED <<clusterVars, wk, crun, noteVars>>
<1>1. RecordOK(crun[r], taken, late)
  BY DEF Inv, RecordsOK
<1>2. crun[r].phase = KustFinished
  BY DEF Validate, Kustomized
<1>3. crun[r].phase # New /\ crun[r].phase >= KustFinished
  BY <1>2 DEF New, KustFinished
<1>4. /\ labelled' = labelled \cup Range(crun[r].map)
      /\ tested' = tested \cup Range(crun[r].objects)
      /\ UNCHANGED <<clusterVars, wk, crun, noteVars>>
  BY DEF Validate, RunRest
<1>5. /\ Range(crun[r].map) \subseteq taken /\ Range(crun[r].objects) \subseteq taken
      /\ Range(crun[r].map) \subseteq Range(crun[r].objects) \cup late
  BY <1>1, <1>3 DEF RecordOK
<1>. QED BY <1>4, <1>5

LEMMA ValidateStep == ASSUME Inv, NEW r \in Runs, Validate(r) PROVE Inv'
<1>. DEFINE x == crun[r]
            y == [x EXCEPT !.phase = ValidationFinished]
<1>1. UNCHANGED <<clusterVars, wk, crun, noteVars>>
  BY ValidateLabels
<1>2. labelled' \subseteq taken /\ tested' \subseteq taken
  BY ValidateLabels, TypeFacts DEF Inv
<1>3. CASE Put(r, y)
  <2>1. x \in RunRecords /\ RecordOK(x, taken, late) /\ x.phase = KustFinished
    BY TypeFacts DEF Inv, RecordsOK, Validate, Kustomized
  <2>2. ValidationFinished \in 0..3 /\ KustFinished # New /\ KustFinished >= KustFinished
    BY DEF ValidationFinished, KustFinished, New
  <2>3. /\ y \in RunRecords /\ y.owner = x.owner /\ y.phase = ValidationFinished
        /\ y.map = x.map /\ y.objects = x.objects
    BY <2>1, <2>2, PhaseFacts
  <2>4. RecordOK(y, taken, late)
    BY <2>1, <2>2, <2>3 DEF RecordOK
  <2>. QED BY <1>1, <1>2, <1>3, <2>3, <2>4, PutStep
<1>4. CASE UNCHANGED run
  <2>1. /\ claims' = claims /\ cclaims' = cclaims /\ taken' = taken /\ crun' = crun
        /\ wk' = wk /\ late' = late /\ lagged' = lagged
    BY <1>1 DEF clusterVars, noteVars
  <2>2. TypeOK'
    BY <1>2, <1>4, <2>1 DEF Inv, TypeOK
  <2>3. RecordsOK'
    BY <1>4, <2>1 DEF Inv, RecordsOK
  <2>4. Alone' /\ MakersOK' /\ OneRun'
    BY <1>4, <2>1, MutexKept
  <2>. QED BY <2>2, <2>3, <2>4 DEF Inv
<1>. QED BY <1>3, <1>4 DEF Validate

\* The cluster, the caches, crashes: no record is new.
LEMMA OtherStep ==
    ASSUME Inv,
           \/ \E c \in Claims : AddClaim(c) \/ ListClaim(c)
           \/ \E s \in Snaps : TakeSnapshot(s)
           \/ \E r \in Runs : SyncRun(r)
           \/ Crash
    PROVE  Inv'
<1>1. /\ late' = late /\ lagged' = lagged /\ labelled' = labelled /\ tested' = tested
      /\ run' = run /\ (crun' = run \/ \A r \in Runs : crun'[r] \in {crun[r], run[r]})
      /\ (wk' = wk \/ wk' = [s \in Snaps |-> Idle])
  <2>1. \A r \in Runs : SyncRun(r) => crun' = [crun EXCEPT ![r] = run[r]]
    BY DEF SyncRun
  <2>2. crun \in [Runs -> RunRecords]
    BY TypeFacts DEF Inv
  <2>3. \A r \in Runs : SyncRun(r) => \A t \in Runs : crun'[t] \in {crun[t], run[t]}
    BY <2>1, <2>2
  <2>. QED BY <2>3 DEF AddClaim, ListClaim, TakeSnapshot, SyncRun, Crash, Rest, labelVars, noteVars, runVars
<1>2. /\ claims' \subseteq Claims /\ cclaims' \subseteq claims' /\ taken \subseteq taken'
      /\ taken' \subseteq Snaps
  <2>1. claims \subseteq Claims /\ cclaims \subseteq claims /\ taken \subseteq Snaps
    BY TypeFacts DEF Inv
  <2>. QED BY <2>1 DEF AddClaim, ListClaim, TakeSnapshot, SyncRun, Crash, clusterVars
<1>3. \A s \in Snaps : wk'[s] = wk[s] \/ wk'[s] = Idle
  BY <1>1
<1>4. TypeOK'
  <2>1. wk' \in [Snaps -> WkRecords]
    BY <1>1, IdleType, TypeFacts DEF Inv
  <2>2. \A s \in Snaps : wk'[s].pc = "write" => ClaimOf[s] \in DOMAIN wk'[s].base.map
    BY <1>3, IdleType, TypeFacts DEF Inv
  <2>3. crun' \in [Runs -> RunRecords]
    <3>1. run \in [Runs -> RunRecords] /\ crun \in [Runs -> RunRecords]
      BY TypeFacts DEF Inv
    <3>2. \A r \in Runs : SyncRun(r) => crun' = [crun EXCEPT ![r] = run[r]]
      BY DEF SyncRun
    <3>. QED BY <3>1, <3>2 DEF AddClaim, ListClaim, TakeSnapshot, Crash, runVars
  <2>. QED BY <1>1, <1>2, <2>1, <2>2, <2>3, TypeFacts DEF Inv, TypeOK, WkRecords
<1>5. RecordsOK'
  <2>1. \A r \in Runs : run'[r] = run[r] /\ crun'[r] \in {crun[r], run[r]}
    BY <1>1
  <2>. QED BY <1>1, <1>2, <1>3, <2>1, NoRunOK, RecordsKept DEF Inv
<1>6. Alone' /\ MakersOK' /\ OneRun'
  BY <1>1, <1>3, MutexKept
<1>. QED BY <1>4, <1>5, <1>6 DEF Inv

LEMMA DeleteRunStep == ASSUME Inv, NEW r \in Runs, DeleteRun(r) PROVE Inv'
<1>. DEFINE y == [run[r] EXCEPT !.here = FALSE]
<1>1. /\ run' = [run EXCEPT ![r] = y]
      /\ UNCHANGED <<clusterVars, crun>> /\ UNCHANGED <<wk, labelVars, noteVars>>
  <2>1. run' = [run EXCEPT ![r].here = FALSE]
    BY DEF DeleteRun
  <2>. QED BY <2>1 DEF DeleteRun, Rest
<1>2. run \in [Runs -> RunRecords] /\ run[r] \in RunRecords /\ RecordOK(run[r], taken, late)
  BY TypeFacts DEF Inv, RecordsOK
<1>3. /\ y \in RunRecords /\ y.here = FALSE /\ y.map = run[r].map
      /\ y.phase = run[r].phase /\ y.objects = run[r].objects
  BY <1>2 DEF RunRecords
<1>. HIDE DEF y
<1>4. /\ run' \in [Runs -> RunRecords] /\ run'[r] = y
      /\ \A t \in Runs : t # r => run'[t] = run[t]
  BY <1>1, <1>2, <1>3
<1>5. RecordOK(y, taken, late)
  BY <1>2, <1>3 DEF RecordOK
<1>6. /\ claims' = claims /\ cclaims' = cclaims /\ taken' = taken
      /\ crun' = crun /\ wk' = wk /\ labelled' = labelled /\ tested' = tested
      /\ late' = late /\ lagged' = lagged
  BY <1>1 DEF clusterVars, labelVars, noteVars
<1>8. TypeOK'
  BY <1>4, <1>6, TypeFacts DEF Inv, TypeOK, WkRecords
<1>9. RecordsOK'
  BY <1>4, <1>5, <1>6, RecordsKept, Zenon DEF Inv
<1>10. Alone' /\ MakersOK' /\ OneRun'
  BY <1>3, <1>4, <1>6, MutexKept
<1>. QED BY <1>8, <1>9, <1>10 DEF Inv

LEMMA StepInv == Inv /\ [Next]_vars => Inv'
<1>. SUFFICES ASSUME Inv, [Next]_vars PROVE Inv'
  OBVIOUS
<1>1. CASE UNCHANGED vars
  <2>1. /\ claims' = claims /\ cclaims' = cclaims /\ taken' = taken
        /\ run' = run /\ crun' = crun /\ wk' = wk /\ labelled' = labelled
        /\ tested' = tested /\ late' = late /\ lagged' = lagged
    BY <1>1 DEF vars, clusterVars, runVars, labelVars, noteVars
  <2>2. TypeOK' /\ RecordsOK'
    BY <2>1 DEF Inv, TypeOK, RecordsOK
  <2>3. Alone' /\ MakersOK' /\ OneRun'
    BY <2>1, MutexKept
  <2>. QED BY <2>2, <2>3 DEF Inv
<1>2. CASE \E s \in Snaps : Begin(s)
  BY <1>2, BeginStep
<1>3. CASE \E s \in Snaps : Create(s) \/ Update(s)
  BY <1>3, CreateStep, UpdateStep
<1>4. CASE \E s \in Snaps : CallLost(s)
  BY <1>4, CallLostStep
<1>5. CASE \E r \in Runs : BeforeKust(r) \/ Kust(r) \/ Validate(r)
  BY <1>5, BeforeKustStep, KustStep, ValidateStep
<1>6. CASE \E r \in Runs : DeleteRun(r)
  BY <1>6, DeleteRunStep
<1>7. CASE \/ \E c \in Claims : AddClaim(c) \/ ListClaim(c)
           \/ \E s \in Snaps : TakeSnapshot(s)
           \/ \E r \in Runs : SyncRun(r)
           \/ Crash
  BY <1>7, OtherStep
<1>. QED BY <1>1, <1>2, <1>3, <1>4, <1>5, <1>6, <1>7, Zenon DEF Next, Write, StepRun

----------------------------------------------------------------------------
(* Labels and entries *)

LEMMA LabelsStep == Inv /\ LabelsEarned /\ [Next]_vars => LabelsEarned'
<1>. SUFFICES ASSUME Inv, LabelsEarned, [Next]_vars PROVE LabelsEarned'
  OBVIOUS
<1>1. CASE \E r \in Runs : Validate(r)
  BY <1>1, ValidateLabels DEF LabelsEarned, noteVars
<1>2. CASE ~\E r \in Runs : Validate(r)
  <2>1. labelled' = labelled /\ tested' = tested
    BY <1>2 DEF Next, vars, Write, StepRun, Begin, Create, Update, CallLost, TakeSnapshot, BeforeKust,
                Kust, SyncRun, DeleteRun, AddClaim, ListClaim, Crash, Rest, labelVars
  <2>2. late \subseteq late'
    BY <1>2 DEF Next, vars, Write, StepRun, Begin, Create, Update, CallLost, TakeSnapshot, BeforeKust,
                Kust, SyncRun, DeleteRun, AddClaim, ListClaim, Crash, Rest, RunRest, noteVars
  <2>. QED BY <2>1, <2>2 DEF LabelsEarned
<1>. QED BY <1>1, <1>2

KeepEntries ==
    \A r \in Runs : run[r].here /\ run'[r].here =>
      /\ DOMAIN run'[r].map = DOMAIN run[r].map
      /\ \A c \in DOMAIN run[r].map : run[r].map[c] # None => run'[r].map[c] # None

LEMMA EntriesStep == Inv /\ [Next]_vars => KeepEntries
<1>. SUFFICES ASSUME Inv, [Next]_vars PROVE KeepEntries
  OBVIOUS
<1>1. run \in [Runs -> RunRecords] /\ crun \in [Runs -> RunRecords]
  BY TypeFacts DEF Inv
<1>2. CASE \A r \in Runs : run'[r] = run[r] \/ ~run'[r].here
  BY <1>2 DEF KeepEntries
<1>3. CASE \E s \in Snaps : Create(s)
  <2>1. PICK s \in Snaps : Create(s)
    BY <1>3
  <2>2. PICK r \in Runs : run[r] = NoRun /\ run' = [run EXCEPT ![r] = Copy(s)]
    BY <2>1 DEF Create
  <2>3. ~run[r].here /\ \A t \in Runs : t # r => run'[t] = run[t]
    BY <1>1, <2>2 DEF NoRun
  <2>. QED BY <2>3 DEF KeepEntries
<1>4. CASE \E s \in Snaps : Update(s)
  <2>1. PICK s \in Snaps : Update(s)
    BY <1>4
  <2>. DEFINE r == wk[s].run
              b == wk[s].base
  <2>2. wk[s].pc = "write" /\ s # None
    BY <2>1, AutoAssumption DEF Update
  <2>3. CASE ~Accepted(r, b)
    BY <2>1, <2>3 DEF Update, KeepEntries
  <2>4. CASE Accepted(r, b)
    <3>1. run' = [run EXCEPT ![r] = Copy(s)] /\ run[r] = b
      BY <2>1, <2>4 DEF Update, Accepted
    <3>2. /\ DOMAIN Copy(s).map = DOMAIN b.map /\ Copy(s).map[ClaimOf[s]] = s
          /\ \A d \in DOMAIN b.map : d # ClaimOf[s] => Copy(s).map[d] = b.map[d]
      BY <2>2, CopyFacts DEF Inv
    <3>3. \A t \in Runs : run'[t] = IF t = r THEN Copy(s) ELSE run[t]
      BY <1>1, <3>1
    <3>. QED BY <2>2, <3>1, <3>2, <3>3 DEF KeepEntries
  <2>. QED BY <2>3, <2>4
<1>5. ASSUME NEW r \in Runs, NEW x \in RunRecords, Put(r, x), x.map = crun[r].map
      PROVE  KeepEntries
  <2>1. run[r] = crun[r] /\ run' = [run EXCEPT ![r] = x]
    BY <1>5 DEF Put, Accepted
  <2>2. \A t \in Runs : run'[t].map = run[t].map
    BY <1>1, <1>5, <2>1
  <2>. QED BY <2>2 DEF KeepEntries
<1>6. ASSUME NEW r \in Runs, BeforeKust(r) \/ Kust(r) \/ Validate(r)
      PROVE  KeepEntries
  <2>1. crun[r] \in RunRecords /\ RecordOK(crun[r], taken, late)
    BY <1>1 DEF Inv, RecordsOK
  <2>2. CASE BeforeKust(r)
    <3>1. Put(r, [crun[r] EXCEPT !.phase = KustStarted]) /\ KustStarted \in 0..3
      BY <2>2 DEF BeforeKust, KustStarted
    <3>. QED BY <1>5, <2>1, <3>1, PhaseFacts
  <2>3. CASE Validate(r)
    <3>1. Put(r, [crun[r] EXCEPT !.phase = ValidationFinished]) \/ run' = run
      BY <2>3 DEF Validate
    <3>2. ValidationFinished \in 0..3
      BY DEF ValidationFinished
    <3>3. CASE Put(r, [crun[r] EXCEPT !.phase = ValidationFinished])
      BY <1>5, <2>1, <3>2, <3>3, PhaseFacts
    <3>4. CASE run' = run
      BY <3>4, <1>2
    <3>. QED BY <3>1, <3>3, <3>4
  <2>4. CASE Kust(r)
    <3>. DEFINE x == crun[r]
                y == [x EXCEPT !.phase = KustFinished, !.objects = x.map]
    <3>1. Put(r, y)
      BY <2>4 DEF Kust
    <3>2. run[r] = x /\ run' = [run EXCEPT ![r] = y] /\ y.map = x.map
      BY <2>1, <3>1 DEF Put, Accepted, RunRecords
    <3>3. \A t \in Runs : run'[t].map = run[t].map
      BY <1>1, <3>2
    <3>. QED BY <3>3 DEF KeepEntries
  <2>. QED BY <1>6, <2>2, <2>3, <2>4
<1>7. CASE \E r \in Runs : DeleteRun(r)
  <2>1. PICK r \in Runs : run' = [run EXCEPT ![r].here = FALSE]
    BY <1>7 DEF DeleteRun
  <2>2. run[r] \in RunRecords
    BY <1>1
  <2>3. \A t \in Runs : run'[t] = run[t] \/ ~run'[t].here
    BY <1>1, <2>1, <2>2 DEF RunRecords
  <2>. QED BY <1>2, <2>3
<1>8. CASE \/ UNCHANGED vars \/ Crash
           \/ \E s \in Snaps : Begin(s) \/ CallLost(s) \/ TakeSnapshot(s)
           \/ \E r \in Runs : SyncRun(r)
           \/ \E c \in Claims : AddClaim(c) \/ ListClaim(c)
  <2>1. run' = run
    BY <1>8 DEF vars, Crash, Begin, CallLost, TakeSnapshot, SyncRun, AddClaim, ListClaim, runVars
  <2>. QED BY <1>2, <2>1
<1>. QED BY <1>3, <1>4, <1>6, <1>7, <1>8, Zenon DEF Next, Write, StepRun

----------------------------------------------------------------------------
(* Theorems *)

\* What runs, their cached versions and the versions workers have read say holds
\* together with the mutexes of ProcessSnapshot in every state.
THEOREM InvCorrect == Spec => []Inv
  BY InitInv, StepInv, PTL DEF Spec

\* Every value keeps its type, whatever ProcessSnapshot and ProcessValidationRun do.
THEOREM TypeCorrect == Spec => []TypeOK
<1>1. Inv => TypeOK
  BY DEF Inv
<1>. QED BY <1>1, InvCorrect, PTL

\* The workers of one strategy make one run, but for one the cache does not list yet:
\* the mutex of ProcessSnapshot.
THEOREM OneRunCorrect == Spec => []OneRun
<1>1. Inv => OneRun
  BY DEF Inv
<1>. QED BY <1>1, InvCorrect, PTL

\* No run that has passed beforeKust lacks a snapshot of one of its claims.
THEOREM StartedCorrect == Spec => []StartedComplete
<1>1. Inv => StartedComplete
  BY DEF Inv, RecordsOK, RecordOK, StartedComplete
<1>. QED BY <1>1, InvCorrect, PTL

\* Only what was tested, or came into the run late, is labelled by validation.
THEOREM LabelsCorrect == Spec => []LabelsEarned
<1>1. Init => LabelsEarned
  BY DEF Init, LabelsEarned
<1>. QED BY <1>1, InvCorrect, LabelsStep, PTL DEF Spec

\* updateRun never takes an entry out of a run again, nor does a put of a phase.
THEOREM EntriesCorrect == Spec => EntriesKept
<1>1. Inv /\ [Next]_vars => [KeepEntries]_vars
  BY EntriesStep
<1>2. EntriesKept <=> [][KeepEntries]_vars
  BY DEF EntriesKept, KeepEntries
<1>. QED BY <1>1, <1>2, InvCorrect, PTL DEF Spec
=============================================================================
