---------------------------- MODULE WarmingProofs ----------------------------
(***************************************************************************)
(* Proofs that the advisory lock excludes the burst and the periodic job,  *)
(* is never left behind, and that the result of a burst is reported        *)
(* truthfully, for any number of pairs, any TTLs and any ceiling.          *)
(***************************************************************************)
EXTENDS Warming, TLAPS

USE WarmingAssumption

\* TypeOK, by the groups of variables that actions change together.
WorldOK == observed \subseteq Pairs /\ enabled \in BOOLEAN
CacheOK ==
  /\ cache \in [Pairs -> Ttls \cup {NoTtl}]
  /\ due \subseteq {p \in Pairs : cache[p] # NoTtl}
  /\ rec \in [Passes -> [Pairs -> Ttls \cup {NoTtl}]]
  /\ shortest \in [Pairs -> Ttls \cup {NoTtl}] /\ raced \subseteq Pairs
SessionOK == lock \in Lockers \cup {"free"} /\ lost \subseteq Lockers
StageOK == stage \in [Passes -> Stages]
TodoOK == todo \in [Passes -> SUBSET Pairs]
BootOK ==
  /\ outcome \in [Pairs -> {"idle", "open", "ok", "failed"}]
  /\ ret \in BOOLEAN /\ result \in Results
  /\ polls \in 0 .. MaxPolls

\* A pass in the locked section has the lock or has lost the session with it.
LockHeld ==
  /\ \A a \in Lockers : Locked(a) => lock = a \/ a \in lost
  /\ LockNotLeaked

Nothing == \A p \in Pairs : outcome[p] = "idle"

\* What the boot thread is about to report: the burst's status is computed from
\* final outcomes, and whatever counts as warmed is in the cache.
ReportReady ==
  /\ stage["burst"] \notin {"warm", "unlock"} => Nothing
  /\ ret => stage["burst"] = "unlock"
  /\ \A p \in Pairs : outcome[p] = "ok" => cache[p] # NoTtl
  /\ stage["burst"] = "unlock" =>
       \/ Nothing /\ (ret => result \in {"no-pairs", "completed"})
       \/ ret /\ result = "error"
       \/ ret /\ Having("open") = {} /\ result = StatusFor

IInv == TypeOK /\ LockHeld /\ ReportReady

LEMMA TypeParts ==
  TypeOK <=> WorldOK /\ CacheOK /\ SessionOK /\ StageOK /\ TodoOK /\ BootOK
BY DEF TypeOK, WorldOK, CacheOK, SessionOK, StageOK, TodoOK, BootOK

LEMMA TypeJoined ==
  ASSUME WorldOK', CacheOK', SessionOK', StageOK', TodoOK', BootOK' PROVE TypeOK'
BY DEF TypeOK, WorldOK, CacheOK, SessionOK, StageOK, TodoOK, BootOK

\* Groups that a step does not touch stay well typed.
LEMMA WorldKept == ASSUME WorldOK, UNCHANGED world PROVE WorldOK'
BY DEF WorldOK, world
LEMMA CacheKept == ASSUME CacheOK, UNCHANGED ttlCache PROVE CacheOK'
BY DEF CacheOK, ttlCache
LEMMA SessionKept == ASSUME SessionOK, UNCHANGED session PROVE SessionOK'
BY DEF SessionOK, session
LEMMA BootKept == ASSUME BootOK, UNCHANGED bootState PROVE BootOK'
BY DEF BootOK, bootState

LEMMA GotoOK ==
  ASSUME StageOK, NEW a \in Passes, NEW s \in Stages, Goto(a, s)
  PROVE  /\ StageOK' /\ stage'[a] = s
         /\ \A b \in Passes : b # a => stage'[b] = stage[b]
BY DEF StageOK, Goto

LEMMA InitIInv == Init => IInv
<1> SUFFICES ASSUME Init PROVE IInv
  OBVIOUS
<1>1. EmptyCache \in [Pairs -> Ttls \cup {NoTtl}]
  BY DEF EmptyCache
<1>2. WorldOK
  BY DEF Init, WorldOK
<1>3. CacheOK
  BY <1>1 DEF Init, CacheOK, NoRecs
<1>4. SessionOK
  BY DEF Init, SessionOK
<1>5. StageOK /\ TodoOK
  BY DEF Init, StageOK, TodoOK, AtStart, NothingToDo, Stages, Passes
<1>6. BootOK
  <2>1. outcome \in [Pairs -> {"idle", "open", "ok", "failed"}]
    BY DEF Init, NoBurst
  <2>2. polls \in 0 .. MaxPolls
    BY DEF Init
  <2> QED BY <2>1, <2>2 DEF Init, BootOK, Results
<1>7. LockHeld
  BY DEF Init, LockHeld, LockNotLeaked, Locked, AtStart, Lockers, Passes
<1>8. ReportReady
  BY DEF Init, ReportReady, Nothing, NoBurst, AtStart, Passes
<1> QED BY <1>2, <1>3, <1>4, <1>5, <1>6, <1>7, <1>8, TypeParts DEF IInv

-----------------------------------------------------------------------------
(* What the helpers preserve *)

LEMMA ObserveFacts ==
  ASSUME CacheOK, NEW a \in Passes, NEW p \in Pairs, Observe(a, p)
  PROVE  CacheOK' /\ cache' = cache
<1>1. PICK ttl \in Ttls :
        /\ rec' = [rec EXCEPT ![a][p] = Recorded(cache[p], ttl)]
        /\ shortest' = [shortest EXCEPT ![p] =
                          IF p \in raced' THEN NoTtl
                          ELSE IF @ = NoTtl THEN ttl ELSE Smaller(@, ttl)]
  BY DEF Observe
<1>2. Recorded(cache[p], ttl) \in Ttls \cup {NoTtl}
  BY DEF CacheOK, Recorded, Smaller
<1>3. rec' \in [Passes -> [Pairs -> Ttls \cup {NoTtl}]]
  BY <1>1, <1>2 DEF CacheOK
<1>4. shortest' \in [Pairs -> Ttls \cup {NoTtl}]
  BY <1>1 DEF CacheOK, Smaller
<1>5. raced' \subseteq Pairs /\ cache' = cache /\ due' = due
  BY DEF CacheOK, Observe
<1> QED BY <1>3, <1>4, <1>5 DEF CacheOK

LEMMA RecordFacts ==
  ASSUME CacheOK, NEW a \in Passes, NEW p \in Pairs, Record(a, p)
  PROVE  /\ CacheOK' /\ cache'[p] # NoTtl
         /\ \A q \in Pairs : cache[q] # NoTtl => cache'[q] # NoTtl
<1>1. rec[a][p] \in Ttls /\ rec[a][p] # NoTtl
  BY DEF CacheOK, Record
<1>2. cache' = [cache EXCEPT ![p] = rec[a][p]]
  BY DEF Record
<1>3. cache' \in [Pairs -> Ttls \cup {NoTtl}] /\ cache'[p] # NoTtl
      /\ \A q \in Pairs : cache[q] # NoTtl => cache'[q] # NoTtl
  BY <1>1, <1>2 DEF CacheOK
<1>4. rec' \in [Passes -> [Pairs -> Ttls \cup {NoTtl}]]
  BY DEF CacheOK, Record
<1>5. due' \subseteq {q \in Pairs : cache'[q] # NoTtl}
  BY <1>3 DEF CacheOK, Record
<1>6. UNCHANGED <<shortest, raced>>
  BY DEF Record
<1> QED BY <1>3, <1>4, <1>5, <1>6 DEF CacheOK

\* Steps that neither take nor give back the lock.
LEMMA LockKept ==
  ASSUME LockHeld, UNCHANGED session, \A a \in Lockers : Locked(a)' <=> Locked(a)
  PROVE  LockHeld'
BY DEF LockHeld, LockNotLeaked, session, Lockers

\* A pass takes the lock.
LEMMA LockTaken ==
  ASSUME LockHeld, SessionOK, NEW a \in Lockers, TryLock(a), Locked(a)',
         \A b \in Lockers : b # a => (Locked(b)' <=> Locked(b))
  PROVE  LockHeld' /\ SessionOK'
<1>1. lock = "free" /\ lock' = a /\ lost' = lost \ {a}
  BY DEF TryLock, Acquired
<1> QED BY <1>1 DEF LockHeld, LockNotLeaked, SessionOK, Lockers

\* A pass gives the lock back.
LEMMA LockReturned ==
  ASSUME LockHeld, SessionOK, NEW a \in Lockers,
         lock' = Unlocked(a), lost' = lost \ {a}, ~Locked(a)',
         \A b \in Lockers : b # a => (Locked(b)' <=> Locked(b))
  PROVE  LockHeld' /\ SessionOK'
BY DEF LockHeld, LockNotLeaked, SessionOK, Lockers, Unlocked

\* Steps of the job, of the button and of the environment.
LEMMA ReportKept ==
  ASSUME ReportReady, UNCHANGED <<outcome, ret, result>>, stage'["burst"] = stage["burst"],
         \A p \in Pairs : cache[p] # NoTtl => cache'[p] # NoTtl
  PROVE  ReportReady'
BY DEF ReportReady, Nothing, Having, StatusFor

-----------------------------------------------------------------------------
(* The boot thread *)

\* What every step of the boot thread leaves alone.
LEMMA BurstMoves ==
  ASSUME StageOK, NEW s \in Stages, Goto("burst", s)
  PROVE  /\ StageOK' /\ stage'["burst"] = s
         /\ Locked("job")' <=> Locked("job")
         /\ Locked("burst")' <=> s \in {"select", "warm", "unlock"}
BY GotoOK DEF Locked, Passes

LEMMA EntryStep == ASSUME IInv, Entry PROVE IInv'
<1>1. stage["burst"] = "start" /\ UNCHANGED <<world, ttlCache, session, todo, outcome, ret, polls>>
  BY DEF Entry
<1>2. \/ Goto("burst", "off") /\ result' \in {"disabled", "error"}
      \/ Goto("burst", "ready") /\ result' = result
  BY DEF Entry, Report
<1>3. /\ StageOK' /\ stage'["burst"] \in {"off", "ready"}
      /\ \A a \in Lockers : Locked(a)' <=> Locked(a)
  BY <1>1, <1>2, BurstMoves, TypeParts DEF IInv, Stages, Lockers, Locked
<1>4. TypeOK'
  <2>1. BootOK'
    BY <1>1, <1>2, TypeParts DEF IInv, BootOK, Results
  <2>2. TodoOK'
    BY <1>1, TypeParts DEF IInv, TodoOK
  <2> QED BY <1>1, <1>3, <2>1, <2>2, TypeParts, TypeJoined, WorldKept, CacheKept, SessionKept DEF IInv
<1>5. LockHeld'
  BY <1>1, <1>3, LockKept DEF IInv
<1>6. ReportReady'
  BY <1>1, <1>3 DEF IInv, ReportReady, Nothing, ttlCache
<1> QED BY <1>4, <1>5, <1>6 DEF IInv

LEMMA ProbeStep == ASSUME IInv, Probe PROVE IInv'
<1>1. stage["burst"] = "ready" /\ UNCHANGED <<world, ttlCache, session, todo, outcome, ret>>
  BY DEF Probe
<1>2. \/ Goto("burst", "lock") /\ result' = result /\ polls' = 0
      \/ polls # MaxPolls /\ polls' = polls + 1 /\ UNCHANGED <<stage, result>>
      \/ Goto("burst", "off") /\ result' = "unready" /\ polls' = 0
  BY DEF Probe, Report, DeadlinePassed
<1>3. /\ StageOK' /\ stage'["burst"] \in {"lock", "ready", "off"}
      /\ \A a \in Lockers : Locked(a)' <=> Locked(a)
  <2>1. CASE UNCHANGED stage
    BY <1>1, <2>1, TypeParts DEF IInv, StageOK, Locked
  <2> QED BY <1>1, <1>2, <2>1, BurstMoves, TypeParts DEF IInv, Stages, Lockers, Locked
<1>4. TypeOK'
  <2>1. polls' \in 0 .. MaxPolls
    BY <1>2, TypeParts DEF IInv, BootOK
  <2>2. BootOK'
    BY <1>1, <1>2, <2>1, TypeParts DEF IInv, BootOK, Results
  <2>3. TodoOK'
    BY <1>1, TypeParts DEF IInv, TodoOK
  <2> QED BY <1>1, <1>3, <2>2, <2>3, TypeParts, TypeJoined, WorldKept, CacheKept, SessionKept DEF IInv
<1>5. LockHeld'
  BY <1>1, <1>3, LockKept DEF IInv
<1>6. ReportReady'
  BY <1>1, <1>3 DEF IInv, ReportReady, Nothing, ttlCache
<1> QED BY <1>4, <1>5, <1>6 DEF IInv

LEMMA BootLockStep == ASSUME IInv, BootLock PROVE IInv'
<1>1. stage["burst"] = "lock" /\ UNCHANGED <<world, ttlCache, todo, outcome, ret, polls>>
  BY DEF BootLock
<1>2. result' \in {result, "skipped-lock"} /\ StageOK' /\ stage'["burst"] \in {"select", "off"}
  BY BurstMoves, TypeParts DEF IInv, BootLock, Report, Stages
<1>3. LockHeld' /\ SessionOK'
  <2>1. CASE TryLock("burst") /\ Goto("burst", "select")
    <3>1. Locked("burst")' /\ (Locked("job")' <=> Locked("job"))
      BY <2>1, BurstMoves, TypeParts DEF IInv, Stages
    <3> QED BY <2>1, <3>1, LockTaken, TypeParts DEF IInv, Lockers
  <2>2. CASE Goto("burst", "off") /\ UNCHANGED session
    <3>1. \A a \in Lockers : Locked(a)' <=> Locked(a)
      BY <1>1, <2>2, BurstMoves, TypeParts DEF IInv, Stages, Lockers, Locked
    <3> QED BY <2>2, <3>1, LockKept, SessionKept, TypeParts DEF IInv
  <2> QED BY <2>1, <2>2 DEF BootLock, Report
<1>4. TypeOK'
  <2>1. BootOK'
    BY <1>1, <1>2, TypeParts DEF IInv, BootOK, Results
  <2>2. TodoOK'
    BY <1>1, TypeParts DEF IInv, TodoOK
  <2> QED BY <1>1, <1>2, <1>3, <2>1, <2>2, TypeParts, TypeJoined, WorldKept, CacheKept DEF IInv
<1>5. ReportReady'
  BY <1>1, <1>2 DEF IInv, ReportReady, Nothing, ttlCache
<1> QED BY <1>3, <1>4, <1>5 DEF IInv

LEMMA BootSelectStep == ASSUME IInv, BootSelect PROVE IInv'
<1>1. stage["burst"] = "select" /\ UNCHANGED <<world, ttlCache, session, todo, polls>>
  BY DEF BootSelect
<1>2. Nothing /\ ~ret
  BY <1>1 DEF IInv, ReportReady
<1>3. /\ StageOK' /\ stage'["burst"] \in {"warm", "unlock"}
      /\ \A a \in Lockers : Locked(a)' <=> Locked(a)
  BY <1>1, BurstMoves, TypeParts DEF IInv, BootSelect, Stages, Lockers, Locked
<1>4. \/ /\ stage'["burst"] = "unlock" /\ outcome' = outcome
         /\ (ret' = TRUE /\ result' \in {"no-pairs", "completed"}) \/ (ret' = ret /\ result' = result)
      \/ /\ stage'["burst"] = "warm" /\ ret' = ret /\ result' = result
         /\ outcome' = [p \in Pairs |-> IF p \in FirstOf(NeedingRefresh) THEN "open" ELSE "idle"]
  BY BurstMoves, TypeParts DEF IInv, BootSelect, Stages
<1>5. TypeOK'
  <2>1. outcome' \in [Pairs -> {"idle", "open", "ok", "failed"}]
    BY <1>4, TypeParts DEF IInv, BootOK
  <2>2. BootOK'
    BY <1>1, <1>4, <2>1, TypeParts DEF IInv, BootOK, Results
  <2>3. TodoOK'
    BY <1>1, TypeParts DEF IInv, TodoOK
  <2> QED BY <1>1, <1>3, <2>2, <2>3, TypeParts, TypeJoined, WorldKept, CacheKept, SessionKept DEF IInv
<1>6. LockHeld'
  BY <1>1, <1>3, LockKept DEF IInv
<1>7. ReportReady'
  <2>1. cache' = cache
    BY <1>1 DEF ttlCache
  <2>2. CASE stage'["burst"] = "unlock"
    BY <1>2, <1>4, <2>1, <2>2 DEF IInv, ReportReady, Nothing
  <2>3. CASE stage'["burst"] = "warm"
    BY <1>2, <1>4, <2>1, <2>3 DEF IInv, ReportReady
  <2> QED BY <1>3, <2>2, <2>3
<1> QED BY <1>5, <1>6, <1>7 DEF IInv

\* A step of the pool: the stage stays, one pair may be settled.
LEMMA PoolStep ==
  ASSUME IInv, stage["burst"] = "warm", UNCHANGED <<world, session, stage, todo, ret, result, polls>>,
         CacheOK', outcome' \in [Pairs -> {"idle", "open", "ok", "failed"}],
         \A p \in Pairs : outcome'[p] = "ok" => cache'[p] # NoTtl
  PROVE  IInv'
<1>1. TypeOK'
  <2>1. BootOK'
    BY TypeParts DEF IInv, BootOK
  <2>2. StageOK' /\ TodoOK'
    BY TypeParts DEF IInv, StageOK, TodoOK
  <2> QED BY <2>1, <2>2, TypeParts, TypeJoined, WorldKept, SessionKept DEF IInv
<1>2. LockHeld'
  BY LockKept DEF IInv, Locked
<1>3. ReportReady'
  BY DEF IInv, ReportReady
<1> QED BY <1>1, <1>2, <1>3 DEF IInv

LEMMA BurstObserveStep == ASSUME IInv, NEW p \in Pairs, BurstObserve(p) PROVE IInv'
<1>1. CacheOK' /\ cache' = cache
  BY ObserveFacts, TypeParts DEF IInv, BurstObserve, Passes
<1>2. stage["burst"] = "warm" /\ UNCHANGED <<world, session, stage, todo, bootState>>
  BY DEF BurstObserve
<1>3. outcome' \in [Pairs -> {"idle", "open", "ok", "failed"}]
      /\ \A q \in Pairs : outcome'[q] = "ok" => cache'[q] # NoTtl
  BY <1>1, <1>2, TypeParts DEF IInv, BootOK, ReportReady, bootState
<1> QED BY <1>1, <1>2, <1>3, PoolStep DEF bootState

LEMMA BurstRecordStep == ASSUME IInv, NEW p \in Pairs, BurstRecord(p) PROVE IInv'
<1>1. /\ CacheOK' /\ cache'[p] # NoTtl
      /\ \A q \in Pairs : cache[q] # NoTtl => cache'[q] # NoTtl
  BY RecordFacts, TypeParts DEF IInv, BurstRecord, Passes
<1>2. stage["burst"] = "warm" /\ UNCHANGED <<world, session, stage, todo, ret, result, polls>>
      /\ outcome' = [outcome EXCEPT ![p] = "ok"]
  BY DEF BurstRecord
<1>3. outcome' \in [Pairs -> {"idle", "open", "ok", "failed"}]
      /\ \A q \in Pairs : outcome'[q] = "ok" => cache'[q] # NoTtl
  BY <1>1, <1>2, TypeParts DEF IInv, BootOK, ReportReady
<1> QED BY <1>1, <1>2, <1>3, PoolStep

LEMMA BurstGivesUpStep == ASSUME IInv, NEW p \in Pairs, BurstGivesUp(p) PROVE IInv'
<1>1. stage["burst"] = "warm" /\ UNCHANGED <<world, ttlCache, session, stage, todo, ret, result, polls>>
      /\ outcome' = [outcome EXCEPT ![p] = "failed"]
  BY DEF BurstGivesUp
<1>2. CacheOK' /\ cache' = cache
  BY <1>1, CacheKept, TypeParts DEF IInv, ttlCache
<1>3. outcome' \in [Pairs -> {"idle", "open", "ok", "failed"}]
      /\ \A q \in Pairs : outcome'[q] = "ok" => cache'[q] # NoTtl
  BY <1>1, <1>2, TypeParts DEF IInv, BootOK, ReportReady
<1> QED BY <1>1, <1>2, <1>3, PoolStep

LEMMA BurstReturnsStep == ASSUME IInv, BurstReturns PROVE IInv'
<1>1. /\ stage["burst"] = "warm" /\ UNCHANGED <<world, ttlCache, session, todo, outcome, polls>>
      /\ ret' = TRUE /\ Goto("burst", "unlock")
      /\ (Having("open") = {} /\ result' = StatusFor) \/ result' = "error"
  BY DEF BurstReturns
<1>2. /\ StageOK' /\ stage'["burst"] = "unlock"
      /\ \A a \in Lockers : Locked(a)' <=> Locked(a)
  BY <1>1, BurstMoves, TypeParts DEF IInv, Stages, Lockers, Locked
<1>3. TypeOK'
  <2>1. StatusFor \in Results
    BY DEF StatusFor, Results
  <2>2. BootOK'
    BY <1>1, <2>1, TypeParts DEF IInv, BootOK, Results
  <2>3. TodoOK'
    BY <1>1, TypeParts DEF IInv, TodoOK
  <2> QED BY <1>1, <1>2, <2>2, <2>3, TypeParts, TypeJoined, WorldKept, CacheKept, SessionKept DEF IInv
<1>4. LockHeld'
  BY <1>1, <1>2, LockKept DEF IInv
<1>5. ReportReady'
  <2>1. \A p \in Pairs : outcome'[p] = "ok" => cache'[p] # NoTtl
    BY <1>1 DEF IInv, ReportReady, ttlCache
  <2>2. (result' = "error") \/ (Having("open")' = {} /\ result' = StatusFor')
    BY <1>1 DEF Having, StatusFor
  <2> QED BY <1>1, <1>2, <2>1, <2>2 DEF ReportReady
<1> QED BY <1>3, <1>4, <1>5 DEF IInv

LEMMA BootUnlockStep == ASSUME IInv, BootUnlock PROVE IInv'
<1>1. /\ stage["burst"] = "unlock" /\ UNCHANGED <<world, ttlCache, todo, polls>>
      /\ lock' = Unlocked("burst") /\ lost' = lost \ {"burst"}
      /\ ret' = FALSE /\ outcome' = NoBurst /\ Goto("burst", "off")
      /\ result' \in {result, "skipped-lock"}
  BY DEF BootUnlock, Final
<1>2. StageOK' /\ stage'["burst"] = "off" /\ ~Locked("burst")' /\ (Locked("job")' <=> Locked("job"))
  BY <1>1, BurstMoves, TypeParts DEF IInv, Stages
<1>3. LockHeld' /\ SessionOK'
  BY <1>1, <1>2, LockReturned, TypeParts DEF IInv, Lockers
<1>4. TypeOK'
  <2>1. outcome' \in [Pairs -> {"idle", "open", "ok", "failed"}]
    BY <1>1 DEF NoBurst
  <2>2. BootOK'
    BY <1>1, <2>1, TypeParts DEF IInv, BootOK, Results
  <2>3. TodoOK'
    BY <1>1, TypeParts DEF IInv, TodoOK
  <2> QED BY <1>1, <1>2, <1>3, <2>2, <2>3, TypeParts, TypeJoined, WorldKept, CacheKept DEF IInv
<1>5. ReportReady'
  BY <1>1, <1>2 DEF ReportReady, Nothing, NoBurst
<1> QED BY <1>3, <1>4, <1>5 DEF IInv

-----------------------------------------------------------------------------
(* The job and the button *)

\* A step of a sequential pass that leaves the lock alone.
LEMMA PassStepKept ==
  ASSUME IInv, NEW a \in Sequential, NEW s \in Stages,
         UNCHANGED <<world, session, bootState>>,
         CacheOK', \A p \in Pairs : cache[p] # NoTtl => cache'[p] # NoTtl,
         TodoOK', stage' = stage \/ Goto(a, s),
         stage' # stage /\ a = "job" => stage["job"] = "warm" /\ s = "unlock"
  PROVE  IInv'
<1>1. /\ StageOK' /\ stage'["burst"] = stage["burst"]
      /\ \A b \in Lockers : Locked(b)' <=> Locked(b)
  <2>1. CASE stage' = stage
    BY <2>1, TypeParts DEF IInv, StageOK, Locked
  <2>2. CASE stage' # stage /\ Goto(a, s)
    BY <2>2, GotoOK, TypeParts DEF IInv, Sequential, Passes, Lockers, Locked
  <2> QED BY <2>1, <2>2
<1>2. TypeOK'
  BY <1>1, TypeParts, TypeJoined, WorldKept, SessionKept, BootKept DEF IInv
<1>3. LockHeld'
  BY <1>1, LockKept DEF IInv
<1>4. ReportReady'
  BY <1>1, ReportKept DEF IInv, bootState
<1> QED BY <1>2, <1>3, <1>4 DEF IInv

LEMMA JobStartStep == ASSUME IInv, JobStart PROVE IInv'
<1>1. stage["job"] = "off" /\ TryLock("job") /\ UNCHANGED <<world, ttlCache, bootState>>
  BY DEF JobStart
<1>2. (Goto("job", "warm") \/ Goto("job", "unlock")) /\ TodoOK'
  <2>1. FirstOf(NeedingRefresh) \subseteq Pairs
    BY TypeParts DEF IInv, WorldOK, FirstOf, NeedingRefresh
  <2> QED BY <2>1, TypeParts DEF IInv, JobStart, TodoOK
<1>3. StageOK' /\ stage'["burst"] = stage["burst"] /\ Locked("job")' /\ (Locked("burst")' <=> Locked("burst"))
  BY <1>2, GotoOK, TypeParts DEF IInv, Stages, Passes, Locked
<1>4. LockHeld' /\ SessionOK'
  BY <1>1, <1>3, LockTaken, TypeParts DEF IInv, Lockers
<1>5. TypeOK'
  BY <1>1, <1>2, <1>3, <1>4, TypeParts, TypeJoined, WorldKept, CacheKept, BootKept DEF IInv
<1>6. ReportReady'
  BY <1>1, <1>3, ReportKept DEF IInv, bootState, ttlCache
<1> QED BY <1>4, <1>5, <1>6 DEF IInv

LEMMA JobEndStep == ASSUME IInv, JobEnd PROVE IInv'
<1>1. stage["job"] = "warm" /\ Goto("job", "unlock")
      /\ UNCHANGED <<world, ttlCache, session, todo, bootState>>
  BY DEF JobEnd
<1>2. CacheOK' /\ TodoOK' /\ cache' = cache
  BY <1>1, CacheKept, TypeParts DEF IInv, TodoOK, ttlCache
<1>3. "job" \in Sequential /\ "unlock" \in Stages
  BY DEF Sequential, Stages
<1> QED BY <1>1, <1>2, <1>3, PassStepKept

LEMMA JobUnlockStep == ASSUME IInv, JobUnlock PROVE IInv'
<1>1. /\ lock' = Unlocked("job") /\ lost' = lost \ {"job"} /\ Goto("job", "off")
      /\ UNCHANGED <<world, ttlCache, todo, bootState>>
  BY DEF JobUnlock
<1>2. StageOK' /\ stage'["burst"] = stage["burst"] /\ ~Locked("job")' /\ (Locked("burst")' <=> Locked("burst"))
  BY <1>1, GotoOK, TypeParts DEF IInv, Stages, Passes, Locked
<1>3. LockHeld' /\ SessionOK'
  BY <1>1, <1>2, LockReturned, TypeParts DEF IInv, Lockers
<1>4. TypeOK'
  <2>1. TodoOK'
    BY <1>1, TypeParts DEF IInv, TodoOK
  <2> QED BY <1>1, <1>2, <1>3, <2>1, TypeParts, TypeJoined, WorldKept, CacheKept, BootKept DEF IInv
<1>5. ReportReady'
  BY <1>1, <1>2, ReportKept DEF IInv, bootState, ttlCache
<1> QED BY <1>3, <1>4, <1>5 DEF IInv

LEMMA ButtonStep == ASSUME IInv, ManualStart \/ ManualEnd PROVE IInv'
<1>1. (Goto("manual", "warm") \/ Goto("manual", "off")) /\ UNCHANGED <<world, ttlCache, session, bootState>>
  BY DEF ManualStart, ManualEnd
<1>2. TodoOK'
  <2>1. FirstOf(observed) \subseteq Pairs
    BY TypeParts DEF IInv, WorldOK, FirstOf
  <2> QED BY <2>1, TypeParts DEF IInv, ManualStart, ManualEnd, TodoOK
<1>3. CacheOK' /\ cache' = cache
  BY <1>1, CacheKept, TypeParts DEF IInv, ttlCache
<1>4. "manual" \in Sequential /\ "warm" \in Stages /\ "off" \in Stages /\ "manual" # "job"
  BY DEF Sequential, Stages
<1> QED BY <1>1, <1>2, <1>3, <1>4, PassStepKept

LEMMA PassStepStep == ASSUME IInv, NEW a \in Sequential, PassStep(a) PROVE IInv'
<1>1. PICK p \in Pairs : PassObserve(a, p) \/ PassRecord(a, p) \/ PassFails(a, p)
  BY DEF PassStep
<1>2. UNCHANGED <<world, session, stage, bootState>>
  BY <1>1 DEF PassObserve, PassRecord, PassFails
<1>3. TodoOK'
  BY <1>1, TypeParts DEF IInv, TodoOK, PassObserve, PassRecord, PassFails
<1>4. a \in Passes /\ "off" \in Stages
  BY DEF Sequential, Passes, Stages
<1>5. CacheOK' /\ \A q \in Pairs : cache[q] # NoTtl => cache'[q] # NoTtl
  <2>1. CASE PassObserve(a, p)
    BY <1>4, <2>1, ObserveFacts, TypeParts DEF IInv, PassObserve
  <2>2. CASE PassRecord(a, p)
    BY <1>4, <2>2, RecordFacts, TypeParts DEF IInv, PassRecord
  <2>3. CASE PassFails(a, p)
    BY <2>3, CacheKept, TypeParts DEF IInv, PassFails, ttlCache
  <2> QED BY <1>1, <2>1, <2>2, <2>3
<1> QED BY <1>2, <1>3, <1>4, <1>5, PassStepKept

-----------------------------------------------------------------------------
(* The environment *)

LEMMA SessionLostStep == ASSUME IInv, NEW a \in Lockers, SessionLost(a) PROVE IInv'
<1>1. lock = a /\ lock' = "free" /\ lost' = lost \cup {a}
      /\ UNCHANGED <<world, ttlCache, stage, todo, bootState>>
  BY DEF SessionLost
<1>2. LockHeld' /\ SessionOK'
  BY <1>1, TypeParts DEF IInv, LockHeld, LockNotLeaked, Locked, SessionOK, Lockers
<1>3. TypeOK'
  <2>1. StageOK' /\ TodoOK'
    BY <1>1, TypeParts DEF IInv, StageOK, TodoOK
  <2> QED BY <1>1, <1>2, <2>1, TypeParts, TypeJoined, WorldKept, CacheKept, BootKept DEF IInv
<1>4. ReportReady'
  BY <1>1, ReportKept DEF IInv, bootState, ttlCache
<1> QED BY <1>2, <1>3, <1>4 DEF IInv

\* Steps that no pass takes part in.
LEMMA AroundStep ==
  ASSUME IInv, UNCHANGED <<session, stage, todo, bootState>>, WorldOK', CacheOK', cache' = cache
  PROVE  IInv'
<1>1. StageOK' /\ TodoOK'
  BY TypeParts DEF IInv, StageOK, TodoOK
<1>2. TypeOK'
  BY <1>1, TypeParts, TypeJoined, SessionKept, BootKept DEF IInv
<1>3. LockHeld'
  BY LockKept DEF IInv, Locked
<1>4. ReportReady'
  BY ReportKept DEF IInv, bootState
<1> QED BY <1>2, <1>3, <1>4 DEF IInv

LEMMA EnvironmentStep ==
  ASSUME IInv, (\E p \in Pairs : PairAges(p)) \/ SaveSettings \/ EventsArrive \/ UNCHANGED vars
  PROVE  IInv'
<1>1. CASE \E p \in Pairs : PairAges(p)
  <2>1. PICK p \in Pairs : PairAges(p)
    BY <1>1
  <2>2. UNCHANGED <<world, session, stage, todo, bootState>> /\ cache' = cache
    BY <2>1 DEF PairAges
  <2>3. CacheOK'
    BY <2>1, TypeParts DEF IInv, CacheOK, PairAges
  <2> QED BY <2>2, <2>3, AroundStep, WorldKept, TypeParts DEF IInv
<1>2. CASE SaveSettings
  <2>1. UNCHANGED <<ttlCache, session, stage, todo, bootState>>
    BY <1>2 DEF SaveSettings
  <2>2. WorldOK'
    BY <1>2, TypeParts DEF IInv, WorldOK, SaveSettings
  <2> QED BY <2>1, <2>2, AroundStep, CacheKept, TypeParts DEF IInv, ttlCache
<1>3. CASE EventsArrive
  <2>1. UNCHANGED <<ttlCache, session, stage, todo, bootState>>
    BY <1>3 DEF EventsArrive
  <2>2. WorldOK'
    BY <1>3, TypeParts DEF IInv, WorldOK, EventsArrive
  <2> QED BY <2>1, <2>2, AroundStep, CacheKept, TypeParts DEF IInv, ttlCache
<1>4. CASE UNCHANGED vars
  <2>1. UNCHANGED <<world, ttlCache, session, stage, todo, bootState>>
    BY <1>4 DEF vars, world, ttlCache, session, bootState
  <2> QED BY <2>1, AroundStep, WorldKept, CacheKept, TypeParts DEF IInv, ttlCache
<1> QED BY <1>1, <1>2, <1>3, <1>4

LEMMA RestartStep == ASSUME IInv, Restart PROVE IInv'
<1>1. UNCHANGED world
  BY DEF Restart, world
<1>2. EmptyCache \in [Pairs -> Ttls \cup {NoTtl}]
  BY DEF EmptyCache
<1>3. CacheOK'
  BY <1>2 DEF Restart, CacheOK, NoRecs
<1>4. SessionOK'
  BY DEF Restart, SessionOK
<1>5. StageOK' /\ TodoOK'
  BY DEF Restart, StageOK, TodoOK, AtStart, NothingToDo, Stages, Passes
<1>6. BootOK'
  <2>1. outcome' \in [Pairs -> {"idle", "open", "ok", "failed"}]
    BY DEF Restart, NoBurst
  <2>2. polls' \in 0 .. MaxPolls
    BY DEF Restart
  <2> QED BY <2>1, <2>2 DEF Restart, BootOK, Results
<1>7. LockHeld'
  BY DEF Restart, LockHeld, LockNotLeaked, Locked, AtStart, Lockers, Passes
<1>8. ReportReady'
  BY DEF Restart, ReportReady, Nothing, NoBurst, AtStart, Passes
<1> QED BY <1>1, <1>3, <1>4, <1>5, <1>6, <1>7, <1>8, TypeParts, TypeJoined, WorldKept DEF IInv

LEMMA NextIInv == IInv /\ [Next]_vars => IInv'
<1> SUFFICES ASSUME IInv, [Next]_vars PROVE IInv'
  OBVIOUS
<1>1. CASE BurstStep
  BY <1>1, EntryStep, ProbeStep, BootLockStep, BootSelectStep, BurstReturnsStep, BootUnlockStep,
     BurstObserveStep, BurstRecordStep, BurstGivesUpStep DEF BurstStep
<1>2. CASE JobStart \/ JobStep
  BY <1>2, JobStartStep, JobEndStep, JobUnlockStep, PassStepStep DEF JobStep, Sequential
<1>3. CASE ManualStart \/ ManualStep
  BY <1>3, ButtonStep, PassStepStep DEF ManualStep, Sequential
<1>4. CASE \E a \in Lockers : SessionLost(a)
  BY <1>4, SessionLostStep
<1>5. CASE (\E p \in Pairs : PairAges(p)) \/ SaveSettings \/ EventsArrive \/ UNCHANGED vars
  BY <1>5, EnvironmentStep
<1>6. CASE Restart
  BY <1>6, RestartStep
<1> QED BY <1>1, <1>2, <1>3, <1>4, <1>5, <1>6 DEF Next

-----------------------------------------------------------------------------

\* Every variable keeps its type.
THEOREM TypeCorrect == Spec => []TypeOK
<1>1. IInv => TypeOK
  BY DEF IInv
<1> QED BY <1>1, InitIInv, NextIInv, PTL DEF Spec

\* run_with_advisory_lock keeps the burst and the job apart for as long as their
\* database sessions live.
THEOREM LockExcludes == Spec => []OnePassAtATime
<1>1. IInv => OnePassAtATime
  BY DEF IInv, LockHeld, OnePassAtATime, Lockers
<1> QED BY <1>1, InitIInv, NextIInv, PTL DEF Spec

\* The advisory lock is never held on behalf of a pass that has ended, whether it
\* returned, raised or lost its session.
THEOREM LockGivenBack == Spec => []LockNotLeaked
<1>1. IInv => LockNotLeaked
  BY DEF IInv, LockHeld
<1> QED BY <1>1, InitIInv, NextIInv, PTL DEF Spec

\* The one step that ends a locked burst reports what became of its pairs.
LEMMA FinalReport ==
  ASSUME IInv, [Next]_vars, stage["burst"] = "unlock", stage'["burst"] = "off", "burst" \notin lost
  PROVE  /\ Having("failed") # {} => result' \in {"partial", "failed", "error"}
         /\ result' = "completed" => \A p \in Pairs : outcome[p] # "idle" => cache[p] # NoTtl
         /\ result' = "skipped-lock" => \A p \in Pairs : outcome[p] = "idle"
<1>1. StageOK
  BY TypeParts DEF IInv
<1>2. \A a \in Sequential, s \in Stages : Goto(a, s) => stage'["burst"] = stage["burst"]
  BY <1>1, GotoOK DEF Sequential, Passes
<1>3. BootUnlock
  <2>1. ~(JobStart \/ JobStep \/ ManualStart \/ ManualStep)
    BY <1>2 DEF JobStart, JobStep, ManualStart, ManualStep, JobEnd, JobUnlock, ManualEnd,
         PassStep, PassObserve, PassRecord, PassFails, Sequential, Stages
  <2>2. (\A a \in Lockers : ~SessionLost(a)) /\ (\A p \in Pairs : ~PairAges(p))
        /\ ~SaveSettings /\ ~EventsArrive /\ ~UNCHANGED vars
    BY DEF SessionLost, PairAges, SaveSettings, EventsArrive, vars
  <2>3. ~Restart
    BY DEF Restart, AtStart, Passes
  <2>4. ~(Entry \/ Probe \/ BootLock \/ BootSelect \/ BurstReturns)
    BY DEF Entry, Probe, BootLock, BootSelect, BurstReturns
  <2>5. \A p \in Pairs : ~(BurstObserve(p) \/ BurstRecord(p) \/ BurstGivesUp(p))
    BY DEF BurstObserve, BurstRecord, BurstGivesUp
  <2> QED BY <2>1, <2>2, <2>3, <2>4, <2>5 DEF Next, BurstStep
<1>4. result' = IF ret THEN result ELSE "skipped-lock"
  BY <1>3 DEF BootUnlock, Final
<1>5. CASE Nothing /\ (ret => result \in {"no-pairs", "completed"})
  BY <1>4, <1>5 DEF Nothing, Having
<1>6. CASE ret /\ result = "error"
  BY <1>4, <1>6
<1>7. CASE ret /\ Having("open") = {} /\ result = StatusFor
  <2>1. result' = StatusFor /\ StatusFor \in {"completed", "failed", "partial"}
    BY <1>4, <1>7 DEF StatusFor
  <2>2. Having("failed") # {} => StatusFor \in {"failed", "partial"}
    BY DEF StatusFor
  <2>3. StatusFor = "completed" => Having("failed") = {}
    BY DEF StatusFor
  <2>4. ASSUME Having("failed") = {}, NEW p \in Pairs, outcome[p] # "idle" PROVE cache[p] # NoTtl
    <3>1. outcome[p] = "ok"
      BY <1>7, <2>4, TypeParts DEF IInv, BootOK, Having
    <3> QED BY <3>1 DEF IInv, ReportReady
  <2> QED BY <2>1, <2>2, <2>3, <2>4
<1> QED BY <1>5, <1>6, <1>7 DEF IInv, ReportReady

\* The status endpoint tells the truth about a burst whose session lived: failed
\* pairs show, and a completed burst has warmed every pair it took.
THEOREM BurstReportHonest == Spec => ReportIsHonest
<1>1. IInv /\ [Next]_vars =>
        [stage["burst"] = "unlock" /\ stage'["burst"] = "off" /\ "burst" \notin lost =>
           /\ Having("failed") # {} => result' \in {"partial", "failed", "error"}
           /\ result' = "completed" => \A p \in Pairs : outcome[p] # "idle" => cache[p] # NoTtl
           /\ result' = "skipped-lock" => \A p \in Pairs : outcome[p] = "idle"]_vars
  BY FinalReport
<1> QED BY <1>1, InitIInv, NextIInv, PTL DEF Spec, ReportIsHonest

-----------------------------------------------------------------------------
(* The TTL cache *)

NoneUnderWay(p) == \A a \in Passes : rec[a][p] = NoTtl
OnlyUnderWay(a, p) == rec[a][p] # NoTtl /\ \A b \in Passes : b # a => rec[b][p] = NoTtl

\* Of a pair that was not raced, the shortest TTL is cached or about to be.
TtlTracked ==
  \A p \in Pairs \ raced :
    \/ NoneUnderWay(p) /\ cache[p] = shortest[p]
    \/ \E a \in Passes : OnlyUnderWay(a, p) /\ rec[a][p] = shortest[p]

LEMMA ObserveTracks ==
  ASSUME CacheOK, TtlTracked, NEW a \in Passes, NEW p \in Pairs, Observe(a, p)
  PROVE  TtlTracked'
<1>1. PICK ttl \in Ttls :
        /\ rec' = [rec EXCEPT ![a][p] = Recorded(cache[p], ttl)]
        /\ shortest' = [shortest EXCEPT ![p] =
                          IF p \in raced' THEN NoTtl
                          ELSE IF @ = NoTtl THEN ttl ELSE Smaller(@, ttl)]
  BY DEF Observe
<1>2. cache' = cache /\ raced' \in {raced, raced \cup {p}} /\ (~NoneUnderWay(p) => p \in raced')
  BY DEF Observe, NoneUnderWay
<1> SUFFICES ASSUME NEW q \in Pairs, q \notin raced'
             PROVE  \/ NoneUnderWay(q)' /\ cache'[q] = shortest'[q]
                    \/ \E b \in Passes : OnlyUnderWay(b, q)' /\ rec'[b][q] = shortest'[q]
  BY DEF TtlTracked
<1>3. CASE q # p
  <2>1. shortest'[q] = shortest[q] /\ \A b \in Passes : rec'[b][q] = rec[b][q]
    BY <1>1, <1>3 DEF CacheOK
  <2>2. (NoneUnderWay(q)' <=> NoneUnderWay(q)) /\ \A b \in Passes : OnlyUnderWay(b, q)' <=> OnlyUnderWay(b, q)
    BY <2>1 DEF NoneUnderWay, OnlyUnderWay
  <2> QED BY <1>2, <2>1, <2>2 DEF TtlTracked
<1>4. CASE q = p
  <2>1. NoneUnderWay(p) /\ cache[p] = shortest[p]
    BY <1>2, <1>4 DEF TtlTracked, NoneUnderWay, OnlyUnderWay
  <2>2. rec'[a][p] = Recorded(cache[p], ttl) /\ \A b \in Passes : b # a => rec'[b][p] = rec[b][p]
    BY <1>1 DEF CacheOK
  <2>3. shortest'[p] = Recorded(cache[p], ttl)
    BY <1>1, <1>4, <2>1 DEF CacheOK, Recorded
  <2>4. Recorded(cache[p], ttl) # NoTtl
    BY DEF CacheOK, Recorded, Smaller, NoTtl
  <2>5. OnlyUnderWay(a, p)'
    BY <2>1, <2>2, <2>4 DEF OnlyUnderWay, NoneUnderWay
  <2> QED BY <1>4, <2>2, <2>3, <2>5
<1> QED BY <1>3, <1>4

LEMMA RecordTracks ==
  ASSUME CacheOK, TtlTracked, NEW a \in Passes, NEW p \in Pairs, Record(a, p)
  PROVE  TtlTracked'
<1>1. /\ rec[a][p] # NoTtl /\ cache' = [cache EXCEPT ![p] = rec[a][p]]
      /\ rec' = [rec EXCEPT ![a][p] = NoTtl] /\ UNCHANGED <<shortest, raced>>
  BY DEF Record
<1> SUFFICES ASSUME NEW q \in Pairs, q \notin raced
             PROVE  \/ NoneUnderWay(q)' /\ cache'[q] = shortest[q]
                    \/ \E b \in Passes : OnlyUnderWay(b, q)' /\ rec'[b][q] = shortest[q]
  BY <1>1 DEF TtlTracked
<1>2. CASE q # p
  <2>1. cache'[q] = cache[q] /\ \A b \in Passes : rec'[b][q] = rec[b][q]
    BY <1>1, <1>2 DEF CacheOK
  <2>2. (NoneUnderWay(q)' <=> NoneUnderWay(q)) /\ \A b \in Passes : OnlyUnderWay(b, q)' <=> OnlyUnderWay(b, q)
    BY <2>1 DEF NoneUnderWay, OnlyUnderWay
  <2> QED BY <2>1, <2>2 DEF TtlTracked
<1>3. CASE q = p
  <2>1. OnlyUnderWay(a, p) /\ rec[a][p] = shortest[p]
    BY <1>1, <1>3 DEF TtlTracked, NoneUnderWay, OnlyUnderWay
  <2>2. cache'[p] = rec[a][p] /\ rec'[a][p] = NoTtl /\ \A b \in Passes : b # a => rec'[b][p] = rec[b][p]
    BY <1>1 DEF CacheOK
  <2>3. NoneUnderWay(p)'
    BY <2>1, <2>2 DEF OnlyUnderWay, NoneUnderWay
  <2> QED BY <1>3, <2>1, <2>2, <2>3
<1> QED BY <1>2, <1>3

LEMMA CacheStill ==
  ASSUME TtlTracked, UNCHANGED <<cache, rec, shortest, raced>> PROVE TtlTracked'
BY DEF TtlTracked, NoneUnderWay, OnlyUnderWay

LEMMA NextTracks == IInv /\ TtlTracked /\ [Next]_vars => TtlTracked'
<1> SUFFICES ASSUME IInv, TtlTracked, [Next]_vars PROVE TtlTracked'
  OBVIOUS
<1>1. CacheOK
  BY TypeParts DEF IInv
<1>2. CASE \E p \in Pairs : BurstObserve(p) \/ BurstRecord(p)
  BY <1>1, <1>2, ObserveTracks, RecordTracks DEF BurstObserve, BurstRecord, Passes
<1>3. CASE \E a \in Sequential, p \in Pairs : PassObserve(a, p) \/ PassRecord(a, p)
  BY <1>1, <1>3, ObserveTracks, RecordTracks DEF PassObserve, PassRecord, Passes, Sequential
<1>4. CASE Restart
  BY <1>4 DEF Restart, TtlTracked, NoneUnderWay, NoRecs, EmptyCache
<1>5. CASE \E p \in Pairs : BurstGivesUp(p) \/ PairAges(p)
  BY <1>5, CacheStill DEF BurstGivesUp, PairAges, ttlCache
<1>6. CASE \E a \in Sequential, p \in Pairs : PassFails(a, p)
  BY <1>6, CacheStill DEF PassFails, ttlCache
<1>7. CASE Entry \/ Probe \/ BootLock \/ BootSelect \/ BurstReturns \/ BootUnlock
  BY <1>7, CacheStill DEF Entry, Probe, BootLock, BootSelect, BurstReturns, BootUnlock, ttlCache
<1>8. CASE JobStart \/ JobEnd \/ JobUnlock \/ ManualStart \/ ManualEnd
  BY <1>8, CacheStill DEF JobStart, JobEnd, JobUnlock, ManualStart, ManualEnd, ttlCache
<1>9. CASE (\E a \in Lockers : SessionLost(a)) \/ SaveSettings \/ EventsArrive \/ UNCHANGED vars
  BY <1>9, CacheStill DEF SessionLost, SaveSettings, EventsArrive, vars, ttlCache
<1> QED
  BY <1>2, <1>3, <1>4, <1>5, <1>6, <1>7, <1>8, <1>9
  DEF Next, BurstStep, JobStep, ManualStep, PassStep, Sequential

\* record_warmed_pair keeps the shortest TTL of every pair that no two passes
\* recorded at once, whatever the passes and their order.
THEOREM ShortestTtlKept == Spec => []ShortestTtlWins
<1>1. Init => TtlTracked
  BY DEF Init, TtlTracked, NoneUnderWay, NoRecs, EmptyCache
<1>2. TtlTracked => ShortestTtlWins
  BY DEF TtlTracked, ShortestTtlWins, NoneUnderWay, OnlyUnderWay
<1> QED BY <1>1, <1>2, InitIInv, NextIInv, NextTracks, PTL DEF Spec
=============================================================================
