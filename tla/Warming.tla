------------------------------- MODULE Warming -------------------------------
(***************************************************************************)
(* Cache warming in one admin-ui process: the boot thread, the periodic    *)
(* precache_warming_job and the "warm now" button share the per-pair TTL   *)
(* cache; the first two exclude each other with an advisory lock that      *)
(* lives in a database session.                                            *)
(*                                                                         *)
(* Pairs are named by their rank.  The burst's workers are the pool of     *)
(* WarmPool, which BootBurst implements.  Whether an entry's age has       *)
(* passed its refresh threshold is a flag that time may set.               *)
(***************************************************************************)
EXTENDS Naturals, FiniteSets

CONSTANTS
  NumPairs,
  MaxQueries,   \* precache_max_queries_per_pass
  Ttls,         \* observable TTLs
  AlwaysDue,    \* TTLs of at most 30 s: the refresh threshold is not positive
  MaxPolls      \* readiness probes before the deadline

Pairs == 1 .. NumPairs
NoTtl == 0

ASSUME WarmingAssumption ==
  /\ NumPairs \in Nat /\ MaxQueries \in Nat \ {0}
  /\ Ttls \subseteq Nat \ {NoTtl} /\ AlwaysDue \subseteq Ttls
  /\ MaxPolls \in Nat

VARIABLES
  observed,  \* pairs with recent successful events: what get_top_pairs_to_warm finds
  enabled,   \* the setting precache_enabled
  cache,     \* _pair_ttl_cache: the TTL of every pair, NoTtl when absent
  due,       \* cached pairs whose age has passed their refresh threshold
  lock,      \* who holds the advisory lock "precache_warming"
  lost,      \* passes whose database session died while they held it
  stage,     \* where each pass is
  todo,      \* pairs a sequential pass has yet to send
  rec,       \* record_warmed_pair under way: the TTL it is about to store
  outcome,   \* the burst's pool: WarmPool
  ret,       \* _boot_burst_locked has a result to return
  result,    \* _last_result.status
  polls,     \* readiness probes made
  shortest,  \* shortest TTL seen since start of each pair not raced (for stating)
  raced      \* pairs that two passes recorded at the same time (for stating)

vars == <<observed, enabled, cache, due, lock, lost, stage, todo, rec, outcome,
          ret, result, polls, shortest, raced>>

Passes == {"burst", "job", "manual"}
Lockers == {"burst", "job"}
Stages == {"start", "ready", "lock", "select", "warm", "unlock", "off"}
Results == {"none", "completed", "partial", "failed", "no-pairs", "skipped-lock",
            "unready", "disabled", "error"}

TypeOK ==
  /\ observed \subseteq Pairs
  /\ enabled \in BOOLEAN
  /\ cache \in [Pairs -> Ttls \cup {NoTtl}]
  /\ due \subseteq {p \in Pairs : cache[p] # NoTtl}
  /\ lock \in Lockers \cup {"free"} /\ lost \subseteq Lockers
  /\ stage \in [Passes -> Stages]
  /\ todo \in [Passes -> SUBSET Pairs]
  /\ rec \in [Passes -> [Pairs -> Ttls \cup {NoTtl}]]
  /\ outcome \in [Pairs -> {"idle", "open", "ok", "failed"}]
  /\ ret \in BOOLEAN /\ result \in Results
  /\ polls \in 0 .. MaxPolls
  /\ shortest \in [Pairs -> Ttls \cup {NoTtl}] /\ raced \subseteq Pairs

\* What a start of the process resets: everything but the database.
EmptyCache == [p \in Pairs |-> NoTtl]
AtStart == [a \in Passes |-> IF a = "burst" THEN "start" ELSE "off"]
NothingToDo == [a \in Passes |-> {}]
NoRecs == [a \in Passes |-> EmptyCache]
NoBurst == [p \in Pairs |-> "idle"]

Init ==
  /\ observed \in {{}, Pairs}
  /\ enabled = TRUE
  /\ cache = EmptyCache /\ due = {} /\ shortest = EmptyCache /\ raced = {}
  /\ lock = "free" /\ lost = {}
  /\ stage = AtStart /\ todo = NothingToDo /\ rec = NoRecs
  /\ outcome = NoBurst /\ ret = FALSE /\ result = "none" /\ polls = 0

Goto(a, s) == stage' = [stage EXCEPT ![a] = s]

world == <<observed, enabled>>
ttlCache == <<cache, due, rec, shortest, raced>>
session == <<lock, lost>>
bootState == <<outcome, ret, result, polls>>

-----------------------------------------------------------------------------
(* What is due *)

\* get_pairs_needing_refresh
NeedingRefresh == {p \in observed : cache[p] = NoTtl \/ p \in due}

\* Mutant: the pairs ranked last.
FirstOfReversed(S) == {p \in S : Cardinality({q \in S : q > p}) < MaxQueries}
\* [:max_queries] of a ranked list
FirstOf(S) == {p \in S : Cardinality({q \in S : q < p}) < MaxQueries}

-----------------------------------------------------------------------------
(* record_warmed_pair, in two steps: threads switch between them *)

Smaller(a, b) == IF a < b THEN a ELSE b

\* Mutant: the last TTL wins.
RecordedLast(seen, ttl) == ttl
\* A new entry, or min(cached.ttl, ttl).
Recorded(seen, ttl) == IF seen = NoTtl THEN ttl ELSE Smaller(seen, ttl)

\* A successful answer: the entry is looked up and the TTL to store computed.
Observe(a, p) ==
  /\ rec[a][p] = NoTtl
  /\ raced' = IF \E b \in Passes : rec[b][p] # NoTtl THEN raced \cup {p} ELSE raced
  /\ \E ttl \in Ttls :
       /\ rec' = [rec EXCEPT ![a][p] = Recorded(cache[p], ttl)]
       /\ shortest' = [shortest EXCEPT ![p] =
                         IF p \in raced' THEN NoTtl
                         ELSE IF @ = NoTtl THEN ttl ELSE Smaller(@, ttl)]
  /\ UNCHANGED <<cache, due>>

\* The entry is written; last_warmed = now, and a TTL within the safety margin
\* is due at once.
Record(a, p) ==
  LET ttl == rec[a][p] IN
  /\ ttl # NoTtl
  /\ cache' = [cache EXCEPT ![p] = ttl]
  /\ due' = IF ttl \in AlwaysDue THEN due \cup {p} ELSE due \ {p}
  /\ rec' = [rec EXCEPT ![a][p] = NoTtl]
  /\ UNCHANGED <<shortest, raced>>

-----------------------------------------------------------------------------
(* The advisory lock: run_with_advisory_lock *)

\* Mutant: the answer of pg_try_advisory_lock is not looked at.
AcquiredUnchecked == lock \in Lockers \cup {"free"}
\* pg_try_advisory_lock
Acquired == lock = "free"

TryLock(a) == Acquired /\ lock' = a /\ lost' = lost \ {a}

\* Mutant: unlocking only on the normal path.
UnlockedOnReturn(a) == IF lock = a /\ (a = "burst" => ret) THEN "free" ELSE lock
\* pg_advisory_unlock in the `finally'.
Unlocked(a) == IF lock = a THEN "free" ELSE lock

\* The connection of a running pass dies (a restart of the database, a proxy
\* that drops idle sessions): the server releases the lock, the pass goes on.
SessionLost(a) ==
  /\ lock = a
  /\ lock' = "free" /\ lost' = lost \cup {a}
  /\ UNCHANGED <<world, ttlCache, stage, todo, bootState>>

-----------------------------------------------------------------------------
(* The boot thread *)

Report(r) == result' = r /\ Goto("burst", "off")

\* _boot_burst_entry: settings, then the readiness wait.  The setting
\* precache_boot_burst_enabled is read here only.
Entry ==
  /\ stage["burst"] = "start"
  /\ \E burstEnabled \in BOOLEAN :
       \/ ~(enabled /\ burstEnabled) /\ Report("disabled")
       \/ enabled /\ burstEnabled /\ Goto("burst", "ready") /\ result' = result
       \/ Report("error")                     \* the settings cannot be loaded
  /\ UNCHANGED <<world, ttlCache, session, todo, outcome, ret, polls>>

\* Mutant: the deadline is noticed one probe too late.
DeadlineMissed == polls > MaxPolls
\* clock() >= deadline
DeadlinePassed == polls = MaxPolls

\* wait_for_dns_readiness: both probes, or the deadline.
Probe ==
  /\ stage["burst"] = "ready"
  /\ \E dns, recursor \in BOOLEAN :
       \/ /\ dns /\ recursor
          /\ Goto("burst", "lock") /\ result' = result /\ polls' = 0
       \/ /\ ~(dns /\ recursor) /\ ~DeadlinePassed
          /\ polls' = polls + 1 /\ UNCHANGED <<stage, result>>
       \/ /\ ~(dns /\ recursor) /\ DeadlinePassed
          /\ Report("unready") /\ polls' = 0
  /\ UNCHANGED <<world, ttlCache, session, todo, outcome, ret>>

\* The wrapper of _boot_burst_locked: locked, or None and reported as skipped.
\* An error of the database while locking also ends in None.
BootLock ==
  /\ stage["burst"] = "lock"
  /\ \/ TryLock("burst") /\ Goto("burst", "select") /\ result' = result
     \/ Report("skipped-lock") /\ UNCHANGED session
  /\ UNCHANGED <<world, ttlCache, todo, outcome, ret, polls>>

\* Candidates, the fresh ones skipped, the ceiling applied.
BootSelect ==
  LET given == FirstOf(NeedingRefresh) IN
  /\ stage["burst"] = "select"
  /\ \/ /\ observed = {} /\ result' = "no-pairs"
        /\ ret' = TRUE /\ Goto("burst", "unlock") /\ outcome' = outcome
     \/ /\ observed # {} /\ given = {} /\ result' = "completed"
        /\ ret' = TRUE /\ Goto("burst", "unlock") /\ outcome' = outcome
     \/ /\ given # {}
        /\ outcome' = [p \in Pairs |-> IF p \in given THEN "open" ELSE "idle"]
        /\ Goto("burst", "warm") /\ UNCHANGED <<ret, result>>
     \/ \* a query raises: the wrapper will return None
        /\ Goto("burst", "unlock") /\ UNCHANGED <<outcome, ret, result>>
  /\ UNCHANGED <<world, ttlCache, session, todo, polls>>

BurstObserve(p) ==
  /\ stage["burst"] = "warm" /\ outcome[p] = "open"
  /\ Observe("burst", p)
  /\ UNCHANGED <<world, session, stage, todo, bootState>>

BurstRecord(p) ==
  /\ stage["burst"] = "warm" /\ Record("burst", p)
  /\ outcome' = [outcome EXCEPT ![p] = "ok"]
  /\ UNCHANGED <<world, session, stage, todo, ret, result, polls>>

\* Every attempt failed.
BurstGivesUp(p) ==
  /\ stage["burst"] = "warm" /\ outcome[p] = "open" /\ rec["burst"][p] = NoTtl
  /\ outcome' = [outcome EXCEPT ![p] = "failed"]
  /\ UNCHANGED <<world, ttlCache, session, stage, todo, ret, result, polls>>

Having(o) == {p \in Pairs : outcome[p] = o}

\* Mutant: complete when every pair was tried.
StatusForOptimist == IF Having("open") = {} THEN "completed" ELSE "failed"
\* _status_for
StatusFor == CASE Having("failed") = {} -> "completed"
               [] Having("failed") # {} /\ Having("ok") = {} -> "failed"
               [] OTHER -> "partial"

\* run_burst returns, or the pool itself raises.
BurstReturns ==
  /\ stage["burst"] = "warm"
  /\ \/ Having("open") = {} /\ result' = StatusFor
     \/ /\ \A p \in Pairs : rec["burst"][p] = NoTtl
        /\ result' = "error"
  /\ ret' = TRUE /\ Goto("burst", "unlock")
  /\ UNCHANGED <<world, ttlCache, session, todo, outcome, polls>>

\* Mutant: the entry does not look at what the wrapper returned.
FinalUnchecked == result
\* The result recorded inside, or "skipped-lock" when the wrapper returns None.
Final == IF ret /\ "burst" \notin lost THEN result ELSE "skipped-lock"

\* The `finally' of the wrapper.  When the session is gone the unlock raises,
\* the wrapper returns None, and the entry reports a lock that was not free.
BootUnlock ==
  /\ stage["burst"] = "unlock"
  /\ lock' = Unlocked("burst") /\ lost' = lost \ {"burst"}
  /\ result' = Final
  /\ ret' = FALSE /\ outcome' = NoBurst /\ Goto("burst", "off")
  /\ UNCHANGED <<world, ttlCache, todo, polls>>

-----------------------------------------------------------------------------
(* The periodic job and the button: warm_cache, one pair after the other *)

\* precache_warming_job: every 5 minutes, and at once after a start.  A run
\* that finds the lock taken, or nothing to do, changes nothing.
JobStart ==
  /\ stage["job"] = "off"
  /\ TryLock("job")
  /\ \/ /\ enabled /\ NeedingRefresh # {}
        /\ todo' = [todo EXCEPT !["job"] = FirstOf(NeedingRefresh)]
        /\ Goto("job", "warm")
     \/ Goto("job", "unlock") /\ todo' = todo
  /\ UNCHANGED <<world, ttlCache, bootState>>

JobEnd ==
  /\ stage["job"] = "warm" /\ todo["job"] = {}
  /\ Goto("job", "unlock")
  /\ UNCHANGED <<world, ttlCache, session, todo, bootState>>

JobUnlock ==
  /\ stage["job"] = "unlock"
  /\ lock' = Unlocked("job") /\ lost' = lost \ {"job"}
  /\ Goto("job", "off")
  /\ UNCHANGED <<world, ttlCache, todo, bootState>>

\* trigger_warm_cache: no lock, and fresh pairs too.
ManualStart ==
  /\ stage["manual"] = "off" /\ observed # {}
  /\ todo' = [todo EXCEPT !["manual"] = FirstOf(observed)]
  /\ Goto("manual", "warm")
  /\ UNCHANGED <<world, ttlCache, session, bootState>>

ManualEnd ==
  /\ stage["manual"] = "warm" /\ todo["manual"] = {}
  /\ Goto("manual", "off")
  /\ UNCHANGED <<world, ttlCache, session, todo, bootState>>

Sequential == {"job", "manual"}
IsNext(a, p) == p \in todo[a] /\ \A q \in todo[a] : p <= q

PassObserve(a, p) ==
  /\ stage[a] = "warm" /\ IsNext(a, p)
  /\ Observe(a, p)
  /\ UNCHANGED <<world, session, stage, todo, bootState>>

PassRecord(a, p) ==
  /\ stage[a] = "warm" /\ Record(a, p)
  /\ todo' = [todo EXCEPT ![a] = @ \ {p}]
  /\ UNCHANGED <<world, session, stage, bootState>>

\* warm_pair returned None
PassFails(a, p) ==
  /\ stage[a] = "warm" /\ IsNext(a, p) /\ rec[a][p] = NoTtl
  /\ todo' = [todo EXCEPT ![a] = @ \ {p}]
  /\ UNCHANGED <<world, ttlCache, session, stage, bootState>>

-----------------------------------------------------------------------------
(* Environment *)

\* Time passes an entry's refresh threshold.
PairAges(p) ==
  /\ cache[p] # NoTtl /\ p \notin due
  /\ due' = due \cup {p}
  /\ UNCHANGED <<world, cache, rec, shortest, raced, session, stage, todo, bootState>>

\* update_precache_settings
SaveSettings ==
  /\ enabled' = ~enabled
  /\ UNCHANGED <<observed, ttlCache, session, stage, todo, bootState>>

\* The first events arrive.
EventsArrive ==
  /\ observed = {} /\ observed' = Pairs
  /\ UNCHANGED <<enabled, ttlCache, session, stage, todo, bootState>>

\* The process is restarted: its sessions end, and start_boot_burst runs again.
Restart ==
  /\ stage # AtStart
  /\ cache' = EmptyCache /\ due' = {} /\ shortest' = EmptyCache /\ raced' = {}
  /\ lock' = "free" /\ lost' = {}
  /\ stage' = AtStart /\ todo' = NothingToDo /\ rec' = NoRecs
  /\ outcome' = NoBurst /\ ret' = FALSE /\ result' = "none" /\ polls' = 0
  /\ UNCHANGED <<observed, enabled>>

BurstStep ==
  \/ Entry \/ Probe \/ BootLock \/ BootSelect \/ BurstReturns \/ BootUnlock
  \/ \E p \in Pairs : BurstObserve(p) \/ BurstRecord(p) \/ BurstGivesUp(p)

PassStep(a) == \E p \in Pairs : PassObserve(a, p) \/ PassRecord(a, p) \/ PassFails(a, p)
JobStep == PassStep("job") \/ JobEnd \/ JobUnlock
ManualStep == PassStep("manual") \/ ManualEnd

Next ==
  \/ BurstStep \/ JobStart \/ JobStep \/ ManualStart \/ ManualStep
  \/ \E a \in Lockers : SessionLost(a)
  \/ \E p \in Pairs : PairAges(p)
  \/ SaveSettings \/ EventsArrive \/ Restart

Spec == Init /\ [][Next]_vars

\* Threads run and sends end; the scheduler starts the job every five minutes.
FairSpec ==
  /\ Spec
  /\ WF_vars(BurstStep) /\ WF_vars(JobStep)
  /\ SF_vars(JobStart /\ todo'["job"] # {})

-----------------------------------------------------------------------------
(* Properties *)

Locked(a) == stage[a] \in {"select", "warm", "unlock"}

\* The burst and the periodic job hold the warming section together only when
\* one of them has lost its database session, and with it the lock.
OnePassAtATime == Locked("burst") /\ Locked("job") => lost # {}

\* Whichever way a pass ends, by a result, an early return or an exception, the
\* lock does not stay with it.
LockNotLeaked == lock \in Lockers => Locked(lock)

\* What the endpoint shows of a finished burst whose session lived: failed pairs
\* are reported, "completed" means that every pair it took is in the cache, and
\* "skipped-lock" that it sent nothing.
ReportIsHonest ==
  [][stage["burst"] = "unlock" /\ stage'["burst"] = "off" /\ "burst" \notin lost =>
       /\ Having("failed") # {} => result' \in {"partial", "failed", "error"}
       /\ result' = "completed" => \A p \in Pairs : outcome[p] # "idle" => cache[p] # NoTtl
       /\ result' = "skipped-lock" => \A p \in Pairs : outcome[p] = "idle"]_vars

\* The cached TTL of a pair is the shortest one seen since start, unless two
\* passes recorded the pair at the same time.
ShortestTtlWins ==
  \A p \in Pairs \ raced :
    (\A a \in Passes : rec[a][p] = NoTtl) => cache[p] = shortest[p]

\* A process that stays up ends its boot burst with a result the endpoint can
\* show, whatever failed and whoever held the lock.
BootReports ==
  ~[]<><<Restart>>_vars => <>[](result # "none" /\ stage["burst"] = "off")

\* A pair ranked within the per-pass ceiling is never left due for ever while
\* warming is on, whatever fails and whoever loses the lock.
TopPairsRefreshed ==
  \A p \in Pairs : p <= MaxQueries =>
    (<>[](p \in observed /\ enabled)
       => []<>(p \in todo["job"] \/ p \notin NeedingRefresh))
=============================================================================
