------------------------------ MODULE BootBurst ------------------------------
(***************************************************************************)
(* run_burst: a pool of worker threads warms a list of pairs, each attempt *)
(* passing the QPS pacer and then the pacer of its qname.                  *)
(*                                                                         *)
(* Times are relative to the clock: a planned time of k is k ticks ahead,  *)
(* a negative one has passed.  Past times are all alike to the code below  *)
(* -Horizon, where they stop.  A thread may run at any time after its      *)
(* planned wake-up, so nothing bounds the delay between two steps.         *)
(***************************************************************************)
EXTENDS Integers, Sequences, FiniteSets, FiniteSetsExt

CONSTANTS
  Pairs, Qnames,
  Qname,        \* [Pairs -> Qnames]
  Requested,    \* the due pairs in ranked order, possibly with repetitions
  Concurrency,  \* configured size of the worker pool
  MaxRetries,   \* MAX_RETRIES (2)
  Interval,     \* 1 / qps
  Jitter,       \* longest extra gap between two slots
  MinInterval,  \* QNAME_MIN_INTERVAL_S
  Backoff,      \* BACKOFF_BASE_S
  Never         \* no send of this qname is planned yet

Horizon == Interval + MinInterval

ASSUME BurstAssumption ==
  /\ Qname \in [Pairs -> Qnames]
  /\ Requested \in Seq(Pairs)
  /\ Concurrency \in Nat /\ MaxRetries \in Nat
  /\ Interval \in Nat \ {0} /\ Jitter \in Nat
  /\ MinInterval \in Nat \ {0} /\ Backoff \in Nat
  /\ Never \notin Int

\* Mutant: no deduplication.
IsAny(i) == TRUE
\* dict.fromkeys: the first occurrence of every pair.
IsFirst(i) == \A j \in 1 .. i - 1 : Requested[j] # Requested[i]
Firsts == {i \in DOMAIN Requested : IsFirst(i)}
WorkSize == Cardinality(Firsts)
\* max(1, min(concurrency, len(work)))
Workers == 1 .. Max({1, Min({Concurrency, WorkSize})})

VARIABLES
  nextSlot,  \* QPSPacer._next_slot
  last,      \* QnamePacer._last
  worker,    \* the threads of the pool
  pos,       \* how much of Requested the pool has handed out
  inFlight,  \* sends without an answer
  sent,      \* stats.queries_sent
  results,   \* [Pairs -> _PairResult or open]
  returned,  \* run_burst has returned
  lastSlot   \* the slot reserved last (for stating the ceiling)

vars == <<nextSlot, last, worker, pos, inFlight, sent, results, returned, lastSlot>>

Stages == {"idle", "attempt", "slot", "qname", "sending", "backoff"}
NoPair == "no pair"
Idle == [stage |-> "idle", pair |-> NoPair, attempts |-> 0, wait |-> 0]
Open == [status |-> "open", attempts |-> 0]
NotGiven == [status |-> "idle", attempts |-> 0]
Given == {Requested[i] : i \in Firsts}

TypeOK ==
  /\ nextSlot \in Int
  /\ last \in [Qnames -> Int \cup {Never}]
  /\ worker \in [Workers -> [stage : Stages, pair : Pairs \cup {NoPair},
                             attempts : 0 .. MaxRetries + 1, wait : Nat]]
  /\ pos \in 0 .. Len(Requested)
  /\ inFlight \in Nat /\ sent \in Nat
  /\ results \in [Pairs -> [status : {"idle", "open", "ok", "failed"},
                            attempts : 0 .. MaxRetries + 1]]
  /\ returned \in BOOLEAN
  /\ lastSlot \in Int

Init ==
  /\ nextSlot = 0
  /\ last = [n \in Qnames |-> Never]
  /\ worker = [k \in Workers |-> Idle]
  /\ pos = 0
  /\ inFlight = 0 /\ sent = 0
  /\ results = [p \in Pairs |-> IF p \in Given THEN Open ELSE NotGiven]
  /\ returned = FALSE
  /\ lastSlot = -Horizon

Later(a, b) == IF a > b THEN a ELSE b

pacers == <<nextSlot, last, lastSlot>>
counters == <<inFlight, sent>>

-----------------------------------------------------------------------------
(* One pair on one worker: _warm_one *)

\* pool.map hands the deduplicated pairs out in ranked order.
Take(k) ==
  /\ worker[k].stage = "idle"
  /\ \E i \in Firsts :
       /\ i > pos
       /\ \A j \in Firsts : j > pos => i <= j
       /\ pos' = i
       /\ worker' = [worker EXCEPT ![k] = [Idle EXCEPT !.stage = "attempt",
                                                       !.pair = Requested[i]]]
  /\ UNCHANGED <<pacers, counters, results, returned>>

\* Mutant: a pacer that makes up for the slots nobody used.
SlotCatchingUp(next) == next
\* slot = max(self._next_slot, self._clock())
Slot(next) == Later(next, 0)

\* qps_pacer.wait(): the slot is reserved under the pacer's lock.
ReserveSlot(k) ==
  /\ worker[k].stage = "attempt"
  /\ \E jitter \in 0 .. Jitter : nextSlot' = Slot(nextSlot) + Interval + jitter
  /\ lastSlot' = Slot(nextSlot)
  /\ worker' = [worker EXCEPT ![k].stage = "slot", ![k].wait = Later(Slot(nextSlot), 0)]
  /\ UNCHANGED <<last, pos, counters, results, returned>>

\* at = now if last is None else max(last, now) + self._min_interval
Planned(at) == IF at = Never THEN 0 ELSE Later(at, 0) + MinInterval

\* qname_pacer.wait(qname), after the slot's sleep.
ReserveQname(k) ==
  LET n == Qname[worker[k].pair] IN
  /\ worker[k].stage = "slot" /\ worker[k].wait = 0
  /\ last' = [last EXCEPT ![n] = Planned(last[n])]
  /\ worker' = [worker EXCEPT ![k].stage = "qname",
                              ![k].wait = Later(Planned(last[n]), 0)]
  /\ UNCHANGED <<nextSlot, lastSlot, pos, counters, results, returned>>

\* attempts += 1, in_flight += 1, and the send starts.
Send(k) ==
  /\ worker[k].stage = "qname" /\ worker[k].wait = 0
  /\ worker' = [worker EXCEPT ![k].stage = "sending", ![k].attempts = @ + 1]
  /\ inFlight' = inFlight + 1
  /\ UNCHANGED <<pacers, pos, sent, results, returned>>

\* Mutant: the counter is raised outside send_lock, and a send that overlaps
\* with another is lost.
AnsweredUnlocked ==
  inFlight' = inFlight - 1 /\ sent' = IF inFlight > 1 THEN sent ELSE sent + 1
\* The `finally' of the send.
Answered == inFlight' = inFlight - 1 /\ sent' = sent + 1

Return(k, status) ==
  /\ results' = [results EXCEPT ![worker[k].pair] =
                   [status |-> status, attempts |-> worker[k].attempts]]
  /\ worker' = [worker EXCEPT ![k] = Idle]

\* outcome.ttl is not None: the pair is recorded (Warming) and done with.
Succeed(k) ==
  /\ worker[k].stage = "sending"
  /\ Answered
  /\ Return(k, "ok")
  /\ UNCHANGED <<pacers, pos, returned>>

\* Mutant: an attempt too many.
LastAttemptTooLate(attempts) == attempts > MaxRetries + 1
LastAttempt(attempts) == attempts = MaxRetries + 1

\* A non-zero rcode, a timeout or a refused connection.
FailAttempt(k) ==
  /\ worker[k].stage = "sending"
  /\ Answered
  /\ IF LastAttempt(worker[k].attempts)
     THEN Return(k, "failed")
     ELSE /\ worker' = [worker EXCEPT ![k].stage = "backoff",
                          ![k].wait = Backoff * 2 ^ (worker[k].attempts - 1)]
          /\ results' = results
  /\ UNCHANGED <<pacers, pos, returned>>

Retry(k) ==
  /\ worker[k].stage = "backoff" /\ worker[k].wait = 0
  /\ worker' = [worker EXCEPT ![k].stage = "attempt"]
  /\ UNCHANGED <<pacers, pos, counters, results, returned>>

-----------------------------------------------------------------------------
(* The pool and the clock *)

\* Mutants: the pool is left when nothing is queued any more; it waits for as
\* many sends as there are pairs.
DrainedTooEarly == \A i \in Firsts : i <= pos
DrainedBySends ==
  /\ \A i \in Firsts : i <= pos
  /\ \A k \in Workers : worker[k].stage = "idle"
  /\ sent = WorkSize
\* The `with' block ends when every pair has returned.
Drained == (\A i \in Firsts : i <= pos) /\ \A k \in Workers : worker[k].stage = "idle"

Finish ==
  /\ ~returned /\ Drained
  /\ returned' = TRUE
  /\ UNCHANGED <<pacers, worker, pos, counters, results>>

Sooner(t) == IF t = Never THEN Never ELSE Later(t - 1, -Horizon)

Asleep == {k \in Workers : worker[k].wait > 0}

\* Time matters while a thread sleeps or a pacer remembers a time.
Tick ==
  /\ ~returned
  /\ worker' = [k \in Workers |->
                  IF k \in Asleep THEN [worker[k] EXCEPT !.wait = @ - 1] ELSE worker[k]]
  /\ nextSlot' = Sooner(nextSlot)
  /\ lastSlot' = Sooner(lastSlot)
  /\ last' = [n \in Qnames |-> Sooner(last[n])]
  /\ UNCHANGED <<pos, counters, results, returned>>

Step(k) ==
  \/ Take(k) \/ ReserveSlot(k) \/ ReserveQname(k) \/ Send(k)
  \/ Succeed(k) \/ FailAttempt(k) \/ Retry(k)

Done == returned /\ UNCHANGED vars

Next == (\E k \in Workers : Step(k)) \/ Finish \/ Tick \/ Done

Spec == Init /\ [][Next]_vars

\* Threads run, sends end (5 s timeout), the clock advances.
FairSpec ==
  /\ Spec
  /\ WF_vars(Tick) /\ WF_vars(Finish)
  /\ \A k \in Workers : WF_vars(Step(k))

-----------------------------------------------------------------------------
(* Properties *)

SlotTaken(k) == worker[k].stage = "attempt" /\ worker'[k].stage = "slot"
QnameTaken(k) == worker[k].stage = "slot" /\ worker'[k].stage = "qname"

\* Neither pacer ever plans a send in the past: the QPS pacer plans two sends no
\* closer than 1/qps, and the qname pacer two sends of one qname no closer than
\* QNAME_MIN_INTERVAL_S, whatever the jitter, however many workers ask, however
\* late they do and however long none did.
PacersSpaced ==
  [][\A k \in Workers :
       /\ SlotTaken(k) => lastSlot' >= 0 /\ lastSlot' - lastSlot >= Interval
       /\ \A n \in Qnames :
            QnameTaken(k) /\ n = Qname[worker[k].pair] /\ last[n] # Never
              => last'[n] >= 0 /\ last'[n] - last[n] >= MinInterval]_vars

Busy == {k \in Workers : worker[k].stage # "idle"}

\* No pair is with two workers, and none that has a result is taken again; the
\* shared in_flight counter is the number of sends under way.
OneWorkerPerPair ==
  /\ \A k \in Busy : results[worker[k].pair].status = "open"
  /\ \A j, k \in Busy : worker[j].pair = worker[k].pair => j = k
  /\ inFlight = Cardinality({k \in Workers : worker[k].stage = "sending"})

\* The sends that the records r[x], x in S, count, numbered from 1.
SendsOf(r, S) == {s \in S \X (1 .. MaxRetries + 1) : s[2] <= r[s[1]].attempts}

\* queries_sent, raised by all workers, is what the results and the pairs still
\* with a worker add up to: no send, and no retry, is missing from the summary.
SentAccounted ==
  sent + inFlight = Cardinality(SendsOf(results, Given))
                    + Cardinality(SendsOf(worker, Workers))

\* The burst settles every pair once and returns when all are settled.
Pool == INSTANCE WarmPool WITH
  outcome <- [p \in Pairs |-> results[p].status], closed <- returned
ImplementsPool == Pool!PoolSpec

\* The burst returns, with every pair settled, however many sends fail.
BurstEnds == <>(returned /\ \A p \in Given : results[p].status \in {"ok", "failed"})
=============================================================================
