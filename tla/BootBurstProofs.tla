--------------------------- MODULE BootBurstProofs ---------------------------
(***************************************************************************)
(* Proofs about BootBurst, for every list of pairs, pool size, number of   *)
(* retries and pacing.                                                     *)
(*                                                                         *)
(* That no pair is with two workers follows from where the pool is in the  *)
(* list: what is behind pos is still open and with nobody, what is in      *)
(* front of it is settled or with exactly one worker.                      *)
(***************************************************************************)
EXTENDS BootBurst, FiniteSetTheorems, TLAPS

Thread == [stage : Stages, pair : Pairs \cup {NoPair},
           attempts : 0 .. MaxRetries + 1, wait : Nat]
Result == [status : {"idle", "open", "ok", "failed"}, attempts : 0 .. MaxRetries + 1]
Sending == {k \in Workers : worker[k].stage = "sending"}

\* An idle thread remembers nothing of its last pair.
IdleIsBlank == \A k \in Workers : worker[k].stage = "idle" => worker[k] = Idle

\* A thread that is about to send has an attempt left.
AttemptsLeft ==
  \A k \in Workers :
    /\ worker[k].stage \in {"attempt", "slot", "qname", "backoff"}
         => worker[k].attempts <= MaxRetries
    /\ worker[k].stage = "sending" => worker[k].attempts >= 1

BusyPairs ==
  /\ \A k \in Busy : /\ worker[k].pair \in Given
                     /\ results[worker[k].pair].status = "open"
  /\ \A j, k \in Busy : worker[j].pair = worker[k].pair => j = k

HandedOut ==
  \A i \in Firsts :
    IF i > pos
    THEN /\ results[Requested[i]].status = "open"
         /\ \A k \in Busy : worker[k].pair # Requested[i]
    ELSE results[Requested[i]].status = "open"
           => \E k \in Busy : worker[k].pair = Requested[i]

ResultsKept ==
  \A p \in Pairs :
    /\ results[p].status = "idle" <=> p \notin Given
    /\ results[p].status \in {"idle", "open"} => results[p].attempts = 0

ReturnedDrained == returned => Drained

InFlightCounts == inFlight = Cardinality(Sending)

PoolInv ==
  /\ IdleIsBlank /\ AttemptsLeft /\ BusyPairs /\ HandedOut /\ ResultsKept
  /\ ReturnedDrained

IInv == TypeOK /\ PoolInv /\ InFlightCounts

-----------------------------------------------------------------------------
(* The constants *)

\* The work list: finitely many pairs, each at one index.
LEMMA WorkList ==
  /\ Firsts \subseteq Nat /\ IsFiniteSet(Firsts)
  /\ \A i \in Firsts : i \in 1 .. Len(Requested) /\ Requested[i] \in Given
  /\ Given \subseteq Pairs
  /\ \A p \in Given : \E i \in Firsts : Requested[i] = p
  /\ \A i, j \in Firsts : Requested[i] = Requested[j] => i = j
<1>1. Requested \in Seq(Pairs) /\ Len(Requested) \in Nat
      /\ DOMAIN Requested = 1 .. Len(Requested)
  BY BurstAssumption
<1>2. Firsts \in SUBSET Nat /\ \A i \in Firsts : i <= Len(Requested) /\ i \in 1 .. Len(Requested)
  BY <1>1 DEF Firsts
<1>3. IsFiniteSet(Firsts)
  BY <1>1, <1>2, FS_BoundedSetOfNaturals
<1>4. Given \subseteq Pairs
  BY <1>1, <1>2 DEF Given
<1>5. ASSUME NEW i \in Firsts, NEW j \in Firsts, Requested[i] = Requested[j]
      PROVE  i = j
  <2>1. ~(i < j) /\ ~(j < i)
    BY <1>1, <1>2, <1>5 DEF Firsts, IsFirst
  <2>2. QED
    BY <1>2, <2>1
<1>6. QED
  BY <1>2, <1>3, <1>4, <1>5 DEF Given

\* The pool has finitely many workers.
LEMMA WorkersFinite == IsFiniteSet(Workers)
<1>1. WorkSize \in Nat /\ Concurrency \in Nat
  BY WorkList, FS_CardinalityType, BurstAssumption DEF WorkSize
<1>2. Min({Concurrency, WorkSize}) \in Nat
  BY <1>1 DEF Min
<1>3. \A n \in Nat : Max({1, n}) \in Int
  BY DEF Max
<1>4. Max({1, Min({Concurrency, WorkSize})}) \in Int
  BY <1>2, <1>3, Zenon
<1>5. QED
  BY <1>4, FS_Interval DEF Workers

\* A backoff is a natural number: 2^n counts the subsets of 1 .. n.
LEMMA PowerOfTwo == \A n \in Nat : 2 ^ n \in Nat
<1> TAKE n \in Nat
<1>1. IsFiniteSet(1 .. n) /\ Cardinality(1 .. n) = n
  BY FS_Interval
<1>2. IsFiniteSet(SUBSET (1 .. n)) /\ Cardinality(SUBSET (1 .. n)) = 2 ^ Cardinality(1 .. n)
  BY <1>1, FS_SUBSET
<1>3. Cardinality(SUBSET (1 .. n)) \in Nat
  BY <1>2, FS_CardinalityType
<1>4. QED
  BY <1>1, <1>2, <1>3

LEMMA Constants ==
  /\ MaxRetries \in Nat /\ Interval \in Nat /\ Interval > 0 /\ Jitter \in Nat
  /\ MinInterval \in Nat /\ MinInterval > 0 /\ Backoff \in Nat
  /\ Never \notin Int
  /\ Qname \in [Pairs -> Qnames]
  /\ Horizon \in Nat /\ Horizon >= Interval /\ Horizon >= MinInterval
BY BurstAssumption DEF Horizon

\* TypeOK in the names used here.
LEMMA TypeOKDef ==
  TypeOK <=>
    /\ nextSlot \in Int
    /\ last \in [Qnames -> Int \cup {Never}]
    /\ worker \in [Workers -> Thread]
    /\ pos \in 0 .. Len(Requested)
    /\ inFlight \in Nat /\ sent \in Nat
    /\ results \in [Pairs -> Result]
    /\ returned \in BOOLEAN
    /\ lastSlot \in Int
BY DEF TypeOK, Thread, Result

LEMMA LaterType ==
  \A a, b \in Int : Later(a, b) \in Int /\ Later(a, b) >= a /\ Later(a, b) >= b
BY DEF Later

LEMMA IdleType == Idle \in Thread /\ Idle.stage = "idle" /\ Idle.attempts = 0
BY Constants DEF Idle, Thread, Stages

-----------------------------------------------------------------------------
(* What an action does to the pool *)

\* Thread k takes another record, the others keep theirs.
Changed(k, st, p, a) ==
  /\ worker' \in [Workers -> Thread]
  /\ worker'[k].stage = st /\ worker'[k].pair = p /\ worker'[k].attempts = a
  /\ \A j \in Workers : j # k => worker'[j] = worker[j]

LEMMA UpdateChanged ==
  ASSUME TypeOK, NEW k \in Workers, NEW r \in Thread, worker' = [worker EXCEPT ![k] = r]
  PROVE  Changed(k, r.stage, r.pair, r.attempts) /\ worker'[k] = r
BY TypeOKDef DEF Changed

\* No thread takes or returns a pair.
SamePairs ==
  /\ worker' \in [Workers -> Thread]
  /\ \A j \in Workers :
       /\ worker'[j].pair = worker[j].pair
       /\ worker[j].stage = "idle" => worker'[j] = worker[j]
       /\ worker[j].stage # "idle" => worker'[j].stage # "idle"
  /\ UNCHANGED <<pos, results, returned>>

LEMMA SamePairsPool ==
  ASSUME IInv, SamePairs
  PROVE  IdleIsBlank' /\ BusyPairs' /\ HandedOut' /\ ResultsKept' /\ ReturnedDrained'
<1>1. IdleIsBlank'
  BY DEF IInv, PoolInv, IdleIsBlank, SamePairs
<1>2. Busy' = Busy /\ \A k \in Busy : worker'[k].pair = worker[k].pair
  BY DEF SamePairs, Busy
<1>3. results' = results /\ pos' = pos /\ returned' = returned
  BY DEF SamePairs
<1>4. BusyPairs'
  BY <1>2, <1>3 DEF IInv, PoolInv, BusyPairs
<1>5. HandedOut'
  BY <1>2, <1>3 DEF IInv, PoolInv, HandedOut
<1>6. ResultsKept'
  BY <1>3 DEF IInv, PoolInv, ResultsKept
<1>7. ReturnedDrained'
  BY <1>3 DEF IInv, PoolInv, ReturnedDrained, Drained, SamePairs
<1>8. QED
  BY <1>1, <1>4, <1>5, <1>6, <1>7

\* A thread in stage st may have made a attempts.
MayBe(st, a) ==
  /\ st \in {"attempt", "slot", "qname", "backoff"} => a <= MaxRetries
  /\ st = "sending" => a >= 1

\* A busy thread moves on with its pair.
LEMMA MovesOn ==
  ASSUME IInv, NEW k \in Workers, worker[k].stage # "idle", NEW st, NEW a,
         Changed(k, st, worker[k].pair, a), st # "idle",
         UNCHANGED <<pos, results, returned>>, MayBe(st, a)
  PROVE  PoolInv'
<1>1. SamePairs
  BY DEF SamePairs, Changed
<1>2. AttemptsLeft'
  BY DEF IInv, PoolInv, AttemptsLeft, Changed, MayBe
<1>3. QED
  BY <1>1, <1>2, SamePairsPool DEF PoolInv

\* The sends under way, when thread k does not start or end one.
LEMMA SameSending ==
  ASSUME IInv, NEW k \in Workers, NEW st, NEW p, NEW a, Changed(k, st, p, a),
         worker[k].stage # "sending", st # "sending", inFlight' = inFlight
  PROVE  InFlightCounts'
<1>1. Sending' = Sending
  BY DEF Sending, Changed
<1>2. QED
  BY <1>1 DEF IInv, InFlightCounts

LEMMA StartsSending ==
  ASSUME IInv, NEW k \in Workers, NEW p, NEW a, Changed(k, "sending", p, a),
         worker[k].stage # "sending", inFlight' = inFlight + 1
  PROVE  InFlightCounts' /\ inFlight' \in Nat
<1>1. Sending' = Sending \cup {k} /\ k \notin Sending
  BY DEF Sending, Changed
<1>2. IsFiniteSet(Sending)
  BY WorkersFinite, FS_Subset DEF Sending
<1>3. Cardinality(Sending \cup {k}) = Cardinality(Sending) + 1
  BY <1>1, <1>2, FS_AddElement
<1>4. Cardinality(Sending') = Cardinality(Sending \cup {k})
  BY <1>1, Zenon
<1>5. Cardinality(Sending) = inFlight /\ inFlight \in Nat
  BY TypeOKDef DEF IInv, InFlightCounts
<1>6. QED
  BY <1>3, <1>4, <1>5 DEF InFlightCounts

LEMMA EndsSending ==
  ASSUME IInv, NEW k \in Workers, NEW st, NEW p, NEW a, Changed(k, st, p, a),
         worker[k].stage = "sending", st # "sending", inFlight' = inFlight - 1
  PROVE  InFlightCounts' /\ inFlight' \in Nat
<1>1. Sending' = Sending \ {k} /\ k \in Sending
  BY DEF Sending, Changed
<1>2. IsFiniteSet(Sending)
  BY WorkersFinite, FS_Subset DEF Sending
<1>3. Cardinality(Sending \ {k}) = Cardinality(Sending) - 1 /\ IsFiniteSet(Sending \ {k})
  BY <1>1, <1>2, FS_RemoveElement
<1>4. Cardinality(Sending') = Cardinality(Sending \ {k}) /\ Cardinality(Sending \ {k}) \in Nat
  BY <1>1, <1>3, FS_CardinalityType, Zenon
<1>5. Cardinality(Sending) = inFlight /\ inFlight \in Nat
  BY TypeOKDef DEF IInv, InFlightCounts
<1>6. QED
  BY <1>3, <1>4, <1>5 DEF InFlightCounts

-----------------------------------------------------------------------------
(* The actions *)

LEMMA TakeStep ==
  ASSUME IInv, NEW k \in Workers, Take(k)
  PROVE  IInv' /\ UNCHANGED <<counters, results, returned>>
<1>1. PICK i \in Firsts :
        /\ i > pos
        /\ \A j \in Firsts : j > pos => i <= j
        /\ pos' = i
        /\ worker' = [worker EXCEPT ![k] = [Idle EXCEPT !.stage = "attempt",
                                                        !.pair = Requested[i]]]
  BY DEF Take
<1>2. /\ worker[k].stage = "idle"
      /\ UNCHANGED <<nextSlot, last, lastSlot, inFlight, sent, results, returned>>
  BY DEF Take, pacers, counters
<1> DEFINE r == [Idle EXCEPT !.stage = "attempt", !.pair = Requested[i]]
<1>3. i \in 1 .. Len(Requested) /\ Requested[i] \in Given /\ Requested[i] \in Pairs
  BY WorkList
<1>4. r \in Thread /\ r.stage = "attempt" /\ r.pair = Requested[i] /\ r.attempts = 0
  BY <1>3, IdleType DEF Idle, Thread, Stages
<1>5. TypeOK /\ Changed(k, "attempt", Requested[i], 0)
  BY <1>1, <1>4, UpdateChanged DEF IInv
<1> HIDE DEF r
<1>6. InFlightCounts'
  BY <1>2, <1>5, SameSending
<1>7. TypeOK'
  BY <1>1, <1>2, <1>3, <1>5, TypeOKDef DEF Changed, TypeOK, Thread, Result
<1>8. IdleIsBlank' /\ AttemptsLeft'
  BY <1>5, Constants DEF IInv, PoolInv, IdleIsBlank, AttemptsLeft, Changed
<1>9. /\ Busy' = Busy \cup {k} /\ k \notin Busy
      /\ worker'[k].pair = Requested[i]
      /\ \A j \in Busy : worker'[j].pair = worker[j].pair
  BY <1>2, <1>5 DEF Busy, Changed
<1>10. results[Requested[i]].status = "open" /\ \A j \in Busy : worker[j].pair # Requested[i]
  BY <1>1 DEF IInv, PoolInv, HandedOut
<1>11. BusyPairs'
  BY <1>2, <1>3, <1>9, <1>10 DEF IInv, PoolInv, BusyPairs
<1>12. HandedOut'
  <2> SUFFICES ASSUME NEW n \in Firsts
               PROVE  IF n > i
                      THEN /\ results[Requested[n]].status = "open"
                           /\ \A j \in Busy' : worker'[j].pair # Requested[n]
                      ELSE results[Requested[n]].status = "open"
                             => \E j \in Busy' : worker'[j].pair = Requested[n]
    BY <1>1, <1>2 DEF HandedOut
  <2>0. n \in Nat /\ i \in Nat /\ pos \in Nat
    BY WorkList, TypeOKDef DEF IInv
  <2>1. CASE n > i
    <3>1. n > pos /\ n # i
      BY <1>1, <2>0, <2>1
    <3>2. Requested[n] # Requested[i]
      BY <3>1, WorkList
    <3>3. QED
      BY <1>9, <2>1, <3>1, <3>2 DEF IInv, PoolInv, HandedOut
  <2>2. CASE n = i
    BY <1>9, <2>0, <2>2
  <2>3. CASE n < i
    <3>1. ~(n > pos) /\ ~(n > i)
      BY <1>1, <2>0, <2>3
    <3>2. QED
      BY <1>9, <3>1 DEF IInv, PoolInv, HandedOut
  <2>4. QED
    BY <2>0, <2>1, <2>2, <2>3
<1>13. ResultsKept'
  BY <1>2 DEF IInv, PoolInv, ResultsKept
<1>14. ReturnedDrained'
  <2>1. ~returned
    <3>1. i \in Nat /\ pos \in Nat
      BY WorkList, TypeOKDef DEF IInv
    <3>2. ~Drained
      BY <1>1, <3>1 DEF Drained
    <3>3. QED
      BY <3>2 DEF IInv, PoolInv, ReturnedDrained
  <2>2. QED
    BY <1>2, <2>1 DEF ReturnedDrained
<1>15. QED
  BY <1>2, <1>6, <1>7, <1>8, <1>11, <1>12, <1>13, <1>14 DEF IInv, PoolInv, counters

LEMMA ReserveSlotStep ==
  ASSUME IInv, NEW k \in Workers, ReserveSlot(k)
  PROVE  IInv'
<1>1. /\ worker[k].stage = "attempt"
      /\ worker' = [worker EXCEPT ![k].stage = "slot", ![k].wait = Later(Slot(nextSlot), 0)]
      /\ lastSlot' = Slot(nextSlot)
      /\ UNCHANGED <<last, pos, inFlight, sent, results, returned>>
  BY DEF ReserveSlot, counters
<1>2. nextSlot \in Int /\ worker \in [Workers -> Thread]
  BY TypeOKDef DEF IInv
<1>3. Slot(nextSlot) \in Int /\ Later(Slot(nextSlot), 0) \in Nat
  BY <1>2 DEF Slot, Later
<1>4. nextSlot' \in Int
  BY <1>3, Constants DEF ReserveSlot
<1> DEFINE r == [worker[k] EXCEPT !.stage = "slot", !.wait = Later(Slot(nextSlot), 0)]
<1>5. r \in Thread /\ r.stage = "slot" /\ r.pair = worker[k].pair
      /\ r.attempts = worker[k].attempts
  BY <1>2, <1>3 DEF Thread, Stages
<1>6. worker' = [worker EXCEPT ![k] = r]
  BY <1>1, <1>2
<1>7. Changed(k, "slot", worker[k].pair, worker[k].attempts)
  BY <1>5, <1>6, UpdateChanged DEF IInv
<1> HIDE DEF r
<1>8. MayBe("slot", worker[k].attempts)
  BY <1>1 DEF IInv, PoolInv, AttemptsLeft, MayBe
<1>9. PoolInv'
  BY <1>1, <1>7, <1>8, MovesOn
<1>10. InFlightCounts'
  BY <1>1, <1>7, SameSending
<1>11. TypeOK'
  BY <1>1, <1>3, <1>4, <1>7, TypeOKDef DEF Changed, TypeOK, Thread, Result, IInv
<1>12. QED
  BY <1>9, <1>10, <1>11 DEF IInv

LEMMA ReserveQnameStep ==
  ASSUME IInv, NEW k \in Workers, ReserveQname(k)
  PROVE  IInv'
<1> DEFINE n == Qname[worker[k].pair]
<1>1. /\ worker[k].stage = "slot"
      /\ last' = [last EXCEPT ![n] = Planned(last[n])]
      /\ worker' = [worker EXCEPT ![k].stage = "qname",
                                  ![k].wait = Later(Planned(last[n]), 0)]
      /\ UNCHANGED <<nextSlot, lastSlot, pos, inFlight, sent, results, returned>>
  BY DEF ReserveQname, counters
<1>2. worker \in [Workers -> Thread] /\ last \in [Qnames -> Int \cup {Never}]
  BY TypeOKDef DEF IInv
<1>3. n \in Qnames
  <2>1. k \in Busy
    BY <1>1 DEF Busy
  <2>2. worker[k].pair \in Pairs
    BY <2>1, WorkList DEF IInv, PoolInv, BusyPairs
  <2>3. QED
    BY <2>2, Constants
<1>4. last[n] \in Int \cup {Never}
  BY <1>2, <1>3
<1>5. Planned(last[n]) \in Nat /\ Later(Planned(last[n]), 0) \in Nat
  BY <1>4, Constants DEF Planned, Later
<1> HIDE DEF n
<1> DEFINE r == [worker[k] EXCEPT !.stage = "qname", !.wait = Later(Planned(last[n]), 0)]
<1>6. r \in Thread /\ r.stage = "qname" /\ r.pair = worker[k].pair
      /\ r.attempts = worker[k].attempts
  BY <1>2, <1>5 DEF Thread, Stages
<1>7. worker' = [worker EXCEPT ![k] = r]
  BY <1>1, <1>2
<1>8. Changed(k, "qname", worker[k].pair, worker[k].attempts)
  BY <1>6, <1>7, UpdateChanged DEF IInv
<1> HIDE DEF r
<1>9. MayBe("qname", worker[k].attempts)
  BY <1>1 DEF IInv, PoolInv, AttemptsLeft, MayBe
<1>10. PoolInv'
  BY <1>1, <1>8, <1>9, MovesOn
<1>11. InFlightCounts'
  BY <1>1, <1>8, SameSending
<1>12. last' \in [Qnames -> Int \cup {Never}]
  <2>1. Planned(last[n]) \in Int \cup {Never}
    BY <1>5
  <2>2. QED
    BY <1>1, <1>2, <2>1
<1>13. TypeOK'
  BY <1>1, <1>8, <1>12, TypeOKDef DEF Changed, TypeOK, Thread, Result, IInv
<1>14. QED
  BY <1>10, <1>11, <1>13 DEF IInv

LEMMA SendStep ==
  ASSUME IInv, NEW k \in Workers, Send(k)
  PROVE  /\ IInv'
         /\ worker[k].stage = "qname" /\ worker[k].attempts + 1 \in 1 .. MaxRetries + 1
         /\ Changed(k, "sending", worker[k].pair, worker[k].attempts + 1)
         /\ inFlight' = inFlight + 1 /\ UNCHANGED <<sent, results>>
<1>1. /\ worker[k].stage = "qname"
      /\ worker' = [worker EXCEPT ![k].stage = "sending", ![k].attempts = @ + 1]
      /\ inFlight' = inFlight + 1
      /\ UNCHANGED <<nextSlot, last, lastSlot, pos, sent, results, returned>>
  BY DEF Send, pacers
<1>2. worker \in [Workers -> Thread]
  BY TypeOKDef DEF IInv
<1>3. worker[k].attempts <= MaxRetries /\ worker[k].attempts \in Nat
  BY <1>1, <1>2 DEF IInv, PoolInv, AttemptsLeft, Thread
<1>4. worker[k].attempts + 1 \in 1 .. MaxRetries + 1
  BY <1>3, Constants
<1> DEFINE r == [worker[k] EXCEPT !.stage = "sending", !.attempts = @ + 1]
<1>5. r \in Thread /\ r.stage = "sending" /\ r.pair = worker[k].pair
      /\ r.attempts = worker[k].attempts + 1
  <2>1. worker[k] \in Thread /\ worker[k].attempts + 1 \in 0 .. MaxRetries + 1
    BY <1>2, <1>4, Constants
  <2>2. \A t \in Thread, a \in 0 .. MaxRetries + 1 :
          LET u == [t EXCEPT !.stage = "sending", !.attempts = a]
          IN  u \in Thread /\ u.stage = "sending" /\ u.pair = t.pair /\ u.attempts = a
    BY DEF Thread, Stages
  <2>3. QED
    BY <2>1, <2>2
<1>6. worker' = [worker EXCEPT ![k] = r]
  BY <1>1, <1>2
<1>7. Changed(k, "sending", worker[k].pair, worker[k].attempts + 1)
  BY <1>5, <1>6, UpdateChanged DEF IInv
<1> HIDE DEF r
<1>m. MayBe("sending", worker[k].attempts + 1)
  BY <1>3 DEF MayBe
<1>8. PoolInv'
  BY <1>1, <1>m, <1>7, MovesOn
<1>9. InFlightCounts' /\ inFlight' \in Nat
  BY <1>1, <1>7, StartsSending
<1>10. TypeOK'
  BY <1>1, <1>7, <1>9, TypeOKDef DEF Changed, TypeOK, Thread, Result, IInv
<1>11. QED
  BY <1>1, <1>4, <1>7, <1>8, <1>9, <1>10 DEF IInv

\* The last answer for a pair, ok or not: the pair is settled, its thread idle.
LEMMA ReturnStep ==
  ASSUME IInv, NEW k \in Workers, worker[k].stage = "sending",
         NEW st \in {"ok", "failed"}, Return(k, st), Answered,
         UNCHANGED <<nextSlot, last, lastSlot, pos, returned>>
  PROVE  /\ IInv'
         /\ worker[k].pair \in Given /\ results[worker[k].pair] = Open
         /\ Changed(k, "idle", NoPair, 0)
         /\ results' = [results EXCEPT ![worker[k].pair] =
                          [status |-> st, attempts |-> worker[k].attempts]]
         /\ ~returned
<1> DEFINE p == worker[k].pair
           q == [status |-> st, attempts |-> worker[k].attempts]
<1>1. worker' = [worker EXCEPT ![k] = Idle] /\ results' = [results EXCEPT ![p] = q]
      /\ inFlight' = inFlight - 1 /\ sent' = sent + 1
  BY DEF Return, Answered
<1>2. worker \in [Workers -> Thread] /\ results \in [Pairs -> Result] /\ sent \in Nat
  BY TypeOKDef DEF IInv
<1>3. Changed(k, "idle", NoPair, 0) /\ worker'[k] = Idle
  BY <1>1, IdleType, UpdateChanged DEF IInv, Idle
<1>4. k \in Busy /\ p \in Given /\ p \in Pairs /\ results[p].status = "open"
  BY WorkList DEF Busy, IInv, PoolInv, BusyPairs
<1>5. results[p].attempts = 0 /\ results[p] = Open
  BY <1>2, <1>4 DEF IInv, PoolInv, ResultsKept, Result, Open
<1>6. q \in Result /\ q.status = st
  BY <1>2 DEF Thread, Result
<1> HIDE DEF p, q
<1>7. /\ results' \in [Pairs -> Result] /\ results'[p] = q
      /\ \A x \in Pairs : x # p => results'[x] = results[x]
  BY <1>1, <1>2, <1>4, <1>6
<1>8. InFlightCounts' /\ inFlight' \in Nat
  BY <1>1, <1>3, EndsSending
<1>9. TypeOK'
  BY <1>1, <1>2, <1>3, <1>7, <1>8, TypeOKDef DEF Changed, TypeOK, Thread, Result, IInv
<1>10. IdleIsBlank' /\ AttemptsLeft'
  BY <1>3, IdleType DEF IInv, PoolInv, IdleIsBlank, AttemptsLeft, Changed
<1>11. /\ Busy' = Busy \ {k}
       /\ \A j \in Busy' : j \in Busy /\ worker'[j] = worker[j] /\ worker[j].pair # p
  <2>1. Busy' = Busy \ {k}
    BY <1>3 DEF Busy, Changed
  <2>2. \A j \in Busy' : j \in Busy /\ worker'[j] = worker[j]
    BY <1>3, <2>1 DEF Busy, Changed
  <2>3. \A j \in Busy' : worker[j].pair # p
    BY <1>4, <2>1 DEF IInv, PoolInv, BusyPairs, p
  <2>4. QED
    BY <2>1, <2>2, <2>3
<1>12. BusyPairs'
  <2>1. \A j \in Busy' : worker[j].pair \in Pairs
    BY <1>11, WorkList DEF IInv, PoolInv, BusyPairs
  <2>2. QED
    BY <1>7, <1>11, <2>1 DEF IInv, PoolInv, BusyPairs
<1>13. HandedOut'
  <2> SUFFICES ASSUME NEW n \in Firsts
               PROVE  IF n > pos
                      THEN /\ results'[Requested[n]].status = "open"
                           /\ \A j \in Busy' : worker'[j].pair # Requested[n]
                      ELSE results'[Requested[n]].status = "open"
                             => \E j \in Busy' : worker'[j].pair = Requested[n]
    BY DEF HandedOut
  <2>1. Requested[n] \in Pairs
    BY WorkList
  <2>2. CASE n > pos
    <3>1. Requested[n] # p
      BY <1>4, <2>2 DEF IInv, PoolInv, HandedOut, p
    <3>2. QED
      BY <1>7, <1>11, <2>1, <2>2, <3>1 DEF IInv, PoolInv, HandedOut
  <2>3. CASE ~(n > pos) /\ Requested[n] = p
    BY <1>6, <1>7, <2>3
  <2>4. CASE ~(n > pos) /\ Requested[n] # p
    <3>1. ASSUME results'[Requested[n]].status = "open"
          PROVE  \E j \in Busy' : worker'[j].pair = Requested[n]
      <4>1. results[Requested[n]].status = "open"
        BY <1>7, <2>1, <2>4, <3>1
      <4>2. PICK j \in Busy : worker[j].pair = Requested[n]
        BY <2>4, <4>1 DEF IInv, PoolInv, HandedOut
      <4>3. j \in Busy'
        BY <1>11, <2>4, <4>2 DEF p
      <4>4. QED
        BY <1>11, <4>2, <4>3
    <3>2. QED
      BY <2>4, <3>1
  <2>5. QED
    BY <2>2, <2>3, <2>4
<1>14. ResultsKept'
  BY <1>4, <1>6, <1>7 DEF IInv, PoolInv, ResultsKept
<1>15. ~returned
  BY DEF IInv, PoolInv, ReturnedDrained, Drained
<1>16. ReturnedDrained'
  BY <1>15 DEF ReturnedDrained
<1>17. QED
  BY <1>1, <1>3, <1>4, <1>5, <1>8, <1>9, <1>10, <1>12, <1>13, <1>14, <1>15, <1>16
     DEF IInv, PoolInv, p, q

\* A failed attempt that is not the last one.
LEMMA BackoffStep ==
  ASSUME IInv, NEW k \in Workers, FailAttempt(k), ~LastAttempt(worker[k].attempts)
  PROVE  /\ IInv'
         /\ worker[k].stage = "sending" /\ Answered
         /\ Changed(k, "backoff", worker[k].pair, worker[k].attempts)
         /\ UNCHANGED <<results, returned>>
<1> DEFINE w == Backoff * 2 ^ (worker[k].attempts - 1)
           r == [worker[k] EXCEPT !.stage = "backoff", !.wait = w]
<1>1. /\ worker[k].stage = "sending" /\ Answered
      /\ worker' = [worker EXCEPT ![k].stage = "backoff", ![k].wait = w]
      /\ UNCHANGED <<nextSlot, last, lastSlot, pos, results, returned>>
  BY DEF FailAttempt, pacers
<1>2. worker \in [Workers -> Thread] /\ sent \in Nat
  BY TypeOKDef DEF IInv
<1>3. worker[k].attempts \in 1 .. MaxRetries + 1 /\ worker[k].attempts # MaxRetries + 1
  <2>1. worker[k].attempts >= 1
    BY <1>1 DEF IInv, PoolInv, AttemptsLeft
  <2>2. worker[k].attempts \in 0 .. MaxRetries + 1
    BY <1>2 DEF Thread
  <2>3. QED
    BY <2>1, <2>2, Constants DEF LastAttempt
<1>4. w \in Nat
  <2>1. worker[k].attempts - 1 \in Nat
    BY <1>3, Constants
  <2>2. 2 ^ (worker[k].attempts - 1) \in Nat
    BY <2>1, PowerOfTwo
  <2>3. \A x, y \in Nat : x * y \in Nat
    OBVIOUS
  <2>4. QED
    BY <2>2, <2>3, Constants
<1> HIDE DEF w
<1>5. r \in Thread /\ r.stage = "backoff" /\ r.pair = worker[k].pair
      /\ r.attempts = worker[k].attempts
  BY <1>2, <1>4 DEF Thread, Stages
<1>6. worker' = [worker EXCEPT ![k] = r]
  BY <1>1, <1>2
<1>7. Changed(k, "backoff", worker[k].pair, worker[k].attempts)
  BY <1>5, <1>6, UpdateChanged DEF IInv
<1> HIDE DEF r
<1>8. MayBe("backoff", worker[k].attempts)
  BY <1>3, Constants DEF MayBe
<1>9. PoolInv'
  BY <1>1, <1>7, <1>8, MovesOn
<1>10. InFlightCounts' /\ inFlight' \in Nat /\ sent' \in Nat
  BY <1>1, <1>2, <1>7, EndsSending DEF Answered
<1>11. TypeOK'
  BY <1>1, <1>7, <1>10, TypeOKDef DEF Changed, TypeOK, Thread, Result, IInv
<1>12. QED
  BY <1>1, <1>7, <1>9, <1>10, <1>11 DEF IInv

LEMMA RetryStep ==
  ASSUME IInv, NEW k \in Workers, Retry(k)
  PROVE  IInv' /\ Changed(k, "attempt", worker[k].pair, worker[k].attempts)
<1> DEFINE r == [worker[k] EXCEPT !.stage = "attempt"]
<1>1. /\ worker[k].stage = "backoff"
      /\ worker' = [worker EXCEPT ![k].stage = "attempt"]
      /\ UNCHANGED <<nextSlot, last, lastSlot, pos, inFlight, sent, results, returned>>
  BY DEF Retry, pacers, counters
<1>2. worker \in [Workers -> Thread]
  BY TypeOKDef DEF IInv
<1>3. r \in Thread /\ r.stage = "attempt" /\ r.pair = worker[k].pair
      /\ r.attempts = worker[k].attempts
  BY <1>2 DEF Thread, Stages
<1>4. worker' = [worker EXCEPT ![k] = r]
  BY <1>1, <1>2
<1>5. Changed(k, "attempt", worker[k].pair, worker[k].attempts)
  BY <1>3, <1>4, UpdateChanged DEF IInv
<1> HIDE DEF r
<1>6. MayBe("attempt", worker[k].attempts)
  BY <1>1 DEF IInv, PoolInv, AttemptsLeft, MayBe
<1>7. PoolInv' /\ InFlightCounts'
  BY <1>1, <1>5, <1>6, MovesOn, SameSending
<1>8. TypeOK'
  BY <1>1, <1>5, TypeOKDef DEF Changed, TypeOK, Thread, Result, IInv
<1>9. QED
  BY <1>5, <1>7, <1>8 DEF IInv

\* The clock moves a planned time by one, until it stops mattering.
LEMMA SoonerType ==
  /\ \A t \in Int : Sooner(t) \in Int /\ Sooner(t) = Later(t - 1, -Horizon)
  /\ \A t \in Int \cup {Never} : Sooner(t) \in Int \cup {Never}
BY Constants DEF Sooner, Later

LEMMA TickStep ==
  ASSUME IInv, Tick
  PROVE  /\ IInv'
         /\ \A k \in Workers : /\ worker'[k].attempts = worker[k].attempts
                               /\ worker'[k].stage = worker[k].stage
         /\ UNCHANGED <<counters, results, returned>>
<1>1. /\ worker' = [k \in Workers |-> IF k \in Asleep
                                      THEN [worker[k] EXCEPT !.wait = @ - 1] ELSE worker[k]]
      /\ nextSlot' = Sooner(nextSlot) /\ lastSlot' = Sooner(lastSlot)
      /\ last' = [n \in Qnames |-> Sooner(last[n])]
      /\ UNCHANGED <<pos, inFlight, sent, results, returned>>
  BY DEF Tick, counters
<1>2. /\ worker \in [Workers -> Thread] /\ last \in [Qnames -> Int \cup {Never}]
      /\ nextSlot \in Int /\ lastSlot \in Int
  BY TypeOKDef DEF IInv
<1>3. ASSUME NEW k \in Workers
      PROVE  /\ worker'[k] \in Thread
             /\ worker'[k].stage = worker[k].stage /\ worker'[k].pair = worker[k].pair
             /\ worker'[k].attempts = worker[k].attempts
             /\ worker[k].stage = "idle" => worker'[k] = worker[k]
  <2>1. worker[k] \in Thread
    BY <1>2
  <2>2. CASE k \in Asleep
    <3>1. worker'[k] = [worker[k] EXCEPT !.wait = @ - 1] /\ worker[k].wait > 0
      BY <1>1, <2>2 DEF Asleep
    <3>2. worker[k].wait - 1 \in Nat
      BY <2>1, <3>1 DEF Thread
    <3>3. worker[k].stage # "idle"
      BY <3>1 DEF IInv, PoolInv, IdleIsBlank, Idle
    <3>4. QED
      BY <2>1, <3>1, <3>2, <3>3 DEF Thread
  <2>3. CASE k \notin Asleep
    BY <1>1, <2>1, <2>3
  <2>4. QED
    BY <2>2, <2>3
<1>4. worker' \in [Workers -> Thread]
  BY <1>1, <1>3
<1>5. SamePairs
  BY <1>1, <1>3, <1>4 DEF SamePairs
<1>6. AttemptsLeft'
  BY <1>3 DEF IInv, PoolInv, AttemptsLeft
<1>7. PoolInv'
  BY <1>5, <1>6, SamePairsPool DEF PoolInv
<1>8. InFlightCounts'
  <2>1. Sending' = Sending
    BY <1>3 DEF Sending
  <2>2. QED
    BY <1>1, <2>1 DEF IInv, InFlightCounts
<1>9. last' \in [Qnames -> Int \cup {Never}] /\ nextSlot' \in Int /\ lastSlot' \in Int
  BY <1>1, <1>2, SoonerType
<1>10. TypeOK'
  BY <1>1, <1>4, <1>9, TypeOKDef DEF TypeOK, Thread, Result, IInv
<1>11. QED
  BY <1>1, <1>3, <1>7, <1>8, <1>10 DEF IInv, counters

LEMMA FinishStep ==
  ASSUME IInv, Finish
  PROVE  /\ IInv' /\ UNCHANGED <<worker, counters, results>>
         /\ ~returned /\ returned' = TRUE
         /\ \A p \in Pairs : results[p].status # "open"
<1>1. ~returned /\ Drained /\ returned' = TRUE
      /\ UNCHANGED <<nextSlot, last, lastSlot, worker, pos, inFlight, sent, results>>
  BY DEF Finish, pacers, counters
<1>2. Busy = {}
  BY <1>1 DEF Drained, Busy
<1>3. \A p \in Pairs : results[p].status # "open"
  <2> SUFFICES ASSUME NEW p \in Pairs, results[p].status = "open" PROVE FALSE
    OBVIOUS
  <2>1. p \in Given
    BY DEF IInv, PoolInv, ResultsKept
  <2>2. PICK i \in Firsts : Requested[i] = p
    BY <2>1, WorkList
  <2>3. i <= pos /\ i \in Nat /\ pos \in Nat
    BY <1>1, WorkList, TypeOKDef DEF Drained, IInv
  <2>4. ~(i > pos)
    BY <2>3
  <2>5. QED
    BY <1>2, <2>2, <2>4 DEF IInv, PoolInv, HandedOut
<1>4. TypeOK'
  BY <1>1, TypeOKDef DEF TypeOK, Thread, Result, IInv
<1>5. PoolInv'
  BY <1>1 DEF IInv, PoolInv, IdleIsBlank, AttemptsLeft, BusyPairs, HandedOut,
     ResultsKept, ReturnedDrained, Drained, Busy
<1>6. InFlightCounts'
  BY <1>1 DEF IInv, InFlightCounts, Sending
<1>7. QED
  BY <1>1, <1>3, <1>4, <1>5, <1>6 DEF IInv, counters

LEMMA FailedStep ==
  ASSUME NEW k \in Workers, FailAttempt(k), LastAttempt(worker[k].attempts)
  PROVE  /\ worker[k].stage = "sending" /\ Return(k, "failed") /\ Answered
         /\ UNCHANGED <<nextSlot, last, lastSlot, pos, returned>>
BY DEF FailAttempt, pacers

LEMMA SucceedStep ==
  ASSUME NEW k \in Workers, Succeed(k)
  PROVE  /\ worker[k].stage = "sending" /\ Return(k, "ok") /\ Answered
         /\ UNCHANGED <<nextSlot, last, lastSlot, pos, returned>>
BY DEF Succeed, pacers

LEMMA SameIInv == IInv /\ UNCHANGED vars => IInv'
<1> SUFFICES ASSUME IInv, UNCHANGED vars PROVE IInv'
  OBVIOUS
<1>1. UNCHANGED <<nextSlot, last, worker, pos, inFlight, sent, results, returned, lastSlot>>
  BY DEF vars
<1>2. TypeOK'
  BY <1>1 DEF IInv, TypeOK
<1>3. PoolInv'
  BY <1>1 DEF IInv, PoolInv, IdleIsBlank, AttemptsLeft, BusyPairs, HandedOut,
     ResultsKept, ReturnedDrained, Drained, Busy
<1>4. QED
  BY <1>1, <1>2, <1>3 DEF IInv, InFlightCounts, Sending

LEMMA NextIInv == IInv /\ [Next]_vars => IInv'
<1> SUFFICES ASSUME IInv, [Next]_vars PROVE IInv'
  OBVIOUS
<1>1. ASSUME NEW k \in Workers, Step(k) PROVE IInv'
  <2>1. CASE Take(k)
    BY <2>1, TakeStep
  <2>2. CASE ReserveSlot(k)
    BY <2>2, ReserveSlotStep
  <2>3. CASE ReserveQname(k)
    BY <2>3, ReserveQnameStep
  <2>4. CASE Send(k)
    BY <2>4, SendStep
  <2>5. CASE Succeed(k)
    BY <2>5, SucceedStep, ReturnStep
  <2>6. CASE FailAttempt(k) /\ LastAttempt(worker[k].attempts)
    BY <2>6, FailedStep, ReturnStep
  <2>7. CASE FailAttempt(k) /\ ~LastAttempt(worker[k].attempts)
    BY <2>7, BackoffStep
  <2>8. CASE Retry(k)
    BY <2>8, RetryStep
  <2>9. QED
    BY <1>1, <2>1, <2>2, <2>3, <2>4, <2>5, <2>6, <2>7, <2>8 DEF Step
<1>2. CASE Finish
  BY <1>2, FinishStep
<1>3. CASE Tick
  BY <1>3, TickStep
<1>4. CASE Done \/ UNCHANGED vars
  BY <1>4, SameIInv DEF Done
<1>5. QED
  BY <1>1, <1>2, <1>3, <1>4 DEF Next

LEMMA InitIInv == Init => IInv
<1> SUFFICES ASSUME Init PROVE IInv
  OBVIOUS
<1>1. /\ worker = [k \in Workers |-> Idle] /\ pos = 0 /\ inFlight = 0 /\ sent = 0
      /\ returned = FALSE /\ last = [n \in Qnames |-> Never]
      /\ results = [p \in Pairs |-> IF p \in Given THEN Open ELSE NotGiven]
      /\ nextSlot = 0 /\ lastSlot = -Horizon
  BY DEF Init
<1>2. Open \in Result /\ NotGiven \in Result /\ Open.status = "open" /\ Open.attempts = 0
      /\ NotGiven.status = "idle" /\ NotGiven.attempts = 0
  BY Constants DEF Open, NotGiven, Result
<1>3. results \in [Pairs -> Result]
  BY <1>1, <1>2
<1>4. worker \in [Workers -> Thread] /\ \A k \in Workers : worker[k] = Idle
  BY <1>1, IdleType
<1>5. last \in [Qnames -> Int \cup {Never}] /\ lastSlot \in Int
      /\ pos \in 0 .. Len(Requested)
  BY <1>1, Constants, BurstAssumption
<1>b. returned \in BOOLEAN
  BY <1>1, Zenon
<1>t. nextSlot \in Int /\ inFlight \in Nat /\ sent \in Nat
  BY <1>1
<1>6. TypeOK
  BY <1>3, <1>4, <1>5, <1>b, <1>t, TypeOKDef, Zenon
<1>7. Busy = {} /\ Sending = {}
  BY <1>4, IdleType DEF Busy, Sending
<1>8. InFlightCounts
  BY <1>1, <1>7, FS_EmptySet DEF InFlightCounts
<1>9. HandedOut
  <2>1. \A i \in Firsts : i > 0 /\ Requested[i] \in Given /\ Requested[i] \in Pairs
    BY WorkList
  <2>2. QED
    BY <1>1, <1>2, <1>7, <2>1 DEF HandedOut
<1>10. IdleIsBlank /\ AttemptsLeft /\ BusyPairs
  BY <1>4, <1>7, IdleType DEF IdleIsBlank, AttemptsLeft, BusyPairs
<1>11. ResultsKept
  BY <1>1, <1>2 DEF ResultsKept
<1>12. QED
  BY <1>1, <1>6, <1>8, <1>9, <1>10, <1>11 DEF IInv, PoolInv, ReturnedDrained

-----------------------------------------------------------------------------
(* Theorems *)

\* The inductive invariant holds.
THEOREM Invariance == Spec => []IInv
BY InitIInv, NextIInv, PTL DEF Spec

\* The pacers, the threads and the results keep their types: no thread makes
\* more than MAX_RETRIES + 1 attempts and no counter goes below zero.
THEOREM TypeCorrect == Spec => []TypeOK
<1>1. IInv => TypeOK
  BY DEF IInv
<1>2. QED
  BY <1>1, Invariance, PTL

\* For any pool size no pair is with two workers or taken again after it has a
\* result, and in_flight is the number of sends under way.
THEOREM PairsNotShared == Spec => []OneWorkerPerPair
<1>1. IInv => OneWorkerPerPair
  BY DEF IInv, PoolInv, BusyPairs, InFlightCounts, Sending, OneWorkerPerPair
<1>2. QED
  BY <1>1, Invariance, PTL

-----------------------------------------------------------------------------
(* The refinement of WarmPool *)

Outcome == [p \in Pairs |-> results[p].status]

LEMMA SamePool ==
  ASSUME UNCHANGED <<results, returned>>
  PROVE  UNCHANGED Pool!poolVars
BY DEF Pool!poolVars

LEMMA SettlePool ==
  ASSUME IInv, NEW k \in Workers, NEW st \in {"ok", "failed"},
         worker[k].pair \in Given, results[worker[k].pair] = Open, ~returned,
         results' = [results EXCEPT ![worker[k].pair] =
                       [status |-> st, attempts |-> worker[k].attempts]],
         returned' = returned
  PROVE  Pool!PoolNext
<1> DEFINE p == worker[k].pair
<1>1. p \in Pairs
  BY WorkList
<1>2. results \in [Pairs -> Result]
  BY TypeOKDef DEF IInv
<1>3. Outcome[p] = "open" /\ Outcome' = [Outcome EXCEPT ![p] = st]
  BY <1>1, <1>2 DEF Outcome, Open
<1> HIDE DEF p
<1>4. Pool!Settle(p, st)
  BY <1>3 DEF Pool!Settle, Outcome
<1>5. st \in Pool!Outcomes
  BY DEF Pool!Outcomes
<1>6. QED
  BY <1>1, <1>4, <1>5 DEF Pool!PoolNext

LEMMA PoolStep == IInv /\ [Next]_vars => [Pool!PoolNext]_(Pool!poolVars)
<1> SUFFICES ASSUME IInv, [Next]_vars PROVE [Pool!PoolNext]_(Pool!poolVars)
  OBVIOUS
<1>1. ASSUME NEW k \in Workers, Step(k) PROVE [Pool!PoolNext]_(Pool!poolVars)
  <2>1. CASE Take(k) \/ ReserveSlot(k) \/ ReserveQname(k) \/ Send(k) \/ Retry(k)
    <3>1. UNCHANGED <<results, returned>>
      BY <2>1 DEF Take, ReserveSlot, ReserveQname, Send, Retry
    <3>2. QED
      BY <3>1, SamePool
  <2>2. CASE Succeed(k)
    <3>1. "ok" \in {"ok", "failed"} /\ returned' = returned
      BY <2>2 DEF Succeed
    <3>2. QED
      BY <2>2, <3>1, SucceedStep, ReturnStep, SettlePool
  <2>3. CASE FailAttempt(k) /\ LastAttempt(worker[k].attempts)
    <3>1. "failed" \in {"ok", "failed"} /\ returned' = returned
      BY <2>3 DEF FailAttempt
    <3>2. QED
      BY <2>3, <3>1, FailedStep, ReturnStep, SettlePool
  <2>4. CASE FailAttempt(k) /\ ~LastAttempt(worker[k].attempts)
    BY <2>4, BackoffStep, SamePool
  <2>5. QED
    BY <1>1, <2>1, <2>2, <2>3, <2>4 DEF Step
<1>2. CASE Finish
  <2>1. /\ ~returned /\ returned' = TRUE /\ results' = results
        /\ \A p \in Pairs : results[p].status # "open"
    BY <1>2, FinishStep
  <2>2. Pool!Close
    BY <2>1 DEF Pool!Close
  <2>3. QED
    BY <2>2 DEF Pool!PoolNext
<1>3. CASE Tick
  BY <1>3, TickStep, SamePool
<1>4. CASE Done \/ UNCHANGED vars
  BY <1>4, SamePool DEF Done, vars
<1>5. QED
  BY <1>1, <1>2, <1>3, <1>4 DEF Next

\* The burst implements WarmPool: every pair it is given is settled once, and it
\* returns when all are settled, however many workers and retries it takes.
THEOREM RefinesWarmPool == Spec => ImplementsPool
<1>1. Init => \E given \in SUBSET Pairs : Pool!PoolInit(given)
  <2> SUFFICES ASSUME Init PROVE \E given \in SUBSET Pairs : Pool!PoolInit(given)
    OBVIOUS
  <2>1. Given \in SUBSET Pairs
    BY WorkList
  <2>2. Pool!PoolInit(Given)
    BY DEF Init, Open, NotGiven, Pool!PoolInit
  <2>3. QED
    BY <2>1, <2>2
<1>2. QED
  BY <1>1, PoolStep, Invariance, PTL DEF Spec, ImplementsPool, Pool!PoolSpec

-----------------------------------------------------------------------------
(* The pacers *)

\* The next slot, or the present, is an interval behind the last slot.
SlotAhead == lastSlot >= -Horizon /\ Later(nextSlot, 0) - lastSlot >= Interval

LEMMA SlotArith ==
  ASSUME NEW n \in Int, NEW l \in Int, l >= -Horizon, Later(n, 0) - l >= Interval
  PROVE  /\ Later(l - 1, -Horizon) >= -Horizon
         /\ Later(Later(n - 1, -Horizon), 0) - Later(l - 1, -Horizon) >= Interval
BY Constants DEF Later

LEMMA ReservedArith ==
  ASSUME NEW n \in Int, NEW j \in Nat
  PROVE  /\ Later(n, 0) >= 0
         /\ Later(Later(n, 0) + Interval + j, 0) - Later(n, 0) >= Interval
BY Constants DEF Later

LEMMA SlotStep == IInv /\ SlotAhead /\ [Next]_vars => SlotAhead'
<1> SUFFICES ASSUME IInv, SlotAhead, [Next]_vars PROVE SlotAhead'
  OBVIOUS
<1>0. nextSlot \in Int /\ lastSlot \in Int
  BY TypeOKDef DEF IInv
<1>a. ASSUME UNCHANGED <<nextSlot, lastSlot>> PROVE SlotAhead'
  BY <1>a DEF SlotAhead
<1>1. ASSUME NEW k \in Workers, Step(k) PROVE SlotAhead'
  <2>1. CASE ReserveSlot(k)
    <3>1. PICK j \in 0 .. Jitter : nextSlot' = Later(nextSlot, 0) + Interval + j
      BY <2>1 DEF ReserveSlot, Slot
    <3>2. lastSlot' = Later(nextSlot, 0) /\ j \in Nat
      BY <2>1, Constants DEF ReserveSlot, Slot
    <3>3. /\ lastSlot' >= 0
          /\ Later(nextSlot', 0) - lastSlot' >= Interval
      BY <1>0, <3>1, <3>2, ReservedArith
    <3>4. lastSlot' >= -Horizon
      BY <1>0, <3>2, <3>3, LaterType, Constants
    <3>5. QED
      BY <3>3, <3>4 DEF SlotAhead
  <2>2. CASE Take(k) \/ ReserveQname(k) \/ Send(k) \/ Succeed(k) \/ FailAttempt(k) \/ Retry(k)
    BY <1>a, <2>2 DEF Take, ReserveQname, Send, Succeed, FailAttempt, Retry, pacers
  <2>3. QED
    BY <1>1, <2>1, <2>2 DEF Step
<1>2. CASE Finish
  BY <1>a, <1>2 DEF Finish, pacers
<1>3. CASE Tick
  <2>1. nextSlot' = Later(nextSlot - 1, -Horizon) /\ lastSlot' = Later(lastSlot - 1, -Horizon)
    BY <1>0, <1>3, SoonerType DEF Tick
  <2>2. QED
    BY <1>0, <2>1, SlotArith DEF SlotAhead
<1>4. CASE Done \/ UNCHANGED vars
  BY <1>a, <1>4 DEF Done, vars
<1>5. QED
  BY <1>1, <1>2, <1>3, <1>4 DEF Next

Spaced ==
  \A k \in Workers :
    /\ SlotTaken(k) => lastSlot' >= 0 /\ lastSlot' - lastSlot >= Interval
    /\ \A n \in Qnames :
         QnameTaken(k) /\ n = Qname[worker[k].pair] /\ last[n] # Never
           => last'[n] >= 0 /\ last'[n] - last[n] >= MinInterval

\* Only a thread's own step changes its stage.
LEMMA StageKept ==
  ASSUME IInv, [Next]_vars, NEW k \in Workers, SlotTaken(k) \/ QnameTaken(k)
  PROVE  (SlotTaken(k) => ReserveSlot(k)) /\ (QnameTaken(k) => ReserveQname(k))
<1>0. worker \in [Workers -> Thread] /\ worker'[k].stage # worker[k].stage
  BY TypeOKDef DEF IInv, SlotTaken, QnameTaken
<1>1. ASSUME NEW j \in Workers, Step(j) PROVE j = k
  <2>1. \A x \in Workers : x # j => worker'[x] = worker[x]
    BY <1>0, <1>1 DEF Step, Take, ReserveSlot, ReserveQname, Send, Succeed, FailAttempt,
       Return, Retry
  <2>2. QED
    BY <1>0, <2>1
<1>2. ~(UNCHANGED worker)
  BY <1>0
<1>3. ~Tick
  BY <1>0, TickStep
<1>4. Step(k)
  BY <1>1, <1>2, <1>3 DEF Next, Finish, Done, vars
<1>5. ASSUME ~ReserveSlot(k) PROVE ~SlotTaken(k)
  BY <1>0, <1>4, <1>5 DEF Step, Take, ReserveQname, Send, Succeed, FailAttempt, Return, Retry,
     SlotTaken, Idle
<1>6. ASSUME ~ReserveQname(k) PROVE ~QnameTaken(k)
  BY <1>0, <1>4, <1>6 DEF Step, Take, ReserveSlot, Send, Succeed, FailAttempt, Return, Retry,
     QnameTaken, Idle
<1>7. QED
  BY <1>5, <1>6

LEMMA SpacedStep == IInv /\ SlotAhead /\ [Next]_vars => Spaced
<1> SUFFICES ASSUME IInv, SlotAhead, [Next]_vars, NEW k \in Workers
             PROVE  /\ SlotTaken(k) => lastSlot' >= 0 /\ lastSlot' - lastSlot >= Interval
                    /\ \A n \in Qnames :
                         QnameTaken(k) /\ n = Qname[worker[k].pair] /\ last[n] # Never
                           => last'[n] >= 0 /\ last'[n] - last[n] >= MinInterval
  BY DEF Spaced
<1>0. /\ nextSlot \in Int /\ lastSlot \in Int
      /\ last \in [Qnames -> Int \cup {Never}]
  BY TypeOKDef DEF IInv
<1>1. ASSUME SlotTaken(k) PROVE lastSlot' >= 0 /\ lastSlot' - lastSlot >= Interval
  <2>1. lastSlot' = Later(nextSlot, 0)
    BY <1>1, StageKept DEF ReserveSlot, Slot
  <2>2. QED
    BY <1>0, <2>1, LaterType DEF SlotAhead
<1>2. ASSUME NEW n \in Qnames, QnameTaken(k), n = Qname[worker[k].pair], last[n] # Never
      PROVE  last'[n] >= 0 /\ last'[n] - last[n] >= MinInterval
  <2>1. last' = [last EXCEPT ![n] = Planned(last[n])]
    BY <1>2, StageKept DEF ReserveQname
  <2>2. last[n] \in Int /\ last'[n] = Later(last[n], 0) + MinInterval
    BY <1>0, <1>2, <2>1 DEF Planned
  <2>3. QED
    BY <2>2, Constants DEF Later
<1>3. QED
  BY <1>1, <1>2

\* Neither pacer plans two sends too close together or in the past, for any
\* rate, jitter, interval and number of workers.
THEOREM PacersKeepDistance == Spec => PacersSpaced
<1>1. Init => SlotAhead
  BY Constants DEF Init, SlotAhead, Later
<1>2. IInv /\ SlotAhead /\ [Next]_vars => [Spaced]_vars
  BY SpacedStep
<1>3. QED
  BY <1>1, <1>2, SlotStep, Invariance, PTL DEF Spec, PacersSpaced, Spaced

-----------------------------------------------------------------------------
(* The counted sends *)

Attempts == 1 .. MaxRetries + 1

LEMMA SendsOfPairs ==
  ASSUME NEW r, NEW S
  PROVE  /\ SendsOf(r, S) \subseteq S \X Attempts
         /\ \A x, i : <<x, i>> \in SendsOf(r, S) <=>
                       x \in S /\ i \in Attempts /\ i <= r[x].attempts
BY DEF SendsOf, Attempts

LEMMA GivenFinite == IsFiniteSet(Given)
<1> DEFINE f == [i \in Firsts |-> Requested[i]]
<1>1. f \in Surjection(Firsts, Given)
  BY WorkList DEF Surjection
<1>2. IsFiniteSet(Firsts)
  BY WorkList
<1>3. QED
  BY <1>1, <1>2, FS_Surjection

LEMMA SendsFinite ==
  ASSUME NEW r, NEW S, IsFiniteSet(S)
  PROVE  IsFiniteSet(SendsOf(r, S)) /\ Cardinality(SendsOf(r, S)) \in Nat
<1>1. IsFiniteSet(Attempts)
  BY FS_Interval, Constants DEF Attempts
<1>2. IsFiniteSet(S \X Attempts)
  BY <1>1, FS_Product
<1>3. SendsOf(r, S) \in SUBSET (S \X Attempts)
  BY SendsOfPairs
<1>4. QED
  BY <1>2, <1>3, FS_Subset, FS_CardinalityType

\* The first a attempts of x are a sends.
LEMMA AttemptsOf ==
  ASSUME NEW x, NEW a \in Nat
  PROVE  IsFiniteSet({x} \X (1 .. a)) /\ Cardinality({x} \X (1 .. a)) = a
<1>1. IsFiniteSet({x}) /\ Cardinality({x}) = 1
  BY FS_Singleton
<1>2. IsFiniteSet(1 .. a) /\ Cardinality(1 .. a) = a
  BY FS_Interval
<1>3. /\ IsFiniteSet({x} \X (1 .. a))
      /\ Cardinality({x} \X (1 .. a)) = Cardinality({x}) * Cardinality(1 .. a)
  BY <1>1, <1>2, FS_Product
<1>4. 1 * a = a
  OBVIOUS
<1>5. QED
  BY <1>1, <1>2, <1>3, <1>4

\* Counts that do not change count the same sends.
LEMMA SameSends ==
  ASSUME NEW r, NEW q, NEW S, \A x \in S : q[x].attempts = r[x].attempts
  PROVE  SendsOf(q, S) = SendsOf(r, S)
BY DEF SendsOf

\* Record x, which counted nothing, counts a sends.
LEMMA GainSends ==
  ASSUME NEW r, NEW q, NEW S, IsFiniteSet(S), NEW x \in S, NEW a \in 0 .. MaxRetries + 1,
         r[x].attempts = 0, q[x].attempts = a,
         \A y \in S : y # x => q[y].attempts = r[y].attempts
  PROVE  Cardinality(SendsOf(q, S)) = Cardinality(SendsOf(r, S)) + a
<1> DEFINE N == {x} \X (1 .. a)
<1>0. a \in Nat /\ \A i \in 1 .. a : i \in Attempts /\ i \in Nat /\ i <= a /\ ~(i <= 0)
  BY Constants DEF Attempts
<1>1. IsFiniteSet(N) /\ Cardinality(N) = a
  BY <1>0, AttemptsOf
<1>2. SendsOf(q, S) = SendsOf(r, S) \cup N
  <2>1. \A y, i : <<y, i>> \in SendsOf(q, S) <=> <<y, i>> \in SendsOf(r, S) \cup N
    <3> TAKE y, i
    <3>1. <<y, i>> \in N <=> y = x /\ i \in 1 .. a
      OBVIOUS
    <3>2. i \in Attempts /\ i <= a <=> i \in 1 .. a
      BY <1>0 DEF Attempts
    <3>3. i \in Attempts => ~(i <= 0)
      BY DEF Attempts
    <3>4. CASE y = x
      BY <3>1, <3>2, <3>3, <3>4, SendsOfPairs
    <3>5. CASE y # x
      BY <3>1, <3>5, SendsOfPairs
    <3>6. QED
      BY <3>4, <3>5
  <2>2. SendsOf(q, S) \subseteq S \X Attempts /\ SendsOf(r, S) \subseteq S \X Attempts
    BY SendsOfPairs
  <2>3. N \subseteq S \X Attempts
    BY <1>0
  <2>4. QED
    BY <2>1, <2>2, <2>3
<1>3. SendsOf(r, S) \cap N = {}
  <2>1. \A y, i : ~(<<y, i>> \in SendsOf(r, S) /\ <<y, i>> \in N)
    BY <1>0, SendsOfPairs
  <2>2. N \subseteq {x} \X (1 .. a)
    OBVIOUS
  <2>3. QED
    BY <2>1, <2>2
<1> HIDE DEF N
<1>4. IsFiniteSet(SendsOf(r, S)) /\ Cardinality(SendsOf(r, S)) \in Nat
  BY SendsFinite
<1>5. Cardinality(SendsOf(r, S) \cup N) =
        Cardinality(SendsOf(r, S)) + Cardinality(N) - Cardinality(SendsOf(r, S) \cap N)
  BY <1>1, <1>4, FS_Union
<1>6. Cardinality(SendsOf(r, S) \cap N) = 0
  BY <1>3, FS_EmptySet, Zenon
<1>7. Cardinality(SendsOf(q, S)) = Cardinality(SendsOf(r, S) \cup N)
  BY <1>2, Zenon
<1>8. QED
  BY <1>0, <1>1, <1>4, <1>5, <1>6, <1>7

\* Record x counts one send more.
LEMMA OneMoreSend ==
  ASSUME NEW r, NEW q, NEW S, IsFiniteSet(S), NEW x \in S, NEW a \in Attempts,
         r[x].attempts = a - 1, q[x].attempts = a,
         \A y \in S : y # x => q[y].attempts = r[y].attempts
  PROVE  Cardinality(SendsOf(q, S)) = Cardinality(SendsOf(r, S)) + 1
<1>1. SendsOf(q, S) = SendsOf(r, S) \cup {<<x, a>>}
  <2>1. \A y, i : <<y, i>> \in SendsOf(q, S) <=> <<y, i>> \in SendsOf(r, S) \cup {<<x, a>>}
    <3> TAKE y, i
    <3>1. <<y, i>> = <<x, a>> <=> y = x /\ i = a
      OBVIOUS
    <3>2. i \in Attempts => (i <= a <=> i <= a - 1 \/ i = a)
      BY DEF Attempts
    <3>3. CASE y = x
      BY <3>1, <3>2, <3>3, SendsOfPairs
    <3>4. CASE y # x
      BY <3>1, <3>4, SendsOfPairs
    <3>5. QED
      BY <3>3, <3>4
  <2>2. SendsOf(q, S) \subseteq S \X Attempts /\ SendsOf(r, S) \subseteq S \X Attempts
    BY SendsOfPairs
  <2>3. QED
    BY <2>1, <2>2
<1>2. <<x, a>> \notin SendsOf(r, S)
  <2>1. ~(a <= a - 1)
    BY DEF Attempts
  <2>2. QED
    BY <2>1, SendsOfPairs
<1>3. IsFiniteSet(SendsOf(r, S)) /\ Cardinality(SendsOf(r, S)) \in Nat
  BY SendsFinite
<1>4. Cardinality(SendsOf(r, S) \cup {<<x, a>>}) = Cardinality(SendsOf(r, S)) + 1
  BY <1>2, <1>3, FS_AddElement
<1>5. QED
  BY <1>1, <1>4, Zenon

\* sent and in flight; in the results and with the workers.
Accounted(s, f, r, w) == s + f = r + w

LEMMA AccountArith ==
  \A s, f, r, w, a \in Nat :
    /\ Accounted(s, f, r, w) => Accounted(s, f + 1, r, w + 1)
    /\ Accounted(s, f, r, w) => Accounted(s + 1, f - 1, r, w)
    /\ Accounted(s, f, r, w + a) => Accounted(s + 1, f - 1, r + a, w)
BY DEF Accounted

InResults == Cardinality(SendsOf(results, Given))
WithWorkers == Cardinality(SendsOf(worker, Workers))

LEMMA AccountTypes == InResults \in Nat /\ WithWorkers \in Nat
BY GivenFinite, WorkersFinite, SendsFinite DEF InResults, WithWorkers

LEMMA AccountTypesNext == InResults' \in Nat /\ WithWorkers' \in Nat
BY GivenFinite, WorkersFinite, SendsFinite DEF InResults, WithWorkers

LEMMA AccountStep == IInv /\ SentAccounted /\ [Next]_vars => SentAccounted'
<1> SUFFICES ASSUME IInv, SentAccounted, [Next]_vars PROVE SentAccounted'
  OBVIOUS
<1>0. sent \in Nat /\ inFlight \in Nat /\ InResults \in Nat /\ WithWorkers \in Nat
      /\ InResults' \in Nat /\ WithWorkers' \in Nat
  BY TypeOKDef, AccountTypes, AccountTypesNext DEF IInv
<1>i. Accounted(sent, inFlight, InResults, WithWorkers)
  BY DEF SentAccounted, Accounted, InResults, WithWorkers
<1>p. ASSUME Accounted(sent', inFlight', InResults', WithWorkers') PROVE SentAccounted'
  BY <1>p DEF SentAccounted, Accounted, InResults, WithWorkers
<1>r. ASSUME results' = results PROVE InResults' = InResults
  BY <1>r DEF InResults
<1>w. ASSUME \A k \in Workers : worker'[k].attempts = worker[k].attempts
      PROVE  WithWorkers' = WithWorkers
  <2>1. SendsOf(worker', Workers) = SendsOf(worker, Workers)
    BY <1>w, SameSends
  <2>2. QED
    BY <2>1, Zenon DEF WithWorkers
<1>a. ASSUME UNCHANGED <<sent, inFlight, results>>,
             \A k \in Workers : worker'[k].attempts = worker[k].attempts
      PROVE  SentAccounted'
  BY <1>a, <1>i, <1>p, <1>r, <1>w, Zenon
<1>c. ASSUME NEW k \in Workers, NEW st, NEW p, NEW a, Changed(k, st, p, a),
             a = worker[k].attempts
      PROVE  \A j \in Workers : worker'[j].attempts = worker[j].attempts
  BY <1>c DEF Changed
<1>1. ASSUME NEW k \in Workers, Step(k) PROVE SentAccounted'
  <2>0. worker \in [Workers -> Thread]
    BY TypeOKDef DEF IInv
  <2>s. ASSUME NEW st \in {"ok", "failed"}, worker[k].stage = "sending", Return(k, st),
               Answered, UNCHANGED <<nextSlot, last, lastSlot, pos, returned>>
        PROVE  SentAccounted'
    <3> DEFINE p == worker[k].pair
               a == worker[k].attempts
    <3>1. /\ p \in Given /\ results[p] = Open /\ Changed(k, "idle", NoPair, 0)
          /\ results' = [results EXCEPT ![p] = [status |-> st, attempts |-> a]]
      BY <2>s, ReturnStep
    <3>2. a \in 0 .. MaxRetries + 1 /\ a \in Nat
      BY <2>0, Constants DEF Thread
    <3>3. results \in [Pairs -> Result] /\ p \in Pairs /\ Given \subseteq Pairs
      BY <3>1, WorkList, TypeOKDef DEF IInv
    <3> HIDE DEF p
    <3>4. /\ results[p].attempts = 0 /\ results'[p].attempts = a
          /\ \A x \in Given : x # p => results'[x].attempts = results[x].attempts
      BY <3>1, <3>3 DEF Open
    <3>5. InResults' = InResults + a
      <4>1. p \in Given
        BY <3>1
      <4>2. QED
        BY <3>2, <3>4, <4>1, GivenFinite, GainSends DEF InResults
    <3>6. /\ worker'[k].attempts = 0
          /\ \A j \in Workers : j # k => worker[j].attempts = worker'[j].attempts
      BY <3>1 DEF Changed
    <3>7. WithWorkers = WithWorkers' + a
      BY <3>2, <3>6, WorkersFinite, GainSends DEF WithWorkers
    <3>8. Accounted(sent, inFlight, InResults, WithWorkers' + a)
      BY <1>i, <3>7, Zenon
    <3>9. Accounted(sent + 1, inFlight - 1, InResults + a, WithWorkers')
      BY <1>0, <3>2, <3>8, AccountArith, Zenon
    <3>10. QED
      BY <1>p, <2>s, <3>5, <3>9, Zenon DEF Answered
  <2>1. CASE Take(k)
    <3>1. UNCHANGED <<sent, inFlight, results>> /\ worker[k].stage = "idle"
      BY <2>1 DEF Take, counters
    <3>2. worker[k].attempts = 0
      BY <3>1, IdleType DEF IInv, PoolInv, IdleIsBlank
    <3>3. \A j \in Workers : worker'[j].attempts = worker[j].attempts
      BY <2>0, <2>1, <3>2, IdleType DEF Take, Idle
    <3>4. QED
      BY <1>a, <3>1, <3>3
  <2>2. CASE ReserveSlot(k) \/ ReserveQname(k) \/ Retry(k)
    <3>1. UNCHANGED <<sent, inFlight, results>>
      BY <2>2 DEF ReserveSlot, ReserveQname, Retry, counters
    <3>2. \A j \in Workers : worker'[j].attempts = worker[j].attempts
      BY <2>0, <2>2 DEF ReserveSlot, ReserveQname, Retry, Thread
    <3>3. QED
      BY <1>a, <3>1, <3>2
  <2>3. CASE Send(k)
    <3> DEFINE a == worker[k].attempts + 1
    <3>1. /\ a \in 1 .. MaxRetries + 1 /\ Changed(k, "sending", worker[k].pair, a)
          /\ inFlight' = inFlight + 1 /\ UNCHANGED <<sent, results>>
      BY <2>3, SendStep
    <3>2. worker[k].attempts = a - 1 /\ a \in Attempts
      <4>1. worker[k].attempts \in Int
        BY <2>0, Constants DEF Thread
      <4>2. QED
        BY <3>1, <4>1 DEF Attempts
    <3> HIDE DEF a
    <3>3. WithWorkers' = WithWorkers + 1
      <4>1. worker'[k].attempts = a
            /\ \A j \in Workers : j # k => worker'[j].attempts = worker[j].attempts
        BY <3>1 DEF Changed
      <4>2. QED
        BY <3>2, <4>1, WorkersFinite, OneMoreSend DEF WithWorkers
    <3>4. Accounted(sent, inFlight + 1, InResults, WithWorkers + 1)
      BY <1>0, <1>i, AccountArith, Zenon
    <3>5. QED
      BY <1>p, <1>r, <3>1, <3>3, <3>4, Zenon
  <2>4. CASE Succeed(k)
    BY <2>4, <2>s, SucceedStep
  <2>5. CASE FailAttempt(k) /\ LastAttempt(worker[k].attempts)
    BY <2>5, <2>s, FailedStep
  <2>6. CASE FailAttempt(k) /\ ~LastAttempt(worker[k].attempts)
    <3>1. /\ Answered /\ results' = results
          /\ Changed(k, "backoff", worker[k].pair, worker[k].attempts)
      BY <2>6, BackoffStep
    <3>2. WithWorkers' = WithWorkers /\ InResults' = InResults
      BY <1>c, <1>r, <1>w, <3>1
    <3>3. Accounted(sent + 1, inFlight - 1, InResults, WithWorkers)
      BY <1>0, <1>i, AccountArith, Zenon
    <3>4. QED
      BY <1>p, <3>1, <3>2, <3>3, Zenon DEF Answered
  <2>7. QED
    BY <1>1, <2>1, <2>2, <2>3, <2>4, <2>5, <2>6 DEF Step
<1>2. CASE Finish
  BY <1>a, <1>2, FinishStep DEF counters
<1>3. CASE Tick
  BY <1>a, <1>3, TickStep DEF counters
<1>4. CASE Done \/ UNCHANGED vars
  BY <1>a, <1>4 DEF Done, vars
<1>5. QED
  BY <1>1, <1>2, <1>3, <1>4 DEF Next

LEMMA InitAccount == Init => SentAccounted
<1> SUFFICES ASSUME Init PROVE SentAccounted
  OBVIOUS
<1>1. /\ worker = [k \in Workers |-> Idle] /\ inFlight = 0 /\ sent = 0
      /\ results = [p \in Pairs |-> IF p \in Given THEN Open ELSE NotGiven]
  BY DEF Init
<1>2. \A i \in Attempts : ~(i <= 0)
  BY DEF Attempts
<1>3. \A k \in Workers : worker[k].attempts = 0
  BY <1>1, IdleType
<1>4. \A p \in Given : results[p].attempts = 0
  BY <1>1, WorkList DEF Open
<1>5. SendsOf(results, Given) = {} /\ SendsOf(worker, Workers) = {}
  BY <1>2, <1>3, <1>4 DEF SendsOf, Attempts
<1>6. Cardinality(SendsOf(results, Given)) = 0 /\ Cardinality(SendsOf(worker, Workers)) = 0
  BY <1>5, FS_EmptySet, Zenon
<1>7. QED
  BY <1>1, <1>6 DEF SentAccounted

\* queries_sent misses no send and no retry, for any number of workers: what
\* the results and the busy workers count is what was sent.
THEOREM SendsAccounted == Spec => []SentAccounted
BY InitAccount, AccountStep, Invariance, PTL DEF Spec
=============================================================================
