------------------------- MODULE EventPipelineProofs -------------------------
(***************************************************************************)
(* Proofs about EventPipeline, for every set of events, batch size and     *)
(* channel capacity.                                                       *)
(*                                                                         *)
(* The inductive invariant adds three facts to the types: the keys of the  *)
(* bucket never exceed the sequence counter (so PutBatch writes new keys   *)
(* only, across restarts too), the request in flight is a prefix of the    *)
(* bucket (so the range delete removes nothing else), and an acknowledged  *)
(* request is stored.  Two more invariants build on it: OrderInv (an event *)
(* is in one place, and every request is a prefix of the bucket) for the   *)
(* order of the stored events and the refinement of EventLog, and CountInv *)
(* for the counters.                                                       *)
(***************************************************************************)
EXTENDS EventPipeline, FiniteSetTheorems, TLAPS

KeysUpToSeq == \A k \in Keys : k <= seq
SentIsPrefix == \A s \in sent, k \in Keys : k <= s => k \in sent
AckedIsStored == reply = "ok" => Payload \subseteq Stored \cup Unacceptable

IInv ==
  /\ TypeOK
  /\ KeysUpToSeq
  /\ SentIsPrefix
  /\ AckedIsStored
  /\ OneRowPerEvent

-----------------------------------------------------------------------------

\* The updates of the counters stay in their type.
LEMMA MetricsUpdates ==
  \A m \in Metrics, x, y \in Nat :
    /\ [m EXCEPT !.buffered = x, !.pending = y] \in Metrics
    /\ [m EXCEPT !.dropped = x, !.pending = y] \in Metrics
    /\ [m EXCEPT !.shipped = x, !.pending = y] \in Metrics
    /\ [m EXCEPT !.dropped = x] \in Metrics
    /\ [m EXCEPT !.pending = y] \in Metrics
BY DEF Metrics

\* Peek returns a prefix of a finite bucket: a smaller key has no more keys in
\* front of it.
LEMMA PeekPrefix ==
  ASSUME NEW b, IsFiniteSet(DOMAIN b), DOMAIN b \subseteq Nat, NEW n \in Nat
  PROVE  /\ Peek(b, n) \subseteq DOMAIN b
         /\ \A s \in Peek(b, n), k \in DOMAIN b : k <= s => k \in Peek(b, n)
<1>1. Peek(b, n) \subseteq DOMAIN b
  BY DEF Peek
<1>2. ASSUME NEW s \in Peek(b, n), NEW k \in DOMAIN b, k <= s
      PROVE  k \in Peek(b, n)
  <2> DEFINE Upto(x) == {j \in DOMAIN b : j <= x}
  <2>1. IsFiniteSet(Upto(s)) /\ IsFiniteSet(Upto(k))
    BY FS_Subset
  <2>2. Upto(k) \in SUBSET Upto(s)
    BY <1>1, <1>2
  <2>3. Cardinality(Upto(k)) <= Cardinality(Upto(s))
    BY <2>1, <2>2, FS_Subset
  <2>4. Cardinality(Upto(k)) \in Nat /\ Cardinality(Upto(s)) \in Nat
    BY <2>1, FS_CardinalityType
  <2>5. Cardinality(Upto(s)) <= n
    BY DEF Peek
  <2> HIDE DEF Upto
  <2>6. Cardinality(Upto(k)) <= n
    BY <2>3, <2>4, <2>5
  <2>7. QED
    BY <2>6 DEF Peek, Upto
<1>3. QED
  BY <1>1, <1>2

\* The bucket is finite: its keys are bounded by the sequence counter.
LEMMA KeysFinite == TypeOK /\ KeysUpToSeq => IsFiniteSet(Keys)
<1> SUFFICES ASSUME TypeOK, KeysUpToSeq PROVE IsFiniteSet(Keys)
  OBVIOUS
<1>1. Keys \in SUBSET Nat /\ seq \in Nat /\ \A s \in Keys : s <= seq
  BY DEF TypeOK, KeysUpToSeq
<1>2. QED
  BY <1>1, FS_BoundedSetOfNaturals

\* What a successful flush of b does to the bucket: old keys keep their
\* events, every new key is above them.
LEMMA FlushOkStep ==
  ASSUME TypeOK, KeysUpToSeq, NEW b \in Seq(Events), FlushOk(b)
  PROVE  /\ Keys' = Keys \cup NewKeys(b)
         /\ \A k \in Keys : bolt'[k] = bolt[k]
         /\ \A k \in Keys' : bolt'[k] \in Events
         /\ Keys' \subseteq Nat
         /\ seq' \in Nat
         /\ KeysUpToSeq'
         /\ batch' \in Seq(Events)
         /\ buffered' \subseteq Events
         /\ mets' \in Metrics
<1>1. Len(b) \in Nat /\ seq \in Nat
  BY DEF TypeOK
<1>2. Keys' = Keys \cup NewKeys(b)
  BY DEF FlushOk, PutBatch, Keys
<1>3. \A k \in Keys : k \notin NewKeys(b)
  BY <1>1 DEF KeysUpToSeq, NewKeys, TypeOK
<1>4. \A k \in Keys : bolt'[k] = bolt[k]
  BY <1>3 DEF FlushOk, PutBatch, Keys
<1>5. \A k \in NewKeys(b) : k - seq \in 1 .. Len(b) /\ k \in Nat
  BY <1>1 DEF NewKeys
<1>6. \A k \in NewKeys(b) : bolt'[k] = b[k - seq]
  BY DEF FlushOk, PutBatch
<1>7. \A k \in NewKeys(b) : bolt'[k] \in Events
  BY <1>5, <1>6
<1>8. KeysUpToSeq'
  <2>1. \A k \in NewKeys(b) : k <= seq + Len(b)
    BY <1>1 DEF NewKeys
  <2>2. \A k \in Keys : k <= seq + Len(b)
    BY <1>1 DEF KeysUpToSeq, TypeOK
  <2>3. QED
    BY <1>2, <2>1, <2>2 DEF FlushOk, KeysUpToSeq
<1>9. mets' \in Metrics
  <2>1. Cardinality(Keys) \in Nat
    BY KeysFinite, FS_CardinalityType
  <2>2. mets \in Metrics
    BY DEF TypeOK
  <2>3. mets.buffered + Len(b) \in Nat /\ Cardinality(Keys) + Len(b) \in Nat
    BY <1>1, <2>1, <2>2 DEF Metrics
  <2>4. QED
    BY <2>2, <2>3, MetricsUpdates DEF FlushOk
<1>10. Range(b) \subseteq Events
  BY DEF Range
<1>11. batch' \in Seq(Events) /\ buffered' \subseteq Events /\ seq' \in Nat
  BY <1>1, <1>10 DEF FlushOk, TypeOK
<1>12. QED
  BY <1>2, <1>4, <1>5, <1>7, <1>8, <1>9, <1>11 DEF TypeOK

\* A failed flush leaves the bucket alone and draws sequence numbers.
LEMMA FlushFailedStep ==
  ASSUME TypeOK, KeysUpToSeq, NEW b \in Seq(Events), FlushFailed(b)
  PROVE  /\ bolt' = bolt /\ buffered' = buffered
         /\ seq' \in Nat
         /\ KeysUpToSeq'
         /\ batch' \in Seq(Events)
         /\ mets' \in Metrics
<1>1. Len(b) \in Nat /\ seq \in Nat /\ Keys \subseteq Nat
  BY DEF TypeOK
<1>2. bolt' = bolt /\ buffered' = buffered /\ batch' = <<>>
  BY DEF FlushFailed, diskVars
<1>3. seq' \in Nat /\ seq <= seq'
  BY <1>1 DEF FlushFailed
<1>4. KeysUpToSeq'
  BY <1>1, <1>2, <1>3 DEF KeysUpToSeq, Keys
<1>5. mets' \in Metrics
  <2>1. Cardinality(Keys) \in Nat
    BY KeysFinite, FS_CardinalityType
  <2>2. mets \in Metrics
    BY DEF TypeOK
  <2>3. mets.dropped + Len(b) \in Nat
    BY <1>1, <2>2 DEF Metrics
  <2>4. QED
    BY <2>1, <2>2, <2>3, MetricsUpdates DEF FlushFailed
<1>6. QED
  BY <1>2, <1>3, <1>4, <1>5

\* What any step of the batch does: the bucket only gains keys.
BatchStep ==
  /\ Keys \subseteq Keys'
  /\ \A k \in Keys : bolt'[k] = bolt[k]
  /\ \A k \in Keys' : bolt'[k] \in Events
  /\ Keys' \subseteq Nat
  /\ seq' \in Nat
  /\ KeysUpToSeq'
  /\ batch' \in Seq(Events)
  /\ buffered' \subseteq Events
  /\ mets' \in Metrics

LEMMA FlushIsBatchStep ==
  ASSUME TypeOK, KeysUpToSeq, NEW b \in Seq(Events), FlushOk(b) \/ FlushFailed(b)
  PROVE  BatchStep
<1>1. CASE FlushOk(b)
  BY <1>1, FlushOkStep DEF BatchStep
<1>2. CASE FlushFailed(b)
  BY <1>2, FlushFailedStep DEF BatchStep, TypeOK, Keys
<1>3. QED
  BY <1>1, <1>2

LEMMA AppendIsBatchStep ==
  ASSUME TypeOK, KeysUpToSeq, NEW e \in Events, AppendToBatch(e)
  PROVE  BatchStep
<1>1. Append(batch, e) \in Seq(Events)
  BY DEF TypeOK
<1>2. CASE Len(Append(batch, e)) >= MaxBatch
  BY <1>1, <1>2, FlushIsBatchStep DEF AppendToBatch
<1>3. CASE ~(Len(Append(batch, e)) >= MaxBatch)
  BY <1>1, <1>3 DEF AppendToBatch, BatchStep, TypeOK, KeysUpToSeq, Keys, diskVars
<1>4. QED
  BY <1>2, <1>3


-----------------------------------------------------------------------------
(* The inductive invariant *)

LEMMA InitIInv == Init => IInv
<1> SUFFICES ASSUME Init PROVE IInv
  OBVIOUS
<1>1. Keys = {}
  BY DEF Init, Keys
<1>2. mets \in Metrics /\ run \in RunHistory
  BY DEF Init, NoMets, Metrics, RunHistory
<1>3. QED
  BY <1>1, <1>2 DEF Init, IInv, TypeOK, KeysUpToSeq, SentIsPrefix, AckedIsStored,
                    OneRowPerEvent

\* While no request is in flight the last two conjuncts say nothing.
LEMMA IdleRequest ==
  ASSUME sent' = {}
  PROVE  SentIsPrefix' /\ AckedIsStored'
BY DEF SentIsPrefix, AckedIsStored, Payload

\* Steps of the loop that extend the batch.
LEMMA BatchIInv ==
  ASSUME IInv, ~Waiting, BatchStep, sent' = sent, reply' = reply, late' = late,
         rows' = rows, chan' \in Seq(Events), up' = up, seen' \subseteq Events,
         old' = old, run' \in RunHistory
  PROVE  IInv'
<1>1. sent = {} /\ sent' = {}
  BY DEF Waiting
<1>2. SentIsPrefix' /\ AckedIsStored'
  BY <1>1, IdleRequest
<1>3. TypeOK'
  BY <1>1 DEF IInv, TypeOK, BatchStep
<1>4. OneRowPerEvent'
  BY DEF IInv, OneRowPerEvent
<1>5. QED
  BY <1>2, <1>3, <1>4 DEF IInv, BatchStep

\* Steps that remove keys S from the bucket and end the request.
LEMMA RemoveIInv ==
  ASSUME IInv, NEW S, bolt' = Remove(S), sent' = {}, reply' \in {"none", "ok", "err"},
         late' = late, rows' = rows, chan' = chan, batch' = batch, seq' = seq,
         up' = up, seen' = seen, old' = old, buffered' = buffered,
         run' \in RunHistory, mets' \in Metrics
  PROVE  IInv'
<1>1. Keys' = Keys \ S /\ \A k \in Keys' : bolt'[k] = bolt[k]
  BY DEF Remove, Keys
<1>2. SentIsPrefix' /\ AckedIsStored'
  BY IdleRequest
<1>3. TypeOK'
  BY <1>1 DEF IInv, TypeOK
<1>4. KeysUpToSeq' /\ OneRowPerEvent'
  BY <1>1 DEF IInv, KeysUpToSeq, OneRowPerEvent
<1>5. QED
  BY <1>2, <1>3, <1>4 DEF IInv

\* Steps that leave the buffer and the counters alone and end the request.
LEMMA EndRequestIInv ==
  ASSUME IInv, UNCHANGED <<seq, bolt, rows, mets, seen, buffered, old, run>>,
         sent' = {}, reply' = "none", late' \subseteq SUBSET Events,
         up' \in BOOLEAN, chan' \in Seq(Events), batch' \in Seq(Events)
  PROVE  IInv'
<1>1. SentIsPrefix' /\ AckedIsStored'
  BY IdleRequest
<1>2. QED
  BY <1>1 DEF IInv, TypeOK, KeysUpToSeq, OneRowPerEvent, Keys

\* The events of a request are events.
LEMMA PayloadType == TypeOK => Payload \subseteq Events /\ Abandoned \subseteq SUBSET Events
BY DEF TypeOK, Payload, Abandoned

\* An insert adds at most the first row of an event and never removes one.
LEMMA InsertedStep ==
  ASSUME TypeOK, OneRowPerEvent, NEW S, rows' = Inserted(S)
  PROVE  /\ rows' \in [Events -> Nat]
         /\ OneRowPerEvent'
         /\ Stored \subseteq Stored'
         /\ S \cap Events \subseteq Stored' \cup Unacceptable
<1>1. rows \in [Events -> Nat] /\ \A e \in Events : rows[e] <= 1
  BY DEF TypeOK, OneRowPerEvent
<1>2. \A e \in Events : rows'[e] = IF e \in S \ Unacceptable /\ rows[e] = 0
                                   THEN 1 ELSE rows[e]
  BY DEF Inserted
<1>3. rows' \in [Events -> Nat]
  BY <1>1 DEF Inserted
<1>4. QED
  BY <1>1, <1>2, <1>3 DEF OneRowPerEvent, Stored

LEMMA NextIInv == IInv /\ [Next]_vars => IInv'
<1> SUFFICES ASSUME IInv, [Next]_vars PROVE IInv'
  OBVIOUS
<1> USE DEF IInv
<1>0. run \in RunHistory /\ mets \in Metrics /\ chan \in Seq(Events)
      /\ batch \in Seq(Events)
  BY DEF TypeOK
<1>1. ASSUME NEW e \in Events, TakeDnstap(e) PROVE IInv'
  <2>1. BatchStep
    BY <1>1, AppendIsBatchStep DEF TakeDnstap
  <2>2. run' \in RunHistory
    BY <1>0, <1>1 DEF TakeDnstap, RunHistory
  <2>3. QED
    BY <1>0, <1>1, <2>1, <2>2, BatchIInv DEF TakeDnstap, TypeOK
<1>2. ASSUME NEW e \in Events, RecvProtobuf(e) PROVE IInv'
  <2>1. run' \in RunHistory
    BY <1>0, <1>2 DEF RecvProtobuf, RunHistory
  <2>2. chan' \in Seq(Events) /\ mets' \in Metrics
    <3>1. mets.dropped + 1 \in Nat
      BY <1>0 DEF Metrics
    <3>2. CASE Len(chan) < ChanCap
      BY <1>0, <1>2, <3>2 DEF RecvProtobuf
    <3>3. CASE ~(Len(chan) < ChanCap)
      BY <1>0, <1>2, <3>1, <3>3, MetricsUpdates DEF RecvProtobuf
    <3>4. QED
      BY <3>2, <3>3
  <2>3. UNCHANGED <<up, batch, seq, bolt, sent, reply, late, rows, buffered, old>>
        /\ seen' \subseteq Events
    BY <1>2 DEF RecvProtobuf, TypeOK
  <2>4. QED
    BY <2>1, <2>2, <2>3 DEF TypeOK, KeysUpToSeq, SentIsPrefix, AckedIsStored,
       OneRowPerEvent, Payload, Stored, Keys
<1>3. ASSUME NEW e \in Events, Age(e) PROVE IInv'
  BY <1>3 DEF Age, TypeOK, KeysUpToSeq, SentIsPrefix, AckedIsStored,
     OneRowPerEvent, Payload, Stored, Keys
<1>4. CASE TakeProtobuf
  <2>1. Head(chan) \in Events /\ Tail(chan) \in Seq(Events)
    BY <1>0, <1>4 DEF TakeProtobuf
  <2>2. BatchStep
    BY <1>4, <2>1, AppendIsBatchStep DEF TakeProtobuf
  <2>3. QED
    BY <1>0, <1>4, <2>1, <2>2, BatchIInv DEF TakeProtobuf, TypeOK
<1>5. CASE Tick
  <2>1. BatchStep
    BY <1>0, <1>5, FlushIsBatchStep DEF Tick
  <2>2. IsFiniteSet(DOMAIN bolt') /\ DOMAIN bolt' \subseteq Nat
    <3>1. Keys' \in SUBSET Nat /\ seq' \in Nat /\ \A s \in Keys' : s <= seq'
      BY <2>1 DEF BatchStep, KeysUpToSeq
    <3>2. QED
      BY <3>1, FS_BoundedSetOfNaturals DEF Keys
  <2>3. MaxBatch \in Nat
    BY MaxBatchAssumption
  <2>4. sent' = Peek(bolt', MaxBatch)
    BY <1>5 DEF Tick
  <2>5. sent' \subseteq Keys' /\ \A s \in sent', k \in Keys' : k <= s => k \in sent'
    BY <2>2, <2>3, <2>4, PeekPrefix DEF Keys
  <2>6. reply' = "none" /\ UNCHANGED <<up, chan, late, rows, seen, old, run>>
    BY <1>5 DEF Tick
  <2>7. TypeOK'
    BY <2>1, <2>5, <2>6 DEF BatchStep, TypeOK
  <2>8. SentIsPrefix' /\ AckedIsStored' /\ OneRowPerEvent'
    BY <2>5, <2>6 DEF SentIsPrefix, AckedIsStored, OneRowPerEvent
  <2>9. QED
    BY <2>1, <2>7, <2>8 DEF BatchStep
<1>6. CASE PostFailed
  BY <1>0, <1>6, PayloadType, EndRequestIInv DEF PostFailed, TypeOK
<1>7. CASE PostOk
  <2>1. Cardinality(sent) \in Nat /\ Cardinality(Keys \ Deleted(sent)) \in Nat
    BY KeysFinite, FS_Subset, FS_Difference, FS_CardinalityType DEF TypeOK
  <2>2. mets.shipped + Cardinality(sent) \in Nat
    BY <1>0, <2>1 DEF Metrics
  <2>3. mets' \in Metrics
    BY <1>0, <1>7, <2>1, <2>2, MetricsUpdates DEF PostOk
  <2>4. QED
    BY <1>0, <1>7, <2>3, RemoveIInv DEF PostOk
<1>8. CASE DeleteFailed
  BY <1>0, <1>8, EndRequestIInv DEF DeleteFailed, TypeOK
<1>9. CASE Prune
  <2>1. Cardinality(Expired) \in Nat
    BY KeysFinite, FS_Subset, FS_CardinalityType DEF Expired
  <2>2. run' \in RunHistory
    BY <1>0, <1>9, <2>1 DEF Prune, RunHistory
  <2>3. sent' = {}
    BY <1>9 DEF Prune, Waiting
  <2>4. QED
    BY <1>0, <1>9, <2>2, <2>3, RemoveIInv DEF Prune, TypeOK
<1>10. CASE Ingest
  <2>1. rows' \in [Events -> Nat] /\ OneRowPerEvent'
        /\ Payload \cap Events \subseteq Stored' \cup Unacceptable
    BY <1>10, InsertedStep DEF Ingest
  <2>2. Payload' = Payload /\ Payload \subseteq Events
    BY <1>10, PayloadType DEF Ingest, Payload
  <2>3. UNCHANGED <<up, chan, batch, seq, bolt, sent, late, mets, seen, buffered,
                    old, run>> /\ reply' = "ok"
    BY <1>10 DEF Ingest
  <2>4. AckedIsStored'
    BY <2>1, <2>2 DEF AckedIsStored
  <2>5. QED
    BY <2>1, <2>3, <2>4 DEF TypeOK, KeysUpToSeq, SentIsPrefix, Keys
<1>11. CASE IngestFailed
  BY <1>11 DEF IngestFailed, TypeOK, KeysUpToSeq, SentIsPrefix, AckedIsStored,
     OneRowPerEvent, Keys
<1>12. ASSUME NEW S \in late, LateIngest(S) PROVE IInv'
  <2>1. rows' \in [Events -> Nat] /\ OneRowPerEvent' /\ Stored \subseteq Stored'
    BY <1>12, InsertedStep DEF LateIngest
  <2>2. UNCHANGED <<up, chan, batch, seq, bolt, sent, reply, mets, seen, buffered,
                    old, run>> /\ late' \subseteq late
    BY <1>12 DEF LateIngest
  <2>3. AckedIsStored'
    BY <2>1, <2>2 DEF AckedIsStored, Payload
  <2>4. QED
    BY <2>1, <2>2, <2>3 DEF TypeOK, KeysUpToSeq, SentIsPrefix, Keys
<1>13. CASE Stop
  <2>0. <<>> \in Seq(Events)
    OBVIOUS
  <2>1. chan' \in Seq(Events) /\ batch' \in Seq(Events) /\ up' \in BOOLEAN
    BY <1>13, <2>0, Zenon DEF Stop
  <2>2. late' \subseteq SUBSET Events
    BY <1>13, PayloadType DEF Stop
  <2>3. QED
    BY <1>13, <2>1, <2>2, EndRequestIInv DEF Stop
<1>14. CASE Open
  <2>1. Cardinality(Keys) \in Nat
    BY KeysFinite, FS_CardinalityType
  <2>2. NoMets \in Metrics
    BY DEF NoMets, Metrics
  <2>3. mets' \in Metrics
    BY <1>14, <2>1, <2>2, MetricsUpdates DEF Open
  <2>4. run' \in RunHistory
    BY <1>14, <2>1 DEF Open, RunHistory
  <2>5. seq' \in Nat /\ KeysUpToSeq'
    BY <1>14 DEF Open, LastSeq, KeysUpToSeq, Keys, TypeOK
  <2>6. UNCHANGED <<chan, batch, bolt, sent, reply, late, rows, seen, buffered, old>>
        /\ up' \in BOOLEAN
    BY <1>14 DEF Open
  <2>7. QED
    BY <2>3, <2>4, <2>5, <2>6 DEF TypeOK, SentIsPrefix, AckedIsStored,
       OneRowPerEvent, Payload, Stored, Keys
<1>15. CASE UNCHANGED vars
  BY <1>15 DEF vars, TypeOK, KeysUpToSeq, SentIsPrefix, AckedIsStored,
     OneRowPerEvent, Payload, Stored, Keys
<1>16. QED
  BY <1>1, <1>2, <1>3, <1>4, <1>5, <1>6, <1>7, <1>8, <1>9, <1>10, <1>11, <1>12,
     <1>13, <1>14, <1>15 DEF Next


-----------------------------------------------------------------------------
(* Theorems *)

\* The inductive invariant holds.
THEOREM Invariance == Spec => []IInv
BY InitIInv, NextIInv, PTL DEF Spec

\* The state of processor, buffer and primary keeps its type.
THEOREM TypeCorrect == Spec => []TypeOK
<1>1. IInv => TypeOK
  BY DEF IInv
<1>2. QED
  BY <1>1, Invariance, PTL

\* Retried, duplicated and late requests never store an event twice (ingest's
\* ON CONFLICT DO NOTHING), whatever is lost and whoever crashes.
THEOREM EventsStoredOnce == Spec => []OneRowPerEvent
<1>1. IInv => OneRowPerEvent
  BY DEF IInv
<1>2. QED
  BY <1>1, Invariance, PTL

\* The step of BufferedUntilStored: only PostOk, Prune and a flush touch the
\* bucket, and each of them keeps what is neither stored, refused nor old.
LEMMA BufferedStep ==
  IInv /\ [Next]_vars =>
    \A e \in Range(bolt) : e \in Range(bolt') \cup Stored' \cup Unacceptable \cup old
<1> SUFFICES ASSUME IInv, [Next]_vars, NEW k \in Keys
             PROVE  bolt[k] \in Range(bolt') \cup Stored' \cup Unacceptable \cup old
  BY DEF Range, Keys
<1> USE DEF IInv
<1>1. ASSUME bolt' = bolt PROVE bolt[k] \in Range(bolt')
  BY <1>1 DEF Range, Keys
<1>2. ASSUME BatchStep PROVE bolt[k] \in Range(bolt')
  <2>1. k \in DOMAIN bolt' /\ bolt'[k] = bolt[k]
    BY <1>2 DEF BatchStep, Keys
  <2>2. QED
    BY <2>1 DEF Range
<1>3. ASSUME NEW S, bolt' = Remove(S), k \notin S PROVE bolt[k] \in Range(bolt')
  <2>1. k \in DOMAIN bolt' /\ bolt'[k] = bolt[k]
    BY <1>3 DEF Remove, Keys
  <2>2. QED
    BY <2>1 DEF Range
<1>4. ASSUME NEW e \in Events, TakeDnstap(e) PROVE bolt[k] \in Range(bolt')
  BY <1>2, <1>4, AppendIsBatchStep DEF TakeDnstap
<1>5. CASE TakeProtobuf
  <2>1. Head(chan) \in Events
    BY <1>5 DEF TakeProtobuf, TypeOK
  <2>2. QED
    BY <1>2, <1>5, <2>1, AppendIsBatchStep DEF TakeProtobuf
<1>6. CASE Tick
  <2>1. batch \in Seq(Events)
    BY DEF TypeOK
  <2>2. QED
    BY <1>2, <1>6, <2>1, FlushIsBatchStep DEF Tick
<1>7. CASE PostOk
  <2>1. CASE k \in Deleted(sent)
    <3>1. k \in sent
      BY <2>1 DEF Deleted, SentIsPrefix
    <3>2. bolt[k] \in Stored \cup Unacceptable
      BY <1>7, <3>1 DEF PostOk, AckedIsStored, Payload
    <3>3. Stored' = Stored
      BY <1>7 DEF PostOk, Stored
    <3>4. QED
      BY <3>2, <3>3
  <2>2. CASE k \notin Deleted(sent)
    BY <1>3, <1>7, <2>2 DEF PostOk
  <2>3. QED
    BY <2>1, <2>2
<1>8. CASE Prune
  <2>1. CASE k \in Expired
    BY <2>1 DEF Expired
  <2>2. CASE k \notin Expired
    BY <1>3, <1>8, <2>2 DEF Prune
  <2>3. QED
    BY <2>1, <2>2
<1>9. CASE PostFailed \/ DeleteFailed \/ Ingest \/ IngestFailed \/ Stop \/ Open
  BY <1>1, <1>9 DEF PostFailed, DeleteFailed, Ingest, IngestFailed, Stop, Open
<1>10. ASSUME NEW e \in Events, RecvProtobuf(e) \/ Age(e)
       PROVE bolt[k] \in Range(bolt')
  BY <1>1, <1>10 DEF RecvProtobuf, Age
<1>11. ASSUME NEW S \in late, LateIngest(S) PROVE bolt[k] \in Range(bolt')
  BY <1>1, <1>11 DEF LateIngest
<1>12. CASE UNCHANGED vars
  BY <1>1, <1>12 DEF vars
<1>13. QED
  BY <1>4, <1>5, <1>6, <1>7, <1>8, <1>9, <1>10, <1>11, <1>12 DEF Next

\* No event committed to the on-disk buffer is lost: it leaves the bucket only
\* stored, refused by ingest or past its maximal age.
THEOREM NoBufferedEventLost == Spec => BufferedUntilStored
<1>1. Spec => []IInv
  BY Invariance
<1>2. IInv /\ [Next]_vars =>
        [\A e \in Range(bolt) :
           e \in Range(bolt') \cup Stored' \cup Unacceptable \cup old]_vars
  BY BufferedStep
<1>3. QED
  BY <1>1, <1>2, PTL DEF Spec, BufferedUntilStored

-----------------------------------------------------------------------------
(* The order of the events.  An event enters the processor once, so it is in
   one place of it at most, and every request, answered or not, is a prefix of
   the bucket it was read from. *)

OneToOne(f) == \A i, j \in DOMAIN f : f[i] = f[j] => i = j

\* Events on their way to the bucket are in one place and were never in it.
Fresh ==
  /\ OneToOne(chan) /\ OneToOne(batch)
  /\ Range(chan) \cap Range(batch) = {}
  /\ (Range(chan) \cup Range(batch)) \cap buffered = {}
  /\ Range(chan) \cup Range(batch) \cup buffered \subseteq seen

\* Only what was in the bucket is stored or may still be.
Traced ==
  /\ Range(bolt) \subseteq buffered
  /\ Stored \subseteq buffered
  /\ \A S \in late : S \subseteq buffered

\* An abandoned request was a prefix of the bucket, and still is one of what the
\* bucket holds and the primary does not.
LateIsPrefix ==
  \A S \in late : \A j, k \in Keys :
    j < k /\ bolt[k] \in S => bolt[j] \in S \cup Stored \cup Unacceptable

DiskOrder ==
  /\ Traced
  /\ OneToOne(bolt)
  /\ LateIsPrefix
  /\ StoredIsPrefix

OrderInv == Fresh /\ DiskOrder

\* Appending a new event and taking the first one keep a queue free of repetitions.
LEMMA AppendOneToOne ==
  ASSUME NEW s \in Seq(Events), NEW e \in Events
  PROVE  /\ Append(s, e) \in Seq(Events)
         /\ Range(Append(s, e)) = Range(s) \cup {e}
         /\ OneToOne(s) /\ e \notin Range(s) => OneToOne(Append(s, e))
<1> DEFINE a == Append(s, e)
<1>1. a \in Seq(Events) /\ Len(a) = Len(s) + 1 /\ Len(s) \in Nat
  OBVIOUS
<1>2. DOMAIN a = 1 .. Len(s) + 1 /\ DOMAIN s = 1 .. Len(s)
  OBVIOUS
<1>3. a[Len(s) + 1] = e /\ \A i \in 1 .. Len(s) : a[i] = s[i]
  OBVIOUS
<1> HIDE DEF a
<1>4. Range(a) = Range(s) \cup {e}
  BY <1>1, <1>2, <1>3 DEF Range
<1>5. ASSUME OneToOne(s), e \notin Range(s) PROVE OneToOne(a)
  BY <1>1, <1>2, <1>3, <1>5 DEF Range, OneToOne
<1>6. QED
  BY <1>1, <1>4, <1>5 DEF a

LEMMA TailOneToOne ==
  ASSUME NEW s \in Seq(Events), s # <<>>
  PROVE  /\ Head(s) \in Events /\ Tail(s) \in Seq(Events)
         /\ Range(s) = {Head(s)} \cup Range(Tail(s))
         /\ OneToOne(s) => OneToOne(Tail(s)) /\ Head(s) \notin Range(Tail(s))
<1> DEFINE t == Tail(s)
<1>1. Len(s) \in Nat \ {0} /\ t \in Seq(Events) /\ Len(t) = Len(s) - 1
  OBVIOUS
<1>2. DOMAIN s = 1 .. Len(s) /\ DOMAIN t = 1 .. Len(s) - 1
  BY <1>1
<1>3. Head(s) = s[1] /\ \A i \in 1 .. Len(s) - 1 : t[i] = s[i + 1]
  OBVIOUS
<1> HIDE DEF t
<1>4. Head(s) \in Events
  BY <1>1, <1>2, <1>3
<1>5. Range(s) = {Head(s)} \cup Range(t)
  <2>1. \A i \in DOMAIN s : i = 1 \/ (i - 1 \in DOMAIN t /\ s[i] = t[i - 1])
    BY <1>1, <1>2, <1>3
  <2>2. \A i \in DOMAIN t : i + 1 \in DOMAIN s /\ t[i] = s[i + 1]
    BY <1>1, <1>2, <1>3
  <2>3. 1 \in DOMAIN s
    BY <1>1, <1>2
  <2>4. Range(s) \subseteq {Head(s)} \cup Range(t)
    BY <1>3, <2>1 DEF Range
  <2>5. {Head(s)} \cup Range(t) \subseteq Range(s)
    BY <1>3, <2>2, <2>3 DEF Range
  <2>6. QED
    BY <2>4, <2>5
<1>6. ASSUME OneToOne(s) PROVE OneToOne(t) /\ Head(s) \notin Range(t)
  <2>1. \A i \in DOMAIN t : i + 1 \in DOMAIN s /\ t[i] = s[i + 1] /\ i \in Nat /\ i + 1 # 1
    BY <1>1, <1>2, <1>3
  <2>2. 1 \in DOMAIN s
    BY <1>1, <1>2
  <2>3. OneToOne(t)
    BY <1>6, <2>1 DEF OneToOne
  <2>4. Head(s) \notin Range(t)
    BY <1>3, <1>6, <2>1, <2>2 DEF OneToOne, Range
  <2>5. QED
    BY <2>3, <2>4
<1>7. QED
  BY <1>1, <1>4, <1>5, <1>6 DEF t

\* A flush puts the batch behind everything in the bucket.
LEMMA FlushOrder ==
  ASSUME IInv, DiskOrder, NEW b \in Seq(Events), FlushOk(b),
         OneToOne(b), Range(b) \cap buffered = {}, rows' = rows, late' = late
  PROVE  /\ DiskOrder'
         /\ buffered' = buffered \cup Range(b)
         /\ Range(bolt') = Range(bolt) \cup Range(b)
<1>1. TypeOK /\ KeysUpToSeq
  BY DEF IInv
<1>2. Len(b) \in Nat /\ seq \in Nat /\ Keys \subseteq Nat /\ DOMAIN b = 1 .. Len(b)
  BY <1>1 DEF TypeOK
<1>3. Keys' = Keys \cup NewKeys(b) /\ \A k \in Keys : bolt'[k] = bolt[k]
  BY <1>1, FlushOkStep
<1>4. \A k \in NewKeys(b) : bolt'[k] = b[k - seq]
  BY DEF FlushOk, PutBatch
<1>5. \A k \in NewKeys(b) : k \in Nat /\ k - seq \in DOMAIN b
  BY <1>2 DEF NewKeys
<1>6. \A k \in NewKeys(b), j \in Keys : j < k
  BY <1>1, <1>2 DEF NewKeys, KeysUpToSeq
<1>7. \A i \in DOMAIN b : seq + i \in NewKeys(b) /\ (seq + i) - seq = i
  BY <1>2 DEF NewKeys
<1>8. buffered' = buffered \cup Range(b)
  BY DEF FlushOk
<1>9. \A k \in NewKeys(b) : bolt'[k] \in Range(b)
  BY <1>4, <1>5 DEF Range
<1>10. \A k \in Keys : bolt[k] \in Range(bolt) /\ bolt[k] \in buffered
  BY DEF DiskOrder, Traced, Range, Keys
<1>11. Range(bolt') = Range(bolt) \cup Range(b)
  <2>1. \A k \in Keys' : bolt'[k] \in Range(bolt) \cup Range(b)
    BY <1>3, <1>9, <1>10
  <2>2. \A k \in Keys : k \in Keys' /\ bolt'[k] = bolt[k]
    BY <1>3
  <2>3. \A i \in DOMAIN b : seq + i \in Keys' /\ bolt'[seq + i] = b[i]
    BY <1>3, <1>4, <1>7
  <2>4. QED
    BY <2>1, <2>2, <2>3 DEF Range, Keys
<1>12. Stored' = Stored
  BY DEF Stored
<1>13. Traced'
  BY <1>8, <1>11, <1>12 DEF DiskOrder, Traced
<1>14. OneToOne(bolt')
  <2> SUFFICES ASSUME NEW j \in Keys', NEW k \in Keys', bolt'[j] = bolt'[k] PROVE j = k
    BY DEF OneToOne, Keys
  <2>1. CASE j \in Keys /\ k \in Keys
    BY <1>3, <2>1 DEF DiskOrder, OneToOne, Keys
  <2>2. CASE j \in NewKeys(b) /\ k \in NewKeys(b)
    <3>1. j - seq = k - seq
      BY <1>4, <1>5, <2>2 DEF OneToOne
    <3>2. QED
      BY <1>2, <1>5, <2>2, <3>1
  <2>3. CASE j \in Keys /\ k \in NewKeys(b)
    BY <1>3, <1>9, <1>10, <2>3
  <2>4. CASE j \in NewKeys(b) /\ k \in Keys
    BY <1>3, <1>9, <1>10, <2>4
  <2>5. QED
    BY <1>3, <2>1, <2>2, <2>3, <2>4
<1>15. \A j, k \in Keys' : j < k /\ bolt'[k] \in buffered =>
         /\ j \in Keys /\ k \in Keys
         /\ bolt'[j] = bolt[j] /\ bolt'[k] = bolt[k]
  <2>0. \A k \in NewKeys(b) : bolt'[k] \notin buffered
    BY <1>9
  <2>1. \A k \in Keys, j \in NewKeys(b) : ~(j < k)
    BY <1>2, <1>5, <1>6
  <2>2. QED
    BY <1>3, <2>0, <2>1
<1>16. LateIsPrefix'
  BY <1>12, <1>15 DEF DiskOrder, LateIsPrefix, Traced
<1>17. StoredIsPrefix'
  BY <1>12, <1>15 DEF DiskOrder, StoredIsPrefix, Traced
<1>18. QED
  BY <1>8, <1>11, <1>13, <1>14, <1>16, <1>17 DEF DiskOrder

\* Removing keys keeps the order of the others.
LEMMA RemoveOrder ==
  ASSUME IInv, DiskOrder, NEW S, bolt' = Remove(S),
         rows' = rows, late' = late, buffered' = buffered
  PROVE  DiskOrder' /\ Range(bolt') \subseteq Range(bolt)
<1>1. Keys' = Keys \ S /\ \A k \in Keys' : bolt'[k] = bolt[k]
  BY DEF Remove, Keys
<1>2. Range(bolt') \subseteq Range(bolt)
  BY <1>1 DEF Range, Keys
<1>3. Stored' = Stored
  BY DEF Stored
<1>4. OneToOne(bolt')
  BY <1>1 DEF DiskOrder, OneToOne, Keys
<1>5. QED
  BY <1>1, <1>2, <1>3, <1>4 DEF DiskOrder, Traced, LateIsPrefix, StoredIsPrefix

\* The primary inserts a prefix of what the bucket holds and it does not.
LEMMA InsertOrder ==
  ASSUME IInv, DiskOrder, NEW S, rows' = Inserted(S), bolt' = bolt,
         buffered' = buffered, late' \subseteq late, S \subseteq buffered,
         \A j, k \in Keys :
           j < k /\ bolt[k] \in S => bolt[j] \in S \cup Stored \cup Unacceptable
  PROVE  DiskOrder' /\ Stored \subseteq Stored' /\ Stored' \subseteq Stored \cup S
<1>1. TypeOK /\ OneRowPerEvent
  BY DEF IInv
<1>2. Stored \subseteq Stored' /\ S \cap Events \subseteq Stored' \cup Unacceptable
  BY <1>1, InsertedStep
<1>3. Stored' \subseteq Stored \cup S
  BY DEF Stored, Inserted
<1>4. Keys' = Keys /\ \A k \in Keys : bolt'[k] \in Events
  BY <1>1 DEF Keys, TypeOK
<1>5. StoredIsPrefix'
  BY <1>2, <1>3, <1>4 DEF DiskOrder, StoredIsPrefix
<1>6. LateIsPrefix'
  BY <1>2, <1>4 DEF DiskOrder, LateIsPrefix
<1>7. Traced'
  BY <1>2, <1>3 DEF DiskOrder, Traced
<1>8. QED
  BY <1>2, <1>3, <1>5, <1>6, <1>7 DEF DiskOrder

\* The request in flight is a prefix of the bucket, so an abandoned one is too.
LEMMA PayloadPrefix ==
  ASSUME IInv, DiskOrder
  PROVE  /\ Payload \subseteq buffered
         /\ \A j, k \in Keys : j < k /\ bolt[k] \in Payload => bolt[j] \in Payload
<1>1. sent \subseteq Keys /\ Keys \subseteq Nat
  BY DEF IInv, TypeOK
<1>2. Payload \subseteq buffered
  BY <1>1 DEF DiskOrder, Traced, Payload, Range, Keys
<1>3. ASSUME NEW j \in Keys, NEW k \in Keys, j < k, bolt[k] \in Payload
      PROVE  bolt[j] \in Payload
  <2>1. k \in sent
    BY <1>1, <1>3 DEF Payload, DiskOrder, OneToOne, Keys
  <2>2. j \in sent
    BY <1>1, <1>3, <2>1 DEF IInv, SentIsPrefix
  <2>3. QED
    BY <2>2 DEF Payload
<1>4. QED
  BY <1>2, <1>3

LEMMA AbandonOrder ==
  ASSUME IInv, DiskOrder, late' = Abandoned, UNCHANGED <<bolt, rows, buffered>>
  PROVE  DiskOrder'
<1>1. late' \subseteq late \cup {Payload}
  BY DEF Abandoned
<1>2. Keys' = Keys /\ Stored' = Stored
  BY DEF Keys, Stored
<1>3. Traced' /\ LateIsPrefix'
  BY <1>1, <1>2, PayloadPrefix DEF DiskOrder, Traced, LateIsPrefix
<1>4. QED
  BY <1>2, <1>3 DEF DiskOrder, StoredIsPrefix

LEMMA SameOrder ==
  ASSUME DiskOrder, UNCHANGED <<bolt, rows, buffered, late>>
  PROVE  DiskOrder'
BY DEF DiskOrder, Traced, LateIsPrefix, StoredIsPrefix, Stored, Keys

\* What a step does to the three sets of EventLog: it accepts new events, stores
\* accepted ones, gives buffered ones up, or leaves them alone.
LogAccept(B) ==
  /\ B \subseteq Events /\ B \cap buffered = {}
  /\ Range(bolt') = Range(bolt) \cup B
  /\ buffered' = buffered \cup B
  /\ Stored' = Stored
LogStore ==
  /\ bolt' = bolt /\ buffered' = buffered
  /\ Stored \subseteq Stored' /\ Stored' \subseteq Stored \cup buffered
LogGiveUp ==
  /\ Range(bolt') \subseteq Range(bolt)
  /\ buffered' = buffered /\ Stored' = Stored
LogStep == (\E B \in SUBSET Events : LogAccept(B)) \/ LogStore \/ LogGiveUp

LEMMA FlushedOrder ==
  ASSUME IInv, DiskOrder, NEW b \in Seq(Events), FlushOk(b) \/ FlushFailed(b),
         OneToOne(b), Range(b) \cap buffered = {}, rows' = rows, late' = late
  PROVE  /\ DiskOrder' /\ LogStep
         /\ batch' = <<>>
         /\ buffered' \subseteq buffered \cup Range(b)
<1>1. Stored' = Stored
  BY DEF Stored
<1>2. CASE FlushOk(b)
  <2>1. Range(b) \in SUBSET Events
    BY DEF Range
  <2>2. LogAccept(Range(b)) /\ DiskOrder'
    BY <1>1, <1>2, <2>1, FlushOrder DEF LogAccept
  <2>3. QED
    BY <1>2, <2>1, <2>2 DEF LogStep, FlushOk
<1>3. CASE FlushFailed(b)
  <2>1. bolt' = bolt /\ buffered' = buffered /\ batch' = <<>>
    BY <1>3 DEF FlushFailed, diskVars
  <2>2. DiskOrder'
    BY <2>1, SameOrder
  <2>3. QED
    BY <1>1, <2>1, <2>2 DEF LogStep, LogStore
<1>4. QED
  BY <1>2, <1>3

\* Both event cases of the loop: e is new to the batch and to the bucket.
LEMMA AppendOrder ==
  ASSUME IInv, OrderInv, NEW e \in Events, e \notin Range(batch) \cup buffered,
         AppendToBatch(e), rows' = rows, late' = late
  PROVE  /\ DiskOrder' /\ LogStep
         /\ OneToOne(batch') /\ Range(batch') \cap buffered' = {}
         /\ Range(batch') \cup buffered' \subseteq Range(batch) \cup {e} \cup buffered
<1> DEFINE b == Append(batch, e)
<1>0. batch \in Seq(Events)
  BY DEF IInv, TypeOK
<1>1. b \in Seq(Events) /\ OneToOne(b) /\ Range(b) = Range(batch) \cup {e}
  BY <1>0, AppendOneToOne DEF OrderInv, Fresh
<1>2. Range(b) \cap buffered = {}
  BY <1>1 DEF OrderInv, Fresh
<1>3. IF Len(b) >= MaxBatch THEN FlushOk(b) \/ FlushFailed(b)
      ELSE batch' = b /\ UNCHANGED <<bolt, buffered>>
  BY DEF AppendToBatch, diskVars
<1> HIDE DEF b
<1>4. CASE Len(b) >= MaxBatch
  <2>1. /\ DiskOrder' /\ LogStep /\ batch' = <<>>
        /\ buffered' \subseteq buffered \cup Range(b)
    BY <1>1, <1>2, <1>3, <1>4, FlushedOrder DEF OrderInv
  <2>2. OneToOne(batch') /\ Range(batch') = {}
    BY <2>1 DEF OneToOne, Range
  <2>3. QED
    BY <1>1, <2>1, <2>2
<1>5. CASE ~(Len(b) >= MaxBatch)
  <2>1. batch' = b /\ UNCHANGED <<bolt, buffered>>
    BY <1>3, <1>5
  <2>2. DiskOrder' /\ LogStep
    BY <2>1, SameOrder DEF OrderInv, LogStep, LogStore, Stored
  <2>3. QED
    BY <1>1, <1>2, <2>1, <2>2
<1>6. QED
  BY <1>4, <1>5

\* Every step keeps the order and is a step of the abstract log.
LEMMA OrderStep == IInv /\ OrderInv /\ [Next]_vars => OrderInv' /\ LogStep
<1> SUFFICES ASSUME IInv, OrderInv, [Next]_vars PROVE OrderInv' /\ LogStep
  OBVIOUS
<1>0. TypeOK /\ Fresh /\ DiskOrder /\ chan \in Seq(Events) /\ batch \in Seq(Events)
  BY DEF IInv, OrderInv, TypeOK
<1>a. ASSUME UNCHANGED <<bolt, rows, buffered>> PROVE LogStep
  BY <1>a DEF LogStep, LogStore, Stored
<1>b. ASSUME UNCHANGED <<chan, batch, buffered, seen>> PROVE Fresh'
  BY <1>0, <1>b DEF Fresh
<1>c. ASSUME UNCHANGED <<chan, batch, seen, bolt, rows, buffered, late>>
      PROVE  OrderInv' /\ LogStep
  BY <1>0, <1>a, <1>b, <1>c, SameOrder DEF OrderInv
<1>1. ASSUME NEW e \in Events, TakeDnstap(e) PROVE OrderInv' /\ LogStep
  <2>1. e \notin seen /\ seen' = seen \cup {e} /\ AppendToBatch(e)
        /\ UNCHANGED <<chan, rows, late>>
    BY <1>1 DEF TakeDnstap
  <2>2. e \notin Range(batch) \cup buffered \cup Range(chan)
    BY <1>0, <2>1 DEF Fresh
  <2>3. /\ DiskOrder' /\ LogStep
        /\ OneToOne(batch') /\ Range(batch') \cap buffered' = {}
        /\ Range(batch') \cup buffered' \subseteq Range(batch) \cup {e} \cup buffered
    BY <2>1, <2>2, AppendOrder
  <2>4. Fresh'
    BY <1>0, <2>1, <2>2, <2>3 DEF Fresh
  <2>5. QED
    BY <2>3, <2>4 DEF OrderInv
<1>2. ASSUME NEW e \in Events, RecvProtobuf(e) PROVE OrderInv' /\ LogStep
  <2>1. e \notin seen /\ seen' = seen \cup {e} /\ chan' \in {chan, Append(chan, e)}
        /\ UNCHANGED <<batch, bolt, late, rows, buffered>>
    BY <1>2 DEF RecvProtobuf
  <2>2. e \notin Range(batch) \cup buffered \cup Range(chan)
    BY <1>0, <2>1 DEF Fresh
  <2>3. OneToOne(chan') /\ Range(chan') \subseteq Range(chan) \cup {e}
    <3>1. OneToOne(chan)
      BY <1>0 DEF Fresh
    <3>2. OneToOne(Append(chan, e)) /\ Range(Append(chan, e)) = Range(chan) \cup {e}
      BY <1>0, <2>2, <3>1, AppendOneToOne
    <3>3. CASE chan' = chan
      BY <3>1, <3>3
    <3>4. CASE chan' = Append(chan, e)
      BY <3>2, <3>4
    <3>5. QED
      BY <2>1, <3>3, <3>4
  <2>4. Fresh'
    BY <1>0, <2>1, <2>2, <2>3 DEF Fresh
  <2>5. DiskOrder'
    BY <1>0, <2>1, SameOrder
  <2>6. QED
    BY <1>a, <2>1, <2>4, <2>5 DEF OrderInv
<1>3. ASSUME NEW e \in Events, Age(e) PROVE OrderInv' /\ LogStep
  BY <1>3, <1>c DEF Age
<1>4. CASE TakeProtobuf
  <2> DEFINE e == Head(chan)
  <2>1. chan # <<>> /\ chan' = Tail(chan) /\ AppendToBatch(e)
        /\ UNCHANGED <<rows, late, seen>>
    BY <1>4 DEF TakeProtobuf
  <2>2. /\ e \in Events /\ Range(chan) = {e} \cup Range(chan')
        /\ OneToOne(chan') /\ e \notin Range(chan')
    BY <1>0, <2>1, TailOneToOne DEF Fresh
  <2> HIDE DEF e
  <2>3. e \notin Range(batch) \cup buffered \cup Range(chan')
    BY <1>0, <2>2 DEF Fresh
  <2>4. /\ DiskOrder' /\ LogStep
        /\ OneToOne(batch') /\ Range(batch') \cap buffered' = {}
        /\ Range(batch') \cup buffered' \subseteq Range(batch) \cup {e} \cup buffered
    BY <2>1, <2>2, <2>3, AppendOrder
  <2>5. Fresh'
    BY <1>0, <2>1, <2>2, <2>3, <2>4 DEF Fresh
  <2>6. QED
    BY <2>4, <2>5 DEF OrderInv
<1>5. CASE Tick
  <2>1. (FlushOk(batch) \/ FlushFailed(batch)) /\ UNCHANGED <<chan, rows, late, seen>>
    BY <1>5 DEF Tick
  <2>2. OneToOne(batch) /\ Range(batch) \cap buffered = {}
    BY <1>0 DEF Fresh
  <2>3. DiskOrder' /\ LogStep /\ batch' = <<>> /\ buffered' \subseteq buffered \cup Range(batch)
    BY <1>0, <2>1, <2>2, FlushedOrder
  <2>4. OneToOne(batch') /\ Range(batch') = {}
    BY <2>3 DEF OneToOne, Range
  <2>5. Fresh'
    BY <1>0, <2>1, <2>3, <2>4 DEF Fresh
  <2>6. QED
    BY <2>3, <2>5 DEF OrderInv
<1>6. CASE PostFailed
  <2>1. late' = Abandoned /\ UNCHANGED <<chan, batch, seen, bolt, rows, buffered>>
    BY <1>6 DEF PostFailed
  <2>2. QED
    BY <1>0, <1>a, <1>b, <2>1, AbandonOrder DEF OrderInv
<1>7. ASSUME NEW S, bolt' = Remove(S), UNCHANGED <<chan, batch, seen, rows, buffered, late>>
      PROVE  OrderInv' /\ LogStep
  <2>1. DiskOrder' /\ Range(bolt') \subseteq Range(bolt)
    BY <1>0, <1>7, RemoveOrder
  <2>2. LogStep
    BY <1>7, <2>1 DEF LogStep, LogGiveUp, Stored
  <2>3. QED
    BY <1>7, <1>b, <2>1, <2>2 DEF OrderInv
<1>8. CASE PostOk
  BY <1>7, <1>8 DEF PostOk
<1>9. CASE Prune
  BY <1>7, <1>9 DEF Prune
<1>10. CASE DeleteFailed \/ IngestFailed \/ Open
  BY <1>10, <1>c DEF DeleteFailed, IngestFailed, Open
<1>11. ASSUME NEW S, rows' = Inserted(S), UNCHANGED <<chan, batch, seen, bolt, buffered>>,
              late' \subseteq late, S \subseteq buffered,
              \A j, k \in Keys :
                j < k /\ bolt[k] \in S => bolt[j] \in S \cup Stored \cup Unacceptable
       PROVE  OrderInv' /\ LogStep
  <2>1. DiskOrder' /\ Stored \subseteq Stored' /\ Stored' \subseteq Stored \cup S
    BY <1>0, <1>11, InsertOrder
  <2>2. LogStep
    BY <1>11, <2>1 DEF LogStep, LogStore
  <2>3. QED
    BY <1>11, <1>b, <2>1, <2>2 DEF OrderInv
<1>12. CASE Ingest
  <2>1. /\ rows' = Inserted(Payload) /\ late' = late
        /\ UNCHANGED <<chan, batch, seen, bolt, buffered>>
    BY <1>12 DEF Ingest
  <2>2. QED
    BY <1>0, <1>11, <2>1, PayloadPrefix
<1>13. ASSUME NEW S \in late, LateIngest(S) PROVE OrderInv' /\ LogStep
  <2>1. /\ rows' = Inserted(S) /\ late' \subseteq late
        /\ UNCHANGED <<chan, batch, seen, bolt, buffered>>
    BY <1>13 DEF LateIngest
  <2>2. S \subseteq buffered
    BY <1>0 DEF DiskOrder, Traced
  <2>3. \A j, k \in Keys :
          j < k /\ bolt[k] \in S => bolt[j] \in S \cup Stored \cup Unacceptable
    BY <1>0 DEF DiskOrder, LateIsPrefix
  <2>4. QED
    BY <1>11, <2>1, <2>2, <2>3
<1>14. CASE Stop
  <2>1. late' = Abandoned /\ UNCHANGED <<seen, bolt, rows, buffered>>
        /\ chan' = <<>> /\ batch' = <<>>
    BY <1>14 DEF Stop
  <2>2. OneToOne(<<>>) /\ Range(<<>>) = {}
    BY DEF OneToOne, Range
  <2>3. Fresh'
    BY <1>0, <2>1, <2>2 DEF Fresh
  <2>4. QED
    BY <1>0, <1>a, <2>1, <2>3, AbandonOrder DEF OrderInv
<1>15. CASE UNCHANGED vars
  BY <1>15, <1>c DEF vars
<1>16. QED
  BY <1>1, <1>2, <1>3, <1>4, <1>5, <1>6, <1>8, <1>9, <1>10, <1>12, <1>13, <1>14,
     <1>15 DEF Next

LEMMA InitOrder == Init => OrderInv
<1> SUFFICES ASSUME Init PROVE OrderInv
  OBVIOUS
<1>1. chan = <<>> /\ batch = <<>> /\ bolt = <<>> /\ late = {} /\ buffered = {}
      /\ rows = [e \in Events |-> 0]
  BY DEF Init
<1>2. OneToOne(<<>>) /\ Range(<<>>) = {} /\ DOMAIN <<>> = {}
  BY DEF OneToOne, Range
<1>3. Stored = {} /\ Keys = {}
  BY <1>1, <1>2 DEF Stored, Keys
<1>4. QED
  BY <1>1, <1>2, <1>3 DEF OrderInv, Fresh, DiskOrder, Traced, LateIsPrefix,
     StoredIsPrefix

\* Events reach the primary in buffer order, whatever is retried, abandoned and
\* committed late: a stored event has nothing unstored in front of it.
THEOREM StoredInOrder == Spec => []StoredIsPrefix
<1>1. OrderInv => StoredIsPrefix
  BY DEF OrderInv, DiskOrder
<1>2. IInv /\ OrderInv /\ [Next]_vars => OrderInv'
  BY OrderStep
<1>3. QED
  BY <1>1, <1>2, Invariance, InitOrder, PTL DEF Spec

-----------------------------------------------------------------------------
(* The refinement of EventLog *)

LEMMA LogStepRefines ==
  ASSUME IInv, OrderInv, LogStep
  PROVE  [Log!Next]_(Log!vars)
<1>0. Range(bolt) \subseteq buffered /\ Stored \subseteq buffered
      /\ buffered \subseteq Events /\ Stored \subseteq Events
  BY DEF IInv, TypeOK, OrderInv, DiskOrder, Traced, Stored
<1>1. ASSUME NEW B \in SUBSET Events, LogAccept(B) PROVE Log!Next
  <2>1. Log!Accept(B)
    BY <1>0, <1>1 DEF LogAccept, Log!Accept
  <2>2. QED
    BY <2>1 DEF Log!Next
<1>2. CASE LogStore
  <2> DEFINE B == Stored' \ Stored
  <2>1. B \in SUBSET Events
    BY <1>0, <1>2 DEF LogStore
  <2>2. Log!Store(B)
    BY <1>0, <1>2 DEF LogStore, Log!Store
  <2>3. QED
    BY <2>1, <2>2 DEF Log!Next
<1>3. CASE LogGiveUp
  <2> DEFINE B == Range(bolt) \ (Range(bolt') \cup Stored)
  <2>1. B \in SUBSET Events
    BY <1>0
  <2>2. Log!GiveUp(B)
    BY <1>0, <1>3 DEF LogGiveUp, Log!GiveUp
  <2>3. QED
    BY <2>1, <2>2 DEF Log!Next
<1>4. QED
  BY <1>1, <1>2, <1>3 DEF LogStep

\* The pipeline implements the durable event log: buffered events are stored or,
\* by age or by schema, given up, and nothing else ever happens to them.
THEOREM RefinesEventLog == Spec => ImplementsEventLog
<1>1. Init => Log!Init
  <2> SUFFICES ASSUME Init PROVE Log!Init
    OBVIOUS
  <2>1. Range(bolt) = {} /\ Stored = {} /\ buffered = {}
    BY DEF Init, Range, Stored
  <2>2. QED
    BY <2>1 DEF Log!Init
<1>2. IInv /\ OrderInv /\ [Next]_vars => OrderInv' /\ [Log!Next]_(Log!vars)
  BY OrderStep, LogStepRefines
<1>3. QED
  BY <1>1, <1>2, Invariance, InitOrder, PTL DEF Spec, ImplementsEventLog, Log!Spec

-----------------------------------------------------------------------------
(* The counters.  The arithmetic is about numbers only; the steps say which
   counter, queue and bucket size they are.  A stopped processor has nothing in
   memory: this is what lets Open start all counters of a run at zero. *)

\* Received, dropped, queued, batched, buffered; found, shipped, in the bucket,
\* pruned; the pending gauge.
Balance(r, d, c, b, u, f, s, n, p, g) ==
  /\ r = d + c + b + u
  /\ f + u = s + n + p
  /\ g >= n

\* A flush of len events moves them to buffered and the bucket, or to dropped.
FlushMoves(len, d, u, n, g, dd, uu, nn, gg) ==
  /\ dd + uu = d + u + len
  /\ uu + n = u + nn
  /\ g >= n => gg >= nn

LEMMA FlushArith ==
  \A r, d, c, b, u, f, s, n, p, g, dd, uu, nn, gg \in Nat :
    /\ Balance(r, d, c, b, u, f, s, n, p, g)
    /\ FlushMoves(b, d, u, n, g, dd, uu, nn, gg)
    => Balance(r, dd, c, 0, uu, f, s, nn, p, gg)
BY DEF Balance, FlushMoves

LEMMA FlushMovesArith ==
  \A len, d, u, n, g \in Nat :
    /\ FlushMoves(len, d, u, n, g, d, u + len, n + len, n + len)
    /\ FlushMoves(len, d, u, n, g, d + len, u, n, n)
    /\ len = 0 => FlushMoves(len, d, u, n, g, d, u, n, g)
BY DEF FlushMoves

LEMMA BalanceArith ==
  \A r, d, c, b, u, f, s, n, p, g, k \in Nat :
    Balance(r, d, c, b, u, f, s, n, p, g) =>
      /\ Balance(r + 1, d, c, b + 1, u, f, s, n, p, g)
      /\ Balance(r + 1, d, c + 1, b, u, f, s, n, p, g)
      /\ Balance(r + 1, d + 1, c, b, u, f, s, n, p, g)
      /\ Balance(r, d, c - 1, b + 1, u, f, s, n, p, g)
      /\ Balance(r, d, c, b, u, f, s + k, n - k, p, n - k)
      /\ Balance(r, d, c, b, u, f, s, n - k, p + k, g)
BY DEF Balance

LEMMA EmptyBalance == \A n \in Nat : Balance(0, 0, 0, 0, 0, n, 0, n, 0, n)
BY DEF Balance

DownIsEmpty == ~up => chan = <<>> /\ batch = <<>>

BalancedWith(r, c, b) ==
  Balance(r, mets.dropped, c, b, mets.buffered, run.found, mets.shipped,
          Cardinality(Keys), run.pruned, mets.pending)
Balanced == BalancedWith(run.received, Len(chan), Len(batch))

CountInv == DownIsEmpty /\ CountersBalance

LEMMA BalanceDef ==
  /\ CountersBalance <=> (up => Balanced)
  /\ CountersBalance' <=> (up' => Balanced')
BY Zenon DEF CountersBalance, Balanced, BalancedWith, Balance

\* The counters, their queues and the size of the bucket are numbers.
LEMMA CountTypes ==
  ASSUME IInv
  PROVE  /\ mets.buffered \in Nat /\ mets.shipped \in Nat
         /\ mets.dropped \in Nat /\ mets.pending \in Nat
         /\ run.received \in Nat /\ run.found \in Nat /\ run.pruned \in Nat
         /\ chan \in Seq(Events) /\ batch \in Seq(Events)
         /\ Len(chan) \in Nat /\ Len(batch) \in Nat
         /\ IsFiniteSet(Keys) /\ Cardinality(Keys) \in Nat
<1>1. mets \in Metrics /\ run \in RunHistory /\ chan \in Seq(Events) /\ batch \in Seq(Events)
  BY DEF IInv, TypeOK
<1>2. IsFiniteSet(Keys) /\ Cardinality(Keys) \in Nat
  BY KeysFinite, FS_CardinalityType DEF IInv
<1>3. QED
  BY <1>1, <1>2 DEF Metrics, RunHistory

\* Removing keys S of the bucket takes their number off its size.
LEMMA RemovedSize ==
  ASSUME IInv, NEW S, S \subseteq Keys, bolt' = Remove(S)
  PROVE  /\ Cardinality(S) \in Nat /\ Cardinality(Keys') \in Nat
         /\ Keys' = Keys \ S
         /\ Cardinality(Keys') = Cardinality(Keys) - Cardinality(S)
<1>1. IsFiniteSet(Keys)
  BY CountTypes
<1>2. Keys' = Keys \ S /\ Keys \cap S = S
  BY DEF Remove, Keys
<1>3. IsFiniteSet(S) /\ IsFiniteSet(Keys \ S)
  BY <1>1, FS_Subset, FS_Difference
<1>4. Cardinality(Keys \ S) = Cardinality(Keys) - Cardinality(Keys \cap S)
  BY <1>1, FS_Difference
<1>5. QED
  BY <1>2, <1>3, <1>4, FS_CardinalityType

FlushCounts(b) ==
  /\ Len(batch') = 0
  /\ mets'.shipped = mets.shipped
  /\ mets'.dropped \in Nat /\ mets'.buffered \in Nat /\ mets'.pending \in Nat
  /\ Cardinality(Keys') \in Nat
  /\ FlushMoves(Len(b), mets.dropped, mets.buffered, Cardinality(Keys), mets.pending,
                mets'.dropped, mets'.buffered, Cardinality(Keys'), mets'.pending)

LEMMA FlushBalance ==
  ASSUME IInv, NEW b \in Seq(Events), FlushOk(b) \/ FlushFailed(b)
  PROVE  FlushCounts(b)
<1>0. mets \in Metrics /\ seq \in Nat /\ Len(b) \in Nat /\ Keys \subseteq Nat
  BY DEF IInv, TypeOK
<1>1. IsFiniteSet(Keys) /\ Cardinality(Keys) \in Nat
  BY CountTypes
<1>f. /\ mets.dropped \in Nat /\ mets.buffered \in Nat /\ mets.pending \in Nat
      /\ mets.dropped + Len(b) \in Nat /\ mets.buffered + Len(b) \in Nat
      /\ Cardinality(Keys) + Len(b) \in Nat
  BY <1>0, <1>1 DEF Metrics
<1>2. CASE FlushOk(b)
  <2>1. Keys' = Keys \cup NewKeys(b)
    BY <1>2, FlushOkStep DEF IInv
  <2>2. IsFiniteSet(NewKeys(b)) /\ Cardinality(NewKeys(b)) = Len(b)
    <3>1. seq + 1 \in Int /\ seq + Len(b) \in Int
      BY <1>0
    <3>2. /\ IsFiniteSet((seq + 1) .. (seq + Len(b)))
          /\ Cardinality((seq + 1) .. (seq + Len(b))) =
               IF seq + 1 > seq + Len(b) THEN 0 ELSE (seq + Len(b)) - (seq + 1) + 1
      BY <3>1, FS_Interval
    <3>3. QED
      BY <1>0, <3>2 DEF NewKeys
  <2>3. Keys \cap NewKeys(b) = {}
    BY <1>0 DEF NewKeys, IInv, KeysUpToSeq
  <2>4. Cardinality(Keys \cup NewKeys(b)) =
          Cardinality(Keys) + Cardinality(NewKeys(b)) - Cardinality(Keys \cap NewKeys(b))
    BY <1>1, <2>2, FS_Union
  <2>5. Cardinality(Keys') = Cardinality(Keys) + Len(b)
    <3>1. Cardinality(Keys') = Cardinality(Keys \cup NewKeys(b))
      BY <2>1, Zenon
    <3>2. Cardinality(Keys \cap NewKeys(b)) = 0
      BY <2>3, FS_EmptySet, Zenon
    <3>3. QED
      BY <1>0, <1>1, <2>2, <2>4, <3>1, <3>2
  <2>6. CASE b = <<>>
    <3>1. mets' = mets /\ Len(b) = 0 /\ Len(batch') = 0
      BY <1>2, <2>6 DEF FlushOk
    <3>2. Cardinality(Keys') = Cardinality(Keys)
      BY <1>1, <2>5, <3>1
    <3>3. QED
      BY <1>0, <1>1, <1>f, <3>1, <3>2, FlushMovesArith, Zenon DEF FlushCounts
  <2>7. CASE b # <<>>
    <3>1. mets' = [mets EXCEPT !.buffered = @ + Len(b),
                               !.pending = Cardinality(Keys) + Len(b)]
          /\ Len(batch') = 0
      BY <1>2, <2>7 DEF FlushOk
    <3>2. /\ mets'.buffered = mets.buffered + Len(b)
          /\ mets'.pending = Cardinality(Keys) + Len(b)
          /\ mets'.dropped = mets.dropped /\ mets'.shipped = mets.shipped
      BY <1>0, <3>1 DEF Metrics
    <3>3. FlushMoves(Len(b), mets.dropped, mets.buffered, Cardinality(Keys),
                     mets.pending, mets.dropped, mets.buffered + Len(b),
                     Cardinality(Keys) + Len(b), Cardinality(Keys) + Len(b))
      BY <1>0, <1>1, <1>f, FlushMovesArith, Zenon
    <3>4. QED
      BY <1>f, <2>5, <3>1, <3>2, <3>3 DEF FlushCounts
  <2>8. QED
    BY <2>6, <2>7
<1>3. CASE FlushFailed(b)
  <2>1. /\ mets' = [mets EXCEPT !.dropped = @ + Len(b), !.pending = Cardinality(Keys)]
        /\ Len(batch') = 0 /\ bolt' = bolt
    BY <1>3 DEF FlushFailed, diskVars
  <2>2. /\ mets'.dropped = mets.dropped + Len(b) /\ mets'.pending = Cardinality(Keys)
        /\ mets'.buffered = mets.buffered /\ mets'.shipped = mets.shipped
    BY <1>0, <2>1 DEF Metrics
  <2>3. Cardinality(Keys') = Cardinality(Keys)
    BY <2>1 DEF Keys
  <2>4. FlushMoves(Len(b), mets.dropped, mets.buffered, Cardinality(Keys),
                   mets.pending, mets.dropped + Len(b), mets.buffered,
                   Cardinality(Keys), Cardinality(Keys))
    BY <1>0, <1>1, <1>f, FlushMovesArith, Zenon
  <2>5. QED
    BY <1>1, <1>f, <2>1, <2>2, <2>3, <2>4 DEF FlushCounts
<1>4. QED
  BY <1>2, <1>3

\* A flush of b keeps the balance: its events were counted as batched.
LEMMA FlushKeepsBalance ==
  ASSUME IInv, NEW r \in Nat, NEW c \in Nat, NEW b \in Seq(Events), NEW n \in Nat,
         n = Len(b), BalancedWith(r, c, n), FlushOk(b) \/ FlushFailed(b),
         run'.received = r, Len(chan') = c,
         run'.found = run.found, run'.pruned = run.pruned
  PROVE  Balanced'
<1>1. FlushCounts(b)
  BY FlushBalance
<1>2. /\ mets.buffered \in Nat /\ mets.shipped \in Nat
      /\ mets.dropped \in Nat /\ mets.pending \in Nat
      /\ run.found \in Nat /\ run.pruned \in Nat /\ Cardinality(Keys) \in Nat
  BY CountTypes
<1>3. Balance(r, mets'.dropped, c, 0, mets'.buffered, run.found, mets.shipped,
              Cardinality(Keys'), run.pruned, mets'.pending)
  <2>1. Balance(r, mets.dropped, c, n, mets.buffered, run.found, mets.shipped,
                Cardinality(Keys), run.pruned, mets.pending)
    BY Zenon DEF BalancedWith
  <2>2. /\ FlushMoves(n, mets.dropped, mets.buffered, Cardinality(Keys), mets.pending,
                      mets'.dropped, mets'.buffered, Cardinality(Keys'), mets'.pending)
        /\ mets'.dropped \in Nat /\ mets'.buffered \in Nat
        /\ Cardinality(Keys') \in Nat /\ mets'.pending \in Nat
    BY <1>1, Zenon DEF FlushCounts
  <2>3. QED
    BY <1>2, <2>1, <2>2, FlushArith, ZenonT(60)
<1>4. QED
  BY <1>1, <1>3, Zenon DEF FlushCounts, Balanced, BalancedWith

\* The batch gains one event, and is flushed when full.
LEMMA AppendBalance ==
  ASSUME IInv, NEW r \in Nat, NEW c \in Nat, NEW e \in Events, AppendToBatch(e),
         BalancedWith(r, c, Len(batch) + 1),
         run'.received = r, Len(chan') = c,
         run'.found = run.found, run'.pruned = run.pruned
  PROVE  Balanced'
<1> DEFINE b == Append(batch, e)
<1>0. batch \in Seq(Events) /\ Len(batch) \in Nat
  BY CountTypes
<1>1. b \in Seq(Events) /\ Len(b) = Len(batch) + 1 /\ Len(b) \in Nat
  BY <1>0
<1>2. IF Len(b) >= MaxBatch THEN FlushOk(b) \/ FlushFailed(b)
      ELSE batch' = b /\ UNCHANGED <<bolt, mets>>
  BY DEF AppendToBatch, diskVars
<1>3. BalancedWith(r, c, Len(b))
  BY <1>1, Zenon
<1> HIDE DEF b
<1>4. CASE Len(b) >= MaxBatch
  BY <1>1, <1>2, <1>3, <1>4, FlushKeepsBalance
<1>5. CASE ~(Len(b) >= MaxBatch)
  <2>1. batch' = b /\ UNCHANGED <<bolt, mets>>
    BY <1>2, <1>5
  <2>2. Cardinality(Keys') = Cardinality(Keys) /\ Len(batch') = Len(b) /\ mets' = mets
    BY <2>1 DEF Keys
  <2>3. QED
    BY <1>3, <2>2, Zenon DEF Balanced, BalancedWith
<1>6. QED
  BY <1>4, <1>5

LEMMA CountStep == IInv /\ CountInv /\ [Next]_vars => CountInv'
<1> SUFFICES ASSUME IInv, CountInv, [Next]_vars PROVE CountInv'
  OBVIOUS
<1>0. /\ mets.buffered \in Nat /\ mets.shipped \in Nat
      /\ mets.dropped \in Nat /\ mets.pending \in Nat
      /\ run.received \in Nat /\ run.found \in Nat /\ run.pruned \in Nat
      /\ chan \in Seq(Events) /\ batch \in Seq(Events)
      /\ Len(chan) \in Nat /\ Len(batch) \in Nat
      /\ IsFiniteSet(Keys) /\ Cardinality(Keys) \in Nat
  BY CountTypes
<1>n. run.received + 1 \in Nat /\ 0 \in Nat
  BY <1>0
<1>m. mets \in Metrics /\ run \in RunHistory
  BY DEF IInv, TypeOK
<1>u. up => Balanced
  BY BalanceDef, Zenon DEF CountInv
<1>k. ASSUME up, NEW k \in Nat
      PROVE  /\ BalancedWith(run.received + 1, Len(chan), Len(batch) + 1)
             /\ BalancedWith(run.received + 1, Len(chan) + 1, Len(batch))
             /\ BalancedWith(run.received, Len(chan) - 1, Len(batch) + 1)
             /\ Balance(run.received + 1, mets.dropped + 1, Len(chan), Len(batch),
                        mets.buffered, run.found, mets.shipped, Cardinality(Keys),
                        run.pruned, mets.pending)
             /\ Balance(run.received, mets.dropped, Len(chan), Len(batch),
                        mets.buffered, run.found, mets.shipped + k,
                        Cardinality(Keys) - k, run.pruned, Cardinality(Keys) - k)
             /\ Balance(run.received, mets.dropped, Len(chan), Len(batch),
                        mets.buffered, run.found, mets.shipped,
                        Cardinality(Keys) - k, run.pruned + k, mets.pending)
  <2>1. Balanced
    BY <1>u, <1>k, Zenon
  <2>2. QED
    BY <1>0, <1>k, <2>1, BalanceArith, Zenon DEF Balanced, BalancedWith
<1>a. ASSUME up, up' = up, Balanced' PROVE CountInv'
  BY <1>a, BalanceDef, Zenon DEF CountInv, DownIsEmpty
<1>b. ASSUME UNCHANGED <<up, chan, batch, bolt, mets, run>> PROVE CountInv'
  BY <1>b DEF CountInv, DownIsEmpty, CountersBalance, Keys
<1>1. ASSUME NEW e \in Events, TakeDnstap(e) PROVE CountInv'
  <2>1. up /\ AppendToBatch(e) /\ UNCHANGED <<up, chan>>
        /\ run' = [run EXCEPT !.received = @ + 1]
    BY <1>1 DEF TakeDnstap
  <2>2. run'.received = run.received + 1 /\ run'.found = run.found /\ run'.pruned = run.pruned
        /\ Len(chan') = Len(chan)
    BY <1>m, <2>1 DEF RunHistory
  <2>3. BalancedWith(run.received + 1, Len(chan), Len(batch) + 1)
    BY <1>k, <1>n, <2>1, Zenon
  <2>4. Balanced'
    BY <1>0, <1>n, <2>1, <2>2, <2>3, AppendBalance
  <2>5. QED
    BY <1>a, <2>1, <2>4, Zenon
<1>2. ASSUME NEW e \in Events, RecvProtobuf(e) PROVE CountInv'
  <2>1. up /\ UNCHANGED <<up, batch, bolt>> /\ run' = [run EXCEPT !.received = @ + 1]
    BY <1>2 DEF RecvProtobuf
  <2>2. run'.received = run.received + 1 /\ run'.found = run.found /\ run'.pruned = run.pruned
    BY <1>m, <2>1 DEF RunHistory
  <2>3. Cardinality(Keys') = Cardinality(Keys) /\ Len(batch') = Len(batch)
    BY <2>1 DEF Keys
  <2>4. CASE Len(chan) < ChanCap
    <3>1. chan' = Append(chan, e) /\ mets' = mets
      BY <1>2, <2>4 DEF RecvProtobuf
    <3>2. Len(chan') = Len(chan) + 1
      BY <1>0, <3>1
    <3>3. BalancedWith(run.received + 1, Len(chan) + 1, Len(batch))
      BY <1>k, <1>n, <2>1, Zenon
    <3>4. Balanced'
      BY <2>2, <2>3, <3>1, <3>2, <3>3, Zenon DEF Balanced, BalancedWith
    <3>5. QED
      BY <1>a, <2>1, <3>4, Zenon
  <2>5. CASE ~(Len(chan) < ChanCap)
    <3>1. chan' = chan /\ mets' = [mets EXCEPT !.dropped = @ + 1]
      BY <1>2, <2>5 DEF RecvProtobuf
    <3>2. /\ mets'.dropped = mets.dropped + 1 /\ mets'.pending = mets.pending
          /\ mets'.buffered = mets.buffered /\ mets'.shipped = mets.shipped
      BY <1>m, <3>1 DEF Metrics
    <3>3. Balance(run.received + 1, mets.dropped + 1, Len(chan), Len(batch),
                  mets.buffered, run.found, mets.shipped, Cardinality(Keys),
                  run.pruned, mets.pending)
      BY <1>k, <1>n, <2>1, Zenon
    <3>4. Balanced'
      BY <2>2, <2>3, <3>1, <3>2, <3>3, Zenon DEF Balanced, BalancedWith
    <3>5. QED
      BY <1>a, <2>1, <3>4, Zenon
  <2>6. QED
    BY <2>4, <2>5
<1>3. CASE TakeProtobuf
  <2>1. up /\ AppendToBatch(Head(chan)) /\ UNCHANGED <<up, run>>
        /\ chan # <<>> /\ chan' = Tail(chan)
    BY <1>3 DEF TakeProtobuf
  <2>2. Head(chan) \in Events /\ Len(chan') = Len(chan) - 1 /\ Len(chan) - 1 \in Nat
    BY <1>0, <2>1
  <2>3. BalancedWith(run.received, Len(chan) - 1, Len(batch) + 1)
    BY <1>k, <1>n, <2>1, Zenon
  <2>4. run'.received = run.received /\ run'.found = run.found /\ run'.pruned = run.pruned
    BY <2>1
  <2>5. Balanced'
    BY <1>0, <2>1, <2>2, <2>3, <2>4, AppendBalance
  <2>6. QED
    BY <1>a, <2>1, <2>5, Zenon
<1>4. CASE Tick
  <2>1. up /\ (FlushOk(batch) \/ FlushFailed(batch)) /\ UNCHANGED <<up, chan, run>>
    BY <1>4 DEF Tick
  <2>2. /\ BalancedWith(run.received, Len(chan), Len(batch))
        /\ Len(chan') = Len(chan) /\ run'.received = run.received
        /\ run'.found = run.found /\ run'.pruned = run.pruned
    BY <1>u, <2>1, Zenon DEF Balanced
  <2>3. Balanced'
    BY <1>0, <2>1, <2>2, FlushKeepsBalance
  <2>4. QED
    BY <1>a, <2>1, <2>3, Zenon
<1>5. CASE PostOk
  <2>1. up /\ UNCHANGED <<up, chan, batch, run>> /\ bolt' = Remove(Deleted(sent))
        /\ mets' = [mets EXCEPT !.shipped = @ + Cardinality(sent),
                                !.pending = Cardinality(Keys \ Deleted(sent))]
    BY <1>5 DEF PostOk
  <2>2. Deleted(sent) = sent /\ sent \subseteq Keys
    <3>1. sent \subseteq Keys /\ Keys \subseteq Nat
      BY DEF IInv, TypeOK
    <3>2. Deleted(sent) \subseteq sent
      BY DEF Deleted, IInv, SentIsPrefix
    <3>3. sent \subseteq Deleted(sent)
      BY <3>1 DEF Deleted
    <3>4. QED
      BY <3>1, <3>2, <3>3
  <2>3. /\ Cardinality(sent) \in Nat /\ Cardinality(Keys') \in Nat
        /\ Keys' = Keys \ sent
        /\ Cardinality(Keys') = Cardinality(Keys) - Cardinality(sent)
    BY <2>1, <2>2, RemovedSize
  <2>4. /\ mets'.shipped = mets.shipped + Cardinality(sent)
        /\ mets'.pending = Cardinality(Keys')
        /\ mets'.buffered = mets.buffered /\ mets'.dropped = mets.dropped
    <3>1. mets' = [mets EXCEPT !.shipped = @ + Cardinality(sent),
                               !.pending = Cardinality(Keys')]
      BY <2>1, <2>2, <2>3, Zenon
    <3>2. QED
      BY <1>m, <3>1 DEF Metrics
  <2>5. Balance(run.received, mets.dropped, Len(chan), Len(batch),
                mets.buffered, run.found, mets.shipped + Cardinality(sent),
                Cardinality(Keys) - Cardinality(sent), run.pruned,
                Cardinality(Keys) - Cardinality(sent))
    BY <1>k, <2>1, <2>3, Zenon
  <2>6. Balanced'
    BY <2>1, <2>3, <2>4, <2>5, Zenon DEF Balanced, BalancedWith
  <2>7. QED
    BY <1>a, <2>1, <2>6, Zenon
<1>6. CASE Prune
  <2>1. up /\ UNCHANGED <<up, chan, batch, mets>> /\ bolt' = Remove(Expired)
        /\ run' = [run EXCEPT !.pruned = @ + Cardinality(Expired)]
    BY <1>6 DEF Prune
  <2>2. Expired \subseteq Keys
    BY DEF Expired
  <2>3. /\ Cardinality(Expired) \in Nat /\ Cardinality(Keys') \in Nat
        /\ Cardinality(Keys') = Cardinality(Keys) - Cardinality(Expired)
    BY <2>1, <2>2, RemovedSize
  <2>4. run'.pruned = run.pruned + Cardinality(Expired)
        /\ run'.received = run.received /\ run'.found = run.found
    BY <1>m, <2>1 DEF RunHistory
  <2>5. Balance(run.received, mets.dropped, Len(chan), Len(batch),
                mets.buffered, run.found, mets.shipped,
                Cardinality(Keys) - Cardinality(Expired),
                run.pruned + Cardinality(Expired), mets.pending)
    BY <1>k, <2>1, <2>3, Zenon
  <2>6. Balanced'
    BY <2>1, <2>3, <2>4, <2>5, Zenon DEF Balanced, BalancedWith
  <2>7. QED
    BY <1>a, <2>1, <2>6, Zenon
<1>7. CASE PostFailed \/ DeleteFailed \/ Ingest \/ IngestFailed
  BY <1>b, <1>7 DEF PostFailed, DeleteFailed, Ingest, IngestFailed
<1>8. ASSUME NEW e \in Events, Age(e) PROVE CountInv'
  BY <1>b, <1>8 DEF Age
<1>9. ASSUME NEW S \in late, LateIngest(S) PROVE CountInv'
  BY <1>b, <1>9 DEF LateIngest
<1>10. CASE Stop
  BY <1>10 DEF Stop, CountInv, DownIsEmpty, CountersBalance
<1>11. CASE Open
  <2>1. ~up /\ UNCHANGED <<chan, batch, bolt>>
        /\ mets' = [NoMets EXCEPT !.pending = Cardinality(Keys)]
        /\ run' = [received |-> 0, found |-> Cardinality(Keys), pruned |-> 0]
    BY <1>11 DEF Open
  <2>2. chan' = <<>> /\ batch' = <<>>
    BY <2>1, Zenon DEF CountInv, DownIsEmpty
  <2>3. Len(chan') = 0 /\ Len(batch') = 0 /\ Cardinality(Keys') = Cardinality(Keys)
    BY <2>1, <2>2 DEF Keys
  <2>4. /\ mets'.buffered = 0 /\ mets'.shipped = 0 /\ mets'.dropped = 0
        /\ mets'.pending = Cardinality(Keys)
        /\ run'.received = 0 /\ run'.pruned = 0 /\ run'.found = Cardinality(Keys)
    BY <2>1 DEF NoMets
  <2>5. Balanced'
    BY <1>0, <2>3, <2>4, EmptyBalance, Zenon DEF Balanced, BalancedWith
  <2>6. QED
    BY <2>2, <2>5, BalanceDef, Zenon DEF CountInv, DownIsEmpty
<1>12. CASE UNCHANGED vars
  BY <1>b, <1>12 DEF vars
<1>13. QED
  BY <1>1, <1>2, <1>3, <1>4, <1>5, <1>6, <1>7, <1>8, <1>9, <1>10, <1>11, <1>12 DEF Next

\* The Prometheus counters account for every event of a run of the processor,
\* through lost batches, failed deletes, pruning and restarts.
THEOREM CountersAccount == Spec => []CountersBalance
<1>1. Init => CountInv
  <2> SUFFICES ASSUME Init PROVE CountInv
    OBVIOUS
  <2>1. chan = <<>> /\ batch = <<>> /\ Keys = {} /\ mets = NoMets
        /\ run = [received |-> 0, found |-> 0, pruned |-> 0]
    BY DEF Init, Keys
  <2>2. Len(chan) = 0 /\ Len(batch) = 0 /\ Cardinality(Keys) = 0
    BY <2>1, FS_EmptySet
  <2>3. QED
    BY <2>1, <2>2 DEF CountInv, DownIsEmpty, CountersBalance, NoMets
<1>2. CountInv => CountersBalance
  BY DEF CountInv
<1>3. QED
  BY <1>1, <1>2, CountStep, Invariance, PTL DEF Spec
=============================================================================
