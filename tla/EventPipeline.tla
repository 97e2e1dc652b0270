---------------------------- MODULE EventPipeline ----------------------------
(***************************************************************************)
(* The query-event path: dnstap-processor (its protobuf channel, its main  *)
(* select loop, its bbolt buffer) and the primary's POST /ingest handler.  *)
(*                                                                         *)
(* The main loop is one goroutine; only the protobuf receivers run beside  *)
(* it.  While the loop waits for the answer to a POST it serves no other   *)
(* case, so a Tick is two steps here: the request, and its end.  The       *)
(* server may commit a request whose client has already timed out.         *)
(***************************************************************************)
EXTENDS Naturals, FiniteSets, Sequences, Functions

CONSTANTS
  Events,        \* events DNS traffic can produce; the event id names the event
  Unacceptable,  \* events that IngestEvent.model_validate refuses one by one
  MaxBatch,      \* maxBatch of main.go (500), limit of a flush and of a Peek
  ChanCap        \* capacity of the protobufEvents channel (2048)

ASSUME MaxBatchAssumption == MaxBatch \in Nat \ {0}
ASSUME ChanCapAssumption  == ChanCap \in Nat
ASSUME UnacceptableAssumption == Unacceptable \subseteq Events

VARIABLES
  up,        \* the processor is running
  chan,      \* protobufEvents
  batch,     \* the main loop's in-memory batch
  seq,       \* Buffer.seq
  bolt,      \* the events bucket: sequence number -> event
  sent,      \* keys of the request the loop waits for, {} outside of a POST
  reply,     \* what the primary answered to it: "none", "ok" or "err"
  late,      \* requests the client gave up on that the primary may still run
  rows,      \* rows per event id in dns_query_events
  mets,      \* the processor's Prometheus counters and the pending gauge
  seen,      \* history: events the traffic has produced
  buffered,  \* history: events ever committed to the bucket
  old,       \* events whose timestamp is past BUFFER_MAX_AGE
  run        \* history of the current process: events received, keys found at
             \* Open, keys pruned

procVars == <<up, chan, batch, seq, sent, reply, mets, run>>
diskVars == <<bolt, buffered>>
vars == <<up, chan, batch, seq, bolt, sent, reply, late, rows, mets, seen,
          buffered, old, run>>

Keys == DOMAIN bolt
Waiting == sent # {}
\* The events of the request in flight.
Payload == {bolt[k] : k \in sent}
Stored == {e \in Events : rows[e] > 0}

Metrics == [buffered : Nat, shipped : Nat, dropped : Nat, pending : Nat]
RunHistory == [received : Nat, found : Nat, pruned : Nat]

TypeOK ==
  /\ up \in BOOLEAN
  /\ chan \in Seq(Events)
  /\ batch \in Seq(Events)
  /\ seq \in Nat
  /\ Keys \subseteq Nat
  /\ \A k \in Keys : bolt[k] \in Events
  /\ sent \subseteq Keys
  /\ reply \in {"none", "ok", "err"}
  /\ late \subseteq SUBSET Events
  /\ rows \in [Events -> Nat]
  /\ mets \in Metrics
  /\ seen \subseteq Events
  /\ buffered \subseteq Events
  /\ old \subseteq Events
  /\ run \in RunHistory

NoMets == [buffered |-> 0, shipped |-> 0, dropped |-> 0, pending |-> 0]

Init ==
  /\ up = TRUE
  /\ chan = <<>>
  /\ batch = <<>>
  /\ seq = 0
  /\ bolt = <<>>
  /\ sent = {}
  /\ reply = "none"
  /\ late = {}
  /\ rows = [e \in Events |-> 0]
  /\ mets = NoMets
  /\ seen = {}
  /\ buffered = {}
  /\ old = {}
  /\ run = [received |-> 0, found |-> 0, pruned |-> 0]

-----------------------------------------------------------------------------
(* The bbolt buffer *)

\* PutBatch writes the batch under the next sequence numbers; a key that is
\* already in the bucket is overwritten.
NewKeys(b) == (seq + 1) .. (seq + Len(b))
\* Mutant: numbering starts at the last number, not behind it.
PutBatchOffByOne(b) ==
  LET N == {k \in seq .. (seq + Len(b)) : k < seq + Len(b)} IN
  [k \in Keys \cup N |-> IF k \in N THEN b[k - seq + 1] ELSE bolt[k]]
PutBatch(b) ==
  [k \in Keys \cup NewKeys(b) |-> IF k \in NewKeys(b) THEN b[k - seq] ELSE bolt[k]]

\* Mutants: the last keys, and one too few.
PeekLast(b, limit) ==
  {k \in DOMAIN b : Cardinality({j \in DOMAIN b : j >= k}) <= limit}
PeekFewer(b, limit) ==
  {k \in DOMAIN b : Cardinality({j \in DOMAIN b : j <= k}) < limit}

\* Peek: the first `limit' keys in key order.
Peek(b, limit) ==
  {k \in DOMAIN b : Cardinality({j \in DOMAIN b : j <= k}) <= limit}

\* Delete(upToSeq): every key up to the last one of the request.
Deleted(upTo) == {k \in Keys : \E s \in upTo : k <= s}
Remove(S) == [k \in Keys \ S |-> bolt[k]]

\* Prune: every key whose event is older than maxAge.
Expired == {k \in Keys : bolt[k] \in old}

\* Mutant: the sequence starts again at every Open.
LastSeqReset == {0}

\* Open: the sequence goes on from the last key, from 0 in an empty bucket.
LastSeq == IF Keys = {} THEN {0} ELSE {k \in Keys : \A j \in Keys : j <= k}

-----------------------------------------------------------------------------
(* The main loop *)

\* flushToBuffer: the batch is emptied whether or not the transaction commits.
FlushOk(b) ==
  /\ bolt' = PutBatch(b)
  /\ seq' = seq + Len(b)
  /\ buffered' = buffered \cup Range(b)
  /\ mets' = IF b = <<>> THEN mets
             ELSE [mets EXCEPT !.buffered = @ + Len(b),
                               !.pending = Cardinality(Keys) + Len(b)]
  /\ batch' = <<>>

\* Mutant: a lost batch is not counted.
FlushFailedUncounted(b) ==
  /\ b # <<>>
  /\ \E n \in 0 .. Len(b) : seq' = seq + n
  /\ mets' = [mets EXCEPT !.pending = Cardinality(Keys)]
  /\ batch' = <<>>
  /\ UNCHANGED diskVars

\* A rolled-back transaction keeps the sequence numbers it drew.
FlushFailed(b) ==
  /\ b # <<>>
  /\ \E n \in 0 .. Len(b) : seq' = seq + n
  /\ mets' = [mets EXCEPT !.dropped = @ + Len(b), !.pending = Cardinality(Keys)]
  /\ batch' = <<>>
  /\ UNCHANGED diskVars

\* Both event cases of the select append to the batch and flush a full one.
AppendToBatch(e) ==
  LET b == Append(batch, e) IN
  IF Len(b) >= MaxBatch
  THEN FlushOk(b) \/ FlushFailed(b)
  ELSE batch' = b /\ UNCHANGED <<seq, mets, diskVars>>

\* case ev := <-protobufEvents
TakeProtobuf ==
  /\ up /\ ~Waiting
  /\ chan # <<>>
  /\ chan' = Tail(chan)
  /\ AppendToBatch(Head(chan))
  /\ UNCHANGED <<up, sent, reply, late, rows, seen, old, run>>

\* case data := <-dataChan, for a frame that processor.process ships.
TakeDnstap(e) ==
  /\ up /\ ~Waiting
  /\ e \notin seen
  /\ seen' = seen \cup {e}
  /\ run' = [run EXCEPT !.received = @ + 1]
  /\ AppendToBatch(e)
  /\ UNCHANGED <<up, chan, sent, reply, late, rows, old>>

\* A protobuf receiver goroutine: a full channel drops the event.
RecvProtobuf(e) ==
  /\ up
  /\ e \notin seen
  /\ seen' = seen \cup {e}
  /\ run' = [run EXCEPT !.received = @ + 1]
  /\ IF Len(chan) < ChanCap
     THEN chan' = Append(chan, e) /\ UNCHANGED mets
     ELSE mets' = [mets EXCEPT !.dropped = @ + 1] /\ UNCHANGED chan
  /\ UNCHANGED <<up, batch, seq, bolt, sent, reply, late, rows, buffered, old>>

\* case <-ticker.C: flushToBuffer, then forwardFromBuffer up to client.Do.
Tick ==
  /\ up /\ ~Waiting
  /\ \/ FlushOk(batch)
     \/ FlushFailed(batch)
  /\ sent' = Peek(bolt', MaxBatch)
  /\ reply' = "none"
  /\ UNCHANGED <<up, chan, late, rows, seen, old, run>>

\* client.Do failed or timed out, or the status was >= 300: keep everything.
\* An unanswered request may still reach the primary.
Abandoned == IF Waiting /\ reply = "none" THEN late \cup {Payload} ELSE late

PostFailed ==
  /\ up /\ Waiting
  /\ late' = Abandoned
  /\ sent' = {}
  /\ reply' = "none"
  /\ UNCHANGED <<up, chan, batch, seq, bolt, rows, mets, seen, buffered, old, run>>

\* Status < 300: delete what was acknowledged and count it as shipped.
PostOk ==
  /\ up /\ Waiting
  /\ reply = "ok"
  /\ bolt' = Remove(Deleted(sent))
  /\ mets' = [mets EXCEPT !.shipped = @ + Cardinality(sent),
                          !.pending = Cardinality(Keys \ Deleted(sent))]
  /\ sent' = {}
  /\ reply' = "none"
  /\ UNCHANGED <<up, chan, batch, seq, late, rows, seen, buffered, old, run>>

\* The acknowledged delete fails: the events are shipped again later.
DeleteFailed ==
  /\ up /\ Waiting
  /\ reply = "ok"
  /\ sent' = {}
  /\ reply' = "none"
  /\ UNCHANGED <<up, chan, batch, seq, bolt, late, rows, mets, seen, buffered,
                 old, run>>

\* case <-pruneTicker.C
Prune ==
  /\ up /\ ~Waiting
  /\ bolt' = Remove(Expired)
  /\ run' = [run EXCEPT !.pruned = @ + Cardinality(Expired)]
  /\ UNCHANGED <<up, chan, batch, seq, sent, reply, late, rows, mets, seen,
                 buffered, old>>

-----------------------------------------------------------------------------
(* The primary: POST /api/node-sync/ingest *)

\* Mutant: no ON CONFLICT clause.
InsertedAgain(S) ==
  [e \in Events |-> IF e \in S \ Unacceptable THEN rows[e] + 1 ELSE rows[e]]

\* INSERT ... ON CONFLICT (event_id) DO NOTHING of the events that validate.
Inserted(S) ==
  [e \in Events |-> IF e \in S \ Unacceptable /\ rows[e] = 0
                    THEN 1 ELSE rows[e]]

Ingest ==
  /\ Waiting /\ reply = "none"
  /\ rows' = Inserted(Payload)
  /\ reply' = "ok"
  /\ UNCHANGED <<up, chan, batch, seq, bolt, sent, late, mets, seen, buffered,
                 old, run>>

\* The handler raises: its transaction is rolled back and the answer is a 5xx.
IngestFailed ==
  /\ Waiting /\ reply = "none"
  /\ reply' = "err"
  /\ UNCHANGED <<up, chan, batch, seq, bolt, sent, late, rows, mets, seen,
                 buffered, old, run>>

\* A request nobody waits for any more is committed.
LateIngest(S) ==
  /\ S \in late
  /\ late' = late \ {S}
  /\ rows' = Inserted(S)
  /\ UNCHANGED <<up, chan, batch, seq, bolt, sent, reply, mets, seen, buffered,
                 old, run>>

-----------------------------------------------------------------------------
(* Environment *)

\* The process dies, or returns because the dnstap channel was closed: what is
\* in memory is gone, the bucket is not.
Stop ==
  /\ up
  /\ up' = FALSE
  /\ chan' = <<>>
  /\ batch' = <<>>
  /\ late' = Abandoned
  /\ sent' = {}
  /\ reply' = "none"
  /\ UNCHANGED <<seq, bolt, rows, mets, seen, buffered, old, run>>

\* The container is restarted: main up to the loop, with buffer.Open.
Open ==
  /\ ~up
  /\ up' = TRUE
  /\ seq' \in LastSeq
  /\ mets' = [NoMets EXCEPT !.pending = Cardinality(Keys)]
  /\ run' = [received |-> 0, found |-> Cardinality(Keys), pruned |-> 0]
  /\ UNCHANGED <<chan, batch, bolt, sent, reply, late, rows, seen, buffered, old>>

\* Time passes BUFFER_MAX_AGE for an event.
Age(e) ==
  /\ e \in seen \ old
  /\ old' = old \cup {e}
  /\ UNCHANGED <<up, chan, batch, seq, bolt, sent, reply, late, rows, mets, seen,
                 buffered, run>>

Next ==
  \/ \E e \in Events : TakeDnstap(e) \/ RecvProtobuf(e) \/ Age(e)
  \/ TakeProtobuf
  \/ Tick \/ PostFailed \/ PostOk \/ DeleteFailed
  \/ Prune
  \/ Ingest \/ IngestFailed
  \/ \E S \in late : LateIngest(S)
  \/ Stop \/ Open

Spec == Init /\ [][Next]_vars
-----------------------------------------------------------------------------
(* Properties *)

(***************************************************************************)
(* An event committed to the bucket leaves it only when the primary holds  *)
(* its row, when ingest refuses it, or when it is past BUFFER_MAX_AGE:     *)
(* forwardFromBuffer deletes only what was acknowledged, PutBatch never    *)
(* overwrites a pending key, and a crash at any point loses nothing of it. *)
(***************************************************************************)
BufferedUntilStored ==
  [][\A e \in Range(bolt) :
       e \in Range(bolt') \cup Stored' \cup Unacceptable \cup old]_vars

(***************************************************************************)
(* At-least-once shipping stores an event once: a batch that is sent again *)
(* after a lost answer, a failed Delete or a crash, or that is committed   *)
(* after its client gave up, adds no second row.                           *)
(***************************************************************************)
OneRowPerEvent == \A e \in Events : rows[e] <= 1

(***************************************************************************)
(* Events reach the primary in buffer order: if a buffered event is stored *)
(* then so is everything in front of it, except what ingest refuses.  It   *)
(* is what makes Delete(maxSeq), a delete by range, safe.                  *)
(***************************************************************************)
StoredIsPrefix ==
  \A j, k \in Keys :
    j < k /\ bolt[k] \in Stored => bolt[j] \in Stored \cup Unacceptable

(***************************************************************************)
(* The counters account for every event of a run of the process: received  *)
(* events are dropped, queued, batched or buffered, and buffered events    *)
(* (with those found at Open) are shipped, pending or pruned.  The pending *)
(* gauge, which pruning does not refresh, never shows less than there is.  *)
(***************************************************************************)
CountersBalance ==
  up => /\ run.received = mets.dropped + Len(chan) + Len(batch) + mets.buffered
        /\ run.found + mets.buffered = mets.shipped + Cardinality(Keys) + run.pruned
        /\ mets.pending >= Cardinality(Keys)

(***************************************************************************)
(* The pipeline implements EventLog: the buffer is a durable queue of      *)
(* events that are stored or, by age or by schema, given up.               *)
(***************************************************************************)
Log == INSTANCE EventLog WITH
         pending <- Range(bolt) \ Stored,
         stored  <- Stored,
         givenUp <- buffered \ (Range(bolt) \cup Stored)
ImplementsEventLog == Log!Spec

-----------------------------------------------------------------------------
(***************************************************************************)
(* Fairness.  Docker restarts a stopped processor (restart:                *)
(* unless-stopped), a POST ends by its 5 s timeout at the latest, and the  *)
(* ticker fires whenever the loop is free.  That the processor survives    *)
(* long enough to be served and that the primary is not down, failing or   *)
(* unreachable for ever are assumptions on the environment: a step that is *)
(* possible again and again is taken.                                      *)
(***************************************************************************)
Fairness ==
  /\ WF_vars(Open)
  /\ WF_vars(PostFailed)
  /\ SF_vars(Tick)
  /\ SF_vars(Ingest)
  /\ SF_vars(PostOk)
FairSpec == Spec /\ Fairness

\* Every event in the on-disk buffer is eventually stored, unless ingest
\* refuses it or it grows too old: retries by the ticker drain the backlog.
EventuallyStored ==
  \A e \in Events :
    e \in Range(bolt) ~> e \in Stored \cup Unacceptable \cup old
=============================================================================
