-------------------------- MODULE AgentQueuesProofs --------------------------
(***************************************************************************)
(* Proofs that the agent's queues lose no sample, first store samples in   *)
(* order, close only commands that were executed, and repeat nothing that  *)
(* no fault explains, for any number of samples, commands and faults.      *)
(***************************************************************************)
EXTENDS AgentQueues, FiniteSetTheorems, TLAPS

USE QueueAssumption

Types ==
  /\ taken \in 0 .. MaxSamples
  /\ buffer \subseteq 1 .. taken /\ aged \subseteq 1 .. taken /\ pruned \subseteq aged
  /\ stage \in Stages
  /\ pending \subseteq buffer /\ acked \subseteq buffer
  /\ todo \subseteq Commands /\ executed \in BOOLEAN
  /\ copies \in [Samples -> Nat] /\ lateSamples \in [Samples -> Nat]
  /\ command \in [Commands -> {"none", "pending", "closed"}]
  /\ lateReports \subseteq Commands /\ tries \in [Commands -> Nat]

\* Only a round of posts holds rows in memory, and only the command under way is
\* executed and not yet reported.
RoundOnly ==
  /\ stage # "push" => pending = {} /\ acked = {}
  /\ executed => stage = "commands" /\ todo # {}

\* Sample s is stored or was pruned.
Settled(s) == copies[s] > 0 \/ s \in pruned

\* What will be deleted is stored.
AckedStored == \A s \in acked : copies[s] > 0

\* A round takes the oldest rows first, and so every post of a sample, also one
\* the primary has yet to handle, was made when all older ones were settled.
Oldest ==
  /\ \A s \in pending : \A q \in 1 .. s - 1 : q \in pending \/ Settled(q)
  /\ \A s \in Samples : lateSamples[s] > 0 => s \in 1 .. taken /\ \A q \in 1 .. s - 1 : Settled(q)
  /\ \A s \in Samples : copies[s] > 0 => s \in 1 .. taken

\* What was or will be reported was executed.
Executed ==
  /\ executed => \A c \in Commands : IsFirst(c, todo) => tries[c] > 0
  /\ \A c \in lateReports : tries[c] > 0
  /\ ClosedWasExecuted

IInv == Types /\ RoundOnly /\ AckedStored /\ NothingLost /\ Oldest /\ Executed

-----------------------------------------------------------------------------

\* peek returns rows of the buffer, and with a row all older ones.
LEMMA PeekOldest ==
  ASSUME NEW S, NEW n \in Nat, S \subseteq 1 .. n
  PROVE  /\ Peek(S) \subseteq S
         /\ \A s \in Peek(S), q \in S : q < s => q \in Peek(S)
<1>1. \A s \in Peek(S), q \in S : q < s => q \in Peek(S)
  <2> SUFFICES ASSUME NEW s \in Peek(S), NEW q \in S, q < s PROVE q \in Peek(S)
    OBVIOUS
  <2> DEFINE Below(x) == {r \in S : r < x}
  <2>1. s \in S /\ Cardinality(Below(s)) < PeekLimit
    BY DEF Peek
  <2>2. Below(q) \subseteq Below(s)
    <3> SUFFICES ASSUME NEW r \in S, r < q PROVE r < s
      OBVIOUS
    <3>1. r \in Int /\ q \in Int /\ s \in Int
      BY <2>1
    <3> QED BY <3>1
  <2>3. IsFiniteSet(1 .. n)
    BY FS_Interval
  <2>4. IsFiniteSet(Below(s))
    <3>1. Below(s) \subseteq 1 .. n
      OBVIOUS
    <3> QED BY <2>3, <3>1, FS_Subset
  <2>5. Cardinality(Below(q)) <= Cardinality(Below(s))
    BY <2>2, <2>4, FS_Subset
  <2>6. Cardinality(Below(s)) \in Nat /\ Cardinality(Below(q)) \in Nat
    BY <2>2, <2>4, FS_Subset, FS_CardinalityType
  <2>7. Cardinality(Below(q)) < PeekLimit
    <3> HIDE DEF Below
    <3> QED BY <2>1, <2>5, <2>6
  <2> QED BY <2>7 DEF Peek
<1> QED BY <1>1 DEF Peek

LEMMA InitIInv == Init => IInv
<1> SUFFICES ASSUME Init PROVE IInv
  OBVIOUS
<1>1. Types
  <2>1. copies \in [Samples -> Nat] /\ lateSamples \in [Samples -> Nat]
    BY DEF Init
  <2>2. command \in [Commands -> {"none", "pending", "closed"}] /\ tries \in [Commands -> Nat]
    BY DEF Init
  <2>3. taken \in 0 .. MaxSamples
    BY DEF Init
  <2> QED BY <2>1, <2>2, <2>3 DEF Init, Types, Stages
<1>2. RoundOnly /\ AckedStored /\ NothingLost
  BY DEF Init, RoundOnly, AckedStored, NothingLost
<1>3. Oldest
  BY DEF Init, Oldest, Samples
<1>4. Executed
  BY DEF Init, Executed, ClosedWasExecuted, Commands
<1> QED BY <1>1, <1>2, <1>3, <1>4 DEF IInv

\* Steps of the metrics side leave the commands alone, and the other way round.
LEMMA OrdersUntouched ==
  ASSUME IInv, UNCHANGED <<orders, todo, executed>> PROVE Executed'
BY DEF IInv, Executed, ClosedWasExecuted, orders, IsFirst

LEMMA MetricsUntouched ==
  ASSUME IInv, UNCHANGED <<metrics, pending, acked>>
  PROVE  AckedStored' /\ NothingLost' /\ Oldest'
BY DEF IInv, AckedStored, NothingLost, Oldest, Settled, metrics

\* A sample is stored once more: no count goes down.
LEMMA StoredFacts ==
  ASSUME Types, NEW s \in Samples, Stored(s)
  PROVE  /\ copies' \in [Samples -> Nat] /\ copies'[s] > 0
         /\ \A q \in Samples : copies[q] > 0 => copies'[q] > 0
         /\ \A q \in Samples : q # s => copies'[q] = copies[q]
BY DEF Types, Stored

LEMMA ScrapeStep == ASSUME IInv, Scrape PROVE IInv'
<1>1. taken' \in 0 .. MaxSamples /\ taken' >= taken /\ buffer' \subseteq 1 .. taken'
      /\ buffer \subseteq buffer' /\ buffer' \subseteq buffer \cup {taken + 1}
      /\ (\A s \in 1 .. taken' : s \in 1 .. taken \/ s \in buffer')
  <2>0. taken \in 0 .. MaxSamples /\ buffer \subseteq 1 .. taken
    BY DEF IInv, Types
  <2>1. CASE taken' = taken /\ buffer' = buffer
    BY <2>0, <2>1
  <2>2. CASE taken < MaxSamples /\ taken' = taken + 1 /\ buffer' = buffer \cup {taken + 1}
    BY <2>0, <2>2
  <2> QED BY <2>1, <2>2 DEF Scrape
<1>2. /\ pending' \subseteq buffer'
      /\ \A s \in pending', q \in buffer' : q < s => q \in pending'
  <2>1. pending' = Peek(buffer') /\ taken' \in Nat
    BY <1>1 DEF Scrape
  <2> QED BY <1>1, <2>1, PeekOldest
<1>3. Types'
  BY <1>1, <1>2 DEF IInv, Types, RoundOnly, Scrape, orders, Stages
<1>4. RoundOnly' /\ AckedStored'
  BY DEF IInv, RoundOnly, AckedStored, Scrape
<1>5. NothingLost'
  BY <1>1 DEF IInv, Types, NothingLost, Scrape
<1>6. Oldest'
  <2>1. ASSUME NEW s \in pending', NEW q \in 1 .. s - 1 PROVE q \in pending' \/ Settled(q)'
    <3>1. s \in 1 .. taken' /\ q \in 1 .. taken' /\ q < s
      BY <1>1, <1>2, <2>1
    <3>2. q \in buffer' \/ copies'[q] > 0 \/ q \in pruned'
      BY <1>5, <3>1 DEF NothingLost
    <3> QED BY <1>2, <2>1, <3>1, <3>2 DEF Settled
  <2>2. \A s \in Samples : lateSamples'[s] > 0 => s \in 1 .. taken' /\ \A q \in 1 .. s - 1 : Settled(q)'
    BY <1>1 DEF IInv, Types, Oldest, Settled, Scrape
  <2>3. \A s \in Samples : copies'[s] > 0 => s \in 1 .. taken'
    BY <1>1 DEF IInv, Types, Oldest, Scrape
  <2> QED BY <2>1, <2>2, <2>3 DEF Oldest
<1>7. Executed'
  BY OrdersUntouched DEF Scrape
<1> QED BY <1>3, <1>4, <1>5, <1>6, <1>7 DEF IInv

\* The first row of a round: everything older is settled.
LEMMA FirstIsOldest ==
  ASSUME IInv, NEW s \in Samples, IsFirst(s, pending)
  PROVE  s \in 1 .. taken /\ s \in buffer /\ \A q \in 1 .. s - 1 : Settled(q)
<1>1. s \in pending /\ s \in buffer /\ s \in 1 .. taken
  BY DEF IInv, Types, IsFirst
<1>2. ASSUME NEW q \in 1 .. s - 1 PROVE Settled(q)
  <2>1. q \in pending \/ Settled(q)
    BY <1>1, <1>2 DEF IInv, Oldest
  <2>2. q \notin pending
    BY <1>1, <1>2 DEF IsFirst, Samples
  <2> QED BY <2>1, <2>2
<1> QED BY <1>1, <1>2

\* What storing a sample, or not, means for the parts about stored samples.
LEMMA StoreKeeps ==
  ASSUME IInv, NEW s \in 1 .. taken, Stored(s) \/ UNCHANGED copies,
         UNCHANGED <<taken, buffer, pruned>>
  PROVE  /\ copies' \in [Samples -> Nat]
         /\ NothingLost'
         /\ \A q \in acked : copies'[q] > 0
         /\ \A q \in Samples : copies'[q] > 0 => q \in 1 .. taken
         /\ \A q \in 1 .. taken : Settled(q) => Settled(q)'
<1>1. s \in Samples /\ 1 .. taken \subseteq Samples /\ acked \subseteq Samples
  BY DEF IInv, Types, Samples
<1>2. /\ copies' \in [Samples -> Nat]
      /\ \A q \in Samples : copies[q] > 0 => copies'[q] > 0
      /\ \A q \in Samples : q # s => copies'[q] = copies[q]
  <2>1. CASE Stored(s)
    BY <1>1, <2>1, StoredFacts DEF IInv
  <2>2. CASE UNCHANGED copies
    BY <2>2 DEF IInv, Types
  <2> QED BY <2>1, <2>2
<1>3. NothingLost'
  BY <1>1, <1>2 DEF IInv, NothingLost
<1>4. \A q \in acked : copies'[q] > 0
  BY <1>1, <1>2 DEF IInv, AckedStored
<1>5. \A q \in Samples : copies'[q] > 0 => q \in 1 .. taken
  BY <1>2 DEF IInv, Oldest
<1>6. \A q \in 1 .. taken : Settled(q) => Settled(q)'
  BY <1>1, <1>2 DEF Settled
<1> QED BY <1>2, <1>3, <1>4, <1>5, <1>6

\* The part of Oldest about late requests, when at most one for s is added.
LEMMA LateKeeps ==
  ASSUME IInv, NEW s \in 1 .. taken, UNCHANGED taken,
         \A q \in 1 .. s - 1 : Settled(q),
         \A q \in 1 .. taken : Settled(q) => Settled(q)',
         \A q \in Samples : q # s => lateSamples'[q] = lateSamples[q]
  PROVE  \A r \in Samples : lateSamples'[r] > 0 =>
           r \in 1 .. taken' /\ \A q \in 1 .. r - 1 : Settled(q)'
<1> SUFFICES ASSUME NEW r \in Samples, lateSamples'[r] > 0
             PROVE  r \in 1 .. taken /\ \A q \in 1 .. r - 1 : Settled(q)'
  OBVIOUS
<1>1. r \in 1 .. taken /\ \A q \in 1 .. r - 1 : Settled(q)
  BY DEF IInv, Oldest
<1>2. taken \in Nat
  BY DEF IInv, Types
<1>3. ASSUME NEW q \in 1 .. r - 1 PROVE Settled(q)'
  <2>1. q \in 1 .. taken /\ Settled(q)
    BY <1>1, <1>2, <1>3
  <2> QED BY <2>1
<1> QED BY <1>1, <1>3

LEMMA PostStep == ASSUME IInv, NEW s \in Samples, Post(s) PROVE IInv'
<1>1. s \in 1 .. taken /\ s \in buffer /\ \A q \in 1 .. s - 1 : Settled(q)
  BY FirstIsOldest DEF Post
<1>2. Stored(s) /\ UNCHANGED <<taken, buffer, pruned, lateSamples, stage, aged, todo, executed, orders>>
      /\ stage = "push" /\ acked' = acked \cup {s} /\ pending' = pending \ {s}
  BY DEF Post
<1>3. /\ copies' \in [Samples -> Nat] /\ NothingLost'
      /\ \A q \in acked : copies'[q] > 0
      /\ \A q \in Samples : copies'[q] > 0 => q \in 1 .. taken
      /\ \A q \in 1 .. taken : Settled(q) => Settled(q)'
  BY <1>1, <1>2, StoreKeeps
<1>4. copies'[s] > 0
  BY <1>2, StoredFacts DEF IInv
<1>5. Types'
  BY <1>1, <1>2, <1>3 DEF IInv, Types, orders
<1>6. RoundOnly' /\ AckedStored'
  BY <1>2, <1>3, <1>4 DEF IInv, RoundOnly, AckedStored
<1>7. Oldest'
  <2>1. ASSUME NEW r \in pending', NEW q \in 1 .. r - 1 PROVE q \in pending' \/ Settled(q)'
    <3>1. r \in pending /\ r \in 1 .. taken /\ q \in 1 .. taken
      BY <1>2, <2>1 DEF IInv, Types
    <3>2. q \in pending \/ Settled(q)
      BY <2>1, <3>1 DEF IInv, Oldest
    <3>3. q = s => Settled(q)'
      BY <1>4 DEF Settled
    <3> QED BY <1>2, <1>3, <3>1, <3>2, <3>3
  <2>2. \A r \in Samples : lateSamples'[r] > 0 => r \in 1 .. taken' /\ \A q \in 1 .. r - 1 : Settled(q)'
    BY <1>1, <1>2, <1>3, LateKeeps
  <2> QED BY <1>2, <1>3, <2>1, <2>2 DEF Oldest
<1>8. Executed'
  BY <1>2, OrdersUntouched
<1> QED BY <1>3, <1>5, <1>6, <1>7, <1>8 DEF IInv

LEMMA PostFailsStep == ASSUME IInv, NEW s \in Samples, PostFails(s) PROVE IInv'
<1>1. s \in 1 .. taken /\ s \in buffer /\ \A q \in 1 .. s - 1 : Settled(q)
  BY FirstIsOldest DEF PostFails
<1>2. /\ Stored(s) \/ UNCHANGED copies
      /\ UNCHANGED <<taken, buffer, pruned, stage, aged, todo, executed, orders>>
      /\ stage = "push" /\ acked' = acked /\ pending' = {}
  BY DEF PostFails, AckedOnFailure, AfterFailure
<1>3. lateSamples' \in [Samples -> Nat] /\ \A q \in Samples : q # s => lateSamples'[q] = lateSamples[q]
  <2>1. lateSamples' = lateSamples \/ lateSamples' = [lateSamples EXCEPT ![s] = @ + 1]
    BY DEF PostFails
  <2> QED BY <2>1 DEF IInv, Types
<1>4. /\ copies' \in [Samples -> Nat] /\ NothingLost'
      /\ \A q \in acked : copies'[q] > 0
      /\ \A q \in Samples : copies'[q] > 0 => q \in 1 .. taken
      /\ \A q \in 1 .. taken : Settled(q) => Settled(q)'
  BY <1>1, <1>2, StoreKeeps
<1>5. Types'
  BY <1>2, <1>3, <1>4 DEF IInv, Types, orders
<1>6. RoundOnly' /\ AckedStored'
  BY <1>2, <1>4 DEF IInv, RoundOnly, AckedStored
<1>7. Oldest'
  <2>1. \A r \in Samples : lateSamples'[r] > 0 => r \in 1 .. taken' /\ \A q \in 1 .. r - 1 : Settled(q)'
    BY <1>1, <1>2, <1>3, <1>4, LateKeeps
  <2> QED BY <1>2, <1>4, <2>1 DEF Oldest
<1>8. Executed'
  BY <1>2, OrdersUntouched
<1> QED BY <1>4, <1>5, <1>6, <1>7, <1>8 DEF IInv

LEMMA LateStoreStep == ASSUME IInv, NEW s \in Samples, LateStore(s) PROVE IInv'
<1>1. s \in 1 .. taken /\ \A q \in 1 .. s - 1 : Settled(q)
  BY DEF IInv, Oldest, LateStore
<1>2. Stored(s) /\ UNCHANGED <<taken, buffer, pruned, aged, agent, orders>>
  BY DEF LateStore
<1>3. lateSamples' \in [Samples -> Nat] /\ \A q \in Samples : q # s => lateSamples'[q] = lateSamples[q]
  BY DEF IInv, Types, LateStore
<1>4. /\ copies' \in [Samples -> Nat] /\ NothingLost'
      /\ \A q \in acked : copies'[q] > 0
      /\ \A q \in Samples : copies'[q] > 0 => q \in 1 .. taken
      /\ \A q \in 1 .. taken : Settled(q) => Settled(q)'
  BY <1>1, <1>2, StoreKeeps
<1>5. Types'
  BY <1>2, <1>3, <1>4 DEF IInv, Types, orders, agent
<1>6. RoundOnly' /\ AckedStored'
  BY <1>2, <1>4 DEF IInv, RoundOnly, AckedStored, agent
<1>7. Oldest'
  <2>1. ASSUME NEW r \in pending', NEW q \in 1 .. r - 1 PROVE q \in pending' \/ Settled(q)'
    <3>1. r \in pending /\ r \in 1 .. taken /\ q \in 1 .. taken /\ pending' = pending
      BY <1>2, <2>1 DEF IInv, Types, agent
    <3>2. q \in pending \/ Settled(q)
      BY <2>1, <3>1 DEF IInv, Oldest
    <3> QED BY <1>4, <3>1, <3>2
  <2>2. \A r \in Samples : lateSamples'[r] > 0 => r \in 1 .. taken' /\ \A q \in 1 .. r - 1 : Settled(q)'
    BY <1>1, <1>2, <1>3, <1>4, LateKeeps
  <2> QED BY <1>2, <1>4, <2>1, <2>2 DEF Oldest
<1>8. Executed'
  BY <1>2, OrdersUntouched DEF agent
<1> QED BY <1>4, <1>5, <1>6, <1>7, <1>8 DEF IInv

\* Rows leave the buffer when they are stored or too old.
LEMMA EndPushStep == ASSUME IInv, EndPush PROVE IInv'
<1>1. stage = "push" /\ buffer' = buffer \ acked /\ pending = {} /\ pending' = {} /\ acked' = {} /\ stage' = "poll"
      /\ UNCHANGED <<taken, aged, copies, lateSamples, pruned, todo, executed, orders>>
  BY DEF EndPush, Deletable
<1>2. Types'
  BY <1>1 DEF IInv, Types, Stages, orders
<1>3. RoundOnly' /\ AckedStored'
  BY <1>1 DEF IInv, RoundOnly, AckedStored
<1>4. NothingLost'
  BY <1>1 DEF IInv, NothingLost, AckedStored
<1>5. Oldest'
  BY <1>1 DEF IInv, Oldest, Settled
<1>6. Executed'
  BY <1>1, OrdersUntouched
<1> QED BY <1>2, <1>3, <1>4, <1>5, <1>6 DEF IInv

LEMMA PruneStep == ASSUME IInv, Prune PROVE IInv'
<1>1. stage = "prune" /\ pending = {} /\ acked = {} /\ pending' = {} /\ acked' = {} /\ stage' = "scrape"
      /\ UNCHANGED <<taken, aged, copies, lateSamples, todo, executed, orders>>
  BY DEF IInv, RoundOnly, Prune
<1>2. \/ buffer' = buffer \ aged /\ pruned' = pruned \cup (buffer \cap aged)
      \/ buffer' = buffer /\ pruned' = pruned
  BY DEF Prune
<1>3. Types'
  BY <1>1, <1>2 DEF IInv, Types, Stages, orders
<1>4. RoundOnly' /\ AckedStored'
  BY <1>1 DEF IInv, RoundOnly, AckedStored
<1>5. NothingLost'
  BY <1>1, <1>2 DEF IInv, NothingLost
<1>6. Oldest'
  <2>1. \A q : Settled(q) => Settled(q)'
    BY <1>1, <1>2 DEF Settled
  <2> QED BY <1>1, <2>1 DEF IInv, Oldest
<1>7. Executed'
  BY <1>1, OrdersUntouched
<1> QED BY <1>3, <1>4, <1>5, <1>6, <1>7 DEF IInv

LEMMA AgeStep == ASSUME IInv, NEW s \in Samples, Age(s) PROVE IInv'
<1>1. s \in buffer /\ aged' = aged \cup {s}
      /\ UNCHANGED <<taken, buffer, copies, lateSamples, pruned, agent, orders>>
  BY DEF Age
<1>2. Types'
  BY <1>1 DEF IInv, Types, agent, orders
<1>3. RoundOnly' /\ AckedStored' /\ NothingLost' /\ Oldest'
  BY <1>1 DEF IInv, RoundOnly, AckedStored, NothingLost, Oldest, Settled, agent
<1>4. Executed'
  BY <1>1, OrdersUntouched DEF agent
<1> QED BY <1>2, <1>3, <1>4 DEF IInv

-----------------------------------------------------------------------------
(* Steps of the commands *)

LEMMA ClearCacheStep == ASSUME IInv, NEW c \in Commands, ClearCache(c) PROVE IInv'
<1>1. command' = [command EXCEPT ![c] = "pending"]
      /\ UNCHANGED <<lateReports, tries, agent, metrics>>
  BY DEF ClearCache
<1>2. command' \in [Commands -> {"none", "pending", "closed"}]
      /\ \A d \in Commands : command'[d] = "closed" => command[d] = "closed"
  BY <1>1 DEF IInv, Types
<1>3. Types'
  BY <1>1, <1>2 DEF IInv, Types, agent, metrics
<1>4. RoundOnly' /\ AckedStored' /\ NothingLost' /\ Oldest'
  BY <1>1, MetricsUntouched DEF IInv, RoundOnly, agent
<1>5. Executed'
  BY <1>1, <1>2 DEF IInv, Executed, ClosedWasExecuted, IsFirst, agent
<1> QED BY <1>3, <1>4, <1>5 DEF IInv

LEMMA PollStep == ASSUME IInv, Poll PROVE IInv'
<1>1. stage = "poll" /\ stage' \in {"commands", "prune"} /\ todo' \subseteq Commands
      /\ UNCHANGED <<pending, acked, executed, metrics, orders>>
  BY DEF Poll, PendingForNode
<1>2. Types'
  BY <1>1 DEF IInv, Types, Stages, metrics, orders
<1>3. RoundOnly'
  BY <1>1 DEF IInv, RoundOnly
<1>4. AckedStored' /\ NothingLost' /\ Oldest'
  BY <1>1, MetricsUntouched
<1>5. Executed'
  <2>1. ~executed'
    BY <1>1 DEF IInv, RoundOnly
  <2> QED BY <1>1, <2>1 DEF IInv, Executed, ClosedWasExecuted, orders
<1> QED BY <1>2, <1>3, <1>4, <1>5 DEF IInv

LEMMA ExecuteStep == ASSUME IInv, NEW c \in Commands, Execute(c) PROVE IInv'
<1>1. stage = "commands" /\ IsFirst(c, todo) /\ tries' = [tries EXCEPT ![c] = @ + 1] /\ executed' = TRUE
      /\ UNCHANGED <<stage, pending, acked, todo, metrics, command, lateReports>>
  BY DEF Execute
<1>2. tries' \in [Commands -> Nat] /\ tries'[c] > 0
      /\ \A d \in Commands : tries[d] > 0 => tries'[d] > 0
  BY <1>1 DEF IInv, Types
<1>3. Types'
  BY <1>1, <1>2 DEF IInv, Types, metrics
<1>4. RoundOnly' /\ AckedStored' /\ NothingLost' /\ Oldest'
  BY <1>1, MetricsUntouched DEF IInv, RoundOnly, IsFirst
<1>5. ASSUME NEW d \in Commands, IsFirst(d, todo) PROVE d = c
  BY <1>1, <1>5 DEF IsFirst, Commands
<1>6. Executed'
  <2>1. \A d \in Commands : IsFirst(d, todo)' => tries'[d] > 0
    BY <1>1, <1>2, <1>5 DEF IsFirst
  <2>2. (\A d \in lateReports' : tries'[d] > 0) /\ ClosedWasExecuted'
    BY <1>1, <1>2 DEF IInv, Types, Executed, ClosedWasExecuted
  <2> QED BY <2>1, <2>2 DEF Executed
<1> QED BY <1>3, <1>4, <1>6 DEF IInv

\* The only row that is closed is that of the command the report names.
LEMMA CloseFacts ==
  ASSUME Types, ClosedWasExecuted, NEW c \in Commands, tries[c] > 0,
         Close(c) \/ UNCHANGED command, UNCHANGED tries
  PROVE  command' \in [Commands -> {"none", "pending", "closed"}] /\ ClosedWasExecuted'
<1>1. CASE Close(c)
  BY <1>1 DEF Types, Close, ClosedBy, ClosedWasExecuted
<1>2. CASE UNCHANGED command
  BY <1>2 DEF Types, ClosedWasExecuted
<1> QED BY <1>1, <1>2

LEMMA ReportStep == ASSUME IInv, NEW c \in Commands, Report(c) PROVE IInv'
<1>1. /\ IsFirst(c, todo) /\ executed /\ todo' = todo \ {c} /\ executed' = FALSE
      /\ Close(c) \/ UNCHANGED command
      /\ lateReports' \subseteq lateReports \cup {c}
      /\ UNCHANGED <<stage, pending, acked, metrics, tries>>
  BY DEF Report
<1>2. tries[c] > 0
  BY <1>1 DEF IInv, Executed
<1>3. command' \in [Commands -> {"none", "pending", "closed"}] /\ ClosedWasExecuted'
  BY <1>1, <1>2, CloseFacts DEF IInv, Executed
<1>4. Types'
  BY <1>1, <1>3 DEF IInv, Types, metrics
<1>5. RoundOnly' /\ AckedStored' /\ NothingLost' /\ Oldest'
  BY <1>1, MetricsUntouched DEF IInv, RoundOnly
<1>6. Executed'
  BY <1>1, <1>2, <1>3 DEF IInv, Executed
<1> QED BY <1>4, <1>5, <1>6 DEF IInv

LEMMA LateReportStep == ASSUME IInv, NEW c \in Commands, LateReport(c) PROVE IInv'
<1>1. /\ c \in lateReports /\ Close(c) /\ lateReports' = lateReports \ {c}
      /\ UNCHANGED <<tries, agent, metrics>>
  BY DEF LateReport
<1>2. tries[c] > 0
  BY <1>1 DEF IInv, Executed
<1>3. command' \in [Commands -> {"none", "pending", "closed"}] /\ ClosedWasExecuted'
  BY <1>1, <1>2, CloseFacts DEF IInv, Executed
<1>4. Types'
  BY <1>1, <1>3 DEF IInv, Types, metrics, agent
<1>5. RoundOnly' /\ AckedStored' /\ NothingLost' /\ Oldest'
  BY <1>1, MetricsUntouched DEF IInv, RoundOnly, agent
<1>6. Executed'
  BY <1>1, <1>3 DEF IInv, Executed, IsFirst, agent
<1> QED BY <1>4, <1>5, <1>6 DEF IInv

LEMMA EndCommandsStep == ASSUME IInv, EndCommands PROVE IInv'
<1>1. stage = "commands" /\ stage' = "prune" /\ todo = {}
      /\ UNCHANGED <<pending, acked, todo, executed, metrics, orders>>
  BY DEF EndCommands
<1>2. Types'
  BY <1>1 DEF IInv, Types, Stages, metrics, orders
<1>3. RoundOnly' /\ AckedStored' /\ NothingLost' /\ Oldest'
  BY <1>1, MetricsUntouched DEF IInv, RoundOnly
<1>4. Executed'
  BY <1>1, OrdersUntouched
<1> QED BY <1>2, <1>3, <1>4 DEF IInv

LEMMA CrashStep == ASSUME IInv, Crash PROVE IInv'
<1>1. stage' = "scrape" /\ pending' = {} /\ acked' = {} /\ todo' = {} /\ executed' = FALSE
      /\ UNCHANGED <<metrics, orders>>
  BY DEF Crash
<1>2. Types'
  BY <1>1 DEF IInv, Types, Stages, metrics, orders
<1>3. RoundOnly' /\ AckedStored' /\ NothingLost'
  BY <1>1 DEF IInv, RoundOnly, AckedStored, NothingLost, metrics
<1>4. Oldest'
  BY <1>1 DEF IInv, Oldest, Settled, metrics
<1>5. Executed'
  BY <1>1 DEF IInv, Executed, ClosedWasExecuted, orders
<1> QED BY <1>2, <1>3, <1>4, <1>5 DEF IInv

LEMMA StutterStep == ASSUME IInv, UNCHANGED vars PROVE IInv'
<1>1. UNCHANGED <<agent, metrics, orders>>
  BY DEF vars
<1>2. Types'
  BY <1>1 DEF IInv, Types, agent, metrics, orders
<1>3. RoundOnly' /\ AckedStored' /\ NothingLost' /\ Oldest'
  BY <1>1, MetricsUntouched DEF IInv, RoundOnly, agent
<1>4. Executed'
  BY <1>1, OrdersUntouched DEF agent
<1> QED BY <1>2, <1>3, <1>4 DEF IInv

LEMMA NextIInv == IInv /\ [Next]_vars => IInv'
<1> SUFFICES ASSUME IInv, [Next]_vars PROVE IInv'
  OBVIOUS
<1>1. CASE Scrape
  BY <1>1, ScrapeStep
<1>2. CASE EndPush
  BY <1>2, EndPushStep
<1>3. CASE Poll
  BY <1>3, PollStep
<1>4. CASE EndCommands
  BY <1>4, EndCommandsStep
<1>5. CASE Prune
  BY <1>5, PruneStep
<1>6. CASE \E s \in Samples : Post(s)
  BY <1>6, PostStep
<1>7. CASE \E s \in Samples : PostFails(s)
  BY <1>7, PostFailsStep
<1>8. CASE \E c \in Commands : Execute(c)
  BY <1>8, ExecuteStep
<1>9. CASE \E c \in Commands : Report(c)
  BY <1>9, ReportStep
<1>10. CASE Crash
  BY <1>10, CrashStep
<1>11. CASE \E s \in Samples : Age(s)
  BY <1>11, AgeStep
<1>12. CASE \E s \in Samples : LateStore(s)
  BY <1>12, LateStoreStep
<1>13. CASE \E c \in Commands : ClearCache(c)
  BY <1>13, ClearCacheStep
<1>14. CASE \E c \in Commands : LateReport(c)
  BY <1>14, LateReportStep
<1>15. CASE UNCHANGED vars
  BY <1>15, StutterStep
<1> QED
  BY <1>1, <1>2, <1>3, <1>4, <1>5, <1>6, <1>7, <1>8, <1>9, <1>10, <1>11, <1>12,
     <1>13, <1>14, <1>15 DEF Next, Loop

-----------------------------------------------------------------------------

\* The agent's metrics buffer loses no sample, whatever posts fail, answers are
\* lost or crashes fall between a post and the delete.
THEOREM NoSampleLost == Spec => []NothingLost
<1>1. IInv => NothingLost
  BY DEF IInv
<1> QED BY <1>1, InitIInv, NextIInv, PTL DEF Spec

\* report_command_result closes only what the agent has executed, also when the
\* report arrives after later commands were queued or after a restart.
THEOREM ClosedCommandsRan == Spec => []ClosedWasExecuted
<1>1. IInv => ClosedWasExecuted
  BY DEF IInv, Executed
<1> QED BY <1>1, InitIInv, NextIInv, PTL DEF Spec

\* A sample gets its first row only from a post made when all older ones were
\* settled, also when the primary handles that post late.
LEMMA FirstStoreInOrder ==
  ASSUME IInv, [Next]_vars, NEW s \in Samples, copies[s] = 0, copies'[s] > 0,
         NEW q \in 1 .. s - 1
  PROVE  copies[q] > 0 \/ q \in pruned
<1>1. copies \in [Samples -> Nat]
  BY DEF IInv, Types
<1>2. copies' # copies
  BY <1>1
<1>3. ASSUME NEW r \in Samples, Stored(r) PROVE r = s
  BY <1>1, <1>3 DEF Stored
<1>4. CASE \E r \in Samples : Post(r) \/ PostFails(r)
  <2>1. PICK r \in Samples : Post(r) \/ PostFails(r)
    BY <1>4
  <2>2. IsFirst(r, pending) /\ Stored(r)
    BY <1>2, <2>1 DEF Post, PostFails
  <2>3. r = s
    BY <1>3, <2>2
  <2> QED BY <2>2, <2>3, FirstIsOldest DEF Settled
<1>5. CASE \E r \in Samples : LateStore(r)
  <2>1. PICK r \in Samples : LateStore(r)
    BY <1>5
  <2>2. r = s /\ lateSamples[r] > 0
    BY <1>3, <2>1 DEF LateStore
  <2> QED BY <2>2 DEF IInv, Oldest, Settled
<1>6. Next
  BY <1>2 DEF vars, metrics
<1>7. ~(Scrape \/ EndPush \/ Poll \/ EndCommands \/ Prune \/ Crash)
  BY <1>2 DEF Scrape, EndPush, Poll, EndCommands, Prune, Crash, metrics
<1>8. \A r \in Samples : ~Age(r)
  BY <1>2 DEF Age
<1>9. \A c \in Commands : ~(Execute(c) \/ Report(c) \/ ClearCache(c) \/ LateReport(c))
  BY <1>2 DEF Execute, Report, ClearCache, LateReport, metrics
<1> QED BY <1>4, <1>5, <1>6, <1>7, <1>8, <1>9 DEF Next, Loop

\* The primary's first row of each sample comes in the order in which the agent
\* scraped them, or after the older one was pruned.
THEOREM SamplesFirstStoredInOrder == Spec => FirstsInOrder
<1>1. IInv /\ [Next]_vars =>
        [\A s \in Samples : copies[s] = 0 /\ copies'[s] > 0 =>
           \A q \in 1 .. s - 1 : copies[q] > 0 \/ q \in pruned]_vars
  BY FirstStoreInOrder
<1> QED BY <1>1, InitIInv, NextIInv, PTL DEF Spec, FirstsInOrder

-----------------------------------------------------------------------------
(* The bounds of TypeOK, and what every repetition is paid with *)

\* A round is at most one page, and the faults stay within their bound.
Bounds == Cardinality(pending) <= PeekLimit /\ faults \in 0 .. MaxFaults

\* One row of a sample needs no fault, once the post that made it was answered;
\* a row that is in the buffer and not acknowledged will be posted again.
Spent(s) == IF s \in acked \/ s \notin buffer THEN 1 ELSE 0
SamplesAccounted ==
  /\ pending \cap acked = {}
  /\ \A s \in Samples : copies[s] + lateSamples[s] <= faults + Spent(s)

\* One execution needs no fault: the one about to be reported, or the one whose
\* report closed the command, unless the command was fetched again before that.
Used(c) ==
  IF (executed /\ IsFirst(c, todo)) \/ (c \notin todo /\ command[c] = "closed") THEN 1 ELSE 0
CommandsAccounted == \A c \in Commands : tries[c] <= faults + Used(c)

Accounts == Bounds /\ SamplesAccounted /\ CommandsAccounted

\* The LIMIT of peek: a set of rows that each have fewer than PeekLimit older
\* ones in the buffer has at most PeekLimit members.
LEMMA PeekLimited ==
  ASSUME NEW S, NEW n \in Nat, S \subseteq 1 .. n
  PROVE  Cardinality(Peek(S)) <= PeekLimit
<1> DEFINE Below(x) == {q \in S : q < x}
           P == Peek(S)
           T == 0 .. PeekLimit - 1
           rank == [s \in P |-> Cardinality(Below(s))]
<1>1. P \subseteq S /\ \A s \in P : Cardinality(Below(s)) < PeekLimit
  BY DEF Peek
<1>2. \A x : IsFiniteSet(Below(x)) /\ Cardinality(Below(x)) \in Nat
  <2>1. IsFiniteSet(1 .. n)
    BY FS_Interval
  <2>2. \A x : Below(x) \in SUBSET (1 .. n)
    OBVIOUS
  <2> HIDE DEF Below
  <2> QED BY <2>1, <2>2, FS_Subset, FS_CardinalityType
<1>3. ASSUME NEW s \in S, NEW t \in S, s < t
      PROVE  Cardinality(Below(s)) # Cardinality(Below(t))
  <2>1. s \in 1 .. n /\ t \in 1 .. n
    OBVIOUS
  <2>2. s \in Below(t) /\ s \notin Below(s) /\ Below(s) \in SUBSET Below(t)
    <3>1. s \in Below(t) /\ s \notin Below(s)
      BY <1>3, <2>1
    <3>2. ASSUME NEW q \in S, q < s PROVE q < t
      BY <1>3, <2>1, <3>2
    <3> QED BY <3>1, <3>2
  <2> HIDE DEF Below
  <2>3. Below(s) # Below(t)
    BY <2>2
  <2> QED BY <1>2, <2>2, <2>3, FS_Subset
<1>4. rank \in [P -> T]
  <2>1. \A s \in P : Cardinality(Below(s)) \in T
    <3> HIDE DEF Below
    <3> QED BY <1>1, <1>2
  <2> HIDE DEF Below, P
  <2> QED BY <2>1
<1>5. ASSUME NEW s \in P, NEW t \in P, rank[s] = rank[t] PROVE s = t
  <2>1. Cardinality(Below(s)) = Cardinality(Below(t))
    BY <1>5
  <2>2. s \in S /\ t \in S /\ s \in 1 .. n /\ t \in 1 .. n
    BY <1>1
  <2> HIDE DEF Below
  <2>3. ~(s < t) /\ ~(t < s)
    BY <1>3, <2>1, <2>2
  <2> QED BY <2>2, <2>3
<1>6. rank \in Injection(P, T)
  <2> HIDE DEF rank, P, T
  <2> QED BY <1>4, <1>5 DEF Injection, IsInjective
<1>7. IsFiniteSet(T) /\ Cardinality(T) = PeekLimit
  BY FS_Interval
<1> HIDE DEF rank, P, T
<1>8. Cardinality(P) <= Cardinality(T)
  BY <1>6, <1>7, FS_Injection
<1> QED BY <1>7, <1>8 DEF P

LEMMA InitAccounts == Init => Accounts
<1> SUFFICES ASSUME Init PROVE Accounts
  OBVIOUS
<1>1. Bounds
  <2>1. Cardinality(pending) = 0
    BY FS_EmptySet DEF Init
  <2> QED BY <2>1 DEF Init, Bounds
<1>2. SamplesAccounted
  BY DEF Init, SamplesAccounted, Spent
<1>3. CommandsAccounted
  BY DEF Init, CommandsAccounted, Used
<1> QED BY <1>1, <1>2, <1>3 DEF Accounts

\* A round is filled by peek and otherwise only shrinks.
LEMMA BoundsStep == ASSUME IInv, Bounds, [Next]_vars PROVE Bounds'
<1>1. faults' \in 0 .. MaxFaults
  <2>1. UNCHANGED faults \/ Fault
    BY DEF Next, Loop, vars, Scrape, Post, PostFails, EndPush, Poll, EndCommands, Prune, Age,
           LateStore, ClearCache, Execute, Report, LateReport, Crash
  <2> QED BY <2>1 DEF Bounds, Fault
<1>2. Cardinality(pending') <= PeekLimit
  <2>1. CASE Scrape
    <3>1. pending' = Peek(buffer')
      BY <2>1 DEF Scrape
    <3>2. taken' \in Nat /\ buffer' \subseteq 1 .. taken'
      BY <2>1, ScrapeStep DEF IInv, Types
    <3>3. Cardinality(Peek(buffer')) <= PeekLimit
      BY <3>2, PeekLimited
    <3> QED BY <3>1, <3>3
  <2>2. CASE pending' \subseteq pending
    <3>1. IsFiniteSet(pending)
      <4>1. taken \in Nat /\ pending \subseteq 1 .. taken
        BY DEF IInv, Types
      <4>2. IsFiniteSet(1 .. taken)
        BY <4>1, FS_Interval
      <4> QED BY <4>1, <4>2, FS_Subset
    <3>2. Cardinality(pending') <= Cardinality(pending) /\ Cardinality(pending) \in Nat
          /\ Cardinality(pending') \in Nat
      BY <2>2, <3>1, FS_Subset, FS_CardinalityType
    <3> QED BY <3>2 DEF Bounds
  <2>3. Scrape \/ pending' \subseteq pending
    BY DEF Next, Loop, vars, agent, Post, PostFails, AfterFailure, EndPush, Poll, EndCommands, Prune,
           Age, LateStore, ClearCache, Execute, Report, LateReport, Crash
  <2> QED BY <2>1, <2>2, <2>3
<1> QED BY <1>1, <1>2 DEF Bounds

\* What a step may do to one sample's account.
LEMMA SampleAccount ==
  ASSUME NEW s, NEW n \in 0 .. 1,
         copies[s] \in Nat, lateSamples[s] \in Nat, faults \in Nat, faults' \in Nat,
         copies'[s] \in Nat, lateSamples'[s] \in Nat,
         copies[s] + lateSamples[s] <= faults + Spent(s),
         copies'[s] + lateSamples'[s] <= copies[s] + lateSamples[s] + n,
         faults + Spent(s) + n <= faults' + Spent(s)'
  PROVE  copies'[s] + lateSamples'[s] <= faults' + Spent(s)'
<1>1. Spent(s) \in Nat /\ Spent(s)' \in Nat
  BY DEF Spent
<1> QED BY <1>1

\* Every action but a fault keeps each sample's account, and a fault adds one.
LEMMA SamplesStep == ASSUME IInv, Accounts, [Next]_vars PROVE SamplesAccounted'
<1>0. /\ IInv' /\ faults \in Nat /\ faults' \in Nat
      /\ \A s \in Samples : copies[s] \in Nat /\ lateSamples[s] \in Nat
                            /\ copies'[s] \in Nat /\ lateSamples'[s] \in Nat
      /\ \A s \in Samples : copies[s] + lateSamples[s] <= faults + Spent(s)
      /\ pending \cap acked = {}
  <2>1. IInv' /\ Bounds'
    BY NextIInv, BoundsStep DEF Accounts
  <2> QED BY <2>1 DEF IInv, Types, Accounts, Bounds, SamplesAccounted
<1>1. pending' \cap acked' = {}
  BY <1>0 DEF IInv, RoundOnly, Next, Loop, vars, agent, Scrape, Post, PostFails, AfterFailure,
              EndPush, Poll, EndCommands, Prune, Age, LateStore, ClearCache, Execute, Report,
              LateReport, Crash
<1> SUFFICES ASSUME NEW s \in Samples PROVE copies'[s] + lateSamples'[s] <= faults' + Spent(s)'
  BY <1>1 DEF SamplesAccounted
<1>2. ASSUME NEW n \in 0 .. 1,
             copies'[s] + lateSamples'[s] <= copies[s] + lateSamples[s] + n,
             faults + Spent(s) + n <= faults' + Spent(s)'
      PROVE  copies'[s] + lateSamples'[s] <= faults' + Spent(s)'
  BY <1>0, <1>2, SampleAccount
<1>3. CASE \E r \in Samples : Post(r)
  <2>1. PICK r \in Samples : Post(r)
    BY <1>3
  <2>2. /\ r \in pending /\ r \in buffer /\ r \notin acked
        /\ copies' = [copies EXCEPT ![r] = @ + 1] /\ acked' = acked \cup {r}
        /\ UNCHANGED <<lateSamples, buffer, faults>>
    BY <1>0, <2>1 DEF Post, IsFirst, Stored, IInv, Types
  <2>3. CASE r = s
    <3>1. copies'[s] = copies[s] + 1 /\ lateSamples'[s] = lateSamples[s]
      BY <2>2, <2>3 DEF IInv, Types
    <3>2. Spent(s) = 0 /\ Spent(s)' = 1 /\ faults' = faults
      BY <2>2, <2>3 DEF Spent
    <3> QED BY <1>0, <1>2, <3>1, <3>2
  <2>4. CASE r # s
    <3>1. copies'[s] = copies[s] /\ lateSamples'[s] = lateSamples[s]
      BY <2>2, <2>4 DEF IInv, Types
    <3>2. Spent(s)' = Spent(s) /\ Spent(s) \in Nat /\ faults' = faults
      BY <2>2, <2>4 DEF Spent
    <3> QED BY <1>0, <1>2, <3>1, <3>2
  <2> QED BY <2>3, <2>4
<1>4. CASE \E r \in Samples : PostFails(r)
  <2>1. PICK r \in Samples : PostFails(r)
    BY <1>4
  <2>2. /\ \/ UNCHANGED <<copies, lateSamples>>
           \/ copies' = [copies EXCEPT ![r] = @ + 1] /\ UNCHANGED lateSamples
           \/ lateSamples' = [lateSamples EXCEPT ![r] = @ + 1] /\ UNCHANGED copies
        /\ faults' = faults + 1 /\ UNCHANGED <<acked, buffer>>
    BY <2>1 DEF PostFails, Stored, Fault, AckedOnFailure
  <2>3. copies'[s] + lateSamples'[s] <= copies[s] + lateSamples[s] + 1
    BY <1>0, <2>2 DEF IInv, Types
  <2>4. Spent(s)' = Spent(s) /\ Spent(s) \in Nat
    BY <2>2 DEF Spent
  <2> QED BY <1>0, <1>2, <2>2, <2>3, <2>4
<1>5. CASE \E r \in Samples : LateStore(r)
  <2>1. PICK r \in Samples : LateStore(r)
    BY <1>5
  <2>2. /\ lateSamples[r] > 0 /\ lateSamples' = [lateSamples EXCEPT ![r] = @ - 1]
        /\ copies' = [copies EXCEPT ![r] = @ + 1] /\ UNCHANGED <<acked, buffer, faults>>
    BY <2>1 DEF LateStore, Stored, agent
  <2>3. copies'[s] + lateSamples'[s] = copies[s] + lateSamples[s]
    BY <1>0, <2>2 DEF IInv, Types
  <2>4. Spent(s)' = Spent(s) /\ Spent(s) \in Nat
    BY <2>2 DEF Spent
  <2> QED BY <1>0, <1>2, <2>2, <2>3, <2>4
<1>6. CASE Scrape
  <2>1. UNCHANGED <<copies, lateSamples, acked, faults>> /\ buffer \subseteq buffer'
        /\ buffer' \subseteq buffer \cup {taken + 1}
    BY <1>6 DEF Scrape
  <2>2. CASE s = taken + 1
    <3>1. copies[s] = 0 /\ lateSamples[s] = 0
      BY <1>0, <2>2 DEF IInv, Types, Oldest
    <3>2. Spent(s)' \in Nat
      BY DEF Spent
    <3>3. copies'[s] + lateSamples'[s] <= faults' + Spent(s)'
      BY <1>0, <2>1, <3>1, <3>2
    <3> QED BY <3>3
  <2>3. CASE s # taken + 1
    <3>1. Spent(s)' = Spent(s) /\ Spent(s) \in Nat
      BY <2>1, <2>3 DEF Spent
    <3> QED BY <1>0, <1>2, <2>1, <3>1
  <2> QED BY <2>2, <2>3
<1>7. CASE EndPush \/ Prune
  <2>1. /\ UNCHANGED <<copies, lateSamples, faults>>
        /\ buffer' \subseteq buffer
        /\ s \in acked => s \notin buffer'
    BY <1>7 DEF EndPush, Deletable, Prune, IInv, RoundOnly
  <2>2. Spent(s) <= Spent(s)' /\ Spent(s) \in Nat /\ Spent(s)' \in Nat
    BY <2>1 DEF Spent
  <2> QED BY <1>0, <1>2, <2>1, <2>2
<1>8. CASE Crash
  <2>1. UNCHANGED <<copies, lateSamples, buffer>> /\ faults' = faults + 1
    BY <1>8 DEF Crash, Fault, metrics
  <2>2. Spent(s) \in 0 .. 1 /\ Spent(s)' \in 0 .. 1
    BY DEF Spent
  <2> QED BY <1>0, <1>2, <2>1, <2>2
<1>9. CASE UNCHANGED <<copies, lateSamples, acked, buffer>> /\ (UNCHANGED faults \/ Fault)
  <2>1. Spent(s)' = Spent(s) /\ Spent(s) \in Nat
    BY <1>9 DEF Spent
  <2>2. faults <= faults'
    BY <1>0, <1>9 DEF Fault
  <2> QED BY <1>0, <1>2, <1>9, <2>1, <2>2
<1>10. ASSUME Poll \/ EndCommands \/ (\E r \in Samples : Age(r))
              \/ (\E c \in Commands : Execute(c) \/ Report(c) \/ ClearCache(c) \/ LateReport(c))
              \/ UNCHANGED vars
       PROVE  UNCHANGED <<copies, lateSamples, acked, buffer>> /\ (UNCHANGED faults \/ Fault)
  BY <1>10 DEF Poll, EndCommands, Age, Execute, Report, ClearCache, LateReport, vars, agent, metrics
<1> QED BY <1>3, <1>4, <1>5, <1>6, <1>7, <1>8, <1>9, <1>10 DEF Next, Loop

\* The same for the executions of each command.
LEMMA CommandsStep == ASSUME IInv, Accounts, [Next]_vars PROVE CommandsAccounted'
<1>0. /\ faults \in Nat /\ faults' \in Nat
      /\ tries \in [Commands -> Nat] /\ tries' \in [Commands -> Nat]
      /\ command \in [Commands -> {"none", "pending", "closed"}]
      /\ \A c \in Commands : tries[c] <= faults + Used(c)
  <2>1. IInv' /\ Bounds'
    BY NextIInv, BoundsStep DEF Accounts
  <2> QED BY <2>1 DEF IInv, Types, Accounts, Bounds, CommandsAccounted
<1> SUFFICES ASSUME NEW c \in Commands PROVE tries'[c] <= faults' + Used(c)'
  BY DEF CommandsAccounted
<1>1. Used(c) \in 0 .. 1 /\ Used(c)' \in 0 .. 1 /\ tries[c] \in Nat /\ tries'[c] \in Nat
  BY <1>0 DEF Used
<1>2. CASE \E d \in Commands : Execute(d)
  <2>1. PICK d \in Commands : Execute(d)
    BY <1>2
  <2>2. /\ IsFirst(d, todo) /\ d \in todo /\ executed' = TRUE /\ ~executed
        /\ tries' = [tries EXCEPT ![d] = @ + 1] /\ UNCHANGED <<todo, command, faults>>
    BY <2>1 DEF Execute, IsFirst
  <2>3. CASE c = d
    <3>1. Used(c) = 0 /\ Used(c)' = 1
      BY <2>2, <2>3 DEF Used, IsFirst
    <3>2. tries'[c] = tries[c] + 1
      BY <1>0, <2>2, <2>3
    <3> QED BY <1>0, <1>1, <2>2, <3>1, <3>2
  <2>4. CASE c # d
    <3>1. Used(c) <= Used(c)'
      BY <1>1, <2>2 DEF Used, IsFirst
    <3>2. tries'[c] = tries[c]
      BY <1>0, <2>2, <2>4
    <3> QED BY <1>0, <1>1, <2>2, <3>1, <3>2
  <2> QED BY <2>3, <2>4
<1>3. CASE Fault /\ UNCHANGED tries
  <2>1. faults' = faults + 1
    BY <1>3 DEF Fault
  <2> QED BY <1>0, <1>1, <1>3, <2>1
<1>4. CASE Used(c) <= Used(c)' /\ UNCHANGED <<tries, faults>>
  BY <1>0, <1>1, <1>4
<1>5. CASE \E d \in Commands : Report(d)
  <2>1. PICK d \in Commands : Report(d)
    BY <1>5
  <2>2. CASE Close(d) /\ UNCHANGED faults
    <3>1. IsFirst(d, todo) /\ executed /\ todo' = todo \ {d} /\ UNCHANGED tries
          /\ command'[c] = (IF c = d THEN "closed" ELSE command[c])
      BY <2>1, <2>2 DEF Report, Close, ClosedBy
    <3>2. IsFirst(c, todo) => c = d
      BY <3>1 DEF IsFirst, Commands
    <3>3. Used(c) <= Used(c)'
      BY <1>1, <3>1, <3>2 DEF Used
    <3> QED BY <1>4, <2>2, <3>1, <3>3
  <2> QED BY <1>3, <2>1, <2>2 DEF Report
<1>6. CASE \E d \in Commands : LateReport(d)
  <2>1. PICK d \in Commands : LateReport(d)
    BY <1>6
  <2>2. UNCHANGED <<todo, executed, tries, faults>>
        /\ command'[c] = (IF c = d THEN "closed" ELSE command[c])
    BY <2>1 DEF LateReport, Close, ClosedBy, agent
  <2>3. Used(c) <= Used(c)'
    BY <1>1, <2>2 DEF Used, IsFirst
  <2> QED BY <1>4, <2>2, <2>3
<1>7. CASE \E d \in Commands : ClearCache(d)
  <2>1. PICK d \in Commands : ClearCache(d)
    BY <1>7
  <2>2. command[d] = "none" /\ command' = [command EXCEPT ![d] = "pending"]
        /\ UNCHANGED <<todo, executed, tries, faults>>
    BY <2>1 DEF ClearCache, agent
  <2>3. command[c] = "closed" => command'[c] = "closed"
    BY <1>0, <2>2
  <2>4. Used(c) <= Used(c)'
    BY <1>1, <2>2, <2>3 DEF Used, IsFirst
  <2> QED BY <1>4, <2>2, <2>4
<1>8. CASE Poll
  <2>1. CASE todo' = PendingForNode /\ UNCHANGED faults
    <3>1. ~executed /\ UNCHANGED <<tries, command>>
      BY <1>8 DEF Poll, IInv, RoundOnly, orders
    <3>2. command[c] = "closed" => c \notin todo'
      BY <2>1 DEF PendingForNode
    <3>3. Used(c) <= Used(c)'
      BY <1>1, <3>1, <3>2 DEF Used
    <3> QED BY <1>4, <2>1, <3>1, <3>3
  <2>2. CASE Fault
    BY <1>3, <1>8, <2>2 DEF Poll, orders
  <2> QED BY <1>8, <2>1, <2>2 DEF Poll
<1>9. CASE Crash
  BY <1>3, <1>9 DEF Crash, orders
<1>10. CASE UNCHANGED <<todo, executed, orders>> /\ (UNCHANGED faults \/ Fault)
  <2>1. UNCHANGED <<tries, command, todo, executed>>
    BY <1>10 DEF orders
  <2>2. Used(c)' = Used(c)
    BY <2>1 DEF Used, IsFirst
  <2> QED BY <1>1, <1>3, <1>4, <1>10, <2>1, <2>2
<1>11. ASSUME Scrape \/ EndPush \/ EndCommands \/ Prune
              \/ (\E r \in Samples : Post(r) \/ PostFails(r) \/ Age(r) \/ LateStore(r))
              \/ UNCHANGED vars
       PROVE  UNCHANGED <<todo, executed, orders>> /\ (UNCHANGED faults \/ Fault)
  BY <1>11 DEF Scrape, EndPush, EndCommands, Prune, Post, PostFails, Age, LateStore, vars, agent
<1> QED BY <1>2, <1>5, <1>6, <1>7, <1>8, <1>9, <1>10, <1>11 DEF Next, Loop

LEMMA Accounting == Spec => [](IInv /\ Accounts)
<1>1. Init => IInv /\ Accounts
  BY InitIInv, InitAccounts
<1>2. IInv /\ Accounts /\ [Next]_vars => (IInv /\ Accounts)'
  BY NextIInv, BoundsStep, SamplesStep, CommandsStep DEF Accounts
<1> QED BY <1>1, <1>2, PTL DEF Spec

\* The agent's state and the primary's tables have their types; in particular a
\* round never holds more rows than peek's LIMIT, whatever has piled up.
THEOREM TypeCorrect == Spec => []TypeOK
<1>1. IInv /\ Accounts => TypeOK
  BY DEF IInv, Types, Accounts, Bounds, TypeOK
<1> QED BY <1>1, Accounting, PTL

\* Each repeated row of a sample and each repeated execution of a command is paid
\* for by a fault of its own: a failed or late call, or a crash.
THEOREM RepetitionsExplained == Spec => []RepeatsExplained
<1>1. IInv /\ Accounts => RepeatsExplained
  <2> SUFFICES ASSUME IInv, Accounts PROVE RepeatsExplained
    OBVIOUS
  <2>1. faults \in Nat /\ copies \in [Samples -> Nat] /\ lateSamples \in [Samples -> Nat]
        /\ tries \in [Commands -> Nat]
    BY DEF IInv, Types, Accounts, Bounds
  <2>2. ASSUME NEW s \in Samples PROVE copies[s] <= 1 + faults
    <3>1. copies[s] + lateSamples[s] <= faults + Spent(s) /\ Spent(s) \in 0 .. 1
      BY DEF Accounts, SamplesAccounted, Spent
    <3> QED BY <2>1, <3>1
  <2>3. ASSUME NEW c \in Commands PROVE tries[c] <= 1 + faults
    <3>1. tries[c] <= faults + Used(c) /\ Used(c) \in 0 .. 1
      BY DEF Accounts, CommandsAccounted, Used
    <3> QED BY <2>1, <3>1
  <2> QED BY <2>2, <2>3 DEF RepeatsExplained
<1> QED BY <1>1, Accounting, PTL
=============================================================================
