----------------------------- MODULE AgentQueues -----------------------------
(***************************************************************************)
(* The two queues between a secondary's sync-agent and the primary: metric *)
(* samples, buffered in SQLite on the secondary and posted one by one, and *)
(* commands, kept by the primary and fetched by polling.  Neither carries  *)
(* an identity that would let the receiver recognise a repetition.         *)
(*                                                                         *)
(* A request the agent gives up on may never reach the primary, may have   *)
(* been handled with only the answer lost, or may be handled later.        *)
(* Samples and commands are numbered in the order they are made.           *)
(***************************************************************************)
EXTENDS Naturals, FiniteSets

CONSTANTS
  PeekLimit,    \* samples posted per round (50)
  MaxSamples, MaxCommands,
  MaxFaults     \* bound on lost requests, lost answers and crashes

Samples == 1 .. MaxSamples
Commands == 1 .. MaxCommands

ASSUME QueueAssumption ==
  /\ PeekLimit \in Nat \ {0} /\ MaxSamples \in Nat
  /\ MaxCommands \in Nat /\ MaxFaults \in Nat

VARIABLES
  taken,        \* samples scraped so far
  buffer,       \* metrics_queue
  aged,         \* samples older than max_age_seconds
  stage,        \* where the agent's loop is
  pending,      \* what peek returned and is not yet posted
  acked,        \* ids_to_delete
  todo,         \* commands fetched and not yet done with
  executed,     \* the first of them has been executed
  copies,       \* rows of node_metrics for each sample
  command,      \* node_commands: "none", "pending" or "closed"
  lateSamples,  \* posts of samples the primary will still handle
  lateReports,  \* reports of commands the primary will still handle
  faults,
  tries,        \* how often each command was executed (for stating)
  pruned        \* samples deleted for their age (for stating)

agent == <<stage, pending, acked, todo, executed>>
metrics == <<taken, buffer, aged, copies, lateSamples, pruned>>
orders == <<command, lateReports, tries>>
vars == <<agent, metrics, orders, faults>>

Stages == {"scrape", "push", "poll", "commands", "prune"}

TypeOK ==
  /\ taken \in 0 .. MaxSamples
  /\ buffer \subseteq 1 .. taken /\ aged \subseteq 1 .. taken /\ pruned \subseteq aged
  /\ stage \in Stages
  /\ pending \subseteq buffer /\ Cardinality(pending) <= PeekLimit
  /\ acked \subseteq buffer
  /\ todo \subseteq Commands /\ executed \in BOOLEAN
  /\ copies \in [Samples -> Nat]
  /\ command \in [Commands -> {"none", "pending", "closed"}]
  /\ lateSamples \in [Samples -> Nat] /\ lateReports \subseteq Commands
  /\ faults \in 0 .. MaxFaults /\ tries \in [Commands -> Nat]

Init ==
  /\ taken = 0 /\ buffer = {} /\ aged = {} /\ pruned = {}
  /\ stage = "scrape" /\ pending = {} /\ acked = {} /\ todo = {} /\ executed = FALSE
  /\ copies = [s \in Samples |-> 0] /\ lateSamples = [s \in Samples |-> 0]
  /\ command = [c \in Commands |-> "none"] /\ tries = [c \in Commands |-> 0]
  /\ lateReports = {} /\ faults = 0

IsFirst(x, S) == x \in S /\ \A y \in S : x <= y
Fault == faults < MaxFaults /\ faults' = faults + 1

-----------------------------------------------------------------------------
(* Metrics: scrape, put, peek, post, delete, prune *)

\* Mutants: LIMIT forgotten; nothing is sent before a batch is full.
PeekAll(S) == S
PeekBatch(S) == {s \in S : Cardinality({q \in S : q < s}) < PeekLimit /\ Cardinality(S) >= PeekLimit}
\* ORDER BY id ASC LIMIT ?
Peek(S) == {s \in S : Cardinality({q \in S : q < s}) < PeekLimit}

\* A sample is scraped and put, or the scrape failed; then peek.
Scrape ==
  /\ stage = "scrape"
  /\ \/ taken' = taken /\ buffer' = buffer
     \/ taken < MaxSamples /\ taken' = taken + 1 /\ buffer' = buffer \cup {taken + 1}
  /\ pending' = Peek(buffer')
  /\ stage' = "push"
  /\ UNCHANGED <<aged, acked, todo, executed, copies, lateSamples, pruned, orders, faults>>

Stored(s) == copies' = [copies EXCEPT ![s] = @ + 1]

\* The primary stored the sample and its answer came in time.
Post(s) ==
  /\ stage = "push" /\ IsFirst(s, pending)
  /\ Stored(s)
  /\ acked' = acked \cup {s} /\ pending' = pending \ {s}
  /\ UNCHANGED <<stage, todo, executed, taken, buffer, aged, lateSamples, pruned, orders, faults>>

\* Mutant: `continue' for `break'.
AfterFailureOn(s) == pending \ {s}
\* `break'
AfterFailure(s) == {}

\* Mutant: the id is noted before the status is looked at.
AckedAnyway(s) == acked \cup {s}
AckedOnFailure(s) == acked

\* An exception or a status of 300 and above.
PostFails(s) ==
  /\ stage = "push" /\ IsFirst(s, pending) /\ Fault
  /\ \/ UNCHANGED <<copies, lateSamples>>
     \/ Stored(s) /\ UNCHANGED lateSamples
     \/ lateSamples' = [lateSamples EXCEPT ![s] = @ + 1] /\ UNCHANGED copies
  /\ acked' = AckedOnFailure(s) /\ pending' = AfterFailure(s)
  /\ UNCHANGED <<stage, todo, executed, taken, buffer, aged, pruned, orders>>

\* Mutant: the last acknowledged row is not deleted.
DeletableButLast == {s \in acked : \E q \in acked : q > s}
Deletable == acked

\* metrics_buffer.delete(ids_to_delete)
EndPush ==
  /\ stage = "push" /\ pending = {}
  /\ buffer' = buffer \ Deletable /\ acked' = {}
  /\ stage' = "poll"
  /\ UNCHANGED <<pending, todo, executed, taken, aged, copies, lateSamples, pruned, orders, faults>>

\* Every 300 seconds.
Prune ==
  /\ stage = "prune" /\ stage' = "scrape"
  /\ \/ buffer' = buffer \ aged /\ pruned' = pruned \cup (buffer \cap aged)
     \/ UNCHANGED <<buffer, pruned>>
  /\ UNCHANGED <<pending, acked, todo, executed, taken, aged, copies, lateSamples, orders, faults>>

\* A week passes: requests about the sample are long gone.
Age(s) ==
  /\ s \in buffer \ aged /\ lateSamples[s] = 0
  /\ \A q \in buffer : q < s => q \in aged
  /\ aged' = aged \cup {s}
  /\ UNCHANGED <<taken, buffer, copies, lateSamples, pruned, agent, orders, faults>>

\* The primary handles a request whose sender has stopped waiting.
LateStore(s) ==
  /\ lateSamples[s] > 0 /\ lateSamples' = [lateSamples EXCEPT ![s] = @ - 1]
  /\ Stored(s)
  /\ UNCHANGED <<taken, buffer, aged, pruned, agent, orders, faults>>

-----------------------------------------------------------------------------
(* Commands: clear_cache, poll, execute, report *)

\* A command for the node, while its status is "active".
ClearCache(c) ==
  /\ command[c] = "none" /\ \A d \in Commands : d < c => command[d] # "none"
  /\ command' = [command EXCEPT ![c] = "pending"]
  /\ UNCHANGED <<lateReports, tries, agent, metrics, faults>>

\* executed_at IS NULL, for this node
PendingForNode == {c \in Commands : command[c] = "pending"}

\* get_commands, or a failure
Poll ==
  /\ stage = "poll"
  /\ \/ todo' = PendingForNode /\ stage' = "commands" /\ UNCHANGED faults
     \/ todo' = {} /\ stage' = "prune" /\ Fault
  /\ UNCHANGED <<pending, acked, executed, metrics, orders>>

\* clear_recursor_cache; whether it succeeded is reported and changes nothing.
Execute(c) ==
  /\ stage = "commands" /\ IsFirst(c, todo) /\ ~executed
  /\ tries' = [tries EXCEPT ![c] = @ + 1] /\ executed' = TRUE
  /\ UNCHANGED <<stage, pending, acked, todo, metrics, command, lateReports, faults>>

\* Mutant: what is closed is the node's queue.
ClosedByNode(c) == PendingForNode \cup {c}
ClosedBy(c) == {c}

\* report_command_result: closed, whatever the result was.
Close(c) == command' = [d \in Commands |-> IF d \in ClosedBy(c) THEN "closed" ELSE command[d]]

\* The agent goes on to the next command whether or not the report got through.
Report(c) ==
  /\ stage = "commands" /\ IsFirst(c, todo) /\ executed
  /\ \/ Close(c) /\ UNCHANGED <<lateReports, faults>>
     \/ Fault /\ lateReports' = lateReports \cup {c} /\ UNCHANGED command
     \/ Fault /\ UNCHANGED <<lateReports, command>>
  /\ todo' = todo \ {c} /\ executed' = FALSE
  /\ UNCHANGED <<stage, pending, acked, metrics, tries>>

LateReport(c) ==
  /\ c \in lateReports /\ lateReports' = lateReports \ {c}
  /\ Close(c)
  /\ UNCHANGED <<tries, agent, metrics, faults>>

EndCommands ==
  /\ stage = "commands" /\ todo = {}
  /\ stage' = "prune"
  /\ UNCHANGED <<pending, acked, todo, executed, metrics, orders, faults>>

-----------------------------------------------------------------------------

\* The agent is killed and started again: the buffer is on a volume.
Crash ==
  /\ Fault
  /\ stage' = "scrape" /\ pending' = {} /\ acked' = {} /\ todo' = {} /\ executed' = FALSE
  /\ UNCHANGED <<metrics, orders>>

Loop ==
  \/ Scrape \/ EndPush \/ Poll \/ EndCommands \/ Prune
  \/ \E s \in Samples : Post(s) \/ PostFails(s)
  \/ \E c \in Commands : Execute(c) \/ Report(c)

Next ==
  \/ Loop \/ Crash
  \/ \E s \in Samples : Age(s) \/ LateStore(s)
  \/ \E c \in Commands : ClearCache(c) \/ LateReport(c)

Spec == Init /\ [][Next]_vars

\* The agent's thread runs; every call has a timeout.
FairSpec == Spec /\ WF_vars(Loop)

-----------------------------------------------------------------------------
(* Properties *)

\* No sample is lost to failed posts, lost answers or crashes: it is buffered,
\* stored, or was deleted because it was a week old.
NothingLost ==
  \A s \in 1 .. taken : s \in buffer \/ copies[s] > 0 \/ s \in pruned

\* A sample is stored again, or a command executed again, only because of a
\* fault, and at most once for each.
RepeatsExplained ==
  /\ \A s \in Samples : copies[s] <= 1 + faults
  /\ \A c \in Commands : tries[c] <= 1 + faults

\* A sample is first stored when no older one is still waiting, also when posts
\* fail, are answered late or are handled after the agent has given up.
FirstsInOrder ==
  [][\A s \in Samples : copies[s] = 0 /\ copies'[s] > 0 =>
       \A q \in 1 .. s - 1 : copies[q] > 0 \/ q \in pruned]_vars

\* A command is closed only after the agent has executed it, also one queued
\* between the agent's poll and its report.
ClosedWasExecuted == \A c \in Commands : command[c] = "closed" => tries[c] > 0

\* Both queues drain once the faults end: every buffered sample leaves the buffer
\* and every queued command is closed, however many wait before it.
QueuesDrain ==
  /\ \A s \in Samples : s \in buffer ~> s \notin buffer
  /\ \A c \in Commands : command[c] = "pending" ~> command[c] = "closed"
=============================================================================
