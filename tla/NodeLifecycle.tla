---------------------------- MODULE NodeLifecycle ----------------------------
(***************************************************************************)
(* The life of a node row on the primary: the node-sync handlers           *)
(* (register, heartbeat, metrics, ingest), the node_state_transitions job, *)
(* the operator's pages and the local node's bootstrap and metrics job.    *)
(*                                                                         *)
(* A handler is two steps: it loads the row, and later commits.  The ORM   *)
(* writes only the columns whose value differs from the loaded one, so a   *)
(* handler that loaded "active" and sets "active" does not write the       *)
(* status back.  The job is one transaction of bulk UPDATEs.               *)
(*                                                                         *)
(* Time is the age of last_seen, saturating above the last threshold: the  *)
(* code only compares ages with thresholds.                                *)
(***************************************************************************)
EXTENDS Naturals

CONSTANTS
  Nodes,       \* node names
  Local,       \* the primary's own node (settings.node_name)
  StaleAge,    \* health_stale_minutes (5)
  OfflineAge,  \* health_offline_minutes (30)
  QuarantineAge,  \* health_quarantine_threshold_minutes (1440)
  Never        \* last_seen IS NULL

MaxAge == QuarantineAge + 1

ASSUME LocalAssumption == Local \in Nodes
ASSUME AgeAssumption ==
  /\ StaleAge \in Nat /\ OfflineAge \in Nat /\ QuarantineAge \in Nat
  /\ StaleAge < OfflineAge /\ OfflineAge < QuarantineAge
ASSUME NeverAssumption == Never \notin Nat

VARIABLES
  row,    \* the nodes table: [status, age] or absent
  keyed,  \* the deployed package holds the row's API key
  agent,  \* the node's sync-agent: "down", "registering" or "running"
  req     \* handlers in flight: the status the row had when it was loaded

vars == <<row, keyed, agent, req>>

Statuses == {"pending", "active", "stale", "offline", "quarantine", "error"}
Absent == [status |-> "absent", age |-> Never]
Rows == [status : Statuses, age : (0 .. MaxAge) \cup {Never}]
\* The agent gives a request up after 10 s and sends the next one while the
\* primary may still be running the first: one request of each kind at a time.
\* "scrape" is the primary's own local_metrics job.
Handlers == {"register", "heartbeat", "metrics", "ingest", "scrape"}

NoReqs == [h \in Handlers |-> "none"]

TypeOK ==
  /\ row \in [Nodes -> Rows \cup {Absent}]
  /\ keyed \in [Nodes -> BOOLEAN]
  /\ agent \in [Nodes -> {"down", "registering", "running"}]
  /\ req \in [Nodes -> [Handlers -> Statuses \cup {"none"}]]

\* The first bootstrap_primary_node has inserted the local node (named "primary"
\* by default, a name nodes_delete refuses); no secondary is generated yet.
Init ==
  /\ row = [n \in Nodes |-> IF n = Local THEN [status |-> "active", age |-> 0]
                                         ELSE Absent]
  /\ keyed = [n \in Nodes |-> n = Local]
  /\ agent = [n \in Nodes |-> "down"]
  /\ req = [n \in Nodes |-> NoReqs]

-----------------------------------------------------------------------------
(* Handlers: load, then commit *)

\* get_node_from_api_key: the row is loaded, or the request is refused (401).
Load(n, h) ==
  /\ req[n][h] = "none"
  /\ row[n] # Absent /\ keyed[n]
  /\ req' = [req EXCEPT ![n][h] = row[n].status]
  /\ UNCHANGED <<row, keyed, agent>>

\* The agent registers until it succeeds, then its loop sends the others.
SendRegister(n)  == agent[n] = "registering" /\ Load(n, "register")
SendHeartbeat(n) == agent[n] = "running" /\ Load(n, "heartbeat")
SendMetrics(n)   == agent[n] = "running" /\ Load(n, "metrics")

\* The dnstap-processor of a secondary, or the one beside the primary.
SendIngest(n) == (n = Local \/ agent[n] # "down") /\ Load(n, "ingest")

\* scrape_local_recursor_metrics finds the local node only while it is active;
\* its HTTP request comes between the load and the commit.
ScrapeLocal == row[Local].status = "active" /\ Load(Local, "scrape")

\* heartbeat subtracts last_seen, read back from a TIMESTAMP column and so
\* without a time zone, from an aware now: Python raises TypeError, the handler
\* answers 500 and nothing is committed.  A stale or offline row always has a
\* last_seen, so the branches behind the subtraction are not reached.
HeartbeatRaises(loaded) == loaded \in {"stale", "offline"}

\* Mutants: ingest records last_seen only; only a first contact activates.
AssignedNotByIngest(h, loaded) ==
  IF h \in {"heartbeat", "ingest"} THEN loaded ELSE "active"
AssignedOnFirstContact(h, loaded) ==
  IF loaded = "pending" THEN "active" ELSE loaded

\* The status a handler assigns to a row it loaded with status `loaded'; the
\* scrape job sets last_seen only.
Assigned(h, loaded) ==
  IF h = "scrape" \/ (h = "heartbeat" /\ loaded \in {"error", "quarantine"})
  THEN loaded ELSE "active"

\* UPDATE nodes: last_seen always, status only when it differs from the loaded one.
Committed(r, h, loaded) ==
  [age |-> 0,
   status |-> IF Assigned(h, loaded) # loaded THEN Assigned(h, loaded) ELSE r.status]

Commit(n, h) ==
  LET loaded == req[n][h] IN
  /\ loaded # "none"
  /\ ~(h = "heartbeat" /\ HeartbeatRaises(loaded))
  /\ row' = [row EXCEPT ![n] = Committed(@, h, loaded)]
  /\ agent' = [agent EXCEPT ![n] =
                 IF h = "register" /\ @ = "registering" THEN "running" ELSE @]
  /\ req' = [req EXCEPT ![n][h] = "none"]
  /\ UNCHANGED keyed

\* The handler raises, the database refuses, the scrape finds no recursor, or ingest returns early because
\* no event of the batch validates: nothing is written.
Fail(n, h) ==
  /\ req[n][h] # "none"
  /\ req' = [req EXCEPT ![n][h] = "none"]
  /\ UNCHANGED <<row, keyed, agent>>

-----------------------------------------------------------------------------
(* Scheduler jobs *)

Older(r, limit) == r.age # Never /\ r.age > limit

\* Mutants: demoted at the threshold; only rows that have just become overdue.
ToStaleEarly(r) ==
  IF r.status = "active" /\ r.age # Never /\ r.age >= StaleAge
  THEN [r EXCEPT !.status = "stale"] ELSE r
ToStaleOnce(r) ==
  IF r.status = "active" /\ r.age = StaleAge + 1 THEN [r EXCEPT !.status = "stale"] ELSE r

\* Two bulk UPDATEs of one transaction, the second on the result of the first.
ToStale(r) ==
  IF r.status = "active" /\ Older(r, StaleAge) THEN [r EXCEPT !.status = "stale"] ELSE r
ToOffline(r) ==
  IF r.status = "stale" /\ Older(r, OfflineAge) THEN [r EXCEPT !.status = "offline"] ELSE r

NodeStateTransitionsJob ==
  /\ row' = [n \in Nodes |-> ToOffline(ToStale(row[n]))]
  /\ UNCHANGED <<keyed, agent, req>>

\* bootstrap_primary_node at a later start of admin-ui: last_seen of the local
\* row, not its status; requests in flight are gone.
Restart ==
  /\ row' = [row EXCEPT ![Local].age = 0]
  /\ req' = [n \in Nodes |-> NoReqs]
  /\ UNCHANGED <<keyed, agent>>

-----------------------------------------------------------------------------
(* The operator *)

\* nodes_generate creates the row with a fresh key if there is none; the
\* downloaded package is deployed and its agent starts.
Generate(n) ==
  /\ n # Local
  /\ row' = [row EXCEPT ![n] = IF @ = Absent THEN [status |-> "pending", age |-> Never]
                                             ELSE @]
  /\ keyed' = [keyed EXCEPT ![n] = TRUE]
  /\ agent' = [agent EXCEPT ![n] = "registering"]
  /\ UNCHANGED req

\* nodes_delete; the agent keeps running with a key that no longer exists, and
\* an UPDATE of a handler in flight finds no row and fails.  The local node is
\* not deletable under its default name.
Delete(n) ==
  /\ n # Local /\ row[n] # Absent
  /\ row' = [row EXCEPT ![n] = Absent]
  /\ keyed' = [keyed EXCEPT ![n] = FALSE]
  /\ req' = [req EXCEPT ![n] = NoReqs]
  /\ UNCHANGED agent

\* The secondary loses power, or comes back and registers again.
PowerOff(n) ==
  /\ agent[n] # "down"
  /\ agent' = [agent EXCEPT ![n] = "down"]
  /\ UNCHANGED <<row, keyed, req>>

PowerOn(n) ==
  /\ n # Local /\ agent[n] = "down" /\ keyed[n]
  /\ agent' = [agent EXCEPT ![n] = "registering"]
  /\ UNCHANGED <<row, keyed, req>>

\* A unit of time passes.
Older1(r) == IF r.age = Never \/ r.age = MaxAge THEN r ELSE [r EXCEPT !.age = @ + 1]
Pass ==
  /\ row' = [n \in Nodes |-> Older1(row[n])]
  /\ UNCHANGED <<keyed, agent, req>>

Next ==
  \/ \E n \in Nodes :
       \/ SendRegister(n) \/ SendHeartbeat(n) \/ SendMetrics(n) \/ SendIngest(n)
       \/ \E h \in Handlers : Commit(n, h) \/ Fail(n, h)
       \/ Generate(n) \/ Delete(n) \/ PowerOff(n) \/ PowerOn(n)
  \/ NodeStateTransitionsJob \/ ScrapeLocal \/ Restart \/ Pass

Spec == Init /\ [][Next]_vars
-----------------------------------------------------------------------------
(* Properties *)

(***************************************************************************)
(* A row is pending exactly until its first contact is committed: however  *)
(* handlers overlap with each other and with the job, none leaves a node   *)
(* with a last_seen in "pending" (the job would never look at it) or one   *)
(* without a last_seen in another status (the job would never demote it).  *)
(***************************************************************************)
PendingUntilContact ==
  \A n \in Nodes :
    row[n] # Absent => (row[n].status = "pending" <=> row[n].age = Never)

(***************************************************************************)
(* No step takes a node out of "active" unless its last_seen is overdue at *)
(* that moment: a handler that commits late never writes an old status     *)
(* back over a newer one.                                                  *)
(***************************************************************************)
DemotedOnlyWhenOverdue ==
  [][\A n \in Nodes :
       row[n].status = "active" /\ row'[n].status \in Statuses \ {"active"}
         => Older(row[n], StaleAge)]_vars

(***************************************************************************)
(* The transition job notices a silent node: one that stays overdue does   *)
(* not stay "active".                                                      *)
(***************************************************************************)
SilentNodeDemoted ==
  \A n \in Nodes :
    <>[](Older(row[n], StaleAge)) => <>[](row[n].status # "active")

(***************************************************************************)
(* A node that is never again away for longer than the quarantine          *)
(* threshold, and whose metrics or query events keep being committed, is   *)
(* "active" again and again, although the UPDATE of one handler may leave  *)
(* a status the job wrote meanwhile.  After a longer absence the policy    *)
(* document asks for "quarantine" instead; nothing is claimed of it here.  *)
(***************************************************************************)
ContactRevives ==
  \A n \in Nodes :
    <>[](~Older(row[n], QuarantineAge))
      => ([]<><<Commit(n, "metrics") \/ Commit(n, "ingest")>>_vars
            => []<>(row[n].status = "active"))

\* The scheduler runs the job every minute for as long as admin-ui runs.
Fairness == WF_vars(NodeStateTransitionsJob)
FairSpec == Spec /\ Fairness

(***************************************************************************)
(* "STALE | ACTIVE | Successful heartbeat"                                 *)
(* (docs/NODE_LIFECYCLE_AND_QUARANTINE_POLICY.md): a stale or offline      *)
(* secondary whose agent runs, whose heartbeats reach the primary and are  *)
(* served returns to "active" or to "quarantine".                          *)
(***************************************************************************)
HeartbeatRevives ==
  \A n \in Nodes \ {Local} :
    row[n].status \in {"stale", "offline"} /\ agent[n] = "running"
      ~> row[n].status \in {"active", "quarantine", "absent"} \/ agent[n] # "running"

\* The agent's loop sends a heartbeat every minute and the primary serves it.
HeartbeatFairness ==
  \A n \in Nodes \ {Local} :
    /\ SF_vars(SendHeartbeat(n))
    /\ SF_vars(Commit(n, "heartbeat"))
    /\ WF_vars(Fail(n, "heartbeat"))
HeartbeatSpec == FairSpec /\ HeartbeatFairness
=============================================================================
