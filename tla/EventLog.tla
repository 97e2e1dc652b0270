------------------------------ MODULE EventLog ------------------------------
(***************************************************************************)
(* What the query-event path of PowerBlockade promises: an event that a    *)
(* dnstap-processor accepted into its on-disk buffer stays pending until   *)
(* the primary has stored it or until it is given up (pruned by age, or    *)
(* refused by the ingest schema); a stored event stays stored.  A given-up *)
(* event may still be stored when a request that timed out at the client   *)
(* is committed late.                                                      *)
(***************************************************************************)
CONSTANT Events

VARIABLES
  pending,   \* accepted, neither stored nor given up
  stored,    \* in the primary's dns_query_events
  givenUp    \* accepted, no longer buffered, never stored

vars == <<pending, stored, givenUp>>

TypeOK ==
  /\ pending \subseteq Events
  /\ stored  \subseteq Events
  /\ givenUp \subseteq Events

Init ==
  /\ pending = {}
  /\ stored  = {}
  /\ givenUp = {}

\* A batch of new events becomes durable.
Accept(S) ==
  /\ S \cap (pending \cup stored \cup givenUp) = {}
  /\ pending' = pending \cup S
  /\ UNCHANGED <<stored, givenUp>>

\* The primary stores some of the accepted events.
Store(S) ==
  /\ S \subseteq pending \cup givenUp
  /\ pending' = pending \ S
  /\ givenUp' = givenUp \ S
  /\ stored'  = stored \cup S

\* Some pending events are given up.
GiveUp(S) ==
  /\ S \subseteq pending
  /\ pending' = pending \ S
  /\ givenUp' = givenUp \cup S
  /\ UNCHANGED stored

Next == \E S \in SUBSET Events : Accept(S) \/ Store(S) \/ GiveUp(S)

Spec == Init /\ [][Next]_vars
=============================================================================
