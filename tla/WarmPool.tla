------------------------------ MODULE WarmPool ------------------------------
(***************************************************************************)
(* What a boot burst promises its caller: every pair it is given is        *)
(* settled once, as warmed or as failed, in any order, and it returns only *)
(* when all are settled.  How fast, with how many workers and after how    *)
(* many attempts is left open.                                             *)
(***************************************************************************)
CONSTANT Pairs     \* (qname, qtype) pairs

VARIABLES
  outcome,  \* [Pairs -> "idle" | "open" | "ok" | "failed"]
  closed    \* the burst has returned

poolVars == <<outcome, closed>>

Outcomes == {"idle", "open", "ok", "failed"}

PoolTypeOK == outcome \in [Pairs -> Outcomes] /\ closed \in BOOLEAN

\* The pairs given to the burst.
Given == {p \in Pairs : outcome[p] # "idle"}

PoolInit(given) ==
  /\ outcome = [p \in Pairs |-> IF p \in given THEN "open" ELSE "idle"]
  /\ closed = FALSE

Settle(p, o) ==
  /\ ~closed /\ outcome[p] = "open"
  /\ o \in {"ok", "failed"}
  /\ outcome' = [outcome EXCEPT ![p] = o]
  /\ closed' = closed

Close ==
  /\ ~closed
  /\ \A p \in Pairs : outcome[p] # "open"
  /\ closed' = TRUE
  /\ outcome' = outcome

PoolNext == Close \/ \E p \in Pairs, o \in Outcomes : Settle(p, o)

PoolSpec == (\E given \in SUBSET Pairs : PoolInit(given)) /\ [][PoolNext]_poolVars
=============================================================================
