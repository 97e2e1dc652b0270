------------------------- MODULE NodeLifecycleProofs -------------------------
(***************************************************************************)
(* Proofs about NodeLifecycle, for any set of nodes and any thresholds.    *)
(***************************************************************************)
EXTENDS NodeLifecycle, TLAPS

(***************************************************************************)
(* A handler in flight has a row to write to, and if it loaded a status    *)
(* other than "pending" then the row has left "pending" for good.  This is *)
(* what makes PendingUntilContact inductive: a handler that leaves the     *)
(* status column alone leaves one that is not "pending".  The scrape job   *)
(* loaded an active row.                                                   *)
(***************************************************************************)
LoadedNotAhead ==
  \A n \in Nodes : \A h \in Handlers :
    req[n][h] # "none" =>
      /\ row[n] # Absent
      /\ req[n][h] # "pending" => row[n].status # "pending"
      /\ h = "scrape" => req[n][h] = "active"

\* The local node always has a row, with a last_seen: it is inserted with one.
LocalSeen == row[Local] \in Rows /\ row[Local].age # Never

IInv == TypeOK /\ PendingUntilContact /\ LoadedNotAhead /\ LocalSeen

\* MaxAge is the largest age; ages compare with thresholds.
LEMMA AgeFacts ==
  /\ MaxAge \in Nat /\ 0 \in 0 .. MaxAge
  /\ Never \notin 0 .. MaxAge
  BY AgeAssumption, NeverAssumption DEF MaxAge

\* The absent row is no row of the table.
LEMMA AbsentFacts ==
  /\ Absent \notin Rows
  /\ Absent.status = "absent"
  BY DEF Absent, Rows, Statuses

\* The record of a row has a status and an age of the right type.
LEMMA RowFacts ==
  ASSUME NEW r \in Rows
  PROVE  /\ r.status \in Statuses
         /\ r.age \in (0 .. MaxAge) \cup {Never}
         /\ r # Absent
  BY AbsentFacts DEF Rows

\* A contact leaves a row with last_seen now and a status of the table.
LEMMA CommittedFacts ==
  ASSUME NEW r \in Rows, NEW h \in Handlers, NEW loaded \in Statuses,
         loaded # "pending" => r.status # "pending",
         h = "scrape" => loaded = "active"
  PROVE  /\ Committed(r, h, loaded) \in Rows
         /\ Committed(r, h, loaded).age = 0
         /\ Committed(r, h, loaded).status # "pending"
         /\ r.status = "active" => Committed(r, h, loaded).status = "active"
  <1>1. Assigned(h, loaded) \in Statuses
    BY DEF Assigned, Statuses
  <1>2. Assigned(h, loaded) # loaded => Assigned(h, loaded) = "active"
    BY DEF Assigned
  <1>3. Assigned(h, loaded) = loaded => loaded # "pending"
    BY DEF Assigned
  <1> QED BY <1>1, <1>2, <1>3, AgeFacts, RowFacts DEF Committed, Rows, Statuses

\* The job leaves last_seen alone and demotes only overdue rows.
LEMMA JobFacts ==
  ASSUME NEW r \in Rows
  PROVE  LET j == ToOffline(ToStale(r)) IN
         /\ j \in Rows
         /\ j.age = r.age
         /\ j.status = r.status \/ (j.status \in {"stale", "offline"} /\ r.age # Never)
         /\ r.status = "active" /\ j.status # "active" => Older(r, StaleAge)
  <1>1. /\ ToStale(r) \in Rows /\ ToStale(r).age = r.age
        /\ ToStale(r).status = r.status
             \/ (ToStale(r).status = "stale" /\ r.status = "active" /\ Older(r, StaleAge))
    BY DEF ToStale, Rows, Statuses
  <1> DEFINE s == ToStale(r)
  <1> HIDE DEF s
  <1>2. ASSUME s \in Rows
        PROVE  /\ ToOffline(s) \in Rows /\ ToOffline(s).age = s.age
               /\ ToOffline(s).status = s.status
                    \/ (ToOffline(s).status = "offline" /\ s.status = "stale"
                          /\ s.age # Never)
    BY <1>2 DEF ToOffline, Rows, Statuses, Older
  <1> QED BY <1>1, <1>2, AgeFacts DEF s, Older

\* The job finds no row to change where there is none.
LEMMA JobAbsent == ToOffline(ToStale(Absent)) = Absent
  BY DEF ToOffline, ToStale, Absent

\* Time changes no status and gives no row its first contact.
LEMMA PassFacts ==
  ASSUME NEW r \in Rows
  PROVE  /\ Older1(r) \in Rows
         /\ Older1(r).status = r.status
         /\ Older1(r).age = Never <=> r.age = Never
  <1>1. CASE r.age = Never \/ r.age = MaxAge
    BY <1>1 DEF Older1
  <1>2. CASE ~(r.age = Never \/ r.age = MaxAge)
    <2>1. r.age \in 0 .. MaxAge /\ r.age + 1 \in 0 .. MaxAge
      BY <1>2, RowFacts, AgeFacts
    <2>2. Older1(r) = [r EXCEPT !.age = r.age + 1]
      BY <1>2 DEF Older1
    <2>3. \A a \in 0 .. MaxAge :
            /\ [r EXCEPT !.age = a] \in Rows
            /\ [r EXCEPT !.age = a].status = r.status
            /\ [r EXCEPT !.age = a].age = a
      BY DEF Rows
    <2> QED BY <2>1, <2>2, <2>3, AgeFacts
  <1> QED BY <1>1, <1>2

\* Time passes for no row where there is none.
LEMMA PassAbsent == Older1(Absent) = Absent
  BY DEF Older1, Absent

-----------------------------------------------------------------------------
\* The state right after bootstrap satisfies the inductive invariant.
LEMMA InitIInv == Init => IInv
  <1> SUFFICES ASSUME Init PROVE IInv
    OBVIOUS
  <1>1. [status |-> "active", age |-> 0] \in Rows
    BY AgeFacts DEF Rows, Statuses
  <1>2. TypeOK
    BY <1>1 DEF Init, TypeOK, NoReqs
  <1>3. PendingUntilContact
    BY AgeFacts DEF Init, PendingUntilContact
  <1>4. LoadedNotAhead
    BY DEF Init, LoadedNotAhead, NoReqs
  <1>5. LocalSeen
    BY <1>1, LocalAssumption, AgeFacts DEF Init, LocalSeen
  <1> QED BY <1>2, <1>3, <1>4, <1>5 DEF IInv

\* Every step preserves the inductive invariant.
LEMMA NextIInv == IInv /\ [Next]_vars => IInv'
  <1> SUFFICES ASSUME IInv, [Next]_vars PROVE IInv'
    OBVIOUS
  <1> USE DEF IInv
  <1>1. ASSUME NEW n \in Nodes, NEW h \in Handlers, Load(n, h),
               h = "scrape" => row[n].status = "active"
        PROVE  IInv'
    <2>1. row[n].status \in Statuses /\ row[n] # Absent
      BY <1>1, RowFacts DEF Load, TypeOK
    <2>2. TypeOK'
      BY <1>1, <2>1 DEF Load, TypeOK
    <2>3. PendingUntilContact'
      BY <1>1 DEF Load, PendingUntilContact
    <2>4. LoadedNotAhead'
      BY <1>1, <2>1 DEF Load, LoadedNotAhead, TypeOK
    <2>5. LocalSeen'
      BY <1>1 DEF Load, LocalSeen
    <2> QED BY <2>2, <2>3, <2>4, <2>5
  <1>2. ASSUME NEW n \in Nodes, NEW h \in Handlers, Commit(n, h)
        PROVE  IInv'
    <2> DEFINE new == Committed(row[n], h, req[n][h])
    <2>1. /\ row[n] \in Rows
          /\ req[n][h] \in Statuses
          /\ req[n][h] # "pending" => row[n].status # "pending"
          /\ h = "scrape" => req[n][h] = "active"
      BY <1>2 DEF Commit, LoadedNotAhead, TypeOK
    <2>2. new \in Rows /\ new.age = 0 /\ new.status # "pending"
      BY <2>1, CommittedFacts
    <2>3. /\ row' = [row EXCEPT ![n] = new]
          /\ req' = [req EXCEPT ![n][h] = "none"]
          /\ agent' \in [Nodes -> {"down", "registering", "running"}]
          /\ UNCHANGED keyed
      BY <1>2 DEF Commit, TypeOK
    <2> HIDE DEF new
    <2>4. TypeOK'
      BY <2>2, <2>3 DEF TypeOK
    <2>5. PendingUntilContact'
      BY <2>2, <2>3, AgeFacts DEF PendingUntilContact, TypeOK
    <2>6. LoadedNotAhead'
      BY <2>2, <2>3, RowFacts DEF LoadedNotAhead, TypeOK
    <2>7. LocalSeen'
      BY <2>2, <2>3, AgeFacts DEF LocalSeen, TypeOK
    <2> QED BY <2>4, <2>5, <2>6, <2>7
  <1>3. ASSUME NEW n \in Nodes, NEW h \in Handlers, Fail(n, h)
        PROVE  IInv'
    BY <1>3 DEF Fail, TypeOK, PendingUntilContact, LoadedNotAhead, LocalSeen
  <1>4. ASSUME NodeStateTransitionsJob
        PROVE  IInv'
    <2>1. ASSUME NEW n \in Nodes
          PROVE  /\ row'[n] \in Rows \cup {Absent}
                 /\ row'[n] = Absent <=> row[n] = Absent
                 /\ row[n] # Absent =>
                      /\ row'[n].age = row[n].age
                      /\ row'[n].status = "pending" <=> row[n].status = "pending"
      <3>1. row'[n] = ToOffline(ToStale(row[n]))
        BY <1>4 DEF NodeStateTransitionsJob
      <3>2. CASE row[n] = Absent
        BY <3>1, <3>2, JobAbsent
      <3>3. CASE row[n] \in Rows
        <4>1. row[n].status = "pending" <=> row[n].age = Never
          BY <3>3, RowFacts DEF PendingUntilContact
        <4> QED BY <3>1, <3>3, <4>1, JobFacts, RowFacts
      <3> QED BY <3>2, <3>3 DEF TypeOK
    <2>2. row' \in [Nodes -> Rows \cup {Absent}] /\ UNCHANGED <<keyed, agent, req>>
      BY <1>4, <2>1 DEF NodeStateTransitionsJob
    <2>3. TypeOK'
      BY <2>2 DEF TypeOK
    <2>4. PendingUntilContact'
      BY <2>1 DEF PendingUntilContact
    <2>5. LoadedNotAhead'
      BY <2>1, <2>2 DEF LoadedNotAhead
    <2>6. LocalSeen'
      BY <2>1, LocalAssumption, RowFacts DEF LocalSeen
    <2> QED BY <2>3, <2>4, <2>5, <2>6
  <1>5. ASSUME Pass
        PROVE  IInv'
    <2>1. ASSUME NEW n \in Nodes
          PROVE  /\ row'[n] \in Rows \cup {Absent}
                 /\ row'[n] = Absent <=> row[n] = Absent
                 /\ row[n] # Absent =>
                      /\ row'[n].status = row[n].status
                      /\ row'[n].age = Never <=> row[n].age = Never
      BY <1>5, PassFacts, PassAbsent, RowFacts DEF Pass, TypeOK
    <2>2. row' \in [Nodes -> Rows \cup {Absent}] /\ UNCHANGED <<keyed, agent, req>>
      BY <1>5, <2>1 DEF Pass
    <2>3. TypeOK'
      BY <2>2 DEF TypeOK
    <2>4. PendingUntilContact'
      BY <2>1 DEF PendingUntilContact
    <2>5. LoadedNotAhead'
      BY <2>1, <2>2 DEF LoadedNotAhead
    <2>6. LocalSeen'
      BY <2>1, LocalAssumption, RowFacts DEF LocalSeen
    <2> QED BY <2>3, <2>4, <2>5, <2>6
  \* Restart refreshes the local node's last_seen.
  <1>6. ASSUME Restart
        PROVE  IInv'
    <2> DEFINE new == [row[Local] EXCEPT !.age = 0]
    <2>1. new \in Rows /\ new.age = 0 /\ new.status = row[Local].status
      BY AgeFacts DEF Rows, LocalSeen
    <2>2. /\ row' = [row EXCEPT ![Local] = new] /\ req' = [n \in Nodes |-> NoReqs]
          /\ UNCHANGED <<keyed, agent>>
      BY <1>6 DEF Restart
    <2>3. row[Local].status # "pending"
      BY LocalAssumption, RowFacts DEF LocalSeen, PendingUntilContact
    <2> HIDE DEF new
    <2>4. TypeOK'
      <3>1. req' \in [Nodes -> [Handlers -> Statuses \cup {"none"}]]
        <4>1. NoReqs \in [Handlers -> Statuses \cup {"none"}]
          BY DEF NoReqs
        <4> QED BY <2>2, <4>1 DEF TypeOK
      <3>2. row' \in [Nodes -> Rows \cup {Absent}]
        BY <2>1, <2>2 DEF TypeOK
      <3> QED BY <2>2, <3>1, <3>2 DEF TypeOK
    <2>5. PendingUntilContact'
      BY <2>1, <2>2, <2>3, AgeFacts DEF PendingUntilContact, TypeOK
    <2>6. LoadedNotAhead'
      BY <2>2 DEF LoadedNotAhead, NoReqs
    <2>7. LocalSeen'
      BY <2>1, <2>2, LocalAssumption, AgeFacts DEF LocalSeen, TypeOK
    <2> QED BY <2>4, <2>5, <2>6, <2>7
  <1>7. ASSUME NEW n \in Nodes, Generate(n)
        PROVE  IInv'
    <2> DEFINE fresh == [status |-> "pending", age |-> Never]
    <2>1. fresh \in Rows /\ fresh.status = "pending" /\ fresh.age = Never
      BY DEF Rows, Statuses
    <2>2. \/ row[n] # Absent /\ row' = row
          \/ row[n] = Absent /\ row' = [row EXCEPT ![n] = fresh]
      BY <1>7 DEF Generate, TypeOK
    <2> HIDE DEF fresh
    <2>3. TypeOK'
      BY <1>7, <2>1, <2>2 DEF Generate, TypeOK
    <2>4. PendingUntilContact'
      BY <2>1, <2>2 DEF PendingUntilContact, TypeOK
    <2>5. LoadedNotAhead'
      BY <1>7, <2>1, <2>2, RowFacts DEF Generate, LoadedNotAhead, TypeOK
    <2>6. LocalSeen'
      BY <1>7, <2>2, LocalAssumption DEF Generate, LocalSeen, TypeOK
    <2> QED BY <2>3, <2>4, <2>5, <2>6
  <1>8. ASSUME NEW n \in Nodes, Delete(n)
        PROVE  IInv'
    <2>1. TypeOK'
      BY <1>8 DEF Delete, TypeOK, NoReqs
    <2>2. PendingUntilContact'
      BY <1>8 DEF Delete, PendingUntilContact, TypeOK
    <2>3. LoadedNotAhead'
      BY <1>8 DEF Delete, LoadedNotAhead, TypeOK, NoReqs
    <2>4. LocalSeen'
      BY <1>8 DEF Delete, LocalSeen, TypeOK
    <2> QED BY <2>1, <2>2, <2>3, <2>4
  <1>9. ASSUME NEW n \in Nodes, PowerOff(n) \/ PowerOn(n)
        PROVE  IInv'
    <2>1. /\ agent' \in [Nodes -> {"down", "registering", "running"}]
          /\ UNCHANGED <<row, keyed, req>>
      BY <1>9 DEF PowerOff, PowerOn, TypeOK
    <2> QED BY <2>1 DEF TypeOK, PendingUntilContact, LoadedNotAhead, LocalSeen
  <1>10. CASE UNCHANGED vars
    BY <1>10 DEF vars, TypeOK, PendingUntilContact, LoadedNotAhead, LocalSeen
  <1>11. ASSUME NEW n \in Nodes,
                SendRegister(n) \/ SendHeartbeat(n) \/ SendMetrics(n) \/ SendIngest(n)
         PROVE  IInv'
    BY <1>1, <1>11 DEF SendRegister, SendHeartbeat, SendMetrics, SendIngest, Handlers
  <1>12. CASE ScrapeLocal
    BY <1>1, <1>12, LocalAssumption DEF ScrapeLocal, Handlers
  <1> QED
    BY <1>2, <1>3, <1>4, <1>5, <1>6, <1>7, <1>8, <1>9, <1>10, <1>11, <1>12 DEF Next

-----------------------------------------------------------------------------
\* The inductive invariant holds of every reachable state.
THEOREM Invariance == Spec => []IInv
  <1> QED BY InitIInv, NextIInv, PTL DEF Spec

\* The node table, the deployed keys, the agents and the handlers in flight
\* always have the values the code can give them.
THEOREM TypeCorrect == Spec => []TypeOK
  <1>1. IInv => TypeOK
    BY DEF IInv
  <1> QED BY <1>1, Invariance, PTL

\* However handlers, the job and the operator overlap, a node is "pending"
\* exactly until its first contact.
THEOREM PendingExactlyUntilContact == Spec => []PendingUntilContact
  <1>1. IInv => PendingUntilContact
    BY DEF IInv
  <1> QED BY <1>1, Invariance, PTL

\* No handler that commits late demotes a node that is not overdue.
THEOREM NoSpuriousDemotion == Spec => DemotedOnlyWhenOverdue
  <1> DEFINE A == \A n \in Nodes :
                    row[n].status = "active" /\ row'[n].status \in Statuses \ {"active"}
                      => Older(row[n], StaleAge)
  <1>1. ASSUME IInv, [Next]_vars PROVE [A]_vars
    <2> SUFFICES ASSUME Next, NEW n \in Nodes, row[n].status = "active",
                        row'[n].status \in Statuses \ {"active"}
                 PROVE  Older(row[n], StaleAge)
      BY <1>1 DEF A
    <2> USE <1>1 DEF IInv
    <2>1. row[n] \in Rows
      BY AbsentFacts DEF TypeOK
    <2>2. row'[n] # row[n]
      OBVIOUS
    <2>3. ASSUME NEW m \in Nodes, NEW h \in Handlers, Commit(m, h) PROVE FALSE
      <3>1. /\ row[m] \in Rows
            /\ req[m][h] \in Statuses
            /\ req[m][h] # "pending" => row[m].status # "pending"
            /\ h = "scrape" => req[m][h] = "active"
        BY <2>3 DEF Commit, LoadedNotAhead, TypeOK
      <3>2. row[m].status = "active" => Committed(row[m], h, req[m][h]).status = "active"
        BY <3>1, CommittedFacts
      <3>3. row'[m] = Committed(row[m], h, req[m][h]) /\ (m # n => row'[n] = row[n])
        BY <2>3 DEF Commit, TypeOK
      <3> QED BY <3>2, <3>3, <2>2
    <2>4. CASE NodeStateTransitionsJob
      BY <2>1, <2>4, JobFacts DEF NodeStateTransitionsJob
    <2>5. CASE Pass
      BY <2>1, <2>5, PassFacts DEF Pass
    <2>6. CASE Restart
      <3>1. row'[n].status = row[n].status
        BY <2>1, <2>6 DEF Restart, TypeOK, Rows
      <3> QED BY <3>1
    <2>7. ASSUME NEW m \in Nodes, Generate(m) \/ Delete(m) PROVE FALSE
      <3>1. CASE m # n
        BY <2>2, <2>7, <3>1 DEF Generate, Delete, TypeOK
      <3>2. CASE m = n
        BY <2>1, <2>7, <3>2, RowFacts, AbsentFacts DEF Generate, Delete, TypeOK, Statuses
      <3> QED BY <3>1, <3>2
    <2>8. ASSUME UNCHANGED row PROVE FALSE
      BY <2>2, <2>8
    <2> QED
      BY <2>3, <2>4, <2>5, <2>6, <2>7, <2>8
      DEF Next, SendRegister, SendHeartbeat, SendMetrics, SendIngest, ScrapeLocal, Load, Fail,
          PowerOff, PowerOn
  <1> QED BY <1>1, Invariance, PTL DEF Spec, DemotedOnlyWhenOverdue, A
=============================================================================
