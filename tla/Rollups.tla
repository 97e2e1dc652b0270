------------------------------- MODULE Rollups -------------------------------
(***************************************************************************)
(* Hourly and daily rollups of the query log, and retention.  At five past *)
(* every hour rollup_job runs under its lock; POST /jobs/rollup runs the   *)
(* same code at any time and without the lock, so that any number of runs  *)
(* may overlap.  The reader of the rollups is in Dashboard.                *)
(*                                                                         *)
(* Time is counted in half-hours; an event of tick t lies in [t, t + 1).   *)
(* A row keeps its total only: the other columns are filled by the same    *)
(* statements.  The key of a row is its node, or NULL for the events that  *)
(* a deleted node left behind; internal events are in no count and are not *)
(* represented.                                                            *)
(***************************************************************************)
EXTENDS Integers, Sequences, FiniteSets, SequencesExt

CONSTANTS
  Runs,         \* runs of run_rollup_job, scheduled or asked for
  HoursPerDay,  \* 24
  StartTick,    \* when the behaviour begins
  MaxTick,      \* bound on the clock
  MaxEvents,    \* bound on stored events
  MaxStarts,    \* bound on the runs started
  Ages,         \* how late an event may be stored
  Window,       \* hours the dashboard shows (24)
  EventDays,    \* retention_events_days
  RollupDays    \* retention_rollups_days

DailyHours == 2   \* run_rollup_job computes the day before while now.hour < 2

ASSUME RollupAssumption ==
  /\ HoursPerDay \in Nat /\ HoursPerDay > DailyHours
  /\ StartTick \in Nat /\ StartTick >= 2 * HoursPerDay
  /\ MaxTick \in Nat /\ MaxTick > StartTick
  /\ MaxEvents \in Nat /\ MaxStarts \in Nat /\ Ages \subseteq 1 .. StartTick
  /\ Window \in Nat /\ 2 * Window <= StartTick
  /\ EventDays \in Nat \ {0} /\ RollupDays \in Nat \ {0}

MaxHour == MaxTick \div 2
Ticks == 0 .. 2 * MaxHour + 1
Hours == 0 .. MaxHour
Days == 0 .. MaxHour \div HoursPerDay
HourOf(t) == t \div 2
DayOf(h) == h \div HoursPerDay
TicksPerDay == 2 * HoursPerDay

Keys == {"node", "null"}
Grans == {"hourly", "daily"}
Buckets == ({"hourly"} \X Hours) \cup ({"daily"} \X Days)
StartOf(b) == IF b[1] = "hourly" THEN 2 * b[2] ELSE TicksPerDay * b[2]

NoCounts == [k \in Keys |-> 0]
\* One run_rollup_job: the hour it read from the clock, the tables it has yet to
\* write, the aggregate it read, the rows it found, the keys deleted
\* since; whether an event or another run overtook it is for stating.
Off == [stage |-> "off", hour |-> 0, plan |-> <<>>, got |-> NoCounts,
        found |-> NoCounts, gone |-> {}, overtaken |-> FALSE]

VARIABLES
  now,
  events,     \* [Ticks -> [Keys -> Nat]]: dns_query_events
  rows,       \* [Buckets -> [Keys -> Seq(Nat)]]: query_rollups
  run,        \* [Runs -> run]
  starts,     \* runs started
  retaining,  \* run_retention_job has committed its first deletion only
  clean,      \* hours whose last commit missed nothing and was alone (for stating)
  healed,     \* days summed up by a complete last daily run (for stating)
  excused     \* buckets of overlapping runs or hit by retention (for stating)

vars == <<now, events, rows, run, starts, retaining, clean, healed, excused>>

Total(s) == SumFunction(s)
CountIn(h, k) == events[2 * h][k] + events[2 * h + 1][k]
InTick(t) == events[t]["node"] + events[t]["null"]
PerTick == [t \in Ticks |-> InTick(t)]
Stored == SumFunction(PerTick)

\* Mutant: the day before the day before.
WritesTooFar(h, gran) == IF gran = "hourly" THEN <<"hourly", h - 1>> ELSE <<"daily", DayOf(h) - 2>>
\* previous_hour, previous_day
Writes(h, gran) == IF gran = "hourly" THEN <<"hourly", h - 1>> ELSE <<"daily", DayOf(h) - 1>>
Bucket(r) == Writes(run[r].hour, Head(run[r].plan))

TypeOK ==
  /\ now \in Ticks
  /\ events \in [Ticks -> [Keys -> 0 .. MaxEvents]]
  /\ rows \in [Buckets -> [Keys -> Seq(Nat)]]
  /\ \A r \in Runs :
       /\ run[r].stage \in {"off", "next", "read", "looked"}
       /\ run[r].hour \in Hours /\ run[r].plan \in Seq(Grans)
       /\ run[r].stage # "off" => Bucket(r) \in Buckets
       /\ run[r].got \in [Keys -> Nat] /\ run[r].found \in [Keys -> 0 .. 1]
       /\ run[r].gone \subseteq Keys /\ run[r].overtaken \in BOOLEAN
  /\ starts \in 0 .. MaxStarts /\ retaining \in BOOLEAN
  /\ clean \subseteq Hours /\ healed \subseteq Days /\ excused \subseteq Buckets

Init ==
  /\ now = StartTick
  /\ events = [t \in Ticks |-> NoCounts]
  /\ rows = [b \in Buckets |-> [k \in Keys |-> <<>>]]
  /\ run = [r \in Runs |-> Off]
  /\ starts = 0 /\ retaining = FALSE
  /\ clean = {} /\ healed = {} /\ excused = {}

-----------------------------------------------------------------------------
(* run_rollup_job *)

Active == {r \in Runs : run[r].stage # "off"}
Stating == <<clean, healed, excused>>

\* Mutant: the day before is summed up in the first hour only.
PlanOnce(h) == IF h % HoursPerDay < 1 THEN <<"hourly", "daily">> ELSE <<"hourly">>
\* The hour before, and early in the day the day before.
Plan(h) == IF h % HoursPerDay < DailyHours THEN <<"hourly", "daily">> ELSE <<"hourly">>

BucketsOf(h) == {Writes(h, gran) : gran \in Range(Plan(h))}

HoursOf(d) == {h \in Hours : DayOf(h) = d}

Hourly(k) == [h \in Hours |-> Total(rows[<<"hourly", h>>][k])]

\* The GROUP BY: events of the hour, or hourly rows of the day.
Aggregate(b) ==
  [k \in Keys |-> IF b[1] = "hourly" THEN CountIn(b[2], k)
                  ELSE SumFunctionOnSet(Hourly(k), HoursOf(b[2]))]

\* The clock is read, and then the events.
Start(r) ==
  LET h == HourOf(now) IN
  /\ run[r].stage = "off" /\ starts < MaxStarts
  /\ starts' = starts + 1
  /\ run' = [a \in Runs |->
       IF a \in Active THEN [run[a] EXCEPT !.overtaken = TRUE]
       ELSE IF a = r THEN [stage |-> "read", hour |-> h, plan |-> Plan(h),
                           got |-> Aggregate(Writes(h, "hourly")), found |-> NoCounts,
                           gone |-> {}, overtaken |-> Active # {}]
       ELSE Off]
  /\ excused' = IF Active = {} THEN excused
                ELSE excused \cup BucketsOf(h) \cup UNION {BucketsOf(run[a].hour) : a \in Active}
  /\ UNCHANGED <<now, events, rows, retaining, clean, healed>>

\* compute_daily_rollup, after the commit of the hour.
ReadDay(r) ==
  /\ run[r].stage = "next"
  /\ run' = [run EXCEPT ![r].stage = "read", ![r].got = Aggregate(Bucket(r))]
  /\ UNCHANGED <<now, starts, events, rows, retaining, Stating>>

\* filter(client_id == ..., node_id == ...), where None becomes IS NULL.
Matching(b, k) == Len(rows[b][k])

Wanted(r) == {k \in Keys : run[r].got[k] > 0}

\* one_or_none for every group
Lookup(r) ==
  /\ run[r].stage = "read"
  /\ \A k \in Wanted(r) : Matching(Bucket(r), k) <= 1
  /\ run' = [run EXCEPT ![r].stage = "looked",
               ![r].found = [k \in Keys |-> IF k \in Wanted(r) THEN Matching(Bucket(r), k) ELSE 0]]
  /\ UNCHANGED <<now, starts, events, rows, retaining, Stating>>

\* Mutant: no unique constraint.
ConflictsNever(b, k) == FALSE
\* uq_rollup_bucket, which does not bind rows with a NULL.
Conflicts(b, k) == k # "null" /\ rows[b][k] # <<>>

\* The INSERTs and UPDATEs of the commit go through.
CanCommit(r) ==
  \A k \in Wanted(r) :
    k \notin run[r].gone /\ (run[r].found[k] = 0 => ~Conflicts(Bucket(r), k))

\* Mutant: a row that is there is kept as it is.
WrittenOnce(s, found, got) == IF found = 1 THEN s ELSE Append(s, got)
\* The row that was found gets the new total, or a new row is added.
Written(s, found, got) == IF found = 1 THEN [s EXCEPT ![1] = got] ELSE Append(s, got)

Commit(r) ==
  LET b == Bucket(r)
      rest == Tail(run[r].plan)
      h == run[r].hour
  IN
  /\ run[r].stage = "looked" /\ CanCommit(r)
  /\ rows' = [rows EXCEPT ![b] = [k \in Keys |->
       IF k \in Wanted(r) THEN Written(@[k], run[r].found[k], run[r].got[k]) ELSE @[k]]]
  /\ run' = [run EXCEPT ![r] = IF rest = <<>> THEN Off
                               ELSE [Off EXCEPT !.stage = "next", !.hour = h, !.plan = rest]]
  /\ clean' = IF b[1] = "daily" THEN clean
              ELSE IF run[r].overtaken THEN clean \ {b[2]} ELSE clean \cup {b[2]}
  /\ healed' = IF rest = <<>> /\ h % HoursPerDay = DailyHours - 1
               THEN healed \cup {DayOf(h) - 1} ELSE healed
  /\ UNCHANGED <<now, starts, events, retaining, excused>>

\* MultipleResultsFound, IntegrityError, StaleDataError, a lost connection, a
\* restart of the process: the run ends, what it committed before stays.
Fail(r) ==
  /\ run[r].stage # "off"
  /\ run' = [run EXCEPT ![r] = Off]
  /\ UNCHANGED <<now, starts, events, rows, retaining, Stating>>

-----------------------------------------------------------------------------
(* Events, nodes, retention *)

Overtake(H) ==
  [r \in Runs |-> IF run[r].stage \in {"read", "looked"} /\ run[r].hour - 1 \in H
                  THEN [run[r] EXCEPT !.overtaken = TRUE] ELSE run[r]]

\* Ingest, of events that may have waited in a buffer.
StoreEvent ==
  /\ Stored < MaxEvents
  /\ \E t \in {now - a : a \in Ages} :
       /\ events' = [events EXCEPT ![t]["node"] = @ + 1]
       /\ run' = Overtake({HourOf(t)})
       /\ clean' = clean \ {HourOf(t)}
  /\ UNCHANGED <<now, starts, rows, retaining, healed, excused>>

\* nodes_delete: events keep their row with node_id NULL, rollups go.
DeleteNode ==
  LET H == {h \in Hours : CountIn(h, "node") > 0} IN
  /\ \/ H # {}
     \/ \E b \in Buckets : rows[b]["node"] # <<>>
  /\ events' = [t \in Ticks |-> [events[t] EXCEPT !["null"] = @ + events[t]["node"], !["node"] = 0]]
  /\ rows' = [b \in Buckets |-> [rows[b] EXCEPT !["node"] = <<>>]]
  /\ run' = [r \in Runs |-> IF "node" \in Wanted(r)
                            THEN [Overtake(H)[r] EXCEPT !.gone = @ \cup {"node"}]
                            ELSE Overtake(H)[r]]
  /\ clean' = clean \ H
  /\ UNCHANGED <<now, starts, retaining, healed, excused>>

Cutoff(days) == now - TicksPerDay * days

\* cleanup_old_events
RetainEvents ==
  LET H == {h \in Hours : 2 * h < Cutoff(EventDays)} IN
  /\ ~retaining /\ H # {} /\ retaining' = TRUE
  /\ events' = [t \in Ticks |-> IF t < Cutoff(EventDays) THEN NoCounts ELSE events[t]]
  /\ run' = Overtake(H)
  /\ clean' = clean \ H
  /\ UNCHANGED <<now, starts, rows, healed, excused>>

\* cleanup_old_rollups, in a transaction of its own
RetainRollups ==
  LET old == {b \in Buckets : StartOf(b) < Cutoff(RollupDays)} IN
  /\ retaining /\ retaining' = FALSE
  /\ rows' = [b \in Buckets |-> IF b \in old THEN [k \in Keys |-> <<>>] ELSE rows[b]]
  /\ run' = [r \in Runs |->
       IF run[r].stage = "looked" /\ Bucket(r) \in old
       THEN [run[r] EXCEPT !.gone = @ \cup {k \in Keys : run[r].found[k] = 1}]
       ELSE run[r]]
  /\ excused' = excused \cup old
  /\ clean' = {h \in clean : <<"hourly", h>> \notin old}
  /\ UNCHANGED <<now, starts, events, healed>>

\* A failed deletion, or a restart, ends run_retention_job half done.
RetentionFails ==
  /\ retaining /\ retaining' = FALSE
  /\ UNCHANGED <<now, starts, events, rows, run, Stating>>

\* Half an hour passes.  A run ends before the hour after its own does.
Tick ==
  /\ now < MaxTick
  /\ \A r \in Active : HourOf(now + 1) <= run[r].hour + 1
  /\ now' = now + 1
  /\ UNCHANGED <<starts, events, rows, run, retaining, Stating>>

RunStep(r) == ReadDay(r) \/ Lookup(r) \/ Commit(r) \/ Fail(r)

Next ==
  \/ \E r \in Runs : Start(r) \/ RunStep(r)
  \/ StoreEvent \/ DeleteNode \/ RetainEvents \/ RetainRollups \/ RetentionFails \/ Tick

Spec == Init /\ [][Next]_vars

-----------------------------------------------------------------------------
(* Properties *)

\* A bucket has one row per key, also after failures and repeated runs.  Only
\* NULL keys can have two, and only where a button and the job overlapped.
UniqueRows ==
  \A b \in Buckets, k \in Keys :
    Len(rows[b][k]) > 1 => k = "null" /\ b \in excused

\* The rows of an hour count its events exactly once a run that no other run
\* overlapped has read them all, however often it is rolled up and whatever
\* failed, raced or was deleted before.
HourlyExact ==
  \A h \in clean, k \in Keys : Total(rows[<<"hourly", h>>][k]) = CountIn(h, k)

\* When the run of the day's second hour has completed, the rows of the day
\* before are the sums of its hourly rows, even if the run of the first hour
\* stopped between its two transactions.
DailyHealed ==
  \A d \in healed, k \in Keys :
    (\A b \in {<<"daily", d>>} \cup ({"hourly"} \X HoursOf(d)) : b \notin excused)
      => Total(rows[<<"daily", d>>][k]) = Aggregate(<<"daily", d>>)[k]
=============================================================================
